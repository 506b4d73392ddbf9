------------------------------ MODULE HashStream ------------------------------
(***************************************************************************)
(* The hash API of leancrypto (hash/src/hash.c): init, update, final on a  *)
(* context that the caller keeps and re-uses, for Keccak (sha3_c.c), Ascon *)
(* (ascon_hash.h) and SHA-256 (sha256.c; SHA-512 differs in widths only).  *)
(* What must come out does not depend on how the caller cuts the message   *)
(* and the output of an XOF into pieces.                                   *)
(***************************************************************************)
EXTENDS Sponge

CONSTANTS
  Hashes,        \* algorithms: a subset of {"keccak", "ascon", "sha2"}
  Pieces,        \* lengths of updates
  Digests,       \* digest sizes set before a final (XOF), not 0
  B,             \* block size of the SHA-2 hash
  LengthBytes,   \* bytes of a block that hold the message length
  MaxHashed,     \* bound: length of a message
  MaxDigest      \* bound: length of the output of one message

ASSUME HashAssumption ==
  /\ RateAssumption
  /\ Hashes \subseteq {"keccak", "ascon", "sha2"}
  /\ Pieces \subseteq Nat /\ Digests \subseteq Nat \ {0}
  /\ B \in Nat /\ LengthBytes \in Nat /\ B > LengthBytes
  /\ MaxHashed \in Nat /\ MaxDigest \in Nat

VARIABLES
  hash,          \* the algorithm of the context
  ctx,           \* hash_ctx->hash_state
  message,       \* history: the bytes given to update since init
  digest,        \* history: the bytes put out since init
  cuts           \* history: has an update ended on a block boundary that it
                 \* did not start on?

hashVars == <<hash, ctx, message, digest, cuts>>

-----------------------------------------------------------------------------
(* SHA-256.  The chaining value is the sequence of the blocks transformed. *)

Zero == 0
Bit == -1
LengthField(n) == -10 - n     \* the bytes of the message length, as one

FreshSha2 == [H |-> <<>>, partial |-> [i \in 1..B |-> Zero], msg_len |-> 0]

\* memcpy into the partial buffer, from position at on.
Copy(p, at, in) ==
  [i \in 1..B |-> IF i \in at + 1..at + Len(in) THEN in[i - at] ELSE p[i]]

\* lc_sha256_update.
Sha2Update(c, in) ==
  LET partial == c.msg_len % B
      todo == B - partial
      fill == IF partial = 0 THEN 0 ELSE todo
      rest == SubSeq(in, fill + 1, Len(in))
      full == Len(rest) \div B
      first == IF partial = 0 THEN <<>>
               ELSE <<Copy(c.partial, partial, SubSeq(in, 1, todo))>>
      blocks == [b \in 1..full |-> SubSeq(rest, (b - 1) * B + 1, b * B)]
      tail == SubSeq(rest, full * B + 1, Len(rest))
  IN IF partial # 0 /\ Len(in) < todo
     THEN [H |-> c.H, partial |-> Copy(c.partial, partial, in),
           msg_len |-> c.msg_len + Len(in)]
     ELSE [H |-> c.H \o first \o blocks,
           partial |-> Copy(IF partial = 0 THEN c.partial ELSE first[1],
                            0, tail),
           msg_len |-> c.msg_len + Len(in)]

\* memset(partial + at, 0).
ZeroFrom(p, at) == [i \in 1..B |-> IF i > at THEN Zero ELSE p[i]]

\* lc_sha256_final: the digest is the final chaining value, which is then
\* zeroized; the length stays shifted.
Sha2Final(c) ==
  LET partial == (c.msg_len % B) + 1
      marked == Copy(c.partial, partial - 1, <<Bit>>)
      full == partial > B - LengthBytes
      extra == IF full THEN <<ZeroFrom(marked, partial)>> ELSE <<>>
      last == Copy(ZeroFrom(marked, IF full THEN 0 ELSE partial), B - LengthBytes,
                   <<LengthField(c.msg_len)>>)
  IN [ctx |-> [H |-> <<>>, partial |-> [i \in 1..B |-> Zero],
               msg_len |-> c.msg_len * 8],
      out |-> <<c.H \o extra \o <<last>>>>]

-----------------------------------------------------------------------------
(* The dispatch of hash.c.                                                 *)

Fresh(h) == IF h = "sha2" THEN FreshSha2 ELSE FreshContext

Updated(h, c, in) ==
  CASE h = "keccak" -> KeccakAbsorb(c, in)
    [] h = "ascon"  -> AsconAbsorb(c, in)
    [] h = "sha2"   -> Sha2Update(c, in)

\* lc_hash_set_digestsize and lc_hash_final.
Final(h, c, n) ==
  CASE h = "keccak" -> KeccakSqueeze(c, n)
    [] h = "ascon"  -> AsconSqueeze(c, n)
    [] h = "sha2"   -> Sha2Final(c)

\* LC_HASH_CTX_ON_STACK, then lc_hash_init.
HashInit ==
  /\ hash \in Hashes
  /\ ctx = Fresh(hash)
  /\ message = <<>> /\ digest = <<>> /\ cuts = FALSE

\* lc_hash_init on a used context, which resets parts of it.
ReInit ==
  /\ message # <<>> \/ digest # <<>>
  /\ ctx' = Fresh(hash)
  /\ message' = <<>> /\ digest' = <<>> /\ cuts' = FALSE
  /\ UNCHANGED hash

\* lc_hash_update with the next n bytes of the message.
HashUpdate(n) ==
  LET in == [i \in 1..n |-> Len(message) + i]
      size == IF hash = "sha2" THEN B ELSE R
  IN /\ digest = <<>> /\ Len(message) + n <= MaxHashed
     /\ ctx' = Updated(hash, ctx, in)
     /\ message' = message \o in
     /\ cuts' = (cuts \/ /\ Len(message) % size # 0
                         /\ (Len(message) + n) % size = 0)
     /\ UNCHANGED <<hash, digest>>

\* lc_hash_final; a SHA-2 context is then used up.
HashFinal(n) ==
  LET r == Final(hash, ctx, n)
  IN /\ Len(digest) + n <= MaxDigest
     /\ hash = "sha2" => digest = <<>>
     /\ ctx' = r.ctx
     /\ digest' = digest \o r.out
     /\ UNCHANGED <<hash, message, cuts>>

HashNext ==
  \/ ReInit
  \/ \E n \in Pieces : HashUpdate(n)
  \/ \E n \in Digests : HashFinal(n)

HashSpec == HashInit /\ [][HashNext]_hashVars

-----------------------------------------------------------------------------
(* Properties.                                                             *)

\* FIPS 180-4: the bit 1, zeros, and the length at the end of a block.
Sha2Padded(in, total) ==
  [i \in 1..total |->
     CASE i <= Len(in) -> in[i]
       [] i = Len(in) + 1 -> Bit
       [] i = total - LengthBytes + 1 -> LengthField(Len(in))
       [] OTHER -> Zero]

Sha2Digest(in) ==
  LET blocks == (Len(in) + 1 + LengthBytes + B - 1) \div B
      padded == Sha2Padded(in, blocks * B)
  IN [b \in 1..blocks |-> SubSeq(padded, (b - 1) * B + 1, b * B)]

Expected(i) ==
  CASE hash = "keccak" -> KeccakByte(message, i)
    [] hash = "ascon"  -> AsconByte(message, i)
    [] hash = "sha2"   -> Sha2Digest(message)

\* Whatever the pieces in which a message is given to update and its digest
\* is taken, and whatever the context was used for before, the digest is that
\* of the message.  (For Ascon only if no update fills a partial block
\* exactly: see DigestOfEveryMessage.)
DigestOfMessage ==
  ~(hash = "ascon" /\ cuts) =>
    \A i \in 1..Len(digest) : digest[i] = Expected(i)

\* ascon_hash.h:134-137: if the data fills the partial block "we fill it and
\* transform it".
DigestOfEveryMessage ==
  \A i \in 1..Len(digest) : digest[i] = Expected(i)
=============================================================================
