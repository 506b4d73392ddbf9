-------------------------------- MODULE Sponge --------------------------------
(***************************************************************************)
(* The sponge streaming code of leancrypto: keccak_absorb and              *)
(* keccak_squeeze (hash/src/sha3_c.c), ascon_absorb_common and             *)
(* ascon_squeeze_common (hash/src/ascon_hash.h), as operators on a hash    *)
(* context.                                                                *)
(*                                                                         *)
(* The permuted state is symbolic.  A sponge state is the sequence of what *)
(* was XORed into it before each permutation so far ("past"), and what has *)
(* been XORed since the last one ("cur"): a set of <<position, byte>>,     *)
(* XOR being the symmetric difference.  Bytes are integers; two contexts   *)
(* yield the same byte if and only if they have the same past and the same *)
(* XORs at that position.                                                  *)
(***************************************************************************)
EXTENDS Integers, Sequences

CONSTANT R        \* rate in bytes: ctx->r, LC_ASCON_HASH_RATE

RateAssumption == R \in Nat /\ R >= 2

\* The bytes that are not part of a message.
PadByte == -1     \* ctx->padding, pad_data
Terminator == -2  \* 0x80 in the last byte of the rate

-----------------------------------------------------------------------------
EmptyState == [past |-> <<>>, cur |-> {}]

\* sha3_fill_state_bytes: XOR the bytes in, from position at on.
Xor(s, at, in) ==
  LET new == {<<at + i - 1, in[i]>> : i \in 1..Len(in)}
  IN [s EXCEPT !.cur = (@ \ new) \union (new \ @)]

Permute(s) == [past |-> Append(s.past, s.cur), cur |-> {}]

\* The value of the byte at position at.
ByteAt(s, at) ==
  [past |-> s.past, xor |-> {e \in s.cur : e[1] = at}, at |-> at]

\* sha3_ctx_init, ascon_ctx_init.
FreshContext == [state |-> EmptyState, msg_len |-> 0, offset |-> 0,
                 squeeze_more |-> FALSE]

-----------------------------------------------------------------------------
(* Absorbing.                                                              *)

\* The full blocks of in are XORed and transformed, the rest is XORed only.
AfterBlocks(s, in) ==
  LET after[i \in 0..(Len(in) \div R)] ==
        IF i = 0 THEN s
        ELSE Permute(Xor(after[i - 1], 0, SubSeq(in, (i - 1) * R + 1, i * R)))
  IN after

AbsorbBlocks(s, in) ==
  LET full == Len(in) \div R
  IN Xor(AfterBlocks(s, in)[full], 0, SubSeq(in, full * R + 1, Len(in)))

\* Context after absorbing in.  permutes: is a partial block that the input
\* has just filled, with rest bytes of it left, transformed?
Absorb(c, in, permutes(_)) ==
  LET partial == c.msg_len % R
      todo == R - partial
      filled == Xor(c.state, partial, SubSeq(in, 1, todo))
      rest == SubSeq(in, todo + 1, Len(in))
  IN [state |-> CASE partial = 0 -> AbsorbBlocks(c.state, in)
                  [] partial # 0 /\ Len(in) < todo -> Xor(c.state, partial, in)
                  [] partial # 0 /\ Len(in) >= todo ->
                       AbsorbBlocks(IF permutes(Len(rest))
                                    THEN Permute(filled) ELSE filled, rest),
      msg_len |-> c.msg_len + Len(in),
      offset |-> c.offset,
      squeeze_more |-> FALSE]

MutAsAscon(c, in) == Absorb(c, in, LAMBDA rest : rest > 0)

KeccakAbsorb(c, in) == Absorb(c, in, LAMBDA rest : TRUE)

AsconAbsorb(c, in) == Absorb(c, in, LAMBDA rest : rest > 0)

-----------------------------------------------------------------------------
(* Squeezing.  n is the digest size; each result has the context and the   *)
(* bytes put out.  The loops of the code handle the bytes up to the next   *)
(* block boundary at a time, which is the same.                            *)

KeccakPad(c) ==
  IF c.squeeze_more THEN c
  ELSE [c EXCEPT !.state = Xor(Xor(@, c.msg_len % R, <<PadByte>>),
                               R - 1, <<Terminator>>),
                 !.squeeze_more = TRUE]

KeccakSteps(c, n) ==
  LET step[i \in 0..n] ==
        IF i = 0 THEN [ctx |-> KeccakPad(c), out |-> <<>>]
        ELSE LET d == step[i - 1].ctx
                 s == IF d.offset = 0 THEN Permute(d.state) ELSE d.state
             IN [ctx |-> [d EXCEPT !.state = s,
                                   !.offset = (@ + 1) % R],
                 out |-> Append(step[i - 1].out, ByteAt(s, d.offset))]
  IN step

KeccakSqueeze(c, n) == KeccakSteps(c, n)[n]

AsconPad(c) ==
  IF c.squeeze_more THEN c
  ELSE [c EXCEPT !.state = Permute(Xor(@, c.msg_len % R, <<PadByte>>)),
                 !.squeeze_more = TRUE]

AsconSteps(c, n) ==
  LET step[i \in 0..n] ==
        IF i = 0 THEN [ctx |-> AsconPad(c), out |-> <<>>]
        ELSE LET d == step[i - 1].ctx
                 o == (d.offset + 1) % R
             IN [ctx |-> [d EXCEPT !.state = IF o = 0 THEN Permute(@) ELSE @,
                                   !.offset = o],
                 out |-> Append(step[i - 1].out, ByteAt(d.state, d.offset))]
  IN step

AsconSqueeze(c, n) == AsconSteps(c, n)[n]

-----------------------------------------------------------------------------
(* The sponge of the standards, without streaming: the message is padded,  *)
(* cut into blocks, and each block is followed by a permutation.           *)

\* The blocks of a message; the padding adds what is in ends to the last.
PaddedBlocks(in, ends) ==
  [b \in 1..(Len(in) \div R + 1) |->
     {<<i - (b - 1) * R - 1, in[i]>> :
        i \in {j \in 1..Len(in) : (j - 1) \div R = b - 1}}
     \union (IF b = Len(in) \div R + 1 THEN ends ELSE {})]

\* Byte i of the output.
SpongeByte(blocks, i) ==
  [past |-> blocks \o [q \in 1..((i - 1) \div R) |-> {}],
   xor |-> {}, at |-> (i - 1) % R]

KeccakByte(in, i) ==
  SpongeByte(PaddedBlocks(in, {<<Len(in) % R, PadByte>>, <<R - 1, Terminator>>}),
             i)

AsconByte(in, i) == SpongeByte(PaddedBlocks(in, {<<Len(in) % R, PadByte>>}), i)
=============================================================================
