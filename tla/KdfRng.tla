-------------------------------- MODULE KdfRng --------------------------------
(***************************************************************************)
(* The key derivation functions as random number generators: lc_hkdf_rng   *)
(* (kdf/src/hkdf.c) and lc_kdf_ctr_rng (kdf/src/kdf_ctr.c), which cut the  *)
(* requests of the caller into blocks of an HMAC whose context               *)
(* (hmac/src/hmac.c) lives on between the requests.                        *)
(*                                                                         *)
(* The hash is ideal: its state is the sequence of the items it was given, *)
(* its digest names that sequence.  Items are tuples that begin with a     *)
(* string.                                                                 *)
(***************************************************************************)
EXTENDS Integers, Sequences

CONSTANTS
  H,             \* digest size in bytes
  Seeds,         \* seeds: a set of strings
  Infos,         \* additional inputs: a set of strings, "none" for none
  KdfRequests,   \* lengths of the requests
  CtrMax,        \* largest block counter of HKDF (255)
  MaxBytes       \* bound: bytes taken from a seeded generator

ASSUME KdfAssumption ==
  /\ H \in Nat \ {0} /\ KdfRequests \subseteq Nat
  /\ CtrMax \in Nat \ {0} /\ MaxBytes \in Nat

VARIABLES
  kdf,           \* "hkdf" or "ctr"
  hmac,          \* hmac_ctx: [key, st], st the state of the inner hash
  ctr,           \* counter of the next block
  partial,       \* hkdf_ctx->partial
  partial_ptr,   \* bytes of it that were given out
  rng_initialized,
  taken,         \* history: the bytes given out since seed or zero; with the
                 \* counter KDF up to the request that sets inside
  blocks,        \* history: the additional input in force for their blocks
  seedError,     \* history: has a seed call returned an error?
  inside         \* history: has a request of the counter KDF ended inside a
                 \* block?

kdfVars == <<kdf, hmac, ctr, partial, partial_ptr, rng_initialized, taken,
             blocks, seedError, inside>>

-----------------------------------------------------------------------------
(* HMAC.                                                                   *)

NoKey == "zeroized"

HmacInit(k) == [key |-> k, st |-> <<<<"ipad", k>>>>]
HmacReinit(h) == HmacInit(h.key)
HmacUpdate(h, in) == [h EXCEPT !.st = @ \o in]
HmacBytes(h) == [i \in 1..H |-> <<"mac", h.key, h.st, i>>]

\* lc_hmac_final leaves the outer hash finalized in the context.
HmacFinal(h) == [h EXCEPT !.st = <<<<"spent", @>>>>]

HmacZero == [key |-> NoKey, st |-> <<<<"zeroized">>>>]

Info(a) == IF a = "none" THEN <<>> ELSE <<<<"info", a>>>>
Counter(c) == <<<<"counter", c>>>>

\* lc_rng_alloc zeroizes the state.
KdfInit ==
  /\ kdf \in {"hkdf", "ctr"}
  /\ hmac = HmacZero /\ ctr = 1
  /\ partial = <<>> /\ partial_ptr = H
  /\ rng_initialized = FALSE
  /\ taken = <<>> /\ blocks = <<>> /\ seedError = FALSE /\ inside = FALSE

-----------------------------------------------------------------------------
(* lc_hkdf_rng_seed and lc_kdf_ctr_rng_seed.  The flag is set before the   *)
(* seed is used, which fails for an empty seed (HKDF) or a personalization *)
(* string (CTR).                                                           *)

KdfSeed(s) ==
  /\ ~rng_initialized
  /\ rng_initialized' = TRUE
  /\ ctr' = IF kdf = "ctr" THEN 1 ELSE ctr
  /\ hmac' = HmacInit(s)
  /\ UNCHANGED <<kdf, partial, partial_ptr, taken, blocks, seedError, inside>>

KdfSeedFails ==
  /\ ~rng_initialized
  /\ rng_initialized' = TRUE
  /\ ctr' = IF kdf = "ctr" THEN 1 ELSE ctr
  /\ seedError' = TRUE
  /\ UNCHANGED <<kdf, hmac, partial, partial_ptr, taken, blocks, inside>>

\* lc_hkdf_rng_zero and lc_kdf_ctr_rng_zero.
KdfZero ==
  /\ rng_initialized
  /\ hmac' = HmacZero /\ ctr' = 1
  /\ partial' = <<>> /\ partial_ptr' = H
  /\ rng_initialized' = FALSE
  /\ taken' = <<>> /\ blocks' = <<>> /\ seedError' = FALSE /\ inside' = FALSE
  /\ UNCHANGED kdf

-----------------------------------------------------------------------------
(* hkdf_expand_internal.  A cut is what the loop has done so far.          *)

\* The HMAC is prepared for the next block with what was given out of this.
Chain(h, block, n) == HmacUpdate(HmacReinit(h), SubSeq(block, 1, n))

ExpandBlock(e, a) ==
  LET h == HmacUpdate(e.hmac, Info(a) \o Counter(e.ctr))
      block == HmacBytes(h)
      n == IF e.dlen < H THEN e.dlen ELSE H
  IN [hmac |-> Chain(h, block, n),
      ctr |-> e.ctr + 1, dlen |-> e.dlen - n,
      partial |-> IF n < H THEN block ELSE e.partial,
      partial_ptr |-> IF n < H THEN n ELSE e.partial_ptr,
      out |-> e.out \o SubSeq(block, 1, n)]

\* Turns of a loop that produces n bytes, block by block.
Turns(n) == (n + H - 1) \div H

Expanding(e, a, n) ==
  LET after[i \in 0..n] ==
        IF i = 0 THEN e ELSE ExpandBlock(after[i - 1], a)
  IN after

Expanded(e, a) == Expanding(e, a, Turns(e.dlen))[Turns(e.dlen)]

\* lc_hkdf_rng_generate: first the rest of the last block, which is added to
\* the HMAC state, then new blocks.  Beyond the last counter it fails, after
\* the rest has been handed out.
MutNoLimit(dlen, c) == FALSE

PastLimit(dlen, c) == dlen > H * (CtrMax - c)

MutSkipsRest(n) == 0

FromRest(n) ==
  LET rest == H - partial_ptr
  IN IF n < rest THEN n ELSE rest

HkdfGenerate(n, a) ==
  LET todo == FromRest(n)
      rest == SubSeq(partial, partial_ptr + 1, partial_ptr + todo)
      h == IF partial_ptr < H THEN HmacUpdate(hmac, rest) ELSE hmac
      e == [hmac |-> h, ctr |-> ctr, dlen |-> n - todo,
            partial |-> partial, partial_ptr |-> partial_ptr + todo,
            out |-> rest]
      r == IF PastLimit(n - todo, ctr) THEN e ELSE Expanded(e, a)
  IN /\ kdf = "hkdf" /\ rng_initialized
     /\ Len(taken) + n <= MaxBytes
     /\ hmac' = r.hmac /\ ctr' = r.ctr
     /\ partial' = r.partial /\ partial_ptr' = r.partial_ptr
     /\ taken' = taken \o r.out
     /\ blocks' = blocks \o [i \in 1..(r.ctr - ctr) |-> a]
     /\ UNCHANGED <<kdf, rng_initialized, seedError, inside>>

\* lc_kdf_ctr_rng_generate: the rest of the last block of a request is thrown
\* away, and the HMAC is not prepared for another one.
CtrBlock(e, a) ==
  LET h == HmacUpdate(e.hmac, Counter(e.ctr) \o Info(a))
      n == IF e.dlen < H THEN e.dlen ELSE H
  IN [hmac |-> IF n < H THEN HmacFinal(h) ELSE HmacReinit(h),
      ctr |-> e.ctr + 1, dlen |-> e.dlen - n,
      out |-> e.out \o SubSeq(HmacBytes(h), 1, n)]

CtrExpanding(e, a, n) ==
  LET after[i \in 0..n] ==
        IF i = 0 THEN e ELSE CtrBlock(after[i - 1], a)
  IN after

CtrGenerate(n, a) ==
  LET e == [hmac |-> hmac, ctr |-> ctr, dlen |-> n, out |-> <<>>]
      turns == Turns(n)
      r == CtrExpanding(e, a, turns)[turns]
  IN /\ kdf = "ctr" /\ rng_initialized
     /\ (ctr - 1) * H + n <= MaxBytes
     /\ hmac' = r.hmac /\ ctr' = r.ctr
     /\ taken' = IF inside THEN taken ELSE taken \o r.out
     /\ blocks' = IF inside THEN blocks ELSE blocks \o [i \in 1..turns |-> a]
     /\ inside' = (inside \/ n % H # 0)
     /\ UNCHANGED <<kdf, partial, partial_ptr, rng_initialized, seedError>>

KdfNext ==
  \/ \E s \in Seeds : KdfSeed(s)
  \/ KdfSeedFails \/ KdfZero
  \/ \E n \in KdfRequests, a \in Infos : HkdfGenerate(n, a) \/ CtrGenerate(n, a)

KdfSpec == KdfInit /\ [][KdfNext]_kdfVars

-----------------------------------------------------------------------------
(* Properties.                                                             *)

\* RFC 5869 and SP 800-108 in counter mode, on the blocks of a seed: block i
\* is the HMAC of the block before it (HKDF), the additional input that was
\* in force and the number i.
Mac(k, in) == HmacBytes(HmacUpdate(HmacInit(k), in))

Blocks(scheme, k, inputs, n) ==
  LET b[j \in 0..n] ==
        IF j = 0 THEN <<>>
        ELSE IF scheme = "hkdf"
             THEN Mac(k, b[j - 1] \o Info(inputs[j]) \o Counter(j))
             ELSE Mac(k, Counter(j) \o Info(inputs[j]))
  IN b

Block(k, i) == Blocks(kdf, k, blocks, i)[i]

\* After a seed call that returned no error the output is the stream of the
\* standard for that seed, without a byte lost, repeated or computed from
\* another state.  For HKDF this holds however the requests are cut, refused and
\* repeated; for the counter KDF up to and including the first request that ends
\* inside a block, which leaves the HMAC finalized: taken ends there.
OutputIsStream ==
  rng_initialized /\ ~seedError =>
    \A i \in 1..Len(taken) :
      taken[i] = Block(hmac.key, ((i - 1) \div H) + 1)[((i - 1) % H) + 1]

\* The eight bit counter of HKDF never wraps: a block is never repeated.
CounterInRange == kdf = "hkdf" => ctr <= CtrMax
=============================================================================
