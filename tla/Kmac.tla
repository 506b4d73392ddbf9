--------------------------------- MODULE Kmac ---------------------------------
(***************************************************************************)
(* KMAC (kmac/src/kmac.c over hash/src/cshake.c): a keyed sponge used as a *)
(* MAC, with re-initialisation from a shadow copy of the keyed state, and  *)
(* as the random number generator lc_kmac_rng, which is seeded once and    *)
(* then squeezed and fed in turns.                                         *)
(***************************************************************************)
EXTENDS Sponge

CONSTANTS
  Keys,          \* keys and seeds: positive integers
  Inputs,        \* lengths of updates, seeds and additional inputs
  Macs,          \* requested lengths of MACs and of random data
  MinMac,        \* LC_KMAC_MIN_MAC_SIZE: shorter MACs are not made
  MaxFed,        \* bound: bytes fed after the key
  MaxDrawn       \* bound: bytes taken after the key

ASSUME KmacAssumption ==
  /\ RateAssumption
  /\ Keys \subseteq Nat \ {0} /\ Inputs \subseteq Nat /\ Macs \subseteq Nat
  /\ MinMac \in Nat \ {0}
  /\ MaxFed \in Nat /\ MaxDrawn \in Nat

VARIABLES
  purpose,       \* the context is used as "mac" or as "rng"
  hash_ctx,      \* the hash state
  shadow,        \* a sequence: empty if the context has no shadow_ctx
  final_called,
  keyed,         \* rng_initialized; for a MAC: lc_kmac_init was called
  key,           \* history: key or seed of the state, 0 if there is none
  fed,           \* history: bytes fed since then
  form,          \* history: length appended before output, NoOutput before
  turned,        \* history: has an update followed a request of output?
  drawn          \* history: bytes taken

kmacVars == <<purpose, hash_ctx, shadow, final_called, keyed, key, fed, form,
              turned, drawn>>

\* lc_cshake_init with "KMAC" and the bytepad of the key fill one block each.
Prefix(k) == [i \in 1..R |-> -100 - i] \o [i \in 1..R |-> -1000 * k - i]

Keyed(k) == KeccakAbsorb(FreshContext, Prefix(k))

NoOutput == -1

\* right_encode; 0 is what final_xof appends.
RightEncode(n) == <<-20 - n, -3>>

ZeroState == [FreshContext EXCEPT !.state = EmptyState]

\* lc_kmac_alloc, with or without LC_KMAC_FLAGS_SUPPORT_REINIT, and
\* lc_kmac_rng_alloc.
KmacInitial ==
  /\ purpose \in {"mac", "rng"}
  /\ hash_ctx = ZeroState
  /\ shadow \in IF purpose = "mac" THEN {<<>>, <<ZeroState>>} ELSE {<<>>}
  /\ final_called = FALSE /\ keyed = FALSE
  /\ key = 0 /\ fed = <<>> /\ form = NoOutput
  /\ turned = FALSE /\ drawn = <<>>

-----------------------------------------------------------------------------
Restart(k) ==
  /\ key' = k /\ fed' = <<>> /\ form' = NoOutput
  /\ turned' = FALSE /\ drawn' = <<>>

\* lc_kmac_init; the seed of an RNG is its key.
KmacInit(k) ==
  /\ purpose = "rng" => ~keyed
  /\ hash_ctx' = Keyed(k)
  /\ shadow' = IF shadow = <<>> THEN <<>> ELSE <<Keyed(k)>>
  /\ final_called' = FALSE
  /\ keyed' = TRUE
  /\ Restart(k)
  /\ UNCHANGED purpose

\* lc_kmac_reinit at any time; it has no effect without a shadow.
MutReinitForgets ==
  /\ purpose = "mac" /\ shadow # <<>>
  /\ hash_ctx' = shadow[1]
  /\ Restart(key)
  /\ UNCHANGED <<purpose, shadow, keyed, final_called>>

KmacReinit ==
  /\ purpose = "mac" /\ shadow # <<>>
  /\ hash_ctx' = shadow[1]
  /\ final_called' = FALSE
  /\ Restart(key)
  /\ UNCHANGED <<purpose, shadow, keyed>>

\* lc_kmac_update with n new bytes.
NewBytes(n) == [i \in 1..n |-> Len(fed) + i]

Feed(n) ==
  /\ Len(fed) + n <= MaxFed
  /\ hash_ctx' = KeccakAbsorb(hash_ctx, NewBytes(n))
  /\ fed' = fed \o NewBytes(n)
  /\ turned' = (turned \/ form # NoOutput)

KmacUpdate(n) ==
  /\ purpose = "mac" /\ keyed /\ form = NoOutput
  /\ Feed(n)
  /\ UNCHANGED <<purpose, shadow, final_called, keyed, key, form, drawn>>

Drawn(c, n) ==
  LET r == KeccakSqueeze(c, n)
  IN /\ Len(drawn) + n <= MaxDrawn
     /\ hash_ctx' = r.ctx
     /\ drawn' = drawn \o r.out

\* lc_kmac_final: the length is appended; the context is then used up.  A MAC
\* shorter than the minimum is not made, here and for an XOF.
KmacFinal(n) ==
  /\ purpose = "mac" /\ keyed /\ form = NoOutput /\ n >= MinMac
  /\ Drawn(KeccakAbsorb(hash_ctx, RightEncode(n)), n)
  /\ form' = n
  /\ UNCHANGED <<purpose, shadow, final_called, keyed, key, fed,
                 turned>>

\* lc_kmac_final_xof_internal: the length 0 is appended once.
FinalXof(n, c) ==
  /\ Drawn(IF final_called THEN c ELSE KeccakAbsorb(c, RightEncode(0)), n)
  /\ final_called' = TRUE

KmacFinalXof(n) ==
  /\ purpose = "mac" /\ keyed /\ form \in {NoOutput, 0} /\ n >= MinMac
  /\ FinalXof(n, hash_ctx)
  /\ form' = 0
  /\ UNCHANGED <<purpose, shadow, keyed, key, fed, turned>>

\* lc_kmac_zero.
KmacZero ==
  /\ hash_ctx' = ZeroState
  /\ shadow' = IF shadow = <<>> THEN <<>> ELSE <<ZeroState>>
  /\ final_called' = FALSE /\ keyed' = FALSE
  /\ Restart(0)
  /\ UNCHANGED purpose

-----------------------------------------------------------------------------
(* lc_kmac_rng.                                                            *)

\* lc_kmac_rng_seed on a seeded generator.
RngReseed(n) ==
  /\ purpose = "rng" /\ keyed
  /\ Feed(n)
  /\ UNCHANGED <<purpose, shadow, final_called, keyed, key, form, drawn>>

\* lc_kmac_rng_generate with n bytes of additional input, for output of any
\* length; it does not ask whether the generator was seeded.
RngGenerate(n, out) ==
  /\ purpose = "rng"
  /\ Len(fed) + n <= MaxFed
  /\ fed' = fed \o NewBytes(n)
  /\ turned' = (turned \/ (n > 0 /\ form # NoOutput))
  /\ FinalXof(out,
       IF n = 0 THEN hash_ctx ELSE KeccakAbsorb(hash_ctx, NewBytes(n)))
  /\ form' = 0
  /\ UNCHANGED <<purpose, shadow, keyed, key>>

KmacNext ==
  \/ \E k \in Keys : KmacInit(k)
  \/ KmacReinit \/ KmacZero
  \/ \E n \in Inputs : KmacUpdate(n) \/ RngReseed(n)
  \/ \E n \in Macs : KmacFinal(n) \/ KmacFinalXof(n)
  \/ \E n \in Inputs, out \in Macs : RngGenerate(n, out)

KmacSpec == KmacInitial /\ [][KmacNext]_kmacVars

-----------------------------------------------------------------------------
(* Properties.                                                             *)

\* SP 800-185: the MAC, and the output of a seeded generator as long as nothing
\* was fed after output was taken, are those of KMAC for the key and the
\* message, however both are cut into pieces and whatever was done before with
\* the context: other keys, MACs, XOF output, output before the seed,
\* zeroization.
MacOfMessage ==
  keyed /\ form # NoOutput /\ ~turned =>
    \A i \in 1..Len(drawn) :
      drawn[i] =
        KeccakByte(Prefix(key) \o fed \o RightEncode(form), i)
=============================================================================
