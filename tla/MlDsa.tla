-------------------------------- MODULE MlDsa --------------------------------
(* A context of ML-DSA (ml-dsa/src/dilithium_signature_impl.h): signing and  *)
(* verifying in one call or as init, update, final, with the matrix A^ of a  *)
(* key kept in the context between operations, and with options that stay.   *)
(* The lattice arithmetic is ideal: a signature verifies for the key and the *)
(* hash mu it was made with, if both sides used the matrix of that key.      *)
EXTENDS Sequences, FiniteSets, Naturals

CONSTANTS
  Key,        \* key pairs
  UserCtx,    \* option that enters mu: domain, prehash and user context
  Symbol,     \* pieces of messages
  MaxMessage, \* bound on the length of a message
  ExternalMu, \* mu values a caller computes himself
  None        \* a null pointer, an option not set, no result

ASSUME MlDsaAssumption ==
  /\ MaxMessage \in Nat
  /\ None \notin Key /\ None \notin ExternalMu /\ "zero" \notin Key

VARIABLES
  hashOf,    \* dilithium_hash_ctx: what mu is the hash of; None if zeroized
  memory,    \* where ahat points: "absent" (NULL), "small" or "full"
  ahat,      \* the matrix there: of a key, or "zero"
  expanded,  \* ahat_expanded
  userctx,   \* the option that enters mu
  external,  \* external_mu
  bound,     \* ghost: key the caller used since the matrix was dropped
  request,   \* ghost: what the caller asked to sign or verify since init
  signature, \* the last one made, with what its signer asked for
  accepted   \* if a verification was the last call: what was signed and asked

mldsa == <<hashOf, memory, ahat, expanded, userctx, external, bound, request,
           signature, accepted>>

Mu(k, u, m) == [tr |-> k, domain |-> u, message |-> m]

\* LC_DILITHIUM_CTX_ON_STACK, LC_DILITHIUM_44_CTX_ON_STACK_AHAT of a smaller
\* parameter set, and of the own one.
MlDsaInit ==
  /\ memory \in {"absent", "small", "full"}
  /\ hashOf = None /\ ahat = "zero" /\ expanded = FALSE
  /\ userctx \in UserCtx /\ external = None
  /\ bound = None /\ request = None /\ signature = None /\ accepted = None

\* lc_dilithium_ctx_zero: hash and matrix; the options stay.
MutKeepsFlag(e) == e

\* What becomes of ahat_expanded.
Zeroized(e) == IF memory = "absent" THEN e ELSE FALSE

CtxZero ==
  /\ hashOf' = None
  /\ ahat' = "zero"
  /\ expanded' = Zeroized(expanded)
  /\ bound' = None /\ request' = None

\* lc_dilithium_{sign,verify}_internal: the matrix in the context, expanded
\* from the key if the flag says so, or one on the stack.
Fits == memory # "small"
Matrix(k) == IF memory # "absent" /\ expanded THEN ahat ELSE k

Expand(k) ==
  IF memory = "full" THEN ahat' = Matrix(k) /\ expanded' = TRUE
                     ELSE UNCHANGED <<ahat, expanded>>

\* The external mu comes before the hash of the message.
EffectiveMu(h) == IF external # None THEN external ELSE h

Made(k, h) == [key |-> k, mu |-> EffectiveMu(h), mat |-> Matrix(k)]

Accepts(k, h, s) ==
  s.key = k /\ s.mu = EffectiveMu(h) /\ s.mat = k /\ Matrix(k) = k

\* What the caller means: the external mu takes precedence.
Meant(k, r) == <<k, IF external # None THEN external ELSE r>>

\* A matrix kept in the context is for one key until it is dropped; without
\* memory for one each call expands its own.
MayUse(k) == memory = "absent" \/ bound \in {None, k}

-----------------------------------------------------------------------------
\* lc_dilithium_{sign,verify}_init: mu starts from the key and the options.
Start(k) ==
  /\ MayUse(k)
  /\ hashOf' = Mu(k, userctx, <<>>)
  /\ request' = Mu(k, userctx, <<>>)
  /\ bound' = k
  /\ UNCHANGED <<memory, ahat, expanded, userctx, external, signature>>
  /\ accepted' = None

\* lc_dilithium_{sign,verify}_update, after an init.
Update(x) ==
  /\ request # None /\ Len(request.message) < MaxMessage
  /\ hashOf' = [hashOf EXCEPT !.message = Append(@, x)]
  /\ request' = [request EXCEPT !.message = Append(@, x)]
  /\ UNCHANGED <<memory, ahat, expanded, userctx, external, bound, signature>>
  /\ accepted' = None

\* lc_dilithium_sign_final: the context is zeroized on every path.
SignFinal ==
  /\ request # None
  /\ CtxZero
  /\ signature' = IF Fits
       THEN [made |-> Made(request.tr, hashOf),
             meant |-> Meant(request.tr, request)]
       ELSE None
  /\ UNCHANGED <<memory, userctx, external>>
  /\ accepted' = None

\* lc_dilithium_verify_final.
VerifyFinal ==
  /\ request # None /\ signature # None
  /\ CtxZero
  /\ accepted' = IF Fits
       THEN [ok |-> Accepts(request.tr, hashOf, signature.made),
             signed |-> signature.meant, asked |-> Meant(request.tr, request)]
       ELSE None
  /\ UNCHANGED <<memory, userctx, external, signature>>

\* One call: m = None is a null pointer, legal with an external mu.  The
\* matrix stays in the context.  The hash is used up if it became mu.
OneCall(k, m) ==
  /\ MayUse(k) /\ (m # None \/ external # None)
  /\ bound' = k
  /\ request' = None
  /\ IF Fits THEN hashOf' = None /\ Expand(k)
             ELSE /\ hashOf' = IF m = None THEN hashOf ELSE Mu(k, userctx, m)
                  /\ UNCHANGED <<ahat, expanded>>
  /\ UNCHANGED <<memory, userctx, external>>

\* lc_dilithium_sign_ctx.
SignCtx(k, m) ==
  /\ OneCall(k, m)
  /\ signature' = IF Fits
       THEN [made |-> Made(k, Mu(k, userctx, m)),
             meant |-> Meant(k, Mu(k, userctx, m))]
       ELSE None
  /\ accepted' = None

\* lc_dilithium_verify_ctx of a signature that was made: one that is malformed is
\* rejected before the hash is used up, which the next init sets anew.
VerifyCtx(k, m) ==
  /\ signature # None
  /\ OneCall(k, m)
  /\ accepted' = IF Fits
       THEN [ok |-> Accepts(k, Mu(k, userctx, m), signature.made),
             signed |-> signature.meant, asked |-> Meant(k, Mu(k, userctx, m))]
       ELSE None
  /\ UNCHANGED signature

\* lc_dilithium_ctx_userctx, lc_dilithium_ctx_hash: for the next init.
SetUserCtx(u) ==
  /\ userctx' = u
  /\ UNCHANGED <<hashOf, memory, ahat, expanded, external, bound, request,
                 signature>>
  /\ accepted' = None

\* lc_dilithium_ctx_external_mu; None takes it away.
SetExternalMu(mu) ==
  /\ external' = mu
  /\ UNCHANGED <<hashOf, memory, ahat, expanded, userctx, bound, request,
                 signature>>
  /\ accepted' = None

\* lc_dilithium_ctx_drop_ahat.
DropAhat ==
  /\ expanded' = FALSE
  /\ bound' = None
  /\ UNCHANGED <<hashOf, memory, ahat, userctx, external, request, signature>>
  /\ accepted' = None

\* lc_dilithium_ctx_zero by the caller, at any stage.
Wipe ==
  /\ CtxZero
  /\ UNCHANGED <<memory, userctx, external, signature>>
  /\ accepted' = None

Messages == UNION {[1..n -> Symbol] : n \in 0..MaxMessage}

MlDsaNext ==
  \/ \E k \in Key : Start(k)
  \/ \E x \in Symbol : Update(x)
  \/ SignFinal \/ VerifyFinal
  \/ \E k \in Key, m \in Messages \cup {None} : SignCtx(k, m) \/ VerifyCtx(k, m)
  \/ \E u \in UserCtx : SetUserCtx(u)
  \/ \E mu \in ExternalMu \cup {None} : SetExternalMu(mu)
  \/ DropAhat \/ Wipe

MlDsaSpec == MlDsaInit /\ [][MlDsaNext]_mldsa

-----------------------------------------------------------------------------
(* dilithium_signature_impl.h: a context that signs and verifies in any      *)
(* order, by one call or in pieces, with a matrix kept, dropped or zeroized  *)
(* and an external mu set and taken away, accepts a signature exactly if it  *)
(* is asked about the key and the message that the signer was asked about.   *)
VerifiesIffSame ==
  accepted # None => (accepted.ok <=> accepted.signed = accepted.asked)
=============================================================================
