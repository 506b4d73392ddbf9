------------------------------ MODULE MCProgress ------------------------------
(* Do the calls come to an end?  Six instances in one run: the self-test     *)
(* machine in FIPS mode with a failing algorithm ("degraded"), without FIPS  *)
(* mode and with all of the status API ("plain", the instance that this      *)
(* module extends), re-runs of the integrity check of an image that changes, *)
(* beside one user ("gate") and beside two ("crowd"), the seeded RNG with    *)
(* its destructor beside users ("rng"), and the trust store with one thread  *)
(* that adds CAs beside one that adds a root CA or verifies a message        *)
(* ("store").  The variable part says which of them runs.                    *)
EXTENDS AlgStatus, MCCerts

CONSTANTS lib, sha3, x, y, none, t3, nobody, null, anchor

VARIABLES part, lock, level, origin, bytes, last, pid, proc, rpc, op, left,
          init, newpid, site, rrc, rcalls, next, seen, wiped, given, spc, sop,
          subject, msg, chain, cert, at, src, scalls, entitled

statusVars == <<status, image, phase, control>>
rng == <<lock, level, origin, bytes, last, pid, proc, rpc, op, left, init,
         newpid, site, rrc, rcalls>>
store == <<next, seen, wiped, given, spc, sop, subject, msg, chain, cert, at,
           src, scalls, entitled>>
all == <<part, statusVars, rng, store>>

MCAlg == {lib, sha3, x, y}
\* Registers in sweep order.  Shared: x is a digest, y shares the register of
\* the library.  Spread: x before the digests, y between them and the last
\* register with the library field.
Shared == x :> 1 @@ sha3 :> 1 @@ y :> 2 @@ lib :> 2
Spread == x :> 1 @@ sha3 :> 2 @@ y :> 3 @@ lib :> 4
NoDep == [a \in MCAlg |-> none]
OneVector == [a \in MCAlg |-> 1]
AllSound == [a \in MCAlg |-> 0]
XBroken == [a \in MCAlg |-> IF a = x THEN 1 ELSE 0]

Degraded == INSTANCE AlgStatus WITH
  Thread <- {t1, t2, t3}, Main <- t1, Alg <- MCAlg, Lib <- lib,
  Sha3 <- sha3, None <- none, Fips <- TRUE, NReg <- 2, RegOf <- Shared,
  Dep <- NoDep, Silent <- {}, Vectors <- OneVector, BadAt <- XBroken,
  Pct <- {}, Checkers <- {}, InitCallers <- {}, Disablers <- {},
  Tampering <- FALSE, MaxCalls <- 1

Gate == INSTANCE AlgStatus WITH
  Thread <- {t1, t2}, Main <- t1, Alg <- MCAlg, Lib <- lib,
  Sha3 <- sha3, None <- none, Fips <- TRUE, NReg <- 4, RegOf <- Spread,
  Dep <- NoDep, Silent <- {}, Vectors <- OneVector, BadAt <- AllSound,
  Pct <- {}, Checkers <- {t1}, InitCallers <- {}, Disablers <- {},
  Tampering <- TRUE, MaxCalls <- 2

Crowd == INSTANCE AlgStatus WITH
  Thread <- {t1, t2, t3}, Main <- t1, Alg <- MCAlg, Lib <- lib,
  Sha3 <- sha3, None <- none, Fips <- TRUE, NReg <- 4, RegOf <- Spread,
  Dep <- NoDep, Silent <- {}, Vectors <- OneVector, BadAt <- AllSound,
  Pct <- {}, Checkers <- {t1}, InitCallers <- {}, Disablers <- {},
  Tampering <- TRUE, MaxCalls <- 1

Rng == INSTANCE SeededRng WITH
  Thread <- {t1, t2}, Nobody <- nobody, Max <- 2, SizeMax <- 3,
  MaxTime <- 1, Clock <- {1, 3}, Requests <- {1, 5},
  Faults <- {"noise", "entropy", "drbg"}, Destroyers <- {t1}, Alone <- FALSE,
  MaxForks <- 0, MaxCalls <- 2,
  pc <- rpc, rc <- rrc, calls <- rcalls

Store == INSTANCE TrustStore WITH
  Thread <- {t1, t2}, Cert <- MCCert, Null <- null, Anchor <- anchor,
  NoId <- "no", Id <- MCId, Skid <- MCSkid, Auth0 <- MCAuth0,
  Auth1 <- MCAuth1, KeyOf <- MCKey, SignedBy <- MCSignedBy, CA <- MCIssuing,
  SelfSigned <- MCSelfSigned, CertSign <- MCIssuing, Critical <- MCCritical,
  InTime <- MCInTime, Bundle <- MCBundle, Signer <- MCSigner,
  Message <- {"p", "q"}, Checks <- t1 :> {} @@ t2 :> {"p", "q"},
  Offers <- t1 :> {"r", "i", "j"} @@ t2 :> {"s"}, MaxCalls <- MCMaxCalls,
  pc <- spc, op <- sop, x <- cert, rc <- src, calls <- scalls

AnyInit ==
  /\ part \in {"degraded", "plain", "gate", "crowd", "rng", "store"}
  /\ CASE part = "plain" -> Init
       [] part = "gate" -> Gate!Init
       [] part = "crowd" -> Crowd!Init
       [] OTHER -> Degraded!Init
  /\ Rng!Init /\ Store!Init

AnyStep(t) ==
  \/ part = "plain" /\ t # t3 /\ Step(t) /\ UNCHANGED <<part, rng, store>>
  \/ part = "degraded" /\ Degraded!Step(t) /\ UNCHANGED <<part, rng, store>>
  \/ /\ part = "gate" /\ t # t3 /\ Gate!Step(t)
     /\ UNCHANGED <<part, rng, store>>
  \/ part = "crowd" /\ Crowd!Step(t) /\ UNCHANGED <<part, rng, store>>
  \/ /\ part = "rng" /\ t # t3 /\ Rng!Step(t)
     /\ UNCHANGED <<part, statusVars, store>>
  \/ /\ part = "store" /\ t # t3 /\ Store!Step(t)
     /\ UNCHANGED <<part, statusVars, rng>>

AnyCall(t) ==
  \/ part = "plain" /\ t # t3 /\ ApiCall(t) /\ UNCHANGED <<part, rng, store>>
  \/ part = "degraded" /\ Degraded!ApiCall(t) /\ UNCHANGED <<part, rng, store>>
  \/ /\ part = "gate" /\ t # t3 /\ Gate!ApiCall(t)
     /\ UNCHANGED <<part, rng, store>>
  \/ part = "crowd" /\ Crowd!ApiCall(t) /\ UNCHANGED <<part, rng, store>>
  \/ /\ part = "rng" /\ t # t3 /\ Rng!Operation(t)
     /\ UNCHANGED <<part, statusVars, store>>
  \/ /\ part = "store" /\ t # t3 /\ Store!Call(t)
     /\ UNCHANGED <<part, statusVars, rng>>

AnyTamper ==
  part \in {"gate", "crowd"} /\ Crowd!Tamper /\ UNCHANGED <<part, rng, store>>

Clear ==
  part = "store" /\ Store!Clear /\ UNCHANGED <<part, statusVars, rng>>

AnyNext ==
  AnyTamper \/ Clear \/ \E t \in {t1, t2, t3} : AnyStep(t) \/ AnyCall(t)

\* As in the modules: a thread inside the library runs on.
AnySpec ==
  AnyInit /\ [][AnyNext]_all /\ \A t \in {t1, t2, t3} : WF_all(AnyStep(t))

\* Threads meet a failing self test and reset all fields beside each other,
\* or one by one with the status API: no sound algorithm is condemned.
FailuresAreSound ==
  /\ part = "degraded" => Degraded!OnlyBrokenCondemned
  /\ part = "plain" => OnlyBrokenCondemned

\* In degraded mode the error indicator of a failed algorithm is final.
ErrorIndicatorStays ==
  \A a \in MCAlg \ {lib} :
    (part = "degraded" /\ \E t \in DOMAIN pc : pc[t] = "drop" /\ cur[t] = a)
      ~> [](status[a] = Degraded!failed)

\* Every call of the self-test machine returns, nobody spins for ever in
\* LC_SELFTEST_COMPLETED, and so does every call of the store: certificates of
\* a message that issue each other are found out, a chain in the store ends.
Busy(t) ==
  IF part = "store" THEN t # t3 /\ spc[t] # "idle"
  ELSE part # "rng" /\ t \in DOMAIN pc /\ pc[t] # "idle"

AnyCallReturns == \A t \in {t1, t2, t3} : Busy(t) ~> ~Busy(t)

\* Every path of the seeded RNG releases the lock.
LockReleased == Rng!LockReleased
=============================================================================
