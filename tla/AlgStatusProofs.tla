--------------------------- MODULE AlgStatusProofs ---------------------------
(***************************************************************************)
(* Theorems about AlgStatus for every number of threads, algorithms and    *)
(* registers: types and verdicts (GuardInv), then what the machine         *)
(* promises as a whole: that it implements SelfTestGate, that a failing    *)
(* test condemns no sound algorithm, and that the gate of the integrity    *)
(* check stays closed until the check has passed.                          *)
(***************************************************************************)
EXTENDS AlgStatus, TLAPS

LEMMA OrIntoType ==
  ASSUME status \in [Alg -> Result], NEW a \in Alg, NEW r \in Result,
         OrInto(a, r)
  PROVE  status' \in [Alg -> Result]
  BY DEF OrInto, Or, Result, pending, failed

LEMMA WriteRegisterType ==
  ASSUME status \in [Alg -> Result], NEW t \in Thread, WriteRegister(t),
         pc[t] \in {"init", "drop", "open", "reopen", "disable"}
  PROVE  status' \in [Alg -> Result]
  <1>1. \A a \in Alg : Swept(pc[t], a) \in Result
    BY DEF Swept, Or, Result, pending, passed, failed
  <1>. QED BY <1>1 DEF WriteRegister

\* The part of the type invariant that says where the threads are.
Placed ==
  /\ pc \in [Thread -> Labels]
  /\ cur \in [Thread -> Alg \union {None}]
  /\ \A t \in Thread : pc[t] # "idle" => cur[t] \in Alg

Bookkept ==
  /\ image \in {"intact", "tampered"} /\ phase \in {"boot", "up"}
  /\ caller \in [Thread -> [Alg -> Alg \union {None}]]
  /\ mode \in [Thread -> Modes]
  /\ vec \in [Thread -> Nat] /\ reg \in [Thread -> 1..NReg]
  /\ rc \in [Thread -> Codes]
  /\ calls \in [Thread -> 0..MaxCalls]

LEMMA TypeParts == TypeOK <=> status \in [Alg -> Result] /\ Placed /\ Bookkept
  BY DEF TypeOK, Placed, Bookkept

LEMMA GotoPlaced ==
  ASSUME Placed, NEW t \in Thread, NEW l \in Labels, Goto(t, l),
         \/ UNCHANGED cur /\ (l # "idle" => cur[t] \in Alg)
         \/ \E a \in Alg : cur' = [cur EXCEPT ![t] = a]
  PROVE  Placed'
  <1>1. CASE UNCHANGED cur /\ (l # "idle" => cur[t] \in Alg)
    BY <1>1 DEF Placed, Goto
  <1>2. ASSUME NEW a \in Alg, cur' = [cur EXCEPT ![t] = a] PROVE Placed'
    BY <1>2 DEF Placed, Goto
  <1>. QED BY <1>1, <1>2

LEMMA ReturnPlaced ==
  ASSUME Placed, NEW t \in Thread, NEW r, Return(t, r)
  PROVE  Placed'
  BY DEF Placed, Return, Goto, Labels

LEMMA TestReturnsPlaced ==
  ASSUME Placed, mode \in [Thread -> Modes], NEW t \in Thread,
         NEW a \in Alg, TestReturns(t, a)
  PROVE  Placed' /\ mode' \in [Thread -> Modes]
  <1>1. mode' \in [Thread -> Modes]
    BY DEF TestReturns, Modes
  <1>2. CASE caller[t][a] = Lib
    BY <1>1, <1>2, GotoPlaced, AlgAssumption
       DEF TestReturns, Labels, AlgAssumption
  <1>3. CASE caller[t][a] # Lib
    BY <1>1, <1>3, GotoPlaced DEF TestReturns, Labels
  <1>. QED BY <1>2, <1>3

\* One lemma per kind of step: a step inside a call, and the call of a user.
LEMMA StepType ==
  ASSUME TypeOK, NEW t \in Thread, Step(t)
  PROVE  TypeOK'
  <1>. USE AlgAssumption, RegAssumption DEF AlgAssumption, RegAssumption
  <1>0. status \in [Alg -> Result] /\ Placed /\ Bookkept
    BY TypeParts
  <1>1. CASE ReadLib(t)
    <2>1. status' \in [Alg -> Result]
      BY <1>0, <1>1 DEF ReadLib
    <2>2. Placed' /\ Bookkept'
      <3>1. CASE status[Lib] = pending
        BY <1>0, <1>1, <3>1, TestReturnsPlaced
           DEF ReadLib, Placed, Bookkept, Labels, pending, ongoing, passed, failed
      <3>2. CASE status[Lib] = ongoing
        <4>1. Placed'
          BY <1>0, <1>1, <3>2, GotoPlaced DEF ReadLib, Placed, Labels, pending, ongoing, passed, failed
        <4>2. /\ vec' = [vec EXCEPT ![t] = 1]
              /\ mode' = [mode EXCEPT ![t] = "startup"]
          BY <1>0, <1>1, <3>2 DEF ReadLib, pending, ongoing, passed, failed
        <4>3. Bookkept'
          BY <1>0, <1>1, <3>2, <4>2 DEF ReadLib, Bookkept, Modes
        <4>. QED BY <4>1, <4>3
      <3>3. CASE status[Lib] \in {passed, failed}
        BY <1>0, <1>1, <3>3, GotoPlaced
           DEF ReadLib, Placed, Bookkept, Labels, pending, ongoing, passed, failed
      <3>. QED BY <1>1, <3>1, <3>2, <3>3
           DEF ReadLib
    <2>. QED BY <2>1, <2>2 DEF TypeOK, Placed, Bookkept
  <1>2. CASE ReadOwn(t)
    <2>1. status' \in [Alg -> Result]
      BY <1>0, <1>2 DEF ReadOwn
    <2>2. Placed' /\ Bookkept'
      <3>1. CASE status[cur[t]] = pending
        BY <1>0, <1>2, <3>1, GotoPlaced DEF ReadOwn, Placed, Bookkept, Labels
      <3>2. CASE status[cur[t]] # pending
        BY <1>0, <1>2, <3>2, TestReturnsPlaced DEF ReadOwn, Placed, Bookkept, Labels
      <3>. QED BY <3>1, <3>2
    <2>. QED BY <2>1, <2>2 DEF TypeOK, Placed, Bookkept
  <1>3. CASE Mark(t)
    <2>1. status' \in [Alg -> Result]
      BY <1>0, <1>3, OrIntoType DEF Mark, Placed, Result, pending, ongoing, failed
    <2>2. Placed' /\ Bookkept'
      <3>1. CASE Dep[cur[t]] = None
        BY <1>0, <1>3, <3>1, GotoPlaced DEF Mark, Placed, Bookkept, Labels
      <3>2. CASE Dep[cur[t]] # None
        <4>1. Placed'
          BY <1>0, <1>3, <3>2, GotoPlaced, TestAssumption DEF Mark, Placed, Labels, Entry, TestAssumption
        <4>2. /\ cur[t] \in Alg
              /\ caller' = [caller EXCEPT ![t][Dep[cur[t]]] = cur[t]]
          BY <1>0, <1>3, <3>2 DEF Mark, Placed
        <4>3. Bookkept'
          BY <1>0, <1>3, <3>2, <4>2 DEF Mark, Bookkept
        <4>. QED BY <4>1, <4>3
      <3>. QED BY <3>1, <3>2
    <2>. QED BY <2>1, <2>2 DEF TypeOK, Placed, Bookkept
  <1>4. CASE ComparePasses(t)
    <2>1. status' \in [Alg -> Result]
      BY <1>0, <1>4, OrIntoType DEF ComparePasses, Placed, Result, pending, passed, failed
    <2>2. Placed' /\ Bookkept'
      <3>1. CASE vec[t] < Vectors[cur[t]]
        <4>1. Placed'
          BY <1>0, <1>4, <3>1 DEF ComparePasses, Placed
        <4>2. vec' = [vec EXCEPT ![t] = @ + 1] /\ UNCHANGED mode
          BY <1>0, <1>4, <3>1 DEF ComparePasses
        <4>3. Bookkept'
          BY <1>0, <1>4, <3>1, <4>2 DEF ComparePasses, Bookkept
        <4>. QED BY <4>1, <4>3
      <3>2. CASE ~(vec[t] < Vectors[cur[t]])
        BY <1>0, <1>4, <3>2, TestReturnsPlaced DEF ComparePasses, Placed, Bookkept, Labels
      <3>. QED BY <3>1, <3>2
    <2>. QED BY <2>1, <2>2 DEF TypeOK, Placed, Bookkept
  <1>5. CASE CompareFails(t)
    <2>1. status' \in [Alg -> Result]
      BY <1>0, <1>5 DEF CompareFails
    <2>2. Placed' /\ Bookkept'
      BY <1>0, <1>5, GotoPlaced DEF CompareFails, EnterFailure, Placed, Bookkept, Labels
    <2>. QED BY <2>1, <2>2 DEF TypeOK, Placed, Bookkept
  <1>6. CASE DropRegister(t)
    <2>1. status' \in [Alg -> Result]
      BY <1>0, <1>6, WriteRegisterType DEF DropRegister
    <2>2. Placed' /\ Bookkept'
      <3>1. CASE reg[t] < NReg
        BY <1>0, <1>6, <3>1 DEF DropRegister, Placed, Bookkept, Labels
      <3>2. CASE ~(reg[t] < NReg)
        BY <1>0, <1>6, <3>2, GotoPlaced DEF DropRegister, Placed, Bookkept, Labels
      <3>. QED BY <3>1, <3>2
    <2>. QED BY <2>1, <2>2 DEF TypeOK, Placed, Bookkept
  <1>7. CASE RecordFailure(t)
    <2>1. status' \in [Alg -> Result]
      BY <1>0, <1>7, OrIntoType DEF RecordFailure, Placed, Result, pending, failed
    <2>2. Placed' /\ Bookkept'
      <3>1. CASE mode[t] = "cast"
        BY <1>0, <1>7, <3>1, TestReturnsPlaced DEF RecordFailure, Placed, Bookkept, Labels
      <3>2. CASE mode[t] = "startup"
        BY <1>0, <1>7, <3>2, GotoPlaced DEF RecordFailure, Placed, Bookkept, Labels
      <3>3. CASE mode[t] = "pct"
        BY <1>0, <1>7, <3>3, ReturnPlaced DEF RecordFailure, Return, Placed, Bookkept, Labels, Modes, Codes
      <3>. QED BY <1>7, <3>1, <3>2, <3>3 DEF RecordFailure
    <2>. QED BY <2>1, <2>2 DEF TypeOK, Placed, Bookkept
  <1>8. CASE FailLibrary(t)
    <2>1. status' \in [Alg -> Result]
      BY <1>0, <1>8, OrIntoType DEF FailLibrary, Placed, Result, pending, failed
    <2>2. Placed' /\ Bookkept'
      BY <1>0, <1>8, TestReturnsPlaced DEF FailLibrary, Placed, Bookkept, Labels
    <2>. QED BY <2>1, <2>2 DEF TypeOK, Placed, Bookkept
  <1>9. CASE Completed(t)
    <2>1. status' \in [Alg -> Result]
      BY <1>0, <1>9 DEF Completed
    <2>2. Placed' /\ Bookkept'
      <3>1. CASE caller[t][cur[t]] = None /\ Outcome(cur[t]) = "ok"
        BY <1>0, <1>9, <3>1, GotoPlaced DEF Completed, Placed, Bookkept, Labels
      <3>2. CASE caller[t][cur[t]] = None /\ Outcome(cur[t]) # "ok"
        BY <1>0, <1>9, <3>2, ReturnPlaced
           DEF Completed, Outcome, Return, Placed, Bookkept, Labels, Codes
      <3>3. CASE caller[t][cur[t]] # None /\ Outcome(cur[t]) = "ok"
        BY <1>0, <1>9, <3>3, GotoPlaced DEF Completed, Placed, Bookkept, Labels
      <3>4. CASE /\ caller[t][cur[t]] # None /\ Outcome(cur[t]) # "ok"
                /\ caller[t][cur[t]] \in Silent
        BY <1>0, <1>9, <3>4, TestReturnsPlaced DEF Completed, Placed, Bookkept, Labels
      <3>5. CASE /\ caller[t][cur[t]] # None /\ Outcome(cur[t]) # "ok"
                /\ caller[t][cur[t]] \notin Silent
        <4>1. Placed'
          BY <1>0, <1>9, <3>5, GotoPlaced DEF Completed, EnterFailure, Placed, Bookkept, Labels
        <4>2. /\ reg' = [reg EXCEPT ![t] = 1]
              /\ UNCHANGED <<mode, vec, rc, phase>>
          BY <1>0, <1>9, <3>5 DEF Completed, EnterFailure
        <4>3. Bookkept'
          BY <1>0, <1>9, <3>5, <4>2 DEF Completed, Bookkept
        <4>. QED BY <4>1, <4>3
      <3>. QED BY <3>1, <3>2, <3>3, <3>4, <3>5
    <2>. QED BY <2>1, <2>2 DEF TypeOK, Placed, Bookkept
  <1>10. CASE Finish(t)
    <2>1. status' \in [Alg -> Result]
      BY <1>0, <1>10 DEF Finish
    <2>2. Placed' /\ Bookkept'
      BY <1>0, <1>10, ReturnPlaced DEF Finish, Return, Placed, Bookkept, Labels, Codes
    <2>. QED BY <2>1, <2>2 DEF TypeOK, Placed, Bookkept
  <1>11. CASE PctFails(t)
    <2>1. status' \in [Alg -> Result]
      BY <1>0, <1>11 DEF PctFails
    <2>2. Placed' /\ Bookkept'
      BY <1>0, <1>11, GotoPlaced DEF PctFails, EnterFailure, Placed, Bookkept, Labels, Modes
    <2>. QED BY <2>1, <2>2 DEF TypeOK, Placed, Bookkept
  <1>12. CASE InitRegister(t)
    <2>1. status' \in [Alg -> Result]
      BY <1>0, <1>12, WriteRegisterType DEF InitRegister
    <2>2. Placed' /\ Bookkept'
      <3>1. CASE reg[t] < NReg
        BY <1>0, <1>12, <3>1 DEF InitRegister, Placed, Bookkept, Labels
      <3>2. CASE ~(reg[t] < NReg)
        BY <1>0, <1>12, <3>2, GotoPlaced DEF InitRegister, Placed, Bookkept, Labels
      <3>. QED BY <3>1, <3>2
    <2>. QED BY <2>1, <2>2 DEF TypeOK, Placed, Bookkept
  <1>13. CASE Claim(t)
    <2>1. status' \in [Alg -> Result]
      BY <1>0, <1>13, OrIntoType DEF Claim, Placed, Result, pending, ongoing, failed
    <2>2. Placed' /\ Bookkept'
      <3>1. CASE status[Lib] > pending
        BY <1>0, <1>13, <3>1, ReturnPlaced DEF Claim, Return, Placed, Bookkept, Labels, Codes
      <3>2. CASE ~(status[Lib] > pending)
        <4>1. Placed'
          BY <1>0, <1>13, <3>2, GotoPlaced DEF Claim, Placed, Labels
        <4>2. caller' = [caller EXCEPT ![t][Sha3] = Lib]
          BY <1>0, <1>13, <3>2 DEF Claim
        <4>3. Bookkept'
          BY <1>0, <1>13, <3>2, <4>2 DEF Claim, Bookkept
        <4>. QED BY <4>1, <4>3
      <3>. QED BY <3>1, <3>2
    <2>. QED BY <2>1, <2>2 DEF TypeOK, Placed, Bookkept
  <1>14. CASE Digest(t)
    <2>1. status' \in [Alg -> Result]
      BY <1>0, <1>14, OrIntoType DEF Digest, Placed, Result, pending, passed, failed
    <2>2. Placed' /\ Bookkept'
      <3>1. CASE OrInto(Lib, passed) /\ Goto(t, "fini") /\ UNCHANGED <<cur, rc, phase>>
        BY <1>0, <1>14, <3>1, GotoPlaced DEF Digest, Placed, Bookkept, Labels
      <3>2. CASE OrInto(Lib, failed) /\ Return(t, "ok")
        BY <1>0, <1>14, <3>2, ReturnPlaced DEF Digest, Return, Placed, Bookkept, Labels, Codes
      <3>. QED BY <1>14, <3>1, <3>2 DEF Digest
    <2>. QED BY <2>1, <2>2 DEF TypeOK, Placed, Bookkept
  <1>15. CASE Fini(t)
    <2>1. status' \in [Alg -> Result]
      BY <1>0, <1>15 DEF Fini
    <2>2. Placed' /\ Bookkept'
      <3>1. CASE status[Lib] = passed
        <4>1. Placed'
          BY <1>0, <1>15, <3>1, GotoPlaced DEF Fini, Placed, Labels
        <4>2. Bookkept'
          BY <1>0, <1>15, <3>1 DEF Fini, Bookkept
        <4>. QED BY <4>1, <4>2
      <3>2. CASE status[Lib] # passed
        <4>1. Placed'
          BY <1>0, <1>15, <3>2, ReturnPlaced DEF Fini, Placed, Bookkept, Labels
        <4>2. Bookkept'
          BY <1>0, <1>15, <3>2 DEF Fini, Return, Bookkept, Codes
        <4>. QED BY <4>1, <4>2
      <3>. QED BY <3>1, <3>2
    <2>. QED BY <2>1, <2>2 DEF TypeOK, Placed, Bookkept
  <1>16. CASE ReopenRegister(t)
    <2>1. status' \in [Alg -> Result]
      BY <1>0, <1>16, WriteRegisterType DEF ReopenRegister
    <2>2. Placed' /\ Bookkept'
      <3>1. CASE reg[t] < NReg
        BY <1>0, <1>16, <3>1 DEF ReopenRegister, Placed, Bookkept, Labels
      <3>2. CASE ~(reg[t] < NReg)
        BY <1>0, <1>16, <3>2, ReturnPlaced DEF ReopenRegister, Return, Placed, Bookkept, Labels, Codes
      <3>. QED BY <3>1, <3>2
    <2>. QED BY <2>1, <2>2 DEF TypeOK, Placed, Bookkept
  <1>17. CASE Activate(t)
    <2>1. status' \in [Alg -> Result]
      BY <1>0, <1>17, OrIntoType DEF Activate, Placed, Result, pending, passed, failed
    <2>2. Placed' /\ Bookkept'
      <3>1. CASE status[Lib] > pending
        BY <1>0, <1>17, <3>1, ReturnPlaced DEF Activate, Return, Placed, Bookkept, Labels, Codes
      <3>2. CASE ~(status[Lib] > pending)
        <4>1. Placed'
          BY <1>0, <1>17, <3>2, GotoPlaced DEF Activate, Placed, Labels
        <4>2. Bookkept'
          BY <1>0, <1>17, <3>2 DEF Activate, Bookkept
        <4>. QED BY <4>1, <4>2
      <3>. QED BY <3>1, <3>2
    <2>. QED BY <2>1, <2>2 DEF TypeOK, Placed, Bookkept
  <1>18. CASE OpenRegister(t)
    <2>1. status' \in [Alg -> Result]
      BY <1>0, <1>18, WriteRegisterType DEF OpenRegister
    <2>2. Placed' /\ Bookkept'
      <3>1. CASE reg[t] < NReg
        BY <1>0, <1>18, <3>1 DEF OpenRegister, Placed, Bookkept, Labels
      <3>2. CASE ~(reg[t] < NReg)
        BY <1>0, <1>18, <3>2, ReturnPlaced DEF OpenRegister, Return, Placed, Bookkept, Labels, Codes
      <3>. QED BY <3>1, <3>2
    <2>. QED BY <2>1, <2>2 DEF TypeOK, Placed, Bookkept
  <1>. QED
    BY <1>1, <1>2, <1>3, <1>4, <1>5, <1>6, <1>7, <1>8, <1>9, <1>10, <1>11,
       <1>12, <1>13, <1>14, <1>15, <1>16, <1>17, <1>18 DEF Step

LEMMA ApiCallType ==
  ASSUME TypeOK, NEW t \in Thread, ApiCall(t)
  PROVE  TypeOK'
  <1>. USE AlgAssumption, RegAssumption DEF AlgAssumption, RegAssumption
  <1>. USE DEF TypeOK, Labels
  <1>1. ASSUME NEW a \in Alg \ {Lib}, Use(t, a) PROVE TypeOK'
    BY <1>1 DEF Use, Begin, Entry, Goto
  <1>2. ASSUME NEW a \in Alg \ {Lib}, UnsetOne(t, a) PROVE TypeOK'
    BY <1>2 DEF UnsetOne, Begin, Goto, Result, pending, failed
  <1>3. CASE Rerun(t)
    BY <1>3 DEF Rerun, Begin, Goto
  <1>4. CASE LcInit(t)
    BY <1>4 DEF LcInit, Begin, Goto
  <1>5. CASE UnsetAll(t)
    BY <1>5 DEF UnsetAll, Begin, Goto
  <1>6. CASE Disable(t)
    <2>1. CASE Begin(t, "idle", None) /\ rc' = [rc EXCEPT ![t] = "EOPNOTSUPP"]
               /\ UNCHANGED reg
      BY <1>6, <2>1 DEF Disable, Begin, Goto, Codes
    <2>2. CASE Begin(t, "disable", Lib) /\ reg' = [reg EXCEPT ![t] = 1]
               /\ UNCHANGED rc
      BY <1>6, <2>2 DEF Disable, Begin, Goto
    <2>. QED BY <1>6, <2>1, <2>2 DEF Disable
  <1>. QED BY <1>1, <1>2, <1>3, <1>4, <1>5, <1>6 DEF ApiCall, RerunOne, RerunAll

LEMMA InitType == Init => TypeOK
  BY AlgAssumption, RegAssumption
     DEF AlgAssumption, RegAssumption, Init, TypeOK, Result, pending, failed,
         Labels, Modes, Codes

LEMMA NextType == TypeOK /\ [Next]_vars => TypeOK'
  <1>. SUFFICES ASSUME TypeOK, [Next]_vars PROVE TypeOK'
    OBVIOUS
  <1>1. CASE UNCHANGED vars
    BY <1>1 DEF vars, control, TypeOK
  <1>2. CASE Tamper
    BY <1>2 DEF Tamper, control, TypeOK
  <1>. QED BY <1>1, <1>2, StepType, ApiCallType DEF Next

\* The type invariant holds in every reachable state: no interleaving of ORs
\* and sweeps leaves a field with a pattern outside the documented four.
THEOREM TypeCorrect == Spec => []TypeOK
  BY InitType, NextType, PTL DEF Spec

-----------------------------------------------------------------------------
(* No thread is served by an algorithm whose first known answer is wrong.  *)

\* An algorithm that fails its first compare never gets the verdict passed.
NoFalseVerdict ==
  \A a \in Alg \ {Lib, Sha3} : BadAt[a] = 1 => status[a] # passed

\* Such a self test never gets beyond its first compare, and such an algorithm
\* never beyond LC_SELFTEST_COMPLETED.  Nobody disables self tests.
Guarded(t) ==
  /\ pc[t] = "kat" /\ BadAt[cur[t]] = 1 => vec[t] = 1
  /\ pc[t] = "served" /\ cur[t] # Sha3 => BadAt[cur[t]] # 1
  /\ pc[t] # "disable"

GuardInv == TypeOK /\ NoFalseVerdict /\ \A t \in Thread : Guarded(t)

LEMMA OrKeepsVerdict ==
  ASSUME TypeOK, NoFalseVerdict, NEW a \in Alg, NEW r \in Result, OrInto(a, r),
         a \in {Lib, Sha3} \/ r # passed \/ BadAt[a] # 1
  PROVE  NoFalseVerdict'
  <1>. SUFFICES ASSUME NEW b \in Alg \ {Lib, Sha3}, BadAt[b] = 1
                PROVE  status'[b] # passed
    BY DEF NoFalseVerdict
  <1>1. status[b] # passed
    BY DEF NoFalseVerdict
  <1>2. CASE a = b
    BY <1>1, <1>2 DEF OrInto, Or, TypeOK, Result, passed
  <1>3. CASE a # b
    BY <1>1, <1>3 DEF OrInto, TypeOK
  <1>. QED BY <1>2, <1>3

LEMMA SweepKeepsVerdict ==
  ASSUME TypeOK, NoFalseVerdict, NEW t \in Thread, WriteRegister(t),
         pc[t] \in {"init", "drop", "open", "reopen"}
  PROVE  NoFalseVerdict'
  <1>. SUFFICES ASSUME NEW b \in Alg \ {Lib, Sha3}, BadAt[b] = 1
                PROVE  status'[b] # passed
    BY DEF NoFalseVerdict
  <1>1. status[b] # passed
    BY DEF NoFalseVerdict
  <1>2. Swept(pc[t], b) # passed
    BY DEF Swept, pending, passed, failed
  <1>. QED BY <1>1, <1>2 DEF WriteRegister

\* A step of one thread leaves the control state of the others alone.
LEMMA OthersStay ==
  ASSUME TypeOK, NEW t \in Thread, Step(t) \/ ApiCall(t),
         NEW u \in Thread, u # t
  PROVE  /\ pc'[u] = pc[u] /\ cur'[u] = cur[u] /\ vec'[u] = vec[u]
         /\ caller'[u] = caller[u] /\ mode'[u] = mode[u] /\ reg'[u] = reg[u]
  <1>. USE DEF TypeOK
  <1>1. CASE ReadLib(t)
    BY <1>1 DEF ReadLib, Goto, TestReturns
  <1>2. CASE ReadOwn(t)
    BY <1>2 DEF ReadOwn, Goto, TestReturns
  <1>3. CASE Mark(t)
    BY <1>3 DEF Mark, Goto
  <1>4. CASE ComparePasses(t)
    BY <1>4 DEF ComparePasses, Goto, TestReturns
  <1>5. CASE CompareFails(t)
    BY <1>5 DEF CompareFails, Goto, EnterFailure
  <1>6. CASE DropRegister(t)
    BY <1>6 DEF DropRegister, Goto
  <1>7. CASE RecordFailure(t)
    BY <1>7 DEF RecordFailure, Goto, TestReturns, Return
  <1>8. CASE FailLibrary(t)
    BY <1>8 DEF FailLibrary, Goto, TestReturns
  <1>9. CASE Completed(t)
    BY <1>9 DEF Completed, Goto, TestReturns, Return, EnterFailure
  <1>10. CASE Finish(t)
    BY <1>10 DEF Finish, Goto, Return
  <1>11. CASE PctFails(t)
    BY <1>11 DEF PctFails, Goto, EnterFailure
  <1>12. CASE InitRegister(t)
    BY <1>12 DEF InitRegister, Goto
  <1>13. CASE Claim(t)
    BY <1>13 DEF Claim, Goto, Return
  <1>14. CASE Digest(t)
    BY <1>14 DEF Digest, Goto, Return
  <1>15. CASE Fini(t)
    BY <1>15 DEF Fini, Goto, Return
  <1>16. CASE ReopenRegister(t)
    BY <1>16 DEF ReopenRegister, Goto, Return
  <1>17. CASE Activate(t)
    BY <1>17 DEF Activate, Goto, Return
  <1>18. CASE OpenRegister(t)
    BY <1>18 DEF OpenRegister, Goto, Return
  <1>20. ASSUME NEW a \in Alg \ {Lib}, Use(t, a) \/ UnsetOne(t, a)
        PROVE  /\ pc'[u] = pc[u] /\ cur'[u] = cur[u] /\ vec'[u] = vec[u]
               /\ caller'[u] = caller[u] /\ mode'[u] = mode[u] /\ reg'[u] = reg[u]
    BY <1>20 DEF Use, UnsetOne, Begin, Goto
  <1>21. CASE Rerun(t) \/ LcInit(t) \/ UnsetAll(t) \/ Disable(t)
    BY <1>21 DEF Rerun, LcInit, UnsetAll, Disable, Begin, Goto
  <1>. QED
    BY <1>1, <1>2, <1>3, <1>4, <1>5, <1>6, <1>7, <1>8, <1>9, <1>10, <1>11, <1>12, <1>13, <1>14, <1>15, <1>16, <1>17, <1>18, <1>20, <1>21
       DEF Step, ApiCall, RerunOne, RerunAll


LEMMA StepKeepsVerdicts ==
  ASSUME GuardInv, NEW t \in Thread, Step(t)
  PROVE  NoFalseVerdict'
  <1>. USE AlgAssumption DEF AlgAssumption, GuardInv
  <1>0. /\ pc[t] # "disable" /\ (pc[t] # "idle" => cur[t] \in Alg)
        /\ {pending, ongoing, passed, failed} \subseteq Result
        /\ ongoing # passed /\ failed # passed
    BY DEF Guarded, TypeOK, Result, pending, ongoing, passed, failed
  <1>1. CASE ReadLib(t) \/ ReadOwn(t) \/ CompareFails(t)
             \/ Completed(t) \/ Finish(t) \/ PctFails(t) \/ Fini(t)
    BY <1>1 DEF ReadLib, ReadOwn, CompareFails, Completed, Finish, PctFails, Fini,
                NoFalseVerdict
  <1>2. CASE Mark(t)
    BY <1>0, <1>2, OrKeepsVerdict DEF Mark
  <1>3. CASE RecordFailure(t)
    BY <1>0, <1>3, OrKeepsVerdict DEF RecordFailure
  <1>4. CASE FailLibrary(t)
    BY <1>0, <1>4, OrKeepsVerdict DEF FailLibrary
  <1>5. CASE Claim(t)
    BY <1>0, <1>5, OrKeepsVerdict DEF Claim
  <1>6. CASE Activate(t)
    BY <1>0, <1>6, OrKeepsVerdict DEF Activate
  <1>7. CASE Digest(t)
    <2>1. OrInto(Lib, passed) \/ OrInto(Lib, failed)
      BY <1>7 DEF Digest
    <2>. QED BY <1>0, <2>1, OrKeepsVerdict
  <1>8. CASE ComparePasses(t)
    <2>1. BadAt[cur[t]] # 1
      BY <1>8 DEF ComparePasses, Guarded
    <2>. QED BY <1>0, <1>8, <2>1, OrKeepsVerdict DEF ComparePasses
  <1>9. CASE DropRegister(t) \/ InitRegister(t) \/ ReopenRegister(t) \/ OpenRegister(t)
    BY <1>0, <1>9, SweepKeepsVerdict
       DEF DropRegister, InitRegister, ReopenRegister, OpenRegister
  <1>. QED
    BY <1>1, <1>2, <1>3, <1>4, <1>5, <1>6, <1>7, <1>8, <1>9 DEF Step

\* Where a step inside a call can lead: the compares start with the first
\* vector, and only LC_SELFTEST_COMPLETED with a good verdict leads to service.
LEMMA StepStaysGuarded ==
  ASSUME GuardInv, NEW t \in Thread, Step(t)
  PROVE  Guarded(t)'
  <1>. USE DEF GuardInv, TypeOK
  <1>1. CASE ReadLib(t)
    <2>1. pc'[t] \in {"digest", "completed", "run"} \/ (pc'[t] = "kat" /\ vec'[t] = 1)
      BY <1>1 DEF ReadLib, TestReturns, Goto
    <2>. QED BY <2>1 DEF Guarded
  <1>2. CASE ReadOwn(t)
    <2>1. pc'[t] \in {"digest", "completed", "mark"}
      BY <1>2 DEF ReadOwn, TestReturns, Goto
    <2>. QED BY <2>1 DEF Guarded
  <1>3. CASE CompareFails(t)
    <2>1. pc'[t] \in {"drop", "orfail"}
      BY <1>3 DEF CompareFails, EnterFailure, Goto
    <2>. QED BY <2>1 DEF Guarded
  <1>4. CASE DropRegister(t)
    <2>1. pc'[t] \in {"drop", "orfail"}
      BY <1>4 DEF DropRegister, Goto
    <2>. QED BY <2>1 DEF Guarded
  <1>5. CASE RecordFailure(t)
    <2>1. pc'[t] \in {"digest", "completed", "libfail", "idle"}
      BY <1>5 DEF RecordFailure, TestReturns, Return, Goto
    <2>. QED BY <2>1 DEF Guarded
  <1>6. CASE FailLibrary(t)
    <2>1. pc'[t] \in {"digest", "completed"}
      BY <1>6 DEF FailLibrary, TestReturns, Goto
    <2>. QED BY <2>1 DEF Guarded
  <1>7. CASE Finish(t)
    <2>1. pc'[t] \in {"idle"}
      BY <1>7 DEF Finish, Return, Goto
    <2>. QED BY <2>1 DEF Guarded
  <1>8. CASE PctFails(t)
    <2>1. pc'[t] \in {"drop", "orfail"}
      BY <1>8 DEF PctFails, EnterFailure, Goto
    <2>. QED BY <2>1 DEF Guarded
  <1>9. CASE InitRegister(t)
    <2>1. pc'[t] \in {"init", "claim"}
      BY <1>9 DEF InitRegister, Goto
    <2>. QED BY <2>1 DEF Guarded
  <1>10. CASE Claim(t)
    <2>1. pc'[t] \in {"lib", "idle"}
      BY <1>10 DEF Claim, Return, Goto
    <2>. QED BY <2>1 DEF Guarded
  <1>11. CASE Digest(t)
    <2>1. pc'[t] \in {"fini", "idle"}
      BY <1>11 DEF Digest, Return, Goto
    <2>. QED BY <2>1 DEF Guarded
  <1>12. CASE Fini(t)
    <2>1. pc'[t] \in {"reopen", "idle"}
      BY <1>12 DEF Fini, Return, Goto
    <2>. QED BY <2>1 DEF Guarded
  <1>13. CASE ReopenRegister(t)
    <2>1. pc'[t] \in {"reopen", "idle"}
      BY <1>13 DEF ReopenRegister, Return, Goto
    <2>. QED BY <2>1 DEF Guarded
  <1>14. CASE Activate(t)
    <2>1. pc'[t] \in {"open", "idle"}
      BY <1>14 DEF Activate, Return, Goto
    <2>. QED BY <2>1 DEF Guarded
  <1>15. CASE OpenRegister(t)
    <2>1. pc'[t] \in {"open", "idle"}
      BY <1>15 DEF OpenRegister, Return, Goto, Guarded
    <2>. QED BY <2>1 DEF Guarded
  <1>16. CASE Mark(t)
    <2>1. pc'[t] \in {"lib", "run"} \/ (pc'[t] = "kat" /\ vec'[t] = 1)
      BY <1>16 DEF Mark, Entry, Goto
    <2>. QED BY <2>1 DEF Guarded
  <1>17. CASE ComparePasses(t)
    <2>1. BadAt[cur[t]] # 1
      BY <1>17 DEF ComparePasses, Guarded
    <2>2. \/ pc'[t] \in {"digest", "completed"}
          \/ pc'[t] = "kat" /\ cur'[t] = cur[t]
      BY <1>17 DEF ComparePasses, TestReturns, Goto
    <2>. QED BY <2>1, <2>2 DEF Guarded
  <1>18. CASE Completed(t)
    <2>1. CASE /\ caller[t][cur[t]] = None /\ Outcome(cur[t]) = "ok"
               /\ Goto(t, "served") /\ UNCHANGED cur
      <3>1. status[cur[t]] = passed
        BY <1>18, <2>1
           DEF Completed, Waits, Outcome, Result, pending, ongoing, passed, failed
      <3>2. cur[t] # Sha3 => BadAt[cur[t]] # 1
        BY <1>18, <3>1, TestAssumption DEF Completed, NoFalseVerdict, TestAssumption
      <3>. QED BY <2>1, <3>2 DEF Guarded, Goto
    <2>2. CASE \/ pc'[t] \in {"idle", "digest", "completed", "drop", "orfail"}
               \/ pc'[t] = "kat" /\ vec'[t] = 1
      BY <2>2 DEF Guarded
    <2>. QED BY <1>18, <2>1, <2>2
             DEF Completed, TestReturns, Return, EnterFailure, Goto
  <1>. QED
    BY <1>1, <1>2, <1>3, <1>4, <1>5, <1>6, <1>7, <1>8, <1>9, <1>10,
       <1>11, <1>12, <1>13, <1>14, <1>15, <1>16, <1>17, <1>18
       DEF Step

LEMMA ApiCallKeepsGuard ==
  ASSUME GuardInv, Fips \/ Disablers = {}, NEW t \in Thread, ApiCall(t)
  PROVE  NoFalseVerdict' /\ Guarded(t)'
  <1>. USE DEF GuardInv, TypeOK
  <1>1. ASSUME NEW a \in Alg \ {Lib}, Use(t, a)
        PROVE  NoFalseVerdict' /\ pc'[t] \in {"lib", "run"}
    BY <1>1 DEF Use, Begin, Entry, Goto, NoFalseVerdict
  <1>2. ASSUME NEW a \in Alg \ {Lib}, UnsetOne(t, a)
        PROVE  NoFalseVerdict' /\ pc'[t] = "idle"
    BY <1>2 DEF UnsetOne, Begin, Goto, NoFalseVerdict, pending, passed
  <1>3. CASE Rerun(t) \/ LcInit(t) \/ UnsetAll(t)
    <2>1. NoFalseVerdict' /\ pc'[t] \in {"init", "activate", "open"}
      BY <1>3 DEF Rerun, LcInit, UnsetAll, Begin, Goto, NoFalseVerdict
    <2>. QED BY <2>1 DEF Guarded
  <1>4. CASE Disable(t)
    <2>1. Fips
      BY <1>4 DEF Disable
    <2>2. NoFalseVerdict' /\ pc'[t] = "idle"
      BY <1>4, <2>1 DEF Disable, Begin, Goto, NoFalseVerdict
    <2>. QED BY <2>2 DEF Guarded
  <1>. QED BY <1>1, <1>2, <1>3, <1>4 DEF ApiCall, RerunOne, RerunAll, Guarded

\* The guard holds initially and no step breaks it.
LEMMA GuardStays ==
  ASSUME Fips \/ Disablers = {}
  PROVE  Spec => []GuardInv
  <1>1. Init => GuardInv
    <2>1. Init => NoFalseVerdict /\ \A t \in Thread : Guarded(t)
      BY DEF Init, NoFalseVerdict, Guarded, pending, passed, failed
    <2>. QED BY <2>1, InitType DEF GuardInv
  <1>2. GuardInv /\ [Next]_vars => GuardInv'
    <2>. SUFFICES ASSUME GuardInv, [Next]_vars PROVE GuardInv'
      OBVIOUS
    <2>1. TypeOK'
      BY NextType DEF GuardInv
    <2>2. CASE UNCHANGED vars
      BY <2>1, <2>2 DEF GuardInv, NoFalseVerdict, Guarded, vars, control
    <2>3. CASE Tamper
      BY <2>1, <2>3 DEF GuardInv, NoFalseVerdict, Guarded, Tamper, control
    <2>4. ASSUME NEW t \in Thread, Step(t) \/ ApiCall(t)
          PROVE  GuardInv'
      <3>1. NoFalseVerdict' /\ Guarded(t)'
        BY <2>4, StepKeepsVerdicts, StepStaysGuarded, ApiCallKeepsGuard
      <3>2. ASSUME NEW u \in Thread, u # t PROVE Guarded(u)'
        BY <2>4, <3>2, OthersStay DEF GuardInv, Guarded
      <3>. QED BY <2>1, <3>1, <3>2 DEF GuardInv
    <2>. QED BY <2>2, <2>3, <2>4 DEF Next
  <1>. QED BY <1>1, <1>2, PTL DEF Spec

\* BrokenNeverServed for any number of threads, algorithms and registers, with
\* resets, re-runs and failing tests of other threads in any order: it is the
\* first compare of LC_SELFTEST_RUN that keeps a broken algorithm from users,
\* and only lc_alg_disable_selftests (not in FIPS mode) can bypass it.
THEOREM BrokenRefused ==
  ASSUME Fips \/ Disablers = {}
  PROVE  Spec => []BrokenNeverServed
  <1>1. GuardInv => BrokenNeverServed
    BY DEF GuardInv, Guarded, BrokenNeverServed
  <1>. QED BY <1>1, GuardStays, PTL

-----------------------------------------------------------------------------
(* The frames of nested self tests.                                        *)

TestLabels == {"lib", "run", "mark", "kat", "drop", "orfail", "libfail",
               "completed", "served"}

\* A self test works on an algorithm, never on the library field.  Its frame
\* records the test that uses it, or the integrity check, which uses SHA-3.
Frame(t) ==
  /\ vec[t] # 0
  /\ pc[t] \in TestLabels => cur[t] # Lib
  /\ pc[t] \in {"completed", "served"} => caller[t][cur[t]] # Lib
  /\ \A a \in Alg : caller[t][a] = Lib => a = Sha3
  /\ \A a \in Alg : caller[t][a] \notin {None, Lib} => Dep[caller[t][a]] = a

FrameInv == TypeOK /\ \A t \in Thread : Frame(t)

LEMMA TestReturnsFrame ==
  ASSUME FrameInv, NEW t \in Thread, NEW a \in Alg \ {Lib},
         TestReturns(t, a), caller' = caller, vec'[t] # 0
  PROVE  Frame(t)'
  <1>. USE AlgAssumption DEF AlgAssumption, FrameInv, TypeOK
  <1>1. CASE caller[t][a] = Lib
    <2>1. pc'[t] = "digest"
      BY <1>1 DEF TestReturns, Goto
    <2>. QED BY <2>1 DEF Frame, TestLabels
  <1>2. CASE caller[t][a] # Lib
    <2>1. pc'[t] = "completed" /\ cur'[t] = a
      BY <1>2 DEF TestReturns, Goto
    <2>. QED BY <1>2, <2>1 DEF Frame, TestLabels
  <1>. QED BY <1>1, <1>2

\* A step that neither calls nor returns from a self test.
LEMMA SameFrame ==
  ASSUME FrameInv, NEW t \in Thread, caller' = caller, vec'[t] # 0,
         \/ pc'[t] \in TestLabels \ {"completed", "served"}
            /\ cur'[t] = cur[t] /\ pc[t] \in TestLabels
         \/ pc'[t] \notin TestLabels
  PROVE  Frame(t)'
  BY DEF FrameInv, Frame, TestLabels

LEMMA StepFrame ==
  ASSUME FrameInv, NEW t \in Thread, Step(t)
  PROVE  Frame(t)'
  <1>. USE AlgAssumption DEF AlgAssumption
  <1>0. /\ pc \in [Thread -> Labels] /\ cur \in [Thread -> Alg \union {None}]
        /\ vec \in [Thread -> Nat] /\ Frame(t) /\ TypeOK
        /\ caller \in [Thread -> [Alg -> Alg \union {None}]]
        /\ (pc[t] \in TestLabels => cur[t] \in Alg \ {Lib})
    BY DEF FrameInv, TypeOK, Frame, TestLabels
  <1>00. vec[t] # 0 /\ vec[t] \in Nat
    BY <1>0 DEF Frame
  <1>1. CASE ReadLib(t)
    <2>1. CASE TestReturns(t, cur[t]) /\ UNCHANGED vec
      BY <1>0, <1>00, <1>1, <2>1, TestReturnsFrame DEF ReadLib, TestLabels
    <2>2. CASE pc'[t] \in {"kat", "run"} /\ vec'[t] # 0 /\ cur' = cur
      BY <1>0, <1>1, <2>2, SameFrame DEF ReadLib, TestLabels
    <2>. QED BY <1>0, <1>00, <1>1, <2>1, <2>2 DEF ReadLib, Goto
  <1>2. CASE ReadOwn(t)
    <2>1. CASE status[cur[t]] = pending
      BY <1>0, <1>00, <1>2, <2>1, SameFrame DEF ReadOwn, Goto, TestLabels
    <2>2. CASE status[cur[t]] # pending
      BY <1>0, <1>00, <1>2, <2>2, TestReturnsFrame DEF ReadOwn, TestLabels
    <2>. QED BY <2>1, <2>2
  <1>3. CASE Mark(t)
    <2>1. CASE Dep[cur[t]] = None
      BY <1>0, <1>3, <2>1, SameFrame DEF Mark, Goto, TestLabels
    <2>2. CASE Dep[cur[t]] # None
      <3>. DEFINE a == cur[t]
      <3>1. /\ a \in Alg \ {Lib} /\ Dep[a] \in Alg \ {Lib}
            /\ vec'[t] = 1 /\ cur'[t] = Dep[a] /\ pc'[t] \in {"lib", "run"}
            /\ caller' = [caller EXCEPT ![t][Dep[a]] = a]
        BY <1>0, <1>3, <2>2, TestAssumption
           DEF Mark, Goto, Entry, TestLabels, TestAssumption
      <3>2. \A b \in Alg : caller'[t][b] = IF b = Dep[a] THEN a ELSE caller[t][b]
        BY <1>0, <3>1
      <3>. QED BY <1>0, <3>1, <3>2 DEF Frame
    <2>. QED BY <2>1, <2>2
  <1>4. CASE ComparePasses(t)
    <2>1. CASE vec[t] < Vectors[cur[t]]
      BY <1>0, <1>00, <1>4, <2>1, SameFrame DEF ComparePasses, TestLabels
    <2>2. CASE ~ (vec[t] < Vectors[cur[t]])
      BY <1>0, <1>00, <1>4, <2>2, TestReturnsFrame DEF ComparePasses, TestLabels
    <2>. QED BY <2>1, <2>2
  <1>5. CASE CompareFails(t) \/ PctFails(t)
    <2>1. pc'[t] \in {"drop", "orfail"}
      BY <1>0, <1>5 DEF CompareFails, PctFails, EnterFailure, Goto
    <2>. QED BY <1>0, <1>00, <1>5, <2>1, SameFrame
             DEF CompareFails, PctFails, TestLabels
  <1>6. CASE DropRegister(t)
    <2>1. pc'[t] \in {"drop", "orfail"}
      BY <1>0, <1>6 DEF DropRegister, Goto
    <2>. QED BY <1>0, <1>00, <1>6, <2>1, SameFrame DEF DropRegister, TestLabels
  <1>7. CASE RecordFailure(t)
    <2>1. CASE mode[t] = "cast"
      BY <1>0, <1>00, <1>7, <2>1, TestReturnsFrame DEF RecordFailure, TestLabels
    <2>2. CASE mode[t] = "startup"
      BY <1>0, <1>00, <1>7, <2>2, SameFrame DEF RecordFailure, Goto, TestLabels
    <2>3. CASE mode[t] = "pct"
      BY <1>0, <1>00, <1>7, <2>3, SameFrame
         DEF RecordFailure, Return, Goto, TestLabels
    <2>. QED BY <1>7, <2>1, <2>2, <2>3 DEF RecordFailure
  <1>8. CASE FailLibrary(t)
    BY <1>0, <1>00, <1>8, TestReturnsFrame DEF FailLibrary, TestLabels
  <1>9. CASE Completed(t)
    <2>. DEFINE a == cur[t]
                c == caller[t][a]
    <2>1. /\ a \in Alg \ {Lib} /\ c # Lib /\ (c # None => c \in Alg \ {Lib})
          /\ caller' = caller
      BY <1>0, <1>9 DEF Completed, Frame, TestLabels
    <2>2. CASE Goto(t, "served") /\ UNCHANGED <<cur, vec>>
      BY <1>0, <2>1, <2>2 DEF Goto, Frame
    <2>3. CASE Return(t, Outcome(a)) /\ UNCHANGED vec
      BY <1>0, <1>00, <2>1, <2>3, SameFrame DEF Return, Goto, TestLabels
    <2>4. CASE c # None /\ pc'[t] \in {"kat", "drop", "orfail"} /\ cur'[t] = c
               /\ vec'[t] # 0
      BY <1>0, <2>1, <2>4 DEF Frame
    <2>5. CASE c # None /\ TestReturns(t, c) /\ UNCHANGED vec
      BY <1>0, <1>00, <2>1, <2>5, TestReturnsFrame
    <2>6. \/ Goto(t, "served") /\ UNCHANGED <<cur, vec>>
          \/ Return(t, Outcome(a)) /\ UNCHANGED vec
          \/ c # None /\ Goto(t, "kat") /\ cur' = [cur EXCEPT ![t] = c]
             /\ vec' = [vec EXCEPT ![t] = 1]
          \/ c # None /\ TestReturns(t, c) /\ UNCHANGED vec
          \/ c # None /\ EnterFailure(t) /\ cur' = [cur EXCEPT ![t] = c]
             /\ UNCHANGED vec
      BY <1>9 DEF Completed
    <2>. QED BY <1>0, <1>00, <2>2, <2>3, <2>4, <2>5, <2>6 DEF EnterFailure, Goto
  <1>10. CASE Finish(t)
    BY <1>0, <1>00, <1>10, SameFrame DEF Finish, Return, Goto, TestLabels
  <1>11. CASE InitRegister(t)
    <2>1. pc'[t] \in {"init", "claim"}
      BY <1>0, <1>11 DEF InitRegister, Goto
    <2>. QED BY <1>0, <1>00, <1>11, <2>1, SameFrame DEF InitRegister, TestLabels
  <1>12. CASE Claim(t)
    <2>1. CASE status[Lib] > pending
      BY <1>0, <1>00, <1>12, <2>1, SameFrame DEF Claim, Return, Goto, TestLabels
    <2>2. CASE ~ (status[Lib] > pending)
      <3>1. /\ cur'[t] = Sha3 /\ pc'[t] = "lib" /\ vec' = vec
            /\ caller' = [caller EXCEPT ![t][Sha3] = Lib]
        BY <1>0, <1>12, <2>2 DEF Claim, Goto
      <3>2. \A b \in Alg : caller'[t][b] = IF b = Sha3 THEN Lib ELSE caller[t][b]
        BY <1>0, <3>1
      <3>. QED BY <1>0, <1>00, <3>1, <3>2 DEF Frame
    <2>. QED BY <2>1, <2>2
  <1>13. CASE Digest(t) \/ Fini(t) \/ ReopenRegister(t) \/ Activate(t)
              \/ OpenRegister(t)
    <2>1. pc'[t] \notin TestLabels /\ caller' = caller /\ vec' = vec
      BY <1>0, <1>13 DEF Digest, Fini, ReopenRegister, Activate, OpenRegister,
                         Return, Goto, TestLabels
    <2>. QED BY <1>0, <1>00, <2>1, SameFrame
  <1>. QED BY <1>1, <1>2, <1>3, <1>4, <1>5, <1>6, <1>7, <1>8, <1>9, <1>10,
              <1>11, <1>12, <1>13 DEF Step

LEMMA ApiCallFrame ==
  ASSUME FrameInv, NEW t \in Thread, ApiCall(t)
  PROVE  Frame(t)'
  <1>. USE AlgAssumption DEF AlgAssumption
  <1>0. /\ pc \in [Thread -> Labels] /\ cur \in [Thread -> Alg \union {None}]
        /\ vec[t] # 0 /\ Frame(t)
        /\ caller \in [Thread -> [Alg -> Alg \union {None}]]
    BY DEF FrameInv, TypeOK, Frame
  <1>1. ASSUME NEW a \in Alg \ {Lib}, Use(t, a) PROVE Frame(t)'
    <2>1. /\ pc'[t] \in {"lib", "run"} /\ cur'[t] = a /\ vec' = vec
          /\ caller' = [caller EXCEPT ![t][a] = None]
      BY <1>0, <1>1 DEF Use, Begin, Entry, Goto
    <2>2. \A b \in Alg : caller'[t][b] = IF b = a THEN None ELSE caller[t][b]
      BY <1>0, <2>1
    <2>. QED BY <1>0, <2>1, <2>2 DEF Frame
  <1>2. ASSUME NEW a \in Alg \ {Lib}, UnsetOne(t, a) PROVE Frame(t)'
    BY <1>0, <1>2, SameFrame DEF UnsetOne, Begin, Goto, TestLabels
  <1>3. CASE Rerun(t) \/ LcInit(t) \/ UnsetAll(t) \/ Disable(t)
    <2>1. pc'[t] \notin TestLabels /\ caller' = caller /\ vec' = vec
      BY <1>0, <1>3 DEF Rerun, LcInit, UnsetAll, Disable, Begin, Goto, TestLabels
    <2>. QED BY <1>0, <2>1, SameFrame
  <1>. QED BY <1>1, <1>2, <1>3 DEF ApiCall, RerunOne, RerunAll

LEMMA NextFrame == FrameInv /\ [Next]_vars => FrameInv'
  <1>. SUFFICES ASSUME FrameInv, [Next]_vars PROVE FrameInv'
    OBVIOUS
  <1>1. TypeOK'
    BY NextType DEF FrameInv
  <1>2. CASE UNCHANGED vars
    BY <1>1, <1>2 DEF FrameInv, Frame, vars, control
  <1>3. CASE Tamper
    BY <1>1, <1>3 DEF FrameInv, Frame, Tamper, control
  <1>4. ASSUME NEW t \in Thread, Step(t) \/ ApiCall(t) PROVE FrameInv'
    <2>1. Frame(t)'
      BY <1>4, StepFrame, ApiCallFrame
    <2>2. ASSUME NEW u \in Thread, u # t PROVE Frame(u)'
      BY <1>4, <2>2, OthersStay DEF FrameInv, Frame
    <2>. QED BY <1>1, <2>1, <2>2 DEF FrameInv
  <1>. QED BY <1>2, <1>3, <1>4 DEF Next

LEMMA InitFrame == Init => FrameInv
  <1>. SUFFICES ASSUME Init PROVE FrameInv
    OBVIOUS
  <1>1. TypeOK
    BY InitType
  <1>2. ASSUME NEW t \in Thread PROVE Frame(t)
    <2>1. /\ pc[t] \in {"idle", "claim", "activate"} /\ vec[t] = 1
          /\ \A a \in Alg : caller[t][a] = None
      BY DEF Init
    <2>. QED BY <2>1, AlgAssumption DEF Frame, TestLabels, AlgAssumption
  <1>. QED BY <1>1, <1>2 DEF FrameInv

-----------------------------------------------------------------------------
(* The machine implements SelfTestGate.                                    *)

promiseVars == <<verdictBar, servingBar>>

LEMMA ResultValues ==
  /\ pending = 0 /\ ongoing = 1 /\ passed = 2 /\ failed = 3
  /\ Result = 0..3
  BY DEF pending, ongoing, passed, failed, Result

\* An OR into one field approves or condemns one algorithm, or is not seen.
LEMMA OrIsPromised ==
  ASSUME TypeOK, NEW a \in Alg, NEW r \in {ongoing, passed, failed},
         OrInto(a, r), UNCHANGED servingBar,
         r = passed => a \in {Lib, Sha3} \/ BadAt[a] # 1
  PROVE  [Promise!Next]_promiseVars
  <1>. USE ResultValues
  <1>1. /\ status \in [Alg -> Result]
        /\ status' = [status EXCEPT ![a] = Or(status[a], r)]
    BY DEF TypeOK, OrInto
  <1>2. CASE a \notin Refined \/ Or(status[a], r) = status[a] \/ r = ongoing
    <2>1. \A b \in Refined : /\ status'[b] = passed <=> status[b] = passed
                             /\ status'[b] = failed <=> status[b] = failed
      BY <1>1, <1>2 DEF Or, Refined
    <2>. QED BY <2>1 DEF promiseVars, verdictBar
  <1>3. CASE a \in Refined /\ r = failed
    <2>1. \A b \in Refined : status'[b] = IF b = a THEN failed ELSE status[b]
      BY <1>1, <1>3 DEF Or, Refined
    <2>2. verdictBar' = [b \in Refined |-> IF b \in {a} THEN "bad" ELSE verdictBar[b]]
      BY <2>1 DEF verdictBar
    <2>3. Promise!Withdraw({a}, "bad")
      BY <2>2 DEF Promise!Withdraw
    <2>. QED BY <1>3, <2>3 DEF Promise!Next
  <1>4. CASE a \in Refined /\ r = passed /\ Or(status[a], r) # status[a]
    <2>1. \A b \in Refined : status'[b] = IF b = a THEN passed ELSE status[b]
      BY <1>1, <1>4 DEF Or, Refined
    <2>2. verdictBar' = [verdictBar EXCEPT ![a] = "good"]
      BY <1>4, <2>1 DEF verdictBar
    <2>3. Promise!Approve(a)
      BY <1>4, <2>2 DEF Promise!Approve, Refined
    <2>. QED BY <1>4, <2>3 DEF Promise!Next
  <1>. QED BY <1>2, <1>3, <1>4

\* One register of a sweep withdraws the verdicts of its algorithms.
LEMMA SweepIsPromised ==
  ASSUME TypeOK, NEW t \in Thread, WriteRegister(t),
         pc[t] \in {"init", "drop", "open", "reopen"}, UNCHANGED servingBar
  PROVE  [Promise!Next]_promiseVars
  <1>. USE ResultValues
  <1>. DEFINE S == {a \in Refined : RegOf[a] = reg[t]}
              v == IF pc[t] = "init" THEN "bad" ELSE "untested"
  <1>1. \A a \in Refined : status'[a] = IF a \in S
                                       THEN IF pc[t] = "init" THEN failed ELSE pending
                                       ELSE status[a]
    BY DEF WriteRegister, Swept, Refined
  <1>2. verdictBar' = [a \in Refined |-> IF a \in S THEN v ELSE verdictBar[a]]
    BY <1>1 DEF verdictBar
  <1>3. Promise!Withdraw(S, v)
    BY <1>2 DEF Promise!Withdraw
  <1>4. S \in SUBSET Refined /\ v \in {"untested", "bad"}
    OBVIOUS
  <1>. QED BY <1>3, <1>4 DEF Promise!Next

\* Only a thread that enters or leaves "served" changes who is served.
LEMMA SameService ==
  ASSUME TypeOK, NEW t \in Thread, Step(t) \/ ApiCall(t),
         pc[t] # "served", pc'[t] # "served"
  PROVE  UNCHANGED servingBar
  <1>1. \A u \in Thread : \/ u = t
                          \/ pc'[u] = pc[u] /\ cur'[u] = cur[u]
    BY OthersStay
  <1>. QED BY <1>1 DEF servingBar

LEMMA ReleaseIsPromised ==
  ASSUME TypeOK, NEW t \in Thread, Step(t), UNCHANGED status, pc'[t] # "served"
  PROVE  [Promise!Next]_promiseVars
  <1>1. \A u \in Thread : \/ u = t
                          \/ pc'[u] = pc[u] /\ cur'[u] = cur[u]
    BY OthersStay
  <1>2. servingBar' = [servingBar EXCEPT ![t] = None]
    BY <1>1 DEF servingBar
  <1>3. UNCHANGED verdictBar
    BY DEF verdictBar
  <1>4. Promise!Release(t)
    BY <1>2, <1>3 DEF Promise!Release
  <1>. QED BY <1>4 DEF Promise!Next

LEMMA ServeIsPromised ==
  ASSUME GuardInv, FrameInv, NEW t \in Thread, Completed(t), pc'[t] = "served"
  PROVE  [Promise!Next]_promiseVars
  <1>. USE AlgAssumption DEF AlgAssumption
  <1>. DEFINE a == cur[t]
  <1>1. /\ TypeOK /\ pc[t] = "completed" /\ a \in Alg \ {Lib}
        /\ UNCHANGED status
    BY DEF FrameInv, Completed, TypeOK, Frame, TestLabels
  <1>2. cur' = cur /\ Outcome(a) = "ok"
    <2>1. pc'[t] # "served" \/ (Outcome(a) = "ok" /\ UNCHANGED cur)
      BY <1>1 DEF Completed, TestReturns, Return, EnterFailure, Goto, TypeOK
    <2>. QED BY <2>1
  <1>3. status[a] = passed
    BY <1>1, <1>2 DEF Completed, Waits, Outcome, TypeOK, Result, pending, ongoing,
                      passed, failed
  <1>4. \A u \in Thread : u = t \/ (pc'[u] = pc[u] /\ cur'[u] = cur[u])
    BY <1>1, OthersStay DEF Step
  <1>5. UNCHANGED verdictBar
    BY <1>1 DEF verdictBar
  <1>6. CASE a = Sha3
    <2>1. UNCHANGED servingBar
      BY <1>1, <1>2, <1>4, <1>6 DEF servingBar
    <2>. QED BY <1>5, <2>1 DEF promiseVars
  <1>7. CASE a # Sha3
    <2>1. a \in Refined
      BY <1>1, <1>7 DEF Refined
    <2>2. servingBar[t] = None /\ verdictBar[a] = "good"
      BY <1>1, <1>3, <2>1 DEF servingBar, verdictBar
    <2>3. servingBar' = [servingBar EXCEPT ![t] = a]
      BY <1>2, <1>4, <1>7 DEF servingBar
    <2>4. Promise!Serve(t, a)
      BY <1>5, <2>2, <2>3 DEF Promise!Serve
    <2>. QED BY <2>1, <2>4 DEF Promise!Next
  <1>. QED BY <1>6, <1>7

\* A step inside a call is one of the steps above.
LEMMA StepIsPromised ==
  ASSUME GuardInv, FrameInv, NEW t \in Thread, Step(t)
  PROVE  [Promise!Next]_promiseVars
  <1>. USE AlgAssumption DEF AlgAssumption
  <1>0. /\ TypeOK /\ Guarded(t) /\ Frame(t)
        /\ pc \in [Thread -> Labels] /\ (pc[t] # "idle" => cur[t] \in Alg)
    BY DEF GuardInv, FrameInv, TypeOK
  <1>1. CASE /\ UNCHANGED status /\ pc'[t] # "served"
    BY <1>0, <1>1, ReleaseIsPromised
  <1>2. CASE ReadLib(t) \/ ReadOwn(t) \/ CompareFails(t) \/ Finish(t)
             \/ PctFails(t) \/ Fini(t)
    <2>1. UNCHANGED status /\ pc'[t] # "served"
      BY <1>0, <1>2 DEF ReadLib, ReadOwn, CompareFails, Finish, PctFails, Fini,
                        TestReturns, EnterFailure, Return, Goto
    <2>. QED BY <1>1, <2>1
  <1>3. CASE Completed(t)
    <2>1. UNCHANGED status
      BY <1>3 DEF Completed
    <2>. QED BY <1>1, <1>3, <2>1, ServeIsPromised
  <1>4. CASE Mark(t)
    <2>1. pc[t] = "mark" /\ pc'[t] # "served" /\ OrInto(cur[t], ongoing)
      BY <1>0, <1>4 DEF Mark, Entry, Goto
    <2>. QED BY <1>0, <2>1, SameService, OrIsPromised, ResultValues
  <1>5. CASE ComparePasses(t)
    <2>1. pc[t] = "kat" /\ pc'[t] # "served" /\ OrInto(cur[t], passed)
      BY <1>0, <1>5 DEF ComparePasses, TestReturns, Goto
    <2>2. BadAt[cur[t]] # 1
      BY <1>0, <1>5 DEF ComparePasses, Guarded
    <2>. QED BY <1>0, <2>1, <2>2, SameService, OrIsPromised
  <1>6. CASE RecordFailure(t)
    <2>1. pc[t] = "orfail" /\ pc'[t] # "served" /\ OrInto(cur[t], failed)
      BY <1>0, <1>6 DEF RecordFailure, TestReturns, Return, Goto
    <2>. QED BY <1>0, <2>1, SameService, OrIsPromised, ResultValues
  <1>7. CASE FailLibrary(t) \/ Claim(t) \/ Digest(t) \/ Activate(t)
    <2>1. /\ pc[t] \in {"libfail", "claim", "digest", "activate"}
          /\ \E r \in {ongoing, passed, failed} : OrInto(Lib, r)
      BY <1>7 DEF FailLibrary, Claim, Digest, Activate
    <2>2. pc'[t] # "served"
      BY <1>0, <1>7 DEF FailLibrary, Claim, Digest, Activate, TestReturns,
                        Return, Goto
    <2>. QED BY <1>0, <2>1, <2>2, SameService, OrIsPromised
  <1>8. CASE DropRegister(t) \/ InitRegister(t) \/ ReopenRegister(t)
             \/ OpenRegister(t)
    <2>1. /\ pc[t] \in {"drop", "init", "reopen", "open"} /\ WriteRegister(t)
      BY <1>0, <1>8 DEF DropRegister, InitRegister, ReopenRegister, OpenRegister,
                        Guarded
    <2>2. pc'[t] # "served"
      BY <1>0, <1>8 DEF DropRegister, InitRegister, ReopenRegister, OpenRegister,
                        Return, Goto
    <2>. QED BY <1>0, <2>1, <2>2, SameService, SweepIsPromised
  <1>. QED BY <1>2, <1>3, <1>4, <1>5, <1>6, <1>7, <1>8 DEF Step

LEMMA ApiCallIsPromised ==
  ASSUME TypeOK, NEW t \in Thread, ApiCall(t)
  PROVE  [Promise!Next]_promiseVars
  <1>1. pc[t] = "idle" /\ pc'[t] # "served" /\ TypeOK
    BY DEF ApiCall, Use, RerunOne, UnsetOne, Rerun, LcInit, RerunAll, UnsetAll,
           Disable, Begin, Entry, Goto, TypeOK
  <1>2. UNCHANGED servingBar
    BY <1>1, SameService
  <1>3. CASE UNCHANGED status
    BY <1>2, <1>3 DEF promiseVars, verdictBar
  <1>4. ASSUME NEW a \in Alg \ {Lib}, UnsetOne(t, a)
        PROVE  [Promise!Next]_promiseVars
    <2>. USE ResultValues
    <2>1. \A b \in Refined : status'[b] = IF b = a THEN pending ELSE status[b]
      BY <1>1, <1>4 DEF UnsetOne, Refined, TypeOK
    <2>2. verdictBar' = [b \in Refined |->
                           IF b \in Refined \intersect {a} THEN "untested"
                                                          ELSE verdictBar[b]]
      BY <2>1 DEF verdictBar
    <2>3. Promise!Withdraw(Refined \intersect {a}, "untested")
      BY <1>2, <2>2 DEF Promise!Withdraw
    <2>. QED BY <2>3 DEF Promise!Next
  <1>5. UNCHANGED status \/ \E a \in Alg \ {Lib} : UnsetOne(t, a)
    BY DEF ApiCall, Use, RerunOne, Rerun, LcInit, RerunAll, UnsetAll, Disable
  <1>. QED BY <1>3, <1>4, <1>5

\* The frames are sound in every reachable state.
LEMMA FramesSound == Spec => []FrameInv
  BY InitFrame, NextFrame, PTL DEF Spec

\* The promise to the user (SelfTestGate) is kept by every interleaving of
\* the atomic operations: an OR approves or condemns one algorithm, a register
\* of a sweep withdraws the verdicts of those that it holds, and nobody is
\* served but from a verdict that is good at that moment.
THEOREM GateIsImplemented ==
  ASSUME Fips \/ Disablers = {}
  PROVE  Spec => PromiseKept
  <1>1. Init => Promise!Init
    <2>. SUFFICES ASSUME Init PROVE Promise!Init
      OBVIOUS
    <2>1. verdictBar = [a \in Refined |-> "bad"]
      BY ResultValues DEF Init, verdictBar, Refined
    <2>2. servingBar = [t \in Thread |-> None]
      BY DEF Init, servingBar
    <2>. QED BY <2>1, <2>2 DEF Promise!Init
  <1>2. GuardInv /\ FrameInv /\ [Next]_vars => [Promise!Next]_promiseVars
    <2>. SUFFICES ASSUME GuardInv, FrameInv, [Next]_vars
                  PROVE  [Promise!Next]_promiseVars
      OBVIOUS
    <2>1. CASE UNCHANGED vars \/ Tamper
      BY <2>1 DEF vars, Tamper, control, promiseVars, verdictBar, servingBar
    <2>2. ASSUME NEW t \in Thread, Step(t) \/ ApiCall(t)
          PROVE  [Promise!Next]_promiseVars
      BY <2>2, StepIsPromised, ApiCallIsPromised DEF GuardInv
    <2>. QED BY <2>1, <2>2 DEF Next
  <1>. QED BY <1>1, <1>2, GuardStays, FramesSound, PTL
           DEF Spec, PromiseKept, Promise!Spec, promiseVars

-----------------------------------------------------------------------------
(* A failing self test condemns no sound algorithm.                        *)

\* The library is sound and nobody re-runs its integrity check, which fails
\* all algorithms on purpose; no pairwise test fails, which condemns sound
\* ones; and a self test that gets no answer from another algorithm (which a
\* reset may have sent back to pending) does not take that for a failure.
Undisturbed ==
  /\ Checkers = {} /\ ~Tampering /\ BadAt[Sha3] = 0
  /\ Pct = {}
  /\ \A a \in Alg : Dep[a] = None \/ a \in Silent

\* The library constructor runs; each sweep has opened the registers so far.
Booting ==
  /\ \A t \in Thread \ {Main} : pc[t] = "idle" /\ mode[t] = "cast"
  /\ mode[Main] # "cast" => pc[Main] = "kat"
  /\ pc[Main] \in {"claim", "lib", "kat", "digest", "fini", "reopen",
                   "activate", "open"}
  /\ pc[Main] \in {"claim", "activate"} => status[Lib] = pending
  /\ pc[Main] \in {"lib", "kat"} => cur[Main] = Sha3 /\ caller[Main][Sha3] = Lib
  /\ pc[Main] \in {"lib", "kat", "digest"} => status[Lib] = ongoing
  /\ pc[Main] \in {"fini", "reopen", "open"} => status[Lib] = passed
  /\ pc[Main] \in {"reopen", "open"} =>
       \A a \in Alg : RegOf[a] < reg[Main] => status[a] # failed

\* Afterwards only an algorithm that is broken enters the failure path, and
\* no test runs for the integrity check.
InUse(t) ==
  /\ mode[t] = "cast"
  /\ pc[t] \in (TestLabels \ {"libfail"}) \union
               {"idle", "activate", "open", "disable"}
  /\ pc[t] \in TestLabels /\ cur[t] = Sha3 => caller[t][Sha3] # Lib
  /\ pc[t] \in {"drop", "orfail"} => BadAt[cur[t]] # 0

Fit ==
  /\ status[Lib] = passed
  /\ \A a \in Alg : BadAt[a] = 0 => status[a] # failed

CondemnInv ==
  /\ FrameInv
  /\ image = "intact"
  /\ phase = "boot" => Booting
  /\ phase = "up" => Fit /\ \A t \in Thread : InUse(t)

LEMMA OrStaysFit ==
  ASSUME TypeOK, Fit, NEW a \in Alg, NEW r \in {ongoing, passed, failed},
         OrInto(a, r), r = failed => BadAt[a] # 0
  PROVE  Fit'
  <1>. USE ResultValues, TestAssumption DEF TestAssumption
  <1>1. \A b \in Alg : status'[b] = IF b = a THEN Or(status[a], r) ELSE status[b]
    BY DEF TypeOK, OrInto
  <1>2. Lib \in Alg /\ BadAt[Lib] = 0 /\ status[a] \in Result
    BY AlgAssumption DEF AlgAssumption, TypeOK
  <1>. QED BY <1>1, <1>2 DEF Fit, Or

LEMMA SweepStaysFit ==
  ASSUME TypeOK, Fit, NEW t \in Thread, WriteRegister(t),
         pc[t] \in {"drop", "open", "disable"}
  PROVE  Fit'
  <1>. USE ResultValues
  <1>1. Lib \in Alg /\ \A b \in Alg : status[b] \in Result
    BY AlgAssumption DEF AlgAssumption, TypeOK
  <1>2. \A b \in Alg : status'[b] = IF RegOf[b] = reg[t] THEN Swept(pc[t], b)
                                                       ELSE status[b]
    BY DEF WriteRegister
  <1>3. Swept(pc[t], Lib) = passed
    BY <1>1 DEF Swept, Or, Fit
  <1>4. \A b \in Alg : BadAt[b] = 0 => Swept(pc[t], b) # failed
    BY <1>1 DEF Swept, Or, Fit
  <1>. QED BY <1>1, <1>2, <1>3, <1>4 DEF Fit

LEMMA TestReturnsInUse ==
  ASSUME FrameInv, NEW t \in Thread, NEW a \in Alg \ {Lib}, TestReturns(t, a),
         caller' = caller, a = Sha3 => caller[t][Sha3] # Lib
  PROVE  InUse(t)'
  <1>1. /\ caller[t][a] # Lib
        /\ pc \in [Thread -> Labels] /\ cur \in [Thread -> Alg \union {None}]
        /\ mode \in [Thread -> Modes]
    BY DEF FrameInv, Frame, TypeOK
  <1>2. pc'[t] = "completed" /\ cur'[t] = a /\ mode'[t] = "cast"
    BY <1>1 DEF TestReturns, Goto
  <1>. QED BY <1>2 DEF InUse, TestLabels

\* A step of a call that is made when the library is up.
LEMMA StepInUse ==
  ASSUME Undisturbed, CondemnInv, phase = "up", NEW t \in Thread, Step(t)
  PROVE  Fit' /\ InUse(t)' /\ phase' = "up" /\ image' = image
  <1>. USE AlgAssumption, ResultValues DEF AlgAssumption
  <1>0. /\ pc \in [Thread -> Labels] /\ cur \in [Thread -> Alg \union {None}]
        /\ mode \in [Thread -> Modes] /\ vec \in [Thread -> Nat] /\ vec[t] # 0
        /\ caller \in [Thread -> [Alg -> Alg \union {None}]]
        /\ Frame(t) /\ TypeOK /\ FrameInv /\ Fit /\ InUse(t)
        /\ (pc[t] \in TestLabels => cur[t] \in Alg \ {Lib})
        /\ (pc[t] \in TestLabels /\ cur[t] = Sha3 => caller[t][Sha3] # Lib)
        /\ status[Lib] = passed /\ mode[t] = "cast"
    BY DEF CondemnInv, FrameInv, TypeOK, Frame, TestLabels, InUse, Fit
  <1>00. phase' = "up" /\ image' = image
    BY DEF Step, ReadLib, ReadOwn, Mark, ComparePasses, CompareFails, DropRegister,
           RecordFailure, FailLibrary, Completed, Finish, PctFails, InitRegister,
           Claim, Digest, Fini, ReopenRegister, Activate, OpenRegister, Return
  <1>1. CASE ReadLib(t)
    <2>1. UNCHANGED <<status, cur, mode, caller>> /\ pc'[t] = "run"
      BY <1>0, <1>1 DEF ReadLib, Goto
    <2>. QED BY <1>0, <1>00, <1>1, <2>1 DEF ReadLib, InUse, Fit, TestLabels
  <1>2. CASE ReadOwn(t)
    <2>1. UNCHANGED <<status, caller>> /\ pc[t] = "run"
      BY <1>2 DEF ReadOwn
    <2>2. CASE TestReturns(t, cur[t])
      BY <1>0, <1>00, <2>1, <2>2, TestReturnsInUse DEF Fit, TestLabels
    <2>3. CASE Goto(t, "mark") /\ UNCHANGED <<cur, mode>>
      BY <1>0, <1>00, <2>1, <2>3 DEF Fit, InUse, Goto, TestLabels
    <2>. QED BY <1>2, <2>2, <2>3 DEF ReadOwn
  <1>3. CASE Mark(t)
    <2>1. pc[t] = "mark" /\ OrInto(cur[t], ongoing) /\ UNCHANGED mode
      BY <1>3 DEF Mark
    <2>2. Fit'
      BY <1>0, <2>1, OrStaysFit DEF TestLabels
    <2>3. CASE Dep[cur[t]] = None
      BY <1>0, <1>00, <1>3, <2>1, <2>2, <2>3 DEF Mark, InUse, Goto, TestLabels
    <2>4. CASE Dep[cur[t]] # None
      <3>1. /\ cur[t] \in Alg \ {Lib} /\ cur'[t] = Dep[cur[t]]
            /\ caller'[t][Dep[cur[t]]] = cur[t] /\ pc'[t] \in {"lib", "run"}
        BY <1>0, <1>3, <2>1, <2>4, TestAssumption
           DEF Mark, Goto, Entry, TestLabels, TestAssumption
      <3>2. Fit' /\ mode'[t] = "cast"
        BY <1>0, <2>1, <2>2
      <3>3. cur'[t] = Sha3 => caller'[t][Sha3] # Lib
        BY <1>0, <3>1
      <3>. QED BY <1>00, <3>1, <3>2, <3>3 DEF InUse, TestLabels
    <2>. QED BY <2>3, <2>4
  <1>4. CASE ComparePasses(t)
    <2>1. pc[t] = "kat" /\ OrInto(cur[t], passed) /\ UNCHANGED caller
      BY <1>4 DEF ComparePasses
    <2>2. Fit'
      BY <1>0, <2>1, OrStaysFit DEF TestLabels
    <2>3. CASE UNCHANGED <<pc, cur, mode>>
      BY <1>0, <1>00, <2>1, <2>2, <2>3 DEF InUse
    <2>4. CASE TestReturns(t, cur[t])
      BY <1>0, <1>00, <2>1, <2>2, <2>4, TestReturnsInUse DEF TestLabels
    <2>. QED BY <1>4, <2>3, <2>4 DEF ComparePasses
  <1>5. CASE CompareFails(t)
    <2>1. pc[t] = "kat" /\ BadAt[cur[t]] # 0 /\ UNCHANGED <<status, cur, mode, caller>>
      BY <1>0, <1>5 DEF CompareFails
    <2>2. pc'[t] \in {"drop", "orfail"}
      BY <1>0, <1>5 DEF CompareFails, EnterFailure, Goto
    <2>. QED BY <1>0, <1>00, <2>1, <2>2 DEF InUse, Fit, TestLabels
  <1>6. CASE DropRegister(t)
    <2>1. pc[t] = "drop" /\ WriteRegister(t) /\ UNCHANGED <<cur, mode, caller>>
      BY <1>6 DEF DropRegister
    <2>2. pc'[t] \in {"drop", "orfail"}
      BY <1>0, <1>6 DEF DropRegister, Goto
    <2>. QED BY <1>0, <1>00, <2>1, <2>2, SweepStaysFit DEF InUse, TestLabels
  <1>7. CASE RecordFailure(t)
    <2>1. /\ pc[t] = "orfail" /\ OrInto(cur[t], failed) /\ UNCHANGED caller
          /\ TestReturns(t, cur[t])
      BY <1>0, <1>7 DEF RecordFailure
    <2>. QED BY <1>0, <1>00, <2>1, OrStaysFit, TestReturnsInUse DEF InUse, TestLabels
  <1>8. CASE FailLibrary(t)
    BY <1>0, <1>8 DEF FailLibrary, InUse, TestLabels
  <1>9. CASE Completed(t)
    <2>. DEFINE a == cur[t]
                c == caller[t][a]
    <2>1. /\ a \in Alg \ {Lib} /\ UNCHANGED <<status, caller>>
          /\ (c # None => c \in Alg \ {Lib} /\ Dep[c] = a)
          /\ (a = Sha3 => caller[t][Sha3] # Lib)
      BY <1>0, <1>9 DEF Completed, Frame, TestLabels
    <2>2. c # None => c # Sha3 /\ c \in Silent
      BY <2>1, TestAssumption DEF TestAssumption, Undisturbed
    <2>3. CASE Goto(t, "served") /\ UNCHANGED <<cur, mode>>
      BY <1>0, <1>00, <2>1, <2>3 DEF InUse, Fit, Goto, TestLabels
    <2>4. CASE Return(t, Outcome(a)) /\ UNCHANGED mode
      BY <1>0, <1>00, <2>1, <2>4 DEF InUse, Fit, Return, Goto, TestLabels
    <2>5. CASE c # None /\ Goto(t, "kat") /\ cur' = [cur EXCEPT ![t] = c]
               /\ UNCHANGED mode
      BY <1>0, <1>00, <2>1, <2>2, <2>5 DEF InUse, Fit, Goto, TestLabels
    <2>6. CASE c # None /\ TestReturns(t, c)
      BY <1>0, <1>00, <2>1, <2>2, <2>6, TestReturnsInUse DEF Fit
    <2>. QED BY <1>9, <2>2, <2>3, <2>4, <2>5, <2>6 DEF Completed
  <1>10. CASE Finish(t)
    BY <1>0, <1>00, <1>10 DEF Finish, Return, Goto, InUse, Fit, TestLabels
  <1>11. CASE PctFails(t)
    BY <1>11 DEF PctFails, Undisturbed
  <1>12. CASE InitRegister(t) \/ Claim(t) \/ Digest(t) \/ Fini(t)
              \/ ReopenRegister(t)
    BY <1>0, <1>12 DEF InitRegister, Claim, Digest, Fini, ReopenRegister, InUse,
                       TestLabels
  <1>13. CASE Activate(t)
    <2>1. OrInto(Lib, passed) /\ Return(t, "ok") /\ UNCHANGED mode
      BY <1>0, <1>13 DEF Activate
    <2>. QED BY <1>0, <1>00, <2>1, OrStaysFit DEF Return, Goto, InUse, TestLabels
  <1>14. CASE OpenRegister(t)
    <2>1. pc[t] \in {"open", "disable"} /\ WriteRegister(t) /\ UNCHANGED mode
      BY <1>14 DEF OpenRegister
    <2>2. pc'[t] \in {"open", "disable", "idle"}
      BY <1>0, <1>14 DEF OpenRegister, Return, Goto
    <2>. QED BY <1>0, <1>00, <2>1, <2>2, SweepStaysFit DEF InUse, TestLabels
  <1>. QED BY <1>1, <1>2, <1>3, <1>4, <1>5, <1>6, <1>7, <1>8, <1>9, <1>10,
              <1>11, <1>12, <1>13, <1>14 DEF Step

LEMMA ApiCallInUse ==
  ASSUME Undisturbed, CondemnInv, NEW t \in Thread, ApiCall(t)
  PROVE  /\ phase = "up" /\ phase' = "up" /\ image' = image
         /\ Fit' /\ InUse(t)'
  <1>. USE AlgAssumption, ResultValues DEF AlgAssumption
  <1>0. phase = "up" /\ phase' = "up" /\ image' = image
    BY DEF ApiCall, Use, RerunOne, UnsetOne, Rerun, LcInit, RerunAll, UnsetAll,
           Disable, Begin
  <1>00. /\ pc \in [Thread -> Labels] /\ cur \in [Thread -> Alg \union {None}]
         /\ caller \in [Thread -> [Alg -> Alg \union {None}]]
         /\ status \in [Alg -> Result] /\ Fit /\ InUse(t)
    BY <1>0 DEF CondemnInv, FrameInv, TypeOK
  <1>1. ASSUME NEW a \in Alg \ {Lib}, Use(t, a) PROVE Fit' /\ InUse(t)'
    <2>1. /\ pc'[t] \in {"lib", "run"} /\ cur'[t] = a
          /\ caller'[t][a] = None /\ UNCHANGED <<status, mode>>
      BY <1>00, <1>1 DEF Use, Begin, Entry, Goto
    <2>. QED BY <1>00, <2>1 DEF Fit, InUse, TestLabels
  <1>2. ASSUME NEW a \in Alg \ {Lib}, UnsetOne(t, a) PROVE Fit' /\ InUse(t)'
    <2>1. /\ pc'[t] = "idle" /\ UNCHANGED mode
          /\ \A b \in Alg : status'[b] = IF b = a THEN pending ELSE status[b]
      BY <1>00, <1>2 DEF UnsetOne, Begin, Goto
    <2>. QED BY <1>00, <2>1 DEF Fit, InUse, TestLabels
  <1>3. CASE Rerun(t)
    BY <1>3 DEF Rerun, Undisturbed
  <1>4. CASE LcInit(t) \/ UnsetAll(t) \/ Disable(t)
    <2>1. /\ pc'[t] \in {"activate", "open", "disable", "idle"}
          /\ UNCHANGED <<status, mode>>
      BY <1>00, <1>4 DEF LcInit, UnsetAll, Disable, Begin, Goto
    <2>2. Fit'
      BY <1>00, <2>1 DEF Fit
    <2>3. mode'[t] = "cast"
      BY <1>00, <2>1 DEF InUse
    <2>. QED BY <1>0, <2>1, <2>2, <2>3 DEF InUse, TestLabels
  <1>. QED BY <1>0, <1>1, <1>2, <1>3, <1>4 DEF ApiCall, RerunOne, RerunAll

\* A sweep of the constructor: what it has opened is no longer failed.
LEMMA SweepOpens ==
  ASSUME TypeOK, status[Lib] = passed, NEW t \in Thread,
         pc[t] \in {"reopen", "open"}, WriteRegister(t),
         \A a \in Alg : RegOf[a] < reg[t] => status[a] # failed
  PROVE  /\ status'[Lib] = passed
         /\ \A a \in Alg : RegOf[a] < reg[t] + 1 => status'[a] # failed
  <1>. USE ResultValues
  <1>1. /\ Lib \in Alg /\ reg[t] \in Nat
        /\ \A a \in Alg : RegOf[a] \in Nat
    BY AlgAssumption, RegAssumption DEF AlgAssumption, RegAssumption, TypeOK
  <1>2. \A a \in Alg : status'[a] = IF RegOf[a] = reg[t] THEN Swept(pc[t], a)
                                                       ELSE status[a]
    BY DEF WriteRegister
  <1>3. \A a \in Alg : Swept(pc[t], a) = IF a = Lib THEN passed
                                         ELSE Swept(pc[t], a)
    BY DEF Swept
  <1>4. \A a \in Alg : Swept(pc[t], a) # failed
    BY DEF Swept
  <1>. QED BY <1>1, <1>2, <1>3, <1>4

\* The constructor of the library: SHA3-256 is sound and the image is intact,
\* so that it ends with the library open.
LEMMA BootStep ==
  ASSUME Undisturbed, CondemnInv, phase = "boot", NEW t \in Thread, Step(t)
  PROVE  /\ image' = image
         /\ \/ phase' = "boot" /\ Booting'
            \/ phase' = "up" /\ Fit' /\ \A u \in Thread : InUse(u)'
  <1>. USE AlgAssumption, ResultValues DEF AlgAssumption
  <1>0. /\ pc \in [Thread -> Labels] /\ cur \in [Thread -> Alg \union {None}]
        /\ mode \in [Thread -> Modes] /\ vec[t] # 0
        /\ caller \in [Thread -> [Alg -> Alg \union {None}]]
        /\ status \in [Alg -> Result] /\ reg \in [Thread -> 1..NReg]
        /\ TypeOK /\ FrameInv /\ Booting /\ image = "intact" /\ BadAt[Sha3] = 0
    BY DEF CondemnInv, FrameInv, TypeOK, Frame, Undisturbed
  <1>1. pc[t] # "idle"
    BY DEF Step, ReadLib, ReadOwn, Mark, ComparePasses, CompareFails, DropRegister,
           RecordFailure, FailLibrary, Completed, Finish, PctFails, InitRegister,
           Claim, Digest, Fini, ReopenRegister, Activate, OpenRegister
  <1>2. t = Main
    BY <1>0, <1>1 DEF Booting
  <1>3. image' = image
    BY DEF Step, ReadLib, ReadOwn, Mark, ComparePasses, CompareFails, DropRegister,
           RecordFailure, FailLibrary, Completed, Finish, PctFails, InitRegister,
           Claim, Digest, Fini, ReopenRegister, Activate, OpenRegister
  <1>4. \A u \in Thread \ {Main} : pc'[u] = "idle" /\ mode'[u] = "cast"
    BY <1>0, <1>2, OthersStay DEF Booting
  <1>5. CASE ReadLib(Main)
    <2>1. /\ pc'[Main] = "kat" /\ phase' = phase
          /\ UNCHANGED <<status, cur, caller>> /\ pc[Main] = "lib"
      BY <1>0, <1>5 DEF ReadLib, Booting, Goto
    <2>. QED BY <1>0, <1>3, <1>4, <2>1 DEF Booting
  <1>6. CASE ComparePasses(Main)
    <2>1. /\ pc[Main] = "kat" /\ phase' = phase /\ caller' = caller
          /\ cur[Main] = Sha3 /\ caller[Main][Sha3] = Lib /\ status[Lib] = ongoing
          /\ OrInto(Sha3, passed)
      BY <1>0, <1>6 DEF ComparePasses, Booting
    <2>2. status'[Lib] = ongoing
      BY <1>0, <2>1 DEF OrInto
    <2>3. CASE UNCHANGED <<pc, cur, mode>>
      BY <1>0, <1>3, <1>4, <2>1, <2>2, <2>3 DEF Booting
    <2>4. CASE TestReturns(Main, Sha3)
      <3>1. pc'[Main] = "digest" /\ mode'[Main] = "cast"
        BY <1>0, <2>1, <2>4 DEF TestReturns, Goto
      <3>. QED BY <1>0, <1>3, <1>4, <2>1, <2>2, <3>1 DEF Booting
    <2>. QED BY <1>6, <2>1, <2>3, <2>4 DEF ComparePasses
  <1>7. CASE Claim(Main)
    <2>1. pc[Main] = "claim" /\ status[Lib] = pending /\ mode[Main] = "cast"
      BY <1>0, <1>7 DEF Claim, Booting
    <2>2. /\ pc'[Main] = "lib" /\ cur'[Main] = Sha3 /\ phase' = phase
          /\ caller'[Main][Sha3] = Lib /\ mode' = mode /\ OrInto(Lib, ongoing)
      BY <1>0, <1>7, <2>1 DEF Claim, Goto
    <2>3. status'[Lib] = ongoing
      BY <1>0, <2>1, <2>2 DEF OrInto, Or
    <2>. QED BY <1>0, <1>3, <1>4, <2>1, <2>2, <2>3 DEF Booting
  <1>8. CASE Digest(Main)
    <2>1. pc[Main] = "digest" /\ status[Lib] = ongoing /\ mode[Main] = "cast"
      BY <1>0, <1>8 DEF Digest, Booting
    <2>2. /\ OrInto(Lib, passed) /\ pc'[Main] = "fini" /\ phase' = phase
          /\ mode' = mode
      BY <1>0, <1>8 DEF Digest, DigestDiffers, Goto
    <2>3. status'[Lib] = passed
      BY <1>0, <2>1, <2>2 DEF OrInto, Or
    <2>. QED BY <1>0, <1>3, <1>4, <2>1, <2>2, <2>3 DEF Booting
  <1>9. CASE Fini(Main)
    <2>1. pc[Main] = "fini" /\ status[Lib] = passed /\ mode[Main] = "cast"
      BY <1>0, <1>9 DEF Fini, Booting
    <2>2. /\ pc'[Main] = "reopen" /\ reg'[Main] = 1 /\ UNCHANGED <<status, phase, mode>>
      BY <1>0, <1>9, <2>1 DEF Fini, Goto
    <2>3. \A a \in Alg : ~ (RegOf[a] < reg'[Main])
      BY <2>2, RegAssumption DEF RegAssumption
    <2>. QED BY <1>0, <1>3, <1>4, <2>1, <2>2, <2>3 DEF Booting
  <1>10. CASE Activate(Main)
    <2>1. pc[Main] = "activate" /\ status[Lib] = pending /\ mode[Main] = "cast"
      BY <1>0, <1>10 DEF Activate, Booting
    <2>2. /\ pc'[Main] = "open" /\ reg'[Main] = 1 /\ UNCHANGED <<phase, mode>>
          /\ OrInto(Lib, passed)
      BY <1>0, <1>10, <2>1 DEF Activate, Goto
    <2>3. \A a \in Alg : ~ (RegOf[a] < reg'[Main])
      BY <2>2, RegAssumption DEF RegAssumption
    <2>4. status'[Lib] = passed
      BY <1>0, <2>1, <2>2 DEF OrInto, Or
    <2>. QED BY <1>0, <1>3, <1>4, <2>1, <2>2, <2>3, <2>4 DEF Booting
  <1>11. CASE ReopenRegister(Main) \/ OpenRegister(Main)
    <2>1. /\ pc[Main] \in {"reopen", "open"} /\ WriteRegister(Main)
          /\ status[Lib] = passed /\ mode[Main] = "cast" /\ mode' = mode
          /\ \A a \in Alg : RegOf[a] < reg[Main] => status[a] # failed
      BY <1>0, <1>11 DEF ReopenRegister, OpenRegister, Booting
    <2>2. /\ status'[Lib] = passed
          /\ \A a \in Alg : RegOf[a] < reg[Main] + 1 => status'[a] # failed
      BY <1>0, <2>1, SweepOpens
    <2>3. CASE /\ reg[Main] < NReg /\ reg'[Main] = reg[Main] + 1
               /\ UNCHANGED <<pc, phase>>
      BY <1>0, <1>3, <1>4, <2>1, <2>2, <2>3 DEF Booting
    <2>4. CASE ~ (reg[Main] < NReg) /\ Return(Main, "ok")
      <3>1. /\ phase' = "up" /\ pc'[Main] = "idle"
        BY <1>0, <2>4 DEF Return, Goto
      <3>2. \A a \in Alg : status'[a] # failed
        BY <1>0, <2>2, <2>4, RegAssumption DEF RegAssumption
      <3>3. \A u \in Thread : pc'[u] = "idle" /\ mode'[u] = "cast"
        BY <1>4, <2>1, <3>1
      <3>. QED BY <1>3, <2>2, <3>1, <3>2, <3>3 DEF Fit, InUse, TestLabels
    <2>. QED
      BY <1>0, <1>11, <2>3, <2>4 DEF ReopenRegister, OpenRegister
  <1>12. CASE \/ ReadOwn(Main) \/ Mark(Main) \/ DropRegister(Main)
              \/ RecordFailure(Main) \/ FailLibrary(Main) \/ Completed(Main)
              \/ Finish(Main) \/ PctFails(Main) \/ InitRegister(Main)
    BY <1>0, <1>12
       DEF ReadOwn, Mark, DropRegister, RecordFailure, FailLibrary, Completed,
           Finish, PctFails, InitRegister, Booting
  <1>13. CASE CompareFails(Main)
    BY <1>0, <1>2, <1>13 DEF CompareFails, Booting
  <1>. QED
    BY <1>2, <1>5, <1>6, <1>7, <1>8, <1>9, <1>10, <1>11, <1>12, <1>13 DEF Step

LEMMA InitCondemn == Undisturbed /\ Init => CondemnInv
  <1>. SUFFICES ASSUME Undisturbed, Init PROVE CondemnInv
    OBVIOUS
  <1>. USE AlgAssumption DEF AlgAssumption
  <1>1. Booting
    BY ResultValues DEF Init, Booting
  <1>. QED BY <1>1, InitFrame DEF CondemnInv, Init

LEMMA NextCondemn ==
  ASSUME Undisturbed, CondemnInv, [Next]_vars
  PROVE  CondemnInv'
  <1>0. FrameInv'
    BY NextFrame DEF CondemnInv
  <1>1. CASE UNCHANGED vars
    BY <1>0, <1>1 DEF CondemnInv, Booting, Fit, InUse, vars, control
  <1>2. CASE Tamper
    BY <1>2 DEF Tamper, Undisturbed
  <1>3. ASSUME NEW t \in Thread, Step(t), phase = "boot" PROVE CondemnInv'
    BY <1>0, <1>3, BootStep DEF CondemnInv
  <1>4. ASSUME NEW t \in Thread, Step(t) \/ ApiCall(t), phase # "boot"
        PROVE  CondemnInv'
    <2>1. phase = "up"
      BY <1>4 DEF CondemnInv, FrameInv, TypeOK
    <2>2. Fit' /\ InUse(t)' /\ phase' = "up" /\ image' = image
      BY <1>4, <2>1, StepInUse, ApiCallInUse
    <2>3. ASSUME NEW u \in Thread, u # t PROVE InUse(u)'
      <3>1. InUse(u)
        BY <2>1 DEF CondemnInv
      <3>. QED BY <1>4, <2>3, <3>1, OthersStay DEF CondemnInv, FrameInv, InUse
    <2>. QED BY <1>0, <2>2, <2>3 DEF CondemnInv
  <1>5. ASSUME NEW t \in Thread, ApiCall(t) PROVE phase = "up"
    BY <1>5, ApiCallInUse
  <1>. QED BY <1>1, <1>2, <1>3, <1>4, <1>5 DEF Next

\* OnlyBrokenCondemned for any number of threads, algorithms and registers: a
\* failing self test first sends all fields back to pending (alg_status_set_
\* testresult) and so disturbs tests of other threads, but none of them ends in
\* the error state unless its own known answer is wrong.
THEOREM SoundNotCondemned ==
  ASSUME Undisturbed
  PROVE  Spec => []OnlyBrokenCondemned
  <1>1. CondemnInv => OnlyBrokenCondemned
    BY DEF CondemnInv, OnlyBrokenCondemned, Sound, Fit
  <1>. QED BY <1>1, InitCondemn, NextCondemn, PTL DEF Spec

-----------------------------------------------------------------------------
(* The gate of the FIPS integrity check.                                   *)

\* Sound algorithms whose tests take no missing answer for a failure (a failing
\* test opens the gate on purpose, the degraded mode), one thread that re-runs
\* the integrity check, nobody who bypasses it by lc_init, and the library field
\* in the register that alg_status_set_common writes last.
Gated(c) ==
  /\ Fips /\ Checkers \subseteq {c} /\ InitCallers = {} /\ Pct = {}
  /\ \A a \in Alg : BadAt[a] = 0 /\ (Dep[a] = None \/ a \in Silent)
  /\ \A a \in Alg : RegOf[a] <= RegOf[Lib]

UserLabels == {"idle", "lib", "run", "mark", "kat", "completed", "served"}
CheckLabels == {"init", "claim", "digest", "fini", "reopen"}

\* The thread that may run the integrity check.
Owner(c) == IF phase = "boot" THEN Main ELSE c

\* t runs the self test of SHA3-256 for the integrity check.
ForCheck(t) == pc[t] \in TestLabels /\ cur[t] = Sha3 /\ caller[t][Sha3] = Lib

\* How far the integrity check of t has come.
Checked(t) ==
  /\ pc[t] = "init" =>
       /\ \A a \in Alg \ {Lib} : RegOf[a] < reg[t] => status[a] = failed
       /\ RegOf[Lib] < reg[t] => status[Lib] = pending
  /\ pc[t] = "claim" => status[Lib] = pending
  /\ pc[t] = "digest" \/ ForCheck(t) => status[Lib] = ongoing
  /\ pc[t] \in {"fini", "reopen"} => status[Lib] = passed

Usual(c, t) ==
  /\ pc[t] \in UserLabels \union CheckLabels
  /\ pc[t] \in CheckLabels \/ ForCheck(t) => t = Owner(c)
  /\ ForCheck(t) => pc[t] \in {"lib", "kat"}
  /\ phase = "boot" =>
       IF t = Main THEN pc[t] \in CheckLabels \/ ForCheck(t) ELSE pc[t] = "idle"
  /\ Checked(t)

GateInv(c) == FrameInv /\ GateClosed /\ \A t \in Thread : Usual(c, t)

\* What a user's step leaves of the error state.
FailuresStay ==
  /\ status'[Lib] = status[Lib]
  /\ \A a \in Alg : status[a] = failed => status'[a] = failed

LEMMA OrLeavesFailures ==
  ASSUME TypeOK, NEW a \in Alg \ {Lib}, NEW r \in Result, OrInto(a, r)
  PROVE  FailuresStay
  BY ResultValues, AlgAssumption DEF TypeOK, OrInto, Or, FailuresStay, AlgAssumption

LEMMA TestReturnsToUser ==
  ASSUME FrameInv, NEW t \in Thread, NEW a \in Alg \ {Lib}, TestReturns(t, a),
         caller' = caller, a = Sha3 => caller[t][Sha3] # Lib
  PROVE  pc'[t] = "completed" /\ ~ForCheck(t)'
  <1>1. /\ caller[t][a] # Lib
        /\ pc \in [Thread -> Labels] /\ cur \in [Thread -> Alg \union {None}]
    BY DEF FrameInv, Frame, TypeOK
  <1>2. pc'[t] = "completed" /\ cur'[t] = a
    BY <1>1 DEF TestReturns, Goto
  <1>. QED BY <1>1, <1>2 DEF ForCheck

LEMMA UserStepGate ==
  ASSUME NEW c \in Thread, Gated(c), GateInv(c), NEW t \in Thread, Step(t),
         pc[t] \in UserLabels
  PROVE  /\ FailuresStay /\ phase' = phase
         /\ \/ /\ pc'[t] \in UserLabels /\ (ForCheck(t)' <=> ForCheck(t))
               /\ ForCheck(t)' => pc'[t] \in {"lib", "kat"}
            \/ pc'[t] = "digest" /\ ForCheck(t)
  <1>. USE AlgAssumption, ResultValues DEF AlgAssumption
  <1>0. /\ pc \in [Thread -> Labels] /\ cur \in [Thread -> Alg \union {None}]
        /\ vec[t] # 0 /\ caller \in [Thread -> [Alg -> Alg \union {None}]]
        /\ status \in [Alg -> Result] /\ TypeOK /\ FrameInv /\ Frame(t)
        /\ Usual(c, t)
        /\ (pc[t] \in TestLabels => cur[t] \in Alg \ {Lib})
    BY DEF GateInv, FrameInv, TypeOK, Frame, TestLabels
  <1>. DEFINE Kept == /\ pc'[t] \in UserLabels /\ (ForCheck(t)' <=> ForCheck(t))
                      /\ ForCheck(t)' => pc'[t] \in {"lib", "kat"}
  <1>1. CASE ReadLib(t)
    <2>1. /\ pc[t] = "lib" /\ UNCHANGED <<status, phase, caller>>
          /\ cur[t] \in Alg \ {Lib}
      BY <1>0, <1>1 DEF ReadLib, TestLabels
    <2>2. FailuresStay
      BY <2>1 DEF FailuresStay
    <2>3. CASE status[Lib] = pending /\ TestReturns(t, cur[t])
      <3>1. ~ForCheck(t)
        BY <1>0, <2>3 DEF Usual, Checked
      <3>2. cur[t] = Sha3 => caller[t][Sha3] # Lib
        BY <2>1, <3>1 DEF ForCheck, TestLabels
      <3>3. pc'[t] = "completed" /\ ~ForCheck(t)'
        BY <1>0, <2>1, <2>3, <3>2, TestReturnsToUser
      <3>. QED BY <2>1, <2>2, <3>1, <3>3 DEF UserLabels
    <2>4. CASE status[Lib] = ongoing /\ Goto(t, "kat") /\ UNCHANGED cur
      <3>1. pc'[t] = "kat" /\ (ForCheck(t)' <=> ForCheck(t))
        BY <1>0, <2>1, <2>4 DEF Goto, ForCheck, TestLabels
      <3>. QED BY <2>1, <2>2, <3>1 DEF UserLabels
    <2>5. CASE /\ status[Lib] \in {passed, failed}
               /\ Goto(t, "run") /\ UNCHANGED cur
      <3>1. ~ForCheck(t)
        BY <1>0, <2>5 DEF Usual, Checked
      <3>2. pc'[t] = "run" /\ (ForCheck(t)' <=> ForCheck(t))
        BY <1>0, <2>1, <2>5 DEF Goto, ForCheck, TestLabels
      <3>. QED BY <2>1, <2>2, <3>1, <3>2 DEF UserLabels
    <2>. QED BY <1>1, <2>3, <2>4, <2>5 DEF ReadLib
  <1>2. CASE ReadOwn(t)
    <2>1. /\ pc[t] = "run" /\ UNCHANGED <<status, phase, caller>>
          /\ cur[t] \in Alg \ {Lib}
      BY <1>0, <1>2 DEF ReadOwn, TestLabels
    <2>2. FailuresStay
      BY <2>1 DEF FailuresStay
    <2>3. ~ForCheck(t) /\ (cur[t] = Sha3 => caller[t][Sha3] # Lib)
      BY <1>0, <2>1 DEF Usual, ForCheck, TestLabels
    <2>4. CASE TestReturns(t, cur[t])
      BY <1>0, <2>1, <2>2, <2>3, <2>4, TestReturnsToUser DEF UserLabels
    <2>5. CASE Goto(t, "mark") /\ UNCHANGED cur
      <3>1. pc'[t] = "mark" /\ (ForCheck(t)' <=> ForCheck(t))
        BY <1>0, <2>1, <2>5 DEF Goto, ForCheck, TestLabels
      <3>. QED BY <2>1, <2>2, <2>3, <3>1 DEF UserLabels
    <2>. QED BY <1>2, <2>4, <2>5 DEF ReadOwn
  <1>3. CASE Mark(t)
    <2>1. /\ pc[t] = "mark" /\ phase' = phase /\ cur[t] \in Alg \ {Lib}
          /\ OrInto(cur[t], ongoing)
      BY <1>0, <1>3 DEF Mark, TestLabels
    <2>2. FailuresStay
      BY <1>0, <2>1, OrLeavesFailures
    <2>3. ~ForCheck(t) /\ (cur[t] = Sha3 => caller[t][Sha3] # Lib)
      BY <1>0, <2>1 DEF Usual, ForCheck, TestLabels
    <2>4. CASE Dep[cur[t]] = None
      <3>1. pc'[t] = "kat" /\ UNCHANGED <<cur, caller>>
        BY <1>0, <1>3, <2>4 DEF Mark, Goto
      <3>. QED BY <2>1, <2>2, <2>3, <3>1 DEF UserLabels, ForCheck
    <2>5. CASE Dep[cur[t]] # None
      <3>1. /\ pc'[t] \in {"lib", "run"} /\ cur'[t] = Dep[cur[t]]
            /\ caller'[t][Dep[cur[t]]] = cur[t]
        BY <1>0, <1>3, <2>1, <2>5, TestAssumption
           DEF Mark, Goto, Entry, TestAssumption
      <3>2. ~ForCheck(t)'
        BY <2>1, <3>1 DEF ForCheck
      <3>. QED BY <2>1, <2>2, <2>3, <3>1, <3>2 DEF UserLabels
    <2>. QED BY <2>4, <2>5
  <1>4. CASE ComparePasses(t)
    <2>1. /\ pc[t] = "kat" /\ UNCHANGED <<phase, caller>>
          /\ cur[t] \in Alg \ {Lib} /\ OrInto(cur[t], passed)
      BY <1>0, <1>4 DEF ComparePasses, TestLabels
    <2>2. FailuresStay
      BY <1>0, <2>1, OrLeavesFailures
    <2>3. CASE UNCHANGED <<pc, cur>>
      BY <2>1, <2>2, <2>3 DEF UserLabels, ForCheck
    <2>4. CASE TestReturns(t, cur[t]) /\ ForCheck(t)
      <3>1. pc'[t] = "digest"
        BY <1>0, <2>1, <2>4 DEF TestReturns, ForCheck, Goto
      <3>. QED BY <2>1, <2>2, <2>4, <3>1
    <2>5. CASE TestReturns(t, cur[t]) /\ ~ForCheck(t)
      <3>1. cur[t] = Sha3 => caller[t][Sha3] # Lib
        BY <2>1, <2>5 DEF ForCheck, TestLabels
      <3>. QED BY <1>0, <2>1, <2>2, <2>5, <3>1, TestReturnsToUser DEF UserLabels
    <2>. QED BY <1>4, <2>3, <2>4, <2>5 DEF ComparePasses
  <1>5. CASE CompareFails(t) \/ PctFails(t)
    BY <1>0, <1>5 DEF CompareFails, PctFails, Gated, TestLabels
  <1>6. CASE Completed(t)
    <2>. DEFINE a == cur[t]
                d == caller[t][a]
    <2>1. /\ pc[t] = "completed" /\ a \in Alg \ {Lib} /\ UNCHANGED <<status, caller>>
          /\ (d # None => d \in Alg \ {Lib} /\ Dep[d] = a)
      BY <1>0, <1>6 DEF Completed, Frame, TestLabels
    <2>2. ~ForCheck(t) /\ FailuresStay /\ phase = "up"
      BY <1>0, <2>1 DEF Usual, FailuresStay, TypeOK, CheckLabels
    <2>3. d # None => d # Sha3 /\ d \in Silent
      BY <2>1, TestAssumption DEF TestAssumption, Gated
    <2>4. CASE Goto(t, "served") /\ UNCHANGED <<cur, phase>>
      <3>1. pc'[t] = "served" /\ (ForCheck(t)' <=> ForCheck(t))
        BY <1>0, <2>1, <2>4 DEF Goto, ForCheck, TestLabels
      <3>. QED BY <2>2, <2>4, <3>1 DEF UserLabels
    <2>5. CASE Return(t, Outcome(a))
      <3>1. pc'[t] = "idle" /\ phase' = "up" /\ ~ForCheck(t)'
        BY <1>0, <2>5 DEF Return, Goto, ForCheck, TestLabels
      <3>. QED BY <2>2, <3>1 DEF UserLabels
    <2>6. CASE d # None /\ Goto(t, "kat") /\ cur' = [cur EXCEPT ![t] = d]
               /\ phase' = phase
      <3>1. pc'[t] = "kat" /\ ~ForCheck(t)'
        BY <1>0, <2>1, <2>3, <2>6 DEF Goto, ForCheck
      <3>. QED BY <2>2, <2>6, <3>1 DEF UserLabels
    <2>7. CASE d # None /\ TestReturns(t, d) /\ phase' = phase
      BY <1>0, <2>1, <2>2, <2>3, <2>7, TestReturnsToUser DEF UserLabels
    <2>. QED BY <1>6, <2>3, <2>4, <2>5, <2>6, <2>7 DEF Completed
  <1>7. CASE Finish(t)
    <2>1. pc[t] = "served" /\ status' = status
      BY <1>7 DEF Finish
    <2>2. ~ForCheck(t) /\ FailuresStay /\ phase = "up"
      BY <1>0, <2>1 DEF Usual, FailuresStay, TypeOK, CheckLabels
    <2>3. pc'[t] = "idle" /\ phase' = "up" /\ ~ForCheck(t)'
      BY <1>0, <1>7 DEF Finish, Return, Goto, ForCheck, TestLabels
    <2>. QED BY <2>2, <2>3 DEF UserLabels
  <1>8. CASE \/ DropRegister(t) \/ RecordFailure(t) \/ FailLibrary(t)
             \/ InitRegister(t) \/ Claim(t) \/ Digest(t) \/ Fini(t)
             \/ ReopenRegister(t) \/ Activate(t) \/ OpenRegister(t)
    BY <1>8 DEF DropRegister, RecordFailure, FailLibrary, InitRegister, Claim,
                Digest, Fini, ReopenRegister, Activate, OpenRegister,
                UserLabels
  <1>. QED BY <1>1, <1>2, <1>3, <1>4, <1>5, <1>6, <1>7, <1>8 DEF Step

\* One register of the sweep that closes the library.
LEMMA SweepCloses ==
  ASSUME NEW c \in Thread, Gated(c), GateInv(c), NEW t \in Thread,
         pc[t] = "init", WriteRegister(t)
  PROVE  /\ GateClosed'
         /\ \A a \in Alg \ {Lib} : RegOf[a] < reg[t] + 1 => status'[a] = failed
         /\ RegOf[Lib] < reg[t] + 1 => status'[Lib] = pending
  <1>. USE ResultValues, AlgAssumption DEF AlgAssumption
  <1>1. /\ Lib \in Alg /\ reg[t] \in Nat
        /\ \A a \in Alg : RegOf[a] \in Nat /\ RegOf[a] <= RegOf[Lib]
    BY RegAssumption DEF RegAssumption, GateInv, FrameInv, TypeOK, Gated
  <1>2. /\ \A a \in Alg \ {Lib} : RegOf[a] < reg[t] => status[a] = failed
        /\ RegOf[Lib] < reg[t] => status[Lib] = pending
    BY DEF GateInv, Usual, Checked
  <1>3. \A a \in Alg : status'[a] = IF RegOf[a] = reg[t] THEN Swept("init", a)
                                                       ELSE status[a]
    BY DEF WriteRegister
  <1>4. Swept("init", Lib) = pending
    BY DEF Swept
  <1>5. \A a \in Alg \ {Lib} : Swept("init", a) = failed
    BY DEF Swept
  <1>6. /\ \A a \in Alg \ {Lib} : RegOf[a] < reg[t] + 1 => status'[a] = failed
        /\ RegOf[Lib] < reg[t] + 1 => status'[Lib] = pending
    BY <1>1, <1>2, <1>3, <1>4, <1>5
  <1>7. ASSUME status'[Lib] # passed, NEW a \in Alg \ {Lib}
        PROVE  status'[a] = failed
    <2>1. CASE RegOf[Lib] < reg[t] + 1
      BY <1>1, <1>6, <2>1
    <2>2. CASE ~ (RegOf[Lib] < reg[t] + 1)
      <3>1. status'[Lib] = status[Lib]
        BY <1>1, <1>3, <2>2
      <3>2. status[a] = failed
        BY <1>7, <3>1 DEF GateInv, GateClosed
      <3>. QED BY <1>3, <1>5, <3>2
    <2>. QED BY <2>1, <2>2
  <1>. QED BY <1>6, <1>7 DEF GateClosed

LEMMA CheckStepGate ==
  ASSUME NEW c \in Thread, Gated(c), GateInv(c), NEW t \in Thread, Step(t),
         pc[t] \in CheckLabels
  PROVE  GateClosed' /\ Usual(c, t)' /\ phase' \in {phase, "up"}
  <1>. USE AlgAssumption, ResultValues DEF AlgAssumption
  <1>0. /\ pc \in [Thread -> Labels] /\ cur \in [Thread -> Alg \union {None}]
        /\ caller \in [Thread -> [Alg -> Alg \union {None}]]
        /\ status \in [Alg -> Result] /\ reg \in [Thread -> 1..NReg]
        /\ phase \in {"boot", "up"} /\ GateClosed /\ Usual(c, t) /\ t = Owner(c)
        /\ \A a \in Alg : RegOf[a] \in 1..NReg /\ NReg \in Nat
        /\ Lib \in Alg /\ Sha3 \in Alg \ {Lib}
    BY RegAssumption DEF GateInv, FrameInv, TypeOK, Usual, RegAssumption
  \* A step that stays in the check, and one that ends it.
  <1>1. ASSUME phase' = phase, pc'[t] \in CheckLabels, Checked(t)'
        PROVE  Usual(c, t)' /\ phase' \in {phase, "up"}
    <2>1. ~ForCheck(t)'
      BY <1>1 DEF CheckLabels, ForCheck, TestLabels
    <2>. QED BY <1>0, <1>1, <2>1 DEF Usual, Owner
  <1>2. ASSUME NEW r, Return(t, r)
        PROVE  Usual(c, t)' /\ phase' \in {phase, "up"}
    <2>1. pc'[t] = "idle" /\ phase' = "up"
      BY <1>0, <1>2 DEF Return, Goto
    <2>. QED BY <2>1 DEF Usual, UserLabels, CheckLabels, ForCheck, TestLabels, Checked
  <1>3. CASE InitRegister(t)
    <2>1. /\ GateClosed' /\ phase' = phase
          /\ \A a \in Alg \ {Lib} : RegOf[a] < reg[t] + 1 => status'[a] = failed
          /\ RegOf[Lib] < reg[t] + 1 => status'[Lib] = pending
      BY <1>3, SweepCloses DEF InitRegister
    <2>2. CASE /\ reg[t] < NReg /\ reg' = [reg EXCEPT ![t] = @ + 1]
               /\ pc' = pc
      <3>1. pc'[t] = "init" /\ reg'[t] = reg[t] + 1
        BY <1>0, <1>3, <2>2 DEF InitRegister
      <3>. QED BY <1>1, <2>1, <3>1 DEF CheckLabels, Checked, ForCheck, TestLabels
    <2>3. CASE ~ (reg[t] < NReg) /\ Goto(t, "claim")
      <3>1. pc'[t] = "claim" /\ RegOf[Lib] < reg[t] + 1
        BY <1>0, <2>3 DEF Goto
      <3>. QED BY <1>1, <2>1, <3>1 DEF CheckLabels, Checked, ForCheck, TestLabels
    <2>. QED BY <1>3, <2>2, <2>3 DEF InitRegister
  <1>4. CASE Claim(t)
    <2>1. pc[t] = "claim" /\ status[Lib] = pending
      BY <1>0, <1>4 DEF Claim, Usual, Checked
    <2>2. /\ pc'[t] = "lib" /\ cur'[t] = Sha3 /\ caller'[t][Sha3] = Lib
          /\ phase' = phase /\ OrInto(Lib, ongoing)
      BY <1>0, <1>4, <2>1 DEF Claim, Goto
    <2>3. /\ status'[Lib] = ongoing
          /\ \A a \in Alg \ {Lib} : status'[a] = status[a]
      BY <1>0, <2>1, <2>2 DEF OrInto, Or
    <2>4. GateClosed'
      BY <1>0, <2>1, <2>3 DEF GateClosed
    <2>5. Checked(t)' /\ ForCheck(t)'
      BY <2>2, <2>3 DEF Checked, ForCheck, TestLabels
    <2>. QED BY <1>0, <2>2, <2>4, <2>5 DEF Usual, Owner, UserLabels
  <1>5. CASE Digest(t)
    <2>1. pc[t] = "digest" /\ status[Lib] = ongoing
      BY <1>0, <1>5 DEF Digest, Usual, Checked
    <2>2. CASE OrInto(Lib, passed) /\ Goto(t, "fini") /\ phase' = phase
      <3>1. status'[Lib] = passed
        BY <1>0, <2>1, <2>2 DEF OrInto, Or
      <3>2. pc'[t] = "fini" /\ GateClosed'
        BY <1>0, <2>2, <3>1 DEF Goto, GateClosed
      <3>. QED BY <1>1, <2>2, <3>1, <3>2
               DEF CheckLabels, Checked, ForCheck, TestLabels
    <2>3. CASE OrInto(Lib, failed) /\ Return(t, "ok")
      <3>1. /\ status'[Lib] = failed
            /\ \A a \in Alg \ {Lib} : status'[a] = status[a]
        BY <1>0, <2>1, <2>3 DEF OrInto, Or
      <3>2. GateClosed'
        BY <1>0, <2>1, <3>1 DEF GateClosed
      <3>. QED BY <1>2, <2>3, <3>2
    <2>. QED BY <1>5, <2>2, <2>3 DEF Digest
  <1>6. CASE Fini(t)
    <2>1. pc[t] = "fini" /\ status[Lib] = passed /\ status' = status
      BY <1>0, <1>6 DEF Fini, Usual, Checked
    <2>2. pc'[t] = "reopen" /\ phase' = phase
      BY <1>0, <1>6, <2>1 DEF Fini, Goto
    <2>. QED BY <1>0, <1>1, <2>1, <2>2
             DEF CheckLabels, Checked, ForCheck, TestLabels, GateClosed
  <1>7. CASE ReopenRegister(t)
    <2>1. pc[t] = "reopen" /\ status[Lib] = passed /\ WriteRegister(t)
      BY <1>0, <1>7 DEF ReopenRegister, Usual, Checked
    <2>2. Swept(pc[t], Lib) = passed
      BY <2>1 DEF Swept
    <2>3. status'[Lib] = passed
      BY <1>0, <2>1, <2>2 DEF WriteRegister
    <2>4. CASE pc' = pc /\ phase' = phase
      BY <1>1, <2>1, <2>3, <2>4 DEF CheckLabels, Checked, ForCheck, TestLabels, GateClosed
    <2>5. CASE Return(t, "ok")
      BY <1>2, <2>3, <2>5 DEF GateClosed
    <2>. QED BY <1>7, <2>4, <2>5 DEF ReopenRegister
  <1>8. CASE \/ ReadLib(t) \/ ReadOwn(t) \/ Mark(t) \/ ComparePasses(t)
             \/ CompareFails(t) \/ DropRegister(t) \/ RecordFailure(t)
             \/ FailLibrary(t) \/ Completed(t) \/ Finish(t) \/ PctFails(t)
             \/ Activate(t) \/ OpenRegister(t)
    BY <1>8 DEF ReadLib, ReadOwn, Mark, ComparePasses, CompareFails, DropRegister,
                RecordFailure, FailLibrary, Completed, Finish, PctFails, Activate,
                OpenRegister, CheckLabels
  <1>. QED BY <1>3, <1>4, <1>5, <1>6, <1>7, <1>8 DEF Step

LEMMA ApiCallGate ==
  ASSUME NEW c \in Thread, Gated(c), GateInv(c), NEW t \in Thread, ApiCall(t)
  PROVE  status' = status /\ phase' = phase /\ Usual(c, t)'
  <1>. USE AlgAssumption, ResultValues DEF AlgAssumption
  <1>0. /\ pc \in [Thread -> Labels] /\ cur \in [Thread -> Alg \union {None}]
        /\ caller \in [Thread -> [Alg -> Alg \union {None}]]
        /\ reg \in [Thread -> 1..NReg]
        /\ \A a \in Alg : RegOf[a] \in 1..NReg /\ NReg \in Nat
    BY RegAssumption DEF GateInv, FrameInv, TypeOK, RegAssumption
  <1>1. ASSUME NEW a \in Alg \ {Lib}, Use(t, a) PROVE status' = status /\ phase' = phase /\ Usual(c, t)'
    <2>1. /\ pc'[t] \in {"lib", "run"} /\ cur'[t] = a /\ caller'[t][a] = None
          /\ UNCHANGED <<status, phase>> /\ phase = "up"
      BY <1>0, <1>1 DEF Use, Begin, Entry, Goto
    <2>2. ~ForCheck(t)'
      BY <2>1 DEF ForCheck
    <2>. QED BY <2>1, <2>2 DEF Usual, UserLabels, CheckLabels, Checked
  <1>2. RerunAll(t) \/ (\E a \in Alg \ {Lib} : RerunOne(t, a)) => Rerun(t)
    BY DEF RerunOne, RerunAll, Gated
  <1>3. CASE Rerun(t)
    <2>1. /\ pc'[t] = "init" /\ reg'[t] = 1 /\ UNCHANGED <<status, phase>>
          /\ phase = "up" /\ t = c
      BY <1>0, <1>3 DEF Rerun, Begin, Goto, Gated
    <2>2. \A a \in Alg : ~ (RegOf[a] < reg'[t])
      BY <1>0, <2>1
    <2>. QED BY <2>1, <2>2
             DEF Usual, Owner, CheckLabels, Checked, ForCheck, TestLabels
  <1>4. CASE Disable(t)
    <2>1. pc'[t] = "idle" /\ UNCHANGED <<status, phase>> /\ phase = "up"
      BY <1>0, <1>4 DEF Disable, Begin, Goto, Gated
    <2>. QED BY <2>1 DEF Usual, UserLabels, CheckLabels, Checked, ForCheck, TestLabels
  <1>5. CASE LcInit(t)
    BY <1>5 DEF LcInit, Gated
  <1>. QED BY <1>1, <1>2, <1>3, <1>4, <1>5 DEF ApiCall

LEMMA InitGate == \A c \in Thread : Gated(c) /\ Init => GateInv(c)
  <1>. SUFFICES ASSUME NEW c \in Thread, Gated(c), Init PROVE GateInv(c)
    OBVIOUS
  <1>. USE AlgAssumption, ResultValues DEF AlgAssumption
  <1>1. /\ pc = [t \in Thread |-> IF t = Main THEN "claim" ELSE "idle"]
        /\ phase = "boot" /\ GateClosed /\ status[Lib] = pending
    BY DEF Init, Gated, GateClosed
  <1>2. \A t \in Thread : Usual(c, t)
    BY <1>1 DEF Usual, Owner, UserLabels, CheckLabels, Checked, ForCheck, TestLabels
  <1>. QED BY <1>1, <1>2, InitFrame DEF GateInv

LEMMA NextGate ==
  ASSUME NEW c \in Thread, Gated(c), GateInv(c), [Next]_vars
  PROVE  GateInv(c)'
  <1>0. FrameInv' /\ TypeOK /\ GateClosed /\ \A t \in Thread : Usual(c, t)
    BY NextFrame DEF GateInv, FrameInv
  <1>1. CASE UNCHANGED vars \/ Tamper
    BY <1>0, <1>1 DEF GateInv, GateClosed, Usual, Owner, Checked, ForCheck,
                      Tamper, vars, control
  <1>2. ASSUME NEW t \in Thread, Step(t), pc[t] \in UserLabels PROVE GateInv(c)'
    <2>1. /\ FailuresStay /\ phase' = phase
          /\ \/ /\ pc'[t] \in UserLabels /\ (ForCheck(t)' <=> ForCheck(t))
                /\ ForCheck(t)' => pc'[t] \in {"lib", "kat"}
             \/ pc'[t] = "digest" /\ ForCheck(t)
      BY <1>2, UserStepGate
    <2>2. GateClosed'
      BY <1>0, <2>1, AlgAssumption DEF FailuresStay, GateClosed, AlgAssumption
    <2>3. Usual(c, t)'
      <3>1. CASE /\ pc'[t] \in UserLabels /\ (ForCheck(t)' <=> ForCheck(t))
                 /\ ForCheck(t)' => pc'[t] \in {"lib", "kat"}
        <4>1. phase = "boot" =>
                IF t = Main THEN ForCheck(t) ELSE pc[t] = "idle"
          BY <1>0, <1>2 DEF Usual, UserLabels, CheckLabels
        <4>2. pc[t] # "idle"
          BY <1>2 DEF Step, ReadLib, ReadOwn, Mark, ComparePasses, CompareFails,
               DropRegister, RecordFailure, FailLibrary, Completed, Finish, PctFails,
               InitRegister, Claim, Digest, Fini, ReopenRegister, Activate,
               OpenRegister
        <4>3. Checked(t)'
          BY <1>0, <2>1, <3>1 DEF Usual, Checked, UserLabels, FailuresStay
        <4>4. pc'[t] \notin CheckLabels
          BY <3>1 DEF UserLabels, CheckLabels
        <4>5. ForCheck(t)' => t = Owner(c)'
          BY <1>0, <2>1, <3>1 DEF Usual, Owner
        <4>. QED BY <2>1, <3>1, <4>1, <4>2, <4>3, <4>4, <4>5 DEF Usual
      <3>2. CASE pc'[t] = "digest" /\ ForCheck(t)
        <4>1. t = Owner(c) /\ status'[Lib] = ongoing
          BY <1>0, <2>1, <3>2 DEF Usual, Checked, FailuresStay
        <4>2. ~ForCheck(t)' /\ Checked(t)'
          BY <3>2, <4>1 DEF ForCheck, TestLabels, Checked
        <4>3. phase' = "boot" => t = Main
          BY <2>1, <4>1 DEF Owner
        <4>. QED BY <2>1, <3>2, <4>1, <4>2, <4>3 DEF Usual, Owner, CheckLabels
      <3>. QED BY <2>1, <3>1, <3>2
    <2>4. ASSUME NEW u \in Thread, u # t PROVE Usual(c, u)'
      <3>1. /\ pc'[u] = pc[u] /\ cur'[u] = cur[u] /\ caller'[u] = caller[u]
            /\ reg'[u] = reg[u]
        BY <1>0, <1>2, <2>4, OthersStay
      <3>2. Checked(u)'
        BY <1>0, <2>1, <3>1 DEF Usual, Checked, ForCheck, FailuresStay
      <3>. QED BY <1>0, <2>1, <3>1, <3>2 DEF Usual, Owner, ForCheck
    <2>. QED BY <1>0, <2>2, <2>3, <2>4 DEF GateInv
  <1>3. ASSUME NEW t \in Thread, Step(t), pc[t] \in CheckLabels PROVE GateInv(c)'
    <2>1. GateClosed' /\ Usual(c, t)' /\ phase' \in {phase, "up"}
      BY <1>3, CheckStepGate
    <2>2. ASSUME NEW u \in Thread, u # t PROVE Usual(c, u)'
      <3>1. /\ pc'[u] = pc[u] /\ cur'[u] = cur[u] /\ caller'[u] = caller[u]
        BY <1>0, <1>3, <2>2, OthersStay
      <3>2. pc[u] \in UserLabels \ CheckLabels /\ ~ForCheck(u)
        BY <1>0, <1>3, <2>2 DEF Usual, UserLabels, CheckLabels
      <3>3. ~ForCheck(u)' /\ Checked(u)'
        BY <3>1, <3>2 DEF Checked, ForCheck, UserLabels, CheckLabels
      <3>4. phase' = "boot" => u # Main /\ pc[u] = "idle"
        BY <1>0, <1>3, <2>1, <2>2, <3>2 DEF Usual, Owner
      <3>. QED BY <3>1, <3>2, <3>3, <3>4 DEF Usual
    <2>. QED BY <1>0, <2>1, <2>2 DEF GateInv
  <1>4. ASSUME NEW t \in Thread, ApiCall(t) PROVE GateInv(c)'
    <2>1. status' = status /\ phase' = phase /\ Usual(c, t)'
      BY <1>4, ApiCallGate
    <2>2. ASSUME NEW u \in Thread, u # t PROVE Usual(c, u)'
      <3>1. /\ pc'[u] = pc[u] /\ cur'[u] = cur[u] /\ caller'[u] = caller[u]
            /\ reg'[u] = reg[u]
        BY <1>0, <1>4, <2>2, OthersStay
      <3>. QED BY <1>0, <2>1, <3>1 DEF Usual, Owner, Checked, ForCheck
    <2>. QED BY <1>0, <2>1, <2>2 DEF GateInv, GateClosed
  <1>. QED BY <1>0, <1>1, <1>2, <1>3, <1>4 DEF Next, Usual

\* GateClosed for any number of threads, algorithms and registers, while users
\* run self tests beside the check and the image may change at any moment: the
\* sweep of alg_status_set_init_state, which writes the library field last,
\* closes the library before lc_activate_library_selftest_init claims the check,
\* and a self test that still runs cannot take a failed field back.
THEOREM GateStaysClosed ==
  ASSUME NEW c \in Thread, Gated(c)
  PROVE  Spec => []GateClosed
  <1>1. GateInv(c) => GateClosed
    BY DEF GateInv
  <1>2. Init => GateInv(c)
    BY InitGate
  <1>3. GateInv(c) /\ [Next]_vars => GateInv(c)'
    BY NextGate
  <1>. QED BY <1>1, <1>2, <1>3, PTL DEF Spec
=============================================================================
