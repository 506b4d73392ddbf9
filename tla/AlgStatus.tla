------------------------------ MODULE AlgStatus ------------------------------
(***************************************************************************)
(* The self-test status machine of leancrypto (internal/src/               *)
(* status_algorithms.c, compare.c, fips_integrity_check.c, hash/src/       *)
(* sha3_selftest.c) as it is driven by concurrent threads.                 *)
(*                                                                         *)
(* Every algorithm has a three bit field in one of several 32 bit atomics  *)
(* ("registers").  The first use of an algorithm runs its known-answer     *)
(* test (CAST), later uses only read the field.  In FIPS mode a failing    *)
(* test sends all other algorithms back to "pending", and an integrity     *)
(* check may be re-run at any time.  One atomic operation of the code is   *)
(* one action; the registers are swept one after the other.                *)
(***************************************************************************)
EXTENDS Integers

CONSTANTS
  Thread,        \* threads that use the library
  Main,          \* the thread that runs the library constructor
  Alg,           \* algorithms with a status field, the library field included
  Lib,           \* LC_ALG_STATUS_LIB
  Sha3,          \* LC_ALG_STATUS_SHA3, the hash of the integrity check
  None,          \* no algorithm: a frame called by the user
  Fips,          \* fips140_mode_enabled()
  NReg,          \* number of status registers, swept in the order 1..NReg
  RegOf,         \* register that holds the field of an algorithm
  Dep,           \* algorithm whose checked API the self test of another uses
  Silent,        \* self tests that return without a verdict if Dep fails
  Vectors,       \* number of lc_compare_selftest calls of a self test
  BadAt,         \* first compare of a self test that fails, 0 if none does
  Pct,           \* algorithms with a pairwise consistency test
  Checkers,      \* threads that call lc_fips_integrity_checker
  InitCallers,   \* threads that call lc_init
  Disablers,     \* threads that call lc_alg_disable_selftests
  Tampering,     \* may the library image change after its build?
  MaxCalls       \* bound: API calls of one thread

ASSUME AlgAssumption ==
  /\ Main \in Thread
  /\ Lib \in Alg /\ Sha3 \in Alg /\ Lib # Sha3 /\ None \notin Alg
  /\ Fips \in BOOLEAN /\ Tampering \in BOOLEAN
  /\ MaxCalls \in Nat

ASSUME RegAssumption ==
  /\ NReg \in Nat \ {0}
  /\ RegOf \in [Alg -> 1..NReg]

ASSUME TestAssumption ==
  /\ Dep \in [Alg -> (Alg \ {Lib}) \union {None}]
  /\ Dep[Sha3] = None
  /\ Vectors \in [Alg -> Nat \ {0}]
  /\ BadAt \in [Alg -> Nat] /\ BadAt[Lib] = 0
  /\ Silent \subseteq Alg /\ Pct \subseteq Alg \ {Lib}
  /\ Checkers \subseteq Thread /\ InitCallers \subseteq Thread
  /\ Disablers \subseteq Thread

VARIABLES
  status,    \* the fields of the registers, per algorithm
  image,     \* does the library image match the expected digest?
  phase,     \* has the library constructor returned?
  pc,        \* control point of a thread
  cur,       \* algorithm (or Lib, the integrity check) a thread works on
  caller,    \* per thread and algorithm: whose self test called it
  mode,      \* why a thread may enter the failure path
  vec,       \* next compare of the running self test
  reg,       \* next register of a sweep
  rc,        \* result of the last call of a thread
  calls      \* number of calls a thread has made

control == <<pc, cur, caller, mode, vec, reg, rc, calls>>
vars == <<status, image, phase, control>>

-----------------------------------------------------------------------------
(* The bit patterns 000, 001, 011, 111 of enum lc_alg_status_result form a *)
(* chain under inclusion: ORing two of them yields the larger one, and the *)
(* numbers below keep that order.                                          *)
pending == 0
ongoing == 1
passed  == 2
failed  == 3
Result  == pending..failed

MutAdds(x, y) == x + y

Or(x, y) == IF x < y THEN y ELSE x

OrInto(a, r) == status' = [status EXCEPT ![a] = Or(@, r)]

Labels == {"idle", "lib", "run", "mark", "kat", "drop", "orfail", "libfail",
           "completed", "served", "init", "claim", "digest", "fini",
           "reopen", "activate", "open", "disable"}
Modes == {"cast", "startup", "pct"}
Codes == {"ok", "EAGAIN", "EOPNOTSUPP"}

(* The compile-time state: every field has all bits set, the library field *)
(* none.  The constructor is about to run on Main, nobody else can call.   *)
Init ==
  /\ status = [a \in Alg |-> IF a = Lib THEN pending ELSE failed]
  /\ image = "intact"
  /\ phase = "boot"
  /\ pc = [t \in Thread |-> IF t # Main THEN "idle"
                            ELSE IF Fips THEN "claim" ELSE "activate"]
  /\ cur = [t \in Thread |-> IF t = Main THEN Lib ELSE None]
  /\ caller = [t \in Thread |-> [a \in Alg |-> None]]
  /\ mode = [t \in Thread |-> "cast"]
  /\ vec = [t \in Thread |-> 1]
  /\ reg = [t \in Thread |-> 1]
  /\ rc = [t \in Thread |-> "ok"]
  /\ calls = [t \in Thread |-> 0]

-----------------------------------------------------------------------------
(* Control helpers.                                                        *)

Goto(t, l) == pc' = [pc EXCEPT ![t] = l]

\* The API call of t returns code r to the user.
Return(t, r) ==
  /\ Goto(t, "idle")
  /\ cur' = [cur EXCEPT ![t] = None]
  /\ rc' = [rc EXCEPT ![t] = r]
  /\ phase' = "up"

\* t starts an API call at label l, on algorithm a, on behalf of the user.
Begin(t, l, a) ==
  /\ pc[t] = "idle" /\ phase = "up"
  /\ calls[t] < MaxCalls
  /\ calls' = [calls EXCEPT ![t] = @ + 1]
  /\ Goto(t, l)
  /\ cur' = [cur EXCEPT ![t] = a]

\* The init function of SHA3-256 first looks at the library field; those of
\* the other SHA-3 sizes, and of all other algorithms, do not.
Entry(a) == IF a = Sha3 THEN {"lib", "run"} ELSE {"run"}

\* The self-test function returns: to the integrity check that called it,
\* or to LC_SELFTEST_COMPLETED of the API function that called it.
TestReturns(t, a) ==
  /\ mode' = [mode EXCEPT ![t] = "cast"]
  /\ IF caller[t][a] = Lib
     THEN Goto(t, "digest") /\ cur' = [cur EXCEPT ![t] = Lib]
     ELSE Goto(t, "completed") /\ cur' = [cur EXCEPT ![t] = a]

\* alg_status_set_testresult with lc_alg_status_result_failed: in FIPS mode
\* all fields are reset before the failure is recorded.
EnterFailure(t) ==
  /\ Goto(t, IF Fips THEN "drop" ELSE "orfail")
  /\ reg' = [reg EXCEPT ![t] = 1]

\* What one register write of alg_status_set_common (or of
\* alg_status_set_all_passed_state) leaves in the field of a.
MutInitReopens(l, a) ==
  CASE l = "disable" -> Or(status[a], passed)
    [] l \in {"drop", "open", "reopen"} /\ a = Lib -> passed
    [] OTHER -> pending

MutDropCondemns(l, a) ==
  CASE l = "disable" -> Or(status[a], passed)
    [] l = "init"    -> IF a = Lib THEN pending ELSE failed
    [] l = "drop"    -> IF a = Lib THEN passed ELSE failed
    [] OTHER -> IF a = Lib THEN passed ELSE pending

Swept(l, a) ==
  CASE l = "init"    -> IF a = Lib THEN pending ELSE failed
    [] l \in {"drop", "open"} -> IF a = Lib THEN passed ELSE pending
    [] l = "reopen"  -> IF a \in {Lib, Sha3} THEN passed ELSE pending
    [] l = "disable" -> Or(status[a], passed)

WriteRegister(t) ==
  status' = [a \in Alg |-> IF RegOf[a] = reg[t] THEN Swept(pc[t], a)
                                                 ELSE status[a]]

-----------------------------------------------------------------------------
(* Use of an algorithm: <alg>_init = self test; LC_SELFTEST_COMPLETED.     *)

Use(t, a) ==
  /\ \E l \in Entry(a) : Begin(t, l, a)
  /\ caller' = [caller EXCEPT ![t][a] = None]
  /\ UNCHANGED <<status, image, phase, mode, vec, reg, rc>>

\* sha3_256_selftest_common: switch on the status of the library.
ReadLib(t) ==
  /\ pc[t] = "lib"
  /\ \/ /\ status[Lib] = pending
        /\ TestReturns(t, cur[t])
        /\ UNCHANGED vec
     \/ /\ status[Lib] = ongoing
        /\ Goto(t, "kat")
        /\ vec' = [vec EXCEPT ![t] = 1]
        /\ mode' = [mode EXCEPT ![t] = "startup"]
        /\ UNCHANGED cur
     \/ /\ status[Lib] \in {passed, failed}
        /\ Goto(t, "run")
        /\ UNCHANGED <<vec, mode, cur>>
  /\ UNCHANGED <<status, image, phase, caller, reg, rc, calls>>

\* LC_SELFTEST_RUN, first half: only a pending self test is executed.
ReadOwn(t) ==
  /\ pc[t] = "run"
  /\ IF status[cur[t]] = pending
     THEN Goto(t, "mark") /\ UNCHANGED <<cur, mode>>
     ELSE TestReturns(t, cur[t])
  /\ UNCHANGED <<status, image, phase, caller, vec, reg, rc, calls>>

\* LC_SELFTEST_RUN, second half.  The self test then starts, for some
\* algorithms by calling the checked API of another one.
Mark(t) ==
  LET a == cur[t] IN
  /\ pc[t] = "mark"
  /\ OrInto(a, ongoing)
  /\ vec' = [vec EXCEPT ![t] = 1]
  /\ IF Dep[a] = None
     THEN Goto(t, "kat") /\ UNCHANGED <<cur, caller>>
     ELSE /\ \E l \in Entry(Dep[a]) : Goto(t, l)
          /\ cur' = [cur EXCEPT ![t] = Dep[a]]
          /\ caller' = [caller EXCEPT ![t][Dep[a]] = a]
  /\ UNCHANGED <<image, phase, mode, reg, rc, calls>>

\* lc_compare_selftest on a vector that matches.
ComparePasses(t) ==
  LET a == cur[t] IN
  /\ pc[t] = "kat" /\ BadAt[a] # vec[t]
  /\ OrInto(a, passed)
  /\ IF vec[t] < Vectors[a]
     THEN vec' = [vec EXCEPT ![t] = @ + 1] /\ UNCHANGED <<pc, cur, mode>>
     ELSE TestReturns(t, a) /\ UNCHANGED vec
  /\ UNCHANGED <<image, phase, caller, reg, rc, calls>>

\* lc_compare_selftest on a vector that does not match.
MutForgetsVerdict(t) ==
  /\ pc[t] = "kat" /\ BadAt[cur[t]] = vec[t]
  /\ TestReturns(t, cur[t])
  /\ UNCHANGED <<status, image, phase, caller, vec, reg, rc, calls>>

CompareFails(t) ==
  /\ pc[t] = "kat" /\ BadAt[cur[t]] = vec[t]
  /\ EnterFailure(t)
  /\ UNCHANGED <<status, image, phase, cur, caller, mode, vec, rc, calls>>

\* One register of alg_status_unset_test_state(0) on the failure path.
MutResetOnly(t) ==
  /\ pc[t] = "drop"
  /\ WriteRegister(t)
  /\ IF reg[t] < NReg
     THEN reg' = [reg EXCEPT ![t] = @ + 1] /\ UNCHANGED <<pc, cur, mode>>
     ELSE TestReturns(t, cur[t]) /\ UNCHANGED reg
  /\ UNCHANGED <<image, phase, caller, vec, rc, calls>>

DropRegister(t) ==
  /\ pc[t] = "drop"
  /\ WriteRegister(t)
  /\ IF reg[t] < NReg THEN reg' = [reg EXCEPT ![t] = @ + 1] /\ UNCHANGED pc
                      ELSE Goto(t, "orfail") /\ UNCHANGED reg
  /\ UNCHANGED <<image, phase, cur, caller, mode, vec, rc, calls>>

\* The final atomic_or of alg_status_set_testresult, and what the caller does
\* after a failed compare: sha3_256_selftest_common also fails the library,
\* a failed pairwise consistency test returns to the user.
RecordFailure(t) ==
  /\ pc[t] = "orfail"
  /\ OrInto(cur[t], failed)
  /\ \/ /\ mode[t] = "cast"
        /\ TestReturns(t, cur[t])
        /\ UNCHANGED <<rc, phase>>
     \/ /\ mode[t] = "startup"
        /\ Goto(t, "libfail")
        /\ UNCHANGED <<cur, mode, rc, phase>>
     \/ /\ mode[t] = "pct"
        /\ Return(t, "EOPNOTSUPP")
        /\ mode' = [mode EXCEPT ![t] = "cast"]
  /\ UNCHANGED <<image, caller, vec, reg, calls>>

FailLibrary(t) ==
  /\ pc[t] = "libfail"
  /\ OrInto(Lib, failed)
  /\ TestReturns(t, cur[t])
  /\ UNCHANGED <<image, phase, caller, vec, reg, rc, calls>>

\* LC_SELFTEST_COMPLETED: the tight loop, and the code it returns.
MutNeverWaits(a) == FALSE

Waits(a) == status[a] = ongoing

MutPendingIsGood(a) ==
  IF status[a] = failed THEN "EOPNOTSUPP" ELSE "ok"

Outcome(a) ==
  CASE status[a] = pending -> "EAGAIN"
    [] status[a] = failed  -> "EOPNOTSUPP"
    [] OTHER               -> "ok"

\* The API function goes on with the service or returns.  A self test that
\* called it goes on with its compares or, if it got an error, compares
\* garbage or, those in Silent, returns without a verdict.
Completed(t) ==
  LET a == cur[t]
      c == caller[t][a]
      r == Outcome(a)
  IN
  /\ pc[t] = "completed" /\ ~Waits(a)
  /\ \/ /\ c = None /\ r = "ok"
        /\ Goto(t, "served")
        /\ UNCHANGED <<cur, mode, vec, reg, rc, phase>>
     \/ /\ c = None /\ r # "ok"
        /\ Return(t, r)
        /\ UNCHANGED <<mode, vec, reg>>
     \/ /\ c # None /\ r = "ok"
        /\ Goto(t, "kat")
        /\ cur' = [cur EXCEPT ![t] = c]
        /\ vec' = [vec EXCEPT ![t] = 1]
        /\ UNCHANGED <<mode, reg, rc, phase>>
     \/ /\ c # None /\ r # "ok" /\ c \in Silent
        /\ TestReturns(t, c)
        /\ UNCHANGED <<vec, reg, rc, phase>>
     \/ /\ c # None /\ r # "ok" /\ c \notin Silent
        /\ EnterFailure(t)
        /\ cur' = [cur EXCEPT ![t] = c]
        /\ UNCHANGED <<mode, vec, rc, phase>>
  /\ UNCHANGED <<status, image, caller, calls>>

\* The algorithm is initialised and the service is rendered.
Finish(t) ==
  /\ pc[t] = "served"
  /\ Return(t, "ok")
  /\ UNCHANGED <<status, image, caller, mode, vec, reg, calls>>

\* FIPS140_PCT_LOOP: all attempts of a pairwise consistency test failed.
PctFails(t) ==
  /\ pc[t] = "served" /\ Fips /\ cur[t] \in Pct
  /\ EnterFailure(t)
  /\ mode' = [mode EXCEPT ![t] = "pct"]
  /\ UNCHANGED <<status, image, phase, cur, caller, vec, rc, calls>>

-----------------------------------------------------------------------------
(* The FIPS integrity check: constructor (starts at "claim") and re-run.   *)

Rerun(t) ==
  /\ Fips /\ t \in Checkers
  /\ Begin(t, "init", Lib)
  /\ reg' = [reg EXCEPT ![t] = 1]
  /\ UNCHANGED <<status, image, phase, caller, mode, vec, rc>>

\* One register of alg_status_set_init_state.
InitRegister(t) ==
  /\ pc[t] = "init"
  /\ WriteRegister(t)
  /\ IF reg[t] < NReg THEN reg' = [reg EXCEPT ![t] = @ + 1] /\ UNCHANGED pc
                      ELSE Goto(t, "claim") /\ UNCHANGED reg
  /\ UNCHANGED <<image, phase, cur, caller, mode, vec, rc, calls>>

\* lc_activate_library_selftest_init: fetch_or decides who runs the check;
\* the winner continues with sha3_256_selftest_common.
Claim(t) ==
  /\ pc[t] = "claim"
  /\ OrInto(Lib, ongoing)
  /\ IF status[Lib] > pending
     THEN Return(t, "ok") /\ UNCHANGED caller
     ELSE /\ Goto(t, "lib")
          /\ cur' = [cur EXCEPT ![t] = Sha3]
          /\ caller' = [caller EXCEPT ![t][Sha3] = Lib]
          /\ UNCHANGED <<rc, phase>>
  /\ UNCHANGED <<image, mode, vec, reg, calls>>

\* The digest over the image is compared.  A broken SHA3-256 may yield any
\* digest.
DigestMatches == image = "intact" \/ BadAt[Sha3] # 0
DigestDiffers == image = "tampered" \/ BadAt[Sha3] # 0

Digest(t) ==
  /\ pc[t] = "digest"
  /\ \/ /\ DigestMatches
        /\ OrInto(Lib, passed)
        /\ Goto(t, "fini")
        /\ UNCHANGED <<cur, rc, phase>>
     \/ /\ DigestDiffers
        /\ OrInto(Lib, failed)
        /\ Return(t, "ok")
  /\ UNCHANGED <<image, caller, mode, vec, reg, calls>>

\* lc_activate_library_selftest_fini: open the library if it has passed.
Fini(t) ==
  /\ pc[t] = "fini"
  /\ IF status[Lib] = passed
     THEN /\ Goto(t, "reopen")
          /\ reg' = [reg EXCEPT ![t] = 1]
          /\ UNCHANGED <<cur, rc, phase>>
     ELSE Return(t, "ok") /\ UNCHANGED reg
  /\ UNCHANGED <<status, image, caller, mode, vec, calls>>

\* One register of alg_status_unset_test_state, SHA-3 keeps its verdict.
ReopenRegister(t) ==
  /\ pc[t] = "reopen"
  /\ WriteRegister(t)
  /\ IF reg[t] < NReg
     THEN reg' = [reg EXCEPT ![t] = @ + 1] /\ UNCHANGED <<pc, cur, rc, phase>>
     ELSE Return(t, "ok") /\ UNCHANGED reg
  /\ UNCHANGED <<image, caller, mode, vec, calls>>

-----------------------------------------------------------------------------
(* lc_activate_library_internal, called by lc_init and by the constructor  *)
(* of the library without the integrity check.                             *)

LcInit(t) ==
  /\ t \in InitCallers
  /\ Begin(t, "activate", Lib)
  /\ UNCHANGED <<status, image, phase, caller, mode, vec, reg, rc>>

Activate(t) ==
  /\ pc[t] = "activate"
  /\ OrInto(Lib, passed)
  /\ IF status[Lib] > pending
     THEN Return(t, "ok") /\ UNCHANGED reg
     ELSE /\ Goto(t, "open")
          /\ reg' = [reg EXCEPT ![t] = 1]
          /\ UNCHANGED <<cur, rc, phase>>
  /\ UNCHANGED <<image, caller, mode, vec, calls>>

\* One register of alg_status_unset_test_state(0), or of
\* alg_status_set_all_passed_state.
OpenRegister(t) ==
  /\ pc[t] \in {"open", "disable"}
  /\ WriteRegister(t)
  /\ IF reg[t] < NReg
     THEN reg' = [reg EXCEPT ![t] = @ + 1] /\ UNCHANGED <<pc, cur, rc, phase>>
     ELSE Return(t, "ok") /\ UNCHANGED reg
  /\ UNCHANGED <<image, caller, mode, vec, calls>>

-----------------------------------------------------------------------------
(* The status API (status_api.c): in FIPS mode a rerun of any test is the  *)
(* integrity check.                                                        *)

\* alg_status_unset_testresult_one: one atomic_and.
UnsetOne(t, a) ==
  /\ Begin(t, "idle", None)
  /\ status' = [status EXCEPT ![a] = pending]
  /\ UNCHANGED <<image, phase, caller, mode, vec, reg, rc>>

\* lc_rerun_one_selftest.
RerunOne(t, a) == IF Fips THEN Rerun(t) ELSE UnsetOne(t, a)

\* alg_status_unset_result_all.
UnsetAll(t) ==
  /\ Begin(t, "open", Lib)
  /\ reg' = [reg EXCEPT ![t] = 1]
  /\ UNCHANGED <<status, image, phase, caller, mode, vec, rc>>

\* lc_rerun_selftests.
RerunAll(t) == IF Fips THEN Rerun(t) ELSE UnsetAll(t)

\* lc_alg_disable_selftests, refused in FIPS mode.
Disable(t) ==
  /\ t \in Disablers
  /\ IF Fips
     THEN /\ Begin(t, "idle", None)
          /\ rc' = [rc EXCEPT ![t] = "EOPNOTSUPP"]
          /\ UNCHANGED reg
     ELSE /\ Begin(t, "disable", Lib)
          /\ reg' = [reg EXCEPT ![t] = 1]
          /\ UNCHANGED rc
  /\ UNCHANGED <<status, image, phase, caller, mode, vec>>

-----------------------------------------------------------------------------
\* Environment: the image in memory stops matching its expected digest.
Tamper ==
  /\ Tampering
  /\ image' = "tampered"
  /\ UNCHANGED <<status, phase, control>>

\* The steps a running call takes by itself.
Step(t) ==
  \/ ReadLib(t) \/ ReadOwn(t) \/ Mark(t)
  \/ ComparePasses(t) \/ CompareFails(t)
  \/ DropRegister(t) \/ RecordFailure(t) \/ FailLibrary(t)
  \/ Completed(t) \/ Finish(t) \/ PctFails(t)
  \/ InitRegister(t) \/ Claim(t) \/ Digest(t) \/ Fini(t) \/ ReopenRegister(t)
  \/ Activate(t) \/ OpenRegister(t)

\* The calls a user may make.
ApiCall(t) ==
  \/ \E a \in Alg \ {Lib} : Use(t, a) \/ RerunOne(t, a)
  \/ Rerun(t) \/ LcInit(t) \/ RerunAll(t) \/ Disable(t)

Next == Tamper \/ \E t \in Thread : Step(t) \/ ApiCall(t)

Spec == Init /\ [][Next]_vars

\* The scheduler lets every thread that is inside the library run on.
FairSpec == Spec /\ \A t \in Thread : WF_vars(Step(t))

-----------------------------------------------------------------------------
(* Properties.                                                             *)

\* Type invariant: every field holds one of the four documented patterns.
TypeOK ==
  /\ status \in [Alg -> Result]
  /\ image \in {"intact", "tampered"} /\ phase \in {"boot", "up"}
  /\ pc \in [Thread -> Labels]
  /\ cur \in [Thread -> Alg \union {None}]
  /\ caller \in [Thread -> [Alg -> Alg \union {None}]]
  /\ mode \in [Thread -> Modes]
  /\ vec \in [Thread -> Nat] /\ reg \in [Thread -> 1..NReg]
  /\ rc \in [Thread -> Codes]
  /\ calls \in [Thread -> 0..MaxCalls]
  /\ \A t \in Thread : pc[t] # "idle" => cur[t] \in Alg

\* No thread is ever served by an algorithm whose first known answer is
\* wrong, whatever resets, re-runs and other failing tests run beside it.
\* SHA3-256 is excepted: the integrity check may mark it as passed.
BrokenNeverServed ==
  \A t \in Thread :
    pc[t] = "served" /\ cur[t] # Sha3 => BadAt[cur[t]] # 1

\* The gate of the FIPS integrity check: until the library has passed it,
\* and after it failed it, no other algorithm leaves the error state, although
\* self tests that began before a re-run may still report their results.
GateClosed ==
  status[Lib] # passed => \A a \in Alg \ {Lib} : status[a] = failed

\* Degraded mode: a failing self test sends other algorithms back to pending
\* but condemns none that is sound (and uses only sound ones).
Sound(a) == BadAt[a] = 0 /\ (Dep[a] # None => BadAt[Dep[a]] = 0)

OnlyBrokenCondemned ==
  phase = "up" => \A a \in Alg : Sound(a) => status[a] # failed

\* The promise to the user (module SelfTestGate), for all algorithms but the
\* hash of the integrity check: a field counts as a verdict once it is passed
\* or failed, and a thread is served from leaving LC_SELFTEST_COMPLETED on.
Refined == Alg \ {Lib, Sha3}

verdictBar == [a \in Refined |-> IF status[a] = passed THEN "good"
                                ELSE IF status[a] = failed THEN "bad"
                                ELSE "untested"]

servingBar == [t \in Thread |-> IF pc[t] = "served" /\ cur[t] # Sha3
                                THEN cur[t] ELSE None]

Promise == INSTANCE SelfTestGate WITH
  Algorithm <- Refined,
  User <- Thread,
  Nobody <- None,
  Broken <- {a \in Refined : BadAt[a] = 1},
  verdict <- verdictBar,
  serving <- servingBar

PromiseKept == Promise!Spec

(* Statements of comments in the code that some runs refute.               *)

\* status_algorithms.c:465-467: when "the whole library is failing" the
\* state is not unset and "we want to stay in failure mode"; only a re-run
\* of the integrity check leaves it.
LibraryStaysFailed ==
  [][status[Lib] = failed =>
       status'[Lib] = failed \/ \E t \in Thread : pc[t] = "init"]_vars

\* compare.h:43-44: the loop of LC_SELFTEST_COMPLETED is "waiting for the
\* completion of testing": a test that is ongoing completes.
TestingCompletes ==
  \A a \in Alg : status[a] = ongoing ~> status[a] # ongoing
=============================================================================
