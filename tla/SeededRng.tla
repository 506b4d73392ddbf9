------------------------------ MODULE SeededRng ------------------------------
(***************************************************************************)
(* The seeded random number generator of leancrypto (drng/src/             *)
(* seeded_rng.c over the XDRBG-256 of drng/src/xdrbg.c): one deterministic *)
(* generator shared by all threads of a process under a spin lock, seeded  *)
(* from an entropy source at first use, after a number of bytes, after a   *)
(* time and after a fork.  Each call takes the lock twice: once to make    *)
(* the generator ready, once to use it.                                    *)
(*                                                                         *)
(* The content of the generator is abstracted to how much entropy it has   *)
(* received and in which process it received entropy last.                 *)
(***************************************************************************)
EXTENDS Integers, FiniteSets

CONSTANTS
  Thread,        \* threads that use the generator
  Nobody,        \* no thread: the lock is free
  Max,           \* LC_SEEDED_RNG_MAX_CHUNK, in units of output
  SizeMax,       \* largest value of a size_t
  MaxTime,       \* LC_SEEDED_RNG_MAX_TIME
  Clock,         \* values get_time() may return; 0 if there is no clock
  Requests,      \* output lengths of generate calls
  Faults,        \* what may fail: "noise", "entropy", "drbg"
  Destroyers,    \* threads that run the library destructor
  Alone,         \* whether it runs only after all others left the library
  MaxForks,      \* bound: forks of the process, followed into the child
  MaxCalls       \* bound: calls of one thread

ASSUME ThreadAssumption == Nobody \notin Thread
ASSUME SizeAssumption ==
  /\ Max \in Nat \ {0} /\ SizeMax \in Nat /\ Max < SizeMax
  /\ Requests \subseteq Nat
  /\ MaxTime \in Nat /\ Clock \subseteq Int
  /\ MaxForks \in Nat /\ MaxCalls \in Nat
ASSUME ActorAssumption ==
  /\ Faults \subseteq {"noise", "entropy", "drbg"}
  /\ Destroyers \subseteq Thread /\ Alone \in BOOLEAN

VARIABLES
  lock,      \* seeded_rng.lock: its holder
  level,     \* entropy in the generator: 0 zeroized, 1 one seed, 2 all
  origin,    \* process in which the generator was last seeded, 0 if none
  bytes,     \* seeded_rng.bytes
  last,      \* seeded_rng.last_seeded
  pid,       \* seeded_rng.pid
  proc,      \* getpid()
  pc, op,    \* control point and operation of a thread
  left,      \* outlen
  init,      \* the init argument of lc_check_reseed
  newpid,    \* the local variable of lc_check_reseed
  site,      \* from where lc_seed_seeded_rng was called
  rc,        \* result of the last call
  calls      \* number of calls made

generator == <<level, origin, bytes, last, pid>>
frame == <<op, left, init, newpid, site>>
vars == <<lock, generator, proc, pc, frame, rc, calls>>

Labels == {"idle", "gone", "get", "setup", "check", "seed1", "seed2", "gap",
           "chunk", "insert"}
Ops == {"generate", "seed", "zero"}
Sites == {"get", "loop", "user"}
Process == 1..MaxForks + 1

\* A seed is forced at first use: more bytes than allowed, never seeded.
Init ==
  /\ lock = Nobody
  /\ level = 0 /\ origin = 0
  /\ bytes = Max + 1 /\ last = 0 /\ pid = 0
  /\ proc = 1
  /\ pc = [t \in Thread |-> "idle"]
  /\ op = [t \in Thread |-> "zero"]
  /\ left = [t \in Thread |-> 0]
  /\ init = [t \in Thread |-> FALSE]
  /\ newpid = [t \in Thread |-> 0]
  /\ site = [t \in Thread |-> "get"]
  /\ rc = [t \in Thread |-> "ok"]
  /\ calls = [t \in Thread |-> 0]

-----------------------------------------------------------------------------
Goto(t, l) == pc' = [pc EXCEPT ![t] = l]

\* mutex_w_lock: spin until the flag changes from false to true.
Acquire(t) == lock = Nobody /\ lock' = t

\* mutex_w_unlock does not look who holds the lock.
Release == lock' = Nobody

\* The common exit of the operations: "out:" with the lock held.
MutLeaveLocked(t, r) ==
  /\ IF r = "ok" THEN Release ELSE UNCHANGED lock
  /\ Goto(t, "idle")
  /\ rc' = [rc EXCEPT ![t] = r]

Leave(t, r) ==
  /\ Release
  /\ Goto(t, "idle")
  /\ rc' = [rc EXCEPT ![t] = r]

\* lc_check_reseed or lc_seed_seeded_rng has succeeded: what comes next.
Ready(t) ==
  \/ /\ site[t] = "get"
     /\ Release /\ Goto(t, "gap")
     /\ UNCHANGED rc
  \/ /\ site[t] = "loop"
     /\ Goto(t, "chunk")
     /\ UNCHANGED <<lock, rc>>
  \/ /\ site[t] = "user" /\ op[t] = "seed"
     /\ Goto(t, "insert")
     /\ UNCHANGED <<lock, rc>>
  \/ /\ site[t] = "user" /\ op[t] = "zero"
     /\ Leave(t, "ok")

\* lc_rng_generate, lc_rng_seed and lc_rng_zero with the seeded generator.
Call(t, o, n) ==
  /\ pc[t] = "idle" /\ calls[t] < MaxCalls
  /\ calls' = [calls EXCEPT ![t] = @ + 1]
  /\ op' = [op EXCEPT ![t] = o]
  /\ left' = [left EXCEPT ![t] = n]
  /\ Goto(t, "get")
  /\ UNCHANGED <<lock, generator, proc, init, newpid, site, rc>>

-----------------------------------------------------------------------------
(* lc_get_seeded_rng.                                                      *)

Get(t) ==
  /\ pc[t] = "get"
  /\ Acquire(t)
  /\ Goto(t, IF last = 0 THEN "setup" ELSE "check")
  /\ init' = [init EXCEPT ![t] = FALSE]
  /\ site' = [site EXCEPT ![t] = "get"]
  /\ UNCHANGED <<generator, proc, op, left, newpid, rc, calls>>

\* lc_seeded_rng_init_state sets up the generator, which zeroizes it.
Setup(t) ==
  /\ pc[t] = "setup"
  /\ level' = 0 /\ origin' = 0
  /\ \/ /\ pid' = proc
        /\ init' = [init EXCEPT ![t] = TRUE]
        /\ Goto(t, "check")
        /\ UNCHANGED <<lock, rc>>
     \/ /\ "noise" \in Faults
        /\ Leave(t, "error")
        /\ UNCHANGED <<pid, init>>
  /\ UNCHANGED <<bytes, last, proc, op, left, newpid, site, calls>>

\* lc_seeded_rng_must_reseed: a negative reading is never late.
Late(now) ==
  /\ now >= 0
  /\ last + MaxTime < 0 \/ now > last + MaxTime

\* lc_check_reseed and lc_seeded_rng_must_reseed.
MutIgnoresFork(t) ==
  /\ pc[t] = "check"
  /\ newpid' = [newpid EXCEPT ![t] = 0]
  /\ \/ /\ bytes > Max
        /\ Goto(t, "seed1")
        /\ UNCHANGED <<lock, rc>>
     \/ /\ bytes <= Max
        /\ \E now \in Clock :
             IF Late(now) THEN Goto(t, "seed1") /\ UNCHANGED <<lock, rc>>
                          ELSE Ready(t)
  /\ UNCHANGED <<generator, proc, op, left, init, site, calls>>

Check(t) ==
  /\ pc[t] = "check"
  /\ \/ /\ bytes > Max
        /\ Goto(t, "seed1")
        /\ newpid' = [newpid EXCEPT ![t] = 0]
        /\ UNCHANGED <<lock, rc>>
     \/ /\ bytes <= Max
        /\ \E now \in Clock :
             \/ /\ Late(now)
                /\ Goto(t, "seed1")
                /\ newpid' = [newpid EXCEPT ![t] = 0]
                /\ UNCHANGED <<lock, rc>>
             \/ /\ ~Late(now) /\ pid # proc
                /\ Goto(t, "seed1")
                /\ newpid' = [newpid EXCEPT ![t] = proc]
                /\ UNCHANGED <<lock, rc>>
             \/ /\ ~Late(now) /\ pid = proc
                /\ newpid' = [newpid EXCEPT ![t] = 0]
                /\ Ready(t)
  /\ UNCHANGED <<generator, proc, op, left, init, site, calls>>

-----------------------------------------------------------------------------
(* lc_seed_seeded_rng.                                                     *)

\* The bookkeeping at its end.
Commit(t) ==
  /\ bytes' = 0
  /\ last' \in Clock
  /\ pid' = IF newpid[t] # 0 THEN newpid[t] ELSE pid
  /\ Ready(t)

\* Entropy is fetched and inserted; initially there is a second round.
MutOneSeed(t) ==
  /\ pc[t] = "seed1"
  /\ \/ /\ level' = IF level = 2 THEN 2 ELSE 1
        /\ origin' = proc
        /\ Commit(t)
     \/ /\ Faults \intersect {"entropy", "drbg"} # {}
        /\ Leave(t, "error")
        /\ UNCHANGED generator
  /\ UNCHANGED <<proc, frame, calls>>

Seed1(t) ==
  /\ pc[t] = "seed1"
  /\ \/ /\ level' = IF level = 2 THEN 2 ELSE 1
        /\ origin' = proc
        /\ IF init[t]
           THEN Goto(t, "seed2") /\ UNCHANGED <<bytes, last, pid, lock, rc>>
           ELSE Commit(t)
     \/ /\ Faults \intersect {"entropy", "drbg"} # {}
        /\ Leave(t, "error")
        /\ UNCHANGED generator
  /\ UNCHANGED <<proc, frame, calls>>

Seed2(t) ==
  /\ pc[t] = "seed2"
  /\ \/ /\ level' = 2
        /\ UNCHANGED origin
        /\ Commit(t)
     \/ /\ Faults \intersect {"entropy", "drbg"} # {}
        /\ Leave(t, "error")
        /\ UNCHANGED generator
  /\ UNCHANGED <<proc, frame, calls>>

-----------------------------------------------------------------------------
(* The second half of the operations.                                      *)

\* The lock is taken again.  lc_seeded_rng_seed and lc_seeded_rng_zero call
\* lc_seed_seeded_rng without looking whether a reseed is due.
Relock(t) ==
  /\ pc[t] = "gap"
  /\ Acquire(t)
  /\ init' = [init EXCEPT ![t] = FALSE]
  /\ newpid' = [newpid EXCEPT ![t] = 0]
  /\ IF op[t] = "generate"
     THEN Goto(t, "chunk") /\ site' = [site EXCEPT ![t] = "loop"]
     ELSE Goto(t, "seed1") /\ site' = [site EXCEPT ![t] = "user"]
  /\ UNCHANGED <<generator, proc, op, left, rc, calls>>

\* rng->bytes += todo, saturating.
Counted(n) == IF bytes + n > SizeMax THEN SizeMax ELSE bytes + n

MutWholeRequest(t) == left[t]

MutAlwaysFull(t) == Max

Todo(t) == IF Max < left[t] THEN Max ELSE left[t]

\* One turn of the loop of lc_seeded_rng_generate; a reseed check follows.
MutNoRecheck(t) ==
  /\ pc[t] = "chunk"
  /\ \/ /\ left[t] = 0
        /\ Leave(t, "ok")
        /\ UNCHANGED <<bytes, left>>
     \/ /\ left[t] # 0
        /\ bytes' = Counted(Todo(t))
        /\ left' = [left EXCEPT ![t] = @ - Todo(t)]
        /\ UNCHANGED <<lock, pc, rc>>
  /\ UNCHANGED <<level, origin, last, pid, proc, op, init, newpid, site,
                 calls>>

Chunk(t) ==
  /\ pc[t] = "chunk"
  /\ \/ /\ left[t] = 0
        /\ Leave(t, "ok")
        /\ UNCHANGED <<bytes, left>>
     \/ /\ left[t] # 0
        /\ bytes' = Counted(Todo(t))
        /\ left' = [left EXCEPT ![t] = @ - Todo(t)]
        /\ Goto(t, "check")
        /\ UNCHANGED <<lock, rc>>
     \/ /\ left[t] # 0 /\ "drbg" \in Faults
        /\ Leave(t, "error")
        /\ UNCHANGED <<bytes, left>>
  /\ UNCHANGED <<level, origin, last, pid, proc, op, init, newpid, site,
                 calls>>

\* lc_seeded_rng_seed: the data of the caller adds no entropy of its own.
Insert(t) ==
  /\ pc[t] = "insert"
  /\ Leave(t, "ok") \/ ("drbg" \in Faults /\ Leave(t, "error"))
  /\ UNCHANGED <<generator, proc, frame, calls>>

-----------------------------------------------------------------------------
\* lc_seeded_rng_zero_state, the destructor, in one stretch under the lock.
\* Other destructors may use the generator after it.
ZeroState(t) ==
  /\ t \in Destroyers /\ pc[t] = "idle"
  /\ Alone => \A u \in Thread : pc[u] \in {"idle", "gone"}
  /\ calls[t] < MaxCalls /\ calls' = [calls EXCEPT ![t] = @ + 1]
  /\ lock = Nobody
  /\ IF last # 0 THEN level' = 0 /\ origin' = 0 ELSE UNCHANGED <<level, origin>>
  /\ bytes' = Max + 1 /\ last' = 0 /\ pid' = 0
  /\ UNCHANGED <<lock, proc, pc, frame, rc>>

\* Environment: t forks and the model follows the child, a copy of the memory
\* with t as its only thread.
Fork(t) ==
  /\ pc[t] = "idle" /\ proc <= MaxForks
  /\ proc' = proc + 1
  /\ pc' = [u \in Thread |-> IF u = t THEN "idle" ELSE "gone"]
  /\ UNCHANGED <<lock, generator, frame, rc, calls>>

Step(t) ==
  \/ Get(t) \/ Setup(t) \/ Check(t) \/ Seed1(t) \/ Seed2(t)
  \/ Relock(t) \/ Chunk(t) \/ Insert(t)

Operation(t) ==
  \/ \E n \in Requests : Call(t, "generate", n)
  \/ \E o \in {"seed", "zero"} : Call(t, o, 0)
  \/ ZeroState(t) \/ Fork(t)

Next == \E t \in Thread : Step(t) \/ Operation(t)

Spec == Init /\ [][Next]_vars

\* A thread inside the generator keeps running.
FairSpec == Spec /\ \A t \in Thread : WF_vars(Step(t))

-----------------------------------------------------------------------------
(* Properties.                                                             *)

InLock == {"setup", "check", "seed1", "seed2", "chunk", "insert"}

\* Type invariant: the byte counter stays a size_t.
TypeOK ==
  /\ lock \in Thread \union {Nobody}
  /\ level \in 0..2 /\ origin \in Process \union {0}
  /\ bytes \in 0..SizeMax /\ last \in Int
  /\ pid \in Process \union {0} /\ proc \in Process
  /\ pc \in [Thread -> Labels] /\ op \in [Thread -> Ops]
  /\ left \in [Thread -> Nat]
  /\ init \in [Thread -> BOOLEAN]
  /\ newpid \in [Thread -> Process \union {0}]
  /\ site \in [Thread -> Sites]
  /\ rc \in [Thread -> {"ok", "error"}]
  /\ calls \in [Thread -> 0..MaxCalls]

\* Fork detection: no process produces output from a generator that it shares
\* with its parent, also if reseeds fail and are triggered for other reasons.
OwnStream == \A t \in Thread : pc[t] = "chunk" => origin = proc

\* seeded_rng.c:417: a thread generates from a generator "that is fully
\* seeded", that is with both seeds of its instantiation.
FullySeeded == \A t \in Thread : pc[t] = "chunk" => level = 2

\* seeded_rng.c:430-433: a generate call may exceed the limit, but "the next
\* generate call would surpass the given limit causes a forced reseeding": a
\* generator over its limit is used only after a reseed has failed, which the
\* thread whose reseed it was is told.
ForcedReseed ==
  (\A u \in Thread : rc[u] = "ok") =>
    \A t \in Thread : pc[t] = "chunk" => bytes <= Max

\* Whatever fails, the output since the last seed is bounded: each thread
\* that was past its reseed check adds at most one chunk.
OverrunBounded ==
  last # 0 => bytes <= Max + Max * Cardinality(Thread)

\* Every path of an operation, the failing ones included, releases the lock
\* (in a process that has not lost the holder by a fork).
LockReleased ==
  \A t \in Thread : lock = t /\ pc[t] # "gone" ~> lock # t \/ pc[t] = "gone"
=============================================================================
