------------------------------ MODULE RngProofs ------------------------------
(***************************************************************************)
(* Theorems about SeededRng for every number of threads, every limit,      *)
(* every number of forks and every set of failures, and about KdfRng for   *)
(* every digest size, every sequence of requests and every length of the   *)
(* output.  The blocks of a KDF's stream, the turns of a loop and the      *)
(* reference itself are recursive functions; what is proved about them is  *)
(* proved by induction over the natural numbers, which SetInduction states *)
(* for a set of numbers in place of a predicate.                           *)
(***************************************************************************)
EXTENDS SeededRng, KdfRng, WellFoundedInduction, FiniteSetTheorems, TLAPS

-----------------------------------------------------------------------------
(* The seeded generator.                                                   *)

LEMMA InitType == Init => TypeOK
  BY SizeAssumption, ThreadAssumption
     DEF SizeAssumption, Init, TypeOK, Process, Labels, Ops, Sites

\* What the byte counter and the remaining length become in one chunk.
LEMMA ChunkType ==
  ASSUME TypeOK, NEW t \in Thread, left[t] # 0
  PROVE  /\ Todo(t) \in Nat \ {0} /\ Todo(t) <= Max /\ Todo(t) <= left[t]
         /\ Counted(Todo(t)) \in 0..SizeMax
         /\ Counted(Todo(t)) <= bytes + Todo(t)
  <1>1. left[t] \in Nat /\ bytes \in 0..SizeMax
    BY DEF TypeOK
  <1>2. Todo(t) \in Nat \ {0} /\ Todo(t) <= Max /\ Todo(t) <= left[t]
    BY <1>1, SizeAssumption DEF SizeAssumption, Todo
  <1>. QED BY <1>1, <1>2, SizeAssumption DEF SizeAssumption, Counted

LEMMA ReadyType ==
  ASSUME TypeOK, NEW t \in Thread, Ready(t)
  PROVE  /\ lock' \in Thread \union {Nobody}
         /\ pc' \in [Thread -> Labels]
         /\ rc' \in [Thread -> {"ok", "error"}]
  BY DEF TypeOK, Ready, Leave, Release, Goto, Labels

LEMMA CommitType ==
  ASSUME TypeOK, NEW t \in Thread, Commit(t)
  PROVE  /\ bytes' \in 0..SizeMax /\ last' \in Int
         /\ pid' \in Process \union {0}
  BY SizeAssumption DEF SizeAssumption, TypeOK, Commit

LEMMA StepType ==
  ASSUME TypeOK, NEW t \in Thread, Step(t)
  PROVE  TypeOK'
  <1>. USE DEF Labels, Sites
  <1>1. CASE Get(t)
    BY <1>1 DEF TypeOK, Get, Acquire, Goto, generator
  <1>2. CASE Setup(t)
    <2>1. CASE Leave(t, "error") /\ UNCHANGED <<pid, init>>
      BY <1>2, <2>1 DEF TypeOK, Setup, Leave, Release, Goto
    <2>2. CASE /\ pid' = proc /\ init' = [init EXCEPT ![t] = TRUE]
               /\ Goto(t, "check") /\ UNCHANGED <<lock, rc>>
      BY <1>2, <2>2 DEF TypeOK, Setup, Goto
    <2>. QED BY <1>2, <2>1, <2>2 DEF Setup
  <1>3. CASE Check(t)
    <2>1. /\ lock' \in Thread \union {Nobody}
          /\ pc' \in [Thread -> Labels]
          /\ rc' \in [Thread -> {"ok", "error"}]
          /\ newpid' \in [Thread -> Process \union {0}]
      <3>1. CASE Ready(t) /\ newpid' = [newpid EXCEPT ![t] = 0]
        BY <3>1, ReadyType DEF TypeOK
      <3>2. CASE /\ Goto(t, "seed1") /\ UNCHANGED <<lock, rc>>
                 /\ \/ newpid' = [newpid EXCEPT ![t] = 0]
                    \/ newpid' = [newpid EXCEPT ![t] = proc]
        BY <3>2 DEF TypeOK, Goto
      <3>. QED BY <1>3, <3>1, <3>2 DEF Check
    <2>. QED BY <1>3, <2>1 DEF TypeOK, Check, generator
  <1>4. CASE Seed1(t)
    <2>1. CASE Leave(t, "error") /\ UNCHANGED generator
      BY <1>4, <2>1 DEF TypeOK, Seed1, Leave, Release, Goto, generator, frame
    <2>2. CASE /\ level' = (IF level = 2 THEN 2 ELSE 1) /\ origin' = proc
               /\ Goto(t, "seed2") /\ UNCHANGED <<bytes, last, pid, lock, rc>>
      BY <1>4, <2>2 DEF TypeOK, Seed1, Goto, frame
    <2>3. CASE /\ level' = (IF level = 2 THEN 2 ELSE 1) /\ origin' = proc
               /\ Commit(t)
      <3>1. Ready(t)
        BY <2>3 DEF Commit
      <3>. QED BY <1>4, <2>3, <3>1, CommitType, ReadyType DEF TypeOK, Seed1, frame
    <2>. QED BY <1>4, <2>1, <2>2, <2>3 DEF Seed1
  <1>5. CASE Seed2(t)
    <2>1. CASE Leave(t, "error") /\ UNCHANGED generator
      BY <1>5, <2>1 DEF TypeOK, Seed2, Leave, Release, Goto, generator, frame
    <2>2. CASE level' = 2 /\ UNCHANGED origin /\ Commit(t)
      <3>1. Ready(t)
        BY <2>2 DEF Commit
      <3>. QED BY <1>5, <2>2, <3>1, CommitType, ReadyType DEF TypeOK, Seed2, frame
    <2>. QED BY <1>5, <2>1, <2>2 DEF Seed2
  <1>6. CASE Relock(t)
    BY <1>6 DEF TypeOK, Relock, Acquire, Goto, generator
  <1>7. CASE Chunk(t)
    <2>1. CASE left[t] = 0
      BY <1>7, <2>1 DEF TypeOK, Chunk, Leave, Release, Goto
    <2>2. CASE left[t] # 0
      <3>1. left[t] - Todo(t) \in Nat /\ Counted(Todo(t)) \in 0..SizeMax
        BY <2>2, ChunkType DEF TypeOK
      <3>. QED BY <1>7, <2>2, <3>1 DEF TypeOK, Chunk, Leave, Release, Goto
    <2>. QED BY <2>1, <2>2
  <1>8. CASE Insert(t)
    BY <1>8 DEF TypeOK, Insert, Leave, Release, Goto, generator, frame
  <1>. QED BY <1>1, <1>2, <1>3, <1>4, <1>5, <1>6, <1>7, <1>8 DEF Step

LEMMA OperationType ==
  ASSUME TypeOK, NEW t \in Thread, Operation(t)
  PROVE  TypeOK'
  <1>. USE SizeAssumption DEF SizeAssumption, TypeOK, Labels
  <1>1. ASSUME NEW n \in Nat, NEW o \in Ops, Call(t, o, n) PROVE TypeOK'
    BY <1>1 DEF Call, Goto, generator
  <1>2. CASE ZeroState(t)
    BY <1>2 DEF ZeroState, frame
  <1>3. CASE Fork(t)
    BY <1>3 DEF Fork, Process, generator, frame
  <1>. QED BY <1>1, <1>2, <1>3 DEF Operation, Ops

\* The type invariant holds in every reachable state; in particular the byte
\* counter saturates and never leaves the range of a size_t.
THEOREM TypeCorrect == Spec => []TypeOK
  <1>1. TypeOK /\ [Next]_vars => TypeOK'
    <2>1. TypeOK /\ UNCHANGED vars => TypeOK'
      BY DEF vars, generator, frame, TypeOK
    <2>. QED BY <2>1, StepType, OperationType DEF Next
  <1>. QED BY <1>1, InitType, PTL DEF Spec

-----------------------------------------------------------------------------
(* The generator is used only if it is completely seeded, in this process, *)
(* and not over its limit.                                                 *)

\* The generator as its users find it.  Zero as the time of the last seed
\* means "never seeded".
GenOK ==
  /\ last # 0 => level = 2
  /\ bytes <= Max => last # 0
  /\ last # 0 /\ pid = proc => origin = proc
  /\ pid <= proc

\* What a thread may rely on at each of its control points.
Safe(t) ==
  /\ pc[t] \in InLock => lock = t
  /\ pc[t] = "setup" => last = 0 /\ site[t] = "get"
  /\ pc[t] \in {"check", "seed1", "seed2"} /\ init[t] => last = 0
  /\ pc[t] \in {"check", "seed1"} /\ ~init[t] => last # 0
  /\ pc[t] \in {"gap", "chunk", "insert"} => last # 0 /\ origin = proc
  /\ pc[t] = "chunk" => site[t] = "loop"
  /\ pc[t] \in InLock /\ site[t] = "loop" => ~init[t]
  /\ pc[t] = "seed2" => init[t] /\ origin = proc
  /\ pc[t] \in {"seed1", "seed2"} => newpid[t] \in {0, proc}

SafeInv == TypeOK /\ GenOK /\ \A t \in Thread : Safe(t)

\* The assumptions of the theorems: a clock that never reads 0, and a
\* destructor, if there is one, that runs beside no other use.
ClockRuns == 0 \notin Clock
DestroyedAlone == Destroyers = {} \/ Alone

\* Mutual exclusion: while one thread is in a section no other one takes or
\* leaves the lock, and a step of one thread is no step of another one.
LEMMA Exclusion ==
  ASSUME SafeInv, NEW t \in Thread, Step(t), NEW u \in Thread, u # t
  PROVE  /\ pc[u] \notin InLock /\ lock # u
         /\ pc'[u] = pc[u] /\ rc'[u] = rc[u]
  <1>1. (pc[t] \in InLock /\ lock = t) \/ lock = Nobody
    BY DEF Step, Get, Setup, Check, Seed1, Seed2, Relock, Chunk, Insert, Acquire,
           InLock, SafeInv, Safe
  <1>2. pc[u] \notin InLock /\ lock # u
    BY <1>1, ThreadAssumption DEF SafeInv, Safe, ThreadAssumption
  <1>3. UNCHANGED pc \/ \E l \in Labels : Goto(t, l)
    <2>. USE DEF Leave, Ready, Commit, Labels
    <2>1. CASE Get(t) \/ Setup(t) \/ Relock(t) \/ Chunk(t) \/ Insert(t)
      BY <2>1 DEF Get, Setup, Relock, Chunk, Insert
    <2>2. CASE Check(t)
      BY <2>2 DEF Check
    <2>3. CASE Seed1(t)
      BY <2>3 DEF Seed1
    <2>4. CASE Seed2(t)
      BY <2>4 DEF Seed2
    <2>. QED BY <2>1, <2>2, <2>3, <2>4 DEF Step
  <1>4. UNCHANGED rc \/ \E r \in {"ok", "error"} : rc' = [rc EXCEPT ![t] = r]
    <2>. USE DEF Leave, Ready, Commit
    <2>1. CASE Get(t) \/ Setup(t) \/ Relock(t) \/ Chunk(t) \/ Insert(t)
      BY <2>1 DEF Get, Setup, Relock, Chunk, Insert
    <2>2. CASE Check(t)
      BY <2>2 DEF Check
    <2>3. CASE Seed1(t)
      BY <2>3 DEF Seed1
    <2>4. CASE Seed2(t)
      BY <2>4 DEF Seed2
    <2>. QED BY <2>1, <2>2, <2>3, <2>4 DEF Step
  <1>. QED BY <1>2, <1>3, <1>4 DEF Goto, SafeInv, TypeOK

\* A generator in use stays in use: a step sets it up again only if it has
\* never been seeded, and moves it to no other process.
LEMMA SeededStays ==
  ASSUME SafeInv, ClockRuns, NEW t \in Thread, Step(t), last # 0
  PROVE  last' # 0 /\ (origin = proc => origin' = proc')
  <1>. USE DEF generator, Commit
  <1>1. CASE Get(t) \/ Check(t) \/ Relock(t) \/ Chunk(t) \/ Insert(t)
    BY <1>1 DEF Get, Check, Relock, Chunk, Insert
  <1>2. CASE Setup(t)
    BY <1>2 DEF Setup, SafeInv, Safe
  <1>3. CASE Seed1(t) \/ Seed2(t)
    BY <1>3 DEF Seed1, Seed2, ClockRuns
  <1>. QED BY <1>1, <1>2, <1>3 DEF Step

\* The bookkeeping of a successful seed, and where the thread goes from there.
LEMMA CommitSafe ==
  ASSUME SafeInv, TypeOK', ClockRuns, NEW t \in Thread, Commit(t), level' = 2,
         origin' = proc, pc[t] \in {"seed1", "seed2"}, newpid[t] \in {0, proc}, lock = t,
         UNCHANGED <<proc, frame>>
  PROVE  GenOK' /\ Safe(t)'
  <1>1. last' # 0 /\ pid' <= proc' /\ bytes' = 0
    BY DEF Commit, ClockRuns, SafeInv, GenOK, TypeOK, Process
  <1>2. GenOK'
    BY <1>1 DEF GenOK
  <1>3. \/ pc'[t] \in {"gap", "idle"}
        \/ pc'[t] = "chunk" /\ site[t] = "loop" /\ lock' = t
        \/ pc'[t] = "insert" /\ lock' = t /\ site[t] = "user"
    BY DEF Commit, Ready, Leave, Goto, SafeInv, TypeOK
  <1>4. site[t] = "loop" => ~init[t]
    BY DEF SafeInv, Safe, InLock
  <1>5. site' = site /\ init' = init
    BY DEF frame
  <1>6. Safe(t)'
    BY <1>1, <1>3, <1>4, <1>5 DEF Safe, InLock
  <1>. QED BY <1>2, <1>6

\* One case per step inside a call: the generator stays in order, and the
\* thread finds what it relies on at the point it moves to.
LEMMA StepSafe ==
  ASSUME SafeInv, TypeOK', ClockRuns, NEW t \in Thread, Step(t)
  PROVE  GenOK' /\ Safe(t)'
  <1>. USE DEF SafeInv, Safe, InLock, Goto
  <1>1. CASE Get(t)
    BY <1>1 DEF Get, Acquire, TypeOK, GenOK, generator
  <1>2. CASE Setup(t)
    <2>1. last = 0 /\ last' = 0 /\ bytes' = bytes /\ proc' = proc
      BY <1>2 DEF Setup
    <2>2. pid' <= proc'
      BY <1>2, <2>1 DEF Setup, GenOK, TypeOK, Process
    <2>3. GenOK'
      BY <2>1, <2>2 DEF GenOK
    <2>4. Safe(t)'
      <3>1. CASE Leave(t, "error")
        BY <1>2, <2>1, <3>1 DEF Setup, Leave, TypeOK
      <3>2. CASE /\ init' = [init EXCEPT ![t] = TRUE]
                 /\ Goto(t, "check") /\ UNCHANGED <<lock, rc>>
        BY <1>2, <2>1, <3>2 DEF Setup, TypeOK
      <3>. QED BY <1>2, <3>1, <3>2 DEF Setup
    <2>. QED BY <2>3, <2>4
  <1>3. CASE Check(t)
    <2>1. GenOK'
      BY <1>3 DEF Check, GenOK, generator
    <2>2. CASE Goto(t, "seed1") /\ UNCHANGED lock
      <3>1. newpid'[t] \in {0, proc}
        BY <1>3, <2>2 DEF Check, TypeOK
      <3>2. UNCHANGED <<lock, last, origin, proc, site, init>>
        BY <1>3, <2>2 DEF Check, generator
      <3>3. pc'[t] = "seed1" /\ pc[t] = "check"
        BY <1>3, <2>2 DEF Check, TypeOK
      <3>4. Safe(t)'
        BY <3>1, <3>2, <3>3
      <3>. QED BY <2>1, <3>4
    <2>3. CASE Ready(t) /\ bytes <= Max /\ pid = proc
      <3>1. last # 0 /\ origin = proc
        BY <2>3 DEF GenOK
      <3>2. \/ pc'[t] \in {"gap", "idle"}
            \/ pc'[t] = "chunk" /\ site[t] = "loop" /\ lock' = t
            \/ pc'[t] = "insert" /\ lock' = t
        BY <1>3, <2>3 DEF Check, Ready, Leave, TypeOK
      <3>3. UNCHANGED <<last, origin, proc, site, init>>
        BY <1>3 DEF Check, generator
      <3>. QED BY <1>3, <2>1, <3>1, <3>2, <3>3 DEF Check
    <2>. QED BY <1>3, <2>1, <2>2, <2>3 DEF Check
  <1>4. CASE Seed1(t)
    <2>1. CASE Leave(t, "error") /\ UNCHANGED generator
      BY <1>4, <2>1 DEF Seed1, Leave, GenOK, TypeOK, generator
    <2>2. CASE /\ init[t] /\ Goto(t, "seed2") /\ origin' = proc
               /\ UNCHANGED <<bytes, last, pid, lock, rc>>
      BY <1>4, <2>2 DEF Seed1, GenOK, TypeOK, frame
    <2>3. CASE ~init[t] /\ Commit(t) /\ origin' = proc
      <3>1. level' = 2
        BY <1>4, <2>3 DEF Seed1, GenOK, generator
      <3>2. /\ pc[t] = "seed1" /\ lock = t /\ newpid[t] \in {0, proc}
            /\ UNCHANGED <<proc, frame>>
        BY <1>4 DEF Seed1
      <3>. QED BY <2>3, <3>1, <3>2, CommitSafe
    <2>. QED BY <1>4, <2>1, <2>2, <2>3 DEF Seed1
  <1>5. CASE Seed2(t)
    <2>1. CASE Leave(t, "error") /\ UNCHANGED generator
      BY <1>5, <2>1 DEF Seed2, Leave, GenOK, TypeOK, generator
    <2>2. CASE level' = 2 /\ UNCHANGED origin /\ Commit(t)
      BY <1>5, <2>2, CommitSafe DEF Seed2
    <2>. QED BY <1>5, <2>1, <2>2 DEF Seed2
  <1>6. CASE Relock(t)
    BY <1>6 DEF Relock, Acquire, TypeOK, GenOK, generator
  <1>7. CASE Chunk(t)
    <2>1. last # 0 /\ UNCHANGED <<level, origin, last, pid, proc>>
      BY <1>7 DEF Chunk
    <2>2. GenOK'
      BY <2>1 DEF GenOK
    <2>3. Safe(t)'
      BY <1>7, <2>1 DEF Chunk, Leave, TypeOK
    <2>. QED BY <2>2, <2>3
  <1>8. CASE Insert(t)
    BY <1>8 DEF Insert, Leave, TypeOK, GenOK, generator, frame
  <1>. QED BY <1>1, <1>2, <1>3, <1>4, <1>5, <1>6, <1>7, <1>8 DEF Step

\* Beginning a call changes nothing the others rely on; the destructor leaves
\* an unseeded generator behind and nobody who took it for a seeded one; after
\* a fork the caller is the only thread and finds the generator of its parent.
LEMMA OperationSafe ==
  ASSUME SafeInv, DestroyedAlone, NEW t \in Thread, Operation(t)
  PROVE  GenOK' /\ \A u \in Thread : Safe(u)'
  <1>. USE DEF SafeInv, Safe, InLock, TypeOK
  <1>1. ASSUME NEW n \in Nat, NEW o \in Ops, Call(t, o, n)
        PROVE  GenOK' /\ \A u \in Thread : Safe(u)'
    BY <1>1 DEF Call, Goto, GenOK, generator
  <1>2. CASE ZeroState(t)
    <2>1. last' = 0 /\ bytes' = Max + 1 /\ pid' = 0 /\ UNCHANGED <<proc, pc>>
      BY <1>2 DEF ZeroState
    <2>2. GenOK'
      BY <2>1, SizeAssumption DEF GenOK, Process, SizeAssumption
    <2>3. ASSUME NEW u \in Thread PROVE pc[u] \in {"idle", "gone"}
      BY <1>2, <2>3 DEF ZeroState, DestroyedAlone
    <2>. QED BY <2>1, <2>2, <2>3
  <1>3. CASE Fork(t)
    BY <1>3 DEF Fork, Process, GenOK, generator, frame
  <1>. QED BY <1>1, <1>2, <1>3, SizeAssumption DEF Operation, Ops, SizeAssumption

LEMMA SafeInvInit == Init => SafeInv
  <1>1. Init => GenOK /\ \A t \in Thread : Safe(t)
    BY SizeAssumption DEF SizeAssumption, Init, GenOK, Safe, InLock
  <1>. QED BY <1>1, InitType DEF SafeInv

LEMMA SafeInvNext ==
  ASSUME ClockRuns, DestroyedAlone
  PROVE  SafeInv /\ [Next]_vars => SafeInv'
  <1>. SUFFICES ASSUME SafeInv, [Next]_vars PROVE SafeInv'
    OBVIOUS
  <1>1. CASE UNCHANGED vars
    BY <1>1 DEF vars, generator, frame, SafeInv, TypeOK, GenOK, Safe
  <1>2. ASSUME NEW t \in Thread, Operation(t) PROVE SafeInv'
    BY <1>2, OperationType, OperationSafe DEF SafeInv
  <1>3. ASSUME NEW t \in Thread, Step(t) PROVE SafeInv'
    <2>1. TypeOK'
      BY <1>3, StepType DEF SafeInv
    <2>2. GenOK' /\ Safe(t)'
      BY <1>3, <2>1, StepSafe
    <2>3. ASSUME NEW u \in Thread, u # t PROVE Safe(u)'
      <3>1. pc[u] \notin InLock /\ pc'[u] = pc[u]
        BY <1>3, <2>3, Exclusion
      <3>2. pc[u] = "gap" => last' # 0 /\ origin' = proc'
        BY <1>3, SeededStays DEF SafeInv, Safe
      <3>. QED BY <3>1, <3>2 DEF Safe, InLock
    <2>. QED BY <2>1, <2>2, <2>3 DEF SafeInv
  <1>. QED BY <1>1, <1>2, <1>3 DEF Next

\* FullySeeded for every number of threads, limits and failures: where the
\* clock runs and the generator is not used after the destructor, output comes
\* only from a generator that has received both seeds of its instantiation.
THEOREM OutputIsSeeded ==
  ASSUME ClockRuns, DestroyedAlone
  PROVE  Spec => []FullySeeded
  <1>1. SafeInv => FullySeeded
    BY DEF SafeInv, Safe, GenOK, FullySeeded
  <1>. QED BY <1>1, SafeInvInit, SafeInvNext, PTL DEF Spec

\* OwnStream for every number of threads and forks: no process produces output
\* from the generator of its parent before it has been reseeded.
THEOREM ForkIsNoticed ==
  ASSUME ClockRuns, DestroyedAlone
  PROVE  Spec => []OwnStream
  <1>1. SafeInv => OwnStream
    BY DEF SafeInv, Safe, OwnStream
  <1>. QED BY <1>1, SafeInvInit, SafeInvNext, PTL DEF Spec

-----------------------------------------------------------------------------
(* The byte limit.                                                         *)

\* Who answers for a generator over its limit: a thread that is about to
\* reseed it under the lock, or one whose reseed failed and that has not
\* passed a check since.  A thread lost in a fork may be either.
Blamed(u) ==
  \/ lock = u /\ pc[u] \in {"check", "seed1", "gone"}
  \/ rc[u] = "error" /\ pc[u] \in {"idle", "get", "gone"}

Blame == last # 0 /\ bytes > Max => \E u \in Thread : Blamed(u)

\* Only the thread itself takes the blame from it.
LEMMA BlameStays ==
  ASSUME SafeInv, NEW t \in Thread, Step(t), NEW u \in Thread, u # t,
         Blamed(u)
  PROVE  Blamed(u)'
  BY Exclusion DEF Blamed

LEMMA StepBlame ==
  ASSUME SafeInv, Blame, NEW t \in Thread, Step(t)
  PROVE  Blame'
  <1>. SUFFICES ASSUME last' # 0, bytes' > Max
                PROVE  \E u \in Thread : Blamed(u)'
    BY DEF Blame
  <1>. USE DEF Goto
  <1>t. TypeOK /\ Safe(t)
    BY DEF SafeInv
  \* Where t neither leads to a reseed nor changes the generator, the thread
  \* to blame is another one and remains so.
  <1>0. ASSUME UNCHANGED <<last, bytes>>, ~Blamed(t)
        PROVE  \E u \in Thread : Blamed(u)'
    BY <1>0, BlameStays DEF Blame
  <1>1. CASE Get(t)
    <2>1. UNCHANGED <<last, bytes>> /\ lock' = t /\ pc'[t] = "check"
      BY <1>1, <1>t DEF Get, Acquire, TypeOK, generator
    <2>. QED BY <2>1 DEF Blamed
  <1>2. CASE Setup(t)
    BY <1>2, <1>t DEF Setup, Safe
  <1>3. CASE Check(t)
    <2>1. UNCHANGED <<last, bytes>> /\ bytes > Max
      BY <1>3 DEF Check, generator
    <2>2. lock' = t /\ pc'[t] = "seed1"
      BY <1>3, <1>t, <2>1, SizeAssumption
         DEF Check, Safe, InLock, TypeOK, SizeAssumption
    <2>. QED BY <2>2 DEF Blamed
  <1>4. CASE Seed1(t) \/ Seed2(t)
    <2>1. ~Commit(t)
      BY SizeAssumption DEF Commit, SizeAssumption
    <2>2. CASE Leave(t, "error")
      <3>1. rc'[t] = "error" /\ pc'[t] = "idle"
        BY <2>2, <1>t DEF Leave, TypeOK
      <3>. QED BY <3>1 DEF Blamed
    <2>3. CASE init[t] /\ pc[t] = "seed1" /\ UNCHANGED last
      BY <2>3, <1>t DEF Safe
    <2>. QED BY <1>4, <2>1, <2>2, <2>3 DEF Seed1, Seed2
  <1>5. CASE Relock(t)
    BY <1>0, <1>5, ThreadAssumption
       DEF Relock, Blamed, Acquire, generator, ThreadAssumption
  <1>6. CASE Chunk(t)
    <2>1. CASE left[t] = 0
      BY <1>0, <1>6, <2>1 DEF Chunk, Blamed
    <2>2. CASE Goto(t, "check") /\ UNCHANGED lock
      BY <1>6, <2>2, <1>t DEF Chunk, Blamed, Safe, InLock, TypeOK
    <2>3. CASE Leave(t, "error")
      BY <2>3, <1>t DEF Leave, Blamed, TypeOK
    <2>. QED BY <1>6, <2>1, <2>2, <2>3 DEF Chunk
  <1>7. CASE Insert(t)
    BY <1>0, <1>7 DEF Insert, Blamed, generator
  <1>. QED BY <1>1, <1>2, <1>3, <1>4, <1>5, <1>6, <1>7 DEF Step

LEMMA OperationBlame ==
  ASSUME SafeInv, Blame, DestroyedAlone, NEW t \in Thread, Operation(t)
  PROVE  Blame'
  <1>. USE DEF Blame, Blamed, SafeInv, TypeOK
  <1>1. ASSUME NEW n \in Nat, NEW o \in Ops, Call(t, o, n) PROVE Blame'
    BY <1>1 DEF Call, Goto, generator
  <1>2. CASE ZeroState(t)
    BY <1>2 DEF ZeroState, DestroyedAlone
  <1>3. CASE Fork(t)
    BY <1>3 DEF Fork, generator
  <1>. QED BY <1>1, <1>2, <1>3, SizeAssumption DEF Operation, Ops, SizeAssumption

\* ForcedReseed for every number of threads, limits and failures: the check
\* of a thread may be outdated when it generates, but over the limit only if
\* the thread that went over it could not reseed.
THEOREM LimitForcesReseed ==
  ASSUME ClockRuns, DestroyedAlone
  PROVE  Spec => []ForcedReseed
  <1>1. Init => Blame
    BY DEF Init, Blame
  <1>2. SafeInv /\ Blame /\ [Next]_vars => Blame'
    <2>1. SafeInv /\ Blame /\ UNCHANGED vars => Blame'
      BY DEF vars, generator, Blame, Blamed
    <2>. QED BY <2>1, StepBlame, OperationBlame DEF Next
  <1>3. SafeInv /\ Blame => ForcedReseed
    <2>. SUFFICES ASSUME SafeInv, Blame, \A u \in Thread : rc[u] = "ok",
                         NEW t \in Thread, pc[t] = "chunk", bytes > Max
                  PROVE  FALSE
      BY SizeAssumption DEF SafeInv, TypeOK, ForcedReseed, SizeAssumption
    <2>1. last # 0 /\ lock = t
      BY DEF SafeInv, Safe, InLock
    <2>. QED BY <2>1 DEF Blame, Blamed
  <1>. QED BY <1>1, <1>2, <1>3, SafeInvInit, SafeInvNext, PTL DEF Spec

\* The threads past their check: each may add one chunk before the next one.
Past == {u \in Thread : pc[u] \in {"gap", "chunk"}}

Budget ==
  last # 0 =>
    bytes + Max * Cardinality(Past) <= Max + Max * Cardinality(Thread)

LEMMA Scaled ==
  ASSUME NEW a \in Nat, NEW b \in Nat, a <= b
  PROVE  Max * a <= Max * b /\ Max * a \in Nat /\ Max * b \in Nat
  BY SizeAssumption DEF SizeAssumption

LEMMA PastCount ==
  ASSUME IsFiniteSet(Thread), NEW S \in SUBSET Thread
  PROVE  /\ IsFiniteSet(S) /\ Cardinality(S) \in Nat
         /\ Cardinality(Thread) \in Nat
         /\ Max * Cardinality(S) <= Max * Cardinality(Thread)
         /\ Max * Cardinality(S) \in Nat /\ Max * Cardinality(Thread) \in Nat
  <1>1. /\ IsFiniteSet(S) /\ Cardinality(S) <= Cardinality(Thread)
        /\ Cardinality(S) \in Nat /\ Cardinality(Thread) \in Nat
    BY FS_Subset, FS_CardinalityType
  <1>. QED BY <1>1, Scaled

\* After a seed or a check every thread may be past its check again.
LEMMA BudgetRenewed ==
  ASSUME TypeOK', IsFiniteSet(Thread), bytes' <= Max
  PROVE  Budget'
  <1>1. Past' \in SUBSET Thread
    BY DEF Past
  <1>2. bytes' \in Nat /\ Max \in Nat
    BY SizeAssumption DEF TypeOK, SizeAssumption
  <1>3. /\ Max * Cardinality(Past') <= Max * Cardinality(Thread)
        /\ Max * Cardinality(Past') \in Nat
        /\ Max * Cardinality(Thread) \in Nat
    BY <1>1, PastCount
  <1>4. bytes' + Max * Cardinality(Past') <= Max + Max * Cardinality(Thread)
    BY <1>2, <1>3
  <1>. QED BY <1>4 DEF Budget

\* Without output no thread comes to be past its check.
LEMMA BudgetKept ==
  ASSUME TypeOK, IsFiniteSet(Thread), Budget, last' # 0 => last # 0,
         bytes' = bytes, Past' \subseteq Past
  PROVE  Budget'
  <1>. SUFFICES ASSUME last # 0 PROVE Budget'
    BY DEF Budget
  <1>1. Past \in SUBSET Thread /\ Past' \in SUBSET Thread
    BY DEF Past
  <1>2. Cardinality(Past') <= Cardinality(Past)
    BY <1>1, PastCount, FS_Subset
  <1>3. Cardinality(Past') \in Nat /\ Cardinality(Past) \in Nat
    BY <1>1, PastCount
  <1>4. /\ Max * Cardinality(Past') <= Max * Cardinality(Past)
        /\ Max * Cardinality(Past') \in Nat /\ Max * Cardinality(Past) \in Nat
    BY <1>2, <1>3, Scaled
  <1>5. bytes \in Nat /\ Max \in Nat /\ Max * Cardinality(Thread) \in Nat
    BY <1>1, PastCount, SizeAssumption DEF TypeOK, SizeAssumption
  <1>6. bytes + Max * Cardinality(Past) <= Max + Max * Cardinality(Thread)
    BY DEF Budget
  <1>7. bytes' + Max * Cardinality(Past') <= Max + Max * Cardinality(Thread)
    BY <1>4, <1>5, <1>6
  <1>. QED BY <1>7 DEF Budget

\* A chunk is what a thread adds when it goes to its next check.
LEMMA BudgetSpent ==
  ASSUME TypeOK, IsFiniteSet(Thread), Budget, NEW t \in Past, last # 0,
         bytes' <= bytes + Max, bytes' \in Nat, Past' \subseteq Past \ {t}
  PROVE  Budget'
  <1>1. Past \in SUBSET Thread /\ Past' \in SUBSET Thread
    BY DEF Past
  <1>2. IsFiniteSet(Past) /\ IsFiniteSet(Past \ {t})
    BY <1>1, PastCount, FS_RemoveElement
  <1>3. Cardinality(Past \ {t}) = Cardinality(Past) - 1
    BY <1>2, FS_RemoveElement
  <1>4. Cardinality(Past') <= Cardinality(Past) - 1
    BY <1>2, <1>3, FS_Subset
  <1>5. Cardinality(Past') \in Nat /\ Cardinality(Past) \in Nat
    BY <1>1, PastCount
  <1>6. Max * (Cardinality(Past) - 1) = Max * Cardinality(Past) - Max
    BY <1>5, SizeAssumption DEF SizeAssumption
  <1>7. Cardinality(Past) - 1 \in Nat
    BY <1>4, <1>5
  <1>8. Max * Cardinality(Past') <= Max * (Cardinality(Past) - 1)
    BY <1>4, <1>5, <1>7, Scaled
  <1>9. /\ bytes \in Nat /\ Max \in Nat /\ Max * Cardinality(Thread) \in Nat
        /\ Max * Cardinality(Past) \in Nat /\ Max * Cardinality(Past') \in Nat
    BY <1>1, PastCount, SizeAssumption DEF TypeOK, SizeAssumption
  <1>10. bytes + Max * Cardinality(Past) <= Max + Max * Cardinality(Thread)
    BY DEF Budget
  <1>11. bytes' + Max * Cardinality(Past') <= Max + Max * Cardinality(Thread)
    BY <1>6, <1>8, <1>9, <1>10
  <1>. QED BY <1>11 DEF Budget

LEMMA StepBudget ==
  ASSUME SafeInv, TypeOK', Budget, IsFiniteSet(Thread), NEW t \in Thread,
         Step(t)
  PROVE  Budget'
  <1>t. TypeOK /\ Safe(t)
    BY DEF SafeInv
  <1>0. ASSUME pc'[t] \notin {"gap", "chunk"} \/ pc[t] \in {"gap", "chunk"}
        PROVE  Past' \subseteq Past
    BY <1>0, Exclusion DEF Past
  <1>. USE DEF Goto
  <1>1. CASE Get(t) \/ Relock(t) \/ Insert(t)
    <2>1. UNCHANGED <<last, bytes>>
      BY <1>1 DEF Get, Relock, Insert, generator
    <2>2. pc'[t] \notin {"gap", "chunk"} \/ pc[t] \in {"gap", "chunk"}
      BY <1>1, <1>t DEF Get, Relock, Insert, Leave, TypeOK
    <2>. QED BY <2>1, <2>2, <1>0, <1>t, BudgetKept
  <1>2. CASE Setup(t)
    <2>1. last' = 0
      BY <1>2, <1>t DEF Setup, Safe
    <2>. QED BY <2>1 DEF Budget
  <1>3. CASE Check(t)
    <2>1. CASE bytes <= Max
      BY <1>3, <2>1, BudgetRenewed DEF Check, generator
    <2>2. CASE Goto(t, "seed1")
      <3>1. UNCHANGED <<last, bytes>> /\ pc'[t] = "seed1"
        BY <1>3, <2>2, <1>t DEF Check, generator, TypeOK
      <3>. QED BY <3>1, <1>0, <1>t, BudgetKept
    <2>. QED BY <1>3, <2>1, <2>2 DEF Check
  <1>4. CASE Seed1(t) \/ Seed2(t)
    <2>1. CASE Commit(t)
      <3>1. bytes' = 0
        BY <2>1 DEF Commit
      <3>. QED BY <3>1, BudgetRenewed, SizeAssumption DEF SizeAssumption
    <2>2. CASE /\ Leave(t, "error") \/ Goto(t, "seed2")
               /\ UNCHANGED <<last, bytes>>
      <3>1. pc'[t] \in {"idle", "seed2"}
        BY <2>2, <1>t DEF Leave, TypeOK
      <3>. QED BY <2>2, <3>1, <1>0, <1>t, BudgetKept
    <2>. QED BY <1>4, <2>1, <2>2 DEF Seed1, Seed2, generator
  <1>5. CASE Chunk(t)
    <2>1. CASE UNCHANGED bytes
      <3>1. UNCHANGED last /\ pc[t] = "chunk"
        BY <1>5 DEF Chunk
      <3>. QED BY <2>1, <3>1, <1>0, <1>t, BudgetKept
    <2>2. CASE left[t] # 0 /\ bytes' = Counted(Todo(t)) /\ Goto(t, "check")
      <3>1. pc[t] = "chunk" /\ last # 0
        BY <1>5, <1>t DEF Chunk, Safe
      <3>2. bytes' \in Nat /\ bytes' <= bytes + Max
        BY <2>2, <1>t, ChunkType, SizeAssumption DEF SizeAssumption, TypeOK
      <3>3. t \in Past /\ Past' \subseteq Past \ {t}
        <4>1. pc'[t] = "check" /\ t \in Past
          BY <2>2, <3>1, <1>t DEF TypeOK, Past
        <4>. QED BY <4>1, <3>1, <1>0 DEF Past
      <3>. QED BY <3>1, <3>2, <3>3, <1>t, BudgetSpent
    <2>. QED BY <1>5, <2>1, <2>2 DEF Chunk
  <1>. QED BY <1>1, <1>2, <1>3, <1>4, <1>5 DEF Step

LEMMA OperationBudget ==
  ASSUME SafeInv, Budget, DestroyedAlone, IsFiniteSet(Thread),
         NEW t \in Thread, Operation(t)
  PROVE  Budget'
  <1>1. CASE ZeroState(t)
    BY <1>1 DEF ZeroState, Budget
  <1>2. ASSUME ~ZeroState(t)
        PROVE  UNCHANGED <<last, bytes>> /\ Past' \subseteq Past
    <2>. USE DEF Past, SafeInv, TypeOK
    <2>1. ASSUME NEW n \in Nat, NEW o \in Ops, Call(t, o, n)
          PROVE  UNCHANGED <<last, bytes>> /\ Past' \subseteq Past
      BY <2>1 DEF Call, Goto, generator
    <2>2. CASE Fork(t)
      BY <2>2 DEF Fork, generator
    <2>. QED BY <1>2, <2>1, <2>2, SizeAssumption
             DEF Operation, Ops, SizeAssumption
  <1>. QED BY <1>1, <1>2, BudgetKept DEF SafeInv

\* OverrunBounded for every finite number of threads: whatever fails, between
\* two seeds the output exceeds the limit by at most one chunk per thread.
THEOREM OutputIsBounded ==
  ASSUME ClockRuns, DestroyedAlone, IsFiniteSet(Thread)
  PROVE  Spec => []OverrunBounded
  <1>1. Init => Budget
    BY DEF Init, Budget
  <1>2. SafeInv /\ SafeInv' /\ Budget /\ [Next]_vars => Budget'
    <2>1. Budget /\ UNCHANGED vars => Budget'
      BY DEF vars, generator, Budget, Past
    <2>. QED BY <2>1, StepBudget, OperationBudget DEF Next, SafeInv
  <1>3. SafeInv /\ Budget => OverrunBounded
    <2>. SUFFICES ASSUME SafeInv, Budget, last # 0
                  PROVE  bytes <= Max + Max * Cardinality(Thread)
      BY DEF OverrunBounded
    <2>1. /\ Max * Cardinality(Past) \in Nat
          /\ Max * Cardinality(Thread) \in Nat
      BY PastCount DEF Past
    <2>. QED BY <2>1, SizeAssumption
             DEF Budget, SafeInv, TypeOK, SizeAssumption
  <1>. QED BY <1>1, <1>2, <1>3, SafeInvInit, SafeInvNext, PTL DEF Spec

-----------------------------------------------------------------------------
(* HKDF and the counter KDF as generators.                                 *)

LEMMA SetInduction ==
  ASSUME NEW S, 0 \in S, \A n \in Nat : n \in S => n + 1 \in S
  PROVE  \A n \in Nat : n \in S
  <1>. DEFINE T == Nat \ S
              R == OpToRel(<, Nat)
  <1>. SUFFICES ASSUME T # {} PROVE FALSE
    OBVIOUS
  <1>1. IsWellFoundedOn(R, Nat)
    BY NatLessThanWellFounded DEF OpToRel
  <1>2. \A m, n \in Nat : m < n => <<m, n>> \in R
    BY DEF OpToRel
  <1>. HIDE DEF R
  <1>3. PICK n \in T : \A m \in T : ~ (<<m, n>> \in R)
    BY <1>1, WFMin
  <1>4. n # 0 /\ n - 1 \in Nat /\ n - 1 < n
    BY <1>3
  <1>5. n - 1 \notin T
    BY <1>2, <1>3, <1>4
  <1>. QED BY <1>3, <1>4, <1>5

-----------------------------------------------------------------------------
(* Recursive functions.                                                    *)

LEMMA ExpandingTurns ==
  ASSUME NEW e, NEW a, NEW n \in Nat
  PROVE  /\ Expanding(e, a, n)[0] = e
         /\ \A i \in 1..n :
              Expanding(e, a, n)[i] = ExpandBlock(Expanding(e, a, n)[i - 1], a)
  <1>. DEFINE IsLoop(f, m) ==
                f = [i \in 0..m |-> IF i = 0 THEN e ELSE ExpandBlock(f[i - 1], a)]
              S == {m \in Nat : \E f : IsLoop(f, m)}
  <1>1. 0 \in S
    <2>1. IsLoop([i \in 0..0 |-> e], 0)
      OBVIOUS
    <2>. QED BY <2>1
  <1>2. ASSUME NEW m \in Nat, m \in S PROVE m + 1 \in S
    <2>1. PICK f : IsLoop(f, m)
      BY <1>2
    <2>. DEFINE g == [i \in 0..(m + 1) |-> IF i <= m THEN f[i]
                                         ELSE ExpandBlock(f[m], a)]
    <2>. HIDE DEF IsLoop
    <2>2. \A i \in 0..(m + 1) :
            g[i] = IF i = 0 THEN e ELSE ExpandBlock(g[i - 1], a)
      <3>1. \A i \in 0..m : f[i] = IF i = 0 THEN e ELSE ExpandBlock(f[i - 1], a)
        BY <2>1 DEF IsLoop
      <3>. QED BY <3>1
    <2>3. IsLoop(g, m + 1)
      BY <2>2 DEF IsLoop
    <2>. QED BY <2>3
  <1>3. \E f : IsLoop(f, n)
    <2>. HIDE DEF S
    <2>1. n \in S
      BY <1>1, <1>2, SetInduction
    <2>. QED BY <2>1 DEF S
  <1>4. IsLoop(Expanding(e, a, n), n)
    BY <1>3 DEF Expanding
  <1>. QED BY <1>4

LEMMA CtrExpandingTurns ==
  ASSUME NEW e, NEW a, NEW n \in Nat
  PROVE  /\ CtrExpanding(e, a, n)[0] = e
         /\ \A i \in 1..n :
              CtrExpanding(e, a, n)[i] = CtrBlock(CtrExpanding(e, a, n)[i - 1], a)
  <1>. DEFINE IsLoop(f, m) ==
                f = [i \in 0..m |-> IF i = 0 THEN e ELSE CtrBlock(f[i - 1], a)]
              S == {m \in Nat : \E f : IsLoop(f, m)}
  <1>1. 0 \in S
    <2>1. IsLoop([i \in 0..0 |-> e], 0)
      OBVIOUS
    <2>. QED BY <2>1
  <1>2. ASSUME NEW m \in Nat, m \in S PROVE m + 1 \in S
    <2>1. PICK f : IsLoop(f, m)
      BY <1>2
    <2>. DEFINE g == [i \in 0..(m + 1) |-> IF i <= m THEN f[i]
                                         ELSE CtrBlock(f[m], a)]
    <2>. HIDE DEF IsLoop
    <2>2. \A i \in 0..(m + 1) :
            g[i] = IF i = 0 THEN e ELSE CtrBlock(g[i - 1], a)
      <3>1. \A i \in 0..m : f[i] = IF i = 0 THEN e ELSE CtrBlock(f[i - 1], a)
        BY <2>1 DEF IsLoop
      <3>. QED BY <3>1
    <2>3. IsLoop(g, m + 1)
      BY <2>2 DEF IsLoop
    <2>. QED BY <2>3
  <1>3. \E f : IsLoop(f, n)
    <2>. HIDE DEF S
    <2>1. n \in S
      BY <1>1, <1>2, SetInduction
    <2>. QED BY <2>1 DEF S
  <1>4. IsLoop(CtrExpanding(e, a, n), n)
    BY <1>3 DEF CtrExpanding
  <1>. QED BY <1>4

\* The block after b, with number i.
NextBlock(scheme, k, inputs, b, i) ==
  IF scheme = "hkdf" THEN Mac(k, b \o Info(inputs[i]) \o Counter(i))
                     ELSE Mac(k, Counter(i) \o Info(inputs[i]))

LEMMA BlocksTurn ==
  ASSUME NEW scheme, NEW k, NEW inputs, NEW n \in Nat
  PROVE  /\ Blocks(scheme, k, inputs, n)[0] = <<>>
         /\ \A i \in 1..n :
              Blocks(scheme, k, inputs, n)[i] = NextBlock(scheme, k, inputs, Blocks(scheme, k, inputs, n)[i - 1], i)
  <1>. DEFINE IsLoop(f, m) ==
                f = [i \in 0..m |-> IF i = 0 THEN <<>> ELSE NextBlock(scheme, k, inputs, f[i - 1], i)]
              S == {m \in Nat : \E f : IsLoop(f, m)}
  <1>1. 0 \in S
    <2>1. IsLoop([i \in 0..0 |-> <<>>], 0)
      OBVIOUS
    <2>. QED BY <2>1
  <1>2. ASSUME NEW m \in Nat, m \in S PROVE m + 1 \in S
    <2>1. PICK f : IsLoop(f, m)
      BY <1>2
    <2>. DEFINE g == [i \in 0..(m + 1) |-> IF i <= m THEN f[i]
                                         ELSE NextBlock(scheme, k, inputs, f[m], m + 1)]
    <2>. HIDE DEF IsLoop
    <2>2. \A i \in 0..(m + 1) :
            g[i] = IF i = 0 THEN <<>> ELSE NextBlock(scheme, k, inputs, g[i - 1], i)
      <3>1. \A i \in 0..m : f[i] = IF i = 0 THEN <<>> ELSE NextBlock(scheme, k, inputs, f[i - 1], i)
        BY <2>1 DEF IsLoop
      <3>. QED BY <3>1
    <2>3. IsLoop(g, m + 1)
      BY <2>2 DEF IsLoop
    <2>. QED BY <2>3
  <1>3. \E f : IsLoop(f, n)
    <2>. HIDE DEF S
    <2>1. n \in S
      BY <1>1, <1>2, SetInduction
    <2>. QED BY <2>1 DEF S
  <1>4. IsLoop(Blocks(scheme, k, inputs, n), n)
    BY <1>3 DEF Blocks, NextBlock
  <1>. QED BY <1>4

\* Blocks up to number m depend on the first m inputs only.
LEMMA BlocksAgree ==
  ASSUME NEW scheme, NEW k, NEW in1, NEW in2, NEW m1 \in Nat, NEW m2 \in Nat,
         NEW m \in Nat, m <= m1, m <= m2, \A j \in 1..m : in1[j] = in2[j]
  PROVE  \A i \in 0..m : Blocks(scheme, k, in1, m1)[i] = Blocks(scheme, k, in2, m2)[i]
  <1>. DEFINE b1 == Blocks(scheme, k, in1, m1)
              b2 == Blocks(scheme, k, in2, m2)
              S == {i \in Nat : i <= m => b1[i] = b2[i]}
  <1>1. /\ b1[0] = <<>> /\ b2[0] = <<>>
        /\ \A i \in 1..m1 : b1[i] = NextBlock(scheme, k, in1, b1[i - 1], i)
        /\ \A i \in 1..m2 : b2[i] = NextBlock(scheme, k, in2, b2[i - 1], i)
    BY BlocksTurn
  <1>. HIDE DEF b1, b2
  <1>2. 0 \in S
    BY <1>1
  <1>3. ASSUME NEW i \in Nat, i \in S PROVE i + 1 \in S
    <2>. SUFFICES ASSUME i + 1 <= m PROVE b1[i + 1] = b2[i + 1]
      OBVIOUS
    <2>1. b1[i] = b2[i] /\ in1[i + 1] = in2[i + 1]
      BY <1>3
    <2>2. b1[i + 1] = NextBlock(scheme, k, in1, b1[i], i + 1)
      BY <1>1
    <2>3. b2[i + 1] = NextBlock(scheme, k, in2, b2[i], i + 1)
      BY <1>1
    <2>. QED BY <2>1, <2>2, <2>3 DEF NextBlock
  <1>. HIDE DEF S
  <1>4. \A i \in Nat : i \in S
    BY <1>2, <1>3, SetInduction
  <1>. QED BY <1>4 DEF S, b1, b2

-----------------------------------------------------------------------------
(* Sequences of items.                                                     *)

IsSeq(s) == \E S : s \in Seq(S)

\* Concatenation and parts, named so that the provers need not unfold them:
\* Cut is what follows the first m items, up to item n.
Cat(s, t) == s \o t
Cut(s, m, n) == SubSeq(s, m + 1, n)

IsCat(w, s, t) ==
  /\ Len(s) \in Nat /\ Len(t) \in Nat /\ Len(w) = Len(s) + Len(t)
  /\ \A i \in 1..Len(s) : w[i] = s[i]
  /\ \A i \in 1..Len(t) : w[Len(s) + i] = t[i]

Within(v, m, n) == IsSeq(v) /\ m \in Nat /\ n \in Nat /\ m <= n /\ n <= Len(v)

IsCut(u, v, m, n) == Len(u) = n - m /\ \A i \in 1..(n - m) : u[i] = v[m + i]

LEMMA Together ==
  ASSUME NEW s, NEW t, IsSeq(s), IsSeq(t)
  PROVE  \E S : s \in Seq(S) /\ t \in Seq(S)
  <1>1. PICK S : s \in Seq(S)
    BY DEF IsSeq
  <1>2. PICK T : t \in Seq(T)
    BY DEF IsSeq
  <1>3. s \in Seq(S \union T)
    BY <1>1
  <1>4. t \in Seq(S \union T)
    BY <1>2
  <1>. QED BY <1>3, <1>4

LEMMA Joined ==
  ASSUME NEW s, NEW t, IsSeq(s), IsSeq(t)
  PROVE  IsSeq(Cat(s, t)) /\ IsCat(Cat(s, t), s, t)
  <1>1. PICK S : s \in Seq(S) /\ t \in Seq(S)
    BY Together
  <1>2. s \o t \in Seq(S)
    BY <1>1
  <1>3. IsSeq(s \o t)
    BY <1>2 DEF IsSeq
  <1>4. IsCat(s \o t, s, t)
    BY <1>1, <1>2 DEF IsCat
  <1>. QED BY <1>3, <1>4 DEF Cat

LEMMA Associative ==
  ASSUME NEW s, NEW t, NEW u, IsSeq(s), IsSeq(t), IsSeq(u)
  PROVE  Cat(Cat(s, t), u) = Cat(s, Cat(t, u))
  <1>1. PICK S : s \in Seq(S) /\ t \in Seq(S)
    BY Together
  <1>2. PICK T : s \in Seq(T) /\ u \in Seq(T)
    BY Together
  <1>3. s \in Seq(S \union T) /\ t \in Seq(S \union T) /\ u \in Seq(S \union T)
    BY <1>1, <1>2
  <1>4. (s \o t) \o u = s \o (t \o u)
    BY <1>3
  <1>. QED BY <1>4 DEF Cat

LEMMA Part ==
  ASSUME NEW v, NEW m, NEW n, Within(v, m, n)
  PROVE  /\ IsSeq(Cut(v, m, n)) /\ IsCut(Cut(v, m, n), v, m, n)
         /\ Cat(Cut(v, 0, m), Cut(v, m, n)) = Cut(v, 0, n)
  <1>. USE DEF Within
  <1>1. PICK S : v \in Seq(S)
    BY DEF IsSeq
  <1>2. SubSeq(v, m + 1, n) \in Seq(S)
    BY <1>1
  <1>3. SubSeq(v, 0 + 1, m) \o SubSeq(v, m + 1, n) = SubSeq(v, 0 + 1, n)
    BY <1>1
  <1>4. /\ Len(SubSeq(v, m + 1, n)) = n - m
        /\ \A i \in 1..(n - m) : SubSeq(v, m + 1, n)[i] = v[m + i]
    BY <1>1
  <1>5. IsSeq(SubSeq(v, m + 1, n))
    BY <1>2 DEF IsSeq
  <1>. QED BY <1>3, <1>4, <1>5, Zenon DEF Cat, Cut, IsCut

LEMMA Whole ==
  ASSUME NEW s, IsSeq(s)
  PROVE  Cut(s, 0, Len(s)) = s /\ Cat(s, <<>>) = s /\ Cat(<<>>, s) = s
  BY DEF IsSeq, Cat, Cut

LEMMA ItemsAreSeqs ==
  /\ IsSeq(<<>>) /\ Len(<<>>) = 0
  /\ \A a : IsSeq(Info(a)) /\ IsSeq(Counter(a)) /\ IsSeq(HmacInit(a).st)
  /\ \A h : IsSeq(HmacBytes(h)) /\ Len(HmacBytes(h)) = H
  <1>1. IsSeq(<<>>) /\ Len(<<>>) = 0
    BY DEF IsSeq
  <1>2. ASSUME NEW a
        PROVE  IsSeq(Info(a)) /\ IsSeq(Counter(a)) /\ IsSeq(HmacInit(a).st)
    <2>1. \A x : <<x>> \in Seq({x})
      OBVIOUS
    <2>2. <<<<"info", a>>>> \in Seq({<<"info", a>>})
      BY <2>1
    <2>3. <<<<"counter", a>>>> \in Seq({<<"counter", a>>})
      BY <2>1
    <2>4. <<<<"ipad", a>>>> \in Seq({<<"ipad", a>>})
      BY <2>1
    <2>. QED BY <1>1, <2>2, <2>3, <2>4 DEF IsSeq, Info, Counter, HmacInit
  <1>3. ASSUME NEW h
        PROVE  IsSeq(HmacBytes(h)) /\ Len(HmacBytes(h)) = H
    <2>. DEFINE S == {<<"mac", h.key, h.st, i>> : i \in 1..H}
    <2>1. HmacBytes(h) \in [1..H -> S]
      BY DEF HmacBytes
    <2>2. HmacBytes(h) \in Seq(S)
      <3>1. \A n \in Nat : \A f \in [1..n -> S] : f \in Seq(S)
        OBVIOUS
      <3>. QED BY <2>1, <3>1, KdfAssumption DEF KdfAssumption
    <2>3. Len(HmacBytes(h)) = H
      BY <2>1, KdfAssumption DEF KdfAssumption
    <2>. QED BY <2>2, <2>3 DEF IsSeq
  <1>. QED BY <1>1, <1>2, <1>3

LEMMA TurnsOf ==
  ASSUME NEW d \in Nat
  PROVE  /\ Turns(d) \in Nat /\ d <= Turns(d) * H
         /\ d # 0 => Turns(d) # 0 /\ (Turns(d) - 1) * H < d
         /\ d = 0 => Turns(d) = 0
         /\ \A m \in Nat : d <= H * m => Turns(d) <= m
         /\ d % H = 0 <=> d = Turns(d) * H
  <1>. USE KdfAssumption DEF KdfAssumption
  <1>1. Turns(d) \in Nat /\ d <= Turns(d) * H
    BY DEF Turns
  <1>2. d # 0 => Turns(d) # 0 /\ (Turns(d) - 1) * H < d
    BY DEF Turns
  <1>3. d = 0 => Turns(d) = 0
    BY DEF Turns
  <1>4. \A m \in Nat : d <= H * m => Turns(d) <= m
    BY DEF Turns
  <1>5. d % H = 0 <=> d = Turns(d) * H
    <2>. DEFINE q == d \div H
                r == d % H
    <2>1. q \in Nat /\ r \in 0..(H - 1) /\ d = q * H + r
      OBVIOUS
    <2>. HIDE DEF q, r
    <2>2. CASE r = 0
      <3>1. Turns(d) <= q
        BY <1>4, <2>1, <2>2
      <3>2. (q - 1) * H < d
        BY <2>1, <2>2
      <3>3. Turns(d) * H >= q * H
        BY <1>1, <2>1, <2>2
      <3>4. Turns(d) = q
        BY <1>1, <2>1, <3>1, <3>3
      <3>. QED BY <2>1, <2>2, <3>4 DEF r
    <2>3. CASE r # 0
      <3>1. \A m \in Nat : d # m * H
        <4>. SUFFICES ASSUME NEW m \in Nat, d = m * H PROVE FALSE
          OBVIOUS
        <4>1. CASE m <= q
          BY <2>1, <2>3, <4>1
        <4>2. CASE m >= q + 1
          <5>1. m * H >= (q + 1) * H
            BY <2>1, <4>2
          <5>. QED BY <2>1, <5>1
        <4>. QED BY <2>1, <4>1, <4>2
      <3>. QED BY <1>1, <2>3, <3>1 DEF r
    <2>. QED BY <2>2, <2>3
  <1>. QED BY <1>1, <1>2, <1>3, <1>4, <1>5

-----------------------------------------------------------------------------
(* Streams of blocks.                                                      *)

\* t begins the stream of the blocks b[1], b[2], ...
BeginsStream(t, b) ==
  /\ IsSeq(t)
  /\ \A i \in 1..Len(t) : t[i] = b[((i - 1) \div H) + 1][((i - 1) % H) + 1]

LEMMA StreamGrows ==
  ASSUME NEW t, NEW b, BeginsStream(t, b), NEW m \in Nat, NEW p \in 0..H,
         NEW q \in p..H, Len(t) = m * H + p, IsSeq(b[m + 1]), Len(b[m + 1]) = H
  PROVE  /\ BeginsStream(Cat(t, Cut(b[m + 1], p, q)), b)
         /\ Len(Cat(t, Cut(b[m + 1], p, q))) = m * H + q
  <1>. USE KdfAssumption DEF KdfAssumption
  <1>. DEFINE v == b[m + 1]
              u == Cut(v, p, q)
              w == Cat(t, u)
  <1>a. Within(v, p, q)
    BY DEF Within
  <1>b. IsSeq(t)
    BY Zenon DEF BeginsStream
  <1>. HIDE DEF v
  <1>c. IsSeq(u) /\ IsCut(u, v, p, q)
    BY <1>a, Part, Zenon
  <1>. HIDE DEF u
  <1>d. IsSeq(w) /\ IsCat(w, t, u)
    BY <1>b, <1>c, Joined, Zenon
  <1>. HIDE DEF w
  <1>1. /\ Len(w) = Len(t) + (q - p) /\ Len(t) \in Nat
        /\ \A i \in 1..Len(t) : w[i] = t[i]
        /\ \A i \in 1..(q - p) : w[Len(t) + i] = v[p + i]
    BY <1>c, <1>d DEF IsCat, IsCut
  <1>2. Len(w) = m * H + q /\ Len(w) \in Nat /\ Len(t) \in Nat
    BY <1>1
  <1>3. ASSUME NEW i \in 1..(q - p)
        PROVE  w[m * H + p + i] = v[p + i]
    BY <1>1, <1>3
  <1>4. ASSUME NEW r \in 0..(H - 1)
        PROVE  (m * H + r) \div H = m /\ (m * H + r) % H = r
    BY <1>4
  <1>5. ASSUME NEW i \in 1..Len(w), i > Len(t)
        PROVE  w[i] = b[((i - 1) \div H) + 1][((i - 1) % H) + 1]
    <2>. DEFINE r == i - 1 - m * H
    <2>1. r \in 0..(H - 1) /\ i - 1 = m * H + r /\ r + 1 - p \in 1..(q - p)
      BY <1>2, <1>5
    <2>2. (i - 1) \div H = m /\ (i - 1) % H = r
      BY <1>4, <2>1
    <2>3. w[m * H + p + (r + 1 - p)] = v[p + (r + 1 - p)]
      BY <1>3, <2>1
    <2>4. m * H + p + (r + 1 - p) = i /\ p + (r + 1 - p) = r + 1
      BY <2>1
    <2>. QED BY <2>2, <2>3, <2>4 DEF v
  <1>6. ASSUME NEW i \in 1..Len(w), i <= Len(t)
        PROVE  w[i] = b[((i - 1) \div H) + 1][((i - 1) % H) + 1]
    <2>1. i \in 1..Len(t)
      BY <1>2, <1>6
    <2>2. w[i] = t[i]
      BY <1>1, <2>1
    <2>3. t[i] = b[((i - 1) \div H) + 1][((i - 1) % H) + 1]
      BY <2>1, Zenon DEF BeginsStream
    <2>. QED BY <2>2, <2>3
  <1>7. BeginsStream(w, b)
    BY <1>d, <1>2, <1>5, <1>6 DEF BeginsStream
  <1>. QED BY <1>2, <1>7, Zenon DEF u, v, w

\* A stream depends only on the blocks it has reached.
LEMMA SameStream ==
  ASSUME NEW t, NEW b, NEW c, NEW m \in Nat, BeginsStream(t, b), Len(t) <= m * H,
         \A i \in 1..m : b[i] = c[i]
  PROVE  BeginsStream(t, c)
  <1>. USE KdfAssumption DEF KdfAssumption
  <1>1. ASSUME NEW i \in 1..Len(t) PROVE ((i - 1) \div H) + 1 \in 1..m
    <2>1. Len(t) \in Nat /\ i - 1 \in Nat /\ i - 1 < m * H
      BY DEF BeginsStream, IsSeq
    <2>2. (i - 1) \div H \in Nat /\ ((i - 1) \div H) * H <= i - 1
      BY <2>1
    <2>3. (i - 1) \div H < m
      BY <2>1, <2>2
    <2>. QED BY <2>2, <2>3
  <1>. QED BY <1>1 DEF BeginsStream

-----------------------------------------------------------------------------
(* One block and one request of HKDF.                                      *)

\* An HMAC with key k that was given the items s.
Given(k, s) == [key |-> k, st |-> Cat(HmacInit(k).st, s)]

LEMMA GivenHmac ==
  ASSUME NEW k, NEW s, IsSeq(s), NEW u, IsSeq(u)
  PROVE  /\ HmacUpdate(Given(k, s), u) = Given(k, Cat(s, u))
         /\ Mac(k, s) = HmacBytes(Given(k, s))
         /\ HmacReinit(Given(k, s)) = HmacInit(k)
         /\ HmacInit(k) = Given(k, <<>>)
         /\ \A block, n : Chain(Given(k, s), block, n) = Given(k, Cut(block, 0, n))
  <1>1. IsSeq(HmacInit(k).st)
    BY ItemsAreSeqs
  <1>2. Cat(Cat(HmacInit(k).st, s), u) = Cat(HmacInit(k).st, Cat(s, u))
    BY <1>1, Associative
  <1>3. Cat(HmacInit(k).st, <<>>) = HmacInit(k).st
    BY <1>1, Whole
  <1>4. HmacInit(k) = [key |-> k, st |-> HmacInit(k).st]
    BY DEF HmacInit
  <1>. DEFINE Longer(h, x) == [h EXCEPT !.st = Cat(@, x)]
  <1>a. \A h, x : HmacUpdate(h, x) = Longer(h, x)
    BY Zenon DEF HmacUpdate, Cat
  <1>5. HmacUpdate(Given(k, s), u) = Given(k, Cat(s, u))
    <2>1. HmacUpdate(Given(k, s), u) = Longer(Given(k, s), u)
      BY <1>a, Zenon
    <2>. QED BY <1>2, <2>1 DEF Given
  <1>6. \A x : HmacUpdate(HmacInit(k), x) = Given(k, x)
    <2>. TAKE x
    <2>1. HmacUpdate(HmacInit(k), x) = Longer(HmacInit(k), x)
      BY <1>a, Zenon
    <2>. QED BY <1>4, <2>1 DEF Given
  <1>7. HmacReinit(Given(k, s)) = HmacInit(k)
    BY DEF HmacReinit, Given
  <1>8. HmacInit(k) = Given(k, <<>>)
    BY <1>3, <1>4 DEF Given
  <1>9. Mac(k, s) = HmacBytes(Given(k, s))
    BY <1>6 DEF Mac
  <1>10. \A block, n : Chain(Given(k, s), block, n) = Given(k, Cut(block, 0, n))
    BY <1>6, <1>7 DEF Chain, Cut
  <1>. QED BY <1>5, <1>7, <1>8, <1>9, <1>10

LEMMA ExpandedBlock ==
  ASSUME NEW e, NEW a, NEW k, NEW b, NEW c \in Nat \ {0},
         e.hmac = Given(k, b[c - 1]), e.ctr = c, e.dlen \in Nat,
         IsSeq(b[c - 1]), b[c] = Mac(k, Cat(Cat(b[c - 1], Info(a)), Counter(c))),
         NEW n, n = IF e.dlen < H THEN e.dlen ELSE H
  PROVE  ExpandBlock(e, a) =
           [hmac |-> Given(k, Cut(b[c], 0, n)), ctr |-> c + 1,
            dlen |-> e.dlen - n,
            partial |-> IF n < H THEN b[c] ELSE e.partial,
            partial_ptr |-> IF n < H THEN n ELSE e.partial_ptr,
            out |-> Cat(e.out, Cut(b[c], 0, n))]
  <1>1. /\ IsSeq(Info(a)) /\ IsSeq(Counter(c))
        /\ IsSeq(Cat(Info(a), Counter(c)))
        /\ IsSeq(Cat(b[c - 1], Cat(Info(a), Counter(c))))
    BY ItemsAreSeqs, Joined
  <1>. DEFINE h == HmacUpdate(e.hmac, Cat(Info(a), Counter(e.ctr)))
  <1>2. h = Given(k, Cat(b[c - 1], Cat(Info(a), Counter(c))))
    BY <1>1, GivenHmac
  <1>3. Cat(Cat(b[c - 1], Info(a)), Counter(c)) = Cat(b[c - 1], Cat(Info(a), Counter(c)))
    BY <1>1, Associative
  <1>4. HmacBytes(h) = b[c]
    BY <1>1, <1>2, <1>3, GivenHmac
  <1>5. Chain(h, b[c], n) = Given(k, Cut(b[c], 0, n))
    BY <1>1, <1>2, GivenHmac
  <1>. HIDE DEF h
  <1>6. ExpandBlock(e, a) =
          [hmac |-> Chain(h, HmacBytes(h), n), ctr |-> c + 1,
           dlen |-> e.dlen - n,
           partial |-> IF n < H THEN HmacBytes(h) ELSE e.partial,
           partial_ptr |-> IF n < H THEN n ELSE e.partial_ptr,
           out |-> Cat(e.out, Cut(HmacBytes(h), 0, n))]
    BY DEF ExpandBlock, h, Cat, Cut
  <1>. QED BY <1>4, <1>5, <1>6

\* The state of HKDF after it has given out the stream t of the blocks b: it
\* stands at the end of a block or q bytes into one.
Aligned(k, b, h, c, p, q, t) ==
  /\ IsSeq(p) /\ BeginsStream(t, b)
  /\ q = H => Len(t) = (c - 1) * H /\ h = Given(k, b[c - 1])
  /\ q < H => /\ c > 1 /\ p = b[c - 1] /\ Len(t) = (c - 2) * H + q
              /\ h = Given(k, Cut(b[c - 1], 0, q))

\* The loop stands before block c of the stream and has d bytes to go.
ExpandReady(e, k, b, c, t, d) ==
  /\ e.ctr = c /\ e.dlen = d /\ e.partial_ptr = H /\ IsSeq(e.partial)
  /\ e.hmac = Given(k, b[c - 1])
  /\ IsSeq(e.out) /\ BeginsStream(Cat(t, e.out), b)
  /\ Len(Cat(t, e.out)) = (c - 1) * H

LEMMA ExpandedTurn ==
  ASSUME NEW e, NEW a, NEW k, NEW b, NEW c \in Nat \ {0}, NEW t, NEW d \in Nat,
         ExpandReady(e, k, b, c, t, d), IsSeq(t), IsSeq(b[c - 1]),
         b[c] = Mac(k, Cat(Cat(b[c - 1], Info(a)), Counter(c)))
  PROVE  LET r == ExpandBlock(e, a) IN
         /\ d >= H => ExpandReady(r, k, b, c + 1, t, d - H)
         /\ d < H  => /\ r.ctr = c + 1 /\ r.partial_ptr = d /\ IsSeq(r.out)
                      /\ Aligned(k, b, r.hmac, c + 1, r.partial, d, Cat(t, r.out))
  <1>. DEFINE m == IF d < H THEN d ELSE H
              v == b[c]
              u == Cut(v, 0, m)
              r == ExpandBlock(e, a)
  <1>1. m \in 0..H /\ m \in Nat
    BY KdfAssumption DEF KdfAssumption
  <1>2. IsSeq(v) /\ Len(v) = H
    BY ItemsAreSeqs DEF Mac
  <1>3. r = [hmac |-> Given(k, u), ctr |-> c + 1, dlen |-> d - m,
             partial |-> IF m < H THEN v ELSE e.partial,
             partial_ptr |-> IF m < H THEN m ELSE e.partial_ptr,
             out |-> Cat(e.out, u)]
    <2>1. e.hmac = Given(k, b[c - 1]) /\ e.ctr = c /\ e.dlen = d
      BY Zenon DEF ExpandReady
    <2>2. e.dlen \in Nat /\ m = IF e.dlen < H THEN e.dlen ELSE H
      BY <2>1
    <2>3. d - m = e.dlen - m
      BY <2>1
    <2>. HIDE DEF m
    <2>4. r = [hmac |-> Given(k, u), ctr |-> c + 1, dlen |-> e.dlen - m,
             partial |-> IF m < H THEN v ELSE e.partial,
             partial_ptr |-> IF m < H THEN m ELSE e.partial_ptr,
             out |-> Cat(e.out, u)]
      BY <2>1, <2>2, ExpandedBlock
    <2>. QED BY <2>3, <2>4, Zenon
  <1>. HIDE DEF m, r
  <1>4. /\ BeginsStream(Cat(Cat(t, e.out), u), b)
        /\ Len(Cat(Cat(t, e.out), u)) = (c - 1) * H + m
    <2>1. c - 1 \in Nat /\ (c - 1) + 1 = c /\ 0 \in 0..H /\ m \in 0..H
      BY <1>1, KdfAssumption DEF KdfAssumption
    <2>2. BeginsStream(Cat(t, e.out), b) /\ Len(Cat(t, e.out)) = (c - 1) * H + 0
      BY KdfAssumption DEF ExpandReady, KdfAssumption
    <2>3. /\ BeginsStream(Cat(Cat(t, e.out), Cut(b[(c - 1) + 1], 0, m)), b)
          /\ Len(Cat(Cat(t, e.out), Cut(b[(c - 1) + 1], 0, m))) = (c - 1) * H + m
      BY <1>2, <2>1, <2>2, StreamGrows
    <2>. QED BY <2>1, <2>3
  <1>5. IsSeq(u) /\ (m = H => u = v)
    <2>1. Within(v, 0, m)
      BY <1>1, <1>2, KdfAssumption DEF Within, KdfAssumption
    <2>. HIDE DEF v
    <2>2. IsSeq(u)
      BY <2>1, Part, Zenon
    <2>3. Cut(v, 0, Len(v)) = v
      BY <1>2, Whole, Zenon
    <2>. QED BY <1>2, <2>2, <2>3
  <1>. HIDE DEF u
  <1>6. IsSeq(Cat(e.out, u)) /\ Cat(Cat(t, e.out), u) = Cat(t, Cat(e.out, u))
    <2>. DEFINE o == e.out
    <2>1. IsSeq(o) /\ IsSeq(u)
      BY <1>5, Zenon DEF ExpandReady
    <2>. HIDE DEF o
    <2>2. IsSeq(Cat(o, u))
      BY <2>1, Joined, Zenon
    <2>3. Cat(Cat(t, o), u) = Cat(t, Cat(o, u))
      BY <2>1, Associative
    <2>. QED BY <2>2, <2>3 DEF o
  <1>. HIDE DEF v
  <1>7. /\ r.hmac = Given(k, u) /\ r.ctr = c + 1 /\ r.dlen = d - m
        /\ r.partial = (IF m < H THEN v ELSE e.partial)
        /\ r.partial_ptr = (IF m < H THEN m ELSE e.partial_ptr)
        /\ IsSeq(r.out) /\ BeginsStream(Cat(t, r.out), b)
        /\ Len(Cat(t, r.out)) = (c - 1) * H + m
    BY <1>3, <1>4, <1>6
  <1>8. c + 1 - 1 = c /\ c + 1 - 2 = c - 1 /\ (c - 1) * H + H = c * H /\ c + 1 > 1
    BY KdfAssumption DEF KdfAssumption
  <1>9. CASE d >= H
    <2>1. m = H /\ ~ m < H
      BY <1>9, KdfAssumption DEF m, KdfAssumption
    <2>2. e.partial_ptr = H
      BY Zenon DEF ExpandReady
    <2>3. ExpandReady(r, k, b, c + 1, t, d - H)
      BY <1>5, <1>7, <1>8, <2>1, <2>2 DEF ExpandReady, v
    <2>. QED BY <1>9, <2>3, KdfAssumption DEF r, KdfAssumption
  <1>10. CASE d < H
    <2>1. m = d /\ m < H /\ d # H
      BY <1>10, KdfAssumption DEF m, KdfAssumption
    <2>2. Aligned(k, b, r.hmac, c + 1, r.partial, d, Cat(t, r.out))
      BY <1>2, <1>7, <1>8, <2>1 DEF Aligned, u, v
    <2>. QED BY <1>7, <1>10, <2>1, <2>2, KdfAssumption DEF r, KdfAssumption
  <1>. QED BY <1>9, <1>10, KdfAssumption DEF KdfAssumption

LEMMA ExpandedStream ==
  ASSUME NEW b, NEW k, NEW a, NEW t, NEW c \in Nat \ {0}, NEW d \in Nat, NEW e,
         IsSeq(t), \A i \in Nat : IsSeq(b[i]),
         \A i \in c..(c + Turns(d) - 1) :
            b[i] = Mac(k, Cat(Cat(b[i - 1], Info(a)), Counter(i))),
         ExpandReady(e, k, b, c, t, d)
  PROVE  LET r == Expanded(e, a) IN
         /\ r.ctr = c + Turns(d) /\ r.partial_ptr \in 0..H /\ IsSeq(r.out)
         /\ Aligned(k, b, r.hmac, r.ctr, r.partial, r.partial_ptr, Cat(t, r.out))
  <1>. USE KdfAssumption DEF KdfAssumption
  <1>. DEFINE n == Turns(d)
              x == Expanding(e, a, n)
              At(i) == ExpandReady(x[i], k, b, c + i, t, d - i * H)
              S == {i \in Nat : i * H <= d => At(i)}
  <1>1. /\ n \in Nat /\ d <= n * H
        /\ d % H = 0 <=> d = n * H
        /\ d # 0 => n # 0 /\ (n - 1) * H < d
        /\ d = 0 => n = 0
    BY TurnsOf
  <1>2. /\ x[0] = e
        /\ \A i \in 1..n : x[i] = ExpandBlock(x[i - 1], a)
    BY <1>1, ExpandingTurns
  <1>3. Expanded(e, a) = x[n]
    BY DEF Expanded, ExpandReady
  <1>4. \A i \in c..(c + n - 1) :
          b[i] = Mac(k, Cat(Cat(b[i - 1], Info(a)), Counter(i)))
    OBVIOUS
  <1>. HIDE DEF n, x
  \* One turn from a full block on.
  <1>5. ASSUME NEW i \in Nat, i < n, i * H <= d, At(i), NEW y, y = x[i + 1],
               NEW f, f = d - i * H
        PROVE  /\ f >= H => ExpandReady(y, k, b, c + i + 1, t, f - H)
               /\ f < H  => /\ y.ctr = c + i + 1 /\ y.partial_ptr = f /\ IsSeq(y.out)
                            /\ Aligned(k, b, y.hmac, c + i + 1, y.partial, f, Cat(t, y.out))
    <2>1. y = ExpandBlock(x[i], a)
      <3>1. i + 1 \in 1..n /\ (i + 1) - 1 = i
        BY <1>1, <1>5
      <3>. QED BY <1>2, <1>5, <3>1
    <2>2. f \in Nat
      BY <1>5
    <2>. DEFINE g == c + i
    <2>3. g \in Nat \ {0} /\ g - 1 \in Nat /\ g \in c..(c + n - 1)
      BY <1>1, <1>5
    <2>4. ExpandReady(x[i], k, b, g, t, f)
      BY <1>5
    <2>. HIDE DEF g
    <2>5. IsSeq(b[g - 1]) /\ b[g] = Mac(k, Cat(Cat(b[g - 1], Info(a)), Counter(g)))
      BY <1>4, <2>3
    <2>6. /\ f >= H => ExpandReady(y, k, b, g + 1, t, f - H)
          /\ f < H  => /\ y.ctr = g + 1 /\ y.partial_ptr = f /\ IsSeq(y.out)
                       /\ Aligned(k, b, y.hmac, g + 1, y.partial, f, Cat(t, y.out))
      BY <2>1, <2>2, <2>3, <2>4, <2>5, ExpandedTurn
    <2>. QED BY <2>6 DEF g
  <1>6. 0 \in S
    <2>1. c + 0 = c /\ d - 0 * H = d
      OBVIOUS
    <2>. QED BY <1>2, <2>1
  <1>7. ASSUME NEW i \in Nat, i \in S PROVE i + 1 \in S
    <2>. SUFFICES ASSUME (i + 1) * H <= d PROVE At(i + 1)
      OBVIOUS
    <2>. DEFINE f == d - i * H
    <2>1. i * H <= d /\ f >= H /\ f - H = d - (i + 1) * H
      OBVIOUS
    <2>2. i < n
      <3>1. (i + 1) * H <= n * H
        BY <1>1
      <3>. QED BY <1>1, <3>1
    <2>3. At(i)
      BY <1>7, <2>1
    <2>4. ExpandReady(x[i + 1], k, b, c + i + 1, t, f - H)
      BY <1>5, <2>1, <2>2, <2>3
    <2>5. c + i + 1 = c + (i + 1)
      OBVIOUS
    <2>. QED BY <2>1, <2>4, <2>5
  <1>8. \A i \in Nat : i * H <= d => At(i)
    <2>. HIDE DEF S
    <2>1. \A i \in Nat : i \in S
      BY <1>6, <1>7, SetInduction
    <2>. QED BY <2>1 DEF S
  <1>9. CASE d = n * H
    <2>1. ExpandReady(x[n], k, b, c + n, t, d - n * H)
      BY <1>1, <1>8, <1>9
    <2>2. x[n].ctr = c + n /\ x[n].partial_ptr = H /\ IsSeq(x[n].out)
      BY <2>1 DEF ExpandReady
    <2>3. Aligned(k, b, x[n].hmac, c + n, x[n].partial, H, Cat(t, x[n].out))
      BY <2>1 DEF ExpandReady, Aligned
    <2>. QED BY <1>3, <2>2, <2>3 DEF n
  <1>10. CASE d # n * H
    <2>. DEFINE i == n - 1
                f == d - i * H
    <2>1. i \in Nat /\ i < n /\ i * H <= d /\ f < H /\ f \in Nat /\ i + 1 = n
      <3>1. n \in Nat /\ n # 0 /\ i * H < d /\ d <= n * H /\ d # n * H
        BY <1>1, <1>10
      <3>2. i \in Nat /\ i < n /\ i + 1 = n
        BY <3>1
      <3>3. n * H = i * H + H
        BY <3>2
      <3>. DEFINE u == i * H
                  w == n * H
      <3>4. /\ u \in Nat /\ w \in Nat /\ w = u + H /\ f = d - u
            /\ u < d /\ d <= w /\ d # w
        BY <3>1, <3>2, <3>3
      <3>. HIDE DEF u, w, f
      <3>5. u <= d /\ f < H /\ f \in Nat
        BY <3>4
      <3>. QED BY <3>2, <3>5 DEF u
    <2>2. At(i)
      BY <1>8, <2>1
    <2>3. /\ x[n].ctr = c + i + 1 /\ x[n].partial_ptr = f /\ IsSeq(x[n].out)
          /\ Aligned(k, b, x[n].hmac, c + i + 1, x[n].partial, f, Cat(t, x[n].out))
      <3>1. f = d - i * H /\ x[n] = x[i + 1]
        BY <2>1
      <3>. HIDE DEF i, f, At
      <3>. QED BY <1>5, <2>1, <2>2, <3>1
    <2>4. c + i + 1 = c + n
      BY <1>1
    <2>. HIDE DEF f
    <2>5. f \in 0..H
      BY <2>1
    <2>. QED BY <1>3, <2>3, <2>4, <2>5 DEF n
  <1>. QED BY <1>9, <1>10

\* The counter and the pointer, whatever the HMAC holds.
LEMMA ExpandedCounter ==
  ASSUME NEW e, NEW a, NEW c \in Nat, NEW d \in Nat,
         e.ctr = c, e.dlen = d, e.partial_ptr \in 0..H
  PROVE  /\ Expanded(e, a).ctr = c + Turns(d)
         /\ Expanded(e, a).partial_ptr \in 0..H
  <1>. USE KdfAssumption DEF KdfAssumption
  <1>. DEFINE n == Turns(d)
              x == Expanding(e, a, n)
              At(i) == /\ x[i].ctr = c + i /\ x[i].dlen \in Nat
                       /\ x[i].partial_ptr \in 0..H
              S == {i \in Nat : i <= n => At(i)}
  <1>1. n \in Nat
    BY TurnsOf
  <1>2. /\ x[0] = e
        /\ \A i \in 1..n : x[i] = ExpandBlock(x[i - 1], a)
    BY <1>1, ExpandingTurns
  <1>. HIDE DEF n, x
  <1>3. 0 \in S
    BY <1>2
  <1>4. ASSUME NEW i \in Nat, i \in S PROVE i + 1 \in S
    <2>. SUFFICES ASSUME i + 1 <= n PROVE At(i + 1)
      OBVIOUS
    <2>1. At(i)
      BY <1>1, <1>4
    <2>2. x[i + 1] = ExpandBlock(x[i], a)
      <3>1. i + 1 \in 1..n /\ (i + 1) - 1 = i
        BY <1>1
      <3>. QED BY <1>2, <3>1
    <2>. DEFINE y == x[i]
                m == IF y.dlen < H THEN y.dlen ELSE H
    <2>. HIDE DEF y
    <2>3. /\ x[i + 1].ctr = y.ctr + 1 /\ x[i + 1].dlen = y.dlen - m
          /\ x[i + 1].partial_ptr = IF m < H THEN m ELSE y.partial_ptr
      BY <2>2 DEF ExpandBlock, y
    <2>4. y.dlen \in Nat /\ y.partial_ptr \in 0..H /\ y.ctr = c + i
      BY <2>1 DEF y
    <2>. QED BY <2>3, <2>4
  <1>5. At(n)
    <2>. HIDE DEF S
    <2>1. \A i \in Nat : i \in S
      BY <1>3, <1>4, SetInduction
    <2>. QED BY <1>1, <2>1 DEF S
  <1>. QED BY <1>5 DEF Expanded, n, x

-----------------------------------------------------------------------------
(* The stream of a seed.                                                   *)

Stream(scheme, k, inputs) == [i \in Nat |-> Blocks(scheme, k, inputs, i)[i]]

LEMMA StreamTurn ==
  ASSUME NEW scheme, NEW k, NEW inputs
  PROVE  /\ Stream(scheme, k, inputs)[0] = <<>>
         /\ \A i \in Nat : Stream(scheme, k, inputs)[i + 1]
              = NextBlock(scheme, k, inputs, Stream(scheme, k, inputs)[i], i + 1)
         /\ \A i \in Nat : IsSeq(Stream(scheme, k, inputs)[i])
         /\ \A i \in Nat \ {0} : Len(Stream(scheme, k, inputs)[i]) = H
  <1>. DEFINE b == Stream(scheme, k, inputs)
  <1>1. b[0] = <<>>
    BY BlocksTurn DEF Stream
  <1>2. ASSUME NEW i \in Nat
        PROVE  b[i + 1] = NextBlock(scheme, k, inputs, b[i], i + 1)
    <2>. DEFINE long == Blocks(scheme, k, inputs, i + 1)
    <2>1. i + 1 \in Nat /\ i + 1 \in 1..(i + 1) /\ (i + 1) - 1 = i
      OBVIOUS
    <2>2. long[i + 1] = NextBlock(scheme, k, inputs, long[i], i + 1)
      BY <2>1, BlocksTurn
    <2>3. long[i] = Blocks(scheme, k, inputs, i)[i]
      <3>. DEFINE m == i + 1
      <3>1. m \in Nat /\ i <= i /\ i <= m /\ i \in 0..i
        OBVIOUS
      <3>. HIDE DEF m
      <3>2. \A j \in 0..i :
              Blocks(scheme, k, inputs, m)[j] = Blocks(scheme, k, inputs, i)[j]
        <4>. DEFINE other == inputs
        <4>1. \A j \in 1..i : inputs[j] = other[j]
          OBVIOUS
        <4>2. other = inputs
          OBVIOUS
        <4>. HIDE DEF other
        <4>3. \A j \in 0..i :
                Blocks(scheme, k, inputs, m)[j] = Blocks(scheme, k, other, i)[j]
          BY <3>1, <4>1, BlocksAgree
        <4>. QED BY <4>2, <4>3
      <3>. QED BY <3>1, <3>2 DEF m
    <2>. QED BY <2>1, <2>2, <2>3 DEF Stream
  <1>3. ASSUME NEW i \in Nat PROVE IsSeq(b[i + 1]) /\ Len(b[i + 1]) = H
    BY <1>2, ItemsAreSeqs DEF NextBlock, Mac
  <1>. HIDE DEF b
  <1>4. ASSUME NEW i \in Nat \ {0} PROVE IsSeq(b[i]) /\ Len(b[i]) = H
    <2>1. i - 1 \in Nat /\ (i - 1) + 1 = i
      OBVIOUS
    <2>. QED BY <1>3, <2>1
  <1>5. \A i \in Nat : IsSeq(b[i])
    BY <1>1, <1>4, ItemsAreSeqs
  <1>. QED BY <1>1, <1>2, <1>4, <1>5 DEF b

\* The same of a stream that is given by its recurrence.
IsTheStream(b, scheme, k, inputs) ==
  /\ b[0] = <<>>
  /\ \A i \in Nat : b[i + 1] = NextBlock(scheme, k, inputs, b[i], i + 1)
  /\ \A i \in Nat : IsSeq(b[i])
  /\ \A i \in Nat \ {0} : Len(b[i]) = H

LEMMA StreamIs ==
  ASSUME NEW scheme, NEW k, NEW inputs
  PROVE  IsTheStream(Stream(scheme, k, inputs), scheme, k, inputs)
  BY StreamTurn DEF IsTheStream

LEMMA StreamsAgree ==
  ASSUME NEW scheme, NEW k, NEW in1, NEW in2, NEW m \in Nat,
         \A j \in 1..m : in1[j] = in2[j]
  PROVE  \A i \in 0..m : Stream(scheme, k, in1)[i] = Stream(scheme, k, in2)[i]
  <1>. TAKE i \in 0..m
  <1>1. i \in Nat /\ i <= i /\ i \in 0..i /\ \A j \in 1..i : in1[j] = in2[j]
    OBVIOUS
  <1>2. Blocks(scheme, k, in1, i)[i] = Blocks(scheme, k, in2, i)[i]
    BY <1>1, BlocksAgree
  <1>. QED BY <1>1, <1>2 DEF Stream

-----------------------------------------------------------------------------
(* One request of the counter KDF.                                         *)

\* The key outlives whatever a request leaves of the HMAC.
IsHmac(h) == h = [key |-> h.key, st |-> h.st]

LEMMA KeyStays ==
  ASSUME NEW e, NEW a, NEW n \in Nat, IsHmac(e.hmac)
  PROVE  LET x == CtrExpanding(e, a, n)[n] IN
         IsHmac(x.hmac) /\ x.hmac.key = e.hmac.key
  <1>. DEFINE x == CtrExpanding(e, a, n)
              At(i) == IsHmac(x[i].hmac) /\ x[i].hmac.key = e.hmac.key
              S == {i \in Nat : i <= n => At(i)}
  <1>1. x[0] = e /\ \A i \in 1..n : x[i] = CtrBlock(x[i - 1], a)
    BY CtrExpandingTurns
  <1>2. ASSUME NEW h, NEW in, IsHmac(h)
        PROVE  /\ IsHmac(HmacUpdate(h, in)) /\ HmacUpdate(h, in).key = h.key
               /\ IsHmac(HmacFinal(h)) /\ HmacFinal(h).key = h.key
               /\ IsHmac(HmacReinit(h)) /\ HmacReinit(h).key = h.key
    <2>. DEFINE k == h.key
                z == h.st
    <2>1. h = [key |-> k, st |-> z]
      BY <1>2 DEF IsHmac
    <2>. HIDE DEF k, z
    <2>2. HmacUpdate(h, in) = [key |-> k, st |-> Cat(z, in)]
      <3>1. HmacUpdate(h, in) = [h EXCEPT !.st = Cat(@, in)]
        BY Zenon DEF HmacUpdate, Cat
      <3>. QED BY <2>1, <3>1
    <2>3. HmacFinal(h) = [key |-> k, st |-> <<<<"spent", z>>>>]
      BY <2>1 DEF HmacFinal
    <2>4. HmacReinit(h) = [key |-> k, st |-> <<<<"ipad", k>>>>]
      BY <2>1 DEF HmacReinit, HmacInit
    <2>. QED BY <2>1, <2>2, <2>3, <2>4 DEF IsHmac
  <1>3. ASSUME NEW y, IsHmac(y.hmac)
        PROVE  IsHmac(CtrBlock(y, a).hmac) /\ CtrBlock(y, a).hmac.key = y.hmac.key
    <2>. DEFINE h == HmacUpdate(y.hmac, Counter(y.ctr) \o Info(a))
    <2>1. IsHmac(h) /\ h.key = y.hmac.key
      BY <1>2, <1>3
    <2>2. CtrBlock(y, a).hmac = HmacFinal(h) \/ CtrBlock(y, a).hmac = HmacReinit(h)
      BY DEF CtrBlock
    <2>. HIDE DEF h
    <2>. QED BY <1>2, <2>1, <2>2
  <1>. HIDE DEF x
  <1>4. 0 \in S
    BY <1>1
  <1>5. ASSUME NEW i \in Nat, i \in S PROVE i + 1 \in S
    <2>. SUFFICES ASSUME i + 1 <= n PROVE At(i + 1)
      OBVIOUS
    <2>1. i + 1 \in 1..n /\ (i + 1) - 1 = i /\ At(i)
      BY <1>5
    <2>2. x[i + 1] = CtrBlock(x[i], a)
      BY <1>1, <2>1
    <2>. QED BY <1>3, <2>1, <2>2
  <1>6. At(n)
    <2>. HIDE DEF S
    <2>1. n \in S
      BY <1>4, <1>5, SetInduction
    <2>. QED BY <2>1 DEF S
  <1>. QED BY <1>6 DEF x

CtrReady(e, k, b, c, t, d) ==
  /\ e.ctr = c /\ e.dlen = d /\ e.hmac = HmacInit(k)
  /\ IsSeq(e.out) /\ BeginsStream(Cat(t, e.out), b)
  /\ Len(Cat(t, e.out)) = (c - 1) * H

LEMMA CtrTurn ==
  ASSUME NEW e, NEW a, NEW k, NEW b, NEW c \in Nat \ {0}, NEW t, NEW d \in Nat,
         CtrReady(e, k, b, c, t, d), IsSeq(t), d >= H,
         b[c] = Mac(k, Cat(Counter(c), Info(a)))
  PROVE  CtrReady(CtrBlock(e, a), k, b, c + 1, t, d - H)
  <1>. DEFINE h == HmacUpdate(HmacInit(k), Cat(Counter(c), Info(a)))
              v == b[c]
              r == CtrBlock(e, a)
  <1>1. IsSeq(v) /\ Len(v) = H /\ v = HmacBytes(h)
    BY ItemsAreSeqs DEF Mac
  <1>2. Cut(v, 0, H) = v
    BY <1>1, Whole
  <1>3. HmacReinit(h) = HmacInit(k)
    BY DEF HmacReinit, HmacUpdate, HmacInit
  <1>4. /\ r.hmac = HmacReinit(h) /\ r.ctr = c + 1 /\ r.dlen = d - H
        /\ r.out = Cat(e.out, Cut(HmacBytes(h), 0, H))
    <2>1. e.hmac = HmacInit(k) /\ e.ctr = c /\ e.dlen = d
      BY Zenon DEF CtrReady
    <2>2. (IF d < H THEN d ELSE H) = H /\ ~ H < H /\ 0 + 1 = 1
      BY KdfAssumption DEF KdfAssumption
    <2>3. /\ r.hmac = IF H < H THEN HmacFinal(h) ELSE HmacReinit(h)
          /\ r.ctr = c + 1 /\ r.dlen = d - H
          /\ r.out = e.out \o SubSeq(HmacBytes(h), 1, H)
      BY <2>1, <2>2 DEF CtrBlock, Cat
    <2>. QED BY <2>2, <2>3 DEF Cat, Cut
  <1>. HIDE DEF h, r
  <1>5. /\ BeginsStream(Cat(Cat(t, e.out), v), b)
        /\ Len(Cat(Cat(t, e.out), v)) = (c - 1) * H + H
    <2>1. c - 1 \in Nat /\ (c - 1) + 1 = c /\ 0 \in 0..H /\ H \in 0..H
      BY KdfAssumption DEF KdfAssumption
    <2>2. BeginsStream(Cat(t, e.out), b) /\ Len(Cat(t, e.out)) = (c - 1) * H + 0
      BY KdfAssumption DEF CtrReady, KdfAssumption
    <2>3. /\ BeginsStream(Cat(Cat(t, e.out), Cut(b[(c - 1) + 1], 0, H)), b)
          /\ Len(Cat(Cat(t, e.out), Cut(b[(c - 1) + 1], 0, H))) = (c - 1) * H + H
      BY <1>1, <2>1, <2>2, StreamGrows
    <2>. QED BY <1>2, <2>1, <2>3
  <1>. HIDE DEF v
  <1>6. IsSeq(Cat(e.out, v)) /\ Cat(Cat(t, e.out), v) = Cat(t, Cat(e.out, v))
    <2>. DEFINE o == e.out
    <2>1. IsSeq(o) /\ IsSeq(v)
      BY <1>1, Zenon DEF CtrReady
    <2>. HIDE DEF o
    <2>2. IsSeq(Cat(o, v))
      BY <2>1, Joined, Zenon
    <2>3. Cat(Cat(t, o), v) = Cat(t, Cat(o, v))
      BY <2>1, Associative
    <2>. QED BY <2>2, <2>3 DEF o
  <1>7. (c - 1) * H + H = (c + 1 - 1) * H
    BY KdfAssumption DEF KdfAssumption
  <1>8. r.out = Cat(e.out, v)
    BY <1>1, <1>2, <1>4, Zenon
  <1>9. CtrReady(r, k, b, c + 1, t, d - H)
    BY <1>3, <1>4, <1>5, <1>6, <1>7, <1>8 DEF CtrReady
  <1>. QED BY <1>9 DEF r

\* The rest of a request that ends inside a block.
LEMMA CtrLastTurn ==
  ASSUME NEW e, NEW a, NEW k, NEW b, NEW c \in Nat \ {0}, NEW t, NEW d \in Nat,
         CtrReady(e, k, b, c, t, d), IsSeq(t), d < H,
         b[c] = Mac(k, Cat(Counter(c), Info(a)))
  PROVE  LET r == CtrBlock(e, a) IN
         r.ctr = c + 1 /\ BeginsStream(Cat(t, r.out), b)
  <1>. DEFINE h == HmacUpdate(HmacInit(k), Cat(Counter(c), Info(a)))
              v == b[c]
              u == Cut(v, 0, d)
              r == CtrBlock(e, a)
  <1>1. IsSeq(v) /\ Len(v) = H /\ v = HmacBytes(h)
    BY ItemsAreSeqs DEF Mac
  <1>2. r.ctr = c + 1 /\ r.out = Cat(e.out, Cut(HmacBytes(h), 0, d))
    <2>1. e.hmac = HmacInit(k) /\ e.ctr = c /\ e.dlen = d
      BY Zenon DEF CtrReady
    <2>2. (IF d < H THEN d ELSE H) = d /\ 0 + 1 = 1
      OBVIOUS
    <2>. QED BY <2>1, <2>2 DEF CtrBlock, Cat, Cut
  <1>3. Within(v, 0, d)
    BY <1>1, KdfAssumption DEF Within, KdfAssumption
  <1>. HIDE DEF h, r
  <1>4. BeginsStream(Cat(Cat(t, e.out), u), b)
    <2>1. c - 1 \in Nat /\ (c - 1) + 1 = c /\ 0 \in 0..H /\ d \in 0..H
      BY KdfAssumption DEF KdfAssumption
    <2>2. BeginsStream(Cat(t, e.out), b) /\ Len(Cat(t, e.out)) = (c - 1) * H + 0
      BY KdfAssumption DEF CtrReady, KdfAssumption
    <2>3. BeginsStream(Cat(Cat(t, e.out), Cut(b[(c - 1) + 1], 0, d)), b)
      BY <1>1, <2>1, <2>2, StreamGrows
    <2>. QED BY <2>1, <2>3
  <1>. HIDE DEF v
  <1>5. IsSeq(u)
    BY <1>3, Part
  <1>. HIDE DEF u
  <1>6. Cat(Cat(t, e.out), u) = Cat(t, Cat(e.out, u))
    <2>. DEFINE o == e.out
    <2>1. IsSeq(o)
      BY Zenon DEF CtrReady
    <2>. HIDE DEF o
    <2>2. Cat(Cat(t, o), u) = Cat(t, Cat(o, u))
      BY <1>5, <2>1, Associative
    <2>. QED BY <2>2 DEF o
  <1>7. r.out = Cat(e.out, u)
    BY <1>1, <1>2, Zenon DEF u
  <1>. QED BY <1>2, <1>4, <1>6, <1>7 DEF r

LEMMA CtrStream ==
  ASSUME NEW b, NEW k, NEW a, NEW t, NEW c \in Nat \ {0}, NEW m \in Nat,
         NEW n \in 0..m, NEW d \in Nat, NEW e,
         IsSeq(t), CtrReady(e, k, b, c, t, n * H + d),
         \A i \in c..(c + n - 1) : b[i] = Mac(k, Cat(Counter(i), Info(a)))
  PROVE  CtrReady(CtrExpanding(e, a, m)[n], k, b, c + n, t, d)
  <1>. USE KdfAssumption DEF KdfAssumption
  <1>. DEFINE x == CtrExpanding(e, a, m)
              At(i) == CtrReady(x[i], k, b, c + i, t, (n - i) * H + d)
              S == {i \in Nat : i <= n => At(i)}
  <1>1. /\ x[0] = e
        /\ \A i \in 1..m : x[i] = CtrBlock(x[i - 1], a)
    BY CtrExpandingTurns
  <1>. HIDE DEF x
  <1>2. 0 \in S
    <2>1. c + 0 = c /\ (n - 0) * H + d = n * H + d
      OBVIOUS
    <2>. QED BY <1>1, <2>1
  <1>3. ASSUME NEW i \in Nat, i \in S PROVE i + 1 \in S
    <2>. SUFFICES ASSUME i + 1 <= n PROVE At(i + 1)
      OBVIOUS
    <2>1. x[i + 1] = CtrBlock(x[i], a)
      <3>1. i + 1 \in 1..m /\ (i + 1) - 1 = i
        OBVIOUS
      <3>. QED BY <1>1, <3>1
    <2>. DEFINE g == c + i
                f == (n - i) * H + d
    <2>2. g \in Nat \ {0} /\ g \in c..(c + n - 1)
      OBVIOUS
    <2>3. f \in Nat /\ f >= H /\ f - H = (n - (i + 1)) * H + d
      <3>1. n - i \in Nat /\ n - i >= 1
        OBVIOUS
      <3>2. (n - i) * H >= 1 * H
        BY <3>1
      <3>. QED BY <3>1, <3>2
    <2>4. CtrReady(x[i], k, b, g, t, f)
      BY <1>3
    <2>5. g + 1 = c + (i + 1)
      OBVIOUS
    <2>. HIDE DEF f, g
    <2>6. CtrReady(x[i + 1], k, b, g + 1, t, f - H)
      <3>1. b[g] = Mac(k, Cat(Counter(g), Info(a)))
        BY <2>2
      <3>. QED BY <2>1, <2>2, <2>3, <2>4, <3>1, CtrTurn
    <2>. QED BY <2>3, <2>5, <2>6
  <1>4. At(n)
    <2>. HIDE DEF S
    <2>1. \A i \in Nat : i \in S
      BY <1>2, <1>3, SetInduction
    <2>2. n <= n
      OBVIOUS
    <2>. QED BY <2>1, <2>2 DEF S
  <1>5. (n - n) * H + d = d
    OBVIOUS
  <1>. QED BY <1>4, <1>5 DEF x

LEMMA CtrRequest ==
  ASSUME NEW b, NEW k, NEW a, NEW t, NEW c \in Nat \ {0}, NEW n \in Nat, NEW e,
         IsSeq(t), CtrReady(e, k, b, c, t, n),
         \A i \in c..(c + Turns(n) - 1) : b[i] = Mac(k, Cat(Counter(i), Info(a)))
  PROVE  LET r == CtrExpanding(e, a, Turns(n))[Turns(n)] IN
         /\ r.ctr = c + Turns(n) /\ BeginsStream(Cat(t, r.out), b)
         /\ n % H = 0 => /\ r.hmac = HmacInit(k)
                         /\ Len(Cat(t, r.out)) = (c + Turns(n) - 1) * H
  <1>. USE KdfAssumption DEF KdfAssumption
  <1>. DEFINE m == Turns(n)
              x == CtrExpanding(e, a, m)
  <1>1. m \in Nat /\ c + m \in Nat \ {0} /\ (n % H = 0 <=> n = m * H)
    <2>1. m \in Nat /\ (n % H = 0 <=> n = m * H)
      BY TurnsOf
    <2>. HIDE DEF m
    <2>. QED BY <2>1
  <1>2. CASE n % H = 0
    <2>1. m \in 0..m /\ m * H + 0 = n
      BY <1>1, <1>2
    <2>2. CtrReady(e, k, b, c, t, m * H + 0)
      BY <2>1
    <2>3. CtrReady(x[m], k, b, c + m, t, 0)
      <3>. HIDE DEF m
      <3>. QED BY <1>1, <2>1, <2>2, CtrStream DEF m
    <2>. DEFINE g == c + m
                y == x[m]
    <2>. HIDE DEF g, y
    <2>4. /\ y.ctr = g /\ BeginsStream(Cat(t, y.out), b)
          /\ y.hmac = HmacInit(k) /\ Len(Cat(t, y.out)) = (g - 1) * H
      <3>1. CtrReady(y, k, b, g, t, 0)
        BY <2>3 DEF g, y
      <3>. QED BY <3>1, Zenon DEF CtrReady
    <2>5. g - 1 = c + m - 1
      <3>. HIDE DEF m
      <3>. QED BY <1>1 DEF g
    <2>. QED BY <2>4, <2>5, Zenon DEF g, y
  <1>3. CASE n % H # 0
    <2>. DEFINE j == m - 1
                d == n - j * H
    <2>1. /\ j \in Nat /\ j \in 0..m /\ d \in Nat /\ d < H /\ j * H + d = n
          /\ m \in 1..m /\ j = m - 1
          /\ c + j \in Nat \ {0} /\ c + j + 1 = c + m /\ c + j \in c..(c + m - 1)
      <3>1. n # 0
        BY <1>3
      <3>2. m # 0 /\ j * H < n /\ n <= m * H
        BY <3>1, TurnsOf
      <3>. HIDE DEF m
      <3>3. j \in Nat /\ j * H \in Nat /\ m * H = j * H + H
        BY <1>1, <3>2
      <3>4. n # m * H
        BY <1>1, <1>3
      <3>. QED BY <1>1, <3>2, <3>3, <3>4
    <2>2. \A i \in c..(c + j - 1) : b[i] = Mac(k, Cat(Counter(i), Info(a)))
      BY <1>1, <2>1
    <2>3. b[c + j] = Mac(k, Cat(Counter(c + j), Info(a)))
      BY <2>1
    <2>4. x[m] = CtrBlock(x[j], a)
      BY <1>1, <2>1, CtrExpandingTurns
    <2>. HIDE DEF m, d
    <2>5. CtrReady(x[j], k, b, c + j, t, d)
      <3>1. CtrReady(e, k, b, c, t, j * H + d)
        BY <2>1
      <3>. HIDE DEF j
      <3>. QED BY <1>1, <2>1, <2>2, <3>1, CtrStream
    <2>. HIDE DEF x, j
    <2>6. CtrBlock(x[j], a).ctr = c + j + 1 /\ BeginsStream(Cat(t, CtrBlock(x[j], a).out), b)
      BY <2>1, <2>3, <2>5, CtrLastTurn
    <2>. QED BY <1>3, <2>1, <2>4, <2>6 DEF x, m
  <1>. QED BY <1>2, <1>3

-----------------------------------------------------------------------------
(* A request of HKDF from any aligned state.                               *)

\* The rest of the last block, handed out and given to the HMAC.
LEMMA RestGiven ==
  ASSUME NEW k, NEW b, NEW h, NEW c \in Nat \ {0}, NEW p, NEW q \in 0..H, NEW t,
         NEW m \in Nat, q + m <= H, Aligned(k, b, h, c, p, q, t),
         \A i \in Nat : IsSeq(b[i]), \A i \in Nat \ {0} : Len(b[i]) = H,
         NEW rest, rest = Cut(p, q, q + m)
  PROVE  /\ IsSeq(rest)
         /\ Aligned(k, b, IF q < H THEN HmacUpdate(h, rest) ELSE h, c, p, q + m,
                    Cat(t, rest))
  <1>. USE KdfAssumption DEF KdfAssumption
  <1>1. CASE q = H
    <2>1. m = 0 /\ ~ q < H /\ q + m = H /\ IsSeq(p)
      BY <1>1 DEF Aligned
    <2>2. rest = <<>>
      <3>1. PICK S : p \in Seq(S)
        BY <2>1 DEF IsSeq
      <3>2. SubSeq(p, H + 1, H) = <<>>
        BY <3>1
      <3>. QED BY <1>1, <2>1, <3>2 DEF Cut
    <2>3. IsSeq(t)
      BY DEF Aligned, BeginsStream
    <2>4. Cat(t, rest) = t
      BY <2>2, <2>3, Whole
    <2>5. IsSeq(rest)
      BY <2>2, ItemsAreSeqs
    <2>. QED BY <1>1, <2>1, <2>4, <2>5
  <1>2. CASE q < H
    <2>. DEFINE v == b[c - 1]
                z == q + m
                g == HmacUpdate(h, rest)
    <2>1. /\ c > 1 /\ p = v /\ Len(t) = (c - 2) * H + q
          /\ h = Given(k, Cut(v, 0, q)) /\ BeginsStream(t, b)
      BY <1>2 DEF Aligned
    <2>2. /\ c - 2 \in Nat /\ (c - 2) + 1 = c - 1 /\ c - 1 \in Nat \ {0}
          /\ z \in q..H /\ z \in Nat /\ q \in Nat /\ q <= z /\ 0 <= q /\ q <= H
      BY <2>1
    <2>3. IsSeq(v) /\ Len(v) = H
      BY <2>2
    <2>4. BeginsStream(Cat(t, rest), b) /\ Len(Cat(t, rest)) = (c - 2) * H + z
      <3>. DEFINE i == c - 2
      <3>1. /\ i \in Nat /\ IsSeq(b[i + 1]) /\ Len(b[i + 1]) = H
            /\ Len(t) = i * H + q /\ b[i + 1] = v
        BY <2>1, <2>2, <2>3
      <3>2. rest = Cut(b[i + 1], q, z)
        BY <2>1, <3>1
      <3>. HIDE DEF i, z, v
      <3>3. /\ BeginsStream(Cat(t, Cut(b[i + 1], q, z)), b)
            /\ Len(Cat(t, Cut(b[i + 1], q, z))) = i * H + z
        BY <2>1, <2>2, <3>1, StreamGrows
      <3>. QED BY <3>2, <3>3 DEF i
    <2>5. Within(v, q, z) /\ Within(v, 0, q)
      BY <2>2, <2>3 DEF Within
    <2>. HIDE DEF v, z
    <2>6. rest = Cut(v, q, z)
      BY <2>1 DEF z
    <2>7. /\ IsSeq(rest) /\ IsSeq(Cut(v, 0, q))
          /\ Cat(Cut(v, 0, q), rest) = Cut(v, 0, z)
      BY <2>5, <2>6, Part
    <2>8. g = Given(k, Cut(v, 0, z))
      BY <2>1, <2>7, GivenHmac
    <2>9. z = H => Cut(v, 0, z) = v /\ (c - 2) * H + z = (c - 1) * H
      <3>1. Cut(v, 0, H) = v
        BY <2>3, Whole
      <3>2. (c - 2) * H + H = (c - 1) * H
        OBVIOUS
      <3>. QED BY <3>1, <3>2
    <2>. HIDE DEF g
    <2>10. IsSeq(p)
      BY <2>1, <2>3
    <2>11. Aligned(k, b, g, c, p, z, Cat(t, rest))
      BY <2>1, <2>4, <2>8, <2>9, <2>10 DEF Aligned, v
    <2>. QED BY <1>2, <2>7, <2>11 DEF g, z
  <1>. QED BY <1>1, <1>2

\* What is aligned does not depend on the blocks to come.
LEMMA AlignedAgain ==
  ASSUME NEW k, NEW b1, NEW b2, NEW h, NEW c \in Nat \ {0}, NEW p, NEW q \in 0..H,
         NEW t, Aligned(k, b1, h, c, p, q, t), \A i \in 0..(c - 1) : b1[i] = b2[i]
  PROVE  Aligned(k, b2, h, c, p, q, t)
  <1>. USE KdfAssumption DEF KdfAssumption
  <1>1. c - 1 \in Nat /\ c - 1 \in 0..(c - 1) /\ \A i \in 1..(c - 1) : b1[i] = b2[i]
    OBVIOUS
  <1>2. b1[c - 1] = b2[c - 1]
    BY <1>1
  <1>3. BeginsStream(t, b1)
    BY DEF Aligned
  <1>4. Len(t) <= (c - 1) * H
    <2>1. CASE q = H
      <3>1. Len(t) = (c - 1) * H
        BY <2>1 DEF Aligned
      <3>. QED BY <3>1
    <2>2. CASE q < H
      <3>1. Len(t) = (c - 2) * H + q
        BY <2>2 DEF Aligned
      <3>2. (c - 2) * H + H = (c - 1) * H
        OBVIOUS
      <3>. QED BY <2>2, <3>1, <3>2
    <2>. QED BY <2>1, <2>2
  <1>5. BeginsStream(t, b2)
    BY <1>1, <1>3, <1>4, SameStream
  <1>. QED BY <1>2, <1>5 DEF Aligned

\* The additional input of a request is in force for its blocks.
WithBlocks(s, a, n) == s \o [i \in 1..n |-> a]

AppliesTo(w, s, a, n) ==
  /\ Len(s) \in Nat /\ Len(w) = Len(s) + n
  /\ \A j \in 1..Len(s) : w[j] = s[j]
  /\ \A j \in (Len(s) + 1)..(Len(s) + n) : w[j] = a

LEMMA Appended ==
  ASSUME NEW s, IsSeq(s), NEW a, NEW n \in Nat
  PROVE  IsSeq(WithBlocks(s, a, n)) /\ AppliesTo(WithBlocks(s, a, n), s, a, n)
  <1>. DEFINE u == [i \in 1..n |-> a]
              w == s \o u
  <1>1. u \in Seq({a}) /\ Len(u) = n /\ \A i \in 1..n : u[i] = a
    OBVIOUS
  <1>2. PICK S : s \in Seq(S)
    BY DEF IsSeq
  <1>. HIDE DEF u
  <1>3. s \in Seq(S \union {a}) /\ u \in Seq(S \union {a})
    BY <1>1, <1>2
  <1>4. w \in Seq(S \union {a}) /\ Len(s) \in Nat
    BY <1>3
  <1>5. Len(w) = Len(s) + n
    BY <1>1, <1>3
  <1>6. \A j \in 1..Len(s) : w[j] = s[j]
    BY <1>3
  <1>7. ASSUME NEW j \in (Len(s) + 1)..(Len(s) + n) PROVE w[j] = a
    <2>1. j - Len(s) \in 1..n /\ j \in 1..(Len(s) + Len(u)) /\ ~ j <= Len(s)
      BY <1>1, <1>4
    <2>2. w[j] = u[j - Len(s)]
      BY <1>3, <2>1
    <2>. QED BY <1>1, <2>1, <2>2
  <1>8. IsSeq(w)
    BY <1>4 DEF IsSeq
  <1>9. AppliesTo(w, s, a, n)
    BY <1>4, <1>5, <1>6, <1>7 DEF AppliesTo
  <1>. QED BY <1>8, <1>9 DEF WithBlocks, u

-----------------------------------------------------------------------------
(* The inductive invariant.                                                *)

KdfKind == kdf \in {"hkdf", "ctr"}

\* A state that is not seeded is the one lc_rng_alloc leaves.
Unseeded ==
  ~rng_initialized =>
    /\ ctr = 1 /\ partial = <<>> /\ partial_ptr = H
    /\ taken = <<>> /\ blocks = <<>> /\ ~seedError /\ ~inside

HkdfCounts == kdf = "hkdf" => ctr \in 1..CtrMax /\ partial_ptr \in 0..H

\* The HMAC of HKDF holds what was given out of the last block, and the
\* stream has reached the same place.
HkdfAligned ==
  kdf = "hkdf" /\ rng_initialized /\ ~seedError =>
    /\ IsSeq(blocks) /\ Len(blocks) = ctr - 1
    /\ Aligned(hmac.key, Stream("hkdf", hmac.key, blocks), hmac, ctr, partial,
               partial_ptr, taken)

\* The HMAC of the counter KDF is fresh before every block until a request
\* has ended inside one, and keeps its key.
CtrAligned ==
  kdf = "ctr" /\ rng_initialized /\ ~seedError =>
    /\ IsHmac(hmac)
    /\ BeginsStream(taken, Stream("ctr", hmac.key, blocks))
    /\ ~inside => /\ ctr \in Nat \ {0} /\ IsSeq(blocks) /\ Len(blocks) = ctr - 1
                  /\ hmac = HmacInit(hmac.key)
                  /\ Len(taken) = (ctr - 1) * H

KdfInv == KdfKind /\ Unseeded /\ HkdfCounts /\ HkdfAligned /\ CtrAligned

LEMMA NothingTaken ==
  ASSUME NEW b
  PROVE  BeginsStream(<<>>, b)
  BY ItemsAreSeqs DEF BeginsStream

LEMMA InitInv == KdfInit => KdfInv
  BY KdfAssumption DEF KdfInit, KdfInv, KdfKind, Unseeded, HkdfCounts, HkdfAligned,
                       CtrAligned, KdfAssumption

LEMMA SeedStep ==
  ASSUME KdfInv, NEW s, KdfSeed(s)
  PROVE  KdfInv'
  <1>. USE KdfAssumption DEF KdfAssumption, KdfSeed
  <1>1. /\ ctr = 1 /\ partial = <<>> /\ partial_ptr = H
        /\ taken = <<>> /\ blocks = <<>> /\ ~seedError /\ ~inside
        /\ rng_initialized' /\ kdf \in {"hkdf", "ctr"}
    BY DEF KdfInv, KdfKind, Unseeded
  <1>2. /\ ctr' = 1 /\ partial' = <<>> /\ partial_ptr' = H
        /\ taken' = <<>> /\ blocks' = <<>> /\ kdf' = kdf
        /\ hmac' = HmacInit(s) /\ hmac'.key = s
    BY <1>1 DEF HmacInit
  <1>3. KdfKind' /\ Unseeded' /\ HkdfCounts'
    BY <1>1, <1>2 DEF KdfKind, Unseeded, HkdfCounts
  <1>4. IsSeq(<<>>) /\ Len(<<>>) = 0
    BY ItemsAreSeqs
  <1>5. (1 - 1) * H = 0 /\ 1 - 1 = 0
    OBVIOUS
  <1>6. HkdfAligned'
    <2>1. Stream("hkdf", s, <<>>)[0] = <<>>
      <3>1. IsTheStream(Stream("hkdf", s, <<>>), "hkdf", s, <<>>)
        BY StreamIs, Zenon
      <3>. QED BY <3>1, Zenon DEF IsTheStream
    <2>2. HmacInit(s) = Given(s, <<>>)
      BY <1>4, GivenHmac
    <2>3. Aligned(s, Stream("hkdf", s, <<>>), HmacInit(s), 1, <<>>, H, <<>>)
      BY <1>4, <1>5, <2>1, <2>2, NothingTaken DEF Aligned
    <2>. QED BY <1>2, <1>4, <1>5, <2>3 DEF HkdfAligned
  <1>7. CtrAligned'
    <2>1. IsHmac(HmacInit(s))
      BY DEF IsHmac, HmacInit
    <2>. QED BY <1>2, <1>4, <1>5, <2>1, NothingTaken DEF CtrAligned
  <1>. QED BY <1>3, <1>6, <1>7 DEF KdfInv

LEMMA SeedFailsStep ==
  ASSUME KdfInv, KdfSeedFails
  PROVE  KdfInv'
  BY KdfAssumption DEF KdfInv, KdfKind, Unseeded, HkdfCounts, HkdfAligned,
                       CtrAligned, KdfAssumption, KdfSeedFails

LEMMA ZeroStep ==
  ASSUME KdfInv, KdfZero
  PROVE  KdfInv'
  BY KdfAssumption DEF KdfInv, KdfKind, Unseeded, HkdfCounts, HkdfAligned,
                       CtrAligned, KdfAssumption, KdfZero

LEMMA HkdfStep ==
  ASSUME KdfInv, NEW n \in KdfRequests, NEW a, HkdfGenerate(n, a)
  PROVE  KdfInv'
  <1>. USE KdfAssumption DEF KdfAssumption
  <1>. DEFINE q == partial_ptr
              todo == FromRest(n)
              d == n - todo
              rest == SubSeq(partial, q + 1, q + todo)
              h == IF q < H THEN HmacUpdate(hmac, rest) ELSE hmac
              e == [hmac |-> h, ctr |-> ctr, dlen |-> d, partial |-> partial,
                    partial_ptr |-> q + todo, out |-> rest]
              r == IF PastLimit(d, ctr) THEN e ELSE Expanded(e, a)
              turns == IF PastLimit(d, ctr) THEN 0 ELSE Turns(d)
  <1>1. /\ kdf = "hkdf" /\ rng_initialized /\ kdf' = kdf /\ rng_initialized'
        /\ hmac' = r.hmac /\ ctr' = r.ctr /\ partial' = r.partial
        /\ partial_ptr' = r.partial_ptr /\ taken' = taken \o r.out
        /\ blocks' = blocks \o [i \in 1..(r.ctr - ctr) |-> a]
        /\ (seedError' <=> seedError) /\ (inside' <=> inside)
    BY DEF HkdfGenerate
  <1>2. ctr \in 1..CtrMax /\ q \in 0..H /\ n \in Nat
    BY <1>1 DEF KdfInv, HkdfCounts
  <1>3. /\ todo \in Nat /\ d \in Nat /\ q + todo \in 0..H
        /\ d # 0 => q + todo = H
    BY <1>2 DEF FromRest
  <1>4. e.ctr = ctr /\ e.dlen = d /\ e.partial_ptr = q + todo /\ e.out = rest
        /\ e.hmac = h /\ e.partial = partial
    OBVIOUS
  <1>. HIDE DEF todo, d, rest, h, e
  <1>5. turns \in Nat /\ ctr + turns \in 1..CtrMax
    <2>1. CASE PastLimit(d, ctr)
      BY <1>2, <2>1
    <2>2. CASE ~ PastLimit(d, ctr)
      <3>1. CtrMax - ctr \in Nat /\ d <= H * (CtrMax - ctr)
        BY <1>2, <1>3, <2>2 DEF PastLimit
      <3>2. Turns(d) \in Nat /\ Turns(d) <= CtrMax - ctr
        BY <1>3, <3>1, TurnsOf
      <3>. QED BY <1>2, <2>2, <3>2
    <2>. QED BY <2>1, <2>2
  <1>6. r.ctr = ctr + turns /\ r.partial_ptr \in 0..H
    <2>1. CASE PastLimit(d, ctr)
      BY <1>2, <1>3, <1>4, <2>1
    <2>2. CASE ~ PastLimit(d, ctr)
      BY <1>2, <1>3, <1>4, <2>2, ExpandedCounter
    <2>. QED BY <2>1, <2>2
  <1>7. KdfKind' /\ Unseeded' /\ HkdfCounts' /\ CtrAligned'
    BY <1>1, <1>5, <1>6 DEF KdfKind, Unseeded, HkdfCounts, CtrAligned
  <1>8. ASSUME ~seedError
        PROVE  /\ IsSeq(blocks') /\ Len(blocks') = ctr' - 1
               /\ Aligned(hmac'.key, Stream("hkdf", hmac'.key, blocks'), hmac', ctr',
                          partial', partial_ptr', taken')
    <2>. DEFINE k == hmac.key
                old == Stream("hkdf", k, blocks)
                b == Stream("hkdf", k, blocks')
    <2>1. /\ IsSeq(blocks) /\ Len(blocks) = ctr - 1
          /\ Aligned(k, old, hmac, ctr, partial, q, taken)
      BY <1>1, <1>8 DEF KdfInv, HkdfAligned
    <2>2. blocks' = blocks \o [i \in 1..turns |-> a]
      <3>1. r.ctr - ctr = turns
        BY <1>2, <1>5, <1>6
      <3>. QED BY <1>1, <3>1
    <2>3. /\ IsSeq(blocks') /\ Len(blocks') = ctr - 1 + turns
          /\ \A j \in 1..(ctr - 1) : blocks'[j] = blocks[j]
          /\ \A j \in ctr..(ctr + turns - 1) : blocks'[j] = a
      <3>1. /\ IsSeq(blocks') /\ Len(blocks') = Len(blocks) + turns
            /\ \A j \in 1..Len(blocks) : blocks'[j] = blocks[j]
            /\ \A j \in (Len(blocks) + 1)..(Len(blocks) + turns) : blocks'[j] = a
        <4>1. blocks' = WithBlocks(blocks, a, turns)
          BY <2>2 DEF WithBlocks
        <4>2. /\ IsSeq(WithBlocks(blocks, a, turns))
              /\ AppliesTo(WithBlocks(blocks, a, turns), blocks, a, turns)
          BY <1>5, <2>1, Appended
        <4>. QED BY <4>1, <4>2 DEF AppliesTo
      <3>. QED BY <1>2, <1>5, <2>1, <3>1
    <2>4. /\ b[0] = <<>> /\ \A i \in Nat : IsSeq(b[i])
          /\ \A i \in Nat \ {0} : Len(b[i]) = H
          /\ \A i \in Nat : b[i + 1] = NextBlock("hkdf", k, blocks', b[i], i + 1)
      <3>1. IsTheStream(b, "hkdf", k, blocks')
        BY StreamIs, Zenon
      <3>. HIDE DEF b
      <3>. QED BY <3>1, Zenon DEF IsTheStream
    <2>5. Aligned(k, b, hmac, ctr, partial, q, taken)
      <3>1. ctr - 1 \in Nat /\ \A j \in 1..(ctr - 1) : blocks[j] = blocks'[j]
        BY <1>2, <2>3
      <3>2. \A i \in 0..(ctr - 1) : old[i] = b[i]
        BY <3>1, StreamsAgree
      <3>3. ctr \in Nat \ {0}
        BY <1>2
      <3>. HIDE DEF old, b
      <3>. QED BY <1>2, <2>1, <3>2, <3>3, AlignedAgain
    <2>6. \A i \in ctr..(ctr + turns - 1) :
             b[i] = Mac(k, Cat(Cat(b[i - 1], Info(a)), Counter(i)))
      <3>. TAKE i \in ctr..(ctr + turns - 1)
      <3>1. i - 1 \in Nat /\ (i - 1) + 1 = i
        BY <1>2, <1>5
      <3>2. b[i] = NextBlock("hkdf", k, blocks', b[i - 1], i)
        BY <2>4, <3>1
      <3>3. blocks'[i] = a
        BY <2>3
      <3>4. NextBlock("hkdf", k, blocks', b[i - 1], i)
              = Mac(k, (b[i - 1] \o Info(a)) \o Counter(i))
        BY <3>3 DEF NextBlock
      <3>. QED BY <3>2, <3>4, Zenon DEF Cat
    <2>. HIDE DEF b, old, k
    <2>7. /\ IsSeq(rest)
          /\ Aligned(k, b, h, ctr, partial, q + todo, Cat(taken, rest))
      <3>1. rest = Cut(partial, q, q + todo)
        BY DEF rest, Cut
      <3>2. ctr \in Nat \ {0} /\ q + todo <= H
        BY <1>2, <1>3
      <3>. QED BY <1>2, <1>3, <2>4, <2>5, <3>1, <3>2, RestGiven DEF h
    <2>8. Aligned(k, b, r.hmac, r.ctr, r.partial, r.partial_ptr, Cat(taken, r.out))
      <3>1. Aligned(k, b, e.hmac, e.ctr, e.partial, e.partial_ptr, Cat(taken, e.out))
        BY <1>4, <2>7
      <3>2. CASE PastLimit(d, ctr)
        BY <3>1, <3>2
      <3>3. CASE ~ PastLimit(d, ctr) /\ d = 0
        <4>1. Expanded(e, a) = e
          <5>1. Turns(e.dlen) = 0 /\ 0 \in Nat
            BY <1>3, <1>4, <3>3, TurnsOf
          <5>. QED BY <5>1, ExpandingTurns DEF Expanded
        <4>. QED BY <3>1, <3>3, <4>1
      <3>4. CASE ~ PastLimit(d, ctr) /\ d # 0
        <4>1. q + todo = H
          BY <1>3, <3>4
        <4>2. IsSeq(taken) /\ ctr \in Nat \ {0}
          BY <1>2, <2>5 DEF Aligned, BeginsStream
        <4>3. ExpandReady(e, k, b, ctr, taken, d)
          BY <1>4, <2>7, <4>1 DEF Aligned, ExpandReady
        <4>4. \A i \in ctr..(ctr + Turns(d) - 1) :
                 b[i] = Mac(k, Cat(Cat(b[i - 1], Info(a)), Counter(i)))
          BY <2>6, <3>4
        <4>. HIDE DEF r
        <4>5. LET x == Expanded(e, a) IN
              Aligned(k, b, x.hmac, x.ctr, x.partial, x.partial_ptr, Cat(taken, x.out))
          BY <1>3, <2>4, <4>2, <4>3, <4>4, ExpandedStream
        <4>. QED BY <3>4, <4>5 DEF r
      <3>. QED BY <3>2, <3>3, <3>4
    <2>9. r.hmac.key = k
      <3>. HIDE DEF r
      <3>. QED BY <1>6, <2>8 DEF Aligned, Given
    <2>. QED BY SMTT(40), <1>1, <1>2, <1>5, <1>6, <2>3, <2>8, <2>9 DEF b, Cat
  <1>9. HkdfAligned'
    BY <1>1, <1>8 DEF HkdfAligned
  <1>. QED BY <1>7, <1>9 DEF KdfInv

LEMMA CtrStep ==
  ASSUME KdfInv, NEW n \in KdfRequests, NEW a, CtrGenerate(n, a)
  PROVE  KdfInv'
  <1>. USE KdfAssumption DEF KdfAssumption
  <1>. DEFINE e == [hmac |-> hmac, ctr |-> ctr, dlen |-> n, out |-> <<>>]
              turns == Turns(n)
              r == CtrExpanding(e, a, turns)[turns]
  <1>1. /\ kdf = "ctr" /\ rng_initialized /\ kdf' = kdf /\ rng_initialized'
        /\ hmac' = r.hmac /\ ctr' = r.ctr
        /\ taken' = IF inside THEN taken ELSE taken \o r.out
        /\ blocks' = IF inside THEN blocks ELSE blocks \o [i \in 1..turns |-> a]
        /\ (seedError' <=> seedError) /\ (inside' <=> (inside \/ n % H # 0))
    BY DEF CtrGenerate
  <1>2. n \in Nat /\ turns \in Nat
    BY TurnsOf
  <1>3. e.hmac = hmac /\ e.ctr = ctr /\ e.dlen = n /\ e.out = <<>>
    OBVIOUS
  <1>. HIDE DEF e
  <1>4. KdfKind' /\ Unseeded' /\ HkdfCounts' /\ HkdfAligned'
    BY <1>1 DEF KdfKind, Unseeded, HkdfCounts, HkdfAligned
  <1>5. ASSUME ~seedError
        PROVE  IsHmac(hmac') /\ hmac'.key = hmac.key
    <2>1. IsHmac(e.hmac)
      BY <1>1, <1>3, <1>5 DEF KdfInv, CtrAligned
    <2>. HIDE DEF turns
    <2>2. IsHmac(r.hmac) /\ r.hmac.key = e.hmac.key
      BY <1>2, <2>1, KeyStays
    <2>. HIDE DEF r
    <2>. QED BY <1>1, <1>3, <2>2
  <1>6. ASSUME ~seedError, inside
        PROVE  BeginsStream(taken', Stream("ctr", hmac'.key, blocks'))
    <2>1. BeginsStream(taken, Stream("ctr", hmac.key, blocks))
      BY <1>1, <1>6 DEF KdfInv, CtrAligned
    <2>. QED BY <1>1, <1>5, <1>6, <2>1
  <1>. HIDE DEF turns, r
  <1>7. ASSUME ~seedError, ~inside
        PROVE  /\ BeginsStream(taken', Stream("ctr", hmac'.key, blocks'))
               /\ n % H = 0 =>
                    /\ ctr' \in Nat \ {0} /\ IsSeq(blocks') /\ Len(blocks') = ctr' - 1
                    /\ hmac' = HmacInit(hmac'.key) /\ Len(taken') = (ctr' - 1) * H
    <2>. DEFINE k == hmac.key
                old == Stream("ctr", k, blocks)
                b == Stream("ctr", k, blocks')
    <2>1. /\ ctr \in Nat \ {0} /\ IsSeq(blocks) /\ Len(blocks) = ctr - 1
          /\ hmac = HmacInit(k) /\ BeginsStream(taken, old)
          /\ Len(taken) = (ctr - 1) * H
      BY <1>1, <1>7 DEF KdfInv, CtrAligned
    <2>2. /\ IsSeq(blocks') /\ Len(blocks') = ctr - 1 + turns
          /\ \A j \in 1..(ctr - 1) : blocks'[j] = blocks[j]
          /\ \A j \in ctr..(ctr + turns - 1) : blocks'[j] = a
      <3>1. /\ IsSeq(blocks') /\ Len(blocks') = Len(blocks) + turns
            /\ \A j \in 1..Len(blocks) : blocks'[j] = blocks[j]
            /\ \A j \in (Len(blocks) + 1)..(Len(blocks) + turns) : blocks'[j] = a
        <4>1. blocks' = WithBlocks(blocks, a, turns)
          BY <1>1, <1>7 DEF WithBlocks
        <4>2. /\ IsSeq(WithBlocks(blocks, a, turns))
              /\ AppliesTo(WithBlocks(blocks, a, turns), blocks, a, turns)
          BY <1>2, <2>1, Appended
        <4>. QED BY <4>1, <4>2 DEF AppliesTo
      <3>. QED BY <1>2, <2>1, <3>1
    <2>3. \A i \in Nat : b[i + 1] = NextBlock("ctr", k, blocks', b[i], i + 1)
      <3>1. IsTheStream(b, "ctr", k, blocks')
        BY StreamIs, Zenon
      <3>. HIDE DEF b
      <3>. QED BY <3>1, Zenon DEF IsTheStream
    <2>4. BeginsStream(taken, b)
      <3>1. ctr - 1 \in Nat /\ \A j \in 1..(ctr - 1) : blocks[j] = blocks'[j]
        BY <2>1, <2>2
      <3>2. \A i \in 0..(ctr - 1) : old[i] = b[i]
        BY <3>1, StreamsAgree
      <3>3. \A i \in 1..(ctr - 1) : old[i] = b[i]
        BY <3>2
      <3>4. Len(taken) <= (ctr - 1) * H
        BY <2>1, <3>1
      <3>. HIDE DEF old, b
      <3>. QED BY <2>1, <3>1, <3>3, <3>4, SameStream
    <2>5. \A i \in ctr..(ctr + turns - 1) : b[i] = Mac(k, Cat(Counter(i), Info(a)))
      <3>. TAKE i \in ctr..(ctr + turns - 1)
      <3>1. i - 1 \in Nat /\ (i - 1) + 1 = i
        BY <1>2, <2>1
      <3>2. b[i] = NextBlock("ctr", k, blocks', b[i - 1], i)
        BY <2>3, <3>1
      <3>3. blocks'[i] = a
        BY <2>2
      <3>4. NextBlock("ctr", k, blocks', b[i - 1], i) = Mac(k, Counter(i) \o Info(a))
        BY <3>3 DEF NextBlock
      <3>. QED BY <3>2, <3>4, Zenon DEF Cat
    <2>. HIDE DEF b, old, k
    <2>6. CtrReady(e, k, b, ctr, taken, n)
      <3>1. IsSeq(taken) /\ IsSeq(<<>>)
        BY <2>4, ItemsAreSeqs DEF BeginsStream
      <3>2. Cat(taken, <<>>) = taken
        BY <3>1, Whole
      <3>. QED BY <1>3, <2>1, <2>4, <3>1, <3>2 DEF CtrReady
    <2>7. /\ r.ctr = ctr + turns /\ BeginsStream(Cat(taken, r.out), b)
          /\ n % H = 0 => /\ r.hmac = HmacInit(k)
                          /\ Len(Cat(taken, r.out)) = (ctr + turns - 1) * H
      <3>1. IsSeq(taken)
        BY <2>4 DEF BeginsStream
      <3>2. \A i \in ctr..(ctr + Turns(n) - 1) : b[i] = Mac(k, Cat(Counter(i), Info(a)))
        BY <2>5 DEF turns
      <3>. QED BY <1>2, <2>1, <2>6, <3>1, <3>2, CtrRequest DEF r, turns
    <2>8. taken' = Cat(taken, r.out)
      BY <1>1, <1>7 DEF Cat
    <2>9. BeginsStream(taken', Stream("ctr", hmac'.key, blocks'))
      BY <1>5, <1>7, <2>7, <2>8 DEF b, k
    <2>10. ASSUME n % H = 0
           PROVE  /\ ctr' \in Nat \ {0} /\ IsSeq(blocks') /\ Len(blocks') = ctr' - 1
                  /\ hmac' = HmacInit(hmac'.key) /\ Len(taken') = (ctr' - 1) * H
      <3>1. ctr' = ctr + turns /\ hmac' = HmacInit(k) /\ hmac'.key = k
        BY <1>1, <1>5, <1>7, <2>7, <2>10 DEF k
      <3>2. Len(taken') = (ctr + turns - 1) * H
        BY <2>7, <2>8, <2>10
      <3>. QED BY <1>2, <2>1, <2>2, <3>1, <3>2
    <2>. QED BY <2>9, <2>10
  <1>8. CtrAligned'
    BY <1>1, <1>5, <1>6, <1>7 DEF CtrAligned
  <1>. QED BY <1>4, <1>8 DEF KdfInv

LEMMA InvHolds == KdfSpec => []KdfInv
  <1>1. KdfInit => KdfInv
    BY InitInv
  <1>2. KdfInv /\ [KdfNext]_kdfVars => KdfInv'
    <2>. SUFFICES ASSUME KdfInv, [KdfNext]_kdfVars PROVE KdfInv'
      OBVIOUS
    <2>1. ASSUME NEW s \in Seeds, KdfSeed(s) PROVE KdfInv'
      BY <2>1, SeedStep
    <2>2. CASE KdfSeedFails
      BY <2>2, SeedFailsStep
    <2>3. CASE KdfZero
      BY <2>3, ZeroStep
    <2>4. ASSUME NEW n \in KdfRequests, NEW a \in Infos, HkdfGenerate(n, a) PROVE KdfInv'
      BY <2>4, HkdfStep
    <2>5. ASSUME NEW n \in KdfRequests, NEW a \in Infos, CtrGenerate(n, a) PROVE KdfInv'
      BY <2>5, CtrStep
    <2>6. CASE UNCHANGED kdfVars
      BY <2>6 DEF kdfVars, KdfInv, KdfKind, Unseeded, HkdfCounts, HkdfAligned, CtrAligned
    <2>. QED BY <2>1, <2>2, <2>3, <2>4, <2>5, <2>6 DEF KdfNext
  <1>. QED BY <1>1, <1>2, PTL DEF KdfSpec

-----------------------------------------------------------------------------
(* The theorems.                                                           *)

\* However many requests lc_hkdf_rng_generate is given, whatever their sizes
\* and whatever becomes of the seed, the eight bit block counter stays within
\* its range: a block of HKDF is never computed twice for one seed.
THEOREM CounterNeverWraps == KdfSpec => []CounterInRange
  <1>1. KdfInv => CounterInRange
    BY KdfAssumption DEF KdfInv, HkdfCounts, CounterInRange, KdfAssumption
  <1>. QED BY <1>1, InvHolds, PTL

\* After a seed call that succeeded, the bytes of lc_hkdf_rng_generate are the
\* stream of RFC 5869 for that seed and the inputs of the requests, however these
\* are cut, refused and repeated; those of lc_kdf_ctr_rng_generate are the stream
\* of SP 800-108 up to and including the first request that ends inside a block
\* (the HMAC is left finalized by it, and no later request continues the stream).
THEOREM StreamOfTheSeed == KdfSpec => []OutputIsStream
  <1>. USE KdfAssumption DEF KdfAssumption
  <1>1. ASSUME KdfInv, rng_initialized, ~seedError
        PROVE  BeginsStream(taken, Stream(kdf, hmac.key, blocks))
    <2>1. CASE kdf = "hkdf"
      BY <1>1, <2>1 DEF KdfInv, HkdfAligned, Aligned
    <2>2. CASE kdf = "ctr"
      BY <1>1, <2>2 DEF KdfInv, CtrAligned
    <2>. QED BY <1>1, <2>1, <2>2 DEF KdfInv, KdfKind
  <1>2. ASSUME NEW i \in Nat
        PROVE  Stream(kdf, hmac.key, blocks)[i] = Block(hmac.key, i)
    BY DEF Stream, Block
  <1>3. KdfInv => OutputIsStream
    <2>. SUFFICES ASSUME KdfInv, rng_initialized, ~seedError,
                         NEW i \in 1..Len(taken)
                  PROVE  taken[i] = Block(hmac.key, ((i - 1) \div H) + 1)[((i - 1) % H) + 1]
      BY DEF OutputIsStream
    <2>. DEFINE b == Stream(kdf, hmac.key, blocks)
                j == ((i - 1) \div H) + 1
    <2>1. taken[i] = b[j][((i - 1) % H) + 1]
      BY <1>1 DEF BeginsStream
    <2>2. j \in Nat
      <3>1. i - 1 \in Nat
        BY <1>1 DEF BeginsStream, IsSeq
      <3>. QED BY <3>1
    <2>. HIDE DEF j
    <2>3. b[j] = Block(hmac.key, j)
      BY <1>2, <2>2
    <2>. QED BY <2>1, <2>3, Zenon DEF j
  <1>. QED BY <1>3, InvHolds, PTL
=============================================================================
