----------------------------- MODULE SelfTestGate -----------------------------
(***************************************************************************)
(* What the self-test mechanism promises to the users of the library: an   *)
(* algorithm serves only while its verdict is "good", and an algorithm     *)
(* that computes wrong known answers never has that verdict.  Verdicts may *)
(* be withdrawn at any time and for any set of algorithms, and a sound     *)
(* algorithm may be refused.                                               *)
(***************************************************************************)
CONSTANTS Algorithm, User, Nobody, Broken

VARIABLES verdict, serving

Verdict == {"untested", "good", "bad"}

Init ==
  /\ verdict = [a \in Algorithm |-> "bad"]
  /\ serving = [u \in User |-> Nobody]

\* A sound algorithm has answered correctly.
Approve(a) ==
  /\ a \notin Broken
  /\ verdict' = [verdict EXCEPT ![a] = "good"]
  /\ UNCHANGED serving

\* The verdicts of some algorithms are withdrawn.
Withdraw(S, v) ==
  /\ verdict' = [a \in Algorithm |-> IF a \in S THEN v ELSE verdict[a]]
  /\ UNCHANGED serving

Serve(u, a) ==
  /\ serving[u] = Nobody /\ verdict[a] = "good"
  /\ serving' = [serving EXCEPT ![u] = a]
  /\ UNCHANGED verdict

Release(u) ==
  /\ serving' = [serving EXCEPT ![u] = Nobody]
  /\ UNCHANGED verdict

Next ==
  \/ \E a \in Algorithm : Approve(a)
  \/ \E S \in SUBSET Algorithm, v \in {"untested", "bad"} : Withdraw(S, v)
  \/ \E u \in User, a \in Algorithm : Serve(u, a)
  \/ \E u \in User : Release(u)

Spec == Init /\ [][Next]_<<verdict, serving>>
=============================================================================
