----------------------------- MODULE TrustAnchors -----------------------------
(***************************************************************************)
(* What the certificate trust store promises: a sequence of certificates   *)
(* that grows at its end, one certificate at a time, and whose members are *)
(* root CAs or CAs whose signature verifies under the key of a member that *)
(* was there before.  It can be emptied as a whole.                        *)
(***************************************************************************)
EXTENDS Sequences, Naturals

CONSTANTS
  Cert,            \* certificates
  Roots,           \* those that are root CAs
  Issues           \* pairs <<a, c>>: the key of CA a verifies certificate c

VARIABLE anchors

Init == anchors = <<>>

Member(c) == \E i \in 1..Len(anchors) : anchors[i] = c

Trust(c) ==
  /\ ~Member(c)
  /\ c \in Roots \/ \E a \in Cert : Member(a) /\ <<a, c>> \in Issues
  /\ anchors' = Append(anchors, c)

Clear == anchors' = <<>>

Next == Clear \/ \E c \in Cert : Trust(c)

Spec == Init /\ [][Next]_anchors
=============================================================================
