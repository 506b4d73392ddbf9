------------------------------- MODULE MCCerts -------------------------------
(* Certificates and messages for the instances of TrustStore: two root CAs r *)
(* and s that share all identifiers but not their keys; CAs i (issued by r), *)
(* j and k (issued by i), e (expired), n (no CA).  If s comes first in the   *)
(* store, it is taken for the issuer of i.  Messages: p with a chain up to   *)
(* j; q with two CAs that issue each other; v with a copy of the root s; w   *)
(* with a CA whose key usage is not critical.                                *)
EXTENDS Naturals, TLC

CONSTANTS t1, t2

\* The row of a certificate: <<Id, Skid, Auth0, Auth1, Key, SignedBy>>.
Row ==
  [r  |-> <<"idR", "skR", "no",  "skR", "kR", "kR">>,
   s  |-> <<"idR", "skR", "no",  "skR", "kS", "kS">>,
   i  |-> <<"idI", "skI", "no",  "skR", "kI", "kR">>,
   j  |-> <<"idJ", "skJ", "idI", "skI", "kJ", "kI">>,
   k  |-> <<"idK", "skK", "idI", "no",  "kK", "kI">>,
   n  |-> <<"idN", "skN", "no",  "skR", "kN", "kR">>,
   e  |-> <<"idE", "skE", "no",  "skR", "kE", "kR">>,
   p1 |-> <<"idP", "skP", "no",  "skJ", "kP", "kJ">>,
   pj |-> <<"idJ", "skJ", "idI", "skI", "kJ", "kI">>,
   q1 |-> <<"idQ", "skQ", "no",  "skA", "kQ", "kA">>,
   qa |-> <<"idA", "skA", "no",  "skB", "kA", "kB">>,
   qb |-> <<"idB", "skB", "no",  "skA", "kB", "kA">>,
   v1 |-> <<"idV", "skV", "no",  "skR", "kV", "kS">>,
   w1 |-> <<"idW", "skW", "no",  "skU", "kW", "kU">>,
   wu |-> <<"idU", "skU", "idR", "skR", "kU", "kR">>,
   vr |-> <<"idR", "skR", "no",  "skR", "kS", "kS">>]

MCCert == DOMAIN Row
Column(n) == [c \in MCCert |-> Row[c][n]]
MCId == Column(1)
MCSkid == Column(2)
MCAuth0 == Column(3)
MCAuth1 == Column(4)
MCKey == Column(5)
MCSignedBy == Column(6)

MCSelfSigned == {"r", "s", "vr"}
MCIssuing == {"r", "s", "i", "j", "k", "e", "pj", "qa", "qb", "vr", "wu"}
MCCritical == MCIssuing \ {"wu"}
MCInTime == MCCert \ {"e"}

MCMessage == {"p", "q", "v", "w"}
MCBundle == [p |-> <<"p1", "pj">>, q |-> <<"q1", "qa", "qb">>,
             v |-> <<"v1", "vr">>, w |-> <<"w1", "wu">>]
MCSigner == [p |-> "p1", q |-> "q1", v |-> "v1", w |-> "w1"]

Reader == t1 :> {} @@ t2 :> MCMessage
NoReader == t1 :> {} @@ t2 :> {}

MCMaxCalls == t1 :> 3 @@ t2 :> 1

\* Only t1 offers CAs that need a chain.
OneClimber == t1 :> {"r", "s", "i", "j", "e"} @@ t2 :> {"s", "n"}
TwoClimbers == t1 :> {"r", "i", "j"} @@ t2 :> {"k"}

\* Signer infos for Pkcs7Message: sound ones, with attributes, signatures and
\* chains of all kinds, and ones that fail at one other check.  Messages have
\* one of them, or two of the more plausible ones.
SoundSigner ==
  [hash |-> TRUE, attrs |-> "none", cert |-> TRUE, fit |-> TRUE, over |-> "d1",
   chain |-> "ok"]
UnknownHash == [SoundSigner EXCEPT !.hash = FALSE]
MCSigners ==
  {[SoundSigner EXCEPT !.attrs = a, !.over = o, !.chain = c] :
     a \in {"none", "missing", "short", "d1", "d2"},
     o \in {"attrs", "nothing", "d1", "d2"}, c \in {"ok", "ENOKEY", "rejected"}}
  \cup {UnknownHash, [SoundSigner EXCEPT !.cert = FALSE],
        [SoundSigner EXCEPT !.fit = FALSE]}
Plausible ==
  {s \in MCSigners : s.attrs \in {"none", "d1"} /\ s.over \in {"attrs", "d1"}}
MCSignerLists == {<<s>> : s \in MCSigners} \cup (Plausible \X Plausible)
=============================================================================
