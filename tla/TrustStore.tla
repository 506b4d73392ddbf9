----------------------------- MODULE TrustStore -----------------------------
(***************************************************************************)
(* The trust store for X.509 certificates (asn1/src/pkcs7_trust.c) and the *)
(* validation of certificate chains (asn1/src/pkcs7_verify.c).             *)
(*                                                                         *)
(* The store is a singly linked list through the certificate objects that  *)
(* the callers own.  Threads append to it by compare-and-swap without a    *)
(* lock.  A chain is climbed from a certificate to its issuer, either in   *)
(* the certificates of a message or, when an intermediate CA is added, in  *)
(* the store itself, with a bit in each certificate to detect loops.       *)
(*                                                                         *)
(* The content of a certificate is constant.  A list search reads pointers *)
(* that only change from NULL, at the end of the list: it is one step.     *)
(***************************************************************************)
EXTENDS Integers, Sequences, FiniteSets

CONSTANTS
  Thread,        \* threads that use the store
  Cert,          \* certificate objects, those of messages included
  Null, Anchor,  \* the null pointer; the head pointer of the store
  NoId,          \* an identifier of length 0
  Id, Skid,      \* issuer name and serial number, subject key identifier
  Auth0, Auth1,  \* authority key identifier: the Id and Skid of the issuer
  KeyOf, SignedBy, \* public key, and the key whose signature it carries
  CA,            \* lc_x509_policy_is_ca
  SelfSigned,    \* the flag set by lc_x509_check_for_self_signed
  CertSign,      \* key usage present, with keyCertSign
  Critical,      \* key usage is critical
  InTime,        \* inside the validity period
  Message,       \* parsed PKCS#7 messages
  Bundle,        \* certificates of a message, in the order of its list
  Signer,        \* the certificate of a message that signed it
  Offers,        \* certificate objects a thread may offer to the store
  Checks,        \* messages a thread may verify
  MaxCalls       \* bound: calls of each thread

Bundled(m) == {Bundle[m][i] : i \in DOMAIN Bundle[m]}

ASSUME CertAssumption ==
  /\ Null \notin Cert /\ Anchor \notin Cert /\ Null # Anchor
  /\ \A c \in SelfSigned : SignedBy[c] = KeyOf[c]
  /\ \A c \in CA : Skid[c] # NoId

\* Every message has certificate objects of its own and belongs to a thread.
ASSUME BundleAssumption ==
  /\ \A m \in Message : Bundle[m] \in Seq(Cert) /\ Signer[m] \in Bundled(m)
  /\ \A m, n \in Message : m # n => Bundled(m) \intersect Bundled(n) = {}
  /\ \A m \in Message, t \in Thread : Bundled(m) \intersect Offers[t] = {}
  /\ \A t, u \in Thread : t # u => Checks[t] \intersect Checks[u] = {}
ASSUME BoundAssumption == MaxCalls \in [Thread -> Nat]

VARIABLES
  next,      \* the next pointers and, at Anchor, the head of the store
  seen,      \* certificates whose bit "seen" is set
  wiped,     \* certificates cleared by lc_pkcs7_trust_store_clear
  given,     \* certificates that are in the store or being added to it
  pc, op,    \* control point and operation of a thread
  subject,   \* the certificate given to lc_pkcs7_trust_store_add
  msg,       \* the message given to lc_pkcs7_verify
  chain,     \* certificate_chain: first of the certificates to climb in
  x,         \* the certificate whose issuer is sought
  at,        \* the pointer a loop over the store has reached
  rc,        \* result of the last call
  calls,     \* number of calls made
  entitled   \* history: would the running call succeed if it ran alone?

store == <<next, seen, wiped, given>>
frame == <<op, subject, msg, chain, x, at>>
vars == <<store, pc, frame, rc, calls, entitled>>

Labels == {"idle", "reset", "mark", "climb", "detach", "swap"}
Ops == {"add", "verify", "unanchored"}
Codes == {"ok", "EKEYREJECTED", "ENOKEY", "EBADMSG"}

Init ==
  /\ next = [c \in Cert \union {Anchor} |-> Null]
  /\ seen = {} /\ wiped = {} /\ given = {}
  /\ pc = [t \in Thread |-> "idle"]
  /\ op = [t \in Thread |-> "add"]
  /\ subject = [t \in Thread |-> Null]
  /\ msg = [t \in Thread |-> Null]
  /\ chain = [t \in Thread |-> Null]
  /\ x = [t \in Thread |-> Null]
  /\ at = [t \in Thread |-> Null]
  /\ rc = [t \in Thread |-> "ok"]
  /\ calls = [t \in Thread |-> 0]
  /\ entitled = [t \in Thread |-> FALSE]

-----------------------------------------------------------------------------
(* Lists and certificates.                                                 *)

\* The pointers from h on, n times.
Walk(ptr, h, n) ==
  LET node[i \in 0..n] ==
        IF i = 0 THEN h
        ELSE IF node[i-1] = Null THEN Null ELSE ptr[node[i-1]]
  IN  node

\* The certificates on the way.
Trace(ptr, h, n) ==
  LET node == Walk(ptr, h, n)
      length == Cardinality({i \in 0..n : node[i] # Null})
  IN  [i \in 1..length |-> node[i-1]]

\* The certificates from h on.  A list has at most the given certificates;
\* one more is followed so that a cycle would show.
ListFrom(h) == Trace(next, h, Cardinality(given))

\* What is left of the first i certificates of a list without those gone.
Kept(list, gone, n) ==
  LET kept[i \in 0..n] ==
        IF i = 0 THEN <<>>
        ELSE IF list[i] \in gone THEN kept[i-1]
        ELSE Append(kept[i-1], list[i])
  IN  kept

Without(list, gone) == Kept(list, gone, Len(list))[Len(list)]

\* Cleared certificates have no identifier and match nothing.
Live(list) == Without(list, wiped)
Anchors == Live(ListFrom(next[Anchor]))

Items(list) == {list[i] : i \in DOMAIN list}
Members == Items(ListFrom(next[Anchor]))

\* Is p the certificate with the wanted authority identifiers?  The key
\* identifier alone counts only where the other one is missing.
Wanted(p, auth0, auth1) ==
  IF auth0 # NoId THEN Id[p] = auth0 ELSE auth1 # NoId /\ Skid[p] = auth1

MutLastMatch(list, auth0, auth1) ==
  LET hits == {i \in DOMAIN list : Wanted(list[i], auth0, auth1)}
  IN  IF hits = {} THEN Null
      ELSE list[CHOOSE i \in hits : \A j \in hits : j <= i]

Find(list, auth0, auth1) ==
  LET hits == {i \in DOMAIN list : Wanted(list[i], auth0, auth1)}
  IN  IF hits = {} THEN Null
      ELSE list[CHOOSE i \in hits : \A j \in hits : i <= j]

\* Issuer and serial number match, but the key identifier does not.
Mismatch(p, auth0, auth1) ==
  auth0 # NoId /\ auth1 # NoId /\ Skid[p] # auth1

Root(c) ==
  /\ c \in CA /\ c \in SelfSigned
  /\ Auth1[c] # NoId => Auth1[c] = Skid[c]

\* c has no key identifier, or k may not sign it.
Unauthorised(k, c) == Skid[c] = NoId \/ k \notin Critical \intersect CertSign

\* lc_x509_policy_verify_cert with the public key of k.
MutNoSignature(k, c) ==
  IF c \notin InTime \/ Unauthorised(k, c) THEN "EKEYREJECTED" ELSE "ok"

Verified(k, c) ==
  IF c \notin InTime THEN "EKEYREJECTED"
  ELSE IF SignedBy[c] # KeyOf[k] THEN "EBADMSG"
  ELSE IF Unauthorised(k, c) THEN "EKEYREJECTED"
  ELSE "ok"

\* A store with the certificates in anchors is asked for one that verifies c;
\* e is the answer if it does not hold one.
Anchored(anchors, c, auth0, auth1, e) ==
  LET k == Find(anchors, auth0, auth1) IN
  CASE k = Null -> e
    [] k # Null /\ Mismatch(k, auth0, auth1) -> "EKEYREJECTED"
    [] OTHER -> Verified(k, c)

\* What stands against p as an issuer that is not a root.
MutNoLoopCheck(p, c, marked) ==
  Mismatch(p, Auth0[c], Auth1[c]) \/ p \notin CertSign

Unfit(p, c, marked) ==
  \/ Mismatch(p, Auth0[c], Auth1[c])
  \/ p \notin CertSign
  \/ ~Root(p) /\ p \in marked

\* One turn of the loop of lc_pkcs7_verify_sig_chain: its verdict on c, or
\* "climb" if it goes on with the issuer.
Turn(list, anchors, c, marked, anchored) ==
  LET p == Find(list, Auth0[c], Auth1[c]) IN
  CASE p = Null ->
         IF anchored THEN Anchored(anchors, c, Auth0[c], Auth1[c], "EKEYREJECTED")
                     ELSE "EKEYREJECTED"
    [] p # Null /\ Unfit(p, c, marked) -> "EKEYREJECTED"
    [] p # Null /\ ~Unfit(p, c, marked) /\ Root(p) ->
         IF anchored THEN Anchored(anchors, c, Id[p], Skid[p], "ENOKEY")
                     ELSE Verified(p, c)
    [] OTHER -> IF Verified(p, c) = "ok" THEN "climb" ELSE Verified(p, c)

\* A turn without marks and without a trust store.
LoneTurn(list, c) == Turn(list, <<>>, c, {}, FALSE)

\* The verdicts of climbs in a list that nobody disturbs, of at most n turns
\* after the first.
Verdicts(list, n) ==
  LET verdict[i \in 0..n] ==
        [c \in Cert |->
           LET r == LoneTurn(list, c)
               p == Find(list, Auth0[c], Auth1[c])
           IN  IF r # "climb" THEN r
               ELSE IF i = 0 THEN "EKEYREJECTED" ELSE verdict[i-1][p]]
  IN  verdict

\* The verdict on c of an undisturbed climb through the store.
Alone(c) ==
  LET n == Cardinality(given) IN Verdicts(Anchors, n)[n][c]

-----------------------------------------------------------------------------
(* Calls.                                                                  *)

Goto(t, l) == pc' = [pc EXCEPT ![t] = l]

\* The call returns r; its local variables are gone.
Return(t, r) ==
  /\ Goto(t, "idle")
  /\ rc' = [rc EXCEPT ![t] = r]
  /\ chain' = [chain EXCEPT ![t] = Null]
  /\ x' = [x EXCEPT ![t] = Null]
  /\ at' = [at EXCEPT ![t] = Null]

Begin(t, o) ==
  /\ pc[t] = "idle" /\ calls[t] < MaxCalls[t]
  /\ calls' = [calls EXCEPT ![t] = @ + 1]
  /\ op' = [op EXCEPT ![t] = o]

\* lc_pkcs7_trust_store_add: a root CA needs no chain, another CA one that
\* ends in the store.  The callers offer no object that is in the list.
Add(t, c) ==
  /\ c \in Offers[t] \ (given \union wiped)
  /\ Begin(t, "add")
  /\ subject' = [subject EXCEPT ![t] = c]
  /\ entitled' = [entitled EXCEPT ![t] = Root(c) \/ (c \in CA /\ Alone(c) = "ok")]
  /\ \/ /\ Root(c)
        /\ given' = given \union {c}
        /\ Goto(t, "detach")
        /\ UNCHANGED <<chain, x, at, rc>>
     \/ /\ ~Root(c) /\ c \notin CA
        /\ Return(t, "EKEYREJECTED")
        /\ UNCHANGED given
     \/ /\ ~Root(c) /\ c \in CA
        /\ given' = given \union {c}
        /\ chain' = [chain EXCEPT ![t] = next[Anchor]]
        /\ at' = [at EXCEPT ![t] = next[Anchor]]
        /\ x' = [x EXCEPT ![t] = c]
        /\ Goto(t, "reset")
        /\ UNCHANGED rc
  /\ UNCHANGED <<next, seen, wiped, msg>>

\* The chain part of lc_pkcs7_verify, with or without a trust store, for a
\* message whose data signature has been found to be that of its signer.
VerifyChain(t, m, o) ==
  /\ m \in Checks[t] /\ o \in {"verify", "unanchored"}
  /\ Begin(t, o)
  /\ msg' = [msg EXCEPT ![t] = m]
  /\ x' = [x EXCEPT ![t] = Signer[m]]
  /\ seen' = seen \ Bundled(m)
  /\ Goto(t, "mark")
  /\ UNCHANGED <<next, wiped, given, subject, chain, at, rc, entitled>>

\* One turn of the loop that clears the bits in the store.
MutNoReset(t) ==
  /\ pc[t] = "reset"
  /\ Goto(t, "mark")
  /\ UNCHANGED <<store, frame, rc, calls, entitled>>

ResetSeen(t) ==
  /\ pc[t] = "reset"
  /\ IF at[t] = Null
     THEN Goto(t, "mark") /\ UNCHANGED <<seen, at>>
     ELSE /\ seen' = seen \ {at[t]}
          /\ at' = [at EXCEPT ![t] = next[at[t]]]
          /\ UNCHANGED pc
  /\ UNCHANGED <<next, wiped, given, op, subject, msg, chain, x, rc, calls,
                 entitled>>

MarkSeen(t) ==
  /\ pc[t] = "mark"
  /\ seen' = seen \union {x[t]}
  /\ Goto(t, "climb")
  /\ UNCHANGED <<next, wiped, given, frame, rc, calls, entitled>>

\* The rest of a turn.  A rejected certificate stays with its caller.
List(t) == IF op[t] = "add" THEN Live(ListFrom(chain[t])) ELSE Bundle[msg[t]]

MutIgnoresVerdict(t) ==
  /\ pc[t] = "climb"
  /\ IF op[t] = "add" THEN Goto(t, "detach") /\ UNCHANGED <<chain, x, at, rc>>
                      ELSE Return(t, "ok")
  /\ UNCHANGED <<store, op, subject, msg, calls, entitled>>

Climb(t) ==
  LET r == Turn(List(t), Anchors, x[t], seen, op[t] = "verify") IN
  /\ pc[t] = "climb"
  /\ \/ /\ r = "climb"
        /\ x' = [x EXCEPT ![t] = Find(List(t), Auth0[x[t]], Auth1[x[t]])]
        /\ Goto(t, "mark")
        /\ UNCHANGED <<given, chain, at, rc>>
     \/ /\ r = "ok" /\ op[t] = "add"
        /\ Goto(t, "detach")
        /\ UNCHANGED <<given, chain, x, at, rc>>
     \/ /\ r # "climb" /\ (r # "ok" \/ op[t] # "add")
        /\ Return(t, r)
        /\ given' = IF op[t] = "add" THEN given \ {subject[t]} ELSE given
  /\ UNCHANGED <<next, seen, wiped, op, subject, msg, calls, entitled>>

\* x509->next = NULL; the append starts with the head pointer.
Detach(t) ==
  /\ pc[t] = "detach"
  /\ next' = [next EXCEPT ![subject[t]] = Null]
  /\ at' = [at EXCEPT ![t] = Anchor]
  /\ Goto(t, "swap")
  /\ UNCHANGED <<seen, wiped, given, op, subject, msg, chain, x, rc, calls,
                 entitled>>

\* Compare-and-swap of one pointer; if it is taken the next one is tried.
MutPlainStore(t) ==
  /\ pc[t] = "swap"
  /\ IF next[at[t]] = Null \/ at[t] # Anchor
     THEN /\ next' = [next EXCEPT ![at[t]] = subject[t]]
          /\ Return(t, "ok")
     ELSE /\ at' = [at EXCEPT ![t] = next[at[t]]]
          /\ UNCHANGED <<next, pc, chain, x, rc>>
  /\ UNCHANGED <<seen, wiped, given, op, subject, msg, calls, entitled>>

MutSkipsHead(t) ==
  /\ pc[t] = "swap"
  /\ IF next[at[t]] = Null
     THEN /\ next' = [next EXCEPT ![at[t]] = subject[t]]
          /\ Return(t, "ok")
     ELSE /\ at' = [at EXCEPT ![t] = next[next[at[t]]]]
          /\ UNCHANGED <<next, pc, chain, x, rc>>
  /\ UNCHANGED <<seen, wiped, given, op, subject, msg, calls, entitled>>

Swap(t) ==
  /\ pc[t] = "swap"
  /\ IF next[at[t]] = Null
     THEN /\ next' = [next EXCEPT ![at[t]] = subject[t]]
          /\ Return(t, "ok")
     ELSE /\ at' = [at EXCEPT ![t] = next[at[t]]]
          /\ UNCHANGED <<next, pc, chain, x, rc>>
  /\ UNCHANGED <<seen, wiped, given, op, subject, msg, calls, entitled>>

\* lc_pkcs7_trust_store_clear, which the last user calls.  It clears every
\* certificate, but the head pointer keeps its value.
Clear ==
  /\ \A t \in Thread : pc[t] = "idle"
  /\ Anchors # <<>>
  /\ wiped' = wiped \union Members
  /\ next' = [c \in DOMAIN next |-> IF c \in Members THEN Null ELSE next[c]]
  /\ seen' = seen \ Members
  /\ UNCHANGED <<given, pc, frame, rc, calls, entitled>>

Step(t) ==
  ResetSeen(t) \/ MarkSeen(t) \/ Climb(t) \/ Detach(t) \/ Swap(t)

Call(t) ==
  \/ \E c \in Cert : Add(t, c)
  \/ \E m \in Message, o \in Ops : VerifyChain(t, m, o)

Next == Clear \/ \E t \in Thread : Step(t) \/ Call(t)

Spec == Init /\ [][Next]_vars

\* A thread inside the library keeps running.
FairSpec == Spec /\ \A t \in Thread : WF_vars(Step(t))

-----------------------------------------------------------------------------
(* Properties.                                                             *)

\* Type invariant; an append never runs past the end of the list.
TypeOK ==
  /\ next \in [Cert \union {Anchor} -> Cert \union {Null}]
  /\ seen \subseteq Cert /\ wiped \subseteq given /\ given \subseteq Cert
  /\ pc \in [Thread -> Labels] /\ op \in [Thread -> Ops]
  /\ subject \in [Thread -> Cert \union {Null}]
  /\ msg \in [Thread -> Message \union {Null}]
  /\ chain \in [Thread -> Cert \union {Null}]
  /\ x \in [Thread -> Cert \union {Null}]
  /\ at \in [Thread -> Cert \union {Anchor, Null}]
  /\ rc \in [Thread -> Codes]
  /\ calls \in [Thread -> Nat] /\ \A t \in Thread : calls[t] <= MaxCalls[t]
  /\ entitled \in [Thread -> BOOLEAN]
  /\ \A t \in Thread : pc[t] = "swap" => at[t] # Null

\* pkcs7_verify.c:266-273: "the trust store requires that even in case of
\* intermediate certificates being find, their root must be in the trust
\* store"; and concurrent appends lose and reorder nothing.
Promise == INSTANCE TrustAnchors WITH
  Roots <- {c \in Cert : Root(c)},
  Issues <- {pair \in CertSign \X Cert : SignedBy[pair[2]] = KeyOf[pair[1]]},
  anchors <- Anchors

StoreKeepsPromise == Promise!Spec

\* Every certificate whose addition was reported as a success is a member,
\* until the store is cleared.
NothingLost ==
  \A c \in given \ wiped :
    (\A t \in Thread : subject[t] = c => pc[t] = "idle")
      => \E i \in 1..Len(Anchors) : Anchors[i] = c

\* The keys that certificates of m derive from the keys in K: the least set
\* with K that has the key of a CA whose signature is by a key in the set.
Closed(m, S) ==
  \A c \in Bundled(m) \intersect CertSign : SignedBy[c] \in S => KeyOf[c] \in S

Derived(m, K) ==
  LET keys == {KeyOf[c] : c \in Bundled(m)}
  IN  {k \in K \union keys :
         \A T \in SUBSET keys : Closed(m, K \union T) => k \in K \union T}

\* lc_pkcs7_parser.h:281-288: an accepted message has a chain of signatures
\* that begins with a key of the trust store or, without one, of a root CA
\* in the message, although the climb ends at the first key it knows.
ChainIsSound ==
  \A t \in Thread :
    pc[t] = "idle" /\ rc[t] = "ok" /\ op[t] # "add" =>
      LET K == IF op[t] = "verify"
               THEN {KeyOf[c] : c \in Members \union wiped}
               ELSE {KeyOf[c] : c \in {d \in Bundled(msg[t]) : Root(d)}}
      IN  SignedBy[Signer[msg[t]]] \in Derived(msg[t], K)

\* lc_pkcs7_parser.h:399-400: "-EKEYREJECTED implies that the provided
\* certificate does not have a chain to a root CA in the trust store".
RejectedHasNoChain ==
  \A t \in Thread :
    pc[t] = "idle" /\ op[t] = "add" /\ rc[t] = "EKEYREJECTED" => ~entitled[t]
=============================================================================
