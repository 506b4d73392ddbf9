----------------------------- MODULE Pkcs7Message -----------------------------
(* Verification of a PKCS#7 message (asn1/src/pkcs7_verify.c): the content,  *)
(* which may be detached and supplied later, the signer infos with their     *)
(* authenticated attributes, and the digest each of them caches.  Digests    *)
(* and signatures are ideal: a digest is the content it is of, a signature   *)
(* is what it was made over.  TrustStore has the climb of the chain; here    *)
(* its result is one of the facts about a signer info.                       *)
EXTENDS Naturals, Sequences

CONSTANTS
  Contents,    \* the possible contents
  SignerLists, \* sequences of signer infos, see Signers
  Absent       \* no content, no digest, no call yet

\* What a parsed signer info says: whether its hash algorithm is known, the
\* messageDigest among its attributes ("none": no attributes, "missing": none
\* among them, "short": of another size), whether its certificate is in the
\* message, whether that may sign (signing time, key usage), what the signature
\* was made over, and the end of the climb of the chain.
Attributes == {"none", "missing", "short"} \cup Contents
Signers ==
  [hash : BOOLEAN, attrs : Attributes, cert : BOOLEAN, fit : BOOLEAN,
   over : {"attrs", "nothing"} \cup Contents,
   chain : {"ok", "ENOKEY", "rejected"}]

ASSUME MessageAssumption ==
  /\ SignerLists \subseteq Seq(Signers) \ {<<>>}
  /\ {"none", "missing", "short", "attrs", "nothing"} \cap Contents = {}

VARIABLES
  signers,  \* list_head_sinfo
  data,     \* the content, Absent while it is not supplied
  digests,  \* digest_size and digest of each signer info, Absent if not set
  useAttrs, \* sig->authattrs of each signer info is set
  result,   \* of the last verification, Absent before
  proper    \* ghost: each digest was taken of the content and found good

messageVars == <<signers, data, digests, useAttrs, result, proper>>

\* lc_pkcs7_decode; a detached message has no content.
MessageInit ==
  /\ signers \in SignerLists
  /\ data \in Contents \cup {Absent}
  /\ digests = [i \in DOMAIN signers |-> Absent]
  /\ useAttrs = [i \in DOMAIN signers |-> FALSE]
  /\ result = Absent /\ proper = TRUE

\* The hash of the content; nothing is hashed if there is none.
Hashed == IF data = Absent THEN "nothing" ELSE data

(* pkcs7_digest: what it returns, and what it leaves in the signer info.  A  *)
(* digest that is set is good.                                               *)
DigestResult(i) ==
  IF digests[i] # Absent THEN "ok"
  ELSE IF ~signers[i].hash THEN "ENOPKG"
  ELSE IF signers[i].attrs \in {"none", Hashed} THEN "ok"
  ELSE "rejected"

DigestAfter(i) ==
  IF digests[i] = Absent /\ signers[i].hash THEN Hashed ELSE digests[i]

MutFirstCallOnly(i) ==
  digests[i] = Absent /\ signers[i].attrs # "none" /\ DigestResult(i) = "ok"

\* The attributes are used if their digest is that of the content.
AttrsAfter(i) ==
  \/ useAttrs[i]
  \/ /\ digests[i] = Absent /\ signers[i].attrs # "none"
     /\ DigestResult(i) = "ok"

\* public_key_verify_signature_*: attributes if set, else the digest.
SignatureGood(i) ==
  signers[i].over = IF AttrsAfter(i) THEN "attrs" ELSE DigestAfter(i)

\* pkcs7_verify_one.
VerifyOne(i) ==
  IF DigestResult(i) # "ok" THEN DigestResult(i)
  ELSE IF ~signers[i].cert THEN "ENOKEY"
  ELSE IF ~signers[i].fit \/ ~SignatureGood(i) THEN "rejected"
  ELSE signers[i].chain

(* lc_pkcs7_verify: the loop ends at the first signer info that is wrong;    *)
(* otherwise one good one is enough.                                         *)
Wrong == {i \in DOMAIN signers : VerifyOne(i) = "rejected"}
Visited == {i \in DOMAIN signers : \A j \in Wrong : i <= j}

MutIgnoresWrong(Answers) ==
  IF "ok" \in Answers THEN "ok"
  ELSE IF "rejected" \in Answers THEN "rejected"
  ELSE IF "ENOPKG" \in Answers THEN "ENOPKG"
  ELSE "ENOKEY"

Settled(Answers) ==
  IF "rejected" \in Answers THEN "rejected"
  ELSE IF "ok" \in Answers THEN "ok"
  ELSE IF "ENOPKG" \in Answers THEN "ENOPKG"
  ELSE "ENOKEY"

\* The digests of some signer infos are taken.
TakeDigests(S) ==
  /\ digests' = [i \in DOMAIN signers |->
                   IF i \in S THEN DigestAfter(i) ELSE digests[i]]
  /\ useAttrs' = [i \in DOMAIN signers |->
                    IF i \in S THEN AttrsAfter(i) ELSE useAttrs[i]]
  /\ proper' = (proper /\ data # Absent
                  /\ \A i \in S : DigestResult(i) # "rejected")

Verify ==
  /\ IF data = Absent
     THEN result' = "ENODATA" /\ UNCHANGED <<digests, useAttrs, proper>>
     ELSE /\ result' = Settled({VerifyOne(i) : i \in Visited})
          /\ TakeDigests(Visited)
  /\ UNCHANGED <<signers, data>>

\* lc_pkcs7_get_digest, for messages of one signer info.
GetDigest ==
  /\ Len(signers) = 1
  /\ TakeDigests({1})
  /\ UNCHANGED <<signers, data, result>>

\* lc_pkcs7_supply_detached_data: once.
SupplyDetached(d) ==
  /\ data = Absent
  /\ data' = d
  /\ UNCHANGED <<signers, digests, useAttrs, result, proper>>

MessageNext ==
  Verify \/ GetDigest \/ \E d \in Contents : SupplyDetached(d)

MessageSpec == MessageInit /\ [][MessageNext]_messageVars

-----------------------------------------------------------------------------
\* What the message and the content say, whatever was called before.
Consistent(i) ==
  /\ signers[i].attrs \in {"none", data}
  /\ signers[i].over = IF signers[i].attrs = "none" THEN data ELSE "attrs"

Judged(i) ==
  LET s == signers[i] IN
  IF ~s.hash THEN "ENOPKG"
  ELSE IF s.attrs \notin {"none", data} THEN "rejected"
  ELSE IF ~s.cert THEN "ENOKEY"
  ELSE IF ~s.fit \/ ~Consistent(i) THEN "rejected"
  ELSE s.chain

Judgement ==
  LET answers == {Judged(i) : i \in DOMAIN signers} IN
  IF data = Absent THEN "ENODATA"
  ELSE CHOOSE r \in {"rejected", "ok", "ENOPKG", "ENOKEY"} :
         /\ r \in answers
         /\ r # "rejected" => "rejected" \notin answers
         /\ r \in {"ENOPKG", "ENOKEY"} => "ok" \notin answers
         /\ r = "ENOKEY" => "ENOPKG" \notin answers

(* lc_pkcs7_verify: verified again, after lc_pkcs7_get_digest or with data   *)
(* supplied late, a message gets the verdict that its signer infos and its   *)
(* content deserve: no cached digest and no attribute of an earlier call     *)
(* counts, as long as no earlier call met a digest that was wrong or was     *)
(* taken without content.                                                    *)
VerdictOfMessage == [][Verify /\ proper => result' = Judgement]_messageVars

(* lc_pkcs7_parser.h:276-279: a message is verified only if 'the data digest *)
(* matches the digest in the AuthAttrs and any signature in the message      *)
(* ... can be verified', also by the second call.                            *)
AcceptedIsConsistent ==
  result = "ok" =>
    \E i \in DOMAIN signers :
      signers[i].hash /\ signers[i].cert /\ Consistent(i)
=============================================================================
