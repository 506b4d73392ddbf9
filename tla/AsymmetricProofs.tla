-------------------------- MODULE AsymmetricProofs ---------------------------
(***************************************************************************)
(* Theorems about the asymmetric side: KyberKex for every set of parties,  *)
(* key types and nonces, MlDsa for every set of keys, options and messages *)
(* of any length, Pkcs7Message for every number of signer infos and every  *)
(* content, all three for any number of calls.                             *)
(***************************************************************************)
EXTENDS KyberKex, MlDsa, Pkcs7Message, WellFoundedInduction, TLAPS

-----------------------------------------------------------------------------
(* MlDsa: the inductive invariant.                                         *)

\* The flag tells that the memory holds the matrix of the key it is bound to.
MatrixOK ==
  /\ memory \in {"absent", "small", "full"}
  /\ expanded \in BOOLEAN
  /\ expanded => memory = "full" /\ bound \in Key /\ ahat = bound

\* The running hash is that of the request; a drop of the matrix frees it.
RequestOK ==
  request # None =>
    /\ hashOf = request
    /\ request = Mu(request.tr, request.domain, request.message)
    /\ request.tr \in Key
    /\ bound \in {None, request.tr}

\* A signature was made with the matrix of its key, for what was asked.
SignatureOK ==
  signature # None =>
    /\ signature.made.mat = signature.made.key
    /\ signature.meant = <<signature.made.key, signature.made.mu>>

DsaInv == MatrixOK /\ RequestOK /\ SignatureOK /\ VerifiesIffSame

-----------------------------------------------------------------------------
\* A caller who may use the context for a key meets the matrix of that key.
LEMMA MatrixIsOfKey ==
  ASSUME MatrixOK, NEW k \in Key, MayUse(k)
  PROVE  Matrix(k) = k
  BY MlDsaAssumption DEF MatrixOK, MayUse, Matrix

\* What is made for a request is a signature for what was meant.
LEMMA MadeIsMeant ==
  ASSUME MatrixOK, NEW k \in Key, MayUse(k), NEW h
  PROVE  /\ Made(k, h).mat = Made(k, h).key
         /\ Meant(k, h) = <<Made(k, h).key, Made(k, h).mu>>
  BY MatrixIsOfKey DEF Made, Meant, EffectiveMu

\* The answer of a verification is whether both sides meant the same.
LEMMA AcceptsWhatWasMeant ==
  ASSUME MatrixOK, SignatureOK, signature # None,
         NEW k \in Key, MayUse(k), NEW h
  PROVE  Accepts(k, h, signature.made) <=> signature.meant = Meant(k, h)
  BY MatrixIsOfKey DEF Accepts, Meant, EffectiveMu, SignatureOK

\* The zeroized context has no matrix and no request.
LEMMA ZeroKeepsInv ==
  ASSUME DsaInv, CtxZero, UNCHANGED memory
  PROVE  MatrixOK' /\ RequestOK'
  BY MlDsaAssumption DEF DsaInv, MatrixOK, RequestOK, CtxZero,
                    Zeroized

\* One call binds the matrix it leaves to its key and has no request.
LEMMA OneCallKeepsInv ==
  ASSUME DsaInv, NEW k \in Key, NEW m, OneCall(k, m)
  PROVE  MatrixOK' /\ RequestOK'
<1>1. RequestOK'
  BY DEF OneCall, RequestOK
<1>2. MatrixOK /\ MayUse(k) /\ bound' = k /\ memory' = memory
  BY DEF OneCall, DsaInv
<1>3. Matrix(k) = k
  BY <1>2, MatrixIsOfKey
<1>4. CASE Fits /\ memory = "full"
  <2>1. ahat' = k /\ expanded' = TRUE
    BY <1>3, <1>4 DEF OneCall, Expand
  <2> QED BY <1>1, <1>2, <1>4, <2>1 DEF MatrixOK
<1>5. CASE ~(Fits /\ memory = "full")
  <2>1. UNCHANGED <<ahat, expanded>>
    BY <1>5 DEF OneCall, Expand, Fits
  <2>2. ~expanded
    BY <1>2, <1>5 DEF MatrixOK, Fits
  <2> QED BY <1>1, <1>2, <2>1, <2>2 DEF MatrixOK
<1> QED BY <1>4, <1>5

-----------------------------------------------------------------------------
LEMMA DsaInitInv == MlDsaInit => DsaInv
  BY DEF MlDsaInit, DsaInv, MatrixOK, RequestOK, SignatureOK, VerifiesIffSame

LEMMA DsaNextInv == DsaInv /\ [MlDsaNext]_mldsa => DsaInv'
<1> SUFFICES ASSUME DsaInv, [MlDsaNext]_mldsa PROVE DsaInv'
  OBVIOUS
<1> USE DEF DsaInv
<1>1. ASSUME NEW k \in Key, Start(k) PROVE DsaInv'
  <2>1. MatrixOK'
    BY <1>1, MlDsaAssumption DEF Start, MayUse, MatrixOK
  <2>2. RequestOK'
    BY <1>1 DEF Start, RequestOK, Mu
  <2> QED BY <1>1, <2>1, <2>2 DEF Start, SignatureOK, VerifiesIffSame
<1>2. ASSUME NEW x \in Symbol, Update(x) PROVE DsaInv'
  <2>1. RequestOK'
    BY <1>2 DEF Update, RequestOK, Mu
  <2> QED BY <1>2, <2>1 DEF Update, MatrixOK, SignatureOK, VerifiesIffSame
<1>3. ASSUME SignFinal PROVE DsaInv'
  <2>1. hashOf = request /\ request.tr \in Key /\ MayUse(request.tr)
    BY <1>3 DEF SignFinal, RequestOK, MayUse
  <2>2. SignatureOK'
    BY <1>3, <2>1, MadeIsMeant DEF SignFinal, SignatureOK
  <2> QED BY <1>3, <2>2, ZeroKeepsInv DEF SignFinal, VerifiesIffSame
<1>4. ASSUME VerifyFinal PROVE DsaInv'
  <2>1. hashOf = request /\ request.tr \in Key /\ MayUse(request.tr)
    BY <1>4 DEF VerifyFinal, RequestOK, MayUse
  <2>2. VerifiesIffSame'
    BY <1>4, <2>1, AcceptsWhatWasMeant DEF VerifyFinal, VerifiesIffSame
  <2>3. SignatureOK'
    BY <1>4 DEF VerifyFinal, SignatureOK
  <2> QED BY <1>4, <2>2, <2>3, ZeroKeepsInv DEF VerifyFinal
<1>5. ASSUME NEW k \in Key, NEW m \in Messages \cup {None}, SignCtx(k, m)
      PROVE  DsaInv'
  <2>1. OneCall(k, m) /\ MayUse(k)
    BY <1>5 DEF SignCtx, OneCall
  <2>2. SignatureOK'
    BY <1>5, <2>1, MadeIsMeant DEF SignCtx, SignatureOK
  <2> QED BY <1>5, <2>1, <2>2, OneCallKeepsInv DEF SignCtx, VerifiesIffSame
<1>6. ASSUME NEW k \in Key, NEW m \in Messages \cup {None}, VerifyCtx(k, m)
      PROVE  DsaInv'
  <2>1. OneCall(k, m) /\ MayUse(k)
    BY <1>6 DEF VerifyCtx, OneCall
  <2>2. VerifiesIffSame'
    BY <1>6, <2>1, AcceptsWhatWasMeant DEF VerifyCtx, VerifiesIffSame
  <2>3. SignatureOK'
    BY <1>6 DEF VerifyCtx, SignatureOK
  <2> QED BY <2>1, <2>2, <2>3, OneCallKeepsInv
<1>7. ASSUME NEW u \in UserCtx, SetUserCtx(u) PROVE DsaInv'
  BY <1>7 DEF SetUserCtx, MatrixOK, RequestOK, SignatureOK, VerifiesIffSame
<1>8. ASSUME NEW mu \in ExternalMu \cup {None}, SetExternalMu(mu) PROVE DsaInv'
  BY <1>8 DEF SetExternalMu, MatrixOK, RequestOK, SignatureOK, VerifiesIffSame
<1>9. CASE DropAhat
  BY <1>9 DEF DropAhat, MatrixOK, RequestOK, SignatureOK, VerifiesIffSame
<1>10. CASE Wipe
  <2>1. SignatureOK' /\ VerifiesIffSame'
    BY <1>10 DEF Wipe, SignatureOK, VerifiesIffSame
  <2> QED BY <1>10, <2>1, ZeroKeepsInv DEF Wipe
<1>11. CASE UNCHANGED mldsa
  BY <1>11 DEF mldsa, MatrixOK, RequestOK, SignatureOK, VerifiesIffSame
<1> QED
  BY <1>1, <1>2, <1>3, <1>4, <1>5, <1>6, <1>7, <1>8, <1>9, <1>10, <1>11
     DEF MlDsaNext

\* dilithium_signature_impl.h: whatever the context did before, a signature
\* is accepted exactly for the key and the message it was asked for.
THEOREM SameOrRejected ==
  MlDsaSpec => []VerifiesIffSame
<1>1. DsaInv => VerifiesIffSame
  BY DEF DsaInv
<1> QED BY <1>1, DsaInitInv, DsaNextInv, PTL DEF MlDsaSpec

-----------------------------------------------------------------------------
(* Pkcs7Message: the inductive invariant.                                  *)

MessageTypeOK ==
  /\ signers \in SignerLists
  /\ data \in Contents \cup {Absent}
  /\ digests = [i \in DOMAIN signers |-> digests[i]]
  /\ useAttrs = [i \in DOMAIN signers |-> useAttrs[i]]

\* As long as nothing was wrong, a cached digest is that of the content, and
\* the attributes are used if there are any and they hold this digest.
CacheOK(i) ==
  \/ digests[i] = Absent /\ useAttrs[i] = FALSE
  \/ /\ digests[i] = data /\ data # Absent
     /\ signers[i].hash /\ signers[i].attrs \in {"none", data}
     /\ useAttrs[i] = (signers[i].attrs # "none")

CacheInv == MessageTypeOK /\ (proper => \A i \in DOMAIN signers : CacheOK(i))

-----------------------------------------------------------------------------
LEMMA SignersOK ==
  ASSUME MessageTypeOK
  PROVE  /\ Len(signers) \in Nat /\ Len(signers) # 0
         /\ DOMAIN signers = 1 .. Len(signers)
         /\ \A i \in DOMAIN signers : signers[i] \in Signers
  BY MessageAssumption DEF MessageTypeOK

\* A set of signer infos that is not empty has a first one.
LEMMA FirstOne ==
  ASSUME NEW S, S \subseteq Nat, S # {}
  PROVE  \E i \in S : \A j \in S : i <= j
<1>1. PICK i \in S : \A j \in S : <<j, i>> \notin OpToRel(<, Nat)
  BY NatLessThanWellFounded, WFMin
<1>2. \A j \in S : ~(j < i)
  BY <1>1 DEF OpToRel
<1> QED BY <1>2

\* With good caches each signer info gets the answer it deserves.
LEMMA AnswerIsJudged ==
  ASSUME MessageTypeOK, data # Absent, NEW i \in DOMAIN signers, CacheOK(i)
  PROVE  /\ VerifyOne(i) = Judged(i)
         /\ VerifyOne(i) \in {"ok", "rejected", "ENOPKG", "ENOKEY"}
<1>1. signers[i] \in Signers /\ data \in Contents
  BY SignersOK DEF MessageTypeOK
<1>2. data \notin {"none", "missing", "short", "attrs", "nothing"}
  BY <1>1, MessageAssumption
<1>3. DigestResult(i) =
        IF ~signers[i].hash THEN "ENOPKG"
        ELSE IF signers[i].attrs \in {"none", data} THEN "ok" ELSE "rejected"
  BY <1>1, <1>2 DEF DigestResult, CacheOK, Hashed
<1>4. CASE DigestResult(i) = "ok"
  <2>1. AttrsAfter(i) <=> signers[i].attrs # "none"
    BY <1>1, <1>2, <1>3, <1>4 DEF AttrsAfter, CacheOK
  <2>2. DigestAfter(i) = data
    BY <1>3, <1>4 DEF DigestAfter, CacheOK, Hashed
  <2>3. SignatureGood(i) <=> Consistent(i)
    BY <2>1, <2>2, <1>2, <1>3, <1>4 DEF SignatureGood, Consistent
  <2> QED BY <1>1, <1>3, <1>4, <2>3 DEF VerifyOne, Judged, Signers
<1>5. CASE DigestResult(i) # "ok"
  BY <1>3, <1>5 DEF VerifyOne, Judged
<1> QED BY <1>4, <1>5

\* The loop sees a wrong signer info if there is one, and else all of them.
LEMMA LoopSees ==
  ASSUME MessageTypeOK
  PROVE  /\ Visited \subseteq DOMAIN signers
         /\ Wrong = {} => Visited = DOMAIN signers
         /\ Wrong # {} => \E i \in Visited : VerifyOne(i) = "rejected"
<1>1. Wrong \subseteq DOMAIN signers /\ DOMAIN signers \subseteq Nat
  BY SignersOK DEF Wrong
<1>2. ASSUME Wrong # {} PROVE \E i \in Visited : VerifyOne(i) = "rejected"
  <2>1. PICK i \in Wrong : \A j \in Wrong : i <= j
    BY <1>1, <1>2, FirstOne
  <2> QED BY <2>1 DEF Visited, Wrong
<1> QED BY <1>2 DEF Visited

\* What is made of the answers: the first of the list that was given.
LEMMA JudgementIsFirst ==
  ASSUME data # Absent,
         NEW A, A = {Judged(i) : i \in DOMAIN signers}, A # {},
         A \subseteq {"ok", "rejected", "ENOPKG", "ENOKEY"}
  PROVE  Judgement = Settled(A)
<1> DEFINE First(r) ==
      /\ r \in A
      /\ r # "rejected" => "rejected" \notin A
      /\ r \in {"ENOPKG", "ENOKEY"} => "ok" \notin A
      /\ r = "ENOKEY" => "ENOPKG" \notin A
<1>1. Settled(A) \in {"rejected", "ok", "ENOPKG", "ENOKEY"}
      /\ First(Settled(A))
  BY DEF Settled
<1>2. \A r \in {"rejected", "ok", "ENOPKG", "ENOKEY"} :
        First(r) => r = Settled(A)
  BY DEF Settled
<1>3. Judgement =
        CHOOSE r \in {"rejected", "ok", "ENOPKG", "ENOKEY"} : First(r)
  BY DEF Judgement
<1> HIDE DEF First
<1> QED BY <1>1, <1>2, <1>3

\* Hence the loop comes to the judgement of all signer infos.
LEMMA LoopJudges ==
  ASSUME MessageTypeOK, data # Absent, \A i \in DOMAIN signers : CacheOK(i)
  PROVE  Settled({VerifyOne(i) : i \in Visited}) = Judgement
<1> DEFINE A == {Judged(i) : i \in DOMAIN signers}
           V == {VerifyOne(i) : i \in Visited}
<1>1. \A i \in DOMAIN signers :
        /\ VerifyOne(i) = Judged(i)
        /\ VerifyOne(i) \in {"ok", "rejected", "ENOPKG", "ENOKEY"}
  BY AnswerIsJudged
<1>2. A # {} /\ A \subseteq {"ok", "rejected", "ENOPKG", "ENOKEY"}
  <2>1. 1 \in DOMAIN signers
    BY SignersOK
  <2> QED BY <2>1, <1>1
<1>3. Judgement = Settled(A)
  BY <1>2, JudgementIsFirst
<1>4. CASE Wrong = {}
  <2>1. V = A
    BY <1>1, <1>4, LoopSees
  <2> QED BY <2>1, <1>3
<1>5. CASE Wrong # {}
  <2>1. "rejected" \in V
    BY <1>5, LoopSees
  <2>2. "rejected" \in A
    BY <2>1, <1>1, LoopSees
  <2> QED BY <2>1, <2>2, <1>3 DEF Settled
<1> QED BY <1>4, <1>5

-----------------------------------------------------------------------------
\* Taking digests keeps the caches good while nothing is wrong.
LEMMA DigestsKeepInv ==
  ASSUME CacheInv, NEW S, S \subseteq DOMAIN signers, TakeDigests(S),
         UNCHANGED <<signers, data>>
  PROVE  CacheInv'
<1>1. MessageTypeOK'
  BY DEF CacheInv, MessageTypeOK, TakeDigests
<1>2. ASSUME proper', NEW i \in DOMAIN signers PROVE CacheOK(i)'
  <2>1. proper /\ data # Absent /\ CacheOK(i) /\ MessageTypeOK
        /\ (i \in S => DigestResult(i) # "rejected")
    BY <1>2 DEF CacheInv, TakeDigests
  <2>2. CASE i \notin S
    <3>1. digests'[i] = digests[i] /\ useAttrs'[i] = useAttrs[i]
      BY <2>2 DEF TakeDigests
    <3> QED BY <3>1, <2>1 DEF CacheOK
  <2>3. CASE i \in S
    <3>1. digests'[i] = DigestAfter(i) /\ useAttrs'[i] = AttrsAfter(i)
      BY <2>3 DEF TakeDigests
    <3>2. signers[i] \in Signers /\ data \in Contents
      BY <2>1, SignersOK DEF MessageTypeOK
    <3>3. data \notin {"none", "missing", "short", "attrs", "nothing"}
      BY <3>2, MessageAssumption
    <3>4. CASE digests[i] = Absent /\ signers[i].hash
      <4>1. DigestResult(i) = "ok" /\ signers[i].attrs \in {"none", data}
        BY <2>1, <2>3, <3>4, <3>3 DEF DigestResult, Hashed
      <4>2. DigestAfter(i) = data
        BY <2>1, <3>4 DEF DigestAfter, Hashed
      <4>3. AttrsAfter(i) = (signers[i].attrs # "none")
        BY <2>1, <4>1, <3>4 DEF AttrsAfter, CacheOK
      <4> QED BY <3>1, <4>1, <4>2, <4>3, <2>1, <3>4 DEF CacheOK
    <3>5. CASE digests[i] = Absent /\ ~signers[i].hash
      <4>1. DigestResult(i) = "ENOPKG" /\ DigestAfter(i) = Absent
        BY <3>5 DEF DigestResult, DigestAfter
      <4>2. AttrsAfter(i) = FALSE
        BY <2>1, <3>5, <4>1 DEF AttrsAfter, CacheOK
      <4> QED BY <3>1, <4>1, <4>2 DEF CacheOK
    <3>6. CASE digests[i] # Absent
      <4>1. DigestAfter(i) = digests[i]
        BY <3>6 DEF DigestAfter
      <4>2. AttrsAfter(i) = useAttrs[i]
        BY <2>1, <3>6 DEF AttrsAfter, CacheOK
      <4> QED BY <3>1, <4>1, <4>2, <2>1 DEF CacheOK
    <3> QED BY <3>4, <3>5, <3>6
  <2> QED BY <2>2, <2>3
<1> QED BY <1>1, <1>2 DEF CacheInv

LEMMA CacheInitInv == MessageInit => CacheInv
  BY DEF MessageInit, CacheInv, MessageTypeOK, CacheOK

LEMMA CacheNextInv == CacheInv /\ [MessageNext]_messageVars => CacheInv'
<1> SUFFICES ASSUME CacheInv, [MessageNext]_messageVars PROVE CacheInv'
  OBVIOUS
<1>1. CASE Verify
  <2>1. CASE data = Absent
    BY <1>1, <2>1 DEF Verify, CacheInv, MessageTypeOK, CacheOK
  <2>2. CASE data # Absent
    BY <1>1, <2>2, LoopSees, DigestsKeepInv DEF Verify, CacheInv
  <2> QED BY <2>1, <2>2
<1>2. CASE GetDigest
  <2>1. {1} \subseteq DOMAIN signers
    BY SignersOK DEF CacheInv
  <2> QED BY <1>2, <2>1, DigestsKeepInv DEF GetDigest
<1>3. ASSUME NEW d \in Contents, SupplyDetached(d) PROVE CacheInv'
  BY <1>3 DEF SupplyDetached, CacheInv, MessageTypeOK, CacheOK
<1>4. CASE UNCHANGED messageVars
  BY <1>4 DEF messageVars, CacheInv, MessageTypeOK, CacheOK
<1> QED BY <1>1, <1>2, <1>3, <1>4 DEF MessageNext

-----------------------------------------------------------------------------
\* lc_pkcs7_verify: as long as no digest was wrong or taken without content,
\* a verification gives the verdict of the signer infos and the content.
THEOREM EarlierCallsDoNotCount ==
  MessageSpec => VerdictOfMessage
<1>1. CacheInv /\ [MessageNext]_messageVars
        => [Verify /\ proper => result' = Judgement]_messageVars
  <2> SUFFICES ASSUME CacheInv, Verify, proper PROVE result' = Judgement
    OBVIOUS
  <2>1. CASE data = Absent
    BY <2>1 DEF Verify, Judgement
  <2>2. CASE data # Absent
    BY <2>2, LoopJudges DEF Verify, CacheInv
  <2> QED BY <2>1, <2>2
<1> QED BY <1>1, CacheInitInv, CacheNextInv, PTL DEF MessageSpec, VerdictOfMessage

-----------------------------------------------------------------------------
(* KyberKex: the inductive invariant.                                      *)

\* A ciphertext that lc_kyber_enc made.
WellFormed(c) == c = Enc(c.to, c.coin)

\* The objects of the initiator belong together: tk is the secret of ct_e_i,
\* which was made for the peer; or init never succeeded.
Belong(tk, c, peer) ==
  \/ /\ WellFormed(c) /\ c.to = Static(peer)
     /\ tk = Ss(Static(peer), c.coin)
  \/ c.to = Unset /\ tk = <<"unset">>

MemOK(m) ==
  /\ m = [tag |-> m.tag, key |-> m.key, ct |-> m.ct, tk |-> m.tk,
          peer |-> m.peer]
  /\ m.peer \in Party
  /\ Belong(m.tk, m.ct, m.peer)

AnswerOK(x) == WellFormed(x.ct1) /\ WellFormed(x.ct2)

SentOK(m) == WellFormed(m.ct) /\ \E p \in Party : m.ct.to = Static(p)

\* A secret of an initiator is that of its record, for some tk.
InitOK(a) ==
  /\ a.by \in Party /\ a.peer \in Party
  /\ WellFormed(a.ct1) /\ WellFormed(a.ct2)
  /\ \E tk : /\ Belong(tk, a.ct, a.peer)
             /\ a.secret =
                  IF protocol = "uake" THEN Kdf3(Dec(a.ct1, a.key), tk, a.nonce)
                  ELSE Kdf4(Dec(a.ct1, a.key), Dec(a.ct2, Static(a.by)), tk,
                            a.nonce)

\* Likewise of a responder, whose two encapsulations used the coin of ct1.
RespOK(b) ==
  /\ b.by \in Party /\ b.peer \in Party
  /\ SentOK(b)
  /\ b.ct1.coin \in Nat /\ b.ct1.coin < draws
  /\ b.ct1 = Enc(b.key, b.ct1.coin)
  /\ b.ct2 = Enc(Static(b.peer), b.ct1.coin)
  /\ b.secret =
       IF protocol = "uake"
       THEN Kdf3(Ss(b.key, b.ct1.coin), Dec(b.ct, Static(b.by)), b.nonce)
       ELSE Kdf4(Ss(b.key, b.ct1.coin), Ss(Static(b.peer), b.ct1.coin),
                 Dec(b.ct, Static(b.by)), b.nonce)

OneCoinOneAnswer ==
  \A b, c \in respDone : b.ct1.coin = c.ct1.coin => b = c

IInv ==
  /\ protocol \in {"uake", "ake"}
  /\ draws \in Nat
  /\ mem = [i \in Party |-> mem[i]]
  /\ \A i \in Party : MemOK(mem[i])
  /\ \A m \in inits : SentOK(m)
  /\ \A x \in answers : AnswerOK(x)
  /\ \A a \in initDone : InitOK(a)
  /\ \A b \in respDone : RespOK(b)
  /\ OneCoinOneAnswer

-----------------------------------------------------------------------------
(* Secrets name what they were made of.                                    *)

\* A shared secret of ML-KEM names the public key and the coin.
LEMMA SsInjective ==
  ASSUME NEW k1, NEW c1, NEW k2, NEW c2, Ss(k1, c1) = Ss(k2, c2)
  PROVE  k1 = k2 /\ c1 = c2
<1>1. Ss(k1, c1)[2] = Ss(k2, c2)[2] /\ Ss(k1, c1)[3] = Ss(k2, c2)[3]
  OBVIOUS
<1> QED BY <1>1 DEF Ss

\* Decapsulation yields the secret of an encapsulation only for the key it was
\* made for and with its coin.
LEMMA DecYields ==
  ASSUME NEW c, NEW k, NEW pk, NEW coin, Dec(c, k) = Ss(pk, coin)
  PROVE  c.to = k /\ k = pk /\ c.coin = coin
<1>1. c.to = k
  <2>1. SUFFICES ASSUME c.to # k PROVE FALSE
    OBVIOUS
  <2>2. Dec(c, k)[1] = "reject"
    BY <2>1 DEF Dec
  <2>3. Ss(pk, coin)[1] = "ss"
    BY DEF Ss
  <2> QED BY <2>2, <2>3
<1>2. Dec(c, k) = Ss(k, c.coin)
  BY <1>1 DEF Dec
<1>3. Ss(k, c.coin) = Ss(pk, coin)
  BY <1>2
<1>4. k = pk /\ c.coin = coin
  BY <1>3, SsInjective
<1> QED BY <1>1, <1>4

\* The KDF for UAKE is injective.
LEMMA Kdf3Injective ==
  ASSUME NEW x1, NEW x2, NEW x3, NEW y1, NEW y2, NEW y3,
         Kdf3(x1, x2, x3) = Kdf3(y1, y2, y3)
  PROVE  x1 = y1 /\ x2 = y2 /\ x3 = y3
<1> DEFINE x == Kdf3(x1, x2, x3)
           y == Kdf3(y1, y2, y3)
<1>1. x[2] = y[2] /\ x[3] = y[3] /\ x[4] = y[4]
  OBVIOUS
<1> QED BY <1>1 DEF Kdf3

\* And that for AKE.
LEMMA Kdf4Injective ==
  ASSUME NEW x1, NEW x2, NEW x3, NEW x4, NEW y1, NEW y2, NEW y3, NEW y4,
         Kdf4(x1, x2, x3, x4) = Kdf4(y1, y2, y3, y4)
  PROVE  x1 = y1 /\ x2 = y2 /\ x3 = y3 /\ x4 = y4
<1> DEFINE x == Kdf4(x1, x2, x3, x4)
           y == Kdf4(y1, y2, y3, y4)
<1>1. x[2] = y[2] /\ x[3] = y[3] /\ x[4] = y[4] /\ x[5] = y[5]
  OBVIOUS
<1> QED BY <1>1 DEF Kdf4

\* Static keys of different parties differ, and none is the unset one.
LEMMA StaticInjective ==
  ASSUME NEW p \in Party
  PROVE  /\ Static(p) # Unset
         /\ \A q : Static(p) = Static(q) => p = q
<1>1. Static(p).of = p /\ Static(p).type \in Nat \ {0}
  BY KexAssumption DEF Static
<1>2. Unset.type = 0
  BY DEF Unset
<1>3. \A q : Static(q).of = q
  BY DEF Static
<1> QED BY <1>1, <1>2, <1>3

\* The secret of an encapsulation is none that was never made.
LEMMA SsIsSet ==
  \A c, k : Dec(c, k) # <<"unset">>
<1> TAKE c, k
<1>1. Dec(c, k)[1] \in {"ss", "reject"}
  BY DEF Dec, Ss
<1>2. <<"unset">>[1] = "unset"
  OBVIOUS
<1> QED BY <1>1, <1>2

-----------------------------------------------------------------------------
(* The invariant is inductive.                                             *)

LEMMA InitInv ==
  KexInit => IInv
<1> SUFFICES ASSUME KexInit PROVE IInv
  OBVIOUS
<1>1. ASSUME NEW i \in Party PROVE MemOK(mem[i])
  BY DEF KexInit, MemOK, Belong, Enc
<1> QED BY <1>1 DEF KexInit, IInv, OneCoinOneAnswer

\* A record of a responder stays right when random values are drawn.
LEMMA RespStays ==
  ASSUME NEW b, RespOK(b), draws \in Nat, draws' = draws \/ draws' = draws + 1,
         UNCHANGED protocol
  PROVE  RespOK(b)'
  BY DEF RespOK

LEMMA InitStays ==
  ASSUME NEW a, InitOK(a), UNCHANGED protocol
  PROVE  InitOK(a)'
  BY DEF InitOK

\* lc_kex_*_initiator_init.
LEMMA InitiatorInitKeeps ==
  ASSUME IInv, NEW i \in Party, NEW r \in Party, InitiatorInit(i, r)
  PROVE  IInv'
<1> DEFINE key == Ephemeral(TypeOf[r])
           ct == Enc(Static(r), draws)
<1>1. WellFormed(ct) /\ ct.to = Static(r) /\ ct.coin = draws
  BY DEF WellFormed, Enc
<1>2. ASSUME NEW p \in Party PROVE MemOK(mem[p])'
  <2>1. CASE p = i
    <3>1. mem'[p] = [tag |-> TypeOf[r], key |-> key, ct |-> ct,
                     tk |-> Ss(Static(r), draws), peer |-> r]
      BY <2>1 DEF InitiatorInit, IInv
    <3> QED BY <3>1, <1>1 DEF MemOK, Belong
  <2>2. CASE p # i
    BY <2>2 DEF InitiatorInit, IInv, MemOK
  <2> QED BY <2>1, <2>2
<1>3. ASSUME NEW m \in inits' PROVE SentOK(m)
  <2>1. CASE m \in inits
    BY <2>1 DEF IInv
  <2>2. CASE m = [key |-> key, ct |-> ct]
    BY <2>2, <1>1 DEF SentOK
  <2> QED BY <2>1, <2>2 DEF InitiatorInit
<1>4. UNCHANGED <<protocol, answers, initDone, respDone>> /\ draws' = draws + 1
      /\ mem' = [p \in Party |-> mem'[p]]
  BY DEF InitiatorInit, IInv
<1> QED BY <1>2, <1>3, <1>4, RespStays, InitStays
        DEF IInv, OneCoinOneAnswer

\* A failing one.
LEMMA InitiatorInitFailsKeeps ==
  ASSUME IInv, NEW i \in Party, NEW r \in Party, NEW later \in BOOLEAN,
         InitiatorInitFails(i, r, later)
  PROVE  IInv'
<1>1. ASSUME NEW p \in Party PROVE MemOK(mem[p])'
  <2>1. MemOK(mem[p]) /\ mem = [q \in Party |-> mem[q]]
    BY DEF IInv
  <2>2. CASE p = i
    <3> DEFINE m == mem[i]
               key == IF later THEN Ephemeral(TypeOf[r]) ELSE m.key
    <3>1. m = [tag |-> m.tag, key |-> m.key, ct |-> m.ct, tk |-> m.tk,
               peer |-> m.peer]
      BY <2>1, <2>2 DEF MemOK
    <3>2. mem'[p] = [m EXCEPT !.tag = TypeOf[r], !.key = key]
      BY <2>1, <2>2, <3>1 DEF InitiatorInitFails
    <3> HIDE DEF key
    <3>3. mem'[p] = [tag |-> TypeOf[r], key |-> key, ct |-> m.ct, tk |-> m.tk,
                     peer |-> m.peer]
      BY <3>1, <3>2
    <3> HIDE DEF m
    <3>4. m.peer \in Party /\ Belong(m.tk, m.ct, m.peer)
      BY <2>1, <2>2 DEF MemOK, m
    <3> QED BY <3>3, <3>4 DEF MemOK
  <2>3. CASE p # i
    BY <2>1, <2>3 DEF InitiatorInitFails, MemOK
  <2> QED BY <2>2, <2>3
<1>2. UNCHANGED <<protocol, inits, answers, initDone, respDone>>
      /\ draws' = draws + 1 /\ mem' = [p \in Party |-> mem'[p]]
  BY DEF InitiatorInitFails, IInv
<1> QED BY <1>1, <1>2, RespStays, InitStays DEF IInv, OneCoinOneAnswer

\* lc_kex_*_initiator_ss.
LEMMA InitiatorSsKeeps ==
  ASSUME IInv, NEW i \in Party, NEW a1 \in answers, NEW a2 \in answers,
         NEW nonce, InitiatorSs(i, a1, a2, nonce)
  PROVE  IInv'
<1> DEFINE a == [by |-> i, peer |-> mem[i].peer, key |-> mem[i].key,
                 ct |-> mem[i].ct, ct1 |-> a1.ct1, ct2 |-> a2.ct2,
                 nonce |-> nonce,
                 secret |-> InitiatorSecret(i, a1.ct1, a2.ct2, nonce)]
<1>1. InitOK(a)
  <2>1. MemOK(mem[i]) /\ AnswerOK(a1) /\ AnswerOK(a2)
    BY DEF IInv
  <2>2. a.secret = IF protocol = "uake"
                   THEN Kdf3(Dec(a.ct1, a.key), mem[i].tk, a.nonce)
                   ELSE Kdf4(Dec(a.ct1, a.key), Dec(a.ct2, Static(a.by)),
                             mem[i].tk, a.nonce)
    BY DEF InitiatorSecret
  <2>3. Belong(mem[i].tk, a.ct, a.peer)
    BY <2>1 DEF MemOK
  <2> QED BY <2>1, <2>2, <2>3 DEF InitOK, MemOK, AnswerOK
<1>2. initDone' = initDone \union {a}
      /\ UNCHANGED <<protocol, mem, inits, answers, draws, respDone>>
  BY DEF InitiatorSs
<1>3. ASSUME NEW x \in initDone' PROVE InitOK(x)'
  BY <1>1, <1>2, InitStays DEF IInv
<1> QED BY <1>2, <1>3, RespStays DEF IInv, OneCoinOneAnswer, MemOK

\* lc_kex_*_responder_ss.
LEMMA ResponderSsKeeps ==
  ASSUME IInv, NEW r \in Party, NEW i \in Party, NEW m1 \in inits,
         NEW m2 \in inits, NEW nonce, ResponderSs(r, i, m1, m2, nonce)
  PROVE  IInv'
<1> DEFINE ct1 == Enc(m1.key, draws)
           ct2 == Enc(Static(i), draws)
           b == [by |-> r, peer |-> i, key |-> m1.key, ct |-> m2.ct,
                 ct1 |-> ct1, ct2 |-> ct2, nonce |-> nonce,
                 secret |-> ResponderSecret(r, i, m1.key, m2.ct, nonce)]
<1>1. /\ respDone' = respDone \union {b}
      /\ answers' = answers \union {[ct1 |-> ct1, ct2 |-> ct2]}
      /\ draws' = draws + 1
      /\ UNCHANGED <<protocol, mem, inits, initDone>>
  BY DEF ResponderSs
<1>2. WellFormed(ct1) /\ WellFormed(ct2) /\ ct1.coin = draws
  BY DEF WellFormed, Enc
<1>3. AnswerOK([ct1 |-> ct1, ct2 |-> ct2])
  BY <1>2 DEF AnswerOK
<1>4. draws \in Nat /\ SentOK(m2)
  BY DEF IInv
<1>5. ASSUME NEW x, x = b PROVE RespOK(x)'
  <2>1. /\ x.by = r /\ x.peer = i /\ x.key = m1.key /\ x.ct = m2.ct
        /\ x.ct1 = ct1 /\ x.ct2 = ct2 /\ x.nonce = nonce
        /\ x.secret = ResponderSecret(r, i, m1.key, m2.ct, nonce)
    BY <1>5
  <2>2. x.ct1.coin = draws
    BY <2>1, <1>2
  <2>3. SentOK(x)
    BY <1>4, <2>1 DEF SentOK
  <2>4. x.secret =
          IF protocol = "uake"
          THEN Kdf3(Ss(x.key, draws), Dec(x.ct, Static(x.by)), x.nonce)
          ELSE Kdf4(Ss(x.key, draws), Ss(Static(x.peer), draws),
                    Dec(x.ct, Static(x.by)), x.nonce)
    BY <2>1 DEF ResponderSecret
  <2>5. x.ct1 = Enc(x.key, draws) /\ x.ct2 = Enc(Static(x.peer), draws)
    BY <2>1
  <2> QED BY <1>1, <1>4, <2>1, <2>2, <2>3, <2>4, <2>5 DEF RespOK
<1>6. ASSUME NEW x \in respDone' PROVE RespOK(x)'
  <2>1. CASE x \in respDone
    BY <2>1, <1>1, <1>4, RespStays DEF IInv
  <2>2. CASE x = b
    BY <1>5, <2>2
  <2> QED BY <1>1, <2>1, <2>2
<1>7. OneCoinOneAnswer'
  <2>1. ASSUME NEW x \in respDone PROVE x.ct1.coin # b.ct1.coin
    BY <1>2, <1>4 DEF IInv, RespOK
  <2> QED BY <1>1, <2>1 DEF IInv, OneCoinOneAnswer
<1>8. ASSUME NEW x \in answers' PROVE AnswerOK(x)
  BY <1>1, <1>3 DEF IInv
<1> QED BY <1>1, <1>4, <1>6, <1>7, <1>8, InitStays DEF IInv, MemOK

LEMMA StepInv ==
  IInv /\ [KexNext]_kexVars => IInv'
<1> SUFFICES ASSUME IInv, [KexNext]_kexVars PROVE IInv'
  OBVIOUS
<1>1. ASSUME NEW i \in Party, NEW r \in Party, InitiatorInit(i, r) PROVE IInv'
  BY <1>1, InitiatorInitKeeps
<1>2. ASSUME NEW i \in Party, NEW r \in Party, NEW later \in BOOLEAN,
             InitiatorInitFails(i, r, later)
      PROVE  IInv'
  BY <1>2, InitiatorInitFailsKeeps
<1>3. ASSUME NEW i \in Party, NEW a1 \in answers, NEW a2 \in answers,
             NEW nonce \in Nonces, InitiatorSs(i, a1, a2, nonce)
      PROVE  IInv'
  BY <1>3, InitiatorSsKeeps
<1>4. ASSUME NEW r \in Party, NEW i \in Party, NEW m1 \in inits,
             NEW m2 \in inits, NEW nonce \in Nonces,
             ResponderSs(r, i, m1, m2, nonce)
      PROVE  IInv'
  BY <1>4, ResponderSsKeeps
<1>5. CASE UNCHANGED kexVars
  BY <1>5 DEF kexVars, IInv, MemOK, InitOK, RespOK, OneCoinOneAnswer
<1> QED BY <1>1, <1>2, <1>3, <1>4, <1>5 DEF KexNext

\* The invariant holds in every state of every exchange.
LEMMA Invariant ==
  KexSpec => []IInv
  BY InitInv, StepInv, PTL DEF KexSpec

-----------------------------------------------------------------------------
(* The properties.                                                         *)

LEMMA InvImpliesFresh ==
  IInv => SecretsFresh
<1> SUFFICES ASSUME IInv, NEW b \in respDone, NEW c \in respDone,
                    b.secret = c.secret
             PROVE  b = c
  BY DEF SecretsFresh
<1>1. RespOK(b) /\ RespOK(c)
  BY DEF IInv
<1>2. Ss(b.key, b.ct1.coin) = Ss(c.key, c.ct1.coin)
  <2>1. CASE protocol = "uake"
    <3>1. Kdf3(Ss(b.key, b.ct1.coin), Dec(b.ct, Static(b.by)), b.nonce)
            = Kdf3(Ss(c.key, c.ct1.coin), Dec(c.ct, Static(c.by)), c.nonce)
      BY <1>1, <2>1 DEF RespOK
    <3> QED BY <3>1, Kdf3Injective
  <2>2. CASE protocol # "uake"
    <3>1. Kdf4(Ss(b.key, b.ct1.coin), Ss(Static(b.peer), b.ct1.coin),
               Dec(b.ct, Static(b.by)), b.nonce)
            = Kdf4(Ss(c.key, c.ct1.coin), Ss(Static(c.peer), c.ct1.coin),
                   Dec(c.ct, Static(c.by)), c.nonce)
      BY <1>1, <2>2 DEF RespOK
    <3> QED BY <3>1, Kdf4Injective
  <2> QED BY <2>1, <2>2
<1>3. b.ct1.coin = c.ct1.coin
  BY <1>2, SsInjective
<1> QED BY <1>3 DEF IInv, OneCoinOneAnswer

\* Each call of lc_kex_*_responder_ss makes a secret of its own.
THEOREM SecretsAreFresh ==
  KexSpec => []SecretsFresh
  BY Invariant, InvImpliesFresh, PTL

\* What an encapsulation names; its owner decapsulates its secret.
LEMMA EncNames ==
  ASSUME NEW pk, NEW coin
  PROVE  /\ Enc(pk, coin).to = pk /\ Enc(pk, coin).coin = coin
         /\ Dec(Enc(pk, coin), pk) = Ss(pk, coin)
  BY DEF Enc, Dec

\* The initiator's half: ct1 is decapsulated with the ephemeral key.
LEMMA AnswerMatches ==
  ASSUME NEW c, NEW key, NEW pk, NEW coin, WellFormed(c)
  PROVE  Dec(c, key) = Ss(pk, coin) <=> key = pk /\ c = Enc(pk, coin)
<1>1. ASSUME Dec(c, key) = Ss(pk, coin) PROVE key = pk /\ c = Enc(pk, coin)
  BY <1>1, DecYields DEF WellFormed
<1>2. ASSUME key = pk, c = Enc(pk, coin) PROVE Dec(c, key) = Ss(pk, coin)
  BY <1>2, EncNames
<1> QED BY <1>1, <1>2

\* The responder's half: it decapsulates the initiator's ciphertext.
LEMMA TkMatches ==
  ASSUME NEW tk, NEW c, NEW peer \in Party, Belong(tk, c, peer),
         NEW r \in Party, NEW d, WellFormed(d),
         \E p \in Party : d.to = Static(p)
  PROVE  tk = Dec(d, Static(r)) => peer = r /\ c = d
<1> SUFFICES ASSUME tk = Dec(d, Static(r)) PROVE peer = r /\ c = d
  OBVIOUS
<1>1. tk # <<"unset">>
  BY SsIsSet
<1>2. WellFormed(c) /\ c.to = Static(peer) /\ tk = Ss(Static(peer), c.coin)
  BY <1>1 DEF Belong
<1>3. d.to = Static(r) /\ Static(r) = Static(peer) /\ d.coin = c.coin
  BY <1>2, DecYields
<1>4. peer = r
  BY <1>3, StaticInjective
<1>5. d = Enc(Static(peer), c.coin) /\ c = Enc(Static(peer), c.coin)
  BY <1>2, <1>3 DEF WellFormed
<1> QED BY <1>4, <1>5

LEMMA TkIsDecapsulated ==
  ASSUME NEW tk, NEW c, NEW r \in Party, Belong(tk, c, r),
         \E p \in Party : c.to = Static(p)
  PROVE  tk = Dec(c, Static(r))
<1>1. c.to # Unset
  BY StaticInjective
<1>2. c.to = Static(r) /\ tk = Ss(Static(r), c.coin)
  BY <1>1 DEF Belong
<1> QED BY <1>2 DEF Dec

LEMMA InvImpliesMatch ==
  IInv => SecretsMatchExactly
<1> SUFFICES ASSUME IInv, NEW a \in initDone, NEW b \in respDone
             PROVE  a.secret = b.secret <=> SameExchange(a, b)
  BY DEF SecretsMatchExactly
<1> DEFINE coin == b.ct1.coin
<1>1. InitOK(a) /\ RespOK(b) /\ protocol \in {"uake", "ake"}
  BY DEF IInv
<1>2. PICK tk :
        /\ Belong(tk, a.ct, a.peer)
        /\ a.secret =
             IF protocol = "uake" THEN Kdf3(Dec(a.ct1, a.key), tk, a.nonce)
             ELSE Kdf4(Dec(a.ct1, a.key), Dec(a.ct2, Static(a.by)), tk, a.nonce)
  BY <1>1 DEF InitOK
<1>3. /\ a.by \in Party /\ a.peer \in Party
      /\ WellFormed(a.ct1) /\ WellFormed(a.ct2)
  BY <1>1 DEF InitOK
<1>4. /\ b.by \in Party /\ b.peer \in Party
      /\ WellFormed(b.ct) /\ \E p \in Party : b.ct.to = Static(p)
      /\ b.ct1 = Enc(b.key, coin) /\ b.ct2 = Enc(Static(b.peer), coin)
      /\ b.secret =
           IF protocol = "uake"
           THEN Kdf3(Ss(b.key, coin), Dec(b.ct, Static(b.by)), b.nonce)
           ELSE Kdf4(Ss(b.key, coin), Ss(Static(b.peer), coin),
                     Dec(b.ct, Static(b.by)), b.nonce)
  BY <1>1 DEF RespOK, SentOK
<1> HIDE DEF coin
<1>5. Dec(a.ct1, a.key) = Ss(b.key, coin) <=> a.key = b.key /\ a.ct1 = b.ct1
  BY <1>3, <1>4, AnswerMatches
<1>6. tk = Dec(b.ct, Static(b.by)) <=> a.peer = b.by /\ a.ct = b.ct
  BY <1>2, <1>3, <1>4, TkMatches, TkIsDecapsulated
<1>7. Dec(a.ct2, Static(a.by)) = Ss(Static(b.peer), coin)
        <=> a.by = b.peer /\ a.ct2 = b.ct2
  BY <1>3, <1>4, AnswerMatches, StaticInjective
<1>8. CASE protocol = "uake"
  <2>1. a.secret = Kdf3(Dec(a.ct1, a.key), tk, a.nonce)
        /\ b.secret = Kdf3(Ss(b.key, coin), Dec(b.ct, Static(b.by)), b.nonce)
    BY <1>2, <1>4, <1>8
  <2>2. a.secret = b.secret <=> /\ Dec(a.ct1, a.key) = Ss(b.key, coin)
                                /\ tk = Dec(b.ct, Static(b.by))
                                /\ a.nonce = b.nonce
    BY <2>1, Kdf3Injective
  <2> QED BY <2>2, <1>5, <1>6, <1>8 DEF SameExchange
<1>9. CASE protocol = "ake"
  <2>1. a.secret = Kdf4(Dec(a.ct1, a.key), Dec(a.ct2, Static(a.by)), tk, a.nonce)
        /\ b.secret = Kdf4(Ss(b.key, coin), Ss(Static(b.peer), coin),
                           Dec(b.ct, Static(b.by)), b.nonce)
    BY <1>2, <1>4, <1>9
  <2>2. a.secret = b.secret
          <=> /\ Dec(a.ct1, a.key) = Ss(b.key, coin)
              /\ Dec(a.ct2, Static(a.by)) = Ss(Static(b.peer), coin)
              /\ tk = Dec(b.ct, Static(b.by))
              /\ a.nonce = b.nonce
    BY <2>1, Kdf4Injective
  <2> QED BY <2>2, <1>5, <1>6, <1>7, <1>9 DEF SameExchange
<1> QED BY <1>1, <1>8, <1>9

\* Initiator and responder share a secret exactly if they took part in the
\* same exchange (lc_kex_uake_*, lc_kex_ake_*).
THEOREM SecretsMatch ==
  KexSpec => []SecretsMatchExactly
  BY Invariant, InvImpliesMatch, PTL
=============================================================================
