-------------------------------- MODULE MCAsn1 --------------------------------
(* Data for the decoders: words of the grammars by hand, in the three forms  *)
(* of length, and each of them with one octet replaced, cut short, or with   *)
(* octets behind it.                                                         *)
EXTENDS Asn1Grammars, Integers, FiniteSets

\* An element: short form, long form with one and with two octets, indefinite.
T(tag, body) == <<tag, Len(body)>> \o body
L(tag, body) == <<tag, 129, Len(body)>> \o body
LL(tag, body) == <<tag, 130, 0, Len(body)>> \o body
I(tag, body) == <<tag, 128>> \o body \o <<0, 0>>

SEQC == SEQ + ConsBit
SETC == SET + ConsBit
Ctx(n) == CONT(n) + ConsBit

One(tag) == T(tag, <<1>>)
Oid == T(OID, <<>>)
Alg == T(SEQC, Oid)
Ava == T(SEQC, Oid \o One(12))
Rdn == T(SETC, Ava)

MCWords == [
  constraints |-> {
    T(SEQC, <<>>), I(SEQC, <<>>), LL(SEQC, One(BOOL) \o L(INT, <<3>>)),
    I(SEQC, One(INT)), T(SEQC, One(INT) \o One(BOOL))},
  akid |-> {
    T(SEQC, One(CONT(0)) \o
           T(Ctx(1), T(Ctx(4), T(SEQC, Rdn)) \o One(CONT(1))) \o One(CONT(2))),
    T(SEQC, I(Ctx(1), T(Ctx(0), Oid \o T(Ctx(0), I(SEQC, One(INT))))
                       \o I(Ctx(5), T(Ctx(0), One(INT)) \o I(Ctx(1), One(INT))))),
    T(SEQC, T(Ctx(1), <<>>))},
  validity |-> {
    T(SEQC, One(UNITIM) \o One(GENTIM)), I(SEQC, One(GENTIM) \o L(UNITIM, <<>>)),
    T(SEQC, One(UNITIM))},
  keyinfo |-> {
    T(SEQC, T(SEQC, Oid \o I(SEQC, <<31, 129, 1, 1, 7>> \o I(Ctx(1), <<>>)))
             \o T(BTS, <<0, 1>>)),
    I(SEQC, I(SEQC, Oid \o One(5)) \o One(BTS)), I(SEQC, Alg \o LL(BTS, <<>>))},
  attributes |-> {
    T(SETC, T(SEQC, Oid \o T(SETC, One(OTS) \o One(UNITIM)))
             \o T(SEQC, Oid \o T(SETC, I(SEQC, <<>>)))),
    I(SETC, I(SEQC, Oid \o I(SETC, One(OTS) \o One(OTS)))), T(SETC, <<>>)},
  mldsa |-> {
    One(CONT(0)), LL(OTS, <<1, 2>>), T(SEQC, One(OTS) \o One(OTS)),
    I(SEQC, One(OTS) \o L(OTS, <<4>>))},
  pkcs8 |-> {
    T(SEQC, One(INT) \o T(SEQC, Oid \o One(5)) \o One(OTS)),
    I(SEQC, One(INT) \o Alg \o One(OTS) \o I(Ctx(0), I(SEQC, One(INT)) \o One(5)))}]

MCRoots == [
  constraints |-> BasicConstraints, akid |-> AuthorityKeyIdentifier,
  validity |-> Validity, keyinfo |-> SubjectPublicKeyInfo,
  attributes |-> SetOfAuthenticatedAttribute, mldsa |-> MldsaPrivateKey,
  pkcs8 |-> PrivateKeyInfo, certificate |-> Certificate,
  pkcs7 |-> PKCS7ContentInfo]

\* Of the two large grammars, words that are changed at fewer octets.
MCLong == [
  certificate |-> {
    T(SEQC, T(SEQC, T(Ctx(0), One(INT)) \o One(INT) \o Alg \o T(SEQC, Rdn)
                    \o T(SEQC, One(UNITIM) \o One(GENTIM)) \o T(SEQC, Rdn)
                    \o T(SEQC, Alg \o One(BTS)) \o One(CONT(2))
                    \o T(Ctx(3), T(SEQC, T(SEQC, Oid \o One(BOOL) \o One(OTS))
                                          \o T(SEQC, Oid \o One(OTS)))))
             \o Alg \o One(BTS))},
  pkcs7 |-> {
    T(SEQC, Oid \o T(Ctx(0), T(SEQC, One(INT) \o T(SETC, Alg) \o T(SEQC, Oid)
       \o T(Ctx(0), T(SEQC, <<>>) \o One(INT))
       \o T(SETC, T(SEQC,
            One(INT) \o T(SEQC, T(SEQC, Rdn) \o One(INT)) \o Alg
              \o T(Ctx(0), T(SEQC, Oid \o T(SETC, One(OTS))))
              \o Alg \o One(OTS) \o T(Ctx(1), T(SEQC, Oid \o T(SETC, One(5))))))))),
    I(SEQC, Oid \o I(Ctx(0), I(SEQC, One(INT) \o I(SEQC, Alg)
       \o I(SEQC, Oid \o I(Ctx(0), One(OTS))) \o I(Ctx(2), One(INT))
       \o I(Ctx(1), T(SEQC, One(INT)))
       \o I(SEQC, I(SEQC,
            One(INT) \o One(CONT(0)) \o Alg
              \o I(Ctx(2), I(SEQC, I(SEQC, Oid \o I(SETC, I(SEQC, One(OTS))))))
              \o Alg \o One(OTS)))))),
    T(SEQC, Oid)}]

MCMachine == [g \in DOMAIN MCRoots |-> Compile(MCRoots[g])]

Octets == {0, 1, 2, 4, 6, 31, 48, 128, 129, 130, 131, 160, 162, 255}

\* What becomes of a word: one octet is another, or a little more or less.
Changed(w, octets) ==
  {w} \cup {w \o <<0, 0>>}
    \cup {SubSeq(w, 1, n) : n \in 0..(Len(w) - 1)}
    \cup {[w EXCEPT ![i] = o] : i \in DOMAIN w, o \in octets}
    \cup {[w EXCEPT ![i] = @ + 1] : i \in {k \in DOMAIN w : w[k] < 255}}
    \cup {[w EXCEPT ![i] = @ - 1] : i \in {k \in DOMAIN w : w[k] > 0}}

MCCorpus ==
  [g \in DOMAIN MCWords |-> UNION {Changed(w, Octets) : w \in MCWords[g]}]
    @@ [g \in DOMAIN MCLong |-> UNION {Changed(w, {0, 48, 128}) : w \in MCLong[g]}]
=============================================================================
