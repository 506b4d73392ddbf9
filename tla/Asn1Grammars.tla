----------------------------- MODULE Asn1Grammars -----------------------------
(* Grammars of the library (asn1/src/*_asn1) as elements for Asn1Compiler,   *)
(* with the actions by short names, and two of the programs that the         *)
(* repository holds for them.                                                *)
EXTENDS Asn1Compiler

BOOL == 1
INT == 2
BTS == 3
OTS == 4
OID == 6
SEQ == 16
SET == 17
IA5STR == 22
UNITIM == 23
GENTIM == 24
CONT(n) == 128 + n

\* SEQUENCE { algorithm OBJECT IDENTIFIER, parameters ANY OPTIONAL }
Algorithm(oid, params) ==
  SequenceType(SEQ, <<Leaf(OID, oid), Optional(AnyType(params))>>, Quiet)

\* SEQUENCE { type OBJECT IDENTIFIER, values SET OF ANY }
Attribute(oid, values, act) ==
  SequenceType(SEQ, <<Leaf(OID, oid), SequenceOf(SET, AnyType(values), Quiet)>>,
               act)

\* Name: relative distinguished names, sets of types with their values.  What
\* is written behind a SEQUENCE OF is the action of its elements (parse_type).
Names(oid, value, each, act) ==
  SequenceOf(SEQ, Reference(
    SequenceOf(SET, Reference(
      SequenceType(SEQ, <<Leaf(OID, oid), AnyType(value)>>, each), Quiet),
      Quiet), act), Quiet)

-----------------------------------------------------------------------------
BasicConstraints ==
  SequenceType(SEQ, <<Optional(Leaf(BOOL, "ca")),
                         Optional(Leaf(INT, "pathlen"))>>, Quiet)

OtherName ==
  SequenceType(SEQ, <<Leaf(OID, Quiet),
                         Explicit(CONT(0), AnyType(Quiet))>>, Quiet)
EDIPartyName ==
  SequenceType(SEQ, <<Optional(Explicit(CONT(0), AnyType(Quiet))),
                         Explicit(CONT(1), AnyType(Quiet))>>, Quiet)
GeneralName ==
  Choice(<<Implicit(CONT(0), Reference(OtherName, Quiet)),
           Implicit(CONT(1), Leaf(IA5STR, Quiet)),
           Implicit(CONT(2), Leaf(IA5STR, Quiet)),
           Explicit(CONT(3), AnyType(Quiet)),
           Explicit(CONT(4),
                    Reference(Names("OID", "segment", Quiet, Quiet), "name")),
           Implicit(CONT(5), Reference(EDIPartyName, Quiet)),
           Implicit(CONT(6), Leaf(IA5STR, Quiet)),
           Implicit(CONT(7), Leaf(OTS, Quiet)),
           Implicit(CONT(8), Leaf(OID, Quiet))>>, Quiet)
GeneralNames == SequenceOf(SEQ, Reference(GeneralName, Quiet), Quiet)

AuthorityKeyIdentifier ==
  SequenceType(SEQ,
    <<Optional(Implicit(CONT(0), Reference(Leaf(OTS, "kid"), Quiet))),
      Optional(Implicit(CONT(1), Reference(GeneralNames, Quiet))),
      Optional(Implicit(CONT(2), Reference(Leaf(INT, "serial"), Quiet)))>>,
    Quiet)

-----------------------------------------------------------------------------
X509Algorithm == Shared(Algorithm("OID", "params"))
X509Name == Shared(Names("type", "segment", Quiet, "nameDone"))

Time == Choice(<<Leaf(UNITIM, "utc"), Leaf(GENTIM, "gen")>>, Quiet)
Validity ==
  SequenceType(SEQ, <<Reference(Time, "notBefore"),
                         Reference(Time, "notAfter")>>, Quiet)

SubjectPublicKeyInfo ==
  SequenceType(SEQ, <<Reference(X509Algorithm, Quiet), Leaf(BTS, "key")>>,
               Quiet)

Extension ==
  SequenceType(SEQ, <<Leaf(OID, "extOID"), Optional(Leaf(BOOL, "critical")),
                         Leaf(OTS, "extValue")>>, "extDone")
Extensions == SequenceOf(SEQ, Reference(Extension, Quiet), Quiet)

TBSCertificate ==
  SequenceType(SEQ,
    <<Optional(Explicit(CONT(0), Reference(Leaf(INT, Quiet), "version"))),
      Reference(Leaf(INT, Quiet), "serial"),
      Reference(X509Algorithm, "sigAlgo"),
      Reference(X509Name, "issuer"),
      Reference(Validity, Quiet),
      Reference(X509Name, "subject"),
      Reference(SubjectPublicKeyInfo, Quiet),
      Optional(Implicit(CONT(1), Reference(Leaf(BTS, Quiet), Quiet))),
      Optional(Implicit(CONT(2), Reference(Leaf(BTS, Quiet), Quiet))),
      Optional(Explicit(CONT(3), Reference(Extensions, Quiet)))>>, Quiet)
Certificate ==
  SequenceType(SEQ, <<Reference(TBSCertificate, "tbs"),
                         Reference(X509Algorithm, "algorithm"),
                         Leaf(BTS, "signature")>>, Quiet)

-----------------------------------------------------------------------------
DigestAlgorithm == Shared(Algorithm("digestOID", Quiet))
DigestAlgorithms ==
  Choice(<<SequenceOf(SET, Reference(DigestAlgorithm, Quiet), Quiet),
           SequenceOf(SEQ, Reference(DigestAlgorithm, Quiet), Quiet)>>, Quiet)

ContentInfo ==
  SequenceType(SEQ,
    <<Reference(Leaf(OID, "dataOID"), Quiet),
      Optional(Explicit(CONT(0), Reference(AnyType("data"), Quiet)))>>, Quiet)

ExtCertificates ==
  SequenceOf(SET, Reference(
    Choice(<<Reference(AnyType("extCert"), Quiet)>>, Quiet), "certDone"), Quiet)
Certificates ==
  SequenceOf(SEQ, Reference(AnyType("cert"), "certDone"), Quiet)
CertificateList ==
  Shared(SequenceOf(SEQ, Reference(AnyType("crl"), Quiet), Quiet))

AuthenticatedAttribute == Shared(Attribute("attrOID", "attr", Quiet))
UnauthenticatedAttribute == Shared(Attribute(Quiet, Quiet, Quiet))

SignerIdentifier ==
  Choice(<<Reference(SequenceType(SEQ,
             <<Reference(Names("type", "segment", "nameDone", Quiet), "issuer"),
               Reference(Leaf(INT, Quiet), "serial")>>, Quiet), Quiet),
           Implicit(CONT(0), Reference(Leaf(OTS, "skid"), Quiet))>>, Quiet)

SignerInfo ==
  Shared(SequenceType(SEQ,
    <<Leaf(INT, "signerVersion"),
      Reference(SignerIdentifier, Quiet),
      Reference(DigestAlgorithm, "digestAlgo"),
      Optional(Choice(
        <<Implicit(CONT(0), Reference(
            SequenceOf(SET, Reference(AuthenticatedAttribute, Quiet), Quiet),
            "authAttrs")),
          Explicit(CONT(2), SequenceOf(SEQ,
            Reference(AuthenticatedAttribute, Quiet), Quiet))>>, Quiet)),
      Reference(Algorithm("pkeyOID", Quiet), "pkeyAlgo"),
      Reference(Leaf(OTS, "signature"), Quiet),
      Optional(Choice(
        <<Implicit(CONT(1), SequenceOf(SET,
            Reference(UnauthenticatedAttribute, Quiet), Quiet)),
          Implicit(CONT(3), SequenceOf(SEQ,
            Reference(UnauthenticatedAttribute, Quiet), Quiet))>>,
        Quiet))>>, "signedInfo"))

SignedData ==
  SequenceType(SEQ,
    <<Leaf(INT, "version"),
      Reference(DigestAlgorithms, Quiet),
      Reference(ContentInfo, "content"),
      Optional(Choice(
        <<Implicit(CONT(0), Reference(ExtCertificates, Quiet)),
          Implicit(CONT(2), Reference(Certificates, Quiet))>>, "certList")),
      Optional(Choice(
        <<Implicit(CONT(1), Reference(
            SequenceOf(SET, Reference(CertificateList, Quiet), Quiet), Quiet)),
          Implicit(CONT(3), Reference(
            SequenceOf(SEQ, Reference(CertificateList, Quiet), Quiet), Quiet))>>,
        Quiet)),
      Reference(Choice(
        <<SequenceOf(SET, Reference(SignerInfo, Quiet), Quiet),
          SequenceOf(SEQ, Reference(SignerInfo, Quiet), Quiet)>>, Quiet),
        Quiet)>>, Quiet)

PKCS7ContentInfo ==
  SequenceType(SEQ,
    <<Reference(Leaf(OID, "contentOID"), "contentType"),
      Optional(Explicit(CONT(0), Reference(SignedData, Quiet)))>>, Quiet)

\* The attributes alone, as a caller hands them in.
SetOfAuthenticatedAttribute ==
  SequenceOf(SET, Reference(Attribute("attrOID", "attr", "attrDone"), Quiet),
             Quiet)

-----------------------------------------------------------------------------
MldsaPrivateKey ==
  Choice(<<Implicit(CONT(0), Leaf(OTS, "seed")), Leaf(OTS, "expanded"),
           Reference(SequenceType(SEQ, <<Leaf(OTS, "seed"),
                                            Leaf(OTS, "expanded")>>, Quiet),
                     Quiet)>>, Quiet)

PrivateKeyInfo ==
  SequenceType(SEQ,
    <<Reference(Leaf(INT, "version"), Quiet),
      Reference(Reference(Algorithm("OID", Quiet), "algo"), Quiet),
      Reference(Leaf(OTS, "key"), Quiet),
      Optional(Implicit(CONT(0), Reference(
        SequenceOf(SET, Reference(AnyType(Quiet), Quiet), Quiet), Quiet)))>>,
    Quiet)

-----------------------------------------------------------------------------
\* x509_mldsa_privkey_asn1.c and pkcs7_aa_asn1.c, an opcode a line.
Line(code, tag, act) ==
  [op |-> code, tag |-> tag, any |-> FALSE, skip |-> FALSE, cond |-> FALSE,
   act |-> act, to |-> 0]
Skips(l) == [l EXCEPT !.skip = TRUE]
Conditional(l) == [l EXCEPT !.skip = TRUE, !.cond = TRUE]
Goes(l, to) == [l EXCEPT !.to = to]

MldsaMachine == <<
  Skips(Line("match", CONT(0), "seed")),
  Conditional(Line("match", OTS, "expanded")),
  Goes(Conditional(Line("match", SEQ + ConsBit, Quiet)), 6),
  Line("fail", 0, Quiet),
  Line("complete", 0, Quiet),
  Line("match", OTS, "seed"),
  Line("match", OTS, "expanded"),
  Line("end", 0, Quiet),
  Line("return", 0, Quiet)>>

AttributesMachine == <<
  Line("match", SET + ConsBit, Quiet),
  Line("match", SEQ + ConsBit, Quiet),
  Line("match", OID, "attrOID"),
  Line("match", SET + ConsBit, Quiet),
  [Line("match", 0, "attr") EXCEPT !.any = TRUE],
  Goes(Line("end", 0, Quiet), 5),
  Line("end", 0, "attrDone"),
  Goes(Line("end", 0, Quiet), 2),
  Line("complete", 0, Quiet)>>

(* asn1_compiler.c: the model of the generator makes the programs that the   *)
(* repository holds.                                                         *)
CompilesAsGenerated ==
  /\ Compile(MldsaPrivateKey) = MldsaMachine
  /\ Compile(SetOfAuthenticatedAttribute) = AttributesMachine
=============================================================================
