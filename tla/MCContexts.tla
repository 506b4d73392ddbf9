------------------------------ MODULE MCContexts ------------------------------
(* The components, each on its own: hash contexts, KMAC, key derivation as  *)
(* RNG, AEAD, DRBGs, modes of operation, key exchange, contexts of ML-DSA,  *)
(* the certificate trust store, messages of PKCS#7 and the decoders of      *)
(* ASN.1.  The variable part says which of them runs; the others stay as     *)
(* they began.                                                               *)
EXTENDS HashStream, Kmac, Aead, Drbg, Modes, KyberKex, KdfRng, MlDsa,
        Pkcs7Message, MCTrustStore, MCAsn1

CONSTANTS p1, p2, p3, none, null, anchor

MCParty == {p1, p2, p3}
MCTypeOf == p1 :> 3 @@ p2 :> 3 @@ p3 :> 2

\* The mu of key a, user context 1 and a message of one symbol.
MCExternal == {[tr |-> "a", domain |-> 1, message |-> <<1>>]}

VARIABLES
  part,
  grammar, der, opcode, dp, datalen, cons, jumps, matched, last, found,
  actions, decoded

Asn1 == INSTANCE Asn1Decoder WITH
  Grammar <- MCRoots, Machine <- MCMachine, Corpus <- MCCorpus,
  NrConsStack <- 10, NrJumpStack <- 10, AsCommented <- FALSE, data <- der,
  pc <- opcode, calls <- actions

ASSUME Asn1!MachineAssumption /\ CompilesAsGenerated

asn1 == <<grammar, der, opcode, dp, datalen, cons, jumps, matched, last, found,
          actions, decoded>>
all == <<part, hashVars, kmacVars, kdfVars, aeadVars, drbgVars, modesVars,
         kexVars, mldsa, vars, messageVars, asn1>>

AnyInit ==
  /\ part \in {"hash", "kmac", "kdf", "aead", "drbg", "modes", "kex",
              "dsa", "store", "pkcs7", "asn1"}
  /\ HashInit /\ (part # "hash" => hash = "keccak")
  /\ KmacInitial /\ (part # "kmac" => purpose = "rng")
  /\ KdfInit /\ (part # "kdf" => kdf = "hkdf")
  /\ AeadInit /\ (part # "aead" => aead = "ascon" /\ iv[2] = 1)
  /\ DrbgInit /\ (part # "drbg" => drbg = "xof")
  /\ ModesInit /\ (part # "modes" => modeOf = "ctr")
  /\ KexInit /\ (part # "kex" => protocol = "ake")
  /\ MlDsaInit /\ (part # "dsa" => memory = "absent" /\ userctx = 1)
  /\ Init
  /\ MessageInit
  /\ part # "pkcs7" => data = Absent /\ signers = <<UnknownHash>>
  /\ IF part = "asn1" THEN Asn1!DecoderInit
     ELSE Asn1!DecoderStart("validity", <<>>)

AnyNext ==
  \/ /\ part = "hash" /\ HashNext
     /\ UNCHANGED <<part, kmacVars, kdfVars, aeadVars, drbgVars, modesVars,
                    kexVars, mldsa, vars, messageVars, asn1>>
  \/ /\ part = "kmac" /\ KmacNext
     /\ UNCHANGED <<part, hashVars, kdfVars, aeadVars, drbgVars, modesVars,
                    kexVars, mldsa, vars, messageVars, asn1>>
  \/ /\ part = "kdf" /\ KdfNext
     /\ UNCHANGED <<part, hashVars, kmacVars, aeadVars, drbgVars, modesVars,
                    kexVars, mldsa, vars, messageVars, asn1>>
  \/ /\ part = "aead" /\ AeadNext
     /\ UNCHANGED <<part, hashVars, kmacVars, kdfVars, drbgVars, modesVars,
                    kexVars, mldsa, vars, messageVars, asn1>>
  \/ /\ part = "drbg" /\ DrbgNext
     /\ UNCHANGED <<part, hashVars, kmacVars, kdfVars, aeadVars, modesVars,
                    kexVars, mldsa, vars, messageVars, asn1>>
  \/ /\ part = "modes" /\ ModesNext
     /\ UNCHANGED <<part, hashVars, kmacVars, kdfVars, aeadVars, drbgVars,
                    kexVars, mldsa, vars, messageVars, asn1>>
  \/ /\ part = "kex" /\ KexNext
     /\ UNCHANGED <<part, hashVars, kmacVars, kdfVars, aeadVars, drbgVars,
                    modesVars, mldsa, vars, messageVars, asn1>>
  \/ /\ part = "dsa" /\ MlDsaNext
     /\ UNCHANGED <<part, hashVars, kmacVars, kdfVars, aeadVars, drbgVars,
                    modesVars, kexVars, vars, messageVars, asn1>>
  \/ /\ part = "store" /\ Next
     /\ UNCHANGED <<part, hashVars, kmacVars, kdfVars, aeadVars, drbgVars,
                    modesVars, kexVars, mldsa, messageVars, asn1>>
  \/ /\ part = "pkcs7" /\ MessageNext
     /\ UNCHANGED <<part, hashVars, kmacVars, kdfVars, aeadVars, drbgVars,
                    modesVars, kexVars, mldsa, vars, asn1>>
  \/ /\ part = "asn1" /\ Asn1!DecoderNext
     /\ UNCHANGED <<part, hashVars, kmacVars, kdfVars, aeadVars, drbgVars,
                    modesVars, kexVars, mldsa, vars, messageVars>>

AnySpec == AnyInit /\ [][AnyNext]_all

\* The properties of the parts; those of the modules that are
\* extended are their own.

\* asn1_decoder.c: a decoder takes the language of its grammar.
DecodesGrammar == part = "asn1" => Asn1!DecodesGrammar

\* asn1_decoder.c: no length leads out of the data.
StaysInside == part = "asn1" => Asn1!StaysInside
=============================================================================
