------------------------------- MODULE MCDecoder -------------------------------
(* The decoders of ASN.1 alone, with the grammars and the data of MCAsn1 and *)
(* a reference that follows the comment of the decoder.                      *)
EXTENDS MCAsn1

VARIABLES grammar, data, pc, dp, datalen, cons, jumps, matched, last, found,
          calls, decoded

Asn1 == INSTANCE Asn1Decoder WITH
  Grammar <- MCRoots, Machine <- MCMachine, Corpus <- MCCorpus,
  NrConsStack <- 10, NrJumpStack <- 10, AsCommented <- TRUE

DecoderSpec == Asn1!DecoderInit /\ [][Asn1!DecoderNext]_(Asn1!decoder)

\* asn1_decoder.c:204-206: what the decoder takes and what it refuses, by the
\* comment's rule for the bit of constructed elements.
MethodsAsCommented == Asn1!MethodsAsCommented
=============================================================================
