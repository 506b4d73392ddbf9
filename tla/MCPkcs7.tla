------------------------------ MODULE MCPkcs7 ------------------------------
(* Pkcs7Message with the signer infos of MCCerts and two contents.           *)
EXTENDS Pkcs7Message, MCCerts
=============================================================================
