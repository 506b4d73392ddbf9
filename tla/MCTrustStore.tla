---------------------------- MODULE MCTrustStore ----------------------------
(* TrustStore with the certificates of MCCerts, for two threads that add     *)
(* CAs whose chains lead through the same certificate of the store.          *)
EXTENDS TrustStore, MCCerts
=============================================================================
