SPECIFICATION Spec
CONSTANTS
  t1 = t1
  t2 = t2
  Thread = {t1, t2}
  Cert <- MCCert
  Null = null
  Anchor = anchor
  NoId = "no"
  Id <- MCId
  Skid <- MCSkid
  Auth0 <- MCAuth0
  Auth1 <- MCAuth1
  KeyOf <- MCKey
  SignedBy <- MCSignedBy
  CA <- MCIssuing
  SelfSigned <- MCSelfSigned
  CertSign <- MCIssuing
  Critical <- MCCritical
  InTime <- MCInTime
  Bundle <- MCBundle
  Signer <- MCSigner
  Message = {}
  Checks <- NoReader
  Offers <- TwoClimbers
  MaxCalls <- MCMaxCalls
INVARIANTS
  RejectedHasNoChain
CHECK_DEADLOCK FALSE
