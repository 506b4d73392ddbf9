SPECIFICATION AnySpec
CONSTANTS
  p1 = p1
  p2 = p2
  p3 = p3
  none = none
  null = null
  anchor = anchor
  t1 = t1
  t2 = t2
  R = 3
  Hashes = {"keccak", "ascon", "sha2"}
  Pieces = {0, 1, 2, 3, 5}
  Digests = {1, 2, 4}
  B = 5
  LengthBytes = 2
  MaxHashed = 8
  MaxDigest = 5
  Aeads = {"gcm", "chacha", "ascon"}
  Chunks = {0, 1, 3, 4}
  Starts = {1, 2}
  CtrMod = 3
  MaxAad = 4
  MaxData = 7
  MaxIvs = 2
  Keys = {1, 2}
  Inputs = {0, 1, 3}
  Macs = {1, 3, 5}
  MinMac = 2
  MaxFed = 6
  MaxDrawn = 6
  Drbgs = {"xof", "hash", "hmac", "ctr", "chacha"}
  DrbgRequests = {0, 1, 4}
  ChunkSize = 3
  KeyWords = 2
  DrbgMax = 4
  ModesUsed = {"cbc", "ctr", "xts", "kw"}
  BS = 2
  Cuts = {0, 1, 2, 3, 4, 5}
  MaxLen = 7
  Party <- MCParty
  TypeOf <- MCTypeOf
  Nonces = {0, 1}
  MaxDraws = 3
  MaxDone = 1
  H = 2
  Seeds = {"s1", "s2"}
  Infos = {"none", "a"}
  KdfRequests = {0, 1, 2, 3}
  CtrMax = 4
  MaxBytes = 8
  Key = {"a", "b"}
  UserCtx = {1, 2}
  Symbol = {1}
  MaxMessage = 2
  ExternalMu <- MCExternal
  None = none
  Contents = {"d1", "d2"}
  SignerLists <- MCSignerLists
  Absent = none
  Thread = {t1, t2}
  Cert <- MCCert
  Null = null
  Anchor = anchor
  NoId = "no"
  Id <- MCId
  Skid <- MCSkid
  Auth0 <- MCAuth0
  Auth1 <- MCAuth1
  KeyOf <- MCKey
  SignedBy <- MCSignedBy
  CA <- MCIssuing
  SelfSigned <- MCSelfSigned
  CertSign <- MCIssuing
  Critical <- MCCritical
  InTime <- MCInTime
  Bundle <- MCBundle
  Signer <- MCSigner
  Message <- MCMessage
  Checks <- Reader
  Offers <- OneClimber
  MaxCalls <- MCMaxCalls
INVARIANTS
  DigestOfMessage
  MacOfMessage
  OutputIsStream
  CounterInRange
  OpensWhatWasSealed
  ChangedIsRejected
  KeyStreamOnce
  PastIsGone
  FutureIsHidden
  NeverRepeats
  InputsCount
  DecryptsToPlain
  CutsDoNotMatter
  UnwrapAuthenticates
  SecretsMatchExactly
  SecretsFresh
  VerifiesIffSame
  TypeOK
  NothingLost
  ChainIsSound
  RejectedHasNoChain
  DecodesGrammar
  StaysInside
PROPERTIES
  StoreKeepsPromise
  VerdictOfMessage
CHECK_DEADLOCK FALSE
