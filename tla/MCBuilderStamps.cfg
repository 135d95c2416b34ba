SPECIFICATION BuilderSpec
CHECK_DEADLOCK FALSE
CONSTANTS
  None = None
  kA = kA
  kB = kB
  kUnknown = kUnknown
  kTsa = kTsa
  certA = certA
  certB = certB
  certTwin = certTwin
  certTsa = certTsa
  idA = idA
  extra = extra
  Key <- MCKey
  KeyAlg <- MCKeyAlg
  Cert <- MCCert
  CertInfo <- MCCertInfo
  Content = {empty, d1, d2}
  Empty = empty
  ContentType = {idData, idTst, idOther}
  IdData = idData
  IdTstInfo = idTst
  OtherAttribute = {extra}
  AttributeRank <- MCAttributeRank
  TsaCert = {certTsa}
  Policy = {p1, p2}
  MaxResponseSize = 1
  SigningKey = {kA}
  SigningCert = {certA}
  SigningKeyId = {}
  Data = {}
  TypeChoice = {}
  DigestChoice = {}
  ExtraAttribute <- NoAttributes
  Override = {}
  Year = {2024}
  UseUrl = TRUE
  MaxSigners = 2
  MaxExtra = 0
  MaxCertificates = 0
  MaxBuilds = 2
  MaxRequests = 4
  MaxReplies = 2
  MaxTime = 1
  Fault = {"none", "rejection", "otherImprint", "tooLarge", "altered"}
INVARIANTS
  EverySignerOnce
  TokenStampsItsSigner
PROPERTY
  BuildEnds
