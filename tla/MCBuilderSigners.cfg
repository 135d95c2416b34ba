SPECIFICATION BuilderSpec
CHECK_DEADLOCK FALSE
CONSTANTS
  None = None
  kA = kA
  kB = kB
  kUnknown = kUnknown
  kTsa = kTsa
  certA = certA
  certB = certB
  certTwin = certTwin
  certTsa = certTsa
  idA = idA
  extra = extra
  Key <- MCKey
  KeyAlg <- MCKeyAlg
  Cert <- MCCert
  CertInfo <- MCCertInfo
  Content = {empty, d1, d2}
  Empty = empty
  ContentType = {idData, idTst, idOther}
  IdData = idData
  IdTstInfo = idTst
  OtherAttribute = {extra}
  AttributeRank <- MCAttributeRank
  TsaCert = {certTsa}
  Policy = {p1, p2}
  MaxResponseSize = 1
  SigningKey = {kA, kB}
  SigningCert = {certA, certB, certTwin}
  SigningKeyId = {idA}
  Data = {d1}
  TypeChoice = {}
  DigestChoice = {}
  ExtraAttribute <- NoAttributes
  Override = {}
  Year = {1950, 2049}
  UseUrl = FALSE
  MaxSigners = 2
  MaxExtra = 0
  MaxCertificates = 1
  MaxBuilds = 2
  MaxRequests = 0
  MaxReplies = 0
  MaxTime = 0
  Fault = {}
INVARIANTS
  BuilderTypeOK
  BuiltSignersVerify
  SameBuilderSameMessage
  SigningTimeSurvives
