SPECIFICATION BuilderSpec
CHECK_DEADLOCK FALSE
CONSTANTS
  None = None
  kA = kA
  kB = kB
  kUnknown = kUnknown
  kTsa = kTsa
  certA = certA
  certB = certB
  certTwin = certTwin
  certTsa = certTsa
  idA = idA
  extra = extra
  Key <- MCKey
  KeyAlg <- MCKeyAlg
  Cert <- MCCert
  CertInfo <- MCCertInfo
  Content = {empty, d1, d2}
  Empty = empty
  ContentType = {idData, idTst, idOther}
  IdData = idData
  IdTstInfo = idTst
  OtherAttribute = {extra}
  AttributeRank <- MCAttributeRank
  TsaCert = {certTsa}
  Policy = {p1, p2}
  MaxResponseSize = 1
  SigningKey = {kA}
  SigningCert = {certA}
  SigningKeyId = {}
  Data = {d1, d2}
  TypeChoice = {}
  DigestChoice = {}
  ExtraAttribute <- NoAttributes
  Override = {"messageId", "detached"}
  Year = {2024}
  UseUrl = FALSE
  MaxSigners = 1
  MaxExtra = 1
  MaxCertificates = 0
  MaxBuilds = 1
  MaxRequests = 0
  MaxReplies = 0
  MaxTime = 0
  Fault = {}
INVARIANT
  MessageIdContentMatches
