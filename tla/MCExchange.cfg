SPECIFICATION ExchangeSpec
CHECK_DEADLOCK FALSE
CONSTANTS
  None = None
  kA = kA
  kForeign = kForeign
  kTsa = kTsa
  certA = certA
  certForeign = certForeign
  certTsa = certTsa
  Key <- MCKey
  KeyAlg <- MCKeyAlg
  Cert <- MCCert
  CertInfo <- MCCertInfo
  Content = {empty, d1, d2}
  Empty = empty
  ContentType = {idData, idTst, idOther}
  IdData = idData
  IdTstInfo = idTst
  OtherAttribute = {}
  AttributeRank <- MCAttributeRank
  TsaCert = {certTsa}
  Policy = {p1, p2}
  MaxResponseSize = 1
  SigningKey = {kA}
  SigningCert = {certA}
  SigningKeyId = {}
  Data = {d1, d2}
  TypeChoice = {}
  DigestChoice = {"Sha256"}
  ExtraAttribute <- NoAttributes
  Override = {}
  Year = {2024}
  UseUrl = FALSE
  MaxSigners = 1
  MaxExtra = 0
  MaxCertificates = 0
  MaxBuilds = 2
  MaxRequests = 2
  MaxReplies = 2
  MaxTime = 0
  Fault = {"none"}
  ForeignKey = {kForeign}
  MaxWire = 3
  MaxAccepted = 1
SYMMETRY ContentSymmetry
INVARIANTS
  AcceptedWasSigned
PROPERTY
  Authentic
