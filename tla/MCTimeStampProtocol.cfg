SPECIFICATION TspSpec
CONSTANTS
  None = None
  good = good
  expired = expired
  general = general
  kGood = kGood
  kExpired = kExpired
  kGeneral = kGeneral
  Key = {kGood, kExpired, kGeneral}
  KeyAlg <- MCKeyAlg
  Cert = {good, expired, general}
  CertInfo <- MCCertInfo
  Content = {empty, m1}
  Empty = empty
  ContentType = {idData, idTst}
  IdData = idData
  IdTstInfo = idTst
  OtherAttribute = {}
  AttributeRank <- MCAttributeRank
  TsaCert = {good, expired, general}
  Policy = {p1, p2}
  Fault = {"none", "rejection", "noToken", "notTstInfo", "noContent", "otherVersion", "otherImprint", "mislabelledImprint", "noNonce", "otherPolicy", "flippedCertificates", "noEss", "bothEss", "essOfOther", "twoSigners", "altered", "badHttp", "undecodable", "notSignedData", "declaredTooLarge", "tooLarge", "padded"}
  MaxResponseSize = 2
  MaxRequests = 2
  MaxReplies = 1
  MaxTime = 1
INVARIANTS
  TspTypeOK
  StampWasMadeForRequest
  StampIsFresh
  ReportedBodyIsWhole
  AcceptedStampVerifies
PROPERTY
  ExchangeEnds
CHECK_DEADLOCK FALSE
