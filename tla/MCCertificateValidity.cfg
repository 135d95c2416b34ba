SPECIFICATION CertificateBuilderSpec
CHECK_DEADLOCK FALSE
CONSTANTS
  SubsecondsPerSecond = 2
  SecondsPerYear = 2
  None = None
  kA = kA
  kA2 = kA2
  kB = kB
  kUnknown = kUnknown
  attrA = attrA
  attrB = attrB
  attrEmpty = attrEmpty
  Key <- MCKey
  KeyAlg <- MCKeyAlg
  empty = empty
  n1 = n1
  n2 = n2
  Name <- MCName
  EmptyName = empty
  Now <- MCNow
  Hour = 2
  MaxTimestamp <- MCMaxTimestamp
  Serial = {0}
  Duration <- MCDuration
  Usage = {"KeyCertSign"}
  DerExtension <- MCDerExtension
  CsrAttribute <- MCCsrAttribute
  AttributeDer <- MCAttributeDer
  MaxAdditions = 2
INVARIANTS
  ValidityCanBeIssued
