SPECIFICATION ChainSpec
CHECK_DEADLOCK FALSE
CONSTANTS
  SubsecondsPerSecond = 1
  SecondsPerYear = 1
  None = None
  kLeaf = kLeaf
  kA = kA
  kB = kB
  empty = empty
  nameLeaf = nameLeaf
  nameA = nameA
  nameB = nameB
  leaf = leaf
  rootA = rootA
  rootAIndefinite = rootAIndefinite
  crossA = crossA
  crossB = crossB
  wrongA = wrongA
  mismatched = mismatched
  Key <- MCKey
  KeyAlg <- MCKeyAlg
  Name = {empty, nameLeaf, nameA, nameB}
  EmptyName = empty
  Captured = {leaf, rootA, rootAIndefinite, crossA, crossB, wrongA, mismatched}
  CertificateIn <- MCCertificateIn
  MaxGiven = 4
INVARIANTS
  ChainTypeOK
  ChainIsSimple
  FirstGivenWins
PROPERTIES
  ResolveEnds
  FollowsSignatures
