CONSTANTS
  None = None
  Malformed = Malformed
  BerOnly <- MCBerOnly
  Text <- MCText
  PrintableText <- MCPrintableText
  TwoOctets <- MCTwoOctets
  AltNames <- MCAltNames
  Rank <- MCRank
  KeyAlgorithmOf <- MCKeyAlgorithmOf
  PrivateKeyInfo <- MCPrivateKeyInfo
  Written <- MCWritten
  Refused <- MCRefused
  Foreign <- MCForeign
  SpelledOut <- MCSpelledOut
  NewText <- MCNewText
  NewAttributes <- MCNewAttributes
  MaxChanges = 2
  MaxRewrites = 1
SPECIFICATION Spec
CHECK_DEADLOCK FALSE
INVARIANTS
  ReadsAsWritten
  ReadCanBeWritten
  RewriteIsStable
  AlterationIsNoticed
  CapturedMatchesItsBytes
  CopyKeepsSignature
  CopyShowsChanges
  NamesShowTheirText
  DigestCoversAttributes
  ChangeNeedsNewSignature
  KeyPairSignsAsItSays
