SPECIFICATION Spec
CONSTANTS
  Letters <- MCLetters
  HexLetters <- MCHexLetters
  Texts <- MCTexts
  Rereads <- MCRereads
INVARIANTS TokensTile TreeKeepsOrder LostOnlyByRecovery OperatorsGroupByRank FormattingKeepsCharacters StableWhereWordsStay
PROPERTIES EveryTextIsRead
CHECK_DEADLOCK FALSE
