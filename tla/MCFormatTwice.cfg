SPECIFICATION Spec
CONSTANTS
  Letters <- MCLetters
  HexLetters <- MCHexLetters
  Texts <- WellFormed
  Rereads <- MCRereads
INVARIANTS FormattingTwiceChangesNothing
CHECK_DEADLOCK FALSE
