SPECIFICATION Spec
CONSTANTS
  Files <- MCFiles
  Parts <- MCParts
  Mains <- MCMains
  Opened <- MCOpened
  Alphabetical <- MCAlphabetical
INVARIANTS NamesAreSoughtInPlace UsesBearTheName
INVARIANTS NamesMeanWhatTheTextSays DocumentsAreWalkedOnce RenameKeepsMeaning DefinitionIsTheDeclaration
PROPERTIES EveryWalkEnds
CHECK_DEADLOCK FALSE
