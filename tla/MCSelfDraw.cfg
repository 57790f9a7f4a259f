SPECIFICATION Spec
CONSTANTS
  Files <- SelfDrawing
  Parts <- SelfParts
  Mains = {}
  Opened <- SelfOpened
  Alphabetical <- MCAlphabetical
INVARIANTS NoWalkWaitsForItself
CHECK_DEADLOCK FALSE
