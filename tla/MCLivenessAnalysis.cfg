CONSTANTS
  NoLocal = NoLocal
  MCSize = 3
  Bodies <- MCBodies

SPECIFICATION Spec

INVARIANTS
  AnswerExact

PROPERTIES
  Terminates
  RefinesChaotic

CHECK_DEADLOCK FALSE
