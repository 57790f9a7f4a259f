CONSTANTS
  NoLocal = NoLocal
  Bodies <- LoopMoveBodies
  Programs <- LoopMovePrograms
  Zones = {"a", "b"}

SPECIFICATION Spec

INVARIANTS
  AcceptedReadsAreInitialized

CHECK_DEADLOCK FALSE
