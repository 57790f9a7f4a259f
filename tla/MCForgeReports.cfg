CONSTANTS
  NoLocal = NoLocal
  Bodies <- ForgeBodies
  Programs <- ForgePairs
  Zones = {"a", "b"}

SPECIFICATION Spec

INVARIANTS
  ReportsAreAboutTheForge

CHECK_DEADLOCK FALSE
