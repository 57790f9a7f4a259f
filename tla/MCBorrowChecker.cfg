CONSTANTS
  NoLocal = NoLocal
  Bodies <- SoundnessBodies
  Programs <- SoundnessPrograms
  Zones = {"a", "b"}

SPECIFICATION Spec

INVARIANTS
  AcceptedReferencesAreExclusive
  AcceptedMovesAreUnborrowed
  StraightLineReadsExact
  AcceptedZonesDoNotLeak
  AdditionsAreRepeatable

CHECK_DEADLOCK FALSE
