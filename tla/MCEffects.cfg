SPECIFICATION Spec
CONSTANTS
  Programs <- Unkept
  Bits = 6
INVARIANTS EffectsPropagate OnlyMissingEffectsAreErrors
CHECK_DEADLOCK FALSE
