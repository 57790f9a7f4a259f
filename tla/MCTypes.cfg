SPECIFICATION Spec
CONSTANTS
  Programs <- MCPrograms
  Bits = 6
INVARIANTS ItemsLeaveNoTrace BindingsEnd AcceptedEffectsAreDeclared AcceptedBodiesReturnTheirType EffectErrorsAreReal ContractReportsAreReal
CHECK_DEADLOCK FALSE
