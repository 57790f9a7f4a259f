SPECIFICATION Spec

CONSTANTS
  NoLocal = NoLocal
  Sources <- Operators
  Forges <- MCForges
  Exprs <- MCExprs
  MaxCalls = 3

INVARIANTS
  OperatorsKeepTheirMeaning
