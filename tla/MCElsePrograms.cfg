SPECIFICATION Spec

CONSTANTS
  NoLocal = NoLocal
  Sources <- Elses
  Forges <- MCForges
  Exprs <- MCExprs
  MaxCalls = 3

INVARIANTS
  ElseArmsRun
