SPECIFICATION Spec
CONSTANTS
  NoLocal = NoLocal
  Sources <- AllPrograms
  Forges <- MCForges
  Exprs <- MCExprs
  MaxCalls = 3
INVARIANTS RunsAsWritten TargetsAreEdges ZonesNest
PROPERTIES EveryRunEnds
