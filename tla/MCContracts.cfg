SPECIFICATION Spec

CONSTANTS
  NoLocal = NoLocal
  Sources <- Contracts
  Forges <- MCForges
  Exprs <- MCExprs
  MaxCalls = 3

INVARIANTS
  ContractFailuresAreObservable
