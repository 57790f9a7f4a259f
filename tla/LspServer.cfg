CONSTANTS
  Docs = {main, other}
  Roots = {{main}}
  Concurrency = 3
  MaxEvents = 3
SPECIFICATION Spec
INVARIANTS AnalyzedIsCurrent ShownIsAnalyzed
PROPERTIES EverythingIsHandled
CHECK_DEADLOCK FALSE
