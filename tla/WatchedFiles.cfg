CONSTANTS
  Docs = {main}
  Roots = {{main}}
  Concurrency = 2
  MaxEvents = 3
SPECIFICATION Spec
PROPERTIES FileEventsLeaveOpenTexts
CHECK_DEADLOCK FALSE
