SPECIFICATION Spec
CONSTANTS
  Processes = {1, 2}
  CommandLines <- MCCommandLines
  MaxCommands = 3
  Cuts = {0, 1}
  Projects <- MCProjects
INVARIANTS OwnFilesSurvive NewCanBeBuilt
PROPERTIES EditsDoTheirWork EveryCommandEnds
CHECK_DEADLOCK FALSE
