SPECIFICATION Spec
CONSTANTS
  MaxTurns = 2
  MaxFaults = 1
  MaxEvents = 3
  MaxOps = 2
  Past = 1
  Provisioned = {TRUE}
  Visited = {"pane", "floating", "closed"}
INVARIANTS ControlsNeverStuck
PROPERTIES ReadsKeepTheBubble SeedOutlivesRestore OpenPanelIsWatched
CHECK_DEADLOCK FALSE
