SPECIFICATION Spec
CONSTANTS
  MaxTurns = 2
  MaxFaults = 1
  MaxEvents = 3
  MaxOps = 2
  Past = 0
  Provisioned = {TRUE, FALSE}
  Visited = {"floating"}
PROPERTIES FollowedToTheEnd ComposerReleased
CHECK_DEADLOCK FALSE
