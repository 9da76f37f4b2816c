SPECIFICATION Spec
CONSTANTS
  Calls = {"a", "b"}
  Narrations = {"n"}
  MaxWire = 7
  Approvals = {"p"}
  Questions = {"q"}
  MaxHeld = 1
  MaxBubbles = 2
  MaxReads = 1
  MaxLost = 1
  MaxWindows = 1
INVARIANTS RecordsAreTrue TurnIsTheRuntimes RestoredAsStreamed
PROPERTIES HeldCardKept CardsFollowTheGateway
CHECK_DEADLOCK FALSE
