SPECIFICATION OverlapSpec
CONSTANTS
  Unset = Unset
  Externals = {"x", "y"}
  Gateways <- OneGateway
  Ids = {"m", "n", "e"}
  ChatIds = {"m", "n"}
  ModelLists = {{"m"}, {"m", "n"}}
  Callers = {"me", "you"}
  InstanceName <- OwnNames
  Scenes = {{"others", "together"}}
  MaxProviders = 3
  MaxRequests = 2
INVARIANTS InUseStays
CHECK_DEADLOCK FALSE
