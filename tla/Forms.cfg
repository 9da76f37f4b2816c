SPECIFICATION FormsSpec
CONSTANTS
  Absent = Absent
  Focus = {{"basics","security"}, {"resources"}, {"workspace"}, {"runtime"}, {"ports"}, {"network","placement","ssh","basics"}}
  MaxEdits = 5
  MaxRows = 2
  Clusters <- SmallClusters
  MaxDeployEdits = 3
  Unset = Unset
  Externals = {"x", "y", "z"}
  Gateways <- TwoGateways
  Ids = {"m", "n", "e"}
  ChatIds = {"m", "n"}
  ModelLists = {{"m"}, {"m", "n"}}
  Callers = {"me", "ME", "you"}
  InstanceName <- FoldedNames
  Scenes = {{}, {"others", "faults"}, {"others", "together", "faults"}, {"others", "gateways"}, {"editor", "faults"}, {"select", "gateways"}, {"rows", "select", "together"}}
  MaxProviders = 3
  MaxRequests = 2
  MaxTouches = 3
INVARIANTS SelectedCanAnswer PickerIsTrue CreatedAsConfirmed DeployedAsConfirmed
CHECK_DEADLOCK FALSE
