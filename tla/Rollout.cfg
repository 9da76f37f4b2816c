SPECIFICATION FairSpec
CONSTANTS
  p1 = p1  p2 = p2  m1 = m1  m2 = m2
  None = None
  Roles = {"decode", "router"}
  Profiles = {p1}
  Models = {m1, m2}
  Class <- MCClass
  Contents <- Topologies
  InitContents <- PairFirst
  Replicas = {1, 2}
  Prompt = {"profile", "workload", "owned", "endpoints"}
  MaxEdits = 1
  MaxFaults = 1
CHECK_DEADLOCK FALSE
INVARIANTS ClaimIsTheModels RestIsTruthful
PROPERTIES ComesToRest Converges
