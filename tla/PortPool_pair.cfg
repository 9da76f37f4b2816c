SPECIFICATION FairSpec
CONSTANTS
  e1 = e1
  e2 = e2
  ssh = ssh
  a = a
  Env = {e1, e2}
  Name = {ssh}
  UDP = {}
  Exposures <- SshOnly
  L4PortRangeStart = 1
  L4PortRangeEnd = 2
  GatewayPorts = {1}
  Legacy = {}
  MaxOps = 3
  Prompt = {"environments", "listenersets", "routes"}
  MaxGateway = 0
  MaxFaults = 0
CHECK_DEADLOCK FALSE
INVARIANTS PortsDisjoint EveryoneServed
PROPERTIES ImplementsLedger ComesToRest
