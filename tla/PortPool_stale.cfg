SPECIFICATION Spec
CONSTANTS
  e1 = e1
  e2 = e2
  ssh = ssh
  a = a
  Env = {e1}
  Name = {ssh, a}
  UDP = {}
  Exposures <- SshLate
  L4PortRangeStart = 1
  L4PortRangeEnd = 2
  GatewayPorts = {}
  Legacy = {}
  MaxOps = 2
  Prompt = {}
  MaxGateway = 0
  MaxFaults = 1
CHECK_DEADLOCK FALSE
INVARIANTS PublishedIsTrue
