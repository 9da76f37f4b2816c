SPECIFICATION Spec
CONSTANTS
  e1 = e1
  e2 = e2
  ssh = ssh
  a = a
  Env = {e1}
  Name = {ssh, a}
  UDP = {a}
  Exposures <- SshLate
  L4PortRangeStart = 1
  L4PortRangeEnd = 2
  GatewayPorts = {}
  Legacy = {e1}
  MaxOps = 1
  Prompt = {"routes"}
  MaxGateway = 2
  MaxFaults = 0
CHECK_DEADLOCK FALSE
PROPERTIES StablePorts AddressKept
