\* Every configuration of MCConfigs, for Docker Compose with the switch module loaded.
CONSTANTS
  a = a
  b = b
  r = r
  s = s
  ghost = ghost
  Names <- MCNames
  Ports <- MCPorts
  Configs <- MCConfigs
  OvsLoaded = TRUE
SPECIFICATION Spec
INVARIANTS
  TypeOK
  AcceptedPathsWalkable
  AcceptedPortsDistinct
