\* The configurations of config_check: the paths of every endpoint.
CONSTANTS
  a = a
  b = b
  r = r
  s = s
  ghost = ghost
  Names <- MCNames
  Ports <- MCPorts
  Configs <- MCConfigs
  OvsLoaded = TRUE
SPECIFICATION Spec
INVARIANT
  EveryPathPossible
