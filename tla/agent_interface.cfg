\* A service, an external and CLT.
CONSTANTS
  a = a
  b = b
  x = x
  r = r
  q = q
  f = f
  y = y
  Names <- MCNames
  Ports <- MCPorts
  Parts <- PlainParts
  Configs <- CltConfigs
  OptionNames <- MCOptionNames
  OvsLoaded = TRUE
  Clusters <- Clear
  NodePortMin = 30000
  NodePortMax = 30004
  MaxRestarts = 0
SPECIFICATION DSpec
INVARIANT
  AgentHearsTraces
