\* A rule that accepts one port of a source, before one that drops the source.
CONSTANTS
  a = a
  b = b
  x = x
  r = r
  q = q
  f = f
  y = y
  Names <- MCNames
  Ports <- MCPorts
  Parts <- PlainParts
  Configs <- OverlappingConfigs
  OptionNames <- MCOptionNames
  OvsLoaded = TRUE
  Clusters <- Clear
  NodePortMin = 30000
  NodePortMax = 30004
  MaxRestarts = 0
SPECIFICATION DSpec
INVARIANT
  RulesInOrder
