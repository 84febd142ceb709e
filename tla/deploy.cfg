\* Everything generated from DeployConfigs, deployed with one restart at any moment.
CONSTANTS
  a = a
  b = b
  x = x
  r = r
  q = q
  f = f
  y = y
  Names <- MCNames
  Ports <- MCPorts
  Parts <- PlainParts
  Configs <- DeployConfigs
  OptionNames <- MCOptionNames
  OvsLoaded = TRUE
  Clusters <- MCClusters
  NodePortMin = 30000
  NodePortMax = 30004
  MaxRestarts = 1
SPECIFICATION DSpec
INVARIANTS
  DTypeOK
  ComposeReferencesDefined
  NodePortsDistinct
  MeshnetMirrored
  HostPortsDistinct
  RoutesInPlace
  SegmentsJoined
  VerdictAsConfigured
PROPERTIES
  Settles
