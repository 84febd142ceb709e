\* Every topology of AllConfigs, whatever the order of the connections, and a request over it,
\* whichever routes win.
CONSTANTS
  a = a
  b = b
  x = x
  r = r
  q = q
  f = f
  y = y
  Names <- MCNames
  Ports <- MCPorts
  Parts <- UnderscoreParts
  Configs <- AllConfigs
  OptionNames <- MCOptionNames
  OvsLoaded = TRUE
SPECIFICATION FwdSpec
INVARIANTS
  TypeOK
  BuildSucceeds
  NetworksMatchPaths
  AttachedInOrder
  GatewaysOnLink
  HostsReachable
  DependenciesStartable
  FirstPortsTagged
  FTypeOK
  NeverDropped
  NoForwardingLoop
PROPERTIES
  Terminates
  RequestsAnswered
