\* The configurations of forwarding: the path of a request.
CONSTANTS
  a = a
  b = b
  x = x
  r = r
  q = q
  f = f
  y = y
  Names <- MCNames
  Ports <- MCPorts
  Parts <- PlainParts
  Configs <- ForwardConfigs
  OptionNames = {}
  OvsLoaded = TRUE
SPECIFICATION FwdSpec
INVARIANT
  PathFollowed
