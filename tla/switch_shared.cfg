\* The configurations of build_switch: connections that share a switch.
CONSTANTS
  a = a
  b = b
  x = x
  r = r
  q = q
  f = f
  y = y
  Names <- MCNames
  Ports <- MCPorts
  Parts <- UnderscoreParts
  Configs <- SwitchConfigs
  OptionNames = {}
  OvsLoaded = TRUE
SPECIFICATION Spec
INVARIANT
  SwitchesShared
