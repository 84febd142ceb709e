\* Impairments on a connection of a service, good and bad.
CONSTANTS
  a = a
  b = b
  x = x
  r = r
  q = q
  f = f
  y = y
  Names <- MCNames
  Ports <- MCPorts
  Parts <- PlainParts
  Configs <- ImpairedConfigs
  OptionNames = {}
  OvsLoaded = TRUE
SPECIFICATION FairSpec
INVARIANT
  OptionsHonoured
