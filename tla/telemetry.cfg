\* Two requests at once and their packets; the system stops when the requests are over.
CONSTANTS
  a = a
  b = b
  r = r
  q = q
  r1 = r1
  r2 = r2
  f1 = f1
  f2 = f2
  NoFd = NoFd
  Requests <- MCRequests
  Fds <- MCFds
  Setups <- MCSetups
  MaxPackets = 3
SYMMETRY Symmetry
CHECK_DEADLOCK FALSE
SPECIFICATION Spec
INVARIANTS
  TypeOK
  SpansOfTheirRequest
  OneSpanPerPacket
  DataCarriesIds
  TextsInPathOrder
  KeptFieldsShown
  RoutersShown
