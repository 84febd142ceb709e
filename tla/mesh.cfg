\* A request to each URL of three services, one of which may be interrupted or killed.
CONSTANTS
  a = a
  b = b
  c = c
  external = external
  Services = {a, b, c}
  Urls <- MCUrls
  Endpoints <- MCEndpoints
  RequestTimeout = 1
  WriteTimeout = 2
  MaxStops = 1
SPECIFICATION Spec
INVARIANTS
  TypeOK
  OneActiveBranch
  LateAnswersUnawaited
  SuccessContactsAll
PROPERTIES
  EverythingSettles
  Promised
