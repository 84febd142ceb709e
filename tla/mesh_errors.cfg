\* The requests of mesh: the errors the services report.
CONSTANTS
  a = a
  b = b
  c = c
  external = external
  Services = {a, b, c}
  Urls <- MCUrls
  Endpoints <- MCEndpoints
  RequestTimeout = 1
  WriteTimeout = 2
  MaxStops = 1
SPECIFICATION Spec
INVARIANT
  ErrorsAreOfRequests
