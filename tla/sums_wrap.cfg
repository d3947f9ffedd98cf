CONSTANTS
  c1 = c1
  c2 = c2
  x = x
  y = y
  Nobody = Nobody
  Clients = {c1}
  Callers <- ClientsAndMain
  QueueSize = 1
  Half = 4
  Sums <- WrappedSums
  JournalSizes = {1}
  MaxRequestSize = 1
  MaxRequests = 2
  MaxFailures = 0
  MaxStops = 0
SPECIFICATION Spec
INVARIANT WrongSumsRefused
