CONSTANTS
  c1 = c1
  c2 = c2
  x = x
  y = y
  Nobody = Nobody
  Clients = {c1, c2}
  Callers <- ClientsAndMain
  QueueSize = 1
  Half = 4
  Sums <- PlainSums
  JournalSizes = {2}
  MaxRequestSize = 1
  MaxRequests = 3
  MaxFailures = 1
  MaxStops = 1
SPECIFICATION FairSpec
INVARIANTS TypeOK IdsAcceptedOnce AcceptedAreJournaled PagesAreLatest CountedOnce
PROPERTY HandlersAnswer
