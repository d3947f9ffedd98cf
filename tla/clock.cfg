CONSTANTS
  c1 = c1
  c2 = c2
  r1 = r1
  r2 = r2
  Clients = {c1, c2}
  ReadingClients = {c1}
  Requests = {r1, r2}
  MaxTicks = 2
SPECIFICATION FairSpec
INVARIANTS TypeOK ShownInOrder
PROPERTIES QuitsAnswered ShutsDown NewestReaches
