CONSTANTS
  WORD = 65536
  hello = hello
  c1 = c1
  c2 = c2
  o1 = o1
  o2 = o2
  Messages = {hello}
  Clients = {c1, c2}
  Observers = {}
  Offered <- PairOffered
  Instants <- PairInstants
  ChannelCapacity = 1
  ReadingClients = {}
SPECIFICATION Spec
INVARIANTS TypeOK PendingMirrorsActive OrderedUnlessLate
PROPERTY ImplementsService
