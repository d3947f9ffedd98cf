CONSTANTS
  WORD = 65536
  hello = hello
  c1 = c1
  c2 = c2
  o1 = o1
  o2 = o2
  Messages = {hello}
  Clients = {c1}
  Observers = {}
  Offered <- WrapOffered
  Instants <- PairInstants
  ChannelCapacity = 2
  ReadingClients = {c1}
SPECIFICATION Spec
INVARIANT DelayedAsAnnounced
