CONSTANTS
  WORD = 65536
  hello = hello
  c1 = c1
  c2 = c2
  o1 = o1
  o2 = o2
  Messages = {hello}
  Clients = {c1}
  Observers = {}
  Offered <- SoloOffered
  Instants <- SoloInstants
  ChannelCapacity = 2
  ReadingClients = {}
SPECIFICATION Spec
INVARIANTS NoPanic StacksValidate StacksWellShaped NoTaskLost
PROPERTY ImplementsService
