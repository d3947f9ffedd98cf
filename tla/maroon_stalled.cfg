CONSTANTS
  WORD = 65536
  hello = hello
  c1 = c1
  c2 = c2
  o1 = o1
  o2 = o2
  Messages = {hello}
  Clients = {c1, c2}
  Observers = {}
  Offered <- StalledOffered
  Instants <- StalledInstants
  ChannelCapacity = 1
  ReadingClients = {c2}
SPECIFICATION FairSpec
PROPERTY SessionsComplete
