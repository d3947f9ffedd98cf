CONSTANTS
  WORD = 65536
  hello = hello
  c1 = c1
  c2 = c2
  o1 = o1
  o2 = o2
  Messages = {hello}
  Clients = {c1}
  Observers = {o1, o2}
  Offered <- StateOffered
  Instants <- StalledInstants
  ChannelCapacity = 1
  ReadingClients = {}
SPECIFICATION FairSpec
PROPERTIES StateListsLiveTasks StateAnswered QuitEnds
