CONSTANTS
  r1 = r1
  r2 = r2
  t1 = t1
  t2 = t2
  short = short
  cheap = cheap
  Nobody = Nobody
  Readers = {r1}
  Callers <- ReadersAndFeed
  QueueSize = 1
  Trades = {t1, t2}
  Price <- OnePrice
  TooShort = {short}
  TradeMessages <- MixedMessages
  StartIndices = {1, 2}
  Limits = {3}
  MaxBatchSize = 2
  MaxDelivered = 3
  MaxFaults = 2
SPECIFICATION Spec
INVARIANTS TypeOK CallsInFlight NoTradeLost GapsFromFaults NoDuplicateSeen
PROPERTY ImplementsLog
