CONSTANTS
  r1 = r1
  r2 = r2
  t1 = t1
  t2 = t2
  short = short
  cheap = cheap
  Nobody = Nobody
  Readers = {r1, r2}
  Callers <- ReadersAndFeed
  QueueSize = 1
  Trades = {t1, t2}
  Price <- OnePrice
  TooShort = {short}
  TradeMessages <- PairMessage
  StartIndices = {1}
  Limits = {2}
  MaxBatchSize = 2
  MaxDelivered = 2
  MaxFaults = 1
SPECIFICATION FairSpec
INVARIANT CallsInFlight
PROPERTIES RequestsAnswered 
