CONSTANTS
  r1 = r1
  r2 = r2
  t1 = t1
  t2 = t2
  short = short
  cheap = cheap
  Nobody = Nobody
  Readers = {}
  Callers <- ReadersAndFeed
  QueueSize = 1
  Trades = {t1}
  Price <- OnePrice
  TooShort = {short}
  TradeMessages <- ResentMessage
  StartIndices = {}
  Limits = {}
  MaxBatchSize = 2
  MaxDelivered = 2
  MaxFaults = 0
SPECIFICATION Spec
INVARIANT NoTradeStoredTwice
