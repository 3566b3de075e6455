CONSTANTS
  SHARE = 6
  GRAIN = 3
  w1 = w1
  w2 = w2
  a = a
  b = b
  None = None
  Workers <- MCWorkers
  Symbols <- MCSymbols
  Orders <- MCOrders
  Quotes <- MCQuotes
  StartingCash = 20
  MaxCalls = 4
SPECIFICATION BrokerSpec
INVARIANTS
  BrokerTypeOK
  BooksBalance
  CostIsBounded
PROPERTIES
  AtomicOrders
  EveryCallReturns
