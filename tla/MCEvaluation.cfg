CONSTANTS
  SHARE = 4
  GRAIN = 2
  Symbols <- MCSymbols
  BotSettings <- MCSettings
  Bots = {b1}
  Schedulers = {s1}
  Requests = {m1}
  Baskets <- OneBasket
  Prices <- OneDay
  Clockwork <- OnSchedule
  Outages = {"refuses", "loses the reply", "keeps open"}
  FaultKinds = {"crash", "exception", "lost session"}
  StartingCash = 20
  MaxTime = 1
  MaxRuns = 2
  MaxEdits = 1
  MaxFaults = 1
  MaxManual = 1
  None = None
SPECIFICATION EvalSpec
INVARIANTS
  EvalTypeOK
  TrailIsTrue
  RunTally
  OpenRunsAreWorkedOn
  NoOrphanRows
CHECK_DEADLOCK FALSE
