CONSTANTS
  SHARE = 4
  GRAIN = 2
  Symbols <- MCSymbols
  BotSettings <- MCSettings
  Bots = {b1}
  Schedulers = {s1}
  Requests = {}
  Baskets <- OneBasket
  Prices <- OneDay
  Clockwork <- OnSchedule
  Outages = {"loses the reply"}
  FaultKinds = {}
  StartingCash = 20
  MaxTime = 1
  MaxRuns = 2
  MaxEdits = 2
  MaxFaults = 1
  MaxManual = 0
  None = None
SPECIFICATION EvalSpec
INVARIANT RejectedWasNotFilled
CHECK_DEADLOCK FALSE
