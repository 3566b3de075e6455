CONSTANTS
  SHARE = 4
  GRAIN = 2
  Symbols <- MCSymbols
  BotSettings <- MCSettings
  Bots = {b1}
  Schedulers = {s1, s2}
  Requests = {}
  Baskets <- MCBaskets
  Prices <- MCPrices
  Clockwork <- OnTwoSchedules
  Outages = {}
  FaultKinds = {"crash"}
  StartingCash = 20
  MaxTime = 3
  MaxRuns = 2
  MaxEdits = 2
  MaxFaults = 1
  MaxManual = 0
  None = None
SPECIFICATION EvalSpec
INVARIANTS
  ScheduleHonoured
  PlanStands
SYMMETRY Engines
CHECK_DEADLOCK FALSE
