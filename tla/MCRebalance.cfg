CONSTANTS
  SHARE = 6
  GRAIN = 3
  MaxMisread = 2
  Symbols <- MCSymbols
  Calls <- MCCalls
SPECIFICATION LoopSpec
INVARIANTS
  TypeOK
  BudgetKept
  NoOvershoot
  EverySymbolAnswered
  MostUnderweightFirst
  LoopsComputeBuildPlan
  PlanIsCarriedOut
  OnePassSuffices
  RestIsLiquidated
  RestIsOnTarget
PROPERTY
  EventuallySettles
\* A settled bot has no further step: its next evaluation is the same one.
CHECK_DEADLOCK FALSE
