CONSTANTS
  SHARE = 8
  GRAIN = 4
  MaxMisread = 2
  Symbols <- MCSymbols
  Calls <- FractionalCalls
SPECIFICATION LoopSpec
INVARIANT ExitsAreWhole
CHECK_DEADLOCK FALSE
