CONSTANTS
  acc1 = acc1
  acc2 = acc2
  PaperAccount = PaperAccount
  None = None
  Clients = {c1, c2}
  Keys <- MCKeys
  Accepted <- MCAccepted
  AccountOf <- MCAccountOf
  Inputs <- MCInputs
  MaxInputs = 3
  Trim <- MCTrim
  Upper <- MCUpper
  Length <- MCLength
  NumberOf <- MCNumberOf
  SymbolTexts <- MCSymbolTexts
  CurrencyTexts <- MCCurrencyTexts
  MaxHoldings = 50
  MaxAmount = 1000000
  Keep = Keep
  Null = Null
  NaN = NaN
SPECIFICATION ScreenSpec
INVARIANTS
  ConnTypeOK
  ConnectedIsAttached
  ScreenIsTrue
PROPERTY
  EveryPressEnds
