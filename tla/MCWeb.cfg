CONSTANTS
  Tab = tab
  Clients = {tab, o1, o2}
  Bots = {b1, b2}
  Bodies <- MCBodies
  Patches <- MCPatches
  Trim <- MCTrim
  Upper <- MCUpper
  Length <- MCLength
  NumberOf <- MCNumberOf
  SymbolTexts <- MCSymbolTexts
  CurrencyTexts <- MCCurrencyTexts
  Typed <- MCTyped
  Symbols <- MCSymbols
  Percents <- MCPercents
  Slip <- MCSlip
  MaxHoldings = 4
  MaxAmount = 2000000
  MaxInputs = 3
  Keep = Keep
  Null = Null
  NaN = NaN
  Blank = Blank
  None = None
SPECIFICATION WebSpec
INVARIANTS
  StoreTypeOK
  RunningBotCanFire
  NoUpdateLost
  FormAgreesWithServer
  RetryIsAbsorbed
  ReadYourWrites
PROPERTIES
  BasketIsExact
CHECK_DEADLOCK FALSE
