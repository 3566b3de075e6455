CONSTANTS
  Clients = {c1, c2}
  Bots = {b1}
  Bodies <- MCBodies
  Patches <- MCPatches
  Trim <- MCTrim
  Upper <- MCUpper
  Length <- MCLength
  NumberOf <- MCNumberOf
  SymbolTexts <- MCSymbolTexts
  CurrencyTexts <- MCCurrencyTexts
  MaxHoldings = 50
  MaxAmount = 1000000
  Keep = Keep
  Null = Null
  NaN = NaN
  None = None
SPECIFICATION StoreSpec
PROPERTY RunningBotNotRespecified
