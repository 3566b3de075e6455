CONSTANTS
  Clients = {c1, c2}
  Bots = {b1, b2}
  Bodies <- MCNamedBodies
  Patches <- MCRenames
  Trim <- MCTrim
  Upper <- MCUpper
  Length <- MCLength
  NumberOf <- MCNumberOf
  SymbolTexts <- MCSymbolTexts
  CurrencyTexts <- MCCurrencyTexts
  MaxHoldings = 50
  MaxAmount = 1000000
  Keep = Keep
  Null = Null
  NaN = NaN
  None = None
SPECIFICATION StoreSpec
PROPERTY EveryRequestAnswered
