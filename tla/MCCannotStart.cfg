CONSTANTS
  Accounts = {a1}
  Symbols = {s1}
  OrderIds = {o1}
  NoPrice = noPrice
  NoSubmission = none
  NoQuote = noQuote
  Nothing = nothing
  Prices = {1}
  Qtys = {1}
  Tickets <- LimitTickets
  Ticks = {1}
  InitialCash = 0
  InitialShares <- TwoShares
  EngineModes = {"A", "B"}
  Quotes <- OneQuote
  MarketBuyPrice = 9
  Amounts = {2}
  MaxCash = 0
  Deletable = {}
  Kills = FALSE
  IOErrors = FALSE
  MaxLives = 2
  MaxJournal = 9
SPECIFICATION RecoverySpec
PROPERTIES ColdStartCompletes
