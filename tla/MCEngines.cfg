CONSTANTS
  Accounts = {a1, a2}
  Symbols = {s1}
  OrderIds = {o1, o2, o3}
  NoPrice = noPrice
  NoSubmission = none
  NoQuote = noQuote
  Prices = {2}
  Qtys = {1, 2}
  Times = {1, 2, 3}
  Tickets <- PartialTickets
  Ticks = {1}
  InitialCash = 4
  InitialShares <- TwoShares
  EngineModes = {"A", "B"}
  Quotes <- OneQuote
  MarketBuyPrice = 9
  Amounts = {}
  MaxCash = 3
  Deletable = {a2}
SPECIFICATION Spec
INVARIANTS LockedIsAccountedFor NoNegativeBalances OpenOrdersAreFunded
PROPERTIES HandlersEnd
