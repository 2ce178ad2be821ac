CONSTANTS
  Accounts = {a1, a2}
  Symbols = {s1}
  OrderIds = {o1, o2, o3}
  NoPrice = noPrice
  NoSubmission = none
  NoQuote = noQuote
  Prices = {1, 2}
  Qtys = {1, 2}
  Times = {1, 2, 3}
  Tickets <- AnyTickets
  Ticks = {1}
  InitialCash = 3
  InitialShares <- TwoShares
  EngineModes = {"B"}
  Quotes = {}
  MarketBuyPrice = 9
  Amounts = {3}
  MaxCash = 3
  Deletable = {}
SPECIFICATION Spec
SYMMETRY ModelSymmetry
INVARIANTS NoNegativeBalances
