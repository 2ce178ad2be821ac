CONSTANTS
  Accounts = {a1, a2}
  Symbols = {s1}
  OrderIds = {o1, o2}
  NoPrice = noPrice
  NoSubmission = none
  NoQuote = noQuote
  Prices = {1, 2}
  Qtys = {1, 2}
  Times = {1, 2, 3}
  Tickets <- LimitTickets
  Ticks = {1}
  InitialCash = 3
  InitialShares <- TwoShares
  EngineModes = {"A", "B"}
  Quotes <- OneQuote
  MarketBuyPrice = 9
  Amounts = {3}
  MaxCash = 3
  Deletable = {}
SPECIFICATION Spec
SYMMETRY ModelSymmetry
PROPERTIES ClosedOrdersStayClosed
