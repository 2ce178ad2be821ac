CONSTANTS
  Accounts = {a1, a2}
  Symbols = {s1}
  OrderIds = {o1, o2, o3}
  NoPrice = noPrice
  NoSubmission = none
  NoQuote = noQuote
  Nothing = nothing
  Prices = {2}
  Qtys = {1, 2}
  Tickets <- RestartTickets
  Ticks = {1}
  InitialCash = 2
  InitialShares <- TwoShares
  EngineModes = {"A", "B"}
  Quotes <- OneQuote
  MarketBuyPrice = 9
  Amounts = {3}
  MaxCash = 3
  Deletable = {a1, a2}
  Kills = TRUE
  IOErrors = TRUE
  MaxLives = 3
  MaxJournal = 1
SPECIFICATION RestartsSpec
SYMMETRY ModelSymmetry
INVARIANTS OnlyTornTradesBlockStart
PROPERTIES OrdersRestored AccountsRestored BooksRestored RestoredAccountsAreSound RebuiltBooksAreFunded SharesSurvive NothingInvented
CONSTRAINT FollowLives
