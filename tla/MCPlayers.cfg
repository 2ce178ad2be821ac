CONSTANTS
  Ids = {u1, u2, u3}
  Accounts = {u1, u2, u3}
  Names = {"admin", "ann"}
  Profiles = {"active", "disabled"}
  NoUser = nobody
  IOErrors = TRUE
  Kills = TRUE
  Symbols = {s1, s2}
  Prices = {1, 2}
  Qtys = {1, 2}
  LastPrices = {2}
  Amounts = {2}
  MaxUsers = 3
  MaxLots = 3
  MaxFlows = 2
SPECIFICATION ApartSpec
SYMMETRY IdSymmetry
INVARIANTS NamesResolve LeaderboardAddsUp CostBasisInRange
PROPERTIES UsersSurvive
CHECK_DEADLOCK FALSE
