CONSTANTS
  Clients = {c1, c2, c3}
  Users = {u1}
  Symbols = {s1}
  Topics = {s1}
  Events <- OneOfEach
  MaxEvents = 2
  Earlier = {1, 2}
  Free = free
  NoUser = noUser
  NoSymbol = noSymbol
SPECIFICATION EarlySpec
SYMMETRY ModelSymmetry
INVARIANTS NoOneSkipped SentAtMostOnce
CHECK_DEADLOCK FALSE
