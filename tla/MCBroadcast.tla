----------------------------- MODULE MCBroadcast -----------------------------
(* Small instances of the broadcast. *)
EXTENDS Broadcast, TLC

\* Market data, and an event about one user's order.
OneOfEach ==
  { [symbol |-> s, owners |-> {}] : s \in Symbols } \cup
  { [symbol |-> NoSymbol, owners |-> {CHOOSE u \in Users : TRUE}] }

\* Clients are only compared for equality.
ModelSymmetry == Permutations(Clients)

\* Subscriptions change until the second event is published: what a walk makes of
\* them does not depend on other walks, which meet in the table only.
EarlySubscriptions == Len(tasks) > 1 => subscriptions' = subscriptions

EarlySpec == Init /\ [][Next /\ EarlySubscriptions]_vars
=============================================================================
