----------------------------- MODULE MCRecovery -----------------------------
(***************************************************************************)
(* Small instances of the trading system with crashes and restarts.        *)
(***************************************************************************)
EXTENDS RecoveryProperties, TLC

CONSTANTS Prices, Qtys

LimitTickets ==
  [symbol : Symbols, side : Sides, type : {"LIMIT"}, price : Prices, qty : Qtys]

\* Any trade fills its SELL in part.
PartialTickets ==
  { t \in LimitTickets : t.qty = IF t.side = "SELL" THEN 2 ELSE 1 }

\* A trade fills its SELL in part or in full.
SellsTwo(ticket) == ticket.side = "SELL" => ticket.qty = 2

MixedTickets == { t \in LimitTickets : SellsTwo(t) }

\* A SELL may be sent without a price.
UnpricedSells ==
  [symbol : Symbols, side : {"SELL"}, type : {"LIMIT"}, price : {NoPrice}, qty : {2}]

RestartTickets == LimitTickets \cup UnpricedSells

\* Every account starts with two shares of everything.
TwoShares == [p \in Accounts \X Symbols |-> 2]

OneQuote == { [bid |-> 2, ask |-> 1] }

\* The third order and deleted users are for orderly lives with Engine B.
Small == Cardinality(DOMAIN orders) <= 2 /\ deleted = {}
Calm ==
  /\ engineMode = "B" /\ ~holes /\ (before # Nothing => before.clean)
  /\ \A o \in DOMAIN orders : orders[o].ticket \in MixedTickets

\* A SELL for one share is placed only after a BUY for two, which is rejected.
SmallSells ==
  phase = "up" =>
    \A o \in DOMAIN orders' \ DOMAIN orders :
      \/ SellsTwo(orders'[o].ticket)
      \/ \E x \in DOMAIN orders : orders[x].ticket.side = "BUY" /\ orders[x].ticket.qty = 2

RestartsSpec ==
  RecoveryInit /\ [][RecoveryNext /\ ((Small /\ Small' /\ SmallSells) \/ Calm')]_allVars

\* The second process goes on with two orders at most, filled by Engine B, and
\* no deposits.  The third restores what they left; it is not followed further,
\* because nothing is restored from it.
Brief ==
  /\ Small /\ ~holes /\ engineMode = "B" /\ ~EngineAFillLogged
  /\ \A e \in Range(journal) : e.kind # "cash"

FollowLives == phase = "up" /\ lives > 1 => lives < MaxLives /\ Brief

OrderIdSymmetry == Permutations(OrderIds)

ModelSymmetry == OrderIdSymmetry \cup Permutations(Accounts)
=============================================================================
