------------------------------ MODULE MCTrading ------------------------------
(***************************************************************************)
(* Small instances of the trading system.  The order forms are the ones    *)
(* the runs enumerate: every side, price and quantity of two values each.  *)
(***************************************************************************)
EXTENDS TradingProperties, Matcher, TLC

Form(type, prices) ==
  [symbol : Symbols, side : Sides, type : {type}, price : prices, qty : Qtys]

LimitTickets == Form("LIMIT", Prices)

\* MARKET forms: with a reference price, or with none.
MarketTickets == Form("MARKET", Prices \cup {NoPrice})

AnyTickets == LimitTickets \cup MarketTickets

\* Any trade fills its SELL in part.
PartialTickets ==
  { t \in LimitTickets : t.qty = IF t.side = "SELL" THEN 2 ELSE 1 }

\* Every account starts with two shares of everything.
TwoShares == [p \in Accounts \X Symbols |-> 2]

\* Zero means the market has no bid, or no ask.
AnyQuote == [bid : Prices \cup {0}, ask : Prices \cup {0}]

\* A market that would take everything.
OneQuote == { [bid |-> 2, ask |-> 1] }

\* Nobody switches engines: a process runs Engine B without a market, or Engine A
\* with every market and at most two orders.
OneEngine ==
  /\ engineMode' = engineMode
  /\ IF engineMode = "B" THEN quotes' = quotes ELSE Cardinality(DOMAIN orders') <= 2

ApartSpec == Init /\ [][Next /\ OneEngine]_vars

OrderIdSymmetry == Permutations(OrderIds)

\* Order ids and accounts are only compared for equality, and every account
\* starts with the same holdings.
ModelSymmetry == OrderIdSymmetry \cup Permutations(Accounts)
=============================================================================
