------------------------------- MODULE Trading -------------------------------
(***************************************************************************)
(* AppContext: the REST handlers, the routing of OMS events and the two    *)
(* engines, over the OMS, the accounts and the matching engine.            *)
(*                                                                         *)
(* The process is one asyncio thread and no trading handler awaits, so a   *)
(* handler runs to its end before another starts.  It is still several     *)
(* steps here (the matching loop, then one settlement per trade, or one    *)
(* fill per order for Engine A), because an exception in the middle leaves *)
(* what was done so far: a handler starts only when the state is Idle.     *)
(***************************************************************************)
EXTENDS MatchingEngine, OMS, AccountService

CONSTANTS
  EngineModes,    \* the modes an operator uses, from {"A", "B"}
  Quotes,         \* [bid, ask] pairs the market data source delivers
  NoQuote,        \* no quote received yet
  MarketBuyPrice, \* 999999999, the price a MARKET BUY is routed with
  Amounts,        \* deposits and withdrawals
  MaxCash,        \* bound: no deposit takes available cash above it
  Deletable       \* the accounts an administrator may delete

VARIABLES
  engineMode,
  quotes,         \* MarketDataService._last_quotes
  toFill,         \* Engine A: orders of the current scan still to be filled
  deleted         \* users that were deleted

appVars == <<engineMode, quotes, toFill, deleted>>
vars == <<meVars, omsVars, accountVars, appVars>>

ASSUME TradingAssumption ==
  /\ EngineModes \subseteq {"A", "B"}
  /\ Quotes \subseteq [bid : Nat, ask : Nat]
  /\ NoQuote \notin Quotes
  /\ MarketBuyPrice \in Nat
  /\ Amounts \subseteq Nat \ {0}
  /\ MaxCash \in Nat
  /\ Deletable \subseteq Accounts

TypeOK ==
  /\ METypeOK
  /\ OMSTypeOK
  /\ AccountTypeOK
  /\ engineMode \in EngineModes
  /\ quotes \in [Symbols -> Quotes \cup {NoQuote}]
  /\ toFill \subseteq DOMAIN orders
  /\ deleted \subseteq Accounts

Init ==
  /\ MEInit
  /\ OMSInit
  /\ AccountInit
  /\ engineMode \in EngineModes
  /\ quotes = [s \in Symbols |-> NoQuote]
  /\ toFill = {}
  /\ deleted = {}

\* Between two handlers.
Idle == MEIdle /\ toFill = {}

Users == Accounts \ deleted

-----------------------------------------------------------------------------
\* The price an order is matched at: MARKET orders cross everything.
EffectivePrice(ticket) ==
  IF ticket.type = "MARKET"
  THEN IF ticket.side = "BUY" THEN MarketBuyPrice ELSE 0
  ELSE IF ticket.price = NoPrice THEN 0 ELSE ticket.price

\* Engine A's price: the market's ask for a buyer, its bid for a seller.
MarketSide(ticket, quote) == IF ticket.side = "BUY" THEN quote.ask ELSE quote.bid

\* Rules 1 and 2 of _try_engine_a_fill.
Marketable(ticket, quote) ==
  /\ quote # NoQuote
  /\ MarketSide(ticket, quote) > 0
  /\ IF ticket.side = "BUY"
     THEN EffectivePrice(ticket) >= quote.ask
     ELSE EffectivePrice(ticket) <= quote.bid

\* POST /orders, when the funds cannot be locked.
PlaceRejected(o, a, ticket) ==
  /\ Idle
  /\ a \in Users
  /\ ~CanLock(a, ticket.symbol, ticket.side, ticket.qty, ticket.price)
  /\ RejectOrder(o, a, ticket)
  /\ UNCHANGED <<meVars, accountVars, appVars>>

\* POST /orders: lock, accept, route.  Engine B puts the order on the book;
\* Engine A fills it at once if the last quote allows, else leaves it ROUTED.
PlaceAccepted(o, a, ticket) ==
  /\ Idle
  /\ a \in Users
  /\ LockFunds(a, o, ticket.symbol, ticket.side, ticket.qty, ticket.price)
  /\ AcceptAndRoute(o, a, ticket)
  /\ UNCHANGED <<engineMode, quotes, deleted>>
  /\ IF engineMode = "B"
     THEN /\ SubmitOrder(o, ticket.symbol, ticket.side, EffectivePrice(ticket),
                         ticket.qty, clock')
          /\ UNCHANGED toFill
     ELSE /\ toFill' = IF Marketable(ticket, quotes[ticket.symbol]) THEN {o} ELSE {}
          /\ UNCHANGED meVars

\* DELETE /orders/{id}, by the owner or an administrator: unlock, cancel, and
\* on the OrderCanceled event take the order off the book.
Cancel(o) ==
  /\ o \in DOMAIN orders
  /\ Idle
  /\ UnlockFunds(o)
  /\ CancelOrder(o)
  /\ CancelInBook(orders[o].ticket.symbol, o)
  /\ UNCHANGED appVars

Deposit(a, amount) ==
  /\ Idle
  /\ a \in Users
  /\ cashAvailable[a] + amount <= MaxCash
  /\ DepositCash(a, amount)
  /\ UNCHANGED <<meVars, omsVars, appVars>>

Withdraw(a, amount) ==
  /\ Idle
  /\ a \in Users
  /\ WithdrawCash(a, amount)
  /\ UNCHANGED <<meVars, omsVars, appVars>>

\* PUT /settings/engine-mode: a flag, nothing else changes.
SetEngineMode(mode) ==
  /\ Idle
  /\ engineMode' = mode
  /\ UNCHANGED <<meVars, omsVars, accountVars, quotes, toFill, deleted>>

\* DELETE /admin/users/{id}.
DeleteUser(a) ==
  /\ Idle
  /\ a \in Users
  /\ DeleteAccount(a)
  /\ deleted' = deleted \cup {a}
  /\ UNCHANGED <<meVars, omsVars, engineMode, quotes, toFill>>

-----------------------------------------------------------------------------
(* Engine B: what follows submit_order in _route_to_me *)

MatchStep == Match /\ UNCHANGED <<omsVars, accountVars, appVars>>

EndMatchStep == EndMatch /\ UNCHANGED <<omsVars, accountVars, appVars>>

\* One iteration of `for trade in trades`: OMS first, then the accounts.
Settle ==
  /\ NextTrade
  /\ LET t == Head(trades)
     IN  /\ ~TradeRaises(t.buy, t.sell, t.qty)
         /\ FillBoth(t.buy, t.sell, t.qty)
         /\ SettleTrade(orders[t.buy].account, orders[t.sell].account,
                        t.buy, t.sell, t.symbol, t.price, t.qty)
  /\ UNCHANGED appVars

\* OMS refuses the fill: the exception leaves the loop, and the trades that
\* were still to be settled are forgotten.
SettleRaises ==
  /\ submission = NoSubmission
  /\ trades # <<>>
  /\ LET t == Head(trades)
     IN  /\ TradeRaises(t.buy, t.sell, t.qty)
         /\ FillBothRaising(t.buy, t.sell, t.qty)
  /\ trades' = <<>>
  /\ UNCHANGED <<bids, asks, seen, submission, accountVars, appVars>>

-----------------------------------------------------------------------------
(* Engine A *)

\* Mutant of MarketData: orders not filled at all yet are forgotten.
MarketDataPartialOnly(s, quote) ==
  /\ Idle
  /\ quotes' = [quotes EXCEPT ![s] = quote]
  /\ toFill' = IF engineMode = "B" THEN {}
               ELSE { o \in DOMAIN orders :
                        /\ orders[o].ticket.symbol = s
                        /\ orders[o].status = "PARTIALLY_FILLED"
                        /\ Marketable(orders[o].ticket, quote) }
  /\ UNCHANGED <<meVars, omsVars, accountVars, engineMode, deleted>>

\* on_market_data: the quote is cached and, in mode A, every resting order of
\* the symbol that it can fill is filled.
MarketData(s, quote) ==
  /\ Idle
  /\ quotes' = [quotes EXCEPT ![s] = quote]
  /\ toFill' = IF engineMode = "B" THEN {}
               ELSE { o \in DOMAIN orders :
                        /\ orders[o].ticket.symbol = s
                        /\ orders[o].status \in {"ROUTED", "PARTIALLY_FILLED"}
                        /\ Remaining(orders[o]) > 0
                        /\ Marketable(orders[o].ticket, quote) }
  /\ UNCHANGED <<meVars, omsVars, accountVars, engineMode, deleted>>

\* _try_engine_a_fill for the next order of the scan (the repository lists
\* orders oldest first): the whole remainder, at the market's price.
FillAtMarket(o) ==
  /\ o \in toFill
  /\ \A x \in toFill : orders[o].created <= orders[x].created
  /\ LET ord == orders[o]
         t == ord.ticket
     IN  /\ FillFromMarket(o, Remaining(ord))
         /\ SettleMarketTrade(ord.account, o, t.symbol, t.side,
                              MarketSide(t, quotes[t.symbol]), Remaining(ord))
  /\ toFill' = toFill \ {o}
  /\ UNCHANGED <<meVars, engineMode, quotes, deleted>>

-----------------------------------------------------------------------------
Handlers ==
  \/ \E o \in OrderIds, a \in Accounts, ticket \in Tickets :
       PlaceRejected(o, a, ticket) \/ PlaceAccepted(o, a, ticket)
  \/ \E o \in OrderIds : Cancel(o)
  \/ \E a \in Accounts, amount \in Amounts : Deposit(a, amount) \/ Withdraw(a, amount)
  \/ \E mode \in EngineModes : SetEngineMode(mode)
  \/ \E a \in Deletable : DeleteUser(a)
  \/ \E s \in Symbols, quote \in Quotes : MarketData(s, quote)

\* The rest of a handler that has started.
Continue ==
  \/ MatchStep
  \/ EndMatchStep
  \/ Settle
  \/ SettleRaises
  \/ \E o \in OrderIds : FillAtMarket(o)

Next == Handlers \/ Continue

\* A handler that has started runs on: nothing in it waits.
Spec == Init /\ [][Next]_vars /\ WF_vars(Continue)
=============================================================================
