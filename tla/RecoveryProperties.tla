-------------------------- MODULE RecoveryProperties --------------------------
(***************************************************************************)
(* What cold start promises.  Most of it is said of the step that ends it: *)
(* how the state it restored compares with the state the last process was  *)
(* in, and what it is like on its own.                                     *)
(***************************************************************************)
EXTENDS Recovery

Restored == phase = "restoring" /\ phase' = "up"

\* The order was filled up or beyond by a fill that the state machine refused
\* after the quantity was added (matched_twice), and no event tells of it.
FillRefused(ord) ==
  \/ Remaining(ord) < 0
  \/ Remaining(ord) = 0 /\ ord.status # "FILLED"

\* The process ended in order, and no fill was refused in it.
EndedWell ==
  /\ before.clean
  /\ \A o \in DOMAIN before.orders : ~FillRefused(before.orders[o])

\* No earlier crash tore a placement.  The order it leaves PENDING can be
\* canceled: its funds are unlocked, the transition raises, no event is pushed,
\* and the next replay locks them again.
NoneTornBefore ==
  \A o \in DOMAIN before.orders : before.orders[o].status # "PENDING"

\* After an orderly shutdown the orders, with their status and filled quantity,
\* are what they were (step 4 of cold_start and the OrderFilled events).
OrdersRestored ==
  [][ Restored /\ EndedWell => orders' = before.orders ]_allVars

\* A fill by Engine A, logged as a trade of the order with itself; no settlement
\* is logged with it.
EngineAFillLogged == \E e \in Range(journal) : e.kind = "trade" /\ e.buy = e.sell

\* So are balances, positions and locks, unless Engine A has filled an order or
\* an earlier crash tore a placement: the projection replays the locks of the
\* placements and the settlements, in the order they happened.
AccountsRestored ==
  [][ Restored /\ EndedWell /\ NoneTornBefore /\ ~EngineAFillLogged =>
        accountVars' = before.accounts ]_allVars

\* A LIMIT order whose form has no price: the handler puts it on the book at 0,
\* the rebuild leaves it out (app.py:522).
Unpriced(ticket) == ticket.type = "LIMIT" /\ ticket.price = NoPrice

\* Entries of orders that the rebuild treats as the handlers do.
Comparable(list) ==
  SelectSeq(list, LAMBDA e : /\ before.orders[e.order].status # "REJECTED"
                             /\ ~Unpriced(before.orders[e.order].ticket))

\* An order that was placed in mode A, and waits.
Stranded(o) ==
  LET s == before.orders[o].ticket.symbol
  IN  IsOpen(before.orders[o]) /\ ~Rests(before.bids[s], o) /\ ~Rests(before.asks[s], o)

\* So are the books, apart from rejected orders, which the rebuild brings back, and
\* orders without a price, which it does not, if no open order was missing from
\* them: rebuild_order_book_from_log computes them from other events than those
\* the OMS is rebuilt from.
BooksRestored ==
  [][ Restored /\ EndedWell /\ ~EngineAFillLogged
        /\ (\A o \in DOMAIN before.orders : ~Stranded(o)) =>
        \A s \in Symbols : /\ Comparable(bids'[s]) = Comparable(before.bids[s])
                           /\ Comparable(asks'[s]) = Comparable(before.asks[s]) ]_allVars

\* A rejected order came back on a rebuilt book and was filled in part, which no
\* state machine refuses (oms_service.py:168): it settles with funds nobody locked.
RejectedSettled ==
  \E e, f \in Range(journal) :
    /\ e.kind = "settlement"
    /\ f.kind = "status" /\ f.status = "REJECTED" /\ f.order \in {e.buy, e.sell}

\* Wherever a crash cuts the log, in the middle of a handler's events or between
\* a trade and its settlement, locks and balances agree and nothing is negative,
\* unless somebody traded without funds: Engine A's credits are not in the log, the
\* funds of a torn placement can be spent twice, a rejected order locked none.
RestoredAccountsAreSound ==
  [][ Restored /\ ~holes /\ ~EngineAFillLogged /\ NoneTornBefore /\ ~RejectedSettled =>
        LockedIsAccountedFor' /\ NoNegativeBalances' ]_allVars

\* Even with holes in the log no share appears or vanishes in a restart: users hold
\* together what they held in the beginning, because one settlement event has both
\* sides of an exchange.  Two things are excepted.  A deleted user takes shares
\* away.  Engine A trades with the market and logs no settlement (app.py:358-393):
\* when the log has a trade of Engine A, the shares it moved are lost or back.
SharesSurvive ==
  [][ Restored /\ deleted = {} /\ ~EngineAFillLogged =>
        \A s \in Symbols :
          TotalShares(s)' = SumOver(InitialShares, Accounts \X {s}) ]_allVars

\* Recovery invents nothing: an order that comes back was there, for the same
\* form, and is filled no further than it was.
NothingInvented ==
  [][ Restored =>
        \A o \in DOMAIN orders' :
          /\ o \in DOMAIN before.orders
          /\ orders'[o].ticket = before.orders[o].ticket
          /\ orders'[o].filled <= before.orders[o].filled
    ]_allVars

\* After a crash, wherever it cut the log, what is on the rebuilt book has the
\* funds to trade, except the orders of deleted users and those whose placement
\* was torn or rejected.  The book comes from placements, cancels and trades; the
\* locks come from placements, cancels and settlements.  Engine A's credits are not in the log,
\* so a placement they paid for may find nothing to lock; neither may one paid
\* for with funds that the cancel of a torn order unlocked.
RebuiltBooksAreFunded ==
  [][ Restored /\ ~holes /\ ~EngineAFillLogged /\ NoneTornBefore =>
        \A s \in Symbols, side \in Sides :
          LET list == IF side = "BUY" THEN bids'[s] ELSE asks'[s]
          IN  \A i \in DOMAIN list :
                /\ orders[list[i].order].status \notin {"PENDING", "REJECTED"}
                /\ orders[list[i].order].account \in Users
                =>
                  /\ HasLock(list[i].order)
                  /\ IF side = "BUY"
                     THEN locks[list[i].order].cash >= list[i].price * list[i].qty
                     ELSE locks[list[i].order].qty >= list[i].qty ]_allVars

Logged(test(_)) == Cardinality({i \in DOMAIN journal : test(journal[i])})

\* The log has a trade of the order whose OrderFilled it has not: a crash came
\* between the two, or the other order of the trade refused the fill.
TradeTorn(o) ==
  Logged(LAMBDA e : e.kind = "filled" /\ e.order = o)
    < Logged(LAMBDA e : e.kind = "trade" /\ o \in {e.buy, e.sell})

\* The next start is blocked only after a crash between a trade and its fills or
\* a fill refused, when an open order has no price, or when the credit of an
\* Engine A sale is missing: an open order's trade is torn, its form has no price,
\* or the next event is a withdrawal.
OnlyTornTradesBlockStart ==
  phase = "failed" /\ ~holes =>
    \/ replayed < Len(journal) /\ journal[replayed + 1].kind = "cash"
    \/ \E o \in DOMAIN orders :
         IsOpen(orders[o]) /\ (TradeTorn(o) \/ Unpriced(orders[o].ticket))

\* Cold start comes to its end: it can replay the whole log
\* (design-spec.md:245).
ColdStartCompletes == (phase = "restoring") ~> (phase = "up")
=============================================================================
