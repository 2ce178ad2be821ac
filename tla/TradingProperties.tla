-------------------------- MODULE TradingProperties --------------------------
(***************************************************************************)
(* What makes the composed system correct.  Each property is checked in    *)
(* the configurations the README names; some hold only without Engine A,   *)
(* or only for LIMIT orders, and the README says why.                      *)
(***************************************************************************)
EXTENDS Trading, FiniteSetsExt

SumOver(f, S) == MapThenSumSet(LAMBDA x : f[x], S)

LockCash(a) ==
  SumOver([o \in DOMAIN locks |-> locks[o].cash],
    { o \in DOMAIN locks : locks[o].account = a /\ locks[o].side = "BUY" })

LockQty(a, s) ==
  SumOver([o \in DOMAIN locks |-> locks[o].qty],
    { o \in DOMAIN locks : /\ locks[o].account = a
                           /\ locks[o].side = "SELL"
                           /\ locks[o].symbol = s })

\* The locked balances are exactly what the lock records say: lock_funds,
\* unlock_funds, the two settlements and _reduce_order_lock update balance and
\* record separately, and a cancel returns what the record says.
LockedIsAccountedFor ==
  \A a \in Users :
    /\ cashLocked[a] = LockCash(a)
    /\ \A s \in Symbols : qtyLocked[<<a, s>>] = LockQty(a, s)

NonNegative(a) ==
  /\ cashAvailable[a] >= 0
  /\ cashLocked[a] >= 0
  /\ \A s \in Symbols : qtyAvailable[<<a, s>>] >= 0 /\ qtyLocked[<<a, s>>] >= 0

\* No negative balance and no negative position (design-spec.md:405), for the
\* accounts of existing users.
NoNegativeBalances == \A a \in Users : NonNegative(a)

\* While an order is open its lock covers what it can still cost: a BUY never
\* settles cash, nor a SELL shares, that were not set aside for it.  Once it
\* is over nothing is left locked for a SELL, nor for a BUY that was canceled
\* or rejected.
OpenOrdersAreFunded ==
  \A o \in DOMAIN orders :
    LET ord == orders[o]
        t == ord.ticket
    IN  ord.account \in Users =>
          IF IsOpen(ord)
          THEN /\ HasLock(o)
               /\ IF t.side = "BUY"
                  THEN t.type = "LIMIT" => locks[o].cash >= t.price * Remaining(ord)
                  ELSE locks[o].qty = Remaining(ord)
          ELSE HasLock(o) => t.side = "BUY" /\ ord.status = "FILLED"

\* No order is filled beyond its quantity, and it is FILLED exactly when its
\* quantity is reached.
FillsWithinQuantity ==
  \A o \in DOMAIN orders :
    LET ord == orders[o]
    IN  /\ Remaining(ord) >= 0
        /\ ord.status = "FILLED" <=> Remaining(ord) = 0

SideOf(ticket) == IF ticket.side = "BUY" THEN bids[ticket.symbol] ELSE asks[ticket.symbol]

\* Between handlers the books and the repository agree in mode B: the orders on
\* the book are the open ones, with their remaining quantity and their price,
\* each on its own side of its own symbol's book and nowhere else.
BookMirrorsOrders ==
  Idle /\ engineMode = "B" =>
    /\ \A o \in DOMAIN orders :
         LET t == orders[o].ticket
         IN  RestingQty(SideOf(t), o) = IF IsOpen(orders[o]) THEN Remaining(orders[o]) ELSE 0
    /\ \A s \in Symbols, side \in Sides :
         LET list == IF side = "BUY" THEN bids[s] ELSE asks[s]
         IN  \A i \in DOMAIN list :
               LET t == orders[list[i].order].ticket
               IN  /\ t.symbol = s /\ t.side = side
                   /\ list[i].price = EffectivePrice(t)
                   /\ \A j \in DOMAIN list : list[i].order = list[j].order => i = j

\* In mode A no order waits that the latest quote would fill: on_market_data
\* re-evaluates all resting orders (readme.md:114) and a new order is tried
\* against the quote on arrival.
NoMissedFill ==
  Idle =>
    \A o \in DOMAIN orders :
      IsOpen(orders[o]) => ~Marketable(orders[o].ticket, quotes[orders[o].ticket.symbol])

-----------------------------------------------------------------------------
TotalCash == SumOver(cashAvailable, Accounts) + SumOver(cashLocked, Accounts)

TotalShares(s) ==
  SumOver(qtyAvailable, Accounts \X {s}) + SumOver(qtyLocked, Accounts \X {s})

\* Engine B moves money and shares and creates neither: the total cash changes
\* only by a deposit or a withdrawal, the total of a share never.
Conservation ==
  [][ engineMode = "B" =>
        /\ TotalCash' # TotalCash =>
             \E a \in Accounts, amount \in Amounts :
               Deposit(a, amount) \/ Withdraw(a, amount)
        /\ \A s \in Symbols : TotalShares(s)' = TotalShares(s)
    ]_vars

\* Once FILLED, CANCELED or REJECTED an order never changes again: it is not
\* filled after a cancel, and not matched twice (design-spec.md:91).
ClosedOrdersStayClosed ==
  [][ \A o \in DOMAIN orders :
        orders[o].status \in {"FILLED", "CANCELED", "REJECTED"}
        => orders'[o] = orders[o] ]_vars

\* Whenever two orders trade, no open order of the same side and symbol, other
\* than the one being submitted, had a better price or the same price and an
\* earlier placement: price-time priority between orders, not only between
\* the entries of the book.
PriceTimePriority ==
  [][ Len(trades') > Len(trades) =>
        LET t == trades'[Len(trades')]
            Overtaken(o, x) ==
              /\ orders[o].ticket.side = orders[x].ticket.side
              /\ orders[o].ticket.symbol = orders[x].ticket.symbol
              /\ IsOpen(orders[o])
              /\ Rests(SideOf(orders[o].ticket), o)
              /\ Outranks(orders[x].ticket.side,
                   [price |-> EffectivePrice(orders[o].ticket), time |-> orders[o].created],
                   [price |-> EffectivePrice(orders[x].ticket), time |-> orders[x].created])
        IN  \A o \in DOMAIN orders : ~Overtaken(o, t.buy) /\ ~Overtaken(o, t.sell)
    ]_vars

\* Every handler comes to its end: the matching loop and the walks over trades
\* and orders terminate.
HandlersEnd == ~Idle ~> Idle
=============================================================================
