---------------------------- MODULE TradingProofs ----------------------------
(***************************************************************************)
(* The composed system.  First its types, and the invariant of the engine  *)
(* inside it: what each operation of the OMS and of the accounts does,     *)
(* then one lemma per action of Trading.  After that, each from the parts  *)
(* before it: the orders against books, pending trades and locks; what     *)
(* holds as long as nobody switches engines; balances as sums of lock      *)
(* records; conservation.                                                  *)
(***************************************************************************)
EXTENDS TradingProperties, EngineProofs

-----------------------------------------------------------------------------
(* Dictionaries *)

LEMMA PutProperties ==
  ASSUME NEW f, NEW K, NEW V, DOMAIN f \subseteq K, f \in [DOMAIN f -> V],
         NEW k \in K, NEW v \in V
  PROVE  /\ DOMAIN Put(f, k, v) = DOMAIN f \cup {k}
         /\ DOMAIN Put(f, k, v) \subseteq K
         /\ Put(f, k, v) \in [DOMAIN Put(f, k, v) -> V]
         /\ Put(f, k, v)[k] = v
         /\ \A x \in DOMAIN f \ {k} : Put(f, k, v)[x] = f[x]
BY DEF Put

LEMMA DropProperties ==
  ASSUME NEW f, NEW K, NEW V, DOMAIN f \subseteq K, f \in [DOMAIN f -> V], NEW k
  PROVE  /\ DOMAIN Drop(f, k) = DOMAIN f \ {k}
         /\ DOMAIN Drop(f, k) \subseteq K
         /\ Drop(f, k) \in [DOMAIN Drop(f, k) -> V]
         /\ \A x \in DOMAIN f \ {k} : Drop(f, k)[x] = f[x]
BY DEF Drop, Restrict

-----------------------------------------------------------------------------
(* OMS *)

LEMMA EnterType ==
  ASSUME OMSTypeOK, NEW o, NEW a \in Accounts, NEW t \in Tickets,
         NEW status \in Statuses, Enter(o, a, t, status)
  PROVE  /\ OMSTypeOK'
         /\ DOMAIN orders' = DOMAIN orders \cup {o}
         /\ orders'[o].ticket = t
<1> DEFINE ord == [account |-> a, ticket |-> t, status |-> status,
                   created |-> clock', filled |-> 0]
<1>1. clock' \in Nat
  BY OMSAssumption DEF OMSTypeOK, Enter
<1>2. ord \in Orders
  BY <1>1, OMSAssumption DEF Orders
<1>3. orders' = Put(orders, o, ord) /\ o \in OrderIds /\ ord.ticket = t
  BY DEF Enter
<1> HIDE DEF ord
<1>4. DOMAIN orders \subseteq OrderIds /\ orders \in [DOMAIN orders -> Orders]
  BY DEF OMSTypeOK
<1>5. /\ DOMAIN Put(orders, o, ord) = DOMAIN orders \cup {o}
      /\ DOMAIN Put(orders, o, ord) \subseteq OrderIds
      /\ Put(orders, o, ord) \in [DOMAIN Put(orders, o, ord) -> Orders]
  BY <1>2, <1>3, <1>4, PutProperties
<1>6. Put(orders, o, ord)[o] = ord
  BY DEF Put
<1>7. QED
  BY <1>1, <1>3, <1>5, <1>6 DEF OMSTypeOK

\* Who placed which order never changes.
TicketsKept ==
  /\ DOMAIN orders' = DOMAIN orders
  /\ \A o \in DOMAIN orders : orders'[o].ticket = orders[o].ticket

LEMMA CancelOrderType ==
  ASSUME OMSTypeOK, NEW o \in DOMAIN orders, CancelOrder(o)
  PROVE  OMSTypeOK' /\ TicketsKept
BY DEF OMSTypeOK, CancelOrder, Orders, Statuses, TicketsKept

LEMMA FillType ==
  ASSUME NEW ord \in Orders, NEW q \in Int, ord.filled + q \in Nat
  PROVE  /\ Fill(ord, q) \in Orders /\ Fill(ord, q).ticket = ord.ticket
         /\ AddFill(ord, q) \in Orders /\ AddFill(ord, q).ticket = ord.ticket
<1>1. AddFill(ord, q) \in Orders /\ AddFill(ord, q).ticket = ord.ticket
  BY DEF AddFill, Orders
<1>2. Fill(ord, q) \in Orders /\ Fill(ord, q).ticket = ord.ticket
  BY <1>1 DEF Fill, Orders, Statuses
<1>3. QED
  BY <1>1, <1>2

LEMMA FillBothType ==
  ASSUME OMSTypeOK, NEW b \in DOMAIN orders, NEW s \in DOMAIN orders, NEW q \in Nat,
         FillBoth(b, s, q) \/ FillBothRaising(b, s, q)
  PROVE  OMSTypeOK' /\ TicketsKept
<1>1. orders[b] \in Orders /\ orders[s] \in Orders
  BY DEF OMSTypeOK
<1>2. \A ord \in Orders :
        /\ Fill(ord, q) \in Orders /\ Fill(ord, q).ticket = ord.ticket
        /\ AddFill(ord, q) \in Orders /\ AddFill(ord, q).ticket = ord.ticket
  <2> TAKE ord \in Orders
  <2>1. ord.filled + q \in Nat
    BY DEF Orders
  <2>2. QED
    BY <2>1, FillType
<1>3. CASE FillBoth(b, s, q)
  BY <1>1, <1>2, <1>3 DEF FillBoth, OMSTypeOK, TicketsKept
<1>4. CASE FillBothRaising(b, s, q)
  BY <1>1, <1>2, <1>4 DEF FillBothRaising, OMSTypeOK, TicketsKept
<1>5. QED
  BY <1>3, <1>4

LEMMA FillFromMarketType ==
  ASSUME OMSTypeOK, NEW o \in DOMAIN orders,
         FillFromMarket(o, Remaining(orders[o]))
  PROVE  OMSTypeOK' /\ TicketsKept
<1> DEFINE q == Remaining(orders[o])
<1>1. orders[o] \in Orders /\ q \in Int /\ orders[o].filled + q \in Nat
  BY DEF OMSTypeOK, Orders, TicketType, Remaining
<1> HIDE DEF q
<1>2. Fill(orders[o], q) \in Orders /\ Fill(orders[o], q).ticket = orders[o].ticket
  BY <1>1, FillType
<1>3. QED
  BY <1>2 DEF FillFromMarket, OMSTypeOK, TicketsKept, q

-----------------------------------------------------------------------------
(* Accounts *)

LEMMA LockFundsType ==
  ASSUME AccountTypeOK, NEW a \in Accounts, NEW o \in OrderIds, NEW s \in Symbols,
         NEW side \in Sides, NEW qty \in Nat, NEW price \in Nat \cup {NoPrice},
         LockFunds(a, o, s, side, qty, price)
  PROVE  AccountTypeOK'
<1> DEFINE cost == IF side = "BUY" THEN price * qty ELSE 0
           shares == IF side = "BUY" THEN 0 ELSE qty
           lock == [account |-> a, side |-> side, symbol |-> s, cash |-> cost, qty |-> qty]
<1>1. cost \in Int /\ shares \in Int
  <2>1. side = "BUY" => price \in Nat
    BY DEF LockFunds, CanLock
  <2>2. price \in Nat => price * qty \in Int
    OBVIOUS
  <2>3. QED
    BY <2>1, <2>2
<1> HIDE DEF cost, shares
<1>2. lock \in Locks
  BY <1>1 DEF Locks
<1>3. /\ cashAvailable' = [cashAvailable EXCEPT ![a] = @ - cost]
      /\ cashLocked' = [cashLocked EXCEPT ![a] = @ + cost]
      /\ qtyAvailable' = [qtyAvailable EXCEPT ![<<a, s>>] = @ - shares]
      /\ qtyLocked' = [qtyLocked EXCEPT ![<<a, s>>] = @ + shares]
      /\ locks' = Put(locks, o, lock)
  BY DEF LockFunds, cost, shares
<1>4. DOMAIN locks' \subseteq OrderIds /\ locks' \in [DOMAIN locks' -> Locks]
  <2> HIDE DEF lock
  <2>1. DOMAIN locks \subseteq OrderIds /\ locks \in [DOMAIN locks -> Locks]
    BY DEF AccountTypeOK
  <2>2. /\ DOMAIN Put(locks, o, lock) \subseteq OrderIds
        /\ Put(locks, o, lock) \in [DOMAIN Put(locks, o, lock) -> Locks]
    BY <1>2, <2>1, PutProperties
  <2>3. QED
    BY <1>3, <2>2
<1>5. QED
  BY <1>1, <1>3, <1>4 DEF AccountTypeOK

LEMMA UnlockFundsType ==
  ASSUME AccountTypeOK, NEW o, UnlockFunds(o)
  PROVE  AccountTypeOK'
<1>1. CASE ~HasLock(o)
  BY <1>1 DEF UnlockFunds, AccountTypeOK, accountVars
<1>2. CASE HasLock(o)
  <2> DEFINE lock == locks[o]
             shares == IF lock.side = "BUY" THEN 0 ELSE lock.qty
             cash == IF lock.side = "BUY" THEN lock.cash ELSE 0
  <2>1. /\ lock.account \in Accounts /\ lock.symbol \in Symbols
        /\ shares \in Int /\ cash \in Int
    BY <1>2 DEF AccountTypeOK, HasLock, Locks
  <2>2. /\ cashLocked' = [cashLocked EXCEPT ![lock.account] = @ - cash]
        /\ cashAvailable' = [cashAvailable EXCEPT ![lock.account] = @ + cash]
        /\ qtyLocked' = [qtyLocked EXCEPT ![<<lock.account, lock.symbol>>] = @ - shares]
        /\ qtyAvailable' = [qtyAvailable EXCEPT ![<<lock.account, lock.symbol>>] = @ + shares]
        /\ locks' = Drop(locks, o)
    BY <1>2 DEF UnlockFunds
  <2> HIDE DEF lock, shares, cash
  <2>3. /\ DOMAIN Drop(locks, o) \subseteq OrderIds
        /\ Drop(locks, o) \in [DOMAIN Drop(locks, o) -> Locks]
    BY DropProperties DEF AccountTypeOK
  <2>4. QED
    BY <2>1, <2>2, <2>3 DEF AccountTypeOK
<1>3. QED
  BY <1>1, <1>2

LEMMA ReduceLockType ==
  ASSUME NEW f, DOMAIN f \subseteq OrderIds, f \in [DOMAIN f -> Locks],
         NEW o, NEW cash \in Int, NEW qty \in Int
  PROVE  /\ DOMAIN ReduceLock(f, o, cash, qty) \subseteq OrderIds
         /\ ReduceLock(f, o, cash, qty) \in [DOMAIN ReduceLock(f, o, cash, qty) -> Locks]
<1>1. CASE o \notin DOMAIN f
  BY <1>1 DEF ReduceLock
<1>2. CASE o \in DOMAIN f /\ f[o].cash - cash <= 0 /\ f[o].qty - qty <= 0
  BY <1>2, DropProperties DEF ReduceLock
<1>3. CASE o \in DOMAIN f /\ ~(f[o].cash - cash <= 0 /\ f[o].qty - qty <= 0)
  <2>1. ReduceLock(f, o, cash, qty) = [f EXCEPT ![o].cash = @ - cash, ![o].qty = @ - qty]
    BY <1>3 DEF ReduceLock
  <2>2. f[o] \in Locks
    BY <1>3
  <2>3. QED
    BY <1>3, <2>1, <2>2 DEF Locks
<1>4. QED
  BY <1>1, <1>2, <1>3

LEMMA SettleTradeType ==
  ASSUME AccountTypeOK, NEW buyer \in Accounts, NEW seller \in Accounts,
         NEW buy, NEW sell, NEW s \in Symbols, NEW price \in Int, NEW qty \in Int,
         SettleTrade(buyer, seller, buy, sell, s, price, qty)
  PROVE  AccountTypeOK'
<1> DEFINE cost == price * qty
           l1 == ReduceLock(locks, buy, cost, 0)
<1>1. cost \in Int
  OBVIOUS
<1>2. /\ cashLocked' = [cashLocked EXCEPT ![buyer] = @ - cost]
      /\ cashAvailable' = [cashAvailable EXCEPT ![seller] = @ + cost]
      /\ qtyLocked' = [qtyLocked EXCEPT ![<<seller, s>>] = @ - qty]
      /\ qtyAvailable' = [qtyAvailable EXCEPT ![<<buyer, s>>] = @ + qty]
      /\ locks' = ReduceLock(l1, sell, 0, qty)
  BY DEF SettleTrade
<1> HIDE DEF cost
<1>3. DOMAIN l1 \subseteq OrderIds /\ l1 \in [DOMAIN l1 -> Locks]
  <2>1. DOMAIN locks \subseteq OrderIds /\ locks \in [DOMAIN locks -> Locks] /\ 0 \in Int
    BY DEF AccountTypeOK
  <2>2. QED
    BY <1>1, <2>1, ReduceLockType
<1> HIDE DEF l1
<1>4. DOMAIN locks' \subseteq OrderIds /\ locks' \in [DOMAIN locks' -> Locks]
  BY <1>2, <1>3, ReduceLockType
<1>5. QED
  BY <1>1, <1>2, <1>4 DEF AccountTypeOK

LEMMA SettleMarketTradeType ==
  ASSUME AccountTypeOK, NEW a \in Accounts, NEW o, NEW s \in Symbols,
         NEW side, NEW price \in Int, NEW qty \in Int,
         SettleMarketTrade(a, o, s, side, price, qty)
  PROVE  AccountTypeOK'
<1> DEFINE cost == price * qty
           surplus == IF HasLock(o) THEN locks[o].cash - cost ELSE 0
           excess == IF surplus > 0 THEN surplus ELSE 0
<1>1. cost \in Int
  OBVIOUS
<1>2. /\ IF side = "BUY"
         THEN /\ cashLocked' = [cashLocked EXCEPT ![a] = @ - cost - excess]
              /\ cashAvailable' = [cashAvailable EXCEPT ![a] = @ + excess]
              /\ qtyAvailable' = [qtyAvailable EXCEPT ![<<a, s>>] = @ + qty]
              /\ qtyLocked' = qtyLocked
         ELSE /\ cashAvailable' = [cashAvailable EXCEPT ![a] = @ + cost]
              /\ qtyLocked' = [qtyLocked EXCEPT ![<<a, s>>] = @ - qty]
              /\ cashLocked' = cashLocked /\ qtyAvailable' = qtyAvailable
      /\ locks' = Drop(locks, o)
  BY DEF SettleMarketTrade
<1> HIDE DEF cost
<1>3. excess \in Int
  BY <1>1 DEF AccountTypeOK, HasLock, Locks
<1> HIDE DEF excess, surplus
<1>4. DOMAIN locks' \subseteq OrderIds /\ locks' \in [DOMAIN locks' -> Locks]
  BY <1>2, DropProperties DEF AccountTypeOK
<1>5. CASE side = "BUY"
  BY <1>1, <1>2, <1>3, <1>4, <1>5 DEF AccountTypeOK
<1>6. CASE side # "BUY"
  BY <1>1, <1>2, <1>3, <1>4, <1>6 DEF AccountTypeOK
<1>7. QED
  BY <1>5, <1>6

LEMMA DeleteAccountType ==
  ASSUME AccountTypeOK, NEW a \in Accounts, DeleteAccount(a)
  PROVE  AccountTypeOK'
<1>1. DOMAIN locks' \subseteq OrderIds /\ locks' \in [DOMAIN locks' -> Locks]
  BY DEF DeleteAccount, AccountTypeOK, Restrict
<1>2. QED
  BY <1>1 DEF DeleteAccount, AccountTypeOK

-----------------------------------------------------------------------------
(* The composed system *)

\* What the types of a settlement need: the engine only knows orders of the
\* repository, and Engine A only fills orders whose symbol has a quote.
ScanQuoted == \A o \in toFill : quotes[orders[o].ticket.symbol] # NoQuote

AppTypeOK ==
  /\ engineMode \in EngineModes
  /\ quotes \in [Symbols -> Quotes \cup {NoQuote}]
  /\ toFill \subseteq DOMAIN orders
  /\ deleted \subseteq Accounts

\* Whatever books the engine starts from.
TradingOK ==
  /\ EngineOK
  /\ OMSTypeOK
  /\ AccountTypeOK
  /\ AppTypeOK
  /\ seen \subseteq DOMAIN orders
  /\ ScanQuoted

TradingInv == TradingOK /\ EngineInv

LEMMA TradingInvImplies == TradingInv => TypeOK /\ BooksSorted /\ BooksUncrossed
BY EngineInvImplies DEF TradingInv, TradingOK, TypeOK, AppTypeOK

LEMMA TradingInit == Init => TradingInv
<1> SUFFICES ASSUME Init PROVE TradingInv
  OBVIOUS
<1>1. EngineInv
  BY EngineInit DEF Init
<1>2. OMSTypeOK
  BY DEF Init, OMSInit, OMSTypeOK
<1>3. AccountTypeOK
  BY AccountAssumption DEF Init, AccountInit, AccountTypeOK
<1>4. AppTypeOK /\ seen \subseteq DOMAIN orders /\ ScanQuoted
  BY DEF Init, MEInit, ScanQuoted, AppTypeOK
<1>5. QED
  BY <1>1, <1>2, <1>3, <1>4 DEF TradingInv, TradingOK, EngineInv

\* POST /orders.
LEMMA PlaceRejectedOK ==
  ASSUME TradingOK, NEW o \in OrderIds, NEW a \in Accounts, NEW t \in Tickets,
         PlaceRejected(o, a, t)
  PROVE  TradingOK'
<1>1. OMSTypeOK' /\ DOMAIN orders' = DOMAIN orders \cup {o}
  BY EnterType DEF TradingOK, PlaceRejected, RejectOrder, Statuses
<1>2. UNCHANGED <<meVars, accountVars, appVars>> /\ toFill = {}
  BY DEF PlaceRejected, Idle
<1>3. EngineOK'
  BY <1>2, EngineUnchanged DEF TradingOK
<1>4. AccountTypeOK'
  BY <1>2 DEF TradingOK, AccountTypeOK, accountVars
<1>5. AppTypeOK' /\ ScanQuoted' /\ seen' \subseteq DOMAIN orders'
  BY <1>1, <1>2 DEF TradingOK, AppTypeOK, appVars, meVars, ScanQuoted
<1>6. QED
  BY <1>1, <1>3, <1>4, <1>5 DEF TradingOK

LEMMA PlaceAcceptedOK ==
  ASSUME TradingOK, NEW o \in OrderIds, NEW a \in Accounts, NEW t \in Tickets,
         PlaceAccepted(o, a, t)
  PROVE  TradingOK'
<1>1. /\ OMSTypeOK' /\ DOMAIN orders' = DOMAIN orders \cup {o}
      /\ orders'[o].ticket = t
  BY EnterType DEF TradingOK, PlaceAccepted, AcceptAndRoute, Statuses
<1>2. /\ t.symbol \in Symbols /\ t.side \in Sides /\ t.qty \in Nat \ {0}
      /\ t.price \in Nat \cup {NoPrice}
  BY OMSAssumption DEF TicketType
<1>3. AccountTypeOK'
  BY <1>2, LockFundsType DEF TradingOK, PlaceAccepted
<1>4. /\ engineMode' = engineMode /\ quotes' = quotes /\ deleted' = deleted
      /\ toFill = {}
  BY DEF PlaceAccepted, Idle
<1>5. CASE engineMode = "B"
  <2>1. /\ SubmitOrder(o, t.symbol, t.side, EffectivePrice(t), t.qty, clock')
        /\ toFill' = toFill
    BY <1>5 DEF PlaceAccepted
  <2>2. EffectivePrice(t) \in Nat /\ clock' \in Nat
    BY <1>1, <1>2, TradingAssumption DEF EffectivePrice, OMSTypeOK
  <2>3. EngineOK'
    BY <1>2, <2>1, <2>2, SubmitOrderOK DEF TradingOK
  <2>4. seen' = seen \cup {o}
    BY <2>1 DEF SubmitOrder
  <2>5. AppTypeOK' /\ ScanQuoted' /\ seen' \subseteq DOMAIN orders'
    BY <1>1, <1>4, <2>1, <2>4 DEF TradingOK, AppTypeOK, ScanQuoted
  <2>6. QED
    BY <1>1, <1>3, <2>3, <2>5 DEF TradingOK
<1>6. CASE engineMode # "B"
  <2>1. /\ UNCHANGED meVars
        /\ toFill' = IF Marketable(t, quotes[t.symbol]) THEN {o} ELSE {}
    BY <1>6 DEF PlaceAccepted
  <2>2. EngineOK' /\ seen' \subseteq DOMAIN orders'
    BY <1>1, <2>1, EngineUnchanged DEF TradingOK, meVars
  <2>3. ScanQuoted'
    BY <1>1, <1>4, <2>1 DEF ScanQuoted, Marketable
  <2>4. AppTypeOK'
    BY <1>1, <1>4, <2>1 DEF TradingOK, AppTypeOK
  <2>5. QED
    BY <1>1, <1>3, <2>2, <2>3, <2>4 DEF TradingOK
<1>7. QED
  BY <1>5, <1>6

\* DELETE /orders/{id}.
LEMMA CancelOK ==
  ASSUME TradingOK, NEW o \in OrderIds, Cancel(o)
  PROVE  TradingOK'
<1>1. /\ o \in DOMAIN orders /\ toFill = {}
      /\ orders[o].ticket.symbol \in Symbols
  BY DEF Cancel, Idle, TradingOK, OMSTypeOK, Orders, TicketType
<1>2. OMSTypeOK' /\ TicketsKept
  BY <1>1, CancelOrderType DEF TradingOK, Cancel
<1>3. AccountTypeOK'
  BY UnlockFundsType DEF TradingOK, Cancel
<1>4. EngineOK'
  BY <1>1, CancelInBookOK DEF TradingOK, Cancel
<1>5. AppTypeOK' /\ ScanQuoted' /\ seen' \subseteq DOMAIN orders'
  BY <1>1, <1>2 DEF TradingOK, Cancel, CancelInBook, AppTypeOK, appVars, ScanQuoted, TicketsKept
<1>6. QED
  BY <1>2, <1>3, <1>4, <1>5 DEF TradingOK

\* The handlers that leave orders and books alone.
LEMMA OtherHandlersOK ==
  ASSUME TradingOK, UNCHANGED <<meVars, omsVars>>,
         AccountTypeOK', AppTypeOK', ScanQuoted'
  PROVE  TradingOK'
<1>1. EngineOK'
  BY EngineUnchanged DEF TradingOK
<1>2. OMSTypeOK' /\ seen' \subseteq DOMAIN orders'
  BY DEF TradingOK, OMSTypeOK, omsVars, meVars
<1>3. QED
  BY <1>1, <1>2 DEF TradingOK

LEMMA DepositOK ==
  ASSUME TradingOK, NEW a \in Accounts, NEW amount \in Amounts,
         Deposit(a, amount) \/ Withdraw(a, amount)
  PROVE  TradingOK'
<1>1. amount \in Int /\ UNCHANGED <<meVars, omsVars, appVars>>
  BY TradingAssumption DEF Deposit, Withdraw
<1>2. AccountTypeOK'
  BY <1>1 DEF TradingOK, AccountTypeOK, Deposit, Withdraw, DepositCash, WithdrawCash
<1>3. AppTypeOK' /\ ScanQuoted'
  BY <1>1 DEF TradingOK, AppTypeOK, ScanQuoted, appVars, omsVars
<1>4. QED
  BY <1>1, <1>2, <1>3, OtherHandlersOK

LEMMA SetEngineModeOK ==
  ASSUME TradingOK, NEW mode \in EngineModes, SetEngineMode(mode)
  PROVE  TradingOK'
<1>1. UNCHANGED <<meVars, omsVars>>
  BY DEF SetEngineMode
<1>2. AccountTypeOK'
  BY DEF TradingOK, AccountTypeOK, SetEngineMode, accountVars
<1>3. AppTypeOK' /\ ScanQuoted'
  BY DEF TradingOK, AppTypeOK, ScanQuoted, SetEngineMode, omsVars
<1>4. QED
  BY <1>1, <1>2, <1>3, OtherHandlersOK

LEMMA DeleteUserOK ==
  ASSUME TradingOK, NEW a \in Deletable, DeleteUser(a)
  PROVE  TradingOK'
<1>1. UNCHANGED <<meVars, omsVars>> /\ a \in Accounts
  BY TradingAssumption DEF DeleteUser
<1>2. AccountTypeOK'
  BY <1>1, DeleteAccountType DEF TradingOK, DeleteUser
<1>3. AppTypeOK' /\ ScanQuoted'
  BY <1>1 DEF TradingOK, AppTypeOK, ScanQuoted, DeleteUser, omsVars
<1>4. QED
  BY <1>1, <1>2, <1>3, OtherHandlersOK

LEMMA MarketDataOK ==
  ASSUME TradingOK, NEW s \in Symbols, NEW quote \in Quotes, MarketData(s, quote)
  PROVE  TradingOK'
<1>1. UNCHANGED <<meVars, omsVars, accountVars>>
  BY DEF MarketData
<1>2. AccountTypeOK'
  BY <1>1 DEF TradingOK, AccountTypeOK, accountVars
<1>3. AppTypeOK'
  BY <1>1 DEF TradingOK, AppTypeOK, MarketData, omsVars
<1>4. ScanQuoted'
  <2>1. \A o \in toFill' : orders[o].ticket.symbol = s
    BY DEF MarketData
  <2>2. quotes'[s] = quote
    BY DEF MarketData, TradingOK, AppTypeOK
  <2>3. QED
    BY <1>1, <2>1, <2>2, TradingAssumption DEF ScanQuoted, omsVars
<1>5. QED
  BY <1>1, <1>2, <1>3, <1>4, OtherHandlersOK

\* The matching loop.
LEMMA LoopOK ==
  ASSUME TradingOK, MatchStep \/ EndMatchStep
  PROVE  TradingOK'
<1>1. EngineOK' /\ seen' = seen
  BY MatchOK, EndMatchOK DEF TradingOK, MatchStep, EndMatchStep, Match, EndMatch
<1>2. UNCHANGED <<omsVars, accountVars, appVars>>
  BY DEF MatchStep, EndMatchStep
<1>3. OMSTypeOK' /\ AccountTypeOK' /\ AppTypeOK' /\ ScanQuoted'
  BY <1>2 DEF TradingOK, OMSTypeOK, AccountTypeOK, AppTypeOK, ScanQuoted,
              omsVars, accountVars, appVars
<1>4. QED
  BY <1>1, <1>2, <1>3 DEF TradingOK, omsVars

\* The parties of a trade are orders of the repository.
LEMMA TradeParties ==
  ASSUME TradingOK, trades # <<>>
  PROVE  /\ Head(trades).buy \in DOMAIN orders /\ Head(trades).sell \in DOMAIN orders
         /\ Head(trades).price \in Nat /\ Head(trades).qty \in Nat \ {0}
         /\ Head(trades).symbol \in Symbols
<1>1. /\ trades \in Seq(TradeRecords) /\ Len(trades) >= 1 /\ Len(trades) \in Nat
      /\ Head(trades) = trades[1]
  BY LenProperties, EmptySeq DEF TradingOK, EngineOK, METypeOK
<1>2. trades[1] \in TradeRecords
  BY <1>1, ElementOfSeq
<1>3. trades[1].buy \in seen /\ trades[1].sell \in seen
  BY <1>1 DEF TradingOK, EngineOK, TradesSeen
<1>4. QED
  BY <1>1, <1>2, <1>3 DEF TradingOK, TradeRecords

LEMMA SettleOK == ASSUME TradingOK, Settle PROVE TradingOK'
<1> DEFINE t == Head(trades)
<1>1. /\ t.buy \in DOMAIN orders /\ t.sell \in DOMAIN orders
      /\ t.price \in Nat /\ t.qty \in Nat \ {0} /\ t.symbol \in Symbols
  BY TradeParties DEF Settle, NextTrade
<1>2. /\ NextTrade /\ FillBoth(t.buy, t.sell, t.qty)
      /\ SettleTrade(orders[t.buy].account, orders[t.sell].account,
                     t.buy, t.sell, t.symbol, t.price, t.qty)
      /\ UNCHANGED appVars
  BY DEF Settle
<1> HIDE DEF t
<1>3. OMSTypeOK' /\ TicketsKept
  BY <1>1, <1>2, FillBothType DEF TradingOK
<1>4. orders[t.buy].account \in Accounts /\ orders[t.sell].account \in Accounts
  BY <1>1 DEF TradingOK, OMSTypeOK, Orders
<1>5. AccountTypeOK'
  BY <1>1, <1>2, <1>4, SettleTradeType DEF TradingOK
<1>6. EngineOK' /\ seen' = seen
  BY <1>2, NextTradeOK DEF TradingOK, NextTrade
<1>7. AppTypeOK' /\ ScanQuoted'
  BY <1>2, <1>3 DEF TradingOK, AppTypeOK, ScanQuoted, TicketsKept, appVars
<1>8. QED
  BY <1>3, <1>5, <1>6, <1>7 DEF TradingOK, TicketsKept

LEMMA SettleRaisesOK == ASSUME TradingOK, SettleRaises PROVE TradingOK'
<1> DEFINE t == Head(trades)
<1>1. /\ t.buy \in DOMAIN orders /\ t.sell \in DOMAIN orders /\ t.qty \in Nat \ {0}
  BY TradeParties DEF SettleRaises
<1>2. FillBothRaising(t.buy, t.sell, t.qty)
  BY DEF SettleRaises
<1> HIDE DEF t
<1>3. OMSTypeOK' /\ TicketsKept
  BY <1>1, <1>2, FillBothType DEF TradingOK
<1>4. /\ UNCHANGED <<bids, asks, seen, submission, accountVars, appVars>>
      /\ trades' = <<>>
  BY DEF SettleRaises
<1>5. EngineOK'
  BY <1>4, TradesHandedOver DEF TradingOK
<1>6. AccountTypeOK' /\ AppTypeOK' /\ ScanQuoted'
  BY <1>3, <1>4 DEF TradingOK, AccountTypeOK, AppTypeOK, ScanQuoted, TicketsKept,
                    accountVars, appVars
<1>7. QED
  BY <1>3, <1>4, <1>5, <1>6 DEF TradingOK, TicketsKept

\* Engine A.
LEMMA FillAtMarketOK ==
  ASSUME TradingOK, NEW o \in OrderIds, FillAtMarket(o)
  PROVE  TradingOK'
<1> DEFINE ord == orders[o]
           price == MarketSide(ord.ticket, quotes[ord.ticket.symbol])
<1>1. o \in toFill /\ o \in DOMAIN orders
  BY DEF FillAtMarket, TradingOK, AppTypeOK
<1>2. /\ ord.account \in Accounts /\ ord.ticket.symbol \in Symbols
      /\ Remaining(ord) \in Int
  BY <1>1 DEF TradingOK, OMSTypeOK, Orders, TicketType, Remaining
<1>3. price \in Int
  <2>1. quotes[ord.ticket.symbol] \in Quotes
    BY <1>1, <1>2 DEF TradingOK, ScanQuoted, AppTypeOK
  <2>2. QED
    BY <2>1, TradingAssumption DEF MarketSide
<1>4. /\ FillFromMarket(o, Remaining(ord))
      /\ SettleMarketTrade(ord.account, o, ord.ticket.symbol, ord.ticket.side,
                           price, Remaining(ord))
      /\ toFill' = toFill \ {o}
      /\ UNCHANGED <<meVars, engineMode, quotes, deleted>>
  BY DEF FillAtMarket
<1>5. OMSTypeOK' /\ TicketsKept
  BY <1>1, <1>4, FillFromMarketType DEF TradingOK
<1> HIDE DEF ord, price
<1>6. AccountTypeOK'
  BY <1>2, <1>3, <1>4, SettleMarketTradeType DEF TradingOK
<1>7. EngineOK' /\ seen' = seen
  BY <1>4, EngineUnchanged DEF TradingOK, meVars
<1>8. AppTypeOK' /\ ScanQuoted'
  BY <1>4, <1>5 DEF TradingOK, AppTypeOK, ScanQuoted, TicketsKept
<1>9. QED
  BY <1>5, <1>6, <1>7, <1>8 DEF TradingOK, TicketsKept

LEMMA HandlersOK == ASSUME TradingOK, Handlers PROVE TradingOK'
BY PlaceRejectedOK, PlaceAcceptedOK, CancelOK, DepositOK,
   SetEngineModeOK, DeleteUserOK, MarketDataOK, TradingAssumption DEF Handlers

LEMMA ContinueOK == ASSUME TradingOK, Continue PROVE TradingOK'
BY LoopOK, SettleOK, SettleRaisesOK, FillAtMarketOK DEF Continue

\* The engine inside the composed system.
LEMMA EngineStep == ASSUME TradingInv, [Next]_vars PROVE EngineInv'
<1>1. ASSUME NEW o \in OrderIds, NEW a \in Accounts, NEW t \in Tickets,
             PlaceAccepted(o, a, t), engineMode = "B"
      PROVE  EngineInv'
  <2>1. /\ SubmitOrder(o, t.symbol, t.side, EffectivePrice(t), t.qty, clock')
        /\ t.symbol \in Symbols /\ t.side \in Sides /\ t.qty \in Nat \ {0}
        /\ t.price \in Nat \cup {NoPrice}
    BY <1>1, OMSAssumption DEF PlaceAccepted, TicketType
  <2>2. EffectivePrice(t) \in Nat /\ clock' \in Nat
    BY <1>1, <2>1, EnterType, TradingAssumption
       DEF EffectivePrice, TradingInv, TradingOK, OMSTypeOK, PlaceAccepted, AcceptAndRoute, Statuses
  <2>3. QED
    BY <2>1, <2>2, SubmitOrderInv DEF TradingInv
<1>2. ASSUME NEW o \in OrderIds, Cancel(o) PROVE EngineInv'
  BY <1>2, CancelInBookInv
     DEF Cancel, TradingInv, TradingOK, OMSTypeOK, Orders, TicketType
<1>3. ASSUME SettleRaises PROVE EngineInv'
  BY <1>3, TradesHandedOver DEF SettleRaises, TradingInv
<1>4. CASE Match \/ EndMatch \/ NextTrade
  BY <1>4, MatchInv, EndMatchInv, NextTradeInv DEF TradingInv
<1>5. CASE UNCHANGED meVars
  BY <1>5, EngineUnchanged DEF TradingInv
<1>6. QED
  BY <1>1, <1>2, <1>3, <1>4, <1>5
     DEF Next, Handlers, Continue, vars, MatchStep, EndMatchStep, Settle, PlaceRejected,
         PlaceAccepted, Deposit, Withdraw, SetEngineMode, DeleteUser, MarketData, FillAtMarket

LEMMA TradingNext == ASSUME TradingInv, [Next]_vars PROVE TradingInv'
<1>1. CASE Next
  BY <1>1, HandlersOK, ContinueOK, EngineStep DEF Next, TradingInv
<1>2. CASE UNCHANGED vars
  <2>1. UNCHANGED <<meVars, omsVars, accountVars, appVars>>
    BY <1>2 DEF vars
  <2>2. AccountTypeOK' /\ AppTypeOK' /\ ScanQuoted'
    BY <2>1 DEF TradingInv, TradingOK, AccountTypeOK, AppTypeOK, ScanQuoted,
                omsVars, accountVars, appVars
  <2>3. QED
    BY <2>1, <2>2, OtherHandlersOK, EngineStep DEF TradingInv
<1>3. QED
  BY <1>1, <1>2

\* The inductive invariant holds in every state of the system, in both engine
\* modes and across switches.
THEOREM TradingInvariant == Spec => []TradingInv
<1>1. Init => TradingInv
  BY TradingInit
<1>2. TradingInv /\ [Next]_vars => TradingInv'
  BY TradingNext
<1>3. QED
  BY <1>1, <1>2, PTL DEF Spec

\* Type correctness of the composed system: in particular every settlement and
\* every fill is about orders the repository has.
THEOREM TypeCorrect == Spec => []TypeOK
BY TradingInvariant, TradingInvImplies, PTL

\* No handler, in either mode, leaves a book crossed: not even when OMS refuses
\* a fill, a user is deleted or the mode is switched.
THEOREM TradingBooksUncrossed == Spec => []BooksUncrossed
BY TradingInvariant, TradingInvImplies, PTL

-----------------------------------------------------------------------------
(* The books, the trades and the locks against the repository.  Everything *)
(* is stated of one entry, one trade, one order, so that a step says what  *)
(* it does to each.                                                        *)

\* An entry e on a side of s's book stands for an order of the repository.
EntryFor(ords, s, side, e) ==
  /\ e.order \in DOMAIN ords
  /\ ords[e.order].ticket.symbol = s
  /\ ords[e.order].ticket.side = side
  /\ e.price = EffectivePrice(ords[e.order].ticket)
  /\ e.time = ords[e.order].created

ListFor(ords, s, side, list) ==
  \A e \in EntriesOn(list) : EntryFor(ords, s, side, e)

\* A trade is between a BUY and a SELL of its symbol, at no more than the
\* buyer's price.
TradeFor(ords, t) ==
  /\ t.buy \in DOMAIN ords /\ ords[t.buy].ticket.side = "BUY"
  /\ t.sell \in DOMAIN ords /\ ords[t.sell].ticket.side = "SELL"
  /\ ords[t.buy].ticket.symbol = t.symbol /\ ords[t.sell].ticket.symbol = t.symbol
  /\ t.price <= EffectivePrice(ords[t.buy].ticket)

BookOfOrders ==
  /\ \A s \in Symbols : /\ ListFor(orders, s, "BUY", bids[s])
                        /\ ListFor(orders, s, "SELL", asks[s])
  /\ \A i \in 1..Len(trades) : TradeFor(orders, trades[i])

\* What rests on the book for an order, and what the engine holds of it.
Rest(o) == RestingQty(SideOf(orders[o].ticket), o)

HeldFor(o) == Held(trades, o, Rest(o))

\* What an order's status says of its quantities, h being held of it.  Only
\* an order that Engine A filled while Engine B held it is FILLED and held.
OrderMeans(ord, h) ==
  /\ ord.status \in {"ROUTED", "PARTIALLY_FILLED", "FILLED", "CANCELED", "REJECTED"}
  /\ IsOpen(ord) => Remaining(ord) > 0 /\ h <= Remaining(ord)
  /\ ord.status = "FILLED" => Remaining(ord) <= 0
  /\ ord.status \in {"CANCELED", "REJECTED"} => Remaining(ord) > 0 /\ h = 0

\* What the lock records L hold for an order.
FundedBy(ord, o, L) ==
  LET t == ord.ticket
  IN  /\ o \in DOMAIN L =>
           IF t.side = "BUY" THEN L[o].qty = t.qty ELSE L[o].cash = 0
      /\ IF IsOpen(ord)
         THEN /\ o \in DOMAIN L
              /\ IF t.side = "BUY"
                 THEN t.type = "LIMIT" =>
                        t.price \in Nat /\ L[o].cash >= t.price * Remaining(ord)
                 ELSE L[o].qty = Remaining(ord)
         ELSE o \in DOMAIN L => t.side = "BUY" /\ ord.status = "FILLED"

\* A lock record is about an order of its owner, who is still a user.
LockFor(ords, users, o, lock) ==
  /\ o \in DOMAIN ords
  /\ lock.account = ords[o].account
  /\ lock.account \in users

OrdersMean ==
  \A o \in DOMAIN orders :
    Chained(trades, o, Rest(o)) /\ OrderMeans(orders[o], HeldFor(o))

OrdersFunded ==
  \A o \in DOMAIN orders :
    orders[o].account \in Users => FundedBy(orders[o], o, locks)

LocksOfOrders ==
  \A o \in DOMAIN locks : LockFor(orders, Users, o, locks[o])

\* One handler at a time: a scan of Engine A and a call of Engine B do not
\* overlap.
OneHandler ==
  /\ MEIdle \/ toFill = {}
  /\ \A o \in toFill : IsOpen(orders[o])

FundingInv ==
  /\ TradingInv
  /\ BookOfOrders
  /\ OneHandler
  /\ OrdersMean
  /\ OrdersFunded
  /\ LocksOfOrders

\* An order never changes its form, its owner or its time.
KeptIn(ords, more) ==
  \A o \in DOMAIN ords :
    /\ o \in DOMAIN more
    /\ more[o].ticket = ords[o].ticket
    /\ more[o].account = ords[o].account
    /\ more[o].created = ords[o].created

LEMMA KeptLists ==
  ASSUME NEW ords, NEW more, KeptIn(ords, more)
  PROVE  /\ \A s, side, e : EntryFor(ords, s, side, e) => EntryFor(more, s, side, e)
         /\ \A s, side, list : ListFor(ords, s, side, list) => ListFor(more, s, side, list)
         /\ \A t : TradeFor(ords, t) => TradeFor(more, t)
<1>1. ASSUME NEW s, NEW side, NEW e, EntryFor(ords, s, side, e)
      PROVE  EntryFor(more, s, side, e)
  BY <1>1 DEF KeptIn, EntryFor
<1>2. ASSUME NEW t, TradeFor(ords, t)
      PROVE  TradeFor(more, t)
  BY <1>2 DEF KeptIn, TradeFor
<1> QED
  BY <1>1, <1>2 DEF ListFor

\* The books stay, no trade is added, orders only come or are filled.
LEMMA BooksStay ==
  ASSUME TradingInv, BookOfOrders, KeptIn(orders, orders'), UNCHANGED <<bids, asks>>,
         \A i \in 1..Len(trades') : \E j \in 1..Len(trades) : trades'[i] = trades[j]
  PROVE  BookOfOrders'
<1>1. \A s \in Symbols : /\ ListFor(orders', s, "BUY", bids'[s])
                         /\ ListFor(orders', s, "SELL", asks'[s])
  BY KeptLists DEF BookOfOrders
<1>2. \A i \in 1..Len(trades') : TradeFor(orders', trades'[i])
  BY KeptLists DEF BookOfOrders
<1> QED
  BY <1>1, <1>2 DEF BookOfOrders

-----------------------------------------------------------------------------
(* One order, one lock *)

LEMMA FillEffect ==
  ASSUME NEW ord \in Orders, NEW q \in Nat
  PROVE  /\ Fill(ord, q).ticket = ord.ticket /\ AddFill(ord, q).ticket = ord.ticket
         /\ Fill(ord, q).account = ord.account /\ AddFill(ord, q).account = ord.account
         /\ Fill(ord, q).created = ord.created /\ AddFill(ord, q).created = ord.created
         /\ Remaining(ord) \in Int
         /\ Remaining(Fill(ord, q)) = Remaining(ord) - q
         /\ Remaining(AddFill(ord, q)) = Remaining(ord) - q
         /\ AddFill(ord, q).status = ord.status
         /\ Fill(ord, q).status =
              IF Remaining(ord) - q <= 0 THEN "FILLED"
              ELSE IF ord.status = "ROUTED" THEN "PARTIALLY_FILLED" ELSE ord.status
<1>1. ord.filled \in Nat /\ ord.ticket.qty \in Nat
  BY DEF Orders, TicketType
<1>2. PICK added : added = AddFill(ord, q)
  OBVIOUS
<1>3. /\ added.ticket = ord.ticket /\ added.account = ord.account
      /\ added.created = ord.created /\ added.status = ord.status
      /\ added.filled = ord.filled + q /\ added \in Orders
  BY <1>2 DEF AddFill, Orders
<1>4. PICK status : status = IF ord.filled + q >= ord.ticket.qty THEN "FILLED"
                             ELSE IF ord.status = "ROUTED" THEN "PARTIALLY_FILLED"
                             ELSE ord.status
  OBVIOUS
<1>5. PICK filled : filled = Fill(ord, q)
  OBVIOUS
<1>6. filled = [added EXCEPT !.status = status]
  BY <1>2, <1>4, <1>5 DEF Fill
<1>7. /\ filled.ticket = ord.ticket /\ filled.account = ord.account
      /\ filled.created = ord.created /\ filled.status = status
      /\ filled.filled = ord.filled + q
  BY <1>3, <1>6 DEF Orders
<1>8. /\ Remaining(ord) = ord.ticket.qty - ord.filled
      /\ Remaining(added) = ord.ticket.qty - (ord.filled + q)
      /\ Remaining(filled) = ord.ticket.qty - (ord.filled + q)
  BY <1>3, <1>7 DEF Remaining
<1>9. status = IF Remaining(ord) - q <= 0 THEN "FILLED"
               ELSE IF ord.status = "ROUTED" THEN "PARTIALLY_FILLED" ELSE ord.status
  BY <1>1, <1>4, <1>8
<1> HIDE <1>4, <1>6
<1> QED
  BY <1>1, <1>2, <1>3, <1>5, <1>7, <1>8, <1>9

\* An open order is filled by a part of what is held of it.
LEMMA FillMeans ==
  ASSUME NEW ord \in Orders, NEW q \in Nat \ {0}, NEW h \in Nat, NEW left \in Nat,
         OrderMeans(ord, h), IsOpen(ord), left <= h - q
  PROVE  OrderMeans(Fill(ord, q), left)
<1>1. PICK filled : filled = Fill(ord, q)
  OBVIOUS
<1>2. /\ Remaining(filled) = Remaining(ord) - q /\ Remaining(ord) \in Int
      /\ filled.status = IF Remaining(ord) - q <= 0 THEN "FILLED"
                         ELSE IF ord.status = "ROUTED" THEN "PARTIALLY_FILLED" ELSE ord.status
  BY <1>1, FillEffect
<1>3. h <= Remaining(ord) /\ ord.status \in {"ROUTED", "PARTIALLY_FILLED"}
  BY DEF OrderMeans, IsOpen
<1>4. left <= Remaining(filled)
  BY <1>2, <1>3
<1>5. OrderMeans(filled, left)
  BY <1>2, <1>3, <1>4 DEF OrderMeans, IsOpen
<1> QED
  BY <1>1, <1>5

\* A quantity added to a FILLED order.
LEMMA AddFillMeans ==
  ASSUME NEW ord \in Orders, NEW q \in Nat, NEW h, NEW left,
         OrderMeans(ord, h), ord.status = "FILLED"
  PROVE  OrderMeans(AddFill(ord, q), left)
<1>1. PICK added : added = AddFill(ord, q)
  OBVIOUS
<1>2. /\ Remaining(added) = Remaining(ord) - q /\ Remaining(ord) \in Int
      /\ added.status = "FILLED"
  BY <1>1, FillEffect
<1>3. Remaining(ord) <= 0
  BY DEF OrderMeans
<1>4. OrderMeans(added, left)
  BY <1>2, <1>3 DEF OrderMeans, IsOpen
<1> QED
  BY <1>1, <1>4

\* Of the orders the engine holds, OMS refuses to fill exactly those that are
\* not open, and these are FILLED.
LEMMA RaisesWhenFilled ==
  ASSUME NEW ord \in Orders, NEW q \in Nat \ {0}, NEW h \in Nat,
         OrderMeans(ord, h), q <= h
  PROVE  /\ IsOpen(ord) <=> ~FillRaises(ord, q)
         /\ ~IsOpen(ord) => ord.status = "FILLED"
<1>1. ord.status \in {"ROUTED", "PARTIALLY_FILLED", "FILLED"}
  BY DEF OrderMeans
<1>2. ord.filled \in Nat /\ ord.ticket.qty \in Nat
  BY DEF Orders, TicketType
<1>3. /\ CanTransition("ROUTED", "FILLED") /\ CanTransition("PARTIALLY_FILLED", "FILLED")
      /\ ~CanTransition("FILLED", "FILLED")
  BY DEF CanTransition, Transitions
<1>4. ord.status = "FILLED" => ord.filled + q >= ord.ticket.qty
  BY <1>2 DEF OrderMeans, Remaining
<1> QED
  BY <1>1, <1>3, <1>4 DEF FillRaises, IsOpen

LEMMA CostBounded ==
  ASSUME NEW p \in Nat, NEW paid \in Nat, paid <= p, NEW q \in Nat, NEW r \in Int
  PROVE  paid * q <= p * q /\ p * (r - q) = p * r - p * q
OBVIOUS

\* The record of one order comes, goes or changes.
SameBut(L, M, o) ==
  \A x : x # o => /\ x \in DOMAIN L <=> x \in DOMAIN M
                  /\ x \in DOMAIN L => M[x] = L[x]

\* Of two parts of a lock record the settlement of a trade uses one.
LEMMA ReduceBuyLock ==
  ASSUME NEW L, DOMAIN L \subseteq OrderIds, L \in [DOMAIN L -> Locks],
         NEW o, NEW cost \in Int, o \in DOMAIN L => L[o].qty > 0,
         NEW M, M = ReduceLock(L, o, cost, 0)
  PROVE  /\ DOMAIN M = DOMAIN L /\ SameBut(L, M, o)
         /\ \A x \in DOMAIN L :
              /\ M[x].account = L[x].account
              /\ M[x].side = L[x].side /\ M[x].symbol = L[x].symbol
              /\ M[x].qty = L[x].qty
              /\ M[x].cash = IF x = o THEN L[x].cash - cost ELSE L[x].cash
<1>1. CASE o \notin DOMAIN L
  BY <1>1 DEF ReduceLock, SameBut, Locks
<1>2. CASE o \in DOMAIN L
  <2>1. L[o] \in Locks /\ L[o].qty \in Int /\ L[o].cash \in Int
    BY <1>2 DEF Locks
  <2>2. ReduceLock(L, o, cost, 0) = [L EXCEPT ![o].cash = @ - cost, ![o].qty = @ - 0]
    BY <1>2, <2>1 DEF ReduceLock
  <2>3. PICK lock : lock = [L[o] EXCEPT !.cash = @ - cost, !.qty = @ - 0]
    OBVIOUS
  <2>4. /\ lock.qty = L[o].qty /\ lock.account = L[o].account /\ lock.cash = L[o].cash - cost
        /\ lock.side = L[o].side /\ lock.symbol = L[o].symbol
    BY <2>1, <2>3 DEF Locks
  <2>5. M = [L EXCEPT ![o] = lock]
    BY <1>2, <2>2, <2>3
  <2> QED
    BY <1>2, <2>4, <2>5 DEF SameBut
<1> QED
  BY <1>1, <1>2

LEMMA ReduceSellLock ==
  ASSUME NEW L, DOMAIN L \subseteq OrderIds, L \in [DOMAIN L -> Locks],
         NEW o, NEW q \in Int, o \in DOMAIN L => L[o].cash = 0,
         NEW M, M = ReduceLock(L, o, 0, q)
  PROVE  /\ SameBut(L, M, o)
         /\ \A x : x \in DOMAIN M <=> x \in DOMAIN L /\ ~(x = o /\ L[x].qty - q <= 0)
         /\ \A x \in DOMAIN M :
              /\ M[x].cash = L[x].cash /\ M[x].account = L[x].account
              /\ M[x].side = L[x].side /\ M[x].symbol = L[x].symbol
              /\ M[x].qty = IF x = o THEN L[x].qty - q ELSE L[x].qty
<1>1. CASE o \notin DOMAIN L
  BY <1>1 DEF ReduceLock, SameBut, Locks
<1>2. CASE o \in DOMAIN L /\ L[o].qty - q <= 0
  <2>1. ReduceLock(L, o, 0, q) = Drop(L, o)
    BY <1>2 DEF ReduceLock
  <2>2. DOMAIN Drop(L, o) = DOMAIN L \ {o} /\ \A x \in DOMAIN L \ {o} : Drop(L, o)[x] = L[x]
    BY DropProperties
  <2> QED
    BY <1>2, <2>1, <2>2 DEF SameBut
<1>3. CASE o \in DOMAIN L /\ ~(L[o].qty - q <= 0)
  <2>1. L[o] \in Locks /\ L[o].qty \in Int /\ L[o].cash = 0
    BY <1>3 DEF Locks
  <2>2. ReduceLock(L, o, 0, q) = [L EXCEPT ![o].cash = @ - 0, ![o].qty = @ - q]
    BY <1>3, <2>1 DEF ReduceLock
  <2>3. PICK lock : lock = [L[o] EXCEPT !.cash = @ - 0, !.qty = @ - q]
    OBVIOUS
  <2>4. /\ lock.qty = L[o].qty - q /\ lock.account = L[o].account /\ lock.cash = L[o].cash
        /\ lock.side = L[o].side /\ lock.symbol = L[o].symbol
    BY <2>1, <2>3 DEF Locks
  <2>5. M = [L EXCEPT ![o] = lock]
    BY <1>3, <2>2, <2>3
  <2> QED
    BY <1>3, <2>4, <2>5 DEF SameBut
<1> QED
  BY <1>1, <1>2, <1>3

\* A buyer pays at most what was set aside for the shares.
LEMMA FundedWhenBought ==
  ASSUME NEW ord \in Orders, NEW o, NEW L, NEW M, NEW q \in Nat, NEW paid \in Nat,
         FundedBy(ord, o, L), IsOpen(ord), ord.ticket.side = "BUY",
         paid <= EffectivePrice(ord.ticket),
         o \in DOMAIN M, M[o].qty = L[o].qty,
         L[o].cash \in Int, M[o].cash = L[o].cash - paid * q
  PROVE  FundedBy(Fill(ord, q), o, M)
<1>1. PICK filled : filled = Fill(ord, q)
  OBVIOUS
<1>2. /\ filled.ticket = ord.ticket
      /\ Remaining(filled) = Remaining(ord) - q /\ Remaining(ord) \in Int
      /\ IsOpen(filled) \/ filled.status = "FILLED"
  BY <1>1, FillEffect DEF IsOpen
<1>3. M[o].qty = ord.ticket.qty
  BY DEF FundedBy
<1>4. ASSUME ord.ticket.type = "LIMIT"
      PROVE  /\ ord.ticket.price \in Nat
             /\ M[o].cash >= ord.ticket.price * (Remaining(ord) - q)
  <2>1. PICK p \in Nat : /\ p = ord.ticket.price
                         /\ L[o].cash >= p * Remaining(ord)
    BY <1>4 DEF FundedBy
  <2>2. paid <= p
    BY <1>4, <2>1, CommonAssumption DEF EffectivePrice
  <2>3. PICK r \in Int : r = Remaining(ord)
    BY <1>2
  <2>4. PICK cost \in Int, mine \in Int, all \in Int :
          cost = paid * q /\ mine = p * q /\ all = p * r
    OBVIOUS
  <2>5. cost <= mine /\ p * (r - q) = all - mine
    BY <2>2, <2>4, CostBounded
  <2>6. M[o].cash >= all - mine
    BY <2>1, <2>3, <2>4, <2>5
  <2> QED
    BY <2>1, <2>3, <2>5, <2>6
<1>5. FundedBy(filled, o, M)
  BY <1>2, <1>3, <1>4 DEF FundedBy, IsOpen
<1> QED
  BY <1>1, <1>5

\* The lock of a SELL follows what remains, and goes with the last share.
LEMMA FundedWhenSold ==
  ASSUME NEW ord \in Orders, NEW o, NEW L, NEW M, NEW q \in Nat,
         FundedBy(ord, o, L), IsOpen(ord), ord.ticket.side = "SELL",
         o \in DOMAIN M <=> ~(L[o].qty - q <= 0),
         o \in DOMAIN M => M[o].cash = L[o].cash /\ M[o].qty = L[o].qty - q
  PROVE  FundedBy(Fill(ord, q), o, M)
<1>1. PICK filled : filled = Fill(ord, q)
  OBVIOUS
<1>2. /\ filled.ticket = ord.ticket
      /\ Remaining(filled) = Remaining(ord) - q /\ Remaining(ord) \in Int
      /\ IF Remaining(filled) <= 0 THEN filled.status = "FILLED" ELSE IsOpen(filled)
  BY <1>1, FillEffect DEF IsOpen
<1>3. L[o].qty = Remaining(ord) /\ L[o].cash = 0
  BY DEF FundedBy
<1>4. FundedBy(filled, o, M)
  BY <1>2, <1>3 DEF FundedBy, IsOpen
<1> QED
  BY <1>1, <1>4

\* A fill that OMS refused is not settled.
LEMMA FundedWhenRaised ==
  ASSUME NEW ord \in Orders, NEW o, NEW L, NEW q \in Nat,
         FundedBy(ord, o, L), ~IsOpen(ord)
  PROVE  FundedBy(AddFill(ord, q), o, L)
<1>1. PICK added : added = AddFill(ord, q)
  OBVIOUS
<1>2. added.ticket = ord.ticket /\ added.status = ord.status
  BY <1>1, FillEffect
<1>3. FundedBy(added, o, L)
  BY <1>2 DEF FundedBy, IsOpen
<1> QED
  BY <1>1, <1>3

\* The lock record alone decides.
LEMMA FundedBySameLock ==
  ASSUME NEW ord, NEW o, NEW L, NEW M, FundedBy(ord, o, L),
         o \in DOMAIN L <=> o \in DOMAIN M,
         o \in DOMAIN L => M[o].qty = L[o].qty /\ M[o].cash = L[o].cash
  PROVE  FundedBy(ord, o, M)
BY DEF FundedBy

-----------------------------------------------------------------------------
(* What each operation does to the orders and to what rests for them *)

LEMMA EnterEffect ==
  ASSUME NEW o, NEW a, NEW t, NEW status, Enter(o, a, t, status)
  PROVE  /\ o \in OrderIds \ DOMAIN orders
         /\ DOMAIN orders' = DOMAIN orders \cup {o}
         /\ \A x \in DOMAIN orders : orders'[x] = orders[x]
         /\ orders'[o].account = a /\ orders'[o].ticket = t
         /\ orders'[o].status = status /\ orders'[o].created = clock'
         /\ Remaining(orders'[o]) = t.qty - 0
         /\ KeptIn(orders, orders')
<1>1. PICK ord : ord = [account |-> a, ticket |-> t, status |-> status,
                        created |-> clock', filled |-> 0]
  OBVIOUS
<1>2. orders' = Put(orders, o, ord) /\ o \in OrderIds \ DOMAIN orders
  BY <1>1 DEF Enter
<1>3. /\ DOMAIN orders' = DOMAIN orders \cup {o}
      /\ \A x \in DOMAIN orders : orders'[x] = orders[x]
      /\ orders'[o] = ord
  BY <1>2 DEF Put
<1> QED
  BY <1>1, <1>2, <1>3 DEF KeptIn, Remaining

LEMMA CancelOrderEffect ==
  ASSUME OMSTypeOK, NEW o \in DOMAIN orders, CancelOrder(o)
  PROVE  /\ DOMAIN orders' = DOMAIN orders
         /\ \A x \in DOMAIN orders \ {o} : orders'[x] = orders[x]
         /\ orders'[o].status = "CANCELED" /\ orders'[o].ticket = orders[o].ticket
         /\ Remaining(orders'[o]) = Remaining(orders[o])
         /\ KeptIn(orders, orders')
<1>1. PICK ord : ord = [orders[o] EXCEPT !.status = "CANCELED"]
  OBVIOUS
<1>2. orders' = [orders EXCEPT ![o] = ord]
  BY <1>1 DEF CancelOrder
<1>3. orders[o] \in Orders
  BY DEF OMSTypeOK
<1>4. /\ ord.status = "CANCELED" /\ ord.ticket = orders[o].ticket
      /\ ord.account = orders[o].account /\ ord.created = orders[o].created
      /\ ord.filled = orders[o].filled
  BY <1>1, <1>3 DEF Orders
<1> QED
  BY <1>2, <1>4 DEF KeptIn, Remaining

LEMMA FillBothEffect ==
  ASSUME OMSTypeOK, NEW b \in DOMAIN orders, NEW s \in DOMAIN orders, b # s,
         NEW q \in Nat, FillBoth(b, s, q) \/ FillBothRaising(b, s, q)
  PROVE  /\ DOMAIN orders' = DOMAIN orders
         /\ \A x \in DOMAIN orders \ {b, s} : orders'[x] = orders[x]
         /\ FillBoth(b, s, q) =>
              orders'[b] = Fill(orders[b], q) /\ orders'[s] = Fill(orders[s], q)
         /\ FillBothRaising(b, s, q) =>
              IF FillRaises(orders[b], q)
              THEN orders'[b] = AddFill(orders[b], q) /\ orders'[s] = orders[s]
              ELSE orders'[b] = Fill(orders[b], q) /\ orders'[s] = AddFill(orders[s], q)
         /\ KeptIn(orders, orders')
<1>1. orders[b] \in Orders /\ orders[s] \in Orders
  BY DEF OMSTypeOK
<1>2. /\ FillBoth(b, s, q) =>
           orders' = [orders EXCEPT ![b] = Fill(orders[b], q), ![s] = Fill(orders[s], q)]
      /\ FillBothRaising(b, s, q) =>
           IF FillRaises(orders[b], q)
           THEN orders' = [orders EXCEPT ![b] = AddFill(orders[b], q)]
           ELSE orders' = [orders EXCEPT ![b] = Fill(orders[b], q),
                                         ![s] = AddFill(orders[s], q)]
  BY DEF FillBoth, FillBothRaising
<1>3. PICK fb, fs, ab, as :
        /\ fb = Fill(orders[b], q) /\ fs = Fill(orders[s], q)
        /\ ab = AddFill(orders[b], q) /\ as = AddFill(orders[s], q)
  OBVIOUS
<1>4. \A f \in {fb, ab} : /\ f.ticket = orders[b].ticket
                          /\ f.account = orders[b].account
                          /\ f.created = orders[b].created
  BY <1>1, <1>3, FillEffect
<1>5. \A f \in {fs, as} : /\ f.ticket = orders[s].ticket
                          /\ f.account = orders[s].account
                          /\ f.created = orders[s].created
  BY <1>1, <1>3, FillEffect
<1>6. /\ DOMAIN orders' = DOMAIN orders
      /\ \A x \in DOMAIN orders \ {b, s} : orders'[x] = orders[x]
      /\ FillBoth(b, s, q) => orders'[b] = fb /\ orders'[s] = fs
      /\ FillBothRaising(b, s, q) =>
              IF FillRaises(orders[b], q)
              THEN orders'[b] = ab /\ orders'[s] = orders[s]
              ELSE orders'[b] = fb /\ orders'[s] = as
  BY <1>2, <1>3
<1>7. KeptIn(orders, orders')
  BY <1>4, <1>5, <1>6 DEF KeptIn
<1> QED
  BY <1>3, <1>6, <1>7

LEMMA FillFromMarketEffect ==
  ASSUME OMSTypeOK, NEW o \in DOMAIN orders, IsOpen(orders[o]), Remaining(orders[o]) > 0,
         FillFromMarket(o, Remaining(orders[o]))
  PROVE  /\ DOMAIN orders' = DOMAIN orders
         /\ \A x \in DOMAIN orders \ {o} : orders'[x] = orders[x]
         /\ orders'[o].status = "FILLED" /\ Remaining(orders'[o]) = 0
         /\ KeptIn(orders, orders')
<1>1. PICK q \in Nat : q = Remaining(orders[o])
  <2>1. orders[o] \in Orders
    BY DEF OMSTypeOK
  <2> QED
    BY <2>1 DEF Orders, TicketType, Remaining
<1>2. PICK ord : ord = Fill(orders[o], q)
  OBVIOUS
<1>3. orders' = [orders EXCEPT ![o] = ord]
  BY <1>1, <1>2 DEF FillFromMarket
<1>4. /\ ord.ticket = orders[o].ticket /\ ord.account = orders[o].account
      /\ ord.created = orders[o].created
      /\ ord.status = "FILLED" /\ Remaining(ord) = 0
  BY <1>1, <1>2, FillEffect DEF OMSTypeOK
<1> QED
  BY <1>3, <1>4 DEF KeptIn

-----------------------------------------------------------------------------
(* The inductive invariant, order by order *)

LEMMA OrderFacts ==
  ASSUME FundingInv, NEW o \in DOMAIN orders
  PROVE  /\ o \in OrderIds /\ orders[o] \in Orders
         /\ orders[o].ticket.symbol \in Symbols /\ orders[o].ticket.side \in Sides
         /\ trades \in Seq(TradeRecords)
         /\ Rest(o) \in Nat /\ HeldFor(o) \in Nat /\ Rest(o) <= HeldFor(o)
         /\ Chained(trades, o, Rest(o)) /\ OrderMeans(orders[o], HeldFor(o))
         /\ trades # <<>> /\ o \in PartiesOf(Head(trades)) =>
              Rest(o) <= HeldFor(o) - Head(trades).qty
<1>1. o \in OrderIds /\ orders[o] \in Orders
  BY DEF FundingInv, TradingInv, TradingOK, OMSTypeOK
<1>2. orders[o].ticket.symbol \in Symbols /\ orders[o].ticket.side \in Sides
  BY <1>1 DEF Orders, TicketType
<1>3. trades \in Seq(TradeRecords) /\ EngineInv
  BY DEF FundingInv, TradingInv, TradingOK, EngineInv, EngineOK, METypeOK
<1>4. Rest(o) \in Nat
  BY <1>2, <1>3, BookLists, RestingQtyAt DEF Rest, SideOf
<1>5. Chained(trades, o, Rest(o)) /\ OrderMeans(orders[o], HeldFor(o))
  BY DEF FundingInv, OrdersMean
<1>6. PICK r \in Nat : r = Rest(o)
  BY <1>4
<1>7. /\ Held(trades, o, r) \in Nat /\ r <= Held(trades, o, r)
      /\ trades # <<>> /\ o \in PartiesOf(Head(trades)) =>
              r <= Held(trades, o, r) - Head(trades).qty
  BY <1>3, <1>5, <1>6, HeldCovers
<1>8. HeldFor(o) = Held(trades, o, r)
  BY <1>6 DEF HeldFor
<1> QED
  BY <1>1, <1>2, <1>3, <1>5, <1>6, <1>7, <1>8

\* The trade at the head is between two different orders, which the engine
\* holds for at least its quantity.
LEMMA PartyFacts ==
  ASSUME FundingInv, trades # <<>>, NEW t, t = Head(trades)
  PROVE  /\ t.buy \in DOMAIN orders /\ t.sell \in DOMAIN orders
         /\ orders[t.buy].ticket.side = "BUY" /\ orders[t.sell].ticket.side = "SELL"
         /\ t.buy # t.sell
         /\ t.symbol \in Symbols /\ orders[t.sell].ticket.symbol = t.symbol
         /\ t.price \in Nat /\ t.price <= EffectivePrice(orders[t.buy].ticket)
         /\ t.qty \in Nat \ {0}
         /\ Rest(t.buy) <= HeldFor(t.buy) - t.qty
         /\ Rest(t.sell) <= HeldFor(t.sell) - t.qty
<1>1. t.price \in Nat /\ t.qty \in Nat \ {0} /\ t.symbol \in Symbols
  BY TradeParties DEF FundingInv, TradingInv
<1>2. t = trades[1] /\ 1 \in 1..Len(trades)
  BY LenProperties, EmptySeq DEF FundingInv, TradingInv, TradingOK, EngineInv, EngineOK, METypeOK
<1>3. TradeFor(orders, t)
  BY <1>2 DEF FundingInv, BookOfOrders
<1>4. /\ t.buy \in DOMAIN orders /\ t.sell \in DOMAIN orders
      /\ orders[t.buy].ticket.side = "BUY" /\ orders[t.sell].ticket.side = "SELL"
      /\ t.price <= EffectivePrice(orders[t.buy].ticket)
      /\ orders[t.sell].ticket.symbol = t.symbol
  BY <1>3 DEF TradeFor
<1>5. t.buy \in PartiesOf(Head(trades)) /\ t.sell \in PartiesOf(Head(trades))
  BY DEF PartiesOf
<1>6. /\ Rest(t.buy) <= HeldFor(t.buy) - t.qty
      /\ Rest(t.sell) <= HeldFor(t.sell) - t.qty
  BY <1>4, <1>5, OrderFacts
<1> QED
  BY <1>1, <1>4, <1>6

\* No trade is pending.
LEMMA NothingPending ==
  ASSUME NEW o, NEW r
  PROVE  Chained(<<>>, o, r) /\ Held(<<>>, o, r) = r
<1>1. Pending(<<>>, o) = {}
  BY DEF Pending
<1> QED
  BY <1>1 DEF Chained, Held

LEMMA RestStays ==
  ASSUME NEW o \in DOMAIN orders, KeptIn(orders, orders'), UNCHANGED <<bids, asks>>
  PROVE  Rest(o)' = Rest(o)
BY DEF Rest, SideOf, KeptIn

\* An order that a step does not touch.
LEMMA MeansStays ==
  ASSUME FundingInv, NEW o \in DOMAIN orders, orders'[o] = orders[o],
         UNCHANGED <<bids, asks, trades>>
  PROVE  Chained(trades', o, Rest(o)') /\ OrderMeans(orders'[o], HeldFor(o)')
<1>1. Rest(o)' = Rest(o)
  BY DEF Rest, SideOf
<1>2. HeldFor(o)' = HeldFor(o)
  BY <1>1 DEF HeldFor
<1> QED
  BY <1>1, <1>2 DEF FundingInv, OrdersMean

LEMMA FundsStay ==
  ASSUME FundingInv, NEW o \in DOMAIN orders, orders'[o] = orders[o],
         deleted' = deleted,
         o \in DOMAIN locks <=> o \in DOMAIN locks',
         o \in DOMAIN locks => /\ locks'[o].qty = locks[o].qty
                               /\ locks'[o].cash = locks[o].cash
  PROVE  orders'[o].account \in Users' => FundedBy(orders'[o], o, locks')
<1> SUFFICES ASSUME orders[o].account \in Users
             PROVE  FundedBy(orders[o], o, locks')
  BY DEF Users
<1>1. FundedBy(orders[o], o, locks)
  BY DEF FundingInv, OrdersFunded
<1> QED
  BY <1>1, FundedBySameLock

LEMMA LocksStay ==
  ASSUME FundingInv, KeptIn(orders, orders'), deleted' = deleted,
         DOMAIN locks' \subseteq DOMAIN locks,
         \A o \in DOMAIN locks' : locks'[o].account = locks[o].account
  PROVE  LocksOfOrders'
<1> SUFFICES ASSUME NEW o \in DOMAIN locks'
             PROVE  LockFor(orders', Users', o, locks'[o])
  BY DEF LocksOfOrders
<1>1. LockFor(orders, Users, o, locks[o])
  BY DEF FundingInv, LocksOfOrders
<1> QED
  BY <1>1 DEF LockFor, KeptIn, Users

\* Orders, books, trades and locks stay: the account operations, the mode
\* switch and the two ends of a handler that do not trade.
LEMMA NothingTouched ==
  ASSUME FundingInv, TradingInv', UNCHANGED <<bids, asks, trades, orders, locks, deleted>>,
         OneHandler'
  PROVE  FundingInv'
<1>1. KeptIn(orders, orders')
  BY DEF KeptIn
<1>2. BookOfOrders'
  BY <1>1, BooksStay DEF FundingInv
<1>3. OrdersMean'
  BY MeansStays DEF OrdersMean
<1>4. OrdersFunded'
  BY FundsStay DEF OrdersFunded
<1>5. LocksOfOrders'
  BY <1>1, LocksStay
<1> QED
  BY <1>2, <1>3, <1>4, <1>5 DEF FundingInv

LEMMA FundingInit == Init => FundingInv
<1> SUFFICES ASSUME Init PROVE FundingInv
  OBVIOUS
<1>1. TradingInv
  BY TradingInit
<1>2. /\ bids = [s \in Symbols |-> <<>>] /\ asks = [s \in Symbols |-> <<>>]
      /\ trades = <<>> /\ submission = NoSubmission /\ toFill = {}
      /\ orders = <<>> /\ locks = <<>>
  BY DEF Init, MEInit, OMSInit, AccountInit
<1>3. BookOfOrders
  BY <1>2 DEF BookOfOrders, ListFor, EntriesOn
<1>4. OneHandler
  BY <1>2 DEF OneHandler, MEIdle
<1>5. OrdersMean /\ OrdersFunded /\ LocksOfOrders
  BY <1>2 DEF OrdersMean, OrdersFunded, LocksOfOrders
<1> QED
  BY <1>1, <1>3, <1>4, <1>5 DEF FundingInv

\* POST /orders, rejected.
LEMMA PlaceRejectedFunding ==
  ASSUME FundingInv, NEW o \in OrderIds, NEW a \in Accounts, NEW t \in Tickets,
         PlaceRejected(o, a, t)
  PROVE  FundingInv'
<1>1. /\ UNCHANGED <<bids, asks, trades, locks, deleted>> /\ toFill' = {} /\ MEIdle'
      /\ trades = <<>>
      /\ Enter(o, a, t, "REJECTED")
  BY DEF PlaceRejected, RejectOrder, Idle, MEIdle, meVars, accountVars, appVars
<1>2. /\ o \notin DOMAIN orders /\ DOMAIN orders' = DOMAIN orders \cup {o}
      /\ \A x \in DOMAIN orders : orders'[x] = orders[x]
      /\ orders'[o].ticket = t /\ orders'[o].status = "REJECTED"
      /\ Remaining(orders'[o]) = t.qty - 0
      /\ KeptIn(orders, orders')
  BY <1>1, EnterEffect
<1>3. TradingInv'
  BY TradingNext DEF FundingInv, Next, Handlers
<1>4. BookOfOrders'
  BY <1>1, <1>2, BooksStay DEF FundingInv
<1>5. OneHandler'
  BY <1>1 DEF OneHandler
<1>6. Chained(trades', o, Rest(o)') /\ OrderMeans(orders'[o], HeldFor(o)')
  <2>1. t.symbol \in Symbols /\ t.qty \in Nat \ {0}
    BY OMSAssumption DEF TicketType
  <2>2. EngineInv /\ o \notin seen
    BY <1>2 DEF FundingInv, TradingInv, TradingOK
  <2>3. RestingQty(bids[t.symbol], o) = 0 /\ RestingQty(asks[t.symbol], o) = 0
    BY <2>1, <2>2, BookLists, RestingQtyAt
  <2>4. Rest(o)' = 0
    BY <1>1, <1>2, <2>3 DEF Rest, SideOf
  <2>5. Chained(trades', o, Rest(o)') /\ HeldFor(o)' = 0
    BY <1>1, <2>4, NothingPending DEF HeldFor
  <2>6. OrderMeans(orders'[o], 0)
    BY <1>2, <2>1 DEF OrderMeans, IsOpen
  <2> QED
    BY <2>5, <2>6
<1>7. OrdersMean'
  BY <1>1, <1>2, <1>6, MeansStays DEF OrdersMean
<1>8. OrdersFunded'
  <2>1. o \notin DOMAIN locks'
    BY <1>1, <1>2 DEF FundingInv, LocksOfOrders, LockFor
  <2>2. FundedBy(orders'[o], o, locks')
    BY <1>2, <2>1 DEF FundedBy, IsOpen
  <2>3. \A x \in DOMAIN orders :
          orders'[x].account \in Users' => FundedBy(orders'[x], x, locks')
    BY <1>1, <1>2, FundsStay
  <2> QED
    BY <1>2, <2>2, <2>3 DEF OrdersFunded
<1>9. LocksOfOrders'
  BY <1>1, <1>2, LocksStay
<1> QED
  BY <1>3, <1>4, <1>5, <1>7, <1>8, <1>9 DEF FundingInv

\* An accepted order is set aside for.
LEMMA LockFundsFunds ==
  ASSUME FundingInv, NEW o \in OrderIds \ DOMAIN orders, NEW a \in Users, NEW t \in Tickets,
         LockFunds(a, o, t.symbol, t.side, t.qty, t.price),
         DOMAIN orders' = DOMAIN orders \cup {o},
         \A x \in DOMAIN orders : orders'[x] = orders[x],
         KeptIn(orders, orders'),
         orders'[o].ticket = t, orders'[o].account = a, orders'[o].status = "ROUTED",
         Remaining(orders'[o]) = t.qty - 0, deleted' = deleted
  PROVE  OrdersFunded' /\ LocksOfOrders'
<1>1. t.qty \in Nat /\ t.side \in Sides /\ t.price \in Nat \cup {NoPrice}
  BY OMSAssumption DEF TicketType
<1>2. PICK lock : lock = [account |-> a, side |-> t.side, symbol |-> t.symbol,
                          cash |-> (IF t.side = "BUY" THEN t.price * t.qty ELSE 0),
                          qty |-> t.qty]
  OBVIOUS
<1>3. locks' = Put(locks, o, lock)
  BY <1>2 DEF LockFunds
<1>4. /\ DOMAIN locks' = DOMAIN locks \cup {o} /\ locks'[o] = lock
      /\ \A x \in DOMAIN locks \ {o} : locks'[x] = locks[x]
  BY <1>3 DEF Put
<1>5. DOMAIN locks \subseteq DOMAIN orders
  BY DEF FundingInv, LocksOfOrders, LockFor
<1>6. FundedBy(orders'[o], o, locks')
  <2>1. t.side = "BUY" => t.price \in Nat
    BY <1>1 DEF LockFunds, CanLock
  <2>2. /\ lock.qty = t.qty
        /\ t.side = "BUY" => lock.cash = t.price * t.qty
        /\ t.side # "BUY" => lock.cash = 0
    BY <1>2
  <2>3. IsOpen(orders'[o]) /\ Remaining(orders'[o]) = t.qty
    BY <1>1 DEF IsOpen
  <2>4. CASE t.side = "BUY"
    <3>1. PICK cost \in Int : cost = t.price * t.qty
      BY <1>1, <2>1, <2>4
    <3>2. lock.cash >= cost
      BY <2>2, <2>4, <3>1
    <3> QED
      BY <1>4, <2>1, <2>2, <2>3, <2>4, <3>1, <3>2 DEF FundedBy
  <2>5. CASE t.side # "BUY"
    BY <1>4, <2>2, <2>3, <2>5 DEF FundedBy
  <2> QED
    BY <2>4, <2>5
<1>7. ASSUME NEW x \in DOMAIN orders
      PROVE  orders'[x].account \in Users' => FundedBy(orders'[x], x, locks')
  <2>1. x # o
    OBVIOUS
  <2> QED
    BY <1>4, <2>1, FundsStay
<1>8. OrdersFunded'
  BY <1>6, <1>7 DEF OrdersFunded
<1>9. LocksOfOrders'
  <2>1. lock.account = a /\ Users' = Users
    BY <1>2 DEF Users
  <2>2. LockFor(orders', Users', o, locks'[o])
    BY <1>4, <2>1 DEF LockFor
  <2>3. ASSUME NEW x \in DOMAIN locks
        PROVE  LockFor(orders', Users', x, locks'[x])
    <3>1. LockFor(orders, Users, x, locks[x]) /\ x \in DOMAIN orders
      BY <1>5 DEF FundingInv, LocksOfOrders
    <3> QED
      BY <1>4, <2>1, <3>1 DEF LockFor
  <2> QED
    BY <1>4, <2>2, <2>3 DEF LocksOfOrders
<1> QED
  BY <1>8, <1>9

\* POST /orders, accepted.
LEMMA PlaceAcceptedFunding ==
  ASSUME FundingInv, NEW o \in OrderIds, NEW a \in Accounts, NEW t \in Tickets,
         PlaceAccepted(o, a, t)
  PROVE  /\ FundingInv'
         /\ engineMode = "B" => /\ HeldFor(o)' = t.qty
                                /\ \A x \in DOMAIN orders : HeldFor(x)' = HeldFor(x)
<1>1. /\ a \in Users /\ MEIdle /\ toFill = {} /\ trades = <<>> /\ deleted' = deleted
      /\ LockFunds(a, o, t.symbol, t.side, t.qty, t.price)
      /\ Enter(o, a, t, "ROUTED")
  BY DEF PlaceAccepted, AcceptAndRoute, Idle, MEIdle
<1>2. /\ o \in OrderIds \ DOMAIN orders /\ DOMAIN orders' = DOMAIN orders \cup {o}
      /\ \A x \in DOMAIN orders : orders'[x] = orders[x]
      /\ orders'[o].ticket = t /\ orders'[o].account = a
      /\ orders'[o].status = "ROUTED" /\ orders'[o].created = clock'
      /\ Remaining(orders'[o]) = t.qty - 0
      /\ KeptIn(orders, orders')
  BY <1>1, EnterEffect
<1>3. TradingInv'
  BY TradingNext DEF FundingInv, Next, Handlers
<1>4. OrdersFunded' /\ LocksOfOrders'
  BY <1>1, <1>2, LockFundsFunds
<1>5. /\ t.symbol \in Symbols /\ t.side \in Sides /\ t.qty \in Nat \ {0}
      /\ t.price \in Nat \cup {NoPrice}
  BY OMSAssumption DEF TicketType
<1>6. IsOpen(orders'[o])
  BY <1>2 DEF IsOpen
<1>7. EngineInv /\ o \notin seen
  BY <1>2 DEF FundingInv, TradingInv, TradingOK
<1>8. CASE engineMode = "B"
  <2>1. SubmitOrder(o, t.symbol, t.side, EffectivePrice(t), t.qty, clock') /\ toFill' = {}
    BY <1>1, <1>8 DEF PlaceAccepted
  <2>2. EffectivePrice(t) \in Nat /\ clock' \in Nat
    BY <1>3, <1>5, TradingAssumption DEF EffectivePrice, TradingInv, TradingOK, OMSTypeOK
  <2>3. PICK p \in Nat, c \in Nat : p = EffectivePrice(t) /\ c = clock'
    BY <2>2
  <2>4. PICK s \in Symbols, side \in Sides, q \in Nat \ {0} :
          s = t.symbol /\ side = t.side /\ q = t.qty
    BY <1>5
  <2>5. SubmitOrder(o, s, side, p, q, c)
    BY <2>1, <2>3, <2>4
  <2>6. trades' = <<>>
    BY <1>1, <2>1 DEF SubmitOrder
  <2>7. \A e : e.order = o /\ e.price = p /\ e.time = c => EntryFor(orders', s, side, e)
    BY <1>2, <2>3, <2>4 DEF EntryFor
  <2>8. BookOfOrders'
    <3>1. ASSUME NEW z \in Symbols
          PROVE  /\ ListFor(orders', z, "BUY", bids'[z])
                 /\ ListFor(orders', z, "SELL", asks'[z])
      <4>1. /\ \A e \in EntriesOn(bids'[z]) :
                 \/ e \in EntriesOn(bids[z])
                 \/ side = "BUY" /\ z = s /\ e.order = o /\ e.price = p /\ e.time = c
            /\ \A e \in EntriesOn(asks'[z]) :
                 \/ e \in EntriesOn(asks[z])
                 \/ side = "SELL" /\ z = s /\ e.order = o /\ e.price = p /\ e.time = c
        BY <1>7, <2>5, SubmitEntries
      <4>2. /\ ListFor(orders', z, "BUY", bids[z]) /\ ListFor(orders', z, "SELL", asks[z])
        BY <1>2, KeptLists DEF FundingInv, BookOfOrders
      <4> QED
        BY <2>7, <4>1, <4>2 DEF ListFor
    <3>2. \A i \in 1..Len(trades') : TradeFor(orders', trades'[i])
      BY <2>6
    <3> QED
      BY <3>1, <3>2 DEF BookOfOrders
  <2>9. OneHandler'
    BY <2>1 DEF OneHandler
  <2>10. ASSUME NEW z \in Symbols, NEW x
        PROVE  /\ RestingQty(bids'[z], x) =
                    IF side = "BUY" /\ z = s /\ x = o THEN q ELSE RestingQty(bids[z], x)
               /\ RestingQty(asks'[z], x) =
                    IF side = "SELL" /\ z = s /\ x = o THEN q ELSE RestingQty(asks[z], x)
    BY <1>7, <2>5, SubmitRests
  <2>11. Rest(o)' = t.qty
    BY <1>2, <1>5, <2>4, <2>10 DEF Rest, SideOf, Sides
  <2>12. /\ Chained(trades', o, Rest(o)') /\ OrderMeans(orders'[o], HeldFor(o)')
         /\ HeldFor(o)' = t.qty
    <3>1. Chained(trades', o, Rest(o)') /\ HeldFor(o)' = t.qty
      BY <2>6, <2>11, NothingPending DEF HeldFor
    <3>2. OrderMeans(orders'[o], t.qty)
      BY <1>2, <1>5 DEF OrderMeans, IsOpen
    <3> QED
      BY <3>1, <3>2
  <2>13. ASSUME NEW x \in DOMAIN orders
         PROVE  /\ Chained(trades', x, Rest(x)') /\ OrderMeans(orders'[x], HeldFor(x)')
                /\ HeldFor(x)' = HeldFor(x)
    <3>1. x # o /\ orders[x].ticket.symbol \in Symbols
      BY <1>2, OrderFacts
    <3>2. Rest(x)' = Rest(x)
      BY <1>2, <2>10, <3>1 DEF Rest, SideOf
    <3>3. HeldFor(x)' = HeldFor(x) /\ trades' = trades
      BY <1>1, <2>6, <3>2 DEF HeldFor
    <3> QED
      BY <1>2, <3>2, <3>3, OrderFacts
  <2>14. OrdersMean'
    BY <1>2, <2>12, <2>13 DEF OrdersMean
  <2> QED
    BY <1>3, <1>4, <2>8, <2>9, <2>12, <2>13, <2>14 DEF FundingInv
<1>9. CASE engineMode # "B"
  <2>1. UNCHANGED meVars /\ toFill' \subseteq {o}
    BY <1>9 DEF PlaceAccepted
  <2>2. UNCHANGED <<bids, asks, trades, submission>>
    BY <2>1 DEF meVars
  <2>3. BookOfOrders'
    BY <1>2, <2>2, BooksStay DEF FundingInv
  <2>4. OneHandler'
    BY <1>1, <1>6, <2>1, <2>2 DEF OneHandler, MEIdle
  <2>5. RestingQty(bids[t.symbol], o) = 0 /\ RestingQty(asks[t.symbol], o) = 0
    BY <1>5, <1>7, BookLists, RestingQtyAt
  <2>6. Rest(o)' = 0
    BY <1>2, <2>2, <2>5 DEF Rest, SideOf
  <2>7. Chained(trades', o, Rest(o)') /\ HeldFor(o)' = 0
    BY <1>1, <2>2, <2>6, NothingPending DEF HeldFor
  <2>8. OrderMeans(orders'[o], 0)
    BY <1>2, <1>5 DEF OrderMeans, IsOpen
  <2>9. OrdersMean'
    BY <1>2, <2>2, <2>7, <2>8, MeansStays DEF OrdersMean
  <2> QED
    BY <1>3, <1>4, <1>9, <2>3, <2>4, <2>9 DEF FundingInv
<1> QED
  BY <1>8, <1>9

\* DELETE /orders/{id}: unlocked, canceled and off the book in one handler.
LEMMA CancelFunding ==
  ASSUME FundingInv, NEW o \in OrderIds, Cancel(o)
  PROVE  /\ FundingInv'
         /\ o \in DOMAIN orders /\ IsOpen(orders[o])
         /\ DOMAIN orders' = DOMAIN orders /\ orders'[o].status = "CANCELED"
         /\ \A x \in DOMAIN orders \ {o} :
              orders'[x] = orders[x] /\ HeldFor(x)' = HeldFor(x)
<1>1. /\ o \in DOMAIN orders /\ trades = <<>> /\ trades' = <<>> /\ toFill' = {}
      /\ deleted' = deleted
      /\ UnlockFunds(o) /\ CancelOrder(o) /\ CancelInBook(orders[o].ticket.symbol, o)
  BY DEF Cancel, Idle, MEIdle, CancelInBook, appVars
<1>2. /\ orders[o].ticket.symbol \in Symbols /\ orders[o].ticket.side \in Sides
      /\ IsOpen(orders[o]) /\ EngineInv /\ OMSTypeOK
  <2>1. IsOpen(orders[o])
    BY <1>1, OrderFacts DEF CancelOrder, IsCancelable, OrderMeans
  <2> QED
    BY <1>1, <2>1, OrderFacts DEF FundingInv, TradingInv, TradingOK
<1>3. /\ DOMAIN orders' = DOMAIN orders
      /\ \A x \in DOMAIN orders \ {o} : orders'[x] = orders[x]
      /\ orders'[o].status = "CANCELED" /\ orders'[o].ticket = orders[o].ticket
      /\ Remaining(orders'[o]) = Remaining(orders[o])
      /\ KeptIn(orders, orders')
  BY <1>1, <1>2, CancelOrderEffect
<1>4. TradingInv'
  BY TradingNext DEF FundingInv, Next, Handlers
<1>5. PICK s \in Symbols : s = orders[o].ticket.symbol
  BY <1>2
<1>6. ASSUME NEW z \in Symbols, NEW x
      PROVE  /\ RestingQty(bids'[z], x) = IF z = s /\ x = o THEN 0 ELSE RestingQty(bids[z], x)
             /\ RestingQty(asks'[z], x) = IF z = s /\ x = o THEN 0 ELSE RestingQty(asks[z], x)
             /\ EntriesOn(bids'[z]) \subseteq EntriesOn(bids[z])
             /\ EntriesOn(asks'[z]) \subseteq EntriesOn(asks[z])
  <2>1. CancelInBook(s, o)
    BY <1>1, <1>5
  <2> QED
    BY <1>2, <2>1, CancelRests
<1>7. BookOfOrders'
  <2>1. ASSUME NEW z \in Symbols
        PROVE  /\ ListFor(orders', z, "BUY", bids'[z])
               /\ ListFor(orders', z, "SELL", asks'[z])
    <3>1. ListFor(orders', z, "BUY", bids[z]) /\ ListFor(orders', z, "SELL", asks[z])
      BY <1>3, KeptLists DEF FundingInv, BookOfOrders
    <3> QED
      BY <1>6, <3>1 DEF ListFor
  <2> QED
    BY <1>1, <2>1 DEF BookOfOrders
<1>8. OneHandler'
  BY <1>1 DEF OneHandler
<1>9. Chained(trades', o, Rest(o)') /\ OrderMeans(orders'[o], HeldFor(o)')
  <2>1. Rest(o)' = 0
    BY <1>2, <1>3, <1>5, <1>6 DEF Rest, SideOf
  <2>2. Chained(trades', o, Rest(o)') /\ HeldFor(o)' = 0
    BY <1>1, <2>1, NothingPending DEF HeldFor
  <2>3. Remaining(orders[o]) > 0
    BY <1>1, <1>2, OrderFacts DEF OrderMeans
  <2>4. OrderMeans(orders'[o], 0)
    BY <1>3, <2>3 DEF OrderMeans, IsOpen
  <2> QED
    BY <2>2, <2>4
<1>10. ASSUME NEW x \in DOMAIN orders \ {o}
       PROVE  /\ Chained(trades', x, Rest(x)') /\ OrderMeans(orders'[x], HeldFor(x)')
              /\ HeldFor(x)' = HeldFor(x)
  <2>1. orders[x].ticket.symbol \in Symbols
    BY OrderFacts
  <2>2. Rest(x)' = Rest(x)
    BY <1>3, <1>6, <2>1 DEF Rest, SideOf
  <2>3. HeldFor(x)' = HeldFor(x) /\ trades' = trades
    BY <1>1, <2>2 DEF HeldFor
  <2> QED
    BY <1>3, <2>2, <2>3, OrderFacts
<1>11. OrdersMean'
  BY <1>3, <1>9, <1>10 DEF OrdersMean
<1>12. /\ DOMAIN locks' = DOMAIN locks \ {o}
       /\ \A x \in DOMAIN locks' : locks'[x] = locks[x]
  <2>1. CASE HasLock(o)
    <3>1. locks' = Drop(locks, o)
      BY <1>1, <2>1 DEF UnlockFunds
    <3>2. DOMAIN locks \subseteq OrderIds /\ locks \in [DOMAIN locks -> Locks]
      BY DEF FundingInv, TradingInv, TradingOK, AccountTypeOK
    <3>3. /\ DOMAIN Drop(locks, o) = DOMAIN locks \ {o}
          /\ \A x \in DOMAIN locks \ {o} : Drop(locks, o)[x] = locks[x]
      BY <3>2, DropProperties
    <3> QED
      BY <3>1, <3>3
  <2>2. CASE ~HasLock(o)
    BY <1>1, <2>2 DEF UnlockFunds, HasLock, accountVars
  <2> QED
    BY <2>1, <2>2
<1>13. OrdersFunded'
  <2>1. FundedBy(orders'[o], o, locks')
    BY <1>3, <1>12 DEF FundedBy, IsOpen
  <2>2. ASSUME NEW x \in DOMAIN orders \ {o}
        PROVE  orders'[x].account \in Users' => FundedBy(orders'[x], x, locks')
    BY <1>1, <1>3, <1>12, FundsStay
  <2> QED
    BY <1>3, <2>1, <2>2 DEF OrdersFunded
<1>14. LocksOfOrders'
  BY <1>1, <1>3, <1>12, LocksStay
<1> QED
  BY <1>1, <1>2, <1>3, <1>4, <1>7, <1>8, <1>10, <1>11, <1>13, <1>14 DEF FundingInv

\* Deposits, withdrawals and the mode switch.
LEMMA DepositFunding ==
  ASSUME FundingInv, NEW a \in Accounts, NEW amount \in Amounts,
         Deposit(a, amount) \/ Withdraw(a, amount)
  PROVE  FundingInv'
<1>1. TradingInv'
  BY TradingNext DEF FundingInv, Next, Handlers
<1>2. UNCHANGED <<bids, asks, trades, orders, locks, deleted, submission, toFill>>
  BY DEF Deposit, Withdraw, DepositCash, WithdrawCash, meVars, omsVars, appVars
<1>3. OneHandler'
  BY <1>2 DEF FundingInv, OneHandler, MEIdle
<1> QED
  BY <1>1, <1>2, <1>3, NothingTouched

LEMMA SetEngineModeFunding ==
  ASSUME FundingInv, NEW mode \in EngineModes, SetEngineMode(mode)
  PROVE  FundingInv'
<1>1. TradingInv'
  BY TradingNext DEF FundingInv, Next, Handlers
<1>2. UNCHANGED <<bids, asks, trades, orders, locks, deleted, submission, toFill>>
  BY DEF SetEngineMode, meVars, omsVars, accountVars
<1>3. OneHandler'
  BY <1>2 DEF FundingInv, OneHandler, MEIdle
<1> QED
  BY <1>1, <1>2, <1>3, NothingTouched

\* A deleted account takes its lock records along; the others keep theirs.
LEMMA DeleteUserFunding ==
  ASSUME FundingInv, NEW a \in Deletable, DeleteUser(a)
  PROVE  FundingInv'
<1>1. TradingInv'
  BY TradingNext DEF FundingInv, Next, Handlers
<1>2. /\ UNCHANGED <<bids, asks, trades, orders, submission, toFill>>
      /\ deleted' = deleted \cup {a}
      /\ locks' = Restrict(locks, { o \in DOMAIN locks : locks[o].account # a })
  BY DEF DeleteUser, DeleteAccount, meVars, omsVars
<1>3. /\ DOMAIN locks' = { o \in DOMAIN locks : locks[o].account # a }
      /\ \A o \in DOMAIN locks' : locks'[o] = locks[o]
      /\ Users' = Users \ {a}
  BY <1>2 DEF Restrict, Users
<1>4. KeptIn(orders, orders')
  BY <1>2 DEF KeptIn
<1>5. BookOfOrders'
  BY <1>2, <1>4, BooksStay DEF FundingInv
<1>6. OneHandler'
  BY <1>2 DEF FundingInv, OneHandler, MEIdle
<1>7. OrdersMean'
  BY <1>2, MeansStays DEF OrdersMean
<1>8. OrdersFunded'
  <2> SUFFICES ASSUME NEW o \in DOMAIN orders, orders[o].account \in Users \ {a}
               PROVE  FundedBy(orders[o], o, locks')
    BY <1>2, <1>3 DEF OrdersFunded
  <2>1. FundedBy(orders[o], o, locks)
    BY DEF FundingInv, OrdersFunded
  <2>2. o \in DOMAIN locks => locks[o].account = orders[o].account
    BY DEF FundingInv, LocksOfOrders, LockFor
  <2>3. o \in DOMAIN locks <=> o \in DOMAIN locks'
    BY <1>3, <2>2
  <2> QED
    BY <1>3, <2>1, <2>3, FundedBySameLock
<1>9. LocksOfOrders'
  <2> SUFFICES ASSUME NEW o \in DOMAIN locks'
               PROVE  LockFor(orders', Users', o, locks'[o])
    BY DEF LocksOfOrders
  <2>1. LockFor(orders, Users, o, locks[o])
    BY <1>3 DEF FundingInv, LocksOfOrders
  <2> QED
    BY <1>2, <1>3, <2>1 DEF LockFor
<1> QED
  BY <1>1, <1>5, <1>6, <1>7, <1>8, <1>9 DEF FundingInv

\* on_market_data: Engine A's scan starts when nothing else runs, over open
\* orders only.
LEMMA MarketDataFunding ==
  ASSUME FundingInv, NEW s \in Symbols, NEW quote \in Quotes, MarketData(s, quote)
  PROVE  FundingInv'
<1>1. TradingInv'
  BY TradingNext DEF FundingInv, Next, Handlers
<1>2. /\ UNCHANGED <<bids, asks, trades, orders, locks, deleted, submission>> /\ MEIdle
      /\ \A o \in toFill' : orders[o].status \in {"ROUTED", "PARTIALLY_FILLED"}
  BY DEF MarketData, Idle, meVars, omsVars, accountVars
<1>3. OneHandler'
  BY <1>2 DEF OneHandler, MEIdle, IsOpen
<1> QED
  BY <1>1, <1>2, <1>3, NothingTouched

\* The matching loop: what the trade takes off the book it adds to what is
\* pending, so no order is held for more or for less.
LEMMA MatchFunding ==
  ASSUME FundingInv, MatchStep
  PROVE  FundingInv' /\ \A o \in DOMAIN orders : HeldFor(o)' = HeldFor(o)
<1>1. PICK t : t = TopTrade(submission.symbol)
  OBVIOUS
<1>2. /\ Match /\ EngineInv /\ trades' = Append(trades, t)
      /\ UNCHANGED <<orders, locks, deleted, toFill, submission>>
  BY <1>1 DEF FundingInv, TradingInv, TradingOK, MatchStep, Match, omsVars, accountVars, appVars
<1>3. /\ t \in TradeRecords /\ t.symbol \in Symbols
      /\ bids[t.symbol] # <<>> /\ asks[t.symbol] # <<>>
      /\ t.buy = Head(bids[t.symbol]).order /\ t.sell = Head(asks[t.symbol]).order
      /\ t.price <= Head(bids[t.symbol]).price
      /\ RestingQty(bids[t.symbol], t.buy) = t.buyLeft + t.qty
      /\ RestingQty(asks[t.symbol], t.sell) = t.sellLeft + t.qty
      /\ \A z \in Symbols : \A x :
           /\ RestingQty(bids'[z], x) = IF z = t.symbol /\ x = t.buy THEN t.buyLeft
                                        ELSE RestingQty(bids[z], x)
           /\ RestingQty(asks'[z], x) = IF z = t.symbol /\ x = t.sell THEN t.sellLeft
                                        ELSE RestingQty(asks[z], x)
  BY <1>1, <1>2, MatchRests
<1>4. TradingInv'
  BY TradingNext DEF FundingInv, Next, Continue
<1>5. KeptIn(orders, orders')
  BY <1>2 DEF KeptIn
<1>6. /\ EntryFor(orders, t.symbol, "BUY", Head(bids[t.symbol]))
      /\ EntryFor(orders, t.symbol, "SELL", Head(asks[t.symbol]))
  <2>1. /\ Head(bids[t.symbol]) \in EntriesOn(bids[t.symbol])
        /\ Head(asks[t.symbol]) \in EntriesOn(asks[t.symbol])
    BY <1>2, <1>3, BookLists, HeadIsBest
  <2> QED
    BY <1>3, <2>1 DEF FundingInv, BookOfOrders, ListFor
<1>7. /\ t.buy \in DOMAIN orders /\ t.sell \in DOMAIN orders
      /\ orders[t.buy].ticket.side = "BUY" /\ orders[t.buy].ticket.symbol = t.symbol
      /\ orders[t.sell].ticket.side = "SELL" /\ orders[t.sell].ticket.symbol = t.symbol
      /\ t.price <= EffectivePrice(orders[t.buy].ticket)
  BY <1>3, <1>6 DEF EntryFor
<1>8. BookOfOrders'
  <2>1. ASSUME NEW z \in Symbols
        PROVE  /\ ListFor(orders', z, "BUY", bids'[z])
               /\ ListFor(orders', z, "SELL", asks'[z])
    <3>1. ListFor(orders, z, "BUY", bids[z]) /\ ListFor(orders, z, "SELL", asks[z])
      BY DEF FundingInv, BookOfOrders
    <3>2. /\ \A e \in EntriesOn(bids'[z]) : \E f \in EntriesOn(bids[z]) :
                e.order = f.order /\ e.price = f.price /\ e.time = f.time
          /\ \A e \in EntriesOn(asks'[z]) : \E f \in EntriesOn(asks[z]) :
                e.order = f.order /\ e.price = f.price /\ e.time = f.time
      BY <1>2, MatchEntries
    <3> QED
      BY <1>2, <3>1, <3>2 DEF ListFor, EntryFor
  <2>2. TradeFor(orders', t)
    BY <1>2, <1>7 DEF TradeFor
  <2>3. \A i \in 1..Len(trades') : trades'[i] = t \/ \E j \in 1..Len(trades) : trades'[i] = trades[j]
    BY <1>2, <1>3, AppendProperties DEF EngineInv, EngineOK, METypeOK
  <2>4. \A i \in 1..Len(trades') : TradeFor(orders', trades'[i])
    BY <1>2, <2>2, <2>3 DEF FundingInv, BookOfOrders
  <2> QED
    BY <2>1, <2>4 DEF BookOfOrders
<1>9. OneHandler'
  <2>1. toFill = {}
    BY <1>2 DEF FundingInv, OneHandler, MEIdle, Match
  <2> QED
    BY <1>2, <2>1 DEF OneHandler
<1>10. ASSUME NEW o \in DOMAIN orders
       PROVE  Chained(trades', o, Rest(o)') /\ HeldFor(o)' = HeldFor(o)
  <2>1. /\ trades \in Seq(TradeRecords) /\ Chained(trades, o, Rest(o)) /\ Rest(o) \in Nat
        /\ orders[o].ticket.symbol \in Symbols /\ orders[o].ticket.side \in Sides
    BY OrderFacts
  <2>2. PICK r \in Nat : r = Rest(o)
    BY <2>1
  <2>3. Chained(trades, o, r) /\ HeldFor(o) = Held(trades, o, r)
    BY <2>1, <2>2 DEF HeldFor
  <2>4. CASE o \notin PartiesOf(t)
    <3>1. Rest(o)' = r
      BY <1>2, <1>3, <2>1, <2>2, <2>4 DEF Rest, SideOf, PartiesOf
    <3>2. Chained(trades', o, r) /\ Held(trades', o, r) = Held(trades, o, r)
      BY <1>2, <1>3, <2>1, <2>3, <2>4, TradeAppended
    <3> QED
      BY <2>3, <3>1, <3>2 DEF HeldFor
  <2>5. CASE o \in PartiesOf(t)
    <3>1. Rest(o)' = LeftOf(t, o) /\ HeldAt(t, o) = r
      <4>1. CASE o = t.buy
        BY <1>2, <1>3, <1>7, <2>2, <4>1 DEF Rest, SideOf, LeftOf, HeldAt
      <4>2. CASE o = t.sell
        <5>1. t.buy # o
          BY <1>7, <4>2
        <5> QED
          BY <1>2, <1>3, <1>7, <2>2, <4>2, <5>1 DEF Rest, SideOf, LeftOf, HeldAt
      <4> QED
        BY <2>5, <4>1, <4>2 DEF PartiesOf
    <3>2. /\ Chained(trades', o, LeftOf(t, o))
          /\ Held(trades', o, LeftOf(t, o)) = Held(trades, o, r)
      BY <1>2, <1>3, <2>1, <2>3, <2>5, <3>1, TradeAppended
    <3> QED
      BY <2>3, <3>1, <3>2 DEF HeldFor
  <2> QED
    BY <2>4, <2>5
<1>11. OrdersMean'
  BY <1>2, <1>10, OrderFacts DEF OrdersMean
<1>12. OrdersFunded'
  BY <1>2, FundsStay DEF OrdersFunded
<1>13. LocksOfOrders'
  BY <1>2, <1>5, LocksStay
<1> QED
  BY <1>4, <1>8, <1>9, <1>10, <1>11, <1>12, <1>13 DEF FundingInv

LEMMA EndMatchFunding ==
  ASSUME FundingInv, EndMatchStep
  PROVE  FundingInv'
<1>1. TradingInv'
  BY TradingNext DEF FundingInv, Next, Continue
<1>2. /\ UNCHANGED <<bids, asks, trades, orders, locks, deleted, toFill>>
      /\ submission # NoSubmission
  BY DEF EndMatchStep, EndMatch, omsVars, accountVars, appVars
<1>3. OneHandler'
  BY <1>2 DEF FundingInv, OneHandler, MEIdle
<1> QED
  BY <1>1, <1>2, <1>3, NothingTouched

\* Handing a trade over: its parties are held for that much less.
LEMMA HandOverHeld ==
  ASSUME FundingInv, KeptIn(orders, orders'), UNCHANGED <<bids, asks>>,
         trades # <<>>, trades' = Tail(trades), NEW o \in DOMAIN orders
  PROVE  /\ Chained(trades', o, Rest(o)')
         /\ HeldFor(o)' = IF o \in PartiesOf(Head(trades)) THEN HeldFor(o) - Head(trades).qty
                          ELSE HeldFor(o)
<1>1. PICK r \in Nat : r = Rest(o)
  BY OrderFacts
<1>2. trades \in Seq(TradeRecords) /\ Chained(trades, o, r) /\ HeldFor(o) = Held(trades, o, r)
  BY <1>1, OrderFacts DEF HeldFor
<1>3. Rest(o)' = r
  BY <1>1, RestStays
<1>4. /\ Chained(trades', o, r)
      /\ Held(trades', o, r) = IF o \in PartiesOf(Head(trades))
                               THEN Held(trades, o, r) - Head(trades).qty
                               ELSE Held(trades, o, r)
  BY <1>2, TradeHandled
<1> QED
  BY <1>2, <1>3, <1>4 DEF HeldFor

\* The trades are forgotten: an order is held for what rests.
LEMMA ForgottenHeld ==
  ASSUME FundingInv, KeptIn(orders, orders'), UNCHANGED <<bids, asks>>,
         trades' = <<>>, NEW o \in DOMAIN orders
  PROVE  Chained(trades', o, Rest(o)') /\ HeldFor(o)' = Rest(o)
<1>1. Rest(o)' = Rest(o)
  BY RestStays
<1> QED
  BY <1>1, NothingPending DEF HeldFor

\* OMS refuses a trade exactly when one of its parties is no longer open.
LEMMA RaisesWhenClosed ==
  ASSUME FundingInv, trades # <<>>, NEW t, t = Head(trades), NEW o \in {t.buy, t.sell}
  PROVE  /\ o \in DOMAIN orders /\ orders[o] \in Orders
         /\ Rest(o) \in Nat /\ HeldFor(o) \in Nat /\ t.qty \in Nat \ {0}
         /\ Rest(o) <= HeldFor(o) - t.qty
         /\ OrderMeans(orders[o], HeldFor(o))
         /\ IsOpen(orders[o]) => t.qty <= Remaining(orders[o])
         /\ IsOpen(orders[o]) <=> ~FillRaises(orders[o], t.qty)
         /\ ~IsOpen(orders[o]) => orders[o].status = "FILLED"
<1>1. /\ o \in DOMAIN orders /\ t.qty \in Nat \ {0} /\ Rest(o) <= HeldFor(o) - t.qty
  BY PartyFacts
<1>2. /\ orders[o] \in Orders /\ OrderMeans(orders[o], HeldFor(o))
      /\ Rest(o) \in Nat /\ HeldFor(o) \in Nat
  BY <1>1, OrderFacts
<1>3. t.qty <= HeldFor(o)
  BY <1>1, <1>2
<1>4. /\ IsOpen(orders[o]) <=> ~FillRaises(orders[o], t.qty)
      /\ ~IsOpen(orders[o]) => orders[o].status = "FILLED"
  <2>1. PICK h \in Nat : h = HeldFor(o)
    BY <1>2
  <2> QED
    BY <1>1, <1>2, <1>3, <2>1, RaisesWhenFilled
<1>5. IsOpen(orders[o]) => t.qty <= Remaining(orders[o])
  <2>1. Remaining(orders[o]) \in Int
    BY <1>1, <1>2, FillEffect
  <2> QED
    BY <1>1, <1>2, <1>3, <2>1 DEF OrderMeans
<1> QED
  BY <1>1, <1>2, <1>4, <1>5

\* The lock records after a settlement: the buyer's gives the cost, the
\* seller's the shares, and goes when it has none left.
LEMMA SettleLocks ==
  ASSUME FundingInv, Settle, NEW t, t = Head(trades)
  PROVE  \E cost, mid :
           /\ cost \in Int /\ cost = t.price * t.qty
           /\ DOMAIN mid = DOMAIN locks /\ mid \in [DOMAIN mid -> Locks]
           /\ SameBut(locks, mid, t.buy) /\ SameBut(mid, locks', t.sell)
           /\ \A x \in DOMAIN locks :
                /\ mid[x].account = locks[x].account
                /\ mid[x].side = locks[x].side /\ mid[x].symbol = locks[x].symbol
                /\ mid[x].qty = locks[x].qty
                /\ mid[x].cash = IF x = t.buy THEN locks[x].cash - cost ELSE locks[x].cash
           /\ \A x : x \in DOMAIN locks' <=>
                      x \in DOMAIN mid /\ ~(x = t.sell /\ mid[x].qty - t.qty <= 0)
           /\ \A x \in DOMAIN locks' :
                /\ locks'[x].account = mid[x].account
                /\ locks'[x].side = mid[x].side /\ locks'[x].symbol = mid[x].symbol
                /\ locks'[x].cash = mid[x].cash
                /\ locks'[x].qty = IF x = t.sell THEN mid[x].qty - t.qty ELSE mid[x].qty
<1>1. /\ trades # <<>>
      /\ SettleTrade(orders[t.buy].account, orders[t.sell].account,
                     t.buy, t.sell, t.symbol, t.price, t.qty)
  BY DEF Settle, NextTrade
<1>2. /\ t.buy \in DOMAIN orders /\ t.sell \in DOMAIN orders
      /\ orders[t.buy].ticket.side = "BUY" /\ orders[t.sell].ticket.side = "SELL"
      /\ orders[t.buy] \in Orders
      /\ t.price \in Nat /\ t.qty \in Nat \ {0}
  BY <1>1, PartyFacts, OrderFacts
<1>3. /\ DOMAIN locks \subseteq OrderIds /\ locks \in [DOMAIN locks -> Locks]
      /\ DOMAIN locks \subseteq DOMAIN orders
      /\ \A x \in DOMAIN locks : FundedBy(orders[x], x, locks)
  BY DEF FundingInv, TradingInv, TradingOK, AccountTypeOK, LocksOfOrders, LockFor, OrdersFunded
<1>4. PICK cost \in Int : cost = t.price * t.qty
  BY <1>2
<1>5. PICK b, mid : b = t.buy /\ mid = ReduceLock(locks, b, cost, 0)
  OBVIOUS
<1>6. /\ DOMAIN mid = DOMAIN locks /\ SameBut(locks, mid, b)
      /\ \A x \in DOMAIN locks :
           /\ mid[x].account = locks[x].account
           /\ mid[x].side = locks[x].side /\ mid[x].symbol = locks[x].symbol
           /\ mid[x].qty = locks[x].qty
           /\ mid[x].cash = IF x = b THEN locks[x].cash - cost ELSE locks[x].cash
      /\ mid \in [DOMAIN mid -> Locks]
  <2>1. b \in DOMAIN locks => locks[b].qty > 0
    <3>1. orders[b].ticket.qty \in Nat \ {0}
      BY <1>2, <1>5 DEF Orders, TicketType
    <3> QED
      BY <1>2, <1>3, <1>5, <3>1 DEF FundedBy
  <2>2. mid \in [DOMAIN mid -> Locks]
    <3>1. PICK zero \in Int : zero = 0
      OBVIOUS
    <3>2. mid = ReduceLock(locks, b, cost, zero)
      BY <1>5, <3>1
    <3> QED
      BY <1>3, <3>2, ReduceLockType
  <2>3. /\ DOMAIN mid = DOMAIN locks /\ SameBut(locks, mid, b)
        /\ \A x \in DOMAIN locks :
             /\ mid[x].account = locks[x].account
             /\ mid[x].side = locks[x].side /\ mid[x].symbol = locks[x].symbol
             /\ mid[x].qty = locks[x].qty
             /\ mid[x].cash = IF x = b THEN locks[x].cash - cost ELSE locks[x].cash
    BY <1>3, <1>5, <2>1, ReduceBuyLock
  <2> QED
    BY <2>2, <2>3
<1>7. PICK q, s, M : q \in Int /\ q = t.qty /\ s = t.sell /\ M = ReduceLock(mid, s, 0, q)
  BY <1>2
<1>8. locks' = M
  BY <1>1, <1>4, <1>5, <1>7 DEF SettleTrade
<1>9. /\ SameBut(mid, M, s)
      /\ \A x : x \in DOMAIN M <=> x \in DOMAIN mid /\ ~(x = s /\ mid[x].qty - q <= 0)
      /\ \A x \in DOMAIN M :
           /\ M[x].cash = mid[x].cash /\ M[x].account = mid[x].account
           /\ M[x].side = mid[x].side /\ M[x].symbol = mid[x].symbol
           /\ M[x].qty = IF x = s THEN mid[x].qty - q ELSE mid[x].qty
  <2>1. s \in DOMAIN mid => mid[s].cash = 0
    <3>1. s \in DOMAIN mid => s # b /\ locks[s].cash = 0
      BY <1>2, <1>3, <1>5, <1>6, <1>7 DEF FundedBy
    <3> QED
      BY <1>6, <3>1
  <2>2. DOMAIN mid \subseteq OrderIds
    BY <1>3, <1>6
  <2> QED
    BY <1>6, <1>7, <2>1, <2>2, ReduceSellLock
<1>10. /\ SameBut(locks, mid, t.buy) /\ SameBut(mid, locks', t.sell)
       /\ \A x \in DOMAIN locks :
            mid[x].cash = IF x = t.buy THEN locks[x].cash - cost ELSE locks[x].cash
  BY <1>5, <1>6, <1>7, <1>8, <1>9
<1>11. \A x : x \in DOMAIN locks' <=>
                 x \in DOMAIN mid /\ ~(x = t.sell /\ mid[x].qty - t.qty <= 0)
  BY <1>7, <1>8, <1>9
<1>12. \A x \in DOMAIN locks' :
         /\ locks'[x].account = mid[x].account
         /\ locks'[x].side = mid[x].side /\ locks'[x].symbol = mid[x].symbol
         /\ locks'[x].cash = mid[x].cash
         /\ locks'[x].qty = IF x = t.sell THEN mid[x].qty - t.qty ELSE mid[x].qty
  BY <1>7, <1>8, <1>9
<1> WITNESS cost, mid
<1> QED
  BY <1>4, <1>6, <1>10, <1>11, <1>12

\* One settlement: OMS fills both parties, the accounts pay and deliver out of
\* what the two lock records set aside.
LEMMA SettleFunding ==
  ASSUME FundingInv, Settle
  PROVE  /\ FundingInv'
         /\ DOMAIN orders' = DOMAIN orders
         /\ \A o \in DOMAIN orders :
              IF o \in PartiesOf(Head(trades))
              THEN /\ IsOpen(orders[o]) /\ orders'[o] = Fill(orders[o], Head(trades).qty)
                   /\ HeldFor(o)' = HeldFor(o) - Head(trades).qty
              ELSE orders'[o] = orders[o] /\ HeldFor(o)' = HeldFor(o)
<1>1. PICK t : t = Head(trades)
  OBVIOUS
<1>2. /\ trades # <<>> /\ trades' = Tail(trades) /\ submission = NoSubmission
      /\ UNCHANGED <<bids, asks, seen, submission, deleted, toFill>>
      /\ ~TradeRaises(t.buy, t.sell, t.qty) /\ FillBoth(t.buy, t.sell, t.qty)
      /\ SettleTrade(orders[t.buy].account, orders[t.sell].account,
                     t.buy, t.sell, t.symbol, t.price, t.qty)
  BY <1>1 DEF Settle, NextTrade, appVars
<1>3. /\ t.buy \in DOMAIN orders /\ t.sell \in DOMAIN orders /\ t.buy # t.sell
      /\ orders[t.buy].ticket.side = "BUY" /\ orders[t.sell].ticket.side = "SELL"
      /\ t.price \in Nat /\ t.price <= EffectivePrice(orders[t.buy].ticket)
      /\ t.qty \in Nat \ {0}
  BY <1>1, <1>2, PartyFacts
<1>4. \A o \in {t.buy, t.sell} :
        /\ IsOpen(orders[o]) /\ t.qty <= Remaining(orders[o]) /\ orders[o] \in Orders
        /\ Rest(o) \in Nat /\ HeldFor(o) \in Nat /\ Rest(o) <= HeldFor(o) - t.qty
        /\ OrderMeans(orders[o], HeldFor(o))
  BY <1>1, <1>2, RaisesWhenClosed DEF TradeRaises
<1>5. /\ DOMAIN orders' = DOMAIN orders
      /\ \A x \in DOMAIN orders \ {t.buy, t.sell} : orders'[x] = orders[x]
      /\ \A x \in {t.buy, t.sell} : orders'[x] = Fill(orders[x], t.qty)
      /\ KeptIn(orders, orders')
  BY <1>2, <1>3, FillBothEffect DEF FundingInv, TradingInv, TradingOK
<1>6. TradingInv'
  BY TradingNext DEF FundingInv, Next, Continue
<1>7. BookOfOrders'
  <2>1. \A i \in 1..Len(trades') : \E j \in 1..Len(trades) : trades'[i] = trades[j]
    <3>1. trades \in Seq(TradeRecords)
      BY DEF FundingInv, TradingInv, TradingOK, EngineInv, EngineOK, METypeOK
    <3>2. \A i \in 1..Len(trades') : i+1 \in 1..Len(trades) /\ trades'[i] = trades[i+1]
      BY <1>2, <3>1, HeadTailProperties, LenProperties
    <3> QED
      BY <3>2
  <2> QED
    BY <1>2, <1>5, <2>1, BooksStay DEF FundingInv
<1>8. OneHandler'
  <2>1. toFill = {}
    BY <1>2 DEF FundingInv, OneHandler, MEIdle
  <2> QED
    BY <1>2, <2>1 DEF OneHandler
<1>9. ASSUME NEW o \in DOMAIN orders
      PROVE  /\ Chained(trades', o, Rest(o)') /\ OrderMeans(orders'[o], HeldFor(o)')
             /\ HeldFor(o)' = IF o \in {t.buy, t.sell} THEN HeldFor(o) - t.qty ELSE HeldFor(o)
  <2>1. /\ Chained(trades', o, Rest(o)')
        /\ HeldFor(o)' = IF o \in {t.buy, t.sell} THEN HeldFor(o) - t.qty ELSE HeldFor(o)
    BY <1>1, <1>2, <1>5, HandOverHeld DEF PartiesOf
  <2>2. CASE o \in {t.buy, t.sell}
    <3>1. PICK h \in Nat, left \in Nat : h = HeldFor(o) /\ left = h - t.qty
      BY <1>3, <1>4, <2>2
    <3>2. OrderMeans(Fill(orders[o], t.qty), left)
      BY <1>3, <1>4, <2>2, <3>1, FillMeans
    <3> QED
      BY <1>5, <2>1, <2>2, <3>1, <3>2
  <2>3. CASE o \notin {t.buy, t.sell}
    BY <1>5, <2>1, <2>3, OrderFacts
  <2> QED
    BY <2>2, <2>3
<1>10. OrdersMean'
  BY <1>5, <1>9 DEF OrdersMean
<1>11. /\ locks \in [DOMAIN locks -> Locks]
       /\ \A x \in DOMAIN locks : FundedBy(orders[x], x, locks)
  BY DEF FundingInv, TradingInv, TradingOK, AccountTypeOK, LocksOfOrders, LockFor, OrdersFunded
<1>12. PICK cost, mid :
         /\ cost \in Int /\ cost = t.price * t.qty
         /\ DOMAIN mid = DOMAIN locks
         /\ \A x \in DOMAIN locks :
              /\ mid[x].account = locks[x].account /\ mid[x].qty = locks[x].qty
              /\ mid[x].cash = IF x = t.buy THEN locks[x].cash - cost ELSE locks[x].cash
         /\ \A x : x \in DOMAIN locks' <=>
                    x \in DOMAIN mid /\ ~(x = t.sell /\ mid[x].qty - t.qty <= 0)
         /\ \A x \in DOMAIN locks' :
              /\ locks'[x].cash = mid[x].cash /\ locks'[x].account = mid[x].account
              /\ locks'[x].qty = IF x = t.sell THEN mid[x].qty - t.qty ELSE mid[x].qty
  BY <1>1, SettleLocks
<1>13. OrdersFunded'
  <2> SUFFICES ASSUME NEW o \in DOMAIN orders, orders[o].account \in Users
               PROVE  FundedBy(orders'[o], o, locks')
    BY <1>2, <1>5 DEF OrdersFunded, KeptIn, Users
  <2>1. FundedBy(orders[o], o, locks)
    BY DEF FundingInv, OrdersFunded
  <2>2. CASE o = t.buy
    <3>1. o \in DOMAIN locks
      BY <1>3, <1>4, <2>1, <2>2 DEF FundedBy
    <3>2. locks[o] \in Locks /\ locks[o].cash \in Int
      BY <1>11, <3>1 DEF Locks
    <3>3. /\ o \in DOMAIN locks' /\ locks'[o].qty = locks[o].qty
          /\ locks'[o].cash = locks[o].cash - t.price * t.qty
      BY <1>3, <1>12, <2>2, <3>1
    <3>4. FundedBy(Fill(orders[o], t.qty), o, locks')
      BY <1>3, <1>4, <2>1, <2>2, <3>2, <3>3, FundedWhenBought
    <3> QED
      BY <1>5, <2>2, <3>4
  <2>3. CASE o = t.sell
    <3>1. o \in DOMAIN locks
      BY <1>3, <1>4, <2>1, <2>3 DEF FundedBy
    <3>2. /\ o \in DOMAIN locks' <=> ~(locks[o].qty - t.qty <= 0)
          /\ o \in DOMAIN locks' => /\ locks'[o].cash = locks[o].cash
                                    /\ locks'[o].qty = locks[o].qty - t.qty
      BY <1>3, <1>12, <2>3, <3>1
    <3>3. FundedBy(Fill(orders[o], t.qty), o, locks')
      BY <1>3, <1>4, <2>1, <2>3, <3>2, FundedWhenSold
    <3> QED
      BY <1>5, <2>3, <3>3
  <2>4. CASE o \notin {t.buy, t.sell}
    <3>1. /\ o \in DOMAIN locks <=> o \in DOMAIN locks'
          /\ o \in DOMAIN locks => /\ locks'[o].qty = locks[o].qty
                                   /\ locks'[o].cash = locks[o].cash
      BY <1>12, <2>4
    <3> QED
      BY <1>5, <2>1, <2>4, <3>1, FundedBySameLock
  <2> QED
    BY <2>2, <2>3, <2>4
<1>14. LocksOfOrders'
  BY <1>2, <1>5, <1>12, LocksStay
<1>15. \A o \in DOMAIN orders :
         IF o \in PartiesOf(t)
         THEN /\ IsOpen(orders[o]) /\ orders'[o] = Fill(orders[o], t.qty)
              /\ HeldFor(o)' = HeldFor(o) - t.qty
         ELSE orders'[o] = orders[o] /\ HeldFor(o)' = HeldFor(o)
  BY <1>4, <1>5, <1>9 DEF PartiesOf
<1> QED
  BY <1>1, <1>5, <1>6, <1>7, <1>8, <1>10, <1>13, <1>14, <1>15 DEF FundingInv

\* OMS refuses the trade: the lock records stay, and so does what they are for.
\* A buyer that was still open has shares it did not pay for, and needs less.
LEMMA SettleRaisesFunding ==
  ASSUME FundingInv, SettleRaises
  PROVE  /\ FundingInv'
         /\ ~IsOpen(orders[Head(trades).buy]) \/ ~IsOpen(orders[Head(trades).sell])
<1>1. PICK t : t = Head(trades)
  OBVIOUS
<1>2. /\ trades # <<>> /\ trades' = <<>> /\ submission = NoSubmission
      /\ UNCHANGED <<bids, asks, submission, locks, deleted, toFill>>
      /\ TradeRaises(t.buy, t.sell, t.qty) /\ FillBothRaising(t.buy, t.sell, t.qty)
  BY <1>1 DEF SettleRaises, accountVars, appVars
<1>3. /\ t.buy \in DOMAIN orders /\ t.sell \in DOMAIN orders /\ t.buy # t.sell
      /\ orders[t.buy].ticket.side = "BUY"
      /\ t.qty \in Nat \ {0}
  BY <1>1, <1>2, PartyFacts
<1>4. \A o \in {t.buy, t.sell} :
        /\ orders[o] \in Orders
        /\ Rest(o) \in Nat /\ HeldFor(o) \in Nat /\ Rest(o) <= HeldFor(o) - t.qty
        /\ OrderMeans(orders[o], HeldFor(o))
        /\ IsOpen(orders[o]) <=> ~FillRaises(orders[o], t.qty)
        /\ ~IsOpen(orders[o]) => orders[o].status = "FILLED"
  BY <1>1, <1>2, RaisesWhenClosed
<1>5. /\ DOMAIN orders' = DOMAIN orders
      /\ \A x \in DOMAIN orders \ {t.buy, t.sell} : orders'[x] = orders[x]
      /\ IF FillRaises(orders[t.buy], t.qty)
         THEN orders'[t.buy] = AddFill(orders[t.buy], t.qty) /\ orders'[t.sell] = orders[t.sell]
         ELSE /\ orders'[t.buy] = Fill(orders[t.buy], t.qty)
              /\ orders'[t.sell] = AddFill(orders[t.sell], t.qty)
      /\ KeptIn(orders, orders')
  BY <1>2, <1>3, FillBothEffect DEF FundingInv, TradingInv, TradingOK
<1>6. TradingInv'
  BY TradingNext DEF FundingInv, Next, Continue
<1>7. BookOfOrders'
  BY <1>2, <1>5, BooksStay DEF FundingInv
<1>8. OneHandler'
  <2>1. toFill = {}
    BY <1>2 DEF FundingInv, OneHandler, MEIdle
  <2> QED
    BY <1>2, <2>1 DEF OneHandler
\* What happened to an order: nothing, a fill while it was open, or a quantity
\* added after it was FILLED.
<1>9. ASSUME NEW o \in DOMAIN orders
      PROVE  \/ orders'[o] = orders[o]
             \/ o = t.buy /\ IsOpen(orders[o]) /\ orders'[o] = Fill(orders[o], t.qty)
             \/ /\ o \in {t.buy, t.sell} /\ ~IsOpen(orders[o])
                /\ orders[o].status = "FILLED" /\ orders'[o] = AddFill(orders[o], t.qty)
  <2>1. CASE FillRaises(orders[t.buy], t.qty)
    BY <1>4, <1>5, <2>1
  <2>2. CASE ~FillRaises(orders[t.buy], t.qty)
    <3>1. FillRaises(orders[t.sell], t.qty)
      BY <1>2, <2>2 DEF TradeRaises
    <3> QED
      BY <1>4, <1>5, <2>2, <3>1
  <2> QED
    BY <2>1, <2>2
<1>10. ASSUME NEW o \in DOMAIN orders
       PROVE  Chained(trades', o, Rest(o)') /\ OrderMeans(orders'[o], HeldFor(o)')
  <2>1. Chained(trades', o, Rest(o)') /\ HeldFor(o)' = Rest(o)
    BY <1>2, <1>5, ForgottenHeld
  <2>2. /\ orders[o] \in Orders /\ OrderMeans(orders[o], HeldFor(o))
        /\ Rest(o) \in Nat /\ HeldFor(o) \in Nat /\ Rest(o) <= HeldFor(o)
    BY OrderFacts
  <2>3. PICK h \in Nat, left \in Nat : h = HeldFor(o) /\ left = Rest(o)
    BY <2>2
  <2>4. CASE orders'[o] = orders[o]
    <3>1. OrderMeans(orders[o], left)
      BY <2>2, <2>3, FillEffect DEF OrderMeans
    <3> QED
      BY <2>1, <2>3, <2>4, <3>1
  <2>5. CASE o = t.buy /\ IsOpen(orders[o]) /\ orders'[o] = Fill(orders[o], t.qty)
    <3>1. left <= h - t.qty
      BY <1>4, <2>3, <2>5
    <3>2. OrderMeans(Fill(orders[o], t.qty), left)
      BY <1>3, <2>2, <2>3, <2>5, <3>1, FillMeans
    <3> QED
      BY <2>1, <2>3, <2>5, <3>2
  <2>6. CASE orders[o].status = "FILLED" /\ orders'[o] = AddFill(orders[o], t.qty)
    <3>1. OrderMeans(AddFill(orders[o], t.qty), left)
      BY <1>3, <2>2, <2>3, <2>6, AddFillMeans
    <3> QED
      BY <2>1, <2>3, <2>6, <3>1
  <2> QED
    BY <1>9, <2>4, <2>5, <2>6
<1>11. OrdersMean'
  BY <1>5, <1>10 DEF OrdersMean
<1>12. OrdersFunded'
  <2> SUFFICES ASSUME NEW o \in DOMAIN orders, orders[o].account \in Users
               PROVE  FundedBy(orders'[o], o, locks)
    BY <1>2, <1>5 DEF OrdersFunded, KeptIn, Users
  <2>1. FundedBy(orders[o], o, locks) /\ orders[o] \in Orders
    BY OrderFacts DEF FundingInv, OrdersFunded
  <2>2. CASE o = t.buy /\ IsOpen(orders[o]) /\ orders'[o] = Fill(orders[o], t.qty)
    <3>1. o \in DOMAIN locks
      BY <1>3, <2>1, <2>2 DEF FundedBy
    <3>2. locks[o].cash \in Int
      BY <3>1 DEF FundingInv, TradingInv, TradingOK, AccountTypeOK, Locks
    <3>3. locks[o].cash = locks[o].cash - 0 * t.qty
      BY <1>3, <3>2
    <3>4. 0 \in Nat /\ 0 <= EffectivePrice(orders[o].ticket)
      <4>1. orders[o].ticket \in TicketType
        BY <2>1 DEF Orders
      <4> QED
        BY <4>1, TradingAssumption DEF EffectivePrice, TicketType
    <3>5. FundedBy(Fill(orders[o], t.qty), o, locks)
      BY <1>3, <2>1, <2>2, <3>1, <3>2, <3>3, <3>4, FundedWhenBought
    <3> QED
      BY <2>2, <3>5
  <2>3. CASE ~IsOpen(orders[o]) /\ orders'[o] = AddFill(orders[o], t.qty)
    <3>1. FundedBy(AddFill(orders[o], t.qty), o, locks)
      BY <1>3, <2>1, <2>3, FundedWhenRaised
    <3> QED
      BY <2>3, <3>1
  <2> QED
    BY <1>9, <2>1, <2>2, <2>3
<1>13. LocksOfOrders'
  BY <1>2, <1>5, LocksStay
<1>14. ~IsOpen(orders[t.buy]) \/ ~IsOpen(orders[t.sell])
  BY <1>2, <1>4 DEF TradeRaises
<1> QED
  BY <1>1, <1>6, <1>7, <1>8, <1>11, <1>12, <1>13, <1>14 DEF FundingInv

\* Engine A fills what remains of an order and drops its lock record.
LEMMA FillAtMarketFunding ==
  ASSUME FundingInv, NEW o \in OrderIds, FillAtMarket(o)
  PROVE  /\ FundingInv'
         /\ o \in DOMAIN orders /\ IsOpen(orders[o])
         /\ orders'[o].status = "FILLED" /\ Remaining(orders'[o]) = 0
         /\ \A x \in DOMAIN orders \ {o} : orders'[x] = orders[x]
<1>1. /\ o \in DOMAIN orders /\ IsOpen(orders[o]) /\ MEIdle
      /\ FillFromMarket(o, Remaining(orders[o])) /\ locks' = Drop(locks, o)
      /\ toFill' = toFill \ {o}
      /\ UNCHANGED <<bids, asks, trades, submission, deleted>>
  <2>1. o \in toFill
    BY DEF FillAtMarket
  <2> QED
    BY <2>1 DEF FillAtMarket, SettleMarketTrade, FundingInv, TradingInv, TradingOK, AppTypeOK,
                OneHandler, meVars
<1>2. Remaining(orders[o]) > 0
  BY <1>1, OrderFacts DEF OrderMeans
<1>3. /\ DOMAIN orders' = DOMAIN orders
      /\ \A x \in DOMAIN orders \ {o} : orders'[x] = orders[x]
      /\ orders'[o].status = "FILLED" /\ Remaining(orders'[o]) = 0
      /\ KeptIn(orders, orders')
  BY <1>1, <1>2, FillFromMarketEffect DEF FundingInv, TradingInv, TradingOK
<1>4. TradingInv'
  BY TradingNext DEF FundingInv, Next, Continue
<1>5. BookOfOrders'
  BY <1>1, <1>3, BooksStay DEF FundingInv
<1>6. OneHandler'
  BY <1>1, <1>3 DEF FundingInv, TradingInv, TradingOK, AppTypeOK, OneHandler, MEIdle
<1>7. Chained(trades', o, Rest(o)') /\ OrderMeans(orders'[o], HeldFor(o)')
  <2>1. Rest(o)' = Rest(o)
    BY <1>1, <1>3, RestStays
  <2>2. Chained(trades', o, Rest(o)')
    BY <1>1, <2>1, OrderFacts
  <2>3. OrderMeans(orders'[o], HeldFor(o)')
    BY <1>3 DEF OrderMeans, IsOpen
  <2> QED
    BY <2>2, <2>3
<1>8. OrdersMean'
  BY <1>1, <1>3, <1>7, MeansStays DEF OrdersMean
<1>9. /\ DOMAIN locks' = DOMAIN locks \ {o}
      /\ \A x \in DOMAIN locks' : locks'[x] = locks[x]
  <2>1. DOMAIN locks \subseteq OrderIds /\ locks \in [DOMAIN locks -> Locks]
    BY DEF FundingInv, TradingInv, TradingOK, AccountTypeOK
  <2>2. /\ DOMAIN Drop(locks, o) = DOMAIN locks \ {o}
        /\ \A x \in DOMAIN locks \ {o} : Drop(locks, o)[x] = locks[x]
    BY <2>1, DropProperties
  <2> QED
    BY <1>1, <2>2
<1>10. OrdersFunded'
  <2>1. FundedBy(orders'[o], o, locks')
    BY <1>3, <1>9 DEF FundedBy, IsOpen
  <2>2. ASSUME NEW x \in DOMAIN orders \ {o}
        PROVE  orders'[x].account \in Users' => FundedBy(orders'[x], x, locks')
    BY <1>1, <1>3, <1>9, FundsStay
  <2> QED
    BY <1>3, <2>1, <2>2 DEF OrdersFunded
<1>11. LocksOfOrders'
  BY <1>1, <1>3, <1>9, LocksStay
<1> QED
  BY <1>1, <1>3, <1>4, <1>5, <1>6, <1>8, <1>10, <1>11 DEF FundingInv

LEMMA FundingNext == ASSUME FundingInv, [Next]_vars PROVE FundingInv'
<1>1. CASE Handlers
  BY <1>1, PlaceRejectedFunding, PlaceAcceptedFunding, CancelFunding, DepositFunding,
     SetEngineModeFunding, DeleteUserFunding, MarketDataFunding DEF Handlers
<1>2. CASE Continue
  BY <1>2, MatchFunding, EndMatchFunding, SettleFunding, SettleRaisesFunding,
     FillAtMarketFunding DEF Continue
<1>3. CASE UNCHANGED vars
  <2>1. TradingInv'
    BY <1>3, TradingNext DEF FundingInv
  <2>2. UNCHANGED <<bids, asks, trades, orders, locks, deleted, submission, toFill>>
    BY <1>3 DEF vars, meVars, omsVars, accountVars, appVars
  <2>3. OneHandler'
    BY <2>2 DEF FundingInv, OneHandler, MEIdle
  <2> QED
    BY <2>1, <2>2, <2>3, NothingTouched
<1> QED
  BY <1>1, <1>2, <1>3 DEF Next

\* The books, the pending trades, the orders and the lock records agree in
\* every state, in both engine modes, across switches, deletions and refused
\* settlements.
THEOREM FundingInvariant == Spec => []FundingInv
<1>1. Init => FundingInv
  BY FundingInit
<1>2. FundingInv /\ [Next]_vars => FundingInv'
  BY FundingNext
<1> QED
  BY <1>1, <1>2, PTL DEF Spec

LEMMA FundingInvImplies == FundingInv => OpenOrdersAreFunded
<1> SUFFICES ASSUME FundingInv, NEW o \in DOMAIN orders, orders[o].account \in Users
             PROVE  IF IsOpen(orders[o])
                    THEN /\ HasLock(o)
                         /\ IF orders[o].ticket.side = "BUY"
                            THEN orders[o].ticket.type = "LIMIT" =>
                                   locks[o].cash >= orders[o].ticket.price * Remaining(orders[o])
                            ELSE locks[o].qty = Remaining(orders[o])
                    ELSE HasLock(o) => /\ orders[o].ticket.side = "BUY"
                                       /\ orders[o].status = "FILLED"
  BY DEF OpenOrdersAreFunded
<1>1. FundedBy(orders[o], o, locks)
  BY DEF FundingInv, OrdersFunded
<1> QED
  BY <1>1 DEF FundedBy, HasLock

\* While an order of an existing user is open, its lock record covers what it
\* can still cost, whatever the engines, the cancels and the refused
\* settlements did: no settlement draws on what was not set aside.
THEOREM OrdersStayFunded == Spec => []OpenOrdersAreFunded
BY FundingInvariant, FundingInvImplies, PTL

-----------------------------------------------------------------------------
(* Price-time priority between orders *)

\* Only the matching loop adds a trade.
LEMMA TradesOnlyFromMatch ==
  ASSUME FundingInv, [Next]_vars, Len(trades') > Len(trades)
  PROVE  MatchStep
<1>1. trades \in Seq(TradeRecords) /\ Len(trades) \in Nat
  BY LenProperties DEF FundingInv, TradingInv, TradingOK, EngineInv, EngineOK, METypeOK
<1>2. trades' # trades /\ trades' # <<>> /\ (trades # <<>> => trades' # Tail(trades))
  BY <1>1, HeadTailProperties, LenProperties, EmptySeq
<1>3. CASE Handlers
  BY <1>2, <1>3 DEF Handlers, PlaceRejected, PlaceAccepted, Cancel, Deposit, Withdraw,
     SetEngineMode, DeleteUser, MarketData, SubmitOrder, CancelInBook, meVars
<1>4. CASE Continue
  BY <1>2, <1>4 DEF Continue, EndMatchStep, EndMatch, Settle, NextTrade, SettleRaises,
     FillAtMarket, meVars
<1>5. CASE UNCHANGED vars
  BY <1>2, <1>5 DEF vars, meVars
<1> QED
  BY <1>3, <1>4, <1>5 DEF Next

\* An order that rests on its side of the book does not outrank the head.
LEMMA NobodyOvertaken ==
  ASSUME FundingInv, NEW s \in Symbols, NEW side \in Sides,
         NEW list, list = (IF side = "BUY" THEN bids[s] ELSE asks[s]), list # <<>>,
         NEW o \in DOMAIN orders, orders[o].ticket.symbol = s,
         orders[o].ticket.side = side, Rests(SideOf(orders[o].ticket), o),
         NEW h, h = Head(list).order
  PROVE  ~Outranks(side,
           [price |-> EffectivePrice(orders[o].ticket), time |-> orders[o].created],
           [price |-> EffectivePrice(orders[h].ticket), time |-> orders[h].created])
<1>1. /\ list \in Seq(Entries) /\ Sorted(side, list) /\ ListFor(orders, s, side, list)
  BY BookLists DEF FundingInv, TradingInv, TradingOK, BookOfOrders, Sides
<1>2. SideOf(orders[o].ticket) = list
  BY DEF SideOf, Sides
<1>3. PICK i \in 1..Len(list) : list[i].order = o
  BY <1>1, <1>2, LenProperties DEF Rests
<1>4. PICK e : e = list[i]
  OBVIOUS
<1>5. PICK head : head = Head(list)
  OBVIOUS
<1>6. e \in EntriesOn(list) /\ e.order = o
  BY <1>3, <1>4 DEF EntriesOn
<1>7. head \in EntriesOn(list) /\ ~Outranks(side, e, head)
  BY <1>1, <1>5, <1>6, HeadIsBest
<1>8. /\ head.order \in DOMAIN orders
      /\ orders[head.order].ticket.side = side
      /\ head.price = EffectivePrice(orders[head.order].ticket)
      /\ head.time = orders[head.order].created
      /\ e.price = EffectivePrice(orders[o].ticket) /\ e.time = orders[o].created
  BY <1>1, <1>6, <1>7 DEF ListFor, EntryFor
<1>9. ~Outranks(side,
         [price |-> EffectivePrice(orders[o].ticket), time |-> orders[o].created],
         [price |-> EffectivePrice(orders[head.order].ticket),
          time |-> orders[head.order].created])
  BY <1>7, <1>8 DEF Outranks
<1> QED
  BY <1>5, <1>8, <1>9

\* When a trade is made, no order resting on the same side of the same book had
\* a better price, or the same price and an earlier placement: the entries are
\* the orders' own prices and times, and the loop takes the head of a sorted
\* list.
THEOREM OrdersMatchInPriority == Spec => PriceTimePriority
<1>1. ASSUME FundingInv, [Next]_vars, Len(trades') > Len(trades),
             NEW t, t = trades'[Len(trades')], NEW o \in DOMAIN orders,
             NEW x \in {t.buy, t.sell},
             orders[o].ticket.side = orders[x].ticket.side,
             orders[o].ticket.symbol = orders[x].ticket.symbol,
             Rests(SideOf(orders[o].ticket), o),
             Outranks(orders[x].ticket.side,
               [price |-> EffectivePrice(orders[o].ticket), time |-> orders[o].created],
               [price |-> EffectivePrice(orders[x].ticket), time |-> orders[x].created])
      PROVE  FALSE
  <2>1. Match /\ EngineInv
    BY <1>1, TradesOnlyFromMatch DEF MatchStep, FundingInv, TradingInv, TradingOK
  <2>2. PICK made : made = TopTrade(submission.symbol)
    OBVIOUS
  <2>3. /\ made \in TradeRecords /\ made.symbol \in Symbols
        /\ bids[made.symbol] # <<>> /\ asks[made.symbol] # <<>>
        /\ made.buy = Head(bids[made.symbol]).order
        /\ made.sell = Head(asks[made.symbol]).order
    BY <2>1, <2>2, MatchRests
  <2>4. t = made
    <3>1. trades' = Append(trades, made) /\ trades \in Seq(TradeRecords)
      BY <2>1, <2>2 DEF Match, EngineInv, EngineOK, METypeOK
    <3> QED
      BY <1>1, <2>3, <3>1, AppendProperties
  <2>5. /\ EntryFor(orders, t.symbol, "BUY", Head(bids[t.symbol]))
        /\ EntryFor(orders, t.symbol, "SELL", Head(asks[t.symbol]))
    <3>1. /\ Head(bids[t.symbol]) \in EntriesOn(bids[t.symbol])
          /\ Head(asks[t.symbol]) \in EntriesOn(asks[t.symbol])
      BY <2>1, <2>3, <2>4, BookLists, HeadIsBest
    <3> QED
      BY <1>1, <2>3, <2>4, <3>1 DEF FundingInv, BookOfOrders, ListFor
  <2>6. CASE x = t.buy
    <3>1. orders[x].ticket.side = "BUY" /\ orders[x].ticket.symbol = t.symbol
      BY <2>3, <2>4, <2>5, <2>6 DEF EntryFor
    <3>2. PICK s, list : s \in Symbols /\ s = t.symbol /\ list = bids[t.symbol]
      <4>1. t.symbol \in Symbols
        BY <2>3, <2>4
      <4> QED
        BY <4>1
    <3>3. /\ list = (IF "BUY" = "BUY" THEN bids[s] ELSE asks[s])
          /\ list # <<>> /\ x = Head(list).order
      BY <2>3, <2>4, <2>6, <3>2
    <3>4. /\ orders[o].ticket.symbol = s /\ orders[o].ticket.side = "BUY"
          /\ orders[x].ticket.side = "BUY" /\ "BUY" \in Sides
      BY <1>1, <3>1, <3>2 DEF Sides
    <3>5. ~Outranks("BUY",
             [price |-> EffectivePrice(orders[o].ticket), time |-> orders[o].created],
             [price |-> EffectivePrice(orders[x].ticket), time |-> orders[x].created])
      BY <1>1, <3>2, <3>3, <3>4, NobodyOvertaken
    <3> QED
      BY <1>1, <3>4, <3>5
  <2>7. CASE x = t.sell
    <3>1. orders[x].ticket.side = "SELL" /\ orders[x].ticket.symbol = t.symbol
      BY <2>3, <2>4, <2>5, <2>7 DEF EntryFor
    <3>2. PICK s, list : s \in Symbols /\ s = t.symbol /\ list = asks[t.symbol]
      <4>1. t.symbol \in Symbols
        BY <2>3, <2>4
      <4> QED
        BY <4>1
    <3>3. /\ list = (IF "SELL" = "BUY" THEN bids[s] ELSE asks[s])
          /\ list # <<>> /\ x = Head(list).order
      BY <2>3, <2>4, <2>7, <3>2
    <3>4. /\ orders[o].ticket.symbol = s /\ orders[o].ticket.side = "SELL"
          /\ orders[x].ticket.side = "SELL" /\ "SELL" \in Sides
      BY <1>1, <3>1, <3>2 DEF Sides
    <3>5. ~Outranks("SELL",
             [price |-> EffectivePrice(orders[o].ticket), time |-> orders[o].created],
             [price |-> EffectivePrice(orders[x].ticket), time |-> orders[x].created])
      BY <1>1, <3>2, <3>3, <3>4, NobodyOvertaken
    <3> QED
      BY <1>1, <3>4, <3>5
  <2> QED
    BY <1>1, <2>6, <2>7
<1>2. FundingInv /\ [Next]_vars =>
        (Len(trades') > Len(trades) =>
          LET t == trades'[Len(trades')]
              Overtaken(o, x) ==
                /\ orders[o].ticket.side = orders[x].ticket.side
                /\ orders[o].ticket.symbol = orders[x].ticket.symbol
                /\ IsOpen(orders[o])
                /\ Rests(SideOf(orders[o].ticket), o)
                /\ Outranks(orders[x].ticket.side,
                     [price |-> EffectivePrice(orders[o].ticket), time |-> orders[o].created],
                     [price |-> EffectivePrice(orders[x].ticket), time |-> orders[x].created])
          IN  \A o \in DOMAIN orders : ~Overtaken(o, t.buy) /\ ~Overtaken(o, t.sell))
  BY <1>1
<1> QED
  BY <1>2, FundingInvariant, PTL DEF PriceTimePriority, Spec

-----------------------------------------------------------------------------
(* One engine: nobody switches.  A switch strands what one engine holds     *)
(* where the other does not look, so these are the promises of a process   *)
(* that keeps the engine it started with.                                  *)

OneEngineSpec == Init /\ [][Next /\ engineMode' = engineMode]_vars

FilledExactly ==
  \A o \in DOMAIN orders : orders[o].status = "FILLED" => Remaining(orders[o]) = 0

\* Engine B holds of every order exactly what remains of it.
HeldAsOpen ==
  \A o \in DOMAIN orders :
    HeldFor(o) = IF IsOpen(orders[o]) THEN Remaining(orders[o]) ELSE 0

\* Engine B has never been called, and no order waits that the latest quote
\* would fill but those of the scan that is running.
OnlyEngineA ==
  /\ seen = {} /\ submission = NoSubmission /\ trades = <<>>
  /\ \A o \in DOMAIN orders :
       /\ IsOpen(orders[o])
       /\ Marketable(orders[o].ticket, quotes[orders[o].ticket.symbol])
       => o \in toFill

OneEngineInv ==
  /\ FundingInv
  /\ FilledExactly
  /\ engineMode = "B" => toFill = {} /\ HeldAsOpen
  /\ engineMode = "A" => OnlyEngineA

\* A step that touches neither an order nor what is held of it.
LEMMA OrdersUntouched ==
  ASSUME OneEngineInv, FundingInv', engineMode' = engineMode,
         DOMAIN orders' = DOMAIN orders,
         \A o \in DOMAIN orders : orders'[o] = orders[o],
         engineMode = "B" => /\ toFill' = {}
                             /\ \A o \in DOMAIN orders : HeldFor(o)' = HeldFor(o),
         engineMode = "A" => OnlyEngineA'
  PROVE  OneEngineInv'
<1>1. FilledExactly'
  BY DEF OneEngineInv, FilledExactly
<1>2. engineMode = "B" => HeldAsOpen'
  BY DEF OneEngineInv, HeldAsOpen
<1> QED
  BY <1>1, <1>2 DEF OneEngineInv

LEMMA HeldStays ==
  ASSUME NEW o, UNCHANGED <<orders, bids, asks, trades>>
  PROVE  HeldFor(o)' = HeldFor(o)
BY DEF HeldFor, Rest, SideOf

LEMMA OneEngineInit == Init => OneEngineInv
<1> SUFFICES ASSUME Init PROVE OneEngineInv
  OBVIOUS
<1>1. FundingInv
  BY FundingInit
<1>2. /\ seen = {} /\ submission = NoSubmission /\ trades = <<>> /\ orders = <<>>
      /\ toFill = {}
  BY DEF Init, MEInit, OMSInit
<1> QED
  BY <1>1, <1>2 DEF OneEngineInv, FilledExactly, HeldAsOpen, OnlyEngineA

LEMMA PlaceRejectedOneEngine ==
  ASSUME OneEngineInv, NEW o \in OrderIds, NEW a \in Accounts, NEW t \in Tickets,
         PlaceRejected(o, a, t), engineMode' = engineMode
  PROVE  OneEngineInv'
<1>1. FundingInv'
  BY PlaceRejectedFunding DEF OneEngineInv
<1>2. /\ Enter(o, a, t, "REJECTED") /\ toFill = {} /\ toFill' = {} /\ quotes' = quotes
      /\ UNCHANGED <<bids, asks, seen, submission, trades>>
  BY DEF PlaceRejected, RejectOrder, Idle, meVars, appVars
<1>3. /\ DOMAIN orders' = DOMAIN orders \cup {o} /\ orders'[o].status = "REJECTED"
      /\ \A x \in DOMAIN orders : orders'[x] = orders[x]
  BY <1>2, EnterEffect
<1>4. ~IsOpen(orders'[o])
  BY <1>3 DEF IsOpen
<1>5. FilledExactly'
  BY <1>3 DEF OneEngineInv, FilledExactly
<1>6. engineMode = "B" => HeldAsOpen'
  <2>1. HeldFor(o)' = 0
    BY <1>1, <1>3 DEF FundingInv, OrdersMean, OrderMeans
  <2>2. ASSUME NEW x \in DOMAIN orders
        PROVE  HeldFor(x)' = HeldFor(x)
    BY <1>2, <1>3 DEF HeldFor, Rest, SideOf
  <2> QED
    BY <1>3, <1>4, <2>1, <2>2 DEF OneEngineInv, HeldAsOpen
<1>7. engineMode = "A" => OnlyEngineA'
  BY <1>2, <1>3, <1>4 DEF OneEngineInv, OnlyEngineA
<1> QED
  BY <1>1, <1>2, <1>5, <1>6, <1>7 DEF OneEngineInv

LEMMA PlaceAcceptedOneEngine ==
  ASSUME OneEngineInv, NEW o \in OrderIds, NEW a \in Accounts, NEW t \in Tickets,
         PlaceAccepted(o, a, t)
  PROVE  OneEngineInv'
<1>1. /\ FundingInv'
      /\ engineMode = "B" => /\ HeldFor(o)' = t.qty
                             /\ \A x \in DOMAIN orders : HeldFor(x)' = HeldFor(x)
  BY PlaceAcceptedFunding DEF OneEngineInv
<1>2. /\ Enter(o, a, t, "ROUTED") /\ toFill = {} /\ UNCHANGED <<engineMode, quotes>>
      /\ engineMode = "B" => toFill' = {}
      /\ engineMode # "B" => /\ UNCHANGED <<bids, asks, seen, submission, trades>>
                             /\ Marketable(t, quotes[t.symbol]) => o \in toFill'
  BY DEF PlaceAccepted, AcceptAndRoute, Idle, meVars
<1>3. /\ DOMAIN orders' = DOMAIN orders \cup {o} /\ orders'[o].status = "ROUTED"
      /\ orders'[o].ticket = t /\ Remaining(orders'[o]) = t.qty - 0
      /\ \A x \in DOMAIN orders : orders'[x] = orders[x]
  BY <1>2, EnterEffect, ZenonT(40)
<1>4. IsOpen(orders'[o])
  BY <1>3 DEF IsOpen
<1>5. FilledExactly'
  BY <1>3 DEF OneEngineInv, FilledExactly
<1>6. engineMode = "B" => HeldAsOpen'
  <2>1. Remaining(orders'[o]) = t.qty
    BY <1>3, OMSAssumption DEF TicketType
  <2>2. o \notin DOMAIN orders
    BY <1>2 DEF Enter
  <2> QED
    BY <1>1, <1>3, <1>4, <2>1, <2>2 DEF OneEngineInv, HeldAsOpen
<1>7. engineMode = "A" => OnlyEngineA'
  BY <1>2, <1>3 DEF OneEngineInv, OnlyEngineA
<1> QED
  BY <1>1, <1>2, <1>5, <1>6, <1>7 DEF OneEngineInv

LEMMA CancelOneEngine ==
  ASSUME OneEngineInv, NEW o \in OrderIds, Cancel(o), engineMode' = engineMode
  PROVE  OneEngineInv'
<1>1. /\ FundingInv'
      /\ o \in DOMAIN orders
      /\ DOMAIN orders' = DOMAIN orders /\ orders'[o].status = "CANCELED"
      /\ \A x \in DOMAIN orders \ {o} :
           orders'[x] = orders[x] /\ HeldFor(x)' = HeldFor(x)
  BY CancelFunding DEF OneEngineInv
<1>2. /\ toFill = {} /\ toFill' = {} /\ quotes' = quotes
      /\ UNCHANGED <<seen, submission, trades>>
  BY DEF Cancel, CancelInBook, Idle, appVars
<1>3. ~IsOpen(orders'[o])
  BY <1>1 DEF IsOpen
<1>4. FilledExactly'
  BY <1>1 DEF OneEngineInv, FilledExactly
<1>5. engineMode = "B" => HeldAsOpen'
  <2>1. HeldFor(o)' = 0
    BY <1>1 DEF FundingInv, OrdersMean, OrderMeans
  <2> QED
    BY <1>1, <1>3, <2>1 DEF OneEngineInv, HeldAsOpen
<1>6. engineMode = "A" => OnlyEngineA'
  BY <1>1, <1>2, <1>3 DEF OneEngineInv, OnlyEngineA
<1> QED
  BY <1>1, <1>2, <1>4, <1>5, <1>6 DEF OneEngineInv

\* The account operations and the mode switch to the same mode.
LEMMA AccountsOneEngine ==
  ASSUME OneEngineInv, FundingInv', engineMode' = engineMode,
         UNCHANGED <<orders, bids, asks, seen, submission, trades, toFill, quotes>>
  PROVE  OneEngineInv'
<1>1. \A o \in DOMAIN orders : HeldFor(o)' = HeldFor(o)
  BY HeldStays
<1>2. engineMode = "A" => OnlyEngineA'
  BY DEF OneEngineInv, OnlyEngineA
<1> QED
  BY <1>1, <1>2, OrdersUntouched DEF OneEngineInv

\* A scan takes up every order that the new quote can fill: ROUTED and
\* PARTIALLY_FILLED are the only statuses an open order has between handlers.
LEMMA MarketDataOneEngine ==
  ASSUME OneEngineInv, NEW s \in Symbols, NEW quote \in Quotes, MarketData(s, quote)
  PROVE  OneEngineInv'
<1>1. FundingInv' /\ FundingInv
  BY MarketDataFunding DEF OneEngineInv
<1>2. /\ UNCHANGED <<orders, bids, asks, seen, submission, trades, engineMode>>
      /\ toFill = {} /\ quotes' = [quotes EXCEPT ![s] = quote]
      /\ engineMode = "B" => toFill' = {}
  BY DEF MarketData, Idle, meVars, omsVars
<1>3. \A o \in DOMAIN orders : HeldFor(o)' = HeldFor(o)
  BY <1>2, HeldStays
<1>4. ASSUME engineMode = "A", NEW o \in DOMAIN orders, IsOpen(orders[o]),
             Marketable(orders[o].ticket, quotes'[orders[o].ticket.symbol])
      PROVE  o \in toFill'
  <2>1. orders[o].ticket.symbol \in Symbols /\ OrderMeans(orders[o], HeldFor(o))
    BY <1>1, OrderFacts
  <2>2. quotes \in [Symbols -> Quotes \cup {NoQuote}]
    BY <1>1 DEF FundingInv, TradingInv, TradingOK, AppTypeOK
  <2>3. CASE orders[o].ticket.symbol # s
    <3>1. quotes'[orders[o].ticket.symbol] = quotes[orders[o].ticket.symbol]
      BY <1>2, <2>1, <2>2, <2>3
    <3>2. o \in toFill
      BY <1>4, <3>1 DEF OneEngineInv, OnlyEngineA
    <3> QED
      BY <1>2, <3>2
  <2>4. CASE orders[o].ticket.symbol = s
    <3>1. quotes'[s] = quote
      BY <1>2, <2>2
    <3>2. Marketable(orders[o].ticket, quote)
      BY <1>4, <2>4, <3>1
    <3>3. orders[o].status \in {"ROUTED", "PARTIALLY_FILLED"} /\ Remaining(orders[o]) > 0
      BY <1>4, <2>1 DEF OrderMeans, IsOpen
    <3> QED
      BY <1>4, <2>4, <3>2, <3>3 DEF MarketData
  <2> QED
    BY <2>3, <2>4
<1>5. engineMode = "A" => OnlyEngineA'
  BY <1>2, <1>4 DEF OneEngineInv, OnlyEngineA
<1> QED
  BY <1>1, <1>2, <1>3, <1>5, OrdersUntouched

\* Engine B's loop does not run in mode A.
LEMMA LoopOneEngine ==
  ASSUME OneEngineInv, MatchStep \/ EndMatchStep
  PROVE  OneEngineInv'
<1>1. /\ UNCHANGED <<orders, toFill, engineMode>> /\ submission # NoSubmission
  BY DEF MatchStep, EndMatchStep, Match, EndMatch, omsVars, appVars
<1>2. FundingInv' /\ \A o \in DOMAIN orders : HeldFor(o)' = HeldFor(o)
  <2>1. CASE MatchStep
    BY <2>1, MatchFunding DEF OneEngineInv
  <2>2. CASE EndMatchStep
    <3>1. UNCHANGED <<orders, bids, asks, trades>>
      BY <2>2 DEF EndMatchStep, EndMatch, omsVars
    <3> QED
      BY <2>2, <3>1, EndMatchFunding, HeldStays DEF OneEngineInv
  <2> QED
    BY <2>1, <2>2
<1>3. engineMode # "A"
  BY <1>1 DEF OneEngineInv, OnlyEngineA
<1> QED
  BY <1>1, <1>2, <1>3, OrdersUntouched DEF OneEngineInv

\* A trade is handed over for no more than what remains of either party, so an
\* order that it fills is filled exactly.
LEMMA SettleOneEngine ==
  ASSUME OneEngineInv, Settle
  PROVE  OneEngineInv'
<1>1. PICK t : t = Head(trades)
  OBVIOUS
<1>2. /\ FundingInv /\ FundingInv' /\ DOMAIN orders' = DOMAIN orders
      /\ \A o \in DOMAIN orders :
           IF o \in PartiesOf(t)
           THEN /\ IsOpen(orders[o]) /\ orders'[o] = Fill(orders[o], t.qty)
                /\ HeldFor(o)' = HeldFor(o) - t.qty
           ELSE orders'[o] = orders[o] /\ HeldFor(o)' = HeldFor(o)
  BY <1>1, SettleFunding DEF OneEngineInv
<1>3. trades # <<>> /\ UNCHANGED <<engineMode, toFill>>
  BY DEF Settle, NextTrade, appVars
<1>4. engineMode # "A"
  BY <1>3 DEF OneEngineInv, OnlyEngineA
<1>5. engineMode = "B" => toFill = {} /\ HeldAsOpen
  BY DEF OneEngineInv
<1>6. engineMode = "B"
  BY <1>2, <1>4, TradingAssumption DEF FundingInv, TradingInv, TradingOK, AppTypeOK
<1>7. ASSUME NEW o \in DOMAIN orders
      PROVE  /\ orders'[o].status = "FILLED" => Remaining(orders'[o]) = 0
             /\ HeldFor(o)' = IF IsOpen(orders'[o]) THEN Remaining(orders'[o]) ELSE 0
  <2>1. HeldFor(o) = IF IsOpen(orders[o]) THEN Remaining(orders[o]) ELSE 0
    BY <1>5, <1>6 DEF HeldAsOpen
  <2>2. CASE o \notin PartiesOf(t)
    BY <1>2, <2>1, <2>2 DEF OneEngineInv, FilledExactly
  <2>3. CASE o \in PartiesOf(t)
    <3>1. /\ orders[o] \in Orders /\ t.qty \in Nat \ {0} /\ t.qty <= Remaining(orders[o])
          /\ OrderMeans(orders[o], HeldFor(o))
      BY <1>1, <1>2, <1>3, <2>3, RaisesWhenClosed DEF PartiesOf
    <3>2. PICK q \in Nat : q = t.qty
      BY <3>1
    <3>3. PICK ord : ord = Fill(orders[o], q)
      OBVIOUS
    <3>4. /\ Remaining(orders[o]) \in Int /\ Remaining(ord) = Remaining(orders[o]) - q
          /\ ord.status = IF Remaining(orders[o]) - q <= 0 THEN "FILLED"
                          ELSE IF orders[o].status = "ROUTED" THEN "PARTIALLY_FILLED"
                          ELSE orders[o].status
      BY <3>1, <3>3, FillEffect
    <3>5. IsOpen(orders[o]) /\ orders'[o] = ord /\ HeldFor(o)' = Remaining(ord)
      BY <1>2, <2>1, <2>3, <3>2, <3>3, <3>4
    <3>6. Remaining(ord) >= 0 /\ (Remaining(ord) = 0 <=> ~IsOpen(ord))
      BY <3>1, <3>2, <3>3, <3>4, <3>5 DEF IsOpen
    <3>7. ord.status = "FILLED" => Remaining(ord) = 0
      BY <3>6 DEF IsOpen
    <3> QED
      BY <3>5, <3>6, <3>7
  <2> QED
    BY <2>2, <2>3
<1>8. FilledExactly' /\ HeldAsOpen'
  BY <1>2, <1>7 DEF FilledExactly, HeldAsOpen
<1> QED
  BY <1>2, <1>3, <1>4, <1>5, <1>8 DEF OneEngineInv

\* OMS never refuses a trade: what a closed order was held for is gone.
LEMMA NothingRefused ==
  ASSUME OneEngineInv, SettleRaises
  PROVE  FALSE
<1>1. PICK t : t = Head(trades)
  OBVIOUS
<1>2. /\ FundingInv /\ trades # <<>>
      /\ TradeRaises(t.buy, t.sell, t.qty)
  BY <1>1 DEF OneEngineInv, SettleRaises
<1>3. engineMode = "B"
  BY <1>2, TradingAssumption DEF OneEngineInv, OnlyEngineA, FundingInv, TradingInv, TradingOK, AppTypeOK
<1>4. PICK o \in {t.buy, t.sell} : FillRaises(orders[o], t.qty)
  BY <1>2 DEF TradeRaises
<1>5. /\ o \in DOMAIN orders /\ ~IsOpen(orders[o]) /\ t.qty \in Nat \ {0}
      /\ Rest(o) \in Nat /\ HeldFor(o) \in Nat /\ Rest(o) <= HeldFor(o) - t.qty
  BY <1>1, <1>2, <1>4, RaisesWhenClosed
<1>6. HeldFor(o) = 0
  BY <1>3, <1>5 DEF OneEngineInv, HeldAsOpen
<1> QED
  BY <1>5, <1>6

LEMMA FillAtMarketOneEngine ==
  ASSUME OneEngineInv, NEW o \in OrderIds, FillAtMarket(o)
  PROVE  OneEngineInv'
<1>1. /\ FundingInv' /\ FundingInv
      /\ o \in DOMAIN orders /\ IsOpen(orders[o])
      /\ orders'[o].status = "FILLED" /\ Remaining(orders'[o]) = 0
      /\ \A x \in DOMAIN orders \ {o} : orders'[x] = orders[x]
  BY FillAtMarketFunding DEF OneEngineInv
<1>2. /\ o \in toFill /\ toFill' = toFill \ {o} /\ DOMAIN orders' = DOMAIN orders
      /\ UNCHANGED <<seen, submission, trades, engineMode, quotes>>
  BY DEF FillAtMarket, FillFromMarket, meVars
<1>3. engineMode # "B"
  BY <1>2 DEF OneEngineInv
<1>4. ~IsOpen(orders'[o])
  BY <1>1 DEF IsOpen
<1>5. FilledExactly'
  BY <1>1, <1>2 DEF OneEngineInv, FilledExactly
<1>6. engineMode = "A" => OnlyEngineA'
  BY <1>1, <1>2, <1>4 DEF OneEngineInv, OnlyEngineA
<1> QED
  BY <1>1, <1>2, <1>3, <1>5, <1>6 DEF OneEngineInv

LEMMA OneEngineNext ==
  ASSUME OneEngineInv, [Next /\ engineMode' = engineMode]_vars
  PROVE  OneEngineInv'
<1>1. CASE Handlers /\ engineMode' = engineMode
  <2>1. ASSUME NEW o \in OrderIds, NEW a \in Accounts, NEW t \in Tickets,
               PlaceRejected(o, a, t) \/ PlaceAccepted(o, a, t)
        PROVE  OneEngineInv'
    BY <1>1, <2>1, PlaceRejectedOneEngine, PlaceAcceptedOneEngine
  <2>2. ASSUME NEW o \in OrderIds, Cancel(o)
        PROVE  OneEngineInv'
    BY <1>1, <2>2, CancelOneEngine
  <2>3. ASSUME NEW a \in Accounts, NEW amount \in Amounts,
               Deposit(a, amount) \/ Withdraw(a, amount)
        PROVE  OneEngineInv'
    <3>1. FundingInv'
      BY <2>3, DepositFunding DEF OneEngineInv
    <3>2. UNCHANGED <<orders, bids, asks, seen, submission, trades, toFill, quotes>>
      BY <2>3 DEF Deposit, Withdraw, DepositCash, WithdrawCash, meVars, omsVars, appVars
    <3> QED
      BY <1>1, <3>1, <3>2, AccountsOneEngine
  <2>4. ASSUME NEW mode \in EngineModes, SetEngineMode(mode)
        PROVE  OneEngineInv'
    <3>1. FundingInv'
      BY <2>4, SetEngineModeFunding DEF OneEngineInv
    <3>2. UNCHANGED <<orders, bids, asks, seen, submission, trades, toFill, quotes>>
      BY <2>4 DEF SetEngineMode, meVars, omsVars
    <3> QED
      BY <1>1, <3>1, <3>2, AccountsOneEngine
  <2>5. ASSUME NEW a \in Deletable, DeleteUser(a)
        PROVE  OneEngineInv'
    <3>1. FundingInv'
      BY <2>5, DeleteUserFunding DEF OneEngineInv
    <3>2. UNCHANGED <<orders, bids, asks, seen, submission, trades, toFill, quotes>>
      BY <2>5 DEF DeleteUser, meVars, omsVars
    <3> QED
      BY <1>1, <3>1, <3>2, AccountsOneEngine
  <2>6. ASSUME NEW s \in Symbols, NEW quote \in Quotes, MarketData(s, quote)
        PROVE  OneEngineInv'
    BY <2>6, MarketDataOneEngine
  <2> QED
    BY <1>1, <2>1, <2>2, <2>3, <2>4, <2>5, <2>6 DEF Handlers
<1>2. CASE Continue
  BY <1>2, LoopOneEngine, SettleOneEngine, NothingRefused, FillAtMarketOneEngine DEF Continue
<1>3. CASE UNCHANGED vars
  <2>1. FundingInv'
    BY <1>3, FundingNext DEF OneEngineInv
  <2>2. /\ engineMode' = engineMode
        /\ UNCHANGED <<orders, bids, asks, seen, submission, trades, toFill, quotes>>
    BY <1>3 DEF vars, meVars, omsVars, appVars
  <2> QED
    BY <2>1, <2>2, AccountsOneEngine
<1> QED
  BY <1>1, <1>2, <1>3 DEF Next

\* What an engine holds of an order is what the order still wants, for as long
\* as that engine is the only one.
THEOREM OneEngineInvariant == OneEngineSpec => []OneEngineInv
<1>1. Init => OneEngineInv
  BY OneEngineInit
<1>2. OneEngineInv /\ [Next /\ engineMode' = engineMode]_vars => OneEngineInv'
  BY OneEngineNext
<1> QED
  BY <1>1, <1>2, PTL DEF OneEngineSpec

\* Without a switch no order is filled beyond its quantity, and it is FILLED
\* exactly when its quantity is reached.
THEOREM NoOverfill == OneEngineSpec => []FillsWithinQuantity
<1>1. ASSUME OneEngineInv, NEW o \in DOMAIN orders
      PROVE  /\ Remaining(orders[o]) >= 0
             /\ orders[o].status = "FILLED" <=> Remaining(orders[o]) = 0
  <2>1. orders[o] \in Orders /\ OrderMeans(orders[o], HeldFor(o))
    BY <1>1, OrderFacts DEF OneEngineInv
  <2>2. Remaining(orders[o]) \in Int
    BY <2>1, FillEffect
  <2>3. orders[o].status = "FILLED" => Remaining(orders[o]) = 0
    BY <1>1 DEF OneEngineInv, FilledExactly
  <2> QED
    BY <2>1, <2>2, <2>3 DEF OrderMeans, IsOpen
<1>2. OneEngineInv => FillsWithinQuantity
  BY <1>1 DEF FillsWithinQuantity
<1> QED
  BY <1>2, OneEngineInvariant, PTL

\* Without a switch a closed order is never filled, canceled or settled again.
THEOREM ClosedIsClosed == OneEngineSpec => ClosedOrdersStayClosed
<1>1. ASSUME OneEngineInv, [Next /\ engineMode' = engineMode]_vars, NEW o \in DOMAIN orders,
             orders[o].status \in {"FILLED", "CANCELED", "REJECTED"}
      PROVE  orders'[o] = orders[o]
  <2>1. ~IsOpen(orders[o])
    BY <1>1 DEF IsOpen
  <2>2. FundingInv
    BY <1>1 DEF OneEngineInv
  <2>3. CASE Handlers
    <3>1. ASSUME NEW x \in OrderIds, NEW a \in Accounts, NEW t \in Tickets,
                 PlaceRejected(x, a, t) \/ PlaceAccepted(x, a, t)
          PROVE  orders'[o] = orders[o]
      <4>1. \E status : Enter(x, a, t, status)
        BY <3>1 DEF PlaceRejected, PlaceAccepted, RejectOrder, AcceptAndRoute
      <4> QED
        BY <4>1, EnterEffect
    <3>2. ASSUME NEW x \in OrderIds, Cancel(x)
          PROVE  orders'[o] = orders[o]
      BY <2>1, <2>2, <3>2, CancelFunding
    <3> QED
      BY <2>3, <3>1, <3>2 DEF Handlers, Deposit, Withdraw, SetEngineMode, DeleteUser,
         MarketData, omsVars
  <2>4. CASE Continue
    <3>1. CASE MatchStep \/ EndMatchStep
      BY <3>1 DEF MatchStep, EndMatchStep, omsVars
    <3>2. CASE Settle
      BY <2>1, <2>2, <3>2, SettleFunding
    <3>3. CASE \E x \in OrderIds : FillAtMarket(x)
      BY <2>1, <2>2, <3>3, FillAtMarketFunding
    <3> QED
      BY <1>1, <2>4, <3>1, <3>2, <3>3, NothingRefused DEF Continue
  <2>5. CASE UNCHANGED vars
    BY <2>5 DEF vars, omsVars
  <2> QED
    BY <1>1, <2>3, <2>4, <2>5 DEF Next
<1>2. OneEngineInv /\ [Next /\ engineMode' = engineMode]_vars =>
        [\A o \in DOMAIN orders :
           orders[o].status \in {"FILLED", "CANCELED", "REJECTED"}
           => orders'[o] = orders[o]]_vars
  BY <1>1
<1> QED
  BY <1>2, OneEngineInvariant, PTL DEF ClosedOrdersStayClosed, OneEngineSpec

\* Between the handlers of a process that runs Engine B, the books are the
\* open orders, each at its own price with what remains of it.
THEOREM BookIsTheOpenOrders == OneEngineSpec => []BookMirrorsOrders
<1>1. ASSUME OneEngineInv, Idle, engineMode = "B", NEW o \in DOMAIN orders
      PROVE  RestingQty(SideOf(orders[o].ticket), o) =
               IF IsOpen(orders[o]) THEN Remaining(orders[o]) ELSE 0
  <2>1. HeldFor(o) = Rest(o)
    BY <1>1, NothingPending DEF Idle, MEIdle, HeldFor
  <2> QED
    BY <1>1, <2>1 DEF OneEngineInv, HeldAsOpen, Rest
<1>2. ASSUME OneEngineInv, NEW s \in Symbols, NEW side \in Sides,
             NEW list, list = (IF side = "BUY" THEN bids[s] ELSE asks[s]),
             NEW i \in DOMAIN list
      PROVE  /\ orders[list[i].order].ticket.symbol = s
             /\ orders[list[i].order].ticket.side = side
             /\ list[i].price = EffectivePrice(orders[list[i].order].ticket)
             /\ \A j \in DOMAIN list : list[i].order = list[j].order => i = j
  <2>1. FundingInv /\ EngineInv
    BY <1>2 DEF OneEngineInv, FundingInv, TradingInv, TradingOK
  <2>2. list \in Seq(Entries) /\ Distinct(list) /\ ListFor(orders, s, side, list)
    BY <1>2, <2>1, BookLists DEF FundingInv, BookOfOrders, Sides
  <2>3. DOMAIN list = 1..Len(list)
    BY <2>2, LenProperties
  <2>4. EntryFor(orders, s, side, list[i])
    BY <1>2, <2>2, <2>3 DEF ListFor, EntriesOn
  <2>5. \A j \in DOMAIN list : list[i].order = list[j].order => i = j
    BY <1>2, <2>2, <2>3 DEF Distinct
  <2> QED
    BY <2>4, <2>5 DEF EntryFor
<1>3. OneEngineInv => BookMirrorsOrders
  BY <1>1, <1>2 DEF BookMirrorsOrders
<1> QED
  BY <1>3, OneEngineInvariant, PTL

\* Between the handlers of a process that runs Engine A, no open order is one
\* that the latest quote of its symbol would fill.
THEOREM NothingMissed == OneEngineSpec => [](engineMode = "A" => NoMissedFill)
<1>1. OneEngineInv => (engineMode = "A" => NoMissedFill)
  BY DEF OneEngineInv, OnlyEngineA, NoMissedFill, Idle
<1> QED
  BY <1>1, OneEngineInvariant, PTL

-----------------------------------------------------------------------------
(* Sums.  The provers have no induction: that a sum over a finite set is    *)
(* what it should be is proved of a smallest subset of which it is not.    *)

\* Every collection of subsets of a finite set has a smallest one.
LEMMA MinimalSubset ==
  ASSUME NEW S, IsFiniteSet(S), NEW X \in SUBSET SUBSET S, X # {}
  PROVE  \E M \in X : \A L \in X : L \subseteq M => L = M
<1>1. X \subseteq FiniteSubsetsOf(S)
  <2>1. \A s \in SUBSET S : IsFiniteSet(s)
    BY FS_Subset
  <2> QED
    BY <2>1 DEF FiniteSubsetsOf
<1>2. PICK M \in X : \A L \in X : <<L, M>> \notin StrictSubsetOrdering(S)
  BY <1>1, FS_StrictSubsetOrderingWellFounded, WFMin
<1>3. \A L \in X : <<L, M>> \in (SUBSET S) \X (SUBSET S)
  OBVIOUS
<1> QED
  BY <1>2, <1>3 DEF StrictSubsetOrdering

\* The first member a sum takes, and the function that the sum of f is read
\* off: g is the partial sums over the subsets of S.
First(s) == CHOOSE x \in s : TRUE

PartialSums(g, f, S) ==
  g = [s \in SUBSET S |-> IF s = {} THEN 0 ELSE f[First(s)] + g[s \ {First(s)}]]

LEMMA SumIsChosen ==
  ASSUME NEW f, NEW S
  PROVE  SumOver(f, S) = (CHOOSE g : PartialSums(g, f, S))[S]
BY DEF SumOver, MapThenSumSet, MapThenFoldSet, PartialSums, First

LEMMA PartialSumsAt ==
  ASSUME NEW g, NEW f, NEW S, PartialSums(g, f, S), NEW s \in SUBSET S
  PROVE  /\ s = {} => g[s] = 0
         /\ s # {} => /\ First(s) \in s /\ s \ {First(s)} \in SUBSET S
                      /\ g[s] = f[First(s)] + g[s \ {First(s)}]
<1>1. s # {} => First(s) \in s
  BY DEF First
<1>2. PICK F : F = First(s)
  OBVIOUS
<1>3. g[s] = IF s = {} THEN 0 ELSE f[F] + g[s \ {F}]
  BY <1>2 DEF PartialSums
<1> QED
  BY <1>1, <1>2, <1>3

\* Partial sums over two sets agree on the subsets of both.
LEMMA PartialSumsAgree ==
  ASSUME NEW f, NEW S, NEW T, IsFiniteSet(S), NEW g, NEW h,
         PartialSums(g, f, S), PartialSums(h, f, T)
  PROVE  \A s \in SUBSET S : s \in SUBSET T => g[s] = h[s]
<1> DEFINE X == { s \in SUBSET S : s \in SUBSET T /\ g[s] # h[s] }
<1>1. SUFFICES ASSUME X # {} PROVE FALSE
  OBVIOUS
<1>2. PICK M \in X : \A L \in X : L \subseteq M => L = M
  <2> HIDE DEF X
  <2>1. X \in SUBSET SUBSET S
    BY DEF X
  <2> QED
    BY <1>1, <2>1, MinimalSubset
<1>3. /\ M = {} => g[M] = 0 /\ h[M] = 0
      /\ M # {} => /\ First(M) \in M
                   /\ g[M] = f[First(M)] + g[M \ {First(M)}]
                   /\ h[M] = f[First(M)] + h[M \ {First(M)}]
  BY <1>2, PartialSumsAt
<1>4. M # {}
  BY <1>2, <1>3
<1>5. PICK L : L = M \ {First(M)}
  OBVIOUS
<1>6. L \in SUBSET S /\ L \in SUBSET T /\ L # M /\ L \subseteq M
  BY <1>2, <1>3, <1>4, <1>5
<1>7. g[L] = h[L]
  BY <1>2, <1>6
<1> QED
  BY <1>2, <1>3, <1>4, <1>5, <1>7

\* A finite set has partial sums: a smallest one without them would have
\* those of its subsets, put together.
LEMMA PartialSumsExist ==
  ASSUME NEW f, NEW S, IsFiniteSet(S)
  PROVE  \E g : PartialSums(g, f, S)
<1> DEFINE X == { s \in SUBSET S : \A g : ~PartialSums(g, f, s) }
<1>1. SUFFICES ASSUME X # {} PROVE FALSE
  OBVIOUS
<1>2. PICK M \in X : \A L \in X : L \subseteq M => L = M
  <2> HIDE DEF X
  <2>1. X \in SUBSET SUBSET S
    BY DEF X
  <2> QED
    BY <1>1, <2>1, MinimalSubset
<1> DEFINE G(s) == SumOver(f, s)
<1>3. ASSUME NEW s \in SUBSET M, s # M
      PROVE  \E g : PartialSums(g, f, s) /\ G(s) = g[s]
  <2>1. \E g : PartialSums(g, f, s)
    BY <1>2, <1>3
  <2>2. PartialSums(CHOOSE g : PartialSums(g, f, s), f, s)
    BY <2>1
  <2> QED
    BY <2>2, SumIsChosen
<1>4. ASSUME NEW s \in SUBSET M, s # M
      PROVE  G(s) = IF s = {} THEN 0 ELSE f[First(s)] + G(s \ {First(s)})
  <2>1. PICK g : PartialSums(g, f, s) /\ G(s) = g[s]
    BY <1>3, <1>4
  <2>2. CASE s = {}
    BY <2>1, <2>2, PartialSumsAt
  <2>3. CASE s # {}
    <3>1. PICK r : r = s \ {First(s)}
      OBVIOUS
    <3>2. First(s) \in s /\ g[s] = f[First(s)] + g[r]
      BY <2>1, <2>3, <3>1, PartialSumsAt
    <3>3. r \in SUBSET M /\ r # M /\ r \in SUBSET s
      BY <1>4, <3>1, <3>2
    <3>4. PICK h : PartialSums(h, f, r) /\ G(r) = h[r]
      BY <1>3, <3>3
    <3>5. IsFiniteSet(s)
      BY <1>2, <1>4, FS_Subset
    <3>6. g[r] = h[r]
      BY <2>1, <3>3, <3>4, <3>5, PartialSumsAgree
    <3> QED
      BY <2>1, <2>3, <3>1, <3>2, <3>4, <3>6
  <2> QED
    BY <2>2, <2>3
<1> HIDE DEF G
<1>5. PICK top : top = IF M = {} THEN 0 ELSE f[First(M)] + G(M \ {First(M)})
  OBVIOUS
<1>6. PICK g : g = [s \in SUBSET M |-> IF s = M THEN top ELSE G(s)]
  OBVIOUS
<1>7. ASSUME NEW s \in SUBSET M
      PROVE  g[s] = IF s = {} THEN 0 ELSE f[First(s)] + g[s \ {First(s)}]
  <2>1. s # {} => First(s) \in s
    BY DEF First
  <2>2. PICK r : r = s \ {First(s)}
    OBVIOUS
  <2>3. s # {} => r \in SUBSET M /\ r # M
    BY <2>1, <2>2
  <2>4. s # {} => g[r] = G(r)
    BY <1>6, <2>3
  <2>5. g[s] = IF s = M THEN top ELSE G(s)
    BY <1>6
  <2>6. CASE s = M
    BY <1>5, <2>2, <2>4, <2>5, <2>6
  <2>7. CASE s # M
    <3>1. G(s) = IF s = {} THEN 0 ELSE f[First(s)] + G(r)
      BY <1>4, <2>2, <2>7
    <3> QED
      BY <2>2, <2>4, <2>5, <2>7, <3>1
  <2> QED
    BY <2>6, <2>7
<1>8. g = [s \in SUBSET M |-> g[s]]
  BY <1>6
<1>9. g = [s \in SUBSET M |-> IF s = {} THEN 0 ELSE f[First(s)] + g[s \ {First(s)}]]
  BY <1>7, <1>8
<1>10. PartialSums(g, f, M)
  BY <1>9 DEF PartialSums
<1> QED
  BY <1>2, <1>10

\* A sum is what its first member adds to the sum of the others.
LEMMA SumStep ==
  ASSUME NEW f, NEW S, IsFiniteSet(S)
  PROVE  /\ S = {} => SumOver(f, S) = 0
         /\ S # {} => /\ First(S) \in S
                      /\ SumOver(f, S) = f[First(S)] + SumOver(f, S \ {First(S)})
<1>1. ASSUME NEW T \in SUBSET S
      PROVE  \E g : PartialSums(g, f, T) /\ SumOver(f, T) = g[T]
  <2>1. \E g : PartialSums(g, f, T)
    BY FS_Subset, PartialSumsExist
  <2>2. PartialSums(CHOOSE g : PartialSums(g, f, T), f, T)
    BY <2>1
  <2> QED
    BY <2>2, SumIsChosen
<1>2. PICK g : PartialSums(g, f, S) /\ SumOver(f, S) = g[S]
  BY <1>1
<1>3. CASE S = {}
  BY <1>2, <1>3, PartialSumsAt
<1>4. CASE S # {}
  <2>1. PICK r : r = S \ {First(S)}
    OBVIOUS
  <2>2. First(S) \in S /\ g[S] = f[First(S)] + g[r] /\ r \in SUBSET S
    BY <1>2, <1>4, <2>1, PartialSumsAt
  <2>3. PICK h : PartialSums(h, f, r) /\ SumOver(f, r) = h[r]
    BY <1>1, <2>2
  <2>4. g[r] = h[r]
    BY <1>2, <2>2, <2>3, PartialSumsAgree
  <2> QED
    BY <1>2, <1>4, <2>1, <2>2, <2>3, <2>4
<1> QED
  BY <1>3, <1>4

\* Which member comes first makes no difference: any can be taken out.
LEMMA SumTakeOut ==
  ASSUME NEW f, NEW S, IsFiniteSet(S), \A x \in S : f[x] \in Int
  PROVE  /\ SumOver(f, S) \in Int
         /\ \A x \in S : SumOver(f, S) = f[x] + SumOver(f, S \ {x})
<1> DEFINE Good(s) == /\ SumOver(f, s) \in Int
                      /\ \A x \in s : SumOver(f, s) = f[x] + SumOver(f, s \ {x})
           X == { s \in SUBSET S : ~Good(s) }
<1>1. SUFFICES ASSUME X # {} PROVE FALSE
  OBVIOUS
<1>2. PICK M \in X : \A L \in X : L \subseteq M => L = M
  <2> HIDE DEF X
  <2>1. X \in SUBSET SUBSET S
    BY DEF X
  <2> QED
    BY <1>1, <2>1, MinimalSubset
<1>3. ~Good(M) /\ M \in SUBSET S
  BY <1>2
<1>4. \A L \in SUBSET M : L # M => Good(L)
  BY <1>2
<1>5. ASSUME NEW s \in SUBSET M
      PROVE  /\ s = {} => SumOver(f, s) = 0
             /\ s # {} => /\ First(s) \in s
                          /\ SumOver(f, s) = f[First(s)] + SumOver(f, s \ {First(s)})
  <2>1. IsFiniteSet(s)
    BY <1>3, FS_Subset
  <2> QED
    BY <2>1, SumStep
<1>6. M # {}
  <2> SUFFICES ASSUME M = {} PROVE FALSE
    OBVIOUS
  <2>1. SumOver(f, M) = 0
    BY <1>5
  <2>2. \A x \in M : SumOver(f, M) = f[x] + SumOver(f, M \ {x})
    OBVIOUS
  <2>3. SumOver(f, M) \in Int
    BY <2>1
  <2> QED
    BY <1>3, <2>2, <2>3
<1>7. PICK p, P : p = First(M) /\ P = M \ {p}
  OBVIOUS
<1>8. p \in M /\ SumOver(f, M) = f[p] + SumOver(f, P)
  BY <1>5, <1>6, <1>7
<1>9. Good(P) /\ P \in SUBSET M
  BY <1>4, <1>7, <1>8
<1>10. f[p] \in Int /\ SumOver(f, P) \in Int /\ SumOver(f, M) \in Int
  BY <1>3, <1>8, <1>9
<1>11. ASSUME NEW x \in M
       PROVE  SumOver(f, M) = f[x] + SumOver(f, M \ {x})
  <2>1. CASE x = p
    BY <1>7, <1>8, <2>1
  <2>2. CASE x # p
    <3>1. PICK Q, R : Q = M \ {x} /\ R = P \ {x}
      OBVIOUS
    <3>2. R = Q \ {p} /\ p \in Q /\ x \in P /\ Q \in SUBSET M /\ Q # M
      BY <1>7, <1>8, <2>2, <3>1
    <3>3. Good(Q) /\ R \in SUBSET M /\ R # M
      BY <1>4, <3>1, <3>2
    <3>4. SumOver(f, Q) = f[p] + SumOver(f, R) /\ SumOver(f, R) \in Int
      BY <1>4, <3>2, <3>3
    <3>5. SumOver(f, P) = f[x] + SumOver(f, R)
      BY <1>9, <3>1, <3>2
    <3>6. f[x] \in Int
      BY <1>3
    <3> QED
      BY <1>8, <1>10, <3>1, <3>4, <3>5, <3>6
  <2> QED
    BY <2>1, <2>2
<1> QED
  BY <1>3, <1>10, <1>11

\* A sum depends on the values of its members only.
LEMMA SumSame ==
  ASSUME NEW f, NEW g, NEW S, IsFiniteSet(S), \A x \in S : f[x] = g[x]
  PROVE  SumOver(f, S) = SumOver(g, S)
<1> DEFINE X == { s \in SUBSET S : SumOver(f, s) # SumOver(g, s) }
<1>1. SUFFICES ASSUME X # {} PROVE FALSE
  OBVIOUS
<1>2. PICK M \in X : \A L \in X : L \subseteq M => L = M
  <2> HIDE DEF X
  <2>1. X \in SUBSET SUBSET S
    BY DEF X
  <2> QED
    BY <1>1, <2>1, MinimalSubset
<1>3. IsFiniteSet(M)
  BY <1>2, FS_Subset
<1>4. M # {}
  <2>1. M = {} => SumOver(f, M) = 0 /\ SumOver(g, M) = 0
    BY <1>3, SumStep
  <2> QED
    BY <1>2, <2>1
<1>5. PICK p, P : p = First(M) /\ P = M \ {p}
  OBVIOUS
<1>6. /\ p \in M /\ SumOver(f, M) = f[p] + SumOver(f, P)
      /\ SumOver(g, M) = g[p] + SumOver(g, P)
  BY <1>3, <1>4, <1>5, SumStep
<1>7. SumOver(f, P) = SumOver(g, P)
  BY <1>2, <1>5, <1>6
<1> QED
  BY <1>2, <1>6, <1>7

LEMMA SumNotNegative ==
  ASSUME NEW f, NEW S, IsFiniteSet(S), \A x \in S : f[x] \in Nat
  PROVE  SumOver(f, S) \in Nat
<1> DEFINE X == { s \in SUBSET S : SumOver(f, s) \notin Nat }
<1>1. SUFFICES ASSUME X # {} PROVE FALSE
  OBVIOUS
<1>2. PICK M \in X : \A L \in X : L \subseteq M => L = M
  <2> HIDE DEF X
  <2>1. X \in SUBSET SUBSET S
    BY DEF X
  <2> QED
    BY <1>1, <2>1, MinimalSubset
<1>3. IsFiniteSet(M)
  BY <1>2, FS_Subset
<1>4. M # {}
  <2>1. M = {} => SumOver(f, M) = 0
    BY <1>3, SumStep
  <2> QED
    BY <1>2, <2>1
<1>5. PICK p, P : p = First(M) /\ P = M \ {p}
  OBVIOUS
<1>6. p \in M /\ SumOver(f, M) = f[p] + SumOver(f, P)
  BY <1>3, <1>4, <1>5, SumStep
<1>7. SumOver(f, P) \in Nat
  BY <1>2, <1>5, <1>6
<1> QED
  BY <1>2, <1>6, <1>7

\* One member changes by d.
LEMMA SumChanges ==
  ASSUME NEW f, NEW g, NEW S, IsFiniteSet(S), \A x \in S : f[x] \in Int,
         NEW y \in S, NEW d \in Int, g[y] = f[y] + d, \A x \in S \ {y} : g[x] = f[x]
  PROVE  SumOver(g, S) = SumOver(f, S) + d
<1>1. PICK R : R = S \ {y}
  OBVIOUS
<1>2. IsFiniteSet(R)
  BY <1>1, FS_RemoveElement
<1>3. SumOver(f, R) = SumOver(g, R)
  BY <1>1, <1>2, SumSame
<1>4. \A x \in S : g[x] \in Int
  OBVIOUS
<1>5. /\ SumOver(f, S) = f[y] + SumOver(f, R)
      /\ SumOver(g, S) = g[y] + SumOver(g, R)
      /\ SumOver(f, R) \in Int
  BY <1>1, <1>2, <1>4, SumTakeOut
<1> QED
  BY <1>3, <1>5

\* A member comes in.
LEMMA SumAdds ==
  ASSUME NEW f, NEW S, NEW y, IsFiniteSet(S), y \notin S,
         \A x \in S \cup {y} : f[x] \in Int
  PROVE  SumOver(f, S \cup {y}) = SumOver(f, S) + f[y]
<1>1. PICK T : T = S \cup {y}
  OBVIOUS
<1>2. IsFiniteSet(T) /\ S = T \ {y}
  BY <1>1, FS_AddElement
<1>3. SumOver(f, T) = f[y] + SumOver(f, S)
  BY <1>1, <1>2, SumTakeOut
<1>4. SumOver(f, S) \in Int
  BY SumTakeOut
<1> QED
  BY <1>1, <1>3, <1>4

\* One component of a function over A changes by d.
LEMMA SumExcept ==
  ASSUME NEW A, NEW f \in [A -> Int], NEW S \in SUBSET A, IsFiniteSet(S),
         NEW y \in A, NEW d \in Int, NEW g, g[y] = f[y] + d,
         \A x \in A \ {y} : g[x] = f[x]
  PROVE  SumOver(g, S) = IF y \in S THEN SumOver(f, S) + d ELSE SumOver(f, S)
<1>1. CASE y \in S
  BY <1>1, SumChanges
<1>2. CASE y \notin S
  BY <1>2, SumSame
<1> QED
  BY <1>1, <1>2

-----------------------------------------------------------------------------
(* The balances against the lock records *)

\* What the record of order o sets aside in account a: cash for a BUY, shares
\* of s for a SELL.
CashOf(L, o, a) ==
  IF o \in DOMAIN L /\ L[o].account = a /\ L[o].side = "BUY" THEN L[o].cash ELSE 0

QtyOf(L, o, a, s) ==
  IF o \in DOMAIN L /\ L[o].account = a /\ L[o].side = "SELL" /\ L[o].symbol = s
  THEN L[o].qty ELSE 0

CashIn(L, a) ==
  SumOver([o \in DOMAIN L |-> L[o].cash],
    { o \in DOMAIN L : L[o].account = a /\ L[o].side = "BUY" })

QtyIn(L, a, s) ==
  SumOver([o \in DOMAIN L |-> L[o].qty],
    { o \in DOMAIN L : L[o].account = a /\ L[o].side = "SELL" /\ L[o].symbol = s })

LEMMA LockSums ==
  /\ \A a : LockCash(a) = CashIn(locks, a)
  /\ \A a, s : LockQty(a, s) = QtyIn(locks, a, s)
BY DEF LockCash, LockQty, CashIn, QtyIn

LEMMA CashInChanges ==
  ASSUME NEW L, NEW M, NEW o, NEW a, SameBut(L, M, o),
         IsFiniteSet(DOMAIN L), IsFiniteSet(DOMAIN M),
         L \in [DOMAIN L -> Locks], M \in [DOMAIN M -> Locks]
  PROVE  CashIn(M, a) = CashIn(L, a) - CashOf(L, o, a) + CashOf(M, o, a)
<1>1. PICK f, g : /\ f = [x \in DOMAIN L |-> L[x].cash]
                  /\ g = [x \in DOMAIN M |-> M[x].cash]
  OBVIOUS
<1>2. PICK S, T : /\ S = { x \in DOMAIN L : L[x].account = a /\ L[x].side = "BUY" }
                  /\ T = { x \in DOMAIN M : M[x].account = a /\ M[x].side = "BUY" }
  OBVIOUS
<1>3. CashIn(L, a) = SumOver(f, S) /\ CashIn(M, a) = SumOver(g, T)
  BY <1>1, <1>2 DEF CashIn
<1>4. IsFiniteSet(S) /\ IsFiniteSet(T)
  BY <1>2, FS_Subset
<1>5. /\ \A x \in S : f[x] \in Int
      /\ \A x \in T : g[x] \in Int
  BY <1>1, <1>2 DEF Locks
<1>6. PICK R : R = S \ {o}
  OBVIOUS
<1>7. R = T \ {o} /\ \A x \in R : f[x] = g[x]
  BY <1>1, <1>2, <1>6 DEF SameBut
<1>8. SumOver(f, R) = SumOver(g, R) /\ SumOver(f, R) \in Int
  <2>1. IsFiniteSet(R)
    BY <1>4, <1>6, FS_RemoveElement
  <2> QED
    BY <1>5, <1>6, <1>7, <2>1, SumSame, SumTakeOut
<1>9. SumOver(f, S) = SumOver(f, R) + CashOf(L, o, a) /\ CashOf(L, o, a) \in Int
  <2>1. CASE o \in S
    <3>1. SumOver(f, S) = f[o] + SumOver(f, R) /\ f[o] \in Int
      BY <1>4, <1>5, <1>6, <2>1, SumTakeOut
    <3>2. f[o] = CashOf(L, o, a)
      BY <1>1, <1>2, <2>1 DEF CashOf
    <3> QED
      BY <1>8, <3>1, <3>2
  <2>2. CASE o \notin S
    <3>1. R = S
      BY <1>6, <2>2
    <3>2. CashOf(L, o, a) = 0
      BY <1>2, <2>2 DEF CashOf
    <3> QED
      BY <1>8, <3>1, <3>2
  <2> QED
    BY <2>1, <2>2
<1>10. SumOver(g, T) = SumOver(g, R) + CashOf(M, o, a) /\ CashOf(M, o, a) \in Int
  <2>1. CASE o \in T
    <3>1. SumOver(g, T) = g[o] + SumOver(g, R) /\ g[o] \in Int
      BY <1>4, <1>5, <1>7, <2>1, SumTakeOut
    <3>2. g[o] = CashOf(M, o, a)
      BY <1>1, <1>2, <2>1 DEF CashOf
    <3> QED
      BY <1>8, <3>1, <3>2
  <2>2. CASE o \notin T
    <3>1. R = T
      BY <1>7, <2>2
    <3>2. CashOf(M, o, a) = 0
      BY <1>2, <2>2 DEF CashOf
    <3> QED
      BY <1>8, <3>1, <3>2
  <2> QED
    BY <2>1, <2>2
<1> QED
  BY <1>3, <1>8, <1>9, <1>10

LEMMA QtyInChanges ==
  ASSUME NEW L, NEW M, NEW o, NEW a, NEW s, SameBut(L, M, o),
         IsFiniteSet(DOMAIN L), IsFiniteSet(DOMAIN M),
         L \in [DOMAIN L -> Locks], M \in [DOMAIN M -> Locks]
  PROVE  QtyIn(M, a, s) = QtyIn(L, a, s) - QtyOf(L, o, a, s) + QtyOf(M, o, a, s)
<1>1. PICK f, g : /\ f = [x \in DOMAIN L |-> L[x].qty]
                  /\ g = [x \in DOMAIN M |-> M[x].qty]
  OBVIOUS
<1>2. PICK S, T :
        /\ S = { x \in DOMAIN L : L[x].account = a /\ L[x].side = "SELL" /\ L[x].symbol = s }
        /\ T = { x \in DOMAIN M : M[x].account = a /\ M[x].side = "SELL" /\ M[x].symbol = s }
  OBVIOUS
<1>3. QtyIn(L, a, s) = SumOver(f, S) /\ QtyIn(M, a, s) = SumOver(g, T)
  BY <1>1, <1>2 DEF QtyIn
<1>4. IsFiniteSet(S) /\ IsFiniteSet(T)
  BY <1>2, FS_Subset
<1>5. /\ \A x \in S : f[x] \in Int
      /\ \A x \in T : g[x] \in Int
  BY <1>1, <1>2 DEF Locks
<1>6. PICK R : R = S \ {o}
  OBVIOUS
<1>7. R = T \ {o} /\ \A x \in R : f[x] = g[x]
  BY <1>1, <1>2, <1>6 DEF SameBut
<1>8. SumOver(f, R) = SumOver(g, R) /\ SumOver(f, R) \in Int
  <2>1. IsFiniteSet(R)
    BY <1>4, <1>6, FS_RemoveElement
  <2> QED
    BY <1>5, <1>6, <1>7, <2>1, SumSame, SumTakeOut
<1>9. SumOver(f, S) = SumOver(f, R) + QtyOf(L, o, a, s) /\ QtyOf(L, o, a, s) \in Int
  <2>1. CASE o \in S
    <3>1. SumOver(f, S) = f[o] + SumOver(f, R) /\ f[o] \in Int
      BY <1>4, <1>5, <1>6, <2>1, SumTakeOut
    <3>2. f[o] = QtyOf(L, o, a, s)
      BY <1>1, <1>2, <2>1 DEF QtyOf
    <3> QED
      BY <1>8, <3>1, <3>2
  <2>2. CASE o \notin S
    <3>1. R = S
      BY <1>6, <2>2
    <3>2. QtyOf(L, o, a, s) = 0
      BY <1>2, <2>2 DEF QtyOf
    <3> QED
      BY <1>8, <3>1, <3>2
  <2> QED
    BY <2>1, <2>2
<1>10. SumOver(g, T) = SumOver(g, R) + QtyOf(M, o, a, s) /\ QtyOf(M, o, a, s) \in Int
  <2>1. CASE o \in T
    <3>1. SumOver(g, T) = g[o] + SumOver(g, R) /\ g[o] \in Int
      BY <1>4, <1>5, <1>7, <2>1, SumTakeOut
    <3>2. g[o] = QtyOf(M, o, a, s)
      BY <1>1, <1>2, <2>1 DEF QtyOf
    <3> QED
      BY <1>8, <3>1, <3>2
  <2>2. CASE o \notin T
    <3>1. R = T
      BY <1>7, <2>2
    <3>2. QtyOf(M, o, a, s) = 0
      BY <1>2, <2>2 DEF QtyOf
    <3> QED
      BY <1>8, <3>1, <3>2
  <2> QED
    BY <2>1, <2>2
<1> QED
  BY <1>3, <1>8, <1>9, <1>10

\* An account that exists: nothing available is negative, and what is locked
\* is what the lock records say.
Balanced(a) ==
  /\ cashAvailable[a] >= 0
  /\ cashLocked[a] = CashIn(locks, a)
  /\ \A s \in Symbols : /\ qtyAvailable[<<a, s>>] >= 0
                        /\ qtyLocked[<<a, s>>] = QtyIn(locks, a, s)

\* A lock record has the side and the symbol of its order, and is not overdrawn.
LockSound(ords, o, lock) ==
  /\ lock.side = ords[o].ticket.side
  /\ lock.symbol = ords[o].ticket.symbol
  /\ lock.cash >= 0 /\ lock.qty >= 0

LocksSound == \A o \in DOMAIN locks : LockSound(orders, o, locks[o])

\* No MARKET BUY: its price on the form says nothing of what it will cost.
BuysAreLimit == \A t \in Tickets : t.side = "BUY" => t.type = "LIMIT"

BuyOrdersAreLimit ==
  \A o \in DOMAIN orders :
    orders[o].ticket.side = "BUY" => orders[o].ticket.type = "LIMIT"

\* The quote of a scan stays until the scan is over.
ScanMarketable ==
  \A o \in toFill : Marketable(orders[o].ticket, quotes[orders[o].ticket.symbol])

AccountsInv ==
  /\ FundingInv
  /\ BuysAreLimit /\ BuyOrdersAreLimit
  /\ ScanMarketable
  /\ IsFiniteSet(DOMAIN locks)
  /\ LocksSound
  /\ \A a \in Users : Balanced(a)

LEMMA AccountsInvImplies == AccountsInv => LockedIsAccountedFor /\ NoNegativeBalances
<1> SUFFICES ASSUME AccountsInv PROVE LockedIsAccountedFor /\ NoNegativeBalances
  OBVIOUS
<1>1. LockedIsAccountedFor
  BY LockSums DEF AccountsInv, Balanced, LockedIsAccountedFor
<1>2. \A o \in DOMAIN locks : locks[o].cash \in Nat /\ locks[o].qty \in Nat
  BY DEF AccountsInv, LocksSound, LockSound, FundingInv, TradingInv, TradingOK, AccountTypeOK, Locks
<1>3. ASSUME NEW a
      PROVE  /\ CashIn(locks, a) \in Nat
             /\ \A s : QtyIn(locks, a, s) \in Nat
  <2>1. CashIn(locks, a) \in Nat
    <3>1. PICK f, S : /\ f = [o \in DOMAIN locks |-> locks[o].cash]
                      /\ S = { o \in DOMAIN locks : /\ locks[o].account = a
                                                    /\ locks[o].side = "BUY" }
      OBVIOUS
    <3>2. IsFiniteSet(S) /\ \A o \in S : f[o] \in Nat
      BY <1>2, <3>1, FS_Subset DEF AccountsInv
    <3> QED
      BY <3>1, <3>2, SumNotNegative DEF CashIn
  <2>2. ASSUME NEW s
        PROVE  QtyIn(locks, a, s) \in Nat
    <3>1. PICK f, S : /\ f = [o \in DOMAIN locks |-> locks[o].qty]
                      /\ S = { o \in DOMAIN locks : /\ locks[o].account = a
                                                    /\ locks[o].side = "SELL"
                                                    /\ locks[o].symbol = s }
      OBVIOUS
    <3>2. IsFiniteSet(S) /\ \A o \in S : f[o] \in Nat
      BY <1>2, <3>1, FS_Subset DEF AccountsInv
    <3> QED
      BY <3>1, <3>2, SumNotNegative DEF QtyIn
  <2> QED
    BY <2>1, <2>2
<1>4. NoNegativeBalances
  <2> SUFFICES ASSUME NEW a \in Users PROVE NonNegative(a)
    BY DEF NoNegativeBalances
  <2>1. Balanced(a)
    BY DEF AccountsInv
  <2>2. cashAvailable[a] >= 0 /\ cashLocked[a] >= 0
    <3>1. PICK c \in Nat : c = CashIn(locks, a)
      BY <1>3
    <3>2. cashAvailable[a] >= 0 /\ cashLocked[a] = c
      BY <2>1, <3>1 DEF Balanced
    <3> QED
      BY <3>2
  <2>3. ASSUME NEW s \in Symbols
        PROVE  qtyAvailable[<<a, s>>] >= 0 /\ qtyLocked[<<a, s>>] >= 0
    <3>1. PICK q \in Nat : q = QtyIn(locks, a, s)
      BY <1>3
    <3>2. \A z \in Symbols :
            qtyAvailable[<<a, z>>] >= 0 /\ qtyLocked[<<a, z>>] = QtyIn(locks, a, z)
      BY ONLY <2>1 DEF Balanced
    <3> QED
      BY ONLY <3>1, <3>2, s \in Symbols
  <2> QED
    BY <2>2, <2>3 DEF NonNegative
<1> QED
  BY <1>1, <1>4

\* A step that touches no account.
LEMMA AccountsUntouched ==
  ASSUME AccountsInv, FundingInv', KeptIn(orders, orders'),
         BuyOrdersAreLimit', ScanMarketable', UNCHANGED <<accountVars, deleted>>
  PROVE  AccountsInv'
<1>1. UNCHANGED <<cashAvailable, cashLocked, qtyAvailable, qtyLocked, locks, deleted>>
  BY DEF accountVars
<1>2. LocksSound'
  <2> SUFFICES ASSUME NEW o \in DOMAIN locks
               PROVE  LockSound(orders', o, locks[o])
    BY <1>1 DEF LocksSound
  <2>1. o \in DOMAIN orders /\ LockSound(orders, o, locks[o])
    BY DEF AccountsInv, LocksSound, FundingInv, LocksOfOrders, LockFor
  <2> QED
    BY <2>1 DEF KeptIn, LockSound
<1>3. \A a \in Users' : Balanced(a)'
  BY <1>1 DEF AccountsInv, Balanced, Users
<1> QED
  BY <1>1, <1>2, <1>3 DEF AccountsInv, BuysAreLimit

\* The record of one order changes, and an account by as much.
LEMMA BalancedStays ==
  ASSUME AccountsInv, TradingInv', NEW o, SameBut(locks, locks', o),
         IsFiniteSet(DOMAIN locks'), NEW a \in Users,
         cashAvailable'[a] >= 0,
         cashLocked'[a] = cashLocked[a] - CashOf(locks, o, a) + CashOf(locks', o, a),
         \A s \in Symbols :
           /\ qtyAvailable'[<<a, s>>] >= 0
           /\ qtyLocked'[<<a, s>>] = qtyLocked[<<a, s>>] - QtyOf(locks, o, a, s) + QtyOf(locks', o, a, s)
  PROVE  Balanced(a)'
<1>1. PICK L, M : L = locks /\ M = locks'
  OBVIOUS
<1>2. /\ L \in [DOMAIN L -> Locks] /\ M \in [DOMAIN M -> Locks]
      /\ IsFiniteSet(DOMAIN L) /\ IsFiniteSet(DOMAIN M) /\ SameBut(L, M, o)
  BY <1>1 DEF AccountsInv, FundingInv, TradingInv, TradingOK, AccountTypeOK
<1>3. CashIn(M, a) = CashIn(L, a) - CashOf(L, o, a) + CashOf(M, o, a)
  BY ONLY <1>2, CashInChanges
<1>4. ASSUME NEW s \in Symbols
      PROVE  QtyIn(M, a, s) = QtyIn(L, a, s) - QtyOf(L, o, a, s) + QtyOf(M, o, a, s)
  BY ONLY <1>2, QtyInChanges
<1>5. Balanced(a)
  BY DEF AccountsInv
<1> QED
  BY <1>1, <1>3, <1>4, <1>5 DEF Balanced

LEMMA FinitelyManyLocks ==
  ASSUME NEW L, NEW M, NEW o, SameBut(L, M, o), IsFiniteSet(DOMAIN L)
  PROVE  IsFiniteSet(DOMAIN M)
<1>1. IsFiniteSet(DOMAIN L \cup {o})
  BY FS_AddElement
<1>2. DOMAIN M \subseteq DOMAIN L \cup {o}
  BY DEF SameBut
<1> QED
  BY <1>1, <1>2, FS_Subset

\* No record of an account that is gone, or of a new order.
LEMMA NobodysLock ==
  ASSUME AccountsInv, NEW o, o \notin DOMAIN orders \/ orders[o].account \notin Users
  PROVE  o \notin DOMAIN locks
BY DEF AccountsInv, FundingInv, LocksOfOrders, LockFor

LEMMA AccountsInit == Init /\ BuysAreLimit => AccountsInv
<1> SUFFICES ASSUME Init, BuysAreLimit PROVE AccountsInv
  OBVIOUS
<1>1. FundingInv
  BY FundingInit
<1>2. /\ cashAvailable = [a \in Accounts |-> InitialCash]
      /\ cashLocked = [a \in Accounts |-> 0]
      /\ qtyAvailable = InitialShares
      /\ qtyLocked = [p \in Accounts \X Symbols |-> 0]
      /\ locks = <<>> /\ orders = <<>> /\ toFill = {}
  BY DEF Init, AccountInit, OMSInit
<1>3. IsFiniteSet(DOMAIN locks) /\ DOMAIN locks = {}
  BY <1>2, FS_EmptySet
<1>4. ASSUME NEW a
      PROVE  CashIn(locks, a) = 0 /\ \A s : QtyIn(locks, a, s) = 0
  <2>1. IsFiniteSet({}) /\ \A f : SumOver(f, {}) = 0
    BY SumStep, FS_EmptySet
  <2>2. { o \in DOMAIN locks : locks[o].account = a /\ locks[o].side = "BUY" } = {}
    BY <1>3
  <2>3. \A s : { o \in DOMAIN locks : /\ locks[o].account = a /\ locks[o].side = "SELL"
                                      /\ locks[o].symbol = s } = {}
    BY <1>3
  <2> QED
    BY <2>1, <2>2, <2>3 DEF CashIn, QtyIn
<1>5. ASSUME NEW a \in Users
      PROVE  Balanced(a)
  <2>1. a \in Accounts /\ CashIn(locks, a) = 0 /\ \A s \in Symbols : QtyIn(locks, a, s) = 0
    BY <1>4 DEF Users
  <2>2. cashAvailable[a] >= 0 /\ cashLocked[a] = 0
    BY <1>2, <2>1, AccountAssumption
  <2>3. ASSUME NEW s \in Symbols
        PROVE  qtyAvailable[<<a, s>>] >= 0 /\ qtyLocked[<<a, s>>] = 0
    <3>1. <<a, s>> \in Accounts \X Symbols
      BY <2>1
    <3>2. qtyAvailable[<<a, s>>] \in Nat
      BY <1>2, <3>1, AccountAssumption
    <3>3. qtyLocked[<<a, s>>] = 0
      <4>1. PICK p \in Accounts \X Symbols : p = <<a, s>>
        BY <3>1
      <4>2. qtyLocked[p] = 0
        BY ONLY <1>2, <4>1
      <4> QED
        BY <4>1, <4>2
    <3> QED
      BY <3>2, <3>3
  <2> QED
    BY <2>1, <2>2, <2>3 DEF Balanced
<1> QED
  BY <1>1, <1>2, <1>3, <1>5 DEF AccountsInv, BuyOrdersAreLimit, ScanMarketable, LocksSound

\* One component of a function on accounts, or on accounts and symbols, goes
\* up or down.
LEMMA CashMoves ==
  ASSUME NEW f \in [Accounts -> Int], NEW a \in Accounts, NEW d \in Int, NEW x \in Accounts
  PROVE  /\ f[x] \in Int
         /\ [f EXCEPT ![a] = @ + d][x] = IF x = a THEN f[x] + d ELSE f[x]
         /\ [f EXCEPT ![a] = @ - d][x] = IF x = a THEN f[x] - d ELSE f[x]
OBVIOUS

LEMMA SharesMove ==
  ASSUME NEW f \in [Accounts \X Symbols -> Int], NEW a \in Accounts, NEW z \in Symbols,
         NEW d \in Int, NEW x \in Accounts, NEW s \in Symbols
  PROVE  /\ f[<<x, s>>] \in Int
         /\ [f EXCEPT ![<<a, z>>] = @ + d][<<x, s>>]
              = IF x = a /\ s = z THEN f[<<x, s>>] + d ELSE f[<<x, s>>]
         /\ [f EXCEPT ![<<a, z>>] = @ - d][<<x, s>>]
              = IF x = a /\ s = z THEN f[<<x, s>>] - d ELSE f[<<x, s>>]
<1>1. PICK p \in Accounts \X Symbols, q \in Accounts \X Symbols : p = <<a, z>> /\ q = <<x, s>>
  OBVIOUS
<1>2. /\ f[q] \in Int
      /\ [f EXCEPT ![p] = @ + d][q] = IF q = p THEN f[q] + d ELSE f[q]
      /\ [f EXCEPT ![p] = @ - d][q] = IF q = p THEN f[q] - d ELSE f[q]
  OBVIOUS
<1>3. q = p <=> x = a /\ s = z
  BY <1>1
<1> QED
  BY <1>1, <1>2, <1>3

LEMMA BalancesAreIntegers ==
  ASSUME AccountsInv
  PROVE  /\ cashAvailable \in [Accounts -> Int] /\ cashLocked \in [Accounts -> Int]
         /\ qtyAvailable \in [Accounts \X Symbols -> Int]
         /\ qtyLocked \in [Accounts \X Symbols -> Int]
         /\ locks \in [DOMAIN locks -> Locks] /\ DOMAIN locks \subseteq OrderIds
BY DEF AccountsInv, FundingInv, TradingInv, TradingOK, AccountTypeOK

LEMMA SoundLocksStay ==
  ASSUME AccountsInv, KeptIn(orders, orders'), NEW o, SameBut(locks, locks', o),
         o \in DOMAIN locks' => LockSound(orders', o, locks'[o])
  PROVE  LocksSound'
<1> SUFFICES ASSUME NEW x \in DOMAIN locks', x # o
             PROVE  LockSound(orders', x, locks'[x])
  BY DEF LocksSound
<1>1. x \in DOMAIN locks /\ locks'[x] = locks[x]
  BY DEF SameBut
<1>2. x \in DOMAIN orders /\ LockSound(orders, x, locks[x])
  BY <1>1 DEF AccountsInv, LocksSound, FundingInv, LocksOfOrders, LockFor
<1> QED
  BY <1>1, <1>2 DEF LockSound, KeptIn

\* POST /orders, accepted: what becomes unavailable is what the record says.
LEMMA PlaceAcceptedAccounts ==
  ASSUME AccountsInv, NEW o \in OrderIds, NEW a \in Accounts, NEW t \in Tickets,
         PlaceAccepted(o, a, t)
  PROVE  AccountsInv'
<1>1. /\ a \in Users /\ toFill = {} /\ deleted' = deleted
      /\ LockFunds(a, o, t.symbol, t.side, t.qty, t.price)
      /\ Enter(o, a, t, "ROUTED")
  BY DEF PlaceAccepted, AcceptAndRoute, Idle
<1>2. /\ o \notin DOMAIN orders /\ DOMAIN orders' = DOMAIN orders \cup {o}
      /\ \A x \in DOMAIN orders : orders'[x] = orders[x]
      /\ orders'[o].ticket = t /\ KeptIn(orders, orders')
  BY <1>1, EnterEffect
<1>3. FundingInv'
  BY PlaceAcceptedFunding DEF AccountsInv
<1>4. /\ t.qty \in Nat /\ t.side \in Sides /\ t.symbol \in Symbols
      /\ t.side = "BUY" => t.type = "LIMIT"
      /\ t.price \in Nat \cup {NoPrice}
  BY OMSAssumption DEF TicketType, AccountsInv, BuysAreLimit
<1>5. PICK cost \in Nat, shares \in Nat :
        /\ cost = IF t.side = "BUY" THEN t.price * t.qty ELSE 0
        /\ shares = IF t.side = "BUY" THEN 0 ELSE t.qty
  <2>1. (IF t.side = "BUY" THEN t.price * t.qty ELSE 0) \in Nat
    BY <1>1, <1>4 DEF LockFunds, CanLock
  <2>2. (IF t.side = "BUY" THEN 0 ELSE t.qty) \in Nat
    BY <1>4
  <2> QED
    BY <2>1, <2>2
<1>6. PICK lock : lock = [account |-> a, side |-> t.side, symbol |-> t.symbol,
                          cash |-> cost, qty |-> t.qty]
  OBVIOUS
<1>7. /\ cashAvailable' = [cashAvailable EXCEPT ![a] = @ - cost]
      /\ cashLocked' = [cashLocked EXCEPT ![a] = @ + cost]
      /\ qtyAvailable' = [qtyAvailable EXCEPT ![<<a, t.symbol>>] = @ - shares]
      /\ qtyLocked' = [qtyLocked EXCEPT ![<<a, t.symbol>>] = @ + shares]
      /\ locks' = Put(locks, o, lock)
  BY <1>1, <1>5, <1>6 DEF LockFunds
<1>8. /\ o \notin DOMAIN locks
      /\ DOMAIN locks' = DOMAIN locks \cup {o} /\ locks'[o] = lock
      /\ SameBut(locks, locks', o)
  BY <1>2, <1>7, NobodysLock DEF Put, SameBut
<1>9. LocksSound'
  <2>1. LockSound(orders', o, locks'[o])
    BY <1>2, <1>4, <1>6, <1>8 DEF LockSound
  <2> QED
    BY <1>2, <1>8, <2>1, SoundLocksStay
<1>10. IsFiniteSet(DOMAIN locks')
  BY <1>8, FinitelyManyLocks DEF AccountsInv
<1>11. ASSUME NEW x \in Users
       PROVE  Balanced(x)'
  <2>1. x \in Accounts /\ Balanced(x) /\ Balanced(a)
    BY <1>1 DEF Users, AccountsInv
  <2>2. /\ CashOf(locks, o, x) = 0
        /\ CashOf(locks', o, x) = IF x = a THEN cost ELSE 0
    BY <1>4, <1>5, <1>6, <1>8 DEF CashOf, Sides
  <2>3. /\ cashAvailable'[x] = IF x = a THEN cashAvailable[x] - cost ELSE cashAvailable[x]
        /\ cashLocked'[x] = IF x = a THEN cashLocked[x] + cost ELSE cashLocked[x]
        /\ cashAvailable[x] \in Int /\ cashLocked[x] \in Int
    BY <1>7, <2>1, CashMoves, BalancesAreIntegers
  <2>4. cashAvailable[a] >= cost
    BY <1>1, <1>5, <2>1 DEF LockFunds, CanLock, Balanced
  <2>5. /\ cashAvailable'[x] >= 0
        /\ cashLocked'[x] = cashLocked[x] - CashOf(locks, o, x) + CashOf(locks', o, x)
    BY <2>1, <2>2, <2>3, <2>4 DEF Balanced
  <2>6. ASSUME NEW s \in Symbols
        PROVE  /\ qtyAvailable'[<<x, s>>] >= 0
               /\ qtyLocked'[<<x, s>>]
                    = qtyLocked[<<x, s>>] - QtyOf(locks, o, x, s) + QtyOf(locks', o, x, s)
    <3>1. /\ QtyOf(locks, o, x, s) = 0
          /\ QtyOf(locks', o, x, s) = IF x = a /\ s = t.symbol THEN shares ELSE 0
      BY <1>4, <1>5, <1>6, <1>8 DEF QtyOf, Sides
    <3>2. /\ qtyAvailable'[<<x, s>>]
               = IF x = a /\ s = t.symbol THEN qtyAvailable[<<x, s>>] - shares
                 ELSE qtyAvailable[<<x, s>>]
          /\ qtyLocked'[<<x, s>>]
               = IF x = a /\ s = t.symbol THEN qtyLocked[<<x, s>>] + shares
                 ELSE qtyLocked[<<x, s>>]
          /\ qtyAvailable[<<x, s>>] \in Int /\ qtyLocked[<<x, s>>] \in Int
      BY <1>4, <1>7, <2>1, SharesMove, BalancesAreIntegers
    <3>3. qtyAvailable[<<a, t.symbol>>] >= shares
      BY <1>1, <1>4, <1>5, <2>1 DEF LockFunds, CanLock, Balanced
    <3>4. qtyAvailable[<<x, s>>] >= 0
      BY <2>1 DEF Balanced
    <3> QED
      BY <3>1, <3>2, <3>3, <3>4
  <2> QED
    BY <1>3, <1>8, <1>10, <2>5, <2>6, BalancedStays DEF FundingInv
<1>12. BuyOrdersAreLimit'
  BY <1>2, <1>4 DEF AccountsInv, BuyOrdersAreLimit
<1>13. ScanMarketable'
  BY <1>1, <1>2 DEF PlaceAccepted, ScanMarketable
<1> QED
  BY <1>1, <1>3, <1>9, <1>10, <1>11, <1>12, <1>13 DEF AccountsInv, BuysAreLimit, Users

LEMMA DroppedLock ==
  ASSUME AccountsInv, NEW o, locks' = Drop(locks, o)
  PROVE  DOMAIN locks' = DOMAIN locks \ {o} /\ SameBut(locks, locks', o)
<1>1. DOMAIN locks \subseteq OrderIds /\ locks \in [DOMAIN locks -> Locks]
  BY BalancesAreIntegers
<1>2. /\ DOMAIN Drop(locks, o) = DOMAIN locks \ {o}
      /\ \A x \in DOMAIN locks \ {o} : Drop(locks, o)[x] = locks[x]
  BY <1>1, DropProperties
<1> QED
  BY <1>2 DEF SameBut

\* unlock_funds moves what the record of its own order says, in the account
\* and the symbol of the record.
LEMMA UnlockFundsMoves ==
  ASSUME AccountTypeOK, NEW o \in DOMAIN locks, UnlockFunds(o)
  PROVE  \E a \in Accounts, z \in Symbols, cost \in Int, shares \in Int :
           /\ a = locks[o].account /\ z = locks[o].symbol
           /\ cost = IF locks[o].side = "BUY" THEN locks[o].cash ELSE 0
           /\ shares = IF locks[o].side = "BUY" THEN 0 ELSE locks[o].qty
           /\ cashLocked' = [cashLocked EXCEPT ![a] = @ - cost]
           /\ cashAvailable' = [cashAvailable EXCEPT ![a] = @ + cost]
           /\ qtyLocked' = [qtyLocked EXCEPT ![<<a, z>>] = @ - shares]
           /\ qtyAvailable' = [qtyAvailable EXCEPT ![<<a, z>>] = @ + shares]
           /\ locks' = Drop(locks, o)
<1> DEFINE cost == IF locks[o].side = "BUY" THEN locks[o].cash ELSE 0
           shares == IF locks[o].side = "BUY" THEN 0 ELSE locks[o].qty
           a == locks[o].account
           z == locks[o].symbol
<1>1. locks[o] \in Locks
  BY DEF AccountTypeOK
<1>2. a \in Accounts /\ z \in Symbols /\ cost \in Int /\ shares \in Int
  BY <1>1 DEF Locks
<1>3. /\ cashLocked' = [cashLocked EXCEPT ![a] = @ - cost]
      /\ cashAvailable' = [cashAvailable EXCEPT ![a] = @ + cost]
      /\ qtyLocked' = [qtyLocked EXCEPT ![<<a, z>>] = @ - shares]
      /\ qtyAvailable' = [qtyAvailable EXCEPT ![<<a, z>>] = @ + shares]
      /\ locks' = Drop(locks, o)
  <2>1. HasLock(o)
    BY DEF HasLock
  <2> QED
    BY <2>1 DEF UnlockFunds
<1> USE <1>2
<1> WITNESS a \in Accounts, z \in Symbols, cost \in Int, shares \in Int
<1> QED
  BY <1>3

\* DELETE /orders/{id}: the whole record goes back.
LEMMA CancelAccounts ==
  ASSUME AccountsInv, NEW o \in OrderIds, Cancel(o)
  PROVE  AccountsInv'
<1>1. /\ o \in DOMAIN orders /\ UnlockFunds(o) /\ CancelOrder(o)
      /\ toFill = {} /\ toFill' = {} /\ deleted' = deleted
  BY DEF Cancel, Idle, appVars
<1>2. DOMAIN orders' = DOMAIN orders /\ KeptIn(orders, orders')
  BY <1>1, CancelOrderEffect DEF AccountsInv, FundingInv, TradingInv, TradingOK
<1>3. FundingInv'
  BY CancelFunding DEF AccountsInv
<1>4. BuyOrdersAreLimit'
  BY <1>2 DEF AccountsInv, BuyOrdersAreLimit, KeptIn
<1>5. ScanMarketable'
  BY <1>1 DEF ScanMarketable
<1>6. CASE o \notin DOMAIN locks
  <2>1. UNCHANGED <<accountVars, deleted>>
    BY <1>1, <1>6 DEF UnlockFunds, HasLock
  <2> QED
    BY <1>2, <1>3, <1>4, <1>5, <2>1, AccountsUntouched
<1>7. CASE o \in DOMAIN locks
  <2>1. PICK a \in Accounts, z \in Symbols, cost \in Int, shares \in Int :
          /\ a = locks[o].account /\ z = locks[o].symbol
          /\ cost = IF locks[o].side = "BUY" THEN locks[o].cash ELSE 0
          /\ shares = IF locks[o].side = "BUY" THEN 0 ELSE locks[o].qty
          /\ cashLocked' = [cashLocked EXCEPT ![a] = @ - cost]
          /\ cashAvailable' = [cashAvailable EXCEPT ![a] = @ + cost]
          /\ qtyLocked' = [qtyLocked EXCEPT ![<<a, z>>] = @ - shares]
          /\ qtyAvailable' = [qtyAvailable EXCEPT ![<<a, z>>] = @ + shares]
          /\ locks' = Drop(locks, o)
    BY <1>1, <1>7, UnlockFundsMoves DEF AccountsInv, FundingInv, TradingInv, TradingOK
  <2>2. locks[o] \in Locks /\ cost >= 0 /\ shares >= 0
    <3>1. LockSound(orders, o, locks[o]) /\ locks[o] \in Locks
      BY <1>7, BalancesAreIntegers DEF AccountsInv, LocksSound
    <3> QED
      BY <2>1, <3>1 DEF LockSound, Locks
  <2>3. ASSUME NEW x
        PROVE  /\ CashOf(locks, o, x) = IF x = a THEN cost ELSE 0
               /\ \A s : QtyOf(locks, o, x, s) = IF x = a /\ s = z THEN shares ELSE 0
    <3>1. CashOf(locks, o, x) = IF x = a THEN cost ELSE 0
      BY <1>7, <2>1 DEF CashOf
    <3>2. ASSUME NEW s
          PROVE  QtyOf(locks, o, x, s) = IF x = a /\ s = z THEN shares ELSE 0
      BY <1>7, <2>1, <2>2 DEF QtyOf, Locks, Sides
    <3> QED
      BY <3>1, <3>2
  <2>4. DOMAIN locks' = DOMAIN locks \ {o} /\ SameBut(locks, locks', o)
    BY <2>1, DroppedLock
  <2>5. LocksSound'
    BY <1>2, <2>4, SoundLocksStay
  <2>6. IsFiniteSet(DOMAIN locks')
    BY <2>4, FinitelyManyLocks DEF AccountsInv
  <2>7. ASSUME NEW x \in Users
        PROVE  Balanced(x)'
    <3>1. x \in Accounts /\ Balanced(x)
      BY DEF Users, AccountsInv
    <3>2. /\ CashOf(locks, o, x) = IF x = a THEN cost ELSE 0
          /\ CashOf(locks', o, x) = 0
      BY <2>3, <2>4 DEF CashOf
    <3>3. /\ cashAvailable'[x] = IF x = a THEN cashAvailable[x] + cost ELSE cashAvailable[x]
          /\ cashLocked'[x] = IF x = a THEN cashLocked[x] - cost ELSE cashLocked[x]
          /\ cashAvailable[x] \in Int /\ cashLocked[x] \in Int
      BY <2>1, <3>1, CashMoves, BalancesAreIntegers
    <3>4. /\ cashAvailable'[x] >= 0
          /\ cashLocked'[x] = cashLocked[x] - CashOf(locks, o, x) + CashOf(locks', o, x)
      BY <2>2, <3>1, <3>2, <3>3 DEF Balanced
    <3>5. ASSUME NEW s \in Symbols
          PROVE  /\ qtyAvailable'[<<x, s>>] >= 0
                 /\ qtyLocked'[<<x, s>>]
                      = qtyLocked[<<x, s>>] - QtyOf(locks, o, x, s) + QtyOf(locks', o, x, s)
      <4>1. /\ QtyOf(locks, o, x, s) = IF x = a /\ s = z THEN shares ELSE 0
            /\ QtyOf(locks', o, x, s) = 0
        BY <2>3, <2>4 DEF QtyOf
      <4>2. /\ qtyAvailable'[<<x, s>>]
                 = IF x = a /\ s = z THEN qtyAvailable[<<x, s>>] + shares
                   ELSE qtyAvailable[<<x, s>>]
            /\ qtyLocked'[<<x, s>>]
                 = IF x = a /\ s = z THEN qtyLocked[<<x, s>>] - shares
                   ELSE qtyLocked[<<x, s>>]
            /\ qtyAvailable[<<x, s>>] \in Int /\ qtyLocked[<<x, s>>] \in Int
        BY <2>1, <3>1, SharesMove, BalancesAreIntegers
      <4>3. qtyAvailable[<<x, s>>] >= 0
        BY <3>1 DEF Balanced
      <4> QED
        BY <2>2, <4>1, <4>2, <4>3
    <3> QED
      BY <1>3, <2>4, <2>6, <3>4, <3>5, BalancedStays DEF FundingInv
  <2> QED
    BY <1>1, <1>3, <1>4, <1>5, <2>5, <2>6, <2>7 DEF AccountsInv, BuysAreLimit, Users
<1> QED
  BY <1>6, <1>7

\* Deposits and withdrawals.
LEMMA CashAccounts ==
  ASSUME AccountsInv, NEW a \in Accounts, NEW amount \in Amounts,
         Deposit(a, amount) \/ Withdraw(a, amount)
  PROVE  AccountsInv'
<1>1. amount \in Nat
  BY TradingAssumption
<1>2. UNCHANGED <<cashLocked, qtyAvailable, qtyLocked, locks, orders, toFill, quotes, deleted>>
  BY DEF Deposit, Withdraw, DepositCash, WithdrawCash, omsVars, appVars
<1>3. FundingInv'
  BY DepositFunding DEF AccountsInv
<1>4. ASSUME NEW x \in Users
      PROVE  Balanced(x)'
  <2>1. x \in Accounts /\ Balanced(x) /\ cashAvailable \in [Accounts -> Int]
    BY BalancesAreIntegers DEF Users, AccountsInv
  <2>2. cashAvailable'[x] >= 0
    <3>1. CASE Deposit(a, amount)
      BY <1>1, <2>1, <3>1 DEF Deposit, DepositCash, Balanced
    <3>2. CASE Withdraw(a, amount)
      BY <1>1, <2>1, <3>2 DEF Withdraw, WithdrawCash, Balanced
    <3> QED
      BY <3>1, <3>2
  <2> QED
    BY <1>2, <2>1, <2>2 DEF Balanced
<1>5. LocksSound' /\ BuyOrdersAreLimit' /\ ScanMarketable'
  BY <1>2 DEF AccountsInv, LocksSound, BuyOrdersAreLimit, ScanMarketable
<1> QED
  BY <1>2, <1>3, <1>4, <1>5 DEF AccountsInv, BuysAreLimit, Users

\* DELETE /admin/users/{id}: the records of the others stay as they are.
LEMMA DeleteUserAccounts ==
  ASSUME AccountsInv, NEW a \in Deletable, DeleteUser(a)
  PROVE  AccountsInv'
<1>1. /\ UNCHANGED <<orders, toFill, quotes>> /\ deleted' = deleted \cup {a}
      /\ DeleteAccount(a)
  BY DEF DeleteUser, omsVars
<1>2. FundingInv'
  BY DeleteUserFunding DEF AccountsInv
<1>3. /\ DOMAIN locks' = { o \in DOMAIN locks : locks[o].account # a }
      /\ \A o \in DOMAIN locks' : locks'[o] = locks[o]
      /\ Users' = Users \ {a}
  BY <1>1 DEF DeleteAccount, Restrict, Users
<1>4. IsFiniteSet(DOMAIN locks')
  BY <1>3, FS_Subset DEF AccountsInv
<1>5. LocksSound' /\ BuyOrdersAreLimit' /\ ScanMarketable'
  BY <1>1, <1>3 DEF AccountsInv, LocksSound, BuyOrdersAreLimit, ScanMarketable
<1>6. ASSUME NEW x \in Users \ {a}
      PROVE  Balanced(x)'
  <2>1. x \in Accounts /\ Balanced(x)
    BY DEF Users, AccountsInv
  <2>2. CashIn(locks', x) = CashIn(locks, x)
    <3>1. PICK S, f, g : /\ S = { o \in DOMAIN locks : locks[o].account = x /\ locks[o].side = "BUY" }
                         /\ f = [o \in DOMAIN locks |-> locks[o].cash]
                         /\ g = [o \in DOMAIN locks' |-> locks'[o].cash]
      OBVIOUS
    <3>2. /\ S = { o \in DOMAIN locks' : locks'[o].account = x /\ locks'[o].side = "BUY" }
          /\ \A o \in S : f[o] = g[o]
      BY <1>3, <3>1
    <3>3. IsFiniteSet(S)
      BY <3>1, FS_Subset DEF AccountsInv
    <3>4. SumOver(f, S) = SumOver(g, S)
      BY <3>2, <3>3, SumSame
    <3> QED
      BY <3>1, <3>2, <3>4 DEF CashIn
  <2>3. ASSUME NEW s \in Symbols
        PROVE  QtyIn(locks', x, s) = QtyIn(locks, x, s)
    <3>1. PICK S, f, g : /\ S = { o \in DOMAIN locks : /\ locks[o].account = x
                                                       /\ locks[o].side = "SELL"
                                                       /\ locks[o].symbol = s }
                         /\ f = [o \in DOMAIN locks |-> locks[o].qty]
                         /\ g = [o \in DOMAIN locks' |-> locks'[o].qty]
      OBVIOUS
    <3>2. /\ S = { o \in DOMAIN locks' : /\ locks'[o].account = x
                                         /\ locks'[o].side = "SELL"
                                         /\ locks'[o].symbol = s }
          /\ \A o \in S : f[o] = g[o]
      BY <1>3, <3>1
    <3>3. IsFiniteSet(S)
      BY <3>1, FS_Subset DEF AccountsInv
    <3>4. SumOver(f, S) = SumOver(g, S)
      BY <3>2, <3>3, SumSame
    <3> QED
      BY <3>1, <3>2, <3>4 DEF QtyIn
  <2>4. cashAvailable'[x] = cashAvailable[x] /\ cashLocked'[x] = cashLocked[x]
    BY <1>1, <2>1, BalancesAreIntegers DEF DeleteAccount
  <2>5. ASSUME NEW s \in Symbols
        PROVE  /\ qtyAvailable'[<<x, s>>] = qtyAvailable[<<x, s>>]
               /\ qtyLocked'[<<x, s>>] = qtyLocked[<<x, s>>]
    <3>1. PICK p \in Accounts \X Symbols : p = <<x, s>>
      BY <2>1
    <3>2. p[1] # a
      BY <3>1
    <3>3. qtyAvailable'[p] = qtyAvailable[p] /\ qtyLocked'[p] = qtyLocked[p]
      BY <1>1, <3>2 DEF DeleteAccount
    <3> QED
      BY <3>1, <3>3
  <2> QED
    BY <2>1, <2>2, <2>3, <2>4, <2>5 DEF Balanced
<1> QED
  BY <1>2, <1>3, <1>4, <1>5, <1>6 DEF AccountsInv, BuysAreLimit

\* on_market_data: whom the scan takes, the quote can fill.
LEMMA MarketDataAccounts ==
  ASSUME AccountsInv, NEW s \in Symbols, NEW quote \in Quotes, MarketData(s, quote)
  PROVE  AccountsInv'
<1>1. /\ UNCHANGED <<orders, accountVars, deleted>>
      /\ quotes' = [quotes EXCEPT ![s] = quote]
      /\ \A o \in toFill' : /\ orders[o].ticket.symbol = s
                            /\ Marketable(orders[o].ticket, quote)
  BY DEF MarketData, omsVars
<1>2. FundingInv'
  BY MarketDataFunding DEF AccountsInv
<1>3. quotes'[s] = quote
  BY <1>1 DEF AccountsInv, FundingInv, TradingInv, TradingOK, AppTypeOK
<1>4. KeptIn(orders, orders')
  BY <1>1 DEF KeptIn
<1>5. BuyOrdersAreLimit' /\ ScanMarketable'
  BY <1>1, <1>3 DEF AccountsInv, BuyOrdersAreLimit, ScanMarketable
<1> QED
  BY <1>1, <1>2, <1>4, <1>5, AccountsUntouched

\* The steps that change neither an account, nor a form, nor a quote the scan
\* still needs.
LEMMA OtherStepsAccounts ==
  ASSUME AccountsInv, FundingInv', UNCHANGED <<accountVars, deleted>>,
         KeptIn(orders, orders'),
         \A o \in DOMAIN orders' : o \notin DOMAIN orders => orders'[o].ticket \in Tickets,
         toFill' = {} \/ UNCHANGED <<toFill, quotes>>
  PROVE  AccountsInv'
<1>1. BuyOrdersAreLimit'
  BY DEF AccountsInv, BuyOrdersAreLimit, BuysAreLimit, KeptIn
<1>2. ScanMarketable'
  <2> SUFFICES ASSUME NEW o \in toFill'
               PROVE  Marketable(orders'[o].ticket, quotes'[orders'[o].ticket.symbol])
    BY DEF ScanMarketable
  <2>1. o \in toFill /\ quotes' = quotes
    OBVIOUS
  <2>2. o \in DOMAIN orders /\ Marketable(orders[o].ticket, quotes[orders[o].ticket.symbol])
    BY <2>1 DEF AccountsInv, ScanMarketable, FundingInv, TradingInv, TradingOK, AppTypeOK
  <2> QED
    BY <2>1, <2>2 DEF KeptIn
<1> QED
  BY <1>1, <1>2, AccountsUntouched

\* _try_engine_a_fill: the buyer pays no more than was set aside and gets the
\* rest back, the seller delivers what was set aside.
LEMMA FillAtMarketAccounts ==
  ASSUME AccountsInv, NEW o \in OrderIds, FillAtMarket(o)
  PROVE  AccountsInv'
<1>1. /\ o \in toFill /\ o \in DOMAIN orders /\ IsOpen(orders[o])
      /\ FillFromMarket(o, Remaining(orders[o]))
      /\ SettleMarketTrade(orders[o].account, o, orders[o].ticket.symbol,
           orders[o].ticket.side,
           MarketSide(orders[o].ticket, quotes[orders[o].ticket.symbol]),
           Remaining(orders[o]))
      /\ toFill' = toFill \ {o} /\ UNCHANGED <<quotes, deleted>>
  BY DEF FillAtMarket, AccountsInv, FundingInv, TradingInv, TradingOK, AppTypeOK, OneHandler
<1>2. FundingInv'
  BY FillAtMarketFunding DEF AccountsInv
<1>3. PICK ord : ord = orders[o]
  OBVIOUS
<1>4. /\ ord \in Orders /\ ord.account \in Accounts /\ ord.ticket.symbol \in Symbols
      /\ ord.ticket.side \in Sides /\ ord.ticket.price \in Nat \cup {NoPrice}
      /\ ord.ticket.side = "BUY" => ord.ticket.type = "LIMIT"
  BY <1>1, <1>3, OrderFacts
     DEF Orders, TicketType, AccountsInv, BuyOrdersAreLimit
<1>5. PICK q \in Nat : q = Remaining(ord) /\ q > 0
  <2>1. Remaining(orders[o]) > 0
    BY <1>1, OrderFacts DEF OrderMeans, AccountsInv
  <2>2. Remaining(ord) \in Int
    BY <1>4 DEF Orders, TicketType, Remaining
  <2> QED
    BY <1>3, <2>1, <2>2
<1>6. PICK price \in Nat : /\ price = MarketSide(ord.ticket, quotes[ord.ticket.symbol])
                           /\ ord.ticket.side = "BUY" => price <= EffectivePrice(ord.ticket)
  <2>1. PICK quote : quote = quotes[ord.ticket.symbol]
    OBVIOUS
  <2>2. Marketable(ord.ticket, quote)
    BY <1>1, <1>3, <2>1 DEF AccountsInv, ScanMarketable
  <2>3. quote \in [bid : Nat, ask : Nat]
    BY <1>4, <2>1, <2>2, TradingAssumption
       DEF Marketable, AccountsInv, FundingInv, TradingInv, TradingOK, AppTypeOK
  <2>4. MarketSide(ord.ticket, quote) \in Nat
    BY <2>3 DEF MarketSide
  <2>5. ord.ticket.side = "BUY" => MarketSide(ord.ticket, quote) <= EffectivePrice(ord.ticket)
    BY <2>2 DEF MarketSide, Marketable
  <2> QED
    BY <2>1, <2>4, <2>5
<1>7. PICK cost \in Nat : cost = price * q
  OBVIOUS
<1>8. PICK a \in Accounts, z \in Symbols : a = ord.account /\ z = ord.ticket.symbol
  BY <1>4
<1>9. DOMAIN orders' = DOMAIN orders /\ KeptIn(orders, orders')
  BY <1>1, <1>3, <1>5, FillFromMarketEffect DEF AccountsInv, FundingInv, TradingInv, TradingOK
<1>10. BuyOrdersAreLimit' /\ ScanMarketable'
  <2>1. toFill \subseteq DOMAIN orders
    BY DEF AccountsInv, FundingInv, TradingInv, TradingOK, AppTypeOK
  <2> QED
    BY <1>1, <1>9, <2>1 DEF AccountsInv, BuyOrdersAreLimit, ScanMarketable, KeptIn
<1>11. /\ locks' = Drop(locks, o)
       /\ DOMAIN locks' = DOMAIN locks \ {o} /\ SameBut(locks, locks', o)
  BY <1>1, DroppedLock DEF SettleMarketTrade
<1>12. LocksSound'
  BY <1>9, <1>11, SoundLocksStay
<1>13. IsFiniteSet(DOMAIN locks')
  BY <1>11, FinitelyManyLocks DEF AccountsInv
<1>14. a \in Users => o \in DOMAIN locks /\ FundedBy(ord, o, locks)
  BY <1>1, <1>3, <1>8 DEF AccountsInv, FundingInv, OrdersFunded, FundedBy
<1>15. o \in DOMAIN locks =>
         /\ locks[o].account = a /\ locks[o].side = ord.ticket.side /\ locks[o].symbol = z
         /\ locks[o].cash \in Nat /\ locks[o].qty \in Nat
  <2>1. o \in DOMAIN locks => /\ LockFor(orders, Users, o, locks[o])
                              /\ LockSound(orders, o, locks[o]) /\ locks[o] \in Locks
    BY BalancesAreIntegers DEF AccountsInv, LocksSound, FundingInv, LocksOfOrders
  <2> QED
    BY <1>3, <1>8, <2>1 DEF LockFor, LockSound, Locks
<1>16. \A x, s : CashOf(locks', o, x) = 0 /\ QtyOf(locks', o, x, s) = 0
  BY <1>11 DEF CashOf, QtyOf
<1>17. CASE ord.ticket.side = "BUY"
  <2>1. PICK excess \in Int :
          excess = IF o \in DOMAIN locks
                   THEN IF locks[o].cash - cost > 0 THEN locks[o].cash - cost ELSE 0
                   ELSE 0
    BY <1>15
  <2>2. /\ cashLocked' = [cashLocked EXCEPT ![a] = @ - cost - excess]
        /\ cashAvailable' = [cashAvailable EXCEPT ![a] = @ + excess]
        /\ qtyAvailable' = [qtyAvailable EXCEPT ![<<a, z>>] = @ + q]
        /\ UNCHANGED qtyLocked
    BY <1>1, <1>3, <1>5, <1>6, <1>7, <1>8, <1>17, <2>1 DEF SettleMarketTrade, HasLock
  <2>3. ASSUME a \in Users
        PROVE  excess + cost = locks[o].cash /\ excess >= 0
    <3>1. ord.ticket.price \in Nat /\ locks[o].cash >= ord.ticket.price * q
      BY <1>1, <1>3, <1>4, <1>5, <1>14, <1>17, <2>3 DEF FundedBy
    <3>2. PICK p \in Nat : p = ord.ticket.price
      BY <3>1
    <3>3. price <= p
      BY <1>4, <1>6, <1>17, <3>1, <3>2, CommonAssumption DEF EffectivePrice
    <3>4. price * q <= p * q
      BY <3>3, CostBounded
    <3>5. locks[o].cash >= cost /\ locks[o].cash \in Nat
      BY <1>7, <1>14, <1>15, <2>3, <3>1, <3>2, <3>4
    <3> QED
      BY <1>14, <2>1, <2>3, <3>5
  <2>4. ASSUME NEW x \in Users
        PROVE  Balanced(x)'
    <3>1. x \in Accounts /\ Balanced(x)
      BY DEF Users, AccountsInv
    <3>2. CashOf(locks, o, x) = IF x = a THEN cost + excess ELSE 0
      <4>1. CASE x = a
        BY <1>14, <1>15, <1>17, <2>3, <4>1 DEF CashOf
      <4>2. CASE x # a
        BY <1>15, <4>2 DEF CashOf
      <4> QED
        BY <4>1, <4>2
    <3>3. /\ cashAvailable'[x] = IF x = a THEN cashAvailable[x] + excess ELSE cashAvailable[x]
          /\ cashLocked'[x] = IF x = a THEN cashLocked[x] - cost - excess ELSE cashLocked[x]
          /\ cashAvailable[x] \in Int /\ cashLocked[x] \in Int
      BY <2>2, <3>1, BalancesAreIntegers
    <3>4. /\ cashAvailable'[x] >= 0
          /\ cashLocked'[x] = cashLocked[x] - CashOf(locks, o, x) + CashOf(locks', o, x)
      BY <1>16, <2>3, <3>1, <3>2, <3>3 DEF Balanced
    <3>5. ASSUME NEW s \in Symbols
          PROVE  /\ qtyAvailable'[<<x, s>>] >= 0
                 /\ qtyLocked'[<<x, s>>]
                      = qtyLocked[<<x, s>>] - QtyOf(locks, o, x, s) + QtyOf(locks', o, x, s)
      <4>1. QtyOf(locks, o, x, s) = 0
        BY <1>15, <1>17 DEF QtyOf
      <4>2. /\ qtyAvailable'[<<x, s>>]
                 = IF x = a /\ s = z THEN qtyAvailable[<<x, s>>] + q
                   ELSE qtyAvailable[<<x, s>>]
            /\ qtyAvailable[<<x, s>>] \in Int /\ qtyLocked[<<x, s>>] \in Int
        BY <2>2, <3>1, SharesMove, BalancesAreIntegers
      <4>3. qtyAvailable[<<x, s>>] >= 0
        BY <3>1 DEF Balanced
      <4> QED
        BY <1>16, <2>2, <4>1, <4>2, <4>3
    <3> QED
      BY <1>2, <1>11, <1>13, <3>4, <3>5, BalancedStays DEF FundingInv
  <2> QED
    BY <1>1, <1>2, <1>10, <1>12, <1>13, <2>4 DEF AccountsInv, BuysAreLimit, Users
<1>18. CASE ord.ticket.side = "SELL"
  <2>1. /\ cashAvailable' = [cashAvailable EXCEPT ![a] = @ + cost]
        /\ qtyLocked' = [qtyLocked EXCEPT ![<<a, z>>] = @ - q]
        /\ UNCHANGED <<cashLocked, qtyAvailable>>
    BY <1>1, <1>3, <1>5, <1>6, <1>7, <1>8, <1>18 DEF SettleMarketTrade
  <2>2. a \in Users => locks[o].qty = q
    BY <1>1, <1>3, <1>5, <1>14, <1>18 DEF FundedBy
  <2>3. ASSUME NEW x \in Users
        PROVE  Balanced(x)'
    <3>1. x \in Accounts /\ Balanced(x)
      BY DEF Users, AccountsInv
    <3>2. CashOf(locks, o, x) = 0
      BY <1>15, <1>18 DEF CashOf
    <3>3. /\ cashAvailable'[x] = IF x = a THEN cashAvailable[x] + cost ELSE cashAvailable[x]
          /\ cashAvailable[x] \in Int /\ cashLocked[x] \in Int
      BY <2>1, <3>1, CashMoves, BalancesAreIntegers
    <3>4. /\ cashAvailable'[x] >= 0
          /\ cashLocked'[x] = cashLocked[x] - CashOf(locks, o, x) + CashOf(locks', o, x)
      BY <1>16, <2>1, <3>1, <3>2, <3>3 DEF Balanced
    <3>5. ASSUME NEW s \in Symbols
          PROVE  /\ qtyAvailable'[<<x, s>>] >= 0
                 /\ qtyLocked'[<<x, s>>]
                      = qtyLocked[<<x, s>>] - QtyOf(locks, o, x, s) + QtyOf(locks', o, x, s)
      <4>1. QtyOf(locks, o, x, s) = IF x = a /\ s = z THEN q ELSE 0
        <5>1. CASE x = a
          BY <1>14, <1>15, <1>18, <2>2, <5>1 DEF QtyOf
        <5>2. CASE x # a
          BY <1>15, <5>2 DEF QtyOf
        <5> QED
          BY <5>1, <5>2
      <4>2. /\ qtyLocked'[<<x, s>>]
                 = IF x = a /\ s = z THEN qtyLocked[<<x, s>>] - q
                   ELSE qtyLocked[<<x, s>>]
            /\ qtyAvailable[<<x, s>>] \in Int /\ qtyLocked[<<x, s>>] \in Int
        BY <2>1, <3>1, SharesMove, BalancesAreIntegers
      <4>3. qtyAvailable[<<x, s>>] >= 0
        BY <3>1 DEF Balanced
      <4> QED
        BY <1>16, <2>1, <4>1, <4>2, <4>3
    <3> QED
      BY <1>2, <1>11, <1>13, <3>4, <3>5, BalancedStays DEF FundingInv
  <2> QED
    BY <1>1, <1>2, <1>10, <1>12, <1>13, <2>3 DEF AccountsInv, BuysAreLimit, Users
<1> QED
  BY <1>4, <1>17, <1>18 DEF Sides

LEMMA AccountsInvIntegers ==
  ASSUME AccountsInv, NEW a \in Users
  PROVE  CashIn(locks, a) \in Int /\ \A s \in Symbols : QtyIn(locks, a, s) \in Int
<1>1. Balanced(a) /\ a \in Accounts
  BY DEF AccountsInv, Users
<1>2. cashLocked[a] \in Int /\ \A s \in Symbols : qtyLocked[<<a, s>>] \in Int
  BY <1>1, BalancesAreIntegers
<1> QED
  BY <1>1, <1>2 DEF Balanced

\* One trade: the buyer's record pays at most what it set aside for that
\* quantity, the seller's delivers what it has.
LEMMA SettleAccounts ==
  ASSUME AccountsInv, Settle
  PROVE  AccountsInv'
<1>1. PICK t : t = Head(trades)
  OBVIOUS
<1>2. /\ trades # <<>> /\ UNCHANGED <<toFill, quotes, deleted>>
      /\ FillBoth(t.buy, t.sell, t.qty)
      /\ SettleTrade(orders[t.buy].account, orders[t.sell].account,
                     t.buy, t.sell, t.symbol, t.price, t.qty)
  BY <1>1 DEF Settle, NextTrade, appVars
<1>3. /\ t.buy \in DOMAIN orders /\ t.sell \in DOMAIN orders /\ t.buy # t.sell
      /\ orders[t.buy].ticket.side = "BUY" /\ orders[t.sell].ticket.side = "SELL"
      /\ t.symbol \in Symbols /\ orders[t.sell].ticket.symbol = t.symbol
      /\ t.price \in Nat /\ t.price <= EffectivePrice(orders[t.buy].ticket)
      /\ t.qty \in Nat \ {0}
      /\ Rest(t.buy) <= HeldFor(t.buy) - t.qty
      /\ Rest(t.sell) <= HeldFor(t.sell) - t.qty
  BY <1>1, <1>2, PartyFacts DEF AccountsInv
<1>4. FundingInv' /\ KeptIn(orders, orders') /\ DOMAIN orders' = DOMAIN orders
  <2>1. FundingInv' /\ DOMAIN orders' = DOMAIN orders
    BY SettleFunding DEF AccountsInv
  <2>2. KeptIn(orders, orders')
    BY <1>2, <1>3, FillBothEffect DEF AccountsInv, FundingInv, TradingInv, TradingOK
  <2> QED
    BY <2>1, <2>2
<1>5. /\ IsOpen(orders[t.buy]) /\ IsOpen(orders[t.sell])
      /\ t.qty <= Remaining(orders[t.buy]) /\ t.qty <= Remaining(orders[t.sell])
      /\ Remaining(orders[t.buy]) \in Int /\ Remaining(orders[t.sell]) \in Int
  <2>1. IsOpen(orders[t.buy]) /\ IsOpen(orders[t.sell])
    BY <1>1, <1>3, SettleFunding DEF AccountsInv, PartiesOf
  <2>2. ASSUME NEW o \in DOMAIN orders, IsOpen(orders[o]), Rest(o) <= HeldFor(o) - t.qty
        PROVE  t.qty <= Remaining(orders[o]) /\ Remaining(orders[o]) \in Int
    <3>1. Rest(o) \in Nat /\ HeldFor(o) \in Nat /\ OrderMeans(orders[o], HeldFor(o))
          /\ orders[o] \in Orders
      BY OrderFacts DEF AccountsInv
    <3>2. Remaining(orders[o]) \in Int
      BY <3>1 DEF Orders, TicketType, Remaining
    <3>3. HeldFor(o) <= Remaining(orders[o])
      BY <2>2, <3>1 DEF OrderMeans
    <3> QED
      BY <1>3, <2>2, <3>1, <3>2, <3>3
  <2> QED
    BY <1>3, <2>1, <2>2
<1>6. PICK buy, sell : buy = t.buy /\ sell = t.sell
  OBVIOUS
<1>7. PICK cost, mid :
        /\ cost \in Int /\ cost = t.price * t.qty
        /\ DOMAIN mid = DOMAIN locks /\ mid \in [DOMAIN mid -> Locks]
        /\ SameBut(locks, mid, t.buy) /\ SameBut(mid, locks', t.sell)
        /\ \A x \in DOMAIN locks :
             /\ mid[x].account = locks[x].account
             /\ mid[x].side = locks[x].side /\ mid[x].symbol = locks[x].symbol
             /\ mid[x].qty = locks[x].qty
             /\ mid[x].cash = IF x = t.buy THEN locks[x].cash - cost ELSE locks[x].cash
        /\ \A x : x \in DOMAIN locks' <=>
                   x \in DOMAIN mid /\ ~(x = t.sell /\ mid[x].qty - t.qty <= 0)
        /\ \A x \in DOMAIN locks' :
             /\ locks'[x].account = mid[x].account
             /\ locks'[x].side = mid[x].side /\ locks'[x].symbol = mid[x].symbol
             /\ locks'[x].cash = mid[x].cash
             /\ locks'[x].qty = IF x = t.sell THEN mid[x].qty - t.qty ELSE mid[x].qty
  BY <1>1, SettleLocks DEF AccountsInv
<1>8. cost \in Nat
  BY <1>3, <1>7
<1>9. PICK q \in Nat, z \in Symbols : q = t.qty /\ z = t.symbol
  BY <1>3
<1>10. PICK b \in Accounts, c \in Accounts :
         b = orders[buy].account /\ c = orders[sell].account
  BY <1>3, <1>6, OrderFacts DEF Orders, AccountsInv
<1>11. /\ cashLocked' = [cashLocked EXCEPT ![b] = @ - cost]
       /\ cashAvailable' = [cashAvailable EXCEPT ![c] = @ + cost]
       /\ qtyLocked' = [qtyLocked EXCEPT ![<<c, z>>] = @ - q]
       /\ qtyAvailable' = [qtyAvailable EXCEPT ![<<b, z>>] = @ + q]
  BY <1>2, <1>6, <1>7, <1>9, <1>10 DEF SettleTrade
<1>12. \A x \in DOMAIN locks :
         /\ LockFor(orders, Users, x, locks[x]) /\ LockSound(orders, x, locks[x])
         /\ locks[x] \in Locks
  BY BalancesAreIntegers DEF AccountsInv, FundingInv, LocksOfOrders, LocksSound
<1>13. /\ \A x \in DOMAIN locks :
            /\ locks[x].account \in Users
            /\ x = buy => locks[x].account = b /\ locks[x].side = "BUY"
            /\ x = sell => /\ locks[x].account = c /\ locks[x].side = "SELL"
                           /\ locks[x].symbol = z
            /\ locks[x].cash \in Nat /\ locks[x].qty \in Nat
       /\ b \in Users => buy \in DOMAIN locks
       /\ c \in Users => sell \in DOMAIN locks
  <2>1. /\ b \in Users => FundedBy(orders[buy], buy, locks)
        /\ c \in Users => FundedBy(orders[sell], sell, locks)
    BY <1>3, <1>6, <1>10 DEF AccountsInv, FundingInv, OrdersFunded
  <2>2. /\ b \in Users => buy \in DOMAIN locks
        /\ c \in Users => sell \in DOMAIN locks
    BY <1>5, <1>6, <2>1 DEF FundedBy
  <2>3. ASSUME NEW x \in DOMAIN locks
        PROVE  /\ locks[x].account \in Users
               /\ x = buy => locks[x].account = b /\ locks[x].side = "BUY"
               /\ x = sell => /\ locks[x].account = c /\ locks[x].side = "SELL"
                              /\ locks[x].symbol = z
               /\ locks[x].cash \in Nat /\ locks[x].qty \in Nat
    BY <1>3, <1>6, <1>9, <1>10, <1>12 DEF LockFor, LockSound, Locks
  <2> QED
    BY <2>2, <2>3
<1>14. /\ buy \in DOMAIN locks => locks[buy].cash - cost >= 0
       /\ sell \in DOMAIN locks => locks[sell].qty - q >= 0
  <2>1. ASSUME buy \in DOMAIN locks
        PROVE  locks[buy].cash - cost >= 0
    <3>1. FundedBy(orders[buy], buy, locks)
      BY <1>3, <1>6, <1>10, <1>13, <2>1 DEF AccountsInv, FundingInv, OrdersFunded
    <3>2. orders[buy].ticket.type = "LIMIT"
      BY <1>3, <1>6 DEF AccountsInv, BuyOrdersAreLimit
    <3>3. PICK p \in Nat : p = orders[buy].ticket.price
      BY <1>3, <1>5, <1>6, <3>1, <3>2 DEF FundedBy
    <3>4. PICK r \in Int : r = Remaining(orders[buy])
      BY <1>5, <1>6
    <3>5. locks[buy].cash >= p * r
      BY <1>3, <1>5, <1>6, <3>1, <3>2, <3>3, <3>4 DEF FundedBy
    <3>6. PICK paid \in Nat : paid = t.price
      BY <1>3
    <3>7. paid <= p
      BY <1>3, <1>6, <3>2, <3>3, <3>6, CommonAssumption DEF EffectivePrice
    <3>8. q <= r
      BY <1>5, <1>6, <1>9, <3>4
    <3>9. paid * q <= p * q /\ p * (r - q) = p * r - p * q
      BY <3>7, CostBounded
    <3>10. PICK d \in Nat : d = r - q
      BY <3>8
    <3>11. p * d \in Nat
      OBVIOUS
    <3>12. cost = paid * q
      BY <1>7, <1>9, <3>6
    <3>13. PICK pq \in Int, pr \in Int : pq = p * q /\ pr = p * r
      OBVIOUS
    <3>14. pr - pq \in Nat
      BY <3>9, <3>10, <3>11, <3>13
    <3>15. cost <= pq /\ locks[buy].cash >= pr
      BY <3>5, <3>9, <3>12, <3>13
    <3>16. locks[buy].cash \in Nat /\ cost \in Int
      BY <1>7, <1>13, <2>1
    <3> QED
      BY <3>13, <3>14, <3>15, <3>16
  <2>2. ASSUME sell \in DOMAIN locks
        PROVE  locks[sell].qty - q >= 0
    <3>1. FundedBy(orders[sell], sell, locks)
      BY <1>3, <1>6, <1>10, <1>13, <2>2 DEF AccountsInv, FundingInv, OrdersFunded
    <3>2. locks[sell].qty = Remaining(orders[sell])
      BY <1>3, <1>5, <1>6, <3>1 DEF FundedBy
    <3> QED
      BY <1>5, <1>6, <1>9, <3>2
  <2> QED
    BY <2>1, <2>2
<1>15. DOMAIN locks' \subseteq DOMAIN locks /\ IsFiniteSet(DOMAIN locks')
  <2>1. DOMAIN locks' \subseteq DOMAIN locks
    BY <1>7
  <2> QED
    BY <2>1, FS_Subset DEF AccountsInv
<1>16. LocksSound'
  <2> SUFFICES ASSUME NEW x \in DOMAIN locks'
               PROVE  LockSound(orders', x, locks'[x])
    BY DEF LocksSound
  <2>1. /\ x \in DOMAIN locks
        /\ locks'[x].side = locks[x].side /\ locks'[x].symbol = locks[x].symbol
        /\ locks'[x].cash = IF x = buy THEN locks[x].cash - cost ELSE locks[x].cash
        /\ locks'[x].qty = IF x = sell THEN locks[x].qty - q ELSE locks[x].qty
    BY <1>6, <1>7, <1>9
  <2>2. locks'[x].cash >= 0 /\ locks'[x].qty >= 0
    BY <1>12, <1>14, <2>1 DEF LockSound
  <2>3. x \in DOMAIN orders /\ LockSound(orders, x, locks[x])
    BY <1>12, <2>1 DEF LockFor
  <2> QED
    BY <1>4, <2>1, <2>2, <2>3 DEF LockSound, KeptIn
<1>17. BuyOrdersAreLimit' /\ ScanMarketable'
  <2>1. toFill \subseteq DOMAIN orders
    BY DEF AccountsInv, FundingInv, TradingInv, TradingOK, AppTypeOK
  <2> QED
    BY <1>2, <1>4, <2>1 DEF AccountsInv, BuyOrdersAreLimit, ScanMarketable, KeptIn
<1>18. PICK L, M : L = locks /\ M = locks'
  OBVIOUS
<1>19. /\ L \in [DOMAIN L -> Locks] /\ mid \in [DOMAIN mid -> Locks] /\ M \in [DOMAIN M -> Locks]
       /\ IsFiniteSet(DOMAIN L) /\ IsFiniteSet(DOMAIN mid) /\ IsFiniteSet(DOMAIN M)
       /\ SameBut(L, mid, buy) /\ SameBut(mid, M, sell)
  BY <1>4, <1>6, <1>7, <1>15, <1>18
     DEF AccountsInv, FundingInv, TradingInv, TradingOK, AccountTypeOK
<1>20. ASSUME NEW x \in Users
       PROVE  /\ CashIn(locks', x) = CashIn(locks, x) - (IF x = b THEN cost ELSE 0)
              /\ \A s \in Symbols :
                   QtyIn(locks', x, s) = QtyIn(locks, x, s) - (IF x = c /\ s = z THEN q ELSE 0)
  <2>1. /\ CashIn(mid, x) = CashIn(L, x) - CashOf(L, buy, x) + CashOf(mid, buy, x)
        /\ CashIn(M, x) = CashIn(mid, x) - CashOf(mid, sell, x) + CashOf(M, sell, x)
    BY ONLY <1>19, CashInChanges
  <2>2. /\ CashOf(L, buy, x) - CashOf(mid, buy, x) = IF x = b THEN cost ELSE 0
        /\ CashOf(L, buy, x) \in Int /\ CashOf(mid, buy, x) \in Int
    <3>1. CASE x = b
      BY <1>6, <1>7, <1>8, <1>13, <1>18, <3>1 DEF CashOf
    <3>2. CASE x # b
      BY <1>6, <1>7, <1>13, <1>18, <3>2 DEF CashOf
    <3> QED
      BY <3>1, <3>2
  <2>3. CashOf(mid, sell, x) = 0 /\ CashOf(M, sell, x) = 0
    BY <1>6, <1>7, <1>13, <1>18 DEF CashOf
  <2>4. CashIn(L, x) \in Int
    BY <1>18, AccountsInvIntegers
  <2>5. ASSUME NEW s \in Symbols
        PROVE  QtyIn(locks', x, s) = QtyIn(locks, x, s) - (IF x = c /\ s = z THEN q ELSE 0)
    <3>1. /\ QtyIn(mid, x, s) = QtyIn(L, x, s) - QtyOf(L, buy, x, s) + QtyOf(mid, buy, x, s)
          /\ QtyIn(M, x, s) = QtyIn(mid, x, s) - QtyOf(mid, sell, x, s) + QtyOf(M, sell, x, s)
      BY ONLY <1>19, QtyInChanges
    <3>2. QtyOf(L, buy, x, s) = 0 /\ QtyOf(mid, buy, x, s) = 0
      BY <1>6, <1>7, <1>13, <1>18 DEF QtyOf
    <3>3. /\ QtyOf(mid, sell, x, s) - QtyOf(M, sell, x, s) = IF x = c /\ s = z THEN q ELSE 0
          /\ QtyOf(mid, sell, x, s) \in Int /\ QtyOf(M, sell, x, s) \in Int
      <4>1. CASE x = c /\ s = z
        BY <1>6, <1>7, <1>9, <1>13, <1>14, <1>18, <4>1 DEF QtyOf
      <4>2. CASE ~(x = c /\ s = z)
        BY <1>6, <1>7, <1>13, <1>18, <4>2 DEF QtyOf
      <4> QED
        BY <4>1, <4>2
    <3>4. QtyIn(L, x, s) \in Int
      BY <1>18, AccountsInvIntegers
    <3> QED
      BY <1>18, <3>1, <3>2, <3>3, <3>4
  <2> QED
    BY <1>18, <2>1, <2>2, <2>3, <2>4, <2>5
<1>21. ASSUME NEW x \in Users
       PROVE  Balanced(x)'
  <2>1. x \in Accounts /\ Balanced(x)
    BY DEF Users, AccountsInv
  <2>2. /\ cashAvailable'[x] = IF x = c THEN cashAvailable[x] + cost ELSE cashAvailable[x]
        /\ cashLocked'[x] = IF x = b THEN cashLocked[x] - cost ELSE cashLocked[x]
        /\ cashAvailable[x] \in Int /\ cashLocked[x] \in Int
    BY <1>11, <2>1, CashMoves, BalancesAreIntegers
  <2>3. cashAvailable'[x] >= 0 /\ cashLocked'[x] = CashIn(locks', x)
    BY <1>8, <1>20, <2>1, <2>2 DEF Balanced
  <2>4. ASSUME NEW s \in Symbols
        PROVE  qtyAvailable'[<<x, s>>] >= 0 /\ qtyLocked'[<<x, s>>] = QtyIn(locks', x, s)
    <3>1. /\ qtyAvailable'[<<x, s>>]
               = IF x = b /\ s = z THEN qtyAvailable[<<x, s>>] + q ELSE qtyAvailable[<<x, s>>]
          /\ qtyLocked'[<<x, s>>]
               = IF x = c /\ s = z THEN qtyLocked[<<x, s>>] - q ELSE qtyLocked[<<x, s>>]
          /\ qtyAvailable[<<x, s>>] \in Int /\ qtyLocked[<<x, s>>] \in Int
      <4>1. /\ qtyAvailable \in [Accounts \X Symbols -> Int]
            /\ qtyLocked \in [Accounts \X Symbols -> Int]
        BY BalancesAreIntegers
      <4>2. qtyAvailable[<<x, s>>] \in Int /\ qtyLocked[<<x, s>>] \in Int
        BY <2>1, <4>1
      <4>3. qtyAvailable'[<<x, s>>]
              = IF x = b /\ s = z THEN qtyAvailable[<<x, s>>] + q ELSE qtyAvailable[<<x, s>>]
        BY ONLY b \in Accounts, s \in Symbols, z \in Symbols, q \in Int,
                <1>11, <2>1, <4>1, SharesMove
      <4>4. qtyLocked'[<<x, s>>]
              = IF x = c /\ s = z THEN qtyLocked[<<x, s>>] - q ELSE qtyLocked[<<x, s>>]
        BY ONLY c \in Accounts, s \in Symbols, z \in Symbols, q \in Int,
                <1>11, <2>1, <4>1, SharesMove
      <4> QED
        BY <4>2, <4>3, <4>4
    <3>2. qtyAvailable[<<x, s>>] >= 0 /\ qtyLocked[<<x, s>>] = QtyIn(locks, x, s)
      BY <2>1 DEF Balanced
    <3> QED
      BY <1>20, <3>1, <3>2
  <2> QED
    BY <2>3, <2>4 DEF Balanced
<1> QED
  BY <1>2, <1>4, <1>15, <1>16, <1>17, <1>21 DEF AccountsInv, BuysAreLimit, Users

LEMMA AccountsNext == ASSUME AccountsInv, [Next]_vars PROVE AccountsInv'
<1>1. FundingInv'
  BY FundingNext DEF AccountsInv
<1>2. CASE \E o \in OrderIds, a \in Accounts, t \in Tickets : PlaceRejected(o, a, t)
  <2>1. PICK o \in OrderIds, a \in Accounts, t \in Tickets : PlaceRejected(o, a, t)
    BY <1>2
  <2>2. /\ UNCHANGED <<accountVars, deleted, toFill, quotes>> /\ Enter(o, a, t, "REJECTED")
    BY <2>1 DEF PlaceRejected, RejectOrder, appVars
  <2>3. /\ DOMAIN orders' = DOMAIN orders \cup {o} /\ orders'[o].ticket = t
        /\ KeptIn(orders, orders')
    BY <2>2, EnterEffect
  <2> QED
    BY <1>1, <2>2, <2>3, OtherStepsAccounts
<1>3. CASE \/ \E mode \in EngineModes : SetEngineMode(mode)
           \/ MatchStep \/ EndMatchStep \/ UNCHANGED vars
  <2>1. UNCHANGED <<accountVars, deleted, toFill, quotes, orders>>
    BY <1>3 DEF SetEngineMode, MatchStep, EndMatchStep, vars, appVars, omsVars
  <2>2. KeptIn(orders, orders')
    BY <2>1 DEF KeptIn
  <2> QED
    BY <1>1, <2>1, <2>2, OtherStepsAccounts
<1>4. CASE SettleRaises
  <2>1. UNCHANGED <<accountVars, deleted, toFill, quotes>>
    BY <1>4 DEF SettleRaises, appVars
  <2>2. DOMAIN orders' = DOMAIN orders /\ KeptIn(orders, orders')
    <3>1. PICK t : t = Head(trades)
      OBVIOUS
    <3>2. trades # <<>> /\ FillBothRaising(t.buy, t.sell, t.qty)
      BY <1>4, <3>1 DEF SettleRaises
    <3>3. /\ t.buy \in DOMAIN orders /\ t.sell \in DOMAIN orders /\ t.buy # t.sell
          /\ t.qty \in Nat \ {0}
      BY <3>1, <3>2, PartyFacts DEF AccountsInv
    <3> QED
      BY <3>2, <3>3, FillBothEffect DEF AccountsInv, FundingInv, TradingInv, TradingOK
  <2> QED
    BY <1>1, <2>1, <2>2, OtherStepsAccounts
<1>5. CASE Handlers
  BY <1>2, <1>3, <1>5, PlaceAcceptedAccounts, CancelAccounts, CashAccounts,
     DeleteUserAccounts, MarketDataAccounts DEF Handlers
<1>6. CASE Continue
  BY <1>3, <1>4, <1>6, SettleAccounts, FillAtMarketAccounts DEF Continue
<1> QED
  BY <1>3, <1>5, <1>6 DEF Next

\* Where no user submits a MARKET BUY, no account of a user is ever
\* overdrawn and its locked balances are the sums of its lock records, for any
\* orders, quotes, mode switches, cancels and deletions.
THEOREM AccountsInvariant == Spec /\ BuysAreLimit => []AccountsInv
<1>1. Init /\ BuysAreLimit => AccountsInv
  BY AccountsInit
<1>2. AccountsInv /\ [Next]_vars => AccountsInv'
  BY AccountsNext
<1> QED
  BY <1>1, <1>2, PTL DEF Spec

\* The locked balances are exactly what the lock records say, so a cancel
\* gives back what was taken and a settlement draws on what is there.
THEOREM LocksAccountForBalances == Spec /\ BuysAreLimit => []LockedIsAccountedFor
BY AccountsInvariant, AccountsInvImplies, PTL

\* Nothing is negative in the account of a user.
THEOREM NothingNegative == Spec /\ BuysAreLimit => []NoNegativeBalances
BY AccountsInvariant, AccountsInvImplies, PTL

-----------------------------------------------------------------------------
(* Conservation: what one account gives another gets *)

\* g is f with d more at y.
MovesBy(f, g, A, y, d) == g[y] = f[y] + d /\ \A x \in A \ {y} : g[x] = f[x]

LEMMA CashKept ==
  ASSUME IsFiniteSet(Accounts), AccountTypeOK,
         NEW b \in Accounts, NEW c \in Accounts, NEW d \in Int,
         MovesBy(cashAvailable, cashAvailable', Accounts, b, d),
         MovesBy(cashLocked, cashLocked', Accounts, c, 0 - d)
  PROVE  TotalCash' = TotalCash
<1>1. PICK f, g, h, k : /\ f = cashAvailable /\ g = cashAvailable'
                        /\ h = cashLocked /\ k = cashLocked'
  OBVIOUS
<1>2. /\ \A x \in Accounts : f[x] \in Int
      /\ \A x \in Accounts : h[x] \in Int
  BY <1>1 DEF AccountTypeOK
<1>3. SumOver(g, Accounts) = SumOver(f, Accounts) + d
  BY <1>1, <1>2, SumChanges DEF MovesBy
<1>4. SumOver(k, Accounts) = SumOver(h, Accounts) + (0 - d)
  BY <1>1, <1>2, SumChanges DEF MovesBy
<1>5. SumOver(f, Accounts) \in Int /\ SumOver(h, Accounts) \in Int
  BY <1>2, SumTakeOut
<1> QED
  BY <1>1, <1>3, <1>4, <1>5 DEF TotalCash

LEMMA SharesKept ==
  ASSUME IsFiniteSet(Accounts), AccountTypeOK,
         NEW b \in Accounts, NEW c \in Accounts, NEW z \in Symbols, NEW d \in Int,
         MovesBy(qtyAvailable, qtyAvailable', Accounts \X Symbols, <<b, z>>, d),
         MovesBy(qtyLocked, qtyLocked', Accounts \X Symbols, <<c, z>>, 0 - d),
         NEW s \in Symbols
  PROVE  TotalShares(s)' = TotalShares(s)
<1>1. PICK f, g, h, k : /\ f = qtyAvailable /\ g = qtyAvailable'
                        /\ h = qtyLocked /\ k = qtyLocked'
  OBVIOUS
<1>2. PICK A, S : A = Accounts \X Symbols /\ S = Accounts \X {s}
  OBVIOUS
<1>3. S \in SUBSET A /\ IsFiniteSet(S)
  BY <1>2, FS_Product, FS_Singleton
<1>4. PICK p \in A, r \in A : p = <<b, z>> /\ r = <<c, z>>
  BY <1>2
<1>5. p \in S <=> r \in S
  BY <1>2, <1>4
<1>6. /\ f \in [A -> Int] /\ h \in [A -> Int]
      /\ MovesBy(f, g, A, p, d) /\ MovesBy(h, k, A, r, 0 - d)
  BY <1>1, <1>2, <1>4 DEF AccountTypeOK
<1>7. PICK e \in Int : e = 0 - d
  OBVIOUS
<1>8. SumOver(g, S) = IF p \in S THEN SumOver(f, S) + d ELSE SumOver(f, S)
  <2>1. g[p] = f[p] + d /\ \A x \in A \ {p} : g[x] = f[x]
    BY <1>6 DEF MovesBy
  <2> QED
    BY ONLY <1>3, <1>6, <2>1, SumExcept
<1>9. SumOver(k, S) = IF r \in S THEN SumOver(h, S) + e ELSE SumOver(h, S)
  <2>1. k[r] = h[r] + e /\ \A x \in A \ {r} : k[x] = h[x]
    BY <1>6, <1>7 DEF MovesBy
  <2> QED
    BY ONLY <1>3, <1>6, <1>7, <2>1, SumExcept
<1>10. SumOver(f, S) \in Int /\ SumOver(h, S) \in Int
  BY <1>3, <1>6, SumTakeOut
<1>11. SumOver(g, S) + SumOver(k, S) = SumOver(f, S) + SumOver(h, S)
  BY <1>5, <1>7, <1>8, <1>9, <1>10
<1> QED
  BY <1>1, <1>2, <1>11 DEF TotalShares

Conserved ==
  TotalCash' = TotalCash /\ \A s \in Symbols : TotalShares(s)' = TotalShares(s)

LEMMA AllConserved ==
  ASSUME IsFiniteSet(Accounts), AccountTypeOK,
         NEW b \in Accounts, NEW c \in Accounts, NEW d \in Int,
         MovesBy(cashAvailable, cashAvailable', Accounts, b, d),
         MovesBy(cashLocked, cashLocked', Accounts, c, 0 - d),
         NEW x \in Accounts, NEW y \in Accounts, NEW z \in Symbols, NEW q \in Int,
         MovesBy(qtyAvailable, qtyAvailable', Accounts \X Symbols, <<x, z>>, q),
         MovesBy(qtyLocked, qtyLocked', Accounts \X Symbols, <<y, z>>, 0 - q)
  PROVE  Conserved
BY CashKept, SharesKept DEF Conserved

LEMMA MovesByExcept ==
  ASSUME NEW A, NEW f \in [A -> Int], NEW y \in A, NEW d \in Int
  PROVE  /\ MovesBy(f, [f EXCEPT ![y] = @ + d], A, y, d)
         /\ MovesBy(f, [f EXCEPT ![y] = @ - d], A, y, 0 - d)
BY DEF MovesBy

\* Between two handlers in mode B no scan of Engine A is waiting.
ScanInModeA == engineMode = "B" => toFill = {}

LEMMA ScanInModeAStays == ASSUME ScanInModeA, [Next]_vars PROVE ScanInModeA'
<1>1. CASE Handlers
  BY <1>1 DEF Handlers, ScanInModeA, PlaceRejected, PlaceAccepted, Cancel, Deposit, Withdraw,
              SetEngineMode, DeleteUser, MarketData, Idle, appVars
<1>2. CASE Continue
  BY <1>2 DEF Continue, ScanInModeA, MatchStep, EndMatchStep, Settle, SettleRaises,
              FillAtMarket, appVars
<1>3. CASE UNCHANGED vars
  BY <1>3 DEF vars, appVars, ScanInModeA
<1> QED
  BY <1>1, <1>2, <1>3 DEF Next

LEMMA LockFundsConserves ==
  ASSUME IsFiniteSet(Accounts), AccountTypeOK, NEW a \in Accounts, NEW o,
         NEW t \in TicketType, LockFunds(a, o, t.symbol, t.side, t.qty, t.price)
  PROVE  Conserved
<1>1. /\ t.qty \in Nat /\ t.symbol \in Symbols /\ t.price \in Nat \cup {NoPrice}
  BY DEF TicketType
<1>2. PICK cost \in Int, shares \in Int :
        /\ cost = IF t.side = "BUY" THEN t.price * t.qty ELSE 0
        /\ shares = IF t.side = "BUY" THEN 0 ELSE t.qty
  <2>1. (IF t.side = "BUY" THEN t.price * t.qty ELSE 0) \in Int
    BY <1>1 DEF LockFunds, CanLock
  <2>2. (IF t.side = "BUY" THEN 0 ELSE t.qty) \in Int
    BY <1>1
  <2> QED
    BY <2>1, <2>2
<1>3. /\ cashAvailable' = [cashAvailable EXCEPT ![a] = @ - cost]
      /\ cashLocked' = [cashLocked EXCEPT ![a] = @ + cost]
      /\ qtyAvailable' = [qtyAvailable EXCEPT ![<<a, t.symbol>>] = @ - shares]
      /\ qtyLocked' = [qtyLocked EXCEPT ![<<a, t.symbol>>] = @ + shares]
  BY <1>2 DEF LockFunds
<1>4. PICK c \in Int, q \in Int : c = 0 - cost /\ q = 0 - shares
  OBVIOUS
<1>5. /\ MovesBy(cashAvailable, cashAvailable', Accounts, a, c)
      /\ MovesBy(cashLocked, cashLocked', Accounts, a, 0 - c)
  BY <1>3, <1>4 DEF AccountTypeOK, MovesBy
<1>6. PICK p \in Accounts \X Symbols : p = <<a, t.symbol>>
  BY <1>1
<1>7. /\ MovesBy(qtyAvailable, qtyAvailable', Accounts \X Symbols, p, q)
      /\ MovesBy(qtyLocked, qtyLocked', Accounts \X Symbols, p, 0 - q)
  BY <1>3, <1>4, <1>6 DEF AccountTypeOK, MovesBy
<1> QED
  BY <1>1, <1>5, <1>6, <1>7, AllConserved

LEMMA UnlockFundsConserves ==
  ASSUME IsFiniteSet(Accounts), AccountTypeOK, NEW o, UnlockFunds(o)
  PROVE  Conserved
<1>1. CASE o \notin DOMAIN locks
  BY <1>1 DEF UnlockFunds, HasLock, accountVars, Conserved, TotalCash, TotalShares
<1>2. CASE o \in DOMAIN locks
  <2>1. PICK a \in Accounts, z \in Symbols, cost \in Int, shares \in Int :
          /\ a = locks[o].account /\ z = locks[o].symbol
          /\ cost = IF locks[o].side = "BUY" THEN locks[o].cash ELSE 0
          /\ shares = IF locks[o].side = "BUY" THEN 0 ELSE locks[o].qty
          /\ cashLocked' = [cashLocked EXCEPT ![a] = @ - cost]
          /\ cashAvailable' = [cashAvailable EXCEPT ![a] = @ + cost]
          /\ qtyLocked' = [qtyLocked EXCEPT ![<<a, z>>] = @ - shares]
          /\ qtyAvailable' = [qtyAvailable EXCEPT ![<<a, z>>] = @ + shares]
          /\ locks' = Drop(locks, o)
    BY <1>2, UnlockFundsMoves
  <2>2. /\ MovesBy(cashAvailable, cashAvailable', Accounts, a, cost)
        /\ MovesBy(cashLocked, cashLocked', Accounts, a, 0 - cost)
    BY <2>1 DEF AccountTypeOK, MovesBy
  <2>3. PICK p \in Accounts \X Symbols : p = <<a, z>>
    OBVIOUS
  <2>4. /\ MovesBy(qtyAvailable, qtyAvailable', Accounts \X Symbols, p, shares)
        /\ MovesBy(qtyLocked, qtyLocked', Accounts \X Symbols, p, 0 - shares)
    BY <2>1, <2>3 DEF AccountTypeOK, MovesBy
  <2> QED
    BY <2>2, <2>3, <2>4, AllConserved
<1> QED
  BY <1>1, <1>2

LEMMA SettleTradeConserves ==
  ASSUME IsFiniteSet(Accounts), AccountTypeOK,
         NEW b \in Accounts, NEW c \in Accounts, NEW buy, NEW sell,
         NEW z \in Symbols, NEW price \in Int, NEW q \in Int,
         SettleTrade(b, c, buy, sell, z, price, q)
  PROVE  Conserved
<1>1. PICK cost \in Int : cost = price * q
  OBVIOUS
<1>2. /\ cashLocked' = [cashLocked EXCEPT ![b] = @ - cost]
      /\ cashAvailable' = [cashAvailable EXCEPT ![c] = @ + cost]
      /\ qtyLocked' = [qtyLocked EXCEPT ![<<c, z>>] = @ - q]
      /\ qtyAvailable' = [qtyAvailable EXCEPT ![<<b, z>>] = @ + q]
  BY <1>1 DEF SettleTrade
<1>3. /\ MovesBy(cashAvailable, cashAvailable', Accounts, c, cost)
      /\ MovesBy(cashLocked, cashLocked', Accounts, b, 0 - cost)
  BY <1>2 DEF AccountTypeOK, MovesBy
<1>4. PICK p \in Accounts \X Symbols, r \in Accounts \X Symbols : p = <<b, z>> /\ r = <<c, z>>
  OBVIOUS
<1>5. /\ MovesBy(qtyAvailable, qtyAvailable', Accounts \X Symbols, p, q)
      /\ MovesBy(qtyLocked, qtyLocked', Accounts \X Symbols, r, 0 - q)
  BY <1>2, <1>4 DEF AccountTypeOK, MovesBy
<1> QED
  BY <1>3, <1>4, <1>5, AllConserved

LEMMA SettleConserves ==
  ASSUME IsFiniteSet(Accounts), FundingInv, Settle
  PROVE  Conserved
<1>1. PICK t : t = Head(trades)
  OBVIOUS
<1>2. /\ trades # <<>>
      /\ SettleTrade(orders[t.buy].account, orders[t.sell].account,
                     t.buy, t.sell, t.symbol, t.price, t.qty)
  BY <1>1 DEF Settle, NextTrade
<1>3. /\ t.buy \in DOMAIN orders /\ t.sell \in DOMAIN orders
      /\ t.symbol \in Symbols /\ t.price \in Int /\ t.qty \in Int
  BY <1>1, <1>2, PartyFacts
<1>4. orders[t.buy].account \in Accounts /\ orders[t.sell].account \in Accounts
  BY <1>3, OrderFacts DEF Orders
<1>5. AccountTypeOK
  BY DEF FundingInv, TradingInv, TradingOK
<1> QED
  BY <1>2, <1>3, <1>4, <1>5, SettleTradeConserves

ConservedInB ==
  engineMode = "B" =>
    /\ TotalCash' # TotalCash =>
         \E a \in Accounts, amount \in Amounts : Deposit(a, amount) \/ Withdraw(a, amount)
    /\ \A s \in Symbols : TotalShares(s)' = TotalShares(s)

LEMMA StepsConserve ==
  ASSUME IsFiniteSet(Accounts), Deletable = {}, FundingInv, ScanInModeA, [Next]_vars
  PROVE  ConservedInB
<1> SUFFICES ASSUME engineMode = "B"
             PROVE  \/ Conserved
                    \/ /\ \E a \in Accounts, amount \in Amounts :
                             Deposit(a, amount) \/ Withdraw(a, amount)
                       /\ \A s \in Symbols : TotalShares(s)' = TotalShares(s)
  BY DEF ConservedInB, Conserved
<1>1. AccountTypeOK
  BY DEF FundingInv, TradingInv, TradingOK
<1>2. ASSUME UNCHANGED accountVars PROVE Conserved
  BY <1>2 DEF accountVars, Conserved, TotalCash, TotalShares
<1>3. ASSUME NEW o \in OrderIds, NEW a \in Accounts, NEW t \in Tickets, PlaceAccepted(o, a, t)
      PROVE  Conserved
  BY <1>1, <1>3, OMSAssumption, LockFundsConserves DEF PlaceAccepted
<1>4. ASSUME NEW o \in OrderIds, Cancel(o)
      PROVE  Conserved
  BY <1>1, <1>4, UnlockFundsConserves DEF Cancel
<1>5. ASSUME NEW a \in Accounts, NEW amount \in Amounts, Deposit(a, amount) \/ Withdraw(a, amount)
      PROVE  \A s \in Symbols : TotalShares(s)' = TotalShares(s)
  BY <1>5 DEF Deposit, Withdraw, DepositCash, WithdrawCash, TotalShares
<1>6. ASSUME NEW o \in OrderIds PROVE ~FillAtMarket(o)
  BY DEF ScanInModeA, FillAtMarket
<1>7. CASE Handlers
  <2>1. \A o, a, t : PlaceRejected(o, a, t) => UNCHANGED accountVars
    BY DEF PlaceRejected
  <2>2. \A mode : SetEngineMode(mode) => UNCHANGED accountVars
    BY DEF SetEngineMode
  <2>3. \A s, quote : MarketData(s, quote) => UNCHANGED accountVars
    BY DEF MarketData
  <2> QED
    BY <1>2, <1>3, <1>4, <1>5, <1>7, <2>1, <2>2, <2>3 DEF Handlers
<1>8. CASE Continue
  <2>1. MatchStep \/ EndMatchStep \/ SettleRaises => UNCHANGED accountVars
    BY DEF MatchStep, EndMatchStep, SettleRaises
  <2> QED
    BY <1>2, <1>6, <1>8, <2>1, SettleConserves DEF Continue
<1>9. CASE UNCHANGED vars
  BY <1>2, <1>9 DEF vars
<1> QED
  BY <1>7, <1>8, <1>9 DEF Next

\* Engine B moves money and shares and creates neither, whatever is matched,
\* settled, refused or canceled, orders routed in mode A included; a deleted
\* user takes the account along, so nobody is deleted here.
THEOREM NothingCreated ==
  Spec /\ IsFiniteSet(Accounts) /\ Deletable = {} => Conservation
<1> DEFINE Inv == ScanInModeA /\ IsFiniteSet(Accounts) /\ Deletable = {}
<1>1. Init /\ IsFiniteSet(Accounts) /\ Deletable = {} => Inv
  BY DEF Init, ScanInModeA
<1>2. Inv /\ [Next]_vars => Inv'
  BY ScanInModeAStays
<1>3. FundingInv /\ Inv /\ [Next]_vars => [ConservedInB]_vars
  BY StepsConserve
<1> HIDE DEF Inv
<1>4. Spec /\ IsFiniteSet(Accounts) /\ Deletable = {} => [][ConservedInB]_vars
  BY <1>1, <1>2, <1>3, FundingInvariant, PTL DEF Spec
<1> QED
  BY <1>4 DEF Conservation, ConservedInB
=============================================================================
