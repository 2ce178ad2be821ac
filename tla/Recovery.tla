------------------------------ MODULE Recovery ------------------------------
(***************************************************************************)
(* The trading system with its event log: which handler pushes which       *)
(* events and when, what a crash leaves in the files, and cold_start, which *)
(* rebuilds the accounts, the orders and the books from them.              *)
(*                                                                         *)
(* Flushing has no action here: any first part of the journal may have     *)
(* been written by the time of a crash (EventWriter shows how), and nobody *)
(* looks at the files before.                                              *)
(***************************************************************************)
EXTENDS TradingProperties

CONSTANTS
  Kills,         \* whether the process may be killed
  IOErrors,      \* whether a flush may fail
  MaxLives,      \* bound: how many processes run, one after the other
  MaxJournal,    \* bound: no deposit or withdrawal beyond this many events
  Nothing        \* no process has ended yet

VARIABLES
  journal,       \* the event log, with what is still in the buffer
  durable,       \* how many events had been written when the process started
  outbox,        \* OMSService._event_log: events not drained yet
  phase,         \* of the process: restoring, up, or failed to start
  replayed,      \* events cold_start has applied
  lives,         \* how many processes have been started
  before,        \* history: the state the last process ended in
  holes          \* history: a flush has failed

histVars == <<lives, before, holes>>
recVars == <<journal, durable, outbox, phase, replayed, histVars>>
allVars == <<vars, recVars>>

ASSUME RecoveryAssumption ==
  /\ Kills \in BOOLEAN
  /\ IOErrors \in BOOLEAN
  /\ MaxLives \in Nat
  /\ MaxJournal \in Nat
  /\ "B" \in EngineModes

\* The events cold start reads.
LogEvents ==
  [kind : {"placed"}, order : OrderIds, account : Accounts, ticket : TicketType, time : Nat]
  \cup [kind : {"status"}, order : OrderIds, status : Statuses]
  \cup [kind : {"filled"}, order : OrderIds, status : Statuses, filled : Nat]
  \cup [kind : {"trade"}, buy : OrderIds, sell : OrderIds, qty : Nat]
  \cup [kind : {"settlement"}, buyer : Accounts, seller : Accounts, buy : OrderIds,
        sell : OrderIds, symbol : Symbols, price : Nat, qty : Nat]
  \cup [kind : {"cash"}, account : Accounts, amount : Int]
  \cup [kind : {"deleted"}, account : Accounts]

INSTANCE EventLog WITH Events <- LogEvents

RecoveryInit ==
  /\ Init
  /\ LogInit
  /\ outbox = <<>>
  /\ phase = "up"
  /\ replayed = 0
  /\ lives = 1
  /\ before = Nothing
  /\ holes = FALSE

-----------------------------------------------------------------------------
(* The events *)

Placed(o) == [kind |-> "placed", order |-> o, account |-> orders'[o].account,
              ticket |-> orders'[o].ticket, time |-> orders'[o].created]

\* OrderAccepted, OrderRouted, OrderRejected and OrderCanceled.
OrderIs(o, status) == [kind |-> "status", order |-> o, status |-> status]

\* Mutant of Filled: the quantity ordered instead of the quantity filled.
FilledInFull(o) == [kind |-> "filled", order |-> o, status |-> orders'[o].status,
                    filled |-> orders'[o].ticket.qty]

Filled(o) == [kind |-> "filled", order |-> o, status |-> orders'[o].status,
              filled |-> orders'[o].filled]

TradeExecuted(buy, sell, qty) ==
  [kind |-> "trade", buy |-> buy, sell |-> sell, qty |-> qty]

\* Mutant of Settlement: buyer and seller are swapped.
SettlementSwapped(t) ==
  [kind |-> "settlement", buyer |-> orders[t.sell].account,
   seller |-> orders[t.buy].account, buy |-> t.buy, sell |-> t.sell,
   symbol |-> t.symbol, price |-> t.price, qty |-> t.qty]

Settlement(t) ==
  [kind |-> "settlement", buyer |-> orders[t.buy].account,
   seller |-> orders[t.sell].account, buy |-> t.buy, sell |-> t.sell,
   symbol |-> t.symbol, price |-> t.price, qty |-> t.qty]

CashDelta(a, amount) == [kind |-> "cash", account |-> a, amount |-> amount]

Deleted(a) == [kind |-> "deleted", account |-> a]

-----------------------------------------------------------------------------
(* The handlers with what they push *)

\* The handler goes on without an event.
Silently == UNCHANGED recVars

PushOnly(events) ==
  /\ Push(events)
  /\ UNCHANGED <<outbox, phase, replayed, histVars>>

\* OMS events are pushed when the outbox is drained.
DrainWith(first, events) ==
  /\ Push(first \o outbox \o events)
  /\ outbox' = <<>>
  /\ UNCHANGED <<phase, replayed, histVars>>

Place(o, a, ticket) ==
  \/ /\ PlaceRejected(o, a, ticket)
     /\ DrainWith(<<Placed(o)>>, <<OrderIs(o, "REJECTED")>>)
  \/ /\ PlaceAccepted(o, a, ticket)
     /\ DrainWith(<<Placed(o)>>, <<OrderIs(o, "ACCEPTED"), OrderIs(o, "ROUTED")>>)

\* A PENDING order, which only cold start leaves behind: cancel_order unlocks
\* its funds, and then the state machine raises.
CancelRaises(o) ==
  /\ o \in DOMAIN orders
  /\ Idle
  /\ IsCancelable(orders[o])
  /\ ~CanTransition(orders[o].status, "CANCELED")
  /\ UnlockFunds(o)
  /\ UNCHANGED <<meVars, omsVars, appVars>>
  /\ Silently

MoveCash(a, amount) ==
  /\ Len(journal) < MaxJournal
  /\ \/ Deposit(a, amount) /\ PushOnly(<<CashDelta(a, amount)>>)
     \/ Withdraw(a, amount) /\ PushOnly(<<CashDelta(a, -amount)>>)

\* Mutant of SettleLogged: the settlement is not logged.
SettleLoggedWithoutSettlement ==
  /\ Settle
  /\ LET t == Head(trades)
         events == <<TradeExecuted(t.buy, t.sell, t.qty)>>
         fills == <<Filled(t.buy), Filled(t.sell)>>
     IN  IF Len(trades) = 1
         THEN DrainWith(events, fills)
         ELSE Push(events) /\ outbox' = outbox \o fills /\ UNCHANGED <<phase, replayed, histVars>>

\* One iteration of `for trade in trades`; after the last one the fills that
\* OMS has published meanwhile are drained.
SettleLogged ==
  /\ Settle
  /\ LET t == Head(trades)
         events == <<TradeExecuted(t.buy, t.sell, t.qty), Settlement(t)>>
         fills == <<Filled(t.buy), Filled(t.sell)>>
     IN  IF Len(trades) = 1
         THEN DrainWith(events, fills)
         ELSE Push(events) /\ outbox' = outbox \o fills /\ UNCHANGED <<phase, replayed, histVars>>

\* The trade is in the log already; the fills stay in the outbox.
SettleRaisesLogged ==
  /\ SettleRaises
  /\ LET t == Head(trades)
     IN  /\ Push(<<TradeExecuted(t.buy, t.sell, t.qty)>>)
         /\ outbox' = outbox \o
              IF FillRaises(orders[t.buy], t.qty) THEN <<>> ELSE <<Filled(t.buy)>>
  /\ UNCHANGED <<phase, replayed, histVars>>

\* Engine A logs the order as both sides of the trade, and no settlement.
FillAtMarketLogged(o) ==
  /\ FillAtMarket(o)
  /\ DrainWith(<<TradeExecuted(o, o, Remaining(orders[o]))>>, <<Filled(o)>>)

LoggedHandlers ==
  \/ \E o \in OrderIds, a \in Accounts, ticket \in Tickets : Place(o, a, ticket)
  \/ \E o \in OrderIds :
       \/ Cancel(o) /\ DrainWith(<<>>, <<OrderIs(o, "CANCELED")>>)
       \/ CancelRaises(o)
  \/ \E a \in Accounts, amount \in Amounts : MoveCash(a, amount)
  \/ \E mode \in EngineModes : SetEngineMode(mode) /\ Silently
  \/ \E a \in Deletable : DeleteUser(a) /\ PushOnly(<<Deleted(a)>>)
  \/ \E s \in Symbols, quote \in Quotes : MarketData(s, quote) /\ Silently

LoggedContinue ==
  \/ (MatchStep \/ EndMatchStep) /\ Silently
  \/ SettleLogged
  \/ SettleRaisesLogged
  \/ \E o \in OrderIds : FillAtMarketLogged(o)

-----------------------------------------------------------------------------
(* The end of a process *)

\* A flush fails after writing some of the batch; the process goes on, without
\* its pump thread (bound: one failure).
FlushFails ==
  /\ IOErrors /\ ~holes
  /\ phase = "up"
  /\ \E n \in durable .. Len(journal) - 1 : Cut(n)
  /\ holes' = TRUE
  /\ UNCHANGED <<vars, outbox, phase, replayed, lives, before>>

\* Everything in memory goes; a new process starts with empty services and
\* engine B, and cold_start begins.
StartProcess(ended) ==
  /\ bids' = [s \in Symbols |-> <<>>]
  /\ asks' = [s \in Symbols |-> <<>>]
  /\ seen' = {} /\ submission' = NoSubmission /\ trades' = <<>>
  /\ orders' = <<>>
  /\ cashAvailable' = [a \in Accounts |-> InitialCash]
  /\ cashLocked' = [a \in Accounts |-> 0]
  /\ qtyAvailable' = InitialShares
  /\ qtyLocked' = [p \in Accounts \X Symbols |-> 0]
  /\ locks' = <<>>
  /\ engineMode' = "B"
  /\ quotes' = [s \in Symbols |-> NoQuote]
  /\ toFill' = {}
  /\ outbox' = <<>>
  /\ phase' = "restoring"
  /\ replayed' = 0
  /\ before' = ended
  /\ UNCHANGED <<clock, deleted, holes>>

AnotherLife == lives < MaxLives /\ lives' = lives + 1

Memory(clean) ==
  [clean |-> clean, orders |-> orders, bids |-> bids, asks |-> asks,
   accounts |-> accountVars]

\* Killed anywhere, in a handler or between two.
Crash ==
  /\ Kills
  /\ phase = "up"
  /\ \E n \in durable .. Len(journal) : Cut(n)
  /\ AnotherLife
  /\ StartProcess(Memory(FALSE))

\* Shutdown: the requests are over, and stop() flushes.
Shutdown ==
  /\ phase = "up"
  /\ Idle
  /\ Cut(Len(journal))
  /\ AnotherLife
  /\ StartProcess(Memory(outbox = <<>> /\ ~holes))

\* The operator tries again.
StartAgain ==
  /\ phase = "failed"
  /\ StartProcess(before)
  /\ UNCHANGED <<journal, durable, lives>>

-----------------------------------------------------------------------------
(* cold_start *)

\* AccountProjection.apply, without raising.
ApplyToAccounts(e) ==
  CASE e.kind = "placed" ->
         LET t == e.ticket
         IN  IF CanLock(e.account, t.symbol, t.side, t.qty, t.price)
             THEN LockFunds(e.account, e.order, t.symbol, t.side, t.qty, t.price)
             ELSE UNCHANGED accountVars
    [] e.kind = "status" /\ e.status \in {"REJECTED", "CANCELED"} -> UnlockFunds(e.order)
    [] e.kind = "settlement" ->
         SettleTrade(e.buyer, e.seller, e.buy, e.sell, e.symbol, e.price, e.qty)
    [] e.kind = "cash" -> IF e.amount > 0 THEN DepositCash(e.account, e.amount)
                          ELSE WithdrawCash(e.account, -e.amount)
    [] e.kind = "deleted" -> DeleteAccount(e.account)
    [] OTHER -> UNCHANGED accountVars

\* Mutant of ApplyToOrders: OrderFilled is not replayed.
ApplyToOrdersWithoutFills(e) ==
  CASE e.kind = "placed" ->
         orders' = Put(orders, e.order, [account |-> e.account, ticket |-> e.ticket,
           status |-> "PENDING", created |-> e.time, filled |-> 0])
    [] e.kind = "status" /\ e.order \in DOMAIN orders ->
         orders' = [orders EXCEPT ![e.order].status = e.status]
    [] OTHER -> UNCHANGED orders

\* Step 4 of cold_start; events of unknown orders are skipped.
ApplyToOrders(e) ==
  CASE e.kind = "placed" ->
         orders' = Put(orders, e.order, [account |-> e.account, ticket |-> e.ticket,
           status |-> "PENDING", created |-> e.time, filled |-> 0])
    [] e.kind = "status" /\ e.order \in DOMAIN orders ->
         orders' = [orders EXCEPT ![e.order].status = e.status]
    [] e.kind = "filled" /\ e.order \in DOMAIN orders ->
         orders' = [orders EXCEPT ![e.order].status = e.status,
                                  ![e.order].filled = e.filled]
    [] OTHER -> UNCHANGED orders

\* Account.withdraw raises, and nothing catches it.
ApplyRaises(e) ==
  e.kind = "cash" /\ e.amount < 0 /\ cashAvailable[e.account] < -e.amount

Replay ==
  /\ phase = "restoring"
  /\ replayed < Len(journal)
  /\ LET e == journal[replayed + 1]
     IN  /\ ~ApplyRaises(e)
         /\ ApplyToAccounts(e)
         /\ ApplyToOrders(e)
  /\ replayed' = replayed + 1
  /\ UNCHANGED <<meVars, clock, appVars, journal, durable, outbox, phase, histVars>>

ReplayRaises ==
  /\ phase = "restoring"
  /\ replayed < Len(journal)
  /\ ApplyRaises(journal[replayed + 1])
  /\ phase' = "failed"
  /\ UNCHANGED <<vars, journal, durable, outbox, replayed, histVars>>

\* What an event says was filled of an order: both parties of a trade.
FillIn(e, o) ==
  IF e.kind # "trade" THEN 0
  ELSE (IF e.buy = o THEN e.qty ELSE 0) + (IF e.sell = o THEN e.qty ELSE 0)

LoggedFill(o) ==
  SumOver([i \in DOMAIN journal |-> FillIn(journal[i], o)], DOMAIN journal)

\* Mutant of LoggedRemaining: the fills are not counted.
LoggedRemainingFull(e) == e.ticket.qty

LoggedRemaining(e) == e.ticket.qty - LoggedFill(e.order)

\* Step 5, rebuild_order_book_from_log: the orders that go on the book.
GoesOnBook(e) ==
  /\ e.kind = "placed"
  /\ OrderIs(e.order, "CANCELED") \notin Range(journal)
  /\ LoggedRemaining(e) > 0
  /\ e.ticket.type = "MARKET" \/ e.ticket.price # NoPrice

RebuiltSide(s, side) ==
  LET list[n \in 0..Len(journal)] ==
        IF n = 0 THEN <<>>
        ELSE LET e == journal[n]
             IN  IF GoesOnBook(e) /\ e.ticket.symbol = s /\ e.ticket.side = side
                 THEN Insert(side, list[n - 1],
                             BookEntry(e.order, EffectivePrice(e.ticket),
                                       LoggedRemaining(e), e.time))
                 ELSE list[n - 1]
  IN  list[Len(journal)]

\* Check 7 of pre_flight_check: an open order with something left to trade has
\* a book for its symbol.  The other checks are of the file system.
PreFlightPasses ==
  \A o \in DOMAIN orders :
    /\ orders[o].status \in {"ROUTED", "ACCEPTED", "PARTIALLY_FILLED"}
    /\ Remaining(orders[o]) > 0
    => \E e \in Range(journal) :
         GoesOnBook(e) /\ e.ticket.symbol = orders[o].ticket.symbol

\* The last step of cold_start, and the pre-flight check that follows it.
RebuildBooks ==
  /\ phase = "restoring"
  /\ replayed = Len(journal)
  /\ bids' = [s \in Symbols |-> RebuiltSide(s, "BUY")]
  /\ asks' = [s \in Symbols |-> RebuiltSide(s, "SELL")]
  /\ seen' = { journal[i].order : i \in { j \in DOMAIN journal : GoesOnBook(journal[j]) } }
  /\ IF PreFlightPasses
     THEN phase' = "up" /\ before' = Nothing
     ELSE phase' = "failed" /\ UNCHANGED before
  /\ UNCHANGED <<submission, trades, omsVars, accountVars, appVars,
                 journal, durable, outbox, replayed, lives, holes>>

ColdStart == Replay \/ ReplayRaises \/ RebuildBooks

-----------------------------------------------------------------------------
RecoveryNext ==
  \/ phase = "up" /\ (LoggedHandlers \/ LoggedContinue)
  \/ FlushFails
  \/ Crash
  \/ Shutdown
  \/ StartAgain
  \/ ColdStart

RecoverySpec ==
  /\ RecoveryInit
  /\ [][RecoveryNext]_allVars
  /\ WF_allVars(phase = "up" /\ LoggedContinue)
  /\ WF_allVars(ColdStart)
=============================================================================
