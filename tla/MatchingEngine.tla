--------------------------- MODULE MatchingEngine ---------------------------
(***************************************************************************)
(* Engine B: Matcher, one order book per symbol.  submit_order puts the    *)
(* order on its side and runs the matching loop to the end; the loop is    *)
(* one Match step per iteration, and what it returns is the list `trades`, *)
(* which the caller then walks through (NextTrade).  All of it happens in  *)
(* one synchronous call, so no other operation starts before it is over.   *)
(***************************************************************************)
EXTENDS Common, OrderBook

VARIABLES
  bids,         \* bids[s]: the buy side of s's book, best first
  asks,         \* asks[s]: the sell side
  seen,         \* _seen_order_ids
  submission,   \* the submit_order call that is running: order and symbol
  trades        \* TradeExecutedEvents produced and not yet handled

meVars == <<bids, asks, seen, submission, trades>>

Entries == [order : OrderIds, price : Nat, qty : Nat \ {0}, time : Nat]

\* A TradeExecutedEvent, with what the fill left on either entry
\* (remaining_bid and remaining_ask of the loop).
TradeRecords ==
  [symbol : Symbols, buy : OrderIds, sell : OrderIds, price : Nat,
   qty : Nat \ {0}, maker : Sides, buyLeft : Nat, sellLeft : Nat]

METypeOK ==
  /\ bids \in [Symbols -> Seq(Entries)]
  /\ asks \in [Symbols -> Seq(Entries)]
  /\ seen \subseteq OrderIds
  /\ submission \in [order : OrderIds, symbol : Symbols] \cup {NoSubmission}
  /\ trades \in Seq(TradeRecords)

MEInit ==
  /\ bids = [s \in Symbols |-> <<>>]
  /\ asks = [s \in Symbols |-> <<>>]
  /\ seen = {}
  /\ submission = NoSubmission
  /\ trades = <<>>

MEIdle == submission = NoSubmission /\ trades = <<>>

\* Mutant of TopTrade: the price of the younger entry.
TopTradeAtTakerPrice(s) ==
  LET bid == Head(bids[s])
      ask == Head(asks[s])
      maker == IF bid.time <= ask.time THEN "SELL" ELSE "BUY"
      qty == IF bid.qty <= ask.qty THEN bid.qty ELSE ask.qty
  IN  [symbol |-> s, buy |-> bid.order, sell |-> ask.order,
       price |-> IF maker = "BUY" THEN bid.price ELSE ask.price,
       qty |-> qty, maker |-> maker,
       buyLeft |-> bid.qty - qty, sellLeft |-> ask.qty - qty]

\* The bid and the ask that trade, as the loop body computes the event.
TopTrade(s) ==
  LET bid == Head(bids[s])
      ask == Head(asks[s])
      maker == IF bid.time <= ask.time THEN "BUY" ELSE "SELL"
      qty == IF bid.qty <= ask.qty THEN bid.qty ELSE ask.qty
  IN  [symbol |-> s, buy |-> bid.order, sell |-> ask.order,
       price |-> IF maker = "BUY" THEN bid.price ELSE ask.price,
       qty |-> qty, maker |-> maker,
       buyLeft |-> bid.qty - qty, sellLeft |-> ask.qty - qty]

-----------------------------------------------------------------------------
\* add_buy / add_sell.
PutOnBook(s, side, e) ==
  IF side = "BUY"
  THEN bids' = [bids EXCEPT ![s] = Insert("BUY", @, e)] /\ UNCHANGED asks
  ELSE asks' = [asks EXCEPT ![s] = Insert("SELL", @, e)] /\ UNCHANGED bids

\* submit_order up to the matching loop.  An id seen before does nothing.
SubmitOrder(o, s, side, price, qty, time) ==
  /\ MEIdle
  /\ o \notin seen
  /\ seen' = seen \cup {o}
  /\ PutOnBook(s, side, BookEntry(o, price, qty, time))
  /\ submission' = [order |-> o, symbol |-> s]
  /\ UNCHANGED trades

\* One iteration of the loop.
Match ==
  /\ submission # NoSubmission
  /\ LET s == submission.symbol
         t == TopTrade(s)
     IN  /\ Crossable(bids[s], asks[s])
         /\ trades' = Append(trades, t)
         /\ bids' = [bids EXCEPT ![s] = FillTop(@, t.qty)]
         /\ asks' = [asks EXCEPT ![s] = FillTop(@, t.qty)]
  /\ UNCHANGED <<seen, submission>>

\* Mutants of EndMatch: `if` for `while`, and a loop that needs both sides.
EndMatchAfterOne ==
  /\ submission # NoSubmission
  /\ submission' = NoSubmission
  /\ UNCHANGED <<bids, asks, seen, trades>>

EndMatchNeedsBothSides ==
  /\ submission # NoSubmission
  /\ bids[submission.symbol] # <<>> /\ asks[submission.symbol] # <<>>
  /\ ~Crossable(bids[submission.symbol], asks[submission.symbol])
  /\ submission' = NoSubmission
  /\ UNCHANGED <<bids, asks, seen, trades>>

\* The loop is over and submit_order returns the trades.
EndMatch ==
  /\ submission # NoSubmission
  /\ ~Crossable(bids[submission.symbol], asks[submission.symbol])
  /\ submission' = NoSubmission
  /\ UNCHANGED <<bids, asks, seen, trades>>

\* The caller's `for trade in trades` moves on.
NextTrade ==
  /\ submission = NoSubmission
  /\ trades # <<>>
  /\ trades' = Tail(trades)
  /\ UNCHANGED <<bids, asks, seen, submission>>

\* Mutant of TakeOffBook: only the buy side is searched.
TakeOffBookBuysOnly(s, o) ==
  bids' = [bids EXCEPT ![s] = RemoveOrder(@, o)] /\ UNCHANGED asks

\* cancel_order: the order leaves its book, from the sell side only when the
\* buy side did not have it.
TakeOffBook(s, o) ==
  IF Rests(bids[s], o)
  THEN bids' = [bids EXCEPT ![s] = RemoveOrder(@, o)] /\ UNCHANGED asks
  ELSE asks' = [asks EXCEPT ![s] = RemoveOrder(@, o)] /\ UNCHANGED bids

CancelInBook(s, o) ==
  /\ MEIdle
  /\ TakeOffBook(s, o)
  /\ UNCHANGED <<seen, submission, trades>>

-----------------------------------------------------------------------------
\* Both sides of every book stay in price-time order, whatever was inserted,
\* filled or removed: the loop and bisect only ever look at the top or rely
\* on the order, so one misplaced entry would break priority silently.
BooksSorted ==
  \A s \in Symbols : Sorted("BUY", bids[s]) /\ Sorted("SELL", asks[s])

\* Between two calls no book is crossed: the loop has executed everything
\* that could trade.
BooksUncrossed ==
  submission = NoSubmission => \A s \in Symbols : ~Crossable(bids[s], asks[s])
=============================================================================
