--------------------------- MODULE PriceTimeMarket ---------------------------
(***************************************************************************)
(* What a price-time-priority market promises, whatever data structure it  *)
(* uses: offers rest in a set; when one arrives it trades, and nothing     *)
(* else does; every trade is between a bid and an ask that nobody outranks *)
(* and whose prices meet, as large as the smaller of the two and at the    *)
(* price of the one that was there first; trading goes on until no two     *)
(* offers meet.                                                            *)
(***************************************************************************)
EXTENDS Integers, Sequences

CONSTANTS Symbols, OrderIds, Nobody, Prices, Qtys, Times

VARIABLES
  offers,    \* offers[s]: the offers resting for symbol s
  arriving,  \* the offer being matched, as [order, symbol], or Nobody
  fills      \* trades made and not yet handed over

marketVars == <<offers, arriving, fills>>

Bids(s) == { f \in offers[s] : f.side = "BUY" }
Asks(s) == { f \in offers[s] : f.side = "SELL" }

BestBid(b, s) ==
  /\ b \in Bids(s)
  /\ \A f \in Bids(s) : f.price < b.price \/ (f.price = b.price /\ f.time >= b.time)

BestAsk(a, s) ==
  /\ a \in Asks(s)
  /\ \A f \in Asks(s) : f.price > a.price \/ (f.price = a.price /\ f.time >= a.time)

Meet(s) == \E b \in Bids(s), a \in Asks(s) : b.price >= a.price

\* What is left of an offer after a fill of q: nothing, or the same offer
\* with less quantity and its place in the queue kept.
Left(f, q) == IF f.qty = q THEN {} ELSE { [f EXCEPT !.qty = @ - q] }

Init ==
  /\ offers = [s \in Symbols |-> {}]
  /\ arriving = Nobody
  /\ fills = <<>>

Quiet == arriving = Nobody /\ fills = <<>>

Offer(f, s) ==
  /\ Quiet
  /\ arriving' = [order |-> f.order, symbol |-> s]
  /\ \A t \in Symbols : \A g \in offers[t] : g.order # f.order
  /\ offers' = [offers EXCEPT ![s] = @ \cup {f}]
  /\ UNCHANGED fills

Withdraw(o, s) ==
  /\ Quiet
  /\ offers' = [offers EXCEPT ![s] = { f \in @ : f.order # o }]
  /\ UNCHANGED <<arriving, fills>>

\* The maker is whichever of the two was there before the arriving offer: the
\* time stamps have no say in it.
Trade(b, a) ==
  LET s == arriving.symbol
      q == IF b.qty <= a.qty THEN b.qty ELSE a.qty
      maker == IF arriving.order = b.order THEN a ELSE b
  IN  /\ arriving.order \in {b.order, a.order}
      /\ BestBid(b, s)
      /\ BestAsk(a, s)
      /\ b.price >= a.price
      /\ fills' = Append(fills,
           [symbol |-> s, buy |-> b.order, sell |-> a.order, price |-> maker.price,
            qty |-> q, maker |-> maker.side, buyLeft |-> b.qty - q,
            sellLeft |-> a.qty - q])
      /\ offers' = [offers EXCEPT ![s] =
                      (@ \ {b, a}) \cup Left(b, q) \cup Left(a, q)]
      /\ UNCHANGED arriving

Clear ==
  /\ arriving # Nobody
  /\ ~Meet(arriving.symbol)
  /\ arriving' = Nobody
  /\ UNCHANGED <<offers, fills>>

HandOver ==
  /\ arriving = Nobody
  /\ fills # <<>>
  /\ fills' = Tail(fills)
  /\ UNCHANGED <<offers, arriving>>

Next ==
  \/ \E s \in Symbols :
       \E f \in [side : {"BUY", "SELL"}, order : OrderIds, price : Prices,
                 qty : Qtys, time : Times] : Offer(f, s)
  \/ \E s \in Symbols, o \in OrderIds : Withdraw(o, s)
  \/ /\ arriving # Nobody
     /\ \E b \in Bids(arriving.symbol), a \in Asks(arriving.symbol) : Trade(b, a)
  \/ Clear
  \/ HandOver

Spec == Init /\ [][Next]_marketVars
=============================================================================
