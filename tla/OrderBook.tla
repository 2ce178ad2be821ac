----------------------------- MODULE OrderBook -----------------------------
(***************************************************************************)
(* One side of a price-time-priority book: the sorted list of BookEntry    *)
(* that PriceSide keeps, and the operations OrderBook and Matcher call on  *)
(* it.  An entry carries the order it stands for, its limit price, the     *)
(* quantity still resting and the time stamp it is sorted by.              *)
(***************************************************************************)
EXTENDS Integers, Sequences, SequencesExt

\* BookEntry, without the account id (only OMS and the accounts need it).
BookEntry(o, price, qty, time) ==
  [order |-> o, price |-> price, qty |-> qty, time |-> time]

\* The sort key: price first (negated for BUY, so the highest bid leads),
\* then time.  Entries with equal keys are in the order of their insertion.
Outranks(side, e, f) ==
  \/ IF side = "BUY" THEN e.price > f.price ELSE e.price < f.price
  \/ e.price = f.price /\ e.time < f.time

Sorted(side, list) ==
  \A i, j \in 1..Len(list) : i < j => ~Outranks(side, list[j], list[i])

\* Mutant of Insert: append instead of bisect.insort.
InsertAppending(side, list, e) == Append(list, e)

\* bisect.insort: after every entry the new one does not outrank.
Insert(side, list, e) ==
  LET k == CHOOSE n \in 0..Len(list) :
             /\ \A i \in 1..n : ~Outranks(side, e, list[i])
             /\ \A i \in n+1..Len(list) : Outranks(side, e, list[i])
  IN  InsertAt(list, k + 1, e)

\* PriceSide.remove: the first entry of the order leaves, if there is one.
RemoveOrder(list, o) == RemoveFirstMatch(list, LAMBDA e : e.order = o)

\* pop_top when the fill exhausts the top entry, reduce_top otherwise.
FillTop(list, qty) ==
  IF Head(list).qty = qty
  THEN Tail(list)
  ELSE <<[Head(list) EXCEPT !.qty = @ - qty]>> \o Tail(list)

\* is_crossable: a best bid and a best ask exist and their prices meet.
Crossable(buys, sells) ==
  /\ buys # <<>>
  /\ sells # <<>>
  /\ Head(buys).price >= Head(sells).price

\* The entry resting on a side for an order (_find_entry).
Rests(list, o) == \E i \in DOMAIN list : list[i].order = o

RestingQty(list, o) ==
  LET i == SelectInSeq(list, LAMBDA e : e.order = o)
  IN  IF i = 0 THEN 0 ELSE list[i].qty
=============================================================================
