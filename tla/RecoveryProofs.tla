---------------------------- MODULE RecoveryProofs ----------------------------
(***************************************************************************)
(* The trading system across crashes and restarts.  What the log says of   *)
(* an order is what its last placement, the last event with its status and *)
(* the last with its filled quantity say.  While the process is up, the    *)
(* log, with the outbox behind it, says what the orders are; cold start    *)
(* makes the orders what the log says.  Both speak of the same last        *)
(* events, so the orders that come back are the ones that were there.  The *)
(* accounts are what the log leaves when it is applied event by event: each *)
(* handler pushes events that have on replay the effect it had.  And the    *)
(* log counts right: no fill without its trade, and fills that are not      *)
(* behind say as much as the trades, so that a start is not blocked.        *)
(***************************************************************************)
EXTENDS RecoveryProperties, TradingProofs

-----------------------------------------------------------------------------
(* Reading a log *)

About(e, o, kinds) == e.kind \in kinds /\ e.order = o

\* e is the last of the first n events that is about o and of these kinds.
LastEvent(log, n, o, kinds, e) ==
  /\ About(e, o, kinds)
  /\ \E i \in 1..n :
       /\ log[i] = e
       /\ \A j \in 1..n : About(log[j], o, kinds) => j <= i

FormEvents == {"placed"}
FillEvents == {"placed", "filled"}
StatusEvents == {"placed", "filled", "status"}

StatusAfter(e) == IF e.kind = "placed" THEN "PENDING" ELSE e.status
FilledAfter(e) == IF e.kind = "placed" THEN 0 ELSE e.filled

FormTold(log, n, o, ord) ==
  \E e \in LogEvents :
    /\ LastEvent(log, n, o, FormEvents, e)
    /\ ord.account = e.account /\ ord.ticket = e.ticket /\ ord.created = e.time

StatusTold(log, n, o, ord) ==
  \E e \in LogEvents : LastEvent(log, n, o, StatusEvents, e) /\ ord.status = StatusAfter(e)

FilledTold(log, n, o, ord) ==
  \E e \in LogEvents : LastEvent(log, n, o, FillEvents, e) /\ ord.filled = FilledAfter(e)

PlacedBy(log, n) == { log[i].order : i \in { j \in 1..n : log[j].kind = "placed" } }

\* The events at the positions P fit these orders: every placement is of one of
\* them, each order is placed once, and from then on its fills only grow, up to
\* what is filled of the order now.  (After a lost write the log may begin with
\* fills of an order that it does not place.)
FitsAt(log, P, ords) ==
  /\ \A i \in P : log[i].kind = "placed" =>
       log[i].order \in DOMAIN ords /\ ords[log[i].order].ticket = log[i].ticket
  /\ \A i, j \in P : log[i].kind = "placed" /\ About(log[j], log[i].order, {"placed"}) => i = j
  /\ \A k, i \in P :
       k < i /\ log[k].kind = "placed" /\ About(log[i], log[k].order, {"filled"}) =>
         /\ log[i].filled <= ords[log[k].order].filled
         /\ log[i].status = "FILLED" => log[i].filled >= log[k].ticket.qty
  /\ \A k, i, j \in P :
       /\ k < i /\ i < j /\ log[k].kind = "placed"
       /\ About(log[i], log[k].order, {"filled"}) /\ About(log[j], log[k].order, {"filled"})
       => log[i].filled <= log[j].filled
  /\ \A i \in P : log[i].kind = "status" => log[i].status # "FILLED"

LogFits(log, ords) == FitsAt(log, 1..Len(log), ords)

\* A fill of the order was refused after the quantity was added.
Refused(ord) ==
  /\ Remaining(ord) <= 0
  /\ ord.status \notin {"ROUTED", "PARTIALLY_FILLED"}
  /\ ord.status = "FILLED" => Remaining(ord) < 0

OrderTold(log, o, ord) ==
  /\ FormTold(log, Len(log), o, ord)
  /\ Refused(ord) \/ (StatusTold(log, Len(log), o, ord) /\ FilledTold(log, Len(log), o, ord))

LogTells(log, ords) == \A o \in DOMAIN ords : OrderTold(log, o, ords[o])

-----------------------------------------------------------------------------
(* What is kept when a log grows or is cut.  The events of d at P are among *)
(* those of c, in the same order.                                          *)

Within(d, P, c) ==
  \E g \in [P -> 1..Len(c)] :
    /\ \A p \in P : d[p] = c[g[p]]
    /\ \A p, q \in P : p < q => g[p] < g[q]

LEMMA FitsWithin ==
  ASSUME NEW c, NEW d, NEW P \in SUBSET Nat, NEW ords, LogFits(c, ords), Within(d, P, c),
         Len(c) \in Nat
  PROVE  FitsAt(d, P, ords)
<1>1. PICK g \in [P -> 1..Len(c)] :
        /\ \A p \in P : d[p] = c[g[p]]
        /\ \A p, q \in P : p < q => g[p] < g[q]
  BY DEF Within
<1>2. \A p \in P : g[p] \in 1..Len(c) /\ d[p] = c[g[p]]
  BY <1>1
<1>3. \A i \in P : d[i].kind = "placed" =>
        d[i].order \in DOMAIN ords /\ ords[d[i].order].ticket = d[i].ticket
  BY <1>2 DEF LogFits, FitsAt
<1>4. ASSUME NEW i \in P, NEW j \in P, d[i].kind = "placed", About(d[j], d[i].order, {"placed"})
      PROVE  i = j
  <2>1. g[i] = g[j]
    BY <1>2, <1>4 DEF LogFits, FitsAt
  <2> QED
    BY <1>1, <1>2, <2>1
<1>5. ASSUME NEW k \in P, NEW i \in P, k < i, d[k].kind = "placed",
             About(d[i], d[k].order, {"filled"})
      PROVE  /\ d[i].filled <= ords[d[k].order].filled
             /\ d[i].status = "FILLED" => d[i].filled >= d[k].ticket.qty
  BY <1>1, <1>2, <1>5 DEF LogFits, FitsAt
<1>6. ASSUME NEW k \in P, NEW i \in P, NEW j \in P, k < i, i < j, d[k].kind = "placed",
             About(d[i], d[k].order, {"filled"}), About(d[j], d[k].order, {"filled"})
      PROVE  d[i].filled <= d[j].filled
  <2>1. PICK a, b, e \in 1..Len(c) : a = g[k] /\ b = g[i] /\ e = g[j]
    BY <1>2
  <2>2. a < b /\ b < e /\ c[a] = d[k] /\ c[b] = d[i] /\ c[e] = d[j]
    BY <1>1, <1>2, <1>6, <2>1
  <2>3. c[b].filled <= c[e].filled
    BY ONLY <1>6, <2>2, LogFits(c, ords) DEF LogFits, FitsAt
  <2> QED
    BY <2>2, <2>3
<1>7. \A i \in P : d[i].kind = "status" => d[i].status # "FILLED"
  BY <1>2 DEF LogFits, FitsAt
<1> QED
  BY <1>3, <1>4, <1>5, <1>6, <1>7 DEF FitsAt

\* d is c with e put in at m.
Inserted(d, c, m, e) ==
  /\ Len(c) \in Nat /\ Len(d) = Len(c) + 1
  /\ m \in 1..Len(d)
  /\ d[m] = e
  /\ \A p \in 1..Len(c) : c[p] = IF p < m THEN d[p] ELSE d[p + 1]

OthersThan(d, m) == (1..Len(d)) \ {m}

LEMMA InsertedWithin ==
  ASSUME NEW c, NEW d, NEW m, NEW e, Inserted(d, c, m, e)
  PROVE  /\ Within(d, OthersThan(d, m), c)
         /\ OthersThan(d, m) \in SUBSET Nat /\ Len(c) \in Nat
<1>1. /\ Len(c) \in Nat /\ Len(d) = Len(c) + 1 /\ m \in 1..Len(d)
      /\ \A p \in 1..Len(c) : c[p] = IF p < m THEN d[p] ELSE d[p + 1]
  BY DEF Inserted
<1>2. PICK g : g = [p \in OthersThan(d, m) |-> IF p < m THEN p ELSE p - 1]
  OBVIOUS
<1>3. ASSUME NEW p \in OthersThan(d, m)
      PROVE  /\ g[p] \in 1..Len(c) /\ d[p] = c[g[p]]
             /\ g[p] = IF p < m THEN p ELSE p - 1
             /\ p \in Nat /\ p # m
  <2>1. g[p] = IF p < m THEN p ELSE p - 1
    BY <1>2
  <2>2. p \in 1..Len(d) /\ p # m
    BY DEF OthersThan
  <2>3. CASE p < m
    BY <1>1, <2>1, <2>2, <2>3
  <2>4. CASE ~(p < m)
    <3>1. p - 1 \in 1..Len(c) /\ ~(p - 1 < m) /\ (p - 1) + 1 = p
      BY <1>1, <2>2, <2>4
    <3> QED
      BY <1>1, <2>1, <2>2, <2>4, <3>1
  <2> QED
    BY <2>3, <2>4
<1>4. \A p, q \in OthersThan(d, m) : p < q => g[p] < g[q]
  BY <1>1, <1>3
<1>5. g \in [OthersThan(d, m) -> 1..Len(c)]
  BY <1>2, <1>3
<1>6. Within(d, OthersThan(d, m), c)
  BY <1>3, <1>4, <1>5 DEF Within
<1> QED
  BY <1>1, <1>6 DEF OthersThan

\* Appending and putting in.
LEMMA AppendInserts ==
  ASSUME NEW S, NEW c \in Seq(S), NEW e \in S
  PROVE  /\ Append(c, e) \in Seq(S)
         /\ Inserted(Append(c, e), c, Len(c) + 1, e) /\ Len(Append(c, e)) = Len(c) + 1
<1>1. PICK d : d = Append(c, e)
  OBVIOUS
<1>2. /\ d \in Seq(S) /\ Len(c) \in Nat /\ Len(d) = Len(c) + 1 /\ d[Len(c) + 1] = e
      /\ \A p \in 1..Len(c) : d[p] = c[p]
  BY <1>1, AppendProperties, LenProperties
<1> QED
  BY <1>1, <1>2 DEF Inserted

LEMMA ConcatInserts ==
  ASSUME NEW S, NEW a \in Seq(S), NEW b \in Seq(S), NEW e \in S
  PROVE  /\ Append(a, e) \o b \in Seq(S) /\ a \o b \in Seq(S)
         /\ Inserted(Append(a, e) \o b, a \o b, Len(a) + 1, e)
         /\ Len(a \o b) = Len(a) + Len(b)
         /\ \A p \in Len(a)+1..Len(a)+Len(b) : (a \o b)[p] = b[p - Len(a)]
<1>1. PICK f, c, d : f = Append(a, e) /\ c = a \o b /\ d = f \o b
  OBVIOUS
<1>2. /\ f \in Seq(S) /\ Len(a) \in Nat /\ Len(b) \in Nat /\ Len(f) = Len(a) + 1
      /\ f[Len(a) + 1] = e /\ \A p \in 1..Len(a) : f[p] = a[p]
  BY <1>1, AppendProperties, LenProperties
<1>3. /\ c \in Seq(S) /\ Len(c) = Len(a) + Len(b)
      /\ \A p \in 1..Len(a)+Len(b) : c[p] = IF p <= Len(a) THEN a[p] ELSE b[p - Len(a)]
  BY <1>1, ConcatProperties
<1>4. /\ d \in Seq(S) /\ Len(d) = Len(f) + Len(b)
      /\ \A p \in 1..Len(f)+Len(b) : d[p] = IF p <= Len(f) THEN f[p] ELSE b[p - Len(f)]
  BY <1>1, <1>2, ConcatProperties
<1>5. d[Len(a) + 1] = e
  BY <1>2, <1>4
<1>6. ASSUME NEW p \in 1..Len(c)
      PROVE  c[p] = IF p < Len(a) + 1 THEN d[p] ELSE d[p + 1]
  <2>1. CASE p < Len(a) + 1
    <3>1. p \in 1..Len(f)+Len(b) /\ p <= Len(f) /\ p \in 1..Len(a)
      BY <1>2, <1>3, <2>1
    <3> QED
      BY <1>2, <1>3, <1>4, <2>1, <3>1, SMTT(30)
  <2>2. CASE ~(p < Len(a) + 1)
    <3>1. p + 1 \in 1..Len(f)+Len(b) /\ ~(p + 1 <= Len(f)) /\ (p + 1) - Len(f) = p - Len(a)
      BY <1>2, <1>3, <2>2
    <3>2. d[p + 1] = b[p - Len(a)]
      BY <1>4, <3>1
    <3>3. c[p] = b[p - Len(a)]
      BY <1>2, <1>3, <2>2
    <3> QED
      BY <2>2, <3>2, <3>3
  <2> QED
    BY <2>1, <2>2
<1>7. Inserted(d, c, Len(a) + 1, e)
  BY <1>2, <1>3, <1>4, <1>5, <1>6 DEF Inserted
<1> QED
  BY <1>1, <1>2, <1>3, <1>4, <1>7

-----------------------------------------------------------------------------
(* What an event does to a log that fits the orders *)

LEMMA EventFields ==
  ASSUME NEW e \in LogEvents
  PROVE  /\ e.kind \in {"placed", "status", "filled", "trade", "settlement", "cash", "deleted"}
         /\ e.kind = "placed" => /\ e.order \in OrderIds /\ e.account \in Accounts
                                 /\ e.ticket \in TicketType /\ e.time \in Nat
         /\ e.kind = "status" => e.order \in OrderIds /\ e.status \in Statuses
         /\ e.kind = "filled" => /\ e.order \in OrderIds /\ e.status \in Statuses
                                 /\ e.filled \in Nat
         /\ e.kind = "trade" => e.buy \in OrderIds /\ e.sell \in OrderIds /\ e.qty \in Nat
         /\ e.kind = "settlement" =>
              /\ e.buyer \in Accounts /\ e.seller \in Accounts /\ e.buy \in OrderIds
              /\ e.sell \in OrderIds /\ e.symbol \in Symbols /\ e.price \in Nat /\ e.qty \in Nat
         /\ e.kind = "cash" => e.account \in Accounts /\ e.amount \in Int
         /\ e.kind = "deleted" => e.account \in Accounts
BY DEF LogEvents

\* One that says nothing of an order's form or fills, wherever it is put.
LEMMA FitsQuiet ==
  ASSUME NEW c, NEW d, NEW m, NEW e, NEW ords, Inserted(d, c, m, e), LogFits(c, ords),
         e.kind \notin {"placed", "filled"},
         e.kind = "status" => e.status # "FILLED"
  PROVE  LogFits(d, ords)
<1>1. FitsAt(d, OthersThan(d, m), ords)
  BY InsertedWithin, FitsWithin
<1>2. d[m] = e
  BY DEF Inserted
<1>3. PICK P, Q : P = OthersThan(d, m) /\ Q = 1..Len(d)
  OBVIOUS
<1>4. \A p \in Q : p \in P \/ p = m
  BY <1>3 DEF OthersThan
<1>5. FitsAt(d, Q, ords)
  BY <1>1, <1>2, <1>3, <1>4 DEF FitsAt, About
<1> QED
  BY <1>3, <1>5 DEF LogFits

\* The placement of an order that no event behind it speaks of.
LEMMA FitsPlaced ==
  ASSUME NEW c, NEW d, NEW m, NEW e, NEW ords, NEW new, Inserted(d, c, m, e), LogFits(c, ords),
         e.kind = "placed", e.order \notin DOMAIN ords, e.order \in DOMAIN new,
         new[e.order].ticket = e.ticket,
         \A o \in DOMAIN ords : o \in DOMAIN new /\ new[o] = ords[o],
         \A p \in m+1..Len(d) : ~About(d[p], e.order, {"filled"})
  PROVE  LogFits(d, new)
<1>1. FitsAt(d, OthersThan(d, m), ords)
  BY InsertedWithin, FitsWithin
<1>2. d[m] = e /\ m \in Nat /\ Len(d) \in Nat
  BY DEF Inserted
<1>3. PICK P, Q : P = OthersThan(d, m) /\ Q = 1..Len(d)
  OBVIOUS
<1>4. \A p \in Q : (p \in P \/ p = m) /\ (p > m => p \in m+1..Len(d)) /\ p \in Nat
  BY <1>2, <1>3 DEF OthersThan
<1>5. \A i \in P : d[i].kind = "placed" => d[i].order \in DOMAIN ords /\ d[i].order # e.order
  BY <1>1, <1>3 DEF FitsAt
<1>6. \A i \in Q : d[i].kind = "placed" =>
        d[i].order \in DOMAIN new /\ new[d[i].order].ticket = d[i].ticket
  BY <1>1, <1>2, <1>3, <1>4, <1>5 DEF FitsAt
<1>7. \A i, j \in Q : d[i].kind = "placed" /\ About(d[j], d[i].order, {"placed"}) => i = j
  BY <1>1, <1>2, <1>3, <1>4, <1>5 DEF FitsAt, About
<1>8. ASSUME NEW k \in Q, NEW i \in Q, k < i, d[k].kind = "placed",
             About(d[i], d[k].order, {"filled"})
      PROVE  k \in P /\ i \in P
  <2>1. i # m
    BY <1>2, <1>8 DEF About
  <2>2. k # m
    BY <1>2, <1>4, <1>8
  <2> QED
    BY <1>4, <2>1, <2>2
<1>9. ASSUME NEW k \in Q, NEW i \in Q, k < i, d[k].kind = "placed",
             About(d[i], d[k].order, {"filled"})
      PROVE  /\ d[i].filled <= new[d[k].order].filled
             /\ d[i].status = "FILLED" => d[i].filled >= d[k].ticket.qty
  <2>1. k \in P /\ i \in P /\ new[d[k].order] = ords[d[k].order]
    BY <1>5, <1>8, <1>9
  <2> QED
    BY <1>1, <1>3, <1>9, <2>1 DEF FitsAt
<1>10. ASSUME NEW k \in Q, NEW i \in Q, NEW j \in Q, k < i, i < j, d[k].kind = "placed",
              About(d[i], d[k].order, {"filled"}), About(d[j], d[k].order, {"filled"})
       PROVE  d[i].filled <= d[j].filled
  <2>1. k < j
    BY <1>4, <1>10
  <2>2. k \in P /\ i \in P /\ j \in P
    BY <1>8, <1>10, <2>1
  <2> QED
    BY <1>1, <1>3, <1>10, <2>2 DEF FitsAt
<1>11. \A i \in Q : d[i].kind = "status" => d[i].status # "FILLED"
  BY <1>1, <1>2, <1>3, <1>4 DEF FitsAt
<1>12. FitsAt(d, Q, new)
  BY <1>6, <1>7, <1>9, <1>10, <1>11 DEF FitsAt
<1> QED
  BY <1>3, <1>12 DEF LogFits

\* A fill, at the end of the log.
LEMMA FitsFilled ==
  ASSUME NEW c, NEW d, NEW e, NEW ords, Inserted(d, c, Len(c) + 1, e), LogFits(c, ords),
         e.kind = "filled", e.order \in DOMAIN ords, e.filled = ords[e.order].filled,
         e.filled \in Int,
         e.status = "FILLED" => e.filled >= ords[e.order].ticket.qty
  PROVE  LogFits(d, ords)
<1>1. FitsAt(d, OthersThan(d, Len(c) + 1), ords) /\ Len(c) \in Nat
  BY InsertedWithin, FitsWithin
<1>2. PICK P, Q, m : /\ P = OthersThan(d, Len(c) + 1) /\ Q = 1..Len(d) /\ m = Len(c) + 1
                     /\ m \in Nat
  BY <1>1
<1>3. d[m] = e /\ \A p \in Q : p <= m /\ p \in Nat /\ (p \in P \/ p = m) /\ (p < m => p \in P)
  BY <1>2 DEF Inserted, OthersThan
<1>4. \A i \in Q : d[i].kind = "placed" =>
        d[i].order \in DOMAIN ords /\ ords[d[i].order].ticket = d[i].ticket
  BY <1>1, <1>2, <1>3 DEF FitsAt
<1>5. \A i, j \in Q : d[i].kind = "placed" /\ About(d[j], d[i].order, {"placed"}) => i = j
  BY <1>1, <1>2, <1>3 DEF FitsAt, About
<1>6. ASSUME NEW k \in Q, NEW i \in Q, k < i, d[k].kind = "placed",
             About(d[i], d[k].order, {"filled"})
      PROVE  /\ d[i].filled <= ords[d[k].order].filled
             /\ d[i].status = "FILLED" => d[i].filled >= d[k].ticket.qty
  <2>1. CASE i = m
    BY <1>3, <1>4, <1>6, <2>1 DEF About
  <2>2. CASE i # m
    <3>1. k \in P /\ i \in P
      BY <1>3, <1>6, <2>2
    <3> QED
      BY <1>1, <1>2, <1>6, <3>1 DEF FitsAt
  <2> QED
    BY <2>1, <2>2
<1>7. ASSUME NEW k \in Q, NEW i \in Q, NEW j \in Q, k < i, i < j, d[k].kind = "placed",
             About(d[i], d[k].order, {"filled"}), About(d[j], d[k].order, {"filled"})
      PROVE  d[i].filled <= d[j].filled
  <2>1. CASE j = m
    BY <1>3, <1>6, <1>7, <2>1 DEF About
  <2>2. CASE j # m
    <3>1. k \in P /\ i \in P /\ j \in P
      BY <1>3, <1>7, <2>2
    <3> QED
      BY <1>1, <1>2, <1>7, <3>1 DEF FitsAt
  <2> QED
    BY <2>1, <2>2
<1>8. \A i \in Q : d[i].kind = "status" => d[i].status # "FILLED"
  BY <1>1, <1>2, <1>3 DEF FitsAt
<1>9. FitsAt(d, Q, ords)
  BY <1>4, <1>5, <1>6, <1>7, <1>8 DEF FitsAt
<1> QED
  BY <1>2, <1>9 DEF LogFits

\* The orders go on: none is forgotten, none is filled less.
GoOn(ords, new) ==
  \A o \in DOMAIN ords :
    /\ o \in DOMAIN new /\ new[o].ticket = ords[o].ticket
    /\ ords[o].filled \in Int /\ new[o].filled \in Int /\ ords[o].filled <= new[o].filled

LEMMA FitsGoOn ==
  ASSUME NEW c \in Seq(LogEvents), NEW ords, NEW new, LogFits(c, ords), GoOn(ords, new)
  PROVE  LogFits(c, new)
<1>1. \A i \in 1..Len(c) : c[i].kind = "placed" => c[i].order \in DOMAIN ords
  BY DEF LogFits, FitsAt
<1>2. \A i \in 1..Len(c) : c[i].kind = "filled" => c[i].filled \in Int
  BY ElementOfSeq, EventFields
<1>3. ASSUME NEW k \in 1..Len(c), NEW i \in 1..Len(c), k < i, c[k].kind = "placed",
             About(c[i], c[k].order, {"filled"})
      PROVE  /\ c[i].filled <= new[c[k].order].filled
             /\ c[i].status = "FILLED" => c[i].filled >= c[k].ticket.qty
  <2>1. /\ c[i].filled <= ords[c[k].order].filled
        /\ c[i].status = "FILLED" => c[i].filled >= c[k].ticket.qty
    BY <1>3 DEF LogFits, FitsAt
  <2>2. c[i].filled \in Int
    BY <1>2, <1>3 DEF About
  <2>3. PICK x \in Int, y \in Int :
          x = ords[c[k].order].filled /\ y = new[c[k].order].filled /\ x <= y
    BY <1>1, <1>3 DEF GoOn
  <2> QED
    BY <2>1, <2>2, <2>3
<1> QED
  BY <1>1, <1>3 DEF LogFits, FitsAt, GoOn

-----------------------------------------------------------------------------
(* What an event does to what a log tells *)

LEMMA LastKept ==
  ASSUME NEW c, NEW d, NEW m, NEW e, Inserted(d, c, m, e), NEW o, NEW kinds, NEW x,
         ~About(e, o, kinds), LastEvent(c, Len(c), o, kinds, x)
  PROVE  LastEvent(d, Len(d), o, kinds, x)
<1>1. /\ Len(c) \in Nat /\ Len(d) = Len(c) + 1 /\ m \in 1..Len(d) /\ d[m] = e
      /\ \A p \in 1..Len(c) : c[p] = IF p < m THEN d[p] ELSE d[p + 1]
  BY DEF Inserted
<1>2. PICK i \in 1..Len(c) : c[i] = x /\ \A j \in 1..Len(c) : About(c[j], o, kinds) => j <= i
  BY DEF LastEvent
<1>3. PICK k \in 1..Len(d) : k = (IF i < m THEN i ELSE i + 1)
  BY <1>1, <1>2
<1>4. d[k] = x
  BY <1>1, <1>2, <1>3
<1>5. ASSUME NEW j \in 1..Len(d), About(d[j], o, kinds)
      PROVE  j <= k
  <2>1. j # m
    BY <1>1, <1>5
  <2>2. CASE j < m
    <3>1. j \in 1..Len(c) /\ c[j] = d[j]
      BY <1>1, <2>2
    <3>2. j <= i
      BY <1>2, <1>5, <3>1
    <3> QED
      BY <1>2, <1>3, <3>2
  <2>3. CASE j > m
    <3>1. j - 1 \in 1..Len(c) /\ ~(j - 1 < m) /\ (j - 1) + 1 = j
      BY <1>1, <2>3
    <3>2. c[j - 1] = d[j]
      BY <1>1, <3>1
    <3>3. j - 1 <= i
      BY <1>2, <1>5, <3>1, <3>2
    <3> QED
      BY <1>1, <1>2, <1>3, <2>3, <3>3
  <2> QED
    BY <1>1, <2>1, <2>2, <2>3
<1> QED
  BY <1>4, <1>5 DEF LastEvent

LEMMA LastPut ==
  ASSUME NEW c, NEW d, NEW m, NEW e, Inserted(d, c, m, e), NEW o, NEW kinds,
         About(e, o, kinds), \A p \in m+1..Len(d) : ~About(d[p], o, kinds)
  PROVE  LastEvent(d, Len(d), o, kinds, e)
<1>1. Len(d) \in Nat /\ m \in 1..Len(d) /\ d[m] = e
  BY DEF Inserted
<1>2. ASSUME NEW j \in 1..Len(d), About(d[j], o, kinds) PROVE j <= m
  <2>1. CASE j > m
    <3>1. j \in m+1..Len(d)
      BY <1>1, <2>1
    <3> QED
      BY <1>2, <3>1
  <2> QED
    BY <1>1, <2>1
<1> QED
  BY <1>1, <1>2 DEF LastEvent

\* A log has one last event.
LEMMA LastIsOne ==
  ASSUME NEW log, NEW n, NEW o, NEW kinds, NEW x, NEW y,
         LastEvent(log, n, o, kinds, x), LastEvent(log, n, o, kinds, y)
  PROVE  x = y
<1>1. PICK i \in 1..n : log[i] = x /\ \A j \in 1..n : About(log[j], o, kinds) => j <= i
  BY DEF LastEvent
<1>2. PICK k \in 1..n : log[k] = y /\ \A j \in 1..n : About(log[j], o, kinds) => j <= k
  BY DEF LastEvent
<1>3. i <= k /\ k <= i
  BY <1>1, <1>2 DEF LastEvent
<1> QED
  BY <1>1, <1>2, <1>3

\* Who reads the last events of a log as an order reads its own.
Told(log, n, o, ord) ==
  FormTold(log, n, o, ord) /\ StatusTold(log, n, o, ord) /\ FilledTold(log, n, o, ord)

LEMMA ToldIsOne ==
  ASSUME NEW log, NEW n, NEW o, NEW x \in Orders, NEW y \in Orders,
         Told(log, n, o, x), Told(log, n, o, y)
  PROVE  x = y
<1>1. x.account = y.account /\ x.ticket = y.ticket /\ x.created = y.created
  BY LastIsOne DEF Told, FormTold
<1>2. x.status = y.status
  BY LastIsOne DEF Told, StatusTold
<1>3. x.filled = y.filled
  BY LastIsOne DEF Told, FilledTold
<1> QED
  BY <1>1, <1>2, <1>3 DEF Orders

\* An event that is not about the order changes nothing of what the log tells of it.
LEMMA OrderToldKept ==
  ASSUME NEW c, NEW d, NEW m, NEW e, Inserted(d, c, m, e), NEW o, NEW ord,
         ~About(e, o, StatusEvents), OrderTold(c, o, ord)
  PROVE  OrderTold(d, o, ord)
<1>1. ~About(e, o, FormEvents) /\ ~About(e, o, FillEvents)
  BY DEF About, FormEvents, FillEvents, StatusEvents
<1>2. FormTold(d, Len(d), o, ord)
  BY <1>1, LastKept DEF OrderTold, FormTold
<1>3. StatusTold(c, Len(c), o, ord) => StatusTold(d, Len(d), o, ord)
  BY LastKept DEF StatusTold
<1>4. FilledTold(c, Len(c), o, ord) => FilledTold(d, Len(d), o, ord)
  BY <1>1, LastKept DEF FilledTold
<1> QED
  BY <1>2, <1>3, <1>4 DEF OrderTold

\* A change of status with its event.
LEMMA OrderToldStatus ==
  ASSUME NEW c, NEW d, NEW e \in LogEvents, Inserted(d, c, Len(c) + 1, e), NEW o, NEW ord, NEW new,
         e.kind = "status", e.order = o, new.status = e.status,
         FormTold(c, Len(c), o, ord), FilledTold(c, Len(c), o, ord),
         new.account = ord.account, new.ticket = ord.ticket, new.created = ord.created,
         new.filled = ord.filled
  PROVE  OrderTold(d, o, new)
<1>1. /\ ~About(e, o, FormEvents) /\ ~About(e, o, FillEvents) /\ About(e, o, StatusEvents)
      /\ StatusAfter(e) = e.status
  BY DEF About, FormEvents, FillEvents, StatusEvents, StatusAfter
<1>2. FormTold(d, Len(d), o, new)
  BY <1>1, LastKept DEF FormTold
<1>3. FilledTold(d, Len(d), o, new)
  BY <1>1, LastKept DEF FilledTold
<1>4. \A p \in Len(c)+1+1..Len(d) : ~About(d[p], o, StatusEvents)
  BY DEF Inserted
<1>5. StatusTold(d, Len(d), o, new)
  BY <1>1, <1>4, LastPut DEF StatusTold
<1> QED
  BY <1>2, <1>3, <1>5 DEF OrderTold

\* A fill with its event: status and filled quantity are in it.
LEMMA OrderToldFilled ==
  ASSUME NEW c, NEW d, NEW e \in LogEvents, Inserted(d, c, Len(c) + 1, e), NEW o, NEW ord, NEW new,
         e.kind = "filled", e.order = o, new.status = e.status, new.filled = e.filled,
         FormTold(c, Len(c), o, ord),
         new.account = ord.account, new.ticket = ord.ticket, new.created = ord.created
  PROVE  OrderTold(d, o, new)
<1>1. /\ ~About(e, o, FormEvents) /\ About(e, o, FillEvents) /\ About(e, o, StatusEvents)
      /\ StatusAfter(e) = e.status /\ FilledAfter(e) = e.filled
  BY DEF About, FormEvents, FillEvents, StatusEvents, StatusAfter, FilledAfter
<1>2. FormTold(d, Len(d), o, new)
  BY <1>1, LastKept DEF FormTold
<1>3. \A p \in Len(c)+1+1..Len(d) : ~About(d[p], o, StatusEvents) /\ ~About(d[p], o, FillEvents)
  BY DEF Inserted
<1>4. StatusTold(d, Len(d), o, new) /\ FilledTold(d, Len(d), o, new)
  BY <1>1, <1>3, LastPut DEF StatusTold, FilledTold
<1> QED
  BY <1>2, <1>4 DEF OrderTold

\* A placement that no event behind it speaks of.
LEMMA OrderToldPlaced ==
  ASSUME NEW c, NEW d, NEW m, NEW e \in LogEvents, Inserted(d, c, m, e), NEW o, NEW ord,
         e.kind = "placed", e.order = o,
         \A p \in m+1..Len(d) : ~About(d[p], o, StatusEvents),
         ord.account = e.account, ord.ticket = e.ticket, ord.created = e.time, ord.filled = 0
  PROVE  FormTold(d, Len(d), o, ord) /\ FilledTold(d, Len(d), o, ord)
<1>1. /\ About(e, o, FormEvents) /\ About(e, o, FillEvents) /\ FilledAfter(e) = 0
  BY DEF About, FormEvents, FillEvents, FilledAfter
<1>2. \A p \in m+1..Len(d) : ~About(d[p], o, FormEvents) /\ ~About(d[p], o, FillEvents)
  BY DEF About, FormEvents, FillEvents, StatusEvents
<1> QED
  BY <1>1, <1>2, LastPut DEF FormTold, FilledTold

-----------------------------------------------------------------------------
(* What the handlers do to the orders *)

\* A FILLED order has its quantity.
FilledHasAll(ords) == \A o \in DOMAIN ords : ords[o].status = "FILLED" => Remaining(ords[o]) <= 0

\* Orders are filled, in steps that each add a quantity.
Filling(ords, new) ==
  /\ DOMAIN new = DOMAIN ords
  /\ KeptIn(ords, new)
  /\ GoOn(ords, new)
  /\ FilledHasAll(new)

LEMMA OneFilled ==
  ASSUME NEW ord \in Orders, NEW q \in Nat, NEW new, new \in {Fill(ord, q), AddFill(ord, q)},
         ord.status = "FILLED" => Remaining(ord) <= 0
  PROVE  /\ new \in Orders
         /\ new.ticket = ord.ticket /\ new.account = ord.account /\ new.created = ord.created
         /\ new.filled = ord.filled + q
         /\ new.status = "FILLED" => Remaining(new) <= 0
<1>1. ord.filled \in Nat /\ ord.ticket.qty \in Nat /\ ord.filled + q \in Nat /\ Remaining(ord) \in Int
  BY DEF Orders, TicketType, Remaining
<1>2. PICK a, f : a = AddFill(ord, q) /\ f = Fill(ord, q)
  OBVIOUS
<1>3. /\ a \in Orders /\ f \in Orders
      /\ a.ticket = ord.ticket /\ f.ticket = ord.ticket
  BY <1>1, <1>2, FillType
<1>4. /\ f.account = ord.account /\ a.account = ord.account
      /\ f.created = ord.created /\ a.created = ord.created
      /\ Remaining(f) = Remaining(ord) - q /\ Remaining(a) = Remaining(ord) - q
      /\ a.status = ord.status
      /\ f.status = IF Remaining(ord) - q <= 0 THEN "FILLED"
                    ELSE IF ord.status = "ROUTED" THEN "PARTIALLY_FILLED" ELSE ord.status
  BY <1>2, FillEffect
<1>5. f.filled = ord.filled + q /\ a.filled = ord.filled + q
  <2>1. f.filled \in Nat /\ a.filled \in Nat
    BY <1>3 DEF Orders
  <2> QED
    BY <1>1, <1>3, <1>4, <2>1 DEF Remaining
<1>6. f.status = "FILLED" => Remaining(f) <= 0
  BY <1>1, <1>4
<1>7. a.status = "FILLED" => Remaining(a) <= 0
  BY <1>1, <1>4
<1> QED
  BY <1>2, <1>3, <1>4, <1>5, <1>6, <1>7

\* One order filled, in the function of all.
LEMMA FillingOne ==
  ASSUME NEW ords, DOMAIN ords \subseteq OrderIds, ords \in [DOMAIN ords -> Orders],
         FilledHasAll(ords), NEW o \in DOMAIN ords, NEW q \in Nat, NEW new,
         \/ new = [ords EXCEPT ![o] = Fill(ords[o], q)]
         \/ new = [ords EXCEPT ![o] = AddFill(ords[o], q)]
  PROVE  /\ Filling(ords, new) /\ new \in [DOMAIN new -> Orders]
         /\ \A x \in DOMAIN ords \ {o} : new[x] = ords[x]
<1>1. PICK ord : ord \in {Fill(ords[o], q), AddFill(ords[o], q)} /\ new = [ords EXCEPT ![o] = ord]
  OBVIOUS
<1>2. ords[o] \in Orders /\ (ords[o].status = "FILLED" => Remaining(ords[o]) <= 0)
  BY DEF FilledHasAll
<1>3. /\ ord \in Orders
      /\ ord.ticket = ords[o].ticket /\ ord.account = ords[o].account
      /\ ord.created = ords[o].created /\ ord.filled = ords[o].filled + q
      /\ ord.status = "FILLED" => Remaining(ord) <= 0
  BY <1>1, <1>2, OneFilled
<1>4. /\ DOMAIN new = DOMAIN ords /\ new[o] = ord
      /\ \A x \in DOMAIN ords \ {o} : new[x] = ords[x]
  BY <1>1
<1>5. KeptIn(ords, new)
  BY <1>3, <1>4 DEF KeptIn
<1>6. \A x \in DOMAIN ords : ords[x].filled \in Nat
  BY DEF Orders
<1>7. GoOn(ords, new)
  BY <1>3, <1>4, <1>6 DEF GoOn
<1>8. FilledHasAll(new)
  BY <1>3, <1>4 DEF FilledHasAll
<1>9. new \in [DOMAIN new -> Orders]
  BY <1>1, <1>3, <1>4
<1> QED
  BY <1>4, <1>5, <1>7, <1>8, <1>9 DEF Filling

LEMMA FillingTwice ==
  ASSUME NEW x, NEW y, NEW z, Filling(x, y), Filling(y, z)
  PROVE  Filling(x, z)
<1>1. KeptIn(x, z)
  BY DEF Filling, KeptIn
<1>2. GoOn(x, z)
  <2> SUFFICES ASSUME NEW o \in DOMAIN x
               PROVE  /\ o \in DOMAIN z /\ z[o].ticket = x[o].ticket
                      /\ x[o].filled \in Int /\ z[o].filled \in Int /\ x[o].filled <= z[o].filled
    BY DEF GoOn
  <2>1. /\ o \in DOMAIN y /\ y[o].ticket = x[o].ticket
        /\ x[o].filled \in Int /\ y[o].filled \in Int /\ x[o].filled <= y[o].filled
    BY DEF Filling, GoOn
  <2>2. /\ o \in DOMAIN z /\ z[o].ticket = y[o].ticket
        /\ z[o].filled \in Int /\ y[o].filled <= z[o].filled
    BY <2>1 DEF Filling, GoOn
  <2> QED
    BY <2>1, <2>2
<1> QED
  BY <1>1, <1>2 DEF Filling

LEMMA BothFilled ==
  ASSUME OMSTypeOK, FilledHasAll(orders), NEW b \in DOMAIN orders, NEW s \in DOMAIN orders,
         NEW q \in Nat, FillBoth(b, s, q)
  PROVE  /\ Filling(orders, orders')
         /\ \A x \in DOMAIN orders \ {b, s} : orders'[x] = orders[x]
<1>1. PICK mid : mid = [orders EXCEPT ![b] = Fill(orders[b], q)]
  OBVIOUS
<1>2. DOMAIN orders \subseteq OrderIds /\ orders \in [DOMAIN orders -> Orders]
  BY DEF OMSTypeOK
<1>3. /\ Filling(orders, mid) /\ mid \in [DOMAIN mid -> Orders] /\ DOMAIN mid = DOMAIN orders
      /\ FilledHasAll(mid)
      /\ \A x \in DOMAIN orders \ {b} : mid[x] = orders[x]
  <2>1. Filling(orders, mid) /\ mid \in [DOMAIN mid -> Orders]
        /\ \A x \in DOMAIN orders \ {b} : mid[x] = orders[x]
    BY <1>1, <1>2, FillingOne
  <2> QED
    BY <2>1 DEF Filling
<1>4. orders' = [mid EXCEPT ![s] = Fill(mid[s], q)]
  BY <1>1 DEF FillBoth
<1>5. /\ Filling(mid, orders')
      /\ \A x \in DOMAIN mid \ {s} : orders'[x] = mid[x]
  BY <1>2, <1>3, <1>4, FillingOne
<1> QED
  BY <1>3, <1>5, FillingTwice

\* A fill that the state machine refuses leaves the quantity behind.
LEMMA RefusedFill ==
  ASSUME NEW ord \in Orders, NEW q \in Nat \ {0}, FillRaises(ord, q),
         ord.status = "FILLED" => Remaining(ord) <= 0
  PROVE  Refused(AddFill(ord, q))
<1>1. PICK a : a = AddFill(ord, q)
  OBVIOUS
<1>2. /\ a.status = ord.status /\ Remaining(a) = Remaining(ord) - q /\ Remaining(ord) \in Int
  BY <1>1, FillEffect
<1>3. ord.status \notin {"ROUTED", "PARTIALLY_FILLED"}
  BY DEF FillRaises, CanTransition, Transitions
<1>4. Remaining(ord) <= q
  BY DEF FillRaises, Remaining, Orders, TicketType
<1>5. Refused(a)
  BY <1>2, <1>3, <1>4 DEF Refused
<1> QED
  BY <1>1, <1>5

LEMMA BothFilledRaising ==
  ASSUME OMSTypeOK, FilledHasAll(orders), NEW b \in DOMAIN orders, NEW s \in DOMAIN orders,
         NEW q \in Nat \ {0}, TradeRaises(b, s, q), FillBothRaising(b, s, q)
  PROVE  /\ Filling(orders, orders')
         /\ IF FillRaises(orders[b], q)
            THEN /\ Refused(orders'[b])
                 /\ \A x \in DOMAIN orders \ {b} : orders'[x] = orders[x]
            ELSE /\ b # s /\ Refused(orders'[s])
                 /\ \A x \in DOMAIN orders \ {b, s} : orders'[x] = orders[x]
<1>1. /\ DOMAIN orders \subseteq OrderIds /\ orders \in [DOMAIN orders -> Orders] /\ q \in Nat
      /\ \A x \in DOMAIN orders : orders[x].status = "FILLED" => Remaining(orders[x]) <= 0
  BY DEF OMSTypeOK, FilledHasAll
<1>2. CASE FillRaises(orders[b], q)
  <2>1. orders' = [orders EXCEPT ![b] = AddFill(orders[b], q)]
    BY <1>2 DEF FillBothRaising
  <2>2. /\ Filling(orders, orders')
        /\ \A x \in DOMAIN orders \ {b} : orders'[x] = orders[x]
    BY <1>1, <2>1, FillingOne
  <2>3. Refused(AddFill(orders[b], q))
    BY <1>1, <1>2, RefusedFill
  <2>4. orders'[b] = AddFill(orders[b], q)
    BY <1>1, <2>1
  <2> QED
    BY <1>2, <2>2, <2>3, <2>4
<1>3. CASE ~FillRaises(orders[b], q)
  <2>1. FillRaises(orders[s], q) /\ b # s
    BY <1>3 DEF TradeRaises
  <2>2. PICK mid : mid = [orders EXCEPT ![b] = Fill(orders[b], q)]
    OBVIOUS
  <2>3. /\ Filling(orders, mid) /\ mid \in [DOMAIN mid -> Orders]
        /\ \A x \in DOMAIN orders \ {b} : mid[x] = orders[x]
    BY <1>1, <2>2, FillingOne
  <2>4. DOMAIN mid = DOMAIN orders /\ FilledHasAll(mid) /\ mid[s] = orders[s]
    BY <2>1, <2>3 DEF Filling
  <2>5. orders' = [mid EXCEPT ![s] = AddFill(mid[s], q)]
    BY <1>3, <2>2 DEF FillBothRaising
  <2>6. /\ Filling(mid, orders')
        /\ \A x \in DOMAIN mid \ {s} : orders'[x] = mid[x]
    BY <1>1, <2>3, <2>4, <2>5, FillingOne
  <2>7. Refused(AddFill(orders[s], q))
    BY <1>1, <2>1, RefusedFill
  <2>8. orders'[s] = AddFill(orders[s], q)
    BY <2>4, <2>5
  <2> QED
    BY <1>3, <2>1, <2>3, <2>4, <2>6, <2>7, <2>8, FillingTwice
<1> QED
  BY <1>2, <1>3

-----------------------------------------------------------------------------
(* The log as the handlers see it: the journal with the outbox behind it.  *)

TheLog == journal \o outbox

\* What holds of the log while the process is up; torn, that a flush has failed.
LogSound(c, ords, torn) == LogFits(c, ords) /\ (~torn => LogTells(c, ords))

LEMMA Pairs ==
  ASSUME NEW S, NEW c \in Seq(S), NEW e \in S, NEW f \in S
  PROVE  /\ <<e>> \in Seq(S) /\ <<e, f>> \in Seq(S)
         /\ c \o <<e>> = Append(c, e) /\ c \o <<e>> \in Seq(S)
         /\ c \o <<e, f>> = (c \o <<e>>) \o <<f>> /\ c \o <<e, f>> \in Seq(S)
<1>1. <<e>> \in Seq(S) /\ <<f>> \in Seq(S) /\ <<e, f>> = <<e>> \o <<f>>
  <2>1. PICK x, y, z : x = <<e>> /\ y = <<f>> /\ z = <<e, f>>
    OBVIOUS
  <2>2. /\ x \in Seq(S) /\ Len(x) = 1 /\ x[1] = e /\ y \in Seq(S) /\ Len(y) = 1 /\ y[1] = f
        /\ z \in Seq(S) /\ Len(z) = 2 /\ z[1] = e /\ z[2] = f
    BY <2>1
  <2>3. PICK w : w = x \o y
    OBVIOUS
  <2>4. w \in Seq(S) /\ Len(w) = 2 /\ w[1] = e /\ w[2] = f
    BY <2>2, <2>3, ConcatProperties, SMTT(30)
  <2>5. \A i \in 1..Len(z) : z[i] = w[i]
    BY <2>2, <2>4
  <2>6. z = w
    BY <2>2, <2>4, <2>5, SeqEqual
  <2> QED
    BY <2>1, <2>2, <2>3, <2>6
<1>2. <<e, f>> \in Seq(S) /\ c \o <<e>> \in Seq(S) /\ c \o <<e, f>> \in Seq(S)
  BY <1>1, ConcatProperties
<1>3. c \o <<e, f>> = (c \o <<e>>) \o <<f>>
  BY <1>1, ConcatAssociative
<1>4. c \o <<e>> = Append(c, e)
  BY AppendIsConcat
<1> QED
  BY <1>1, <1>2, <1>3, <1>4

LEMMA PutLast ==
  ASSUME NEW S, NEW c \in Seq(S), NEW e \in S, NEW d, d = c \o <<e>>
  PROVE  d \in Seq(S) /\ Inserted(d, c, Len(c) + 1, e)
<1>1. d = Append(c, e)
  BY Pairs
<1> QED
  BY <1>1, AppendInserts

LEMMA PutBehind ==
  ASSUME NEW S, NEW a \in Seq(S), NEW b \in Seq(S), NEW e \in S, NEW c, NEW d,
         c = a \o b, d = (a \o <<e>>) \o b
  PROVE  /\ c \in Seq(S) /\ d \in Seq(S) /\ a \o <<e>> \in Seq(S)
         /\ Inserted(d, c, Len(a) + 1, e)
<1>1. d = Append(a, e) \o b /\ a \o <<e>> \in Seq(S)
  BY Pairs, SMTT(30)
<1> QED
  BY <1>1, ConcatInserts

\* Concatenation, with a name that stays folded in a proof.
Joined(s, t) == s \o t

LEMMA JoinedAssociative ==
  ASSUME NEW S, NEW s \in Seq(S), NEW t \in Seq(S), NEW u \in Seq(S)
  PROVE  Joined(Joined(s, t), u) = Joined(s, Joined(t, u)) /\ Joined(s, t) \in Seq(S)
BY ConcatAssociative, ConcatProperties DEF Joined

LEMMA JoinedFour ==
  ASSUME NEW S, NEW a \in Seq(S), NEW b \in Seq(S), NEW c \in Seq(S), NEW d \in Seq(S)
  PROVE  Joined(a, Joined(Joined(b, c), d)) = Joined(Joined(Joined(a, b), c), d)
<1>1. Joined(b, c) \in Seq(S) /\ Joined(a, b) \in Seq(S)
  BY JoinedAssociative
<1>2. Joined(a, Joined(Joined(b, c), d)) = Joined(Joined(a, Joined(b, c)), d)
  BY <1>1, JoinedAssociative
<1>3. Joined(Joined(a, b), c) = Joined(a, Joined(b, c))
  BY JoinedAssociative
<1> QED
  BY <1>2, <1>3

\* pre is pushed before the outbox and post behind it.
Pushed(pre, post) ==
  /\ UNCHANGED durable
  /\ \/ journal' = journal \o (pre \o outbox \o post) /\ outbox' = <<>>
     \/ journal' = journal \o pre /\ outbox' = outbox \o post

LEMMA LogGrows ==
  ASSUME LogTypeOK, outbox \in Seq(LogEvents), NEW pre \in Seq(LogEvents),
         NEW post \in Seq(LogEvents), Pushed(pre, post)
  PROVE  /\ LogTypeOK' /\ outbox' \in Seq(LogEvents)
         /\ TheLog' = ((journal \o pre) \o outbox) \o post
         /\ \A i \in 1..Len(outbox') :
              \/ \E j \in 1..Len(outbox) : outbox'[i] = outbox[j]
              \/ \E j \in 1..Len(post) : outbox'[i] = post[j]
<1>1. journal \in Seq(LogEvents) /\ durable \in 0..Len(journal) /\ Len(journal) \in Nat
  BY LenProperties DEF LogTypeOK
<1>2. /\ journal \o pre \in Seq(LogEvents) /\ (journal \o pre) \o outbox \in Seq(LogEvents)
      /\ ((journal \o pre) \o outbox) \o post \in Seq(LogEvents)
      /\ pre \o outbox \in Seq(LogEvents) /\ outbox \o post \in Seq(LogEvents)
  BY <1>1, ConcatProperties
<1>3. CASE journal' = journal \o (pre \o outbox \o post) /\ outbox' = <<>>
  <2>1. journal' = ((journal \o pre) \o outbox) \o post
    <3>1. Joined(journal, Joined(Joined(pre, outbox), post))
            = Joined(Joined(Joined(journal, pre), outbox), post)
      BY <1>1, JoinedFour
    <3> QED
      BY <1>3, <3>1 DEF Joined
  <2>2. TheLog' = ((journal \o pre) \o outbox) \o post
    BY <1>2, <1>3, <2>1, ConcatEmptySeq DEF TheLog
  <2>3. journal' \in Seq(LogEvents)
    BY <1>2, <2>1
  <2>4. Len(journal') >= Len(journal) /\ Len(journal') \in Nat
    <3>1. PICK x, y : x = pre \o outbox /\ y = x \o post
      OBVIOUS
    <3>2. x \in Seq(LogEvents) /\ y \in Seq(LogEvents) /\ journal' = journal \o y
      BY <1>2, <1>3, <3>1, ConcatProperties
    <3> QED
      BY <1>1, <3>2, ConcatProperties, LenProperties
  <2>5. outbox' \in Seq(LogEvents) /\ Len(outbox') = 0
    BY <1>3, EmptySeq
  <2> QED
    BY <1>1, <2>2, <2>3, <2>4, <2>5 DEF LogTypeOK, Pushed
<1>4. CASE journal' = journal \o pre /\ outbox' = outbox \o post
  <2>1. TheLog' = ((journal \o pre) \o outbox) \o post
    BY <1>2, <1>4, ConcatAssociative, SMTT(30) DEF TheLog
  <2>2. journal' \in Seq(LogEvents) /\ Len(journal') = Len(journal) + Len(pre) /\ Len(pre) \in Nat
    BY <1>1, <1>4, ConcatProperties, LenProperties
  <2>3. /\ outbox' \in Seq(LogEvents) /\ Len(outbox') = Len(outbox) + Len(post)
        /\ Len(outbox) \in Nat /\ Len(post) \in Nat
        /\ \A i \in 1..Len(outbox)+Len(post) :
             outbox'[i] = IF i <= Len(outbox) THEN outbox[i] ELSE post[i - Len(outbox)]
    BY <1>2, <1>4, ConcatProperties, LenProperties
  <2>4. ASSUME NEW i \in 1..Len(outbox')
        PROVE  \/ \E j \in 1..Len(outbox) : outbox'[i] = outbox[j]
               \/ \E j \in 1..Len(post) : outbox'[i] = post[j]
    <3>1. CASE i <= Len(outbox)
      BY <2>3, <3>1
    <3>2. CASE ~(i <= Len(outbox))
      <4>1. i - Len(outbox) \in 1..Len(post) /\ outbox'[i] = post[i - Len(outbox)]
        BY <2>3, <3>2
      <4> QED
        BY <4>1
    <3> QED
      BY <3>1, <3>2
  <2>5. LogTypeOK'
    BY <1>1, <2>2 DEF LogTypeOK, Pushed
  <2> QED
    BY <2>1, <2>3, <2>4, <2>5
<1> QED
  BY <1>3, <1>4 DEF Pushed

-----------------------------------------------------------------------------
(* The invariant while the process is up *)

RestTypeOK ==
  /\ phase \in {"restoring", "up", "failed"}
  /\ replayed \in Nat
  /\ lives \in Nat
  /\ holes \in BOOLEAN

RecTypeOK ==
  /\ TradingOK
  /\ LogTypeOK
  /\ outbox \in Seq(LogEvents)
  /\ RestTypeOK

\* Only fills wait in the outbox between two handlers.
OutboxFills ==
  \A i \in 1..Len(outbox) : outbox[i].kind = "filled" /\ outbox[i].order \in DOMAIN orders

ScanLeft ==
  /\ MEIdle \/ toFill = {}
  /\ \A o \in toFill : Remaining(orders[o]) > 0

UpInv ==
  /\ OutboxFills
  /\ ScanLeft
  /\ FilledHasAll(orders)
  /\ LogSound(TheLog, orders, holes)

LEMMA SoundQuiet ==
  ASSUME NEW c, NEW d, NEW m, NEW e, NEW ords, NEW torn, Inserted(d, c, m, e),
         LogSound(c, ords, torn), e.kind \notin {"placed", "filled", "status"}
  PROVE  LogSound(d, ords, torn)
<1>1. LogFits(d, ords)
  BY FitsQuiet DEF LogSound
<1>2. \A o : ~About(e, o, StatusEvents)
  BY DEF About, StatusEvents
<1>3. ASSUME ~torn PROVE LogTells(d, ords)
  BY <1>2, <1>3, OrderToldKept DEF LogSound, LogTells
<1> QED
  BY <1>1, <1>3 DEF LogSound

\* A placement: behind it in the log are only fills of orders known before.
LEMMA EnterSound ==
  ASSUME RecTypeOK, UpInv, NEW o, NEW a \in Accounts, NEW t \in Tickets, NEW status \in Statuses,
         status # "FILLED", Enter(o, a, t, status), NEW c, c = (journal \o <<Placed(o)>>) \o outbox
  PROVE  /\ Placed(o) \in LogEvents /\ c \in Seq(LogEvents)
         /\ DOMAIN orders' = DOMAIN orders \cup {o}
         /\ LogFits(c, orders') /\ FilledHasAll(orders')
         /\ FormTold(c, Len(c), o, orders'[o]) /\ FilledTold(c, Len(c), o, orders'[o])
         /\ orders'[o].status = status
         /\ ~holes => \A x \in DOMAIN orders : OrderTold(c, x, orders'[x])
<1>1. /\ OMSTypeOK' /\ DOMAIN orders' = DOMAIN orders \cup {o} /\ orders'[o].ticket = t
      /\ o \in OrderIds \ DOMAIN orders
      /\ \A x \in DOMAIN orders : orders'[x] = orders[x]
      /\ orders'[o].status = status /\ Remaining(orders'[o]) = t.qty - 0
  BY EnterType, EnterEffect DEF RecTypeOK, TradingOK
<1>2. /\ orders'[o] \in Orders /\ orders'[o].filled = 0
  <2>1. orders'[o] \in Orders
    BY <1>1 DEF OMSTypeOK
  <2>2. orders'[o] = [account |-> a, ticket |-> t, status |-> status,
                      created |-> clock', filled |-> 0]
    BY DEF Enter, Put
  <2> QED
    BY <2>1, <2>2
<1>3. PICK e : e = Placed(o)
  OBVIOUS
<1>4. /\ e \in LogEvents /\ e.kind = "placed" /\ e.order = o
      /\ e.account = orders'[o].account /\ e.ticket = orders'[o].ticket
      /\ e.time = orders'[o].created
  BY <1>1, <1>2, <1>3 DEF Placed, LogEvents, Orders
<1>5. /\ c \in Seq(LogEvents) /\ TheLog \in Seq(LogEvents)
      /\ Inserted(c, TheLog, Len(journal) + 1, e)
  BY <1>3, <1>4, PutBehind DEF RecTypeOK, LogTypeOK, TheLog
<1>6. \A p \in Len(journal)+1+1..Len(c) : c[p].kind = "filled" /\ c[p].order \in DOMAIN orders
  <2>1. /\ journal \in Seq(LogEvents) /\ outbox \in Seq(LogEvents)
        /\ Len(journal) \in Nat /\ Len(outbox) \in Nat
    BY LenProperties DEF RecTypeOK, LogTypeOK
  <2>2. PICK j : j = journal \o <<e>>
    OBVIOUS
  <2>3. j \in Seq(LogEvents) /\ Len(j) = Len(journal) + 1 /\ c = j \o outbox
    BY <1>3, <1>4, <2>1, <2>2, Pairs, AppendProperties
  <2>4. /\ Len(c) = Len(journal) + 1 + Len(outbox)
        /\ \A p \in 1..Len(j) + Len(outbox) :
             c[p] = IF p <= Len(j) THEN j[p] ELSE outbox[p - Len(j)]
    BY <2>1, <2>3, ConcatProperties
  <2>5. ASSUME NEW p \in Len(journal)+1+1..Len(c)
        PROVE  p - Len(j) \in 1..Len(outbox) /\ c[p] = outbox[p - Len(j)]
    BY <2>1, <2>3, <2>4
  <2> QED
    BY <2>5 DEF UpInv, OutboxFills
<1>7. \A p \in Len(journal)+1+1..Len(c) :
        ~About(c[p], o, {"filled"}) /\ ~About(c[p], o, StatusEvents)
  BY <1>1, <1>6 DEF About
<1>8. LogFits(c, orders')
  <2>1. LogFits(TheLog, orders)
    BY DEF UpInv, LogSound
  <2>2. /\ e.order \notin DOMAIN orders /\ e.order \in DOMAIN orders'
        /\ orders'[e.order].ticket = e.ticket
        /\ \A x \in DOMAIN orders : x \in DOMAIN orders' /\ orders'[x] = orders[x]
        /\ \A p \in Len(journal)+1+1..Len(c) : ~About(c[p], e.order, {"filled"})
    BY <1>1, <1>4, <1>7
  <2> QED
    BY ONLY <1>4, <1>5, <2>1, <2>2, FitsPlaced
<1>9. FormTold(c, Len(c), o, orders'[o]) /\ FilledTold(c, Len(c), o, orders'[o])
  BY <1>2, <1>4, <1>5, <1>7, OrderToldPlaced
<1>10. ASSUME ~holes, NEW x \in DOMAIN orders PROVE OrderTold(c, x, orders'[x])
  <2>1. ~About(e, x, StatusEvents)
    BY <1>1, <1>4 DEF About
  <2>2. OrderTold(TheLog, x, orders[x])
    BY <1>10 DEF UpInv, LogSound, LogTells
  <2> QED
    BY <1>1, <1>5, <2>1, <2>2, OrderToldKept
<1>11. FilledHasAll(orders')
  BY <1>1 DEF UpInv, FilledHasAll
<1> QED
  BY <1>1, <1>3, <1>4, <1>5, <1>8, <1>9, <1>10, <1>11

\* Then its status.
LEMMA EnterStatusSound ==
  ASSUME NEW c \in Seq(LogEvents), NEW ords, NEW new, NEW o \in OrderIds, NEW status \in Statuses,
         DOMAIN new = DOMAIN ords \cup {o}, LogFits(c, new), status # "FILLED",
         FormTold(c, Len(c), o, new[o]), FilledTold(c, Len(c), o, new[o]), o \notin DOMAIN ords,
         NEW torn, ~torn => \A x \in DOMAIN ords : OrderTold(c, x, new[x]),
         NEW d, d = c \o <<OrderIs(o, status)>>
  PROVE  /\ OrderIs(o, status) \in LogEvents
         /\ d \in Seq(LogEvents) /\ LogFits(d, new)
         /\ FormTold(d, Len(d), o, new[o]) /\ FilledTold(d, Len(d), o, new[o])
         /\ ~torn => \A x \in DOMAIN ords : OrderTold(d, x, new[x])
         /\ new[o].status = status => LogSound(d, new, torn)
<1>1. PICK e : e = OrderIs(o, status)
  OBVIOUS
<1>2. e \in LogEvents /\ e.kind = "status" /\ e.order = o /\ e.status = status
  BY <1>1 DEF OrderIs, LogEvents
<1>3. d \in Seq(LogEvents) /\ Inserted(d, c, Len(c) + 1, e)
  BY <1>1, <1>2, PutLast
<1>4. LogFits(d, new)
  BY <1>2, <1>3, FitsQuiet
<1>5. ~About(e, o, FormEvents) /\ ~About(e, o, FillEvents)
  BY <1>2 DEF About, FormEvents, FillEvents
<1>6. FormTold(d, Len(d), o, new[o]) /\ FilledTold(d, Len(d), o, new[o])
  BY <1>3, <1>5, LastKept, ZenonT(40) DEF FormTold, FilledTold
<1>7. ASSUME ~torn, NEW x \in DOMAIN ords PROVE OrderTold(d, x, new[x])
  <2>1. ~About(e, x, StatusEvents) /\ OrderTold(c, x, new[x])
    BY <1>2, <1>7 DEF About
  <2> QED
    BY <1>3, <2>1, OrderToldKept
<1>8. ASSUME new[o].status = status PROVE OrderTold(d, o, new[o])
  BY <1>2, <1>3, <1>8, OrderToldStatus
<1>9. new[o].status = status => LogSound(d, new, torn)
  BY <1>4, <1>7, <1>8 DEF LogSound, LogTells
<1> QED
  BY <1>1, <1>2, <1>3, <1>4, <1>6, <1>7, <1>9

-----------------------------------------------------------------------------
(* The handlers keep the invariant *)

LEMMA UpTypes ==
  ASSUME RecTypeOK, TradingOK', NEW pre \in Seq(LogEvents), NEW post \in Seq(LogEvents),
         Pushed(pre, post), UNCHANGED <<phase, replayed, histVars>>
  PROVE  RecTypeOK' /\ holes' = holes
<1>1. LogTypeOK' /\ outbox' \in Seq(LogEvents)
  BY LogGrows DEF RecTypeOK
<1>2. RestTypeOK'
  BY DEF RecTypeOK, RestTypeOK, histVars
<1> QED
  BY <1>1, <1>2 DEF RecTypeOK, histVars

\* POST /orders.
LEMMA PlaceRejectedUp ==
  ASSUME RecTypeOK, UpInv, NEW o \in OrderIds, NEW a \in Accounts, NEW t \in Tickets,
         PlaceRejected(o, a, t), DrainWith(<<Placed(o)>>, <<OrderIs(o, "REJECTED")>>)
  PROVE  RecTypeOK' /\ UpInv'
<1>1. PICK pre, post : pre = <<Placed(o)>> /\ post = <<OrderIs(o, "REJECTED")>>
  OBVIOUS
<1>2. PICK c : c = (journal \o <<Placed(o)>>) \o outbox
  OBVIOUS
<1>3. Enter(o, a, t, "REJECTED") /\ o \in OrderIds \ DOMAIN orders
  BY DEF PlaceRejected, RejectOrder, Enter
<1>4. /\ Placed(o) \in LogEvents /\ c \in Seq(LogEvents)
      /\ DOMAIN orders' = DOMAIN orders \cup {o}
      /\ LogFits(c, orders') /\ FilledHasAll(orders')
      /\ FormTold(c, Len(c), o, orders'[o]) /\ FilledTold(c, Len(c), o, orders'[o])
      /\ orders'[o].status = "REJECTED"
      /\ ~holes => \A x \in DOMAIN orders : OrderTold(c, x, orders'[x])
  BY <1>2, <1>3, EnterSound DEF Statuses
<1>5. /\ OrderIs(o, "REJECTED") \in LogEvents
      /\ LogSound(c \o <<OrderIs(o, "REJECTED")>>, orders', holes)
  <2>1. PICK ords, new : ords = orders /\ new = orders'
    OBVIOUS
  <2> PICK d : d = c \o <<OrderIs(o, "REJECTED")>>
    OBVIOUS
  <2>2. /\ DOMAIN new = DOMAIN ords \cup {o} /\ LogFits(c, new)
        /\ FormTold(c, Len(c), o, new[o]) /\ FilledTold(c, Len(c), o, new[o])
        /\ new[o].status = "REJECTED" /\ o \notin DOMAIN ords
        /\ ~holes => \A x \in DOMAIN ords : OrderTold(c, x, new[x])
    BY <1>3, <1>4, <2>1
  <2>3. c \in Seq(LogEvents) /\ "REJECTED" \in Statuses
    BY <1>4 DEF Statuses
  <2>4. OrderIs(o, "REJECTED") \in LogEvents /\ LogSound(d, new, holes)
    BY ONLY o \in OrderIds, d = c \o <<OrderIs(o, "REJECTED")>>, <2>2, <2>3, EnterStatusSound, ZenonT(40)
  <2> QED
    BY <2>1, <2>4
<1>6. pre \in Seq(LogEvents) /\ post \in Seq(LogEvents)
  BY <1>1, <1>4, <1>5
<1>7. Pushed(pre, post) /\ outbox' = <<>> /\ UNCHANGED <<phase, replayed, histVars>>
  BY <1>1 DEF DrainWith, Push, Pushed
<1>8. TheLog' = c \o <<OrderIs(o, "REJECTED")>>
  BY <1>1, <1>2, <1>6, <1>7, LogGrows DEF RecTypeOK
<1>9. RecTypeOK' /\ holes' = holes
  BY <1>6, <1>7, PlaceRejectedOK, UpTypes DEF RecTypeOK
<1>10. OutboxFills'
  BY <1>7, EmptySeq DEF OutboxFills
<1>11. ScanLeft'
  BY DEF PlaceRejected, Idle, ScanLeft, appVars
<1> QED
  BY <1>4, <1>5, <1>8, <1>9, <1>10, <1>11 DEF UpInv

LEMMA PlaceAcceptedUp ==
  ASSUME RecTypeOK, UpInv, NEW o \in OrderIds, NEW a \in Accounts, NEW t \in Tickets,
         PlaceAccepted(o, a, t),
         DrainWith(<<Placed(o)>>, <<OrderIs(o, "ACCEPTED"), OrderIs(o, "ROUTED")>>)
  PROVE  RecTypeOK' /\ UpInv'
<1>1. PICK pre, post : /\ pre = <<Placed(o)>>
                       /\ post = <<OrderIs(o, "ACCEPTED"), OrderIs(o, "ROUTED")>>
  OBVIOUS
<1>2. PICK c, d : /\ c = (journal \o <<Placed(o)>>) \o outbox
                  /\ d = c \o <<OrderIs(o, "ACCEPTED")>>
  OBVIOUS
<1>3. Enter(o, a, t, "ROUTED") /\ o \in OrderIds \ DOMAIN orders
  BY DEF PlaceAccepted, AcceptAndRoute, Enter
<1>4. /\ Placed(o) \in LogEvents /\ c \in Seq(LogEvents)
      /\ DOMAIN orders' = DOMAIN orders \cup {o}
      /\ LogFits(c, orders') /\ FilledHasAll(orders')
      /\ FormTold(c, Len(c), o, orders'[o]) /\ FilledTold(c, Len(c), o, orders'[o])
      /\ orders'[o].status = "ROUTED"
      /\ ~holes => \A x \in DOMAIN orders : OrderTold(c, x, orders'[x])
  BY <1>2, <1>3, EnterSound DEF Statuses
<1>5. PICK f : f = d \o <<OrderIs(o, "ROUTED")>>
  OBVIOUS
<1>6. /\ OrderIs(o, "ACCEPTED") \in LogEvents /\ OrderIs(o, "ROUTED") \in LogEvents
      /\ d \in Seq(LogEvents) /\ LogSound(f, orders', holes)
  <2>1. PICK ords, new : ords = orders /\ new = orders'
    OBVIOUS
  <2>2. /\ DOMAIN new = DOMAIN ords \cup {o} /\ LogFits(c, new) /\ c \in Seq(LogEvents)
        /\ FormTold(c, Len(c), o, new[o]) /\ FilledTold(c, Len(c), o, new[o])
        /\ new[o].status = "ROUTED" /\ o \notin DOMAIN ords
        /\ ~holes => \A x \in DOMAIN ords : OrderTold(c, x, new[x])
    BY <1>3, <1>4, <2>1
  <2>3. "ACCEPTED" \in Statuses /\ "ROUTED" \in Statuses
    BY DEF Statuses
  <2>4. /\ OrderIs(o, "ACCEPTED") \in LogEvents
        /\ d \in Seq(LogEvents) /\ LogFits(d, new)
        /\ FormTold(d, Len(d), o, new[o]) /\ FilledTold(d, Len(d), o, new[o])
        /\ ~holes => \A x \in DOMAIN ords : OrderTold(d, x, new[x])
    BY ONLY o \in OrderIds, <1>2, <2>2, <2>3, EnterStatusSound, ZenonT(40)
  <2>5. /\ DOMAIN new = DOMAIN ords \cup {o} /\ new[o].status = "ROUTED"
        /\ o \notin DOMAIN ords
    BY ONLY <2>2
  <2>6. OrderIs(o, "ROUTED") \in LogEvents /\ LogSound(f, new, holes)
    BY ONLY o \in OrderIds, <1>5, <2>3, <2>4, <2>5, EnterStatusSound, ZenonT(40)
  <2> QED
    BY <2>1, <2>4, <2>6
<1>7. pre \in Seq(LogEvents) /\ post \in Seq(LogEvents)
  BY <1>1, <1>4, <1>6
<1>8. Pushed(pre, post) /\ outbox' = <<>> /\ UNCHANGED <<phase, replayed, histVars>>
  BY <1>1 DEF DrainWith, Push, Pushed
<1>9. TheLog' = c \o post
  BY <1>1, <1>2, <1>7, <1>8, LogGrows DEF RecTypeOK
<1>10. TheLog' = f
  <2>1. PICK x, y : x = OrderIs(o, "ACCEPTED") /\ y = OrderIs(o, "ROUTED")
    OBVIOUS
  <2>2. c \in Seq(LogEvents) /\ x \in LogEvents /\ y \in LogEvents
    BY <1>4, <1>6, <2>1
  <2>3. c \o <<x, y>> = (c \o <<x>>) \o <<y>>
    BY ONLY <2>2, Pairs
  <2> QED
    BY <1>1, <1>2, <1>5, <1>9, <2>1, <2>3
<1>11. RecTypeOK' /\ holes' = holes
  BY <1>7, <1>8, PlaceAcceptedOK, UpTypes DEF RecTypeOK
<1>12. OutboxFills'
  BY <1>8, EmptySeq DEF OutboxFills
<1>13. ScanLeft'
  <2>1. Idle /\ Remaining(orders'[o]) = t.qty - 0 /\ t.qty \in Nat \ {0}
    BY <1>3, EnterEffect, OMSAssumption DEF PlaceAccepted, TicketType
  <2>2. CASE engineMode = "B"
    BY <2>1, <2>2 DEF PlaceAccepted, Idle, ScanLeft
  <2>3. CASE engineMode # "B"
    BY <2>1, <2>3 DEF PlaceAccepted, Idle, ScanLeft, meVars, MEIdle
  <2> QED
    BY <2>2, <2>3
<1> QED
  BY <1>4, <1>6, <1>10, <1>11, <1>12, <1>13 DEF UpInv

\* A handler that pushes nothing and leaves the orders alone.
LEMMA SilentUp ==
  ASSUME RecTypeOK, UpInv, TradingOK', Silently, orders' = orders, ScanLeft'
  PROVE  RecTypeOK' /\ UpInv'
<1>1. /\ UNCHANGED <<journal, durable, outbox, phase, replayed, histVars>>
      /\ UNCHANGED <<lives, holes>>
  BY DEF Silently, recVars, histVars
<1>2. RecTypeOK'
  BY <1>1 DEF RecTypeOK, LogTypeOK, RestTypeOK
<1>3. TheLog' = TheLog
  BY <1>1 DEF TheLog
<1> QED
  BY <1>1, <1>2, <1>3 DEF UpInv, OutboxFills

\* One that pushes an event that is not about an order.
LEMMA QuietUp ==
  ASSUME RecTypeOK, UpInv, TradingOK', NEW e \in LogEvents, PushOnly(<<e>>),
         e.kind \notin {"placed", "filled", "status"}, orders' = orders, ScanLeft'
  PROVE  RecTypeOK' /\ UpInv'
<1>1. /\ journal' = journal \o <<e>>
      /\ UNCHANGED <<durable, outbox, phase, replayed, lives, holes>>
      /\ journal \in Seq(LogEvents) /\ outbox \in Seq(LogEvents)
  BY DEF PushOnly, Push, histVars, RecTypeOK, LogTypeOK
<1>2. PICK c, d : c = journal \o outbox /\ d = (journal \o <<e>>) \o outbox
  OBVIOUS
<1>3. Inserted(d, c, Len(journal) + 1, e)
  BY <1>1, <1>2, PutBehind
<1>4. LogSound(c, orders, holes)
  BY <1>2 DEF UpInv, TheLog
<1>5. LogSound(d, orders, holes)
  BY <1>3, <1>4, SoundQuiet
<1>6. LogTypeOK'
  <2>1. PICK j : j = Append(journal, e)
    OBVIOUS
  <2>2. journal' = j /\ j \in Seq(LogEvents) /\ Len(j) = Len(journal) + 1 /\ Len(journal) \in Nat
    BY <1>1, <2>1, Pairs, AppendProperties, LenProperties
  <2> QED
    BY <1>1, <2>2 DEF RecTypeOK, LogTypeOK
<1>7. RecTypeOK'
  BY <1>1, <1>6 DEF RecTypeOK, RestTypeOK
<1>8. LogSound(TheLog, orders, holes)'
  BY <1>1, <1>2, <1>5 DEF TheLog
<1> QED
  BY <1>1, <1>7, <1>8 DEF UpInv, OutboxFills

\* POST /account/deposit and /withdraw.
LEMMA MoveCashUp ==
  ASSUME RecTypeOK, UpInv, NEW a \in Accounts, NEW amount \in Amounts, MoveCash(a, amount)
  PROVE  RecTypeOK' /\ UpInv'
<1>1. amount \in Int /\ -amount \in Int
  BY TradingAssumption
<1>2. /\ Deposit(a, amount) \/ Withdraw(a, amount)
      /\ PushOnly(<<CashDelta(a, amount)>>) \/ PushOnly(<<CashDelta(a, -amount)>>)
  BY DEF MoveCash
<1>3. TradingOK'
  BY <1>2, DepositOK DEF RecTypeOK
<1>4. orders' = orders /\ ScanLeft'
  BY <1>2 DEF Deposit, Withdraw, Idle, UpInv, ScanLeft, meVars, omsVars, appVars, MEIdle
<1>5. ASSUME NEW x \in Int PROVE CashDelta(a, x) \in LogEvents /\ CashDelta(a, x).kind = "cash"
  BY DEF CashDelta, LogEvents
<1> QED
  BY <1>1, <1>2, <1>3, <1>4, <1>5, QuietUp

\* DELETE /admin/users/{id}.
LEMMA DeleteUserUp ==
  ASSUME RecTypeOK, UpInv, NEW a \in Deletable, DeleteUser(a), PushOnly(<<Deleted(a)>>)
  PROVE  RecTypeOK' /\ UpInv'
<1>1. TradingOK'
  BY DeleteUserOK DEF RecTypeOK
<1>2. orders' = orders /\ ScanLeft'
  BY DEF DeleteUser, Idle, UpInv, ScanLeft, meVars, omsVars, MEIdle
<1>3. Deleted(a) \in LogEvents /\ Deleted(a).kind = "deleted"
  BY TradingAssumption DEF Deleted, LogEvents
<1> QED
  BY <1>1, <1>2, <1>3, QuietUp

\* The handlers and the loop steps without an event.
LEMMA SilentHandlersUp ==
  ASSUME RecTypeOK, UpInv, Silently,
         \/ \E mode \in EngineModes : SetEngineMode(mode)
         \/ \E s \in Symbols, quote \in Quotes : MarketData(s, quote)
         \/ MatchStep \/ EndMatchStep
  PROVE  RecTypeOK' /\ UpInv'
<1>1. TradingOK'
  BY SetEngineModeOK, MarketDataOK, LoopOK DEF RecTypeOK
<1>2. orders' = orders
  BY DEF SetEngineMode, MarketData, MatchStep, EndMatchStep, omsVars
<1>3. ScanLeft'
  <2>1. ASSUME NEW mode \in EngineModes, SetEngineMode(mode) PROVE ScanLeft'
    BY <2>1 DEF SetEngineMode, Idle, UpInv, ScanLeft, meVars, omsVars, MEIdle
  <2>2. ASSUME NEW s \in Symbols, NEW quote \in Quotes, MarketData(s, quote) PROVE ScanLeft'
    BY <2>2 DEF MarketData, Idle, ScanLeft, meVars, omsVars, MEIdle
  <2>3. CASE MatchStep \/ EndMatchStep
    BY <2>3, <1>2 DEF MatchStep, EndMatchStep, Match, EndMatch, UpInv, ScanLeft, MEIdle, appVars
  <2> QED
    BY <2>1, <2>2, <2>3
<1> QED
  BY <1>1, <1>2, <1>3, SilentUp

\* A PENDING order's cancellation.
LEMMA CancelRaisesUp ==
  ASSUME RecTypeOK, UpInv, NEW o \in OrderIds, CancelRaises(o)
  PROVE  RecTypeOK' /\ UpInv'
<1>1. /\ Idle /\ UnlockFunds(o) /\ UNCHANGED <<meVars, omsVars, appVars>> /\ Silently
  BY DEF CancelRaises
<1>2. AccountTypeOK'
  BY <1>1, UnlockFundsType DEF RecTypeOK, TradingOK
<1>3. TradingOK'
  BY <1>1, <1>2, OtherHandlersOK DEF RecTypeOK, TradingOK, AppTypeOK, ScanQuoted, appVars, omsVars
<1>4. orders' = orders /\ ScanLeft'
  BY <1>1 DEF Idle, UpInv, ScanLeft, meVars, omsVars, appVars, MEIdle
<1> QED
  BY <1>1, <1>3, <1>4, SilentUp

\* DELETE /orders/{id}: what the log tells of an order whose fill was refused,
\* its form, it still tells.
LEMMA CancelUp ==
  ASSUME RecTypeOK, UpInv, NEW o \in OrderIds, Cancel(o),
         DrainWith(<<>>, <<OrderIs(o, "CANCELED")>>)
  PROVE  RecTypeOK' /\ UpInv'
<1>1. PICK e : e = OrderIs(o, "CANCELED")
  OBVIOUS
<1>2. e \in LogEvents /\ e.kind = "status" /\ e.order = o /\ e.status = "CANCELED"
  BY <1>1 DEF OrderIs, LogEvents, Statuses
<1>3. /\ o \in DOMAIN orders /\ Idle /\ CancelOrder(o) /\ OMSTypeOK
      /\ orders[o].status \in {"ACCEPTED", "ROUTED", "PARTIALLY_FILLED"}
      /\ orders[o] \in Orders
  <2>1. o \in DOMAIN orders /\ Idle /\ CancelOrder(o) /\ OMSTypeOK
    BY DEF Cancel, RecTypeOK, TradingOK
  <2>2. orders[o] \in Orders
    BY <2>1 DEF OMSTypeOK
  <2>3. PICK st \in Statuses : st = orders[o].status
    BY <2>2 DEF Orders
  <2>4. "CANCELED" \in Transitions[st]
    BY <2>1, <2>3 DEF CancelOrder, CanTransition
  <2>5. st \in {"ACCEPTED", "ROUTED", "PARTIALLY_FILLED"}
    BY <2>4 DEF Statuses, Transitions
  <2> QED
    BY <2>1, <2>2, <2>3, <2>5
<1>4. /\ DOMAIN orders' = DOMAIN orders
      /\ \A x \in DOMAIN orders \ {o} : orders'[x] = orders[x]
      /\ orders'[o].status = "CANCELED" /\ orders'[o].ticket = orders[o].ticket
      /\ Remaining(orders'[o]) = Remaining(orders[o])
      /\ KeptIn(orders, orders')
  BY <1>3, CancelOrderEffect
<1>5. /\ orders'[o].filled = orders[o].filled /\ orders'[o].account = orders[o].account
      /\ orders'[o].created = orders[o].created
  BY <1>3 DEF CancelOrder, Orders
<1>6. GoOn(orders, orders')
  <2>1. \A x \in DOMAIN orders : orders[x].filled \in Nat
    BY DEF RecTypeOK, TradingOK, OMSTypeOK, Orders
  <2> QED
    BY <1>4, <1>5, <2>1 DEF GoOn
<1>7. PICK pre, post : pre = <<>> /\ post = <<e>>
  OBVIOUS
<1>8. /\ pre \in Seq(LogEvents) /\ post \in Seq(LogEvents)
      /\ journal \in Seq(LogEvents) /\ outbox \in Seq(LogEvents)
  BY <1>2, <1>7, EmptySeq DEF RecTypeOK, LogTypeOK
<1>9. Pushed(pre, post) /\ outbox' = <<>> /\ UNCHANGED <<phase, replayed, histVars>>
  BY <1>1, <1>7 DEF DrainWith, Push, Pushed
<1>10. PICK c, d : c = TheLog /\ d = c \o <<e>>
  OBVIOUS
<1>11. TheLog' = d
  <2>1. journal \o pre = journal
    BY <1>7, <1>8, ConcatEmptySeq
  <2>2. TheLog' = ((journal \o pre) \o outbox) \o post
    BY <1>8, <1>9, LogGrows DEF RecTypeOK
  <2> QED
    BY <1>7, <1>10, <2>1, <2>2 DEF TheLog
<1>12. c \in Seq(LogEvents) /\ d \in Seq(LogEvents) /\ Inserted(d, c, Len(c) + 1, e)
  BY <1>2, <1>8, <1>10, ConcatProperties, PutLast DEF TheLog
<1>13. PICK new : new = orders'
  OBVIOUS
<1>14. LogFits(d, new)
  <2>1. LogFits(c, orders)
    BY <1>10 DEF UpInv, LogSound
  <2>2. LogFits(d, orders)
    BY ONLY <1>2, <1>12, <2>1, FitsQuiet
  <2> QED
    BY <1>6, <1>12, <1>13, <2>2, FitsGoOn
<1>15. ASSUME ~holes PROVE LogTells(d, new)
  <2>1. \A x \in DOMAIN orders : OrderTold(c, x, orders[x])
    BY <1>10, <1>15 DEF UpInv, LogSound, LogTells
  <2>2. ASSUME NEW x \in DOMAIN orders, x # o PROVE OrderTold(d, x, new[x])
    <3>1. ~About(e, x, StatusEvents)
      BY <1>2, <2>2 DEF About
    <3> QED
      BY <1>4, <1>12, <1>13, <2>1, <2>2, <3>1, OrderToldKept
  <2>3. CASE Refused(orders[o])
    <3>1. Refused(new[o])
      BY <1>4, <1>13, <2>3 DEF Refused
    <3>2. ~About(e, o, FormEvents)
      BY <1>2 DEF About, FormEvents
    <3>3. FormTold(c, Len(c), o, orders[o])
      BY <1>3, <2>1 DEF OrderTold
    <3>4. FormTold(d, Len(d), o, new[o])
      BY <1>4, <1>5, <1>12, <1>13, <3>2, <3>3, LastKept DEF FormTold
    <3>5. OrderTold(d, o, new[o])
      BY <3>1, <3>4 DEF OrderTold
    <3> QED
      BY <1>4, <1>13, <2>2, <3>5 DEF LogTells
  <2>4. CASE ~Refused(orders[o])
    <3>1. PICK ord : ord = orders[o]
      OBVIOUS
    <3>2. FormTold(c, Len(c), o, ord) /\ FilledTold(c, Len(c), o, ord)
      BY <1>3, <2>1, <2>4, <3>1 DEF OrderTold
    <3>3. /\ new[o].status = e.status /\ new[o].account = ord.account
          /\ new[o].ticket = ord.ticket /\ new[o].created = ord.created
          /\ new[o].filled = ord.filled
      BY <1>2, <1>4, <1>5, <1>13, <3>1
    <3>4. OrderTold(d, o, new[o])
      BY ONLY <1>2, <1>12, <3>2, <3>3, OrderToldStatus
    <3> QED
      BY <1>4, <1>13, <2>2, <3>4 DEF LogTells
  <2> QED
    BY <2>3, <2>4
<1>16. FilledHasAll(orders')
  BY <1>4 DEF UpInv, FilledHasAll
<1>17. RecTypeOK' /\ holes' = holes
  BY <1>8, <1>9, CancelOK, UpTypes DEF RecTypeOK
<1>18. OutboxFills'
  BY <1>9, EmptySeq DEF OutboxFills
<1>19. ScanLeft'
  BY <1>3 DEF Cancel, CancelInBook, Idle, ScanLeft, appVars, MEIdle
<1> QED
  BY <1>11, <1>13, <1>14, <1>15, <1>16, <1>17, <1>18, <1>19 DEF UpInv, LogSound

-----------------------------------------------------------------------------
(* Trades and fills *)

\* The log tells every order's form and, but for those of P, the rest.
ToldBut(log, ords, P) ==
  \A o \in DOMAIN ords :
    /\ FormTold(log, Len(log), o, ords[o])
    /\ o \notin P => OrderTold(log, o, ords[o])

\* Orders are filled, and the log has not been told.
LEMMA FilledInMemory ==
  ASSUME NEW c \in Seq(LogEvents), NEW ords, NEW new, NEW torn, NEW P,
         LogSound(c, ords, torn), Filling(ords, new),
         \A x \in DOMAIN ords \ P : new[x] = ords[x]
  PROVE  /\ LogFits(c, new)
         /\ ~torn => ToldBut(c, new, P)
<1>1. LogFits(c, new)
  BY FitsGoOn DEF LogSound, Filling
<1>2. ASSUME ~torn, NEW x \in DOMAIN new
      PROVE  /\ FormTold(c, Len(c), x, new[x])
             /\ x \notin P => OrderTold(c, x, new[x])
  <2>1. x \in DOMAIN ords /\ OrderTold(c, x, ords[x])
    BY <1>2 DEF LogSound, LogTells, Filling
  <2>2. /\ new[x].account = ords[x].account /\ new[x].ticket = ords[x].ticket
        /\ new[x].created = ords[x].created
    BY <2>1 DEF Filling, KeptIn
  <2>3. FormTold(c, Len(c), x, new[x])
    BY <2>1, <2>2 DEF OrderTold, FormTold
  <2>4. x \notin P => new[x] = ords[x]
    BY <2>1
  <2> QED
    BY <2>1, <2>3, <2>4
<1> QED
  BY <1>1, <1>2 DEF ToldBut

\* Its OrderFilled makes up for an order.
LEMMA FillTold ==
  ASSUME NEW c \in Seq(LogEvents), NEW new, NEW torn, NEW P, NEW Q, NEW o \in DOMAIN new,
         new[o] \in Orders, FilledHasAll(new), NEW e \in LogEvents, e.kind = "filled",
         e.order = o, e.status = new[o].status, e.filled = new[o].filled,
         LogFits(c, new), ~torn => ToldBut(c, new, P), Q = P \ {o},
         NEW d, d = c \o <<e>>
  PROVE  /\ d \in Seq(LogEvents) /\ LogFits(d, new)
         /\ ~torn => ToldBut(d, new, Q)
<1>1. d \in Seq(LogEvents) /\ Inserted(d, c, Len(c) + 1, e)
  BY PutLast
<1>2. LogFits(d, new)
  <2>1. e.filled \in Int /\ (e.status = "FILLED" => e.filled >= new[o].ticket.qty)
    BY DEF Orders, TicketType, FilledHasAll, Remaining
  <2> QED
    BY <1>1, <2>1, FitsFilled
<1>3. ASSUME ~torn, NEW x \in DOMAIN new
      PROVE  /\ FormTold(d, Len(d), x, new[x])
             /\ x \notin Q => OrderTold(d, x, new[x])
  <2>1. FormTold(c, Len(c), x, new[x]) /\ (x \notin P => OrderTold(c, x, new[x]))
    BY <1>3 DEF ToldBut
  <2>2. ~About(e, x, FormEvents)
    BY DEF About, FormEvents
  <2>3. FormTold(d, Len(d), x, new[x])
    BY <1>1, <2>1, <2>2, LastKept DEF FormTold
  <2>4. ASSUME x # o, x \notin P PROVE OrderTold(d, x, new[x])
    <3>1. ~About(e, x, StatusEvents)
      BY <2>4 DEF About
    <3> QED
      BY <1>1, <2>1, <2>4, <3>1, OrderToldKept
  <2>5. ASSUME x = o PROVE OrderTold(d, x, new[x])
    BY <1>1, <2>1, <2>5, OrderToldFilled
  <2> QED
    BY <2>3, <2>4, <2>5
<1> QED
  BY <1>1, <1>2, <1>3 DEF ToldBut

LEMMA ToldAll ==
  ASSUME NEW c, NEW ords, NEW torn, LogFits(c, ords), ~torn => ToldBut(c, ords, {})
  PROVE  LogSound(c, ords, torn)
BY DEF LogSound, LogTells, ToldBut

\* What is pushed before the outbox says nothing of an order.
LEMMA QuietBefore ==
  ASSUME LogTypeOK, outbox \in Seq(LogEvents), UpInv, NEW e \in LogEvents,
         e.kind \notin {"placed", "filled", "status"}, NEW f \in LogEvents,
         f.kind \notin {"placed", "filled", "status"}
  PROVE  /\ LogSound((journal \o <<e>>) \o outbox, orders, holes)
         /\ LogSound((journal \o <<e, f>>) \o outbox, orders, holes)
         /\ (journal \o <<e>>) \o outbox \in Seq(LogEvents)
         /\ (journal \o <<e, f>>) \o outbox \in Seq(LogEvents)
<1>1. PICK j0, j1, j2, c0, c1, c2 :
        /\ j0 = journal /\ j1 = j0 \o <<e>> /\ j2 = j1 \o <<f>>
        /\ c0 = j0 \o outbox /\ c1 = j1 \o outbox /\ c2 = j2 \o outbox
  OBVIOUS
<1>2. j0 \in Seq(LogEvents) /\ LogSound(c0, orders, holes)
  BY <1>1 DEF LogTypeOK, UpInv, TheLog
<1>3. c1 \in Seq(LogEvents) /\ j1 \in Seq(LogEvents) /\ Inserted(c1, c0, Len(j0) + 1, e)
  BY <1>1, <1>2, PutBehind
<1>4. c2 \in Seq(LogEvents) /\ Inserted(c2, c1, Len(j1) + 1, f)
  BY <1>1, <1>3, PutBehind
<1>5. LogSound(c1, orders, holes)
  BY ONLY <1>2, <1>3, e.kind \notin {"placed", "filled", "status"}, SoundQuiet
<1>6. LogSound(c2, orders, holes)
  BY ONLY <1>4, <1>5, f.kind \notin {"placed", "filled", "status"}, SoundQuiet
<1>7. j2 = journal \o <<e, f>>
  <2>1. j0 \o <<e, f>> = (j0 \o <<e>>) \o <<f>>
    BY ONLY <1>2, e \in LogEvents, f \in LogEvents, Pairs
  <2> QED
    BY <1>1, <2>1
<1> QED
  BY <1>1, <1>3, <1>4, <1>5, <1>6, <1>7

LEMMA FilledIsEvent ==
  ASSUME OMSTypeOK', NEW o \in DOMAIN orders'
  PROVE  /\ Filled(o) \in LogEvents /\ Filled(o).kind = "filled" /\ Filled(o).order = o
         /\ Filled(o).status = orders'[o].status /\ Filled(o).filled = orders'[o].filled
         /\ orders'[o] \in Orders
<1>1. orders'[o] \in Orders /\ o \in OrderIds
  BY DEF OMSTypeOK
<1> QED
  BY <1>1 DEF Filled, LogEvents, Orders

LEMMA TradeIsEvent ==
  ASSUME NEW b \in OrderIds, NEW s \in OrderIds, NEW q \in Nat
  PROVE  /\ TradeExecuted(b, s, q) \in LogEvents
         /\ TradeExecuted(b, s, q).kind \notin {"placed", "filled", "status"}
BY DEF TradeExecuted, LogEvents

LEMMA SettlementIsEvent ==
  ASSUME OMSTypeOK, NEW t, t.buy \in DOMAIN orders, t.sell \in DOMAIN orders,
         t.price \in Nat, t.qty \in Nat, t.symbol \in Symbols
  PROVE  /\ Settlement(t) \in LogEvents
         /\ Settlement(t).kind \notin {"placed", "filled", "status"}
<1>1. /\ orders[t.buy].account \in Accounts /\ orders[t.sell].account \in Accounts
      /\ t.buy \in OrderIds /\ t.sell \in OrderIds
  BY DEF OMSTypeOK, Orders
<1> QED
  BY <1>1 DEF Settlement, LogEvents

LEMMA OutboxStaysFills ==
  ASSUME UpInv, NEW post, DOMAIN orders' = DOMAIN orders,
         \A j \in 1..Len(post) : post[j].kind = "filled" /\ post[j].order \in DOMAIN orders,
         \A i \in 1..Len(outbox') :
           \/ \E j \in 1..Len(outbox) : outbox'[i] = outbox[j]
           \/ \E j \in 1..Len(post) : outbox'[i] = post[j]
  PROVE  OutboxFills'
BY DEF UpInv, OutboxFills

\* One iteration of `for trade in trades`.
LEMMA SettleUp ==
  ASSUME RecTypeOK, UpInv, SettleLogged
  PROVE  RecTypeOK' /\ UpInv'
<1>1. PICK t, b, s, q : t = Head(trades) /\ b = t.buy /\ s = t.sell /\ q = t.qty
  OBVIOUS
<1>2. /\ Settle /\ TradingOK /\ OMSTypeOK /\ trades # <<>> /\ toFill' = toFill
  BY DEF SettleLogged, RecTypeOK, TradingOK, Settle, NextTrade, appVars
<1>3. /\ b \in DOMAIN orders /\ s \in DOMAIN orders /\ q \in Nat
      /\ t.price \in Nat /\ t.symbol \in Symbols
  BY <1>1, <1>2, TradeParties
<1>4. FillBoth(b, s, q)
  BY <1>1 DEF SettleLogged, Settle
<1>5. /\ Filling(orders, orders')
      /\ \A x \in DOMAIN orders \ {b, s} : orders'[x] = orders[x]
  BY <1>2, <1>3, <1>4, BothFilled DEF UpInv
<1>6. TradingOK' /\ OMSTypeOK' /\ DOMAIN orders' = DOMAIN orders
  BY <1>2, <1>5, SettleOK DEF TradingOK, Filling
<1>7. PICK x, y, f, g : /\ x = TradeExecuted(b, s, q) /\ y = Settlement(t)
                        /\ f = Filled(b) /\ g = Filled(s)
  OBVIOUS
<1>8. /\ x \in LogEvents /\ x.kind \notin {"placed", "filled", "status"}
      /\ y \in LogEvents /\ y.kind \notin {"placed", "filled", "status"}
  <2>1. b \in OrderIds /\ s \in OrderIds
    BY <1>2, <1>3 DEF OMSTypeOK
  <2>2. x \in LogEvents /\ x.kind \notin {"placed", "filled", "status"}
    BY <1>3, <1>7, <2>1, TradeIsEvent
  <2>3. y \in LogEvents /\ y.kind \notin {"placed", "filled", "status"}
    BY <1>1, <1>2, <1>3, <1>7, SettlementIsEvent
  <2> QED
    BY <2>2, <2>3
<1>9. PICK new : new = orders'
  OBVIOUS
<1>10. /\ f \in LogEvents /\ f.kind = "filled" /\ f.order = b
       /\ f.status = new[b].status /\ f.filled = new[b].filled /\ new[b] \in Orders
  BY <1>3, <1>6, <1>7, <1>9, FilledIsEvent
<1>11. /\ g \in LogEvents /\ g.kind = "filled" /\ g.order = s
      /\ g.status = new[s].status /\ g.filled = new[s].filled /\ new[s] \in Orders
  BY <1>3, <1>6, <1>7, <1>9, FilledIsEvent
<1>12. PICK pre, post : pre = <<x, y>> /\ post = <<f, g>>
  OBVIOUS
<1>13. pre \in Seq(LogEvents) /\ post \in Seq(LogEvents)
  BY <1>8, <1>10, <1>11, <1>12
<1>14. Pushed(pre, post) /\ UNCHANGED <<phase, replayed, histVars>>
  <2>1. \/ DrainWith(pre, post)
        \/ Push(pre) /\ outbox' = outbox \o post /\ UNCHANGED <<phase, replayed, histVars>>
    BY <1>1, <1>7, <1>12 DEF SettleLogged
  <2> QED
    BY <2>1 DEF DrainWith, Push, Pushed
<1>15. PICK c : c = (journal \o <<x, y>>) \o outbox
  OBVIOUS
<1>16. PICK d : d = c \o <<f>>
  OBVIOUS
<1>17. PICK e : e = d \o <<g>>
  OBVIOUS
<1>18. c \in Seq(LogEvents) /\ LogSound(c, orders, holes)
  BY <1>8, <1>15, QuietBefore DEF RecTypeOK
<1>19. TheLog' = e
  <2>1. TheLog' = c \o post
    BY <1>12, <1>13, <1>14, <1>15, LogGrows DEF RecTypeOK
  <2>2. c \o <<f, g>> = (c \o <<f>>) \o <<g>>
    BY ONLY <1>10, <1>11, <1>18, Pairs
  <2> QED
    BY <1>12, <1>15, <1>16, <1>17, <2>1, <2>2
<1>20. LogSound(e, new, holes)
  <2>1. PICK P, Q, R : P = {b, s} /\ Q = {s} \ {b} /\ R = {}
    OBVIOUS
  <2>2. Q = P \ {b} /\ R = Q \ {s}
    BY <2>1
  <2>3. PICK ords : ords = orders
    OBVIOUS
  <2>4. /\ LogSound(c, ords, holes) /\ Filling(ords, new)
        /\ \A z \in DOMAIN ords \ P : new[z] = ords[z]
    BY <1>5, <1>9, <1>18, <2>1, <2>3
  <2>5. /\ LogFits(c, new)
        /\ ~holes => ToldBut(c, new, P)
    BY ONLY <1>18, <2>4, FilledInMemory
  <2>6. b \in DOMAIN new /\ s \in DOMAIN new /\ FilledHasAll(new)
    BY <1>3, <1>5, <1>6, <1>9 DEF Filling
  <2>7. /\ d \in Seq(LogEvents) /\ LogFits(d, new)
        /\ ~holes => ToldBut(d, new, Q)
    BY ONLY <1>10, <1>16, <1>18, <2>2, <2>5, <2>6, FillTold
  <2>8. /\ LogFits(e, new)
        /\ ~holes => ToldBut(e, new, R)
    BY ONLY <1>11, <1>17, <2>2, <2>6, <2>7, FillTold
  <2> QED
    BY <2>1, <2>8, ToldAll
<1>21. RecTypeOK' /\ holes' = holes
  BY <1>6, <1>13, <1>14, UpTypes
<1>22. OutboxFills'
  <2>1. \A i \in 1..Len(outbox') :
          \/ \E j \in 1..Len(outbox) : outbox'[i] = outbox[j]
          \/ \E j \in 1..Len(post) : outbox'[i] = post[j]
    BY <1>13, <1>14, LogGrows DEF RecTypeOK
  <2>2. \A j \in 1..Len(post) : post[j].kind = "filled" /\ post[j].order \in DOMAIN orders
    BY <1>3, <1>10, <1>11, <1>12
  <2> QED
    BY <1>6, <2>1, <2>2, OutboxStaysFills
<1>23. ScanLeft'
  BY <1>2 DEF UpInv, ScanLeft, MEIdle
<1> QED
  BY <1>5, <1>9, <1>19, <1>20, <1>21, <1>22, <1>23 DEF UpInv, Filling

\* The iteration that the state machine ends: the order whose fill it refused is
\* beyond what the log tells, and known to be.
LEMMA SettleRaisesUp ==
  ASSUME RecTypeOK, UpInv, SettleRaisesLogged
  PROVE  RecTypeOK' /\ UpInv'
<1>1. PICK t, b, s, q : t = Head(trades) /\ b = t.buy /\ s = t.sell /\ q = t.qty
  OBVIOUS
<1>2. /\ SettleRaises /\ TradingOK /\ OMSTypeOK /\ trades # <<>> /\ toFill' = toFill
  BY DEF SettleRaisesLogged, RecTypeOK, TradingOK, SettleRaises, appVars
<1>3. b \in DOMAIN orders /\ s \in DOMAIN orders /\ q \in Nat \ {0}
  BY <1>1, <1>2, TradeParties
<1>4. FillBothRaising(b, s, q) /\ TradeRaises(b, s, q)
  BY <1>1 DEF SettleRaisesLogged, SettleRaises
<1>5. /\ Filling(orders, orders')
      /\ IF FillRaises(orders[b], q)
         THEN /\ Refused(orders'[b])
              /\ \A x \in DOMAIN orders \ {b} : orders'[x] = orders[x]
         ELSE /\ b # s /\ Refused(orders'[s])
              /\ \A x \in DOMAIN orders \ {b, s} : orders'[x] = orders[x]
  BY <1>2, <1>3, <1>4, BothFilledRaising DEF UpInv
<1>6. TradingOK' /\ OMSTypeOK' /\ DOMAIN orders' = DOMAIN orders
  BY <1>2, <1>5, SettleRaisesOK DEF TradingOK, Filling
<1>7. PICK x, f, new : x = TradeExecuted(b, s, q) /\ f = Filled(b) /\ new = orders'
  OBVIOUS
<1>8. x \in LogEvents /\ x.kind \notin {"placed", "filled", "status"}
  <2>1. b \in OrderIds /\ s \in OrderIds
    BY <1>2, <1>3 DEF OMSTypeOK
  <2> QED
    BY <1>3, <1>7, <2>1, TradeIsEvent
<1>9. /\ f \in LogEvents /\ f.kind = "filled" /\ f.order = b
      /\ f.status = new[b].status /\ f.filled = new[b].filled /\ new[b] \in Orders
  BY <1>3, <1>6, <1>7, FilledIsEvent
<1>10. PICK pre, post : /\ pre = <<x>>
                        /\ post = IF FillRaises(orders[b], q) THEN <<>> ELSE <<f>>
  OBVIOUS
<1>11. /\ pre \in Seq(LogEvents) /\ post \in Seq(LogEvents)
       /\ \A j \in 1..Len(post) : post[j] = f
  BY <1>8, <1>9, <1>10, EmptySeq
<1>12. Pushed(pre, post) /\ UNCHANGED <<phase, replayed, histVars>>
  BY <1>1, <1>7, <1>10 DEF SettleRaisesLogged, Push, Pushed
<1>13. PICK c, d : c = (journal \o <<x>>) \o outbox /\ d = c \o post
  OBVIOUS
<1>14. c \in Seq(LogEvents) /\ LogSound(c, orders, holes)
  BY <1>8, <1>13, QuietBefore DEF RecTypeOK
<1>15. TheLog' = d
  BY <1>10, <1>11, <1>12, <1>13, LogGrows DEF RecTypeOK
<1>16. LogSound(d, new, holes)
  <2>1. PICK ords : ords = orders
    OBVIOUS
  <2>2. CASE FillRaises(orders[b], q)
    <3>1. d = c
      BY <1>10, <1>13, <1>14, <2>2, ConcatEmptySeq
    <3>2. PICK P : P = {b}
      OBVIOUS
    <3>3. /\ LogSound(c, ords, holes) /\ Filling(ords, new)
          /\ \A z \in DOMAIN ords \ P : new[z] = ords[z]
      BY <1>5, <1>7, <1>14, <2>1, <2>2, <3>2
    <3>4. LogFits(c, new) /\ (~holes => ToldBut(c, new, P))
      BY ONLY <1>14, <3>3, FilledInMemory
    <3>5. Refused(new[b])
      BY <1>5, <1>7, <2>2
    <3>6. ~holes => LogTells(c, new)
      BY <3>2, <3>4, <3>5 DEF ToldBut, LogTells, OrderTold
    <3> QED
      BY <3>1, <3>4, <3>6 DEF LogSound
  <2>3. CASE ~FillRaises(orders[b], q)
    <3>1. d = c \o <<f>>
      BY <1>10, <1>13, <2>3
    <3>2. PICK P, Q, R : P = {b, s} /\ Q = {s} /\ R = {b}
      OBVIOUS
    <3>3. /\ LogSound(c, ords, holes) /\ Filling(ords, new)
          /\ \A z \in DOMAIN ords \ P : new[z] = ords[z]
      BY <1>5, <1>7, <1>14, <2>1, <2>3, <3>2
    <3>4. LogFits(c, new) /\ (~holes => ToldBut(c, new, P))
      BY ONLY <1>14, <3>3, FilledInMemory
    <3>5. Refused(new[s]) /\ b # s
      BY <1>5, <1>7, <2>3
    <3>6. b \in DOMAIN new /\ FilledHasAll(new) /\ Q = P \ {b}
      BY <1>3, <1>5, <1>6, <1>7, <3>2, <3>5 DEF Filling
    <3>7. LogFits(d, new) /\ (~holes => ToldBut(d, new, Q))
      BY ONLY <1>9, <1>14, <3>1, <3>4, <3>6, FillTold
    <3>8. ~holes => LogTells(d, new)
      BY <3>2, <3>5, <3>7 DEF ToldBut, LogTells, OrderTold
    <3> QED
      BY <3>7, <3>8 DEF LogSound
  <2> QED
    BY <2>2, <2>3
<1>17. RecTypeOK' /\ holes' = holes
  BY <1>6, <1>11, <1>12, UpTypes
<1>18. OutboxFills'
  <2>1. \A i \in 1..Len(outbox') :
          \/ \E j \in 1..Len(outbox) : outbox'[i] = outbox[j]
          \/ \E j \in 1..Len(post) : outbox'[i] = post[j]
    BY <1>11, <1>12, LogGrows DEF RecTypeOK
  <2>2. \A j \in 1..Len(post) : post[j].kind = "filled" /\ post[j].order \in DOMAIN orders
    BY <1>3, <1>9, <1>11
  <2> QED
    BY <1>6, <2>1, <2>2, OutboxStaysFills
<1>19. ScanLeft'
  BY <1>2 DEF UpInv, ScanLeft, MEIdle
<1> QED
  BY <1>5, <1>7, <1>15, <1>16, <1>17, <1>18, <1>19 DEF UpInv, Filling

\* A fill by Engine A.
LEMMA FillAtMarketUp ==
  ASSUME RecTypeOK, UpInv, NEW o \in OrderIds, FillAtMarketLogged(o)
  PROVE  RecTypeOK' /\ UpInv'
<1>1. PICK q : q = Remaining(orders[o])
  OBVIOUS
<1>2. /\ FillAtMarket(o) /\ TradingOK /\ OMSTypeOK /\ o \in toFill /\ o \in DOMAIN orders
      /\ toFill' = toFill \ {o} /\ MEIdle'
  BY DEF FillAtMarketLogged, RecTypeOK, TradingOK, AppTypeOK, FillAtMarket, UpInv, ScanLeft,
         meVars, MEIdle
<1>3. q \in Nat
  BY <1>1, <1>2 DEF UpInv, ScanLeft, OMSTypeOK, Orders, TicketType, Remaining
<1>4. orders' = [orders EXCEPT ![o] = Fill(orders[o], q)]
  BY <1>1 DEF FillAtMarketLogged, FillAtMarket, FillFromMarket
<1>5. /\ Filling(orders, orders')
      /\ \A x \in DOMAIN orders \ {o} : orders'[x] = orders[x]
  <2>1. DOMAIN orders \subseteq OrderIds /\ orders \in [DOMAIN orders -> Orders]
    BY <1>2 DEF OMSTypeOK
  <2> QED
    BY <1>2, <1>3, <1>4, <2>1, FillingOne DEF UpInv
<1>6. TradingOK' /\ OMSTypeOK' /\ DOMAIN orders' = DOMAIN orders
  BY <1>2, <1>5, FillAtMarketOK DEF TradingOK, Filling
<1>7. PICK x, f, new : x = TradeExecuted(o, o, q) /\ f = Filled(o) /\ new = orders'
  OBVIOUS
<1>8. x \in LogEvents /\ x.kind \notin {"placed", "filled", "status"}
  BY <1>3, <1>7, TradeIsEvent
<1>9. /\ f \in LogEvents /\ f.kind = "filled" /\ f.order = o
      /\ f.status = new[o].status /\ f.filled = new[o].filled /\ new[o] \in Orders
  BY <1>2, <1>6, <1>7, FilledIsEvent
<1>10. PICK pre, post : pre = <<x>> /\ post = <<f>>
  OBVIOUS
<1>11. pre \in Seq(LogEvents) /\ post \in Seq(LogEvents)
  BY <1>8, <1>9, <1>10
<1>12. Pushed(pre, post) /\ outbox' = <<>> /\ UNCHANGED <<phase, replayed, histVars>>
  BY <1>1, <1>7, <1>10 DEF FillAtMarketLogged, DrainWith, Push, Pushed
<1>13. PICK c : c = (journal \o <<x>>) \o outbox
  OBVIOUS
<1>14. PICK d : d = c \o <<f>>
  OBVIOUS
<1>15. c \in Seq(LogEvents) /\ LogSound(c, orders, holes)
  BY <1>8, <1>13, QuietBefore DEF RecTypeOK
<1>16. TheLog' = d
  BY <1>10, <1>11, <1>12, <1>13, <1>14, LogGrows DEF RecTypeOK
<1>17. LogSound(d, new, holes)
  <2>1. PICK ords, P, R : ords = orders /\ P = {o} /\ R = {}
    OBVIOUS
  <2>2. /\ LogSound(c, ords, holes) /\ Filling(ords, new)
        /\ \A z \in DOMAIN ords \ P : new[z] = ords[z]
    BY <1>5, <1>7, <1>15, <2>1
  <2>3. LogFits(c, new) /\ (~holes => ToldBut(c, new, P))
    BY ONLY <1>15, <2>2, FilledInMemory
  <2>4. o \in DOMAIN new /\ FilledHasAll(new) /\ R = P \ {o}
    BY <1>2, <1>5, <1>6, <1>7, <2>1 DEF Filling
  <2>5. LogFits(d, new) /\ (~holes => ToldBut(d, new, R))
    BY ONLY <1>9, <1>14, <1>15, <2>3, <2>4, FillTold
  <2> QED
    BY <2>1, <2>5, ToldAll
<1>18. RecTypeOK' /\ holes' = holes
  BY <1>6, <1>11, <1>12, UpTypes
<1>19. OutboxFills'
  BY <1>12, EmptySeq DEF OutboxFills
<1>20. ScanLeft'
  BY <1>2, <1>5, <1>6 DEF UpInv, ScanLeft, TradingOK, AppTypeOK
<1> QED
  BY <1>5, <1>7, <1>16, <1>17, <1>18, <1>19, <1>20 DEF UpInv, Filling

\* Every step of a handler.
LEMMA HandlersUp ==
  ASSUME RecTypeOK, UpInv, LoggedHandlers \/ LoggedContinue
  PROVE  RecTypeOK' /\ UpInv'
<1>1. ASSUME NEW o \in OrderIds, NEW a \in Accounts, NEW t \in Tickets, Place(o, a, t)
      PROVE  RecTypeOK' /\ UpInv'
  BY <1>1, PlaceRejectedUp, PlaceAcceptedUp DEF Place
<1>2. CASE LoggedHandlers
  BY <1>1, <1>2, CancelUp, CancelRaisesUp, MoveCashUp, DeleteUserUp, SilentHandlersUp
     DEF LoggedHandlers
<1>3. CASE LoggedContinue
  BY <1>3, SilentHandlersUp, SettleUp, SettleRaisesUp, FillAtMarketUp DEF LoggedContinue
<1> QED
  BY <1>2, <1>3

-----------------------------------------------------------------------------
(* The end of a process *)

\* A log that is cut short, and may go on with what was behind it, has fewer of
\* the same events.
LEMMA SubSeqFirst ==
  ASSUME NEW j \in Seq(LogEvents), NEW n \in 0..Len(j)
  PROVE  /\ SubSeq(j, 1, n) \in Seq(LogEvents) /\ Len(SubSeq(j, 1, n)) = n
         /\ \A i \in 1..n : SubSeq(j, 1, n)[i] = j[i]
<1>1. n \in Nat /\ \A i \in 1..n : j[i] \in LogEvents
  BY LenProperties, ElementOfSeq
<1>2. /\ SubSeq(j, 1, n) \in Seq(LogEvents)
      /\ Len(SubSeq(j, 1, n)) = IF 1 <= n THEN n - 1 + 1 ELSE 0
      /\ \A i \in 1..n - 1 + 1 : SubSeq(j, 1, n)[i] = j[1 + i - 1]
  BY <1>1, SubSeqProperties
<1> QED
  BY <1>1, <1>2

LEMMA CutWithin ==
  ASSUME NEW j \in Seq(LogEvents), NEW b \in Seq(LogEvents), NEW n \in 0..Len(j),
         NEW k \in Seq(LogEvents), Len(k) = n, \A i \in 1..n : k[i] = j[i]
  PROVE  /\ Within(k, 1..Len(k), j \o b)
         /\ Within(k \o b, 1..Len(k \o b), j \o b)
<1>1. /\ Len(j) \in Nat /\ Len(b) \in Nat /\ n \in Nat /\ n <= Len(j)
  BY LenProperties
<1>2. PICK c, d : c = j \o b /\ d = k \o b
  OBVIOUS
<1>3. /\ c \in Seq(LogEvents) /\ Len(c) = Len(j) + Len(b)
      /\ \A i \in 1..Len(j)+Len(b) : c[i] = IF i <= Len(j) THEN j[i] ELSE b[i - Len(j)]
  BY <1>2, ConcatProperties
<1>4. /\ d \in Seq(LogEvents) /\ Len(d) = n + Len(b)
      /\ \A i \in 1..n+Len(b) : d[i] = IF i <= n THEN k[i] ELSE b[i - n]
  BY <1>2, ConcatProperties
<1>5. Within(k, 1..Len(k), c)
  <2>1. PICK g : g = [p \in 1..Len(k) |-> p]
    OBVIOUS
  <2>2. \A p \in 1..Len(k) : g[p] = p /\ p \in 1..Len(c) /\ k[p] = c[p]
    BY <1>1, <1>3, <2>1
  <2>3. g \in [1..Len(k) -> 1..Len(c)]
    BY <2>1, <2>2
  <2>4. \A p \in 1..Len(k) : k[p] = c[g[p]]
    BY <2>2
  <2>5. \A p, q \in 1..Len(k) : p < q => g[p] < g[q]
    BY <2>2
  <2> QED
    BY <2>3, <2>4, <2>5 DEF Within
<1>6. Within(d, 1..Len(d), c)
  <2>1. PICK g : g = [p \in 1..Len(d) |-> IF p <= n THEN p ELSE p - n + Len(j)]
    OBVIOUS
  <2>2. ASSUME NEW p \in 1..Len(d)
        PROVE  /\ g[p] \in 1..Len(c) /\ d[p] = c[g[p]]
               /\ g[p] = IF p <= n THEN p ELSE p - n + Len(j)
    <3>1. g[p] = IF p <= n THEN p ELSE p - n + Len(j)
      BY <2>1
    <3>2. CASE p <= n
      BY <1>1, <1>3, <1>4, <3>1, <3>2, SMTT(30)
    <3>3. CASE ~(p <= n)
      <4>1. /\ p - n + Len(j) \in 1..Len(c) /\ ~(p - n + Len(j) <= Len(j))
            /\ (p - n + Len(j)) - Len(j) = p - n
        BY <1>1, <1>3, <1>4, <3>3
      <4>2. c[p - n + Len(j)] = b[p - n]
        BY <1>3, <4>1
      <4>3. d[p] = b[p - n]
        BY <1>4, <3>3
      <4> QED
        BY <3>1, <3>3, <4>1, <4>2, <4>3
    <3> QED
      BY <3>2, <3>3
  <2>3. g \in [1..Len(d) -> 1..Len(c)]
    BY <2>1, <2>2
  <2>4. \A p \in 1..Len(d) : d[p] = c[g[p]]
    BY <2>2
  <2>5. \A p, q \in 1..Len(d) : p < q => g[p] < g[q]
    BY <1>1, <1>4, <2>2
  <2> QED
    BY <2>3, <2>4, <2>5 DEF Within
<1> QED
  BY <1>2, <1>5, <1>6

\* What the files still have fits the orders there were.
LEMMA CutFits ==
  ASSUME LogTypeOK, outbox \in Seq(LogEvents), NEW ords, LogFits(TheLog, ords),
         NEW n \in durable..Len(journal), Cut(n)
  PROVE  LogTypeOK' /\ LogFits(journal', ords) /\ LogFits(journal' \o outbox, ords)
<1>1. /\ journal \in Seq(LogEvents) /\ Len(journal) \in Nat /\ durable \in 0..Len(journal)
      /\ n \in 0..Len(journal) /\ journal' = SubSeq(journal, 1, n) /\ durable' = n
  BY LenProperties DEF LogTypeOK, Cut
<1>2. PICK j, b, k, c, d : /\ j = journal /\ b = outbox /\ k = SubSeq(j, 1, n)
                           /\ c = j \o b /\ d = k \o b
  OBVIOUS
<1>3. /\ k \in Seq(LogEvents) /\ d \in Seq(LogEvents) /\ Len(k) = n /\ Len(c) \in Nat
      /\ Within(k, 1..Len(k), c) /\ Within(d, 1..Len(d), c)
  <2>1. j \in Seq(LogEvents) /\ b \in Seq(LogEvents) /\ n \in 0..Len(j)
    BY <1>1, <1>2
  <2>2. k \in Seq(LogEvents) /\ Len(k) = n /\ \A i \in 1..n : k[i] = j[i]
    BY <1>2, <2>1, SubSeqFirst
  <2>3. /\ Within(k, 1..Len(k), j \o b)
        /\ Within(k \o b, 1..Len(k \o b), j \o b)
    BY ONLY <2>1, <2>2, CutWithin
  <2>4. c \in Seq(LogEvents) /\ d \in Seq(LogEvents)
    BY <1>2, <2>1, <2>2, ConcatProperties
  <2> QED
    BY <1>2, <2>2, <2>3, <2>4, LenProperties
<1>4. LogTypeOK'
  BY <1>1, <1>2, <1>3 DEF LogTypeOK
<1>5. /\ 1..Len(k) \in SUBSET Nat /\ 1..Len(d) \in SUBSET Nat
      /\ Within(k, 1..Len(k), c) /\ Within(d, 1..Len(d), c)
  <2>1. Len(d) \in Nat
    BY <1>3, LenProperties
  <2> QED
    BY <1>1, <1>3, <2>1
<1>6. LogFits(c, ords)
  BY <1>2 DEF TheLog
<1>7. LogFits(k, ords) /\ LogFits(d, ords)
  <2>1. FitsAt(k, 1..Len(k), ords)
    BY <1>3, <1>5, <1>6, FitsWithin
  <2>2. FitsAt(d, 1..Len(d), ords)
    BY <1>3, <1>5, <1>6, FitsWithin
  <2> QED
    BY <2>1, <2>2 DEF LogFits
<1> QED
  BY <1>1, <1>2, <1>4, <1>7

LEMMA FlushFailsUp ==
  ASSUME RecTypeOK, UpInv, FlushFails
  PROVE  RecTypeOK' /\ UpInv'
<1>1. PICK n \in durable..Len(journal) : Cut(n)
  <2>1. PICK n \in durable..Len(journal) - 1 : Cut(n)
    BY DEF FlushFails
  <2>2. n \in durable..Len(journal)
    BY LenProperties DEF RecTypeOK, LogTypeOK
  <2> QED
    BY <2>1, <2>2
<1>2. LogTypeOK' /\ LogFits(journal' \o outbox, orders)
  BY <1>1, CutFits DEF RecTypeOK, UpInv, LogSound
<1>3. holes' = TRUE /\ UNCHANGED <<vars, outbox, phase, replayed, lives>>
  BY DEF FlushFails
<1>4. TradingOK'
  <2>1. UNCHANGED <<meVars, omsVars, accountVars, appVars>>
    BY <1>3 DEF vars
  <2>2. AccountTypeOK' /\ AppTypeOK' /\ ScanQuoted'
    BY <2>1 DEF RecTypeOK, TradingOK, AccountTypeOK, AppTypeOK, ScanQuoted,
                accountVars, appVars, omsVars
  <2> QED
    BY <2>1, <2>2, OtherHandlersOK DEF RecTypeOK
<1>5. RecTypeOK'
  BY <1>2, <1>3, <1>4 DEF RecTypeOK, RestTypeOK
<1>6. LogSound(TheLog, orders, holes)'
  BY <1>2, <1>3 DEF LogSound, TheLog, vars, omsVars
<1>7. OutboxFills' /\ ScanLeft' /\ FilledHasAll(orders')
  BY <1>3 DEF UpInv, OutboxFills, ScanLeft, MEIdle, vars, omsVars, meVars, appVars
<1> QED
  BY <1>5, <1>6, <1>7 DEF UpInv

-----------------------------------------------------------------------------
(* The invariant while the process restores, or has failed to start *)

ReplayedOrders ==
  /\ replayed \in 0..Len(journal)
  /\ DOMAIN orders = PlacedBy(journal, replayed)
  /\ \A o \in DOMAIN orders : Told(journal, replayed, o, orders[o])

BeforeOK ==
  /\ before.clean \in BOOLEAN
  /\ DOMAIN before.orders \subseteq OrderIds
  /\ before.orders \in [DOMAIN before.orders -> Orders]
  /\ LogFits(journal, before.orders)
  /\ before.clean => LogTells(journal, before.orders)

DownInv ==
  /\ Idle
  /\ outbox = <<>>
  /\ ReplayedOrders
  /\ BeforeOK

\* A new process knows nothing.
LEMMA ProcessStarts ==
  ASSUME RecTypeOK, LogTypeOK', lives' \in Nat, NEW ended, StartProcess(ended)
  PROVE  /\ RecTypeOK' /\ Idle' /\ outbox' = <<>> /\ ReplayedOrders'
         /\ before' = ended /\ phase' = "restoring"
<1>1. /\ bids' = [s \in Symbols |-> <<>>] /\ asks' = [s \in Symbols |-> <<>>]
      /\ seen' = {} /\ submission' = NoSubmission /\ trades' = <<>> /\ orders' = <<>>
      /\ cashAvailable' = [a \in Accounts |-> InitialCash]
      /\ cashLocked' = [a \in Accounts |-> 0]
      /\ qtyAvailable' = InitialShares /\ qtyLocked' = [p \in Accounts \X Symbols |-> 0]
      /\ locks' = <<>> /\ engineMode' = "B" /\ quotes' = [s \in Symbols |-> NoQuote]
      /\ toFill' = {} /\ outbox' = <<>> /\ phase' = "restoring" /\ replayed' = 0
      /\ before' = ended /\ UNCHANGED <<clock, deleted, holes>>
  BY DEF StartProcess
<1>2. METypeOK'
  BY <1>1 DEF METypeOK
<1>3. BooksSorted' /\ BooksSeen' /\ TradesSeen'
  BY <1>1 DEF BooksSorted, Sorted, BooksSeen, TradesSeen, OrdersOn
<1>4. OMSTypeOK'
  BY <1>1 DEF RecTypeOK, TradingOK, OMSTypeOK
<1>5. AccountTypeOK'
  BY <1>1, AccountAssumption DEF AccountTypeOK
<1>6. AppTypeOK' /\ seen' \subseteq DOMAIN orders' /\ ScanQuoted'
  BY <1>1, RecoveryAssumption DEF RecTypeOK, TradingOK, AppTypeOK, ScanQuoted
<1>7. outbox' \in Seq(LogEvents) /\ RestTypeOK'
  BY <1>1, EmptySeq DEF RecTypeOK, RestTypeOK
<1>8. RecTypeOK'
  BY <1>2, <1>3, <1>4, <1>5, <1>6, <1>7 DEF RecTypeOK, TradingOK, EngineOK
<1>9. ReplayedOrders'
  BY <1>1, LenProperties DEF LogTypeOK, ReplayedOrders, PlacedBy
<1> QED
  BY <1>1, <1>8, <1>9 DEF Idle, MEIdle

LEMMA MemoryFields ==
  ASSUME OMSTypeOK, NEW clean \in BOOLEAN
  PROVE  /\ Memory(clean).clean = clean /\ Memory(clean).orders = orders
         /\ DOMAIN orders \subseteq OrderIds /\ orders \in [DOMAIN orders -> Orders]
BY DEF Memory, OMSTypeOK

LEMMA CrashDown ==
  ASSUME RecTypeOK, UpInv, Crash
  PROVE  RecTypeOK' /\ DownInv' /\ phase' = "restoring"
<1>1. PICK n \in durable..Len(journal) : Cut(n)
  BY DEF Crash
<1>2. LogTypeOK' /\ LogFits(journal', orders)
  BY <1>1, CutFits DEF RecTypeOK, UpInv, LogSound
<1>3. PICK clean \in BOOLEAN : clean = FALSE
  OBVIOUS
<1>4. StartProcess(Memory(clean)) /\ lives' \in Nat
  <2>1. lives' = lives + 1 /\ lives \in Nat
    BY DEF Crash, AnotherLife, RecTypeOK, RestTypeOK
  <2>2. StartProcess(Memory(clean))
    BY <1>3 DEF Crash
  <2> QED
    BY <2>1, <2>2
<1>5. /\ RecTypeOK' /\ Idle' /\ outbox' = <<>> /\ ReplayedOrders'
      /\ before' = Memory(clean) /\ phase' = "restoring"
  BY <1>2, <1>4, ProcessStarts
<1>6. /\ before'.clean = clean /\ before'.orders = orders
      /\ DOMAIN orders \subseteq OrderIds /\ orders \in [DOMAIN orders -> Orders]
  BY <1>5, MemoryFields DEF RecTypeOK, TradingOK
<1>7. BeforeOK'
  BY <1>2, <1>3, <1>6 DEF BeforeOK
<1> QED
  BY <1>5, <1>7 DEF DownInv

\* stop() flushes everything, but an outbox that nobody drained is lost.
LEMMA ShutdownDown ==
  ASSUME RecTypeOK, UpInv, Shutdown
  PROVE  RecTypeOK' /\ DownInv' /\ phase' = "restoring"
<1>1. PICK n \in durable..Len(journal) : n = Len(journal) /\ Cut(n)
  <2>1. Len(journal) \in durable..Len(journal)
    BY LenProperties DEF RecTypeOK, LogTypeOK
  <2> QED
    BY <2>1 DEF Shutdown
<1>2. LogTypeOK' /\ LogFits(journal', orders)
  BY <1>1, CutFits DEF RecTypeOK, UpInv, LogSound
<1>3. PICK clean \in BOOLEAN : clean = (outbox = <<>> /\ ~holes)
  OBVIOUS
<1>4. StartProcess(Memory(clean)) /\ lives' \in Nat
  BY <1>3 DEF Shutdown, AnotherLife, RecTypeOK, RestTypeOK
<1>5. /\ RecTypeOK' /\ Idle' /\ outbox' = <<>> /\ ReplayedOrders'
      /\ before' = Memory(clean) /\ phase' = "restoring"
  BY <1>2, <1>4, ProcessStarts
<1>6. /\ before'.clean = clean /\ before'.orders = orders
      /\ DOMAIN orders \subseteq OrderIds /\ orders \in [DOMAIN orders -> Orders]
  BY <1>5, MemoryFields DEF RecTypeOK, TradingOK
<1>7. ASSUME clean PROVE LogTells(journal', orders)
  <2>1. journal' = journal /\ journal \in Seq(LogEvents)
    BY <1>1, SubSeqFull DEF Cut, RecTypeOK, LogTypeOK
  <2>2. TheLog = journal /\ ~holes
    BY <1>3, <1>7, <2>1, ConcatEmptySeq DEF TheLog
  <2> QED
    BY <2>1, <2>2 DEF UpInv, LogSound
<1>8. BeforeOK'
  BY <1>2, <1>6, <1>7 DEF BeforeOK
<1> QED
  BY <1>5, <1>8 DEF DownInv

LEMMA StartAgainDown ==
  ASSUME RecTypeOK, DownInv, StartAgain
  PROVE  RecTypeOK' /\ DownInv' /\ phase' = "restoring"
<1>1. StartProcess(before) /\ UNCHANGED <<journal, durable, lives>>
  BY DEF StartAgain
<1>2. LogTypeOK' /\ lives' \in Nat
  BY <1>1 DEF RecTypeOK, LogTypeOK, RestTypeOK
<1>3. /\ RecTypeOK' /\ Idle' /\ outbox' = <<>> /\ ReplayedOrders'
      /\ before' = before /\ phase' = "restoring"
  BY <1>1, <1>2, ProcessStarts
<1>4. BeforeOK'
  BY <1>1, <1>3 DEF DownInv, BeforeOK
<1> QED
  BY <1>3, <1>4 DEF DownInv

\* A withdrawal that cannot be replayed.
LEMMA ReplayRaisesDown ==
  ASSUME RecTypeOK, DownInv, ReplayRaises
  PROVE  RecTypeOK' /\ DownInv' /\ phase' = "failed"
<1>1. phase' = "failed" /\ UNCHANGED <<vars, journal, durable, outbox, replayed, histVars>>
  BY DEF ReplayRaises
<1>2. UNCHANGED <<meVars, omsVars, accountVars, appVars, lives, before, holes>>
  BY <1>1 DEF vars, histVars
<1>3. TradingOK'
  <2>1. AccountTypeOK' /\ AppTypeOK' /\ ScanQuoted'
    BY <1>2 DEF RecTypeOK, TradingOK, AccountTypeOK, AppTypeOK, ScanQuoted,
                accountVars, appVars, omsVars
  <2> QED
    BY <1>2, <2>1, OtherHandlersOK DEF RecTypeOK
<1>4. RecTypeOK'
  BY <1>1, <1>2, <1>3 DEF RecTypeOK, LogTypeOK, RestTypeOK
<1>5. DownInv'
  BY <1>1, <1>2 DEF DownInv, Idle, MEIdle, ReplayedOrders, BeforeOK, meVars, omsVars, appVars
<1> QED
  BY <1>1, <1>4, <1>5

-----------------------------------------------------------------------------
(* Replay *)

LEMMA ReplayedType ==
  ASSUME AccountTypeOK, NEW e \in LogEvents, ApplyToAccounts(e)
  PROVE  AccountTypeOK'
<1>1. CASE e.kind = "placed"
  <2>1. /\ e.account \in Accounts /\ e.order \in OrderIds
        /\ e.ticket.symbol \in Symbols /\ e.ticket.side \in Sides
        /\ e.ticket.qty \in Nat /\ e.ticket.price \in Nat \cup {NoPrice}
    BY <1>1, EventFields DEF TicketType
  <2>2. \/ LockFunds(e.account, e.order, e.ticket.symbol, e.ticket.side, e.ticket.qty, e.ticket.price)
        \/ UNCHANGED accountVars
    BY <1>1 DEF ApplyToAccounts
  <2> QED
    BY <2>1, <2>2, LockFundsType DEF AccountTypeOK, accountVars
<1>2. CASE e.kind = "status"
  <2>1. UnlockFunds(e.order) \/ UNCHANGED accountVars
    BY <1>2 DEF ApplyToAccounts
  <2> QED
    BY <2>1, UnlockFundsType DEF AccountTypeOK, accountVars
<1>3. CASE e.kind = "settlement"
  <2>1. SettleTrade(e.buyer, e.seller, e.buy, e.sell, e.symbol, e.price, e.qty)
    BY <1>3 DEF ApplyToAccounts
  <2>2. /\ e.buyer \in Accounts /\ e.seller \in Accounts /\ e.symbol \in Symbols
        /\ e.price \in Int /\ e.qty \in Int
    BY <1>3, EventFields
  <2> QED
    BY <2>1, <2>2, SettleTradeType
<1>4. CASE e.kind = "cash"
  <2>1. DepositCash(e.account, e.amount) \/ WithdrawCash(e.account, -e.amount)
    BY <1>4 DEF ApplyToAccounts
  <2>2. e.account \in Accounts /\ e.amount \in Int
    BY <1>4, EventFields
  <2> QED
    BY <2>1, <2>2 DEF DepositCash, WithdrawCash, AccountTypeOK
<1>5. CASE e.kind = "deleted"
  <2>1. DeleteAccount(e.account) /\ e.account \in Accounts
    BY <1>5, EventFields DEF ApplyToAccounts
  <2> QED
    BY <2>1, DeleteAccountType
<1>6. CASE e.kind \in {"filled", "trade"}
  <2>1. UNCHANGED accountVars
    BY <1>6 DEF ApplyToAccounts
  <2> QED
    BY <2>1 DEF AccountTypeOK, accountVars
<1> QED
  BY <1>1, <1>2, <1>3, <1>4, <1>5, <1>6, EventFields

\* The last event of one more.
LEMMA LastNext ==
  ASSUME NEW log, NEW n \in Nat, NEW o, NEW kinds
  PROVE  /\ About(log[n + 1], o, kinds) => LastEvent(log, n + 1, o, kinds, log[n + 1])
         /\ \A x : ~About(log[n + 1], o, kinds) /\ LastEvent(log, n, o, kinds, x)
                     => LastEvent(log, n + 1, o, kinds, x)
<1>1. \A j \in 1..n+1 : j <= n + 1 /\ (j = n + 1 \/ j \in 1..n)
  OBVIOUS
<1>2. n + 1 \in 1..n+1 /\ \A i \in 1..n : i \in 1..n+1
  OBVIOUS
<1>3. ASSUME About(log[n + 1], o, kinds)
      PROVE  LastEvent(log, n + 1, o, kinds, log[n + 1])
  BY <1>1, <1>2, <1>3 DEF LastEvent
<1>4. ASSUME NEW x, ~About(log[n + 1], o, kinds), LastEvent(log, n, o, kinds, x)
      PROVE  LastEvent(log, n + 1, o, kinds, x)
  <2>1. PICK i \in 1..n : log[i] = x /\ \A j \in 1..n : About(log[j], o, kinds) => j <= i
    BY <1>4 DEF LastEvent
  <2>2. \A j \in 1..n+1 : About(log[j], o, kinds) => j <= i
    BY <1>1, <1>4, <2>1
  <2> QED
    BY <1>2, <1>4, <2>1, <2>2 DEF LastEvent
<1> QED
  BY <1>3, <1>4

LEMMA ToldNext ==
  ASSUME NEW log, NEW n \in Nat, NEW o, NEW ord, Told(log, n, o, ord),
         ~About(log[n + 1], o, StatusEvents)
  PROVE  Told(log, n + 1, o, ord)
<1>1. ~About(log[n + 1], o, FormEvents) /\ ~About(log[n + 1], o, FillEvents)
  BY DEF About, FormEvents, FillEvents, StatusEvents
<1>2. FormTold(log, n + 1, o, ord)
  BY <1>1, LastNext DEF Told, FormTold
<1>3. StatusTold(log, n + 1, o, ord)
  BY LastNext DEF Told, StatusTold
<1>4. FilledTold(log, n + 1, o, ord)
  BY <1>1, LastNext DEF Told, FilledTold
<1> QED
  BY <1>2, <1>3, <1>4 DEF Told

\* The order that the event is about.
LEMMA ToldNow ==
  ASSUME NEW log, NEW n \in Nat, NEW e \in LogEvents, e = log[n + 1], NEW o, e.order = o,
         NEW ord, NEW new,
         \/ /\ e.kind = "placed" /\ new.account = e.account /\ new.ticket = e.ticket
            /\ new.created = e.time /\ new.status = "PENDING" /\ new.filled = 0
         \/ /\ Told(log, n, o, ord)
            /\ new.account = ord.account /\ new.ticket = ord.ticket /\ new.created = ord.created
            /\ \/ e.kind = "status" /\ new.status = e.status /\ new.filled = ord.filled
               \/ e.kind = "filled" /\ new.status = e.status /\ new.filled = e.filled
  PROVE  Told(log, n + 1, o, new)
<1>1. CASE /\ e.kind = "placed" /\ new.account = e.account /\ new.ticket = e.ticket
           /\ new.created = e.time /\ new.status = "PENDING" /\ new.filled = 0
  <2>1. About(e, o, FormEvents) /\ About(e, o, StatusEvents) /\ About(e, o, FillEvents)
    BY <1>1 DEF About, FormEvents, StatusEvents, FillEvents
  <2>2. /\ LastEvent(log, n + 1, o, FormEvents, e) /\ LastEvent(log, n + 1, o, StatusEvents, e)
        /\ LastEvent(log, n + 1, o, FillEvents, e)
    BY <2>1, LastNext
  <2> QED
    BY <1>1, <2>2 DEF Told, FormTold, StatusTold, FilledTold, StatusAfter, FilledAfter
<1>2. CASE /\ Told(log, n, o, ord)
           /\ new.account = ord.account /\ new.ticket = ord.ticket /\ new.created = ord.created
           /\ e.kind = "status" /\ new.status = e.status /\ new.filled = ord.filled
  <2>1. ~About(e, o, FormEvents) /\ About(e, o, StatusEvents) /\ ~About(e, o, FillEvents)
    BY <1>2 DEF About, FormEvents, StatusEvents, FillEvents
  <2>2. FormTold(log, n + 1, o, new)
    BY <1>2, <2>1, LastNext DEF Told, FormTold
  <2>3. FilledTold(log, n + 1, o, new)
    BY <1>2, <2>1, LastNext DEF Told, FilledTold
  <2>4. StatusTold(log, n + 1, o, new)
    BY <1>2, <2>1, LastNext DEF StatusTold, StatusAfter
  <2> QED
    BY <2>2, <2>3, <2>4 DEF Told
<1>3. CASE /\ Told(log, n, o, ord)
           /\ new.account = ord.account /\ new.ticket = ord.ticket /\ new.created = ord.created
           /\ e.kind = "filled" /\ new.status = e.status /\ new.filled = e.filled
  <2>1. ~About(e, o, FormEvents) /\ About(e, o, StatusEvents) /\ About(e, o, FillEvents)
    BY <1>3 DEF About, FormEvents, StatusEvents, FillEvents
  <2>2. FormTold(log, n + 1, o, new)
    BY <1>3, <2>1, LastNext DEF Told, FormTold
  <2>3. FilledTold(log, n + 1, o, new) /\ StatusTold(log, n + 1, o, new)
    BY <1>3, <2>1, LastNext DEF StatusTold, StatusAfter, FilledTold, FilledAfter
  <2> QED
    BY <2>2, <2>3 DEF Told
<1> QED
  BY <1>1, <1>2, <1>3

LEMMA PlacedNext ==
  ASSUME NEW log, NEW n \in Nat
  PROVE  PlacedBy(log, n + 1) =
           PlacedBy(log, n) \cup (IF log[n + 1].kind = "placed" THEN {log[n + 1].order} ELSE {})
<1>1. \A j : j \in 1..n+1 <=> j \in 1..n \/ j = n + 1
  OBVIOUS
<1> QED
  BY <1>1 DEF PlacedBy

\* Step 4 of cold_start, one event: the order it is about is as it says, the
\* others are as they were.
LEMMA ReplayedOne ==
  ASSUME OMSTypeOK, ReplayedOrders, LogTypeOK, NEW e \in LogEvents, replayed < Len(journal),
         e = journal[replayed + 1], ApplyToOrders(e), clock' = clock,
         replayed' = replayed + 1, journal' = journal
  PROVE  OMSTypeOK' /\ ReplayedOrders' /\ DOMAIN orders \subseteq DOMAIN orders'
<1>1. PICK n \in Nat : n = replayed
  BY DEF ReplayedOrders
<1>2. PICK log : log = journal
  OBVIOUS
<1>3. /\ DOMAIN orders = PlacedBy(log, n) /\ \A o \in DOMAIN orders : Told(log, n, o, orders[o])
      /\ e = log[n + 1]
      /\ DOMAIN orders \subseteq OrderIds /\ orders \in [DOMAIN orders -> Orders]
  BY <1>1, <1>2 DEF ReplayedOrders, OMSTypeOK
<1>4. n + 1 \in 0..Len(journal)
  BY <1>1, LenProperties DEF LogTypeOK
<1>5. ASSUME NEW new, DOMAIN new = PlacedBy(log, n + 1), new \in [DOMAIN new -> Orders],
             DOMAIN new \subseteq OrderIds, orders' = new,
             \A o \in DOMAIN new : Told(log, n + 1, o, new[o])
      PROVE  OMSTypeOK' /\ ReplayedOrders'
  BY <1>1, <1>2, <1>4, <1>5 DEF OMSTypeOK, ReplayedOrders
<1>6. CASE e.kind = "placed"
  <2>1. PICK ord : ord = [account |-> e.account, ticket |-> e.ticket, status |-> "PENDING",
                          created |-> e.time, filled |-> 0]
    OBVIOUS
  <2>2. ord \in Orders /\ e.order \in OrderIds
    BY <1>6, <2>1, EventFields DEF Orders, Statuses
  <2>3. PICK new : new = Put(orders, e.order, ord)
    OBVIOUS
  <2>4. /\ DOMAIN new = DOMAIN orders \cup {e.order} /\ DOMAIN new \subseteq OrderIds
        /\ new \in [DOMAIN new -> Orders] /\ new[e.order] = ord
        /\ \A x \in DOMAIN orders \ {e.order} : new[x] = orders[x]
    <3>1. PICK k \in OrderIds : k = e.order
      BY <2>2
    <3>2. new = Put(orders, k, ord)
      BY <2>3, <3>1
    <3>3. DOMAIN orders \subseteq OrderIds /\ orders \in [DOMAIN orders -> Orders]
      BY <1>3
    <3>4. /\ DOMAIN new = DOMAIN orders \cup {k} /\ DOMAIN new \subseteq OrderIds
          /\ new \in [DOMAIN new -> Orders] /\ new[k] = ord
          /\ \A x \in DOMAIN orders \ {k} : new[x] = orders[x]
      BY ONLY k \in OrderIds, <2>2, <3>2, <3>3 DEF Put
    <3> QED
      BY <3>1, <3>4
  <2>5. orders' = new
    BY <1>6, <2>1, <2>3 DEF ApplyToOrders
  <2>6. DOMAIN new = PlacedBy(log, n + 1)
    BY <1>3, <1>6, <2>4, PlacedNext
  <2>7. Told(log, n + 1, e.order, ord)
    BY <1>3, <1>6, <2>1, ToldNow
  <2>8. ASSUME NEW o \in DOMAIN new, o # e.order PROVE Told(log, n + 1, o, new[o])
    <3>1. ~About(e, o, StatusEvents) /\ o \in DOMAIN orders /\ new[o] = orders[o]
      BY <2>4, <2>8 DEF About
    <3> QED
      BY <1>3, <3>1, ToldNext
  <2> QED
    BY <1>5, <2>4, <2>5, <2>6, <2>7, <2>8
<1>7. CASE e.kind \in {"status", "filled"} /\ e.order \in DOMAIN orders
  <2>1. PICK o \in DOMAIN orders : o = e.order
    BY <1>7
  <2>2. PICK ord : ord = IF e.kind = "status" THEN [orders[o] EXCEPT !.status = e.status]
                         ELSE [orders[o] EXCEPT !.status = e.status, !.filled = e.filled]
    OBVIOUS
  <2>3. orders[o] \in Orders /\ e.status \in Statuses /\ (e.kind = "filled" => e.filled \in Nat)
    BY <1>3, <1>7, EventFields
  <2>4. /\ ord \in Orders /\ ord.account = orders[o].account /\ ord.ticket = orders[o].ticket
        /\ ord.created = orders[o].created /\ ord.status = e.status
        /\ e.kind = "status" => ord.filled = orders[o].filled
        /\ e.kind = "filled" => ord.filled = e.filled
    <3>1. CASE e.kind = "status"
      <4>1. ord = [orders[o] EXCEPT !.status = e.status]
        BY <2>2, <3>1
      <4> QED
        BY <2>3, <3>1, <4>1 DEF Orders
    <3>2. CASE e.kind = "filled"
      <4>1. ord = [orders[o] EXCEPT !.status = e.status, !.filled = e.filled]
        BY <2>2, <3>2
      <4> QED
        BY <2>3, <3>2, <4>1 DEF Orders
    <3> QED
      BY <1>7, <3>1, <3>2
  <2>5. PICK new : new = [orders EXCEPT ![o] = ord]
    OBVIOUS
  <2>6. orders' = new
    <3>1. CASE e.kind = "status"
      <4>1. orders' = [orders EXCEPT ![o].status = e.status]
        BY <2>1, <3>1 DEF ApplyToOrders
      <4>2. ord = [orders[o] EXCEPT !.status = e.status]
        BY <2>2, <3>1
      <4> QED
        BY <2>5, <4>1, <4>2
    <3>2. CASE e.kind = "filled"
      <4>1. orders' = [orders EXCEPT ![o].status = e.status, ![o].filled = e.filled]
        BY <2>1, <3>2 DEF ApplyToOrders
      <4>2. ord = [orders[o] EXCEPT !.status = e.status, !.filled = e.filled]
        BY <2>2, <3>2
      <4> QED
        BY <1>3, <2>5, <4>1, <4>2
    <3> QED
      BY <1>7, <3>1, <3>2
  <2>7. /\ DOMAIN new = DOMAIN orders /\ new[o] = ord /\ new \in [DOMAIN new -> Orders]
        /\ \A x \in DOMAIN orders \ {o} : new[x] = orders[x]
    BY <1>3, <2>4, <2>5
  <2>8. DOMAIN new = PlacedBy(log, n + 1)
    BY <1>3, <1>7, <2>7, PlacedNext
  <2>9. Told(log, n + 1, o, ord)
    <3>1. Told(log, n, o, orders[o])
      BY <1>3
    <3> QED
      BY <1>3, <1>7, <2>1, <2>4, <3>1, ToldNow
  <2>10. ASSUME NEW x \in DOMAIN new, x # o PROVE Told(log, n + 1, x, new[x])
    <3>1. ~About(e, x, StatusEvents) /\ x \in DOMAIN orders /\ new[x] = orders[x]
      BY <2>1, <2>7, <2>10 DEF About
    <3> QED
      BY <1>3, <3>1, ToldNext
  <2> QED
    BY <1>3, <1>5, <2>6, <2>7, <2>8, <2>9, <2>10
<1>8. CASE e.kind # "placed" /\ ~(e.kind \in {"status", "filled"} /\ e.order \in DOMAIN orders)
  <2>1. orders' = orders
    BY <1>8 DEF ApplyToOrders
  <2>2. DOMAIN orders = PlacedBy(log, n + 1)
    BY <1>3, <1>8, PlacedNext
  <2>3. ASSUME NEW x \in DOMAIN orders PROVE Told(log, n + 1, x, orders[x])
    <3>1. ~About(e, x, StatusEvents)
      BY <1>8 DEF About, StatusEvents
    <3> QED
      BY <1>3, <3>1, ToldNext
  <2> QED
    BY <1>3, <1>5, <2>1, <2>2, <2>3
<1>9. DOMAIN orders \subseteq PlacedBy(log, n + 1)
  BY <1>3, PlacedNext
<1>10. OMSTypeOK' /\ ReplayedOrders'
  BY <1>6, <1>7, <1>8
<1>11. DOMAIN orders' = PlacedBy(log, n + 1)
  BY <1>1, <1>2, <1>10 DEF ReplayedOrders
<1> QED
  BY <1>9, <1>10, <1>11

LEMMA ReplayDown ==
  ASSUME RecTypeOK, DownInv, Replay
  PROVE  RecTypeOK' /\ DownInv' /\ phase' = phase
<1>1. PICK e : e = journal[replayed + 1]
  OBVIOUS
<1>2. /\ ApplyToAccounts(e) /\ ApplyToOrders(e) /\ replayed < Len(journal)
      /\ replayed' = replayed + 1
      /\ UNCHANGED <<meVars, clock, appVars, journal, durable, outbox, phase, lives, before, holes>>
  BY <1>1 DEF Replay, histVars
<1>3. e \in LogEvents
  <2>1. journal \in Seq(LogEvents) /\ replayed + 1 \in 1..Len(journal)
    BY <1>2, LenProperties DEF RecTypeOK, LogTypeOK, DownInv, ReplayedOrders
  <2> QED
    BY <1>1, <2>1, ElementOfSeq
<1>4. OMSTypeOK' /\ ReplayedOrders' /\ DOMAIN orders \subseteq DOMAIN orders'
  BY <1>1, <1>2, <1>3, ReplayedOne DEF RecTypeOK, TradingOK, DownInv
<1>5. AccountTypeOK'
  BY <1>2, <1>3, ReplayedType DEF RecTypeOK, TradingOK
<1>6. EngineOK'
  BY <1>2, EngineUnchanged DEF RecTypeOK, TradingOK
<1>7. AppTypeOK' /\ ScanQuoted' /\ seen' \subseteq DOMAIN orders'
  BY <1>2, <1>4 DEF RecTypeOK, TradingOK, AppTypeOK, ScanQuoted, DownInv, Idle, appVars, meVars
<1>8. RecTypeOK'
  BY <1>2, <1>4, <1>5, <1>6, <1>7 DEF RecTypeOK, TradingOK, LogTypeOK, RestTypeOK
<1>9. Idle' /\ outbox' = <<>> /\ BeforeOK'
  BY <1>2 DEF DownInv, Idle, MEIdle, BeforeOK, meVars, appVars
<1> QED
  BY <1>2, <1>4, <1>8, <1>9 DEF DownInv

-----------------------------------------------------------------------------
(* The rebuilt books *)

\* One event of rebuild_order_book_from_log, and the lists after each event.
RebuildWith(list, e, s, side) ==
  IF GoesOnBook(e) /\ e.ticket.symbol = s /\ e.ticket.side = side
  THEN Insert(side, list, BookEntry(e.order, EffectivePrice(e.ticket),
                                    LoggedRemaining(e), e.time))
  ELSE list

Lists(g, s, side, n) ==
  g = [k \in 0..n |-> IF k = 0 THEN <<>> ELSE RebuildWith(g[k - 1], journal[k], s, side)]

LEMMA RebuiltIsChosen ==
  ASSUME NEW s, NEW side
  PROVE  RebuiltSide(s, side) = (CHOOSE g : Lists(g, s, side, Len(journal)))[Len(journal)]
BY DEF RebuiltSide, Lists, RebuildWith

\* The lists exist: a shortest log without them would have those of the events
\* before the last, with one more.
LEMMA ListsExist ==
  ASSUME NEW s, NEW side, NEW n \in Nat
  PROVE  \E g : Lists(g, s, side, n)
<1> DEFINE I == { m \in Nat : \A g : ~Lists(g, s, side, m) }
<1>1. SUFFICES ASSUME I # {} PROVE FALSE
  OBVIOUS
<1>2. PICK m \in I : \A i \in I : m <= i
  <2> HIDE DEF I
  <2>1. I \in SUBSET Nat
    BY DEF I
  <2> QED
    BY <1>1, <2>1, NatMinimum
<1>3. m \in Nat /\ \A g : ~Lists(g, s, side, m)
  BY <1>2
<1>4. m # 0
  <2>1. PICK g : g = [k \in 0..0 |-> <<>>]
    OBVIOUS
  <2>2. g = [k \in 0..0 |-> IF k = 0 THEN <<>> ELSE RebuildWith(g[k - 1], journal[k], s, side)]
    BY <2>1
  <2>3. Lists(g, s, side, 0)
    BY <2>2 DEF Lists
  <2> QED
    BY <1>3, <2>3
<1>5. PICK h : Lists(h, s, side, m - 1)
  <2>1. m - 1 \in Nat /\ ~(m <= m - 1)
    BY <1>3, <1>4
  <2> QED
    BY <1>2, <2>1
<1>6. PICK top : top = RebuildWith(h[m - 1], journal[m], s, side)
  OBVIOUS
<1>7. PICK g : g = [k \in 0..m |-> IF k = m THEN top ELSE h[k]]
  OBVIOUS
<1>8. ASSUME NEW k \in 0..m
      PROVE  g[k] = IF k = 0 THEN <<>> ELSE RebuildWith(g[k - 1], journal[k], s, side)
  <2>1. g[k] = (IF k = m THEN top ELSE h[k]) /\ (k # 0 => g[k - 1] = h[k - 1])
    BY <1>3, <1>7
  <2>2. CASE k = m
    BY <1>4, <1>6, <2>1, <2>2
  <2>3. CASE k # m
    <3>1. k \in 0..(m - 1)
      BY <1>3, <2>3
    <3>2. h[k] = IF k = 0 THEN <<>> ELSE RebuildWith(h[k - 1], journal[k], s, side)
      BY <1>5, <3>1 DEF Lists
    <3> QED
      BY <2>1, <2>3, <3>2
  <2> QED
    BY <2>2, <2>3
<1>9. g = [k \in 0..m |-> g[k]]
  BY <1>7
<1>10. g = [k \in 0..m |-> IF k = 0 THEN <<>> ELSE RebuildWith(g[k - 1], journal[k], s, side)]
  BY <1>8, <1>9
<1>11. Lists(g, s, side, m)
  BY <1>10 DEF Lists
<1> QED
  BY <1>3, <1>11

\* What the log says of the fills of an order is a number.
LEMMA LoggedFillType ==
  ASSUME LogTypeOK, NEW o
  PROVE  LoggedFill(o) \in Int
<1>1. PICK f : f = [i \in DOMAIN journal |-> FillIn(journal[i], o)]
  OBVIOUS
<1>2. DOMAIN journal = 1..Len(journal) /\ IsFiniteSet(DOMAIN journal)
  BY LenProperties, FS_Interval DEF LogTypeOK
<1>3. \A i \in DOMAIN journal : f[i] \in Int
  <2>1. SUFFICES ASSUME NEW i \in DOMAIN journal PROVE FillIn(journal[i], o) \in Int
    BY <1>1
  <2>2. journal[i] \in LogEvents
    BY <1>2, ElementOfSeq DEF LogTypeOK
  <2>3. CASE journal[i].kind = "trade"
    <3>1. journal[i].qty \in Nat
      BY <2>2, <2>3, EventFields
    <3> QED
      BY <3>1 DEF FillIn
  <2>4. CASE journal[i].kind # "trade"
    BY <2>4 DEF FillIn
  <2> QED
    BY <2>3, <2>4
<1>4. SumOver(f, DOMAIN journal) \in Int
  BY <1>2, <1>3, SumTakeOut
<1> QED
  BY <1>1, <1>4 DEF LoggedFill

LEMMA RebuiltEntry ==
  ASSUME LogTypeOK, NEW e \in LogEvents, GoesOnBook(e)
  PROVE  BookEntry(e.order, EffectivePrice(e.ticket), LoggedRemaining(e), e.time) \in Entries
<1>1. e.order \in OrderIds /\ e.ticket \in TicketType /\ e.time \in Nat
  BY EventFields DEF GoesOnBook
<1>2. LoggedRemaining(e) \in Nat \ {0}
  <2>1. LoggedFill(e.order) \in Int /\ e.ticket.qty \in Nat
    BY <1>1, LoggedFillType DEF TicketType
  <2>2. e.ticket.qty - LoggedFill(e.order) > 0
    BY DEF GoesOnBook, LoggedRemaining
  <2> QED
    BY <2>1, <2>2 DEF LoggedRemaining
<1>3. EffectivePrice(e.ticket) \in Nat
  BY <1>1, TradingAssumption DEF EffectivePrice, TicketType
<1> QED
  BY <1>1, <1>2, <1>3 DEF BookEntry, Entries

\* A rebuilt side is in price-time order, and holds only orders that go on the book.
Rebuildable == { journal[i].order : i \in { j \in DOMAIN journal : GoesOnBook(journal[j]) } }

RebuildableOn(side) ==
  { journal[i].order : i \in { j \in DOMAIN journal :
                                 GoesOnBook(journal[j]) /\ journal[j].ticket.side = side } }

LEMMA RebuiltSideOK ==
  ASSUME LogTypeOK, NEW s, NEW side \in Sides
  PROVE  /\ RebuiltSide(s, side) \in Seq(Entries)
         /\ Sorted(side, RebuiltSide(s, side))
         /\ OrdersOn(RebuiltSide(s, side)) \subseteq Rebuildable
         /\ OrdersOn(RebuiltSide(s, side)) \subseteq RebuildableOn(side)
<1>1. Len(journal) \in Nat /\ DOMAIN journal = 1..Len(journal)
  BY LenProperties DEF LogTypeOK
<1>2. PICK g : Lists(g, s, side, Len(journal)) /\ RebuiltSide(s, side) = g[Len(journal)]
  <2>1. \E g : Lists(g, s, side, Len(journal))
    BY <1>1, ListsExist
  <2>2. Lists(CHOOSE g : Lists(g, s, side, Len(journal)), s, side, Len(journal))
    BY <2>1
  <2> QED
    BY <2>2, RebuiltIsChosen
<1> DEFINE Good(list) == /\ list \in Seq(Entries)
                         /\ Sorted(side, list)
                         /\ OrdersOn(list) \subseteq RebuildableOn(side)
<1>3. Good(<<>>)
  <2>1. <<>> \in Seq(Entries) /\ Len(<<>>) = 0
    BY EmptySeq, LenProperties
  <2> QED
    BY <2>1 DEF Sorted, OrdersOn
<1>4. ASSUME NEW list, Good(list), NEW k \in 1..Len(journal)
      PROVE  Good(RebuildWith(list, journal[k], s, side))
  <2>1. PICK e : e = journal[k]
    OBVIOUS
  <2>2. e \in LogEvents
    BY <2>1, ElementOfSeq DEF LogTypeOK
  <2>3. CASE GoesOnBook(e) /\ e.ticket.symbol = s /\ e.ticket.side = side
    <3>1. PICK b : b = BookEntry(e.order, EffectivePrice(e.ticket), LoggedRemaining(e), e.time)
      OBVIOUS
    <3>2. b \in Entries /\ b.order = e.order
      <4>1. b \in Entries
        BY <2>2, <2>3, <3>1, RebuiltEntry
      <4> QED
        BY <3>1, <4>1 DEF BookEntry
    <3>3. RebuildWith(list, e, s, side) = Insert(side, list, b)
      BY <2>3, <3>1 DEF RebuildWith
    <3>4. /\ Insert(side, list, b) \in Seq(Entries)
          /\ Sorted(side, Insert(side, list, b))
          /\ OrdersOn(Insert(side, list, b)) = OrdersOn(list) \cup {b.order}
      BY <1>4, <3>2, InsertSorted, InsertOrders
    <3>5. b.order \in RebuildableOn(side)
      BY <1>1, <2>1, <2>3, <3>2 DEF RebuildableOn
    <3> QED
      BY <1>4, <2>1, <3>3, <3>4, <3>5
  <2>4. CASE ~(GoesOnBook(e) /\ e.ticket.symbol = s /\ e.ticket.side = side)
    BY <1>4, <2>1, <2>4 DEF RebuildWith
  <2> QED
    BY <2>3, <2>4
<1> HIDE DEF Good
<1> DEFINE I == { k \in Nat : k <= Len(journal) /\ ~Good(g[k]) }
<1>5. I = {}
  <2>1. SUFFICES ASSUME I # {} PROVE FALSE
    OBVIOUS
  <2>2. PICK k \in I : \A i \in I : k <= i
    <3> HIDE DEF I
    <3>1. I \in SUBSET Nat
      BY DEF I
    <3> QED
      BY <2>1, <3>1, NatMinimum
  <2>3. k \in 0..Len(journal) /\ ~Good(g[k])
    BY <1>1, <2>2
  <2>4. g[k] = IF k = 0 THEN <<>> ELSE RebuildWith(g[k - 1], journal[k], s, side)
    BY <1>2, <2>3 DEF Lists
  <2>5. k # 0
    BY <1>3, <2>3, <2>4
  <2>6. Good(g[k - 1])
    <3>1. k - 1 \in Nat /\ k - 1 <= Len(journal) /\ ~(k <= k - 1)
      BY <1>1, <2>3, <2>5
    <3> QED
      BY <2>2, <3>1
  <2>7. k \in 1..Len(journal)
    BY <1>1, <2>3, <2>5
  <2> QED
    BY <1>4, <2>3, <2>4, <2>5, <2>6, <2>7
<1>6. Good(g[Len(journal)])
  BY <1>1, <1>5
<1>7. RebuildableOn(side) \subseteq Rebuildable
  BY DEF RebuildableOn, Rebuildable
<1> QED
  BY <1>2, <1>6, <1>7 DEF Good

-----------------------------------------------------------------------------
(* The end of cold start *)

LEMMA LastEventAt ==
  ASSUME NEW log, NEW n, NEW o, NEW kinds, NEW e, LastEvent(log, n, o, kinds, e)
  PROVE  \E i \in 1..n : /\ log[i] = e /\ e.kind \in kinds /\ e.order = o
                         /\ \A j \in 1..n : log[j].kind \in kinds /\ log[j].order = o => j <= i
BY DEF LastEvent, About

\* Orders that are what a whole log says fit it, if the log fits any orders.
LEMMA ToldFits ==
  ASSUME NEW log \in Seq(LogEvents), NEW old, LogFits(log, old), NEW ords,
         DOMAIN ords = PlacedBy(log, Len(log)),
         ords \in [DOMAIN ords -> Orders],
         \A o \in DOMAIN ords : Told(log, Len(log), o, ords[o])
  PROVE  LogFits(log, ords) /\ FilledHasAll(ords)
<1> DEFINE P == 1..Len(log)
<1>1. Len(log) \in Nat /\ \A i \in P : log[i] \in LogEvents
  BY LenProperties, ElementOfSeq
<1>2. \A i, j \in P : log[i].kind = "placed" /\ log[j].kind = "placed"
                        /\ log[j].order = log[i].order => i = j
  BY DEF LogFits, FitsAt, About
<1>3. \A k, i \in P : /\ k < i /\ log[k].kind = "placed" /\ log[i].kind = "filled"
                      /\ log[i].order = log[k].order /\ log[i].status = "FILLED"
                      => log[i].filled >= log[k].ticket.qty
  BY DEF LogFits, FitsAt, About
<1>4. \A k, i, j \in P :
        /\ k < i /\ i < j /\ log[k].kind = "placed"
        /\ log[i].kind = "filled" /\ log[i].order = log[k].order
        /\ log[j].kind = "filled" /\ log[j].order = log[k].order
        => log[i].filled <= log[j].filled
  BY DEF LogFits, FitsAt, About
<1>5. \A i \in P : log[i].kind = "status" => log[i].status # "FILLED"
  BY DEF LogFits, FitsAt
<1>6. \A k \in P : log[k].kind = "placed" =>
        log[k].order \in DOMAIN ords /\ ords[log[k].order].ticket = log[k].ticket
  <2>1. SUFFICES ASSUME NEW k \in P, log[k].kind = "placed"
                 PROVE  log[k].order \in DOMAIN ords /\ ords[log[k].order].ticket = log[k].ticket
    OBVIOUS
  <2>2. PICK o : o = log[k].order
    OBVIOUS
  <2>3. o \in DOMAIN ords
    BY <2>1, <2>2 DEF PlacedBy
  <2>4. PICK e \in LogEvents : /\ LastEvent(log, Len(log), o, FormEvents, e)
                               /\ ords[o].ticket = e.ticket
    BY <2>3 DEF Told, FormTold
  <2>5. PICK i \in P : log[i] = e /\ e.kind \in FormEvents /\ e.order = o
    BY <2>4, LastEventAt
  <2>6. i = k
    BY <1>2, <2>1, <2>2, <2>5 DEF FormEvents
  <2> QED
    BY <2>2, <2>3, <2>4, <2>5, <2>6
<1>7. ASSUME NEW k \in P, NEW i \in P, k < i, log[k].kind = "placed", log[i].kind = "filled",
             log[i].order = log[k].order
      PROVE  \E j \in P : /\ i <= j /\ log[j].kind = "filled" /\ log[j].order = log[k].order
                          /\ ords[log[k].order].filled = log[j].filled
                          /\ \A m \in P : log[m].kind \in FillEvents
                                            /\ log[m].order = log[k].order => m <= j
  <2>1. PICK o : o = log[k].order
    OBVIOUS
  <2>2. o \in DOMAIN ords
    BY <1>6, <1>7, <2>1
  <2>3. PICK e \in LogEvents : /\ LastEvent(log, Len(log), o, FillEvents, e)
                               /\ ords[o].filled = FilledAfter(e)
    BY <2>2 DEF Told, FilledTold
  <2>4. PICK j \in P : /\ log[j] = e /\ e.kind \in FillEvents /\ e.order = o
                       /\ \A m \in P : log[m].kind \in FillEvents /\ log[m].order = o => m <= j
    BY <2>3, LastEventAt
  <2>5. i <= j
    BY <1>7, <2>1, <2>4 DEF FillEvents
  <2>6. e.kind = "filled"
    <3>1. SUFFICES ASSUME e.kind = "placed" PROVE FALSE
      BY <2>4 DEF FillEvents
    <3>2. j = k
      BY <1>2, <1>7, <2>1, <2>4, <3>1
    <3> QED
      BY <1>1, <1>7, <2>5, <3>2
  <2>7. FilledAfter(e) = e.filled
    BY <2>6 DEF FilledAfter
  <2> QED
    BY <2>1, <2>3, <2>4, <2>5, <2>6, <2>7
<1>8. ASSUME NEW k \in P, NEW i \in P, k < i, log[k].kind = "placed", log[i].kind = "filled",
             log[i].order = log[k].order
      PROVE  log[i].filled <= ords[log[k].order].filled
  <2>1. PICK j \in P : /\ i <= j /\ log[j].kind = "filled" /\ log[j].order = log[k].order
                       /\ ords[log[k].order].filled = log[j].filled
    BY <1>7, <1>8
  <2>2. CASE i = j
    <3>1. log[i].filled \in Nat
      BY <1>1, <1>8, EventFields
    <3> QED
      BY <2>1, <2>2, <3>1
  <2>3. CASE i # j
    <3>1. i < j
      BY <1>1, <2>1, <2>3
    <3> QED
      BY <1>4, <1>8, <2>1, <3>1
  <2> QED
    BY <2>2, <2>3
<1>9. LogFits(log, ords)
  BY <1>2, <1>3, <1>4, <1>5, <1>6, <1>8 DEF LogFits, FitsAt, About
<1>10. ASSUME NEW o \in DOMAIN ords, ords[o].status = "FILLED"
       PROVE  Remaining(ords[o]) <= 0
  <2>1. PICK e \in LogEvents : /\ LastEvent(log, Len(log), o, StatusEvents, e)
                               /\ ords[o].status = StatusAfter(e)
    BY DEF Told, StatusTold
  <2>2. PICK i \in P : /\ log[i] = e /\ e.kind \in StatusEvents /\ e.order = o
                       /\ \A m \in P : log[m].kind \in StatusEvents /\ log[m].order = o => m <= i
    BY <2>1, LastEventAt
  <2>3. e.kind = "filled" /\ e.status = "FILLED"
    BY <1>5, <1>10, <2>1, <2>2 DEF StatusEvents, StatusAfter
  <2>4. PICK k \in P : log[k].kind = "placed" /\ log[k].order = o
    BY DEF PlacedBy
  <2>5. k < i
    <3>1. k <= i
      BY <2>2, <2>4 DEF StatusEvents
    <3>2. k # i
      BY <2>2, <2>3, <2>4
    <3> QED
      BY <1>1, <3>1, <3>2
  <2>6. PICK j \in P : /\ i <= j /\ log[j].kind = "filled" /\ log[j].order = o
                       /\ ords[o].filled = log[j].filled
    BY <1>7, <2>2, <2>3, <2>4, <2>5
  <2>7. i = j
    <3>1. j <= i
      BY <2>2, <2>6 DEF StatusEvents
    <3> QED
      BY <1>1, <2>6, <3>1
  <2>8. ords[o].filled >= log[k].ticket.qty
    BY <1>3, <2>2, <2>3, <2>4, <2>5, <2>6, <2>7
  <2>9. ords[o].ticket = log[k].ticket
    BY <1>6, <2>4
  <2>10. ords[o].filled \in Nat /\ ords[o].ticket.qty \in Nat
    BY DEF Orders, TicketType
  <2> QED
    BY <2>8, <2>9, <2>10 DEF Remaining
<1> QED
  BY <1>9, <1>10 DEF FilledHasAll

\* The rebuilt books are in order, their orders are known; and what the log says
\* is what the orders are, whether or not the pre-flight check passes.
LEMMA RebuildBooksOK ==
  ASSUME RecTypeOK, DownInv, RebuildBooks
  PROVE  /\ RecTypeOK'
         /\ \/ phase' = "up" /\ UpInv'
            \/ phase' = "failed" /\ DownInv'
         /\ phase = "restoring" /\ replayed = Len(journal) /\ orders' = orders
<1>1. /\ phase = "restoring" /\ replayed = Len(journal)
      /\ bids' = [s \in Symbols |-> RebuiltSide(s, "BUY")]
      /\ asks' = [s \in Symbols |-> RebuiltSide(s, "SELL")]
      /\ seen' = Rebuildable
      /\ UNCHANGED <<submission, trades, omsVars, accountVars, appVars,
                     journal, durable, outbox, replayed, lives, holes>>
  BY DEF RebuildBooks, Rebuildable
<1>2. phase' = "up" \/ (phase' = "failed" /\ before' = before)
  BY DEF RebuildBooks
<1>3. /\ LogTypeOK /\ journal \in Seq(LogEvents) /\ Len(journal) \in Nat
      /\ DOMAIN journal = 1..Len(journal)
  BY LenProperties DEF RecTypeOK, LogTypeOK
<1>4. Idle /\ outbox = <<>> /\ ReplayedOrders /\ BeforeOK
  BY DEF DownInv
<1>5. submission = NoSubmission /\ trades = <<>> /\ toFill = {}
  BY <1>4 DEF Idle, MEIdle
<1>6. \A s \in Symbols : /\ RebuiltSide(s, "BUY") \in Seq(Entries)
                         /\ Sorted("BUY", RebuiltSide(s, "BUY"))
                         /\ OrdersOn(RebuiltSide(s, "BUY")) \subseteq Rebuildable
                         /\ RebuiltSide(s, "SELL") \in Seq(Entries)
                         /\ Sorted("SELL", RebuiltSide(s, "SELL"))
                         /\ OrdersOn(RebuiltSide(s, "SELL")) \subseteq Rebuildable
  BY <1>3, RebuiltSideOK DEF Sides
<1>7. Rebuildable \subseteq DOMAIN orders /\ DOMAIN orders \subseteq OrderIds
  <2>1. DOMAIN orders = PlacedBy(journal, Len(journal))
    BY <1>1, <1>4 DEF ReplayedOrders
  <2>2. \A i \in DOMAIN journal : GoesOnBook(journal[i]) => journal[i].kind = "placed"
    BY DEF GoesOnBook
  <2> QED
    BY <1>3, <2>1, <2>2 DEF Rebuildable, PlacedBy, RecTypeOK, TradingOK, OMSTypeOK
<1>8. EngineOK'
  <2>1. METypeOK'
    BY <1>1, <1>6, <1>7 DEF METypeOK, RecTypeOK, TradingOK, EngineOK
  <2>2. BooksSorted' /\ BooksSeen'
    BY <1>1, <1>6 DEF BooksSorted, BooksSeen
  <2>3. TradesSeen'
    <3>1. Len(trades') = 0
      BY <1>1, <1>5, EmptySeq
    <3> QED
      BY <3>1 DEF TradesSeen
  <2> QED
    BY <2>1, <2>2, <2>3 DEF EngineOK
<1>9. TradingOK'
  BY <1>1, <1>7, <1>8 DEF RecTypeOK, TradingOK, OMSTypeOK, AccountTypeOK, AppTypeOK,
                          ScanQuoted, omsVars, accountVars, appVars
<1>10. RecTypeOK'
  BY <1>1, <1>2, <1>3, <1>9 DEF RecTypeOK, LogTypeOK, RestTypeOK
<1>11. orders' = orders /\ toFill' = toFill
  BY <1>1 DEF omsVars, appVars
<1>12. /\ \A o \in DOMAIN orders : Told(journal, Len(journal), o, orders[o])
       /\ LogFits(journal, orders) /\ FilledHasAll(orders)
  <2>1. /\ DOMAIN orders = PlacedBy(journal, Len(journal))
        /\ \A o \in DOMAIN orders : Told(journal, Len(journal), o, orders[o])
    BY <1>1, <1>4 DEF ReplayedOrders
  <2>2. LogFits(journal, before.orders)
    BY <1>4 DEF BeforeOK
  <2>3. orders \in [DOMAIN orders -> Orders]
    BY DEF RecTypeOK, TradingOK, OMSTypeOK
  <2> QED
    BY <1>3, <2>1, <2>2, <2>3, ToldFits
<1>13. ASSUME phase' = "up" PROVE UpInv'
  <2>1. TheLog' = journal
    <3>1. TheLog' = journal \o <<>>
      BY <1>1, <1>4 DEF TheLog
    <3> QED
      BY <1>3, <3>1, ConcatEmptySeq
  <2>2. LogTells(journal, orders)
    BY <1>12 DEF LogTells, OrderTold, Told
  <2>3. LogSound(TheLog, orders, holes)'
    BY <1>11, <1>12, <2>1, <2>2 DEF LogSound
  <2>4. OutboxFills' /\ ScanLeft'
    <3>1. Len(outbox') = 0
      BY <1>1, <1>4, EmptySeq
    <3>2. MEIdle' /\ toFill' = {}
      BY <1>1, <1>5, <1>11 DEF MEIdle
    <3> QED
      BY <3>1, <3>2 DEF OutboxFills, ScanLeft
  <2> QED
    BY <1>11, <1>12, <2>3, <2>4 DEF UpInv
<1>14. ASSUME before' = before PROVE DownInv'
  BY <1>1, <1>4, <1>5, <1>11, <1>14 DEF DownInv, Idle, MEIdle, ReplayedOrders, BeforeOK
<1> QED
  BY <1>1, <1>2, <1>10, <1>11, <1>13, <1>14

-----------------------------------------------------------------------------
(* The invariant, and what follows *)

RecInv ==
  /\ RecTypeOK
  /\ phase = "up" => UpInv
  /\ phase # "up" => DownInv

LEMMA RecStarts ==
  ASSUME RecoveryInit
  PROVE  RecInv
<1>1. /\ Init /\ LogInit /\ outbox = <<>> /\ phase = "up" /\ replayed = 0
      /\ lives = 1 /\ holes = FALSE
  BY DEF RecoveryInit
<1>2. journal = <<>> /\ durable = 0 /\ orders = <<>> /\ toFill = {} /\ trades = <<>>
  BY <1>1 DEF LogInit, Init, OMSInit, MEInit
<1>3. TradingOK
  BY <1>1, TradingInit DEF TradingInv
<1>4. RecTypeOK
  <2>1. journal \in Seq(LogEvents) /\ Len(journal) = 0 /\ outbox \in Seq(LogEvents)
    BY <1>1, <1>2, EmptySeq
  <2>2. LogTypeOK
    BY <1>2, <2>1 DEF LogTypeOK
  <2>3. RestTypeOK
    BY <1>1 DEF RestTypeOK
  <2> QED
    BY <1>3, <2>1, <2>2, <2>3 DEF RecTypeOK
<1>5. UpInv
  <2>1. TheLog = <<>> /\ Len(TheLog) = 0 /\ Len(outbox) = 0
    BY <1>1, <1>2, EmptySeq, ConcatEmptySeq DEF TheLog
  <2>2. LogFits(TheLog, orders)
    BY <2>1 DEF LogFits, FitsAt
  <2>3. LogTells(TheLog, orders) /\ FilledHasAll(orders)
    BY <1>2 DEF LogTells, FilledHasAll
  <2>4. OutboxFills /\ ScanLeft
    BY <1>2, <2>1 DEF OutboxFills, ScanLeft
  <2> QED
    BY <2>2, <2>3, <2>4 DEF UpInv, LogSound
<1> QED
  BY <1>1, <1>4, <1>5 DEF RecInv

\* Handlers run in a process that is up, and leave it up.
LEMMA HandlersPhase ==
  ASSUME LoggedHandlers \/ LoggedContinue
  PROVE  phase' = phase
<1>1. ASSUME NEW first, NEW events, DrainWith(first, events) PROVE phase' = phase
  BY <1>1 DEF DrainWith
<1>2. ASSUME NEW events, PushOnly(events) PROVE phase' = phase
  BY <1>2 DEF PushOnly
<1>3. Silently => phase' = phase
  BY DEF Silently, recVars
<1>4. ASSUME NEW o \in OrderIds, NEW a \in Accounts, NEW t \in Tickets, Place(o, a, t)
      PROVE  phase' = phase
  BY <1>1, <1>4 DEF Place
<1>5. ASSUME NEW a \in Accounts, NEW amount \in Amounts, MoveCash(a, amount)
      PROVE  phase' = phase
  BY <1>2, <1>5 DEF MoveCash
<1>6. SettleLogged => phase' = phase
  BY <1>1 DEF SettleLogged
<1>7. SettleRaisesLogged => phase' = phase
  BY DEF SettleRaisesLogged
<1>8. ASSUME NEW o \in OrderIds, FillAtMarketLogged(o) PROVE phase' = phase
  BY <1>1, <1>8 DEF FillAtMarketLogged
<1>9. CASE LoggedHandlers
  BY <1>1, <1>2, <1>3, <1>4, <1>5, <1>9 DEF LoggedHandlers, CancelRaises
<1>10. CASE LoggedContinue
  BY <1>3, <1>6, <1>7, <1>8, <1>10 DEF LoggedContinue
<1> QED
  BY <1>9, <1>10

LEMMA RecStep ==
  ASSUME RecInv, RecoveryNext
  PROVE  RecInv'
<1>1. CASE phase = "up" /\ (LoggedHandlers \/ LoggedContinue)
  BY <1>1, HandlersUp, HandlersPhase DEF RecInv
<1>2. CASE FlushFails
  <2>1. phase = "up" /\ phase' = phase
    BY <1>2 DEF FlushFails
  <2> QED
    BY <1>2, <2>1, FlushFailsUp DEF RecInv
<1>3. CASE Crash
  BY <1>3, CrashDown DEF RecInv, Crash
<1>4. CASE Shutdown
  BY <1>4, ShutdownDown DEF RecInv, Shutdown
<1>5. CASE StartAgain
  BY <1>5, StartAgainDown DEF RecInv, StartAgain
<1>6. CASE Replay
  BY <1>6, ReplayDown DEF RecInv, Replay
<1>7. CASE ReplayRaises
  BY <1>7, ReplayRaisesDown DEF RecInv, ReplayRaises
<1>8. CASE RebuildBooks
  <2>1. phase = "restoring"
    BY <1>8 DEF RebuildBooks
  <2> QED
    BY <1>8, <2>1, RebuildBooksOK DEF RecInv
<1> QED
  BY <1>1, <1>2, <1>3, <1>4, <1>5, <1>6, <1>7, <1>8 DEF RecoveryNext, ColdStart

LEMMA RecStutter ==
  ASSUME RecInv, UNCHANGED allVars
  PROVE  RecInv'
<1>1. /\ UNCHANGED <<meVars, omsVars, accountVars, appVars>>
      /\ UNCHANGED <<journal, durable, outbox, phase, replayed, lives, before, holes>>
  BY DEF allVars, vars, recVars, histVars
<1>2. TradingOK'
  <2>1. AccountTypeOK' /\ AppTypeOK' /\ ScanQuoted'
    BY <1>1 DEF RecInv, RecTypeOK, TradingOK, AccountTypeOK, AppTypeOK, ScanQuoted,
                accountVars, appVars, omsVars
  <2> QED
    BY <1>1, <2>1, OtherHandlersOK DEF RecInv, RecTypeOK
<1>3. RecTypeOK'
  BY <1>1, <1>2 DEF RecInv, RecTypeOK, LogTypeOK, RestTypeOK
<1>4. orders' = orders /\ toFill' = toFill /\ submission' = submission /\ trades' = trades
  BY <1>1 DEF omsVars, appVars, meVars
<1>5. UpInv => UpInv'
  <2>1. OutboxFills = OutboxFills' /\ ScanLeft = ScanLeft' /\ TheLog = TheLog'
    BY <1>1, <1>4 DEF OutboxFills, ScanLeft, MEIdle, TheLog
  <2> QED
    BY <1>1, <1>4, <2>1 DEF UpInv
<1>6. DownInv => DownInv'
  BY <1>1, <1>4 DEF DownInv, Idle, MEIdle, ReplayedOrders, BeforeOK
<1> QED
  BY <1>1, <1>3, <1>5, <1>6 DEF RecInv

THEOREM RecInvariant == RecoverySpec => []RecInv
<1>1. RecInv /\ [RecoveryNext]_allVars => RecInv'
  BY RecStep, RecStutter
<1> QED
  BY <1>1, RecStarts, PTL DEF RecoverySpec

\* Across any number of crashes, failed writes and restarts the system is well
\* typed, and its books, also those that cold start rebuilt, are in price-time
\* order.
THEOREM RecoveryTypes == RecoverySpec => [](RecTypeOK /\ TypeOK /\ BooksSorted)
<1>1. RecInv => RecTypeOK /\ TypeOK /\ BooksSorted
  BY DEF RecInv, RecTypeOK, TradingOK, EngineOK, TypeOK, AppTypeOK
<1> QED
  BY <1>1, RecInvariant, PTL

\* Only the step that rebuilds the books ends a cold start.
LEMMA RestoredStep ==
  ASSUME RecInv, [RecoveryNext]_allVars, Restored
  PROVE  RebuildBooks /\ DownInv /\ RecTypeOK
<1>1. phase = "restoring" /\ phase' = "up"
  BY DEF Restored
<1>2. ~UNCHANGED allVars
  BY <1>1 DEF allVars, recVars
<1>3. ~FlushFails /\ ~Crash /\ ~Shutdown /\ ~StartAgain /\ ~Replay /\ ~ReplayRaises
  BY <1>1 DEF FlushFails, Crash, Shutdown, StartAgain, Replay, ReplayRaises
<1> QED
  BY <1>1, <1>2, <1>3 DEF RecInv, RecoveryNext, ColdStart

\* What was replayed: each order is what the whole log says of it.
LEMMA RestoredOrders ==
  ASSUME RecInv, [RecoveryNext]_allVars, Restored
  PROVE  /\ orders' = orders
         /\ DOMAIN orders = PlacedBy(journal, Len(journal))
         /\ \A o \in DOMAIN orders : Told(journal, Len(journal), o, orders[o])
         /\ orders \in [DOMAIN orders -> Orders]
         /\ journal \in Seq(LogEvents)
         /\ BeforeOK
<1>1. RebuildBooks /\ DownInv /\ RecTypeOK
  BY RestoredStep
<1>2. replayed = Len(journal) /\ orders' = orders
  BY <1>1, RebuildBooksOK
<1> QED
  BY <1>1, <1>2 DEF DownInv, ReplayedOrders, RecTypeOK, TradingOK, OMSTypeOK, LogTypeOK

LEMMA OrdersRestoredStep ==
  ASSUME RecInv, [RecoveryNext]_allVars, Restored, EndedWell
  PROVE  orders' = before.orders
<1>1. /\ orders' = orders /\ orders \in [DOMAIN orders -> Orders]
      /\ DOMAIN orders = PlacedBy(journal, Len(journal))
      /\ \A o \in DOMAIN orders : Told(journal, Len(journal), o, orders[o])
  BY RestoredOrders
<1>2. PICK old : old = before.orders
  OBVIOUS
<1>3. /\ old \in [DOMAIN old -> Orders] /\ LogFits(journal, old) /\ LogTells(journal, old)
      /\ \A o \in DOMAIN old : ~FillRefused(old[o])
  BY <1>2, RestoredOrders DEF EndedWell, BeforeOK
<1>4. ASSUME NEW o \in DOMAIN old PROVE Told(journal, Len(journal), o, old[o])
  <2>1. old[o].filled \in Nat /\ old[o].ticket.qty \in Nat /\ ~FillRefused(old[o])
    BY <1>3 DEF Orders, TicketType
  <2>2. ~Refused(old[o])
    BY <2>1 DEF Refused, FillRefused, Remaining
  <2> QED
    BY <1>3, <2>2 DEF LogTells, OrderTold, Told
<1>5. DOMAIN old \subseteq DOMAIN orders
  <2>1. SUFFICES ASSUME NEW o \in DOMAIN old PROVE o \in PlacedBy(journal, Len(journal))
    BY <1>1
  <2>2. PICK e \in LogEvents : LastEvent(journal, Len(journal), o, FormEvents, e)
    BY <1>4 DEF Told, FormTold
  <2>3. PICK i \in 1..Len(journal) : journal[i] = e /\ e.kind \in FormEvents /\ e.order = o
    BY <2>2, LastEventAt
  <2> QED
    BY <2>3 DEF PlacedBy, FormEvents
<1>6. DOMAIN orders \subseteq DOMAIN old
  BY <1>1, <1>3 DEF PlacedBy, LogFits, FitsAt
<1>7. \A o \in DOMAIN old : orders[o] = old[o]
  BY <1>1, <1>3, <1>4, <1>5, ToldIsOne
<1>8. orders = old
  BY <1>1, <1>3, <1>5, <1>6, <1>7
<1> QED
  BY <1>1, <1>2, <1>8

\* After an orderly shutdown the orders come back as they were, whatever
\* happened in the lives before: crashes, lost writes, torn placements.
THEOREM OrdersAreRestored == RecoverySpec => OrdersRestored
<1>1. RecInv /\ [RecoveryNext]_allVars
        => [ Restored /\ EndedWell => orders' = before.orders ]_allVars
  BY OrdersRestoredStep
<1> QED
  BY <1>1, RecInvariant, PTL DEF RecoverySpec, OrdersRestored

LEMMA NothingInventedStep ==
  ASSUME RecInv, [RecoveryNext]_allVars, Restored, NEW o \in DOMAIN orders'
  PROVE  /\ o \in DOMAIN before.orders
         /\ orders'[o].ticket = before.orders[o].ticket
         /\ orders'[o].filled <= before.orders[o].filled
<1>1. /\ orders' = orders /\ o \in DOMAIN orders
      /\ Told(journal, Len(journal), o, orders[o]) /\ journal \in Seq(LogEvents)
  BY RestoredOrders
<1>2. PICK old : old = before.orders
  OBVIOUS
<1>3. old \in [DOMAIN old -> Orders] /\ LogFits(journal, old)
  BY <1>2, RestoredOrders DEF BeforeOK
<1>4. Len(journal) \in Nat
  BY <1>1, LenProperties
<1>5. PICK k \in 1..Len(journal) : /\ journal[k].kind = "placed" /\ journal[k].order = o
                                   /\ orders[o].ticket = journal[k].ticket
  <2>1. PICK e \in LogEvents : /\ LastEvent(journal, Len(journal), o, FormEvents, e)
                               /\ orders[o].ticket = e.ticket
    BY <1>1 DEF Told, FormTold
  <2> QED
    BY <2>1, LastEventAt DEF FormEvents
<1>6. o \in DOMAIN old /\ old[o].ticket = journal[k].ticket
  BY <1>3, <1>5 DEF LogFits, FitsAt
<1>7. orders[o].filled <= old[o].filled
  <2>1. PICK e \in LogEvents : /\ LastEvent(journal, Len(journal), o, FillEvents, e)
                               /\ orders[o].filled = FilledAfter(e)
    BY <1>1 DEF Told, FilledTold
  <2>2. PICK j \in 1..Len(journal) :
          /\ journal[j] = e /\ e.kind \in FillEvents /\ e.order = o
          /\ \A m \in 1..Len(journal) : journal[m].kind \in FillEvents /\ journal[m].order = o
                                        => m <= j
    BY <2>1, LastEventAt
  <2>3. CASE e.kind = "placed"
    <3>1. old[o].filled \in Nat
      BY <1>3, <1>6 DEF Orders
    <3> QED
      BY <2>1, <2>3, <3>1 DEF FilledAfter
  <2>4. CASE e.kind = "filled"
    <3>1. k <= j /\ k # j
      BY <1>5, <2>2, <2>4 DEF FillEvents
    <3>2. k < j
      BY <1>4, <3>1
    <3>3. journal[j].filled <= old[o].filled
      BY <1>3, <1>5, <2>2, <2>4, <3>2 DEF LogFits, FitsAt, About
    <3> QED
      BY <2>1, <2>2, <2>4, <3>3 DEF FilledAfter
  <2> QED
    BY <2>2, <2>3, <2>4 DEF FillEvents
<1> QED
  BY <1>1, <1>2, <1>5, <1>6, <1>7

\* However a crash or a failed write cut the log, an order that comes back was
\* there, for the same form, and is filled no further than it was.
THEOREM RecoveryInventsNothing == RecoverySpec => NothingInvented
<1>1. RecInv /\ [RecoveryNext]_allVars
        => [ Restored => \A o \in DOMAIN orders' :
               /\ o \in DOMAIN before.orders
               /\ orders'[o].ticket = before.orders[o].ticket
               /\ orders'[o].filled <= before.orders[o].filled ]_allVars
  BY NothingInventedStep
<1> QED
  BY <1>1, RecInvariant, PTL DEF RecoverySpec, NothingInvented

-----------------------------------------------------------------------------
(* The shares.  Without a deletion in the log, what is replayed moves shares *)
(* and neither creates nor loses any.                                      *)

LEMMA SumOfZeros ==
  ASSUME NEW f, NEW S, IsFiniteSet(S), \A x \in S : f[x] = 0
  PROVE  SumOver(f, S) = 0
<1> DEFINE X == { s \in SUBSET S : SumOver(f, s) # 0 }
<1>1. SUFFICES ASSUME X # {} PROVE FALSE
  OBVIOUS
<1>2. PICK M \in X : \A L \in X : L \subseteq M => L = M
  <2> HIDE DEF X
  <2>1. X \in SUBSET SUBSET S
    BY DEF X
  <2> QED
    BY <1>1, <2>1, MinimalSubset
<1>3. IsFiniteSet(M)
  BY <1>2, FS_Subset
<1>4. M # {}
  <2>1. M = {} => SumOver(f, M) = 0
    BY <1>3, SumStep
  <2> QED
    BY <1>2, <2>1
<1>5. PICK p, P : p = First(M) /\ P = M \ {p}
  OBVIOUS
<1>6. p \in M /\ SumOver(f, M) = f[p] + SumOver(f, P)
  BY <1>3, <1>4, <1>5, SumStep
<1>7. SumOver(f, P) = 0
  BY <1>2, <1>5, <1>6
<1> QED
  BY <1>2, <1>6, <1>7

Harmless == { e \in LogEvents : e.kind # "deleted" }

InitialTotal(s) == SumOver(InitialShares, Accounts \X {s})

\* Of a process that restores, or has failed to: no share appeared or vanished
\* so far.
SharesInv ==
  /\ outbox \in Seq(Harmless)
  /\ deleted = {} => journal \in Seq(Harmless)
  /\ phase # "up" /\ deleted = {} => \A s \in Symbols : TotalShares(s) = InitialTotal(s)

LEMMA ReplayKeepsShares ==
  ASSUME IsFiniteSet(Accounts), AccountTypeOK, NEW e \in Harmless, ApplyToAccounts(e)
  PROVE  \A s \in Symbols : TotalShares(s)' = TotalShares(s)
<1>1. e \in LogEvents /\ e.kind # "deleted"
  BY DEF Harmless
<1>2. ASSUME UNCHANGED accountVars PROVE \A s \in Symbols : TotalShares(s)' = TotalShares(s)
  BY <1>2 DEF accountVars, TotalShares
<1>3. CASE e.kind = "placed"
  <2>1. PICK t \in TicketType, a \in Accounts : t = e.ticket /\ a = e.account
    BY <1>1, <1>3, EventFields
  <2>2. \/ LockFunds(a, e.order, t.symbol, t.side, t.qty, t.price)
        \/ UNCHANGED accountVars
    BY <1>3, <2>1 DEF ApplyToAccounts
  <2> QED
    BY <1>2, <2>1, <2>2, LockFundsConserves DEF Conserved
<1>4. CASE e.kind = "status"
  <2>1. UnlockFunds(e.order) \/ UNCHANGED accountVars
    BY <1>4 DEF ApplyToAccounts
  <2> QED
    BY <1>2, <2>1, UnlockFundsConserves DEF Conserved
<1>5. CASE e.kind = "settlement"
  <2>1. SettleTrade(e.buyer, e.seller, e.buy, e.sell, e.symbol, e.price, e.qty)
    BY <1>5 DEF ApplyToAccounts
  <2>2. /\ e.buyer \in Accounts /\ e.seller \in Accounts /\ e.symbol \in Symbols
        /\ e.price \in Int /\ e.qty \in Int
    BY <1>1, <1>5, EventFields
  <2> QED
    BY <2>1, <2>2, SettleTradeConserves DEF Conserved
<1>6. CASE e.kind = "cash"
  <2>1. DepositCash(e.account, e.amount) \/ WithdrawCash(e.account, -e.amount)
    BY <1>6 DEF ApplyToAccounts
  <2> QED
    BY <2>1 DEF DepositCash, WithdrawCash, TotalShares
<1>7. CASE e.kind \in {"filled", "trade"}
  <2>1. UNCHANGED accountVars
    BY <1>7 DEF ApplyToAccounts
  <2> QED
    BY <1>2, <2>1
<1> QED
  BY <1>1, <1>3, <1>4, <1>5, <1>6, <1>7, EventFields

\* A new process has the initial shares.
LEMMA ProcessShares ==
  ASSUME IsFiniteSet(Accounts), NEW ended, StartProcess(ended)
  PROVE  \A s \in Symbols : TotalShares(s)' = InitialTotal(s)
<1>1. SUFFICES ASSUME NEW s \in Symbols PROVE TotalShares(s)' = InitialTotal(s)
  OBVIOUS
<1>2. PICK S : S = Accounts \X {s}
  OBVIOUS
<1>3. IsFiniteSet(S) /\ S \subseteq Accounts \X Symbols
  BY <1>1, <1>2, FS_Product, FS_Singleton
<1>4. PICK f, h : f = InitialShares /\ h = [p \in Accounts \X Symbols |-> 0]
  OBVIOUS
<1>5. SumOver(h, S) = 0
  BY <1>3, <1>4, SumOfZeros
<1>6. SumOver(f, S) \in Int
  BY <1>3, <1>4, AccountAssumption, SumTakeOut
<1>7. qtyAvailable' = f /\ qtyLocked' = h
  BY <1>4 DEF StartProcess
<1> QED
  BY <1>2, <1>4, <1>5, <1>6, <1>7 DEF TotalShares, InitialTotal

\* What a handler pushes, or leaves in the outbox, is no deletion.
LEMMA PushedHarmless ==
  ASSUME SharesInv, RecTypeOK, NEW pre \in Seq(Harmless), NEW post \in Seq(Harmless),
         Pushed(pre, post), deleted' = deleted
  PROVE  outbox' \in Seq(Harmless) /\ (deleted' = {} => journal' \in Seq(Harmless))
<1>1. outbox \in Seq(Harmless) /\ outbox \o post \in Seq(Harmless)
      /\ (pre \o outbox) \o post \in Seq(Harmless) /\ <<>> \in Seq(Harmless)
  BY ConcatProperties, EmptySeq DEF SharesInv
<1>2. ASSUME deleted = {}
      PROVE  /\ journal \o pre \in Seq(Harmless)
             /\ journal \o ((pre \o outbox) \o post) \in Seq(Harmless)
  BY <1>1, <1>2, ConcatProperties DEF SharesInv
<1> QED
  BY <1>1, <1>2 DEF Pushed

LEMMA HarmlessEvents ==
  /\ \A o \in OrderIds, status \in Statuses : OrderIs(o, status) \in Harmless
  /\ \A b \in OrderIds, s \in OrderIds, q \in Nat : TradeExecuted(b, s, q) \in Harmless
  /\ \A a \in Accounts, amount \in Int : CashDelta(a, amount) \in Harmless
BY DEF OrderIs, TradeExecuted, CashDelta, Harmless, LogEvents

LEMMA HarmlessOfOrders ==
  ASSUME OMSTypeOK', NEW o \in DOMAIN orders'
  PROVE  Placed(o) \in Harmless /\ Filled(o) \in Harmless
<1>1. orders'[o] \in Orders /\ o \in OrderIds
  BY DEF OMSTypeOK
<1> QED
  BY <1>1 DEF Filled, Placed, Harmless, LogEvents, Orders

\* A handler is silent, logs a deletion, or pushes other events around the outbox.
LEMMA HandlersPush ==
  ASSUME RecTypeOK, UpInv, LoggedHandlers \/ LoggedContinue
  PROVE  \/ Silently /\ deleted' = deleted
         \/ deleted' # {} /\ outbox' = outbox
         \/ /\ deleted' = deleted
            /\ \E pre, post \in Seq(Harmless) : Pushed(pre, post)
<1> DEFINE Harmlessly == /\ deleted' = deleted
                         /\ \E pre, post \in Seq(Harmless) : Pushed(pre, post)
<1>1. ASSUME NEW pre \in Seq(Harmless), NEW post \in Seq(Harmless), DrainWith(pre, post),
             deleted' = deleted
      PROVE  Harmlessly
  BY <1>1 DEF DrainWith, Push, Pushed
<1>2. RecTypeOK'
  BY HandlersUp
<1>3. OMSTypeOK /\ OMSTypeOK' /\ TradingOK
  BY <1>2 DEF RecTypeOK, TradingOK
<1>4. ASSUME NEW S, NEW x \in S, NEW y \in S
      PROVE  <<>> \in Seq(S) /\ <<x>> \in Seq(S) /\ <<x, y>> \in Seq(S)
  BY EmptySeq, Pairs
<1>5. {"ACCEPTED", "ROUTED", "REJECTED", "CANCELED"} \subseteq Statuses
  BY DEF Statuses
<1>6. ASSUME NEW o \in OrderIds, NEW a \in Accounts, NEW t \in Tickets, Place(o, a, t)
      PROVE  Harmlessly
  <2>1. o \in DOMAIN orders' /\ deleted' = deleted
    BY <1>6 DEF Place, PlaceRejected, PlaceAccepted, RejectOrder, AcceptAndRoute, Enter, Put,
                appVars
  <2>2. Placed(o) \in Harmless
    BY <1>3, <2>1, HarmlessOfOrders
  <2>3. /\ OrderIs(o, "REJECTED") \in Harmless /\ OrderIs(o, "ACCEPTED") \in Harmless
        /\ OrderIs(o, "ROUTED") \in Harmless
    BY <1>5, HarmlessEvents
  <2>4. /\ <<Placed(o)>> \in Seq(Harmless) /\ <<OrderIs(o, "REJECTED")>> \in Seq(Harmless)
        /\ <<OrderIs(o, "ACCEPTED"), OrderIs(o, "ROUTED")>> \in Seq(Harmless)
    BY <1>4, <2>2, <2>3
  <2> QED
    BY <1>1, <1>6, <2>1, <2>4 DEF Place
<1>7. ASSUME NEW o \in OrderIds, Cancel(o), DrainWith(<<>>, <<OrderIs(o, "CANCELED")>>)
      PROVE  Harmlessly
  <2>1. <<>> \in Seq(Harmless) /\ <<OrderIs(o, "CANCELED")>> \in Seq(Harmless)
    BY <1>4, <1>5, HarmlessEvents
  <2>2. deleted' = deleted
    BY <1>7 DEF Cancel, appVars
  <2> QED
    BY <1>1, <1>7, <2>1, <2>2
<1>8. ASSUME NEW o \in OrderIds, CancelRaises(o)
      PROVE  Silently /\ deleted' = deleted
  BY <1>8 DEF CancelRaises, appVars
<1>9. ASSUME NEW a \in Accounts, NEW amount \in Amounts, MoveCash(a, amount)
      PROVE  Harmlessly
  <2>1. PICK x \in Int : PushOnly(<<CashDelta(a, x)>>)
    <3>1. amount \in Int /\ -amount \in Int
      BY TradingAssumption
    <3> QED
      BY <1>9, <3>1 DEF MoveCash
  <2>2. deleted' = deleted
    BY <1>9 DEF MoveCash, Deposit, Withdraw, appVars
  <2>3. PICK pre : pre = <<CashDelta(a, x)>>
    OBVIOUS
  <2>4. pre \in Seq(Harmless) /\ <<>> \in Seq(Harmless)
    BY <1>4, <2>3, HarmlessEvents
  <2>5. outbox' = outbox \o <<>>
    BY <2>1, ConcatEmptySeq DEF PushOnly, RecTypeOK
  <2>6. Pushed(pre, <<>>)
    BY <2>1, <2>3, <2>5 DEF PushOnly, Push, Pushed
  <2> QED
    BY <2>2, <2>4, <2>6
<1>10. ASSUME NEW a \in Deletable, DeleteUser(a), PushOnly(<<Deleted(a)>>)
       PROVE  deleted' # {} /\ outbox' = outbox
  BY <1>10 DEF DeleteUser, PushOnly
<1>11. ASSUME NEW mode \in EngineModes, SetEngineMode(mode) PROVE deleted' = deleted
  BY <1>11 DEF SetEngineMode
<1>12. ASSUME NEW s \in Symbols, NEW quote \in Quotes, MarketData(s, quote)
       PROVE  deleted' = deleted
  BY <1>12 DEF MarketData
<1>13. MatchStep \/ EndMatchStep => deleted' = deleted
  BY DEF MatchStep, EndMatchStep, appVars
<1>14. CASE SettleLogged
  <2>1. PICK t, b, s, q : t = Head(trades) /\ b = t.buy /\ s = t.sell /\ q = t.qty
    OBVIOUS
  <2>2. /\ trades # <<>> /\ deleted' = deleted /\ FillBoth(b, s, q)
    BY <1>14, <2>1 DEF SettleLogged, Settle, NextTrade, appVars
  <2>3. /\ b \in DOMAIN orders /\ s \in DOMAIN orders /\ q \in Nat
        /\ t.price \in Nat /\ t.symbol \in Symbols
    BY <1>3, <2>1, <2>2, TradeParties
  <2>4. DOMAIN orders' = DOMAIN orders
    BY <1>3, <2>2, <2>3, BothFilled DEF UpInv, Filling
  <2>5. b \in OrderIds /\ s \in OrderIds
    BY <1>3, <2>3 DEF OMSTypeOK
  <2>6. TradeExecuted(b, s, q) \in Harmless /\ Filled(b) \in Harmless /\ Filled(s) \in Harmless
    BY <1>3, <2>3, <2>4, <2>5, HarmlessEvents, HarmlessOfOrders
  <2>7. Settlement(t) \in Harmless
    <3>1. Settlement(t) \in LogEvents
      BY <1>3, <2>1, <2>3, SettlementIsEvent
    <3> QED
      BY <3>1 DEF Settlement, Harmless
  <2>8. PICK pre, post : /\ pre = <<TradeExecuted(b, s, q), Settlement(t)>>
                         /\ post = <<Filled(b), Filled(s)>>
    OBVIOUS
  <2>9. pre \in Seq(Harmless) /\ post \in Seq(Harmless)
    BY <1>4, <2>6, <2>7, <2>8
  <2>10. Pushed(pre, post)
    <3>1. DrainWith(pre, post) \/ (Push(pre) /\ outbox' = outbox \o post)
      BY <1>14, <2>1, <2>8 DEF SettleLogged
    <3> QED
      BY <3>1 DEF DrainWith, Push, Pushed
  <2> QED
    BY <2>2, <2>9, <2>10
<1>15. CASE SettleRaisesLogged
  <2>1. PICK t, b, s, q : t = Head(trades) /\ b = t.buy /\ s = t.sell /\ q = t.qty
    OBVIOUS
  <2>2. /\ SettleRaises /\ trades # <<>> /\ deleted' = deleted
        /\ FillBothRaising(b, s, q) /\ TradeRaises(b, s, q)
    BY <1>15, <2>1 DEF SettleRaisesLogged, SettleRaises, appVars
  <2>3. b \in DOMAIN orders /\ s \in DOMAIN orders /\ q \in Nat \ {0}
    BY <1>3, <2>1, <2>2, TradeParties
  <2>4. DOMAIN orders' = DOMAIN orders
    BY <1>3, <2>2, <2>3, BothFilledRaising DEF UpInv, Filling
  <2>5. b \in OrderIds /\ s \in OrderIds
    BY <1>3, <2>3 DEF OMSTypeOK
  <2>6. TradeExecuted(b, s, q) \in Harmless /\ Filled(b) \in Harmless
    BY <1>3, <2>3, <2>4, <2>5, HarmlessEvents, HarmlessOfOrders
  <2>7. PICK pre, post : /\ pre = <<TradeExecuted(b, s, q)>>
                         /\ post = IF FillRaises(orders[b], q) THEN <<>> ELSE <<Filled(b)>>
    OBVIOUS
  <2>8. pre \in Seq(Harmless) /\ post \in Seq(Harmless)
    BY <1>4, <2>6, <2>7
  <2>9. Pushed(pre, post)
    BY <1>15, <2>1, <2>7 DEF SettleRaisesLogged, Push, Pushed
  <2> QED
    BY <2>2, <2>8, <2>9
<1>16. ASSUME NEW o \in OrderIds, FillAtMarketLogged(o)
       PROVE  Harmlessly
  <2>1. PICK q : q = Remaining(orders[o])
    OBVIOUS
  <2>2. FillAtMarket(o) /\ deleted' = deleted /\ o \in toFill /\ o \in DOMAIN orders
    BY <1>3, <1>16 DEF FillAtMarketLogged, FillAtMarket, TradingOK, AppTypeOK
  <2>3. q \in Nat
    BY <1>3, <2>1, <2>2 DEF UpInv, ScanLeft, OMSTypeOK, Orders, TicketType, Remaining
  <2>4. DOMAIN orders' = DOMAIN orders
    BY <2>2 DEF FillAtMarket, FillFromMarket
  <2>5. TradeExecuted(o, o, q) \in Harmless /\ Filled(o) \in Harmless
    BY <1>3, <2>2, <2>3, <2>4, HarmlessEvents, HarmlessOfOrders
  <2>6. PICK pre, post : pre = <<TradeExecuted(o, o, q)>> /\ post = <<Filled(o)>>
    OBVIOUS
  <2>7. pre \in Seq(Harmless) /\ post \in Seq(Harmless)
    BY <1>4, <2>5, <2>6
  <2>8. DrainWith(pre, post)
    BY <1>16, <2>1, <2>6 DEF FillAtMarketLogged
  <2> QED
    BY <1>1, <2>2, <2>7, <2>8
<1> HIDE DEF Harmlessly
<1>17. CASE LoggedHandlers
  <2>1. Harmlessly \/ (Silently /\ deleted' = deleted) \/ (deleted' # {} /\ outbox' = outbox)
    BY <1>6, <1>7, <1>8, <1>9, <1>10, <1>11, <1>12, <1>17 DEF LoggedHandlers
  <2> QED
    BY <2>1 DEF Harmlessly
<1>18. CASE \E o \in OrderIds : FillAtMarketLogged(o)
  <2>1. Harmlessly
    BY <1>16, <1>18
  <2> QED
    BY <2>1 DEF Harmlessly
<1>19. CASE LoggedContinue
  BY <1>13, <1>14, <1>15, <1>18, <1>19 DEF LoggedContinue
<1> QED
  BY <1>17, <1>19

LEMMA CutHarmless ==
  ASSUME SharesInv, LogTypeOK, NEW n \in durable..Len(journal), Cut(n), deleted' = deleted,
         deleted' = {}
  PROVE  journal' \in Seq(Harmless)
<1>1. /\ journal \in Seq(Harmless) /\ Len(journal) \in Nat
      /\ n \in 0..Len(journal) /\ journal' = SubSeq(journal, 1, n)
  BY LenProperties DEF SharesInv, LogTypeOK, Cut
<1>2. \A i \in 1..n : journal[i] \in Harmless
  BY <1>1, ElementOfSeq
<1> QED
  BY <1>1, <1>2, SubSeqProperties

LEMMA SharesStep ==
  ASSUME IsFiniteSet(Accounts), RecInv, SharesInv, [RecoveryNext]_allVars
  PROVE  SharesInv'
<1> USE DEF InitialTotal
<1>1. CASE phase = "up" /\ (LoggedHandlers \/ LoggedContinue)
  <2>1. phase' = "up" /\ RecTypeOK /\ UpInv
    BY <1>1, HandlersPhase DEF RecInv
  <2>2. CASE Silently /\ deleted' = deleted
    BY <2>1, <2>2 DEF SharesInv, Silently, recVars
  <2>3. CASE deleted' # {} /\ outbox' = outbox
    BY <2>1, <2>3 DEF SharesInv
  <2>4. CASE deleted' = deleted /\ \E pre, post \in Seq(Harmless) : Pushed(pre, post)
    BY <2>1, <2>4, PushedHarmless DEF SharesInv
  <2> QED
    BY <1>1, <2>1, <2>2, <2>3, <2>4, HandlersPush
<1>2. CASE FlushFails
  <2>1. PICK n \in durable..Len(journal) : Cut(n)
    <3>1. PICK n \in durable..Len(journal) - 1 : Cut(n)
      BY <1>2 DEF FlushFails
    <3>2. n \in durable..Len(journal)
      BY LenProperties DEF RecInv, RecTypeOK, LogTypeOK
    <3> QED
      BY <3>1, <3>2
  <2>2. phase' = "up" /\ outbox' = outbox /\ deleted' = deleted
    BY <1>2 DEF FlushFails, vars, appVars
  <2>3. deleted' = {} => journal' \in Seq(Harmless)
    BY <2>1, <2>2, CutHarmless DEF RecInv, RecTypeOK
  <2> QED
    BY <2>2, <2>3 DEF SharesInv
<1>3. CASE Crash \/ Shutdown \/ StartAgain
  <2>1. PICK ended : StartProcess(ended)
    BY <1>3 DEF Crash, Shutdown, StartAgain
  <2>2. outbox' = <<>> /\ outbox' \in Seq(Harmless) /\ deleted' = deleted
    BY <2>1, EmptySeq DEF StartProcess
  <2>3. \A s \in Symbols : TotalShares(s)' = InitialTotal(s)
    BY <2>1, ProcessShares
  <2>4. deleted' = {} => journal' \in Seq(Harmless)
    <3>1. CASE StartAgain
      BY <2>2, <3>1 DEF StartAgain, SharesInv
    <3>2. CASE Crash \/ Shutdown
      <4>1. PICK n \in durable..Len(journal) : Cut(n)
        <5>1. Len(journal) \in durable..Len(journal)
          BY LenProperties DEF RecInv, RecTypeOK, LogTypeOK
        <5> QED
          BY <3>2, <5>1 DEF Crash, Shutdown
      <4> QED
        BY <2>2, <4>1, CutHarmless DEF RecInv, RecTypeOK
    <3> QED
      BY <1>3, <3>1, <3>2
  <2> QED
    BY <2>2, <2>3, <2>4 DEF SharesInv
<1>4. CASE Replay
  <2>1. PICK e : e = journal[replayed + 1]
    OBVIOUS
  <2>2. /\ phase = "restoring" /\ phase' = phase /\ replayed < Len(journal)
        /\ ApplyToAccounts(e) /\ UNCHANGED <<journal, outbox, deleted>>
    BY <1>4, <2>1 DEF Replay, appVars
  <2>3. ASSUME deleted = {} PROVE e \in Harmless
    <3>1. journal \in Seq(Harmless) /\ replayed + 1 \in 1..Len(journal)
      BY <2>2, <2>3, LenProperties
         DEF SharesInv, RecInv, RecTypeOK, LogTypeOK, DownInv, ReplayedOrders
    <3> QED
      BY <2>1, <3>1, ElementOfSeq
  <2>4. AccountTypeOK
    BY DEF RecInv, RecTypeOK, TradingOK
  <2>5. deleted = {} => \A s \in Symbols : TotalShares(s)' = TotalShares(s)
    BY <2>2, <2>3, <2>4, ReplayKeepsShares
  <2> QED
    BY <2>2, <2>5 DEF SharesInv
<1>5. CASE ReplayRaises
  BY <1>5 DEF ReplayRaises, SharesInv, vars, accountVars, appVars, TotalShares
<1>6. CASE RebuildBooks
  BY <1>6 DEF RebuildBooks, SharesInv, accountVars, appVars, TotalShares
<1>7. CASE UNCHANGED allVars
  BY <1>7 DEF allVars, recVars, vars, accountVars, appVars, SharesInv, TotalShares
<1> QED
  BY <1>1, <1>2, <1>3, <1>4, <1>5, <1>6, <1>7 DEF RecoveryNext, ColdStart

\* Wherever crashes and failed writes cut the log, the accounts that cold start
\* rebuilds hold together the shares there were in the beginning, unless a user was
\* deleted or the log has a trade of Engine A, whose settlement it lacks.
THEOREM SharesSurviveRestarts ==
  RecoverySpec /\ IsFiniteSet(Accounts) => SharesSurvive
<1>1. RecoveryInit => SharesInv
  <2>1. RecoveryInit => outbox = <<>> /\ journal = <<>> /\ phase = "up"
    BY DEF RecoveryInit, LogInit
  <2> QED
    BY <2>1, EmptySeq DEF SharesInv
<1>2. IsFiniteSet(Accounts) /\ RecInv /\ SharesInv /\ [RecoveryNext]_allVars => SharesInv'
  BY SharesStep
<1>3. RecInv /\ SharesInv /\ [RecoveryNext]_allVars
        => [ Restored /\ deleted = {} /\ ~EngineAFillLogged =>
               \A s \in Symbols :
                 TotalShares(s)' = SumOver(InitialShares, Accounts \X {s}) ]_allVars
  <2>1. SUFFICES ASSUME RecInv, SharesInv, [RecoveryNext]_allVars, Restored, deleted = {},
                        NEW s \in Symbols
                 PROVE  TotalShares(s)' = SumOver(InitialShares, Accounts \X {s})
    OBVIOUS
  <2>2. RebuildBooks
    BY <2>1, RestoredStep
  <2>3. TotalShares(s)' = TotalShares(s) /\ phase = "restoring"
    BY <2>2 DEF RebuildBooks, accountVars, TotalShares
  <2> QED
    BY <2>1, <2>3 DEF SharesInv, InitialTotal
<1> DEFINE F == IsFiniteSet(Accounts)
<1>4. F => F'
  OBVIOUS
<1>5. F /\ RecInv /\ SharesInv /\ [RecoveryNext]_allVars => SharesInv'
  BY <1>2
<1> HIDE DEF F
<1>6. RecoverySpec /\ F => [](RecInv /\ SharesInv)
  BY <1>1, <1>4, <1>5, RecInvariant, PTL DEF RecoverySpec
<1>7. RecoverySpec /\ F => SharesSurvive
  BY <1>3, <1>6, PTL DEF RecoverySpec, SharesSurvive
<1> QED
  BY <1>7 DEF F

-----------------------------------------------------------------------------
(* The accounts.  ApplyToAccounts as a function of the accounts: x is a     *)
(* value of accountVars.                                                   *)

LockableIn(x, a, s, side, qty, price) ==
  IF side = "BUY" THEN price # NoPrice /\ x[1][a] >= price * qty ELSE x[3][<<a, s>>] >= qty

LockedIn(x, a, o, s, side, qty, price) ==
  LET cost == IF side = "BUY" THEN price * qty ELSE 0
      shares == IF side = "BUY" THEN 0 ELSE qty
  IN  << [x[1] EXCEPT ![a] = @ - cost],
         [x[2] EXCEPT ![a] = @ + cost],
         [x[3] EXCEPT ![<<a, s>>] = @ - shares],
         [x[4] EXCEPT ![<<a, s>>] = @ + shares],
         Put(x[5], o, [account |-> a, side |-> side, symbol |-> s, cash |-> cost, qty |-> qty]) >>

UnlockedIn(x, o) ==
  IF o \notin DOMAIN x[5] THEN x
  ELSE LET lock == x[5][o]
           shares == IF lock.side = "BUY" THEN 0 ELSE lock.qty
           cash == IF lock.side = "BUY" THEN lock.cash ELSE 0
       IN  << [x[1] EXCEPT ![lock.account] = @ + cash],
              [x[2] EXCEPT ![lock.account] = @ - cash],
              [x[3] EXCEPT ![<<lock.account, lock.symbol>>] = @ + shares],
              [x[4] EXCEPT ![<<lock.account, lock.symbol>>] = @ - shares],
              Drop(x[5], o) >>

SettledIn(x, e) ==
  LET cost == e.price * e.qty
  IN  << [x[1] EXCEPT ![e.seller] = @ + cost],
         [x[2] EXCEPT ![e.buyer] = @ - cost],
         [x[3] EXCEPT ![<<e.buyer, e.symbol>>] = @ + e.qty],
         [x[4] EXCEPT ![<<e.seller, e.symbol>>] = @ - e.qty],
         ReduceLock(ReduceLock(x[5], e.buy, cost, 0), e.sell, 0, e.qty) >>

CashMovedIn(x, a, amount) ==
  << IF amount > 0 THEN [x[1] EXCEPT ![a] = @ + amount] ELSE [x[1] EXCEPT ![a] = @ - (-amount)],
     x[2], x[3], x[4], x[5] >>

DeletedIn(x, a) ==
  << [x[1] EXCEPT ![a] = 0],
     [x[2] EXCEPT ![a] = 0],
     [p \in Accounts \X Symbols |-> IF p[1] = a THEN 0 ELSE x[3][p]],
     [p \in Accounts \X Symbols |-> IF p[1] = a THEN 0 ELSE x[4][p]],
     Restrict(x[5], { o \in DOMAIN x[5] : x[5][o].account # a }) >>

Applied(x, e) ==
  CASE e.kind = "placed" ->
         LET t == e.ticket
         IN  IF LockableIn(x, e.account, t.symbol, t.side, t.qty, t.price)
             THEN LockedIn(x, e.account, e.order, t.symbol, t.side, t.qty, t.price)
             ELSE x
    [] e.kind = "status" /\ e.status \in {"REJECTED", "CANCELED"} -> UnlockedIn(x, e.order)
    [] e.kind = "settlement" -> SettledIn(x, e)
    [] e.kind = "cash" -> CashMovedIn(x, e.account, e.amount)
    [] e.kind = "deleted" -> DeletedIn(x, e.account)
    [] OTHER -> x

LEMMA LockFundsIs ==
  ASSUME NEW a, NEW o, NEW s, NEW side, NEW qty, NEW price,
         LockFunds(a, o, s, side, qty, price)
  PROVE  accountVars' = LockedIn(accountVars, a, o, s, side, qty, price)
BY DEF LockFunds, LockedIn, accountVars

LEMMA CanLockIs ==
  ASSUME NEW a, NEW s, NEW side, NEW qty, NEW price
  PROVE  CanLock(a, s, side, qty, price) <=> LockableIn(accountVars, a, s, side, qty, price)
BY DEF CanLock, LockableIn, accountVars

LEMMA UnlockFundsIs ==
  ASSUME NEW o, UnlockFunds(o)
  PROVE  accountVars' = UnlockedIn(accountVars, o)
BY DEF UnlockFunds, UnlockedIn, accountVars, HasLock

LEMMA SettleTradeIs ==
  ASSUME NEW e, SettleTrade(e.buyer, e.seller, e.buy, e.sell, e.symbol, e.price, e.qty)
  PROVE  accountVars' = SettledIn(accountVars, e)
BY DEF SettleTrade, SettledIn, accountVars

LEMMA CashIs ==
  ASSUME NEW a, NEW amount
  PROVE  /\ amount > 0 /\ DepositCash(a, amount) => accountVars' = CashMovedIn(accountVars, a, amount)
         /\ ~(amount > 0) /\ WithdrawCash(a, -amount)
              => accountVars' = CashMovedIn(accountVars, a, amount)
BY DEF DepositCash, WithdrawCash, CashMovedIn, accountVars

LEMMA DeleteAccountIs ==
  ASSUME NEW a, DeleteAccount(a)
  PROVE  accountVars' = DeletedIn(accountVars, a)
BY DEF DeleteAccount, DeletedIn, accountVars

\* What each kind of event does.
LEMMA AppliedKinds ==
  ASSUME NEW x, NEW e \in LogEvents
  PROVE  /\ e.kind = "placed" =>
              Applied(x, e) = IF LockableIn(x, e.account, e.ticket.symbol, e.ticket.side, e.ticket.qty, e.ticket.price)
                THEN LockedIn(x, e.account, e.order, e.ticket.symbol, e.ticket.side, e.ticket.qty, e.ticket.price)
                ELSE x
         /\ e.kind = "status" =>
              Applied(x, e) = IF e.status \in {"REJECTED", "CANCELED"} THEN UnlockedIn(x, e.order)
                              ELSE x
         /\ e.kind = "settlement" => Applied(x, e) = SettledIn(x, e)
         /\ e.kind = "cash" => Applied(x, e) = CashMovedIn(x, e.account, e.amount)
         /\ e.kind = "deleted" => Applied(x, e) = DeletedIn(x, e.account)
         /\ e.kind \in {"filled", "trade"} => Applied(x, e) = x
BY DEF Applied

LEMMA ReplayApplies ==
  ASSUME NEW e \in LogEvents, ApplyToAccounts(e)
  PROVE  accountVars' = Applied(accountVars, e)
<1>1. CASE e.kind = "placed"
  BY <1>1, AppliedKinds, CanLockIs, LockFundsIs DEF ApplyToAccounts
<1>2. CASE e.kind = "status"
  BY <1>2, AppliedKinds, UnlockFundsIs DEF ApplyToAccounts
<1>3. CASE e.kind = "settlement"
  <2>1. SettleTrade(e.buyer, e.seller, e.buy, e.sell, e.symbol, e.price, e.qty)
    BY <1>3 DEF ApplyToAccounts
  <2> QED
    BY <1>3, <2>1, AppliedKinds, SettleTradeIs
<1>4. CASE e.kind = "cash"
  BY <1>4, AppliedKinds, CashIs DEF ApplyToAccounts
<1>5. CASE e.kind = "deleted"
  BY <1>5, AppliedKinds, DeleteAccountIs DEF ApplyToAccounts
<1>6. CASE e.kind \in {"filled", "trade"}
  BY <1>6, AppliedKinds DEF ApplyToAccounts
<1> QED
  BY <1>1, <1>2, <1>3, <1>4, <1>5, <1>6, EventFields

FreshAccounts ==
  << [a \in Accounts |-> InitialCash], [a \in Accounts |-> 0], InitialShares,
     [p \in Accounts \X Symbols |-> 0], <<>> >>

\* The first n events of the log, replayed, leave the accounts y; h is what each
\* of them leaves.
LeadsBy(h, log, n, y) ==
  /\ h[0] = FreshAccounts
  /\ \A i \in 1..n : h[i] = Applied(h[i - 1], log[i])
  /\ h[n] = y

Leads(log, n, y) == \E h : LeadsBy(h, log, n, y)

LEMMA LeadsStart == ASSUME NEW log PROVE Leads(log, 0, FreshAccounts)
<1>1. PICK h : h = [i \in {0} |-> FreshAccounts]
  OBVIOUS
<1>2. LeadsBy(h, log, 0, FreshAccounts)
  BY <1>1 DEF LeadsBy
<1> QED
  BY <1>2 DEF Leads

\* The same first events leave the same accounts.
LEMMA LeadsSame ==
  ASSUME NEW log, NEW more, NEW n \in Nat, NEW y, Leads(log, n, y),
         \A i \in 1..n : more[i] = log[i]
  PROVE  Leads(more, n, y)
BY DEF Leads, LeadsBy

\* Going on from n to m: h says what each further event leaves.
LEMMA LeadsOn ==
  ASSUME NEW log, NEW n \in Nat, NEW m \in Nat, n <= m, NEW y, Leads(log, n, y),
         NEW g, g[n] = y, \A i \in n + 1 .. m : g[i] = Applied(g[i - 1], log[i])
  PROVE  Leads(log, m, g[m])
<1>1. PICK h : LeadsBy(h, log, n, y)
  BY DEF Leads
<1>2. PICK f : f = [i \in 0..m |-> IF i <= n THEN h[i] ELSE g[i]]
  OBVIOUS
<1>3. /\ \A i \in 0..n : f[i] = h[i]
      /\ \A i \in n..m : f[i] = g[i]
  BY <1>1, <1>2 DEF LeadsBy
<1>4. f[0] = FreshAccounts /\ f[m] = g[m]
  BY <1>1, <1>3 DEF LeadsBy
<1>5. ASSUME NEW i \in 1..m PROVE f[i] = Applied(f[i - 1], log[i])
  <2>1. CASE i <= n
    <3>1. i \in 0..n /\ i - 1 \in 0..n /\ i \in 1..n
      BY <2>1
    <3> QED
      BY <1>1, <1>3, <3>1 DEF LeadsBy
  <2>2. CASE ~(i <= n)
    <3>1. i \in n..m /\ i - 1 \in n..m /\ i \in n + 1 .. m
      BY <2>2
    <3> QED
      BY <1>3, <3>1
  <2> QED
    BY <2>1, <2>2
<1>6. LeadsBy(f, log, m, g[m])
  BY <1>4, <1>5 DEF LeadsBy
<1> QED
  BY <1>6 DEF Leads

LEMMA LeadsNext ==
  ASSUME NEW log, NEW n \in Nat, NEW y, Leads(log, n, y)
  PROVE  Leads(log, n + 1, Applied(y, log[n + 1]))
<1>1. PICK g : g = [i \in n .. n + 1 |-> IF i = n THEN y ELSE Applied(y, log[n + 1])]
  OBVIOUS
<1>2. g[n] = y /\ g[n + 1] = Applied(y, log[n + 1])
  BY <1>1
<1>3. \A i \in n + 1 .. n + 1 : g[i] = Applied(g[i - 1], log[i])
  <2>1. \A i \in n + 1 .. n + 1 : i = n + 1 /\ i - 1 = n
    OBVIOUS
  <2> QED
    BY <1>2, <2>1
<1>4. Leads(log, n + 1, g[n + 1])
  BY <1>2, <1>3, LeadsOn
<1> QED
  BY <1>2, <1>4

\* A log leaves one state of the accounts.
LEMMA LeadsToOne ==
  ASSUME NEW log, NEW n \in Nat, NEW y, NEW z, Leads(log, n, y), Leads(log, n, z)
  PROVE  y = z
<1>1. PICK g : LeadsBy(g, log, n, y)
  BY DEF Leads
<1>2. PICK h : LeadsBy(h, log, n, z)
  BY DEF Leads
<1> DEFINE I == { i \in 0..n : g[i] # h[i] }
<1>3. I = {}
  <2>1. SUFFICES ASSUME I # {} PROVE FALSE
    OBVIOUS
  <2>2. PICK k \in I : \A i \in I : k <= i
    <3> HIDE DEF I
    <3>1. I \in SUBSET Nat
      BY DEF I
    <3> QED
      BY <2>1, <3>1, NatMinimum
  <2>3. k \in 0..n /\ g[k] # h[k]
    BY <2>2
  <2>4. k # 0
    BY <1>1, <1>2, <2>3 DEF LeadsBy
  <2>5. k \in 1..n /\ k - 1 \in 0..n /\ ~(k <= k - 1)
    BY <2>3, <2>4
  <2>6. g[k - 1] = h[k - 1]
    BY <2>2, <2>5
  <2> QED
    BY <1>1, <1>2, <2>3, <2>5, <2>6 DEF LeadsBy
<1> QED
  BY <1>1, <1>2, <1>3 DEF LeadsBy

\* Every first part of a log that can be replayed can.
LEMMA LeadsBefore ==
  ASSUME NEW log, NEW n \in Nat, NEW y, Leads(log, n, y), NEW m \in 0..n
  PROVE  \E z : Leads(log, m, z)
<1>1. PICK h : LeadsBy(h, log, n, y)
  BY DEF Leads
<1>2. LeadsBy(h, log, m, h[m])
  BY <1>1 DEF LeadsBy
<1> QED
  BY <1>2 DEF Leads

\* The events of d turn the accounts y into z, with their k-th event.
EffectAt(d, k, y, z) ==
  \A i \in 1..Len(d) :
    /\ i < k => Applied(y, d[i]) = y
    /\ i = k => Applied(y, d[i]) = z
    /\ i > k => Applied(z, d[i]) = z

Effect(d, y, z) == \E k \in Nat : EffectAt(d, k, y, z) /\ (k \in 1..Len(d) \/ y = z)

LEMMA LeadsThrough ==
  ASSUME NEW S, NEW log \in Seq(S), NEW d \in Seq(S), NEW more, more = log \o d,
         NEW y, NEW z, Leads(log, Len(log), y), Effect(d, y, z)
  PROVE  /\ Leads(more, Len(more), z)
         /\ \A m \in Nat : \A x : m \in Len(log) .. Len(more) /\ Leads(more, m, x) => x \in {y, z}
<1>1. PICK n \in Nat, l \in Nat : n = Len(log) /\ l = Len(d) /\ Len(more) = n + l
  BY LenProperties, ConcatProperties
<1>2. /\ \A i \in 1..n : more[i] = log[i]
      /\ \A i \in 1..l : more[n + i] = d[i]
  BY <1>1, ConcatProperties
<1>3. PICK k \in Nat : EffectAt(d, k, y, z) /\ (k \in 1..l \/ y = z)
  BY <1>1 DEF Effect
<1>4. PICK g : g = [i \in n .. n + l |-> IF i < n + k THEN y ELSE z]
  OBVIOUS
<1>5. g[n] = y
  BY <1>3, <1>4
<1>6. ASSUME NEW i \in n + 1 .. n + l PROVE g[i] = Applied(g[i - 1], more[i])
  <2>1. PICK j \in 1..l : i = n + j
    <3>1. i - n \in 1..l /\ i = n + (i - n)
      OBVIOUS
    <3> QED
      BY <3>1
  <2>2. /\ j < k => Applied(y, more[i]) = y
        /\ j = k => Applied(y, more[i]) = z
        /\ j > k => Applied(z, more[i]) = z
    BY <1>1, <1>2, <1>3, <2>1 DEF EffectAt
  <2>3. i \in n .. n + l /\ i - 1 \in n .. n + l
    BY <2>1
  <2>4. g[i] = (IF j < k THEN y ELSE z) /\ g[i - 1] = (IF j - 1 < k THEN y ELSE z)
    BY <1>4, <2>1, <2>3
  <2>5. CASE j < k
    <3>1. g[i] = y /\ g[i - 1] = y
      BY <2>4, <2>5
    <3> QED
      BY <2>2, <2>5, <3>1, Zenon
  <2>6. CASE j = k
    <3>1. g[i] = z /\ g[i - 1] = y
      BY <2>4, <2>6
    <3> QED
      BY <2>2, <2>6, <3>1, Zenon
  <2>7. CASE j > k
    <3>1. g[i] = z /\ g[i - 1] = z
      BY <2>4, <2>7
    <3> QED
      BY <2>2, <2>7, <3>1
  <2>8. j < k \/ j = k \/ j > k
    OBVIOUS
  <2> QED
    BY <2>5, <2>6, <2>7, <2>8, Zenon
<1>7. Leads(more, n, y)
  BY <1>1, <1>2, LeadsSame
<1>8. ASSUME NEW m \in n .. n + l PROVE Leads(more, m, g[m])
  <2>1. m \in Nat /\ n <= m /\ \A i \in n + 1 .. m : i \in n + 1 .. n + l
    OBVIOUS
  <2>2. \A i \in n + 1 .. m : g[i] = Applied(g[i - 1], more[i])
    BY <1>6, <2>1
  <2> QED
    BY <1>5, <1>7, <2>1, <2>2, LeadsOn
<1>9. g[n + l] = z
  <2>1. g[n + l] = IF l < k THEN y ELSE z
    BY <1>4
  <2> QED
    BY <1>3, <2>1
<1>10. Leads(more, Len(more), z)
  <2>1. n + l \in n .. n + l
    OBVIOUS
  <2> QED
    BY <1>1, <1>8, <1>9, <2>1
<1>11. ASSUME NEW m \in Nat, NEW x, m \in Len(log) .. Len(more), Leads(more, m, x)
       PROVE  x \in {y, z}
  <2>1. m \in n .. n + l
    BY <1>1, <1>11
  <2>2. x = g[m]
    BY <1>8, <1>11, <2>1, LeadsToOne
  <2> QED
    BY <1>4, <2>1, <2>2
<1> QED
  BY <1>10, <1>11

\* No event of d changes the accounts x.
Still(d, x) == \A i \in 1..Len(d) : Applied(x, d[i]) = x

LEMMA EffectOfParts ==
  ASSUME NEW S, NEW a \in Seq(S), NEW b \in Seq(S), NEW y, NEW z
  PROVE  /\ Still(a, y) /\ Still(b, y) => Still(a \o b, y)
         /\ Effect(a, y, z) /\ Still(b, z) => Effect(a \o b, y, z)
         /\ Still(a, y) /\ Effect(b, y, z) => Effect(a \o b, y, z)
<1>0. PICK d : d = a \o b
  OBVIOUS
<1>1. PICK n \in Nat, l \in Nat : /\ n = Len(a) /\ l = Len(b) /\ Len(d) = n + l
                                  /\ \A i \in 1..n : d[i] = a[i]
                                  /\ \A j \in 1..l : d[n + j] = b[j]
  <2>1. /\ Len(a) \in Nat /\ Len(b) \in Nat /\ Len(d) = Len(a) + Len(b)
        /\ \A i \in 1 .. Len(a) : d[i] = a[i]
        /\ \A j \in 1 .. Len(b) : d[Len(a) + j] = b[j]
    BY <1>0, LenProperties, ConcatProperties
  <2> QED
    BY <2>1
<1>2. ASSUME NEW i \in 1 .. n + l, ~(i <= n)
      PROVE  \E j \in 1..l : i = n + j
  <2>1. i - n \in 1..l /\ i = n + (i - n)
    BY <1>2
  <2> QED
    BY <2>1
<1>3. ASSUME Still(a, y), Still(b, y) PROVE Still(d, y)
  <2>1. ASSUME NEW i \in 1 .. n + l PROVE Applied(y, d[i]) = y
    <3>1. CASE i <= n
      BY <1>1, <1>3, <3>1 DEF Still
    <3>2. CASE ~(i <= n)
      <4>1. PICK j \in 1..l : i = n + j
        BY <1>2, <3>2
      <4> QED
        BY <1>1, <1>3, <4>1 DEF Still
    <3> QED
      BY <3>1, <3>2
  <2> QED
    BY <1>1, <2>1 DEF Still
<1>4. ASSUME Effect(a, y, z), Still(b, z) PROVE Effect(d, y, z)
  <2>1. PICK k \in Nat : EffectAt(a, k, y, z) /\ (k \in 1..n \/ y = z)
    BY <1>1, <1>4 DEF Effect
  <2>2. PICK m \in Nat : m = (IF k \in 1..n THEN k ELSE 0)
    OBVIOUS
  <2>3. EffectAt(a, m, y, z) /\ (m \in 1..n \/ (m = 0 /\ y = z))
    <3>1. CASE k \in 1..n
      BY <2>1, <2>2, <3>1
    <3>2. CASE k \notin 1..n
      <4>1. y = z /\ m = 0
        BY <2>1, <2>2, <3>2
      <4>2. \A i \in 1..n : Applied(y, a[i]) = y
        <5>1. \A i \in 1..n : i < k \/ i = k \/ i > k
          OBVIOUS
        <5> QED
          BY <1>1, <2>1, <4>1, <5>1 DEF EffectAt
      <4> QED
        BY <1>1, <4>1, <4>2 DEF EffectAt
    <3> QED
      BY <3>1, <3>2
  <2>4. ASSUME NEW i \in 1 .. n + l
        PROVE  /\ i < m => Applied(y, d[i]) = y
               /\ i = m => Applied(y, d[i]) = z
               /\ i > m => Applied(z, d[i]) = z
    <3>1. CASE i <= n
      BY <1>1, <2>3, <3>1 DEF EffectAt
    <3>2. CASE ~(i <= n)
      <4>1. PICK j \in 1..l : i = n + j
        BY <1>2, <3>2
      <4>2. Applied(z, d[i]) = z
        BY <1>1, <1>4, <4>1 DEF Still
      <4>3. ~(i < m) /\ i # m
        BY <2>3, <3>2
      <4> QED
        BY <4>2, <4>3
    <3> QED
      BY <3>1, <3>2
  <2>5. EffectAt(d, m, y, z)
    BY <1>1, <2>4 DEF EffectAt
  <2>6. m \in 1 .. n + l \/ y = z
    BY <2>3
  <2> QED
    BY <1>1, <2>5, <2>6 DEF Effect
<1>5. ASSUME Still(a, y), Effect(b, y, z) PROVE Effect(d, y, z)
  <2>1. PICK k \in Nat : EffectAt(b, k, y, z) /\ (k \in 1..l \/ y = z)
    BY <1>1, <1>5 DEF Effect
  <2>2. ASSUME NEW i \in 1 .. n + l
        PROVE  /\ i < n + k => Applied(y, d[i]) = y
               /\ i = n + k => Applied(y, d[i]) = z
               /\ i > n + k => Applied(z, d[i]) = z
    <3>1. CASE i <= n
      <4>1. Applied(y, d[i]) = y
        BY <1>1, <1>5, <3>1 DEF Still
      <4>2. ~(i > n + k)
        BY <3>1
      <4>3. i = n + k => k = 0
        BY <3>1
      <4>4. k = 0 => y = z
        BY <2>1
      <4> QED
        BY <4>1, <4>2, <4>3, <4>4
    <3>2. CASE ~(i <= n)
      <4>1. PICK j \in 1..l : i = n + j
        BY <1>2, <3>2
      <4>2. d[i] = b[j]
        BY <1>1, <4>1
      <4>3. (i < n + k <=> j < k) /\ (i = n + k <=> j = k) /\ (i > n + k <=> j > k)
        BY <4>1
      <4> QED
        BY <1>1, <2>1, <4>2, <4>3 DEF EffectAt
    <3> QED
      BY <3>1, <3>2
  <2>3. EffectAt(d, n + k, y, z)
    BY <1>1, <2>2 DEF EffectAt
  <2>4. n + k \in 1 .. n + l \/ y = z
    BY <2>1
  <2> QED
    BY <1>1, <2>3, <2>4 DEF Effect
<1> QED
  BY <1>0, <1>3, <1>4, <1>5

LEMMA StillHasNoEffect ==
  ASSUME NEW S, NEW d \in Seq(S), NEW y, Still(d, y)
  PROVE  Effect(d, y, y)
<1>1. EffectAt(d, 0, y, y)
  BY DEF Still, EffectAt
<1> QED
  BY <1>1 DEF Effect

LEMMA EffectOfOne ==
  ASSUME NEW e, NEW y
  PROVE  Effect(<<e>>, y, Applied(y, e)) /\ (Applied(y, e) = y => Still(<<e>>, y))
<1>1. PICK d : d = <<e>>
  OBVIOUS
<1>2. Len(d) = 1 /\ d[1] = e /\ \A i \in 1..1 : i = 1
  BY <1>1
<1>3. EffectAt(d, 1, y, Applied(y, e))
  BY <1>2 DEF EffectAt
<1>4. Applied(y, e) = y => Still(d, y)
  BY <1>2 DEF Still
<1> QED
  BY <1>1, <1>2, <1>3, <1>4 DEF Effect

LEMMA StillTwo ==
  ASSUME NEW e, NEW f, NEW y, Applied(y, e) = y, Applied(y, f) = y
  PROVE  Still(<<e, f>>, y)
<1>1. PICK d : d = <<e, f>>
  OBVIOUS
<1>2. Len(d) = 2 /\ d[1] = e /\ d[2] = f /\ \A i \in 1..2 : i = 1 \/ i = 2
  BY <1>1
<1> QED
  BY <1>1, <1>2 DEF Still

LEMMA EffectOfSecond ==
  ASSUME NEW e, NEW f, NEW y, Applied(y, e) = y
  PROVE  Effect(<<e, f>>, y, Applied(y, f))
<1>1. PICK d : d = <<e, f>>
  OBVIOUS
<1>2. Len(d) = 2 /\ d[1] = e /\ d[2] = f /\ \A i \in 1..2 : i = 1 \/ i = 2
  BY <1>1
<1>3. EffectAt(d, 2, y, Applied(y, f))
  BY <1>2 DEF EffectAt
<1> QED
  BY <1>1, <1>2, <1>3 DEF Effect

LEMMA StillEmpty == ASSUME NEW y PROVE Still(<<>>, y)
BY DEF Still

\* Fills and trades change no account.
LEMMA FillsAreStill ==
  ASSUME NEW d \in Seq(LogEvents), \A i \in 1..Len(d) : d[i].kind \in {"filled", "trade"}, NEW y
  PROVE  Still(d, y)
BY ElementOfSeq, AppliedKinds DEF Still

LEMMA OutboxIsStill ==
  ASSUME RecTypeOK, OutboxFills, NEW y
  PROVE  Still(outbox, y)
BY FillsAreStill DEF RecTypeOK, OutboxFills

-----------------------------------------------------------------------------
\* Lock records are of orders that are known.
LocksKnown == DOMAIN locks \subseteq DOMAIN orders

LEMMA ReduceLockDomain ==
  ASSUME NEW f, NEW o, NEW cash, NEW qty
  PROVE  DOMAIN ReduceLock(f, o, cash, qty) \subseteq DOMAIN f
BY DEF ReduceLock, Drop, Restrict

LEMMA LocksStayKnown ==
  ASSUME NEW known, DOMAIN locks \subseteq known
  PROVE  /\ \A o : UnlockFunds(o) => DOMAIN locks' \subseteq known
         /\ \A a, o, s, side, qty, price :
              LockFunds(a, o, s, side, qty, price) => DOMAIN locks' \subseteq known \cup {o}
         /\ \A b, c, x, y, s, price, qty :
              SettleTrade(b, c, x, y, s, price, qty) => DOMAIN locks' \subseteq known
         /\ \A a, o, s, side, price, qty :
              SettleMarketTrade(a, o, s, side, price, qty) => DOMAIN locks' \subseteq known
         /\ \A a : DeleteAccount(a) => DOMAIN locks' \subseteq known
<1>1. ASSUME NEW o, UnlockFunds(o) PROVE DOMAIN locks' \subseteq known
  BY <1>1 DEF UnlockFunds, Drop, Restrict, accountVars
<1>2. ASSUME NEW a, NEW o, NEW s, NEW side, NEW qty, NEW price, LockFunds(a, o, s, side, qty, price)
      PROVE  DOMAIN locks' \subseteq known \cup {o}
  BY <1>2 DEF LockFunds, Put
<1>3. ASSUME NEW b, NEW c, NEW x, NEW y, NEW s, NEW price, NEW qty, SettleTrade(b, c, x, y, s, price, qty)
      PROVE  DOMAIN locks' \subseteq known
  <2>1. PICK cost : cost = price * qty
    OBVIOUS
  <2>2. locks' = ReduceLock(ReduceLock(locks, x, cost, 0), y, 0, qty)
    BY <1>3, <2>1 DEF SettleTrade
  <2> QED
    BY <2>2, ReduceLockDomain
<1>4. ASSUME NEW a, NEW o, NEW s, NEW side, NEW price, NEW qty, SettleMarketTrade(a, o, s, side, price, qty)
      PROVE  DOMAIN locks' \subseteq known
  <2>1. locks' = Drop(locks, o)
    BY <1>4 DEF SettleMarketTrade
  <2> QED
    BY <2>1 DEF Drop, Restrict
<1>5. ASSUME NEW a, DeleteAccount(a) PROVE DOMAIN locks' \subseteq known
  BY <1>5 DEF DeleteAccount, Restrict
<1> QED
  BY <1>1, <1>2, <1>3, <1>4, <1>5

\* A placement that a crash tore: nothing ever answers it.
Torn(o) == o \in DOMAIN orders /\ orders[o].status = "PENDING"

\* What a handler pushes has on replay the effect that it had.
LoggedEffect ==
  \E d \in Seq(LogEvents) : /\ journal' = journal \o d
                            /\ Effect(d, accountVars, accountVars')

LEMMA DrainEffect ==
  ASSUME RecTypeOK, OutboxFills, NEW pre \in Seq(LogEvents), NEW post \in Seq(LogEvents),
         Pushed(pre, post),
         \/ Effect(pre, accountVars, accountVars') /\ Still(post, accountVars')
         \/ /\ journal' = journal \o (pre \o outbox \o post)
            /\ Still(pre, accountVars) /\ Effect(post, accountVars, accountVars')
  PROVE  LoggedEffect
<1>1. PICK y, z : y = accountVars /\ z = accountVars'
  OBVIOUS
<1>2. Still(outbox, y) /\ Still(outbox, z) /\ outbox \in Seq(LogEvents)
  BY OutboxIsStill DEF RecTypeOK
<1>3. pre \o outbox \in Seq(LogEvents) /\ (pre \o outbox) \o post \in Seq(LogEvents)
  BY <1>2, ConcatProperties
<1>4. CASE Effect(pre, y, z) /\ Still(post, z)
  <2>1. Effect(pre \o outbox, y, z)
    BY <1>2, <1>4, EffectOfParts
  <2>2. Effect((pre \o outbox) \o post, y, z)
    BY <1>3, <1>4, <2>1, EffectOfParts
  <2> QED
    BY <1>1, <1>3, <1>4, <2>2 DEF Pushed, LoggedEffect
<1>5. CASE /\ journal' = journal \o (pre \o outbox \o post)
           /\ Still(pre, y) /\ Effect(post, y, z)
  <2>1. Still(pre \o outbox, y)
    BY <1>2, <1>5, EffectOfParts
  <2>2. Effect((pre \o outbox) \o post, y, z)
    BY <1>3, <1>5, <2>1, EffectOfParts
  <2> QED
    BY <1>1, <1>3, <1>5, <2>2 DEF LoggedEffect
<1> QED
  BY <1>1, <1>4, <1>5

LEMMA SilentEffect ==
  ASSUME RecTypeOK, Silently, UNCHANGED accountVars
  PROVE  LoggedEffect
<1>1. Still(<<>>, accountVars) /\ <<>> \in Seq(LogEvents)
  BY StillEmpty, EmptySeq
<1>2. Effect(<<>>, accountVars, accountVars')
  BY <1>1, StillHasNoEffect
<1>3. journal' = journal \o <<>>
  BY ConcatEmptySeq DEF Silently, recVars, RecTypeOK, LogTypeOK
<1> QED
  BY <1>1, <1>2, <1>3 DEF LoggedEffect

LEMMA PlaceEffect ==
  ASSUME RecTypeOK, RecTypeOK', UpInv, LocksKnown, NEW o \in OrderIds, NEW a \in Accounts, NEW t \in Tickets,
         Place(o, a, t)
  PROVE  LocksKnown' /\ LoggedEffect
<1>1. /\ o \notin DOMAIN orders
      /\ DOMAIN orders' = DOMAIN orders \cup {o}
      /\ orders'[o].account = a /\ orders'[o].ticket = t
  BY DEF Place, PlaceRejected, PlaceAccepted, RejectOrder, AcceptAndRoute, Enter, Put
<1>2. PICK e : e = Placed(o)
  OBVIOUS
<1>3. e \in LogEvents /\ e.kind = "placed" /\ e.order = o /\ e.account = a /\ e.ticket = t
  <2>1. e \in Harmless
    BY <1>1, <1>2, HarmlessOfOrders DEF RecTypeOK, TradingOK
  <2> QED
    BY <1>1, <1>2, <2>1 DEF Harmless, Placed
<1>4. PICK f, g, r : f = OrderIs(o, "ACCEPTED") /\ g = OrderIs(o, "ROUTED") /\ r = OrderIs(o, "REJECTED")
  OBVIOUS
<1>5. /\ f \in LogEvents /\ g \in LogEvents /\ r \in LogEvents
      /\ f.kind = "status" /\ f.status = "ACCEPTED"
      /\ g.kind = "status" /\ g.status = "ROUTED"
      /\ r.kind = "status" /\ r.status = "REJECTED" /\ r.order = o
  BY <1>4 DEF OrderIs, LogEvents, Statuses
<1>6. /\ <<e>> \in Seq(LogEvents) /\ <<r>> \in Seq(LogEvents)
      /\ <<f, g>> \in Seq(LogEvents)
  BY <1>3, <1>5, Pairs
<1>7. UpInv => OutboxFills
  BY DEF UpInv
<1>8. CASE PlaceRejected(o, a, t) /\ DrainWith(<<e>>, <<r>>)
  <2>1. UNCHANGED accountVars
    BY <1>8 DEF PlaceRejected
  <2>2. ~LockableIn(accountVars, a, t.symbol, t.side, t.qty, t.price)
    BY <1>8, CanLockIs DEF PlaceRejected
  <2>3. Applied(accountVars, e) = accountVars
    BY <1>3, <2>2, AppliedKinds
  <2>4. Applied(accountVars, r) = accountVars
    <3>1. accountVars[5] = locks
      BY DEF accountVars
    <3>2. UnlockedIn(accountVars, o) = accountVars
      BY <1>1, <3>1 DEF UnlockedIn, LocksKnown
    <3> QED
      BY <1>5, <3>2, AppliedKinds
  <2>5. Effect(<<e>>, accountVars, accountVars')
    BY <2>1, <2>3, EffectOfOne
  <2>6. Still(<<r>>, accountVars')
    BY <2>1, <2>4, EffectOfOne
  <2>7. Pushed(<<e>>, <<r>>)
    BY <1>8 DEF DrainWith, Push, Pushed
  <2>8. locks' = locks
    BY <2>1 DEF accountVars
  <2> QED
    BY <1>1, <1>6, <1>7, <2>5, <2>6, <2>7, <2>8, DrainEffect DEF LocksKnown
<1>9. CASE PlaceAccepted(o, a, t) /\ DrainWith(<<e>>, <<f, g>>)
  <2>1. LockFunds(a, o, t.symbol, t.side, t.qty, t.price)
    BY <1>9 DEF PlaceAccepted
  <2>2. CanLock(a, t.symbol, t.side, t.qty, t.price)
    BY <2>1 DEF LockFunds
  <2>3. LockableIn(accountVars, a, t.symbol, t.side, t.qty, t.price)
    BY <2>2, CanLockIs
  <2>4. Applied(accountVars, e) = accountVars'
    BY <1>3, <2>1, <2>3, AppliedKinds, LockFundsIs
  <2>5. Applied(accountVars', f) = accountVars' /\ Applied(accountVars', g) = accountVars'
    BY <1>5, AppliedKinds
  <2>6. Effect(<<e>>, accountVars, accountVars')
    BY <2>4, EffectOfOne
  <2>7. Still(<<f, g>>, accountVars')
    BY <2>5, StillTwo
  <2>8. Pushed(<<e>>, <<f, g>>)
    BY <1>9 DEF DrainWith, Push, Pushed
  <2>9. LocksKnown'
    BY <1>1, <2>1, LocksStayKnown DEF LocksKnown
  <2> QED
    BY <1>6, <1>7, <2>6, <2>7, <2>8, <2>9, DrainEffect
<1> QED
  BY <1>2, <1>4, <1>8, <1>9 DEF Place

LEMMA CancelEffect ==
  ASSUME RecTypeOK, UpInv, LocksKnown, NEW o \in OrderIds, Cancel(o),
         DrainWith(<<>>, <<OrderIs(o, "CANCELED")>>)
  PROVE  LocksKnown' /\ LoggedEffect
<1>1. PICK r : r = OrderIs(o, "CANCELED")
  OBVIOUS
<1>2. r \in LogEvents /\ r.kind = "status" /\ r.status = "CANCELED" /\ r.order = o
  BY <1>1 DEF OrderIs, LogEvents, Statuses
<1>3. UnlockFunds(o) /\ DOMAIN orders' = DOMAIN orders
  BY DEF Cancel, CancelOrder
<1>4. Applied(accountVars, r) = accountVars'
  BY <1>2, <1>3, AppliedKinds, UnlockFundsIs
<1>5. Effect(<<r>>, accountVars, accountVars') /\ Still(<<>>, accountVars)
  BY <1>4, EffectOfOne, StillEmpty
<1>6. <<r>> \in Seq(LogEvents) /\ <<>> \in Seq(LogEvents)
  BY <1>2, Pairs, EmptySeq
<1>7. journal' = journal \o (<<>> \o outbox \o <<r>>) /\ Pushed(<<>>, <<r>>)
  BY <1>1 DEF DrainWith, Push, Pushed
<1>8. LocksKnown'
  BY <1>3, LocksStayKnown DEF LocksKnown
<1> QED
  BY <1>5, <1>6, <1>7, <1>8, DrainEffect DEF UpInv

\* One event is pushed at once.
LEMMA PushEffect ==
  ASSUME RecTypeOK, NEW e \in LogEvents, PushOnly(<<e>>), Applied(accountVars, e) = accountVars'
  PROVE  LoggedEffect
<1>1. <<e>> \in Seq(LogEvents) /\ Effect(<<e>>, accountVars, accountVars')
  BY Pairs, EffectOfOne
<1> QED
  BY <1>1 DEF PushOnly, Push, LoggedEffect

LEMMA MoveCashEffect ==
  ASSUME RecTypeOK, LocksKnown, NEW a \in Accounts, NEW amount \in Amounts, MoveCash(a, amount)
  PROVE  LocksKnown' /\ LoggedEffect
<1>1. amount \in Int /\ amount > 0 /\ -amount \in Int /\ ~(-amount > 0) /\ -(-amount) = amount
  BY TradingAssumption
<1>2. ASSUME NEW x \in Int
      PROVE  /\ CashDelta(a, x) \in LogEvents /\ CashDelta(a, x).kind = "cash"
             /\ CashDelta(a, x).account = a /\ CashDelta(a, x).amount = x
  BY DEF CashDelta, LogEvents
<1>3. CASE Deposit(a, amount) /\ PushOnly(<<CashDelta(a, amount)>>)
  <2>1. DepositCash(a, amount) /\ locks' = locks /\ orders' = orders
    BY <1>3 DEF Deposit, DepositCash, omsVars
  <2>2. Applied(accountVars, CashDelta(a, amount)) = accountVars'
    BY <1>1, <1>2, <2>1, AppliedKinds, CashIs
  <2> QED
    BY <1>1, <1>2, <1>3, <2>1, <2>2, PushEffect DEF LocksKnown
<1>4. CASE Withdraw(a, amount) /\ PushOnly(<<CashDelta(a, -amount)>>)
  <2>1. WithdrawCash(a, amount) /\ locks' = locks /\ orders' = orders
    BY <1>4 DEF Withdraw, WithdrawCash, omsVars
  <2>2. Applied(accountVars, CashDelta(a, -amount)) = accountVars'
    <3>1. PICK x \in Int : x = -amount
      BY <1>1
    <3>2. ~(x > 0) /\ WithdrawCash(a, -x)
      BY <1>1, <2>1, <3>1
    <3>3. Applied(accountVars, CashDelta(a, x)) = accountVars'
      BY <1>2, <3>2, AppliedKinds, CashIs
    <3> QED
      BY <3>1, <3>3
  <2> QED
    BY <1>1, <1>2, <1>4, <2>1, <2>2, PushEffect DEF LocksKnown
<1> QED
  BY <1>3, <1>4 DEF MoveCash

LEMMA DeleteUserEffect ==
  ASSUME RecTypeOK, LocksKnown, NEW a \in Accounts, DeleteUser(a), PushOnly(<<Deleted(a)>>)
  PROVE  LocksKnown' /\ LoggedEffect
<1>1. /\ Deleted(a) \in LogEvents /\ Deleted(a).kind = "deleted" /\ Deleted(a).account = a
  BY DEF Deleted, LogEvents
<1>2. DeleteAccount(a) /\ orders' = orders
  BY DEF DeleteUser, omsVars
<1>3. Applied(accountVars, Deleted(a)) = accountVars'
  BY <1>1, <1>2, AppliedKinds, DeleteAccountIs
<1>4. LocksKnown'
  BY <1>2, LocksStayKnown DEF LocksKnown
<1> QED
  BY <1>1, <1>3, <1>4, PushEffect

LEMMA SettleEffect ==
  ASSUME RecTypeOK, RecTypeOK', UpInv, LocksKnown, SettleLogged
  PROVE  LocksKnown' /\ LoggedEffect
<1>1. PICK t, b, s, q : t = Head(trades) /\ b = t.buy /\ s = t.sell /\ q = t.qty
  OBVIOUS
<1>2. /\ trades # <<>> /\ FillBoth(b, s, q)
      /\ SettleTrade(orders[b].account, orders[s].account, b, s, t.symbol, t.price, q)
  BY <1>1 DEF SettleLogged, Settle, NextTrade
<1>3. /\ b \in DOMAIN orders /\ s \in DOMAIN orders /\ q \in Nat
      /\ t.price \in Nat /\ t.symbol \in Symbols /\ OMSTypeOK /\ OMSTypeOK'
  BY <1>1, <1>2, TradeParties DEF RecTypeOK, TradingOK
<1>4. DOMAIN orders' = DOMAIN orders
  BY <1>2, <1>3, BothFilled DEF UpInv, Filling
<1>5. LocksKnown'
  BY <1>2, <1>4, LocksStayKnown DEF LocksKnown
<1>6. PICK e, f, x, y : /\ e = TradeExecuted(b, s, q) /\ f = Settlement(t)
                        /\ x = Filled(b) /\ y = Filled(s)
  OBVIOUS
<1>7. b \in OrderIds /\ s \in OrderIds
  BY <1>3 DEF OMSTypeOK
<1>8. /\ e \in LogEvents /\ f \in LogEvents /\ x \in LogEvents /\ y \in LogEvents
      /\ e.kind = "trade" /\ x.kind = "filled" /\ y.kind = "filled" /\ f.kind = "settlement"
  <2>1. e \in Harmless /\ x \in Harmless /\ y \in Harmless
    BY <1>3, <1>4, <1>6, <1>7, HarmlessEvents, HarmlessOfOrders
  <2>2. f \in LogEvents
    BY <1>1, <1>3, <1>6, SettlementIsEvent
  <2> QED
    BY <1>6, <2>1, <2>2 DEF Harmless, TradeExecuted, Filled, Settlement
<1>9. Applied(accountVars, f) = accountVars'
  <2>1. /\ f.buyer = orders[b].account /\ f.seller = orders[s].account /\ f.buy = b /\ f.sell = s
        /\ f.symbol = t.symbol /\ f.price = t.price /\ f.qty = q
    BY <1>1, <1>6 DEF Settlement
  <2>2. SettleTrade(f.buyer, f.seller, f.buy, f.sell, f.symbol, f.price, f.qty)
    BY <1>2, <2>1
  <2> QED
    BY <1>8, <2>2, AppliedKinds, SettleTradeIs
<1>10. PICK pre, post : pre = <<e, f>> /\ post = <<x, y>>
  OBVIOUS
<1>11. pre \in Seq(LogEvents) /\ post \in Seq(LogEvents)
  BY <1>8, <1>10, Pairs
<1>12. Effect(pre, accountVars, accountVars')
  <2>1. Applied(accountVars, e) = accountVars
    BY <1>8, AppliedKinds
  <2> QED
    BY <1>9, <1>10, <2>1, EffectOfSecond
<1>13. Still(post, accountVars')
  BY <1>8, <1>10, AppliedKinds, StillTwo
<1>14. Pushed(pre, post)
  <2>1. DrainWith(pre, post) \/ (Push(pre) /\ outbox' = outbox \o post)
    BY <1>1, <1>6, <1>10 DEF SettleLogged
  <2> QED
    BY <2>1 DEF DrainWith, Push, Pushed
<1> QED
  BY <1>5, <1>11, <1>12, <1>13, <1>14, DrainEffect DEF UpInv

LEMMA SettleRaisesEffect ==
  ASSUME RecTypeOK, RecTypeOK', UpInv, LocksKnown, SettleRaisesLogged
  PROVE  LocksKnown' /\ LoggedEffect
<1>1. PICK t, b, s, q : t = Head(trades) /\ b = t.buy /\ s = t.sell /\ q = t.qty
  OBVIOUS
<1>2. /\ SettleRaises /\ trades # <<>> /\ UNCHANGED accountVars
      /\ FillBothRaising(b, s, q) /\ TradeRaises(b, s, q)
  BY <1>1 DEF SettleRaisesLogged, SettleRaises
<1>3. /\ b \in DOMAIN orders /\ s \in DOMAIN orders /\ q \in Nat \ {0}
      /\ OMSTypeOK /\ OMSTypeOK'
  BY <1>1, <1>2, TradeParties DEF RecTypeOK, TradingOK
<1>4. DOMAIN orders' = DOMAIN orders
  BY <1>2, <1>3, BothFilledRaising DEF UpInv, Filling
<1>5. LocksKnown'
  BY <1>2, <1>4 DEF LocksKnown, accountVars
<1>6. PICK e : e = TradeExecuted(b, s, q)
  OBVIOUS
<1>7. e \in LogEvents /\ e.kind = "trade"
  <2>1. b \in OrderIds /\ s \in OrderIds
    BY <1>3 DEF OMSTypeOK
  <2> QED
    BY <1>3, <1>6, <2>1 DEF TradeExecuted, LogEvents
<1>8. journal' = journal \o <<e>>
  BY <1>1, <1>6 DEF SettleRaisesLogged, Push
<1>9. Applied(accountVars, e) = accountVars'
  BY <1>2, <1>7, AppliedKinds
<1>10. <<e>> \in Seq(LogEvents) /\ Effect(<<e>>, accountVars, accountVars')
  BY <1>7, <1>9, Pairs, EffectOfOne
<1> QED
  BY <1>5, <1>8, <1>10 DEF LoggedEffect

\* Every handler logs what it does to the accounts, unless it fills an order from
\* the market or cancels a torn one.
LEMMA HandlersEffect ==
  ASSUME RecTypeOK, UpInv, LocksKnown, LoggedHandlers \/ LoggedContinue
  PROVE  /\ LocksKnown'
         /\ LoggedEffect \/ (\E o \in OrderIds : Torn(o) /\ Torn(o)') \/ EngineAFillLogged'
<1>1. RecTypeOK'
  BY HandlersUp
<1> DEFINE Good == LocksKnown' /\ LoggedEffect
<1>2. ASSUME UNCHANGED accountVars, Silently, DOMAIN orders' = DOMAIN orders PROVE Good
  BY <1>2, SilentEffect DEF LocksKnown, accountVars
<1>3. ASSUME NEW o \in OrderIds, CancelRaises(o)
      PROVE  LocksKnown' /\ Torn(o) /\ Torn(o)'
  <2>1. /\ o \in DOMAIN orders /\ IsCancelable(orders[o])
        /\ ~CanTransition(orders[o].status, "CANCELED") /\ UnlockFunds(o) /\ orders' = orders
    BY <1>3 DEF CancelRaises, omsVars
  <2>2. orders[o].status = "PENDING"
    BY <2>1 DEF IsCancelable, IsOpen, CanTransition, Transitions
  <2>3. LocksKnown'
    BY <2>1, LocksStayKnown DEF LocksKnown
  <2> QED
    BY <2>1, <2>2, <2>3 DEF Torn
<1>4. ASSUME NEW mode \in EngineModes, SetEngineMode(mode), Silently PROVE Good
  BY <1>2, <1>4 DEF SetEngineMode, omsVars
<1>5. ASSUME NEW s \in Symbols, NEW quote \in Quotes, MarketData(s, quote), Silently PROVE Good
  BY <1>2, <1>5 DEF MarketData, omsVars
<1>6. ASSUME MatchStep \/ EndMatchStep, Silently PROVE Good
  BY <1>2, <1>6 DEF MatchStep, EndMatchStep, omsVars
<1>7. ASSUME NEW o \in OrderIds, FillAtMarketLogged(o)
      PROVE  LocksKnown' /\ EngineAFillLogged'
  <2>1. PICK q : q = Remaining(orders[o])
    OBVIOUS
  <2>2. /\ DOMAIN orders' = DOMAIN orders
        /\ \E a, s, side, price, qty : SettleMarketTrade(a, o, s, side, price, qty)
    BY <1>7 DEF FillAtMarketLogged, FillAtMarket, FillFromMarket
  <2>3. LocksKnown'
    BY <2>2, LocksStayKnown DEF LocksKnown
  <2>4. PICK e, post : e = TradeExecuted(o, o, q) /\ post = <<Filled(o)>>
    OBVIOUS
  <2>5. e.kind = "trade" /\ e.buy = e.sell
    BY <2>4 DEF TradeExecuted
  <2>6. journal' = journal \o (<<e>> \o outbox \o post)
    BY <1>7, <2>1, <2>4 DEF FillAtMarketLogged, DrainWith, Push
  <2>7. e \in LogEvents /\ post \in Seq(LogEvents)
    <3>1. o \in DOMAIN orders /\ orders[o] \in Orders /\ q \in Nat
      BY <1>7, <2>1 DEF FillAtMarketLogged, FillAtMarket, RecTypeOK, TradingOK, AppTypeOK, UpInv, ScanLeft,
                        OMSTypeOK, Orders, TicketType, Remaining
    <3>2. Filled(o) \in LogEvents
      BY <1>1, <2>2, <3>1, HarmlessOfOrders DEF Harmless, RecTypeOK, TradingOK
    <3> QED
      BY <2>4, <3>1, <3>2, Pairs DEF TradeExecuted, LogEvents
  <2>8. PICK n \in Nat : n = Len(journal) + 1 /\ n \in DOMAIN journal' /\ journal'[n] = e
    <3>1. PICK a, b : a = <<e>> \o outbox /\ b = a \o post
      OBVIOUS
    <3>2. <<e>> \in Seq(LogEvents) /\ Len(<<e>>) = 1 /\ <<e>>[1] = e
      BY <2>7, Pairs
    <3>3. /\ a \in Seq(LogEvents) /\ Len(a) \in Nat /\ Len(a) >= 1 /\ a[1] = e
      BY <3>1, <3>2, ConcatProperties, LenProperties DEF RecTypeOK
    <3>4. /\ b \in Seq(LogEvents) /\ Len(b) \in Nat /\ Len(b) >= 1 /\ b[1] = e
      BY <2>7, <3>1, <3>3, ConcatProperties, LenProperties
    <3>5. /\ Len(journal) \in Nat /\ journal' \in Seq(LogEvents)
          /\ Len(journal') = Len(journal) + Len(b) /\ journal'[Len(journal) + 1] = b[1]
      <4>1. journal \in Seq(LogEvents)
        BY DEF RecTypeOK, LogTypeOK
      <4> QED
        BY <2>6, <3>1, <3>4, <4>1, ConcatProperties, LenProperties
    <3> QED
      BY <3>4, <3>5, LenProperties
  <2>9. EngineAFillLogged'
    BY <2>5, <2>8 DEF EngineAFillLogged, Range
  <2> QED
    BY <2>3, <2>9
<1>8. ASSUME NEW o \in OrderIds, NEW a \in Accounts, NEW t \in Tickets, Place(o, a, t) PROVE Good
  BY <1>1, <1>8, PlaceEffect
<1>9. ASSUME NEW o \in OrderIds, Cancel(o), DrainWith(<<>>, <<OrderIs(o, "CANCELED")>>) PROVE Good
  BY <1>9, CancelEffect
<1>10. ASSUME NEW a \in Accounts, NEW amount \in Amounts, MoveCash(a, amount) PROVE Good
  BY <1>10, MoveCashEffect
<1>11. ASSUME NEW a \in Deletable, DeleteUser(a), PushOnly(<<Deleted(a)>>) PROVE Good
  BY <1>11, DeleteUserEffect, TradingAssumption
<1>12. SettleLogged \/ SettleRaisesLogged => Good
  BY <1>1, SettleEffect, SettleRaisesEffect
<1> HIDE DEF Good
<1>13. CASE LoggedHandlers
  <2>1. Good \/ (\E o \in OrderIds : LocksKnown' /\ Torn(o) /\ Torn(o)')
    BY <1>3, <1>4, <1>5, <1>8, <1>9, <1>10, <1>11, <1>13 DEF LoggedHandlers
  <2> QED
    BY <2>1 DEF Good
<1>14. CASE LoggedContinue
  <2>1. Good \/ (LocksKnown' /\ EngineAFillLogged')
    BY <1>6, <1>7, <1>12, <1>14 DEF LoggedContinue
  <2> QED
    BY <2>1 DEF Good
<1> QED
  BY <1>13, <1>14

LEMMA HandlersHistory ==
  ASSUME LoggedHandlers \/ LoggedContinue
  PROVE  phase' = phase /\ UNCHANGED histVars
<1> DEFINE Kept == phase' = phase /\ UNCHANGED histVars
<1>1. ASSUME NEW first, NEW events, DrainWith(first, events) PROVE Kept
  BY <1>1 DEF DrainWith
<1>2. ASSUME NEW events, PushOnly(events) PROVE Kept
  BY <1>2 DEF PushOnly
<1>3. Silently => Kept
  BY DEF Silently, recVars
<1>4. ASSUME NEW o \in OrderIds, NEW a \in Accounts, NEW t \in Tickets, Place(o, a, t)
      PROVE  Kept
  BY <1>1, <1>4 DEF Place
<1>5. ASSUME NEW a \in Accounts, NEW amount \in Amounts, MoveCash(a, amount)
      PROVE  Kept
  BY <1>2, <1>5 DEF MoveCash
<1>6. SettleLogged => Kept
  BY <1>1 DEF SettleLogged
<1>7. SettleRaisesLogged => Kept
  BY DEF SettleRaisesLogged
<1>8. ASSUME NEW o \in OrderIds, FillAtMarketLogged(o) PROVE Kept
  BY <1>1, <1>8 DEF FillAtMarketLogged
<1> HIDE DEF Kept
<1>9. CASE LoggedHandlers
  <2>1. Kept
    BY <1>1, <1>2, <1>3, <1>4, <1>5, <1>9 DEF LoggedHandlers, CancelRaises
  <2> QED
    BY <2>1 DEF Kept
<1>10. CASE LoggedContinue
  <2>1. Kept
    BY <1>3, <1>6, <1>7, <1>8, <1>10 DEF LoggedContinue
  <2> QED
    BY <2>1 DEF Kept
<1> QED
  BY <1>9, <1>10

\* An order that a torn placement left PENDING stays so.
LEMMA FillOfTorn ==
  ASSUME NEW ord \in Orders, NEW q \in Nat, ord.status = "PENDING"
  PROVE  /\ AddFill(ord, q).status = "PENDING"
         /\ ~FillRaises(ord, q) => Fill(ord, q).status = "PENDING"
<1>1. PICK a : a = AddFill(ord, q)
  OBVIOUS
<1>2. a.status = "PENDING"
  BY <1>1 DEF AddFill, Orders
<1>3. ~CanTransition("PENDING", "FILLED")
  BY DEF CanTransition, Transitions
<1>4. ASSUME ~FillRaises(ord, q) PROVE Fill(ord, q).status = "PENDING"
  <2>1. ~(ord.filled + q >= ord.ticket.qty)
    BY <1>3, <1>4 DEF FillRaises
  <2>2. /\ ord.filled \in Nat /\ ord.ticket.qty \in Nat
    BY DEF Orders, TicketType
  <2>3. Fill(ord, q) = [a EXCEPT !.status = "PENDING"]
    BY <1>1, <2>1, <2>2 DEF Fill
  <2>4. DOMAIN a = DOMAIN ord /\ "status" \in DOMAIN ord
    BY <1>1 DEF AddFill, Orders
  <2> QED
    BY <2>3, <2>4
<1> QED
  BY <1>1, <1>2, <1>4

LEMMA TornStays ==
  ASSUME RecTypeOK, UpInv, LoggedHandlers \/ LoggedContinue, NEW o, Torn(o),
         SettleLogged \/ SettleRaisesLogged => Head(trades).buy # Head(trades).sell
  PROVE  Torn(o)'
<1>1. o \in DOMAIN orders /\ orders[o] \in Orders /\ orders[o].status = "PENDING" /\ TradingOK /\ OMSTypeOK
  BY DEF Torn, RecTypeOK, TradingOK, OMSTypeOK
<1>2. orders' = orders => Torn(o)'
  BY DEF Torn
<1>3. ASSUME NEW x \in OrderIds, NEW a \in Accounts, NEW t \in Tickets, Place(x, a, t) PROVE Torn(o)'
  BY <1>1, <1>3 DEF Torn, Place, PlaceRejected, PlaceAccepted, RejectOrder, AcceptAndRoute, Enter, Put
<1>4. ASSUME NEW x \in OrderIds, Cancel(x) PROVE Torn(o)'
  <2>1. /\ x \in DOMAIN orders /\ CanTransition(orders[x].status, "CANCELED")
        /\ orders' = [orders EXCEPT ![x].status = "CANCELED"]
    BY <1>4 DEF Cancel, CancelOrder
  <2>2. x # o
    BY <1>1, <2>1 DEF CanTransition, Transitions
  <2> QED
    BY <1>1, <2>1, <2>2 DEF Torn
<1>5. ASSUME NEW x \in OrderIds, CancelRaises(x) PROVE orders' = orders
  BY <1>5 DEF CancelRaises, omsVars
<1>6. ASSUME NEW a \in Accounts, NEW amount \in Amounts, MoveCash(a, amount) PROVE orders' = orders
  BY <1>6 DEF MoveCash, Deposit, Withdraw, omsVars
<1>7. ASSUME NEW a \in Deletable, DeleteUser(a) PROVE orders' = orders
  BY <1>7 DEF DeleteUser, omsVars
<1>8. ASSUME NEW mode \in EngineModes, SetEngineMode(mode) PROVE orders' = orders
  BY <1>8 DEF SetEngineMode, omsVars
<1>9. ASSUME NEW s \in Symbols, NEW quote \in Quotes, MarketData(s, quote) PROVE orders' = orders
  BY <1>9 DEF MarketData, omsVars
<1>10. MatchStep \/ EndMatchStep => orders' = orders
  BY DEF MatchStep, EndMatchStep, omsVars
<1>11. CASE SettleLogged
  <2>1. PICK t, b, s, q : t = Head(trades) /\ b = t.buy /\ s = t.sell /\ q = t.qty
    OBVIOUS
  <2>2. /\ trades # <<>> /\ ~FillRaises(orders[b], q) /\ ~FillRaises(orders[s], q) /\ b # s
        /\ FillBoth(b, s, q)
    BY <1>11, <2>1 DEF SettleLogged, Settle, NextTrade, TradeRaises
  <2>3. b \in DOMAIN orders /\ s \in DOMAIN orders /\ q \in Nat
    BY <1>1, <2>1, <2>2, TradeParties
  <2>4. PICK fb, fs : fb = Fill(orders[b], q) /\ fs = Fill(orders[s], q)
    OBVIOUS
  <2>5. orders' = [[orders EXCEPT ![b] = fb] EXCEPT ![s] = fs]
    BY <2>2, <2>3, <2>4 DEF FillBoth
  <2>6. (o = b => fb.status = "PENDING") /\ (o = s => fs.status = "PENDING")
    BY <1>1, <2>2, <2>3, <2>4, FillOfTorn
  <2> QED
    BY <1>1, <2>2, <2>3, <2>5, <2>6 DEF Torn
<1>12. CASE SettleRaisesLogged
  <2>1. PICK t, b, s, q : t = Head(trades) /\ b = t.buy /\ s = t.sell /\ q = t.qty
    OBVIOUS
  <2>2. trades # <<>> /\ b # s /\ FillBothRaising(b, s, q) /\ TradeRaises(b, s, q)
    BY <1>12, <2>1 DEF SettleRaisesLogged, SettleRaises
  <2>3. b \in DOMAIN orders /\ s \in DOMAIN orders /\ q \in Nat
    BY <1>1, <2>1, <2>2, TradeParties
  <2>4. PICK fb, ab, as : fb = Fill(orders[b], q) /\ ab = AddFill(orders[b], q) /\ as = AddFill(orders[s], q)
    OBVIOUS
  <2>5. \/ orders' = [orders EXCEPT ![b] = ab]
        \/ ~FillRaises(orders[b], q) /\ orders' = [[orders EXCEPT ![b] = fb] EXCEPT ![s] = as]
    BY <2>2, <2>3, <2>4 DEF FillBothRaising
  <2>6. /\ o = b => ab.status = "PENDING" /\ (~FillRaises(orders[b], q) => fb.status = "PENDING")
        /\ o = s => as.status = "PENDING"
    BY <1>1, <2>3, <2>4, FillOfTorn
  <2> QED
    BY <1>1, <2>2, <2>3, <2>5, <2>6 DEF Torn
<1>13. ASSUME NEW x \in OrderIds, FillAtMarketLogged(x) PROVE Torn(o)'
  <2>1. PICK q, f : q = Remaining(orders[x]) /\ f = Fill(orders[x], q)
    OBVIOUS
  <2>2. x \in DOMAIN orders /\ orders' = [orders EXCEPT ![x] = f] /\ ~FillRaises(orders[x], q)
    BY <1>1, <1>13, <2>1 DEF FillAtMarketLogged, FillAtMarket, FillFromMarket, TradingOK, AppTypeOK
  <2>3. q \in Nat
    BY <1>1, <1>13, <2>1, <2>2 DEF FillAtMarketLogged, FillAtMarket, UpInv, ScanLeft, OMSTypeOK,
                                   Orders, TicketType, Remaining
  <2>4. o = x => f.status = "PENDING"
    BY <1>1, <2>1, <2>2, <2>3, FillOfTorn
  <2> QED
    BY <1>1, <2>2, <2>4 DEF Torn
<1> HIDE DEF Torn
<1>14. CASE LoggedHandlers
  BY <1>2, <1>3, <1>4, <1>5, <1>6, <1>7, <1>8, <1>9, <1>14 DEF LoggedHandlers
<1>15. CASE LoggedContinue
  BY <1>2, <1>10, <1>11, <1>12, <1>13, <1>15 DEF LoggedContinue
<1> QED
  BY <1>14, <1>15

\* The log grew, and begins as it did.
LEMMA LoggedBefore ==
  ASSUME NEW d \in Seq(LogEvents), journal \in Seq(LogEvents), journal' = journal \o d
  PROVE  /\ EngineAFillLogged => EngineAFillLogged'
         /\ \A i \in 1..Len(d) : d[i].kind = "trade" /\ d[i].buy = d[i].sell => EngineAFillLogged'
<1>1. PICK n \in Nat, l \in Nat : n = Len(journal) /\ l = Len(d)
  BY LenProperties
<1>2. /\ journal' \in Seq(LogEvents) /\ Len(journal') = n + l
      /\ \A i \in 1..n : journal'[i] = journal[i]
      /\ \A i \in 1..l : journal'[n + i] = d[i]
  BY <1>1, ConcatProperties
<1>3. DOMAIN journal = 1..n /\ DOMAIN journal' = 1 .. n + l
  BY <1>1, <1>2, LenProperties
<1>4. ASSUME EngineAFillLogged PROVE EngineAFillLogged'
  <2>1. PICK i \in 1..n : journal[i].kind = "trade" /\ journal[i].buy = journal[i].sell
    BY <1>3, <1>4 DEF EngineAFillLogged, Range
  <2>2. i \in 1 .. n + l /\ journal'[i] = journal[i]
    BY <1>2
  <2> QED
    BY <1>3, <2>1, <2>2 DEF EngineAFillLogged, Range
<1>5. ASSUME NEW i \in 1..l, d[i].kind = "trade" /\ d[i].buy = d[i].sell PROVE EngineAFillLogged'
  <2>1. n + i \in 1 .. n + l /\ journal'[n + i] = d[i]
    BY <1>2
  <2> QED
    BY <1>3, <1>5, <2>1 DEF EngineAFillLogged, Range
<1> QED
  BY <1>1, <1>4, <1>5

LEMMA OwnTradeLogged ==
  ASSUME RecTypeOK, NEW pre \in Seq(LogEvents), NEW post \in Seq(LogEvents), Len(pre) >= 1,
         pre[1].kind = "trade" /\ pre[1].buy = pre[1].sell,
         journal' = journal \o pre \/ journal' = journal \o (pre \o outbox \o post)
  PROVE  EngineAFillLogged'
<1>1. journal \in Seq(LogEvents) /\ outbox \in Seq(LogEvents)
  BY DEF RecTypeOK, LogTypeOK
<1>2. CASE journal' = journal \o pre
  <2>1. 1 \in 1..Len(pre)
    BY LenProperties
  <2> QED
    BY <1>1, <1>2, <2>1, LoggedBefore
<1>3. CASE journal' = journal \o (pre \o outbox \o post)
  <2>1. PICK a, b : a = pre \o outbox /\ b = a \o post
    OBVIOUS
  <2>2. a \in Seq(LogEvents) /\ Len(a) \in Nat /\ Len(a) >= 1 /\ a[1] = pre[1]
    BY <1>1, <2>1, ConcatProperties, LenProperties
  <2>3. b \in Seq(LogEvents) /\ Len(b) \in Nat /\ Len(b) >= 1 /\ b[1] = pre[1]
    BY <2>1, <2>2, ConcatProperties, LenProperties
  <2>4. 1 \in 1..Len(b) /\ journal' = journal \o b
    BY <1>3, <2>1, <2>3
  <2> QED
    BY <1>1, <2>3, <2>4, LoggedBefore
<1> QED
  BY <1>2, <1>3

\* A trade of an order with itself is logged as Engine A's are.
LEMMA OwnTrade ==
  ASSUME RecTypeOK, RecTypeOK', UpInv, SettleLogged \/ SettleRaisesLogged, Head(trades).buy = Head(trades).sell
  PROVE  EngineAFillLogged'
<1>1. PICK t, b, s, q : t = Head(trades) /\ b = t.buy /\ s = t.sell /\ q = t.qty /\ b = s
  OBVIOUS
<1>2. trades # <<>> /\ TradingOK /\ OMSTypeOK
  BY DEF SettleLogged, Settle, SettleRaisesLogged, SettleRaises, NextTrade, RecTypeOK, TradingOK
<1>3. /\ b \in DOMAIN orders /\ s \in DOMAIN orders /\ q \in Nat \ {0}
      /\ t.price \in Nat /\ t.symbol \in Symbols
  BY <1>1, <1>2, TradeParties
<1>4. DOMAIN orders' = DOMAIN orders
  <2>1. (\E x, y, z : FillBoth(x, y, z)) \/ (\E x, y, z : FillBothRaising(x, y, z)) => DOMAIN orders' = DOMAIN orders
    BY DEF FillBoth, FillBothRaising
  <2> QED
    BY <2>1 DEF SettleLogged, Settle, SettleRaisesLogged, SettleRaises
<1>5. b \in OrderIds /\ s \in OrderIds
  BY <1>2, <1>3 DEF OMSTypeOK
<1>6. /\ TradeExecuted(b, s, q) \in LogEvents /\ Filled(b) \in LogEvents /\ Filled(s) \in LogEvents
      /\ Settlement(t) \in LogEvents
  <2>1. Filled(b) \in LogEvents /\ Filled(s) \in LogEvents
    BY <1>3, <1>4, HarmlessOfOrders DEF Harmless, RecTypeOK, TradingOK
  <2>2. TradeExecuted(b, s, q) \in LogEvents
    BY <1>3, <1>5 DEF TradeExecuted, LogEvents
  <2> QED
    BY <1>1, <1>2, <1>3, <2>1, <2>2, SettlementIsEvent
<1>7. CASE SettleLogged
  <2>1. PICK e, pre, post : /\ e = TradeExecuted(b, s, q) /\ pre = <<e, Settlement(t)>>
                            /\ post = <<Filled(b), Filled(s)>>
    OBVIOUS
  <2>2. /\ pre \in Seq(LogEvents) /\ post \in Seq(LogEvents) /\ Len(pre) = 2 /\ pre[1] = e
    BY <1>6, <2>1, Pairs
  <2>3. e.kind = "trade" /\ e.buy = e.sell
    BY <1>1, <2>1 DEF TradeExecuted
  <2>4. journal' = journal \o pre \/ journal' = journal \o (pre \o outbox \o post)
    BY <1>1, <1>7, <2>1 DEF SettleLogged, DrainWith, Push
  <2>5. Len(pre) >= 1 /\ pre[1].kind = "trade" /\ pre[1].buy = pre[1].sell
    BY <2>2, <2>3
  <2> QED
    BY <2>2, <2>4, <2>5, OwnTradeLogged
<1>8. CASE SettleRaisesLogged
  <2>1. PICK e, pre : e = TradeExecuted(b, s, q) /\ pre = <<e>>
    OBVIOUS
  <2>2. /\ pre \in Seq(LogEvents) /\ Len(pre) = 1 /\ pre[1] = e
    BY <1>6, <2>1, Pairs
  <2>3. e.kind = "trade" /\ e.buy = e.sell
    BY <1>1, <2>1 DEF TradeExecuted
  <2>4. journal' = journal \o pre
    BY <1>1, <1>8, <2>1 DEF SettleRaisesLogged, Push
  <2> QED
    BY <2>2, <2>3, <2>4, OwnTradeLogged
<1> QED
  BY <1>7, <1>8

LEMMA TornOrOwn ==
  ASSUME RecTypeOK, RecTypeOK', UpInv, LoggedHandlers \/ LoggedContinue, NEW o, Torn(o)
  PROVE  Torn(o)' \/ EngineAFillLogged'
<1>1. CASE (SettleLogged \/ SettleRaisesLogged) /\ Head(trades).buy = Head(trades).sell
  BY <1>1, OwnTrade
<1>2. CASE ~((SettleLogged \/ SettleRaisesLogged) /\ Head(trades).buy = Head(trades).sell)
  BY <1>2, TornStays
<1> QED
  BY <1>1, <1>2

-----------------------------------------------------------------------------
\* The accounts follow from the log alone.  In a process that is up they do so
\* unless a flush has failed, an order is torn, or Engine A has filled one; while
\* it restores they are what the events replayed so far leave.
FollowsLog ==
  /\ LocksKnown
  /\ phase = "up" /\ ~holes /\ (\A o : ~Torn(o)) /\ ~EngineAFillLogged
       => Leads(journal, Len(journal), accountVars)
  /\ phase # "up" => Leads(journal, replayed, accountVars)
  /\ phase # "up" /\ before.clean /\ NoneTornBefore /\ ~EngineAFillLogged
       => Leads(journal, Len(journal), before.accounts)

LEMMA HandlersFollow ==
  ASSUME RecTypeOK, UpInv, FollowsLog, phase = "up", LoggedHandlers \/ LoggedContinue
  PROVE  FollowsLog'
<1>1. RecTypeOK' /\ phase' = "up" /\ holes' = holes
  BY HandlersUp, HandlersHistory DEF histVars
<1>2. /\ LocksKnown'
      /\ LoggedEffect \/ (\E o \in OrderIds : Torn(o) /\ Torn(o)') \/ EngineAFillLogged'
  BY HandlersEffect DEF FollowsLog
<1>3. ASSUME ~holes', \A o : ~Torn(o)', ~EngineAFillLogged'
      PROVE  Leads(journal', Len(journal'), accountVars')
  <2>1. PICK d \in Seq(LogEvents) : journal' = journal \o d /\ Effect(d, accountVars, accountVars')
    BY <1>2, <1>3 DEF LoggedEffect
  <2>2. journal \in Seq(LogEvents)
    BY DEF RecTypeOK, LogTypeOK
  <2>3. ~EngineAFillLogged
    BY <1>3, <2>1, <2>2, LoggedBefore
  <2>4. \A o : ~Torn(o)
    BY <1>1, <1>3, TornOrOwn
  <2>5. Leads(journal, Len(journal), accountVars)
    BY <1>1, <1>3, <2>3, <2>4 DEF FollowsLog
  <2> QED
    BY <2>1, <2>2, <2>5, LeadsThrough
<1> QED
  BY <1>1, <1>2, <1>3 DEF FollowsLog

LEMMA ProcessFresh ==
  ASSUME NEW ended, StartProcess(ended)
  PROVE  /\ LocksKnown' /\ phase' = "restoring" /\ before' = ended /\ holes' = holes
         /\ Leads(journal', replayed', accountVars')
<1>1. accountVars' = FreshAccounts /\ replayed' = 0
  BY DEF StartProcess, accountVars, FreshAccounts
<1>2. LocksKnown' /\ phase' = "restoring" /\ before' = ended /\ holes' = holes
  BY DEF StartProcess, LocksKnown
<1> QED
  BY <1>1, <1>2, LeadsStart

LEMMA ReplayLocks ==
  ASSUME NEW e \in LogEvents, LocksKnown, ApplyToAccounts(e), ApplyToOrders(e)
  PROVE  LocksKnown'
<1>1. DOMAIN orders \subseteq DOMAIN orders' /\ (e.kind = "placed" => e.order \in DOMAIN orders')
  <2>1. CASE e.kind = "placed"
    BY <2>1 DEF ApplyToOrders, Put
  <2>2. CASE e.kind # "placed"
    BY <2>2 DEF ApplyToOrders
  <2> QED
    BY <2>1, <2>2
<1>2. PICK known : known = DOMAIN orders'
  OBVIOUS
<1>3. DOMAIN locks \subseteq known
  BY <1>1, <1>2 DEF LocksKnown
<1>4. CASE e.kind = "placed"
  <2>1. known \cup {e.order} = known
    BY <1>1, <1>2, <1>4
  <2>2. UNCHANGED accountVars => locks' = locks
    BY DEF accountVars
  <2>3. UNCHANGED accountVars \/ \E a, s, side, qty, price : LockFunds(a, e.order, s, side, qty, price)
    BY <1>4 DEF ApplyToAccounts
  <2> QED
    BY <1>2, <1>3, <2>1, <2>2, <2>3, LocksStayKnown DEF LocksKnown
<1>5. CASE e.kind # "placed"
  <2>1. UNCHANGED accountVars => locks' = locks
    BY DEF accountVars
  <2>2. \A a, x : DepositCash(a, x) \/ WithdrawCash(a, x) => locks' = locks
    BY DEF DepositCash, WithdrawCash
  <2>3. \/ UNCHANGED accountVars
        \/ UnlockFunds(e.order)
        \/ \E b, c, x, y, s, price, qty : SettleTrade(b, c, x, y, s, price, qty)
        \/ \E a, x : DepositCash(a, x) \/ WithdrawCash(a, x)
        \/ DeleteAccount(e.account)
    BY <1>5, EventFields DEF ApplyToAccounts
  <2> QED
    BY <1>2, <1>3, <2>1, <2>2, <2>3, LocksStayKnown DEF LocksKnown
<1> QED
  BY <1>4, <1>5

LEMMA FollowsStep ==
  ASSUME RecInv, FollowsLog, [RecoveryNext]_allVars
  PROVE  FollowsLog'
<1> USE DEF RecInv
<1>1. CASE phase = "up" /\ (LoggedHandlers \/ LoggedContinue)
  BY <1>1, HandlersFollow
<1>2. CASE FlushFails
  <2>1. phase = "up" /\ phase' = "up" /\ holes' /\ UNCHANGED <<locks, orders>>
    BY <1>2 DEF FlushFails, vars, accountVars, omsVars
  <2> QED
    BY <2>1 DEF FollowsLog, LocksKnown
<1>3. CASE Crash
  <2>1. StartProcess(Memory(FALSE))
    BY <1>3 DEF Crash
  <2>2. Memory(FALSE).clean = FALSE
    BY DEF Memory
  <2> QED
    BY <2>1, <2>2, ProcessFresh DEF FollowsLog
<1>4. CASE Shutdown
  <2>1. PICK clean : clean = (outbox = <<>> /\ ~holes) /\ StartProcess(Memory(clean))
    BY <1>4 DEF Shutdown
  <2>2. phase = "up" /\ Cut(Len(journal)) /\ journal \in Seq(LogEvents)
    BY <1>4 DEF Shutdown, RecTypeOK, LogTypeOK
  <2>3. journal' = journal
    BY <2>2, SubSeqFull DEF Cut
  <2>4. Memory(clean).clean = clean /\ Memory(clean).orders = orders /\ Memory(clean).accounts = accountVars
    BY DEF Memory
  <2>5. LocksKnown' /\ phase' = "restoring" /\ before' = Memory(clean) /\ Leads(journal', replayed', accountVars')
    BY <2>1, ProcessFresh
  <2>6. ASSUME before'.clean, NoneTornBefore', ~EngineAFillLogged'
        PROVE  Leads(journal', Len(journal'), before'.accounts)
    <3>1. ~holes /\ ~EngineAFillLogged
      BY <2>1, <2>3, <2>4, <2>5, <2>6 DEF EngineAFillLogged
    <3>2. \A o : ~Torn(o)
      BY <2>4, <2>5, <2>6 DEF NoneTornBefore, Torn
    <3>3. Leads(journal, Len(journal), accountVars)
      BY <2>2, <3>1, <3>2 DEF FollowsLog
    <3> QED
      BY <2>3, <2>4, <2>5, <3>3
  <2> QED
    BY <2>5, <2>6 DEF FollowsLog
<1>5. CASE StartAgain
  <2>1. StartProcess(before) /\ journal' = journal /\ phase = "failed"
    BY <1>5 DEF StartAgain
  <2>2. LocksKnown' /\ phase' = "restoring" /\ before' = before /\ Leads(journal', replayed', accountVars')
    BY <2>1, ProcessFresh
  <2>3. NoneTornBefore' = NoneTornBefore /\ EngineAFillLogged' = EngineAFillLogged
    BY <2>1, <2>2 DEF NoneTornBefore, EngineAFillLogged
  <2> QED
    BY <2>1, <2>2, <2>3 DEF FollowsLog
<1>6. CASE Replay
  <2>1. PICK e : e = journal[replayed + 1]
    OBVIOUS
  <2>2. /\ phase = "restoring" /\ phase' = phase /\ replayed < Len(journal)
        /\ ApplyToAccounts(e) /\ ApplyToOrders(e) /\ replayed' = replayed + 1
        /\ UNCHANGED <<journal, before, holes>>
    BY <1>6, <2>1 DEF Replay, histVars
  <2>3. e \in LogEvents /\ replayed \in Nat
    <3>1. journal \in Seq(LogEvents) /\ replayed \in 0..Len(journal) /\ Len(journal) \in Nat
      BY <2>2, LenProperties DEF RecTypeOK, LogTypeOK, DownInv, ReplayedOrders
    <3>2. replayed + 1 \in 1..Len(journal)
      BY <2>2, <3>1
    <3> QED
      BY <2>1, <3>1, <3>2, ElementOfSeq
  <2>4. Leads(journal', replayed', accountVars')
    <3>1. accountVars' = Applied(accountVars, e)
      BY <2>2, <2>3, ReplayApplies
    <3>2. Leads(journal, replayed, accountVars)
      BY <2>2 DEF FollowsLog
    <3>3. Leads(journal, replayed + 1, Applied(accountVars, journal[replayed + 1]))
      BY <2>3, <3>2, LeadsNext
    <3> QED
      BY <2>1, <2>2, <3>1, <3>3
  <2>5. LocksKnown'
    BY <2>2, <2>3, ReplayLocks DEF FollowsLog
  <2>6. NoneTornBefore' = NoneTornBefore /\ EngineAFillLogged' = EngineAFillLogged
    BY <2>2 DEF NoneTornBefore, EngineAFillLogged
  <2> QED
    BY <2>2, <2>4, <2>5, <2>6 DEF FollowsLog
<1>7. CASE ReplayRaises
  <2>1. /\ phase = "restoring" /\ phase' = "failed"
        /\ UNCHANGED <<journal, replayed, before, accountVars, locks, orders>>
    BY <1>7 DEF ReplayRaises, vars, histVars, omsVars, accountVars
  <2> QED
    BY <2>1 DEF FollowsLog, LocksKnown, NoneTornBefore, EngineAFillLogged
<1>8. CASE RebuildBooks
  <2>1. /\ phase = "restoring" /\ replayed = Len(journal)
        /\ UNCHANGED <<journal, replayed, accountVars, locks, orders>>
        /\ phase' = "up" \/ (phase' = "failed" /\ before' = before)
    BY <1>8 DEF RebuildBooks, omsVars, accountVars
  <2>2. Leads(journal', Len(journal'), accountVars') /\ Leads(journal', replayed', accountVars')
    BY <2>1 DEF FollowsLog
  <2> QED
    BY <2>1, <2>2 DEF FollowsLog, LocksKnown, NoneTornBefore, EngineAFillLogged
<1>9. CASE UNCHANGED allVars
  <2>1. UNCHANGED <<phase, holes, journal, replayed, before, accountVars, locks, orders>>
    BY <1>9 DEF allVars, recVars, histVars, vars, omsVars, accountVars
  <2> QED
    BY <2>1 DEF FollowsLog, LocksKnown, NoneTornBefore, EngineAFillLogged, Torn
<1> QED
  BY <1>1, <1>2, <1>3, <1>4, <1>5, <1>6, <1>7, <1>8, <1>9 DEF RecoveryNext, ColdStart

\* After an orderly shutdown balances, positions and locks come back as they
\* were, unless Engine A filled an order or an earlier crash tore a placement:
\* both the accounts of the last process and those restored follow from the log.
THEOREM AccountsAreRestored == RecoverySpec => AccountsRestored
<1>1. RecoveryInit => FollowsLog
  <2>1. SUFFICES ASSUME RecoveryInit PROVE FollowsLog
    OBVIOUS
  <2>2. phase = "up" /\ journal = <<>> /\ accountVars = FreshAccounts /\ locks = <<>>
    BY <2>1 DEF RecoveryInit, LogInit, Init, AccountInit, accountVars, FreshAccounts
  <2>3. Leads(journal, Len(journal), accountVars)
    BY <2>2, LeadsStart
  <2> QED
    BY <2>2, <2>3 DEF FollowsLog, LocksKnown
<1>2. RecInv /\ FollowsLog /\ [RecoveryNext]_allVars => FollowsLog'
  BY FollowsStep
<1>3. RecInv /\ FollowsLog /\ [RecoveryNext]_allVars
        => [ Restored /\ EndedWell /\ NoneTornBefore /\ ~EngineAFillLogged =>
               accountVars' = before.accounts ]_allVars
  <2>1. SUFFICES ASSUME RecInv, FollowsLog, [RecoveryNext]_allVars, Restored, EndedWell,
                        NoneTornBefore, ~EngineAFillLogged
                 PROVE  accountVars' = before.accounts
    OBVIOUS
  <2>2. RebuildBooks /\ RecTypeOK
    BY <2>1, RestoredStep
  <2>3. phase = "restoring" /\ replayed = Len(journal) /\ accountVars' = accountVars
    BY <2>2 DEF RebuildBooks, accountVars
  <2>4. Leads(journal, Len(journal), accountVars) /\ Leads(journal, Len(journal), before.accounts)
    BY <2>1, <2>3 DEF FollowsLog, EndedWell
  <2>5. Len(journal) \in Nat
    BY <2>2, LenProperties DEF RecTypeOK, LogTypeOK
  <2> QED
    BY <2>3, <2>4, <2>5, LeadsToOne
<1> QED
  BY <1>1, <1>2, <1>3, RecInvariant, PTL DEF RecoverySpec, AccountsRestored

-----------------------------------------------------------------------------
(* Whose orders trade.  Also on rebuilt books a BUY rests among the bids and a *)
(* SELL among the asks, so no trade of the matching loop is of an order with  *)
(* itself, and the two fills of a trade are of two orders.                    *)

Sided(ords, o, side) == o \in DOMAIN ords /\ ords[o].ticket.side = side

TradeSided(ords, t) == Sided(ords, t.buy, "BUY") /\ Sided(ords, t.sell, "SELL")

OnSides ==
  /\ \A s \in Symbols : /\ \A o \in OrdersOn(bids[s]) : Sided(orders, o, "BUY")
                        /\ \A o \in OrdersOn(asks[s]) : Sided(orders, o, "SELL")
  /\ \A i \in 1..Len(trades) : TradeSided(orders, trades[i])

\* Orders keep their form, and no entry and no trade is new.
LEMMA SidesKept ==
  ASSUME OnSides, KeptIn(orders, orders'),
         \A s \in Symbols : /\ OrdersOn(bids'[s]) \subseteq OrdersOn(bids[s])
                            /\ OrdersOn(asks'[s]) \subseteq OrdersOn(asks[s]),
         \A i \in 1..Len(trades') : \E j \in 1..Len(trades) : trades'[i] = trades[j]
  PROVE  OnSides'
<1>1. \A o, side : Sided(orders, o, side) => Sided(orders', o, side)
  BY DEF KeptIn, Sided
<1>2. \A s \in Symbols : /\ \A o \in OrdersOn(bids'[s]) : Sided(orders', o, "BUY")
                         /\ \A o \in OrdersOn(asks'[s]) : Sided(orders', o, "SELL")
  BY <1>1 DEF OnSides
<1>3. \A i \in 1..Len(trades') : TradeSided(orders', trades'[i])
  BY <1>1 DEF OnSides, TradeSided
<1> QED
  BY <1>2, <1>3 DEF OnSides

LEMMA SidesSame ==
  ASSUME OnSides, KeptIn(orders, orders'), UNCHANGED <<bids, asks>>,
         \/ UNCHANGED trades
         \/ Len(trades') = 0
         \/ trades \in Seq(TradeRecords) /\ trades # <<>> /\ trades' = Tail(trades)
  PROVE  OnSides'
<1>1. \A i \in 1..Len(trades') : \E j \in 1..Len(trades) : trades'[i] = trades[j]
  <2>1. CASE trades \in Seq(TradeRecords) /\ trades # <<>> /\ trades' = Tail(trades)
    <3>1. \A i \in 1..Len(trades') : i+1 \in 1..Len(trades) /\ trades'[i] = trades[i+1]
      BY <2>1, HeadTailProperties, LenProperties
    <3> QED
      BY <3>1
  <2> QED
    BY <2>1
<1> QED
  BY <1>1, SidesKept

LEMMA PlaceSides ==
  ASSUME TradingOK, OnSides, NEW o \in OrderIds, NEW a \in Accounts, NEW t \in Tickets,
         PlaceAccepted(o, a, t)
  PROVE  OnSides'
<1>1. /\ KeptIn(orders, orders') /\ orders'[o].ticket = t /\ o \in DOMAIN orders'
  <2>1. Enter(o, a, t, "ROUTED")
    BY DEF PlaceAccepted, AcceptAndRoute
  <2> QED
    BY <2>1, EnterEffect
<1>2. CASE UNCHANGED meVars
  BY <1>1, <1>2, SidesSame DEF meVars
<1>3. CASE SubmitOrder(o, t.symbol, t.side, EffectivePrice(t), t.qty, clock')
  <2>1. PICK s, e : s = t.symbol /\ e = BookEntry(o, EffectivePrice(t), t.qty, clock')
    OBVIOUS
  <2>2. t \in TicketType /\ clock' \in Nat
    BY OMSAssumption DEF TradingOK, OMSTypeOK, PlaceAccepted, AcceptAndRoute, Enter
  <2>3. EffectivePrice(t) \in Nat /\ s \in Symbols /\ t.qty \in Nat \ {0} /\ t.side \in Sides
    BY <2>1, <2>2, TradingAssumption DEF EffectivePrice, TicketType
  <2>4. e \in Entries /\ e.order = o
    BY <2>1, <2>2, <2>3 DEF BookEntry, Entries
  <2>5. /\ bids \in [Symbols -> Seq(Entries)] /\ asks \in [Symbols -> Seq(Entries)]
        /\ Sorted("BUY", bids[s]) /\ Sorted("SELL", asks[s])
    BY <2>3 DEF TradingOK, EngineOK, METypeOK, BooksSorted
  <2>6. /\ trades' = trades
        /\ IF t.side = "BUY"
           THEN bids' = [bids EXCEPT ![s] = Insert("BUY", @, e)] /\ asks' = asks
           ELSE asks' = [asks EXCEPT ![s] = Insert("SELL", @, e)] /\ bids' = bids
    BY <1>3, <2>1 DEF SubmitOrder, PutOnBook
  <2>7. /\ OrdersOn(Insert("BUY", bids[s], e)) = OrdersOn(bids[s]) \cup {o}
        /\ OrdersOn(Insert("SELL", asks[s], e)) = OrdersOn(asks[s]) \cup {o}
    <3>1. PICK b, k : b = bids[s] /\ k = asks[s]
      OBVIOUS
    <3>2. /\ b \in Seq(Entries) /\ k \in Seq(Entries)
          /\ Sorted("BUY", b) /\ Sorted("SELL", k)
      BY <2>3, <2>5, <3>1
    <3>3. "BUY" \in Sides /\ "SELL" \in Sides
      BY DEF Sides
    <3>4. OrdersOn(Insert("BUY", b, e)) = OrdersOn(b) \cup {o}
      BY ONLY <2>4, <3>2, <3>3, InsertOrders
    <3>5. OrdersOn(Insert("SELL", k, e)) = OrdersOn(k) \cup {o}
      BY ONLY <2>4, <3>2, <3>3, InsertOrders
    <3> QED
      BY <3>1, <3>4, <3>5
  <2>8. \A x, side : Sided(orders, x, side) => Sided(orders', x, side)
    BY <1>1 DEF KeptIn, Sided
  <2>9. Sided(orders', o, t.side)
    BY <1>1 DEF Sided
  <2>10. ASSUME NEW r \in Symbols
         PROVE  /\ \A x \in OrdersOn(bids'[r]) : Sided(orders', x, "BUY")
                /\ \A x \in OrdersOn(asks'[r]) : Sided(orders', x, "SELL")
    <3>1. CASE t.side = "BUY"
      BY <2>3, <2>5, <2>6, <2>7, <2>8, <2>9, <3>1 DEF OnSides
    <3>2. CASE t.side # "BUY"
      <4>1. t.side = "SELL"
        BY <2>3, <3>2 DEF Sides
      <4> QED
        BY <2>3, <2>5, <2>6, <2>7, <2>8, <2>9, <4>1 DEF OnSides
    <3> QED
      BY <3>1, <3>2
  <2>11. \A i \in 1..Len(trades') : TradeSided(orders', trades'[i])
    BY <2>6, <2>8 DEF OnSides, TradeSided
  <2> QED
    BY <2>10, <2>11 DEF OnSides
<1> QED
  BY <1>2, <1>3 DEF PlaceAccepted

LEMMA MatchSides == ASSUME TradingOK, OnSides, MatchStep PROVE OnSides'
<1>1. PICK s, q, t : s = submission.symbol /\ t = TopTrade(s) /\ q = t.qty
  OBVIOUS
<1>2. Match /\ orders' = orders /\ EngineOK
  BY DEF MatchStep, omsVars, TradingOK
<1>3. /\ s \in Symbols /\ trades' = Append(trades, t)
      /\ bids \in [Symbols -> Seq(Entries)] /\ asks \in [Symbols -> Seq(Entries)]
      /\ bids[s] # <<>> /\ asks[s] # <<>>
      /\ bids'[s] = FillTop(bids[s], q) /\ asks'[s] = FillTop(asks[s], q)
      /\ \A r \in Symbols \ {s} : bids'[r] = bids[r] /\ asks'[r] = asks[r]
  BY <1>1, <1>2, MatchEffect
<1>4. t.buy = Head(bids[s]).order /\ t.sell = Head(asks[s]).order
  BY <1>1 DEF TopTrade
<1>5. /\ bids[s][1].order \in OrdersOn(bids[s]) /\ asks[s][1].order \in OrdersOn(asks[s])
      /\ Head(bids[s]) = bids[s][1] /\ Head(asks[s]) = asks[s][1]
  BY <1>3, LenProperties, EmptySeq DEF OrdersOn
<1>6. TradeSided(orders, t)
  BY <1>3, <1>4, <1>5 DEF OnSides, TradeSided
<1>7. \A r \in Symbols : /\ OrdersOn(bids'[r]) \subseteq OrdersOn(bids[r])
                         /\ OrdersOn(asks'[r]) \subseteq OrdersOn(asks[r])
  <2>1. /\ OrdersOn(FillTop(bids[s], q)) \subseteq OrdersOn(bids[s])
        /\ OrdersOn(FillTop(asks[s], q)) \subseteq OrdersOn(asks[s])
    BY <1>3, FillTopOrders
  <2> QED
    BY <1>3, <2>1
<1>8. \A i \in 1..Len(trades') : (trades'[i] = trades[i] /\ i \in 1..Len(trades)) \/ trades'[i] = t
  <2>1. trades \in Seq(TradeRecords) /\ t \in TradeRecords
    BY <1>1, <1>2, MatchEffect DEF EngineOK, METypeOK
  <2> QED
    BY <1>3, <2>1, AppendProperties
<1> QED
  BY <1>2, <1>6, <1>7, <1>8 DEF OnSides

LEMMA CancelSides ==
  ASSUME TradingOK, OnSides, NEW o \in OrderIds, Cancel(o)
  PROVE  OnSides'
<1>1. PICK s : s = orders[o].ticket.symbol
  OBVIOUS
<1>2. o \in DOMAIN orders /\ OMSTypeOK /\ CancelOrder(o) /\ CancelInBook(s, o)
  BY <1>1 DEF Cancel, TradingOK
<1>3. s \in Symbols
  BY <1>1, <1>2 DEF OMSTypeOK, Orders, TicketType
<1>4. KeptIn(orders, orders')
  BY <1>2, CancelOrderEffect
<1>5. bids \in [Symbols -> Seq(Entries)] /\ asks \in [Symbols -> Seq(Entries)]
  BY DEF TradingOK, EngineOK, METypeOK
<1>6. /\ \/ bids' = [bids EXCEPT ![s] = RemoveOrder(@, o)] /\ asks' = asks
         \/ asks' = [asks EXCEPT ![s] = RemoveOrder(@, o)] /\ bids' = bids
      /\ trades' = trades
  BY <1>2 DEF CancelInBook, TakeOffBook
<1>7. /\ OrdersOn(RemoveOrder(bids[s], o)) \subseteq OrdersOn(bids[s])
      /\ OrdersOn(RemoveOrder(asks[s], o)) \subseteq OrdersOn(asks[s])
  BY <1>3, <1>5, RemoveOrders
<1>8. \A r \in Symbols : /\ OrdersOn(bids'[r]) \subseteq OrdersOn(bids[r])
                         /\ OrdersOn(asks'[r]) \subseteq OrdersOn(asks[r])
  BY <1>3, <1>5, <1>6, <1>7
<1> QED
  BY <1>4, <1>6, <1>8, SidesKept

\* What a handler does to the sides, whatever the handler.
LEMMA HandlersSides ==
  ASSUME RecTypeOK, UpInv, OnSides, LoggedHandlers \/ LoggedContinue
  PROVE  OnSides'
<1>1. TradingOK /\ OMSTypeOK /\ FilledHasAll(orders) /\ trades \in Seq(TradeRecords)
  BY DEF RecTypeOK, TradingOK, EngineOK, METypeOK, UpInv
<1>2. ASSUME UNCHANGED meVars, orders' = orders PROVE OnSides'
  BY <1>2 DEF OnSides, meVars
<1>3. ASSUME NEW o \in OrderIds, NEW a \in Accounts, NEW t \in Tickets, Place(o, a, t) PROVE OnSides'
  <2>1. CASE PlaceAccepted(o, a, t)
    BY <1>1, <2>1, PlaceSides
  <2>2. CASE PlaceRejected(o, a, t)
    <3>1. Enter(o, a, t, "REJECTED") /\ UNCHANGED meVars
      BY <2>2 DEF PlaceRejected, RejectOrder
    <3>2. KeptIn(orders, orders')
      BY <3>1, EnterEffect
    <3> QED
      BY <3>1, <3>2, SidesSame DEF meVars
  <2> QED
    BY <1>3, <2>1, <2>2 DEF Place
<1>4. ASSUME NEW o \in OrderIds, Cancel(o) PROVE OnSides'
  BY <1>1, <1>4, CancelSides
<1>5. ASSUME NEW o \in OrderIds, CancelRaises(o) PROVE OnSides'
  BY <1>2, <1>5 DEF CancelRaises, omsVars
<1>6. ASSUME NEW a \in Accounts, NEW amount \in Amounts, MoveCash(a, amount) PROVE OnSides'
  BY <1>2, <1>6 DEF MoveCash, Deposit, Withdraw, omsVars
<1>7. ASSUME NEW a \in Deletable, DeleteUser(a) PROVE OnSides'
  BY <1>2, <1>7 DEF DeleteUser, omsVars
<1>8. ASSUME NEW mode \in EngineModes, SetEngineMode(mode) PROVE OnSides'
  BY <1>2, <1>8 DEF SetEngineMode, omsVars
<1>9. ASSUME NEW s \in Symbols, NEW quote \in Quotes, MarketData(s, quote) PROVE OnSides'
  BY <1>2, <1>9 DEF MarketData, omsVars
<1>10. CASE MatchStep
  BY <1>1, <1>10, MatchSides
<1>11. CASE EndMatchStep
  BY <1>11 DEF EndMatchStep, EndMatch, OnSides, omsVars
<1>12. CASE SettleLogged
  <2>1. PICK t, b, s, q : t = Head(trades) /\ b = t.buy /\ s = t.sell /\ q = t.qty
    OBVIOUS
  <2>2. trades # <<>> /\ FillBoth(b, s, q) /\ trades' = Tail(trades) /\ UNCHANGED <<bids, asks>>
    BY <1>12, <2>1 DEF SettleLogged, Settle, NextTrade
  <2>3. b \in DOMAIN orders /\ s \in DOMAIN orders /\ q \in Nat
    BY <1>1, <2>1, <2>2, TradeParties
  <2>4. KeptIn(orders, orders')
    BY <1>1, <2>2, <2>3, BothFilled DEF Filling
  <2> QED
    BY <1>1, <2>2, <2>4, SidesSame
<1>13. CASE SettleRaisesLogged
  <2>1. PICK t, b, s, q : t = Head(trades) /\ b = t.buy /\ s = t.sell /\ q = t.qty
    OBVIOUS
  <2>2. /\ trades # <<>> /\ FillBothRaising(b, s, q) /\ TradeRaises(b, s, q)
        /\ trades' = <<>> /\ UNCHANGED <<bids, asks>>
    BY <1>13, <2>1 DEF SettleRaisesLogged, SettleRaises
  <2>3. b \in DOMAIN orders /\ s \in DOMAIN orders /\ q \in Nat \ {0}
    BY <1>1, <2>1, <2>2, TradeParties
  <2>4. KeptIn(orders, orders')
    BY <1>1, <2>2, <2>3, BothFilledRaising DEF Filling
  <2>5. Len(trades') = 0
    BY <2>2, EmptySeq
  <2> QED
    BY <2>2, <2>4, <2>5, SidesSame
<1>14. ASSUME NEW o \in OrderIds, FillAtMarketLogged(o) PROVE OnSides'
  <2>1. PICK q : q = Remaining(orders[o])
    OBVIOUS
  <2>2. /\ o \in DOMAIN orders /\ orders' = [orders EXCEPT ![o] = Fill(orders[o], q)] /\ UNCHANGED meVars
    BY <1>1, <1>14, <2>1 DEF FillAtMarketLogged, FillAtMarket, FillFromMarket, TradingOK, AppTypeOK
  <2>3. q \in Nat
    BY <1>1, <1>14, <2>1, <2>2 DEF FillAtMarketLogged, FillAtMarket, UpInv, ScanLeft, OMSTypeOK,
                                   Orders, TicketType, Remaining
  <2>4. KeptIn(orders, orders')
    BY <1>1, <2>2, <2>3, FillingOne DEF Filling, OMSTypeOK
  <2> QED
    BY <2>2, <2>4, SidesSame DEF meVars
<1> HIDE DEF OnSides
<1>15. CASE LoggedHandlers
  BY <1>3, <1>4, <1>5, <1>6, <1>7, <1>8, <1>9, <1>15 DEF LoggedHandlers
<1>16. CASE LoggedContinue
  BY <1>10, <1>11, <1>12, <1>13, <1>14, <1>16 DEF LoggedContinue
<1> QED
  BY <1>15, <1>16

\* The books that cold start rebuilds.
LEMMA RebuiltSides ==
  ASSUME RecTypeOK, DownInv, RebuildBooks
  PROVE  OnSides'
<1>1. /\ replayed = Len(journal) /\ orders' = orders /\ trades' = trades
      /\ bids' = [s \in Symbols |-> RebuiltSide(s, "BUY")]
      /\ asks' = [s \in Symbols |-> RebuiltSide(s, "SELL")]
  BY DEF RebuildBooks, omsVars
<1>2. /\ LogTypeOK /\ journal \in Seq(LogEvents) /\ DOMAIN journal = 1..Len(journal)
  BY LenProperties DEF RecTypeOK, LogTypeOK
<1>3. LogFits(journal, orders)
  <2>1. /\ DOMAIN orders = PlacedBy(journal, Len(journal))
        /\ \A o \in DOMAIN orders : Told(journal, Len(journal), o, orders[o])
        /\ LogFits(journal, before.orders)
    BY <1>1 DEF DownInv, ReplayedOrders, BeforeOK
  <2>2. orders \in [DOMAIN orders -> Orders]
    BY DEF RecTypeOK, TradingOK, OMSTypeOK
  <2> QED
    BY <1>2, <2>1, <2>2, ToldFits
<1>4. ASSUME NEW side \in Sides, NEW o \in RebuildableOn(side) PROVE Sided(orders, o, side)
  <2>1. PICK i \in 1..Len(journal) : /\ journal[i].kind = "placed" /\ journal[i].ticket.side = side
                                     /\ journal[i].order = o
    BY <1>2 DEF RebuildableOn, GoesOnBook
  <2>2. o \in DOMAIN orders /\ orders[o].ticket = journal[i].ticket
    BY <1>3, <2>1 DEF LogFits, FitsAt
  <2> QED
    BY <2>1, <2>2 DEF Sided
<1>5. \A s \in Symbols : /\ OrdersOn(RebuiltSide(s, "BUY")) \subseteq RebuildableOn("BUY")
                         /\ OrdersOn(RebuiltSide(s, "SELL")) \subseteq RebuildableOn("SELL")
  BY <1>2, RebuiltSideOK DEF Sides
<1>6. \A s \in Symbols : /\ \A o \in OrdersOn(bids'[s]) : Sided(orders', o, "BUY")
                         /\ \A o \in OrdersOn(asks'[s]) : Sided(orders', o, "SELL")
  BY <1>1, <1>4, <1>5 DEF Sides
<1>7. Len(trades') = 0
  BY <1>1, EmptySeq DEF DownInv, Idle, MEIdle
<1> QED
  BY <1>6, <1>7 DEF OnSides

-----------------------------------------------------------------------------
(* Counting in a log: the sum, over its first n events, of what each is worth. *)

Worth == [LogEvents -> Nat]

Tally(log, n, worth) == SumOver([i \in 1..n |-> worth[log[i]]], 1..n)

LEMMA TallyNone == ASSUME NEW log, NEW worth PROVE Tally(log, 0, worth) = 0
<1>1. 1..0 = {} /\ IsFiniteSet(1..0)
  BY FS_Interval
<1> QED
  BY <1>1, SumStep DEF Tally

LEMMA TallyTerms ==
  ASSUME NEW log \in Seq(LogEvents), NEW worth \in Worth, NEW n \in 0..Len(log)
  PROVE  /\ IsFiniteSet(1..n) /\ n \in Nat
         /\ \A i \in 1..n : log[i] \in LogEvents /\ worth[log[i]] \in Nat
<1>1. Len(log) \in Nat
  BY LenProperties
<1>2. IsFiniteSet(1..n) /\ n \in Nat
  BY <1>1, FS_Interval
<1>3. \A i \in 1..n : log[i] \in LogEvents
  BY <1>1, ElementOfSeq
<1> QED
  BY <1>2, <1>3 DEF Worth

LEMMA TallySame ==
  ASSUME NEW c, NEW d, NEW worth, NEW n \in Nat, \A i \in 1..n : c[i] = d[i]
  PROVE  Tally(c, n, worth) = Tally(d, n, worth)
<1>1. [i \in 1..n |-> worth[c[i]]] = [i \in 1..n |-> worth[d[i]]]
  OBVIOUS
<1> QED
  BY <1>1 DEF Tally

LEMMA TallyNat ==
  ASSUME NEW log \in Seq(LogEvents), NEW worth \in Worth, NEW n \in 0..Len(log)
  PROVE  Tally(log, n, worth) \in Nat
<1>1. IsFiniteSet(1..n) /\ \A i \in 1..n : worth[log[i]] \in Nat
  BY TallyTerms
<1>2. PICK f : f = [i \in 1..n |-> worth[log[i]]]
  OBVIOUS
<1>3. \A i \in 1..n : f[i] \in Nat
  BY <1>1, <1>2
<1>4. SumOver(f, 1..n) \in Nat
  BY <1>1, <1>3, SumNotNegative
<1> QED
  BY <1>2, <1>4 DEF Tally

LEMMA TallyZero ==
  ASSUME NEW log, NEW worth, NEW n \in Nat, \A i \in 1..n : worth[log[i]] = 0
  PROVE  Tally(log, n, worth) = 0
<1>1. PICK f : f = [i \in 1..n |-> worth[log[i]]]
  OBVIOUS
<1>2. IsFiniteSet(1..n) /\ \A i \in 1..n : f[i] = 0
  BY <1>1, FS_Interval
<1>3. SumOver(f, 1..n) = 0
  BY <1>2, SumOfZeros
<1> QED
  BY <1>1, <1>3 DEF Tally

LEMMA TallyNext ==
  ASSUME NEW log \in Seq(LogEvents), NEW worth \in Worth, NEW n \in Nat, n + 1 <= Len(log)
  PROVE  Tally(log, n + 1, worth) = Tally(log, n, worth) + worth[log[n + 1]]
<1>1. PICK m \in Nat : m = n + 1
  OBVIOUS
<1>2. m \in 0..Len(log) /\ n \in 0..Len(log)
  BY <1>1, LenProperties
<1>3. IsFiniteSet(1..n) /\ \A i \in 1..m : worth[log[i]] \in Nat
  BY <1>2, TallyTerms
<1>4. PICK f, g : f = [i \in 1..m |-> worth[log[i]]] /\ g = [i \in 1..n |-> worth[log[i]]]
  OBVIOUS
<1>5. 1..m = (1..n) \cup {m} /\ m \notin 1..n
  BY <1>1
<1>6. \A i \in (1..n) \cup {m} : f[i] \in Int
  <2>1. \A i \in 1..m : f[i] \in Nat
    BY <1>3, <1>4
  <2>2. \A x \in Nat : x \in Int
    OBVIOUS
  <2> QED
    BY ONLY <1>5, <2>1, <2>2, Zenon
<1>7. SumOver(f, (1..n) \cup {m}) = SumOver(f, 1..n) + f[m]
  <2>1. PICK A : A = 1..n
    OBVIOUS
  <2>2. IsFiniteSet(A) /\ m \notin A /\ \A i \in A \cup {m} : f[i] \in Int
    BY <1>3, <1>5, <1>6, <2>1
  <2>3. SumOver(f, A \cup {m}) = SumOver(f, A) + f[m]
    BY ONLY <2>2, SumAdds
  <2> QED
    BY <2>1, <2>3
<1>8. SumOver(f, 1..n) = SumOver(g, 1..n)
  <2>1. \A i \in 1..n : f[i] = g[i]
    BY <1>1, <1>4
  <2> QED
    BY <1>3, <2>1, SumSame
<1>9. f[m] = worth[log[m]]
  BY <1>1, <1>4
<1>10. Tally(log, m, worth) = SumOver(f, 1..m) /\ Tally(log, n, worth) = SumOver(g, 1..n)
  BY <1>4 DEF Tally
<1>11. SumOver(f, 1..m) = SumOver(g, 1..n) + worth[log[m]]
  BY <1>5, <1>7, <1>8, <1>9
<1> QED
  BY <1>1, <1>10, <1>11

\* An event put in counts from its place on.
LEMMA TallyInserted ==
  ASSUME NEW c \in Seq(LogEvents), NEW d \in Seq(LogEvents), NEW m, NEW e, Inserted(d, c, m, e),
         NEW worth \in Worth, NEW n \in 0..Len(d)
  PROVE  /\ n < m => n \in 0..Len(c) /\ Tally(d, n, worth) = Tally(c, n, worth)
         /\ n >= m => n - 1 \in 0..Len(c) /\ Tally(d, n, worth) = Tally(c, n - 1, worth) + worth[e]
<1>1. /\ Len(c) \in Nat /\ Len(d) = Len(c) + 1 /\ m \in 1..Len(d) /\ d[m] = e /\ m \in Nat
      /\ \A p \in 1..Len(c) : c[p] = IF p < m THEN d[p] ELSE d[p + 1]
  BY DEF Inserted
<1>2. ASSUME NEW k \in Nat, k < m PROVE k \in 0..Len(c) /\ Tally(d, k, worth) = Tally(c, k, worth)
  <2>1. k \in 0..Len(c) /\ \A i \in 1..k : i \in 1..Len(c) /\ i < m
    BY <1>1, <1>2
  <2>2. \A i \in 1..k : d[i] = c[i]
    BY <1>1, <2>1
  <2> QED
    BY <2>1, <2>2, TallySame
<1> DEFINE Good(k) == Tally(d, k, worth) = Tally(c, k - 1, worth) + worth[e]
           I == { k \in Nat : m <= k /\ k <= Len(d) /\ ~Good(k) }
<1>3. Good(m)
  <2>1. PICK k \in Nat : m = k + 1 /\ k < m /\ k = m - 1 /\ k + 1 <= Len(d)
    BY <1>1
  <2>2. Tally(d, k, worth) = Tally(c, k, worth)
    BY <1>2, <2>1
  <2>3. Tally(d, k + 1, worth) = Tally(d, k, worth) + worth[d[k + 1]]
    BY <2>1, TallyNext
  <2> QED
    BY <1>1, <2>1, <2>2, <2>3
<1>4. ASSUME NEW k \in Nat, m <= k, k + 1 <= Len(d), Good(k) PROVE Good(k + 1)
  <2>1. PICK j \in Nat : j = k - 1 /\ k = j + 1 /\ (k + 1) - 1 = k /\ k <= Len(c) /\ k \in 1..Len(c)
                         /\ ~(k < m)
    BY <1>1, <1>4
  <2>2. Tally(d, k + 1, worth) = Tally(d, k, worth) + worth[d[k + 1]]
    BY <1>4, TallyNext
  <2>3. Tally(c, k, worth) = Tally(c, j, worth) + worth[c[k]]
    BY <2>1, TallyNext
  <2>4. c[k] = d[k + 1]
    BY <1>1, <2>1
  <2>5. Tally(d, k, worth) = Tally(c, j, worth) + worth[e]
    BY <1>4, <2>1
  <2>6. /\ Tally(c, j, worth) \in Nat /\ worth[e] \in Nat /\ worth[c[k]] \in Nat
    <3>1. j \in 0..Len(c) /\ k \in 0..Len(c) /\ m \in 0..Len(d)
      BY <1>1, <2>1
    <3>2. worth[c[k]] \in Nat
      BY <2>1, <3>1, TallyTerms
    <3>3. worth[d[m]] \in Nat
      BY <1>1, <3>1, TallyTerms
    <3> QED
      BY <1>1, <3>1, <3>2, <3>3, TallyNat
  <2>7. Tally(d, k + 1, worth) = Tally(c, k, worth) + worth[e]
    <3>1. PICK x \in Nat, y \in Nat, z \in Nat : x = Tally(c, j, worth) /\ y = worth[e] /\ z = worth[c[k]]
      BY <2>6
    <3>2. Tally(d, k + 1, worth) = (x + y) + z /\ Tally(c, k, worth) = x + z
      BY <2>2, <2>3, <2>4, <2>5, <3>1
    <3>3. (x + y) + z = (x + z) + y
      OBVIOUS
    <3> QED
      BY <3>1, <3>2, <3>3
  <2> QED
    BY <2>1, <2>7
<1> HIDE DEF Good
<1>5. I = {}
  <2>1. SUFFICES ASSUME I # {} PROVE FALSE
    OBVIOUS
  <2>2. PICK k \in I : \A i \in I : k <= i
    <3> HIDE DEF I
    <3>1. I \in SUBSET Nat
      BY DEF I
    <3> QED
      BY <2>1, <3>1, NatMinimum
  <2>3. k \in Nat /\ m <= k /\ k <= Len(d) /\ ~Good(k)
    BY <2>2
  <2>4. k # m
    BY <1>3, <2>3
  <2>5. PICK j \in Nat : k = j + 1 /\ m <= j /\ j <= Len(d) /\ j + 1 <= Len(d) /\ ~(k <= j)
    BY <1>1, <2>3, <2>4
  <2>6. Good(j)
    BY <2>2, <2>5
  <2> QED
    BY <1>4, <2>3, <2>5, <2>6
<1>6. n >= m => Good(n)
  BY <1>1, <1>5
<1>7. n >= m => n - 1 \in 0..Len(c)
  BY <1>1
<1>8. n < m => n \in Nat
  BY <1>1
<1> QED
  BY <1>2, <1>6, <1>7, <1>8 DEF Good

-----------------------------------------------------------------------------
(* What is counted of an order: its fills, its trades, and how much the trades *)
(* say was filled.                                                            *)

FillsOf(o) == [e \in LogEvents |-> IF e.kind = "filled" /\ e.order = o THEN 1 ELSE 0]

TradesOf(o) == [e \in LogEvents |-> IF e.kind = "trade" /\ o \in {e.buy, e.sell} THEN 1 ELSE 0]

FilledBy(o) == [e \in LogEvents |-> FillIn(e, o)]

LEMMA CountsOfOrders ==
  ASSUME NEW o
  PROVE  FillsOf(o) \in Worth /\ TradesOf(o) \in Worth /\ FilledBy(o) \in Worth
<1>1. \A e \in LogEvents : FillIn(e, o) \in Nat
  <2>1. SUFFICES ASSUME NEW e \in LogEvents PROVE FillIn(e, o) \in Nat
    OBVIOUS
  <2>2. CASE e.kind = "trade"
    <3>1. e.qty \in Nat
      BY <2>2, EventFields
    <3> QED
      BY <3>1 DEF FillIn
  <2>3. CASE e.kind # "trade"
    BY <2>3 DEF FillIn
  <2> QED
    BY <2>2, <2>3
<1> QED
  BY <1>1 DEF Worth, FillsOf, TradesOf, FilledBy

\* How many events of a kind there are is the tally of ones.
LEMMA CountIsTally ==
  ASSUME NEW log \in Seq(LogEvents), NEW worth \in Worth, \A e \in LogEvents : worth[e] \in {0, 1},
         NEW n \in 0..Len(log)
  PROVE  Cardinality({ i \in 1..n : worth[log[i]] = 1 }) = Tally(log, n, worth)
<1> DEFINE C(k) == { i \in 1..k : worth[log[i]] = 1 }
           Good(k) == IsFiniteSet(C(k)) /\ Cardinality(C(k)) = Tally(log, k, worth)
           I == { k \in Nat : k <= Len(log) /\ ~Good(k) }
<1>1. Good(0)
  <2>1. C(0) = {}
    OBVIOUS
  <2> QED
    BY <2>1, TallyNone, FS_EmptySet
<1>2. ASSUME NEW k \in Nat, NEW j \in Nat, j = k + 1, j <= Len(log), Good(k) PROVE Good(j)
  <2>1. j \in 1..j /\ j \notin 1..k /\ k + 1 <= Len(log)
    BY <1>2
  <2>2. PICK v : v = worth[log[j]]
    OBVIOUS
  <2>3. v \in {0, 1}
    <3>1. j \in 1..Len(log)
      BY <1>2, <2>1, LenProperties
    <3>2. log[j] \in LogEvents
      BY <3>1, ElementOfSeq
    <3> QED
      BY <2>2, <3>2
  <2>4. Tally(log, j, worth) = Tally(log, k, worth) + v
    BY <1>2, <2>1, <2>2, TallyNext
  <2>5. \A i : i \in 1..j <=> i \in 1..k \/ i = j
    BY <1>2, <2>1
  <2>6. Tally(log, k, worth) \in Nat
    <3>1. k \in 0..Len(log)
      BY <1>2, <2>1, LenProperties
    <3> QED
      BY <3>1, TallyNat
  <2>7. CASE v = 1
    <3>1. C(j) = C(k) \cup {j} /\ j \notin C(k)
      BY <2>1, <2>2, <2>5, <2>7
    <3>2. IsFiniteSet(C(j)) /\ Cardinality(C(j)) = Cardinality(C(k)) + 1
      <4>1. PICK A : A = C(k)
        OBVIOUS
      <4>2. IsFiniteSet(A) /\ j \notin A
        BY <1>2, <3>1, <4>1
      <4>3. IsFiniteSet(A \cup {j}) /\ Cardinality(A \cup {j}) = Cardinality(A) + 1
        BY <4>2, FS_AddElement
      <4> QED
        BY <3>1, <4>1, <4>3
    <3>3. Tally(log, j, worth) = Tally(log, k, worth) + 1
      BY <2>4, <2>7
    <3>4. Cardinality(C(k)) = Tally(log, k, worth)
      BY <1>2
    <3>5. Cardinality(C(j)) = Tally(log, j, worth)
      BY <3>2, <3>3, <3>4
    <3> QED
      BY <3>2, <3>5
  <2>8. CASE v = 0
    <3>1. C(j) = C(k)
      <4>1. worth[log[j]] # 1
        BY <2>2, <2>8
      <4> QED
        BY <2>5, <4>1
    <3>2. Tally(log, j, worth) = Tally(log, k, worth)
      BY <2>4, <2>6, <2>8
    <3> QED
      BY <1>2, <2>1, <3>1, <3>2
  <2> QED
    BY <2>3, <2>7, <2>8
<1> HIDE DEF Good
<1>3. I = {}
  <2>1. SUFFICES ASSUME I # {} PROVE FALSE
    OBVIOUS
  <2>2. PICK k \in I : \A i \in I : k <= i
    <3> HIDE DEF I
    <3>1. I \in SUBSET Nat
      BY DEF I
    <3> QED
      BY <2>1, <3>1, NatMinimum
  <2>3. k \in Nat /\ k <= Len(log) /\ ~Good(k) /\ Len(log) \in Nat
    BY <2>2, LenProperties
  <2>4. k # 0
    BY <1>1, <2>3
  <2>5. PICK j \in Nat : k = j + 1 /\ j <= Len(log) /\ j + 1 <= Len(log) /\ ~(k <= j)
    BY <2>3, <2>4
  <2>6. Good(j)
    BY <2>2, <2>5
  <2> QED
    BY <1>2, <2>3, <2>5, <2>6
<1>4. n \in Nat /\ n <= Len(log)
  BY LenProperties
<1>5. Good(n)
  BY <1>3, <1>4
<1> QED
  BY <1>5 DEF Good

\* The sum and the counts that cold start's blocking is about, as tallies.
LEMMA JournalCounts ==
  ASSUME LogTypeOK, NEW o
  PROVE  /\ LoggedFill(o) = Tally(journal, Len(journal), FilledBy(o))
         /\ TradeTorn(o) <=> Tally(journal, Len(journal), FillsOf(o))
                               < Tally(journal, Len(journal), TradesOf(o))
<1>1. /\ journal \in Seq(LogEvents) /\ Len(journal) \in Nat /\ Len(journal) \in 0..Len(journal)
      /\ DOMAIN journal = 1..Len(journal) /\ \A i \in 1..Len(journal) : journal[i] \in LogEvents
  BY LenProperties, ElementOfSeq DEF LogTypeOK
<1>2. LoggedFill(o) = Tally(journal, Len(journal), FilledBy(o))
  <2>1. PICK f, g : /\ f = [i \in 1..Len(journal) |-> FillIn(journal[i], o)]
                    /\ g = [i \in 1..Len(journal) |-> FilledBy(o)[journal[i]]]
    OBVIOUS
  <2>2. \A i \in 1..Len(journal) : f[i] = g[i]
    BY <1>1, <2>1 DEF FilledBy
  <2>3. SumOver(f, 1..Len(journal)) = SumOver(g, 1..Len(journal))
    <3>1. PICK A : A = 1..Len(journal)
      OBVIOUS
    <3>2. IsFiniteSet(A) /\ \A i \in A : f[i] = g[i]
      BY <1>1, <2>2, <3>1, FS_Interval
    <3>3. SumOver(f, A) = SumOver(g, A)
      BY ONLY <3>2, SumSame
    <3> QED
      BY <3>1, <3>3
  <2> QED
    BY <1>1, <2>1, <2>3 DEF LoggedFill, Tally
<1>3. Cardinality({ i \in DOMAIN journal : journal[i].kind = "filled" /\ journal[i].order = o })
        = Tally(journal, Len(journal), FillsOf(o))
  <2>1. \A e \in LogEvents : /\ FillsOf(o)[e] \in {0, 1}
                             /\ FillsOf(o)[e] = 1 <=> e.kind = "filled" /\ e.order = o
    BY DEF FillsOf
  <2>2. Cardinality({ i \in 1..Len(journal) : FillsOf(o)[journal[i]] = 1 })
          = Tally(journal, Len(journal), FillsOf(o))
    BY <1>1, <2>1, CountsOfOrders, CountIsTally
  <2>3. { i \in 1..Len(journal) : FillsOf(o)[journal[i]] = 1 }
          = { i \in DOMAIN journal : journal[i].kind = "filled" /\ journal[i].order = o }
    BY <1>1, <2>1
  <2> QED
    BY <2>2, <2>3
<1>4. Cardinality({ i \in DOMAIN journal : journal[i].kind = "trade"
                                             /\ o \in {journal[i].buy, journal[i].sell} })
        = Tally(journal, Len(journal), TradesOf(o))
  <2>1. \A e \in LogEvents : /\ TradesOf(o)[e] \in {0, 1}
                             /\ TradesOf(o)[e] = 1 <=> e.kind = "trade" /\ o \in {e.buy, e.sell}
    BY DEF TradesOf
  <2>2. Cardinality({ i \in 1..Len(journal) : TradesOf(o)[journal[i]] = 1 })
          = Tally(journal, Len(journal), TradesOf(o))
    BY <1>1, <2>1, CountsOfOrders, CountIsTally
  <2>3. { i \in 1..Len(journal) : TradesOf(o)[journal[i]] = 1 }
          = { i \in DOMAIN journal : journal[i].kind = "trade"
                                       /\ o \in {journal[i].buy, journal[i].sell} }
    BY <1>1, <2>1
  <2> QED
    BY <2>2, <2>3
<1>5. TradeTorn(o) <=>
        Cardinality({ i \in DOMAIN journal : journal[i].kind = "filled" /\ journal[i].order = o })
          < Cardinality({ i \in DOMAIN journal : journal[i].kind = "trade"
                                                   /\ o \in {journal[i].buy, journal[i].sell} })
  BY DEF TradeTorn, Logged
<1> QED
  BY <1>2, <1>3, <1>4, <1>5

-----------------------------------------------------------------------------
(* What the log says of fills and cancels, whatever became of the orders.  It *)
(* holds of every first part of a log of which it holds, so also of what a    *)
(* crash leaves.                                                              *)

\* The orders that an event speaks of, other than to place them.
Mentions(e) == IF e.kind = "trade" THEN {e.buy, e.sell}
               ELSE IF e.kind \in {"filled", "status"} THEN {e.order} ELSE {}

Places(e, o) == e.kind = "placed" /\ e.order = o

Cancels(e, o) == e.kind = "status" /\ e.status = "CANCELED" /\ e.order = o

Introduced(log) ==
  \A i \in 1..Len(log) : \A o \in Mentions(log[i]) :
    \E k \in 1..Len(log) : k < i /\ Places(log[k], o)

CanceledLast(log) ==
  \A i, j \in 1..Len(log) :
    i < j /\ Cancels(log[i], log[i].order) /\ About(log[j], log[i].order, StatusEvents)
    => StatusAfter(log[j]) = "CANCELED"

\* Of the first n events: no fill of o without its trade, and when every trade has
\* its fill, the last one says as much as the trades or all that was ordered.
Counted(log, n, o, qty) ==
  /\ Tally(log, n, FillsOf(o)) <= Tally(log, n, TradesOf(o))
  /\ Tally(log, n, FillsOf(o)) = Tally(log, n, TradesOf(o)) =>
       \A x \in LogEvents : LastEvent(log, n, o, FillEvents, x) =>
         FilledAfter(x) >= Tally(log, n, FilledBy(o)) \/ FilledAfter(x) >= qty

FillsCounted(log) ==
  \A k \in 1..Len(log) : log[k].kind = "placed" =>
    \A n \in 0..Len(log) : Counted(log, n, log[k].order, log[k].ticket.qty)

LogCounts(log) == Introduced(log) /\ CanceledLast(log) /\ FillsCounted(log)

\* Where the events of d are in c, when d is c with e put in at m.
LEMMA InsertedBack ==
  ASSUME NEW c, NEW d, NEW m, NEW e, Inserted(d, c, m, e)
  PROVE  /\ m \in Nat /\ m \in 1..Len(d) /\ d[m] = e /\ Len(c) \in Nat /\ Len(d) = Len(c) + 1
         /\ \A p \in 1..Len(d) : p < m => p \in 1..Len(c) /\ d[p] = c[p]
         /\ \A p \in 1..Len(d) : p > m => p - 1 \in 1..Len(c) /\ p - 1 >= m /\ d[p] = c[p - 1]
         /\ \A p \in 1..Len(c) : p < m => p \in 1..Len(d) /\ d[p] = c[p]
         /\ \A p \in 1..Len(c) : p >= m => p + 1 \in 1..Len(d) /\ p + 1 > m /\ d[p + 1] = c[p]
         /\ \A p \in 1..Len(d) : \/ p = m
                                 \/ \E q \in 1..Len(c) : d[p] = c[q]
         /\ \A p \in 1..Len(c) : \E q \in 1..Len(d) : d[q] = c[p] /\ q # m
<1>1. /\ Len(c) \in Nat /\ Len(d) = Len(c) + 1 /\ m \in 1..Len(d) /\ d[m] = e /\ m \in Nat
      /\ \A p \in 1..Len(c) : c[p] = IF p < m THEN d[p] ELSE d[p + 1]
  BY DEF Inserted
<1>2. ASSUME NEW p \in 1..Len(d), p < m PROVE p \in 1..Len(c) /\ d[p] = c[p]
  <2>1. p \in 1..Len(c)
    BY <1>1, <1>2
  <2> QED
    BY <1>1, <1>2, <2>1
<1>3. ASSUME NEW p \in 1..Len(d), p > m PROVE p - 1 \in 1..Len(c) /\ p - 1 >= m /\ d[p] = c[p - 1]
  <2>1. p - 1 \in 1..Len(c) /\ p - 1 >= m /\ ~(p - 1 < m) /\ (p - 1) + 1 = p
    BY <1>1, <1>3
  <2> QED
    BY <1>1, <2>1
<1>4. ASSUME NEW p \in 1..Len(c), p < m PROVE p \in 1..Len(d) /\ d[p] = c[p]
  BY <1>1, <1>4
<1>5. ASSUME NEW p \in 1..Len(c), p >= m PROVE p + 1 \in 1..Len(d) /\ p + 1 > m /\ d[p + 1] = c[p]
  <2>1. ~(p < m) /\ p + 1 \in 1..Len(d) /\ p + 1 > m
    BY <1>1, <1>5
  <2> QED
    BY <1>1, <2>1
<1>6. ASSUME NEW p \in 1..Len(d) PROVE p = m \/ \E q \in 1..Len(c) : d[p] = c[q]
  <2>1. p < m \/ p = m \/ p > m
    BY <1>1
  <2> QED
    BY <1>2, <1>3, <2>1
<1>7. ASSUME NEW p \in 1..Len(c) PROVE \E q \in 1..Len(d) : d[q] = c[p] /\ q # m
  <2>1. p < m \/ p >= m
    BY <1>1
  <2>2. p >= m => p + 1 # m
    BY <1>1
  <2> QED
    BY <1>1, <1>4, <1>5, <2>1, <2>2
<1> QED
  BY <1>1, <1>2, <1>3, <1>4, <1>5, <1>6, <1>7

LEMMA LastBefore ==
  ASSUME NEW c, NEW d, NEW n \in Nat, \A i \in 1..n : c[i] = d[i],
         NEW o, NEW kinds, NEW x, LastEvent(d, n, o, kinds, x)
  PROVE  LastEvent(c, n, o, kinds, x)
BY DEF LastEvent

LEMMA LastShort ==
  ASSUME NEW c, NEW d, NEW m, NEW e, Inserted(d, c, m, e), NEW n \in m..Len(d),
         NEW o, NEW kinds, NEW x, ~About(e, o, kinds), LastEvent(d, n, o, kinds, x)
  PROVE  LastEvent(c, n - 1, o, kinds, x)
<1>1. /\ m \in Nat /\ m \in 1..Len(d) /\ d[m] = e /\ Len(c) \in Nat /\ Len(d) = Len(c) + 1
      /\ \A p \in 1..Len(d) : p < m => p \in 1..Len(c) /\ d[p] = c[p]
      /\ \A p \in 1..Len(d) : p > m => p - 1 \in 1..Len(c) /\ p - 1 >= m /\ d[p] = c[p - 1]
      /\ \A p \in 1..Len(c) : p < m => p \in 1..Len(d) /\ d[p] = c[p]
      /\ \A p \in 1..Len(c) : p >= m => p + 1 \in 1..Len(d) /\ p + 1 > m /\ d[p + 1] = c[p]
  BY InsertedBack
<1>2. PICK i \in 1..n : d[i] = x /\ \A j \in 1..n : About(d[j], o, kinds) => j <= i
  BY DEF LastEvent
<1>3. About(x, o, kinds) /\ i # m /\ i \in 1..Len(d) /\ n \in Nat
  BY <1>1, <1>2 DEF LastEvent
<1>4. PICK k \in 1..n-1 : c[k] = x /\ k = IF i < m THEN i ELSE i - 1
  <2>1. CASE i < m
    <3>1. i \in 1..n-1
      BY <1>1, <1>3, <2>1
    <3> QED
      BY <1>1, <1>2, <1>3, <2>1, <3>1
  <2>2. CASE i > m
    <3>1. i - 1 \in 1..n-1 /\ ~(i < m)
      BY <1>1, <1>3, <2>2
    <3> QED
      BY <1>1, <1>2, <1>3, <2>2, <3>1
  <2>3. i < m \/ i > m
    BY <1>1, <1>3
  <2> QED
    BY <2>1, <2>2, <2>3
<1>5. ASSUME NEW j \in 1..n-1, About(c[j], o, kinds) PROVE j <= k
  <2>1. j \in 1..Len(c)
    BY <1>1
  <2>2. CASE j < m
    <3>1. j \in 1..n /\ d[j] = c[j]
      BY <1>1, <2>1, <2>2
    <3>2. j <= i
      BY <1>2, <1>5, <3>1
    <3> QED
      BY <1>1, <1>3, <1>4, <2>2, <3>2
  <2>3. CASE j >= m
    <3>1. j + 1 \in 1..n /\ d[j + 1] = c[j]
      BY <1>1, <2>1, <2>3
    <3>2. j + 1 <= i
      BY <1>2, <1>5, <3>1
    <3> QED
      BY <1>1, <1>3, <1>4, <2>3, <3>2
  <2>4. j < m \/ j >= m
    BY <1>1
  <2> QED
    BY <2>2, <2>3, <2>4
<1> QED
  BY <1>3, <1>4, <1>5 DEF LastEvent

LEMMA IntroducedGrows ==
  ASSUME NEW c, NEW d, NEW m, NEW e, Inserted(d, c, m, e), Introduced(c),
         \A o \in Mentions(e) : \E k \in 1..Len(c) : k < m /\ Places(c[k], o)
  PROVE  Introduced(d)
<1>1. /\ m \in Nat /\ m \in 1..Len(d) /\ d[m] = e /\ Len(c) \in Nat /\ Len(d) = Len(c) + 1
      /\ \A p \in 1..Len(d) : p < m => p \in 1..Len(c) /\ d[p] = c[p]
      /\ \A p \in 1..Len(d) : p > m => p - 1 \in 1..Len(c) /\ p - 1 >= m /\ d[p] = c[p - 1]
      /\ \A p \in 1..Len(c) : p < m => p \in 1..Len(d) /\ d[p] = c[p]
      /\ \A p \in 1..Len(c) : p >= m => p + 1 \in 1..Len(d) /\ p + 1 > m /\ d[p + 1] = c[p]
  BY InsertedBack
<1>2. SUFFICES ASSUME NEW i \in 1..Len(d), NEW o \in Mentions(d[i])
               PROVE  \E k \in 1..Len(d) : k < i /\ Places(d[k], o)
  BY DEF Introduced
<1>3. CASE i < m
  <2>1. PICK k \in 1..Len(c) : k < i /\ Places(c[k], o)
    BY <1>1, <1>3 DEF Introduced
  <2>2. k < m
    BY <1>1, <1>3, <2>1
  <2> QED
    BY <1>1, <2>1, <2>2
<1>4. CASE i = m
  <2>1. PICK k \in 1..Len(c) : k < m /\ Places(c[k], o)
    BY <1>1, <1>4
  <2> QED
    BY <1>1, <1>4, <2>1
<1>5. CASE i > m
  <2>1. PICK j \in 1..Len(c) : j = i - 1 /\ d[i] = c[j] /\ j >= m
    BY <1>1, <1>5
  <2>2. PICK k \in 1..Len(c) : k < j /\ Places(c[k], o)
    BY <1>2, <2>1 DEF Introduced
  <2>3. CASE k < m
    <3>1. k \in 1..Len(d) /\ d[k] = c[k] /\ k < i
      BY <1>1, <1>5, <2>3
    <3> QED
      BY <2>2, <3>1
  <2>4. CASE k >= m
    <3>1. k + 1 \in 1..Len(d) /\ d[k + 1] = c[k] /\ k + 1 < i
      BY <1>1, <2>1, <2>2, <2>4
    <3> QED
      BY <2>2, <3>1
  <2>5. k < m \/ k >= m
    BY <1>1
  <2> QED
    BY <2>3, <2>4, <2>5
<1>6. i < m \/ i = m \/ i > m
  BY <1>1
<1> QED
  BY <1>3, <1>4, <1>5, <1>6

LEMMA CanceledStaysLast ==
  ASSUME NEW c, NEW d, NEW m, NEW e, Inserted(d, c, m, e), CanceledLast(c),
         e.kind = "status" => m = Len(d),
         e.kind \in StatusEvents /\ (\E i \in 1..Len(c) : Cancels(c[i], e.order))
           => StatusAfter(e) = "CANCELED"
  PROVE  CanceledLast(d)
<1>1. /\ m \in Nat /\ m \in 1..Len(d) /\ d[m] = e /\ Len(c) \in Nat /\ Len(d) = Len(c) + 1
      /\ \A p \in 1..Len(d) : p < m => p \in 1..Len(c) /\ d[p] = c[p]
      /\ \A p \in 1..Len(d) : p > m => p - 1 \in 1..Len(c) /\ p - 1 >= m /\ d[p] = c[p - 1]
  BY InsertedBack
<1>2. SUFFICES ASSUME NEW i \in 1..Len(d), NEW j \in 1..Len(d), i < j,
                      Cancels(d[i], d[i].order), About(d[j], d[i].order, StatusEvents)
               PROVE  StatusAfter(d[j]) = "CANCELED"
  BY DEF CanceledLast
<1>3. i # m
  <2>1. i = m => m = Len(d)
    BY <1>1, <1>2 DEF Cancels
  <2> QED
    BY <1>1, <1>2, <2>1
<1>4. PICK a \in 1..Len(c) : d[i] = c[a] /\ a = IF i < m THEN i ELSE i - 1
  <2>1. i < m \/ i > m
    BY <1>1, <1>3
  <2>2. i > m => ~(i < m)
    BY <1>1
  <2> QED
    BY <1>1, <2>1, <2>2
<1>5. CASE j = m
  BY <1>1, <1>2, <1>4, <1>5 DEF About
<1>6. CASE j # m
  <2>1. PICK b \in 1..Len(c) : d[j] = c[b] /\ b = IF j < m THEN j ELSE j - 1
    <3>1. j < m \/ j > m
      BY <1>1, <1>6
    <3>2. j > m => ~(j < m)
      BY <1>1
    <3> QED
      BY <1>1, <3>1, <3>2
  <2>2. a < b
    BY <1>1, <1>2, <1>3, <1>4, <1>6, <2>1
  <2> QED
    BY <1>2, <1>4, <2>1, <2>2 DEF CanceledLast
<1> QED
  BY <1>5, <1>6

LEMMA EventWorth ==
  ASSUME NEW e \in LogEvents, NEW o
  PROVE  /\ FillsOf(o)[e] \in {0, 1} /\ TradesOf(o)[e] \in {0, 1} /\ FilledBy(o)[e] \in Nat
         /\ ~About(e, o, FillEvents) => FillsOf(o)[e] = 0
         /\ TradesOf(o)[e] = 0 => FilledBy(o)[e] = 0
         /\ e.kind = "filled" /\ e.order = o => FillsOf(o)[e] = 1
         /\ e.kind # "trade" => TradesOf(o)[e] = 0
         /\ e.kind = "trade" /\ o \in {e.buy, e.sell} => TradesOf(o)[e] = 1
         /\ e.kind = "trade" /\ o \notin {e.buy, e.sell} => TradesOf(o)[e] = 0
         /\ FilledBy(o)[e] = FillIn(e, o)
         /\ o \notin Mentions(e) => FillsOf(o)[e] = 0 /\ TradesOf(o)[e] = 0
<1>1. FilledBy(o) \in Worth
  BY CountsOfOrders
<1>2. FilledBy(o)[e] = FillIn(e, o) /\ FilledBy(o)[e] \in Nat
  BY <1>1 DEF FilledBy, Worth
<1>3. /\ FillsOf(o)[e] = IF e.kind = "filled" /\ e.order = o THEN 1 ELSE 0
      /\ TradesOf(o)[e] = IF e.kind = "trade" /\ o \in {e.buy, e.sell} THEN 1 ELSE 0
  BY DEF FillsOf, TradesOf
<1>4. TradesOf(o)[e] = 0 => FilledBy(o)[e] = 0
  BY <1>2, <1>3 DEF FillIn
<1>5. ~About(e, o, FillEvents) => FillsOf(o)[e] = 0
  BY <1>3 DEF About, FillEvents
<1>6. o \notin Mentions(e) => FillsOf(o)[e] = 0 /\ TradesOf(o)[e] = 0
  BY <1>3 DEF Mentions
<1> QED
  BY <1>2, <1>3, <1>4, <1>5, <1>6

LEMMA OrderTallies ==
  ASSUME NEW log \in Seq(LogEvents), NEW n \in 0..Len(log), NEW o
  PROVE  /\ Tally(log, n, FillsOf(o)) \in Nat
         /\ Tally(log, n, TradesOf(o)) \in Nat
         /\ Tally(log, n, FilledBy(o)) \in Nat
BY CountsOfOrders, TallyNat

\* Before the place where an event came in, nothing changes.
LEMMA CountedBefore ==
  ASSUME NEW c \in Seq(LogEvents), NEW d \in Seq(LogEvents), NEW m, NEW e, Inserted(d, c, m, e),
         NEW o, NEW qty, NEW n \in 0..Len(d), n < m, \A k \in 0..Len(c) : Counted(c, k, o, qty)
  PROVE  Counted(d, n, o, qty)
<1>1. /\ n \in 0..Len(c) /\ Tally(d, n, FillsOf(o)) = Tally(c, n, FillsOf(o))
      /\ Tally(d, n, TradesOf(o)) = Tally(c, n, TradesOf(o))
      /\ Tally(d, n, FilledBy(o)) = Tally(c, n, FilledBy(o))
  BY CountsOfOrders, TallyInserted
<1>2. n \in Nat /\ \A i \in 1..n : c[i] = d[i]
  <2>1. m \in Nat /\ \A p \in 1..Len(d) : p < m => d[p] = c[p]
    BY InsertedBack
  <2>2. n \in Nat /\ Len(d) \in Nat /\ \A i \in 1..n : i \in 1..Len(d) /\ i < m
    BY <2>1, LenProperties
  <2> QED
    BY <2>1, <2>2
<1>3. \A x : LastEvent(d, n, o, FillEvents, x) => LastEvent(c, n, o, FillEvents, x)
  BY <1>2, LastBefore
<1>4. Counted(c, n, o, qty)
  BY <1>1
<1> QED
  BY <1>1, <1>3, <1>4 DEF Counted

\* An event that does not fill the order: either it is a trade of the order, which
\* then waits for its fill, or it counts nothing.
LEMMA CountedKept ==
  ASSUME NEW c \in Seq(LogEvents), NEW d \in Seq(LogEvents), NEW m, NEW e \in LogEvents,
         Inserted(d, c, m, e), NEW o, NEW qty, ~About(e, o, FillEvents), NEW n \in 0..Len(d),
         \A k \in 0..Len(c) : Counted(c, k, o, qty)
  PROVE  Counted(d, n, o, qty)
<1>1. CASE n < m
  BY <1>1, CountedBefore
<1>2. CASE n >= m
  <2>1. PICK k \in 0..Len(c) : k = n - 1
    BY <1>2, CountsOfOrders, TallyInserted
  <2>2. PICK F \in Nat, T \in Nat, q \in Nat, f \in {0}, t \in {0, 1}, p \in Nat :
          /\ F = Tally(c, k, FillsOf(o)) /\ T = Tally(c, k, TradesOf(o)) /\ q = Tally(c, k, FilledBy(o))
          /\ f = FillsOf(o)[e] /\ t = TradesOf(o)[e] /\ p = FilledBy(o)[e] /\ (t = 0 => p = 0)
    BY OrderTallies, EventWorth
  <2>3. /\ Tally(d, n, FillsOf(o)) = F + f /\ Tally(d, n, TradesOf(o)) = T + t
        /\ Tally(d, n, FilledBy(o)) = q + p
    <3>1. FillsOf(o) \in Worth /\ TradesOf(o) \in Worth /\ FilledBy(o) \in Worth
      BY CountsOfOrders
    <3>2. \A w \in Worth : Tally(d, n, w) = Tally(c, n - 1, w) + w[e]
      BY <1>2, TallyInserted
    <3> QED
      BY <2>1, <2>2, <3>1, <3>2
  <2>4. \A x : LastEvent(d, n, o, FillEvents, x) => LastEvent(c, k, o, FillEvents, x)
    <3>1. n \in m..Len(d)
      BY <1>2, InsertedBack, LenProperties
    <3> QED
      BY <2>1, <3>1, LastShort
  <2>5. /\ F <= T
        /\ F = T => \A x \in LogEvents : LastEvent(c, k, o, FillEvents, x) =>
                      FilledAfter(x) >= q \/ FilledAfter(x) >= qty
    BY <2>2 DEF Counted
  <2>6. F + f <= T + t /\ (F + f = T + t => F = T /\ t = 0 /\ q + p = q)
    BY <2>2, <2>5
  <2>7. F + f = T + t => \A x \in LogEvents : LastEvent(d, n, o, FillEvents, x) =>
                      FilledAfter(x) >= q + p \/ FilledAfter(x) >= qty
    BY <2>4, <2>5, <2>6
  <2> QED
    BY <2>3, <2>6, <2>7 DEF Counted
<1>3. n < m \/ n >= m
  BY InsertedBack
<1> QED
  BY <1>1, <1>2, <1>3

\* The log waits for the fill of an order that leaves it as new says.
Awaits(log, o, new) ==
  /\ Tally(log, Len(log), FillsOf(o)) < Tally(log, Len(log), TradesOf(o))
  /\ Tally(log, Len(log), FillsOf(o)) + 1 = Tally(log, Len(log), TradesOf(o)) =>
       new.filled >= Tally(log, Len(log), FilledBy(o)) \/ new.filled >= new.ticket.qty
  /\ \E k \in 1..Len(log) : Places(log[k], o)
  /\ \A k \in 1..Len(log) : Places(log[k], o) => log[k].ticket.qty = new.ticket.qty
  /\ (\E k \in 1..Len(log) : Cancels(log[k], o)) => new.status = "CANCELED"

LEMMA CountedFilled ==
  ASSUME NEW c \in Seq(LogEvents), NEW d \in Seq(LogEvents), NEW e \in LogEvents,
         Inserted(d, c, Len(c) + 1, e), e.kind = "filled", NEW new, Awaits(c, e.order, new),
         e.filled = new.filled, NEW n \in 0..Len(d),
         \A k \in 0..Len(c) : Counted(c, k, e.order, new.ticket.qty)
  PROVE  Counted(d, n, e.order, new.ticket.qty)
<1> PICK o : o = e.order
  OBVIOUS
<1>1. PICK m, l \in Nat : o = e.order /\ m = Len(c) + 1 /\ l = Len(c) /\ Len(d) = m
  BY LenProperties DEF Inserted
<1>2. CASE n < m
  BY <1>1, <1>2, CountedBefore
<1>3. CASE n = m
  <2>1. l = n - 1 /\ l \in 0..Len(c) /\ n >= m
    BY <1>1, <1>3
  <2>2. PICK F \in Nat, T \in Nat, q \in Nat :
          /\ F = Tally(c, l, FillsOf(o)) /\ T = Tally(c, l, TradesOf(o)) /\ q = Tally(c, l, FilledBy(o))
    BY <2>1, OrderTallies
  <2>3. FillsOf(o)[e] = 1 /\ TradesOf(o)[e] = 0 /\ FilledBy(o)[e] = 0
    BY <1>1, EventWorth
  <2>4. /\ Tally(d, n, FillsOf(o)) = F + 1 /\ Tally(d, n, TradesOf(o)) = T
        /\ Tally(d, n, FilledBy(o)) = q
    <3>1. FillsOf(o) \in Worth /\ TradesOf(o) \in Worth /\ FilledBy(o) \in Worth
      BY CountsOfOrders
    <3>2. \A w \in Worth : Tally(d, n, w) = Tally(c, n - 1, w) + w[e]
      BY <1>1, <2>1, TallyInserted
    <3>3. \A w \in Worth : Tally(d, n, w) = Tally(c, l, w) + w[e]
      BY <2>1, <3>2
    <3> QED
      BY <2>2, <2>3, <3>1, <3>3
  <2>5. F < T /\ (F + 1 = T => new.filled >= q \/ new.filled >= new.ticket.qty)
    BY <1>1, <2>2 DEF Awaits
  <2>6. ASSUME NEW x, LastEvent(d, n, o, FillEvents, x) PROVE FilledAfter(x) = new.filled
    <3>1. About(e, o, FillEvents)
      BY <1>1 DEF About, FillEvents
    <3>2. \A p \in Len(c)+1+1..Len(d) : ~About(d[p], o, FillEvents)
      BY <1>1
    <3>3. LastEvent(d, n, o, FillEvents, e)
      BY <1>1, <1>3, <3>1, <3>2, LastPut
    <3>4. x = e
      BY <2>6, <3>3, LastIsOne
    <3> QED
      BY <3>4 DEF FilledAfter
  <2>7. F + 1 <= T
    BY <2>2, <2>5
  <2> QED
    BY <1>1, <2>4, <2>5, <2>6, <2>7 DEF Counted
<1>4. n < m \/ n = m
  BY <1>1
<1> QED
  BY <1>2, <1>3, <1>4

\* An order of which the log does not speak yet.
LEMMA CountedNew ==
  ASSUME NEW log \in Seq(LogEvents), NEW o, NEW qty, NEW n \in 0..Len(log),
         \A i \in 1..Len(log) : o \notin Mentions(log[i])
  PROVE  Counted(log, n, o, qty)
<1>1. n \in Nat /\ \A i \in 1..n : log[i] \in LogEvents /\ o \notin Mentions(log[i])
  BY LenProperties, ElementOfSeq
<1>2. \A i \in 1..n : /\ FillsOf(o)[log[i]] = 0 /\ TradesOf(o)[log[i]] = 0
                      /\ FilledBy(o)[log[i]] = 0
  BY <1>1, EventWorth
<1>3. /\ Tally(log, n, FillsOf(o)) = 0 /\ Tally(log, n, TradesOf(o)) = 0
      /\ Tally(log, n, FilledBy(o)) = 0
  BY <1>1, <1>2, TallyZero
<1>4. \A x \in LogEvents : LastEvent(log, n, o, FillEvents, x) => FilledAfter(x) >= 0
  <2>1. SUFFICES ASSUME NEW x \in LogEvents, x.kind \in FillEvents PROVE FilledAfter(x) \in Nat
    BY DEF LastEvent, About
  <2>2. x.kind = "filled" => x.filled \in Nat
    BY EventFields
  <2> QED
    BY <2>1, <2>2 DEF FilledAfter, FillEvents
<1> QED
  BY <1>3, <1>4 DEF Counted

\* The log with one more event.
LEMMA CountsGrow ==
  ASSUME NEW c \in Seq(LogEvents), NEW d \in Seq(LogEvents), NEW m, NEW e \in LogEvents,
         Inserted(d, c, m, e), LogCounts(c),
         \A o \in Mentions(e) : \E k \in 1..Len(c) : k < m /\ Places(c[k], o),
         e.kind = "status" => /\ m = Len(d)
                              /\ (\E i \in 1..Len(c) : Cancels(c[i], e.order)) => e.status = "CANCELED",
         e.kind = "filled" =>
           /\ m = Len(d)
           /\ \E new : /\ Awaits(c, e.order, new)
                       /\ e.filled = new.filled /\ e.status = new.status,
         e.kind = "placed" => \A i \in 1..Len(c) : ~Places(c[i], e.order)
  PROVE  LogCounts(d)
<1>1. /\ m \in Nat /\ m \in 1..Len(d) /\ d[m] = e /\ Len(c) \in Nat /\ Len(d) = Len(c) + 1
      /\ \A p \in 1..Len(d) : \/ p = m
                              \/ \E q \in 1..Len(c) : d[p] = c[q]
  BY InsertedBack
<1>2. e.kind = "placed" => \A i \in 1..Len(c) : e.order \notin Mentions(c[i])
  BY DEF LogCounts, Introduced
<1>3. Introduced(d)
  BY IntroducedGrows DEF LogCounts
<1>4. CanceledLast(d)
  <2>1. ASSUME e.kind \in StatusEvents, NEW i \in 1..Len(c), Cancels(c[i], e.order)
        PROVE  StatusAfter(e) = "CANCELED"
    <3>1. e.order \in Mentions(c[i])
      BY <2>1 DEF Cancels, Mentions
    <3>2. e.kind # "placed"
      BY <1>2, <3>1
    <3>3. CASE e.kind = "status"
      BY <2>1, <3>3 DEF StatusAfter
    <3>4. CASE e.kind = "filled"
      BY <2>1, <3>4 DEF StatusAfter, Awaits
    <3> QED
      BY <2>1, <3>2, <3>3, <3>4 DEF StatusEvents
  <2> QED
    BY <2>1, CanceledStaysLast DEF LogCounts
<1>5. FillsCounted(d)
  <2>1. SUFFICES ASSUME NEW k \in 1..Len(d), d[k].kind = "placed", NEW n \in 0..Len(d)
                 PROVE  Counted(d, n, d[k].order, d[k].ticket.qty)
    BY DEF FillsCounted
  <2>2. CASE k = m
    <3>1. e.kind = "placed" /\ e = d[k]
      BY <1>1, <2>1, <2>2
    <3>2. \A i \in 1..Len(d) : e.order \notin Mentions(d[i])
      <4>1. e.order \notin Mentions(e)
        BY <3>1 DEF Mentions
      <4> QED
        BY <1>1, <1>2, <3>1, <4>1
    <3> QED
      BY <3>1, <3>2, CountedNew
  <2>3. CASE k # m
    <3>1. PICK q \in 1..Len(c) : d[k] = c[q]
      BY <1>1, <2>3
    <3>2. PICK o, qty : o = c[q].order /\ qty = c[q].ticket.qty
      OBVIOUS
    <3>3. c[q].kind = "placed" /\ \A i \in 0..Len(c) : Counted(c, i, o, qty)
      BY <2>1, <3>1, <3>2 DEF LogCounts, FillsCounted
    <3>4. CASE ~About(e, o, FillEvents)
      <4>1. Counted(d, n, o, qty)
        BY <3>3, <3>4, CountedKept
      <4> QED
        BY <3>1, <3>2, <4>1
    <3>5. CASE About(e, o, FillEvents)
      <4>1. e.kind = "filled" /\ e.order = o
        <5>1. e.kind = "placed" => ~Places(c[q], e.order)
          OBVIOUS
        <5> QED
          BY <3>2, <3>3, <3>5, <5>1 DEF About, FillEvents, Places
      <4>2. PICK new : Awaits(c, o, new) /\ e.filled = new.filled
        BY <4>1
      <4>3. qty = new.ticket.qty
        BY <3>2, <3>3, <4>2 DEF Awaits, Places
      <4>4. m = Len(c) + 1
        BY <1>1, <4>1
      <4>5. Counted(d, n, o, qty)
        BY <3>3, <4>1, <4>2, <4>3, <4>4, CountedFilled
      <4> QED
        BY <3>1, <3>2, <4>5
    <3> QED
      BY <3>4, <3>5
  <2> QED
    BY <2>2, <2>3
<1> QED
  BY <1>3, <1>4, <1>5 DEF LogCounts

\* A first part of the log.
LEMMA CountsCut ==
  ASSUME NEW c \in Seq(LogEvents), NEW d \in Seq(LogEvents), Len(d) <= Len(c),
         \A i \in 1..Len(d) : d[i] = c[i], LogCounts(c)
  PROVE  LogCounts(d)
<1>1. Len(c) \in Nat /\ Len(d) \in Nat /\ \A i \in 1..Len(d) : i \in 1..Len(c) /\ d[i] = c[i]
  BY LenProperties
<1>2. Introduced(d)
  <2>1. SUFFICES ASSUME NEW i \in 1..Len(d), NEW o \in Mentions(d[i])
                 PROVE  \E k \in 1..Len(d) : k < i /\ Places(d[k], o)
    BY DEF Introduced
  <2>2. PICK k \in 1..Len(c) : k < i /\ Places(c[k], o)
    BY <1>1, <2>1 DEF LogCounts, Introduced
  <2>3. k \in 1..Len(d)
    BY <1>1, <2>2
  <2> QED
    BY <1>1, <2>2, <2>3
<1>3. CanceledLast(d)
  BY <1>1 DEF LogCounts, CanceledLast
<1>4. FillsCounted(d)
  <2>1. SUFFICES ASSUME NEW k \in 1..Len(d), d[k].kind = "placed", NEW n \in 0..Len(d)
                 PROVE  Counted(d, n, d[k].order, d[k].ticket.qty)
    BY DEF FillsCounted
  <2>2. PICK o, qty : o = d[k].order /\ qty = d[k].ticket.qty
    OBVIOUS
  <2>3. n \in 0..Len(c) /\ n \in Nat /\ k \in 1..Len(c) /\ \A i \in 1..n : c[i] = d[i]
    BY <1>1
  <2>4. Counted(c, n, o, qty)
    BY <1>1, <2>1, <2>2, <2>3 DEF LogCounts, FillsCounted
  <2>5. \A w : Tally(c, n, w) = Tally(d, n, w)
    BY <2>3, TallySame
  <2>6. \A x : LastEvent(d, n, o, FillEvents, x) => LastEvent(c, n, o, FillEvents, x)
    BY <2>3, LastBefore
  <2>7. Counted(d, n, o, qty)
    BY <2>4, <2>5, <2>6 DEF Counted
  <2> QED
    BY <2>2, <2>7
<1> QED
  BY <1>2, <1>3, <1>4 DEF LogCounts

LEMMA CountsEmpty == ASSUME NEW log, Len(log) = 0 PROVE LogCounts(log)
BY DEF LogCounts, Introduced, CanceledLast, FillsCounted

-----------------------------------------------------------------------------
(* What follows for the orders in memory *)

LEMMA MemoryFollows ==
  ASSUME NEW c \in Seq(LogEvents), NEW ords, LogCounts(c), LogFits(c, ords),
         LogTells(c, ords), NEW o \in DOMAIN ords, ords[o] \in Orders
  PROVE  /\ \E k \in 1..Len(c) : Places(c[k], o)
         /\ \A k \in 1..Len(c) : Places(c[k], o) => c[k].ticket = ords[o].ticket
         /\ Tally(c, Len(c), FillsOf(o)) <= Tally(c, Len(c), TradesOf(o))
         /\ Tally(c, Len(c), FillsOf(o)) = Tally(c, Len(c), TradesOf(o)) =>
              \/ ords[o].filled >= Tally(c, Len(c), FilledBy(o))
              \/ ords[o].filled >= ords[o].ticket.qty
         /\ (\E i \in 1..Len(c) : Cancels(c[i], o)) /\ ~Refused(ords[o])
              => ords[o].status = "CANCELED"
<1>1. OrderTold(c, o, ords[o]) /\ Len(c) \in Nat /\ Len(c) \in 0..Len(c)
  BY LenProperties DEF LogTells
<1>2. \A k \in 1..Len(c) : Places(c[k], o) => c[k].ticket = ords[o].ticket
  BY DEF LogFits, FitsAt, Places
<1>3. PICK k \in 1..Len(c) : Places(c[k], o)
  BY <1>1 DEF OrderTold, FormTold, LastEvent, About, FormEvents, Places
<1>4. PICK qty : qty = ords[o].ticket.qty /\ Counted(c, Len(c), o, qty)
  BY <1>1, <1>2, <1>3 DEF Places, LogCounts, FillsCounted
<1>5. ASSUME Tally(c, Len(c), FillsOf(o)) = Tally(c, Len(c), TradesOf(o))
      PROVE  ords[o].filled >= Tally(c, Len(c), FilledBy(o)) \/ ords[o].filled >= qty
  <2>1. CASE Refused(ords[o])
    <3>1. ords[o].ticket.qty - ords[o].filled <= 0
      BY <2>1 DEF Refused, Remaining
    <3>2. ords[o].filled \in Nat /\ ords[o].ticket.qty \in Nat
      BY DEF Orders, TicketType
    <3> QED
      BY <1>4, <3>1, <3>2
  <2>2. CASE ~Refused(ords[o])
    <3>1. PICK x \in LogEvents : LastEvent(c, Len(c), o, FillEvents, x) /\ ords[o].filled = FilledAfter(x)
      BY <1>1, <2>2 DEF OrderTold, FilledTold
    <3> QED
      BY <1>4, <1>5, <3>1 DEF Counted
  <2> QED
    BY <2>1, <2>2
<1>6. ASSUME NEW i \in 1..Len(c), Cancels(c[i], o), ~Refused(ords[o])
      PROVE  ords[o].status = "CANCELED"
  <2>1. PICK x \in LogEvents : LastEvent(c, Len(c), o, StatusEvents, x) /\ ords[o].status = StatusAfter(x)
    BY <1>1, <1>6 DEF OrderTold, StatusTold
  <2>2. PICK j \in 1..Len(c) : c[j] = x /\ \A p \in 1..Len(c) : About(c[p], o, StatusEvents) => p <= j
    BY <2>1 DEF LastEvent
  <2>3. About(c[i], o, StatusEvents) /\ About(c[j], o, StatusEvents) /\ c[i].order = o
    BY <1>6, <2>1, <2>2 DEF Cancels, About, StatusEvents, LastEvent
  <2>4. i = j \/ i < j
    BY <1>1, <2>2, <2>3
  <2>5. CASE i = j
    BY <1>6, <2>1, <2>2, <2>5 DEF Cancels, StatusAfter
  <2>6. CASE i < j
    BY <1>6, <2>1, <2>2, <2>3, <2>6 DEF LogCounts, CanceledLast
  <2> QED
    BY <2>4, <2>5, <2>6
<1>7. Tally(c, Len(c), FillsOf(o)) <= Tally(c, Len(c), TradesOf(o))
  BY <1>4 DEF Counted
<1> QED
  BY <1>2, <1>3, <1>4, <1>5, <1>6, <1>7

\* What is placed and what is canceled, when the event put in does neither.
LEMMA PlacesKept ==
  ASSUME NEW c, NEW d, NEW m, NEW e, Inserted(d, c, m, e), NEW o, ~Places(e, o), ~Cancels(e, o)
  PROVE  /\ (\E k \in 1..Len(c) : Places(c[k], o)) => \E k \in 1..Len(d) : Places(d[k], o)
         /\ \A p \in 1..Len(d) : Places(d[p], o) => \E q \in 1..Len(c) : d[p] = c[q] /\ Places(c[q], o)
         /\ (\E k \in 1..Len(d) : Cancels(d[k], o)) => \E k \in 1..Len(c) : Cancels(c[k], o)
<1>1. /\ m \in 1..Len(d) /\ d[m] = e
      /\ \A p \in 1..Len(d) : \/ p = m
                              \/ \E q \in 1..Len(c) : d[p] = c[q]
      /\ \A p \in 1..Len(c) : \E q \in 1..Len(d) : d[q] = c[p] /\ q # m
  BY InsertedBack
<1>2. ASSUME NEW k \in 1..Len(c), Places(c[k], o) PROVE \E q \in 1..Len(d) : Places(d[q], o)
  <2>1. PICK q \in 1..Len(d) : d[q] = c[k]
    BY <1>1
  <2> QED
    BY <1>2, <2>1
<1>3. ASSUME NEW p \in 1..Len(d), Places(d[p], o)
      PROVE  \E q \in 1..Len(c) : d[p] = c[q] /\ Places(c[q], o)
  <2>1. p # m
    BY <1>1, <1>3
  <2>2. PICK q \in 1..Len(c) : d[p] = c[q]
    BY <1>1, <2>1
  <2> QED
    BY <1>3, <2>2
<1>4. ASSUME NEW p \in 1..Len(d), Cancels(d[p], o) PROVE \E q \in 1..Len(c) : Cancels(c[q], o)
  <2>1. p # m
    BY <1>1, <1>4
  <2>2. PICK q \in 1..Len(c) : d[p] = c[q]
    BY <1>1, <2>1
  <2> QED
    BY <1>4, <2>2
<1> QED
  BY <1>2, <1>3, <1>4

\* The trade of an order is in the log, and its fill is to come.
LEMMA TradeAwaits ==
  ASSUME NEW c \in Seq(LogEvents), NEW d \in Seq(LogEvents), NEW m, NEW e \in LogEvents,
         Inserted(d, c, m, e), NEW ords, LogCounts(c), LogFits(c, ords), LogTells(c, ords),
         NEW o \in DOMAIN ords, ords[o] \in Orders, NEW new \in Orders,
         e.kind = "trade", o \in {e.buy, e.sell}, ~Refused(ords[o]),
         new.ticket = ords[o].ticket, new.filled >= ords[o].filled,
         new.filled >= ords[o].filled + FillIn(e, o) \/ new.filled >= new.ticket.qty,
         ords[o].status = "CANCELED" => new.status = "CANCELED"
  PROVE  Awaits(d, o, new)
<1>1. m \in Nat /\ m \in 1..Len(d) /\ d[m] = e /\ Len(c) \in Nat /\ Len(d) = Len(c) + 1
  BY InsertedBack
<1>2. PICK l \in Nat, n \in Nat : l = Len(c) /\ n = Len(d) /\ n >= m /\ n - 1 = l /\ n \in 0..Len(d) /\ l \in 0..Len(c)
  BY <1>1
<1>3. PICK F \in Nat, T \in Nat, q \in Nat, p \in Nat, x \in Nat, y \in Nat, z \in Nat :
        /\ F = Tally(c, l, FillsOf(o)) /\ T = Tally(c, l, TradesOf(o)) /\ q = Tally(c, l, FilledBy(o))
        /\ p = FillIn(e, o) /\ x = ords[o].filled /\ y = new.filled /\ z = new.ticket.qty
  <2>1. FillIn(e, o) \in Nat
    BY EventWorth
  <2>2. ords[o].filled \in Nat /\ new.filled \in Nat /\ new.ticket.qty \in Nat
    BY DEF Orders, TicketType
  <2> QED
    BY <1>2, <2>1, <2>2, OrderTallies
<1>4. FillsOf(o)[e] = 0 /\ TradesOf(o)[e] = 1 /\ FilledBy(o)[e] = p
  <2>1. ~About(e, o, FillEvents)
    BY DEF About, FillEvents
  <2> QED
    BY <1>3, <2>1, EventWorth
<1>5. /\ Tally(d, n, FillsOf(o)) = F /\ Tally(d, n, TradesOf(o)) = T + 1
      /\ Tally(d, n, FilledBy(o)) = q + p
  <2>1. FillsOf(o) \in Worth /\ TradesOf(o) \in Worth /\ FilledBy(o) \in Worth
    BY CountsOfOrders
  <2>2. \A w \in Worth : Tally(d, n, w) = Tally(c, n - 1, w) + w[e]
    BY <1>2, TallyInserted
  <2>3. \A w \in Worth : Tally(d, n, w) = Tally(c, l, w) + w[e]
    BY <1>2, <2>2
  <2> QED
    BY <1>3, <1>4, <2>1, <2>3
<1>6. /\ \E k \in 1..Len(c) : Places(c[k], o)
      /\ \A k \in 1..Len(c) : Places(c[k], o) => c[k].ticket = ords[o].ticket
      /\ F <= T
      /\ F = T => x >= q \/ x >= z
      /\ (\E i \in 1..Len(c) : Cancels(c[i], o)) => ords[o].status = "CANCELED"
  BY <1>2, <1>3, MemoryFollows
<1>7. y >= x /\ (y >= x + p \/ y >= z)
  BY <1>3
<1>8. F < T + 1 /\ (F + 1 = T + 1 => y >= q + p \/ y >= z)
  BY <1>6, <1>7
<1>9. /\ \E k \in 1..Len(d) : Places(d[k], o)
      /\ \A k \in 1..Len(d) : Places(d[k], o) => d[k].ticket = ords[o].ticket
      /\ (\E k \in 1..Len(d) : Cancels(d[k], o)) => new.status = "CANCELED"
  <2>1. ~Places(e, o) /\ ~Cancels(e, o)
    BY DEF Places, Cancels
  <2>2. \E k \in 1..Len(d) : Places(d[k], o)
    BY <1>6, <2>1, PlacesKept
  <2>3. ASSUME NEW k \in 1..Len(d), Places(d[k], o) PROVE d[k].ticket = ords[o].ticket
    <3>1. PICK i \in 1..Len(c) : d[k] = c[i] /\ Places(c[i], o)
      BY <2>1, <2>3, PlacesKept
    <3> QED
      BY <1>6, <3>1
  <2>4. (\E k \in 1..Len(d) : Cancels(d[k], o)) => new.status = "CANCELED"
    BY <1>6, <2>1, PlacesKept
  <2> QED
    BY <2>2, <2>3, <2>4
<1> QED
  BY <1>2, <1>3, <1>5, <1>8, <1>9 DEF Awaits

LEMMA AwaitsKept ==
  ASSUME NEW c \in Seq(LogEvents), NEW d \in Seq(LogEvents), NEW m, NEW e \in LogEvents,
         Inserted(d, c, m, e), NEW o, NEW new, Awaits(c, o, new), o \notin Mentions(e),
         e.kind # "placed"
  PROVE  Awaits(d, o, new)
<1>1. m \in Nat /\ m \in 1..Len(d) /\ d[m] = e /\ Len(c) \in Nat /\ Len(d) = Len(c) + 1
  BY InsertedBack
<1>2. PICK l \in Nat, n \in Nat : l = Len(c) /\ n = Len(d) /\ n >= m /\ n - 1 = l /\ n \in 0..Len(d) /\ l \in 0..Len(c)
  BY <1>1
<1>3. FillsOf(o)[e] = 0 /\ TradesOf(o)[e] = 0 /\ FilledBy(o)[e] = 0
  BY EventWorth
<1>4. /\ Tally(d, n, FillsOf(o)) = Tally(c, l, FillsOf(o))
      /\ Tally(d, n, TradesOf(o)) = Tally(c, l, TradesOf(o))
      /\ Tally(d, n, FilledBy(o)) = Tally(c, l, FilledBy(o))
  <2>1. FillsOf(o) \in Worth /\ TradesOf(o) \in Worth /\ FilledBy(o) \in Worth
    BY CountsOfOrders
  <2>2. \A w \in Worth : Tally(d, n, w) = Tally(c, n - 1, w) + w[e]
    BY <1>2, TallyInserted
  <2>3. \A w \in Worth : Tally(d, n, w) = Tally(c, l, w) + w[e]
    BY <1>2, <2>2
  <2>4. /\ Tally(c, l, FillsOf(o)) \in Nat /\ Tally(c, l, TradesOf(o)) \in Nat
        /\ Tally(c, l, FilledBy(o)) \in Nat
    BY <1>2, OrderTallies
  <2> QED
    BY <1>3, <2>1, <2>3, <2>4
<1>5. ~Places(e, o) /\ ~Cancels(e, o)
  BY DEF Places, Cancels, Mentions
<1>6. /\ \E k \in 1..Len(d) : Places(d[k], o)
      /\ \A k \in 1..Len(d) : Places(d[k], o) => d[k].ticket.qty = new.ticket.qty
      /\ (\E k \in 1..Len(d) : Cancels(d[k], o)) => new.status = "CANCELED"
  <2>1. \E k \in 1..Len(d) : Places(d[k], o)
    BY <1>5, PlacesKept DEF Awaits
  <2>2. ASSUME NEW k \in 1..Len(d), Places(d[k], o) PROVE d[k].ticket.qty = new.ticket.qty
    <3>1. PICK i \in 1..Len(c) : d[k] = c[i] /\ Places(c[i], o)
      BY <1>5, <2>2, PlacesKept
    <3> QED
      BY <3>1 DEF Awaits
  <2>3. (\E k \in 1..Len(d) : Cancels(d[k], o)) => new.status = "CANCELED"
    BY <1>5, PlacesKept DEF Awaits
  <2> QED
    BY <2>1, <2>2, <2>3
<1> QED
  BY <1>2, <1>4, <1>6 DEF Awaits

\* A quiet event, a status, a fill, a placement: what each needs.
LEMMA CountsAwaited ==
  ASSUME NEW c \in Seq(LogEvents), NEW d \in Seq(LogEvents), NEW e \in LogEvents,
         Inserted(d, c, Len(c) + 1, e), LogCounts(c), NEW new, e.kind = "filled",
         Awaits(c, e.order, new), e.filled = new.filled, e.status = new.status
  PROVE  LogCounts(d)
<1>1. PICK m : m = Len(c) + 1
  OBVIOUS
<1>2. Inserted(d, c, m, e) /\ m = Len(d) /\ Len(c) \in Nat
  BY <1>1 DEF Inserted
<1>3. \A o \in Mentions(e) : \E k \in 1..Len(c) : k < m /\ Places(c[k], o)
  <2>1. Mentions(e) = {e.order}
    BY DEF Mentions
  <2> QED
    BY <1>1, <1>2, <2>1 DEF Awaits
<1> QED
  BY <1>2, <1>3, CountsGrow

LEMMA CountsStatus ==
  ASSUME NEW c \in Seq(LogEvents), NEW d \in Seq(LogEvents), NEW e \in LogEvents,
         Inserted(d, c, Len(c) + 1, e), LogCounts(c), e.kind = "status",
         \E k \in 1..Len(c) : Places(c[k], e.order),
         (\E i \in 1..Len(c) : Cancels(c[i], e.order)) => e.status = "CANCELED"
  PROVE  LogCounts(d)
<1>1. PICK m : m = Len(c) + 1
  OBVIOUS
<1>2. Inserted(d, c, m, e) /\ m = Len(d) /\ Len(c) \in Nat
  BY <1>1 DEF Inserted
<1>3. \A o \in Mentions(e) : \E k \in 1..Len(c) : k < m /\ Places(c[k], o)
  <2>1. Mentions(e) = {e.order}
    BY DEF Mentions
  <2> QED
    BY <1>1, <1>2, <2>1
<1> QED
  BY <1>2, <1>3, CountsGrow

LEMMA CountsPlaced ==
  ASSUME NEW c \in Seq(LogEvents), NEW d \in Seq(LogEvents), NEW m, NEW e \in LogEvents,
         Inserted(d, c, m, e), LogCounts(c), e.kind = "placed",
         \A i \in 1..Len(c) : ~Places(c[i], e.order)
  PROVE  LogCounts(d)
<1>1. Mentions(e) = {}
  BY DEF Mentions
<1> QED
  BY <1>1, CountsGrow

LEMMA CountsOther ==
  ASSUME NEW c \in Seq(LogEvents), NEW d \in Seq(LogEvents), NEW m, NEW e \in LogEvents,
         Inserted(d, c, m, e), LogCounts(c), e.kind \notin {"placed", "filled", "status"},
         e.kind = "trade" => \A o \in {e.buy, e.sell} :
           \E k \in 1..Len(c) : k < m /\ Places(c[k], o)
  PROVE  LogCounts(d)
<1>1. \A o \in Mentions(e) : \E k \in 1..Len(c) : k < m /\ Places(c[k], o)
  BY DEF Mentions
<1> QED
  BY <1>1, CountsGrow

\* A fill that is not refused, of an order that may have been canceled.
LEMMA FillAccepted ==
  ASSUME NEW ord \in Orders, NEW q \in Nat, ~FillRaises(ord, q)
  PROVE  /\ ~Refused(ord)
         /\ ord.status = "CANCELED" => Fill(ord, q).status = "CANCELED"
<1>1. ord.filled \in Nat /\ ord.ticket.qty \in Nat
  BY DEF Orders, TicketType
<1>2. \A s : CanTransition(s, "FILLED") => s # "CANCELED"
  BY DEF CanTransition, Transitions
<1>3. ~Refused(ord)
  <2>1. SUFFICES ASSUME Refused(ord) PROVE FALSE
    OBVIOUS
  <2>2. ord.filled + q >= ord.ticket.qty
    BY <1>1, <2>1 DEF Refused, Remaining
  <2>3. CanTransition(ord.status, "FILLED")
    BY <2>2 DEF FillRaises
  <2>4. ord.status \in {"ROUTED", "PARTIALLY_FILLED"}
    BY <2>3 DEF CanTransition, Transitions, Orders, Statuses
  <2> QED
    BY <2>1, <2>4 DEF Refused
<1>4. ASSUME ord.status = "CANCELED" PROVE Fill(ord, q).status = "CANCELED"
  <2>1. PICK a : a = AddFill(ord, q)
    OBVIOUS
  <2>2. ~CanTransition("CANCELED", "FILLED")
    BY DEF CanTransition, Transitions
  <2>3. ~(ord.filled + q >= ord.ticket.qty)
    BY <1>4, <2>2 DEF FillRaises
  <2>4. Fill(ord, q) = [a EXCEPT !.status = "CANCELED"]
    BY <1>4, <2>1, <2>3 DEF Fill
  <2>5. DOMAIN a = DOMAIN ord /\ "status" \in DOMAIN ord
    BY <2>1 DEF AddFill, Orders
  <2> QED
    BY <2>4, <2>5
<1> QED
  BY <1>3, <1>4

-----------------------------------------------------------------------------
(* The handlers keep what the log says of fills and cancels *)

LEMMA UpLog ==
  ASSUME RecTypeOK, UpInv, ~holes
  PROVE  /\ journal \in Seq(LogEvents) /\ outbox \in Seq(LogEvents) /\ TheLog \in Seq(LogEvents)
         /\ LogFits(TheLog, orders) /\ LogTells(TheLog, orders)
         /\ OMSTypeOK /\ \A o \in DOMAIN orders : orders[o] \in Orders /\ o \in OrderIds
<1>1. journal \in Seq(LogEvents) /\ outbox \in Seq(LogEvents) /\ TheLog \in Seq(LogEvents)
  BY ConcatProperties DEF RecTypeOK, LogTypeOK, TheLog
<1>2. OMSTypeOK /\ \A o \in DOMAIN orders : orders[o] \in Orders /\ o \in OrderIds
  BY DEF RecTypeOK, TradingOK, OMSTypeOK
<1> QED
  BY <1>1, <1>2 DEF UpInv, LogSound

\* A placement, and the statuses that follow it.
LEMMA CountsEnter ==
  ASSUME NEW c \in Seq(LogEvents), NEW d \in Seq(LogEvents), NEW m, NEW e \in LogEvents,
         Inserted(d, c, m, e), LogCounts(c), e.kind = "placed",
         \A i \in 1..Len(c) : ~Places(c[i], e.order)
  PROVE  /\ LogCounts(d)
         /\ \E k \in 1..Len(d) : Places(d[k], e.order)
         /\ \A k \in 1..Len(d) : ~Cancels(d[k], e.order)
<1>1. LogCounts(d)
  BY CountsPlaced
<1>2. /\ m \in 1..Len(d) /\ d[m] = e
      /\ \A p \in 1..Len(d) : \/ p = m
                              \/ \E q \in 1..Len(c) : d[p] = c[q]
  BY InsertedBack
<1>3. Places(d[m], e.order) /\ ~Cancels(d[m], e.order)
  BY <1>2 DEF Places, Cancels
<1>4. \A i \in 1..Len(c) : ~Cancels(c[i], e.order)
  <2>1. SUFFICES ASSUME NEW i \in 1..Len(c), Cancels(c[i], e.order) PROVE FALSE
    OBVIOUS
  <2>2. e.order \in Mentions(c[i])
    BY <2>1 DEF Cancels, Mentions
  <2> QED
    BY <2>2 DEF LogCounts, Introduced
<1>5. ASSUME NEW k \in 1..Len(d) PROVE ~Cancels(d[k], e.order)
  <2>1. CASE k = m
    BY <1>3, <2>1
  <2>2. CASE k # m
    <3>1. PICK q \in 1..Len(c) : d[k] = c[q]
      BY <1>2, <2>2
    <3> QED
      BY <1>4, <3>1
  <2> QED
    BY <2>1, <2>2
<1> QED
  BY <1>1, <1>2, <1>3, <1>5

LEMMA CountsEntered ==
  ASSUME NEW c \in Seq(LogEvents), NEW d \in Seq(LogEvents), NEW e \in LogEvents,
         Inserted(d, c, Len(c) + 1, e), LogCounts(c), e.kind = "status", e.status # "CANCELED",
         \E k \in 1..Len(c) : Places(c[k], e.order),
         \A k \in 1..Len(c) : ~Cancels(c[k], e.order)
  PROVE  /\ LogCounts(d)
         /\ \E k \in 1..Len(d) : Places(d[k], e.order)
         /\ \A k \in 1..Len(d) : ~Cancels(d[k], e.order)
<1>1. LogCounts(d)
  BY CountsStatus
<1>2. ~Places(e, e.order) /\ ~Cancels(e, e.order)
  BY DEF Places, Cancels
<1> QED
  BY <1>1, <1>2, PlacesKept

LEMMA PlaceCounts ==
  ASSUME RecTypeOK, UpInv, ~holes, LogCounts(TheLog), NEW o \in OrderIds \ DOMAIN orders,
         Placed(o) \in LogEvents, NEW c, c = (journal \o <<Placed(o)>>) \o outbox
  PROVE  /\ c \in Seq(LogEvents) /\ LogCounts(c)
         /\ \E k \in 1..Len(c) : Places(c[k], o)
         /\ \A k \in 1..Len(c) : ~Cancels(c[k], o)
<1>1. PICK e, b : e = Placed(o) /\ b = TheLog
  OBVIOUS
<1>2. e \in LogEvents /\ e.kind = "placed" /\ e.order = o
  BY <1>1 DEF Placed
<1>3. b \in Seq(LogEvents) /\ LogFits(b, orders) /\ journal \in Seq(LogEvents) /\ outbox \in Seq(LogEvents)
  BY <1>1, UpLog
<1>4. c \in Seq(LogEvents) /\ Inserted(c, b, Len(journal) + 1, e)
  BY <1>1, <1>2, <1>3, PutBehind DEF TheLog
<1>5. \A i \in 1..Len(b) : ~Places(b[i], o)
  BY <1>3 DEF LogFits, FitsAt, Places
<1>6. LogCounts(b)
  BY <1>1
<1>7. /\ LogCounts(c)
      /\ \E k \in 1..Len(c) : Places(c[k], e.order)
      /\ \A k \in 1..Len(c) : ~Cancels(c[k], e.order)
  <2>1. e.kind = "placed" /\ \A i \in 1..Len(b) : ~Places(b[i], e.order)
    BY <1>2, <1>5
  <2> QED
    BY ONLY <1>2, <1>3, <1>4, <1>6, <2>1, CountsEnter
<1> QED
  BY <1>2, <1>4, <1>7

LEMMA PlaceRejectedCounts ==
  ASSUME RecTypeOK, UpInv, ~holes, LogCounts(TheLog), NEW o \in OrderIds, NEW a \in Accounts,
         NEW t \in Tickets, PlaceRejected(o, a, t), DrainWith(<<Placed(o)>>, <<OrderIs(o, "REJECTED")>>)
  PROVE  LogCounts(TheLog')
<1>1. PICK pre, post, e : pre = <<Placed(o)>> /\ post = <<e>> /\ e = OrderIs(o, "REJECTED")
  OBVIOUS
<1>2. PICK c, d : c = (journal \o <<Placed(o)>>) \o outbox /\ d = c \o <<e>>
  OBVIOUS
<1>3. Enter(o, a, t, "REJECTED") /\ o \in OrderIds \ DOMAIN orders
  BY DEF PlaceRejected, RejectOrder, Enter
<1>4. Placed(o) \in LogEvents /\ c \in Seq(LogEvents)
  BY <1>2, <1>3, EnterSound DEF Statuses
<1>5. e \in LogEvents /\ e.kind = "status" /\ e.order = o /\ e.status # "CANCELED"
  BY <1>1 DEF OrderIs, LogEvents, Statuses
<1>6. pre \in Seq(LogEvents) /\ post \in Seq(LogEvents)
  BY <1>1, <1>4, <1>5
<1>7. Pushed(pre, post)
  BY <1>1 DEF DrainWith, Push, Pushed
<1>8. TheLog' = d
  BY <1>1, <1>2, <1>6, <1>7, LogGrows DEF RecTypeOK
<1>9. LogCounts(c) /\ (\E k \in 1..Len(c) : Places(c[k], o)) /\ \A k \in 1..Len(c) : ~Cancels(c[k], o)
  BY <1>2, <1>3, <1>4, PlaceCounts
<1>10. d \in Seq(LogEvents) /\ Inserted(d, c, Len(c) + 1, e)
  BY <1>2, <1>4, <1>5, PutLast
<1>11. LogCounts(d)
  BY <1>4, <1>5, <1>9, <1>10, CountsEntered
<1> QED
  BY <1>8, <1>11

LEMMA PlaceAcceptedCounts ==
  ASSUME RecTypeOK, UpInv, ~holes, LogCounts(TheLog), NEW o \in OrderIds, NEW a \in Accounts,
         NEW t \in Tickets, PlaceAccepted(o, a, t),
         DrainWith(<<Placed(o)>>, <<OrderIs(o, "ACCEPTED"), OrderIs(o, "ROUTED")>>)
  PROVE  LogCounts(TheLog')
<1>1. PICK pre, post, e, g : /\ pre = <<Placed(o)>> /\ post = <<e, g>>
                             /\ e = OrderIs(o, "ACCEPTED") /\ g = OrderIs(o, "ROUTED")
  OBVIOUS
<1>2. PICK c, d : c = (journal \o <<Placed(o)>>) \o outbox /\ d = c \o <<e>>
  OBVIOUS
<1> PICK f : f = d \o <<g>>
  OBVIOUS
<1>3. Enter(o, a, t, "ROUTED") /\ o \in OrderIds \ DOMAIN orders
  BY DEF PlaceAccepted, AcceptAndRoute, Enter
<1>4. Placed(o) \in LogEvents /\ c \in Seq(LogEvents)
  BY <1>2, <1>3, EnterSound DEF Statuses
<1>5. /\ e \in LogEvents /\ e.kind = "status" /\ e.order = o /\ e.status # "CANCELED"
      /\ g \in LogEvents /\ g.kind = "status" /\ g.order = o /\ g.status # "CANCELED"
  BY <1>1 DEF OrderIs, LogEvents, Statuses
<1>6. pre \in Seq(LogEvents) /\ post \in Seq(LogEvents)
  BY <1>1, <1>4, <1>5
<1>7. Pushed(pre, post)
  BY <1>1 DEF DrainWith, Push, Pushed
<1>8. TheLog' = f
  <2>1. TheLog' = c \o post
    BY <1>1, <1>2, <1>6, <1>7, LogGrows DEF RecTypeOK
  <2>2. c \o <<e, g>> = (c \o <<e>>) \o <<g>>
    BY ONLY <1>4, <1>5, Pairs
  <2> QED
    BY <1>1, <1>2, <2>1, <2>2
<1>9. LogCounts(c) /\ (\E k \in 1..Len(c) : Places(c[k], o)) /\ \A k \in 1..Len(c) : ~Cancels(c[k], o)
  BY <1>2, <1>3, <1>4, PlaceCounts
<1>10. d \in Seq(LogEvents) /\ Inserted(d, c, Len(c) + 1, e)
  BY <1>2, <1>4, <1>5, PutLast
<1>11. /\ LogCounts(d)
       /\ \E k \in 1..Len(d) : Places(d[k], g.order)
       /\ \A k \in 1..Len(d) : ~Cancels(d[k], g.order)
  <2>1. /\ e.kind = "status" /\ e.status # "CANCELED"
        /\ \E k \in 1..Len(c) : Places(c[k], e.order)
        /\ \A k \in 1..Len(c) : ~Cancels(c[k], e.order)
    BY <1>5, <1>9
  <2>2. /\ LogCounts(d)
        /\ \E k \in 1..Len(d) : Places(d[k], e.order)
        /\ \A k \in 1..Len(d) : ~Cancels(d[k], e.order)
    BY ONLY <1>4, <1>5, <1>9, <1>10, <2>1, CountsEntered
  <2> QED
    BY <1>5, <2>2
<1>12. f \in Seq(LogEvents) /\ Inserted(f, d, Len(d) + 1, g)
  BY <1>5, <1>10, PutLast
<1>13. LogCounts(f)
  BY ONLY <1>5, <1>10, <1>11, <1>12, CountsEntered
<1> QED
  BY <1>8, <1>13

LEMMA CancelCounts ==
  ASSUME RecTypeOK, UpInv, ~holes, LogCounts(TheLog), NEW o \in OrderIds, Cancel(o),
         DrainWith(<<>>, <<OrderIs(o, "CANCELED")>>)
  PROVE  LogCounts(TheLog')
<1>1. PICK pre, post, e : pre = <<>> /\ post = <<e>> /\ e = OrderIs(o, "CANCELED")
  OBVIOUS
<1>2. e \in LogEvents /\ e.kind = "status" /\ e.order = o /\ e.status = "CANCELED"
  BY <1>1 DEF OrderIs, LogEvents, Statuses
<1>3. PICK c, d : c = TheLog /\ d = c \o <<e>>
  OBVIOUS
<1>4. /\ c \in Seq(LogEvents) /\ LogFits(c, orders) /\ LogTells(c, orders) /\ LogCounts(c)
      /\ journal \in Seq(LogEvents) /\ outbox \in Seq(LogEvents)
      /\ o \in DOMAIN orders /\ orders[o] \in Orders
  BY <1>3, UpLog DEF Cancel
<1>5. pre \in Seq(LogEvents) /\ post \in Seq(LogEvents)
  BY <1>1, <1>2, EmptySeq
<1>6. Pushed(pre, post)
  BY <1>1 DEF DrainWith, Push, Pushed
<1>7. TheLog' = d
  <2>1. journal \o pre = journal
    BY <1>1, <1>4, ConcatEmptySeq
  <2>2. TheLog' = ((journal \o pre) \o outbox) \o post
    BY <1>5, <1>6, LogGrows DEF RecTypeOK
  <2> QED
    BY <1>1, <1>3, <2>1, <2>2 DEF TheLog
<1>8. d \in Seq(LogEvents) /\ Inserted(d, c, Len(c) + 1, e)
  BY <1>2, <1>3, <1>4, PutLast
<1>9. \E k \in 1..Len(c) : Places(c[k], o)
  BY <1>4, MemoryFollows
<1>10. LogCounts(d)
  BY <1>2, <1>4, <1>8, <1>9, CountsStatus
<1> QED
  BY <1>7, <1>10

LEMMA QuietCounts ==
  ASSUME RecTypeOK, UpInv, ~holes, LogCounts(TheLog), NEW e \in LogEvents, PushOnly(<<e>>),
         e.kind \in {"cash", "deleted"}
  PROVE  LogCounts(TheLog')
<1>1. journal' = journal \o <<e>> /\ outbox' = outbox
  BY DEF PushOnly, Push
<1>2. PICK c, d : c = journal \o outbox /\ d = (journal \o <<e>>) \o outbox
  OBVIOUS
<1>3. c \in Seq(LogEvents) /\ d \in Seq(LogEvents) /\ Inserted(d, c, Len(journal) + 1, e)
  BY <1>2, PutBehind, UpLog
<1>4. LogCounts(c)
  BY <1>2 DEF TheLog
<1>5. LogCounts(d)
  BY <1>3, <1>4, CountsOther
<1> QED
  BY <1>1, <1>2, <1>5 DEF TheLog

\* The trade goes before the fills that wait in the outbox, and behind the
\* placements of its parties.
LEMMA TradeCounts ==
  ASSUME RecTypeOK, UpInv, ~holes, LogCounts(TheLog), NEW e \in LogEvents, e.kind = "trade",
         e.buy \in DOMAIN orders, e.sell \in DOMAIN orders, NEW c, c = (journal \o <<e>>) \o outbox
  PROVE  /\ c \in Seq(LogEvents) /\ LogCounts(c)
         /\ \A o \in {e.buy, e.sell}, new \in Orders :
              /\ ~Refused(orders[o]) /\ new.ticket = orders[o].ticket
              /\ new.filled >= orders[o].filled
              /\ new.filled >= orders[o].filled + FillIn(e, o) \/ new.filled >= new.ticket.qty
              /\ orders[o].status = "CANCELED" => new.status = "CANCELED"
              => Awaits(c, o, new)
<1>1. PICK b : b = TheLog
  OBVIOUS
<1>2. /\ b \in Seq(LogEvents) /\ LogFits(b, orders) /\ LogTells(b, orders) /\ LogCounts(b)
      /\ journal \in Seq(LogEvents) /\ outbox \in Seq(LogEvents)
      /\ \A o \in DOMAIN orders : orders[o] \in Orders
  BY <1>1, UpLog
<1>3. c \in Seq(LogEvents) /\ Inserted(c, b, Len(journal) + 1, e)
  BY <1>1, <1>2, PutBehind DEF TheLog
<1>4. ASSUME NEW o \in DOMAIN orders
      PROVE  \E k \in 1..Len(b) : k < Len(journal) + 1 /\ Places(b[k], o)
  <2>1. PICK k \in 1..Len(b) : Places(b[k], o)
    BY <1>2, MemoryFollows
  <2>2. Len(journal) \in Nat /\ Len(outbox) \in Nat
    BY <1>2, LenProperties
  <2>3. /\ Len(b) = Len(journal) + Len(outbox)
        /\ \A p \in 1..Len(journal) + Len(outbox) :
             b[p] = IF p <= Len(journal) THEN journal[p] ELSE outbox[p - Len(journal)]
    BY <1>1, <1>2, ConcatProperties DEF TheLog
  <2>4. k <= Len(journal)
    <3>1. SUFFICES ASSUME ~(k <= Len(journal)) PROVE FALSE
      OBVIOUS
    <3>2. PICK i : i = k - Len(journal)
      OBVIOUS
    <3>3. i \in 1..Len(outbox) /\ k \in 1..Len(journal) + Len(outbox)
      BY <2>2, <2>3, <3>1, <3>2
    <3>4. b[k] = outbox[i]
      BY <2>3, <3>1, <3>2, <3>3
    <3>5. outbox[i].kind = "filled"
      BY <3>3 DEF UpInv, OutboxFills
    <3> QED
      BY <2>1, <3>4, <3>5 DEF Places
  <2> QED
    BY <2>1, <2>2, <2>4
<1>5. LogCounts(c)
  <2>1. \A o \in {e.buy, e.sell} : \E k \in 1..Len(b) : k < Len(journal) + 1 /\ Places(b[k], o)
    BY <1>4
  <2> QED
    BY <1>2, <1>3, <2>1, CountsOther
<1>6. ASSUME NEW o \in {e.buy, e.sell}, NEW new \in Orders,
             ~Refused(orders[o]), new.ticket = orders[o].ticket, new.filled >= orders[o].filled,
             new.filled >= orders[o].filled + FillIn(e, o) \/ new.filled >= new.ticket.qty,
             orders[o].status = "CANCELED" => new.status = "CANCELED"
      PROVE  Awaits(c, o, new)
  <2>1. PICK ords : ords = orders
    OBVIOUS
  <2>2. /\ LogCounts(b) /\ LogFits(b, ords) /\ LogTells(b, ords)
        /\ o \in DOMAIN ords /\ ords[o] \in Orders /\ e.kind = "trade" /\ o \in {e.buy, e.sell}
        /\ ~Refused(ords[o]) /\ new.ticket = ords[o].ticket /\ new.filled >= ords[o].filled
        /\ new.filled >= ords[o].filled + FillIn(e, o) \/ new.filled >= new.ticket.qty
        /\ ords[o].status = "CANCELED" => new.status = "CANCELED"
    BY <1>2, <1>6, <2>1
  <2> QED
    BY ONLY <1>2, <1>3, <2>2, new \in Orders, e \in LogEvents, TradeAwaits
<1> QED
  BY <1>3, <1>5, <1>6

\* The settlement behind it tells nothing of an order.
LEMMA SettlementCounts ==
  ASSUME NEW j \in Seq(LogEvents), NEW out \in Seq(LogEvents), NEW y \in LogEvents,
         y.kind = "settlement", NEW b, b = j \o out, LogCounts(b), NEW c, c = (j \o <<y>>) \o out
  PROVE  c \in Seq(LogEvents) /\ LogCounts(c)
<1>1. b \in Seq(LogEvents) /\ c \in Seq(LogEvents) /\ Inserted(c, b, Len(j) + 1, y)
  BY PutBehind
<1> QED
  BY <1>1, CountsOther

\* A fill, appended; another order still waits for its own.
LEMMA FilledCounts ==
  ASSUME NEW c \in Seq(LogEvents), LogCounts(c), NEW e \in LogEvents, e.kind = "filled", NEW ord,
         Awaits(c, e.order, ord), e.filled = ord.filled, e.status = ord.status, NEW d, d = c \o <<e>>
  PROVE  /\ d \in Seq(LogEvents) /\ LogCounts(d)
         /\ \A o, new : o # e.order /\ Awaits(c, o, new) => Awaits(d, o, new)
<1>1. d \in Seq(LogEvents) /\ Inserted(d, c, Len(c) + 1, e)
  BY PutLast
<1>2. LogCounts(d)
  BY <1>1, CountsAwaited
<1>3. ASSUME NEW o, NEW new, o # e.order, Awaits(c, o, new) PROVE Awaits(d, o, new)
  <2>1. o \notin Mentions(e)
    BY <1>3 DEF Mentions
  <2> QED
    BY <1>1, <1>3, <2>1, AwaitsKept
<1> QED
  BY <1>1, <1>2, <1>3

\* A party of a trade, when its fill is accepted.
LEMMA PartyAwaits ==
  ASSUME NEW ord \in Orders, NEW q \in Nat, ~FillRaises(ord, q), FilledHasAll(orders),
         NEW o \in DOMAIN orders, orders[o] = ord, NEW new, new = Fill(ord, q)
  PROVE  /\ new \in Orders /\ ~Refused(ord) /\ new.ticket = ord.ticket
         /\ new.filled = ord.filled + q /\ new.filled >= ord.filled
         /\ ord.status = "CANCELED" => new.status = "CANCELED"
<1>1. ord.status = "FILLED" => Remaining(ord) <= 0
  BY DEF FilledHasAll
<1>2. new \in Orders /\ new.ticket = ord.ticket /\ new.filled = ord.filled + q
  BY <1>1, OneFilled
<1>3. ord.filled \in Nat
  BY DEF Orders
<1> QED
  BY <1>2, <1>3, FillAccepted

LEMMA FillAtMarketCounts ==
  ASSUME RecTypeOK, UpInv, ~holes, LogCounts(TheLog), NEW o \in OrderIds, FillAtMarketLogged(o)
  PROVE  LogCounts(TheLog')
<1>1. PICK q, ord : ord = orders[o] /\ q = Remaining(ord)
  OBVIOUS
<1>2. /\ FillAtMarket(o) /\ TradingOK /\ OMSTypeOK /\ o \in toFill /\ o \in DOMAIN orders
      /\ ord \in Orders /\ FilledHasAll(orders)
  BY <1>1 DEF FillAtMarketLogged, RecTypeOK, TradingOK, AppTypeOK, FillAtMarket, OMSTypeOK, UpInv
<1>3. q \in Nat /\ ord.filled \in Nat /\ ord.ticket.qty \in Nat /\ ord.filled + q = ord.ticket.qty
  BY <1>1, <1>2 DEF FillAtMarketLogged, FillAtMarket, UpInv, ScanLeft, OMSTypeOK, Orders, TicketType, Remaining
<1>4. orders' = [orders EXCEPT ![o] = Fill(ord, q)] /\ ~FillRaises(ord, q)
  BY <1>1 DEF FillAtMarketLogged, FillAtMarket, FillFromMarket
<1>5. PICK new : new = Fill(ord, q) /\ new = orders'[o]
  BY <1>2, <1>4
<1>6. /\ new \in Orders /\ ~Refused(ord) /\ new.ticket = ord.ticket
      /\ new.filled = ord.filled + q /\ new.filled >= ord.filled
      /\ ord.status = "CANCELED" => new.status = "CANCELED"
  BY <1>1, <1>2, <1>3, <1>4, <1>5, PartyAwaits
<1>7. PICK x, f : x = TradeExecuted(o, o, q) /\ f = Filled(o)
  OBVIOUS
<1>8. x \in LogEvents /\ x.kind = "trade" /\ x.buy = o /\ x.sell = o
  <2>1. x \in LogEvents
    BY <1>3, <1>7, TradeIsEvent
  <2> QED
    BY <1>7, <2>1 DEF TradeExecuted
<1>9. /\ f \in LogEvents /\ f.kind = "filled" /\ f.order = o
      /\ f.status = new.status /\ f.filled = new.filled
  <2>1. OMSTypeOK' /\ o \in DOMAIN orders'
    BY <1>2, <1>4, FillAtMarketOK DEF TradingOK
  <2> QED
    BY <1>5, <1>7, <2>1, FilledIsEvent
<1>10. PICK pre, post : pre = <<x>> /\ post = <<f>>
  OBVIOUS
<1>11. pre \in Seq(LogEvents) /\ post \in Seq(LogEvents)
  BY <1>8, <1>9, <1>10
<1>12. Pushed(pre, post)
  BY <1>1, <1>7, <1>10 DEF FillAtMarketLogged, DrainWith, Push, Pushed
<1>13. PICK c : c = (journal \o <<x>>) \o outbox
  OBVIOUS
<1>14. PICK d : d = c \o <<f>>
  OBVIOUS
<1>15. TheLog' = d
  BY <1>10, <1>11, <1>12, <1>13, <1>14, LogGrows DEF RecTypeOK
<1>16. c \in Seq(LogEvents) /\ LogCounts(c) /\ Awaits(c, o, new)
  <2>1. new.filled >= new.ticket.qty
    BY <1>3, <1>6
  <2> QED
    BY <1>1, <1>2, <1>6, <1>8, <1>13, <2>1, TradeCounts
<1>17. LogCounts(d)
  <2>1. Awaits(c, f.order, new)
    BY <1>9, <1>16
  <2> QED
    BY ONLY <1>9, <1>14, <1>16, <2>1, FilledCounts
<1> QED
  BY <1>15, <1>17

LEMMA SettleCounts ==
  ASSUME RecTypeOK, UpInv, OnSides, ~holes, LogCounts(TheLog), SettleLogged
  PROVE  LogCounts(TheLog')
<1>1. PICK t, b, s, q : t = Head(trades) /\ b = t.buy /\ s = t.sell /\ q = t.qty
  OBVIOUS
<1>2. /\ Settle /\ TradingOK /\ OMSTypeOK /\ trades # <<>> /\ FilledHasAll(orders)
  BY DEF SettleLogged, RecTypeOK, TradingOK, Settle, NextTrade, UpInv
<1>3. /\ b \in DOMAIN orders /\ s \in DOMAIN orders /\ q \in Nat
      /\ t.price \in Nat /\ t.symbol \in Symbols
  BY <1>1, <1>2, TradeParties
<1>4. b # s
  <2>1. trades \in Seq(TradeRecords) /\ Len(trades) >= 1 /\ Len(trades) \in Nat /\ t = trades[1]
    BY <1>1, <1>2, LenProperties, EmptySeq DEF TradingOK, EngineOK, METypeOK
  <2>2. TradeSided(orders, t)
    BY <2>1 DEF OnSides
  <2> QED
    BY <1>1, <2>2 DEF TradeSided, Sided
<1>5. FillBoth(b, s, q) /\ ~FillRaises(orders[b], q) /\ ~FillRaises(orders[s], q)
  BY <1>1 DEF SettleLogged, Settle, TradeRaises
<1>6. PICK fb, fs : fb = Fill(orders[b], q) /\ fs = Fill(orders[s], q)
  OBVIOUS
<1>7. orders'[b] = fb /\ orders'[s] = fs /\ DOMAIN orders' = DOMAIN orders
  BY <1>3, <1>4, <1>5, <1>6 DEF FillBoth
<1>8. orders[b] \in Orders /\ orders[s] \in Orders /\ b \in OrderIds /\ s \in OrderIds
  BY <1>2, <1>3 DEF OMSTypeOK
<1>9. /\ fb \in Orders /\ ~Refused(orders[b]) /\ fb.ticket = orders[b].ticket
      /\ fb.filled = orders[b].filled + q /\ fb.filled >= orders[b].filled
      /\ orders[b].status = "CANCELED" => fb.status = "CANCELED"
  BY <1>2, <1>3, <1>5, <1>6, <1>8, PartyAwaits
<1>10. /\ fs \in Orders /\ ~Refused(orders[s]) /\ fs.ticket = orders[s].ticket
       /\ fs.filled = orders[s].filled + q /\ fs.filled >= orders[s].filled
       /\ orders[s].status = "CANCELED" => fs.status = "CANCELED"
  BY <1>2, <1>3, <1>5, <1>6, <1>8, PartyAwaits
<1>11. OMSTypeOK'
  BY <1>2, SettleOK DEF TradingOK
<1>12. PICK x, y, f, g : /\ x = TradeExecuted(b, s, q) /\ y = Settlement(t)
                         /\ f = Filled(b) /\ g = Filled(s)
  OBVIOUS
<1>13. x \in LogEvents /\ x.kind = "trade" /\ x.buy = b /\ x.sell = s /\ x.qty = q
  <2>1. x \in LogEvents
    BY <1>3, <1>8, <1>12, TradeIsEvent
  <2> QED
    BY <1>12, <2>1 DEF TradeExecuted
<1>14. y \in LogEvents /\ y.kind = "settlement"
  <2>1. y \in LogEvents
    BY <1>1, <1>2, <1>3, <1>12, SettlementIsEvent
  <2> QED
    BY <1>12, <2>1 DEF Settlement
<1>15. f \in LogEvents /\ f.kind = "filled" /\ f.order = b /\ f.status = fb.status /\ f.filled = fb.filled
  BY <1>3, <1>7, <1>11, <1>12, FilledIsEvent
<1>16. g \in LogEvents /\ g.kind = "filled" /\ g.order = s /\ g.status = fs.status /\ g.filled = fs.filled
  BY <1>3, <1>7, <1>11, <1>12, FilledIsEvent
<1>17. FillIn(x, b) = q /\ FillIn(x, s) = q
  BY <1>3, <1>4, <1>13 DEF FillIn
<1>18. PICK pre, post : pre = <<x, y>> /\ post = <<f, g>>
  OBVIOUS
<1>19. pre \in Seq(LogEvents) /\ post \in Seq(LogEvents)
  BY <1>13, <1>14, <1>15, <1>16, <1>18
<1>20. Pushed(pre, post)
  <2>1. DrainWith(pre, post) \/ (Push(pre) /\ outbox' = outbox \o post)
    BY <1>1, <1>12, <1>18 DEF SettleLogged
  <2> QED
    BY <2>1 DEF DrainWith, Push, Pushed
<1>21. PICK a, c : a = (journal \o <<x>>) \o outbox /\ c = (journal \o <<x, y>>) \o outbox
  OBVIOUS
<1>22. PICK d : d = c \o <<f>>
  OBVIOUS
<1>23. PICK e : e = d \o <<g>>
  OBVIOUS
<1>24. a \in Seq(LogEvents) /\ LogCounts(a) /\ Awaits(a, b, fb) /\ Awaits(a, s, fs)
  <2>1. /\ a \in Seq(LogEvents) /\ LogCounts(a)
        /\ \A o \in {b, s}, new \in Orders :
              /\ ~Refused(orders[o]) /\ new.ticket = orders[o].ticket
              /\ new.filled >= orders[o].filled
              /\ new.filled >= orders[o].filled + FillIn(x, o) \/ new.filled >= new.ticket.qty
              /\ orders[o].status = "CANCELED" => new.status = "CANCELED"
              => Awaits(a, o, new)
    BY <1>3, <1>13, <1>21, TradeCounts
  <2>2. orders[b].filled \in Nat /\ orders[s].filled \in Nat
    BY <1>8 DEF Orders
  <2>3. fb.filled >= orders[b].filled + FillIn(x, b) /\ fs.filled >= orders[s].filled + FillIn(x, s)
    BY <1>3, <1>9, <1>10, <1>17, <2>2
  <2>4. Awaits(a, b, fb)
    BY <1>9, <2>1, <2>3
  <2>5. Awaits(a, s, fs)
    BY <1>10, <2>1, <2>3
  <2> QED
    BY <2>1, <2>4, <2>5
<1>25. c \in Seq(LogEvents) /\ LogCounts(c) /\ Awaits(c, b, fb) /\ Awaits(c, s, fs)
  <2>1. PICK z, j : z = journal /\ j = z \o <<x>>
    OBVIOUS
  <2>2. z \in Seq(LogEvents) /\ outbox \in Seq(LogEvents)
    BY <2>1 DEF RecTypeOK, LogTypeOK
  <2>3. z \o <<x, y>> = (z \o <<x>>) \o <<y>> /\ z \o <<x>> \in Seq(LogEvents)
    BY ONLY <1>13, <1>14, <2>2, Pairs
  <2>4. j \in Seq(LogEvents) /\ a = j \o outbox /\ c = (j \o <<y>>) \o outbox
    BY <1>21, <2>1, <2>3
  <2> PICK out : out = outbox
    OBVIOUS
  <2>5. /\ j \in Seq(LogEvents) /\ out \in Seq(LogEvents) /\ y \in LogEvents /\ y.kind = "settlement"
        /\ a = j \o out /\ LogCounts(a) /\ c = (j \o <<y>>) \o out
    BY <1>14, <1>24, <2>2, <2>4
  <2>6. c \in Seq(LogEvents) /\ LogCounts(c)
    BY ONLY <2>5, SettlementCounts
  <2>7. ASSUME NEW o, NEW new, Awaits(a, o, new) PROVE Awaits(c, o, new)
    <3>1. PICK m : m = Len(j) + 1
      OBVIOUS
    <3>2. a \in Seq(LogEvents) /\ c \in Seq(LogEvents) /\ Inserted(c, a, m, y)
      BY ONLY <2>5, <3>1, PutBehind
    <3>3. o \notin Mentions(y) /\ y.kind # "placed"
      BY <1>14 DEF Mentions
    <3> QED
      BY ONLY <1>14, <2>7, <3>2, <3>3, AwaitsKept
  <2>8. Awaits(c, b, fb)
    BY <1>24, <2>7
  <2>9. Awaits(c, s, fs)
    BY <1>24, <2>7
  <2> QED
    BY <2>6, <2>8, <2>9
<1>26. d \in Seq(LogEvents) /\ LogCounts(d) /\ Awaits(d, s, fs)
  <2>1. Awaits(c, f.order, fb) /\ s # f.order
    BY <1>4, <1>15, <1>25
  <2> QED
    BY ONLY <1>15, <1>22, <1>25, <2>1, FilledCounts
<1>27. LogCounts(e)
  <2>1. Awaits(d, g.order, fs)
    BY <1>16, <1>26
  <2> QED
    BY ONLY <1>16, <1>23, <1>26, <2>1, FilledCounts
<1>28. TheLog' = e
  <2>1. TheLog' = c \o post
    BY <1>18, <1>19, <1>20, <1>21, LogGrows DEF RecTypeOK
  <2>2. c \o <<f, g>> = (c \o <<f>>) \o <<g>>
    BY ONLY <1>15, <1>16, <1>25, Pairs
  <2> QED
    BY <1>18, <1>22, <1>23, <2>1, <2>2
<1> QED
  BY <1>27, <1>28

\* A fill refused: its trade is logged, and waits for good.
LEMMA SettleRaisesCounts ==
  ASSUME RecTypeOK, UpInv, OnSides, ~holes, LogCounts(TheLog), SettleRaisesLogged
  PROVE  LogCounts(TheLog')
<1>1. PICK t, b, s, q : t = Head(trades) /\ b = t.buy /\ s = t.sell /\ q = t.qty
  OBVIOUS
<1>2. /\ SettleRaises /\ TradingOK /\ OMSTypeOK /\ trades # <<>> /\ FilledHasAll(orders)
  BY DEF SettleRaisesLogged, RecTypeOK, TradingOK, SettleRaises, UpInv
<1>3. b \in DOMAIN orders /\ s \in DOMAIN orders /\ q \in Nat \ {0}
  BY <1>1, <1>2, TradeParties
<1>4. b # s
  <2>1. trades \in Seq(TradeRecords) /\ Len(trades) >= 1 /\ Len(trades) \in Nat /\ t = trades[1]
    BY <1>1, <1>2, LenProperties, EmptySeq DEF TradingOK, EngineOK, METypeOK
  <2>2. TradeSided(orders, t)
    BY <2>1 DEF OnSides
  <2> QED
    BY <1>1, <2>2 DEF TradeSided, Sided
<1>5. FillBothRaising(b, s, q) /\ TradeRaises(b, s, q)
  BY <1>1 DEF SettleRaisesLogged, SettleRaises
<1>6. orders[b] \in Orders /\ b \in OrderIds /\ s \in OrderIds
  BY <1>2, <1>3 DEF OMSTypeOK
<1>7. OMSTypeOK' /\ DOMAIN orders' = DOMAIN orders
  <2>1. Filling(orders, orders')
    BY <1>2, <1>3, <1>5, BothFilledRaising
  <2> QED
    BY <1>2, <2>1, SettleRaisesOK DEF TradingOK, Filling
<1>8. PICK x, f, fb : x = TradeExecuted(b, s, q) /\ f = Filled(b) /\ fb = Fill(orders[b], q)
  OBVIOUS
<1>9. x \in LogEvents /\ x.kind = "trade" /\ x.buy = b /\ x.sell = s /\ x.qty = q
  <2>1. x \in LogEvents
    BY <1>3, <1>6, <1>8, TradeIsEvent
  <2> QED
    BY <1>8, <2>1 DEF TradeExecuted
<1>10. f \in LogEvents /\ f.kind = "filled" /\ f.order = b /\ f.status = orders'[b].status /\ f.filled = orders'[b].filled
  BY <1>3, <1>7, <1>8, FilledIsEvent
<1>11. PICK pre, post : /\ pre = <<x>>
                        /\ post = IF FillRaises(orders[b], q) THEN <<>> ELSE <<f>>
  OBVIOUS
<1>12. pre \in Seq(LogEvents) /\ post \in Seq(LogEvents)
  BY <1>9, <1>10, <1>11, EmptySeq
<1>13. Pushed(pre, post)
  BY <1>1, <1>8, <1>11 DEF SettleRaisesLogged, Push, Pushed
<1>14. PICK c, d : c = (journal \o <<x>>) \o outbox /\ d = c \o post
  OBVIOUS
<1>15. TheLog' = d
  BY <1>11, <1>12, <1>13, <1>14, LogGrows DEF RecTypeOK
<1>16. /\ c \in Seq(LogEvents) /\ LogCounts(c)
       /\ \A o \in {b, s}, new \in Orders :
             /\ ~Refused(orders[o]) /\ new.ticket = orders[o].ticket
             /\ new.filled >= orders[o].filled
             /\ new.filled >= orders[o].filled + FillIn(x, o) \/ new.filled >= new.ticket.qty
             /\ orders[o].status = "CANCELED" => new.status = "CANCELED"
             => Awaits(c, o, new)
  BY <1>3, <1>9, <1>14, TradeCounts
<1>17. CASE FillRaises(orders[b], q)
  <2>1. d = c
    BY <1>11, <1>14, <1>16, <1>17, ConcatEmptySeq
  <2> QED
    BY <1>15, <1>16, <2>1
<1>18. CASE ~FillRaises(orders[b], q)
  <2>1. d = c \o <<f>>
    BY <1>11, <1>14, <1>18
  <2>2. /\ fb \in Orders /\ ~Refused(orders[b]) /\ fb.ticket = orders[b].ticket
        /\ fb.filled = orders[b].filled + q /\ fb.filled >= orders[b].filled
        /\ orders[b].status = "CANCELED" => fb.status = "CANCELED"
    BY <1>2, <1>3, <1>6, <1>8, <1>18, PartyAwaits
  <2>3. orders'[b] = fb
    BY <1>3, <1>4, <1>5, <1>8, <1>18 DEF FillBothRaising
  <2>4. fb.filled >= orders[b].filled + FillIn(x, b)
    <3>1. orders[b].filled \in Nat
      BY <1>6 DEF Orders
    <3>2. FillIn(x, b) = q
      BY <1>3, <1>4, <1>9 DEF FillIn
    <3> QED
      BY <1>3, <2>2, <3>1, <3>2
  <2>5. Awaits(c, b, fb)
    BY <1>16, <2>2, <2>4
  <2>6. Awaits(c, f.order, fb) /\ f.filled = fb.filled /\ f.status = fb.status /\ f.kind = "filled"
    BY <1>10, <2>3, <2>5
  <2>7. LogCounts(d)
    BY ONLY <1>10, <1>16, <2>1, <2>6, FilledCounts
  <2> QED
    BY <1>15, <2>7
<1> QED
  BY <1>17, <1>18

\* Every step of a handler.
LEMMA HandlersCounts ==
  ASSUME RecTypeOK, UpInv, OnSides, ~holes, LogCounts(TheLog), LoggedHandlers \/ LoggedContinue
  PROVE  LogCounts(TheLog')
<1>1. ASSUME NEW o \in OrderIds, NEW a \in Accounts, NEW t \in Tickets, Place(o, a, t)
      PROVE  LogCounts(TheLog')
  BY <1>1, PlaceRejectedCounts, PlaceAcceptedCounts DEF Place
<1>2. ASSUME Silently PROVE LogCounts(TheLog')
  <2>1. TheLog' = TheLog
    BY <1>2 DEF Silently, recVars, TheLog
  <2> QED
    BY <2>1
<1>3. ASSUME NEW a \in Accounts, NEW amount \in Amounts, MoveCash(a, amount) PROVE LogCounts(TheLog')
  <2>1. amount \in Int /\ -amount \in Int
    BY TradingAssumption
  <2>2. ASSUME NEW x \in Int PROVE CashDelta(a, x) \in LogEvents /\ CashDelta(a, x).kind = "cash"
    BY DEF CashDelta, LogEvents
  <2>3. PushOnly(<<CashDelta(a, amount)>>) \/ PushOnly(<<CashDelta(a, -amount)>>)
    BY <1>3 DEF MoveCash
  <2> QED
    BY <2>1, <2>2, <2>3, QuietCounts
<1>4. ASSUME NEW a \in Deletable, PushOnly(<<Deleted(a)>>) PROVE LogCounts(TheLog')
  <2>1. Deleted(a) \in LogEvents /\ Deleted(a).kind = "deleted"
    BY TradingAssumption DEF Deleted, LogEvents
  <2> QED
    BY <1>4, <2>1, QuietCounts
<1>5. ASSUME NEW o \in OrderIds, Cancel(o), DrainWith(<<>>, <<OrderIs(o, "CANCELED")>>)
      PROVE  LogCounts(TheLog')
  BY <1>5, CancelCounts
<1>6. ASSUME NEW o \in OrderIds, CancelRaises(o) PROVE Silently
  BY <1>6 DEF CancelRaises
<1>7. CASE LoggedHandlers
  BY <1>1, <1>2, <1>3, <1>4, <1>5, <1>6, <1>7 DEF LoggedHandlers
<1>8. CASE LoggedContinue
  BY <1>2, <1>8, SettleCounts, SettleRaisesCounts, FillAtMarketCounts DEF LoggedContinue
<1> QED
  BY <1>7, <1>8

-----------------------------------------------------------------------------
(* What blocks a start *)

BlockInv ==
  /\ phase = "up" => OnSides
  /\ phase = "up" /\ ~holes => LogCounts(TheLog)
  /\ phase # "up" /\ ~holes => LogCounts(journal)
  /\ OnlyTornTradesBlockStart

\* The pre-flight check fails for an order that has no price, or one of whose
\* trades is without its fill.
LEMMA BlockedBy ==
  ASSUME RecTypeOK, DownInv, replayed = Len(journal), LogCounts(journal), ~PreFlightPasses
  PROVE  \E o \in DOMAIN orders :
           IsOpen(orders[o]) /\ (TradeTorn(o) \/ Unpriced(orders[o].ticket))
<1>1. /\ LogTypeOK /\ journal \in Seq(LogEvents) /\ Len(journal) \in Nat
      /\ DOMAIN journal = 1..Len(journal)
  BY LenProperties DEF RecTypeOK, LogTypeOK
<1>2. /\ \A o \in DOMAIN orders : Told(journal, Len(journal), o, orders[o])
      /\ LogFits(journal, orders) /\ orders \in [DOMAIN orders -> Orders]
  <2>1. /\ DOMAIN orders = PlacedBy(journal, Len(journal))
        /\ \A o \in DOMAIN orders : Told(journal, Len(journal), o, orders[o])
    BY DEF DownInv, ReplayedOrders
  <2>2. LogFits(journal, before.orders)
    BY DEF DownInv, BeforeOK
  <2>3. orders \in [DOMAIN orders -> Orders]
    BY DEF RecTypeOK, TradingOK, OMSTypeOK
  <2> QED
    BY <1>1, <2>1, <2>2, <2>3, ToldFits
<1>3. LogTells(journal, orders)
  BY <1>2 DEF LogTells, OrderTold, Told
<1>4. PICK o \in DOMAIN orders :
        /\ orders[o].status \in {"ROUTED", "ACCEPTED", "PARTIALLY_FILLED"}
        /\ Remaining(orders[o]) > 0
        /\ ~ \E e \in Range(journal) : GoesOnBook(e) /\ e.ticket.symbol = orders[o].ticket.symbol
  BY DEF PreFlightPasses
<1>5. PICK ord, qty : ord = orders[o] /\ qty = ord.ticket.qty
  OBVIOUS
<1>6. /\ ord \in Orders /\ ord.ticket \in TicketType /\ qty \in Nat /\ ord.filled \in Nat
      /\ IsOpen(ord) /\ qty - ord.filled > 0 /\ ~Refused(ord)
  <2>1. ord \in Orders
    BY <1>2, <1>5
  <2>2. ord.ticket \in TicketType /\ qty \in Nat /\ ord.filled \in Nat
    BY <1>5, <2>1 DEF Orders, TicketType
  <2>3. IsOpen(ord) /\ Remaining(ord) > 0
    BY <1>4, <1>5 DEF IsOpen
  <2> QED
    BY <1>5, <2>1, <2>2, <2>3 DEF Remaining, Refused
<1>7. PICK F, T, S : /\ F = Tally(journal, Len(journal), FillsOf(o))
                     /\ T = Tally(journal, Len(journal), TradesOf(o))
                     /\ S = Tally(journal, Len(journal), FilledBy(o))
  OBVIOUS
<1>8. F \in Nat /\ T \in Nat /\ S \in Nat
  BY <1>1, <1>7, OrderTallies
<1>9. S = LoggedFill(o) /\ (TradeTorn(o) <=> F < T)
  BY <1>1, <1>7, JournalCounts
<1>10. /\ \E k \in 1..Len(journal) : Places(journal[k], o)
       /\ \A k \in 1..Len(journal) : Places(journal[k], o) => journal[k].ticket = ord.ticket
       /\ F <= T /\ (F = T => ord.filled >= S \/ ord.filled >= qty)
       /\ (\E i \in 1..Len(journal) : Cancels(journal[i], o)) => ord.status = "CANCELED"
  <2>1. orders[o] \in Orders
    BY <1>2
  <2>2. /\ \E k \in 1..Len(journal) : Places(journal[k], o)
        /\ \A k \in 1..Len(journal) : Places(journal[k], o) => journal[k].ticket = orders[o].ticket
        /\ Tally(journal, Len(journal), FillsOf(o)) <= Tally(journal, Len(journal), TradesOf(o))
        /\ Tally(journal, Len(journal), FillsOf(o)) = Tally(journal, Len(journal), TradesOf(o)) =>
             \/ orders[o].filled >= Tally(journal, Len(journal), FilledBy(o))
             \/ orders[o].filled >= orders[o].ticket.qty
        /\ (\E i \in 1..Len(journal) : Cancels(journal[i], o)) /\ ~Refused(orders[o])
             => orders[o].status = "CANCELED"
    BY <1>1, <1>2, <1>3, <2>1, MemoryFollows
  <2> QED
    BY <1>5, <1>6, <1>7, <2>2
<1>11. PICK k \in 1..Len(journal) : Places(journal[k], o)
  BY <1>10
<1>12. PICK e : e = journal[k]
  OBVIOUS
<1>13. e \in Range(journal) /\ e.kind = "placed" /\ e.order = o /\ e.ticket = ord.ticket
  BY <1>1, <1>10, <1>11, <1>12 DEF Places, Range
<1>14. ~GoesOnBook(e)
  BY <1>4, <1>5, <1>13
<1>15. OrderIs(o, "CANCELED") \notin Range(journal)
  <2>1. SUFFICES ASSUME OrderIs(o, "CANCELED") \in Range(journal) PROVE FALSE
    OBVIOUS
  <2>2. PICK i \in 1..Len(journal) : journal[i] = OrderIs(o, "CANCELED")
    BY <1>1, <2>1 DEF Range
  <2>3. Cancels(journal[i], o)
    BY <2>2 DEF Cancels, OrderIs
  <2>4. ord.status = "CANCELED"
    BY <1>10, <2>3
  <2> QED
    BY <1>6, <2>4 DEF IsOpen
<1>16. CASE F < T
  BY <1>5, <1>6, <1>9, <1>16
<1>17. CASE ~(F < T)
  <2>1. qty - S > 0
    BY <1>6, <1>8, <1>10, <1>17
  <2>2. LoggedRemaining(e) = qty - S
    BY <1>5, <1>9, <1>13 DEF LoggedRemaining
  <2>3. ~(e.ticket.type = "MARKET" \/ e.ticket.price # NoPrice)
    BY <1>13, <1>14, <1>15, <2>1, <2>2 DEF GoesOnBook
  <2>4. Unpriced(ord.ticket)
    BY <1>6, <1>13, <2>3 DEF Unpriced, TicketType
  <2> QED
    BY <1>5, <1>6, <2>4
<1> QED
  BY <1>16, <1>17

\* What a new process finds is a first part of what the last one had logged.
LEMMA CutCounts ==
  ASSUME RecTypeOK, LogCounts(TheLog), NEW n, Cut(n)
  PROVE  LogCounts(journal')
<1>1. PICK z, out, c : z = journal /\ out = outbox /\ c = TheLog
  OBVIOUS
<1>2. z \in Seq(LogEvents) /\ out \in Seq(LogEvents) /\ c = z \o out
  BY <1>1 DEF RecTypeOK, LogTypeOK, TheLog
<1>3. /\ n \in 0..Len(z) /\ Len(z) \in Nat /\ Len(out) \in Nat
  <2>1. durable \in 0..Len(z) /\ n \in durable..Len(z) /\ Len(z) \in Nat /\ Len(out) \in Nat
    BY <1>1, <1>2, LenProperties DEF RecTypeOK, LogTypeOK, Cut
  <2> QED
    BY <2>1
<1>4. PICK d : d = SubSeq(z, 1, n) /\ d = journal'
  BY <1>1 DEF Cut
<1>5. d \in Seq(LogEvents) /\ Len(d) = n /\ \A i \in 1..n : d[i] = z[i]
  BY <1>2, <1>3, <1>4, SubSeqFirst
<1>6. /\ c \in Seq(LogEvents) /\ Len(c) = Len(z) + Len(out)
      /\ \A i \in 1..Len(z) + Len(out) : c[i] = IF i <= Len(z) THEN z[i] ELSE out[i - Len(z)]
  BY <1>2, ConcatProperties
<1>7. Len(d) <= Len(c) /\ \A i \in 1..Len(d) : d[i] = c[i]
  <2>1. Len(d) <= Len(c)
    BY <1>3, <1>5, <1>6
  <2>2. ASSUME NEW i \in 1..Len(d) PROVE d[i] = c[i]
    <3>1. i \in 1..Len(z) + Len(out) /\ i <= Len(z) /\ i \in 1..n
      BY <1>3, <1>5
    <3> QED
      BY <1>5, <1>6, <3>1
  <2> QED
    BY <2>1, <2>2
<1> QED
  BY <1>1, <1>4, <1>5, <1>6, <1>7, CountsCut

LEMMA BlockStep ==
  ASSUME RecInv, BlockInv, [RecoveryNext]_allVars
  PROVE  BlockInv'
<1> USE DEF RecInv
<1>1. CASE phase = "up" /\ (LoggedHandlers \/ LoggedContinue)
  <2>1. phase' = "up" /\ holes' = holes
    BY <1>1, HandlersHistory DEF histVars
  <2>2. OnSides'
    BY <1>1, HandlersSides DEF BlockInv
  <2>3. ~holes => LogCounts(TheLog')
    BY <1>1, HandlersCounts DEF BlockInv
  <2>4. ~holes' => LogCounts(TheLog)'
    BY <2>1, <2>3
  <2> QED
    BY <2>1, <2>2, <2>4 DEF BlockInv, OnlyTornTradesBlockStart
<1>2. CASE FlushFails
  <2>1. phase = "up" /\ phase' = "up" /\ holes' /\ UNCHANGED <<bids, asks, trades, orders>>
    BY <1>2 DEF FlushFails, vars, meVars, omsVars
  <2>2. OnSides'
    BY <2>1 DEF BlockInv, OnSides
  <2> QED
    BY <2>1, <2>2 DEF BlockInv, OnlyTornTradesBlockStart
<1>3. CASE Crash
  <2>1. phase = "up" /\ phase' = "restoring" /\ holes' = holes
    BY <1>3, CrashDown DEF Crash, StartProcess
  <2>2. PICK n : Cut(n)
    BY <1>3 DEF Crash
  <2>3. ~holes => LogCounts(journal')
    BY <2>1, <2>2, CutCounts DEF BlockInv
  <2>4. ~holes' => LogCounts(journal)'
    BY <2>1, <2>3
  <2> QED
    BY <2>1, <2>4 DEF BlockInv, OnlyTornTradesBlockStart
<1>4. CASE Shutdown
  <2>1. phase = "up" /\ phase' = "restoring" /\ holes' = holes
    BY <1>4, ShutdownDown DEF Shutdown, StartProcess
  <2>2. Cut(Len(journal))
    BY <1>4 DEF Shutdown
  <2>3. ~holes => LogCounts(journal')
    BY <2>1, <2>2, CutCounts DEF BlockInv
  <2>4. ~holes' => LogCounts(journal)'
    BY <2>1, <2>3
  <2> QED
    BY <2>1, <2>4 DEF BlockInv, OnlyTornTradesBlockStart
<1>5. CASE StartAgain
  <2>1. phase = "failed" /\ phase' = "restoring" /\ holes' = holes /\ journal' = journal
    BY <1>5 DEF StartAgain, StartProcess
  <2> QED
    BY <2>1 DEF BlockInv, OnlyTornTradesBlockStart
<1>6. CASE Replay
  <2>1. phase = "restoring" /\ phase' = phase /\ holes' = holes /\ journal' = journal
    BY <1>6 DEF Replay, histVars
  <2> QED
    BY <2>1 DEF BlockInv, OnlyTornTradesBlockStart
<1>7. CASE ReplayRaises
  <2>1. /\ phase = "restoring" /\ phase' = "failed" /\ holes' = holes
        /\ journal' = journal /\ replayed' = replayed /\ replayed < Len(journal)
        /\ journal[replayed + 1].kind = "cash"
    BY <1>7 DEF ReplayRaises, ApplyRaises, histVars
  <2> QED
    BY <2>1 DEF BlockInv, OnlyTornTradesBlockStart
<1>8. CASE RebuildBooks
  <2>1. /\ phase = "restoring" /\ replayed = Len(journal) /\ DownInv /\ outbox = <<>>
        /\ UNCHANGED <<journal, holes, orders, outbox>>
    BY <1>8 DEF RebuildBooks, omsVars, DownInv
  <2>2. OnSides'
    BY <1>8, <2>1, RebuiltSides
  <2>3. ~holes => LogCounts(journal)
    BY <2>1 DEF BlockInv
  <2>4. CASE PreFlightPasses
    <3>1. phase' = "up"
      BY <1>8, <2>4 DEF RebuildBooks
    <3>2. TheLog' = journal
      <4>1. TheLog' = journal \o <<>>
        BY <2>1 DEF TheLog
      <4>2. journal \in Seq(LogEvents)
        BY DEF RecTypeOK, LogTypeOK
      <4> QED
        BY <4>1, <4>2, ConcatEmptySeq
    <3>3. ~holes' => LogCounts(TheLog)'
      BY <2>1, <2>3, <3>2
    <3> QED
      BY <2>2, <3>1, <3>3 DEF BlockInv, OnlyTornTradesBlockStart
  <2>5. CASE ~PreFlightPasses
    <3>1. phase' = "failed"
      BY <1>8, <2>5 DEF RebuildBooks
    <3>2. ~holes => \E o \in DOMAIN orders :
                      IsOpen(orders[o]) /\ (TradeTorn(o) \/ Unpriced(orders[o].ticket))
      BY <2>1, <2>3, <2>5, BlockedBy
    <3>3. \A o : TradeTorn(o)' <=> TradeTorn(o)
      BY <2>1 DEF TradeTorn, Logged
    <3>4. OnlyTornTradesBlockStart'
      BY <2>1, <3>2, <3>3 DEF OnlyTornTradesBlockStart
    <3>5. ~holes' => LogCounts(journal)'
      BY <2>1, <2>3
    <3> QED
      BY <3>1, <3>4, <3>5 DEF BlockInv
  <2> QED
    BY <2>4, <2>5
<1>9. CASE UNCHANGED allVars
  <2>1. UNCHANGED <<phase, holes, journal, outbox, replayed, orders, bids, asks, trades>>
    BY <1>9 DEF allVars, recVars, histVars, vars, omsVars, meVars
  <2>2. (phase = "up" => OnSides)'
    BY <2>1 DEF BlockInv, OnSides
  <2>3. TheLog' = TheLog
    BY <2>1 DEF TheLog
  <2>4. (phase = "up" /\ ~holes => LogCounts(TheLog))' /\ (phase # "up" /\ ~holes => LogCounts(journal))'
    BY <2>1, <2>3 DEF BlockInv
  <2>5. \A o : TradeTorn(o)' <=> TradeTorn(o)
    BY <2>1 DEF TradeTorn, Logged
  <2>6. OnlyTornTradesBlockStart'
    BY <2>1, <2>5 DEF BlockInv, OnlyTornTradesBlockStart
  <2> QED
    BY <2>2, <2>4, <2>6 DEF BlockInv
<1> QED
  BY <1>1, <1>2, <1>3, <1>4, <1>5, <1>6, <1>7, <1>8, <1>9 DEF RecoveryNext, ColdStart

LEMMA BlockStarts ==
  ASSUME RecoveryInit
  PROVE  BlockInv
<1>1. /\ Init /\ LogInit /\ outbox = <<>> /\ phase = "up"
  BY DEF RecoveryInit
<1>2. /\ journal = <<>> /\ trades = <<>>
      /\ bids = [s \in Symbols |-> <<>>] /\ asks = [s \in Symbols |-> <<>>]
  BY <1>1 DEF LogInit, Init, MEInit
<1>3. LogCounts(TheLog)
  <2>1. Len(TheLog) = 0
    BY <1>1, <1>2, EmptySeq, ConcatEmptySeq DEF TheLog
  <2> QED
    BY <2>1, CountsEmpty
<1>4. OnSides
  <2>1. Len(trades) = 0 /\ Len(<<>>) = 0
    BY <1>2, EmptySeq
  <2>2. \A s \in Symbols : OrdersOn(bids[s]) = {} /\ OrdersOn(asks[s]) = {}
    BY <1>2 DEF OrdersOn
  <2> QED
    BY <2>1, <2>2 DEF OnSides
<1> QED
  BY <1>1, <1>3, <1>4 DEF BlockInv, OnlyTornTradesBlockStart

\* Whatever the crashes and restarts, as long as no flush has failed, a process
\* fails to start only when cold_start comes to a withdrawal that the account
\* cannot pay, or when an order that the pre-flight check finds open has a trade
\* whose OrderFilled is not in the log, or is a LIMIT order without a price.
THEOREM OnlyTornTradesBlock == RecoverySpec => []OnlyTornTradesBlockStart
<1>1. BlockInv => OnlyTornTradesBlockStart
  BY DEF BlockInv
<1>2. RecInv /\ BlockInv /\ [RecoveryNext]_allVars => BlockInv'
  BY BlockStep
<1> QED
  BY <1>1, <1>2, BlockStarts, RecInvariant, PTL DEF RecoverySpec
=============================================================================
