--------------------------------- MODULE OMS ---------------------------------
(***************************************************************************)
(* The order management system: the order entity, its state machine and    *)
(* the repository.  The operations are those of OMSService that change     *)
(* orders; what they ask of the accounts and of the engine is added where  *)
(* the components are composed (module Trading).                           *)
(***************************************************************************)
EXTENDS Common

CONSTANTS
  Tickets,      \* the order forms users submit
  Ticks         \* what SYSTEM_CLOCK may advance between two orders

VARIABLES
  orders,       \* OrderRepository._orders: a function on the ids placed
  clock         \* created_at of the latest order

omsVars == <<orders, clock>>

Statuses == {"PENDING", "ACCEPTED", "ROUTED", "PARTIALLY_FILLED",
             "FILLED", "CANCELED", "REJECTED"}

\* A PlaceOrderRequest: qty > 0 is validated, the price may be missing.
TicketType ==
  [symbol : Symbols, side : Sides, type : {"LIMIT", "MARKET"},
   price : Nat \cup {NoPrice}, qty : Nat \ {0}]

ASSUME OMSAssumption ==
  /\ Tickets \subseteq TicketType
  /\ Ticks \subseteq Nat

Orders ==
  [account : Accounts, ticket : TicketType, status : Statuses,
   created : Nat, filled : Nat]

OMSTypeOK ==
  /\ DOMAIN orders \subseteq OrderIds
  /\ orders \in [DOMAIN orders -> Orders]
  /\ clock \in Nat

-----------------------------------------------------------------------------
(* OrderStateMachine and the properties of Order *)

Transitions ==
  [PENDING          |-> {"ACCEPTED", "REJECTED"},
   ACCEPTED         |-> {"ROUTED", "CANCELED"},
   ROUTED           |-> {"PARTIALLY_FILLED", "FILLED", "CANCELED"},
   PARTIALLY_FILLED |-> {"FILLED", "CANCELED"},
   FILLED           |-> {},
   CANCELED         |-> {},
   REJECTED         |-> {}]

CanTransition(from, to) == to \in Transitions[from]

IsOpen(ord) == ord.status \in {"ACCEPTED", "ROUTED", "PARTIALLY_FILLED"}

IsCancelable(ord) == IsOpen(ord) \/ ord.status = "PENDING"

Remaining(ord) == ord.ticket.qty - ord.filled

-----------------------------------------------------------------------------
OMSInit == orders = <<>> /\ clock = 0

\* place_order: the order enters the repository PENDING and, before the call
\* is over, is rejected or accepted and routed.
Enter(o, a, ticket, status) ==
  /\ o \in OrderIds \ DOMAIN orders
  /\ \E d \in Ticks : clock' = clock + d
  /\ orders' = Put(orders, o, [account |-> a, ticket |-> ticket, status |-> status,
                              created |-> clock', filled |-> 0])

RejectOrder(o, a, ticket) ==
  /\ CanTransition("PENDING", "REJECTED")
  /\ Enter(o, a, ticket, "REJECTED")

AcceptAndRoute(o, a, ticket) ==
  /\ CanTransition("PENDING", "ACCEPTED")
  /\ CanTransition("ACCEPTED", "ROUTED")
  /\ Enter(o, a, ticket, "ROUTED")

\* Mutant of CancelOrder: whatever the status.
CancelOrderUnguarded(o) ==
  /\ orders' = [orders EXCEPT ![o].status = "CANCELED"]
  /\ UNCHANGED clock

\* cancel_order once the order has been found cancelable.
CancelOrder(o) ==
  /\ IsCancelable(orders[o])
  /\ CanTransition(orders[o].status, "CANCELED")
  /\ orders' = [orders EXCEPT ![o].status = "CANCELED"]
  /\ UNCHANGED clock

\* on_trade_executed and on_market_fill, for one order.  The quantity is
\* added first; only a fill that completes the order is validated by the
\* state machine, and it raises when FILLED cannot be reached.
FillRaises(ord, qty) ==
  /\ ord.filled + qty >= ord.ticket.qty
  /\ ~CanTransition(ord.status, "FILLED")

\* Mutant of AddFill: the sign is wrong.
AddFillReversed(ord, qty) == [ord EXCEPT !.filled = @ - qty]

AddFill(ord, qty) == [ord EXCEPT !.filled = @ + qty]

\* Mutant of Fill: > for >=.
FillStrictly(ord, qty) ==
  LET status == IF ord.filled + qty > ord.ticket.qty THEN "FILLED"
                ELSE IF ord.status = "ROUTED" THEN "PARTIALLY_FILLED"
                ELSE ord.status
  IN  [AddFill(ord, qty) EXCEPT !.status = status]

Fill(ord, qty) ==
  LET status == IF ord.filled + qty >= ord.ticket.qty THEN "FILLED"
                ELSE IF ord.status = "ROUTED" THEN "PARTIALLY_FILLED"
                ELSE ord.status
  IN  [AddFill(ord, qty) EXCEPT !.status = status]

\* on_trade_executed for a trade between two orders, buyer first.
TradeRaises(buy, sell, qty) ==
  FillRaises(orders[buy], qty) \/ FillRaises(orders[sell], qty)

FillBoth(buy, sell, qty) ==
  /\ LET bought == [orders EXCEPT ![buy] = Fill(@, qty)]
     IN  orders' = [bought EXCEPT ![sell] = Fill(@, qty)]
  /\ UNCHANGED clock

\* The exception leaves behind what was written before it was raised.
FillBothRaising(buy, sell, qty) ==
  /\ IF FillRaises(orders[buy], qty)
     THEN orders' = [orders EXCEPT ![buy] = AddFill(@, qty)]
     ELSE LET bought == [orders EXCEPT ![buy] = Fill(@, qty)]
          IN  orders' = [bought EXCEPT ![sell] = AddFill(@, qty)]
  /\ UNCHANGED clock

\* on_market_fill: Engine A fills one order, without a counterparty.
FillFromMarket(o, qty) ==
  /\ ~FillRaises(orders[o], qty)
  /\ orders' = [orders EXCEPT ![o] = Fill(@, qty)]
  /\ UNCHANGED clock
=============================================================================
