------------------------------ MODULE Broadcast ------------------------------
(***************************************************************************)
(* Events on their way to the browsers: broadcast_event_sync makes an      *)
(* asyncio task of every event, and each task walks over the set of        *)
(* clients, awaiting a send for every client the event is addressed to.    *)
(* While it waits other tasks run, connections come and go, and clients    *)
(* change what they are subscribed to.                                     *)
(*                                                                         *)
(* The set is CPython's hash table: the iterator walks over the slots, and *)
(* it raises when the number of elements is not the one it started with.   *)
(* A client keeps its slot until the table is rebuilt, which an add does   *)
(* that finds too many slots used: those of the clients that have left     *)
(* count, so the fifth connection of a process is enough.  Then all        *)
(* clients are placed anew, while an iterator under way keeps its index.   *)
(* Slots are numbered by their order here: how many free ones lie between  *)
(* two clients makes no difference.                                        *)
(***************************************************************************)
EXTENDS Naturals, Sequences, FiniteSets, Functions

CONSTANTS
  Clients,      \* WSClient objects: one per connection, never used again
  Users,
  Symbols,
  Topics,       \* what clients may subscribe to
  Events,       \* what is published: whom it is addressed to
  MaxEvents,    \* bound: events published in a behaviour
  Earlier,      \* connections that may have come and gone before
  Free,         \* a slot without a client
  NoUser,       \* of a client that has not connected yet
  NoSymbol      \* of an event that is not market data

AllMarkets == "market.*"

ASSUME BroadcastAssumption ==
  /\ Events \subseteq [symbol : Symbols \cup {NoSymbol}, owners : SUBSET Users]
  /\ Topics \subseteq Symbols \cup {AllMarkets}
  /\ MaxEvents \in Nat
  /\ Earlier \subseteq 0 .. 4    \* not enough to rebuild the first table
  /\ IsFiniteSet(Clients)
  /\ NoUser \notin Users
  /\ Free \notin Clients
  /\ NoSymbol \notin Symbols

Slots == 1 .. Cardinality(Clients)

VARIABLES
  table,          \* _clients
  fill,           \* its slots that were ever used, since it was built
  size,           \* all its slots
  user,           \* WSClient.user_id
  subscriptions,  \* WSClient.subscriptions
  hungUp,         \* the peers that closed their connection
  tasks           \* the tasks of broadcast_event, in the order they were created

vars == <<table, fill, size, user, subscriptions, hungUp, tasks>>

Members == { table[s] : s \in Slots } \ {Free}

Task == [event : Events,
         state : {"created", "sending", "ended", "died"},
         at : Slots \cup {0},        \* the iterator's position
         to : Clients \cup {Free},   \* the client a send is awaited for
         used : 0 .. Cardinality(Clients),  \* clients in the set when it began
         dead : SUBSET Clients,
         written : [Clients -> 0 .. 2],  \* how often it was sent; 2 stands for an error
         owed : SUBSET Clients,      \* history: addressed ever since it began, not sent to
         rebuilt : BOOLEAN]          \* history: the table was rebuilt during a send

TypeOK ==
  /\ table \in [Slots -> Clients \cup {Free}]
  /\ fill \in Nat /\ size \in Nat
  /\ user \in [Clients -> Users \cup {NoUser}]
  /\ subscriptions \in [Clients -> SUBSET Topics]
  /\ hungUp \subseteq Clients
  /\ tasks \in Seq(Task)

Init ==
  /\ table = [s \in Slots |-> Free]
  /\ fill \in Earlier /\ size = 8
  /\ user = [c \in Clients |-> NoUser]
  /\ subscriptions = [c \in Clients |-> {}]
  /\ hungUp = {}
  /\ tasks = <<>>

Without(S) == [s \in Slots |-> IF table[s] \in S THEN Free ELSE table[s]]

Walks == { t \in DOMAIN tasks : tasks[t].state = "sending" }

Running(t) == tasks[t].state \in {"created", "sending"}

\* The task is over: of its local state only whom it still owes is kept,
\* if it came to its end.
Over(task, how) ==
  [task EXCEPT !.state = how, !.at = 0, !.to = Free, !.used = 0, !.dead = {},
               !.written = [c \in Clients |-> 0],
               !.owed = IF how = "ended" THEN @ ELSE {}]

-----------------------------------------------------------------------------
\* event_to_topics and _client_should_receive: market data goes to subscribers,
\* an event about orders or trades only to the users it is about.
AddressedTo(c, subs, e) ==
  \/ e.symbol # NoSymbol /\ subs \cap {e.symbol, AllMarkets} # {}
  \/ user[c] \in e.owners

Addressed(c, e) == AddressedTo(c, subscriptions[c], e)

\* Mutant of Stops: the walk begins again at the first slot.
StopsFromTheStart(t, i) ==
  { s \in Slots : /\ s # i
                  /\ table[s] \in Clients /\ Addressed(table[s], tasks[t].event) }

\* Where a walk that is at slot i still has something to send.
Stops(t, i) ==
  { s \in Slots : /\ s > i
                  /\ table[s] \in Clients /\ Addressed(table[s], tasks[t].event) }

\* The iterator goes on from slot i until the next send is awaited.  Clients
\* found dead are discarded after the walk, unless it raised.
GoOn(t, i, task) ==
  IF task.used # Cardinality(Members)
  THEN /\ tasks' = [tasks EXCEPT ![t] = Over(task, "died")]
       /\ UNCHANGED table
  ELSE IF Stops(t, i) = {}
  THEN /\ tasks' = [tasks EXCEPT ![t] = Over(task, "ended")]
       /\ table' = Without(task.dead)
  ELSE LET next == CHOOSE s \in Stops(t, i) : \A other \in Stops(t, i) : s <= other
           c == table[next]
       IN  /\ tasks' = [tasks EXCEPT ![t] =
                          [task EXCEPT !.state = "sending", !.at = next, !.to = c,
                                       !.owed = @ \ {c},
                                       !.written[c] = IF task.rebuilt THEN 0 ELSE @ + 1]]
           /\ UNCHANGED table

-----------------------------------------------------------------------------
\* The next add leaves three fifths of the table used, and rebuilds it.
Crowded == 5 * (fill + 1) >= 3 * (size - 1)

\* The size of a table rebuilt for so many elements: the smallest power of two,
\* from 8 on, that is more than four times as much (two times, when large).
Sizes == { n \in 8 .. 8 * (Cardinality(Clients) + 1) :
             \E k \in 3 .. Cardinality(Clients) + 3 : n = 2 ^ k }

Fits(n, elements) == n > IF elements > 50000 THEN 2 * elements ELSE 4 * elements

\* websocket_endpoint: the token was valid, the connection is accepted and added.
Connect(c, u, s) ==
  /\ user[c] = NoUser
  /\ ~Crowded
  /\ table[s] = Free
  /\ user' = [user EXCEPT ![c] = u]
  /\ table' = [table EXCEPT ![s] = c]
  /\ fill' = fill + 1
  /\ UNCHANGED <<size, subscriptions, hungUp, tasks>>

\* The same, when the add rebuilds the table: place says where each client comes
\* to be, and at where the index of each walk under way then lies among them.  The
\* history of such a walk is not kept any longer.
ConnectRebuilding(c, u) ==
  /\ user[c] = NoUser
  /\ Crowded
  /\ user' = [user EXCEPT ![c] = u]
  /\ \E place \in Injection(Members \cup {c}, Slots) :
       table' = [s \in Slots |-> IF s \in Range(place) THEN AntiFunction(place)[s] ELSE Free]
  /\ fill' = Cardinality(Members \cup {c})
  /\ \E n \in Sizes :
       /\ Fits(n, fill')
       /\ \A m \in Sizes : Fits(m, fill') => n <= m
       /\ size' = n
  /\ \E at \in [Walks -> Slots \cup {0}] :
       tasks' = [t \in DOMAIN tasks |->
                   IF t \in Walks
                   THEN [tasks[t] EXCEPT !.at = at[t], !.rebuilt = TRUE, !.owed = {},
                                         !.written = [d \in Clients |-> 0]]
                   ELSE tasks[t]]
  /\ UNCHANGED <<subscriptions, hungUp>>

Subscribe(c, topic) ==
  /\ user[c] # NoUser /\ c \notin hungUp
  /\ subscriptions' = [subscriptions EXCEPT ![c] = @ \cup {topic}]
  /\ UNCHANGED <<table, fill, size, user, hungUp, tasks>>

Unsubscribe(c, topic) ==
  /\ user[c] # NoUser /\ c \notin hungUp
  /\ subscriptions' = [subscriptions EXCEPT ![c] = @ \ {topic}]
  /\ tasks' = [t \in DOMAIN tasks |->
                 IF Running(t) /\ ~AddressedTo(c, subscriptions'[c], tasks[t].event)
                 THEN [tasks[t] EXCEPT !.owed = @ \ {c}]
                 ELSE tasks[t]]
  /\ UNCHANGED <<table, fill, size, user, hungUp>>

\* The peer closes, or is gone.
HangUp(c) ==
  /\ user[c] # NoUser /\ c \notin hungUp
  /\ hungUp' = hungUp \cup {c}
  /\ tasks' = [t \in DOMAIN tasks |->
                 IF Running(t) THEN [tasks[t] EXCEPT !.owed = @ \ {c}] ELSE tasks[t]]
  /\ UNCHANGED <<table, fill, size, user, subscriptions>>

\* receive_text raises in the endpoint, which discards its client.
Disconnect(c) ==
  /\ c \in hungUp \cap Members
  /\ table' = Without({c})
  /\ UNCHANGED <<fill, size, user, subscriptions, hungUp, tasks>>

\* broadcast_event_sync: a task of its own for every event.
Publish(e) ==
  /\ Len(tasks) < MaxEvents
  /\ tasks' = Append(tasks, [event |-> e, state |-> "created", at |-> 0, to |-> Free,
                             used |-> 0, dead |-> {}, owed |-> {}, rebuilt |-> FALSE,
                             written |-> [c \in Clients |-> 0]])
  /\ UNCHANGED <<table, fill, size, user, subscriptions, hungUp>>

\* The event loop starts tasks in the order they were created.
Begin(t) ==
  /\ tasks[t].state = "created"
  /\ \A earlier \in 1 .. t - 1 : tasks[earlier].state # "created"
  /\ GoOn(t, 0, [tasks[t] EXCEPT
                  !.used = Cardinality(Members),
                  !.owed = { c \in Members \ hungUp : Addressed(c, tasks[t].event) }])
  /\ UNCHANGED <<fill, size, user, subscriptions, hungUp>>

SendReturns(t) ==
  /\ tasks[t].state = "sending"
  /\ GoOn(t, tasks[t].at, tasks[t])
  /\ UNCHANGED <<fill, size, user, subscriptions, hungUp>>

\* Mutant of SendRaises: the walk is given up.
SendRaisesGivingUp(t) ==
  /\ tasks[t].state = "sending"
  /\ tasks[t].to \in hungUp
  /\ tasks' = [tasks EXCEPT ![t] = Over(tasks[t], "ended")]
  /\ table' = Without({tasks[t].to})
  /\ UNCHANGED <<fill, size, user, subscriptions, hungUp>>

\* The client is noted as dead, and the walk goes on.
SendRaises(t) ==
  /\ tasks[t].state = "sending"
  /\ tasks[t].to \in hungUp
  /\ GoOn(t, tasks[t].at, [tasks[t] EXCEPT !.dead = @ \cup {tasks[t].to}])
  /\ UNCHANGED <<fill, size, user, subscriptions, hungUp>>

Run(t) == Begin(t) \/ SendReturns(t) \/ SendRaises(t)

Next ==
  \/ \E c \in Clients, u \in Users, s \in Slots : Connect(c, u, s)
  \/ \E c \in Clients, u \in Users : ConnectRebuilding(c, u)
  \/ \E c \in Clients, topic \in Topics :
       Subscribe(c, topic) \/ Unsubscribe(c, topic)
  \/ \E c \in Clients : HangUp(c) \/ Disconnect(c)
  \/ \E e \in Events : Publish(e)
  \/ \E t \in DOMAIN tasks : Run(t)

Spec == Init /\ [][Next]_vars

-----------------------------------------------------------------------------
\* A broadcast that came to its end has reached every client it was addressed
\* to all the time, whatever other tasks, subscriptions and dead connections
\* did to the set it walked over (design-spec.md:328: at least once).  It does
\* not say so of a broadcast that died: one connection that opens or closes
\* during a send is enough for that; nor of one during whose sends the table
\* was rebuilt, which may pass a client by.
NoOneSkipped ==
  \A t \in DOMAIN tasks :
    tasks[t].state = "ended" /\ ~tasks[t].rebuilt => tasks[t].owed = {}

\* No client is sent an event twice, also when clients leave and arrive behind
\* the iterator's back, unless the table was rebuilt during one of the sends.
SentAtMostOnce ==
  \A t \in DOMAIN tasks :
    ~tasks[t].rebuilt => \A c \in Clients : tasks[t].written[c] <= 1
=============================================================================
