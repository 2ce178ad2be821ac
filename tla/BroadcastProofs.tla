--------------------------- MODULE BroadcastProofs ---------------------------
(***************************************************************************)
(* For every number of clients, users, topics and events: a broadcast      *)
(* during whose sends the table is not rebuilt sends nobody an event       *)
(* twice, and has skipped nobody if it ends.                               *)
(***************************************************************************)
EXTENDS Broadcast, SequenceTheorems, FiniteSetTheorems, WellFoundedInduction, TLAPS

\* A client is at one place in the table.
OneSlot == \A r, s \in Slots : table[r] \in Clients /\ table[r] = table[s] => r = s

\* A connection that was closed never comes back, so whom a task has written to
\* cannot turn up again in another slot.
MembersConnected == \A s \in Slots : table[s] \in Clients => user[table[s]] # NoUser

\* What a walk that has come to slot i knows: who is still owed the event is
\* ahead of it, and nobody ahead was sent it.
Walk(task, i) ==
  /\ task.dead \subseteq hungUp
  /\ \A c \in task.owed : /\ c \notin hungUp
                          /\ \E s \in Slots : table[s] = c /\ s > i
                          /\ Addressed(c, task.event)
  /\ \A c \in Clients : /\ task.written[c] <= 1
                        /\ task.written[c] > 0 => user[c] # NoUser
  /\ \A s \in Slots : table[s] \in Clients /\ s > i => task.written[table[s]] = 0

TaskOK(task) ==
  /\ \A c \in Clients : task.written[c] <= 1
  /\ task.state = "created" =>
       task.dead = {} /\ ~task.rebuilt /\ \A c \in Clients : task.written[c] = 0
  /\ task.rebuilt => task.owed = {} /\ \A c \in Clients : task.written[c] = 0
  /\ task.state = "sending" => Walk(task, task.at)
  /\ task.state = "ended" => task.owed = {}

BInv ==
  /\ TypeOK
  /\ OneSlot
  /\ MembersConnected
  /\ \A t \in 1..Len(tasks) : TaskOK(tasks[t])

-----------------------------------------------------------------------------
(* Slots and members *)

\* A non-empty set of slots has a first one: the intervals 0..i are finite sets,
\* and strict inclusion of finite sets is well-founded.
LEMMA FirstSlot ==
  ASSUME NEW I \in SUBSET Nat, I # {}
  PROVE  \E m \in I : \A i \in I : m <= i
<1> DEFINE Below == { 0..i : i \in I }
<1>1. Below \subseteq FiniteSubsetsOf(Nat) /\ Below # {}
  <2>1. \A i \in I : 0..i \in SUBSET Nat /\ IsFiniteSet(0..i)
    BY FS_Interval
  <2> QED BY <2>1 DEF FiniteSubsetsOf
<1>2. PICK M \in Below : \A L \in Below : <<L, M>> \notin StrictSubsetOrdering(Nat)
  <2> HIDE DEF Below
  <2> QED BY <1>1, FS_StrictSubsetOrderingWellFounded, WFMin
<1>3. PICK m \in I : M = 0..m
  OBVIOUS
<1>4. ASSUME NEW i \in I, ~(m <= i)
      PROVE  FALSE
  <2>1. i < m /\ i \in Nat /\ m \in Nat
    BY <1>4
  <2>2. 0..i \subseteq 0..m /\ 0..i # 0..m /\ 0..i \in SUBSET Nat /\ 0..m \in SUBSET Nat
    <3>1. m \in 0..m /\ m \notin 0..i
      BY <2>1
    <3> QED BY <2>1, <3>1
  <2>3. <<0..i, M>> \in StrictSubsetOrdering(Nat)
    BY <1>3, <2>2 DEF StrictSubsetOrdering
  <2> QED BY <1>2, <2>3
<1> QED BY <1>4

LEMMA SlotsAreNumbers ==
  /\ Cardinality(Clients) \in Nat
  /\ Slots \subseteq Nat
  /\ \A s \in Slots : s > 0
BY BroadcastAssumption, FS_CardinalityType DEF Slots

LEMMA SizesAreNumbers == Sizes \subseteq Nat
BY DEF Sizes

LEMMA MembersAreClients ==
  ASSUME TypeOK
  PROVE  /\ Members \subseteq Clients
         /\ Cardinality(Members) \in 0 .. Cardinality(Clients)
         /\ \A c \in Clients : c \in Members <=> \E s \in Slots : table[s] = c
<1>1. Members \subseteq Clients
  BY DEF Members, TypeOK
<1>2. Cardinality(Members) \in Nat /\ Cardinality(Members) <= Cardinality(Clients)
  BY <1>1, BroadcastAssumption, FS_Subset, FS_CardinalityType
<1>3. \A c \in Clients : c \in Members <=> \E s \in Slots : table[s] = c
  BY BroadcastAssumption DEF Members
<1> QED BY <1>1, <1>2, <1>3, SlotsAreNumbers

LEMMA TasksAreTasks ==
  ASSUME TypeOK
  PROVE  Len(tasks) \in Nat /\ DOMAIN tasks = 1..Len(tasks)
         /\ \A t \in 1..Len(tasks) : tasks[t] \in Task
BY LenProperties, ElementOfSeq DEF TypeOK

\* One task changes.
LEMMA OneTaskChanges ==
  ASSUME BInv, NEW t \in 1..Len(tasks), NEW new \in Task,
         tasks' = [tasks EXCEPT ![t] = new]
  PROVE  /\ tasks' \in Seq(Task)
         /\ Len(tasks') = Len(tasks)
         /\ tasks'[t] = new
         /\ \A u \in 1..Len(tasks) : u # t => tasks'[u] = tasks[u]
<1>1. tasks \in Seq(Task)
  BY DEF BInv, TypeOK
<1> QED BY <1>1, ExceptSeq

-----------------------------------------------------------------------------
(* The walk *)

\* Connections that are closed anyway are taken out of the table.
LEMMA RemovalKeeps ==
  ASSUME BInv, NEW S, S \subseteq hungUp, table' = Without(S),
         UNCHANGED <<user, subscriptions, hungUp>>
  PROVE  /\ table' \in [Slots -> Clients \cup {Free}]
         /\ OneSlot' /\ MembersConnected'
         /\ \A task \in Task, i \in Slots \cup {0} : Walk(task, i) => Walk(task, i)'
<1>1. table \in [Slots -> Clients \cup {Free}] /\ hungUp \subseteq Clients /\ Free \notin Clients
  BY BroadcastAssumption DEF BInv, TypeOK
<1>2. \A s \in Slots : table'[s] = IF table[s] \in S THEN Free ELSE table[s]
  BY DEF Without
<1>3. table' \in [Slots -> Clients \cup {Free}]
  BY <1>1 DEF Without
<1>4. \A s \in Slots : table'[s] \in Clients => table'[s] = table[s]
  BY <1>1, <1>2
<1>5. OneSlot' /\ MembersConnected'
  <2>1. ASSUME NEW r \in Slots, NEW s \in Slots, table'[r] \in Clients, table'[r] = table'[s]
        PROVE  r = s
    BY <2>1, <1>4 DEF BInv, OneSlot
  <2>2. ASSUME NEW s \in Slots, table'[s] \in Clients
        PROVE  user'[table'[s]] # NoUser
    BY <2>2, <1>4 DEF BInv, MembersConnected
  <2> QED BY <2>1, <2>2 DEF OneSlot, MembersConnected, Slots
<1>6. ASSUME NEW task \in Task, NEW i \in Slots \cup {0}, Walk(task, i)
      PROVE  Walk(task, i)'
  <2>1. task.dead \subseteq hungUp'
    BY <1>6 DEF Walk
  <2>2. ASSUME NEW c \in task.owed
        PROVE  /\ c \notin hungUp'
               /\ \E s \in Slots : table'[s] = c /\ s > i
               /\ Addressed(c, task.event)'
    <3>1. c \notin hungUp /\ Addressed(c, task.event)
      BY <1>6 DEF Walk
    <3>2. PICK s \in Slots : table[s] = c /\ s > i
      BY <1>6 DEF Walk
    <3>3. table'[s] = c
      BY <1>2, <3>1, <3>2
    <3> QED BY <3>1, <3>2, <3>3 DEF Addressed, AddressedTo
  <2>3. \A c \in Clients : /\ task.written[c] <= 1
                           /\ task.written[c] > 0 => user'[c] # NoUser
    BY <1>6 DEF Walk
  <2>4. ASSUME NEW s \in Slots, table'[s] \in Clients, s > i
        PROVE  task.written[table'[s]] = 0
    BY <2>4, <1>4, <1>6 DEF Walk
  <2> QED BY <2>1, <2>2, <2>3, <2>4 DEF Walk, Slots
<1> QED BY <1>3, <1>5, <1>6

\* A walk stands as it stood when only tasks change.
LEMMA WalkUnchanged ==
  ASSUME NEW task, NEW i, Walk(task, i), UNCHANGED <<table, fill, size, user, subscriptions, hungUp>>
  PROVE  Walk(task, i)'
BY DEF Walk, Addressed, AddressedTo, Slots

\* What is left of a task that is over.
LEMMA OverIsTask ==
  ASSUME NEW task \in Task, NEW how \in {"ended", "died"}
  PROVE  /\ Over(task, how) \in Task
         /\ Over(task, how).state = how
         /\ \A c \in Clients : Over(task, how).written[c] = 0
         /\ Over(task, how).rebuilt = task.rebuilt
         /\ Over(task, how).owed \in {task.owed, {}}
<1> DEFINE Unsent == [c \in Clients |-> 0]
           Left == IF how = "ended" THEN task.owed ELSE {}
<1>1. Over(task, how) = [event |-> task.event, state |-> how, at |-> 0, to |-> Free,
         used |-> 0, dead |-> {}, written |-> Unsent, owed |-> Left,
         rebuilt |-> task.rebuilt]
  <2> SUFFICES ASSUME NEW over, over = Over(task, how)
               PROVE  over = [event |-> task.event, state |-> how, at |-> 0, to |-> Free,
                              used |-> 0, dead |-> {}, written |-> Unsent, owed |-> Left,
                              rebuilt |-> task.rebuilt]
    OBVIOUS
  <2> QED BY DEF Over, Task
<1>2. 0 \in 0..Cardinality(Clients)
  BY SlotsAreNumbers
<1>3. /\ task.event \in Events /\ Unsent \in [Clients -> 0..2]
      /\ Left \in SUBSET Clients /\ Left \in {task.owed, {}} /\ task.rebuilt \in BOOLEAN
      /\ \A c \in Clients : Unsent[c] = 0
  BY DEF Task
<1> HIDE DEF Unsent, Left
<1> QED BY <1>1, <1>2, <1>3 DEF Task

\* The walk of one task goes on, from a slot where it stands as it should.
LEMMA WalkGoesOn ==
  ASSUME BInv, NEW t \in 1..Len(tasks), NEW i \in Slots \cup {0}, NEW task \in Task,
         Walk(task, i), task.event = tasks[t].event,
         task.rebuilt => task.owed = {} /\ \A c \in Clients : task.written[c] = 0,
         GoOn(t, i, task), UNCHANGED <<fill, size, user, subscriptions, hungUp>>
  PROVE  BInv'
<1>0. /\ table \in [Slots -> Clients \cup {Free}] /\ tasks \in Seq(Task)
      /\ Len(tasks) \in Nat /\ \A u \in 1..Len(tasks) : tasks[u] \in Task
      /\ Slots \subseteq Nat
  BY TasksAreTasks, SlotsAreNumbers DEF BInv, TypeOK
<1>1. ASSUME NEW new \in Task, tasks' = [tasks EXCEPT ![t] = new],
             table' = table \/ \E S : S \subseteq hungUp /\ table' = Without(S),
             TaskOK(new)'
      PROVE  BInv'
  <2>1. /\ table' \in [Slots -> Clients \cup {Free}]
        /\ OneSlot' /\ MembersConnected'
        /\ \A x \in Task, j \in Slots \cup {0} : Walk(x, j) => Walk(x, j)'
    <3>1. CASE table' = table
      BY <3>1, <1>0
         DEF BInv, OneSlot, MembersConnected, Walk, Addressed, AddressedTo, Slots
    <3>2. CASE \E S : S \subseteq hungUp /\ table' = Without(S)
      BY <3>2, RemovalKeeps
    <3> QED BY <1>1, <3>1, <3>2
  <2>2. /\ tasks' \in Seq(Task) /\ Len(tasks') = Len(tasks) /\ tasks'[t] = new
        /\ \A u \in 1..Len(tasks) : u # t => tasks'[u] = tasks[u]
    BY <1>1, OneTaskChanges
  <2>3. TypeOK'
    BY <2>1, <2>2 DEF BInv, TypeOK, Task, Slots
  <2>4. ASSUME NEW u \in 1..Len(tasks), u # t
        PROVE  TaskOK(tasks[u])'
    <3> SUFFICES ASSUME NEW x \in Task, x = tasks[u], x = tasks'[u], TaskOK(x)
                 PROVE  TaskOK(x)'
      BY <2>2, <2>4, <1>0 DEF BInv
    <3>1. x.at \in Slots \cup {0}
      BY DEF Task
    <3>2. Walk(x, x.at) => Walk(x, x.at)'
      BY <2>1, <3>1
    <3> QED BY <3>2 DEF TaskOK
  <2>5. TaskOK(tasks[t])'
    BY <1>1, <2>2
  <2>6. \A u \in 1..Len(tasks') : TaskOK(tasks[u])'
    BY <2>2, <2>4, <2>5
  <2> QED BY <2>1, <2>3, <2>6 DEF BInv
<1>2. \A how \in {"ended", "died"} :
        /\ Over(task, how) \in Task
        /\ Over(task, how).state = how
        /\ \A c \in Clients : Over(task, how).written[c] = 0
        /\ Over(task, how).rebuilt = task.rebuilt
        /\ Over(task, how).owed \in {task.owed, {}}
  BY OverIsTask
<1>3. CASE task.used # Cardinality(Members)
  <2>1. tasks' = [tasks EXCEPT ![t] = Over(task, "died")] /\ table' = table
    BY <1>3 DEF GoOn
  <2>2. TaskOK(Over(task, "died"))'
    BY <1>2 DEF TaskOK, Walk
  <2> QED BY <1>1, <1>2, <2>1, <2>2
<1>4. CASE task.used = Cardinality(Members) /\ Stops(t, i) = {}
  <2>1. tasks' = [tasks EXCEPT ![t] = Over(task, "ended")] /\ table' = Without(task.dead)
    BY <1>4 DEF GoOn
  <2>2. ASSUME NEW c \in task.owed
        PROVE  FALSE
    <3>1. PICK s \in Slots : table[s] = c /\ s > i
      BY DEF Walk
    <3>2. Addressed(c, task.event) /\ c \in Clients
      BY DEF Walk, Task
    <3> QED BY <1>4, <3>1, <3>2 DEF Stops
  <2>3. TaskOK(Over(task, "ended"))'
    BY <1>2, <2>2 DEF TaskOK, Walk
  <2>4. task.dead \subseteq hungUp
    BY DEF Walk
  <2> QED BY <1>1, <1>2, <2>1, <2>3, <2>4
<1>5. CASE task.used = Cardinality(Members) /\ Stops(t, i) # {}
  <2>1. PICK next \in Stops(t, i) : \A other \in Stops(t, i) : next <= other
    <3>1. Stops(t, i) \in SUBSET Nat
      BY <1>0 DEF Stops
    <3> QED BY <1>5, <3>1, FirstSlot
  <2>2. next = CHOOSE s \in Stops(t, i) : \A other \in Stops(t, i) : s <= other
    <3>1. \A s \in Stops(t, i) : (\A other \in Stops(t, i) : s <= other) => s = next
      BY <2>1, <1>0 DEF Stops
    <3> QED BY <2>1, <3>1
  <2>3. PICK c : c = table[next]
    OBVIOUS
  <2>4. next \in Slots /\ next > i /\ c \in Clients /\ Addressed(c, task.event)
    BY <2>1, <2>3 DEF Stops
  <2>5. PICK new : new = [task EXCEPT !.state = "sending", !.at = next, !.to = c,
                                      !.owed = @ \ {c},
                                      !.written[c] = IF task.rebuilt THEN 0 ELSE @ + 1]
    OBVIOUS
  <2>6. tasks' = [tasks EXCEPT ![t] = new] /\ table' = table
    BY <1>5, <2>2, <2>3, <2>5 DEF GoOn
  <2>7. task.written[c] = 0 /\ user[c] # NoUser
    BY <2>3, <2>4 DEF Walk, BInv, MembersConnected
  <2>8. /\ new \in Task /\ new.state = "sending" /\ new.at = next
        /\ new.dead = task.dead /\ new.owed = task.owed \ {c} /\ new.event = task.event
        /\ new.rebuilt = task.rebuilt
        /\ new.written[c] = IF task.rebuilt THEN 0 ELSE 1
        /\ \A d \in Clients : d # c => new.written[d] = task.written[d]
    <3>1. /\ task.event \in Events /\ task.written \in [Clients -> 0..2]
          /\ task.owed \in SUBSET Clients /\ task.dead \in SUBSET Clients
          /\ task.used \in 0..Cardinality(Clients) /\ task.rebuilt \in BOOLEAN
      BY DEF Task
    <3> DEFINE W == [task.written EXCEPT ![c] = IF task.rebuilt THEN 0 ELSE task.written[c] + 1]
    <3>2. /\ W \in [Clients -> 0..2] /\ W[c] = (IF task.rebuilt THEN 0 ELSE 1)
          /\ \A d \in Clients : d # c => W[d] = task.written[d]
      BY <3>1, <2>4, <2>7
    <3>3. new = [event |-> task.event, state |-> "sending", at |-> next, to |-> c,
                 used |-> task.used, dead |-> task.dead, written |-> W,
                 owed |-> task.owed \ {c}, rebuilt |-> task.rebuilt]
      BY <2>5 DEF Task
    <3> HIDE DEF W
    <3> QED BY <3>1, <3>2, <3>3, <2>4 DEF Task
  <2>9. Walk(new, next)
    <3>1. \A d \in Clients : new.written[d] <= 1 /\ (new.written[d] > 0 => user[d] # NoUser)
      BY <2>7, <2>8 DEF Walk
    <3>2. ASSUME NEW s \in Slots, table[s] \in Clients, s > next
          PROVE  new.written[table[s]] = 0
      <4>1. table[s] # c
        BY <3>2, <2>3, <2>4, <1>0 DEF BInv, OneSlot
      <4>2. s > i
        BY <3>2, <2>4, <1>0
      <4> QED BY <3>2, <4>1, <4>2, <2>8 DEF Walk
    <3>3. ASSUME NEW d \in new.owed
          PROVE  \E s \in Slots : table[s] = d /\ s > next
      <4>1. d \in task.owed /\ d # c
        BY <3>3, <2>8
      <4>2. PICK s \in Slots : table[s] = d /\ s > i
        BY <4>1 DEF Walk
      <4>3. s \in Stops(t, i)
        BY <4>1, <4>2 DEF Stops, Walk, Task
      <4>4. s # next /\ next <= s
        BY <4>1, <4>2, <4>3, <2>1, <2>3
      <4> QED BY <4>2, <4>4, <2>4, <1>0
    <3> QED BY <3>1, <3>2, <3>3, <2>8 DEF Walk
  <2>10. Walk(new, next)'
    BY <2>9, <2>6, WalkUnchanged
  <2>11. TaskOK(new)'
    <3>1. new.rebuilt => new.owed = {} /\ \A d \in Clients : new.written[d] = 0
      BY <2>8
    <3> QED BY <2>8, <2>10, <3>1 DEF TaskOK, Walk
  <2> QED BY <1>1, <2>6, <2>8, <2>11
<1> QED BY <1>3, <1>4, <1>5

-----------------------------------------------------------------------------
(* Connections and subscriptions *)

\* Every task is replaced by one that stands as it should.
LEMMA TasksReplaced ==
  ASSUME TypeOK,
         DOMAIN tasks' = DOMAIN tasks,
         tasks' = [t \in DOMAIN tasks |-> tasks'[t]],
         \A t \in 1..Len(tasks) : tasks'[t] \in Task /\ TaskOK(tasks[t])'
  PROVE  tasks' \in Seq(Task) /\ \A t \in 1..Len(tasks') : TaskOK(tasks[t])'
<1>1. Len(tasks) \in Nat /\ DOMAIN tasks' = 1..Len(tasks)
  BY TasksAreTasks
<1>2. tasks' \in [1..Len(tasks) -> Task]
  BY <1>1
<1>3. tasks' \in Seq(Task)
  BY <1>1, <1>2, SeqDef
<1>4. Len(tasks') = Len(tasks)
  BY <1>1, <1>3, LenProperties
<1> QED BY <1>3, <1>4

\* A task that only stops owing the event to one client.
LEMMA OwedLess ==
  ASSUME NEW task \in Task, NEW c,
         NEW new, new = [task EXCEPT !.owed = @ \ {c}]
  PROVE  /\ new \in Task /\ new.state = task.state /\ new.at = task.at
         /\ new.dead = task.dead /\ new.event = task.event /\ new.written = task.written
         /\ new.owed = task.owed \ {c} /\ new.rebuilt = task.rebuilt
BY DEF Task

LEMMA InitInv == Init => BInv
<1> SUFFICES ASSUME Init PROVE BInv
  OBVIOUS
<1>1. tasks \in Seq(Task) /\ Len(tasks) = 0
  BY EmptySeq DEF Init
<1>2. TypeOK
  BY <1>1, BroadcastAssumption DEF Init, TypeOK
<1>3. OneSlot /\ MembersConnected
  BY BroadcastAssumption DEF Init, OneSlot, MembersConnected
<1> QED BY <1>1, <1>2, <1>3 DEF BInv

LEMMA ConnectInv ==
  ASSUME BInv, NEW c \in Clients, NEW u \in Users, NEW s \in Slots, Connect(c, u, s)
  PROVE  BInv'
<1>1. /\ table \in [Slots -> Clients \cup {Free}] /\ user \in [Clients -> Users \cup {NoUser}]
      /\ Free \notin Clients /\ u # NoUser
  BY BroadcastAssumption DEF BInv, TypeOK
<1>2. /\ \A r \in Slots : table'[r] = IF r = s THEN c ELSE table[r]
      /\ \A d \in Clients : user'[d] = IF d = c THEN u ELSE user[d]
      /\ table[s] = Free /\ user[c] = NoUser
      /\ UNCHANGED <<size, subscriptions, hungUp, tasks>> /\ fill' = fill + 1
  BY <1>1 DEF Connect
<1>3. \A r \in Slots : table[r] # c
  BY <1>2 DEF BInv, MembersConnected
<1>4. TypeOK'
  BY <1>1 DEF Connect, BInv, TypeOK, Task, Slots
<1>5. OneSlot' /\ MembersConnected'
  <2>1. ASSUME NEW q \in Slots, NEW r \in Slots, table'[q] \in Clients, table'[q] = table'[r]
        PROVE  q = r
    BY <2>1, <1>2, <1>3 DEF BInv, OneSlot
  <2>2. ASSUME NEW r \in Slots, table'[r] \in Clients
        PROVE  user'[table'[r]] # NoUser
    BY <2>2, <1>1, <1>2 DEF BInv, MembersConnected
  <2> QED BY <2>1, <2>2 DEF OneSlot, MembersConnected, Slots
<1>6. ASSUME NEW task \in Task, NEW i, Walk(task, i)
      PROVE  Walk(task, i)'
  <2>0. task.owed \subseteq Clients /\ task.written \in [Clients -> 0..2]
    BY DEF Task
  <2>1. ASSUME NEW d \in task.owed
        PROVE  /\ d # c /\ d \notin hungUp'
               /\ \E r \in Slots : table'[r] = d /\ r > i
               /\ Addressed(d, task.event)'
    <3>1. d \in Clients /\ d \notin hungUp /\ Addressed(d, task.event)
      BY <1>6, <2>0 DEF Walk
    <3>2. PICK r \in Slots : table[r] = d /\ r > i
      BY <1>6 DEF Walk
    <3>3. r # s /\ d # c
      BY <3>1, <3>2, <1>1, <1>2, <1>3
    <3>4. table'[r] = d /\ user'[d] = user[d]
      BY <1>2, <3>1, <3>2, <3>3
    <3> QED BY <1>2, <3>1, <3>2, <3>3, <3>4 DEF Addressed, AddressedTo
  <2>2. \A d \in Clients : task.written[d] <= 1 /\ (task.written[d] > 0 => user'[d] # NoUser)
    BY <1>1, <1>2, <1>6 DEF Walk
  <2>3. task.written[c] = 0
    BY <1>2, <1>6, <2>0 DEF Walk
  <2>4. ASSUME NEW r \in Slots, table'[r] \in Clients, r > i
        PROVE  task.written[table'[r]] = 0
    <3>1. CASE r = s
      BY <3>1, <1>2, <2>3
    <3>2. CASE r # s
      BY <3>2, <2>4, <1>2, <1>6 DEF Walk
    <3> QED BY <3>1, <3>2
  <2>5. task.dead \subseteq hungUp'
    BY <1>2, <1>6 DEF Walk
  <2> QED BY <2>1, <2>2, <2>4, <2>5 DEF Walk, Slots
<1>7. ASSUME NEW t \in 1..Len(tasks)
      PROVE  TaskOK(tasks[t])'
  <2> SUFFICES ASSUME NEW task \in Task, task = tasks[t], task = tasks'[t], TaskOK(task)
               PROVE  TaskOK(task)'
    BY <1>2, TasksAreTasks DEF BInv
  <2> QED BY <1>6 DEF TaskOK
<1> QED BY <1>2, <1>4, <1>5, <1>7 DEF BInv

\* A table that is rebuilt: every client that was in the set and the new one are
\* at one place.
LEMMA Placed ==
  ASSUME TypeOK, NEW c \in Clients,
         NEW place \in Injection(Members \cup {c}, Slots),
         table' = [s \in Slots |-> IF s \in Range(place) THEN AntiFunction(place)[s] ELSE Free]
  PROVE  /\ table' \in [Slots -> Clients \cup {Free}]
         /\ \A s \in Slots : table'[s] \in Clients =>
              table'[s] \in Members \cup {c} /\ place[table'[s]] = s
<1>1. /\ Members \cup {c} \subseteq Clients /\ Free \notin Clients
      /\ place \in [Members \cup {c} -> Slots]
  BY MembersAreClients, BroadcastAssumption DEF Injection
<1>2. ASSUME NEW s \in Slots, s \in Range(place)
      PROVE  /\ table'[s] \in Members \cup {c} /\ place[table'[s]] = s
  <2>1. PICK d \in Members \cup {c} : place[d] = s
    BY <1>1, <1>2 DEF Range
  <2>2. AntiFunction(place)[s] = CHOOSE x \in DOMAIN place : s \in Range(place) => place[x] = s
    BY <1>2 DEF AntiFunction, Inverse
  <2>3. DOMAIN place = Members \cup {c}
    BY <1>1
  <2>4. AntiFunction(place)[s] \in Members \cup {c} /\ place[AntiFunction(place)[s]] = s
    BY <1>2, <2>1, <2>2, <2>3
  <2> QED BY <1>2, <2>4
<1>3. ASSUME NEW s \in Slots, s \notin Range(place)
      PROVE  table'[s] = Free
  BY <1>3
<1>4. table' \in [Slots -> Clients \cup {Free}]
  <2>1. table' = [s \in Slots |-> table'[s]]
    OBVIOUS
  <2>2. \A s \in Slots : table'[s] \in Clients \cup {Free}
    BY <1>1, <1>2, <1>3
  <2> QED BY <2>1, <2>2
<1> QED BY <1>1, <1>2, <1>3, <1>4

LEMMA ConnectRebuildingInv ==
  ASSUME BInv, NEW c \in Clients, NEW u \in Users, ConnectRebuilding(c, u)
  PROVE  BInv'
<1>1. /\ user \in [Clients -> Users \cup {NoUser}] /\ u # NoUser
      /\ Members \subseteq Clients
  BY BroadcastAssumption, MembersAreClients DEF BInv, TypeOK
<1>2. PICK place \in Injection(Members \cup {c}, Slots) :
         table' = [s \in Slots |-> IF s \in Range(place) THEN AntiFunction(place)[s] ELSE Free]
  BY DEF ConnectRebuilding
<1>3. /\ table' \in [Slots -> Clients \cup {Free}]
      /\ \A s \in Slots : table'[s] \in Clients =>
           table'[s] \in Members \cup {c} /\ place[table'[s]] = s
  BY <1>2, Placed DEF BInv
<1>4. UNCHANGED <<subscriptions, hungUp>> /\ user' = [user EXCEPT ![c] = u]
  BY DEF ConnectRebuilding
<1>5. \A d \in Clients : user'[d] = IF d = c THEN u ELSE user[d]
  BY <1>1, <1>4
<1>6. OneSlot' /\ MembersConnected'
  <2>1. ASSUME NEW q \in Slots, NEW r \in Slots, table'[q] \in Clients, table'[q] = table'[r]
        PROVE  q = r
    BY <2>1, <1>3
  <2>2. ASSUME NEW r \in Slots, table'[r] \in Clients
        PROVE  user'[table'[r]] # NoUser
    <3>1. table'[r] \in Members \cup {c}
      BY <2>2, <1>3
    <3>2. \A d \in Members : user[d] # NoUser
      BY MembersAreClients DEF BInv, MembersConnected
    <3> QED BY <3>1, <3>2, <1>1, <1>5
  <2> QED BY <2>1, <2>2 DEF OneSlot, MembersConnected, Slots
<1>7. PICK at \in [Walks -> Slots \cup {0}] :
         tasks' = [t \in DOMAIN tasks |->
                     IF t \in Walks
                     THEN [tasks[t] EXCEPT !.at = at[t], !.rebuilt = TRUE, !.owed = {},
                                           !.written = [d \in Clients |-> 0]]
                     ELSE tasks[t]]
  BY DEF ConnectRebuilding
<1>8. DOMAIN tasks = 1..Len(tasks) /\ \A t \in 1..Len(tasks) : tasks[t] \in Task
  BY TasksAreTasks DEF BInv
<1>9. ASSUME NEW t \in 1..Len(tasks)
      PROVE  tasks'[t] \in Task /\ TaskOK(tasks[t])'
  <2>1. PICK old \in Task : old = tasks[t] /\ TaskOK(old)
    BY <1>8 DEF BInv
  <2>2. PICK new : new = tasks'[t]
    OBVIOUS
  <2>3. CASE old.state = "sending"
    <3>1. t \in Walks
      BY <1>8, <2>1, <2>3 DEF Walks
    <3>2. PICK i \in Slots \cup {0} :
             new = [old EXCEPT !.at = i, !.rebuilt = TRUE, !.owed = {},
                               !.written = [d \in Clients |-> 0]]
      BY <1>7, <1>8, <2>1, <2>2, <3>1
    <3>3. /\ new \in Task /\ new.state = "sending" /\ new.dead = old.dead /\ new.rebuilt
          /\ new.owed = {} /\ \A d \in Clients : new.written[d] = 0
      <4> DEFINE Unsent == [d \in Clients |-> 0]
      <4>1. new = [event |-> old.event, state |-> "sending", at |-> i, to |-> old.to,
                   used |-> old.used, dead |-> old.dead, written |-> Unsent, owed |-> {},
                   rebuilt |-> TRUE]
        BY <2>3, <3>2 DEF Task
      <4>2. Unsent \in [Clients -> 0..2] /\ \A d \in Clients : Unsent[d] = 0
        OBVIOUS
      <4>3. /\ old.event \in Events /\ old.to \in Clients \cup {Free}
            /\ old.used \in 0..Cardinality(Clients) /\ old.dead \in SUBSET Clients
        BY DEF Task
      <4> HIDE DEF Unsent
      <4> QED BY <4>1, <4>2, <4>3 DEF Task
    <3>4. new.dead \subseteq hungUp'
      BY <2>1, <2>3, <3>3, <1>4 DEF TaskOK, Walk
    <3>5. \A s \in Slots : table'[s] \in Clients => new.written[table'[s]] = 0
      BY <3>3
    <3>6. Walk(new, new.at)'
      BY <3>3, <3>4, <3>5 DEF Walk, Slots
    <3>7. TaskOK(new)'
      BY <3>3, <3>6 DEF TaskOK
    <3> QED BY <2>2, <3>3, <3>7
  <2>4. CASE old.state # "sending"
    <3>1. new = old
      BY <1>7, <1>8, <2>1, <2>2, <2>4 DEF Walks
    <3>2. TaskOK(new)'
      BY <2>1, <2>4, <3>1 DEF TaskOK
    <3> QED BY <2>1, <2>2, <3>1, <3>2
  <2> QED BY <2>3, <2>4
<1>10. tasks' \in Seq(Task) /\ \A t \in 1..Len(tasks') : TaskOK(tasks[t])'
  <2>1. DOMAIN tasks' = DOMAIN tasks /\ tasks' = [t \in DOMAIN tasks |-> tasks'[t]]
    BY <1>7
  <2> QED BY <2>1, <1>9, TasksReplaced DEF BInv
<1>11. fill' \in Nat /\ size' \in Nat
  <2>1. fill' \in Nat
    <3>1. IsFiniteSet(Members \cup {c})
      BY <1>1, BroadcastAssumption, FS_Subset
    <3> QED BY <3>1, FS_CardinalityType DEF ConnectRebuilding
  <2>2. size' \in Sizes
    BY DEF ConnectRebuilding
  <2> QED BY <2>1, <2>2, SizesAreNumbers
<1>12. TypeOK'
  BY <1>1, <1>3, <1>4, <1>5, <1>10, <1>11 DEF BInv, TypeOK, Task, Slots
<1> QED BY <1>6, <1>10, <1>12 DEF BInv

LEMMA SubscribeInv ==
  ASSUME BInv, NEW c \in Clients, NEW topic \in Topics, Subscribe(c, topic)
  PROVE  BInv'
<1>1. /\ UNCHANGED <<table, fill, size, user, hungUp, tasks>>
      /\ \A d \in Clients : subscriptions[d] \subseteq subscriptions'[d]
  BY DEF Subscribe, BInv, TypeOK
<1>2. TypeOK'
  BY DEF Subscribe, BInv, TypeOK, Task, Slots
<1>3. OneSlot' /\ MembersConnected'
  BY <1>1 DEF BInv, OneSlot, MembersConnected, Slots
<1>4. ASSUME NEW task \in Task, NEW i, Walk(task, i)
      PROVE  Walk(task, i)'
  <2>1. \A d \in Clients : Addressed(d, task.event) => Addressed(d, task.event)'
    BY <1>1 DEF Addressed, AddressedTo
  <2>2. task.owed \subseteq Clients
    BY DEF Task
  <2> QED BY <1>1, <1>4, <2>1, <2>2 DEF Walk, Slots
<1>5. ASSUME NEW t \in 1..Len(tasks)
      PROVE  TaskOK(tasks[t])'
  <2> SUFFICES ASSUME NEW task \in Task, task = tasks[t], task = tasks'[t], TaskOK(task)
               PROVE  TaskOK(task)'
    BY <1>1, TasksAreTasks DEF BInv
  <2> QED BY <1>4 DEF TaskOK
<1> QED BY <1>1, <1>2, <1>3, <1>5 DEF BInv

LEMMA UnsubscribeInv ==
  ASSUME BInv, NEW c \in Clients, NEW topic \in Topics, Unsubscribe(c, topic)
  PROVE  BInv'
<1>1. /\ UNCHANGED <<table, fill, size, user, hungUp>>
      /\ \A d \in Clients : d # c => subscriptions'[d] = subscriptions[d]
  BY DEF Unsubscribe, BInv, TypeOK
<1>2. DOMAIN tasks = 1..Len(tasks) /\ \A t \in 1..Len(tasks) : tasks[t] \in Task
  BY TasksAreTasks DEF BInv
<1>3. ASSUME NEW t \in 1..Len(tasks)
      PROVE  tasks'[t] \in Task /\ TaskOK(tasks[t])'
  <2>1. PICK old \in Task : old = tasks[t] /\ TaskOK(old)
    BY <1>2 DEF BInv
  <2>2. PICK new : new = tasks'[t]
    OBVIOUS
  <2>3. \/ old.state \in {"created", "sending"} /\ new = [old EXCEPT !.owed = @ \ {c}]
        \/ /\ new = old
           /\ \/ old.state \notin {"created", "sending"}
              \/ AddressedTo(c, subscriptions'[c], old.event)
    BY <1>2, <2>1, <2>2 DEF Unsubscribe, Running
  <2>4. /\ new \in Task /\ new.state = old.state /\ new.at = old.at
        /\ new.dead = old.dead /\ new.event = old.event /\ new.written = old.written
        /\ new.rebuilt = old.rebuilt
        /\ new.owed \subseteq old.owed
        /\ new.state \in {"created", "sending"} =>
             c \notin new.owed \/ AddressedTo(c, subscriptions'[c], old.event)
        /\ new.state \notin {"created", "sending"} => new.owed = old.owed
    <3>1. CASE old.state \in {"created", "sending"} /\ new = [old EXCEPT !.owed = @ \ {c}]
      <4>1. /\ new \in Task /\ new.state = old.state /\ new.at = old.at
            /\ new.dead = old.dead /\ new.event = old.event /\ new.written = old.written
            /\ new.rebuilt = old.rebuilt
            /\ new.owed = old.owed \ {c}
        BY <3>1, OwedLess
      <4> QED BY <3>1, <4>1
    <3>2. CASE /\ new = old
               /\ \/ old.state \notin {"created", "sending"}
                  \/ AddressedTo(c, subscriptions'[c], old.event)
      BY <3>2, Zenon
    <3> QED BY <2>3, <3>1, <3>2
  <2>5. ASSUME new.state = "sending"
        PROVE  Walk(new, new.at)'
    <3>1. Walk(old, old.at)
      BY <2>1, <2>4, <2>5 DEF TaskOK
    <3>2. ASSUME NEW d \in new.owed
          PROVE  Addressed(d, new.event)'
      <4>1. d \in Clients /\ Addressed(d, old.event)
        BY <2>4, <3>1 DEF Walk, Task
      <4>2. CASE d = c
        BY <4>2, <2>4, <2>5, <1>1 DEF Addressed, AddressedTo
      <4>3. CASE d # c
        BY <4>1, <4>3, <2>4, <1>1 DEF Addressed, AddressedTo
      <4> QED BY <4>2, <4>3
    <3> QED BY <3>1, <3>2, <2>4, <1>1 DEF Walk, Slots
  <2>6. TaskOK(new)'
    BY <2>1, <2>4, <2>5 DEF TaskOK
  <2> QED BY <2>2, <2>4, <2>6
<1>4. tasks' \in Seq(Task) /\ \A t \in 1..Len(tasks') : TaskOK(tasks[t])'
  <2>1. DOMAIN tasks' = DOMAIN tasks /\ tasks' = [t \in DOMAIN tasks |-> tasks'[t]]
    BY DEF Unsubscribe
  <2> QED BY <2>1, <1>3, TasksReplaced DEF BInv
<1>5. TypeOK'
  BY <1>4 DEF Unsubscribe, BInv, TypeOK, Task, Slots
<1>6. OneSlot' /\ MembersConnected'
  BY <1>1 DEF BInv, OneSlot, MembersConnected, Slots
<1> QED BY <1>4, <1>5, <1>6 DEF BInv

LEMMA HangUpInv ==
  ASSUME BInv, NEW c \in Clients, HangUp(c)
  PROVE  BInv'
<1>1. UNCHANGED <<table, fill, size, user, subscriptions>> /\ hungUp' = hungUp \cup {c}
  BY DEF HangUp
<1>2. DOMAIN tasks = 1..Len(tasks) /\ \A t \in 1..Len(tasks) : tasks[t] \in Task
  BY TasksAreTasks DEF BInv
<1>3. ASSUME NEW t \in 1..Len(tasks)
      PROVE  tasks'[t] \in Task /\ TaskOK(tasks[t])'
  <2>1. PICK old \in Task : old = tasks[t] /\ TaskOK(old)
    BY <1>2 DEF BInv
  <2>2. PICK new : new = tasks'[t]
    OBVIOUS
  <2>3. \/ old.state \in {"created", "sending"} /\ new = [old EXCEPT !.owed = @ \ {c}]
        \/ old.state \notin {"created", "sending"} /\ new = old
    BY <1>2, <2>1, <2>2 DEF HangUp, Running
  <2>4. /\ new \in Task /\ new.state = old.state /\ new.at = old.at
        /\ new.dead = old.dead /\ new.event = old.event /\ new.written = old.written
        /\ new.rebuilt = old.rebuilt
        /\ new.owed \subseteq old.owed
        /\ new.state \in {"created", "sending"} => c \notin new.owed
        /\ new.state \notin {"created", "sending"} => new.owed = old.owed
    BY <2>3, OwedLess
  <2>5. ASSUME new.state = "sending"
        PROVE  Walk(new, new.at)'
    <3>1. Walk(old, old.at)
      BY <2>1, <2>4, <2>5 DEF TaskOK
    <3>2. \A d \in new.owed : Addressed(d, new.event)'
      BY <3>1, <2>4, <1>1 DEF Walk, Addressed, AddressedTo
    <3> QED BY <3>1, <3>2, <2>4, <2>5, <1>1 DEF Walk, Slots
  <2>6. TaskOK(new)'
    BY <2>1, <2>4, <2>5 DEF TaskOK
  <2> QED BY <2>2, <2>4, <2>6
<1>4. tasks' \in Seq(Task) /\ \A t \in 1..Len(tasks') : TaskOK(tasks[t])'
  <2>1. DOMAIN tasks' = DOMAIN tasks /\ tasks' = [t \in DOMAIN tasks |-> tasks'[t]]
    BY DEF HangUp
  <2> QED BY <2>1, <1>3, TasksReplaced DEF BInv
<1>5. TypeOK'
  BY <1>4 DEF HangUp, BInv, TypeOK, Task, Slots
<1>6. OneSlot' /\ MembersConnected'
  BY <1>1 DEF BInv, OneSlot, MembersConnected, Slots
<1> QED BY <1>4, <1>5, <1>6 DEF BInv

LEMMA DisconnectInv ==
  ASSUME BInv, NEW c \in Clients, Disconnect(c)
  PROVE  BInv'
<1>1. /\ table' \in [Slots -> Clients \cup {Free}]
      /\ OneSlot' /\ MembersConnected'
      /\ \A task \in Task, i \in Slots \cup {0} : Walk(task, i) => Walk(task, i)'
  BY RemovalKeeps DEF Disconnect
<1>2. UNCHANGED <<fill, size, user, subscriptions, hungUp, tasks>>
  BY DEF Disconnect
<1>3. TypeOK'
  BY <1>1, <1>2 DEF BInv, TypeOK, Task, Slots
<1>4. ASSUME NEW t \in 1..Len(tasks)
      PROVE  TaskOK(tasks[t])'
  <2> SUFFICES ASSUME NEW task \in Task, task = tasks[t], task = tasks'[t], TaskOK(task)
               PROVE  TaskOK(task)'
    BY <1>2, TasksAreTasks DEF BInv
  <2>1. task.at \in Slots \cup {0}
    BY DEF Task
  <2> QED BY <2>1, <1>1 DEF TaskOK
<1> QED BY <1>1, <1>2, <1>3, <1>4 DEF BInv

-----------------------------------------------------------------------------
(* Events and their tasks *)

LEMMA PublishInv ==
  ASSUME BInv, NEW e \in Events, Publish(e)
  PROVE  BInv'
<1>1. PICK new : new = [event |-> e, state |-> "created", at |-> 0, to |-> Free,
                        used |-> 0, dead |-> {}, owed |-> {}, rebuilt |-> FALSE,
                        written |-> [c \in Clients |-> 0]]
  OBVIOUS
<1>2. /\ new \in Task /\ new.state = "created" /\ new.dead = {} /\ ~new.rebuilt
      /\ \A c \in Clients : new.written[c] = 0
  BY <1>1, SlotsAreNumbers DEF Task
<1>3. tasks' = Append(tasks, new) /\ UNCHANGED <<table, fill, size, user, subscriptions, hungUp>>
  BY <1>1 DEF Publish
<1>4. tasks \in Seq(Task)
  BY DEF BInv, TypeOK
<1>5. /\ tasks' \in Seq(Task) /\ Len(tasks') = Len(tasks) + 1 /\ Len(tasks) \in Nat
      /\ tasks'[Len(tasks) + 1] = new
      /\ \A t \in 1..Len(tasks) : tasks'[t] = tasks[t]
  BY <1>2, <1>3, <1>4, AppendProperties, LenProperties
<1>6. TypeOK'
  BY <1>3, <1>5 DEF BInv, TypeOK, Task, Slots
<1>7. OneSlot' /\ MembersConnected'
  BY <1>3 DEF BInv, OneSlot, MembersConnected, Slots
<1>8. ASSUME NEW t \in 1..Len(tasks')
      PROVE  TaskOK(tasks[t])'
  <2>1. CASE t = Len(tasks) + 1
    <3> SUFFICES TaskOK(new)'
      BY <2>1, <1>5
    <3> QED BY <1>2 DEF TaskOK
  <2>2. CASE t # Len(tasks) + 1
    <3>1. t \in 1..Len(tasks)
      BY <2>2, <1>5
    <3> SUFFICES ASSUME NEW task \in Task, task = tasks[t], task = tasks'[t], TaskOK(task)
                 PROVE  TaskOK(task)'
      BY <3>1, <1>5, TasksAreTasks DEF BInv
    <3>2. Walk(task, task.at) => Walk(task, task.at)'
      BY <1>3, WalkUnchanged
    <3> QED BY <3>2 DEF TaskOK
  <2> QED BY <2>1, <2>2
<1> QED BY <1>6, <1>7, <1>8 DEF BInv

LEMMA BeginInv ==
  ASSUME BInv, NEW t \in 1..Len(tasks), Begin(t)
  PROVE  BInv'
<1>1. PICK old \in Task : old = tasks[t] /\ TaskOK(old) /\ old.state = "created"
  BY TasksAreTasks DEF BInv, Begin
<1>2. PICK used, owed : /\ used = Cardinality(Members)
                        /\ owed = { c \in Members \ hungUp : Addressed(c, old.event) }
  OBVIOUS
<1>3. used \in 0..Cardinality(Clients) /\ owed \in SUBSET Clients
  BY <1>2, MembersAreClients DEF BInv
<1>4. PICK new : new = [old EXCEPT !.used = used, !.owed = owed]
  OBVIOUS
<1>5. /\ new \in Task /\ new.event = old.event /\ new.written = old.written
      /\ new.dead = old.dead /\ new.owed = owed /\ new.rebuilt = old.rebuilt
  BY <1>3, <1>4 DEF Task
<1>6. Walk(new, 0)
  <2>1. new.dead = {} /\ \A c \in Clients : new.written[c] = 0
    BY <1>1, <1>5 DEF TaskOK
  <2>2. \A c \in new.owed : /\ c \notin hungUp
                            /\ \E s \in Slots : table[s] = c /\ s > 0
                            /\ Addressed(c, new.event)
    BY <1>2, <1>3, <1>5, MembersAreClients, SlotsAreNumbers DEF BInv
  <2> QED BY <2>1, <2>2 DEF Walk
<1>7. GoOn(t, 0, new) /\ UNCHANGED <<fill, size, user, subscriptions, hungUp>>
  BY <1>1, <1>2, <1>4 DEF Begin
<1>8. ~new.rebuilt
  BY <1>1, <1>5 DEF TaskOK
<1> QED BY <1>1, <1>5, <1>6, <1>7, <1>8, WalkGoesOn

LEMMA SendReturnsInv ==
  ASSUME BInv, NEW t \in 1..Len(tasks), SendReturns(t)
  PROVE  BInv'
<1>1. PICK task \in Task : task = tasks[t] /\ TaskOK(task) /\ task.state = "sending"
  BY TasksAreTasks DEF BInv, SendReturns
<1>2. Walk(task, task.at) /\ task.at \in Slots \cup {0}
  BY <1>1 DEF TaskOK, Task
<1>3. GoOn(t, task.at, task) /\ UNCHANGED <<fill, size, user, subscriptions, hungUp>>
  BY <1>1 DEF SendReturns
<1>4. task.rebuilt => task.owed = {} /\ \A c \in Clients : task.written[c] = 0
  BY <1>1 DEF TaskOK
<1> QED BY <1>1, <1>2, <1>3, <1>4, WalkGoesOn

LEMMA SendRaisesInv ==
  ASSUME BInv, NEW t \in 1..Len(tasks), SendRaises(t)
  PROVE  BInv'
<1>1. PICK old \in Task : old = tasks[t] /\ TaskOK(old) /\ old.state = "sending"
  BY TasksAreTasks DEF BInv, SendRaises
<1>2. PICK c \in hungUp : c = old.to
  BY <1>1 DEF SendRaises
<1>3. PICK new : new = [old EXCEPT !.dead = @ \cup {c}]
  OBVIOUS
<1>4. c \in Clients
  BY DEF BInv, TypeOK
<1>5. /\ new \in Task /\ new.event = old.event /\ new.written = old.written
      /\ new.owed = old.owed /\ new.dead = old.dead \cup {c} /\ new.at = old.at
      /\ new.rebuilt = old.rebuilt
  BY <1>3, <1>4 DEF Task
<1>6. Walk(new, new.at) /\ new.at \in Slots \cup {0}
  <2>1. Walk(old, old.at)
    BY <1>1 DEF TaskOK
  <2> QED BY <2>1, <1>5 DEF Walk, Task
<1>7. GoOn(t, new.at, new) /\ UNCHANGED <<fill, size, user, subscriptions, hungUp>>
  BY <1>1, <1>2, <1>3, <1>5 DEF SendRaises
<1>8. new.rebuilt => new.owed = {} /\ \A d \in Clients : new.written[d] = 0
  BY <1>1, <1>5 DEF TaskOK
<1> QED BY <1>1, <1>5, <1>6, <1>7, <1>8, WalkGoesOn

-----------------------------------------------------------------------------
\* For every number of clients and events: a client is at one place, and what
\* every walk knows of the slots ahead of it stays true while it waits for a
\* send and connections and subscriptions change, until the table is rebuilt
\* under it (websocket.py's broadcast_event).
THEOREM BroadcastInvariant == Spec => []BInv
<1>1. Init => BInv
  BY InitInv
<1>2. BInv /\ [Next]_vars => BInv'
  <2> SUFFICES ASSUME BInv, [Next]_vars PROVE BInv'
    OBVIOUS
  <2>1. CASE UNCHANGED vars
    <3>1. ASSUME NEW t \in 1..Len(tasks)
          PROVE  TaskOK(tasks[t])'
      <4> SUFFICES ASSUME NEW task \in Task, task = tasks[t], task = tasks'[t], TaskOK(task)
                   PROVE  TaskOK(task)'
        BY <2>1, TasksAreTasks DEF BInv, vars
      <4>1. Walk(task, task.at) => Walk(task, task.at)'
        BY <2>1, WalkUnchanged DEF vars
      <4> QED BY <4>1 DEF TaskOK
    <3>2. TypeOK' /\ OneSlot' /\ MembersConnected'
      BY <2>1 DEF BInv, vars, TypeOK, Task, OneSlot, MembersConnected, Slots
    <3> QED BY <2>1, <3>1, <3>2 DEF BInv, vars
  <2>2. DOMAIN tasks = 1..Len(tasks)
    BY TasksAreTasks DEF BInv
  <2> QED
    BY <2>1, <2>2, ConnectInv, ConnectRebuildingInv, SubscribeInv, UnsubscribeInv,
       HangUpInv, DisconnectInv, PublishInv, BeginInv, SendReturnsInv, SendRaisesInv DEF Next, Run
<1> QED BY <1>1, <1>2, PTL DEF Spec

\* For every number of clients, tasks and events, a broadcast that came to its end
\* has reached every client it was addressed to all the time, unless the table of
\* the set was rebuilt during one of its sends.
THEOREM NobodySkipped == Spec => []NoOneSkipped
<1>1. BInv => NoOneSkipped
  BY TasksAreTasks DEF BInv, TaskOK, NoOneSkipped
<1> QED BY <1>1, BroadcastInvariant, PTL

\* For every number of clients, tasks and events, a broadcast sends no client its
\* event twice, unless the table of the set was rebuilt during one of its sends.
THEOREM NobodySentTwice == Spec => []SentAtMostOnce
<1>1. BInv => SentAtMostOnce
  BY TasksAreTasks DEF BInv, TaskOK, SentAtMostOnce
<1> QED BY <1>1, BroadcastInvariant, PTL
=============================================================================
