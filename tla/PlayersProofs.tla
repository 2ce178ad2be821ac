---------------------------- MODULE PlayersProofs ----------------------------
(***************************************************************************)
(* For every number of users and names, and any order of the operations:   *)
(* what the name index still promises when renames leave it behind, and    *)
(* that a restart brings every user back.  For any trades and transactions *)
(* of theirs: what the accounts tell agrees with the trade history.        *)
(***************************************************************************)
EXTENDS Players, SequenceTheorems, FiniteSetTheorems, WellFoundedInduction, TLAPS

UserRecord == [id : Ids, name : Names, profile : Profiles]

OneEach(list) == \A i, j \in DOMAIN list : list[i].id = list[j].id => i = j

\* The history knows every user by its present name.
HeldKnows ==
  \A i \in DOMAIN users :
    users[i].id \in DOMAIN held /\ users[i].name \in held[users[i].id]

\* An entry of the index leads to somebody who has had the name.
IndexKnows ==
  \A n \in DOMAIN index : index[n] \in DOMAIN held /\ n \in held[index[n]]

\* A user who always had this name, and alone.
Alone(u) ==
  /\ held[u.id] = {u.name}
  /\ \A id \in DOMAIN held : u.name \in held[id] => id = u.id

AloneIsIndexed ==
  \A i \in DOMAIN users : Alone(users[i]) => users[i].name \in DOMAIN index

\* The file has what the process knows, unless the last save failed.
Saved ==
  \/ unsaved
  \/ file.state = "whole" /\ file.users = users
  \/ file.state # "whole" /\ users = <<>>

FileOK == file.users \in Seq(UserRecord) /\ OneEach(file.users)

UsersOK == users \in Seq(UserRecord) /\ OneEach(users)

DirInv ==
  /\ UsersOK /\ FileOK
  /\ HeldKnows /\ IndexKnows /\ AloneIsIndexed
  /\ Saved

-----------------------------------------------------------------------------
(* Lists of users *)

\* A non-empty set of places in a list has a last one: the intervals from a place
\* to the end are finite sets, and strict inclusion of finite sets is well-founded.
LEMMA LastPlace ==
  ASSUME NEW n \in Nat, NEW I \in SUBSET (1..n), I # {}
  PROVE  \E m \in I : \A i \in I : m >= i
<1> DEFINE Above == { i..n : i \in I }
<1>1. Above \subseteq FiniteSubsetsOf(Nat) /\ Above # {}
  <2>1. \A i \in I : i..n \in SUBSET Nat /\ IsFiniteSet(i..n)
    BY FS_Interval
  <2> QED BY <2>1 DEF FiniteSubsetsOf
<1>2. PICK M \in Above : \A L \in Above : <<L, M>> \notin StrictSubsetOrdering(Nat)
  <2> HIDE DEF Above
  <2> QED BY <1>1, FS_StrictSubsetOrderingWellFounded, WFMin
<1>3. PICK m \in I : M = m..n
  OBVIOUS
<1>4. ASSUME NEW i \in I, ~(m >= i)
      PROVE  FALSE
  <2>1. m < i /\ i <= n /\ i \in Nat /\ m \in Nat
    BY <1>4
  <2>2. i..n \subseteq m..n /\ i..n # m..n /\ i..n \in SUBSET Nat /\ m..n \in SUBSET Nat
    <3>1. m \in m..n /\ m \notin i..n
      BY <2>1
    <3> QED BY <2>1, <3>1
  <2>3. <<i..n, M>> \in StrictSubsetOrdering(Nat)
    BY <1>3, <2>2 DEF StrictSubsetOrdering
  <2> QED BY <1>2, <2>3
<1> QED BY <1>4

\* The index that _load builds leads from every name to one who has it.
LEMMA IndexOfFinds ==
  ASSUME NEW list \in Seq(UserRecord)
  PROVE  /\ DOMAIN IndexOf(list) = { list[i].name : i \in DOMAIN list }
         /\ \A n \in DOMAIN IndexOf(list) :
              \E i \in DOMAIN list : list[i].name = n /\ IndexOf(list)[n] = list[i].id
<1>1. Len(list) \in Nat /\ DOMAIN list = 1..Len(list)
  BY LenProperties
<1>2. ASSUME NEW n \in { list[i].name : i \in DOMAIN list }
      PROVE  \E i \in DOMAIN list : list[i].name = n /\ IndexOf(list)[n] = list[i].id
  <2> DEFINE I == { i \in 1..Len(list) : list[i].name = n }
  <2>1. I \in SUBSET (1..Len(list)) /\ I # {}
    BY <1>1
  <2>2. \E m \in I : \A i \in I : m >= i
    <3> HIDE DEF I
    <3> QED BY <1>1, <2>1, LastPlace
  <2>3. Max(I) \in I
    BY <2>2 DEF Max
  <2>4. SelectLastInSeq(list, LAMBDA u : u.name = n) = Max(I)
    BY <2>1 DEF SelectLastInSeq
  <2>5. IndexOf(list)[n] = list[Max(I)].id
    BY <2>4 DEF IndexOf
  <2>6. list[Max(I)].name = n /\ Max(I) \in DOMAIN list
    BY <1>1, <2>3
  <2> QED BY <2>5, <2>6
<1>3. DOMAIN IndexOf(list) = { list[i].name : i \in DOMAIN list }
  BY DEF IndexOf
<1> QED BY <1>2, <1>3

\* The history a start begins with.
LEMMA NamesOfKnows ==
  ASSUME NEW list \in Seq(UserRecord), OneEach(list)
  PROVE  /\ DOMAIN NamesOf(list) = { list[i].id : i \in DOMAIN list }
         /\ \A i \in DOMAIN list : NamesOf(list)[list[i].id] = {list[i].name}
<1>1. DOMAIN NamesOf(list) = { list[i].id : i \in DOMAIN list }
  BY DEF NamesOf, IdsOf
<1>2. ASSUME NEW i \in DOMAIN list
      PROVE  NamesOf(list)[list[i].id] = {list[i].name}
  <2>1. list[i].id \in IdsOf(list)
    BY DEF IdsOf
  <2>2. { j \in DOMAIN list : list[j].id = list[i].id } = {i}
    BY DEF OneEach
  <2>3. NamesOf(list)[list[i].id] = { list[j].name : j \in {i} }
    BY <2>1, <2>2 DEF NamesOf
  <2> QED BY <2>3
<1> QED BY <1>1, <1>2

\* A user who is added.
LEMMA Appended ==
  ASSUME NEW list \in Seq(UserRecord), OneEach(list), NEW u \in UserRecord,
         u.id \notin IdsOf(list), NEW more, more = Append(list, u)
  PROVE  /\ more \in Seq(UserRecord) /\ OneEach(more)
         /\ \A i \in DOMAIN more : more[i] = u \/ (i \in DOMAIN list /\ more[i] = list[i])
<1>1. /\ more \in Seq(UserRecord)
      /\ Len(more) = Len(list) + 1
      /\ more[Len(list) + 1] = u
      /\ \A i \in 1..Len(list) : more[i] = list[i]
      /\ Len(list) \in Nat /\ DOMAIN list = 1..Len(list)
      /\ DOMAIN more = 1..(Len(list) + 1)
  BY AppendProperties, LenProperties
<1>2. \A i \in 1..(Len(list) + 1) : i = Len(list) + 1 \/ i \in 1..Len(list)
  BY <1>1
<1>3. ASSUME NEW i \in DOMAIN more, NEW j \in DOMAIN more, more[i].id = more[j].id
      PROVE  i = j
  BY <1>1, <1>2, <1>3 DEF OneEach, IdsOf
<1>4. OneEach(more)
  BY <1>3 DEF OneEach
<1>5. ASSUME NEW i \in DOMAIN more
      PROVE  more[i] = u \/ (i \in DOMAIN list /\ more[i] = list[i])
  <2>1. CASE i = Len(list) + 1
    <3>1. more[Len(list) + 1] = u
      BY <1>1
    <3> QED BY <2>1, <3>1
  <2>2. CASE i \in 1..Len(list)
    BY <2>2, <1>1
  <2> QED BY <2>1, <2>2, <1>1, <1>2
<1> QED BY <1>1, <1>4, <1>5

\* The place of a user, and the user.
LEMMA PlaceIsUnique ==
  ASSUME UsersOK, NEW id \in IdsOf(users)
  PROVE  /\ PlaceOf(id) \in DOMAIN users /\ User(id) = users[PlaceOf(id)]
         /\ users[PlaceOf(id)].id = id
         /\ User(id) \in UserRecord
         /\ \A i \in DOMAIN users : users[i].id = id <=> i = PlaceOf(id)
<1>1. \E i \in DOMAIN users : users[i].id = id
  BY DEF IdsOf
<1>2. PlaceOf(id) \in DOMAIN users /\ users[PlaceOf(id)].id = id
  BY <1>1 DEF PlaceOf
<1>3. \A i \in DOMAIN users : users[i] \in UserRecord
  BY ElementOfSeq, LenProperties DEF UsersOK
<1> QED BY <1>2, <1>3 DEF UsersOK, OneEach, User

\* One user is changed.
LEMMA ChangedList ==
  ASSUME UsersOK, NEW id \in IdsOf(users), NEW u \in UserRecord, u.id = id,
         users' = Changed(id, u)
  PROVE  /\ UsersOK'
         /\ DOMAIN users' = DOMAIN users
         /\ \A i \in DOMAIN users :
              /\ users'[i].id = users[i].id
              /\ users[i].id = id => users'[i] = u
              /\ users[i].id # id => users'[i] = users[i]
<1>1. Len(users) \in Nat /\ DOMAIN users = 1..Len(users)
      /\ \A i \in 1..Len(users) : users[i] \in UserRecord
  BY ElementOfSeq, LenProperties DEF UsersOK
<1>2. DOMAIN users' = DOMAIN users
      /\ \A i \in DOMAIN users : users'[i] = IF users[i].id = id THEN u ELSE users[i]
  BY DEF Changed
<1>3. users' \in [1..Len(users) -> UserRecord]
  BY <1>1 DEF Changed
<1>4. users' \in Seq(UserRecord)
  BY <1>1, <1>3, SeqDef
<1>5. \A i \in DOMAIN users : users'[i].id = users[i].id
  BY <1>2
<1>6. OneEach(users')
  BY <1>2, <1>5 DEF UsersOK, OneEach
<1>7. UsersOK'
  BY <1>4, <1>6 DEF UsersOK, OneEach, UserRecord
<1> QED BY <1>2, <1>5, <1>7

\* A list without the element at one place.
LEMMA RemoveAtProperties ==
  ASSUME NEW S, NEW list \in Seq(S), NEW p \in 1..Len(list)
  PROVE  /\ RemoveAt(list, p) \in Seq(S)
         /\ DOMAIN RemoveAt(list, p) = 1..(Len(list) - 1)
         /\ \A i \in 1..(Len(list) - 1) :
              RemoveAt(list, p)[i] = list[IF i < p THEN i ELSE i + 1]
<1>1. PICK n \in Nat : n = Len(list) /\ p \in 1..n /\ \A i \in 1..n : list[i] \in S
  BY ElementOfSeq, LenProperties
<1>2. PICK front : front = SubSeq(list, 1, p - 1)
  OBVIOUS
<1>3. PICK back : back = SubSeq(list, p + 1, n)
  OBVIOUS
<1>4. PICK rest : rest = RemoveAt(list, p) /\ rest = front \o back
  BY <1>1, <1>2, <1>3 DEF RemoveAt
<1>5. front \in Seq(S) /\ Len(front) = p - 1 /\ \A i \in 1..(p - 1) : front[i] = list[i]
  <2>1. \A i \in 1..(p - 1) : list[i] \in S
    BY <1>1
  <2>2. /\ front \in Seq(S)
        /\ Len(front) = IF 1 <= p - 1 THEN (p - 1) - 1 + 1 ELSE 0
        /\ \A i \in 1..((p - 1) - 1 + 1) : front[i] = list[1 + i - 1]
    BY <1>1, <1>2, <2>1, SubSeqProperties
  <2>3. (IF 1 <= p - 1 THEN (p - 1) - 1 + 1 ELSE 0) = p - 1 /\ (p - 1) - 1 + 1 = p - 1
    BY <1>1
  <2>4. \A i \in 1..(p - 1) : 1 + i - 1 = i
    OBVIOUS
  <2> QED BY <2>2, <2>3, <2>4
<1>6. back \in Seq(S) /\ Len(back) = n - p /\ \A i \in 1..(n - p) : back[i] = list[p + i]
  <2>1. \A i \in (p + 1)..n : list[i] \in S
    BY <1>1
  <2>2. /\ back \in Seq(S)
        /\ Len(back) = IF p + 1 <= n THEN n - (p + 1) + 1 ELSE 0
        /\ \A i \in 1..(n - (p + 1) + 1) : back[i] = list[(p + 1) + i - 1]
    BY <1>1, <1>3, <2>1, SubSeqProperties
  <2>3. (IF p + 1 <= n THEN n - (p + 1) + 1 ELSE 0) = n - p /\ n - (p + 1) + 1 = n - p
    BY <1>1
  <2>4. \A i \in 1..(n - p) : (p + 1) + i - 1 = p + i
    BY <1>1
  <2> QED BY <2>2, <2>3, <2>4
<1>7. /\ rest \in Seq(S) /\ Len(rest) = (p - 1) + (n - p)
      /\ \A i \in 1..((p - 1) + (n - p)) :
           rest[i] = IF i <= p - 1 THEN front[i] ELSE back[i - (p - 1)]
  <2>1. /\ rest \in Seq(S) /\ Len(rest) = Len(front) + Len(back)
        /\ \A i \in 1..(Len(front) + Len(back)) :
             rest[i] = IF i <= Len(front) THEN front[i] ELSE back[i - Len(front)]
    <3>1. front \in Seq(S) /\ back \in Seq(S)
      BY <1>5, <1>6
    <3>2. /\ front \o back \in Seq(S) /\ Len(front \o back) = Len(front) + Len(back)
          /\ \A i \in 1..(Len(front) + Len(back)) :
               (front \o back)[i] = IF i <= Len(front) THEN front[i] ELSE back[i - Len(front)]
      BY <3>1, ConcatProperties
    <3> QED BY <3>2, <1>4
  <2> QED BY <2>1, <1>5, <1>6
<1>8. (p - 1) + (n - p) = n - 1
  BY <1>1
<1>9. ASSUME NEW i \in 1..(n - 1)
      PROVE  rest[i] = list[IF i < p THEN i ELSE i + 1]
  <2>1. CASE i < p
    <3>1. i \in 1..(p - 1) /\ i <= p - 1
      BY <2>1, <1>1
    <3>2. rest[i] = front[i]
      BY <3>1, <1>7, <1>8
    <3> QED BY <2>1, <3>1, <3>2, <1>5
  <2>2. CASE ~(i < p)
    <3>1. i - (p - 1) \in 1..(n - p) /\ p + (i - (p - 1)) = i + 1 /\ ~(i <= p - 1)
      BY <2>2, <1>1
    <3>2. back[i - (p - 1)] = list[i + 1]
      BY <3>1, <1>6
    <3>3. rest[i] = back[i - (p - 1)]
      BY <3>1, <1>7, <1>8
    <3> QED BY <2>2, <3>2, <3>3
  <2> QED BY <2>1, <2>2
<1> QED BY <1>1, <1>4, <1>7, <1>8, <1>9, LenProperties

\* One user is removed.
LEMMA RemovedList ==
  ASSUME UsersOK, NEW id \in IdsOf(users), users' = RemoveAt(users, PlaceOf(id))
  PROVE  /\ UsersOK'
         /\ \A i \in DOMAIN users' :
              /\ users'[i].id # id
              /\ \E j \in DOMAIN users : users'[i] = users[j]
<1>1. PICK old \in Seq(UserRecord) : old = users /\ OneEach(old)
  BY DEF UsersOK
<1>2. PICK n \in Nat : n = Len(old) /\ DOMAIN old = 1..n
  BY LenProperties
<1>3. PICK p \in 1..n : p = PlaceOf(id) /\ old[p].id = id
  BY <1>1, <1>2, PlaceIsUnique
<1>4. PICK new : new = users' /\ new = RemoveAt(old, p)
  BY <1>1, <1>3
<1>5. /\ new \in Seq(UserRecord) /\ DOMAIN new = 1..(n - 1)
      /\ \A i \in 1..(n - 1) : new[i] = old[IF i < p THEN i ELSE i + 1]
  <2>1. /\ RemoveAt(old, p) \in Seq(UserRecord)
        /\ DOMAIN RemoveAt(old, p) = 1..(Len(old) - 1)
        /\ \A i \in 1..(Len(old) - 1) :
             RemoveAt(old, p)[i] = old[IF i < p THEN i ELSE i + 1]
    BY <1>2, RemoveAtProperties
  <2> QED BY <2>1, <1>2, <1>4
<1>6. \A i \in 1..(n - 1) : /\ (IF i < p THEN i ELSE i + 1) \in 1..n
                            /\ (IF i < p THEN i ELSE i + 1) # p
  OBVIOUS
<1>7. \A i \in DOMAIN new : new[i].id # id /\ \E j \in DOMAIN old : new[i] = old[j]
  <2> SUFFICES ASSUME NEW i \in 1..(n - 1)
               PROVE  new[i].id # id /\ \E j \in 1..n : new[i] = old[j]
    BY <1>2, <1>5
  <2>1. PICK k \in 1..n : k # p /\ new[i] = old[k]
    BY <1>5, <1>6
  <2>2. old[k].id # old[p].id
    BY <2>1, <1>1, <1>2 DEF OneEach
  <2> QED BY <2>1, <2>2, <1>3
<1>8. OneEach(new)
  <2> SUFFICES ASSUME NEW i \in 1..(n - 1), NEW j \in 1..(n - 1), new[i].id = new[j].id
               PROVE  i = j
    BY <1>5 DEF OneEach
  <2>1. PICK k \in 1..n : k = (IF i < p THEN i ELSE i + 1) /\ new[i] = old[k]
    BY <1>5, <1>6
  <2>2. PICK l \in 1..n : l = (IF j < p THEN j ELSE j + 1) /\ new[j] = old[l]
    BY <1>5, <1>6
  <2>3. k = l
    BY <1>1, <1>2, <2>1, <2>2 DEF OneEach
  <2> QED BY <2>1, <2>2, <2>3
<1>9. UsersOK'
  BY <1>4, <1>5, <1>8 DEF UsersOK, OneEach, UserRecord
<1> QED BY <1>1, <1>4, <1>7, <1>9

-----------------------------------------------------------------------------
(* The file *)

LEMMA FileWritten ==
  ASSUME DirInv, UsersOK', NEW ending, WriteFile(ending)
  PROVE  FileOK' /\ Saved'
<1>1. CASE ending = "saved"
  <2>1. file' = [state |-> "whole", users |-> users']
    BY <1>1 DEF WriteFile
  <2> QED BY <2>1 DEF UsersOK, FileOK, Saved, OneEach, UserRecord
<1>2. CASE ending # "saved"
  <2>1. unsaved'
    BY <1>2 DEF WriteFile
  <2>2. file' = file \/ file'.users = <<>>
    BY <1>2 DEF WriteFile
  <2>3. FileOK'
    <3>1. CASE file' = file
      BY <3>1 DEF DirInv, FileOK, OneEach, UserRecord
    <3>2. CASE file'.users = <<>>
      BY <3>2, EmptySeq DEF FileOK, OneEach, UserRecord
    <3> QED BY <2>2, <3>1, <3>2
  <2> QED BY <2>1, <2>3 DEF Saved
<1> QED BY <1>1, <1>2

\* What a start finds is what the last process knew, if its last save succeeded.
LEMMA LoadedIsSaved ==
  ASSUME DirInv
  PROVE  /\ Loaded \in Seq(UserRecord) /\ OneEach(Loaded)
         /\ ~unsaved => Loaded = users
<1>1. CASE file.state = "whole"
  BY <1>1 DEF DirInv, FileOK, Saved, Loaded
<1>2. CASE file.state # "whole"
  BY <1>2, EmptySeq DEF DirInv, Saved, Loaded, OneEach
<1> QED BY <1>1, <1>2

-----------------------------------------------------------------------------
(* The operations *)

LEMMA AddInv ==
  ASSUME DirInv, NEW id \in Ids, NEW name \in Names, NEW ending, Add(id, name, ending)
  PROVE  DirInv'
<1>1. PICK u \in UserRecord : u.id = id /\ u.name = name /\ users' = Append(users, u)
  BY DirectoryAssumption DEF Add, UserRecord
<1>2. id \notin IdsOf(users) /\ id \notin DOMAIN held /\ name \notin DOMAIN index
  BY DEF Add, Fresh
<1>3. PICK new : new = users'
  OBVIOUS
<1>4. /\ new \in Seq(UserRecord) /\ OneEach(new)
      /\ \A i \in DOMAIN new : new[i] = u \/ (i \in DOMAIN users /\ new[i] = users[i])
  <2>1. users \in Seq(UserRecord) /\ OneEach(users) /\ u.id \notin IdsOf(users)
    BY <1>1, <1>2 DEF DirInv, UsersOK
  <2>2. new = Append(users, u)
    BY <1>1, <1>3
  <2> QED BY <2>1, <2>2, Appended, ZenonT(30)
<1>5. UsersOK'
  BY <1>3, <1>4 DEF UsersOK, OneEach, UserRecord
<1>6. /\ DOMAIN index' = DOMAIN index \cup {name} /\ index'[name] = id
      /\ \A n \in DOMAIN index : index'[n] = index[n]
      /\ DOMAIN held' = DOMAIN held \cup {id} /\ held'[id] = {name}
      /\ \A i \in DOMAIN held : held'[i] = held[i]
  BY <1>2 DEF Add
<1>7. HeldKnows'
  <2> SUFFICES ASSUME NEW i \in DOMAIN new
               PROVE  new[i].id \in DOMAIN held' /\ new[i].name \in held'[new[i].id]
    BY <1>3 DEF HeldKnows
  <2> QED BY <1>1, <1>4, <1>6 DEF DirInv, HeldKnows
<1>8. IndexKnows'
  BY <1>6 DEF DirInv, IndexKnows
<1>9. AloneIsIndexed'
  <2> SUFFICES ASSUME NEW i \in DOMAIN new, Alone(new[i])'
               PROVE  new[i].name \in DOMAIN index'
    BY <1>3 DEF AloneIsIndexed, Alone
  <2>1. CASE new[i] = u
    BY <2>1, <1>1, <1>6
  <2>2. CASE i \in DOMAIN users /\ new[i] = users[i]
    <3>1. users[i].id \in DOMAIN held
      BY <2>2 DEF DirInv, HeldKnows
    <3>2. Alone(users[i])
      BY <2>2, <3>1, <1>6 DEF Alone
    <3> QED BY <2>2, <3>2, <1>6 DEF DirInv, AloneIsIndexed
  <2> QED BY <1>4, <2>1, <2>2
<1>10. FileOK' /\ Saved'
  BY <1>5, FileWritten DEF Add, Save
<1> QED BY <1>5, <1>7, <1>8, <1>9, <1>10 DEF DirInv

LEMMA RenameInv ==
  ASSUME DirInv, NEW id \in Ids, NEW name \in Names, NEW ending, Rename(id, name, ending)
  PROVE  DirInv'
<1>1. PICK old \in UserRecord :
        /\ old = User(id) /\ old.id = id /\ name # old.name /\ id \in IdsOf(users)
        /\ \A i \in DOMAIN users : users[i].id = id => users[i] = old
  BY PlaceIsUnique DEF Rename, DirInv
<1>2. PICK u \in UserRecord : u.id = id /\ u.name = name /\ users' = Changed(id, u)
  <2>1. PICK u : u = [old EXCEPT !.name = name]
    OBVIOUS
  <2>2. u \in UserRecord /\ u.id = id /\ u.name = name
    BY <1>1, <2>1 DEF UserRecord
  <2>3. users' = Changed(id, u)
    BY <1>1, <2>1 DEF Rename
  <2> QED BY <2>2, <2>3
<1>3. PICK new : new = users'
  OBVIOUS
<1>4. /\ UsersOK' /\ DOMAIN new = DOMAIN users
      /\ \A i \in DOMAIN users :
           /\ new[i].id = users[i].id
           /\ users[i].id = id => new[i] = u
           /\ users[i].id # id => new[i] = users[i]
  <2>1. UsersOK
    BY DEF DirInv
  <2> QED BY <1>1, <1>2, <1>3, <2>1, ChangedList
<1>5. /\ index' = index /\ id \in DOMAIN held /\ old.name \in held[id]
      /\ DOMAIN held' = DOMAIN held /\ held'[id] = held[id] \cup {name}
      /\ \A i \in DOMAIN held : i # id => held'[i] = held[i]
  BY <1>1 DEF Rename, DirInv, HeldKnows, IdsOf
<1>6. HeldKnows'
  <2> SUFFICES ASSUME NEW i \in DOMAIN users
               PROVE  new[i].id \in DOMAIN held' /\ new[i].name \in held'[new[i].id]
    BY <1>3, <1>4 DEF HeldKnows
  <2>1. CASE users[i].id = id
    BY <2>1, <1>2, <1>4, <1>5
  <2>2. CASE users[i].id # id
    BY <2>2, <1>4, <1>5 DEF DirInv, HeldKnows
  <2> QED BY <2>1, <2>2
<1>7. IndexKnows'
  BY <1>5 DEF DirInv, IndexKnows
<1>8. AloneIsIndexed'
  <2> SUFFICES ASSUME NEW i \in DOMAIN users, Alone(new[i])'
               PROVE  new[i].name \in DOMAIN index'
    BY <1>3, <1>4 DEF AloneIsIndexed, Alone
  <2>1. users[i].id # id
    BY <1>1, <1>2, <1>4, <1>5 DEF Alone
  <2>2. users[i].id \in DOMAIN held /\ new[i] = users[i]
    BY <2>1, <1>4 DEF DirInv, HeldKnows
  <2>3. Alone(users[i])
    BY <2>1, <2>2, <1>5 DEF Alone
  <2> QED BY <2>2, <2>3, <1>5 DEF DirInv, AloneIsIndexed
<1>9. FileOK' /\ Saved'
  BY <1>4, FileWritten DEF Rename, Save
<1> QED BY <1>4, <1>6, <1>7, <1>8, <1>9 DEF DirInv

LEMMA ChangeProfileInv ==
  ASSUME DirInv, NEW id \in Ids, NEW profile \in Profiles, NEW ending,
         ChangeProfile(id, profile, ending)
  PROVE  DirInv'
<1>1. PICK old \in UserRecord :
        /\ old = User(id) /\ old.id = id /\ id \in IdsOf(users)
        /\ \A i \in DOMAIN users : users[i].id = id => users[i] = old
  BY PlaceIsUnique DEF ChangeProfile, DirInv
<1>2. PICK u \in UserRecord : u.id = id /\ u.name = old.name /\ users' = Changed(id, u)
  <2>1. PICK u : u = [old EXCEPT !.profile = profile]
    OBVIOUS
  <2>2. u \in UserRecord /\ u.id = id /\ u.name = old.name
    BY <1>1, <2>1 DEF UserRecord
  <2>3. users' = Changed(id, u)
    BY <1>1, <2>1 DEF ChangeProfile
  <2> QED BY <2>2, <2>3
<1>3. PICK new : new = users'
  OBVIOUS
<1>4. /\ UsersOK' /\ DOMAIN new = DOMAIN users
      /\ \A i \in DOMAIN users :
           /\ new[i].id = users[i].id
           /\ users[i].id = id => new[i] = u
           /\ users[i].id # id => new[i] = users[i]
  <2>1. UsersOK
    BY DEF DirInv
  <2> QED BY <1>1, <1>2, <1>3, <2>1, ChangedList
<1>5. \A i \in DOMAIN users : new[i].id = users[i].id /\ new[i].name = users[i].name
  BY <1>1, <1>2, <1>4
<1>6. index' = index /\ held' = held
  BY DEF ChangeProfile
<1>7. HeldKnows' /\ IndexKnows'
  BY <1>3, <1>4, <1>5, <1>6 DEF DirInv, HeldKnows, IndexKnows
<1>8. AloneIsIndexed'
  <2> SUFFICES ASSUME NEW i \in DOMAIN users, Alone(new[i])'
               PROVE  new[i].name \in DOMAIN index'
    BY <1>3, <1>4 DEF AloneIsIndexed, Alone
  <2>1. Alone(users[i])
    BY <1>5, <1>6 DEF Alone
  <2> QED BY <2>1, <1>5, <1>6 DEF DirInv, AloneIsIndexed
<1>9. FileOK' /\ Saved'
  BY <1>4, FileWritten DEF ChangeProfile, Save
<1> QED BY <1>4, <1>7, <1>8, <1>9 DEF DirInv

LEMMA DeleteInv ==
  ASSUME DirInv, NEW id \in Ids, NEW ending, Delete(id, ending)
  PROVE  DirInv'
<1>1. PICK old \in UserRecord :
        /\ old = User(id) /\ old.id = id /\ id \in IdsOf(users)
        /\ id \in DOMAIN held /\ old.name \in held[id]
  BY PlaceIsUnique DEF Delete, DirInv, HeldKnows
<1>2. PICK new : new = users'
  OBVIOUS
<1>3. /\ UsersOK'
      /\ \A i \in DOMAIN new : /\ new[i].id # id
                               /\ \E j \in DOMAIN users : new[i] = users[j]
  BY <1>1, <1>2, RemovedList DEF Delete, DirInv
<1>4. /\ held' = held /\ DOMAIN index' = DOMAIN index \ {old.name}
      /\ \A n \in DOMAIN index' : index'[n] = index[n]
  BY <1>1 DEF Delete
<1>5. HeldKnows' /\ IndexKnows'
  <2>1. HeldKnows'
    BY <1>2, <1>3, <1>4 DEF DirInv, HeldKnows
  <2>2. IndexKnows'
    BY <1>4 DEF DirInv, IndexKnows
  <2> QED BY <2>1, <2>2
<1>6. AloneIsIndexed'
  <2> SUFFICES ASSUME NEW i \in DOMAIN new, Alone(new[i])'
               PROVE  new[i].name \in DOMAIN index'
    BY <1>2 DEF AloneIsIndexed, Alone
  <2>1. Alone(new[i])
    BY <1>4 DEF Alone
  <2>2. new[i].name \in DOMAIN index
    BY <2>1, <1>3 DEF DirInv, AloneIsIndexed
  <2>3. new[i].name # old.name
    BY <2>1, <1>1, <1>3 DEF Alone
  <2> QED BY <2>2, <2>3, <1>4
<1>7. FileOK' /\ Saved'
  BY <1>3, FileWritten DEF Delete, Save
<1> QED BY <1>3, <1>5, <1>6, <1>7 DEF DirInv

\* A start finds what the file has, or adds an administrator to it.
LEMMA StartInv ==
  ASSUME DirInv, NEW id \in Ids, NEW ending, Start(id, ending)
  PROVE  DirInv'
<1>1. PICK new : new = users'
  OBVIOUS
<1>2. PICK list \in Seq(UserRecord) : list = Loaded /\ OneEach(list)
  BY LoadedIsSaved
<1>3. new \in Seq(UserRecord) /\ OneEach(new)
  <2>1. CASE new = list
    BY <2>1, <1>2
  <2>2. CASE id \notin IdsOf(list)
             /\ new = Append(list, [id |-> id, name |-> "admin", profile |-> "active"])
    <3>1. PICK u : u = [id |-> id, name |-> "admin", profile |-> "active"]
      OBVIOUS
    <3>2. u \in UserRecord /\ u.id = id
      BY <3>1, DirectoryAssumption DEF UserRecord
    <3> QED BY <2>2, <3>1, <3>2, <1>2, Appended
  <2> QED BY <2>1, <2>2, <1>1, <1>2 DEF Start
<1>4. UsersOK'
  BY <1>1, <1>3 DEF UsersOK, OneEach, UserRecord
<1>5. /\ DOMAIN index' = { new[i].name : i \in DOMAIN new }
      /\ \A n \in DOMAIN index' : \E i \in DOMAIN new : new[i].name = n /\ index'[n] = new[i].id
  <2>1. index' = IndexOf(new)
    BY <1>1 DEF Start
  <2> QED BY <2>1, <1>3, IndexOfFinds
<1>6. /\ DOMAIN held' = { new[i].id : i \in DOMAIN new }
      /\ \A i \in DOMAIN new : held'[new[i].id] = {new[i].name}
  <2>1. held' = NamesOf(new)
    BY <1>1 DEF Start
  <2> QED BY <2>1, <1>3, NamesOfKnows
<1>7. HeldKnows' /\ IndexKnows' /\ AloneIsIndexed'
  <2>1. HeldKnows'
    BY <1>1, <1>6 DEF HeldKnows
  <2>2. IndexKnows'
    BY <1>5, <1>6 DEF IndexKnows
  <2>3. AloneIsIndexed'
    BY <1>1, <1>5 DEF AloneIsIndexed
  <2> QED BY <2>1, <2>2, <2>3
<1>8. FileOK' /\ Saved'
  <2>1. CASE users' = Loaded /\ UNCHANGED <<file, unsaved>>
    <3>1. FileOK'
      BY <2>1 DEF DirInv, FileOK, OneEach, UserRecord
    <3>2. Saved'
      BY <2>1 DEF Saved, Loaded
    <3> QED BY <3>1, <3>2
  <2>2. CASE WriteFile(ending)
    BY <2>2, <1>4, FileWritten
  <2> QED BY <2>1, <2>2 DEF Start
<1> QED BY <1>4, <1>7, <1>8 DEF DirInv

LEMMA DirectoryUnchanged ==
  ASSUME DirInv, UNCHANGED <<users, index, file, unsaved, held>>
  PROVE  DirInv'
<1>1. UsersOK' /\ FileOK' /\ Saved'
  BY DEF DirInv, UsersOK, FileOK, Saved, OneEach, UserRecord
<1>2. HeldKnows' /\ IndexKnows' /\ AloneIsIndexed'
  BY DEF DirInv, HeldKnows, IndexKnows, AloneIsIndexed, Alone
<1> QED BY <1>1, <1>2 DEF DirInv

-----------------------------------------------------------------------------
\* For every number of users and names: users have one id each, the history
\* knows them, the index leads only to who has had the name, and the file has
\* what the process knows unless the last save failed (user_model.py).
THEOREM DirectoryInvariant == Spec => []DirInv
<1>1. Init => DirInv
  <2> SUFFICES ASSUME Init PROVE DirInv
    OBVIOUS
  <2>1. users = <<>> /\ index = <<>> /\ held = <<>> /\ file.users = <<>>
        /\ file.state # "whole"
    BY DEF Init, DirectoryInit
  <2>2. UsersOK /\ FileOK /\ Saved
    BY <2>1, EmptySeq DEF UsersOK, FileOK, Saved, OneEach
  <2>3. HeldKnows /\ IndexKnows /\ AloneIsIndexed
    BY <2>1 DEF HeldKnows, IndexKnows, AloneIsIndexed
  <2> QED BY <2>2, <2>3 DEF DirInv
<1>2. DirInv /\ [Next]_playersVars => DirInv'
  <2> SUFFICES ASSUME DirInv, [Next]_playersVars PROVE DirInv'
    OBVIOUS
  <2>1. CASE UNCHANGED <<users, index, file, unsaved, held>>
    BY <2>1, DirectoryUnchanged
  <2>2. CASE UserNext
    <3>1. CASE ProcessDies
      BY <3>1, <2>1 DEF ProcessDies, Die
    <3>2. ASSUME NEW id \in Ids, NEW ending \in Endings, NEW name \in Names,
                 CreateUser(id, name, ending) \/ RenameUser(id, name, ending)
          PROVE  DirInv'
      BY <3>2, AddInv, RenameInv DEF CreateUser, RenameUser
    <3>3. ASSUME NEW id \in Ids, NEW ending \in Endings, NEW profile \in Profiles,
                 ChangeUser(id, profile, ending)
          PROVE  DirInv'
      BY <3>3, ChangeProfileInv DEF ChangeUser
    <3>4. ASSUME NEW id \in Ids, NEW ending \in Endings,
                 DeleteUser(id, ending) \/ StartProcess(id, ending)
          PROVE  DirInv'
      BY <3>4, DeleteInv, StartInv DEF DeleteUser, StartProcess
    <3> QED BY <2>2, <3>1, <3>2, <3>3, <3>4 DEF UserNext
  <2>3. CASE MoneyNext
    BY <2>1, <2>3 DEF MoneyNext, MovesCash, TradesBetween, TradesWithMarket, PriceMoves,
                      directoryVars
  <2> QED BY <2>1, <2>2, <2>3 DEF Next, playersVars, directoryVars
<1> QED BY <1>1, <1>2, PTL DEF Spec

\* A name finds only who has had it, and a user whose name was never changed and
\* never anybody else's is found by it, for every number of users and names.
THEOREM NamesStillResolve == Spec => []NamesResolve
<1>1. DirInv => NamesResolve
  <2> SUFFICES ASSUME DirInv PROVE NamesResolve
    OBVIOUS
  <2>1. ASSUME NEW n \in Names, GetByUsername(n) # NoUser
        PROVE  n \in held[GetByUsername(n)]
    BY <2>1 DEF GetByUsername, DirInv, IndexKnows
  <2>2. ASSUME NEW i \in DOMAIN users, NEW u, u = users[i],
               \A id \in DOMAIN held : u.name \in held[id] <=> id = u.id,
               held[u.id] = {u.name}
        PROVE  GetByUsername(u.name) = u.id
    <3>1. u.name \in DOMAIN index
      BY <2>2 DEF DirInv, AloneIsIndexed, Alone
    <3>2. index[u.name] = u.id
      BY <2>2, <3>1 DEF DirInv, IndexKnows
    <3>3. u.id \in IdsOf(users)
      BY <2>2 DEF IdsOf
    <3> QED BY <3>1, <3>2, <3>3 DEF GetByUsername
  <2> QED BY <2>1, <2>2 DEF NamesResolve, Range
<1> QED BY <1>1, DirectoryInvariant, PTL

\* After a restart every user is as the last process knew it, unless its last save
\* failed or was cut short.
THEOREM UsersComeBack == Spec => UsersSurvive
<1>1. ASSUME DirInv, [Next]_playersVars
      PROVE  [~up /\ up' /\ ~unsaved =>
                \/ users' = users
                \/ /\ users' = Append(users, Last(users'))
                   /\ Last(users').name = "admin"]_playersVars
  <2> SUFFICES ASSUME Next, ~up, up', ~unsaved
               PROVE  \/ users' = users
                      \/ /\ users' = Append(users, Last(users'))
                         /\ Last(users').name = "admin"
    BY <1>1
  <2>1. PICK id \in Ids, ending \in Endings : Start(id, ending)
    BY DEF Next, UserNext, MoneyNext, CreateUser, RenameUser, ChangeUser, DeleteUser,
           StartProcess, ProcessDies, Die, MovesCash, MayAct, TradesBetween,
           TradesWithMarket, PriceMoves
  <2>2. Loaded = users
    BY <1>1, LoadedIsSaved
  <2>3. PICK u : u = [id |-> id, name |-> "admin", profile |-> "active"]
    OBVIOUS
  <2>4. CASE users' = Append(users, u)
    <3>1. Last(users') = u
      BY <2>4, <1>1, AppendProperties, LenProperties DEF Last, DirInv, UsersOK
    <3> QED BY <2>3, <2>4, <3>1
  <2> QED BY <2>1, <2>2, <2>3, <2>4 DEF Start
<1> QED BY <1>1, DirectoryInvariant, PTL DEF Spec, UsersSurvive

-----------------------------------------------------------------------------
(* Lists put together: what FlattenSeq and FoldLeft compute is read off a  *)
(* function that exists, because a shortest list without it would have that *)
(* of the list before it, with one more value.                             *)

\* A non-empty set of naturals has a least element.
LEMMA NatMinimum ==
  ASSUME NEW I \in SUBSET Nat, I # {}
  PROVE  \E m \in I : \A i \in I : m <= i
<1>1. PICK n \in I : TRUE
  OBVIOUS
<1> DEFINE J == { j \in 1..(n + 1) : n + 1 - j \in I }
<1>2. n \in Nat /\ n + 1 \in Nat /\ n + 1 - (n + 1) = 0
  BY <1>1
<1>3. n + 1 - 1 = n /\ 1 \in 1..(n + 1)
  BY <1>2
<1>4. J \in SUBSET (1..(n + 1)) /\ 1 \in J
  BY <1>1, <1>3
<1>5. PICK j \in J : \A i \in J : j >= i
  <2> HIDE DEF J
  <2> QED BY <1>2, <1>4, LastPlace
<1>6. j \in Nat /\ 1 <= j /\ j <= n + 1 /\ n + 1 - j \in I
  BY <1>2, <1>5
<1>7. ASSUME NEW i \in I, ~(n + 1 - j <= i)
      PROVE  FALSE
  <2>1. i \in Nat /\ i < n + 1 - j /\ n + 1 - i \in Nat
    BY <1>2, <1>6, <1>7
  <2>2. n + 1 - i \in 1..(n + 1) /\ n + 1 - (n + 1 - i) = i /\ n + 1 - i > j
    BY <1>2, <1>6, <2>1
  <2>3. n + 1 - i \in J
    BY <2>2
  <2> QED BY <1>5, <1>6, <2>1, <2>2, <2>3
<1> QED BY <1>6, <1>7

Flattening(f, seqs, n) ==
  f = [i \in 1..n |-> IF i = 1 THEN seqs[i] ELSE f[i - 1] \o seqs[i]]

LEMMA FlattenIsChosen ==
  ASSUME NEW seqs, Len(seqs) # 0
  PROVE  FlattenSeq(seqs) = (CHOOSE f : Flattening(f, seqs, Len(seqs)))[Len(seqs)]
BY DEF FlattenSeq, Flattening

LEMMA FlatteningsExist ==
  ASSUME NEW seqs, NEW n \in Nat
  PROVE  \E f : Flattening(f, seqs, n)
<1> DEFINE I == { m \in Nat : \A f : ~Flattening(f, seqs, m) }
<1>1. SUFFICES ASSUME I # {} PROVE FALSE
  OBVIOUS
<1>2. PICK m \in I : \A i \in I : m <= i
  <2> HIDE DEF I
  <2>1. I \in SUBSET Nat
    BY DEF I
  <2> QED BY <1>1, <2>1, NatMinimum
<1>3. m \in Nat /\ \A f : ~Flattening(f, seqs, m)
  BY <1>2
<1>4. m # 0
  <2>1. PICK f : f = [i \in 1..0 |-> seqs[i]]
    OBVIOUS
  <2>2. f = [i \in 1..0 |-> IF i = 1 THEN seqs[i] ELSE f[i - 1] \o seqs[i]]
    BY <2>1
  <2> QED BY <1>3, <2>2 DEF Flattening
<1>5. PICK h : Flattening(h, seqs, m - 1)
  <2>1. m - 1 \in Nat /\ ~(m <= m - 1)
    BY <1>3, <1>4
  <2> QED BY <1>2, <2>1
<1>6. PICK top : top = IF m = 1 THEN seqs[m] ELSE h[m - 1] \o seqs[m]
  OBVIOUS
<1>7. PICK f : f = [i \in 1..m |-> IF i = m THEN top ELSE h[i]]
  OBVIOUS
<1>8. ASSUME NEW i \in 1..m
      PROVE  f[i] = IF i = 1 THEN seqs[i] ELSE f[i - 1] \o seqs[i]
  <2>1. f[i] = (IF i = m THEN top ELSE h[i]) /\ (i # 1 => f[i - 1] = h[i - 1])
    BY <1>3, <1>7
  <2>2. CASE i = m
    BY <1>6, <2>1, <2>2
  <2>3. CASE i # m
    <3>1. i \in 1..(m - 1)
      BY <1>3, <2>3
    <3>2. h[i] = IF i = 1 THEN seqs[i] ELSE h[i - 1] \o seqs[i]
      BY <1>5, <3>1 DEF Flattening
    <3> QED BY <2>1, <2>3, <3>2
  <2> QED BY <2>2, <2>3
<1>9. f = [i \in 1..m |-> f[i]]
  BY <1>7
<1>10. f = [i \in 1..m |-> IF i = 1 THEN seqs[i] ELSE f[i - 1] \o seqs[i]]
  BY <1>8, <1>9
<1> QED BY <1>3, <1>10 DEF Flattening

\* Two of lists that start alike agree.
StartsAs(more, seqs, n) == \A i \in 1..n : more[i] = seqs[i]

LEMMA FlatteningsAgree ==
  ASSUME NEW seqs, NEW more, NEW n \in Nat, NEW m \in Nat, n <= m,
         StartsAs(more, seqs, n),
         NEW f, NEW g, Flattening(f, seqs, n), Flattening(g, more, m)
  PROVE  \A i \in 1..n : g[i] = f[i]
<1> DEFINE I == { i \in 1..n : g[i] # f[i] }
<1>1. SUFFICES ASSUME I # {} PROVE FALSE
  OBVIOUS
<1>2. PICK k \in I : \A i \in I : k <= i
  <2> HIDE DEF I
  <2>1. I \in SUBSET Nat
    BY DEF I
  <2> QED BY <1>1, <2>1, NatMinimum
<1>3. k \in 1..n /\ k \in 1..m /\ g[k] # f[k]
  BY <1>2
<1>4. f[k] = IF k = 1 THEN seqs[k] ELSE f[k - 1] \o seqs[k]
  BY <1>3 DEF Flattening
<1>5. g[k] = IF k = 1 THEN more[k] ELSE g[k - 1] \o more[k]
  BY <1>3 DEF Flattening
<1>6. k # 1
  BY <1>3, <1>4, <1>5 DEF StartsAs
<1>7. g[k - 1] = f[k - 1]
  <2>1. k - 1 \in 1..n /\ ~(k <= k - 1)
    BY <1>3, <1>6
  <2> QED BY <1>2, <2>1
<1> QED BY <1>3, <1>4, <1>5, <1>6, <1>7 DEF StartsAs

LEMMA FlattenChosen ==
  ASSUME NEW seqs, Len(seqs) \in Nat, Len(seqs) # 0
  PROVE  \E f : Flattening(f, seqs, Len(seqs)) /\ FlattenSeq(seqs) = f[Len(seqs)]
<1>1. \E f : Flattening(f, seqs, Len(seqs))
  BY FlatteningsExist
<1>2. Flattening(CHOOSE f : Flattening(f, seqs, Len(seqs)), seqs, Len(seqs))
  BY <1>1
<1> QED BY <1>2, FlattenIsChosen

\* One more list is put at the end.
LEMMA FlattenAppend ==
  ASSUME NEW S, NEW seqs \in Seq(Seq(S)), NEW t \in Seq(S)
  PROVE  /\ FlattenSeq(<<>>) = <<>>
         /\ FlattenSeq(seqs) \in Seq(S)
         /\ FlattenSeq(Append(seqs, t)) = FlattenSeq(seqs) \o t
<1>1. PICK n \in Nat : /\ n = Len(seqs)
                       /\ \A i \in 1..n : seqs[i] \in Seq(S)
  BY ElementOfSeq, LenProperties
<1>2. FlattenSeq(<<>>) = <<>>
  <2>1. Len(<<>>) = 0
    BY EmptySeq, LenProperties
  <2> QED BY <2>1 DEF FlattenSeq
<1>3. PICK more : more = Append(seqs, t)
  OBVIOUS
<1>4. Len(more) = n + 1 /\ more[n + 1] = t /\ \A i \in 1..n : more[i] = seqs[i]
  <2>1. t \in Seq(S)
    OBVIOUS
  <2> QED BY <1>1, <1>3, AppendProperties
<1>5. PICK m \in Nat : m = n + 1
  BY <1>1
<1>6. PICK g : Flattening(g, more, m) /\ FlattenSeq(more) = g[m]
  BY <1>1, <1>4, <1>5, FlattenChosen
<1>7. g[m] = IF m = 1 THEN more[m] ELSE g[m - 1] \o more[m]
  <2>1. m \in 1..m
    BY <1>1, <1>5
  <2> QED BY <1>6, <2>1 DEF Flattening
<1>8. CASE n = 0
  <2>1. seqs = <<>>
    BY <1>1, <1>8, EmptySeq
  <2>2. FlattenSeq(seqs) = <<>>
    BY <1>2, <2>1
  <2>3. <<>> \o t = t /\ <<>> \in Seq(S)
    OBVIOUS
  <2>4. FlattenSeq(more) = t
    BY <1>1, <1>4, <1>5, <1>6, <1>7, <1>8
  <2> QED BY <1>2, <1>3, <2>2, <2>3, <2>4
<1>9. CASE n # 0
  <2>1. PICK f : Flattening(f, seqs, n) /\ FlattenSeq(seqs) = f[n]
    BY <1>1, <1>9, FlattenChosen
  <2>2. g[n] = f[n]
    <3>1. n <= m /\ n \in 1..n
      BY <1>1, <1>5, <1>9
    <3>2. Flattening(f, seqs, n) /\ Flattening(g, more, m) /\ StartsAs(more, seqs, n)
      BY <1>4, <1>6, <2>1 DEF StartsAs
    <3>3. \A i \in 1..n : g[i] = f[i]
      BY <1>1, <1>5, <3>1, <3>2, FlatteningsAgree
    <3> QED BY <3>1, <3>3
  <2>3. FlattenSeq(more) = FlattenSeq(seqs) \o t
    <3>1. m # 1 /\ m - 1 = n /\ more[m] = t
      BY <1>1, <1>4, <1>5, <1>9
    <3> QED BY <1>6, <1>7, <2>1, <2>2, <3>1
  <2> DEFINE I == { i \in 1..n : f[i] \notin Seq(S) }
  <2>4. I = {}
    <3>1. SUFFICES ASSUME I # {} PROVE FALSE
      OBVIOUS
    <3>2. PICK k \in I : \A i \in I : k <= i
      <4> HIDE DEF I
      <4>1. I \in SUBSET Nat
        BY DEF I
      <4> QED BY <3>1, <4>1, NatMinimum
    <3>3. k \in 1..n /\ f[k] \notin Seq(S) /\ seqs[k] \in Seq(S)
      BY <1>1, <3>2
    <3>4. f[k] = IF k = 1 THEN seqs[k] ELSE f[k - 1] \o seqs[k]
      BY <2>1, <3>3 DEF Flattening
    <3>5. k # 1
      BY <3>3, <3>4
    <3>6. f[k - 1] \in Seq(S)
      <4>1. k - 1 \in 1..n /\ ~(k <= k - 1)
        BY <1>1, <3>3, <3>5
      <4> QED BY <3>2, <4>1
    <3>7. f[k - 1] \o seqs[k] \in Seq(S)
      BY <3>3, <3>6, ConcatProperties
    <3> QED BY <3>3, <3>4, <3>5, <3>7
  <2>5. FlattenSeq(seqs) \in Seq(S)
    BY <1>1, <1>9, <2>1, <2>4
  <2> QED BY <1>2, <1>3, <2>3, <2>5
<1> QED BY <1>8, <1>9

\* A list that grows by its members one by one: the beginnings of it.
LEMMA Beginnings ==
  ASSUME NEW S, NEW list \in Seq(S)
  PROVE  /\ Len(list) \in Nat /\ DOMAIN list = 1..Len(list)
         /\ SubSeq(list, 1, 0) = <<>> /\ SubSeq(list, 1, Len(list)) = list
         /\ \A i \in 0..Len(list) : SubSeq(list, 1, i) \in Seq(S)
         /\ \A i \in 1..Len(list) :
              /\ list[i] \in S
              /\ SubSeq(list, 1, i) = Append(SubSeq(list, 1, i - 1), list[i])
<1>1. PICK n \in Nat : n = Len(list)
  BY LenProperties
<1>2. DOMAIN list = 1..n /\ \A i \in 1..n : list[i] \in S
  BY <1>1, ElementOfSeq, LenProperties
<1>3. SubSeq(list, 1, 0) = <<>> /\ SubSeq(list, 1, n) = list
  BY <1>1, SubSeqEmpty, SubSeqFull
<1>4. ASSUME NEW i \in 0..n
      PROVE  /\ SubSeq(list, 1, i) \in Seq(S)
             /\ Len(SubSeq(list, 1, i)) = i
             /\ \A k \in 1..i : SubSeq(list, 1, i)[k] = list[k]
  <2>1. i \in Int /\ 1 \in Int /\ \A k \in 1..i : list[k] \in S
    BY <1>1, <1>2
  <2>2. PICK t : t = SubSeq(list, 1, i)
    OBVIOUS
  <2>3. /\ t \in Seq(S) /\ Len(t) = IF 1 <= i THEN i - 1 + 1 ELSE 0
        /\ \A k \in 1..(i - 1 + 1) : t[k] = list[1 + k - 1]
    BY <2>1, <2>2, SubSeqProperties
  <2>4. \A k \in 1..i : 1 + k - 1 = k /\ k \in 1..(i - 1 + 1)
    BY <2>1
  <2>5. Len(t) = i
    BY <1>1, <2>1, <2>3
  <2> QED BY <2>2, <2>3, <2>4, <2>5
<1>5. ASSUME NEW i \in 1..n
      PROVE  SubSeq(list, 1, i) = Append(SubSeq(list, 1, i - 1), list[i])
  <2>1. i \in 0..n /\ i - 1 \in 0..n /\ i - 1 + 1 = i
    BY <1>1
  <2>2. PICK t : t = SubSeq(list, 1, i)
    OBVIOUS
  <2>3. PICK u : u = SubSeq(list, 1, i - 1)
    OBVIOUS
  <2>4. PICK v : v = Append(u, list[i])
    OBVIOUS
  <2>5. t \in Seq(S) /\ Len(t) = i /\ \A k \in 1..i : t[k] = list[k]
    BY <1>4, <2>1, <2>2
  <2>6. u \in Seq(S) /\ Len(u) = i - 1 /\ \A k \in 1..(i - 1) : u[k] = list[k]
    BY <1>4, <2>1, <2>3
  <2>7. /\ v \in Seq(S) /\ Len(v) = i /\ v[i] = list[i]
        /\ \A k \in 1..(i - 1) : v[k] = list[k]
    BY <1>2, <2>1, <2>4, <2>6, AppendProperties
  <2>8. \A k \in 1..i : k = i \/ k \in 1..(i - 1)
    BY <1>1
  <2>9. \A k \in 1..i : t[k] = v[k]
    BY <2>5, <2>7, <2>8
  <2>10. t = v
    BY <2>5, <2>7, <2>9, SeqEqual
  <2> QED BY <2>2, <2>3, <2>4, <2>10
<1> QED BY <1>1, <1>2, <1>3, <1>4, <1>5

LotRecord == [side : {"BUY", "SELL"}, symbol : Symbols, price : Nat, qty : Nat \ {0}]

Moves(lot, side, s) == lot.side = side /\ lot.symbol = s

\* The shares that one lot moved.
Pieces(lot, side, s) ==
  IF Moves(lot, side, s) THEN [k \in 1..lot.qty |-> lot.price] ELSE <<>>

LEMMA PiecesProperties ==
  ASSUME NEW lot \in LotRecord, NEW side, NEW s
  PROVE  /\ Pieces(lot, side, s) \in Seq(Nat)
         /\ Len(Pieces(lot, side, s)) = IF Moves(lot, side, s) THEN lot.qty ELSE 0
         /\ Range(Pieces(lot, side, s)) = IF Moves(lot, side, s) THEN {lot.price} ELSE {}
<1>1. PICK p \in Nat : p = lot.price
  BY DEF LotRecord
<1>2. PICK q \in Nat : q = lot.qty /\ q > 0 /\ 1 \in 1..q
  BY DEF LotRecord
<1>3. PICK list : list = [k \in 1..q |-> p]
  OBVIOUS
<1>4. list \in Seq(Nat) /\ Len(list) = q
  <2>1. list \in [1..q -> Nat]
    BY <1>3
  <2>2. list \in Seq(Nat)
    BY <2>1, SeqDef
  <2>3. DOMAIN list = 1..q
    BY <1>3
  <2> QED BY <1>2, <2>2, <2>3, LenProperties
<1>5. Range(list) = {p}
  BY <1>2, <1>3 DEF Range
<1>6. <<>> \in Seq(Nat) /\ Len(<<>>) = 0 /\ Range(<<>>) = {}
  BY EmptySeq DEF Range
<1>7. Pieces(lot, side, s) = IF Moves(lot, side, s) THEN list ELSE <<>>
  BY <1>1, <1>2, <1>3 DEF Pieces
<1> QED BY <1>1, <1>2, <1>4, <1>5, <1>6, <1>7

LEMMA SharesAppend ==
  ASSUME NEW lots \in Seq(LotRecord), NEW side, NEW s
  PROVE  /\ ShareByShare(<<>>, side, s) = <<>>
         /\ ShareByShare(lots, side, s) \in Seq(Nat)
         /\ \A lot \in LotRecord :
              ShareByShare(Append(lots, lot), side, s)
                = ShareByShare(lots, side, s) \o Pieces(lot, side, s)
<1> DEFINE Lists(l) == [i \in DOMAIN l |-> Pieces(l[i], side, s)]
<1>1. \A l : ShareByShare(l, side, s) = FlattenSeq(Lists(l))
  BY DEF ShareByShare, Pieces, Moves
<1>2. PICK n \in Nat : n = Len(lots) /\ DOMAIN lots = 1..n /\ \A i \in 1..n : lots[i] \in LotRecord
  BY ElementOfSeq, LenProperties
<1>3. Lists(lots) \in Seq(Seq(Nat)) /\ Len(Lists(lots)) = n
  <2>1. \A i \in 1..n : Pieces(lots[i], side, s) \in Seq(Nat)
    BY <1>2, PiecesProperties
  <2>2. Lists(lots) \in [1..n -> Seq(Nat)]
    BY <1>2, <2>1
  <2>3. Lists(lots) \in Seq(Seq(Nat)) /\ DOMAIN Lists(lots) = 1..n
    BY <2>2, SeqDef
  <2> QED BY <2>3, LenProperties
<1>4. ShareByShare(<<>>, side, s) = <<>>
  <2>1. Lists(<<>>) = <<>>
    OBVIOUS
  <2>2. FlattenSeq(<<>>) = <<>>
    BY <1>3, EmptySeq, FlattenAppend
  <2> QED BY <1>1, <2>1, <2>2
<1>5. ShareByShare(lots, side, s) \in Seq(Nat)
  <2>1. <<>> \in Seq(Nat)
    BY EmptySeq
  <2> HIDE DEF Lists
  <2> QED BY <1>1, <1>3, <2>1, FlattenAppend
<1>6. ASSUME NEW lot \in LotRecord
      PROVE  ShareByShare(Append(lots, lot), side, s)
               = ShareByShare(lots, side, s) \o Pieces(lot, side, s)
  <2>1. PICK t : t = Pieces(lot, side, s) /\ t \in Seq(Nat)
    BY PiecesProperties
  <2>2. PICK more : more = Append(lots, lot)
    OBVIOUS
  <2>3. /\ more \in Seq(LotRecord) /\ Len(more) = n + 1
        /\ more[n + 1] = lot /\ \A i \in 1..n : more[i] = lots[i]
    BY <1>2, <2>2, AppendProperties
  <2>4. DOMAIN more = 1..(n + 1)
    BY <2>3, LenProperties
  <2>5. PICK a : a = Lists(lots)
    OBVIOUS
  <2>6. PICK b : b = Append(a, t)
    OBVIOUS
  <2>7. /\ b \in Seq(Seq(Nat)) /\ Len(b) = n + 1
        /\ b[n + 1] = t /\ \A i \in 1..n : b[i] = a[i]
    BY <1>3, <2>1, <2>5, <2>6, AppendProperties
  <2>8. \A i \in 1..(n + 1) : i = n + 1 \/ i \in 1..n
    BY <1>2
  <2>9. \A i \in 1..n : a[i] = Pieces(lots[i], side, s)
    BY <1>2, <2>5
  <2>10. \A i \in 1..(n + 1) : b[i] = Pieces(more[i], side, s)
    BY <2>1, <2>3, <2>7, <2>8, <2>9
  <2>11. DOMAIN b = 1..(n + 1) /\ b = [i \in DOMAIN b |-> b[i]]
    BY <2>7, LenProperties
  <2>12. b = Lists(more)
    BY <2>4, <2>10, <2>11
  <2>13. FlattenSeq(b) = FlattenSeq(a) \o t
    BY <1>3, <2>1, <2>5, <2>6, FlattenAppend
  <2> HIDE DEF Lists
  <2> QED BY <1>1, <2>1, <2>2, <2>5, <2>12, <2>13
<1> QED BY <1>4, <1>5, <1>6

\* The shares that one more lot adds.
LEMMA OneMoreLot ==
  ASSUME NEW lots \in Seq(LotRecord), NEW side, NEW s, NEW k \in 1..Len(lots)
  PROVE  \E u, t \in Seq(Nat) :
           /\ u = ShareByShare(SubSeq(lots, 1, k - 1), side, s)
           /\ ShareByShare(SubSeq(lots, 1, k), side, s) = u \o t
           /\ Len(t) = IF Moves(lots[k], side, s) THEN lots[k].qty ELSE 0
           /\ Range(t) = IF Moves(lots[k], side, s) THEN {lots[k].price} ELSE {}
           /\ Len(u \o t) = Len(u) + Len(t) /\ Len(u) \in Nat
           /\ Range(u \o t) = Range(u) \cup Range(t)
<1>1. PICK lot \in LotRecord : lot = lots[k]
  BY Beginnings
<1>2. PICK front \in Seq(LotRecord) :
        front = SubSeq(lots, 1, k - 1) /\ SubSeq(lots, 1, k) = Append(front, lot)
  <2>1. k - 1 \in 0..Len(lots)
    BY Beginnings
  <2>2. SubSeq(lots, 1, k - 1) \in Seq(LotRecord)
    BY <2>1, Beginnings
  <2>3. SubSeq(lots, 1, k) = Append(SubSeq(lots, 1, k - 1), lots[k])
    BY Beginnings
  <2> QED BY <1>1, <2>2, <2>3
<1>3. PICK t \in Seq(Nat) :
        /\ t = Pieces(lot, side, s)
        /\ Len(t) = IF Moves(lot, side, s) THEN lot.qty ELSE 0
        /\ Range(t) = IF Moves(lot, side, s) THEN {lot.price} ELSE {}
  BY PiecesProperties
<1>4. PICK u \in Seq(Nat) :
        /\ u = ShareByShare(front, side, s)
        /\ ShareByShare(Append(front, lot), side, s) = u \o t
  BY <1>3, SharesAppend, ZenonT(30)
<1>5. Len(u \o t) = Len(u) + Len(t) /\ Len(u) \in Nat
  BY ConcatProperties, LenProperties
<1>6. Range(u \o t) = Range(u) \cup Range(t)
  BY RangeConcatenation
<1> QED BY <1>1, <1>2, <1>3, <1>4, <1>5, <1>6

\* What the shares of s that a list of lots moved are worth knowing for: how many,
\* and at which prices.
LEMMA MovedPrices ==
  ASSUME NEW lots \in Seq(LotRecord), NEW side, NEW s
  PROVE  Range(ShareByShare(lots, side, s))
           = { lots[i].price : i \in { j \in DOMAIN lots : Moves(lots[j], side, s) } }
<1> DEFINE Places(n) == { j \in 1..n : Moves(lots[j], side, s) }
           Prices_(n) == { lots[i].price : i \in Places(n) }
           Shares_(n) == ShareByShare(SubSeq(lots, 1, n), side, s)
           I == { n \in 0..Len(lots) : Range(Shares_(n)) # Prices_(n) }
<1>1. /\ Len(lots) \in Nat /\ DOMAIN lots = 1..Len(lots)
      /\ SubSeq(lots, 1, 0) = <<>> /\ SubSeq(lots, 1, Len(lots)) = lots
      /\ \A i \in 0..Len(lots) : SubSeq(lots, 1, i) \in Seq(LotRecord)
      /\ \A i \in 1..Len(lots) :
           /\ lots[i] \in LotRecord
           /\ SubSeq(lots, 1, i) = Append(SubSeq(lots, 1, i - 1), lots[i])
  BY Beginnings
<1>2. I = {}
  <2>1. SUFFICES ASSUME I # {} PROVE FALSE
    OBVIOUS
  <2>2. PICK k \in I : \A i \in I : k <= i
    <3> HIDE DEF I
    <3>1. I \in SUBSET Nat
      BY <1>1 DEF I
    <3> QED BY <2>1, <3>1, NatMinimum
  <2>3. k \in 0..Len(lots) /\ Range(Shares_(k)) # Prices_(k)
    BY <2>2
  <2>4. k # 0
    <3>1. Shares_(0) = <<>>
      BY <1>1, SharesAppend, ZenonT(30)
    <3>2. Range(<<>>) = {} /\ Prices_(0) = {}
      BY DEF Range
    <3> HIDE DEF Shares_, Prices_
    <3> QED BY <2>3, <3>1, <3>2
  <2>5. k \in 1..Len(lots) /\ k - 1 \in 0..Len(lots) /\ ~(k <= k - 1)
    BY <1>1, <2>3, <2>4
  <2>6. Range(Shares_(k - 1)) = Prices_(k - 1)
    <3> HIDE DEF Shares_, Prices_
    <3> QED BY <2>2, <2>5
  <2>7. PICK u, t \in Seq(Nat) :
          /\ u = Shares_(k - 1)
          /\ Shares_(k) = u \o t
          /\ Len(t) = IF Moves(lots[k], side, s) THEN lots[k].qty ELSE 0
          /\ Range(t) = IF Moves(lots[k], side, s) THEN {lots[k].price} ELSE {}
          /\ Len(u \o t) = Len(u) + Len(t) /\ Len(u) \in Nat
          /\ Range(u \o t) = Range(u) \cup Range(t)
    BY <2>5, OneMoreLot, ZenonT(30)
  <2>12. Places(k) = Places(k - 1) \cup (IF Moves(lots[k], side, s) THEN {k} ELSE {})
    <3>1. \A j \in 1..k : j = k \/ j \in 1..(k - 1)
      BY <1>1, <2>5
    <3>2. k \in 1..k /\ 1..(k - 1) \subseteq 1..k
      BY <1>1, <2>5
    <3> QED BY <3>1, <3>2
  <2>13. Prices_(k) = Prices_(k - 1) \cup Range(t)
    <3> HIDE DEF Places
    <3> QED BY <2>7, <2>12
  <2> HIDE DEF Prices_, Shares_
  <2> QED BY <2>3, <2>6, <2>7, <2>13
<1>3. Range(Shares_(Len(lots))) = Prices_(Len(lots))
  <2>1. Len(lots) \in 0..Len(lots)
    BY <1>1
  <2> HIDE DEF Shares_, Prices_
  <2> QED BY <1>2, <2>1
<1> QED BY <1>1, <1>3

\* How many shares of s a lot adds to a position.
Change(lot, s) ==
  IF Moves(lot, "BUY", s) THEN lot.qty ELSE IF Moves(lot, "SELL", s) THEN -lot.qty ELSE 0

\* The position after each lot.
Positions(at, lots, s) ==
  /\ at \in [0..Len(lots) -> Nat]
  /\ at[0] = 0
  /\ \A i \in 1..Len(lots) : at[i] = at[i - 1] + Change(lots[i], s)

\* What was bought less what was sold is the position.
LEMMA PositionIsBalance ==
  ASSUME NEW lots \in Seq(LotRecord), NEW s, NEW at, Positions(at, lots, s)
  PROVE  \A i \in 0..Len(lots) :
           Len(ShareByShare(SubSeq(lots, 1, i), "BUY", s))
             = Len(ShareByShare(SubSeq(lots, 1, i), "SELL", s)) + at[i]
<1> DEFINE Count(side, n) == Len(ShareByShare(SubSeq(lots, 1, n), side, s))
           I == { n \in 0..Len(lots) : Count("BUY", n) # Count("SELL", n) + at[n] }
<1>1. /\ Len(lots) \in Nat
      /\ SubSeq(lots, 1, 0) = <<>>
      /\ \A i \in 0..Len(lots) : SubSeq(lots, 1, i) \in Seq(LotRecord)
      /\ \A i \in 1..Len(lots) :
           /\ lots[i] \in LotRecord
           /\ SubSeq(lots, 1, i) = Append(SubSeq(lots, 1, i - 1), lots[i])
  BY Beginnings
<1>2. SUFFICES I = {}
  <2> HIDE DEF Count
  <2>1. SUFFICES ASSUME I = {} PROVE \A i \in 0..Len(lots) : Count("BUY", i) = Count("SELL", i) + at[i]
    BY <1>2 DEF Count
  <2> QED BY <2>1
<1>3. SUFFICES ASSUME I # {} PROVE FALSE
  OBVIOUS
<1>4. PICK k \in I : \A i \in I : k <= i
  <2> HIDE DEF I
  <2>1. I \in SUBSET Nat
    BY <1>1 DEF I
  <2> QED BY <1>3, <2>1, NatMinimum
<1>5. k \in 0..Len(lots) /\ Count("BUY", k) # Count("SELL", k) + at[k]
  BY <1>4
<1>6. k # 0
  <2>1. \A side : ShareByShare(SubSeq(lots, 1, 0), side, s) = <<>>
    BY <1>1, SharesAppend
  <2>2. Count("BUY", 0) = 0 /\ Count("SELL", 0) = 0 /\ at[0] = 0
    BY <2>1, EmptySeq DEF Positions
  <2> HIDE DEF Count
  <2> QED BY <1>5, <2>2
<1>7. k \in 1..Len(lots) /\ k - 1 \in 0..Len(lots) /\ ~(k <= k - 1)
  BY <1>1, <1>5, <1>6
<1>8. Count("BUY", k - 1) = Count("SELL", k - 1) + at[k - 1]
  <2> HIDE DEF Count
  <2> QED BY <1>4, <1>7
<1>9. ASSUME NEW side
      PROVE  /\ Count(side, k - 1) \in Nat
             /\ Count(side, k) = Count(side, k - 1) + IF Moves(lots[k], side, s) THEN lots[k].qty ELSE 0
  <2>1. PICK u, t \in Seq(Nat) :
          /\ u = ShareByShare(SubSeq(lots, 1, k - 1), side, s)
          /\ ShareByShare(SubSeq(lots, 1, k), side, s) = u \o t
          /\ Len(t) = IF Moves(lots[k], side, s) THEN lots[k].qty ELSE 0
          /\ Len(u \o t) = Len(u) + Len(t) /\ Len(u) \in Nat
    BY <1>7, OneMoreLot
  <2> QED BY <2>1
<1>10. lots[k].qty \in Nat /\ at[k] = at[k - 1] + Change(lots[k], s)
       /\ at[k] \in Nat /\ at[k - 1] \in Nat
  BY <1>1, <1>7 DEF Positions, LotRecord
<1> HIDE DEF Count
<1>11. CASE Moves(lots[k], "BUY", s)
  <2>1. ~Moves(lots[k], "SELL", s)
    BY <1>11 DEF Moves
  <2> QED BY <1>5, <1>8, <1>9, <1>10, <1>11, <2>1 DEF Change
<1>12. CASE Moves(lots[k], "SELL", s)
  <2>1. ~Moves(lots[k], "BUY", s)
    BY <1>12 DEF Moves
  <2>2. at[k] = at[k - 1] - lots[k].qty
    BY <1>10, <1>12, <2>1 DEF Change
  <2>3. Count("BUY", k) = Count("BUY", k - 1) /\ Count("SELL", k) = Count("SELL", k - 1) + lots[k].qty
    BY <1>9, <1>12, <2>1
  <2> QED BY <1>5, <1>8, <1>9, <1>10, <2>2, <2>3
<1>13. CASE ~Moves(lots[k], "BUY", s) /\ ~Moves(lots[k], "SELL", s)
  BY <1>5, <1>8, <1>9, <1>10, <1>13 DEF Change
<1> QED BY <1>11, <1>12, <1>13

\* The prices paid after the lot at f lie between low and high.
PaidWithin(lots, s, f, low, high) ==
  \A i \in (f + 1)..Len(lots) :
    Moves(lots[i], "BUY", s) => low <= lots[i].price /\ lots[i].price <= high

CostWithin(shares, cost, low, high) ==
  low * (shares * cost.d) <= cost.n /\ cost.n <= high * (shares * cost.d)

\* The position was last flat after the lot at f, and bounds of the prices paid since
\* then bound the average cost.
FlatSince(at, lots, s, f) ==
  /\ f \in 0..Len(lots) /\ at[f] = 0
  /\ \A i \in (f + 1)..Len(lots) : at[i] # 0
  /\ at[Len(lots)] # 0 => \E i \in (f + 1)..Len(lots) : Moves(lots[i], "BUY", s)

CostOK(lots, shares, cost, s) ==
  \E at, f :
    /\ Positions(at, lots, s) /\ at[Len(lots)] = shares
    /\ FlatSince(at, lots, s, f)
    /\ \A low, high \in Nat :
         PaidWithin(lots, s, f, low, high) => CostWithin(shares, cost, low, high)

\* One more lot, if the average cost stays within all bounds that held the cost before
\* and the price.
LEMMA OneMoreCost ==
  ASSUME NEW lots \in Seq(LotRecord), NEW shares, NEW cost, NEW s,
         CostOK(lots, shares, cost, s),
         NEW lot \in LotRecord, NEW left \in Nat, left = shares + Change(lot, s),
         NEW next,
         \A low, high \in Nat :
           /\ CostWithin(shares, cost, low, high)
           /\ Moves(lot, "BUY", s) => low <= lot.price /\ lot.price <= high
           => CostWithin(left, next, low, high),
         left = 0 => next.n = 0 /\ next.d \in Nat
  PROVE  CostOK(Append(lots, lot), left, next, s)
<1>1. PICK n \in Nat : n = Len(lots) /\ \A i \in 1..n : lots[i] \in LotRecord
  BY ElementOfSeq, LenProperties
<1>2. PICK at, f :
        /\ Positions(at, lots, s) /\ at[Len(lots)] = shares
        /\ FlatSince(at, lots, s, f)
        /\ \A low, high \in Nat :
             PaidWithin(lots, s, f, low, high) => CostWithin(shares, cost, low, high)
  BY DEF CostOK
<1>3. PICK more \in Seq(LotRecord) :
        /\ more = Append(lots, lot) /\ Len(more) = n + 1
        /\ more[n + 1] = lot /\ \A i \in 1..n : more[i] = lots[i]
  <2>1. PICK more : more = Append(lots, lot)
    OBVIOUS
  <2>2. /\ more \in Seq(LotRecord) /\ Len(more) = n + 1
        /\ more[n + 1] = lot /\ \A i \in 1..n : more[i] = lots[i]
    BY <1>1, <2>1, AppendProperties
  <2> QED BY <2>1, <2>2
<1>4. /\ at \in [0..n -> Nat] /\ at[0] = 0
      /\ \A i \in 1..n : at[i] = at[i - 1] + Change(lots[i], s)
      /\ shares \in Nat
  <2>1. n \in 0..n
    BY <1>1
  <2> QED BY <1>1, <1>2, <2>1 DEF Positions
<1>5. PICK up_ : up_ = [i \in 0..(n + 1) |-> IF i = n + 1 THEN left ELSE at[i]]
  OBVIOUS
<1>6. up_[n + 1] = left /\ \A i \in 0..n : up_[i] = at[i]
  BY <1>1, <1>5
<1>7. Positions(up_, more, s)
  <2>1. up_ \in [0..(n + 1) -> Nat]
    BY <1>1, <1>4, <1>5
  <2>2. ASSUME NEW i \in 1..(n + 1)
        PROVE  up_[i] = up_[i - 1] + Change(more[i], s)
    <3>1. CASE i = n + 1
      <4>1. n \in 0..n /\ up_[n] = shares /\ i - 1 = n
        BY <1>1, <1>2, <1>6, <3>1
      <4> QED BY <1>3, <1>6, <3>1, <4>1
    <3>2. CASE i # n + 1
      <4>1. i \in 1..n /\ i \in 0..n /\ i - 1 \in 0..n
        BY <1>1, <3>2
      <4> QED BY <1>3, <1>4, <1>6, <4>1
    <3> QED BY <3>1, <3>2
  <2>3. up_[0] = 0
    BY <1>1, <1>4, <1>6
  <2> QED BY <1>3, <2>1, <2>2, <2>3 DEF Positions
<1>8. CASE left = 0
  <2>1. FlatSince(up_, more, s, n + 1)
    BY <1>1, <1>3, <1>6, <1>8 DEF FlatSince
  <2>2. ASSUME NEW low \in Nat, NEW high \in Nat
        PROVE  CostWithin(left, next, low, high)
    BY <1>8 DEF CostWithin
  <2> QED BY <1>3, <1>6, <1>7, <2>1, <2>2 DEF CostOK
<1>9. CASE left # 0
  <2>1. f \in 0..n /\ at[f] = 0 /\ \A i \in (f + 1)..n : at[i] # 0
    BY <1>1, <1>2 DEF FlatSince
  <2>2. f \in 0..(n + 1) /\ up_[f] = 0
    BY <1>1, <1>6, <2>1
  <2>3. ASSUME NEW i \in (f + 1)..(n + 1)
        PROVE  up_[i] # 0
    <3>1. i = n + 1 \/ (i \in (f + 1)..n /\ i \in 0..n)
      BY <1>1, <2>1
    <3> QED BY <1>6, <1>9, <2>1, <3>1
  <2>4. \E i \in (f + 1)..(n + 1) : Moves(more[i], "BUY", s)
    <3>1. CASE shares # 0
      <4>1. PICK i \in (f + 1)..n : Moves(lots[i], "BUY", s)
        BY <1>1, <1>2, <3>1 DEF FlatSince
      <4>2. i \in (f + 1)..(n + 1) /\ i \in 1..n
        BY <1>1, <2>1, <4>1
      <4> QED BY <1>3, <4>1, <4>2
    <3>2. CASE shares = 0
      <4>1. Moves(lot, "BUY", s)
        <5>1. lot.qty \in Nat
          BY DEF LotRecord
        <5> QED BY <1>9, <3>2, <5>1 DEF Change
      <4>2. n + 1 \in (f + 1)..(n + 1)
        BY <1>1, <2>1
      <4> QED BY <1>3, <4>1, <4>2
    <3> QED BY <3>1, <3>2
  <2>5. FlatSince(up_, more, s, f)
    BY <1>3, <1>6, <2>2, <2>3, <2>4 DEF FlatSince
  <2>6. ASSUME NEW low \in Nat, NEW high \in Nat, PaidWithin(more, s, f, low, high)
        PROVE  CostWithin(left, next, low, high)
    <3>1. PaidWithin(lots, s, f, low, high)
      <4>1. \A i \in (f + 1)..n : i \in 1..n /\ i \in (f + 1)..(n + 1)
        BY <1>1, <2>1
      <4> QED BY <1>1, <1>3, <2>6, <4>1 DEF PaidWithin
    <3>2. Moves(lot, "BUY", s) => low <= lot.price /\ lot.price <= high
      <4>1. n + 1 \in (f + 1)..(n + 1)
        BY <1>1, <2>1
      <4> QED BY <1>3, <2>6, <4>1 DEF PaidWithin
    <3> QED BY <1>2, <3>1, <3>2
  <2> QED BY <1>3, <1>6, <1>7, <2>5, <2>6 DEF CostOK
<1> QED BY <1>8, <1>9

\* Arithmetic of the two sides of a settlement.
LEMMA TimesMonotone ==
  ASSUME NEW x \in Nat, NEW y \in Nat, NEW k \in Nat, x <= y
  PROVE  x * k <= y * k
<1>1. PICK z \in Nat : y = x + z
  <2>1. y - x \in Nat /\ y = x + (y - x)
    OBVIOUS
  <2> QED BY <2>1
<1>2. y * k = x * k + z * k
  BY <1>1
<1>3. z * k \in Nat /\ x * k \in Nat
  OBVIOUS
<1> QED BY <1>2, <1>3

LEMMA CostBought ==
  ASSUME NEW h \in Nat, NEW n \in Nat, NEW d \in Nat, NEW p \in Nat, NEW q \in Nat,
         NEW low \in Nat, NEW high \in Nat,
         low * (h * d) <= n, n <= high * (h * d), low <= p, p <= high
  PROVE  /\ low * ((h + q) * d) <= n + p * q * d
         /\ n + p * q * d <= high * ((h + q) * d)
<1>1. q * d \in Nat /\ h * d \in Nat /\ p * q * d = p * (q * d)
  OBVIOUS
<1>2. (h + q) * d = h * d + q * d
  OBVIOUS
<1>3. PICK a \in Nat, b \in Nat : a = h * d /\ b = q * d
  BY <1>1
<1>4. low * (a + b) = low * a + low * b /\ high * (a + b) = high * a + high * b
  OBVIOUS
<1>5. low * b <= p * b /\ p * b <= high * b
  BY TimesMonotone
<1>6. low * a \in Nat /\ low * b \in Nat /\ high * a \in Nat /\ high * b \in Nat /\ p * b \in Nat
  OBVIOUS
<1>7. p * q * d = p * b /\ (h + q) * d = a + b /\ low * a <= n /\ n <= high * a
  BY <1>1, <1>2, <1>3
<1>8. low * a + low * b <= n + p * b /\ n + p * b <= high * a + high * b
  BY <1>5, <1>6, <1>7
<1> QED BY <1>4, <1>7, <1>8

LEMMA CostSold ==
  ASSUME NEW h \in Nat, NEW n \in Nat, NEW d \in Nat, NEW left \in Nat,
         NEW low \in Nat, NEW high \in Nat,
         low * (h * d) <= n, n <= high * (h * d)
  PROVE  /\ low * (left * (d * h)) <= n * left
         /\ n * left <= high * (left * (d * h))
<1>1. PICK x \in Nat, y \in Nat : x = low * (h * d) /\ y = high * (h * d)
  <2>1. h * d \in Nat
    OBVIOUS
  <2>2. \A u, v \in Nat : u * v \in Nat
    OBVIOUS
  <2> QED BY <2>1, <2>2
<1>2. x * left <= n * left /\ n * left <= y * left
  BY <1>1, TimesMonotone
<1>3. low * (left * (d * h)) = low * (h * d) * left /\ high * (left * (d * h)) = high * (h * d) * left
  OBVIOUS
<1> QED BY <1>1, <1>2, <1>3

AccountRecord ==
  [cash : Int, held : [Symbols -> Nat], cost : [Symbols -> [n : Nat, d : Nat]],
   lots : Seq(LotRecord), flows : Seq(Int)]

CostsOK(account) ==
  \A s \in Symbols : CostOK(account.lots, account.held[s], account.cost[s], s)

LEMMA LotIsRecord ==
  ASSUME NEW side \in {"BUY", "SELL"}, NEW s \in Symbols, NEW price \in Nat,
         NEW qty \in Nat \ {0}
  PROVE  /\ Lot(side, s, price, qty) \in LotRecord
         /\ \A t \in Symbols :
              /\ t = s /\ side = "BUY" => Change(Lot(side, s, price, qty), t) = qty
              /\ t = s /\ side = "SELL" => Change(Lot(side, s, price, qty), t) = -qty
              /\ t # s => Change(Lot(side, s, price, qty), t) = 0
              /\ Moves(Lot(side, s, price, qty), "BUY", t) <=> side = "BUY" /\ t = s
<1>1. PICK lot : lot = Lot(side, s, price, qty)
  OBVIOUS
<1>2. lot.side = side /\ lot.symbol = s /\ lot.price = price /\ lot.qty = qty /\ lot \in LotRecord
  BY <1>1 DEF Lot, LotRecord
<1>3. \A t \in Symbols : /\ Moves(lot, "BUY", t) <=> side = "BUY" /\ t = s
                         /\ Moves(lot, "SELL", t) <=> side = "SELL" /\ t = s
  BY <1>2 DEF Moves
<1>4. ASSUME NEW t \in Symbols
      PROVE  /\ t = s /\ side = "BUY" => Change(lot, t) = qty
             /\ t = s /\ side = "SELL" => Change(lot, t) = -qty
             /\ t # s => Change(lot, t) = 0
  BY <1>2, <1>3 DEF Change
<1> QED BY <1>1, <1>2, <1>3, <1>4

LEMMA NewAccountOK ==
  NewAccount \in AccountRecord /\ CostsOK(NewAccount)
<1>1. PICK new : new = NewAccount
  OBVIOUS
<1>2. /\ new.cash = 0 /\ new.lots = <<>> /\ new.flows = <<>>
      /\ new.held = [s \in Symbols |-> 0] /\ new.cost = [s \in Symbols |-> Free]
  BY <1>1 DEF NewAccount
<1>3. Free \in [n : Nat, d : Nat] /\ Free.n = 0
  BY DEF Free
<1>4. <<>> \in Seq(LotRecord) /\ <<>> \in Seq(Int) /\ Len(<<>>) = 0
  BY EmptySeq
<1>5. new \in AccountRecord
  <2>1. new.held \in [Symbols -> Nat] /\ new.cost \in [Symbols -> [n : Nat, d : Nat]]
    BY <1>2, <1>3
  <2> QED BY <1>1, <1>2, <1>3, <1>4 DEF AccountRecord, NewAccount
<1>6. ASSUME NEW s \in Symbols
      PROVE  CostOK(new.lots, new.held[s], new.cost[s], s)
  <2>1. PICK at : at = [i \in 0..0 |-> 0]
    OBVIOUS
  <2>2. at \in [0..0 -> Nat] /\ at[0] = 0
    BY <2>1
  <2>3. Positions(at, <<>>, s) /\ at[Len(<<>>)] = 0
    BY <1>4, <2>2 DEF Positions
  <2>4. FlatSince(at, <<>>, s, 0)
    BY <1>4, <2>2 DEF FlatSince
  <2>5. \A low, high \in Nat : CostWithin(0, Free, low, high)
    BY DEF CostWithin, Free
  <2>6. new.held[s] = 0 /\ new.cost[s] = Free
    BY <1>2
  <2> QED BY <1>2, <2>3, <2>4, <2>5, <2>6 DEF CostOK
<1> QED BY <1>1, <1>5, <1>6 DEF CostsOK

\* A flat position has cost nothing: no price was paid since it was flat.
LEMMA FlatCostsNothing ==
  ASSUME NEW lots \in Seq(LotRecord), NEW cost, NEW s, CostOK(lots, 0, cost, s)
  PROVE  CostWithin(0, cost, 0, 0)
<1>1. PICK at, f :
        /\ Positions(at, lots, s) /\ at[Len(lots)] = 0
        /\ FlatSince(at, lots, s, f)
        /\ \A low, high \in Nat :
             PaidWithin(lots, s, f, low, high) => CostWithin(0, cost, low, high)
  BY DEF CostOK
<1>2. Len(lots) \in Nat
  BY LenProperties
<1>3. f = Len(lots)
  <2>1. f \in 0..Len(lots) /\ (f # Len(lots) => Len(lots) \in (f + 1)..Len(lots))
    BY <1>1, <1>2 DEF FlatSince
  <2> QED BY <1>1, <2>1 DEF FlatSince
<1>4. PaidWithin(lots, s, f, 0, 0)
  BY <1>2, <1>3 DEF PaidWithin
<1> QED BY <1>1, <1>4

\* A lot of another symbol changes nothing.
LEMMA CostStays ==
  ASSUME NEW lots \in Seq(LotRecord), NEW shares \in Nat, NEW s,
         NEW cost \in [n : Nat, d : Nat], CostOK(lots, shares, cost, s),
         NEW lot \in LotRecord, Change(lot, s) = 0
  PROVE  CostOK(Append(lots, lot), shares, cost, s)
<1>1. shares = 0 => cost.n = 0 /\ cost.d \in Nat
  <2>1. CASE shares = 0
    BY <2>1, FlatCostsNothing DEF CostWithin
  <2> QED BY <2>1
<1>2. shares = shares + Change(lot, s)
  OBVIOUS
<1>3. \A low, high \in Nat :
        /\ CostWithin(shares, cost, low, high)
        /\ Moves(lot, "BUY", s) => low <= lot.price /\ lot.price <= high
        => CostWithin(shares, cost, low, high)
  OBVIOUS
<1> QED BY <1>1, <1>2, <1>3, OneMoreCost

LEMMA OneChanged ==
  ASSUME NEW A, NEW T, NEW f \in [A -> T], NEW x \in A, NEW y \in T,
         NEW g, g = [f EXCEPT ![x] = y]
  PROVE  g \in [A -> T] /\ g[x] = y /\ \A z \in A : z # x => g[z] = f[z]
OBVIOUS

\* What a purchase does to an account, its cost basis aside.
BuyDone(account, after, s, price, qty) ==
  /\ after.held = [account.held EXCEPT ![s] = @ + qty]
  /\ after.cash = account.cash - price * qty
  /\ after.flows = account.flows
  /\ after.lots = Append(account.lots, Lot("BUY", s, price, qty))

LEMMA BoughtCosts ==
  ASSUME NEW account \in AccountRecord, CostsOK(account), NEW s \in Symbols,
         NEW price \in Nat, NEW qty \in Nat \ {0}
  PROVE  /\ Bought(account, s, price, qty) \in AccountRecord
         /\ CostsOK(Bought(account, s, price, qty))
         /\ BuyDone(account, Bought(account, s, price, qty), s, price, qty)
<1>1. /\ account.cash \in Int /\ account.held \in [Symbols -> Nat]
      /\ account.cost \in [Symbols -> [n : Nat, d : Nat]]
      /\ account.lots \in Seq(LotRecord) /\ account.flows \in Seq(Int)
  BY DEF AccountRecord
<1>2. PICK lot \in LotRecord :
        /\ lot = Lot("BUY", s, price, qty)
        /\ \A t \in Symbols : /\ Change(lot, t) = IF t = s THEN qty ELSE 0
                              /\ Moves(lot, "BUY", t) <=> t = s
        /\ lot.price = price
  <2>1. Lot("BUY", s, price, qty).price = price
    BY DEF Lot
  <2> QED BY <2>1, LotIsRecord
<1>3. PICK n \in Nat, d \in Nat, h \in Nat :
        n = account.cost[s].n /\ d = account.cost[s].d /\ h = account.held[s]
  BY <1>1
<1>4. PICK next : next = [n |-> n + price * qty * d, d |-> d]
  OBVIOUS
<1>5. PICK total \in Nat : total = price * qty
  OBVIOUS
<1>6. next \in [n : Nat, d : Nat]
      /\ next = [n |-> account.cost[s].n + price * qty * account.cost[s].d,
                 d |-> account.cost[s].d]
  <2>1. PICK spent \in Nat : spent = price * qty * d
    <3>1. total * d \in Nat
      OBVIOUS
    <3> QED BY <1>5, <3>1
  <2>2. next = [n |-> n + spent, d |-> d] /\ n + spent \in Nat
    BY <1>4, <2>1
  <2> QED BY <1>3, <1>4, <2>2
<1>7. PICK costs : /\ costs = [account.cost EXCEPT ![s] = next]
                   /\ costs = [account.cost EXCEPT ![s] = [n |-> @.n + price * qty * @.d, d |-> @.d]]
                   /\ costs \in [Symbols -> [n : Nat, d : Nat]] /\ costs[s] = next
                   /\ \A t \in Symbols : t # s => costs[t] = account.cost[t]
  <2>1. PICK costs : costs = [account.cost EXCEPT ![s] = next]
    OBVIOUS
  <2>2. costs \in [Symbols -> [n : Nat, d : Nat]] /\ costs[s] = next
        /\ \A t \in Symbols : t # s => costs[t] = account.cost[t]
    <3>1. next \in [n : Nat, d : Nat] /\ account.cost \in [Symbols -> [n : Nat, d : Nat]]
      BY <1>1, <1>6
    <3> QED BY <2>1, <3>1, OneChanged
  <2>3. costs = [account.cost EXCEPT ![s] = [n |-> @.n + price * qty * @.d, d |-> @.d]]
    BY <1>6, <2>1, Zenon
  <2> QED BY <2>1, <2>2, <2>3
<1>8. PICK shares : /\ shares = [account.held EXCEPT ![s] = @ + qty]
                    /\ shares \in [Symbols -> Nat] /\ shares[s] = h + qty
                    /\ \A t \in Symbols : t # s => shares[t] = account.held[t]
  <2>1. PICK shares : shares = [account.held EXCEPT ![s] = h + qty]
    OBVIOUS
  <2>2. shares \in [Symbols -> Nat] /\ shares[s] = h + qty
        /\ \A t \in Symbols : t # s => shares[t] = account.held[t]
    BY <1>1, <2>1
  <2>3. shares = [account.held EXCEPT ![s] = @ + qty]
    BY <1>3, <2>1
  <2> QED BY <2>1, <2>2, <2>3
<1>9. PICK cash \in Int : cash = account.cash - price * qty
  BY <1>1, <1>5
<1>10. PICK lots \in Seq(LotRecord) : lots = Append(account.lots, lot)
  BY <1>1, AppendProperties
<1>11. PICK bought : bought = Bought(account, s, price, qty)
  OBVIOUS
<1>12. bought = [cash |-> cash, held |-> shares, cost |-> costs, lots |-> lots,
                 flows |-> account.flows]
  <2>1. bought = [account EXCEPT !.cash = cash, !.held = shares, !.cost = costs, !.lots = lots]
    BY <1>2, <1>7, <1>8, <1>9, <1>10, <1>11, ZenonT(30) DEF Bought
  <2> QED BY <2>1 DEF AccountRecord
<1>13. /\ bought.cash = cash /\ bought.held = shares /\ bought.cost = costs
       /\ bought.lots = lots /\ bought.flows = account.flows /\ bought \in AccountRecord
  BY <1>1, <1>7, <1>8, <1>12 DEF AccountRecord
<1>14. ASSUME NEW t \in Symbols
       PROVE  CostOK(lots, shares[t], costs[t], t)
  <2>1. CostOK(account.lots, account.held[t], account.cost[t], t)
    BY DEF CostsOK
  <2>2. shares[t] \in Nat /\ shares[t] = account.held[t] + Change(lot, t)
    BY <1>1, <1>2, <1>3, <1>8, SMTT(20)
  <2>3. CASE t = s
    <3>1. shares[t] = h + qty /\ costs[t] = next /\ h + qty # 0
      BY <1>7, <1>8, <2>3
    <3>2. ASSUME NEW low \in Nat, NEW high \in Nat,
                 CostWithin(account.held[t], account.cost[t], low, high),
                 low <= price, price <= high
          PROVE  CostWithin(h + qty, next, low, high)
      <4>1. low * (h * d) <= n /\ n <= high * (h * d)
        BY <1>3, <2>3, <3>2 DEF CostWithin
      <4>2. /\ low * ((h + qty) * d) <= n + price * qty * d
            /\ n + price * qty * d <= high * ((h + qty) * d)
        BY <3>2, <4>1, CostBought
      <4> QED BY <1>4, <4>2 DEF CostWithin
    <3>3. \A low, high \in Nat :
            /\ CostWithin(account.held[t], account.cost[t], low, high)
            /\ Moves(lot, "BUY", t) => low <= lot.price /\ lot.price <= high
            => CostWithin(shares[t], next, low, high)
      BY <1>2, <2>3, <3>1, <3>2
    <3>4. CostOK(Append(account.lots, lot), shares[t], next, t)
      BY <1>1, <2>1, <2>2, <3>1, <3>3, OneMoreCost
    <3> QED BY <1>10, <3>1, <3>4
  <2>4. CASE t # s
    BY <1>1, <1>2, <1>7, <1>8, <1>10, <2>1, <2>2, <2>4, CostStays
  <2> QED BY <2>3, <2>4
<1>15. CostsOK(bought)
  BY <1>13, <1>14 DEF CostsOK
<1>16. BuyDone(account, bought, s, price, qty)
  BY <1>2, <1>8, <1>9, <1>10, <1>13, Zenon DEF BuyDone
<1> QED BY <1>11, <1>13, <1>15, <1>16, Zenon

\* What a sale does to an account, its cost basis aside.
SellDone(account, after, s, price, qty) ==
  /\ after.held = [account.held EXCEPT ![s] = @ - qty]
  /\ after.cash = account.cash + price * qty
  /\ after.flows = account.flows
  /\ after.lots = Append(account.lots, Lot("SELL", s, price, qty))

LEMMA SoldCosts ==
  ASSUME NEW account \in AccountRecord, CostsOK(account), NEW s \in Symbols,
         NEW price \in Nat, NEW qty \in Nat \ {0}, account.held[s] >= qty
  PROVE  /\ Sold(account, s, price, qty) \in AccountRecord
         /\ CostsOK(Sold(account, s, price, qty))
         /\ SellDone(account, Sold(account, s, price, qty), s, price, qty)
<1>1. /\ account.cash \in Int /\ account.held \in [Symbols -> Nat]
      /\ account.cost \in [Symbols -> [n : Nat, d : Nat]]
      /\ account.lots \in Seq(LotRecord) /\ account.flows \in Seq(Int)
  BY DEF AccountRecord
<1>2. PICK lot \in LotRecord :
        /\ lot = Lot("SELL", s, price, qty)
        /\ \A t \in Symbols : /\ Change(lot, t) = IF t = s THEN -qty ELSE 0
                              /\ ~Moves(lot, "BUY", t)
  BY LotIsRecord
<1>3. PICK n \in Nat, d \in Nat, h \in Nat :
        n = account.cost[s].n /\ d = account.cost[s].d /\ h = account.held[s]
  BY <1>1
<1>4. PICK left \in Nat : left = h - qty /\ left = account.held[s] - qty
  BY <1>3
<1>5. PICK total \in Nat : total = price * qty
  OBVIOUS
<1>6. PICK next \in [n : Nat, d : Nat] :
        /\ next = IF left > 0 THEN [n |-> n * left, d |-> d * h] ELSE Free
        /\ next = IF left > 0
                  THEN [n |-> account.cost[s].n * left, d |-> account.cost[s].d * account.held[s]]
                  ELSE Free
  <2>1. n * left \in Nat /\ d * h \in Nat
    OBVIOUS
  <2>2. Free \in [n : Nat, d : Nat]
    BY DEF Free
  <2> QED BY <1>3, <2>1, <2>2
<1>7. PICK costs : /\ costs = [account.cost EXCEPT
                                 ![s] = IF account.held[s] - qty > 0
                                        THEN [n |-> @.n * (account.held[s] - qty),
                                              d |-> @.d * account.held[s]]
                                        ELSE Free]
                   /\ costs \in [Symbols -> [n : Nat, d : Nat]] /\ costs[s] = next
                   /\ \A t \in Symbols : t # s => costs[t] = account.cost[t]
  <2>1. PICK costs : costs = [account.cost EXCEPT ![s] = next]
    OBVIOUS
  <2>2. costs \in [Symbols -> [n : Nat, d : Nat]] /\ costs[s] = next
        /\ \A t \in Symbols : t # s => costs[t] = account.cost[t]
    <3>1. next \in [n : Nat, d : Nat] /\ account.cost \in [Symbols -> [n : Nat, d : Nat]]
      BY <1>1, <1>6
    <3> QED BY <2>1, <3>1, OneChanged
  <2>3. costs = [account.cost EXCEPT
                   ![s] = IF account.held[s] - qty > 0
                          THEN [n |-> @.n * (account.held[s] - qty),
                                d |-> @.d * account.held[s]]
                          ELSE Free]
    BY <1>4, <1>6, <2>1, Zenon
  <2> QED BY <2>1, <2>2, <2>3
<1>8. PICK shares : /\ shares = [account.held EXCEPT ![s] = account.held[s] - qty]
                    /\ shares = [account.held EXCEPT ![s] = @ - qty]
                    /\ shares \in [Symbols -> Nat] /\ shares[s] = left
                    /\ \A t \in Symbols : t # s => shares[t] = account.held[t]
  <2>1. PICK shares : shares = [account.held EXCEPT ![s] = left]
    OBVIOUS
  <2>2. shares \in [Symbols -> Nat] /\ shares[s] = left
        /\ \A t \in Symbols : t # s => shares[t] = account.held[t]
    BY <1>1, <2>1
  <2>3. shares = [account.held EXCEPT ![s] = @ - qty]
    BY <1>4, <2>1
  <2>4. shares = [account.held EXCEPT ![s] = account.held[s] - qty]
    BY <1>4, <2>1
  <2> QED BY <2>1, <2>2, <2>3, <2>4
<1>9. PICK cash \in Int : cash = account.cash + price * qty
  BY <1>1, <1>5
<1>10. PICK lots \in Seq(LotRecord) : lots = Append(account.lots, lot)
  BY <1>1, AppendProperties
<1>11. PICK sold : sold = Sold(account, s, price, qty)
  OBVIOUS
<1>12. sold = [cash |-> cash, held |-> shares, cost |-> costs, lots |-> lots,
               flows |-> account.flows]
  <2>1. sold = [account EXCEPT !.cash = cash, !.held = shares, !.cost = costs, !.lots = lots]
    BY <1>2, <1>7, <1>8, <1>9, <1>10, <1>11, ZenonT(30) DEF Sold
  <2> QED BY <2>1 DEF AccountRecord
<1>13. /\ sold.cash = cash /\ sold.held = shares /\ sold.cost = costs
       /\ sold.lots = lots /\ sold.flows = account.flows /\ sold \in AccountRecord
  BY <1>1, <1>7, <1>8, <1>12 DEF AccountRecord
<1>14. ASSUME NEW t \in Symbols
       PROVE  CostOK(lots, shares[t], costs[t], t)
  <2>1. CostOK(account.lots, account.held[t], account.cost[t], t)
    BY DEF CostsOK
  <2>2. shares[t] \in Nat /\ shares[t] = account.held[t] + Change(lot, t)
    <3>1. CASE t = s
      <4>1. Change(lot, t) = -qty /\ shares[t] = left /\ account.held[t] = h
        BY <1>2, <1>3, <1>8, <3>1
      <4> QED BY <1>4, <4>1
    <3>2. CASE t # s
      BY <1>1, <1>2, <1>8, <3>2
    <3> QED BY <3>1, <3>2
  <2>3. CASE t = s
    <3>1. shares[t] = left /\ costs[t] = next
      BY <1>7, <1>8, <2>3
    <3>2. left = 0 => next.n = 0 /\ next.d \in Nat
      BY <1>6 DEF Free
    <3>3. ASSUME NEW low \in Nat, NEW high \in Nat,
                 CostWithin(account.held[t], account.cost[t], low, high)
          PROVE  CostWithin(left, next, low, high)
      <4>1. low * (h * d) <= n /\ n <= high * (h * d)
        BY <1>3, <2>3, <3>3 DEF CostWithin
      <4>2. /\ low * (left * (d * h)) <= n * left
            /\ n * left <= high * (left * (d * h))
        BY <4>1, CostSold
      <4>3. CASE left > 0
        BY <1>6, <4>2, <4>3 DEF CostWithin
      <4>4. CASE left = 0
        <5>1. next.n = 0 /\ next.d = 1 /\ low * (0 * 1) = 0 /\ high * (0 * 1) = 0
          BY <1>6, <4>4 DEF Free
        <5> QED BY <4>4, <5>1 DEF CostWithin
      <4> QED BY <4>3, <4>4
    <3>4. \A low, high \in Nat :
            /\ CostWithin(account.held[t], account.cost[t], low, high)
            /\ Moves(lot, "BUY", t) => low <= lot.price /\ lot.price <= high
            => CostWithin(shares[t], next, low, high)
      BY <3>1, <3>3
    <3>5. CostOK(Append(account.lots, lot), shares[t], next, t)
      BY <1>1, <2>1, <2>2, <3>1, <3>2, <3>4, OneMoreCost
    <3> QED BY <1>10, <3>1, <3>5
  <2>4. CASE t # s
    BY <1>1, <1>2, <1>7, <1>8, <1>10, <2>1, <2>2, <2>4, CostStays
  <2> QED BY <2>3, <2>4
<1>15. CostsOK(sold)
  BY <1>13, <1>14 DEF CostsOK
<1>16. SellDone(account, sold, s, price, qty)
  BY <1>2, <1>8, <1>9, <1>10, <1>13, Zenon DEF SellDone
<1> QED BY <1>11, <1>13, <1>15, <1>16, Zenon

LEMMA NatMaximum ==
  ASSUME NEW P \in SUBSET Nat, P # {}, NEW m \in Nat, \A p \in P : p <= m
  PROVE  \E p \in P : \A q \in P : p >= q
<1> DEFINE I == { m - p : p \in P }
<1>1. I \in SUBSET Nat /\ I # {}
  <2>1. \A p \in P : m - p \in Nat
    OBVIOUS
  <2> QED BY <2>1
<1>2. PICK i \in I : \A j \in I : i <= j
  <2> HIDE DEF I
  <2> QED BY <1>1, NatMinimum
<1>3. PICK p \in P : i = m - p
  BY <1>2
<1>4. ASSUME NEW q \in P
      PROVE  p >= q
  <2>1. i <= m - q
    BY <1>2
  <2>2. p \in Nat /\ q \in Nat
    OBVIOUS
  <2> QED BY <1>3, <2>1, <2>2
<1> QED BY <1>4

\* A list of prices has a lowest and a highest.
LEMMA LowestAndHighest ==
  ASSUME NEW lots \in Seq(LotRecord), NEW K \in SUBSET (1..Len(lots)), K # {},
         NEW P, P = { lots[i].price : i \in K }
  PROVE  /\ Min(P) \in P /\ Max(P) \in P /\ P \subseteq Nat
         /\ \A p \in P : Min(P) <= p /\ p <= Max(P)
<1>1. \A i \in 1..Len(lots) : lots[i].price \in Nat
  <2>1. \A i \in 1..Len(lots) : lots[i] \in LotRecord
    BY ElementOfSeq
  <2> QED BY <2>1 DEF LotRecord
<1>2. P \in SUBSET Nat /\ P # {}
  BY <1>1
<1>3. \E m \in P : \A p \in P : m <= p
  BY <1>2, NatMinimum
<1> DEFINE Covers(n) == \E m \in Nat : \A i \in K : i <= n => lots[i].price <= m
           I == { n \in Nat : n <= Len(lots) /\ ~Covers(n) }
<1>4. Len(lots) \in Nat
  BY LenProperties
<1>5. I = {}
  <2>1. SUFFICES ASSUME I # {} PROVE FALSE
    OBVIOUS
  <2>2. PICK k \in I : \A i \in I : k <= i
    <3> HIDE DEF I
    <3>1. I \in SUBSET Nat
      BY DEF I
    <3> QED BY <2>1, <3>1, NatMinimum
  <2>3. k \in Nat /\ k <= Len(lots) /\ ~Covers(k)
    BY <2>2
  <2>4. \A i \in Nat : i <= Len(lots) /\ ~Covers(i) => k <= i
    BY <2>2
  <2> HIDE DEF I
  <2>5. k # 0
    <3>1. \A i \in K : ~(i <= 0)
      BY <1>4
    <3>2. Covers(0)
      BY <3>1
    <3> HIDE DEF Covers
    <3> QED BY <2>3, <3>2
  <2>6. Covers(k - 1)
    <3>1. k - 1 \in Nat /\ k - 1 <= Len(lots) /\ ~(k <= k - 1)
      BY <1>4, <2>3, <2>5
    <3> HIDE DEF Covers
    <3> QED BY <2>4, <3>1
  <2>7. PICK m \in Nat : \A i \in K : i <= k - 1 => lots[i].price <= m
    BY <2>6
  <2>8. k \in 1..Len(lots) /\ lots[k].price \in Nat
    BY <1>1, <1>4, <2>3, <2>5
  <2>9. PICK top \in Nat : m <= top /\ lots[k].price <= top
    <3>1. PICK c \in Nat : c = lots[k].price
      BY <2>8
    <3>2. m <= m + c /\ c <= m + c /\ m + c \in Nat
      OBVIOUS
    <3> QED BY <3>1, <3>2
  <2>10. ASSUME NEW i \in K, i <= k
         PROVE  lots[i].price <= top
    <3>1. PICK c \in Nat : c = lots[i].price
      BY <1>1
    <3>2. i = k \/ i <= k - 1
      BY <2>3, <2>10
    <3>3. i <= k - 1 => c <= m
      BY <2>7, <3>1
    <3>4. i = k => c <= top
      BY <2>9, <3>1
    <3> QED BY <2>9, <3>1, <3>2, <3>3, <3>4
  <2>11. Covers(k)
    BY <2>10
  <2> HIDE DEF Covers
  <2> QED BY <2>3, <2>11
<1>6. Covers(Len(lots))
  <2> HIDE DEF Covers
  <2> QED BY <1>4, <1>5
<1>7. PICK m \in Nat : \A p \in P : p <= m
  <2>1. PICK m \in Nat : \A i \in K : i <= Len(lots) => lots[i].price <= m
    BY <1>6
  <2>2. \A i \in K : i <= Len(lots)
    BY <1>4
  <2>3. \A p \in P : p <= m
    BY <2>1, <2>2
  <2> QED BY <2>3
<1>8. \E p \in P : \A q \in P : p >= q
  BY <1>2, <1>7, NatMaximum
<1>9. Min(P) \in P /\ \A p \in P : Min(P) <= p
  BY <1>3 DEF Min
<1>10. Max(P) \in P /\ \A p \in P : Max(P) >= p
  BY <1>8 DEF Max
<1> QED BY <1>2, <1>9, <1>10

LEMMA PaidSinceFlat ==
  ASSUME NEW lots \in Seq(LotRecord), NEW s, NEW at, NEW f,
         Positions(at, lots, s), FlatSince(at, lots, s, f)
  PROVE  LET paid == Range(ShareByShare(SinceFlat(lots, s), "BUY", s))
         IN  at[Len(lots)] # 0 =>
               /\ Min(paid) \in Nat /\ Max(paid) \in Nat
               /\ PaidWithin(lots, s, f, Min(paid), Max(paid))
<1>1. PICK n \in Nat : n = Len(lots) /\ \A i \in 1..n : lots[i] \in LotRecord
  BY ElementOfSeq, LenProperties
<1> DEFINE Moved(side, i) == Len(ShareByShare(SubSeq(lots, 1, i), side, s))
           F == { i \in 0..Len(lots) : Moved("BUY", i) = Moved("SELL", i) }
<1>2. F = { i \in 0..n : at[i] = 0 }
  <2>1. ASSUME NEW i \in 0..n
        PROVE  Moved("BUY", i) = Moved("SELL", i) <=> at[i] = 0
    <3>1. Moved("BUY", i) = Moved("SELL", i) + at[i]
      BY <1>1, PositionIsBalance
    <3>2. at[i] \in Nat
      BY <1>1 DEF Positions
    <3>3. Moved("SELL", i) \in Nat
      <4>1. SubSeq(lots, 1, i) \in Seq(LotRecord)
        BY <1>1, Beginnings
      <4>2. ShareByShare(SubSeq(lots, 1, i), "SELL", s) \in Seq(Nat)
        BY <4>1, SharesAppend
      <4> QED BY <4>2, LenProperties
    <3> HIDE DEF Moved
    <3> QED BY <3>1, <3>2, <3>3
  <2> HIDE DEF Moved
  <2> QED BY <1>1, <2>1
<1>3. f \in 0..n /\ at[f] = 0 /\ \A i \in (f + 1)..n : at[i] # 0
  BY <1>1 DEF FlatSince
<1>4. Max(F) = f
  <2>1. f \in F /\ \A i \in F : f >= i
    BY <1>1, <1>2, <1>3
  <2>2. F \subseteq Int
    BY <1>1, <1>2
  <2> HIDE DEF F
  <2>3. \E x \in F : \A y \in F : x >= y
    BY <2>1
  <2>4. Max(F) \in F /\ \A y \in F : Max(F) >= y
    BY <2>3 DEF Max
  <2>5. PICK m \in Int : m = Max(F)
    BY <2>2, <2>4
  <2>6. f \in Int /\ f >= m /\ m >= f
    BY <2>1, <2>2, <2>4, <2>5
  <2> QED BY <2>5, <2>6
<1>5. PICK sub : sub = SubSeq(lots, f + 1, n)
  OBVIOUS
<1>6. SinceFlat(lots, s) = sub
  <2>1. SinceFlat(lots, s) = SubSeq(lots, Max(F) + 1, Len(lots))
    BY DEF SinceFlat
  <2> QED BY <1>1, <1>4, <1>5, <2>1
<1>7. /\ sub \in Seq(LotRecord) /\ Len(sub) = n - f
      /\ \A i \in 1..(n - f) : sub[i] = lots[f + i]
  <2>1. f + 1 \in Int /\ n \in Int /\ \A i \in (f + 1)..n : lots[i] \in LotRecord
    BY <1>1, <1>3
  <2>2. /\ sub \in Seq(LotRecord) /\ Len(sub) = IF f + 1 <= n THEN n - (f + 1) + 1 ELSE 0
        /\ \A i \in 1..(n - (f + 1) + 1) : sub[i] = lots[f + 1 + i - 1]
    BY <1>5, <2>1, SubSeqProperties
  <2>3. Len(sub) = n - f
    BY <1>1, <1>3, <2>2
  <2>4. \A i \in 1..(n - f) : i \in 1..(n - (f + 1) + 1) /\ f + 1 + i - 1 = f + i
    BY <1>1, <1>3
  <2> QED BY <2>2, <2>3, <2>4
<1>8. PICK paid : paid = Range(ShareByShare(sub, "BUY", s))
  OBVIOUS
<1> DEFINE K == { j \in DOMAIN sub : Moves(sub[j], "BUY", s) }
<1>9. paid = { sub[i].price : i \in K }
  BY <1>7, <1>8, MovedPrices
<1>10. K \in SUBSET (1..Len(sub))
  BY <1>7, LenProperties
<1>11. \A i \in (f + 1)..n : i - f \in 1..(n - f) /\ sub[i - f] = lots[i]
  BY <1>1, <1>3, <1>7
<1>12. SUFFICES ASSUME at[n] # 0
                PROVE  /\ Min(paid) \in Nat /\ Max(paid) \in Nat
                       /\ PaidWithin(lots, s, f, Min(paid), Max(paid))
  BY <1>1, <1>6, <1>8
<1>13. K # {}
  <2>1. PICK i \in (f + 1)..n : Moves(lots[i], "BUY", s)
    BY <1>1, <1>12 DEF FlatSince
  <2>2. i - f \in DOMAIN sub
    BY <1>7, <1>11, LenProperties
  <2> QED BY <1>11, <2>1, <2>2
<1>14. /\ Min(paid) \in paid /\ Max(paid) \in paid /\ paid \subseteq Nat
       /\ \A p \in paid : Min(paid) <= p /\ p <= Max(paid)
  <2> HIDE DEF K
  <2> QED BY <1>7, <1>9, <1>10, <1>13, LowestAndHighest
<1>15. ASSUME NEW i \in (f + 1)..n, Moves(lots[i], "BUY", s)
       PROVE  Min(paid) <= lots[i].price /\ lots[i].price <= Max(paid)
  <2>1. i - f \in K
    BY <1>7, <1>11, <1>15, LenProperties
  <2>2. lots[i].price \in paid
    <3> HIDE DEF K
    <3> QED BY <1>9, <1>11, <2>1
  <2> QED BY <1>14, <2>2
<1> QED BY <1>1, <1>14, <1>15 DEF PaidWithin

LEMMA CostsInRange ==
  ASSUME NEW account \in AccountRecord, CostsOK(account), NEW s \in Symbols
  PROVE  LET shares == account.held[s]
             cost == account.cost[s]
             paid == Range(ShareByShare(SinceFlat(account.lots, s), "BUY", s))
         IN  IF shares = 0 THEN cost.n = 0
             ELSE /\ Min(paid) * shares * cost.d <= cost.n
                  /\ cost.n <= Max(paid) * shares * cost.d
<1>1. PICK lots \in Seq(LotRecord), h \in Nat, n \in Nat, d \in Nat :
        /\ lots = account.lots /\ h = account.held[s]
        /\ n = account.cost[s].n /\ d = account.cost[s].d
  BY DEF AccountRecord
<1>2. PICK cost : cost = account.cost[s]
  OBVIOUS
<1>3. CostOK(lots, h, cost, s)
  BY <1>1, <1>2 DEF CostsOK
<1>4. PICK at, f :
        /\ Positions(at, lots, s) /\ at[Len(lots)] = h
        /\ FlatSince(at, lots, s, f)
        /\ \A low, high \in Nat :
             PaidWithin(lots, s, f, low, high) => CostWithin(h, cost, low, high)
  BY <1>3 DEF CostOK
<1>5. PICK paid : paid = Range(ShareByShare(SinceFlat(lots, s), "BUY", s))
  OBVIOUS
<1>6. CASE h = 0
  <2>1. CostWithin(0, cost, 0, 0)
    BY <1>3, <1>6, FlatCostsNothing
  <2> QED BY <1>1, <1>2, <1>6, <2>1 DEF CostWithin
<1>7. CASE h # 0
  <2>1. /\ Min(paid) \in Nat /\ Max(paid) \in Nat
        /\ PaidWithin(lots, s, f, Min(paid), Max(paid))
    BY <1>4, <1>5, <1>7, PaidSinceFlat
  <2>2. CostWithin(h, cost, Min(paid), Max(paid))
    BY <1>4, <2>1
  <2>3. PICK low \in Nat, high \in Nat : low = Min(paid) /\ high = Max(paid)
    BY <2>1
  <2>4. low * (h * d) <= n /\ n <= high * (h * d)
    BY <1>1, <1>2, <2>2, <2>3 DEF CostWithin
  <2>5. low * (h * d) = low * h * d /\ high * (h * d) = high * h * d
    OBVIOUS
  <2>6. low * h * d <= n /\ n <= high * h * d
    BY <2>4, <2>5
  <2> QED BY <1>1, <1>5, <1>7, <2>3, <2>6
<1> QED BY <1>6, <1>7

-----------------------------------------------------------------------------
(* Folds: op is the table of the operator that is folded, on all that it is *)
(* folded over.                                                             *)

\* The value after each member of a list.
Chain(h, op, base, list, n) ==
  h[0] = base /\ \A k \in 1..n : h[k] = op[<<h[k - 1], list[k]>>]

\* What FoldLeft computes, for every set of places, from the place that is last.
FoldAt(g, op, base, list, s) ==
  g[s] = IF s = {} THEN base ELSE op[<<g[s \ {Max(s)}], list[Max(s)]>>]

\* The values stay in A, and the last one is v.
Reaches(v, op, base, list, n, A) ==
  \E h \in [0..n -> A] : Chain(h, op, base, list, n) /\ h[n] = v

Members(list, n, B) == \A i \in 1..n : list[i] \in B

\* The function computes the fold, wherever the value before is one of A.
Computes(g, op, base, list, n, A) ==
  /\ g[{}] = base
  /\ \A s \in SUBSET (1..n) :
       s # {} /\ g[s \ {Max(s)}] \in A => FoldAt(g, op, base, list, s)

\* The function is the table of the fold.
Folds(g, op, base, list, n) == \A s \in SUBSET (1..n) : FoldAt(g, op, base, list, s)

LEMMA LastOf ==
  ASSUME NEW n \in Nat, NEW s \in SUBSET (1..n), s # {}
  PROVE  Max(s) \in s /\ \A i \in s : Max(s) >= i
BY LastPlace DEF Max

\* The table of a fold exists: a shortest list without it would have that of the list
\* before it, with one more place.
LEMMA FoldExists ==
  ASSUME NEW A, NEW B, NEW op \in [A \X B -> A], NEW base \in A, NEW n \in Nat,
         NEW list, Members(list, n, B)
  PROVE  \E g \in [SUBSET (1..n) -> A] : Folds(g, op, base, list, n)
<1> USE DEF Members, Folds
<1> DEFINE Has(m) == \E g \in [SUBSET (1..m) -> A] :
                       \A s \in SUBSET (1..m) : FoldAt(g, op, base, list, s)
           I == { m \in Nat : m <= n /\ ~Has(m) }
<1>1. SUFFICES ASSUME I # {} PROVE FALSE
  <2>1. SUFFICES Has(n)
    OBVIOUS
  <2> HIDE DEF Has
  <2>2. I = {}
    BY <1>1
  <2>3. n <= n /\ n \notin I
    BY <2>2
  <2> QED BY <2>3
<1>2. PICK m \in Nat : m <= n /\ ~Has(m) /\ \A i \in Nat : i <= n /\ ~Has(i) => m <= i
  <2>1. PICK m \in I : \A i \in I : m <= i
    <3> HIDE DEF I
    <3>1. I \in SUBSET Nat
      BY DEF I
    <3> QED BY <1>1, <3>1, NatMinimum
  <2> HIDE DEF Has
  <2> QED BY <2>1
<1> HIDE DEF I
<1>3. m # 0
  <2>1. PICK g : g = [s \in SUBSET (1..0) |-> base]
    OBVIOUS
  <2>2. g \in [SUBSET (1..0) -> A]
    BY <2>1
  <2>3. \A s \in SUBSET (1..0) : s = {} /\ g[s] = base
    BY <2>1
  <2>4. Has(0)
    BY <2>2, <2>3 DEF FoldAt
  <2> HIDE DEF Has
  <2> QED BY <1>2, <2>4
<1>4. Has(m - 1)
  <2>1. m - 1 \in Nat /\ m - 1 <= n /\ ~(m <= m - 1)
    BY <1>2, <1>3
  <2> HIDE DEF Has
  <2> QED BY <1>2, <2>1
<1>5. PICK h \in [SUBSET (1..(m - 1)) -> A] :
        \A s \in SUBSET (1..(m - 1)) : FoldAt(h, op, base, list, s)
  BY <1>4
<1>6. PICK g : g = [s \in SUBSET (1..m) |->
                      IF m \in s THEN op[<<h[s \ {m}], list[m]>>] ELSE h[s]]
  OBVIOUS
<1>7. /\ \A s \in SUBSET (1..m) : s \ {m} \in SUBSET (1..(m - 1))
      /\ \A s \in SUBSET (1..m) : m \notin s => s \in SUBSET (1..(m - 1))
      /\ 1..(m - 1) \subseteq 1..m /\ m \notin 1..(m - 1) /\ list[m] \in B
  <2>1. \A i \in 1..m : i = m \/ i \in 1..(m - 1)
    BY <1>2
  <2>2. m \in 1..n
    BY <1>2, <1>3
  <2>3. 1..(m - 1) \subseteq 1..m /\ m \notin 1..(m - 1)
    BY <1>2
  <2> QED BY <2>1, <2>2, <2>3
<1>8. g \in [SUBSET (1..m) -> A]
  <2>1. ASSUME NEW s \in SUBSET (1..m)
        PROVE  (IF m \in s THEN op[<<h[s \ {m}], list[m]>>] ELSE h[s]) \in A
    <3>1. CASE m \in s
      <4>1. h[s \ {m}] \in A
        BY <1>5, <1>7
      <4> QED BY <1>7, <3>1, <4>1
    <3>2. CASE m \notin s
      BY <1>5, <1>7, <3>2
    <3> QED BY <3>1, <3>2
  <2> QED BY <1>6, <2>1
<1>9. ASSUME NEW s \in SUBSET (1..m)
      PROVE  FoldAt(g, op, base, list, s)
  <2>1. g[s] = IF m \in s THEN op[<<h[s \ {m}], list[m]>>] ELSE h[s]
    BY <1>6
  <2>2. \A t \in SUBSET (1..(m - 1)) : g[t] = h[t]
    BY <1>6, <1>7
  <2>3. CASE m \in s
    <3>1. Max(s) = m
      <4>1. Max(s) \in s /\ Max(s) >= m /\ Max(s) \in 1..m
        BY <1>2, <2>3, LastOf
      <4> QED BY <1>2, <4>1
    <3>2. g[s \ {m}] = h[s \ {m}]
      BY <1>7, <2>2
    <3> QED BY <2>1, <2>3, <3>1, <3>2 DEF FoldAt
  <2>4. CASE m \notin s
    <3>1. s \in SUBSET (1..(m - 1)) /\ g[s] = h[s]
      BY <1>7, <2>1, <2>4
    <3>2. FoldAt(h, op, base, list, s)
      BY <1>5, <3>1
    <3>3. PICK r : r = s \ {Max(s)}
      OBVIOUS
    <3>4. g[r] = h[r]
      BY <2>2, <3>1, <3>3
    <3> QED BY <3>1, <3>2, <3>3, <3>4 DEF FoldAt
  <2> QED BY <2>3, <2>4
<1>10. Has(m)
  BY <1>8, <1>9
<1> HIDE DEF Has
<1> QED BY <1>2, <1>10

\* A function that computes the fold wherever it is folded over has the chain in it.
LEMMA FoldIsChain ==
  ASSUME NEW A, NEW B, NEW op \in [A \X B -> A], NEW base \in A, NEW n \in Nat,
         NEW list, Members(list, n, B), NEW g, Computes(g, op, base, list, n, A)
  PROVE  Reaches(g[1..n], op, base, list, n, A)
<1> USE DEF Members, Computes
<1>1. PICK h : h = [k \in 0..n |-> g[1..k]]
  OBVIOUS
<1>2. h[0] = base
  <2>1. 1..0 = {} /\ 0 \in 0..n
    OBVIOUS
  <2> QED BY <1>1, <2>1
<1>3. ASSUME NEW k \in 1..n, h[k - 1] \in A
      PROVE  h[k] = op[<<h[k - 1], list[k]>>] /\ h[k] \in A
  <2>1. k \in 0..n /\ k - 1 \in 0..n /\ k \in Nat
    OBVIOUS
  <2>2. PICK s : s = 1..k
    OBVIOUS
  <2>3. s \in SUBSET (1..n) /\ k \in s /\ s # {}
    BY <2>2
  <2>4. Max(s) = k
    <3>1. Max(s) \in s /\ Max(s) >= k
      BY <2>3, LastOf
    <3> QED BY <2>2, <3>1
  <2>5. s \ {k} = 1..(k - 1)
    BY <2>2
  <2>6. h[k] = g[s] /\ h[k - 1] = g[s \ {k}]
    BY <1>1, <2>1, <2>2, <2>5
  <2>7. FoldAt(g, op, base, list, s)
    BY <1>3, <2>3, <2>4, <2>6
  <2>8. h[k] = op[<<h[k - 1], list[k]>>]
    BY <2>3, <2>4, <2>6, <2>7 DEF FoldAt
  <2>9. list[k] \in B
    OBVIOUS
  <2> QED BY <1>3, <2>8, <2>9
<1> DEFINE I == { k \in 0..n : h[k] \notin A }
<1>4. I = {}
  <2>1. SUFFICES ASSUME I # {} PROVE FALSE
    OBVIOUS
  <2>2. PICK k \in I : \A i \in I : k <= i
    <3> HIDE DEF I
    <3>1. I \in SUBSET Nat
      BY DEF I
    <3> QED BY <2>1, <3>1, NatMinimum
  <2>3. k \in 1..n /\ h[k] \notin A
    BY <1>2, <2>2
  <2>4. h[k - 1] \in A
    <3>1. k - 1 \in 0..n /\ ~(k <= k - 1)
      BY <2>3
    <3> QED BY <2>2, <3>1
  <2> QED BY <1>3, <2>3, <2>4
<1>5. \A k \in 0..n : h[k] \in A
  BY <1>4
<1>6. h \in [0..n -> A]
  BY <1>1, <1>5
<1>7. \A k \in 1..n : h[k] = op[<<h[k - 1], list[k]>>]
  <2>1. \A k \in 1..n : k - 1 \in 0..n
    OBVIOUS
  <2> QED BY <1>3, <1>5, <2>1
<1>8. h[n] = g[1..n]
  BY <1>1
<1> QED BY <1>2, <1>6, <1>7, <1>8 DEF Chain, Reaches

\* Of a list that grows by one, the chain does too.
LEMMA ChainGrows ==
  ASSUME NEW A, NEW op, NEW base, NEW n \in Nat, NEW list, NEW more, StartsAs(more, list, n),
         NEW v, Reaches(v, op, base, list, n, A),
         NEW w, Reaches(w, op, base, more, n + 1, A)
  PROVE  v \in A /\ w \in A /\ w = op[<<v, more[n + 1]>>]
<1>1. PICK h \in [0..n -> A] : Chain(h, op, base, list, n) /\ h[n] = v
  BY DEF Reaches
<1>2. PICK g \in [0..(n + 1) -> A] : Chain(g, op, base, more, n + 1) /\ g[n + 1] = w
  BY DEF Reaches
<1> DEFINE I == { k \in 0..n : g[k] # h[k] }
<1>3. I = {}
  <2>1. SUFFICES ASSUME I # {} PROVE FALSE
    OBVIOUS
  <2>2. PICK k \in I : \A i \in I : k <= i
    <3> HIDE DEF I
    <3>1. I \in SUBSET Nat
      BY DEF I
    <3> QED BY <2>1, <3>1, NatMinimum
  <2>3. k \in 1..n /\ g[k] # h[k]
    BY <1>1, <1>2, <2>2 DEF Chain
  <2>4. k \in 1..(n + 1) /\ k - 1 \in 0..n /\ ~(k <= k - 1)
    BY <2>3
  <2>5. g[k - 1] = h[k - 1]
    BY <2>2, <2>4
  <2>6. h[k] = op[<<h[k - 1], list[k]>>] /\ g[k] = op[<<g[k - 1], more[k]>>]
    BY <1>1, <1>2, <2>3, <2>4 DEF Chain
  <2>7. more[k] = list[k]
    BY <2>3 DEF StartsAs
  <2> QED BY <2>3, <2>5, <2>6, <2>7
<1>4. g[n] = h[n] /\ n + 1 \in 1..(n + 1) /\ n + 1 - 1 = n
  BY <1>3
<1>5. g[n + 1] = op[<<g[n + 1 - 1], more[n + 1]>>]
  BY <1>2, <1>4 DEF Chain
<1>6. h[n] \in A /\ g[n + 1] \in A
  BY <1>1, <1>2
<1> QED BY <1>1, <1>2, <1>4, <1>5, <1>6

-----------------------------------------------------------------------------
(* Sums of lists *)

Plus == [x \in Int \X Int |-> x[1] + x[2]]

Summing(g, list) ==
  g = [s \in SUBSET DOMAIN list |->
         IF s = {} THEN 0 ELSE g[s \ {Max(s)}] + list[Max(s)]]

LEMMA SumIsChosen ==
  ASSUME NEW list
  PROVE  SumSeq(list) = (CHOOSE g : Summing(g, list))[DOMAIN list]
BY DEF SumSeq, FoldLeft, MapThenFoldSet, Summing

LEMMA PlusProperties ==
  /\ Plus \in [Int \X Int -> Int] /\ 0 \in Int
  /\ \A x, y \in Int : Plus[<<x, y>>] = x + y
BY DEF Plus

LEMMA SumChain ==
  ASSUME NEW list, NEW n \in Nat, DOMAIN list = 1..n, Members(list, n, Int)
  PROVE  Reaches(SumSeq(list), Plus, 0, list, n, Int)
<1>1. \A i \in 1..n : list[i] \in Int
  BY DEF Members
<1>2. \A s \in SUBSET (1..n) : s # {} => Max(s) \in 1..n /\ s \ {Max(s)} \in SUBSET (1..n)
  BY LastOf
<1>3. PICK g \in [SUBSET (1..n) -> Int] : Folds(g, Plus, 0, list, n)
  BY PlusProperties, FoldExists
<1>4. Summing(g, list)
  <2>1. ASSUME NEW s \in SUBSET (1..n)
        PROVE  g[s] = IF s = {} THEN 0 ELSE g[s \ {Max(s)}] + list[Max(s)]
    <3>1. CASE s = {}
      BY <1>3, <3>1 DEF FoldAt, Folds
    <3>2. CASE s # {}
      <4>1. g[s] = Plus[<<g[s \ {Max(s)}], list[Max(s)]>>]
        BY <1>3, <3>2 DEF FoldAt, Folds
      <4>2. g[s \ {Max(s)}] \in Int /\ list[Max(s)] \in Int
        BY <1>1, <1>2, <1>3, <3>2
      <4> QED BY <3>2, <4>1, <4>2, PlusProperties
    <3> QED BY <3>1, <3>2
  <2>2. g = [s \in SUBSET (1..n) |-> g[s]]
    BY <1>3
  <2>3. g = [s \in SUBSET (1..n) |-> IF s = {} THEN 0 ELSE g[s \ {Max(s)}] + list[Max(s)]]
    BY <2>1, <2>2
  <2> QED BY <2>3 DEF Summing
<1>5. PICK f : Summing(f, list) /\ SumSeq(list) = f[1..n]
  <2>1. Summing(CHOOSE f : Summing(f, list), list)
    BY <1>4
  <2> QED BY <2>1, SumIsChosen
<1>6. ASSUME NEW s \in SUBSET (1..n)
      PROVE  f[s] = IF s = {} THEN 0 ELSE f[s \ {Max(s)}] + list[Max(s)]
  BY <1>5 DEF Summing
<1>7. Computes(f, Plus, 0, list, n, Int)
  <2>1. f[{}] = 0
    <3>1. {} \in SUBSET (1..n)
      OBVIOUS
    <3> QED BY <1>6, <3>1
  <2>2. ASSUME NEW s \in SUBSET (1..n), s # {}, f[s \ {Max(s)}] \in Int
        PROVE  FoldAt(f, Plus, 0, list, s)
    <3>1. PICK x \in Int : x = list[Max(s)]
      BY <1>1, <1>2, <2>2
    <3>2. PICK y \in Int : y = f[s \ {Max(s)}]
      BY <2>2
    <3>3. f[s] = y + x
      BY <1>6, <2>2, <3>1, <3>2
    <3>4. f[s] = Plus[<<f[s \ {Max(s)}], list[Max(s)]>>]
      BY <3>1, <3>2, <3>3, PlusProperties
    <3> QED BY <2>2, <3>4 DEF FoldAt
  <2> QED BY <2>1, <2>2 DEF Computes
<1>8. Reaches(f[1..n], Plus, 0, list, n, Int)
  BY <1>7, PlusProperties, FoldIsChain
<1> QED BY <1>5, <1>8

LEMMA SumAppend ==
  ASSUME NEW list \in Seq(Int), NEW x \in Int
  PROVE  /\ SumSeq(<<>>) = 0
         /\ SumSeq(list) \in Int
         /\ SumSeq(Append(list, x)) = SumSeq(list) + x
<1>1. ASSUME NEW u \in Seq(Int), NEW k \in Nat, k = Len(u)
      PROVE  Reaches(SumSeq(u), Plus, 0, u, k, Int)
  <2>1. DOMAIN u = 1..k /\ Members(u, k, Int)
    BY <1>1, ElementOfSeq, LenProperties DEF Members
  <2> QED BY <2>1, SumChain
<1>2. PICK n \in Nat : n = Len(list)
  BY LenProperties
<1>3. PICK more : more = Append(list, x)
  OBVIOUS
<1>4. /\ more \in Seq(Int) /\ Len(more) = n + 1 /\ more[n + 1] = x
      /\ StartsAs(more, list, n)
  BY <1>2, <1>3, AppendProperties DEF StartsAs
<1>5. Reaches(SumSeq(list), Plus, 0, list, n, Int)
  BY <1>1, <1>2
<1>6. Reaches(SumSeq(more), Plus, 0, more, n + 1, Int)
  <2>1. n + 1 \in Nat
    BY <1>2
  <2> QED BY <1>1, <1>4, <2>1
<1>7. SumSeq(list) \in Int /\ SumSeq(more) = Plus[<<SumSeq(list), x>>]
  BY <1>2, <1>4, <1>5, <1>6, ChainGrows
<1>8. SumSeq(<<>>) = 0
  <2>1. <<>> \in Seq(Int) /\ Len(<<>>) = 0 /\ 0 \in Nat
    BY EmptySeq
  <2>2. Reaches(SumSeq(<<>>), Plus, 0, <<>>, 0, Int)
    BY <1>1, <2>1
  <2> QED BY <2>2 DEF Chain, Reaches
<1> QED BY <1>3, <1>7, <1>8, PlusProperties

\* Two lists of which the one is what the other leaves of a price.
LEMMA SumOfDifferences ==
  ASSUME NEW xs \in Seq(Int), NEW ys \in Seq(Int), NEW c \in Int, Len(xs) = Len(ys),
         \A k \in 1..Len(xs) : ys[k] = c - xs[k]
  PROVE  SumSeq(ys) = c * Len(xs) - SumSeq(xs)
<1>1. PICK n \in Nat : n = Len(xs) /\ n = Len(ys)
  BY LenProperties
<1> DEFINE X(i) == SumSeq(SubSeq(xs, 1, i))
           Y(i) == SumSeq(SubSeq(ys, 1, i))
           I == { i \in 0..n : Y(i) # c * i - X(i) }
<1>2. X(0) = 0 /\ Y(0) = 0
  BY Beginnings, SumAppend
<1>3. ASSUME NEW i \in 1..n
      PROVE  /\ X(i) = X(i - 1) + xs[i] /\ X(i - 1) \in Int /\ xs[i] \in Int
             /\ Y(i) = Y(i - 1) + ys[i] /\ Y(i - 1) \in Int /\ ys[i] \in Int
  <2>1. i - 1 \in 0..n
    BY <1>1
  <2>2. PICK u : u = SubSeq(xs, 1, i - 1)
    OBVIOUS
  <2>3. PICK v : v = SubSeq(ys, 1, i - 1)
    OBVIOUS
  <2>4. u \in Seq(Int) /\ SubSeq(xs, 1, i) = Append(u, xs[i]) /\ xs[i] \in Int
    BY <1>1, <2>1, <2>2, Beginnings
  <2>5. v \in Seq(Int) /\ SubSeq(ys, 1, i) = Append(v, ys[i]) /\ ys[i] \in Int
    BY <1>1, <2>1, <2>3, Beginnings, SMTT(20)
  <2> QED BY <2>2, <2>3, <2>4, <2>5, SumAppend, ZenonT(30)
<1> HIDE DEF X, Y
<1>4. I = {}
  <2>1. SUFFICES ASSUME I # {} PROVE FALSE
    OBVIOUS
  <2>2. PICK k \in I : \A i \in I : k <= i
    <3> HIDE DEF I
    <3>1. I \in SUBSET Nat
      BY DEF I
    <3> QED BY <2>1, <3>1, NatMinimum
  <2>3. k \in 0..n /\ Y(k) # c * k - X(k)
    BY <2>2
  <2>4. k # 0
    BY <1>2, <2>3
  <2>5. k \in 1..n /\ k - 1 \in 0..n /\ ~(k <= k - 1)
    BY <2>3, <2>4
  <2>6. Y(k - 1) = c * (k - 1) - X(k - 1)
    BY <2>2, <2>5
  <2>7. c * k = c * (k - 1) + c
    BY <2>5
  <2>8. ys[k] = c - xs[k]
    BY <1>1, <2>5
  <2>9. PICK p \in Int : p = c * (k - 1)
    BY <2>5
  <2>10. X(k) = X(k - 1) + xs[k] /\ Y(k) = Y(k - 1) + ys[k]
        /\ X(k - 1) \in Int /\ Y(k - 1) \in Int /\ xs[k] \in Int
    BY <1>3, <2>5
  <2>11. PICK q \in Int : q = c * k
    BY <2>5
  <2>12. q = p + c /\ Y(k - 1) = p - X(k - 1) /\ Y(k) # q - X(k)
    BY <2>3, <2>6, <2>7, <2>9, <2>11
  <2> QED BY <2>8, <2>9, <2>10, <2>11, <2>12
<1>5. Y(n) = c * n - X(n)
  <2>1. n \in 0..n
    BY <1>1
  <2> QED BY <1>4, <2>1, Zenon
<1>6. X(n) = SumSeq(xs) /\ Y(n) = SumSeq(ys)
  BY <1>1, Beginnings DEF X, Y
<1> QED BY <1>1, <1>5, <1>6

\* A price, many times.
LEMMA SumOfSame ==
  ASSUME NEW list \in Seq(Int), NEW p \in Int, \A k \in 1..Len(list) : list[k] = p
  PROVE  SumSeq(list) = p * Len(list)
<1>1. \A k \in 1..Len(list) : list[k] = p + p - list[k]
  OBVIOUS
<1>2. SumSeq(list) = (p + p) * Len(list) - SumSeq(list)
  <2>1. PICK c : c = p + p
    OBVIOUS
  <2>2. c \in Int /\ \A k \in 1..Len(list) : list[k] = c - list[k]
    BY <1>1, <2>1
  <2>3. SumSeq(list) = c * Len(list) - SumSeq(list)
    BY <2>2, SumOfDifferences
  <2> QED BY <2>1, <2>3
<1>3. PICK n \in Nat, t \in Int, v \in Int : n = Len(list) /\ t = SumSeq(list) /\ v = p * n
  <2>1. Len(list) \in Nat /\ SumSeq(list) \in Int
    BY SumAppend, LenProperties
  <2>2. p * Len(list) \in Int
    BY <2>1
  <2> QED BY <2>1, <2>2
<1>4. (p + p) * n = p * n + p * n
  OBVIOUS
<1>5. t = v + v - t
  BY <1>2, <1>3, <1>4
<1> QED BY <1>3, <1>5

LEMMA AppendAfter ==
  ASSUME NEW S, NEW a \in Seq(S), NEW u \in Seq(S), NEW x \in S
  PROVE  a \o Append(u, x) = Append(a \o u, x)
<1>1. <<x>> \in Seq(S)
  OBVIOUS
<1>2. Append(u, x) = u \o <<x>>
  BY AppendIsConcat
<1>3. a \o u \in Seq(S)
  BY ConcatProperties
<1>4. Append(a \o u, x) = (a \o u) \o <<x>>
  BY <1>3, AppendIsConcat
<1> QED BY <1>1, <1>2, <1>4, ConcatAssociative

LEMMA SumOfBoth ==
  ASSUME NEW a \in Seq(Int), NEW b \in Seq(Int)
  PROVE  SumSeq(a \o b) = SumSeq(a) + SumSeq(b)
<1>1. PICK n \in Nat : n = Len(b)
  BY LenProperties
<1> DEFINE I == { i \in 0..n : SumSeq(a \o SubSeq(b, 1, i)) # SumSeq(a) + SumSeq(SubSeq(b, 1, i)) }
<1>2. ASSUME NEW i \in 1..n
      PROVE  \E u \in Seq(Int) :
               /\ u = SubSeq(b, 1, i - 1) /\ b[i] \in Int /\ SubSeq(b, 1, i) = Append(u, b[i])
               /\ a \o Append(u, b[i]) = Append(a \o u, b[i])
  <2>1. i - 1 \in 0..n
    BY <1>1
  <2>2. PICK u \in Seq(Int) : u = SubSeq(b, 1, i - 1) /\ SubSeq(b, 1, i) = Append(u, b[i])
    BY <1>1, <2>1, Beginnings
  <2>3. b[i] \in Int
    BY <1>1, Beginnings
  <2>4. PICK x \in Int : x = b[i]
    BY <2>3
  <2>5. a \o Append(u, x) = Append(a \o u, x)
    BY AppendAfter
  <2> QED BY <2>2, <2>4, <2>5
<1>3. I = {}
  <2>1. SUFFICES ASSUME I # {} PROVE FALSE
    OBVIOUS
  <2>2. PICK k \in I : \A i \in I : k <= i
    <3> HIDE DEF I
    <3>1. I \in SUBSET Nat
      BY DEF I
    <3> QED BY <2>1, <3>1, NatMinimum
  <2>3. k \in 0..n /\ SumSeq(a \o SubSeq(b, 1, k)) # SumSeq(a) + SumSeq(SubSeq(b, 1, k))
    BY <2>2
  <2>4. k # 0
    <3>1. SubSeq(b, 1, 0) = <<>> /\ a \o <<>> = a
      BY Beginnings, ConcatEmptySeq
    <3>2. SumSeq(<<>>) = 0 /\ SumSeq(a) \in Int
      BY SumAppend
    <3>3. SumSeq(a \o <<>>) = SumSeq(a) + SumSeq(<<>>)
      <4>1. SumSeq(a \o <<>>) = SumSeq(a)
        BY <3>1, Zenon
      <4> QED BY <3>2, <4>1
    <3>4. SumSeq(a \o SubSeq(b, 1, 0)) = SumSeq(a) + SumSeq(SubSeq(b, 1, 0))
      BY <3>1, <3>3, Zenon
    <3> QED BY <2>3, <3>4, Zenon
  <2>5. k \in 1..n /\ k - 1 \in 0..n /\ ~(k <= k - 1)
    BY <2>3, <2>4
  <2>6. PICK u \in Seq(Int) :
          /\ u = SubSeq(b, 1, k - 1) /\ b[k] \in Int /\ SubSeq(b, 1, k) = Append(u, b[k])
          /\ a \o Append(u, b[k]) = Append(a \o u, b[k])
    BY <1>2, <2>5
  <2>7. SumSeq(a \o u) = SumSeq(a) + SumSeq(u)
    BY <2>2, <2>5, <2>6
  <2>8. a \o u \in Seq(Int)
    BY ConcatProperties
  <2>9. PICK x \in Int : x = b[k]
    BY <2>6
  <2>10. SumSeq(Append(a \o u, x)) = SumSeq(a \o u) + x
        /\ SumSeq(Append(u, x)) = SumSeq(u) + x
        /\ SumSeq(a) \in Int /\ SumSeq(u) \in Int
    BY <2>8, SumAppend
  <2>11. SumSeq(a \o Append(u, x)) = SumSeq(a) + SumSeq(Append(u, x))
    <3>1. SumSeq(Append(a \o u, x)) = SumSeq(a) + SumSeq(Append(u, x))
      <4>1. PICK l : l = a \o u
        OBVIOUS
      <4>2. PICK v : v = SumSeq(Append(l, x))
        OBVIOUS
      <4>3. PICK w : w = SumSeq(Append(u, x))
        OBVIOUS
      <4>4. PICK y \in Int, z \in Int : y = SumSeq(a) /\ z = SumSeq(u)
        BY <2>10
      <4>5. v = SumSeq(l) + x /\ w = z + x /\ SumSeq(l) = y + z
        BY <2>7, <2>10, <4>1, <4>2, <4>3, <4>4, Zenon
      <4>6. v = y + w
        BY <4>5
      <4> QED BY <4>1, <4>2, <4>3, <4>4, <4>6, Zenon
    <3>2. a \o Append(u, x) = Append(a \o u, x)
      BY <2>6, <2>9, Zenon
    <3> QED BY <3>1, <3>2, Zenon
  <2> QED BY <2>3, <2>6, <2>9, <2>11
<1>4. SubSeq(b, 1, n) = b /\ n \in 0..n
  BY <1>1, Beginnings
<1> QED BY <1>3, <1>4

-----------------------------------------------------------------------------
(* A SELL lot against the queue of its symbol *)

QueueRecord == [qty : Nat \ {0}, price : Nat]

\* What is left of the lot, what it earned, and what is left of the queue.
Result == [left : Nat, profit : Int, queue : Seq(QueueRecord)]

Taken(acc, buy, lot) ==
  LET matched == IF acc.left < buy.qty THEN acc.left ELSE buy.qty
      rest == buy.qty - matched
  IN  [left |-> acc.left - matched,
       profit |-> acc.profit + matched * (lot.price - buy.price),
       queue |-> IF rest = 0 THEN acc.queue
                 ELSE Append(acc.queue, [buy EXCEPT !.qty = rest])]

Untaken(lot) == [left |-> lot.qty, profit |-> 0, queue |-> <<>>]

Taking(lot) == [x \in Result \X QueueRecord |-> Taken(x[1], x[2], lot)]

Consuming(g, queue, lot) ==
  g = [s \in SUBSET DOMAIN queue |->
         IF s = {} THEN Untaken(lot) ELSE Taken(g[s \ {Max(s)}], queue[Max(s)], lot)]

LEMMA ConsumeIsChosen ==
  ASSUME NEW queue, NEW lot
  PROVE  Consume(queue, lot) = (CHOOSE g : Consuming(g, queue, lot))[DOMAIN queue]
BY DEF Consume, FoldLeft, MapThenFoldSet, Consuming, Untaken, Taken

LEMMA TakenIsResult ==
  ASSUME NEW acc \in Result, NEW buy \in QueueRecord, NEW lot \in LotRecord
  PROVE  Taken(acc, buy, lot) \in Result
<1>1. PICK l \in Nat, p \in Int, q \in Seq(QueueRecord) :
        l = acc.left /\ p = acc.profit /\ q = acc.queue
  BY DEF Result
<1>2. PICK n \in Nat, b \in Nat, c \in Nat :
        n = buy.qty /\ n # 0 /\ b = buy.price /\ c = lot.price
  BY DEF QueueRecord, LotRecord
<1>3. PICK m : m = IF l < n THEN l ELSE n
  OBVIOUS
<1>4. m \in Nat /\ l - m \in Nat /\ n - m \in Nat
  BY <1>1, <1>2, <1>3
<1>5. p + m * (c - b) \in Int
  <2>1. c - b \in Int
    BY <1>2
  <2>2. m * (c - b) \in Int
    BY <1>4, <2>1
  <2> QED BY <1>1, <2>2
<1>6. n - m # 0 => Append(q, [buy EXCEPT !.qty = n - m]) \in Seq(QueueRecord)
  <2>1. n - m # 0 => [buy EXCEPT !.qty = n - m] \in QueueRecord
    BY <1>4 DEF QueueRecord
  <2> QED BY <1>1, <2>1, AppendProperties
<1>7. Taken(acc, buy, lot) =
        [left |-> l - m, profit |-> p + m * (c - b),
         queue |-> IF n - m = 0 THEN q ELSE Append(q, [buy EXCEPT !.qty = n - m])]
  BY <1>1, <1>2, <1>3 DEF Taken
<1> QED BY <1>1, <1>4, <1>5, <1>6, <1>7 DEF Result

LEMMA TakingProperties ==
  ASSUME NEW lot \in LotRecord
  PROVE  /\ Taking(lot) \in [Result \X QueueRecord -> Result] /\ Untaken(lot) \in Result
         /\ \A acc \in Result, buy \in QueueRecord :
              Taking(lot)[<<acc, buy>>] = Taken(acc, buy, lot)
<1>1. \A acc \in Result, buy \in QueueRecord : Taken(acc, buy, lot) \in Result
  BY TakenIsResult
<1>2. Taking(lot) \in [Result \X QueueRecord -> Result]
  BY <1>1 DEF Taking
<1>3. Untaken(lot) \in Result
  <2>1. <<>> \in Seq(QueueRecord) /\ lot.qty \in Nat
    BY EmptySeq DEF LotRecord
  <2> QED BY <2>1 DEF Untaken, Result
<1>4. \A acc \in Result, buy \in QueueRecord : Taking(lot)[<<acc, buy>>] = Taken(acc, buy, lot)
  BY DEF Taking
<1> QED BY <1>2, <1>3, <1>4

LEMMA ConsumeChain ==
  ASSUME NEW queue, NEW n \in Nat, DOMAIN queue = 1..n, Members(queue, n, QueueRecord),
         NEW lot \in LotRecord
  PROVE  Reaches(Consume(queue, lot), Taking(lot), Untaken(lot), queue, n, Result)
<1>1. \A i \in 1..n : queue[i] \in QueueRecord
  BY DEF Members
<1>2. \A s \in SUBSET (1..n) : s # {} => Max(s) \in 1..n /\ s \ {Max(s)} \in SUBSET (1..n)
  BY LastOf
<1>3. PICK g \in [SUBSET (1..n) -> Result] : Folds(g, Taking(lot), Untaken(lot), queue, n)
  BY TakingProperties, FoldExists
<1>4. Consuming(g, queue, lot)
  <2>1. ASSUME NEW s \in SUBSET (1..n)
        PROVE  g[s] = IF s = {} THEN Untaken(lot)
                      ELSE Taken(g[s \ {Max(s)}], queue[Max(s)], lot)
    <3>1. CASE s = {}
      BY <1>3, <3>1 DEF FoldAt, Folds
    <3>2. CASE s # {}
      <4>1. g[s] = Taking(lot)[<<g[s \ {Max(s)}], queue[Max(s)]>>]
        BY <1>3, <3>2 DEF FoldAt, Folds
      <4>2. g[s \ {Max(s)}] \in Result /\ queue[Max(s)] \in QueueRecord
        BY <1>1, <1>2, <1>3, <3>2
      <4> QED BY <3>2, <4>1, <4>2, TakingProperties
    <3> QED BY <3>1, <3>2
  <2>2. g = [s \in SUBSET (1..n) |-> g[s]]
    BY <1>3
  <2>3. g = [s \in SUBSET (1..n) |->
               IF s = {} THEN Untaken(lot) ELSE Taken(g[s \ {Max(s)}], queue[Max(s)], lot)]
    BY <2>1, <2>2
  <2> QED BY <2>3 DEF Consuming
<1>5. PICK f : Consuming(f, queue, lot) /\ Consume(queue, lot) = f[1..n]
  <2>1. Consuming(CHOOSE f : Consuming(f, queue, lot), queue, lot)
    BY <1>4
  <2> QED BY <2>1, ConsumeIsChosen
<1>6. ASSUME NEW s \in SUBSET (1..n)
      PROVE  f[s] = IF s = {} THEN Untaken(lot)
                    ELSE Taken(f[s \ {Max(s)}], queue[Max(s)], lot)
  BY <1>5 DEF Consuming
<1>7. Computes(f, Taking(lot), Untaken(lot), queue, n, Result)
  <2>1. f[{}] = Untaken(lot)
    <3>1. {} \in SUBSET (1..n)
      OBVIOUS
    <3> QED BY <1>6, <3>1
  <2>2. ASSUME NEW s \in SUBSET (1..n), s # {}, f[s \ {Max(s)}] \in Result
        PROVE  FoldAt(f, Taking(lot), Untaken(lot), queue, s)
    <3>1. queue[Max(s)] \in QueueRecord
      BY <1>1, <1>2, <2>2
    <3>2. f[s] = Taking(lot)[<<f[s \ {Max(s)}], queue[Max(s)]>>]
      BY <1>6, <2>2, <3>1, TakingProperties
    <3> QED BY <2>2, <3>2 DEF FoldAt
  <2> QED BY <2>1, <2>2 DEF Computes
<1>8. Reaches(f[1..n], Taking(lot), Untaken(lot), queue, n, Result)
  BY <1>7, TakingProperties, FoldIsChain
<1> QED BY <1>5, <1>8

LEMMA ConsumeAppend ==
  ASSUME NEW queue \in Seq(QueueRecord), NEW buy \in QueueRecord, NEW lot \in LotRecord
  PROVE  /\ Consume(<<>>, lot) = Untaken(lot)
         /\ Consume(queue, lot) \in Result
         /\ Consume(Append(queue, buy), lot) = Taken(Consume(queue, lot), buy, lot)
<1>1. ASSUME NEW u \in Seq(QueueRecord), NEW k \in Nat, k = Len(u)
      PROVE  Reaches(Consume(u, lot), Taking(lot), Untaken(lot), u, k, Result)
  <2>1. DOMAIN u = 1..k /\ Members(u, k, QueueRecord)
    BY <1>1, ElementOfSeq, LenProperties DEF Members
  <2> QED BY <2>1, ConsumeChain
<1>2. PICK n \in Nat : n = Len(queue)
  BY LenProperties
<1>3. PICK more : more = Append(queue, buy)
  OBVIOUS
<1>4. /\ more \in Seq(QueueRecord) /\ Len(more) = n + 1 /\ more[n + 1] = buy
      /\ StartsAs(more, queue, n)
  BY <1>2, <1>3, AppendProperties DEF StartsAs
<1>5. Reaches(Consume(queue, lot), Taking(lot), Untaken(lot), queue, n, Result)
  BY <1>1, <1>2
<1>6. Reaches(Consume(more, lot), Taking(lot), Untaken(lot), more, n + 1, Result)
  <2>1. n + 1 \in Nat
    BY <1>2
  <2> QED BY <1>1, <1>4, <2>1
<1>7. /\ Consume(queue, lot) \in Result
      /\ Consume(more, lot) = Taking(lot)[<<Consume(queue, lot), buy>>]
  <2>1. PICK v : v = Consume(queue, lot)
    OBVIOUS
  <2>2. PICK w : w = Consume(more, lot)
    OBVIOUS
  <2>3. v \in Result /\ w = Taking(lot)[<<v, more[n + 1]>>]
    BY <1>2, <1>4, <1>5, <1>6, <2>1, <2>2, ChainGrows
  <2> QED BY <1>4, <2>1, <2>2, <2>3
<1>8. Consume(<<>>, lot) = Untaken(lot)
  <2>1. <<>> \in Seq(QueueRecord) /\ Len(<<>>) = 0 /\ 0 \in Nat
    BY EmptySeq
  <2>2. Reaches(Consume(<<>>, lot), Taking(lot), Untaken(lot), <<>>, 0, Result)
    BY <1>1, <2>1
  <2> QED BY <2>2 DEF Chain, Reaches
<1> QED BY <1>3, <1>7, <1>8, TakingProperties

\* The same price, for each of n shares.
Copies(n, p) == [k \in 1..n |-> p]

QueueShares(queue) ==
  FlattenSeq([i \in DOMAIN queue |-> Copies(queue[i].qty, queue[i].price)])

LEMMA CopiesProperties ==
  ASSUME NEW n \in Nat, NEW p \in Int
  PROVE  /\ Copies(n, p) \in Seq(Int) /\ Len(Copies(n, p)) = n
         /\ SumSeq(Copies(n, p)) = p * n
         /\ n = 0 => Copies(n, p) = <<>>
<1>1. PICK c : c = Copies(n, p)
  OBVIOUS
<1>2. c \in [1..n -> Int] /\ \A k \in 1..n : c[k] = p
  BY <1>1 DEF Copies
<1>3. c \in Seq(Int)
  BY <1>2, SeqDef
<1>4. Len(c) = n
  BY <1>2, <1>3, LenProperties
<1>5. SumSeq(c) = p * n
  BY <1>2, <1>3, <1>4, SumOfSame
<1>6. n = 0 => c = <<>>
  BY <1>3, <1>4, EmptySeq
<1> QED BY <1>1, <1>3, <1>4, <1>5, <1>6

LEMMA CopiesSplit ==
  ASSUME NEW m \in Nat, NEW n \in Nat, NEW p \in Int
  PROVE  Copies(m + n, p) = Copies(m, p) \o Copies(n, p)
<1>1. PICK a : a = Copies(m, p)
  OBVIOUS
<1>2. PICK b : b = Copies(n, p)
  OBVIOUS
<1>3. PICK c : c = Copies(m + n, p)
  OBVIOUS
<1>4. PICK d : d = a \o b
  OBVIOUS
<1>5. a \in Seq(Int) /\ b \in Seq(Int) /\ Len(a) = m /\ Len(b) = n
  BY <1>1, <1>2, CopiesProperties
<1>6. c \in Seq(Int) /\ Len(c) = m + n
  <2>1. m + n \in Nat
    OBVIOUS
  <2> QED BY <1>3, <2>1, CopiesProperties
<1>7. /\ \A k \in 1..m : a[k] = p
      /\ \A k \in 1..n : b[k] = p
      /\ \A k \in 1..(m + n) : c[k] = p
  BY <1>1, <1>2, <1>3 DEF Copies
<1>8. /\ d \in Seq(Int) /\ Len(d) = m + n
      /\ \A k \in 1..(m + n) : d[k] = IF k <= m THEN a[k] ELSE b[k - m]
  BY <1>4, <1>5, ConcatProperties
<1>9. \A k \in 1..(m + n) : d[k] = p
  <2>1. \A k \in 1..(m + n) : (k <= m => k \in 1..m) /\ (~(k <= m) => k - m \in 1..n)
    OBVIOUS
  <2> QED BY <1>7, <1>8, <2>1
<1>10. c = d
  BY <1>6, <1>7, <1>8, <1>9, SeqEqual
<1> QED BY <1>1, <1>2, <1>3, <1>4, <1>10

LEMMA QueueAppend ==
  ASSUME NEW queue \in Seq(QueueRecord), NEW buy \in QueueRecord
  PROVE  /\ QueueShares(<<>>) = <<>>
         /\ QueueShares(queue) \in Seq(Int)
         /\ QueueShares(Append(queue, buy))
              = QueueShares(queue) \o Copies(buy.qty, buy.price)
<1> DEFINE Lists(l) == [i \in DOMAIN l |-> Copies(l[i].qty, l[i].price)]
<1>1. \A l : QueueShares(l) = FlattenSeq(Lists(l))
  BY DEF QueueShares
<1>2. PICK n \in Nat :
        n = Len(queue) /\ DOMAIN queue = 1..n /\ \A i \in 1..n : queue[i] \in QueueRecord
  BY ElementOfSeq, LenProperties
<1>3. \A b \in QueueRecord : Copies(b.qty, b.price) \in Seq(Int)
  <2>1. \A b \in QueueRecord : b.qty \in Nat /\ b.price \in Int
    BY DEF QueueRecord
  <2> QED BY <2>1, CopiesProperties
<1>4. Lists(queue) \in Seq(Seq(Int)) /\ Len(Lists(queue)) = n
  <2>1. Lists(queue) \in [1..n -> Seq(Int)]
    BY <1>2, <1>3
  <2>2. Lists(queue) \in Seq(Seq(Int)) /\ DOMAIN Lists(queue) = 1..n
    BY <2>1, SeqDef
  <2> QED BY <2>2, LenProperties
<1>5. QueueShares(<<>>) = <<>>
  <2>1. Lists(<<>>) = <<>>
    OBVIOUS
  <2>2. FlattenSeq(<<>>) = <<>>
    BY <1>4, EmptySeq, FlattenAppend
  <2> QED BY <1>1, <2>1, <2>2
<1>6. QueueShares(queue) \in Seq(Int)
  <2>1. <<>> \in Seq(Int)
    BY EmptySeq
  <2> HIDE DEF Lists
  <2> QED BY <1>1, <1>4, <2>1, FlattenAppend
<1>7. QueueShares(Append(queue, buy)) = QueueShares(queue) \o Copies(buy.qty, buy.price)
  <2>1. PICK t : t = Copies(buy.qty, buy.price) /\ t \in Seq(Int)
    BY <1>3
  <2>2. PICK more : more = Append(queue, buy)
    OBVIOUS
  <2>3. /\ more \in Seq(QueueRecord) /\ Len(more) = n + 1
        /\ more[n + 1] = buy /\ \A i \in 1..n : more[i] = queue[i]
    BY <1>2, <2>2, AppendProperties
  <2>4. DOMAIN more = 1..(n + 1)
    BY <2>3, LenProperties
  <2>5. PICK a : a = Lists(queue)
    OBVIOUS
  <2>6. PICK b : b = Append(a, t)
    OBVIOUS
  <2>7. /\ b \in Seq(Seq(Int)) /\ Len(b) = n + 1
        /\ b[n + 1] = t /\ \A i \in 1..n : b[i] = a[i]
    BY <1>4, <2>1, <2>5, <2>6, AppendProperties
  <2>8. \A i \in 1..(n + 1) : i = n + 1 \/ i \in 1..n
    BY <1>2
  <2>9. \A i \in 1..n : a[i] = Copies(queue[i].qty, queue[i].price)
    BY <1>2, <2>5
  <2>10. \A i \in 1..(n + 1) : b[i] = Copies(more[i].qty, more[i].price)
    BY <2>1, <2>3, <2>7, <2>8, <2>9
  <2>11. DOMAIN b = 1..(n + 1) /\ b = [i \in DOMAIN b |-> b[i]]
    BY <2>7, LenProperties
  <2>12. b = Lists(more)
    BY <2>4, <2>10, <2>11
  <2>13. FlattenSeq(b) = FlattenSeq(a) \o t
    BY <1>4, <2>1, <2>5, <2>6, FlattenAppend
  <2> HIDE DEF Lists
  <2> QED BY <1>1, <2>1, <2>2, <2>5, <2>12, <2>13
<1> QED BY <1>5, <1>6, <1>7

\* The lot takes the first shares of the queue, as many as there are and as it needs.
TakesFirst(queue, r, lot) ==
  \E G \in Seq(Int) :
    /\ QueueShares(queue) = G \o QueueShares(r.queue)
    /\ Len(G) + r.left = lot.qty
    /\ r.left # 0 => r.queue = <<>>
    /\ r.profit = lot.price * Len(G) - SumSeq(G)

LEMMA Regroup ==
  ASSUME NEW a \in Seq(Int), NEW b \in Seq(Int), NEW c \in Seq(Int)
  PROVE  (a \o b) \o c = a \o (b \o c)
BY ConcatAssociative

LEMMA TakesMore ==
  ASSUME NEW queue \in Seq(QueueRecord), NEW buy \in QueueRecord, NEW lot \in LotRecord,
         NEW acc \in Result, TakesFirst(queue, acc, lot)
  PROVE  TakesFirst(Append(queue, buy), Taken(acc, buy, lot), lot)
<1>1. PICK G \in Seq(Int) :
        /\ QueueShares(queue) = G \o QueueShares(acc.queue)
        /\ Len(G) + acc.left = lot.qty
        /\ acc.left # 0 => acc.queue = <<>>
        /\ acc.profit = lot.price * Len(G) - SumSeq(G)
  BY DEF TakesFirst
<1>2. PICK l \in Nat : l = acc.left
  BY DEF Result
<1>3. PICK q \in Seq(QueueRecord) : q = acc.queue
  BY DEF Result
<1>4. PICK n \in Nat : n = buy.qty /\ n # 0
  BY DEF QueueRecord
<1>5. PICK b \in Int : b = buy.price
  BY DEF QueueRecord
<1>6. PICK c \in Int : c = lot.price
  BY DEF LotRecord
<1>7. PICK m \in Nat : m = (IF l < n THEN l ELSE n)
  BY <1>2, <1>4
<1>8. m <= n /\ l - m \in Nat /\ n - m \in Nat /\ (l - m # 0 => m = n) /\ (m # 0 => l # 0)
  BY <1>2, <1>4, <1>7
<1>9. PICK r \in Nat : r = n - m
  BY <1>8
<1>10. r = n - m /\ n = m + r
  BY <1>4, <1>7, <1>8, <1>9
<1>11. PICK more : more = IF r = 0 THEN q ELSE Append(q, [buy EXCEPT !.qty = r])
  OBVIOUS
<1>12. PICK after : after = Taken(acc, buy, lot)
  OBVIOUS
<1>13. after.left = l - m /\ after.queue = more /\ after.profit = acc.profit + m * (c - b)
  BY <1>2, <1>3, <1>4, <1>5, <1>6, <1>7, <1>10, <1>11, <1>12, <1>8 DEF Taken
<1>14. PICK M : M = Copies(m, b)
  OBVIOUS
<1>15. PICK R : R = Copies(r, b)
  OBVIOUS
<1>16. PICK Q : Q = QueueShares(q)
  OBVIOUS
<1>17. /\ M \in Seq(Int) /\ Len(M) = m /\ SumSeq(M) = b * m
       /\ m = 0 => M = <<>>
       /\ R \in Seq(Int) /\ r = 0 => R = <<>>
  BY <1>5, <1>7, <1>10, <1>14, <1>15, CopiesProperties
<1>18. R \in Seq(Int)
  BY <1>5, <1>10, <1>15, CopiesProperties
<1>19. Q \in Seq(Int)
  BY <1>3, <1>16, QueueAppend
<1>20. QueueShares(Append(queue, buy)) = (G \o Q) \o (M \o R)
  <2>1. QueueShares(Append(queue, buy)) = QueueShares(queue) \o Copies(n, b)
    BY <1>4, <1>5, QueueAppend
  <2>2. Copies(n, b) = M \o R
    <3>1. Copies(m + r, b) = M \o R
      BY <1>5, <1>14, <1>15, CopiesSplit
    <3> QED BY <1>10, <3>1
  <2> QED BY <1>1, <1>3, <1>16, <2>1, <2>2
<1>21. QueueShares(more) = Q \o R
  <2>1. CASE r = 0
    <3>1. R = <<>> /\ more = q
      BY <1>11, <1>17, <1>18, <2>1
    <3> QED BY <1>16, <1>19, <3>1, ConcatEmptySeq
  <2>2. CASE r # 0
    <3>1. PICK part : part = [buy EXCEPT !.qty = r]
      OBVIOUS
    <3>2. part \in QueueRecord /\ part.qty = r /\ part.price = b
      BY <1>5, <1>10, <2>2, <3>1 DEF QueueRecord
    <3>3. QueueShares(Append(q, part)) = QueueShares(q) \o Copies(part.qty, part.price)
      BY <1>3, <3>2, QueueAppend
    <3> QED BY <1>11, <1>15, <1>16, <2>2, <3>1, <3>2, <3>3
  <2> QED BY <2>1, <2>2
<1>22. m # 0 => l # 0 /\ q = <<>> /\ Q = <<>>
  <2>1. QueueShares(<<>>) = <<>>
    BY <1>3, QueueAppend
  <2> QED BY <1>1, <1>2, <1>3, <1>4, <1>7, <1>16, <1>8, <2>1
<1>23. PICK H : H = G \o M
  OBVIOUS
<1>24. H \in Seq(Int) /\ Len(H) = Len(G) + m /\ SumSeq(H) = SumSeq(G) + b * m
  BY <1>17, <1>23, ConcatProperties, SumOfBoth
<1>25. (G \o Q) \o (M \o R) = H \o (Q \o R)
  <2>1. CASE m = 0
    <3>1. M = <<>> /\ M \o R = R /\ H = G
      BY <1>17, <1>18, <1>23, <2>1, ConcatEmptySeq
    <3>2. (G \o Q) \o R = G \o (Q \o R)
      <4>1. G \in Seq(Int) /\ Q \in Seq(Int) /\ R \in Seq(Int)
        BY <1>1, <1>18, <1>19
      <4> QED BY <4>1, Regroup
    <3> QED BY <3>1, <3>2
  <2>2. CASE m # 0
    <3>1. G \o Q = G /\ Q \o R = R
      <4>1. G \o <<>> = G /\ <<>> \o R = R
        BY <1>18, ConcatEmptySeq
      <4> QED BY <1>22, <2>2, <4>1
    <3>2. (G \o M) \o R = G \o (M \o R)
      <4>1. G \in Seq(Int) /\ M \in Seq(Int) /\ R \in Seq(Int)
        BY <1>1, <1>17, <1>18
      <4> QED BY <4>1, Regroup
    <3> QED BY <1>23, <3>1, <3>2
  <2> QED BY <2>1, <2>2
<1>26. QueueShares(Append(queue, buy)) = H \o QueueShares(after.queue)
  BY <1>13, <1>20, <1>21, <1>25
<1>27. Len(H) + after.left = lot.qty
  <2>1. Len(G) \in Nat
    BY LenProperties
  <2> QED BY <1>1, <1>2, <1>13, <1>24, <2>1
<1>28. after.left # 0 => after.queue = <<>>
  <2>1. SUFFICES ASSUME l - m # 0 PROVE more = <<>>
    BY <1>13
  <2>2. m = n /\ r = 0 /\ l # 0
    BY <1>4, <1>7, <1>10, <1>8, <2>1
  <2> QED BY <1>1, <1>2, <1>3, <1>11, <2>2
<1>29. after.profit = lot.price * Len(H) - SumSeq(H)
  <2>1. PICK k \in Nat : k = Len(G)
    BY LenProperties
  <2>2. PICK t \in Int : t = SumSeq(G)
    BY SumAppend
  <2>3. after.profit = (c * k - t) + m * (c - b)
    BY <1>1, <1>6, <1>13, <2>1, <2>2
  <2>4. c * (k + m) = c * k + c * m /\ m * (c - b) = c * m - b * m
    OBVIOUS
  <2>5. SumSeq(H) = t + b * m /\ Len(H) = k + m
    BY <1>24, <2>1, <2>2
  <2>6. PICK x \in Int, y \in Int, z \in Int : x = c * k /\ y = c * m /\ z = b * m
    OBVIOUS
  <2>7. after.profit = x - t + (y - z) /\ c * (k + m) = x + y /\ SumSeq(H) = t + z
    BY <2>3, <2>4, <2>5, <2>6
  <2>8. after.profit = c * (k + m) - SumSeq(H)
    BY <2>6, <2>7
  <2> QED BY <1>6, <2>5, <2>8
<1> QED BY <1>12, <1>24, <1>26, <1>27, <1>28, <1>29 DEF TakesFirst

LEMMA ConsumeTakesFirst ==
  ASSUME NEW queue \in Seq(QueueRecord), NEW lot \in LotRecord
  PROVE  TakesFirst(queue, Consume(queue, lot), lot) /\ Consume(queue, lot) \in Result
<1>1. PICK n \in Nat : n = Len(queue)
  BY LenProperties
<1> DEFINE Fore(i) == SubSeq(queue, 1, i)
           I == { i \in 0..n : ~TakesFirst(Fore(i), Consume(Fore(i), lot), lot) }
<1>2. /\ Fore(0) = <<>> /\ Fore(n) = queue
      /\ \A i \in 0..n : Fore(i) \in Seq(QueueRecord)
      /\ \A i \in 1..n : queue[i] \in QueueRecord /\ Fore(i) = Append(Fore(i - 1), queue[i])
  BY <1>1, Beginnings
<1> HIDE DEF Fore
<1>3. \A u \in Seq(QueueRecord) : Consume(u, lot) \in Result
  <2>1. PICK buy : buy \in QueueRecord
    <3>1. [qty |-> 1, price |-> 0] \in QueueRecord
      BY DEF QueueRecord
    <3> QED BY <3>1
  <2> QED BY <2>1, ConsumeAppend
<1>4. I = {}
  <2>1. SUFFICES ASSUME I # {} PROVE FALSE
    OBVIOUS
  <2>2. PICK k \in I : \A i \in I : k <= i
    <3> HIDE DEF I
    <3>1. I \in SUBSET Nat
      BY DEF I
    <3> QED BY <2>1, <3>1, NatMinimum
  <2>3. k \in 0..n /\ ~TakesFirst(Fore(k), Consume(Fore(k), lot), lot)
    BY <2>2
  <2>4. k # 0
    <3>1. PICK buy : buy \in QueueRecord
      <4>1. [qty |-> 1, price |-> 0] \in QueueRecord
        BY DEF QueueRecord
      <4> QED BY <4>1
    <3>2. <<>> \in Seq(QueueRecord) /\ <<>> \in Seq(Int) /\ Len(<<>>) = 0
      BY EmptySeq
    <3>3. Consume(<<>>, lot) = Untaken(lot) /\ QueueShares(<<>>) = <<>>
      BY <3>1, <3>2, ConsumeAppend, QueueAppend
    <3>4. SumSeq(<<>>) = 0 /\ <<>> \o <<>> = <<>>
      <4>1. 0 \in Int
        OBVIOUS
      <4> QED BY <3>2, <4>1, SumAppend, ConcatEmptySeq
    <3>5. lot.qty \in Nat /\ lot.price \in Nat
      BY DEF LotRecord
    <3>6. TakesFirst(<<>>, Untaken(lot), lot)
      <4>1. PICK r : r = Untaken(lot)
        OBVIOUS
      <4>2. r.left = lot.qty /\ r.profit = 0 /\ r.queue = <<>>
        BY <4>1 DEF Untaken
      <4>3. lot.price * 0 = 0 /\ 0 + lot.qty = lot.qty /\ 0 - 0 = 0
        BY <3>5
      <4>4. r.profit = lot.price * Len(<<>>) - SumSeq(<<>>) /\ Len(<<>>) + r.left = lot.qty
        BY <3>2, <3>4, <4>2, <4>3
      <4>5. QueueShares(<<>>) = <<>> \o QueueShares(r.queue)
        BY <3>3, <3>4, <4>2
      <4> QED BY <3>2, <4>1, <4>2, <4>4, <4>5 DEF TakesFirst
    <3> QED BY <1>2, <2>3, <3>3, <3>6
  <2>5. k \in 1..n /\ k - 1 \in 0..n /\ ~(k <= k - 1)
    BY <2>3, <2>4
  <2>6. TakesFirst(Fore(k - 1), Consume(Fore(k - 1), lot), lot)
    BY <2>2, <2>5
  <2>7. PICK u \in Seq(QueueRecord), buy \in QueueRecord :
          u = Fore(k - 1) /\ Fore(k) = Append(u, buy)
    BY <1>2, <2>5
  <2>8. Consume(Fore(k), lot) = Taken(Consume(u, lot), buy, lot)
    BY <2>7, ConsumeAppend
  <2>9. TakesFirst(Append(u, buy), Taken(Consume(u, lot), buy, lot), lot)
    BY <1>3, <2>6, <2>7, TakesMore
  <2> QED BY <2>3, <2>7, <2>8, <2>9
<1>5. n \in 0..n
  BY <1>1
<1> QED BY <1>2, <1>3, <1>4, <1>5

-----------------------------------------------------------------------------
(* Totals over the symbols: the values of a table, in any order. *)

Total(f, S) == MapThenSumSet(LAMBDA s : f[s], S)

\* Every collection of subsets of a finite set has a smallest one.
LEMMA MinimalSubset ==
  ASSUME NEW S, IsFiniteSet(S), NEW X \in SUBSET SUBSET S, X # {}
  PROVE  \E M \in X : \A L \in X : L \subseteq M => L = M
<1>1. X \subseteq FiniteSubsetsOf(S)
  <2>1. \A s \in SUBSET S : IsFiniteSet(s)
    BY FS_Subset
  <2> QED
    BY <2>1 DEF FiniteSubsetsOf
<1>2. PICK M \in X : \A L \in X : <<L, M>> \notin StrictSubsetOrdering(S)
  BY <1>1, FS_StrictSubsetOrderingWellFounded, WFMin
<1>3. \A L \in X : <<L, M>> \in (SUBSET S) \X (SUBSET S)
  OBVIOUS
<1> QED
  BY <1>2, <1>3 DEF StrictSubsetOrdering

\* The first member a sum takes, and the function that the sum of f is read
\* off: g is the partial sums over the subsets of S.
First(s) == CHOOSE x \in s : TRUE

PartialSums(g, f, S) ==
  g = [s \in SUBSET S |-> IF s = {} THEN 0 ELSE f[First(s)] + g[s \ {First(s)}]]

LEMMA TotalIsChosen ==
  ASSUME NEW f, NEW S
  PROVE  Total(f, S) = (CHOOSE g : PartialSums(g, f, S))[S]
BY DEF Total, MapThenSumSet, MapThenFoldSet, PartialSums, First

LEMMA PartialSumsAt ==
  ASSUME NEW g, NEW f, NEW S, PartialSums(g, f, S), NEW s \in SUBSET S
  PROVE  /\ s = {} => g[s] = 0
         /\ s # {} => /\ First(s) \in s /\ s \ {First(s)} \in SUBSET S
                      /\ g[s] = f[First(s)] + g[s \ {First(s)}]
<1>1. s # {} => First(s) \in s
  BY DEF First
<1>2. PICK F : F = First(s)
  OBVIOUS
<1>3. g[s] = IF s = {} THEN 0 ELSE f[F] + g[s \ {F}]
  BY <1>2 DEF PartialSums
<1> QED
  BY <1>1, <1>2, <1>3

\* Partial sums over two sets agree on the subsets of both.
LEMMA PartialSumsAgree ==
  ASSUME NEW f, NEW S, NEW T, IsFiniteSet(S), NEW g, NEW h,
         PartialSums(g, f, S), PartialSums(h, f, T)
  PROVE  \A s \in SUBSET S : s \in SUBSET T => g[s] = h[s]
<1> DEFINE X == { s \in SUBSET S : s \in SUBSET T /\ g[s] # h[s] }
<1>1. SUFFICES ASSUME X # {} PROVE FALSE
  OBVIOUS
<1>2. PICK M \in X : \A L \in X : L \subseteq M => L = M
  <2> HIDE DEF X
  <2>1. X \in SUBSET SUBSET S
    BY DEF X
  <2> QED
    BY <1>1, <2>1, MinimalSubset
<1>3. /\ M = {} => g[M] = 0 /\ h[M] = 0
      /\ M # {} => /\ First(M) \in M
                   /\ g[M] = f[First(M)] + g[M \ {First(M)}]
                   /\ h[M] = f[First(M)] + h[M \ {First(M)}]
  BY <1>2, PartialSumsAt
<1>4. M # {}
  BY <1>2, <1>3
<1>5. PICK L : L = M \ {First(M)}
  OBVIOUS
<1>6. L \in SUBSET S /\ L \in SUBSET T /\ L # M /\ L \subseteq M
  BY <1>2, <1>3, <1>4, <1>5
<1>7. g[L] = h[L]
  BY <1>2, <1>6
<1> QED
  BY <1>2, <1>3, <1>4, <1>5, <1>7

\* A finite set has partial sums: a smallest one without them would have
\* those of its subsets, put together.
LEMMA PartialSumsExist ==
  ASSUME NEW f, NEW S, IsFiniteSet(S)
  PROVE  \E g : PartialSums(g, f, S)
<1> DEFINE X == { s \in SUBSET S : \A g : ~PartialSums(g, f, s) }
<1>1. SUFFICES ASSUME X # {} PROVE FALSE
  OBVIOUS
<1>2. PICK M \in X : \A L \in X : L \subseteq M => L = M
  <2> HIDE DEF X
  <2>1. X \in SUBSET SUBSET S
    BY DEF X
  <2> QED
    BY <1>1, <2>1, MinimalSubset
<1> DEFINE G(s) == Total(f, s)
<1>3. ASSUME NEW s \in SUBSET M, s # M
      PROVE  \E g : PartialSums(g, f, s) /\ G(s) = g[s]
  <2>1. \E g : PartialSums(g, f, s)
    BY <1>2, <1>3
  <2>2. PartialSums(CHOOSE g : PartialSums(g, f, s), f, s)
    BY <2>1
  <2> QED
    BY <2>2, TotalIsChosen
<1>4. ASSUME NEW s \in SUBSET M, s # M
      PROVE  G(s) = IF s = {} THEN 0 ELSE f[First(s)] + G(s \ {First(s)})
  <2>1. PICK g : PartialSums(g, f, s) /\ G(s) = g[s]
    BY <1>3, <1>4
  <2>2. CASE s = {}
    BY <2>1, <2>2, PartialSumsAt
  <2>3. CASE s # {}
    <3>1. PICK r : r = s \ {First(s)}
      OBVIOUS
    <3>2. First(s) \in s /\ g[s] = f[First(s)] + g[r]
      BY <2>1, <2>3, <3>1, PartialSumsAt
    <3>3. r \in SUBSET M /\ r # M /\ r \in SUBSET s
      BY <1>4, <3>1, <3>2
    <3>4. PICK h : PartialSums(h, f, r) /\ G(r) = h[r]
      BY <1>3, <3>3
    <3>5. IsFiniteSet(s)
      BY <1>2, <1>4, FS_Subset
    <3>6. g[r] = h[r]
      BY <2>1, <3>3, <3>4, <3>5, PartialSumsAgree
    <3> QED
      BY <2>1, <2>3, <3>1, <3>2, <3>4, <3>6
  <2> QED
    BY <2>2, <2>3
<1> HIDE DEF G
<1>5. PICK top : top = IF M = {} THEN 0 ELSE f[First(M)] + G(M \ {First(M)})
  OBVIOUS
<1>6. PICK g : g = [s \in SUBSET M |-> IF s = M THEN top ELSE G(s)]
  OBVIOUS
<1>7. ASSUME NEW s \in SUBSET M
      PROVE  g[s] = IF s = {} THEN 0 ELSE f[First(s)] + g[s \ {First(s)}]
  <2>1. s # {} => First(s) \in s
    BY DEF First
  <2>2. PICK r : r = s \ {First(s)}
    OBVIOUS
  <2>3. s # {} => r \in SUBSET M /\ r # M
    BY <2>1, <2>2
  <2>4. s # {} => g[r] = G(r)
    BY <1>6, <2>3
  <2>5. g[s] = IF s = M THEN top ELSE G(s)
    BY <1>6
  <2>6. CASE s = M
    BY <1>5, <2>2, <2>4, <2>5, <2>6
  <2>7. CASE s # M
    <3>1. G(s) = IF s = {} THEN 0 ELSE f[First(s)] + G(r)
      BY <1>4, <2>2, <2>7
    <3> QED
      BY <2>2, <2>4, <2>5, <2>7, <3>1
  <2> QED
    BY <2>6, <2>7
<1>8. g = [s \in SUBSET M |-> g[s]]
  BY <1>6
<1>9. g = [s \in SUBSET M |-> IF s = {} THEN 0 ELSE f[First(s)] + g[s \ {First(s)}]]
  BY <1>7, <1>8
<1>10. PartialSums(g, f, M)
  BY <1>9 DEF PartialSums
<1> QED
  BY <1>2, <1>10

\* A sum is what its first member adds to the sum of the others.
LEMMA TotalStep ==
  ASSUME NEW f, NEW S, IsFiniteSet(S)
  PROVE  /\ S = {} => Total(f, S) = 0
         /\ S # {} => /\ First(S) \in S
                      /\ Total(f, S) = f[First(S)] + Total(f, S \ {First(S)})
<1>1. ASSUME NEW T \in SUBSET S
      PROVE  \E g : PartialSums(g, f, T) /\ Total(f, T) = g[T]
  <2>1. \E g : PartialSums(g, f, T)
    BY FS_Subset, PartialSumsExist
  <2>2. PartialSums(CHOOSE g : PartialSums(g, f, T), f, T)
    BY <2>1
  <2> QED
    BY <2>2, TotalIsChosen
<1>2. PICK g : PartialSums(g, f, S) /\ Total(f, S) = g[S]
  BY <1>1
<1>3. CASE S = {}
  BY <1>2, <1>3, PartialSumsAt
<1>4. CASE S # {}
  <2>1. PICK r : r = S \ {First(S)}
    OBVIOUS
  <2>2. First(S) \in S /\ g[S] = f[First(S)] + g[r] /\ r \in SUBSET S
    BY <1>2, <1>4, <2>1, PartialSumsAt
  <2>3. PICK h : PartialSums(h, f, r) /\ Total(f, r) = h[r]
    BY <1>1, <2>2
  <2>4. g[r] = h[r]
    BY <1>2, <2>2, <2>3, PartialSumsAgree
  <2> QED
    BY <1>2, <1>4, <2>1, <2>2, <2>3, <2>4
<1> QED
  BY <1>3, <1>4

\* Totals of tables that add up do too.
LEMMA TotalOfSums ==
  ASSUME NEW S, IsFiniteSet(S), NEW f \in [S -> Int], NEW g \in [S -> Int],
         NEW h \in [S -> Int], \A x \in S : h[x] = f[x] + g[x]
  PROVE  /\ Total(f, S) \in Int /\ Total(g, S) \in Int
         /\ Total(h, S) = Total(f, S) + Total(g, S)
<1> DEFINE Good(s) == /\ Total(f, s) \in Int /\ Total(g, s) \in Int
                      /\ Total(h, s) = Total(f, s) + Total(g, s)
           X == { s \in SUBSET S : ~Good(s) }
<1>1. SUFFICES ASSUME X # {} PROVE FALSE
  OBVIOUS
<1>2. PICK M \in X : \A L \in X : L \subseteq M => L = M
  <2> HIDE DEF X
  <2>1. X \in SUBSET SUBSET S
    BY DEF X
  <2> QED
    BY <1>1, <2>1, MinimalSubset
<1>3. ~Good(M) /\ M \in SUBSET S /\ IsFiniteSet(M)
  BY <1>2, FS_Subset
<1>4. M # {}
  <2>1. M = {} => Total(f, M) = 0 /\ Total(g, M) = 0 /\ Total(h, M) = 0
    BY <1>3, TotalStep
  <2> QED
    BY <1>3, <2>1
<1>5. PICK p : p = First(M)
  OBVIOUS
<1>6. PICK P : P = M \ {p}
  OBVIOUS
<1>7. /\ p \in M /\ Total(f, M) = f[p] + Total(f, P)
      /\ Total(g, M) = g[p] + Total(g, P)
      /\ Total(h, M) = h[p] + Total(h, P)
  BY <1>3, <1>4, <1>5, <1>6, TotalStep
<1>8. Good(P)
  BY <1>2, <1>6, <1>7
<1>9. f[p] \in Int /\ g[p] \in Int /\ h[p] = f[p] + g[p]
  BY <1>3, <1>7
<1> QED
  BY <1>3, <1>7, <1>8, <1>9

\* A table that is zero but at one place.
LEMMA TotalOfOne ==
  ASSUME NEW S, IsFiniteSet(S), NEW y, NEW d \in Int,
         NEW f, \A x \in S : f[x] = IF x = y THEN d ELSE 0
  PROVE  Total(f, S) = IF y \in S THEN d ELSE 0
<1> DEFINE Good(s) == Total(f, s) = IF y \in s THEN d ELSE 0
           X == { s \in SUBSET S : ~Good(s) }
<1>1. SUFFICES ASSUME X # {} PROVE FALSE
  OBVIOUS
<1>2. PICK M \in X : \A L \in X : L \subseteq M => L = M
  <2> HIDE DEF X
  <2>1. X \in SUBSET SUBSET S
    BY DEF X
  <2> QED
    BY <1>1, <2>1, MinimalSubset
<1>3. ~Good(M) /\ M \in SUBSET S /\ IsFiniteSet(M)
  BY <1>2, FS_Subset
<1>4. M # {}
  <2>1. M = {} => Total(f, M) = 0
    BY <1>3, TotalStep
  <2> QED
    BY <1>3, <2>1
<1>5. PICK p : p = First(M)
  OBVIOUS
<1>6. PICK P : P = M \ {p}
  OBVIOUS
<1>7. p \in M /\ Total(f, M) = f[p] + Total(f, P)
  BY <1>3, <1>4, <1>5, <1>6, TotalStep
<1>8. Good(P)
  BY <1>2, <1>6, <1>7
<1>9. f[p] = IF p = y THEN d ELSE 0
  BY <1>3, <1>7
<1> QED
  BY <1>3, <1>6, <1>7, <1>8, <1>9

\* One value changes by d.
LEMMA TotalChanges ==
  ASSUME NEW S, IsFiniteSet(S), NEW f \in [S -> Int], NEW g \in [S -> Int], NEW y \in S,
         NEW d \in Int, g[y] = f[y] + d, \A x \in S : x # y => g[x] = f[x]
  PROVE  Total(g, S) = Total(f, S) + d
<1>1. PICK e : e = [x \in S |-> IF x = y THEN d ELSE 0]
  OBVIOUS
<1>2. e \in [S -> Int] /\ \A x \in S : e[x] = IF x = y THEN d ELSE 0
  BY <1>1
<1>3. \A x \in S : g[x] = f[x] + e[x]
  BY <1>2
<1>4. Total(g, S) = Total(f, S) + Total(e, S)
  BY <1>2, <1>3, TotalOfSums
<1>5. Total(e, S) = d
  BY <1>2, TotalOfOne
<1> QED BY <1>4, <1>5

-----------------------------------------------------------------------------
(* The trade history, replayed against the queues of the symbols *)

Replay == [queues : [Symbols -> Seq(QueueRecord)], profit : Int]

Replays(acc, lot) ==
  IF lot.side = "BUY"
  THEN [acc EXCEPT !.queues[lot.symbol] =
                     Append(@, [qty |-> lot.qty, price |-> lot.price])]
  ELSE LET result == Consume(acc.queues[lot.symbol], lot)
       IN  [queues |-> [acc.queues EXCEPT ![lot.symbol] = result.queue],
            profit |-> acc.profit + result.profit]

Unreplayed == [queues |-> [s \in Symbols |-> <<>>], profit |-> 0]

Replayed(lots) == FoldLeft(Replays, Unreplayed, lots)

Replaying == [x \in Replay \X LotRecord |-> Replays(x[1], x[2])]

ReplayTable(g, lots) ==
  g = [s \in SUBSET DOMAIN lots |->
         IF s = {} THEN Unreplayed ELSE Replays(g[s \ {Max(s)}], lots[Max(s)])]

LEMMA RealizedIsReplayed ==
  ASSUME NEW lots
  PROVE  RealizedProfit(lots) = Replayed(lots).profit
BY DEF RealizedProfit, Replayed, FoldLeft, MapThenFoldSet, Replays, Unreplayed

LEMMA ReplayedIsChosen ==
  ASSUME NEW lots
  PROVE  Replayed(lots) = (CHOOSE g : ReplayTable(g, lots))[DOMAIN lots]
BY DEF Replayed, FoldLeft, MapThenFoldSet, ReplayTable

\* One lot: a BUY joins the queue of its symbol, a SELL takes from it.
LEMMA ReplaysOne ==
  ASSUME NEW acc \in Replay, NEW lot \in LotRecord
  PROVE  /\ Replays(acc, lot) \in Replay
         /\ \A t \in Symbols : t # lot.symbol => Replays(acc, lot).queues[t] = acc.queues[t]
         /\ lot.side = "BUY" =>
              /\ Replays(acc, lot).profit = acc.profit
              /\ Replays(acc, lot).queues[lot.symbol]
                   = Append(acc.queues[lot.symbol], [qty |-> lot.qty, price |-> lot.price])
         /\ lot.side # "BUY" =>
              LET result == Consume(acc.queues[lot.symbol], lot)
              IN  /\ Replays(acc, lot).profit = acc.profit + result.profit
                  /\ Replays(acc, lot).queues[lot.symbol] = result.queue
<1>1. PICK s \in Symbols : s = lot.symbol
  BY DEF LotRecord
<1>2. PICK queues \in [Symbols -> Seq(QueueRecord)] : queues = acc.queues
  BY DEF Replay
<1>3. acc.profit \in Int /\ queues[s] \in Seq(QueueRecord)
  BY <1>1, <1>2 DEF Replay
<1>4. CASE lot.side = "BUY"
  <2>1. PICK q : q = Append(queues[s], [qty |-> lot.qty, price |-> lot.price])
    OBVIOUS
  <2>2. q \in Seq(QueueRecord)
    <3>1. [qty |-> lot.qty, price |-> lot.price] \in QueueRecord
      BY DEF LotRecord, QueueRecord
    <3> QED BY <1>3, <2>1, <3>1, AppendProperties
  <2>3. PICK next : next = [queues EXCEPT ![s] = q]
    OBVIOUS
  <2>4. /\ next \in [Symbols -> Seq(QueueRecord)] /\ next[s] = q
        /\ \A t \in Symbols : t # s => next[t] = queues[t]
    BY <1>1, <1>2, <2>2, <2>3, OneChanged
  <2>5. Replays(acc, lot) = [acc EXCEPT !.queues = next]
    BY <1>1, <1>2, <1>4, <2>1, <2>3 DEF Replays, Replay
  <2>6. Replays(acc, lot) \in Replay /\ Replays(acc, lot).queues = next
        /\ Replays(acc, lot).profit = acc.profit
    BY <2>4, <2>5 DEF Replay
  <2> QED BY <1>1, <1>2, <1>4, <2>1, <2>4, <2>6
<1>5. CASE lot.side # "BUY"
  <2>1. PICK result : result = Consume(queues[s], lot)
    OBVIOUS
  <2>2. result \in Result
    BY <1>3, <2>1, ConsumeTakesFirst
  <2>3. result.queue \in Seq(QueueRecord) /\ result.profit \in Int
    BY <2>2 DEF Result
  <2>4. PICK next : next = [queues EXCEPT ![s] = result.queue]
    OBVIOUS
  <2>5. /\ next \in [Symbols -> Seq(QueueRecord)] /\ next[s] = result.queue
        /\ \A t \in Symbols : t # s => next[t] = queues[t]
    BY <1>1, <1>2, <2>3, <2>4, OneChanged
  <2>6. Replays(acc, lot) = [queues |-> next, profit |-> acc.profit + result.profit]
    BY <1>1, <1>2, <1>5, <2>1, <2>4 DEF Replays
  <2>7. acc.profit + result.profit \in Int
    BY <1>3, <2>3
  <2>8. Replays(acc, lot) \in Replay
    BY <2>5, <2>6, <2>7 DEF Replay
  <2> QED BY <1>1, <1>2, <1>5, <2>1, <2>5, <2>6, <2>8
<1> QED BY <1>4, <1>5

LEMMA ReplayingProperties ==
  /\ Replaying \in [Replay \X LotRecord -> Replay] /\ Unreplayed \in Replay
  /\ \A acc \in Replay, lot \in LotRecord : Replaying[<<acc, lot>>] = Replays(acc, lot)
<1>1. \A acc \in Replay, lot \in LotRecord : Replays(acc, lot) \in Replay
  BY ReplaysOne
<1>2. Replaying \in [Replay \X LotRecord -> Replay]
  BY <1>1 DEF Replaying
<1>3. Unreplayed \in Replay
  <2>1. <<>> \in Seq(QueueRecord)
    BY EmptySeq
  <2> QED BY <2>1 DEF Unreplayed, Replay
<1>4. \A acc \in Replay, lot \in LotRecord : Replaying[<<acc, lot>>] = Replays(acc, lot)
  BY DEF Replaying
<1> QED BY <1>2, <1>3, <1>4

LEMMA ReplayChain ==
  ASSUME NEW lots, NEW n \in Nat, DOMAIN lots = 1..n, Members(lots, n, LotRecord)
  PROVE  Reaches(Replayed(lots), Replaying, Unreplayed, lots, n, Replay)
<1>1. \A i \in 1..n : lots[i] \in LotRecord
  BY DEF Members
<1>2. \A s \in SUBSET (1..n) : s # {} => Max(s) \in 1..n /\ s \ {Max(s)} \in SUBSET (1..n)
  BY LastOf
<1>3. PICK g \in [SUBSET (1..n) -> Replay] : Folds(g, Replaying, Unreplayed, lots, n)
  BY ReplayingProperties, FoldExists
<1>4. ReplayTable(g, lots)
  <2>1. ASSUME NEW s \in SUBSET (1..n)
        PROVE  g[s] = IF s = {} THEN Unreplayed
                      ELSE Replays(g[s \ {Max(s)}], lots[Max(s)])
    <3>1. CASE s = {}
      BY <1>3, <3>1 DEF FoldAt, Folds
    <3>2. CASE s # {}
      <4>1. g[s] = Replaying[<<g[s \ {Max(s)}], lots[Max(s)]>>]
        BY <1>3, <3>2 DEF FoldAt, Folds
      <4>2. g[s \ {Max(s)}] \in Replay /\ lots[Max(s)] \in LotRecord
        BY <1>1, <1>2, <1>3, <3>2
      <4> QED BY <3>2, <4>1, <4>2, ReplayingProperties
    <3> QED BY <3>1, <3>2
  <2>2. g = [s \in SUBSET (1..n) |-> g[s]]
    BY <1>3
  <2>3. g = [s \in SUBSET (1..n) |->
               IF s = {} THEN Unreplayed ELSE Replays(g[s \ {Max(s)}], lots[Max(s)])]
    BY <2>1, <2>2
  <2> QED BY <2>3 DEF ReplayTable
<1>5. PICK f : ReplayTable(f, lots) /\ Replayed(lots) = f[1..n]
  <2>1. ReplayTable(CHOOSE f : ReplayTable(f, lots), lots)
    BY <1>4
  <2> QED BY <2>1, ReplayedIsChosen
<1>6. ASSUME NEW s \in SUBSET (1..n)
      PROVE  f[s] = IF s = {} THEN Unreplayed
                    ELSE Replays(f[s \ {Max(s)}], lots[Max(s)])
  BY <1>5 DEF ReplayTable
<1>7. Computes(f, Replaying, Unreplayed, lots, n, Replay)
  <2>1. f[{}] = Unreplayed
    <3>1. {} \in SUBSET (1..n)
      OBVIOUS
    <3> QED BY <1>6, <3>1
  <2>2. ASSUME NEW s \in SUBSET (1..n), s # {}, f[s \ {Max(s)}] \in Replay
        PROVE  FoldAt(f, Replaying, Unreplayed, lots, s)
    <3>1. lots[Max(s)] \in LotRecord
      BY <1>1, <1>2, <2>2
    <3>2. f[s] = Replaying[<<f[s \ {Max(s)}], lots[Max(s)]>>]
      BY <1>6, <2>2, <3>1, ReplayingProperties
    <3> QED BY <2>2, <3>2 DEF FoldAt
  <2> QED BY <2>1, <2>2 DEF Computes
<1>8. Reaches(f[1..n], Replaying, Unreplayed, lots, n, Replay)
  BY <1>7, ReplayingProperties, FoldIsChain
<1> QED BY <1>5, <1>8

LEMMA ReplayAppend ==
  ASSUME NEW lots \in Seq(LotRecord)
  PROVE  /\ Replayed(<<>>) = Unreplayed
         /\ Replayed(lots) \in Replay
         /\ \A lot \in LotRecord : Replayed(Append(lots, lot)) = Replays(Replayed(lots), lot)
<1>1. ASSUME NEW u \in Seq(LotRecord), NEW k \in Nat, k = Len(u)
      PROVE  Reaches(Replayed(u), Replaying, Unreplayed, u, k, Replay)
  <2>1. DOMAIN u = 1..k /\ Members(u, k, LotRecord)
    BY <1>1, ElementOfSeq, LenProperties DEF Members
  <2> QED BY <2>1, ReplayChain
<1>2. PICK n \in Nat : n = Len(lots)
  BY LenProperties
<1>3. Reaches(Replayed(lots), Replaying, Unreplayed, lots, n, Replay)
  BY <1>1, <1>2
<1>4. Replayed(<<>>) = Unreplayed
  <2>1. <<>> \in Seq(LotRecord) /\ Len(<<>>) = 0 /\ 0 \in Nat
    BY EmptySeq
  <2>2. Reaches(Replayed(<<>>), Replaying, Unreplayed, <<>>, 0, Replay)
    BY <1>1, <2>1
  <2> QED BY <2>2 DEF Chain, Reaches
<1>5. ASSUME NEW lot \in LotRecord
      PROVE  Replayed(Append(lots, lot)) = Replays(Replayed(lots), lot)
  <2>1. PICK more : more = Append(lots, lot)
    OBVIOUS
  <2>2. /\ more \in Seq(LotRecord) /\ Len(more) = n + 1 /\ more[n + 1] = lot
        /\ StartsAs(more, lots, n)
    BY <1>2, <2>1, AppendProperties DEF StartsAs
  <2>3. Reaches(Replayed(more), Replaying, Unreplayed, more, n + 1, Replay)
    <3>1. n + 1 \in Nat
      BY <1>2
    <3> QED BY <1>1, <2>2, <3>1
  <2>4. PICK v : v = Replayed(lots)
    OBVIOUS
  <2>5. PICK w : w = Replayed(more)
    OBVIOUS
  <2>6. v \in Replay /\ w = Replaying[<<v, more[n + 1]>>]
    <3>1. /\ Reaches(v, Replaying, Unreplayed, lots, n, Replay)
          /\ Reaches(w, Replaying, Unreplayed, more, n + 1, Replay)
          /\ StartsAs(more, lots, n)
      BY <1>3, <2>2, <2>3, <2>4, <2>5
    <3> QED BY <1>2, <3>1, ChainGrows
  <2> QED BY <2>1, <2>2, <2>4, <2>5, <2>6, ReplayingProperties
<1>6. Replayed(lots) \in Replay
  BY <1>3 DEF Reaches
<1> QED BY <1>4, <1>5, <1>6

\* The shares of s that were bought are those that were sold since, and then those in
\* the queue, which are the position.
QueueOK(lots, queue, held_, s) ==
  \E G \in Seq(Int) :
    /\ ShareByShare(lots, "BUY", s) = G \o QueueShares(queue)
    /\ Len(G) = Len(ShareByShare(lots, "SELL", s))
    /\ Len(QueueShares(queue)) = held_

\* What was paid for the shares in each queue.
Worth(queues) == [s \in Symbols |-> SumSeq(QueueShares(queues[s]))]

LedgerOK(account) ==
  LET now == Replayed(account.lots)
  IN  /\ \A s \in Symbols : QueueOK(account.lots, now.queues[s], account.held[s], s)
      /\ account.cash
           = SumSeq(account.flows) + now.profit - Total(Worth(now.queues), Symbols)

\* What one more lot adds to the shares that were moved.
LEMMA OneLotMore ==
  ASSUME NEW lots \in Seq(LotRecord), NEW lot \in LotRecord, NEW side, NEW s
  PROVE  /\ ShareByShare(lots, side, s) \in Seq(Int)
         /\ Moves(lot, side, s) =>
              ShareByShare(Append(lots, lot), side, s)
                = ShareByShare(lots, side, s) \o Copies(lot.qty, lot.price)
         /\ ~Moves(lot, side, s) =>
              ShareByShare(Append(lots, lot), side, s) = ShareByShare(lots, side, s)
<1>1. PICK u : u = ShareByShare(lots, side, s)
  OBVIOUS
<1>2. u \in Seq(Nat) /\ ShareByShare(Append(lots, lot), side, s) = u \o Pieces(lot, side, s)
  BY <1>1, SharesAppend
<1>3. u \in Seq(Int)
  <2>1. PICK n \in Nat : n = Len(u) /\ u \in [1..n -> Nat]
    BY <1>2, LenProperties, ElementOfSeq
  <2>2. u \in [1..n -> Int]
    BY <2>1
  <2> QED BY <2>1, <2>2, SeqDef
<1>4. CASE Moves(lot, side, s)
  <2>1. Pieces(lot, side, s) = Copies(lot.qty, lot.price)
    BY <1>4 DEF Pieces, Copies
  <2> QED BY <1>1, <1>2, <1>3, <1>4, <2>1
<1>5. CASE ~Moves(lot, side, s)
  <2>1. Pieces(lot, side, s) = <<>> /\ u \o <<>> = u
    BY <1>3, <1>5, ConcatEmptySeq DEF Pieces
  <2> QED BY <1>1, <1>2, <1>3, <1>5, <2>1
<1> QED BY <1>4, <1>5

\* A lot of one side leaves the shares of the other as they were.
LEMMA BuyMoves ==
  ASSUME NEW lots \in Seq(LotRecord), NEW lot \in LotRecord, NEW s, Moves(lot, "BUY", s)
  PROVE  /\ ShareByShare(Append(lots, lot), "BUY", s)
              = ShareByShare(lots, "BUY", s) \o Copies(lot.qty, lot.price)
         /\ ShareByShare(Append(lots, lot), "SELL", s) = ShareByShare(lots, "SELL", s)
<1>1. ~Moves(lot, "SELL", s)
  BY DEF Moves
<1>2. ShareByShare(Append(lots, lot), "BUY", s)
        = ShareByShare(lots, "BUY", s) \o Copies(lot.qty, lot.price)
  BY OneLotMore
<1>3. ShareByShare(Append(lots, lot), "SELL", s) = ShareByShare(lots, "SELL", s)
  BY <1>1, OneLotMore
<1> QED BY <1>2, <1>3

LEMMA SellMoves ==
  ASSUME NEW lots \in Seq(LotRecord), NEW lot \in LotRecord, NEW s, Moves(lot, "SELL", s)
  PROVE  /\ ShareByShare(Append(lots, lot), "SELL", s)
              = ShareByShare(lots, "SELL", s) \o Copies(lot.qty, lot.price)
         /\ ShareByShare(Append(lots, lot), "BUY", s) = ShareByShare(lots, "BUY", s)
         /\ ShareByShare(lots, "SELL", s) \in Seq(Int)
<1>1. ~Moves(lot, "BUY", s)
  BY DEF Moves
<1>2. ShareByShare(Append(lots, lot), "SELL", s)
        = ShareByShare(lots, "SELL", s) \o Copies(lot.qty, lot.price)
  BY OneLotMore
<1>3. ShareByShare(Append(lots, lot), "BUY", s) = ShareByShare(lots, "BUY", s)
  BY <1>1, OneLotMore
<1>4. ShareByShare(lots, "SELL", s) \in Seq(Int)
  BY OneLotMore
<1> QED BY <1>2, <1>3, <1>4

\* The queue is worth c more.
WorthMore(queue, more, c) == SumSeq(QueueShares(more)) = SumSeq(QueueShares(queue)) + c

LEMMA QueueGrows ==
  ASSUME NEW lots \in Seq(LotRecord), NEW queue \in Seq(QueueRecord), NEW shares \in Nat,
         NEW s \in Symbols, NEW price \in Nat, NEW qty \in Nat \ {0},
         QueueOK(lots, queue, shares, s), NEW lot, lot = Lot("BUY", s, price, qty),
         NEW more, more = Append(queue, [qty |-> qty, price |-> price])
  PROVE  /\ QueueOK(Append(lots, lot), more, shares + qty, s)
         /\ WorthMore(queue, more, SumSeq(Copies(qty, price)))
<1>1. /\ lot \in LotRecord /\ Moves(lot, "BUY", s)
      /\ lot.qty = qty /\ lot.price = price
  <2>1. /\ Lot("BUY", s, price, qty) \in LotRecord
        /\ Lot("BUY", s, price, qty).side = "BUY" /\ Lot("BUY", s, price, qty).symbol = s
        /\ Lot("BUY", s, price, qty).qty = qty /\ Lot("BUY", s, price, qty).price = price
    BY LotIsRecord DEF Lot
  <2> QED BY <2>1 DEF Moves
<1>2. PICK buy \in QueueRecord : buy = [qty |-> qty, price |-> price]
  BY DEF QueueRecord
<1>3. PICK C : C = Copies(qty, price)
  OBVIOUS
<1>4. C \in Seq(Int) /\ Len(C) = qty /\ SumSeq(C) = price * qty
  BY <1>3, CopiesProperties
<1>5. PICK Q : Q = QueueShares(queue)
  OBVIOUS
<1>6. Q \in Seq(Int) /\ QueueShares(Append(queue, buy)) = Q \o C
  <2>1. buy.qty = qty /\ buy.price = price
    BY <1>2
  <2> QED BY <1>2, <1>3, <1>5, <2>1, QueueAppend
<1>7. PICK G : /\ G \in Seq(Int) /\ ShareByShare(lots, "BUY", s) = G \o Q
               /\ Len(G) = Len(ShareByShare(lots, "SELL", s)) /\ Len(Q) = shares
  BY <1>5 DEF QueueOK
<1>8. /\ ShareByShare(Append(lots, lot), "BUY", s) = (G \o Q) \o C
      /\ ShareByShare(Append(lots, lot), "SELL", s) = ShareByShare(lots, "SELL", s)
  <2>1. /\ ShareByShare(Append(lots, lot), "BUY", s)
             = ShareByShare(lots, "BUY", s) \o Copies(lot.qty, lot.price)
        /\ ShareByShare(Append(lots, lot), "SELL", s) = ShareByShare(lots, "SELL", s)
    BY <1>1, BuyMoves
  <2>2. Copies(lot.qty, lot.price) = C
    BY <1>1, <1>3
  <2> QED BY <1>7, <2>1, <2>2, Zenon
<1>9. (G \o Q) \o C = G \o (Q \o C)
  BY <1>4, <1>6, <1>7, Regroup
<1>10. Len(Q \o C) = shares + qty /\ SumSeq(Q \o C) = SumSeq(Q) + SumSeq(C)
  BY <1>4, <1>6, <1>7, ConcatProperties, SumOfBoth
<1>11. QueueOK(Append(lots, lot), Append(queue, buy), shares + qty, s)
  BY <1>6, <1>7, <1>8, <1>9, <1>10 DEF QueueOK
<1>12. SumSeq(QueueShares(more)) = SumSeq(QueueShares(queue)) + SumSeq(Copies(qty, price))
  BY <1>2, <1>3, <1>5, <1>6, <1>10, Zenon
<1> QED BY <1>2, <1>11, <1>12, Zenon DEF WorthMore

LEMMA QueueShrinks ==
  ASSUME NEW lots \in Seq(LotRecord), NEW queue \in Seq(QueueRecord), NEW shares \in Nat,
         NEW s \in Symbols, NEW price \in Nat, NEW qty \in Nat \ {0}, shares >= qty,
         QueueOK(lots, queue, shares, s), NEW lot, lot = Lot("SELL", s, price, qty),
         NEW result, result = Consume(queue, lot)
  PROVE  /\ QueueOK(Append(lots, lot), result.queue, shares - qty, s)
         /\ result.profit = SumSeq(Copies(qty, price)) - SumSeq(QueueShares(queue))
                              + SumSeq(QueueShares(result.queue))
<1>1. /\ lot \in LotRecord /\ Moves(lot, "SELL", s)
      /\ lot.qty = qty /\ lot.price = price
  <2>1. /\ Lot("SELL", s, price, qty) \in LotRecord
        /\ Lot("SELL", s, price, qty).side = "SELL" /\ Lot("SELL", s, price, qty).symbol = s
        /\ Lot("SELL", s, price, qty).qty = qty /\ Lot("SELL", s, price, qty).price = price
    BY LotIsRecord DEF Lot
  <2> QED BY <2>1 DEF Moves
<1>2. result \in Result /\ TakesFirst(queue, result, lot)
  BY <1>1, ConsumeTakesFirst
<1>3. PICK left \in Nat : left = result.left
  BY <1>2 DEF Result
<1>4. PICK rest \in Seq(QueueRecord) : rest = result.queue
  BY <1>2 DEF Result
<1>5. PICK R : R = QueueShares(rest)
  OBVIOUS
<1>6. PICK Q : Q = QueueShares(queue)
  OBVIOUS
<1>7. /\ R \in Seq(Int) /\ Q \in Seq(Int) /\ QueueShares(<<>>) = <<>>
  <2>1. [qty |-> 1, price |-> 0] \in QueueRecord
    BY DEF QueueRecord
  <2> QED BY <1>4, <1>5, <1>6, <2>1, QueueAppend
<1>8. PICK H : /\ H \in Seq(Int) /\ Q = H \o R
               /\ Len(H) + left = qty /\ (left # 0 => rest = <<>>)
               /\ result.profit = price * Len(H) - SumSeq(H)
  BY <1>1, <1>2, <1>3, <1>4, <1>5, <1>6 DEF TakesFirst
<1>9. PICK G : /\ G \in Seq(Int) /\ ShareByShare(lots, "BUY", s) = G \o Q
                /\ Len(G) = Len(ShareByShare(lots, "SELL", s)) /\ Len(Q) = shares
  BY <1>6 DEF QueueOK
<1>10. PICK x \in Nat, y \in Nat : x = Len(H) /\ y = Len(R)
  BY <1>7, <1>8, LenProperties
<1>11. shares = x + y /\ SumSeq(Q) = SumSeq(H) + SumSeq(R)
       /\ SumSeq(H) \in Int /\ SumSeq(R) \in Int
  <2>1. Len(H \o R) = Len(H) + Len(R) /\ SumSeq(H \o R) = SumSeq(H) + SumSeq(R)
    BY <1>7, <1>8, ConcatProperties, SumOfBoth
  <2>2. SumSeq(H) \in Int /\ SumSeq(R) \in Int
    BY <1>7, <1>8, SumAppend
  <2> QED BY <1>8, <1>9, <1>10, <2>1, <2>2
<1>12. x = qty /\ y = shares - qty
  <2>1. left # 0 => y = 0
    <3>1. left # 0 => R = <<>>
      BY <1>5, <1>7, <1>8
    <3> QED BY <1>10, <3>1, EmptySeq
  <2>2. x + left = qty
    BY <1>8, <1>10
  <2> QED BY <1>11, <2>1, <2>2
<1>13. result.profit = SumSeq(Copies(qty, price)) - SumSeq(Q) + SumSeq(R)
  <2>1. qty \in Nat /\ price \in Int
    OBVIOUS
  <2>2. SumSeq(Copies(qty, price)) = price * qty
    BY <2>1, CopiesProperties, Zenon
  <2>3. PICK z \in Int : z = price * qty
    OBVIOUS
  <2>4. z = SumSeq(Copies(qty, price))
    BY <2>2, <2>3, Zenon
  <2>5. result.profit = z - SumSeq(H)
    BY <1>8, <1>10, <1>12, <2>3
  <2>6. PICK h \in Int, r \in Int : h = SumSeq(H) /\ r = SumSeq(R)
    BY <1>11
  <2>7. SumSeq(Q) = h + r
    BY <1>11, <2>6, Zenon
  <2>8. z - h = z - (h + r) + r
    BY <2>3, <2>6
  <2>9. result.profit = z - h
    BY <2>5, <2>6, Zenon
  <2> QED BY <2>4, <2>6, <2>7, <2>8, <2>9, Zenon
<1>14. PICK C : C = Copies(qty, price)
  OBVIOUS
<1>15. C \in Seq(Int) /\ Len(C) = qty
  BY <1>14, CopiesProperties
<1>16. PICK S : S = ShareByShare(lots, "SELL", s)
  OBVIOUS
<1>17. /\ S \in Seq(Int)
       /\ ShareByShare(Append(lots, lot), "BUY", s) = G \o (H \o R)
       /\ ShareByShare(Append(lots, lot), "SELL", s) = S \o C
  <2>1. /\ S \in Seq(Int)
        /\ ShareByShare(Append(lots, lot), "BUY", s) = ShareByShare(lots, "BUY", s)
        /\ ShareByShare(Append(lots, lot), "SELL", s)
             = ShareByShare(lots, "SELL", s) \o Copies(lot.qty, lot.price)
    BY <1>1, <1>16, SellMoves
  <2>2. Copies(lot.qty, lot.price) = C
    BY <1>1, <1>14
  <2>3. ShareByShare(lots, "BUY", s) = G \o (H \o R)
    BY <1>8, <1>9, Zenon
  <2> QED BY <1>16, <2>1, <2>2, <2>3, Zenon
<1>18. (G \o H) \o R = G \o (H \o R)
  BY <1>7, <1>8, <1>9, Regroup
<1>19. G \o H \in Seq(Int) /\ Len(G \o H) = Len(S \o C)
  <2>1. Len(G \o H) = Len(G) + Len(H) /\ Len(S \o C) = Len(S) + Len(C) /\ G \o H \in Seq(Int)
    <3>1. G \in Seq(Int) /\ H \in Seq(Int) /\ S \in Seq(Int) /\ C \in Seq(Int)
      BY <1>8, <1>9, <1>15, <1>17
    <3> QED BY <3>1, ConcatProperties
  <2> QED BY <1>9, <1>10, <1>12, <1>15, <1>16, <2>1
<1>20. QueueOK(Append(lots, lot), rest, shares - qty, s)
  <2>1. PICK B : B = G \o H
    OBVIOUS
  <2>2. /\ B \in Seq(Int) /\ ShareByShare(Append(lots, lot), "BUY", s) = B \o R
        /\ Len(B) = Len(ShareByShare(Append(lots, lot), "SELL", s))
        /\ Len(R) = shares - qty
    BY <1>10, <1>12, <1>17, <1>18, <1>19, <2>1
  <2> QED BY <1>5, <2>2 DEF QueueOK
<1>21. result.profit = SumSeq(Copies(qty, price)) - SumSeq(QueueShares(queue))
                         + SumSeq(QueueShares(result.queue))
  BY <1>4, <1>5, <1>6, <1>13, Zenon
<1> QED BY <1>4, <1>20, <1>21, Zenon

\* A lot of another symbol changes nothing.
LEMMA QueueKept ==
  ASSUME NEW lots \in Seq(LotRecord), NEW queue, NEW shares, NEW s, NEW lot \in LotRecord,
         lot.symbol # s, QueueOK(lots, queue, shares, s)
  PROVE  QueueOK(Append(lots, lot), queue, shares, s)
<1>1. /\ ShareByShare(Append(lots, lot), "BUY", s) = ShareByShare(lots, "BUY", s)
      /\ ShareByShare(Append(lots, lot), "SELL", s) = ShareByShare(lots, "SELL", s)
  BY OneLotMore DEF Moves
<1> QED BY <1>1 DEF QueueOK

\* The queues of a history, as a function of the symbol with what they are worth.
LEMMA WorthProperties ==
  ASSUME NEW queues \in [Symbols -> Seq(QueueRecord)]
  PROVE  /\ Worth(queues) \in [Symbols -> Int]
         /\ \A s \in Symbols : Worth(queues)[s] = SumSeq(QueueShares(queues[s]))
<1>1. ASSUME NEW q \in Seq(QueueRecord)
      PROVE  SumSeq(QueueShares(q)) \in Int
  <2>1. [qty |-> 1, price |-> 0] \in QueueRecord
    BY DEF QueueRecord
  <2>2. QueueShares(q) \in Seq(Int)
    BY <2>1, QueueAppend
  <2>3. 0 \in Int
    OBVIOUS
  <2> QED BY <2>2, <2>3, SumAppend
<1> QED BY <1>1 DEF Worth

\* A lot of s has moved shares of s alone, d more is in its queue, and the cash follows.
LotDone(account, after, lot, s, d) ==
  LET old == Replayed(account.lots)
      new == Replayed(after.lots)
  IN  /\ after.lots = Append(account.lots, lot) /\ after.flows = account.flows
      /\ \A t \in Symbols : t # s => after.held[t] = account.held[t]
      /\ QueueOK(after.lots, new.queues[s], after.held[s], s)
      /\ SumSeq(QueueShares(new.queues[s])) = SumSeq(QueueShares(old.queues[s])) + d
      /\ after.cash - new.profit = account.cash - old.profit - d

LEMMA LedgerMoves ==
  ASSUME NEW account \in AccountRecord, LedgerOK(account), NEW after \in AccountRecord,
         NEW lot \in LotRecord, NEW s \in Symbols, lot.symbol = s, NEW d \in Int,
         LotDone(account, after, lot, s, d)
  PROVE  LedgerOK(after)
<1> DEFINE old == Replayed(account.lots)
           new == Replayed(after.lots)
<1>1. /\ after.lots = Append(account.lots, lot) /\ after.flows = account.flows
      /\ \A t \in Symbols : t # s => after.held[t] = account.held[t]
      /\ QueueOK(after.lots, new.queues[s], after.held[s], s)
      /\ SumSeq(QueueShares(new.queues[s])) = SumSeq(QueueShares(old.queues[s])) + d
      /\ after.cash - new.profit = account.cash - old.profit - d
  BY DEF LotDone
<1>2. /\ \A t \in Symbols : QueueOK(account.lots, old.queues[t], account.held[t], t)
      /\ account.cash = SumSeq(account.flows) + old.profit - Total(Worth(old.queues), Symbols)
  BY DEF LedgerOK
<1>3. SUFFICES /\ \A t \in Symbols : QueueOK(after.lots, new.queues[t], after.held[t], t)
                /\ after.cash = SumSeq(after.flows) + new.profit - Total(Worth(new.queues), Symbols)
  BY DEF LedgerOK
<1>4. account.lots \in Seq(LotRecord) /\ account.flows \in Seq(Int) /\ account.cash \in Int
      /\ after.cash \in Int
  BY DEF AccountRecord
<1>5. old \in Replay /\ new \in Replay /\ new = Replays(old, lot)
  <2>1. old \in Replay /\ Replayed(Append(account.lots, lot)) = Replays(Replayed(account.lots), lot)
    BY <1>4, ReplayAppend
  <2> QED BY <1>1, <2>1, ReplaysOne
<1> HIDE DEF old, new
<1>6. \A t \in Symbols : t # s => new.queues[t] = old.queues[t]
  <2>1. \A t \in Symbols : t # lot.symbol => Replays(old, lot).queues[t] = old.queues[t]
    BY <1>5, ReplaysOne
  <2> QED BY <1>5, <2>1
<1>7. ASSUME NEW t \in Symbols
      PROVE  QueueOK(after.lots, new.queues[t], after.held[t], t)
  <2>1. CASE t = s
    <3>1. QueueOK(after.lots, new.queues[s], after.held[s], s)
      BY <1>1
    <3> QED BY <2>1, <3>1, Zenon
  <2>2. CASE t # s
    <3>1. QueueOK(account.lots, old.queues[t], account.held[t], t)
      BY <1>2
    <3>2. QueueOK(Append(account.lots, lot), old.queues[t], account.held[t], t)
      BY <1>4, <2>2, <3>1, QueueKept
    <3>3. after.held[t] = account.held[t] /\ after.lots = Append(account.lots, lot)
      BY <1>1, <2>2
    <3> QED BY <1>6, <2>2, <3>2, <3>3
  <2> QED BY <2>1, <2>2
<1>8. PICK f : f = Worth(old.queues)
  OBVIOUS
<1>9. PICK g : g = Worth(new.queues)
  OBVIOUS
<1>10. /\ f \in [Symbols -> Int] /\ g \in [Symbols -> Int]
      /\ g[s] = f[s] + d /\ \A t \in Symbols : t # s => g[t] = f[t]
  <2>1. old.queues \in [Symbols -> Seq(QueueRecord)] /\ new.queues \in [Symbols -> Seq(QueueRecord)]
    BY <1>5 DEF Replay
  <2>2. \A t \in Symbols : /\ f[t] = SumSeq(QueueShares(old.queues[t]))
                           /\ g[t] = SumSeq(QueueShares(new.queues[t]))
    BY <1>8, <1>9, <2>1, WorthProperties
  <2>3. f \in [Symbols -> Int] /\ g \in [Symbols -> Int]
    BY <1>8, <1>9, <2>1, WorthProperties
  <2>4. g[s] = f[s] + d
    <3>1. SumSeq(QueueShares(new.queues[s])) = SumSeq(QueueShares(old.queues[s])) + d
      BY <1>1
    <3>2. /\ f[s] = SumSeq(QueueShares(old.queues[s]))
          /\ g[s] = SumSeq(QueueShares(new.queues[s]))
      BY <2>2
    <3> QED BY <3>1, <3>2, Zenon
  <2>5. ASSUME NEW t \in Symbols, t # s
        PROVE  g[t] = f[t]
    <3>1. new.queues[t] = old.queues[t]
      BY <1>6, <2>5
    <3>2. /\ f[t] = SumSeq(QueueShares(old.queues[t]))
          /\ g[t] = SumSeq(QueueShares(new.queues[t]))
      BY <2>2
    <3> QED BY <3>1, <3>2, Zenon
  <2> QED BY <2>3, <2>4, <2>5
<1>11. Total(g, Symbols) = Total(f, Symbols) + d /\ Total(f, Symbols) \in Int
  <2>1. IsFiniteSet(Symbols)
    BY PlayersAssumption
  <2>2. Total(g, Symbols) = Total(f, Symbols) + d
    BY <1>10, <2>1, TotalChanges
  <2>3. Total(f, Symbols) \in Int
    <3>1. PICK z : z = [t \in Symbols |-> 0]
      OBVIOUS
    <3>2. z \in [Symbols -> Int] /\ \A t \in Symbols : f[t] = f[t] + z[t]
      BY <1>10, <3>1
    <3> QED BY <1>10, <2>1, <3>2, TotalOfSums
  <2> QED BY <2>2, <2>3
<1>12. PICK p \in Int, q \in Int : p = old.profit /\ q = new.profit
  BY <1>5 DEF Replay
<1>13. PICK total \in Int : total = SumSeq(account.flows)
  <2>1. 0 \in Int
    OBVIOUS
  <2> QED BY <1>4, <2>1, SumAppend
<1>14. PICK u \in Int, v \in Int : u = Total(f, Symbols) /\ v = Total(g, Symbols)
  BY <1>11
<1>15. PICK x \in Int, y \in Int : x = account.cash /\ y = after.cash
  BY <1>4
<1>16. x = total + p - u /\ y - q = x - p - d /\ v = u + d
  <2>1. account.cash = SumSeq(account.flows) + old.profit - Total(f, Symbols)
    BY <1>2, <1>8, Zenon
  <2>2. x = total + p - u
    BY <1>12, <1>13, <1>14, <1>15, <2>1
  <2>3. after.cash - new.profit = account.cash - old.profit - d
    BY <1>1
  <2>4. y - q = x - p - d
    BY <1>12, <1>15, <2>3
  <2>5. v = u + d
    BY <1>11, <1>14
  <2> QED BY <2>2, <2>4, <2>5
<1>17. y = total + q - v
  <2>1. /\ x \in Int /\ y \in Int /\ u \in Int /\ v \in Int /\ p \in Int /\ q \in Int
        /\ total \in Int
    BY <1>12, <1>13, <1>14, <1>15
  <2> QED BY <1>16, <2>1
<1>18. after.cash = SumSeq(after.flows) + new.profit - Total(Worth(new.queues), Symbols)
  <2>1. after.flows = account.flows
    BY <1>1
  <2>2. y = after.cash /\ total = SumSeq(after.flows) /\ q = new.profit
    BY <1>12, <1>13, <1>15, <2>1
  <2>3. v = Total(Worth(new.queues), Symbols)
    BY <1>9, <1>14
  <2> QED BY <1>17, <2>2, <2>3, Zenon
<1> QED BY <1>7, <1>18

LEMMA LotFields ==
  ASSUME NEW side \in {"BUY", "SELL"}, NEW s \in Symbols, NEW price \in Nat,
         NEW qty \in Nat \ {0}
  PROVE  /\ Lot(side, s, price, qty) \in LotRecord
         /\ Lot(side, s, price, qty).side = side /\ Lot(side, s, price, qty).symbol = s
         /\ Lot(side, s, price, qty).price = price /\ Lot(side, s, price, qty).qty = qty
BY LotIsRecord DEF Lot

LEMMA QueueBuys ==
  ASSUME NEW account \in AccountRecord, NEW s \in Symbols, NEW price \in Nat,
         NEW qty \in Nat \ {0}, NEW old \in Replay,
         QueueOK(account.lots, old.queues[s], account.held[s], s),
         NEW lot, lot = Lot("BUY", s, price, qty),
         NEW more, more = Append(old.queues[s], [qty |-> qty, price |-> price])
  PROVE  /\ QueueOK(Append(account.lots, lot), more, account.held[s] + qty, s)
         /\ WorthMore(old.queues[s], more, SumSeq(Copies(qty, price)))
<1>1. PICK queue \in Seq(QueueRecord) : queue = old.queues[s]
  BY DEF Replay
<1>2. PICK shares \in Nat : shares = account.held[s]
  BY DEF AccountRecord
<1>3. PICK lots \in Seq(LotRecord) : lots = account.lots
  BY DEF AccountRecord
<1>4. QueueOK(lots, queue, shares, s)
  BY <1>1, <1>2, <1>3, Zenon
<1>5. more = Append(queue, [qty |-> qty, price |-> price])
  BY <1>1, Zenon
<1>6. lot = Lot("BUY", s, price, qty)
  OBVIOUS
<1>7. /\ QueueOK(Append(lots, lot), more, shares + qty, s)
      /\ WorthMore(queue, more, SumSeq(Copies(qty, price)))
  BY <1>1, <1>2, <1>3, <1>4, <1>5, <1>6, QueueGrows
<1> QED BY <1>1, <1>2, <1>3, <1>7, Zenon

LEMMA LedgerBuys ==
  ASSUME NEW account \in AccountRecord, LedgerOK(account), NEW s \in Symbols,
         NEW price \in Nat, NEW qty \in Nat \ {0}, NEW c \in Int,
         c = SumSeq(Copies(qty, price)), NEW after \in AccountRecord,
         after.held = [account.held EXCEPT ![s] = @ + qty],
         after.cash = account.cash - c,
         after.flows = account.flows,
         after.lots = Append(account.lots, Lot("BUY", s, price, qty))
  PROVE  LedgerOK(after)
<1>1. /\ account.lots \in Seq(LotRecord) /\ account.cash \in Int
      /\ account.held \in [Symbols -> Nat]
  BY DEF AccountRecord
<1>2. PICK lot : lot = Lot("BUY", s, price, qty)
  OBVIOUS
<1>3. /\ lot \in LotRecord /\ lot.side = "BUY" /\ lot.symbol = s
      /\ lot.price = price /\ lot.qty = qty
  BY <1>2, LotFields
<1>4. PICK old : old = Replayed(account.lots)
  OBVIOUS
<1>5. PICK new : new = Replayed(after.lots)
  OBVIOUS
<1>6. old \in Replay /\ new = Replays(old, lot)
  BY <1>1, <1>2, <1>3, <1>4, <1>5, ReplayAppend
<1>7. /\ new.profit = old.profit
      /\ new.queues[s] = Append(old.queues[s], [qty |-> qty, price |-> price])
  BY <1>3, <1>6, ReplaysOne
<1>8. old.queues[s] \in Seq(QueueRecord) /\ account.held[s] \in Nat /\ old.profit \in Int
  BY <1>1, <1>6 DEF Replay
<1>9. QueueOK(account.lots, old.queues[s], account.held[s], s)
  BY <1>4 DEF LedgerOK
<1>10. /\ QueueOK(Append(account.lots, lot), new.queues[s], account.held[s] + qty, s)
       /\ SumSeq(QueueShares(new.queues[s])) = SumSeq(QueueShares(old.queues[s])) + c
  <2>1. PICK more : more = new.queues[s]
    OBVIOUS
  <2>2. /\ QueueOK(Append(account.lots, lot), more, account.held[s] + qty, s)
        /\ WorthMore(old.queues[s], more, SumSeq(Copies(qty, price)))
    <3>1. more = Append(old.queues[s], [qty |-> qty, price |-> price])
      BY <1>7, <2>1
    <3> QED BY <1>2, <1>4, <1>6, <1>9, <3>1, QueueBuys
  <2> QED BY <2>1, <2>2, Zenon DEF WorthMore
<1>11. /\ after.held[s] = account.held[s] + qty
       /\ \A t \in Symbols : t # s => after.held[t] = account.held[t]
  BY <1>1
<1>12. PICK d \in Int : d = c
  OBVIOUS
<1>13. after.cash - new.profit = account.cash - old.profit - d
  BY <1>1, <1>7, <1>8, <1>12
<1>14. /\ QueueOK(after.lots, new.queues[s], after.held[s], s)
       /\ SumSeq(QueueShares(new.queues[s])) = SumSeq(QueueShares(old.queues[s])) + d
       /\ after.lots = Append(account.lots, lot)
  BY <1>2, <1>10, <1>11, <1>12
<1>15. LotDone(account, after, lot, s, d)
  BY <1>4, <1>5, <1>11, <1>13, <1>14 DEF LotDone
<1> QED BY <1>3, <1>12, <1>15, LedgerMoves

LEMMA LedgerSells ==
  ASSUME NEW account \in AccountRecord, LedgerOK(account), NEW s \in Symbols,
         NEW price \in Nat, NEW qty \in Nat \ {0}, account.held[s] >= qty,
         NEW c \in Int, c = SumSeq(Copies(qty, price)), NEW after \in AccountRecord,
         after.held = [account.held EXCEPT ![s] = @ - qty],
         after.cash = account.cash + c,
         after.flows = account.flows,
         after.lots = Append(account.lots, Lot("SELL", s, price, qty))
  PROVE  LedgerOK(after)
<1>1. /\ account.lots \in Seq(LotRecord) /\ account.cash \in Int
      /\ account.held \in [Symbols -> Nat]
  BY DEF AccountRecord
<1>2. PICK lot : lot = Lot("SELL", s, price, qty)
  OBVIOUS
<1>3. /\ lot \in LotRecord /\ lot.side = "SELL" /\ lot.symbol = s
      /\ lot.price = price /\ lot.qty = qty
  BY <1>2, LotFields
<1>4. PICK old : old = Replayed(account.lots)
  OBVIOUS
<1>5. PICK new : new = Replayed(after.lots)
  OBVIOUS
<1>6. old \in Replay /\ new = Replays(old, lot)
  BY <1>1, <1>2, <1>3, <1>4, <1>5, ReplayAppend
<1>7. PICK result : result = Consume(old.queues[s], lot)
  OBVIOUS
<1>8. new.profit = old.profit + result.profit /\ new.queues[s] = result.queue
  BY <1>3, <1>6, <1>7, ReplaysOne
<1>9. old.queues[s] \in Seq(QueueRecord) /\ account.held[s] \in Nat /\ old.profit \in Int
  BY <1>1, <1>6 DEF Replay
<1>10. QueueOK(account.lots, old.queues[s], account.held[s], s)
  BY <1>4 DEF LedgerOK
<1>11. /\ QueueOK(Append(account.lots, lot), result.queue, account.held[s] - qty, s)
       /\ result.profit = c - SumSeq(QueueShares(old.queues[s]))
                            + SumSeq(QueueShares(result.queue))
  <2>1. PICK queue \in Seq(QueueRecord) : queue = old.queues[s]
    BY <1>9
  <2>2. PICK shares \in Nat : shares = account.held[s]
    BY <1>9
  <2>3. result = Consume(queue, lot)
    BY <1>7, <2>1
  <2>4. QueueOK(account.lots, queue, shares, s) /\ shares >= qty
    <3>1. shares >= qty
      BY <2>2
    <3> QED BY <1>10, <2>1, <2>2, <3>1, Zenon
  <2>5. PICK lots \in Seq(LotRecord) : lots = account.lots
    BY <1>1
  <2>6. QueueOK(lots, queue, shares, s)
    BY <2>4, <2>5, Zenon
  <2>7. shares >= qty
    BY <2>4
  <2>8. /\ QueueOK(Append(lots, lot), result.queue, shares - qty, s)
        /\ result.profit = SumSeq(Copies(qty, price)) - SumSeq(QueueShares(queue))
                             + SumSeq(QueueShares(result.queue))
    BY <1>2, <2>1, <2>2, <2>3, <2>5, <2>6, <2>7, QueueShrinks
  <2> QED BY <2>1, <2>2, <2>5, <2>8, Zenon
<1>12. /\ after.held[s] = account.held[s] - qty
       /\ \A t \in Symbols : t # s => after.held[t] = account.held[t]
  BY <1>1
<1>13. c \in Int
  OBVIOUS
<1>14. PICK x \in Int : x = SumSeq(QueueShares(old.queues[s]))
  <2>1. old.queues \in [Symbols -> Seq(QueueRecord)]
    BY <1>6 DEF Replay
  <2>2. Worth(old.queues)[s] \in Int
    BY <2>1, WorthProperties
  <2> QED BY <2>1, <2>2, WorthProperties
<1>15. PICK y \in Int : y = SumSeq(QueueShares(new.queues[s]))
  <2>1. new \in Replay
    BY <1>3, <1>6, ReplaysOne
  <2>2. new.queues \in [Symbols -> Seq(QueueRecord)]
    BY <2>1 DEF Replay
  <2>3. Worth(new.queues)[s] \in Int
    BY <2>2, WorthProperties
  <2> QED BY <2>2, <2>3, WorthProperties
<1>16. PICK d \in Int : d = y - x
  BY <1>14, <1>15
<1>17. PICK w \in Int, p \in Int, q \in Int :
         w = account.cash /\ p = old.profit /\ q = result.profit
  <2>1. result.profit \in Int
    <3>1. result \in Result
      BY <1>3, <1>7, <1>9, ConsumeTakesFirst
    <3> QED BY <3>1 DEF Result
  <2> QED BY <1>1, <1>9, <2>1
<1>18. after.cash - new.profit = account.cash - old.profit - d
  <2>1. q = c - x + y
    BY <1>8, <1>11, <1>13, <1>14, <1>15, <1>17
  <2>2. after.cash = w + c /\ new.profit = p + q
    BY <1>8, <1>13, <1>17
  <2>3. (w + c) - (p + q) = w - p - d
    <3>1. /\ w \in Int /\ c \in Int /\ p \in Int /\ q \in Int /\ d \in Int
          /\ x \in Int /\ y \in Int
      BY <1>13, <1>14, <1>15, <1>16, <1>17
    <3> QED BY <1>16, <2>1, <3>1, SMTT(20)
  <2> QED BY <1>17, <2>2, <2>3
<1>19. y = x + d
  BY <1>14, <1>15, <1>16
<1>20. /\ QueueOK(after.lots, new.queues[s], after.held[s], s)
       /\ SumSeq(QueueShares(new.queues[s])) = SumSeq(QueueShares(old.queues[s])) + d
       /\ after.lots = Append(account.lots, lot)
  BY <1>2, <1>8, <1>11, <1>12, <1>14, <1>15, <1>19
<1>21. LotDone(account, after, lot, s, d)
  BY <1>4, <1>5, <1>12, <1>18, <1>20 DEF LotDone
<1> QED BY <1>3, <1>16, <1>21, LedgerMoves

\* A deposit or a withdrawal.
LEMMA LedgerFlows ==
  ASSUME NEW account \in AccountRecord, LedgerOK(account), NEW amount \in Int,
         NEW after \in AccountRecord,
         after.held = account.held, after.lots = account.lots,
         after.cash = account.cash + amount, after.flows = Append(account.flows, amount)
  PROVE  LedgerOK(after)
<1>1. account.flows \in Seq(Int) /\ account.cash \in Int /\ account.lots \in Seq(LotRecord)
  BY DEF AccountRecord
<1>2. PICK now : now = Replayed(account.lots)
  OBVIOUS
<1>3. now \in Replay
  BY <1>1, <1>2, ReplayAppend
<1>4. PICK f : f = Worth(now.queues)
  OBVIOUS
<1>5. f \in [Symbols -> Int]
  <2>1. now.queues \in [Symbols -> Seq(QueueRecord)]
    BY <1>3 DEF Replay
  <2> QED BY <1>4, <2>1, WorthProperties
<1>6. Total(f, Symbols) \in Int
  <2>1. PICK z : z = [t \in Symbols |-> 0]
    OBVIOUS
  <2>2. z \in [Symbols -> Int] /\ \A t \in Symbols : f[t] = f[t] + z[t]
    BY <1>5, <2>1
  <2> QED BY <1>5, <2>2, PlayersAssumption, TotalOfSums
<1>7. /\ SumSeq(account.flows) \in Int
      /\ SumSeq(Append(account.flows, amount)) = SumSeq(account.flows) + amount
  BY <1>1, SumAppend
<1>8. now.profit \in Int
  BY <1>3 DEF Replay
<1>9. account.cash = SumSeq(account.flows) + now.profit - Total(f, Symbols)
  BY <1>2, <1>4 DEF LedgerOK
<1>10. after.cash = SumSeq(after.flows) + now.profit - Total(f, Symbols)
  BY <1>6, <1>7, <1>8, <1>9
<1>11. \A s \in Symbols : QueueOK(after.lots, now.queues[s], after.held[s], s)
  BY <1>2 DEF LedgerOK
<1> QED BY <1>2, <1>4, <1>10, <1>11 DEF LedgerOK

LEMMA LedgerOfNew == LedgerOK(NewAccount)
<1>1. PICK new : new = NewAccount
  OBVIOUS
<1>2. new.cash = 0 /\ new.lots = <<>> /\ new.flows = <<>> /\ \A s \in Symbols : new.held[s] = 0
  BY <1>1 DEF NewAccount
<1>3. <<>> \in Seq(LotRecord) /\ <<>> \in Seq(Int) /\ <<>> \in Seq(QueueRecord) /\ Len(<<>>) = 0
  BY EmptySeq
<1>4. Replayed(<<>>) = Unreplayed
  BY <1>3, ReplayAppend
<1>5. PICK now : now = Replayed(new.lots)
  OBVIOUS
<1>6. now.profit = 0 /\ \A s \in Symbols : now.queues[s] = <<>>
  BY <1>2, <1>4, <1>5 DEF Unreplayed
<1>7. QueueShares(<<>>) = <<>> /\ SumSeq(<<>>) = 0
  <2>1. [qty |-> 1, price |-> 0] \in QueueRecord /\ 0 \in Int
    BY DEF QueueRecord
  <2> QED BY <1>3, <2>1, QueueAppend, SumAppend
<1>8. ASSUME NEW s \in Symbols
      PROVE  QueueOK(new.lots, now.queues[s], new.held[s], s)
  <2>1. ShareByShare(<<>>, "BUY", s) = <<>> /\ ShareByShare(<<>>, "SELL", s) = <<>>
    BY <1>3, SharesAppend
  <2>2. <<>> \o <<>> = <<>>
    BY <1>3, ConcatEmptySeq
  <2> QED BY <1>2, <1>3, <1>6, <1>7, <2>1, <2>2 DEF QueueOK
<1>9. Total(Worth(now.queues), Symbols) = 0
  <2>1. \A s \in Symbols : Worth(now.queues)[s] = 0
    BY <1>6, <1>7 DEF Worth
  <2>2. 0 \in Int /\ \A s \in Symbols : Worth(now.queues)[s] = IF s = 0 THEN 0 ELSE 0
    BY <2>1
  <2>3. Total(Worth(now.queues), Symbols) = IF 0 \in Symbols THEN 0 ELSE 0
    BY <2>2, PlayersAssumption, TotalOfOne
  <2> QED BY <2>3
<1> QED BY <1>1, <1>2, <1>5, <1>6, <1>7, <1>8, <1>9 DEF LedgerOK

LEMMA SumOfSums ==
  ASSUME NEW xs \in Seq(Int), NEW ys \in Seq(Int), NEW zs \in Seq(Int),
         Len(ys) = Len(xs), Len(zs) = Len(xs),
         \A k \in 1..Len(xs) : zs[k] = xs[k] + ys[k]
  PROVE  SumSeq(zs) = SumSeq(xs) + SumSeq(ys)
<1>1. PICK n \in Nat : n = Len(xs) /\ n = Len(ys) /\ n = Len(zs)
  BY LenProperties
<1> DEFINE X(i) == SumSeq(SubSeq(xs, 1, i))
           Y(i) == SumSeq(SubSeq(ys, 1, i))
           Z(i) == SumSeq(SubSeq(zs, 1, i))
           I == { i \in 0..n : Z(i) # X(i) + Y(i) }
<1>2. X(0) = 0 /\ Y(0) = 0 /\ Z(0) = 0
  <2>1. /\ SubSeq(xs, 1, 0) = <<>> /\ SubSeq(ys, 1, 0) = <<>> /\ SubSeq(zs, 1, 0) = <<>>
        /\ 0 \in Int
    BY Beginnings
  <2>2. SumSeq(<<>>) = 0
    BY <2>1, SumAppend
  <2> QED BY <2>1, <2>2
<1>3. ASSUME NEW i \in 1..n
      PROVE  /\ X(i) = X(i - 1) + xs[i] /\ X(i - 1) \in Int /\ xs[i] \in Int
             /\ Y(i) = Y(i - 1) + ys[i] /\ Y(i - 1) \in Int /\ ys[i] \in Int
             /\ Z(i) = Z(i - 1) + zs[i]
  <2>1. /\ i - 1 \in 0..n /\ i \in 1..n /\ n \in Nat
        /\ n = Len(xs) /\ n = Len(ys) /\ n = Len(zs)
    BY <1>1
  <2>2. PICK u : u = SubSeq(xs, 1, i - 1)
    OBVIOUS
  <2>3. PICK v : v = SubSeq(ys, 1, i - 1)
    OBVIOUS
  <2>4. PICK w : w = SubSeq(zs, 1, i - 1)
    OBVIOUS
  <2>5. u \in Seq(Int) /\ SubSeq(xs, 1, i) = Append(u, xs[i]) /\ xs[i] \in Int
    <3>1. i - 1 \in 0..Len(xs) /\ i \in 1..Len(xs)
      BY <2>1
    <3>2. SubSeq(xs, 1, i - 1) \in Seq(Int)
      BY <3>1, Beginnings
    <3>3. SubSeq(xs, 1, i) = Append(SubSeq(xs, 1, i - 1), xs[i]) /\ xs[i] \in Int
      BY <3>1, Beginnings
    <3> QED BY <2>2, <3>2, <3>3, Zenon
  <2>6. v \in Seq(Int) /\ SubSeq(ys, 1, i) = Append(v, ys[i]) /\ ys[i] \in Int
    BY <2>1, <2>3, Beginnings
  <2>7. w \in Seq(Int) /\ SubSeq(zs, 1, i) = Append(w, zs[i]) /\ zs[i] \in Int
    BY <2>1, <2>4, Beginnings
  <2>8. X(i) = X(i - 1) + xs[i] /\ X(i - 1) \in Int
    BY <2>2, <2>5, SumAppend
  <2>9. Y(i) = Y(i - 1) + ys[i] /\ Y(i - 1) \in Int
    BY <2>3, <2>6, SumAppend
  <2>10. Z(i) = Z(i - 1) + zs[i]
    BY <2>4, <2>7, SumAppend
  <2> QED BY <2>5, <2>6, <2>8, <2>9, <2>10
<1> HIDE DEF X, Y, Z
<1>4. I = {}
  <2>1. SUFFICES ASSUME I # {} PROVE FALSE
    OBVIOUS
  <2>2. PICK k \in I : \A i \in I : k <= i
    <3> HIDE DEF I
    <3>1. I \in SUBSET Nat
      BY DEF I
    <3> QED BY <2>1, <3>1, NatMinimum
  <2>3. k \in 0..n /\ Z(k) # X(k) + Y(k)
    BY <2>2
  <2>4. k # 0
    BY <1>2, <2>3
  <2>5. k \in 1..n /\ k - 1 \in 0..n /\ ~(k <= k - 1)
    BY <2>3, <2>4
  <2>6. Z(k - 1) = X(k - 1) + Y(k - 1)
    BY <2>2, <2>5
  <2>7. zs[k] = xs[k] + ys[k]
    BY <1>1, <2>5
  <2>8. /\ X(k) = X(k - 1) + xs[k] /\ X(k - 1) \in Int /\ xs[k] \in Int
        /\ Y(k) = Y(k - 1) + ys[k] /\ Y(k - 1) \in Int /\ ys[k] \in Int
        /\ Z(k) = Z(k - 1) + zs[k]
    BY <1>3, <2>5
  <2> QED BY <2>3, <2>6, <2>7, <2>8, SMTT(20)
<1>5. Z(n) = X(n) + Y(n)
  <2>1. n \in 0..n
    BY <1>1
  <2> QED BY <1>4, <2>1, Zenon
<1>6. X(n) = SumSeq(xs) /\ Y(n) = SumSeq(ys) /\ Z(n) = SumSeq(zs)
  BY <1>1, Beginnings DEF X, Y, Z
<1> QED BY <1>5, <1>6

-----------------------------------------------------------------------------
(* What the leaderboard tells *)

\* Deposits and withdrawals, apart.
LEMMA FlowsAddUp ==
  ASSUME NEW flows \in Seq(Int)
  PROVE  LET deposited == SumSeq([i \in DOMAIN flows |-> IF flows[i] > 0 THEN flows[i] ELSE 0])
             withdrawn == SumSeq([i \in DOMAIN flows |-> IF flows[i] < 0 THEN flows[i] ELSE 0])
         IN  /\ deposited \in Int /\ withdrawn \in Int
             /\ SumSeq(flows) = deposited + withdrawn
<1>1. PICK n \in Nat : n = Len(flows) /\ DOMAIN flows = 1..n /\ \A i \in 1..n : flows[i] \in Int
  BY LenProperties, ElementOfSeq
<1>2. PICK xs : xs = [i \in DOMAIN flows |-> IF flows[i] > 0 THEN flows[i] ELSE 0]
  OBVIOUS
<1>3. PICK ys : ys = [i \in DOMAIN flows |-> IF flows[i] < 0 THEN flows[i] ELSE 0]
  OBVIOUS
<1>4. xs \in Seq(Int) /\ Len(xs) = n
  <2>1. xs \in [1..n -> Int]
    BY <1>1, <1>2
  <2>2. xs \in Seq(Int)
    BY <1>1, <2>1, SeqDef
  <2> QED BY <1>1, <2>1, <2>2, LenProperties
<1>5. ys \in Seq(Int) /\ Len(ys) = n
  <2>1. ys \in [1..n -> Int]
    BY <1>1, <1>3
  <2>2. ys \in Seq(Int)
    BY <1>1, <2>1, SeqDef
  <2> QED BY <1>1, <2>1, <2>2, LenProperties
<1>6. \A k \in 1..n : flows[k] = xs[k] + ys[k]
  BY <1>1, <1>2, <1>3
<1>7. SumSeq(flows) = SumSeq(xs) + SumSeq(ys)
  BY <1>1, <1>4, <1>5, <1>6, SumOfSums
<1>8. SumSeq(xs) \in Int /\ SumSeq(ys) \in Int
  <2>1. 0 \in Int
    OBVIOUS
  <2> QED BY <1>4, <1>5, <2>1, SumAppend
<1> QED BY <1>2, <1>3, <1>7, <1>8, Zenon

\* What the shares of s that are held are worth now.
ValueOf(account, s) == lastPrice[s] * account.held[s]

Values(account) == [s \in Symbols |-> ValueOf(account, s)]

ValueSums(g, account) ==
  g = [s \in SUBSET Symbols |->
         IF s = {} THEN 0 ELSE ValueOf(account, First(s)) + g[s \ {First(s)}]]

LEMMA ValueIsChosen ==
  ASSUME NEW account
  PROVE  MapThenSumSet(LAMBDA s : lastPrice[s] * account.held[s], Symbols)
           = (CHOOSE g : ValueSums(g, account))[Symbols]
BY DEF MapThenSumSet, MapThenFoldSet, ValueSums, ValueOf, First

LEMMA ValueIsTotal ==
  ASSUME NEW account
  PROVE  MapThenSumSet(LAMBDA s : lastPrice[s] * account.held[s], Symbols)
           = Total(Values(account), Symbols)
<1>1. PICK f : f = Values(account)
  OBVIOUS
<1>2. \A s \in SUBSET Symbols : s # {} => f[First(s)] = ValueOf(account, First(s))
  BY <1>1 DEF Values, First
<1>3. \A g : ValueSums(g, account) <=> PartialSums(g, f, Symbols)
  BY <1>2 DEF ValueSums, PartialSums
<1>4. PICK h : PartialSums(h, f, Symbols)
  BY PlayersAssumption, PartialSumsExist
<1>5. PICK c : c = CHOOSE g : ValueSums(g, account)
  OBVIOUS
<1>6. PICK d : d = CHOOSE g : PartialSums(g, f, Symbols)
  OBVIOUS
<1>7. PartialSums(c, f, Symbols) /\ PartialSums(d, f, Symbols)
  BY <1>3, <1>4, <1>5, <1>6, Zenon
<1>8. c[Symbols] = d[Symbols]
  BY <1>7, PlayersAssumption, PartialSumsAgree
<1> QED BY <1>1, <1>5, <1>6, <1>8, ValueIsChosen, TotalIsChosen, Zenon

\* What they have gained.
GainOf(lots, s) ==
  LET bought == ShareByShare(lots, "BUY", s)
      sold == Len(ShareByShare(lots, "SELL", s))
  IN  SumSeq([k \in 1 .. Len(bought) - sold |-> lastPrice[s] - bought[sold + k]])

Gains(lots) == [s \in Symbols |-> GainOf(lots, s)]

GainSums(g, lots) ==
  g = [s \in SUBSET Symbols |->
         IF s = {} THEN 0 ELSE GainOf(lots, First(s)) + g[s \ {First(s)}]]

LEMMA GainIsChosen ==
  ASSUME NEW lots
  PROVE  LET Gain(s) ==
               LET bought == ShareByShare(lots, "BUY", s)
                   sold == Len(ShareByShare(lots, "SELL", s))
               IN  SumSeq([k \in 1 .. Len(bought) - sold |-> lastPrice[s] - bought[sold + k]])
         IN  MapThenSumSet(Gain, Symbols) = (CHOOSE g : GainSums(g, lots))[Symbols]
BY DEF MapThenSumSet, MapThenFoldSet, GainSums, GainOf, First

LEMMA GainIsTotal ==
  ASSUME NEW lots
  PROVE  LET Gain(s) ==
               LET bought == ShareByShare(lots, "BUY", s)
                   sold == Len(ShareByShare(lots, "SELL", s))
               IN  SumSeq([k \in 1 .. Len(bought) - sold |-> lastPrice[s] - bought[sold + k]])
         IN  MapThenSumSet(Gain, Symbols) = Total(Gains(lots), Symbols)
<1>1. PICK f : f = Gains(lots)
  OBVIOUS
<1>2. \A s \in SUBSET Symbols : s # {} => f[First(s)] = GainOf(lots, First(s))
  BY <1>1 DEF Gains, First
<1>3. \A g : GainSums(g, lots) <=> PartialSums(g, f, Symbols)
  BY <1>2 DEF GainSums, PartialSums
<1>4. PICK h : PartialSums(h, f, Symbols)
  BY PlayersAssumption, PartialSumsExist
<1>5. PICK c : c = CHOOSE g : GainSums(g, lots)
  OBVIOUS
<1>6. PICK d : d = CHOOSE g : PartialSums(g, f, Symbols)
  OBVIOUS
<1>7. PartialSums(c, f, Symbols) /\ PartialSums(d, f, Symbols)
  BY <1>3, <1>4, <1>5, <1>6, Zenon
<1>8. c[Symbols] = d[Symbols]
  BY <1>7, PlayersAssumption, PartialSumsAgree
<1> QED BY <1>1, <1>5, <1>6, <1>8, GainIsChosen, TotalIsChosen, Zenon

\* The shares that are held have gained what they are worth now, less what was paid.
LEMMA GainAndWorth ==
  ASSUME lastPrice \in [Symbols -> Nat], NEW lots, NEW queue \in Seq(QueueRecord),
         NEW shares \in Nat, NEW s \in Symbols, QueueOK(lots, queue, shares, s)
  PROVE  /\ GainOf(lots, s) = lastPrice[s] * shares - SumSeq(QueueShares(queue))
         /\ SumSeq(QueueShares(queue)) \in Int
<1>1. PICK Q : Q = QueueShares(queue)
  OBVIOUS
<1>2. Q \in Seq(Int)
  <2>1. [qty |-> 1, price |-> 0] \in QueueRecord
    BY DEF QueueRecord
  <2> QED BY <1>1, <2>1, QueueAppend
<1>3. PICK G : /\ G \in Seq(Int) /\ ShareByShare(lots, "BUY", s) = G \o Q
               /\ Len(G) = Len(ShareByShare(lots, "SELL", s)) /\ Len(Q) = shares
  BY <1>1 DEF QueueOK
<1>4. PICK p \in Int : p = lastPrice[s]
  OBVIOUS
<1>5. PICK bought : bought = G \o Q
  OBVIOUS
<1>6. PICK sold \in Nat : sold = Len(G)
  BY <1>3, LenProperties
<1>7. /\ Len(bought) - sold = shares
      /\ \A k \in 1..shares : bought[sold + k] = Q[k] /\ Q[k] \in Int
  <2>1. /\ Len(bought) = sold + shares
        /\ \A i \in 1..(sold + shares) : bought[i] = IF i <= sold THEN G[i] ELSE Q[i - sold]
    <3>1. /\ Len(G \o Q) = Len(G) + Len(Q)
          /\ \A i \in 1..(Len(G) + Len(Q)) :
               (G \o Q)[i] = IF i <= Len(G) THEN G[i] ELSE Q[i - Len(G)]
      BY <1>2, <1>3, ConcatProperties
    <3>2. Len(Q) = shares
      BY <1>3
    <3> QED BY <1>5, <1>6, <3>1, <3>2
  <2>2. ASSUME NEW k \in 1..shares
        PROVE  bought[sold + k] = Q[k]
    <3>1. sold + k \in 1..(sold + shares) /\ ~(sold + k <= sold) /\ (sold + k) - sold = k
      OBVIOUS
    <3> QED BY <2>1, <3>1
  <2>3. \A k \in 1..shares : Q[k] \in Int
    BY <1>2, <1>3, ElementOfSeq
  <2>4. Len(bought) - sold = shares
    BY <2>1
  <2> QED BY <2>2, <2>3, <2>4
<1>8. PICK ys : ys = [k \in 1..shares |-> p - bought[sold + k]]
  OBVIOUS
<1>9. /\ ys \in Seq(Int) /\ Len(ys) = Len(Q)
      /\ \A k \in 1..Len(Q) : ys[k] = p - Q[k]
  <2>1. ys \in [1..shares -> Int] /\ \A k \in 1..shares : ys[k] = p - Q[k]
    <3>1. ASSUME NEW k \in 1..shares
          PROVE  p - bought[sold + k] = p - Q[k] /\ p - Q[k] \in Int
      <4>1. bought[sold + k] = Q[k] /\ Q[k] \in Int
        BY <1>7
      <4> QED BY <1>4, <4>1
    <3> QED BY <1>8, <3>1
  <2>2. ys \in Seq(Int)
    BY <2>1, SeqDef
  <2> QED BY <1>3, <2>1, <2>2, LenProperties
<1>10. SumSeq(ys) = p * Len(Q) - SumSeq(Q)
  BY <1>2, <1>9, SumOfDifferences
<1>11. GainOf(lots, s) = SumSeq(ys)
  <2>1. GainOf(lots, s)
          = SumSeq([k \in 1 .. Len(bought) - sold |-> lastPrice[s] - bought[sold + k]])
    BY <1>3, <1>5, <1>6, Zenon DEF GainOf
  <2> QED BY <1>4, <1>7, <1>8, <2>1, Zenon
<1>12. SumSeq(Q) \in Int
  <2>1. 0 \in Int
    OBVIOUS
  <2> QED BY <1>2, <2>1, SumAppend
<1> QED BY <1>1, <1>3, <1>4, <1>10, <1>11, <1>12, Zenon

LEMMA AssetsAddUp ==
  ASSUME lastPrice \in [Symbols -> Nat], NEW account \in AccountRecord, LedgerOK(account)
  PROVE  /\ account.cash + Total(Values(account), Symbols)
              = SumSeq(account.flows) + Replayed(account.lots).profit
                  + Total(Gains(account.lots), Symbols)
         /\ Total(Values(account), Symbols) \in Int /\ Total(Gains(account.lots), Symbols) \in Int
         /\ Replayed(account.lots).profit \in Int
<1>1. /\ account.lots \in Seq(LotRecord) /\ account.cash \in Int
      /\ account.flows \in Seq(Int) /\ account.held \in [Symbols -> Nat]
  BY DEF AccountRecord
<1>2. PICK now : now = Replayed(account.lots)
  OBVIOUS
<1>3. now \in Replay
  BY <1>1, <1>2, ReplayAppend
<1>4. now.queues \in [Symbols -> Seq(QueueRecord)] /\ now.profit \in Int
  BY <1>3 DEF Replay
<1>5. /\ \A s \in Symbols : QueueOK(account.lots, now.queues[s], account.held[s], s)
      /\ account.cash = SumSeq(account.flows) + now.profit - Total(Worth(now.queues), Symbols)
  BY <1>2 DEF LedgerOK
<1>6. PICK f : f = Gains(account.lots)
  OBVIOUS
<1>7. PICK g : g = Worth(now.queues)
  OBVIOUS
<1>8. PICK h : h = Values(account)
  OBVIOUS
<1>9. ASSUME NEW s \in Symbols
      PROVE  f[s] \in Int /\ g[s] \in Int /\ h[s] \in Int /\ h[s] = f[s] + g[s]
  <2>1. PICK queue \in Seq(QueueRecord) : queue = now.queues[s]
    BY <1>4
  <2>2. PICK shares \in Nat : shares = account.held[s]
    BY <1>1
  <2>3. PICK lots : lots = account.lots
    OBVIOUS
  <2>4. QueueOK(lots, queue, shares, s)
    BY <1>5, <2>1, <2>2, <2>3, Zenon
  <2>5. /\ GainOf(lots, s) = lastPrice[s] * shares - SumSeq(QueueShares(queue))
        /\ SumSeq(QueueShares(queue)) \in Int
    BY <2>1, <2>2, <2>4, GainAndWorth
  <2>6. PICK v \in Int : v = lastPrice[s] * shares
    BY <2>2
  <2>7. f[s] = GainOf(lots, s)
    BY <1>6, <2>3 DEF Gains
  <2>8. g[s] = SumSeq(QueueShares(queue))
    BY <1>4, <1>7, <2>1, WorthProperties
  <2>9. h[s] = lastPrice[s] * shares
    BY <1>8, <2>2 DEF Values, ValueOf
  <2>10. PICK w \in Int : w = SumSeq(QueueShares(queue))
    BY <2>5
  <2>11. GainOf(lots, s) = v - w
    BY <2>5, <2>6, <2>10, Zenon
  <2>12. f[s] = v - w /\ g[s] = w /\ h[s] = v
    BY <2>6, <2>7, <2>8, <2>9, <2>10, <2>11, Zenon
  <2>13. v - w \in Int /\ v = (v - w) + w
    BY <2>6, <2>10
  <2> QED BY <2>6, <2>10, <2>12, <2>13
<1>10. f \in [Symbols -> Int] /\ g \in [Symbols -> Int] /\ h \in [Symbols -> Int]
  <2>1. f \in [Symbols -> Int]
    BY <1>6, <1>9 DEF Gains
  <2>2. g \in [Symbols -> Int]
    BY <1>4, <1>7, WorthProperties
  <2>3. h \in [Symbols -> Int]
    BY <1>8, <1>9 DEF Values
  <2> QED BY <2>1, <2>2, <2>3
<1>11. /\ Total(f, Symbols) \in Int /\ Total(g, Symbols) \in Int
       /\ Total(h, Symbols) = Total(f, Symbols) + Total(g, Symbols)
  <2>1. \A s \in Symbols : h[s] = f[s] + g[s]
    BY <1>9
  <2>2. IsFiniteSet(Symbols)
    BY PlayersAssumption
  <2> QED BY <1>10, <2>1, <2>2, TotalOfSums
<1>12. SumSeq(account.flows) \in Int
  <2>1. 0 \in Int
    OBVIOUS
  <2> QED BY <1>1, <2>1, SumAppend
<1>13. PICK x \in Int, y \in Int, z \in Int, p \in Int :
         /\ x = Total(f, Symbols) /\ y = Total(g, Symbols)
         /\ z = SumSeq(account.flows) /\ p = now.profit
  BY <1>4, <1>11, <1>12
<1>14. account.cash = z + p - y
  BY <1>5, <1>7, <1>13, Zenon
<1>15. Total(h, Symbols) = x + y
  BY <1>11, <1>13, Zenon
<1>16. (z + p - y) + (x + y) = z + p + x /\ x + y \in Int
  BY <1>13
<1>17. account.cash + Total(h, Symbols) = z + p + x
  BY <1>14, <1>15, <1>16, Zenon
<1>18. /\ account.cash + Total(Values(account), Symbols)
            = SumSeq(account.flows) + Replayed(account.lots).profit
                + Total(Gains(account.lots), Symbols)
       /\ Total(Values(account), Symbols) \in Int /\ Total(Gains(account.lots), Symbols) \in Int
       /\ Replayed(account.lots).profit \in Int
  BY <1>2, <1>4, <1>6, <1>8, <1>11, <1>13, <1>15, <1>16, <1>17, Zenon
<1> QED BY <1>18

LEMMA LeaderboardOfAccount ==
  ASSUME lastPrice \in [Symbols -> Nat], portfolio \in [Ids -> AccountRecord],
         NEW a \in Ids, LedgerOK(portfolio[a])
  PROVE  LET lots == portfolio[a].lots
             Gain(s) ==
               LET bought == ShareByShare(lots, "BUY", s)
                   sold == Len(ShareByShare(lots, "SELL", s))
               IN  SumSeq([k \in 1 .. Len(bought) - sold |-> lastPrice[s] - bought[sold + k]])
             flows == portfolio[a].flows
             withdrawn == SumSeq([i \in DOMAIN flows |-> IF flows[i] < 0 THEN flows[i] ELSE 0])
         IN  Deposits(a) > 0 =>
               Profit(a) = RealizedProfit(lots) + MapThenSumSet(Gain, Symbols) + withdrawn
<1> DEFINE lots == portfolio[a].lots
           Gain(s) ==
             LET bought == ShareByShare(lots, "BUY", s)
                 sold == Len(ShareByShare(lots, "SELL", s))
             IN  SumSeq([k \in 1 .. Len(bought) - sold |-> lastPrice[s] - bought[sold + k]])
           flows == portfolio[a].flows
           withdrawn == SumSeq([i \in DOMAIN flows |-> IF flows[i] < 0 THEN flows[i] ELSE 0])
<1>1. PICK account \in AccountRecord : account = portfolio[a]
  OBVIOUS
<1>2. PICK gain : gain = MapThenSumSet(Gain, Symbols)
  OBVIOUS
<1>3. gain = Total(Gains(account.lots), Symbols)
  BY <1>1, <1>2, GainIsTotal, Zenon
<1>4. TotalAssets(a) = account.cash + Total(Values(account), Symbols)
  <2>1. MapThenSumSet(LAMBDA s : lastPrice[s] * portfolio[a].held[s], Symbols)
          = Total(Values(portfolio[a]), Symbols)
    BY ValueIsTotal
  <2> QED BY <1>1, <2>1, Zenon DEF TotalAssets
<1>5. /\ Deposits(a) \in Int /\ withdrawn \in Int
      /\ SumSeq(account.flows) = Deposits(a) + withdrawn
  <2>1. flows \in Seq(Int)
    BY <1>1 DEF AccountRecord
  <2> QED BY <1>1, <2>1, FlowsAddUp, Zenon DEF Deposits
<1> HIDE DEF Gain, withdrawn
<1>6. LedgerOK(account)
  BY <1>1
<1>7. /\ account.cash + Total(Values(account), Symbols)
           = SumSeq(account.flows) + Replayed(account.lots).profit
               + Total(Gains(account.lots), Symbols)
      /\ Total(Gains(account.lots), Symbols) \in Int /\ Replayed(account.lots).profit \in Int
  BY <1>6, AssetsAddUp
<1>8. PICK d \in Int, w \in Int, p \in Int, g \in Int :
        /\ d = Deposits(a) /\ w = withdrawn /\ p = Replayed(account.lots).profit
        /\ g = Total(Gains(account.lots), Symbols)
  BY <1>5, <1>7
<1>9. TotalAssets(a) = (d + w) + p + g
  BY <1>4, <1>5, <1>7, <1>8, Zenon
<1>10. RealizedProfit(lots) = p
  BY <1>1, <1>8, RealizedIsReplayed, Zenon
<1>11. ((d + w) + p + g) - d = p + g + w
  BY <1>8
<1>12. ASSUME Deposits(a) > 0
       PROVE  Profit(a) = RealizedProfit(lots) + gain + withdrawn
  <2>1. Profit(a) = TotalAssets(a) - Deposits(a)
    BY <1>12 DEF Profit
  <2> QED BY <1>3, <1>8, <1>9, <1>10, <1>11, <2>1, Zenon
<1> USE DEF Gain, withdrawn
<1> QED BY <1>2, <1>12, Zenon

-----------------------------------------------------------------------------
(* The invariant: what each account keeps agrees with its trade history. *)

AccountOK(account) ==
  account \in AccountRecord /\ CostsOK(account) /\ LedgerOK(account)

SoundAccounts == { account \in AccountRecord : AccountOK(account) }

PortfolioInv ==
  /\ portfolio \in [Ids -> SoundAccounts]
  /\ lastPrice \in [Symbols -> Nat]

LEMMA PortfolioOK ==
  ASSUME PortfolioInv
  PROVE  /\ portfolio \in [Ids -> AccountRecord] /\ lastPrice \in [Symbols -> Nat]
         /\ \A a \in Ids : AccountOK(portfolio[a])
BY DEF PortfolioInv, SoundAccounts

\* The invariant of the next state, once it is known.
LEMMA PortfolioIs ==
  ASSUME NEW new, portfolio' = new, new \in [Ids -> AccountRecord],
         \A a \in Ids : AccountOK(new[a]), lastPrice' \in [Symbols -> Nat]
  PROVE  PortfolioInv'
<1>1. new \in [Ids -> SoundAccounts]
  BY DEF SoundAccounts
<1> QED BY <1>1 DEF PortfolioInv

\* An account after a purchase and after a sale.
LEMMA BoughtOK ==
  ASSUME NEW account, AccountOK(account), NEW s \in Symbols, NEW price \in Nat,
         NEW qty \in Nat \ {0}
  PROVE  /\ AccountOK(Bought(account, s, price, qty))
         /\ Bought(account, s, price, qty).held = [account.held EXCEPT ![s] = @ + qty]
<1>1. account \in AccountRecord /\ CostsOK(account) /\ LedgerOK(account)
  BY DEF AccountOK
<1>2. PICK after : after = Bought(account, s, price, qty)
  OBVIOUS
<1>3. /\ after \in AccountRecord /\ CostsOK(after)
      /\ after.held = [account.held EXCEPT ![s] = @ + qty]
      /\ after.cash = account.cash - price * qty
      /\ after.flows = account.flows
      /\ after.lots = Append(account.lots, Lot("BUY", s, price, qty))
  <2>1. /\ Bought(account, s, price, qty) \in AccountRecord /\ CostsOK(Bought(account, s, price, qty))
        /\ BuyDone(account, Bought(account, s, price, qty), s, price, qty)
    BY <1>1, BoughtCosts
  <2> QED BY <1>2, <2>1, Zenon DEF BuyDone
<1>4. qty \in Nat /\ price \in Int
  OBVIOUS
<1>5. SumSeq(Copies(qty, price)) = price * qty
  BY <1>4, CopiesProperties, Zenon
<1>6. PICK c \in Int : c = price * qty
  OBVIOUS
<1>7. c = SumSeq(Copies(qty, price)) /\ after.cash = account.cash - c
  BY <1>3, <1>5, <1>6, Zenon
<1>8. LedgerOK(after)
  BY <1>1, <1>3, <1>6, <1>7, LedgerBuys
<1> QED BY <1>2, <1>3, <1>8, Zenon DEF AccountOK

LEMMA SoldOK ==
  ASSUME NEW account, AccountOK(account), NEW s \in Symbols, NEW price \in Nat,
         NEW qty \in Nat \ {0}, account.held[s] >= qty
  PROVE  AccountOK(Sold(account, s, price, qty))
<1>1. account \in AccountRecord /\ CostsOK(account) /\ LedgerOK(account)
  BY DEF AccountOK
<1>2. PICK after : after = Sold(account, s, price, qty)
  OBVIOUS
<1>3. /\ after \in AccountRecord /\ CostsOK(after)
      /\ after.held = [account.held EXCEPT ![s] = @ - qty]
      /\ after.cash = account.cash + price * qty
      /\ after.flows = account.flows
      /\ after.lots = Append(account.lots, Lot("SELL", s, price, qty))
  <2>1. /\ Sold(account, s, price, qty) \in AccountRecord /\ CostsOK(Sold(account, s, price, qty))
        /\ SellDone(account, Sold(account, s, price, qty), s, price, qty)
    BY <1>1, SoldCosts
  <2> QED BY <1>2, <2>1, Zenon DEF SellDone
<1>4. qty \in Nat /\ price \in Int
  OBVIOUS
<1>5. SumSeq(Copies(qty, price)) = price * qty
  BY <1>4, CopiesProperties, Zenon
<1>6. PICK c \in Int : c = price * qty
  OBVIOUS
<1>7. c = SumSeq(Copies(qty, price)) /\ after.cash = account.cash + c
  BY <1>3, <1>5, <1>6, Zenon
<1>8. LedgerOK(after)
  BY <1>1, <1>3, <1>6, <1>7, LedgerSells
<1> QED BY <1>2, <1>3, <1>8, Zenon DEF AccountOK

LEMMA AccountChanges ==
  ASSUME PortfolioInv, NEW a \in Ids, NEW account, AccountOK(account),
         portfolio' = [portfolio EXCEPT ![a] = account],
         lastPrice' = lastPrice
  PROVE  PortfolioInv'
<1>1. /\ portfolio \in [Ids -> AccountRecord]
      /\ \A b \in Ids : AccountOK(portfolio[b])
      /\ account \in AccountRecord /\ lastPrice \in [Symbols -> Nat]
  BY PortfolioOK DEF AccountOK
<1>2. PICK new : new = [portfolio EXCEPT ![a] = account]
  OBVIOUS
<1>3. /\ new \in [Ids -> AccountRecord] /\ new[a] = account
      /\ \A b \in Ids : b # a => new[b] = portfolio[b]
  BY <1>1, <1>2, OneChanged
<1>4. \A c \in Ids : AccountOK(new[c])
  BY <1>1, <1>3
<1> QED BY <1>1, <1>2, <1>3, <1>4, PortfolioIs

LEMMA TradeSteps ==
  ASSUME PortfolioInv, NEW a \in Ids, NEW b \in Ids, NEW s \in Symbols, NEW price \in Nat,
         NEW qty \in Nat \ {0}
  PROVE  /\ SettleTrade(a, b, s, price, qty) => PortfolioInv'
         /\ \A side \in {"BUY", "SELL"} :
              SettleMarketTrade(a, side, s, price, qty) => PortfolioInv'
<1>1. /\ portfolio \in [Ids -> AccountRecord] /\ \A c \in Ids : AccountOK(portfolio[c])
      /\ lastPrice \in [Symbols -> Nat]
  BY PortfolioOK
<1>2. PICK bought :
        /\ bought = Bought(portfolio[a], s, price, qty) /\ AccountOK(bought)
        /\ bought.held[s] = portfolio[a].held[s] + qty
  <2>1. portfolio[a] \in AccountRecord /\ AccountOK(portfolio[a])
    BY <1>1
  <2>2. AccountOK(Bought(portfolio[a], s, price, qty))
        /\ Bought(portfolio[a], s, price, qty).held = [portfolio[a].held EXCEPT ![s] = @ + qty]
    BY <2>1, BoughtOK
  <2>3. portfolio[a].held \in [Symbols -> Nat]
    BY <2>1 DEF AccountRecord
  <2> QED BY <2>2, <2>3
<1>3. ASSUME NEW account, AccountOK(account), account.held[s] >= qty
      PROVE  AccountOK(Sold(account, s, price, qty))
  BY <1>3, SoldOK
<1>4. ASSUME SettleTrade(a, b, s, price, qty)
      PROVE  PortfolioInv'
  <2>1. PICK paid : paid = [portfolio EXCEPT ![a] = bought]
    OBVIOUS
  <2>2. /\ paid \in [Ids -> AccountRecord] /\ paid[a] = bought
        /\ \A c \in Ids : c # a => paid[c] = portfolio[c]
    <3>1. bought \in AccountRecord
      BY <1>2 DEF AccountOK
    <3> QED BY <1>1, <2>1, <3>1, OneChanged
  <2>3. portfolio[b].held[s] >= qty /\ portfolio[b].held[s] \in Nat
        /\ portfolio[a].held[s] \in Nat
    BY <1>1, <1>4 DEF SettleTrade, AccountRecord
  <2>4. AccountOK(paid[b]) /\ paid[b].held[s] >= qty
    <3>1. CASE b = a
      <4>1. bought.held[s] >= qty
        BY <1>2, <2>3
      <4> QED BY <1>2, <2>2, <3>1, <4>1
    <3>2. CASE b # a
      BY <1>1, <2>2, <2>3, <3>2
    <3> QED BY <3>1, <3>2
  <2>5. PICK sold : sold = Sold(paid[b], s, price, qty) /\ AccountOK(sold)
    BY <1>3, <2>4
  <2>6. portfolio' = [paid EXCEPT ![b] = sold] /\ lastPrice' = lastPrice
    BY <1>2, <1>4, <2>1, <2>5, Zenon DEF SettleTrade
  <2>7. PICK new : new = [paid EXCEPT ![b] = sold]
    OBVIOUS
  <2>8. new \in [Ids -> AccountRecord] /\ \A c \in Ids : AccountOK(new[c])
    <3>1. sold \in AccountRecord
      BY <2>5 DEF AccountOK
    <3>2. /\ new \in [Ids -> AccountRecord] /\ new[b] = sold
          /\ \A c \in Ids : c # b => new[c] = paid[c]
      BY <2>2, <2>7, <3>1, OneChanged
    <3> QED BY <1>1, <1>2, <2>2, <2>5, <3>2
  <2>9. lastPrice' \in [Symbols -> Nat]
    BY <1>1, <2>6
  <2> QED BY <2>6, <2>7, <2>8, <2>9, PortfolioIs
<1>5. ASSUME NEW side, SettleMarketTrade(a, side, s, price, qty)
      PROVE  PortfolioInv'
  <2>1. CASE side = "BUY"
    <3>1. portfolio' = [portfolio EXCEPT ![a] = bought] /\ lastPrice' = lastPrice
      BY <1>2, <1>5, <2>1, Zenon DEF SettleMarketTrade
    <3> QED BY <1>2, <3>1, AccountChanges
  <2>2. CASE side = "SELL"
    <3>1. PICK sold : sold = Sold(portfolio[a], s, price, qty)
      OBVIOUS
    <3>2. portfolio[a].held[s] >= qty
      BY <1>5, <2>2 DEF SettleMarketTrade
    <3>3. AccountOK(sold)
      BY <1>1, <1>3, <3>1, <3>2
    <3>4. portfolio' = [portfolio EXCEPT ![a] = sold] /\ lastPrice' = lastPrice
      BY <1>5, <2>2, <3>1, Zenon DEF SettleMarketTrade
    <3> QED BY <3>3, <3>4, AccountChanges
  <2> QED BY <1>5, <2>1, <2>2 DEF SettleMarketTrade
<1> QED BY <1>4, <1>5

LEMMA PortfolioStep ==
  ASSUME PortfolioInv, [Next]_playersVars
  PROVE  PortfolioInv'
<1>1. CASE UNCHANGED portfolioVars
  <2>1. portfolio' = portfolio /\ lastPrice' = lastPrice
    BY <1>1 DEF portfolioVars
  <2> QED BY <2>1, PortfolioIs, PortfolioOK
<1>2. ASSUME NEW a \in Ids, NEW account, AccountOK(account),
             portfolio' = [portfolio EXCEPT ![a] = account], UNCHANGED lastPrice
      PROVE  PortfolioInv'
  BY <1>2, AccountChanges
<1>3. CASE UserNext
  <2>1. ASSUME NEW id \in Ids, DeleteAccount(id)
        PROVE  PortfolioInv'
    BY <1>2, <2>1, NewAccountOK, LedgerOfNew DEF DeleteAccount, AccountOK
  <2>2. CASE UNCHANGED portfolioVars
    BY <1>1, <2>2
  <2> QED BY <1>3, <2>1, <2>2 DEF UserNext, CreateUser, RenameUser, ChangeUser, DeleteUser,
             StartProcess, ProcessDies
<1>4. ASSUME NEW a \in Ids, NEW amount \in Int, MovesCash(a, amount)
      PROVE  PortfolioInv'
  <2>1. portfolio[a] \in AccountRecord /\ CostsOK(portfolio[a]) /\ LedgerOK(portfolio[a])
    BY PortfolioOK DEF AccountOK
  <2>2. PICK account : account = [portfolio[a] EXCEPT !.cash = @ + amount, !.flows = Append(@, amount)]
    OBVIOUS
  <2>3. /\ account.held = portfolio[a].held /\ account.cost = portfolio[a].cost
        /\ account.lots = portfolio[a].lots
        /\ account \in AccountRecord
        /\ account.cash = portfolio[a].cash + amount
        /\ account.flows = Append(portfolio[a].flows, amount)
    <3>1. PICK flows \in Seq(Int), cash \in Int :
            flows = Append(portfolio[a].flows, amount) /\ cash = portfolio[a].cash + amount
      <4>1. portfolio[a].flows \in Seq(Int) /\ portfolio[a].cash \in Int
        BY <2>1 DEF AccountRecord
      <4>2. Append(portfolio[a].flows, amount) \in Seq(Int)
        BY <4>1, AppendProperties
      <4>3. portfolio[a].cash + amount \in Int
        BY <4>1
      <4> QED BY <4>2, <4>3
    <3>2. account = [portfolio[a] EXCEPT !.cash = cash, !.flows = flows]
      BY <2>2, <3>1
    <3> QED BY <2>1, <3>1, <3>2 DEF AccountRecord
  <2>4. AccountOK(account)
    <3>1. CostsOK(account)
      BY <2>1, <2>3 DEF CostsOK
    <3>2. LedgerOK(account)
      <4>1. PICK old \in AccountRecord : old = portfolio[a]
        BY <2>1
      <4>2. /\ LedgerOK(old) /\ account.held = old.held /\ account.lots = old.lots
            /\ account.cash = old.cash + amount /\ account.flows = Append(old.flows, amount)
            /\ account \in AccountRecord
        BY <2>1, <2>3, <4>1, Zenon
      <4> QED BY <4>2, LedgerFlows
    <3> QED BY <2>3, <3>1, <3>2 DEF AccountOK
  <2>5. portfolio' = [portfolio EXCEPT ![a].cash = @ + amount, ![a].flows = Append(@, amount)]
        /\ lastPrice' = lastPrice
    BY <1>4 DEF MovesCash, CashMoves
  <2>6. portfolio' = [portfolio EXCEPT ![a] = account]
    BY <2>2, <2>5, PortfolioOK
  <2> QED BY <1>2, <2>4, <2>5, <2>6
<1>5. CASE MoneyNext
  <2>1. ASSUME NEW a \in Ids, NEW amount \in Amounts, MovesCash(a, amount) \/ MovesCash(a, -amount)
        PROVE  PortfolioInv'
    BY <1>4, <2>1, PlayersAssumption
  <2>2. ASSUME NEW a \in Ids, NEW b \in Ids, NEW s \in Symbols, NEW price \in Prices,
               NEW qty \in Qtys,
               \/ TradesBetween(a, b, s, price, qty)
               \/ \E side \in {"BUY", "SELL"} : TradesWithMarket(a, side, s, price, qty)
        PROVE  PortfolioInv'
    <3>1. price \in Nat /\ qty \in Nat \ {0}
      BY PlayersAssumption
    <3> QED BY <2>2, <3>1, TradeSteps DEF TradesBetween, TradesWithMarket
  <2>3. ASSUME NEW s \in Symbols, NEW price \in LastPrices, PriceMoves(s, price)
        PROVE  PortfolioInv'
    <3>1. price \in Nat
      BY PlayersAssumption
    <3>2. lastPrice' = [lastPrice EXCEPT ![s] = price]
      BY <2>3 DEF PriceMoves
    <3>3. lastPrice' \in [Symbols -> Nat]
      BY <3>1, <3>2, PortfolioOK
    <3>4. portfolio' = portfolio
      BY <2>3 DEF PriceMoves
    <3> QED BY <3>3, <3>4, PortfolioIs, PortfolioOK
  <2> QED BY <1>5, <2>1, <2>2, <2>3 DEF MoneyNext
<1>6. CASE UNCHANGED playersVars
  BY <1>1, <1>6 DEF playersVars
<1> QED BY <1>3, <1>5, <1>6 DEF Next

\* For every number of accounts and symbols: each account's cost basis, position and
\* cash are what its trade history and its transactions say they are.
THEOREM PortfolioInvariant == Spec => []PortfolioInv
<1>1. Init => PortfolioInv
  <2> SUFFICES ASSUME Init PROVE PortfolioInv
    OBVIOUS
  <2>1. portfolio = [a \in Ids |-> NewAccount] /\ lastPrice = [s \in Symbols |-> 0]
    BY PlayersAssumption DEF Init, PortfolioInit
  <2>2. NewAccount \in SoundAccounts
    BY NewAccountOK, LedgerOfNew DEF SoundAccounts, AccountOK
  <2> QED BY <2>1, <2>2 DEF PortfolioInv
<1>2. PortfolioInv /\ [Next]_playersVars => PortfolioInv'
  BY PortfolioStep
<1> QED BY <1>1, <1>2, PTL DEF Spec

\* For every number of accounts and symbols, any prices and any order of trades: the
\* average cost of a position lies between the lowest and the highest price paid since
\* it was last flat (settle_trade, settle_market_trade).
THEOREM CostBasisHolds == Spec => []CostBasisInRange
<1>1. PortfolioInv => CostBasisInRange
  <2> SUFFICES ASSUME PortfolioInv, NEW a \in Ids, NEW s \in Symbols
               PROVE  LET shares == portfolio[a].held[s]
                          cost == portfolio[a].cost[s]
                          paid == Range(ShareByShare(SinceFlat(portfolio[a].lots, s), "BUY", s))
                      IN  IF shares = 0 THEN cost.n = 0
                          ELSE /\ Min(paid) * shares * cost.d <= cost.n
                               /\ cost.n <= Max(paid) * shares * cost.d
    BY DEF CostBasisInRange
  <2>1. portfolio[a] \in AccountRecord /\ CostsOK(portfolio[a]) /\ LedgerOK(portfolio[a])
    BY PortfolioOK DEF AccountOK
  <2> QED BY <2>1, CostsInRange
<1> QED BY <1>1, PortfolioInvariant, PTL

\* For every number of accounts and symbols, any prices and any order of trades and
\* transactions: the profit on the leaderboard (account.py:510) is the profit realized
\* first in first out (trading_analysis.py) plus what the shares still held have gained,
\* less what was withdrawn.
THEOREM LeaderboardHolds == Spec => []LeaderboardAddsUp
<1>1. PortfolioInv => LeaderboardAddsUp
  <2>1. ASSUME PortfolioInv, NEW a \in Ids
        PROVE  LedgerOK(portfolio[a]) /\ portfolio \in [Ids -> AccountRecord]
               /\ lastPrice \in [Symbols -> Nat]
    BY <2>1, PortfolioOK DEF AccountOK
  <2> QED BY <2>1, LeaderboardOfAccount DEF LeaderboardAddsUp
<1> QED BY <1>1, PortfolioInvariant, PTL
=============================================================================
