-------------------------- MODULE EventWriterProofs --------------------------
(***************************************************************************)
(* The data pump, for every number of events, with I/O errors or without:  *)
(* every event is at one place, stop() writes everything, and the threads, *)
(* the buffer and the file implement the event log.                        *)
(***************************************************************************)
EXTENDS EventWriter, SequenceTheorems, TLAPS

\* No event is twice in the buffer, or twice in the batch that is written.
NoRepeats(s) == \A i, j \in 1..Len(s) : s[i] = s[j] => i = j

\* The places of NothingDisappears, as pairwise disjoint sets that together hold
\* the first n events.
Apart(F, L, B, X, P, n) ==
  /\ F \cup L \cup B \cup X \cup P = 1..n
  /\ \A e \in F : e \notin L /\ e \notin B /\ e \notin X /\ e \notin P
  /\ \A e \in L : e \notin B /\ e \notin X /\ e \notin P
  /\ \A e \in B : e \notin X /\ e \notin P
  /\ \A e \in X : e \notin P

EachAtOnePlace ==
  Apart(Range(file), Range(lines), Range(buffer), lost, Pending, pushed)

\* Who has the lock has something to write, and while it writes nothing can be
\* appended to the buffer; nobody else is in the middle of a flush.
LockMeans ==
  /\ writer = "nobody" => lines = <<>>
  /\ writer # "nobody" => lines # <<>> /\ buffer = <<>>
  /\ writer = "main" <=> main = "writing"
  /\ writer = "pump" <=> pump = "writing"

\* After stop() the buffer is empty, and stays empty; so it is after a crash.
StoppedMeans == main \in {"stopped", "down"} => buffer = <<>> /\ writer = "nobody"

EWInv ==
  /\ EWTypeOK
  /\ NoRepeats(buffer) /\ NoRepeats(lines)
  /\ EachAtOnePlace
  /\ LockMeans
  /\ StoppedMeans

-----------------------------------------------------------------------------
(* Lists and the sets of their elements *)

LEMMA RangeOfEmpty == Range(<<>>) = {}
BY DEF Range

LEMMA ElementsOfSeq ==
  ASSUME NEW S, NEW s \in Seq(S)
  PROVE  Range(s) \subseteq S
<1>1. DOMAIN s = 1..Len(s) /\ \A i \in 1..Len(s) : s[i] \in S
  OBVIOUS
<1>2. ASSUME NEW x \in Range(s) PROVE x \in S
  <2>1. PICK i \in DOMAIN s : x = s[i]
    BY DEF Range
  <2> QED BY <1>1, <2>1
<1> QED BY <1>2

LEMMA RangeOfAppend ==
  ASSUME NEW S, NEW s \in Seq(S), NEW e \in S
  PROVE  Range(Append(s, e)) = Range(s) \cup {e}
<1> DEFINE t == Append(s, e)
<1>1. DOMAIN t = 1..Len(s)+1 /\ DOMAIN s = 1..Len(s) /\ Len(s) \in Nat
  OBVIOUS
<1>2. t[Len(s)+1] = e /\ \A i \in 1..Len(s) : t[i] = s[i]
  OBVIOUS
<1> HIDE DEF t
<1>4. \A i \in 1..Len(s)+1 : i \in 1..Len(s) \/ i = Len(s)+1
  BY <1>1
<1>5. \A x \in Range(t) : x \in Range(s) \/ x = e
  BY <1>1, <1>2, <1>4 DEF Range
<1>6. \A x \in Range(s) : x \in Range(t)
  <2> SUFFICES ASSUME NEW i \in 1..Len(s) PROVE s[i] \in Range(t)
    BY <1>1 DEF Range
  <2>1. i \in DOMAIN t /\ t[i] = s[i]
    BY <1>1, <1>2
  <2> QED BY <2>1 DEF Range
<1>7. e \in Range(t)
  BY <1>1, <1>2 DEF Range
<1> QED BY <1>5, <1>6, <1>7 DEF t

\* What is left of a list is the rest of its elements.
LEMMA RangeOfTail ==
  ASSUME NEW S, NEW s \in Seq(S), s # <<>>, NoRepeats(s)
  PROVE  /\ Range(Tail(s)) = Range(s) \ {Head(s)}
         /\ Head(s) \in Range(s)
         /\ NoRepeats(Tail(s))
<1> DEFINE t == Tail(s)
           n == Len(s)
<1>1. /\ n \in Nat /\ n >= 1
      /\ DOMAIN s = 1..n
      /\ DOMAIN t = 1..n-1
      /\ Len(t) = n - 1
      /\ Head(s) = s[1]
      /\ \A i \in 1..n-1 : t[i] = s[i+1]
  OBVIOUS
<1>2. \A i, j \in 1..n : s[i] = s[j] => i = j
  BY DEF NoRepeats
<1> HIDE DEF t, n
<1>3. \A x \in Range(t) : x \in Range(s) /\ x # s[1]
  <2> SUFFICES ASSUME NEW i \in 1..n-1
               PROVE  t[i] \in Range(s) /\ t[i] # s[1]
    BY <1>1 DEF Range
  <2>1. i + 1 \in 1..n /\ 1 \in 1..n /\ i + 1 # 1
    BY <1>1
  <2> QED BY <2>1, <1>1, <1>2 DEF Range
<1>4. \A x \in Range(s) : x # s[1] => x \in Range(t)
  <2> SUFFICES ASSUME NEW i \in 1..n, s[i] # s[1]
               PROVE  s[i] \in Range(t)
    BY <1>1 DEF Range
  <2>1. i - 1 \in 1..n-1 /\ (i - 1) + 1 = i
    BY <1>1
  <2>2. t[i - 1] = s[i]
    BY <2>1, <1>1
  <2> QED BY <2>1, <2>2, <1>1 DEF Range
<1>5. s[1] \in Range(s)
  BY <1>1 DEF Range
<1>6. NoRepeats(t)
  <2> SUFFICES ASSUME NEW i \in 1..n-1, NEW j \in 1..n-1, t[i] = t[j]
               PROVE  i = j
    BY <1>1 DEF NoRepeats
  <2>1. i + 1 \in 1..n /\ j + 1 \in 1..n
    BY <1>1
  <2>2. s[i + 1] = s[j + 1]
    BY <1>1
  <2>3. i + 1 = j + 1
    BY <2>1, <2>2, <1>2
  <2> QED BY <2>3
<1> QED
  BY <1>1, <1>3, <1>4, <1>5, <1>6, Zenon DEF t

LEMMA NoRepeatsAppend ==
  ASSUME NEW S, NEW s \in Seq(S), NEW e \in S, NoRepeats(s), e \notin Range(s)
  PROVE  NoRepeats(Append(s, e))
<1> DEFINE t == Append(s, e)
           n == Len(s)
<1>1. /\ n \in Nat /\ Len(t) = n + 1 /\ DOMAIN s = 1..n
      /\ t[n+1] = e /\ \A i \in 1..n : t[i] = s[i]
  OBVIOUS
<1> HIDE DEF t, n
<1>2. \A i \in 1..n : t[i] # e
  BY <1>1 DEF Range
<1>3. \A i, j \in 1..n : s[i] = s[j] => i = j
  BY DEF NoRepeats, n
<1>4. ASSUME NEW i \in 1..n+1, NEW j \in 1..n+1, t[i] = t[j]
      PROVE  i = j
  <2>1. (i \in 1..n \/ i = n+1) /\ (j \in 1..n \/ j = n+1)
    BY <1>1
  <2> QED BY <2>1, <1>1, <1>2, <1>3, <1>4
<1> QED BY <1>1, <1>4 DEF NoRepeats, t

-----------------------------------------------------------------------------
(* Each step moves events from one place to another *)

LEMMA ApartImplies ==
  ASSUME EachAtOnePlace
  PROVE  NothingDisappears
<1> DEFINE places == <<Range(file), Range(lines), Range(buffer), lost, Pending>>
<1> SUFFICES ASSUME NEW F, NEW L, NEW B, NEW X, NEW P,
                    F = Range(file), L = Range(lines), B = Range(buffer), X = lost, P = Pending
             PROVE  NothingDisappears
  OBVIOUS
<1>1. Apart(F, L, B, X, P, pushed)
  BY DEF EachAtOnePlace
<1>2. \A i \in 1..5 : i = 1 \/ i = 2 \/ i = 3 \/ i = 4 \/ i = 5
  OBVIOUS
<1>3. /\ places[1] = F /\ places[2] = L /\ places[3] = B
      /\ places[4] = X /\ places[5] = P
  OBVIOUS
<1> HIDE DEF places
<1>4. ASSUME NEW e \in 1..pushed
      PROVE  \E i \in 1..5 : e \in places[i] /\ \A j \in 1..5 : e \in places[j] => i = j
  <2>1. e \in F \/ e \in L \/ e \in B \/ e \in X \/ e \in P
    BY <1>1 DEF Apart
  <2>2. CASE e \in F
    BY <2>2, <1>1, <1>2, <1>3 DEF Apart
  <2>3. CASE e \in L
    BY <2>3, <1>1, <1>2, <1>3 DEF Apart
  <2>4. CASE e \in B
    BY <2>4, <1>1, <1>2, <1>3 DEF Apart
  <2>5. CASE e \in X
    BY <2>5, <1>1, <1>2, <1>3 DEF Apart
  <2>6. CASE e \in P
    BY <2>6, <1>1, <1>2, <1>3 DEF Apart
  <2> QED BY <2>1, <2>2, <2>3, <2>4, <2>5, <2>6
<1> QED BY <1>4 DEF NothingDisappears, places

\* Losing what a failed write held, or all that is in memory.
LEMMA ApartLosing ==
  ASSUME NEW F, NEW L, NEW B, NEW X, NEW P, NEW n, Apart(F, L, B, X, P, n)
  PROVE  /\ Apart(F, {}, B, X \cup L, P, n)
         /\ Apart(F, {}, {}, X \cup B \cup L \cup P, {}, n)
BY DEF Apart

LEMMA InitEWInv == Init => EWInv
<1> SUFFICES ASSUME Init PROVE EWInv
  OBVIOUS
<1>1. EWTypeOK
  BY EventWriterAssumption DEF Init, EWTypeOK
<1>2. NoRepeats(buffer) /\ NoRepeats(lines)
  BY DEF Init, NoRepeats
<1>3. EachAtOnePlace
  <2>1. /\ Range(file) = {} /\ Range(lines) = {} /\ Range(buffer) = {}
        /\ lost = {} /\ Pending = {} /\ pushed = 0
    BY RangeOfEmpty DEF Init, Pending
  <2>2. 1..0 = {}
    OBVIOUS
  <2> QED BY <2>1, <2>2 DEF EachAtOnePlace, Apart
<1>4. LockMeans /\ StoppedMeans
  BY DEF Init, LockMeans, StoppedMeans
<1> QED BY <1>1, <1>2, <1>3, <1>4 DEF EWInv

\* The next event is at none of the places.
LEMMA PushBeginsInv == EWInv /\ PushBegins => EWInv'
<1> SUFFICES ASSUME EWInv, PushBegins PROVE EWInv'
  OBVIOUS
<1> USE DEF EWInv, PushBegins, ioVars
<1>1. EWTypeOK'
  BY EventWriterAssumption DEF EWTypeOK, Events
<1>2. NoRepeats(buffer)' /\ NoRepeats(lines)'
  OBVIOUS
<1>3. EachAtOnePlace'
  <2> SUFFICES ASSUME NEW F, NEW L, NEW B, NEW X,
                      F = Range(file), L = Range(lines), B = Range(buffer), X = lost
               PROVE  Apart(F, L, B, X, {pushed + 1}, pushed + 1)
    BY DEF EachAtOnePlace, Pending
  <2>1. Apart(F, L, B, X, {}, pushed)
    BY DEF EachAtOnePlace, Pending
  <2>2. pushed \in Nat
    BY DEF EWTypeOK
  <2> QED BY <2>1, <2>2 DEF Apart
<1>4. LockMeans' /\ StoppedMeans'
  BY DEF LockMeans, StoppedMeans
<1> QED BY <1>1, <1>2, <1>3, <1>4

LEMMA PushAppendsInv == EWInv /\ PushAppends => EWInv'
<1> SUFFICES ASSUME EWInv, PushAppends PROVE EWInv'
  OBVIOUS
<1> USE DEF EWInv, PushAppends
<1>1. Pending = {pushed} /\ Pending' = {} /\ pushed \in Events
  <2>1. Pending = {pushed} /\ Pending' = {}
    BY DEF Pending
  <2>2. pushed \in 1..pushed /\ pushed \in 0..MaxEvents
    BY <2>1 DEF EachAtOnePlace, Apart, EWTypeOK
  <2> QED BY <2>1, <2>2, EventWriterAssumption DEF Events
<1>2. EWTypeOK'
  BY <1>1 DEF EWTypeOK
<1>3. buffer \in Seq(Events) /\ pushed \notin Range(buffer)
  BY <1>1 DEF EachAtOnePlace, Apart, EWTypeOK
<1>4. NoRepeats(buffer)' /\ NoRepeats(lines)'
  BY <1>1, <1>3, NoRepeatsAppend
<1>5. EachAtOnePlace'
  <2> SUFFICES ASSUME NEW F, NEW L, NEW B, NEW X,
                      F = Range(file), L = Range(lines), B = Range(buffer), X = lost
               PROVE  Apart(F, L, B \cup {pushed}, X, {}, pushed)
    BY <1>1, <1>3, RangeOfAppend DEF EachAtOnePlace
  <2>1. Apart(F, L, B, X, {pushed}, pushed)
    BY <1>1 DEF EachAtOnePlace
  <2> QED BY <2>1 DEF Apart
<1>6. LockMeans' /\ StoppedMeans'
  BY DEF LockMeans, StoppedMeans
<1> QED BY <1>2, <1>4, <1>5, <1>6

\* What was in the buffer is now the batch.
LEMMA TakeLinesKeeps ==
  ASSUME EWInv, NEW thread, TakeLines(thread),
         UNCHANGED <<pushed, lost>>, Pending' = Pending
  PROVE  /\ NoRepeats(buffer)' /\ NoRepeats(lines)'
         /\ EachAtOnePlace'
<1> USE DEF EWInv, TakeLines
<1>1. lines = <<>> /\ NoRepeats(<<>>)
  BY DEF LockMeans, NoRepeats
<1>2. NoRepeats(buffer)' /\ NoRepeats(lines)'
  BY <1>1
<1>3. EachAtOnePlace'
  <2> SUFFICES ASSUME NEW F, NEW B, NEW X, NEW P,
                      F = Range(file), B = Range(buffer), X = lost, P = Pending
               PROVE  Apart(F, B, {}, X, P, pushed)
    BY RangeOfEmpty DEF EachAtOnePlace
  <2>1. Apart(F, {}, B, X, P, pushed)
    BY <1>1, RangeOfEmpty DEF EachAtOnePlace
  <2> QED BY <2>1 DEF Apart
<1> QED BY <1>2, <1>3

LEMMA PumpNextInv == EWInv /\ PumpNext => EWInv'
<1> SUFFICES ASSUME EWInv, PumpNext PROVE EWInv'
  OBVIOUS
<1>1. CASE PumpLoops \/ PumpIsDue \/ (PumpFlushes /\ UNCHANGED ioVars)
  <2>1. UNCHANGED <<ioVars, running, main, pushed, lost>> /\ Pending' = Pending
    BY <1>1 DEF PumpLoops, PumpIsDue, PumpFlushes, Pending
  <2>2. pump # "writing" /\ pump' \in {"top", "asleep", "due", "ended"}
    BY <1>1 DEF PumpLoops, PumpIsDue, PumpFlushes, EWInv, LockMeans, ioVars, TakeLines
  <2>3. EachAtOnePlace'
    BY <2>1 DEF EWInv, EachAtOnePlace, ioVars
  <2>4. EWTypeOK' /\ LockMeans' /\ StoppedMeans'
    BY <2>1, <2>2 DEF EWInv, EWTypeOK, LockMeans, StoppedMeans, ioVars
  <2> QED BY <2>1, <2>3, <2>4 DEF EWInv, ioVars
<1>2. CASE PumpFlushes /\ TakeLines("pump") /\ pump' = "writing"
  <2>1. UNCHANGED <<running, main, pushed, lost>> /\ Pending' = Pending
    BY <1>2 DEF PumpFlushes, Pending
  <2>2. NoRepeats(buffer)' /\ NoRepeats(lines)' /\ EachAtOnePlace'
    BY <1>2, <2>1, TakeLinesKeeps
  <2>3. EWTypeOK'
    BY <1>2, <2>1 DEF EWInv, EWTypeOK, TakeLines
  <2>4. LockMeans' /\ StoppedMeans'
    BY <1>2, <2>1 DEF EWInv, LockMeans, StoppedMeans, TakeLines
  <2> QED BY <2>2, <2>3, <2>4 DEF EWInv
<1> QED BY <1>1, <1>2 DEF PumpNext, PumpFlushes

\* The first line of the batch moves to the file.
LEMMA WriteLineInv == EWInv /\ WriteLine => EWInv'
<1> SUFFICES ASSUME EWInv, WriteLine PROVE EWInv'
  OBVIOUS
<1>1. lines \in Seq(Events) /\ lines # <<>> /\ buffer = <<>> /\ NoRepeats(lines)
  BY DEF EWInv, EWTypeOK, LockMeans, WriteLine
<1>2. Head(lines) \in Events /\ file \in Seq(Events) /\ Len(lines) \in Nat /\ Len(lines) > 0
  BY <1>1 DEF EWInv, EWTypeOK
<1>3. /\ file' = Append(file, Head(lines)) /\ lines' = Tail(lines)
      /\ UNCHANGED <<buffer, running, pushed, lost>>
  BY DEF WriteLine
<1>4. \/ /\ Len(lines) > 1 /\ UNCHANGED <<writer, pump, main>>
      \/ /\ Len(lines) = 1 /\ writer' = "nobody"
         /\ pump' = IF writer = "pump" THEN "top" ELSE pump
         /\ main' = IF writer = "main" THEN "stopped" ELSE main
  <2>1. Len(lines) > 1 \/ Len(lines) = 1
    <3> SUFFICES ASSUME NEW n \in Nat, n > 0 PROVE n > 1 \/ n = 1
      BY <1>2
    <3> QED OBVIOUS
  <2>2. CASE Len(lines) > 1
    BY <2>2 DEF WriteLine
  <2>3. CASE Len(lines) = 1
    <3>1. ~(Len(lines) > 1)
      BY <2>3
    <3>2. FlushReturns("top", "stopped")
      BY <3>1, Zenon DEF WriteLine
    <3> QED BY <2>3, <3>2 DEF FlushReturns
  <2> QED BY <2>1, <2>2, <2>3
<1>5. EWTypeOK'
  BY <1>1, <1>2, <1>3, <1>4 DEF EWInv, EWTypeOK
<1>6. NoRepeats(buffer)' /\ NoRepeats(lines)'
  BY <1>1, <1>3, RangeOfTail DEF EWInv
<1>7. Pending' = Pending
  BY <1>3, <1>4 DEF Pending, EWInv, LockMeans
<1>8. EachAtOnePlace'
  <2> SUFFICES ASSUME NEW F, NEW L, NEW B, NEW X, NEW P, NEW h \in L,
                      F = Range(file), L = Range(lines), B = Range(buffer), X = lost,
                      P = Pending, h = Head(lines)
               PROVE  Apart(F \cup {h}, L \ {h}, B, X, P, pushed)
    BY <1>1, <1>2, <1>3, <1>7, RangeOfAppend, RangeOfTail DEF EachAtOnePlace
  <2>1. Apart(F, L, B, X, P, pushed)
    BY DEF EWInv, EachAtOnePlace
  <2> QED BY <2>1 DEF Apart
<1>9. LockMeans' /\ StoppedMeans'
  <2> SUFFICES ASSUME NEW rest, rest = Tail(lines)
               PROVE  LockMeans' /\ StoppedMeans'
    OBVIOUS
  <2>0. rest \in Seq(Events) /\ Len(rest) = Len(lines) - 1
    BY <1>1, HeadTailProperties
  <2>1. Len(lines) = 1 => Tail(lines) = <<>>
    BY <2>0, EmptySeq, <1>2
  <2>2. Len(lines) > 1 => Tail(lines) # <<>>
    <3>1. rest = <<>> => Len(rest) = 0
      BY EmptySeq
    <3> QED BY <2>0, <3>1, <1>2
  <2>3. writer \in {"pump", "main"} /\ main \notin {"stopped", "down"}
    BY DEF EWInv, EWTypeOK, WriteLine, StoppedMeans
  <2> QED BY <1>1, <1>3, <1>4, <2>1, <2>2, <2>3 DEF EWInv, LockMeans, StoppedMeans
<1> QED BY <1>5, <1>6, <1>8, <1>9 DEF EWInv

\* The rest of the batch is lost.
LEMMA WriteFailsInv == EWInv /\ WriteFails => EWInv'
<1> SUFFICES ASSUME EWInv, WriteFails PROVE EWInv'
  OBVIOUS
<1>1. /\ lines' = <<>> /\ lost' = lost \cup Range(lines) /\ writer' = "nobody"
      /\ UNCHANGED <<buffer, file, running, pushed>>
      /\ pump' = IF writer = "pump" THEN "dead" ELSE pump
      /\ main' = IF writer = "main" THEN "stopped" ELSE main
  BY DEF WriteFails, FlushReturns
<1>2. buffer = <<>> /\ writer \in {"pump", "main"} /\ main \notin {"stopped", "down"}
  BY DEF EWInv, EWTypeOK, LockMeans, WriteFails, StoppedMeans
<1>3. Range(lines) \subseteq Events
  BY ElementsOfSeq DEF EWInv, EWTypeOK
<1>4. EWTypeOK'
  BY <1>1, <1>3 DEF EWInv, EWTypeOK
<1>5. NoRepeats(buffer)' /\ NoRepeats(lines)'
  BY <1>1, <1>2 DEF NoRepeats
<1>6. Pending' = Pending
  BY <1>1, <1>2 DEF Pending, EWInv, LockMeans
<1>7. EachAtOnePlace'
  <2>1. Apart(Range(file), {}, Range(buffer), lost \cup Range(lines), Pending, pushed)
    BY ApartLosing DEF EWInv, EachAtOnePlace
  <2>2. /\ Range(file)' = Range(file) /\ Range(lines)' = {} /\ Range(buffer)' = Range(buffer)
        /\ lost' = lost \cup Range(lines) /\ pushed' = pushed
    BY <1>1, RangeOfEmpty
  <2> QED BY <2>1, <2>2, <1>6 DEF EachAtOnePlace
<1>8. LockMeans' /\ StoppedMeans'
  BY <1>1, <1>2 DEF EWInv, LockMeans, StoppedMeans
<1> QED BY <1>4, <1>5, <1>7, <1>8 DEF EWInv

LEMMA StopInv == EWInv /\ (StopBegins \/ StopJoins \/ StopFlushes) => EWInv'
<1> SUFFICES ASSUME EWInv, StopBegins \/ StopJoins \/ StopFlushes PROVE EWInv'
  OBVIOUS
<1>1. Pending = {} /\ Pending' = {} /\ UNCHANGED <<pump, pushed, lost>>
  BY DEF StopBegins, StopJoins, StopFlushes, Pending, TakeLines
<1>2. CASE UNCHANGED ioVars
  <2>1. EachAtOnePlace'
    BY <1>1, <1>2 DEF EWInv, EachAtOnePlace, ioVars
  <2>2. main # "writing" /\ main' \in {"joining", "flushing", "stopped"} /\ running' \in BOOLEAN
    BY <1>2 DEF StopBegins, StopJoins, StopFlushes, EWInv, EWTypeOK, ioVars, TakeLines
  <2>3. main' = "stopped" => buffer = <<>> /\ writer = "nobody"
    BY <1>2 DEF StopBegins, StopJoins, StopFlushes, ioVars, TakeLines
  <2>4. EWTypeOK' /\ LockMeans' /\ StoppedMeans'
    BY <1>1, <1>2, <2>2, <2>3 DEF EWInv, EWTypeOK, LockMeans, StoppedMeans, ioVars
  <2> QED BY <1>2, <2>1, <2>4 DEF EWInv, ioVars
<1>3. CASE StopFlushes /\ TakeLines("main") /\ main' = "writing"
  <2>1. UNCHANGED <<running, pump, pushed, lost>>
    BY <1>3 DEF StopFlushes
  <2>2. NoRepeats(buffer)' /\ NoRepeats(lines)' /\ EachAtOnePlace'
    BY <1>1, <1>3, <2>1, TakeLinesKeeps
  <2>3. EWTypeOK'
    BY <1>3, <2>1 DEF EWInv, EWTypeOK, TakeLines
  <2>4. LockMeans' /\ StoppedMeans'
    BY <1>3, <2>1 DEF EWInv, LockMeans, StoppedMeans, TakeLines
  <2> QED BY <2>2, <2>3, <2>4 DEF EWInv
<1> QED BY <1>2, <1>3 DEF StopBegins, StopJoins, StopFlushes

\* What is in memory is lost.
LEMMA CrashInv == EWInv /\ Crash => EWInv'
<1> SUFFICES ASSUME EWInv, Crash PROVE EWInv'
  OBVIOUS
<1>1. Pending' = {}
  BY DEF Pending, Crash
<1>2. Range(lines) \subseteq Events /\ Range(buffer) \subseteq Events /\ Pending \subseteq Events
  <2>1. Range(lines) \subseteq Events /\ Range(buffer) \subseteq Events
    BY ElementsOfSeq DEF EWInv, EWTypeOK
  <2>2. Pending \subseteq 1..pushed /\ pushed \in 0..MaxEvents
    BY DEF EWInv, EWTypeOK, EachAtOnePlace, Apart
  <2> QED BY <2>1, <2>2, EventWriterAssumption DEF Events
<1>3. EWTypeOK'
  BY <1>2 DEF EWInv, EWTypeOK, Crash
<1>4. NoRepeats(buffer)' /\ NoRepeats(lines)'
  BY DEF Crash, NoRepeats
<1>5. EachAtOnePlace'
  <2>1. Apart(Range(file), {}, {}, lost \cup Range(buffer) \cup Range(lines) \cup Pending,
              {}, pushed)
    BY ApartLosing DEF EWInv, EachAtOnePlace
  <2>2. /\ Range(file)' = Range(file) /\ Range(lines)' = {} /\ Range(buffer)' = {}
        /\ lost' = lost \cup Range(buffer) \cup Range(lines) \cup Pending
        /\ pushed' = pushed
    BY RangeOfEmpty DEF Crash
  <2> QED BY <2>1, <2>2, <1>1 DEF EachAtOnePlace
<1>6. LockMeans' /\ StoppedMeans'
  BY DEF Crash, LockMeans, StoppedMeans
<1> QED BY <1>3, <1>4, <1>5, <1>6 DEF EWInv

LEMMA RestartInv == EWInv /\ Restart => EWInv'
<1> SUFFICES ASSUME EWInv, Restart PROVE EWInv'
  OBVIOUS
<1>1. /\ main' = "up" /\ pump' = "top" /\ running' = TRUE
      /\ UNCHANGED <<buffer, lines, writer, file, pushed, lost>>
      /\ Pending' = {} /\ Pending = {}
  BY DEF Restart, ioVars, Pending
<1>2. writer = "nobody"
  BY DEF Restart, EWInv, StoppedMeans
<1>3. EachAtOnePlace'
  BY <1>1 DEF EWInv, EachAtOnePlace
<1>4. EWTypeOK' /\ LockMeans' /\ StoppedMeans'
  BY <1>1, <1>2 DEF EWInv, EWTypeOK, LockMeans, StoppedMeans
<1> QED BY <1>1, <1>3, <1>4 DEF EWInv

THEOREM PlacesInvariant == Spec => []EWInv
<1>1. Init => EWInv
  BY InitEWInv
<1>2. EWInv /\ [Next]_vars => EWInv'
  <2> SUFFICES ASSUME EWInv, [Next]_vars PROVE EWInv'
    OBVIOUS
  <2>1. CASE UNCHANGED vars
    <3>1. Pending' = Pending
      BY <2>1 DEF vars, Pending
    <3>2. EachAtOnePlace' /\ EWTypeOK' /\ LockMeans' /\ StoppedMeans'
      BY <2>1, <3>1 DEF EWInv, vars, EachAtOnePlace, EWTypeOK, LockMeans, StoppedMeans
    <3> QED BY <2>1, <3>2 DEF EWInv, vars
  <2> QED
    BY <2>1, PushBeginsInv, PushAppendsInv, PumpNextInv, WriteLineInv, WriteFailsInv,
       StopInv, CrashInv, RestartInv DEF Next, Flushing
<1> QED BY <1>1, <1>2, PTL DEF Spec

\* For every number of events, every event that was pushed is at exactly one of
\* buffer, batch, file, the push that waits, and what a crash or an error took.
THEOREM EveryEventKept == Spec => []NothingDisappears
<1>1. EWInv => NothingDisappears
  BY ApartImplies DEF EWInv
<1> QED BY <1>1, PlacesInvariant, PTL

\* When stop() has returned, whatever the background thread was doing meanwhile,
\* nothing is left in memory.
THEOREM StopWrites == Spec => []StopWritesEverything
<1>1. EWInv => StopWritesEverything
  <2> SUFFICES ASSUME EWInv, main = "stopped", NEW e \in 1..pushed
               PROVE  e \in Range(file) \cup lost
    BY DEF StopWritesEverything
  <2>1. buffer = <<>> /\ lines = <<>> /\ Pending = {}
    BY DEF EWInv, StoppedMeans, LockMeans, Pending
  <2> QED BY <2>1, RangeOfEmpty DEF EWInv, EachAtOnePlace, Apart
<1> QED BY <1>1, PlacesInvariant, PTL

-----------------------------------------------------------------------------
(* The steps of the event log *)

Journal == file \o lines \o buffer

\* A step that leaves the three lists alone.
LEMMA LogStutters ==
  ASSUME UNCHANGED ioVars
  PROVE  UNCHANGED Log!logVars
BY DEF ioVars, Log!logVars

\* push appends one event.
LEMMA PushIsLogged ==
  ASSUME EWInv, PushAppends
  PROVE  Log!LogNext
<1>1. /\ lines = <<>> /\ buffer' = Append(buffer, pushed)
      /\ UNCHANGED <<file, lines>>
      /\ file \in Seq(Events) /\ buffer \in Seq(Events)
  BY DEF EWInv, EWTypeOK, LockMeans, PushAppends
<1>2. pushed \in Events
  <2>1. pushed \in 1..pushed /\ pushed \in 0..MaxEvents
    BY DEF EWInv, EWTypeOK, EachAtOnePlace, Apart, Pending, PushAppends
  <2> QED BY <2>1, EventWriterAssumption DEF Events
<1>3. <<pushed>> \in Seq(Events) /\ <<>> \in Seq(Events)
  BY <1>2
<1>4. Append(buffer, pushed) = buffer \o <<pushed>>
  BY <1>1, <1>2
<1>5. (file \o <<>>) \o Append(buffer, pushed) = ((file \o <<>>) \o buffer) \o <<pushed>>
  BY <1>1, <1>3, <1>4, ConcatEmptySeq, ConcatAssociative
<1>6. Log!Push(<<pushed>>)
  BY <1>1, <1>5 DEF Log!Push
<1> QED BY <1>2, <1>6 DEF Log!LogNext

\* Taking the buffer as the batch moves nothing.
LEMMA TakingStutters ==
  ASSUME EWInv, NEW thread, TakeLines(thread)
  PROVE  UNCHANGED Log!logVars
<1>1. /\ lines = <<>> /\ lines' = buffer /\ buffer' = <<>> /\ file' = file
      /\ file \in Seq(Events) /\ buffer \in Seq(Events)
  BY DEF EWInv, EWTypeOK, LockMeans, TakeLines
<1>2. (file \o buffer) \o <<>> = (file \o <<>>) \o buffer
  BY <1>1, ConcatEmptySeq, ConcatProperties
<1> QED BY <1>1, <1>2 DEF Log!logVars

\* A line that is written makes one more event durable.
LEMMA WritingPersists ==
  ASSUME EWInv, WriteLine
  PROVE  Log!LogNext
<1>1. /\ file' = Append(file, Head(lines)) /\ lines' = Tail(lines) /\ buffer' = buffer
      /\ file \in Seq(Events) /\ lines \in Seq(Events) /\ lines # <<>>
      /\ buffer \in Seq(Events)
  BY DEF EWInv, EWTypeOK, LockMeans, WriteLine
<1> DEFINE h == Head(lines)
           rest == Tail(lines)
<1>2. h \in Events /\ rest \in Seq(Events) /\ <<h>> \in Seq(Events)
  BY <1>1
<1>3. Append(file, h) = file \o <<h>> /\ lines = <<h>> \o rest
  BY <1>1
<1> HIDE DEF h, rest
<1>4. Append(file, h) \o rest = file \o lines
  BY <1>1, <1>2, <1>3, ConcatAssociative
<1>5. Len(Append(file, h)) = Len(file) + 1 /\ Len(file) \in Nat /\ Len(lines) \in Nat \ {0}
      /\ Len(buffer) \in Nat
  BY <1>1, <1>2, EmptySeq
<1>6. Len((file \o lines) \o buffer) = (Len(file) + Len(lines)) + Len(buffer)
  BY <1>1, ConcatProperties
<1>7. /\ Len(file) + 1 \in Len(file) + 1 .. Len((file \o lines) \o buffer)
      /\ Len(file) + 1 \in 0 .. Len((file \o lines) \o buffer)
  BY <1>5, <1>6
<1>8. Log!Persist(Len(file) + 1)
  BY <1>1, <1>4, <1>5, <1>7 DEF Log!Persist, h, rest
<1> QED BY <1>7, <1>8 DEF Log!LogNext

\* Losing batch and buffer cuts the log behind what is in the file.
LEMMA LosingCuts ==
  ASSUME EWInv, file' = file, lines' = <<>>, buffer' = <<>>
  PROVE  Log!LogNext
<1>1. file \in Seq(Events) /\ lines \in Seq(Events) /\ buffer \in Seq(Events)
  BY DEF EWInv, EWTypeOK
<1>2. (file \o <<>>) \o <<>> = file
  BY <1>1, ConcatEmptySeq
<1>3. /\ (file \o lines) \o buffer = file \o (lines \o buffer)
      /\ lines \o buffer \in Seq(Events)
  BY <1>1, ConcatAssociative, ConcatProperties
<1> SUFFICES ASSUME NEW behind \in Seq(Events), behind = lines \o buffer
             PROVE  Log!LogNext
  BY <1>3
<1>4. Len(file) \in Nat /\ Len(behind) \in Nat /\ Len(file \o behind) = Len(file) + Len(behind)
  BY <1>1, ConcatProperties
<1>5. SubSeq(file \o behind, 1, Len(file)) = file
  <2>1. /\ file \o behind \in Seq(Events)
        /\ \A i \in 1..Len(file) : (file \o behind)[i] = file[i]
        /\ \A i \in 1..Len(file) : (file \o behind)[i] \in Events
    BY <1>1, <1>4, ConcatProperties, ElementOfSeq
  <2> DEFINE first == SubSeq(file \o behind, 1, Len(file))
  <2>2. /\ first \in Seq(Events) /\ Len(first) = Len(file)
        /\ \A i \in 1..Len(file) : first[i] = (file \o behind)[i]
    <3>1. /\ first \in Seq(Events)
          /\ Len(first) = IF 1 <= Len(file) THEN Len(file) - 1 + 1 ELSE 0
          /\ \A i \in 1 .. Len(file) - 1 + 1 : first[i] = (file \o behind)[1 + i - 1]
      BY <2>1, <1>4, SubSeqProperties
    <3> HIDE DEF first
    <3> QED BY <3>1, <1>4
  <2> HIDE DEF first
  <2>3. first = file
    BY <1>1, <2>1, <2>2, SeqEqual
  <2> QED BY <2>3 DEF first
<1>6. /\ Len(file) \in Len(file) .. Len(file \o behind)
      /\ Len(file) \in 0 .. Len(file \o behind)
  BY <1>4
<1>7. Log!Cut(Len(file))
  BY <1>2, <1>3, <1>5, <1>6 DEF Log!Cut
<1> QED BY <1>3, <1>6, <1>7 DEF Log!LogNext

\* The buffer, the lock and the two threads implement the append-only log that
\* Recovery and Writers rely on, for every number of events.
THEOREM ImplementsLog == Spec => ImplementsEventLog
<1>1. Init => Log!LogInit
  <2> SUFFICES ASSUME Init PROVE Log!LogInit
    OBVIOUS
  <2>1. (<<>> \o <<>>) \o <<>> = <<>> /\ Len(<<>>) = 0
    BY ConcatEmptySeq, EmptySeq
  <2> QED BY <2>1 DEF Init, Log!LogInit
<1>2. EWInv /\ [Next]_vars => [Log!LogNext]_(Log!logVars)
  <2> SUFFICES ASSUME EWInv, [Next]_vars
               PROVE  Log!LogNext \/ UNCHANGED Log!logVars
    OBVIOUS
  <2>1. CASE UNCHANGED ioVars
    BY <2>1, LogStutters
  <2>2. CASE PushAppends
    BY <2>2, PushIsLogged
  <2>3. CASE \E thread \in {"pump", "main"} : TakeLines(thread)
    BY <2>3, TakingStutters
  <2>4. CASE WriteLine
    BY <2>4, WritingPersists
  <2>5. CASE WriteFails
    <3>1. file' = file /\ lines' = <<>> /\ buffer' = <<>>
      BY <2>5 DEF WriteFails, EWInv, LockMeans
    <3> QED BY <3>1, LosingCuts
  <2>6. CASE Crash
    <3>1. file' = file /\ lines' = <<>> /\ buffer' = <<>>
      BY <2>6 DEF Crash
    <3> QED BY <3>1, LosingCuts
  <2>7. UNCHANGED vars => UNCHANGED ioVars
    BY DEF vars, ioVars
  <2> QED
    BY <2>1, <2>2, <2>3, <2>4, <2>5, <2>6, <2>7
       DEF Next, PumpNext, Flushing, PushBegins, PumpLoops, PumpIsDue, PumpFlushes,
           StopBegins, StopJoins, StopFlushes, Restart
<1> QED BY <1>1, <1>2, PlacesInvariant, PTL DEF Spec, ImplementsEventLog, Log!LogSpec
=============================================================================
