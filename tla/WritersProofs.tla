---------------------------- MODULE WritersProofs ----------------------------
(***************************************************************************)
(* The writers up to the end of shutdown().  A round is taken under the    *)
(* lock and written outside it, so what is said of a record's files is     *)
(* said of the last write that is on its way to them, wherever it is.      *)
(***************************************************************************)
EXTENDS Writers, SequenceTheorems, TLAPS

RecordTargets == UNION {Copies(r) : r \in Records}
ReportTargets == {Trades, Orders}

Jobs == [record : Records, upTo : Nat]
Writes == [target : Targets, upTo : Nat]

WTypeOK ==
  /\ journal \in Seq(Nat) /\ durable \in 0..Len(journal)
  /\ handled \in Nat
  /\ queue \in Seq(Jobs)
  /\ latest \in [Records -> Nat]
  /\ content \in [Targets -> Nat]
  /\ openedBy \in [Targets -> Threads \cup {"nobody"}]
  /\ round \in [Threads -> Seq(Writes)]
  /\ doing \in [Threads -> Writes \cup {NoWrite}]
  /\ client \in {"unasked", "there", "off"}
  /\ gaveUp \in [Targets -> Nat]
  /\ at \in [Background -> {"asleep", "working", "ended"}]
  /\ wanted \in [Background -> BOOLEAN]
  /\ closing \in {"no", "raised", "reporter stops", "reports", "recorder stops",
                  "records", "done"}
  /\ overran \subseteq Background

\* How far shutdown() has got with a service: its thread was told to end, the
\* join is over.
Told(th) ==
  closing \in IF th = "recorder" THEN {"recorder stops", "records", "done"}
              ELSE {"reporter stops", "reports", "recorder stops", "records", "done"}
Joined(th) ==
  closing \in IF th = "recorder" THEN {"records", "done"}
              ELSE {"reports", "recorder stops", "records", "done"}

-----------------------------------------------------------------------------
(* The invariant *)

WritesTo(list, T) == \A i \in 1..Len(list) : list[i].target \in T

\* Who writes what: the recorder records, the reporter reports, the event loop
\* what it is stopping.
RoundsOfServices ==
  /\ WritesTo(round["recorder"], RecordTargets)
  /\ WritesTo(round["reporter"], ReportTargets)
  /\ WritesTo(round["main"], IF closing = "reports" THEN ReportTargets
                             ELSE IF closing = "records" THEN RecordTargets ELSE {})

\* Only a thread at work has a round, and none begins one after it was told to
\* end.  A thread that was joined works on only when the join timed out.
ThreadsEnd ==
  \A th \in Background :
    /\ at[th] # "working" => round[th] = <<>>
    /\ Told(th) => ~wanted[th]
    /\ Joined(th) /\ th \notin overran => at[th] # "working"

\* A write in progress is the first of its round, as it was when it began, and
\* nobody else has opened its file.
WriteInProgress(th) ==
  doing[th] # NoWrite =>
    /\ round[th] # <<>>
    /\ doing[th].target = Head(round[th]).target
    /\ doing[th].target \in RecordTargets => doing[th].upTo = Head(round[th]).upTo
    /\ (doing[th].target \in RecordTargets => "recorder" \notin overran)
       /\ (doing[th].target \in ReportTargets => "reporter" \notin overran)
       => openedBy[doing[th].target] = th

NoJob(jobs, r) == \A i \in 1..Len(jobs) : jobs[i].record # r
NoWriteTo(list, t) == \A i \in 1..Len(list) : list[i].target # t

IsLastJob(jobs, i, r) ==
  /\ i \in 1..Len(jobs) /\ jobs[i].record = r
  /\ \A k \in 1..Len(jobs) : k > i => jobs[k].record # r
IsLastWrite(list, i, t) ==
  /\ i \in 1..Len(list) /\ list[i].target = t
  /\ \A k \in 1..Len(list) : k > i => list[k].target # t

\* The last job of a record has its newest history; when no job waits, so has
\* the last write to each copy; when that is done too, the copy shows it.
Catching(r, t) ==
  /\ \A i \in Nat : IsLastJob(queue, i, r) => queue[i].upTo = latest[r]
  /\ NoJob(queue, r) =>
       \A th \in Threads :
         \A i \in Nat : IsLastWrite(round[th], i, t) => round[th][i].upTo = latest[r]
  /\ NoJob(queue, r) /\ (\A th \in Threads : NoWriteTo(round[th], t)) => Shows(t, latest[r])

CatchingUp ==
  "recorder" \notin overran => \A r \in Records : \A t \in Copies(r) : Catching(r, t)

\* The last reports show what there is at the end of the event writer.
Due(t) == IF t = Trades THEN durable ELSE handled

LastReports ==
  "reporter" \notin overran /\ Joined("reporter") =>
    \A t \in ReportTargets :
      /\ doing["main"] # NoWrite /\ doing["main"].target = t => doing["main"].upTo = Due(t)
      /\ NoWriteTo(round["main"], t) => Shows(t, Due(t))

\* Nothing comes in once the writers stop.
Emptied ==
  /\ closing \notin {"no", "raised"} => durable = Len(journal)
  /\ Joined("recorder") => queue = <<>>

WritersInv ==
  /\ WTypeOK
  /\ RoundsOfServices
  /\ ThreadsEnd
  /\ \A th \in Threads : WriteInProgress(th)
  /\ CatchingUp
  /\ LastReports
  /\ Emptied

-----------------------------------------------------------------------------
(* Targets and lists *)

LEMMA TargetFacts ==
  /\ Targets = RecordTargets \cup ReportTargets
  /\ RecordTargets \cap ReportTargets = {}
  /\ Trades # Orders
  /\ \A r \in Records : Copies(r) \subseteq RecordTargets
  /\ \A r, q : Workbook(r) # Sheet(q)
  /\ \A r, q : Workbook(r) = Workbook(q) => r = q
  /\ \A r, q : Sheet(r) = Sheet(q) => r = q
<1>1. /\ \A r, q : Workbook(r) # Sheet(q)
      /\ \A r, q : Workbook(r) = Workbook(q) => r = q
      /\ \A r, q : Sheet(r) = Sheet(q) => r = q
      /\ Trades # Orders
      /\ \A r : Workbook(r) \notin {Trades, Orders} /\ Sheet(r) \notin {Trades, Orders}
  BY DEF Workbook, Sheet, Trades, Orders
<1>2. /\ Targets = RecordTargets \cup ReportTargets
      /\ \A r \in Records : Copies(r) \subseteq RecordTargets
  BY DEF Targets, RecordTargets, ReportTargets
<1>3. \A r \in Records : \A t \in Copies(r) : t \notin ReportTargets
  BY <1>1 DEF Copies, ReportTargets
<1> QED
  BY <1>1, <1>2, <1>3 DEF RecordTargets

LEMMA TailFacts ==
  ASSUME NEW list \in Seq(Writes), list # <<>>
  PROVE  /\ Tail(list) \in Seq(Writes) /\ Len(Tail(list)) = Len(list) - 1
         /\ Len(list) \in Nat /\ 1 \in 1..Len(list)
         /\ Head(list) = list[1] /\ list[1] \in Writes
         /\ \A i \in 1..Len(Tail(list)) : Tail(list)[i] = list[i + 1] /\ i + 1 \in 1..Len(list)
<1>1. /\ Tail(list) \in Seq(Writes) /\ Len(Tail(list)) = Len(list) - 1
      /\ \A i \in 1..Len(Tail(list)) : Tail(list)[i] = list[i + 1]
      /\ Head(list) = list[1]
  BY HeadTailProperties
<1>2. Len(list) \in Nat /\ Len(list) # 0
  BY LenProperties, EmptySeq
<1> QED
  BY <1>1, <1>2, ElementOfSeq

\* When the first write is done the last ones stay the last.
LEMMA TailWrites ==
  ASSUME NEW list \in Seq(Writes), list # <<>>, NEW t
  PROVE  /\ \A i \in Nat : IsLastWrite(Tail(list), i, t) =>
              i + 1 \in Nat /\ IsLastWrite(list, i + 1, t) /\ Tail(list)[i] = list[i + 1]
         /\ NoWriteTo(Tail(list), t) =>
              IF Head(list).target = t THEN IsLastWrite(list, 1, t) ELSE NoWriteTo(list, t)
         /\ \A T : WritesTo(list, T) => WritesTo(Tail(list), T) /\ Head(list).target \in T
<1>1. /\ Len(Tail(list)) = Len(list) - 1 /\ Len(list) \in Nat /\ 1 \in 1..Len(list)
      /\ Head(list) = list[1]
      /\ \A i \in 1..Len(Tail(list)) : Tail(list)[i] = list[i + 1] /\ i + 1 \in 1..Len(list)
  BY TailFacts
<1>2. \A k \in 1..Len(list) : k > 1 =>
         k - 1 \in 1..Len(Tail(list)) /\ Tail(list)[k - 1] = list[k]
  BY <1>1
<1>3. ASSUME NEW i \in Nat, IsLastWrite(Tail(list), i, t)
      PROVE  i + 1 \in Nat /\ IsLastWrite(list, i + 1, t) /\ Tail(list)[i] = list[i + 1]
  <2>1. i \in 1..Len(Tail(list)) /\ Tail(list)[i].target = t
    BY <1>3 DEF IsLastWrite
  <2>2. ASSUME NEW k \in 1..Len(list), k > i + 1
        PROVE  list[k].target # t
    <3>1. k - 1 \in 1..Len(Tail(list)) /\ k - 1 > i /\ Tail(list)[k - 1] = list[k]
      BY <1>2, <2>2
    <3> QED
      BY <1>3, <3>1 DEF IsLastWrite
  <2> QED
    BY <1>1, <2>1, <2>2 DEF IsLastWrite
<1>4. ASSUME NoWriteTo(Tail(list), t)
      PROVE  \A k \in 1..Len(list) : k > 1 => list[k].target # t
  BY <1>2, <1>4 DEF NoWriteTo
<1>5. NoWriteTo(Tail(list), t) =>
        IF Head(list).target = t THEN IsLastWrite(list, 1, t) ELSE NoWriteTo(list, t)
  BY <1>1, <1>4 DEF NoWriteTo, IsLastWrite
<1>6. \A T : WritesTo(list, T) => WritesTo(Tail(list), T) /\ Head(list).target \in T
  BY <1>1 DEF WritesTo
<1> QED
  BY <1>3, <1>5, <1>6

-----------------------------------------------------------------------------
(* One write *)

\* The history a thread is writing, or would write next.
UpTo(th) == IF doing[th] = NoWrite THEN NextWrite(th).upTo ELSE doing[th].upTo

LEMMA NextWriteFacts ==
  ASSUME WTypeOK, NEW th \in Threads, round[th] # <<>>
  PROVE  /\ Head(round[th]) \in Writes
         /\ NextWrite(th) \in Writes /\ NextWrite(th).target = Head(round[th]).target
         /\ NextWrite(th).target \in ReportTargets => NextWrite(th).upTo = Due(NextWrite(th).target)
         /\ NextWrite(th).target \in RecordTargets => NextWrite(th).upTo = Head(round[th]).upTo
<1>1. PICK w \in Writes : w = Head(round[th])
  BY TailFacts DEF WTypeOK
<1>2. NextWrite(th) = [w EXCEPT !.upTo = CASE w.target = Trades -> durable
                                           [] w.target = Orders -> handled
                                           [] OTHER -> w.upTo]
  BY <1>1 DEF NextWrite
<1>3. durable \in Nat /\ handled \in Nat
  <2>1. journal \in Seq(Nat) /\ durable \in 0..Len(journal) /\ handled \in Nat
    BY DEF WTypeOK
  <2> QED
    BY <2>1, LenProperties
<1>4. /\ w.target = Trades => NextWrite(th) = [w EXCEPT !.upTo = durable]
      /\ w.target = Orders => NextWrite(th) = [w EXCEPT !.upTo = handled]
      /\ w.target \in RecordTargets => NextWrite(th) = [w EXCEPT !.upTo = w.upTo]
  BY <1>2, TargetFacts DEF ReportTargets
<1>5. w.target \in ReportTargets \/ w.target \in RecordTargets
  BY TargetFacts DEF Writes
<1> QED
  BY <1>1, <1>3, <1>4, <1>5, TargetFacts DEF Writes, Due, ReportTargets

\* A write goes on: the target at the head of the round is opened, or it is done
\* with and shows the history, or was given up, unless somebody else opened it
\* meanwhile.
WriteEffect(th, t) ==
  /\ \A x \in Threads \ {th} : round'[x] = round[x] /\ doing'[x] = doing[x]
  /\ \A u \in Targets \ {t} :
       content'[u] = content[u] /\ openedBy'[u] = openedBy[u] /\ gaveUp'[u] = gaveUp[u]
  /\ \/ /\ round'[th] = round[th] /\ doing[th] = NoWrite
        /\ doing'[th].target = t /\ doing'[th].upTo = NextWrite(th).upTo
        /\ openedBy'[t] = th
     \/ /\ round'[th] = Tail(round[th]) /\ doing'[th] = NoWrite
        /\ openedBy[t] = th \/ doing[th] = NoWrite
           => content'[t] = UpTo(th) \/ gaveUp'[t] >= UpTo(th)

LEMMA WritingDoes ==
  ASSUME WTypeOK, NEW th \in Threads, Writing(th), round[th] # <<>>, WriteInProgress(th),
         UNCHANGED <<logVars, handled, queue, latest, at, wanted, closing, overran>>
  PROVE  WTypeOK' /\ WriteEffect(th, Head(round[th]).target)
<1>1. PICK w \in Writes : w = NextWrite(th)
  BY NextWriteFacts
<1>2. PICK t \in Targets : t = Head(round[th]).target
  BY NextWriteFacts DEF Writes
<1>3. w.target = t /\ w.upTo \in Nat
  BY <1>1, <1>2, NextWriteFacts DEF Writes
<1>4. Tail(round[th]) \in Seq(Writes) /\ round[th] \in Seq(Writes)
  BY TailFacts DEF WTypeOK
<1>5. doing[th] # NoWrite => doing[th].target = t /\ doing[th] \in Writes /\ doing[th].upTo \in Nat
  BY <1>2 DEF WriteInProgress, WTypeOK, Writes
<1>6. /\ content \in [Targets -> Nat] /\ gaveUp \in [Targets -> Nat]
      /\ openedBy \in [Targets -> Threads \cup {"nobody"}]
      /\ round \in [Threads -> Seq(Writes)]
      /\ doing \in [Threads -> Writes \cup {NoWrite}]
  BY DEF WTypeOK
<1>7. ASSUME /\ content' \in [Targets -> Nat] /\ gaveUp' \in [Targets -> Nat]
             /\ openedBy' \in [Targets -> Threads \cup {"nobody"}]
             /\ round' \in [Threads -> Seq(Writes)]
             /\ doing' \in [Threads -> Writes \cup {NoWrite}]
             /\ client' \in {"unasked", "there", "off"}
      PROVE  WTypeOK'
  BY <1>7 DEF WTypeOK, logVars
<1>8. CASE OpenTarget(th)
  <2>1. doing[th] = NoWrite /\ UNCHANGED gaveUp
    BY <1>8 DEF OpenTarget
  <2>2. CASE w.upTo = 0
    <3>1. /\ round' = [round EXCEPT ![th] = Tail(@)]
          /\ UNCHANGED <<content, openedBy, doing, client>>
      BY <1>1, <1>8, <2>2 DEF OpenTarget
    <3>2. UpTo(th) = 0
      BY <1>1, <2>1, <2>2 DEF UpTo
    <3>3. gaveUp'[t] >= 0
      BY <1>6, <2>1
    <3>4. WTypeOK'
      BY <1>4, <1>6, <1>7, <2>1, <3>1 DEF WTypeOK
    <3> QED
      BY <1>2, <1>6, <2>1, <3>1, <3>2, <3>3, <3>4 DEF WriteEffect
  <2>3. CASE w.upTo # 0
    <3>1. /\ doing' = [doing EXCEPT ![th] = w]
          /\ content' = [content EXCEPT ![t] = 0]
          /\ openedBy' = [openedBy EXCEPT ![t] = th]
          /\ UNCHANGED round
          /\ client' \in {"unasked", "there", "off"}
      BY <1>1, <1>3, <1>8, <2>3 DEF OpenTarget, WTypeOK
    <3>2. WTypeOK'
      BY <1>6, <1>7, <2>1, <3>1
    <3>3. /\ doing'[th].target = t /\ doing'[th].upTo = NextWrite(th).upTo
          /\ openedBy'[t] = th
      BY <1>1, <1>3, <1>6, <3>1
    <3> QED
      BY <1>2, <1>6, <2>1, <3>1, <3>2, <3>3 DEF WriteEffect
  <2> QED
    BY <2>2, <2>3
<1>9. CASE CloseTarget(th)
  <2>1. doing[th] # NoWrite /\ UNCHANGED <<client, gaveUp>>
    BY <1>9 DEF CloseTarget
  <2>2. UpTo(th) = doing[th].upTo
    BY <2>1 DEF UpTo
  <2>3. PICK shown \in IF openedBy[t] = th THEN {UpTo(th)} ELSE {0, UpTo(th)} :
           content' = [content EXCEPT ![t] = shown]
    BY <1>5, <1>9, <2>1, <2>2 DEF CloseTarget
  <2>4. /\ openedBy' = [openedBy EXCEPT ![t] = IF @ = th THEN "nobody" ELSE @]
        /\ round' = [round EXCEPT ![th] = Tail(@)]
        /\ doing' = [doing EXCEPT ![th] = NoWrite]
    BY <1>5, <1>9, <2>1 DEF CloseTarget
  <2>5. shown \in Nat
    BY <1>5, <2>1, <2>2, <2>3
  <2>6. WTypeOK'
    <3>1. client' \in {"unasked", "there", "off"}
      BY <2>1 DEF WTypeOK
    <3>2. content' \in [Targets -> Nat]
      BY <1>6, <2>3, <2>5
    <3>3. openedBy' \in [Targets -> Threads \cup {"nobody"}]
      BY <1>6, <2>4
    <3>4. round' \in [Threads -> Seq(Writes)] /\ doing' \in [Threads -> Writes \cup {NoWrite}]
      BY <1>4, <1>6, <2>4
    <3> QED
      BY <1>6, <1>7, <2>1, <3>1, <3>2, <3>3, <3>4
  <2>7. openedBy[t] = th => content'[t] = UpTo(th)
    BY <1>6, <2>3
  <2> QED
    BY <1>2, <1>6, <2>1, <2>3, <2>4, <2>6, <2>7 DEF WriteEffect
<1>10. CASE GiveUp(th)
  <2>1. PICK g \in Writes : g = IF doing[th] = NoWrite THEN NextWrite(th) ELSE doing[th]
    BY <1>1, <1>5
  <2>2. g.target = t /\ g.upTo = UpTo(th) /\ g.upTo \in Nat
    BY <1>1, <1>3, <1>5, <2>1 DEF UpTo
  <2>3. /\ gaveUp' = [gaveUp EXCEPT ![t] = IF @ < g.upTo THEN g.upTo ELSE @]
        /\ round' = [round EXCEPT ![th] = Tail(@)]
        /\ doing' = [doing EXCEPT ![th] = NoWrite]
        /\ UNCHANGED <<content, openedBy>>
        /\ client' = "off" \/ client' = client
    BY <1>10, <2>1, <2>2 DEF GiveUp
  <2>4. gaveUp'[t] >= UpTo(th)
    <3>1. PICK n \in Nat : n = gaveUp[t]
      BY <1>6
    <3>2. gaveUp'[t] = IF n < g.upTo THEN g.upTo ELSE n
      BY <1>6, <2>3, <3>1
    <3> QED
      BY <2>2, <3>1, <3>2
  <2>5. WTypeOK'
    <3>1. client' \in {"unasked", "there", "off"}
      BY <2>3 DEF WTypeOK
    <3>2. gaveUp' \in [Targets -> Nat]
      BY <1>6, <2>2, <2>3
    <3>4. round' \in [Threads -> Seq(Writes)] /\ doing' \in [Threads -> Writes \cup {NoWrite}]
      BY <1>4, <1>6, <2>3
    <3> QED
      BY <1>6, <1>7, <2>3, <3>1, <3>2, <3>4
  <2> QED
    BY <1>2, <1>6, <2>3, <2>4, <2>5 DEF WriteEffect
<1> QED
  BY <1>8, <1>9, <1>10 DEF Writing

-----------------------------------------------------------------------------
(* A round goes on *)

\* Who has a write to a target at the head of its round.
LEMMA WhoWrites ==
  ASSUME WritersInv, NEW th \in Threads, round[th] # <<>>, NEW t, t = Head(round[th]).target
  PROVE  /\ t \in Targets
         /\ th = "recorder" => t \in RecordTargets
         /\ th = "reporter" => t \in ReportTargets
         /\ th = "main" => \/ closing = "reports" /\ t \in ReportTargets
                           \/ closing = "records" /\ t \in RecordTargets
         /\ th \in Background => at[th] = "working"
<1>1. round[th] \in Seq(Writes)
  BY DEF WritersInv, WTypeOK
<1>2. ASSUME NEW T, WritesTo(round[th], T)
      PROVE  t \in T
  BY <1>1, <1>2, TailWrites
<1>3. Head(round[th]) \in Writes
  BY NextWriteFacts DEF WritersInv
<1>4. th = "recorder" => t \in RecordTargets
  BY <1>2 DEF WritersInv, RoundsOfServices
<1>5. th = "reporter" => t \in ReportTargets
  BY <1>2 DEF WritersInv, RoundsOfServices
<1>6. th = "main" => t \in (IF closing = "reports" THEN ReportTargets
                            ELSE IF closing = "records" THEN RecordTargets ELSE {})
  BY <1>2 DEF WritersInv, RoundsOfServices
<1>7. th \in Background => at[th] = "working"
  BY DEF WritersInv, ThreadsEnd
<1> QED
  BY <1>3, <1>4, <1>5, <1>6, <1>7 DEF Writes

\* Where joins do not time out, no two threads write to one target.
LEMMA OneWriter ==
  ASSUME WritersInv, NEW th \in Threads, NEW x \in Threads,
         round[th] # <<>>, round[x] # <<>>, NEW t,
         t = Head(round[th]).target, t = Head(round[x]).target,
         \/ t \in RecordTargets /\ "recorder" \notin overran
         \/ t \in ReportTargets /\ "reporter" \notin overran
  PROVE  x = th
<1>1. \A b \in Background : Joined(b) /\ b \notin overran => at[b] # "working"
  BY DEF WritersInv, ThreadsEnd
<1>2. closing = "reports" => Joined("reporter")
  BY DEF Joined
<1>3. closing = "records" => Joined("recorder")
  BY DEF Joined
<1>4. RecordTargets \cap ReportTargets = {}
  BY TargetFacts
<1>5. Threads = {"recorder", "reporter", "main"} /\ Background = {"recorder", "reporter"}
  BY DEF Threads, Background
<1>6. /\ th = "recorder" => t \in RecordTargets /\ at["recorder"] = "working"
      /\ th = "reporter" => t \in ReportTargets /\ at["reporter"] = "working"
      /\ th = "main" => \/ closing = "reports" /\ t \in ReportTargets
                        \/ closing = "records" /\ t \in RecordTargets
  BY <1>5, WhoWrites
<1>7. /\ x = "recorder" => t \in RecordTargets /\ at["recorder"] = "working"
      /\ x = "reporter" => t \in ReportTargets /\ at["reporter"] = "working"
      /\ x = "main" => \/ closing = "reports" /\ t \in ReportTargets
                       \/ closing = "records" /\ t \in RecordTargets
  BY <1>5, WhoWrites
<1> QED
  BY <1>1, <1>2, <1>3, <1>4, <1>5, <1>6, <1>7

LEMMA WritingKeeps ==
  ASSUME WritersInv, NEW th \in Threads, Writing(th),
         UNCHANGED <<logVars, handled, queue, latest, at, wanted, closing, overran>>
  PROVE  WritersInv'
<1>1. WTypeOK /\ WriteInProgress(th)
  BY DEF WritersInv
<1>2. round[th] # <<>>
  BY <1>1 DEF Writing, OpenTarget, CloseTarget, GiveUp, RoundDone, WriteInProgress
<1>3. PICK t : t = Head(round[th]).target
  OBVIOUS
<1>4. WTypeOK' /\ WriteEffect(th, t)
  BY <1>1, <1>2, <1>3, WritingDoes
<1>5. /\ t \in Targets
      /\ th = "recorder" => t \in RecordTargets
      /\ th = "reporter" => t \in ReportTargets
      /\ th = "main" => \/ closing = "reports" /\ t \in ReportTargets
                        \/ closing = "records" /\ t \in RecordTargets
      /\ th \in Background => at[th] = "working"
  BY <1>2, <1>3, WhoWrites
<1>6. \A x \in Threads : round[x] \in Seq(Writes)
  BY <1>1 DEF WTypeOK
<1>7. ASSUME NEW x \in Threads, NEW T, WritesTo(round[x], T)
      PROVE  WritesTo(round'[x], T)
  BY <1>2, <1>4, <1>6, <1>7, TailWrites DEF WriteEffect
<1>8. RoundsOfServices'
  <2>1. "main" \in Threads /\ "recorder" \in Threads /\ "reporter" \in Threads
    BY DEF Threads, Background
  <2>2. RoundsOfServices /\ closing' = closing
    BY DEF WritersInv
  <2> QED
    BY <1>7, <2>1, <2>2 DEF RoundsOfServices
<1>9. ThreadsEnd'
  <2>1. ThreadsEnd /\ UNCHANGED <<at, wanted, closing, overran>>
    BY DEF WritersInv
  <2>2. ASSUME NEW b \in Background, at[b] # "working"
        PROVE  round'[b] = <<>>
    <3>1. round[b] = <<>> /\ b \in Threads
      BY <2>1, <2>2 DEF ThreadsEnd, Threads
    <3>2. b # th
      BY <1>2, <3>1
    <3> QED
      BY <1>4, <3>1, <3>2 DEF WriteEffect
  <2> QED
    BY <2>1, <2>2 DEF ThreadsEnd, Told, Joined
<1>10. ASSUME NEW x \in Threads
       PROVE  WriteInProgress(x)'
  <2>1. CASE x = th
    <3>1. CASE round'[th] = round[th] /\ doing'[th].target = t /\ openedBy'[t] = th
               /\ doing'[th].upTo = NextWrite(th).upTo
      <4>1. t \in RecordTargets => doing'[th].upTo = Head(round[th]).upTo
        BY <1>1, <1>2, <1>3, <3>1, NextWriteFacts
      <4> QED
        BY <1>2, <1>3, <2>1, <3>1, <4>1 DEF WriteInProgress
    <3>2. CASE doing'[th] = NoWrite
      BY <2>1, <3>2 DEF WriteInProgress
    <3> QED
      BY <1>4, <3>1, <3>2 DEF WriteEffect
  <2>2. CASE x # th
    <3>1. round'[x] = round[x] /\ doing'[x] = doing[x] /\ WriteInProgress(x)
      BY <1>4, <2>2 DEF WriteEffect, WritersInv
    <3>2. ASSUME doing[x] # NoWrite,
                 \/ doing[x].target \in RecordTargets /\ "recorder" \notin overran
                 \/ doing[x].target \in ReportTargets /\ "reporter" \notin overran
          PROVE  openedBy'[doing[x].target] = openedBy[doing[x].target]
      <4>1. round[x] # <<>> /\ doing[x].target = Head(round[x]).target
        BY <3>1, <3>2 DEF WriteInProgress
      <4>2. PICK u : u = doing[x].target
        OBVIOUS
      <4>3. u # t
        BY <1>2, <1>3, <2>2, <3>2, <4>1, <4>2, OneWriter
      <4>4. u \in Targets
        BY <4>1, <4>2, WhoWrites
      <4> QED
        BY <1>4, <4>2, <4>3, <4>4 DEF WriteEffect
    <3>3. overran' = overran
      OBVIOUS
    <3>4. doing[x] # NoWrite => doing[x].target \in RecordTargets \cup ReportTargets
      <4>1. doing[x] # NoWrite => doing[x].target \in Targets
        BY <3>1, WhoWrites DEF WriteInProgress
      <4> QED
        BY <4>1, TargetFacts
    <3> QED
      BY <3>1, <3>2, <3>3, <3>4, TargetFacts DEF WriteInProgress
  <2> QED
    BY <2>1, <2>2
<1>11. ASSUME NEW x \in Threads
       PROVE  round'[x] = round[x] \/ (round'[x] = Tail(round[x]) /\ x = th)
  <2>1. CASE x = th
    BY <1>4, <2>1 DEF WriteEffect
  <2>2. CASE x # th
    <3>1. x \in Threads \ {th}
      BY <2>2
    <3> QED
      BY <1>4, <3>1 DEF WriteEffect
  <2> QED
    BY <2>1, <2>2
<1>12. ASSUME NEW x \in Threads, NEW u, NEW i \in Nat, IsLastWrite(round'[x], i, u)
       PROVE  \E j \in Nat : IsLastWrite(round[x], j, u)
                              /\ round'[x][i].upTo = round[x][j].upTo
  <2>1. CASE round'[x] = round[x]
    BY <1>12, <2>1
  <2>2. CASE round'[x] = Tail(round[x]) /\ x = th
    <3>1. PICK list \in Seq(Writes) : list = round[x]
      BY <1>6
    <3>2. list # <<>> /\ IsLastWrite(Tail(list), i, u)
      BY <1>2, <1>12, <2>2, <3>1
    <3>3. i + 1 \in Nat /\ IsLastWrite(list, i + 1, u) /\ Tail(list)[i] = list[i + 1]
      BY <3>2, TailWrites
    <3> QED
      BY <2>2, <3>1, <3>3
  <2> QED
    BY <1>11, <2>1, <2>2
<1>13. ASSUME NEW x \in Threads, NEW u, NoWriteTo(round'[x], u)
       PROVE  IF u = t /\ round'[x] # round[x]
              THEN x = th /\ IsLastWrite(round[x], 1, u)
              ELSE NoWriteTo(round[x], u)
  <2>1. CASE round'[x] = round[x]
    BY <1>13, <2>1
  <2>2. CASE round'[x] = Tail(round[x]) /\ x = th
    BY <1>2, <1>3, <1>6, <1>13, <2>2, TailWrites
  <2> QED
    BY <1>11, <2>1, <2>2
<1>14. NoWriteTo(round'[th], t) =>
         round'[th] = Tail(round[th]) /\ IsLastWrite(round[th], 1, t)
  <2>1. ~NoWriteTo(round[th], t)
    BY <1>2, <1>3, <1>6, TailFacts DEF NoWriteTo
  <2> QED
    BY <1>11, <1>13, <2>1
<1>18. Tail(round[th]) # round[th]
  <2>1. PICK list \in Seq(Writes) : list = round[th]
    BY <1>6
  <2>2. Len(Tail(list)) = Len(list) - 1 /\ Len(list) \in Nat
    BY <1>2, <2>1, TailFacts
  <2>3. PICK m \in Nat : m = Len(list)
    BY <2>2
  <2>4. Tail(list) = list => m = m - 1
    BY <2>2, <2>3
  <2>5. m # m - 1
    OBVIOUS
  <2> QED
    BY <2>1, <2>4, <2>5
<1>15. CatchingUp'
  <2> SUFFICES ASSUME "recorder" \notin overran, NEW r \in Records, NEW u \in Copies(r)
               PROVE  Catching(r, u)'
    BY DEF CatchingUp
  <2>1. Catching(r, u) /\ u \in RecordTargets
    BY TargetFacts DEF WritersInv, CatchingUp
  <2>2. NoJob(queue, r) =>
          \A x \in Threads :
            \A i \in Nat : IsLastWrite(round'[x], i, u) => round'[x][i].upTo = latest[r]
    BY <1>12, <2>1 DEF Catching
  <2>3. ASSUME NoJob(queue, r), \A x \in Threads : NoWriteTo(round'[x], u)
        PROVE  content'[u] = latest[r] \/ gaveUp'[u] >= latest[r]
    <3>1. CASE u = t
      <4>1. round'[th] = Tail(round[th]) /\ IsLastWrite(round[th], 1, u)
        BY <1>14, <2>3, <3>1
      <4>2. round[th][1].upTo = latest[r] /\ Head(round[th]) = round[th][1]
        BY <1>2, <1>6, <2>1, <2>3, <4>1, TailFacts DEF Catching
      <4>3. UpTo(th) = latest[r]
        BY <1>1, <1>2, <1>3, <2>1, <3>1, <4>2, NextWriteFacts DEF UpTo, WriteInProgress
      <4>4. doing[th] # NoWrite => openedBy[u] = th
        BY <1>1, <1>3, <2>1, <3>1, TargetFacts DEF WriteInProgress
      <4>5. round'[th] # round[th]
        BY <1>18, <4>1
      <4> QED
        BY <1>4, <3>1, <4>3, <4>4, <4>5 DEF WriteEffect
    <3>2. CASE u # t
      <4>1. \A x \in Threads : NoWriteTo(round[x], u)
        BY <1>13, <2>3, <3>2
      <4>2. content'[u] = content[u] /\ gaveUp'[u] = gaveUp[u]
        BY <1>4, <2>1, <3>2, TargetFacts DEF WriteEffect
      <4> QED
        BY <2>1, <2>3, <4>1, <4>2 DEF Catching, Shows
    <3> QED
      BY <3>1, <3>2
  <2> QED
    BY <2>1, <2>2, <2>3 DEF Catching, Shows
<1>16. LastReports'
  <2> SUFFICES ASSUME "reporter" \notin overran, Joined("reporter"), NEW u \in ReportTargets
               PROVE  /\ doing'["main"] # NoWrite /\ doing'["main"].target = u
                           => doing'["main"].upTo = Due(u)
                      /\ NoWriteTo(round'["main"], u) => Shows(u, Due(u))'
    BY DEF LastReports, Joined, Due, logVars
  <2>1. /\ doing["main"] # NoWrite /\ doing["main"].target = u => doing["main"].upTo = Due(u)
        /\ NoWriteTo(round["main"], u) => Shows(u, Due(u))
    BY DEF WritersInv, LastReports
  <2>2. "main" \in Threads /\ u \in Targets /\ u \notin RecordTargets
    BY TargetFacts DEF Threads
  <2>3. UNCHANGED Due(u)
    BY DEF Due, logVars
  <2>4. CASE th = "main" /\ u = t
    <3>1. UpTo(th) = Due(u) /\ NextWrite(th).upTo = Due(u)
      BY <1>1, <1>2, <1>3, <2>1, <2>4, NextWriteFacts DEF UpTo, WriteInProgress
    <3>2. doing[th] # NoWrite => openedBy[u] = th
      BY <1>1, <1>3, <2>2, <2>4 DEF WriteInProgress
    <3>3. ASSUME NoWriteTo(round'[th], u)
          PROVE  Shows(u, Due(u))'
      <4>1. round'[th] = Tail(round[th])
        BY <1>14, <2>4, <3>3
      <4>2. round'[th] # round[th]
        BY <1>18, <4>1
      <4> QED
        BY <1>4, <2>3, <2>4, <3>1, <3>2, <4>2 DEF WriteEffect, Shows
    <3> QED
      BY <1>4, <2>4, <3>1, <3>3 DEF WriteEffect
  <2>5. CASE th = "main" /\ u # t
    <3>1. NoWriteTo(round'["main"], u) => NoWriteTo(round["main"], u)
      BY <1>13, <2>2, <2>5
    <3>2. content'[u] = content[u] /\ gaveUp'[u] = gaveUp[u]
      BY <1>4, <2>2, <2>5 DEF WriteEffect
    <3>3. doing'["main"] # NoWrite => doing'["main"].target # u
      BY <1>4, <2>5 DEF WriteEffect
    <3> QED
      BY <2>1, <2>3, <3>1, <3>2, <3>3 DEF Shows
  <2>6. CASE th # "main"
    <3>1. th = "recorder"
      <4>1. th \in {"recorder", "reporter"}
        BY <2>6 DEF Threads, Background
      <4>2. at["reporter"] # "working"
        BY DEF WritersInv, ThreadsEnd, Background
      <4> QED
        BY <1>5, <4>1, <4>2 DEF Background
    <3>2. u # t
      BY <1>5, <2>2, <3>1
    <3>3. /\ round'["main"] = round["main"] /\ doing'["main"] = doing["main"]
          /\ content'[u] = content[u] /\ gaveUp'[u] = gaveUp[u]
      BY <1>4, <2>2, <2>6, <3>2 DEF WriteEffect
    <3> QED
      BY <2>1, <2>3, <3>3 DEF Shows
  <2> QED
    BY <2>4, <2>5, <2>6
<1>17. Emptied'
  BY DEF WritersInv, Emptied, Joined, logVars
<1> QED
  BY <1>4, <1>8, <1>9, <1>10, <1>15, <1>16, <1>17 DEF WritersInv

-----------------------------------------------------------------------------
(* A round begins *)

\* The last write of a round to a copy of a record is that of its last job.
LEMMA RecordRoundWrites ==
  ASSUME NEW jobs \in Seq(Jobs)
  PROVE  /\ RecordRound(jobs) \in Seq(Writes)
         /\ WritesTo(RecordRound(jobs), RecordTargets)
         /\ \A r \in Records : \A t \in Copies(r) :
              /\ \A i \in Nat : IsLastWrite(RecordRound(jobs), i, t) =>
                   \E j \in Nat : IsLastJob(jobs, j, r) /\ RecordRound(jobs)[i].upTo = jobs[j].upTo
              /\ NoWriteTo(RecordRound(jobs), t) => NoJob(jobs, r)
<1> DEFINE n == Len(jobs)
           A == [i \in DOMAIN jobs |-> [target |-> Workbook(jobs[i].record), upTo |-> jobs[i].upTo]]
           B == [i \in DOMAIN jobs |-> [target |-> Sheet(jobs[i].record), upTo |-> jobs[i].upTo]]
           C == IF Sheets THEN B ELSE <<>>
           R == A \o C
<1>1. n \in Nat /\ DOMAIN jobs = 1..n /\ \A i \in 1..n : jobs[i] \in Jobs
  BY LenProperties, ElementOfSeq
<1>2. RecordRound(jobs) = R
  BY DEF RecordRound
<1>3. ASSUME NEW i \in 1..n
      PROVE  /\ Workbook(jobs[i].record) \in RecordTargets /\ jobs[i].upTo \in Nat
             /\ Sheets => Sheet(jobs[i].record) \in RecordTargets
             /\ A[i].target = Workbook(jobs[i].record) /\ A[i].upTo = jobs[i].upTo
             /\ B[i].target = Sheet(jobs[i].record) /\ B[i].upTo = jobs[i].upTo
  <2>1. jobs[i].record \in Records /\ jobs[i].upTo \in Nat
    BY <1>1 DEF Jobs
  <2>2. Copies(jobs[i].record) \subseteq RecordTargets
    BY <2>1, TargetFacts
  <2> QED
    BY <1>1, <2>1, <2>2 DEF Copies
<1>4. A \in Seq(Writes) /\ Len(A) = n
  <2>1. A \in [1..n -> Writes]
    BY <1>1, <1>3, TargetFacts DEF Writes
  <2> QED
    BY <1>1, <2>1, SeqDef, LenProperties
<1>5. C \in Seq(Writes) /\ Len(C) = (IF Sheets THEN n ELSE 0)
  <2>1. ASSUME Sheets PROVE B \in [1..n -> Writes]
    BY <1>1, <1>3, <2>1, TargetFacts DEF Writes
  <2>2. ASSUME Sheets PROVE B \in Seq(Writes) /\ Len(B) = n
    BY <1>1, <2>1, <2>2, SeqDef, LenProperties
  <2> QED
    BY <2>2, RecordAssumption
<1>6. /\ R \in Seq(Writes) /\ Len(R) = n + Len(C)
      /\ \A i \in 1..n + Len(C) : R[i] = IF i <= n THEN A[i] ELSE C[i - n]
  <2>1. PICK f \in Seq(Writes), g \in Seq(Writes) : f = A /\ g = C
    BY <1>4, <1>5
  <2>2. /\ f \o g \in Seq(Writes) /\ Len(f \o g) = Len(f) + Len(g)
        /\ \A i \in 1..Len(f) + Len(g) : (f \o g)[i] = IF i <= Len(f) THEN f[i] ELSE g[i - Len(f)]
    BY ConcatProperties
  <2> QED
    BY <1>4, <2>1, <2>2
<1> HIDE DEF A, B, R, C, n
<1>7. /\ \A i \in 1..n : i \in 1..Len(R) /\ R[i] = A[i]
      /\ Sheets => \A i \in 1..n : n + i \in 1..Len(R) /\ R[n + i] = B[i]
      /\ \A i \in 1..Len(R) : \/ i \in 1..n
                              \/ Sheets /\ i - n \in 1..n /\ R[i] = B[i - n]
  <2>1. /\ Sheets => C = B /\ Len(C) = n
        /\ ~Sheets => Len(C) = 0
    BY <1>5 DEF C
  <2>2. ASSUME NEW i \in 1..n
        PROVE  i \in 1..Len(R) /\ R[i] = A[i]
    BY <1>1, <1>6, <2>1, RecordAssumption
  <2>3. ASSUME Sheets, NEW i \in 1..n
        PROVE  n + i \in 1..Len(R) /\ R[n + i] = B[i]
    <3>1. n + i \in 1..n + Len(C) /\ ~(n + i <= n) /\ (n + i) - n = i
      BY <1>1, <2>1, <2>3
    <3> QED
      BY <1>6, <2>1, <2>3, <3>1
  <2>4. ASSUME NEW i \in 1..Len(R), i \notin 1..n
        PROVE  Sheets /\ i - n \in 1..n /\ R[i] = B[i - n]
    <3>1. Sheets /\ i - n \in 1..n /\ ~(i <= n) /\ i \in 1..n + Len(C)
      BY <1>1, <1>6, <2>1, <2>4, RecordAssumption
    <3> QED
      BY <1>6, <2>1, <3>1
  <2> QED
    BY <2>2, <2>3, <2>4
<1>8. WritesTo(R, RecordTargets)
  BY <1>3, <1>7 DEF WritesTo
<1>9. ASSUME NEW r \in Records, NEW t \in Copies(r)
      PROVE  /\ \A i \in Nat : IsLastWrite(R, i, t) =>
                   \E j \in Nat : IsLastJob(jobs, j, r) /\ R[i].upTo = jobs[j].upTo
             /\ NoWriteTo(R, t) => NoJob(jobs, r)
  <2>1. CASE t = Workbook(r)
    <3>1. \A i \in 1..Len(R) : R[i].target = t => i \in 1..n /\ jobs[i].record = r
      BY <1>3, <1>7, <2>1, TargetFacts
    <3>2. \A i \in 1..n : jobs[i].record = r => i \in 1..Len(R) /\ R[i].target = t
      BY <1>3, <1>7, <2>1
    <3>3. ASSUME NEW i \in Nat, IsLastWrite(R, i, t)
          PROVE  IsLastJob(jobs, i, r) /\ R[i].upTo = jobs[i].upTo
      <4>1. i \in 1..Len(R) /\ R[i].target = t
        BY <3>3 DEF IsLastWrite
      <4>2. \A k \in 1..n : k > i => jobs[k].record # r
        BY <3>2, <3>3 DEF IsLastWrite
      <4>3. R[i].upTo = jobs[i].upTo
        BY <1>3, <1>7, <3>1, <4>1
      <4> QED
        BY <3>1, <4>1, <4>2, <4>3 DEF IsLastJob, n
    <3>4. NoWriteTo(R, t) => NoJob(jobs, r)
      BY <3>2 DEF NoWriteTo, NoJob, n
    <3> QED
      BY <3>3, <3>4
  <2>2. CASE Sheets /\ t = Sheet(r)
    <3>1. \A i \in 1..Len(R) : R[i].target = t => i - n \in 1..n /\ R[i] = B[i - n]
                                                  /\ jobs[i - n].record = r
      BY <1>3, <1>7, <2>2, TargetFacts
    <3>2. \A i \in 1..n : jobs[i].record = r => n + i \in 1..Len(R) /\ R[n + i].target = t
      BY <1>3, <1>7, <2>2
    <3>3. ASSUME NEW i \in Nat, IsLastWrite(R, i, t)
          PROVE  \E j \in Nat : IsLastJob(jobs, j, r) /\ R[i].upTo = jobs[j].upTo
      <4>1. i \in 1..Len(R) /\ R[i].target = t
        BY <3>3 DEF IsLastWrite
      <4>2. PICK j \in 1..n : j = i - n
        BY <3>1, <4>1
      <4>3. ASSUME NEW k \in 1..n, k > j
            PROVE  jobs[k].record # r
        <5>1. n + k > i
          BY <1>1, <4>2, <4>3
        <5> QED
          BY <3>2, <3>3, <5>1 DEF IsLastWrite
      <4>4. R[i].upTo = jobs[j].upTo /\ jobs[j].record = r
        BY <1>3, <3>1, <4>1, <4>2
      <4>5. IsLastJob(jobs, j, r) /\ j \in Nat
        BY <4>2, <4>3, <4>4 DEF IsLastJob, n
      <4> QED
        BY <4>4, <4>5
    <3>4. NoWriteTo(R, t) => NoJob(jobs, r)
      BY <3>2 DEF NoWriteTo, NoJob, n
    <3> QED
      BY <3>3, <3>4
  <2> QED
    BY <2>1, <2>2 DEF Copies
<1> QED
  BY <1>2, <1>6, <1>8, <1>9

LEMMA ReportsWrites ==
  /\ Reports \in Seq(Writes) /\ WritesTo(Reports, ReportTargets)
  /\ \A t \in ReportTargets : ~NoWriteTo(Reports, t)
  /\ \A t \in RecordTargets : NoWriteTo(Reports, t)
<1>1. PICK w \in Writes, v \in Writes : /\ w = [target |-> Trades, upTo |-> 0]
                                        /\ v = [target |-> Orders, upTo |-> 0]
  BY TargetFacts DEF Writes, ReportTargets
<1>2. Reports = <<w, v>>
  BY <1>1 DEF Reports
<1>3. Reports \in Seq(Writes) /\ Len(Reports) = 2 /\ Reports[1] = w /\ Reports[2] = v
  BY <1>2
<1>4. \A i \in 1..Len(Reports) : i = 1 \/ i = 2
  BY <1>3
<1>5. WritesTo(Reports, ReportTargets)
  BY <1>1, <1>3, <1>4 DEF WritesTo, ReportTargets
<1>6. \A t \in ReportTargets : ~NoWriteTo(Reports, t)
  <2>1. 1 \in 1..Len(Reports) /\ 2 \in 1..Len(Reports)
    BY <1>3
  <2> QED
    BY <1>1, <1>3, <2>1 DEF NoWriteTo, ReportTargets
<1> QED
  BY <1>3, <1>5, <1>6, TargetFacts DEF NoWriteTo, WritesTo

LEMMA RoundBegins ==
  ASSUME WTypeOK, NEW s \in Background, NEW th \in Threads, BeginRound(s, th)
  PROVE  /\ queue' \in Seq(Jobs) /\ round' \in [Threads -> Seq(Writes)]
         /\ \A x \in Threads : x # th => round'[x] = round[x]
         /\ s = "recorder" => queue' = <<>> /\ round'[th] = RecordRound(queue)
         /\ s = "reporter" => queue' = queue /\ round'[th] = Reports
<1>1. PICK R : R = IF s = "recorder" THEN RecordRound(queue) ELSE Reports
  OBVIOUS
<1>2. round' = [round EXCEPT ![th] = R]
  BY <1>1 DEF BeginRound
<1>3. R \in Seq(Writes)
  BY <1>1, RecordRoundWrites, ReportsWrites DEF WTypeOK
<1>4. queue' = IF s = "recorder" THEN <<>> ELSE queue
  BY DEF BeginRound
<1>5. queue' \in Seq(Jobs)
  <2>1. queue \in Seq(Jobs) /\ <<>> \in Seq(Jobs)
    BY EmptySeq DEF WTypeOK
  <2> QED
    BY <1>4, <2>1
<1> QED
  BY <1>1, <1>2, <1>3, <1>4, <1>5 DEF WTypeOK

LEMMA CatchingBegins ==
  ASSUME WritersInv, NEW s \in Background, NEW th \in Threads, BeginRound(s, th),
         round[th] = <<>>, UNCHANGED <<latest, content, gaveUp>>,
         "recorder" \notin overran,
         s = "recorder" => \A x \in Threads : \A t \in RecordTargets : NoWriteTo(round[x], t)
  PROVE  \A r \in Records : \A t \in Copies(r) : Catching(r, t)'
<1> SUFFICES ASSUME NEW r \in Records, NEW t \in Copies(r) PROVE Catching(r, t)'
  OBVIOUS
<1>1. WTypeOK /\ queue \in Seq(Jobs) /\ Catching(r, t) /\ t \in RecordTargets
  BY TargetFacts DEF WritersInv, WTypeOK, CatchingUp
<1>2. /\ \A x \in Threads : x # th => round'[x] = round[x]
      /\ s = "recorder" => queue' = <<>> /\ round'[th] = RecordRound(queue)
      /\ s = "reporter" => queue' = queue /\ round'[th] = Reports
  BY <1>1, RoundBegins
<1>3. CASE s = "recorder"
  <2>1. \A i \in Nat : ~IsLastJob(queue', i, r)
    BY <1>2, <1>3 DEF IsLastJob
  <2>2. ASSUME NEW x \in Threads, NEW i \in Nat, IsLastWrite(round'[x], i, t)
        PROVE  round'[x][i].upTo = latest[r]
    <3>1. x = th
      BY <1>1, <1>2, <1>3, <2>2 DEF IsLastWrite, NoWriteTo
    <3>2. PICK j \in Nat : IsLastJob(queue, j, r) /\ RecordRound(queue)[i].upTo = queue[j].upTo
      BY <1>1, <1>2, <1>3, <2>2, <3>1, RecordRoundWrites
    <3> QED
      BY <1>1, <1>2, <1>3, <3>1, <3>2 DEF Catching
  <2>3. ASSUME \A x \in Threads : NoWriteTo(round'[x], t)
        PROVE  Shows(t, latest[r])
    <3>1. NoJob(queue, r)
      BY <1>1, <1>2, <1>3, <2>3, RecordRoundWrites
    <3> QED
      BY <1>1, <1>3, <3>1 DEF Catching
  <2> QED
    BY <2>1, <2>2, <2>3 DEF Catching, Shows
<1>4. CASE s = "reporter"
  <2>1. \A x \in Threads : x # th => round'[x] = round[x]
    BY <1>2
  <2>2. NoWriteTo(round'[th], t) /\ NoWriteTo(round[th], t)
    BY <1>1, <1>2, <1>4, ReportsWrites DEF NoWriteTo
  <2>3. \A i \in Nat : ~IsLastWrite(round'[th], i, t)
    BY <2>2 DEF NoWriteTo, IsLastWrite
  <2>4. queue' = queue
    BY <1>2, <1>4
  <2>5. ASSUME NEW x \in Threads, NEW i \in Nat, IsLastWrite(round'[x], i, t), NoJob(queue, r)
        PROVE  round'[x][i].upTo = latest[r]
    BY <1>1, <2>1, <2>3, <2>5 DEF Catching
  <2>6. (\A x \in Threads : NoWriteTo(round'[x], t)) => \A x \in Threads : NoWriteTo(round[x], t)
    BY <2>1, <2>2
  <2> QED
    BY <1>1, <2>4, <2>5, <2>6 DEF Catching, Shows
<1> QED
  BY <1>3, <1>4 DEF Background

-----------------------------------------------------------------------------
(* The other steps *)

LEMMA ProgressKept ==
  ASSUME WritersInv, UNCHANGED <<doing, openedBy>>, overran \subseteq overran',
         \A x \in Threads : round[x] # <<>> => round'[x] = round[x]
  PROVE  \A x \in Threads : WriteInProgress(x)'
BY DEF WritersInv, WriteInProgress

LEMMA CatchingKept ==
  ASSUME WritersInv, UNCHANGED <<queue, latest, content, gaveUp, round>>,
         overran \subseteq overran'
  PROVE  CatchingUp'
BY DEF WritersInv, CatchingUp, Catching, Shows

LEMMA ReportsKept ==
  ASSUME WritersInv, UNCHANGED <<doing, content, gaveUp, handled, durable>>,
         Joined("reporter")' => Joined("reporter"), overran \subseteq overran',
         round'["main"] = round["main"] \/ round["main"] = <<>>
  PROVE  LastReports'
<1> SUFFICES ASSUME "reporter" \notin overran', Joined("reporter")', NEW u \in ReportTargets
             PROVE  /\ doing["main"] # NoWrite /\ doing["main"].target = u
                         => doing["main"].upTo = Due(u)
                    /\ NoWriteTo(round'["main"], u) => Shows(u, Due(u))
  BY DEF LastReports, Due, Shows
<1>1. "reporter" \notin overran /\ Joined("reporter")
  OBVIOUS
<1>2. NoWriteTo(round'["main"], u) => NoWriteTo(round["main"], u)
  BY DEF NoWriteTo
<1> QED
  BY <1>1, <1>2 DEF WritersInv, LastReports

LEMMA MainIsFree ==
  ASSUME WritersInv, closing \notin {"reports", "records"}
  PROVE  round["main"] = <<>>
<1>1. WritesTo(round["main"], {})
  BY DEF WritersInv, RoundsOfServices
<1>2. PICK list \in Seq(Writes) : list = round["main"]
  BY DEF WritersInv, WTypeOK, Threads
<1>3. list # <<>> => 1 \in 1..Len(list)
  BY TailFacts
<1> QED
  BY <1>1, <1>2, <1>3 DEF WritesTo

\* No write of a record is on its way in a round.
LEMMA NoRecordWrites ==
  ASSUME WritersInv, round["recorder"] = <<>>, closing # "records"
  PROVE  \A x \in Threads : \A t \in RecordTargets : NoWriteTo(round[x], t)
<1>1. WritesTo(round["main"], ReportTargets)
  BY DEF WritersInv, RoundsOfServices, WritesTo
<1>2. WritesTo(round["reporter"], ReportTargets)
  BY DEF WritersInv, RoundsOfServices
<1>3. \A t : NoWriteTo(round["recorder"], t)
  BY DEF NoWriteTo
<1>4. \A t \in RecordTargets : NoWriteTo(round["main"], t) /\ NoWriteTo(round["reporter"], t)
  BY <1>1, <1>2, TargetFacts DEF WritesTo, NoWriteTo
<1> QED
  BY <1>3, <1>4 DEF Threads, Background

LEMMA HandlerKeeps ==
  ASSUME WritersInv, NEW records \in Handlers, Handler(records)
  PROVE  WritersInv'
<1>1. /\ closing = "no" /\ closing' = "no" /\ overran' = overran
      /\ UNCHANGED <<content, openedBy, round, doing, client, gaveUp, at, wanted>>
  BY DEF Handler, QueueRecords, fileVars
<1> DEFINE new == [i \in DOMAIN records |-> [record |-> records[i], upTo |-> handled']]
<1>2. WTypeOK /\ records \in Seq(Records)
  BY WritersAssumption DEF WritersInv
<1>3. handled' \in Nat /\ handled' = handled + 1
  BY <1>2 DEF Handler, QueueRecords, WTypeOK
<1>4. Len(records) \in Nat /\ DOMAIN records = 1..Len(records)
      /\ \A i \in 1..Len(records) : records[i] \in Records
  BY <1>2, LenProperties, ElementOfSeq
<1>5. new \in Seq(Jobs) /\ Len(new) = Len(records)
      /\ \A i \in 1..Len(records) : new[i].record = records[i] /\ new[i].upTo = handled'
  <2>1. new \in [1..Len(records) -> Jobs]
    BY <1>3, <1>4 DEF Jobs
  <2> QED
    BY <1>4, <2>1, SeqDef, LenProperties
<1>6. queue' = queue \o new
  BY DEF Handler, QueueRecords
<1> HIDE DEF new
<1>7. PICK q \in Seq(Jobs), f \in Seq(Jobs) : q = queue /\ f = new
  BY <1>2, <1>5 DEF WTypeOK
<1>8. /\ queue' \in Seq(Jobs) /\ Len(queue') = Len(q) + Len(f) /\ Len(q) \in Nat /\ Len(f) \in Nat
      /\ \A i \in 1..Len(q) + Len(f) : queue'[i] = IF i <= Len(q) THEN q[i] ELSE f[i - Len(q)]
  BY <1>6, <1>7, ConcatProperties, LenProperties
<1>9. latest' = [r \in Records |-> IF r \in Range(records) THEN handled' ELSE latest[r]]
  BY DEF Handler, QueueRecords
<1>10. \A r : r \in Range(records) <=> \E i \in 1..Len(records) : records[i] = r
  BY <1>4 DEF Range
<1>11. journal' = journal \o <<handled + 1>> /\ durable' = durable
  BY DEF Handler, Push
<1>12. WTypeOK'
  <2>1. journal' \in Seq(Nat) /\ durable' \in 0..Len(journal')
    <3>0. journal \in Seq(Nat)
      BY <1>2 DEF WTypeOK
    <3>5. PICK h \in Nat : h = handled'
      BY <1>3
    <3>6. <<h>> \in Seq(Nat)
      OBVIOUS
    <3>1. PICK j \in Seq(Nat), e \in Seq(Nat) : j = journal /\ e = <<h>>
      BY <3>0, <3>6
    <3>2. j \o e \in Seq(Nat) /\ Len(j \o e) = Len(j) + Len(e) /\ Len(j) \in Nat /\ Len(e) \in Nat
      BY ConcatProperties, LenProperties
    <3>3. durable \in 0..Len(j)
      BY <1>2, <3>1 DEF WTypeOK
    <3>4. \A l \in Nat, m \in Nat : 0..l \subseteq 0..(l + m)
      OBVIOUS
    <3> QED
      BY <1>3, <1>11, <3>1, <3>2, <3>3, <3>4, <3>5
  <2>2. latest' \in [Records -> Nat]
    BY <1>2, <1>3, <1>9 DEF WTypeOK
  <2> QED
    BY <1>1, <1>2, <1>3, <1>8, <2>1, <2>2 DEF WTypeOK
<1>13. \A i \in 1..Len(q) : i \in 1..Len(queue') /\ queue'[i] = q[i]
  BY <1>8
<1>14. \A i \in 1..Len(queue') :
         \/ i \in 1..Len(q)
         \/ i - Len(q) \in 1..Len(f) /\ i > Len(q) /\ queue'[i] = f[i - Len(q)]
  BY <1>8
<1>15. CatchingUp'
  <2> SUFFICES ASSUME "recorder" \notin overran, NEW r \in Records, NEW t \in Copies(r)
               PROVE  Catching(r, t)'
    BY <1>1 DEF CatchingUp
  <2>1. Catching(r, t)
    BY DEF WritersInv, CatchingUp
  <2>2. CASE r \in Range(records)
    <3>1. PICK k \in 1..Len(f) : f[k].record = r
      BY <1>5, <1>7, <1>10, <2>2
    <3>2. Len(q) + k \in 1..Len(queue') /\ queue'[Len(q) + k].record = r
      <4>1. Len(q) + k \in 1..Len(q) + Len(f) /\ ~(Len(q) + k <= Len(q)) /\ (Len(q) + k) - Len(q) = k
        BY <1>8
      <4> QED
        BY <1>8, <3>1, <4>1
    <3>3. ASSUME NEW i \in Nat, IsLastJob(queue', i, r)
          PROVE  queue'[i].upTo = latest'[r]
      <4>1. i \in 1..Len(queue') /\ ~(Len(q) + k > i)
        BY <3>2, <3>3 DEF IsLastJob
      <4>2. i - Len(q) \in 1..Len(f) /\ queue'[i] = f[i - Len(q)]
        BY <1>8, <1>14, <4>1
      <4> QED
        BY <1>5, <1>7, <1>9, <2>2, <4>2
    <3>4. ~NoJob(queue', r)
      BY <3>2 DEF NoJob
    <3> QED
      BY <3>3, <3>4 DEF Catching
  <2>3. CASE r \notin Range(records)
    <3>1. latest'[r] = latest[r]
      BY <1>9, <2>3
    <3>2. \A i \in 1..Len(f) : f[i].record # r
      BY <1>5, <1>7, <1>10, <2>3
    <3>3. ASSUME NEW i \in Nat, IsLastJob(queue', i, r)
          PROVE  IsLastJob(queue, i, r) /\ queue'[i] = queue[i]
      <4>1. i \in 1..Len(q) /\ queue'[i] = q[i]
        BY <1>13, <1>14, <3>2, <3>3 DEF IsLastJob
      <4> QED
        BY <1>7, <1>13, <3>3, <4>1 DEF IsLastJob
    <3>4. NoJob(queue', r) => NoJob(queue, r)
      BY <1>7, <1>13 DEF NoJob
    <3> QED
      BY <1>1, <2>1, <3>1, <3>3, <3>4 DEF Catching, Shows
  <2> QED
    BY <2>2, <2>3
<1>16. LastReports' /\ Emptied'
  BY <1>1 DEF LastReports, Emptied, Joined
<1>17. \A x \in Threads : WriteInProgress(x)'
  BY <1>1, ProgressKept
<1> QED
  BY <1>1, <1>12, <1>15, <1>16, <1>17 DEF WritersInv, RoundsOfServices, ThreadsEnd, Told, Joined

LEMMA PumpKeeps == ASSUME WritersInv, PumpWrites PROVE WritersInv'
<1>1. /\ closing' = closing /\ overran' = overran
      /\ UNCHANGED <<handled, queue, latest, content, openedBy, round, doing, client, gaveUp>>
      /\ UNCHANGED <<at, wanted>>
  BY DEF PumpWrites, recordVars, fileVars
<1>2. PICK n \in 0..Len(journal) : Persist(n) \/ Cut(n)
  BY DEF PumpWrites, recordVars, fileVars
<1>3. journal \in Seq(Nat) /\ durable \in 0..Len(journal) /\ Len(journal) \in Nat
  BY LenProperties DEF WritersInv, WTypeOK
<1>4. journal' \in Seq(Nat) /\ durable' \in 0..Len(journal')
      /\ (durable = Len(journal) => durable' = durable /\ durable' = Len(journal'))
  <2>1. CASE Persist(n)
    BY <1>3, <2>1 DEF Persist
  <2>2. CASE Cut(n)
    <3>1. SubSeq(journal, 1, n) \in Seq(Nat) /\ Len(SubSeq(journal, 1, n)) = n
      BY <1>3, SubSeqProperties
    <3> QED
      BY <1>3, <2>2, <3>1 DEF Cut
  <2> QED
    BY <1>2, <2>1, <2>2
<1>5. WTypeOK'
  BY <1>1, <1>4 DEF WritersInv, WTypeOK
<1>6. CatchingUp' /\ \A x \in Threads : WriteInProgress(x)'
  BY <1>1, CatchingKept, ProgressKept
<1>7. LastReports'
  <2>1. closing \notin {"no", "raised"} => durable' = durable
    BY <1>4 DEF WritersInv, Emptied
  <2>2. /\ Joined("reporter") => closing \notin {"no", "raised"}
        /\ Joined("reporter")' <=> Joined("reporter")
    BY <1>1 DEF Joined
  <2>3. CASE Joined("reporter")
    <3>1. durable' = durable
      BY <2>1, <2>2, <2>3
    <3> QED
      BY <1>1, <2>2, <3>1, ReportsKept
  <2>4. CASE ~Joined("reporter")
    BY <2>2, <2>4 DEF LastReports
  <2> QED
    BY <2>3, <2>4
<1>8. Emptied'
  BY <1>1, <1>4 DEF WritersInv, Emptied, Joined
<1> QED
  BY <1>1, <1>5, <1>6, <1>7, <1>8 DEF WritersInv, RoundsOfServices, ThreadsEnd, Told, Joined

LEMMA ThreadKeeps ==
  ASSUME WritersInv, NEW th \in Background, ThreadStep(th)
  PROVE  WritersInv'
<1>1. /\ closing' = closing /\ overran' = overran /\ journal' = journal /\ durable' = durable
      /\ WTypeOK /\ th \in Threads
  BY DEF ThreadStep, logVars, WritersInv, Threads
<1>2. \A x : /\ Told(x)' <=> Told(x)
             /\ Joined(x)' <=> Joined(x)
  BY <1>1 DEF Told, Joined
<1>3. CASE WriteSome(th)
  <2>1. Writing(th) /\ UNCHANGED <<logVars, handled, queue, latest, at, wanted, closing, overran>>
    BY <1>3 DEF ThreadStep, WriteSome
  <2> QED
    BY <1>1, <2>1, WritingKeeps
<1>4. CASE FallAsleep(th)
  <2>1. /\ at[th] = "working" /\ round[th] = <<>>
        /\ at' = [at EXCEPT ![th] = IF wanted[th] THEN "asleep" ELSE "ended"]
        /\ UNCHANGED <<handled, queue, latest, content, openedBy, round, doing, client, gaveUp, wanted>>
    BY <1>4 DEF FallAsleep, RoundDone, fileVars
  <2>2. WTypeOK'
    BY <1>1, <2>1 DEF WTypeOK
  <2>3. ThreadsEnd'
    <3>1. \A b \in Background : at'[b] = at[b] \/ (at'[b] # "working" /\ round[b] = <<>>)
      BY <1>1, <2>1 DEF WTypeOK
    <3> QED
      BY <1>1, <1>2, <2>1, <3>1 DEF WritersInv, ThreadsEnd
  <2>4. CatchingUp' /\ \A x \in Threads : WriteInProgress(x)'
    BY <1>1, <2>1, CatchingKept, ProgressKept
  <2>5. LastReports'
    BY <1>1, <1>2, <2>1, ReportsKept
  <2> QED
    BY <1>1, <1>2, <2>1, <2>2, <2>3, <2>4, <2>5 DEF WritersInv, RoundsOfServices, Emptied
<1>5. CASE WakeUp(th) /\ ~wanted[th]
  <2>1. /\ at' = [at EXCEPT ![th] = "ended"] /\ at[th] = "asleep"
        /\ UNCHANGED <<handled, queue, latest, content, openedBy, round, doing, client, gaveUp, wanted>>
    BY <1>5 DEF WakeUp
  <2>2. WTypeOK'
    BY <1>1, <2>1 DEF WTypeOK
  <2>3. ThreadsEnd'
    <3>1. \A b \in Background : at'[b] = "working" <=> at[b] = "working"
      BY <1>1, <2>1 DEF WTypeOK
    <3> QED
      BY <1>1, <1>2, <2>1, <3>1 DEF WritersInv, ThreadsEnd
  <2>4. CatchingUp' /\ \A x \in Threads : WriteInProgress(x)'
    BY <1>1, <2>1, CatchingKept, ProgressKept
  <2>5. LastReports'
    BY <1>1, <1>2, <2>1, ReportsKept
  <2> QED
    BY <1>1, <1>2, <2>1, <2>2, <2>3, <2>4, <2>5 DEF WritersInv, RoundsOfServices, Emptied
<1>6. CASE WakeUp(th) /\ wanted[th]
  <2>1. /\ at' = [at EXCEPT ![th] = "working"] /\ at[th] = "asleep" /\ BeginRound(th, th)
        /\ UNCHANGED <<handled, latest, content, openedBy, doing, client, gaveUp, wanted>>
    BY <1>6 DEF WakeUp
  <2>2. round[th] = <<>> /\ ~Told(th) /\ ~Joined(th)
    BY <1>6, <2>1 DEF WritersInv, ThreadsEnd, Told, Joined
  <2>3. /\ queue' \in Seq(Jobs) /\ round' \in [Threads -> Seq(Writes)]
        /\ \A x \in Threads : x # th => round'[x] = round[x]
        /\ th = "recorder" => queue' = <<>> /\ round'[th] = RecordRound(queue)
        /\ th = "reporter" => queue' = queue /\ round'[th] = Reports
    BY <1>1, <2>1, RoundBegins
  <2>4. WTypeOK'
    BY <1>1, <2>1, <2>3 DEF WTypeOK
  <2>5. RoundsOfServices'
    <3>1. /\ th = "recorder" => WritesTo(round'[th], RecordTargets)
          /\ th = "reporter" => WritesTo(round'[th], ReportTargets)
      BY <1>1, <2>3, RecordRoundWrites, ReportsWrites DEF WTypeOK
    <3>2. round'["main"] = round["main"]
      BY <2>3 DEF Threads, Background
    <3>3. \A x \in Background : x # th => round'[x] = round[x]
      BY <2>3 DEF Threads
    <3> QED
      BY <1>1, <3>1, <3>2, <3>3 DEF WritersInv, RoundsOfServices, Background
  <2>6. ThreadsEnd'
    <3>1. \A b \in Background : b # th => at'[b] = at[b] /\ round'[b] = round[b]
      BY <1>1, <2>1, <2>3 DEF WTypeOK, Threads
    <3>2. at'[th] = "working"
      BY <1>1, <2>1 DEF WTypeOK
    <3> QED
      BY <1>1, <1>2, <2>1, <2>2, <3>1, <3>2 DEF WritersInv, ThreadsEnd
  <2>7. \A x \in Threads : WriteInProgress(x)'
    <3>1. \A x \in Threads : round[x] # <<>> => round'[x] = round[x]
      BY <2>2, <2>3
    <3> QED
      BY <1>1, <2>1, <3>1, ProgressKept
  <2>8. CatchingUp'
    <3> SUFFICES ASSUME "recorder" \notin overran
                 PROVE  \A r \in Records : \A t \in Copies(r) : Catching(r, t)'
      BY <1>1 DEF CatchingUp
    <3>1. th = "recorder" => \A x \in Threads : \A t \in RecordTargets : NoWriteTo(round[x], t)
      BY <2>2, NoRecordWrites DEF Joined
    <3> QED
      BY <1>1, <2>1, <2>2, <3>1, CatchingBegins
  <2>9. LastReports'
    <3>1. round'["main"] = round["main"]
      BY <2>3 DEF Threads, Background
    <3> QED
      BY <1>1, <1>2, <2>1, <3>1, ReportsKept
  <2>10. Emptied'
    BY <1>1, <1>2, <2>2, <2>3 DEF WritersInv, Emptied, Background
  <2> QED
    BY <2>4, <2>5, <2>6, <2>7, <2>8, <2>9, <2>10 DEF WritersInv
<1>7. CASE ExportRaises(th)
  <2>1. /\ at' = [at EXCEPT ![th] = "ended"] /\ at[th] = "asleep"
        /\ UNCHANGED <<handled, queue, latest, content, openedBy, round, doing, client, gaveUp, wanted>>
    BY <1>7 DEF ExportRaises, fileVars
  <2>2. WTypeOK'
    BY <1>1, <2>1 DEF WTypeOK
  <2>3. ThreadsEnd'
    <3>1. \A b \in Background : at'[b] = "working" <=> at[b] = "working"
      BY <1>1, <2>1 DEF WTypeOK
    <3> QED
      BY <1>1, <1>2, <2>1, <3>1 DEF WritersInv, ThreadsEnd
  <2>4. CatchingUp' /\ \A x \in Threads : WriteInProgress(x)'
    BY <1>1, <2>1, CatchingKept, ProgressKept
  <2>5. LastReports'
    BY <1>1, <1>2, <2>1, ReportsKept
  <2> QED
    BY <1>1, <1>2, <2>1, <2>2, <2>3, <2>4, <2>5 DEF WritersInv, RoundsOfServices, Emptied
<1> QED
  BY <1>3, <1>4, <1>5, <1>6, <1>7 DEF ThreadStep, BackgroundStep, WakeUp

\* A round with no file left in it writes to no file.
LEMMA NothingWritten == \A T : WritesTo(<<>>, T)
BY DEF WritesTo

\* stop() of a writer: the thread is told to end.
LEMMA StopsKeeps ==
  ASSUME WritersInv, NEW th \in Background, NEW c, Stops(th, c),
         journal' \in Seq(Nat), durable' \in 0..Len(journal'), durable' = Len(journal'),
         \/ th = "reporter" /\ c = "reporter stops" /\ closing = "no"
         \/ /\ th = "recorder" /\ c = "recorder stops" /\ closing = "reports"
            /\ round["main"] = <<>> /\ durable' = durable
  PROVE  WritersInv'
<1>1. /\ wanted' = [wanted EXCEPT ![th] = FALSE] /\ closing' = c /\ overran' = overran
      /\ UNCHANGED <<handled, queue, latest, content, openedBy, round, doing, client, gaveUp, at>>
  BY DEF Stops, fileVars
<1>2. WTypeOK /\ WTypeOK'
  BY <1>1 DEF WritersInv, WTypeOK
<1>3. round["main"] = <<>>
  BY MainIsFree
<1>4. RoundsOfServices'
  <2>1. \A T : WritesTo(round'["main"], T)
    BY <1>1, <1>3, NothingWritten
  <2>2. /\ WritesTo(round'["recorder"], RecordTargets)
        /\ WritesTo(round'["reporter"], ReportTargets)
    BY <1>1 DEF WritersInv, RoundsOfServices
  <2> QED
    BY <2>1, <2>2 DEF RoundsOfServices
<1>5. ThreadsEnd'
  <2>1. \A b \in Background : /\ Told(b)' => Told(b) \/ b = th
                              /\ Joined(b)' => Joined(b)
    BY <1>1 DEF Told, Joined, Background
  <2>2. \A b \in Background : wanted'[b] = IF b = th THEN FALSE ELSE wanted[b]
    BY <1>1, <1>2 DEF WTypeOK
  <2> QED
    BY <1>1, <2>1, <2>2 DEF WritersInv, ThreadsEnd
<1>6. CatchingUp' /\ \A x \in Threads : WriteInProgress(x)'
  BY <1>1, CatchingKept, ProgressKept
<1>7. LastReports'
  <2>1. CASE th = "reporter"
    BY <1>1, <2>1 DEF LastReports, Joined
  <2>2. CASE th = "recorder"
    <3>1. Joined("reporter") /\ durable' = durable
      BY <2>2 DEF Joined
    <3> QED
      BY <1>1, <3>1, ReportsKept
  <2> QED
    BY <2>1, <2>2 DEF Background
<1>8. Emptied'
  BY <1>1 DEF Emptied, Joined
<1> QED
  BY <1>2, <1>4, <1>5, <1>6, <1>7, <1>8 DEF WritersInv

\* The join is over: the event loop does the last round.
LEMMA JoinsKeeps ==
  ASSUME WritersInv, NEW th \in Background, NEW c, Joins(th, c),
         \/ th = "reporter" /\ c = "reports" /\ closing = "reporter stops"
         \/ th = "recorder" /\ c = "records" /\ closing = "recorder stops"
  PROVE  WritersInv'
<1>1. /\ overran' = IF at[th] = "working" THEN overran \cup {th} ELSE overran
      /\ BeginRound(th, "main") /\ closing' = c
      /\ UNCHANGED <<handled, latest, content, openedBy, doing, client, gaveUp, at, wanted>>
      /\ journal' = journal /\ durable' = durable /\ WTypeOK
  BY DEF Joins, logVars, WritersInv
<1>2. round["main"] = <<>> /\ doing["main"] = NoWrite /\ "main" \in Threads
  BY MainIsFree DEF WritersInv, WriteInProgress, Threads
<1>3. /\ queue' \in Seq(Jobs) /\ round' \in [Threads -> Seq(Writes)]
      /\ \A x \in Threads : x # "main" => round'[x] = round[x]
      /\ th = "recorder" => queue' = <<>> /\ round'["main"] = RecordRound(queue)
      /\ th = "reporter" => queue' = queue /\ round'["main"] = Reports
  BY <1>1, <1>2, RoundBegins
<1>4. WTypeOK'
  <2>1. overran' \subseteq Background
    BY <1>1 DEF WTypeOK
  <2> QED
    BY <1>1, <1>3, <2>1 DEF WTypeOK
<1>5. RoundsOfServices'
  <2>1. /\ th = "recorder" => WritesTo(round'["main"], RecordTargets)
        /\ th = "reporter" => WritesTo(round'["main"], ReportTargets)
    BY <1>1, <1>3, RecordRoundWrites, ReportsWrites DEF WTypeOK
  <2>2. round'["recorder"] = round["recorder"] /\ round'["reporter"] = round["reporter"]
    BY <1>3 DEF Threads, Background
  <2> QED
    BY <1>1, <2>1, <2>2 DEF WritersInv, RoundsOfServices, Background
<1>6. ThreadsEnd'
  <2>1. \A b \in Background : round'[b] = round[b] /\ b # "main"
    BY <1>3 DEF Threads, Background
  <2>2. \A b \in Background : /\ Told(b)' => Told(b)
                              /\ Joined(b)' => Joined(b) \/ b = th
    BY <1>1 DEF Told, Joined, Background
  <2>3. at[th] = "working" => th \in overran'
    BY <1>1
  <2>4. overran \subseteq overran'
    BY <1>1
  <2> QED
    BY <1>1, <2>1, <2>2, <2>3, <2>4 DEF WritersInv, ThreadsEnd
<1>7. \A x \in Threads : WriteInProgress(x)'
  <2>1. \A x \in Threads : round[x] # <<>> => round'[x] = round[x]
    BY <1>2, <1>3
  <2> QED
    BY <1>1, <2>1, ProgressKept
<1>8. CatchingUp'
  <2> SUFFICES ASSUME "recorder" \notin overran'
               PROVE  \A r \in Records : \A t \in Copies(r) : Catching(r, t)'
    BY DEF CatchingUp
  <2>1. "recorder" \notin overran
    BY <1>1
  <2>2. th = "recorder" => \A x \in Threads : \A t \in RecordTargets : NoWriteTo(round[x], t)
    <3>1. th = "recorder" => round["recorder"] = <<>>
      BY <1>1 DEF WritersInv, ThreadsEnd
    <3> QED
      BY <3>1, NoRecordWrites
  <2> QED
    BY <1>1, <1>2, <2>1, <2>2, CatchingBegins
<1>9. LastReports'
  <2>1. CASE th = "reporter"
    BY <1>1, <1>2, <1>3, <2>1, ReportsWrites DEF LastReports
  <2>2. CASE th = "recorder"
    <3>1. Joined("reporter")
      BY <2>2 DEF Joined
    <3> QED
      BY <1>1, <1>2, <3>1, ReportsKept
  <2> QED
    BY <2>1, <2>2 DEF Background
<1>10. Emptied'
  <2>1. closing \notin {"no", "raised"}
    OBVIOUS
  <2> QED
    BY <1>1, <1>3, <2>1 DEF WritersInv, Emptied, Joined
<1> QED
  BY <1>4, <1>5, <1>6, <1>7, <1>8, <1>9, <1>10 DEF WritersInv

LEMMA ShutdownKeeps == ASSUME WritersInv, Shutdown PROVE WritersInv'
<1>1. WTypeOK /\ journal \in Seq(Nat) /\ durable \in 0..Len(journal) /\ Len(journal) \in Nat
  BY LenProperties DEF WritersInv, WTypeOK
<1>2. CASE EventWriterStops /\ closing' # "raised"
  <2>1. closing = "no" /\ Stops("reporter", "reporter stops")
    BY <1>2 DEF EventWriterStops
  <2>2. journal' = journal /\ durable' = Len(journal)
    BY <1>2 DEF EventWriterStops, Persist, logVars
  <2>3. journal' \in Seq(Nat) /\ durable' \in 0..Len(journal') /\ durable' = Len(journal')
    BY <1>1, <2>2
  <2> QED
    BY <2>1, <2>3, StopsKeeps DEF Background
<1>3. CASE EventWriterStops /\ closing' = "raised"
  <2>1. /\ closing = "no" /\ UNCHANGED <<recordVars, overran>>
        /\ \E n \in durable .. Len(journal) - 1 : Cut(n)
    BY <1>3 DEF EventWriterStops, Stops
  <2>2. /\ UNCHANGED <<handled, queue, latest, content, openedBy, round, doing, client, gaveUp>>
        /\ UNCHANGED <<at, wanted>> /\ overran' = overran
    BY <2>1 DEF recordVars, fileVars
  <2>3. journal' \in Seq(Nat) /\ durable' \in 0..Len(journal')
    <3>1. PICK n \in durable .. Len(journal) - 1 : Cut(n)
      BY <2>1
    <3>2. SubSeq(journal, 1, n) \in Seq(Nat) /\ Len(SubSeq(journal, 1, n)) = n
      BY <1>1, SubSeqProperties
    <3> QED
      BY <1>1, <3>1, <3>2 DEF Cut
  <2>4. WTypeOK'
    BY <1>1, <1>3, <2>2, <2>3 DEF WTypeOK
  <2>5. \A b : ~Told(b)' /\ ~Joined(b)'
    BY <1>3 DEF Told, Joined
  <2>6. CatchingUp' /\ \A x \in Threads : WriteInProgress(x)'
    BY <2>2, CatchingKept, ProgressKept
  <2>7. LastReports' /\ Emptied'
    BY <1>3, <2>5 DEF LastReports, Emptied
  <2>8. ThreadsEnd'
    BY <2>2, <2>5 DEF WritersInv, ThreadsEnd
  <2> QED
    BY <1>3, <2>1, <2>2, <2>4, <2>6, <2>7, <2>8 DEF WritersInv, RoundsOfServices
<1>4. CASE ReporterStops
  BY <1>4, JoinsKeeps DEF ReporterStops, Background
<1>5. CASE RecorderStops
  BY <1>5, JoinsKeeps DEF RecorderStops, Background
<1>6. CASE LastWrites
  BY <1>6, WritingKeeps DEF LastWrites, Threads
<1>7. CASE RecorderIsNext
  <2>1. /\ closing = "reports" /\ round["main"] = <<>> /\ Stops("recorder", "recorder stops")
        /\ journal' = journal /\ durable' = durable
    BY <1>7 DEF RecorderIsNext, RoundDone, logVars
  <2>2. durable = Len(journal)
    BY <2>1 DEF WritersInv, Emptied
  <2> QED
    BY <1>1, <2>1, <2>2, StopsKeeps DEF Background
<1>8. CASE ShutdownEnds
  <2>1. /\ closing = "records" /\ round["main"] = <<>> /\ closing' = "done" /\ overran' = overran
        /\ UNCHANGED <<handled, queue, latest, content, openedBy, round, doing, client, gaveUp>>
        /\ UNCHANGED <<at, wanted>> /\ journal' = journal /\ durable' = durable
    BY <1>8 DEF ShutdownEnds, RoundDone, logVars, recordVars, fileVars
  <2>2. WTypeOK'
    BY <1>1, <2>1 DEF WTypeOK
  <2>3. \A b \in Background : /\ Told(b)' <=> Told(b)
                              /\ Joined(b)' <=> Joined(b)
    BY <2>1 DEF Told, Joined, Background
  <2>4. CatchingUp' /\ \A x \in Threads : WriteInProgress(x)'
    BY <2>1, CatchingKept, ProgressKept
  <2>5. LastReports'
    BY <2>1, <2>3, ReportsKept DEF Background
  <2>6. ThreadsEnd'
    BY <2>1, <2>3 DEF WritersInv, ThreadsEnd
  <2>7. Emptied'
    BY <2>1, <2>3 DEF WritersInv, Emptied, Background
  <2>8. RoundsOfServices'
    <3>1. \A T : WritesTo(<<>>, T)
      BY DEF WritesTo
    <3> QED
      BY <2>1, <3>1 DEF WritersInv, RoundsOfServices
  <2> QED
    BY <2>2, <2>4, <2>5, <2>6, <2>7, <2>8 DEF WritersInv
<1>9. CASE ReporterRaises
  <2>1. /\ closing = "reporter stops" /\ closing' = "raised" /\ overran' = overran
        /\ UNCHANGED <<handled, queue, latest, content, openedBy, round, doing, client, gaveUp>>
        /\ UNCHANGED <<at, wanted>> /\ journal' = journal /\ durable' = durable
    BY <1>9 DEF ReporterRaises, logVars, recordVars, fileVars
  <2>2. WTypeOK'
    BY <1>1, <2>1 DEF WTypeOK
  <2>3. \A b : ~Told(b)' /\ ~Joined(b)'
    BY <2>1 DEF Told, Joined
  <2>4. CatchingUp' /\ \A x \in Threads : WriteInProgress(x)'
    BY <2>1, CatchingKept, ProgressKept
  <2>5. LastReports' /\ Emptied'
    BY <2>1, <2>3 DEF LastReports, Emptied
  <2>6. ThreadsEnd'
    BY <2>1, <2>3 DEF WritersInv, ThreadsEnd
  <2>7. RoundsOfServices'
    BY <2>1 DEF WritersInv, RoundsOfServices
  <2> QED
    BY <2>2, <2>4, <2>5, <2>6, <2>7 DEF WritersInv
<1> QED
  BY <1>2, <1>3, <1>4, <1>5, <1>6, <1>7, <1>8, <1>9 DEF Shutdown

LEMMA WritersInitial == WritersInit => WritersInv
<1> SUFFICES ASSUME WritersInit PROVE WritersInv
  OBVIOUS
<1>1. /\ journal = <<>> /\ durable = 0 /\ handled = 0 /\ queue = <<>>
      /\ round = [th \in Threads |-> <<>>] /\ doing = [th \in Threads |-> NoWrite]
      /\ at = [th \in Background |-> "asleep"] /\ wanted = [th \in Background |-> TRUE]
      /\ client = "unasked" /\ latest = [r \in Records |-> 0]
      /\ content = [t \in Targets |-> 0] /\ openedBy = [t \in Targets |-> "nobody"]
      /\ gaveUp = [t \in Targets |-> 0] /\ closing = "no" /\ overran = {}
  BY DEF WritersInit, LogInit, RecordInit
<1>2. WTypeOK
  <2>1. <<>> \in Seq(Nat) /\ Len(<<>>) = 0 /\ <<>> \in Seq(Jobs) /\ <<>> \in Seq(Writes)
    BY EmptySeq
  <2>2. /\ journal \in Seq(Nat) /\ durable \in 0..Len(journal) /\ handled \in Nat
        /\ queue \in Seq(Jobs) /\ round \in [Threads -> Seq(Writes)]
    BY <1>1, <2>1
  <2>3. /\ doing \in [Threads -> Writes \cup {NoWrite}]
        /\ at \in [Background -> {"asleep", "working", "ended"}]
        /\ wanted \in [Background -> BOOLEAN]
        /\ latest \in [Records -> Nat] /\ content \in [Targets -> Nat]
        /\ gaveUp \in [Targets -> Nat]
        /\ openedBy \in [Targets -> Threads \cup {"nobody"}]
    BY <1>1
  <2> QED
    BY <1>1, <2>2, <2>3 DEF WTypeOK
<1>3. \A th \in Threads : round[th] = <<>> /\ doing[th] = NoWrite
  BY <1>1
<1>4. \A b : ~Told(b) /\ ~Joined(b)
  BY <1>1 DEF Told, Joined
<1>5. RoundsOfServices
  <2>1. \A T : WritesTo(<<>>, T)
    BY DEF WritesTo
  <2> QED
    BY <1>3, <2>1 DEF RoundsOfServices, Threads, Background
<1>6. ThreadsEnd
  BY <1>3, <1>4 DEF ThreadsEnd, Threads
<1>7. CatchingUp
  <2> SUFFICES ASSUME NEW r \in Records, NEW t \in Copies(r) PROVE Catching(r, t)
    BY DEF CatchingUp
  <2>1. t \in Targets
    BY TargetFacts
  <2>2. Shows(t, latest[r])
    BY <1>1, <2>1 DEF Shows
  <2>3. \A i \in Nat : ~IsLastJob(queue, i, r)
    BY <1>1 DEF IsLastJob
  <2>4. \A th \in Threads : \A i \in Nat : ~IsLastWrite(round[th], i, t)
    BY <1>3 DEF IsLastWrite
  <2> QED
    BY <2>2, <2>3, <2>4 DEF Catching
<1> QED
  BY <1>1, <1>2, <1>3, <1>4, <1>5, <1>6, <1>7
     DEF WritersInv, WriteInProgress, LastReports, Emptied

LEMMA WritersStep == WritersInv /\ [WritersNext]_allVars => WritersInv'
<1> SUFFICES ASSUME WritersInv, [WritersNext]_allVars PROVE WritersInv'
  OBVIOUS
<1>1. CASE UNCHANGED allVars
  <2>1. /\ UNCHANGED <<handled, queue, latest, content, openedBy, round, doing, client, gaveUp>>
        /\ UNCHANGED <<at, wanted, closing, overran, journal, durable>>
    BY <1>1 DEF allVars, logVars, recordVars, fileVars
  <2>2. CatchingUp' /\ \A x \in Threads : WriteInProgress(x)'
    BY <2>1, CatchingKept, ProgressKept
  <2>3. \A b : /\ Told(b)' <=> Told(b)
               /\ Joined(b)' <=> Joined(b)
    BY <2>1 DEF Told, Joined
  <2>4. LastReports'
    BY <2>1, <2>3, ReportsKept
  <2> QED
    BY <2>1, <2>2, <2>3, <2>4 DEF WritersInv, WTypeOK, RoundsOfServices, ThreadsEnd, Emptied
<1> QED
  BY <1>1, HandlerKeeps, PumpKeeps, ThreadKeeps, ShutdownKeeps DEF WritersNext

-----------------------------------------------------------------------------
\* Where a record's newest history is: queued, in a round, or shown; what each
\* thread of the writers may still do; and what shutdown() has emptied.
THEOREM WritersInvariant == WritersSpec => []WritersInv
BY WritersInitial, WritersStep, PTL DEF WritersSpec

\* A record's workbook and sheet end up with the newest history, however handlers
\* queue and threads write, as long as no join of the record writer times out:
\* jobs are taken under a lock, and a round writes them in their order.
THEOREM RecordsStayCurrent == WritersSpec => []RecordsCurrent
<1>1. ASSUME WritersInv, "recorder" \notin overran, NEW r \in Records, NEW t \in Copies(r),
             OnTheirWay(t) = {}
      PROVE  Shows(t, latest[r])
  <2>1. Catching(r, t) /\ WTypeOK
    BY <1>1 DEF WritersInv, CatchingUp
  <2>2. NoJob(queue, r)
    <3> SUFFICES ASSUME NEW i \in 1..Len(queue), queue[i].record = r PROVE FALSE
      BY DEF NoJob
    <3>1. queue[i] \in Range(queue)
      BY <2>1, LenProperties DEF WTypeOK, Range
    <3> QED
      BY <1>1, <3>1 DEF OnTheirWay
  <2>3. ASSUME NEW th \in Threads
        PROVE  NoWriteTo(round[th], t)
    <3> SUFFICES ASSUME NEW i \in 1..Len(round[th]), round[th][i].target = t PROVE FALSE
      BY DEF NoWriteTo
    <3>1. round[th] \in Seq(Writes)
      BY <2>1 DEF WTypeOK
    <3>2. round[th][i] \in Range(round[th])
      BY <3>1, LenProperties DEF Range
    <3> QED
      BY <1>1, <3>2 DEF OnTheirWay
  <2> QED
    BY <2>1, <2>2, <2>3 DEF Catching
<1>2. WritersInv => RecordsCurrent
  BY <1>1 DEF RecordsCurrent
<1> QED
  BY <1>2, WritersInvariant, PTL

\* shutdown() leaves no job and no event behind, and its last reports show the
\* whole log and the orders as they are.
THEOREM NothingIsLeft == WritersSpec => []ShutdownLeavesNothing
<1>1. ASSUME WritersInv, closing = "done"
      PROVE  /\ queue = <<>> /\ durable = Len(journal)
             /\ "reporter" \notin overran => Shows(Trades, durable) /\ Shows(Orders, handled)
  <2>1. queue = <<>> /\ durable = Len(journal)
    BY <1>1 DEF WritersInv, Emptied, Joined
  <2>2. round["main"] = <<>> /\ Joined("reporter")
    BY <1>1, MainIsFree DEF Joined
  <2>3. \A u : NoWriteTo(<<>>, u)
    BY DEF NoWriteTo
  <2>4. "reporter" \notin overran => \A u \in ReportTargets : Shows(u, Due(u))
    BY <1>1, <2>2, <2>3 DEF WritersInv, LastReports
  <2> QED
    BY <2>1, <2>4, TargetFacts DEF ReportTargets, Due
<1>2. WritersInv => ShutdownLeavesNothing
  BY <1>1 DEF ShutdownLeavesNothing
<1> QED
  BY <1>2, WritersInvariant, PTL
=============================================================================
