---------------------------- MODULE RecordWriter ----------------------------
(***************************************************************************)
(* UserRecordWriter and ReportWriter: two background threads that write    *)
(* whole files, and the event loop's thread, which does their last round   *)
(* at shutdown.  A job of the record writer carries the whole history of a *)
(* user at the moment it was queued, and a report shows all there is, so a *)
(* file is as current as the write that was completed last: histories are  *)
(* numbered by the last event they contain.  Jobs are taken under a lock   *)
(* and written outside it, so the rounds of two threads may overlap.       *)
(***************************************************************************)
EXTENDS EventLog, FiniteSetsExt

CONSTANTS
  Records,      \* the record files: a user's funding or trading record of a day
  Sheets,       \* whether Google credentials are configured
  IOErrors      \* whether writing to the disk or to Google may fail

ASSUME RecordAssumption == Sheets \in BOOLEAN /\ IOErrors \in BOOLEAN

VARIABLES
  handled,      \* how many events handlers have pushed: the state of the memory
  queue,        \* _queue: jobs [record, upTo]
  latest,       \* per record: the history queued last
  content,      \* per target: the history it shows, 0 if it shows none
  openedBy,     \* per target: the thread that truncated it and has not closed it
  round,        \* per thread: the writes of its round that are still to be done
  doing,        \* per thread: the write it is in the middle of
  at,           \* per background thread: where it is in _run_loop
  wanted,       \* per background thread: _running
  client,       \* the Google client: not asked for yet, there, or off for good
  gaveUp        \* history, per target: the newest that was not written after all

fileVars == <<content, openedBy, round, doing, client, gaveUp>>
recordVars == <<handled, queue, latest, fileVars, at, wanted>>

Background == {"recorder", "reporter"}
Threads == Background \cup {"main"}

Workbook(r) == <<"workbook", r>>
Sheet(r) == <<"sheet", r>>
Trades == <<"report", "trades">>
Orders == <<"report", "orders">>

Copies(r) == {Workbook(r)} \cup IF Sheets THEN {Sheet(r)} ELSE {}
Targets == (UNION {Copies(r) : r \in Records}) \cup {Trades, Orders}

NoWrite == [target |-> <<>>, upTo |-> 0]

RecordInit ==
  /\ handled = 0
  /\ queue = <<>>
  /\ round = [th \in Threads |-> <<>>]
  /\ doing = [th \in Threads |-> NoWrite]
  /\ at = [th \in Background |-> "asleep"]
  /\ wanted = [th \in Background |-> TRUE]
  /\ client = "unasked"
  /\ latest = [r \in Records |-> 0]
  /\ content = [t \in Targets |-> 0]
  /\ openedBy = [t \in Targets |-> "nobody"]
  /\ gaveUp = [t \in Targets |-> 0]

-----------------------------------------------------------------------------
(* A round of writes *)

Reports == <<[target |-> Trades, upTo |-> 0], [target |-> Orders, upTo |-> 0]>>

\* Mutant of RecordRound: the newest job first.
RecordRoundNewestFirst(jobs) ==
  LET WritesTo(place(_)) == [i \in DOMAIN jobs |->
                               LET job == jobs[Len(jobs) + 1 - i]
                               IN  [target |-> place(job.record), upTo |-> job.upTo]]
  IN  WritesTo(Workbook) \o IF Sheets THEN WritesTo(Sheet) ELSE <<>>

\* All jobs into workbooks, then all of them into sheets.
RecordRound(jobs) ==
  LET WritesTo(place(_)) == [i \in DOMAIN jobs |->
                               [target |-> place(jobs[i].record), upTo |-> jobs[i].upTo]]
  IN  WritesTo(Workbook) \o IF Sheets THEN WritesTo(Sheet) ELSE <<>>

\* `thread` begins a round of `service`: the jobs are taken, the lock released.
BeginRound(service, thread) ==
  /\ round' = [round EXCEPT ![thread] =
                 IF service = "recorder" THEN RecordRound(queue) ELSE Reports]
  /\ queue' = IF service = "recorder" THEN <<>> ELSE queue

RoundDone(thread) == round[thread] = <<>>

\* What the next write shows: a report reads the log files, or the orders, when
\* its turn comes.
NextWrite(thread) ==
  LET w == Head(round[thread])
  IN  [w EXCEPT !.upTo = CASE w.target = Trades -> durable
                           [] w.target = Orders -> handled
                           [] OTHER -> @]

ToSheet(w) == w.target[1] = "sheet"

\* The file is truncated, or the sheet cleared.  A report with nothing to show
\* is not written at all.
OpenTarget(thread) ==
  LET w == NextWrite(thread)
  IN  /\ ~RoundDone(thread) /\ doing[thread] = NoWrite
      /\ IF w.upTo = 0
         THEN /\ round' = [round EXCEPT ![thread] = Tail(@)]
              /\ UNCHANGED <<content, openedBy, doing, client>>
         ELSE /\ doing' = [doing EXCEPT ![thread] = w]
              /\ content' = [content EXCEPT ![w.target] = 0]
              /\ openedBy' = [openedBy EXCEPT ![w.target] = thread]
              /\ IF ToSheet(w) THEN client # "off" /\ client' = "there"
                 ELSE UNCHANGED client
              /\ UNCHANGED round
      /\ UNCHANGED gaveUp

\* The write is complete.  When another thread has truncated the file meanwhile,
\* what it shows is this write or a mixture.
CloseTarget(thread) ==
  LET w == doing[thread]
  IN  /\ w # NoWrite
      /\ \E shown \in IF openedBy[w.target] = thread THEN {w.upTo} ELSE {0, w.upTo} :
           content' = [content EXCEPT ![w.target] = shown]
      /\ openedBy' = [openedBy EXCEPT ![w.target] = IF @ = thread THEN "nobody" ELSE @]
      /\ round' = [round EXCEPT ![thread] = Tail(@)]
      /\ doing' = [doing EXCEPT ![thread] = NoWrite]
      /\ UNCHANGED <<client, gaveUp>>

\* Mutant of GiveUp: an exception ends the round.
GiveUpRound(thread) ==
  LET w == IF doing[thread] = NoWrite THEN NextWrite(thread) ELSE doing[thread]
  IN  /\ ~RoundDone(thread)
      /\ \/ IOErrors
         \/ doing[thread] = NoWrite /\ ToSheet(w) /\ client = "off"
      /\ gaveUp' = [gaveUp EXCEPT ![w.target] = IF @ < w.upTo THEN w.upTo ELSE @]
      /\ round' = [round EXCEPT ![thread] = <<>>]
      /\ doing' = [doing EXCEPT ![thread] = NoWrite]
      /\ IF ToSheet(w) /\ client = "unasked" THEN client' = "off" ELSE UNCHANGED client
      /\ UNCHANGED <<content, openedBy>>

\* A write raises, before or after it has truncated the file, or the Google
\* client could not be set up when it was first asked for: the exception is
\* logged and the round goes on.
GiveUp(thread) ==
  LET w == IF doing[thread] = NoWrite THEN NextWrite(thread) ELSE doing[thread]
  IN  /\ ~RoundDone(thread)
      /\ \/ IOErrors
         \/ doing[thread] = NoWrite /\ ToSheet(w) /\ client = "off"
      /\ gaveUp' = [gaveUp EXCEPT ![w.target] = IF @ < w.upTo THEN w.upTo ELSE @]
      /\ round' = [round EXCEPT ![thread] = Tail(@)]
      /\ doing' = [doing EXCEPT ![thread] = NoWrite]
      /\ IF ToSheet(w) /\ client = "unasked" THEN client' = "off" ELSE UNCHANGED client
      /\ UNCHANGED <<content, openedBy>>

Writing(thread) == OpenTarget(thread) \/ CloseTarget(thread) \/ GiveUp(thread)

-----------------------------------------------------------------------------
(* The operations *)

\* queue_funding_record, queue_trading_record: a handler that has pushed one more
\* event queues the records it has changed, each with its whole history.
QueueRecords(records) ==
  /\ handled' = handled + 1
  /\ queue' = queue \o [i \in DOMAIN records |-> [record |-> records[i], upTo |-> handled']]
  /\ latest' = [r \in Records |-> IF r \in Range(records) THEN handled' ELSE latest[r]]
  /\ UNCHANGED <<fileVars, at, wanted>>

\* _run_loop: the thread wakes up and begins a round, unless it is to end.
WakeUp(th) ==
  /\ at[th] = "asleep"
  /\ IF wanted[th]
     THEN at' = [at EXCEPT ![th] = "working"] /\ BeginRound(th, th)
     ELSE at' = [at EXCEPT ![th] = "ended"] /\ UNCHANGED <<round, queue>>
  /\ UNCHANGED <<handled, latest, content, openedBy, doing, client, gaveUp, wanted>>

WriteSome(th) ==
  /\ at[th] = "working"
  /\ Writing(th)
  /\ UNCHANGED <<handled, queue, latest, at, wanted>>

FallAsleep(th) ==
  /\ at[th] = "working" /\ RoundDone(th)
  /\ at' = [at EXCEPT ![th] = IF wanted[th] THEN "asleep" ELSE "ended"]
  /\ UNCHANGED <<handled, queue, latest, fileVars, wanted>>

\* export_now makes its directory outside any try: when that raises, the report
\* thread is at its end.
ExportRaises(th) ==
  /\ th = "reporter" /\ IOErrors
  /\ at[th] = "asleep" /\ wanted[th]
  /\ at' = [at EXCEPT ![th] = "ended"]
  /\ UNCHANGED <<handled, queue, latest, fileVars, wanted>>

BackgroundStep(th) == WakeUp(th) \/ WriteSome(th) \/ FallAsleep(th) \/ ExportRaises(th)

\* The histories that are on their way to a target.
OnTheirWay(t) ==
  LET writes == UNION {Range(round[th]) : th \in Threads}
      jobs == {j \in Range(queue) : t \in Copies(j.record)}
  IN  {w.upTo : w \in {w \in writes : w.target = t}} \cup {j.upTo : j \in jobs}
=============================================================================
