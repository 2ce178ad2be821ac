------------------------------ MODULE Writers -------------------------------
(***************************************************************************)
(* The writers of one process behind its handlers: the event log, the      *)
(* report writer and the record writer, from the first event to the end of *)
(* shutdown().  The event writer is taken for what it implements, the      *)
(* EventLog.                                                               *)
(***************************************************************************)
EXTENDS RecordWriter

CONSTANTS
  MaxEvents,    \* bound: how many handlers run
  Handlers      \* for each kind of handler, the records it queues

ASSUME WritersAssumption == MaxEvents \in Nat /\ Handlers \subseteq Seq(Records)

VARIABLES
  closing,      \* how far shutdown() has got
  overran       \* history: a join timed out while that thread was working

allVars == <<logVars, recordVars, closing, overran>>

Ended == closing \in {"done", "raised"}

WritersInit ==
  /\ LogInit
  /\ RecordInit
  /\ closing = "no"
  /\ overran = {}

-----------------------------------------------------------------------------
\* A handler pushes its event and queues the records it has changed; nothing
\* else happens on the event loop in between.
Handler(records) ==
  /\ closing = "no" /\ handled < MaxEvents
  /\ Push(<<handled + 1>>)
  /\ QueueRecords(records)
  /\ UNCHANGED <<closing, overran>>

\* The pump thread, at any time, or its failure.
PumpWrites ==
  /\ ~Ended
  /\ \E n \in 0..Len(journal) : Persist(n) \/ (IOErrors /\ Cut(n))
  /\ UNCHANGED <<recordVars, closing, overran>>

\* The threads of the other two writers.
ThreadStep(th) ==
  /\ ~Ended
  /\ BackgroundStep(th)
  /\ UNCHANGED <<logVars, closing, overran>>

-----------------------------------------------------------------------------
(* shutdown() *)

\* stop() of a writer tells its thread to end...
Stops(th, joining) ==
  /\ wanted' = [wanted EXCEPT ![th] = FALSE]
  /\ closing' = joining
  /\ UNCHANGED <<handled, queue, latest, fileVars, at, overran>>

\* ... joins it for at most five seconds and does a last round by itself.
Joins(th, writing) ==
  /\ overran' = IF at[th] = "working" THEN overran \cup {th} ELSE overran
  /\ BeginRound(th, "main")
  /\ closing' = writing
  /\ UNCHANGED <<logVars, handled, latest, content, openedBy, doing, client, gaveUp, at, wanted>>

\* Mutant of EventWriterStops: the last flush is not waited for.
EventWriterStopsLater ==
  /\ closing = "no"
  /\ UNCHANGED logVars
  /\ Stops("reporter", "reporter stops")

\* event_writer.stop() writes everything that is left.  When that raises, the
\* other writers are not stopped and the process ends.
EventWriterStops ==
  /\ closing = "no"
  /\ \/ /\ IF durable = Len(journal) THEN UNCHANGED logVars ELSE Persist(Len(journal))
        /\ Stops("reporter", "reporter stops")
     \/ /\ IOErrors /\ durable < Len(journal)
        /\ \E n \in durable .. Len(journal) - 1 : Cut(n)
        /\ closing' = "raised"
        /\ UNCHANGED <<recordVars, overran>>

ReporterStops == closing = "reporter stops" /\ Joins("reporter", "reports")

\* Its last export raises, as in ExportRaises: the record writer is not stopped and
\* the process ends.
ReporterRaises ==
  /\ closing = "reporter stops" /\ IOErrors
  /\ closing' = "raised"
  /\ UNCHANGED <<logVars, recordVars, overran>>

LastWrites ==
  /\ closing \in {"reports", "records"}
  /\ Writing("main")
  /\ UNCHANGED <<logVars, handled, queue, latest, at, wanted, closing, overran>>

RecorderIsNext ==
  /\ closing = "reports" /\ RoundDone("main")
  /\ Stops("recorder", "recorder stops")
  /\ UNCHANGED logVars

RecorderStops == closing = "recorder stops" /\ Joins("recorder", "records")

ShutdownEnds ==
  /\ closing = "records" /\ RoundDone("main")
  /\ closing' = "done"
  /\ UNCHANGED <<logVars, recordVars, overran>>

Shutdown ==
  \/ EventWriterStops
  \/ ReporterStops \/ ReporterRaises
  \/ RecorderIsNext \/ RecorderStops
  \/ LastWrites
  \/ ShutdownEnds

WritersNext ==
  \/ \E records \in Handlers : Handler(records)
  \/ PumpWrites
  \/ \E th \in Background : ThreadStep(th)
  \/ Shutdown

\* The operating system schedules the threads, joins time out, and each write to
\* the disk or to Google ends or raises.  Nobody waits for the report writer.
WritersFairness ==
  /\ WF_allVars(ThreadStep("recorder"))
  /\ WF_allVars(closing # "no" /\ Shutdown)

WritersSpec == WritersInit /\ [][WritersNext]_allVars /\ WritersFairness

-----------------------------------------------------------------------------
\* The target shows everything up to n, or the write that would have shown it
\* was given up.
Shows(t, n) == content[t] = n \/ gaveUp[t] >= n

\* No newer history is replaced by an older one: when nothing is on its way to a
\* record's workbook or sheet, it shows what was queued last, unless that write
\* was given up.  Two rounds that overlap (a join that timed out, _flush writing
\* outside the lock) may break this.
RecordsCurrent ==
  \A r \in Records : \A t \in Copies(r) :
    "recorder" \notin overran /\ OnTheirWay(t) = {} => Shows(t, latest[r])

\* A shutdown() that comes to its end leaves nothing behind: no job is left in the
\* queue, and the last reports show the whole log and the orders as they are, which
\* takes the event writer to stop first; a report whose write was given up, or that
\* the report thread may still be writing after the join timed out, is excepted.
ShutdownLeavesNothing ==
  closing = "done" =>
    /\ queue = <<>>
    /\ durable = Len(journal)
    /\ "reporter" \notin overran => Shows(Trades, durable) /\ Shows(Orders, handled)

\* Every history that is queued is eventually shown, or a newer one, whichever round
\* takes it, the thread's or the last one of shutdown().  Three things excuse it:
\* its own write was given up; the join of the record thread timed out while it was
\* writing; shutdown() was ended by an exception of the event writer's last flush or
\* of the last reports, before it came to the record writer.
RecordsEventuallyWritten ==
  \A r \in Records, n \in 1..MaxEvents : \A t \in Copies(r) :
    (latest[r] = n) ~>
      (content[t] >= n \/ gaveUp[t] >= n \/ "recorder" \in overran \/ closing = "raised")
=============================================================================
