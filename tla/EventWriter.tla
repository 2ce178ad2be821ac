----------------------------- MODULE EventWriter -----------------------------
(***************************************************************************)
(* EventWriter, the data pump: the event loop's thread pushes events into  *)
(* a buffer, a background thread writes them to a file, both under one     *)
(* lock.  The lock is held during the whole of _flush_locked, so `writer`  *)
(* says who has it; every other critical section is a single step.         *)
(* Events are numbered in the order in which push is called.               *)
(***************************************************************************)
EXTENDS Integers, Sequences, Functions

CONSTANTS
  MaxEvents,    \* bound: how many events are pushed
  IOErrors      \* whether writing to the file may fail

ASSUME EventWriterAssumption == MaxEvents \in Nat /\ IOErrors \in BOOLEAN

VARIABLES
  buffer,       \* _buffer
  lines,        \* the lines of a flush that are still to be written
  writer,       \* who is in _flush_locked, if anybody
  file,         \* the log files, one after the other
  running,      \* _running
  pump,         \* where the background thread is in _run_loop
  main,         \* what the event loop's thread does with the writer
  pushed,       \* history: how many times push was called
  lost          \* history: events that went with a crash or an I/O error

ioVars == <<buffer, lines, writer, file>>
vars == <<buffer, lines, writer, file, running, pump, main, pushed, lost>>

Events == 1..MaxEvents

EWTypeOK ==
  /\ buffer \in Seq(Events)
  /\ lines \in Seq(Events)
  /\ writer \in {"nobody", "pump", "main"}
  /\ file \in Seq(Events)
  /\ running \in BOOLEAN
  /\ pump \in {"top", "asleep", "due", "writing", "ended", "dead"}
  /\ main \in {"up", "pushing", "joining", "flushing", "writing", "stopped", "down"}
  /\ pushed \in 0..MaxEvents
  /\ lost \subseteq Events

Init ==
  /\ buffer = <<>> /\ lines = <<>> /\ writer = "nobody" /\ file = <<>>
  /\ running = TRUE
  /\ pump = "top"
  /\ main = "up"
  /\ pushed = 0
  /\ lost = {}

\* The event push is waiting to append.
Pending == IF main = "pushing" THEN {pushed} ELSE {}

-----------------------------------------------------------------------------
\* push, waiting for the lock and holding it.
PushBegins ==
  /\ main = "up"
  /\ pushed < MaxEvents
  /\ pushed' = pushed + 1
  /\ main' = "pushing"
  /\ UNCHANGED <<ioVars, running, pump, lost>>

PushAppends ==
  /\ main = "pushing"
  /\ writer = "nobody"
  /\ buffer' = Append(buffer, pushed)
  /\ main' = "up"
  /\ UNCHANGED <<lines, writer, file, running, pump, pushed, lost>>

\* Mutant of TakeLines: the buffer is written but not cleared.
TakeLinesKeepingBuffer(thread) ==
  /\ writer = "nobody"
  /\ buffer # <<>>
  /\ lines' = buffer
  /\ writer' = thread
  /\ UNCHANGED <<buffer, file>>

\* _flush_locked up to the file: the buffer is cleared.
TakeLines(thread) ==
  /\ writer = "nobody"
  /\ buffer # <<>>
  /\ lines' = buffer
  /\ buffer' = <<>>
  /\ writer' = thread
  /\ UNCHANGED file

-----------------------------------------------------------------------------
(* The background thread *)

\* `while self._running`, then sleep.
PumpLoops ==
  /\ pump = "top"
  /\ pump' = IF running THEN "asleep" ELSE "ended"
  /\ UNCHANGED <<ioVars, running, main, pushed, lost>>

\* Awake, the interval has elapsed or the buffer is full: time to flush.
PumpIsDue ==
  /\ pump = "asleep"
  /\ writer = "nobody"
  /\ pump' = "due"
  /\ UNCHANGED <<ioVars, running, main, pushed, lost>>

\* Mutant of PumpFlushes: the thread ends when there is nothing to do.
PumpFlushesOrEnds ==
  /\ pump = "due"
  /\ \/ TakeLines("pump") /\ pump' = "writing"
     \/ writer = "nobody" /\ buffer = <<>> /\ pump' = "ended" /\ UNCHANGED ioVars
  /\ UNCHANGED <<running, main, pushed, lost>>

PumpFlushes ==
  /\ pump = "due"
  /\ \/ TakeLines("pump") /\ pump' = "writing"
     \/ writer = "nobody" /\ buffer = <<>> /\ pump' = "top" /\ UNCHANGED ioVars
  /\ UNCHANGED <<running, main, pushed, lost>>

-----------------------------------------------------------------------------
(* Writing, by whichever thread flushes *)

\* The thread that flushed goes on, to here.
FlushReturns(pumpGoes, mainGoes) ==
  /\ writer' = "nobody"
  /\ pump' = IF writer = "pump" THEN pumpGoes ELSE pump
  /\ main' = IF writer = "main" THEN mainGoes ELSE main

\* Mutant of WriteLine: the last line is forgotten.
WriteLineButLast ==
  /\ writer # "nobody"
  /\ file' = Append(file, Head(lines))
  /\ lines' = Tail(lines)
  /\ IF Len(lines) > 2
     THEN UNCHANGED <<writer, pump, main>>
     ELSE FlushReturns("top", "stopped")
  /\ UNCHANGED <<buffer, running, pushed, lost>>

\* `for line in lines: f.write(...)`, then the lock is released.
WriteLine ==
  /\ writer # "nobody"
  /\ file' = Append(file, Head(lines))
  /\ lines' = Tail(lines)
  /\ IF Len(lines) > 1
     THEN UNCHANGED <<writer, pump, main>>
     ELSE FlushReturns("top", "stopped")
  /\ UNCHANGED <<buffer, running, pushed, lost>>

\* mkdir, open or write raises: the exception ends the background thread, or
\* the shutdown, and the rest of the batch is in neither buffer nor file.
WriteFails ==
  /\ IOErrors
  /\ writer # "nobody"
  /\ lines' = <<>>
  /\ lost' = lost \cup Range(lines)
  /\ FlushReturns("dead", "stopped")
  /\ UNCHANGED <<buffer, file, running, pushed>>

-----------------------------------------------------------------------------
(* Shutdown, crash and restart *)

StopBegins ==
  /\ main = "up"
  /\ running' = FALSE
  /\ main' = "joining"
  /\ UNCHANGED <<ioVars, pump, pushed, lost>>

\* join(timeout=5) returns when the thread has ended, or after five seconds
\* whatever it does.
StopJoins ==
  /\ main = "joining"
  /\ main' = "flushing"
  /\ UNCHANGED <<ioVars, running, pump, pushed, lost>>

\* Mutant of StopFlushes: no final flush.
StopFlushesNothing ==
  /\ main = "flushing"
  /\ writer = "nobody"
  /\ main' = "stopped"
  /\ UNCHANGED <<ioVars, running, pump, pushed, lost>>

\* The final flush.
StopFlushes ==
  /\ main = "flushing"
  /\ \/ TakeLines("main") /\ main' = "writing"
     \/ writer = "nobody" /\ buffer = <<>> /\ main' = "stopped" /\ UNCHANGED ioVars
  /\ UNCHANGED <<running, pump, pushed, lost>>

\* The process ends without a shutdown; what is only in memory is lost.
Crash ==
  /\ main \notin {"stopped", "down"}
  /\ lost' = lost \cup Range(buffer) \cup Range(lines) \cup Pending
  /\ buffer' = <<>> /\ lines' = <<>> /\ writer' = "nobody"
  /\ main' = "down"
  /\ pump' = "ended"
  /\ UNCHANGED <<file, running, pushed>>

\* A new process: a new writer over the old files.
Restart ==
  /\ main \in {"stopped", "down"}
  /\ main' = "up"
  /\ running' = TRUE
  /\ pump' = "top"
  /\ UNCHANGED <<ioVars, pushed, lost>>

-----------------------------------------------------------------------------
PumpNext == PumpLoops \/ PumpIsDue \/ PumpFlushes

Flushing == WriteLine \/ WriteFails

Next ==
  \/ PushBegins \/ PushAppends
  \/ PumpNext
  \/ Flushing
  \/ StopBegins \/ StopJoins \/ StopFlushes
  \/ Crash \/ Restart

\* The operating system schedules both threads; nobody has to stop or crash.
Spec ==
  /\ Init
  /\ [][Next]_vars
  /\ WF_vars(PumpNext)
  /\ WF_vars(Flushing)
  /\ WF_vars(PushAppends)
  /\ WF_vars(StopJoins \/ StopFlushes)

-----------------------------------------------------------------------------
\* Every event pushed is at exactly one place: it is never dropped between the
\* buffer and the file, except with a crash or an I/O error.
NothingDisappears ==
  LET places == <<Range(file), Range(lines), Range(buffer), lost, Pending>>
  IN  \A e \in 1..pushed :
        \E i \in 1..5 : e \in places[i] /\ \A j \in 1..5 : e \in places[j] => i = j

\* When stop() has returned everything is in the file, even if the background
\* thread was flushing meanwhile or has died before.
StopWritesEverything == main = "stopped" => 1..pushed \subseteq Range(file) \cup lost

\* Every event is eventually written ("every N events or T seconds",
\* event_writer.py:7), unless the process crashes or a failed write has ended
\* the pump thread: _run_loop has no handler.
EventuallyWritten ==
  \A e \in Events : (pushed >= e) ~> (e \in Range(file) \cup lost \/ pump = "dead")

\* The two threads, the buffer and the file implement the event log.
Log == INSTANCE EventLog WITH
  journal <- file \o lines \o buffer,
  durable <- Len(file)

ImplementsEventLog == Log!LogSpec
=============================================================================
