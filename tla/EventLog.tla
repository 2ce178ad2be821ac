------------------------------ MODULE EventLog ------------------------------
(***************************************************************************)
(* What an append-only event log with a write-behind buffer promises: what *)
(* was pushed is kept in the order of the pushes; a part of it, always a   *)
(* first part, is durable and stays; what is lost is lost from the end.    *)
(***************************************************************************)
EXTENDS Integers, Sequences, SequencesExt

CONSTANT Events

VARIABLES
  journal,   \* events pushed and not lost
  durable    \* how many of them are in the files

logVars == <<journal, durable>>

LogTypeOK ==
  /\ journal \in Seq(Events)
  /\ durable \in 0..Len(journal)

LogInit == journal = <<>> /\ durable = 0

Push(events) ==
  /\ journal' = journal \o events
  /\ UNCHANGED durable

\* The files now hold the first n events.
Persist(n) ==
  /\ n \in durable + 1 .. Len(journal)
  /\ durable' = n
  /\ UNCHANGED journal

\* An I/O error or a crash when the files had got to event n: everything
\* behind it is gone.
Cut(n) ==
  /\ n \in durable .. Len(journal)
  /\ journal' = SubSeq(journal, 1, n)
  /\ durable' = n

LogNext ==
  \/ \E e \in Events : Push(<<e>>)
  \/ \E n \in 0 .. Len(journal) : Persist(n) \/ Cut(n)

LogSpec == LogInit /\ [][LogNext]_logVars
=============================================================================
