------------------------------ MODULE MCWriters ------------------------------
(***************************************************************************)
(* Small instances of the writers.                                         *)
(***************************************************************************)
EXTENDS Writers

\* An order that rests queues nothing, a deposit one record.
SomeHandlers == { <<>>, <<"funds">> }

\* The two background threads share neither files nor queue: the reporter wakes up
\* before the shutdown only where no record is queued.
OneThread == at'["reporter"] # "working" \/ \A r \in Records : latest'[r] = 0

OneThreadSpec == WritersInit /\ [][WritersNext /\ OneThread]_allVars /\ WritersFairness
=============================================================================
