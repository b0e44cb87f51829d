---------------------------- MODULE MCIngestion ----------------------------
(***************************************************************************)
(* The ingestion pipeline on small instances: the .cfg files choose the    *)
(* documents, the processes, the limits and the number of faults.          *)
(***************************************************************************)
EXTENDS Documented, TLC

CONSTANTS m1, p1, w1, w2, none

Memo    == {m1}
Page    == {p1}
Nothing == {}

One == {w1}
Two == {w1, w2}

\* Processes are interchangeable: every action is the same for all of them.
WorkerSymmetry == Permutations(Workers)
=============================================================================
