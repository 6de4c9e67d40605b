--------------------------- MODULE JobQueueLedger ---------------------------
(***************************************************************************)
(* JobQueue as an implementation of JobLedger: what its callers see of it. *)
(***************************************************************************)
EXTENDS JobQueue

\* The jobs between their claim and their append to the history.
Active == {workerJob[w] : w \in {v \in Workers : workerPc[v] \in Executing}}

Ledger == INSTANCE JobLedger WITH
    waiting <- Range(pending),
    running <- IF Active = {} THEN NoJob ELSE CHOOSE j \in Active : TRUE,
    ended   <- recorded

\* The queue implements the ledger: a job waits from its listing to its claim,
\* runs from there to its append to the history, and ends once.
ImplementsLedger == Ledger!Spec

\* The part of it that needs no fairness.
StaysInLedger == Ledger!Init /\ [][Ledger!Next]_(Ledger!vars)
=============================================================================
