----------------------------- MODULE JobLedger -----------------------------
(***************************************************************************)
(* What the job queue of server/jobs.py promises its callers, with no      *)
(* threads, no lock and no inbox: a job waits, is run by itself, and ends  *)
(* exactly once; a stop request ends every job that waits.  JobQueue is    *)
(* shown to implement this specification.                                  *)
(***************************************************************************)
EXTENDS Naturals, Sequences, FiniteSets, Functions

CONSTANTS Jobs,   \* every job that is ever submitted
          NoJob   \* the running job when nothing runs

VARIABLES waiting,  \* the jobs submitted and not yet started
          running,  \* the job being executed, or NoJob
          ended     \* the jobs that ended, in the order they did

vars == <<waiting, running, ended>>

Known == waiting \cup Range(ended) \cup {running}

Init ==
    /\ waiting = {}
    /\ running = NoJob
    /\ ended = <<>>

Submit(j) ==
    /\ j \notin Known
    /\ waiting' = waiting \cup {j}
    /\ UNCHANGED <<running, ended>>

Start(j) ==
    /\ running = NoJob
    /\ j \in waiting
    /\ waiting' = waiting \ {j}
    /\ running' = j
    /\ UNCHANGED ended

Finish ==
    /\ running # NoJob
    /\ ended' = Append(ended, running)
    /\ running' = NoJob
    /\ UNCHANGED waiting

\* A stop request ends every waiting job, in some order, and starts none.
CancelWaiting ==
    /\ waiting # {}
    /\ \E order \in [1..Cardinality(waiting) -> waiting] :
          /\ Range(order) = waiting
          /\ ended' = ended \o order
    /\ waiting' = {}
    /\ UNCHANGED running

Next ==
    \/ \E j \in Jobs : Submit(j) \/ Start(j)
    \/ Finish
    \/ CancelWaiting

\* A waiting job is not left waiting while nothing runs, and a started job ends.
Fairness ==
    /\ WF_vars(\E j \in Jobs : Start(j))
    /\ WF_vars(Finish)

Spec == Init /\ [][Next]_vars /\ Fairness
=============================================================================
