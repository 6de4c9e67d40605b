----------------------------- MODULE MCJobQueue -----------------------------
(* JobQueue on a few jobs and threads, and as an implementation of JobLedger. *)
EXTENDS JobQueueLedger
=============================================================================
