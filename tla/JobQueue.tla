------------------------------ MODULE JobQueue ------------------------------
(***************************************************************************)
(* The job queue of server/jobs.py: HTTP threads submit jobs and request a *)
(* stop, one lazily started worker thread takes the jobs off a FIFO inbox  *)
(* and runs them.  Every step is what one thread does between two points   *)
(* where another can interleave: a critical section of JobQueue._lock is   *)
(* one step, except the one of request_stop, which checks the state of the *)
(* running job and then overwrites it while the worker, which writes the   *)
(* terminal state without the lock, may write in between.                  *)
(*                                                                         *)
(* The engine is the environment here (EngineReturns); module JobStop adds *)
(* what it does and how a stop reaches it.                                 *)
(***************************************************************************)
EXTENDS Naturals, Sequences, Functions

CONSTANTS Jobs,        \* every job submitted over the life of the process
          Stoppers,    \* HTTP threads that may call request_stop
          Workers,     \* worker threads that could come into being
          HistoryMax,  \* _HISTORY_MAX, 50 in the source
          NoJob,       \* None, as a job
          NoThread     \* the owner of a free lock

ASSUME JobQueueAssumption ==
    /\ HistoryMax \in Nat
    /\ NoJob \notin Jobs
    /\ NoThread \notin Stoppers

VARIABLES
    state,      \* JobRecord.state; "new" before the record exists
    error,      \* whether JobRecord.error is set
    started,    \* whether JobRecord.started_at is set
    stopEvent,  \* JobRecord._stop_event: "none", "clear" or "set"
    pending,    \* JobQueue._pending
    inbox,      \* JobQueue._inbox
    current,    \* JobQueue._current
    history,    \* JobQueue._history
    workerStarted,
    lock,       \* the stopper that holds _lock across two steps, or NoThread
    submitPc,   \* where the thread submitting a job is
    workerPc,   \* where each worker thread is
    workerJob,  \* the record each worker holds
    verdict,    \* the terminal state each worker has decided on
    stopPc,     \* where each request_stop call is
    stopHard,   \* its hard argument
    stopJob,    \* the job it moved to "stopping"
    recorded    \* history variable: every append to _history, never trimmed

recordVars == <<state, error, started, stopEvent>>
queueVars  == <<pending, inbox, current, history, workerStarted, recorded>>
workerVars == <<workerPc, workerJob, verdict>>
stopVars   == <<lock, stopPc, stopHard, stopJob>>
vars == <<recordVars, queueVars, workerVars, stopVars, submitPc>>

Terminal == {"completed", "completed_with_errors", "failed", "cancelled"}
States   == {"new", "queued", "running", "stopping"} \cup Terminal
Outcomes == {"returned", "raised", "job_cancelled"}

LockFree == lock = NoThread

\* The last HistoryMax entries of a list of finished jobs.
Trimmed(s) ==
    IF Len(s) > HistoryMax THEN SubSeq(s, Len(s) - HistoryMax + 1, Len(s)) ELSE s

\* list.remove: the first occurrence goes; a missing entry is ignored.
Without(s, j) ==
    IF j \in Range(s)
    THEN LET first == CHOOSE i \in DOMAIN s :
                         s[i] = j /\ \A k \in 1..(i - 1) : s[k] # j
         IN  SubSeq(s, 1, first - 1) \o SubSeq(s, first + 1, Len(s))
    ELSE s

WorkerMissingUnchecked == TRUE   \* mutant: started without looking

\* _ensure_worker's check, made under the lock.
WorkerMissing == ~workerStarted

ClearedNever(j) == FALSE   \* mutant: the worker runs whatever it pulls

\* request_stop has already ended this record.
Cleared(j) == state[j] = "cancelled"

Init ==
    /\ state = [j \in Jobs |-> "new"]
    /\ error = [j \in Jobs |-> FALSE]
    /\ started = [j \in Jobs |-> FALSE]
    /\ stopEvent = [j \in Jobs |-> "none"]
    /\ pending = <<>>
    /\ inbox = <<>>
    /\ current = NoJob
    /\ history = <<>>
    /\ workerStarted = FALSE
    /\ lock = NoThread
    /\ submitPc = [j \in Jobs |-> "idle"]
    /\ workerPc = [w \in Workers |-> "unborn"]
    /\ workerJob = [w \in Workers |-> NoJob]
    /\ verdict = [w \in Workers |-> "none"]
    /\ stopPc = [t \in Stoppers |-> "idle"]
    /\ stopHard = [t \in Stoppers |-> FALSE]
    /\ stopJob = [t \in Stoppers |-> NoJob]
    /\ recorded = <<>>

-----------------------------------------------------------------------------
(* _submit: list the record under the lock, put it in the inbox, make sure *)
(* a worker exists.  Each submission is its own HTTP or scheduler thread.  *)

Enlist(j) ==
    /\ submitPc[j] = "idle"
    /\ LockFree
    /\ pending' = Append(pending, j)
    /\ state' = [state EXCEPT ![j] = "queued"]
    /\ submitPc' = [submitPc EXCEPT ![j] = "listed"]
    /\ UNCHANGED <<error, started, stopEvent, inbox, current, history,
                   workerStarted, recorded, workerVars, stopVars>>

PutInInbox(j) ==
    /\ submitPc[j] = "listed"
    /\ inbox' = Append(inbox, j)
    /\ submitPc' = [submitPc EXCEPT ![j] = "put"]
    /\ UNCHANGED <<recordVars, pending, current, history, workerStarted,
                   recorded, workerVars, stopVars>>

EnsureWorker(j) ==
    /\ submitPc[j] = "put"
    /\ LockFree
    /\ submitPc' = [submitPc EXCEPT ![j] = "done"]
    /\ \/ /\ ~WorkerMissing
          /\ UNCHANGED <<workerStarted, workerPc>>
       \/ /\ WorkerMissing
          /\ workerStarted' = TRUE
          /\ \E w \in Workers :
                /\ workerPc[w] = "unborn"
                /\ workerPc' = [workerPc EXCEPT ![w] = "idle"]
    /\ UNCHANGED <<recordVars, pending, inbox, current, history, recorded,
                   workerJob, verdict, stopVars>>

-----------------------------------------------------------------------------
(* _worker_loop *)

Get(w) ==
    /\ workerPc[w] = "idle"
    /\ inbox # <<>>
    /\ workerJob' = [workerJob EXCEPT ![w] = Head(inbox)]
    /\ inbox' = Tail(inbox)
    /\ workerPc' = [workerPc EXCEPT ![w] = "got"]
    /\ UNCHANGED <<recordVars, pending, current, history, workerStarted,
                   recorded, verdict, stopVars, submitPc>>

\* mutant: a cleared record ends the loop instead of being skipped
DropAndExit(w) ==
    /\ workerPc[w] = "got"
    /\ LockFree
    /\ Cleared(workerJob[w])
    /\ workerPc' = [workerPc EXCEPT ![w] = "unborn"]
    /\ UNCHANGED <<recordVars, queueVars, workerJob, verdict, stopVars, submitPc>>

\* The record was cancelled while it sat in the inbox.
Drop(w) ==
    /\ workerPc[w] = "got"
    /\ LockFree
    /\ Cleared(workerJob[w])
    /\ pending' = Without(pending, workerJob[w])
    /\ workerPc' = [workerPc EXCEPT ![w] = "idle"]
    /\ UNCHANGED <<recordVars, inbox, current, history, workerStarted, recorded,
                   workerJob, verdict, stopVars, submitPc>>

Claim(w) ==
    LET j == workerJob[w] IN
    /\ workerPc[w] = "got"
    /\ LockFree
    /\ ~Cleared(j)
    /\ pending' = Without(pending, j)
    /\ current' = j
    /\ state' = [state EXCEPT ![j] = "running"]
    /\ started' = [started EXCEPT ![j] = TRUE]
    /\ stopEvent' = [stopEvent EXCEPT ![j] = "clear"]
    /\ workerPc' = [workerPc EXCEPT ![w] = "running"]
    /\ UNCHANGED <<error, inbox, history, workerStarted, recorded,
                   workerJob, verdict, stopVars, submitPc>>

\* The dispatched _run_* method comes back: it returns, with or without
\* having stamped rec.error on the way, it raises _JobCancelled, whose handler
\* decides without looking at the state, or it raises anything else.
EngineReturns(w, outcome, stamped) ==
    LET j == workerJob[w] IN
    /\ workerPc[w] = "running"
    /\ error' = [error EXCEPT ![j] = @ \/ stamped]
    /\ \/ /\ outcome = "returned"
          /\ workerPc' = [workerPc EXCEPT ![w] = "read_state"]
          /\ verdict' = [verdict EXCEPT ![w] = "completed"]
       \/ /\ outcome = "raised"
          /\ workerPc' = [workerPc EXCEPT ![w] = "read_state"]
          /\ verdict' = [verdict EXCEPT ![w] = "failed"]
       \/ /\ outcome = "job_cancelled"
          /\ workerPc' = [workerPc EXCEPT ![w] = "write_state"]
          /\ verdict' = [verdict EXCEPT ![w] = "cancelled"]
    /\ UNCHANGED <<state, started, stopEvent, queueVars, workerJob, stopVars,
                   submitPc>>

StopSeenByReturnOnly(w) ==   \* mutant: an exception is a failure, stop or not
    state[workerJob[w]] = "stopping" /\ verdict[w] # "failed"

StopSeenByErrorOnly(w) ==    \* mutant: an engine that returns has completed
    state[workerJob[w]] = "stopping" /\ verdict[w] = "failed"

StopSeen(w) == state[workerJob[w]] = "stopping"

\* "if rec.state == STATE_STOPPING", in the normal and the exception path.
ReadState(w) ==
    /\ workerPc[w] = "read_state"
    /\ \/ /\ StopSeen(w)
          /\ verdict' = [verdict EXCEPT ![w] = "cancelled"]
          /\ workerPc' = [workerPc EXCEPT ![w] = "write_state"]
       \/ /\ ~StopSeen(w)
          /\ workerPc' = [workerPc EXCEPT ![w] =
                IF verdict[w] = "failed" THEN "write_state" ELSE "read_error"]
          /\ UNCHANGED verdict
    /\ UNCHANGED <<recordVars, queueVars, workerJob, stopVars, submitPc>>

\* "elif rec.error"
ReadError(w) ==
    /\ workerPc[w] = "read_error"
    /\ verdict' = [verdict EXCEPT ![w] =
          IF error[workerJob[w]] THEN "completed_with_errors" ELSE "completed"]
    /\ workerPc' = [workerPc EXCEPT ![w] = "write_state"]
    /\ UNCHANGED <<recordVars, queueVars, workerJob, stopVars, submitPc>>

\* The terminal state is written without the lock.
WriteState(w) ==
    LET j == workerJob[w] IN
    /\ workerPc[w] = "write_state"
    /\ state' = [state EXCEPT ![j] = verdict[w]]
    /\ error' = [error EXCEPT ![j] = @ \/ verdict[w] = "failed"]
    /\ workerPc' = [workerPc EXCEPT ![w] = "record"]
    /\ UNCHANGED <<started, stopEvent, queueVars, workerJob, verdict, stopVars,
                   submitPc>>

\* _record_history
Record(w) ==
    /\ workerPc[w] = "record"
    /\ LockFree
    /\ history' = Trimmed(Append(history, workerJob[w]))
    /\ recorded' = Append(recorded, workerJob[w])
    /\ workerPc' = [workerPc EXCEPT ![w] = "idle"]
    /\ UNCHANGED <<recordVars, pending, inbox, current, workerStarted,
                   workerJob, verdict, stopVars, submitPc>>

-----------------------------------------------------------------------------
(* request_stop *)

SomeRunning == current # NoJob /\ state[current] = "running"

\* The part under the lock that ends every queued job and looks at the
\* running one; without a running one the call is over and the lock is free.
ClearQueue(t, hard) ==
    /\ stopPc[t] = "idle"
    /\ LockFree
    /\ state' = [j \in Jobs |-> IF j \in Range(pending)
                                THEN "cancelled" ELSE state[j]]
    /\ history' = Trimmed(history \o pending)
    /\ recorded' = recorded \o pending
    /\ pending' = <<>>
    /\ \/ /\ SomeRunning
          /\ lock' = t
          /\ stopPc' = [stopPc EXCEPT ![t] = "mark"]
          /\ stopHard' = [stopHard EXCEPT ![t] = hard]
          /\ stopJob' = [stopJob EXCEPT ![t] = current]
       \/ /\ ~SomeRunning
          /\ UNCHANGED stopVars
    /\ UNCHANGED <<error, started, stopEvent, inbox, current, workerStarted,
                   workerVars, submitPc>>

StopFlagUntouched(j) == stopEvent   \* mutant: rec._stop_event is not set

StopFlagSet(j) == [stopEvent EXCEPT ![j] = "set"]

\* The rest of that critical section: the transition it decided to make.
MarkStopping(t) ==
    /\ stopPc[t] = "mark"
    /\ state' = [state EXCEPT ![current] = "stopping"]
    /\ stopEvent' = StopFlagSet(current)
    /\ error' = [error EXCEPT ![current] = @ \/ stopHard[t]]
    /\ lock' = NoThread
    /\ stopPc' = [stopPc EXCEPT ![t] = "signal"]
    /\ UNCHANGED <<started, queueVars, workerVars, stopHard, stopJob, submitPc>>

\* signal_stop or signal_hard_stop, outside the lock: what it does to the
\* engine is in JobStop.
SignalEngine(t) ==
    /\ stopPc[t] = "signal"
    /\ stopPc' = [stopPc EXCEPT ![t] = "idle"]
    /\ stopHard' = [stopHard EXCEPT ![t] = FALSE]
    /\ stopJob' = [stopJob EXCEPT ![t] = NoJob]
    /\ UNCHANGED <<recordVars, queueVars, workerVars, lock, submitPc>>

-----------------------------------------------------------------------------
SubmitStep(j) == Enlist(j) \/ PutInInbox(j) \/ EnsureWorker(j)

EngineStep(w) ==
    \E outcome \in Outcomes, stamped \in BOOLEAN : EngineReturns(w, outcome, stamped)

WorkerStep(w) ==
    \/ Get(w) \/ Drop(w) \/ Claim(w)
    \/ EngineStep(w)
    \/ ReadState(w) \/ ReadError(w) \/ WriteState(w) \/ Record(w)

StopStep(t) ==
    \/ \E hard \in BOOLEAN : ClearQueue(t, hard)
    \/ MarkStopping(t)
    \/ SignalEngine(t)

Next ==
    \/ \E j \in Jobs : SubmitStep(j)
    \/ \E w \in Workers : WorkerStep(w)
    \/ \E t \in Stoppers : StopStep(t)

\* Threads are scheduled, and an engine run comes back: its HTTP calls carry
\* timeouts.  Nobody is obliged to submit a job or to press Stop.
Fairness ==
    /\ \A j \in Jobs : WF_vars(PutInInbox(j)) /\ WF_vars(EnsureWorker(j))
    /\ \A w \in Workers : WF_vars(WorkerStep(w))
    /\ \A t \in Stoppers : WF_vars(MarkStopping(t)) /\ WF_vars(SignalEngine(t))

Spec == Init /\ [][Next]_vars /\ Fairness

-----------------------------------------------------------------------------
(* Properties *)

Executing == {"running", "read_state", "read_error", "write_state", "record"}

TypeOK ==
    /\ state \in [Jobs -> States]
    /\ error \in [Jobs -> BOOLEAN]
    /\ started \in [Jobs -> BOOLEAN]
    /\ stopEvent \in [Jobs -> {"none", "clear", "set"}]
    /\ pending \in Seq(Jobs)
    /\ inbox \in Seq(Jobs)
    /\ current \in Jobs \cup {NoJob}
    /\ history \in Seq(Jobs) /\ Len(history) <= HistoryMax
    /\ workerStarted \in BOOLEAN
    /\ lock \in Stoppers \cup {NoThread}
    /\ submitPc \in [Jobs -> {"idle", "listed", "put", "done"}]
    /\ workerPc \in [Workers -> {"unborn", "idle", "got"} \cup Executing]
    /\ workerJob \in [Workers -> Jobs \cup {NoJob}]
    /\ verdict \in [Workers -> Terminal \cup {"none"}]
    /\ stopPc \in [Stoppers -> {"idle", "mark", "signal"}]
    /\ stopHard \in [Stoppers -> BOOLEAN]
    /\ stopJob \in [Stoppers -> Jobs \cup {NoJob}]
    /\ recorded \in Seq(Jobs)

\* The single-writer queue: at most one job is between its claim and its
\* record, and only that one is "running".  _ensure_worker is raced by every
\* submitting thread.
SingleWriter ==
    /\ \A v, w \in Workers :
          workerPc[v] \in Executing /\ workerPc[w] \in Executing => v = w
    /\ \A w \in Workers : workerPc[w] \in Executing => current = workerJob[w]
    /\ \A j \in Jobs : state[j] = "running" => current = j

\* No job enters the history twice: neither as cleared by two stops, nor as
\* cleared by a stop and then run by the worker that had already pulled it.
EndsOnce == IsInjective(recorded)

\* What the dashboard lists as queued is exactly what is queued, and each such
\* record will reach the worker: it is in the inbox, in the hand of the thread
\* submitting it, or already pulled.
QueuedIsListed ==
    \A j \in Jobs :
        /\ state[j] = "queued" <=> j \in Range(pending)
        /\ state[j] = "queued" =>
              \/ submitPc[j] = "listed"
              \/ j \in Range(inbox)
              \/ \E w \in Workers : workerPc[w] = "got" /\ workerJob[w] = j

\* A job a stop cleared from the queue is never run, even by a worker that had
\* pulled it from the inbox before the stop.
ClearedNeverRuns ==
    [][\A j \in Jobs :
          state[j] = "cancelled" /\ ~started[j] =>
              state'[j] = "cancelled" /\ ~started'[j]]_vars

\* A job marked "stopping" while its engine runs ends cancelled, however the
\* engine comes back: hard stops make it raise.
StopMidRunCancels ==
    \A j \in Jobs, w \in Workers :
        (workerPc[w] = "running" /\ workerJob[w] = j /\ state[j] = "stopping")
            ~> (state[j] = "cancelled")

=============================================================================
