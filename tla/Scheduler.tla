------------------------------- MODULE Scheduler -------------------------------
(***************************************************************************)
(* schedules.json and the threads that read and write it: the scheduler's  *)
(* tick, the API's handlers, the cascades of renaming and removing a       *)
(* server, and the process itself, which can stop at any step and start    *)
(* again.  Every write replaces the whole file; the API's upsert, delete   *)
(* and cascades read and write it under one lock, the tick does not.       *)
(*                                                                         *)
(* Time is counted in firing times: a schedule is due at every one, and    *)
(* _compute_next yields the first one after the time it is given.          *)
(***************************************************************************)
EXTENDS Integers

CONSTANTS S,          \* schedules are 1..S, in the order of the file
          Initial,    \* the schedules on file at first
          NoRow,      \* not on file
          MaxTime,    \* bound: firing times
          MaxEdits,   \* bound: API requests that write
          MaxCrashes, \* bound: stops of the process
          MaxFaults   \* bound: submissions that raise

ASSUME SchedulerAssumption ==
    /\ S \in Nat \ {0} /\ Initial \subseteq 1..S
    /\ MaxTime \in Nat /\ MaxEdits \in Nat /\ MaxCrashes \in Nat /\ MaxFaults \in Nat

Schedules == 1..S
Times     == 0..(MaxTime + 1)
Servers   == {"old name", "new name", "removed"}

\* fireable: it has the fields its mode needs, and confirm_replace if it is a
\* Replace.
Rows == [server : Servers, enabled : BOOLEAN, fireable : BOOLEAN, next : Times]

ASSUME SentinelAssumption == NoRow \notin Rows

VARIABLES
    disk,     \* schedules.json
    server,   \* the registered name of the server the schedules are for
    now,
    pc,       \* where the scheduler's thread is
    rows,     \* the tick's copy of the file
    tickNow,  \* the time the tick started at
    at,       \* the schedule the tick is at
    mutated,  \* whether its copy has changes to save at its end
    edits, crashes, faults,
    fired,    \* history variable: <<s, t>>, schedule s has been fired for time t
    doubled,  \* history variable: those fired again
    missed    \* history variable: those a start has rolled past

tickVars == <<rows, tickNow, at, mutated>>
bounds   == <<edits, crashes, faults>>
history  == <<fired, doubled, missed>>
vars == <<disk, server, now, pc, tickVars, bounds, history>>

FirstRow(ok) == [server |-> "old name", enabled |-> TRUE, fireable |-> ok, next |-> 1]

Init ==
    /\ \E ok \in [Schedules -> BOOLEAN] :
          disk = [s \in Schedules |-> IF s \in Initial THEN FirstRow(ok[s]) ELSE NoRow]
    /\ server = "old name"
    /\ now = 0
    /\ pc = "asleep"
    /\ rows = [s \in Schedules |-> NoRow]
    /\ tickNow = 0 /\ at = 1 /\ mutated = FALSE
    /\ edits = 0 /\ crashes = 0 /\ faults = 0
    /\ fired = {} /\ doubled = {} /\ missed = {}

-----------------------------------------------------------------------------
(* The scheduler's thread: _tick *)

\* The tick's local variables are gone.
LeaveTick ==
    /\ rows' = [s \in Schedules |-> NoRow]
    /\ tickNow' = 0 /\ at' = 1 /\ mutated' = FALSE

Due(row, time) == row # NoRow /\ row.enabled /\ row.next <= time

\* _compute_next is strictly in the future of the time it is given.
ComputeNext(time) == time + 1

LoadRows ==
    /\ pc = "asleep"
    /\ disk # [s \in Schedules |-> NoRow]
    /\ rows' = disk
    /\ tickNow' = now
    /\ at' = 1
    /\ mutated' = FALSE
    /\ pc' = "row"
    /\ UNCHANGED <<disk, server, now, bounds, history>>

SkipRow ==
    /\ pc = "row" /\ at \in Schedules
    /\ ~Due(rows[at], tickNow)
    /\ at' = at + 1
    /\ UNCHANGED <<disk, server, now, pc, rows, tickNow, mutated, bounds, history>>

\* A schedule that must not fire is rolled forward.
RollRow ==
    /\ pc = "row" /\ at \in Schedules
    /\ Due(rows[at], tickNow)
    /\ ~rows[at].fireable
    /\ rows' = [rows EXCEPT ![at].next = ComputeNext(tickNow)]
    /\ mutated' = TRUE
    /\ at' = at + 1
    /\ UNCHANGED <<disk, server, now, pc, tickNow, bounds, history>>

FireRow ==
    /\ pc = "row" /\ at \in Schedules
    /\ Due(rows[at], tickNow)
    /\ rows[at].fireable
    /\ LET occurrence == <<at, rows[at].next>> IN
          /\ doubled' = IF occurrence \in fired THEN doubled \cup {occurrence} ELSE doubled
          /\ fired' = fired \cup {occurrence}
    /\ rows' = [rows EXCEPT ![at].next = ComputeNext(tickNow)]
    /\ mutated' = TRUE
    /\ pc' = "save"
    /\ UNCHANGED <<disk, server, now, tickNow, at, bounds, missed>>

SavedAtEndOnly == disk   \* mutant: no save between two fires
SavedNow == rows

SaveAfterFire ==
    /\ pc = "save"
    /\ disk' = SavedNow
    /\ at' = at + 1
    /\ pc' = "row"
    /\ UNCHANGED <<server, now, rows, tickNow, mutated, bounds, history>>

ThreadDies == "dead"   \* mutant: _loop does not catch it
TickAborted == "asleep"

SubmitRaises ==
    /\ pc = "row" /\ at \in Schedules
    /\ Due(rows[at], tickNow) /\ rows[at].fireable
    /\ faults < MaxFaults
    /\ faults' = faults + 1
    /\ pc' = TickAborted
    /\ LeaveTick
    /\ UNCHANGED <<disk, server, now, edits, crashes, history>>

EndTick ==
    /\ pc = "row" /\ at = S + 1
    /\ disk' = IF mutated THEN rows ELSE disk
    /\ pc' = "asleep"
    /\ LeaveTick
    /\ UNCHANGED <<server, now, bounds, history>>

-----------------------------------------------------------------------------
(* The API.  These handlers hold the file's lock throughout; PATCH          *)
(* /resolutions, which does not, is left out.                               *)

\* server.persistence under its lock: rewrite the file.
Rewrite(new) ==
    /\ edits < MaxEdits
    /\ edits' = edits + 1
    /\ pc # "down"
    /\ disk' = new
    /\ UNCHANGED <<now, pc, tickVars, crashes, faults, history>>

\* POST and PUT: a PUT for an id that is not on file appends it.
PutSchedule(s) ==
    /\ \E row \in [server : {server}, enabled : BOOLEAN, fireable : {TRUE},
                   next : {ComputeNext(now)}] :
          Rewrite([disk EXCEPT ![s] = row])
    /\ UNCHANGED server

DeleteSchedule(s) ==
    /\ disk[s] # NoRow
    /\ Rewrite([disk EXCEPT ![s] = NoRow])
    /\ UNCHANGED server

RenameServer ==
    /\ server = "old name"
    /\ server' = "new name"
    /\ Rewrite([s \in Schedules |->
                  IF disk[s] # NoRow /\ disk[s].server = server
                  THEN [disk[s] EXCEPT !.server = server'] ELSE disk[s]])

RemoveServer ==
    /\ server # "removed"
    /\ server' = "removed"
    /\ Rewrite([s \in Schedules |->
                  IF disk[s] # NoRow /\ disk[s].server = server THEN NoRow ELSE disk[s]])

-----------------------------------------------------------------------------
(* The process *)

Crash ==
    /\ pc # "down" /\ crashes < MaxCrashes
    /\ crashes' = crashes + 1
    /\ pc' = "down"
    /\ LeaveTick
    /\ UNCHANGED <<disk, server, now, edits, faults, history>>

\* The schedules whose time has passed while the process was down.
Passed == {s \in Schedules : disk[s] # NoRow /\ disk[s].next <= now}

NoneRolled == {}   \* mutant: start does not refresh the file

Rolled == Passed

\* Scheduler.start runs before the API serves and the thread starts.
Start ==
    /\ pc = "down"
    /\ missed' = missed \cup {<<s, disk[s].next>> : s \in Passed}
    /\ disk' = [s \in Schedules |->
                  IF s \in Rolled THEN [disk[s] EXCEPT !.next = ComputeNext(now)] ELSE disk[s]]
    /\ pc' = "asleep"
    /\ UNCHANGED <<server, now, tickVars, bounds, fired, doubled>>

TimePasses ==
    /\ now < MaxTime
    /\ now' = now + 1
    /\ UNCHANGED <<disk, server, pc, tickVars, bounds, history>>

-----------------------------------------------------------------------------
Tick == LoadRows \/ SkipRow \/ RollRow \/ FireRow \/ SaveAfterFire \/ SubmitRaises \/ EndTick

Api ==
    \/ \E s \in Schedules : PutSchedule(s) \/ DeleteSchedule(s)
    \/ RenameServer \/ RemoveServer

Next == Tick \/ Api \/ Crash \/ Start \/ TimePasses

\* The thread wakes after every tick; a stopped process is started again.
Fairness == WF_vars(Tick) /\ WF_vars(Start)

Spec == Init /\ [][Next]_vars /\ Fairness

-----------------------------------------------------------------------------
(* Properties *)

Occurrences == Schedules \X Times

TypeOK ==
    /\ disk \in [Schedules -> Rows \cup {NoRow}]
    /\ rows \in [Schedules -> Rows \cup {NoRow}]
    /\ server \in Servers
    /\ now \in 0..MaxTime /\ tickNow \in 0..now
    /\ pc \in {"asleep", "row", "save", "down"}
    /\ at \in 1..(S + 1)
    /\ mutated \in BOOLEAN
    /\ fired \subseteq Occurrences /\ doubled \subseteq fired /\ missed \subseteq Occurrences

\* No firing time of a schedule is fired twice, although a submission may
\* raise, the process stop and the API write at any point of a tick
\* (schedules.py: "duplicate snapshots, or worse, duplicate Replace-mode
\* restores").
FiredOnce == doubled = {}

\* What came due while the process was down is not caught up on
\* (Scheduler.start): it fired before the stop or never does.
NoCatchUp == [][(fired' \ fired) \cap missed = {}]_vars

\* Whatever the API writes meanwhile, a tick that has run to its end leaves no
\* enabled schedule on file that was due at its start.
TickLeavesNothingDue ==
    [][EndTick => \A s \in Schedules : ~Due(disk'[s], tickNow)]_vars

\* A due schedule does not stay due: it is fired, rolled or edited.
DueIsHandled ==
    \A s \in Schedules : \A t \in Times :
        (Due(disk[s], now) /\ disk[s].next = t) ~> (disk[s] = NoRow \/ disk[s].next # t \/ ~disk[s].enabled)

===============================================================================
