-------------------------------- MODULE FanOut --------------------------------
(***************************************************************************)
(* The worker thread running fan-out jobs, one after the other, between    *)
(* single-server snapshots: the coordinator, its pool of destination       *)
(* workers, the registry of the fan-out in flight with its grace timers,   *)
(* and the two process-wide globals every run shares:                      *)
(*                                                                         *)
(*   payloads   state._snapshot_payloads, from which snapshot files are    *)
(*              built (clear and append are each atomic in CPython)        *)
(*   serverId   state._snapshot_server_id                                  *)
(*                                                                         *)
(* An entry of payloads is <<job, who, library>>, who being a destination  *)
(* or 0 in a single-server snapshot.                                       *)
(***************************************************************************)
EXTENDS Integers, FiniteSets, FiniteSetsExt

CONSTANTS N,          \* how many destinations a fan-out job names
          Libraries,  \* how many libraries every server has
          MaxJobs,    \* bound: how many jobs the worker runs
          JobSpecs,   \* the jobs: [kind, replace, cap]
          Addresses   \* the memory addresses a FanOutResult can have

Dests == 1..N
Kinds == {"direct", "restore", "adapter", "plex snapshot", "adapter snapshot"}

\* cap is settings.fan_out_destination_workers.
ASSUME FanOutAssumption ==
    /\ N \in Nat \ {0} /\ Libraries \in Nat \ {0} /\ MaxJobs \in Nat
    /\ JobSpecs \subseteq [kind : Kinds, replace : BOOLEAN, cap : Nat]
    /\ IsFiniteSet(Addresses) /\ Cardinality(Addresses) > 1

VARIABLES
    job,        \* number of the job the worker runs or ran last, 0 before
    spec,       \* what it is
    coord,      \* where the worker thread is in it
    straggler,  \* the captured stop_event is one an earlier run has set
    next,       \* the destination the submit loop is at
    cancelled,  \* FanOutResult.cancelled
    verdict,    \* how the job's _run_* method ended
    active,     \* _active_result: the job whose result it is, 0 for None
    addr,       \* id() of each job's result
    timers,     \* the jobs whose grace timer is pending
    pc,         \* where each destination's worker is
    state,      \* FanOutDestResult.state
    saved,      \* prev_snapshot_server_id in each destination's belt
    serverId,
    payloads,
    tried,      \* the libraries each destination's belt has been through
    fetched,    \* history variable: those it read from the destination
    belt,       \* the payloads in each destination's pre-Replace snapshot
    file        \* the payloads in the last single-server snapshot

coordVars == <<job, spec, coord, straggler, next, cancelled, verdict>>
regVars   == <<active, addr, timers>>
sharedVars == <<serverId, payloads>>
beltVars  == <<saved, tried, fetched, belt>>
vars == <<coordVars, regVars, pc, state, sharedVars, beltVars, file>>

JobNumbers == 1..MaxJobs
NoServer   == -1   \* the empty _snapshot_server_id
Elsewhere  == 0    \* a server that is no destination of these fan-outs

Snapshots == {"plex snapshot", "adapter snapshot"}
Pooled    == {"direct", "restore"}   \* the Plex-native fan-outs

Init ==
    /\ job = 0
    /\ spec = CHOOSE s \in JobSpecs : TRUE
    /\ coord = "idle"
    /\ straggler = FALSE
    /\ next = 1
    /\ cancelled = FALSE
    /\ verdict = "none"
    /\ active = 0
    /\ addr = [n \in JobNumbers |-> CHOOSE a \in Addresses : TRUE]
    /\ timers = {}
    /\ pc = [d \in Dests |-> "waiting"]
    /\ state = [d \in Dests |-> "queued"]
    /\ saved = [d \in Dests |-> NoServer]
    /\ serverId = NoServer
    /\ payloads = {}
    /\ tried = [d \in Dests |-> 0]
    /\ fetched = [d \in Dests |-> {}]
    /\ belt = [d \in Dests |-> {}]
    /\ file = {}

-----------------------------------------------------------------------------
(* The worker thread *)

\* The worker loop's pre-flight clears the registry of an earlier fan-out.
ClearedRegistry == 0

\* The event the fan-out captures is None, or one that the late keyboard
\* thread of an earlier engine registered, which that engine has set.
StartJob ==
    /\ coord = "idle" /\ job < MaxJobs
    /\ job' = job + 1
    /\ spec' \in JobSpecs
    /\ straggler' \in (IF job = 0 THEN {FALSE} ELSE BOOLEAN)
    /\ coord' = IF spec'.kind \in Snapshots THEN "snapshot" ELSE "create"
    /\ active' = ClearedRegistry
    /\ next' = 1
    /\ cancelled' = FALSE
    /\ verdict' = "none"
    /\ pc' = [d \in Dests |-> "waiting"]
    /\ state' = [d \in Dests |-> "queued"]
    /\ tried' = [d \in Dests |-> 0]
    /\ fetched' = [d \in Dests |-> {}]
    /\ belt' = [d \in Dests |-> {}]
    /\ saved' = [d \in Dests |-> NoServer]
    /\ file' = {}
    /\ UNCHANGED <<addr, timers, sharedVars>>

PrimedNever == payloads   \* mutant: run_snapshot does not reset the list

\* reset_run_state, which the Plex-native engines call first.
Primed == {}

\* A single-server snapshot: the libraries that could be read are appended,
\* and the file is built from the list.  The adapter engine does not reset it.
SnapshotJob ==
    /\ coord = "snapshot"
    /\ \E read \in SUBSET (1..Libraries) :
          payloads' = (IF spec.kind = "plex snapshot" THEN Primed ELSE payloads)
                      \cup {<<job, 0, l>> : l \in read}
    /\ serverId' = Elsewhere
    /\ file' = payloads'
    /\ verdict' = "returned"
    /\ coord' = "idle"
    /\ UNCHANGED <<job, spec, straggler, next, cancelled, regVars, pc, state, beltVars>>

\* The results alive are the one on the worker's stack and the registered
\* one; the allocator may give a new one the address of any that is gone.
FreeAddresses == Addresses \ (IF active = 0 THEN {} ELSE {addr[active]})

CreateResult ==
    /\ coord = "create"
    /\ IF spec.kind \in Pooled
       THEN /\ active' = job
            /\ \E a \in FreeAddresses : addr' = [addr EXCEPT ![job] = a]
       ELSE UNCHANGED <<active, addr>>
    /\ coord' = IF spec.kind = "direct" THEN "source" ELSE "submit"
    /\ UNCHANGED <<job, spec, straggler, next, cancelled, verdict, timers,
                   pc, state, sharedVars, beltVars, file>>

\* run_fan_out_direct connects to the source outside its try block: when it
\* cannot, no finalisation runs.
ConnectSource ==
    /\ coord = "source"
    /\ \/ coord' = "submit" /\ UNCHANGED verdict
       \/ coord' = "idle" /\ verdict' = "raised"
    /\ UNCHANGED <<job, spec, straggler, next, cancelled, regVars,
                   pc, state, sharedVars, beltVars, file>>

\* The adapter fan-out runs its destinations in the worker thread itself.
SubmitNext ==
    /\ coord = "submit" /\ next \in Dests
    /\ spec.kind \in Pooled \/ \A d \in 1..(next - 1) : pc[d] = "ended"
    /\ next' = next + 1
    /\ IF straggler
       THEN /\ cancelled' = TRUE
            /\ state' = [state EXCEPT ![next] = "cancelled"]
            /\ pc' = [pc EXCEPT ![next] = "ended"]
       ELSE /\ pc' = [pc EXCEPT ![next] = "queued"]
            /\ UNCHANGED <<cancelled, state>>
    /\ UNCHANGED <<job, spec, coord, straggler, verdict, regVars, sharedVars, beltVars, file>>

SubmittedAll == next > N   \* mutant: the pool is not drained
AllDrained == next > N /\ \A d \in Dests : pc[d] = "ended"

VerdictOf(failed) ==
    IF failed THEN "raised" ELSE IF cancelled THEN "cancelled" ELSE "returned"

\* The finalisation, which starts the grace timer, and _apply_fan_out_result.
Conclude ==
    /\ coord = "submit"
    /\ AllDrained
    /\ timers' = IF spec.kind \in Pooled THEN timers \cup {job} ELSE timers
    /\ verdict' = VerdictOf(\E d \in Dests : state[d] = "failed")
    /\ coord' = "idle"
    /\ UNCHANGED <<job, spec, straggler, next, cancelled, active, addr,
                   pc, state, sharedVars, beltVars, file>>

\* The grace timer recognises its result by id() alone.
IsTarget(n) == active # 0 /\ addr[active] = addr[n]

GraceTimer(n) ==
    /\ n \in timers
    /\ timers' = timers \ {n}
    /\ active' = IF IsTarget(n) THEN 0 ELSE active
    /\ UNCHANGED <<coordVars, addr, pc, state, sharedVars, beltVars, file>>

-----------------------------------------------------------------------------
(* The destination workers *)

PoolSizeUnread == spec.cap   \* mutant: 0 is taken literally

\* max_parallel: 0 means no cap.
PoolSize ==
    IF spec.kind = "adapter" THEN 1
    ELSE IF spec.cap = 0 THEN N ELSE Min({N, spec.cap})

Occupied == {d \in Dests : pc[d] \notin {"waiting", "queued", "ended"}}

SlotFree == Cardinality(Occupied) < PoolSize

\* _build_pre_replace_settings with auto-capture on, its default.  The
\* adapter fan-out never asks for it.
NeedsBelt == spec.replace /\ spec.kind \in Pooled

To(d, where) == pc' = [pc EXCEPT ![d] = where] /\ UNCHANGED state

Ends(d, outcome) ==
    /\ pc' = [pc EXCEPT ![d] = "ended"]
    /\ state' = [state EXCEPT ![d] = outcome]

\* Queued destinations start in the order they were submitted.
Begin(d) ==
    /\ pc[d] = "queued"
    /\ \A e \in 1..(d - 1) : pc[e] # "queued"
    /\ SlotFree
    /\ pc' = [pc EXCEPT ![d] = "connect"]
    /\ state' = [state EXCEPT ![d] = "running"]
    /\ UNCHANGED <<coordVars, regVars, sharedVars, beltVars, file>>

\* Connecting, resolving the input files and the destination's server id.
Connect(d) ==
    /\ pc[d] = "connect"
    /\ To(d, IF NeedsBelt THEN "belt" ELSE "engine") \/ Ends(d, "failed")
    /\ UNCHANGED <<coordVars, regVars, sharedVars, beltVars, file>>

\* _capture_pre_replace_snapshot.
EnterBelt(d) ==
    /\ pc[d] = "belt"
    /\ saved' = [saved EXCEPT ![d] = serverId]
    /\ serverId' = d
    /\ To(d, "sections")
    /\ UNCHANGED <<coordVars, regVars, payloads, tried, fetched, belt, file>>

\* Its listing of the destination's libraries is not in the try block that
\* restores serverId; run_snapshot then resets the list.
ListSections(d) ==
    /\ pc[d] = "sections"
    /\ \/ To(d, "fetch") /\ payloads' = Primed
       \/ Ends(d, "failed") /\ UNCHANGED payloads
    /\ UNCHANGED <<coordVars, regVars, serverId, beltVars, file>>

\* snapshot_library: a library that cannot be read is logged and left out; so
\* is one that was read when there is no server id to file it under.
FetchLibrary(d) ==
    /\ pc[d] = "fetch" /\ tried[d] < Libraries
    /\ tried' = [tried EXCEPT ![d] = @ + 1]
    /\ \/ To(d, "fetch") /\ UNCHANGED fetched
       \/ /\ fetched' = [fetched EXCEPT ![d] = @ \cup {tried'[d]}]
          /\ To(d, IF serverId = NoServer THEN "fetch" ELSE "append")
    /\ UNCHANGED <<coordVars, regVars, sharedVars, saved, belt, file>>

AppendLibrary(d) ==
    /\ pc[d] = "append"
    /\ payloads' = payloads \cup {<<job, d, tried[d]>>}
    /\ To(d, "fetch")
    /\ UNCHANGED <<coordVars, regVars, serverId, beltVars, file>>

\* _capture_snapshot_after_run: built from whatever the list holds.
CaptureBelt(d) ==
    /\ pc[d] = "fetch" /\ tried[d] = Libraries
    /\ belt' = [belt EXCEPT ![d] = payloads]
    /\ To(d, "leave")
    /\ UNCHANGED <<coordVars, regVars, sharedVars, saved, tried, fetched, file>>

BeltRegistered(d) == belt[d] # {}

\* The finally block, and the refusal to go on without a belt.
LeaveBelt(d) ==
    /\ pc[d] = "leave"
    /\ serverId' = saved[d]
    /\ IF BeltRegistered(d) THEN To(d, "engine") ELSE Ends(d, "failed")
    /\ UNCHANGED <<coordVars, regVars, payloads, beltVars, file>>

\* The Plex-native engines reset the list too; the adapter one appends the
\* source's libraries to it.
StartEngine(d) ==
    /\ pc[d] = "engine"
    /\ payloads' = IF spec.kind = "adapter"
                   THEN payloads \cup {<<job, Elsewhere, l>> : l \in 1..Libraries}
                   ELSE Primed
    /\ To(d, "transfer")
    /\ UNCHANGED <<coordVars, regVars, serverId, beltVars, file>>

Outcome == IF straggler /\ spec.kind # "adapter" THEN "cancelled" ELSE "completed"

EndEngine(d) ==
    /\ pc[d] = "transfer"
    /\ Ends(d, Outcome) \/ Ends(d, "failed")
    /\ UNCHANGED <<coordVars, regVars, sharedVars, beltVars, file>>

-----------------------------------------------------------------------------
Worker == StartJob \/ SnapshotJob \/ CreateResult \/ ConnectSource \/ SubmitNext \/ Conclude

Destination(d) ==
    \/ Begin(d) \/ Connect(d)
    \/ EnterBelt(d) \/ ListSections(d) \/ FetchLibrary(d) \/ AppendLibrary(d)
    \/ CaptureBelt(d) \/ LeaveBelt(d)
    \/ StartEngine(d) \/ EndEngine(d)

Next ==
    \/ Worker
    \/ \E d \in Dests : Destination(d)
    \/ \E n \in JobNumbers : GraceTimer(n)

\* Threads are scheduled, HTTP calls time out, timers fire; only the arrival
\* of the next job is nobody's duty.
Fairness ==
    /\ WF_vars(SnapshotJob \/ CreateResult \/ ConnectSource \/ SubmitNext \/ Conclude)
    /\ \A d \in Dests : WF_vars(Destination(d))
    /\ \A n \in JobNumbers : WF_vars(GraceTimer(n))

Spec == Init /\ [][Next]_vars /\ Fairness

-----------------------------------------------------------------------------
(* Properties *)

\* A fan-out job that returns normally, and so is recorded completed, reached
\* every destination, and was the last to touch each of them
\* (coordinator.py, _apply_fan_out_result).
ReturnedMeansEverywhere ==
    (coord = "idle" /\ verdict = "returned" /\ spec.kind \notin Snapshots) =>
        \A d \in Dests : state[d] = "completed" /\ pc[d] = "ended"

\* A Plex-native Replace never starts on a destination without a belt, and
\* with one destination at a time the belt is exactly what was read from it,
\* whatever earlier jobs left in the shared list.
SerialBeltIsOwn ==
    \A d \in Dests :
        (NeedsBelt /\ pc[d] \in {"engine", "transfer"}) =>
            /\ belt[d] # {}
            /\ PoolSize = 1 => belt[d] = {<<job, d, l>> : l \in fetched[d]}

\* The WebSocket broadcaster never shows an earlier fan-out during a job:
\* the registry names the current fan-out or nothing.
NoStaleFanOut ==
    active \in {0, job} /\ (coord = "snapshot" => active = 0)

\* Every destination that is submitted to the pool ends, whatever happens to
\* its siblings, and the job with it.
EveryDestinationEnds ==
    /\ \A d \in Dests : pc[d] = "queued" ~> pc[d] = "ended"
    /\ coord = "submit" ~> coord = "idle"

===============================================================================
