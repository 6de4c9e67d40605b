---------------------------- MODULE PlaylistBatch ----------------------------
(* A batch of playlist copies: the job that runs it, the pool and the       *)
(* per-source slots it runs under, the Stop of the job and the cancel of    *)
(* one item, and the copy itself with all its checkpoints.  The mirror-sync *)
(* worker runs the same copy, in merge mode, beside the batch.              *)
(* Sources: server/jobs.py, services/playlist_copy/adapter/copy.py,         *)
(* batch_runner.py, services/mirror_sync/sync_worker.py.                    *)
EXTENDS Naturals, FiniteSets, FiniteSetsExt, Functions

CONSTANTS
    Batch,          \* the indices of the batch's items
    Syncs,          \* the playlists a sync subscription has selected
    Source,         \* Source[c]: the server the copy c reads
    Key,            \* Key[c]: the destination, user and title it writes
    Members,        \* Members[c]: the items of the source playlist
    Known,          \* the items the destination can resolve
    Kinds,          \* what the copies may be: Copies -> "static", "smart", "same user"
    Workers,        \* playlist_mgmt_batch_workers
    Depth,          \* playlist_mgmt_batch_per_source_workers
    MaxFaults,      \* bound: failed calls
    MaxCycles       \* bound: sync copies started

ASSUME BatchAssumption ==
    /\ Batch \subseteq Nat /\ IsFiniteSet(Batch) /\ Batch \cap Syncs = {}
    /\ Workers \in Nat \ {0} /\ Depth \in Nat \ {0}

Copies == Batch \cup Syncs

VARIABLES
    kind,       \* kind[c]: a static or smart playlist, or one copied onto its own user
    phase,      \* the batch job: "promoted", "running", "ended"
    stopped,    \* the job's _stop_event
    events,     \* _per_item_cancel_events: item -> is it set
    forwarder,  \* the thread that hands a Stop to the item's event
    pc,         \* what each copy does next
    free,       \* free slots of each source
    todo, got,  \* members not resolved yet, members resolved
    into,       \* the existing list a merge will append to, 0 for none
    lists,      \* the playlists of the destination
    result,     \* how each copy ended
    tally,      \* the summary of the ended job
    faults, cycles,
    early       \* history: items cancelled before the batch was set up

vars == <<kind, phase, stopped, events, forwarder, pc, free, todo, got, into, lists,
          result, tally, faults, cycles, early>>

Active == {"slot", "acquire", "start", "users", "resolve", "look", "check", "write", "release"}
HasSlot == Active \ {"slot", "acquire"}
Results == {"none", "ok", "skipped", "smart", "failed", "cancelled"}

(* cancel_event as the copy sees it; a sync passes none.                    *)
IsCancelled(c) == c \in DOMAIN events /\ events[c]

Init ==
    /\ kind \in Kinds
    /\ phase = "promoted" /\ stopped = FALSE /\ events = << >>
    /\ forwarder = [c \in Batch |-> "none"]
    /\ pc = [c \in Copies |-> "queued"]
    /\ free = [s \in {Source[c] : c \in Batch} |-> Depth]
    /\ todo = [c \in Copies |-> {}] /\ got = [c \in Copies |-> {}]
    /\ into = [c \in Copies |-> 0]
    /\ lists = {} /\ result = [c \in Copies |-> "none"]
    /\ tally = [r \in Results |-> 0]
    /\ faults = 0 /\ cycles = 0 /\ early = {}

-----------------------------------------------------------------------------
(* The operator.                                                            *)

Stop ==
    /\ phase \in {"promoted", "running"} /\ ~stopped
    /\ stopped' = TRUE
    /\ UNCHANGED <<kind, phase, events, forwarder, pc, free, todo, got, into, lists,
                   result, tally, faults, cycles, early>>

(* The event of the item is created here when the worker has not done so.   *)
CancelItem(c) ==
    /\ phase \in {"promoted", "running"} /\ ~IsCancelled(c)
    /\ events' = [d \in DOMAIN events \cup {c} |-> d = c \/ events[d]]
    /\ early' = IF phase = "promoted" THEN early \cup {c} ELSE early
    /\ UNCHANGED <<kind, phase, stopped, forwarder, pc, free, todo, got, into, lists,
                   result, tally, faults, cycles>>

-----------------------------------------------------------------------------
(* The job and the pool.                                                    *)

(* Every item gets an event before the pool starts; one that exists stays.  *)
Prepared == [c \in Batch |-> IsCancelled(c)]

Prepare ==
    /\ phase = "promoted"
    /\ phase' = "running" /\ events' = Prepared
    /\ UNCHANGED <<kind, stopped, forwarder, pc, free, todo, got, into, lists, result,
                   tally, faults, cycles, early>>

Goto(c, at) == pc' = [pc EXCEPT ![c] = at]

(* Mutant: a copy that raised keeps its slot.                               *)
EndCopyKeepsSlot(c, r) ==
    /\ result' = [result EXCEPT ![c] = r]
    /\ Goto(c, IF c \in Batch /\ r # "failed" THEN "release" ELSE "done")

(* The copy is over: an item of the batch still has its slot to give back.  *)
EndCopy(c, r) ==
    /\ result' = [result EXCEPT ![c] = r]
    /\ Goto(c, IF c \in Batch THEN "release" ELSE "done")

(* A pool thread takes the next item.  A Stop before that drops it.         *)
Take(c) ==
    /\ phase = "running" /\ pc[c] = "queued"
    /\ \A d \in Batch : pc[d] = "queued" => c <= d
    /\ Cardinality({d \in Batch : pc[d] \in Active}) < Workers
    /\ \/ /\ stopped
          /\ result' = [result EXCEPT ![c] = "cancelled"] /\ Goto(c, "done")
          /\ UNCHANGED forwarder
       \/ /\ ~stopped
          /\ forwarder' = [forwarder EXCEPT ![c] = "waiting"] /\ Goto(c, "slot")
          /\ UNCHANGED result
    /\ UNCHANGED <<kind, phase, stopped, events, free, todo, got, into, lists, tally,
                   faults, cycles, early>>

(* The daemon thread of an item: it hands the Stop to the item's event.     *)
Forward(c) ==
    /\ forwarder[c] = "waiting" /\ stopped
    /\ forwarder' = [forwarder EXCEPT ![c] = "ended"]
    /\ events' = [events EXCEPT ![c] = TRUE]
    /\ UNCHANGED <<kind, phase, stopped, pc, free, todo, got, into, lists, result,
                   tally, faults, cycles, early>>

(* acquire_with_cancel: look at both events, then wait a little for a slot. *)
Poll(c) ==
    /\ pc[c] = "slot"
    /\ \/ /\ stopped \/ IsCancelled(c)
          /\ result' = [result EXCEPT ![c] = "cancelled"] /\ Goto(c, "done")
       \/ /\ ~stopped /\ ~IsCancelled(c)
          /\ Goto(c, "acquire") /\ UNCHANGED result
    /\ UNCHANGED <<kind, phase, stopped, events, forwarder, free, todo, got, into,
                   lists, tally, faults, cycles, early>>

Acquire(c) ==
    /\ pc[c] = "acquire"
    /\ \/ /\ free[Source[c]] > 0
          /\ free' = [free EXCEPT ![Source[c]] = @ - 1] /\ Goto(c, "start")
       \/ /\ free[Source[c]] = 0
          /\ Goto(c, "slot") /\ UNCHANGED free
    /\ UNCHANGED <<kind, phase, stopped, events, forwarder, todo, got, into, lists,
                   result, tally, faults, cycles, early>>

(* Mutant: the slots are returned when no copy waits for one any more.      *)
ReleaseAtEnd(c) ==
    /\ pc[c] = "release" /\ \A d \in Batch : pc[d] \notin {"queued", "slot", "acquire"}
    /\ free' = [free EXCEPT ![Source[c]] = @ + 1] /\ Goto(c, "done")
    /\ UNCHANGED <<kind, phase, stopped, events, forwarder, todo, got, into, lists,
                   result, tally, faults, cycles, early>>

(* The finally clause of _run_one, on every way out of the copy.            *)
Release(c) ==
    /\ pc[c] = "release"
    /\ free' = [free EXCEPT ![Source[c]] = @ + 1] /\ Goto(c, "done")
    /\ UNCHANGED <<kind, phase, stopped, events, forwarder, todo, got, into, lists,
                   result, tally, faults, cycles, early>>

(* How the rows are counted; a smart playlist is not a failure.             *)
Counts ==
    LET Of(S) == Cardinality({c \in Batch : result[c] \in S})
    IN [r \in Results |->
          CASE r = "ok" -> Of({"ok"})
            [] r = "skipped" -> Of({"skipped", "smart"})
            [] r = "cancelled" -> Of({"cancelled"})
            [] r = "failed" -> Of({"failed"})
            [] OTHER -> 0]

EndBatch ==
    /\ phase = "running" /\ \A c \in Batch : pc[c] = "done"
    /\ phase' = "ended" /\ tally' = Counts
    /\ UNCHANGED <<kind, stopped, events, forwarder, pc, free, todo, got, into, lists,
                   result, faults, cycles, early>>

-----------------------------------------------------------------------------
(* One copy.                                                                *)

Fault == faults < MaxFaults /\ faults' = faults + 1

(* One selected playlist of a sync cycle; the sync thread runs one at once. *)
StartSync(c) ==
    /\ cycles < MaxCycles /\ cycles' = cycles + 1
    /\ pc[c] \in {"queued", "done"}
    /\ \A d \in Syncs : pc[d] \in {"queued", "done"}
    /\ Goto(c, "start") /\ result' = [result EXCEPT ![c] = "none"]
    /\ UNCHANGED <<kind, phase, stopped, events, forwarder, free, todo, got, into,
                   lists, tally, faults, early>>

(* Connect both servers and find both users.                                *)
FindUsers(c) ==
    /\ pc[c] = "start"
    /\ \/ IsCancelled(c) /\ EndCopy(c, "cancelled") /\ UNCHANGED faults
       \/ ~IsCancelled(c) /\ Fault /\ EndCopy(c, "failed")
       \/ /\ ~IsCancelled(c) /\ UNCHANGED faults
          /\ IF kind[c] = "same user" THEN EndCopy(c, "skipped")
             ELSE Goto(c, "users") /\ UNCHANGED result
    /\ UNCHANGED <<kind, phase, stopped, events, forwarder, free, todo, got, into,
                   lists, tally, cycles, early>>

Load(c) ==
    /\ pc[c] = "users"
    /\ \/ IsCancelled(c) /\ EndCopy(c, "cancelled") /\ UNCHANGED <<faults, todo, got>>
       \/ ~IsCancelled(c) /\ Fault /\ EndCopy(c, "failed") /\ UNCHANGED <<todo, got>>
       \/ /\ ~IsCancelled(c) /\ kind[c] = "smart"
          /\ EndCopy(c, "smart") /\ UNCHANGED <<faults, todo, got>>
       \/ /\ ~IsCancelled(c) /\ kind[c] # "smart"
          /\ Goto(c, IF Members[c] = {} THEN "look" ELSE "resolve")
          /\ todo' = [todo EXCEPT ![c] = Members[c]]
          /\ got' = [got EXCEPT ![c] = {}]
          /\ UNCHANGED <<faults, result>>
    /\ UNCHANGED <<kind, phase, stopped, events, forwarder, free, into, lists, tally,
                   cycles, early>>

(* A resolver thread takes a member; after a cancel it drops it silently.   *)
Resolve(c) ==
    /\ pc[c] = "resolve"
    /\ \E x \in todo[c] :
          /\ todo' = [todo EXCEPT ![c] = @ \ {x}]
          /\ Goto(c, IF todo[c] = {x} THEN "look" ELSE "resolve")
          /\ \/ /\ ~IsCancelled(c) /\ x \in Known
                /\ got' = [got EXCEPT ![c] = @ \cup {x}]
             \/ (IsCancelled(c) \/ x \notin Known) /\ UNCHANGED got
    /\ UNCHANGED <<kind, phase, stopped, events, forwarder, free, into, lists, result,
                   tally, faults, cycles, early>>

(* The lists a merge finds by title; the first of them is appended to.      *)
SameTitle(c) == IF c \in Syncs THEN {l \in lists : l.key = Key[c]} ELSE {}

(* Nothing resolved is a failure.  A merge whose listing fails creates, one *)
(* that cannot read the list found fails, and one whose members are all in  *)
(* the list already has nothing to write.                                   *)
Look(c) ==
    /\ pc[c] = "look"
    /\ \/ got[c] = {} /\ EndCopy(c, "failed") /\ UNCHANGED <<faults, into, got>>
       \/ /\ got[c] # {} /\ SameTitle(c) # {}
          /\ Fault /\ EndCopy(c, "failed") /\ UNCHANGED <<into, got>>
       \/ /\ got[c] # {} /\ Goto(c, "check")
          /\ \/ SameTitle(c) = {} /\ UNCHANGED faults
             \/ SameTitle(c) # {} /\ Fault
          /\ into' = [into EXCEPT ![c] = 0]
          /\ UNCHANGED <<result, got>>
       \/ \E l \in SameTitle(c) :
             /\ got[c] # {} /\ \A m \in SameTitle(c) : l.id <= m.id
             /\ into' = [into EXCEPT ![c] = l.id]
             /\ got' = [got EXCEPT ![c] = @ \ l.members]
             /\ IF got[c] \subseteq l.members THEN EndCopy(c, "ok")
                ELSE Goto(c, "check") /\ UNCHANGED result
             /\ UNCHANGED faults
    /\ UNCHANGED <<kind, phase, stopped, events, forwarder, free, todo, lists, tally,
                   cycles, early>>

(* Mutant: the last checkpoint before the write is missing.                 *)
CheckWriteNever(c) ==
    /\ pc[c] = "check" /\ Goto(c, "write")
    /\ UNCHANGED <<kind, phase, stopped, events, forwarder, free, todo, got, into,
                   lists, result, tally, faults, cycles, early>>

(* The last checkpoint before the destination is written.                   *)
CheckWrite(c) ==
    /\ pc[c] = "check"
    /\ \/ IsCancelled(c) /\ EndCopy(c, "cancelled")
       \/ ~IsCancelled(c) /\ Goto(c, "write") /\ UNCHANGED result
    /\ UNCHANGED <<kind, phase, stopped, events, forwarder, free, todo, got, into,
                   lists, tally, faults, cycles, early>>

Written(c) ==
    IF into[c] = 0
    THEN lists \cup {[id |-> Cardinality(lists) + 1, by |-> c, key |-> Key[c],
                      members |-> got[c]]}
    ELSE {IF l.id = into[c] THEN [l EXCEPT !.members = @ \cup got[c]] ELSE l : l \in lists}

Write(c) ==
    /\ pc[c] = "write"
    /\ \/ lists' = Written(c) /\ EndCopy(c, "ok") /\ UNCHANGED faults
       \/ Fault /\ EndCopy(c, "failed") /\ UNCHANGED lists
    /\ UNCHANGED <<kind, phase, stopped, events, forwarder, free, todo, got, into,
                   tally, cycles, early>>

-----------------------------------------------------------------------------
CopyStep(c) ==
    FindUsers(c) \/ Load(c) \/ Resolve(c) \/ Look(c) \/ CheckWrite(c) \/ Write(c)

ItemStep(c) == Take(c) \/ Forward(c) \/ Poll(c) \/ Acquire(c) \/ Release(c)

(* The job is over and no sync will start: nothing is left to do.           *)
Finished ==
    /\ phase = "ended" /\ cycles = MaxCycles
    /\ \A c \in Syncs : pc[c] = "done"
    /\ UNCHANGED vars

Next ==
    \/ Stop \/ Prepare \/ EndBatch \/ Finished
    \/ \E c \in Batch : CancelItem(c) \/ ItemStep(c)
    \/ \E c \in Syncs : StartSync(c)
    \/ \E c \in Copies : CopyStep(c)

(* Threads run; the operator and the next cycle need not come.              *)
Fairness ==
    /\ WF_vars(Prepare) /\ WF_vars(EndBatch)
    /\ \A c \in Batch : WF_vars(ItemStep(c))
    /\ \A c \in Copies : WF_vars(CopyStep(c))

Spec == Init /\ [][Next]_vars /\ Fairness

-----------------------------------------------------------------------------
(* The slots of a source are never lost and never handed out twice, however *)
(* a copy ends (jobs of later batches use the same semaphores).             *)
SlotsAccounted ==
    \A s \in DOMAIN free :
        free[s] + Cardinality({c \in Batch : Source[c] = s /\ pc[c] \in HasSlot}) = Depth

(* A cancel leaves no list or a whole one.  One that comes before the batch *)
(* has made its events is not lost, and the item writes nothing             *)
(* (jobs.py:428); a later one makes the resolver drop members silently, and *)
(* a list that is created nevertheless has every member the destination     *)
(* knows (copy.py:470).                                                     *)
NoPartialList ==
    \A l \in lists : l.by \notin early /\ Members[l.by] \cap Known \subseteq l.members

(* A batch ends, whatever is stopped, cancelled or fails.                   *)
BatchEnds == phase = "promoted" ~> phase = "ended"

=============================================================================
