---------------------------- MODULE ServerMirror -----------------------------
(* The metadata mirror of one media server: walkers that probe a section,   *)
(* claim it, read its items and apply them; the write-through of a snapshot;*)
(* the operator's invalidation and mode; and the server's own edits.        *)
(* Sources: services/mirror_sync/server_mirror.py, writethrough.py,         *)
(* services/adapters/plex.py, _mirror_resolve.py,                           *)
(* server/routers/server_mirror.py.                                         *)
EXTENDS Integers, FiniteSets, FiniteSetsExt

CONSTANTS
    Sections, Keys,
    Home,           \* Home[k]: the section of the item k
    Live0,          \* the items the server starts with
    Operators,      \* walkers started from the API (one at a time)
    Warmers,        \* resolver threads that warm an empty mirror
    Margin,         \* seconds taken off the watermark for a delta (5 in the code)
    Tolerance,      \* seconds two update times may differ and be equal (1)
    WriteThroughAlways, \* engine_mirror_always_live_writethrough
    MaxClock,       \* bound: seconds
    MaxFaults,      \* bound: failed walks
    MaxEvents       \* bound: snapshots, invalidations and mode changes

ASSUME MirrorAssumption ==
    /\ IsFiniteSet(Keys) /\ Home \in [Keys -> Sections] /\ Live0 \in [Keys -> Nat]
    /\ Operators \cap Warmers = {}
    /\ Margin \in Nat \ {0} /\ Tolerance \in Nat

Walkers == Operators \cup Warmers
Modes == {"default", "auto", "always-live"}
None == [size |-> 0, at |-> 0, known |-> FALSE]

VARIABLES
    clock,
    live,       \* live[k]: when the item was saved last, 0 when it is not there
    updated,    \* updated[s]: updatedAt of the section
    rows,       \* rows[k]: the live_updated_at of the mirror's row, 0 for no row
    state,      \* mirror_library_sections: size and watermark of the last sync
    pin,        \* mode_override
    media,      \* media.db: what the last snapshots saw of each item
    building,   \* _BUILD_EVENTS: the sections being synced, and by whom
    walker,     \* what each walker is doing
    faults, happened,
    excused     \* history: sections spoilt since they were last fully applied

vars == <<clock, live, updated, rows, state, pin, media, building, walker,
          faults, happened, excused>>

Here(s) == {k \in Keys : Home[k] = s}
Present(s) == {k \in Here(s) : live[k] > 0}

(* What iter_sections_for_mirror reports: size and update time.             *)
Info(s) == [size |-> Cardinality(Present(s)), at |-> updated[s], known |-> TRUE]

Idle == [pc |-> "idle", force |-> FALSE, left |-> {}, info |-> [s \in Sections |-> None],
         sec |-> CHOOSE s \in Sections : TRUE, full |-> FALSE, since |-> 0,
         got |-> [k \in Keys |-> 0], blank |-> FALSE]

Init ==
    /\ clock = 1
    /\ live = Live0 /\ updated = [s \in Sections |-> 1]
    /\ rows = [k \in Keys |-> 0] /\ state = [s \in Sections |-> None]
    /\ pin = "default" /\ media = [k \in Keys |-> 0]
    /\ building = [s \in Sections |-> {}]
    /\ walker = [w \in Walkers |-> Idle]
    /\ faults = 0 /\ happened = 0
    /\ excused = {}

-----------------------------------------------------------------------------
(* The media server and the clock.                                          *)

Tick ==
    /\ clock < MaxClock /\ clock' = clock + 1
    /\ UNCHANGED <<live, updated, rows, state, pin, media, building, walker,
                   faults, happened, excused>>

(* An item is added, edited or deleted.  A deletion need not touch the      *)
(* update time of the section.                                              *)
Edit(k) ==
    /\ \/ /\ live[k] # clock
          /\ live' = [live EXCEPT ![k] = clock]
          /\ updated' = [updated EXCEPT ![Home[k]] = clock]
       \/ live[k] > 0 /\ live' = [live EXCEPT ![k] = 0] /\ UNCHANGED updated
    /\ UNCHANGED <<clock, rows, state, pin, media, building, walker, faults,
                   happened, excused>>

-----------------------------------------------------------------------------
(* Walkers.                                                                 *)

Begin(w, force) ==
    walker' = [walker EXCEPT ![w] = [Idle EXCEPT !.pc = "next", !.force = force,
                  !.left = Sections, !.info = [s \in Sections |-> Info(s)]]]

(* POST /api/server-mirror/sync: the row of the server is written before the *)
(* one-walker rule is looked at, and writing it clears the mode.            *)
OperatorSync(w) ==
    /\ walker[w].pc = "idle" /\ happened < MaxEvents /\ happened' = happened + 1
    /\ pin' = "default"
    /\ IF \E v \in Operators : walker[v].pc # "idle" THEN UNCHANGED walker
       ELSE Begin(w, TRUE)
    /\ UNCHANGED <<clock, live, updated, rows, state, media, building, faults, excused>>

(* _ensure_mirror_warmed_for: any resolver that finds the mirror empty.     *)
Warm(w) ==
    /\ walker[w].pc = "idle" /\ \A k \in Keys : rows[k] = 0
    /\ pin = "always-live" => WriteThroughAlways
    /\ happened < MaxEvents /\ happened' = happened + 1
    /\ pin' = "default" /\ Begin(w, FALSE)
    /\ UNCHANGED <<clock, live, updated, rows, state, media, building, faults, excused>>

Go(w, at) == walker' = [walker EXCEPT ![w].pc = at]

(* A walker between two sections keeps the list and what is left of it.     *)
Between(w) == [Idle EXCEPT !.pc = "next", !.force = walker[w].force,
                  !.left = walker[w].left, !.info = walker[w].info]

Differ(a, b) ==
    IF a = 0 \/ b = 0 THEN a # b ELSE a - b > Tolerance \/ b - a > Tolerance

Drifted(s, info) == info.size # state[s].size \/ Differ(info.at, state[s].at)

(* Mutant: a delta starts at the watermark itself.                          *)
DeltaSinceExact(s) == state[s].at

DeltaSince(s) == IF state[s].at > Margin THEN state[s].at - Margin ELSE 0

(* Probe the next section and choose: a full sync by force, by age (the     *)
(* clock of the age is not modelled) or for want of a watermark; a delta    *)
(* when it drifted; nothing when it is fresh.                               *)
Probe(w) ==
    /\ walker[w].pc = "next"
    /\ \E s \in walker[w].left, stale \in BOOLEAN :
          LET full == walker[w].force \/ stale \/ ~state[s].known
              drift == Drifted(s, walker[w].info[s])
              step == [walker[w] EXCEPT !.left = @ \ {s}, !.sec = s]
          IN walker' = [walker EXCEPT ![w] =
                IF full \/ (drift /\ state[s].at = 0)
                THEN [step EXCEPT !.pc = "claim", !.full = TRUE, !.since = 0]
                ELSE IF drift
                THEN [step EXCEPT !.pc = "claim", !.full = FALSE, !.since = DeltaSince(s)]
                ELSE step]
    /\ UNCHANGED <<clock, live, updated, rows, state, pin, media, building,
                   faults, happened, excused>>

(* The claimant syncs; another waits for it, 120 seconds at most.           *)
Claim(w) ==
    /\ walker[w].pc = "claim"
    /\ \/ /\ building[walker[w].sec] = {}
          /\ building' = [building EXCEPT ![walker[w].sec] = {w}] /\ Go(w, "walk")
       \/ /\ building[walker[w].sec] # {}
          /\ Go(w, "wait") /\ UNCHANGED building
    /\ UNCHANGED <<clock, live, updated, rows, state, pin, media, faults,
                   happened, excused>>

Awake(w) ==
    /\ walker[w].pc = "wait" /\ walker' = [walker EXCEPT ![w] = Between(w)]
    /\ UNCHANGED <<clock, live, updated, rows, state, pin, media, building,
                   faults, happened, excused>>

Listed(s, since) == [k \in Keys |-> IF Home[k] = s /\ live[k] > since THEN live[k] ELSE 0]

(* Read the items.  A walk that fails inside the Plex provider yields no    *)
(* item and raises nothing; one that fails outside it ends the sync.        *)
Walk(w) ==
    /\ walker[w].pc = "walk"
    /\ \/ /\ walker' = [walker EXCEPT ![w].pc = "apply", ![w].blank = FALSE,
                          ![w].got = Listed(walker[w].sec, walker[w].since)]
          /\ UNCHANGED faults
       \/ /\ faults < MaxFaults /\ faults' = faults + 1
          /\ walker' = [walker EXCEPT ![w].pc = "apply", ![w].blank = TRUE,
                          ![w].got = [k \in Keys |-> 0]]
       \/ /\ faults < MaxFaults /\ faults' = faults + 1
          /\ Go(w, "release")
    /\ UNCHANGED <<clock, live, updated, rows, state, pin, media, building,
                   happened, excused>>

(* The rows after the transaction: a full sync also drops what it did not   *)
(* see.                                                                     *)
Applied(w) ==
    [k \in Keys |->
        IF walker[w].got[k] > 0 THEN walker[w].got[k]
        ELSE IF walker[w].full /\ Home[k] = walker[w].sec THEN 0 ELSE rows[k]]

Apply(w) ==
    /\ walker[w].pc = "apply"
    /\ \/ /\ rows' = Applied(w) /\ Go(w, "stamp")
          /\ excused' = IF walker[w].blank THEN excused \cup {walker[w].sec}
                        ELSE IF walker[w].full THEN excused \ {walker[w].sec} ELSE excused
          /\ UNCHANGED faults
       \/ /\ faults < MaxFaults /\ faults' = faults + 1
          /\ Go(w, "release") /\ UNCHANGED <<rows, excused>>
    /\ UNCHANGED <<clock, live, updated, state, pin, media, building, happened>>

(* A statement of its own: the section's size and update time as they were  *)
(* when the sections were listed.                                           *)
Stamp(w) ==
    /\ walker[w].pc = "stamp"
    /\ state' = [state EXCEPT ![walker[w].sec] = walker[w].info[walker[w].sec]]
    /\ Go(w, "release")
    /\ UNCHANGED <<clock, live, updated, rows, pin, media, building, faults,
                   happened, excused>>

(* Mutant: a walk that failed does not give its claim back.                 *)
ReleaseOnSuccess(w) ==
    /\ walker[w].pc = "release" /\ walker' = [walker EXCEPT ![w] = Between(w)]
    /\ building' = IF walker[w].got = [k \in Keys |-> 0] THEN building
                   ELSE [building EXCEPT ![walker[w].sec] = {}]
    /\ UNCHANGED <<clock, live, updated, rows, state, pin, media, faults,
                   happened, excused>>

(* The finally clause.                                                      *)
Release(w) ==
    /\ walker[w].pc = "release"
    /\ walker' = [walker EXCEPT ![w] = Between(w)]
    /\ building' = [building EXCEPT ![walker[w].sec] = {}]
    /\ UNCHANGED <<clock, live, updated, rows, state, pin, media, faults,
                   happened, excused>>

EndWalk(w) ==
    /\ walker[w].pc = "next" /\ walker[w].left = {}
    /\ walker' = [walker EXCEPT ![w] = Idle]
    /\ UNCHANGED <<clock, live, updated, rows, state, pin, media, building,
                   faults, happened, excused>>

-----------------------------------------------------------------------------
(* Snapshots and the operator.                                              *)

Event == happened < MaxEvents /\ happened' = happened + 1

(* A snapshot has read the server into media.db; a deleted item stays there.*)
Snapshot ==
    /\ Event
    /\ media' = [k \in Keys |-> IF live[k] > 0 THEN live[k] ELSE media[k]]
    /\ UNCHANGED <<clock, live, updated, rows, state, pin, building, walker,
                   faults, excused>>

Known(s) == \E k \in Here(s) : media[k] > 0

(* after_snapshot: the rows of media.db go over those of the mirror.  A     *)
(* section without a state gets one without size and watermark.             *)
WriteThrough ==
    /\ Event /\ \E k \in Keys : media[k] > 0
    /\ pin' = "default"
    /\ rows' = [k \in Keys |-> IF media[k] > 0 THEN media[k] ELSE rows[k]]
    /\ state' = [s \in Sections |->
                    IF Known(s) THEN [state[s] EXCEPT !.known = TRUE] ELSE state[s]]
    /\ excused' = excused \cup {s \in Sections : Known(s)}
    /\ UNCHANGED <<clock, live, updated, media, building, walker, faults>>

(* A delta whose start has been computed from a watermark, and not claimed. *)
Decided(s) == \E w \in Walkers :
    walker[w].pc = "claim" /\ walker[w].sec = s /\ ~walker[w].full

(* invalidate_mirror(server_id): rows, sections and the server's own row.   *)
Invalidate ==
    /\ Event
    /\ rows' = [k \in Keys |-> 0] /\ state' = [s \in Sections |-> None]
    /\ pin' = "default"
    /\ excused' = {s \in Sections : building[s] # {} \/ Decided(s)}
    /\ UNCHANGED <<clock, live, updated, media, building, walker, faults>>

SetMode(m) ==
    /\ Event /\ pin # m /\ pin' = m
    /\ UNCHANGED <<clock, live, updated, rows, state, media, building, walker,
                   faults, excused>>

-----------------------------------------------------------------------------
WalkerStep(w) ==
    \/ Probe(w) \/ Claim(w) \/ Awake(w) \/ Walk(w) \/ Apply(w) \/ Stamp(w)
    \/ Release(w) \/ EndWalk(w)

Next ==
    \/ Tick \/ Snapshot \/ WriteThrough \/ Invalidate
    \/ \E k \in Keys : Edit(k)
    \/ \E m \in Modes : SetMode(m)
    \/ \E w \in Operators : OperatorSync(w)
    \/ \E w \in Warmers : Warm(w)
    \/ \E w \in Walkers : WalkerStep(w)

(* A walker's thread keeps running.                                         *)
Spec == Init /\ [][Next]_vars /\ \A w \in Walkers : WF_vars(WalkerStep(w))

-----------------------------------------------------------------------------
(* The watermark of a section is a promise: the mirror has every item saved *)
(* before it, as it is now.  Excused are the sections that a failed walk, a *)
(* write-through or an invalidation has spoilt, the last under a sync that  *)
(* runs or under a delta already decided, until they are fully synced       *)
(* (server_mirror.py:733).                                                  *)
WatermarkCovers ==
    \A s \in Sections \ excused :
        \A k \in Present(s) : live[k] < state[s].at => rows[k] = live[k]

(* A claim is given back, even when the walk fails: otherwise every later   *)
(* sync of the section would only wait.                                     *)
ClaimsEnd == \A s \in Sections : building[s] # {} ~> building[s] = {}

=============================================================================
