----------------------------- MODULE SyncWorker -----------------------------
(***************************************************************************)
(* The mirror-sync worker (services/mirror_sync/sync_worker.py) on one     *)
(* watch-count subscription: the worker's own cycles, the cycles an        *)
(* operator starts with "Run now" on a thread of their own, the row of the *)
(* subscription they all stamp, and the view counts of the two servers,    *)
(* which the users change at any time.                                     *)
(*                                                                         *)
(* A pair is one matched item of one matched user.  Every HTTP request to  *)
(* a server is one step and may fail; nothing is locked between the read   *)
(* of a pair and the requests that bring it to its target.                 *)
(***************************************************************************)
EXTENDS Naturals, Sequences, FiniteSets, SequencesExt, Functions

CONSTANTS
    Pairs,        \* matched (item, user) pairs, in the order a cycle takes them
    Kind,         \* [Sides -> {"plex", "je"}]: the backend of each side
    Configs,      \* settings the operator may give the subscription
    MaxPairsPerCycle, \* _MAX_PAIRS_PER_CYCLE
    MaxPlays, MaxErrors, MaxEdits, MaxRunNow, MaxCrashes, \* bounds of the environment,
    MaxEvents     \* and of all of its events together

Sides == {"src", "dst"}
Runners == {"worker", "runnow"}

ASSUME SyncAssumption ==
    /\ Pairs \in Seq(STRING)
    /\ Kind \in [Sides -> {"plex", "je"}]
    /\ Configs \subseteq [enabled : BOOLEAN, dryRun : BOOLEAN, bidirectional : BOOLEAN,
                          policy : {"max", "sum", "latest_wins", "source_of_truth"}]
    /\ MaxPairsPerCycle \in Nat \ {0}

VARIABLES
    sub,    \* the row of library_pair_sync_subscriptions
    due,    \* its poll interval has elapsed since last_polled_at
    count,  \* count[pair][side]: the view count the server holds
    newest, \* newest[pair]: the side last viewed, "none" when one side cannot tell
    cycle,  \* cycle[runner]: a reconcile in progress
    spent   \* how much of each bound the environment has used

syncVars == <<sub, due, count, newest, cycle, spent>>

PairSet == ToSet(Pairs)
Reached == {Pairs[i] : i \in {j \in DOMAIN Pairs : j <= MaxPairsPerCycle}}

Idle == [pc |-> "idle", id |-> 0, sub |-> CHOOSE c \in Configs : TRUE,
         at |-> 0, todo |-> <<>>, wrote |-> FALSE, error |-> FALSE]

(* A request still to be sent: unscrobble (count to 0), scrobble (one more)*)
(* or an exact count.                                                      *)
Request == [side : Sides, op : {"unscrobble", "scrobble", "exact"}, n : Nat]

SyncInit ==
    /\ sub \in [id : {1}, config : Configs, exists : {TRUE}, synced : {FALSE},
                status : {"none"}, lastGood : {FALSE}]
    /\ due = TRUE
    /\ count = [p \in PairSet |-> [side \in Sides |-> 0]]
    /\ newest = [p \in PairSet |-> "none"]
    /\ cycle = [r \in Runners |-> Idle]
    /\ spent = [k \in {"plays", "faults", "edits", "runs", "crashes"} |-> 0]

Spend(kind, max) == /\ spent[kind] < max
                    /\ SumFunction(spent) < MaxEvents
                    /\ spent' = [spent EXCEPT ![kind] = @ + 1]

-----------------------------------------------------------------------------
(* Targets and the requests that reach them                                *)

Larger(a, b) == IF a >= b THEN a ELSE b

(* Mutant: the lower of the two counts wins.                                *)
ComputeTargetMin(s, d, policy, who) ==
    CASE policy = "sum" -> s + d
      [] policy = "source_of_truth" -> s
      [] policy = "latest_wins" /\ who = "src" -> s
      [] policy = "latest_wins" /\ who = "dst" -> d
      [] OTHER -> IF s <= d THEN s ELSE d

(* _compute_target.                                                        *)
ComputeTarget(s, d, policy, who) ==
    CASE policy = "sum" -> s + d
      [] policy = "source_of_truth" -> s
      [] policy = "latest_wins" /\ who = "src" -> s
      [] policy = "latest_wins" /\ who = "dst" -> d
      [] OTHER -> Larger(s, d)

(* What get_view_state answers: Plex reads the count, or None when the     *)
(* request fails; Jellyfin and Emby inherit the default, which is always   *)
(* None.  The worker takes None for 0 views and no time.                   *)
Readings(p, side) ==
    IF Kind[side] = "plex"
    THEN {[n |-> count[p][side], ok |-> TRUE]} \cup {[n |-> 0, ok |-> FALSE]}
    ELSE {[n |-> 0, ok |-> FALSE]}

(* set_watched in its exact-target mode: Plex only knows "one more" and    *)
(* "back to zero", so the requests are computed from the count that was    *)
(* read; Jellyfin and Emby set the count in one request.                   *)
RequestsFor(side, current, want) ==
    LET Scrobbles(n) == [i \in 1 .. n |-> [side |-> side, op |-> "scrobble", n |-> 1]]
        Unscrobble == <<[side |-> side, op |-> "unscrobble", n |-> 0]>>
    IN CASE Kind[side] = "je" -> <<[side |-> side, op |-> "exact", n |-> want]>>
         [] Kind[side] = "plex" /\ want > current -> Scrobbles(want - current)
         [] OTHER -> Unscrobble \o Scrobbles(want)

(* Mutant: the source is never brought to the target.                       *)
SideRequestsDestOnly(s, d, target, bidirectional) ==
    IF d # target THEN RequestsFor("dst", d, target) ELSE <<>>

(* The sides that differ from the target: the destination, and the source  *)
(* when the subscription is bidirectional.                                 *)
SideRequests(s, d, target, bidirectional) ==
    (IF d # target THEN RequestsFor("dst", d, target) ELSE <<>>)
    \o (IF bidirectional /\ s # target THEN RequestsFor("src", s, target) ELSE <<>>)

-----------------------------------------------------------------------------
(* A cycle                                                                 *)

Started(row) == [Idle EXCEPT !.pc = "connect", !.id = row.id, !.sub = row.config]

(* _tick: list_subscriptions(enabled_only=True), then the due ones.        *)
Tick ==
    /\ cycle["worker"].pc = "idle"
    /\ sub.exists /\ sub.config.enabled /\ due
    /\ cycle' = [cycle EXCEPT !["worker"] = Started(sub)]
    /\ UNCHANGED <<sub, due, count, newest, spent>>

(* POST /api/sync/subscriptions/{id}/run: the row read now, reconciled on  *)
(* a background task whatever the worker is doing and whether or not the   *)
(* subscription is enabled.                                                *)
RunNow ==
    /\ cycle["runnow"].pc = "idle" /\ sub.exists
    /\ Spend("runs", MaxRunNow)
    /\ cycle' = [cycle EXCEPT !["runnow"] = Started(sub)]
    /\ UNCHANGED <<sub, due, count, newest>>

(* Both adapters connect, or the cycle ends with an error in its status.   *)
Connect(r) ==
    /\ cycle[r].pc = "connect"
    /\ \/ /\ cycle' = [cycle EXCEPT ![r].pc = "pair", ![r].at = 1]
          /\ UNCHANGED spent
       \/ /\ Spend("faults", MaxErrors)
          /\ cycle' = [cycle EXCEPT ![r].pc = "stamp", ![r].error = TRUE]
    /\ UNCHANGED <<sub, due, count, newest>>

(* One pair: both view states are read and the requests computed.  In a    *)
(* dry run they are only logged.  A failed read is not an exception: it    *)
(* reads as no views.                                                      *)
ReadPair(r) ==
    LET c == cycle[r] IN
    /\ c.pc = "pair" /\ c.at \in DOMAIN Pairs /\ c.at <= MaxPairsPerCycle
    /\ \E s \in Readings(Pairs[c.at], "src"), d \in Readings(Pairs[c.at], "dst") :
          LET fault == \E x \in {<<"src", s>>, <<"dst", d>>} :
                          Kind[x[1]] = "plex" /\ ~x[2].ok
              who == IF s.ok /\ d.ok THEN newest[Pairs[c.at]] ELSE "none"
              todo == SideRequests(s.n, d.n, ComputeTarget(s.n, d.n, c.sub.policy, who),
                                   c.sub.bidirectional)
          IN /\ IF fault THEN Spend("faults", MaxErrors) ELSE UNCHANGED spent
             /\ cycle' = IF todo = <<>> \/ c.sub.dryRun
                         THEN [cycle EXCEPT ![r].at = @ + 1]
                         ELSE [cycle EXCEPT ![r].pc = "write", ![r].todo = todo]
    /\ UNCHANGED <<sub, due, count, newest>>

Applied(n, q) == CASE q.op = "scrobble" -> n + 1
                   [] q.op = "unscrobble" -> 0
                   [] OTHER -> q.n

(* A scrobble stamps the item as viewed now; an unscrobble clears the      *)
(* stamp; an exact count carries no date.                                  *)
NewestAfter(p, q) == CASE q.op = "scrobble" -> q.side
                       [] q.op = "unscrobble" -> "none"
                       [] OTHER -> newest[p]

(* The requests left when one to a side failed: those of that side stand   *)
(* together in front, and none of them is sent any more.                   *)
DropSide(todo, side) ==
    SubSeq(todo, 1 + Cardinality({i \in DOMAIN todo : todo[i].side = side}), Len(todo))

NextPair(c, todo, wrote) ==
    [c EXCEPT !.todo = todo, !.wrote = @ \/ wrote,
              !.pc = IF todo = <<>> THEN "pair" ELSE "write",
              !.at = IF todo = <<>> THEN @ + 1 ELSE @]

(* One request of set_watched.  When it fails the rest of that side's      *)
(* requests are not sent, what was sent stays, and the row written to      *)
(* sync_writes says issued = 0.                                            *)
SendRequest(r) ==
    LET c == cycle[r]
        p == Pairs[c.at]
        q == Head(c.todo)
    IN /\ c.pc = "write"
       /\ \/ LET last == \A x \in ToSet(Tail(c.todo)) : x.side # q.side
             IN /\ count' = [count EXCEPT ![p][q.side] = Applied(@, q)]
                /\ newest' = [newest EXCEPT ![p] = NewestAfter(p, q)]
                /\ cycle' = [cycle EXCEPT ![r] = NextPair(c, Tail(c.todo), last)]
                /\ UNCHANGED spent
          \/ /\ Spend("faults", MaxErrors)
             /\ cycle' = [cycle EXCEPT ![r] = NextPair(c, DropSide(c.todo, q.side), FALSE)]
             /\ UNCHANGED <<count, newest>>
       /\ UNCHANGED <<sub, due>>

LastPair(r) ==
    /\ cycle[r].pc = "pair"
    /\ cycle[r].at > Len(Pairs) \/ cycle[r].at > MaxPairsPerCycle
    /\ cycle' = [cycle EXCEPT ![r].pc = "stamp"]
    /\ UNCHANGED <<sub, due, count, newest, spent>>

(* stamp_polled: last_polled_at always, last_synced_at when a write went   *)
(* out.  An error keeps the status it replaces under last_good when that   *)
(* one was not itself an error.                                            *)
StampPolled(r) ==
    LET c == cycle[r]
        stored == sub.exists /\ sub.id = c.id
    IN
    /\ c.pc = "stamp"
    /\ sub' = IF ~stored THEN sub
              ELSE [sub EXCEPT !.synced = @ \/ c.wrote,
                               !.status = IF c.error THEN "error" ELSE "good",
                               !.lastGood = c.error /\ sub.status = "good"]
    /\ due' = (due /\ ~stored)
    /\ cycle' = [cycle EXCEPT ![r] = Idle]
    /\ UNCHANGED <<count, newest, spent>>

Cycle(r) == Connect(r) \/ ReadPair(r) \/ SendRequest(r) \/ LastPair(r) \/ StampPolled(r)

-----------------------------------------------------------------------------
(* The environment                                                         *)

IntervalElapses ==
    /\ ~due
    /\ due' = TRUE
    /\ UNCHANGED <<sub, count, newest, cycle, spent>>

(* A user views the item on one of the servers.                            *)
Play(p, side) ==
    /\ Spend("plays", MaxPlays)
    /\ count' = [count EXCEPT ![p][side] = @ + 1]
    /\ newest' = [newest EXCEPT ![p] = side]
    /\ UNCHANGED <<sub, due, cycle>>

(* PUT /api/sync/subscriptions: upsert of the same key updates the row; a  *)
(* deleted one is inserted anew, never polled.                             *)
Upsert(c) ==
    /\ Spend("edits", MaxEdits)
    /\ sub' = IF sub.exists THEN [sub EXCEPT !.config = c]
              ELSE [id |-> sub.id + 1, config |-> c, exists |-> TRUE, synced |-> FALSE,
                    status |-> "none", lastGood |-> FALSE]
    /\ due' = (due \/ ~sub.exists)
    /\ UNCHANGED <<count, newest, cycle>>

DeleteSubscription ==
    /\ sub.exists
    /\ Spend("edits", MaxEdits)
    /\ sub' = [sub EXCEPT !.exists = FALSE]
    /\ UNCHANGED <<due, count, newest, cycle>>

(* The process ends and starts again: the threads are daemons, the row is  *)
(* what was last stamped, so a cycle cut short is due again.               *)
Crash ==
    /\ Spend("crashes", MaxCrashes)
    /\ cycle' = [r \in Runners |-> Idle]
    /\ UNCHANGED <<sub, due, count, newest>>

SyncNext ==
    \/ Tick \/ RunNow
    \/ \E r \in Runners : Cycle(r)
    \/ IntervalElapses
    \/ \E p \in PairSet, side \in Sides : Play(p, side)
    \/ \E c \in Configs : Upsert(c)
    \/ DeleteSubscription
    \/ Crash

(* The worker's loop and a background task keep running; time passes.      *)
SyncFairness == /\ WF_syncVars(Tick)
                /\ WF_syncVars(IntervalElapses)
                /\ \A r \in Runners : WF_syncVars(Cycle(r))

SyncSpec == SyncInit /\ [][SyncNext]_syncVars /\ SyncFairness

-----------------------------------------------------------------------------
(* Properties                                                              *)

(* Under the policy max no request of a cycle lowers a Plex count: not     *)
(* when a read failed, not when the user played between the read and the   *)
(* request, not when two cycles work on the same pair                      *)
(* (_compute_target, "max - never lose a play").                           *)
MaxKeepsPlays ==
    [][\A r \in Runners, p \in PairSet, side \in Sides :
          (SendRequest(r) /\ cycle[r].sub.policy = "max" /\ Kind[side] = "plex")
              => count'[p][side] >= count[p][side]]_syncVars

(* Once the subscription stays enabled, real and unchanged, every pair     *)
(* that a cycle reaches ends, for good, where its policy says: whatever    *)
(* plays, failed requests, crashes and concurrent cycles came before       *)
(* (_tick, _reconcile_one_pair_watch).                                     *)
Settled(p) ==
    LET s == count[p]["src"]  d == count[p]["dst"]  c == sub.config
    IN IF c.policy = "source_of_truth" \/ c.bidirectional THEN d = s
       ELSE IF c.policy = "max" THEN d >= s
       ELSE newest[p] = "src" => d = s

Settles == (<>[](sub.exists /\ sub.config.enabled /\ ~sub.config.dryRun))
              => <>[](\A p \in Reached : Settled(p))

=============================================================================
