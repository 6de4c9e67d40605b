---------------------------- MODULE RestoreEngine ----------------------------
(***************************************************************************)
(* The Plex restore (services/restore/plex_native): one task per library,  *)
(* in it the owner's four phases and then the managed users' side by side, *)
(* in Merge mode (only adds) or Replace mode (makes the destination equal  *)
(* to the snapshot), and after the tasks Replace's sweep of playlists.     *)
(* Every write is one call to the destination and may fail; a Stop may     *)
(* come at any time.  Rows of one phase touch different items, so that the *)
(* pool that works on them is modelled as one worker with an arbitrary     *)
(* order.  A container is a playlist or a collection.                      *)
(***************************************************************************)
EXTENDS Naturals, FiniteSets

CONSTANTS
    Users, Owner,        \* users of the destination; handles of the payload
    Libraries, LibOf,    \* LibOf[item]: its library on the destination
    Family,              \* Family[library]: video, audio or photo, also of its items
    ByPath,              \* the items that only their file path identifies
    Titles,
    Jobs,                \* the jobs and payloads to start with
    Boxes0,              \* the destination's containers before the job
    Views0, Ratings0,    \* its view counts and ratings
    Cap,                 \* state.VIEWCOUNT_INCREMENT_CAP
    MaxBoxes, MaxFaults, MaxRuns

ASSUME RestoreAssumption ==
    /\ Owner \in Users /\ Cap \in Nat \ {0} /\ ByPath \subseteq DOMAIN LibOf
    /\ \A i \in DOMAIN LibOf : LibOf[i] \in Libraries
    /\ DOMAIN Family = Libraries
    /\ {Views0, Ratings0} \subseteq [Users -> [DOMAIN LibOf -> Nat]]
    /\ \A j \in Jobs : /\ j.identity \in [Users -> Users]
                       /\ j.mixed \in [Users -> {"skip", "split", "dominant"}]
    /\ IsFiniteSet(Boxes0) /\ \A b, c \in Boxes0 : b.id = c.id => b = c
    /\ \A b \in Boxes0 : b = [id |-> b.id, kind |-> b.kind, owner |-> b.owner,
                                shelf |-> b.shelf, title |-> b.title, members |-> b.members]
                             /\ b.id \in 1 .. Cardinality(Boxes0)

Items == DOMAIN LibOf
Kinds == {"watch", "playlists", "collections", "ratings"}
Unrated == 0   \* userRating is None

VARIABLES
    job,       \* what the job restores and how; constant during the job
    views, offset, rating,   \* of each destination user and item
    boxes,     \* the containers: [id, kind, owner, shelf, title, members]; the
               \* shelf of a collection is its library, of a playlist its type
    cached,    \* scan_cache[library]: the owner's items as the task read them
    roster,    \* ids of the playlists the run fetched before it started
    lib,       \* lib[library]: its task
    phase,     \* phase[library][handle]
    todo,      \* the rows or containers left in that phase
    found,     \* found[library][handle]: the members that were resolved,
    existing,  \* and the containers that were there when the phase began
    cur,       \* the row or container being written
    sweep,     \* the playlist sweep: users left and playlists listed
    stop, faults, clean, runs,
    lastId,    \* the last id the server has given to a container
    written,   \* ids of the playlists this run created or updated
    settled    \* the destination after the first run

dest == <<views, offset, rating, boxes>>
work == <<lib, phase, todo, found, existing, cur>>
ids == <<lastId, written>>
vars == <<job, dest, cached, roster, work, sweep, stop, faults, clean, runs, ids, settled>>

NoWork == [is |-> "nothing"]
Handles == Users

Idle == [l \in Libraries |-> [h \in Handles |-> NoWork]]
NoSweep == [on |-> "before", users |-> {}, left |-> {}]

(* run_restore, up to the pool: the prefetch of the owner's playlists, a   *)
(* dict that keeps one of those of a title.                                *)
OwnLists(bs) == {b \in bs : b.kind = "playlists" /\ b.owner = Owner}
Fetched(bs) ==
    {got \in SUBSET {b.id : b \in OwnLists(bs)} :
        \A b \in OwnLists(bs) : \E c \in OwnLists(bs) :
            /\ c.title = b.title
            /\ \A d \in OwnLists(bs) : d.title = b.title => (d.id \in got <=> d = c)}

(* _build_scan_cache: the library as the owner's connection sees it.       *)
Scan == [views |-> views[Owner], offset |-> offset[Owner], rating |-> rating[Owner]]

Init ==
    /\ job \in Jobs
    /\ views = Views0 /\ rating = Ratings0 /\ boxes = Boxes0
    /\ offset = [u \in Users |-> [i \in Items |-> 0]]
    /\ roster \in Fetched(Boxes0)
    /\ lib = [l \in Libraries |-> IF l \in job.libraries THEN "queued" ELSE "done"]
    /\ phase = [l \in Libraries |-> [h \in Handles |-> "off"]]
    /\ todo = [l \in Libraries |-> [h \in Handles |-> {}]]
    /\ found = [l \in Libraries |-> [h \in Handles |-> {}]]
    /\ existing = [l \in Libraries |-> [h \in Handles |-> {}]]
    /\ cached = [l \in Libraries |-> Scan] /\ cur = Idle /\ sweep = NoSweep
    /\ stop = FALSE /\ faults = 0 /\ clean = TRUE /\ runs = 1
    /\ lastId = Cardinality(Boxes0) /\ written = {} /\ settled = <<>>

Replace == job.mode = "replace"

-----------------------------------------------------------------------------
(* The tasks of the libraries                                              *)

(* The destination user a handle of the payload stands for: itself, or     *)
(* what the identity map says.                                             *)
DestUser(h) == job.identity[h]
Selected(h) == h # Owner /\ h \in job.users /\ DestUser(h) \in job.home

(* classify: the families of a list's items and those that have the most.  *)
FamilyOf(S) == Family[LibOf[CHOOSE i \in S : TRUE]]
Families(S) == {Family[LibOf[i]] : i \in S}
OfFamily(S, f) == {i \in S : Family[LibOf[i]] = f}
Leaders(S) == {f \in Families(S) : \A g \in Families(S) :
                  Cardinality(OfFamily(S, g)) <= Cardinality(OfFamily(S, f))}
Crosses(S, f) == 5 * Cardinality(OfFamily(S, f)) >= 3 * Cardinality(S)

(* transform_playlists_for_restore: a playlist whose items are of several  *)
(* families is dropped, split into a list per family ("X [Audio]"), or     *)
(* reduced to the family with the most items, in place of which a tie is   *)
(* split; one without a majority is dropped.                               *)
Piece(r, t, f) == [kind |-> "playlists", handle |-> r.handle, library |-> r.library,
                   title |-> t, members |-> OfFamily(r.members, f)]
Pieces(r, F) == {Piece(r, <<r.title, f>>, f) : f \in F}
Emitted(j, r) ==
    LET most == Leaders(r.members) IN
    IF r.kind # "playlists" \/ Cardinality(Families(r.members)) < 2 THEN {r}
    ELSE IF j.mixed[r.handle] = "split" THEN Pieces(r, Families(r.members))
    ELSE IF j.mixed[r.handle] = "skip" THEN {}
    ELSE IF Cardinality(most) > 1 THEN Pieces(r, most)
    ELSE {Piece(r, r.title, f) : f \in {g \in most : Crosses(r.members, g)}}
Payload(j) == UNION {Emitted(j, r) : r \in j.payload}

(* A phase: its rows, those of this library and this user.                 *)
Rows(l, h, k) == {r \in Payload(job) : r.kind = k /\ r.handle = h /\ r.library = l}
Included(l, k) == k \in job.include[l]

After(k) == CASE k = "watch" -> "playlists" [] k = "playlists" -> "collections"
              [] k = "collections" -> "purge" [] k = "purge" -> "ratings" [] OTHER -> "done"

Set(f, l, h, x) == [f EXCEPT ![l][h] = x]

Shelf(l, k) == IF k = "collections" THEN l ELSE Family[l]

(* Mutant: only the owner's playlists are looked up.                       *)
ExistingOwner(l, h, k) ==
    {b \in boxes : /\ b.kind = k /\ b.owner = Owner /\ h = Owner /\ b.shelf = Shelf(l, k)
                   /\ k = "playlists" => b.id \in roster}

(* The containers restore_playlists or restore_collections found when it   *)
(* began: the playlists of its library's type, the owner's from the run's  *)
(* prefetch; the collections of the section.                               *)
Existing(l, h, k) ==
    {b \in boxes : /\ b.kind = k /\ b.owner = DestUser(h) /\ b.shelf = Shelf(l, k)
                   /\ k = "playlists" /\ h = Owner => b.id \in roster}

(* compute_dest_only_titles, over the collections of the section.          *)
DestOnly(l, h) ==
    {b.id : b \in {x \in boxes : /\ x.id \in existing[l][h]
                                /\ \A y \in Rows(l, h, "collections") : y.title # x.title}}

Enter(l, h, k) ==
    /\ phase' = Set(phase, l, h, k)
    /\ todo' = Set(todo, l, h,
          CASE k = "purge" -> IF Replace /\ Included(l, "collections")
                              THEN DestOnly(l, h) ELSE {}
            [] k \in Kinds -> IF Included(l, k) THEN Rows(l, h, k) ELSE {}
            [] OTHER -> {})
    /\ found' = Set(found, l, h, {})
    /\ cur' = IF k \in {"playlists", "collections"} /\ Included(l, k) /\ Rows(l, h, k) # {}
              THEN Set(cur, l, h, [is |-> "resolving", cold |-> stop]) ELSE cur
    /\ existing' = IF k \in {"playlists", "collections"}
                   THEN Set(existing, l, h, {b.id : b \in Existing(l, h, k)}) ELSE existing

StartTask(l) ==
    /\ lib[l] = "queued"
    /\ lib' = [lib EXCEPT ![l] = "owner"] /\ cached' = [cached EXCEPT ![l] = Scan]
    /\ Enter(l, Owner, "watch")
    /\ UNCHANGED <<job, dest, roster, sweep, stop, faults, clean, runs, ids, settled>>

(* After a Stop the pool cancels what has not started.                     *)
CancelTask(l) ==
    /\ lib[l] = "queued" /\ stop
    /\ lib' = [lib EXCEPT ![l] = "cancelled"]
    /\ UNCHANGED <<job, dest, cached, roster, phase, todo, found, existing, cur, sweep, stop, faults,
                   clean, runs, ids, settled>>

(* The phase is over: the owner's next phase begins unless a Stop came     *)
(* before the ratings; a managed user's begins in any case.                *)
Through(l, h) == phase[l][h] \notin {"off", "done"} /\ todo[l][h] = {} /\ cur[l][h] = NoWork
Halts(l, h) == h = Owner /\ stop /\ phase[l][h] \in {"watch", "playlists", "purge"}

(* The rest of the phases is left out, and with the owner's the users.     *)
Leave(l, h) ==
    /\ phase' = Set(phase, l, h, "done")
    /\ lib' = IF h = Owner THEN [lib EXCEPT ![l] = "done"] ELSE lib
    /\ UNCHANGED <<todo, found, existing, cur>>

EndPhase(l, h) ==
    LET next == After(phase[l][h]) IN
    /\ Through(l, h)
    /\ IF Halts(l, h) THEN Leave(l, h)
       ELSE /\ Enter(l, h, next)
            /\ lib' = IF h = Owner /\ next = "done" THEN [lib EXCEPT ![l] = "users"] ELSE lib
    /\ UNCHANGED <<job, dest, cached, roster, sweep, stop, faults, clean, runs, ids, settled>>

(* The managed users of the payload that were selected and resolved.       *)
StartUser(l, h) ==
    /\ lib[l] = "users" /\ phase[l][h] = "off" /\ Selected(h)
    /\ Enter(l, h, "watch")
    /\ UNCHANGED <<job, dest, cached, roster, lib, sweep, stop, faults, clean, runs, ids, settled>>

EndTask(l) ==
    /\ lib[l] = "users"
    /\ \A h \in Handles : Selected(h) => phase[l][h] = "done"
    /\ lib' = [lib EXCEPT ![l] = "done"]
    /\ UNCHANGED <<job, dest, cached, roster, phase, todo, found, existing, cur, sweep, stop, faults,
                   clean, runs, ids, settled>>

Stop ==
    /\ ~stop /\ \E l \in Libraries : lib[l] \notin {"done", "cancelled"}
    /\ stop' = TRUE /\ clean' = FALSE
    /\ UNCHANGED <<job, dest, cached, roster, work, sweep, faults, runs, ids, settled>>
-----------------------------------------------------------------------------
(* Calls to the destination                                                *)

Fail == faults < MaxFaults /\ faults' = faults + 1 /\ clean' = FALSE
Succeed == UNCHANGED <<faults, clean>>

Took(l, h, r) == /\ cur[l][h] = NoWork /\ r \in todo[l][h]
                 /\ todo' = Set(todo, l, h, todo[l][h] \ {r})
Do(l, h, c) == cur' = Set(cur, l, h, c)

rest == <<job, cached, roster, lib, phase, existing, sweep, stop, runs, settled>>

-----------------------------------------------------------------------------
(* A phase begins with a listing of what is there: a managed user's with   *)
(* the libraries, then with the playlists if there are any to restore, and *)
(* everyone's collections.  One that fails ends the owner's task, or what  *)
(* is left of the user's.                                                  *)
Asks(l, h, k) ==
    /\ Included(l, k)
    /\ \/ k = "playlists" /\ h # Owner /\ Rows(l, h, k) # {}
       \/ k = "collections"
LoseListing(l, h) ==
    /\ \/ lib[l] = "users" /\ phase[l][h] = "off" /\ Selected(h)
       \/ Through(l, h) /\ ~Halts(l, h) /\ Asks(l, h, After(phase[l][h]))
    /\ Fail /\ Leave(l, h)
    /\ UNCHANGED <<job, dest, cached, roster, sweep, stop, runs, ids, settled>>

-----------------------------------------------------------------------------
(* Watch history                                                           *)

(* _compute_merge_views_to_add                                             *)
MergeViewsToAdd(stored, current) ==
    IF job.strategy = "sum" THEN stored ELSE IF stored > current THEN stored - current ELSE 0

Smaller(a, b) == IF a < b THEN a ELSE b

(* Mutant: Replace does not reset a higher count.                          *)
WritesNoReset(r, seen, at) ==
    LET add == IF Replace /\ r.views > seen THEN r.views - seen
               ELSE IF Replace THEN 0 ELSE MergeViewsToAdd(r.views, seen)
    IN [is |-> "item", item |-> r.item, reset |-> FALSE, add |-> Smaller(add, Cap),
        place |-> IF Replace THEN r.offset # at ELSE add > 0 /\ at = 0 /\ r.offset > 0,
        offset |-> r.offset]

(* Mutant: so does Merge.                                                  *)
WritesReset(r, seen, at) ==
    LET reset == seen > r.views
        add == IF Replace THEN r.views - (IF reset THEN 0 ELSE seen)
               ELSE MergeViewsToAdd(r.views, seen)
    IN [is |-> "item", item |-> r.item, reset |-> reset, add |-> Smaller(add, Cap),
        place |-> IF Replace THEN r.offset # at ELSE add > 0 /\ at = 0 /\ r.offset > 0,
        offset |-> r.offset]

(* What is to be written for a row, from the counts the item has now.  In  *)
(* Replace a higher count is reset first; a Merge that adds no view leaves *)
(* the resume position alone.                                              *)
Writes(r, seen, at) ==
    LET reset == Replace /\ seen > r.views
        base == IF reset THEN 0 ELSE seen
        add == IF Replace THEN r.views - base ELSE MergeViewsToAdd(r.views, seen)
    IN [is |-> "item", item |-> r.item, reset |-> reset, add |-> Smaller(add, Cap),
        place |-> IF Replace THEN r.offset # at ELSE add > 0 /\ at = 0 /\ r.offset > 0,
        offset |-> r.offset]

(* The item a row resolves to, with what its user has of it; one that is   *)
(* known by its path comes from the scan cache and is the owner's.         *)
Seen(l, h, i) ==
    IF i \in ByPath
    THEN [user |-> Owner, views |-> cached[l].views[i], offset |-> cached[l].offset[i],
          rating |-> cached[l].rating[i]]
    ELSE LET d == DestUser(h) IN
         [user |-> d, views |-> views[d][i], offset |-> offset[d][i], rating |-> rating[d][i]]

Left(c) == IF c.reset \/ c.add > 0 \/ c.place THEN c ELSE NoWork

(* process: a row that comes up after a Stop is dropped; so is one whose   *)
(* item is not found.                                                      *)
ReadRow(l, h, r) ==
    LET seen == Seen(l, h, r.item) IN
    /\ phase[l][h] = "watch" /\ Took(l, h, r)
    /\ \/ stop /\ Succeed /\ UNCHANGED cur
       \/ ~stop /\ Fail /\ UNCHANGED cur
       \/ /\ ~stop /\ Succeed
          /\ Do(l, h, Left(Writes(r, seen.views, seen.offset)))
    /\ UNCHANGED <<dest, rest, found, ids>>

(* markUnplayed, one scrobble at a time, the resume position.  A call that *)
(* fails ends the row.                                                     *)
WriteRow(l, h) ==
    LET c == cur[l][h]  d == DestUser(h) IN
    /\ c.is = "item"
    /\ \/ Fail /\ Do(l, h, NoWork) /\ UNCHANGED dest
       \/ /\ c.reset /\ Succeed
          /\ views' = [views EXCEPT ![Seen(l, h, c.item).user][c.item] = 0]
          /\ Do(l, h, Left([c EXCEPT !.reset = FALSE]))
          /\ UNCHANGED <<offset, rating, boxes>>
       \/ /\ ~c.reset /\ c.add > 0 /\ Succeed
          /\ views' = [views EXCEPT ![d][c.item] = @ + 1]
          /\ Do(l, h, Left([c EXCEPT !.add = @ - 1]))
          /\ UNCHANGED <<offset, rating, boxes>>
       \/ /\ ~c.reset /\ c.add = 0 /\ Succeed
          /\ offset' = [offset EXCEPT ![d][c.item] = c.offset]
          /\ Do(l, h, NoWork)
          /\ UNCHANGED <<views, rating, boxes>>
    /\ UNCHANGED <<rest, todo, found, ids>>

-----------------------------------------------------------------------------
(* Ratings: Merge leaves an item alone that has one, Replace one that has  *)
(* the same.                                                               *)
RateRow(l, h, r) ==
    LET d == DestUser(h)
        seen == Seen(l, h, r.item).rating
        skip == r.value = Unrated \/ (IF Replace THEN seen = r.value ELSE seen # Unrated)
    IN
    /\ phase[l][h] = "ratings" /\ Took(l, h, r)
    /\ \/ (stop \/ skip) /\ Succeed /\ UNCHANGED rating
       \/ ~stop /\ ~skip /\ Fail /\ UNCHANGED rating
       \/ /\ ~stop /\ ~skip /\ Succeed
          /\ rating' = [rating EXCEPT ![d][r.item] = r.value]
    /\ UNCHANGED <<views, offset, boxes, rest, found, cur, ids>>

-----------------------------------------------------------------------------
(* Playlists and collections                                               *)

(* The members of all containers of the phase are resolved first, in a     *)
(* pool whose tasks give up once a Stop came.                              *)
Resolve(l, h) ==
    LET wanted == UNION {r.members : r \in todo[l][h]} IN
    /\ cur[l][h].is = "resolving"
    /\ \/ ~stop /\ Succeed /\ found' = Set(found, l, h, wanted)
       \/ /\ ~stop /\ Fail
          /\ \E i \in wanted : found' = Set(found, l, h, wanted \ {i})
       \/ /\ stop /\ Succeed
          /\ \E got \in IF cur[l][h].cold THEN {{}} ELSE SUBSET wanted :
                found' = Set(found, l, h, got)
    /\ Do(l, h, NoWork)
    /\ UNCHANGED <<dest, rest, todo, ids>>

(* A container with members that were found: created when its title is not *)
(* among the existing ones, otherwise compared with what it holds now; a   *)
(* playlist of another type is left alone, and one that cannot be read.    *)
TakeBox(l, h, r) ==
    LET k == phase[l][h]
        hit == r.members \cap found[l][h]
        same == {b \in boxes : b.id \in existing[l][h] /\ b.title = r.title}
        clash(b) == k = "playlists" /\ b.shelf # FamilyOf(hit)
    IN
    /\ k \in {"playlists", "collections"} /\ Took(l, h, r)
    /\ \/ hit = {} /\ Succeed /\ UNCHANGED <<cur, written>>
       \/ /\ hit # {} /\ same = {} /\ Succeed
          /\ Do(l, h, [is |-> "new", title |-> r.title, add |-> hit])
          /\ UNCHANGED written
       \/ /\ hit # {} /\ \E b \in same : IF clash(b) THEN Succeed ELSE Fail
          /\ UNCHANGED <<cur, written>>
       \/ /\ hit # {} /\ Succeed
          /\ \E b \in same :
                /\ ~clash(b)
                /\ Do(l, h, [is |-> "box", id |-> b.id, add |-> hit \ b.members,
                                remove |-> IF Replace THEN b.members \ hit ELSE {}])
                /\ written' = written \cup {b.id}
    /\ UNCHANGED <<dest, rest, found, lastId>>

(* A create and an add are calls of a chunk each: a failure may come after *)
(* some of them.                                                           *)
CreateBox(l, h) ==
    LET c == cur[l][h] IN
    /\ c.is = "new"
    /\ \E some \in SUBSET c.add :
          /\ IF some = c.add THEN Succeed ELSE Fail
          /\ IF some = {} THEN UNCHANGED <<boxes, ids>>
             ELSE /\ lastId < MaxBoxes /\ lastId' = lastId + 1
                  /\ boxes' = boxes \cup
                        {[id |-> lastId', kind |-> phase[l][h], owner |-> DestUser(h),
                          shelf |-> IF phase[l][h] = "collections" THEN l ELSE FamilyOf(some),
                          title |-> c.title, members |-> some]}
                  /\ written' = written \cup {lastId'}
    /\ Do(l, h, NoWork)
    /\ UNCHANGED <<views, offset, rating, rest, todo, found>>

Changed(id, members) ==
    {IF b.id = id THEN [b EXCEPT !.members = members] ELSE b : b \in boxes}
Box(id) == CHOOSE b \in boxes : b.id = id

(* removeItems, one member per call; a failure is skipped over.            *)
RemoveMember(l, h) ==
    LET c == cur[l][h] IN
    /\ c.is = "box"
    /\ \E i \in c.remove :
          /\ \/ Succeed /\ boxes' = Changed(c.id, Box(c.id).members \ {i})
             \/ Fail /\ UNCHANGED boxes
          /\ Do(l, h, [c EXCEPT !.remove = @ \ {i}])
    /\ UNCHANGED <<views, offset, rating, rest, todo, found, ids>>

AddMembers(l, h) ==
    LET c == cur[l][h] IN
    /\ c.is = "box" /\ c.remove = {}
    /\ \E some \in SUBSET c.add :
          /\ IF some = c.add THEN Succeed ELSE Fail
          /\ boxes' = Changed(c.id, Box(c.id).members \cup some)
    /\ Do(l, h, NoWork)
    /\ UNCHANGED <<views, offset, rating, rest, todo, found, ids>>
(* Replace deletes the collections of the section that the payload lacks.  *)
PurgeBox(l, h, id) ==
    /\ phase[l][h] = "purge" /\ Took(l, h, id)
    /\ \/ Succeed /\ boxes' = {b \in boxes : b.id # id}
       \/ Fail /\ UNCHANGED boxes
    /\ UNCHANGED <<views, offset, rating, rest, found, cur, ids>>

-----------------------------------------------------------------------------
(* After the tasks: the sweep of playlists, for the owner and then for     *)
(* each home user the run signed in.                                       *)

over == <<job, views, offset, rating, cached, roster, work, stop, runs, settled>>
Ended == \A l \in Libraries : lib[l] \in {"done", "cancelled"}

ListTitles(h) == {r.title : r \in {x \in job.payload : /\ x.kind = "playlists" /\ x.handle = h
                                                    /\ x.library \in job.libraries}}

(* Mutant: the owner's titles stand for everyone's.                        *)
SourceTitlesOwner(u) == ListTitles(Owner)

(* The source titles are those of the snapshot, of the libraries that      *)
(* become a task, kept by the handle of the payload.                       *)
SourceTitles(u) == ListTitles(u)
InScope(b) == b.members # {} /\ \A i \in b.members : LibOf[i] \in job.libraries

StartSweep ==
    /\ Ended /\ sweep.on = "before"
    /\ sweep' = IF Replace /\ job.sweeps
                THEN [on |-> "list", users |-> {Owner} \cup job.home, left |-> {}]
                ELSE [NoSweep EXCEPT !.on = "after"]
    /\ UNCHANGED <<over, boxes, faults, clean, ids>>

(* server.playlists(): when it fails this user's sweep is skipped.         *)
SweepUser(u) ==
    LET mine == {b \in boxes : b.kind = "playlists" /\ b.owner = u} IN
    /\ sweep.on = "list" /\ u \in sweep.users
    /\ \/ Succeed /\ sweep' = [on |-> "delete", users |-> sweep.users \ {u},
                                left |-> {b.id : b \in {x \in mine : /\ InScope(x)
                                                        /\ x.title \notin SourceTitles(u)}}]
       \/ Fail /\ sweep' = [sweep EXCEPT !.users = @ \ {u}]
    /\ UNCHANGED <<over, boxes, ids>>

SweepBox(id) ==
    /\ sweep.on = "delete" /\ id \in sweep.left
    /\ sweep' = [sweep EXCEPT !.left = @ \ {id}]
    /\ \/ Succeed /\ boxes' = {b \in boxes : b.id # id}
       \/ Fail /\ UNCHANGED boxes
    /\ UNCHANGED <<over, ids>>

SweptUser ==
    /\ \/ sweep.on = "delete" /\ sweep.left = {} /\ sweep' = [sweep EXCEPT !.on = "list"]
       \/ sweep.on = "list" /\ sweep.users = {} /\ sweep' = [sweep EXCEPT !.on = "after"]
    /\ UNCHANGED <<over, boxes, faults, clean, ids>>

(* The same job is run once more.                                          *)
Rerun ==
    /\ sweep.on = "after" /\ runs < MaxRuns
    /\ runs' = runs + 1 /\ settled' = dest
    /\ roster' \in Fetched(boxes)
    /\ lib' = [l \in Libraries |-> IF l \in job.libraries THEN "queued" ELSE "done"]
    /\ phase' = [l \in Libraries |-> [h \in Handles |-> "off"]]
    /\ sweep' = NoSweep /\ stop' = FALSE /\ written' = {}
    /\ UNCHANGED <<job, dest, cached, todo, found, existing, cur, faults, clean, lastId>>

Next ==
    \/ \E l \in Libraries :
          \/ StartTask(l) \/ CancelTask(l) \/ EndTask(l)
          \/ \E h \in Handles :
                \/ EndPhase(l, h) \/ StartUser(l, h) \/ LoseListing(l, h)
                \/ WriteRow(l, h) \/ Resolve(l, h)
                \/ CreateBox(l, h) \/ RemoveMember(l, h) \/ AddMembers(l, h)
                \/ \E r \in todo[l][h] : \/ ReadRow(l, h, r) \/ RateRow(l, h, r)
                                         \/ TakeBox(l, h, r) \/ PurgeBox(l, h, r)
    \/ Stop \/ StartSweep \/ SweptUser \/ Rerun
    \/ \E u \in Users : SweepUser(u)
    \/ \E id \in sweep.left : SweepBox(id)

Spec == Init /\ [][Next]_vars

-----------------------------------------------------------------------------
(* Properties                                                              *)

Finished == sweep.on = "after"
Covered(r) == /\ r.library \in job.libraries /\ Included(r.library, r.kind)
              /\ r.handle = Owner \/ Selected(r.handle)
Rowed(k) == {r \in Payload(job) : r.kind = k /\ Covered(r)}

(* A playlist that keeps its title and is of its library's type; the titles *)
(* of the pieces of mixed ones.                                            *)
Typed(r) == r.kind = "playlists" => /\ Families(r.members) \subseteq {Family[r.library]}
                                   /\ r.title \in ListTitles(r.handle)
PieceTitles == UNION {{<<r.title, f>> : f \in Families(r.members)} :
                         r \in {x \in job.payload : x.kind = "playlists"}}

(* A Merge only adds: no step of it lowers a count, changes a rating that  *)
(* is set, removes a member or deletes a container, whatever fails and     *)
(* whenever it is stopped (run_restore, mode "merge").                     *)
MergeOnlyAdds ==
    [][~Replace =>
        /\ \A u \in Users, i \in Items :
              /\ views'[u][i] >= views[u][i]
              /\ rating[u][i] # Unrated => rating'[u][i] = rating[u][i]
              /\ offset[u][i] # 0 => offset'[u][i] = offset[u][i]
        /\ \A b \in boxes : \E c \in boxes' : c.id = b.id /\ b.members \subseteq c.members
      ]_vars

(* A Replace that ran to its end with no failure and no Stop has made the  *)
(* destination equal to the snapshot for the users, libraries and kinds it *)
(* covers, counts beyond the increment cap aside, and of mixed playlists    *)
(* what keeps their title (run_restore, "replace").                        *)
ReplaceEndsEqual ==
    Finished /\ clean /\ Replace =>
        /\ \A r \in Rowed("watch") :
              LET d == DestUser(r.handle) IN
              r.views <= Cap => views[d][r.item] = r.views /\ offset[d][r.item] = r.offset
        /\ \A r \in Rowed("ratings") :
              r.value # Unrated => rating[DestUser(r.handle)][r.item] = r.value
        /\ \A k \in {"playlists", "collections"} : \A r \in Rowed(k) :
              Typed(r) /\ r.members # {} => \E b \in boxes :
                  /\ b.kind = k /\ b.owner = DestUser(r.handle) /\ b.title = r.title
                  /\ b.members = r.members
        /\ \A b \in boxes :
              (b.kind = "playlists" /\ job.sweeps /\ b.owner \in {Owner} \cup job.home
               /\ InScope(b)) => \E r \in job.payload :
                                    /\ r.kind = "playlists" /\ Covered(r)
                                    /\ r.title = b.title /\ DestUser(r.handle) = b.owner

(* Running the same job again after a run without failure changes nothing, *)
(* except under the strategy "sum" (_compute_merge_views_to_add) and with  *)
(* playlists that are not of their library's type.                         *)
RerunChangesNothing ==
    (Finished /\ clean /\ runs = 2 /\ job.strategy # "sum"
     /\ (\A r \in Rowed("watch") : r.views <= Cap)
     /\ \A r \in Rowed("playlists") : Typed(r)) => settled = dest

(* The sweep deletes no playlist that this run created or updated, also    *)
(* when the run was stopped or calls failed, except for the pieces of a    *)
(* mixed one (purge_dest_only_playlists).                                  *)
SweepSparesRestored ==
    [][\A b \in boxes : (b.kind = "playlists" /\ b.id \in written /\ b.title \notin PieceTitles)
                           => \E c \in boxes' : c.id = b.id]_vars

=============================================================================
