--------------------------- MODULE CollectionCache ---------------------------
(***************************************************************************)
(* The cache of the collections' members: a snapshot (snapshot_collections *)
(* of services/snapshot/plex_native/snapshotter.py) and the warm-up        *)
(* (services/collection_cache/warmer.py) list the collections of a library *)
(* with their updatedAt, take from server/collection_cache_db.py the ones  *)
(* whose cached time is not older, and fetch and write the others.  All    *)
(* threads share one connection: a lookup sees what a write of another     *)
(* thread has not committed yet.                                           *)
(***************************************************************************)
EXTENDS Naturals

CONSTANTS
    Collections, Readers,
    MaxFailed, MaxReadings, MaxChanges   \* MaxChanges: edits and clearings

Nobody == 0

ASSUME CollectionAssumption == Nobody \notin Readers

VARIABLES
    version,   \* version[c]: the collection's updatedAt on the server, and its members then
    cache,     \* collection_cache: the stored time and members
    writer,    \* the walker in a transaction, which holds _DB_LOCK
    reader,    \* what each walker does
    failed, readings, changes

memberVars == <<version, cache, writer, reader, failed, readings, changes>>

(* Members as they were at version v, all of them or only a first part.    *)
Members(v, whole) == [version |-> v, whole |-> whole]
Nothing == Members(0, FALSE)
Row(stamp, members) == [is |-> "row", stamp |-> stamp, members |-> members]
NoRow == [is |-> "missing", stamp |-> 0, members |-> Nothing]

AtRest == [pc |-> "idle", kind |-> "warm", stamps |-> "number", todo |-> {},
           listed |-> [c \in Collections |-> 0], served |-> {},
           coll |-> CHOOSE c \in Collections : TRUE, stamp |-> 0, seen |-> NoRow,
           got |-> Nothing, old |-> NoRow]

MembersInit ==
    /\ version = [c \in Collections |-> 1] /\ cache = [c \in Collections |-> NoRow]
    /\ writer = Nobody /\ reader = [w \in Readers |-> AtRest]
    /\ failed = 0 /\ readings = 0 /\ changes = 0

Fail == failed < MaxFailed /\ failed' = failed + 1
Goto(w, rec) == reader' = [reader EXCEPT ![w] = rec]
Is(w, pc) == reader[w].pc = pc

(* live_updated_at: a datetime cannot be a float, and the exception that   *)
(* float() raises leaves 0 before the conversion is reached.               *)
LiveUpdatedAt(v, kind) == IF kind = "number" THEN v ELSE 0

-----------------------------------------------------------------------------
(* The list of a library's collections, of which the walker skips some (a  *)
(* user's walk the ones of the owner; with no other it ends at once).      *)
BeginWalk(w, kind, stamps) ==
    /\ Is(w, "idle") /\ readings < MaxReadings /\ readings' = readings + 1
    /\ \E todo \in SUBSET Collections \ {{}} :
          Goto(w, [AtRest EXCEPT !.pc = "walk", !.kind = kind, !.stamps = stamps,
                                 !.todo = todo, !.listed = version])
    /\ UNCHANGED <<version, cache, writer, failed, changes>>

(* The walk ends with its list, or a snapshot at a Stop.                   *)
LeaveWalk(w) ==
    /\ Is(w, "walk") /\ (reader[w].todo = {} \/ reader[w].kind = "snapshot")
    /\ Goto(w, AtRest)
    /\ UNCHANGED <<version, cache, writer, failed, readings, changes>>

(* lookup_cached_collection: the row, and if it is not older the members   *)
(* with a second statement; a failed one is a miss.                        *)
Lookup(w, c) ==
    LET k == reader[w]
        stamp == LiveUpdatedAt(k.listed[c], k.stamps)
        hit == cache[c].is = "row" /\ cache[c].stamp >= stamp
        miss == [k EXCEPT !.pc = "fetch", !.todo = @ \ {c}, !.coll = c, !.stamp = stamp]
    IN
    /\ Is(w, "walk") /\ c \in k.todo
    /\ \/ /\ Goto(w, IF hit THEN [miss EXCEPT !.pc = "hit", !.seen = cache[c]] ELSE miss)
          /\ UNCHANGED failed
       \/ Fail /\ Goto(w, miss)
    /\ UNCHANGED <<version, cache, writer, readings, changes>>

Back(k, served) == [AtRest EXCEPT !.pc = "walk", !.kind = k.kind, !.stamps = k.stamps,
                        !.todo = k.todo, !.listed = k.listed, !.served = served]
Served(k, members) ==
    [coll |-> k.coll, listed |-> k.listed[k.coll], members |-> members, by |-> k.stamps,
     steady |-> cache[k.coll] = k.seen]

ReadMembers(w) ==
    LET k == reader[w]  c == k.coll IN
    /\ Is(w, "hit")
    /\ \/ Fail /\ Goto(w, [k EXCEPT !.pc = "fetch"])
       \/ /\ Goto(w, Back(k, {Served(k, IF cache[c].is = "row" THEN cache[c].members
                                        ELSE Nothing)}))
          /\ UNCHANGED failed
    /\ UNCHANGED <<version, cache, writer, readings, changes>>

(* The members are fetched.  When that fails the warm-up goes on to the    *)
(* next collection; in a snapshot serialize_collection swallows the error  *)
(* and answers with what it has.                                           *)
Fetch(w) ==
    LET k == reader[w]  c == k.coll IN
    /\ Is(w, "fetch")
    /\ \/ /\ Goto(w, [k EXCEPT !.pc = "write", !.got = Members(version[c], TRUE)])
          /\ UNCHANGED failed
       \/ /\ Fail
          /\ Goto(w, IF k.kind = "warm" THEN Back(k, {})
                     ELSE [k EXCEPT !.pc = "write", !.got = Members(version[c], FALSE)])
    /\ UNCHANGED <<version, cache, writer, readings, changes>>

(* Mutant: the row is given the time the collection has when it is written.*)
StoredNow(k) == version[k.coll]

(* The time stored with the members is the one of the list.                *)
Stored(k) == k.stamp

(* write_collection_cache: the row, then its members, then COMMIT; a       *)
(* failure rolls both back.                                                *)
WriteRow(w) ==
    LET k == reader[w] IN
    /\ Is(w, "write") /\ writer = Nobody
    /\ \/ Fail /\ Goto(w, Back(k, {})) /\ UNCHANGED <<cache, writer>>
       \/ /\ writer' = w
          /\ cache' = [cache EXCEPT ![k.coll] = Row(Stored(k), Nothing)]
          /\ Goto(w, [k EXCEPT !.pc = "members", !.old = cache[k.coll]])
          /\ UNCHANGED failed
    /\ UNCHANGED <<version, readings, changes>>

WriteMembers(w) ==
    LET k == reader[w] IN
    /\ Is(w, "members") /\ writer' = Nobody /\ Goto(w, Back(k, {}))
    /\ \/ Fail /\ cache' = [cache EXCEPT ![k.coll] = k.old]
       \/ /\ cache' = [cache EXCEPT ![k.coll] = Row(Stored(k), k.got)] /\ UNCHANGED failed
    /\ UNCHANGED <<version, readings, changes>>

(* invalidate_collection_cache                                             *)
ClearMembers ==
    /\ changes < MaxChanges /\ changes' = changes + 1 /\ writer = Nobody
    /\ cache' = [c \in Collections |-> NoRow]
    /\ UNCHANGED <<version, writer, reader, failed, readings>>

EditCollection(c) ==
    /\ changes < MaxChanges /\ changes' = changes + 1
    /\ version' = [version EXCEPT ![c] = @ + 1]
    /\ UNCHANGED <<cache, writer, reader, failed, readings>>

MembersNext ==
    \/ \E w \in Readers :
          \/ \E kind \in {"snapshot", "warm"}, stamps \in {"number", "datetime"} :
                BeginWalk(w, kind, stamps)
          \/ LeaveWalk(w)
          \/ \E c \in Collections : Lookup(w, c)
          \/ ReadMembers(w) \/ Fetch(w) \/ WriteRow(w) \/ WriteMembers(w)
    \/ ClearMembers
    \/ \E c \in Collections : EditCollection(c)

MembersSpec == MembersInit /\ [][MembersNext]_memberVars

-----------------------------------------------------------------------------
(* Members served from the cache are no older than the list the walk       *)
(* works on, however edits, the two kinds of walks, failed fetches and     *)
(* clearings interleave (lookup_cached_collection: "cached.updated_at >=   *)
(* live.updatedAt").  Left out are lists whose times are datetimes, and    *)
(* the members cut short by a failed fetch or of another row than the time.*)
HitIsCurrent ==
    \A w \in Readers : \A s \in reader[w].served :
        (s.by = "number" /\ s.steady /\ s.members.whole) => s.members.version >= s.listed
=============================================================================
