--------------------------- MODULE SnapshotStore ---------------------------
(***************************************************************************)
(* The snapshot store: the registry rows (server/snapshot_registry.py),    *)
(* the .db files and the JSON sidecars beside them, and the threads that   *)
(* work on them without a common lock: the job worker that captures and    *)
(* restores (server/jobs.py), the request handlers that download, restore  *)
(* and delete (server/routers/snapshots.py, jobs.py), the sidecar reaper   *)
(* and the recovery at startup (server/lifecycle.py).                      *)
(*                                                                         *)
(* A snapshot's id is the rank of its capture time.  A name stands for a   *)
(* file's path without its suffix; it has the resolution of a minute.      *)
(***************************************************************************)
EXTENDS Naturals, Sequences, FiniteSets

CONSTANTS
    Keep,         \* effective_retention_for the server
    SameMinute,   \* whether two captures may happen in the same minute
    MaxCaptures,  \* bound of the captures,
    MaxEvents     \* and of the requests, failures, crashes and moves together

ASSUME StoreAssumption ==
    Keep \in Nat \ {0} /\ SameMinute \in BOOLEAN /\ MaxCaptures \in Nat /\ MaxEvents \in Nat

Ids == 1 .. MaxCaptures
Names == 1 .. MaxCaptures
Threads == {"job", "api", "reaper"}

VARIABLES
    up,      \* the process accepts requests
    minute,  \* the name of the last capture
    rows,    \* the registry: id -> its row
    dbFile,  \* dbFile[name]: the .db file
    json,    \* json[name]: the sidecar beside it
    queue,   \* restores that wait for the worker: the sidecar's path and id
    task,    \* what each thread is doing
    fate,    \* fate[id]: "captured" once its file is complete, then what a deletion did
    spent    \* how much of each bound the environment has used

storeVars == <<up, minute, rows, dbFile, json, queue, task, fate, spent>>
files == <<dbFile, json>>

NoRow == [name |-> 0, pre |-> FALSE, server |-> 0]
NoFile == [id |-> 0, state |-> "none"]
NoEntry == [id |-> 0, name |-> 0]
Free == [pc |-> "idle", id |-> 0, row |-> NoRow, entry |-> NoEntry, todo |-> {},
         keep |-> FALSE, use |-> "none"]

StoreInit ==
    /\ up = TRUE /\ minute = 0
    /\ rows = [i \in Ids |-> NoRow]
    /\ dbFile = [n \in Names |-> NoFile] /\ json = [n \in Names |-> NoFile]
    /\ queue = <<>>
    /\ fate = [i \in Ids |-> "none"]
    /\ task = [t \in Threads |-> Free]
    /\ spent = [captures |-> 0, events |-> 0, moves |-> 0]

Server == spent.moves   \* the id under which the server is registered now
Registered == {i \in Ids : rows[i] # NoRow}
Entries(S) == {[id |-> i, name |-> rows[i].name] : i \in S}

Event == /\ spent.events < MaxEvents
         /\ spent' = [spent EXCEPT !.events = @ + 1]
Reached(t, pc) == up /\ task[t].pc = pc
Set(t, r) == task' = [task EXCEPT ![t] = r]
Proceed(t, pc) == Set(t, [task[t] EXCEPT !.pc = pc])

(* list_snapshots of the server; those who delete take the newest first.   *)
Listed == Entries({i \in Registered : rows[i].server = Server})
Newest(S) == {e \in S : \A f \in S : f.id <= e.id}
Oldest(S) == {e \in S : \A f \in S : e.id <= f.id}

-----------------------------------------------------------------------------
(* Capture                                                                 *)

(* Mutant: the name does not tell the time of the capture.                  *)
NextNamesUndated == {1}

(* format_snapshot_filename: the name of a capture at this time.           *)
NextNames == {minute + 1} \cup (IF SameMinute THEN {minute} \ {0} ELSE {})

(* build_snapshot_db_from_payloads: a file of that name is removed, the    *)
(* tables are created, the rows written in one transaction.                *)
Capture(prebuild) ==
    LET i == spent.captures + 1 IN
    /\ Reached("job", "idle") /\ spent.captures < MaxCaptures
    /\ spent' = [spent EXCEPT !.captures = i]
    /\ minute' \in NextNames
    /\ dbFile' = [dbFile EXCEPT ![minute'] = [id |-> i, state |-> "partial"]]
    /\ Set("job", [Free EXCEPT !.pc = "build", !.id = i, !.row.name = minute',
                               !.use = IF prebuild THEN "prebuild" ELSE "none"])
    /\ UNCHANGED <<up, rows, json, queue, fate>>

(* COMMIT, then the validation; an invalid file fails the job and stays.   *)
Built ==
    LET n == task["job"].row.name IN
    /\ Reached("job", "build")
    /\ \/ /\ dbFile' = [dbFile EXCEPT ![n].state = "good"]
          /\ Proceed("job", "register") /\ UNCHANGED spent
       \/ /\ dbFile' = [dbFile EXCEPT ![n].state = "invalid"]
          /\ Set("job", Free) /\ Event
    /\ fate' = [fate EXCEPT ![task["job"].id] = "captured"]
    /\ UNCHANGED <<up, minute, rows, json, queue>>

(* The INSERT of register; when it fails the file stays for the recovery.  *)
Register ==
    LET th == task["job"] IN
    /\ Reached("job", "register")
    /\ \/ /\ rows' = [rows EXCEPT ![th.id] = [name |-> th.row.name, pre |-> FALSE,
                                              server |-> Server]]
          /\ Proceed("job", "retention") /\ UNCHANGED spent
       \/ Event /\ Set("job", Free) /\ UNCHANGED rows
    /\ UNCHANGED <<up, minute, files, queue, fate>>

(* enforce_retention: what is past the newest Keep rows is deleted.        *)
EnforceRetention ==
    /\ Reached("job", "retention")
    /\ Set("job", [task["job"] EXCEPT !.pc = "victim",
                     !.todo = {e \in Listed : Cardinality({f \in Listed : f.id > e.id}) >= Keep}])
    /\ UNCHANGED <<up, minute, rows, files, queue, fate, spent>>

-----------------------------------------------------------------------------
(* materialise_sidecar for the snapshot th.id                              *)

(* What the caller does with the sidecar, or without it.                   *)
Rendered(th, got) ==
    CASE th.use = "restore" /\ got -> [th EXCEPT !.pc = "submit"]
      [] th.use = "archive" -> [th EXCEPT !.pc = "move", !.row.pre = @ \/ got]
      [] OTHER -> Free

Render(t) ==
    LET th == [task[t] EXCEPT !.row = IF task[t].use = "archive" THEN @
                                        ELSE rows[task[t].id]]
        row == rows[th.id]
        cached == row.pre /\ json[row.name].state # "none"
    IN
    /\ Reached(t, "render")
    /\ Set(t, IF row # NoRow /\ ~cached /\ dbFile[row.name].state # "none"
              THEN [th EXCEPT !.pc = "write"]
              ELSE Rendered(th, row # NoRow /\ cached))
    /\ UNCHANGED <<up, minute, rows, files, queue, fate, spent>>

WriteSidecar(t) ==
    LET th == task[t] IN
    /\ Reached(t, "write")
    /\ \/ /\ json' = [json EXCEPT ![th.row.name] = [id |-> th.id, state |-> "fresh"]]
          /\ Proceed(t, "stamp") /\ UNCHANGED spent
       \/ Event /\ Set(t, Rendered(th, FALSE)) /\ UNCHANGED json
    /\ UNCHANGED <<up, minute, rows, dbFile, queue, fate>>

(* Mutant: the stamp inserts the row when it is not there.                  *)
SetPreUpsert(i, b) == [rows EXCEPT ![i].pre = b]

(* An UPDATE that finds no row changes nothing.                            *)
SetPre(i, b) == IF rows[i] = NoRow THEN rows ELSE [rows EXCEPT ![i].pre = b]

StampSidecar(t) ==
    /\ Reached(t, "stamp")
    /\ rows' = SetPre(task[t].id, TRUE)
    /\ Set(t, Rendered(task[t], TRUE))
    /\ UNCHANGED <<up, minute, files, queue, fate, spent>>

-----------------------------------------------------------------------------
(* delete, for each entry of todo: one snapshot, all of a server, or what  *)
(* the retention found                                                     *)

(* The row is read; an unknown id is an error of its own.  After the last  *)
(* one the capture that swept renders the sidecar it was asked for.        *)
NextVictim(t) ==
    LET th == task[t]
    IN
    /\ Reached(t, "victim")
    /\ \/ /\ th.todo = {}
          /\ Set(t, IF th.use = "prebuild" THEN [th EXCEPT !.pc = "render"] ELSE Free)
       \/ \E e \in Newest(th.todo) :
            LET picked == [th EXCEPT !.row = rows[e.id], !.entry = e, !.todo = @ \ {e}]
            IN  Set(t, CASE rows[e.id] = NoRow -> [th EXCEPT !.todo = @ \ {e}]
                         [] rows[e.id] # NoRow /\ th.keep ->
                               [picked EXCEPT !.pc = "render", !.id = e.id, !.use = "archive"]
                         [] OTHER -> [picked EXCEPT !.pc = "unlink"])
    /\ UNCHANGED <<up, minute, rows, files, queue, fate, spent>>

(* keep_json: the sidecar moves to legacy/, under a name not yet taken.    *)
MoveSidecar(t) ==
    LET th == task[t]
        n == th.row.name
        there == th.row.pre /\ json[n].state # "none"
    IN
    /\ Reached(t, "move")
    /\ \/ /\ json' = IF there THEN [json EXCEPT ![n] = NoFile] ELSE json
          /\ UNCHANGED spent
       \/ there /\ Event /\ UNCHANGED json
    /\ Proceed(t, "unlink")
    /\ UNCHANGED <<up, minute, rows, dbFile, queue, fate>>

UnlinkDb(t) ==
    LET th == task[t] IN
    /\ Reached(t, "unlink")
    /\ \/ /\ dbFile' = [dbFile EXCEPT ![th.row.name] = NoFile]
          /\ fate' = [fate EXCEPT ![th.entry.id] = "unlinked"]
          /\ UNCHANGED spent
       \/ Event /\ UNCHANGED <<dbFile, fate>>
    /\ Proceed(t, "unlinkjson")
    /\ UNCHANGED <<up, minute, rows, json, queue>>

UnlinkSidecar(t) ==
    LET th == task[t]
        mine == ~th.keep /\ th.row.pre
    IN
    /\ Reached(t, "unlinkjson")
    /\ \/ /\ json' = IF mine THEN [json EXCEPT ![th.row.name] = NoFile] ELSE json
          /\ UNCHANGED spent
       \/ mine /\ Event /\ UNCHANGED json
    /\ Proceed(t, "drop")
    /\ UNCHANGED <<up, minute, rows, dbFile, queue, fate>>

(* The row goes, whatever failed above.                                    *)
DropRow(t) ==
    LET th == task[t]
        v == th.entry.id
    IN
    /\ Reached(t, "drop")
    /\ rows' = [rows EXCEPT ![v] = NoRow]
    /\ fate' = [fate EXCEPT ![v] = IF @ \in {"captured", "left"} THEN "left" ELSE "dropped"]
    /\ Set(t, [th EXCEPT !.pc = "victim", !.entry = NoEntry])
    /\ UNCHANGED <<up, minute, files, queue, spent>>

Rendering(t) == Render(t) \/ WriteSidecar(t) \/ StampSidecar(t)
Deletion(t) == \/ NextVictim(t) \/ MoveSidecar(t) \/ UnlinkDb(t)
               \/ UnlinkSidecar(t) \/ DropRow(t)

-----------------------------------------------------------------------------
(* Requests                                                                *)

Request(th) == /\ Reached("api", "idle") /\ Event /\ Set("api", th)
               /\ UNCHANGED <<up, minute, rows, files, queue, fate>>

(* GET /api/snapshots/{id}/download.                                       *)
Download(i) == i \in Registered /\ Request([Free EXCEPT !.pc = "render", !.id = i])

(* POST /api/job/restore-from-snapshot: the path of the sidecar is queued. *)
RestoreFromSnapshot(i) ==
    i \in Registered /\ Request([Free EXCEPT !.pc = "render", !.id = i, !.use = "restore"])

Submit ==
    /\ Reached("api", "submit")
    /\ queue' = Append(queue, [name |-> task["api"].row.name, id |-> task["api"].id])
    /\ Set("api", Free)
    /\ UNCHANGED <<up, minute, rows, files, fate, spent>>

DeleteSnapshot(i, keepJson) ==
    /\ i \in Registered
    /\ Request([Free EXCEPT !.pc = "victim", !.keep = keepJson,
                            !.todo = Entries({i})])

DeleteAllForServer == /\ Listed # {}
                      /\ Request([Free EXCEPT !.pc = "victim", !.todo = Listed])

(* merge-orphans: the rows of an earlier registration of the server.       *)
ReassignOrphans ==
    /\ Reached("api", "idle")
    /\ \E i \in Registered : rows[i].server # Server
    /\ rows' = [i \in Ids |-> IF i \in Registered THEN [rows[i] EXCEPT !.server = Server]
                              ELSE NoRow]
    /\ UNCHANGED <<up, minute, files, queue, task, fate, spent>>

(* The worker takes a queued restore; an input that is gone fails it.      *)
StartRestore ==
    /\ Reached("job", "idle") /\ queue # <<>>
    /\ queue' = Tail(queue)
    /\ UNCHANGED <<up, minute, rows, files, task, fate, spent>>

-----------------------------------------------------------------------------
(* reap_stale_sidecars                                                     *)

ReapList ==
    LET stamped == {i \in Registered : rows[i].pre} IN
    /\ Reached("reaper", "idle") /\ stamped # {}
    /\ Set("reaper", [Free EXCEPT !.pc = "reap", !.todo = Entries(stamped)])
    /\ UNCHANGED <<up, minute, rows, files, queue, fate, spent>>

ReapNext(th, e) ==
    IF th.todo = {e} THEN Free
    ELSE [th EXCEPT !.pc = "reap", !.entry = NoEntry, !.todo = @ \ {e}]

(* A file that is gone has its column cleared, a fresh one is left.        *)
ReapFile ==
    LET th == task["reaper"]
    IN
    /\ Reached("reaper", "reap")
    /\ \E e \in Oldest(th.todo) :
         \/ /\ json[e.name].state # "fresh"
            /\ json' = [json EXCEPT ![e.name] = NoFile]
            /\ Set("reaper", [th EXCEPT !.pc = "clear", !.entry = e]) /\ UNCHANGED spent
         \/ /\ json[e.name].state = "fresh"
            /\ Set("reaper", ReapNext(th, e)) /\ UNCHANGED <<json, spent>>
         \/ /\ json[e.name].state = "stale" /\ Event
            /\ Set("reaper", ReapNext(th, e)) /\ UNCHANGED json
    /\ UNCHANGED <<up, minute, rows, dbFile, queue, fate>>

ReapClear ==
    LET th == task["reaper"] IN
    /\ Reached("reaper", "clear")
    /\ rows' = SetPre(th.entry.id, FALSE)
    /\ Set("reaper", ReapNext(th, th.entry))
    /\ UNCHANGED <<up, minute, files, queue, fate, spent>>

-----------------------------------------------------------------------------
(* The environment and the recovery at startup                             *)

(* A sidecar gets older than the time to live (300 s).                     *)
SidecarAges(n) ==
    /\ json[n].state = "fresh"
    /\ json' = [json EXCEPT ![n].state = "stale"]
    /\ UNCHANGED <<up, minute, rows, dbFile, queue, task, fate, spent>>

(* The server is removed and registered again, under a new id.             *)
ServerReplaced ==
    /\ spent.events < MaxEvents
    /\ spent' = [spent EXCEPT !.events = @ + 1, !.moves = @ + 1]
    /\ UNCHANGED <<up, minute, rows, files, queue, task, fate>>

Crash ==
    /\ up /\ Event
    /\ up' = FALSE
    /\ task' = [t \in Threads |-> Free] /\ queue' = <<>>
    /\ UNCHANGED <<minute, rows, files, fate>>

(* Mutant: only an empty registry is reconciled with the files.             *)
OrphansOfFreshRegistry ==
    IF Registered # {} THEN {} ELSE {n \in Names : dbFile[n].state \in {"invalid", "good"}}

(* reconcile_orphaned_snapshots: a readable file whose path no row has     *)
(* becomes the row of the id written in it, unless that id has one; a file *)
(* without a committed servers row is left alone.                          *)
Orphans == {n \in Names : /\ dbFile[n].state \in {"invalid", "good"}
                          /\ \A i \in Registered : rows[i].name # n
                          /\ dbFile[n].id \notin Registered}

Adopted(i) ==
    IF \E n \in Orphans : dbFile[n].id = i
    THEN [name |-> CHOOSE n \in Orphans : dbFile[n].id = i, pre |-> FALSE, server |-> Server]
    ELSE rows[i]

Boot ==
    /\ ~up /\ up' = TRUE
    /\ rows' = [i \in Ids |-> Adopted(i)]
    /\ UNCHANGED <<minute, files, queue, task, fate, spent>>

StoreNext ==
    \/ \E b \in BOOLEAN : Capture(b)
    \/ Built \/ Register \/ EnforceRetention
    \/ \E t \in {"job", "api"} : Rendering(t) \/ Deletion(t)
    \/ \E i \in Ids : Download(i) \/ RestoreFromSnapshot(i)
    \/ \E i \in Ids, b \in BOOLEAN : DeleteSnapshot(i, b)
    \/ DeleteAllForServer \/ ReassignOrphans \/ Submit \/ StartRestore
    \/ ReapList \/ ReapFile \/ ReapClear
    \/ \E n \in Names : SidecarAges(n)
    \/ ServerReplaced \/ Crash \/ Boot

StoreSpec == StoreInit /\ [][StoreNext]_storeVars

-----------------------------------------------------------------------------
(* Properties                                                              *)

(* No finished capture is lost to a crash: whatever step of a capture, of a*)
(* deletion or of a retention sweep the process ended in, after the next   *)
(* start every complete file that no deletion reached has its row          *)
(* (reconcile_orphaned_snapshots, "bridges the crash-recovery gap").       *)
RecoveryFindsAll ==
    [][(~up /\ up') => \A i \in Ids : fate[i] = "captured" => rows'[i] # NoRow]_storeVars

(* A complete file stays until a deletion of that very snapshot removes    *)
(* it: not a sweep for another one, not a recovery, not a later capture    *)
(* (delete, enforce_retention, build_snapshot_db_from_payloads).           *)
CaptureSurvives ==
    \A i \in Ids : fate[i] \in {"captured", "left"} => \E n \in Names : dbFile[n].id = i

(* A snapshot whose deletion removed its file and its row never comes      *)
(* back: neither a crash between the steps of a deletion nor the recovery  *)
(* at the next start gives it a row again (delete, _ingest_orphan).        *)
DeletedStaysDeleted == \A i \in Ids : fate[i] = "dropped" => rows[i] = NoRow

=============================================================================
