--------------------------- MODULE ServerRegistry ---------------------------
(***************************************************************************)
(* The server registry (server/server_registry.py): servers.json and the   *)
(* schedules that name a server (server/persistence.py).                   *)
(*                                                                         *)
(* A request runs on a thread of its own.  It reads the registry under     *)
(* _REG_LOCK, talks to the media server without it and takes it again to   *)
(* write; between the two, other requests rename, re-credential or remove  *)
(* the row.  A rename and a removal write schedules.json and then          *)
(* servers.json, both under the lock; the process may die in between, and  *)
(* either write may fail.  The scheduler's tick (server/schedules.py)      *)
(* holds a copy of schedules.json while it fires and writes all of it back.*)
(*                                                                         *)
(* A row keeps the fields the properties are about.  Names reach the       *)
(* registry without surrounding blanks, and one list of servers is on the  *)
(* screen: a schedule is posted for a server registered at that moment.    *)
(***************************************************************************)
EXTENDS Naturals

CONSTANTS
    Ids,          \* what make_server_id may return
    Backend,      \* Backend[id]: the backend make_server_id put in front of the id
    Names, Urls, Tokens,
    Machine,      \* Machine[url]: the identifier of the install that answers there, or None
    Schedules,
    Threads,
    None,
    MaxRequests   \* bound of the requests

Identifiers == {Machine[u] : u \in Urls} \cup {None}
Row == [name : Names, url : Urls, token : Tokens, pending : Tokens \cup {None},
        machine : Identifiers]
Source == [name : Names, backend : {Backend[i] : i \in Ids}]

ASSUME RegistryAssumption ==
    /\ Backend \in [Ids -> {"plex", "jellyfin", "emby"}]
    /\ None \notin Names \cup Urls \cup Tokens \cup Ids \cup Threads
    /\ None \notin Row /\ None \notin Source

VARIABLES
    rows,      \* servers.json: rows[id] is the row or None
    removed,   \* ids whose row was deleted
    schedules, \* schedules.json: the name and backend of the source
    meant,     \* meant[s]: the server the schedule s was posted for
    loose,     \* schedules that a write of their server or of the tick was torn or lost for
    tick,      \* the copy of schedules.json the scheduler's tick works on, or None
    lock,      \* the thread that holds _REG_LOCK between two writes
    req,       \* req[t]: the request of the thread t
    requests

vars == <<rows, removed, schedules, meant, loose, tick, lock, req, requests>>

disk == <<rows, removed, schedules, meant, loose>>
sched == <<schedules, meant, loose>>

Idle == [op |-> "idle"]
(* Mutant: the lock is not held between the two writes.                    *)
Unguarded == TRUE

(* _REG_LOCK can be taken.                                                 *)
Free == lock = None
At(t, op) == req[t].op = op
Registered(i) == rows[i] # None

(* get_server_by_name                                                      *)
Resolve(n, b) == {i \in Ids : Registered(i) /\ rows[i].name = n /\ Backend[i] = b}
(* The rows of another server that already carry the name (the machine).   *)
Taken(n, b, i) == Resolve(n, b) \ {i} # {}
Known(m) == m # None /\ \E i \in Ids : Registered(i) /\ rows[i].machine = m
(* What a successful probe of the URL reports (probe_unsaved).             *)
Probe(u) == Machine[u]

SourceOf(s, i) == /\ schedules[s] # None
                  /\ schedules[s].name = rows[i].name
                  /\ schedules[s].backend = Backend[i]

Init ==
    /\ rows = [i \in Ids |-> None] /\ removed = {}
    /\ schedules = [s \in Schedules |-> None] /\ meant = [s \in Schedules |-> None]
    /\ loose = {}
    /\ tick = None
    /\ lock = None /\ req = [t \in Threads |-> Idle] /\ requests = 0

Goto(t, r) == req' = [req EXCEPT ![t] = r]
End(t) == Goto(t, Idle)

(* A request that reads the registry under the lock first.                 *)
Begin(t) == /\ At(t, "idle") /\ requests < MaxRequests
            /\ requests' = requests + 1

(* _save_raw                                                               *)
Save(i, row) == rows' = [rows EXCEPT ![i] = row]

-----------------------------------------------------------------------------
(* add_server                                                              *)

(* The probe succeeded with the typed token, or with the one borrowed from *)
(* the row of a registered Plex server; the typed one is then pending.     *)
AddProbe(t, n, b, u, typed, borrow) ==
    LET row(token, pending) ==
            [name |-> n, url |-> u, token |-> token, pending |-> pending,
             machine |-> Probe(u)]
    IN  /\ Begin(t)
        /\ \/ borrow = None /\ Goto(t, [op |-> "add", backend |-> b, row |-> row(typed, None)])
           \/ /\ borrow # None /\ b = "plex" /\ Free /\ Registered(borrow)
              /\ Goto(t, [op |-> "add", backend |-> b, row |-> row(rows[borrow].token, typed)])
        /\ UNCHANGED <<disk, tick, lock>>

(* Both checks are made on the rows of now, not on those of the probe.     *)
AddCommit(t) ==
    LET r == req[t] IN
    /\ At(t, "add") /\ Free
    /\ \/ UNCHANGED rows                      \* refused, or the write fails
       \/ /\ Resolve(r.row.name, r.backend) = {} /\ ~Known(r.row.machine)
          /\ \E i \in Ids \ removed :
                ~Registered(i) /\ Backend[i] = r.backend /\ Save(i, r.row)
    /\ End(t)
    /\ UNCHANGED <<removed, sched, tick, lock, requests>>

-----------------------------------------------------------------------------
(* update_server                                                           *)

Changed(row, n, u, token) ==
    [row EXCEPT !.name = n, !.url = u, !.token = IF token = None THEN @ ELSE token]

(* Mutant: a rename reaches the schedules of every backend.                 *)
RenamedEverywhere(i, n) ==
    [s \in Schedules |-> IF schedules[s] # None /\ schedules[s].name = rows[i].name
                         THEN [schedules[s] EXCEPT !.name = n] ELSE schedules[s]]

(* rename_schedules_for_server                                             *)
Renamed(i, n) ==
    [s \in Schedules |-> IF SourceOf(s, i) THEN [schedules[s] EXCEPT !.name = n]
                         ELSE schedules[s]]

(* The schedules that name the server i.                                   *)
Following(i) == {s \in Schedules : SourceOf(s, i)}

(* A new name that is free goes into the schedules first, with the lock    *)
(* held until the row is saved; a failure there is logged and passed over. *)
UpdateSchedules(t, i, n, u, token) ==
    /\ Begin(t) /\ Free /\ Registered(i)
    /\ n # rows[i].name => ~Taken(n, Backend[i], i)
    /\ \/ n = rows[i].name /\ UNCHANGED <<schedules, loose>>
       \/ n # rows[i].name /\ schedules' = Renamed(i, n) /\ UNCHANGED loose
       \/ n # rows[i].name /\ loose' = loose \cup Following(i) /\ UNCHANGED schedules
    /\ lock' = t
    /\ Goto(t, [op |-> "save", id |-> i, row |-> Changed(rows[i], n, u, token)])
    /\ UNCHANGED <<rows, removed, meant, tick>>

(* The schedules of the row t was renaming, should the row not be saved.   *)
Torn(t) == {s \in Schedules :
                /\ At(t, "save") /\ schedules[s] # None /\ meant[s] = req[t].id
                /\ req[t].row.name # rows[req[t].id].name}

(* The route then tests the connection, unless the row could not be saved. *)
UpdateRow(t) ==
    /\ At(t, "save")
    /\ \/ /\ Save(req[t].id, req[t].row)
          /\ Goto(t, [op |-> "test", id |-> req[t].id])
          /\ UNCHANGED loose
       \/ /\ loose' = loose \cup Torn(t)
          /\ End(t)
          /\ UNCHANGED rows
    /\ lock' = None
    /\ UNCHANGED <<removed, schedules, meant, tick, requests>>

-----------------------------------------------------------------------------
(* remove_server                                                           *)

Without(i) == [s \in Schedules |-> IF SourceOf(s, i) THEN None ELSE schedules[s]]

(* A schedules.json that cannot be read counts as empty: nothing to remove.*)
RemoveSchedules(t, i) ==
    /\ Begin(t) /\ Free /\ Registered(i)
    /\ \/ schedules' = Without(i) /\ UNCHANGED loose
       \/ loose' = loose \cup Following(i) /\ UNCHANGED schedules
    /\ lock' = t
    /\ Goto(t, [op |-> "drop", id |-> i])
    /\ UNCHANGED <<rows, removed, meant, tick>>

(* The sweep of the files follows without the lock.  The write may fail.   *)
RemoveRow(t) ==
    LET i == req[t].id IN
    /\ At(t, "drop")
    /\ \/ Save(i, None) /\ removed' = removed \cup {i}
       \/ UNCHANGED <<rows, removed>>
    /\ lock' = None
    /\ End(t)
    /\ UNCHANGED <<sched, tick, requests>>

-----------------------------------------------------------------------------
(* test_connection: the URL read is probed, then _record_status finds the  *)
(* row again and writes what the probe said.                               *)

Test(t, i) ==
    /\ Begin(t) /\ Goto(t, [op |-> "test", id |-> i])
    /\ UNCHANGED <<disk, tick, lock>>

TestRead(t) ==
    LET i == req[t].id IN
    /\ At(t, "test") /\ Free
    /\ IF Registered(i) THEN Goto(t, [op |-> "record", id |-> i, row |-> rows[i]])
                        ELSE End(t)
    /\ UNCHANGED <<disk, tick, lock, requests>>

(* Mutant: the row read before the probe is written back.                   *)
RecordStatusOfRead(t) ==
    /\ At(t, "record") /\ Free
    /\ Save(req[t].id, [req[t].row EXCEPT !.machine = Probe(req[t].row.url)])
    /\ End(t)
    /\ UNCHANGED <<removed, sched, tick, lock, requests>>

RecordStatus(t) ==
    LET i == req[t].id IN
    /\ At(t, "record") /\ Free
    /\ \/ UNCHANGED rows                      \* unreachable, or the row is gone
       \/ /\ Registered(i)
          /\ Save(i, [rows[i] EXCEPT !.machine = Probe(req[t].row.url)])
    /\ End(t)
    /\ UNCHANGED <<removed, sched, tick, lock, requests>>

-----------------------------------------------------------------------------
(* retry_pending_token                                                     *)

RetryRead(t, i) ==
    /\ Begin(t) /\ Free /\ Registered(i) /\ rows[i].pending # None
    /\ Goto(t, [op |-> "swap", id |-> i, url |-> rows[i].url, token |-> rows[i].pending])
    /\ UNCHANGED <<disk, tick, lock>>

(* The token that was probed becomes the active one if the row still       *)
(* exists.                                                                 *)
RetrySwap(t) ==
    LET r == req[t]  i == r.id IN
    /\ At(t, "swap") /\ Free
    /\ \/ UNCHANGED rows                      \* the probe failed, or the row is gone
       \/ /\ Registered(i)
          /\ Save(i, [rows[i] EXCEPT !.token = r.token, !.pending = None,
                                     !.machine = IF Probe(r.url) = None THEN @
                                                ELSE Probe(r.url)])
    /\ End(t)
    /\ UNCHANGED <<removed, sched, tick, lock, requests>>

-----------------------------------------------------------------------------
(* The schedules API, which takes the lock of schedules.json only          *)

InWrite(i) == \E t \in Threads : lock = t /\ req[t].id = i

PostSchedule(s, i) ==
    /\ Registered(i) /\ requests < MaxRequests /\ requests' = requests + 1
    /\ schedules' = [schedules EXCEPT ![s] = [name |-> rows[i].name, backend |-> Backend[i]]]
    /\ meant' = [meant EXCEPT ![s] = i]
    /\ loose' = IF InWrite(i) THEN loose \cup {s} ELSE loose \ {s}
    /\ UNCHANGED <<rows, removed, tick, lock, req>>

DeleteSchedule(s) ==
    /\ schedules[s] # None /\ requests < MaxRequests /\ requests' = requests + 1
    /\ schedules' = [schedules EXCEPT ![s] = None]
    /\ UNCHANGED <<rows, removed, meant, loose, tick, lock, req>>

-----------------------------------------------------------------------------
(* The scheduler's tick, which takes the lock of schedules.json for each   *)
(* read and each write but not from the read to the write                  *)

TickLoad ==
    /\ tick = None /\ requests < MaxRequests /\ requests' = requests + 1
    /\ tick' = schedules
    /\ UNCHANGED <<disk, lock, req>>

(* What was edited, renamed or deleted since the read is written over.     *)
Overwritten == {s \in Schedules : tick[s] # None /\ tick[s] # schedules[s]}

(* After each fire, and once more at the end.                              *)
TickSave ==
    /\ tick # None
    /\ schedules' = tick
    /\ loose' = loose \cup Overwritten
    /\ UNCHANGED <<rows, removed, meant, tick, lock, req, requests>>

TickEnd ==
    /\ tick # None /\ tick' = None
    /\ UNCHANGED <<disk, lock, req, requests>>

(* Scheduler._tick forwards the name alone and _resolve_source_connection  *)
(* reads a missing backend as Plex.                                        *)
FiresAt(s) == Resolve(schedules[s].name, "plex")

-----------------------------------------------------------------------------
(* The process dies and starts again: the requests end where they are.     *)
Crash ==
    /\ requests < MaxRequests /\ requests' = requests + 1
    /\ loose' = loose \cup UNION {Torn(t) : t \in Threads}
    /\ tick' = None /\ lock' = None
    /\ req' = [t \in Threads |-> Idle]
    /\ UNCHANGED <<rows, removed, schedules, meant>>

Serve(t) ==
    \/ AddCommit(t) \/ UpdateRow(t) \/ RemoveRow(t) \/ TestRead(t) \/ RecordStatus(t)
    \/ RetrySwap(t)

Accept(t) ==
    \/ \E n \in Names, b \in {Backend[i] : i \in Ids}, u \in Urls, k \in Tokens :
          \E borrow \in Ids \cup {None} : AddProbe(t, n, b, u, k, borrow)
    \/ \E i \in Ids, n \in Names, u \in Urls, k \in Tokens \cup {None} :
          UpdateSchedules(t, i, n, u, k)
    \/ \E i \in Ids : RemoveSchedules(t, i) \/ Test(t, i) \/ RetryRead(t, i)

Next ==
    \/ \E t \in Threads : Accept(t) \/ Serve(t)
    \/ \E s \in Schedules : DeleteSchedule(s) \/ \E i \in Ids : PostSchedule(s, i)
    \/ TickLoad \/ TickSave \/ TickEnd
    \/ Crash

Spec == Init /\ [][Next]_vars

-----------------------------------------------------------------------------
(* Properties                                                              *)

(* Two servers of one backend never share a name, whatever adds commit     *)
(* between the two writes of a rename and after whatever probes            *)
(* (add_server, update_server).                                            *)
NamesStayDistinct ==
    \A i, j \in Ids :
        (Registered(i) /\ Registered(j) /\ Backend[i] = Backend[j]
         /\ rows[i].name = rows[j].name) => i = j

(* A removed row stays removed: a test, a retry or an update that had read *)
(* it does not write it back (_record_status, retry_pending_token).        *)
RemovedStaysRemoved == \A i \in removed : ~Registered(i)

(* Between the writes, the source of a schedule is the server the schedule *)
(* was posted for, through renames, removals, additions under a name given *)
(* up, ticks, failing writes and crashes.  Not so for a loose schedule: one*)
(* posted between the two writes of its server; one whose rename or removal*)
(* could not be written, or whose server's row could not be saved after it,*)
(* or never was for a crash; one the tick wrote an older copy of.          *)
ScheduleKeepsServer ==
    Free => \A s \in Schedules \ loose :
        schedules[s] # None =>
            Resolve(schedules[s].name, schedules[s].backend) = {meant[s]}

(* A schedule fires against the server it was posted for.                  *)
FiresAtItsServer ==
    Free => \A s \in Schedules \ loose :
        schedules[s] # None => FiresAt(s) \subseteq {meant[s]}

=============================================================================
