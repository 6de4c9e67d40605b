---------------------------- MODULE PlaylistCache ----------------------------
(***************************************************************************)
(* The cache of the users' playlists on one server: the readers of the     *)
(* playlist view (services/playlist_copy/adapter/cache_api.py), the three  *)
(* kinds of refresh (of a user, of a server, by the daemon of              *)
(* cache_refresher.py) and the statements of server/playlist_cache_db.py   *)
(* each of them makes.  Every statement commits by itself, and a reader    *)
(* takes no lock: requests, refreshes and a crash interleave between any   *)
(* two of them.  A row is one playlist of one user; its members go with it.*)
(***************************************************************************)
EXTENDS Naturals, FiniteSets

CONSTANTS
    Users, Playlists,
    Tagged,          \* users with a managed_users row: their rows carry its uuid
    WithId,          \* users whose account has a backend_user_id
    Callers,         \* threads: requests and the daemon
    Lists0,          \* the playlists of each user on the server
    MaxCalls, MaxEdits, MaxLost

ASSUME CacheAssumption ==
    /\ Users # {}   \* the owner at least
    /\ Tagged \subseteq Users /\ WithId \subseteq Users
    /\ Lists0 \in [Users -> SUBSET Playlists]

Handles == {"id", "name"}   \* what a caller may pass for a user

VARIABLES
    onServer,  \* onServer[user]: the playlists on the server
    cached,    \* playlist_cache
    marker,    \* playlist_cache_refresh, by key
    caller,    \* what each thread does
    busy,      \* JobQueue.busy
    calls, listEdits, lost

listVars == <<onServer, cached, marker, caller, busy, calls, listEdits, lost>>

CacheKeys == Users \X Handles

(* What a marker stands for: the list the server gave (with what was looked *)
(* up since), and whether the refresh had the user's rows to itself and     *)
(* lost no write.                                                           *)
Ok(listed, sound) == [is |-> "ok", listed |-> listed, sound |-> sound]
Error == [is |-> "error", listed |-> {}, sound |-> FALSE]
NoMarker == [is |-> "none", listed |-> {}, sound |-> FALSE]

(* left: the keys a refresh has still to do; listed, todo: what the server  *)
(* gave and what of it is not written yet; sound: as in a marker.           *)
Resting == [pc |-> "idle", left |-> {}, daemon |-> FALSE,
            user |-> CHOOSE u \in Users : TRUE, handle |-> "name",
            listed |-> {}, todo |-> {}, sound |-> FALSE]

ListsInit ==
    /\ onServer = Lists0 /\ cached = {} /\ marker = [k \in CacheKeys |-> NoMarker]
    /\ caller = [t \in Callers |-> Resting] /\ busy = FALSE
    /\ calls = 0 /\ listEdits = 0 /\ lost = 0

-----------------------------------------------------------------------------
(* The database                                                            *)

(* cache_uid: the backend's id, and what the caller passed without one.    *)
CacheKey(u, h) == <<u, IF u \in WithId THEN "id" ELSE h>>

(* A row or marker under key k is found for user u asked by handle h: by   *)
(* the uuid, or without one by the very key.                               *)
Found(k, u, h) == IF u \in Tagged THEN k[1] = u ELSE k = <<u, h>>

Markers(u, h) == {marker[k] : k \in {k \in CacheKeys : marker[k] # NoMarker /\ Found(k, u, h)}}
ListCached(u, h) == {r.playlist : r \in {r \in cached : Found(r.key, u, h)}}

(* Mutant: only by the key.                                                *)
ClearedByKey(k, u, key) == k = key

(* clear_user_cache: by the key or by the uuid.                            *)
Cleared(k, u, key) == k = key \/ (u \in Tagged /\ k[1] = u)

WithMarker(k, m) == [marker EXCEPT ![k] = m]

Doubtful(m) == [m EXCEPT !.sound = FALSE]

-----------------------------------------------------------------------------
(* Threads                                                                 *)

Writing == {"clear", "unmark", "write", "detail"}
WritersOf(u) == {t \in Callers : caller[t].pc \in Writing /\ caller[t].user = u}

(* A refresh of u starts to work on its rows: none of those under way for  *)
(* the same user is alone any more.                                        *)
Crowded(u) == [t \in Callers |-> IF t \in WritersOf(u) THEN [caller[t] EXCEPT !.sound = FALSE]
                                 ELSE caller[t]]
Turn(t, rec) == caller' = [caller EXCEPT ![t] = rec]
Proceed(t, pc) == Turn(t, [caller[t] EXCEPT !.pc = pc])

Lose == lost < MaxLost /\ lost' = lost + 1
At(t, pc) == caller[t].pc = pc
Call == calls < MaxCalls /\ calls' = calls + 1

(* The next user of a refresh, or the end of the call.                     *)
After(t) == IF caller[t].left = {} THEN Resting
            ELSE [Resting EXCEPT !.pc = "next", !.left = caller[t].left,
                                 !.daemon = caller[t].daemon]
Asking(pc, left, daemon, u, h) ==
    [Resting EXCEPT !.pc = pc, !.left = left, !.daemon = daemon, !.user = u, !.handle = h]

(* list_user_playlists, get_playlist_detail, refresh_user_cache            *)
Ask(t, u, h) ==
    /\ At(t, "idle") /\ Call
    /\ \E pc \in {"read", "connect"} : Turn(t, Asking(pc, {}, FALSE, u, h))
    /\ UNCHANGED <<onServer, cached, marker, busy, listEdits, lost>>

(* refresh_server_cache: every user, by its id or else its name.           *)
RefreshServer(t) ==
    /\ At(t, "idle") /\ Call
    /\ Turn(t, [Resting EXCEPT !.pc = "next",
                !.left = {<<u, IF u \in WithId THEN "id" ELSE "name">> : u \in Users}])
    /\ UNCHANGED <<onServer, cached, marker, busy, listEdits, lost>>

(* _refresh_loop: a pass over the keys of the rows, unless a job runs.     *)
DaemonPass(t) ==
    /\ At(t, "idle") /\ ~busy /\ cached # {} /\ Call
    /\ \A s \in Callers : caller[s].pc # "idle" => ~caller[s].daemon
    /\ Turn(t, [Resting EXCEPT !.pc = "next", !.daemon = TRUE, !.left = {r.key : r \in cached}])
    /\ UNCHANGED <<onServer, cached, marker, busy, listEdits, lost>>

(* The daemon gives the rest of its pass up when a job has come.           *)
NextUser(t) ==
    /\ At(t, "next")
    /\ IF caller[t].daemon /\ busy THEN Turn(t, Resting)
       ELSE \E k \in caller[t].left :
              Turn(t, Asking("connect", caller[t].left \ {k}, caller[t].daemon, k[1], k[2]))
    /\ UNCHANGED <<onServer, cached, marker, busy, calls, listEdits, lost>>

-----------------------------------------------------------------------------
(* Reading                                                                 *)

(* The marker decides; of two of one user the statement gives either.      *)
ReadMarker(t) ==
    LET c == caller[t] IN
    /\ At(t, "read")
    /\ \/ \E m \in Markers(c.user, c.handle) : m.is = "ok" /\ Proceed(t, "rows")
       \/ Proceed(t, "connect")   \* none, an error or too old
    /\ UNCHANGED <<onServer, cached, marker, busy, calls, listEdits, lost>>

(* The rows are read with a second statement and served.                   *)
ReadRows(t) ==
    /\ At(t, "rows") /\ Turn(t, Resting)
    /\ UNCHANGED <<onServer, cached, marker, busy, calls, listEdits, lost>>

-----------------------------------------------------------------------------
(* _live_list_and_cache                                                    *)

(* A failed connection is marked under the handle that was passed, a user  *)
(* that is not found not at all.                                           *)
Connect(t) ==
    LET c == caller[t] IN
    /\ At(t, "connect")
    /\ \/ /\ Lose /\ Turn(t, After(t))
          /\ marker' \in {marker, WithMarker(<<c.user, c.handle>>, Error)}
       \/ /\ Proceed(t, "list") /\ UNCHANGED <<marker, lost>>
    /\ UNCHANGED <<onServer, cached, busy, calls, listEdits>>

(* The list of the server; a failure is marked under the handle.           *)
List(t) ==
    LET c == caller[t]  u == c.user IN
    /\ At(t, "list")
    /\ \/ /\ Lose /\ marker' = WithMarker(<<u, c.handle>>, Error) /\ Turn(t, After(t))
       \/ /\ caller' = [Crowded(u) EXCEPT ![t] =
                [c EXCEPT !.pc = "clear", !.listed = onServer[u], !.todo = onServer[u],
                          !.sound = WritersOf(u) = {}]]
          /\ UNCHANGED <<marker, lost>>
    /\ UNCHANGED <<onServer, cached, busy, calls, listEdits>>

Doubted(u, key) == [k \in CacheKeys |-> IF Cleared(k, u, key) THEN Doubtful(marker[k]) ELSE marker[k]]

(* clear_user_cache deletes the rows, then the marker; its errors are      *)
(* swallowed.                                                              *)
Clear(t) ==
    LET c == caller[t]  key == CacheKey(c.user, c.handle) IN
    /\ At(t, "clear")
    /\ \/ /\ Lose /\ Turn(t, [c EXCEPT !.pc = "write", !.sound = FALSE])
          /\ marker' = Doubted(c.user, key) /\ UNCHANGED cached
       \/ /\ cached' = {r \in cached : ~Cleared(r.key, c.user, key)}
          /\ Proceed(t, "unmark") /\ UNCHANGED <<marker, lost>>
    /\ UNCHANGED <<onServer, busy, calls, listEdits>>

Unmark(t) ==
    LET c == caller[t]  key == CacheKey(c.user, c.handle) IN
    /\ At(t, "unmark")
    /\ \/ /\ Lose /\ Turn(t, [c EXCEPT !.pc = "write", !.sound = FALSE])
          /\ marker' = Doubted(c.user, key)
       \/ /\ marker' = [k \in CacheKeys |-> IF Cleared(k, c.user, key) THEN NoMarker ELSE marker[k]]
          /\ Proceed(t, "write") /\ UNCHANGED lost
    /\ UNCHANGED <<onServer, cached, busy, calls, listEdits>>

(* upsert_playlist, a transaction of its own; a lost one is only logged.   *)
Write(t) ==
    LET c == caller[t] IN
    /\ At(t, "write")
    /\ \E p \in c.todo :
          \/ /\ Lose /\ Turn(t, [c EXCEPT !.todo = @ \ {p}, !.sound = FALSE]) /\ UNCHANGED cached
          \/ /\ cached' = cached \cup {[key |-> CacheKey(c.user, c.handle), playlist |-> p]}
             /\ Turn(t, [c EXCEPT !.todo = @ \ {p}]) /\ UNCHANGED lost
    /\ UNCHANGED <<onServer, marker, busy, calls, listEdits>>

(* record_refresh                                                          *)
Mark(t) ==
    LET c == caller[t] IN
    /\ At(t, "write") /\ c.todo = {} /\ Turn(t, After(t))
    /\ \/ Lose /\ UNCHANGED marker
       \/ /\ marker' = WithMarker(CacheKey(c.user, c.handle), Ok(c.listed, c.sound))
          /\ UNCHANGED lost
    /\ UNCHANGED <<onServer, cached, busy, calls, listEdits>>

-----------------------------------------------------------------------------
(* get_playlist_detail: one playlist is listed and written by itself, with *)
(* no change to the marker.                                                *)
Detail(t, p) ==
    LET c == caller[t]  u == c.user IN
    /\ At(t, "list") /\ c.left = {} /\ ~c.daemon /\ p \in onServer[u]
    /\ caller' = [Crowded(u) EXCEPT ![t] =
          [c EXCEPT !.pc = "detail", !.todo = {p}, !.sound = WritersOf(u) = {}]]
    /\ UNCHANGED <<onServer, cached, marker, busy, calls, listEdits, lost>>

Looked(m, p, sound) == IF m.is = "ok" THEN Ok(m.listed \cup {p}, m.sound /\ sound) ELSE m

WriteDetail(t) ==
    LET c == caller[t]  u == c.user IN
    /\ At(t, "detail") /\ Turn(t, Resting)
    /\ \/ Lose /\ UNCHANGED <<cached, marker>>
       \/ \E p \in c.todo :
          /\ cached' = cached \cup {[key |-> CacheKey(u, c.handle), playlist |-> p]}
          /\ marker' = [k \in CacheKeys |-> IF Found(CacheKey(u, c.handle), u, k[2]) /\ k[1] = u
                                       THEN Looked(marker[k], p, c.sound) ELSE marker[k]]
          /\ UNCHANGED lost
    /\ UNCHANGED <<onServer, busy, calls, listEdits>>

-----------------------------------------------------------------------------
(* The environment                                                         *)

EditList(u, p) ==
    /\ listEdits < MaxEdits /\ listEdits' = listEdits + 1
    /\ onServer' = [onServer EXCEPT ![u] = IF p \in @ THEN @ \ {p} ELSE @ \cup {p}]
    /\ UNCHANGED <<cached, marker, caller, busy, calls, lost>>

QueueChanges ==
    /\ \E t \in Callers : caller[t].pc = "next" /\ caller[t].daemon
    /\ busy' = ~busy
    /\ UNCHANGED <<onServer, cached, marker, caller, calls, listEdits, lost>>

(* A crash between the two deletions leaves a marker without its rows.     *)
Crash ==
    /\ Lose /\ caller' = [t \in Callers |-> Resting] /\ busy' = FALSE
    /\ marker' = [k \in CacheKeys |->
          IF \E t \in WritersOf(k[1]) : caller[t].pc = "unmark"
          THEN Doubtful(marker[k]) ELSE marker[k]]
    /\ UNCHANGED <<onServer, cached, calls, listEdits>>

ListsNext ==
    \/ \E t \in Callers :
          \/ \E u \in Users, h \in Handles : Ask(t, u, h)
          \/ RefreshServer(t) \/ DaemonPass(t) \/ NextUser(t)
          \/ ReadMarker(t) \/ ReadRows(t)
          \/ Connect(t) \/ List(t) \/ Clear(t) \/ Unmark(t) \/ Write(t) \/ Mark(t)
          \/ \E p \in Playlists : Detail(t, p)
          \/ WriteDetail(t)
    \/ \E u \in Users, p \in Playlists : EditList(u, p)
    \/ QueueChanges \/ Crash

ListsSpec == ListsInit /\ [][ListsNext]_listVars

-----------------------------------------------------------------------------
(* What a reader is given without asking the server is one list the server *)
(* gave, with the playlists that were looked up since, whichever of its    *)
(* handles the user is asked by and wherever a later refresh crashed: never*)
(* a mixture of two refreshes, nor part of one (list_user_playlists). Left *)
(* out are refreshes of one user that overlapped or lost a write.          *)
ServedIsOneListing ==
    \A u \in Users, h \in Handles : WritersOf(u) = {} =>
        \A m \in Markers(u, h) : (m.is = "ok" /\ m.sound) => ListCached(u, h) = m.listed
=============================================================================
