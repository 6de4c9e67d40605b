------------------------------ MODULE MCStores -------------------------------
(* The sessions, the snapshot store and the media database, in one run of   *)
(* TLC: a behaviour is one of AuthSessions, SnapshotStore or MediaDb, and   *)
(* the others stay in an initial state.                                     *)
EXTENDS AuthSessions, SnapshotStore, MediaDb, TLC

VARIABLE part   \* whose behaviour this is
CONSTANTS u1, u2, b1, b2, h1, h2,
          sa, sb, la, lb, ka, kb, ga, gb, gc   \* of the media database

-----------------------------------------------------------------------------
(* Sessions: two accounts, two browsers and two requests at a time.         *)

MCUsers == {u1, u2}
MCBrowsers == {b1, b2}
MCHandlers == {h1, h2}
Twins == Permutations(MCUsers) \cup Permutations(MCBrowsers) \cup Permutations(MCHandlers)
MCInitialRoles == {f \in [MCUsers -> {"root_admin", "admin"}] : \E u \in MCUsers : f[u] = "root_admin"}

-----------------------------------------------------------------------------
(* The media database: two servers with a title each, which is a film known *)
(* by one or by two GUIDs, or another film.                                 *)

MCServers == {sa, sb}
MCLibraries == {la, lb}
MCKeys == {ka, kb}
MCServerOf == (la :> sa) @@ (lb :> sb)
MCLibOf == (ka :> la) @@ (kb :> lb)
MCPriority == <<"imdb", "tmdb">>

GuidsOf(imdb, tmdb) == [imdb |-> imdb, tmdb |-> tmdb]
MCGuids == {GuidsOf(ga, Nil), GuidsOf(ga, gb), GuidsOf(Nil, gc)}
MCFilmOf == (ga :> "film") @@ (gb :> "film") @@ (gc :> "other film")
MCWorld0 == (ka :> GuidsOf(ga, Nil)) @@ (kb :> GuidsOf(ga, gb))

Budget(captures, walks) == [capture |-> captures, walk |-> walks, change |-> 1, prune |-> 1]
MCBudgets == {Budget(2, 1), Budget(1, 2)}

-----------------------------------------------------------------------------
StoresInit ==
    /\ part \in {"sessions", "snapshots", "media"}
    /\ Init /\ (part = "sessions" \/ \A u \in Users : role[u] = "root_admin")
    /\ StoreInit
    /\ MediaInit /\ (part = "media" \/ left = Budget(2, 1))

StoresNext ==
    \/ part = "sessions" /\ Next /\ UNCHANGED <<storeVars, mediaVars, part>>
    \/ part = "snapshots" /\ StoreNext /\ UNCHANGED <<vars, mediaVars, part>>
    \/ part = "media" /\ MediaNext /\ UNCHANGED <<vars, storeVars, part>>

StoresSpec == StoresInit /\ [][StoresNext]_<<vars, storeVars, mediaVars, part>>
==============================================================================
