---------------------------- MODULE MCServerMirror ---------------------------
(* The three caches of what is on a server, in one run of TLC: a behaviour  *)
(* is one of ServerMirror, PlaylistCache or CollectionCache, and the others *)
(* stay in an initial state.                                                *)
EXTENDS ServerMirror, PlaylistCache, CollectionCache, TLC

VARIABLE part   \* whose behaviour this is
CONSTANTS s, a, b, op, warm

(* Mirror: one section, two items, one walker of the API and one that warms.*)
MCHome == [k \in {a, b} |-> s]
MCLive == [k \in {a, b} |-> IF k = a THEN 0 ELSE 1]

(* Playlists: a user known by its uuid, whose account has no id, and one    *)
(* that is not in managed_users yet.                                        *)
MCLists == [u \in Users |-> {"mix"}]

-----------------------------------------------------------------------------
CachesInit ==
    /\ part \in {"mirror", "playlists", "collections"}
    /\ Init /\ ListsInit /\ MembersInit

CachesNext ==
    \/ part = "mirror" /\ Next /\ UNCHANGED <<listVars, memberVars, part>>
    \/ part = "playlists" /\ ListsNext /\ UNCHANGED <<vars, memberVars, part>>
    \/ part = "collections" /\ MembersNext /\ UNCHANGED <<vars, listVars, part>>

CachesSpec ==
    /\ CachesInit /\ [][CachesNext]_<<vars, listVars, memberVars, part>>
    /\ \A w \in Walkers : WF_vars(part = "mirror" /\ WalkerStep(w))
=============================================================================
