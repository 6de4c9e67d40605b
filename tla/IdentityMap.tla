----------------------------- MODULE IdentityMap -----------------------------
(* The links between the accounts one human has on several servers: the     *)
(* table user_identity_map, the operator's links and unlinks, the sweep     *)
(* that links accounts with one backend id after every sync of a server's   *)
(* users, the PINs that travel along the links, and the chain by which a    *)
(* restore picks the destination's user.  A request or a sync takes the     *)
(* lock of media.db once per statement, so several of them interleave.      *)
(* Sources: server/media_db/identity.py, managed_users.py,                  *)
(* services/identity/user_resolution.py.                                    *)
EXTENDS Integers, FiniteSets

CONSTANTS
    Logins,          \* the accounts, numbered in the order of server uid and user key
    Servers,
    ServerOf,       \* ServerOf[u]: the server of the account
    Service,        \* Service[s]: 1 Emby, 2 Jellyfin, 3 Plex, in the order of their names
    Account,        \* Account[u]: the backend's own id of the human, None when it tells none
    NameOf,         \* NameOf[u]: the name, in lower case
    Owners,         \* the owners and admins
    Synced,         \* the accounts that have their row in managed_users at the start
    Slugs,          \* the names a server may be given, as numbers in their order
    Threads,        \* the threads that serve requests and background syncs
    Backfill,       \* tunable auto_backfill_pin_from_identity_links
    Strict,         \* tunable strict_identity_resolution
    None,
    MaxOps          \* bound: operations started

Plex == 3

ASSUME IdentityAssumption ==
    /\ Logins \subseteq Nat \ {0} /\ IsFiniteSet(Logins) /\ None \notin Logins
    /\ Synced \subseteq Logins /\ Slugs \subseteq Nat \ {0} /\ 1 \in Slugs
    /\ Backfill \in BOOLEAN /\ Strict \in BOOLEAN

VARIABLES
    rows,       \* user_identity_map
    nextId,     \* its AUTOINCREMENT
    slug,       \* the name of each server in the registry
    stored,     \* the slug in the app_user_uuid of each account's row, 0 without a row
    backend,    \* managed_users.backend_user_id
    pin,        \* the PIN of each row: the account it was typed for, None without one
    op,         \* what each thread does next
    ops,        \* operations started
    torn,       \* history: a link was removed, or an operation was overlapped or cut off
    everLinked  \* history: the pairs of accounts that a row has ever linked

identityVars == <<rows, nextId, slug, stored, backend, pin, op, ops, torn, everLinked>>

-----------------------------------------------------------------------------
(* app_user_uuid is <Service>-<slug of the server's name>-<uid>-<key>.      *)
Uuid(u) == [user |-> u, slug |-> stored[u]]

(* The order of two uuids as strings.                                       *)
Below(x, y) ==
    LET rank(z) == <<Service[ServerOf[z.user]], z.slug, z.user>>
        p == rank(x)
        q == rank(y)
    IN  \/ p[1] < q[1]
        \/ /\ p[1] = q[1] /\ p[2] < q[2]
        \/ /\ p[1] = q[1] /\ p[2] = q[2] /\ p[3] < q[3]

Canonical(x, y) == IF Below(x, y) THEN <<x, y>> ELSE <<y, x>>

(* The account a uuid still names: none once its server was renamed under it. *)
Bears(x) == stored[x.user] = x.slug

(* The uuids reachable from x, which the code finds breadth first: those    *)
(* that no set closed under the links separates from x.                     *)
EndsOf(R) == {r.a : r \in R} \cup {r.b : r \in R}
Class(R, x) ==
    LET nodes == {x} \cup EndsOf(R)
    IN  {y \in nodes : \A S \in SUBSET nodes :
            (x \in S /\ \A r \in R : r.a \in S <=> r.b \in S) => y \in S}

(* The accounts of a class that the tables still know.                      *)
Holders(class) == {x.user : x \in {x \in class : Bears(x)}}

RowsOf(R, p) == {r \in R : <<r.a, r.b>> = p}

(* INSERT OR IGNORE: the unique index is on the ordered pair.               *)
InsertRow(p, src, parent) ==
    IF RowsOf(rows, p) # {} THEN UNCHANGED <<rows, nextId, everLinked>>
    ELSE /\ rows' = rows \cup {[id |-> nextId, a |-> p[1], b |-> p[2], src |-> src,
                                  parent |-> parent]}
         /\ nextId' = nextId + 1
         /\ everLinked' = everLinked \cup {{p[1].user, p[2].user}}

Waiting == [at |-> "idle"]
Busy == {t \in Threads : op[t] # Waiting}

IdentityInit ==
    /\ rows = {} /\ nextId = 1
    /\ slug = [s \in Servers |-> 1]
    /\ stored = [u \in Logins |-> IF u \in Synced THEN 1 ELSE 0]
    /\ backend = [u \in Logins |-> None]
    /\ pin = [u \in Logins |-> None]
    /\ op = [t \in Threads |-> Waiting] /\ ops = 0
    /\ torn = FALSE /\ everLinked = {}

(* An operation starts; two that overlap are told apart from two in turn.   *)
Start(t) ==
    /\ op[t] = Waiting /\ ops < MaxOps
    /\ ops' = ops + 1
    /\ torn' = (torn \/ Busy # {})

-----------------------------------------------------------------------------
(* add_identity_map.                                                        *)

(* The classes of both ends are read before anything is written.            *)
Read(t, x, y, src, left) ==
    op' = [op EXCEPT ![t] = [at |-> "insert", a |-> x, b |-> y, src |-> src, left |-> left,
                             ca |-> Class(rows, x), cb |-> Class(rows, y)]]

(* The operator links two accounts.                                         *)
Link(t, u, v) ==
    /\ Start(t)
    /\ u # v /\ stored[u] # 0 /\ stored[v] # 0
    /\ Read(t, Uuid(u), Uuid(v), "manual", {})
    /\ UNCHANGED <<rows, nextId, slug, stored, backend, pin, everLinked>>

(* The pairs the fan-out has to write: every member with every member.      *)
FanPairs(o) == {Canonical(p[1], p[2]) : p \in {p \in o.ca \X o.cb : p[1] # p[2]}}
                 \ {Canonical(o.a, o.b)}

(* The link itself.  The id of a row that was there already is looked up    *)
(* for its derived rows.                                                    *)
Insert(t) ==
    LET o == op[t]
        p == Canonical(o.a, o.b)
        there == RowsOf(rows, p)
        id == IF there = {} THEN nextId ELSE (CHOOSE r \in there : TRUE).id
    IN  /\ o.at = "insert"
        /\ InsertRow(p, o.src, 0)
        /\ op' = [op EXCEPT ![t] = [at |-> "fan", a |-> o.a, left |-> o.left,
                                    parent |-> id, todo |-> FanPairs(o)]]
        /\ UNCHANGED <<slug, stored, backend, pin, ops, torn>>

(* One derived row; each takes the lock anew.                               *)
Fan(t) ==
    LET o == op[t]
    IN  /\ o.at = "fan"
        /\ \E p \in o.todo :
             /\ \A q \in o.todo :
                   p = q \/ Below(p[1], q[1]) \/ (p[1] = q[1] /\ Below(p[2], q[2]))
             /\ InsertRow(p, "auto_copy", o.parent)
             /\ op' = [op EXCEPT ![t].todo = @ \ {p}]
        /\ UNCHANGED <<slug, stored, backend, pin, ops, torn>>

(* The rows of the class and their PINs, read without the lock.  updated_at *)
(* moves with every metadata write, so the PIN found may be of any of them. *)
FillRead(t) ==
    LET o == op[t]
        held == Holders(Class(rows, o.a))
        typed == {u \in held : pin[u] # None}
    IN  /\ o.at = "fan" /\ o.todo = {}
        /\ \/ /\ Backfill /\ typed # {}
              /\ \E u \in typed :
                    op' = [op EXCEPT ![t] = [at |-> "fill", left |-> o.left, pin |-> pin[u],
                                             empty |-> held \ typed]]
           \/ /\ ~Backfill \/ typed = {}
              /\ op' = [op EXCEPT ![t] = [at |-> "next", left |-> o.left]]
        /\ UNCHANGED <<rows, nextId, slug, stored, backend, pin, ops, torn, everLinked>>

(* The write trusts what the read saw to be empty.                          *)
FillWrite(t) ==
    LET o == op[t]
    IN  /\ o.at = "fill"
        /\ pin' = [u \in Logins |-> IF u \in o.empty THEN o.pin ELSE pin[u]]
        /\ op' = [op EXCEPT ![t] = [at |-> "next", left |-> o.left]]
        /\ UNCHANGED <<rows, nextId, slug, stored, backend, ops, torn, everLinked>>

(* A request is answered; a sweep goes on to its next pair.                 *)
NextPair(t) ==
    /\ op[t].at = "next"
    /\ \/ op[t].left = {} /\ op' = [op EXCEPT ![t] = Waiting]
       \/ \E p \in op[t].left :
             /\ \A q \in op[t].left : \/ p[1].user < q[1].user
                                      \/ p[1].user = q[1].user /\ p[2].user <= q[2].user
             /\ Read(t, p[1], p[2], "auto_copy", op[t].left \ {p})
    /\ UNCHANGED <<rows, nextId, slug, stored, backend, pin, ops, torn, everLinked>>

(* delete_identity_map: the rows derived from it go with it, in one lock.   *)
Without(id) == {r \in rows : r.id # id /\ r.parent # id}

Unlink(id) ==
    /\ ops < MaxOps /\ ops' = ops + 1
    /\ id \in {r.id : r \in rows}
    /\ rows' = Without(id)
    /\ torn' = TRUE
    /\ UNCHANGED <<nextId, slug, stored, backend, pin, op, everLinked>>

-----------------------------------------------------------------------------
(* sync_managed_users_from_live.                                            *)

(* A new row gets a uuid; one that is there keeps its own.                  *)
UuidSlug(u, s) == IF ServerOf[u] = s /\ stored[u] = 0 THEN slug[s] ELSE stored[u]

(* Every account the server lists is upserted; no backend id is stored here. *)
Upsert(t, s) ==
    /\ Start(t)
    /\ stored' = [u \in Logins |-> UuidSlug(u, s)]
    /\ op' = [op EXCEPT ![t] = [at |-> "share", server |-> s]]
    /\ UNCHANGED <<rows, nextId, slug, backend, pin, everLinked>>

(* The share state of a Plex server tells the ids; a failed fetch, or a     *)
(* server of another service, leaves them as they are.                      *)
RefreshShares(t) ==
    /\ op[t].at = "share"
    /\ \/ /\ Service[ServerOf[CHOOSE u \in Logins : ServerOf[u] = op[t].server]] = Plex
          /\ backend' = [u \in Logins |->
                IF ServerOf[u] = op[t].server /\ stored[u] # 0 /\ backend[u] = None
                THEN Account[u] ELSE backend[u]]
       \/ UNCHANGED backend
    /\ op' = [op EXCEPT ![t] = [at |-> "sweep"]]
    /\ UNCHANGED <<rows, nextId, slug, stored, pin, ops, torn, everLinked>>

(* Accounts of one backend id, at most one of each server.                  *)
Paired(u, v) ==
    /\ stored[u] # 0 /\ stored[v] # 0 /\ ServerOf[u] # ServerOf[v]
    /\ backend[u] # None /\ backend[u] = backend[v]
    /\ Service[ServerOf[u]] = Service[ServerOf[v]]

SweepPairs == {p \in Logins \X Logins : p[1] < p[2] /\ Paired(p[1], p[2])}

(* The sweep over all servers reads its pairs once, then adds them in turn. *)
Sweep(t) ==
    /\ op[t].at = "sweep"
    /\ op' = [op EXCEPT ![t] = [at |-> "next", left |->
                {<<Uuid(p[1]), Uuid(p[2])>> : p \in SweepPairs}]]
    /\ UNCHANGED <<rows, nextId, slug, stored, backend, pin, ops, torn, everLinked>>

-----------------------------------------------------------------------------
(* set_managed_user_credential with a PIN, and its way along the links.     *)

SetPin(t, u, value, cross) ==
    /\ Start(t)
    /\ stored[u] # 0 /\ pin[u] # value
    /\ pin' = [pin EXCEPT ![u] = value]
    /\ op' = [op EXCEPT ![t] = [at |-> "class", user |-> u, value |-> value, cross |-> cross]]
    /\ UNCHANGED <<rows, nextId, slug, stored, backend, everLinked>>

(* The class is read outside the lock ...                                   *)
FindLinked(t) ==
    LET o == op[t]
    IN  /\ o.at = "class"
        /\ op' = [op EXCEPT ![t] = [at |-> "spread", user |-> o.user, value |-> o.value,
                                    cross |-> o.cross, class |-> Class(rows, Uuid(o.user))]]
        /\ UNCHANGED <<rows, nextId, slug, stored, backend, pin, ops, torn, everLinked>>

(* Mutant: a PIN goes to the rows of the service without looking at links.  *)
ReachedByService(o) ==
    {u \in Logins : stored[u] # 0 /\ Service[ServerOf[u]] = Service[ServerOf[o.user]]}

(* ... and the rows that still bear their uuid are written in one.          *)
Reached(o) ==
    {u \in Holders(o.class) : o.cross \/ Service[ServerOf[u]] = Service[ServerOf[o.user]]}

Spread(t) ==
    LET o == op[t]
    IN  /\ o.at = "spread"
        /\ pin' = [u \in Logins |-> IF u \in Reached(o) \ {o.user} THEN o.value ELSE pin[u]]
        /\ op' = [op EXCEPT ![t] = Waiting]
        /\ UNCHANGED <<rows, nextId, slug, stored, backend, ops, torn, everLinked>>

-----------------------------------------------------------------------------
(* A server is renamed: the slug changes in every uuid of its accounts, in  *)
(* their rows and in the links, in one lock.  What a thread has read keeps  *)
(* the old one.                                                             *)
Renamed(x, s, n) == IF ServerOf[x.user] = s THEN [x EXCEPT !.slug = n] ELSE x

RenamedRows(s, n) ==
    {[r EXCEPT !.a = Renamed(@, s, n), !.b = Renamed(@, s, n)] : r \in rows}

(* A row whose new pair another row has already is dropped.                 *)
Collides(r, s, n) ==
    LET to == [r EXCEPT !.a = Renamed(@, s, n), !.b = Renamed(@, s, n)]
    IN  \E q \in RenamedRows(s, n) :
            q.id # r.id /\ q.a = to.a /\ q.b = to.b /\ (q \in rows \/ (to # r /\ q.id < r.id))

RenameServer(s, n) ==
    /\ ops < MaxOps /\ ops' = ops + 1
    /\ n # slug[s] /\ slug' = [slug EXCEPT ![s] = n]
    /\ stored' = [u \in Logins |-> IF ServerOf[u] = s /\ stored[u] # 0 THEN n ELSE stored[u]]
    /\ rows' = {[r EXCEPT !.a = Renamed(@, s, n), !.b = Renamed(@, s, n)] :
                    r \in {r \in rows : ~Collides(r, s, n)}}
    /\ torn' = (torn \/ Busy # {})
    /\ UNCHANGED <<nextId, backend, pin, op, everLinked>>

(* The process ends; what was written stays.                                *)
Restart ==
    /\ Busy # {} /\ ops < MaxOps /\ ops' = ops + 1
    /\ op' = [t \in Threads |-> Waiting] /\ torn' = TRUE
    /\ UNCHANGED <<rows, nextId, slug, stored, backend, pin, everLinked>>

-----------------------------------------------------------------------------
(* resolve_destination_user: who gets the history of u on server s.         *)

Roster(s) == {v \in Logins : ServerOf[v] = s}

LinkedOn(u, s) ==
    {r \in rows : \E v \in Roster(s) : stored[v] # 0 /\ {r.a, r.b} = {Uuid(u), Uuid(v)} /\ v # u}

(* The oldest link decides.                                                 *)
ByLink(u, s) ==
    LET r == CHOOSE r \in LinkedOn(u, s) : \A q \in LinkedOn(u, s) : r.id <= q.id
    IN  IF r.a = Uuid(u) THEN r.b.user ELSE r.a.user

ByAccount(u, s) ==
    {v \in Roster(s) : /\ Account[u] # None /\ Account[v] = Account[u]
                       /\ Service[s] = Service[ServerOf[u]]}
ByName(u, s) == {v \in Roster(s) : NameOf[v] = NameOf[u]}
Admins(s) == Roster(s) \cap Owners

(* Mutant: the name is asked before the links.                              *)
ResolveUserByName(u, s) ==
    IF ByName(u, s) # {} THEN CHOOSE v \in ByName(u, s) : TRUE
    ELSE IF LinkedOn(u, s) # {} THEN ByLink(u, s) ELSE None

ResolveUser(u, s) ==
    CASE LinkedOn(u, s) # {} -> ByLink(u, s)
      [] LinkedOn(u, s) = {} /\ ByAccount(u, s) # {} -> CHOOSE v \in ByAccount(u, s) : TRUE
      [] OTHER ->
           IF Strict THEN None
           ELSE IF ByName(u, s) # {} THEN CHOOSE v \in ByName(u, s) : TRUE
           ELSE IF u \in Owners /\ Cardinality(Admins(s)) = 1 THEN CHOOSE v \in Admins(s) : TRUE
           ELSE None

-----------------------------------------------------------------------------
IdentityNext ==
    \/ \E t \in Threads :
        \/ \E u, v \in Logins : Link(t, u, v)
        \/ Insert(t) \/ Fan(t) \/ FillRead(t) \/ FillWrite(t) \/ NextPair(t)
        \/ \E s \in Servers : Upsert(t, s)
        \/ RefreshShares(t) \/ Sweep(t)
        \/ \E u \in Logins, cross \in BOOLEAN :
              \E value \in {u, None} : SetPin(t, u, value, cross)
        \/ FindLinked(t) \/ Spread(t)
    \/ \E id \in 1..(nextId - 1) : Unlink(id)
    \/ \E s \in Servers, n \in Slugs : RenameServer(s, n)
    \/ Restart

IdentitySpec == IdentityInit /\ [][IdentityNext]_identityVars

-----------------------------------------------------------------------------
Settled == Busy = {} /\ ~torn

(* A chain of pairs that were linked at some time joins two accounts when   *)
(* no set of accounts that splits no pair separates them.                   *)
Splits(S, p) == p \cap S # {} /\ ~(p \subseteq S)
Joined(u, v) ==
    \A S \in SUBSET Logins : (u \in S /\ \A p \in everLinked : ~Splits(S, p)) => v \in S

(* A PIN is only ever on the account it was typed for or on one that a      *)
(* chain of links has at some time joined to it, whatever interleaves with  *)
(* the copies.                                                              *)
PinStaysInFamily ==
    \A u \in Logins : pin[u] # None => pin[u] \in Logins /\ Joined(u, pin[u])

(* When someone of the class of u has an account on s, the history of u     *)
(* goes to an account of the class there, never to a namesake.              *)
RestoreFindsFamily ==
    Settled => \A u \in Logins : \A s \in Servers \ {ServerOf[u]} :
        LET family == Holders(Class(rows, Uuid(u)))
        IN  family \cap Roster(s) # {} => ResolveUser(u, s) \in family

=============================================================================
