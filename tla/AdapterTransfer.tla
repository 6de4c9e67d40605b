--------------------------- MODULE AdapterTransfer ---------------------------
(* A transfer with a Jellyfin or Emby server on one of its sides.  A        *)
(* "direct" job captures the source into a payload in memory and restores   *)
(* that to the destination; a "file" job restores the payload of a snapshot *)
(* file.  A restore first checks that the source's owner has an account to  *)
(* go to, then replays each library: the rows at the top of its payload to  *)
(* the destination's owner, and each user's block to the account that the   *)
(* resolver finds; a Replace ends with a sweep.                             *)
(* Sources: services/snapshot/adapter/snapshotter.py,                       *)
(* services/restore/adapter/{preflight,restorer}.py, mixed_media.py.        *)
EXTENDS Naturals, Sequences, FiniteSets

CONSTANTS
    SrcOwner, SrcUsers,    \* the owner and the other accounts of the source
    DstOwner, DstUsers,    \* DstUsers includes the owner
    Libs,                  \* the libraries of the job, in order
    LibraryOf, Audio,      \* of each item its library; the items of family audio
    Known, DstLibs,        \* items and libraries that the destination has
    History,               \* History[user][item] = [plays, begun, stars, liked]
    Lists, Collections,    \* Lists[user]: its playlists [name, smart, items]
    Plays0, Containers0,   \* the destination's play counts and containers
    Replays,
    MaxRefusals            \* bound: calls that fail

Top == "top"           \* the rows beside the users' blocks
Nobody == "nobody"     \* no account of the destination
Accounts == SrcUsers \cup {SrcOwner}
MediaItems == DOMAIN LibraryOf

ASSUME AdapterAssumption ==
    /\ SrcOwner \notin SrcUsers /\ Top \notin Accounts
    /\ DstOwner \in DstUsers /\ Nobody \notin DstUsers
    /\ Len(Libs) \in Nat /\ DOMAIN Libs = 1..Len(Libs)
    /\ Known \subseteq MediaItems /\ Audio \subseteq MediaItems
    /\ \A i \in MediaItems : \E n \in DOMAIN Libs : Libs[n] = LibraryOf[i]
    /\ \A r \in Replays : r.mixed \in {"skip", "split", "dominant"} /\ Top \notin r.filter
    /\ \A u \in Accounts, i \in MediaItems : History[u][i].plays \in Nat /\ History[u][i].stars \in Nat
    /\ \A u \in Accounts : \A l \in Lists[u] :
          l = [name |-> l.name, smart |-> l.smart, items |-> l.items]
    /\ Plays0 \in [DstUsers -> [MediaItems -> Nat]]
    /\ IsFiniteSet(Containers0)
    /\ \A b \in Containers0 : b.id \in 1..Cardinality(Containers0)

RowKinds == {"watch", "ratings", "playlists", "collections"}
Loved == 10            \* favorite_as_rating_value
Threshold == 5         \* favorite_threshold

VARIABLES
    replay,   \* the settings, and who has which account; constant
    pc,       \* the step that comes next
    at,       \* the library it works on
    left,     \* the users of that library who are left to capture
    payload,  \* payload[n][block], of the libraries captured so far
    lists,    \* the playlists as they were read before the libraries
    pending,  \* what is left to write of a block, or to sweep
    plays, stars, liked,   \* of each destination account and item
    containers, \* the destination's playlists and collections
    made,     \* ids of those that this job created
    halted, refusals, undisturbed

destination == <<plays, stars, liked, containers, made>>
replayVars == <<replay, pc, at, left, payload, lists, pending, destination, halted, refusals,
                undisturbed>>

Overwrites == replay.mode = "replace"
Direct == replay.path = "direct"
ToPlex == replay.to = "plex"

Refused == refusals < MaxRefusals /\ refusals' = refusals + 1 /\ undisturbed' = FALSE
Accepted == UNCHANGED <<refusals, undisturbed>>

-----------------------------------------------------------------------------
(* What a capture finds                                                     *)

InLib(n) == {i \in MediaItems : LibraryOf[i] = Libs[n]}
Flag(u, i) == IF replay.from = "plex" THEN "none" ELSE History[u][i].liked

(* The adapters keep what was played; the Plex engine, whose files an       *)
(* adapter restores, also what was begun.                                   *)
WatchRows(u, n) ==
    {[kind |-> "watch", item |-> i, plays |-> History[u][i].plays] :
        i \in {x \in InLib(n) : \/ History[u][x].plays > 0
                                \/ (~Direct /\ replay.from = "plex" /\ History[u][x].begun)}}

(* affinity_row_is_meaningful: a rating, or a favorite flag that is set.    *)
RatingRows(u, n) ==
    {[kind |-> "ratings", item |-> i, stars |-> History[u][i].stars, liked |-> Flag(u, i)] :
        i \in {x \in InLib(n) : History[u][x].stars > 0 \/ Flag(u, x) = "yes"}}

Listed(u) == {l \in Lists[u] : l.smart => replay.from = "plex"}
ListRows(S) == {[kind |-> "playlists", name |-> l.name, smart |-> l.smart, items |-> l.items] :
                    l \in S}
CollectionRows(S) ==
    {[kind |-> "collections", name |-> c.name, home |-> IF Direct THEN "(server-wide)" ELSE "",
      items |-> c.items] : c \in S}

OfKinds(rows) == {r \in rows : r.kind \in replay.include}

(* _resolve_managed_user_contexts: a Plex server gives its accounts no id,  *)
(* and an account without one is skipped.                                   *)
Managed == IF replay.from = "plex" \/ ~replay.fanout THEN {} ELSE SrcUsers \cap replay.filter
Captured == Managed \cup ({SrcOwner} \cap replay.filter)

(* A server-wide list goes with one library, the first.                     *)
Anchored(n, rows) == IF n = 1 THEN rows ELSE {}

(* The payload of a file has no rows at the top.  It has no mark that a     *)
(* playlist is smart either: the file says "smart", the restore "is_smart". *)
Unmarked(S) == {[l EXCEPT !.smart = FALSE] : l \in S}
FromFile ==
    [n \in DOMAIN Libs |-> [u \in Accounts |->
        WatchRows(u, n) \cup RatingRows(u, n) \cup Anchored(n, ListRows(Unmarked(Listed(u))))
        \cup (IF u = SrcOwner THEN Anchored(n, CollectionRows(Collections)) ELSE {})]]

ReplayInit ==
    /\ replay \in Replays
    /\ pc = (IF Direct THEN "lists" ELSE "check")
    /\ payload = (IF Direct THEN <<>> ELSE FromFile)
    /\ at = 1 /\ left = {} /\ pending = {}
    /\ lists = [u \in {Top, SrcOwner} |-> {}]
    /\ plays = Plays0 /\ containers = Containers0 /\ made = {}
    /\ stars = [d \in DstUsers |-> [i \in MediaItems |-> 0]]
    /\ liked = [d \in DstUsers |-> [i \in MediaItems |-> "no"]]
    /\ halted = FALSE /\ refusals = 0 /\ undisturbed = TRUE

HaltReplay ==
    /\ ~halted /\ pc \notin {"done", "failed"}
    /\ halted' = TRUE /\ undisturbed' = FALSE
    /\ UNCHANGED <<replay, pc, at, left, payload, lists, pending, destination, refusals>>

-----------------------------------------------------------------------------
(* Capture                                                                  *)

(* The users and the lists of the whole server, once per run.  A listing    *)
(* that fails is taken for an empty one.                                    *)
ListsOf(users) ==
    [u \in users \cup {Top, SrcOwner} |->
        OfKinds(CASE u = Top -> CollectionRows(Collections)
                  [] u \in Captured -> ListRows(Listed(u)) [] OTHER -> {})]

ReadLists ==
    /\ pc = "lists" /\ pc' = "owner"
    /\ \/ Accepted /\ lists' = ListsOf(Managed)
       \/ Refused /\ lists' = ListsOf({})
       \/ Refused /\ \E u \in Managed \cup {Top, SrcOwner} :
                      lists' = [ListsOf(Managed) EXCEPT ![u] = {}]
    /\ left' = DOMAIN lists' \ {Top, SrcOwner}
    /\ UNCHANGED <<replay, at, payload, pending, destination, halted>>

LibraryRows(u, n) == OfKinds(WatchRows(u, n) \cup RatingRows(u, n))

(* Mutant: a reading that fails gives the rows it has read.                 *)
ReadingsSwallow(u, n) ==
    {[how |-> "whole", rows |-> LibraryRows(u, n)]}
    \cup {[how |-> "swallowed", rows |-> part] : part \in SUBSET LibraryRows(u, n)}

(* How the reading of a user's history and ratings in a library may end.    *)
(* One that fails raises, and ends the run before anything was written; one *)
(* that a Stop interrupts keeps what it has read.                           *)
Readings(u, n) ==
    {[how |-> "whole", rows |-> LibraryRows(u, n)], [how |-> "raised", rows |-> {}]}
    \cup {[how |-> "stopped", rows |-> part] : part \in SUBSET LibraryRows(u, n)}

ReadingEnds(r) ==
    CASE r.how = "whole" -> Accepted /\ UNCHANGED halted
      [] r.how = "stopped" -> halted' = TRUE /\ undisturbed' = FALSE /\ UNCHANGED refusals
      [] OTHER -> Refused /\ UNCHANGED halted

(* Some blocks of a library get these rows.                                 *)
WithRows(D, rows, blocks) == [b \in D \cup DOMAIN blocks |-> IF b \in D THEN rows ELSE blocks[b]]

(* The owner's turn; an owner who was not chosen has empty rows.            *)
CaptureOwner ==
    /\ pc = "owner" /\ ~halted /\ at <= Len(Libs)
    /\ \E r \in IF SrcOwner \in replay.filter THEN Readings(SrcOwner, at)
                ELSE {[how |-> "whole", rows |-> {}]} :
         /\ ReadingEnds(r) /\ pc' = (IF r.how = "raised" THEN "failed" ELSE "users")
         /\ payload' = Append(payload, [b \in {Top} |-> r.rows])
    /\ UNCHANGED <<replay, at, left, lists, pending, destination>>

CaptureUser ==
    /\ pc = "users" /\ ~halted /\ left # {}
    /\ LET u == CHOOSE x \in left : TRUE IN
       \E r \in Readings(u, at) :
         /\ ReadingEnds(r) /\ pc' = (IF r.how = "raised" THEN "failed" ELSE "users")
         /\ payload' = [payload EXCEPT ![at] =
                            WithRows({u}, r.rows \cup Anchored(at, lists[u]), @)]
         /\ left' = left \ {u}
    /\ UNCHANGED <<replay, at, lists, pending, destination>>

(* The library is complete: the server's collections and the owner's lists  *)
(* join its top, and the owner gets a block with the same rows.             *)
EndLibrary ==
    /\ pc = "users" /\ (left = {} \/ halted)
    /\ LET top == payload[at][Top] \cup Anchored(at, lists[Top] \cup lists[SrcOwner])
       IN payload' = [payload EXCEPT ![at] = WithRows({Top, SrcOwner}, top, @)]
    /\ at' = at + 1 /\ left' = DOMAIN lists \ {Top, SrcOwner} /\ pc' = "owner"
    /\ UNCHANGED <<replay, lists, pending, destination, halted, refusals, undisturbed>>

EndCapture ==
    /\ pc = "owner" /\ (halted \/ at > Len(Libs))
    /\ at' = 1 /\ pc' = "check"
    /\ UNCHANGED <<replay, left, payload, lists, pending, destination, halted, refusals,
                   undisturbed>>

-----------------------------------------------------------------------------
(* The destination's accounts                                               *)

Drop == replay.drop       \* the operator's decisions: users to leave out,
Map == replay.map         \* and users who get another account
Chosen == replay.filter \ Drop

(* resolve_destination_user: the job's override, the identity map, unless   *)
(* resolution is strict the namesake, for an owner the only admin.  The     *)
(* payload of a file names no server, so nothing in the map is about it.    *)
AccountFor(u, roster) ==
    LET By(f) == {f[x] : x \in {u} \cap DOMAIN f} \cap roster
        admins == replay.admins \cap roster
        Finds == <<By(Map),
                   IF Direct THEN By(replay.links) ELSE {},
                   IF replay.strict THEN {} ELSE By(replay.named),
                   IF ~replay.strict /\ u = SrcOwner /\ Cardinality(admins) = 1
                   THEN admins ELSE {}>>
        hits == {n \in DOMAIN Finds : Finds[n] # {}}
    IN IF hits = {} THEN Nobody
       ELSE CHOOSE d \in Finds[CHOOSE n \in hits : \A k \in hits : n <= k] : TRUE

Visible == DstUsers \ replay.hidden

BlockOf(n, b) == IF b \in DOMAIN payload[n] THEN OfKinds(payload[n][b]) ELSE {}
HasRows(u) == \E n \in DOMAIN payload : BlockOf(n, u) # {}

(* dry_run_resolve_users: an owner in scope, with rows, without an account, *)
(* and whose namesake was not hidden, blocks the restore.                   *)
Blocked(active, hidden) ==
    /\ replay.fanout /\ SrcOwner \in Chosen /\ HasRows(SrcOwner)
    /\ AccountFor(SrcOwner, active) = Nobody
    /\ {replay.named[x] : x \in {SrcOwner} \cap DOMAIN replay.named} \cap hidden = {}

(* The verdict before the first write.  A destination whose users cannot be *)
(* listed has none.                                                         *)
Check ==
    /\ pc = "check"
    /\ \/ Accepted /\ pc' = (IF Blocked(Visible, DstUsers \cap replay.hidden)
                          THEN "failed" ELSE "top")
       \/ replay.fanout /\ Refused /\ pc' = (IF Blocked({}, {}) THEN "failed" ELSE "top")
    /\ UNCHANGED <<replay, at, left, payload, lists, pending, destination, halted>>

-----------------------------------------------------------------------------
(* Replay                                                                   *)

(* transform_playlists_for_restore.  The items of a payload in memory have  *)
(* no type, and those without one are dropped.                              *)
Part(row, F, suffix) == [row EXCEPT !.items = @ \cap F, !.name = <<@, suffix>>]
Halves(row) == {Part(row, Audio, "[Audio]"), Part(row, MediaItems \ Audio, "[Video]")}

Unmixed(row) ==
    LET a == Cardinality(row.items \cap Audio)
        v == Cardinality(row.items \ Audio)
        Most == IF a > v THEN Audio ELSE MediaItems \ Audio
        top == IF a > v THEN a ELSE v
    IN IF row.smart THEN {row}
       ELSE IF Direct THEN {[row EXCEPT !.items = {}]}
       ELSE IF a = 0 \/ v = 0 THEN {row}
       ELSE CASE replay.mixed = "skip" -> {}
              [] replay.mixed = "split" -> Halves(row)
              [] replay.mixed = "dominant" ->
                       IF a = v THEN Halves(row)
                       ELSE IF 5 * top >= 3 * (a + v) THEN {[row EXCEPT !.items = @ \cap Most]}
                       ELSE {}

(* A collection from several libraries of a Plex server gets the library's  *)
(* name before its own, unless it goes to Plex.                             *)
Prefixed(row) == IF row.home = "" \/ ToPlex THEN row
                 ELSE [row EXCEPT !.name = <<row.home, @>>]

(* The rows of a block that have something to write: known items, lists     *)
(* that are not smart and have a known item.                                *)
Writable(rows) ==
    {r \in rows : r.kind \in {"watch", "ratings"} /\ r.item \in Known
                 /\ (r.kind = "watch" => r.plays > 0 \/ Overwrites)}
    \cup {r \in UNION {Unmixed(x) : x \in {y \in rows : y.kind = "playlists"}} :
            ~r.smart /\ r.items \cap Known # {}}
    \cup {Prefixed(r) : r \in {x \in rows : x.kind = "collections" /\ x.items \cap Known # {}}}

(* Every context of a Plex destination holds the administrator's token:     *)
(* whatever account was found, the owner's is written.                      *)
Work(u, d, rows) ==
    {[from |-> u, to |-> IF ToPlex THEN DstOwner ELSE d, row |-> r] : r \in Writable(rows)}

StartTop ==
    /\ pc = "top" /\ ~halted /\ at <= Len(payload)
    /\ pending' = Work(Top, DstOwner, BlockOf(at, Top)) /\ pc' = "topRows"
    /\ UNCHANGED <<replay, at, left, payload, lists, destination, halted, refusals, undisturbed>>

(* Mutant: a user who has no account is written to the owner's.             *)
StartUsersOwner ==
    /\ pc = "blocks" /\ ~halted /\ Accepted
    /\ pending' = UNION {Work(u, IF AccountFor(u, Visible) = Nobody THEN DstOwner
                                ELSE AccountFor(u, Visible), BlockOf(at, u)) : u \in Chosen}
    /\ pc' = "userRows"
    /\ UNCHANGED <<replay, at, left, payload, lists, destination, halted>>

(* The users' blocks, after a look at the destination's users; when that    *)
(* fails, the library's users are skipped.                                  *)
StartUsers ==
    /\ pc = "blocks" /\ ~halted
    /\ IF ~replay.fanout THEN Accepted /\ pending' = {}
       ELSE \/ /\ Accepted
               /\ pending' = UNION {Work(u, AccountFor(u, Visible), BlockOf(at, u)) :
                                       u \in {x \in Chosen : AccountFor(x, Visible) # Nobody}}
            \/ Refused /\ pending' = {}
    /\ pc' = "userRows"
    /\ UNCHANGED <<replay, at, left, payload, lists, destination, halted>>

(* resolve_view_count_target; only a Plex server tells the current count.   *)
Target(n, current) ==
    IF Overwrites \/ ~ToPlex THEN n
    ELSE IF replay.strategy = "sum" THEN current + n
    ELSE IF n > current THEN n ELSE current

(* Calls of a Plex server that can add a play or clear them all: the counts *)
(* that a failure between them may leave.                                   *)
OnTheWay(current, target) == IF target < current THEN 0..target ELSE current..target

WriteWatch(d, r) ==
    LET now == plays[d][r.item]
        t == Target(r.plays, now)
        Put(n) == plays' = [plays EXCEPT ![d][r.item] = n]
    IN /\ \/ Accepted /\ Put(t)
          \/ ~ToPlex /\ Refused /\ UNCHANGED plays
          \/ ToPlex /\ Refused /\ \E n \in OnTheWay(now, t) \cup {now} : Put(n)
          \/ ToPlex /\ Refused /\ Put(now + r.plays)   \* the count could not be read
       /\ UNCHANGED <<stars, liked, containers, made>>

(* translate_affinity, and the two calls that it leads to.                  *)
WriteRating(d, r) ==
    LET star == IF r.stars > 0 THEN r.stars
                ELSE IF ToPlex /\ r.liked = "yes" THEN Loved ELSE stars[d][r.item]
        like == IF ToPlex THEN liked[d][r.item]
                ELSE IF r.liked # "none" THEN r.liked
                ELSE IF r.stars >= Threshold THEN "yes" ELSE liked[d][r.item]
        PutStar == stars' = [stars EXCEPT ![d][r.item] = star]
        PutLike == liked' = [liked EXCEPT ![d][r.item] = like]
    IN /\ \/ Accepted /\ PutStar /\ PutLike
          \/ Refused /\ UNCHANGED stars /\ PutLike
          \/ Refused /\ PutStar /\ UNCHANGED liked
       /\ UNCHANGED <<plays, containers, made>>

(* A list is always created anew.  A collection of a Plex server must name  *)
(* its library, which rows from another kind of server do not.              *)
Fresh == Cardinality(Containers0) + Cardinality(made) + 1
WriteList(d, r) ==
    LET b == [id |-> Fresh, kind |-> r.kind, owner |-> IF r.kind = "playlists" THEN d ELSE DstOwner,
              name |-> r.name, items |-> r.items \cap Known]
    IN /\ \/ Accepted /\ IF r.kind = "collections" /\ ToPlex THEN UNCHANGED <<containers, made>>
                          ELSE containers' = containers \cup {b} /\ made' = made \cup {Fresh}
          \/ Refused /\ UNCHANGED <<containers, made>>
       /\ UNCHANGED <<plays, stars, liked>>

(* The rows of a block in the order of their kinds, one user after another. *)
Rank(r) == CASE r.kind = "watch" -> 1 [] r.kind = "ratings" -> 2
             [] r.kind = "playlists" -> 3 [] OTHER -> 4
First == LET u == CHOOSE x \in {t.from : t \in pending} : TRUE
             Mine == {t \in pending : t.from = u}
         IN CHOOSE t \in Mine : \A o \in Mine : Rank(t.row) <= Rank(o.row)

ReplayRow ==
    /\ pc \in {"topRows", "userRows"} /\ ~halted /\ pending # {}
    /\ LET t == First IN
       /\ pending' = pending \ {t}
       /\ CASE t.row.kind = "watch" -> WriteWatch(t.to, t.row)
            [] t.row.kind = "ratings" -> WriteRating(t.to, t.row)
            [] OTHER -> WriteList(t.to, t.row)
    /\ UNCHANGED <<replay, pc, at, left, payload, lists, halted>>

EndRows ==
    /\ pc \in {"topRows", "userRows"} /\ ~halted /\ pending = {}
    /\ IF pc = "topRows" THEN pc' = "blocks" /\ UNCHANGED at
       ELSE pc' = "top" /\ at' = at + 1
    /\ UNCHANGED <<replay, left, payload, lists, pending, destination, halted, refusals,
                   undisturbed>>

-----------------------------------------------------------------------------
(* The sweep of a Replace                                                   *)

Replaying == {"top", "topRows", "blocks", "userRows"}

Restored == {Libs[n] : n \in DOMAIN payload} \cap DstLibs

(* The names as the payload has them, of every block.                       *)
PayloadTitles == {r.name : r \in {x \in UNION {UNION {payload[n][b] : b \in DOMAIN payload[n]} :
                                            n \in DOMAIN payload} : x.kind = "playlists"}}
TopCollections == {r.name : r \in {x \in UNION {BlockOf(n, Top) : n \in DOMAIN payload} :
                                     x.kind = "collections"}}

(* The accounts whose lists are swept: the owner's, and where accounts have *)
(* ids every one that is no administrator's, hidden or not.                 *)
SweptUsers == {DstOwner} \cup (IF ToPlex THEN {} ELSE DstUsers \ replay.admins)

(* Playlists that lie in the restored libraries and that the source does    *)
(* not have; of collections only those of a Plex server have a library.     *)
Doomed(users, kinds) ==
    {b.id : b \in {x \in containers :
        /\ x.kind \in kinds \cap replay.include /\ x.items # {}
        /\ {LibraryOf[i] : i \in x.items} \subseteq Restored
        /\ IF x.kind = "playlists" THEN x.owner \in users /\ x.name \notin PayloadTitles
           ELSE ToPlex /\ x.name \notin TopCollections}}

(* No Stop is looked for from here on.                                      *)
StartReplaySweep ==
    /\ pc \in Replaying /\ (halted \/ (pc = "top" /\ at > Len(payload)))
    /\ IF ~Overwrites THEN Accepted /\ pending' = {}
       ELSE \/ Accepted /\ pending' = Doomed(SweptUsers, RowKinds)
            \/ Refused /\ pending' \in {{}, Doomed({DstOwner}, RowKinds),
                                        Doomed(SweptUsers, {"playlists"})}
            \/ Refused /\ \E d \in SweptUsers : pending' = Doomed(SweptUsers \ {d}, RowKinds)
    /\ pc' = "sweep"
    /\ UNCHANGED <<replay, at, left, payload, lists, destination, halted>>

SweepOne ==
    /\ pc = "sweep" /\ pending # {}
    /\ LET id == CHOOSE x \in pending : TRUE IN
       /\ pending' = pending \ {id}
       /\ \/ Accepted /\ containers' = {b \in containers : b.id # id}
          \/ Refused /\ UNCHANGED containers
    /\ UNCHANGED <<replay, pc, at, left, payload, lists, plays, stars, liked, made, halted>>

End ==
    /\ pc = "sweep" /\ pending = {} /\ pc' = "done"
    /\ UNCHANGED <<replay, at, left, payload, lists, pending, destination, halted, refusals,
                   undisturbed>>

ReplayNext ==
    \/ HaltReplay \/ ReadLists \/ CaptureOwner \/ CaptureUser \/ EndLibrary \/ EndCapture
    \/ Check \/ StartTop \/ StartUsers \/ ReplayRow \/ EndRows
    \/ StartReplaySweep \/ SweepOne \/ End

ReplaySpec == ReplayInit /\ [][ReplayNext]_replayVars

-----------------------------------------------------------------------------
(* Properties                                                               *)

TypeOK ==
    /\ pc \in {"lists", "owner", "users", "check", "sweep", "done", "failed"} \cup Replaying
    /\ at \in 1..(Len(Libs) + 1) /\ Len(payload) <= Len(Libs) /\ left \subseteq SrcUsers
    /\ \A n \in DOMAIN payload : DOMAIN payload[n] \subseteq Accounts \cup {Top}
    /\ plays \in [DstUsers -> [MediaItems -> Nat]]
    /\ stars \in [DstUsers -> [MediaItems -> 0..10]]
    /\ liked \in [DstUsers -> [MediaItems -> {"yes", "no"}]]
    /\ made \cap {b.id : b \in Containers0} = {} /\ refusals \in 0..MaxRefusals

(* The source accounts whose history an account of the destination gets.    *)
Feeders(d) ==
    {u \in Accounts :
        \/ Direct /\ u = SrcOwner /\ u \in replay.filter /\ d = DstOwner
        \/ /\ replay.fanout /\ u \in Chosen /\ (Direct => u \in Captured)
           /\ AccountFor(u, Visible) = d}

Begun(u, i) == ~Direct /\ replay.from = "plex" /\ History[u][i].begun
Played(d, u, i) ==
    plays[d][i] = IF History[u][i].plays > 0 \/ (Overwrites /\ Begun(u, i))
                  THEN History[u][i].plays ELSE Plays0[d][i]
Starred(d, u, i) == stars[d][i] = History[u][i].stars
Kept(d, u) ==
    \A l \in Listed(u) :
        l.items \cap Known # {} /\ (l.items \subseteq Audio \/ l.items \cap Audio = {})
        => \E b \in containers : b.owner = d /\ b.id \in made /\ b.name = l.name
                                /\ b.items = l.items \cap Known

(* After a run to a Jellyfin or Emby server that nothing disturbed, an      *)
(* account that exactly one source account goes to shows that account's     *)
(* plays and ratings, and from a file its unmixed playlists; an account     *)
(* that none goes to is as it was; and an owner with rows had an account to *)
(* go to, or a hidden namesake.  services/restore/adapter/restorer.py: "we  *)
(* still won't silently drop their data", across two resolvers, two         *)
(* payload shapes and the order of the blocks.                              *)
AdapterLands ==
    pc = "done" /\ undisturbed /\ ~ToPlex =>
        /\ ~Blocked(Visible, DstUsers \cap replay.hidden)
        /\ \A d \in DstUsers :
            /\ Feeders(d) = {} => plays[d] = Plays0[d] /\ \A i \in MediaItems : stars[d][i] = 0
            /\ \A u \in Accounts : Feeders(d) = {u} =>
                 /\ "watch" \in replay.include => \A i \in Known : Played(d, u, i)
                 /\ "ratings" \in replay.include => \A i \in Known : Starred(d, u, i)
                 /\ ~Direct /\ "playlists" \in replay.include => Kept(d, u)

(* Nothing of a history that was read in part is ever written: a reading    *)
(* that fails ends the run, and one that a Stop interrupts is followed by   *)
(* no write.  services/snapshot/adapter/snapshotter.py:388 says why: it     *)
(* would be indistinguishable from a clean one.                             *)
Whole ==
    \A n \in DOMAIN payload : \A u \in DOMAIN payload[n] \ {Top} :
        u \in Captured => LibraryRows(u, n) \subseteq payload[n][u]
TornHistoryNeverLands ==
    [][<<plays, stars, liked>>' # <<plays, stars, liked>> =>
          ~Direct \/ (Len(payload) = Len(Libs) /\ Whole)]_replayVars

(* The sweep of a Replace spares every list that this run has restored,     *)
(* except for the halves of a mixed one.                                    *)
SweepSparesMade ==
    [][\A b \in containers \ containers' : b.id \in made =>
            /\ Overwrites
            /\ \E r \in {"[Audio]", "[Video]"}, t \in PayloadTitles : b.name = <<t, r>>]_replayVars
=============================================================================
