------------------------------- MODULE MediaDb --------------------------------
(* media.db, the cache of every server's titles (server/media_db): the      *)
(* titles by their GUIDs, the rating key each has on each server, the       *)
(* watched state and the lists; the ingest of a capture, one thread per     *)
(* library; the library walk that stamps what a server still reports; and   *)
(* the pruning of what no walk has seen for Age.                            *)
(*                                                                          *)
(* A statement under _DB_LOCK is one step, and what runs between two of     *)
(* them may be any other thread.  Foreign keys are enforced (_core.py:126): *)
(* a row cannot name a title that is gone, and a title cannot go while a    *)
(* row names it; a list names its titles inside a text and is not covered.  *)
EXTENDS Naturals, Functions

CONSTANTS Servers, Libraries, Keys,
          ServerOf,     \* [Libraries -> Servers]
          LibOf,        \* [Keys -> Libraries]
          Priority,     \* the GUID columns in the order of the lookup
          Guids,        \* what a server may say of a title: [column -> value or Nil]
          FilmOf,       \* the film a GUID value stands for
          World0,       \* [Keys -> Guids \cup {Nil}], what the servers hold at first
          Nil, Age,
          MaxTime, Budgets      \* bounds: the clock, and how often each event may come

HomeOf(k) == ServerOf[LibOf[k]]
Events == {"capture", "walk", "change", "prune"}

Columns == {Priority[n] : n \in DOMAIN Priority}
Films(g) == {FilmOf[g[c]] : c \in {d \in Columns : g[d] # Nil}}
Film(g) == CHOOSE f \in Films(g) : TRUE

\* A title has a GUID, and all it has are of one film.
ASSUME MediaDbAssumption ==
    /\ Guids \subseteq [Columns -> DOMAIN FilmOf \cup {Nil}]
    /\ \A g \in Guids : Films(g) = {Film(g)}
    /\ ServerOf \in [Libraries -> Servers] /\ LibOf \in [Keys -> Libraries]
    /\ World0 \in [Keys -> Guids \cup {Nil}] /\ Nil \notin Guids
    /\ Age \in Nat /\ MaxTime \in Nat /\ Budgets \subseteq [Events -> Nat]

VARIABLES items,        \* id -> GUID columns
          nextId,       \* AUTOINCREMENT of items
          serverItems,  \* {[item, server, key, seen]}; seen = Nil: no walk has met it
          watch,        \* {[item, server]}: watch_events and ratings of the users
          lists,        \* [Libraries -> {[item, film]}]: the item_ids_json of its playlist
          lastWalk,     \* [Servers -> start of the last completed walk, or Nil]
          world, since, \* what each key is on its server, and since when
          clock,
          thread,       \* [Libraries -> the capture of the library]
          walk,         \* [Servers -> the running walk]
          known,        \* [Keys -> the film last recorded under the key, or Nil]
          met,          \* [Keys -> start of the last walk that recorded what it met there, or Nil]
          left          \* the events that may still come

mediaVars == <<items, nextId, serverItems, watch, lists, lastWalk, world, since, clock,
          thread, walk, known, met, left>>
db == <<items, nextId, serverItems, watch, lists>>

Spend(event) ==
    /\ left[event] > 0
    /\ left' = [left EXCEPT ![event] = @ - 1]

Idle == [pc |-> "idle", payload |-> <<>>, todo |-> {}, found |-> <<>>,
         key |-> Nil, held |-> 0]
NoWalk == [pc |-> "idle", at |-> 0, sections |-> {}, keys |-> {}, missed |-> {}]

MediaInit ==
    /\ items = <<>> /\ nextId = 1
    /\ serverItems = {} /\ watch = {} /\ lists = [l \in Libraries |-> {}]
    /\ lastWalk = [s \in Servers |-> Nil]
    /\ world = World0 /\ since = [k \in Keys |-> 0] /\ clock = 0
    /\ thread = [l \in Libraries |-> Idle]
    /\ walk = [s \in Servers |-> NoWalk]
    /\ known = [k \in Keys |-> Nil] /\ met = [k \in Keys |-> Nil]
    /\ left \in Budgets

-----------------------------------------------------------------------------
(* Titles                                                                   *)

\* lookup_item_by_guids: the titles that hold the first of the GUIDs anyone holds.
Lookup(g) ==
    LET Holders(n) == {i \in DOMAIN items : /\ g[Priority[n]] # Nil
                                            /\ items[i][Priority[n]] = g[Priority[n]]}
    IN  UNION {Holders(n) : n \in {m \in DOMAIN Priority :
                                     \A j \in DOMAIN Priority : j < m => Holders(j) = {}}}

Overlaid(old, g) == [c \in Columns |-> IF g[c] # Nil THEN g[c] ELSE old[c]]

\* INSERT OR REPLACE under UNIQUE(item, server) and UNIQUE(server, key).
ReplacedByItemOnly(r) ==   \* mutant: the key is not unique
    {x \in serverItems : x.server = r.server /\ x.item = r.item}
Replaced(r) == {x \in serverItems : x.server = r.server /\ (x.item = r.item \/ x.key = r.key)}

-----------------------------------------------------------------------------
(* A capture of a server: one thread per library.  What a library held when *)
(* it was fetched is the payload, [key -> guids].                           *)

OnServer(l) == {k \in Keys : LibOf[k] = l /\ world[k] # Nil}
Running(s) == \E l \in Libraries : ServerOf[l] = s /\ thread[l].pc # "idle"

\* The job queue runs one capture at a time.
StartCapture(s) ==
    /\ \A x \in Servers : ~Running(x)
    /\ Spend("capture")
    /\ thread' = [l \in Libraries |-> IF ServerOf[l] = s THEN [Idle EXCEPT !.pc = "fetch"] ELSE thread[l]]
    /\ UNCHANGED <<db, lastWalk, world, since, clock, walk, known, met>>

Fetch(l) ==
    /\ thread[l].pc = "fetch"
    /\ thread' = [thread EXCEPT ![l].pc = "decide", ![l].payload = Restrict(world, OnServer(l))]
    /\ UNCHANGED <<db, lastWalk, world, since, clock, walk, known, met, left>>

\* The payload is ingested when the operator asked for it or the server has no
\* row yet (_should_cache_payload_to_media_db), and is else only kept for the snapshot.
Decide(l) ==
    /\ thread[l].pc = "decide"
    /\ \/ thread' = [thread EXCEPT ![l].pc = "items", ![l].todo = DOMAIN thread[l].payload]
       \/ /\ \E r \in serverItems : r.server = ServerOf[l]
          /\ thread' = [thread EXCEPT ![l].pc = "kept"]
    /\ UNCHANGED <<db, lastWalk, world, since, clock, walk, known, met, left>>

UpsertItem(l) ==
    /\ thread[l].pc = "items"
    /\ \E k \in thread[l].todo :
         LET g == thread[l].payload[k]
             Hold(i) == thread' = [thread EXCEPT ![l].pc = "held", ![l].held = i, ![l].key = k]
         IN  IF Lookup(g) = {}
             THEN /\ items' = [i \in DOMAIN items \cup {nextId} |-> IF i = nextId THEN g ELSE items[i]]
                  /\ nextId' = nextId + 1
                  /\ Hold(nextId)
             ELSE \E i \in Lookup(g) :
                  /\ items' = [items EXCEPT ![i] = Overlaid(@, g)]
                  /\ Hold(i) /\ UNCHANGED nextId
    /\ UNCHANGED <<serverItems, watch, lists, lastWalk, world, since, clock, walk, known, met, left>>

\* A title that went away meanwhile ends the ingest, and the library is not in the snapshot.
RecordServerItem(l) ==
    LET t == thread[l]
        r == [item |-> t.held, server |-> ServerOf[l], key |-> t.key, seen |-> Nil]
    IN  /\ t.pc = "held"
        /\ IF t.held \in DOMAIN items
           THEN /\ serverItems' = (serverItems \ Replaced(r)) \cup {r}
                /\ thread' = [thread EXCEPT ![l].pc = "items", ![l].todo = @ \ {t.key},
                                            ![l].found = [k \in DOMAIN @ \cup {t.key} |->
                                                            IF k = t.key THEN t.held ELSE @[k]]]
                /\ known' = [known EXCEPT ![t.key] = Film(t.payload[t.key])]
           ELSE /\ thread' = [thread EXCEPT ![l].pc = "lost"]
                /\ UNCHANGED <<serverItems, known>>
        /\ UNCHANGED <<items, nextId, watch, lists, lastWalk, world, since, clock, walk, met, left>>

\* The library's playlist, if the server still has it, and then the plays, if there are any.
UpsertPlaylist(l) ==
    LET t == thread[l]
        list == {[item |-> t.found[k], film |-> Film(t.payload[k])] : k \in DOMAIN t.found}
    IN  /\ t.pc = "items" /\ t.todo = {}
        /\ \E now \in {lists[l], list} : lists' = [lists EXCEPT ![l] = now]
        /\ \E played \in {{}, DOMAIN t.found} :
             thread' = [thread EXCEPT ![l].pc = "watch", ![l].todo = played]
        /\ UNCHANGED <<items, nextId, serverItems, watch, lastWalk, world, since, clock, walk, known, met, left>>

\* A row that fails is passed over.
RecordWatchEvent(l) ==
    LET t == thread[l]
    IN  /\ t.pc = "watch"
        /\ \E k \in t.todo :
             /\ watch' = watch \cup {r \in {[item |-> t.found[k], server |-> ServerOf[l]]} :
                                        r.item \in DOMAIN items}
             /\ thread' = [thread EXCEPT ![l].todo = @ \ {k}]
        /\ UNCHANGED <<items, nextId, serverItems, lists, lastWalk, world, since, clock, walk, known, met, left>>

Ingested(l) ==
    /\ thread[l].pc = "watch" /\ thread[l].todo = {}
    /\ thread' = [thread EXCEPT ![l].pc = "kept"]
    /\ UNCHANGED <<db, lastWalk, world, since, clock, walk, known, met, left>>

EndCapture(s) ==
    /\ Running(s)
    /\ \A l \in Libraries : ServerOf[l] = s => thread[l].pc \in {"kept", "lost"}
    /\ thread' = [l \in Libraries |-> IF ServerOf[l] = s THEN Idle ELSE thread[l]]
    /\ UNCHANGED <<db, lastWalk, world, since, clock, walk, known, met, left>>

-----------------------------------------------------------------------------
(* The library walk: one at a time per server.  A section that fails is     *)
(* counted and passed over, a title whose tick fails is passed over, and    *)
(* the walk completes all the same.                                         *)

StartWalk(s) ==
    /\ walk[s].pc = "idle"
    /\ Spend("walk")
    /\ walk' = [walk EXCEPT ![s] = [NoWalk EXCEPT !.pc = "sections", !.at = clock,
                                                   !.sections = {l \in Libraries : ServerOf[l] = s}]]
    /\ UNCHANGED <<db, lastWalk, world, since, clock, thread, known, met>>

WalkSection(s) ==
    /\ walk[s].pc = "sections" /\ walk[s].keys = {}
    /\ \E l \in walk[s].sections :
         \/ walk' = [walk EXCEPT ![s].sections = @ \ {l}, ![s].keys = OnServer(l)]
         \/ walk' = [walk EXCEPT ![s].sections = @ \ {l}, ![s].missed = @ \cup {k \in Keys : LibOf[k] = l}]
    /\ UNCHANGED <<db, lastWalk, world, since, clock, thread, known, met, left>>

\* A tick that raises is swallowed (server/library_walk.py:167), and the walk goes
\* on to the next title.
RecordItemSighting(s) ==
    /\ \E k \in walk[s].keys :
         \/ /\ walk' = [walk EXCEPT ![s].keys = @ \ {k}]
            /\ serverItems' = {IF r.server = s /\ r.key = k THEN [r EXCEPT !.seen = walk[s].at] ELSE r :
                                 r \in serverItems}
         \/ /\ walk' = [walk EXCEPT ![s].keys = @ \ {k}, ![s].missed = @ \cup {k}]
            /\ UNCHANGED serverItems
    /\ UNCHANGED <<items, nextId, watch, lists, lastWalk, world, since, clock, thread, known, met, left>>

\* The end of a walk may fail to reach its row; what it ticked stays ticked.
FinishWalk(s) ==
    /\ walk[s].pc = "sections" /\ walk[s].sections = {} /\ walk[s].keys = {}
    /\ lastWalk' \in {lastWalk, [lastWalk EXCEPT ![s] = walk[s].at]}
    /\ met' = [k \in Keys |-> IF HomeOf(k) = s /\ k \notin walk[s].missed THEN walk[s].at ELSE met[k]]
    /\ walk' = [walk EXCEPT ![s] = NoWalk]
    /\ UNCHANGED <<db, world, since, clock, thread, known, left>>

\* No connection, or no list of sections: the walk is marked failed.
FailWalk(s) ==
    /\ walk[s].pc = "sections" /\ walk[s].keys = {}
    /\ walk[s].sections = {l \in Libraries : ServerOf[l] = s}
    /\ walk' = [walk EXCEPT ![s] = NoWalk]
    /\ UNCHANGED <<db, lastWalk, world, since, clock, thread, known, met, left>>

-----------------------------------------------------------------------------
(* Pruning: one transaction.  It is refused before the first walk, and is   *)
(* rolled back when a row of another server still names a title it drops.   *)

StaleAtAge(s) ==   \* mutant: a row as old as the limit is pruned too
    {r \in serverItems : r.server = s /\ r.seen # Nil /\ r.seen + Age <= clock}
Stale(s) == {r \in serverItems : r.server = s /\ r.seen # Nil /\ r.seen + Age < clock}

PruneStaleItems(s) ==
    LET gone == {r.item : r \in Stale(s)}
        rows == {r \in serverItems : ~(r.server = s /\ r.item \in gone)}
        kept == {w \in watch : ~(w.server = s /\ w.item \in gone)}
        orphans == {i \in gone : \A r \in rows : r.item # i}
    IN  /\ lastWalk[s] # Nil /\ gone # {}
        /\ Spend("prune")
        /\ IF \E w \in kept : w.item \in orphans
           THEN UNCHANGED db
           ELSE /\ watch' = kept /\ serverItems' = rows
                /\ lists' = [l \in Libraries |-> IF ServerOf[l] = s THEN {e \in lists[l] : e.item \notin gone}
                                                                     ELSE lists[l]]
                /\ items' = Restrict(items, DOMAIN items \ orphans)
                /\ UNCHANGED nextId
        /\ UNCHANGED <<lastWalk, world, since, clock, thread, walk, known, met>>

-----------------------------------------------------------------------------
(* Time, the servers, and a restart of the process.                         *)

Tick ==
    /\ clock < MaxTime /\ clock' = clock + 1
    /\ UNCHANGED <<db, lastWalk, world, since, thread, walk, known, met, left>>

\* A title comes, goes, or is matched to other GUIDs under the key it has.
ChangeWorld(k) ==
    /\ Spend("change")
    /\ \E g \in (Guids \cup {Nil}) \ {world[k]} :
         /\ world' = [world EXCEPT ![k] = g]
         /\ since' = [since EXCEPT ![k] = clock]
    /\ UNCHANGED <<db, lastWalk, clock, thread, walk, known, met>>

ProcessRestarts ==
    /\ thread' = [l \in Libraries |-> Idle]
    /\ walk' = [s \in Servers |-> NoWalk]
    /\ <<thread, walk>>' # <<thread, walk>>
    /\ UNCHANGED <<db, lastWalk, world, since, clock, known, met, left>>

Ingest(l) == UpsertItem(l) \/ RecordServerItem(l) \/ UpsertPlaylist(l) \/ RecordWatchEvent(l) \/ Ingested(l)

MediaNext ==
    \/ \E s \in Servers : \/ StartCapture(s) \/ EndCapture(s) \/ PruneStaleItems(s)
                          \/ StartWalk(s) \/ WalkSection(s) \/ RecordItemSighting(s) \/ FinishWalk(s) \/ FailWalk(s)
    \/ \E l \in Libraries : Fetch(l) \/ Decide(l) \/ Ingest(l)
    \/ \E k \in Keys : ChangeWorld(k)
    \/ Tick \/ ProcessRestarts

MediaSpec == MediaInit /\ [][MediaNext]_mediaVars

-----------------------------------------------------------------------------
(* Properties                                                               *)

\* What the cache says of a key or of a list is about the film that was
\* recorded there: the resolver's Tier 0 never answers with another film's key,
\* and a list whose title was pruned shows a gap, never a film that came later.
\* (items.py record_server_item and find_rating_key_on_server; _schema.py
\* AUTOINCREMENT; library_walk.py prune_stale_items.)
CacheNeverMisleads ==
    /\ \A r \in serverItems : r.item \in DOMAIN items /\ Films(items[r.item]) = {known[r.key]}
    /\ \A l \in Libraries : \A e \in lists[l] : e.item \in DOMAIN items => Films(items[e.item]) = {e.film}

\* The server still has the title under the key the cache knows, and a walk that
\* recorded what it met under that key began after the title came and no longer
\* than Age ago.
Vouched(w) ==
    \E r \in serverItems :
        /\ r.server = w.server /\ r.item = w.item /\ world[r.key] # Nil
        /\ met[r.key] # Nil
        /\ since[r.key] < met[r.key] /\ met[r.key] + Age >= clock

\* Pruning never takes the history of a title that is vouched for, be it
\* cached after the walk, matched anew, or walked while it was ingested, and
\* whatever other sections and titles failed in the walk.
\* (library_walk.py:273 "Never-walked rows are NOT prunable".)
VouchedHistoryStays == [][\A w \in watch \ watch' : ~Vouched(w)]_mediaVars
==============================================================================
