---------------------------- MODULE Stores_proofs ---------------------------
(* Proofs about what is kept in files and in media.db.  First the snapshot  *)
(* store: a finished capture keeps its file until its own deletion reaches  *)
(* it and is found by every recovery, and a deleted snapshot stays deleted, *)
(* for any number of captures, requests, failures and crashes, as long as   *)
(* no two captures happen in one minute (SameMinute).  Then MediaDb, for    *)
(* any servers, libraries, titles and captures: what the cache says of a    *)
(* key is about the film recorded under it, and pruning keeps the history   *)
(* of a title a walk has vouched for.  Last the sessions: a login has one   *)
(* live refresh token and a revocation is final, for any users, browsers,   *)
(* requests and tokens.                                                     *)
EXTENDS SnapshotStore, MediaDb, AuthSessions, TLAPS

-----------------------------------------------------------------------------
(* The invariant                                                            *)

Entry == [id : Nat, name : Nat]
Row == [name : Nat, pre : BOOLEAN, server : Nat]
Task == [pc : {"idle", "build", "register", "retention", "victim", "render", "write", "stamp",
               "submit", "move", "unlink", "unlinkjson", "drop", "reap", "clear"},
         id : Nat, row : Row, entry : Entry, todo : SUBSET Entry, keep : BOOLEAN,
         use : {"none", "prebuild", "restore", "archive"}]

Typed ==
    /\ up \in BOOLEAN
    /\ spent \in [captures : 0 .. MaxCaptures, events : Nat, moves : Nat]
    /\ minute = spent.captures
    /\ rows \in [Ids -> Row]
    /\ dbFile \in [Names -> [id : Nat, state : {"none", "partial", "invalid", "good"}]]
    /\ fate \in [Ids -> {"none", "captured", "left", "unlinked", "dropped"}]
    /\ task \in [Threads -> Task]

Whole == {"invalid", "good"}   \* what a file is that was written to its end

\* The file of a name is the capture's of that rank, and what became of it
\* shows in the file and in the row.
Filed ==
    \A i \in Ids :
        /\ dbFile[i].id \in {0, i}
        /\ dbFile[i].state \in Whole => dbFile[i].id = i /\ fate[i] # "none"
        /\ fate[i] \in {"captured", "left"} => dbFile[i].id = i /\ dbFile[i].state \in Whole
        /\ fate[i] \in {"unlinked", "dropped"} => dbFile[i].id = 0
        /\ fate[i] = "dropped" => rows[i] = NoRow
        /\ i > spent.captures => fate[i] = "none"

\* A capture whose file is whole and whose registration was tried.
Capturing(i) == task["job"].pc \in {"build", "register"} /\ task["job"].id = i
Known(i) == i \in Ids /\ i <= spent.captures /\ fate[i] # "none" /\ ~Capturing(i)

Named == \A i \in Ids : rows[i] # NoRow => rows[i].name = i /\ Known(i)

\* The capture in progress has the newest rank, and nobody else knows of it.
InProgress ==
    LET th == task["job"]
    IN  /\ th.pc \in {"build", "register"} =>
              th.id \in Ids /\ th.id <= spent.captures /\ th.row.name = th.id
        /\ th.pc = "build" => fate[th.id] = "none" /\ dbFile[th.id].id = th.id
        /\ th.pc = "register" => fate[th.id] = "captured"

\* What a deletion or the reaper has in hand was registered before.
Deleting(th) ==
    \/ th.pc \in {"move", "unlink", "unlinkjson", "drop"}
    \/ th.use = "archive" /\ th.pc \in {"render", "write", "stamp"}
Fit(th) ==
    /\ \A e \in th.todo : Known(e.id)
    /\ Deleting(th) => Known(th.entry.id) /\ th.row.name = th.entry.id
    /\ th.pc = "clear" => Known(th.entry.id)
    /\ th.pc = "render" \/ th.use = "prebuild" => th.id \in Ids

Working == \A t \in Threads : Fit(task[t]) /\ (t # "job" => task[t].pc \notin {"build", "register"})

StoreInv ==
    /\ Typed /\ Filed /\ Named /\ InProgress /\ Working
    /\ ~up => \A t \in Threads : task[t] = Free

-----------------------------------------------------------------------------
(* Steps of one thread                                                      *)

Unchanged == UNCHANGED <<up, minute, rows, dbFile, fate>>

\* What a thread knows of stays known while another one works: captures are
\* registered or given up, and fates are never forgotten.
LEMMA KnownStays ==
    ASSUME StoreInv, spent'.captures = spent.captures,
           \A i \in Ids : fate[i] # "none" => fate'[i] # "none",
           \A i \in Ids : Capturing(i)' => Capturing(i)
    PROVE  \A i : Known(i) => Known(i)'
BY DEF Known

\* A thread that goes on to r keeps the invariant if r is fit for it, no row
\* appears, and a capture in progress is left alone.
LEMMA ThreadStep ==
    ASSUME StoreInv, up, up', Typed', Filed', spent'.captures = spent.captures,
           NEW t \in Threads, NEW r, Fit(r), r.pc \notin {"build", "register"},
           task' = [task EXCEPT ![t] = r],
           \A i \in Ids : rows'[i] # NoRow => rows[i] # NoRow /\ rows'[i].name = i,
           \A i \in Ids : fate[i] # "none" => fate'[i] # "none",
           \A i \in Ids : t # "job" /\ Capturing(i) => fate'[i] = fate[i] /\ dbFile'[i] = dbFile[i]
    PROVE  StoreInv'
<1>1. "job" \in Threads
  BY DEF Threads
<1>2. \A x \in Threads : task'[x] = IF x = t THEN r ELSE task[x]
  BY DEF StoreInv, Typed
<1>3. \A i \in Ids : Capturing(i)' => Capturing(i)
  BY <1>1, <1>2 DEF Capturing
<1>4. \A i : Known(i) => Known(i)'
  BY <1>3, KnownStays
<1>5. Named'
  BY <1>4 DEF StoreInv, Named
<1>6. InProgress'
  <2>1. CASE t = "job"
    BY <2>1, <1>1, <1>2 DEF InProgress
  <2>2. CASE t # "job"
    <3>1. task'["job"] = task["job"]
      BY <2>2, <1>1, <1>2
    <3>2. \A i \in Ids : Capturing(i) => fate'[i] = fate[i] /\ dbFile'[i] = dbFile[i]
      BY <2>2
    <3> QED BY <3>1, <3>2 DEF StoreInv, InProgress, Capturing
  <2> QED BY <2>1, <2>2
<1>7. Working'
  <2>1. \A x : Fit(x) => Fit(x)'
    BY <1>4 DEF Fit, Deleting
  <2> QED BY <2>1, <1>2 DEF StoreInv, Working
<1> QED BY <1>5, <1>6, <1>7 DEF StoreInv

\* The usual case: only what the thread does, the sidecars and the queue change.
LEMMA QuietStep ==
    ASSUME StoreInv, up, Unchanged, spent' = spent \/ Event,
           NEW t \in Threads, NEW r \in Task, Fit(r), r.pc \notin {"build", "register"},
           Set(t, r)
    PROVE  StoreInv'
<1>1. task' = [task EXCEPT ![t] = r]
  BY DEF Set
<1>2. /\ spent' \in [captures : 0 .. MaxCaptures, events : Nat, moves : Nat]
      /\ spent'.captures = spent.captures
  BY DEF StoreInv, Typed, Event
<1>3. Typed'
  BY <1>1, <1>2 DEF StoreInv, Typed, Unchanged
<1>4. Filed'
  BY <1>2 DEF StoreInv, Filed, Unchanged
<1>5. \A i \in Ids : rows'[i] # NoRow => rows[i] # NoRow /\ rows'[i].name = i
  BY DEF StoreInv, Named, Unchanged
<1> QED BY <1>1, <1>2, <1>3, <1>4, <1>5, ThreadStep DEF Unchanged

LEMMA FreeFits == Free \in Task /\ Fit(Free) /\ Free.pc = "idle" /\ Free.use = "none"
BY DEF Free, Task, Row, Entry, NoRow, NoEntry, Fit, Deleting

-----------------------------------------------------------------------------
(* Capture                                                                  *)

LEMMA CaptureKeeps ==
    ASSUME StoreInv, SameMinute = FALSE, NEW prebuild \in BOOLEAN, Capture(prebuild)
    PROVE  StoreInv'
<1> DEFINE i == spent.captures + 1
<1>0. PICK r : r = [Free EXCEPT !.pc = "build", !.id = i, !.row.name = i,
                               !.use = IF prebuild THEN "prebuild" ELSE "none"]
  OBVIOUS
<1>1. /\ up /\ up' /\ i \in Ids /\ spent.captures \in Nat /\ minute' = i
      /\ spent' = [spent EXCEPT !.captures = i]
      /\ dbFile' = [dbFile EXCEPT ![i] = [id |-> i, state |-> "partial"]]
      /\ task' = [task EXCEPT !["job"] = r]
      /\ task["job"].pc = "idle"
      /\ UNCHANGED <<rows, fate>>
  BY <1>0, StoreAssumption DEF Capture, StoreInv, Typed, NextNames, Reached, Set, Ids
<1>2. "job" \in Threads /\ i \in Nat
  BY <1>1 DEF Threads
<1>3. /\ r \in Task /\ r.pc = "build" /\ r.id = i /\ r.row.name = i /\ r.todo = {}
      /\ r.use \in {"prebuild", "none"}
  BY <1>0, <1>2 DEF Free, Task, Row, Entry, NoRow, NoEntry
<1>4. \A x \in Threads : task'[x] = IF x = "job" THEN r ELSE task[x]
  BY <1>1 DEF StoreInv, Typed
<1>5. /\ \A j \in Ids : dbFile'[j] = IF j = i THEN [id |-> i, state |-> "partial"] ELSE dbFile[j]
      /\ spent'.captures = i
      /\ fate[i] = "none"
  <2>1. \A j \in Ids : dbFile'[j] = IF j = i THEN [id |-> i, state |-> "partial"] ELSE dbFile[j]
    BY <1>1 DEF StoreInv, Typed, Ids, Names
  <2>2. spent'.captures = i
    BY <1>1 DEF StoreInv, Typed
  <2>3. fate[i] = "none"
    BY <1>1 DEF StoreInv, Filed
  <2> QED BY <2>1, <2>2, <2>3
<1> HIDE DEF i
<1>6. Typed'
  <2>1. spent' \in [captures : 0 .. MaxCaptures, events : Nat, moves : Nat]
    BY <1>1, StoreAssumption DEF StoreInv, Typed, Ids
  <2>2. dbFile' \in [Names -> [id : Nat, state : {"none", "partial", "invalid", "good"}]]
    BY <1>1, <1>2 DEF StoreInv, Typed
  <2>3. task' \in [Threads -> Task]
    BY <1>1, <1>3 DEF StoreInv, Typed
  <2> QED BY <1>1, <1>5, <2>1, <2>2, <2>3 DEF StoreInv, Typed
<1>7. Filed'
  <2> SUFFICES ASSUME NEW j \in Ids
               PROVE  /\ dbFile'[j].id \in {0, j}
                      /\ dbFile'[j].state \in Whole => dbFile'[j].id = j /\ fate[j] # "none"
                      /\ fate[j] \in {"captured", "left"} => dbFile'[j].id = j /\ dbFile'[j].state \in Whole
                      /\ fate[j] \in {"unlinked", "dropped"} => dbFile'[j].id = 0
                      /\ fate[j] = "dropped" => rows[j] = NoRow
                      /\ j > i => fate[j] = "none"
    BY <1>1, <1>5 DEF Filed
  <2>1. CASE j = i
    BY <2>1, <1>2, <1>5 DEF Whole
  <2>2. CASE j # i
    BY <2>2, <1>1, <1>5 DEF StoreInv, Filed, Ids, i
  <2> QED BY <2>1, <2>2
<1>8. \A j : Known(j) => Known(j)'
  BY <1>1, <1>2, <1>3, <1>4, <1>5 DEF Known, Capturing, StoreInv, Typed, Ids, i
<1>9. Named'
  BY <1>1, <1>8 DEF StoreInv, Named
<1>10. InProgress'
  <2>1. /\ task'["job"] = r /\ fate' = fate /\ dbFile'[i].id = i /\ i \in Ids
        /\ spent'.captures = i /\ i <= i
    BY <1>1, <1>2, <1>4, <1>5
  <2> QED BY <2>1, <1>3, <1>5 DEF InProgress
<1>11. Working'
  <2>1. \A x : Fit(x) => Fit(x)'
    BY <1>8 DEF Fit, Deleting
  <2>2. Fit(r)'
    BY <1>1, <1>3 DEF Fit, Deleting
  <2> QED BY <2>1, <2>2, <1>4 DEF StoreInv, Working
<1> QED BY <1>1, <1>6, <1>7, <1>9, <1>10, <1>11 DEF StoreInv

LEMMA BuiltKeeps == ASSUME StoreInv, Built PROVE StoreInv'
<1> DEFINE th == task["job"]
           i == th.id
<1>1. /\ up /\ up' /\ th.pc = "build" /\ minute' = minute /\ rows' = rows
      /\ fate' = [fate EXCEPT ![i] = "captured"]
  BY DEF Built, Reached, StoreInv
<1>2. /\ "job" \in Threads /\ th \in Task /\ Fit(th) /\ i \in Ids /\ i \in Nat /\ i <= spent.captures
      /\ th.row.name = i /\ fate[i] = "none" /\ dbFile[i].id = i
  BY <1>1 DEF StoreInv, Typed, Threads, InProgress, Working, Ids
<1> HIDE DEF th
<1>3. PICK st \in Whole :
        /\ dbFile' = [dbFile EXCEPT ![i].state = st]
        /\ \/ st = "good" /\ task' = [task EXCEPT !["job"] = [th EXCEPT !.pc = "register"]] /\ spent' = spent
           \/ task' = [task EXCEPT !["job"] = Free] /\ Event
  BY <1>2 DEF Built, Proceed, Set, th, Whole
<1>4. /\ spent' \in [captures : 0 .. MaxCaptures, events : Nat, moves : Nat]
      /\ spent'.captures = spent.captures
  BY <1>3 DEF StoreInv, Typed, Event
<1>5. /\ \A j \in Ids : fate'[j] = IF j = i THEN "captured" ELSE fate[j]
      /\ \A j \in Ids \ {i} : dbFile'[j] = dbFile[j]
      /\ dbFile'[i].id = i /\ dbFile'[i].state = st
  <2>1. \A j \in Ids : fate'[j] = IF j = i THEN "captured" ELSE fate[j]
    BY <1>1 DEF StoreInv, Typed
  <2>2. \A j \in Ids \ {i} : dbFile'[j] = dbFile[j]
    BY <1>3 DEF StoreInv, Typed, Ids, Names
  <2>3. dbFile'[i].id = i /\ dbFile'[i].state = st
    BY <1>2, <1>3 DEF StoreInv, Typed, Ids, Names
  <2> QED BY <2>1, <2>2, <2>3
<1>6. Filed'
  <2> SUFFICES ASSUME NEW j \in Ids
               PROVE  /\ dbFile'[j].id \in {0, j}
                      /\ dbFile'[j].state \in Whole => dbFile'[j].id = j /\ fate'[j] # "none"
                      /\ fate'[j] \in {"captured", "left"} => dbFile'[j].id = j /\ dbFile'[j].state \in Whole
                      /\ fate'[j] \in {"unlinked", "dropped"} => dbFile'[j].id = 0
                      /\ fate'[j] = "dropped" => rows[j] = NoRow
                      /\ j > spent.captures => fate'[j] = "none"
    BY <1>1, <1>4 DEF Filed
  <2>1. CASE j = i
    BY <2>1, <1>2, <1>3, <1>5 DEF StoreInv, Typed
  <2>2. CASE j # i
    BY <2>2, <1>5 DEF StoreInv, Filed
  <2> QED BY <2>1, <2>2
<1> DEFINE s == [th EXCEPT !.pc = "register"]
<1>7. /\ s \in Task /\ s.pc = "register" /\ s.id = i /\ s.row = th.row /\ s.todo = th.todo
      /\ s.use = th.use /\ s.entry = th.entry
  BY <1>2 DEF Task
<1> HIDE DEF s
<1>8. Typed'
  <2>1. dbFile' \in [Names -> [id : Nat, state : {"none", "partial", "invalid", "good"}]]
    <3>1. /\ DOMAIN dbFile = Names /\ i \in Names
          /\ dbFile[i] \in [id : Nat, state : {"none", "partial", "invalid", "good"}]
      BY <1>2 DEF StoreInv, Typed, Ids, Names
    <3>2. [dbFile[i] EXCEPT !.state = st] \in [id : Nat, state : {"none", "partial", "invalid", "good"}]
      BY <3>1 DEF Whole
    <3>3. dbFile' = [dbFile EXCEPT ![i] = [dbFile[i] EXCEPT !.state = st]]
      BY <1>3, <3>1
    <3> HIDE DEF i
    <3> QED BY <3>1, <3>2, <3>3 DEF StoreInv, Typed
  <2>2. task' \in [Threads -> Task]
    BY <1>3, <1>7, FreeFits DEF StoreInv, Typed, s
  <2>3. fate' \in [Ids -> {"none", "captured", "left", "unlinked", "dropped"}]
    BY <1>1 DEF StoreInv, Typed
  <2> QED BY <1>1, <1>4, <2>1, <2>2, <2>3 DEF StoreInv, Typed
<1>9. PICK r \in {s, Free} : (st # "good" => r = Free) /\ \A x \in Threads : task'[x] = IF x = "job" THEN r ELSE task[x]
  BY <1>3 DEF StoreInv, Typed, s
<1>10. \A j : Known(j) => Known(j)'
  BY <1>1, <1>2, <1>4, <1>5, <1>7, <1>9, FreeFits DEF Known, Capturing, th
<1>11. Named'
  BY <1>1, <1>10 DEF StoreInv, Named
<1>12. InProgress'
  BY <1>2, <1>4, <1>5, <1>7, <1>9, FreeFits DEF InProgress
<1>13. Working'
  <2>1. \A x : Fit(x) => Fit(x)'
    BY <1>10 DEF Fit, Deleting
  <2>2. Fit(s)
    BY <1>1, <1>2, <1>7 DEF Fit, Deleting
  <2> QED BY <2>1, <2>2, <1>9, FreeFits DEF StoreInv, Working
<1> QED BY <1>1, <1>6, <1>8, <1>11, <1>12, <1>13 DEF StoreInv

LEMMA RegisterKeeps == ASSUME StoreInv, Register PROVE StoreInv'
<1>1. PICK th : th = task["job"]
  OBVIOUS
<1>2. /\ up /\ up' /\ th.pc = "register" /\ UNCHANGED <<minute, dbFile, fate>>
      /\ "job" \in Threads /\ th \in Task /\ Fit(th)
  BY <1>1 DEF Register, Reached, StoreInv, Typed, Threads, Working, files
<1>3. th.id \in Ids /\ th.id <= spent.captures /\ th.row.name = th.id /\ fate[th.id] = "captured"
  BY <1>1, <1>2 DEF StoreInv, InProgress
<1>4. CASE rows' = rows
  <2>1. Event /\ Set("job", Free)
    <3>1. rows[th.id] = NoRow
      BY <1>1, <1>2, <1>3 DEF StoreInv, Named, Known, Capturing
    <3>2. rows' # [rows EXCEPT ![th.id] = [name |-> th.row.name, pre |-> FALSE, server |-> Server]]
      BY <3>1, <1>3, <1>4 DEF StoreInv, Typed, NoRow, Ids
    <3> QED BY <3>2, <1>1 DEF Register
  <2> QED BY <2>1, <1>2, <1>4, FreeFits, QuietStep DEF Unchanged
<1>5. CASE rows' # rows
  <2>1. PICK row : row = [name |-> th.id, pre |-> FALSE, server |-> Server]
    OBVIOUS
  <2>2. /\ rows' = [rows EXCEPT ![th.id] = row] /\ spent' = spent
        /\ task' = [task EXCEPT !["job"] = [th EXCEPT !.pc = "retention"]]
    BY <2>1, <1>1, <1>3, <1>5 DEF Register, Proceed, Set
  <2>3. row \in Row /\ row.name = th.id
    BY <2>1, <1>3 DEF Row, Ids, Server, StoreInv, Typed
  <2>4. PICK r : r = [th EXCEPT !.pc = "retention"]
    OBVIOUS
  <2>5. r \in Task /\ r.pc = "retention" /\ r.todo = th.todo /\ r.use = th.use /\ r.id = th.id
    BY <2>4, <1>2 DEF Task
  <2>6. \A x \in Threads : task'[x] = IF x = "job" THEN r ELSE task[x]
    BY <2>2, <2>4 DEF StoreInv, Typed
  <2>7. Typed'
    <3>1. rows' \in [Ids -> Row]
      BY <2>2, <2>3 DEF StoreInv, Typed
    <3>2. task' \in [Threads -> Task]
      BY <2>2, <2>4, <2>5 DEF StoreInv, Typed
    <3> QED BY <1>2, <2>2, <3>1, <3>2 DEF StoreInv, Typed
  <2>8. \A j \in Ids : rows'[j] = IF j = th.id THEN row ELSE rows[j]
    BY <2>2 DEF StoreInv, Typed
  <2>9. Filed'
    BY <1>2, <1>3, <2>2, <2>8 DEF StoreInv, Filed
  <2>10. \A j : Known(j) => Known(j)'
    BY <1>2, <2>2, <2>5, <2>6 DEF Known, Capturing
  <2>11. Known(th.id)'
    BY <1>2, <1>3, <2>2, <2>5, <2>6 DEF Known, Capturing
  <2>12. Named'
    BY <2>3, <2>8, <2>10, <2>11 DEF StoreInv, Named
  <2>13. InProgress'
    BY <1>2, <2>5, <2>6 DEF InProgress
  <2>14. Working'
    <3>1. \A x : Fit(x) => Fit(x)'
      BY <2>10 DEF Fit, Deleting
    <3>2. Fit(r)
      BY <1>2, <2>5 DEF Fit, Deleting
    <3> QED BY <3>1, <3>2, <2>5, <2>6 DEF StoreInv, Working
  <2> QED BY <1>2, <2>7, <2>9, <2>12, <2>13, <2>14 DEF StoreInv
<1> QED BY <1>4, <1>5

\* A list of the registry names snapshots that are known.
LEMMA EntriesKnown ==
    ASSUME StoreInv
    PROVE  \A S \in SUBSET Registered :
               Entries(S) \subseteq Entry /\ \A e \in Entries(S) : Known(e.id)
BY DEF Entries, Registered, StoreInv, Typed, Named, Known, Entry, Row, Ids

LEMMA RetentionKeeps == ASSUME StoreInv, EnforceRetention PROVE StoreInv'
<1>1. PICK th : th = task["job"]
  OBVIOUS
<1>2. PICK due : due = {e \in Listed : Cardinality({f \in Listed : f.id > e.id}) >= Keep}
  OBVIOUS
<1>3. PICK r : r = [th EXCEPT !.pc = "victim", !.todo = due]
  OBVIOUS
<1>4. /\ up /\ "job" \in Threads /\ th \in Task /\ Fit(th) /\ th.pc = "retention"
      /\ Unchanged /\ spent' = spent /\ Set("job", r)
  BY <1>1, <1>2, <1>3 DEF EnforceRetention, Reached, StoreInv, Typed, Threads, Working, Unchanged, files
<1>5. due \subseteq Entry /\ \A e \in due : Known(e.id)
  BY <1>2, EntriesKnown DEF Listed, Registered
<1>6. r \in Task /\ r.pc = "victim" /\ r.todo = due /\ r.use = th.use /\ r.id = th.id
  BY <1>3, <1>4, <1>5 DEF Task
<1>7. Fit(r)
  BY <1>4, <1>5, <1>6 DEF Fit, Deleting
<1> QED BY <1>4, <1>6, <1>7, QuietStep

-----------------------------------------------------------------------------
(* Sidecars                                                                 *)

\* Where a thread goes from a sidecar it rendered or could not render.
LEMMA RenderedFits ==
    ASSUME StoreInv, NEW th \in Task, Fit(th), th.pc \in {"render", "write", "stamp"}, NEW got \in BOOLEAN
    PROVE  /\ Rendered(th, got) \in Task /\ Fit(Rendered(th, got))
           /\ Rendered(th, got).pc \notin {"build", "register"}
<1>1. CASE th.use = "restore" /\ got
  <2>1. PICK r : r = [th EXCEPT !.pc = "submit"]
    OBVIOUS
  <2>2. r \in Task /\ r.pc = "submit" /\ r.todo = th.todo /\ r.use = th.use
    BY <2>1 DEF Task
  <2>3. Rendered(th, got) = r
    BY <1>1, <2>1 DEF Rendered
  <2> QED BY <2>2, <2>3, <1>1 DEF Fit, Deleting
<1>2. CASE th.use = "archive"
  <2>1. PICK r : r = [th EXCEPT !.pc = "move", !.row.pre = @ \/ got]
    OBVIOUS
  <2>2. /\ r \in Task /\ r.pc = "move" /\ r.todo = th.todo /\ r.use = th.use
        /\ r.entry = th.entry /\ r.row.name = th.row.name
    <3>1. PICK row : row = [th.row EXCEPT !.pre = @ \/ got]
      OBVIOUS
    <3>2. row \in Row /\ row.name = th.row.name
      BY <3>1 DEF Task, Row
    <3>3. r = [th EXCEPT !.pc = "move", !.row = row]
      BY <2>1, <3>1 DEF Task
    <3> QED BY <3>2, <3>3 DEF Task
  <2>3. Rendered(th, got) = r
    BY <1>2, <2>1 DEF Rendered
  <2> QED BY <2>2, <2>3, <1>2 DEF Fit, Deleting
<1>3. CASE ~(th.use = "restore" /\ got) /\ th.use # "archive"
  BY <1>3, FreeFits DEF Rendered
<1> QED BY <1>1, <1>2, <1>3

LEMMA AtWork ==
    ASSUME StoreInv, NEW t \in Threads, NEW pc, Reached(t, pc)
    PROVE  up /\ task[t] \in Task /\ Fit(task[t]) /\ task[t].pc = pc
BY DEF StoreInv, Typed, Working, Reached

LEMMA RenderKeeps == ASSUME StoreInv, NEW t \in {"job", "api"}, Render(t) PROVE StoreInv'
<1>1. PICK th : th = [task[t] EXCEPT !.row = IF task[t].use = "archive" THEN @ ELSE rows[task[t].id]]
  OBVIOUS
<1>2. /\ t \in Threads /\ up /\ task[t] \in Task /\ Fit(task[t]) /\ task[t].pc = "render"
      /\ Unchanged /\ spent' = spent
  BY AtWork DEF Render, Threads, Unchanged, files
<1>3. /\ th \in Task /\ th.pc = "render" /\ th.todo = task[t].todo /\ th.use = task[t].use
      /\ th.id = task[t].id /\ th.entry = task[t].entry
      /\ th.use = "archive" => th.row = task[t].row
  <2>1. task[t].id \in Ids
    BY <1>2 DEF Fit
  <2>2. rows[task[t].id] \in Row
    BY <2>1 DEF StoreInv, Typed
  <2> QED BY <1>1, <1>2, <2>2 DEF Task
<1>4. Fit(th)
  BY <1>2, <1>3 DEF Fit, Deleting
<1>5. PICK w : w = [th EXCEPT !.pc = "write"]
  OBVIOUS
<1>6. w \in Task /\ Fit(w) /\ w.pc = "write"
  <2>1. /\ w \in Task /\ w.pc = "write" /\ w.todo = th.todo /\ w.use = th.use /\ w.id = th.id
        /\ w.entry = th.entry /\ w.row = th.row
    BY <1>3, <1>5 DEF Task
  <2> QED BY <2>1, <1>3, <1>4 DEF Fit, Deleting
<1>7. PICK got \in BOOLEAN : Set(t, w) \/ Set(t, Rendered(th, got))
  <2> DEFINE row == rows[th.id]
             cached == row.pre /\ json[row.name].state # "none"
  <2>1. Set(t, IF row # NoRow /\ ~cached /\ dbFile[row.name].state # "none"
               THEN [th EXCEPT !.pc = "write"]
               ELSE Rendered(th, row # NoRow /\ cached))
    BY <1>1 DEF Render
  <2> HIDE DEF row, cached
  <2>2. (row # NoRow /\ cached) \in BOOLEAN
    OBVIOUS
  <2> QED BY <2>1, <2>2, <1>5
<1>8. PICK r \in {w, Rendered(th, got)} : Set(t, r)
  BY <1>7
<1>9. r \in Task /\ Fit(r) /\ r.pc \notin {"build", "register"}
  BY <1>3, <1>4, <1>6, RenderedFits
<1> QED BY <1>2, <1>8, <1>9, QuietStep

LEMMA WriteSidecarKeeps == ASSUME StoreInv, NEW t \in {"job", "api"}, WriteSidecar(t) PROVE StoreInv'
<1>1. PICK th : th = task[t]
  OBVIOUS
<1>2. /\ t \in Threads /\ up /\ th \in Task /\ Fit(th) /\ th.pc = "write" /\ Unchanged
  BY <1>1, AtWork DEF WriteSidecar, Threads, Unchanged
<1>3. PICK r : r = [th EXCEPT !.pc = "stamp"]
  OBVIOUS
<1>4. r \in Task /\ Fit(r) /\ r.pc = "stamp"
  <2>1. /\ r \in Task /\ r.pc = "stamp" /\ r.todo = th.todo /\ r.use = th.use /\ r.id = th.id
        /\ r.entry = th.entry /\ r.row = th.row
    BY <1>2, <1>3 DEF Task
  <2> QED BY <2>1, <1>2 DEF Fit, Deleting
<1>5. (Set(t, r) /\ spent' = spent) \/ (Set(t, Rendered(th, FALSE)) /\ Event)
  BY <1>1, <1>3 DEF WriteSidecar, Proceed
<1>6. CASE Set(t, r) /\ spent' = spent
  BY <1>2, <1>4, <1>6, QuietStep
<1>7. CASE Set(t, Rendered(th, FALSE)) /\ Event
  BY <1>2, <1>7, RenderedFits, QuietStep
<1> QED BY <1>5, <1>6, <1>7

\* An update of the column changes no name, and makes no row.
LEMMA SetPreKeeps ==
    ASSUME StoreInv, NEW i, NEW b \in BOOLEAN
    PROVE  /\ SetPre(i, b) \in [Ids -> Row]
           /\ \A j \in Ids : SetPre(i, b)[j] # NoRow => rows[j] # NoRow /\ SetPre(i, b)[j].name = j
<1>1. \A j \in Ids : rows[j] \in Row /\ (rows[j] # NoRow => rows[j].name = j)
  BY DEF StoreInv, Typed, Named
<1>2. CASE rows[i] = NoRow \/ i \notin Ids
  <2>1. SetPre(i, b) = rows
    BY <1>2 DEF SetPre, StoreInv, Typed
  <2> QED BY <2>1, <1>1 DEF StoreInv, Typed
<1>3. CASE rows[i] # NoRow /\ i \in Ids
  <2>1. PICK row : row = [rows[i] EXCEPT !.pre = b]
    OBVIOUS
  <2>2. row \in Row /\ row.name = i
    BY <2>1, <1>1, <1>3 DEF Row
  <2>3. SetPre(i, b) = [rows EXCEPT ![i] = row]
    BY <2>1, <1>3 DEF SetPre, StoreInv, Typed
  <2> QED BY <2>2, <2>3, <1>1, <1>3 DEF StoreInv, Typed
<1> QED BY <1>2, <1>3

\* A step of a thread that updates the column.
LEMMA StampStep ==
    ASSUME StoreInv, up, UNCHANGED <<up, minute, dbFile, fate, spent>>,
           NEW i, NEW b \in BOOLEAN, rows' = SetPre(i, b),
           NEW t \in Threads, NEW r \in Task, Fit(r), r.pc \notin {"build", "register"}, Set(t, r)
    PROVE  StoreInv'
<1>1. task' = [task EXCEPT ![t] = r]
  BY DEF Set
<1>2. /\ rows' \in [Ids -> Row]
      /\ \A j \in Ids : rows'[j] # NoRow => rows[j] # NoRow /\ rows'[j].name = j
  BY SetPreKeeps
<1>3. Typed'
  BY <1>1, <1>2 DEF StoreInv, Typed
<1>4. Filed'
  BY <1>2 DEF StoreInv, Filed
<1> QED BY <1>1, <1>2, <1>3, <1>4, ThreadStep

LEMMA StampSidecarKeeps == ASSUME StoreInv, NEW t \in {"job", "api"}, StampSidecar(t) PROVE StoreInv'
<1>1. PICK th : th = task[t]
  OBVIOUS
<1>2. /\ t \in Threads /\ up /\ th \in Task /\ Fit(th) /\ th.pc = "stamp"
      /\ UNCHANGED <<up, minute, dbFile, fate, spent>>
      /\ rows' = SetPre(th.id, TRUE) /\ Set(t, Rendered(th, TRUE))
  BY <1>1, AtWork DEF StampSidecar, Threads, files
<1> QED BY <1>2, RenderedFits, StampStep

-----------------------------------------------------------------------------
(* Deletion                                                                 *)

LEMMA NextVictimKeeps == ASSUME StoreInv, NEW t \in {"job", "api"}, NextVictim(t) PROVE StoreInv'
<1>1. PICK th : th = task[t]
  OBVIOUS
<1>2. /\ t \in Threads /\ up /\ th \in Task /\ Fit(th) /\ th.pc = "victim"
      /\ Unchanged /\ spent' = spent
  BY <1>1, AtWork DEF NextVictim, Threads, Unchanged, files
<1>3. ASSUME NEW r, Set(t, r), r \in Task, Fit(r), r.pc \notin {"build", "register"}
      PROVE  StoreInv'
  BY <1>2, <1>3, QuietStep
<1>4. CASE Set(t, IF th.use = "prebuild" THEN [th EXCEPT !.pc = "render"] ELSE Free)
  <2>1. PICK r : r = [th EXCEPT !.pc = "render"]
    OBVIOUS
  <2>2. /\ r \in Task /\ r.pc = "render" /\ r.todo = th.todo /\ r.use = th.use /\ r.id = th.id
    BY <1>2, <2>1 DEF Task
  <2>3. th.use = "prebuild" => Fit(r)
    BY <1>2, <2>2 DEF Fit, Deleting
  <2>4. CASE th.use = "prebuild"
    BY <1>3, <1>4, <2>1, <2>2, <2>3, <2>4
  <2>5. CASE th.use # "prebuild"
    BY <1>3, <1>4, <2>5, FreeFits
  <2> QED BY <2>4, <2>5
<1>5. ASSUME NEW e \in Newest(th.todo),
             Set(t, CASE rows[e.id] = NoRow -> [th EXCEPT !.todo = @ \ {e}]
                      [] rows[e.id] # NoRow /\ th.keep ->
                            [[th EXCEPT !.row = rows[e.id], !.entry = e, !.todo = @ \ {e}]
                               EXCEPT !.pc = "render", !.id = e.id, !.use = "archive"]
                      [] OTHER -> [[th EXCEPT !.row = rows[e.id], !.entry = e, !.todo = @ \ {e}]
                                     EXCEPT !.pc = "unlink"])
      PROVE  StoreInv'
  <2>1. e \in th.todo /\ Known(e.id) /\ e.id \in Ids /\ e \in Entry /\ rows[e.id] \in Row
    <3>1. e \in th.todo /\ Known(e.id) /\ e \in Entry
      BY <1>2 DEF Newest, Fit, Task
    <3> QED BY <3>1 DEF Known, StoreInv, Typed
  <2>2. CASE rows[e.id] = NoRow
    <3>1. PICK r : r = [th EXCEPT !.todo = @ \ {e}]
      OBVIOUS
    <3>2. /\ r \in Task /\ r.pc = "victim" /\ r.todo = th.todo \ {e} /\ r.use = th.use /\ r.id = th.id
      BY <1>2, <3>1 DEF Task
    <3>3. Fit(r)
      BY <1>2, <3>2 DEF Fit, Deleting
    <3>4. Set(t, r)
      BY <1>5, <2>2, <3>1
    <3> QED BY <1>3, <3>2, <3>3, <3>4
  <2>3. CASE rows[e.id] # NoRow
    <3>1. rows[e.id].name = e.id
      BY <2>1, <2>3 DEF StoreInv, Named
    <3>2. PICK p : p = [th EXCEPT !.row = rows[e.id], !.entry = e, !.todo = @ \ {e}]
      OBVIOUS
    <3>3. /\ p \in Task /\ p.row.name = e.id /\ p.entry = e /\ p.todo = th.todo \ {e}
          /\ p.use = th.use /\ p.id = th.id
      <4>1. p.todo \subseteq Entry /\ p.todo = th.todo \ {e}
        BY <1>2, <3>2 DEF Task
      <4> QED BY <1>2, <2>1, <3>1, <3>2, <4>1 DEF Task
    <3>4. CASE th.keep
      <4>1. PICK r : r = [p EXCEPT !.pc = "render", !.id = e.id, !.use = "archive"]
        OBVIOUS
      <4>2. /\ r \in Task /\ r.pc = "render" /\ r.row = p.row /\ r.entry = e /\ r.todo = p.todo
            /\ r.use = "archive" /\ r.id = e.id
        BY <3>3, <4>1, <2>1 DEF Task, Entry
      <4>3. Fit(r)
        BY <1>2, <2>1, <3>3, <4>2 DEF Fit, Deleting
      <4>4. Set(t, r)
        BY <1>5, <2>3, <3>2, <3>4, <4>1
      <4> QED BY <1>3, <4>2, <4>3, <4>4
    <3>5. CASE ~th.keep
      <4>1. PICK r : r = [p EXCEPT !.pc = "unlink"]
        OBVIOUS
      <4>2. /\ r \in Task /\ r.pc = "unlink" /\ r.row = p.row /\ r.entry = e /\ r.todo = p.todo
            /\ r.use = th.use /\ r.id = th.id
        BY <3>3, <4>1 DEF Task
      <4>3. Fit(r)
        BY <1>2, <2>1, <3>3, <4>2 DEF Fit, Deleting
      <4>4. Set(t, r)
        BY <1>5, <2>3, <3>2, <3>5, <4>1
      <4> QED BY <1>3, <4>2, <4>3, <4>4
    <3> QED BY <3>4, <3>5
  <2> QED BY <2>2, <2>3
<1> QED BY <1>1, <1>4, <1>5 DEF NextVictim

\* A thread goes on to another step of the deletion it is at.
LEMMA DeletionGoesOn ==
    ASSUME StoreInv, NEW th \in Task, Fit(th), Deleting(th),
           NEW pc \in {"unlink", "unlinkjson", "drop"}
    PROVE  [th EXCEPT !.pc = pc] \in Task /\ Fit([th EXCEPT !.pc = pc])
<1>1. PICK r : r = [th EXCEPT !.pc = pc]
  OBVIOUS
<1>2. /\ r \in Task /\ r.pc = pc /\ r.todo = th.todo /\ r.use = th.use /\ r.id = th.id
      /\ r.entry = th.entry /\ r.row = th.row
  BY <1>1 DEF Task
<1> QED BY <1>1, <1>2 DEF Fit, Deleting

LEMMA SidecarGoesKeeps ==
    ASSUME StoreInv, NEW t \in {"job", "api"}, MoveSidecar(t) \/ UnlinkSidecar(t)
    PROVE  StoreInv'
<1>1. PICK th : th = task[t]
  OBVIOUS
<1>2. PICK pc \in {"unlink", "drop"} : Set(t, [th EXCEPT !.pc = pc])
  BY <1>1 DEF MoveSidecar, UnlinkSidecar, Proceed
<1>3. /\ t \in Threads /\ up /\ th \in Task /\ Fit(th) /\ Deleting(th) /\ Unchanged
      /\ spent' = spent \/ Event
  <2>1. Reached(t, "move") \/ Reached(t, "unlinkjson")
    BY DEF MoveSidecar, UnlinkSidecar
  <2>2. t \in Threads /\ up /\ th \in Task /\ Fit(th) /\ Deleting(th)
    BY <1>1, <2>1, AtWork DEF Threads, Deleting
  <2> QED BY <2>2 DEF MoveSidecar, UnlinkSidecar, Unchanged
<1>4. [th EXCEPT !.pc = pc].pc = pc
  BY <1>3 DEF Task
<1> QED BY <1>2, <1>3, <1>4, DeletionGoesOn, QuietStep

LEMMA UnlinkDbKeeps == ASSUME StoreInv, NEW t \in {"job", "api"}, UnlinkDb(t) PROVE StoreInv'
<1>1. PICK th : th = task[t]
  OBVIOUS
<1>2. PICK r : r = [th EXCEPT !.pc = "unlinkjson"]
  OBVIOUS
<1>3. /\ t \in Threads /\ up /\ up' /\ th \in Task /\ Fit(th) /\ Deleting(th)
      /\ UNCHANGED <<minute, rows>> /\ Set(t, r)
  <2>1. t \in Threads /\ up /\ th \in Task /\ Fit(th) /\ th.pc = "unlink"
    BY <1>1, AtWork DEF UnlinkDb, Threads
  <2> QED BY <2>1, <1>1, <1>2 DEF UnlinkDb, Proceed, Deleting
<1>4. r \in Task /\ Fit(r) /\ r.pc = "unlinkjson"
  <2>1. r.pc = "unlinkjson"
    BY <1>2, <1>3 DEF Task
  <2> QED BY <1>2, <1>3, <2>1, DeletionGoesOn
<1>5. CASE Event /\ UNCHANGED <<dbFile, fate>>
  BY <1>3, <1>4, <1>5, QuietStep DEF Unchanged
<1>6. CASE /\ dbFile' = [dbFile EXCEPT ![th.row.name] = NoFile]
           /\ fate' = [fate EXCEPT ![th.entry.id] = "unlinked"]
           /\ spent' = spent
  <2>1. PICK v : v = th.entry.id
    OBVIOUS
  <2>2. Known(v) /\ th.row.name = v /\ v \in Ids /\ fate[v] # "none" /\ v <= spent.captures
    BY <1>3, <2>1 DEF Fit, Known
  <2>3. /\ \A j \in Ids : dbFile'[j] = IF j = v THEN NoFile ELSE dbFile[j]
        /\ \A j \in Ids : fate'[j] = IF j = v THEN "unlinked" ELSE fate[j]
    BY <1>6, <2>1, <2>2 DEF StoreInv, Typed, Ids, Names
  <2>4. task' = [task EXCEPT ![t] = r]
    BY <1>3 DEF Set
  <2>5. Typed'
    <3>1. dbFile' \in [Names -> [id : Nat, state : {"none", "partial", "invalid", "good"}]]
      BY <1>6 DEF StoreInv, Typed, NoFile
    <3>2. fate' \in [Ids -> {"none", "captured", "left", "unlinked", "dropped"}]
      BY <1>6 DEF StoreInv, Typed
    <3>3. task' \in [Threads -> Task]
      BY <1>4, <2>4 DEF StoreInv, Typed
    <3> QED BY <1>3, <1>6, <3>1, <3>2, <3>3 DEF StoreInv, Typed
  <2>6. Filed'
    <3> SUFFICES ASSUME NEW j \in Ids
                 PROVE  /\ dbFile'[j].id \in {0, j}
                        /\ dbFile'[j].state \in Whole => dbFile'[j].id = j /\ fate'[j] # "none"
                        /\ fate'[j] \in {"captured", "left"} => dbFile'[j].id = j /\ dbFile'[j].state \in Whole
                        /\ fate'[j] \in {"unlinked", "dropped"} => dbFile'[j].id = 0
                        /\ fate'[j] = "dropped" => rows[j] = NoRow
                        /\ j > spent.captures => fate'[j] = "none"
      BY <1>3, <1>6 DEF Filed
    <3>1. CASE j = v
      BY <3>1, <2>2, <2>3 DEF NoFile, Whole, Ids, StoreInv, Typed
    <3>2. CASE j # v
      BY <3>2, <2>3 DEF StoreInv, Filed
    <3> QED BY <3>1, <3>2
  <2>7. \A j \in Ids : rows'[j] # NoRow => rows[j] # NoRow /\ rows'[j].name = j
    BY <1>3 DEF StoreInv, Named
  <2>8. \A j \in Ids : Capturing(j) => fate'[j] = fate[j] /\ dbFile'[j] = dbFile[j]
    BY <2>2, <2>3 DEF Known
  <2>9. \A j \in Ids : fate[j] # "none" => fate'[j] # "none"
    BY <2>3
  <2> QED BY <1>3, <1>4, <1>6, <2>4, <2>5, <2>6, <2>7, <2>8, <2>9, ThreadStep
<1> QED BY <1>1, <1>5, <1>6 DEF UnlinkDb

LEMMA DropRowKeeps == ASSUME StoreInv, NEW t \in {"job", "api"}, DropRow(t) PROVE StoreInv'
<1>1. PICK th : th = task[t]
  OBVIOUS
<1>2. PICK r : r = [th EXCEPT !.pc = "victim", !.entry = NoEntry]
  OBVIOUS
<1>3. PICK v : v = th.entry.id
  OBVIOUS
<1>4. /\ t \in Threads /\ up /\ up' /\ th \in Task /\ Fit(th) /\ th.pc = "drop"
      /\ UNCHANGED <<minute, dbFile, spent>> /\ task' = [task EXCEPT ![t] = r]
      /\ rows' = [rows EXCEPT ![v] = NoRow]
      /\ fate' = [fate EXCEPT ![v] = IF @ \in {"captured", "left"} THEN "left" ELSE "dropped"]
  <2>1. t \in Threads /\ up /\ th \in Task /\ Fit(th) /\ th.pc = "drop"
    BY <1>1, AtWork DEF DropRow, Threads
  <2> QED BY <2>1, <1>1, <1>2, <1>3 DEF DropRow, Set, files
<1>5. Known(v) /\ v \in Ids /\ v <= spent.captures /\ fate[v] # "none"
  BY <1>3, <1>4 DEF Fit, Deleting, Known
<1>6. r \in Task /\ Fit(r) /\ r.pc = "victim"
  <2>1. r \in Task /\ r.pc = "victim" /\ r.todo = th.todo /\ r.use = th.use /\ r.id = th.id
    BY <1>2, <1>4 DEF Task, Entry, NoEntry
  <2> QED BY <1>4, <2>1 DEF Fit, Deleting
<1>7. /\ \A j \in Ids : rows'[j] = IF j = v THEN NoRow ELSE rows[j]
      /\ \A j \in Ids \ {v} : fate'[j] = fate[j]
      /\ fate'[v] = IF fate[v] \in {"captured", "left"} THEN "left" ELSE "dropped"
  BY <1>4, <1>5 DEF StoreInv, Typed
<1>8. Typed'
  <2>1. rows' \in [Ids -> Row]
    BY <1>4 DEF StoreInv, Typed, NoRow, Row
  <2>2. fate' \in [Ids -> {"none", "captured", "left", "unlinked", "dropped"}]
    BY <1>4 DEF StoreInv, Typed
  <2>3. task' \in [Threads -> Task]
    BY <1>4, <1>6 DEF StoreInv, Typed
  <2> QED BY <1>4, <2>1, <2>2, <2>3 DEF StoreInv, Typed
<1>9. Filed'
  <2> SUFFICES ASSUME NEW j \in Ids
               PROVE  /\ dbFile[j].id \in {0, j}
                      /\ dbFile[j].state \in Whole => dbFile[j].id = j /\ fate'[j] # "none"
                      /\ fate'[j] \in {"captured", "left"} => dbFile[j].id = j /\ dbFile[j].state \in Whole
                      /\ fate'[j] \in {"unlinked", "dropped"} => dbFile[j].id = 0
                      /\ fate'[j] = "dropped" => rows'[j] = NoRow
                      /\ j > spent.captures => fate'[j] = "none"
    BY <1>4 DEF Filed
  <2>1. CASE j = v
    BY <2>1, <1>5, <1>7 DEF StoreInv, Filed, Typed, Ids
  <2>2. CASE j # v
    BY <2>2, <1>7 DEF StoreInv, Filed
  <2> QED BY <2>1, <2>2
<1>10. \A j \in Ids : rows'[j] # NoRow => rows[j] # NoRow /\ rows'[j].name = j
  BY <1>7 DEF StoreInv, Named
<1>11. \A j \in Ids : /\ Capturing(j) => fate'[j] = fate[j] /\ dbFile'[j] = dbFile[j]
                      /\ fate[j] # "none" => fate'[j] # "none"
  BY <1>4, <1>5, <1>7 DEF Known
<1> QED BY <1>4, <1>6, <1>8, <1>9, <1>10, <1>11, ThreadStep

-----------------------------------------------------------------------------
(* Requests                                                                 *)

LEMMA RequestKeeps ==
    ASSUME StoreInv, NEW r \in Task, Fit(r), r.pc \notin {"build", "register"}, Request(r)
    PROVE  StoreInv'
<1>1. "api" \in Threads /\ up /\ Unchanged /\ Event /\ Set("api", r)
  BY DEF Request, Reached, Threads, Unchanged, files
<1> QED BY <1>1, QuietStep

LEMMA RenderRequestKeeps ==
    ASSUME StoreInv, NEW i \in Ids, Download(i) \/ RestoreFromSnapshot(i)
    PROVE  StoreInv'
<1>1. PICK r \in {[Free EXCEPT !.pc = "render", !.id = i],
                  [Free EXCEPT !.pc = "render", !.id = i, !.use = "restore"]} : Request(r)
  BY DEF Download, RestoreFromSnapshot
<1>2. r \in Task /\ r.pc = "render" /\ r.id = i /\ r.todo = {} /\ r.use \in {"none", "restore"}
  <2>1. i \in Nat
    BY DEF Ids
  <2>2. CASE r = [Free EXCEPT !.pc = "render", !.id = i]
    BY <2>1, <2>2 DEF Free, Task, Row, Entry, NoRow, NoEntry
  <2>3. CASE r = [Free EXCEPT !.pc = "render", !.id = i, !.use = "restore"]
    BY <2>1, <2>3 DEF Free, Task, Row, Entry, NoRow, NoEntry
  <2> QED BY <1>1, <2>2, <2>3
<1>3. Fit(r)
  BY <1>2 DEF Fit, Deleting
<1> QED BY <1>1, <1>2, <1>3, RequestKeeps

LEMMA DeleteRequestKeeps ==
    ASSUME StoreInv, (\E i \in Ids, b \in BOOLEAN : DeleteSnapshot(i, b)) \/ DeleteAllForServer
    PROVE  StoreInv'
<1>1. PICK S \in SUBSET Registered, b \in BOOLEAN :
         \/ Request([Free EXCEPT !.pc = "victim", !.keep = b, !.todo = Entries(S)])
         \/ Request([Free EXCEPT !.pc = "victim", !.todo = Entries(S)])
  <2>1. CASE DeleteAllForServer
    BY <2>1 DEF DeleteAllForServer, Listed, Registered
  <2>2. CASE \E i \in Ids, b \in BOOLEAN : DeleteSnapshot(i, b)
    BY <2>2 DEF DeleteSnapshot
  <2> QED BY <2>1, <2>2
<1>2. PICK todo : todo = Entries(S)
  OBVIOUS
<1>3. PICK r \in {[Free EXCEPT !.pc = "victim", !.keep = b, !.todo = todo],
                  [Free EXCEPT !.pc = "victim", !.todo = todo]} : Request(r)
  BY <1>1, <1>2
<1>4. todo \subseteq Entry /\ \A e \in todo : Known(e.id)
  BY <1>2, EntriesKnown
<1>5. r \in Task /\ r.pc = "victim" /\ r.todo = todo /\ r.use = "none"
  <2>1. CASE r = [Free EXCEPT !.pc = "victim", !.keep = b, !.todo = todo]
    BY <1>4, <2>1 DEF Free, Task, Row, Entry, NoRow, NoEntry
  <2>2. CASE r = [Free EXCEPT !.pc = "victim", !.todo = todo]
    BY <1>4, <2>2 DEF Free, Task, Row, Entry, NoRow, NoEntry
  <2> QED BY <1>3, <2>1, <2>2
<1>6. Fit(r)
  BY <1>4, <1>5 DEF Fit, Deleting
<1> QED BY <1>3, <1>5, <1>6, RequestKeeps

LEMMA SubmitKeeps == ASSUME StoreInv, Submit PROVE StoreInv'
<1>1. "api" \in Threads /\ up /\ Unchanged /\ spent' = spent /\ Set("api", Free)
  BY DEF Submit, Reached, Threads, Unchanged, files
<1> QED BY <1>1, FreeFits, QuietStep

\* The worker's queue and the ages of the sidecars are nothing to the files.
LEMMA OutsideKeeps ==
    ASSUME StoreInv, Unchanged, task' = task, spent' = spent \/ ServerReplaced
    PROVE  StoreInv'
<1>1. /\ spent' \in [captures : 0 .. MaxCaptures, events : Nat, moves : Nat]
      /\ spent'.captures = spent.captures
  <2>1. spent \in [captures : 0 .. MaxCaptures, events : Nat, moves : Nat]
    BY DEF StoreInv, Typed
  <2>2. CASE ServerReplaced
    <3>1. PICK e, m : e = spent.events + 1 /\ m = spent.moves + 1
      OBVIOUS
    <3>2. e \in Nat /\ m \in Nat
      BY <2>1, <3>1
    <3>3. spent' = [spent EXCEPT !.events = e, !.moves = m]
      BY <2>2, <3>1 DEF ServerReplaced
    <3> QED BY <2>1, <3>2, <3>3
  <2> QED BY <2>1, <2>2
<1>2. Typed'
  BY <1>1 DEF StoreInv, Typed, Unchanged
<1>3. Filed'
  BY <1>1 DEF StoreInv, Filed, Unchanged
<1>4. \A j : Known(j) => Known(j)'
  BY <1>1 DEF Known, Capturing, Unchanged
<1>5. Named'
  BY <1>4 DEF StoreInv, Named, Unchanged
<1>6. InProgress'
  BY <1>1 DEF StoreInv, InProgress, Unchanged
<1>7. Working'
  <2>1. \A x : Fit(x) => Fit(x)'
    BY <1>4 DEF Fit, Deleting
  <2> QED BY <2>1 DEF StoreInv, Working
<1> QED BY <1>2, <1>3, <1>5, <1>6, <1>7 DEF StoreInv, Unchanged

\* Rows change and nothing else does: no row goes, none gets another name.
LEMMA ReassignKeeps == ASSUME StoreInv, ReassignOrphans PROVE StoreInv'
<1>1. /\ UNCHANGED <<up, minute, dbFile, task, fate, spent>> /\ up
      /\ rows' = [i \in Ids |-> IF i \in Registered THEN [rows[i] EXCEPT !.server = Server] ELSE NoRow]
  BY DEF ReassignOrphans, Reached, files
<1>2. Server \in Nat
  BY DEF Server, StoreInv, Typed
<1>3. /\ rows' \in [Ids -> Row]
      /\ \A j \in Ids : rows'[j] # NoRow => rows[j] # NoRow /\ rows'[j].name = rows[j].name
  <2> SUFFICES ASSUME NEW j \in Ids
               PROVE  /\ rows'[j] \in Row
                      /\ rows'[j] # NoRow => rows[j] # NoRow /\ rows'[j].name = rows[j].name
    BY <1>1
  <2>1. rows[j] \in Row /\ NoRow \in Row
    BY DEF StoreInv, Typed, NoRow, Row
  <2>2. CASE j \in Registered
    BY <1>1, <1>2, <2>1, <2>2 DEF Registered, Row
  <2>3. CASE j \notin Registered
    BY <1>1, <2>1, <2>3
  <2> QED BY <2>2, <2>3
<1>4. Typed'
  BY <1>1, <1>3 DEF StoreInv, Typed
<1>5. Filed'
  BY <1>1, <1>3 DEF StoreInv, Filed
<1>6. \A j : Known(j) => Known(j)'
  BY <1>1 DEF Known, Capturing
<1>7. Named'
  BY <1>3, <1>6 DEF StoreInv, Named
<1>8. InProgress'
  BY <1>1 DEF StoreInv, InProgress
<1>9. Working'
  <2>1. \A x : Fit(x) => Fit(x)'
    BY <1>6 DEF Fit, Deleting
  <2> QED BY <1>1, <2>1 DEF StoreInv, Working
<1> QED BY <1>1, <1>4, <1>5, <1>7, <1>8, <1>9 DEF StoreInv

-----------------------------------------------------------------------------
(* The reaper                                                               *)

LEMMA ReapListKeeps == ASSUME StoreInv, ReapList PROVE StoreInv'
<1>1. PICK todo : todo = Entries({i \in Registered : rows[i].pre})
  OBVIOUS
<1>2. PICK r : r = [Free EXCEPT !.pc = "reap", !.todo = todo]
  OBVIOUS
<1>3. "reaper" \in Threads /\ up /\ Unchanged /\ spent' = spent /\ Set("reaper", r)
  BY <1>1, <1>2 DEF ReapList, Reached, Threads, Unchanged, files
<1>4. todo \subseteq Entry /\ \A e \in todo : Known(e.id)
  BY <1>1, EntriesKnown
<1>5. r \in Task /\ r.pc = "reap" /\ r.todo = todo /\ r.use = "none"
  BY <1>2, <1>4 DEF Free, Task, Row, Entry, NoRow, NoEntry
<1>6. Fit(r)
  BY <1>4, <1>5 DEF Fit, Deleting
<1> QED BY <1>3, <1>5, <1>6, QuietStep

LEMMA ReapNextFits ==
    ASSUME StoreInv, NEW th \in Task, Fit(th), th.pc \in {"reap", "clear"}, NEW e
    PROVE  /\ ReapNext(th, e) \in Task /\ Fit(ReapNext(th, e))
           /\ ReapNext(th, e).pc \notin {"build", "register"}
<1>1. PICK r : r = [th EXCEPT !.pc = "reap", !.entry = NoEntry, !.todo = @ \ {e}]
  OBVIOUS
<1>2. /\ r \in Task /\ r.pc = "reap" /\ r.todo = th.todo \ {e} /\ r.use = th.use /\ r.id = th.id
  BY <1>1 DEF Task, Entry, NoEntry
<1>3. Fit(r)
  BY <1>2 DEF Fit, Deleting
<1> QED BY <1>1, <1>2, <1>3, FreeFits DEF ReapNext

LEMMA ReapFileKeeps == ASSUME StoreInv, ReapFile PROVE StoreInv'
<1>1. PICK th : th = task["reaper"]
  OBVIOUS
<1>2. /\ "reaper" \in Threads /\ up /\ th \in Task /\ Fit(th) /\ th.pc = "reap" /\ Unchanged
  BY <1>1, AtWork DEF ReapFile, Threads, Unchanged
<1>3. PICK e \in th.todo :
        \/ Set("reaper", [th EXCEPT !.pc = "clear", !.entry = e]) /\ spent' = spent
        \/ Set("reaper", ReapNext(th, e)) /\ (spent' = spent \/ Event)
  BY <1>1 DEF ReapFile, Oldest
<1>4. CASE Set("reaper", [th EXCEPT !.pc = "clear", !.entry = e]) /\ spent' = spent
  <2>1. PICK r : r = [th EXCEPT !.pc = "clear", !.entry = e]
    OBVIOUS
  <2>2. e \in Entry /\ Known(e.id)
    BY <1>2 DEF Fit, Task
  <2>3. /\ r \in Task /\ r.pc = "clear" /\ r.todo = th.todo /\ r.use = th.use /\ r.id = th.id
        /\ r.entry = e
    BY <1>2, <2>1, <2>2 DEF Task
  <2>4. Fit(r)
    BY <1>2, <2>2, <2>3 DEF Fit, Deleting
  <2> QED BY <1>2, <1>4, <2>1, <2>3, <2>4, QuietStep
<1>5. CASE Set("reaper", ReapNext(th, e)) /\ (spent' = spent \/ Event)
  BY <1>2, <1>5, ReapNextFits, QuietStep
<1> QED BY <1>3, <1>4, <1>5

LEMMA ReapClearKeeps == ASSUME StoreInv, ReapClear PROVE StoreInv'
<1>1. PICK th : th = task["reaper"]
  OBVIOUS
<1>2. /\ "reaper" \in Threads /\ up /\ th \in Task /\ Fit(th) /\ th.pc = "clear"
      /\ UNCHANGED <<up, minute, dbFile, fate, spent>>
      /\ rows' = SetPre(th.entry.id, FALSE) /\ Set("reaper", ReapNext(th, th.entry))
  BY <1>1, AtWork DEF ReapClear, Threads, files
<1> QED BY <1>2, ReapNextFits, StampStep

-----------------------------------------------------------------------------
(* The end of the process and the recovery                                  *)

LEMMA CrashKeeps == ASSUME StoreInv, Crash PROVE StoreInv'
<1>1. /\ up' = FALSE /\ UNCHANGED <<minute, rows, dbFile, fate>> /\ Event
      /\ task' = [x \in Threads |-> Free]
  BY DEF Crash, files
<1>2. /\ spent' \in [captures : 0 .. MaxCaptures, events : Nat, moves : Nat]
      /\ spent'.captures = spent.captures
  BY <1>1 DEF StoreInv, Typed, Event
<1>3. \A x \in Threads : task'[x] = Free
  BY <1>1
<1>4. Typed'
  BY <1>1, <1>2, FreeFits DEF StoreInv, Typed
<1>5. Filed'
  BY <1>1, <1>2 DEF StoreInv, Filed
<1>6. \A j : Known(j) => Known(j)'
  BY <1>1, <1>2, <1>3, FreeFits DEF Known, Capturing, Threads
<1>7. Named'
  BY <1>1, <1>6 DEF StoreInv, Named
<1>8. InProgress'
  BY <1>3, FreeFits DEF InProgress, Threads
<1>9. Working'
  <2>1. \A x : Fit(x) => Fit(x)'
    BY <1>6 DEF Fit, Deleting
  <2> QED BY <1>3, <2>1, FreeFits DEF Working
<1> QED BY <1>3, <1>4, <1>5, <1>7, <1>8, <1>9 DEF StoreInv

\* The recovery adopts a file under the capture's own id, and the snapshot of
\* every whole file that has no row.
LEMMA AdoptedIsOwn ==
    ASSUME StoreInv, NEW i \in Ids
    PROVE  /\ Adopted(i) \in Row
           /\ Adopted(i) # rows[i] => Adopted(i).name = i /\ dbFile[i].id = i /\ fate[i] # "none"
           /\ dbFile[i].id = i /\ dbFile[i].state \in Whole => Adopted(i) # NoRow
<1>1. \A n \in Orphans : n \in Ids /\ dbFile[n].id = n /\ fate[n] # "none"
  BY DEF Orphans, StoreInv, Filed, Whole, Ids, Names
<1>2. Server \in Nat /\ rows[i] \in Row
  BY DEF Server, StoreInv, Typed
<1>3. CASE \E n \in Orphans : dbFile[n].id = i
  <2>1. (CHOOSE n \in Orphans : dbFile[n].id = i) = i
    BY <1>1, <1>3
  <2>2. Adopted(i) = [name |-> i, pre |-> FALSE, server |-> Server]
    BY <1>3, <2>1 DEF Adopted
  <2>3. i \in Orphans
    BY <1>1, <1>3
  <2> QED BY <1>1, <1>2, <2>2, <2>3 DEF Row, NoRow, Ids
<1>4. CASE ~\E n \in Orphans : dbFile[n].id = i
  <2>1. Adopted(i) = rows[i]
    BY <1>4 DEF Adopted
  <2>2. dbFile[i].id = i /\ dbFile[i].state \in Whole => rows[i] # NoRow
    <3> SUFFICES ASSUME dbFile[i].id = i, dbFile[i].state \in Whole, rows[i] = NoRow
                 PROVE  FALSE
      OBVIOUS
    <3>1. i \notin Registered /\ \A j \in Registered : rows[j].name = j
      BY DEF Registered, StoreInv, Named
    <3>2. i \in Orphans
      BY <3>1 DEF Orphans, Whole, Ids, Names, Registered
    <3> QED BY <1>4, <3>2
  <2> QED BY <1>2, <2>1, <2>2
<1> QED BY <1>3, <1>4

LEMMA BootKeeps == ASSUME StoreInv, Boot PROVE StoreInv'
<1>1. /\ up' = TRUE /\ UNCHANGED <<minute, dbFile, task, fate, spent>>
      /\ rows' = [i \in Ids |-> Adopted(i)]
      /\ \A t \in Threads : task[t] = Free
  BY DEF Boot, StoreInv, files
<1>2. \A i \in Ids : /\ rows'[i] \in Row
                     /\ rows'[i] # rows[i] => rows'[i].name = i /\ dbFile[i].id = i /\ fate[i] # "none"
  BY <1>1, AdoptedIsOwn
<1>3. Typed'
  BY <1>1, <1>2 DEF StoreInv, Typed
<1>4. Filed'
  BY <1>1, <1>2 DEF StoreInv, Filed, Ids
<1>5. \A j : Known(j) => Known(j)'
  BY <1>1 DEF Known, Capturing
<1>6. Named'
  <2> SUFFICES ASSUME NEW j \in Ids, rows'[j] # NoRow
               PROVE  rows'[j].name = j /\ Known(j)'
    BY DEF Named
  <2>1. CASE rows'[j] = rows[j]
    BY <2>1, <1>5 DEF StoreInv, Named
  <2>2. CASE rows'[j] # rows[j]
    <3>1. fate[j] # "none" /\ rows'[j].name = j
      BY <2>2, <1>2
    <3>2. j <= spent.captures
      BY <3>1 DEF StoreInv, Filed, Typed, Ids
    <3>3. task["job"].pc = "idle"
      BY <1>1, FreeFits DEF Threads
    <3> QED BY <1>1, <3>1, <3>2, <3>3 DEF Known, Capturing
  <2> QED BY <2>1, <2>2
<1>7. InProgress'
  BY <1>1 DEF StoreInv, InProgress
<1>8. Working'
  <2>1. \A x : Fit(x) => Fit(x)'
    BY <1>5 DEF Fit, Deleting
  <2> QED BY <1>1, <2>1 DEF StoreInv, Working
<1> QED BY <1>1, <1>3, <1>4, <1>6, <1>7, <1>8 DEF StoreInv

-----------------------------------------------------------------------------
(* The invariant holds                                                      *)

LEMMA InitEstablishes == ASSUME StoreInit PROVE StoreInv
<1>1. \A t \in Threads : task[t] = Free
  BY DEF StoreInit
<1>2. Typed
  BY StoreAssumption, FreeFits DEF StoreInit, Typed, NoRow, Row, NoFile
<1>3. Filed /\ Named
  BY StoreAssumption DEF StoreInit, Filed, Named, NoRow, NoFile, Whole, Ids, Names
<1>4. InProgress
  BY <1>1, FreeFits DEF InProgress, Threads
<1>5. Working
  BY <1>1, FreeFits DEF Working, Fit, Deleting, Free
<1> QED BY <1>1, <1>2, <1>3, <1>4, <1>5 DEF StoreInv

LEMMA StepKeeps ==
    ASSUME StoreInv, SameMinute = FALSE, [StoreNext]_storeVars
    PROVE  StoreInv'
<1>1. ASSUME NEW t \in {"job", "api"}, Rendering(t) \/ Deletion(t)
      PROVE  StoreInv'
  BY <1>1, RenderKeeps, WriteSidecarKeeps, StampSidecarKeeps, NextVictimKeeps, SidecarGoesKeeps,
     UnlinkDbKeeps, DropRowKeeps DEF Rendering, Deletion
<1>2. CASE StartRestore \/ (\E n \in Names : SidecarAges(n)) \/ ServerReplaced
  <2>1. Unchanged /\ task' = task /\ (spent' = spent \/ ServerReplaced)
    BY <1>2 DEF StartRestore, SidecarAges, ServerReplaced, Unchanged, files
  <2> QED BY <2>1, OutsideKeeps
<1>3. CASE UNCHANGED storeVars
  <2>1. Unchanged /\ task' = task /\ spent' = spent
    BY <1>3 DEF storeVars, Unchanged
  <2> QED BY <2>1, OutsideKeeps
<1>4. CASE (\E b \in BOOLEAN : Capture(b)) \/ Built \/ Register \/ EnforceRetention
  BY <1>4, CaptureKeeps, BuiltKeeps, RegisterKeeps, RetentionKeeps
<1>5. CASE \/ \E i \in Ids : Download(i) \/ RestoreFromSnapshot(i)
           \/ \E i \in Ids, b \in BOOLEAN : DeleteSnapshot(i, b)
           \/ DeleteAllForServer \/ ReassignOrphans \/ Submit
  BY <1>5, RenderRequestKeeps, DeleteRequestKeeps, ReassignKeeps, SubmitKeeps
<1>6. CASE ReapList \/ ReapFile \/ ReapClear \/ Crash \/ Boot
  BY <1>6, ReapListKeeps, ReapFileKeeps, ReapClearKeeps, CrashKeeps, BootKeeps
<1> QED BY <1>1, <1>2, <1>3, <1>4, <1>5, <1>6 DEF StoreNext

\* The invariant, if no two captures of a server happen in one minute
\* (snapshot_registry.py format_snapshot_filename).
THEOREM StoreInvariant == ASSUME SameMinute = FALSE PROVE StoreSpec => []StoreInv
<1>1. StoreInit => StoreInv
  BY InitEstablishes
<1>2. StoreInv /\ [StoreNext]_storeVars => StoreInv'
  BY StepKeeps
<1> QED BY <1>1, <1>2, PTL DEF StoreSpec

-----------------------------------------------------------------------------
(* What it shows                                                            *)

\* A finished capture keeps its file until a deletion of that snapshot removes
\* it, whatever other captures, sweeps, requests, the reaper, failures and
\* crashes do meanwhile (delete, enforce_retention, build_snapshot_db_from_payloads).
THEOREM CapturesSurvive == ASSUME SameMinute = FALSE PROVE StoreSpec => []CaptureSurvives
<1>1. StoreInv => CaptureSurvives
  BY DEF StoreInv, Filed, CaptureSurvives, Ids, Names
<1> QED BY <1>1, StoreInvariant, PTL

\* A snapshot whose file and row a deletion removed never has a row again
\* (delete, reconcile_orphaned_snapshots).
THEOREM DeletedIsGone == ASSUME SameMinute = FALSE PROVE StoreSpec => []DeletedStaysDeleted
<1>1. StoreInv => DeletedStaysDeleted
  BY DEF StoreInv, Filed, DeletedStaysDeleted
<1> QED BY <1>1, StoreInvariant, PTL

\* The next start gives a row to every capture whose file is whole, wherever
\* in a capture or a deletion the process ended (reconcile_orphaned_snapshots).
THEOREM RecoveryIsComplete == ASSUME SameMinute = FALSE PROVE StoreSpec => RecoveryFindsAll
<1> DEFINE Found == ~up /\ up' => \A i \in Ids : fate[i] = "captured" => rows'[i] # NoRow
<1>1. StoreInv /\ StoreNext => Found
  <2> SUFFICES ASSUME StoreInv, StoreNext, ~up, up', NEW i \in Ids, fate[i] = "captured"
               PROVE  rows'[i] # NoRow
    OBVIOUS
  <2>1. Boot
    BY DEF StoreNext, Capture, Built, Register, EnforceRetention, Rendering, Render, WriteSidecar,
           StampSidecar, Deletion, NextVictim, MoveSidecar, UnlinkDb, UnlinkSidecar, DropRow,
           Download, RestoreFromSnapshot, DeleteSnapshot, DeleteAllForServer, Request, Submit,
           ReassignOrphans, StartRestore, ReapList, ReapFile, ReapClear, SidecarAges,
           ServerReplaced, Crash, Reached
  <2>2. dbFile[i].id = i /\ dbFile[i].state \in Whole
    BY DEF StoreInv, Filed
  <2> QED BY <2>1, <2>2, AdoptedIsOwn DEF Boot
<1>2. StoreInv /\ [StoreNext]_storeVars => [Found]_storeVars
  BY <1>1
<1> QED BY <1>2, StoreInvariant, PTL DEF StoreSpec, RecoveryFindsAll

-----------------------------------------------------------------------------
(* The media database: its invariant                                        *)

Titles == [Columns -> DOMAIN FilmOf \cup {Nil}]
ItemIds == Nat \ {0}

ServerItem == [item : ItemIds, server : Servers, key : Keys, seen : Nat \cup {Nil}]

(* The shapes of the database and of the clocks.                            *)
MediaTyped ==
    /\ nextId \in ItemIds
    /\ DOMAIN items \subseteq ItemIds
    /\ \A i \in DOMAIN items : /\ i < nextId /\ items[i] \in Titles
                               /\ Films(items[i]) = {Film(items[i])}
    /\ items = [i \in DOMAIN items |-> items[i]]
    /\ serverItems \subseteq ServerItem
    /\ lists = [l \in Libraries |-> lists[l]]
    /\ known = [k \in Keys |-> known[k]]
    /\ clock \in Nat
    /\ world \in [Keys -> Guids \cup {Nil}] /\ since \in [Keys -> Nat]
    /\ met \in [Keys -> Nat \cup {Nil}]

(* What a library's capture carries from one statement to the next.         *)
Payload(t) ==
    /\ DOMAIN t.payload \subseteq Keys
    /\ \A k \in DOMAIN t.payload : t.payload[k] \in Guids

(* The title i, if it has not been pruned, is the film f.                   *)
Is(i, f) == i \in ItemIds /\ i < nextId /\ (i \in DOMAIN items => Films(items[i]) = {f})

Fields == {"pc", "payload", "todo", "found", "key", "held"}

Carried(l) ==
    LET t == thread[l] IN
    /\ DOMAIN t = Fields
    /\ t.pc = "fetch" => t.found = <<>>
    /\ t.pc \in {"decide", "items", "held", "watch"} =>
          /\ Payload(t)
          /\ \A k \in DOMAIN t.payload : LibOf[k] = l
          /\ t.pc \in {"items", "held"} => t.todo \subseteq DOMAIN t.payload
          /\ t.pc = "held" => t.key \in DOMAIN t.payload /\ Is(t.held, Film(t.payload[t.key]))
          /\ DOMAIN t.found \subseteq DOMAIN t.payload
          /\ \A k \in DOMAIN t.found : Is(t.found[k], Film(t.payload[k]))

Captured == thread = [l \in Libraries |-> thread[l]] /\ \A l \in Libraries : Carried(l)

(* A key belongs to one server, an item has one row there and a key has     *)
(* one, which names a title that is there.                                  *)
Rows ==
    /\ \A r \in serverItems : r.server = HomeOf(r.key)
    /\ \A r, q \in serverItems :
          r.server = q.server /\ (r.item = q.item \/ r.key = q.key) => r = q

(* A list that names a pruned title will not name the next one.             *)
ListsName == \A l \in Libraries : \A e \in lists[l] : Is(e.item, e.film)

CacheInv == MediaTyped /\ Captured /\ Rows /\ ListsName /\ CacheNeverMisleads

(* The walk that runs on a server began after those that have ended there.  *)
Walks ==
    /\ walk = [s \in Servers |-> walk[s]]
    /\ \A s \in Servers :
        /\ DOMAIN walk[s] = {"pc", "at", "sections", "keys", "missed"}
        /\ walk[s].pc # "sections" => walk[s].keys = {}
        /\ walk[s].pc = "sections" =>
              /\ walk[s].at \in Nat /\ walk[s].at <= clock
              /\ \A k \in Keys : HomeOf(k) = s /\ met[k] # Nil => met[k] <= walk[s].at
    /\ \A k \in Keys : met[k] # Nil => met[k] <= clock

SeenSince(r, at) == r.seen = Nil \/ r.seen >= at

(* A title that a walk would have met bears its stamp or a later one, or    *)
(* was cached since and bears none: so for the last walk that recorded the  *)
(* key, and for the one that runs in the sections it has gone through.      *)
Stamped ==
    \A r \in serverItems :
        LET s == r.server
            w == walk[s]
        IN  world[r.key] # Nil =>
              /\ met[r.key] # Nil /\ since[r.key] < met[r.key] => SeenSince(r, met[r.key])
              /\ (/\ w.pc = "sections" /\ r.key \notin w.missed /\ since[r.key] < w.at
                  /\ LibOf[r.key] \notin w.sections /\ r.key \notin w.keys) => SeenSince(r, w.at)

WalkInv == Walks /\ Stamped

-----------------------------------------------------------------------------
(* GUIDs                                                                    *)

(* A title that shares a GUID with what the server says is the same film.   *)
LEMMA LookupFilm ==
    ASSUME MediaDbAssumption, MediaTyped, NEW g \in Guids, NEW i \in Lookup(g)
    PROVE  i \in DOMAIN items /\ Films(items[i]) = {Film(g)}
<1>1. PICK c \in Columns : i \in DOMAIN items /\ g[c] # Nil /\ items[i][c] = g[c]
  BY DEF Lookup, Columns
<1>2. FilmOf[g[c]] \in Films(g) /\ FilmOf[g[c]] \in Films(items[i])
  BY <1>1 DEF Films
<1>3. Films(g) = {Film(g)} /\ Films(items[i]) = {Film(items[i])}
  BY <1>1 DEF MediaDbAssumption, MediaTyped
<1> QED BY <1>1, <1>2, <1>3

(* Laying the GUIDs of a film over those of the same film keeps the film.   *)
LEMMA OverlaidFilm ==
    ASSUME NEW old \in Titles, NEW g \in Titles, NEW f, Films(old) = {f}, Films(g) = {f}
    PROVE  Overlaid(old, g) \in Titles /\ Films(Overlaid(old, g)) = {f}
<1> DEFINE new == Overlaid(old, g)
<1>1. new \in Titles
  BY DEF Overlaid, Titles
<1>2. \A c \in Columns : new[c] = IF g[c] # Nil THEN g[c] ELSE old[c]
  BY DEF Overlaid
<1> HIDE DEF new
<1>3. Films(new) \subseteq {f}
  <2> SUFFICES ASSUME NEW c \in Columns, new[c] # Nil
               PROVE  FilmOf[new[c]] = f
    BY DEF Films
  <2>1. CASE g[c] # Nil
    BY <2>1, <1>2 DEF Films
  <2>2. CASE g[c] = Nil
    BY <2>2, <1>2 DEF Films
  <2> QED BY <2>1, <2>2
<1>4. PICK c \in Columns : g[c] # Nil /\ FilmOf[g[c]] = f
  BY DEF Films
<1>5. f \in Films(new)
  BY <1>2, <1>4 DEF Films
<1> QED BY <1>1, <1>3, <1>5 DEF new

LEMMA FilmOfSingle ==
    ASSUME NEW g, NEW f, Films(g) = {f}
    PROVE  Film(g) = f
BY DEF Film

-----------------------------------------------------------------------------
(* The database                                                             *)

LEMMA InitHolds == ASSUME MediaDbAssumption, MediaInit PROVE CacheInv /\ WalkInv
<1>1. DOMAIN items = {}
  BY DEF MediaInit
<1>2. MediaTyped
  BY <1>1 DEF MediaInit, MediaTyped, MediaDbAssumption, ItemIds
<1>3. Captured /\ Rows /\ ListsName /\ CacheNeverMisleads
  BY DEF MediaInit, Captured, Carried, Fields, Rows, ListsName, CacheNeverMisleads, Idle
<1>4. Walks /\ Stamped
  BY DEF MediaInit, Walks, Stamped, NoWalk
<1> QED BY <1>2, <1>3, <1>4 DEF CacheInv, WalkInv

(* No step gives a number already given to another film.                    *)
Kept ==
    /\ nextId' \in ItemIds /\ nextId <= nextId'
    /\ \A i \in DOMAIN items' : i < nextId =>
          i \in DOMAIN items /\ Films(items'[i]) = Films(items[i])

LEMMA IsKept ==
    ASSUME MediaTyped, Kept, NEW i, NEW f, Is(i, f)
    PROVE  Is(i, f)'
BY DEF MediaTyped, Kept, Is, ItemIds

LEMMA KeptAsIs == ASSUME MediaTyped, UNCHANGED <<items, nextId>> PROVE Kept
BY DEF MediaTyped, Kept, ItemIds

(* What a capture carries outlasts a step that is not its own.              *)
LEMMA CarriedKept ==
    ASSUME MediaTyped, Kept, NEW l, Carried(l), thread'[l] = thread[l]
    PROVE  Carried(l)'
<1> DEFINE t == thread[l]
<1>1. \A i, f : Is(i, f) => Is(i, f)'
  BY IsKept
<1>2. CASE t.pc = "held"
  BY <1>1, <1>2 DEF Carried, Fields, Payload
<1>3. CASE t.pc # "held"
  BY <1>1, <1>3 DEF Carried, Fields, Payload
<1> QED BY <1>2, <1>3

LEMMA ThreadsKept ==
    ASSUME CacheInv, Kept, UNCHANGED thread
    PROVE  Captured'
BY CarriedKept DEF CacheInv, Captured

(* A step of captures that leaves the database alone.                       *)
LEMMA QuietCapture ==
    ASSUME CacheInv, Captured', MediaTyped',
           UNCHANGED <<items, nextId, serverItems, lists, known>>
    PROVE  CacheInv'
<1>1. Rows' /\ CacheNeverMisleads'
  BY DEF CacheInv, Rows, CacheNeverMisleads
<1>2. ListsName'
  BY KeptAsIs, IsKept DEF CacheInv, ListsName
<1> QED BY <1>1, <1>2 DEF CacheInv

LEMMA StartCaptureKeeps ==
    ASSUME MediaDbAssumption, CacheInv, NEW s \in Servers, StartCapture(s)
    PROVE  CacheInv'
<1>1. MediaTyped' /\ UNCHANGED <<items, nextId, serverItems, lists, known>>
  BY DEF CacheInv, MediaTyped, StartCapture, db
<1>2. thread' = [l \in Libraries |-> thread'[l]]
  BY DEF StartCapture
<1>3. ASSUME NEW l \in Libraries PROVE Carried(l)'
  <2>1. CASE thread'[l] = thread[l]
    BY <1>1, <2>1, KeptAsIs, CarriedKept DEF CacheInv, Captured
  <2>2. CASE thread'[l] # thread[l]
    BY <2>2 DEF CacheInv, Captured, Carried, Fields, StartCapture, Idle
  <2> QED BY <2>1, <2>2
<1> QED BY <1>1, <1>2, <1>3, QuietCapture DEF Captured

LEMMA EndCaptureKeeps ==
    ASSUME MediaDbAssumption, CacheInv, NEW s \in Servers, EndCapture(s)
    PROVE  CacheInv'
<1>1. MediaTyped' /\ UNCHANGED <<items, nextId, serverItems, lists, known>>
  BY DEF CacheInv, MediaTyped, EndCapture, db
<1>2. thread' = [l \in Libraries |-> thread'[l]]
  BY DEF EndCapture
<1>3. ASSUME NEW l \in Libraries PROVE Carried(l)'
  <2>1. CASE thread'[l] = thread[l]
    BY <1>1, <2>1, KeptAsIs, CarriedKept DEF CacheInv, Captured
  <2>2. CASE thread'[l] # thread[l]
    BY <2>2 DEF CacheInv, Captured, Carried, Fields, EndCapture, Idle
  <2> QED BY <2>1, <2>2
<1> QED BY <1>1, <1>2, <1>3, QuietCapture DEF Captured

LEMMA RestartKeeps ==
    ASSUME MediaDbAssumption, CacheInv, ProcessRestarts
    PROVE  CacheInv'
<1>1. MediaTyped' /\ UNCHANGED <<items, nextId, serverItems, lists, known>>
  BY DEF CacheInv, MediaTyped, ProcessRestarts, db
<1>2. thread' = [l \in Libraries |-> thread'[l]]
  BY DEF ProcessRestarts
<1>3. ASSUME NEW l \in Libraries PROVE Carried(l)'
  <2>1. CASE thread'[l] = thread[l]
    BY <1>1, <2>1, KeptAsIs, CarriedKept DEF CacheInv, Captured
  <2>2. CASE thread'[l] # thread[l]
    BY <2>2 DEF CacheInv, Captured, Carried, Fields, ProcessRestarts, Idle
  <2> QED BY <2>1, <2>2
<1> QED BY <1>1, <1>2, <1>3, QuietCapture DEF Captured

LEMMA FetchKeeps ==
    ASSUME MediaDbAssumption, CacheInv, NEW l \in Libraries, Fetch(l)
    PROVE  CacheInv'
<1>1. MediaTyped' /\ UNCHANGED <<items, nextId, serverItems, lists, known>>
  BY DEF CacheInv, MediaTyped, Fetch, db
<1>2. Carried(l)'
  <2>1. thread[l].found = <<>> /\ thread[l].pc = "fetch"
    BY DEF Fetch, CacheInv, Captured, Carried, Fields
  <2> DEFINE p == Restrict(world, OnServer(l))
  <2>2. DOMAIN p = OnServer(l) /\ \A k \in OnServer(l) : p[k] = world[k]
    BY DEF Restrict
  <2>3. \A k \in OnServer(l) : k \in Keys /\ LibOf[k] = l /\ world[k] \in Guids
    BY DEF OnServer, CacheInv, MediaTyped
  <2> HIDE DEF p
  <2>4. /\ thread'[l].pc = "decide" /\ thread'[l].payload = p
        /\ thread'[l].found = <<>> /\ DOMAIN thread'[l] = Fields
    <3>1. thread' = [thread EXCEPT ![l].pc = "decide", ![l].payload = p]
      BY DEF Fetch, p
    <3>2. l \in DOMAIN thread /\ DOMAIN thread[l] = Fields
      BY DEF CacheInv, Captured, Carried
    <3>3. thread'[l] = [thread[l] EXCEPT !.pc = "decide", !.payload = p]
      BY <3>1, <3>2
    <3> QED BY <2>1, <3>2, <3>3 DEF Fields
  <2> QED BY <2>2, <2>3, <2>4 DEF Carried, Fields, Payload
<1>3. ASSUME NEW m \in Libraries \ {l} PROVE Carried(m)'
  BY <1>1, KeptAsIs, CarriedKept DEF Fetch, CacheInv, Captured
<1>4. thread' = [m \in Libraries |-> thread'[m]]
  BY DEF Fetch, CacheInv, Captured
<1> QED BY <1>1, <1>2, <1>3, <1>4, QuietCapture DEF Captured

LEMMA DecideKeeps ==
    ASSUME MediaDbAssumption, CacheInv, NEW l \in Libraries, Decide(l)
    PROVE  CacheInv'
<1>1. MediaTyped' /\ UNCHANGED <<items, nextId, serverItems, lists, known>>
  BY DEF CacheInv, MediaTyped, Decide, db
<1>2. Carried(l)'
  <2>1. \A k \in DOMAIN thread[l].found :
            Is(thread[l].found[k], Film(thread[l].payload[k]))'
    BY <1>1, KeptAsIs, IsKept DEF Decide, CacheInv, Captured, Carried, Fields
  <2>2. /\ thread'[l].pc \in {"items", "kept"} /\ DOMAIN thread'[l] = Fields
        /\ thread'[l].pc = "items" => thread'[l].todo = DOMAIN thread[l].payload
        /\ thread'[l].payload = thread[l].payload /\ thread'[l].found = thread[l].found
    <3>1. l \in DOMAIN thread /\ DOMAIN thread[l] = Fields
      BY DEF CacheInv, Captured, Carried
    <3>2. \/ thread'[l] = [thread[l] EXCEPT !.pc = "items", !.todo = DOMAIN thread[l].payload]
          \/ thread'[l] = [thread[l] EXCEPT !.pc = "kept"]
      BY <3>1 DEF Decide
    <3> QED BY <3>1, <3>2 DEF Fields
  <2> QED BY <2>1, <2>2 DEF Decide, CacheInv, Captured, Carried, Fields, Payload
<1>3. ASSUME NEW m \in Libraries \ {l} PROVE Carried(m)'
  BY <1>1, KeptAsIs, CarriedKept DEF Decide, CacheInv, Captured
<1>4. thread' = [m \in Libraries |-> thread'[m]]
  BY DEF Decide, CacheInv, Captured
<1> QED BY <1>1, <1>2, <1>3, <1>4, QuietCapture DEF Captured

LEMMA IngestedKeeps ==
    ASSUME MediaDbAssumption, CacheInv, NEW l \in Libraries, Ingested(l)
    PROVE  CacheInv'
<1>1. MediaTyped' /\ UNCHANGED <<items, nextId, serverItems, lists, known>>
  BY DEF CacheInv, MediaTyped, Ingested, db
<1>2. Carried(l)'
  BY DEF Ingested, CacheInv, Captured, Carried, Fields
<1>3. ASSUME NEW m \in Libraries \ {l} PROVE Carried(m)'
  BY <1>1, KeptAsIs, CarriedKept DEF Ingested, CacheInv, Captured
<1>4. thread' = [m \in Libraries |-> thread'[m]]
  BY DEF Ingested, CacheInv, Captured
<1> QED BY <1>1, <1>2, <1>3, <1>4, QuietCapture DEF Captured

(* Walks, time and the servers: the titles and the captures stay.           *)
LEMMA OtherKeeps ==
    ASSUME MediaDbAssumption, CacheInv, WalkInv,
           \/ \E s \in Servers : StartWalk(s) \/ WalkSection(s) \/ FinishWalk(s) \/ FailWalk(s)
           \/ \E k \in Keys : ChangeWorld(k)
           \/ Tick
    PROVE  CacheInv'
<1>1. UNCHANGED <<items, nextId, serverItems, lists, known, thread>>
  BY DEF StartWalk, WalkSection, FinishWalk, FailWalk, ChangeWorld, Tick, db
<1>2. MediaTyped'
  <2>1. CASE \E s \in Servers : StartWalk(s) \/ WalkSection(s) \/ FailWalk(s)
    BY <2>1, <1>1 DEF StartWalk, WalkSection, FailWalk, CacheInv, MediaTyped
  <2>2. ASSUME NEW s \in Servers, FinishWalk(s) PROVE MediaTyped'
    BY <2>2, <1>1 DEF FinishWalk, CacheInv, MediaTyped, WalkInv, Walks
  <2>3. CASE Tick
    BY <2>3, <1>1 DEF Tick, CacheInv, MediaTyped
  <2>4. ASSUME NEW k \in Keys, ChangeWorld(k) PROVE MediaTyped'
    BY <2>4, <1>1 DEF ChangeWorld, CacheInv, MediaTyped
  <2> QED BY <2>1, <2>2, <2>3, <2>4
<1>3. Captured'
  BY <1>1, ThreadsKept, KeptAsIs DEF CacheInv
<1> QED BY <1>1, <1>2, <1>3, QuietCapture

LEMMA SightingKeeps ==
    ASSUME CacheInv, WalkInv, NEW s \in Servers, RecordItemSighting(s)
    PROVE  CacheInv'
<1>1. UNCHANGED <<items, nextId, lists, known, thread>>
  BY DEF RecordItemSighting
<1>2. walk[s].at \in Nat
  BY DEF RecordItemSighting, WalkInv, Walks
<1>3. \A r \in serverItems' : \E q \in serverItems :
          /\ r \in ServerItem
          /\ r.item = q.item /\ r.server = q.server /\ r.key = q.key
  BY <1>2 DEF RecordItemSighting, CacheInv, MediaTyped, ServerItem
<1>4. \A r, q \in serverItems' :
          r.server = q.server /\ (r.item = q.item \/ r.key = q.key) => r = q
  BY <1>2 DEF RecordItemSighting, CacheInv, MediaTyped, ServerItem, Rows
<1>5. MediaTyped' /\ Rows' /\ CacheNeverMisleads'
  <2>1. serverItems' \subseteq ServerItem
    BY <1>3
  <2>2. MediaTyped'
    BY <1>1, <2>1 DEF RecordItemSighting, CacheInv, MediaTyped
  <2>3. Rows'
    BY <1>3, <1>4 DEF CacheInv, Rows
  <2>4. CacheNeverMisleads'
    BY <1>1, <1>3 DEF CacheInv, CacheNeverMisleads
  <2> QED BY <2>2, <2>3, <2>4
<1>6. Captured' /\ ListsName'
  BY <1>1, ThreadsKept, KeptAsIs, IsKept DEF CacheInv, ListsName
<1> QED BY <1>5, <1>6 DEF CacheInv

(* A title goes with the last row that names it, and its number is not      *)
(* given again.                                                             *)
LEMMA PruneKeeps ==
    ASSUME CacheInv, NEW s \in Servers, PruneStaleItems(s)
    PROVE  CacheInv'
<1>1. /\ UNCHANGED <<nextId, known, thread, world, since, clock, met>>
      /\ serverItems' \subseteq serverItems
  BY DEF PruneStaleItems, db
<1>2. /\ DOMAIN items' \subseteq DOMAIN items
      /\ \A i \in DOMAIN items' : items'[i] = items[i]
      /\ items' = [i \in DOMAIN items' |-> items'[i]]
      /\ \A r \in serverItems' : r.item \in DOMAIN items'
  BY DEF PruneStaleItems, db, Restrict, CacheInv, MediaTyped, CacheNeverMisleads
<1>3. /\ lists' = [l \in Libraries |-> lists'[l]]
      /\ \A l \in Libraries : lists'[l] \subseteq lists[l]
  BY DEF PruneStaleItems, db, CacheInv, MediaTyped
<1>4. MediaTyped'
  BY <1>1, <1>2, <1>3 DEF CacheInv, MediaTyped
<1>5. Kept
  BY <1>1, <1>2 DEF Kept, CacheInv, MediaTyped, ItemIds
<1>6. Captured' /\ ListsName'
  BY <1>1, <1>3, <1>5, ThreadsKept, IsKept DEF CacheInv, ListsName
<1>7. Rows'
  BY <1>1 DEF CacheInv, Rows
<1>8. CacheNeverMisleads'
  BY <1>1, <1>2, <1>3 DEF CacheInv, CacheNeverMisleads
<1> QED BY <1>4, <1>6, <1>7, <1>8 DEF CacheInv

(* An insert takes a new number; an update stays with the film.             *)
LEMMA UpsertItemKeeps ==
    ASSUME MediaDbAssumption, CacheInv, NEW l \in Libraries, UpsertItem(l)
    PROVE  CacheInv'
<1> DEFINE t == thread[l]
<1>1. PICK k, i :
          LET g == t.payload[k] IN
          /\ k \in t.todo
          /\ thread' = [thread EXCEPT ![l].pc = "held", ![l].held = i, ![l].key = k]
          /\ \/ /\ i = nextId /\ nextId' = nextId + 1
                /\ items' = [j \in DOMAIN items \cup {nextId} |->
                                IF j = nextId THEN g ELSE items[j]]
             \/ /\ i \in Lookup(g) /\ UNCHANGED nextId
                /\ items' = [items EXCEPT ![i] = Overlaid(@, g)]
  BY DEF UpsertItem
<1> DEFINE g == t.payload[k]
<1>2. /\ l \in DOMAIN thread /\ Carried(l) /\ t.pc = "items" /\ k \in DOMAIN t.payload
      /\ g \in Guids /\ k \in Keys /\ LibOf[k] = l
  BY <1>1 DEF UpsertItem, CacheInv, Captured, Carried, Payload
<1>3. g \in Titles /\ Films(g) = {Film(g)}
  BY <1>2 DEF MediaDbAssumption, Titles
<1>4. UNCHANGED <<serverItems, lists, known, world, since, clock, met>>
  BY DEF UpsertItem
<1>5. thread'[l] = [t EXCEPT !.pc = "held", !.held = i, !.key = k]
  BY <1>1, <1>2
<1> HIDE DEF t, g
<1>6. /\ DOMAIN items' \subseteq ItemIds /\ items' = [j \in DOMAIN items' |-> items'[j]]
      /\ \A j \in DOMAIN items' : /\ j < nextId' /\ items'[j] \in Titles
                                  /\ Films(items'[j]) = {Film(items'[j])}
      /\ i \in DOMAIN items' /\ Films(items'[i]) = {Film(g)}
      /\ nextId' \in ItemIds /\ nextId <= nextId' /\ DOMAIN items \subseteq DOMAIN items'
      /\ \A j \in DOMAIN items : Films(items'[j]) = Films(items[j])
      /\ \A j \in DOMAIN items' \ DOMAIN items : j = nextId
  <2>1. CASE /\ i = nextId /\ nextId' = nextId + 1
             /\ items' = [j \in DOMAIN items \cup {nextId} |-> IF j = nextId THEN g ELSE items[j]]
    BY <2>1, <1>3 DEF CacheInv, MediaTyped, ItemIds
  <2>2. CASE /\ i \in Lookup(g) /\ UNCHANGED nextId
             /\ items' = [items EXCEPT ![i] = Overlaid(@, g)]
    <3> DEFINE new == Overlaid(items[i], g)
    <3>1. i \in DOMAIN items /\ Films(items[i]) = {Film(g)} /\ items[i] \in Titles
      BY <2>2, <1>2, LookupFilm DEF CacheInv, MediaTyped
    <3>2. new \in Titles /\ Films(new) = {Film(g)}
      BY <3>1, <1>3, OverlaidFilm
    <3>3. Film(new) = Film(g)
      BY <3>2, FilmOfSingle
    <3>4. /\ DOMAIN items' = DOMAIN items /\ items'[i] = new
          /\ \A j \in DOMAIN items \ {i} : items'[j] = items[j]
          /\ items' = [j \in DOMAIN items' |-> items'[j]]
      BY <2>2, <3>1
    <3> HIDE DEF new
    <3>5. \A j \in DOMAIN items' : /\ j < nextId' /\ items'[j] \in Titles
                                  /\ Films(items'[j]) = {Film(items'[j])}
                                  /\ Films(items'[j]) = Films(items[j])
      BY <2>2, <3>1, <3>2, <3>3, <3>4 DEF CacheInv, MediaTyped
    <3>6. DOMAIN items' \subseteq ItemIds /\ nextId' \in ItemIds /\ nextId <= nextId'
      BY <2>2, <3>4 DEF CacheInv, MediaTyped, ItemIds
    <3>7. i \in DOMAIN items' /\ Films(items'[i]) = {Film(g)}
      BY <3>1, <3>2, <3>4
    <3> QED BY <3>4, <3>5, <3>6, <3>7
  <2> QED BY <1>1, <2>1, <2>2 DEF g, t
<1>7. Kept
  BY <1>6 DEF Kept, CacheInv, MediaTyped, ItemIds
<1>8. MediaTyped'
  BY <1>4, <1>6 DEF CacheInv, MediaTyped
<1>9. Carried(l)'
  <2>1. thread'[l].pc = "held" /\ thread'[l].held = i /\ thread'[l].key = k
        /\ thread'[l].payload = t.payload /\ thread'[l].found = t.found
        /\ thread'[l].todo = t.todo /\ DOMAIN thread'[l] = Fields
    BY <1>2, <1>5 DEF Carried, Fields, t
  <2>2. \A f : f = Film(g) => Is(i, f)'
    BY <1>6 DEF Is, ItemIds
  <2>3. \A j \in DOMAIN t.found : \A h, f :
            h = t.found[j] /\ f = Film(t.payload[j]) => Is(h, f)'
    BY <1>2, <1>7, IsKept DEF Carried, CacheInv, t
  <2> QED BY <2>1, <2>2, <2>3, <1>2 DEF Carried, Payload, g, t
<1>10. Captured'
  BY <1>1, <1>7, <1>9, CarriedKept DEF CacheInv, Captured
<1>11. ListsName'
  BY <1>4, <1>7, IsKept DEF CacheInv, ListsName
<1>12. Rows' /\ CacheNeverMisleads'
  BY <1>4, <1>6, <1>11 DEF CacheInv, Rows, CacheNeverMisleads, ListsName, Is
<1> QED BY <1>8, <1>10, <1>11, <1>12 DEF CacheInv

(* The row that goes in displaces the one of the same key, whose film may   *)
(* have been another.                                                       *)
LEMMA RecordServerItemKeeps ==
    ASSUME MediaDbAssumption, CacheInv, NEW l \in Libraries, RecordServerItem(l)
    PROVE  CacheInv'
<1> DEFINE t == thread[l]
           r == [item |-> t.held, server |-> ServerOf[l], key |-> t.key, seen |-> Nil]
<1>1. UNCHANGED <<items, nextId, lists, world, since, clock, met>>
  BY DEF RecordServerItem
<1>2. /\ l \in DOMAIN thread /\ t.pc = "held" /\ DOMAIN t = Fields
      /\ t.key \in DOMAIN t.payload /\ t.key \in Keys /\ LibOf[t.key] = l
      /\ Is(t.held, Film(t.payload[t.key]))
      /\ t.todo \subseteq DOMAIN t.payload
  BY DEF RecordServerItem, CacheInv, Captured, Carried, Payload
<1>3. Kept
  BY <1>1, KeptAsIs DEF CacheInv
<1>4. \A i, f : Is(i, f)' <=> Is(i, f)
  BY <1>1 DEF Is
<1>5. ListsName'
  BY <1>1, <1>4 DEF CacheInv, ListsName
<1>6. CASE t.held \in DOMAIN items
  <2>1. /\ serverItems' = (serverItems \ Replaced(r)) \cup {r}
        /\ thread' = [thread EXCEPT ![l].pc = "items", ![l].todo = @ \ {t.key},
                                   ![l].found = [k \in DOMAIN @ \cup {t.key} |->
                                                   IF k = t.key THEN t.held ELSE @[k]]]
        /\ known' = [known EXCEPT ![t.key] = Film(t.payload[t.key])]
    BY <1>6 DEF RecordServerItem
  <2> DEFINE more == [k \in DOMAIN t.found \cup {t.key} |->
                        IF k = t.key THEN t.held ELSE t.found[k]]
  <2>2. /\ thread'[l].pc = "items" /\ thread'[l].todo = t.todo \ {t.key}
        /\ thread'[l].found = more /\ thread'[l].payload = t.payload
        /\ DOMAIN thread'[l] = Fields
    <3>1. thread'[l] = [t EXCEPT !.pc = "items", !.todo = @ \ {t.key}, !.found = more]
      BY <2>1, <1>2
    <3> HIDE DEF more, t
    <3> QED BY <3>1, <1>2 DEF Fields
  <2>3. r \in ServerItem /\ r.server = HomeOf(r.key)
    BY <1>2 DEF ServerItem, Is, HomeOf, MediaDbAssumption
  <2>4. Rows'
    BY <2>1, <2>3 DEF CacheInv, Rows, Replaced
  <2>5. MediaTyped'
    <3>1. serverItems' \subseteq ServerItem
      BY <2>1, <2>3 DEF CacheInv, MediaTyped
    <3>2. known' = [k \in Keys |-> known'[k]]
      BY <2>1 DEF CacheInv, MediaTyped
    <3> QED BY <1>1, <3>1, <3>2 DEF CacheInv, MediaTyped
  <2>6. CacheNeverMisleads'
    <3>1. known'[t.key] = Film(t.payload[t.key])
          /\ \A k \in Keys \ {t.key} : known'[k] = known[k]
      BY <2>1, <1>2 DEF CacheInv, MediaTyped
    <3>2. \A x \in serverItems \ Replaced(r) : x.key \in Keys \ {t.key}
      BY <1>2, <2>3 DEF Replaced, CacheInv, Rows, MediaTyped, ServerItem
    <3>3. \A x \in serverItems \ Replaced(r) : x.item \in DOMAIN items /\ Films(items[x.item]) = {known'[x.key]}
      BY <3>1, <3>2 DEF CacheInv, CacheNeverMisleads
    <3>4. r.item \in DOMAIN items /\ Films(items[r.item]) = {known'[r.key]}
      BY <3>1, <1>2, <1>6 DEF Is
    <3>5. \A x \in serverItems' : x.item \in DOMAIN items /\ Films(items[x.item]) = {known'[x.key]}
      BY <2>1, <3>3, <3>4
    <3> QED BY <1>1, <1>5, <3>5 DEF CacheNeverMisleads, CacheInv
  <2>7. Carried(l)'
    <3>1. \A k \in DOMAIN more : k \in DOMAIN t.payload /\ Is(more[k], Film(t.payload[k]))
      BY <1>2 DEF CacheInv, Captured, Carried
    <3>2. Payload(t) /\ \A k \in DOMAIN t.payload : LibOf[k] = l
      BY <1>2 DEF CacheInv, Captured, Carried
    <3> HIDE DEF more, t
    <3> QED BY <3>1, <3>2, <1>2, <1>4, <2>2 DEF Carried, Payload
  <2>8. Captured'
    BY <2>1, <2>7, <1>3, CarriedKept DEF CacheInv, Captured
  <2> QED BY <1>5, <2>4, <2>5, <2>6, <2>8 DEF CacheInv
<1>7. CASE t.held \notin DOMAIN items
  <2>1. thread' = [thread EXCEPT ![l].pc = "lost"] /\ UNCHANGED <<serverItems, known>>
    BY <1>7 DEF RecordServerItem
  <2>2. MediaTyped'
    BY <1>1, <2>1 DEF CacheInv, MediaTyped
  <2>3. Carried(l)'
    BY <2>1, <1>2 DEF Carried, Fields
  <2>4. Captured'
    BY <2>1, <2>3, <1>3, CarriedKept DEF CacheInv, Captured
  <2> QED BY <1>1, <2>1, <2>2, <2>4, QuietCapture
<1> QED BY <1>6, <1>7

(* A list names what the capture found, found and recorded or since pruned. *)
LEMMA UpsertPlaylistKeeps ==
    ASSUME CacheInv, NEW l \in Libraries, UpsertPlaylist(l)
    PROVE  CacheInv'
<1> DEFINE t == thread[l]
<1>1. UNCHANGED <<items, nextId, serverItems, known, world, since, clock, met>>
  BY DEF UpsertPlaylist
<1>2. l \in DOMAIN thread /\ t.pc = "items" /\ Carried(l)
  BY DEF UpsertPlaylist, CacheInv, Captured
<1>3. Kept
  BY <1>1, KeptAsIs DEF CacheInv
<1>4. \A i, f : Is(i, f)' <=> Is(i, f)
  BY <1>1 DEF Is
<1>5. PICK played, now :
          /\ thread' = [thread EXCEPT ![l].pc = "watch", ![l].todo = played]
          /\ now \in {lists[l], {[item |-> t.found[k], film |-> Film(t.payload[k])] : k \in DOMAIN t.found}}
          /\ lists' = [lists EXCEPT ![l] = now]
  BY DEF UpsertPlaylist
<1>6. lists' = [m \in Libraries |-> lists'[m]] /\ lists'[l] = now
      /\ \A m \in Libraries \ {l} : lists'[m] = lists[m]
  BY <1>5 DEF CacheInv, MediaTyped
<1>7. \A e \in now : Is(e.item, e.film)
  BY <1>2, <1>5 DEF Carried, CacheInv, ListsName
<1>8. ListsName'
  BY <1>4, <1>6, <1>7 DEF ListsName, CacheInv
<1>9. MediaTyped' /\ Rows'
  BY <1>1, <1>6 DEF CacheInv, MediaTyped, Rows
<1>10. CacheNeverMisleads'
  BY <1>1, <1>8 DEF CacheInv, CacheNeverMisleads, ListsName, Is
<1>11. Carried(l)'
  <2>1. thread'[l] = [t EXCEPT !.pc = "watch", !.todo = played]
    BY <1>2, <1>5
  <2> HIDE DEF t
  <2>2. /\ thread'[l].pc = "watch" /\ thread'[l].payload = t.payload
        /\ thread'[l].found = t.found /\ DOMAIN thread'[l] = Fields
    BY <1>2, <2>1 DEF Carried, Fields, t
  <2> QED BY <1>2, <1>4, <2>2 DEF Carried, Payload, t
<1>12. Captured'
  BY <1>3, <1>5, <1>11, CarriedKept DEF CacheInv, Captured
<1> QED BY <1>8, <1>9, <1>10, <1>12 DEF CacheInv

LEMMA RecordWatchEventKeeps ==
    ASSUME CacheInv, NEW l \in Libraries, RecordWatchEvent(l)
    PROVE  CacheInv'
<1>1. MediaTyped' /\ UNCHANGED <<items, nextId, serverItems, lists, known>>
  BY DEF CacheInv, MediaTyped, RecordWatchEvent
<1>2. PICK k : thread' = [thread EXCEPT ![l].todo = @ \ {k}]
  BY DEF RecordWatchEvent
<1>3. l \in DOMAIN thread /\ Carried(l) /\ thread[l].pc = "watch"
  BY DEF RecordWatchEvent, CacheInv, Captured
<1>4. \A i, f : Is(i, f)' <=> Is(i, f)
  BY <1>1 DEF Is
<1>5. Carried(l)'
  <2>1. thread'[l] = [thread[l] EXCEPT !.todo = @ \ {k}]
    BY <1>2, <1>3
  <2>2. /\ thread'[l].pc = "watch" /\ thread'[l].payload = thread[l].payload
        /\ thread'[l].found = thread[l].found /\ DOMAIN thread'[l] = Fields
    BY <1>3, <2>1 DEF Carried, Fields
  <2> QED BY <1>3, <1>4, <2>2 DEF Carried, Payload
<1>6. Captured'
  BY <1>1, <1>2, <1>5, KeptAsIs, CarriedKept DEF CacheInv, Captured
<1> QED BY <1>1, <1>6, QuietCapture

LEMMA CacheStep ==
    ASSUME MediaDbAssumption, CacheInv, WalkInv, [MediaNext]_mediaVars
    PROVE  CacheInv'
<1>1. CASE UNCHANGED mediaVars
  <2>1. MediaTyped' /\ UNCHANGED <<items, nextId, serverItems, lists, known, thread>>
    BY <1>1 DEF mediaVars, CacheInv, MediaTyped
  <2> QED BY <2>1, ThreadsKept, KeptAsIs, QuietCapture DEF CacheInv
<1>2. ASSUME NEW s \in Servers,
             \/ StartCapture(s) \/ EndCapture(s) \/ PruneStaleItems(s) \/ RecordItemSighting(s)
      PROVE  CacheInv'
  BY <1>2, StartCaptureKeeps, EndCaptureKeeps, PruneKeeps, SightingKeeps
<1>3. ASSUME NEW l \in Libraries, Fetch(l) \/ Decide(l) \/ Ingest(l)
      PROVE  CacheInv'
  BY <1>3, FetchKeeps, DecideKeeps, UpsertItemKeeps, RecordServerItemKeeps,
     UpsertPlaylistKeeps, RecordWatchEventKeeps, IngestedKeeps DEF Ingest
<1> QED BY <1>1, <1>2, <1>3, OtherKeeps, RestartKeeps DEF MediaNext

-----------------------------------------------------------------------------
(* Walks                                                                    *)

(* Steps that touch neither the walks nor the rows.                         *)
LEMMA WalksKept ==
    ASSUME WalkInv, UNCHANGED <<walk, met, clock, world, since>>,
           \A r \in serverItems' : r \in serverItems \/ r.seen = Nil
    PROVE  WalkInv'
<1>1. Walks'
  BY DEF WalkInv, Walks
<1>2. Stamped'
  BY DEF WalkInv, Stamped, SeenSince
<1> QED BY <1>1, <1>2 DEF WalkInv

LEMMA StartWalkWalks ==
    ASSUME MediaDbAssumption, CacheInv, WalkInv, NEW s \in Servers, StartWalk(s)
    PROVE  WalkInv'
<1> DEFINE w == [NoWalk EXCEPT !.pc = "sections", !.at = clock,
                               !.sections = {l \in Libraries : ServerOf[l] = s}]
<1>1. walk' = [walk EXCEPT ![s] = w]
  BY DEF StartWalk
<1>2. /\ w.pc = "sections" /\ w.at = clock /\ w.sections = {l \in Libraries : ServerOf[l] = s}
      /\ w.keys = {} /\ DOMAIN w = {"pc", "at", "sections", "keys", "missed"}
  BY DEF NoWalk
<1> HIDE DEF w
<1>3. UNCHANGED <<serverItems, world, since, clock, met>>
  BY DEF StartWalk, db
<1>4. /\ walk' = [x \in Servers |-> walk'[x]] /\ walk'[s] = w
      /\ \A x \in Servers \ {s} : walk'[x] = walk[x]
  BY <1>1 DEF WalkInv, Walks
<1>5. Walks'
  BY <1>2, <1>3, <1>4 DEF WalkInv, Walks, CacheInv, MediaTyped
<1>6. \A r \in serverItems : r.server \in Servers /\ (r.server = s => LibOf[r.key] \in w.sections)
  BY <1>2 DEF CacheInv, Rows, HomeOf, MediaTyped, ServerItem, MediaDbAssumption
<1>7. Stamped'
  BY <1>2, <1>3, <1>4, <1>6 DEF WalkInv, Stamped, SeenSince
<1> QED BY <1>5, <1>7 DEF WalkInv

(* A section that is read shows every title the server has there.           *)
LEMMA WalkSectionWalks ==
    ASSUME MediaDbAssumption, CacheInv, WalkInv, NEW s \in Servers, WalkSection(s)
    PROVE  WalkInv'
<1> DEFINE w == walk[s]
<1>1. PICK l \in w.sections :
          \/ walk' = [walk EXCEPT ![s].sections = @ \ {l}, ![s].keys = OnServer(l)]
          \/ walk' = [walk EXCEPT ![s].sections = @ \ {l}, ![s].missed = @ \cup {k \in Keys : LibOf[k] = l}]
  BY DEF WalkSection
<1>2. UNCHANGED <<serverItems, world, since, clock, met>>
  BY DEF WalkSection, db
<1>3. /\ s \in DOMAIN walk /\ w.pc = "sections" /\ w.keys = {}
      /\ DOMAIN w = {"pc", "at", "sections", "keys", "missed"}
  BY DEF WalkSection, WalkInv, Walks
<1>4. /\ walk' = [x \in Servers |-> walk'[x]]
      /\ \A x \in Servers \ {s} : walk'[x] = walk[x]
      /\ DOMAIN walk'[s] = {"pc", "at", "sections", "keys", "missed"}
      /\ walk'[s].pc = w.pc /\ walk'[s].at = w.at
      /\ walk'[s].sections = w.sections \ {l}
      /\ \/ walk'[s].keys = OnServer(l) /\ walk'[s].missed = w.missed
         \/ walk'[s].keys = {} /\ walk'[s].missed = w.missed \cup {k \in Keys : LibOf[k] = l}
  <2>1. \/ walk'[s] = [w EXCEPT !.sections = @ \ {l}, !.keys = OnServer(l)]
        \/ walk'[s] = [w EXCEPT !.sections = @ \ {l}, !.missed = @ \cup {k \in Keys : LibOf[k] = l}]
    BY <1>1, <1>3
  <2>2. /\ walk' = [x \in Servers |-> walk'[x]]
        /\ \A x \in Servers \ {s} : walk'[x] = walk[x]
    BY <1>1 DEF WalkInv, Walks
  <2> HIDE DEF w
  <2> QED BY <1>3, <2>1, <2>2
<1>5. Walks'
  BY <1>2, <1>3, <1>4 DEF WalkInv, Walks
<1>6. Stamped'
  <2>1. \A r \in serverItems : /\ r.server \in Servers /\ r.key \in Keys
                               /\ world[r.key] # Nil /\ LibOf[r.key] = l => r.key \in OnServer(l)
    BY DEF CacheInv, MediaTyped, ServerItem, OnServer
  <2> QED BY <1>2, <1>3, <1>4, <2>1 DEF WalkInv, Stamped, SeenSince
<1> QED BY <1>5, <1>6 DEF WalkInv

LEMMA SightingWalks ==
    ASSUME MediaDbAssumption, CacheInv, WalkInv, NEW s \in Servers, RecordItemSighting(s)
    PROVE  WalkInv'
<1> DEFINE w == walk[s]
<1>1. PICK k \in w.keys :
          \/ /\ walk' = [walk EXCEPT ![s].keys = @ \ {k}]
             /\ serverItems' = {IF r.server = s /\ r.key = k THEN [r EXCEPT !.seen = w.at] ELSE r :
                                  r \in serverItems}
          \/ /\ walk' = [walk EXCEPT ![s].keys = @ \ {k}, ![s].missed = @ \cup {k}]
             /\ serverItems' = serverItems
  BY DEF RecordItemSighting
<1>2. UNCHANGED <<world, since, clock, met>>
  BY DEF RecordItemSighting
<1>3. /\ s \in DOMAIN walk /\ w.pc = "sections" /\ w.at \in Nat
      /\ DOMAIN w = {"pc", "at", "sections", "keys", "missed"}
      /\ \A x \in Keys : HomeOf(x) = s /\ met[x] # Nil => met[x] <= w.at
  BY <1>1 DEF WalkInv, Walks
<1>4. /\ walk' = [x \in Servers |-> walk'[x]]
      /\ \A x \in Servers \ {s} : walk'[x] = walk[x]
      /\ DOMAIN walk'[s] = {"pc", "at", "sections", "keys", "missed"}
      /\ walk'[s].pc = w.pc /\ walk'[s].at = w.at
      /\ walk'[s].sections = w.sections
      /\ walk'[s].keys = w.keys \ {k}
      /\ \/ walk'[s].missed = w.missed \cup {k} /\ serverItems' = serverItems
         \/ /\ walk'[s].missed = w.missed
            /\ serverItems' = {IF r.server = s /\ r.key = k THEN [r EXCEPT !.seen = w.at] ELSE r :
                                 r \in serverItems}
  <2>1. \/ walk'[s] = [w EXCEPT !.keys = @ \ {k}, !.missed = @ \cup {k}] /\ serverItems' = serverItems
        \/ /\ walk'[s] = [w EXCEPT !.keys = @ \ {k}]
           /\ serverItems' = {IF r.server = s /\ r.key = k THEN [r EXCEPT !.seen = w.at] ELSE r :
                                r \in serverItems}
    BY <1>1, <1>3
  <2>2. /\ walk' = [x \in Servers |-> walk'[x]]
        /\ \A x \in Servers \ {s} : walk'[x] = walk[x]
    BY <1>1 DEF WalkInv, Walks
  <2> HIDE DEF w
  <2> QED BY <1>3, <2>1, <2>2
<1>5. Walks'
  BY <1>2, <1>3, <1>4 DEF WalkInv, Walks
<1>6. Stamped'
  <2>1. \A r \in serverItems' :
            \/ r \in serverItems /\ (r.server = s /\ r.key = k => k \in walk'[s].missed)
            \/ r.server = s /\ r.key = k /\ r.seen = w.at
    BY <1>4 DEF CacheInv, MediaTyped, ServerItem
  <2>2. \A r \in serverItems : r.server \in Servers /\ r.key \in Keys /\ r.server = HomeOf(r.key)
    BY DEF CacheInv, MediaTyped, ServerItem, Rows
  <2>3. \A r \in serverItems' : r.server \in Servers /\ r.key \in Keys /\ r.server = HomeOf(r.key)
    BY <1>4, <2>2 DEF CacheInv, MediaTyped, ServerItem
  <2>4. met \in [Keys -> Nat \cup {Nil}]
    BY DEF CacheInv, MediaTyped
  <2> QED BY <1>2, <1>3, <1>4, <2>1, <2>2, <2>3, <2>4 DEF WalkInv, Stamped, SeenSince
<1> QED BY <1>5, <1>6 DEF WalkInv

LEMMA EndWalkWalks ==
    ASSUME MediaDbAssumption, CacheInv, WalkInv, NEW s \in Servers, FinishWalk(s) \/ FailWalk(s)
    PROVE  WalkInv'
<1> DEFINE w == walk[s]
<1>1. UNCHANGED <<serverItems, world, since, clock>>
  BY DEF FinishWalk, FailWalk, db
<1>2. /\ walk' = [walk EXCEPT ![s] = NoWalk] /\ w.pc = "sections" /\ w.keys = {}
      /\ \/ met' = met
         \/ /\ w.sections = {}
            /\ met' = [k \in Keys |-> IF HomeOf(k) = s /\ k \notin w.missed THEN w.at ELSE met[k]]
  BY DEF FinishWalk, FailWalk
<1>3. /\ walk' = [x \in Servers |-> walk'[x]] /\ walk'[s] = NoWalk
      /\ \A x \in Servers \ {s} : walk'[x] = walk[x]
      /\ \A k \in Keys : \/ met'[k] = met[k]
                         \/ HomeOf(k) = s /\ w.sections = {} /\ k \notin w.missed /\ met'[k] = w.at
  BY <1>2 DEF WalkInv, Walks, CacheInv, MediaTyped
<1>4. Walks'
  BY <1>1, <1>2, <1>3 DEF WalkInv, Walks, NoWalk
<1>5. Stamped'
  <2>1. \A r \in serverItems : r.server \in Servers /\ r.key \in Keys /\ r.server = HomeOf(r.key)
    BY DEF CacheInv, MediaTyped, ServerItem, Rows
  <2> QED BY <1>1, <1>2, <1>3, <2>1 DEF WalkInv, Stamped, SeenSince, NoWalk
<1> QED BY <1>4, <1>5 DEF WalkInv

(* A title that changes now was not there before any walk so far.           *)
LEMMA ChangeWorldWalks ==
    ASSUME CacheInv, WalkInv, NEW k \in Keys, ChangeWorld(k)
    PROVE  WalkInv'
<1>1. /\ UNCHANGED <<serverItems, clock, walk, met>>
      /\ since' = [since EXCEPT ![k] = clock]
      /\ \A x \in Keys \ {k} : world'[x] = world[x]
  BY DEF ChangeWorld, db, CacheInv, MediaTyped
<1>2. Walks'
  BY <1>1 DEF WalkInv, Walks
<1>3. Stamped'
  <2> SUFFICES ASSUME NEW r \in serverItems', world'[r.key] # Nil
               PROVE  LET s == r.server
                          w == walk[s]
                      IN  /\ met[r.key] # Nil /\ since'[r.key] < met[r.key] => SeenSince(r, met[r.key])
                          /\ (/\ w.pc = "sections" /\ r.key \notin w.missed /\ since'[r.key] < w.at
                              /\ LibOf[r.key] \notin w.sections /\ r.key \notin w.keys)
                              => SeenSince(r, w.at)
    BY <1>1 DEF Stamped, SeenSince
  <2>1. r \in serverItems /\ r.server \in Servers /\ r.key \in Keys
    BY <1>1 DEF CacheInv, MediaTyped, ServerItem
  <2>2. CASE r.key = k
    BY <1>1, <2>1, <2>2 DEF WalkInv, Walks, CacheInv, MediaTyped
  <2>3. CASE r.key # k
    BY <1>1, <2>1, <2>3 DEF WalkInv, Stamped, CacheInv, MediaTyped
  <2> QED BY <2>2, <2>3
<1> QED BY <1>2, <1>3 DEF WalkInv

LEMMA WalkStep ==
    ASSUME MediaDbAssumption, CacheInv, WalkInv, [MediaNext]_mediaVars
    PROVE  WalkInv'
<1>1. CASE UNCHANGED mediaVars
  BY <1>1, WalksKept DEF mediaVars
<1>2. ASSUME NEW s \in Servers, StartCapture(s) \/ EndCapture(s) \/ PruneStaleItems(s)
      PROVE  WalkInv'
  BY <1>2, WalksKept DEF StartCapture, EndCapture, PruneStaleItems, db
<1>3. ASSUME NEW l \in Libraries, Fetch(l) \/ Decide(l) \/ Ingest(l)
      PROVE  WalkInv'
  <2>1. UNCHANGED <<walk, met, clock, world, since>>
    BY <1>3 DEF Fetch, Decide, Ingest, UpsertItem, RecordServerItem, UpsertPlaylist,
       RecordWatchEvent, Ingested
  <2>2. \A r \in serverItems' : r \in serverItems \/ r.seen = Nil
    <3>1. CASE RecordServerItem(l)
      BY <3>1 DEF RecordServerItem
    <3>2. CASE ~RecordServerItem(l)
      BY <1>3, <3>2 DEF Fetch, Decide, Ingest, UpsertItem, UpsertPlaylist, RecordWatchEvent,
         Ingested, db
    <3> QED BY <3>1, <3>2
  <2> QED BY <2>1, <2>2, WalksKept
<1>4. ASSUME NEW s \in Servers,
             \/ StartWalk(s) \/ WalkSection(s) \/ RecordItemSighting(s) \/ FinishWalk(s) \/ FailWalk(s)
      PROVE  WalkInv'
  BY <1>4, StartWalkWalks, WalkSectionWalks, SightingWalks, EndWalkWalks
<1>5. CASE Tick
  BY <1>5 DEF Tick, db, WalkInv, Walks, Stamped, SeenSince, CacheInv, MediaTyped
<1>6. CASE ProcessRestarts
  <2>1. /\ UNCHANGED <<serverItems, world, since, clock, met>>
        /\ walk' = [s \in Servers |-> NoWalk]
    BY <1>6 DEF ProcessRestarts, db
  <2>2. \A r \in serverItems : r.server \in Servers
    BY DEF CacheInv, MediaTyped, ServerItem
  <2> QED BY <2>1, <2>2 DEF WalkInv, Walks, Stamped, SeenSince, NoWalk
<1> QED BY <1>1, <1>2, <1>3, <1>4, <1>5, <1>6, ChangeWorldWalks DEF MediaNext

-----------------------------------------------------------------------------
LEMMA Always == MediaSpec => [](CacheInv /\ WalkInv)
<1>1. MediaInit => CacheInv /\ WalkInv
  BY InitHolds, MediaDbAssumption
<1>2. CacheInv /\ WalkInv /\ [MediaNext]_mediaVars => (CacheInv /\ WalkInv)'
  BY CacheStep, WalkStep, MediaDbAssumption
<1> QED BY <1>1, <1>2, PTL DEF MediaSpec

(* Whatever captures, walks, prunings and restarts there are, the cache     *)
(* answers for a key with the film recorded under it, and a list never      *)
(* with another film (record_server_item, prune_stale_items).               *)
THEOREM CacheIsTrue == MediaSpec => []CacheNeverMisleads
<1>1. CacheInv => CacheNeverMisleads
  BY DEF CacheInv
<1> QED BY <1>1, Always, PTL

(* Pruning takes no history of a title that a recent walk recorded, or that *)
(* was cached since, whatever else failed in it (library_walk.py:273).      *)
THEOREM PruningKeepsVouched == MediaSpec => VouchedHistoryStays
<1>1. ASSUME CacheInv, WalkInv, [MediaNext]_mediaVars
      PROVE  \A w \in watch \ watch' : ~Vouched(w)
  <2> SUFFICES ASSUME NEW w \in watch, w \notin watch', Vouched(w)
               PROVE  FALSE
    OBVIOUS
  <2>1. PICK s \in Servers : PruneStaleItems(s)
    BY <1>1 DEF MediaNext, mediaVars, db, StartCapture, EndCapture, StartWalk, WalkSection,
       RecordItemSighting, FinishWalk, FailWalk, Fetch, Decide, Ingest, UpsertItem,
       RecordServerItem, UpsertPlaylist, RecordWatchEvent, Ingested, ChangeWorld, Tick, ProcessRestarts
  <2>2. PICK r \in Stale(s) : w.server = s /\ w.item = r.item
    BY <2>1 DEF PruneStaleItems, db
  <2>3. /\ r \in serverItems /\ r.server = s /\ r.seen # Nil /\ r.seen + Age < clock
    BY <2>2 DEF Stale
  <2>4. PICK q \in serverItems :
            /\ q.server = w.server /\ q.item = w.item /\ world[q.key] # Nil
            /\ met[q.key] # Nil
            /\ since[q.key] < met[q.key] /\ met[q.key] + Age >= clock
    BY DEF Vouched
  <2>5. q = r
    BY <1>1, <2>2, <2>3, <2>4 DEF CacheInv, Rows
  <2>6. r.seen >= met[r.key]
    BY <1>1, <2>2, <2>3, <2>4, <2>5 DEF WalkInv, Stamped, SeenSince
  <2>7. r.seen \in Nat /\ met[r.key] \in Nat /\ Age \in Nat /\ clock \in Nat
    BY <1>1, <2>2, <2>3, <2>4, <2>5, MediaDbAssumption DEF CacheInv, MediaTyped, ServerItem, MediaDbAssumption
  <2> QED BY <2>2, <2>3, <2>4, <2>5, <2>6, <2>7
<1> QED BY <1>1, Always, PTL DEF MediaSpec, VouchedHistoryStays

(***************************************************************************)
(* Accounts and sessions.  Both theorems rest on how the refresh rows are  *)
(* numbered: a family is the number of the first token of a login, so a    *)
(* login starts a family nobody burned (Ordered), a rotation moves it on   *)
(* within one user (OneUser), and what revoke_all_for_user burns it also   *)
(* revokes.                                                                *)
(***************************************************************************)

TokenIds == 0 .. MaxTokens

(* The shape of a refresh row and of a request; the other fields may have  *)
(* any value.                                                              *)
RefreshRow(k) == k = [user |-> k.user, state |-> k.state, family |-> k.family]
AuthRequest(r) ==
    /\ DOMAIN r = {"op", "pc", "browser", "user", "to", "old", "new"}
    /\ r.old \in TokenIds /\ r.new \in TokenIds
    /\ r.pc = "rotate" => r.old # 0

Requests == DOMAIN req = Handlers /\ \A h \in Handlers : AuthRequest(req[h])
Clients == cookie \in [Browsers -> TokenIds] /\ sid \in [Browsers -> TokenIds]

(* Tokens and families are numbered in the order of their creation.        *)
Ordered ==
    /\ \A t \in Tokens : IF t > issued THEN token[t].state = "unissued"
                         ELSE token[t].state # "unissued" /\ token[t].family \in 1 .. issued
    /\ burned \subseteq 1 .. issued

(* All tokens of a login are of one user.                                  *)
OneUser ==
    \A s, t \in Tokens :
        (s <= issued /\ t <= issued /\ token[s].family = token[t].family)
            => token[s].user = token[t].user

TokenInv == /\ issued \in TokenIds
            /\ DOMAIN token = Tokens /\ \A t \in Tokens : RefreshRow(token[t])
            /\ Ordered /\ OneUser /\ OneLivePerLogin /\ RevocationIsFinal

SessionsInv == TokenInv /\ Requests /\ Clients

-----------------------------------------------------------------------------
(* The server starts with no token and no request under way.               *)
THEOREM SessionsInit == Init => SessionsInv
  BY AuthAssumption
  DEF Init, SessionsInv, TokenInv, Requests, Clients, AuthRequest, RefreshRow, TokenIds, Done, Ordered, OneUser, OneLivePerLogin,
      RevocationIsFinal, Unissued, Tokens

(* What a step does to the tokens: nothing, a login, a rotation, the death *)
(* of some, or the burning of a user's logins.                             *)
Same == UNCHANGED <<token, burned, issued>>
Dies == /\ issued' = issued /\ burned' = burned
        /\ DOMAIN token' = Tokens
        /\ \A t \in Tokens : /\ RefreshRow(token'[t])
                             /\ token'[t].user = token[t].user /\ token'[t].family = token[t].family
                             /\ \/ token'[t].state = token[t].state
                                \/ token[t].state # "unissued" /\ token'[t].state \in {"revoked", "gone"}
Burns(u) == token' = Revoked(Of(u)) /\ burned' = burned \cup Families(u) /\ issued' = issued
Begins == \E u : Insert(issued + 1, u, issued + 1) /\ burned' = burned
Moves == \E old \in Tokens :
            /\ token[old].state = "live" /\ issued < MaxTokens
            /\ issued' = issued + 1 /\ burned' = burned
            /\ token' = [token EXCEPT ![old].state = "rotated",
                                      ![issued + 1] = [token[old] EXCEPT !.state = "live"]]
Effect == Same \/ Dies \/ Begins \/ Moves \/ \E u : Burns(u)

(* Revoking touches no other field.                                        *)
LEMMA RevokedRows ==
    ASSUME TokenInv, NEW S
    PROVE  \A t \in Tokens :
             Revoked(S)[t] = IF t \in S /\ token[t].state = "live"
                             THEN [user |-> token[t].user, state |-> "revoked", family |-> token[t].family]
                             ELSE token[t]
  BY DEF TokenInv, Revoked, RefreshRow

(* Revoking some tokens kills them and leaves the rest as it was.          *)
LEMMA RevokedDies ==
    ASSUME TokenInv, NEW S, token' = Revoked(S), burned' = burned, issued' = issued
    PROVE  Dies
<1>1. DOMAIN token' = Tokens  BY DEF Revoked
<1>2. ASSUME NEW t \in Tokens
      PROVE  /\ RefreshRow(token'[t])
             /\ token'[t].user = token[t].user /\ token'[t].family = token[t].family
             /\ \/ token'[t].state = token[t].state
                \/ token[t].state # "unissued" /\ token'[t].state \in {"revoked", "gone"}
  <2>1. token'[t] = IF t \in S /\ token[t].state = "live"
                    THEN [user |-> token[t].user, state |-> "revoked", family |-> token[t].family]
                    ELSE token[t]
    BY RevokedRows
  <2>2. RefreshRow(token[t])  BY DEF TokenInv
  <2>3. CASE t \in S /\ token[t].state = "live"  BY <2>1, <2>3 DEF RefreshRow
  <2>4. CASE ~(t \in S /\ token[t].state = "live")  BY <2>1, <2>2, <2>4
  <2> QED  BY <2>3, <2>4
<1> QED  BY <1>1, <1>2 DEF Dies

(* Each of the five effects keeps what is known of the tokens.             *)
LEMMA TokensKeep == TokenInv /\ Effect => TokenInv'
<1> SUFFICES ASSUME TokenInv, Effect PROVE TokenInv'  OBVIOUS
<1> USE AuthAssumption
<1>1. CASE Same
  BY <1>1 DEF Same, TokenInv, RefreshRow, Ordered, OneUser, OneLivePerLogin, RevocationIsFinal
<1>2. CASE Dies
  <2>1. /\ issued' = issued /\ burned' = burned /\ DOMAIN token' = Tokens
        /\ \A t \in Tokens : RefreshRow(token'[t])
    BY <1>2 DEF Dies
  <2>2. \A t \in Tokens : /\ token'[t].user = token[t].user /\ token'[t].family = token[t].family
                          /\ token'[t].state = "live" => token[t].state = "live"
                          /\ token'[t].state = "unissued" <=> token[t].state = "unissued"
    BY <1>2 DEF Dies
  <2>3. Ordered'  BY <2>1, <2>2 DEF TokenInv, Ordered
  <2>4. OneUser'  BY <2>1, <2>2 DEF TokenInv, OneUser
  <2>5. OneLivePerLogin'  BY <2>1, <2>2 DEF TokenInv, OneLivePerLogin
  <2>6. RevocationIsFinal'  BY <2>1, <2>2 DEF TokenInv, RevocationIsFinal
  <2> QED  BY <2>1, <2>3, <2>4, <2>5, <2>6 DEF TokenInv, RefreshRow
<1>3. CASE Begins
  <2>1. PICK u : Insert(issued + 1, u, issued + 1) /\ burned' = burned  BY <1>3 DEF Begins
  <2>2. /\ issued' = issued + 1 /\ issued + 1 \in Tokens /\ issued' \in TokenIds
        /\ DOMAIN token' = Tokens
        /\ token'[issued + 1] = [user |-> u, state |-> "live", family |-> issued + 1]
        /\ \A t \in Tokens \ {issued + 1} : token'[t] = token[t]
    BY <2>1 DEF Insert, TokenInv, TokenIds, Tokens
  <2>3. \A t \in Tokens : RefreshRow(token'[t])  BY <2>2 DEF TokenInv, RefreshRow
  <2>4. Ordered'  BY <2>1, <2>2 DEF TokenInv, Ordered, TokenIds, Tokens
  <2>5. OneUser'  BY <2>2 DEF TokenInv, OneUser, Ordered, TokenIds, Tokens
  <2>6. OneLivePerLogin'  BY <2>2 DEF TokenInv, OneLivePerLogin, Ordered, TokenIds, Tokens
  <2>7. RevocationIsFinal'  BY <2>1, <2>2 DEF TokenInv, RevocationIsFinal, Ordered, TokenIds, Tokens
  <2> QED  BY <2>2, <2>3, <2>4, <2>5, <2>6, <2>7 DEF TokenInv, RefreshRow
<1>4. CASE Moves
  <2>1. PICK old \in Tokens :
            /\ token[old].state = "live" /\ issued < MaxTokens
            /\ issued' = issued + 1 /\ burned' = burned
            /\ token' = [token EXCEPT ![old].state = "rotated",
                                      ![issued + 1] = [token[old] EXCEPT !.state = "live"]]
    BY <1>4 DEF Moves
  <2>2. /\ issued + 1 \in Tokens /\ issued' \in TokenIds /\ old <= issued /\ old # issued + 1
        /\ DOMAIN token' = Tokens
    BY <2>1 DEF TokenInv, Ordered, TokenIds, Tokens
  <2>3. /\ token'[issued + 1] = token[old]
        /\ token'[old] = [user |-> token[old].user, state |-> "rotated", family |-> token[old].family]
        /\ \A t \in Tokens \ {issued + 1, old} : token'[t] = token[t]
    BY <2>1, <2>2 DEF TokenInv, RefreshRow
  <2>4. \A t \in Tokens : RefreshRow(token'[t])  BY <2>2, <2>3 DEF TokenInv, RefreshRow
  <2>a. /\ issued \in Nat /\ Tokens \subseteq Nat /\ issued' = issued + 1 /\ burned' = burned
        /\ token[old].state # "unissued" /\ token[old].family \in 1 .. issued
    BY <2>1, <2>2 DEF TokenInv, Ordered, TokenIds, Tokens
  <2>b. \A t \in Tokens :
          /\ t = issued + 1 => /\ token'[t].user = token[old].user
                              /\ token'[t].family = token[old].family
                              /\ token'[t].state = "live"
          /\ t # issued + 1 => /\ token'[t].user = token[t].user
                              /\ token'[t].family = token[t].family
                              /\ token'[t].state = IF t = old THEN "rotated" ELSE token[t].state
    BY <2>1, <2>2, <2>3
  <2>5. Ordered'
    <3>1. ASSUME NEW t \in Tokens
          PROVE  IF t > issued' THEN token'[t].state = "unissued"
                 ELSE token'[t].state # "unissued" /\ token'[t].family \in 1 .. issued'
      <4>1. CASE t = issued + 1
        <5>1. token'[t].state = "live" /\ token'[t].family = token[old].family  BY <2>b, <4>1
        <5>2. token'[t].family \in 1 .. issued /\ ~(t > issued')  BY <2>a, <4>1, <5>1
        <5> QED  BY <2>a, <5>1, <5>2
      <4>2. CASE t # issued + 1  BY <2>2, <2>a, <2>b, <4>2 DEF TokenInv, Ordered
      <4> QED  BY <4>1, <4>2
    <3>2. burned' \subseteq 1 .. issued'  BY <2>a DEF TokenInv, Ordered
    <3> QED  BY <3>1, <3>2 DEF Ordered
  <2>6. OneUser'
    <3> SUFFICES ASSUME NEW s \in Tokens, NEW t \in Tokens, s <= issued', t <= issued',
                        token'[s].family = token'[t].family
                 PROVE  token'[s].user = token'[t].user
      BY DEF OneUser
    <3> DEFINE From(x) == IF x = issued + 1 THEN old ELSE x
    <3>1. /\ From(s) \in Tokens /\ From(s) <= issued /\ From(t) \in Tokens /\ From(t) <= issued
      BY <2>1, <2>2, <2>a
    <3>2. /\ token'[s].family = token[From(s)].family /\ token'[t].family = token[From(t)].family
          /\ token'[s].user = token[From(s)].user /\ token'[t].user = token[From(t)].user
      BY <2>b
    <3> QED  BY <3>1, <3>2 DEF TokenInv, OneUser
  <2>7. OneLivePerLogin'  BY <2>1, <2>2, <2>b DEF TokenInv, OneLivePerLogin
  <2>8. RevocationIsFinal'  BY <2>1, <2>2, <2>b DEF TokenInv, RevocationIsFinal
  <2> QED  BY <2>1, <2>2, <2>4, <2>5, <2>6, <2>7, <2>8 DEF TokenInv, RefreshRow
<1>5. CASE \E u : Burns(u)
  <2>1. PICK u : Burns(u)  BY <1>5
  <2>2. /\ issued' = issued /\ DOMAIN token' = Tokens /\ burned' = burned \cup Families(u)
        /\ \A t \in Tokens :
             token'[t] = IF t \in Of(u) /\ token[t].state = "live"
                         THEN [user |-> token[t].user, state |-> "revoked", family |-> token[t].family]
                         ELSE token[t]
    BY <2>1, RevokedRows DEF Burns, Revoked
  <2>3. \A t \in Tokens : /\ RefreshRow(token'[t])
                          /\ token'[t].user = token[t].user /\ token'[t].family = token[t].family
                          /\ token'[t].state = "live" => token[t].state = "live" /\ t \notin Of(u)
                          /\ token'[t].state = "unissued" <=> token[t].state = "unissued"
    BY <2>2 DEF TokenInv, RefreshRow
  <2>4. Ordered'
    <3>1. Families(u) \subseteq 1 .. issued
      BY DEF Families, Of, TokenInv, Ordered, TokenIds, Tokens
    <3> QED  BY <2>2, <2>3, <3>1 DEF TokenInv, Ordered
  <2>5. OneUser'  BY <2>2, <2>3 DEF TokenInv, OneUser
  <2>6. OneLivePerLogin'  BY <2>2, <2>3 DEF TokenInv, OneLivePerLogin
  <2>7. RevocationIsFinal'
    <3> SUFFICES ASSUME NEW t \in Tokens, token'[t].state = "live"
                 PROVE  token[t].family \notin burned \cup Families(u)
      BY <2>2, <2>3 DEF RevocationIsFinal
    <3>1. token[t].state = "live" /\ t \notin Of(u)  BY <2>3
    <3>2. token[t].family \notin burned  BY <3>1 DEF TokenInv, RevocationIsFinal
    <3>3. ASSUME NEW s \in Of(u), token[s].family = token[t].family  PROVE FALSE
      BY <3>1, <3>3 DEF Of, TokenInv, OneUser, Ordered, TokenIds, Tokens
    <3> QED  BY <3>2, <3>3 DEF Families
  <2> QED  BY <2>2, <2>3, <2>4, <2>5, <2>6, <2>7 DEF TokenInv, RefreshRow
<1> QED  BY <1>1, <1>2, <1>3, <1>4, <1>5 DEF Effect

-----------------------------------------------------------------------------
(* The number that stands for no cookie is among the numbers.              *)
LEMMA NoToken == 0 \in TokenIds
  BY AuthAssumption DEF TokenIds

(* A request that goes on, ends or is accepted keeps its shape.            *)
LEMMA GotoKeeps ==
    ASSUME Requests, NEW h \in Handlers, NEW pc, pc # "rotate", Goto(h, pc)
    PROVE  Requests'
<1>1. DOMAIN req' = Handlers /\ \A g \in Handlers \ {h} : req'[g] = req[g]
  BY DEF Requests, Goto
<1>2. req'[h] = [req[h] EXCEPT !.pc = pc]  BY DEF Requests, Goto
<1>3. AuthRequest(req'[h])  BY <1>2 DEF Requests, AuthRequest
<1> QED  BY <1>1, <1>3 DEF Requests

(* A request whose record is replaced by a well-formed one.                *)
LEMMA SetKeeps ==
    ASSUME Requests, NEW h \in Handlers, NEW r, AuthRequest(r), req' = [req EXCEPT ![h] = r]
    PROVE  Requests'
  BY DEF Requests

(* A request that has ended leaves the requests well formed.               *)
LEMMA EndKeeps ==
    ASSUME Requests, NEW h \in Handlers, End(h)
    PROVE  Requests'
<1>1. AuthRequest(Done)  BY NoToken DEF AuthRequest, Done
<1> QED  BY <1>1, SetKeeps DEF End

(* Every step has one of the five effects on the tokens and keeps the      *)
(* requests and the browsers well formed.                                  *)
THEOREM SessionsInductive == SessionsInv /\ [Next]_vars => SessionsInv'
<1> SUFFICES ASSUME SessionsInv, [Next]_vars PROVE SessionsInv'  OBVIOUS
<1>a. TokenInv /\ Requests /\ Clients  BY DEF SessionsInv
<1>b. ASSUME Effect PROVE TokenInv'  BY <1>a, <1>b, TokensKeep
<1>1. ASSUME NEW h \in Handlers, Issue(h) PROVE SessionsInv'
  <2>1. Begins  BY <1>1 DEF Issue, Begins
  <2>2. Requests'  BY <1>1, <1>a, EndKeeps DEF Issue
  <2>3. issued + 1 \in TokenIds  BY AuthAssumption, <1>1, <1>a DEF Issue, Insert, TokenInv, TokenIds
  <2>4. Clients'  BY <1>1, <1>a, <2>3 DEF Issue, Clients
  <2> QED  BY <1>b, <2>1, <2>2, <2>4 DEF Effect, SessionsInv
<1>2. ASSUME NEW h \in Handlers, Rotate(h) PROVE SessionsInv'
  <2>1. req[h].old \in Tokens  BY AuthAssumption, <1>2, <1>a DEF Rotate, At, Requests, AuthRequest, TokenIds, Tokens
  <2>2. Clients'  BY <1>2, <1>a DEF Rotate, client, Clients
  <2>3. CASE /\ token' = Revoked(Of(token[req[h].old].user))
             /\ burned' = burned \cup Families(token[req[h].old].user)
             /\ Goto(h, "refuse") /\ UNCHANGED issued
    BY <1>a, <1>b, <2>2, <2>3, GotoKeeps DEF Burns, Effect, SessionsInv
  <2>4. CASE Goto(h, "refuse") /\ UNCHANGED <<token, burned, issued>>
    BY <1>a, <1>b, <2>2, <2>4, GotoKeeps DEF Same, Effect, SessionsInv
  <2>5. CASE /\ token[req[h].old].state = "live" /\ issued < MaxTokens /\ issued' = issued + 1
             /\ token' = [token EXCEPT ![req[h].old].state = "rotated",
                             ![issued + 1] = [token[req[h].old] EXCEPT !.state = "live"]]
             /\ req' = [req EXCEPT ![h].pc = "account", ![h].new = issued + 1,
                                   ![h].user = token[req[h].old].user]
             /\ UNCHANGED burned
    <3>1. Moves  BY <2>1, <2>5 DEF Moves
    <3>2. issued + 1 \in TokenIds  BY AuthAssumption, <2>5, <1>a DEF TokenInv, TokenIds
    <3>3. DOMAIN req' = Handlers /\ \A g \in Handlers \ {h} : req'[g] = req[g]
      BY <2>5, <1>a DEF Requests
    <3>4. AuthRequest(req[h])  BY <1>a DEF Requests
    <3>5. AuthRequest(req'[h])  BY <2>5, <3>2, <3>4, <1>a DEF Requests, AuthRequest
    <3> QED  BY <1>b, <2>2, <3>1, <3>3, <3>5 DEF Requests, Effect, SessionsInv
  <2> QED  BY <1>2, <2>3, <2>4, <2>5 DEF Rotate
<1>3. ASSUME NEW h \in Handlers, Refuse(h) PROVE SessionsInv'
  <2>1. Same  BY <1>3 DEF Refuse, Same
  <2>2. Clients'  BY <1>3, <1>a, NoToken DEF Refuse, Clients
  <2> QED  BY <1>3, <1>a, <1>b, <2>1, <2>2, EndKeeps DEF Refuse, Effect, SessionsInv
<1>4. ASSUME NEW h \in Handlers, CheckAccount(h) PROVE SessionsInv'
  <2>1. Clients'  BY <1>4, <1>a DEF CheckAccount, client, Clients
  <2>2. CASE token' = Revoked({req[h].new}) /\ Goto(h, "refuse")
    <3>1. Dies  BY <1>4, <1>a, <2>2, RevokedDies DEF CheckAccount
    <3> QED  BY <1>a, <1>b, <2>1, <2>2, <3>1, GotoKeeps DEF Effect, SessionsInv
  <2>3. CASE Goto(h, "migrate") /\ UNCHANGED token
    <3>1. Same  BY <1>4, <2>3 DEF CheckAccount, Same
    <3> QED  BY <1>a, <1>b, <2>1, <2>3, <3>1, GotoKeeps DEF Effect, SessionsInv
  <2> QED  BY <1>4, <2>2, <2>3 DEF CheckAccount
<1>5. ASSUME NEW h \in Handlers, Migrate(h) PROVE SessionsInv'
  <2>1. Same /\ Clients'  BY <1>5, <1>a DEF Migrate, client, Same, Clients
  <2> QED  BY <1>5, <1>a, <1>b, <2>1, GotoKeeps DEF Migrate, Effect, SessionsInv
<1>6. ASSUME NEW h \in Handlers, Answer(h) PROVE SessionsInv'
  <2>1. Same  BY <1>6 DEF Answer, Same
  <2>2. Clients'  BY <1>6, <1>a DEF Answer, Clients, Requests, AuthRequest
  <2> QED  BY <1>6, <1>a, <1>b, <2>1, <2>2, EndKeeps DEF Answer, Effect, SessionsInv
<1>7. ASSUME NEW h \in Handlers, AnswerLost(h) \/ ElevationStamp(h) \/ ViewModeSet(h) PROVE SessionsInv'
  <2>1. Same /\ Clients'
    BY <1>7, <1>a DEF AnswerLost, ElevationStamp, ViewModeSet, client, Same, Clients
  <2>2. End(h)  BY <1>7 DEF AnswerLost, ElevationStamp, ViewModeSet
  <2> QED  BY <1>a, <1>b, <2>1, <2>2, EndKeeps DEF Effect, SessionsInv
<1>8. ASSUME NEW h \in Handlers, CountRoots(h) \/ WriteAccount(h) PROVE SessionsInv'
  <2>1. Same /\ Clients'  BY <1>8, <1>a DEF CountRoots, WriteAccount, client, Same, Clients
  <2>2. End(h) \/ Goto(h, "write") \/ Goto(h, "revoke")  BY <1>8 DEF CountRoots, WriteAccount
  <2> QED  BY <1>a, <1>b, <2>1, <2>2, EndKeeps, GotoKeeps DEF Effect, SessionsInv
<1>9. ASSUME NEW h \in Handlers, RevokeAll(h) PROVE SessionsInv'
  <2>1. Burns(req[h].user) /\ Clients'  BY <1>9, <1>a DEF RevokeAll, client, Burns, Clients
  <2> QED  BY <1>9, <1>a, <1>b, <2>1, EndKeeps DEF RevokeAll, Effect, SessionsInv
<1>10. ASSUME NEW h \in Handlers, NEW b \in Browsers, Logout(h, b) PROVE SessionsInv'
  <2>1. Dies  BY <1>10, <1>a, RevokedDies DEF Logout
  <2>2. Clients'  BY <1>10, <1>a, NoToken DEF Logout, Clients
  <2>3. Requests'  BY <1>10, <1>a DEF Logout, Requests
  <2> QED  BY <1>b, <2>1, <2>2, <2>3 DEF Effect, SessionsInv
<1>11. ASSUME NEW h \in Handlers, NEW r, AuthRequest(r), Accept(h, r) PROVE SessionsInv'
  <2>1. Same /\ Clients'  BY <1>11, <1>a DEF Accept, client, Same, Clients
  <2>2. Requests'  BY <1>11, <1>a, SetKeeps DEF Accept
  <2> QED  BY <1>b, <2>1, <2>2 DEF Effect, SessionsInv
<1>12. ASSUME NEW h \in Handlers, NEW b \in Browsers,
              Refresh(h, b) \/ Elevate(h, b) \/ EnterViewMode(h, b) \/ ChangeOwnPassword(h, b)
       PROVE  SessionsInv'
  <2>1. cookie[b] \in TokenIds /\ sid[b] \in TokenIds  BY <1>a DEF Clients
  <2>2. CASE Refresh(h, b)
    <3>1. AuthRequest([Done EXCEPT !.op = "refresh", !.pc = "rotate", !.browser = b, !.old = cookie[b]])
      BY <2>1, <2>2, NoToken DEF Refresh, AuthRequest, Done
    <3> QED  BY <1>11, <2>2, <3>1 DEF Refresh
  <2>3. CASE Elevate(h, b)
    <3>1. AuthRequest([Done EXCEPT !.op = "elevate", !.pc = "stamp", !.browser = b, !.old = sid[b]])
      BY <2>1, NoToken DEF AuthRequest, Done
    <3> QED  BY <1>11, <2>3, <3>1 DEF Elevate
  <2>4. CASE EnterViewMode(h, b)
    <3>1. AuthRequest([Done EXCEPT !.op = "view", !.pc = "view", !.browser = b, !.old = sid[b],
                               !.to = role[Caller(b)]])
      BY <2>1, NoToken DEF AuthRequest, Done
    <3> QED  BY <1>11, <2>4, <3>1 DEF EnterViewMode
  <2>5. CASE ChangeOwnPassword(h, b)
    <3>1. AuthRequest([Done EXCEPT !.op = "reset", !.pc = "revoke", !.browser = b, !.user = Caller(b)])
      BY NoToken DEF AuthRequest, Done
    <3> QED  BY <1>11, <2>5, <3>1 DEF ChangeOwnPassword
  <2> QED  BY <1>12, <2>2, <2>3, <2>4, <2>5
<1>13. ASSUME NEW h \in Handlers, NEW b \in Browsers, NEW u \in Users, NEW op, NEW to, NEW pc,
              pc # "rotate", Manage(h, b, u, op, to, pc)
       PROVE  SessionsInv'
  <2>1. AuthRequest([Done EXCEPT !.op = op, !.pc = pc, !.browser = b, !.user = u, !.to = to])
    BY <1>13, NoToken DEF AuthRequest, Done
  <2> QED  BY <1>11, <1>13, <2>1 DEF Manage
<1>14. ASSUME NEW h \in Handlers, NEW b \in Browsers, NEW u \in Users, Login(h, b, u) PROVE SessionsInv'
  <2>1. AuthRequest([Done EXCEPT !.op = "login", !.pc = "issue", !.browser = b, !.user = u])
    BY NoToken DEF AuthRequest, Done
  <2> QED  BY <1>11, <1>14, <2>1 DEF Login
<1>15. ASSUME NEW h \in Handlers, NEW b \in Browsers, NEW u \in Users,
              \/ GrantRoot(h, b, u) \/ RevokeRoot(h, b, u) \/ UpdateUser(h, b, u)
              \/ DeleteUser(h, b, u) \/ CreateUser(h, b, u) \/ ResetPassword(h, b, u)
       PROVE  SessionsInv'
  BY <1>13, <1>15 DEF GrantRoot, RevokeRoot, UpdateUser, DeleteUser, CreateUser, ResetPassword
<1>16. ASSUME \/ \E b \in Browsers : ExitViewMode(b)
              \/ \E t \in Tokens : ElevationEnds(t)
              \/ UNCHANGED vars
       PROVE  SessionsInv'
  <2>1. UNCHANGED <<token, burned, issued, cookie, sid, req>>
    BY <1>16 DEF ExitViewMode, ElevationEnds, client, vars
  <2>2. Same /\ Clients' /\ Requests'  BY <1>a, <2>1 DEF Same, Clients, Requests
  <2> QED  BY <1>b, <2>2 DEF Effect, SessionsInv
<1>17. ASSUME NEW t \in Tokens, Expire(t) PROVE SessionsInv'
  <2>1. Clients' /\ Requests' /\ burned' = burned /\ issued' = issued /\ DOMAIN token' = Tokens
    BY <1>17, <1>a DEF Expire, client, Clients, Requests, TokenInv
  <2>2. /\ token'[t] = [user |-> token[t].user, family |-> token[t].family,
                        state |-> IF token[t].state = "live" THEN "revoked" ELSE "gone"]
        /\ \A s \in Tokens \ {t} : token'[s] = token[s]
    BY <1>17, <1>a DEF Expire, TokenInv, RefreshRow
  <2>3. token[t].state # "unissued"  BY <1>17 DEF Expire
  <2>4. Dies  BY <1>a, <2>1, <2>2, <2>3 DEF Dies, TokenInv, RefreshRow
  <2> QED  BY <1>b, <2>1, <2>4 DEF Effect, SessionsInv
<1>18. ASSUME Restart PROVE SessionsInv'
  <2>1. Same /\ Clients'  BY <1>18, <1>a DEF Restart, client, Same, Clients
  <2>2. AuthRequest(Done)  BY NoToken DEF AuthRequest, Done
  <2>3. Requests'  BY <1>18, <2>2 DEF Restart, Requests
  <2> QED  BY <1>b, <2>1, <2>3 DEF Effect, SessionsInv
<1> QED
  BY <1>1, <1>2, <1>3, <1>4, <1>5, <1>6, <1>7, <1>8, <1>9, <1>10, <1>12, <1>14, <1>15, <1>16,
     <1>17, <1>18 DEF Next, Handle

(* A login has at most one refresh token that works, whatever is sent      *)
(* twice and whatever answers get lost.                                    *)
THEOREM OneToken == Spec => []OneLivePerLogin
<1>1. SessionsInv => OneLivePerLogin  BY DEF SessionsInv, TokenInv
<1> QED  BY SessionsInit, SessionsInductive, <1>1, PTL DEF Spec

(* No token of a login that was revoked with all of its user's ever works  *)
(* again, not even one that a refresh was about to issue.                  *)
THEOREM RevocationStays == Spec => []RevocationIsFinal
<1>1. SessionsInv => RevocationIsFinal  BY DEF SessionsInv, TokenInv
<1> QED  BY SessionsInit, SessionsInductive, <1>1, PTL DEF Spec

=============================================================================
