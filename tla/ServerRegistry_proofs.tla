------------------------ MODULE ServerRegistry_proofs ------------------------
(***************************************************************************)
(* Names stay distinct, removed rows stay removed and schedules keep their *)
(* server, for any number of servers, schedules and requests.              *)
(*                                                                         *)
(* None of the three is inductive.  A rename saves a row prepared a step   *)
(* earlier: that its name is still free holds because the lock was kept    *)
(* (Locked, PendingFree).  A schedule carries the new name while the row   *)
(* still has the old one, so what it names is the pending name (Sourced).  *)
(***************************************************************************)
EXTENDS ServerRegistry, TLAPS

Typed ==
    /\ rows \in [Ids -> Row \cup {None}]
    /\ removed \subseteq Ids
    /\ schedules \in [Schedules -> Source \cup {None}]
    /\ meant \in [Schedules -> Ids \cup {None}]
    /\ tick \in [Schedules -> Source \cup {None}] \cup {None}
    /\ lock \in Threads \cup {None}
    /\ DOMAIN req = Threads
    /\ \A t \in Threads :
        /\ req[t].op \in {"save", "drop", "test", "record", "swap"} => req[t].id \in Ids
        /\ req[t].op \in {"save", "record", "add"} => req[t].row \in Row
        /\ req[t].op = "swap" => req[t].token \in Tokens /\ req[t].url \in Urls

Locked ==
    \A t \in Threads :
        /\ req[t].op \in {"save", "drop"} <=> lock = t
        /\ lock = t => Registered(req[t].id)

PendingFree ==
    \A t \in Threads : req[t].op = "save" => ~Taken(req[t].row.name, Backend[req[t].id], req[t].id)

(* The name the row i has once the rename under way is done.               *)
NameOf(i) == IF lock # None /\ req[lock].op = "save" /\ req[lock].id = i
             THEN req[lock].row.name ELSE rows[i].name

Sourced ==
    \A s \in Schedules \ loose : schedules[s] # None =>
        /\ meant[s] \in Ids /\ Registered(meant[s])
        /\ schedules[s].backend = Backend[meant[s]]
        /\ schedules[s].name = NameOf(meant[s])
        /\ ~(lock # None /\ req[lock].op = "drop" /\ req[lock].id = meant[s])

IInv == Typed /\ Locked /\ PendingFree /\ Sourced /\ NamesStayDistinct /\ RemovedStaysRemoved

THEOREM Initially == Init => IInv
  BY RegistryAssumption
  DEF Init, IInv, Typed, Locked, PendingFree, Sourced, NamesStayDistinct, RemovedStaysRemoved,
      Registered, Idle

(* A step that leaves the disk and the lock alone, and starts or ends no   *)
(* write, keeps the invariant if it keeps the types.                       *)
LEMMA QuietStep ==
    ASSUME IInv, Typed', NEW t \in Threads,
           UNCHANGED <<disk, lock>>,
           \A h \in Threads \ {t} : req'[h] = req[h],
           req[t].op \notin {"save", "drop"}, req'[t].op \notin {"save", "drop"}
    PROVE  IInv'
<1> USE RegistryAssumption DEF IInv, Typed, Locked, disk, Registered
<1>1. Locked'  OBVIOUS
<1>2. PendingFree'  BY DEF PendingFree, Taken, Resolve
<1>3. Sourced'  BY DEF Sourced, NameOf
<1>4. NamesStayDistinct' /\ RemovedStaysRemoved'  BY DEF NamesStayDistinct, RemovedStaysRemoved
<1> QED  BY <1>1, <1>2, <1>3, <1>4

THEOREM Inductive == IInv /\ [Next]_vars => IInv'
<1> SUFFICES ASSUME IInv, [Next]_vars PROVE IInv'
  OBVIOUS
<1> USE RegistryAssumption
    DEF IInv, Typed, Locked, At, Registered, Free, Idle, Goto, End, Begin, Save, disk, sched,
        Row, Source
<1>1. ASSUME NEW t \in Threads, NEW n \in Names, NEW b \in {Backend[i] : i \in Ids}, NEW u \in Urls,
             NEW k \in Tokens, NEW w \in Ids \cup {None},
             AddProbe(t, n, b, u, k, w)
      PROVE  IInv'
  <2>1. Typed'  BY <1>1 DEF AddProbe, Identifiers, Probe
  <2> QED  BY <1>1, <2>1, QuietStep DEF AddProbe
<1>2. ASSUME NEW t \in Threads, NEW i \in Ids, Test(t, i)
      PROVE  IInv'
  <2>1. Typed'  BY <1>2 DEF Test
  <2> QED  BY <1>2, <2>1, QuietStep DEF Test
<1>3. ASSUME NEW t \in Threads, NEW i \in Ids, RetryRead(t, i)
      PROVE  IInv'
  <2>1. Typed'  BY <1>3 DEF RetryRead
  <2> QED  BY <1>3, <2>1, QuietStep DEF RetryRead
<1>4. ASSUME NEW s \in Schedules, DeleteSchedule(s)
      PROVE  IInv'
  <2>1. Typed'  BY <1>4 DEF DeleteSchedule
  <2>2. Locked' /\ PendingFree'  BY <1>4 DEF DeleteSchedule, PendingFree, Taken, Resolve
  <2>3. Sourced'  BY <1>4 DEF DeleteSchedule, Sourced, NameOf
  <2>4. NamesStayDistinct' /\ RemovedStaysRemoved'
    BY <1>4 DEF DeleteSchedule, NamesStayDistinct, RemovedStaysRemoved
  <2> QED  BY <2>1, <2>2, <2>3, <2>4
<1>5. ASSUME NEW t \in Threads, TestRead(t)
      PROVE  IInv'
  <2>1. Typed'  BY <1>5 DEF TestRead
  <2> QED  BY <1>5, <2>1, QuietStep DEF TestRead
<1>6. ASSUME TickLoad \/ TickEnd
      PROVE  IInv'
  <2>1. Typed'  BY <1>6 DEF TickLoad, TickEnd
  <2>2. UNCHANGED <<disk, lock, req>>  BY <1>6 DEF TickLoad, TickEnd
  <2> QED  BY <2>1, <2>2 DEF PendingFree, Sourced, NameOf, NamesStayDistinct,
                             RemovedStaysRemoved, Taken, Resolve
(* A schedule the tick does not leave loose keeps its source or goes.       *)
<1>7. ASSUME TickSave
      PROVE  IInv'
  <2>1. Typed'  BY <1>7 DEF TickSave
  <2>2. Locked' /\ PendingFree'  BY <1>7 DEF TickSave, PendingFree, Taken, Resolve
  <2>3. \A s \in Schedules \ loose' : s \notin loose /\ schedules'[s] \in {schedules[s], None}
    BY <1>7 DEF TickSave, Overwritten
  <2>4. Sourced'  BY <1>7, <2>3 DEF TickSave, Sourced, NameOf
  <2>5. NamesStayDistinct' /\ RemovedStaysRemoved'
    BY <1>7 DEF TickSave, NamesStayDistinct, RemovedStaysRemoved
  <2> QED  BY <2>1, <2>2, <2>4, <2>5
<1>9. ASSUME NEW t \in Threads, NEW i \in Ids, NEW n \in Names, NEW u \in Urls,
             NEW k \in Tokens \cup {None}, UpdateSchedules(t, i, n, u, k)
      PROVE  IInv'
  <2> DEFINE row == Changed(rows[i], n, u, k)
  <2>a. row \in Row /\ row.name = n
    <3>1. rows[i] \in Row  BY <1>9 DEF UpdateSchedules
    <3> QED  BY <3>1 DEF Changed
  <2> HIDE DEF row
  <2>b. /\ req' = [req EXCEPT ![t] = [op |-> "save", id |-> i, row |-> row]]
        /\ n # rows[i].name => ~Taken(n, Backend[i], i)
        /\ \/ n = rows[i].name /\ UNCHANGED <<schedules, loose>>
           \/ n # rows[i].name /\ schedules' = Renamed(i, n) /\ UNCHANGED loose
           \/ n # rows[i].name /\ loose' = loose \cup Following(i) /\ UNCHANGED schedules
        /\ At(t, "idle") /\ Free /\ Registered(i) /\ lock' = t
        /\ UNCHANGED <<rows, removed, meant, tick>>
    BY <1>9 DEF UpdateSchedules, row
  <2>1. Typed'  BY <2>a, <2>b DEF Renamed, SourceOf
  <2>2. Locked'  BY <2>a, <2>b DEF Renamed, SourceOf
  <2>3. PendingFree'  
    BY <2>a, <2>b DEF PendingFree, NamesStayDistinct, Taken, Resolve
  <2>4. Sourced'  
    BY <2>a, <2>b DEF Renamed, SourceOf, Following, Sourced, NameOf, NamesStayDistinct
  <2>5. NamesStayDistinct'  BY <2>a, <2>b DEF Renamed, SourceOf, NamesStayDistinct, PendingFree, Taken, Resolve
  <2>6. RemovedStaysRemoved'  BY <2>a, <2>b DEF Renamed, SourceOf, RemovedStaysRemoved
  <2> QED  BY <2>1, <2>2, <2>3, <2>4, <2>5, <2>6
<1>10. ASSUME NEW t \in Threads, NEW i \in Ids, RemoveSchedules(t, i)
      PROVE  IInv'
  <2>1. Typed'  BY <1>10 DEF RemoveSchedules, Without, SourceOf
  <2>2. Locked'  BY <1>10 DEF RemoveSchedules, Without, SourceOf
  <2>3. PendingFree'  BY <1>10 DEF RemoveSchedules, Without, SourceOf, PendingFree, Taken, Resolve
  <2>4. Sourced'  BY <1>10 DEF RemoveSchedules, Without, SourceOf, Following, Sourced, NameOf, Taken, Resolve
  <2>5. NamesStayDistinct'  BY <1>10 DEF RemoveSchedules, Without, SourceOf, NamesStayDistinct, PendingFree, Taken, Resolve
  <2>6. RemovedStaysRemoved'  BY <1>10 DEF RemoveSchedules, Without, SourceOf, RemovedStaysRemoved
  <2> QED  BY <2>1, <2>2, <2>3, <2>4, <2>5, <2>6
<1>11. ASSUME NEW t \in Threads, AddCommit(t)
      PROVE  IInv'
  <2>1. Typed'  BY <1>11 DEF AddCommit
  <2>2. Locked'  BY <1>11 DEF AddCommit
  <2>3. PendingFree'  BY <1>11 DEF AddCommit, PendingFree, Taken, Resolve
  <2>4. Sourced'  BY <1>11 DEF AddCommit, Sourced, NameOf, Taken, Resolve
  <2>5. NamesStayDistinct'  BY <1>11 DEF AddCommit, NamesStayDistinct, PendingFree, Taken, Resolve
  <2>6. RemovedStaysRemoved'  BY <1>11 DEF AddCommit, RemovedStaysRemoved
  <2> QED  BY <2>1, <2>2, <2>3, <2>4, <2>5, <2>6
<1>12. ASSUME NEW t \in Threads, UpdateRow(t)
      PROVE  IInv'
  <2>1. Typed'  BY <1>12 DEF UpdateRow
  <2>2. Locked'  BY <1>12 DEF UpdateRow
  <2>3. PendingFree'  BY <1>12 DEF UpdateRow, PendingFree, Taken, Resolve
  <2>4. Sourced'  BY <1>12 DEF UpdateRow, Torn, Sourced, NameOf, Taken, Resolve
  <2>5. NamesStayDistinct'  BY <1>12 DEF UpdateRow, NamesStayDistinct, PendingFree, Taken, Resolve
  <2>6. RemovedStaysRemoved'  BY <1>12 DEF UpdateRow, RemovedStaysRemoved
  <2> QED  BY <2>1, <2>2, <2>3, <2>4, <2>5, <2>6
<1>13. ASSUME NEW t \in Threads, RemoveRow(t)
      PROVE  IInv'
  <2>1. Typed'  BY <1>13 DEF RemoveRow
  <2>2. Locked'  BY <1>13 DEF RemoveRow
  <2>3. PendingFree'  BY <1>13 DEF RemoveRow, PendingFree, Taken, Resolve
  <2>4. Sourced'  BY <1>13 DEF RemoveRow, Sourced, NameOf, Taken, Resolve
  <2>5. NamesStayDistinct'  BY <1>13 DEF RemoveRow, NamesStayDistinct, PendingFree, Taken, Resolve
  <2>6. RemovedStaysRemoved'  BY <1>13 DEF RemoveRow, RemovedStaysRemoved
  <2> QED  BY <2>1, <2>2, <2>3, <2>4, <2>5, <2>6
<1>14. ASSUME NEW t \in Threads, RecordStatus(t)
      PROVE  IInv'
  <2> DEFINE i == req[t].id
  <2>a. /\ req' = [req EXCEPT ![t] = [op |-> "idle"]] /\ req[t].op = "record" /\ lock = None
        /\ UNCHANGED <<removed, schedules, meant, loose, lock, tick>>
    BY <1>14 DEF RecordStatus
  <2>d. Probe(req[t].row.url) \in Identifiers /\ i \in Ids
    BY <2>a DEF Identifiers, Probe
  <2> DEFINE row == [rows[i] EXCEPT !.machine = Probe(req[t].row.url)]
  <2>e. \/ UNCHANGED rows
        \/ Registered(i) /\ rows' = [rows EXCEPT ![i] = row]
    BY <1>14 DEF RecordStatus
  <2>f. Registered(i) => row \in Row /\ row.name = rows[i].name
    <3>1. Registered(i) => rows[i] \in Row  BY <2>d
    <3> QED  BY <2>d, <3>1
  <2> HIDE DEF row
  <2>b. rows' \in [Ids -> Row \cup {None}]
    BY <2>d, <2>e, <2>f
  <2>c. \A j \in Ids : /\ Registered(j)' <=> Registered(j)
                       /\ Registered(j) => rows'[j].name = rows[j].name
    BY <2>d, <2>e, <2>f
  <2>1. Typed'  BY <2>a, <2>b, <2>c
  <2>2. Locked'  BY <2>a, <2>b, <2>c
  <2>3. PendingFree'  BY <2>a, <2>b, <2>c DEF PendingFree, Taken, Resolve
  <2>4. Sourced'  BY <2>a, <2>b, <2>c DEF Sourced, NameOf, Taken, Resolve
  <2>5. NamesStayDistinct'  BY <2>a, <2>b, <2>c DEF NamesStayDistinct, PendingFree, Taken, Resolve
  <2>6. RemovedStaysRemoved'  BY <2>a, <2>b, <2>c DEF RemovedStaysRemoved
  <2> QED  BY <2>1, <2>2, <2>3, <2>4, <2>5, <2>6
<1>15. ASSUME NEW t \in Threads, RetrySwap(t)
      PROVE  IInv'
  <2> DEFINE i == req[t].id
  <2>a. /\ req' = [req EXCEPT ![t] = [op |-> "idle"]] /\ req[t].op = "swap" /\ lock = None
        /\ UNCHANGED <<removed, schedules, meant, loose, lock, tick>>
    BY <1>15 DEF RetrySwap
  <2>d. req[t].token \in Tokens /\ Probe(req[t].url) \in Identifiers /\ i \in Ids
    BY <2>a DEF Identifiers, Probe
  <2> DEFINE row == [rows[i] EXCEPT !.token = req[t].token, !.pending = None,
                                   !.machine = IF Probe(req[t].url) = None THEN @
                                                ELSE Probe(req[t].url)]
  <2>e. \/ UNCHANGED rows
        \/ Registered(i) /\ rows' = [rows EXCEPT ![i] = row]
    BY <1>15 DEF RetrySwap
  <2>f. Registered(i) => row \in Row /\ row.name = rows[i].name
    <3>1. Registered(i) => rows[i] \in Row  BY <2>d
    <3> QED  BY <2>d, <3>1
  <2> HIDE DEF row
  <2>b. rows' \in [Ids -> Row \cup {None}]
    BY <2>d, <2>e, <2>f
  <2>c. \A j \in Ids : /\ Registered(j)' <=> Registered(j)
                       /\ Registered(j) => rows'[j].name = rows[j].name
    BY <2>d, <2>e, <2>f
  <2>1. Typed'  BY <2>a, <2>b, <2>c
  <2>2. Locked'  BY <2>a, <2>b, <2>c
  <2>3. PendingFree'  BY <2>a, <2>b, <2>c DEF PendingFree, Taken, Resolve
  <2>4. Sourced'  BY <2>a, <2>b, <2>c DEF Sourced, NameOf, Taken, Resolve
  <2>5. NamesStayDistinct'  BY <2>a, <2>b, <2>c DEF NamesStayDistinct, PendingFree, Taken, Resolve
  <2>6. RemovedStaysRemoved'  BY <2>a, <2>b, <2>c DEF RemovedStaysRemoved
  <2> QED  BY <2>1, <2>2, <2>3, <2>4, <2>5, <2>6
<1>16. ASSUME NEW s \in Schedules, NEW i \in Ids, PostSchedule(s, i)
      PROVE  IInv'
  <2>1. Typed'  BY <1>16 DEF PostSchedule, InWrite
  <2>2. Locked'  BY <1>16 DEF PostSchedule, InWrite
  <2>3. PendingFree'  BY <1>16 DEF PostSchedule, InWrite, PendingFree, Taken, Resolve
  <2>4. Sourced'  BY <1>16 DEF PostSchedule, InWrite, Sourced, NameOf, Taken, Resolve
  <2>5. NamesStayDistinct'  BY <1>16 DEF PostSchedule, InWrite, NamesStayDistinct, PendingFree, Taken, Resolve
  <2>6. RemovedStaysRemoved'  BY <1>16 DEF PostSchedule, InWrite, RemovedStaysRemoved
  <2> QED  BY <2>1, <2>2, <2>3, <2>4, <2>5, <2>6
<1>17. ASSUME Crash
      PROVE  IInv'
  <2>1. Typed'  BY <1>17 DEF Crash
  <2>2. Locked'  BY <1>17 DEF Crash
  <2>3. PendingFree'  BY <1>17 DEF Crash, PendingFree, Taken, Resolve
  <2>4. Sourced'  BY <1>17 DEF Crash, Torn, Sourced, NameOf, Taken, Resolve
  <2>5. NamesStayDistinct'  BY <1>17 DEF Crash, NamesStayDistinct, PendingFree, Taken, Resolve
  <2>6. RemovedStaysRemoved'  BY <1>17 DEF Crash, RemovedStaysRemoved
  <2> QED  BY <2>1, <2>2, <2>3, <2>4, <2>5, <2>6
<1>18. ASSUME UNCHANGED vars PROVE IInv'
  BY <1>18 DEF vars, PendingFree, Sourced, NamesStayDistinct, RemovedStaysRemoved, Taken,
     Resolve, NameOf
<1> QED
  BY <1>1, <1>2, <1>3, <1>4, <1>5, <1>6, <1>7, <1>9, <1>10, <1>11, <1>12, <1>13, <1>14, <1>15, <1>16, <1>17, <1>18 DEF Next, Accept, Serve

(* Two servers of one backend never share a name.                          *)
THEOREM NamesDistinct == Spec => []NamesStayDistinct
<1>1. IInv => NamesStayDistinct  BY DEF IInv
<1> QED  BY Initially, Inductive, <1>1, PTL DEF Spec

(* A removed row is never written back.                                    *)
THEOREM RemovalIsFinal == Spec => []RemovedStaysRemoved
<1>1. IInv => RemovedStaysRemoved  BY DEF IInv
<1> QED  BY Initially, Inductive, <1>1, PTL DEF Spec

(* A schedule that no write of its server was torn or lost for names that  *)
(* server and no other.                                                    *)
THEOREM SchedulesKeepServers == Spec => []ScheduleKeepsServer
<1>1. IInv => ScheduleKeepsServer
  BY DEF IInv, Sourced, NameOf, NamesStayDistinct, ScheduleKeepsServer, Free, Resolve, Registered
<1> QED  BY Initially, Inductive, <1>1, PTL DEF Spec

=============================================================================
