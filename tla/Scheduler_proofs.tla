--------------------------- MODULE Scheduler_proofs ---------------------------
(***************************************************************************)
(* The safety properties of Scheduler, for any number of schedules and any *)
(* bounds.                                                                 *)
(*                                                                         *)
(* The file and the tick's copy of it stay ahead of everything that has    *)
(* been fired or missed.  The one exception is the row that has just been  *)
(* fired and is about to be saved; a stop at that point leaves it behind   *)
(* in the file, which is why the refresh in Scheduler.start is needed.     *)
(***************************************************************************)
EXTENDS Scheduler, TLAPS

Ticking == pc \in {"row", "save"}

Past == fired \cup missed

\* What was fired or missed is not in the future.
PastIsPast == \A s \in Schedules, t \in Times : <<s, t>> \in Past => t <= now

FileAhead ==
    \A s \in Schedules, t \in Times :
        (<<s, t>> \in Past /\ disk[s] # NoRow) =>
            (disk[s].next > t \/ (pc = "save" /\ s = at) \/ pc = "down")

CopyAhead ==
    Ticking => \A s \in Schedules, t \in Times :
                  (<<s, t>> \in Past /\ rows[s] # NoRow) => rows[s].next > t

\* The rows the tick is through are not due in its copy; while the copy has
\* nothing to save, what is due in the file is still ahead of the tick.
CopyDone ==
    Ticking => \A s \in Schedules :
                  (s < at \/ (pc = "save" /\ s = at)) => ~Due(rows[s], tickNow)

FileSeen ==
    /\ (pc = "row" /\ ~mutated) =>
          \A s \in Schedules : Due(disk[s], tickNow) => Due(rows[s], tickNow)
    /\ pc = "save" => mutated /\ at \in Schedules

IInv ==
    /\ TypeOK
    /\ PastIsPast /\ FileAhead /\ CopyAhead
    /\ CopyDone /\ FileSeen
    /\ doubled = {}

-----------------------------------------------------------------------------
(* Rows *)

\* A row read from the file or from the tick's copy of it.
LEMMA RowType ==
    ASSUME TypeOK, NEW s \in Schedules
    PROVE  /\ disk[s] # NoRow => disk[s] \in Rows
           /\ rows[s] # NoRow => rows[s] \in Rows
  BY DEF TypeOK

\* What a roll-forward changes of a row.
LEMMA RowRolled ==
    ASSUME NEW row \in Rows, NEW t \in Times
    PROVE  LET new == [row EXCEPT !.next = t]
           IN  new \in Rows /\ new # NoRow /\ new.next = t
  BY SentinelAssumption DEF Rows

\* What a rename changes of a row.
LEMMA RowRenamed ==
    ASSUME NEW row \in Rows, NEW name \in Servers
    PROVE  LET new == [row EXCEPT !.server = name]
           IN  /\ new \in Rows /\ new # NoRow
               /\ new.next = row.next /\ new.enabled = row.enabled
  BY SentinelAssumption DEF Rows

\* The next firing time is in range and in the future.
LEMMA NextIsLater ==
    ASSUME NEW t \in 0..MaxTime
    PROVE  ComputeNext(t) \in Times /\ ComputeNext(t) > t
  BY SchedulerAssumption DEF ComputeNext, Times

\* Times and schedules are numbers.
LEMMA Numbers ==
    /\ Times \subseteq Nat /\ Schedules \subseteq Nat
    /\ MaxTime \in Nat /\ S \in Nat
    /\ \A row \in Rows : row.next \in Times /\ row.enabled \in BOOLEAN
  BY SchedulerAssumption DEF Times, Schedules, Rows

-----------------------------------------------------------------------------
(* The invariant holds initially. *)

LEMMA InitInv == Init => IInv
<1> SUFFICES ASSUME Init PROVE IInv
  OBVIOUS
<1>1. \A ok \in BOOLEAN : FirstRow(ok) \in Rows
  BY SchedulerAssumption DEF FirstRow, Rows, Servers, Times
<1>2. disk \in [Schedules -> Rows \cup {NoRow}]
  BY <1>1 DEF Init
<1>3. TypeOK
  <2>1. 0 \in 0..MaxTime /\ 0 \in 0..0 /\ 1 \in 1..(S + 1)
    BY Numbers
  <2> QED BY <1>2, <2>1 DEF Init, TypeOK, Servers
<1>4. ~Ticking /\ Past = {}
  BY DEF Init, Ticking, Past
<1> QED
  BY <1>3, <1>4 DEF Init, IInv, PastIsPast, FileAhead, CopyAhead, CopyDone, FileSeen

-----------------------------------------------------------------------------
(* The invariant is preserved by the steps of the scheduler's thread. *)

\* A tick that is over has nothing to be said about its copy.
LEMMA TickIsOver ==
    ASSUME TypeOK, LeaveTick
    PROVE  /\ rows' \in [Schedules -> Rows \cup {NoRow}]
           /\ tickNow' \in 0..now /\ at' \in 1..(S + 1) /\ mutated' \in BOOLEAN
<1>1. 0 \in 0..now /\ 1 \in 1..(S + 1)
  BY Numbers DEF TypeOK
<1>2. rows' = [s \in Schedules |-> NoRow]
  BY DEF LeaveTick
<1> QED BY <1>1, <1>2 DEF LeaveTick

LEMMA LoadRowsInv == IInv /\ LoadRows => IInv'
<1> SUFFICES ASSUME IInv, LoadRows PROVE IInv'
  OBVIOUS
<1> USE DEF IInv, LoadRows, bounds, history
<1>1. TypeOK'
  <2>1. now \in 0..now /\ 1 \in 1..(S + 1)
    BY Numbers DEF TypeOK
  <2> QED BY <2>1 DEF TypeOK
<1>2. PastIsPast' /\ FileAhead'
  BY DEF PastIsPast, FileAhead, Past
<1>3. CopyAhead'
  BY DEF CopyAhead, FileAhead, Past
<1>4. CopyDone'
  BY Numbers DEF CopyDone, Schedules
<1>5. FileSeen'
  BY DEF FileSeen, Due
<1> QED BY <1>1, <1>2, <1>3, <1>4, <1>5

LEMMA SkipRowInv == IInv /\ SkipRow => IInv'
<1> SUFFICES ASSUME IInv, SkipRow PROVE IInv'
  OBVIOUS
<1> USE DEF IInv, SkipRow, bounds, history
<1>1. TypeOK'
  BY Numbers DEF TypeOK, Schedules
<1>2. PastIsPast' /\ FileAhead' /\ CopyAhead'
  BY DEF PastIsPast, FileAhead, CopyAhead, Past, Ticking
<1>3. CopyDone'
  <2>1. ASSUME NEW s \in Schedules, s < at' PROVE ~Due(rows[s], tickNow)
    <3>1. s < at \/ s = at
      BY <2>1, Numbers
    <3> QED BY <3>1 DEF CopyDone, Ticking
  <2> QED BY <2>1 DEF CopyDone, Due
<1>4. FileSeen'
  BY DEF FileSeen, Due
<1> QED BY <1>1, <1>2, <1>3, <1>4

\* The row the tick rolls forward, whether it has fired it or not.
LEMMA AfterRoll ==
    ASSUME IInv, at \in Schedules, pc = "row", Due(rows[at], tickNow),
           rows' = [rows EXCEPT ![at].next = ComputeNext(tickNow)]
    PROVE  /\ rows' \in [Schedules -> Rows \cup {NoRow}]
           /\ rows'[at].next > rows[at].next
           /\ rows[at].next \in Times
           /\ rows[at].next <= now
           /\ ~Due(rows'[at], tickNow)
           /\ \A t \in Times : <<at, t>> \in Past => rows[at].next > t /\ rows'[at].next > t
           /\ \A s \in Schedules \ {at} : rows'[s] = rows[s]
<1>1. rows[at] \in Rows /\ rows[at].next <= tickNow
  BY RowType DEF IInv, Due
<1>2. tickNow \in 0..MaxTime /\ now \in Nat /\ tickNow <= now /\ rows[at].next \in Times
  BY <1>1, Numbers DEF IInv, TypeOK
<1>3. ComputeNext(tickNow) \in Times /\ ComputeNext(tickNow) > tickNow
  BY <1>2, NextIsLater
<1>4. rows' = [rows EXCEPT ![at] = [rows[at] EXCEPT !.next = ComputeNext(tickNow)]]
  OBVIOUS
<1>5. /\ rows'[at] = [rows[at] EXCEPT !.next = ComputeNext(tickNow)]
      /\ \A s \in Schedules \ {at} : rows'[s] = rows[s]
  BY <1>4 DEF IInv, TypeOK
<1>6. rows'[at] \in Rows /\ rows'[at].next = ComputeNext(tickNow)
  <2> DEFINE new == [rows[at] EXCEPT !.next = ComputeNext(tickNow)]
  <2>1. new \in Rows /\ new.next = ComputeNext(tickNow)
    BY <1>1, <1>3, RowRolled
  <2>2. rows'[at] = new
    BY <1>5
  <2> HIDE DEF new
  <2> QED BY <2>1, <2>2
<1>7. rows' \in [Schedules -> Rows \cup {NoRow}]
  BY <1>4, <1>5, <1>6 DEF IInv, TypeOK
<1>8. rows'[at].next > rows[at].next
  BY <1>1, <1>2, <1>3, <1>6, Numbers
<1>9. ~Due(rows'[at], tickNow)
  BY <1>2, <1>3, <1>6, Numbers DEF Due
<1>10. ASSUME NEW t \in Times, <<at, t>> \in Past
       PROVE  rows[at].next > t /\ rows'[at].next > t
  <2>1. rows[at].next > t
    BY <1>1, <1>10, SentinelAssumption DEF IInv, CopyAhead, Ticking
  <2>2. t \in Nat /\ rows[at].next \in Nat /\ rows'[at].next \in Nat
    BY <1>2, <1>3, <1>6, Numbers
  <2> QED BY <2>1, <2>2, <1>8
<1> QED BY <1>1, <1>2, <1>5, <1>7, <1>8, <1>9, <1>10, Numbers

LEMMA RollRowInv == IInv /\ RollRow => IInv'
<1> SUFFICES ASSUME IInv, RollRow PROVE IInv'
  OBVIOUS
<1>0. /\ rows' \in [Schedules -> Rows \cup {NoRow}]
      /\ ~Due(rows'[at], tickNow)
      /\ \A t \in Times : <<at, t>> \in Past => rows'[at].next > t
      /\ \A s \in Schedules \ {at} : rows'[s] = rows[s]
  BY AfterRoll DEF RollRow
<1> USE DEF IInv, RollRow, bounds, history
<1>1. TypeOK'
  BY <1>0, Numbers DEF TypeOK, Schedules
<1>2. PastIsPast' /\ FileAhead'
  BY DEF PastIsPast, FileAhead, Past
<1>3. CopyAhead'
  BY <1>0 DEF CopyAhead, Ticking, Past
<1>4. CopyDone'
  <2>1. ASSUME NEW s \in Schedules, s < at' PROVE ~Due(rows'[s], tickNow)
    <3>1. s < at \/ s = at
      BY <2>1, Numbers
    <3> QED BY <1>0, <3>1 DEF CopyDone, Ticking
  <2> QED BY <2>1 DEF CopyDone, Due
<1>5. FileSeen'
  BY DEF FileSeen
<1> QED BY <1>1, <1>2, <1>3, <1>4, <1>5

LEMMA FireRowInv == IInv /\ FireRow => IInv'
<1> SUFFICES ASSUME IInv, FireRow PROVE IInv'
  OBVIOUS
<1> DEFINE n == rows[at].next
<1>0. /\ rows' \in [Schedules -> Rows \cup {NoRow}]
      /\ rows'[at].next > n /\ n \in Times /\ n <= now
      /\ ~Due(rows'[at], tickNow)
      /\ \A t \in Times : <<at, t>> \in Past => n > t /\ rows'[at].next > t
      /\ \A s \in Schedules \ {at} : rows'[s] = rows[s]
  BY AfterRoll DEF FireRow
<1>1. <<at, n>> \notin Past
  <2>1. n \in Nat
    BY <1>0, Numbers
  <2>2. ~(n > n)
    BY <2>1
  <2> QED BY <1>0, <2>2
<1>2. /\ fired' = fired \cup {<<at, n>>}
      /\ doubled' = doubled
      /\ Past' = Past \cup {<<at, n>>}
  BY <1>1 DEF FireRow, Past
<1> HIDE DEF n
<1> USE DEF IInv, FireRow, bounds
<1>3. TypeOK'
  BY <1>0, <1>2 DEF TypeOK, Occurrences
<1>4. PastIsPast'
  BY <1>0, <1>2 DEF PastIsPast
<1>5. FileAhead'
  BY <1>2 DEF FileAhead
<1>6. CopyAhead'
  BY <1>0, <1>2 DEF CopyAhead, Ticking
<1>7. CopyDone'
  BY <1>0 DEF CopyDone, Ticking, Due
<1>8. FileSeen'
  BY DEF FileSeen
<1> QED BY <1>2, <1>3, <1>4, <1>5, <1>6, <1>7, <1>8

LEMMA SaveAfterFireInv == IInv /\ SaveAfterFire => IInv'
<1> SUFFICES ASSUME IInv, SaveAfterFire PROVE IInv'
  OBVIOUS
<1> USE DEF IInv, SaveAfterFire, bounds, history
<1>0. at \in Schedules /\ mutated
  BY DEF FileSeen
<1>1. TypeOK'
  BY <1>0, Numbers DEF TypeOK, Schedules, SavedNow
<1>2. PastIsPast' /\ CopyAhead'
  BY DEF PastIsPast, CopyAhead, Past, Ticking
<1>3. FileAhead'
  BY DEF FileAhead, CopyAhead, Ticking, SavedNow, Past
<1>4. CopyDone'
  <2>1. ASSUME NEW s \in Schedules, s < at' PROVE ~Due(rows[s], tickNow)
    <3>1. s < at \/ s = at
      BY <2>1, <1>0, Numbers
    <3> QED BY <3>1 DEF CopyDone, Ticking
  <2> QED BY <2>1 DEF CopyDone, Due
<1>5. FileSeen'
  BY <1>0 DEF FileSeen
<1> QED BY <1>1, <1>2, <1>3, <1>4, <1>5

LEMMA SubmitRaisesInv == IInv /\ SubmitRaises => IInv'
<1> SUFFICES ASSUME IInv, SubmitRaises PROVE IInv'
  OBVIOUS
<1>1. pc = "row" /\ pc' = "asleep"
  BY DEF SubmitRaises, TickAborted
<1>2. TypeOK'
  BY <1>1, TickIsOver DEF IInv, SubmitRaises, TypeOK, history
<1>3. PastIsPast' /\ FileAhead'
  BY <1>1 DEF IInv, SubmitRaises, PastIsPast, FileAhead, Past, history
<1>4. CopyAhead' /\ CopyDone' /\ FileSeen'
  BY <1>1 DEF CopyAhead, CopyDone, FileSeen, Ticking
<1> QED BY <1>2, <1>3, <1>4 DEF IInv, SubmitRaises, history

\* A tick that is through leaves nothing on file that was due at its start.
LEMMA EndTickLeaves ==
    IInv /\ EndTick => \A s \in Schedules : ~Due(disk'[s], tickNow)
<1> SUFFICES ASSUME IInv, EndTick, NEW s \in Schedules PROVE ~Due(disk'[s], tickNow)
  OBVIOUS
<1>1. s < at
  BY Numbers DEF EndTick, Schedules
<1>2. ~Due(rows[s], tickNow)
  BY <1>1 DEF IInv, CopyDone, EndTick, Ticking
<1>3. CASE mutated
  BY <1>2, <1>3 DEF EndTick
<1>4. CASE ~mutated
  BY <1>2, <1>4 DEF EndTick, IInv, FileSeen
<1> QED BY <1>3, <1>4

LEMMA EndTickInv == IInv /\ EndTick => IInv'
<1> SUFFICES ASSUME IInv, EndTick PROVE IInv'
  OBVIOUS
<1>1. pc = "row" /\ pc' = "asleep"
  BY DEF EndTick
<1>2. TypeOK'
  BY <1>1, TickIsOver DEF IInv, EndTick, TypeOK, history, bounds
<1>3. PastIsPast'
  BY DEF IInv, EndTick, PastIsPast, Past, history
<1>4. FileAhead'
  <2>1. CASE mutated
    BY <1>1, <2>1 DEF IInv, EndTick, FileAhead, CopyAhead, Ticking, Past, history
  <2>2. CASE ~mutated
    BY <1>1, <2>2 DEF IInv, EndTick, FileAhead, Past, history
  <2> QED BY <2>1, <2>2
<1>5. CopyAhead' /\ CopyDone' /\ FileSeen'
  BY <1>1 DEF CopyAhead, CopyDone, FileSeen, Ticking
<1> QED BY <1>2, <1>3, <1>4, <1>5 DEF IInv, EndTick, history

-----------------------------------------------------------------------------
(* The invariant is preserved by the API. *)

\* A rewrite of the file is safe when each row of it that is not gone is as due
\* as it was, or not yet due.
LEMMA RewriteInv ==
    ASSUME IInv, NEW new \in [Schedules -> Rows \cup {NoRow}], Rewrite(new),
           server' \in Servers,
           \A s \in Schedules :
              new[s] # NoRow =>
                 \/ new[s].next > now
                 \/ disk[s] # NoRow /\ new[s].next = disk[s].next
                                    /\ new[s].enabled = disk[s].enabled
    PROVE  IInv'
<1> USE DEF Rewrite, history
<1>1. now \in Nat /\ tickNow \in Nat /\ tickNow <= now
  BY Numbers DEF IInv, TypeOK
<1>2. \A s \in Schedules : new[s] # NoRow => new[s].next \in Nat
  BY Numbers
<1>3. TypeOK'
  BY DEF IInv, TypeOK, tickVars, history
<1>4. PastIsPast'
  BY DEF IInv, PastIsPast, Past
<1>5. FileAhead'
  <2> SUFFICES ASSUME NEW s \in Schedules, NEW t \in Times,
                      <<s, t>> \in Past, new[s] # NoRow
               PROVE  new[s].next > t \/ (pc = "save" /\ s = at) \/ pc = "down"
    BY DEF FileAhead, Past, tickVars
  <2>1. t \in Nat /\ t <= now
    BY Numbers DEF IInv, PastIsPast
  <2>2. CASE new[s].next > now
    BY <1>1, <1>2, <2>1, <2>2
  <2>3. CASE disk[s] # NoRow /\ new[s].next = disk[s].next
    BY <2>3 DEF IInv, FileAhead
  <2> QED BY <2>2, <2>3
<1>6. CopyAhead' /\ CopyDone'
  BY DEF IInv, CopyAhead, CopyDone, Past, Ticking, Due, tickVars
<1>7. FileSeen'
  <2>1. ASSUME NEW s \in Schedules, Due(new[s], tickNow) PROVE Due(disk[s], tickNow)
    BY <1>1, <1>2, <2>1 DEF Due
  <2> QED BY <2>1 DEF IInv, FileSeen, tickVars, Due
<1> QED BY <1>3, <1>4, <1>5, <1>6, <1>7 DEF IInv

LEMMA PutScheduleInv ==
    ASSUME IInv, NEW s \in Schedules, PutSchedule(s) PROVE IInv'
<1>1. ComputeNext(now) \in Times /\ ComputeNext(now) > now
  BY NextIsLater DEF IInv, TypeOK
<1>2. PICK row \in [server : {server}, enabled : BOOLEAN, fireable : {TRUE},
                    next : {ComputeNext(now)}] :
         Rewrite([disk EXCEPT ![s] = row])
  BY DEF PutSchedule
<1>3. row \in Rows /\ row.next > now
  BY <1>1 DEF Rows, IInv, TypeOK
<1>4. [disk EXCEPT ![s] = row] \in [Schedules -> Rows \cup {NoRow}]
  BY <1>3 DEF IInv, TypeOK
<1>5. server' \in Servers
  BY DEF PutSchedule, IInv, TypeOK
<1>6. \A r \in Schedules :
         [disk EXCEPT ![s] = row][r] = IF r = s THEN row ELSE disk[r]
  BY DEF IInv, TypeOK
<1> HIDE DEF ComputeNext
<1> QED BY <1>2, <1>3, <1>4, <1>5, <1>6, RewriteInv

LEMMA DeleteScheduleInv ==
    ASSUME IInv, NEW s \in Schedules, DeleteSchedule(s) PROVE IInv'
<1>1. [disk EXCEPT ![s] = NoRow] \in [Schedules -> Rows \cup {NoRow}]
  BY DEF IInv, TypeOK
<1>2. \A r \in Schedules :
         [disk EXCEPT ![s] = NoRow][r] = IF r = s THEN NoRow ELSE disk[r]
  BY DEF IInv, TypeOK
<1>3. Rewrite([disk EXCEPT ![s] = NoRow]) /\ server' \in Servers
  BY DEF DeleteSchedule, IInv, TypeOK
<1> QED BY <1>1, <1>2, <1>3, RewriteInv

LEMMA RenameServerInv == ASSUME IInv, RenameServer PROVE IInv'
<1> DEFINE Renamed(s) == [disk[s] EXCEPT !.server = server']
           new == [s \in Schedules |->
                     IF disk[s] # NoRow /\ disk[s].server = server
                     THEN Renamed(s) ELSE disk[s]]
<1>1. server' \in Servers /\ Rewrite(new)
  BY DEF RenameServer, Servers
<1>2. \A s \in Schedules : disk[s] # NoRow =>
         /\ Renamed(s) \in Rows /\ Renamed(s) # NoRow
         /\ Renamed(s).next = disk[s].next /\ Renamed(s).enabled = disk[s].enabled
  BY <1>1, RowType, RowRenamed DEF IInv
<1>3. \A s \in Schedules : disk[s] \in Rows \cup {NoRow}
  BY DEF IInv, TypeOK
<1> HIDE DEF Renamed
<1>4. new \in [Schedules -> Rows \cup {NoRow}]
  BY <1>2, <1>3
<1>5. \A s \in Schedules : new[s] = disk[s] \/ (disk[s] # NoRow /\ new[s] = Renamed(s))
  OBVIOUS
<1> HIDE DEF new
<1> QED BY <1>1, <1>2, <1>4, <1>5, RewriteInv

LEMMA RemoveServerInv == ASSUME IInv, RemoveServer PROVE IInv'
<1> DEFINE new == [s \in Schedules |->
                     IF disk[s] # NoRow /\ disk[s].server = server THEN NoRow ELSE disk[s]]
<1>1. server' \in Servers /\ Rewrite(new)
  BY DEF RemoveServer, Servers
<1>2. new \in [Schedules -> Rows \cup {NoRow}]
  BY DEF IInv, TypeOK
<1>3. \A s \in Schedules : new[s] = NoRow \/ new[s] = disk[s]
  OBVIOUS
<1> HIDE DEF new
<1> QED BY <1>1, <1>2, <1>3, RewriteInv

-----------------------------------------------------------------------------
(* The invariant is preserved by the process and by time. *)

LEMMA CrashInv == IInv /\ Crash => IInv'
<1> SUFFICES ASSUME IInv, Crash PROVE IInv'
  OBVIOUS
<1>1. TypeOK'
  BY TickIsOver DEF IInv, Crash, TypeOK, history
<1> QED BY <1>1 DEF IInv, Crash, PastIsPast, FileAhead, CopyAhead, CopyDone, FileSeen,
                    Ticking, Past, history

LEMMA StartInv == IInv /\ Start => IInv'
<1> SUFFICES ASSUME IInv, Start PROVE IInv'
  OBVIOUS
<1>1. ComputeNext(now) \in Times /\ ComputeNext(now) > now /\ now \in Nat
  BY NextIsLater, Numbers DEF IInv, TypeOK
<1> DEFINE Later(s) == [disk[s] EXCEPT !.next = ComputeNext(now)]
<1>2. \A s \in Passed :
         /\ s \in Schedules /\ disk[s] \in Rows
         /\ disk[s].next \in Times /\ disk[s].next <= now
         /\ Later(s) \in Rows /\ Later(s).next > now
  BY <1>1, RowType, RowRolled, Numbers DEF Passed, IInv
<1>3. \A s \in Schedules \ Passed :
         disk[s] \in Rows \cup {NoRow} /\ (disk[s] # NoRow => disk[s].next > now)
  <2> SUFFICES ASSUME NEW s \in Schedules \ Passed
               PROVE  disk[s] \in Rows \cup {NoRow} /\ (disk[s] # NoRow => disk[s].next > now)
    OBVIOUS
  <2>1. disk[s] \in Rows \cup {NoRow}
    BY DEF IInv, TypeOK
  <2>2. disk[s] # NoRow => disk[s].next \in Nat /\ ~(disk[s].next <= now)
    BY <2>1, Numbers DEF Passed
  <2> QED BY <1>1, <2>1, <2>2
<1>4. disk' = [s \in Schedules |-> IF s \in Passed THEN Later(s) ELSE disk[s]]
  BY DEF Start, Rolled
<1> HIDE DEF Later
<1>5. disk' \in [Schedules -> Rows \cup {NoRow}]
  BY <1>2, <1>3, <1>4
<1>6. \A s \in Schedules : disk'[s] # NoRow => disk'[s].next > now /\ disk'[s].next \in Nat
  BY <1>2, <1>3, <1>4, <1>5, Numbers
<1>7. /\ missed' = missed \cup {<<s, disk[s].next>> : s \in Passed}
      /\ fired' = fired /\ doubled' = doubled
      /\ now' = now /\ pc = "down" /\ pc' = "asleep"
      /\ UNCHANGED <<server, tickVars>>
  BY DEF Start
<1>8. TypeOK'
  <2>1. {<<s, disk[s].next>> : s \in Passed} \subseteq Occurrences
    BY <1>2 DEF Occurrences
  <2> QED BY <1>5, <1>7, <2>1 DEF IInv, TypeOK, tickVars
<1>9. PastIsPast'
  <2> SUFFICES ASSUME NEW s \in Schedules, NEW t \in Times, <<s, t>> \in Past'
               PROVE  t <= now
    BY <1>7 DEF PastIsPast
  <2>1. CASE <<s, t>> \in Past
    BY <2>1 DEF IInv, PastIsPast
  <2>2. CASE s \in Passed /\ t = disk[s].next
    BY <1>2, <2>2
  <2> QED BY <1>7, <2>1, <2>2 DEF Past
<1>10. FileAhead'
  <2> SUFFICES ASSUME NEW s \in Schedules, NEW t \in Times, <<s, t>> \in Past',
                      disk'[s] # NoRow
               PROVE  disk'[s].next > t
    BY DEF FileAhead
  <2>1. t \in Nat /\ t <= now
    BY <1>7, <1>9, Numbers DEF PastIsPast
  <2> QED BY <1>1, <1>6, <2>1
<1>11. CopyAhead' /\ CopyDone' /\ FileSeen'
  BY <1>7 DEF CopyAhead, CopyDone, FileSeen, Ticking
<1> QED BY <1>7, <1>8, <1>9, <1>10, <1>11 DEF IInv

LEMMA TimePassesInv == IInv /\ TimePasses => IInv'
<1> SUFFICES ASSUME IInv, TimePasses PROVE IInv'
  OBVIOUS
<1> USE DEF IInv, TimePasses, tickVars, bounds, history
<1>1. TypeOK'
  BY Numbers DEF TypeOK
<1>2. PastIsPast'
  BY Numbers DEF PastIsPast, Past, TypeOK
<1> QED BY <1>1, <1>2 DEF FileAhead, CopyAhead, CopyDone, FileSeen, Past, Ticking, Due

LEMMA StutterInv == IInv /\ UNCHANGED vars => IInv'
  BY DEF IInv, vars, tickVars, bounds, history, TypeOK, PastIsPast, FileAhead, CopyAhead,
         CopyDone, FileSeen, Past, Ticking, Due

LEMMA StepInv == IInv /\ [Next]_vars => IInv'
<1> SUFFICES ASSUME IInv, [Next]_vars PROVE IInv'
  OBVIOUS
<1>1. CASE Tick
  BY <1>1, LoadRowsInv, SkipRowInv, RollRowInv, FireRowInv, SaveAfterFireInv,
     SubmitRaisesInv, EndTickInv DEF Tick
<1>2. CASE Api
  BY <1>2, PutScheduleInv, DeleteScheduleInv, RenameServerInv, RemoveServerInv DEF Api
<1>3. CASE Crash \/ Start \/ TimePasses
  BY <1>3, CrashInv, StartInv, TimePassesInv
<1>4. CASE UNCHANGED vars
  BY <1>4, StutterInv
<1> QED BY <1>1, <1>2, <1>3, <1>4 DEF Next

\* In every reachable state the file and the tick's copy of it are ahead of
\* what was fired or missed (Scheduler._tick, Scheduler.start).
THEOREM Ahead == Spec => []IInv
  BY InitInv, StepInv, PTL DEF Spec

-----------------------------------------------------------------------------
(* The theorems *)

\* schedules.json and the tick's variables have their types (Scheduler._tick).
THEOREM TypeCorrect == Spec => []TypeOK
<1>1. IInv => TypeOK
  BY DEF IInv
<1> QED BY <1>1, Ahead, PTL

\* No firing time of a schedule fires twice, whatever raises, stops or is
\* written meanwhile (Scheduler._tick, Scheduler.start).
THEOREM FiresOnce == Spec => []FiredOnce
<1>1. IInv => FiredOnce
  BY DEF IInv, FiredOnce
<1> QED BY <1>1, Ahead, PTL

\* What came due while the process was down is never fired later
\* (Scheduler.start).
THEOREM NothingCaughtUp == Spec => NoCatchUp
<1>1. IInv /\ [Next]_vars => [(fired' \ fired) \cap missed = {}]_vars
  <2> SUFFICES ASSUME IInv, [Next]_vars PROVE (fired' \ fired) \cap missed = {}
    OBVIOUS
  <2>1. CASE FireRow
    <3>1. /\ rows[at].next \in Times
          /\ \A t \in Times : <<at, t>> \in Past => rows[at].next > t
      BY <2>1, AfterRoll DEF FireRow
    <3>2. ~(rows[at].next > rows[at].next)
      <4>1. rows[at].next \in Nat
        BY <3>1, Numbers
      <4> QED BY <4>1
    <3>3. <<at, rows[at].next>> \notin Past
      BY <3>1, <3>2
    <3> QED BY <2>1, <3>3 DEF FireRow, Past
  <2>2. CASE UNCHANGED fired
    BY <2>2
  <2>3. FireRow \/ UNCHANGED fired
    BY DEF Next, Tick, Api, LoadRows, SkipRow, RollRow, SaveAfterFire, SubmitRaises, EndTick,
           PutSchedule, DeleteSchedule, RenameServer, RemoveServer, Rewrite,
           Crash, Start, TimePasses, vars, history
  <2> QED BY <2>1, <2>2, <2>3
<1> QED BY <1>1, Ahead, PTL DEF Spec, NoCatchUp

\* A tick that runs to its end leaves nothing on file that was due at its
\* start, whatever the API wrote meanwhile (Scheduler._tick).
THEOREM TicksAreThorough == Spec => TickLeavesNothingDue
<1>1. IInv => [EndTick => \A s \in Schedules : ~Due(disk'[s], tickNow)]_vars
  BY EndTickLeaves
<1> QED BY <1>1, Ahead, PTL DEF TickLeavesNothingDue
===============================================================================
