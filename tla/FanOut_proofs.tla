----------------------------- MODULE FanOut_proofs -----------------------------
(***************************************************************************)
(* Proofs about a job for several servers: its coordinator (FanOut.tla)    *)
(* and the links by which each destination finds whose account is whose    *)
(* (IdentityMap.tla), for any number of destinations, libraries, jobs,     *)
(* accounts and threads.                                                   *)
(*                                                                         *)
(* Destination workers live only while the coordinator is in its submit    *)
(* loop (Paced), how each of them ends is kept in its state (Outcomes),    *)
(* and where the pool has one slot, the list and the server id that all    *)
(* runs share are, from a belt's entry to its capture, those of the one    *)
(* destination that is at work (Serial).                                   *)
(***************************************************************************)
EXTENDS FanOut, IdentityMap, FiniteSetTheorems, WellFoundedInduction, TLAPS

-----------------------------------------------------------------------------
(* The coordinator                                                         *)

Before == {"waiting", "queued", "connect", "belt", "sections"}
InBelt == {"sections", "fetch", "append"}
Places == Before \cup InBelt \cup {"leave", "engine", "transfer", "ended"}
Ways   == {"failed", "cancelled", "completed"}

Typed ==
    /\ job \in Nat
    /\ next \in Nat
    /\ pc \in [Dests -> Places]
    /\ state \in [Dests -> {"queued", "running"} \cup Ways]
    /\ DOMAIN saved = Dests /\ DOMAIN tried = Dests
    /\ DOMAIN fetched = Dests /\ DOMAIN belt = Dests

\* A worker that has begun and not ended is one of a fan-out under way, and a
\* fan-out that sees a stop from the start begins none.
Paced ==
    /\ coord = "snapshot" => spec.kind \in Snapshots
    /\ \A d \in Dests : pc[d] \notin {"waiting", "ended"} => coord = "submit"
    /\ straggler => \A d \in Dests : pc[d] \in {"waiting", "ended"}
    /\ \A d \in Dests : d >= next => pc[d] = "waiting"

Outcomes ==
    \A d \in Dests :
        /\ pc[d] = "ended" => state[d] \in Ways
        /\ state[d] = "cancelled" => cancelled

\* What a destination's belt has read so far, as entries of the shared list.
Own(d) == {<<job, d, l>> : l \in fetched[d]}

Alone == \A d, e \in Occupied : d = e

SerialBelt(d) ==
    /\ pc[d] \in InBelt => serverId = d
    /\ pc[d] = "fetch" => payloads = Own(d)
    /\ pc[d] = "append" => payloads \cup {<<job, d, tried[d]>>} = Own(d)
    /\ pc[d] = "leave" => belt[d] = Own(d)

Serial ==
    /\ \A d \in Dests : pc[d] \in Before => fetched[d] = {}
    /\ PoolSize = 1 => Alone /\ \A d \in Dests : SerialBelt(d)

FanOutInv == /\ Typed /\ Paced /\ Outcomes /\ Serial
             /\ ReturnedMeansEverywhere /\ SerialBeltIsOwn /\ NoStaleFanOut

-----------------------------------------------------------------------------
\* A pool of one starts a worker only when no other is at work.
LEMMA SlotOfOne ==
    ASSUME SlotFree, PoolSize = 1
    PROVE  Occupied = {}
<1>1. IsFiniteSet(Occupied)
  <2>1. IsFiniteSet(Dests)
    BY FanOutAssumption, FS_Interval DEF Dests
  <2> QED BY <2>1, FS_Subset DEF Occupied
<1>2. Cardinality(Occupied) = 0
  BY <1>1, FS_CardinalityType DEF SlotFree
<1> QED BY <1>1, <1>2, FS_EmptySet

\* No destination is the empty server id.
LEMMA DestIsServer == ASSUME NEW d \in Dests PROVE d # NoServer
BY DEF Dests, NoServer

LEMMA FanOutInit == Init => FanOutInv
<1> SUFFICES ASSUME Init PROVE FanOutInv
  OBVIOUS
<1> USE DEF Init
<1>1. Typed
  BY DEF Typed, Places, Before, Ways
<1>2. Paced /\ Outcomes
  BY DEF Paced, Outcomes
<1>3. Serial
  BY DEF Serial, Alone, Occupied, SerialBelt, InBelt
<1>4. ReturnedMeansEverywhere /\ SerialBeltIsOwn /\ NoStaleFanOut
  BY DEF ReturnedMeansEverywhere, SerialBeltIsOwn, NoStaleFanOut
<1> QED BY <1>1, <1>2, <1>3, <1>4 DEF FanOutInv

-----------------------------------------------------------------------------
(* The worker thread.                                                      *)

\* A job begins when no destination of an earlier one is at work.
LEMMA KeptByStartJob ==
    ASSUME FanOutInv, StartJob
    PROVE  FanOutInv'
<1> USE DEF FanOutInv, StartJob
<1>1. Typed'
  BY DEF Typed, Places, Before, Ways
<1>2. Paced' /\ Outcomes'
  BY DEF Paced, Outcomes
<1>3. Serial'
  BY DEF Serial, Alone, Occupied, SerialBelt, InBelt
<1>4. ReturnedMeansEverywhere' /\ SerialBeltIsOwn' /\ NoStaleFanOut'
  BY DEF ReturnedMeansEverywhere, SerialBeltIsOwn, NoStaleFanOut, ClearedRegistry
<1> QED BY <1>1, <1>2, <1>3, <1>4

\* The steps of the worker thread outside the submit loop find no destination
\* at work, and leave what the destinations have.
LEMMA KeptOutsideTheLoop ==
    ASSUME FanOutInv, SnapshotJob \/ CreateResult \/ ConnectSource
    PROVE  FanOutInv'
<1> USE DEF FanOutInv
<1>1. /\ coord # "submit" /\ coord # "idle"
      /\ UNCHANGED <<job, spec, straggler, next, cancelled, pc, state, beltVars>>
      /\ coord' = "idle" /\ verdict' = "returned" => coord = "snapshot"
      /\ coord' # "snapshot"
      /\ active' \in {active, job}
  BY DEF SnapshotJob, CreateResult, ConnectSource, regVars
<1>2. \A d \in Dests : pc[d] \in {"waiting", "ended"}
  BY <1>1 DEF Paced
<1>3. Typed'
  BY <1>1 DEF Typed, beltVars
<1>4. Paced' /\ Outcomes'
  BY <1>1, <1>2 DEF Paced, Outcomes
<1>5. Occupied' = {} /\ Serial'
  BY <1>1, <1>2 DEF Serial, Alone, Occupied, SerialBelt, InBelt, beltVars
<1>6. ReturnedMeansEverywhere'
  BY <1>1 DEF ReturnedMeansEverywhere, Paced
<1>7. SerialBeltIsOwn'
  BY <1>1, <1>2 DEF SerialBeltIsOwn
<1>8. NoStaleFanOut'
  BY <1>1 DEF NoStaleFanOut
<1> QED BY <1>3, <1>4, <1>5, <1>6, <1>7, <1>8

LEMMA KeptBySubmitNext ==
    ASSUME FanOutInv, SubmitNext
    PROVE  FanOutInv'
<1> USE DEF FanOutInv, SubmitNext
<1>1. Typed'
  BY DEF Typed, Places, Before, Ways, beltVars
<1>2. \A d \in Dests : pc'[d] = pc[d] \/ pc'[d] \in {"queued", "ended"}
  BY DEF Typed
<1>3. Paced'
  BY DEF Paced, Typed
<1>4. Outcomes'
  BY DEF Outcomes, Typed, Ways
<1>5. Serial'
  <2>1. Occupied' \subseteq Occupied
    BY <1>2 DEF Occupied
  <2>2. PoolSize' = PoolSize /\ (\A d \in Dests : Own(d)' = Own(d))
    BY DEF PoolSize, Own, beltVars
  <2>3. \A d \in Dests : pc'[d] \in Before => fetched[d] = {}
    <3>1. pc[next] = "waiting"
      BY DEF Paced, Typed
    <3> QED BY <3>1 DEF Serial, Typed, Before
  <2> QED BY <1>2, <2>1, <2>2, <2>3 DEF Serial, Alone, SerialBelt, InBelt, beltVars, sharedVars
<1>6. ReturnedMeansEverywhere' /\ NoStaleFanOut'
  BY DEF ReturnedMeansEverywhere, NoStaleFanOut, regVars
<1>7. SerialBeltIsOwn'
  BY <1>2 DEF SerialBeltIsOwn, NeedsBelt, PoolSize, beltVars
<1> QED BY <1>1, <1>3, <1>4, <1>5, <1>6, <1>7

\* The finalisation, which finds every destination ended, and a grace timer.
LEMMA KeptByConclude ==
    ASSUME FanOutInv, Conclude \/ \E n \in JobNumbers : GraceTimer(n)
    PROVE  FanOutInv'
<1> USE DEF FanOutInv
<1>1. /\ UNCHANGED <<job, spec, straggler, next, cancelled, pc, state, sharedVars, beltVars>>
      /\ active' \in {0, active}
      /\ UNCHANGED <<coord, verdict>> \/ Conclude
  BY DEF Conclude, GraceTimer, coordVars
<1>2. Typed' /\ Outcomes'
  BY <1>1 DEF Typed, Outcomes, beltVars
<1>3. Paced'
  BY <1>1 DEF Paced, Conclude, AllDrained
<1>4. Serial' /\ SerialBeltIsOwn'
  <2>1. /\ Occupied' = Occupied /\ PoolSize' = PoolSize /\ NeedsBelt' = NeedsBelt
        /\ \A d \in Dests : Own(d)' = Own(d)
    BY <1>1 DEF Occupied, PoolSize, NeedsBelt, Own, beltVars
  <2>2. Serial'
    BY <1>1, <2>1 DEF Serial, Alone, SerialBelt, sharedVars, beltVars
  <2>3. SerialBeltIsOwn'
    BY <1>1, <2>1 DEF SerialBeltIsOwn, beltVars
  <2> QED BY <2>2, <2>3
<1>5. ReturnedMeansEverywhere'
  BY <1>1 DEF ReturnedMeansEverywhere, Conclude, AllDrained, VerdictOf, Outcomes, Ways
<1>6. NoStaleFanOut'
  BY <1>1 DEF NoStaleFanOut, Conclude
<1> QED BY <1>2, <1>3, <1>4, <1>5, <1>6

-----------------------------------------------------------------------------
(* The destination workers.  All their steps leave the worker thread and    *)
(* the registry alone, and come while the coordinator is in its loop.       *)

\* What a step of one destination means for it and for the others.
LEMMA DestinationStep ==
    ASSUME FanOutInv, NEW d \in Dests, Destination(d)
    PROVE  /\ coord = "submit" /\ ~straggler
           /\ UNCHANGED <<coordVars, regVars>>
           /\ \A e \in Dests \ {d} :
                 /\ pc'[e] = pc[e] /\ state'[e] = state[e]
                 /\ fetched'[e] = fetched[e] /\ belt'[e] = belt[e] /\ tried'[e] = tried[e]
           /\ pc[d] \notin {"waiting", "ended"}
<1> USE DEF FanOutInv
<1>1. pc[d] \notin {"waiting", "ended"}
  BY DEF Destination, Begin, Connect, EnterBelt, ListSections, FetchLibrary, AppendLibrary,
         CaptureBelt, LeaveBelt, StartEngine, EndEngine
<1>2. UNCHANGED <<coordVars, regVars>>
  BY DEF Destination, Begin, Connect, EnterBelt, ListSections, FetchLibrary, AppendLibrary,
         CaptureBelt, LeaveBelt, StartEngine, EndEngine
<1>3. \A e \in Dests \ {d} : pc'[e] = pc[e] /\ state'[e] = state[e]
  BY DEF Destination, Begin, Connect, EnterBelt, ListSections, FetchLibrary, AppendLibrary,
         CaptureBelt, LeaveBelt, StartEngine, EndEngine, To, Ends, Typed
<1>4. \A e \in Dests \ {d} :
         fetched'[e] = fetched[e] /\ belt'[e] = belt[e] /\ tried'[e] = tried[e]
  BY DEF Destination, Begin, Connect, EnterBelt, ListSections, FetchLibrary, AppendLibrary,
         CaptureBelt, LeaveBelt, StartEngine, EndEngine, beltVars, Typed
<1> QED BY <1>1, <1>2, <1>3, <1>4 DEF Paced

LEMMA DestinationTyped ==
    ASSUME FanOutInv, NEW d \in Dests, Destination(d)
    PROVE  Typed'
<1> USE DEF FanOutInv
<1>1. job' = job /\ next' = next
  BY DestinationStep DEF coordVars
<1>2. pc' \in [Dests -> Places]
  BY DEF Destination, Begin, Connect, EnterBelt, ListSections, FetchLibrary, AppendLibrary,
         CaptureBelt, LeaveBelt, StartEngine, EndEngine, To, Ends, Typed, Places, Before, InBelt
<1>3. state' \in [Dests -> {"queued", "running"} \cup Ways]
  BY DEF Destination, Begin, Connect, EnterBelt, ListSections, FetchLibrary, AppendLibrary,
         CaptureBelt, LeaveBelt, StartEngine, EndEngine, To, Ends, Typed, Ways, Outcome
<1>4. /\ DOMAIN saved' = Dests /\ DOMAIN tried' = Dests
      /\ DOMAIN fetched' = Dests /\ DOMAIN belt' = Dests
  BY DEF Destination, Begin, Connect, EnterBelt, ListSections, FetchLibrary, AppendLibrary,
         CaptureBelt, LeaveBelt, StartEngine, EndEngine, beltVars, Typed
<1> QED BY <1>1, <1>2, <1>3, <1>4 DEF Typed

\* A destination of a fan-out that nobody stopped ends failed or completed.
LEMMA DestinationOutcome ==
    ASSUME FanOutInv, NEW d \in Dests, Destination(d)
    PROVE  Outcomes'
<1> USE DEF FanOutInv
<1>1. UNCHANGED cancelled /\ ~straggler
  BY DestinationStep DEF coordVars
<1>2. \/ state'[d] = state[d] /\ pc'[d] # "ended"
      \/ state'[d] \in {"running", "failed", "completed"} /\ (pc'[d] = "ended" => state'[d] \in Ways)
  BY <1>1 DEF Destination, Begin, Connect, EnterBelt, ListSections, FetchLibrary, AppendLibrary,
         CaptureBelt, LeaveBelt, StartEngine, EndEngine, To, Ends, Typed, Ways, Outcome
<1> QED BY <1>1, <1>2, DestinationStep DEF Outcomes

LEMMA DestinationPaced ==
    ASSUME FanOutInv, NEW d \in Dests, Destination(d)
    PROVE  Paced'
BY DestinationStep DEF FanOutInv, Paced, coordVars

\* In a pool of one a destination at work is alone there, so the others hold
\* nothing of the list.
LEMMA OthersAreOut ==
    ASSUME FanOutInv, NEW d \in Dests, Destination(d), PoolSize = 1
    PROVE  /\ \A e \in Dests \ {d} : pc[e] \in {"waiting", "queued", "ended"}
           /\ Alone'
<1> USE DEF FanOutInv
<1>1. \A e \in Dests \ {d} : pc[e] \in {"waiting", "queued", "ended"}
  <2>1. CASE Begin(d)
    <3>1. Occupied = {}
      BY <2>1, SlotOfOne DEF Begin
    <3> QED BY <3>1 DEF Occupied
  <2>2. CASE ~Begin(d)
    <3>1. d \in Occupied
      BY <2>2, DestinationStep DEF Occupied, Destination, Connect, EnterBelt, ListSections,
         FetchLibrary, AppendLibrary, CaptureBelt, LeaveBelt, StartEngine, EndEngine
    <3> QED BY <3>1 DEF Serial, Alone, Occupied
  <2> QED BY <2>1, <2>2
<1>2. Occupied' \subseteq {d}
  BY <1>1, DestinationStep DEF Occupied
<1> QED BY <1>1, <1>2 DEF Alone

\* The belt of a destination that is alone holds what it has read.
LEMMA OwnBelt ==
    ASSUME FanOutInv, NEW d \in Dests, Destination(d), PoolSize = 1
    PROVE  SerialBelt(d)'
<1> USE DEF FanOutInv
<1>1. UNCHANGED job /\ SerialBelt(d)
  BY DestinationStep DEF coordVars, Serial
<1>2. CASE Begin(d) \/ Connect(d)
  BY <1>2 DEF Begin, Connect, To, Ends, Typed, SerialBelt, InBelt
<1>3. CASE EnterBelt(d)
  BY <1>3 DEF EnterBelt, To, Typed, SerialBelt, InBelt
<1>4. CASE ListSections(d)
  <2>1. fetched[d] = {} /\ serverId = d /\ UNCHANGED <<serverId, fetched>>
    BY <1>1, <1>4 DEF ListSections, Serial, Before, SerialBelt, InBelt, beltVars
  <2>2. \/ pc'[d] = "fetch" /\ payloads' = {}
        \/ pc'[d] = "ended"
    BY <1>4 DEF ListSections, To, Ends, Typed, Primed
  <2> QED BY <2>1, <2>2 DEF SerialBelt, Own, InBelt
<1>5. CASE FetchLibrary(d)
  <2>1. serverId = d /\ payloads = Own(d) /\ UNCHANGED sharedVars
    BY <1>1, <1>5 DEF FetchLibrary, SerialBelt, InBelt
  <2>2. CASE pc'[d] = "fetch" /\ UNCHANGED fetched
    BY <1>1, <2>1, <2>2 DEF SerialBelt, Own, InBelt, sharedVars
  <2>3. CASE /\ pc'[d] = "append" /\ fetched'[d] = fetched[d] \cup {tried'[d]}
    <3>1. Own(d)' = Own(d) \cup {<<job, d, tried'[d]>>}
      BY <1>1, <2>3 DEF Own
    <3> QED BY <1>1, <2>1, <2>3, <3>1 DEF SerialBelt, InBelt, sharedVars
  <2> QED BY <1>5, <2>1, <2>2, <2>3, DestIsServer DEF FetchLibrary, To, Typed
<1>6. CASE AppendLibrary(d)
  <2>1. /\ serverId = d /\ payloads \cup {<<job, d, tried[d]>>} = Own(d)
        /\ payloads' = payloads \cup {<<job, d, tried[d]>>}
        /\ UNCHANGED <<serverId, fetched>> /\ pc'[d] = "fetch"
    BY <1>1, <1>6 DEF AppendLibrary, SerialBelt, InBelt, To, Typed, beltVars
  <2> QED BY <1>1, <2>1 DEF SerialBelt, Own, InBelt
<1>7. CASE CaptureBelt(d)
  <2>1. payloads = Own(d) /\ pc'[d] = "leave" /\ belt'[d] = payloads /\ UNCHANGED fetched
    BY <1>1, <1>7 DEF CaptureBelt, SerialBelt, To, Typed
  <2> QED BY <1>1, <2>1 DEF SerialBelt, Own, InBelt
<1>8. CASE LeaveBelt(d) \/ StartEngine(d) \/ EndEngine(d)
  BY <1>8 DEF LeaveBelt, StartEngine, EndEngine, To, Ends, Typed, SerialBelt, InBelt
<1> QED BY <1>2, <1>3, <1>4, <1>5, <1>6, <1>7, <1>8 DEF Destination

LEMMA DestinationSerial ==
    ASSUME FanOutInv, NEW d \in Dests, Destination(d)
    PROVE  Serial'
<1> USE DEF FanOutInv
<1>1. PoolSize' = PoolSize
  BY DestinationStep DEF PoolSize, coordVars
<1>2. ASSUME NEW e \in Dests, pc'[e] \in Before PROVE fetched'[e] = {}
  <2>1. CASE e # d
    BY <1>2, <2>1, DestinationStep DEF Serial
  <2>2. CASE e = d
    <3>1. pc[d] \in Before /\ UNCHANGED fetched
      BY <1>2, <2>2 DEF Destination, Begin, Connect, EnterBelt, ListSections, FetchLibrary,
         AppendLibrary, CaptureBelt, LeaveBelt, StartEngine, EndEngine, To, Ends, Typed,
         Before, beltVars
    <3> QED BY <2>2, <3>1 DEF Serial
  <2> QED BY <2>1, <2>2
<1>3. ASSUME PoolSize = 1, NEW e \in Dests PROVE SerialBelt(e)'
  <2>1. CASE e = d
    BY <1>3, <2>1, OwnBelt
  <2>2. CASE e # d
    BY <1>3, <2>2, DestinationStep, OthersAreOut DEF SerialBelt, InBelt
  <2> QED BY <2>1, <2>2
<1> QED BY <1>1, <1>2, <1>3, OthersAreOut DEF Serial

\* An engine starts behind its belt only if the belt holds something, and
\* nothing changes the belt afterwards.
LEMMA DestinationBelt ==
    ASSUME FanOutInv, NEW d \in Dests, Destination(d)
    PROVE  SerialBeltIsOwn'
<1> USE DEF FanOutInv
<1>1. UNCHANGED <<job, spec>> /\ PoolSize' = PoolSize /\ NeedsBelt' = NeedsBelt
  BY DestinationStep DEF PoolSize, NeedsBelt, coordVars
<1> SUFFICES ASSUME NEW e \in Dests, NeedsBelt, pc'[e] \in {"engine", "transfer"}
             PROVE  /\ belt'[e] # {}
                    /\ PoolSize = 1 => belt'[e] = {<<job, e, l>> : l \in fetched'[e]}
  BY <1>1 DEF SerialBeltIsOwn
<1>2. CASE e # d
  BY <1>2, DestinationStep DEF SerialBeltIsOwn
<1>3. CASE e = d
  <2>1. \/ LeaveBelt(d) /\ BeltRegistered(d)
        \/ StartEngine(d)
    BY <1>3 DEF Destination, Begin, Connect, EnterBelt, ListSections, FetchLibrary,
       AppendLibrary, CaptureBelt, LeaveBelt, StartEngine, EndEngine, To, Ends, Typed
  <2>2. UNCHANGED beltVars
    BY <2>1 DEF LeaveBelt, StartEngine
  <2>3. CASE LeaveBelt(d) /\ BeltRegistered(d)
    BY <1>3, <2>2, <2>3 DEF LeaveBelt, BeltRegistered, Serial, SerialBelt, Own, beltVars
  <2>4. CASE StartEngine(d)
    BY <1>3, <2>2, <2>4 DEF StartEngine, SerialBeltIsOwn, beltVars
  <2> QED BY <2>1, <2>3, <2>4
<1> QED BY <1>2, <1>3

LEMMA KeptByDestination ==
    ASSUME FanOutInv, NEW d \in Dests, Destination(d)
    PROVE  FanOutInv'
<1>1. ReturnedMeansEverywhere' /\ NoStaleFanOut'
  BY DestinationStep DEF FanOutInv, ReturnedMeansEverywhere, NoStaleFanOut, coordVars, regVars
<1> QED BY <1>1, DestinationTyped, DestinationPaced, DestinationOutcome, DestinationSerial,
           DestinationBelt DEF FanOutInv

-----------------------------------------------------------------------------
LEMMA FanOutNext == FanOutInv /\ [Next]_vars => FanOutInv'
<1> SUFFICES ASSUME FanOutInv, [Next]_vars PROVE FanOutInv'
  OBVIOUS
<1>1. CASE UNCHANGED vars
  <2>1. UNCHANGED <<job, spec, coord, straggler, next, cancelled, verdict, active, pc, state,
                    sharedVars, beltVars>>
    BY <1>1 DEF vars, coordVars, regVars
  <2>2. /\ Occupied' = Occupied /\ PoolSize' = PoolSize /\ NeedsBelt' = NeedsBelt
        /\ \A d \in Dests : Own(d)' = Own(d)
    BY <2>1 DEF Occupied, PoolSize, NeedsBelt, Own, beltVars
  <2>3. Typed' /\ Paced' /\ Outcomes'
    BY <2>1 DEF FanOutInv, Typed, Paced, Outcomes, beltVars
  <2>4. Serial'
    BY <2>1, <2>2 DEF FanOutInv, Serial, Alone, SerialBelt, sharedVars, beltVars
  <2>5. ReturnedMeansEverywhere' /\ SerialBeltIsOwn' /\ NoStaleFanOut'
    BY <2>1, <2>2 DEF FanOutInv, ReturnedMeansEverywhere, SerialBeltIsOwn, NoStaleFanOut, beltVars
  <2> QED BY <2>3, <2>4, <2>5 DEF FanOutInv
<1> QED BY <1>1, KeptByStartJob, KeptOutsideTheLoop, KeptBySubmitNext, KeptByConclude,
           KeptByDestination DEF Next, Worker

\* The invariant holds always, for any mix of jobs.
LEMMA FanOutInductive == Spec => []FanOutInv
BY FanOutInit, FanOutNext, PTL DEF Spec

\* A fan-out that returns reached every destination, however many there are,
\* whichever of them fail and whatever stop was left over from another run.
THEOREM ReturnReachesAll == Spec => []ReturnedMeansEverywhere
<1>1. FanOutInv => ReturnedMeansEverywhere
  BY DEF FanOutInv
<1> QED BY <1>1, FanOutInductive, PTL

\* No Plex-native Replace starts without a belt, and one destination at a time
\* gets a belt of exactly what was read from it.
THEOREM SerialBelts == Spec => []SerialBeltIsOwn
<1>1. FanOutInv => SerialBeltIsOwn
  BY DEF FanOutInv
<1> QED BY <1>1, FanOutInductive, PTL

\* The registry never names an earlier fan-out during a job.
THEOREM RegistryIsCurrent == Spec => []NoStaleFanOut
<1>1. FanOutInv => NoStaleFanOut
  BY DEF FanOutInv
<1> QED BY <1>1, FanOutInductive, PTL

-----------------------------------------------------------------------------
(* The links between accounts                                              *)

Node == [user : Logins, slug : Nat]
Pairs == Node \X Node
LinkRow == [id : Nat, a : Node, b : Node, src : {"manual", "auto_copy"}, parent : Nat]

(* What a thread may be about to do.  What it has read stays true of the    *)
(* links there have ever been, whatever happens to the tables meanwhile.    *)
LinkTasks ==
    [at : {"insert"}, a : Node, b : Node, src : {"manual", "auto_copy"}, left : SUBSET Pairs,
     ca : SUBSET Node, cb : SUBSET Node]
    \cup [at : {"fan"}, a : Node, left : SUBSET Pairs, parent : Nat, todo : SUBSET Pairs]
    \cup [at : {"next"}, left : SUBSET Pairs]
SyncTasks == [at : {"share"}, server : Servers] \cup [at : {"sweep"}]
ClassTasks ==
    {o \in [at : {"class"}, user : Logins, value : Logins \cup {None}, cross : BOOLEAN] :
        o.value \in {o.user, None}}
FillTasks ==
    {o \in [at : {"fill"}, left : SUBSET Pairs, pin : Logins, empty : SUBSET Logins] :
        \A e \in o.empty : Joined(e, o.pin)}
SpreadTasks ==
    {o \in [at : {"spread"}, user : Logins, value : Logins \cup {None}, cross : BOOLEAN,
            class : SUBSET Node] :
        o.value \in {o.user, None} /\ \A x \in o.class : Joined(x.user, o.user)}
Tasks == {Waiting} \cup LinkTasks \cup SyncTasks \cup ClassTasks \cup FillTasks \cup SpreadTasks

LinksTyped ==
    /\ everLinked \subseteq SUBSET Logins
    /\ rows \subseteq LinkRow /\ \A r \in rows : {r.a.user, r.b.user} \in everLinked
    /\ nextId \in Nat /\ slug \in [Servers -> Nat] /\ stored \in [Logins -> Nat]
PinsJoined == pin \in [Logins -> Logins \cup {None}] /\ PinStaysInFamily
IdentityInv == LinksTyped /\ PinsJoined /\ op \in [Threads -> Tasks]

(* A pair once linked stays linked in the history, so what was joined stays *)
(* joined.                                                                  *)
LEMMA JoinedGrows ==
    ASSUME everLinked \subseteq everLinked'
    PROVE  /\ \A u, v : Joined(u, v) => Joined(u, v)'
           /\ Tasks \subseteq Tasks'
<1>1. \A u, v : Joined(u, v) => Joined(u, v)'
  BY DEF Joined
<1>2. FillTasks \subseteq FillTasks'
  BY <1>1 DEF FillTasks
<1>3. SpreadTasks \subseteq SpreadTasks'
  BY <1>1 DEF SpreadTasks
<1> QED
  BY <1>1, <1>2, <1>3 DEF Tasks

LEMMA JoinedBack ==
    ASSUME everLinked \subseteq SUBSET Logins, NEW u \in Logins, NEW v \in Logins, Joined(u, v)
    PROVE  Joined(v, u)
<1> SUFFICES ASSUME NEW S \in SUBSET Logins, v \in S, \A p \in everLinked : ~Splits(S, p), u \notin S
             PROVE  FALSE
  BY DEF Joined
<1> DEFINE T == Logins \ S
<1>1. \A p \in everLinked : ~Splits(T, p)
  BY DEF Splits
<1>2. u \in T /\ T \in SUBSET Logins
  OBVIOUS
<1> HIDE DEF T
<1>3. v \in T
  BY <1>1, <1>2 DEF Joined
<1> QED
  BY <1>3 DEF T

LEMMA JoinedOn ==
    ASSUME NEW u, NEW v, NEW w, Joined(u, v), Joined(v, w) PROVE Joined(u, w)
BY DEF Joined

LEMMA JoinedSelf == \A u : Joined(u, u)
BY DEF Joined

(* A class read from the links holds none but accounts joined to the one    *)
(* it was read for.                                                         *)
LEMMA ClassJoined ==
    ASSUME LinksTyped, NEW x \in Node, NEW y \in Class(rows, x)
    PROVE  y \in Node /\ Joined(y.user, x.user)
<1> DEFINE nodes == {x} \cup EndsOf(rows)
<1>1. nodes \subseteq Node /\ y \in nodes
  BY DEF Class, EndsOf, LinksTyped, LinkRow
<1>2. ASSUME NEW T \in SUBSET nodes, x \in T, \A r \in rows : r.a \in T <=> r.b \in T
      PROVE  y \in T
  BY <1>2 DEF Class
<1>3. ASSUME NEW S \in SUBSET Logins, y.user \in S, \A p \in everLinked : ~Splits(S, p),
             x.user \notin S
      PROVE  FALSE
  <2> DEFINE T == {z \in nodes : z.user \notin S}
  <2>1. ASSUME NEW r \in rows PROVE r.a \in T <=> r.b \in T
    <3>1. r.a \in nodes /\ r.b \in nodes
      BY DEF EndsOf
    <3>2. r.a.user \in S <=> r.b.user \in S
      <4> DEFINE p == {r.a.user, r.b.user}
      <4>1. ~Splits(S, p)
        BY <1>3 DEF LinksTyped
      <4>2. r.a.user \in p /\ r.b.user \in p
        OBVIOUS
      <4>3. p \cap S = {} \/ p \subseteq S
        BY <4>1 DEF Splits
      <4> HIDE DEF p
      <4> QED BY <4>2, <4>3
    <3> QED BY <3>1, <3>2
  <2>2. x \in T /\ T \in SUBSET nodes
    BY <1>3
  <2>3. y \in T
    BY <1>2, <2>1, <2>2
  <2> QED BY <1>3, <2>3
<1> QED
  BY <1>1, <1>3 DEF Joined

LEMMA UuidTyped ==
    ASSUME LinksTyped, NEW u \in Logins PROVE Uuid(u) \in Node /\ Uuid(u).user = u
BY DEF Uuid, Node, LinksTyped

LEMMA IdentityInitHolds == IdentityInit => IdentityInv
<1> SUFFICES ASSUME IdentityInit PROVE IdentityInv
  OBVIOUS
<1> USE DEF IdentityInit
<1>1. LinksTyped
  BY IdentityAssumption DEF LinksTyped
<1>2. PinsJoined
  BY DEF PinsJoined, PinStaysInFamily
<1>3. op \in [Threads -> Tasks]
  BY DEF Tasks
<1> QED
  BY <1>1, <1>2, <1>3 DEF IdentityInv

(* Steps that leave the tables alone, and those that only add a link.       *)
LEMMA TaskKeeps ==
    ASSUME IdentityInv, NEW t \in Threads, NEW o \in Tasks', op' = [op EXCEPT ![t] = o],
           everLinked \subseteq everLinked', LinksTyped', PinsJoined'
    PROVE  IdentityInv'
<1>1. op \in [Threads -> Tasks'] 
  BY JoinedGrows DEF IdentityInv
<1>2. op' \in [Threads -> Tasks']
  BY <1>1
<1> QED
  BY <1>2 DEF IdentityInv

LEMMA SameTables ==
    ASSUME IdentityInv, UNCHANGED <<rows, nextId, slug, stored, pin, everLinked>>
    PROVE  /\ LinksTyped /\ PinsJoined /\ op \in [Threads -> Tasks]
           /\ LinksTyped' /\ PinsJoined' /\ everLinked \subseteq everLinked' /\ Tasks' = Tasks
BY DEF IdentityInv, LinksTyped, PinsJoined, PinStaysInFamily, Joined, Tasks, FillTasks, SpreadTasks

LEMMA InsertRowKeeps ==
    ASSUME IdentityInv, NEW p \in Pairs, NEW src \in {"manual", "auto_copy"}, NEW parent \in Nat,
           InsertRow(p, src, parent), UNCHANGED <<slug, stored, pin>>
    PROVE  LinksTyped' /\ PinsJoined' /\ everLinked \subseteq everLinked'
<1>1. p[1] \in Node /\ p[2] \in Node /\ {p[1].user, p[2].user} \subseteq Logins
  BY DEF Pairs, Node
<1>2. everLinked \subseteq everLinked'
  BY DEF InsertRow
<1>3. LinksTyped'
  <2>1. CASE UNCHANGED <<rows, nextId, everLinked>>
    BY <2>1 DEF IdentityInv, LinksTyped
  <2> DEFINE new == [id |-> nextId, a |-> p[1], b |-> p[2], src |-> src, parent |-> parent]
  <2>2. CASE /\ rows' = rows \cup {new} /\ nextId' = nextId + 1
             /\ everLinked' = everLinked \cup {{p[1].user, p[2].user}}
    <3>1. new \in LinkRow /\ new.a = p[1] /\ new.b = p[2]
      BY <1>1 DEF IdentityInv, LinksTyped, LinkRow
    <3> HIDE DEF new
    <3> QED BY <1>1, <2>2, <3>1 DEF IdentityInv, LinksTyped
  <2> QED BY <2>1, <2>2 DEF InsertRow
<1>4. PinsJoined'
  BY <1>2, JoinedGrows DEF IdentityInv, PinsJoined, PinStaysInFamily
<1> QED
  BY <1>2, <1>3, <1>4

LEMMA ReadTyped ==
    ASSUME LinksTyped, NEW x \in Node, NEW y \in Node, NEW src \in {"manual", "auto_copy"},
           NEW more \in SUBSET Pairs
    PROVE  [at |-> "insert", a |-> x, b |-> y, src |-> src, left |-> more,
            ca |-> Class(rows, x), cb |-> Class(rows, y)] \in Tasks
<1>1. Class(rows, x) \in SUBSET Node /\ Class(rows, y) \in SUBSET Node
  BY ClassJoined
<1> QED
  BY <1>1 DEF Tasks, LinkTasks

LEMMA LinkKeeps ==
    ASSUME IdentityInv, NEW t \in Threads, NEW u \in Logins, NEW v \in Logins, Link(t, u, v)
    PROVE  IdentityInv'
<1>1. /\ LinksTyped /\ PinsJoined /\ LinksTyped' /\ PinsJoined'
      /\ everLinked \subseteq everLinked' /\ Tasks' = Tasks
  BY SameTables DEF Link
<1>2. Uuid(u) \in Node /\ Uuid(v) \in Node
  BY <1>1, UuidTyped
<1> DEFINE o == [at |-> "insert", a |-> Uuid(u), b |-> Uuid(v), src |-> "manual", left |-> {},
                 ca |-> Class(rows, Uuid(u)), cb |-> Class(rows, Uuid(v))]
<1>3. o \in Tasks'
  BY <1>1, <1>2, ReadTyped
<1>4. op' = [op EXCEPT ![t] = o]
  BY DEF Link, Read
<1> HIDE DEF o
<1> QED
  BY <1>1, <1>3, <1>4, TaskKeeps

LEMMA CanonicalTyped ==
    ASSUME NEW x \in Node, NEW y \in Node PROVE Canonical(x, y) \in Pairs
BY DEF Canonical, Pairs

(* What a thread is about to do tells what it has in hand.                  *)
FanTask == [at : {"fan"}, a : Node, left : SUBSET Pairs, parent : Nat, todo : SUBSET Pairs]

LEMMA TaskIs ==
    ASSUME IdentityInv, NEW t \in Threads
    PROVE  /\ op[t].at = "insert" =>
                 /\ op[t].a \in Node /\ op[t].b \in Node /\ op[t].left \in SUBSET Pairs
                 /\ op[t].ca \in SUBSET Node /\ op[t].cb \in SUBSET Node
                 /\ op[t].src \in {"manual", "auto_copy"}
           /\ op[t].at = "fan" => op[t] \in FanTask
           /\ op[t].at = "next" => op[t].left \in SUBSET Pairs
           /\ op[t].at = "fill" => op[t] \in FillTasks
           /\ op[t].at = "class" => op[t] \in ClassTasks
           /\ op[t].at = "spread" => op[t] \in SpreadTasks
<1> DEFINE o == op[t]
<1>1. o \in Tasks
  BY DEF IdentityInv
<1> HIDE DEF o
<1>2. CASE o = Waiting  BY <1>2 DEF Waiting, o
<1>3. CASE o \in LinkTasks  BY <1>3 DEF LinkTasks, FanTask, o
<1>4. CASE o \in SyncTasks  BY <1>4 DEF SyncTasks, o
<1>5. CASE o \in ClassTasks  BY <1>5 DEF ClassTasks, o
<1>6. CASE o \in FillTasks  BY <1>6 DEF FillTasks, o
<1>7. CASE o \in SpreadTasks  BY <1>7 DEF SpreadTasks, o
<1> QED
  BY <1>1, <1>2, <1>3, <1>4, <1>5, <1>6, <1>7 DEF Tasks

LEMMA InsertKeeps ==
    ASSUME IdentityInv, NEW t \in Threads, Insert(t) PROVE IdentityInv'
<1> DEFINE p == Canonical(op[t].a, op[t].b)
           id == IF RowsOf(rows, p) = {} THEN nextId ELSE (CHOOSE r \in RowsOf(rows, p) : TRUE).id
           o == [at |-> "fan", a |-> op[t].a, left |-> op[t].left, parent |-> id,
                 todo |-> FanPairs(op[t])]
<1>1. /\ op[t].a \in Node /\ op[t].b \in Node /\ op[t].left \in SUBSET Pairs
      /\ op[t].ca \in SUBSET Node /\ op[t].cb \in SUBSET Node /\ op[t].src \in {"manual", "auto_copy"}
  BY TaskIs DEF Insert
<1>2. p \in Pairs
  BY <1>1, CanonicalTyped
<1>3. /\ InsertRow(p, op[t].src, 0) /\ op' = [op EXCEPT ![t] = o]
      /\ UNCHANGED <<slug, stored, pin>>
  BY DEF Insert
<1>4. id \in Nat
  BY DEF IdentityInv, LinksTyped, RowsOf, LinkRow
<1>5. FanPairs(op[t]) \in SUBSET Pairs
  BY <1>1, CanonicalTyped DEF FanPairs
<1> HIDE DEF p, id
<1>6. o \in Tasks'
  <2>1. o \in LinkTasks
    BY <1>1, <1>4, <1>5 DEF LinkTasks
  <2> QED BY <2>1 DEF Tasks
<1> HIDE DEF o
<1>7. LinksTyped' /\ PinsJoined' /\ everLinked \subseteq everLinked'
  BY <1>1, <1>2, <1>3, InsertRowKeeps
<1> QED
  BY <1>3, <1>6, <1>7, TaskKeeps

LEMMA FanKeeps ==
    ASSUME IdentityInv, NEW t \in Threads, Fan(t) PROVE IdentityInv'
<1>1. PICK p \in op[t].todo :
        /\ InsertRow(p, "auto_copy", op[t].parent) /\ op' = [op EXCEPT ![t].todo = @ \ {p}]
        /\ UNCHANGED <<slug, stored, pin>>
  BY DEF Fan
<1>2. op[t] \in FanTask
  BY TaskIs DEF Fan
<1>3. LinksTyped' /\ PinsJoined' /\ everLinked \subseteq everLinked'
  <2>1. p \in Pairs /\ op[t].parent \in Nat
    BY <1>2 DEF FanTask
  <2> QED BY <1>1, <2>1, InsertRowKeeps
<1> DEFINE o == [op[t] EXCEPT !.todo = @ \ {p}]
<1>4. o \in FanTask
  BY <1>2 DEF FanTask
<1>5. o \in Tasks'
  BY <1>4 DEF Tasks, LinkTasks, FanTask
<1>6. op' = [op EXCEPT ![t] = o]
  BY <1>1
<1> HIDE DEF o
<1> QED
  BY <1>3, <1>5, <1>6, TaskKeeps

LEMMA HoldersJoined ==
    ASSUME LinksTyped, NEW x \in Node, NEW u \in Holders(Class(rows, x))
    PROVE  u \in Logins /\ Joined(u, x.user)
<1>1. PICK y \in Class(rows, x) : u = y.user
  BY DEF Holders
<1> QED
  BY <1>1, ClassJoined DEF Node

LEMMA FillReadKeeps ==
    ASSUME IdentityInv, NEW t \in Threads, FillRead(t) PROVE IdentityInv'
<1> DEFINE held == Holders(Class(rows, op[t].a))
           typed == {u \in held : pin[u] # None}
<1>1. /\ LinksTyped /\ PinsJoined /\ LinksTyped' /\ PinsJoined'
      /\ everLinked \subseteq everLinked' /\ Tasks' = Tasks
  BY SameTables DEF FillRead
<1>2. op[t].a \in Node /\ op[t].left \in SUBSET Pairs
  BY TaskIs DEF FillRead, FanTask
<1>3. \A u \in held : u \in Logins /\ Joined(u, op[t].a.user)
  BY <1>1, <1>2, HoldersJoined
<1>4. CASE op' = [op EXCEPT ![t] = [at |-> "next", left |-> op[t].left]]
  <2>1. [at |-> "next", left |-> op[t].left] \in Tasks'
    BY <1>1, <1>2 DEF Tasks, LinkTasks
  <2> QED BY <1>1, <1>4, <2>1, TaskKeeps
<1>5. ASSUME NEW u \in typed,
             op' = [op EXCEPT ![t] = [at |-> "fill", left |-> op[t].left, pin |-> pin[u],
                                      empty |-> held \ typed]]
      PROVE  IdentityInv'
  <2> HIDE DEF held
  <2> DEFINE o == [at |-> "fill", left |-> op[t].left, pin |-> pin[u], empty |-> held \ typed]
  <2>1. u \in Logins /\ pin[u] \in Logins /\ Joined(u, pin[u])
    BY <1>1, <1>3, <1>5 DEF PinsJoined, PinStaysInFamily
  <2>2. op[t].a.user \in Logins
    BY <1>2 DEF Node
  <2>3. Joined(op[t].a.user, pin[u])
    BY <1>1, <1>3, <1>5, <2>1, <2>2, JoinedBack, JoinedOn DEF LinksTyped
  <2>4. \A e \in held : Joined(e, pin[u])
    BY <1>3, <2>3, JoinedOn
  <2>5. o \in FillTasks
    BY <1>2, <1>3, <2>1, <2>4 DEF FillTasks
  <2>6. o \in Tasks'
    BY <1>1, <2>5 DEF Tasks
  <2> QED BY <1>1, <1>5, <2>6, TaskKeeps
<1> QED
  BY <1>4, <1>5 DEF FillRead

LEMMA FillWriteKeeps ==
    ASSUME IdentityInv, NEW t \in Threads, FillWrite(t) PROVE IdentityInv'
<1> DEFINE o == [at |-> "next", left |-> op[t].left]
<1>1. op[t] \in FillTasks
  BY TaskIs DEF FillWrite
<1>2. o \in Tasks'
  BY <1>1 DEF FillTasks, Tasks, LinkTasks
<1>3. /\ op' = [op EXCEPT ![t] = o] /\ UNCHANGED <<rows, nextId, slug, stored, everLinked>>
      /\ pin' = [u \in Logins |-> IF u \in op[t].empty THEN op[t].pin ELSE pin[u]]
  BY DEF FillWrite
<1>4. LinksTyped'
  BY <1>3 DEF LinksTyped, IdentityInv
<1>5. PinsJoined'
  <2>1. op[t].pin \in Logins /\ \A e \in op[t].empty : Joined(e, op[t].pin)
    BY <1>1 DEF FillTasks
  <2>2. pin' \in [Logins -> Logins \cup {None}]
    BY <1>3, <2>1 DEF IdentityInv, PinsJoined
  <2>3. PinStaysInFamily'
    BY <1>3, <2>1 DEF IdentityInv, PinsJoined, PinStaysInFamily, Joined
  <2> QED BY <2>2, <2>3 DEF PinsJoined
<1> HIDE DEF o
<1> QED
  BY <1>2, <1>3, <1>4, <1>5, TaskKeeps

LEMMA NextPairKeeps ==
    ASSUME IdentityInv, NEW t \in Threads, NextPair(t) PROVE IdentityInv'
<1>1. /\ LinksTyped /\ PinsJoined /\ LinksTyped' /\ PinsJoined'
      /\ everLinked \subseteq everLinked' /\ Tasks' = Tasks
  BY SameTables DEF NextPair, Read
<1>2. op[t].left \in SUBSET Pairs
  BY TaskIs DEF NextPair
<1>3. CASE op' = [op EXCEPT ![t] = Waiting]
  BY <1>1, <1>3, TaskKeeps DEF Tasks
<1>4. ASSUME NEW p \in op[t].left, Read(t, p[1], p[2], "auto_copy", op[t].left \ {p})
      PROVE  IdentityInv'
  <2> DEFINE o == [at |-> "insert", a |-> p[1], b |-> p[2], src |-> "auto_copy",
                   left |-> op[t].left \ {p}, ca |-> Class(rows, p[1]), cb |-> Class(rows, p[2])]
  <2>1. p[1] \in Node /\ p[2] \in Node /\ op[t].left \ {p} \in SUBSET Pairs
    BY <1>2 DEF Pairs
  <2>2. o \in Tasks'
    BY <1>1, <2>1, ReadTyped
  <2>3. op' = [op EXCEPT ![t] = o]
    BY <1>4 DEF Read
  <2> HIDE DEF o
  <2> QED BY <1>1, <2>2, <2>3, TaskKeeps
<1> QED
  BY <1>3, <1>4 DEF NextPair

LEMMA UpsertKeeps ==
    ASSUME IdentityInv, NEW t \in Threads, NEW s \in Servers, Upsert(t, s) PROVE IdentityInv'
<1> DEFINE o == [at |-> "share", server |-> s]
<1>1. /\ op' = [op EXCEPT ![t] = o] /\ UNCHANGED <<rows, nextId, slug, pin, everLinked>>
      /\ stored' = [u \in Logins |-> UuidSlug(u, s)]
  BY DEF Upsert
<1>2. o \in Tasks'
  BY DEF Tasks, SyncTasks
<1>3. LinksTyped'
  BY <1>1 DEF LinksTyped, IdentityInv, UuidSlug
<1>4. PinsJoined'
  BY <1>1 DEF IdentityInv, PinsJoined, PinStaysInFamily, Joined
<1> HIDE DEF o
<1> QED
  BY <1>1, <1>2, <1>3, <1>4, TaskKeeps

LEMMA SyncStepsKeep ==
    ASSUME IdentityInv, NEW t \in Threads, RefreshShares(t) \/ Sweep(t) PROVE IdentityInv'
<1>1. /\ LinksTyped /\ PinsJoined /\ LinksTyped' /\ PinsJoined'
      /\ everLinked \subseteq everLinked' /\ Tasks' = Tasks
  BY SameTables DEF RefreshShares, Sweep
<1>2. CASE RefreshShares(t)
  <2>1. [at |-> "sweep"] \in Tasks'
    BY DEF Tasks, SyncTasks
  <2> QED BY <1>1, <1>2, <2>1, TaskKeeps DEF RefreshShares
<1>3. CASE Sweep(t)
  <2> DEFINE pairs == {<<Uuid(p[1]), Uuid(p[2])>> : p \in SweepPairs}
  <2>1. pairs \in SUBSET Pairs
    BY <1>1, UuidTyped DEF SweepPairs, Pairs
  <2>2. op' = [op EXCEPT ![t] = [at |-> "next", left |-> pairs]]
    BY <1>3 DEF Sweep
  <2> HIDE DEF pairs
  <2>3. [at |-> "next", left |-> pairs] \in Tasks'
    BY <2>1 DEF Tasks, LinkTasks
  <2> QED BY <1>1, <2>2, <2>3, TaskKeeps
<1> QED
  BY <1>2, <1>3

LEMMA SetPinKeeps ==
    ASSUME IdentityInv, NEW t \in Threads, NEW u \in Logins, NEW cross \in BOOLEAN,
           NEW value \in {u, None}, SetPin(t, u, value, cross)
    PROVE  IdentityInv'
<1> DEFINE o == [at |-> "class", user |-> u, value |-> value, cross |-> cross]
<1>1. /\ op' = [op EXCEPT ![t] = o] /\ UNCHANGED <<rows, nextId, slug, stored, everLinked>>
      /\ pin' = [pin EXCEPT ![u] = value]
  BY DEF SetPin
<1>2. o \in Tasks'
  BY DEF Tasks, ClassTasks
<1>3. LinksTyped'
  BY <1>1 DEF LinksTyped, IdentityInv
<1>4. PinsJoined'
  <2>1. pin' \in [Logins -> Logins \cup {None}]
    BY <1>1 DEF IdentityInv, PinsJoined
  <2>2. PinStaysInFamily'
    BY <1>1, JoinedSelf DEF IdentityInv, PinsJoined, PinStaysInFamily, Joined
  <2> QED BY <2>1, <2>2 DEF PinsJoined
<1> HIDE DEF o
<1> QED
  BY <1>1, <1>2, <1>3, <1>4, TaskKeeps

LEMMA FindLinkedKeeps ==
    ASSUME IdentityInv, NEW t \in Threads, FindLinked(t) PROVE IdentityInv'
<1> DEFINE x == Uuid(op[t].user)
           o == [at |-> "spread", user |-> op[t].user, value |-> op[t].value,
                 cross |-> op[t].cross, class |-> Class(rows, x)]
<1>1. /\ LinksTyped /\ PinsJoined /\ LinksTyped' /\ PinsJoined'
      /\ everLinked \subseteq everLinked' /\ Tasks' = Tasks
  BY SameTables DEF FindLinked
<1>2. op[t] \in ClassTasks
  BY TaskIs DEF FindLinked
<1>3. op[t].user \in Logins
  BY <1>2 DEF ClassTasks
<1>4. x \in Node /\ x.user = op[t].user
  BY <1>1, <1>3, UuidTyped
<1>5. \A y \in Class(rows, x) : y \in Node /\ Joined(y.user, op[t].user)
  BY <1>1, <1>4, ClassJoined
<1>6. op' = [op EXCEPT ![t] = o]
  BY DEF FindLinked
<1> HIDE DEF x
<1>7. o \in SpreadTasks
  BY <1>2, <1>5 DEF SpreadTasks, ClassTasks
<1>8. o \in Tasks'
  BY <1>1, <1>7 DEF Tasks
<1> HIDE DEF o
<1> QED
  BY <1>1, <1>6, <1>8, TaskKeeps

LEMMA SpreadKeeps ==
    ASSUME IdentityInv, NEW t \in Threads, Spread(t) PROVE IdentityInv'
<1>1. op[t] \in SpreadTasks
  BY TaskIs DEF Spread
<1>2. /\ op' = [op EXCEPT ![t] = Waiting] /\ UNCHANGED <<rows, nextId, slug, stored, everLinked>>
      /\ pin' = [u \in Logins |-> IF u \in Reached(op[t]) \ {op[t].user}
                                   THEN op[t].value ELSE pin[u]]
  BY DEF Spread
<1>3. \A u \in Reached(op[t]) : Joined(u, op[t].user)
  BY <1>1 DEF Reached, Holders, SpreadTasks
<1>4. op[t].user \in Logins /\ op[t].value \in {op[t].user, None}
  BY <1>1 DEF SpreadTasks
<1>5. LinksTyped'
  BY <1>2 DEF LinksTyped, IdentityInv
<1>6. PinsJoined'
  <2>1. pin' \in [Logins -> Logins \cup {None}]
    BY <1>2, <1>4 DEF IdentityInv, PinsJoined
  <2>2. PinStaysInFamily'
    BY <1>2, <1>3, <1>4 DEF IdentityInv, PinsJoined, PinStaysInFamily, Joined
  <2> QED BY <2>1, <2>2 DEF PinsJoined
<1>7. Waiting \in Tasks'
  BY DEF Tasks
<1> QED
  BY <1>2, <1>5, <1>6, <1>7, TaskKeeps

(* The steps of the tables themselves: no thread is told.                   *)
LEMMA UnlinkKeeps ==
    ASSUME IdentityInv, NEW id, Unlink(id) PROVE IdentityInv'
<1>1. rows' \subseteq rows /\ UNCHANGED <<nextId, slug, stored, pin, op, everLinked>>
  BY DEF Unlink, Without
<1>2. LinksTyped'
  BY <1>1 DEF LinksTyped, IdentityInv
<1>3. PinsJoined' /\ op' \in [Threads -> Tasks']
  BY <1>1, JoinedGrows DEF IdentityInv, PinsJoined, PinStaysInFamily
<1> QED
  BY <1>2, <1>3 DEF IdentityInv

LEMMA RenameServerKeeps ==
    ASSUME IdentityInv, NEW s \in Servers, NEW n \in Slugs, RenameServer(s, n) PROVE IdentityInv'
<1>1. /\ UNCHANGED <<nextId, pin, op, everLinked>> /\ n \in Nat
      /\ slug' = [slug EXCEPT ![s] = n] /\ rows' \subseteq RenamedRows(s, n)
      /\ stored' = [u \in Logins |-> IF ServerOf[u] = s /\ stored[u] # 0 THEN n ELSE stored[u]]
  BY IdentityAssumption DEF RenameServer, RenamedRows
<1>2. \A x \in Node : Renamed(x, s, n) \in Node /\ Renamed(x, s, n).user = x.user
  BY <1>1 DEF Renamed, Node
<1>3. \A r \in RenamedRows(s, n) : r \in LinkRow /\ {r.a.user, r.b.user} \in everLinked
  <2> SUFFICES ASSUME NEW q \in rows
               PROVE  LET r == [q EXCEPT !.a = Renamed(@, s, n), !.b = Renamed(@, s, n)]
                      IN  r \in LinkRow /\ {r.a.user, r.b.user} \in everLinked
    BY DEF RenamedRows
  <2>1. q \in LinkRow /\ {q.a.user, q.b.user} \in everLinked
    BY DEF IdentityInv, LinksTyped
  <2> QED
    BY <1>2, <2>1 DEF LinkRow
<1>4. LinksTyped'
  BY <1>1, <1>3 DEF LinksTyped, IdentityInv
<1>5. PinsJoined' /\ op' \in [Threads -> Tasks']
  BY <1>1, JoinedGrows DEF IdentityInv, PinsJoined, PinStaysInFamily
<1> QED
  BY <1>4, <1>5 DEF IdentityInv

LEMMA RestartKeeps == IdentityInv /\ Restart => IdentityInv'
<1> SUFFICES ASSUME IdentityInv, Restart PROVE IdentityInv'
  OBVIOUS
<1>1. LinksTyped' /\ PinsJoined' /\ Tasks' = Tasks
  BY SameTables DEF Restart
<1>2. op' \in [Threads -> Tasks']
  BY DEF Restart, Tasks
<1> QED
  BY <1>1, <1>2 DEF IdentityInv

LEMMA IdentityKeeps == IdentityInv /\ [IdentityNext]_identityVars => IdentityInv'
<1> SUFFICES ASSUME IdentityInv, [IdentityNext]_identityVars PROVE IdentityInv'
  OBVIOUS
<1>1. CASE UNCHANGED identityVars
  BY <1>1, SameTables DEF IdentityInv, identityVars
<1>2. ASSUME NEW t \in Threads, NEW u \in Logins, NEW v \in Logins, Link(t, u, v) PROVE IdentityInv'
  BY <1>2, LinkKeeps
<1>3. ASSUME NEW t \in Threads, Insert(t) \/ Fan(t) \/ FillRead(t) \/ FillWrite(t) \/ NextPair(t)
      PROVE  IdentityInv'
  BY <1>3, InsertKeeps, FanKeeps, FillReadKeeps, FillWriteKeeps, NextPairKeeps
<1>4. ASSUME NEW t \in Threads, NEW s \in Servers, Upsert(t, s) PROVE IdentityInv'
  BY <1>4, UpsertKeeps
<1>5. ASSUME NEW t \in Threads, RefreshShares(t) \/ Sweep(t) \/ FindLinked(t) \/ Spread(t)
      PROVE  IdentityInv'
  BY <1>5, SyncStepsKeep, FindLinkedKeeps, SpreadKeeps
<1>6. ASSUME NEW t \in Threads, NEW u \in Logins, NEW cross \in BOOLEAN,
             NEW value \in {u, None}, SetPin(t, u, value, cross)
      PROVE  IdentityInv'
  BY <1>6, SetPinKeeps
<1>7. ASSUME NEW id \in 1..(nextId - 1), Unlink(id) PROVE IdentityInv'
  BY <1>7, UnlinkKeeps
<1>8. ASSUME NEW s \in Servers, NEW n \in Slugs, RenameServer(s, n) PROVE IdentityInv'
  BY <1>8, RenameServerKeeps
<1>9. CASE Restart
  BY <1>9, RestartKeeps
<1> QED
  BY <1>1, <1>2, <1>3, <1>4, <1>5, <1>6, <1>7, <1>8, <1>9 DEF IdentityNext

(* Whatever interleaves, a PIN is only ever on the account it was typed for *)
(* or on one that a chain of links has at some time joined to it.           *)
THEOREM PinsStayInFamily == IdentitySpec => []PinStaysInFamily
<1>1. IdentityInv => PinStaysInFamily
  BY DEF IdentityInv, PinsJoined
<1> QED
  BY <1>1, IdentityInitHolds, IdentityKeeps, PTL DEF IdentitySpec

-----------------------------------------------------------------------------
(* The family a restore finds                                              *)

LEMMA LeastNumber ==
    ASSUME NEW T \in SUBSET Nat, T # {} PROVE \E x \in T : \A y \in T : x <= y
<1>1. PICK x \in T : \A y \in T : ~ (<<y, x>> \in OpToRel(<, Nat))
  BY NatLessThanWellFounded, WFMin
<1>2. \A y \in T : y \in Nat /\ ~(y < x)
  BY <1>1 DEF OpToRel
<1>3. \A y \in T : x <= y
  BY <1>2
<1> QED BY <1>3

(* Where nothing was unlinked and no two operations overlapped, every name  *)
(* in a link is the one its account has now, and the links, with those the  *)
(* fan-out at hand still owes, are transitive: every two accounts of a      *)
(* family are linked directly.                                              *)
Current(x) == Bears(x) /\ x.slug # 0
Distinct(p) == Current(p[1]) /\ Current(p[2]) /\ p[1].user # p[2].user
Only(t) == \A q \in Threads \ {t} : op[q] = Waiting

RowTies == UNION {{<<r.a.user, r.b.user>>, <<r.b.user, r.a.user>>} : r \in rows}
TiesOf(owes) == UNION {{<<p[1].user, p[2].user>>, <<p[2].user, p[1].user>>} : p \in owes}
Owed == UNION {op[t].todo : t \in {t \in Threads : op[t].at = "fan"}}
Transitive(T) ==
    \A u, v, w \in Logins : <<u, v>> \in T /\ <<v, w>> \in T /\ u # w => <<u, w>> \in T

RowsCurrent ==
    /\ \A r \in rows : Distinct(<<r.a, r.b>>)
    /\ \A r, q \in rows : r.a = q.a /\ r.b = q.b => r = q
TaskCurrent(o) ==
    /\ o.at = "insert" => /\ Distinct(<<o.a, o.b>>)
                          /\ o.ca = Class(rows, o.a) /\ o.cb = Class(rows, o.b)
    /\ o.at = "fan" => \A p \in o.todo : Distinct(p)
    /\ o.at \in {"insert", "fan", "fill", "next"} => \A p \in o.left : Distinct(p)
InTurn ==
    ~torn => /\ RowsCurrent /\ Transitive(RowTies \cup TiesOf(Owed))
             /\ \A t \in Threads : (op[t] # Waiting => Only(t)) /\ TaskCurrent(op[t])

LEMMA NodeIs ==
    ASSUME NEW x \in Node, NEW y \in Node, Bears(x), Bears(y), x.user = y.user PROVE x = y
BY DEF Node, Bears

LEMMA TiesBack ==
    /\ \A u, v : <<u, v>> \in RowTies => <<v, u>> \in RowTies
    /\ \A u, v : <<u, v>> \in RowTies <=>
          \E r \in rows : (r.a.user = u /\ r.b.user = v) \/ (r.a.user = v /\ r.b.user = u)
    /\ \A owes, u, v : <<u, v>> \in TiesOf(owes) <=>
          \E p \in owes : (p[1].user = u /\ p[2].user = v) \/ (p[1].user = v /\ p[2].user = u)
BY DEF RowTies, TiesOf

(* In a transitive table a class is an account and its direct neighbours.   *)
LEMMA ClassIs ==
    ASSUME LinksTyped, RowsCurrent, Transitive(RowTies), NEW x \in Node, Bears(x)
    PROVE  /\ \A y \in Class(rows, x) : y \in Node /\ Bears(y)
           /\ \A y \in Node : Bears(y) =>
                 (y \in Class(rows, x) <=> y = x \/ <<x.user, y.user>> \in RowTies)
<1> DEFINE near == {x} \cup {y \in EndsOf(rows) : <<x.user, y.user>> \in RowTies}
<1>1. \A r \in rows : /\ r.a \in Node /\ r.b \in Node /\ Bears(r.a) /\ Bears(r.b)
                      /\ r.a \in EndsOf(rows) /\ r.b \in EndsOf(rows) /\ r.a.user # r.b.user
                      /\ r.a.user \in Logins /\ r.b.user \in Logins
                      /\ <<r.a.user, r.b.user>> \in RowTies /\ <<r.b.user, r.a.user>> \in RowTies
  BY TiesBack DEF RowsCurrent, Distinct, Current, LinksTyped, LinkRow, EndsOf, Node
<1>2. \A y \in EndsOf(rows) : y \in Node /\ Bears(y) /\ y.user \in Logins
  BY <1>1 DEF EndsOf
<1>3. x.user \in Logins
  BY DEF Node
<1>4. ASSUME NEW r \in rows PROVE r.a \in near <=> r.b \in near
  <2>1. CASE r.a = x \/ r.b = x
    BY <1>1, <2>1
  <2>2. CASE r.a # x /\ r.b # x
    <3>1. r.a.user # x.user /\ r.b.user # x.user
      BY <1>1, <2>2, NodeIs
    <3>2. <<x.user, r.a.user>> \in RowTies <=> <<x.user, r.b.user>> \in RowTies
      BY <1>1, <1>3, <3>1 DEF Transitive
    <3> QED BY <1>1, <2>2, <3>2
  <2> QED BY <2>1, <2>2
<1>5. Class(rows, x) \subseteq near
  <2>1. near \in SUBSET ({x} \cup EndsOf(rows)) /\ x \in near
    OBVIOUS
  <2> HIDE DEF near
  <2> QED BY <1>4, <2>1 DEF Class
<1>6. ASSUME NEW y \in Node, Bears(y), <<x.user, y.user>> \in RowTies PROVE y \in Class(rows, x)
  <2>1. PICK r \in rows : (r.a = x /\ r.b = y) \/ (r.a = y /\ r.b = x)
    <3>1. PICK r \in rows : (r.a.user = x.user /\ r.b.user = y.user)
                            \/ (r.a.user = y.user /\ r.b.user = x.user)
      BY <1>6, TiesBack
    <3>2. CASE r.a.user = x.user /\ r.b.user = y.user
      BY <1>1, <1>6, <3>2, NodeIs
    <3>3. CASE r.a.user = y.user /\ r.b.user = x.user
      BY <1>1, <1>6, <3>3, NodeIs
    <3> QED BY <3>1, <3>2, <3>3
  <2>2. y \in EndsOf(rows)
    BY <1>1, <2>1
  <2> QED BY <2>1, <2>2 DEF Class
<1>7. x \in Class(rows, x)
  BY DEF Class
<1> QED
  BY <1>2, <1>5, <1>6, <1>7

(* When every member of one class is tied to every member of another, the   *)
(* two become one.                                                          *)
ClassOf(A, a, T) ==
    /\ A \in SUBSET Logins /\ a \in Logins
    /\ \A u \in Logins : u \in A <=> u = a \/ <<a, u>> \in T
Tied(U, T, A, B) ==
    \A u, v \in Logins : <<u, v>> \in U <=>
        \/ <<u, v>> \in T
        \/ u # v /\ ((u \in A /\ v \in B) \/ (u \in B /\ v \in A))

LEMMA ClassesMerge ==
    ASSUME NEW T, NEW U, NEW A, NEW B, NEW a, NEW b, Transitive(T),
           \A u, v \in Logins : <<u, v>> \in T => <<v, u>> \in T,
           ClassOf(A, a, T), ClassOf(B, b, T), Tied(U, T, A, B)
    PROVE  Transitive(U)
<1> USE DEF ClassOf, Tied
<1>1. \A u, v \in Logins : u \in A /\ <<u, v>> \in T => v \in A
  BY DEF Transitive
<1>2. \A u, v \in Logins : u \in B /\ <<u, v>> \in T => v \in B
  BY DEF Transitive
<1>3. \A u, v \in A : u # v => <<u, v>> \in T
  BY DEF Transitive
<1>4. \A u, v \in B : u # v => <<u, v>> \in T
  BY DEF Transitive
<1> QED
  BY <1>1, <1>2, <1>3, <1>4, ZenonT(30) DEF Transitive
(* What is true of a thread's work when it is the only one.                 *)
LEMMA LoneThread ==
    ASSUME InTurn, ~torn, NEW t \in Threads, op[t] # Waiting \/ Busy = {}
    PROVE  /\ Only(t) /\ RowsCurrent /\ TaskCurrent(op[t])
           /\ Owed = (IF op[t].at = "fan" THEN op[t].todo ELSE {})
           /\ op[t].at # "fan" => Transitive(RowTies)
           /\ op[t].at = "fan" => Transitive(RowTies \cup TiesOf(op[t].todo))
<1>1. Only(t)
  BY DEF InTurn, Busy, Only
<1>2. Owed = (IF op[t].at = "fan" THEN op[t].todo ELSE {})
  BY <1>1 DEF Owed, Only, Waiting
<1>3. TiesOf({}) = {}
  BY DEF TiesOf
<1> QED
  BY <1>1, <1>2, <1>3 DEF InTurn

LEMMA WorkKeeps ==
    ASSUME IdentityInv, NEW t \in Threads, NEW o, Only(t), op' = [op EXCEPT ![t] = o],
           RowsCurrent', TaskCurrent(op[t])',
           Transitive(RowTies' \cup TiesOf(IF o.at = "fan" THEN o.todo ELSE {}))
    PROVE  InTurn'
<1>1. op'[t] = o /\ \A q \in Threads \ {t} : op'[q] = Waiting
  BY DEF IdentityInv, Only
<1>2. Owed' = (IF o.at = "fan" THEN o.todo ELSE {})
  BY <1>1 DEF Owed, Waiting
<1>3. \A q \in Threads : op'[q] # Waiting => q = t
  BY <1>1
<1>4. \A q \in Threads \ {t} : TaskCurrent(op[q])'
  BY <1>1 DEF TaskCurrent, Waiting
<1> QED
  BY <1>1, <1>2, <1>3, <1>4 DEF InTurn, Only, TiesOf, Transitive

LEMMA QuietKeeps ==
    ASSUME IdentityInv, InTurn, ~torn, NEW t \in Threads, NEW o, op[t] # Waiting \/ Busy = {},
           op[t].at = "fan" => op[t].todo = {}, op' = [op EXCEPT ![t] = o], rows' = rows,
           \A x : Current(x) => Current(x)', o.at # "fan", TaskCurrent(o)
    PROVE  InTurn'
<1>1. Only(t) /\ RowsCurrent /\ Transitive(RowTies)
  <2>1. TiesOf({}) = {}
    BY DEF TiesOf
  <2> QED BY <2>1, LoneThread
<1>2. RowsCurrent'
  BY <1>1 DEF RowsCurrent, Distinct
<1>3. op'[t] = o
  BY DEF IdentityInv
<1>4. TaskCurrent(op[t])'
  BY <1>3 DEF TaskCurrent, Distinct
<1>5. Transitive(RowTies' \cup TiesOf({}))
  BY <1>1 DEF RowTies, TiesOf
<1> QED
  BY <1>1, <1>2, <1>4, <1>5, WorkKeeps

LEMMA StartAlone ==
    ASSUME InTurn, ~torn', NEW t \in Threads, Start(t)
    PROVE  ~torn /\ Busy = {} /\ op[t] = Waiting /\ op[t].at = "idle"
<1>1. ~torn /\ Busy = {} /\ op[t] = Waiting
  BY DEF Start
<1>2. Waiting.at = "idle"
  BY DEF Waiting
<1> QED
  BY <1>1, <1>2

LEMMA SameStored == stored' = stored => \A x : Current(x) => Current(x)'
BY DEF Current, Bears

LEMMA UuidCurrent ==
    ASSUME NEW u, stored[u] # 0 PROVE Current(Uuid(u)) /\ Uuid(u).user = u
BY DEF Current, Bears, Uuid

LEMMA LinkMixes ==
    ASSUME IdentityInv, InTurn, ~torn', NEW t \in Threads, NEW u \in Logins, NEW v \in Logins,
           Link(t, u, v)
    PROVE  InTurn'
<1> DEFINE o == [at |-> "insert", a |-> Uuid(u), b |-> Uuid(v), src |-> "manual", left |-> {},
                 ca |-> Class(rows, Uuid(u)), cb |-> Class(rows, Uuid(v))]
<1>1. Distinct(<<Uuid(u), Uuid(v)>>)
  BY UuidCurrent DEF Link, Distinct
<1>2. TaskCurrent(o) /\ o.at # "fan"
  BY <1>1 DEF TaskCurrent
<1>3. op' = [op EXCEPT ![t] = o] /\ rows' = rows /\ stored' = stored /\ Start(t)
  BY DEF Link, Read
<1> HIDE DEF o
<1> QED
  BY <1>2, <1>3, StartAlone, SameStored, QuietKeeps

LEMMA CanonicalIs ==
    \A x, y : \/ Canonical(x, y)[1] = x /\ Canonical(x, y)[2] = y
              \/ Canonical(x, y)[1] = y /\ Canonical(x, y)[2] = x
BY DEF Canonical

(* A link more in the table.                                                *)
LEMMA RowAdded ==
    ASSUME LinksTyped, RowsCurrent, NEW p \in Pairs, NEW src, NEW parent, Distinct(p),
           InsertRow(p, src, parent), stored' = stored
    PROVE  /\ RowsCurrent'
           /\ \A u, v : <<u, v>> \in RowTies' <=>
                 \/ <<u, v>> \in RowTies
                 \/ p[1].user = u /\ p[2].user = v
                 \/ p[1].user = v /\ p[2].user = u
<1> DEFINE new == [id |-> nextId, a |-> p[1], b |-> p[2], src |-> src, parent |-> parent]
<1>1. \A x : Current(x)' <=> Current(x)
  BY DEF Current, Bears
<1>2. \A u, v : <<u, v>> \in RowTies' <=>
         \E r \in rows' : (r.a.user = u /\ r.b.user = v) \/ (r.a.user = v /\ r.b.user = u)
  BY DEF RowTies
<1>3. CASE RowsOf(rows, p) # {}
  <2>1. rows' = rows
    BY <1>3 DEF InsertRow
  <2>2. \E r \in rows : r.a = p[1] /\ r.b = p[2]
    BY <1>3 DEF RowsOf
  <2> QED BY <1>1, <1>2, <2>1, <2>2, TiesBack DEF RowsCurrent, Distinct
<1>4. CASE RowsOf(rows, p) = {}
  <2>1. rows' = rows \cup {new} /\ new.a = p[1] /\ new.b = p[2]
    BY <1>4 DEF InsertRow
  <2>2. \A r \in rows : ~(r.a = p[1] /\ r.b = p[2])
    <3>1. p = <<p[1], p[2]>>
      BY DEF Pairs
    <3> QED BY <1>4, <3>1 DEF RowsOf
  <2> HIDE DEF new
  <2>3. RowsCurrent'
    BY <1>1, <2>1, <2>2 DEF RowsCurrent, Distinct
  <2> QED BY <1>2, <2>1, <2>3, TiesBack
<1> QED
  BY <1>3, <1>4

LEMMA InsertMixes ==
    ASSUME IdentityInv, InTurn, ~torn', NEW t \in Threads, Insert(t) PROVE InTurn'
<1> DEFINE a == op[t].a
           b == op[t].b
           p == Canonical(a, b)
           id == IF RowsOf(rows, p) = {} THEN nextId ELSE (CHOOSE r \in RowsOf(rows, p) : TRUE).id
           owes == FanPairs(op[t])
           o == [at |-> "fan", a |-> a, left |-> op[t].left, parent |-> id, todo |-> owes]
<1>1. /\ op[t].at = "insert" /\ op' = [op EXCEPT ![t] = o] /\ InsertRow(p, op[t].src, 0)
      /\ stored' = stored /\ ~torn
  BY DEF Insert
<1>2. a \in Node /\ b \in Node /\ op[t].ca \in SUBSET Node /\ op[t].cb \in SUBSET Node
  BY <1>1, TaskIs
<1>3. Only(t) /\ RowsCurrent /\ TaskCurrent(op[t]) /\ Transitive(RowTies) /\ LinksTyped
  <2>1. op[t] # Waiting /\ op[t].at # "fan"
    BY <1>1 DEF Waiting
  <2> QED BY <1>1, <2>1, LoneThread DEF IdentityInv
<1>4. /\ Current(a) /\ Current(b) /\ a.user # b.user /\ op[t].ca = Class(rows, a)
      /\ op[t].cb = Class(rows, b) /\ \A q \in op[t].left : Distinct(q)
  BY <1>1, <1>3 DEF TaskCurrent, Distinct
<1>5. p \in Pairs /\ Distinct(p)
  BY <1>2, <1>4, CanonicalTyped DEF Canonical, Distinct
<1>6. /\ RowsCurrent'
      /\ \A u, v : <<u, v>> \in RowTies' <=>
            \/ <<u, v>> \in RowTies
            \/ p[1].user = u /\ p[2].user = v
            \/ p[1].user = v /\ p[2].user = u
  BY <1>1, <1>3, <1>5, RowAdded
<1> DEFINE A == {x.user : x \in op[t].ca}
           B == {x.user : x \in op[t].cb}
<1>7. /\ ClassOf(A, a.user, RowTies) /\ ClassOf(B, b.user, RowTies)
      /\ \A x \in op[t].ca \cup op[t].cb : x \in Node /\ Current(x)
  <2>1. ASSUME NEW x \in Node, Current(x)
        PROVE  /\ ClassOf({y.user : y \in Class(rows, x)}, x.user, RowTies)
               /\ \A y \in Class(rows, x) : y \in Node /\ Current(y)
    <3>1. /\ \A y \in Class(rows, x) : y \in Node /\ Bears(y)
          /\ \A y \in Node : Bears(y) =>
                 (y \in Class(rows, x) <=> y = x \/ <<x.user, y.user>> \in RowTies)
      BY <1>3, <2>1, ClassIs DEF Current
    <3>2. \A r \in rows : r.a \in Node /\ r.b \in Node /\ Current(r.a) /\ Current(r.b)
      BY <1>3 DEF LinksTyped, LinkRow, RowsCurrent, Distinct
    <3>3. ASSUME NEW u, <<x.user, u>> \in RowTies
          PROVE  \E y \in Node : y.user = u /\ Current(y)
      BY <3>2, <3>3, TiesBack
    <3>4. \A y \in Class(rows, x) : Current(y)
      <4> SUFFICES ASSUME NEW y \in Class(rows, x), y # x PROVE Current(y)
        BY <2>1
      <4>1. y \in Node /\ Bears(y) /\ <<x.user, y.user>> \in RowTies
        BY <3>1
      <4>2. PICK z \in Node : z.user = y.user /\ Current(z)
        BY <3>3, <4>1
      <4> QED BY <4>1, <4>2, NodeIs DEF Current
    <3>5. \A u \in Logins : u \in {y.user : y \in Class(rows, x)} <=>
                                u = x.user \/ <<x.user, u>> \in RowTies
      <4> TAKE u \in Logins
      <4>1. ASSUME NEW y \in Class(rows, x), u = y.user
            PROVE  u = x.user \/ <<x.user, u>> \in RowTies
        BY <3>1, <4>1
      <4>2. CASE u = x.user
        BY <2>1, <3>1, <4>2 DEF Current
      <4>3. CASE <<x.user, u>> \in RowTies
        BY <3>1, <3>3, <4>3 DEF Current
      <4> QED BY <4>1, <4>2, <4>3
    <3> QED BY <3>1, <3>4, <3>5 DEF Node, ClassOf
  <2> QED BY <1>2, <1>4, <2>1 DEF Node
<1>8. \A u, v \in Logins :
        <<u, v>> \in RowTies' \cup TiesOf(owes) <=>
            \/ <<u, v>> \in RowTies
            \/ u # v /\ ((u \in A /\ v \in B) \/ (u \in B /\ v \in A))
  <2> SUFFICES ASSUME NEW u \in Logins, NEW v \in Logins
               PROVE  <<u, v>> \in RowTies' \cup TiesOf(owes) <=>
                        \/ <<u, v>> \in RowTies
                        \/ u # v /\ ((u \in A /\ v \in B) \/ (u \in B /\ v \in A))
    OBVIOUS
  <2> DEFINE both == {Canonical(q[1], q[2]) : q \in {q \in op[t].ca \X op[t].cb : q[1] # q[2]}}
             tied(q) == (q[1].user = u /\ q[2].user = v) \/ (q[1].user = v /\ q[2].user = u)
  <2>1. \A x, y : tied(Canonical(x, y)) <=> tied(<<x, y>>)
    BY DEF Canonical
  <2>2. owes = both \ {p}
    BY DEF FanPairs
  <2>3. p \in both
    <3>1. a \in op[t].ca /\ b \in op[t].cb /\ a # b
      BY <1>4 DEF Class
    <3>2. <<a, b>> \in {q \in op[t].ca \X op[t].cb : q[1] # q[2]}
      BY <3>1
    <3>3. p = Canonical(<<a, b>>[1], <<a, b>>[2])
      OBVIOUS
    <3> HIDE DEF p, a, b
    <3> QED BY <3>2, <3>3
  <2>4. (tied(p) \/ \E q \in owes : tied(q)) <=> \E q \in both : tied(q)
    BY <2>2, <2>3
  <2>5. (\E q \in both : tied(q)) <=> \E x \in op[t].ca, y \in op[t].cb : x # y /\ tied(<<x, y>>)
    <3>1. ASSUME NEW q \in both, tied(q)
          PROVE  \E x \in op[t].ca, y \in op[t].cb : x # y /\ tied(<<x, y>>)
      <4>1. PICK x \in op[t].ca, y \in op[t].cb : x # y /\ q = Canonical(x, y)
        OBVIOUS
      <4>2. tied(<<x, y>>)
        BY <2>1, <3>1, <4>1
      <4> QED BY <4>1, <4>2
    <3>2. ASSUME NEW x \in op[t].ca, NEW y \in op[t].cb, x # y, tied(<<x, y>>)
          PROVE  \E q \in both : tied(q)
      <4>1. <<x, y>> \in {q \in op[t].ca \X op[t].cb : q[1] # q[2]}
        BY <3>2
      <4>2. Canonical(x, y) \in both
        BY <4>1
      <4>3. tied(Canonical(x, y))
        BY <2>1, <3>2
      <4> QED BY <4>2, <4>3
    <3> QED BY <3>1, <3>2
  <2>6. \A x \in op[t].ca, y \in op[t].cb : x # y <=> x.user # y.user
    BY <1>7, NodeIs DEF Current
  <2>7. (\E q \in both : tied(q)) <=> u # v /\ ((u \in A /\ v \in B) \/ (u \in B /\ v \in A))
    <3> HIDE DEF both
    <3> QED BY <2>5, <2>6
  <2>8. <<u, v>> \in TiesOf(owes) <=> \E q \in owes : tied(q)
    BY TiesBack
  <2>9. <<u, v>> \in RowTies' <=> <<u, v>> \in RowTies \/ tied(p)
    BY <1>6
  <2> HIDE DEF both, tied, owes, p, A, B
  <2> QED BY <2>4, <2>7, <2>8, <2>9
<1>9. Transitive(RowTies' \cup TiesOf(owes))
  <2>1. \A u, v \in Logins : <<u, v>> \in RowTies => <<v, u>> \in RowTies
    BY TiesBack
  <2> DEFINE U == RowTies' \cup TiesOf(owes)
  <2>2. Tied(U, RowTies, A, B)
    BY <1>8 DEF Tied
  <2> HIDE DEF A, B, U
  <2>3. Transitive(U)
    BY ONLY <1>3, <1>7, <2>1, <2>2, ClassesMerge
  <2> QED BY <2>3 DEF U
<1>10. \A q \in owes : Distinct(q)
  <2> SUFFICES ASSUME NEW x \in op[t].ca, NEW y \in op[t].cb, x # y PROVE Distinct(Canonical(x, y))
    BY DEF FanPairs
  <2>1. Current(x) /\ Current(y) /\ x.user # y.user
    BY <1>7, NodeIs DEF Current
  <2> QED BY <2>1 DEF Canonical, Distinct
<1>11. TaskCurrent(op[t])'
  <2>1. op'[t] = o
    BY <1>1 DEF IdentityInv
  <2>2. o.at = "fan" /\ o.todo = owes /\ o.left = op[t].left
    OBVIOUS
  <2> HIDE DEF o
  <2> QED BY <1>1, <1>4, <1>10, <2>1, <2>2 DEF TaskCurrent, Distinct, Current, Bears
<1>12. o.at = "fan" /\ o.todo = owes
  OBVIOUS
<1> HIDE DEF o, owes
<1> QED
  BY <1>1, <1>3, <1>6, <1>9, <1>11, <1>12, WorkKeeps

LEMMA FanMixes ==
    ASSUME IdentityInv, InTurn, ~torn', NEW t \in Threads, Fan(t) PROVE InTurn'
<1>1. PICK p \in op[t].todo :
        /\ InsertRow(p, "auto_copy", op[t].parent) /\ op' = [op EXCEPT ![t].todo = @ \ {p}]
        /\ stored' = stored /\ ~torn /\ op[t].at = "fan"
  BY DEF Fan
<1>2. op[t] \in FanTask
  BY <1>1, TaskIs
<1>3. /\ Only(t) /\ RowsCurrent /\ TaskCurrent(op[t]) /\ LinksTyped
      /\ Transitive(RowTies \cup TiesOf(op[t].todo))
  <2>1. op[t] # Waiting
    BY <1>1 DEF Waiting
  <2> QED BY <1>1, <2>1, LoneThread DEF IdentityInv
<1>4. p \in Pairs /\ Distinct(p)
  BY <1>1, <1>2, <1>3 DEF TaskCurrent, FanTask
<1>5. /\ RowsCurrent'
      /\ \A u, v : <<u, v>> \in RowTies' <=>
            \/ <<u, v>> \in RowTies
            \/ p[1].user = u /\ p[2].user = v
            \/ p[1].user = v /\ p[2].user = u
  BY <1>1, <1>3, <1>4, RowAdded
<1> DEFINE o == [op[t] EXCEPT !.todo = @ \ {p}]
<1>6. /\ op' = [op EXCEPT ![t] = o] /\ o.at = "fan" /\ o.todo = op[t].todo \ {p}
      /\ o.left = op[t].left
  BY <1>1, <1>2 DEF FanTask
<1> HIDE DEF o
<1>7. \A u, v : <<u, v>> \in RowTies' \cup TiesOf(o.todo) <=>
                 <<u, v>> \in RowTies \cup TiesOf(op[t].todo)
  <2> SUFFICES ASSUME NEW u, NEW v
               PROVE  <<u, v>> \in RowTies' \cup TiesOf(o.todo) <=>
                      <<u, v>> \in RowTies \cup TiesOf(op[t].todo)
    OBVIOUS
  <2> DEFINE tied(q) == (q[1].user = u /\ q[2].user = v) \/ (q[1].user = v /\ q[2].user = u)
  <2>1. <<u, v>> \in RowTies' <=> <<u, v>> \in RowTies \/ tied(p)
    BY <1>5
  <2>2. <<u, v>> \in TiesOf(o.todo) <=> \E q \in o.todo : tied(q)
    BY TiesBack
  <2>3. <<u, v>> \in TiesOf(op[t].todo) <=> \E q \in op[t].todo : tied(q)
    BY TiesBack
  <2> HIDE DEF tied
  <2> QED BY <1>1, <1>6, <2>1, <2>2, <2>3
<1>8. Transitive(RowTies' \cup TiesOf(o.todo))
  BY <1>3, <1>7 DEF Transitive
<1>9. TaskCurrent(op[t])'
  <2>1. op'[t] = o
    BY <1>6 DEF IdentityInv
  <2> QED BY <1>1, <1>3, <1>6, <2>1 DEF TaskCurrent, Distinct, Current, Bears
<1> QED
  BY <1>3, <1>5, <1>6, <1>8, <1>9, WorkKeeps

LEMMA QuietStepsMix ==
    ASSUME IdentityInv, InTurn, ~torn', NEW t \in Threads,
           \/ FillRead(t) \/ FillWrite(t) \/ NextPair(t) \/ RefreshShares(t) \/ Sweep(t)
           \/ FindLinked(t) \/ Spread(t)
    PROVE  InTurn'
<1>1. /\ ~torn /\ rows' = rows /\ stored' = stored /\ op[t] # Waiting
      /\ op[t].at = "fan" => op[t].todo = {}
  BY DEF FillRead, FillWrite, NextPair, RefreshShares, Sweep, FindLinked, Spread, Waiting
<1>2. TaskCurrent(op[t])
  BY <1>1, LoneThread
<1>3. ASSUME NEW o, op' = [op EXCEPT ![t] = o], o.at # "fan", TaskCurrent(o) PROVE InTurn'
  BY <1>1, <1>3, QuietKeeps, SameStored
<1>4. TaskCurrent(Waiting) /\ Waiting.at # "fan"
  BY DEF TaskCurrent, Waiting
<1>5. CASE FillRead(t)
  <2>1. PICK e, held :
           op' = [op EXCEPT ![t] = [at |-> "fill", left |-> op[t].left, pin |-> e, empty |-> held]]
           \/ op' = [op EXCEPT ![t] = [at |-> "next", left |-> op[t].left]]
    BY <1>5 DEF FillRead
  <2>2. \A q \in op[t].left : Distinct(q)
    BY <1>2, <1>5 DEF FillRead, TaskCurrent
  <2>3. /\ TaskCurrent([at |-> "fill", left |-> op[t].left, pin |-> e, empty |-> held])
        /\ TaskCurrent([at |-> "next", left |-> op[t].left])
    BY <2>2 DEF TaskCurrent
  <2> QED BY <1>3, <2>1, <2>3
<1>6. CASE FillWrite(t)
  <2>1. TaskCurrent([at |-> "next", left |-> op[t].left])
    BY <1>2, <1>6 DEF FillWrite, TaskCurrent
  <2> QED BY <1>3, <1>6, <2>1 DEF FillWrite
<1>7. CASE NextPair(t)
  <2>1. CASE op' = [op EXCEPT ![t] = Waiting]
    BY <1>3, <1>4, <2>1
  <2>2. ASSUME NEW p \in op[t].left, Read(t, p[1], p[2], "auto_copy", op[t].left \ {p})
        PROVE  InTurn'
    <3> DEFINE o == [at |-> "insert", a |-> p[1], b |-> p[2], src |-> "auto_copy",
                     left |-> op[t].left \ {p}, ca |-> Class(rows, p[1]), cb |-> Class(rows, p[2])]
    <3>1. \A q \in op[t].left : Distinct(q)
      BY <1>2, <1>7 DEF NextPair, TaskCurrent
    <3>2. TaskCurrent(o) /\ o.at # "fan"
      BY <3>1 DEF TaskCurrent, Distinct
    <3>3. op' = [op EXCEPT ![t] = o]
      BY <2>2 DEF Read
    <3> HIDE DEF o
    <3> QED BY <1>3, <3>2, <3>3
  <2> QED BY <1>7, <2>1, <2>2 DEF NextPair
<1>8. CASE RefreshShares(t)
  <2>1. TaskCurrent([at |-> "sweep"])
    BY DEF TaskCurrent
  <2> QED BY <1>3, <1>8, <2>1 DEF RefreshShares
<1>9. CASE Sweep(t)
  <2> DEFINE pairs == {<<Uuid(p[1]), Uuid(p[2])>> : p \in SweepPairs}
  <2>1. \A q \in pairs : Distinct(q)
    <3>1. \A p \in SweepPairs : p[1] # p[2] /\ stored[p[1]] # 0 /\ stored[p[2]] # 0
      BY IdentityAssumption DEF SweepPairs, Paired
    <3> QED BY <3>1, UuidCurrent DEF Distinct
  <2>2. op' = [op EXCEPT ![t] = [at |-> "next", left |-> pairs]]
    BY <1>9 DEF Sweep
  <2> HIDE DEF pairs
  <2>3. TaskCurrent([at |-> "next", left |-> pairs])
    BY <2>1 DEF TaskCurrent
  <2> QED BY <1>3, <2>2, <2>3
<1>10. CASE FindLinked(t)
  <2> DEFINE o == [at |-> "spread", user |-> op[t].user, value |-> op[t].value,
                   cross |-> op[t].cross, class |-> Class(rows, Uuid(op[t].user))]
  <2>1. op' = [op EXCEPT ![t] = o]
    BY <1>10 DEF FindLinked
  <2>2. TaskCurrent(o) /\ o.at # "fan"
    BY DEF TaskCurrent
  <2> HIDE DEF o
  <2> QED BY <1>3, <2>1, <2>2
<1>11. CASE Spread(t)
  BY <1>3, <1>4, <1>11 DEF Spread
<1> QED
  BY <1>5, <1>6, <1>7, <1>8, <1>9, <1>10, <1>11

LEMMA UpsertMixes ==
    ASSUME IdentityInv, InTurn, ~torn', NEW t \in Threads, NEW s \in Servers, Upsert(t, s)
    PROVE  InTurn'
<1> DEFINE o == [at |-> "share", server |-> s]
<1>1. /\ op' = [op EXCEPT ![t] = o] /\ rows' = rows /\ Start(t)
      /\ stored' = [u \in Logins |-> UuidSlug(u, s)]
  BY DEF Upsert
<1>2. RowsCurrent /\ Only(t) /\ Transitive(RowTies)
  BY <1>1, StartAlone, LoneThread
<1>3. \A r \in rows : r.a.user \in Logins /\ r.b.user \in Logins
  BY DEF IdentityInv, LinksTyped, LinkRow, Node
<1>4. RowsCurrent'
  BY <1>1, <1>2, <1>3 DEF RowsCurrent, Distinct, Current, Bears, UuidSlug
<1>5. TaskCurrent(op[t])'
  <2>1. op'[t] = o
    BY <1>1 DEF IdentityInv
  <2> QED BY <2>1 DEF TaskCurrent
<1>6. Transitive(RowTies' \cup TiesOf({}))
  BY <1>1, <1>2 DEF RowTies, TiesOf
<1> QED
  BY <1>1, <1>2, <1>4, <1>5, <1>6, WorkKeeps

LEMMA SetPinMixes ==
    ASSUME IdentityInv, InTurn, ~torn', NEW t \in Threads, NEW u, NEW value, NEW cross,
           SetPin(t, u, value, cross)
    PROVE  InTurn'
<1> DEFINE o == [at |-> "class", user |-> u, value |-> value, cross |-> cross]
<1>1. op' = [op EXCEPT ![t] = o] /\ rows' = rows /\ stored' = stored /\ Start(t)
  BY DEF SetPin
<1>2. TaskCurrent(o) /\ o.at # "fan"
  BY DEF TaskCurrent
<1> HIDE DEF o
<1> QED
  BY <1>1, <1>2, StartAlone, SameStored, QuietKeeps

(* A rename gives every row the new name at once; no two become one.        *)
LEMMA RenameServerMixes ==
    ASSUME IdentityInv, InTurn, ~torn', NEW s \in Servers, NEW n \in Slugs, RenameServer(s, n)
    PROVE  InTurn'
<1>1. /\ ~torn /\ Busy = {} /\ op' = op /\ n # 0
      /\ stored' = [u \in Logins |-> IF ServerOf[u] = s /\ stored[u] # 0 THEN n ELSE stored[u]]
  BY IdentityAssumption DEF RenameServer
<1>2. \A t \in Threads : op[t] = Waiting
  BY <1>1 DEF Busy
<1>3. Owed = {} /\ TiesOf({}) = {}
  BY <1>2 DEF Owed, TiesOf, Waiting
<1>4. RowsCurrent /\ Transitive(RowTies) /\ LinksTyped
  BY <1>1, <1>3 DEF InTurn, IdentityInv
<1> DEFINE to(r) == [r EXCEPT !.a = Renamed(@, s, n), !.b = Renamed(@, s, n)]
<1>5. ASSUME NEW x \in Node
      PROVE  /\ Renamed(x, s, n) \in Node /\ Renamed(x, s, n).user = x.user
             /\ Current(x) => Current(Renamed(x, s, n))'
  <2>1. n \in Nat
    BY IdentityAssumption
  <2>2. x.user \in Logins /\ Renamed(x, s, n) \in Node /\ Renamed(x, s, n).user = x.user
    BY <2>1 DEF Renamed, Node
  <2>3. Renamed(x, s, n).slug = IF ServerOf[x.user] = s THEN n ELSE x.slug
    BY DEF Renamed, Node
  <2> QED BY <1>1, <2>2, <2>3 DEF Current, Bears
<1>6. ASSUME NEW r \in rows
      PROVE  /\ r.a \in Node /\ r.b \in Node /\ Current(r.a) /\ Current(r.b) /\ r.a.user # r.b.user
             /\ to(r).id = r.id /\ to(r).a = Renamed(r.a, s, n) /\ to(r).b = Renamed(r.b, s, n)
             /\ to(r).a.user = r.a.user /\ to(r).b.user = r.b.user
             /\ Current(to(r).a)' /\ Current(to(r).b)'
  <2>1. r \in LinkRow /\ r.a \in Node /\ r.b \in Node
    BY <1>4 DEF LinksTyped, LinkRow
  <2>2. Current(r.a) /\ Current(r.b) /\ r.a.user # r.b.user
    BY <1>4 DEF RowsCurrent, Distinct
  <2>3. to(r).id = r.id /\ to(r).a = Renamed(r.a, s, n) /\ to(r).b = Renamed(r.b, s, n)
    BY <2>1 DEF LinkRow
  <2>4. Current(Renamed(r.a, s, n))' /\ Current(Renamed(r.b, s, n))'
    BY <1>5, <2>1, <2>2
  <2> HIDE DEF to
  <2> QED BY <1>5, <2>1, <2>2, <2>3, <2>4
<1>7. RenamedRows(s, n) = {to(r) : r \in rows}
  BY DEF RenamedRows
<1>8. rows' = {to(r) : r \in {r \in rows : ~Collides(r, s, n)}}
  BY DEF RenameServer
<1>9. \A r, q \in rows : to(r).a = to(q).a /\ to(r).b = to(q).b => r = q
  <2> SUFFICES ASSUME NEW r \in rows, NEW q \in rows, to(r).a = to(q).a, to(r).b = to(q).b
               PROVE  r = q
    OBVIOUS
  <2>1. r.a.user = q.a.user /\ r.b.user = q.b.user
    BY <1>6
  <2>2. r.a = q.a /\ r.b = q.b
    BY <1>6, <2>1, NodeIs DEF Current
  <2> QED BY <1>4, <2>2 DEF RowsCurrent
<1>10. \A r \in rows : ~Collides(r, s, n)
  <2> SUFFICES ASSUME NEW r \in rows, Collides(r, s, n) PROVE FALSE
    OBVIOUS
  <2>1. PICK q \in RenamedRows(s, n) : q.id # r.id /\ q.a = to(r).a /\ q.b = to(r).b
    BY DEF Collides
  <2> HIDE DEF to
  <2>2. PICK r2 \in rows : q = to(r2)
    BY <1>7
  <2> QED BY <1>6, <1>9, <2>1, <2>2
<1>11. rows' = {to(r) : r \in rows}
  BY <1>8, <1>10
<1> HIDE DEF to
<1>12. RowsCurrent'
  <2>1. \A r \in rows' : Distinct(<<r.a, r.b>>)'
    BY <1>6, <1>11 DEF Distinct
  <2>2. \A r, q \in rows' : r.a = q.a /\ r.b = q.b => r = q
    BY <1>9, <1>11
  <2> QED BY <2>1, <2>2 DEF RowsCurrent
<1>13. RowTies' = RowTies
  <2>1. RowTies' = UNION {{<<to(r).a.user, to(r).b.user>>, <<to(r).b.user, to(r).a.user>>} : r \in rows}
    BY <1>11 DEF RowTies
  <2> QED BY <1>6, <2>1 DEF RowTies
<1>14. Owed' = {}
  BY <1>1, <1>3 DEF Owed
<1>15. \A t \in Threads : op'[t] = Waiting /\ TaskCurrent(op[t])'
  BY <1>1, <1>2 DEF TaskCurrent, Waiting
<1> QED
  BY <1>3, <1>4, <1>12, <1>13, <1>14, <1>15 DEF InTurn, TiesOf

LEMMA MixInit == IdentityInit => InTurn
<1> SUFFICES ASSUME IdentityInit PROVE InTurn
  OBVIOUS
<1>1. rows = {} /\ \A t \in Threads : op[t] = Waiting
  BY DEF IdentityInit
<1>2. Owed = {} /\ RowTies = {} /\ TiesOf({}) = {}
  BY <1>1 DEF Owed, RowTies, TiesOf, Waiting
<1> QED
  BY <1>1, <1>2 DEF InTurn, RowsCurrent, Transitive, TaskCurrent, Waiting

LEMMA MixKeeps == IdentityInv /\ InTurn /\ [IdentityNext]_identityVars => InTurn'
<1> SUFFICES ASSUME IdentityInv, InTurn, [IdentityNext]_identityVars, ~torn' PROVE InTurn'
  BY DEF InTurn
<1>1. CASE UNCHANGED identityVars
  BY <1>1 DEF identityVars, InTurn, RowsCurrent, Transitive, TaskCurrent, RowTies, TiesOf, Owed,
              Only, Distinct, Current, Bears
<1>2. ASSUME NEW t \in Threads, NEW u \in Logins, NEW v \in Logins, Link(t, u, v) PROVE InTurn'
  BY <1>2, LinkMixes
<1>3. ASSUME NEW t \in Threads, Insert(t) \/ Fan(t) PROVE InTurn'
  BY <1>3, InsertMixes, FanMixes
<1>4. ASSUME NEW t \in Threads,
             \/ FillRead(t) \/ FillWrite(t) \/ NextPair(t) \/ RefreshShares(t) \/ Sweep(t)
             \/ FindLinked(t) \/ Spread(t)
      PROVE  InTurn'
  BY <1>4, QuietStepsMix
<1>5. ASSUME NEW t \in Threads, NEW s \in Servers, Upsert(t, s) PROVE InTurn'
  BY <1>5, UpsertMixes
<1>6. ASSUME NEW t \in Threads, NEW u \in Logins, NEW cross \in BOOLEAN,
             NEW value \in {u, None}, SetPin(t, u, value, cross)
      PROVE  InTurn'
  BY <1>6, SetPinMixes
<1>7. ASSUME NEW s \in Servers, NEW n \in Slugs, RenameServer(s, n) PROVE InTurn'
  BY <1>7, RenameServerMixes
<1>8. ASSUME (\E id \in 1..(nextId - 1) : Unlink(id)) \/ Restart PROVE InTurn'
  BY <1>8 DEF Unlink, Restart
<1> QED
  BY <1>1, <1>2, <1>3, <1>4, <1>5, <1>6, <1>7, <1>8 DEF IdentityNext

(* A family with an account on the destination is found there.              *)
LEMMA FamilyFound == IdentityInv /\ InTurn => RestoreFindsFamily
<1> SUFFICES ASSUME IdentityInv, InTurn, Settled, NEW u \in Logins, NEW s \in Servers \ {ServerOf[u]},
                    NEW v \in Roster(s), v \in Holders(Class(rows, Uuid(u)))
             PROVE  ResolveUser(u, s) \in Holders(Class(rows, Uuid(u)))
  BY DEF RestoreFindsFamily
<1> DEFINE x == Uuid(u)
<1>1. ~torn /\ \A t \in Threads : op[t] = Waiting
  BY DEF Settled, Busy
<1>2. Owed = {} /\ TiesOf({}) = {}
  BY <1>1 DEF Owed, TiesOf, Waiting
<1>3. LinksTyped /\ RowsCurrent /\ Transitive(RowTies)
  BY <1>1, <1>2 DEF InTurn, IdentityInv
<1>4. x \in Node /\ x.user = u /\ Bears(x)
  BY <1>3, UuidTyped DEF Bears, Uuid
<1>5. /\ \A y \in Class(rows, x) : y \in Node /\ Bears(y)
      /\ \A y \in Node : Bears(y) => (y \in Class(rows, x) <=> y = x \/ <<x.user, y.user>> \in RowTies)
  BY <1>3, <1>4, ClassIs
<1>6. \A r \in rows : r.a \in Node /\ r.b \in Node /\ Current(r.a) /\ Current(r.b) /\ r.id \in Nat
  BY <1>3 DEF LinksTyped, LinkRow, RowsCurrent, Distinct
<1>7. v \in Logins /\ v # u
  BY DEF Roster
<1>8. PICK y \in Class(rows, x) : y.user = v
  BY DEF Holders
<1>9. <<u, v>> \in RowTies
  BY <1>4, <1>5, <1>7, <1>8
<1>10. PICK r \in rows : (r.a.user = u /\ r.b.user = v) \/ (r.a.user = v /\ r.b.user = u)
  BY <1>9, TiesBack
<1>11. ASSUME NEW w \in Logins
       PROVE Uuid(w) \in Node /\ Uuid(w).user = w /\ Bears(Uuid(w))
  BY <1>3, UuidTyped DEF Bears, Uuid
<1>12. {r.a, r.b} = {Uuid(u), Uuid(v)} /\ stored[v] # 0
  <2>1. CASE r.a.user = u /\ r.b.user = v
    BY <1>6, <1>7, <1>10, <1>11, <2>1, NodeIs DEF Current, Bears
  <2>2. CASE r.a.user = v /\ r.b.user = u
    BY <1>6, <1>7, <1>10, <1>11, <2>2, NodeIs DEF Current, Bears
  <2> QED BY <1>10, <2>1, <2>2
<1>13. r \in LinkedOn(u, s)
  BY <1>7, <1>12 DEF LinkedOn
<1>14. PICK q \in LinkedOn(u, s) : \A z \in LinkedOn(u, s) : q.id <= z.id
  <2> DEFINE T == {z.id : z \in LinkedOn(u, s)}
  <2>1. T \in SUBSET Nat /\ T # {}
    BY <1>6, <1>13 DEF LinkedOn
  <2>2. PICK m \in T : \A z \in T : m <= z
    <3> HIDE DEF T
    <3> QED BY <2>1, LeastNumber
  <2> QED BY <2>2
<1> DEFINE first == CHOOSE z \in LinkedOn(u, s) : \A w \in LinkedOn(u, s) : z.id <= w.id
<1>15. first \in LinkedOn(u, s)
  BY <1>14
<1>16. ResolveUser(u, s) = ByLink(u, s)
  BY <1>13 DEF ResolveUser
<1>17. ByLink(u, s) = IF first.a = x THEN first.b.user ELSE first.a.user
  BY DEF ByLink
<1> HIDE DEF first
<1>18. PICK w \in Roster(s) : stored[w] # 0 /\ {first.a, first.b} = {x, Uuid(w)} /\ w # u
  BY <1>15 DEF LinkedOn
<1>19. w \in Logins /\ x # Uuid(w) /\ first \in rows
  BY <1>4, <1>15, <1>18, <1>11 DEF Roster, LinkedOn
<1>20. ByLink(u, s) = w
  BY <1>11, <1>17, <1>18, <1>19
<1>21. <<u, w>> \in RowTies
  <2>1. (first.a.user = u /\ first.b.user = w) \/ (first.a.user = w /\ first.b.user = u)
    BY <1>4, <1>11, <1>18, <1>19
  <2> QED BY <1>19, <2>1, TiesBack
<1>22. Uuid(w) \in Class(rows, x)
  BY <1>4, <1>5, <1>11, <1>19, <1>21
<1>23. w \in Holders(Class(rows, x))
  BY <1>11, <1>19, <1>22 DEF Holders
<1> QED
  BY <1>16, <1>20, <1>23

(* When nothing was unlinked or overlapped, a restore gives the history of  *)
(* a user to the account of the user's family on the destination.           *)
THEOREM RestoreFinds == IdentitySpec => []RestoreFindsFamily
<1>1. IdentityInit => IdentityInv /\ InTurn
  BY IdentityInitHolds, MixInit
<1>2. IdentityInv /\ InTurn /\ [IdentityNext]_identityVars => (IdentityInv /\ InTurn)'
  BY IdentityKeeps, MixKeeps
<1> QED
  BY <1>1, <1>2, FamilyFound, PTL DEF IdentitySpec
=============================================================================
