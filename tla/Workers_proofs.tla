--------------------------- MODULE Workers_proofs ---------------------------
(***************************************************************************)
(* Proofs about two workers of the server.                                 *)
(*                                                                         *)
(* SyncWorker: under the policy max it never lowers a view count of Plex,  *)
(* for any pairs, settings, plays, failed requests, crashes and concurrent *)
(* cycles.  A target that is the larger of two readings is reached by      *)
(* scrobbles alone, whatever the counts have become since; and what is     *)
(* left of a list of requests after a failure is part of that list.        *)
(*                                                                         *)
(* PlaylistBatch: for any batch, workers, depth, faults and cycles, no     *)
(* slot of a source is lost or handed out twice, and a cancel leaves no    *)
(* list or a whole one.                                                    *)
(***************************************************************************)
EXTENDS SyncWorker, PlaylistBatch, FiniteSetTheorems, SequenceTheorems, FunctionTheorems,
        TLAPS

-----------------------------------------------------------------------------
(* The sync worker                                                         *)

Running == [pc : {"idle", "connect", "pair", "write", "stamp"}, id : Nat, sub : Configs,
            at : Nat, todo : Seq(Request), wrote : BOOLEAN, error : BOOLEAN]

(* Requests that lower no count of Plex.                                   *)
Raises(requests) ==
    \A i \in DOMAIN requests : Kind[requests[i].side] = "plex" => requests[i].op = "scrobble"

(* A cycle in the middle of a pair has requests to send, for a pair there  *)
(* is, and under max they only raise.                                      *)
InPair(c) ==
    c.pc = "write" => /\ c.at \in DOMAIN Pairs /\ c.todo # <<>>
                      /\ c.sub.policy = "max" => Raises(c.todo)

SyncInv ==
    /\ sub.config \in Configs /\ sub.id \in Nat
    /\ DOMAIN sub = {"id", "config", "exists", "synced", "status", "lastGood"}
    /\ count \in [PairSet -> [Sides -> Nat]]
    /\ cycle \in [Runners -> Running]
    /\ \A r \in Runners : InPair(cycle[r])

-----------------------------------------------------------------------------
(* The requests                                                            *)

LEMMA Concat ==
    ASSUME NEW s \in Seq(Request), NEW t \in Seq(Request)
    PROVE  s \o t \in Seq(Request) /\ (Raises(s) /\ Raises(t) => Raises(s \o t))
BY DEF Raises

(* A side is sent well-formed requests, and only scrobbles when it is to   *)
(* have more than was read.                                                *)
LEMMA RequestsRaise ==
    ASSUME SyncAssumption, NEW side \in Sides, NEW current \in Nat, NEW want \in Nat
    PROVE  /\ RequestsFor(side, current, want) \in Seq(Request)
           /\ want > current => Raises(RequestsFor(side, current, want))
<1> DEFINE Scrobbles(n) == [i \in 1 .. n |-> [side |-> side, op |-> "scrobble", n |-> 1]]
           Unscrobble == <<[side |-> side, op |-> "unscrobble", n |-> 0]>>
           Exact == <<[side |-> side, op |-> "exact", n |-> want]>>
<1>1. ASSUME NEW n \in Nat
      PROVE  Scrobbles(n) \in Seq(Request) /\ Raises(Scrobbles(n))
  BY DEF Request, Raises
<1>2. Unscrobble \in Seq(Request) /\ Exact \in Seq(Request)
  BY DEF Request
<1>3. Kind[side] = "je" => Raises(Exact)
  BY DEF Raises
<1>4. RequestsFor(side, current, want) =
         CASE Kind[side] = "je" -> Exact
           [] Kind[side] = "plex" /\ want > current -> Scrobbles(want - current)
           [] OTHER -> Unscrobble \o Scrobbles(want)
  BY DEF RequestsFor
<1>5. Kind[side] \in {"plex", "je"}
  BY DEF SyncAssumption
<1> HIDE DEF Scrobbles, Unscrobble, Exact
<1>6. CASE Kind[side] = "je"
  BY <1>2, <1>3, <1>4, <1>6
<1>7. CASE Kind[side] = "plex" /\ want > current
  <2>1. want - current \in Nat
    BY <1>7
  <2> QED BY <1>1, <1>4, <1>7, <2>1
<1>8. CASE Kind[side] = "plex" /\ ~(want > current)
  BY <1>1, <1>2, <1>4, <1>8, Concat
<1> QED BY <1>5, <1>6, <1>7, <1>8

LEMMA PairRaises ==
    ASSUME SyncAssumption, NEW s \in Nat, NEW d \in Nat, NEW c \in Configs, NEW who
    PROVE  LET requests == SideRequests(s, d, ComputeTarget(s, d, c.policy, who), c.bidirectional)
           IN  requests \in Seq(Request) /\ (c.policy = "max" => Raises(requests))
<1> DEFINE target == ComputeTarget(s, d, c.policy, who)
           first == IF d # target THEN RequestsFor("dst", d, target) ELSE <<>>
           second == IF c.bidirectional /\ s # target THEN RequestsFor("src", s, target) ELSE <<>>
<1>1. target \in Nat
  BY DEF ComputeTarget, Larger
<1>2. c.policy = "max" => target >= s /\ target >= d
  BY DEF ComputeTarget, Larger
<1> HIDE DEF target
<1>3. first \in Seq(Request) /\ (c.policy = "max" => Raises(first))
  <2>1. CASE d # target
    <3>1. first = RequestsFor("dst", d, target) /\ (c.policy = "max" => target > d)
      BY <1>1, <1>2, <2>1
    <3> QED BY <1>1, <3>1, RequestsRaise DEF Sides
  <2>2. CASE d = target
    BY <2>2 DEF Raises
  <2> QED BY <2>1, <2>2
<1>4. second \in Seq(Request) /\ (c.policy = "max" => Raises(second))
  <2>1. CASE c.bidirectional /\ s # target
    <3>1. second = RequestsFor("src", s, target) /\ (c.policy = "max" => target > s)
      BY <1>1, <1>2, <2>1
    <3> QED BY <1>1, <3>1, RequestsRaise DEF Sides
  <2>2. CASE ~(c.bidirectional /\ s # target)
    BY <2>2 DEF Raises
  <2> QED BY <2>1, <2>2
<1>5. SideRequests(s, d, target, c.bidirectional) = first \o second
  BY DEF SideRequests
<1> HIDE DEF first, second
<1> QED BY <1>3, <1>4, <1>5, Concat DEF target

(* What is left of the requests, sent or given up, is a part of them.      *)
LEMMA LeftRaises ==
    ASSUME NEW requests \in Seq(Request), requests # <<>>, NEW side
    PROVE  /\ Tail(requests) \in Seq(Request) /\ DropSide(requests, side) \in Seq(Request)
           /\ Raises(requests) => Raises(Tail(requests)) /\ Raises(DropSide(requests, side))
<1> DEFINE mine == {i \in DOMAIN requests : requests[i].side = side}
<1>1. IsFiniteSet(1 .. Len(requests)) /\ mine \subseteq 1 .. Len(requests)
  BY FS_Interval
<1>2. Cardinality(mine) \in Nat /\ Cardinality(mine) <= Len(requests)
  <2>1. Len(requests) \in Nat /\ Cardinality(1 .. Len(requests)) = Len(requests)
    BY FS_Interval
  <2> HIDE DEF mine
  <2> QED BY <1>1, <2>1, FS_Subset, FS_CardinalityType
<1> HIDE DEF mine
<1>3. PICK n \in Nat : n = 1 + Cardinality(mine) /\ n \in 1 .. Len(requests) + 1
  BY <1>2
<1>4. DropSide(requests, side) = SubSeq(requests, n, Len(requests))
  BY <1>3 DEF DropSide, mine
<1>5. SubSeq(requests, n, Len(requests)) \in Seq(Request)
      /\ (Raises(requests) => Raises(SubSeq(requests, n, Len(requests))))
  <2> DEFINE rest == SubSeq(requests, n, Len(requests))
  <2>1. /\ rest \in Seq(Request) /\ Len(rest) = Len(requests) - n + 1
        /\ \A i \in 1 .. Len(requests) - n + 1 : rest[i] = requests[n + i - 1]
    <3>1. n \in Int /\ Len(requests) \in Int /\ \A i \in n .. Len(requests) : requests[i] \in Request
      BY <1>3
    <3> QED BY <1>3, <3>1, SubSeqProperties
  <2> HIDE DEF rest
  <2>2. ASSUME Raises(requests), NEW i \in DOMAIN rest, Kind[rest[i].side] = "plex"
        PROVE  rest[i].op = "scrobble"
    <3>1. n + i - 1 \in DOMAIN requests /\ rest[i] = requests[n + i - 1]
      BY <1>3, <2>1
    <3> QED BY <2>2, <3>1 DEF Raises
  <2>3. Raises(requests) => Raises(rest)
    BY <2>2 DEF Raises
  <2> QED BY <2>1, <2>3 DEF rest
<1>6. Tail(requests) \in Seq(Request) /\ (Raises(requests) => Raises(Tail(requests)))
  BY DEF Raises
<1> QED BY <1>4, <1>5, <1>6

-----------------------------------------------------------------------------
(* The steps                                                               *)

LEMMA IdleRuns == ASSUME NEW c \in Configs PROVE Idle \in Running /\ InPair(Idle)
<1>1. Idle.sub \in Configs
  BY DEF Idle
<1> QED BY <1>1 DEF Idle, Running, InPair

LEMMA SyncInitHolds == ASSUME SyncAssumption, SyncInit PROVE SyncInv
<1>1. sub.config \in Configs
  BY DEF SyncInit
<1>2. Idle \in Running /\ InPair(Idle)
  BY <1>1, IdleRuns
<1>3. sub.id \in Nat /\ DOMAIN sub = {"id", "config", "exists", "synced", "status", "lastGood"}
  <2>1. sub \in [id : {1}, config : Configs, exists : {TRUE}, synced : {FALSE},
                 status : {"none"}, lastGood : {FALSE}]
    BY DEF SyncInit
  <2>2. sub.id = 1
    BY <2>1
  <2>3. DOMAIN sub = {"id", "config", "exists", "synced", "status", "lastGood"}
    BY <2>1, Zenon
  <2> QED BY <2>2, <2>3
<1>4. count \in [PairSet -> [Sides -> Nat]]
  BY DEF SyncInit
<1>5. cycle \in [Runners -> Running] /\ \A r \in Runners : InPair(cycle[r])
  BY <1>2 DEF SyncInit
<1> QED BY <1>1, <1>3, <1>4, <1>5 DEF SyncInv

(* A step that only moves one cycle on.                                    *)
LEMMA CycleKeeps ==
    ASSUME SyncInv, NEW r \in Runners, NEW c \in Running, InPair(c),
           cycle' = [cycle EXCEPT ![r] = c], UNCHANGED sub,
           count' \in [PairSet -> [Sides -> Nat]]
    PROVE  SyncInv'
<1>1. \A s \in Runners : cycle'[s] \in {c, cycle[s]}
  BY DEF SyncInv
<1>2. \A s \in Runners : InPair(cycle[s])'
  BY <1>1 DEF SyncInv, InPair
<1> QED BY <1>2 DEF SyncInv

LEMMA StartStep ==
    ASSUME SyncInv, NEW r \in Runners, cycle' = [cycle EXCEPT ![r] = Started(sub)],
           UNCHANGED <<sub, count>>
    PROVE  SyncInv'
<1>1. Idle \in Running
  BY IdleRuns DEF SyncInv
<1>2. Started(sub) \in Running /\ Started(sub).pc = "connect"
  BY <1>1 DEF Started, SyncInv, Running, Idle
<1> QED BY <1>2, CycleKeeps DEF SyncInv, InPair

LEMMA MoveStep ==
    ASSUME SyncInv, NEW r \in Runners, Connect(r) \/ LastPair(r)
    PROVE  SyncInv'
<1>1. cycle[r] \in Running
  BY DEF SyncInv
<1>2. /\ [cycle[r] EXCEPT !.pc = "pair", !.at = 1] \in Running
      /\ [cycle[r] EXCEPT !.pc = "pair", !.at = 1].pc # "write"
      /\ [cycle[r] EXCEPT !.pc = "stamp", !.error = TRUE] \in Running
      /\ [cycle[r] EXCEPT !.pc = "stamp", !.error = TRUE].pc # "write"
      /\ [cycle[r] EXCEPT !.pc = "stamp"] \in Running
      /\ [cycle[r] EXCEPT !.pc = "stamp"].pc # "write"
  BY <1>1 DEF Running
<1>3. \E c \in Running : cycle' = [cycle EXCEPT ![r] = c] /\ c.pc # "write"
  BY <1>2 DEF Connect, LastPair, SyncInv
<1>4. UNCHANGED <<sub, count>>
  BY DEF Connect, LastPair
<1> QED BY <1>3, <1>4, CycleKeeps DEF SyncInv, InPair

LEMMA ReadPairStep == ASSUME SyncAssumption, SyncInv, NEW r \in Runners, ReadPair(r) PROVE SyncInv'
<1> DEFINE c == cycle[r]
           p == Pairs[c.at]
<1>1. c \in Running /\ c.at \in DOMAIN Pairs /\ UNCHANGED <<sub, count>> /\ c.sub \in Configs
  BY DEF SyncInv, ReadPair, Running
<1>2. p \in PairSet
  BY <1>1 DEF PairSet, ToSet
<1>3. \A side \in Sides : \A x \in Readings(p, side) : x.n \in Nat
  BY <1>2 DEF Readings, SyncInv
<1>4. PICK s \in Readings(p, "src"), d \in Readings(p, "dst"), who \in {newest[p], "none"} :
         LET requests == SideRequests(s.n, d.n, ComputeTarget(s.n, d.n, c.sub.policy, who),
                                  c.sub.bidirectional)
         IN  cycle' = IF requests = <<>> \/ c.sub.dryRun
                      THEN [cycle EXCEPT ![r].at = @ + 1]
                      ELSE [cycle EXCEPT ![r].pc = "write", ![r].todo = requests]
  BY DEF ReadPair
<1>5. s.n \in Nat /\ d.n \in Nat
  BY <1>3 DEF Sides
<1> DEFINE requests == SideRequests(s.n, d.n, ComputeTarget(s.n, d.n, c.sub.policy, who),
                                c.sub.bidirectional)
<1>6. requests \in Seq(Request) /\ (c.sub.policy = "max" => Raises(requests))
  BY <1>1, <1>5, PairRaises
<1>7. cycle' = IF requests = <<>> \/ c.sub.dryRun THEN [cycle EXCEPT ![r].at = @ + 1]
               ELSE [cycle EXCEPT ![r].pc = "write", ![r].todo = requests]
  BY <1>4
<1> HIDE DEF requests
<1>8. CASE requests = <<>> \/ c.sub.dryRun
  <2>0. c.pc = "pair" /\ c.at + 1 \in Nat
    BY <1>1 DEF Running, ReadPair
  <2>1. [c EXCEPT !.at = @ + 1] \in Running /\ [c EXCEPT !.at = @ + 1].pc = "pair"
    BY <1>1, <2>0 DEF Running
  <2>2. cycle' = [cycle EXCEPT ![r] = [c EXCEPT !.at = @ + 1]]
    BY <1>7, <1>8
  <2> QED BY <1>1, <2>1, <2>2, CycleKeeps DEF SyncInv, InPair
<1>9. CASE ~(requests = <<>> \/ c.sub.dryRun)
  <2> DEFINE next == [c EXCEPT !.pc = "write", !.todo = requests]
  <2>1. next \in Running /\ next.at = c.at /\ next.todo = requests /\ next.sub = c.sub
    BY <1>1, <1>6 DEF Running
  <2>2. cycle' = [cycle EXCEPT ![r] = next]
    BY <1>7, <1>9 DEF SyncInv
  <2> HIDE DEF next
  <2>3. InPair(next)
    BY <1>1, <1>6, <1>9, <2>1 DEF InPair
  <2> QED BY <1>1, <2>1, <2>2, <2>3, CycleKeeps DEF SyncInv
<1> QED BY <1>8, <1>9

LEMMA NextPairKeeps ==
    ASSUME NEW c \in Running, InPair(c), c.pc = "write", NEW requests \in Seq(Request),
           Raises(c.todo) => Raises(requests), NEW wrote \in BOOLEAN
    PROVE  NextPair(c, requests, wrote) \in Running /\ InPair(NextPair(c, requests, wrote))
<1>1. /\ NextPair(c, requests, wrote) \in Running
      /\ NextPair(c, requests, wrote).todo = requests /\ NextPair(c, requests, wrote).sub = c.sub
      /\ NextPair(c, requests, wrote).pc = IF requests = <<>> THEN "pair" ELSE "write"
      /\ requests # <<>> => NextPair(c, requests, wrote).at = c.at
  <2>1. CASE requests = <<>>
    <3>1. NextPair(c, requests, wrote) = [c EXCEPT !.todo = requests, !.wrote = @ \/ wrote,
                                               !.pc = "pair", !.at = @ + 1]
      BY <2>1 DEF NextPair
    <3>2. c.at + 1 \in Nat /\ (c.wrote \/ wrote) \in BOOLEAN
      BY DEF Running
    <3> QED BY <2>1, <3>1, <3>2 DEF Running
  <2>2. CASE requests # <<>>
    BY <2>2 DEF NextPair, Running
  <2> QED BY <2>1, <2>2
<1> QED BY <1>1 DEF InPair

(* The request sent is a well-formed one of the cycle's pair.              *)
LEMMA SendFacts ==
    ASSUME SyncAssumption, SyncInv, NEW r \in Runners, SendRequest(r)
    PROVE  LET c == cycle[r]  q == Head(c.todo)
           IN  /\ c \in Running /\ InPair(c) /\ c.pc = "write" /\ Pairs[c.at] \in PairSet
               /\ c.todo \in Seq(Request) /\ c.todo # <<>> /\ q \in Request
               /\ c.sub.policy = "max" /\ Kind[q.side] = "plex" => q.op = "scrobble"
<1>1. cycle[r] \in Running /\ InPair(cycle[r]) /\ cycle[r].pc = "write"
  BY DEF SyncInv, SendRequest
<1>2. cycle[r].todo \in Seq(Request) /\ cycle[r].todo # <<>> /\ cycle[r].at \in DOMAIN Pairs
  BY <1>1 DEF Running, InPair
<1>3. Pairs[cycle[r].at] \in PairSet
  BY <1>2 DEF PairSet, ToSet
<1>4. Head(cycle[r].todo) \in Request /\ Head(cycle[r].todo) = cycle[r].todo[1]
      /\ 1 \in DOMAIN cycle[r].todo
  BY <1>2
<1> QED BY <1>1, <1>2, <1>3, <1>4 DEF InPair, Raises

LEMMA SendStep == ASSUME SyncAssumption, SyncInv, NEW r \in Runners, SendRequest(r) PROVE SyncInv'
<1> DEFINE c == cycle[r]
           p == Pairs[c.at]
           q == Head(c.todo)
<1>1. /\ c \in Running /\ InPair(c) /\ c.pc = "write" /\ p \in PairSet
      /\ c.todo \in Seq(Request) /\ c.todo # <<>> /\ q \in Request
  BY SendFacts
<1>2. /\ Tail(c.todo) \in Seq(Request) /\ DropSide(c.todo, q.side) \in Seq(Request)
      /\ Raises(c.todo) => Raises(Tail(c.todo)) /\ Raises(DropSide(c.todo, q.side))
  BY <1>1, LeftRaises
<1>3. \A n \in Nat : Applied(n, q) \in Nat
  BY <1>1 DEF Applied, Request
<1>4. CASE count' = [count EXCEPT ![p][q.side] = Applied(@, q)]
           /\ \E last \in BOOLEAN : cycle' = [cycle EXCEPT ![r] = NextPair(c, Tail(c.todo), last)]
  <2>1. PICK last \in BOOLEAN : cycle' = [cycle EXCEPT ![r] = NextPair(c, Tail(c.todo), last)]
    BY <1>4
  <2>2. NextPair(c, Tail(c.todo), last) \in Running /\ InPair(NextPair(c, Tail(c.todo), last))
    BY <1>1, <1>2, NextPairKeeps
  <2>3. q.side \in Sides
    BY <1>1 DEF Request
  <2>4. count' \in [PairSet -> [Sides -> Nat]]
    BY <1>1, <1>3, <1>4, <2>3 DEF SyncInv
  <2> QED BY <2>1, <2>2, <2>4, CycleKeeps DEF SendRequest
<1>5. CASE cycle' = [cycle EXCEPT ![r] = NextPair(c, DropSide(c.todo, q.side), FALSE)]
           /\ UNCHANGED count
  <2>1. /\ NextPair(c, DropSide(c.todo, q.side), FALSE) \in Running
        /\ InPair(NextPair(c, DropSide(c.todo, q.side), FALSE))
    BY <1>1, <1>2, NextPairKeeps
  <2> QED BY <1>5, <2>1, CycleKeeps DEF SendRequest, SyncInv
<1> QED BY <1>4, <1>5 DEF SendRequest

LEMMA StampStep == ASSUME SyncInv, NEW r \in Runners, StampPolled(r) PROVE SyncInv'
<1>1. Idle \in Running /\ InPair(Idle)
  BY IdleRuns DEF SyncInv
<1>2. \A s \in Runners : cycle'[s] \in {Idle, cycle[s]}
  BY DEF StampPolled, SyncInv
<1>3. \A s \in Runners : InPair(cycle[s])'
  BY <1>1, <1>2 DEF SyncInv, InPair
<1>4. cycle' \in [Runners -> Running] /\ count' = count
  BY <1>1 DEF StampPolled, SyncInv
<1>5. /\ sub'.config \in Configs /\ sub'.id \in Nat
      /\ DOMAIN sub' = {"id", "config", "exists", "synced", "status", "lastGood"}
  BY DEF StampPolled, SyncInv
<1> QED BY <1>3, <1>4, <1>5 DEF SyncInv

LEMMA OutsideStep ==
    ASSUME SyncInv,
           \/ UNCHANGED syncVars \/ IntervalElapses \/ DeleteSubscription \/ Crash
           \/ \E p \in PairSet, side \in Sides : Play(p, side)
           \/ \E c \in Configs : Upsert(c)
    PROVE  SyncInv'
<1>1. CASE UNCHANGED syncVars \/ IntervalElapses
  BY <1>1 DEF syncVars, IntervalElapses, SyncInv, InPair
<1>2. CASE DeleteSubscription
  BY <1>2 DEF DeleteSubscription, SyncInv, InPair
<1>3. CASE Crash
  BY <1>3, IdleRuns DEF Crash, SyncInv, InPair
<1>4. ASSUME NEW p \in PairSet, NEW side \in Sides, Play(p, side)
      PROVE  SyncInv'
  <2>1. count' \in [PairSet -> [Sides -> Nat]]
    BY <1>4 DEF Play, SyncInv
  <2> QED BY <1>4, <2>1 DEF Play, SyncInv, InPair
<1>5. ASSUME NEW c \in Configs, Upsert(c)
      PROVE  SyncInv'
  <2>1. /\ sub'.config \in Configs /\ sub'.id \in Nat
        /\ DOMAIN sub' = {"id", "config", "exists", "synced", "status", "lastGood"}
    <3>1. CASE sub.exists
      BY <1>5, <3>1 DEF Upsert, SyncInv
    <3>2. CASE ~sub.exists
      BY <1>5, <3>2 DEF Upsert, SyncInv
    <3> QED BY <3>1, <3>2
  <2> QED BY <1>5, <2>1 DEF Upsert, SyncInv, InPair
<1> QED BY <1>1, <1>2, <1>3, <1>4, <1>5

LEMMA Inductive == ASSUME SyncAssumption, SyncInv, [SyncNext]_syncVars PROVE SyncInv'
<1>1. ASSUME NEW r \in Runners, Cycle(r)
      PROVE  SyncInv'
  BY <1>1, MoveStep, ReadPairStep, SendStep, StampStep DEF Cycle
<1>2. CASE Tick \/ RunNow
  BY <1>2, StartStep DEF Tick, RunNow, Runners
<1> QED BY <1>1, <1>2, OutsideStep DEF SyncNext

(* No request of a cycle under max lowers a count of Plex                  *)
(* (sync_worker.py, _compute_target: "never lose a play").                 *)
THEOREM MaxNeverLowers == SyncSpec => MaxKeepsPlays
<1>1. SyncInit => SyncInv
  BY SyncAssumption, SyncInitHolds
<1>2. SyncInv /\ [SyncNext]_syncVars => SyncInv'
  BY SyncAssumption, Inductive
<1>3. ASSUME SyncInv, NEW r \in Runners, NEW p \in PairSet, NEW side \in Sides,
             SendRequest(r), cycle[r].sub.policy = "max", Kind[side] = "plex"
      PROVE  count'[p][side] >= count[p][side]
  <2> DEFINE c == cycle[r]
             q == Head(c.todo)
  <2>1. /\ Pairs[c.at] \in PairSet /\ q \in Request
        /\ Kind[q.side] = "plex" => q.op = "scrobble"
    BY <1>3, SyncAssumption, SendFacts
  <2>2. count \in [PairSet -> [Sides -> Nat]] /\ q.side \in Sides
    BY <1>3, <2>1 DEF SyncInv, Request
  <2>3. count' = count \/ count' = [count EXCEPT ![Pairs[c.at]][q.side] = Applied(@, q)]
    BY <1>3 DEF SendRequest
  <2>4. q.side = side => \A n \in Nat : Applied(n, q) >= n
    BY <1>3, <2>1 DEF Applied
  <2> QED BY <1>3, <2>1, <2>2, <2>3, <2>4
<1>4. SyncInv /\ [SyncNext]_syncVars =>
        [\A r \in Runners, p \in PairSet, side \in Sides :
            (SendRequest(r) /\ cycle[r].sub.policy = "max" /\ Kind[side] = "plex")
                => count'[p][side] >= count[p][side]]_syncVars
  BY <1>3
<1> QED BY <1>1, <1>2, <1>4, PTL DEF SyncSpec, MaxKeepsPlays

-----------------------------------------------------------------------------
(* The playlist batches                                                    *)

Places == Active \cup {"queued", "done"}

List == [id : Nat \ {0}, by : Copies, key : {Key[c] : c \in Copies}, members : SUBSET Known]

(* The shapes of the variables the properties speak of.                     *)
Typed ==
    /\ pc \in [Copies -> Places]
    /\ free \in [{Source[c] : c \in Batch} -> Nat]
    /\ events \in [DOMAIN events -> BOOLEAN] /\ DOMAIN events \subseteq Batch
    /\ todo \in [Copies -> SUBSET UNION {Members[c] : c \in Copies}]
    /\ got \in [Copies -> SUBSET Known]
    /\ into \in [Copies -> Nat]
    /\ lists \subseteq List /\ IsFiniteSet(lists)
    /\ early \subseteq Batch

(* Before the batch is set up none of its items has begun; from then on     *)
(* every item has its event.                                                *)
SetUp ==
    /\ phase = "promoted" =>
          /\ \A c \in Batch : pc[c] = "queued"
          /\ \A l \in lists : l.by \notin Batch
    /\ phase # "promoted" => DOMAIN events = Batch

(* An item cancelled before that stays cancelled and never reaches a write. *)
EarlyStays == \A c \in early : IsCancelled(c) /\ pc[c] # "write"

Wanted(c) == Members[c] \cap Known

(* A member is dropped only by a cancelled copy, and the last checkpoint    *)
(* stops that copy: at the write of a new list nothing is missing.          *)
Whole ==
    \A c \in Copies :
        /\ pc[c] = "resolve" /\ ~IsCancelled(c) => Wanted(c) \subseteq got[c] \cup todo[c]
        /\ pc[c] = "look" /\ ~IsCancelled(c) => Wanted(c) \subseteq got[c]
        /\ pc[c] = "check" /\ ~IsCancelled(c) /\ into[c] = 0 => Wanted(c) \subseteq got[c]
        /\ pc[c] = "write" /\ into[c] = 0 => Wanted(c) \subseteq got[c]

BatchInv == Typed /\ SetUp /\ EarlyStays /\ Whole /\ NoPartialList

LEMMA InitHolds == ASSUME BatchAssumption, Init PROVE BatchInv
<1>1. Typed
  BY FS_EmptySet DEF Init, Typed, Copies, Places, Active, BatchAssumption
<1>2. SetUp /\ EarlyStays /\ Whole /\ NoPartialList
  BY DEF Init, SetUp, EarlyStays, Whole, NoPartialList, Copies
<1> QED BY <1>1, <1>2 DEF BatchInv

LEMMA StopKeeps ==
    ASSUME BatchAssumption, BatchInv, Stop
    PROVE  BatchInv'
<1> USE DEF BatchInv, BatchAssumption
<1>1. Typed'
  BY DEF Stop, Typed, SetUp, EarlyStays, Whole, NoPartialList, Wanted, IsCancelled, Goto, EndCopy, Copies, Places, Active
<1>2. SetUp'
  BY DEF Stop, Typed, SetUp, EarlyStays, Whole, NoPartialList, Wanted, IsCancelled, Goto, EndCopy, Copies, Places, Active
<1>3. EarlyStays'
  BY DEF Stop, Typed, SetUp, EarlyStays, Whole, NoPartialList, Wanted, IsCancelled, Goto, EndCopy, Copies, Places, Active
<1>4. Whole'
  BY DEF Stop, Typed, SetUp, EarlyStays, Whole, NoPartialList, Wanted, IsCancelled, Goto, EndCopy, Copies, Places, Active
<1>5. NoPartialList'
  BY DEF Stop, Typed, SetUp, EarlyStays, Whole, NoPartialList, Wanted, IsCancelled, Goto, EndCopy, Copies, Places, Active
<1> QED BY <1>1, <1>2, <1>3, <1>4, <1>5

LEMMA PrepareKeeps ==
    ASSUME BatchAssumption, BatchInv, Prepare
    PROVE  BatchInv'
<1> USE DEF BatchInv, BatchAssumption
<1>1. Typed'
  BY DEF Prepare, Prepared, Typed, SetUp, EarlyStays, Whole, NoPartialList, Wanted, IsCancelled, Goto, EndCopy, Copies, Places, Active
<1>2. SetUp'
  BY DEF Prepare, Prepared, Typed, SetUp, EarlyStays, Whole, NoPartialList, Wanted, IsCancelled, Goto, EndCopy, Copies, Places, Active
<1>3. EarlyStays'
  BY DEF Prepare, Prepared, Typed, SetUp, EarlyStays, Whole, NoPartialList, Wanted, IsCancelled, Goto, EndCopy, Copies, Places, Active
<1>4. Whole'
  BY DEF Prepare, Prepared, Typed, SetUp, EarlyStays, Whole, NoPartialList, Wanted, IsCancelled, Goto, EndCopy, Copies, Places, Active
<1>5. NoPartialList'
  BY DEF Prepare, Prepared, Typed, SetUp, EarlyStays, Whole, NoPartialList, Wanted, IsCancelled, Goto, EndCopy, Copies, Places, Active
<1> QED BY <1>1, <1>2, <1>3, <1>4, <1>5

LEMMA EndBatchKeeps ==
    ASSUME BatchAssumption, BatchInv, EndBatch
    PROVE  BatchInv'
<1> USE DEF BatchInv, BatchAssumption
<1>1. Typed'
  BY DEF EndBatch, Typed, SetUp, EarlyStays, Whole, NoPartialList, Wanted, IsCancelled, Goto, EndCopy, Copies, Places, Active
<1>2. SetUp'
  BY DEF EndBatch, Typed, SetUp, EarlyStays, Whole, NoPartialList, Wanted, IsCancelled, Goto, EndCopy, Copies, Places, Active
<1>3. EarlyStays'
  BY DEF EndBatch, Typed, SetUp, EarlyStays, Whole, NoPartialList, Wanted, IsCancelled, Goto, EndCopy, Copies, Places, Active
<1>4. Whole'
  BY DEF EndBatch, Typed, SetUp, EarlyStays, Whole, NoPartialList, Wanted, IsCancelled, Goto, EndCopy, Copies, Places, Active
<1>5. NoPartialList'
  BY DEF EndBatch, Typed, SetUp, EarlyStays, Whole, NoPartialList, Wanted, IsCancelled, Goto, EndCopy, Copies, Places, Active
<1> QED BY <1>1, <1>2, <1>3, <1>4, <1>5

LEMMA CancelItemKeeps ==
    ASSUME BatchAssumption, BatchInv, NEW c \in Batch, CancelItem(c)
    PROVE  BatchInv'
<1> USE DEF BatchInv, BatchAssumption
<1>1. Typed'
  BY DEF CancelItem, Typed, SetUp, EarlyStays, Whole, NoPartialList, Wanted, IsCancelled, Goto, EndCopy, Copies, Places, Active
<1>2. SetUp'
  BY DEF CancelItem, Typed, SetUp, EarlyStays, Whole, NoPartialList, Wanted, IsCancelled, Goto, EndCopy, Copies, Places, Active
<1>3. EarlyStays'
  BY DEF CancelItem, Typed, SetUp, EarlyStays, Whole, NoPartialList, Wanted, IsCancelled, Goto, EndCopy, Copies, Places, Active
<1>4. Whole'
  BY DEF CancelItem, Typed, SetUp, EarlyStays, Whole, NoPartialList, Wanted, IsCancelled, Goto, EndCopy, Copies, Places, Active
<1>5. NoPartialList'
  BY DEF CancelItem, Typed, SetUp, EarlyStays, Whole, NoPartialList, Wanted, IsCancelled, Goto, EndCopy, Copies, Places, Active
<1> QED BY <1>1, <1>2, <1>3, <1>4, <1>5

LEMMA TakeKeeps ==
    ASSUME BatchAssumption, BatchInv, NEW c \in Batch, Take(c)
    PROVE  BatchInv'
<1> USE DEF BatchInv, BatchAssumption
<1>1. Typed'
  BY DEF Take, Typed, SetUp, EarlyStays, Whole, NoPartialList, Wanted, IsCancelled, Goto, EndCopy, Copies, Places, Active
<1>2. SetUp'
  BY DEF Take, Typed, SetUp, EarlyStays, Whole, NoPartialList, Wanted, IsCancelled, Goto, EndCopy, Copies, Places, Active
<1>3. EarlyStays'
  BY DEF Take, Typed, SetUp, EarlyStays, Whole, NoPartialList, Wanted, IsCancelled, Goto, EndCopy, Copies, Places, Active
<1>4. Whole'
  BY DEF Take, Typed, SetUp, EarlyStays, Whole, NoPartialList, Wanted, IsCancelled, Goto, EndCopy, Copies, Places, Active
<1>5. NoPartialList'
  BY DEF Take, Typed, SetUp, EarlyStays, Whole, NoPartialList, Wanted, IsCancelled, Goto, EndCopy, Copies, Places, Active
<1> QED BY <1>1, <1>2, <1>3, <1>4, <1>5

LEMMA ForwardKeeps ==
    ASSUME BatchAssumption, BatchInv, NEW c \in Batch, Forward(c)
    PROVE  BatchInv'
<1> USE DEF BatchInv, BatchAssumption
<1>1. Typed'
  BY DEF Forward, Typed, SetUp, EarlyStays, Whole, NoPartialList, Wanted, IsCancelled, Goto, EndCopy, Copies, Places, Active
<1>2. SetUp'
  BY DEF Forward, Typed, SetUp, EarlyStays, Whole, NoPartialList, Wanted, IsCancelled, Goto, EndCopy, Copies, Places, Active
<1>3. EarlyStays'
  BY DEF Forward, Typed, SetUp, EarlyStays, Whole, NoPartialList, Wanted, IsCancelled, Goto, EndCopy, Copies, Places, Active
<1>4. Whole'
  BY DEF Forward, Typed, SetUp, EarlyStays, Whole, NoPartialList, Wanted, IsCancelled, Goto, EndCopy, Copies, Places, Active
<1>5. NoPartialList'
  BY DEF Forward, Typed, SetUp, EarlyStays, Whole, NoPartialList, Wanted, IsCancelled, Goto, EndCopy, Copies, Places, Active
<1> QED BY <1>1, <1>2, <1>3, <1>4, <1>5

LEMMA PollKeeps ==
    ASSUME BatchAssumption, BatchInv, NEW c \in Batch, Poll(c)
    PROVE  BatchInv'
<1> USE DEF BatchInv, BatchAssumption
<1>1. Typed'
  BY DEF Poll, Typed, SetUp, EarlyStays, Whole, NoPartialList, Wanted, IsCancelled, Goto, EndCopy, Copies, Places, Active
<1>2. SetUp'
  BY DEF Poll, Typed, SetUp, EarlyStays, Whole, NoPartialList, Wanted, IsCancelled, Goto, EndCopy, Copies, Places, Active
<1>3. EarlyStays'
  BY DEF Poll, Typed, SetUp, EarlyStays, Whole, NoPartialList, Wanted, IsCancelled, Goto, EndCopy, Copies, Places, Active
<1>4. Whole'
  BY DEF Poll, Typed, SetUp, EarlyStays, Whole, NoPartialList, Wanted, IsCancelled, Goto, EndCopy, Copies, Places, Active
<1>5. NoPartialList'
  BY DEF Poll, Typed, SetUp, EarlyStays, Whole, NoPartialList, Wanted, IsCancelled, Goto, EndCopy, Copies, Places, Active
<1> QED BY <1>1, <1>2, <1>3, <1>4, <1>5

LEMMA AcquireKeeps ==
    ASSUME BatchAssumption, BatchInv, NEW c \in Batch, Acquire(c)
    PROVE  BatchInv'
<1> USE DEF BatchInv, BatchAssumption
<1>1. Typed'
  BY DEF Acquire, Typed, SetUp, EarlyStays, Whole, NoPartialList, Wanted, IsCancelled, Goto, EndCopy, Copies, Places, Active
<1>2. SetUp'
  BY DEF Acquire, Typed, SetUp, EarlyStays, Whole, NoPartialList, Wanted, IsCancelled, Goto, EndCopy, Copies, Places, Active
<1>3. EarlyStays'
  BY DEF Acquire, Typed, SetUp, EarlyStays, Whole, NoPartialList, Wanted, IsCancelled, Goto, EndCopy, Copies, Places, Active
<1>4. Whole'
  BY DEF Acquire, Typed, SetUp, EarlyStays, Whole, NoPartialList, Wanted, IsCancelled, Goto, EndCopy, Copies, Places, Active
<1>5. NoPartialList'
  BY DEF Acquire, Typed, SetUp, EarlyStays, Whole, NoPartialList, Wanted, IsCancelled, Goto, EndCopy, Copies, Places, Active
<1> QED BY <1>1, <1>2, <1>3, <1>4, <1>5

LEMMA ReleaseKeeps ==
    ASSUME BatchAssumption, BatchInv, NEW c \in Batch, Release(c)
    PROVE  BatchInv'
<1> USE DEF BatchInv, BatchAssumption
<1>1. Typed'
  BY DEF Release, Typed, SetUp, EarlyStays, Whole, NoPartialList, Wanted, IsCancelled, Goto, EndCopy, Copies, Places, Active
<1>2. SetUp'
  BY DEF Release, Typed, SetUp, EarlyStays, Whole, NoPartialList, Wanted, IsCancelled, Goto, EndCopy, Copies, Places, Active
<1>3. EarlyStays'
  BY DEF Release, Typed, SetUp, EarlyStays, Whole, NoPartialList, Wanted, IsCancelled, Goto, EndCopy, Copies, Places, Active
<1>4. Whole'
  BY DEF Release, Typed, SetUp, EarlyStays, Whole, NoPartialList, Wanted, IsCancelled, Goto, EndCopy, Copies, Places, Active
<1>5. NoPartialList'
  BY DEF Release, Typed, SetUp, EarlyStays, Whole, NoPartialList, Wanted, IsCancelled, Goto, EndCopy, Copies, Places, Active
<1> QED BY <1>1, <1>2, <1>3, <1>4, <1>5

LEMMA StartSyncKeeps ==
    ASSUME BatchAssumption, BatchInv, NEW c \in Syncs, StartSync(c)
    PROVE  BatchInv'
<1> USE DEF BatchInv, BatchAssumption
<1>1. Typed'
  BY DEF StartSync, Typed, SetUp, EarlyStays, Whole, NoPartialList, Wanted, IsCancelled, Goto, EndCopy, Copies, Places, Active
<1>2. SetUp'
  BY DEF StartSync, Typed, SetUp, EarlyStays, Whole, NoPartialList, Wanted, IsCancelled, Goto, EndCopy, Copies, Places, Active
<1>3. EarlyStays'
  BY DEF StartSync, Typed, SetUp, EarlyStays, Whole, NoPartialList, Wanted, IsCancelled, Goto, EndCopy, Copies, Places, Active
<1>4. Whole'
  BY DEF StartSync, Typed, SetUp, EarlyStays, Whole, NoPartialList, Wanted, IsCancelled, Goto, EndCopy, Copies, Places, Active
<1>5. NoPartialList'
  BY DEF StartSync, Typed, SetUp, EarlyStays, Whole, NoPartialList, Wanted, IsCancelled, Goto, EndCopy, Copies, Places, Active
<1> QED BY <1>1, <1>2, <1>3, <1>4, <1>5

LEMMA FindUsersKeeps ==
    ASSUME BatchAssumption, BatchInv, NEW c \in Copies, FindUsers(c)
    PROVE  BatchInv'
<1> USE DEF BatchInv, BatchAssumption
<1>1. Typed'
  BY DEF FindUsers, Fault, Typed, SetUp, EarlyStays, Whole, NoPartialList, Wanted, IsCancelled, Goto, EndCopy, Copies, Places, Active
<1>2. SetUp'
  BY DEF FindUsers, Fault, Typed, SetUp, EarlyStays, Whole, NoPartialList, Wanted, IsCancelled, Goto, EndCopy, Copies, Places, Active
<1>3. EarlyStays'
  BY DEF FindUsers, Fault, Typed, SetUp, EarlyStays, Whole, NoPartialList, Wanted, IsCancelled, Goto, EndCopy, Copies, Places, Active
<1>4. Whole'
  <2>1. pc'[c] \in {"users", "release", "done"} /\ \A d \in Copies \ {c} : pc'[d] = pc[d]
    BY DEF FindUsers, Goto, EndCopy, Typed
  <2>2. events' = events /\ got' = got /\ todo' = todo /\ into' = into
    BY DEF FindUsers
  <2> QED BY <2>1, <2>2 DEF Whole, Wanted, IsCancelled
<1>5. NoPartialList'
  BY DEF FindUsers, Fault, Typed, SetUp, EarlyStays, Whole, NoPartialList, Wanted, IsCancelled, Goto, EndCopy, Copies, Places, Active
<1> QED BY <1>1, <1>2, <1>3, <1>4, <1>5

LEMMA LoadKeeps ==
    ASSUME BatchAssumption, BatchInv, NEW c \in Copies, Load(c)
    PROVE  BatchInv'
<1> USE DEF BatchInv, BatchAssumption
<1>1. Typed'
  BY DEF Load, Fault, Typed, SetUp, EarlyStays, Whole, NoPartialList, Wanted, IsCancelled, Goto, EndCopy, Copies, Places, Active
<1>2. SetUp'
  BY DEF Load, Fault, Typed, SetUp, EarlyStays, Whole, NoPartialList, Wanted, IsCancelled, Goto, EndCopy, Copies, Places, Active
<1>3. EarlyStays'
  BY DEF Load, Fault, Typed, SetUp, EarlyStays, Whole, NoPartialList, Wanted, IsCancelled, Goto, EndCopy, Copies, Places, Active
<1>4. Whole'
  BY DEF Load, Fault, Typed, SetUp, EarlyStays, Whole, NoPartialList, Wanted, IsCancelled, Goto, EndCopy, Copies, Places, Active
<1>5. NoPartialList'
  BY DEF Load, Fault, Typed, SetUp, EarlyStays, Whole, NoPartialList, Wanted, IsCancelled, Goto, EndCopy, Copies, Places, Active
<1> QED BY <1>1, <1>2, <1>3, <1>4, <1>5

LEMMA ResolveKeeps ==
    ASSUME BatchAssumption, BatchInv, NEW c \in Copies, Resolve(c)
    PROVE  BatchInv'
<1> USE DEF BatchInv, BatchAssumption
<1>1. Typed'
  BY DEF Resolve, Typed, SetUp, EarlyStays, Whole, NoPartialList, Wanted, IsCancelled, Goto, EndCopy, Copies, Places, Active
<1>2. SetUp'
  BY DEF Resolve, Typed, SetUp, EarlyStays, Whole, NoPartialList, Wanted, IsCancelled, Goto, EndCopy, Copies, Places, Active
<1>3. EarlyStays'
  BY DEF Resolve, Typed, SetUp, EarlyStays, Whole, NoPartialList, Wanted, IsCancelled, Goto, EndCopy, Copies, Places, Active
<1>4. Whole'
  BY DEF Resolve, Typed, SetUp, EarlyStays, Whole, NoPartialList, Wanted, IsCancelled, Goto, EndCopy, Copies, Places, Active
<1>5. NoPartialList'
  BY DEF Resolve, Typed, SetUp, EarlyStays, Whole, NoPartialList, Wanted, IsCancelled, Goto, EndCopy, Copies, Places, Active
<1> QED BY <1>1, <1>2, <1>3, <1>4, <1>5

LEMMA LookKeeps ==
    ASSUME BatchAssumption, BatchInv, NEW c \in Copies, Look(c)
    PROVE  BatchInv'
<1> USE DEF BatchInv, BatchAssumption
<1>1. Typed'
  BY DEF Look, Fault, SameTitle, List, Typed, SetUp, EarlyStays, Whole, NoPartialList, Wanted, IsCancelled, Goto, EndCopy, Copies, Places, Active
<1>2. SetUp'
  BY DEF Look, Fault, SameTitle, List, Typed, SetUp, EarlyStays, Whole, NoPartialList, Wanted, IsCancelled, Goto, EndCopy, Copies, Places, Active
<1>3. EarlyStays'
  BY DEF Look, Fault, SameTitle, List, Typed, SetUp, EarlyStays, Whole, NoPartialList, Wanted, IsCancelled, Goto, EndCopy, Copies, Places, Active
<1>4. Whole'
  BY DEF Look, Fault, SameTitle, List, Typed, SetUp, EarlyStays, Whole, NoPartialList, Wanted, IsCancelled, Goto, EndCopy, Copies, Places, Active
<1>5. NoPartialList'
  BY DEF Look, Fault, SameTitle, List, Typed, SetUp, EarlyStays, Whole, NoPartialList, Wanted, IsCancelled, Goto, EndCopy, Copies, Places, Active
<1> QED BY <1>1, <1>2, <1>3, <1>4, <1>5

LEMMA CheckWriteKeeps ==
    ASSUME BatchAssumption, BatchInv, NEW c \in Copies, CheckWrite(c)
    PROVE  BatchInv'
<1> USE DEF BatchInv, BatchAssumption
<1>1. Typed'
  BY DEF CheckWrite, Typed, SetUp, EarlyStays, Whole, NoPartialList, Wanted, IsCancelled, Goto, EndCopy, Copies, Places, Active
<1>2. SetUp'
  BY DEF CheckWrite, Typed, SetUp, EarlyStays, Whole, NoPartialList, Wanted, IsCancelled, Goto, EndCopy, Copies, Places, Active
<1>3. EarlyStays'
  BY DEF CheckWrite, Typed, SetUp, EarlyStays, Whole, NoPartialList, Wanted, IsCancelled, Goto, EndCopy, Copies, Places, Active
<1>4. Whole'
  BY DEF CheckWrite, Typed, SetUp, EarlyStays, Whole, NoPartialList, Wanted, IsCancelled, Goto, EndCopy, Copies, Places, Active
<1>5. NoPartialList'
  BY DEF CheckWrite, Typed, SetUp, EarlyStays, Whole, NoPartialList, Wanted, IsCancelled, Goto, EndCopy, Copies, Places, Active
<1> QED BY <1>1, <1>2, <1>3, <1>4, <1>5

LEMMA WriteKeeps ==
    ASSUME BatchAssumption, BatchInv, NEW c \in Copies, Write(c)
    PROVE  BatchInv'
<1> USE DEF BatchInv, BatchAssumption
<1>1. Typed'
  <2>1. pc' \in [Copies -> Places] /\ UNCHANGED <<free, events, todo, got, into, early>>
    BY DEF Write, EndCopy, Goto, Typed, Places, Active
  <2>2. lists' \subseteq List /\ IsFiniteSet(lists')
    <3>1. CASE lists' = lists
      BY <3>1 DEF Typed
    <3>2. CASE lists' = Written(c) /\ into[c] = 0
      <4> DEFINE new == [id |-> Cardinality(lists) + 1, by |-> c, key |-> Key[c],
                         members |-> got[c]]
      <4>1. Cardinality(lists) \in Nat
        BY FS_CardinalityType DEF Typed
      <4>2. new \in List
        BY <4>1 DEF List, Typed
      <4>3. lists' = lists \cup {new}
        BY <3>2 DEF Written
      <4> QED BY <4>2, <4>3, FS_AddElement DEF Typed
    <3>3. CASE lists' = Written(c) /\ into[c] # 0
      <4> DEFINE grown(l) == IF l.id = into[c] THEN [l EXCEPT !.members = @ \cup got[c]] ELSE l
      <4>1. lists' = {grown(l) : l \in lists}
        BY <3>3 DEF Written
      <4>2. \A l \in lists : grown(l) \in List
        BY DEF List, Typed
      <4>3. IsFiniteSet({grown(l) : l \in lists})
        <5> DEFINE f == [l \in lists |-> grown(l)]
        <5>1. f \in Surjection(lists, {grown(l) : l \in lists})
          <6> HIDE DEF grown
          <6>1. f \in [lists -> {grown(l) : l \in lists}]
            OBVIOUS
          <6>2. \A t \in {grown(l) : l \in lists} : \E s \in lists : f[s] = t
            OBVIOUS
          <6> HIDE DEF f
          <6> QED BY <6>1, <6>2, Fun_IsSurj
        <5> HIDE DEF f, grown
        <5> QED BY <5>1, FS_Surjection DEF Typed
      <4> QED BY <4>1, <4>2, <4>3
    <3> QED BY <3>1, <3>2, <3>3 DEF Write
  <2> QED BY <2>1, <2>2 DEF Typed
<1>2. SetUp'
  BY DEF Write, Written, List, Fault, Typed, SetUp, EarlyStays, Whole, NoPartialList, Wanted, IsCancelled, Goto, EndCopy, Copies, Places, Active
<1>3. EarlyStays'
  BY DEF Write, Written, List, Fault, Typed, SetUp, EarlyStays, Whole, NoPartialList, Wanted, IsCancelled, Goto, EndCopy, Copies, Places, Active
<1>4. Whole'
  BY DEF Write, Written, List, Fault, Typed, SetUp, EarlyStays, Whole, NoPartialList, Wanted, IsCancelled, Goto, EndCopy, Copies, Places, Active
<1>5. NoPartialList'
  BY DEF Write, Written, List, Fault, Typed, SetUp, EarlyStays, Whole, NoPartialList, Wanted, IsCancelled, Goto, EndCopy, Copies, Places, Active
<1> QED BY <1>1, <1>2, <1>3, <1>4, <1>5

LEMMA BatchStep ==
    ASSUME BatchAssumption, BatchInv, [Next]_vars
    PROVE  BatchInv'
<1>1. CASE UNCHANGED vars
  BY <1>1 DEF vars, BatchInv, Typed, SetUp, EarlyStays, Whole, NoPartialList, Wanted,
              IsCancelled
<1>2. CASE Stop \/ Prepare \/ EndBatch
  BY <1>2, StopKeeps, PrepareKeeps, EndBatchKeeps
<1>3. ASSUME NEW c \in Batch, CancelItem(c) \/ ItemStep(c)
      PROVE  BatchInv'
  BY <1>3, CancelItemKeeps, TakeKeeps, ForwardKeeps, PollKeeps, AcquireKeeps, ReleaseKeeps
     DEF ItemStep
<1>4. ASSUME NEW c \in Syncs, StartSync(c)
      PROVE  BatchInv'
  BY <1>4, StartSyncKeeps
<1>5. ASSUME NEW c \in Copies, CopyStep(c)
      PROVE  BatchInv'
  BY <1>5, FindUsersKeeps, LoadKeeps, ResolveKeeps, LookKeeps, CheckWriteKeeps, WriteKeeps
     DEF CopyStep
<1> QED BY <1>1, <1>2, <1>3, <1>4, <1>5 DEF Next, Finished

LEMMA BatchAlways == Spec => []BatchInv
<1>1. Init => BatchInv
  BY InitHolds, BatchAssumption
<1>2. BatchInv /\ [Next]_vars => BatchInv'
  BY BatchStep, BatchAssumption
<1> QED BY <1>1, <1>2, PTL DEF Spec

-----------------------------------------------------------------------------
(* The slots.                                                               *)

Holders(s) == {c \in Batch : Source[c] = s /\ pc[c] \in HasSlot}

LEMMA HoldersFinite == ASSUME BatchAssumption PROVE \A s : IsFiniteSet(Holders(s))
BY FS_Subset DEF BatchAssumption, Holders

(* A step of a copy that neither takes nor gives back a slot.               *)
LEMMA SlotKept ==
    ASSUME Typed, SlotsAccounted, UNCHANGED free, NEW c \in Copies, NEW at, Goto(c, at),
           c \in Batch => (pc[c] \in HasSlot <=> at \in HasSlot)
    PROVE  SlotsAccounted'
<1>1. \A d \in Batch : pc'[d] \in HasSlot <=> pc[d] \in HasSlot
  BY DEF Typed, Goto, Copies
<1>2. \A s : Holders(s)' = Holders(s)
  BY <1>1 DEF Holders
<1> QED BY <1>2 DEF SlotsAccounted, Holders

LEMMA SlotsIdle ==
    ASSUME SlotsAccounted, UNCHANGED <<free, pc>>
    PROVE  SlotsAccounted'
BY DEF SlotsAccounted

(* The slot taken is the one the copy now holds.                            *)
LEMMA SlotTaken ==
    ASSUME BatchAssumption, Typed, SlotsAccounted, NEW c \in Batch, Acquire(c)
    PROVE  SlotsAccounted'
<1>1. CASE free[Source[c]] = 0
  <2>1. UNCHANGED free /\ Goto(c, "slot")
    BY <1>1 DEF Acquire
  <2> QED BY <2>1, SlotKept DEF Acquire, HasSlot, Active, Copies
<1>2. CASE free[Source[c]] > 0
  <2>1. /\ free' = [free EXCEPT ![Source[c]] = @ - 1]
        /\ Goto(c, "start") /\ pc[c] = "acquire"
    BY <1>2 DEF Acquire
  <2> SUFFICES ASSUME NEW s \in DOMAIN free
               PROVE  free'[s] + Cardinality(Holders(s)') = Depth
    BY <2>1 DEF SlotsAccounted, Holders
  <2>2. free[s] \in Nat /\ Cardinality(Holders(s)) \in Nat
    BY HoldersFinite, FS_CardinalityType DEF Typed
  <2>3. free[s] + Cardinality(Holders(s)) = Depth
    BY DEF SlotsAccounted, Holders
  <2>4. CASE s = Source[c]
    <3>1. Holders(s)' = Holders(s) \cup {c} /\ c \notin Holders(s)
      BY <2>1, <2>4 DEF Holders, Goto, Typed, HasSlot, Active, Copies
    <3>2. Cardinality(Holders(s)') = Cardinality(Holders(s)) + 1
      BY <3>1, HoldersFinite, FS_AddElement
    <3> QED BY <2>1, <2>2, <2>3, <2>4, <3>2, <1>2 DEF Typed
  <2>5. CASE s # Source[c]
    <3>1. Holders(s)' = Holders(s) /\ free'[s] = free[s]
      BY <2>1, <2>5 DEF Holders, Goto, Typed, HasSlot, Active, Copies
    <3> QED BY <2>3, <3>1
  <2> QED BY <2>4, <2>5
<1> QED BY <1>1, <1>2 DEF Acquire

LEMMA SlotReturned ==
    ASSUME BatchAssumption, Typed, SlotsAccounted, NEW c \in Batch, Release(c)
    PROVE  SlotsAccounted'
<1>1. /\ free' = [free EXCEPT ![Source[c]] = @ + 1]
      /\ Goto(c, "done") /\ pc[c] = "release"
  BY DEF Release
<1> SUFFICES ASSUME NEW s \in DOMAIN free
             PROVE  free'[s] + Cardinality(Holders(s)') = Depth
  BY <1>1 DEF SlotsAccounted, Holders
<1>2. free[s] \in Nat /\ Cardinality(Holders(s)) \in Nat
  BY HoldersFinite, FS_CardinalityType DEF Typed
<1>3. free[s] + Cardinality(Holders(s)) = Depth
  BY DEF SlotsAccounted, Holders
<1>4. CASE s = Source[c]
  <2>1. Holders(s)' = Holders(s) \ {c} /\ c \in Holders(s)
    BY <1>1, <1>4 DEF Holders, Goto, Typed, HasSlot, Active, Copies
  <2>2. Cardinality(Holders(s)') = Cardinality(Holders(s)) - 1
    BY <2>1, HoldersFinite, FS_RemoveElement
  <2> QED BY <1>1, <1>2, <1>3, <1>4, <2>2 DEF Typed
<1>5. CASE s # Source[c]
  <2>1. Holders(s)' = Holders(s) /\ free'[s] = free[s]
    BY <1>1, <1>5 DEF Holders, Goto, Typed, HasSlot, Active, Copies
  <2> QED BY <1>3, <2>1
<1> QED BY <1>4, <1>5

LEMMA SlotsStep ==
    ASSUME BatchAssumption, Typed, SlotsAccounted, [Next]_vars
    PROVE  SlotsAccounted'
<1>1. CASE UNCHANGED vars \/ Stop \/ Prepare \/ EndBatch \/ Finished
  BY <1>1, SlotsIdle DEF vars, Stop, Prepare, EndBatch, Finished
<1>2. ASSUME NEW c \in Batch, CancelItem(c) \/ Forward(c)
      PROVE  SlotsAccounted'
  BY <1>2, SlotsIdle DEF CancelItem, Forward
<1>3. ASSUME NEW c \in Batch, Take(c) \/ Poll(c)
      PROVE  SlotsAccounted'
  <2>1. UNCHANGED free /\ pc[c] \notin HasSlot
    BY <1>3 DEF Take, Poll, HasSlot, Active
  <2>2. \E at \in {"done", "slot", "acquire"} : Goto(c, at)
    BY <1>3 DEF Take, Poll
  <2> QED BY <2>1, <2>2, SlotKept DEF HasSlot, Active, Copies
<1>4. ASSUME NEW c \in Batch, Acquire(c) \/ Release(c)
      PROVE  SlotsAccounted'
  BY <1>4, SlotTaken, SlotReturned
<1>5. ASSUME NEW c \in Syncs, StartSync(c)
      PROVE  SlotsAccounted'
  BY <1>5, SlotKept DEF StartSync, Copies, BatchAssumption
<1>6. ASSUME NEW c \in Copies, CopyStep(c)
      PROVE  SlotsAccounted'
  <2>1. UNCHANGED free /\ pc[c] \in {"start", "users", "resolve", "look", "check", "write"}
    BY <1>6 DEF CopyStep, FindUsers, Load, Resolve, Look, CheckWrite, Write
  <2> DEFINE Moves == \E at \in HasSlot \cup {"done"} :
                          Goto(c, at) /\ (c \in Batch => at \in HasSlot)
  <2>2. \A at \in HasSlot : Goto(c, at) => Moves
    OBVIOUS
  <2>3. \A r : EndCopy(c, r) => Moves
    BY DEF EndCopy, HasSlot, Active
  <2>4. {"users", "resolve", "look", "check", "write"} \subseteq HasSlot
    BY DEF HasSlot, Active
  <2>5. Moves
    <3> HIDE DEF Moves
    <3>1. CASE FindUsers(c) \/ CheckWrite(c) \/ Write(c)
      BY <3>1, <2>2, <2>3, <2>4 DEF FindUsers, CheckWrite, Write
    <3>2. CASE Load(c)
      BY <3>2, <2>2, <2>3, <2>4 DEF Load
    <3>3. CASE Resolve(c)
      BY <3>3, <2>2, <2>4 DEF Resolve
    <3>4. CASE Look(c)
      BY <3>4, <2>2, <2>3, <2>4 DEF Look
    <3> QED BY <1>6, <3>1, <3>2, <3>3, <3>4 DEF CopyStep
  <2> QED BY <2>1, <2>5, SlotKept DEF HasSlot, Active
<1> QED BY <1>1, <1>2, <1>3, <1>4, <1>5, <1>6 DEF Next, ItemStep

-----------------------------------------------------------------------------
(* Whatever is stopped, cancelled or fails, every slot of a source is free  *)
(* or held by one copy that will give it back (_run_one's finally clause).  *)
THEOREM SlotsSafe == Spec => []SlotsAccounted
<1>1. Init => SlotsAccounted
  <2> SUFFICES ASSUME Init, NEW s \in DOMAIN free
               PROVE  free[s] + Cardinality(Holders(s)) = Depth
    BY DEF SlotsAccounted, Holders
  <2>1. Holders(s) = {} /\ free[s] = Depth
    BY DEF Init, Holders, HasSlot, Active, Copies
  <2> QED BY <2>1, FS_EmptySet, BatchAssumption DEF BatchAssumption
<1>2. Typed /\ SlotsAccounted /\ [Next]_vars => SlotsAccounted'
  BY SlotsStep, BatchAssumption
<1>3. BatchInv => Typed
  BY DEF BatchInv
<1> QED BY <1>1, <1>2, <1>3, BatchAlways, PTL DEF Spec

(* A copy that is cancelled leaves no list or a whole one, and an item      *)
(* cancelled before the batch is set up writes nothing (copy.py:470,        *)
(* jobs.py:428).                                                            *)
THEOREM CopiesAreWhole == Spec => []NoPartialList
<1>1. BatchInv => NoPartialList
  BY DEF BatchInv
<1> QED BY <1>1, BatchAlways, PTL
=============================================================================
