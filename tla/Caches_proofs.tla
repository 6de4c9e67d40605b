---------------------------- MODULE Caches_proofs ---------------------------
(* Proofs about the caches of what is on a server.  The watermark of a      *)
(* mirrored section hides no edit; members served from the cache of the     *)
(* collections are as new as the walk; a cached list of playlists is one    *)
(* listing of the server: for any sections, items, users, threads, failures *)
(* and requests.                                                            *)
EXTENDS ServerMirror, PlaylistCache, CollectionCache, FiniteSetTheorems, TLAPS

-----------------------------------------------------------------------------
(* The mirror: the invariant                                                *)

SectionInfo == [size : Nat, at : Nat, known : BOOLEAN]

Task == [pc : {"idle", "next", "claim", "wait", "walk", "apply", "stamp", "release"},
         force : BOOLEAN, left : SUBSET Sections, info : [Sections -> SectionInfo],
         sec : Sections \cup {Idle.sec}, full : BOOLEAN, since : Nat,
         got : [Keys -> Nat], blank : BOOLEAN]

Typed ==
    /\ clock \in Nat \ {0}
    /\ live \in [Keys -> Nat] /\ rows \in [Keys -> Nat] /\ media \in [Keys -> Nat]
    /\ updated \in [Sections -> Nat] /\ state \in [Sections -> SectionInfo]
    /\ building \in [Sections -> SUBSET Walkers]
    /\ walker \in [Walkers -> Task]

\* No update time of a section, reported, listed or stored, is in the future.
Timed ==
    \A s \in Sections :
        /\ updated[s] <= clock /\ state[s].at <= clock
        /\ \A w \in Walkers : walker[w].info[s].at <= clock

Syncing(w) == walker[w].pc \in {"walk", "apply", "stamp", "release"}

Claimed ==
    \A w \in Walkers :
        /\ walker[w].pc \notin {"idle", "next"} => walker[w].sec \in Sections
        /\ Syncing(w) => building[walker[w].sec] = {w}

\* A delta reads, or has read, only what was saved after its start: the
\* mirror must have the rest already.  A full sync reads everything.
Delta(w) == walker[w].pc \in {"claim", "walk", "apply"} /\ ~walker[w].full

Behind(w) ==
    /\ walker[w].pc \in {"claim", "walk"} /\ walker[w].full => walker[w].since = 0
    /\ Delta(w) =>
        /\ walker[w].since < clock
        /\ walker[w].sec \notin excused =>
              \A k \in Present(walker[w].sec) :
                  live[k] <= walker[w].since => rows[k] = live[k]

\* What w has in its hands of the item k: the item as it is, nothing because
\* it is older than the delta's start, or what an edit after the reading has
\* made old; such an edit is at or past every time the section is known by.
Read(w, k) ==
    LET s == walker[w].sec IN
    \/ walker[w].got[k] = live[k]
    \/ ~walker[w].full /\ live[k] <= walker[w].since /\ walker[w].got[k] = 0
    \/ /\ walker[w].info[s].at <= live[k] /\ state[s].at <= live[k]
       /\ \A v \in Walkers : Delta(v) /\ walker[v].sec = s => walker[v].since < live[k]

Reading(w) ==
    walker[w].pc = "apply" =>
        /\ \A k \in Keys : walker[w].got[k] > 0 => Home[k] = walker[w].sec
        /\ ~walker[w].blank => \A k \in Present(walker[w].sec) : Read(w, k)

\* The rows bear the watermark that is about to be stored.
Stampable(w) ==
    walker[w].pc = "stamp" /\ walker[w].sec \notin excused =>
        \A k \in Present(walker[w].sec) :
            live[k] < walker[w].info[walker[w].sec].at => rows[k] = live[k]

MirrorInv ==
    /\ Typed /\ Timed /\ Claimed /\ WatermarkCovers
    /\ \A w \in Walkers : Behind(w) /\ Reading(w) /\ Stampable(w)

-----------------------------------------------------------------------------
(* Lemmas                                                                   *)

LEMMA InfoTyped ==
    ASSUME MirrorAssumption, Typed, Timed, NEW s \in Sections
    PROVE  Info(s) \in SectionInfo /\ Info(s).at <= clock
<1>1. IsFiniteSet(Present(s))
  <2>1. Present(s) \subseteq Keys
    BY DEF Present, Here
  <2> QED BY <2>1, FS_Subset DEF MirrorAssumption
<1>2. Cardinality(Present(s)) \in Nat
  BY <1>1, FS_CardinalityType
<1> QED BY <1>2 DEF Info, SectionInfo, Typed, Timed

LEMMA IdleTyped ==
    ASSUME MirrorAssumption
    PROVE  /\ None \in SectionInfo /\ None.at = 0 /\ ~None.known
           /\ Idle \in Task /\ Idle.pc = "idle" /\ Idle.info = [s \in Sections |-> None]
<1>1. None \in SectionInfo /\ None.at = 0 /\ ~None.known
  BY DEF None, SectionInfo
<1> QED BY <1>1 DEF Idle, Task

LEMMA InitHolds == ASSUME MirrorAssumption, Init PROVE MirrorInv
<1>1. Typed
  BY IdleTyped DEF Init, Typed, MirrorAssumption
<1>2. Timed /\ Claimed /\ WatermarkCovers
  BY IdleTyped DEF Init, Timed, Claimed, Syncing, WatermarkCovers, Present, Here, MirrorAssumption
<1>3. \A w \in Walkers : Behind(w) /\ Reading(w) /\ Stampable(w)
  BY IdleTyped DEF Init, Behind, Delta, Reading, Stampable
<1> QED BY <1>1, <1>2, <1>3 DEF MirrorInv

-----------------------------------------------------------------------------
(* Steps of a walker that touch neither the rows nor the state              *)

\* What it has yet to read of a delta starts where it did, or before the
\* watermark of the section.
Decides(w, t) ==
    t.pc \in {"claim", "walk"} =>
        \/ Delta(w) /\ t.since = walker[w].since /\ t.sec = walker[w].sec /\ ~t.full
        \/ t.since = 0
        \/ t.since < state[t.sec].at /\ ~t.full

LEMMA QuietStep ==
    ASSUME MirrorAssumption, MirrorInv, NEW w \in Walkers, NEW t \in Task,
           walker' = [walker EXCEPT ![w] = t],
           UNCHANGED <<clock, live, updated, rows, state, media, excused>>,
           building' \in [Sections -> SUBSET Walkers], Claimed',
           \A s \in Sections : t.info[s].at <= clock,
           t.pc \notin {"apply", "stamp"}, Decides(w, t)
    PROVE  MirrorInv'
<1>1. /\ walker'[w] = t /\ \A v \in Walkers \ {w} : walker'[v] = walker[v]
      /\ walker' \in [Walkers -> Task]
  BY DEF MirrorInv, Typed
<1>2. Typed' /\ Timed' /\ WatermarkCovers'
  BY <1>1 DEF MirrorInv, Typed, Timed, WatermarkCovers, Present, Here
<1>3. t.sec \in Sections \/ ~(t.pc \in {"claim", "walk"})
  BY <1>1 DEF Claimed
<1>4. Delta(w)' => t.pc \in {"claim", "walk"} /\ ~t.full
  BY <1>1 DEF Delta
<1>5. state \in [Sections -> SectionInfo] /\ live \in [Keys -> Nat] /\ t.since \in Nat /\ clock \in Nat \ {0}
  BY DEF MirrorInv, Typed, Task
<1>6. \A s \in Sections : state[s].at \in Nat /\ state[s].at <= clock
  BY <1>5 DEF SectionInfo, MirrorInv, Timed
<1>7. ASSUME NEW v \in Walkers
      PROVE  Behind(v)'
  <2>1. CASE v # w
    BY <2>1, <1>1 DEF MirrorInv, Behind, Delta, Present, Here
  <2>2. CASE v = w
    <3>4. t.pc \in {"claim", "walk"} /\ t.full => t.since = 0
      BY DEF Decides
    <3> SUFFICES ASSUME Delta(w)'
                 PROVE  /\ t.since < clock
                        /\ t.sec \notin excused =>
                              \A k \in Present(t.sec) : live[k] <= t.since => rows[k] = live[k]
      BY <2>2, <3>4, <1>1 DEF Behind, Present, Here
    <3>1. CASE Delta(w) /\ t.since = walker[w].since /\ t.sec = walker[w].sec
      BY <3>1 DEF MirrorInv, Behind
    <3>2. CASE t.since = 0
      BY <3>2, <1>5 DEF Present, Here
    <3>3. CASE t.since < state[t.sec].at
      <4>1. t.sec \in Sections /\ state[t.sec].at \in Nat /\ state[t.sec].at <= clock
        BY <1>3, <1>4, <1>6
      <4>2. ASSUME t.sec \notin excused, NEW k \in Present(t.sec), live[k] <= t.since
            PROVE  rows[k] = live[k]
        <5>1. live[k] \in Nat /\ live[k] < state[t.sec].at
          BY <1>5, <4>1, <4>2, <3>3 DEF Present, Here
        <5> QED BY <5>1, <4>1, <4>2 DEF MirrorInv, WatermarkCovers
      <4> QED BY <3>3, <4>1, <4>2, <1>5
    <3> QED BY <3>1, <3>2, <3>3, <1>4 DEF Decides
  <2> QED BY <2>1, <2>2
<1>8. ASSUME NEW v \in Walkers
      PROVE  Reading(v)'
  <2>1. CASE v = w
    BY <2>1, <1>1 DEF Reading
  <2>2. CASE v # w
    <3> SUFFICES ASSUME walker[v].pc = "apply", ~walker[v].blank,
                        NEW k \in Present(walker[v].sec), Read(v, k)
                 PROVE  Read(v, k)'
      BY <2>2, <1>1 DEF MirrorInv, Reading, Present, Here
    <3> DEFINE s == walker[v].sec
    <3>1. walker'[v] = walker[v]
      BY <2>2, <1>1
    <3>2. CASE walker[v].got[k] = live[k] \/ (~walker[v].full /\ live[k] <= walker[v].since /\ walker[v].got[k] = 0)
      BY <3>1, <3>2 DEF Read
    <3>3. CASE /\ walker[v].info[s].at <= live[k] /\ state[s].at <= live[k]
               /\ \A x \in Walkers : Delta(x) /\ walker[x].sec = s => walker[x].since < live[k]
      <4>1. ASSUME NEW x \in Walkers, Delta(x)', walker'[x].sec = s
            PROVE  walker'[x].since < live[k]
        <5>1. CASE x # w
          BY <5>1, <4>1, <3>3, <1>1 DEF Delta
        <5>2. CASE x = w
          <6>1. t.sec = s /\ walker'[x].since = t.since
            BY <5>2, <4>1, <1>1
          <6>2. live[k] \in Nat /\ live[k] > 0
            BY <1>5 DEF Present, Here
          <6>3. s \in Sections /\ state[s].at \in Nat
            BY <6>1, <5>2, <4>1, <1>3, <1>4, <1>6
          <6> QED BY <6>1, <6>2, <6>3, <5>2, <4>1, <3>3, <1>4, <1>5 DEF Decides
        <5> QED BY <5>1, <5>2
      <4> QED BY <4>1, <3>1, <3>3 DEF Read
    <3> QED BY <3>2, <3>3 DEF Read
  <2> QED BY <2>1, <2>2
<1>9. ASSUME NEW v \in Walkers
      PROVE  Stampable(v)'
  BY <1>1 DEF MirrorInv, Stampable, Present, Here
<1> QED BY <1>2, <1>7, <1>8, <1>9 DEF MirrorInv

\* A step of w that leaves the claims alone and does not pretend to one.
LEMMA KeepsClaims ==
    ASSUME MirrorInv, NEW w \in Walkers, NEW t, walker' = [walker EXCEPT ![w] = t],
           UNCHANGED building, t.pc \notin {"idle", "next"} => t.sec \in Sections,
           t.pc \in {"walk", "apply", "stamp", "release"} => Syncing(w) /\ t.sec = walker[w].sec
    PROVE  Claimed'
<1>1. walker'[w] = t /\ \A v \in Walkers \ {w} : walker'[v] = walker[v]
  BY DEF MirrorInv, Typed
<1> QED BY <1>1 DEF MirrorInv, Claimed, Syncing

LEMMA BetweenTyped ==
    ASSUME MirrorAssumption, MirrorInv, NEW w \in Walkers
    PROVE  /\ Between(w) \in Task /\ Between(w).pc = "next"
           /\ Between(w).info = walker[w].info
<1>1. Idle \in Task /\ walker[w] \in Task
  BY IdleTyped DEF MirrorInv, Typed
<1> QED BY <1>1 DEF Between, Task

LEMMA BeginStep ==
    ASSUME MirrorAssumption, MirrorInv, NEW w \in Walkers, NEW force \in BOOLEAN,
           Begin(w, force),
           UNCHANGED <<clock, live, updated, rows, state, media, building, excused>>
    PROVE  MirrorInv'
<1> DEFINE t == [Idle EXCEPT !.pc = "next", !.force = force,
                     !.left = Sections, !.info = [s \in Sections |-> Info(s)]]
<1>1. \A s \in Sections : Info(s) \in SectionInfo /\ Info(s).at <= clock
  BY InfoTyped DEF MirrorInv
<1>2. Idle \in Task
  BY IdleTyped
<1>3. t \in Task /\ t.pc = "next" /\ t.info = [s \in Sections |-> Info(s)]
  BY <1>1, <1>2 DEF Task
<1>4. walker' = [walker EXCEPT ![w] = t]
  BY DEF Begin
<1> HIDE DEF t
<1>5. Claimed'
  BY <1>3, <1>4, KeepsClaims
<1>6. building' \in [Sections -> SUBSET Walkers] /\ Decides(w, t)
  BY <1>3 DEF MirrorInv, Typed, Decides
<1> QED BY <1>1, <1>3, <1>4, <1>5, <1>6, QuietStep

LEMMA ProbeStep ==
    ASSUME MirrorAssumption, MirrorInv, NEW w \in Walkers, Probe(w)
    PROVE  MirrorInv'
<1>1. PICK s \in walker[w].left, stale \in BOOLEAN :
        LET full == walker[w].force \/ stale \/ ~state[s].known
            drift == Drifted(s, walker[w].info[s])
            step == [walker[w] EXCEPT !.left = @ \ {s}, !.sec = s]
        IN walker' = [walker EXCEPT ![w] =
              IF full \/ (drift /\ state[s].at = 0)
              THEN [step EXCEPT !.pc = "claim", !.full = TRUE, !.since = 0]
              ELSE IF drift
              THEN [step EXCEPT !.pc = "claim", !.full = FALSE, !.since = DeltaSince(s)]
              ELSE step]
  BY DEF Probe
<1>2. /\ walker[w] \in Task /\ walker[w].pc = "next" /\ s \in Sections
      /\ state[s].at \in Nat
  BY <1>1 DEF Probe, MirrorInv, Typed, Task, SectionInfo
<1>3. DeltaSince(s) \in Nat /\ (DeltaSince(s) = 0 \/ DeltaSince(s) < state[s].at)
  BY <1>2 DEF DeltaSince, MirrorAssumption
<1>4. PICK t \in Task :
        /\ walker' = [walker EXCEPT ![w] = t]
        /\ t.info = walker[w].info /\ t.sec = s
        /\ t.pc \in {"next", "claim"}
        /\ \/ t.pc = "next"
           \/ t.full /\ t.since = 0
           \/ ~t.full /\ t.since = DeltaSince(s)
  <2> DEFINE step == [walker[w] EXCEPT !.left = @ \ {s}, !.sec = s]
             whole == [step EXCEPT !.pc = "claim", !.full = TRUE, !.since = 0]
             delta == [step EXCEPT !.pc = "claim", !.full = FALSE, !.since = DeltaSince(s)]
  <2>1. step \in Task /\ step.info = walker[w].info /\ step.sec = s /\ step.pc = "next"
    BY <1>2 DEF Task
  <2>2. /\ whole \in Task /\ whole.info = walker[w].info /\ whole.sec = s /\ whole.pc = "claim"
        /\ whole.full /\ whole.since = 0
    BY <1>2 DEF Task
  <2>3. /\ delta \in Task /\ delta.info = walker[w].info /\ delta.sec = s /\ delta.pc = "claim"
        /\ ~delta.full /\ delta.since = DeltaSince(s)
    BY <1>2, <1>3 DEF Task
  <2>4. \E t \in {step, whole, delta} : walker' = [walker EXCEPT ![w] = t]
    BY <1>1
  <2> HIDE DEF step, whole, delta
  <2> QED BY <2>1, <2>2, <2>3, <2>4
<1>5. UNCHANGED <<clock, live, updated, rows, state, media, building, excused>>
  BY DEF Probe
<1>6. Claimed'
  BY <1>2, <1>4, <1>5, KeepsClaims
<1>7. Decides(w, t)
  BY <1>3, <1>4 DEF Decides
<1>8. \A x \in Sections : t.info[x].at <= clock
  BY <1>4 DEF MirrorInv, Timed
<1> QED BY <1>4, <1>5, <1>6, <1>7, <1>8, QuietStep DEF MirrorInv, Typed

\* Waiting, and what follows a failure, decide nothing.
LEMMA ResumeStep ==
    ASSUME MirrorAssumption, MirrorInv, NEW w \in Walkers, NEW t \in Task,
           walker' = [walker EXCEPT ![w] = t], t.info = walker[w].info,
           t.pc \in {"idle", "next", "wait", "release"},
           UNCHANGED <<clock, live, updated, rows, state, media, excused>>,
           building' \in [Sections -> SUBSET Walkers], Claimed'
    PROVE  MirrorInv'
<1>1. \A s \in Sections : t.info[s].at <= clock
  BY DEF MirrorInv, Timed
<1>2. Decides(w, t)
  BY DEF Decides
<1> QED BY <1>1, <1>2, QuietStep

LEMMA ClaimStep ==
    ASSUME MirrorAssumption, MirrorInv, NEW w \in Walkers, Claim(w)
    PROVE  MirrorInv'
<1>1. UNCHANGED <<clock, live, updated, rows, state, media, excused>>
  BY DEF Claim
<1>2. walker[w] \in Task /\ walker[w].pc = "claim" /\ walker[w].sec \in Sections
  BY DEF Claim, MirrorInv, Typed, Claimed
<1> DEFINE s == walker[w].sec
<1>3. CASE /\ building[s] = {} /\ building' = [building EXCEPT ![s] = {w}]
           /\ Go(w, "walk")
  <2> DEFINE t == [walker[w] EXCEPT !.pc = "walk"]
  <2>1. /\ t \in Task /\ t.pc = "walk" /\ t.sec = s /\ t.full = walker[w].full
        /\ t.since = walker[w].since /\ t.info = walker[w].info
    BY <1>2 DEF Task
  <2>2. walker' = [walker EXCEPT ![w] = t]
    BY <1>3 DEF Go
  <2> HIDE DEF t
  <2>3. building' \in [Sections -> SUBSET Walkers]
    BY <1>2, <1>3 DEF MirrorInv, Typed
  <2>4. walker'[w] = t /\ \A v \in Walkers \ {w} : walker'[v] = walker[v]
    BY <2>2 DEF MirrorInv, Typed
  <2>5. building'[s] = {w} /\ \A x \in Sections \ {s} : building'[x] = building[x]
    BY <1>2, <1>3 DEF MirrorInv, Typed
  <2>6. \A v \in Walkers : Syncing(v) => walker[v].sec # s
    BY <1>3 DEF MirrorInv, Claimed
  <2>7. Claimed'
    BY <1>2, <2>1, <2>4, <2>5, <2>6 DEF MirrorInv, Claimed, Syncing
  <2>8. Decides(w, t)
    BY <1>2, <2>1 DEF Decides, Delta, MirrorInv, Behind
  <2>9. \A x \in Sections : t.info[x].at <= clock
    BY <2>1 DEF MirrorInv, Timed
  <2> QED BY <1>1, <2>1, <2>2, <2>3, <2>7, <2>8, <2>9, QuietStep
<1>4. CASE Go(w, "wait") /\ UNCHANGED building
  <2> DEFINE t == [walker[w] EXCEPT !.pc = "wait"]
  <2>1. t \in Task /\ t.pc = "wait" /\ t.sec = s /\ t.info = walker[w].info
    BY <1>2 DEF Task
  <2>2. walker' = [walker EXCEPT ![w] = t]
    BY <1>4 DEF Go
  <2> HIDE DEF t
  <2>3. Claimed'
    BY <1>2, <1>4, <2>1, <2>2, KeepsClaims
  <2> QED BY <1>1, <1>4, <2>1, <2>2, <2>3, ResumeStep DEF MirrorInv, Typed
<1> QED BY <1>3, <1>4 DEF Claim

LEMMA AwakeStep ==
    ASSUME MirrorAssumption, MirrorInv, NEW w \in Walkers, Awake(w)
    PROVE  MirrorInv'
<1>1. Claimed'
  BY BetweenTyped, KeepsClaims DEF Awake
<1> QED BY <1>1, BetweenTyped, ResumeStep DEF Awake, MirrorInv, Typed

LEMMA EndWalkStep ==
    ASSUME MirrorAssumption, MirrorInv, NEW w \in Walkers, EndWalk(w)
    PROVE  MirrorInv'
<1>1. Idle \in Task /\ Idle.pc = "idle" /\ \A s \in Sections : Idle.info[s].at <= clock
  BY IdleTyped DEF MirrorInv, Typed
<1>2. Claimed'
  BY <1>1, KeepsClaims DEF EndWalk
<1>3. Decides(w, Idle)
  BY <1>1 DEF Decides
<1> QED BY <1>1, <1>2, <1>3, QuietStep DEF EndWalk, MirrorInv, Typed

LEMMA ReleaseStep ==
    ASSUME MirrorAssumption, MirrorInv, NEW w \in Walkers, Release(w)
    PROVE  MirrorInv'
<1> DEFINE s == walker[w].sec
<1>1. walker[w].pc = "release" /\ s \in Sections /\ building[s] = {w}
  BY DEF Release, MirrorInv, Claimed, Syncing
<1>2. /\ walker' = [walker EXCEPT ![w] = Between(w)]
      /\ building' = [building EXCEPT ![s] = {}]
      /\ building' \in [Sections -> SUBSET Walkers]
  BY <1>1 DEF Release, MirrorInv, Typed
<1>3. /\ walker'[w].pc = "next"
      /\ \A v \in Walkers \ {w} : walker'[v] = walker[v]
      /\ \A x \in Sections \ {s} : building'[x] = building[x]
  BY <1>1, <1>2, BetweenTyped DEF MirrorInv, Typed
<1>4. \A v \in Walkers \ {w} : Syncing(v) => walker[v].sec # s
  BY <1>1 DEF MirrorInv, Claimed
<1>5. Claimed'
  BY <1>3, <1>4 DEF MirrorInv, Claimed, Syncing
<1> QED BY <1>2, <1>5, BetweenTyped, ResumeStep DEF Release

-----------------------------------------------------------------------------
(* Reading, applying and stamping                                           *)

\* A sync that fails goes straight to its finally clause.
LEMMA FailStep ==
    ASSUME MirrorAssumption, MirrorInv, NEW w \in Walkers, Syncing(w), Go(w, "release"),
           UNCHANGED <<clock, live, updated, rows, state, media, building, excused>>
    PROVE  MirrorInv'
<1> DEFINE t == [walker[w] EXCEPT !.pc = "release"]
<1>1. walker[w] \in Task
  BY DEF MirrorInv, Typed
<1>2. t \in Task /\ t.pc = "release" /\ t.info = walker[w].info /\ t.sec = walker[w].sec
  BY <1>1 DEF Task
<1>3. walker' = [walker EXCEPT ![w] = t]
  BY DEF Go
<1>4. walker[w].sec \in Sections
  BY DEF MirrorInv, Claimed, Syncing
<1> HIDE DEF t
<1>5. Claimed'
  BY <1>2, <1>3, <1>4, KeepsClaims
<1> QED BY <1>2, <1>3, <1>5, ResumeStep DEF MirrorInv, Typed

LEMMA WalkStep ==
    ASSUME MirrorAssumption, MirrorInv, NEW w \in Walkers, Walk(w)
    PROVE  MirrorInv'
<1> DEFINE s == walker[w].sec
<1>1. /\ UNCHANGED <<clock, live, updated, rows, state, pin, media, building, happened, excused>>
      /\ walker[w].pc = "walk" /\ walker[w] \in Task /\ s \in Sections
  BY DEF Walk, MirrorInv, Typed, Claimed
<1>2. live \in [Keys -> Nat]
  BY DEF MirrorInv, Typed
<1>3. ASSUME NEW blank \in BOOLEAN, NEW got \in [Keys -> Nat],
             walker' = [walker EXCEPT ![w].pc = "apply", ![w].blank = blank, ![w].got = got],
             ~blank => got = Listed(s, walker[w].since),
             blank => got = [k \in Keys |-> 0]
      PROVE  MirrorInv'
  <2> DEFINE t == [walker[w] EXCEPT !.pc = "apply", !.blank = blank, !.got = got]
  <2>1. /\ t \in Task /\ t.pc = "apply" /\ t.blank = blank /\ t.got = got /\ t.sec = s
        /\ t.full = walker[w].full /\ t.since = walker[w].since /\ t.info = walker[w].info
    BY <1>1, <1>3 DEF Task
  <2>2. walker' = [walker EXCEPT ![w] = t]
    BY <1>3
  <2> HIDE DEF t
  <2>3. walker'[w] = t /\ \A v \in Walkers \ {w} : walker'[v] = walker[v]
    BY <2>2 DEF MirrorInv, Typed
  <2>4. Typed' /\ Timed' /\ WatermarkCovers'
    BY <1>1, <2>1, <2>2, <2>3 DEF MirrorInv, Typed, Timed, WatermarkCovers, Present, Here
  <2>5. Claimed'
    BY <1>1, <2>1, <2>2, KeepsClaims DEF Syncing
  <2>6. \A v \in Walkers : /\ Delta(v)' = Delta(v) /\ walker'[v].sec = walker[v].sec
                           /\ walker'[v].since = walker[v].since
    BY <1>1, <2>1, <2>3 DEF Delta
  <2>7. \A v \in Walkers : Behind(v)' /\ Stampable(v)'
    BY <1>1, <2>1, <2>3, <2>6 DEF MirrorInv, Behind, Stampable, Present, Here
  <2>8. ASSUME NEW v \in Walkers, v # w
        PROVE  Reading(v)'
    <3>1. walker'[v] = walker[v]
      BY <2>3, <2>8
    <3>2. \A k \in Keys : Read(v, k) => Read(v, k)'
      BY <1>1, <2>6, <3>1 DEF Read
    <3> QED BY <1>1, <3>1, <3>2, <2>8 DEF MirrorInv, Reading, Present, Here
  <2>9. Reading(w)'
    <3>1. \A k \in Keys : got[k] > 0 => Home[k] = s
      BY <1>2, <1>3 DEF Listed
    <3>2. ASSUME ~blank, NEW k \in Present(s)
          PROVE  Read(w, k)'
      <4>1. k \in Keys /\ Home[k] = s /\ live[k] \in Nat /\ live[k] > 0
        BY <1>2, <3>2 DEF Present, Here
      <4>2. walker[w].since \in Nat
        BY <1>1 DEF Task
      <4>3. CASE live[k] > walker[w].since
        <5>1. got[k] = live[k]
          BY <1>3, <3>2, <4>1, <4>3 DEF Listed
        <5> QED BY <1>1, <2>1, <2>3, <5>1 DEF Read
      <4>4. CASE ~(live[k] > walker[w].since)
        <5>1. got[k] = 0
          BY <1>3, <3>2, <4>1, <4>4 DEF Listed
        <5>2. CASE ~walker[w].full
          BY <1>1, <2>1, <2>3, <4>1, <4>2, <4>4, <5>1, <5>2 DEF Read
        <5>3. CASE walker[w].full
          \* a full walk starts at 0
          BY <1>1, <4>1, <4>4, <5>3 DEF MirrorInv, Behind
        <5> QED BY <5>2, <5>3
      <4> QED BY <4>3, <4>4
    <3> QED BY <1>1, <2>1, <2>3, <3>1, <3>2 DEF Reading, Present, Here
  <2> QED BY <2>4, <2>5, <2>7, <2>8, <2>9 DEF MirrorInv
<1>4. CASE Go(w, "release")
  BY <1>1, <1>4, FailStep DEF Syncing
<1>5. Listed(s, walker[w].since) \in [Keys -> Nat] /\ [k \in Keys |-> 0] \in [Keys -> Nat]
  BY <1>2 DEF Listed
<1> QED BY <1>3, <1>4, <1>5 DEF Walk

\* What the transaction leaves in the row of an item that is there.
LEMMA AppliedRow ==
    ASSUME MirrorInv, NEW w \in Walkers, walker[w].pc = "apply", NEW k \in Keys, live[k] > 0
    PROVE  /\ Home[k] # walker[w].sec => Applied(w)[k] = rows[k]
           /\ Home[k] = walker[w].sec /\ walker[w].got[k] = live[k] => Applied(w)[k] = live[k]
           /\ ~walker[w].full /\ walker[w].got[k] = 0 => Applied(w)[k] = rows[k]
<1>1. walker[w].got \in [Keys -> Nat] /\ (walker[w].got[k] > 0 => Home[k] = walker[w].sec)
  BY DEF MirrorInv, Typed, Task, Reading
<1>2. walker[w].got[k] \in Nat /\ (walker[w].got[k] > 0 \/ walker[w].got[k] = 0)
  BY <1>1
<1> QED BY <1>1, <1>2 DEF Applied

LEMMA ApplyStep ==
    ASSUME MirrorAssumption, MirrorInv, NEW w \in Walkers, Apply(w)
    PROVE  MirrorInv'
<1> DEFINE s == walker[w].sec
<1>1. /\ UNCHANGED <<clock, live, updated, state, pin, media, building, happened>>
      /\ walker[w].pc = "apply" /\ walker[w] \in Task /\ s \in Sections
  BY DEF Apply, MirrorInv, Typed, Claimed
<1>2. live \in [Keys -> Nat] /\ rows \in [Keys -> Nat] /\ walker[w].got \in [Keys -> Nat]
  BY <1>1 DEF MirrorInv, Typed, Task
<1>3. CASE Go(w, "release") /\ UNCHANGED <<rows, excused>>
  BY <1>1, <1>3, FailStep DEF Syncing
<1>4. CASE /\ rows' = Applied(w) /\ Go(w, "stamp")
           /\ excused' = IF walker[w].blank THEN excused \cup {s}
                         ELSE IF walker[w].full THEN excused \ {s} ELSE excused
  <2> DEFINE t == [walker[w] EXCEPT !.pc = "stamp"]
  <2>1. /\ t \in Task /\ t.pc = "stamp" /\ t.sec = s /\ t.info = walker[w].info
    BY <1>1 DEF Task
  <2>2. walker' = [walker EXCEPT ![w] = t]
    BY <1>4 DEF Go
  <2> HIDE DEF t
  <2>3. walker'[w] = t /\ \A v \in Walkers \ {w} : walker'[v] = walker[v]
    BY <2>2 DEF MirrorInv, Typed
  <2>4. rows' \in [Keys -> Nat]
    BY <1>2, <1>4 DEF Applied
  <2>5. Typed' /\ Timed'
    BY <1>1, <2>1, <2>2, <2>3, <2>4 DEF MirrorInv, Typed, Timed
  <2>6. Claimed'
    BY <1>1, <2>1, <2>2, KeepsClaims DEF Syncing
  <2>7. \A v \in Walkers : Delta(v)' => Delta(v) /\ v # w /\ walker'[v] = walker[v]
    BY <2>1, <2>3 DEF Delta
  \* nothing the sections are known by reaches an item that is not current
  <2>8. ASSUME NEW k \in Present(s), s \notin excused'
        PROVE  /\ live[k] < state[s].at => rows'[k] = live[k]
               /\ live[k] < t.info[s].at => rows'[k] = live[k]
               /\ \A v \in Walkers : Delta(v) /\ walker[v].sec = s /\ live[k] <= walker[v].since
                                       => rows'[k] = live[k]
    <3>1. k \in Keys /\ Home[k] = s /\ live[k] \in Nat /\ live[k] > 0
      BY <1>2, <2>8 DEF Present, Here
    <3>2. ~walker[w].blank /\ Read(w, k)
      BY <1>1, <1>4, <2>8 DEF MirrorInv, Reading
    <3>3. CASE walker[w].got[k] = live[k]
      BY <1>1, <1>4, <3>1, <3>3, AppliedRow
    <3>4. CASE ~walker[w].full /\ live[k] <= walker[w].since /\ walker[w].got[k] = 0
      <4>1. rows'[k] = rows[k]
        BY <1>1, <1>4, <3>1, <3>4, AppliedRow
      <4>2. s \notin excused /\ Delta(w)
        BY <1>1, <1>4, <2>8, <3>2, <3>4 DEF Delta
      <4>3. rows[k] = live[k]
        BY <2>8, <3>4, <4>2 DEF MirrorInv, Behind
      <4> QED BY <4>1, <4>3
    <3>5. CASE /\ walker[w].info[s].at <= live[k] /\ state[s].at <= live[k]
               /\ \A v \in Walkers : Delta(v) /\ walker[v].sec = s => walker[v].since < live[k]
      <4>1. /\ walker[w].info[s].at \in Nat /\ state[s].at \in Nat
            /\ \A v \in Walkers : walker[v].since \in Nat
        BY <1>1 DEF MirrorInv, Typed, Task, SectionInfo
      <4> QED BY <2>1, <3>1, <3>5, <4>1
    <3> QED BY <3>2, <3>3, <3>4, <3>5 DEF Read
  <2>9. ASSUME NEW k \in Keys, live[k] > 0, Home[k] # s
        PROVE  rows'[k] = rows[k]
    BY <1>1, <1>4, <2>9, AppliedRow
  <2>10. \A x \in Sections \ {s} : x \in excused' <=> x \in excused
    BY <1>4
  <2>11. ASSUME NEW x \in Sections, x # s
         PROVE  Present(x)' = Present(x) /\ \A k \in Present(x) : rows'[k] = rows[k]
    BY <1>1, <2>9, <2>11 DEF Present, Here
  <2>12. WatermarkCovers'
    <3> SUFFICES ASSUME NEW x \in Sections \ excused', NEW k \in Present(x), live[k] < state[x].at
                 PROVE  rows'[k] = live[k]
      BY <1>1 DEF WatermarkCovers, Present, Here
    <3>1. CASE x = s
      BY <2>8, <3>1
    <3>2. CASE x # s
      BY <2>10, <2>11, <3>2 DEF MirrorInv, WatermarkCovers
    <3> QED BY <3>1, <3>2
  <2>13. ASSUME NEW v \in Walkers
         PROVE  Behind(v)'
    <3>1. CASE v = w
      BY <2>1, <2>3, <3>1 DEF Behind, Delta
    <3>2. CASE v # w
      <4> DEFINE x == walker[v].sec
      <4>1. walker'[v] = walker[v] /\ (Delta(v)' <=> Delta(v)) /\ Behind(v)
        BY <2>3, <3>2 DEF Delta, MirrorInv
      <4>2. SUFFICES ASSUME Delta(v), x \notin excused', NEW k \in Present(x),
                            live[k] <= walker[v].since
                     PROVE  rows'[k] = live[k]
        BY <1>1, <4>1 DEF Behind, Present, Here
      <4>3. x \in Sections
        BY <4>2 DEF MirrorInv, Claimed, Delta
      <4>4. CASE x = s
        BY <2>8, <4>2, <4>4
      <4>5. CASE x # s
        BY <2>10, <2>11, <4>1, <4>2, <4>3, <4>5 DEF Behind
      <4> QED BY <4>4, <4>5
    <3> QED BY <3>1, <3>2
  <2>14. ASSUME NEW v \in Walkers
         PROVE  Reading(v)'
    <3>1. CASE v = w
      BY <2>1, <2>3, <3>1 DEF Reading
    <3>2. CASE v # w
      <4>1. walker'[v] = walker[v]
        BY <2>3, <3>2
      <4>2. \A k \in Keys : Read(v, k) => Read(v, k)'
        BY <1>1, <2>7, <4>1 DEF Read
      <4> QED BY <1>1, <4>1, <4>2 DEF MirrorInv, Reading, Present, Here
    <3> QED BY <3>1, <3>2
  <2>15. ASSUME NEW v \in Walkers
         PROVE  Stampable(v)'
    <3>1. CASE v = w
      BY <1>1, <2>1, <2>3, <2>8, <3>1 DEF Stampable, Present, Here
    <3>2. CASE v # w
      <4>1. SUFFICES ASSUME walker[v].pc = "stamp"
                     PROVE  Stampable(v)'
        BY <2>3, <3>2 DEF Stampable
      <4>2. walker'[v] = walker[v] /\ walker[v].sec \in Sections /\ walker[v].sec # s
        BY <1>1, <2>3, <3>2, <4>1 DEF MirrorInv, Claimed, Syncing
      <4> QED BY <1>1, <2>10, <2>11, <4>1, <4>2 DEF MirrorInv, Stampable
    <3> QED BY <3>1, <3>2
  <2> QED BY <2>5, <2>6, <2>12, <2>13, <2>14, <2>15 DEF MirrorInv
<1> QED BY <1>3, <1>4 DEF Apply

LEMMA StampStep ==
    ASSUME MirrorAssumption, MirrorInv, NEW w \in Walkers, Stamp(w)
    PROVE  MirrorInv'
<1> DEFINE s == walker[w].sec
           t == [walker[w] EXCEPT !.pc = "release"]
<1>1. /\ UNCHANGED <<clock, live, updated, rows, pin, media, building, happened, excused>>
      /\ walker[w].pc = "stamp" /\ walker[w] \in Task /\ s \in Sections
      /\ state' = [state EXCEPT ![s] = walker[w].info[s]]
  BY DEF Stamp, MirrorInv, Typed, Claimed
<1>2. t \in Task /\ t.pc = "release" /\ t.sec = s /\ t.info = walker[w].info
  BY <1>1 DEF Task
<1>3. walker' = [walker EXCEPT ![w] = t]
  BY DEF Stamp, Go
<1> HIDE DEF t
<1>4. walker'[w] = t /\ \A v \in Walkers \ {w} : walker'[v] = walker[v]
  BY <1>3 DEF MirrorInv, Typed
<1>5. walker[w].info[s] \in SectionInfo /\ walker[w].info[s].at <= clock
  BY <1>1 DEF Task, MirrorInv, Timed
<1>6. /\ state' \in [Sections -> SectionInfo] /\ state'[s] = walker[w].info[s]
      /\ \A x \in Sections \ {s} : state'[x] = state[x]
  BY <1>1, <1>5 DEF MirrorInv, Typed
<1>7. Typed' /\ Timed'
  BY <1>1, <1>2, <1>3, <1>4, <1>5, <1>6 DEF MirrorInv, Typed, Timed
<1>8. Claimed'
  BY <1>1, <1>2, <1>3, KeepsClaims DEF Syncing
<1>9. WatermarkCovers'
  BY <1>1, <1>6 DEF MirrorInv, WatermarkCovers, Stampable, Present, Here
<1>10. \A v \in Walkers : Delta(v)' => Delta(v) /\ walker'[v] = walker[v]
  BY <1>2, <1>4 DEF Delta
<1>11. ASSUME NEW v \in Walkers
       PROVE  Behind(v)' /\ Stampable(v)'
  <2>1. CASE v = w
    BY <1>2, <1>4, <2>1 DEF Behind, Delta, Stampable
  <2>2. CASE v # w
    BY <1>1, <1>4, <2>2 DEF MirrorInv, Behind, Delta, Stampable, Present, Here
  <2> QED BY <2>1, <2>2
<1>12. ASSUME NEW v \in Walkers
       PROVE  Reading(v)'
  <2>1. SUFFICES ASSUME walker'[v].pc = "apply"
                 PROVE  Reading(v)'
    BY DEF Reading
  <2>2. v # w /\ walker'[v] = walker[v]
    BY <1>2, <1>4, <2>1
  <2>3. walker[v].sec \in Sections /\ walker[v].sec # s
    BY <1>1, <2>1, <2>2 DEF MirrorInv, Claimed, Syncing
  <2>4. \A k \in Keys : Read(v, k) => Read(v, k)'
    BY <1>1, <1>6, <1>10, <2>2, <2>3 DEF Read
  <2> QED BY <1>1, <2>2, <2>4 DEF MirrorInv, Reading, Present, Here
<1> QED BY <1>7, <1>8, <1>9, <1>11, <1>12 DEF MirrorInv

-----------------------------------------------------------------------------
(* The server, the snapshots and the operator                               *)

LEMMA TickStep == ASSUME MirrorAssumption, MirrorInv, Tick PROVE MirrorInv'
<1>1. /\ clock' = clock + 1 /\ clock \in Nat \ {0}
      /\ UNCHANGED <<live, updated, rows, state, media, building, walker, excused>>
  BY DEF Tick, MirrorInv, Typed
<1>2. Typed'
  BY <1>1 DEF MirrorInv, Typed
<1>3. \A s \in Sections : /\ updated[s] \in Nat /\ state[s].at \in Nat
                          /\ \A w \in Walkers : walker[w].info[s].at \in Nat
  BY DEF MirrorInv, Typed, SectionInfo, Task
<1>4. Timed' /\ Claimed' /\ WatermarkCovers'
  BY <1>1, <1>3 DEF MirrorInv, Timed, Claimed, Syncing, WatermarkCovers, Present, Here
<1>5. ASSUME NEW w \in Walkers
      PROVE  Behind(w)' /\ Reading(w)' /\ Stampable(w)'
  <2>1. walker[w].since \in Nat
    BY DEF MirrorInv, Typed, Task
  <2> QED BY <1>1, <2>1 DEF MirrorInv, Behind, Delta, Reading, Read, Stampable, Present, Here
<1> QED BY <1>2, <1>4, <1>5 DEF MirrorInv

\* An item is saved now, at or past every time its section is known by.
LEMMA SavedStep ==
    ASSUME MirrorAssumption, MirrorInv, NEW k \in Keys, NEW time \in {0, clock},
           live' = [live EXCEPT ![k] = time],
           updated' = updated \/ updated' = [updated EXCEPT ![Home[k]] = clock],
           UNCHANGED <<clock, rows, state, media, building, walker, excused>>
    PROVE  MirrorInv'
<1>1. /\ live' \in [Keys -> Nat] /\ live'[k] \in {0, clock}
      /\ \A j \in Keys \ {k} : live'[j] = live[j]
      /\ clock \in Nat \ {0}
  BY DEF MirrorInv, Typed
<1>2. updated' \in [Sections -> Nat] /\ \A s \in Sections : updated'[s] <= clock
  <2>1. /\ Home[k] \in Sections /\ updated \in [Sections -> Nat]
        /\ \A s \in Sections : updated[s] <= clock
    BY DEF MirrorInv, Typed, Timed, MirrorAssumption
  <2>2. CASE updated' = [updated EXCEPT ![Home[k]] = clock]
    BY <1>1, <2>1, <2>2
  <2> QED BY <2>1, <2>2
<1>3. Typed' /\ Timed' /\ Claimed'
  BY <1>1, <1>2 DEF MirrorInv, Typed, Timed, Claimed, Syncing
<1>4. \A s \in Sections : \A j \in Present(s)' :
          /\ j \in Keys /\ Home[j] = s
          /\ \/ j \in Present(s) /\ live'[j] = live[j]
             \/ j = k /\ live'[j] = clock
  BY <1>1 DEF Present, Here
<1>5. \A s \in Sections : /\ state[s].at \in Nat /\ state[s].at <= clock
                          /\ \A w \in Walkers : /\ walker[w].info[s].at \in Nat
                                               /\ walker[w].info[s].at <= clock
  BY DEF MirrorInv, Typed, SectionInfo, Task, Timed
<1>6. \A w \in Walkers : walker[w].since \in Nat /\ (Delta(w) => walker[w].since < clock)
  BY DEF MirrorInv, Typed, Task, Behind
<1>7. WatermarkCovers'
  BY <1>1, <1>4, <1>5 DEF MirrorInv, WatermarkCovers
<1>8. ASSUME NEW w \in Walkers
      PROVE  Behind(w)' /\ Stampable(w)'
  <2>1. (Delta(w)' <=> Delta(w)) /\ (Delta(w) \/ walker[w].pc = "stamp" => walker[w].sec \in Sections)
    BY DEF Delta, MirrorInv, Claimed
  <2>2. Behind(w)'
    BY <1>1, <1>4, <1>6, <2>1 DEF MirrorInv, Behind
  <2>3. Stampable(w)'
    BY <1>1, <1>4, <1>5, <2>1 DEF MirrorInv, Stampable
  <2> QED BY <2>2, <2>3
<1>9. ASSUME NEW w \in Walkers
      PROVE  Reading(w)'
  <2> SUFFICES ASSUME walker[w].pc = "apply", ~walker[w].blank,
                      NEW j \in Present(walker[w].sec)'
               PROVE  Read(w, j)'
    BY DEF MirrorInv, Reading
  <2>1. walker[w].sec \in Sections
    BY DEF MirrorInv, Claimed
  <2>2. CASE j \in Present(walker[w].sec) /\ live'[j] = live[j]
    <3>1. Read(w, j)
      BY <2>2 DEF MirrorInv, Reading
    <3> QED BY <2>2, <3>1 DEF Read, Delta
  <2>3. CASE live'[j] = clock
    BY <1>5, <1>6, <2>1, <2>3 DEF Read, Delta
  <2> QED BY <1>4, <2>1, <2>2, <2>3
<1> QED BY <1>3, <1>7, <1>8, <1>9 DEF MirrorInv

LEMMA EditStep == ASSUME MirrorAssumption, MirrorInv, NEW k \in Keys, Edit(k) PROVE MirrorInv'
<1>1. /\ live' = [live EXCEPT ![k] = clock] \/ live' = [live EXCEPT ![k] = 0]
      /\ updated' = updated \/ updated' = [updated EXCEPT ![Home[k]] = clock]
      /\ UNCHANGED <<clock, rows, state, media, building, walker, excused>>
  BY DEF Edit
<1> QED BY <1>1, SavedStep

\* Nothing of what the invariant speaks of.
LEMMA IdleStep ==
    ASSUME MirrorInv, UNCHANGED <<clock, live, updated, rows, state, building, walker, excused>>,
           media' \in [Keys -> Nat]
    PROVE  MirrorInv'
<1>1. Typed' /\ Timed' /\ Claimed' /\ WatermarkCovers'
  BY DEF MirrorInv, Typed, Timed, Claimed, Syncing, WatermarkCovers, Present, Here
<1>2. \A w \in Walkers : Behind(w)' /\ Reading(w)' /\ Stampable(w)'
  BY DEF MirrorInv, Behind, Delta, Reading, Read, Stampable, Present, Here
<1> QED BY <1>1, <1>2 DEF MirrorInv

LEMMA SnapshotStep == ASSUME MirrorInv, Snapshot PROVE MirrorInv'
<1>1. media' \in [Keys -> Nat]
  BY DEF Snapshot, MirrorInv, Typed
<1> QED BY <1>1, IdleStep DEF Snapshot

LEMMA SetModeStep == ASSUME MirrorInv, NEW m \in Modes, SetMode(m) PROVE MirrorInv'
BY IdleStep DEF SetMode, MirrorInv, Typed

\* What is left unexcused keeps its rows and its watermark.
LEMMA WriteThroughStep == ASSUME MirrorAssumption, MirrorInv, WriteThrough PROVE MirrorInv'
<1>1. /\ rows' = [k \in Keys |-> IF media[k] > 0 THEN media[k] ELSE rows[k]]
      /\ state' = [s \in Sections |->
                      IF Known(s) THEN [state[s] EXCEPT !.known = TRUE] ELSE state[s]]
      /\ excused' = excused \cup {s \in Sections : Known(s)}
      /\ UNCHANGED <<clock, live, updated, media, building, walker>>
  BY DEF WriteThrough
<1>2. rows \in [Keys -> Nat] /\ media \in [Keys -> Nat] /\ state \in [Sections -> SectionInfo]
  BY DEF MirrorInv, Typed
<1>3. state' \in [Sections -> SectionInfo] /\ \A s \in Sections : state'[s].at = state[s].at
  BY <1>1, <1>2 DEF SectionInfo
<1>4. Typed'
  BY <1>1, <1>2, <1>3 DEF MirrorInv, Typed
<1>5. Timed' /\ Claimed'
  BY <1>1, <1>3 DEF MirrorInv, Timed, Claimed, Syncing
<1>6. ASSUME NEW s \in Sections, s \notin excused', NEW k \in Present(s)
      PROVE  s \notin excused /\ rows'[k] = rows[k]
  <2>1. k \in Here(s) /\ k \in Keys
    BY <1>6 DEF Present, Here
  <2>2. s \notin excused /\ ~(media[k] > 0)
    BY <1>1, <1>6, <2>1 DEF Known
  <2> QED BY <1>1, <2>1, <2>2
<1>7. WatermarkCovers'
  BY <1>1, <1>3, <1>6 DEF MirrorInv, WatermarkCovers, Present, Here
<1>8. ASSUME NEW w \in Walkers
      PROVE  Behind(w)' /\ Reading(w)' /\ Stampable(w)'
  <2>1. walker[w].pc \notin {"idle", "next"} => walker[w].sec \in Sections
    BY DEF MirrorInv, Claimed
  <2>2. Behind(w)'
    BY <1>1, <1>6, <2>1 DEF MirrorInv, Behind, Delta, Present, Here
  <2>3. Stampable(w)'
    BY <1>1, <1>6, <2>1 DEF MirrorInv, Stampable, Present, Here
  <2>4. Reading(w)'
    <3>1. walker[w].sec \in Sections => \A k \in Keys : Read(w, k) => Read(w, k)'
      BY <1>1, <1>3 DEF Read, Delta
    <3> QED BY <1>1, <2>1, <3>1 DEF MirrorInv, Reading, Present, Here
  <2> QED BY <2>2, <2>3, <2>4
<1> QED BY <1>4, <1>5, <1>7, <1>8 DEF MirrorInv

\* Every section a sync relies on is excused, and no other has a watermark.
LEMMA InvalidateStep == ASSUME MirrorAssumption, MirrorInv, Invalidate PROVE MirrorInv'
<1>1. /\ rows' = [k \in Keys |-> 0] /\ state' = [s \in Sections |-> None]
      /\ excused' = {s \in Sections : building[s] # {} \/ Decided(s)}
      /\ UNCHANGED <<clock, live, updated, media, building, walker>>
  BY DEF Invalidate
<1>2. /\ state' \in [Sections -> SectionInfo]
      /\ \A s \in Sections : state'[s].at = 0
      /\ live \in [Keys -> Nat] /\ clock \in Nat
  BY <1>1, IdleTyped DEF MirrorInv, Typed
<1>3. Typed' /\ Timed' /\ Claimed'
  BY <1>1, <1>2 DEF MirrorInv, Typed, Timed, Claimed, Syncing
<1>4. WatermarkCovers'
  BY <1>1, <1>2 DEF WatermarkCovers, Present, Here
<1>5. \A w \in Walkers : Delta(w) \/ walker[w].pc = "stamp" => walker[w].sec \in excused'
  BY <1>1 DEF Delta, MirrorInv, Claimed, Syncing, Decided
<1>6. ASSUME NEW w \in Walkers
      PROVE  Behind(w)' /\ Reading(w)' /\ Stampable(w)'
  <2>1. Behind(w)' /\ Stampable(w)'
    BY <1>1, <1>5 DEF MirrorInv, Behind, Delta, Stampable
  <2>2. walker[w].sec \in Sections => \A k \in Keys : Read(w, k) => Read(w, k)'
    BY <1>1, <1>2 DEF Read, Delta
  <2>3. Reading(w)'
    BY <1>1, <2>2 DEF MirrorInv, Claimed, Reading, Present, Here
  <2> QED BY <2>1, <2>3
<1> QED BY <1>3, <1>4, <1>6 DEF MirrorInv

LEMMA OperatorSyncStep ==
    ASSUME MirrorAssumption, MirrorInv, NEW w \in Operators, OperatorSync(w)
    PROVE  MirrorInv'
<1>1. CASE UNCHANGED walker
  BY <1>1, IdleStep DEF OperatorSync, MirrorInv, Typed
<1>2. CASE Begin(w, TRUE)
  BY <1>2, BeginStep DEF OperatorSync, Walkers
<1> QED BY <1>1, <1>2 DEF OperatorSync

LEMMA WarmStep ==
    ASSUME MirrorAssumption, MirrorInv, NEW w \in Warmers, Warm(w)
    PROVE  MirrorInv'
BY BeginStep DEF Warm, Walkers

-----------------------------------------------------------------------------
(* The theorem                                                              *)

LEMMA Inductive == ASSUME MirrorAssumption, MirrorInv, [Next]_vars PROVE MirrorInv'
<1>1. CASE UNCHANGED vars
  BY <1>1, IdleStep DEF vars, MirrorInv, Typed
<1>2. ASSUME NEW w \in Walkers, WalkerStep(w)
      PROVE  MirrorInv'
  BY <1>2, ProbeStep, ClaimStep, AwakeStep, WalkStep, ApplyStep, StampStep, ReleaseStep, EndWalkStep
     DEF WalkerStep
<1> QED BY <1>1, <1>2, TickStep, EditStep, SnapshotStep, SetModeStep, WriteThroughStep,
           InvalidateStep, OperatorSyncStep, WarmStep DEF Next

(* Whatever the server's edits, the failures and the requests, in any order *)
(* with any number of walkers: a section that is not excused has every item *)
(* saved before its watermark as it is now, so that a delta from there      *)
(* misses nothing (server_mirror.py:721-736).                               *)
THEOREM WatermarkHidesNothing == Spec => []WatermarkCovers
<1>1. Init => MirrorInv
  BY InitHolds, MirrorAssumption
<1>2. MirrorInv /\ [Next]_vars => MirrorInv'
  BY Inductive, MirrorAssumption
<1>3. MirrorInv => WatermarkCovers
  BY DEF MirrorInv
<1> QED BY <1>1, <1>2, <1>3, PTL DEF Spec

-----------------------------------------------------------------------------
(* The collections                                                          *)

MemberList == [version : Nat, whole : BOOLEAN]
CachedRow == [is : {"row", "missing"}, stamp : Nat, members : MemberList]

ServedList == [coll : Collections, listed : Nat, members : MemberList,
               by : {"number", "datetime"}, steady : BOOLEAN]

Reader == [pc : {"idle", "walk", "hit", "fetch", "write", "members"},
           kind : {"snapshot", "warm"}, stamps : {"number", "datetime"},
           todo : SUBSET Collections, listed : [Collections -> Nat],
           served : SUBSET ServedList, coll : Collections \cup {AtRest.coll}, stamp : Nat,
           seen : CachedRow, got : MemberList, old : CachedRow]

\* A row is dated no later than its members, if it has them all.
GoodRow(r) == r \in CachedRow /\ (r.members.whole => r.members.version >= r.stamp)

Current(s) == s.by = "number" /\ s.steady /\ s.members.whole => s.members.version >= s.listed

\* What a walk carries from the list to the write.
GoodReader(k) ==
    /\ k \in Reader
    /\ \A c \in Collections : k.listed[c] <= version[c]
    /\ \A s \in k.served : Current(s)
    /\ k.pc \in {"hit", "fetch", "write", "members"} =>
          k.coll \in Collections /\ k.stamp = LiveUpdatedAt(k.listed[k.coll], k.stamps)
    /\ k.pc = "hit" => k.seen.is = "row" /\ k.seen.stamp >= k.stamp
    /\ k.pc \in {"write", "members"} => k.got.version >= k.stamp
    /\ k.pc = "members" => GoodRow(k.old)

MembersInv ==
    /\ version \in [Collections -> Nat]
    /\ cache \in [Collections -> CachedRow] /\ \A c \in Collections : GoodRow(cache[c])
    /\ reader \in [Readers -> Reader] /\ \A w \in Readers : GoodReader(reader[w])

LEMMA RowIsGood ==
    ASSUME NEW stamp \in Nat, NEW m \in MemberList, m.whole => m.version >= stamp
    PROVE  GoodRow(Row(stamp, m))
BY DEF GoodRow, Row, CachedRow

LEMMA NothingIsGood ==
    /\ Nothing \in MemberList /\ ~Nothing.whole
    /\ GoodRow(NoRow) /\ NoRow.is = "missing"
<1>1. Nothing \in MemberList /\ ~Nothing.whole
  BY DEF Nothing, Members, MemberList
<1> QED BY <1>1 DEF NoRow, GoodRow, CachedRow

LEMMA AtRestIsGood ==
    ASSUME version \in [Collections -> Nat]
    PROVE  GoodReader(AtRest)
<1>1. AtRest \in Reader
  BY NothingIsGood DEF AtRest, Reader, GoodRow
<1>2. /\ AtRest.pc = "idle" /\ AtRest.served = {}
      /\ AtRest.listed = [c \in Collections |-> 0]
  BY DEF AtRest
<1> QED BY <1>1, <1>2 DEF GoodReader

\* One walk does something; the cache keeps good rows.
LEMMA ReaderStep ==
    ASSUME MembersInv, NEW w \in Readers, NEW k, reader' = [reader EXCEPT ![w] = k],
           UNCHANGED version, GoodReader(k),
           cache' \in [Collections -> CachedRow], \A c \in Collections : GoodRow(cache'[c])
    PROVE  MembersInv'
<1>1. reader' \in [Readers -> Reader] /\ \A v \in Readers : GoodReader(reader'[v])
  BY DEF MembersInv, GoodReader
<1>2. \A v \in Readers : GoodReader(reader[v])'
  BY <1>1 DEF GoodReader, GoodRow, LiveUpdatedAt, Current
<1>3. \A c \in Collections : GoodRow(cache[c])'
  BY DEF GoodRow
<1> QED BY <1>1, <1>2, <1>3 DEF MembersInv

LEMMA MembersInitHolds == ASSUME MembersInit PROVE MembersInv
<1>1. version \in [Collections -> Nat]
  BY DEF MembersInit
<1> QED BY <1>1, NothingIsGood, AtRestIsGood DEF MembersInit, MembersInv, GoodRow, GoodReader

LEMMA BackIsGood ==
    ASSUME NEW k, GoodReader(k), version \in [Collections -> Nat],
           NEW served \in SUBSET ServedList, \A s \in served : Current(s)
    PROVE  GoodReader(Back(k, served))
<1>1. AtRest \in Reader /\ k \in Reader
  BY AtRestIsGood DEF GoodReader
<1>2. /\ Back(k, served) \in Reader /\ Back(k, served).pc = "walk"
      /\ Back(k, served).listed = k.listed /\ Back(k, served).served = served
  BY <1>1 DEF Back, Reader
<1> QED BY <1>2 DEF GoodReader

LEMMA BeginWalkStep ==
    ASSUME MembersInv, NEW w \in Readers, NEW kind \in {"snapshot", "warm"},
           NEW stamps \in {"number", "datetime"}, BeginWalk(w, kind, stamps)
    PROVE  MembersInv'
<1>1. PICK todo \in SUBSET Collections \ {{}} :
        Goto(w, [AtRest EXCEPT !.pc = "walk", !.kind = kind, !.stamps = stamps,
                               !.todo = todo, !.listed = version])
  BY DEF BeginWalk
<1> DEFINE k == [AtRest EXCEPT !.pc = "walk", !.kind = kind, !.stamps = stamps,
                               !.todo = todo, !.listed = version]
<1>2. AtRest \in Reader /\ AtRest.served = {} /\ version \in [Collections -> Nat]
  BY AtRestIsGood DEF GoodReader, MembersInv, AtRest
<1>3. k \in Reader /\ k.pc = "walk" /\ k.listed = version /\ k.served = {}
  BY <1>2 DEF Reader
<1>4. UNCHANGED <<version, cache>> /\ reader' = [reader EXCEPT ![w] = k]
  BY <1>1 DEF BeginWalk, Goto
<1> HIDE DEF k
<1>5. GoodReader(k)
  BY <1>2, <1>3 DEF GoodReader
<1> QED BY <1>4, <1>5, ReaderStep DEF MembersInv

LEMMA LookupStep ==
    ASSUME MembersInv, NEW w \in Readers, NEW c \in Collections, Lookup(w, c)
    PROVE  MembersInv'
<1> DEFINE stamp == LiveUpdatedAt(reader[w].listed[c], reader[w].stamps)
           miss == [reader[w] EXCEPT !.pc = "fetch", !.todo = @ \ {c}, !.coll = c, !.stamp = stamp]
           hit == [miss EXCEPT !.pc = "hit", !.seen = cache[c]]
<1>1. reader[w] \in Reader /\ GoodReader(reader[w]) /\ cache[c] \in CachedRow
  BY DEF MembersInv
<1>2. stamp \in Nat
  BY <1>1 DEF LiveUpdatedAt, Reader
<1>3. /\ miss \in Reader /\ miss.pc = "fetch" /\ miss.coll = c /\ miss.stamp = stamp
      /\ miss.listed = reader[w].listed /\ miss.stamps = reader[w].stamps
      /\ miss.served = reader[w].served
  BY <1>1, <1>2 DEF Reader
<1> HIDE DEF miss
<1>4. /\ hit \in Reader /\ hit.pc = "hit" /\ hit.coll = c /\ hit.stamp = stamp
      /\ hit.listed = reader[w].listed /\ hit.stamps = reader[w].stamps
      /\ hit.served = reader[w].served /\ hit.seen = cache[c]
  BY <1>1, <1>3 DEF Reader
<1> HIDE DEF hit
<1>5. GoodReader(miss)
  BY <1>1, <1>3 DEF GoodReader
<1>6. cache[c].is = "row" /\ cache[c].stamp >= stamp => GoodReader(hit)
  BY <1>1, <1>4 DEF GoodReader
<1>7. /\ UNCHANGED <<version, cache>>
      /\ \/ reader' = [reader EXCEPT ![w] = miss]
         \/ /\ cache[c].is = "row" /\ cache[c].stamp >= stamp
            /\ reader' = [reader EXCEPT ![w] = hit]
  BY DEF Lookup, Goto, miss, hit
<1> QED BY <1>5, <1>6, <1>7, ReaderStep DEF MembersInv

\* A hit whose row is still there as it was looked up is dated by it.
LEMMA ReadMembersStep ==
    ASSUME MembersInv, NEW w \in Readers, ReadMembers(w)
    PROVE  MembersInv'
<1> DEFINE k == reader[w]
           c == k.coll
           members == IF cache[c].is = "row" THEN cache[c].members ELSE Nothing
           failedRead == [k EXCEPT !.pc = "fetch"]
<1>1. /\ UNCHANGED <<version, cache>> /\ k.pc = "hit"
      /\ reader' = [reader EXCEPT ![w] = failedRead]
         \/ reader' = [reader EXCEPT ![w] = Back(k, {Served(k, members)})]
  BY DEF ReadMembers, Is, Goto
<1>2. k \in Reader /\ GoodReader(k) /\ c \in Collections /\ GoodRow(cache[c])
  BY <1>1 DEF MembersInv, GoodReader
<1>3. GoodReader(failedRead)
  <2>1. /\ failedRead \in Reader /\ failedRead.pc = "fetch" /\ failedRead.coll = c
        /\ failedRead.stamp = k.stamp /\ failedRead.listed = k.listed
        /\ failedRead.stamps = k.stamps /\ failedRead.served = k.served
    BY <1>2 DEF Reader
  <2> HIDE DEF failedRead
  <2> QED BY <1>1, <1>2, <2>1 DEF GoodReader
<1>4. GoodReader(Back(k, {Served(k, members)}))
  <2> DEFINE s == Served(k, members)
  <2>1. members \in MemberList
    BY <1>2, NothingIsGood DEF GoodRow, CachedRow
  <2>2. /\ s.listed = k.listed[c] /\ s.members = members /\ s.by = k.stamps
        /\ s.steady = (cache[c] = k.seen)
    BY DEF Served
  <2>3. s \in ServedList
    BY <1>2, <2>1 DEF Served, ServedList, Reader
  <2>4. Current(s)
    <3> SUFFICES ASSUME k.stamps = "number", cache[c] = k.seen, members.whole
                 PROVE  members.version >= k.listed[c]
      BY <2>2 DEF Current
    <3>1. cache[c].is = "row" /\ cache[c].stamp >= k.stamp /\ k.stamp = k.listed[c]
      BY <1>1, <1>2 DEF GoodReader, LiveUpdatedAt
    <3>2. /\ cache[c].members.version >= cache[c].stamp
          /\ cache[c].members.version \in Nat /\ cache[c].stamp \in Nat /\ k.stamp \in Nat
      BY <1>2, <3>1 DEF GoodRow, CachedRow, MemberList, Reader
    <3> QED BY <3>1, <3>2
  <2> HIDE DEF s
  <2>5. version \in [Collections -> Nat]
    BY DEF MembersInv
  <2> QED BY <1>2, <2>3, <2>4, <2>5, BackIsGood DEF s
<1> HIDE DEF failedRead, members
<1> QED BY <1>1, <1>3, <1>4, ReaderStep DEF MembersInv

LEMMA FetchStep ==
    ASSUME MembersInv, NEW w \in Readers, Fetch(w)
    PROVE  MembersInv'
<1> DEFINE k == reader[w]
           fetched(whole) == [k EXCEPT !.pc = "write", !.got = Members(version[k.coll], whole)]
<1>1. /\ UNCHANGED <<version, cache>> /\ k.pc = "fetch"
      /\ \/ \E whole \in BOOLEAN : reader' = [reader EXCEPT ![w] = fetched(whole)]
         \/ reader' = [reader EXCEPT ![w] = Back(k, {})]
  BY DEF Fetch, Is, Goto
<1>2. k \in Reader /\ GoodReader(k) /\ k.coll \in Collections /\ version \in [Collections -> Nat]
  BY <1>1 DEF MembersInv, GoodReader
<1>3. ASSUME NEW whole \in BOOLEAN
      PROVE  GoodReader(fetched(whole))
  <2>1. Members(version[k.coll], whole) \in MemberList /\ Members(version[k.coll], whole).version = version[k.coll]
    BY <1>2 DEF Members, MemberList
  <2>2. /\ fetched(whole) \in Reader /\ fetched(whole).pc = "write" /\ fetched(whole).coll = k.coll
        /\ fetched(whole).stamp = k.stamp /\ fetched(whole).listed = k.listed
        /\ fetched(whole).stamps = k.stamps /\ fetched(whole).served = k.served
        /\ fetched(whole).got.version = version[k.coll]
    BY <1>2, <2>1 DEF Reader
  <2> HIDE DEF fetched
  <2>3. k.stamp = LiveUpdatedAt(k.listed[k.coll], k.stamps) /\ k.listed[k.coll] <= version[k.coll]
    BY <1>1, <1>2 DEF GoodReader
  <2>4. version[k.coll] >= k.stamp
    BY <1>2, <2>3 DEF LiveUpdatedAt, Reader
  <2> QED BY <1>1, <1>2, <2>2, <2>3, <2>4 DEF GoodReader
<1>4. GoodReader(Back(k, {}))
  BY <1>2, BackIsGood
<1> HIDE DEF fetched
<1> QED BY <1>1, <1>3, <1>4, ReaderStep DEF MembersInv

LEMMA WriteRowStep ==
    ASSUME MembersInv, NEW w \in Readers, WriteRow(w)
    PROVE  MembersInv'
<1> DEFINE k == reader[w]
           row == Row(k.stamp, Nothing)
           open == [k EXCEPT !.pc = "members", !.old = cache[k.coll]]
<1>1. /\ UNCHANGED version /\ k.pc = "write"
      /\ \/ reader' = [reader EXCEPT ![w] = Back(k, {})] /\ UNCHANGED cache
         \/ /\ cache' = [cache EXCEPT ![k.coll] = row]
            /\ reader' = [reader EXCEPT ![w] = open]
  BY DEF WriteRow, Is, Goto, Stored
<1>2. /\ k \in Reader /\ GoodReader(k) /\ k.coll \in Collections /\ k.stamp \in Nat
      /\ version \in [Collections -> Nat] /\ GoodRow(cache[k.coll])
      /\ cache \in [Collections -> CachedRow]
  BY <1>1 DEF MembersInv, GoodReader, Reader
<1>3. GoodReader(Back(k, {}))
  BY <1>2, BackIsGood
<1>4. GoodReader(open)
  <2>1. /\ open \in Reader /\ open.pc = "members" /\ open.coll = k.coll
        /\ open.stamp = k.stamp /\ open.listed = k.listed /\ open.stamps = k.stamps
        /\ open.served = k.served /\ open.got = k.got /\ open.old = cache[k.coll]
    BY <1>2 DEF Reader, GoodRow
  <2> HIDE DEF open
  <2> QED BY <1>1, <1>2, <2>1 DEF GoodReader
<1>5. GoodRow(row) /\ row \in CachedRow
  BY <1>2, RowIsGood, NothingIsGood DEF GoodRow
<1> HIDE DEF open, row
<1>6. CASE reader' = [reader EXCEPT ![w] = Back(k, {})] /\ UNCHANGED cache
  BY <1>1, <1>3, <1>6, ReaderStep DEF MembersInv
<1>7. CASE /\ cache' = [cache EXCEPT ![k.coll] = row]
           /\ reader' = [reader EXCEPT ![w] = open]
  <2>1. cache' \in [Collections -> CachedRow] /\ \A c \in Collections : GoodRow(cache'[c])
    BY <1>2, <1>5, <1>7 DEF MembersInv
  <2> QED BY <1>1, <1>4, <1>7, <2>1, ReaderStep
<1> QED BY <1>1, <1>6, <1>7

\* The new row is complete, or the old one is back.
LEMMA WriteMembersStep ==
    ASSUME MembersInv, NEW w \in Readers, WriteMembers(w)
    PROVE  MembersInv'
<1> DEFINE k == reader[w]
<1>1. /\ UNCHANGED version /\ k.pc = "members"
      /\ reader' = [reader EXCEPT ![w] = Back(k, {})]
      /\ \E r \in {k.old, Row(k.stamp, k.got)} : cache' = [cache EXCEPT ![k.coll] = r]
  BY DEF WriteMembers, Is, Goto, Stored
<1>2. /\ k \in Reader /\ GoodReader(k) /\ k.coll \in Collections /\ k.stamp \in Nat
      /\ version \in [Collections -> Nat] /\ k.got \in MemberList
      /\ cache \in [Collections -> CachedRow]
  BY <1>1 DEF MembersInv, GoodReader, Reader
<1>3. GoodReader(Back(k, {}))
  BY <1>2, BackIsGood
<1>4. GoodRow(k.old) /\ GoodRow(Row(k.stamp, k.got))
  BY <1>1, <1>2, RowIsGood DEF GoodReader
<1>5. PICK r \in {k.old, Row(k.stamp, k.got)} : cache' = [cache EXCEPT ![k.coll] = r]
  BY <1>1
<1>6. GoodRow(r) /\ r \in CachedRow
  BY <1>4, <1>5 DEF GoodRow
<1>7. cache' \in [Collections -> CachedRow] /\ \A c \in Collections : GoodRow(cache'[c])
  BY <1>2, <1>5, <1>6 DEF MembersInv
<1> QED BY <1>1, <1>3, <1>7, ReaderStep

LEMMA LeaveWalkStep ==
    ASSUME MembersInv, NEW w \in Readers, LeaveWalk(w)
    PROVE  MembersInv'
BY AtRestIsGood, ReaderStep DEF LeaveWalk, Goto, MembersInv

LEMMA ClearMembersStep == ASSUME MembersInv, ClearMembers PROVE MembersInv'
<1>1. cache' = [c \in Collections |-> NoRow] /\ UNCHANGED <<version, reader>>
  BY DEF ClearMembers
<1>2. cache' \in [Collections -> CachedRow] /\ \A c \in Collections : GoodRow(cache[c])'
  BY <1>1, NothingIsGood DEF GoodRow
<1>3. \A w \in Readers : GoodReader(reader[w])'
  BY <1>1 DEF MembersInv, GoodReader, GoodRow, LiveUpdatedAt, Current
<1> QED BY <1>1, <1>2, <1>3 DEF MembersInv

LEMMA EditCollectionStep ==
    ASSUME MembersInv, NEW c \in Collections, EditCollection(c)
    PROVE  MembersInv'
<1>1. version' = [version EXCEPT ![c] = @ + 1] /\ UNCHANGED <<cache, reader>>
  BY DEF EditCollection
<1>2. /\ version' \in [Collections -> Nat]
      /\ \A d \in Collections : version[d] \in Nat /\ version'[d] >= version[d]
  BY <1>1 DEF MembersInv
<1>3. ASSUME NEW w \in Readers
      PROVE  GoodReader(reader[w])'
  <2>1. reader[w] \in Reader /\ GoodReader(reader[w])
    BY DEF MembersInv
  <2>2. \A d \in Collections : reader[w].listed[d] \in Nat /\ reader[w].listed[d] <= version'[d]
    BY <1>2, <2>1 DEF Reader, GoodReader
  <2> QED BY <1>1, <2>1, <2>2 DEF GoodReader, GoodRow, LiveUpdatedAt, Current
<1> QED BY <1>1, <1>2, <1>3 DEF MembersInv, GoodRow

LEMMA MembersInductive == ASSUME MembersInv, [MembersNext]_memberVars PROVE MembersInv'
<1>1. CASE UNCHANGED memberVars
  BY <1>1 DEF memberVars, MembersInv, GoodReader, GoodRow, LiveUpdatedAt, Current
<1> QED BY <1>1, BeginWalkStep, LeaveWalkStep, LookupStep, ReadMembersStep, FetchStep, WriteRowStep,
           WriteMembersStep, ClearMembersStep, EditCollectionStep DEF MembersNext

(* Members served from the cache are as new as the list the walk works on,  *)
(* for any collections, walks, edits, clearings and failures                *)
(* (collection_cache_db.py:188-262).                                        *)
THEOREM HitsAreCurrent == MembersSpec => []HitIsCurrent
<1>1. MembersInit => MembersInv
  BY MembersInitHolds
<1>2. MembersInv /\ [MembersNext]_memberVars => MembersInv'
  BY MembersInductive
<1>3. MembersInv => HitIsCurrent
  BY DEF MembersInv, GoodReader, HitIsCurrent, Current
<1> QED BY <1>1, <1>2, <1>3, PTL DEF MembersSpec

(***************************************************************************)
(* The cache of playlists.  The keys under which one list of a user may be *)
(* kept are mates; a marker vouches for the rows of all of them.           *)
(***************************************************************************)
Thread == [pc : {"idle", "read", "rows", "next", "connect", "list"} \cup Writing,
           left : SUBSET CacheKeys, daemon : BOOLEAN, user : Users, handle : Handles,
           listed : SUBSET Playlists, todo : SUBSET Playlists, sound : BOOLEAN]

ListsTyped ==
    /\ onServer \in [Users -> SUBSET Playlists]
    /\ cached \subseteq [key : CacheKeys, playlist : Playlists]
    /\ marker \in [CacheKeys -> [is : {"none", "ok", "error"}, listed : SUBSET Playlists,
                                 sound : BOOLEAN]]
    /\ caller \in [Callers -> Thread]

Good(m) == m.is = "ok" /\ m.sound
KeyOf(c) == CacheKey(c.user, c.handle)
Mates(k) == {j \in CacheKeys : Found(j, k[1], k[2])}
RowsOf(k) == ListCached(k[1], k[2])

(* Between the two deletions of a refresh a marker stands without its rows. *)
Exposed(k) == \E t \in Callers : At(t, "unmark") /\ k \in Mates(KeyOf(caller[t]))

(* A sound marker's list is in the rows.                                   *)
Vouches == \A k \in CacheKeys : Good(marker[k]) /\ ~Exposed(k) => RowsOf(k) = marker[k].listed

(* Nothing vouches for rows that are being written.                        *)
Unmarked ==
    \A t \in Callers : At(t, "write") => \A k \in Mates(KeyOf(caller[t])) : ~Good(marker[k])

(* What a refresh that is alone has made of the rows.                      *)
Progress(c) ==
    /\ c.pc \in {"clear", "unmark"} => c.todo = c.listed
    /\ c.pc = "write" => c.todo \subseteq c.listed
    /\ c.pc = "unmark" /\ c.sound => RowsOf(KeyOf(c)) = {}
    /\ c.pc = "write" /\ c.sound => RowsOf(KeyOf(c)) = c.listed \ c.todo

Filled == \A t \in Callers : Progress(caller[t])

Alone ==
    \A t \in Callers : caller[t].pc \in Writing /\ caller[t].sound =>
        \A s \in Callers : caller[s].pc \in Writing /\ caller[s].user = caller[t].user => s = t

ListsInv == ListsTyped /\ Vouches /\ Unmarked /\ Filled /\ Alone

(* The mates of a key are its user's, what is cleared with it, and have the *)
(* same rows.                                                               *)
LEMMA KeyOfIsKey ==
    ASSUME CacheAssumption, NEW c \in Thread
    PROVE  KeyOf(c) \in CacheKeys /\ KeyOf(c)[1] = c.user
BY DEF KeyOf, CacheKey, CacheKeys, Thread, Handles

LEMMA MatesAgree ==
    ASSUME NEW k \in CacheKeys
    PROVE  /\ k \in Mates(k)
           /\ \A j \in CacheKeys : j \in Mates(k) <=> Cleared(j, k[1], k)
           /\ \A j \in CacheKeys : j \in Mates(k) <=> k \in Mates(j)
           /\ \A j \in Mates(k) : j \in CacheKeys /\ j[1] = k[1] /\ RowsOf(j) = RowsOf(k)
<1>1. k[1] \in Users /\ k[2] \in Handles /\ k = <<k[1], k[2]>>
  BY DEF CacheKeys
<1>2. \A j \in CacheKeys : j[1] \in Users /\ j[2] \in Handles /\ j = <<j[1], j[2]>>
  BY DEF CacheKeys
<1>3. \A j \in Mates(k) : j \in CacheKeys /\ j[1] = k[1] /\ (k[1] \notin Tagged => j = k)
  BY <1>1, <1>2 DEF Mates, Found
<1>4. \A j \in Mates(k) : RowsOf(j) = RowsOf(k)
  BY <1>3 DEF RowsOf, ListCached, Found
<1> QED BY <1>1, <1>2, <1>3, <1>4 DEF Mates, Found, Cleared

LEMMA RestingTyped == ASSUME CacheAssumption PROVE Resting \in Thread
<1>1. (CHOOSE u \in Users : TRUE) \in Users
  BY DEF CacheAssumption
<1> QED BY <1>1 DEF Resting, Thread, Handles

LEMMA ListsInitHolds == ASSUME CacheAssumption, ListsInit PROVE ListsInv
<1>1. ListsTyped
  BY RestingTyped DEF CacheAssumption, ListsInit, ListsTyped, NoMarker
<1>2. \A t \in Callers : caller[t] = Resting
  BY DEF ListsInit
<1>3. \A k \in CacheKeys : ~Good(marker[k])
  BY DEF ListsInit, NoMarker, Good
<1>4. Resting.pc = "idle"
  BY DEF Resting
<1> QED BY <1>1, <1>2, <1>3, <1>4
        DEF ListsInv, Vouches, Unmarked, Filled, Progress, Alone, At, Writing

(* A thread that leaves its rows alone, or has left them, endangers no     *)
(* other, as long as no marker gets sounder.                               *)
LEMMA QuietTurn ==
    ASSUME CacheAssumption, ListsInv, NEW t \in Callers, NEW rec \in Thread, Turn(t, rec),
           rec.pc \notin Writing, ~At(t, "unmark"), UNCHANGED <<onServer, cached>>,
           marker' \in [CacheKeys -> [is : {"none", "ok", "error"}, listed : SUBSET Playlists,
                                      sound : BOOLEAN]],
           \A k \in CacheKeys : Good(marker'[k]) => marker'[k] = marker[k]
    PROVE  ListsInv'
<1>1. ListsTyped'
  BY DEF ListsInv, ListsTyped, Turn
<1>2. \A s \in Callers : /\ caller'[s] = IF s = t THEN rec ELSE caller[s]
                         /\ caller[s] \in Thread
  BY DEF ListsInv, ListsTyped, Turn
<1>3. \A k : RowsOf(k)' = RowsOf(k)
  BY DEF RowsOf, ListCached
<1>4. Vouches'
  <2> SUFFICES ASSUME NEW k \in CacheKeys, Good(marker'[k]), ~Exposed(k)'
               PROVE  RowsOf(k)' = marker'[k].listed
    BY DEF Vouches
  <2>1. ~Exposed(k)
    BY <1>2 DEF Exposed, At
  <2> QED BY <2>1, <1>3 DEF ListsInv, Vouches
<1>5. Unmarked'
  <2> SUFFICES ASSUME NEW s \in Callers, At(s, "write")', NEW k \in Mates(KeyOf(caller'[s]))
               PROVE  ~Good(marker'[k])
    BY DEF Unmarked, Mates, KeyOf, Found, CacheKey
  <2>1. s # t /\ caller'[s] = caller[s]
    BY <1>2 DEF At, Writing
  <2>2. k \in CacheKeys
    BY DEF Mates
  <2>3. ~Good(marker[k])
    BY <2>1 DEF ListsInv, Unmarked, At
  <2> QED BY <2>2, <2>3
<1>6. Filled'
  BY <1>2, <1>3 DEF ListsInv, Filled, Progress, Writing, KeyOf
<1>7. Alone'
  BY <1>2 DEF ListsInv, Alone
<1> QED BY <1>1, <1>4, <1>5, <1>6, <1>7 DEF ListsInv


LEMMA AskingTyped ==
    ASSUME CacheAssumption, NEW pc \in {"read", "connect"}, NEW left \in SUBSET CacheKeys,
           NEW daemon \in BOOLEAN, NEW u \in Users, NEW h \in Handles
    PROVE  Asking(pc, left, daemon, u, h) \in Thread /\ Asking(pc, left, daemon, u, h).pc \notin Writing
BY RestingTyped DEF Asking, Resting, Thread, Writing

LEMMA NextTyped ==
    ASSUME CacheAssumption, NEW left \in SUBSET CacheKeys, NEW daemon \in BOOLEAN
    PROVE  LET c == [Resting EXCEPT !.pc = "next", !.left = left, !.daemon = daemon]
           IN  c \in Thread /\ c.pc \notin Writing
BY RestingTyped DEF Resting, Thread, Writing

LEMMA AfterTyped ==
    ASSUME CacheAssumption, ListsTyped, NEW t \in Callers
    PROVE  After(t) \in Thread /\ After(t).pc \notin Writing
<1>1. caller[t].left \in SUBSET CacheKeys /\ caller[t].daemon \in BOOLEAN
  BY DEF ListsTyped, Thread
<1> QED BY <1>1, NextTyped, RestingTyped DEF After, Resting, Writing

LEMMA ReaderTurns ==
    ASSUME CacheAssumption, ListsInv, NEW t \in Callers,
           \/ \E u \in Users, h \in Handles : Ask(t, u, h)
           \/ RefreshServer(t) \/ DaemonPass(t) \/ NextUser(t) \/ ReadMarker(t) \/ ReadRows(t)
    PROVE  ListsInv'
<1>0. caller[t] \in Thread /\ ListsTyped
  BY DEF ListsInv, ListsTyped
<1>1. SUFFICES \E rec \in Thread : Turn(t, rec) /\ rec.pc \notin Writing /\ ~At(t, "unmark")
               /\ UNCHANGED <<onServer, cached, marker>>
  BY QuietTurn DEF ListsInv, ListsTyped
<1>2. ASSUME NEW u \in Users, NEW h \in Handles, Ask(t, u, h)
      PROVE  \E rec \in Thread : Turn(t, rec) /\ rec.pc \notin Writing /\ ~At(t, "unmark")
             /\ UNCHANGED <<onServer, cached, marker>>
  BY <1>2, AskingTyped DEF Ask, At
<1>3. CASE RefreshServer(t)
  <2> DEFINE left == {<<u, IF u \in WithId THEN "id" ELSE "name">> : u \in Users}
             rec == [Resting EXCEPT !.pc = "next", !.left = left]
  <2>1. left \in SUBSET CacheKeys
    BY DEF CacheKeys, Handles
  <2>2. rec \in Thread /\ rec.pc \notin Writing
    BY <2>1, RestingTyped DEF Thread, Resting, Writing
  <2> QED BY <1>3, <2>2 DEF RefreshServer, At
<1>4. CASE DaemonPass(t)
  <2> DEFINE left == {r.key : r \in cached}
             rec == [Resting EXCEPT !.pc = "next", !.daemon = TRUE, !.left = left]
  <2>1. left \in SUBSET CacheKeys
    BY <1>0 DEF ListsTyped
  <2>2. rec \in Thread /\ rec.pc \notin Writing
    BY <2>1, RestingTyped DEF Thread, Resting, Writing
  <2> QED BY <1>4, <2>2 DEF DaemonPass, At
<1>5. CASE NextUser(t)
  <2>1. ASSUME NEW k \in caller[t].left
        PROVE  LET rec == Asking("connect", caller[t].left \ {k}, caller[t].daemon, k[1], k[2])
               IN  rec \in Thread /\ rec.pc \notin Writing
    <3>1. /\ caller[t].left \ {k} \in SUBSET CacheKeys /\ caller[t].daemon \in BOOLEAN
          /\ k[1] \in Users /\ k[2] \in Handles
      BY <1>0 DEF Thread, CacheKeys
    <3> QED BY <3>1, AskingTyped
  <2>2. Resting \in Thread /\ Resting.pc \notin Writing
    BY RestingTyped DEF Resting, Writing
  <2> QED BY <1>5, <2>1, <2>2 DEF NextUser, At
<1>6. ASSUME NEW pc \in {"rows", "connect"}
      PROVE  LET rec == [caller[t] EXCEPT !.pc = pc] IN rec \in Thread /\ rec.pc \notin Writing
  BY <1>0 DEF Thread, Writing
<1>7. CASE ReadMarker(t)
  BY <1>6, <1>7 DEF ReadMarker, Proceed, At
<1>8. CASE ReadRows(t)
  BY <1>8, RestingTyped DEF ReadRows, At, Resting, Writing
<1> QED BY <1>2, <1>3, <1>4, <1>5, <1>7, <1>8

(* A failed step of a refresh before its rows: at most an error is marked. *)
LEMMA ErrorIsQuiet ==
    ASSUME ListsTyped, NEW k \in CacheKeys
    PROVE  /\ WithMarker(k, Error) \in [CacheKeys -> [is : {"none", "ok", "error"},
                                           listed : SUBSET Playlists, sound : BOOLEAN]]
           /\ \A j \in CacheKeys : Good(WithMarker(k, Error)[j]) => WithMarker(k, Error)[j] = marker[j]
BY DEF ListsTyped, WithMarker, Error, Good

LEMMA ConnectStep == ASSUME CacheAssumption, ListsInv, NEW t \in Callers, Connect(t) PROVE ListsInv'
<1>1. caller[t] \in Thread /\ ListsTyped /\ ~At(t, "unmark")
  BY DEF ListsInv, ListsTyped, Connect, At
<1>2. <<caller[t].user, caller[t].handle>> \in CacheKeys
  BY <1>1 DEF Thread, CacheKeys
<1>3. [caller[t] EXCEPT !.pc = "list"] \in Thread /\ [caller[t] EXCEPT !.pc = "list"].pc \notin Writing
  BY <1>1 DEF Thread, Writing
<1>4. PICK rec \in {After(t), [caller[t] EXCEPT !.pc = "list"]} :
         Turn(t, rec) /\ marker' \in {marker, WithMarker(<<caller[t].user, caller[t].handle>>, Error)}
         /\ UNCHANGED <<onServer, cached>>
  BY DEF Connect, Proceed
<1>5. rec \in Thread /\ rec.pc \notin Writing
  BY <1>1, <1>3, <1>4, AfterTyped
<1>6. marker \in [CacheKeys -> [is : {"none", "ok", "error"}, listed : SUBSET Playlists,
                               sound : BOOLEAN]]
  BY <1>1 DEF ListsTyped
<1> QED BY <1>1, <1>2, <1>4, <1>5, <1>6, ErrorIsQuiet, QuietTurn

(* A refresh begins to work on a user's rows: it is alone, or nobody is    *)
(* sound any more.                                                         *)
LEMMA BeginRefresh ==
    ASSUME CacheAssumption, ListsInv, NEW t \in Callers, NEW rec \in Thread, At(t, "list"),
           caller' = [Crowded(caller[t].user) EXCEPT ![t] = rec],
           rec.pc \in {"clear", "detail"}, rec.user = caller[t].user, rec.sound = (WritersOf(caller[t].user) = {}),
           rec.pc = "clear" => rec.todo = rec.listed,
           UNCHANGED <<onServer, cached, marker>>
    PROVE  ListsInv'
<1> DEFINE u == caller[t].user
           Dim(s) == [caller[s] EXCEPT !.sound = FALSE]
<1>1. \A s \in Callers : caller[s] \in Thread
  BY DEF ListsInv, ListsTyped
<1>2. \A s \in Callers : caller'[s] = IF s = t THEN rec
                                      ELSE IF s \in WritersOf(u) THEN Dim(s) ELSE caller[s]
  BY DEF Crowded
<1>11. ASSUME NEW s \in Callers
       PROVE  /\ Dim(s) \in Thread /\ ~Dim(s).sound
              /\ Dim(s).pc = caller[s].pc /\ Dim(s).user = caller[s].user
              /\ Dim(s).handle = caller[s].handle /\ Dim(s).todo = caller[s].todo
              /\ Dim(s).listed = caller[s].listed
  BY <1>1 DEF Thread
<1> HIDE DEF Dim
<1>3. \A s \in Callers : s # t =>
         /\ caller'[s] \in Thread /\ caller'[s].pc = caller[s].pc /\ caller'[s].user = caller[s].user
         /\ caller'[s].handle = caller[s].handle /\ caller'[s].todo = caller[s].todo
         /\ caller'[s].listed = caller[s].listed /\ (caller'[s].sound => caller[s].sound)
         /\ s \in WritersOf(u) => ~caller'[s].sound
  BY <1>1, <1>2, <1>11
<1>4. \A s \in Callers : s # t => KeyOf(caller'[s]) = KeyOf(caller[s])
  BY <1>3 DEF KeyOf
<1>5. \A k : RowsOf(k)' = RowsOf(k)
  BY DEF RowsOf, ListCached
<1>6. ListsTyped'
  <2>1. caller' = [s \in Callers |-> caller'[s]]
    BY DEF Crowded
  <2>2. caller' \in [Callers -> Thread]
    BY <1>2, <1>3, <2>1
  <2> QED BY <2>2 DEF ListsInv, ListsTyped
<1>7. Vouches'
  <2> SUFFICES ASSUME NEW k \in CacheKeys, Good(marker[k]), ~Exposed(k)'
               PROVE  RowsOf(k) = marker[k].listed
    BY <1>5 DEF Vouches
  <2>1. ASSUME NEW s \in Callers, At(s, "unmark"), k \in Mates(KeyOf(caller[s]))
        PROVE  FALSE
    <3>1. s # t
      BY <2>1 DEF At
    <3>2. At(s, "unmark")' /\ KeyOf(caller[s])' = KeyOf(caller[s])
      BY <2>1, <3>1, <1>3, <1>4 DEF At, KeyOf, CacheKey
    <3>3. Mates(KeyOf(caller[s]))' = Mates(KeyOf(caller[s]))
      BY <3>2 DEF Mates, Found
    <3> QED BY <2>1, <3>2, <3>3 DEF Exposed
  <2> QED BY <2>1 DEF ListsInv, Vouches, Exposed
<1>8. Unmarked'
  <2> SUFFICES ASSUME NEW s \in Callers, At(s, "write")', NEW k \in Mates(KeyOf(caller'[s]))
               PROVE  ~Good(marker[k])
    BY DEF Unmarked, Mates, KeyOf, Found, CacheKey
  <2>1. s # t
    BY <1>2 DEF At
  <2>2. At(s, "write") /\ k \in Mates(KeyOf(caller[s]))
    BY <2>1, <1>3, <1>4 DEF At
  <2> QED BY <2>2 DEF ListsInv, Unmarked
<1>9. Filled'
  <2> SUFFICES ASSUME NEW s \in Callers PROVE Progress(caller[s])'
    BY DEF Filled
  <2>1. CASE s = t
    BY <1>2, <2>1 DEF Progress
  <2>2. CASE s # t
    <3>1. Progress(caller[s])
      BY DEF ListsInv, Filled
    <3>2. RowsOf(KeyOf(caller[s]))' = RowsOf(KeyOf(caller[s]))
      BY <1>4, <1>5, <2>2 DEF KeyOf
    <3> QED BY <1>3, <2>2, <3>1, <3>2 DEF Progress
  <2> QED BY <2>1, <2>2
<1>10. Alone'
  <2> SUFFICES ASSUME NEW r \in Callers, NEW s \in Callers,
                      caller'[r].pc \in Writing, caller'[r].sound,
                      caller'[s].pc \in Writing, caller'[s].user = caller'[r].user, s # r
               PROVE  FALSE
    BY DEF Alone
  <2>1. caller'[t] = rec
    BY <1>2
  <2>2. CASE r = t
    <3>1. s \in WritersOf(u) /\ rec.sound
      BY <2>1, <2>2, <1>3 DEF WritersOf
    <3> QED BY <3>1
  <2>3. CASE s = t
    <3>1. r \in WritersOf(u)
      BY <2>1, <2>3, <1>3 DEF WritersOf
    <3> QED BY <2>3, <3>1, <1>3
  <2>4. CASE r # t /\ s # t
    BY <2>4, <1>3 DEF ListsInv, Alone
  <2> QED BY <2>2, <2>3, <2>4
<1> QED BY <1>6, <1>7, <1>8, <1>9, <1>10 DEF ListsInv

LEMMA ListStep == ASSUME CacheAssumption, ListsInv, NEW t \in Callers, List(t) PROVE ListsInv'
<1> DEFINE c == caller[t]
           rec == [c EXCEPT !.pc = "clear", !.listed = onServer[c.user], !.todo = onServer[c.user],
                            !.sound = WritersOf(c.user) = {}]
<1>1. c \in Thread /\ ListsTyped /\ At(t, "list") /\ ~At(t, "unmark")
  BY DEF ListsInv, ListsTyped, List, At
<1>2. <<c.user, c.handle>> \in CacheKeys
  BY <1>1 DEF Thread, CacheKeys
<1>3. CASE marker' = WithMarker(<<c.user, c.handle>>, Error) /\ Turn(t, After(t))
  BY <1>1, <1>2, <1>3, AfterTyped, ErrorIsQuiet, QuietTurn DEF List
<1>4. CASE caller' = [Crowded(c.user) EXCEPT ![t] = rec] /\ UNCHANGED marker
  <2>1. onServer[c.user] \in SUBSET Playlists /\ c.user \in Users
    BY <1>1 DEF ListsTyped, Thread
  <2>2. /\ rec \in Thread /\ rec.pc = "clear" /\ rec.user = c.user
        /\ rec.sound = (WritersOf(c.user) = {}) /\ rec.todo = rec.listed
    BY <1>1, <2>1 DEF Thread, Writing
  <2> HIDE DEF rec
  <2> QED BY <1>1, <1>4, <2>2, BeginRefresh DEF List
<1> QED BY <1>3, <1>4 DEF List

LEMMA DetailStep ==
    ASSUME CacheAssumption, ListsInv, NEW t \in Callers, NEW p \in Playlists, Detail(t, p)
    PROVE  ListsInv'
<1> DEFINE c == caller[t]
           rec == [c EXCEPT !.pc = "detail", !.todo = {p}, !.sound = WritersOf(c.user) = {}]
<1>1. c \in Thread /\ At(t, "list")
  BY DEF ListsInv, ListsTyped, Detail
<1>2. rec \in Thread /\ rec.pc = "detail" /\ rec.user = c.user /\ rec.sound = (WritersOf(c.user) = {})
  BY <1>1 DEF Thread, Writing
<1>3. caller' = [Crowded(c.user) EXCEPT ![t] = rec] /\ UNCHANGED <<onServer, cached, marker>>
  BY DEF Detail
<1> HIDE DEF rec
<1> QED BY <1>1, <1>2, <1>3, BeginRefresh

LEMMA MatesShare ==
    ASSUME NEW k \in CacheKeys, NEW j \in Mates(k)
    PROVE  Mates(j) = Mates(k)
<1>1. k[1] \in Users /\ k[2] \in Handles /\ k = <<k[1], k[2]>>
  BY DEF CacheKeys
<1>2. j \in CacheKeys /\ j[1] = k[1] /\ (k[1] \notin Tagged => j = k)
  BY <1>1 DEF CacheKeys, Mates, Found
<1> QED BY <1>2 DEF Mates, Found

(* The rows a written playlist joins, and those that a clear deletes.      *)
LEMMA RowsGrow ==
    ASSUME NEW K \in CacheKeys, NEW p, cached' = cached \cup {[key |-> K, playlist |-> p]}
    PROVE  \A k \in CacheKeys : RowsOf(k)' = RowsOf(k) \cup (IF k \in Mates(K) THEN {p} ELSE {})
<1> SUFFICES ASSUME NEW k \in CacheKeys
             PROVE  RowsOf(k)' = RowsOf(k) \cup (IF k \in Mates(K) THEN {p} ELSE {})
  OBVIOUS
<1>1. Found(K, k[1], k[2]) <=> k \in Mates(K)
  BY MatesAgree DEF Mates
<1>2. RowsOf(k)' = {r.playlist : r \in {r \in cached' : Found(r.key, k[1], k[2])}}
  BY DEF RowsOf, ListCached
<1>3. RowsOf(k) = {r.playlist : r \in {r \in cached : Found(r.key, k[1], k[2])}}
  BY DEF RowsOf, ListCached
<1> DEFINE R == [key |-> K, playlist |-> p]
           old == {r \in cached : Found(r.key, k[1], k[2])}
           new == {r \in cached' : Found(r.key, k[1], k[2])}
<1>4. R.key = K /\ R.playlist = p
  OBVIOUS
<1> HIDE DEF R
<1>5. cached' = cached \cup {R}
  BY DEF R
<1> HIDE DEF Found, Mates, RowsOf
<1>6. CASE k \in Mates(K)
  <2>1. new = old \cup {R}
    BY <1>1, <1>4, <1>5, <1>6
  <2> HIDE DEF old, new
  <2>2. {r.playlist : r \in new} = {r.playlist : r \in old} \cup {p}
    BY <2>1, <1>4
  <2> QED BY <1>2, <1>3, <1>6, <2>2 DEF old, new
<1>7. CASE k \notin Mates(K)
  <2>1. new = old
    BY <1>1, <1>4, <1>5, <1>7
  <2> QED BY <1>2, <1>3, <1>7, <2>1
<1> QED BY <1>6, <1>7

LEMMA RowsGo ==
    ASSUME ListsTyped, NEW K \in CacheKeys, cached' = {r \in cached : r.key \notin Mates(K)}
    PROVE  \A k \in CacheKeys : RowsOf(k)' = IF k \in Mates(K) THEN {} ELSE RowsOf(k)
<1> SUFFICES ASSUME NEW k \in CacheKeys
             PROVE  RowsOf(k)' = IF k \in Mates(K) THEN {} ELSE RowsOf(k)
  OBVIOUS
<1>1. \A r \in cached : r.key \in CacheKeys /\ (Found(r.key, k[1], k[2]) <=> r.key \in Mates(k))
  BY DEF ListsTyped, Mates
<1>2. k \in Mates(K) => Mates(k) = Mates(K)
  BY MatesShare
<1>3. ASSUME NEW r \in cached, r.key \in Mates(k), r.key \in Mates(K)
      PROVE  k \in Mates(K)
  BY <1>3, MatesShare, MatesAgree
<1>4. RowsOf(k)' = {r.playlist : r \in {r \in cached' : Found(r.key, k[1], k[2])}}
  BY DEF RowsOf, ListCached
<1>5. RowsOf(k) = {r.playlist : r \in {r \in cached : Found(r.key, k[1], k[2])}}
  BY DEF RowsOf, ListCached
<1> HIDE DEF Found, Mates, RowsOf
<1>6. k \in Mates(K) => {r \in cached' : Found(r.key, k[1], k[2])} = {}
  BY <1>1, <1>2
<1>7. k \notin Mates(K) => {r \in cached' : Found(r.key, k[1], k[2])} = {r \in cached : Found(r.key, k[1], k[2])}
  BY <1>1, <1>3
<1> QED BY <1>4, <1>5, <1>6, <1>7

(* A step of a refresh on its own user's rows endangers no other list, and *)
(* no other refresh of that user is sound.                                 *)
LEMMA WriterTurn ==
    ASSUME CacheAssumption, ListsInv, NEW t \in Callers, NEW rec \in Thread, Turn(t, rec),
           caller[t].pc \in Writing, UNCHANGED onServer,
           cached' \subseteq [key : CacheKeys, playlist : Playlists],
           marker' \in [CacheKeys -> [is : {"none", "ok", "error"}, listed : SUBSET Playlists,
                                      sound : BOOLEAN]],
           rec.pc \in Writing => /\ rec.user = caller[t].user /\ KeyOf(rec) = KeyOf(caller[t])
                                 /\ rec.sound => caller[t].sound,
           \A k \in CacheKeys : k \notin Mates(KeyOf(caller[t])) =>
                 RowsOf(k)' = RowsOf(k) /\ marker'[k] = marker[k],
           \A k \in Mates(KeyOf(caller[t])) : Good(marker'[k]) =>
                 /\ rec.pc # "write"
                 /\ Good(marker[k]) \/ caller[t].sound
                 /\ rec.pc = "unmark" \/ Exposed(k)' \/ RowsOf(k)' = marker'[k].listed,
           Progress(rec)'
    PROVE  ListsInv'
<1> DEFINE K == KeyOf(caller[t])
<1>1. \A s \in Callers : /\ caller'[s] = IF s = t THEN rec ELSE caller[s]
                         /\ caller[s] \in Thread
  BY DEF ListsInv, ListsTyped, Turn
<1>2. K \in CacheKeys /\ K[1] = caller[t].user
  BY <1>1, KeyOfIsKey
<1>3. ListsTyped'
  BY DEF ListsInv, ListsTyped, Turn
<1>4. \A s \in Callers : At(s, "unmark")' => At(s, "unmark") \/ s = t
  BY <1>1 DEF At
<1>5. Vouches'
  <2> SUFFICES ASSUME NEW k \in CacheKeys, Good(marker'[k]), ~Exposed(k)'
               PROVE  RowsOf(k)' = marker'[k].listed
    BY DEF Vouches
  <2>1. CASE k \in Mates(K)
    <3>1. CASE rec.pc = "unmark"
      <4>1. At(t, "unmark")' /\ k \in Mates(KeyOf(caller[t]))'
        BY <1>1, <2>1, <3>1 DEF At, Writing, Mates, Found, KeyOf, CacheKey
      <4> QED BY <4>1 DEF Exposed
    <3> QED BY <2>1, <3>1
  <2>2. CASE k \notin Mates(K)
    <3>1. ASSUME NEW s \in Callers, At(s, "unmark"), k \in Mates(KeyOf(caller[s]))
          PROVE  FALSE
      <4>1. s # t
        BY <2>2, <3>1
      <4>2. At(s, "unmark")' /\ k \in Mates(KeyOf(caller[s]))'
        BY <1>1, <3>1, <4>1 DEF At, Mates, Found, KeyOf, CacheKey
      <4> QED BY <4>2 DEF Exposed
    <3> QED BY <2>2, <3>1 DEF ListsInv, Vouches, Exposed
  <2> QED BY <2>1, <2>2
<1>6. Unmarked'
  <2> SUFFICES ASSUME NEW s \in Callers, caller'[s].pc = "write", NEW k \in Mates(KeyOf(caller'[s])),
                      Good(marker'[k])
               PROVE  FALSE
    BY DEF Unmarked, Mates, KeyOf, Found, CacheKey, At
  <2>1. k \in CacheKeys
    BY DEF Mates
  <2>2. CASE s = t
    BY <1>1, <2>2 DEF Writing
  <2>3. CASE s # t
    <3>1. At(s, "write") /\ k \in Mates(KeyOf(caller[s]))
      BY <1>1, <2>3 DEF At
    <3>2. ~Good(marker[k])
      BY <3>1 DEF ListsInv, Unmarked
    <3>3. k \in Mates(K) /\ caller[t].sound
      BY <2>1, <3>2
    <3>4. caller[s].user = caller[t].user
      BY <1>1, <1>2, <3>1, <3>3, KeyOfIsKey, MatesAgree
    <3> QED BY <2>3, <3>1, <3>3, <3>4 DEF ListsInv, Alone, At, Writing
  <2> QED BY <2>2, <2>3
<1>7. Filled'
  <2> SUFFICES ASSUME NEW s \in Callers PROVE Progress(caller[s])'
    BY DEF Filled
  <2>1. CASE s = t
    BY <1>1, <2>1 DEF Progress, KeyOf, CacheKey, RowsOf, ListCached
  <2>2. CASE s # t
    <3>1. caller'[s] = caller[s] /\ Progress(caller[s])
      BY <1>1, <2>2 DEF ListsInv, Filled
    <3>2. ASSUME caller[s].pc \in {"unmark", "write"}, caller[s].sound
          PROVE  RowsOf(KeyOf(caller[s]))' = RowsOf(KeyOf(caller[s]))
      <4>1. caller[s].user # caller[t].user
        BY <2>2, <3>2 DEF ListsInv, Alone, Writing
      <4>2. KeyOf(caller[s]) \in CacheKeys /\ KeyOf(caller[s])[1] = caller[s].user
        BY <1>1, KeyOfIsKey
      <4>3. KeyOf(caller[s]) \notin Mates(K)
        BY <1>2, <4>1, <4>2, MatesAgree
      <4>4. PICK k \in CacheKeys : k = KeyOf(caller[s])
        BY <4>2
      <4>5. RowsOf(k)' = RowsOf(k)
        BY <4>3, <4>4
      <4> QED BY <3>1, <4>4, <4>5 DEF KeyOf, CacheKey, RowsOf, ListCached
    <3> QED BY <3>1, <3>2 DEF Progress
  <2> QED BY <2>1, <2>2
<1>8. Alone'
  <2> SUFFICES ASSUME NEW r \in Callers, NEW s \in Callers,
                      caller'[r].pc \in Writing, caller'[r].sound,
                      caller'[s].pc \in Writing, caller'[s].user = caller'[r].user, s # r
               PROVE  FALSE
    BY DEF Alone
  <2> QED BY <1>1 DEF ListsInv, Alone
<1> QED BY <1>3, <1>5, <1>6, <1>7, <1>8 DEF ListsInv

LEMMA WriterFacts ==
    ASSUME CacheAssumption, ListsInv, NEW t \in Callers
    PROVE  LET K == KeyOf(caller[t])
           IN  /\ ListsTyped /\ caller[t] \in Thread /\ Progress(caller[t])
               /\ K = CacheKey(caller[t].user, caller[t].handle) /\ K \in CacheKeys /\ K \in Mates(K)
               /\ \A k \in CacheKeys : k \in Mates(K) <=> Cleared(k, caller[t].user, K)
<1>1. ListsTyped /\ caller[t] \in Thread /\ Progress(caller[t])
  BY DEF ListsInv, ListsTyped, Filled
<1> QED BY <1>1, KeyOfIsKey, MatesAgree DEF KeyOf

(* A lost deletion leaves the marker, which nobody may trust any more.     *)
LEMMA LostDeletion ==
    ASSUME CacheAssumption, ListsInv, NEW t \in Callers, At(t, "clear") \/ At(t, "unmark"),
           Turn(t, [caller[t] EXCEPT !.pc = "write", !.sound = FALSE]),
           marker' = Doubted(caller[t].user, CacheKey(caller[t].user, caller[t].handle)),
           UNCHANGED <<onServer, cached>>
    PROVE  ListsInv'
<1> DEFINE K == KeyOf(caller[t])
<1>1. PICK rec : rec = [caller[t] EXCEPT !.pc = "write", !.sound = FALSE]
  OBVIOUS
<1>2. /\ rec \in Thread /\ rec.pc = "write" /\ ~rec.sound /\ rec.user = caller[t].user
      /\ rec.handle = caller[t].handle /\ rec.todo = caller[t].todo /\ rec.listed = caller[t].listed
      /\ caller[t].pc \in Writing
  BY <1>1, WriterFacts DEF Thread, Writing, At
<1>3. \A k \in CacheKeys : marker'[k] = IF k \in Mates(K) THEN Doubtful(marker[k]) ELSE marker[k]
  BY WriterFacts DEF Doubted
<1>4. marker' \in [CacheKeys -> [is : {"none", "ok", "error"}, listed : SUBSET Playlists,
                                 sound : BOOLEAN]]
  BY WriterFacts DEF Doubted, Doubtful, ListsTyped
<1>5. \A k \in Mates(K) : ~Good(marker'[k])
  <2>1. \A k \in Mates(K) : k \in CacheKeys
    BY DEF Mates
  <2>2. \A k \in CacheKeys : ~Doubtful(marker[k]).sound
    BY WriterFacts DEF Doubtful, ListsTyped
  <2> QED BY <1>3, <2>1, <2>2 DEF Good
<1>6. \A k : RowsOf(k)' = RowsOf(k)
  BY DEF RowsOf, ListCached
<1>7. Progress(rec)'
  BY <1>2, WriterFacts DEF Progress, At
<1>8. cached' \subseteq [key : CacheKeys, playlist : Playlists]
  BY WriterFacts DEF ListsTyped
<1> QED BY <1>1, <1>2, <1>3, <1>4, <1>5, <1>6, <1>7, <1>8, WriterTurn DEF KeyOf

LEMMA ClearStep == ASSUME CacheAssumption, ListsInv, NEW t \in Callers, Clear(t) PROVE ListsInv'
<1> DEFINE K == KeyOf(caller[t])
<1>1. At(t, "clear") /\ UNCHANGED onServer
  BY DEF Clear
<1>2. CASE cached' = {r \in cached : ~Cleared(r.key, caller[t].user, K)} /\ Proceed(t, "unmark")
           /\ UNCHANGED marker
  <2>1. PICK rec : rec = [caller[t] EXCEPT !.pc = "unmark"]
    OBVIOUS
  <2>2. /\ rec \in Thread /\ rec.pc = "unmark" /\ rec.sound = caller[t].sound
        /\ rec.user = caller[t].user /\ rec.handle = caller[t].handle
        /\ rec.todo = caller[t].todo /\ rec.listed = caller[t].listed /\ caller[t].pc \in Writing
    BY <1>1, <2>1, WriterFacts DEF Thread, Writing, At
  <2>3. cached' = {r \in cached : r.key \notin Mates(K)}
    BY <1>2, WriterFacts DEF ListsTyped
  <2>4. \A k \in CacheKeys : RowsOf(k)' = IF k \in Mates(K) THEN {} ELSE RowsOf(k)
    BY <2>3, WriterFacts, RowsGo
  <2>5. KeyOf(rec) = K
    BY <2>2 DEF KeyOf
  <2>6. RowsOf(KeyOf(rec))' = {}
    <3>1. PICK k \in CacheKeys : k = K
      BY WriterFacts
    <3>2. RowsOf(k)' = {}
      BY <2>4, <3>1, WriterFacts
    <3> QED BY <2>2, <2>5, <3>1, <3>2 DEF KeyOf, CacheKey, RowsOf, ListCached
  <2>7. Progress(rec)'
    BY <1>1, <2>2, <2>6, WriterFacts DEF Progress, At
  <2>8. cached' \subseteq [key : CacheKeys, playlist : Playlists]
    BY <2>3, WriterFacts DEF ListsTyped
  <2>9. marker \in [CacheKeys -> [is : {"none", "ok", "error"}, listed : SUBSET Playlists,
                                  sound : BOOLEAN]] /\ Mates(K) \subseteq CacheKeys
    BY WriterFacts DEF ListsTyped, Mates
  <2>10. Turn(t, rec)
    BY <1>2, <2>1 DEF Proceed
  <2> QED BY <1>1, <1>2, <2>2, <2>4, <2>5, <2>7, <2>8, <2>9, <2>10, WriterTurn
<1> QED BY <1>1, <1>2, LostDeletion DEF Clear, KeyOf

LEMMA UnmarkStep == ASSUME CacheAssumption, ListsInv, NEW t \in Callers, Unmark(t) PROVE ListsInv'
<1> DEFINE K == KeyOf(caller[t])
<1>1. At(t, "unmark") /\ UNCHANGED <<onServer, cached>>
  BY DEF Unmark
<1>2. CASE /\ marker' = [k \in CacheKeys |-> IF Cleared(k, caller[t].user, K) THEN NoMarker
                                             ELSE marker[k]]
           /\ Proceed(t, "write")
  <2>1. PICK rec : rec = [caller[t] EXCEPT !.pc = "write"]
    OBVIOUS
  <2>2. /\ rec \in Thread /\ rec.pc = "write" /\ rec.sound = caller[t].sound
        /\ rec.user = caller[t].user /\ rec.handle = caller[t].handle
        /\ rec.todo = caller[t].todo /\ rec.listed = caller[t].listed /\ caller[t].pc \in Writing
    BY <1>1, <2>1, WriterFacts DEF Thread, Writing, At
  <2>3. \A k \in CacheKeys : marker'[k] = IF k \in Mates(K) THEN NoMarker ELSE marker[k]
    BY <1>2, WriterFacts
  <2>4. marker' \in [CacheKeys -> [is : {"none", "ok", "error"}, listed : SUBSET Playlists,
                                   sound : BOOLEAN]]
    BY <1>2, WriterFacts DEF ListsTyped, NoMarker
  <2>5. \A k \in Mates(K) : ~Good(marker'[k])
    BY <2>3 DEF Good, NoMarker, Mates
  <2>6. KeyOf(rec) = K
    BY <2>2 DEF KeyOf
  <2>7. \A k : RowsOf(k)' = RowsOf(k)
    BY <1>1 DEF RowsOf, ListCached
  <2>8. Progress(rec)'
    BY <1>1, <2>2, <2>6, <2>7, WriterFacts DEF Progress, At
  <2>9. cached' \subseteq [key : CacheKeys, playlist : Playlists]
    BY <1>1, WriterFacts DEF ListsTyped
  <2>10. Turn(t, rec)
    BY <1>2, <2>1 DEF Proceed
  <2> QED BY <1>1, <2>2, <2>3, <2>4, <2>5, <2>6, <2>7, <2>8, <2>9, <2>10, WriterTurn
<1> QED BY <1>1, <1>2, LostDeletion DEF Unmark, KeyOf

LEMMA WriteStep == ASSUME CacheAssumption, ListsInv, NEW t \in Callers, Write(t) PROVE ListsInv'
<1> DEFINE K == KeyOf(caller[t])
<1>1. At(t, "write") /\ UNCHANGED <<onServer, marker>>
  BY DEF Write
<1>2. PICK p \in caller[t].todo :
         \/ Turn(t, [caller[t] EXCEPT !.todo = @ \ {p}, !.sound = FALSE]) /\ UNCHANGED cached
         \/ /\ cached' = cached \cup {[key |-> K, playlist |-> p]}
            /\ Turn(t, [caller[t] EXCEPT !.todo = @ \ {p}])
  BY DEF Write, KeyOf
<1>3. p \in Playlists /\ marker \in [CacheKeys -> [is : {"none", "ok", "error"},
                                        listed : SUBSET Playlists, sound : BOOLEAN]]
  BY <1>2, WriterFacts DEF Thread, ListsTyped
<1>4. \A k \in Mates(K) : ~Good(marker[k])
  BY <1>1 DEF ListsInv, Unmarked
<1>5. CASE Turn(t, [caller[t] EXCEPT !.todo = @ \ {p}, !.sound = FALSE]) /\ UNCHANGED cached
  <2>1. PICK rec : rec = [caller[t] EXCEPT !.todo = @ \ {p}, !.sound = FALSE]
    OBVIOUS
  <2>2. /\ rec \in Thread /\ rec.pc = "write" /\ ~rec.sound /\ rec.listed = caller[t].listed
        /\ rec.user = caller[t].user /\ rec.handle = caller[t].handle
        /\ rec.todo = caller[t].todo \ {p} /\ caller[t].pc \in Writing
    BY <1>1, <2>1, WriterFacts DEF Thread, Writing, At
  <2>3. \A k : RowsOf(k)' = RowsOf(k)
    BY <1>5 DEF RowsOf, ListCached
  <2>4. Progress(rec)'
    BY <1>1, <2>2, WriterFacts DEF Progress, At
  <2>5. cached' \subseteq [key : CacheKeys, playlist : Playlists]
    BY <1>5, WriterFacts DEF ListsTyped
  <2>6. KeyOf(rec) = K
    BY <2>2 DEF KeyOf
  <2> QED BY <1>1, <1>3, <1>4, <1>5, <2>1, <2>2, <2>3, <2>4, <2>5, <2>6, WriterTurn
<1>6. CASE /\ cached' = cached \cup {[key |-> K, playlist |-> p]}
           /\ Turn(t, [caller[t] EXCEPT !.todo = @ \ {p}])
  <2>1. PICK rec : rec = [caller[t] EXCEPT !.todo = @ \ {p}]
    OBVIOUS
  <2>2. /\ rec \in Thread /\ rec.pc = "write" /\ rec.sound = caller[t].sound
        /\ rec.listed = caller[t].listed
        /\ rec.user = caller[t].user /\ rec.handle = caller[t].handle
        /\ rec.todo = caller[t].todo \ {p} /\ caller[t].pc \in Writing
    BY <1>1, <2>1, WriterFacts DEF Thread, Writing, At
  <2>3. \A k \in CacheKeys : RowsOf(k)' = RowsOf(k) \cup (IF k \in Mates(K) THEN {p} ELSE {})
    BY <1>6, WriterFacts, RowsGrow
  <2>4. KeyOf(rec) = K
    BY <2>2 DEF KeyOf
  <2>5. RowsOf(KeyOf(rec))' = RowsOf(K) \cup {p}
    <3>1. PICK k \in CacheKeys : k = K
      BY WriterFacts
    <3>2. RowsOf(k)' = RowsOf(k) \cup {p}
      BY <2>3, <3>1, WriterFacts
    <3> QED BY <2>2, <2>4, <3>1, <3>2 DEF KeyOf, CacheKey, RowsOf, ListCached
  <2>6. Progress(rec)'
    <3>1. /\ caller[t].todo \subseteq caller[t].listed /\ p \in caller[t].listed
          /\ caller[t].sound => RowsOf(K) = caller[t].listed \ caller[t].todo
      BY <1>1, <1>2, WriterFacts DEF Progress, At
    <3>2. rec.sound => RowsOf(KeyOf(rec))' = rec.listed \ rec.todo
      BY <1>2, <2>2, <2>5, <3>1
    <3> QED BY <2>2, <3>1, <3>2 DEF Progress
  <2>7. cached' \subseteq [key : CacheKeys, playlist : Playlists]
    BY <1>3, <1>6, WriterFacts DEF ListsTyped
  <2>8. Turn(t, rec)
    BY <1>6, <2>1
  <2>9. \A k \in CacheKeys : k \notin Mates(K) => RowsOf(k)' = RowsOf(k)
    BY <2>3
  <2> QED BY <1>1, <1>3, <1>4, <2>2, <2>4, <2>6, <2>7, <2>8, <2>9, WriterTurn
<1> QED BY <1>2, <1>5, <1>6

LEMMA MarkStep == ASSUME CacheAssumption, ListsInv, NEW t \in Callers, Mark(t) PROVE ListsInv'
<1> DEFINE K == KeyOf(caller[t])
<1>1. At(t, "write") /\ caller[t].todo = {} /\ Turn(t, After(t)) /\ UNCHANGED <<onServer, cached>>
  BY DEF Mark
<1>2. After(t) \in Thread /\ After(t).pc \notin Writing
  BY WriterFacts, AfterTyped
<1>3. CASE UNCHANGED marker
  <2>1. marker \in [CacheKeys -> [is : {"none", "ok", "error"}, listed : SUBSET Playlists,
                                  sound : BOOLEAN]]
    BY WriterFacts DEF ListsTyped
  <2> QED BY <1>1, <1>2, <1>3, <2>1, QuietTurn DEF At
<1>4. CASE marker' = WithMarker(K, Ok(caller[t].listed, caller[t].sound))
  <2>1. PICK rec : rec = After(t)
    OBVIOUS
  <2>2. /\ marker' = [marker EXCEPT ![K] = Ok(caller[t].listed, caller[t].sound)]
        /\ Ok(caller[t].listed, caller[t].sound) \in [is : {"none", "ok", "error"},
                                            listed : SUBSET Playlists, sound : BOOLEAN]
    BY <1>4, WriterFacts DEF WithMarker, Ok, Thread
  <2>3. marker' \in [CacheKeys -> [is : {"none", "ok", "error"}, listed : SUBSET Playlists,
                                   sound : BOOLEAN]]
    BY <2>2, WriterFacts DEF ListsTyped
  <2>4. /\ K \in CacheKeys /\ marker'[K] = Ok(caller[t].listed, caller[t].sound)
        /\ \A k \in CacheKeys : k # K => marker'[k] = marker[k]
    BY <2>2, WriterFacts DEF ListsTyped
  <2>5. \A k : RowsOf(k)' = RowsOf(k)
    BY <1>1 DEF RowsOf, ListCached
  <2>6. \A k \in Mates(K) : k \in CacheKeys /\ ~Good(marker[k])
    BY <1>1 DEF ListsInv, Unmarked, Mates
  <2>7. caller[t].sound => RowsOf(K) = caller[t].listed
    BY <1>1, WriterFacts DEF Progress, At
  <2>8. \A k \in Mates(K) : Good(marker'[k]) => caller[t].sound /\ RowsOf(k)' = marker'[k].listed
    <3> SUFFICES ASSUME NEW k \in Mates(K), Good(marker'[k])
                 PROVE  caller[t].sound /\ RowsOf(k)' = marker'[k].listed
      OBVIOUS
    <3>1. k = K
      BY <2>4, <2>6
    <3>2. caller[t].sound /\ marker'[k].listed = caller[t].listed
      BY <2>4, <3>1 DEF Good, Ok
    <3> QED BY <2>5, <2>7, <3>1, <3>2
  <2>9. K \in Mates(K)
    BY WriterFacts
  <2>10. cached' \subseteq [key : CacheKeys, playlist : Playlists]
    BY <1>1, WriterFacts DEF ListsTyped
  <2>11. Progress(rec)'
    BY <1>2, <2>1 DEF Progress, Writing
  <2>12. caller[t].pc \in Writing /\ rec.pc # "write"
    BY <1>1, <1>2, <2>1 DEF At, Writing
  <2> QED BY <1>1, <1>2, <2>1, <2>3, <2>4, <2>5, <2>8, <2>9, <2>10, <2>11, <2>12, WriterTurn
<1> QED BY <1>3, <1>4 DEF Mark, KeyOf

LEMMA WriteDetailStep ==
    ASSUME CacheAssumption, ListsInv, NEW t \in Callers, WriteDetail(t) PROVE ListsInv'
<1> DEFINE K == KeyOf(caller[t])
<1>1. At(t, "detail") /\ Turn(t, Resting) /\ UNCHANGED onServer
  BY DEF WriteDetail
<1>2. Resting \in Thread /\ Resting.pc \notin Writing /\ Resting.pc # "write"
  BY RestingTyped DEF Resting, Writing
<1>3. CASE UNCHANGED <<cached, marker>>
  <2>1. marker \in [CacheKeys -> [is : {"none", "ok", "error"}, listed : SUBSET Playlists,
                                  sound : BOOLEAN]]
    BY WriterFacts DEF ListsTyped
  <2> QED BY <1>1, <1>2, <1>3, <2>1, QuietTurn DEF At
<1>4. ASSUME NEW p \in caller[t].todo, cached' = cached \cup {[key |-> K, playlist |-> p]},
             marker' = [k \in CacheKeys |->
                           IF Found(K, caller[t].user, k[2]) /\ k[1] = caller[t].user
                           THEN Looked(marker[k], p, caller[t].sound) ELSE marker[k]]
      PROVE  ListsInv'
  <2>1. p \in Playlists /\ caller[t].sound \in BOOLEAN
    BY WriterFacts DEF Thread
  <2>2. \A k \in CacheKeys : (Found(K, caller[t].user, k[2]) /\ k[1] = caller[t].user) <=> k \in Mates(K)
    <3>1. K \in CacheKeys /\ K[1] = caller[t].user
      BY WriterFacts, KeyOfIsKey
    <3>2. \A k \in CacheKeys : k \in Mates(K) <=> Found(K, k[1], k[2])
      BY <3>1, MatesAgree DEF Mates
    <3>3. \A k \in CacheKeys : k \in Mates(K) => k[1] = K[1]
      BY <3>1, MatesAgree
    <3> QED BY <3>1, <3>2, <3>3
  <2>3. \A k \in CacheKeys : marker'[k] = IF k \in Mates(K) THEN Looked(marker[k], p, caller[t].sound)
                                          ELSE marker[k]
    BY <1>4, <2>2
  <2>4. \A k \in CacheKeys :
           /\ Looked(marker[k], p, caller[t].sound) \in [is : {"none", "ok", "error"},
                                            listed : SUBSET Playlists, sound : BOOLEAN]
           /\ Good(Looked(marker[k], p, caller[t].sound)) =>
                 /\ Good(marker[k]) /\ caller[t].sound
                 /\ Looked(marker[k], p, caller[t].sound).listed = marker[k].listed \cup {p}
    <3> SUFFICES ASSUME NEW k \in CacheKeys
                 PROVE  /\ Looked(marker[k], p, caller[t].sound) \in [is : {"none", "ok", "error"},
                                            listed : SUBSET Playlists, sound : BOOLEAN]
                        /\ Good(Looked(marker[k], p, caller[t].sound)) =>
                              /\ Good(marker[k]) /\ caller[t].sound
                              /\ Looked(marker[k], p, caller[t].sound).listed = marker[k].listed \cup {p}
      OBVIOUS
    <3>1. marker[k] \in [is : {"none", "ok", "error"}, listed : SUBSET Playlists, sound : BOOLEAN]
      BY WriterFacts DEF ListsTyped
    <3> QED BY <2>1, <3>1 DEF Looked, Ok, Good
  <2>5. marker' \in [CacheKeys -> [is : {"none", "ok", "error"}, listed : SUBSET Playlists,
                                   sound : BOOLEAN]]
    <3>1. \A k \in CacheKeys : marker'[k] \in [is : {"none", "ok", "error"},
                                               listed : SUBSET Playlists, sound : BOOLEAN]
      BY <2>3, <2>4, WriterFacts DEF ListsTyped
    <3>2. marker' = [k \in CacheKeys |-> marker'[k]]
      BY <1>4
    <3> HIDE DEF K
    <3> QED BY <3>1, <3>2
  <2>6. \A k \in CacheKeys : RowsOf(k)' = RowsOf(k) \cup (IF k \in Mates(K) THEN {p} ELSE {})
    BY <1>4, WriterFacts, RowsGrow
  <2>7. \A k \in CacheKeys : k \notin Mates(K) => RowsOf(k)' = RowsOf(k) /\ marker'[k] = marker[k]
    BY <2>3, <2>6
  <2>8. ASSUME NEW k \in Mates(K), Good(marker'[k])
        PROVE  Good(marker[k]) /\ (Exposed(k)' \/ RowsOf(k)' = marker'[k].listed)
    <3>1. k \in CacheKeys
      BY DEF Mates
    <3>2. Good(marker[k]) /\ caller[t].sound /\ marker'[k].listed = marker[k].listed \cup {p}
      BY <2>3, <2>4, <2>8, <3>1
    <3>3. ~Exposed(k)
      <4> SUFFICES ASSUME NEW s \in Callers, At(s, "unmark"), k \in Mates(KeyOf(caller[s]))
                   PROVE  FALSE
        BY DEF Exposed
      <4>1. caller[s].user = caller[t].user
        BY <3>1, WriterFacts, KeyOfIsKey, MatesAgree
      <4> QED BY <1>1, <3>2, <4>1 DEF ListsInv, Alone, At, Writing
    <3>4. RowsOf(k) = marker[k].listed
      BY <3>1, <3>2, <3>3 DEF ListsInv, Vouches
    <3>5. RowsOf(k)' = RowsOf(k) \cup {p}
      BY <2>6, <2>8, <3>1
    <3> QED BY <3>2, <3>4, <3>5
  <2>9. cached' \subseteq [key : CacheKeys, playlist : Playlists]
    BY <1>4, <2>1, WriterFacts DEF ListsTyped
  <2>10. Progress(Resting)'
    BY DEF Progress, Resting
  <2>11. caller[t].pc \in Writing
    BY <1>1 DEF At, Writing
  <2> QED BY <1>1, <1>2, <2>5, <2>7, <2>8, <2>9, <2>10, <2>11, WriterTurn
<1> QED BY <1>3, <1>4 DEF WriteDetail, KeyOf

LEMMA ListsIdle ==
    ASSUME ListsInv, onServer' \in [Users -> SUBSET Playlists], UNCHANGED <<cached, marker, caller>>
    PROVE  ListsInv'
<1>1. ListsTyped' /\ Alone'
  BY DEF ListsInv, ListsTyped, Alone
<1>2. \A k : RowsOf(k)' = RowsOf(k) /\ Exposed(k)' = Exposed(k)
  BY DEF RowsOf, ListCached, Exposed, At, Mates, KeyOf, CacheKey, Found
<1>3. Vouches'
  BY <1>2 DEF ListsInv, Vouches
<1>4. Unmarked'
  BY DEF ListsInv, Unmarked, At, Mates, KeyOf, CacheKey, Found
<1>5. Filled'
  BY DEF ListsInv, Filled, Progress, KeyOf, CacheKey, RowsOf, ListCached, Found
<1> QED BY <1>1, <1>3, <1>4, <1>5 DEF ListsInv

LEMMA ListsCrash == ASSUME CacheAssumption, ListsInv, Crash PROVE ListsInv'
<1> DEFINE lapse(k) == \E t \in WritersOf(k[1]) : caller[t].pc = "unmark"
<1>1. /\ caller' = [t \in Callers |-> Resting] /\ UNCHANGED <<onServer, cached>>
      /\ marker' = [k \in CacheKeys |-> IF lapse(k) THEN Doubtful(marker[k]) ELSE marker[k]]
  BY DEF Crash
<1>2. ListsTyped'
  BY <1>1, RestingTyped DEF ListsInv, ListsTyped, Doubtful
<1>3. \A t \in Callers : caller'[t] = Resting /\ caller'[t].pc = "idle"
  BY <1>1 DEF Resting
<1>4. Vouches'
  <2> SUFFICES ASSUME NEW k \in CacheKeys, Good(marker'[k])
               PROVE  RowsOf(k)' = marker'[k].listed
    BY DEF Vouches
  <2>1. marker[k] \in [is : {"none", "ok", "error"}, listed : SUBSET Playlists, sound : BOOLEAN]
    BY DEF ListsInv, ListsTyped
  <2>2. ~lapse(k)
    BY <1>1, <2>1 DEF Good, Doubtful
  <2>3. marker'[k] = marker[k]
    BY <1>1, <2>2
  <2>4. ~Exposed(k)
    <3> SUFFICES ASSUME NEW t \in Callers, At(t, "unmark"), k \in Mates(KeyOf(caller[t]))
                 PROVE  FALSE
      BY DEF Exposed
    <3>1. k[1] = caller[t].user
      BY WriterFacts, KeyOfIsKey, MatesAgree
    <3> QED BY <2>2, <3>1 DEF WritersOf, Writing, At
  <2>5. RowsOf(k)' = RowsOf(k)
    BY <1>1 DEF RowsOf, ListCached
  <2> QED BY <2>3, <2>4, <2>5 DEF ListsInv, Vouches
<1> QED BY <1>2, <1>3, <1>4 DEF ListsInv, Unmarked, Filled, Progress, Alone, At, Writing

LEMMA ListsInductive ==
    ASSUME CacheAssumption, ListsInv, [ListsNext]_listVars PROVE ListsInv'
<1>1. CASE UNCHANGED listVars \/ QueueChanges
  BY <1>1, ListsIdle DEF listVars, QueueChanges, ListsInv, ListsTyped
<1>2. ASSUME NEW u \in Users, NEW p \in Playlists, EditList(u, p)
      PROVE  ListsInv'
  <2>1. onServer' \in [Users -> SUBSET Playlists]
    BY <1>2 DEF EditList, ListsInv, ListsTyped
  <2> QED BY <1>2, <2>1, ListsIdle DEF EditList
<1> QED BY <1>1, <1>2, ReaderTurns, ConnectStep, ListStep, ClearStep, UnmarkStep, WriteStep,
           MarkStep, DetailStep, WriteDetailStep, ListsCrash DEF ListsNext

(* What a reader is given from the cache is one list that the server gave, *)
(* for any users, handles, requests, refreshes, lost writes and crashes    *)
(* (cache_api.py:81-99, playlist_cache_db.py:727-786).                     *)
THEOREM CachedListIsWhole == ListsSpec => []ServedIsOneListing
<1>1. ListsInit => ListsInv
  BY CacheAssumption, ListsInitHolds
<1>2. ListsInv /\ [ListsNext]_listVars => ListsInv'
  BY CacheAssumption, ListsInductive
<1>3. ListsInv => ServedIsOneListing
  <2> SUFFICES ASSUME ListsInv, NEW u \in Users, NEW h \in Handles, WritersOf(u) = {},
                      NEW m \in Markers(u, h), m.is = "ok", m.sound
               PROVE  ListCached(u, h) = m.listed
    BY DEF ServedIsOneListing
  <2>1. PICK k \in CacheKeys : m = marker[k] /\ Found(k, u, h)
    BY DEF Markers
  <2>2. PICK j \in CacheKeys : j = <<u, h>>
    BY DEF CacheKeys
  <2>3. k \in Mates(j)
    BY <2>1, <2>2 DEF Mates
  <2>4. k[1] = u /\ RowsOf(k) = ListCached(u, h)
    BY <2>2, <2>3, MatesAgree DEF RowsOf
  <2>5. ~Exposed(k)
    <3> SUFFICES ASSUME NEW t \in Callers, At(t, "unmark"), k \in Mates(KeyOf(caller[t]))
                 PROVE  FALSE
      BY DEF Exposed
    <3>1. caller[t].user = u
      BY <2>4, CacheAssumption, WriterFacts, KeyOfIsKey, MatesAgree
    <3> QED BY <3>1 DEF WritersOf, Writing, At
  <2> QED BY <2>1, <2>4, <2>5 DEF ListsInv, Vouches, Good
<1> QED BY <1>1, <1>2, <1>3, PTL DEF ListsSpec

=============================================================================
