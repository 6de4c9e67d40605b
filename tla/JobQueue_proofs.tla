--------------------------- MODULE JobQueue_proofs ---------------------------
(***************************************************************************)
(* The safety properties of JobQueue, for every set of jobs, stoppers and  *)
(* workers and every history cap, and of JobStop, which refines it.        *)
(*                                                                         *)
(* The inductive invariant follows a record along its way: new, listed,    *)
(* put in the inbox, pulled by the worker, executed, recorded.  A record   *)
(* that is still on the way to its claim is Waiting: it was never started  *)
(* and is queued, or was cleared by a stop.                                *)
(*                                                                         *)
(* The third part shows that JobQueue implements the safety part of        *)
(* JobLedger, by the same invariant; the last is the stop mechanism.       *)
(***************************************************************************)
EXTENDS JobStop, JobQueueLedger, SequenceTheorems, FiniteSetTheorems, TLAPS

-----------------------------------------------------------------------------
(* What the operations on a queue do to the set of its elements and to the *)
(* absence of duplicates.                                                  *)

\* Appending adds one element, and no duplicate if it is new.
LEMMA AppendFacts ==
    ASSUME NEW S, NEW s \in Seq(S), NEW e \in S
    PROVE  /\ Append(s, e) \in Seq(S)
           /\ Range(Append(s, e)) = Range(s) \cup {e}
           /\ IsInjective(s) /\ e \notin Range(s) => IsInjective(Append(s, e))
<1>1. /\ Append(s, e) \in Seq(S)
      /\ Len(Append(s, e)) = Len(s) + 1
      /\ \A i \in 1..Len(s) : Append(s, e)[i] = s[i]
      /\ Append(s, e)[Len(s) + 1] = e
  BY AppendProperties
<1>2. /\ DOMAIN s = 1..Len(s) /\ Len(s) \in Nat
      /\ DOMAIN Append(s, e) = 1..(Len(s) + 1)
  BY <1>1, LenProperties
<1>3. Range(Append(s, e)) = Range(s) \cup {e}
  BY <1>1, <1>2 DEF Range
<1>4. ASSUME IsInjective(s), e \notin Range(s)
      PROVE  IsInjective(Append(s, e))
  <2>1. \A i \in 1..Len(s) : s[i] # e
    BY <1>2, <1>4 DEF Range
  <2> QED BY <1>1, <1>2, <1>4, <2>1 DEF IsInjective
<1> QED BY <1>1, <1>3, <1>4

\* Taking the head leaves the other elements.
LEMMA HeadTailFacts ==
    ASSUME NEW S, NEW s \in Seq(S), s # <<>>
    PROVE  /\ Head(s) \in S
           /\ Tail(s) \in Seq(S)
           /\ Range(s) = {Head(s)} \cup Range(Tail(s))
           /\ IsInjective(s) => IsInjective(Tail(s)) /\ Head(s) \notin Range(Tail(s))
<1>1. /\ Head(s) \in S
      /\ Tail(s) \in Seq(S)
      /\ Len(Tail(s)) = Len(s) - 1
      /\ \A i \in 1..Len(Tail(s)) : Tail(s)[i] = s[i + 1]
  BY HeadTailProperties
<1>2. /\ DOMAIN s = 1..Len(s) /\ Len(s) \in Nat /\ Len(s) # 0
      /\ DOMAIN Tail(s) = 1..(Len(s) - 1)
  BY <1>1, LenProperties, EmptySeq
<1>3. Head(s) = s[1]
  BY <1>2
<1>4. Range(s) = {Head(s)} \cup Range(Tail(s))
  <2>1. ASSUME NEW x \in Range(s)
        PROVE  x \in {Head(s)} \cup Range(Tail(s))
    <3>1. PICK i \in 1..Len(s) : x = s[i]
      BY <1>2, <2>1 DEF Range
    <3>2. CASE i = 1
      BY <1>3, <3>1, <3>2
    <3>3. CASE i # 1
      <4>1. i - 1 \in 1..(Len(s) - 1) /\ Tail(s)[i - 1] = s[i]
        BY <1>1, <1>2, <3>3
      <4> QED BY <1>2, <3>1, <4>1 DEF Range
    <3> QED BY <3>2, <3>3
  <2>2. ASSUME NEW x \in Range(Tail(s))
        PROVE  x \in Range(s)
    <3>1. PICK i \in 1..(Len(s) - 1) : x = Tail(s)[i]
      BY <1>2, <2>2 DEF Range
    <3>2. i + 1 \in 1..Len(s) /\ x = s[i + 1]
      BY <1>1, <1>2, <3>1
    <3> QED BY <1>2, <3>2 DEF Range
  <2>3. Head(s) \in Range(s)
    BY <1>2, <1>3 DEF Range
  <2> QED BY <2>1, <2>2, <2>3
<1>5. ASSUME IsInjective(s)
      PROVE  IsInjective(Tail(s)) /\ Head(s) \notin Range(Tail(s))
  <2>1. IsInjective(Tail(s))
    <3>1. SUFFICES ASSUME NEW a \in 1..(Len(s) - 1), NEW b \in 1..(Len(s) - 1),
                          Tail(s)[a] = Tail(s)[b]
                   PROVE  a = b
      BY <1>2 DEF IsInjective
    <3>2. s[a + 1] = s[b + 1] /\ a + 1 \in DOMAIN s /\ b + 1 \in DOMAIN s
      BY <1>1, <1>2, <3>1
    <3> QED BY <1>2, <1>5, <3>2 DEF IsInjective
  <2>2. Head(s) \notin Range(Tail(s))
    <3>1. SUFFICES ASSUME NEW i \in 1..(Len(s) - 1), s[1] = s[i + 1]
                   PROVE  FALSE
      BY <1>1, <1>2, <1>3 DEF Range
    <3>2. 1 \in DOMAIN s /\ i + 1 \in DOMAIN s
      BY <1>2
    <3> QED BY <1>2, <1>5, <3>1, <3>2 DEF IsInjective
  <2> QED BY <2>1, <2>2
<1> QED BY <1>1, <1>4, <1>5

\* Two logs without duplicates and without a common element make one.
LEMMA ConcatFacts ==
    ASSUME NEW S, NEW s \in Seq(S), NEW t \in Seq(S)
    PROVE  /\ s \o t \in Seq(S)
           /\ Range(s \o t) = Range(s) \cup Range(t)
           /\ IsInjective(s) /\ IsInjective(t) /\ Range(s) \cap Range(t) = {}
                 => IsInjective(s \o t)
<1>1. /\ s \o t \in Seq(S)
      /\ Len(s \o t) = Len(s) + Len(t)
      /\ \A i \in 1..(Len(s) + Len(t)) :
            (s \o t)[i] = IF i <= Len(s) THEN s[i] ELSE t[i - Len(s)]
  BY ConcatProperties
<1>2. /\ DOMAIN s = 1..Len(s) /\ Len(s) \in Nat
      /\ DOMAIN t = 1..Len(t) /\ Len(t) \in Nat
      /\ DOMAIN (s \o t) = 1..(Len(s) + Len(t))
  BY <1>1, LenProperties
<1>3. Range(s \o t) = Range(s) \cup Range(t)
  BY RangeConcatenation
<1>4. ASSUME IsInjective(s), IsInjective(t), Range(s) \cap Range(t) = {}
      PROVE  IsInjective(s \o t)
  <2>1. SUFFICES ASSUME NEW a \in 1..(Len(s) + Len(t)),
                        NEW b \in 1..(Len(s) + Len(t)),
                        (s \o t)[a] = (s \o t)[b]
                 PROVE  a = b
    BY <1>2 DEF IsInjective
  <2>2. \A i \in 1..Len(s), k \in 1..Len(t) : s[i] # t[k]
    BY <1>2, <1>4 DEF Range
  <2>3. CASE a <= Len(s) /\ b <= Len(s)
    <3>1. s[a] = s[b] /\ a \in DOMAIN s /\ b \in DOMAIN s
      BY <1>1, <1>2, <2>1, <2>3
    <3> QED BY <1>4, <3>1 DEF IsInjective
  <2>4. CASE a <= Len(s) /\ b > Len(s)
    <3>1. s[a] = t[b - Len(s)] /\ a \in 1..Len(s) /\ b - Len(s) \in 1..Len(t)
      BY <1>1, <1>2, <2>1, <2>4
    <3> QED BY <2>2, <3>1
  <2>5. CASE a > Len(s) /\ b <= Len(s)
    <3>1. s[b] = t[a - Len(s)] /\ b \in 1..Len(s) /\ a - Len(s) \in 1..Len(t)
      BY <1>1, <1>2, <2>1, <2>5
    <3> QED BY <2>2, <3>1
  <2>6. CASE a > Len(s) /\ b > Len(s)
    <3>1. /\ t[a - Len(s)] = t[b - Len(s)]
          /\ a - Len(s) \in DOMAIN t /\ b - Len(s) \in DOMAIN t
      BY <1>1, <1>2, <2>1, <2>6
    <3>2. a - Len(s) = b - Len(s)
      BY <1>4, <3>1 DEF IsInjective
    <3> QED BY <1>2, <3>2
  <2> QED BY <1>2, <2>3, <2>4, <2>5, <2>6
<1> QED BY <1>1, <1>3, <1>4

\* Deleting the element at position n removes that element and nothing else.
LEMMA DeleteFacts ==
    ASSUME NEW S, NEW s \in Seq(S), NEW n \in 1..Len(s), IsInjective(s),
           NEW d, d = SubSeq(s, 1, n - 1) \o SubSeq(s, n + 1, Len(s))
    PROVE  /\ d \in Seq(S)
           /\ Range(d) = Range(s) \ {s[n]}
           /\ IsInjective(d)
<1> DEFINE l == SubSeq(s, 1, n - 1)
           r == SubSeq(s, n + 1, Len(s))
<1>1. /\ DOMAIN s = 1..Len(s) /\ Len(s) \in Nat /\ n \in Nat /\ n >= 1 /\ n <= Len(s)
      /\ \A i \in 1..Len(s) : s[i] \in S
  BY LenProperties, ElementOfSeq
<1>2. /\ l \in Seq(S) /\ DOMAIN l = 1..(n - 1)
      /\ \A i \in 1..(n - 1) : l[i] = s[i]
  <2>1. \A i \in 1..(n - 1) : s[i] \in S
    BY <1>1
  <2>2. /\ l \in Seq(S)
        /\ Len(l) = IF 1 <= n - 1 THEN (n - 1) - 1 + 1 ELSE 0
        /\ \A i \in 1..((n - 1) - 1 + 1) : l[i] = s[1 + i - 1]
    BY <1>1, <2>1, SubSeqProperties
  <2>3. Len(l) = n - 1
    BY <1>1, <2>2
  <2>4. DOMAIN l = 1..(n - 1)
    BY <2>2, <2>3, LenProperties
  <2> QED BY <1>1, <2>2, <2>4
<1>3. /\ r \in Seq(S) /\ DOMAIN r = 1..(Len(s) - n)
      /\ \A i \in 1..(Len(s) - n) : r[i] = s[n + i]
  <2>1. \A i \in (n + 1)..Len(s) : s[i] \in S
    BY <1>1
  <2>2. /\ r \in Seq(S)
        /\ Len(r) = IF n + 1 <= Len(s) THEN Len(s) - (n + 1) + 1 ELSE 0
        /\ \A i \in 1..(Len(s) - (n + 1) + 1) : r[i] = s[(n + 1) + i - 1]
    BY <1>1, <2>1, SubSeqProperties
  <2>3. Len(r) = Len(s) - n
    <3>1. CASE n + 1 <= Len(s)
      <4>1. Len(s) - (n + 1) + 1 = Len(s) - n
        BY <1>1
      <4> QED BY <2>2, <3>1, <4>1
    <3>2. CASE n = Len(s)
      <4>1. ~(n + 1 <= Len(s)) /\ Len(s) - n = 0
        BY <1>1, <3>2
      <4> QED BY <2>2, <4>1
    <3>3. \A a, b \in Int : a <= b => a + 1 <= b \/ a = b
      OBVIOUS
    <3>4. n \in Int /\ Len(s) \in Int /\ n <= Len(s)
      BY <1>1
    <3> QED BY <3>1, <3>2, <3>3, <3>4
  <2>4. DOMAIN r = 1..(Len(s) - n)
    BY <2>2, <2>3, LenProperties
  <2>5. Len(s) - (n + 1) + 1 = Len(s) - n /\ \A i \in Int : (n + 1) + i - 1 = n + i
    BY <1>1
  <2> QED BY <1>1, <2>2, <2>4, <2>5
<1>4. Range(l) = {s[i] : i \in 1..(n - 1)}
  BY <1>2 DEF Range
<1>5. Range(r) = {s[i] : i \in (n + 1)..Len(s)}
  <2>1. ASSUME NEW x \in Range(r)
        PROVE  x \in {s[i] : i \in (n + 1)..Len(s)}
    <3>1. PICK i \in 1..(Len(s) - n) : x = s[n + i]
      BY <1>3, <2>1 DEF Range
    <3>2. n + i \in (n + 1)..Len(s)
      BY <1>1
    <3> QED BY <3>1, <3>2
  <2>2. ASSUME NEW i \in (n + 1)..Len(s)
        PROVE  s[i] \in Range(r)
    <3>1. i - n \in 1..(Len(s) - n) /\ s[i] = r[i - n]
      <4>1. i - n \in 1..(Len(s) - n) /\ n + (i - n) = i
        BY <1>1
      <4> QED BY <1>3, <4>1
    <3> QED BY <1>3, <3>1 DEF Range
  <2> QED BY <2>1, <2>2
<1>6. Range(l) \cap Range(r) = {}
  <2>1. SUFFICES ASSUME NEW a \in 1..(n - 1), NEW b \in (n + 1)..Len(s), s[a] = s[b]
                 PROVE  FALSE
    BY <1>4, <1>5
  <2>2. a \in DOMAIN s /\ b \in DOMAIN s /\ a # b
    BY <1>1
  <2> QED BY <2>1, <2>2 DEF IsInjective
<1>7. IsInjective(l)
  <2>1. \A a \in 1..(n - 1) : a \in DOMAIN s
    BY <1>1
  <2> QED BY <1>2, <2>1 DEF IsInjective
<1>8. IsInjective(r)
  <2>1. SUFFICES ASSUME NEW a \in 1..(Len(s) - n), NEW b \in 1..(Len(s) - n),
                        s[n + a] = s[n + b]
                 PROVE  a = b
    BY <1>3 DEF IsInjective
  <2>2. n + a \in DOMAIN s /\ n + b \in DOMAIN s
    BY <1>1
  <2>3. n + a = n + b
    BY <2>1, <2>2 DEF IsInjective
  <2> QED BY <1>1, <2>3
<1>9. /\ l \o r \in Seq(S)
      /\ Range(l \o r) = Range(l) \cup Range(r)
      /\ IsInjective(l \o r)
  <2>1. l \in Seq(S) /\ r \in Seq(S)
    BY <1>2, <1>3
  <2> HIDE DEF l, r
  <2> QED BY <1>6, <1>7, <1>8, <2>1, ConcatFacts
<1>10. Range(l) \cup Range(r) = Range(s) \ {s[n]}
  <2>1. Range(s) = {s[i] : i \in 1..Len(s)}
    BY <1>1 DEF Range
  <2>2. \A i \in 1..Len(s) : s[i] = s[n] => i = n
    BY <1>1 DEF IsInjective
  <2>3. \A i \in 1..Len(s) : i = n \/ i \in 1..(n - 1) \/ i \in (n + 1)..Len(s)
    BY <1>1
  <2>4. /\ \A i \in 1..(n - 1) : i \in 1..Len(s) /\ i # n
        /\ \A i \in (n + 1)..Len(s) : i \in 1..Len(s) /\ i # n
    BY <1>1
  <2> QED BY <1>4, <1>5, <2>1, <2>2, <2>3, <2>4
<1> QED BY <1>9, <1>10

-----------------------------------------------------------------------------
(* The invariant.                                                          *)

Waiting(j) == ~started[j] /\ state[j] \in {"queued", "cancelled"}

Held == {"got"} \cup Executing

\* At most one worker thread was ever started.
OneWorker ==
    /\ ~workerStarted => \A w \in Workers : workerPc[w] = "unborn"
    /\ \A v, w \in Workers : workerPc[v] # "unborn" /\ workerPc[w] # "unborn" => v = w

\* What a worker thread holds, and what it has decided.
WorkerHolds ==
    \A w \in Workers :
        /\ workerPc[w] \in Held => workerJob[w] \in Jobs
        /\ workerPc[w] \in Executing =>
              /\ current = workerJob[w]
              /\ started[workerJob[w]]
              /\ workerJob[w] \notin Range(recorded)
        /\ workerPc[w] \in {"read_state", "read_error", "write_state"} =>
              verdict[w] \in Terminal
        /\ workerPc[w] = "got" =>
              /\ Waiting(workerJob[w])
              /\ workerJob[w] \notin Range(inbox)
        /\ workerPc[w] = "record" => state[workerJob[w]] # "running"

\* A running job is the one the worker executes.
RunningIsHeld ==
    \A j \in Jobs :
        state[j] = "running" =>
            \E w \in Workers : workerPc[w] \in Executing /\ workerJob[w] = j

\* The transition a stopper is about to make is of a claimed job.
CurrentClaimed ==
    /\ current # NoJob => current \in Jobs /\ started[current]
    /\ \A t \in Stoppers : stopPc[t] = "mark" => current # NoJob

\* A record before its claim.
BeforeClaim ==
    /\ IsInjective(inbox)
    /\ \A j \in Range(inbox) : Waiting(j)
    /\ \A j \in Jobs :
          /\ submitPc[j] = "idle" <=> state[j] = "new"
          /\ state[j] \in {"new", "queued"} => ~started[j]
          /\ submitPc[j] = "listed" =>
                /\ Waiting(j)
                /\ j \notin Range(inbox)
                /\ \A w \in Workers : workerPc[w] = "got" => workerJob[w] # j

\* The dashboard's list, and the log of the jobs that ended.
Lists ==
    /\ IsInjective(pending)
    /\ IsInjective(recorded)
    /\ \A j \in Range(recorded) : state[j] \notin {"new", "queued"}

IInv ==
    /\ TypeOK
    /\ OneWorker
    /\ WorkerHolds
    /\ RunningIsHeld
    /\ CurrentClaimed
    /\ BeforeClaim
    /\ Lists
    /\ QueuedIsListed

-----------------------------------------------------------------------------
(* What the list operations of the module return. *)

\* list.remove on a list without duplicates takes that element out.
LEMMA WithoutFacts ==
    ASSUME NEW S, NEW s \in Seq(S), IsInjective(s), NEW j
    PROVE  /\ Without(s, j) \in Seq(S)
           /\ Range(Without(s, j)) = Range(s) \ {j}
           /\ IsInjective(Without(s, j))
<1>1. CASE j \notin Range(s)
  BY <1>1 DEF Without
<1>2. CASE j \in Range(s)
  <2> DEFINE First(i) == i \in DOMAIN s /\ s[i] = j /\ \A k \in 1..(i - 1) : s[k] # j
             first == CHOOSE i \in DOMAIN s :
                         s[i] = j /\ \A k \in 1..(i - 1) : s[k] # j
  <2>1. DOMAIN s = 1..Len(s) /\ Len(s) \in Nat
    BY LenProperties
  <2>2. PICK n \in DOMAIN s : s[n] = j
    BY <1>2 DEF Range
  <2>3. First(n)
    <3>1. SUFFICES ASSUME NEW k \in 1..(n - 1), s[k] = j PROVE FALSE
      BY <2>2
    <3>2. k \in DOMAIN s /\ k # n
      BY <2>1
    <3> QED BY <2>2, <3>1, <3>2 DEF IsInjective
  <2>4. first \in DOMAIN s /\ s[first] = j
    BY <2>3
  <2>5. Without(s, j) = SubSeq(s, 1, first - 1) \o SubSeq(s, first + 1, Len(s))
    BY <1>2 DEF Without
  <2> HIDE DEF first
  <2> QED BY <2>1, <2>4, <2>5, DeleteFacts
<1> QED BY <1>1, <1>2

\* The history is never longer than its cap.
LEMMA TrimmedFacts ==
    ASSUME NEW S, NEW s \in Seq(S)
    PROVE  Trimmed(s) \in Seq(S) /\ Len(Trimmed(s)) <= HistoryMax
<1>1. Len(s) \in Nat /\ HistoryMax \in Nat
  BY LenProperties, JobQueueAssumption
<1>2. CASE Len(s) <= HistoryMax
  BY <1>1, <1>2 DEF Trimmed
<1>3. CASE Len(s) > HistoryMax
  <2> DEFINE m == Len(s) - HistoryMax + 1
  <2>1. m \in Int /\ m >= 1 /\ Trimmed(s) = SubSeq(s, m, Len(s))
    BY <1>1, <1>3 DEF Trimmed
  <2>2. \A i \in m..Len(s) : s[i] \in S
    <3>1. \A i \in m..Len(s) : i \in 1..Len(s)
      BY <1>1, <2>1
    <3> QED BY <3>1, ElementOfSeq
  <2>3. Len(s) - m + 1 = HistoryMax
    BY <1>1
  <2> HIDE DEF m
  <2>4. /\ SubSeq(s, m, Len(s)) \in Seq(S)
        /\ Len(SubSeq(s, m, Len(s))) = IF m <= Len(s) THEN Len(s) - m + 1 ELSE 0
    BY <1>1, <2>1, <2>2, SubSeqProperties
  <2> QED BY <1>1, <2>1, <2>3, <2>4
<1> QED BY <1>1, <1>2, <1>3

-----------------------------------------------------------------------------
(* The invariant holds initially. *)

LEMMA InitInv == Init => IInv
<1> SUFFICES ASSUME Init PROVE IInv
  OBVIOUS
<1>1. /\ <<>> \in Seq(Jobs) /\ Len(<<>>) = 0
      /\ Range(<<>>) = {} /\ IsInjective(<<>>)
  BY EmptySeq DEF Range, IsInjective
<1>2. TypeOK
  <2>1. history \in Seq(Jobs) /\ Len(history) <= HistoryMax
    BY <1>1, JobQueueAssumption DEF Init
  <2> QED BY <1>1, <2>1 DEF Init, TypeOK, States, Executing
<1>3. OneWorker /\ RunningIsHeld
  BY DEF Init, OneWorker, RunningIsHeld
<1>4. WorkerHolds
  BY DEF Init, WorkerHolds, Held, Executing
<1>5. CurrentClaimed
  BY DEF Init, CurrentClaimed
<1>6. BeforeClaim /\ Lists /\ QueuedIsListed
  BY <1>1 DEF Init, BeforeClaim, Lists, QueuedIsListed
<1> QED BY <1>2, <1>3, <1>4, <1>5, <1>6 DEF IInv

-----------------------------------------------------------------------------
(* Every step preserves it: one lemma per action. *)

LEMMA EnlistInv ==
    ASSUME IInv, NEW j \in Jobs, Enlist(j)
    PROVE  IInv'
<1> USE DEF IInv
<1>1. /\ state[j] = "new" /\ ~started[j] /\ j \notin Range(pending)
      /\ j \notin Range(inbox) /\ j \notin Range(recorded)
      /\ \A w \in Workers : workerPc[w] \in Held => workerJob[w] # j
  BY DEF Enlist, BeforeClaim, Lists, QueuedIsListed, Waiting, WorkerHolds, Held, TypeOK
<1>2. /\ pending' \in Seq(Jobs) /\ IsInjective(pending')
      /\ Range(pending') = Range(pending) \cup {j}
  BY <1>1, AppendFacts DEF Enlist, Lists, TypeOK
<1>3. TypeOK'
  BY <1>2 DEF Enlist, TypeOK, States, workerVars, stopVars
<1>4. OneWorker' /\ CurrentClaimed'
  BY DEF Enlist, OneWorker, CurrentClaimed, workerVars, stopVars
<1>5. WorkerHolds'
  BY <1>1 DEF Enlist, WorkerHolds, Held, Waiting, TypeOK, workerVars
<1>6. RunningIsHeld'
  BY DEF Enlist, RunningIsHeld, TypeOK, workerVars
<1>7. BeforeClaim'
  <2>1. \A i \in Range(inbox) : i # j
    BY <1>1
  <2> QED BY <1>1, <2>1 DEF Enlist, BeforeClaim, Waiting, TypeOK, workerVars, Held
<1>8. Lists'
  BY <1>1, <1>2 DEF Enlist, Lists, TypeOK
<1>9. QueuedIsListed'
  BY <1>1, <1>2 DEF Enlist, QueuedIsListed, TypeOK, workerVars
<1> QED BY <1>3, <1>4, <1>5, <1>6, <1>7, <1>8, <1>9

LEMMA PutInInboxInv ==
    ASSUME IInv, NEW j \in Jobs, PutInInbox(j)
    PROVE  IInv'
<1> USE DEF IInv
<1>1. /\ Waiting(j) /\ j \notin Range(inbox)
      /\ \A w \in Workers : workerPc[w] = "got" => workerJob[w] # j
  BY DEF PutInInbox, BeforeClaim
<1>2. /\ inbox' \in Seq(Jobs) /\ IsInjective(inbox')
      /\ Range(inbox') = Range(inbox) \cup {j}
  BY <1>1, AppendFacts DEF PutInInbox, BeforeClaim, TypeOK
<1>3. TypeOK'
  BY <1>2 DEF PutInInbox, TypeOK, recordVars, workerVars, stopVars
<1>4. OneWorker' /\ CurrentClaimed' /\ RunningIsHeld' /\ Lists'
  BY DEF PutInInbox, OneWorker, CurrentClaimed, RunningIsHeld, Lists, recordVars,
         workerVars, stopVars
<1>5. WorkerHolds'
  BY <1>1, <1>2 DEF PutInInbox, WorkerHolds, Waiting, recordVars, workerVars
<1>6. BeforeClaim'
  <2>1. \A i \in Range(inbox') : Waiting(i)'
    BY <1>1, <1>2 DEF PutInInbox, BeforeClaim, Waiting, recordVars
  <2>2. ASSUME NEW i \in Jobs
        PROVE  /\ submitPc'[i] = "idle" <=> state'[i] = "new"
               /\ state'[i] \in {"new", "queued"} => ~started'[i]
               /\ submitPc'[i] = "listed" => submitPc[i] = "listed" /\ i # j
    BY DEF PutInInbox, BeforeClaim, TypeOK, recordVars
  <2> QED BY <1>2, <2>1, <2>2
          DEF PutInInbox, BeforeClaim, Waiting, recordVars, workerVars
<1>7. QueuedIsListed'
  BY <1>2 DEF PutInInbox, QueuedIsListed, TypeOK, recordVars, workerVars
<1> QED BY <1>3, <1>4, <1>5, <1>6, <1>7

LEMMA EnsureWorkerInv ==
    ASSUME IInv, NEW j \in Jobs, EnsureWorker(j)
    PROVE  IInv'
<1> USE DEF IInv
<1>1. \A w \in Workers :
         \/ workerPc'[w] = workerPc[w]
         \/ (workerPc[w] = "unborn" /\ workerPc'[w] = "idle")
  <2>1. CASE UNCHANGED workerPc
    BY <2>1
  <2>2. ASSUME NEW v \in Workers, workerPc[v] = "unborn",
               workerPc' = [workerPc EXCEPT ![v] = "idle"]
        PROVE  \A w \in Workers :
                  \/ workerPc'[w] = workerPc[w]
                  \/ (workerPc[w] = "unborn" /\ workerPc'[w] = "idle")
    BY <2>2 DEF TypeOK
  <2> QED BY <2>1, <2>2 DEF EnsureWorker
<1>2. TypeOK'
  BY DEF EnsureWorker, TypeOK, recordVars, stopVars
<1>3. OneWorker'
  BY DEF EnsureWorker, WorkerMissing, OneWorker, TypeOK
<1>4. CurrentClaimed' /\ Lists'
  BY DEF EnsureWorker, CurrentClaimed, Lists, recordVars, stopVars
<1>5. WorkerHolds'
  BY <1>1 DEF EnsureWorker, WorkerHolds, Held, Executing, Waiting, recordVars
<1>6. RunningIsHeld'
  BY <1>1 DEF EnsureWorker, RunningIsHeld, Executing, recordVars
<1>7. BeforeClaim'
  BY <1>1 DEF EnsureWorker, BeforeClaim, Waiting, TypeOK, recordVars
<1>8. QueuedIsListed'
  BY <1>1 DEF EnsureWorker, QueuedIsListed, TypeOK, recordVars
<1> QED BY <1>2, <1>3, <1>4, <1>5, <1>6, <1>7, <1>8

LEMMA GetInv ==
    ASSUME IInv, NEW w \in Workers, Get(w)
    PROVE  IInv'
<1> USE DEF IInv
<1> DEFINE j == Head(inbox)
<1>1. /\ j \in Jobs /\ inbox' \in Seq(Jobs) /\ IsInjective(inbox')
      /\ Range(inbox) = {j} \cup Range(inbox') /\ j \notin Range(inbox')
  BY HeadTailFacts DEF Get, BeforeClaim, TypeOK
<1>2. Waiting(j)
  BY <1>1 DEF BeforeClaim
<1>3. /\ workerPc[w] = "idle" /\ workerPc' = [workerPc EXCEPT ![w] = "got"]
      /\ workerJob' = [workerJob EXCEPT ![w] = j]
  BY DEF Get
<1> HIDE DEF j
<1>4. TypeOK'
  BY <1>1, <1>3 DEF Get, TypeOK, recordVars, stopVars
<1>5. OneWorker'
  BY <1>3 DEF Get, OneWorker, TypeOK
<1>6. CurrentClaimed' /\ Lists'
  BY DEF Get, CurrentClaimed, Lists, recordVars, stopVars
<1>7. WorkerHolds'
  <2>1. ASSUME NEW v \in Workers, v # w
        PROVE  workerPc'[v] = workerPc[v] /\ workerJob'[v] = workerJob[v]
    BY <1>3, <2>1 DEF TypeOK
  <2>2. workerPc'[w] = "got" /\ workerJob'[w] = j
    BY <1>3 DEF TypeOK
  <2>3. UNCHANGED <<state, started, current, recorded, verdict>>
    BY DEF Get, recordVars
  <2>4. ~started[j] /\ state[j] \in {"queued", "cancelled"}
    BY <1>2 DEF Waiting
  <2>5. ASSUME NEW v \in Workers, v # w, workerPc[v] = "got"
        PROVE  workerJob[v] \notin Range(inbox')
    BY <1>1, <2>5 DEF WorkerHolds
  <2> QED BY <1>1, <2>1, <2>2, <2>3, <2>4, <2>5
          DEF WorkerHolds, Held, Executing, Waiting
<1>8. RunningIsHeld'
  <2>1. ASSUME NEW v \in Workers, workerPc[v] \in Executing
        PROVE  workerPc'[v] \in Executing /\ workerJob'[v] = workerJob[v]
    BY <1>3, <2>1 DEF Executing, TypeOK
  <2>2. state' = state
    BY DEF Get, recordVars
  <2> QED BY <2>1, <2>2 DEF RunningIsHeld
<1>9. BeforeClaim'
  <2>1. ASSUME NEW i \in Jobs, submitPc[i] = "listed"
        PROVE  i # j /\ i \notin Range(inbox')
    BY <1>1, <2>1 DEF BeforeClaim
  <2> QED BY <1>1, <1>3, <2>1 DEF Get, BeforeClaim, Waiting, TypeOK, recordVars
<1>10. QueuedIsListed'
  BY <1>1, <1>3 DEF Get, QueuedIsListed, TypeOK, recordVars
<1> QED BY <1>4, <1>5, <1>6, <1>7, <1>8, <1>9, <1>10

LEMMA DropInv ==
    ASSUME IInv, NEW w \in Workers, Drop(w)
    PROVE  IInv'
<1> USE DEF IInv
<1>1. /\ workerPc[w] = "got" /\ workerPc' = [workerPc EXCEPT ![w] = "idle"]
      /\ workerJob[w] \in Jobs /\ state[workerJob[w]] = "cancelled"
  BY DEF Drop, Cleared, WorkerHolds, Held
<1>2. /\ pending' \in Seq(Jobs) /\ IsInjective(pending')
      /\ Range(pending') = Range(pending) \ {workerJob[w]}
  BY WithoutFacts DEF Drop, Lists, TypeOK
<1>3. workerJob[w] \notin Range(pending)
  BY <1>1 DEF QueuedIsListed
<1>4. TypeOK'
  BY <1>1, <1>2 DEF Drop, TypeOK, recordVars, stopVars
<1>5. OneWorker' /\ CurrentClaimed'
  BY <1>1 DEF Drop, OneWorker, CurrentClaimed, TypeOK, recordVars, stopVars
<1>6. WorkerHolds' /\ RunningIsHeld'
  BY <1>1 DEF Drop, WorkerHolds, RunningIsHeld, Held, Executing, Waiting, TypeOK,
              recordVars
<1>7. BeforeClaim' /\ Lists'
  BY <1>1, <1>2 DEF Drop, BeforeClaim, Lists, Waiting, TypeOK, recordVars
<1>8. QueuedIsListed'
  BY <1>1, <1>2, <1>3 DEF Drop, QueuedIsListed, TypeOK, recordVars
<1> QED BY <1>4, <1>5, <1>6, <1>7, <1>8

LEMMA ClaimInv ==
    ASSUME IInv, NEW w \in Workers, Claim(w)
    PROVE  IInv'
<1> USE DEF IInv
<1> DEFINE j == workerJob[w]
<1>1. /\ workerPc[w] = "got" /\ workerPc' = [workerPc EXCEPT ![w] = "running"]
      /\ j \in Jobs /\ state[j] = "queued"
      /\ j \notin Range(inbox) /\ j \notin Range(recorded)
  BY DEF Claim, Cleared, WorkerHolds, Held, Waiting, Lists
<1>2. /\ current' = j
      /\ state' = [state EXCEPT ![j] = "running"]
      /\ started' = [started EXCEPT ![j] = TRUE]
  BY DEF Claim
<1>3. /\ pending' \in Seq(Jobs) /\ IsInjective(pending')
      /\ Range(pending') = Range(pending) \ {j}
  BY WithoutFacts DEF Claim, Lists, TypeOK
<1>4. \A v \in Workers : v # w => workerPc[v] = "unborn" /\ workerPc'[v] = "unborn"
  BY <1>1 DEF OneWorker, TypeOK
<1>5. workerPc'[w] = "running" /\ workerJob' = workerJob
  BY <1>1 DEF Claim, TypeOK
<1>6. TypeOK'
  BY <1>1, <1>3 DEF Claim, TypeOK, States, Executing, stopVars
<1>7. OneWorker' /\ CurrentClaimed'
  BY <1>1, <1>2, JobQueueAssumption
     DEF Claim, OneWorker, CurrentClaimed, TypeOK, stopVars
<1>8. WorkerHolds'
  <2>1. started'[j] /\ recorded' = recorded
    BY <1>1, <1>2 DEF Claim, TypeOK
  <2> QED BY <1>1, <1>2, <1>4, <1>5, <2>1 DEF WorkerHolds, Held, Executing
<1>9. RunningIsHeld'
  <2>1. \A i \in Jobs : state[i] # "running"
    BY <1>1, <1>4 DEF RunningIsHeld, Executing
  <2> QED BY <1>1, <1>2, <1>5, <2>1 DEF RunningIsHeld, Executing, TypeOK
<1>10. BeforeClaim'
  <2>1. \A i \in Range(inbox) : Waiting(i) /\ i # j
    BY <1>1 DEF BeforeClaim
  <2>2. \A i \in Jobs : submitPc[i] = "listed" => i # j
    BY <1>1 DEF BeforeClaim
  <2>3. \A i \in Jobs : i # j => state'[i] = state[i] /\ started'[i] = started[i]
    BY <1>2 DEF TypeOK
  <2>4. state'[j] = "running" /\ submitPc[j] # "idle"
    BY <1>1, <1>2 DEF BeforeClaim, TypeOK
  <2>5. \A i \in Range(inbox) : i \in Jobs
    BY RangeOfSeq DEF TypeOK
  <2>6. inbox' = inbox /\ submitPc' = submitPc
    BY DEF Claim
  <2>7. \A i \in Range(inbox) : Waiting(i)'
    BY <2>1, <2>3, <2>5 DEF Waiting
  <2>8. \A v \in Workers : workerPc'[v] # "got"
    BY <1>4, <1>5
  <2>9. ASSUME NEW i \in Jobs
        PROVE  /\ submitPc[i] = "idle" <=> state'[i] = "new"
               /\ state'[i] \in {"new", "queued"} => ~started'[i]
               /\ submitPc[i] = "listed" => Waiting(i)' /\ i \notin Range(inbox)
    BY <2>2, <2>3, <2>4 DEF BeforeClaim, Waiting
  <2> QED BY <2>6, <2>7, <2>8, <2>9 DEF BeforeClaim
<1>11. Lists'
  <2>1. \A i \in Range(recorded) : i \in Jobs
    BY RangeOfSeq DEF TypeOK
  <2> QED BY <1>1, <1>2, <1>3, <2>1 DEF Claim, Lists, TypeOK
<1>12. QueuedIsListed'
  <2>1. \A i \in Jobs : i # j => state'[i] = state[i]
    BY <1>2 DEF TypeOK
  <2>2. state'[j] = "running"
    BY <1>1, <1>2 DEF TypeOK
  <2>3. inbox' = inbox /\ submitPc' = submitPc
    BY DEF Claim
  <2> QED BY <1>1, <1>3, <1>4, <1>5, <2>1, <2>2, <2>3 DEF QueuedIsListed
<1> QED BY <1>6, <1>7, <1>8, <1>9, <1>10, <1>11, <1>12

\* The worker goes on with the job it executes and touches no shared list.
LEMMA StillExecuting ==
    ASSUME IInv, TypeOK',
           NEW w \in Workers, workerPc[w] \in Executing \ {"record"},
           NEW pc \in Executing \ {"record"},
           workerPc' = [workerPc EXCEPT ![w] = pc],
           pc # "running" => verdict'[w] \in Terminal,
           \A v \in Workers : v # w => verdict'[v] = verdict[v],
           UNCHANGED <<state, started, queueVars, workerJob, stopVars, submitPc>>
    PROVE  IInv'
<1> USE DEF IInv, queueVars
<1>1. \A v \in Workers : v # w => workerPc'[v] = workerPc[v]
  BY DEF TypeOK
<1>2. workerPc'[w] = pc
  BY DEF TypeOK
<1>3. OneWorker'
  BY <1>1 DEF OneWorker, Executing
<1>4. WorkerHolds'
  BY <1>1, <1>2 DEF WorkerHolds, Held, Executing, Waiting
<1>5. RunningIsHeld'
  BY <1>1, <1>2 DEF RunningIsHeld
<1>6. CurrentClaimed' /\ Lists'
  BY DEF CurrentClaimed, Lists, stopVars
<1>7. BeforeClaim'
  BY <1>1, <1>2 DEF BeforeClaim, Waiting, Executing
<1>8. QueuedIsListed'
  BY <1>1, <1>2 DEF QueuedIsListed, Executing
<1> QED BY <1>3, <1>4, <1>5, <1>6, <1>7, <1>8

LEMMA EngineReturnsInv ==
    ASSUME IInv, NEW w \in Workers, NEW outcome, NEW stamped \in BOOLEAN,
           EngineReturns(w, outcome, stamped)
    PROVE  IInv'
<1>1. workerJob[w] \in Jobs /\ workerPc[w] = "running"
  BY DEF IInv, EngineReturns, WorkerHolds, Held, Executing
<1>2. PICK pc \in {"read_state", "write_state"}, end \in Terminal :
         /\ workerPc' = [workerPc EXCEPT ![w] = pc]
         /\ verdict' = [verdict EXCEPT ![w] = end]
  BY DEF EngineReturns, Terminal
<1>3. TypeOK'
  BY <1>1, <1>2
     DEF IInv, EngineReturns, TypeOK, Executing, queueVars, stopVars
<1>4. verdict'[w] \in Terminal /\ \A v \in Workers : v # w => verdict'[v] = verdict[v]
  BY <1>2 DEF IInv, TypeOK
<1>5. UNCHANGED <<state, started, queueVars, workerJob, stopVars, submitPc>>
  BY DEF EngineReturns
<1> QED BY <1>1, <1>2, <1>3, <1>4, <1>5, StillExecuting DEF Executing

LEMMA ReadStateInv ==
    ASSUME IInv, NEW w \in Workers, ReadState(w)
    PROVE  IInv'
<1>1. workerPc[w] = "read_state" /\ verdict[w] \in Terminal
  BY DEF IInv, ReadState, WorkerHolds
<1>2. PICK pc \in {"read_error", "write_state"} : workerPc' = [workerPc EXCEPT ![w] = pc]
  BY DEF ReadState
<1>3. verdict' = [verdict EXCEPT ![w] = "cancelled"] \/ verdict' = verdict
  BY DEF ReadState
<1>4. TypeOK'
  BY <1>2, <1>3
     DEF IInv, ReadState, TypeOK, Executing, Terminal, recordVars, queueVars, stopVars
<1>5. verdict'[w] \in Terminal /\ \A v \in Workers : v # w => verdict'[v] = verdict[v]
  BY <1>1, <1>3 DEF IInv, TypeOK, Terminal
<1>6. UNCHANGED <<state, started, queueVars, workerJob, stopVars, submitPc>>
  BY DEF ReadState, recordVars
<1> QED BY <1>1, <1>2, <1>4, <1>5, <1>6, StillExecuting DEF Executing

LEMMA ReadErrorInv ==
    ASSUME IInv, NEW w \in Workers, ReadError(w)
    PROVE  IInv'
<1>1. workerPc[w] = "read_error" /\ workerPc' = [workerPc EXCEPT ![w] = "write_state"]
  BY DEF ReadError
<1>2. PICK end \in Terminal : verdict' = [verdict EXCEPT ![w] = end]
  BY DEF ReadError, Terminal
<1>3. TypeOK'
  BY <1>1, <1>2
     DEF IInv, ReadError, TypeOK, Executing, recordVars, queueVars, stopVars
<1>4. verdict'[w] \in Terminal /\ \A v \in Workers : v # w => verdict'[v] = verdict[v]
  BY <1>2 DEF IInv, TypeOK
<1>5. UNCHANGED <<state, started, queueVars, workerJob, stopVars, submitPc>>
  BY DEF ReadError, recordVars
<1> QED BY <1>1, <1>3, <1>4, <1>5, StillExecuting DEF Executing

\* The state of a job that was started changes, to one that is neither new,
\* queued nor running: no list is touched.
LEMMA StartedJobChanges ==
    ASSUME IInv, NEW j \in Jobs, started[j],
           NEW to \in States \ {"new", "queued", "running"},
           state' = [state EXCEPT ![j] = to],
           UNCHANGED <<started, pending, inbox, recorded, submitPc>>
    PROVE  /\ \A i \in Jobs : Waiting(i) => i # j /\ state'[i] = state[i]
           /\ \A i \in Jobs : i # j => state'[i] = state[i]
           /\ state'[j] = to
           /\ \A i \in Jobs : submitPc[i] = "idle" <=> state'[i] = "new"
           /\ \A i \in Jobs : state'[i] = "queued" <=> state[i] = "queued"
           /\ Lists'
<1> USE DEF IInv
<1>1. state[j] \notin {"new", "queued"}
  BY DEF BeforeClaim
<1>2. \A i \in Jobs : i # j => state'[i] = state[i]
  BY DEF TypeOK
<1>3. state'[j] = to
  BY DEF TypeOK
<1>4. \A i \in Jobs : Waiting(i) => i # j
  BY DEF Waiting
<1>5. \A i \in Jobs : submitPc[i] = "idle" <=> state'[i] = "new"
  BY <1>1, <1>2, <1>3 DEF BeforeClaim
<1>6. \A i \in Jobs : state'[i] = "queued" <=> state[i] = "queued"
  BY <1>1, <1>2, <1>3
<1>7. Lists'
  <2>1. \A i \in Range(recorded) : i \in Jobs
    BY RangeOfSeq DEF TypeOK
  <2> QED BY <1>2, <1>3, <2>1 DEF Lists
<1> QED BY <1>2, <1>3, <1>4, <1>5, <1>6, <1>7

LEMMA WriteStateInv ==
    ASSUME IInv, NEW w \in Workers, WriteState(w)
    PROVE  IInv'
<1> USE DEF IInv
<1> DEFINE j == workerJob[w]
<1>1. /\ workerPc[w] = "write_state" /\ workerPc' = [workerPc EXCEPT ![w] = "record"]
      /\ j \in Jobs /\ started[j] /\ verdict[w] \in Terminal
      /\ state' = [state EXCEPT ![j] = verdict[w]]
  BY DEF WriteState, WorkerHolds, Held, Executing
<1>2. UNCHANGED <<started, pending, inbox, recorded, submitPc, current, workerJob,
                  verdict, workerStarted, history, stopVars, stopEvent>>
  BY DEF WriteState, queueVars
<1>3. verdict[w] \in States \ {"new", "queued", "running"}
  BY <1>1 DEF States, Terminal
<1>4. /\ \A i \in Jobs : Waiting(i) => i # j /\ state'[i] = state[i]
      /\ \A i \in Jobs : i # j => state'[i] = state[i]
      /\ state'[j] = verdict[w]
      /\ \A i \in Jobs : submitPc[i] = "idle" <=> state'[i] = "new"
      /\ \A i \in Jobs : state'[i] = "queued" <=> state[i] = "queued"
      /\ Lists'
  BY <1>1, <1>2, <1>3, StartedJobChanges
<1>5. \A v \in Workers : v # w => workerPc'[v] = "unborn" /\ workerPc[v] = "unborn"
  BY <1>1 DEF OneWorker, TypeOK
<1>6. workerPc'[w] = "record"
  BY <1>1 DEF TypeOK
<1> HIDE DEF j
<1>7. TypeOK'
  <2>1. error' \in [Jobs -> BOOLEAN]
    BY DEF WriteState, TypeOK
  <2> QED BY <1>1, <1>2, <1>3, <2>1 DEF TypeOK, Executing, stopVars
<1>8. OneWorker' /\ CurrentClaimed'
  BY <1>1, <1>2, <1>5 DEF OneWorker, CurrentClaimed, stopVars
<1>9. WorkerHolds'
  BY <1>1, <1>2, <1>3, <1>4, <1>5, <1>6 DEF WorkerHolds, Held, Executing, j
<1>10. RunningIsHeld'
  <2>1. ASSUME NEW i \in Jobs, state'[i] = "running" PROVE FALSE
    <3>1. i # j /\ state[i] = "running"
      BY <1>1, <1>3, <1>4, <2>1
    <3>2. PICK v \in Workers : workerPc[v] \in Executing /\ workerJob[v] = i
      BY <3>1 DEF RunningIsHeld
    <3> QED BY <1>5, <3>1, <3>2 DEF Executing, j
  <2> QED BY <2>1 DEF RunningIsHeld
<1>11. BeforeClaim'
  <2>1. \A i \in Range(inbox) : i \in Jobs
    BY RangeOfSeq DEF TypeOK
  <2>2. \A i \in Jobs : Waiting(i) => Waiting(i)'
    BY <1>2, <1>4 DEF Waiting
  <2>3. \A i \in Jobs : state'[i] \in {"new", "queued"} => ~started'[i]
    BY <1>2, <1>3, <1>4 DEF BeforeClaim
  <2>4. \A v \in Workers : workerPc'[v] # "got"
    BY <1>5, <1>6
  <2> QED BY <1>2, <1>4, <2>1, <2>2, <2>3, <2>4 DEF BeforeClaim
<1>12. QueuedIsListed'
  BY <1>1, <1>2, <1>4, <1>5, <1>6 DEF QueuedIsListed
<1> QED BY <1>4, <1>7, <1>8, <1>9, <1>10, <1>11, <1>12

LEMMA RecordInv ==
    ASSUME IInv, NEW w \in Workers, Record(w)
    PROVE  IInv'
<1> USE DEF IInv
<1> DEFINE j == workerJob[w]
<1>1. /\ workerPc[w] = "record" /\ workerPc' = [workerPc EXCEPT ![w] = "idle"]
      /\ j \in Jobs /\ started[j] /\ j \notin Range(recorded)
      /\ state[j] \notin {"new", "queued", "running"}
  BY DEF Record, WorkerHolds, Held, Executing, BeforeClaim
<1>2. UNCHANGED <<recordVars, pending, inbox, submitPc, current, workerJob, verdict,
                  workerStarted, stopVars>>
  BY DEF Record
<1>3. \A v \in Workers : workerPc'[v] \in {"unborn", "idle"}
  BY <1>1 DEF OneWorker, TypeOK
<1>4. /\ recorded' \in Seq(Jobs) /\ IsInjective(recorded')
      /\ Range(recorded') = Range(recorded) \cup {j}
  BY <1>1, AppendFacts DEF Record, Lists, TypeOK
<1>5. \A v \in Workers : v # w => workerPc[v] = "unborn"
  BY <1>1 DEF OneWorker
<1> HIDE DEF j
<1>6. TypeOK'
  <2>1. history' \in Seq(Jobs) /\ Len(history') <= HistoryMax
    <3>1. Append(history, j) \in Seq(Jobs)
      BY <1>1, AppendFacts DEF TypeOK
    <3> QED BY <3>1, TrimmedFacts DEF Record, j
  <2>2. workerPc' \in [Workers -> {"unborn", "idle", "got"} \cup Executing]
    BY <1>1 DEF TypeOK
  <2> QED BY <1>2, <1>4, <2>1, <2>2 DEF TypeOK, recordVars, stopVars
<1>7. OneWorker' /\ CurrentClaimed'
  <2>1. OneWorker'
    BY <1>1, <1>2 DEF OneWorker, TypeOK
  <2> QED BY <1>2, <2>1 DEF CurrentClaimed, recordVars, stopVars
<1>8. WorkerHolds'
  BY <1>3 DEF WorkerHolds, Held, Executing
<1>9. RunningIsHeld'
  <2>1. ASSUME NEW i \in Jobs, state[i] = "running" PROVE FALSE
    <3>1. PICK v \in Workers : workerPc[v] \in Executing /\ workerJob[v] = i
      BY <2>1 DEF RunningIsHeld
    <3> QED BY <1>1, <1>5, <2>1, <3>1 DEF Executing, j
  <2> QED BY <1>2, <2>1 DEF RunningIsHeld, recordVars
<1>10. BeforeClaim'
  BY <1>2, <1>3 DEF BeforeClaim, Waiting, recordVars
<1>11. Lists'
  BY <1>1, <1>2, <1>4 DEF Lists, recordVars
<1>12. QueuedIsListed'
  BY <1>1, <1>2, <1>5 DEF QueuedIsListed, recordVars
<1> QED BY <1>6, <1>7, <1>8, <1>9, <1>10, <1>11, <1>12

LEMMA ClearQueueInv ==
    ASSUME IInv, NEW t \in Stoppers, NEW hard \in BOOLEAN, ClearQueue(t, hard)
    PROVE  IInv'
<1> USE DEF IInv
<1>1. /\ \A i \in Jobs : state'[i] = IF i \in Range(pending) THEN "cancelled" ELSE state[i]
      /\ pending' = <<>>
      /\ recorded' = recorded \o pending
  BY DEF ClearQueue
<1>2. UNCHANGED <<started, inbox, current, workerVars, submitPc>>
  BY DEF ClearQueue
<1>3. \A i \in Jobs : i \in Range(pending) <=> state[i] = "queued"
  BY DEF QueuedIsListed
<1>4. \A i \in Jobs : state'[i] = IF state[i] = "queued" THEN "cancelled" ELSE state[i]
  BY <1>1, <1>3
<1>5. \A i \in Range(recorded) : i \in Jobs /\ i \notin Range(pending)
  BY <1>3, RangeOfSeq DEF Lists, TypeOK
<1>6. /\ recorded' \in Seq(Jobs) /\ IsInjective(recorded')
      /\ Range(recorded') = Range(recorded) \cup Range(pending)
  BY <1>1, <1>5, ConcatFacts DEF Lists, TypeOK
<1>7. <<>> \in Seq(Jobs) /\ Range(<<>>) = {} /\ IsInjective(<<>>)
  BY EmptySeq DEF Range, IsInjective
<1>8. TypeOK'
  <2>1. state' \in [Jobs -> States]
    BY DEF ClearQueue, TypeOK, States, Terminal
  <2>2. history' \in Seq(Jobs) /\ Len(history') <= HistoryMax
    <3>1. history \o pending \in Seq(Jobs)
      BY ConcatFacts DEF TypeOK
    <3> QED BY <3>1, TrimmedFacts DEF ClearQueue
  <2>3. /\ lock' \in Stoppers \cup {NoThread}
        /\ stopPc' \in [Stoppers -> {"idle", "mark", "signal"}]
        /\ stopHard' \in [Stoppers -> BOOLEAN]
        /\ stopJob' \in [Stoppers -> Jobs \cup {NoJob}]
    BY DEF ClearQueue, TypeOK, stopVars
  <2> QED BY <1>1, <1>6, <1>7, <2>1, <2>2, <2>3 DEF ClearQueue, TypeOK, workerVars
<1>9. OneWorker'
  BY DEF ClearQueue, OneWorker, workerVars
<1>10. CurrentClaimed'
  <2>1. ASSUME NEW v \in Stoppers, stopPc'[v] = "mark" PROVE current # NoJob
    BY <2>1 DEF ClearQueue, SomeRunning, CurrentClaimed, TypeOK, stopVars
  <2> QED BY <1>2, <2>1 DEF CurrentClaimed
<1>11. WorkerHolds'
  <2> SUFFICES ASSUME NEW w \in Workers, workerPc[w] \in Held
               PROVE  /\ workerJob[w] \in Jobs
                      /\ workerPc[w] \in Executing => workerJob[w] \notin Range(recorded')
                      /\ workerPc[w] = "got" => Waiting(workerJob[w])'
                      /\ workerPc[w] = "record" => state'[workerJob[w]] # "running"
    BY <1>2 DEF WorkerHolds, Held, Executing, workerVars
  <2>1. workerJob[w] \in Jobs
    BY DEF WorkerHolds
  <2>2. ASSUME workerPc[w] \in Executing PROVE workerJob[w] \notin Range(recorded')
    BY <1>3, <1>6, <2>1, <2>2 DEF WorkerHolds, BeforeClaim
  <2>3. ASSUME workerPc[w] = "got"
        PROVE  ~started'[workerJob[w]] /\ state'[workerJob[w]] = "cancelled"
    BY <1>2, <1>4, <2>1, <2>3 DEF WorkerHolds, Waiting
  <2>4. ASSUME workerPc[w] = "record" PROVE state'[workerJob[w]] # "running"
    BY <1>4, <2>1, <2>4 DEF WorkerHolds
  <2>5. workerJob' = workerJob
    BY <1>2 DEF workerVars
  <2> QED BY <2>1, <2>2, <2>3, <2>4, <2>5 DEF Waiting
<1>12. RunningIsHeld'
  BY <1>2, <1>4 DEF RunningIsHeld, workerVars
<1>13. BeforeClaim'
  <2>1. \A i \in Range(inbox) : i \in Jobs
    BY RangeOfSeq DEF TypeOK
  <2>2. \A i \in Jobs : Waiting(i) => ~started'[i] /\ state'[i] = "cancelled"
    BY <1>2, <1>4 DEF Waiting
  <2>3. ASSUME NEW i \in Jobs
        PROVE  /\ submitPc'[i] = "idle" <=> state'[i] = "new"
               /\ state'[i] \in {"new", "queued"} => ~started'[i]
    BY <1>2, <1>4 DEF BeforeClaim
  <2> QED BY <1>2, <2>1, <2>2, <2>3 DEF BeforeClaim, Waiting, workerVars
<1>14. Lists'
  <2>1. \A i \in Range(recorded') : i \in Jobs
    BY <1>6, RangeOfSeq
  <2>2. ASSUME NEW i \in Range(recorded') PROVE state'[i] \notin {"new", "queued"}
    <3>1. CASE i \in Range(recorded)
      BY <1>4, <2>1, <3>1 DEF Lists
    <3>2. CASE i \in Range(pending)
      BY <1>1, <2>1, <3>2
    <3> QED BY <1>6, <3>1, <3>2
  <2> QED BY <1>1, <1>6, <1>7, <2>2 DEF Lists
<1>15. QueuedIsListed'
  BY <1>1, <1>4, <1>7 DEF QueuedIsListed
<1> QED BY <1>8, <1>9, <1>10, <1>11, <1>12, <1>13, <1>14, <1>15

LEMMA MarkStoppingInv ==
    ASSUME IInv, NEW t \in Stoppers, MarkStopping(t)
    PROVE  IInv'
<1> USE DEF IInv
<1>1. current \in Jobs /\ started[current]
  BY DEF MarkStopping, CurrentClaimed
<1>2. UNCHANGED <<started, queueVars, workerVars, submitPc>>
  BY DEF MarkStopping
<1>3. "stopping" \in States \ {"new", "queued", "running"}
  BY DEF States
<1>4. state' = [state EXCEPT ![current] = "stopping"]
  BY DEF MarkStopping
<1>5. /\ \A i \in Jobs : Waiting(i) => i # current /\ state'[i] = state[i]
      /\ \A i \in Jobs : i # current => state'[i] = state[i]
      /\ state'[current] = "stopping"
      /\ \A i \in Jobs : submitPc[i] = "idle" <=> state'[i] = "new"
      /\ \A i \in Jobs : state'[i] = "queued" <=> state[i] = "queued"
      /\ Lists'
  BY <1>1, <1>2, <1>3, <1>4, StartedJobChanges DEF queueVars
<1>6. TypeOK'
  <2>1. /\ state' \in [Jobs -> States]
        /\ error' \in [Jobs -> BOOLEAN]
        /\ stopEvent' \in [Jobs -> {"none", "clear", "set"}]
    BY <1>4 DEF MarkStopping, StopFlagSet, TypeOK, States
  <2>2. stopPc' \in [Stoppers -> {"idle", "mark", "signal"}] /\ lock' = NoThread
    BY DEF MarkStopping, TypeOK
  <2> QED BY <2>1, <2>2 DEF MarkStopping, TypeOK, queueVars, workerVars
<1>7. OneWorker'
  BY <1>2 DEF OneWorker, queueVars, workerVars
<1>8. CurrentClaimed'
  BY <1>1, <1>2, JobQueueAssumption DEF CurrentClaimed, queueVars
<1>9. WorkerHolds'
  <2>1. \A w \in Workers : workerPc[w] \in Held => workerJob[w] \in Jobs
    BY DEF WorkerHolds
  <2>2. \A i \in Jobs : Waiting(i) => ~started'[i] /\ state'[i] \in {"queued", "cancelled"}
    BY <1>2, <1>5 DEF Waiting
  <2>3. \A i \in Jobs : state[i] # "running" => state'[i] # "running"
    BY <1>5
  <2> QED BY <1>2, <2>1, <2>2, <2>3
          DEF WorkerHolds, Held, Executing, Waiting, queueVars, workerVars
<1>10. RunningIsHeld'
  BY <1>2, <1>5 DEF RunningIsHeld, workerVars
<1>11. BeforeClaim'
  <2>1. \A i \in Range(inbox) : i \in Jobs
    BY RangeOfSeq DEF TypeOK
  <2>2. \A i \in Jobs : Waiting(i) => ~started'[i] /\ state'[i] \in {"queued", "cancelled"}
    BY <1>2, <1>5 DEF Waiting
  <2>3. \A i \in Jobs : state'[i] \in {"new", "queued"} => ~started'[i]
    BY <1>2, <1>5 DEF BeforeClaim
  <2> QED BY <1>2, <1>5, <2>1, <2>2, <2>3 DEF BeforeClaim, Waiting, queueVars, workerVars
<1>12. QueuedIsListed'
  BY <1>2, <1>5 DEF QueuedIsListed, queueVars, workerVars
<1> QED BY <1>5, <1>6, <1>7, <1>8, <1>9, <1>10, <1>11, <1>12

LEMMA SignalEngineInv ==
    ASSUME IInv, NEW t \in Stoppers, SignalEngine(t)
    PROVE  IInv'
<1> USE DEF IInv, recordVars, queueVars, workerVars
<1>1. TypeOK'
  BY DEF SignalEngine, TypeOK
<1>2. OneWorker' /\ WorkerHolds' /\ RunningIsHeld'
  BY DEF SignalEngine, OneWorker, WorkerHolds, RunningIsHeld, Waiting
<1>3. CurrentClaimed'
  BY DEF SignalEngine, CurrentClaimed, TypeOK
<1>4. BeforeClaim' /\ Lists' /\ QueuedIsListed'
  BY DEF SignalEngine, BeforeClaim, Lists, QueuedIsListed, Waiting
<1> QED BY <1>1, <1>2, <1>3, <1>4

LEMMA StutterInv ==
    ASSUME IInv, UNCHANGED vars
    PROVE  IInv'
<1> USE DEF IInv, vars, recordVars, queueVars, workerVars, stopVars
<1>1. TypeOK'
  BY DEF TypeOK
<1>2. OneWorker' /\ WorkerHolds' /\ RunningIsHeld' /\ CurrentClaimed'
  BY DEF OneWorker, WorkerHolds, RunningIsHeld, CurrentClaimed, Waiting
<1>3. BeforeClaim' /\ Lists' /\ QueuedIsListed'
  BY DEF BeforeClaim, Lists, QueuedIsListed, Waiting
<1> QED BY <1>1, <1>2, <1>3

LEMMA NextInv == IInv /\ [Next]_vars => IInv'
<1> SUFFICES ASSUME IInv, [Next]_vars PROVE IInv'
  OBVIOUS
<1>1. CASE UNCHANGED vars
  BY <1>1, StutterInv
<1>2. ASSUME NEW j \in Jobs, SubmitStep(j) PROVE IInv'
  BY <1>2, EnlistInv, PutInInboxInv, EnsureWorkerInv DEF SubmitStep
<1>3. ASSUME NEW w \in Workers, WorkerStep(w) PROVE IInv'
  <2>1. CASE Get(w) \/ Drop(w) \/ Claim(w)
    BY <2>1, GetInv, DropInv, ClaimInv
  <2>2. CASE EngineStep(w)
    BY <2>2, EngineReturnsInv DEF EngineStep
  <2>3. CASE ReadState(w) \/ ReadError(w) \/ WriteState(w) \/ Record(w)
    BY <2>3, ReadStateInv, ReadErrorInv, WriteStateInv, RecordInv
  <2> QED BY <1>3, <2>1, <2>2, <2>3 DEF WorkerStep
<1>4. ASSUME NEW t \in Stoppers, StopStep(t) PROVE IInv'
  BY <1>4, ClearQueueInv, MarkStoppingInv, SignalEngineInv DEF StopStep
<1> QED BY <1>1, <1>2, <1>3, <1>4 DEF Next

-----------------------------------------------------------------------------
(* The theorems. *)

\* The inductive invariant holds in every state of every behaviour.
THEOREM InductiveInvariant == Spec => []IInv
BY InitInv, NextInv, PTL DEF Spec

\* Every variable keeps its type, and the history never outgrows its cap.
THEOREM TypeCorrect == Spec => []TypeOK
<1>1. IInv => TypeOK
  BY DEF IInv
<1> QED BY <1>1, InductiveInvariant, PTL

\* The invariant gives SingleWriter: only one worker was ever started, and it
\* executes the current job (_ensure_worker, _worker_loop).
LEMMA InvSingleWriter == IInv => SingleWriter
<1> SUFFICES ASSUME IInv PROVE SingleWriter
  OBVIOUS
<1>1. \A v, w \in Workers :
         workerPc[v] \in Executing /\ workerPc[w] \in Executing => v = w
  BY DEF IInv, OneWorker, Executing
<1>2. \A w \in Workers : workerPc[w] \in Executing => current = workerJob[w]
  BY DEF IInv, WorkerHolds
<1>3. \A j \in Jobs : state[j] = "running" => current = j
  BY <1>2 DEF IInv, RunningIsHeld
<1> QED BY <1>1, <1>2, <1>3 DEF SingleWriter

\* However the submitting threads race in _ensure_worker, one job runs at a
\* time, and it is the one the queue calls current.
THEOREM OneJobAtATime == Spec => []SingleWriter
BY InvSingleWriter, InductiveInvariant, PTL

\* No job is recorded twice, whatever the stops and the worker do.
THEOREM NoJobEndsTwice == Spec => []EndsOnce
<1>1. IInv => EndsOnce
  BY DEF IInv, Lists, EndsOnce
<1> QED BY <1>1, InductiveInvariant, PTL

\* The list the dashboard shows is the set of queued jobs, and none is lost on
\* its way to the worker.
THEOREM ListingIsExact == Spec => []QueuedIsListed
<1>1. IInv => QueuedIsListed
  BY DEF IInv
<1> QED BY <1>1, InductiveInvariant, PTL

\* A job cleared from the queue by a stop never runs afterwards.
THEOREM ClearedStaysCleared == Spec => ClearedNeverRuns
<1> DEFINE Stays == \A j \in Jobs :
                      state[j] = "cancelled" /\ ~started[j] =>
                          state'[j] = "cancelled" /\ ~started'[j]
<1>1. IInv /\ [Next]_vars => [Stays]_vars
  <2> SUFFICES ASSUME IInv, Next, NEW j \in Jobs, state[j] = "cancelled", ~started[j]
               PROVE  state'[j] = "cancelled" /\ ~started'[j]
    OBVIOUS
  <2>1. ASSUME NEW i \in Jobs, SubmitStep(i)
        PROVE  state'[j] = "cancelled" /\ ~started'[j]
    BY <2>1 DEF SubmitStep, Enlist, PutInInbox, EnsureWorker, recordVars,
                IInv, BeforeClaim, TypeOK
  <2>2. ASSUME NEW w \in Workers, WorkerStep(w)
        PROVE  state'[j] = "cancelled" /\ ~started'[j]
    <3>1. CASE Claim(w)
      BY <3>1 DEF Claim, Cleared, IInv, TypeOK
    <3>2. CASE WriteState(w)
      <4>1. workerJob[w] # j
        BY <3>2 DEF WriteState, IInv, WorkerHolds, Executing
      <4> QED BY <3>2, <4>1 DEF WriteState, IInv, TypeOK
    <3>3. CASE \/ Get(w) \/ Drop(w) \/ EngineStep(w)
               \/ ReadState(w) \/ ReadError(w) \/ Record(w)
      BY <3>3 DEF Get, Drop, EngineStep, EngineReturns, ReadState, ReadError, Record,
                  recordVars
    <3> QED BY <2>2, <3>1, <3>2, <3>3 DEF WorkerStep
  <2>3. ASSUME NEW t \in Stoppers, StopStep(t)
        PROVE  state'[j] = "cancelled" /\ ~started'[j]
    <3>1. ASSUME NEW hard \in BOOLEAN, ClearQueue(t, hard)
          PROVE  state'[j] = "cancelled" /\ ~started'[j]
      BY <3>1 DEF ClearQueue
    <3>2. CASE MarkStopping(t)
      <4>1. current # j
        BY <3>2 DEF MarkStopping, IInv, CurrentClaimed
      <4> QED BY <3>2, <4>1 DEF MarkStopping, IInv, TypeOK
    <3>3. CASE SignalEngine(t)
      BY <3>3 DEF SignalEngine, recordVars
    <3> QED BY <2>3, <3>1, <3>2, <3>3 DEF StopStep
  <2> QED BY <2>1, <2>2, <2>3 DEF Next
<1> QED BY <1>1, InductiveInvariant, PTL DEF Spec, ClearedNeverRuns

-----------------------------------------------------------------------------
(* The refinement: each step of the queue is a step of the ledger or leaves *)
(* it as it is.                                                             *)

\* The job the ledger runs.
Running == IF Active = {} THEN NoJob ELSE CHOOSE j \in Active : TRUE

-----------------------------------------------------------------------------
\* The one worker that executes determines what the ledger runs.
LEMMA RunningIs ==
    ASSUME IInv
    PROVE  /\ (\A w \in Workers : workerPc[w] \notin Executing) => Running = NoJob
           /\ \A w \in Workers : workerPc[w] \in Executing => Running = workerJob[w]
<1>1. ASSUME \A w \in Workers : workerPc[w] \notin Executing PROVE Running = NoJob
  BY <1>1 DEF Running, Active
<1>2. ASSUME NEW w \in Workers, workerPc[w] \in Executing PROVE Running = workerJob[w]
  <2>1. \A v \in Workers : workerPc[v] \in Executing => v = w
    BY <1>2 DEF IInv, OneWorker, Executing
  <2>2. Active = {workerJob[w]}
    BY <1>2, <2>1 DEF Active
  <2> QED BY <2>2 DEF Running
<1> QED BY <1>1, <1>2

\* The same in the next state.
LEMMA RunningIsNext ==
    ASSUME IInv'
    PROVE  /\ (\A w \in Workers : workerPc'[w] \notin Executing) => Running' = NoJob
           /\ \A w \in Workers : workerPc'[w] \in Executing => Running' = workerJob'[w]
<1>1. ASSUME \A w \in Workers : workerPc'[w] \notin Executing PROVE Running' = NoJob
  BY <1>1 DEF Running, Active
<1>2. ASSUME NEW w \in Workers, workerPc'[w] \in Executing PROVE Running' = workerJob'[w]
  <2>1. \A v \in Workers : workerPc'[v] \in Executing => v = w
    BY <1>2 DEF IInv, OneWorker, Executing
  <2>2. Active' = {workerJob'[w]}
    BY <1>2, <2>1 DEF Active
  <2> QED BY <2>2 DEF Running
<1> QED BY <1>1, <1>2

\* The list of jobs without duplicates is as long as its set of jobs is large.
LEMMA CardinalityOfRange ==
    ASSUME NEW S, NEW s \in Seq(S), IsInjective(s)
    PROVE  Cardinality(Range(s)) = Len(s)
<1>1. Len(s) \in Nat /\ DOMAIN s = 1..Len(s)
  BY LenProperties
<1>2. s \in Bijection(1..Len(s), Range(s))
  <2>1. s \in [1..Len(s) -> Range(s)]
    BY <1>1 DEF Range
  <2> QED BY <1>1, <2>1 DEF Bijection, Injection, Surjection, IsInjective, Range
<1> QED BY <1>1, <1>2, FS_CountingElements DEF ExistsBijection

-----------------------------------------------------------------------------
(* The definitions of the ledger, under the mapping. *)

LEMMA LedgerSteps ==
    /\ \A j : Ledger!Submit(j) <=>
          /\ j \notin Range(pending) \cup Range(recorded) \cup {Running}
          /\ Range(pending)' = Range(pending) \cup {j}
          /\ recorded' = recorded /\ Running' = Running
    /\ \A j : Ledger!Start(j) <=>
          /\ Running = NoJob
          /\ j \in Range(pending)
          /\ Range(pending)' = Range(pending) \ {j}
          /\ Running' = j /\ recorded' = recorded
    /\ Ledger!Finish <=>
          /\ Running # NoJob
          /\ recorded' = Append(recorded, Running)
          /\ Running' = NoJob /\ Range(pending)' = Range(pending)
    /\ Ledger!CancelWaiting <=>
          /\ Range(pending) # {}
          /\ \E order \in [1..Cardinality(Range(pending)) -> Range(pending)] :
                Range(order) = Range(pending) /\ recorded' = recorded \o order
          /\ Range(pending)' = {} /\ Running' = Running
    /\ UNCHANGED Ledger!vars <=>
          Range(pending)' = Range(pending) /\ Running' = Running /\ recorded' = recorded
  BY DEF Ledger!Submit, Ledger!Start, Ledger!Finish, Ledger!CancelWaiting, Ledger!vars,
         Ledger!Known, Ledger!Range, Range, Ledger!Cardinality, Cardinality, Running

\* A step that neither lists, ends nor changes the execution of a job.
LEMMA Unseen ==
    ASSUME IInv, IInv', UNCHANGED <<pending, recorded>>,
           \A w \in Workers : workerPc[w] \in Executing <=> workerPc'[w] \in Executing,
           \A w \in Workers : workerPc[w] \in Executing => workerJob'[w] = workerJob[w]
    PROVE  UNCHANGED Ledger!vars
<1>1. CASE \A w \in Workers : workerPc[w] \notin Executing
  BY <1>1, RunningIs, RunningIsNext, LedgerSteps
<1>2. CASE \E w \in Workers : workerPc[w] \in Executing
  BY <1>2, RunningIs, RunningIsNext, LedgerSteps
<1> QED BY <1>1, <1>2

-----------------------------------------------------------------------------
(* The initial state, and the steps the ledger sees. *)

LEMMA LedgerInit == Init => Ledger!Init
<1> SUFFICES ASSUME Init PROVE Ledger!Init
  OBVIOUS
<1>1. Range(<<>>) = {}
  BY EmptySeq DEF Range
<1>2. Active = {}
  BY DEF Init, Active, Executing
<1> QED BY <1>1, <1>2 DEF Init, Ledger!Init

\* Listing a record is its submission.
LEMMA EnlistIsSubmit ==
    ASSUME IInv, IInv', NEW j \in Jobs, Enlist(j) PROVE Ledger!Submit(j)
<1>1. state[j] = "new" /\ ~started[j]
  BY DEF Enlist, IInv, BeforeClaim
<1>2. j \notin Range(pending)
  BY <1>1 DEF IInv, QueuedIsListed
<1>3. j \notin Range(recorded)
  BY <1>1 DEF IInv, Lists
<1>4. /\ pending' = Append(pending, j) /\ recorded' = recorded
      /\ UNCHANGED workerVars
  BY DEF Enlist
<1>5. Running' = Running
  BY <1>4 DEF Running, Active, workerVars
<1>6. Running # j
  <2>1. CASE \A w \in Workers : workerPc[w] \notin Executing
    BY <2>1, RunningIs, JobQueueAssumption
  <2>2. ASSUME NEW w \in Workers, workerPc[w] \in Executing PROVE Running # j
    BY <1>1, <2>2, RunningIs DEF IInv, WorkerHolds
  <2> QED BY <2>1, <2>2
<1>7. Range(pending)' = Range(pending) \cup {j}
  BY <1>4, AppendFacts DEF IInv, TypeOK
<1> QED BY <1>2, <1>3, <1>4, <1>5, <1>6, <1>7, LedgerSteps

\* The worker's claim of a record is the start of its job.
LEMMA ClaimIsStart ==
    ASSUME IInv, IInv', NEW w \in Workers, Claim(w) PROVE Ledger!Start(workerJob[w])
<1> DEFINE j == workerJob[w]
<1>1. j \in Jobs /\ state[j] = "queued"
  BY DEF Claim, Cleared, IInv, WorkerHolds, Held, Waiting
<1>2. j \in Range(pending)
  BY <1>1 DEF IInv, QueuedIsListed
<1>3. Range(pending)' = Range(pending) \ {j}
  BY WithoutFacts DEF Claim, IInv, TypeOK, Lists
<1>4. Running = NoJob
  <2>1. \A v \in Workers : workerPc[v] \notin Executing
    BY DEF Claim, IInv, OneWorker, Executing
  <2> QED BY <2>1, RunningIs
<1>5. Running' = j
  <2>1. workerPc'[w] \in Executing /\ workerJob'[w] = j
    BY DEF Claim, IInv, TypeOK, Executing
  <2> QED BY <2>1, RunningIsNext
<1>6. recorded' = recorded
  BY DEF Claim
<1> QED BY <1>2, <1>3, <1>4, <1>5, <1>6, LedgerSteps

\* _record_history is the end of the job that ran.
LEMMA RecordIsFinish ==
    ASSUME IInv, IInv', NEW w \in Workers, Record(w) PROVE Ledger!Finish
<1>1. workerPc[w] \in Executing
  BY DEF Record, Executing
<1>2. Running = workerJob[w] /\ workerJob[w] \in Jobs
  BY <1>1, RunningIs DEF IInv, WorkerHolds, Held
<1>3. Running' = NoJob
  <2>1. \A v \in Workers : workerPc'[v] \notin Executing
    BY DEF Record, IInv, OneWorker, TypeOK, Executing
  <2> QED BY <2>1, RunningIsNext
<1>4. recorded' = Append(recorded, workerJob[w]) /\ pending' = pending
  BY DEF Record
<1> QED BY <1>2, <1>3, <1>4, LedgerSteps, JobQueueAssumption

\* A stop ends whatever waits.
LEMMA ClearIsCancel ==
    ASSUME IInv, IInv', NEW t \in Stoppers, NEW hard \in BOOLEAN, ClearQueue(t, hard)
    PROVE  Ledger!CancelWaiting \/ UNCHANGED Ledger!vars
<1>1. /\ recorded' = recorded \o pending /\ pending' = <<>>
      /\ UNCHANGED workerVars
  BY DEF ClearQueue
<1>2. Running' = Running
  BY <1>1 DEF Running, Active, workerVars
<1>3. Range(pending') = {}
  BY <1>1, EmptySeq DEF Range
<1>4. pending \in Seq(Jobs) /\ recorded \in Seq(Jobs) /\ IsInjective(pending)
  BY DEF IInv, TypeOK, Lists
<1>5. pending \in [1..Cardinality(Range(pending)) -> Range(pending)]
  <2>1. DOMAIN pending = 1..Len(pending)
    BY <1>4, LenProperties
  <2> QED BY <1>4, <2>1, CardinalityOfRange DEF Range
<1>6. CASE Range(pending) # {}
  BY <1>1, <1>2, <1>3, <1>5, <1>6, LedgerSteps
<1>7. CASE Range(pending) = {}
  <2>1. pending = <<>>
    <3>1. Len(pending) \in Nat /\ DOMAIN pending = 1..Len(pending)
      BY <1>4, LenProperties
    <3>2. ~(1 \in DOMAIN pending)
      BY <1>7 DEF Range
    <3>3. Len(pending) = 0
      BY <3>1, <3>2
    <3> QED BY <1>4, <3>3, EmptySeq
  <2>2. recorded' = recorded
    BY <1>1, <1>4, <2>1, ConcatEmptySeq
  <2> QED BY <1>2, <1>3, <1>7, <2>2, LedgerSteps
<1> QED BY <1>6, <1>7

-----------------------------------------------------------------------------
(* The steps it does not see. *)

LEMMA DropUnseen ==
    ASSUME IInv, IInv', NEW w \in Workers, Drop(w) PROVE UNCHANGED Ledger!vars
<1>1. workerJob[w] \in Jobs /\ state[workerJob[w]] = "cancelled"
  BY DEF Drop, Cleared, IInv, WorkerHolds, Held
<1>2. workerJob[w] \notin Range(pending)
  BY <1>1 DEF IInv, QueuedIsListed
<1>3. pending' = pending /\ recorded' = recorded /\ workerJob' = workerJob
  BY <1>2 DEF Drop, Without
<1>4. \A v \in Workers : workerPc[v] \in Executing <=> workerPc'[v] \in Executing
  BY DEF Drop, IInv, TypeOK, Executing
<1> QED BY <1>3, <1>4, Unseen

LEMMA SubmitUnseen ==
    ASSUME IInv, IInv', NEW j \in Jobs, PutInInbox(j) \/ EnsureWorker(j)
    PROVE  UNCHANGED Ledger!vars
<1>1. pending' = pending /\ recorded' = recorded /\ workerJob' = workerJob
  BY DEF PutInInbox, EnsureWorker, workerVars
<1>2. \A v \in Workers : workerPc[v] \in Executing <=> workerPc'[v] \in Executing
  BY DEF PutInInbox, EnsureWorker, workerVars, IInv, TypeOK, Executing
<1> QED BY <1>1, <1>2, Unseen

LEMMA WorkerUnseen ==
    ASSUME IInv, IInv', NEW w \in Workers,
           Get(w) \/ EngineStep(w) \/ ReadState(w) \/ ReadError(w) \/ WriteState(w)
    PROVE  UNCHANGED Ledger!vars
<1>1. pending' = pending /\ recorded' = recorded
  BY DEF Get, EngineStep, EngineReturns, ReadState, ReadError, WriteState, queueVars
<1>2. \A v \in Workers : workerPc[v] \in Executing <=> workerPc'[v] \in Executing
  BY DEF Get, EngineStep, EngineReturns, ReadState, ReadError, WriteState,
         IInv, TypeOK, Executing
<1>3. \A v \in Workers : workerPc[v] \in Executing => workerJob'[v] = workerJob[v]
  BY DEF Get, EngineStep, EngineReturns, ReadState, ReadError, WriteState,
         IInv, TypeOK, Executing
<1> QED BY <1>1, <1>2, <1>3, Unseen

LEMMA StopUnseen ==
    ASSUME IInv, IInv', NEW t \in Stoppers, MarkStopping(t) \/ SignalEngine(t)
    PROVE  UNCHANGED Ledger!vars
<1>1. UNCHANGED <<pending, recorded, workerPc, workerJob>>
  BY DEF MarkStopping, SignalEngine, queueVars, workerVars
<1> QED BY <1>1, Unseen

LEMMA StepInLedger ==
    ASSUME IInv, IInv', [Next]_vars PROVE [Ledger!Next]_(Ledger!vars)
<1>1. ASSUME NEW j \in Jobs, SubmitStep(j) PROVE [Ledger!Next]_(Ledger!vars)
  BY <1>1, EnlistIsSubmit, SubmitUnseen DEF SubmitStep, Ledger!Next
<1>2. ASSUME NEW w \in Workers, WorkerStep(w) PROVE [Ledger!Next]_(Ledger!vars)
  <2>1. CASE Claim(w)
    <3>1. workerJob[w] \in Jobs
      BY <2>1 DEF Claim, IInv, WorkerHolds, Held
    <3> QED BY <2>1, <3>1, ClaimIsStart DEF Ledger!Next
  <2>2. CASE Record(w)
    BY <2>2, RecordIsFinish DEF Ledger!Next
  <2>3. CASE Drop(w)
    BY <2>3, DropUnseen
  <2>4. CASE Get(w) \/ EngineStep(w) \/ ReadState(w) \/ ReadError(w) \/ WriteState(w)
    BY <2>4, WorkerUnseen
  <2> QED BY <1>2, <2>1, <2>2, <2>3, <2>4 DEF WorkerStep
<1>3. ASSUME NEW t \in Stoppers, StopStep(t) PROVE [Ledger!Next]_(Ledger!vars)
  BY <1>3, ClearIsCancel, StopUnseen DEF StopStep, Ledger!Next
<1>4. CASE UNCHANGED vars
  <2>1. UNCHANGED <<pending, recorded, workerPc, workerJob>>
    BY <1>4 DEF vars, queueVars, workerVars
  <2> QED BY <2>1, Unseen
<1> QED BY <1>1, <1>2, <1>3, <1>4 DEF Next

\* Whatever the threads of the queue do, its callers see a ledger in which a
\* job waits, runs by itself and ends once, and a stop ends all that wait.
THEOREM QueueStaysInLedger == Spec => StaysInLedger
<1>1. IInv /\ IInv' /\ [Next]_vars => [Ledger!Next]_(Ledger!vars)
  BY StepInLedger
<1> QED BY <1>1, LedgerInit, InductiveInvariant, PTL DEF Spec, StaysInLedger

-----------------------------------------------------------------------------
(* The stop mechanism (JobStop), for any plan of engines.  Its steps are   *)
(* steps of JobQueue, in which an engine just comes back, so what is       *)
(* proved above holds of it.  What the engines and the stops add is in     *)
(* StopInv: which phase an engine is in and what it has done, what a       *)
(* stop's flag says of the record's state, and what the worker's verdict   *)
(* says of the work.                                                       *)

\* Each step of JobStop is a step of JobQueue or leaves its variables alone.
LEMMA StopStepIsQueueStep ==
    [StopNext]_allVars => [Next]_vars
<1> SUFFICES ASSUME [StopNext]_allVars PROVE [Next]_vars
  OBVIOUS
<1>1. ASSUME NEW j \in Jobs, SubmitStep(j) PROVE Next
  BY <1>1 DEF Next
<1>2. ASSUME NEW w \in Workers, WorkerRuns(w) PROVE [Next]_vars
  <2>1. CASE WorkerOnly(w) \/ ClaimAndDispatch(w)
    BY <2>1 DEF WorkerOnly, ClaimAndDispatch, WorkerStep, Next
  <2>2. CASE StartLoop(w) \/ BeginItem(w) \/ EndItem(w) \/ BeltDone(w)
    BY <2>2 DEF StartLoop, BeginItem, EndItem, BeltDone
  <2>3. CASE BeltFails(w) \/ Finish(w) \/ Fail(w)
    <3>1. \E outcome \in Outcomes : EngineReturns(w, outcome, FALSE)
      BY <2>3 DEF BeltFails, Finish, Fail, Outcomes
    <3> QED BY <3>1 DEF EngineStep, WorkerStep, Next
  <2> QED BY <1>2, <2>1, <2>2, <2>3 DEF WorkerRuns
<1>3. ASSUME NEW t \in Stoppers,
             \/ \E hard \in BOOLEAN : RequestStop(t, hard)
             \/ MarkStopping(t)
             \/ Signal(t)
      PROVE  Next
  BY <1>3 DEF RequestStop, Signal, StopStep, Next
<1>4. ASSUME NEW e \in EventIds, KeyboardStep(e) PROVE UNCHANGED vars
  BY <1>4 DEF KeyboardStep, Register, Unregister
<1>5. CASE UNCHANGED allVars
  BY <1>5 DEF allVars
<1> QED BY <1>1, <1>2, <1>3, <1>4, <1>5 DEF StopNext

\* JobStop implements the safety part of JobQueue: whatever engines a job runs
\* and however a stop reaches them, the queue behaves as modelled there.
THEOREM StopRunsTheQueue == StopSpec => Init /\ [][Next]_vars
<1>1. StopInit => Init
  BY DEF StopInit
<1> QED BY <1>1, StopStepIsQueueStep, PTL DEF StopSpec

\* The invariant of JobQueue holds with engines that are stopped.
LEMMA StopInductiveInvariant == StopSpec => []IInv
  BY StopRunsTheQueue, InitInv, NextInv, PTL

\* One job at a time and no job recorded twice, also when a stop cuts engines
\* short, ends a Replace for want of a belt or hits the next job.
THEOREM StopKeepsTheQueue == StopSpec => [](SingleWriter /\ EndsOnce /\ QueuedIsListed)
<1>1. IInv => SingleWriter /\ EndsOnce /\ QueuedIsListed
  BY InvSingleWriter DEF IInv, Lists, EndsOnce
<1> QED BY <1>1, StopInductiveInvariant, PTL

-----------------------------------------------------------------------------
(* The engines.  Four facts about them, each kept by every step.           *)

EnginePcs == {"off", "setup", "loop", "item"}

EngineTypes ==
    /\ phase \in [Jobs -> {1, 2}]
    /\ enginePc \in [Jobs -> EnginePcs]
    /\ processed \in [EventIds -> Nat]
    /\ \A j \in Jobs : phase[j] \in DOMAIN Plan[j]

\* A stop request that has decided to mark a job holds the lock until it has;
\* a marked job's flag stays set, for its record is claimed only once.
Flags ==
    /\ \A t \in Stoppers :
          /\ stopPc[t] = "mark" => lock = t /\ stopJob[t] = current
          /\ stopPc[t] = "signal" => stopJob[t] \in Jobs /\ stopEvent[stopJob[t]] = "set"
    /\ \A j \in Jobs : stopEvent[j] = "set" => started[j]
    /\ stopped \subseteq Jobs
    /\ \A j \in stopped : stopEvent[j] = "set"

AllDone(j) == \A p \in DOMAIN Plan[j] : processed[<<j, p>>] = Items
PhasesDone(j) == \A p \in DOMAIN Plan[j] : p < phase[j] => processed[<<j, p>>] = Items

\* As long as the worker has not read the job's state a set flag is visible in
\* it, and without one all the work up to the present phase was done.
WorkOf(w, j) ==
    /\ workerPc[w] \in {"running", "read_state"} /\ stopEvent[j] = "set" =>
          state[j] = "stopping"
    /\ workerPc[w] = "running" => state[j] \in {"running", "stopping"}
    /\ workerPc[w] = "read_state" => verdict[w] \in {"completed", "failed"}
    /\ PollsRecord(j) =>
          /\ workerPc[w] = "running" => stopEvent[j] = "set" \/ PhasesDone(j)
          /\ workerPc[w] = "read_state" /\ verdict[w] = "completed" =>
                stopEvent[j] = "set" \/ AllDone(j)
          /\ workerPc[w] = "read_error" => AllDone(j)
          /\ workerPc[w] = "write_state" /\ verdict[w] = "completed" => AllDone(j)

Work ==
    /\ \A w \in Workers : workerPc[w] \in Executing => WorkOf(w, workerJob[w])
    /\ \A j \in Jobs : ~started[j] => phase[j] = 1
    /\ RecordFlagCancels

StopInv == IInv /\ EngineTypes /\ Flags /\ Work

\* A plan is one engine or two.
LEMMA PlanFacts ==
    ASSUME NEW j \in Jobs
    PROVE  /\ Len(Plan[j]) \in {1, 2} /\ DOMAIN Plan[j] = 1..Len(Plan[j])
           /\ \A p \in DOMAIN Plan[j] : p \in {1, 2} /\ <<j, p>> \in EventIds
<1>1. PICK d, e \in Engines : Plan[j] \in {<<e>>, <<d, e>>}
  BY JobStopAssumption
<1>2. CASE Plan[j] = <<e>>
  BY <1>2 DEF EventIds
<1>3. CASE Plan[j] = <<d, e>>
  BY <1>3 DEF EventIds
<1> QED BY <1>1, <1>2, <1>3

\* The steps of the worker, named with the worker that takes them.
LEMMA HoldsItsJob ==
    ASSUME IInv, NEW w \in Workers, workerPc[w] \in Executing
    PROVE  /\ workerJob[w] \in Jobs /\ current = workerJob[w] /\ started[workerJob[w]]
           /\ \A v \in Workers : v # w => workerPc[v] = "unborn"
<1>1. workerPc[w] # "unborn"
  BY DEF Executing
<1> QED BY <1>1 DEF IInv, WorkerHolds, OneWorker, Held, TypeOK

\* What holds of the engines and of the flags at first.
LEMMA StopInitInv == StopInit => StopInv
<1> SUFFICES ASSUME StopInit PROVE StopInv
  OBVIOUS
<1> USE DEF StopInit, InitEngine, Init
<1>1. IInv
  BY InitInv
<1>2. EngineTypes
  BY PlanFacts DEF EngineTypes, EnginePcs, EventIds
<1>3. Flags
  BY DEF Flags
<1>4. Work
  BY DEF Work, RecordFlagCancels, Executing
<1> QED BY <1>1, <1>2, <1>3, <1>4 DEF StopInv

\* The engine moves on by one item or to the next engine of its plan.
LEMMA EngineStepInv ==
    ASSUME StopInv, [StopNext]_allVars
    PROVE  EngineTypes'
<1> USE DEF StopInv
<1> DEFINE Still == UNCHANGED <<phase, processed>> /\ enginePc' \in [Jobs -> EnginePcs]
<1>1. Still => EngineTypes'
  BY DEF EngineTypes
<1>2. ASSUME NEW w \in Workers, WorkerRuns(w)
      PROVE  EngineTypes'
  <2> DEFINE j == workerJob[w]
  <2>1. CASE WorkerOnly(w)
    BY <1>1, <2>1 DEF WorkerOnly, EngineIdle, engineVars, EngineTypes
  <2>2. CASE ClaimAndDispatch(w) \/ StartLoop(w) \/ BeginItem(w) \/ BeltFails(w)
             \/ Finish(w) \/ Fail(w)
    <3>1. PICK to \in EnginePcs : enginePc' = [enginePc EXCEPT ![j] = to]
      BY <2>2 DEF ClaimAndDispatch, StartLoop, BeginItem, BeltFails, Finish, Fail, EnginePcs
    <3>2. UNCHANGED <<phase, processed>>
      BY <2>2 DEF ClaimAndDispatch, StartLoop, BeginItem, BeltFails, Finish, Fail
    <3> QED BY <1>1, <3>1, <3>2 DEF EngineTypes
  <2>3. CASE EndItem(w)
    <3>1. j \in Jobs
      BY <2>3, HoldsItsJob DEF EndItem, Executing
    <3>2. /\ enginePc' = [enginePc EXCEPT ![j] = "loop"] /\ phase' = phase
          /\ processed' = [processed EXCEPT ![Event(j)] = @ + 1]
      BY <2>3 DEF EndItem
    <3>3. Event(j) \in EventIds
      BY <3>1 DEF Event, EventIds, EngineTypes
    <3>4. EngineTypes'
      <4>1. processed[Event(j)] + 1 \in Nat
        BY <3>3 DEF EngineTypes
      <4>2. processed' \in [EventIds -> Nat]
        BY <3>2, <4>1 DEF EngineTypes
      <4>3. enginePc' \in [Jobs -> EnginePcs]
        BY <3>2 DEF EngineTypes, EnginePcs
      <4> QED BY <3>2, <4>2, <4>3 DEF EngineTypes
    <3> QED BY <3>4
  <2>4. CASE BeltDone(w)
    <3>1. j \in Jobs
      BY <2>4, HoldsItsJob DEF BeltDone, Executing
    <3>2. phase[j] = 1 /\ Len(Plan[j]) = 2
      <4>1. phase[j] # Len(Plan[j])
        BY <2>4 DEF BeltDone, LastPhase
      <4>2. phase[j] \in {1, 2} /\ phase[j] \in 1..Len(Plan[j]) /\ Len(Plan[j]) \in {1, 2}
        BY <3>1, PlanFacts DEF EngineTypes
      <4>3. phase[j] = 1 /\ Len(Plan[j]) = 2
        <5>1. CASE Len(Plan[j]) = 1
          <6>1. 1..1 = {1}
            OBVIOUS
          <6> QED BY <4>1, <4>2, <5>1, <6>1
        <5> QED BY <4>1, <4>2, <5>1
      <4> QED BY <4>1, <4>3
    <3>3. /\ phase' = [phase EXCEPT ![j] = 2] /\ processed' = processed
          /\ enginePc' = [enginePc EXCEPT ![j] = "setup"]
      BY <2>4, <3>1, <3>2 DEF BeltDone, EngineTypes
    <3>4. 2 \in DOMAIN Plan[j]
      BY <3>1, <3>2, PlanFacts
    <3> QED BY <3>1, <3>2, <3>3, <3>4 DEF EngineTypes, EnginePcs
  <2> QED BY <1>2, <2>1, <2>2, <2>3, <2>4 DEF WorkerRuns
<1>3. ASSUME \/ \E j \in Jobs : SubmitStep(j) /\ EngineIdle
             \/ \E t \in Stoppers : \/ \E hard \in BOOLEAN : RequestStop(t, hard)
                                    \/ MarkStopping(t) /\ EngineIdle
                                    \/ Signal(t)
             \/ \E e \in EventIds : KeyboardStep(e)
             \/ UNCHANGED allVars
      PROVE  EngineTypes'
  <2>1. UNCHANGED <<phase, processed, enginePc>>
    BY <1>3 DEF EngineIdle, RequestStop, Signal, KeyboardStep, Register, Unregister,
                allVars, engineVars
  <2> QED BY <1>1, <2>1 DEF EngineTypes
<1> QED BY <1>2, <1>3 DEF StopNext

-----------------------------------------------------------------------------
(* The flags on the records *)

LEMMA FlagsStepInv ==
    ASSUME StopInv, [StopNext]_allVars
    PROVE  Flags'
<1> USE DEF StopInv
<1> DEFINE Still == UNCHANGED <<stopPc, lock, stopJob, current, stopEvent, started, stopped>>
<1>1. Still => Flags'
  BY DEF Flags
<1>2. ASSUME NEW w \in Workers, ClaimAndDispatch(w) PROVE Flags'
  <2> DEFINE j == workerJob[w]
  <2>1. /\ j \in Jobs /\ ~started[j] /\ lock = NoThread
        /\ stopEvent' = [stopEvent EXCEPT ![j] = "clear"]
        /\ started' = [started EXCEPT ![j] = TRUE]
        /\ UNCHANGED <<lock, stopPc, stopJob, stopped>>
    BY <1>2 DEF ClaimAndDispatch, Claim, LockFree, IInv, WorkerHolds, Held, Waiting, stopVars
  <2>2. stopEvent[j] # "set" /\ j \notin stopped
    BY <2>1 DEF Flags
  <2>3. \A i \in Jobs : stopEvent[i] = "set" <=> stopEvent'[i] = "set"
    BY <2>1, <2>2 DEF IInv, TypeOK
  <2>4. \A i \in Jobs : started[i] => started'[i]
    BY <2>1 DEF IInv, TypeOK
  <2>5. \A t \in Stoppers : stopPc[t] # "mark"
    BY <2>1, JobQueueAssumption DEF Flags
  <2> QED BY <2>1, <2>3, <2>4, <2>5 DEF Flags
<1>3. ASSUME NEW t \in Stoppers, NEW hard \in BOOLEAN, RequestStop(t, hard) PROVE Flags'
  <2>1. /\ UNCHANGED <<current, stopEvent, started, stopped>>
        /\ lock = NoThread
        /\ \/ /\ lock' = t
              /\ stopPc' = [stopPc EXCEPT ![t] = "mark"]
              /\ stopJob' = [stopJob EXCEPT ![t] = current]
           \/ UNCHANGED stopVars
    BY <1>3 DEF RequestStop, ClearQueue, LockFree
  <2>2. \A s \in Stoppers : stopPc[s] # "mark"
    BY <2>1, JobQueueAssumption DEF Flags
  <2>3. CASE UNCHANGED stopVars
    BY <1>1, <2>1, <2>3 DEF stopVars
  <2>4. CASE /\ lock' = t
             /\ stopPc' = [stopPc EXCEPT ![t] = "mark"]
             /\ stopJob' = [stopJob EXCEPT ![t] = current]
    <3>1. stopPc'[t] = "mark" /\ stopJob'[t] = current
      BY <2>4 DEF IInv, TypeOK
    <3>2. \A s \in Stoppers : s # t => stopPc'[s] = stopPc[s] /\ stopJob'[s] = stopJob[s]
      BY <2>4 DEF IInv, TypeOK
    <3> QED BY <2>1, <2>2, <2>4, <3>1, <3>2 DEF Flags
  <2> QED BY <2>1, <2>3, <2>4
<1>4. ASSUME NEW t \in Stoppers, MarkStopping(t), EngineIdle PROVE Flags'
  <2>1. /\ stopPc[t] = "mark" /\ lock = t /\ stopJob[t] = current
        /\ current \in Jobs /\ started[current]
    BY <1>4 DEF MarkStopping, Flags, IInv, CurrentClaimed
  <2>2. /\ stopEvent' = [stopEvent EXCEPT ![current] = "set"]
        /\ stopPc' = [stopPc EXCEPT ![t] = "signal"]
        /\ UNCHANGED <<current, started, stopJob, stopped>>
    BY <1>4 DEF MarkStopping, StopFlagSet, EngineIdle, queueVars
  <2>3. \A i \in Jobs : stopEvent'[i] = "set" <=> stopEvent[i] = "set" \/ i = current
    BY <2>1, <2>2 DEF IInv, TypeOK
  <2>4. \A s \in Stoppers : s # t => stopPc'[s] = stopPc[s] /\ stopPc[s] # "mark"
    BY <2>1, <2>2 DEF Flags, IInv, TypeOK
  <2>5. stopPc'[t] = "signal"
    BY <2>2 DEF IInv, TypeOK
  <2> QED BY <2>1, <2>2, <2>3, <2>4, <2>5 DEF Flags
<1>5. ASSUME NEW t \in Stoppers, Signal(t) PROVE Flags'
  <2>1. /\ stopPc[t] = "signal"
        /\ stopPc' = [stopPc EXCEPT ![t] = "idle"]
        /\ stopJob' = [stopJob EXCEPT ![t] = NoJob]
        /\ stopped' = stopped \cup {stopJob[t]}
        /\ UNCHANGED <<lock, current, stopEvent, started>>
    BY <1>5 DEF Signal, SignalEngine, recordVars, queueVars
  <2>2. \A s \in Stoppers : s # t => stopPc'[s] = stopPc[s] /\ stopJob'[s] = stopJob[s]
    BY <2>1 DEF IInv, TypeOK
  <2>3. stopPc'[t] = "idle"
    BY <2>1 DEF IInv, TypeOK
  <2> QED BY <2>1, <2>2, <2>3 DEF Flags
<1>6. ASSUME \/ \E j \in Jobs : SubmitStep(j) /\ EngineIdle
             \/ \E e \in EventIds : KeyboardStep(e)
             \/ UNCHANGED allVars
      PROVE  Flags'
  <2>1. ASSUME NEW j \in Jobs, SubmitStep(j), EngineIdle PROVE Still
    BY <2>1 DEF SubmitStep, Enlist, PutInInbox, EnsureWorker, EngineIdle, recordVars, stopVars
  <2>2. ASSUME NEW e \in EventIds, KeyboardStep(e) PROVE Still
    BY <2>2 DEF KeyboardStep, Register, Unregister, vars, recordVars, queueVars, stopVars
  <2>3. CASE UNCHANGED allVars
    BY <1>1, <2>3 DEF allVars, vars, recordVars, queueVars, stopVars
  <2> QED BY <1>1, <1>6, <2>1, <2>2, <2>3
<1>7. ASSUME NEW w \in Workers, WorkerRuns(w), ~ClaimAndDispatch(w) PROVE Still
  <2>1. CASE WorkerOnly(w)
    BY <2>1 DEF WorkerOnly, Get, Drop, ReadState, ReadError, WriteState, Record, EngineIdle,
                recordVars, queueVars, stopVars
  <2>2. CASE StartLoop(w) \/ BeginItem(w) \/ EndItem(w) \/ BeltDone(w)
    BY <2>2 DEF StartLoop, BeginItem, EndItem, BeltDone, vars, recordVars, queueVars, stopVars
  <2>3. CASE BeltFails(w) \/ Finish(w) \/ Fail(w)
    BY <2>3 DEF BeltFails, Finish, Fail, EngineReturns, queueVars, stopVars
  <2> QED BY <1>7, <2>1, <2>2, <2>3 DEF WorkerRuns
<1> QED BY <1>1, <1>2, <1>3, <1>4, <1>5, <1>6, <1>7 DEF StopNext

-----------------------------------------------------------------------------
(* The work that was done *)

\* A step that neither advances an engine nor decides anything.
LEMMA WorkStays ==
    ASSUME StopInv, UNCHANGED <<phase, processed, stopEvent>>,
           \A v \in Workers : workerPc'[v] \in Executing =>
              /\ workerPc'[v] = workerPc[v] /\ workerJob'[v] = workerJob[v]
              /\ verdict'[v] = verdict[v] /\ state'[workerJob[v]] = state[workerJob[v]],
           \A j \in Jobs : state'[j] = "completed" => state[j] = "completed",
           \A j \in Jobs : ~started'[j] => ~started[j]
    PROVE  Work'
<1>1. \A j : (PollsRecord(j)' <=> PollsRecord(j)) /\ (PhasesDone(j)' <=> PhasesDone(j))
             /\ (AllDone(j)' <=> AllDone(j))
  BY DEF PollsRecord, PhasesDone, AllDone
<1>2. ASSUME NEW v \in Workers, workerPc'[v] \in Executing PROVE WorkOf(v, workerJob[v])'
  BY <1>1, <1>2 DEF StopInv, Work, WorkOf
<1>3. RecordFlagCancels'
  BY DEF StopInv, Work, RecordFlagCancels, PollsRecord
<1> QED BY <1>2, <1>3 DEF StopInv, Work

\* The worker that executes a job goes on with it.
LEMMA WorkerGoesOn ==
    ASSUME StopInv, NEW w \in Workers, workerPc[w] \in Executing,
           workerJob' = workerJob, started' = started,
           \A v \in Workers : v # w => workerPc'[v] = workerPc[v],
           WorkOf(w, workerJob[w])',
           \A j \in Jobs : j # workerJob[w] => phase'[j] = phase[j],
           RecordFlagCancels'
    PROVE  Work'
<1>1. /\ \A v \in Workers : v # w => workerPc'[v] \notin Executing
      /\ started[workerJob[w]]
  BY HoldsItsJob DEF StopInv, Executing
<1> QED BY <1>1 DEF StopInv, Work

\* The engine comes back: with an exception, or after its last phase, at the
\* end of the items or because it saw the stop.
LEMMA EngineBackInv ==
    ASSUME StopInv, NEW w \in Workers, BeltFails(w) \/ Finish(w) \/ Fail(w)
    PROVE  Work'
<1> DEFINE j == workerJob[w]
<1>1. workerPc[w] = "running" /\ j \in Jobs
  BY HoldsItsJob DEF StopInv, BeltFails, Finish, Fail, Executing
<1>2. /\ UNCHANGED <<state, stopEvent, started, phase, processed, workerJob>>
      /\ workerPc' = [workerPc EXCEPT ![w] = "read_state"]
      /\ \/ verdict' = [verdict EXCEPT ![w] = "failed"]
         \/ Finish(w) /\ verdict' = [verdict EXCEPT ![w] = "completed"]
  BY DEF BeltFails, Finish, Fail, EngineReturns
<1>3. WorkOf(w, j) /\ j' = j
  BY <1>1, <1>2 DEF StopInv, Work, Executing
<1>4. workerPc'[w] = "read_state" /\ \A v \in Workers : v # w => workerPc'[v] = workerPc[v]
  BY <1>2 DEF StopInv, IInv, TypeOK
<1>5. ASSUME PollsRecord(j), verdict'[w] = "completed"
      PROVE  stopEvent[j] = "set" \/ AllDone(j)
  <2>1. Finish(w)
    BY <1>2, <1>5 DEF StopInv, IInv, TypeOK
  <2>2. phase[j] = Len(Plan[j]) /\ (StopVisible(j) \/ processed[<<j, phase[j]>>] = Items)
    BY <2>1 DEF Finish, LoopDone, LastPhase, Event
  <2>3. stopEvent[j] = "set" \/ PhasesDone(j)
    BY <1>1, <1>3, <1>5 DEF WorkOf
  <2>4. phase[j] \in DOMAIN Plan[j] /\ Engine(j) = "adapter"
    BY <1>1, <1>5 DEF StopInv, EngineTypes, PollsRecord, Engine
  <2>5. CASE StopVisible(j)
    BY <2>4, <2>5 DEF StopVisible
  <2>6. CASE PhasesDone(j) /\ processed[<<j, phase[j]>>] = Items
    <3>1. \A p \in DOMAIN Plan[j] : p < phase[j] \/ p = phase[j]
      BY <1>1, <2>2, PlanFacts
    <3> QED BY <2>6, <3>1 DEF PhasesDone, AllDone
  <2> QED BY <2>2, <2>3, <2>5, <2>6
<1>6. verdict'[w] \in {"completed", "failed"}
  BY <1>2 DEF StopInv, IInv, TypeOK
<1>7. WorkOf(w, j)'
  BY <1>1, <1>2, <1>3, <1>4, <1>5, <1>6 DEF WorkOf, PollsRecord, AllDone
<1>8. RecordFlagCancels'
  BY <1>2 DEF StopInv, Work, RecordFlagCancels, PollsRecord
<1> QED BY <1>1, <1>2, <1>4, <1>7, <1>8, WorkerGoesOn DEF Executing

\* One more item is processed, or the first engine of two is over.
LEMMA EngineGoesOnInv ==
    ASSUME StopInv, NEW w \in Workers, EndItem(w) \/ BeltDone(w)
    PROVE  Work'
<1> DEFINE j == workerJob[w]
<1>1. workerPc[w] = "running" /\ j \in Jobs
  BY HoldsItsJob DEF StopInv, EndItem, BeltDone, Executing
<1>2. UNCHANGED <<state, stopEvent, started, workerJob, workerPc, verdict>>
  BY DEF EndItem, BeltDone, vars, recordVars, workerVars
<1>3. WorkOf(w, j) /\ state[j] # "completed"
  BY <1>1 DEF StopInv, Work, WorkOf, Executing
<1>4. /\ \A i \in Jobs : i # j => phase'[i] = phase[i]
      /\ \A i \in Jobs, p \in {1, 2} : i # j \/ p < phase[j] =>
            processed'[<<i, p>>] = processed[<<i, p>>]
  <2>1. CASE EndItem(w)
    <3>1. phase' = phase /\ processed' = [processed EXCEPT ![<<j, phase[j]>>] = @ + 1]
      BY <2>1 DEF EndItem, Event
    <3>2. \A i \in Jobs, p \in {1, 2} : <<i, p>> \in EventIds
      BY DEF EventIds
    <3>3. phase[j] \in {1, 2}
      BY <1>1 DEF StopInv, EngineTypes
    <3>4. \A i \in Jobs, p \in {1, 2} : i # j \/ p < phase[j] => <<i, p>> # <<j, phase[j]>>
      BY <3>3
    <3> QED BY <3>1, <3>2, <3>4 DEF StopInv, EngineTypes
  <2>2. CASE BeltDone(w)
    BY <2>2 DEF BeltDone, StopInv, EngineTypes
  <2> QED BY <2>1, <2>2
<1>5. ASSUME PollsRecord(j) PROVE stopEvent[j] = "set" \/ PhasesDone(j)'
  <2>1. stopEvent[j] = "set" \/ PhasesDone(j)
    BY <1>1, <1>3, <1>5 DEF WorkOf
  <2>2. CASE PhasesDone(j) /\ EndItem(w)
    <3>1. phase' = phase
      BY <2>2 DEF EndItem
    <3> QED BY <1>1, <1>2, <1>4, <2>2, <3>1, PlanFacts DEF PhasesDone
  <2>3. CASE PhasesDone(j) /\ BeltDone(w)
    <3>1. /\ phase' = [phase EXCEPT ![j] = @ + 1] /\ processed' = processed
          /\ StopVisible(j) \/ processed[<<j, phase[j]>>] = Items
      BY <2>3 DEF BeltDone, LoopDone, Event
    <3>2. phase[j] \in DOMAIN Plan[j] /\ Engine(j) = "adapter" /\ phase[j] \in {1, 2}
      BY <1>1, <1>5 DEF StopInv, EngineTypes, PollsRecord, Engine
    <3>3. CASE StopVisible(j)
      BY <3>2, <3>3 DEF StopVisible
    <3>4. CASE processed[<<j, phase[j]>>] = Items
      <4>1. phase'[j] = phase[j] + 1
        BY <1>1, <3>1 DEF StopInv, EngineTypes
      <4>2. \A p \in DOMAIN Plan[j] : p < phase[j] + 1 => p < phase[j] \/ p = phase[j]
        BY <1>1, <3>2, PlanFacts
      <4> QED BY <1>2, <2>3, <3>1, <3>4, <4>1, <4>2 DEF PhasesDone
    <3> QED BY <3>1, <3>3, <3>4
  <2> QED BY <2>1, <2>2, <2>3
<1>6. WorkOf(w, j)'
  BY <1>1, <1>2, <1>3, <1>5 DEF WorkOf, PollsRecord
<1>7. RecordFlagCancels'
  <2> SUFFICES ASSUME NEW i \in Jobs, PollsRecord(i), state[i] = "completed",
                      NEW p \in DOMAIN Plan[i]
               PROVE  processed'[<<i, p>>] = Items
    BY <1>2 DEF RecordFlagCancels, PollsRecord
  <2>1. processed[<<i, p>>] = Items /\ i # j /\ p \in {1, 2}
    BY <1>3, PlanFacts DEF StopInv, Work, RecordFlagCancels
  <2> QED BY <1>4, <2>1
<1> QED BY <1>1, <1>2, <1>4, <1>6, <1>7, WorkerGoesOn DEF Executing

\* A record is claimed with no flag set and no phase behind it.
LEMMA ClaimWork ==
    ASSUME StopInv, NEW w \in Workers, ClaimAndDispatch(w)
    PROVE  Work'
<1> DEFINE j == workerJob[w]
<1>1. /\ j \in Jobs /\ ~started[j] /\ workerPc[w] = "got"
      /\ \A v \in Workers : v # w => workerPc[v] = "unborn"
  BY DEF ClaimAndDispatch, Claim, StopInv, IInv, WorkerHolds, Held, Waiting, OneWorker
<1>2. /\ workerPc' = [workerPc EXCEPT ![w] = "running"]
      /\ stopEvent' = [stopEvent EXCEPT ![j] = "clear"]
      /\ state' = [state EXCEPT ![j] = "running"]
      /\ started' = [started EXCEPT ![j] = TRUE]
      /\ UNCHANGED <<phase, processed, workerJob, verdict>>
  BY DEF ClaimAndDispatch, Claim
<1>3. /\ workerPc'[w] = "running" /\ stopEvent'[j] = "clear" /\ state'[j] = "running"
      /\ \A v \in Workers : v # w => workerPc'[v] \notin Executing
      /\ \A i \in Jobs : i # j => state'[i] = state[i] /\ started'[i] = started[i]
  BY <1>1, <1>2 DEF StopInv, IInv, TypeOK, Executing
<1>4. PhasesDone(j)'
  <2>1. phase'[j] = 1
    BY <1>1, <1>2 DEF StopInv, Work
  <2> QED BY <1>1, <1>2, <2>1, PlanFacts DEF PhasesDone
<1>5. WorkOf(w, j)'
  BY <1>2, <1>3, <1>4 DEF WorkOf
<1>6. RecordFlagCancels'
  BY <1>2, <1>3 DEF StopInv, Work, RecordFlagCancels, PollsRecord
<1>7. \A i \in Jobs : ~started'[i] => ~started[i]
  BY <1>2 DEF StopInv, IInv, TypeOK
<1> QED BY <1>2, <1>3, <1>5, <1>6, <1>7 DEF StopInv, Work

\* The worker decides on the terminal state from what it reads, and writes it.
LEMMA DecideWork ==
    ASSUME StopInv, NEW w \in Workers, ReadState(w) \/ ReadError(w) \/ WriteState(w),
           EngineIdle
    PROVE  Work'
<1> DEFINE j == workerJob[w]
<1>1. workerPc[w] \in Executing /\ j \in Jobs
  BY HoldsItsJob DEF StopInv, ReadState, ReadError, WriteState, Executing
<1>2. WorkOf(w, j)
  BY <1>1 DEF StopInv, Work
<1>3. UNCHANGED <<phase, processed, stopEvent, started, workerJob>>
  BY DEF ReadState, ReadError, WriteState, EngineIdle, engineVars, recordVars
<1>4. CASE ReadState(w)
  <2>1. /\ workerPc[w] = "read_state" /\ state' = state
        /\ \/ /\ state[j] = "stopping"
              /\ workerPc' = [workerPc EXCEPT ![w] = "write_state"]
              /\ verdict' = [verdict EXCEPT ![w] = "cancelled"]
           \/ /\ state[j] # "stopping" /\ verdict' = verdict
              /\ workerPc' = [workerPc EXCEPT ![w] =
                    IF verdict[w] = "failed" THEN "write_state" ELSE "read_error"]
    BY <1>4 DEF ReadState, StopSeen, recordVars
  <2>2. \A v \in Workers : v # w => workerPc'[v] = workerPc[v]
    BY <2>1 DEF StopInv, IInv, TypeOK
  <2>3. \/ workerPc'[w] = "write_state" /\ verdict'[w] = "cancelled"
        \/ workerPc'[w] = "write_state" /\ verdict'[w] = "failed"
        \/ workerPc'[w] = "read_error" /\ state[j] # "stopping" /\ verdict[w] # "failed"
    BY <2>1 DEF StopInv, IInv, TypeOK
  <2>4. PollsRecord(j) /\ workerPc'[w] = "read_error" => AllDone(j)
    BY <1>2, <2>1, <2>3 DEF WorkOf
  <2>5. WorkOf(w, j)'
    BY <1>3, <2>3, <2>4 DEF WorkOf, PollsRecord, AllDone
  <2>6. RecordFlagCancels'
    BY <1>3, <2>1 DEF StopInv, Work, RecordFlagCancels, PollsRecord
  <2> QED BY <1>1, <1>3, <2>2, <2>5, <2>6, WorkerGoesOn
<1>5. CASE ReadError(w)
  <2>1. /\ workerPc[w] = "read_error" /\ state' = state
        /\ workerPc' = [workerPc EXCEPT ![w] = "write_state"]
    BY <1>5 DEF ReadError, recordVars
  <2>2. \A v \in Workers : v # w => workerPc'[v] = workerPc[v]
    BY <2>1 DEF StopInv, IInv, TypeOK
  <2>3. workerPc'[w] = "write_state"
    BY <2>1 DEF StopInv, IInv, TypeOK
  <2>4. WorkOf(w, j)'
    BY <1>2, <1>3, <2>1, <2>3 DEF WorkOf, PollsRecord, AllDone
  <2>5. RecordFlagCancels'
    BY <1>3, <2>1 DEF StopInv, Work, RecordFlagCancels, PollsRecord
  <2> QED BY <1>1, <1>3, <2>2, <2>4, <2>5, WorkerGoesOn
<1>6. CASE WriteState(w)
  <2>1. /\ workerPc[w] = "write_state"
        /\ state' = [state EXCEPT ![j] = verdict[w]]
        /\ workerPc' = [workerPc EXCEPT ![w] = "record"]
    BY <1>6 DEF WriteState
  <2>2. \A v \in Workers : v # w => workerPc'[v] = workerPc[v]
    BY <2>1 DEF StopInv, IInv, TypeOK
  <2>3. workerPc'[w] = "record"
    BY <2>1 DEF StopInv, IInv, TypeOK
  <2>4. WorkOf(w, j)'
    BY <1>3, <2>3 DEF WorkOf
  <2>5. PollsRecord(j) /\ verdict[w] = "completed" => AllDone(j)
    BY <1>2, <2>1 DEF WorkOf
  <2>6. RecordFlagCancels'
    <3>1. \A i \in Jobs : state'[i] = IF i = j THEN verdict[w] ELSE state[i]
      BY <2>1 DEF StopInv, IInv, TypeOK
    <3> QED BY <1>3, <2>5, <3>1 DEF StopInv, Work, RecordFlagCancels, PollsRecord, AllDone
  <2> QED BY <1>1, <1>3, <2>2, <2>4, <2>6, WorkerGoesOn
<1> QED BY <1>4, <1>5, <1>6

\* A stop that marks the job it saw running.
LEMMA MarkWork ==
    ASSUME StopInv, NEW t \in Stoppers, MarkStopping(t), EngineIdle
    PROVE  Work'
<1>1. /\ state' = [state EXCEPT ![current] = "stopping"]
      /\ stopEvent' = [stopEvent EXCEPT ![current] = "set"]
      /\ UNCHANGED <<phase, processed, started, workerPc, workerJob, verdict>>
      /\ current \in Jobs
  BY DEF MarkStopping, StopFlagSet, EngineIdle, engineVars, workerVars,
         StopInv, IInv, CurrentClaimed
<1>2. state'[current] = "stopping" /\ stopEvent'[current] = "set"
      /\ \A i \in Jobs : i # current => state'[i] = state[i]
  BY <1>1 DEF StopInv, IInv, TypeOK
<1>3. ASSUME NEW w \in Workers, workerPc'[w] \in Executing PROVE WorkOf(w, workerJob[w])'
  <2>1. workerJob[w] = current /\ WorkOf(w, current)
    BY <1>1, <1>3, HoldsItsJob DEF StopInv, Work
  <2> QED BY <1>1, <1>2, <2>1 DEF WorkOf, PollsRecord, AllDone
<1>4. RecordFlagCancels'
  BY <1>1, <1>2 DEF StopInv, Work, RecordFlagCancels, PollsRecord
<1> QED BY <1>1, <1>3, <1>4 DEF StopInv, Work

LEMMA WorkStepInv ==
    ASSUME StopInv, [StopNext]_allVars
    PROVE  Work'
<1>1. ASSUME NEW j \in Jobs, SubmitStep(j), EngineIdle PROVE Work'
  <2>1. UNCHANGED <<phase, processed, stopEvent, started, workerJob, verdict>>
    BY <1>1 DEF SubmitStep, Enlist, PutInInbox, EnsureWorker, EngineIdle, engineVars,
                recordVars, workerVars
  <2>2. \A v \in Workers : workerPc'[v] \in Executing => workerPc'[v] = workerPc[v]
    BY <1>1 DEF SubmitStep, Enlist, PutInInbox, EnsureWorker, workerVars, Executing,
                StopInv, IInv, TypeOK
  <2>3. \A i \in Jobs : \/ state'[i] = state[i]
                        \/ state[i] = "new" /\ state'[i] = "queued"
    BY <1>1 DEF SubmitStep, Enlist, PutInInbox, EnsureWorker, recordVars,
                StopInv, IInv, TypeOK, BeforeClaim
  <2>4. \A v \in Workers : workerPc[v] \in Executing =>
           workerJob[v] \in Jobs /\ state[workerJob[v]] # "new"
    BY HoldsItsJob DEF StopInv, IInv, BeforeClaim
  <2> QED BY <2>1, <2>2, <2>3, <2>4, WorkStays
<1>2. ASSUME NEW w \in Workers, Get(w) \/ Drop(w) \/ Record(w), EngineIdle PROVE Work'
  <2>1. UNCHANGED <<phase, processed, stopEvent, started, state, verdict>>
    BY <1>2 DEF Get, Drop, Record, EngineIdle, engineVars, recordVars
  <2>2. \A v \in Workers : workerPc'[v] \in Executing =>
           workerPc'[v] = workerPc[v] /\ workerJob'[v] = workerJob[v]
    BY <1>2 DEF Get, Drop, Record, Executing, StopInv, IInv, TypeOK
  <2> QED BY <2>1, <2>2, WorkStays
<1>3. ASSUME NEW w \in Workers, WorkerRuns(w) PROVE Work'
  <2>1. CASE WorkerOnly(w)
    BY <1>2, <2>1, DecideWork DEF WorkerOnly
  <2>2. CASE StartLoop(w) \/ BeginItem(w)
    <3>1. UNCHANGED <<phase, processed, vars>>
      BY <2>2 DEF StartLoop, BeginItem
    <3> QED BY <3>1, WorkStays DEF vars, recordVars, workerVars
  <2> QED BY <1>3, <2>1, <2>2, ClaimWork, EngineGoesOnInv, EngineBackInv DEF WorkerRuns
<1>4. ASSUME NEW t \in Stoppers, NEW hard \in BOOLEAN, RequestStop(t, hard) PROVE Work'
  <2>1. /\ UNCHANGED <<phase, processed, stopEvent, started, workerPc, workerJob, verdict>>
        /\ state' = [j \in Jobs |-> IF j \in Range(pending) THEN "cancelled" ELSE state[j]]
    BY <1>4 DEF RequestStop, ClearQueue, engineVars, workerVars
  <2>2. \A v \in Workers : workerPc[v] \in Executing =>
           workerJob[v] \in Jobs /\ workerJob[v] \notin Range(pending)
    BY HoldsItsJob DEF StopInv, IInv, BeforeClaim, QueuedIsListed
  <2> QED BY <2>1, <2>2, WorkStays
<1>5. ASSUME \/ \E t \in Stoppers : Signal(t)
             \/ \E e \in EventIds : KeyboardStep(e)
             \/ UNCHANGED allVars
      PROVE  Work'
  <2>1. UNCHANGED <<phase, processed, recordVars, workerVars>>
    BY <1>5 DEF Signal, SignalEngine, KeyboardStep, Register, Unregister, allVars,
                engineVars, vars
  <2> QED BY <2>1, WorkStays DEF recordVars, workerVars
<1> QED BY <1>1, <1>3, <1>4, <1>5, MarkWork DEF StopNext

\* The invariant of the queue, the engines, the flags and the work holds.
THEOREM StopInductive == StopSpec => []StopInv
<1>1. StopInv /\ [StopNext]_allVars => StopInv'
  BY StopStepIsQueueStep, NextInv, EngineStepInv, FlagsStepInv, WorkStepInv DEF StopInv
<1> QED BY StopInitInv, <1>1, PTL DEF StopSpec

\* RecordFlagCancels: a job that polls its own record and ends "completed" did
\* all its work, whenever the stops come.
THEOREM CompletedIsComplete == StopSpec => []RecordFlagCancels
  BY StopInductive, PTL DEF StopInv, Work

\* RecordFlagHalts: once a stop has returned, such a job begins no further item.
THEOREM StopIsHeeded == StopSpec => RecordFlagHalts
<1>1. ASSUME StopInv, [StopNext]_allVars, NEW j \in Jobs,
             PollsRecord(j), j \in stopped, enginePc[j] # "item"
      PROVE  enginePc'[j] # "item"
  <2>1. stopEvent[j] = "set" /\ Engine(j) = "adapter"
    BY <1>1 DEF StopInv, Flags, EngineTypes, PollsRecord, Engine
  <2>2. CASE \E w \in Workers : WorkerRuns(w)
    <3>1. PICK w \in Workers : WorkerRuns(w)
      BY <2>2
    <3>2. ~(BeginItem(w) /\ workerJob[w] = j)
      BY <2>1 DEF BeginItem, StopVisible
    <3>3. \/ enginePc' = enginePc
          \/ \E to \in {"off", "setup", "loop"} :
                enginePc' = [enginePc EXCEPT ![workerJob[w]] = to]
          \/ BeginItem(w) /\ enginePc' = [enginePc EXCEPT ![workerJob[w]] = "item"]
      BY <3>1 DEF WorkerRuns, WorkerOnly, ClaimAndDispatch, StartLoop, BeginItem, EndItem,
                  BeltDone, BeltFails, Finish, Fail, EngineIdle, engineVars
    <3> QED BY <1>1, <3>2, <3>3 DEF StopInv, EngineTypes
  <2>3. CASE ~\E w \in Workers : WorkerRuns(w)
    BY <1>1, <2>3 DEF StopNext, EngineIdle, RequestStop, Signal, KeyboardStep, Register,
                      Unregister, allVars, engineVars
  <2> QED BY <2>2, <2>3
<1>2. StopInv /\ [StopNext]_allVars =>
         \A j \in Jobs : PollsRecord(j) /\ j \in stopped /\ enginePc[j] # "item" =>
                            enginePc'[j] # "item"
  BY <1>1
<1> QED BY StopInductive, <1>2, PTL DEF RecordFlagHalts, StopSpec
=============================================================================
