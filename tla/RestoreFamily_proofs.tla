------------------------ MODULE RestoreFamily_proofs ------------------------
(***************************************************************************)
(* Proofs about what moves an account's data: the restore engine           *)
(* (RestoreEngine.tla), the transfer by adapters (AdapterTransfer.tla) and *)
(* the direct transfer (DirectTransfer.tla).  Their definitions have       *)
(* different names, as MCRestoreFamily needs too, so one module holds the  *)
(* theorems about all three, for every value of the constants their        *)
(* assumptions admit.                                                      *)
(***************************************************************************)
EXTENDS RestoreSweeps, DirectTransfer, FiniteSetTheorems, TLAPS

-----------------------------------------------------------------------------
(* The restore engine: where a run is                                      *)

(* The variables over libraries and handles are the functions they seem.   *)
Shape(f) == f = [l \in Libraries |-> [h \in Handles |-> f[l][h]]]
OfUsers(f) == f = [u \in Users |-> [i \in Items |-> f[u][i]]]
Phases == Kinds \cup {"off", "purge", "done"}
Still == {"off", "done"}

Shapes ==
    /\ job \in Jobs /\ lib = [l \in Libraries |-> lib[l]] /\ cached = [l \in Libraries |-> cached[l]]
    /\ Shape(phase) /\ Shape(todo) /\ Shape(found) /\ Shape(existing) /\ Shape(cur)
    /\ views \in [Users -> [Items -> Nat]] /\ OfUsers(offset) /\ OfUsers(rating)
    /\ \A l \in Libraries, h \in Handles : phase[l][h] \in Phases

(* The containers: an id is one container's, and was given by the server.  *)
Boxed(b) ==
    b = [id |-> b.id, kind |-> b.kind, owner |-> b.owner, shelf |-> b.shelf, title |-> b.title,
         members |-> b.members]
BoxInv ==
    /\ lastId \in Nat
    /\ \A b \in boxes : Boxed(b) /\ b.id \in 1 .. lastId
    /\ \A b, c \in boxes : b.id = c.id => b = c

(* Where the tasks and the sweep are.                                      *)
LibOk(x, stages) ==
    /\ x \in {"queued", "owner", "users", "done", "cancelled"}
    /\ x = "queued" => \A h \in Handles : stages[h] = "off"
    /\ x = "owner" => \A h \in Handles \ {Owner} : stages[h] = "off"
    /\ x = "users" => stages[Owner] = "done"
    /\ x \in {"done", "cancelled"} => \A h \in Handles : stages[h] \in Still
    /\ \A h \in Handles \ {Owner} : stages[h] # "off" => Selected(h)
LibInv == \A l \in Libraries : LibOk(lib[l], phase[l])
SweepInv ==
    /\ sweep = [on |-> sweep.on, users |-> sweep.users, left |-> sweep.left]
    /\ sweep.on \in {"before", "list", "delete", "after"}
    /\ sweep.on # "before" => Ended
    /\ sweep.on \in {"list", "delete"} => Replace
    /\ sweep.on # "delete" => sweep.left = {}
    /\ sweep.left \subseteq 1 .. lastId /\ written \subseteq 1 .. lastId

(* What a phase has left to do, the containers it found, and what is at    *)
(* hand in it.                                                             *)
LeftInv ==
    \A l \in Libraries, h \in Handles :
        /\ phase[l][h] \in Kinds => todo[l][h] \subseteq Rows(l, h, phase[l][h])
        /\ phase[l][h] = "purge" => /\ todo[l][h] \subseteq existing[l][h]
                                    /\ ~Replace => todo[l][h] = {}
FoundInv ==
    \A l \in Libraries, h \in Handles :
        /\ existing[l][h] \subseteq 1 .. lastId
        /\ \A b \in boxes : b.id \in existing[l][h] =>
              /\ phase[l][h] \in {"playlists", "collections", "purge"} => b.owner = DestUser(h)
              /\ phase[l][h] = "playlists" => b.kind = "playlists" /\ b.shelf = Family[l]
              /\ phase[l][h] \in {"collections", "purge"} => b.kind = "collections" /\ b.shelf = l

Boxing == {"playlists", "collections"}
HandOk(l, h, c) ==
    \/ c = NoWork
    \/ c = [is |-> "resolving", cold |-> c.cold] /\ phase[l][h] \in Boxing
    \/ /\ c = [is |-> "item", item |-> c.item, reset |-> c.reset, add |-> c.add, place |-> c.place,
               offset |-> c.offset]
       /\ phase[l][h] = "watch" /\ (c.reset \/ c.add > 0 \/ c.place) /\ (~Replace => ~c.reset)
    \/ /\ c = [is |-> "new", title |-> c.title, add |-> c.add]
       /\ phase[l][h] \in Boxing
       /\ \E r \in Rows(l, h, phase[l][h]) : r.title = c.title /\ c.add \subseteq r.members
    \/ /\ c = [is |-> "box", id |-> c.id, add |-> c.add, remove |-> c.remove]
       /\ phase[l][h] \in Boxing /\ (~Replace => c.remove = {})
HandInv == \A l \in Libraries, h \in Handles : HandOk(l, h, cur[l][h])

RestoreInv == Shapes /\ BoxInv /\ LibInv /\ SweepInv /\ LeftInv /\ FoundInv /\ HandInv

LEMMA SetShape ==
    ASSUME NEW f, Shape(f), NEW l \in Libraries, NEW h \in Handles, NEW x
    PROVE  /\ Shape(Set(f, l, h, x)) /\ Set(f, l, h, f[l][h]) = f
           /\ \A m \in Libraries, g \in Handles :
                 Set(f, l, h, x)[m][g] = IF m = l /\ g = h THEN x ELSE f[m][g]
<1>1. \A m \in Libraries, g \in Handles :
        Set(f, l, h, x)[m][g] = IF m = l /\ g = h THEN x ELSE f[m][g]
  BY DEF Set, Shape
<1>2. Shape(Set(f, l, h, x))
  BY DEF Set, Shape
<1>3. Set(f, l, h, f[l][h]) = f
  BY DEF Set, Shape
<1> QED
  BY <1>1, <1>2, <1>3

LEMMA SameJob ==
    ASSUME job' = job
    PROVE  /\ \A h : DestUser(h)' = DestUser(h) /\ Selected(h)' = Selected(h)
           /\ \A l, h, k : Rows(l, h, k)' = Rows(l, h, k)
           /\ Replace' = Replace
BY DEF DestUser, Selected, Rows, Replace

(* The containers change, but none of them becomes another one.            *)
SameBox(b, c) ==
    b.kind = c.kind /\ b.owner = c.owner /\ b.shelf = c.shelf /\ b.title = c.title
Renewed ==
    /\ lastId' \in Nat /\ lastId' >= lastId
    /\ \A c \in boxes' : /\ Boxed(c)
                         /\ \/ \E b \in boxes : b.id = c.id /\ SameBox(b, c)
                            \/ c.id = lastId' /\ lastId' > lastId
    /\ \A b, c \in boxes' : b.id = c.id => b = c

LEMMA RenewedKeeps ==
    ASSUME BoxInv, SweepInv, FoundInv, Renewed, UNCHANGED <<job, phase, existing>>
    PROVE  BoxInv' /\ FoundInv'
<1>1. 1 .. lastId \subseteq 1 .. lastId'
  BY DEF BoxInv, Renewed
<1>2. BoxInv'
  BY DEF BoxInv, Renewed
<1>3. ASSUME NEW l \in Libraries, NEW h \in Handles, NEW c \in boxes', c.id \in existing[l][h]
      PROVE  \E b \in boxes : b.id = c.id /\ SameBox(b, c)
  BY <1>3 DEF BoxInv, FoundInv, Renewed
<1>4. FoundInv'
  BY <1>1, <1>3, SameJob DEF FoundInv, SameBox
<1> QED
  BY <1>2, <1>4

LEMMA LeftShrinks ==
    ASSUME LeftInv, UNCHANGED <<job, phase, existing>>,
           \A l \in Libraries, h \in Handles : todo'[l][h] \subseteq todo[l][h]
    PROVE  LeftInv'
<1> SUFFICES ASSUME NEW l \in Libraries, NEW h \in Handles
             PROVE  /\ phase[l][h] \in Kinds => todo'[l][h] \subseteq Rows(l, h, phase[l][h])
                    /\ phase[l][h] = "purge" => todo'[l][h] \subseteq existing[l][h]
                    /\ phase[l][h] = "purge" /\ ~Replace => todo'[l][h] = {}
  BY DEF LeftInv, Rows, Replace
<1> QED
  BY DEF LeftInv

(* A turn of one user's phase in one library.                              *)
LEMMA TurnKeeps ==
    ASSUME RestoreInv, NEW l \in Libraries, NEW h \in Handles, NEW c, HandOk(l, h, c),
           cur' = Set(cur, l, h, c), NEW gone, todo' = Set(todo, l, h, todo[l][h] \ gone),
           Shape(found'), Renewed, SweepInv', UNCHANGED <<job, cached, lib, phase, existing>>,
           views' \in [Users -> [Items -> Nat]], OfUsers(offset'), OfUsers(rating')
    PROVE  RestoreInv'
<1> USE DEF RestoreInv
<1>1. Shapes'
  BY SetShape DEF Shapes
<1>2. BoxInv' /\ FoundInv'
  BY RenewedKeeps
<1>3. LibInv'
  BY SameJob DEF LibInv, LibOk
<1>4. LeftInv'
  <2>1. \A m \in Libraries, g \in Handles : todo'[m][g] \subseteq todo[m][g]
    BY SetShape DEF Shapes
  <2> QED BY <2>1, LeftShrinks
<1>5. HandInv'
  <2>1. \A m \in Libraries, g \in Handles : \A d : HandOk(m, g, d) => HandOk(m, g, d)'
    BY SameJob DEF HandOk
  <2>2. \A m \in Libraries, g \in Handles : cur'[m][g] = IF m = l /\ g = h THEN c ELSE cur[m][g]
    BY SetShape DEF Shapes
  <2>3. \A m \in Libraries, g \in Handles : HandOk(m, g, cur'[m][g])
    BY <2>2 DEF HandInv
  <2> QED BY <2>1, <2>3 DEF HandInv
<1> QED
  BY <1>1, <1>2, <1>3, <1>4, <1>5

LEMMA BoxesStay == BoxInv /\ UNCHANGED <<boxes, lastId>> => Renewed
BY DEF BoxInv, Renewed, SameBox

LEMMA SweepStays ==
    ASSUME BoxInv, SweepInv, UNCHANGED <<sweep, lib, job>>, lastId' \in Nat, lastId' >= lastId,
           written' \subseteq 1 .. lastId'
    PROVE  SweepInv'
<1>1. 1 .. lastId \subseteq 1 .. lastId'
  BY DEF BoxInv
<1>2. Ended' = Ended /\ Replace' = Replace
  BY DEF Ended, Replace
<1> QED
  BY <1>1, <1>2 DEF SweepInv

(* A turn that makes no container and leaves the tasks alone.              *)
LEMMA QuietTurnKeeps ==
    ASSUME RestoreInv, NEW l \in Libraries, NEW h \in Handles, NEW c, HandOk(l, h, c),
           cur' = Set(cur, l, h, c), NEW gone, todo' = Set(todo, l, h, todo[l][h] \ gone),
           Shape(found'), UNCHANGED <<rest, boxes, lastId>>, written' \subseteq 1 .. lastId,
           views' \in [Users -> [Items -> Nat]], OfUsers(offset'), OfUsers(rating')
    PROVE  RestoreInv'
<1>1. /\ UNCHANGED <<job, cached, lib, phase, existing, sweep>> /\ BoxInv /\ SweepInv
      /\ lastId' \in Nat /\ lastId' >= lastId
  BY DEF rest, RestoreInv, BoxInv
<1>2. SweepInv' /\ Renewed
  BY <1>1, SweepStays, BoxesStay
<1> QED
  BY <1>1, <1>2, TurnKeeps

LEMMA ShapesNow ==
    ASSUME RestoreInv
    PROVE  /\ Shape(todo) /\ Shape(cur) /\ Shape(found) /\ Shape(phase) /\ Shape(existing)
           /\ views \in [Users -> [Items -> Nat]] /\ OfUsers(offset) /\ OfUsers(rating)
           /\ written \subseteq 1 .. lastId /\ BoxInv
           /\ \A l \in Libraries, h \in Handles :
                 /\ todo = Set(todo, l, h, todo[l][h] \ {}) /\ cur = Set(cur, l, h, cur[l][h])
                 /\ HandOk(l, h, cur[l][h])
<1>1. /\ Shape(todo) /\ Shape(cur) /\ Shape(found) /\ Shape(phase) /\ Shape(existing)
      /\ views \in [Users -> [Items -> Nat]] /\ OfUsers(offset) /\ OfUsers(rating)
      /\ written \subseteq 1 .. lastId /\ BoxInv
  BY DEF RestoreInv, Shapes, SweepInv
<1>2. ASSUME NEW l \in Libraries, NEW h \in Handles
      PROVE  /\ todo = Set(todo, l, h, todo[l][h] \ {}) /\ cur = Set(cur, l, h, cur[l][h])
             /\ HandOk(l, h, cur[l][h])
  <2>1. todo[l][h] \ {} = todo[l][h]
    OBVIOUS
  <2>2. todo = Set(todo, l, h, todo[l][h]) /\ cur = Set(cur, l, h, cur[l][h])
    BY <1>1, SetShape
  <2> QED BY <2>1, <2>2 DEF RestoreInv, HandInv
<1> QED
  BY <1>1, <1>2

LEMMA ReadRowKeeps ==
    ASSUME RestoreInv, NEW l \in Libraries, NEW h \in Handles, NEW r, ReadRow(l, h, r)
    PROVE  RestoreInv'
<1> DEFINE seen == Seen(l, h, r.item)
           c == Left(Writes(r, seen.views, seen.offset))
<1>1. /\ todo' = Set(todo, l, h, todo[l][h] \ {r}) /\ cur[l][h] = NoWork /\ phase[l][h] = "watch"
      /\ UNCHANGED <<rest, boxes, lastId, found, written, views, offset, rating>>
      /\ UNCHANGED cur \/ cur' = Set(cur, l, h, c)
  BY DEF ReadRow, Took, Do, dest, ids
<1>2. HandOk(l, h, NoWork) /\ HandOk(l, h, c)
  <2>1. HandOk(l, h, NoWork)
    BY DEF HandOk
  <2> DEFINE w == Writes(r, seen.views, seen.offset)
  <2>2. /\ w = [is |-> "item", item |-> w.item, reset |-> w.reset, add |-> w.add,
                place |-> w.place, offset |-> w.offset]
        /\ ~Replace => ~w.reset
    BY DEF Writes
  <2> HIDE DEF w
  <2>3. HandOk(l, h, Left(w))
    BY <1>1, <2>2 DEF HandOk, Left
  <2> QED BY <2>1, <2>3 DEF w
<1>3. \E d : HandOk(l, h, d) /\ cur' = Set(cur, l, h, d)
  <2>1. cur = Set(cur, l, h, NoWork)
    BY <1>1, ShapesNow
  <2> HIDE DEF c
  <2> QED BY <1>1, <1>2, <2>1
<1> QED
  BY <1>1, <1>3, ShapesNow, QuietTurnKeeps

LEMMA Counted ==
    ASSUME NEW f \in [Users -> [Items -> Nat]], NEW u, NEW i
    PROVE  /\ [f EXCEPT ![u][i] = 0] \in [Users -> [Items -> Nat]]
           /\ [f EXCEPT ![u][i] = @ + 1] \in [Users -> [Items -> Nat]]
<1>1. CASE u \in Users /\ i \in Items
  BY <1>1
<1>2. CASE u \notin Users
  BY <1>2
<1>3. CASE u \in Users /\ i \notin Items
  <2>1. [f[u] EXCEPT ![i] = 0] = f[u] /\ [f[u] EXCEPT ![i] = @ + 1] = f[u]
    BY <1>3
  <2> QED BY <1>3, <2>1
<1> QED
  BY <1>1, <1>2, <1>3

LEMMA ItemReset ==
    ASSUME NEW i, NEW s, NEW a, NEW p, NEW o, NEW t
    PROVE  [[is |-> "item", item |-> i, reset |-> s, add |-> a, place |-> p, offset |-> o]
              EXCEPT !.reset = t]
           = [is |-> "item", item |-> i, reset |-> t, add |-> a, place |-> p, offset |-> o]
OBVIOUS

LEMMA WriteRowKeeps ==
    ASSUME RestoreInv, NEW l \in Libraries, NEW h \in Handles, WriteRow(l, h)
    PROVE  RestoreInv'
<1> DEFINE c == cur[l][h]
           d == DestUser(h)
<1>1. /\ c.is = "item" /\ UNCHANGED <<rest, todo, found, boxes, lastId, written, rating>>
  BY DEF WriteRow, ids, dest
<1>2. HandOk(l, h, c)
  BY ShapesNow
<1>3. /\ c = [is |-> "item", item |-> c.item, reset |-> c.reset, add |-> c.add,
              place |-> c.place, offset |-> c.offset]
      /\ phase[l][h] = "watch" /\ (~Replace => ~c.reset)
  BY <1>1, <1>2 DEF HandOk, NoWork
<1> HIDE DEF c
<1>4. /\ HandOk(l, h, NoWork) /\ HandOk(l, h, Left([c EXCEPT !.reset = FALSE]))
      /\ HandOk(l, h, Left([c EXCEPT !.add = @ - 1]))
  <2> DEFINE x == [c EXCEPT !.reset = FALSE]
             y == [c EXCEPT !.add = @ - 1]
  <2>0. PICK i, s, a, p, o :
            c = [is |-> "item", item |-> i, reset |-> s, add |-> a, place |-> p, offset |-> o]
    BY <1>3
  <2>1. PICK t : /\ x = [is |-> "item", item |-> i, reset |-> t, add |-> a, place |-> p,
                          offset |-> o]
                 /\ ~t
    <3>1. PICK t : ~t /\ x = [c EXCEPT !.reset = t]
      BY Zenon
    <3>2. x = [is |-> "item", item |-> i, reset |-> t, add |-> a, place |-> p, offset |-> o]
      BY <2>0, <3>1, ItemReset
    <3> QED BY <3>1, <3>2
  <2>2. /\ y = [is |-> "item", item |-> i, reset |-> s, add |-> a - 1, place |-> p, offset |-> o]
        /\ c.reset = s
    BY <2>0
  <2> HIDE DEF x, y
  <2>3. /\ x = [is |-> "item", item |-> x.item, reset |-> x.reset, add |-> x.add, place |-> x.place,
                offset |-> x.offset]
        /\ ~x.reset
    BY <2>1
  <2>4. /\ y = [is |-> "item", item |-> y.item, reset |-> y.reset, add |-> y.add, place |-> y.place,
                offset |-> y.offset]
        /\ ~Replace => ~y.reset
    BY <1>3, <2>2
  <2>5. HandOk(l, h, Left(x)) /\ HandOk(l, h, Left(y)) /\ HandOk(l, h, NoWork)
    BY <1>3, <2>3, <2>4 DEF HandOk, Left
  <2> QED BY <2>5 DEF x, y
<1>5. \E x : HandOk(l, h, x) /\ cur' = Set(cur, l, h, x)
  BY <1>4 DEF WriteRow, Do, c
<1>6. views' \in [Users -> [Items -> Nat]] /\ OfUsers(offset')
  <2>1. views \in [Users -> [Items -> Nat]] /\ OfUsers(offset)
    BY ShapesNow
  <2>2. \A u, i : /\ [views EXCEPT ![u][i] = 0] \in [Users -> [Items -> Nat]]
                  /\ [views EXCEPT ![u][i] = @ + 1] \in [Users -> [Items -> Nat]]
    BY <2>1, Counted
  <2>4. \A u, i, o : OfUsers([offset EXCEPT ![u][i] = o])
    BY <2>1 DEF OfUsers
  <2>3. \/ UNCHANGED <<views, offset>>
        \/ UNCHANGED offset /\ \E u, i : \/ views' = [views EXCEPT ![u][i] = 0]
                                        \/ views' = [views EXCEPT ![u][i] = @ + 1]
        \/ UNCHANGED views /\ \E u, i, o : offset' = [offset EXCEPT ![u][i] = o]
    BY DEF WriteRow, dest
  <2>5. CASE UNCHANGED <<views, offset>>
    BY <2>1, <2>5 DEF OfUsers
  <2>6. CASE UNCHANGED offset /\ \E u, i : \/ views' = [views EXCEPT ![u][i] = 0]
                                         \/ views' = [views EXCEPT ![u][i] = @ + 1]
    BY <2>1, <2>2, <2>6 DEF OfUsers
  <2>7. CASE UNCHANGED views /\ \E u, i, o : offset' = [offset EXCEPT ![u][i] = o]
    <3>1. PICK u, i, o : offset' = [offset EXCEPT ![u][i] = o]
      BY <2>7
    <3>2. OfUsers([offset EXCEPT ![u][i] = o])
      BY <2>4
    <3>3. OfUsers(offset')
      BY <3>1, <3>2 DEF OfUsers
    <3> QED BY <2>1, <2>7, <3>3
  <2> QED BY <2>3, <2>5, <2>6, <2>7
<1> QED
  BY <1>1, <1>5, <1>6, ShapesNow, QuietTurnKeeps

LEMMA RateRowKeeps ==
    ASSUME RestoreInv, NEW l \in Libraries, NEW h \in Handles, NEW r, RateRow(l, h, r)
    PROVE  RestoreInv'
<1>1. /\ todo' = Set(todo, l, h, todo[l][h] \ {r})
      /\ UNCHANGED <<rest, boxes, lastId, found, written, views, offset, cur>>
      /\ UNCHANGED rating \/ \E d, i, v : rating' = [rating EXCEPT ![d][i] = v]
  BY DEF RateRow, Took, ids
<1>2. OfUsers(rating')
  BY <1>1, ShapesNow DEF OfUsers
<1> QED
  BY <1>1, <1>2, ShapesNow, QuietTurnKeeps

LEMMA ResolveKeeps ==
    ASSUME RestoreInv, NEW l \in Libraries, NEW h \in Handles, Resolve(l, h)
    PROVE  RestoreInv'
<1>1. /\ UNCHANGED <<rest, todo, boxes, lastId, written, views, offset, rating>>
      /\ cur' = Set(cur, l, h, NoWork) /\ \E x : found' = Set(found, l, h, x)
  BY DEF Resolve, Do, ids, dest
<1>2. Shape(found') /\ HandOk(l, h, NoWork)
  BY <1>1, ShapesNow, SetShape DEF HandOk
<1> QED
  BY <1>1, <1>2, ShapesNow, QuietTurnKeeps

LEMMA TakeBoxKeeps ==
    ASSUME RestoreInv, NEW l \in Libraries, NEW h \in Handles, NEW r, TakeBox(l, h, r)
    PROVE  RestoreInv'
<1> DEFINE hit == r.members \cap found[l][h]
           new == [is |-> "new", title |-> r.title, add |-> hit]
           box(b) == [is |-> "box", id |-> b.id, add |-> hit \ b.members,
                      remove |-> IF Replace THEN b.members \ hit ELSE {}]
<1>1. /\ todo' = Set(todo, l, h, todo[l][h] \ {r}) /\ cur[l][h] = NoWork /\ r \in todo[l][h]
      /\ phase[l][h] \in Boxing /\ UNCHANGED <<rest, boxes, lastId, found, views, offset, rating>>
      /\ \/ UNCHANGED <<cur, written>>
         \/ UNCHANGED written /\ cur' = Set(cur, l, h, new)
         \/ \E b \in boxes : written' = written \cup {b.id} /\ cur' = Set(cur, l, h, box(b))
  BY DEF TakeBox, Took, Do, ids, dest, Boxing
<1>2. r \in Rows(l, h, phase[l][h])
  BY <1>1 DEF RestoreInv, LeftInv, Boxing, Kinds
<1>3. HandOk(l, h, NoWork) /\ HandOk(l, h, new) /\ \A b : HandOk(l, h, box(b))
  BY <1>1, <1>2 DEF HandOk
<1> HIDE DEF new, box
<1>4. \E x : HandOk(l, h, x) /\ cur' = Set(cur, l, h, x)
  BY <1>1, <1>3, ShapesNow
<1>5. written' \subseteq 1 .. lastId
  BY <1>1, ShapesNow DEF BoxInv
<1> QED
  BY <1>1, <1>4, <1>5, ShapesNow, QuietTurnKeeps

(* A turn that changes containers but none of the tasks.                   *)
LEMMA BoxTurnKeeps ==
    ASSUME RestoreInv, NEW l \in Libraries, NEW h \in Handles, NEW c, HandOk(l, h, c),
           cur' = Set(cur, l, h, c), NEW gone, todo' = Set(todo, l, h, todo[l][h] \ gone),
           UNCHANGED <<rest, found, views, offset, rating>>, Renewed, written' \subseteq 1 .. lastId'
    PROVE  RestoreInv'
<1>1. /\ UNCHANGED <<job, cached, lib, phase, existing, sweep>> /\ BoxInv /\ SweepInv
      /\ lastId' \in Nat /\ lastId' >= lastId
  BY DEF rest, RestoreInv, Renewed
<1>2. SweepInv'
  BY <1>1, SweepStays
<1>3. /\ Shape(found') /\ views' \in [Users -> [Items -> Nat]] /\ OfUsers(offset')
      /\ OfUsers(rating')
  BY ShapesNow
<1> QED
  BY <1>1, <1>2, <1>3, TurnKeeps

LEMMA NewKeeps ==
    ASSUME BoxInv, lastId' = lastId + 1, NEW k, NEW o, NEW s, NEW t, NEW m,
           boxes' = boxes \cup {[id |-> lastId', kind |-> k, owner |-> o, shelf |-> s, title |-> t,
                                members |-> m]}
    PROVE  Renewed
<1>1. PICK b : /\ boxes' = boxes \cup {b} /\ Boxed(b) /\ b.id = lastId'
  <2>1. LET b == [id |-> lastId', kind |-> k, owner |-> o, shelf |-> s, title |-> t, members |-> m]
        IN  Boxed(b) /\ b.id = lastId'
    BY DEF Boxed
  <2> QED BY <2>1
<1>2. lastId \in Nat /\ \A c \in boxes : Boxed(c) /\ c.id \in 1 .. lastId
  BY DEF BoxInv
<1>3. \A c, e \in boxes' : c.id = e.id => c = e
  BY <1>1, <1>2 DEF BoxInv
<1> QED
  BY <1>1, <1>2, <1>3 DEF Renewed, SameBox

(* What a create leaves: nothing, or one container of the row at hand.      *)
LEMMA MadeBox ==
    ASSUME NEW l \in Libraries, NEW h \in Handles, CreateBox(l, h)
    PROVE  \/ UNCHANGED <<boxes, lastId, written>>
           \/ /\ lastId' = lastId + 1 /\ written' = written \cup {lastId'}
              /\ \E s, m : boxes' = boxes \cup
                    {[id |-> lastId', kind |-> phase[l][h], owner |-> DestUser(h), shelf |-> s,
                      title |-> cur[l][h].title, members |-> m]}
<1> DEFINE s(m) == IF phase[l][h] = "collections" THEN l ELSE FamilyOf(m)
           new(m) == [id |-> lastId', kind |-> phase[l][h], owner |-> DestUser(h), shelf |-> s(m),
                      title |-> cur[l][h].title, members |-> m]
<1>1. \/ UNCHANGED <<boxes, lastId, written>>
      \/ /\ lastId' = lastId + 1 /\ written' = written \cup {lastId'}
         /\ \E m : boxes' = boxes \cup {new(m)}
  BY Zenon DEF CreateBox, ids
<1> HIDE DEF s
<1> QED
  BY <1>1

LEMMA CreateBoxKeeps ==
    ASSUME RestoreInv, NEW l \in Libraries, NEW h \in Handles, CreateBox(l, h)
    PROVE  RestoreInv'
<1>1. /\ UNCHANGED <<rest, todo, found, views, offset, rating>> /\ cur' = Set(cur, l, h, NoWork)
      /\ \/ UNCHANGED <<boxes, lastId, written>>
         \/ /\ lastId' = lastId + 1 /\ written' = written \cup {lastId'}
            /\ \E k, o, s, t, m : boxes' = boxes \cup {[id |-> lastId', kind |-> k, owner |-> o,
                                                       shelf |-> s, title |-> t, members |-> m]}
  <2>1. UNCHANGED <<rest, todo, found, views, offset, rating>> /\ cur' = Set(cur, l, h, NoWork)
    BY DEF CreateBox, Do
  <2>2. ASSUME NEW s, NEW m,
               boxes' = boxes \cup {[id |-> lastId', kind |-> phase[l][h], owner |-> DestUser(h),
                                     shelf |-> s, title |-> cur[l][h].title, members |-> m]}
        PROVE  \E k, o, x, t, n : boxes' = boxes \cup {[id |-> lastId', kind |-> k, owner |-> o,
                                                       shelf |-> x, title |-> t, members |-> n]}
    BY <2>2, Zenon
  <2>3. CASE UNCHANGED <<boxes, lastId, written>>
    BY <2>1, <2>3
  <2>4. CASE /\ lastId' = lastId + 1 /\ written' = written \cup {lastId'}
             /\ \E s, m : boxes' = boxes \cup
                   {[id |-> lastId', kind |-> phase[l][h], owner |-> DestUser(h), shelf |-> s,
                     title |-> cur[l][h].title, members |-> m]}
    <3>1. \E k, o, x, t, n : boxes' = boxes \cup {[id |-> lastId', kind |-> k, owner |-> o,
                                                 shelf |-> x, title |-> t, members |-> n]}
      BY ONLY <2>2, <2>4
    <3> QED BY <2>1, <2>4, <3>1, Zenon
  <2> QED BY <2>3, <2>4, MadeBox
<1>2. BoxInv /\ lastId \in Nat /\ written \subseteq 1 .. lastId /\ HandOk(l, h, NoWork)
  BY ShapesNow DEF HandOk, BoxInv
<1>3. Renewed
  BY <1>1, <1>2, BoxesStay, NewKeeps
<1>4. written' \subseteq 1 .. lastId'
  <2>1. CASE UNCHANGED <<lastId, written>>
    BY <1>2, <2>1
  <2>2. CASE lastId' = lastId + 1 /\ written' = written \cup {lastId'}
    BY <1>2, <2>2
  <2> QED BY <1>1, <2>1, <2>2
<1> QED
  BY <1>1, <1>2, <1>3, <1>4, ShapesNow, BoxTurnKeeps

LEMMA FewerKeeps ==
    ASSUME BoxInv, boxes' \subseteq boxes, lastId' = lastId
    PROVE  Renewed
BY DEF BoxInv, Renewed, SameBox

LEMMA ChangedKeeps ==
    ASSUME BoxInv, NEW id, NEW m, boxes' = Changed(id, m), lastId' = lastId
    PROVE  Renewed
<1> DEFINE up(b) == IF b.id = id THEN [b EXCEPT !.members = m] ELSE b
<1>1. ASSUME NEW b \in boxes
      PROVE  Boxed(up(b)) /\ up(b).id = b.id /\ SameBox(b, up(b))
  BY DEF BoxInv, Boxed, SameBox
<1>2. \A c \in boxes' : \E b \in boxes : c = up(b)
  BY DEF Changed
<1> HIDE DEF up
<1>3. \A c, e \in boxes' : c.id = e.id => c = e
  BY <1>1, <1>2 DEF BoxInv
<1>4. \A c \in boxes' : Boxed(c) /\ \E b \in boxes : b.id = c.id /\ SameBox(b, c)
  BY <1>1, <1>2
<1> QED
  BY <1>3, <1>4 DEF BoxInv, Renewed

LEMMA RemoveMemberKeeps ==
    ASSUME RestoreInv, NEW l \in Libraries, NEW h \in Handles, RemoveMember(l, h)
    PROVE  RestoreInv'
<1> DEFINE c == cur[l][h]
<1>1. PICK i \in c.remove : cur' = Set(cur, l, h, [c EXCEPT !.remove = @ \ {i}])
  BY DEF RemoveMember, Do
<1>2. /\ c.is = "box" /\ UNCHANGED <<rest, todo, found, views, offset, rating, lastId, written>>
      /\ UNCHANGED boxes \/ \E id, m : boxes' = Changed(id, m)
  BY DEF RemoveMember, ids
<1>3. HandOk(l, h, c) /\ BoxInv /\ written \subseteq 1 .. lastId
  BY ShapesNow
<1>4. /\ c = [is |-> "box", id |-> c.id, add |-> c.add, remove |-> c.remove]
      /\ phase[l][h] \in Boxing /\ (~Replace => c.remove = {})
  BY <1>2, <1>3 DEF HandOk, NoWork
<1> HIDE DEF c
<1>5. HandOk(l, h, [c EXCEPT !.remove = @ \ {i}])
  <2> DEFINE x == [c EXCEPT !.remove = @ \ {i}]
  <2>1. x = [is |-> "box", id |-> c.id, add |-> c.add, remove |-> c.remove \ {i}]
    BY <1>4
  <2> HIDE DEF x
  <2>2. /\ x = [is |-> "box", id |-> x.id, add |-> x.add, remove |-> x.remove]
        /\ ~Replace => x.remove = {}
    BY <1>4, <2>1
  <2>3. HandOk(l, h, x)
    BY <1>4, <2>2 DEF HandOk
  <2> QED BY <2>3 DEF x
<1>6. Renewed
  BY <1>2, <1>3, BoxesStay, ChangedKeeps
<1> QED
  BY <1>1, <1>2, <1>3, <1>5, <1>6, ShapesNow, BoxTurnKeeps

LEMMA AddMembersKeeps ==
    ASSUME RestoreInv, NEW l \in Libraries, NEW h \in Handles, AddMembers(l, h)
    PROVE  RestoreInv'
<1>1. /\ UNCHANGED <<rest, todo, found, views, offset, rating, lastId, written>>
      /\ cur' = Set(cur, l, h, NoWork) /\ \E id, m : boxes' = Changed(id, m)
  BY DEF AddMembers, Do, ids
<1>2. BoxInv /\ written \subseteq 1 .. lastId /\ HandOk(l, h, NoWork)
  BY ShapesNow DEF HandOk
<1> QED
  BY <1>1, <1>2, ShapesNow, ChangedKeeps, BoxTurnKeeps

LEMMA PurgeBoxKeeps ==
    ASSUME RestoreInv, NEW l \in Libraries, NEW h \in Handles, NEW id, PurgeBox(l, h, id)
    PROVE  RestoreInv'
<1>1. /\ UNCHANGED <<rest, found, cur, views, offset, rating, lastId, written>>
      /\ todo' = Set(todo, l, h, todo[l][h] \ {id}) /\ boxes' \subseteq boxes
  BY DEF PurgeBox, Took, ids
<1>2. BoxInv /\ written \subseteq 1 .. lastId /\ HandOk(l, h, cur[l][h])
  BY ShapesNow
<1> QED
  BY <1>1, <1>2, ShapesNow, FewerKeeps, BoxTurnKeeps

(* A user's next phase in a library.                                       *)
LEMMA EnterKeeps ==
    ASSUME RestoreInv, NEW l \in Libraries, NEW h \in Handles, NEW k \in Phases \ {"off"},
           Enter(l, h, k), cur[l][h] = NoWork, k = "purge" => phase[l][h] = "collections",
           UNCHANGED <<job, dest, lastId>>, lib' = [m \in Libraries |-> lib'[m]],
           cached' = [m \in Libraries |-> cached'[m]], LibInv', SweepInv'
    PROVE  RestoreInv'
<1>1. /\ phase' = Set(phase, l, h, k) /\ \E x : todo' = Set(todo, l, h, x)
      /\ \E x : found' = Set(found, l, h, x)
      /\ \E x : existing' = Set(existing, l, h, x)
      /\ \E x : cur' = Set(cur, l, h, x)
  <2>1. existing = Set(existing, l, h, existing[l][h]) /\ cur = Set(cur, l, h, cur[l][h])
    BY ShapesNow, SetShape
  <2> QED BY <2>1 DEF Enter
<1>2. /\ Shape(phase') /\ Shape(todo') /\ Shape(found') /\ Shape(existing') /\ Shape(cur')
      /\ \A m \in Libraries, g \in Handles : ~(m = l /\ g = h) =>
            /\ phase'[m][g] = phase[m][g] /\ todo'[m][g] = todo[m][g]
            /\ existing'[m][g] = existing[m][g] /\ cur'[m][g] = cur[m][g]
  BY <1>1, ShapesNow, SetShape
<1>3. Shapes'
  BY <1>1, <1>2, SetShape DEF RestoreInv, Shapes, dest
<1>4. BoxInv /\ BoxInv' /\ boxes' = boxes
  BY DEF RestoreInv, BoxInv, dest
<1>5. /\ phase'[l][h] = k /\ found'[l][h] = {}
      /\ todo'[l][h] = CASE k = "purge" -> IF Replace /\ Included(l, "collections")
                                           THEN DestOnly(l, h) ELSE {}
                         [] k \in Kinds -> IF Included(l, k) THEN Rows(l, h, k) ELSE {}
                         [] OTHER -> {}
      /\ cur'[l][h] = IF k \in Boxing /\ Included(l, k) /\ Rows(l, h, k) # {}
                      THEN [is |-> "resolving", cold |-> stop] ELSE cur[l][h]
      /\ existing'[l][h] = IF k \in Boxing THEN {b.id : b \in Existing(l, h, k)}
                           ELSE existing[l][h]
  BY ShapesNow, SetShape DEF Enter, Boxing
<1>6. LeftInv'
  <2>1. k \in Kinds => todo'[l][h] \subseteq Rows(l, h, k)
    BY <1>5 DEF Kinds
  <2>2. k = "purge" => todo'[l][h] \subseteq existing'[l][h] /\ (~Replace => todo'[l][h] = {})
    BY <1>5 DEF Kinds, DestOnly, Boxing
  <2>3. \A m \in Libraries, g \in Handles :
           /\ phase'[m][g] \in Kinds => todo'[m][g] \subseteq Rows(m, g, phase'[m][g])
           /\ phase'[m][g] = "purge" => /\ todo'[m][g] \subseteq existing'[m][g]
                                        /\ ~Replace => todo'[m][g] = {}
    BY <1>2, <1>5, <2>1, <2>2 DEF RestoreInv, LeftInv
  <2> QED BY <2>3, SameJob DEF LeftInv
<1>7. FoundInv'
  <2>1. existing'[l][h] \subseteq 1 .. lastId
    BY <1>4, <1>5 DEF RestoreInv, FoundInv, Existing, BoxInv
  <2>2. ASSUME NEW b \in boxes, b.id \in existing'[l][h]
        PROVE  /\ k \in {"playlists", "collections", "purge"} => b.owner = DestUser(h)
               /\ k = "playlists" => b.kind = "playlists" /\ b.shelf = Family[l]
               /\ k \in {"collections", "purge"} => b.kind = "collections" /\ b.shelf = l
    <3>1. CASE k \in Boxing
      BY <1>4, <1>5, <2>2, <3>1 DEF Existing, Shelf, BoxInv, Boxing
    <3>2. CASE k \notin Boxing
      BY <1>5, <2>2, <3>2 DEF RestoreInv, FoundInv, Boxing
    <3> QED BY <3>1, <3>2
  <2>3. ASSUME NEW m \in Libraries, NEW g \in Handles
        PROVE  /\ existing'[m][g] \subseteq 1 .. lastId
               /\ \A b \in boxes : b.id \in existing'[m][g] =>
                     /\ phase'[m][g] \in {"playlists", "collections", "purge"} => b.owner = DestUser(g)
                     /\ phase'[m][g] = "playlists" => b.kind = "playlists" /\ b.shelf = Family[m]
                     /\ phase'[m][g] \in {"collections", "purge"} =>
                           b.kind = "collections" /\ b.shelf = m
    <3>1. CASE m = l /\ g = h
      BY <1>5, <2>1, <2>2, <3>1
    <3>2. CASE ~(m = l /\ g = h)
      BY <1>2, <3>2 DEF RestoreInv, FoundInv
    <3> QED BY <3>1, <3>2
  <2> QED BY <1>4, <2>3, SameJob DEF FoundInv
<1>8. HandInv'
  <2>1. \A m \in Libraries, g \in Handles : \A d :
           HandOk(m, g, d) /\ phase'[m][g] = phase[m][g] => HandOk(m, g, d)'
    BY SameJob DEF HandOk
  <2>2. \A d : /\ phase'[l][h] = k
               /\ \/ d = NoWork
                  \/ k \in Boxing /\ d = [is |-> "resolving", cold |-> stop]
               => HandOk(l, h, d)'
    BY DEF HandOk
  <2>3. \A m \in Libraries, g \in Handles : HandOk(m, g, cur[m][g])
    BY ShapesNow
  <2>4. ASSUME NEW m \in Libraries, NEW g \in Handles
        PROVE  \E d : d = cur'[m][g] /\ HandOk(m, g, d)'
    <3>1. CASE m = l /\ g = h
      BY <1>1, <1>5, <2>2, <2>3, <3>1, ShapesNow
    <3>2. CASE ~(m = l /\ g = h)
      BY <1>2, <2>1, <2>3, <3>2
    <3> QED BY <3>1, <3>2
  <2> QED BY <2>4 DEF HandInv
<1> QED
  BY <1>3, <1>4, <1>6, <1>7, <1>8 DEF RestoreInv

(* The state of a task changes while the sweep has not begun.              *)
LEMMA BeforeSweep ==
    ASSUME RestoreInv, NEW l \in Libraries, lib[l] \notin {"done", "cancelled"},
           UNCHANGED <<sweep, lastId, written>>
    PROVE  SweepInv'
BY DEF RestoreInv, SweepInv, Ended

LEMMA LibTurn ==
    ASSUME RestoreInv, NEW l \in Libraries, NEW x, lib' = [lib EXCEPT ![l] = x]
    PROVE  /\ lib' = [m \in Libraries |-> lib'[m]] /\ lib'[l] = x
           /\ \A m \in Libraries \ {l} : lib'[m] = lib[m]
BY DEF RestoreInv, Shapes

LEMMA OneLib ==
    ASSUME RestoreInv, job' = job, NEW l \in Libraries, NEW h \in Handles, NEW k,
           phase' = Set(phase, l, h, k), \A m \in Libraries \ {l} : lib'[m] = lib[m],
           LibOk(lib'[l], [phase[l] EXCEPT ![h] = k])
    PROVE  LibInv'
<1>1. \A m \in Libraries : phase'[m] = IF m = l THEN [phase[l] EXCEPT ![h] = k] ELSE phase[m]
  BY DEF RestoreInv, Shapes, Shape, Set
<1>2. \A m \in Libraries : LibOk(lib'[m], phase'[m])
  BY <1>1 DEF RestoreInv, LibInv
<1> QED
  BY <1>2, SameJob DEF LibInv, LibOk

LEMMA AtRest ==
    ASSUME RestoreInv, NEW l \in Libraries, NEW h \in Handles, phase[l][h] = "off"
    PROVE  cur[l][h] = NoWork
<1>1. HandOk(l, h, cur[l][h])
  BY ShapesNow
<1> QED
  BY <1>1 DEF HandOk, Boxing

LEMMA StartTaskKeeps ==
    ASSUME RestoreAssumption, RestoreInv, NEW l \in Libraries, StartTask(l)
    PROVE  RestoreInv'
<1>1. /\ lib[l] = "queued" /\ lib' = [lib EXCEPT ![l] = "owner"] /\ Enter(l, Owner, "watch")
      /\ UNCHANGED <<job, dest, sweep, lastId, written>> /\ Owner \in Handles
      /\ cached' = [m \in Libraries |-> cached'[m]]
  BY DEF StartTask, ids, RestoreInv, Shapes, RestoreAssumption, Handles
<1>2. \A h \in Handles : phase[l][h] = "off"
  BY <1>1 DEF RestoreInv, LibInv, LibOk
<1>3. phase' = Set(phase, l, Owner, "watch")
  BY <1>1 DEF Enter
<1>4. LibInv'
  <2>1. LibOk("owner", [phase[l] EXCEPT ![Owner] = "watch"])
    BY <1>1, <1>2 DEF RestoreInv, LibInv, LibOk, Shapes, Shape
  <2> QED BY <1>1, <1>3, <2>1, LibTurn, OneLib
<1>5. SweepInv'
  BY <1>1, BeforeSweep
<1>6. cur[l][Owner] = NoWork /\ lib' = [m \in Libraries |-> lib'[m]]
  <2>1. phase[l][Owner] = "off"
    BY <1>1, <1>2
  <2>2. cur[l][Owner] = NoWork
    BY <1>1, <2>1, AtRest
  <2> QED BY <1>1, <2>2, LibTurn
<1>7. "watch" \in Phases \ {"off"}
  BY DEF Phases, Kinds
<1> QED
  BY <1>1, <1>4, <1>5, <1>6, <1>7, EnterKeeps

LEMMA StartUserKeeps ==
    ASSUME RestoreInv, NEW l \in Libraries, NEW h \in Handles, StartUser(l, h)
    PROVE  RestoreInv'
<1>1. /\ lib[l] = "users" /\ phase[l][h] = "off" /\ Selected(h) /\ Enter(l, h, "watch")
      /\ UNCHANGED <<job, dest, sweep, lastId, written, lib, cached>>
      /\ lib' = [m \in Libraries |-> lib'[m]] /\ cached' = [m \in Libraries |-> cached'[m]]
  BY DEF StartUser, ids, RestoreInv, Shapes
<1>2. phase' = Set(phase, l, h, "watch") /\ h # Owner
  BY <1>1 DEF Enter, Selected
<1>3. LibInv'
  <2>1. LibOk("users", [phase[l] EXCEPT ![h] = "watch"])
    BY <1>1, <1>2 DEF RestoreInv, LibInv, LibOk, Shapes, Shape
  <2> QED BY <1>1, <1>2, <2>1, OneLib
<1>4. SweepInv'
  BY <1>1, BeforeSweep
<1> QED
  BY <1>1, <1>3, <1>4, AtRest, EnterKeeps DEF Phases, Kinds

(* A phase is over, or the tasks and the stop change beside the phases.    *)
LEMMA TasksKeep ==
    ASSUME RestoreInv, UNCHANGED <<job, dest, cached, todo, found, existing, cur, lastId>>,
           lib' = [m \in Libraries |-> lib'[m]], Shape(phase'), LibInv', SweepInv',
           \A m \in Libraries, g \in Handles :
              phase'[m][g] = phase[m][g] \/ (phase'[m][g] \in Still /\ cur[m][g] = NoWork)
    PROVE  RestoreInv'
<1>1. Shapes' /\ BoxInv'
  BY DEF RestoreInv, Shapes, BoxInv, dest, Still, Phases
<1>2. LeftInv' /\ FoundInv'
  BY SameJob DEF RestoreInv, LeftInv, FoundInv, dest, Still, Kinds
<1>3. HandInv'
  <2>1. \A m \in Libraries, g \in Handles : \A d :
           HandOk(m, g, d) /\ (phase'[m][g] = phase[m][g] \/ d = NoWork) => HandOk(m, g, d)'
    BY SameJob DEF HandOk
  <2>2. \A m \in Libraries, g \in Handles : HandOk(m, g, cur[m][g])
    BY ShapesNow
  <2> QED BY <2>1, <2>2 DEF HandInv
<1> QED
  BY <1>1, <1>2, <1>3 DEF RestoreInv

(* The rest of a user's phases is left out.                                *)
LEMMA LeaveKeeps ==
    ASSUME RestoreInv, NEW l \in Libraries, NEW h \in Handles, Leave(l, h), cur[l][h] = NoWork,
           h = Owner => lib[l] = "owner" /\ \A g \in Handles \ {h} : phase[l][g] = "off",
           h # Owner => lib[l] = "users" /\ Selected(h),
           UNCHANGED <<job, dest, cached, sweep, lastId, written>>
    PROVE  RestoreInv'
<1>1. /\ phase' = Set(phase, l, h, "done") /\ UNCHANGED <<todo, found, existing, cur>>
      /\ lib' = IF h = Owner THEN [lib EXCEPT ![l] = "done"] ELSE lib
  BY DEF Leave
<1>2. SweepInv'
  BY BeforeSweep
<1>3. lib' = [m \in Libraries |-> lib'[m]]
  BY <1>1, LibTurn DEF RestoreInv, Shapes
<1>4. LibInv'
  <2>1. CASE h = Owner
    <3>1. LibOk("done", [phase[l] EXCEPT ![h] = "done"])
      BY <2>1 DEF RestoreInv, LibInv, LibOk, Shapes, Shape, Still
    <3> QED BY <1>1, <2>1, <3>1, LibTurn, OneLib
  <2>2. CASE h # Owner
    <3>1. LibOk(lib[l], [phase[l] EXCEPT ![h] = "done"])
      BY <2>2 DEF RestoreInv, LibInv, LibOk, Shapes, Shape, Still
    <3> QED BY <1>1, <2>2, <3>1, OneLib
  <2> QED BY <2>1, <2>2
<1>5. \A m \in Libraries, g \in Handles :
         phase'[m][g] = phase[m][g] \/ (phase'[m][g] \in Still /\ cur[m][g] = NoWork)
  BY <1>1, SetShape, ShapesNow DEF Still
<1> QED
  BY <1>1, <1>2, <1>3, <1>4, <1>5, SetShape, ShapesNow, TasksKeep

LEMMA EndPhaseKeeps ==
    ASSUME RestoreInv, NEW l \in Libraries, NEW h \in Handles, EndPhase(l, h)
    PROVE  RestoreInv'
<1> DEFINE k == phase[l][h]
<1>1. /\ k \notin Still /\ cur[l][h] = NoWork /\ k \in Phases
      /\ UNCHANGED <<job, dest, cached, sweep, lastId, written>>
      /\ cached' = [m \in Libraries |-> cached'[m]]
  BY DEF EndPhase, Through, ids, RestoreInv, Shapes, Still
<1>2. /\ h = Owner => lib[l] = "owner" /\ \A g \in Handles \ {h} : phase[l][g] = "off"
      /\ h # Owner => lib[l] = "users" /\ Selected(h)
  BY <1>1 DEF RestoreInv, LibInv, LibOk, Still
<1>3. SweepInv'
  BY <1>1, <1>2, BeforeSweep
<1>4. CASE Halts(l, h)
  BY <1>1, <1>2, <1>4, LeaveKeeps DEF EndPhase, Halts
<1>5. CASE ~Halts(l, h)
  <2>1. /\ Enter(l, h, After(k))
        /\ lib' = IF h = Owner /\ After(k) = "done" THEN [lib EXCEPT ![l] = "users"] ELSE lib
    BY <1>5 DEF EndPhase
  <2>2. After(k) \in Phases \ {"off"} /\ (After(k) = "purge" => k = "collections")
    BY <1>1 DEF After, Phases, Kinds, Still
  <2>3. phase' = Set(phase, l, h, After(k))
    BY <2>1 DEF Enter
  <2>4. lib' = [m \in Libraries |-> lib'[m]]
    BY <2>1, LibTurn DEF RestoreInv, Shapes
  <2>5. LibInv'
    <3>1. CASE h = Owner /\ After(k) = "done"
      <4>1. LibOk("users", [phase[l] EXCEPT ![h] = After(k)])
        BY <1>2, <3>1 DEF RestoreInv, LibInv, LibOk, Shapes, Shape
      <4> QED BY <1>1, <2>1, <2>3, <3>1, <4>1, LibTurn, OneLib
    <3>2. CASE ~(h = Owner /\ After(k) = "done")
      <4>1. LibOk(lib[l], [phase[l] EXCEPT ![h] = After(k)])
        BY <1>2, <3>2 DEF RestoreInv, LibInv, LibOk, Shapes, Shape
      <4> QED BY <1>1, <2>1, <2>3, <3>2, <4>1, OneLib
    <3> QED BY <3>1, <3>2
  <2> QED BY <1>1, <1>3, <2>1, <2>2, <2>4, <2>5, EnterKeeps
<1> QED
  BY <1>4, <1>5

LEMMA ListingLost ==
    ASSUME RestoreInv, NEW l \in Libraries, NEW h \in Handles, LoseListing(l, h)
    PROVE  /\ UNCHANGED <<job, dest, cached, todo, found, existing, cur, sweep, lastId, written>>
           /\ cur[l][h] = NoWork /\ lib[l] # "done"
           /\ h = Owner => lib[l] = "owner" /\ \A g \in Handles \ {h} : phase[l][g] = "off"
           /\ h # Owner => lib[l] = "users" /\ Selected(h)
<1>1. /\ UNCHANGED <<job, dest, cached, todo, found, existing, cur, sweep, lastId, written>>
      /\ \/ lib[l] = "users" /\ phase[l][h] = "off" /\ Selected(h)
         \/ cur[l][h] = NoWork /\ phase[l][h] \notin Still
  BY DEF LoseListing, Leave, Through, ids, Still
<1>2. CASE lib[l] = "users" /\ phase[l][h] = "off" /\ Selected(h)
  BY <1>1, <1>2, AtRest DEF Selected
<1>3. CASE cur[l][h] = NoWork /\ phase[l][h] \notin Still
  BY <1>1, <1>3 DEF RestoreInv, LibInv, LibOk, Still
<1> QED
  BY <1>1, <1>2, <1>3

LEMMA LoseListingKeeps ==
    ASSUME RestoreInv, NEW l \in Libraries, NEW h \in Handles, LoseListing(l, h)
    PROVE  RestoreInv'
<1>1. Leave(l, h)
  BY DEF LoseListing
<1> QED
  BY <1>1, ListingLost, LeaveKeeps

LEMMA TaskEndKeeps ==
    ASSUME RestoreInv, NEW l \in Libraries, CancelTask(l) \/ EndTask(l)
    PROVE  RestoreInv'
<1>1. /\ UNCHANGED <<job, dest, cached, phase, todo, found, existing, cur, sweep, lastId, written>>
      /\ Shape(phase')
      /\ \/ lib[l] = "queued" /\ lib' = [lib EXCEPT ![l] = "cancelled"]
         \/ /\ lib[l] = "users" /\ lib' = [lib EXCEPT ![l] = "done"]
            /\ \A h \in Handles : Selected(h) => phase[l][h] = "done"
  BY ShapesNow DEF CancelTask, EndTask, ids
<1>2. LibInv'
  BY <1>1, LibTurn, SameJob DEF RestoreInv, LibInv, LibOk, Still
<1> QED
  BY <1>1, <1>2, LibTurn, BeforeSweep, TasksKeep

LEMMA StopKeeps ==
    ASSUME RestoreInv, Stop
    PROVE  RestoreInv'
<1>1. /\ UNCHANGED <<job, dest, cached, lib, phase, todo, found, existing, cur, sweep, ids>>
      /\ lib' = [m \in Libraries |-> lib'[m]]
  BY DEF Stop, work, RestoreInv, Shapes
<1>2. LibInv' /\ SweepInv'
  BY <1>1, SameJob DEF RestoreInv, LibInv, LibOk, SweepInv, Ended, ids
<1> QED
  BY <1>1, <1>2, ShapesNow, TasksKeep DEF ids

LEMMA RerunKeeps ==
    ASSUME RestoreInv, Rerun
    PROVE  RestoreInv'
<1>1. /\ UNCHANGED <<job, dest, cached, todo, found, existing, cur, lastId>> /\ written' = {}
      /\ lib' = [m \in Libraries |-> IF m \in job.libraries THEN "queued" ELSE "done"]
      /\ phase' = [m \in Libraries |-> [h \in Handles |-> "off"]] /\ sweep' = NoSweep
      /\ sweep.on = "after"
  BY DEF Rerun
<1>2. LibInv' /\ SweepInv'
  BY <1>1 DEF LibInv, LibOk, SweepInv, NoSweep, Still, Replace
<1>3. Shape(phase')
  BY <1>1 DEF Shape
<1>4. \A m \in Libraries, g \in Handles : phase'[m][g] \in Still /\ cur[m][g] = NoWork
  <2>1. \A m \in Libraries, g \in Handles : phase[m][g] \in Still
    BY <1>1 DEF RestoreInv, SweepInv, LibInv, LibOk, Ended
  <2>2. \A m \in Libraries, g \in Handles : HandOk(m, g, cur[m][g])
    BY ShapesNow
  <2> QED BY <1>1, <2>1, <2>2 DEF HandOk, Still, Boxing
<1>5. lib' = [m \in Libraries |-> lib'[m]]
  BY <1>1
<1> QED
  BY <1>1, <1>2, <1>3, <1>4, <1>5, TasksKeep

LEMMA SweepingKeeps ==
    ASSUME RestoreInv, UNCHANGED <<over, ids>>, boxes' \subseteq boxes, SweepInv'
    PROVE  RestoreInv'
<1>1. UNCHANGED <<job, views, offset, rating, cached, lib, phase, todo, found, existing, cur, lastId>>
  BY DEF over, work, ids
<1>2. Renewed
  BY <1>1, FewerKeeps DEF RestoreInv
<1>3. BoxInv' /\ FoundInv'
  BY <1>1, <1>2, RenewedKeeps DEF RestoreInv
<1>4. Shapes' /\ LibInv' /\ LeftInv'
  BY <1>1, SameJob DEF RestoreInv, Shapes, LibInv, LibOk, LeftInv
<1>5. HandInv'
  <2>1. \A m \in Libraries, g \in Handles : \A d : HandOk(m, g, d) => HandOk(m, g, d)'
    BY <1>1, SameJob DEF HandOk
  <2>2. \A m \in Libraries, g \in Handles : HandOk(m, g, cur[m][g])
    BY ShapesNow
  <2> QED BY <1>1, <2>1, <2>2 DEF HandInv
<1> QED
  BY <1>3, <1>4, <1>5 DEF RestoreInv

LEMMA SweepStepKeeps ==
    ASSUME RestoreInv,
           \/ StartSweep \/ SweptUser
           \/ (\E u \in Users : SweepUser(u)) \/ (\E id \in sweep.left : SweepBox(id))
    PROVE  RestoreInv'
<1>1. UNCHANGED <<over, ids>>
  BY DEF StartSweep, SweptUser, SweepUser, SweepBox
<1>2. Ended' = Ended /\ Replace' = Replace /\ UNCHANGED <<lastId, written>>
  BY <1>1 DEF Ended, Replace, over, work, ids
<1>3. boxes' \subseteq boxes
  BY DEF StartSweep, SweptUser, SweepUser, SweepBox
<1>4. SweepInv'
  <2> USE DEF RestoreInv, SweepInv
  <2>1. CASE StartSweep
    BY <1>2, <2>1 DEF StartSweep, NoSweep
  <2>2. CASE SweptUser
    BY <1>2, <2>2 DEF SweptUser
  <2>3. ASSUME NEW u \in Users, SweepUser(u)
        PROVE  SweepInv'
    BY <1>2, <2>3 DEF SweepUser, BoxInv
  <2>4. ASSUME NEW id \in sweep.left, SweepBox(id)
        PROVE  SweepInv'
    BY <1>2, <2>4 DEF SweepBox
  <2> QED BY <2>1, <2>2, <2>3, <2>4
<1> QED
  BY <1>1, <1>3, <1>4, SweepingKeeps

LEMMA RestoreBegins == ASSUME RestoreAssumption, Init PROVE RestoreInv
<1>1. Shapes
  BY DEF Init, Shapes, Shape, OfUsers, RestoreAssumption, Phases, Items, Idle
<1>2. BoxInv
  <2>1. Cardinality(Boxes0) \in Nat
    BY FS_CardinalityType DEF RestoreAssumption
  <2> QED BY <2>1 DEF Init, BoxInv, Boxed, RestoreAssumption
<1>3. LibInv /\ SweepInv /\ LeftInv /\ FoundInv
  BY DEF Init, LibInv, LibOk, SweepInv, LeftInv, FoundInv, Still, NoSweep, Kinds
<1>4. HandInv
  BY DEF Init, HandInv, HandOk, Idle
<1> QED
  BY <1>1, <1>2, <1>3, <1>4 DEF RestoreInv

LEMMA RestoreStep == ASSUME RestoreAssumption, RestoreInv, [Next]_vars PROVE RestoreInv'
<1>1. ASSUME NEW l \in Libraries, StartTask(l) \/ CancelTask(l) \/ EndTask(l)
      PROVE  RestoreInv'
  BY <1>1, StartTaskKeeps, TaskEndKeeps
<1>2. ASSUME NEW l \in Libraries, NEW h \in Handles,
             \/ EndPhase(l, h) \/ StartUser(l, h) \/ LoseListing(l, h)
             \/ WriteRow(l, h) \/ Resolve(l, h)
             \/ CreateBox(l, h) \/ RemoveMember(l, h) \/ AddMembers(l, h)
      PROVE  RestoreInv'
  BY <1>2, EndPhaseKeeps, StartUserKeeps, LoseListingKeeps, WriteRowKeeps, ResolveKeeps,
     CreateBoxKeeps, RemoveMemberKeeps, AddMembersKeeps
<1>3. ASSUME NEW l \in Libraries, NEW h \in Handles, NEW r,
             ReadRow(l, h, r) \/ RateRow(l, h, r) \/ TakeBox(l, h, r) \/ PurgeBox(l, h, r)
      PROVE  RestoreInv'
  BY <1>3, ReadRowKeeps, RateRowKeeps, TakeBoxKeeps, PurgeBoxKeeps
<1>4. CASE \/ Stop \/ StartSweep \/ SweptUser \/ Rerun
           \/ (\E u \in Users : SweepUser(u)) \/ (\E id \in sweep.left : SweepBox(id))
  BY <1>4, StopKeeps, RerunKeeps, SweepStepKeeps
<1>5. CASE UNCHANGED vars
  <2>1. UNCHANGED <<job, dest, cached, todo, found, existing, cur, lib, phase, sweep, ids>>
    BY <1>5 DEF vars, work
  <2>2. LibInv' /\ SweepInv' /\ lib' = [m \in Libraries |-> lib'[m]]
    BY <2>1, SameJob DEF RestoreInv, Shapes, LibInv, LibOk, SweepInv, Ended, ids
  <2> QED BY <2>1, <2>2, ShapesNow, TasksKeep DEF ids
<1> QED
  BY <1>1, <1>2, <1>3, <1>4, <1>5 DEF Next

-----------------------------------------------------------------------------
(* A Merge only adds                                                       *)

(* The payload and the users as the engine means them: no two handles are  *)
(* one destination user, the owner's is the owner, a row is one of its     *)
(* item's library and the only one of its kind and handle for it, and an   *)
(* item that only its path identifies is in the owner's rows alone.        *)
Separate(j) ==
    /\ j.identity[Owner] = Owner
    /\ \A g, h \in Handles : j.identity[g] = j.identity[h] => g = h
    /\ \A r \in Payload(j) : r.kind \in {"watch", "ratings"} =>
          /\ r.item \in Items /\ r.library = LibOf[r.item]
          /\ r.item \in ByPath => r.handle = Owner
          /\ \A s \in Payload(j) :
                s.kind = r.kind /\ s.handle = r.handle /\ s.item = r.item => s = r

(* What is written at hand is for an item that no other row is for; the    *)
(* resume position to be set is not set yet.                               *)
HandFits(l, h) ==
    cur[l][h].is = "item" =>
        /\ cur[l][h].item \in Items /\ LibOf[cur[l][h].item] = l
        /\ \E r \in Rows(l, h, "watch") : r.item = cur[l][h].item
        /\ \A r \in todo[l][h] : r.item # cur[l][h].item
        /\ ~Replace /\ cur[l][h].place => offset[DestUser(h)][cur[l][h].item] = 0

(* What the scan cache says of the owner's items is true of those that     *)
(* have not been written yet.                                              *)
Untouched(l) ==
    /\ phase[l][Owner] = "watch" => \A r \in todo[l][Owner] :
          r.item \in ByPath => /\ views[Owner][r.item] = cached[l].views[r.item]
                             /\ offset[Owner][r.item] = cached[l].offset[r.item]
    /\ \A r \in Rows(l, Owner, "ratings") :
          /\ r.item \in ByPath
          /\ phase[l][Owner] = "ratings" => r \in todo[l][Owner]
          => rating[Owner][r.item] = cached[l].rating[r.item]

MergeInv ==
    /\ \A l \in Libraries, h \in Handles : HandFits(l, h)
    /\ \A l \in Libraries : lib[l] = "owner" => Untouched(l)

LEMMA ElsewhereFits ==
    ASSUME MergeInv, UNCHANGED <<job, views, offset, rating, cached>>,
           \A m \in Libraries, g \in Handles :
              cur'[m][g].is # "item" \/ (cur'[m][g] = cur[m][g] /\ todo'[m][g] \subseteq todo[m][g]),
           \A m \in Libraries : lib'[m] = "owner" =>
              /\ lib[m] = "owner"
              /\ phase'[m][Owner] = "watch" => /\ phase[m][Owner] = "watch"
                                               /\ todo'[m][Owner] \subseteq todo[m][Owner]
              /\ phase[m][Owner] = "ratings" => /\ phase'[m][Owner] = "ratings"
                                                /\ todo'[m][Owner] \subseteq todo[m][Owner]
    PROVE  MergeInv'
<1>1. ASSUME NEW m \in Libraries, NEW g \in Handles
      PROVE  HandFits(m, g)'
  BY SameJob DEF MergeInv, HandFits
<1>2. ASSUME NEW m \in Libraries, lib'[m] = "owner"
      PROVE  Untouched(m)'
  BY <1>2, SameJob DEF MergeInv, Untouched
<1> QED
  BY <1>1, <1>2 DEF MergeInv

LEMMA TurnFits ==
    ASSUME RestoreInv, MergeInv, NEW l \in Libraries, NEW h \in Handles, NEW c, c.is # "item",
           cur' = Set(cur, l, h, c), NEW gone, todo' = Set(todo, l, h, todo[l][h] \ gone),
           UNCHANGED <<job, views, offset, rating, cached, lib, phase>>
    PROVE  MergeInv'
<1>1. \A m \in Libraries, g \in Handles :
         /\ cur'[m][g].is # "item" \/ cur'[m][g] = cur[m][g]
         /\ todo'[m][g] \subseteq todo[m][g]
  BY ShapesNow, SetShape
<1>2. ASSUME NEW m \in Libraries, lib[m] = "owner"
      PROVE  todo'[m][Owner] \subseteq todo[m][Owner]
  BY ShapesNow DEF Set, Shape
<1> QED
  BY <1>1, <1>2, ElsewhereFits

LEMMA BoxesFit ==
    ASSUME RestoreInv, MergeInv, NEW l \in Libraries, NEW h \in Handles,
           \/ Resolve(l, h) \/ CreateBox(l, h) \/ RemoveMember(l, h) \/ AddMembers(l, h)
           \/ \E r : TakeBox(l, h, r) \/ PurgeBox(l, h, r)
    PROVE  MergeInv'
<1>1. UNCHANGED <<job, views, offset, rating, cached, lib, phase>>
  BY DEF Resolve, CreateBox, RemoveMember, AddMembers, TakeBox, PurgeBox, rest, dest
<1>2. todo = Set(todo, l, h, todo[l][h] \ {}) /\ cur = Set(cur, l, h, cur[l][h])
  BY ShapesNow
<1>3. CASE Resolve(l, h) \/ CreateBox(l, h) \/ AddMembers(l, h)
  <2>1. cur' = Set(cur, l, h, NoWork) /\ UNCHANGED todo /\ NoWork.is # "item"
    BY <1>3 DEF Resolve, CreateBox, AddMembers, Do, NoWork
  <2> QED BY <1>1, <1>2, <2>1, TurnFits
<1>4. CASE RemoveMember(l, h)
  <2>1. PICK i : cur' = Set(cur, l, h, [cur[l][h] EXCEPT !.remove = @ \ {i}])
    BY <1>4 DEF RemoveMember, Do
  <2>2. cur[l][h].is = "box" /\ UNCHANGED todo
    BY <1>4 DEF RemoveMember
  <2>3. [cur[l][h] EXCEPT !.remove = @ \ {i}].is # "item"
    <3>1. HandOk(l, h, cur[l][h])
      BY ShapesNow
    <3>2. cur[l][h] = [is |-> "box", id |-> cur[l][h].id, add |-> cur[l][h].add,
                       remove |-> cur[l][h].remove]
      BY <2>2, <3>1 DEF HandOk, NoWork
    <3> QED BY <3>2
  <2> QED BY <1>1, <1>2, <2>1, <2>2, <2>3, TurnFits
<1>5. ASSUME NEW r, TakeBox(l, h, r) \/ PurgeBox(l, h, r)
      PROVE  MergeInv'
  <2>1. todo' = Set(todo, l, h, todo[l][h] \ {r}) /\ cur[l][h] = NoWork
    BY <1>5 DEF TakeBox, PurgeBox, Took
  <2>2. \E c : c.is # "item" /\ cur' = Set(cur, l, h, c)
    BY <1>2, <1>5, <2>1 DEF TakeBox, PurgeBox, Do, NoWork
  <2> QED BY <1>1, <2>1, <2>2, TurnFits
<1> QED
  BY <1>3, <1>4, <1>5

LEMMA TasksFit ==
    ASSUME RestoreInv, MergeInv,
           \/ Stop \/ StartSweep \/ SweptUser \/ Rerun \/ UNCHANGED vars
           \/ (\E u \in Users : SweepUser(u)) \/ (\E id \in sweep.left : SweepBox(id))
           \/ \E l \in Libraries : CancelTask(l) \/ EndTask(l)
    PROVE  MergeInv'
<1>1. UNCHANGED <<job, views, offset, rating, cached, todo, cur>>
  BY DEF Stop, StartSweep, SweptUser, Rerun, SweepUser, SweepBox, CancelTask, EndTask, over, work,
         dest, vars
<1>2. \A m \in Libraries : lib'[m] = "owner" => lib[m] = "owner" /\ phase'[m] = phase[m]
  <2>1. CASE Rerun
    BY <2>1 DEF Rerun
  <2>2. CASE \/ Stop \/ StartSweep \/ SweptUser \/ UNCHANGED vars
             \/ (\E u \in Users : SweepUser(u)) \/ (\E id \in sweep.left : SweepBox(id))
    BY <2>2 DEF Stop, StartSweep, SweptUser, SweepUser, SweepBox, over, work, vars
  <2>3. ASSUME NEW l \in Libraries, CancelTask(l) \/ EndTask(l)
        PROVE  \A m \in Libraries : lib'[m] = "owner" => lib[m] = "owner" /\ phase'[m] = phase[m]
    BY <2>3 DEF CancelTask, EndTask, RestoreInv, Shapes
  <2> QED BY <2>1, <2>2, <2>3
<1> QED
  BY <1>1, <1>2, ElsewhereFits

LEMMA EnterFits ==
    ASSUME RestoreInv, MergeInv, NEW l \in Libraries, NEW h \in Handles,
           EndPhase(l, h) \/ StartUser(l, h) \/ LoseListing(l, h)
    PROVE  MergeInv'
<1>1. UNCHANGED <<job, views, offset, rating, cached>> /\ cur[l][h] = NoWork
  BY AtRest, ListingLost DEF EndPhase, Through, StartUser, dest
<1>2. PICK k : /\ phase' = Set(phase, l, h, k) /\ (h = Owner => k # "watch")
               /\ phase[l][h] = "ratings" => k = "done"
               /\ h = Owner /\ k = "done" => lib'[l] # "owner"
  <2>1. CASE EndPhase(l, h)
    <3>1. \A x : [lib EXCEPT ![l] = x][l] = x
      BY DEF RestoreInv, Shapes
    <3> QED BY <2>1, <3>1 DEF EndPhase, Enter, After, Leave, Halts
  <2>2. CASE StartUser(l, h)
    BY <2>2 DEF StartUser, Enter, Selected
  <2>3. CASE LoseListing(l, h)
    <3>1. \A x : [lib EXCEPT ![l] = x][l] = x
      BY DEF RestoreInv, Shapes
    <3> QED BY <2>3, <3>1 DEF LoseListing, Leave
  <2> QED BY <2>1, <2>2, <2>3
<1>3. (\E x : todo' = Set(todo, l, h, x)) /\ \E c : cur' = Set(cur, l, h, c) /\ c.is # "item"
  <2>1. todo = Set(todo, l, h, todo[l][h]) /\ cur = Set(cur, l, h, cur[l][h])
    BY ShapesNow, SetShape
  <2> QED BY <1>1, <2>1 DEF EndPhase, StartUser, LoseListing, Leave, Enter, NoWork
<1>4. \A m \in Libraries : lib'[m] = "owner" => lib[m] = "owner"
  BY DEF EndPhase, StartUser, LoseListing, Leave, RestoreInv, Shapes
<1>5. \A m \in Libraries, g \in Handles :
         /\ phase'[m][g] = IF m = l /\ g = h THEN k ELSE phase[m][g]
         /\ IF m = l /\ g = h THEN cur'[m][g].is # "item"
            ELSE cur'[m][g] = cur[m][g] /\ todo'[m][g] = todo[m][g]
  BY <1>2, <1>3, ShapesNow, SetShape
<1>6. ASSUME NEW m \in Libraries, lib'[m] = "owner"
      PROVE  /\ lib[m] = "owner"
             /\ phase'[m][Owner] = "watch" => /\ phase[m][Owner] = "watch"
                                              /\ todo'[m][Owner] \subseteq todo[m][Owner]
             /\ phase[m][Owner] = "ratings" => /\ phase'[m][Owner] = "ratings"
                                               /\ todo'[m][Owner] \subseteq todo[m][Owner]
  BY <1>2, <1>4, <1>5, <1>6, RestoreAssumption DEF RestoreAssumption, Handles
<1> QED
  BY <1>1, <1>5, <1>6, ElsewhereFits

LEMMA StartTaskFits ==
    ASSUME RestoreInv, MergeInv, NEW l \in Libraries, StartTask(l)
    PROVE  MergeInv'
<1>1. /\ UNCHANGED <<job, views, offset, rating>> /\ lib[l] = "queued"
      /\ lib' = [lib EXCEPT ![l] = "owner"] /\ cached' = [cached EXCEPT ![l] = Scan]
      /\ phase' = Set(phase, l, Owner, "watch") /\ \E x : todo' = Set(todo, l, Owner, x)
      /\ UNCHANGED cur /\ Owner \in Handles
  BY RestoreAssumption DEF StartTask, Enter, dest, RestoreAssumption, Handles
<1>2. cur[l][Owner] = NoWork
  <2>1. phase[l][Owner] = "off"
    BY <1>1 DEF RestoreInv, LibInv, LibOk
  <2> QED BY <1>1, <2>1, AtRest
<1>3. \A m \in Libraries, g \in Handles :
         IF m = l /\ g = Owner THEN cur'[m][g].is # "item"
         ELSE cur'[m][g] = cur[m][g] /\ todo'[m][g] = todo[m][g] /\ phase'[m][g] = phase[m][g]
  BY <1>1, <1>2, ShapesNow, SetShape DEF NoWork
<1>4. ASSUME NEW m \in Libraries, NEW g \in Handles
      PROVE  HandFits(m, g)'
  BY <1>1, <1>3, SameJob DEF MergeInv, HandFits
<1>5. ASSUME NEW m \in Libraries, lib'[m] = "owner"
      PROVE  Untouched(m)'
  <2>1. CASE m = l
    <3>1. cached'[l] = Scan
      BY <1>1 DEF RestoreInv, Shapes
    <3> QED BY <1>1, <2>1, <3>1 DEF Untouched, Scan
  <2>2. CASE m # l
    <3>1. lib[m] = "owner" /\ cached'[m] = cached[m]
      BY <1>1, <1>5, <2>2 DEF RestoreInv, Shapes
    <3>2. todo'[m][Owner] = todo[m][Owner] /\ phase'[m][Owner] = phase[m][Owner]
      BY <1>1, <1>3, <2>2
    <3>3. Untouched(m)
      BY <3>1 DEF MergeInv
    <3> QED BY <1>1, <3>1, <3>2, <3>3, SameJob DEF Untouched
  <2> QED BY <2>1, <2>2
<1> QED
  BY <1>4, <1>5 DEF MergeInv

LEMMA OwnerAtWork ==
    ASSUME RestoreInv, NEW l \in Libraries, phase[l][Owner] \notin Still
    PROVE  lib[l] = "owner"
BY RestoreAssumption DEF RestoreInv, LibInv, LibOk, RestoreAssumption, Handles, Still

(* A row at hand, by what Separate says of it.                             *)
LEMMA RowsApart ==
    ASSUME Separate(job), NEW l \in Libraries, NEW h \in Handles, NEW k \in {"watch", "ratings"},
           NEW r \in Rows(l, h, k)
    PROVE  /\ r.item \in Items /\ LibOf[r.item] = l /\ (r.item \in ByPath => h = Owner)
           /\ \A s \in Rows(l, h, k) : s.item = r.item => s = r
BY DEF Separate, Rows

LEMMA ReadRowFits ==
    ASSUME RestoreInv, MergeInv, Separate(job), NEW l \in Libraries, NEW h \in Handles, NEW r,
           ReadRow(l, h, r)
    PROVE  MergeInv'
<1> DEFINE seen == Seen(l, h, r.item)
           w == Writes(r, seen.views, seen.offset)
<1>1. /\ todo' = Set(todo, l, h, todo[l][h] \ {r}) /\ cur[l][h] = NoWork /\ phase[l][h] = "watch"
      /\ UNCHANGED <<job, views, offset, rating, cached, lib, phase>> /\ r \in todo[l][h]
      /\ UNCHANGED cur \/ cur' = Set(cur, l, h, Left(w))
  BY DEF ReadRow, Took, Do, rest, dest
<1>2. todo[l][h] \subseteq Rows(l, h, "watch")
  BY <1>1 DEF RestoreInv, LeftInv, Kinds
<1>3. CASE UNCHANGED cur
  <2>1. cur = Set(cur, l, h, NoWork) /\ NoWork.is # "item"
    BY <1>1, ShapesNow DEF NoWork
  <2> QED BY <1>1, <1>3, <2>1, TurnFits
<1>4. CASE cur' = Set(cur, l, h, NoWork)
  <2>1. NoWork.is # "item"
    BY DEF NoWork
  <2> HIDE DEF w
  <2> QED BY <1>1, <1>4, <2>1, TurnFits
<1>5. CASE cur' = Set(cur, l, h, w)
  <2>1. w.item = r.item /\ (~Replace /\ w.place => seen.offset = 0)
    BY DEF Writes
  <2>2. seen.offset = offset[DestUser(h)][r.item]
    <3>1. CASE r.item \in ByPath
      <4>1. h = Owner /\ DestUser(h) = Owner
        BY <1>1, <1>2, <3>1, RowsApart DEF Separate, DestUser
      <4>2. Untouched(l)
        BY <1>1, <4>1, OwnerAtWork DEF MergeInv, Still
      <4> QED BY <1>1, <3>1, <4>1, <4>2 DEF Untouched, Seen
    <3>2. CASE r.item \notin ByPath
      BY <3>2 DEF Seen
    <3> QED BY <3>1, <3>2
  <2> HIDE DEF w
  <2>3. \A m \in Libraries, g \in Handles :
           IF m = l /\ g = h THEN cur'[m][g] = w /\ todo'[m][g] = todo[m][g] \ {r}
           ELSE cur'[m][g] = cur[m][g] /\ todo'[m][g] = todo[m][g]
    BY <1>1, <1>5, ShapesNow, SetShape
  <2>4. ASSUME NEW m \in Libraries, NEW g \in Handles
        PROVE  HandFits(m, g)'
    <3>1. CASE m = l /\ g = h
      <4>1. r.item \in Items /\ LibOf[r.item] = l /\ \A s \in todo[l][h] \ {r} : s.item # r.item
        BY <1>1, <1>2, RowsApart
      <4>2. /\ cur'[m][g] = w /\ todo'[m][g] = todo[l][h] \ {r} /\ m = l
            /\ offset'[DestUser(g)][w.item] = offset[DestUser(h)][r.item]
        BY <1>1, <2>1, <2>3, <3>1
      <4>3. \E s \in Rows(m, g, "watch") : s.item = w.item
        BY <1>1, <1>2, <2>1, <3>1
      <4> QED BY <2>1, <2>2, <4>1, <4>2, <4>3, <1>1, SameJob DEF HandFits
    <3>2. CASE ~(m = l /\ g = h)
      <4>1. HandFits(m, g) /\ cur'[m][g] = cur[m][g] /\ todo'[m][g] = todo[m][g]
        BY <2>3, <3>2 DEF MergeInv
      <4> QED BY <1>1, <4>1, SameJob DEF HandFits
    <3> QED BY <3>1, <3>2
  <2>5. ASSUME NEW m \in Libraries, lib'[m] = "owner"
        PROVE  Untouched(m)'
    <3>1. todo'[m][Owner] \subseteq todo[m][Owner]
      BY <2>3, RestoreAssumption DEF RestoreAssumption, Handles
    <3>2. Untouched(m)
      BY <1>1, <2>5 DEF MergeInv
    <3>3. phase[m][Owner] = "ratings" => todo'[m][Owner] = todo[m][Owner]
      BY <1>1, <2>3, RestoreAssumption DEF RestoreAssumption, Handles
    <3> QED BY <1>1, <3>1, <3>2, <3>3, SameJob DEF Untouched
  <2> QED BY <2>4, <2>5 DEF MergeInv
<1> HIDE DEF w
<1> QED
  BY <1>1, <1>3, <1>4, <1>5 DEF Left

(* A call that writes a count is about the item and the user of its row.   *)
LEMMA WritesOwn ==
    ASSUME RestoreInv, MergeInv, Separate(job), NEW l \in Libraries, NEW h \in Handles,
           WriteRow(l, h)
    PROVE  /\ Seen(l, h, cur[l][h].item).user = DestUser(h)
           /\ \A u \in Users, i \in Items :
                 views'[u][i] # views[u][i] => u = DestUser(h) /\ i = cur[l][h].item
<1> DEFINE c == cur[l][h]
<1>1. c.is = "item" /\ HandFits(l, h)
  BY DEF WriteRow, MergeInv
<1>2. Seen(l, h, c.item).user = DestUser(h)
  <2>1. PICK r \in Rows(l, h, "watch") : r.item = c.item
    BY <1>1 DEF HandFits
  <2>2. c.item \in ByPath => h = Owner
    BY <2>1, RowsApart
  <2> QED BY <2>2 DEF Seen, Separate, DestUser
<1>3. \/ views' = views
      \/ \E n : views' = [views EXCEPT ![DestUser(h)][c.item] = n]
  BY <1>2 DEF WriteRow, dest
<1>4. views \in [Users -> [Items -> Nat]]
  BY ShapesNow
<1> HIDE DEF c
<1>5. \A u \in Users, i \in Items : views'[u][i] # views[u][i] => u = DestUser(h) /\ i = c.item
  BY <1>3, <1>4
<1> QED
  BY <1>2, <1>5 DEF c

LEMMA WriteRowFits ==
    ASSUME RestoreInv, MergeInv, Separate(job), NEW l \in Libraries, NEW h \in Handles,
           WriteRow(l, h)
    PROVE  /\ MergeInv'
           /\ ~Replace => \A u \in Users, i \in Items :
                 /\ views'[u][i] >= views[u][i]
                 /\ offset[u][i] # 0 => offset'[u][i] = offset[u][i]
<1> DEFINE c == cur[l][h]
           d == DestUser(h)
<1>1. /\ UNCHANGED <<job, rating, cached, lib, phase, todo>> /\ c.is = "item"
  BY DEF WriteRow, rest, dest
<1>2. HandOk(l, h, c) /\ HandFits(l, h)
  BY ShapesNow DEF MergeInv
<1>3. /\ c = [is |-> "item", item |-> c.item, reset |-> c.reset, add |-> c.add,
              place |-> c.place, offset |-> c.offset]
      /\ phase[l][h] = "watch" /\ (~Replace => ~c.reset)
      /\ c.reset \/ c.add > 0 \/ c.place
      /\ c.item \in Items /\ LibOf[c.item] = l /\ \A r \in todo[l][h] : r.item # c.item
      /\ ~Replace /\ c.place => offset[d][c.item] = 0
      /\ \E r \in Rows(l, h, "watch") : r.item = c.item
  BY <1>1, <1>2 DEF HandOk, NoWork, HandFits
<1> HIDE DEF c
<1>4. PICK e : /\ cur' = Set(cur, l, h, e)
               /\ e.is # "item" \/ (e.item = c.item /\ e.place = c.place)
               /\ \/ offset' = offset
                  \/ /\ e = NoWork /\ c.place /\ c.item \in Items
                     /\ offset' = [offset EXCEPT ![d][c.item] = c.offset]
  <2>1. PICK i, s, a, p, o :
            c = [is |-> "item", item |-> i, reset |-> s, add |-> a, place |-> p, offset |-> o]
    BY <1>3
  <2>2. \A x : LET f == [c EXCEPT !.reset = x] IN f.item = c.item /\ f.place = c.place
    BY <2>1
  <2>3. LET f == [c EXCEPT !.add = @ - 1] IN f.item = c.item /\ f.place = c.place
    BY <2>1
  <2>4. NoWork.is # "item"
    BY DEF NoWork
  <2> DEFINE f == [c EXCEPT !.reset = FALSE]
             g == [c EXCEPT !.add = @ - 1]
  <2>5. /\ f.item = c.item /\ f.place = c.place /\ g.item = c.item /\ g.place = c.place
    BY <2>2, <2>3, Zenon
  <2>6. \/ cur' = Set(cur, l, h, NoWork) /\ offset' = offset
        \/ (cur' = Set(cur, l, h, Left(f)) \/ cur' = Set(cur, l, h, Left(g))) /\ offset' = offset
        \/ /\ cur' = Set(cur, l, h, NoWork) /\ ~c.reset /\ c.add = 0
           /\ offset' = [offset EXCEPT ![d][c.item] = c.offset]
    BY DEF WriteRow, Do, dest, c
  <2>7. \/ Left(f) = NoWork \/ Left(f) = f
    BY DEF Left
  <2>8. \/ Left(g) = NoWork \/ Left(g) = g
    BY DEF Left
  <2> HIDE DEF f, g
  <2> QED BY <1>3, <2>4, <2>5, <2>6, <2>7, <2>8
<1>5. \A m \in Libraries, g \in Handles :
         cur'[m][g] = IF m = l /\ g = h THEN e ELSE cur[m][g]
  BY <1>4, ShapesNow, SetShape
<1>6. \A u \in Users, i \in Items :
         offset'[u][i] # offset[u][i] => e = NoWork /\ c.place /\ u = d /\ i = c.item
  BY <1>4, ShapesNow DEF OfUsers
<1>7. \A g \in Handles : DestUser(g) \in Users /\ (DestUser(g) = d => g = h)
  BY RestoreAssumption DEF Separate, DestUser, RestoreAssumption, RestoreInv, Shapes, Handles
<1>11. \A u \in Users, i \in Items : views'[u][i] # views[u][i] => u = d /\ i = c.item
  BY <1>1, WritesOwn DEF c
<1>8. ASSUME NEW m \in Libraries, NEW g \in Handles
      PROVE  HandFits(m, g)'
  <2>1. CASE m = l /\ g = h
    BY <1>1, <1>3, <1>4, <1>5, <1>6, <1>7, <2>1, SameJob DEF HandFits, NoWork
  <2>2. CASE ~(m = l /\ g = h)
    <3>1. HandFits(m, g) /\ cur'[m][g] = cur[m][g]
      BY <1>5, <2>2 DEF MergeInv
    <3>2. cur[m][g].is = "item" => ~(DestUser(g) = d /\ cur[m][g].item = c.item)
      BY <1>3, <1>7, <2>2, <3>1 DEF HandFits
    <3> QED BY <1>1, <1>6, <1>7, <3>1, <3>2, SameJob DEF HandFits
  <2> QED BY <2>1, <2>2
<1>9. ASSUME NEW m \in Libraries, lib'[m] = "owner"
      PROVE  Untouched(m)'
  <2>1. ASSUME phase[m][Owner] = "watch", NEW r \in todo[m][Owner]
        PROVE  /\ r.item \in Items /\ offset'[Owner][r.item] = offset[Owner][r.item]
               /\ views'[Owner][r.item] = views[Owner][r.item]
    <3>1. Owner \in Handles /\ DestUser(Owner) = Owner /\ Owner \in Users
      BY RestoreAssumption DEF RestoreAssumption, Handles, Separate, DestUser
    <3>2. r \in Rows(m, Owner, "watch")
      BY <2>1, <3>1 DEF RestoreInv, LeftInv, Kinds
    <3>3. r.item \in Items /\ LibOf[r.item] = m
      BY <3>1, <3>2, RowsApart
    <3>4. ~(d = Owner /\ c.item = r.item)
      BY <1>3, <1>7, <3>1, <3>3
    <3> QED BY <1>6, <1>11, <3>1, <3>3, <3>4
  <2>2. Untouched(m)
    BY <1>1, <1>9 DEF MergeInv
  <2> QED BY <1>1, <2>1, <2>2, SameJob DEF Untouched
<1>10. ASSUME ~Replace, NEW u \in Users, NEW i \in Items
       PROVE  /\ views'[u][i] >= views[u][i]
              /\ offset[u][i] # 0 => offset'[u][i] = offset[u][i]
  <2>1. offset[u][i] # 0 => offset'[u][i] = offset[u][i]
    BY <1>3, <1>6, <1>10
  <2>2. views' = views \/ \E x : views' = [views EXCEPT ![d][x] = @ + 1]
    BY <1>3, <1>10 DEF WriteRow, dest, c
  <2>3. views[u][i] \in Nat /\ views \in [Users -> [Items -> Nat]]
    BY ShapesNow
  <2>4. views'[u][i] >= views[u][i]
    BY <2>2, <2>3
  <2> QED BY <2>1, <2>4
<1> QED
  BY <1>8, <1>9, <1>10 DEF MergeInv

LEMMA RateRowFits ==
    ASSUME RestoreInv, MergeInv, Separate(job), NEW l \in Libraries, NEW h \in Handles, NEW r,
           RateRow(l, h, r)
    PROVE  /\ MergeInv'
           /\ ~Replace => \A u \in Users, i \in Items :
                 rating[u][i] # Unrated => rating'[u][i] = rating[u][i]
<1> DEFINE d == DestUser(h)
<1>1. /\ todo' = Set(todo, l, h, todo[l][h] \ {r}) /\ cur[l][h] = NoWork /\ phase[l][h] = "ratings"
      /\ UNCHANGED <<job, views, offset, cur, cached, lib, phase>> /\ r \in todo[l][h]
      /\ \/ UNCHANGED rating
         \/ /\ ~Replace => Seen(l, h, r.item).rating = Unrated
            /\ rating' = [rating EXCEPT ![d][r.item] = r.value]
  BY DEF RateRow, Took, rest
<1>2. r \in Rows(l, h, "ratings")
  BY <1>1 DEF RestoreInv, LeftInv, Kinds
<1>3. /\ r.item \in Items /\ LibOf[r.item] = l /\ (r.item \in ByPath => h = Owner)
      /\ \A s \in Rows(l, h, "ratings") : s.item = r.item => s = r
  BY <1>2, RowsApart
<1>4. \A u \in Users, i \in Items : rating'[u][i] # rating[u][i] => u = d /\ i = r.item
  BY <1>1, ShapesNow DEF OfUsers
<1>5. /\ Owner \in Handles /\ DestUser(Owner) = Owner /\ Owner \in Users
      /\ \A g \in Handles : DestUser(g) = d => g = h
  BY RestoreAssumption DEF RestoreAssumption, Handles, Separate, DestUser
<1>6. \A m \in Libraries, g \in Handles :
         todo'[m][g] = IF m = l /\ g = h THEN todo[m][g] \ {r} ELSE todo[m][g]
  <2>1. Shape(todo) /\ todo' = Set(todo, l, h, todo[l][h] \ {r})
    BY <1>1, ShapesNow
  <2>2. \A m \in Libraries, g \in Handles :
           todo'[m][g] = IF m = l /\ g = h THEN todo[l][h] \ {r} ELSE todo[m][g]
    BY <2>1, SetShape
  <2> QED BY <2>2
<1>7. ASSUME NEW m \in Libraries, NEW g \in Handles
      PROVE  HandFits(m, g)'
  <2>1. HandFits(m, g) /\ todo'[m][g] \subseteq todo[m][g]
    BY <1>6 DEF MergeInv
  <2>2. UNCHANGED <<job, offset, cur, phase>>
    BY <1>1
  <2>3. Rows(m, g, "watch")' = Rows(m, g, "watch") /\ DestUser(g)' = DestUser(g) /\ Replace' = Replace
    BY <2>2, SameJob
  <2> HIDE DEF d
  <2> QED BY ONLY <2>1, <2>2, <2>3 DEF HandFits
<1>8. ASSUME NEW m \in Libraries, lib'[m] = "owner"
      PROVE  Untouched(m)'
  <2>1. Untouched(m)
    BY <1>1, <1>8 DEF MergeInv
  <2>2. todo'[m][Owner] \subseteq todo[m][Owner]
    BY <1>5, <1>6
  <2>3. ASSUME NEW s \in Rows(m, Owner, "ratings"),
               phase[m][Owner] = "ratings" => s \in todo'[m][Owner]
        PROVE  rating'[Owner][s.item] = rating[Owner][s.item]
    <3>1. s.item \in Items /\ LibOf[s.item] = m
      BY <1>5, RowsApart
    <3>2. ASSUME d = Owner, s.item = r.item
          PROVE  FALSE
      <4>1. h = Owner /\ m = l
        BY <1>3, <1>5, <3>1, <3>2
      <4>2. s = r
        BY <1>3, <2>3, <3>2, <4>1
      <4>3. r \in todo'[l][h]
        BY <1>1, <2>3, <4>1, <4>2
      <4> QED BY <1>6, <4>3
    <3> QED BY <1>4, <1>5, <3>1, <3>2
  <2>4. \A s \in Rows(m, Owner, "ratings") :
           /\ s.item \in ByPath
           /\ phase[m][Owner] = "ratings" => s \in todo'[m][Owner]
           => rating'[Owner][s.item] = cached[m].rating[s.item]
    BY <2>1, <2>2, <2>3 DEF Untouched
  <2>5. phase[m][Owner] = "watch" => \A s \in todo'[m][Owner] :
           s.item \in ByPath => /\ views[Owner][s.item] = cached[m].views[s.item]
                              /\ offset[Owner][s.item] = cached[m].offset[s.item]
    BY <2>1, <2>2 DEF Untouched
  <2>6. Rows(m, Owner, "ratings")' = Rows(m, Owner, "ratings")
    BY <1>1, SameJob
  <2> QED BY <1>1, <2>4, <2>5, <2>6 DEF Untouched
<1>9. ASSUME ~Replace, NEW u \in Users, NEW i \in Items, rating[u][i] # Unrated
      PROVE  rating'[u][i] = rating[u][i]
  <2>1. CASE r.item \in ByPath
    <3>1. h = Owner /\ lib[l] = "owner"
      BY <1>1, <1>3, <2>1, OwnerAtWork DEF Still
    <3>2. rating[Owner][r.item] = cached[l].rating[r.item]
      BY <1>1, <1>2, <2>1, <3>1 DEF MergeInv, Untouched
    <3>3. UNCHANGED rating \/ rating[d][r.item] = Unrated
      BY <1>1, <1>5, <1>9, <2>1, <3>1, <3>2 DEF Seen
    <3> QED BY <1>4, <1>9, <3>3
  <2>2. CASE r.item \notin ByPath
    <3>1. UNCHANGED rating \/ rating[d][r.item] = Unrated
      BY <1>1, <1>9, <2>2 DEF Seen
    <3> QED BY <1>4, <1>9, <3>1
  <2> QED BY <2>1, <2>2
<1> QED
  BY <1>7, <1>8, <1>9 DEF MergeInv

(* No container of the destination is lost, nor a member of one.           *)
Grown == \A b \in boxes : \E c \in boxes' : c.id = b.id /\ b.members \subseteq c.members

LEMMA BoxesGrow ==
    ASSUME RestoreInv, [Next]_vars, ~Replace
    PROVE  Grown
<1>1. CASE UNCHANGED boxes
  BY <1>1 DEF Grown
<1>2. ASSUME NEW l \in Libraries, NEW h \in Handles, CreateBox(l, h)
      PROVE  Grown
  <2>1. boxes \subseteq boxes'
    BY <1>2 DEF CreateBox
  <2> QED BY <2>1 DEF Grown
<1>3. ASSUME NEW l \in Libraries, NEW h \in Handles, RemoveMember(l, h)
      PROVE  FALSE
  <2>1. HandOk(l, h, cur[l][h]) /\ cur[l][h].is = "box" /\ cur[l][h].remove # {}
    BY <1>3, ShapesNow DEF RemoveMember
  <2> QED BY <2>1 DEF HandOk, NoWork
<1>4. ASSUME NEW l \in Libraries, NEW h \in Handles, AddMembers(l, h)
      PROVE  Grown
  <2>1. PICK id, some : boxes' = Changed(id, Box(id).members \cup some)
    BY <1>4 DEF AddMembers
  <2>2. ASSUME NEW b \in boxes
        PROVE  \E c \in boxes' : c.id = b.id /\ b.members \subseteq c.members
    <3>1. CASE b.id = id
      <4>1. Box(id) = b
        BY <3>1 DEF Box, RestoreInv, BoxInv
      <4>2. [b EXCEPT !.members = b.members \cup some] \in boxes'
        BY <2>1, <3>1, <4>1 DEF Changed
      <4>3. LET c == [b EXCEPT !.members = b.members \cup some] IN
            c.id = b.id /\ b.members \subseteq c.members
        BY DEF RestoreInv, BoxInv, Boxed
      <4> QED BY <4>2, <4>3
    <3>2. CASE b.id # id
      BY <2>1, <3>2 DEF Changed
    <3> QED BY <3>1, <3>2
  <2> QED BY <2>2 DEF Grown
<1>5. ASSUME NEW l \in Libraries, NEW h \in Handles, NEW r, PurgeBox(l, h, r)
      PROVE  FALSE
  BY <1>5 DEF PurgeBox, Took, RestoreInv, LeftInv
<1>6. ASSUME NEW id, SweepBox(id)
      PROVE  FALSE
  BY <1>6 DEF SweepBox, RestoreInv, SweepInv
<1>7. ASSUME NEW l \in Libraries, NEW h \in Handles, NEW r,
             \/ StartTask(l) \/ CancelTask(l) \/ EndTask(l) \/ EndPhase(l, h) \/ StartUser(l, h)
             \/ LoseListing(l, h) \/ WriteRow(l, h) \/ Resolve(l, h)
             \/ ReadRow(l, h, r) \/ RateRow(l, h, r)
             \/ TakeBox(l, h, r)
      PROVE  UNCHANGED boxes
  BY <1>7, Zenon DEF StartTask, CancelTask, EndTask, EndPhase, StartUser, LoseListing, WriteRow,
                     Resolve, ReadRow,
              RateRow, TakeBox, dest
<1>8. Stop \/ StartSweep \/ SweptUser \/ Rerun \/ (\E u \in Users : SweepUser(u))
      \/ UNCHANGED vars => UNCHANGED boxes
  BY DEF Stop, StartSweep, SweptUser, Rerun, SweepUser, vars, dest
<1>9. \A l \in Libraries : StartTask(l) \/ CancelTask(l) \/ EndTask(l) => UNCHANGED boxes
  BY DEF StartTask, CancelTask, EndTask, dest
<1> QED
  BY <1>1, <1>2, <1>3, <1>4, <1>5, <1>6, <1>7, <1>8, <1>9 DEF Next

(* Every job the engine is given is so.                                    *)
Apart == \A j \in Jobs : Separate(j)

LEMMA MergeFits ==
    ASSUME Apart, RestoreInv, MergeInv, [Next]_vars
    PROVE  /\ MergeInv'
           /\ ~Replace => \A u \in Users, i \in Items :
                 /\ views'[u][i] >= views[u][i]
                 /\ rating[u][i] # Unrated => rating'[u][i] = rating[u][i]
                 /\ offset[u][i] # 0 => offset'[u][i] = offset[u][i]
<1> DEFINE Adds == \A u \in Users, i \in Items :
               /\ views'[u][i] >= views[u][i]
               /\ rating[u][i] # Unrated => rating'[u][i] = rating[u][i]
               /\ offset[u][i] # 0 => offset'[u][i] = offset[u][i]
           Goal == MergeInv' /\ (~Replace => Adds)
<1>1. Separate(job)
  BY DEF Apart, RestoreInv, Shapes
<1>2. UNCHANGED <<views, offset, rating>> => Adds
  <2>1. \A u \in Users, i \in Items : views[u][i] \in Nat
    BY ShapesNow
  <2> QED BY <2>1
<1>3. ASSUME NEW l \in Libraries, NEW h \in Handles, WriteRow(l, h)
      PROVE  Goal
  <2>1. UNCHANGED rating
    BY <1>3 DEF WriteRow, dest
  <2> QED BY <1>1, <1>3, <2>1, WriteRowFits
<1>4. ASSUME NEW l \in Libraries, NEW h \in Handles, NEW r, RateRow(l, h, r)
      PROVE  Goal
  <2>1. UNCHANGED <<views, offset>> /\ \A u \in Users, i \in Items : views[u][i] \in Nat
    BY <1>4, ShapesNow DEF RateRow
  <2> QED BY <1>1, <1>4, <2>1, RateRowFits
<1>5. ASSUME NEW l \in Libraries, NEW h \in Handles,
             \/ EndPhase(l, h) \/ StartUser(l, h) \/ LoseListing(l, h) \/ Resolve(l, h)
             \/ CreateBox(l, h) \/ RemoveMember(l, h) \/ AddMembers(l, h)
      PROVE  Goal
  <2>1. UNCHANGED <<views, offset, rating>>
    BY <1>5 DEF EndPhase, StartUser, LoseListing, Resolve, CreateBox, RemoveMember, AddMembers,
                dest
  <2>2. MergeInv'
    BY <1>5, EnterFits, BoxesFit
  <2> QED BY <1>2, <2>1, <2>2
<1>6. ASSUME NEW l \in Libraries, NEW h \in Handles, NEW r,
             ReadRow(l, h, r) \/ TakeBox(l, h, r) \/ PurgeBox(l, h, r)
      PROVE  Goal
  <2>1. UNCHANGED <<views, offset, rating>>
    BY <1>6 DEF ReadRow, TakeBox, PurgeBox, dest
  <2>2. MergeInv'
    BY <1>1, <1>6, BoxesFit, ReadRowFits
  <2> QED BY <1>2, <2>1, <2>2
<1>7. ASSUME \/ Stop \/ StartSweep \/ SweptUser \/ Rerun \/ UNCHANGED vars
             \/ (\E u \in Users : SweepUser(u)) \/ (\E id \in sweep.left : SweepBox(id))
      PROVE  Goal
  <2>1. UNCHANGED <<views, offset, rating>>
    BY <1>7 DEF Stop, StartSweep, SweptUser, Rerun, SweepUser, SweepBox, over, dest, vars
  <2> QED BY <1>2, <1>7, <2>1, TasksFit
<1>8. ASSUME NEW l \in Libraries, StartTask(l) \/ CancelTask(l) \/ EndTask(l)
      PROVE  Goal
  <2>1. CASE StartTask(l)
    BY <1>2, <2>1, StartTaskFits DEF StartTask, dest
  <2>2. CASE CancelTask(l) \/ EndTask(l)
    <3>1. UNCHANGED <<views, offset, rating>>
      BY <2>2 DEF CancelTask, EndTask, dest
    <3> QED BY <1>2, <2>2, <3>1, TasksFit
  <2> QED BY <1>8, <2>1, <2>2
<1> HIDE DEF Adds, Goal
<1>9. Goal
  BY <1>3, <1>4, <1>5, <1>6, <1>7, <1>8 DEF Next
<1> QED
  BY <1>9 DEF Adds, Goal

LEMMA MergeBegins == ASSUME Init PROVE MergeInv
BY RestoreAssumption DEF Init, MergeInv, HandFits, Untouched, Idle, NoWork, RestoreAssumption

(* Where every task, phase, call and container of a restore is: what the   *)
(* two theorems about its steps rest on.                                   *)
THEOREM RestoreIsSafe == Spec => []RestoreInv
<1>1. Init => RestoreInv
  BY RestoreAssumption, RestoreBegins
<1>2. RestoreInv /\ [Next]_vars => RestoreInv'
  BY RestoreAssumption, RestoreStep
<1> QED
  BY <1>1, <1>2, PTL DEF Spec

(* A library that the job leaves out has no task.                          *)
JobLibs == \A l \in Libraries \ job.libraries : lib[l] = "done"

LEMMA JobLibsStep == ASSUME RestoreInv, JobLibs, [Next]_vars PROVE JobLibs'
<1>1. ASSUME NEW l \in Libraries, StartTask(l) \/ CancelTask(l) \/ EndTask(l)
      PROVE  JobLibs'
  BY <1>1 DEF StartTask, CancelTask, EndTask, JobLibs, RestoreInv, Shapes
<1>2. ASSUME NEW l \in Libraries, NEW h \in Handles, EndPhase(l, h) \/ LoseListing(l, h)
      PROVE  JobLibs'
  <2>1. lib[l] # "done"
    BY <1>2, ListingLost DEF EndPhase, Through, RestoreInv, LibInv, LibOk, Still
  <2>2. job' = job /\ \A m \in Libraries \ {l} : lib'[m] = lib[m]
    BY <1>2 DEF EndPhase, LoseListing, Leave, RestoreInv, Shapes
  <2> QED BY <2>1, <2>2 DEF JobLibs
<1>3. ASSUME NEW l \in Libraries, NEW h \in Handles,
             \/ StartUser(l, h) \/ WriteRow(l, h) \/ Resolve(l, h)
             \/ CreateBox(l, h) \/ RemoveMember(l, h) \/ AddMembers(l, h)
      PROVE  UNCHANGED <<job, lib>>
  BY <1>3, Zenon DEF StartUser, WriteRow, Resolve, CreateBox, RemoveMember, AddMembers, rest
<1>4. ASSUME NEW l \in Libraries, NEW h \in Handles, NEW r,
             ReadRow(l, h, r) \/ RateRow(l, h, r) \/ TakeBox(l, h, r) \/ PurgeBox(l, h, r)
      PROVE  UNCHANGED <<job, lib>>
  BY <1>4 DEF ReadRow, RateRow, TakeBox, PurgeBox, rest
<1>5. ASSUME \/ Stop \/ StartSweep \/ SweptUser \/ UNCHANGED vars
             \/ (\E u \in Users : SweepUser(u)) \/ (\E id \in sweep.left : SweepBox(id))
      PROVE  UNCHANGED <<job, lib>>
  BY <1>5 DEF Stop, StartSweep, SweptUser, SweepUser, SweepBox, over, work, vars
<1>6. CASE Rerun
  BY <1>6 DEF Rerun, JobLibs
<1>7. UNCHANGED <<job, lib>> => JobLibs'
  BY DEF JobLibs
<1> QED
  BY <1>1, <1>2, <1>3, <1>4, <1>5, <1>6, <1>7 DEF Next

LEMMA TasksAreTheJobs == Spec => []JobLibs
<1>1. Init => JobLibs
  BY DEF Init, JobLibs
<1>2. RestoreInv /\ JobLibs /\ [Next]_vars => JobLibs'
  BY JobLibsStep
<1> QED
  BY <1>1, <1>2, RestoreIsSafe, PTL DEF Spec

(* A Merge never lowers a count, replaces a rating or a resume position,   *)
(* removes a member or deletes a container, whichever calls fail and       *)
(* whenever it is stopped (run_restore, mode "merge").                     *)
THEOREM MergesOnlyAdd == ASSUME Apart PROVE Spec => MergeOnlyAdds
<1>1. Init => MergeInv
  BY MergeBegins
<1>2. RestoreInv /\ MergeInv /\ [Next]_vars => MergeInv'
  BY MergeFits
<1>3. RestoreInv /\ MergeInv /\ [Next]_vars =>
        [~Replace =>
          /\ \A u \in Users, i \in Items :
                /\ views'[u][i] >= views[u][i]
                /\ rating[u][i] # Unrated => rating'[u][i] = rating[u][i]
                /\ offset[u][i] # 0 => offset'[u][i] = offset[u][i]
          /\ \A b \in boxes : \E c \in boxes' : c.id = b.id /\ b.members \subseteq c.members]_vars
  BY MergeFits, BoxesGrow DEF Grown
<1> QED
  BY <1>1, <1>2, <1>3, RestoreIsSafe, PTL DEF Spec, MergeOnlyAdds

-----------------------------------------------------------------------------
(* The sweep spares what was restored                                      *)

(* Every handle is the name of its user on the destination.                *)
Named == \A j \in Jobs, h \in Handles : j.identity[h] = h

TitleKept(b) == b.title \in SourceTitles(b.owner)
Piecemeal(b) == b.title \in PieceTitles
TitleGiven(b) == TitleKept(b) \/ Piecemeal(b)
SpareInv ==
    \A b \in boxes : /\ b.kind = "playlists" /\ b.id \in written => TitleGiven(b)
                     /\ b.id \in sweep.left => b.kind = "playlists" /\ ~TitleKept(b)

LEMMA SameTitles ==
    ASSUME job' = job
    PROVE  PieceTitles' = PieceTitles /\ \A u : SourceTitles(u)' = SourceTitles(u)
BY DEF SourceTitles, ListTitles, PieceTitles

(* A row that is written is one of the snapshot, or of a mixed playlist    *)
(* that has its title or gives it one of a piece.                          *)
LEMMA EmittedFrom ==
    ASSUME NEW j, NEW r \in Payload(j)
    PROVE  \/ r \in j.payload
           \/ \E x \in j.payload :
                 /\ x.kind = "playlists" /\ r.kind = "playlists"
                 /\ r.handle = x.handle /\ r.library = x.library
                 /\ r.title = x.title \/ \E f \in Families(x.members) : r.title = <<x.title, f>>
<1>1. PICK x \in j.payload : r \in Emitted(j, x)
  BY DEF Payload
<1>2. CASE r = x
  BY <1>1, <1>2
<1>3. CASE r # x
  <2>1. /\ x.kind = "playlists"
        /\ \E f \in Families(x.members) : \E t : /\ r = Piece(x, t, f)
                                                 /\ t = x.title \/ t = <<x.title, f>>
    BY <1>1, <1>3 DEF Emitted, Pieces, Leaders
  <2>2. \A t, f : /\ Piece(x, t, f).kind = "playlists" /\ Piece(x, t, f).handle = x.handle
                  /\ Piece(x, t, f).library = x.library /\ Piece(x, t, f).title = t
    BY DEF Piece
  <2> QED BY <2>1, <2>2
<1> QED
  BY <1>2, <1>3

(* A container keeps its kind, owner and title, or is new; a playlist that *)
(* is written to has a title of the payload.                               *)
LEMMA SparesOn ==
    ASSUME RestoreInv, SpareInv, job' = job, Renewed, sweep'.left \subseteq sweep.left,
           \A b \in boxes' :
              b.kind = "playlists" /\ b.id \in written' /\ b.id \notin written => TitleGiven(b)
    PROVE  SpareInv'
<1>1. ASSUME NEW c \in boxes'
      PROVE  /\ c.kind = "playlists" /\ c.id \in written' => TitleGiven(c)
             /\ c.id \in sweep'.left => c.kind = "playlists" /\ ~TitleKept(c)
  <2>1. CASE \E b \in boxes : b.id = c.id /\ SameBox(b, c)
    BY <2>1 DEF SpareInv, TitleGiven, TitleKept, Piecemeal, SameBox
  <2>2. CASE c.id = lastId' /\ lastId' > lastId
    BY <2>2 DEF RestoreInv, SweepInv, BoxInv, Renewed
  <2> QED BY <2>1, <2>2 DEF Renewed
<1> QED
  BY <1>1, SameTitles DEF SpareInv, TitleGiven, TitleKept, Piecemeal

LEMMA RowsTitle ==
    ASSUME RestoreInv, JobLibs, NEW l \in Libraries, NEW h \in Handles, phase[l][h] \notin Still,
           NEW r \in Rows(l, h, "playlists")
    PROVE  r.title \in SourceTitles(h) \cup PieceTitles
<1>1. l \in job.libraries
  BY DEF RestoreInv, LibInv, LibOk, JobLibs
<1>2. r \in Payload(job) /\ r.kind = "playlists" /\ r.handle = h /\ r.library = l
  BY DEF Rows
<1>3. ASSUME NEW x \in job.payload, x.kind = "playlists", x.handle = h, x.library = l
      PROVE  x.title \in SourceTitles(h)
  BY <1>1, <1>3 DEF SourceTitles, ListTitles
<1>4. ASSUME NEW x \in job.payload, x.kind = "playlists", NEW f \in Families(x.members)
      PROVE  <<x.title, f>> \in PieceTitles
  <2>1. x \in {y \in job.payload : y.kind = "playlists"}
    BY <1>4
  <2>2. <<x.title, f>> \in {<<x.title, g>> : g \in Families(x.members)}
    BY <1>4
  <2> QED BY <2>1, <2>2 DEF PieceTitles
<1>5. CASE r \in job.payload
  BY <1>2, <1>3, <1>5
<1>6. CASE \E x \in job.payload :
              /\ x.kind = "playlists" /\ r.kind = "playlists"
              /\ r.handle = x.handle /\ r.library = x.library
              /\ r.title = x.title \/ \E f \in Families(x.members) : r.title = <<x.title, f>>
  <2>1. PICK x \in job.payload :
              /\ x.kind = "playlists" /\ r.handle = x.handle /\ r.library = x.library
              /\ r.title = x.title \/ \E f \in Families(x.members) : r.title = <<x.title, f>>
    BY <1>6
  <2>2. CASE r.title = x.title
    BY <1>2, <1>3, <2>1, <2>2
  <2>3. CASE \E f \in Families(x.members) : r.title = <<x.title, f>>
    BY <1>4, <2>1, <2>3
  <2> QED BY <2>1, <2>2, <2>3
<1> QED
  BY <1>2, <1>5, <1>6, EmittedFrom

LEMMA HandleIsUser == ASSUME Named, RestoreInv, NEW h \in Handles PROVE DestUser(h) = h
BY DEF Named, RestoreInv, Shapes, DestUser

LEMMA CreateSpares ==
    ASSUME Named, RestoreInv, JobLibs, SpareInv, NEW l \in Libraries, NEW h \in Handles, CreateBox(l, h)
    PROVE  SpareInv' /\ boxes \subseteq boxes'
<1> DEFINE c == cur[l][h]
<1>1. UNCHANGED <<job, sweep>> /\ c.is = "new" /\ boxes \subseteq boxes'
  BY DEF CreateBox, rest
<1>2. phase[l][h] = "playlists" => c.title \in SourceTitles(h) \cup PieceTitles
  <2>1. HandOk(l, h, c)
    BY ShapesNow
  <2> QED BY <1>1, <2>1, RowsTitle DEF Boxing, Still, HandOk, NoWork
<1>3. \/ UNCHANGED <<boxes, written, lastId>>
      \/ /\ lastId' = lastId + 1 /\ written' = written \cup {lastId'}
         /\ \E s, m : boxes' = boxes \cup {[id |-> lastId', kind |-> phase[l][h], owner |-> DestUser(h),
                                        shelf |-> s, title |-> c.title, members |-> m]}
  BY MadeBox
<1>4. BoxInv /\ DestUser(h) = h
  BY ShapesNow, HandleIsUser
<1>5. CASE UNCHANGED <<boxes, written, lastId>>
  BY <1>1, <1>4, <1>5, BoxesStay, SparesOn
<1>6. CASE /\ lastId' = lastId + 1 /\ written' = written \cup {lastId'}
           /\ \E s, m : boxes' = boxes \cup {[id |-> lastId', kind |-> phase[l][h], owner |-> DestUser(h),
                                          shelf |-> s, title |-> c.title, members |-> m]}
  <2>1. PICK s, m : boxes' = boxes \cup {[id |-> lastId', kind |-> phase[l][h], owner |-> DestUser(h),
                                       shelf |-> s, title |-> c.title, members |-> m]}
    BY <1>6
  <2>2. Renewed
    BY <1>4, <1>6, <2>1, NewKeeps
  <2>3. ASSUME NEW b \in boxes', b.kind = "playlists", b.id \in written', b.id \notin written
        PROVE  TitleGiven(b)
    <3>1. b \notin boxes
      BY <1>4, <1>6, <2>3 DEF BoxInv
    <3> QED BY <1>2, <1>4, <2>1, <2>3, <3>1 DEF TitleGiven, TitleKept, Piecemeal
  <2> QED BY <1>1, <2>2, <2>3, SparesOn
<1> QED
  BY <1>1, <1>3, <1>5, <1>6

LEMMA TakeSpares ==
    ASSUME Named, RestoreInv, JobLibs, SpareInv, NEW l \in Libraries, NEW h \in Handles, NEW r,
           TakeBox(l, h, r)
    PROVE  SpareInv'
<1>1. /\ UNCHANGED <<job, sweep, boxes, lastId>> /\ phase[l][h] \in Boxing /\ r \in todo[l][h]
      /\ \/ UNCHANGED written
         \/ \E b \in boxes : /\ written' = written \cup {b.id} /\ b.id \in existing[l][h]
                              /\ b.title = r.title
  BY DEF TakeBox, Took, rest, dest, Boxing
<1>2. BoxInv /\ DestUser(h) = h /\ r \in Rows(l, h, phase[l][h])
  BY <1>1, ShapesNow, HandleIsUser DEF RestoreInv, LeftInv, Boxing, Kinds
<1>3. ASSUME NEW b \in boxes, b.kind = "playlists", b.id \in written', b.id \notin written
      PROVE  TitleGiven(b)
  <2>1. b.id \in existing[l][h] /\ b.title = r.title
    BY <1>1, <1>2, <1>3 DEF BoxInv
  <2>2. phase[l][h] = "playlists" /\ b.owner = h
    BY <1>1, <1>2, <1>3, <2>1 DEF RestoreInv, FoundInv, Boxing
  <2> QED BY <1>2, <2>1, <2>2, RowsTitle DEF TitleGiven, TitleKept, Piecemeal, Still
<1> QED
  BY <1>1, <1>2, <1>3, BoxesStay, SparesOn

LEMMA PurgeSpares ==
    ASSUME RestoreInv, SpareInv, NEW l \in Libraries, NEW h \in Handles, NEW id,
           PurgeBox(l, h, id)
    PROVE  SpareInv' /\ \A b \in boxes : b.kind = "playlists" => b \in boxes'
<1>1. /\ UNCHANGED <<job, sweep, lastId, written>> /\ phase[l][h] = "purge" /\ id \in todo[l][h]
      /\ UNCHANGED boxes \/ boxes' = {b \in boxes : b.id # id}
  BY DEF PurgeBox, Took, rest, ids
<1>2. BoxInv /\ \A b \in boxes : b.id = id => b.kind = "collections"
  BY <1>1 DEF RestoreInv, LeftInv, FoundInv
<1>3. Renewed
  BY <1>1, <1>2, FewerKeeps
<1> QED
  BY <1>1, <1>2, <1>3, SparesOn

LEMMA ChangeSpares ==
    ASSUME RestoreInv, SpareInv, UNCHANGED <<job, sweep, lastId, written>>,
           UNCHANGED boxes \/ \E id, m : boxes' = Changed(id, m)
    PROVE  SpareInv' /\ \A b \in boxes : \E c \in boxes' : c.id = b.id
<1>1. Renewed
  BY BoxesStay, ChangedKeeps DEF RestoreInv
<1>2. \A b \in boxes : \E c \in boxes' : c.id = b.id
  <2>1. ASSUME NEW id, NEW m, boxes' = Changed(id, m), NEW b \in boxes
        PROVE  \E c \in boxes' : c.id = b.id
    <3>1. [b EXCEPT !.members = m].id = b.id
      BY DEF RestoreInv, BoxInv, Boxed
    <3> QED BY <2>1, <3>1 DEF Changed
  <2> QED BY <2>1
<1> QED
  BY <1>1, <1>2, SparesOn

LEMMA SweepSpares ==
    ASSUME RestoreInv, SpareInv,
           \/ StartSweep \/ SweptUser \/ Rerun
           \/ (\E u \in Users : SweepUser(u)) \/ (\E id \in sweep.left : SweepBox(id))
    PROVE  /\ SpareInv'
           /\ \A b \in boxes : b.kind = "playlists" /\ b.id \in written /\ ~Piecemeal(b) => b \in boxes'
<1>1. UNCHANGED <<job, lastId>> /\ written' \subseteq written /\ boxes' \subseteq boxes
  BY DEF StartSweep, SweptUser, Rerun, SweepUser, SweepBox, over, ids, dest
<1>2. Renewed
  BY <1>1, FewerKeeps DEF RestoreInv
<1>3. CASE StartSweep \/ SweptUser \/ Rerun
  <2>1. sweep'.left \subseteq sweep.left /\ UNCHANGED boxes
    BY <1>3 DEF StartSweep, SweptUser, Rerun, NoSweep, RestoreInv, SweepInv, dest
  <2> QED BY <1>1, <1>2, <2>1, SparesOn
<1>4. ASSUME NEW id \in sweep.left, SweepBox(id)
      PROVE  /\ SpareInv'
             /\ \A b \in boxes : b.kind = "playlists" /\ b.id \in written /\ ~Piecemeal(b) => b \in boxes'
  <2>1. sweep'.left \subseteq sweep.left
    BY <1>4 DEF SweepBox, RestoreInv, SweepInv
  <2>2. SpareInv'
    BY <1>1, <1>2, <2>1, SparesOn
  <2>3. \A b \in boxes : b.kind = "playlists" /\ b.id \in written /\ ~Piecemeal(b) => b.id # id
    BY <1>4 DEF SpareInv, TitleGiven, Piecemeal
  <2> QED BY <1>4, <2>2, <2>3 DEF SweepBox
<1>5. ASSUME NEW u \in Users, SweepUser(u)
      PROVE  SpareInv' /\ UNCHANGED boxes
  <2>1. UNCHANGED <<boxes, written>>
    BY <1>5 DEF SweepUser, ids
  <2>2. ASSUME NEW b \in boxes, b.id \in sweep'.left
        PROVE  b.kind = "playlists" /\ ~TitleKept(b)
    <3>1. CASE sweep'.left \subseteq sweep.left
      BY <2>2, <3>1 DEF SpareInv
    <3>2. CASE \E c \in boxes : /\ c.id = b.id /\ c.kind = "playlists" /\ c.owner = u
                               /\ c.title \notin SourceTitles(u)
      BY <3>2 DEF TitleKept, RestoreInv, BoxInv
    <3>3. sweep'.left \subseteq sweep.left \/ \E c \in boxes : /\ c.id = b.id /\ c.kind = "playlists"
                     /\ c.owner = u /\ c.title \notin SourceTitles(u)
      BY <1>5, <2>2 DEF SweepUser, RestoreInv, SweepInv
    <3> QED BY <3>1, <3>2, <3>3
  <2> QED BY <1>1, <2>1, <2>2, SameTitles DEF SpareInv, TitleGiven, TitleKept, Piecemeal
<1> QED
  BY <1>3, <1>4, <1>5

LEMMA SparesStep ==
    ASSUME Named, RestoreInv, JobLibs, SpareInv, [Next]_vars
    PROVE  /\ SpareInv'
           /\ \A b \in boxes : b.kind = "playlists" /\ b.id \in written /\ ~Piecemeal(b) =>
                 \E c \in boxes' : c.id = b.id
<1> DEFINE NoneLost == \A b \in boxes : b.kind = "playlists" /\ b.id \in written /\ ~Piecemeal(b) =>
                        \E c \in boxes' : c.id = b.id
           Goal == SpareInv' /\ NoneLost
<1>1. ASSUME NEW l \in Libraries, NEW h \in Handles,
             CreateBox(l, h) \/ RemoveMember(l, h) \/ AddMembers(l, h)
      PROVE  Goal
  <2>1. CASE CreateBox(l, h)
    BY <2>1, CreateSpares
  <2>2. CASE RemoveMember(l, h) \/ AddMembers(l, h)
    <3>1. /\ UNCHANGED <<job, sweep, lastId, written>>
          /\ UNCHANGED boxes \/ \E id, m : boxes' = Changed(id, m)
      BY <2>2 DEF RemoveMember, AddMembers, rest, ids
    <3> QED BY <3>1, ChangeSpares
  <2> QED BY <1>1, <2>1, <2>2
<1>2. ASSUME NEW l \in Libraries, NEW h \in Handles, NEW r, TakeBox(l, h, r) \/ PurgeBox(l, h, r)
      PROVE  Goal
  <2>1. CASE TakeBox(l, h, r)
    BY <2>1, TakeSpares DEF TakeBox, dest
  <2>2. CASE PurgeBox(l, h, r)
    BY <2>2, PurgeSpares
  <2> QED BY <1>2, <2>1, <2>2
<1>3. ASSUME \/ StartSweep \/ SweptUser \/ Rerun
             \/ (\E u \in Users : SweepUser(u)) \/ (\E id \in sweep.left : SweepBox(id))
      PROVE  Goal
  BY <1>3, SweepSpares
<1>4. UNCHANGED <<job, sweep, lastId, written, boxes>> => Goal
  BY ChangeSpares
<1>5. ASSUME NEW l \in Libraries, StartTask(l) \/ CancelTask(l) \/ EndTask(l)
      PROVE  UNCHANGED <<job, sweep, lastId, written, boxes>>
  BY <1>5 DEF StartTask, CancelTask, EndTask, dest, ids
<1>6. ASSUME NEW l \in Libraries, NEW h \in Handles,
             \/ EndPhase(l, h) \/ StartUser(l, h) \/ LoseListing(l, h)
             \/ WriteRow(l, h) \/ Resolve(l, h)
      PROVE  UNCHANGED <<job, sweep, lastId, written, boxes>>
  BY <1>6 DEF EndPhase, StartUser, LoseListing, WriteRow, Resolve, rest, dest, ids
<1>7. ASSUME NEW l \in Libraries, NEW h \in Handles, NEW r, ReadRow(l, h, r) \/ RateRow(l, h, r)
      PROVE  UNCHANGED <<job, sweep, lastId, written, boxes>>
  BY <1>7 DEF ReadRow, RateRow, rest, dest, ids
<1>8. Stop \/ UNCHANGED vars => UNCHANGED <<job, sweep, lastId, written, boxes>>
  BY DEF Stop, vars, dest, ids
<1> HIDE DEF Goal
<1>9. Goal
  BY <1>1, <1>2, <1>3, <1>4, <1>5, <1>6, <1>7, <1>8 DEF Next
<1> QED
  BY <1>9 DEF Goal

(* Where users keep their name, no step of a run deletes a playlist that   *)
(* it has created or updated, the sweep of a stopped Replace included      *)
(* (purge_dest_only_playlists).                                            *)
LEMMA EngineSpares == ASSUME Named PROVE Spec => SweepSparesRestored
<1>1. Init => SpareInv
  BY DEF Init, SpareInv, NoSweep
<1>2. RestoreInv /\ JobLibs /\ SpareInv /\ [Next]_vars => SpareInv'
  BY SparesStep
<1>3. RestoreInv /\ JobLibs /\ SpareInv /\ [Next]_vars =>
        [\A b \in boxes : (b.kind = "playlists" /\ b.id \in written /\ b.title \notin PieceTitles)
                              => \E c \in boxes' : c.id = b.id]_vars
  BY SparesStep DEF Piecemeal
<1> QED
  BY <1>1, <1>2, <1>3, RestoreIsSafe, TasksAreTheJobs, PTL DEF Spec, SweepSparesRestored

-----------------------------------------------------------------------------
(* What a run that nothing disturbed has done                              *)

(* A phase begins when the one before it has nothing left.                 *)
Begins(l, h, k) ==
    /\ Enter(l, h, k) /\ UNCHANGED <<job, dest>> /\ cur[l][h] = NoWork
    /\ \/ phase[l][h] = "off" /\ k = "watch"
       \/ phase[l][h] \notin Still /\ k = After(phase[l][h]) /\ todo[l][h] = {}
TakesRow(l, h, r) == ReadRow(l, h, r) \/ RateRow(l, h, r) \/ TakeBox(l, h, r) \/ PurgeBox(l, h, r)
MakesCall(l, h) == \/ WriteRow(l, h) \/ Resolve(l, h) \/ CreateBox(l, h)
               \/ RemoveMember(l, h) \/ AddMembers(l, h)
SweepSteps == \/ StartSweep \/ SweptUser \/ (\E u \in Users : SweepUser(u))
          \/ (\E id \in sweep.left : SweepBox(id))
Asides == Stop \/ SweepSteps \/ UNCHANGED vars \/ \E l \in Libraries : CancelTask(l) \/ EndTask(l)

LEMMA StepKinds ==
    ASSUME RestoreAssumption, RestoreInv, [Next]_vars, ~stop, clean'
    PROVE  \/ \E l \in Libraries, h \in Handles, k \in Phases : Begins(l, h, k)
           \/ \E l \in Libraries, h \in Handles : \E r : TakesRow(l, h, r)
           \/ \E l \in Libraries, h \in Handles : MakesCall(l, h)
           \/ Rerun \/ Asides
<1> DEFINE Kind == \/ \E l \in Libraries, h \in Handles, k \in Phases : Begins(l, h, k)
                   \/ \E l \in Libraries, h \in Handles : \E r : TakesRow(l, h, r)
                   \/ \E l \in Libraries, h \in Handles : MakesCall(l, h)
                   \/ Rerun \/ Asides
<1>1. ASSUME NEW l \in Libraries, StartTask(l)
      PROVE  Kind
  <2>1. Owner \in Handles /\ phase[l][Owner] = "off"
    BY <1>1 DEF StartTask, RestoreInv, LibInv, LibOk, RestoreAssumption, Handles
  <2>2. Enter(l, Owner, "watch") /\ UNCHANGED <<job, dest>> /\ "watch" \in Phases
    BY <1>1 DEF StartTask, Phases, Kinds
  <2>3. cur[l][Owner] = NoWork
    BY <2>1, AtRest
  <2>4. Begins(l, Owner, "watch")
    BY <2>1, <2>2, <2>3 DEF Begins
  <2> QED BY <2>1, <2>2, <2>4
<1>2. ASSUME NEW l \in Libraries, NEW h \in Handles, StartUser(l, h)
      PROVE  Kind
  <2>1. phase[l][h] = "off" /\ Enter(l, h, "watch") /\ UNCHANGED <<job, dest>> /\ "watch" \in Phases
    BY <1>2 DEF StartUser, Phases, Kinds
  <2>2. cur[l][h] = NoWork
    BY <2>1, AtRest
  <2>3. Begins(l, h, "watch")
    BY <2>1, <2>2 DEF Begins
  <2> QED BY <2>1, <2>3
<1>3. ASSUME NEW l \in Libraries, NEW h \in Handles, EndPhase(l, h)
      PROVE  Kind
  <2>1. /\ phase[l][h] \notin Still /\ Enter(l, h, After(phase[l][h])) /\ todo[l][h] = {}
        /\ UNCHANGED <<job, dest>> /\ cur[l][h] = NoWork
    BY <1>3 DEF EndPhase, Through, Halts, Still
  <2>2. After(phase[l][h]) \in Phases
    BY DEF After, Phases, Kinds
  <2>3. Begins(l, h, After(phase[l][h]))
    BY <2>1 DEF Begins
  <2> QED BY <2>2, <2>3
<1>4. ASSUME NEW l \in Libraries, CancelTask(l) \/ EndTask(l)
      PROVE  Kind
  BY <1>4 DEF Asides
<1>5. ASSUME NEW l \in Libraries, NEW h \in Handles,
             \/ WriteRow(l, h) \/ Resolve(l, h)
             \/ CreateBox(l, h) \/ RemoveMember(l, h) \/ AddMembers(l, h)
      PROVE  Kind
  BY <1>5 DEF MakesCall
<1>6. ASSUME NEW l \in Libraries, NEW h \in Handles, NEW r,
             ReadRow(l, h, r) \/ RateRow(l, h, r) \/ TakeBox(l, h, r) \/ PurgeBox(l, h, r)
      PROVE  Kind
  BY <1>6 DEF TakesRow
<1>7. ASSUME \/ Stop \/ StartSweep \/ SweptUser \/ Rerun \/ UNCHANGED vars
             \/ (\E u \in Users : SweepUser(u)) \/ (\E id \in sweep.left : SweepBox(id))
      PROVE  Kind
  BY <1>7 DEF Asides, SweepSteps
<1>9. \A l \in Libraries, h \in Handles : ~LoseListing(l, h)
  BY DEF LoseListing, Fail
<1> HIDE DEF Kind
<1>8. Kind
  BY <1>1, <1>2, <1>3, <1>4, <1>5, <1>6, <1>7, <1>9 DEF Next
<1> QED
  BY <1>8 DEF Kind

(* What each kind of step leaves alone.                                    *)
LEMMA BeginsElsewhere ==
    ASSUME RestoreInv, NEW l \in Libraries, NEW h \in Handles, NEW k, Begins(l, h, k),
           NEW m \in Libraries, NEW g \in Handles, ~(m = l /\ g = h)
    PROVE  /\ phase'[m][g] = phase[m][g] /\ todo'[m][g] = todo[m][g]
           /\ cur'[m][g] = cur[m][g] /\ found'[m][g] = found[m][g]
           /\ existing'[m][g] = existing[m][g]
<1>1. /\ phase' = Set(phase, l, h, k) /\ \E x : todo' = Set(todo, l, h, x)
      /\ \E x : found' = Set(found, l, h, x)
      /\ \E x : existing' = Set(existing, l, h, x)
      /\ \E x : cur' = Set(cur, l, h, x)
  <2>1. existing = Set(existing, l, h, existing[l][h]) /\ cur = Set(cur, l, h, cur[l][h])
    BY ShapesNow, SetShape
  <2> QED BY <2>1 DEF Begins, Enter
<1> QED
  BY <1>1, ShapesNow, SetShape

LEMMA BeginsPhase ==
    ASSUME RestoreInv, NEW l \in Libraries, NEW h \in Handles, NEW k, Begins(l, h, k)
    PROVE  phase'[l][h] = k /\ UNCHANGED <<job, dest>> /\ cur[l][h] = NoWork
BY ShapesNow, SetShape DEF Begins, Enter

LEMMA BeginsAt ==
    ASSUME RestoreInv, NEW l \in Libraries, NEW h \in Handles, NEW k, Begins(l, h, k)
    PROVE  /\ UNCHANGED <<job, dest>> /\ cur[l][h] = NoWork
           /\ phase'[l][h] = k /\ found'[l][h] = {}
           /\ k = "purge" => todo'[l][h] = IF Replace /\ Included(l, "collections")
                                           THEN DestOnly(l, h) ELSE {}
           /\ k \in Kinds => todo'[l][h] = IF Included(l, k) THEN Rows(l, h, k) ELSE {}
           /\ k \in Still => todo'[l][h] = {}
           /\ cur'[l][h] = IF k \in Boxing /\ Included(l, k) /\ Rows(l, h, k) # {}
                           THEN [is |-> "resolving", cold |-> stop] ELSE NoWork
           /\ existing'[l][h] = IF k \in Boxing THEN {b.id : b \in Existing(l, h, k)}
                                ELSE existing[l][h]
BY ShapesNow, SetShape DEF Begins, Enter, Boxing, Kinds, Still

LEMMA BeginsHand ==
    ASSUME RestoreInv, NEW l \in Libraries, NEW h \in Handles, NEW k, Begins(l, h, k)
    PROVE  cur[l][h] = NoWork /\ cur'[l][h].is \in {"nothing", "resolving"}
<1>1. cur[l][h] = NoWork
  BY BeginsPhase
<1>2. cur'[l][h] = IF k \in Boxing /\ Included(l, k) /\ Rows(l, h, k) # {}
                   THEN [is |-> "resolving", cold |-> stop] ELSE NoWork
  BY BeginsAt
<1>3. CASE cur'[l][h] = [is |-> "resolving", cold |-> stop]
  BY <1>1, <1>3
<1>4. CASE cur'[l][h] = NoWork
  BY <1>1, <1>4 DEF NoWork
<1> QED
  BY <1>2, <1>3, <1>4

LEMMA TakesRowAt ==
    ASSUME RestoreInv, NEW l \in Libraries, NEW h \in Handles, NEW r, TakesRow(l, h, r)
    PROVE  /\ UNCHANGED <<job, cached, roster, lib, phase, existing, found, sweep, stop, runs, settled>>
           /\ cur[l][h] = NoWork /\ r \in todo[l][h] /\ todo'[l][h] = todo[l][h] \ {r}
           /\ \A m \in Libraries, g \in Handles : ~(m = l /\ g = h) =>
                 todo'[m][g] = todo[m][g] /\ cur'[m][g] = cur[m][g]
<1>1. /\ UNCHANGED <<rest, found>> /\ Took(l, h, r)
      /\ UNCHANGED cur \/ \E c : cur' = Set(cur, l, h, c)
  BY DEF TakesRow, ReadRow, RateRow, TakeBox, PurgeBox, Do
<1> QED
  BY <1>1, ShapesNow, SetShape DEF Took, rest

LEMMA MakesCallAt ==
    ASSUME RestoreInv, NEW l \in Libraries, NEW h \in Handles, MakesCall(l, h)
    PROVE  /\ UNCHANGED <<job, cached, roster, lib, phase, existing, todo, sweep, stop, runs, settled>>
           /\ cur[l][h] # NoWork
           /\ \A m \in Libraries, g \in Handles : ~(m = l /\ g = h) =>
                 found'[m][g] = found[m][g] /\ cur'[m][g] = cur[m][g]
<1>1. UNCHANGED <<rest, todo>> /\ (\E c : cur' = Set(cur, l, h, c)) /\ cur[l][h].is # "nothing"
  BY Zenon DEF MakesCall, WriteRow, Resolve, CreateBox, RemoveMember, AddMembers, Do
<1>2. UNCHANGED found \/ \E x : found' = Set(found, l, h, x)
  BY Zenon DEF MakesCall, WriteRow, Resolve, CreateBox, RemoveMember, AddMembers
<1> QED
  BY <1>1, <1>2, ShapesNow, SetShape DEF rest, NoWork

LEMMA AsidesLeave ==
    ASSUME Asides
    PROVE  /\ UNCHANGED <<job, views, offset, rating, cached, roster, phase, todo, found, existing,
                          cur, runs, settled>>
           /\ boxes' = boxes \/ \E id \in sweep.left : SweepBox(id)
BY DEF Asides, SweepSteps, Stop, StartSweep, SweptUser, SweepUser, SweepBox, CancelTask, EndTask,
       over,
       work, dest, vars

LEMMA CleanBefore == ASSUME [Next]_vars, clean' PROVE clean
<1>1. ASSUME NEW l \in Libraries, StartTask(l) \/ CancelTask(l) \/ EndTask(l)
      PROVE  clean
  BY <1>1, Zenon DEF StartTask, CancelTask, EndTask
<1>2. ASSUME NEW l \in Libraries, NEW h \in Handles,
             \/ EndPhase(l, h) \/ StartUser(l, h) \/ LoseListing(l, h)
             \/ WriteRow(l, h) \/ Resolve(l, h)
             \/ CreateBox(l, h) \/ RemoveMember(l, h) \/ AddMembers(l, h)
      PROVE  clean
  BY <1>2, Zenon DEF EndPhase, StartUser, LoseListing, WriteRow, Resolve, CreateBox, RemoveMember,
                    AddMembers, Fail, Succeed
<1>3. ASSUME NEW l \in Libraries, NEW h \in Handles, NEW r,
             ReadRow(l, h, r) \/ RateRow(l, h, r) \/ TakeBox(l, h, r) \/ PurgeBox(l, h, r)
      PROVE  clean
  BY <1>3 DEF ReadRow, RateRow, TakeBox, PurgeBox, Fail, Succeed
<1>4. ASSUME \/ Stop \/ StartSweep \/ SweptUser \/ Rerun \/ UNCHANGED vars
             \/ (\E u \in Users : SweepUser(u)) \/ (\E id \in sweep.left : SweepBox(id))
      PROVE  clean
  BY <1>4 DEF Stop, StartSweep, SweptUser, Rerun, SweepUser, SweepBox, Fail, Succeed, vars
<1> QED
  BY <1>1, <1>2, <1>3, <1>4 DEF Next

(* The tasks of an undisturbed run: none is cancelled, and one that is     *)
(* done has been through every phase of every user it is for.              *)
TasksInv ==
    clean => /\ ~stop
             /\ \A l \in Libraries \cap job.libraries :
                   /\ lib[l] # "cancelled"
                   /\ lib[l] = "done" =>
                         \A h \in Handles : h = Owner \/ Selected(h) => phase[l][h] = "done"

LEMMA TasksStep ==
    ASSUME RestoreAssumption, RestoreInv, TasksInv, [Next]_vars
    PROVE  TasksInv'
<1> SUFFICES ASSUME clean'
             PROVE  TasksInv'
  BY DEF TasksInv
<1>1. clean /\ ~stop
  BY CleanBefore DEF TasksInv
<1> DEFINE Done(l) == \A h \in Handles : h = Owner \/ Selected(h) => phase[l][h] = "done"
           Fine(l) == lib[l] # "cancelled" /\ (lib[l] = "done" => Done(l))
<1>2. \A l \in Libraries \cap job.libraries : Fine(l)
  BY <1>1 DEF TasksInv
<1>3. ASSUME job' = job, ~stop', \A l \in Libraries \cap job.libraries :
                lib'[l] # "cancelled" /\ (lib'[l] = "done" => lib[l] = "done" /\ phase'[l] = phase[l])
      PROVE  TasksInv'
  BY <1>2, <1>3, SameJob DEF TasksInv
<1>4. ASSUME NEW l \in Libraries, StartTask(l) \/ CancelTask(l)
      PROVE  TasksInv'
  <2>1. StartTask(l) /\ lib' = [lib EXCEPT ![l] = "owner"] /\ UNCHANGED <<job, stop>>
    BY <1>1, <1>4 DEF StartTask, CancelTask
  <2>2. \E k : phase' = Set(phase, l, Owner, k)
    BY <2>1 DEF StartTask, Enter
  <2>3. \A m \in Libraries \ {l} : phase'[m] = phase[m] /\ lib'[m] = lib[m]
    BY <2>1, <2>2 DEF Set, RestoreInv, Shapes, Shape
  <2>4. lib'[l] = "owner"
    BY <2>1 DEF RestoreInv, Shapes
  <2> HIDE DEF Fine
  <2>5. ASSUME NEW m \in Libraries \cap job.libraries
        PROVE  lib'[m] # "cancelled" /\ (lib'[m] = "done" => lib[m] = "done" /\ phase'[m] = phase[m])
    BY <1>2, <2>3, <2>4 DEF Fine
  <2> QED BY <1>1, <1>3, <2>1, <2>5
<1>5. ASSUME NEW l \in Libraries, EndTask(l)
      PROVE  TasksInv'
  <2>1. UNCHANGED <<job, stop, phase>> /\ lib' = [lib EXCEPT ![l] = "done"] /\ lib[l] = "users"
    BY <1>5 DEF EndTask
  <2>2. Done(l)
    BY <1>5, <2>1 DEF EndTask, RestoreInv, LibInv, LibOk
  <2>3. \A m \in Libraries \cap job.libraries : lib'[m] # "cancelled" /\ (lib'[m] = "done" => Done(m))
    BY <1>2, <2>1, <2>2 DEF RestoreInv, Shapes
  <2> QED BY <1>1, <2>1, <2>3, SameJob DEF TasksInv
<1>6. ASSUME NEW l \in Libraries, NEW h \in Handles, EndPhase(l, h) \/ StartUser(l, h)
      PROVE  TasksInv'
  <2>1. /\ UNCHANGED <<job, stop>> /\ (lib' = lib \/ lib' = [lib EXCEPT ![l] = "users"])
        /\ lib[l] # "done" /\ \E k : phase' = Set(phase, l, h, k)
    BY <1>1, <1>6 DEF EndPhase, Through, Halts, StartUser, Enter, RestoreInv, LibInv, LibOk, Still
  <2>2. \A m \in Libraries \ {l} : phase'[m] = phase[m] /\ lib'[m] = lib[m]
    BY <2>1 DEF Set, RestoreInv, Shapes, Shape
  <2>3. lib'[l] = lib[l] \/ lib'[l] = "users"
    BY <2>1 DEF RestoreInv, Shapes
  <2> HIDE DEF Fine
  <2>4. ASSUME NEW m \in Libraries \cap job.libraries
        PROVE  lib'[m] # "cancelled" /\ (lib'[m] = "done" => lib[m] = "done" /\ phase'[m] = phase[m])
    BY <1>2, <2>1, <2>2, <2>3 DEF Fine
  <2> QED BY <1>1, <1>3, <2>1, <2>4
<1>7. CASE Rerun
  BY <1>7 DEF Rerun, TasksInv
<1>8. UNCHANGED <<job, stop, lib, phase>> => TasksInv'
  BY <1>1, <1>2, <1>3
<1>9. ASSUME NEW l \in Libraries, NEW h \in Handles,
             \/ WriteRow(l, h) \/ Resolve(l, h)
             \/ CreateBox(l, h) \/ RemoveMember(l, h) \/ AddMembers(l, h)
      PROVE  TasksInv'
  <2>1. UNCHANGED <<job, stop, lib, phase>>
    BY <1>9, Zenon DEF WriteRow, Resolve, CreateBox, RemoveMember, AddMembers, rest
  <2> QED BY <1>8, <2>1
<1>10. ASSUME NEW l \in Libraries, NEW h \in Handles, NEW r, TakesRow(l, h, r)
       PROVE  TasksInv'
  <2>1. UNCHANGED <<job, stop, lib, phase>>
    BY <1>10 DEF TakesRow, ReadRow, RateRow, TakeBox, PurgeBox, rest
  <2> QED BY <1>8, <2>1
<1>11. ASSUME SweepSteps \/ UNCHANGED vars
       PROVE  TasksInv'
  <2>1. UNCHANGED <<job, stop, lib, phase>>
    BY <1>11 DEF SweepSteps, StartSweep, SweptUser, SweepUser, SweepBox, over, work, vars
  <2> QED BY <1>8, <2>1
<1>12. ~Stop
  BY DEF Stop
<1>13. \A l \in Libraries, h \in Handles : ~LoseListing(l, h)
  BY DEF LoseListing, Fail
<1> QED
  BY <1>4, <1>5, <1>6, <1>7, <1>9, <1>10, <1>11, <1>12, <1>13 DEF Next, TakesRow, SweepSteps

(* A row is still to come, as long as its phase has not begun or has not   *)
(* taken it up.                                                            *)
Before(k) == CASE k = "watch" -> {"off"} [] k = "playlists" -> {"off", "watch"}
               [] k = "collections" -> {"off", "watch", "playlists"}
               [] OTHER -> {"off", "watch", "playlists", "collections", "purge"}
ToCome(l, h, k, r) == phase[l][h] \in Before(k) \/ (phase[l][h] = k /\ r \in todo[l][h])

LEMMA StaysToCome ==
    ASSUME RestoreAssumption, RestoreInv, TasksInv, clean', [Next]_vars,
           NEW l \in Libraries, NEW h \in Handles, NEW k \in Kinds, NEW r \in Rows(l, h, k),
           Included(l, k), ToCome(l, h, k, r)
    PROVE  \/ ToCome(l, h, k, r)'
           \/ phase[l][h] = k /\ r \in todo[l][h] /\ TakesRow(l, h, r)
<1>1. ~stop
  BY CleanBefore DEF TasksInv
<1>2. ASSUME phase'[l][h] = phase[l][h], todo'[l][h] = todo[l][h]
      PROVE  ToCome(l, h, k, r)'
  BY <1>2 DEF ToCome
<1>3. ASSUME NEW m \in Libraries, NEW g \in Handles, NEW n \in Phases, Begins(m, g, n)
      PROVE  ToCome(l, h, k, r)'
  <2>1. CASE m = l /\ g = h
    <3>1. phase'[l][h] = n /\ (n = k => todo'[l][h] = Rows(l, h, k))
      <4>1. Begins(l, h, n)
        BY <1>3, <2>1
      <4>2. phase'[l][h] = n
        BY <4>1, BeginsPhase
      <4>3. CASE n = k
        <5>1. Begins(l, h, k)
          BY <4>1, <4>3
        <5> QED BY <4>2, <5>1, BeginsAt
      <4> QED BY <4>2, <4>3
    <3>2. phase[l][h] \in Before(k)
      BY <1>3, <2>1 DEF Begins, ToCome, Kinds, Still
    <3>3. n = k \/ n \in Before(k)
      <4>1. \/ phase[l][h] = "off" /\ n = "watch"
            \/ phase[l][h] \notin Still /\ n = After(phase[l][h])
        BY <1>3, <2>1 DEF Begins
      <4> QED BY <3>2, <4>1 DEF Before, After, Kinds, Still
    <3> QED BY <3>1, <3>3 DEF ToCome
  <2>2. CASE ~(m = l /\ g = h)
    <3>1. phase'[l][h] = phase[l][h] /\ todo'[l][h] = todo[l][h]
      BY <1>3, <2>2, BeginsElsewhere
    <3> QED BY <1>2, <3>1
  <2> QED BY <2>1, <2>2
<1>4. ASSUME NEW m \in Libraries, NEW g \in Handles, NEW s, TakesRow(m, g, s)
      PROVE  \/ ToCome(l, h, k, r)'
             \/ phase[l][h] = k /\ r \in todo[l][h] /\ TakesRow(l, h, r)
  <2>1. CASE m = l /\ g = h
    <3>1. todo'[l][h] = todo[l][h] \ {s} /\ phase'[l][h] = phase[l][h]
      BY <1>4, <2>1, TakesRowAt
    <3> QED BY <1>4, <2>1, <3>1 DEF ToCome
  <2>2. CASE ~(m = l /\ g = h)
    BY <1>2, <1>4, <2>2, TakesRowAt
  <2> QED BY <2>1, <2>2
<1>5. ASSUME NEW m \in Libraries, NEW g \in Handles, MakesCall(m, g)
      PROVE  ToCome(l, h, k, r)'
  BY <1>2, <1>5, MakesCallAt
<1>6. CASE Rerun
  BY <1>6 DEF Rerun, ToCome, Before, Kinds
<1>7. CASE Asides
  BY <1>2, <1>7, AsidesLeave
<1> QED
  BY <1>1, <1>3, <1>4, <1>5, <1>6, <1>7, StepKinds

-----------------------------------------------------------------------------
(* What an undisturbed run leaves of the watch history                     *)

(* Every job is complete: it is about libraries and users there are, a     *)
(* view count is a number, a container of a user is in the payload once,   *)
(* and the sweep of playlists is asked for only with the playlists of      *)
(* every library and for users that are restored.                          *)
Complete ==
    \A j \in Jobs :
        /\ j.libraries \subseteq Libraries
        /\ \A r \in j.payload \cup Payload(j) :
              r.handle \in Handles /\ (r.kind = "watch" => r.views \in Nat)
        /\ \A r, s \in Payload(j) :
              (/\ r.kind \in Boxing /\ s.kind = r.kind /\ s.handle = r.handle /\ s.title = r.title
               /\ r.kind = "collections" => s.library = r.library) => s = r
        /\ j.sweeps => /\ \A l \in j.libraries : "playlists" \in j.include[l]
                       /\ j.home \subseteq j.users \cup {Owner}

(* The count and the position an item will have when what is at hand is    *)
(* written.                                                                *)
Writing(l, h, i) == cur[l][h].is = "item" /\ cur[l][h].item = i
ViewsTo(l, h, i) ==
    LET n == views[DestUser(h)][i] IN
    IF Writing(l, h, i) THEN (IF cur[l][h].reset THEN 0 ELSE n) + cur[l][h].add ELSE n
OffsetTo(l, h, i) ==
    IF Writing(l, h, i) /\ cur[l][h].place THEN cur[l][h].offset ELSE offset[DestUser(h)][i]

(* What a row asks for: in Replace the snapshot's count and position, in   *)
(* Merge at least its count.                                               *)
WatchFits(r, n, o) == IF Replace THEN n = r.views /\ o = r.offset ELSE n >= r.views
WatchOk(l, h) ==
    \A r \in Rows(l, h, "watch") : Included(l, "watch") /\ r.views <= Cap =>
        ToCome(l, h, "watch", r) \/ WatchFits(r, ViewsTo(l, h, r.item), OffsetTo(l, h, r.item))
AddsOk(l, h) == cur[l][h].is = "item" => cur[l][h].add \in Nat
WatchInv == clean => \A l \in Libraries, h \in Handles : AddsOk(l, h) /\ WatchOk(l, h)

LEMMA JobStays == ASSUME [Next]_vars PROVE job' = job
<1>1. ASSUME NEW l \in Libraries, StartTask(l) \/ CancelTask(l) \/ EndTask(l)
      PROVE  job' = job
  BY <1>1 DEF StartTask, CancelTask, EndTask
<1>2. ASSUME NEW l \in Libraries, NEW h \in Handles,
             \/ EndPhase(l, h) \/ StartUser(l, h) \/ LoseListing(l, h)
             \/ WriteRow(l, h) \/ Resolve(l, h)
             \/ CreateBox(l, h) \/ RemoveMember(l, h) \/ AddMembers(l, h)
      PROVE  job' = job
  BY <1>2, Zenon DEF EndPhase, StartUser, LoseListing, WriteRow, Resolve, CreateBox,
                     RemoveMember, AddMembers, rest
<1>3. ASSUME NEW l \in Libraries, NEW h \in Handles, NEW r,
             ReadRow(l, h, r) \/ RateRow(l, h, r) \/ TakeBox(l, h, r) \/ PurgeBox(l, h, r)
      PROVE  job' = job
  BY <1>3 DEF ReadRow, RateRow, TakeBox, PurgeBox, rest
<1>4. CASE \/ Stop \/ StartSweep \/ SweptUser \/ Rerun \/ UNCHANGED vars
           \/ (\E u \in Users : SweepUser(u)) \/ (\E id \in sweep.left : SweepBox(id))
  BY <1>4 DEF Stop, StartSweep, SweptUser, Rerun, SweepUser, SweepBox, over, vars
<1> QED
  BY <1>1, <1>2, <1>3, <1>4 DEF Next

LEMMA SameFits ==
    ASSUME job' = job
    PROVE  /\ \A r, n, o : WatchFits(r, n, o)' = WatchFits(r, n', o')
           /\ \A l, k : Included(l, k)' = Included(l, k)
BY SameJob DEF WatchFits, Included

(* A step that writes no count and takes up no row leaves what is at hand. *)
LEMMA HandLeft ==
    ASSUME RestoreAssumption, RestoreInv, ~stop, clean', [Next]_vars,
           NEW l \in Libraries, NEW h \in Handles, ~WriteRow(l, h), \A r : ~ReadRow(l, h, r)
    PROVE  cur'[l][h] = cur[l][h] \/ (cur[l][h].is # "item" /\ cur'[l][h].is # "item")
<1> DEFINE Same == cur'[l][h] = cur[l][h] \/ (cur[l][h].is # "item" /\ cur'[l][h].is # "item")
<1>0. NoWork.is # "item"
  BY DEF NoWork
<1>1. ASSUME NEW m \in Libraries, NEW g \in Handles, NEW k, Begins(m, g, k)
      PROVE  Same
  <2>1. CASE m = l /\ g = h
    <3>1. Begins(l, h, k)
      BY <1>1, <2>1
    <3>2. cur[l][h] = NoWork /\ cur'[l][h].is \in {"nothing", "resolving"}
      BY <3>1, BeginsHand
    <3> QED BY <1>0, <3>2
  <2>2. CASE ~(m = l /\ g = h)
    BY <1>1, <2>2, BeginsElsewhere
  <2> QED BY <2>1, <2>2
<1>2. ASSUME NEW m \in Libraries, NEW g \in Handles, NEW r, TakesRow(m, g, r)
      PROVE  Same
  <2>1. CASE m = l /\ g = h
    <3>1. CASE TakeBox(l, h, r)
      <4>1. cur[l][h] = NoWork
        BY <3>1 DEF TakeBox, Took
      <4>2. UNCHANGED cur \/ \E c : c.is # "item" /\ cur' = Set(cur, l, h, c)
        BY <3>1 DEF TakeBox, Do
      <4> QED BY <1>0, <4>1, <4>2, ShapesNow, SetShape
    <3>2. CASE RateRow(l, h, r) \/ PurgeBox(l, h, r)
      BY <3>2 DEF RateRow, PurgeBox
    <3> QED BY <1>2, <2>1, <3>1, <3>2 DEF TakesRow
  <2>2. CASE ~(m = l /\ g = h)
    BY <1>2, <2>2, TakesRowAt
  <2> QED BY <2>1, <2>2
<1>3. ASSUME NEW m \in Libraries, NEW g \in Handles, MakesCall(m, g)
      PROVE  Same
  <2>1. CASE m = l /\ g = h
    <3>1. Resolve(l, h) \/ CreateBox(l, h) \/ RemoveMember(l, h) \/ AddMembers(l, h)
      BY <1>3, <2>1 DEF MakesCall
    <3>2. cur[l][h].is # "item"
      BY <3>1 DEF Resolve, CreateBox, RemoveMember, AddMembers
    <3>3. \E c : c.is # "item" /\ cur' = Set(cur, l, h, c)
      <4>1. CASE RemoveMember(l, h)
        <5>1. PICK i : cur' = Set(cur, l, h, [cur[l][h] EXCEPT !.remove = @ \ {i}])
          BY <4>1 DEF RemoveMember, Do
        <5>2. HandOk(l, h, cur[l][h]) /\ cur[l][h].is = "box"
          BY <4>1, ShapesNow DEF RemoveMember
        <5>3. cur[l][h] = [is |-> "box", id |-> cur[l][h].id, add |-> cur[l][h].add,
                           remove |-> cur[l][h].remove]
          BY <5>2 DEF HandOk, NoWork
        <5>4. [cur[l][h] EXCEPT !.remove = @ \ {i}].is # "item"
          BY <5>3
        <5> QED BY <5>1, <5>4
      <4>2. CASE Resolve(l, h) \/ CreateBox(l, h) \/ AddMembers(l, h)
        BY <1>0, <4>2 DEF Resolve, CreateBox, AddMembers, Do
      <4> QED BY <3>1, <4>1, <4>2
    <3> QED BY <3>2, <3>3, ShapesNow, SetShape
  <2>2. CASE ~(m = l /\ g = h)
    BY <1>3, <2>2, MakesCallAt
  <2> QED BY <2>1, <2>2
<1>4. ASSUME Rerun \/ Asides
      PROVE  Same
  BY <1>4, AsidesLeave DEF Rerun
<1> HIDE DEF Same
<1>5. \/ \E m \in Libraries, g \in Handles, k \in Phases : Begins(m, g, k)
      \/ \E m \in Libraries, g \in Handles : \E r : TakesRow(m, g, r)
      \/ \E m \in Libraries, g \in Handles : MakesCall(m, g)
      \/ Rerun \/ Asides
  BY StepKinds
<1>6. Same
  BY ONLY <1>1, <1>2, <1>3, <1>4, <1>5
<1> QED
  BY <1>6 DEF Same

(* Counts and positions change in WriteRow alone.                          *)
LEMMA CountsStay ==
    ASSUME [Next]_vars, \A l \in Libraries, h \in Handles : ~WriteRow(l, h)
    PROVE  UNCHANGED <<views, offset>>
<1>1. ASSUME NEW l \in Libraries, StartTask(l) \/ CancelTask(l) \/ EndTask(l)
      PROVE  UNCHANGED <<views, offset>>
  BY <1>1 DEF StartTask, CancelTask, EndTask, dest
<1>2. ASSUME NEW l \in Libraries, NEW h \in Handles,
             \/ EndPhase(l, h) \/ StartUser(l, h) \/ LoseListing(l, h) \/ Resolve(l, h)
             \/ CreateBox(l, h) \/ RemoveMember(l, h) \/ AddMembers(l, h)
      PROVE  UNCHANGED <<views, offset>>
  BY <1>2 DEF EndPhase, StartUser, LoseListing, Resolve, CreateBox, RemoveMember, AddMembers, dest
<1>3. ASSUME NEW l \in Libraries, NEW h \in Handles, NEW r,
             ReadRow(l, h, r) \/ RateRow(l, h, r) \/ TakeBox(l, h, r) \/ PurgeBox(l, h, r)
      PROVE  UNCHANGED <<views, offset>>
  BY <1>3 DEF ReadRow, RateRow, TakeBox, PurgeBox, dest
<1>4. CASE \/ Stop \/ StartSweep \/ SweptUser \/ Rerun \/ UNCHANGED vars
           \/ (\E u \in Users : SweepUser(u)) \/ (\E id \in sweep.left : SweepBox(id))
  BY <1>4 DEF Stop, StartSweep, SweptUser, Rerun, SweepUser, SweepBox, over, dest, vars
<1> QED
  BY <1>1, <1>2, <1>3, <1>4 DEF Next

LEMMA SmallerOf == ASSUME NEW a \in Nat, NEW b \in Nat, a <= b PROVE Smaller(a, b) = a
BY DEF Smaller

LEMMA ItemLess ==
    ASSUME NEW i, NEW s, NEW a, NEW p, NEW o
    PROVE  [[is |-> "item", item |-> i, reset |-> s, add |-> a, place |-> p, offset |-> o]
              EXCEPT !.add = @ - 1]
           = [is |-> "item", item |-> i, reset |-> s, add |-> a - 1, place |-> p, offset |-> o]
OBVIOUS

(* What a call leaves at hand.                                             *)
LEMMA WriteRowHand ==
    ASSUME RestoreAssumption, RestoreInv, MergeInv, WatchInv, Separate(job), clean, clean',
           NEW l \in Libraries,
           NEW h \in Handles, WriteRow(l, h)
    PROVE  /\ cur[l][h].is = "item" /\ cur[l][h].item \in Items
           /\ \A i \in Items : /\ ViewsTo(l, h, i)' = ViewsTo(l, h, i)
                               /\ OffsetTo(l, h, i)' = OffsetTo(l, h, i)
           /\ AddsOk(l, h)'
           /\ \A u \in Users, i \in Items :
                 \/ u = DestUser(h) /\ i = cur[l][h].item
                 \/ views'[u][i] = views[u][i] /\ offset'[u][i] = offset[u][i]
<1> DEFINE c == cur[l][h]
           d == DestUser(h)
<1>1. c.is = "item" /\ job' = job /\ HandOk(l, h, c) /\ HandFits(l, h) /\ c.add \in Nat
  BY ShapesNow DEF WriteRow, rest, MergeInv, WatchInv, AddsOk
<1>2. PICK i, s, a, p, o :
          c = [is |-> "item", item |-> i, reset |-> s, add |-> a, place |-> p, offset |-> o]
  <2> HIDE DEF c
  <2>1. c = [is |-> "item", item |-> c.item, reset |-> c.reset, add |-> c.add, place |-> c.place,
             offset |-> c.offset]
    BY <1>1 DEF HandOk, NoWork
  <2> QED BY <2>1
<1>3. s \/ a > 0 \/ p
  <2> HIDE DEF c
  <2>1. c.reset \/ c.add > 0 \/ c.place
    BY <1>1 DEF HandOk, NoWork
  <2>2. c.reset = s /\ c.add = a /\ c.place = p
    BY <1>2
  <2> QED BY <2>1, <2>2, Zenon
<1>4. a \in Nat /\ i \in Items /\ Seen(l, h, i).user = d /\ d \in Users
  <2>1. d \in Users
    BY RestoreAssumption DEF RestoreAssumption, RestoreInv, Shapes, DestUser, Handles
  <2>2. Seen(l, h, c.item).user = d
    BY WritesOwn
  <2>3. c.item = i /\ c.add = a
    BY <1>2
  <2>4. c.item \in Items
    BY <1>1 DEF HandFits
  <2> QED BY <1>1, <2>1, <2>2, <2>3, <2>4
<1> DEFINE f == [is |-> "item", item |-> i, reset |-> FALSE, add |-> a, place |-> p, offset |-> o]
           g == [is |-> "item", item |-> i, reset |-> s, add |-> a - 1, place |-> p, offset |-> o]
<1>5. /\ [c EXCEPT !.reset = FALSE] = f /\ [c EXCEPT !.add = @ - 1] = g
      /\ c.item = i /\ c.reset = s /\ c.add = a /\ c.place = p /\ c.offset = o
  <2> HIDE DEF c
  <2>1. [c EXCEPT !.reset = FALSE] = f
    <3>0. \A t : [[is |-> "item", item |-> i, reset |-> s, add |-> a, place |-> p, offset |-> o]
                    EXCEPT !.reset = t]
                 = [is |-> "item", item |-> i, reset |-> t, add |-> a, place |-> p, offset |-> o]
      BY ItemReset
    <3>1. [[is |-> "item", item |-> i, reset |-> s, add |-> a, place |-> p, offset |-> o]
             EXCEPT !.reset = FALSE] = f
      BY <3>0, Zenon
    <3> QED BY <1>2, <3>1, Zenon
  <2>2. [c EXCEPT !.add = @ - 1] = g
    <3>1. [[is |-> "item", item |-> i, reset |-> s, add |-> a, place |-> p, offset |-> o]
             EXCEPT !.add = @ - 1] = g
      BY ItemLess
    <3> QED BY <1>2, <3>1, Zenon
  <2>3. c.item = i /\ c.reset = s /\ c.add = a /\ c.place = p /\ c.offset = o
    BY <1>2
  <2> QED BY <2>1, <2>2, <2>3
<1>6. \/ /\ s /\ views' = [views EXCEPT ![d][i] = 0] /\ cur' = Set(cur, l, h, Left(f))
         /\ UNCHANGED offset
      \/ /\ ~s /\ a > 0 /\ views' = [views EXCEPT ![d][i] = @ + 1]
         /\ cur' = Set(cur, l, h, Left(g)) /\ UNCHANGED offset
      \/ /\ ~s /\ a = 0 /\ offset' = [offset EXCEPT ![d][i] = o]
         /\ cur' = Set(cur, l, h, NoWork) /\ UNCHANGED views
  <2>1. ~Fail
    BY DEF Fail
  <2> HIDE DEF f, g
  <2> QED BY <1>4, <1>5, <2>1 DEF WriteRow, Do
<1>7. \A x : Set(cur, l, h, x)[l][h] = x
  BY ShapesNow, SetShape
<1>8. views \in [Users -> [Items -> Nat]] /\ OfUsers(offset)
  BY ShapesNow
<1>9. Left(f) = IF a > 0 \/ p THEN f ELSE NoWork
  BY DEF Left
<1>10. Left(g) = IF s \/ a - 1 > 0 \/ p THEN g ELSE NoWork
  BY DEF Left
<1>11. \A u \in Users, j \in Items :
          \/ u = d /\ j = i
          \/ views'[u][j] = views[u][j] /\ offset'[u][j] = offset[u][j]
  <2> HIDE DEF c, d, f, g
  <2>1. /\ views' = views \/ \E x : views' = [views EXCEPT ![d][i] = x]
        /\ offset' = offset \/ \E x : offset' = [offset EXCEPT ![d][i] = x]
    BY <1>6
  <2>2. \A u \in Users, j \in Items : ~(u = d /\ j = i) => views'[u][j] = views[u][j]
    BY <1>8, <2>1
  <2>3. \A u \in Users, j \in Items : ~(u = d /\ j = i) => offset'[u][j] = offset[u][j]
    <3>1. CASE offset' = offset
      BY <3>1
    <3>2. ASSUME NEW x, offset' = [offset EXCEPT ![d][i] = x]
          PROVE  \A u \in Users, j \in Items : ~(u = d /\ j = i) => offset'[u][j] = offset[u][j]
      BY <1>8, <3>2 DEF OfUsers
    <3> QED BY <2>1, <3>1, <3>2
  <2> QED BY <2>2, <2>3
<1> DEFINE n == views[d][i]
           c2 == cur'[l][h]
           w2 == c2.is = "item" /\ c2.item = i
<1>12. /\ (IF w2 THEN (IF c2.reset THEN 0 ELSE views'[d][i]) + c2.add ELSE views'[d][i])
          = (IF s THEN 0 ELSE n) + a
       /\ (IF w2 /\ c2.place THEN c2.offset ELSE offset'[d][i]) = (IF p THEN o ELSE offset[d][i])
       /\ c2.is # "item" \/ (c2.item = i /\ c2.add \in Nat)
  <2>1. n \in Nat
    BY <1>4, <1>8
  <2>2. CASE s /\ views' = [views EXCEPT ![d][i] = 0] /\ cur' = Set(cur, l, h, Left(f))
             /\ UNCHANGED offset
    <3>1. views'[d][i] = 0 /\ c2 = IF a > 0 \/ p THEN f ELSE NoWork
      BY <1>4, <1>7, <1>8, <1>9, <2>2
    <3> HIDE DEF c2, n, d, c
    <3> QED BY <1>4, <2>2, <3>1 DEF NoWork
  <2>3. CASE ~s /\ a > 0 /\ views' = [views EXCEPT ![d][i] = @ + 1]
             /\ cur' = Set(cur, l, h, Left(g)) /\ UNCHANGED offset
    <3>1. views'[d][i] = n + 1 /\ c2 = IF a - 1 > 0 \/ p THEN g ELSE NoWork
      BY <1>4, <1>7, <1>8, <1>10, <2>3
    <3>2. CASE a - 1 > 0 \/ p
      <4>1. /\ c2.is = "item" /\ c2.item = i /\ c2.reset = s /\ c2.add = a - 1 /\ c2.place = p
            /\ c2.offset = o
        BY <3>1, <3>2
      <4>2. (IF c2.reset THEN 0 ELSE n + 1) = n + 1 /\ (IF s THEN 0 ELSE n) = n
        BY <2>3, <4>1, Zenon
      <4>3. (IF c2.place THEN o ELSE offset[d][i]) = (IF p THEN o ELSE offset[d][i])
        BY <4>1, Zenon
      <4> HIDE DEF c2, n, d, c
      <4>4. n + 1 + (a - 1) = n + a /\ a - 1 \in Nat
        BY <1>4, <2>1, <2>3
      <4> QED BY <2>3, <3>1, <4>1, <4>2, <4>3, <4>4
    <3>3. CASE ~(a - 1 > 0 \/ p)
      <4>1. c2 = NoWork /\ a = 1 /\ ~p
        BY <1>4, <2>3, <3>1, <3>3
      <4> HIDE DEF c2, n, d, c
      <4> QED BY <2>1, <2>3, <3>1, <4>1 DEF NoWork
    <3> QED BY <3>2, <3>3
  <2>4. CASE ~s /\ a = 0 /\ offset' = [offset EXCEPT ![d][i] = o]
             /\ cur' = Set(cur, l, h, NoWork) /\ UNCHANGED views
    <3>1. offset'[d][i] = o /\ c2 = NoWork /\ p /\ views'[d][i] = n
      BY <1>3, <1>4, <1>7, <1>8, <2>4 DEF OfUsers
    <3> HIDE DEF c2, n, d, c
    <3> QED BY <1>4, <2>1, <2>4, <3>1 DEF NoWork
  <2> HIDE DEF c, d, f, g, n
  <2> QED BY <1>6, <2>2, <2>3, <2>4
<1>13. ASSUME NEW j \in Items
       PROVE  /\ ViewsTo(l, h, j)' = ViewsTo(l, h, j)
              /\ OffsetTo(l, h, j)' = OffsetTo(l, h, j)
  <2>1. DestUser(h)' = d
    BY <1>1, SameJob
  <2>2. CASE j = i
    BY <1>1, <1>5, <1>12, <2>1, <2>2 DEF ViewsTo, OffsetTo, Writing
  <2>3. CASE j # i
    <3>1. views'[d][j] = views[d][j] /\ offset'[d][j] = offset[d][j]
      BY <1>4, <1>11, <2>3
    <3> QED BY <1>5, <1>12, <2>1, <2>3, <3>1 DEF ViewsTo, OffsetTo, Writing
  <2> QED BY <2>2, <2>3
<1> HIDE DEF f, g, w2, n
<1> QED
  BY <1>1, <1>4, <1>5, <1>11, <1>12, <1>13 DEF AddsOk

(* Whatever is done, but to take up a row of this phase, an item ends with *)
(* what it would have had.                                                 *)
LEMMA OutcomeKept ==
    ASSUME RestoreAssumption, RestoreInv, MergeInv, WatchInv, Separate(job), ~stop, clean,
           clean', [Next]_vars, NEW l \in Libraries, NEW h \in Handles,
           \A r : ~ReadRow(l, h, r), NEW i \in Items, LibOf[i] = l
    PROVE  /\ ViewsTo(l, h, i)' = ViewsTo(l, h, i) /\ OffsetTo(l, h, i)' = OffsetTo(l, h, i)
           /\ AddsOk(l, h)'
<1> DEFINE d == DestUser(h)
<1>1. DestUser(h)' = d /\ d \in Users
  BY RestoreAssumption, JobStays, SameJob DEF RestoreAssumption, RestoreInv, Shapes, DestUser,
                              Handles
<1>2. CASE WriteRow(l, h)
  BY <1>2, WriteRowHand
<1>3. CASE ~WriteRow(l, h)
  <2>1. cur'[l][h] = cur[l][h] \/ (cur[l][h].is # "item" /\ cur'[l][h].is # "item")
    BY <1>3, HandLeft
  <2>2. views'[d][i] = views[d][i] /\ offset'[d][i] = offset[d][i]
    <3>1. CASE \A m \in Libraries, g \in Handles : ~WriteRow(m, g)
      BY <3>1, CountsStay
    <3>2. ASSUME NEW m \in Libraries, NEW g \in Handles, WriteRow(m, g)
          PROVE  views'[d][i] = views[d][i] /\ offset'[d][i] = offset[d][i]
      <4>1. ~(d = DestUser(g) /\ i = cur[m][g].item)
        <5>1. cur[m][g].is = "item" /\ HandFits(m, g)
          BY <3>2 DEF WriteRow, MergeInv
        <5> QED BY <1>3, <3>2, <5>1 DEF HandFits, Separate, DestUser
      <4> QED BY <1>1, <3>2, <4>1, WriteRowHand
    <3> QED BY <3>1, <3>2
  <2>3. AddsOk(l, h)
    BY DEF WatchInv
  <2> QED BY <1>1, <2>1, <2>2, <2>3 DEF ViewsTo, OffsetTo, Writing, AddsOk
<1> QED
  BY <1>2, <1>3

(* A row that is taken up asks for what it says.                           *)
LEMMA ReadRowAsks ==
    ASSUME RestoreAssumption, RestoreInv, MergeInv, Separate(job), ~stop, clean',
           NEW l \in Libraries, NEW h \in Handles, NEW r, ReadRow(l, h, r), r.views \in Nat
    PROVE  /\ r.views <= Cap => WatchFits(r, ViewsTo(l, h, r.item), OffsetTo(l, h, r.item))'
           /\ AddsOk(l, h)'
           /\ \A i \in Items \ {r.item} : /\ ViewsTo(l, h, i)' = ViewsTo(l, h, i)
                                          /\ OffsetTo(l, h, i)' = OffsetTo(l, h, i)
<1> DEFINE d == DestUser(h)
           n == views[d][r.item]
           o == offset[d][r.item]
           w == Writes(r, n, o)
<1>1. /\ phase[l][h] = "watch" /\ cur[l][h] = NoWork /\ r \in Rows(l, h, "watch")
      /\ UNCHANGED <<job, views, offset>>
  BY DEF ReadRow, Took, rest, dest, RestoreInv, LeftInv, Kinds
<1>2. r.item \in Items /\ (r.item \in ByPath => h = Owner)
  BY <1>1, RowsApart
<1>3. Seen(l, h, r.item).views = n /\ Seen(l, h, r.item).offset = o
  <2>1. CASE r.item \in ByPath
    <3>1. h = Owner /\ d = Owner
      BY <1>2, <2>1 DEF Separate, DestUser
    <3>2. Untouched(l)
      BY <1>1, <3>1, OwnerAtWork DEF MergeInv, Still
    <3>3. r \in todo[l][Owner]
      BY <3>1 DEF ReadRow, Took
    <3> QED BY <1>1, <2>1, <3>1, <3>2, <3>3 DEF Untouched, Seen
  <2>2. CASE r.item \notin ByPath
    BY <2>2 DEF Seen
  <2> QED BY <2>1, <2>2
<1>4. cur' = Set(cur, l, h, Left(w))
  <2>1. ~Fail
    BY DEF Fail
  <2> QED BY <1>3, <2>1 DEF ReadRow, Do
<1>5. cur'[l][h] = Left(w)
  <2> HIDE DEF w
  <2> QED BY <1>4, ShapesNow, SetShape
<1>6. n \in Nat /\ Cap \in Nat
  <2>1. d \in Users
    BY RestoreAssumption DEF RestoreAssumption, RestoreInv, Shapes, DestUser, Handles
  <2> QED BY <1>2, <2>1, ShapesNow, RestoreAssumption DEF RestoreAssumption
<1>7. DestUser(h)' = d /\ Replace' = Replace
  BY <1>1, SameJob
<1> HIDE DEF n, o, d
<1> DEFINE reset == Replace /\ n > r.views
           base == IF reset THEN 0 ELSE n
           add == IF Replace THEN r.views - base ELSE MergeViewsToAdd(r.views, n)
           much == Smaller(add, Cap)
           place == IF Replace THEN r.offset # o ELSE add > 0 /\ o = 0 /\ r.offset > 0
<1>8. w = [is |-> "item", item |-> r.item, reset |-> reset, add |-> much, place |-> place,
           offset |-> r.offset]
  BY DEF Writes
<1>9. add \in Nat /\ much \in Nat
  BY <1>6 DEF MergeViewsToAdd, Smaller
<1>10. r.views <= Cap => /\ much = add
                        /\ IF Replace THEN base + add = r.views ELSE n + add >= r.views
  <2>1. add <= r.views
    BY <1>6 DEF MergeViewsToAdd
  <2>2. CASE Replace
    <3>1. base + add = r.views
      BY <1>6, <2>2
    <3> HIDE DEF add, base
    <3>2. r.views <= Cap => Smaller(add, Cap) = add
      <4>1. add \in Nat /\ Cap \in Nat /\ (r.views <= Cap => add <= Cap)
        BY <1>6, <1>9, <2>1
      <4> QED BY <4>1, SmallerOf
    <3> QED BY <2>2, <3>1, <3>2
  <2>3. CASE ~Replace
    <3>1. n + add >= r.views
      BY <1>6, <2>3 DEF MergeViewsToAdd
    <3> HIDE DEF add, base
    <3>2. r.views <= Cap => Smaller(add, Cap) = add
      <4>1. add \in Nat /\ Cap \in Nat /\ (r.views <= Cap => add <= Cap)
        BY <1>6, <1>9, <2>1
      <4> QED BY <4>1, SmallerOf
    <3> QED BY <2>3, <3>1, <3>2
  <2> QED BY <2>2, <2>3
<1>11. Left(w) = IF reset \/ much > 0 \/ place THEN w ELSE NoWork
  <2>1. w.reset = reset /\ w.add = much /\ w.place = place
    BY <1>8
  <2> HIDE DEF w, reset, much, place
  <2> QED BY <2>1, Zenon DEF Left
<1> HIDE DEF w
<1>12. /\ w.is = "item" /\ w.item = r.item /\ w.reset = reset /\ w.add = much
       /\ w.place = place /\ w.offset = r.offset
  BY <1>8
<1>13. /\ ViewsTo(l, h, r.item)' = IF Left(w) = w THEN base + much ELSE n
       /\ OffsetTo(l, h, r.item)' = IF Left(w) = w /\ place THEN r.offset ELSE o
  <2>1. views'[d][r.item] = n /\ offset'[d][r.item] = o
    BY <1>1 DEF n, o, d
  <2>2. n + much = n + much /\ 0 + much = much
    BY <1>9
  <2>3. CASE Left(w) = w
    <3>0. cur'[l][h].is = "item" /\ cur'[l][h].item = r.item /\ cur'[l][h].reset = reset
          /\ cur'[l][h].add = much /\ cur'[l][h].place = place /\ cur'[l][h].offset = r.offset
      BY <1>5, <1>12, <2>3
    <3>1. ViewsTo(l, h, r.item)' = (IF reset THEN 0 ELSE n) + much
      BY <1>7, <2>1, <3>0 DEF ViewsTo, Writing
    <3>2. OffsetTo(l, h, r.item)' = IF place THEN r.offset ELSE o
      BY <1>7, <2>1, <3>0 DEF OffsetTo, Writing
    <3> QED BY <2>3, <3>1, <3>2
  <2>4. CASE Left(w) # w
    <3>1. Left(w) = NoWork
      BY <2>4 DEF Left
    <3> QED BY <1>5, <1>7, <2>1, <2>4, <3>1 DEF ViewsTo, OffsetTo, Writing, NoWork
  <2> QED BY <2>3, <2>4
<1>14. r.views <= Cap => WatchFits(r, ViewsTo(l, h, r.item)', OffsetTo(l, h, r.item)')
  <2>1. Left(w) # w => ~reset /\ ~(much > 0) /\ ~place
    BY <1>11
  <2> QED BY <1>6, <1>9, <1>10, <1>13, <2>1 DEF WatchFits
<1>15. AddsOk(l, h)'
  BY <1>5, <1>9, <1>12 DEF AddsOk, Left, NoWork
<1>16. ASSUME NEW i \in Items \ {r.item}
       PROVE  ViewsTo(l, h, i)' = ViewsTo(l, h, i) /\ OffsetTo(l, h, i)' = OffsetTo(l, h, i)
  <2>1. ~Writing(l, h, i) /\ ~Writing(l, h, i)'
    BY <1>1, <1>5, <1>12 DEF Writing, Left, NoWork
  <2> QED BY <1>1, <1>7, <2>1 DEF ViewsTo, OffsetTo, d
<1> QED
  BY <1>1, <1>14, <1>15, <1>16, SameFits

LEMMA WatchStep ==
    ASSUME RestoreAssumption, Apart, Complete, RestoreInv, MergeInv, TasksInv, WatchInv,
           [Next]_vars
    PROVE  WatchInv'
<1>1. job \in Jobs /\ Separate(job) /\ job' = job
  BY JobStays DEF RestoreInv, Shapes, Apart
<1>2. SUFFICES ASSUME clean', NEW l \in Libraries, NEW h \in Handles
               PROVE  AddsOk(l, h)' /\ WatchOk(l, h)'
  BY DEF WatchInv
<1>3. clean /\ ~stop /\ AddsOk(l, h) /\ WatchOk(l, h)
  BY <1>2, CleanBefore DEF TasksInv, WatchInv
<1> DEFINE Fits(r) == WatchFits(r, ViewsTo(l, h, r.item), OffsetTo(l, h, r.item))
<1>4. ASSUME AddsOk(l, h)', \A r \in Rows(l, h, "watch") : Included(l, "watch") /\ r.views <= Cap =>
                (Fits(r) => Fits(r)') /\ (ToCome(l, h, "watch", r) => ToCome(l, h, "watch", r)' \/ Fits(r)')
      PROVE  AddsOk(l, h)' /\ WatchOk(l, h)'
  <2>1. Rows(l, h, "watch")' = Rows(l, h, "watch") /\ Included(l, "watch")' = Included(l, "watch")
    BY <1>1, SameJob, SameFits
  <2> QED BY <1>3, <1>4, <2>1 DEF WatchOk
<1>5. ASSUME NEW s, ReadRow(l, h, s)
      PROVE  AddsOk(l, h)' /\ WatchOk(l, h)'
  <2>1. s \in Rows(l, h, "watch") /\ s.views \in Nat
    <3>1. s \in Rows(l, h, "watch")
      BY <1>5 DEF ReadRow, Took, RestoreInv, LeftInv, Kinds
    <3> QED BY <1>1, <3>1 DEF Complete, Rows
  <2>2. /\ s.views <= Cap => Fits(s)' /\ AddsOk(l, h)'
        /\ \A i \in Items \ {s.item} : /\ ViewsTo(l, h, i)' = ViewsTo(l, h, i)
                                       /\ OffsetTo(l, h, i)' = OffsetTo(l, h, i)
    BY <1>1, <1>2, <1>3, <1>5, <2>1, ReadRowAsks
  <2>3. AddsOk(l, h)'
    BY <1>1, <1>2, <1>3, <1>5, <2>1, ReadRowAsks
  <2>4. ASSUME NEW r \in Rows(l, h, "watch"), Included(l, "watch"), r.views <= Cap
        PROVE  (Fits(r) => Fits(r)') /\ (ToCome(l, h, "watch", r) => ToCome(l, h, "watch", r)' \/ Fits(r)')
    <3>1. CASE r = s
      BY <2>2, <2>4, <3>1
    <3>2. CASE r # s
      <4>1. r.item \in Items /\ r.item # s.item
        BY <1>1, <2>1, <3>2, RowsApart
      <4>2. Fits(r)' = Fits(r)
        BY <1>1, <2>2, <4>1, SameFits
      <4>3. ToCome(l, h, "watch", r) => ToCome(l, h, "watch", r)'
        BY <1>5, <3>2, TakesRowAt DEF ToCome, TakesRow
      <4> QED BY <4>2, <4>3
    <3> QED BY <3>1, <3>2
  <2> HIDE DEF Fits
  <2> QED BY <1>4, <2>3, <2>4
<1>6. CASE \A s : ~ReadRow(l, h, s)
  <2>1. AddsOk(l, h)'
    <3>1. ASSUME NEW i \in Items, LibOf[i] = l
          PROVE  AddsOk(l, h)'
      BY <1>1, <1>2, <1>3, <1>6, <3>1, OutcomeKept
    <3>2. CASE WriteRow(l, h)
      BY <1>1, <1>2, <1>3, <3>2, WriteRowHand
    <3>3. CASE ~WriteRow(l, h)
      BY <1>2, <1>3, <1>6, <3>3, HandLeft DEF AddsOk
    <3> QED BY <3>2, <3>3
  <2>2. ASSUME NEW r \in Rows(l, h, "watch"), Included(l, "watch"), r.views <= Cap
        PROVE  (Fits(r) => Fits(r)') /\ (ToCome(l, h, "watch", r) => ToCome(l, h, "watch", r)' \/ Fits(r)')
    <3>1. r.item \in Items /\ LibOf[r.item] = l
      BY <1>1, RowsApart
    <3>2. Fits(r)' = Fits(r)
      <4>1. ViewsTo(l, h, r.item)' = ViewsTo(l, h, r.item) /\ OffsetTo(l, h, r.item)' = OffsetTo(l, h, r.item)
        BY <1>1, <1>2, <1>3, <1>6, <3>1, OutcomeKept
      <4> QED BY <1>1, <4>1, SameFits
    <3>3. ToCome(l, h, "watch", r) => ToCome(l, h, "watch", r)'
      <4>1. ~(phase[l][h] = "watch" /\ TakesRow(l, h, r))
        BY <1>6 DEF TakesRow, RateRow, TakeBox, PurgeBox
      <4> QED BY <1>2, <2>2, <4>1, StaysToCome DEF Kinds
    <3> QED BY <3>2, <3>3
  <2> HIDE DEF Fits
  <2> QED BY <1>4, <2>1, <2>2
<1> QED
  BY <1>5, <1>6

-----------------------------------------------------------------------------
(* And of the ratings                                                      *)

RateFits(r, n) == r.value = Unrated \/ (IF Replace THEN n = r.value ELSE n # Unrated)
RateOk(l, h) ==
    \A r \in Rows(l, h, "ratings") : Included(l, "ratings") =>
        ToCome(l, h, "ratings", r) \/ RateFits(r, rating[DestUser(h)][r.item])
RateInv == clean => \A l \in Libraries, h \in Handles : RateOk(l, h)

LEMMA RatingsStay ==
    ASSUME [Next]_vars, \A l \in Libraries, h \in Handles : \A r : ~RateRow(l, h, r)
    PROVE  UNCHANGED rating
<1>1. ASSUME NEW l \in Libraries, StartTask(l) \/ CancelTask(l) \/ EndTask(l)
      PROVE  UNCHANGED rating
  BY <1>1 DEF StartTask, CancelTask, EndTask, dest
<1>2. ASSUME NEW l \in Libraries, NEW h \in Handles,
             \/ EndPhase(l, h) \/ StartUser(l, h) \/ LoseListing(l, h)
             \/ WriteRow(l, h) \/ Resolve(l, h)
             \/ CreateBox(l, h) \/ RemoveMember(l, h) \/ AddMembers(l, h)
      PROVE  UNCHANGED rating
  BY <1>2, Zenon DEF EndPhase, StartUser, LoseListing, WriteRow, Resolve, CreateBox,
                     RemoveMember, AddMembers, dest
<1>3. ASSUME NEW l \in Libraries, NEW h \in Handles, NEW r,
             ReadRow(l, h, r) \/ TakeBox(l, h, r) \/ PurgeBox(l, h, r)
      PROVE  UNCHANGED rating
  BY <1>3 DEF ReadRow, TakeBox, PurgeBox, dest
<1>4. ASSUME \/ Stop \/ StartSweep \/ SweptUser \/ Rerun \/ UNCHANGED vars
             \/ (\E u \in Users : SweepUser(u)) \/ (\E id \in sweep.left : SweepBox(id))
      PROVE  UNCHANGED rating
  BY <1>4 DEF Stop, StartSweep, SweptUser, Rerun, SweepUser, SweepBox, over, dest, vars
<1> QED
  BY <1>1, <1>2, <1>3, <1>4 DEF Next

LEMMA RateRowAsks ==
    ASSUME RestoreAssumption, RestoreInv, MergeInv, Separate(job), ~stop, clean',
           NEW l \in Libraries, NEW h \in Handles, NEW r, RateRow(l, h, r)
    PROVE  RateFits(r, rating[DestUser(h)][r.item])'
<1> DEFINE d == DestUser(h)
           seen == Seen(l, h, r.item).rating
           skip == r.value = Unrated \/ (IF Replace THEN seen = r.value ELSE seen # Unrated)
<1>1. /\ phase[l][h] = "ratings" /\ r \in Rows(l, h, "ratings") /\ r \in todo[l][h] /\ job' = job
  BY DEF RateRow, Took, rest, RestoreInv, LeftInv, Kinds
<1>2. r.item \in Items /\ (r.item \in ByPath => h = Owner)
  BY <1>1, RowsApart
<1>3. \/ skip /\ UNCHANGED rating
      \/ ~skip /\ rating' = [rating EXCEPT ![d][r.item] = r.value]
  BY DEF RateRow, Fail
<1>4. Seen(l, h, r.item).rating = rating[d][r.item]
  <2>1. CASE r.item \in ByPath
    <3>1. h = Owner /\ d = Owner /\ r \in Rows(l, Owner, "ratings")
      BY <1>1, <1>2, <2>1 DEF Separate, DestUser
    <3>2. Untouched(l)
      BY <1>1, <3>1, OwnerAtWork DEF MergeInv, Still
    <3>3. rating[Owner][r.item] = cached[l].rating[r.item]
      BY <1>1, <2>1, <3>1, <3>2 DEF Untouched
    <3> QED BY <2>1, <3>1, <3>3 DEF Seen
  <2>2. CASE r.item \notin ByPath
    BY <2>2 DEF Seen
  <2> QED BY <2>1, <2>2
<1>5. d \in Users /\ OfUsers(rating)
  BY RestoreAssumption, ShapesNow
     DEF RestoreAssumption, RestoreInv, Shapes, DestUser, Handles
<1>6. ~skip => rating'[d][r.item] = r.value
  BY <1>2, <1>3, <1>5 DEF OfUsers
<1>7. DestUser(h)' = d /\ Replace' = Replace
  BY <1>1, SameJob
<1>8. \/ r.value = Unrated
      \/ IF Replace THEN rating'[d][r.item] = r.value ELSE rating'[d][r.item] # Unrated
  BY <1>3, <1>4, <1>6
<1> QED
  BY <1>7, <1>8 DEF RateFits

LEMMA RateStep ==
    ASSUME RestoreAssumption, Apart, RestoreInv, MergeInv, TasksInv, RateInv, [Next]_vars
    PROVE  RateInv'
<1>1. job \in Jobs /\ Separate(job) /\ job' = job
  BY JobStays DEF RestoreInv, Shapes, Apart
<1>2. SUFFICES ASSUME clean', NEW l \in Libraries, NEW h \in Handles
               PROVE  RateOk(l, h)'
  BY DEF RateInv
<1>3. clean /\ ~stop /\ RateOk(l, h)
  BY <1>2, CleanBefore DEF TasksInv, RateInv
<1> DEFINE d == DestUser(h)
           Fits(r) == RateFits(r, rating[d][r.item])
<1>4. ASSUME NEW r \in Rows(l, h, "ratings"), Included(l, "ratings")
      PROVE  ToCome(l, h, "ratings", r)' \/ Fits(r)'
  <2>1. r.item \in Items /\ LibOf[r.item] = l /\ d' = d /\ d \in Users
    <3>1. r.item \in Items /\ LibOf[r.item] = l
      BY <1>1, RowsApart
    <3>2. d' = d /\ d \in Users
      BY <1>1, RestoreAssumption, SameJob
         DEF RestoreAssumption, RestoreInv, Shapes, DestUser, Handles
    <3> QED BY <3>1, <3>2
  <2>2. CASE RateRow(l, h, r)
    BY <1>1, <1>2, <1>3, <2>2, RateRowAsks
  <2>3. CASE ~RateRow(l, h, r)
    <3>1. ToCome(l, h, "ratings", r) => ToCome(l, h, "ratings", r)'
      <4>1. ~(phase[l][h] = "ratings" /\ TakesRow(l, h, r))
        BY <2>3 DEF TakesRow, ReadRow, TakeBox, PurgeBox
      <4> QED BY <1>2, <1>4, <4>1, StaysToCome DEF Kinds
    <3>2. rating'[d][r.item] = rating[d][r.item]
      <4>1. CASE \A m \in Libraries, g \in Handles : \A s : ~RateRow(m, g, s)
        BY <4>1, RatingsStay
      <4>2. ASSUME NEW m \in Libraries, NEW g \in Handles, NEW s, RateRow(m, g, s)
            PROVE  rating'[d][r.item] = rating[d][r.item]
        <5>1. s \in Rows(m, g, "ratings")
          BY <4>2 DEF RateRow, Took, RestoreInv, LeftInv, Kinds
        <5>2. s.item \in Items /\ LibOf[s.item] = m
          BY <1>1, <5>1, RowsApart
        <5>3. ~(d = DestUser(g) /\ s.item = r.item)
          <6>1. SUFFICES ASSUME d = DestUser(g), s.item = r.item
                         PROVE  FALSE
            OBVIOUS
          <6>2. g = h /\ m = l
            BY <1>1, <2>1, <5>2, <6>1 DEF Separate, DestUser
          <6>3. s = r
            BY <1>1, <1>4, <5>1, <6>1, <6>2, RowsApart
          <6> QED BY <2>3, <4>2, <6>2, <6>3
        <5>4. rating' = rating \/ \E x : rating' = [rating EXCEPT ![DestUser(g)][s.item] = x]
          BY <4>2 DEF RateRow
        <5>5. OfUsers(rating)
          BY ShapesNow
        <5> HIDE DEF d
        <5>6. CASE rating' = rating
          BY <5>6
        <5>7. ASSUME NEW x, rating' = [rating EXCEPT ![DestUser(g)][s.item] = x]
              PROVE  rating'[d][r.item] = rating[d][r.item]
          BY <2>1, <5>3, <5>5, <5>7 DEF OfUsers
        <5> QED BY <5>4, <5>6, <5>7
      <4> QED BY <4>1, <4>2
    <3>3. Fits(r) => Fits(r)'
      BY <1>1, <2>1, <3>2, SameJob DEF RateFits
    <3> QED BY <1>3, <1>4, <3>1, <3>3 DEF RateOk
  <2> QED BY <2>2, <2>3
<1>5. Rows(l, h, "ratings")' = Rows(l, h, "ratings") /\ Included(l, "ratings")' = Included(l, "ratings")
  BY <1>1, SameJob, SameFits
<1> HIDE DEF Fits
<1>6. \A r \in Rows(l, h, "ratings") : Included(l, "ratings") => ToCome(l, h, "ratings", r)' \/ Fits(r)'
  BY <1>4
<1> QED
  BY <1>5, <1>6 DEF RateOk, Fits

-----------------------------------------------------------------------------
(* And of the containers                                                   *)

(* The container of a title: a playlist of the user, of the library's      *)
(* type, or the collection of a section.                                   *)
Titled(b, l, h, k, t) ==
    b.kind = k /\ b.owner = DestUser(h) /\ b.title = t /\ (k = "collections" => b.shelf = l)
Holds(b, l, h, k, t) ==
    b.kind = k /\ b.owner = DestUser(h) /\ b.title = t /\ b.shelf = Shelf(l, k)

LEMMA HoldsTitled ==
    ASSUME NEW b, NEW l, NEW h, NEW k, NEW t, Holds(b, l, h, k, t)
    PROVE  Titled(b, l, h, k, t)
BY DEF Holds, Titled, Shelf

(* The members of a playlist that is of its library's type give it that.   *)
LEMMA FamilyOfRow ==
    ASSUME NEW l, NEW h, NEW k, NEW r \in Rows(l, h, k), Typed(r), k = "playlists",
           NEW S \in SUBSET r.members, S # {}
    PROVE  FamilyOf(S) = Family[l]
<1>1. Families(r.members) \subseteq {Family[l]}
  BY DEF Rows, Typed
<1>2. (CHOOSE i \in S : TRUE) \in r.members
  OBVIOUS
<1> QED
  BY <1>1, <1>2 DEF FamilyOf, Families

LEMMA SameTyped == ASSUME job' = job PROVE \A r : Typed(r)' = Typed(r')
BY DEF Typed, ListTitles

(* What the resolving found is all that the rows left ask for.             *)
ResolvedOk(l, h) ==
    phase[l][h] \in Boxing /\ cur[l][h].is # "resolving" =>
        \A r \in todo[l][h] : r.members \subseteq found[l][h]
(* The container at hand is the one of a row.                              *)
BoxInHand(l, h) ==
    cur[l][h].is = "box" =>
        /\ cur[l][h].id \in 1 .. lastId
        /\ \E r \in Rows(l, h, phase[l][h]) :
              \A b \in boxes : b.id = cur[l][h].id => Holds(b, l, h, phase[l][h], r.title)
(* What is to be purged has no row.                                        *)
PurgeOk(l, h) ==
    phase[l][h] = "purge" =>
        \A b \in boxes : b.id \in todo[l][h] =>
            \A r \in Rows(l, h, "collections") : r.title # b.title
HandsInv ==
    clean => \A l \in Libraries, h \in Handles :
                ResolvedOk(l, h) /\ BoxInHand(l, h) /\ PurgeOk(l, h)

LEMMA BoxesChange ==
    ASSUME [Next]_vars
    PROVE  \/ UNCHANGED <<boxes, lastId>>
           \/ \E l \in Libraries, h \in Handles :
                 \/ CreateBox(l, h) \/ RemoveMember(l, h) \/ AddMembers(l, h)
                 \/ \E id : PurgeBox(l, h, id)
           \/ \E id \in sweep.left : SweepBox(id)
<1> DEFINE Goal == \/ UNCHANGED <<boxes, lastId>>
                   \/ \E l \in Libraries, h \in Handles :
                         \/ CreateBox(l, h) \/ RemoveMember(l, h) \/ AddMembers(l, h)
                         \/ \E id : PurgeBox(l, h, id)
                   \/ \E id \in sweep.left : SweepBox(id)
<1>1. ASSUME NEW l \in Libraries, StartTask(l) \/ CancelTask(l) \/ EndTask(l)
      PROVE  Goal
  BY <1>1 DEF StartTask, CancelTask, EndTask, dest, ids
<1>2. ASSUME NEW l \in Libraries, NEW h \in Handles,
             \/ EndPhase(l, h) \/ StartUser(l, h) \/ LoseListing(l, h)
             \/ WriteRow(l, h) \/ Resolve(l, h)
      PROVE  Goal
  BY <1>2 DEF EndPhase, StartUser, LoseListing, WriteRow, Resolve, dest, ids
<1>3. ASSUME NEW l \in Libraries, NEW h \in Handles,
             CreateBox(l, h) \/ RemoveMember(l, h) \/ AddMembers(l, h)
      PROVE  Goal
  BY <1>3
<1>4. ASSUME NEW l \in Libraries, NEW h \in Handles, NEW r,
             ReadRow(l, h, r) \/ RateRow(l, h, r) \/ TakeBox(l, h, r)
      PROVE  Goal
  BY <1>4 DEF ReadRow, RateRow, TakeBox, dest, ids
<1>5. ASSUME NEW l \in Libraries, NEW h \in Handles, NEW r, PurgeBox(l, h, r)
      PROVE  Goal
  BY <1>5
<1>6. ASSUME \/ Stop \/ StartSweep \/ SweptUser \/ Rerun \/ UNCHANGED vars
             \/ (\E u \in Users : SweepUser(u))
      PROVE  Goal
  BY <1>6 DEF Stop, StartSweep, SweptUser, Rerun, SweepUser, vars, dest, ids
<1>7. ASSUME NEW id \in sweep.left, SweepBox(id)
      PROVE  Goal
  BY <1>7
<1> HIDE DEF Goal
<1>8. Goal
  BY <1>1, <1>2, <1>3, <1>4, <1>5, <1>6, <1>7 DEF Next
<1> QED
  BY <1>8 DEF Goal

LEMMA StepRenews == ASSUME RestoreInv, [Next]_vars PROVE Renewed
<1>1. BoxInv
  BY DEF RestoreInv
<1>2. ASSUME NEW l \in Libraries, NEW h \in Handles, CreateBox(l, h)
      PROVE  Renewed
  <2>1. CASE UNCHANGED <<boxes, lastId>>
    BY <1>1, <2>1, BoxesStay
  <2>2. ASSUME NEW s, NEW m, lastId' = lastId + 1,
               boxes' = boxes \cup {[id |-> lastId', kind |-> phase[l][h], owner |-> DestUser(h),
                                     shelf |-> s, title |-> cur[l][h].title, members |-> m]}
        PROVE  Renewed
    BY <1>1, <2>2, NewKeeps
  <2> QED BY <1>2, <2>1, <2>2, MadeBox
<1>3. ASSUME NEW l \in Libraries, NEW h \in Handles,
             RemoveMember(l, h) \/ AddMembers(l, h) \/ \E id : PurgeBox(l, h, id)
      PROVE  Renewed
  <2>1. lastId' = lastId /\ (boxes' \subseteq boxes \/ \E id, m : boxes' = Changed(id, m))
    BY <1>3 DEF RemoveMember, AddMembers, PurgeBox, ids
  <2> QED BY <1>1, <2>1, FewerKeeps, ChangedKeeps
<1>4. ASSUME NEW id, SweepBox(id)
      PROVE  Renewed
  <2>1. lastId' = lastId /\ boxes' \subseteq boxes
    BY <1>4 DEF SweepBox, ids
  <2> QED BY <1>1, <2>1, FewerKeeps
<1> QED
  BY <1>1, <1>2, <1>3, <1>4, BoxesStay, BoxesChange

LEMMA HandShape ==
    ASSUME RestoreInv, NEW l \in Libraries, NEW h \in Handles
    PROVE  /\ cur[l][h].is = "item" => \E i, s, a, p, o : cur[l][h] =
                 [is |-> "item", item |-> i, reset |-> s, add |-> a, place |-> p, offset |-> o]
           /\ cur[l][h].is = "new" =>
                 /\ \E t, a : cur[l][h] = [is |-> "new", title |-> t, add |-> a]
                 /\ phase[l][h] \in Boxing
           /\ cur[l][h].is = "box" =>
                 /\ \E n, a, m : cur[l][h] = [is |-> "box", id |-> n, add |-> a, remove |-> m]
                 /\ phase[l][h] \in Boxing
<1> DEFINE c == cur[l][h]
<1>1. HandOk(l, h, c)
  BY ShapesNow
<1> HIDE DEF c
<1>2. /\ c.is = "item" => c = [is |-> "item", item |-> c.item, reset |-> c.reset, add |-> c.add,
                              place |-> c.place, offset |-> c.offset]
      /\ c.is = "new" => c = [is |-> "new", title |-> c.title, add |-> c.add] /\ phase[l][h] \in Boxing
      /\ c.is = "box" => /\ c = [is |-> "box", id |-> c.id, add |-> c.add, remove |-> c.remove]
                         /\ phase[l][h] \in Boxing
  BY <1>1 DEF HandOk, NoWork
<1>3. /\ c.is = "item" => \E i, s, a, p, o : c =
            [is |-> "item", item |-> i, reset |-> s, add |-> a, place |-> p, offset |-> o]
      /\ c.is = "new" => (\E t, a : c = [is |-> "new", title |-> t, add |-> a]) /\ phase[l][h] \in Boxing
      /\ c.is = "box" => /\ \E n, a, m : c = [is |-> "box", id |-> n, add |-> a, remove |-> m]
                         /\ phase[l][h] \in Boxing
  BY <1>2
<1> QED
  BY <1>3 DEF c

LEMMA CurSet ==
    ASSUME RestoreInv, NEW l \in Libraries, NEW h \in Handles, NEW x, cur' = Set(cur, l, h, x)
    PROVE  cur'[l][h] = x
BY ShapesNow, SetShape

(* Taking up a row of the watch history, or a write of one, leaves such a  *)
(* row at hand or nothing.                                                 *)
LEMMA WatchHand ==
    ASSUME RestoreInv, NEW l \in Libraries, NEW h \in Handles, cur[l][h].is \in {"item", "nothing"},
           WriteRow(l, h) \/ \E r : ReadRow(l, h, r)
    PROVE  cur'[l][h].is \in {"item", "nothing"}
<1>1. /\ NoWork.is = "nothing"
      /\ \A w : Left(w) = w \/ Left(w) = NoWork
  BY DEF Left, NoWork
<1>2. CASE WriteRow(l, h)
  <2>1. PICK i, s, a, p, o : cur[l][h] = [is |-> "item", item |-> i, reset |-> s, add |-> a,
                                          place |-> p, offset |-> o]
    BY <1>2, HandShape DEF WriteRow
  <2>2. \A t : [cur[l][h] EXCEPT !.reset = t].is = "item"
    BY <2>1
  <2>3. \A t : [cur[l][h] EXCEPT !.add = t].is = "item"
    BY <2>1
  <2>4. \/ cur' = Set(cur, l, h, NoWork)
        \/ \E t : cur' = Set(cur, l, h, Left([cur[l][h] EXCEPT !.reset = t]))
        \/ \E t : cur' = Set(cur, l, h, Left([cur[l][h] EXCEPT !.add = t]))
    BY <1>2, Zenon DEF WriteRow, Do
  <2>5. \E w : cur' = Set(cur, l, h, w) /\ w.is \in {"item", "nothing"}
    <3>1. \A w : w.is = "item" => Left(w).is \in {"item", "nothing"}
      BY <1>1
    <3>2. /\ \A t : Left([cur[l][h] EXCEPT !.reset = t]).is \in {"item", "nothing"}
          /\ \A t : Left([cur[l][h] EXCEPT !.add = t]).is \in {"item", "nothing"}
      BY <2>2, <2>3, <3>1
    <3>3. NoWork.is \in {"item", "nothing"}
      BY <1>1
    <3> QED BY <2>4, <3>2, <3>3, Zenon
  <2> QED BY <2>5, CurSet
<1>3. ASSUME NEW r, ReadRow(l, h, r)
      PROVE  cur'[l][h].is \in {"item", "nothing"}
  <2>1. UNCHANGED cur \/ \E s, o : cur' = Set(cur, l, h, Left(Writes(r, s, o)))
    BY <1>3 DEF ReadRow, Do
  <2>2. \A s, o : Writes(r, s, o).is = "item"
    BY DEF Writes
  <2>3. UNCHANGED cur \/ \E w : cur' = Set(cur, l, h, w) /\ w.is \in {"item", "nothing"}
    BY <1>1, <2>1, <2>2
  <2> QED BY <2>3, CurSet
<1> QED
  BY <1>2, <1>3

(* At a user's phase, a step that does not concern it leaves it alone.     *)
Apace(l, h) ==
    /\ phase'[l][h] = phase[l][h] /\ todo'[l][h] = todo[l][h] /\ found'[l][h] = found[l][h]
    /\ cur'[l][h] = cur[l][h] /\ existing'[l][h] = existing[l][h]

(* What a step does to one user's phase of one library.                    *)
LEMMA StepAt ==
    ASSUME RestoreAssumption, RestoreInv, ~stop, clean', [Next]_vars, NEW l \in Libraries, NEW h \in Handles
    PROVE  \/ Apace(l, h)
           \/ \E k \in Phases : Begins(l, h, k)
           \/ \E r : TakesRow(l, h, r)
           \/ MakesCall(l, h)
           \/ Rerun /\ phase'[l][h] = "off" /\ cur'[l][h] = NoWork
<1> DEFINE Goal == \/ Apace(l, h)
                   \/ \E k \in Phases : Begins(l, h, k)
                   \/ \E r : TakesRow(l, h, r)
                   \/ MakesCall(l, h)
                   \/ Rerun /\ phase'[l][h] = "off" /\ cur'[l][h] = NoWork
<1>1. ASSUME NEW m \in Libraries, NEW g \in Handles, NEW k \in Phases, Begins(m, g, k)
      PROVE  Goal
  <2>1. CASE m = l /\ g = h
    BY <1>1, <2>1
  <2>2. CASE ~(m = l /\ g = h)
    BY <1>1, <2>2, BeginsElsewhere DEF Apace
  <2> QED BY <2>1, <2>2
<1>2. ASSUME NEW m \in Libraries, NEW g \in Handles, NEW r, TakesRow(m, g, r)
      PROVE  Goal
  <2>1. CASE m = l /\ g = h
    BY <1>2, <2>1
  <2>2. CASE ~(m = l /\ g = h)
    BY <1>2, <2>2, TakesRowAt DEF Apace
  <2> QED BY <2>1, <2>2
<1>3. ASSUME NEW m \in Libraries, NEW g \in Handles, MakesCall(m, g)
      PROVE  Goal
  <2>1. CASE m = l /\ g = h
    BY <1>3, <2>1
  <2>2. CASE ~(m = l /\ g = h)
    BY <1>3, <2>2, MakesCallAt DEF Apace
  <2> QED BY <2>1, <2>2
<1>4. ASSUME Rerun
      PROVE  Goal
  <2>1. phase[l][h] \in Still
    BY <1>4 DEF Rerun, RestoreInv, SweepInv, Ended, LibInv, LibOk
  <2>2. cur[l][h] = NoWork
    BY <2>1, ShapesNow DEF HandOk, Boxing, Still
  <2> QED BY <1>4, <2>2 DEF Rerun
<1>5. ASSUME Asides
      PROVE  Goal
  BY <1>5, AsidesLeave DEF Apace
<1> HIDE DEF Goal
<1>6. Goal
  BY <1>1, <1>2, <1>3, <1>4, <1>5, StepKinds
<1> QED
  BY <1>6 DEF Goal

LEMMA ResolvedStep ==
    ASSUME RestoreAssumption, RestoreInv, ~stop, clean', [Next]_vars, NEW l \in Libraries,
           NEW h \in Handles, ResolvedOk(l, h)
    PROVE  ResolvedOk(l, h)'
<1>1. CASE Apace(l, h)
  BY <1>1 DEF Apace, ResolvedOk
<1>2. ASSUME NEW k \in Phases, Begins(l, h, k)
      PROVE  ResolvedOk(l, h)'
  <2>1. CASE k \in Boxing /\ Included(l, k) /\ Rows(l, h, k) # {}
    <3>1. cur'[l][h] = [is |-> "resolving", cold |-> stop]
      BY <1>2, <2>1, BeginsAt
    <3> QED BY <3>1 DEF ResolvedOk
  <2>2. CASE ~(k \in Boxing /\ Included(l, k) /\ Rows(l, h, k) # {})
    <3>1. phase'[l][h] = k /\ (k \in Boxing => todo'[l][h] = {})
      <4>1. phase'[l][h] = k
        BY <1>2, BeginsPhase
      <4>2. ASSUME k \in Boxing
            PROVE  todo'[l][h] = {}
        <5>1. k \in Kinds
          BY <4>2 DEF Boxing, Kinds
        <5>2. CASE Included(l, k)
          <6>1. todo'[l][h] = Rows(l, h, k)
            BY <1>2, <5>1, <5>2, BeginsAt
          <6> QED BY <2>2, <4>2, <5>2, <6>1
        <5>3. CASE ~Included(l, k)
          BY <1>2, <5>1, <5>3, BeginsAt
        <5> QED BY <5>2, <5>3
      <4> QED BY <4>1, <4>2
    <3> QED BY <3>1 DEF ResolvedOk
  <2> QED BY <2>1, <2>2
<1>3. ASSUME NEW r, TakesRow(l, h, r)
      PROVE  ResolvedOk(l, h)'
  <2>1. /\ cur[l][h].is # "resolving" /\ todo'[l][h] \subseteq todo[l][h]
        /\ UNCHANGED <<phase, found>>
    BY <1>3, TakesRowAt DEF NoWork
  <2> QED BY <2>1 DEF ResolvedOk
<1>4. ASSUME MakesCall(l, h)
      PROVE  ResolvedOk(l, h)'
  <2>1. UNCHANGED <<phase, todo>>
    BY <1>4, MakesCallAt
  <2>2. CASE Resolve(l, h)
    <3>1. found' = Set(found, l, h, UNION {r.members : r \in todo[l][h]})
      BY <2>2 DEF Resolve, Fail
    <3>2. found'[l][h] = UNION {r.members : r \in todo[l][h]}
      BY <3>1, ShapesNow, SetShape
    <3> QED BY <2>1, <3>2 DEF ResolvedOk
  <2>3. CASE WriteRow(l, h) \/ CreateBox(l, h) \/ RemoveMember(l, h) \/ AddMembers(l, h)
    <3>1. UNCHANGED found /\ cur[l][h].is # "resolving"
      BY <2>3, Zenon DEF WriteRow, CreateBox, RemoveMember, AddMembers
    <3> QED BY <2>1, <3>1 DEF ResolvedOk
  <2> QED BY <1>4, <2>2, <2>3 DEF MakesCall
<1>5. ASSUME Rerun, phase'[l][h] = "off"
      PROVE  ResolvedOk(l, h)'
  BY <1>5 DEF ResolvedOk, Boxing
<1> QED
  BY <1>1, <1>2, <1>3, <1>4, <1>5, StepAt

LEMMA SameHolds ==
    ASSUME job' = job
    PROVE  \A b, l, h, k, t : Holds(b, l, h, k, t)' = Holds(b', l, h, k, t)
BY SameJob DEF Holds

LEMMA BoxInHandKept ==
    ASSUME RestoreInv, Renewed, job' = job, NEW l \in Libraries, NEW h \in Handles, BoxInHand(l, h),
           phase'[l][h] = phase[l][h],
           cur'[l][h].is = "box" => cur[l][h].is = "box" /\ cur'[l][h].id = cur[l][h].id
    PROVE  BoxInHand(l, h)'
<1>1. SUFFICES ASSUME cur'[l][h].is = "box"
               PROVE  BoxInHand(l, h)'
  BY DEF BoxInHand
<1> DEFINE n == cur[l][h].id
           k == phase[l][h]
<1>2. n \in 1 .. lastId /\ cur'[l][h].id = n /\ cur[l][h].is = "box"
  BY <1>1 DEF BoxInHand
<1>3. PICK r \in Rows(l, h, k) : \A b \in boxes : b.id = n => Holds(b, l, h, k, r.title)
  BY <1>2 DEF BoxInHand
<1>4. n \in 1 .. lastId'
  BY <1>2 DEF Renewed, RestoreInv, BoxInv
<1>5. ASSUME NEW c \in boxes', c.id = n
      PROVE  Holds(c, l, h, k, r.title)
  <2>1. c.id # lastId' \/ ~(lastId' > lastId)
    BY <1>2, <1>5 DEF Renewed, RestoreInv, BoxInv
  <2>2. PICK b \in boxes : b.id = c.id /\ SameBox(b, c)
    BY <2>1 DEF Renewed
  <2> QED BY <1>3, <1>5, <2>2 DEF Holds, SameBox
<1>6. Rows(l, h, k)' = Rows(l, h, k) /\ k' = k
  BY SameJob
<1> HIDE DEF n
<1>7. \A c \in boxes' : c.id = n => /\ c.kind = k /\ c.owner = DestUser(h) /\ c.title = r.title
                                   /\ c.shelf = Shelf(l, k)
  BY <1>5 DEF Holds
<1>8. DestUser(h)' = DestUser(h)
  BY SameJob
<1> QED
  BY <1>2, <1>4, <1>6, <1>7, <1>8 DEF BoxInHand, Holds

(* A container that is taken up was found, under the row's title.          *)
LEMMA TakenBox ==
    ASSUME RestoreInv, NEW l \in Libraries, NEW h \in Handles, NEW r, TakeBox(l, h, r),
           cur'[l][h].is = "box"
    PROVE  \E b \in boxes : b.id = cur'[l][h].id /\ b.id \in existing[l][h] /\ b.title = r.title
<1>1. \/ UNCHANGED cur
      \/ \E t, a : cur' = Set(cur, l, h, [is |-> "new", title |-> t, add |-> a])
      \/ \E b \in {x \in boxes : x.id \in existing[l][h] /\ x.title = r.title} :
            \E a, m : cur' = Set(cur, l, h, [is |-> "box", id |-> b.id, add |-> a, remove |-> m])
  BY Zenon DEF TakeBox, Do
<1>2. CASE UNCHANGED cur
  <2>1. cur[l][h] = NoWork
    BY DEF TakeBox, Took
  <2> QED BY <1>2, <2>1 DEF NoWork
<1>3. ASSUME NEW t, NEW a, cur' = Set(cur, l, h, [is |-> "new", title |-> t, add |-> a])
      PROVE  FALSE
  <2>1. cur'[l][h] = [is |-> "new", title |-> t, add |-> a]
    BY <1>3, CurSet
  <2> QED BY <2>1
<1>4. ASSUME NEW b \in {x \in boxes : x.id \in existing[l][h] /\ x.title = r.title}, NEW a, NEW m,
             cur' = Set(cur, l, h, [is |-> "box", id |-> b.id, add |-> a, remove |-> m])
      PROVE  b \in boxes /\ b.id = cur'[l][h].id /\ b.id \in existing[l][h] /\ b.title = r.title
  <2>1. cur'[l][h] = [is |-> "box", id |-> b.id, add |-> a, remove |-> m]
    BY <1>4, CurSet
  <2> QED BY <2>1
<1> QED
  BY <1>1, <1>2, <1>3, <1>4

LEMMA BoxInHandStep ==
    ASSUME RestoreAssumption, RestoreInv, ~stop, clean', [Next]_vars, NEW l \in Libraries,
           NEW h \in Handles, BoxInHand(l, h)
    PROVE  BoxInHand(l, h)'
<1>0. Renewed /\ job' = job /\ NoWork.is # "box"
  BY StepRenews, JobStays DEF NoWork
<1>1. CASE Apace(l, h)
  BY <1>0, <1>1, BoxInHandKept DEF Apace
<1>2. ASSUME NEW k \in Phases, Begins(l, h, k)
      PROVE  BoxInHand(l, h)'
  <2>1. cur'[l][h].is # "box"
    BY <1>2, BeginsHand
  <2> QED BY <2>1 DEF BoxInHand
<1>3. ASSUME NEW r, TakesRow(l, h, r)
      PROVE  BoxInHand(l, h)'
  <2>1. /\ UNCHANGED <<phase, job>> /\ r \in todo[l][h] /\ cur[l][h] = NoWork
    BY <1>3, TakesRowAt
  <2>2. CASE cur'[l][h].is # "box"
    BY <2>2 DEF BoxInHand
  <2>3. CASE cur'[l][h].is = "box"
    <3>0. TakeBox(l, h, r)
      <4>1. CASE RateRow(l, h, r) \/ PurgeBox(l, h, r)
        BY <1>0, <2>1, <2>3, <4>1 DEF RateRow, PurgeBox
      <4>2. CASE ReadRow(l, h, r)
        <5>1. cur[l][h].is = "nothing"
          BY <2>1 DEF NoWork
        <5> QED BY <2>3, <4>2, <5>1, WatchHand
      <4> QED BY <1>3, <4>1, <4>2 DEF TakesRow
    <3>1. PICK b \in boxes : b.id = cur'[l][h].id /\ b.id \in existing[l][h] /\ b.title = r.title
      BY <2>3, <3>0, TakenBox
    <3>2. phase[l][h] \in Boxing /\ UNCHANGED <<boxes, lastId>>
      BY <3>0 DEF TakeBox, Boxing, dest
    <3>3. r \in Rows(l, h, phase[l][h]) /\ b.id \in 1 .. lastId
      BY <2>1, <3>2 DEF RestoreInv, LeftInv, BoxInv, Boxing, Kinds
    <3>4. Holds(b, l, h, phase[l][h], r.title)
      BY <3>1, <3>2 DEF Holds, Shelf, RestoreInv, FoundInv, Boxing
    <3>5. \A c \in boxes : c.id = b.id => c = b
      BY DEF RestoreInv, BoxInv
    <3>6. /\ Rows(l, h, phase[l][h])' = Rows(l, h, phase[l][h])
          /\ \A c \in boxes : Holds(c, l, h, phase[l][h], r.title)' = Holds(c, l, h, phase[l][h], r.title)
      BY <2>1, SameJob DEF Holds
    <3> QED BY <2>1, <3>1, <3>2, <3>3, <3>4, <3>5, <3>6 DEF BoxInHand
  <2> QED BY <2>2, <2>3
<1>4. ASSUME MakesCall(l, h)
      PROVE  BoxInHand(l, h)'
  <2>1. UNCHANGED phase
    BY <1>4, MakesCallAt
  <2>2. CASE Resolve(l, h) \/ CreateBox(l, h) \/ AddMembers(l, h)
    <3>1. cur' = Set(cur, l, h, NoWork)
      BY <2>2 DEF Resolve, CreateBox, AddMembers, Do
    <3>2. cur'[l][h].is # "box"
      BY <1>0, <3>1, CurSet
    <3> QED BY <3>2 DEF BoxInHand
  <2>3. CASE WriteRow(l, h)
    <3>1. cur[l][h].is = "item"
      BY <2>3 DEF WriteRow
    <3>2. cur'[l][h].is # "box"
      BY <2>3, <3>1, WatchHand
    <3> QED BY <3>2 DEF BoxInHand
  <2>4. CASE RemoveMember(l, h)
    <3>2. PICK n, a, m : cur[l][h] = [is |-> "box", id |-> n, add |-> a, remove |-> m]
      BY <2>4, HandShape DEF RemoveMember
    <3>3. \E x : cur'[l][h] = [is |-> "box", id |-> n, add |-> a, remove |-> x]
      <4>1. PICK x : cur' = Set(cur, l, h, [cur[l][h] EXCEPT !.remove = x])
        BY <2>4, Zenon DEF RemoveMember, Do
      <4>2. [cur[l][h] EXCEPT !.remove = x] = [is |-> "box", id |-> n, add |-> a, remove |-> x]
        BY <3>2
      <4>3. cur'[l][h] = [cur[l][h] EXCEPT !.remove = x]
        BY <4>1, CurSet
      <4> QED BY <4>2, <4>3
    <3>4. cur[l][h].is = "box" /\ cur'[l][h].id = cur[l][h].id
      BY <3>2, <3>3
    <3> QED BY <1>0, <2>1, <3>4, BoxInHandKept
  <2> QED BY <1>4, <2>2, <2>3, <2>4 DEF MakesCall
<1>5. ASSUME cur'[l][h] = NoWork
      PROVE  BoxInHand(l, h)'
  BY <1>5 DEF BoxInHand, NoWork
<1> QED
  BY <1>1, <1>2, <1>3, <1>4, <1>5, StepAt

LEMMA PurgeStep ==
    ASSUME RestoreAssumption, RestoreInv, ~stop, clean', [Next]_vars, NEW l \in Libraries,
           NEW h \in Handles, PurgeOk(l, h)
    PROVE  PurgeOk(l, h)'
<1>0. Renewed /\ job' = job /\ Rows(l, h, "collections")' = Rows(l, h, "collections")
  BY StepRenews, JobStays, SameJob
<1>1. ASSUME phase'[l][h] = phase[l][h], todo'[l][h] \subseteq todo[l][h]
      PROVE  PurgeOk(l, h)'
  <2>1. SUFFICES ASSUME phase[l][h] = "purge", NEW c \in boxes', c.id \in todo[l][h],
                        NEW r \in Rows(l, h, "collections")
                 PROVE  r.title # c.title
    BY <1>0, <1>1 DEF PurgeOk
  <2>2. c.id \in 1 .. lastId
    BY <2>1 DEF RestoreInv, LeftInv, FoundInv
  <2>3. PICK b \in boxes : b.id = c.id /\ SameBox(b, c)
    BY <1>0, <2>2 DEF Renewed, RestoreInv, BoxInv
  <2> QED BY <2>1, <2>3 DEF PurgeOk, SameBox
<1>2. CASE Apace(l, h)
  BY <1>1, <1>2 DEF Apace
<1>3. ASSUME NEW k \in Phases, Begins(l, h, k)
      PROVE  PurgeOk(l, h)'
  <2>1. CASE k # "purge"
    BY <1>3, <2>1, BeginsAt DEF PurgeOk
  <2>2. CASE k = "purge"
    <3>1. todo'[l][h] \subseteq DestOnly(l, h) /\ UNCHANGED boxes
      BY <1>3, <2>2, BeginsAt DEF dest
    <3>2. ASSUME NEW b \in boxes, b.id \in DestOnly(l, h), NEW r \in Rows(l, h, "collections")
          PROVE  r.title # b.title
      <4>1. PICK x \in boxes : x.id = b.id /\ \A y \in Rows(l, h, "collections") : y.title # x.title
        BY <3>2 DEF DestOnly
      <4> QED BY <4>1 DEF RestoreInv, BoxInv
    <3> QED BY <1>0, <3>1, <3>2 DEF PurgeOk
  <2> QED BY <2>1, <2>2
<1>4. ASSUME NEW r, TakesRow(l, h, r)
      PROVE  PurgeOk(l, h)'
  BY <1>1, <1>4, TakesRowAt
<1>5. ASSUME MakesCall(l, h)
      PROVE  PurgeOk(l, h)'
  BY <1>1, <1>5, MakesCallAt
<1>6. ASSUME phase'[l][h] = "off"
      PROVE  PurgeOk(l, h)'
  BY <1>6 DEF PurgeOk
<1> QED
  BY <1>2, <1>3, <1>4, <1>5, <1>6, StepAt

LEMMA HandsStep ==
    ASSUME RestoreAssumption, RestoreInv, TasksInv, HandsInv, [Next]_vars
    PROVE  HandsInv'
<1>1. SUFFICES ASSUME clean', NEW l \in Libraries, NEW h \in Handles
               PROVE  ResolvedOk(l, h)' /\ BoxInHand(l, h)' /\ PurgeOk(l, h)'
  BY DEF HandsInv
<1>2. clean /\ ~stop
  BY <1>1, CleanBefore DEF TasksInv
<1>3. ResolvedOk(l, h) /\ BoxInHand(l, h) /\ PurgeOk(l, h)
  BY <1>2 DEF HandsInv
<1> QED
  BY <1>1, <1>2, <1>3, ResolvedStep, BoxInHandStep, PurgeStep

-----------------------------------------------------------------------------
(* The members a container will have when what is at hand is done.         *)
MembersTo(l, h, b) ==
    IF cur[l][h].is = "box" /\ cur[l][h].id = b.id
    THEN (b.members \ cur[l][h].remove) \cup cur[l][h].add ELSE b.members
MembersFit(r, S) == IF Replace THEN S = r.members ELSE r.members \subseteq S

(* A row whose container is being created, or will hold what it asks for.  *)
Making(l, h, k, r) ==
    /\ phase[l][h] = k /\ cur[l][h].is = "new" /\ cur[l][h].title = r.title
    /\ cur[l][h].add = r.members
Made(l, h, k, r) ==
    \E b \in boxes : Holds(b, l, h, k, r.title) /\ MembersFit(r, MembersTo(l, h, b))
BoxesOk(l, h, k) ==
    \A r \in Rows(l, h, k) : Included(l, k) /\ Typed(r) /\ r.members # {} =>
        ToCome(l, h, k, r) \/ Making(l, h, k, r) \/ Made(l, h, k, r)
BoxesInv ==
    clean => \A l \in Libraries \cap job.libraries, h \in Handles, k \in Boxing : BoxesOk(l, h, k)

LEMMA SameMembers ==
    ASSUME job' = job
    PROVE  \A r, S : MembersFit(r, S)' = MembersFit(r, S')
BY SameJob DEF MembersFit

LEMMA MadeNow ==
    ASSUME job' = job, NEW l, NEW h, NEW k, NEW r, NEW c \in boxes', Holds(c, l, h, k, r.title),
           MembersFit(r, MembersTo(l, h, c)')
    PROVE  Made(l, h, k, r)'
<1>1. Holds(c, l, h, k, r.title)' /\ MembersFit(r, MembersTo(l, h, c))'
  BY SameJob DEF Holds, MembersFit
<1> QED
  BY <1>1 DEF Made

(* A user's row of a kind is the only one of its title.                    *)
LEMMA RowOfTitle ==
    ASSUME Complete, RestoreInv, NEW l \in Libraries, NEW h \in Handles, NEW k \in Boxing,
           NEW r \in Rows(l, h, k), NEW s \in Rows(l, h, k), s.title = r.title
    PROVE  s = r
<1>1. /\ r \in Payload(job) /\ r.kind = k /\ r.handle = h /\ r.library = l
      /\ s \in Payload(job) /\ s.kind = k /\ s.handle = h /\ s.library = l
  BY DEF Rows
<1> QED
  BY <1>1 DEF Complete, RestoreInv, Shapes

(* Two rows of a kind do not share a container.                            *)
LEMMA RowOfBox ==
    ASSUME Complete, RestoreInv, Separate(job), NEW l \in Libraries, NEW h \in Handles,
           NEW m \in Libraries, NEW g \in Handles, NEW k \in Boxing, NEW n \in Boxing,
           NEW r \in Rows(l, h, k), NEW s \in Rows(m, g, n), NEW b,
           Titled(b, l, h, k, r.title), Titled(b, m, g, n, s.title)
    PROVE  m = l /\ g = h /\ n = k /\ s = r
<1>1. n = k /\ DestUser(g) = DestUser(h) /\ s.title = r.title /\ (k = "collections" => m = l)
  BY DEF Titled
<1>2. g = h
  BY <1>1 DEF Separate, DestUser
<1>3. /\ r \in Payload(job) /\ r.kind = k /\ r.handle = h /\ r.library = l
      /\ s \in Payload(job) /\ s.kind = k /\ s.handle = h /\ s.library = m
  BY <1>1, <1>2 DEF Rows
<1>4. s = r
  BY <1>1, <1>3 DEF Complete, RestoreInv, Shapes
<1> QED
  BY <1>1, <1>2, <1>3, <1>4

LEMMA HandsApart ==
    ASSUME Complete, RestoreInv, Separate(job), NEW l \in Libraries, NEW h \in Handles,
           NEW k \in Boxing, NEW r \in Rows(l, h, k), NEW b \in boxes, Holds(b, l, h, k, r.title),
           NEW m \in Libraries, NEW g \in Handles, BoxInHand(m, g), cur[m][g].is = "box",
           b.id = cur[m][g].id
    PROVE  m = l /\ g = h
<1>1. phase[m][g] \in Boxing
  BY HandShape
<1>2. PICK s \in Rows(m, g, phase[m][g]) : Holds(b, m, g, phase[m][g], s.title)
  BY DEF BoxInHand
<1> QED
  BY <1>1, <1>2, RowOfBox, HoldsTitled

(* What a row that is taken up comes to.                                   *)
LEMMA TakeMakes ==
    ASSUME RestoreInv, clean', NEW l \in Libraries, NEW h \in Handles, NEW k \in Boxing,
           NEW r \in Rows(l, h, k), Typed(r), r.members # {}, ResolvedOk(l, h), TakeBox(l, h, r)
    PROVE  Making(l, h, k, r)' \/ Made(l, h, k, r)'
<1>1. /\ phase[l][h] \in Boxing /\ r \in todo[l][h] /\ cur[l][h] = NoWork
      /\ UNCHANGED <<job, phase, boxes>>
  BY DEF TakeBox, Took, Boxing, rest, dest
<1>2. r \in Rows(l, h, phase[l][h])
  BY <1>1 DEF RestoreInv, LeftInv, Boxing, Kinds
<1>3. phase[l][h] = k
  BY <1>2 DEF Rows
<1>4. r.members \cap found[l][h] = r.members
  BY <1>1 DEF ResolvedOk, NoWork
<1>5. \/ cur' = Set(cur, l, h, [is |-> "new", title |-> r.title, add |-> r.members])
      \/ \E b \in boxes : /\ b.id \in existing[l][h] /\ b.title = r.title
            /\ cur' = Set(cur, l, h, [is |-> "box", id |-> b.id, add |-> r.members \ b.members,
                                remove |-> IF Replace THEN b.members \ r.members ELSE {}])
  <2> DEFINE Came(hit) ==
        \/ hit = {}
        \/ cur' = Set(cur, l, h, [is |-> "new", title |-> r.title, add |-> hit])
        \/ \E b \in {x \in boxes : x.id \in existing[l][h] /\ x.title = r.title} :
              (phase[l][h] = "playlists" /\ b.shelf # FamilyOf(hit)) \/ Fail
        \/ \E b \in {x \in boxes : x.id \in existing[l][h] /\ x.title = r.title} :
              cur' = Set(cur, l, h, [is |-> "box", id |-> b.id, add |-> hit \ b.members,
                                     remove |-> IF Replace THEN b.members \ hit ELSE {}])
  <2>1. Came(r.members \cap found[l][h])
    BY Zenon DEF TakeBox, Do
  <2> HIDE DEF Came
  <2>2. Came(r.members)
    BY <1>4, <2>1
  <2>3. ASSUME NEW b \in {x \in boxes : x.id \in existing[l][h] /\ x.title = r.title}
        PROVE  b \in boxes /\ b.id \in existing[l][h] /\ b.title = r.title
    OBVIOUS
  <2>4. ~Fail
    BY DEF Fail
  <2>5. ASSUME NEW b \in boxes, b.id \in existing[l][h], phase[l][h] = "playlists"
        PROVE  b.shelf = FamilyOf(r.members)
    BY <1>3, <2>5, FamilyOfRow DEF RestoreInv, FoundInv
  <2> QED BY <2>2, <2>3, <2>4, <2>5, Zenon DEF Came
<1>6. CASE cur' = Set(cur, l, h, [is |-> "new", title |-> r.title, add |-> r.members])
  <2>1. cur'[l][h] = [is |-> "new", title |-> r.title, add |-> r.members]
    BY <1>6, CurSet
  <2> QED BY <1>1, <1>3, <2>1 DEF Making
<1>7. ASSUME NEW b \in boxes, NEW gone, b.id \in existing[l][h], b.title = r.title,
             gone = IF Replace THEN b.members \ r.members ELSE {},
             cur' = Set(cur, l, h, [is |-> "box", id |-> b.id, add |-> r.members \ b.members,
                                remove |-> gone])
      PROVE  Made(l, h, k, r)'
  <2>1. cur'[l][h] = [is |-> "box", id |-> b.id, add |-> r.members \ b.members, remove |-> gone]
    BY <1>7, CurSet
  <2>2. MembersTo(l, h, b)' = (b.members \ gone) \cup (r.members \ b.members)
    BY <2>1 DEF MembersTo
  <2>3. MembersFit(r, MembersTo(l, h, b)')
    BY <1>7, <2>2 DEF MembersFit
  <2>4. Holds(b, l, h, k, r.title)
    BY <1>3, <1>7 DEF RestoreInv, FoundInv, Boxing, Holds, Shelf
  <2> QED BY <1>1, <2>3, <2>4, MadeNow
<1> QED
  BY <1>5, <1>6, <1>7

LEMMA BoxHandLeft ==
    ASSUME RestoreAssumption, RestoreInv, ~stop, clean', [Next]_vars,
           NEW l \in Libraries, NEW h \in Handles, \A r : ~TakeBox(l, h, r), ~RemoveMember(l, h),
           ~AddMembers(l, h)
    PROVE  cur'[l][h] = cur[l][h] \/ (cur[l][h].is # "box" /\ cur'[l][h].is # "box")
<1> DEFINE Same == cur'[l][h] = cur[l][h] \/ (cur[l][h].is # "box" /\ cur'[l][h].is # "box")
<1>0. NoWork.is # "box"
  BY DEF NoWork
<1>1. ASSUME NEW k \in Phases, Begins(l, h, k)
      PROVE  Same
  <2>1. cur[l][h] = NoWork /\ cur'[l][h].is \in {"nothing", "resolving"}
    BY <1>1, BeginsHand
  <2> QED BY <1>0, <2>1
<1>2. ASSUME NEW r, TakesRow(l, h, r)
      PROVE  Same
  <2>1. cur[l][h] = NoWork
    BY <1>2, TakesRowAt
  <2>2. CASE RateRow(l, h, r) \/ PurgeBox(l, h, r)
    BY <2>2 DEF RateRow, PurgeBox
  <2>3. CASE ReadRow(l, h, r)
    <3>1. cur[l][h].is = "nothing"
      BY <2>1 DEF NoWork
    <3>2. cur'[l][h].is \in {"item", "nothing"}
      BY <2>3, <3>1, WatchHand
    <3> QED BY <3>1, <3>2
  <2> QED BY <1>2, <2>2, <2>3 DEF TakesRow
<1>3. ASSUME MakesCall(l, h)
      PROVE  Same
  <2>1. CASE Resolve(l, h) \/ CreateBox(l, h)
    <3>1. cur' = Set(cur, l, h, NoWork) /\ cur[l][h].is # "box"
      BY <2>1 DEF Resolve, CreateBox, Do
    <3> QED BY <1>0, <3>1, CurSet
  <2>2. CASE WriteRow(l, h)
    <3>1. cur[l][h].is = "item"
      BY <2>2 DEF WriteRow
    <3>2. cur'[l][h].is \in {"item", "nothing"}
      BY <2>2, <3>1, WatchHand
    <3> QED BY <3>1, <3>2
  <2> QED BY <1>3, <2>1, <2>2 DEF MakesCall
<1>4. ASSUME Rerun
      PROVE  Same
  BY <1>4 DEF Rerun
<1>5. ASSUME Apace(l, h)
      PROVE  Same
  BY <1>5 DEF Apace
<1> HIDE DEF Same
<1>6. Same
  BY <1>1, <1>2, <1>3, <1>4, <1>5, StepAt
<1> QED
  BY <1>6 DEF Same

(* The container of a row is changed by its own phase alone.               *)
LEMMA BoxStands ==
    ASSUME Complete, RestoreInv, Separate(job), Named, SpareInv, HandsInv, clean, [Next]_vars,
           NEW l \in Libraries \cap job.libraries, NEW h \in Handles, NEW k \in Boxing,
           NEW r \in Rows(l, h, k), Typed(r), NEW b \in boxes, Holds(b, l, h, k, r.title),
           ~RemoveMember(l, h), ~AddMembers(l, h)
    PROVE  b \in boxes'
<1>1. ASSUME NEW m \in Libraries, NEW g \in Handles, CreateBox(m, g)
      PROVE  b \in boxes'
  BY <1>1 DEF CreateBox
<1>2. ASSUME NEW m \in Libraries, NEW g \in Handles, RemoveMember(m, g) \/ AddMembers(m, g)
      PROVE  b \in boxes'
  <2>1. cur[m][g].is = "box" /\ (UNCHANGED boxes \/ \E s : boxes' = Changed(cur[m][g].id, s))
    BY <1>2 DEF RemoveMember, AddMembers
  <2>2. b.id # cur[m][g].id
    BY <1>2, <2>1, HandsApart DEF HandsInv
  <2> QED BY <2>1, <2>2 DEF Changed
<1>3. ASSUME NEW m \in Libraries, NEW g \in Handles, NEW id, PurgeBox(m, g, id)
      PROVE  b \in boxes'
  <2>1. /\ phase[m][g] = "purge" /\ id \in todo[m][g]
        /\ UNCHANGED boxes \/ boxes' = {c \in boxes : c.id # id}
    BY <1>3 DEF PurgeBox, Took
  <2>2. b.id # id
    <3>1. SUFFICES ASSUME b.id = id
                   PROVE  FALSE
      OBVIOUS
    <3>2. b.kind = "collections" /\ b.owner = DestUser(g) /\ b.shelf = m
      BY <2>1, <3>1 DEF RestoreInv, LeftInv, FoundInv
    <3>3. k = "collections" /\ g = h /\ m = l /\ b.title = r.title
      BY <3>2 DEF Holds, Shelf, Boxing, Separate, DestUser
    <3>4. PurgeOk(l, h)
      BY DEF HandsInv
    <3> QED BY <2>1, <3>1, <3>3, <3>4 DEF PurgeOk
  <2> QED BY <2>1, <2>2
<1>4. ASSUME NEW id \in sweep.left, SweepBox(id)
      PROVE  b \in boxes'
  <2>1. UNCHANGED boxes \/ boxes' = {c \in boxes : c.id # id}
    BY <1>4 DEF SweepBox
  <2>2. b.id # id
    <3>1. SUFFICES ASSUME b.id = id
                   PROVE  FALSE
      OBVIOUS
    <3>2. b.kind = "playlists" /\ ~TitleKept(b)
      BY <1>4, <3>1 DEF SpareInv
    <3>3. k = "playlists" /\ b.owner = h /\ b.title = r.title
      BY <3>2, HandleIsUser DEF Holds
    <3> QED BY <3>2, <3>3 DEF TitleKept, Rows, SourceTitles, Typed
  <2> QED BY <2>1, <2>2
<1> QED
  BY <1>1, <1>2, <1>3, <1>4, BoxesChange

(* Its own phase's calls bring it what they were to.                       *)
LEMMA BoxCalled ==
    ASSUME RestoreInv, clean', NEW l \in Libraries, NEW h \in Handles, NEW k, NEW r,
           NEW b \in boxes, Holds(b, l, h, k, r.title), MembersFit(r, MembersTo(l, h, b)),
           RemoveMember(l, h) \/ AddMembers(l, h)
    PROVE  Made(l, h, k, r)'
<1>1. PICK n, a, m : cur[l][h] = [is |-> "box", id |-> n, add |-> a, remove |-> m]
  BY HandShape DEF RemoveMember, AddMembers
<1>2. job' = job
  BY DEF RemoveMember, AddMembers, rest
<1>3. \/ \E i \in m : /\ cur'[l][h] = [is |-> "box", id |-> n, add |-> a, remove |-> m \ {i}]
                      /\ boxes' = Changed(n, Box(n).members \ {i})
      \/ m = {} /\ cur'[l][h] = NoWork /\ boxes' = Changed(n, Box(n).members \cup a)
  <2>1. cur[l][h].is = "box" /\ cur[l][h].id = n /\ cur[l][h].add = a /\ cur[l][h].remove = m
    BY <1>1
  <2>2. CASE RemoveMember(l, h)
    <3>1. PICK i \in m : /\ boxes' = Changed(n, Box(n).members \ {i})
                         /\ \E x : /\ x = m \ {i}
                                   /\ cur' = Set(cur, l, h, [cur[l][h] EXCEPT !.remove = x])
      <4>1. ~Fail
        BY DEF Fail
      <4> QED BY <2>1, <2>2, <4>1, Zenon DEF RemoveMember, Do
    <3>2. PICK x : x = m \ {i} /\ cur' = Set(cur, l, h, [cur[l][h] EXCEPT !.remove = x])
      BY <3>1
    <3>3. cur'[l][h] = [cur[l][h] EXCEPT !.remove = x]
      BY <3>2, CurSet
    <3>4. [cur[l][h] EXCEPT !.remove = x] = [is |-> "box", id |-> n, add |-> a, remove |-> x]
      BY <1>1
    <3> QED BY <3>1, <3>2, <3>3, <3>4
  <2>3. CASE AddMembers(l, h)
    <3>1. m = {} /\ cur' = Set(cur, l, h, NoWork) /\ boxes' = Changed(n, Box(n).members \cup a)
      BY <2>1, <2>3 DEF AddMembers, Do, Fail
    <3> QED BY <3>1, CurSet
  <2> QED BY <2>2, <2>3
<1>4. CASE b.id # n
  <2>1. b \in boxes'
    BY <1>3, <1>4 DEF Changed
  <2>2. MembersTo(l, h, b)' = MembersTo(l, h, b)
    <3>1. MembersTo(l, h, b) = b.members
      BY <1>1, <1>4 DEF MembersTo
    <3>2. MembersTo(l, h, b)' = b.members
      <4>1. CASE cur'[l][h] = NoWork
        BY <4>1 DEF MembersTo, NoWork
      <4>2. ASSUME NEW x, cur'[l][h] = [is |-> "box", id |-> n, add |-> a, remove |-> x]
            PROVE  MembersTo(l, h, b)' = b.members
        BY <1>4, <4>2 DEF MembersTo
      <4> QED BY <1>3, <4>1, <4>2
    <3> QED BY <3>1, <3>2
  <2> QED BY <1>2, <2>1, <2>2, MadeNow
<1>5. CASE b.id = n
  <2>1. Box(n) = b
    BY <1>5 DEF Box, RestoreInv, BoxInv
  <2>2. MembersTo(l, h, b) = (b.members \ m) \cup a
    BY <1>1, <1>5 DEF MembersTo
  <2>3. ASSUME NEW S, boxes' = Changed(n, S)
        PROVE  \E c \in boxes' : Holds(c, l, h, k, r.title) /\ c.id = n /\ c.members = S
    <3>1. [b EXCEPT !.members = S] \in boxes'
      BY <1>5, <2>3 DEF Changed
    <3>2. LET c == [b EXCEPT !.members = S] IN
          /\ c.id = b.id /\ c.members = S /\ c.kind = b.kind /\ c.owner = b.owner
          /\ c.shelf = b.shelf /\ c.title = b.title
      BY DEF RestoreInv, BoxInv, Boxed
    <3> QED BY <1>5, <3>1, <3>2 DEF Holds
  <2>4. ASSUME NEW i \in m, cur'[l][h] = [is |-> "box", id |-> n, add |-> a, remove |-> m \ {i}],
               boxes' = Changed(n, b.members \ {i})
        PROVE  Made(l, h, k, r)'
    <3>1. PICK c \in boxes' : /\ Holds(c, l, h, k, r.title) /\ c.id = n
                              /\ c.members = b.members \ {i}
      BY <2>3, <2>4
    <3>2. MembersTo(l, h, c)' = ((b.members \ {i}) \ (m \ {i})) \cup a
      BY <2>4, <3>1 DEF MembersTo
    <3>3. MembersTo(l, h, c)' = MembersTo(l, h, b)
      BY <2>2, <2>4, <3>2
    <3> QED BY <1>2, <3>1, <3>3, MadeNow
  <2>5. ASSUME m = {}, cur'[l][h] = NoWork, boxes' = Changed(n, b.members \cup a)
        PROVE  Made(l, h, k, r)'
    <3>1. PICK c \in boxes' : /\ Holds(c, l, h, k, r.title) /\ c.id = n
                              /\ c.members = b.members \cup a
      BY <2>3, <2>5
    <3>2. MembersTo(l, h, c)' = c.members
      BY <2>5 DEF MembersTo, NoWork
    <3>3. MembersTo(l, h, c)' = MembersTo(l, h, b)
      BY <2>2, <2>5, <3>1, <3>2
    <3> QED BY <1>2, <3>1, <3>3, MadeNow
  <2> QED BY <1>3, <2>1, <2>4, <2>5
<1> QED
  BY <1>4, <1>5

LEMMA MakingGoes ==
    ASSUME RestoreAssumption, RestoreInv, ~stop, clean', [Next]_vars, NEW l \in Libraries,
           NEW h \in Handles, NEW k \in Boxing, NEW r \in Rows(l, h, k), Typed(r), r.members # {},
           Making(l, h, k, r)
    PROVE  ToCome(l, h, k, r)' \/ Making(l, h, k, r)' \/ Made(l, h, k, r)'
<1>1. cur[l][h].is = "new" /\ cur[l][h] # NoWork
  BY DEF Making, NoWork
<1>2. CASE Apace(l, h)
  BY <1>2 DEF Apace, Making
<1>3. ASSUME NEW n \in Phases, Begins(l, h, n)
      PROVE  FALSE
  BY <1>1, <1>3 DEF Begins
<1>4. ASSUME NEW s, TakesRow(l, h, s)
      PROVE  FALSE
  BY <1>1, <1>4, TakesRowAt
<1>5. CASE MakesCall(l, h)
  <2>1. CreateBox(l, h)
    BY <1>1, <1>5 DEF MakesCall, WriteRow, Resolve, CreateBox, RemoveMember, AddMembers
  <2>2. job' = job /\ cur' = Set(cur, l, h, NoWork)
    BY <2>1 DEF CreateBox, rest, Do
  <2>4. PICK b \in boxes' : Holds(b, l, h, k, r.title) /\ b.members = r.members
    <3> DEFINE new(n, some) == [id |-> n, kind |-> phase[l][h], owner |-> DestUser(h),
                          shelf |-> IF phase[l][h] = "collections" THEN l ELSE FamilyOf(some),
                          title |-> cur[l][h].title, members |-> some]
    <3>1. \E some \in SUBSET cur[l][h].add :
             some = cur[l][h].add /\ (some # {} => boxes' = boxes \cup {new(lastId', some)})
      <4>1. ~Fail
        BY DEF Fail
      <4> QED BY <2>1, <4>1, Zenon DEF CreateBox
    <3>2. cur[l][h].add # {} /\ cur[l][h].add = r.members
      BY DEF Making
    <3>3. new(lastId', r.members) \in boxes'
      <4> HIDE DEF new
      <4> QED BY <3>1, <3>2
    <3>4. \A n : Holds(new(n, r.members), l, h, k, r.title) /\ new(n, r.members).members = r.members
      <4>1. k = "playlists" => FamilyOf(r.members) = Family[l]
        BY FamilyOfRow
      <4> QED BY <4>1 DEF Holds, Making, Shelf, Boxing
    <3> HIDE DEF new
    <3> QED BY <3>3, <3>4
  <2>3. cur'[l][h] = NoWork
    BY <2>2, CurSet
  <2>5. MembersFit(r, MembersTo(l, h, b)')
    BY <2>3, <2>4 DEF MembersTo, MembersFit, NoWork
  <2> QED BY <2>2, <2>4, <2>5, MadeNow
<1>6. ASSUME phase'[l][h] = "off"
      PROVE  ToCome(l, h, k, r)'
  BY <1>6 DEF ToCome, Before, Boxing
<1> QED
  BY <1>2, <1>3, <1>4, <1>5, <1>6, StepAt

LEMMA BoxMadeStays ==
    ASSUME RestoreAssumption, Complete, RestoreInv, Separate(job), Named, SpareInv, HandsInv, ~stop,
           clean, clean', [Next]_vars, NEW l \in Libraries \cap job.libraries, NEW h \in Handles,
           NEW k \in Boxing, NEW r \in Rows(l, h, k), Typed(r), Made(l, h, k, r), ~TakeBox(l, h, r)
    PROVE  Made(l, h, k, r)'
<1>1. PICK b \in boxes : Holds(b, l, h, k, r.title) /\ MembersFit(r, MembersTo(l, h, b))
  BY DEF Made
<1>2. CASE RemoveMember(l, h) \/ AddMembers(l, h)
  BY <1>1, <1>2, BoxCalled
<1>3. CASE ~RemoveMember(l, h) /\ ~AddMembers(l, h)
  <2>1. b \in boxes' /\ job' = job
    BY <1>1, <1>3, BoxStands, JobStays
  <2>2. MembersTo(l, h, b)' = MembersTo(l, h, b)
    <3>1. CASE \A s : ~TakeBox(l, h, s)
      <4>1. cur'[l][h] = cur[l][h] \/ (cur[l][h].is # "box" /\ cur'[l][h].is # "box")
        BY <1>3, <3>1, BoxHandLeft
      <4> QED BY <4>1 DEF MembersTo
    <3>2. ASSUME NEW s, TakeBox(l, h, s)
          PROVE  MembersTo(l, h, b)' = MembersTo(l, h, b)
      <4>1. /\ cur[l][h] = NoWork /\ phase[l][h] \in Boxing /\ s \in todo[l][h]
            /\ UNCHANGED <<boxes, phase>> /\ s # r
        BY <3>2 DEF TakeBox, Took, dest, rest, Boxing
      <4>2. s \in Rows(l, h, phase[l][h])
        BY <4>1 DEF RestoreInv, LeftInv, Boxing, Kinds
      <4>3. CASE cur'[l][h].is # "box"
        BY <4>1, <4>3 DEF MembersTo, NoWork
      <4>4. CASE cur'[l][h].is = "box"
        <5>1. cur'[l][h].id # b.id
          <6>1. SUFFICES ASSUME cur'[l][h].id = b.id
                         PROVE  FALSE
            OBVIOUS
          <6>2. PICK c \in boxes : c.id = cur'[l][h].id /\ c.id \in existing[l][h] /\ c.title = s.title
            BY <3>2, <4>4, TakenBox
          <6>3. c = b
            BY <6>1, <6>2 DEF RestoreInv, BoxInv
          <6>4. Holds(b, l, h, phase[l][h], s.title)
            BY <4>1, <6>2, <6>3 DEF RestoreInv, FoundInv, Boxing, Holds, Shelf
          <6>5. phase[l][h] = k
            BY <1>1, <6>4 DEF Holds
          <6>6. s \in Rows(l, h, k) /\ s.title = r.title
            BY <1>1, <4>2, <6>4, <6>5 DEF Holds
          <6>7. s = r
            BY <6>6, RowOfTitle
          <6> QED BY <4>1, <6>7
        <5> QED BY <4>1, <4>4, <5>1 DEF MembersTo, NoWork
      <4> QED BY <4>3, <4>4
    <3> QED BY <3>1, <3>2
  <2> QED BY <1>1, <2>1, <2>2, MadeNow
<1> QED
  BY <1>2, <1>3

LEMMA BoxesStep ==
    ASSUME RestoreAssumption, Apart, Named, Complete, RestoreInv, SpareInv, TasksInv, HandsInv,
           BoxesInv, [Next]_vars
    PROVE  BoxesInv'
<1>1. job \in Jobs /\ Separate(job) /\ job' = job
  BY JobStays DEF RestoreInv, Shapes, Apart
<1>2. SUFFICES ASSUME clean', NEW l \in Libraries \cap job.libraries, NEW h \in Handles,
                      NEW k \in Boxing, NEW r \in Rows(l, h, k), Included(l, k), Typed(r),
                      r.members # {}
               PROVE  ToCome(l, h, k, r)' \/ Making(l, h, k, r)' \/ Made(l, h, k, r)'
  BY <1>1, SameJob, SameFits, SameTyped DEF BoxesInv, BoxesOk
<1>3. clean /\ ~stop /\ ResolvedOk(l, h)
  BY <1>2, CleanBefore DEF TasksInv, HandsInv
<1>4. CASE TakeBox(l, h, r)
  BY <1>2, <1>3, <1>4, TakeMakes
<1>5. CASE ~TakeBox(l, h, r)
  <2>1. ToCome(l, h, k, r) \/ Making(l, h, k, r) \/ Made(l, h, k, r)
    BY <1>2, <1>3 DEF BoxesInv, BoxesOk
  <2>2. CASE ToCome(l, h, k, r)
    <3>1. ~(phase[l][h] = k /\ TakesRow(l, h, r))
      BY <1>5 DEF TakesRow, ReadRow, RateRow, PurgeBox, Boxing
    <3> QED BY <1>2, <2>2, <3>1, StaysToCome DEF Boxing, Kinds
  <2>3. CASE Making(l, h, k, r)
    BY <1>2, <1>3, <2>3, MakingGoes
  <2>4. CASE Made(l, h, k, r)
    BY <1>1, <1>2, <1>3, <1>5, <2>4, BoxMadeStays
  <2> QED BY <2>1, <2>2, <2>3, <2>4
<1> QED
  BY <1>4, <1>5

-----------------------------------------------------------------------------
(* And of the playlists that the payload lacks                             *)

(* The sweep has listed every user it is through with.                     *)
SweepDoneInv ==
    clean /\ Replace /\ job.sweeps /\ sweep.on # "before" =>
        /\ sweep.on = "after" => sweep.users = {}
        /\ \A b \in boxes :
              (/\ b.kind = "playlists" /\ b.owner \in ({Owner} \cup job.home) \ sweep.users
               /\ InScope(b)) => b.title \in SourceTitles(b.owner) \/ b.id \in sweep.left

LEMMA SweepDoneStep == ASSUME RestoreInv, TasksInv, SweepDoneInv, [Next]_vars PROVE SweepDoneInv'
<1>1. job' = job /\ \A u : SourceTitles(u)' = SourceTitles(u)
  BY JobStays, SameTitles
<1>2. SUFFICES ASSUME clean', Replace, job.sweeps, sweep'.on # "before"
               PROVE  /\ sweep'.on = "after" => sweep'.users = {}
                      /\ \A b \in boxes' :
                            (/\ b.kind = "playlists"
                             /\ b.owner \in ({Owner} \cup job.home) \ sweep'.users
                             /\ InScope(b)) => b.title \in SourceTitles(b.owner) \/ b.id \in sweep'.left
  BY <1>1, SameJob DEF SweepDoneInv, InScope
<1>3. clean /\ ~Fail
  BY <1>2, CleanBefore DEF Fail
<1>4. sweep = [on |-> sweep.on, users |-> sweep.users, left |-> sweep.left]
      /\ (sweep.on # "delete" => sweep.left = {})
  BY DEF RestoreInv, SweepInv
<1>5. CASE sweep' = sweep /\ boxes' \subseteq boxes
  BY <1>2, <1>3, <1>5 DEF SweepDoneInv
<1>6. ASSUME NEW l \in Libraries, NEW h \in Handles,
             \/ CreateBox(l, h) \/ RemoveMember(l, h) \/ AddMembers(l, h)
             \/ \E id : PurgeBox(l, h, id)
      PROVE  FALSE
  <2>1. sweep' = sweep /\ (phase[l][h] = "purge" \/ cur[l][h].is \in {"new", "box"})
    BY <1>6 DEF CreateBox, RemoveMember, AddMembers, PurgeBox, rest
  <2>2. phase[l][h] \notin Still
    BY <2>1, HandShape DEF Still, Boxing
  <2>3. phase[l][h] \in Still
    BY <1>2, <2>1 DEF RestoreInv, SweepInv, LibInv, LibOk, Ended
  <2> QED BY <2>2, <2>3
<1>7. CASE StartSweep
  <2>1. sweep' = [on |-> "list", users |-> {Owner} \cup job.home, left |-> {}]
    BY <1>2, <1>7 DEF StartSweep
  <2> QED BY <2>1
<1>8. ASSUME NEW u \in Users, SweepUser(u)
      PROVE  /\ sweep'.on = "after" => sweep'.users = {}
             /\ \A b \in boxes' :
                   (/\ b.kind = "playlists"
                    /\ b.owner \in ({Owner} \cup job.home) \ sweep'.users
                    /\ InScope(b)) => b.title \in SourceTitles(b.owner) \/ b.id \in sweep'.left
  <2> DEFINE listed == {b.id : b \in {x \in {b \in boxes : b.kind = "playlists" /\ b.owner = u} :
                                      InScope(x) /\ x.title \notin SourceTitles(u)}}
  <2>1. /\ sweep' = [on |-> "delete", users |-> sweep.users \ {u}, left |-> listed]
        /\ boxes' = boxes /\ sweep.on = "list"
    BY <1>3, <1>8 DEF SweepUser
  <2>2. ASSUME NEW b \in boxes, b.kind = "playlists", b.owner = u, InScope(b),
               b.title \notin SourceTitles(u)
        PROVE  b.id \in listed
    BY <2>2
  <2> HIDE DEF listed
  <2>3. ASSUME NEW b \in boxes, b.kind = "playlists",
               b.owner \in ({Owner} \cup job.home) \ sweep.users, InScope(b)
        PROVE  b.title \in SourceTitles(b.owner)
    BY <1>2, <1>3, <1>4, <2>1, <2>3 DEF SweepDoneInv
  <2> QED BY <2>1, <2>2, <2>3
<1>9. ASSUME NEW id \in sweep.left, SweepBox(id)
      PROVE  /\ sweep'.on = "after" => sweep'.users = {}
             /\ \A b \in boxes' :
                   (/\ b.kind = "playlists"
                    /\ b.owner \in ({Owner} \cup job.home) \ sweep'.users
                    /\ InScope(b)) => b.title \in SourceTitles(b.owner) \/ b.id \in sweep'.left
  <2>1. /\ sweep' = [on |-> "delete", users |-> sweep.users, left |-> sweep.left \ {id}]
        /\ boxes' = {b \in boxes : b.id # id} /\ sweep.on = "delete"
    <3>1. boxes' = {b \in boxes : b.id # id} /\ sweep.on = "delete"
          /\ sweep' = [sweep EXCEPT !.left = @ \ {id}]
      BY <1>3, <1>9 DEF SweepBox
    <3>2. PICK s, x : sweep = [on |-> "delete", users |-> s, left |-> x]
      BY <1>4, <3>1
    <3> QED BY <3>1, <3>2
  <2> QED BY <1>2, <1>3, <2>1 DEF SweepDoneInv
<1>10. CASE SweptUser
  <2>1. /\ boxes' = boxes /\ sweep.on # "before"
        /\ \/ sweep' = [sweep EXCEPT !.on = "list"]
           \/ sweep' = [sweep EXCEPT !.on = "after"] /\ sweep.users = {}
    BY <1>10 DEF SweptUser
  <2>2. PICK o, s, x : sweep = [on |-> o, users |-> s, left |-> x]
    BY <1>4
  <2>3. /\ sweep'.users = sweep.users /\ sweep'.left = sweep.left
        /\ sweep'.on = "list" \/ sweep.users = {}
    BY <2>1, <2>2
  <2> QED BY <1>2, <1>3, <2>1, <2>3 DEF SweepDoneInv
<1>11. ~Rerun
  <2>1. NoSweep.on = "before"
    BY DEF NoSweep
  <2>2. Rerun => sweep' = NoSweep
    BY DEF Rerun
  <2> QED BY <1>2, <2>1, <2>2
<1>12. ASSUME NEW l \in Libraries, StartTask(l) \/ CancelTask(l) \/ EndTask(l)
       PROVE  sweep' = sweep
  BY <1>12 DEF StartTask, CancelTask, EndTask
<1>13. ASSUME NEW l \in Libraries, NEW h \in Handles,
              \/ EndPhase(l, h) \/ StartUser(l, h) \/ LoseListing(l, h)
              \/ WriteRow(l, h) \/ Resolve(l, h)
       PROVE  sweep' = sweep
  BY <1>13 DEF EndPhase, StartUser, LoseListing, WriteRow, Resolve, rest
<1>14. ASSUME NEW l \in Libraries, NEW h \in Handles, NEW r,
              ReadRow(l, h, r) \/ RateRow(l, h, r) \/ TakeBox(l, h, r)
       PROVE  sweep' = sweep
  BY <1>14 DEF ReadRow, RateRow, TakeBox, rest
<1>15. Stop \/ UNCHANGED vars => sweep' = sweep
  BY DEF Stop, vars
<1>16. \/ sweep' = sweep
       \/ StartSweep \/ SweptUser \/ (\E u \in Users : SweepUser(u))
       \/ \E id \in sweep.left : SweepBox(id)
       \/ \E l \in Libraries, h \in Handles :
             \/ CreateBox(l, h) \/ RemoveMember(l, h) \/ AddMembers(l, h)
             \/ \E id : PurgeBox(l, h, id)
  BY <1>11, <1>12, <1>13, <1>14, <1>15 DEF Next
<1>17. ASSUME sweep' = sweep, ~(\E id \in sweep.left : SweepBox(id))
       PROVE  boxes' \subseteq boxes
  BY <1>6, <1>17, BoxesChange
<1> QED
  BY <1>5, <1>6, <1>7, <1>8, <1>9, <1>10, <1>16, <1>17

(* All that an undisturbed run is known to have done.                      *)
EndsInv == TasksInv /\ WatchInv /\ RateInv /\ HandsInv /\ BoxesInv /\ SweepDoneInv

LEMMA EndsBegin == ASSUME RestoreAssumption, Init PROVE EndsInv
<1>1. /\ ~stop /\ sweep.on = "before" /\ boxes = Boxes0
      /\ \A l \in Libraries, h \in Handles :
            phase[l][h] = "off" /\ cur[l][h] = NoWork /\ todo[l][h] = {}
  BY DEF Init, Idle, NoSweep
<1>2. TasksInv
  BY <1>1 DEF Init, TasksInv
<1>3. WatchInv
  BY <1>1 DEF WatchInv, WatchOk, AddsOk, ToCome, Before, NoWork
<1>4. RateInv
  BY <1>1 DEF RateInv, RateOk, ToCome, Before
<1>5. HandsInv
  BY <1>1 DEF HandsInv, ResolvedOk, BoxInHand, PurgeOk, NoWork
<1>6. BoxesInv
  BY <1>1 DEF BoxesInv, BoxesOk, ToCome, Before, Boxing
<1>7. SweepDoneInv
  BY <1>1 DEF SweepDoneInv
<1> QED
  BY <1>2, <1>3, <1>4, <1>5, <1>6, <1>7 DEF EndsInv

LEMMA EndsStep ==
    ASSUME RestoreAssumption, Apart, Named, Complete, RestoreInv, MergeInv, SpareInv, EndsInv,
           [Next]_vars
    PROVE  EndsInv'
BY TasksStep, WatchStep, RateStep, HandsStep, BoxesStep, SweepDoneStep DEF EndsInv

(* A task that is over has written every row.                              *)
LEMMA RowsLanded ==
    ASSUME RestoreInv, EndsInv, Complete, clean, Ended, NEW k \in Kinds, NEW r \in Rowed(k)
    PROVE  /\ r.library \in Libraries \cap job.libraries /\ r.handle \in Handles
           /\ r \in Rows(r.library, r.handle, k) /\ Included(r.library, k)
           /\ cur[r.library][r.handle] = NoWork /\ ~ToCome(r.library, r.handle, k, r)
<1>1. /\ r \in Payload(job) /\ r.kind = k /\ r.library \in job.libraries
      /\ Included(r.library, k) /\ (r.handle = Owner \/ Selected(r.handle))
  BY DEF Rowed, Covered
<1>2. r.library \in Libraries /\ r.handle \in Handles
  BY <1>1 DEF Complete, RestoreInv, Shapes
<1>3. phase[r.library][r.handle] = "done"
  <2>1. lib[r.library] = "done"
    BY <1>1, <1>2 DEF Ended, EndsInv, TasksInv
  <2> QED BY <1>1, <1>2, <2>1 DEF EndsInv, TasksInv
<1>4. cur[r.library][r.handle] = NoWork
  BY <1>2, <1>3, ShapesNow DEF HandOk, Boxing
<1>5. ~ToCome(r.library, r.handle, k, r)
  BY <1>3 DEF ToCome, Before, Kinds
<1> QED
  BY <1>1, <1>2, <1>4, <1>5 DEF Rows

LEMMA EndsEqual ==
    ASSUME RestoreAssumption, Apart, Named, Complete, RestoreInv, EndsInv
    PROVE  ReplaceEndsEqual
<1>1. SUFFICES ASSUME Finished, clean, Replace
               PROVE  ReplaceEndsEqual
  BY DEF ReplaceEndsEqual
<1>2. Ended /\ sweep.on = "after" /\ sweep.left = {}
  BY <1>1 DEF Finished, RestoreInv, SweepInv
<1>3. ASSUME NEW r \in Rowed("watch"), r.views <= Cap
      PROVE  /\ views[DestUser(r.handle)][r.item] = r.views
             /\ offset[DestUser(r.handle)][r.item] = r.offset
  <2> DEFINE l == r.library
             h == r.handle
  <2>1. /\ l \in Libraries /\ h \in Handles /\ r \in Rows(l, h, "watch")
        /\ Included(l, "watch") /\ cur[l][h] = NoWork /\ ~ToCome(l, h, "watch", r)
    BY <1>1, <1>2, RowsLanded DEF Kinds
  <2>2. WatchFits(r, ViewsTo(l, h, r.item), OffsetTo(l, h, r.item))
    BY <1>1, <1>3, <2>1 DEF EndsInv, WatchInv, WatchOk
  <2>3. /\ ViewsTo(l, h, r.item) = views[DestUser(h)][r.item]
        /\ OffsetTo(l, h, r.item) = offset[DestUser(h)][r.item]
    BY <2>1 DEF ViewsTo, OffsetTo, Writing, NoWork
  <2> QED BY <1>1, <2>2, <2>3 DEF WatchFits
<1>4. ASSUME NEW r \in Rowed("ratings"), r.value # Unrated
      PROVE  rating[DestUser(r.handle)][r.item] = r.value
  <2> DEFINE l == r.library
             h == r.handle
  <2>1. /\ l \in Libraries /\ h \in Handles /\ r \in Rows(l, h, "ratings")
        /\ Included(l, "ratings") /\ ~ToCome(l, h, "ratings", r)
    BY <1>1, <1>2, RowsLanded DEF Kinds
  <2> QED BY <1>1, <1>4, <2>1 DEF EndsInv, RateInv, RateOk, RateFits
<1>5. ASSUME NEW k \in {"playlists", "collections"}, NEW r \in Rowed(k), Typed(r), r.members # {}
      PROVE  \E b \in boxes : /\ b.kind = k /\ b.owner = DestUser(r.handle) /\ b.title = r.title
                              /\ b.members = r.members
  <2> DEFINE l == r.library
             h == r.handle
  <2>1. /\ l \in Libraries \cap job.libraries /\ h \in Handles /\ r \in Rows(l, h, k)
        /\ Included(l, k) /\ cur[l][h] = NoWork /\ ~ToCome(l, h, k, r)
    BY <1>1, <1>2, RowsLanded DEF Kinds
  <2>2. Made(l, h, k, r)
    BY <1>1, <1>5, <2>1 DEF EndsInv, BoxesInv, BoxesOk, Boxing, Making, NoWork
  <2>3. PICK b \in boxes : Holds(b, l, h, k, r.title) /\ MembersFit(r, MembersTo(l, h, b))
    BY <2>2 DEF Made
  <2>4. b.members = r.members
    BY <1>1, <2>1, <2>3 DEF MembersTo, MembersFit, NoWork
  <2> QED BY <2>3, <2>4 DEF Holds
<1>6. ASSUME NEW b \in boxes, b.kind = "playlists", job.sweeps, b.owner \in {Owner} \cup job.home,
             InScope(b)
      PROVE  \E r \in job.payload : /\ r.kind = "playlists" /\ Covered(r)
                                    /\ r.title = b.title /\ DestUser(r.handle) = b.owner
  <2>1. b.title \in SourceTitles(b.owner)
    BY <1>1, <1>2, <1>6 DEF EndsInv, SweepDoneInv
  <2>2. PICK r \in job.payload : /\ r.kind = "playlists" /\ r.handle = b.owner
                                 /\ r.library \in job.libraries /\ r.title = b.title
    BY <2>1 DEF SourceTitles, ListTitles
  <2>3. job \in Jobs /\ r.handle \in Handles
    BY DEF RestoreInv, Shapes, Complete
  <2>4. DestUser(r.handle) = b.owner
    BY <2>2, <2>3, HandleIsUser
  <2>5. Included(r.library, "playlists") /\ (r.handle = Owner \/ Selected(r.handle))
    BY <1>6, <2>2, <2>3, <2>4 DEF Complete, Included, Selected
  <2> QED BY <2>2, <2>4, <2>5 DEF Covered
<1> QED
  BY <1>3, <1>4, <1>5, <1>6 DEF ReplaceEndsEqual

(* A Replace that ran to its end with no failed call and no Stop has made  *)
(* the destination equal to the snapshot for every user, library and kind  *)
(* it covers (run_restore, mode "replace"; purge_dest_only_playlists).     *)
THEOREM ReplacesEndEqual ==
    ASSUME Apart, Named, Complete PROVE Spec => []ReplaceEndsEqual
<1>1. Init => MergeInv /\ SpareInv /\ EndsInv
  <2>1. Init => MergeInv
    BY RestoreAssumption, MergeBegins
  <2>2. Init => SpareInv
    BY DEF Init, SpareInv, NoSweep
  <2>3. Init => EndsInv
    BY RestoreAssumption, EndsBegin
  <2> QED BY <2>1, <2>2, <2>3
<1>2. RestoreInv /\ MergeInv /\ [Next]_vars => MergeInv'
  BY MergeFits
<1>3. RestoreInv /\ JobLibs /\ SpareInv /\ [Next]_vars => SpareInv'
  BY SparesStep
<1>4. RestoreInv /\ MergeInv /\ SpareInv /\ EndsInv /\ [Next]_vars => EndsInv'
  BY RestoreAssumption, EndsStep
<1>5. RestoreInv /\ EndsInv => ReplaceEndsEqual
  BY RestoreAssumption, EndsEqual
<1> QED
  BY <1>1, <1>2, <1>3, <1>4, <1>5, RestoreIsSafe, TasksAreTheJobs, PTL DEF Spec

-----------------------------------------------------------------------------
(* Running the job again: no title is given twice                          *)

(* Before the first run no container is another one's double, and the      *)
(* owner has no playlist of a row's title but of the type of its library.  *)
Sole ==
    /\ \A b, c \in Boxes0 :
          (/\ b.kind = c.kind /\ b.owner = c.owner /\ b.title = c.title
           /\ b.kind = "collections" => b.shelf = c.shelf) => b = c
    /\ \A b \in Boxes0, j \in Jobs : \A r \in Payload(j) :
          (/\ r.kind = "playlists" /\ r.handle = Owner /\ r.title = b.title
           /\ b.kind = "playlists" /\ b.owner = Owner) => b.shelf = Family[r.library]

(* A row has one container at most; one that is being created has none,    *)
(* and those of the rows to come are among the existing ones.              *)
SoleOk(l, h, k, r) ==
    /\ \A b, c \in boxes : Holds(b, l, h, k, r.title) /\ Holds(c, l, h, k, r.title) => b = c
    /\ phase[l][h] = k /\ cur[l][h].is = "new" /\ cur[l][h].title = r.title =>
          r \notin todo[l][h] /\ \A b \in boxes : ~Holds(b, l, h, k, r.title)
    /\ phase[l][h] = k /\ r \in todo[l][h] =>
          \A b \in boxes : Holds(b, l, h, k, r.title) => b.id \in existing[l][h]
    /\ h = Owner /\ k = "playlists" =>
          /\ \A b \in boxes : Titled(b, l, h, k, r.title) => Holds(b, l, h, k, r.title)
          /\ phase[l][h] \in {"off", "watch"} =>
                \A b \in boxes : Holds(b, l, h, k, r.title) => b.id \in roster
SoleInv ==
    clean => \A l \in Libraries, h \in Handles, k \in Boxing : \A r \in Rows(l, h, k) :
                 Typed(r) => SoleOk(l, h, k, r)

(* Of the owner's playlists of a title the prefetch has the only one.      *)
LEMMA FetchedOwn ==
    ASSUME NEW bs, NEW got \in Fetched(bs), NEW b \in OwnLists(bs),
           \A c \in OwnLists(bs) : c.title = b.title => c = b
    PROVE  b.id \in got
BY DEF Fetched

LEMMA OnceMore == ASSUME [Next]_vars PROVE Rerun \/ UNCHANGED <<roster, runs, settled>>
<1>1. ASSUME NEW l \in Libraries, StartTask(l) \/ CancelTask(l) \/ EndTask(l)
      PROVE  UNCHANGED <<roster, runs, settled>>
  BY <1>1 DEF StartTask, CancelTask, EndTask
<1>2. ASSUME NEW l \in Libraries, NEW h \in Handles,
             \/ EndPhase(l, h) \/ StartUser(l, h) \/ LoseListing(l, h)
             \/ WriteRow(l, h) \/ Resolve(l, h)
             \/ CreateBox(l, h) \/ RemoveMember(l, h) \/ AddMembers(l, h)
      PROVE  UNCHANGED <<roster, runs, settled>>
  BY <1>2, Zenon DEF EndPhase, StartUser, LoseListing, WriteRow, Resolve, CreateBox,
                     RemoveMember, AddMembers, rest
<1>3. ASSUME NEW l \in Libraries, NEW h \in Handles, NEW r,
             ReadRow(l, h, r) \/ RateRow(l, h, r) \/ TakeBox(l, h, r) \/ PurgeBox(l, h, r)
      PROVE  UNCHANGED <<roster, runs, settled>>
  BY <1>3 DEF ReadRow, RateRow, TakeBox, PurgeBox, rest
<1>4. ASSUME \/ Stop \/ StartSweep \/ SweptUser \/ UNCHANGED vars
             \/ (\E u \in Users : SweepUser(u)) \/ (\E id \in sweep.left : SweepBox(id))
      PROVE  UNCHANGED <<roster, runs, settled>>
  BY <1>4 DEF Stop, StartSweep, SweptUser, SweepUser, SweepBox, over, vars
<1> QED
  BY <1>1, <1>2, <1>3, <1>4 DEF Next

(* A container there was not before is the one of a row that a create was  *)
(* at hand for, and a playlist is of the type of what it was created with. *)
Written(c, l, h, s) ==
    /\ Titled(c, l, h, phase[l][h], s.title) /\ cur[l][h].title = s.title
    /\ phase[l][h] = "playlists" =>
          /\ c.members # {} /\ c.members \subseteq s.members
          /\ c.shelf = FamilyOf(c.members)
LEMMA NewBox ==
    ASSUME RestoreInv, [Next]_vars, NEW c \in boxes'
    PROVE  \/ \E b \in boxes : b.id = c.id /\ SameBox(b, c)
           \/ \E l \in Libraries, h \in Handles :
                 /\ CreateBox(l, h) /\ phase[l][h] \in Boxing
                 /\ \E s \in Rows(l, h, phase[l][h]) : Written(c, l, h, s)
                 /\ c.id = lastId' /\ lastId' > lastId
<1>1. SUFFICES ASSUME c.id = lastId', lastId' > lastId, lastId \in Nat, lastId' \in Nat
               PROVE  \E l \in Libraries, h \in Handles :
                         /\ CreateBox(l, h) /\ phase[l][h] \in Boxing
                         /\ \E s \in Rows(l, h, phase[l][h]) : Written(c, l, h, s)
  BY StepRenews DEF Renewed, RestoreInv, BoxInv
<1>2. lastId' # lastId /\ c \notin boxes
  BY <1>1 DEF RestoreInv, BoxInv
<1>3. PICK l \in Libraries, h \in Handles : CreateBox(l, h)
  <2>1. ASSUME NEW l \in Libraries, NEW h \in Handles,
               RemoveMember(l, h) \/ AddMembers(l, h) \/ \E id : PurgeBox(l, h, id)
        PROVE  FALSE
    BY <1>2, <2>1 DEF RemoveMember, AddMembers, PurgeBox, ids
  <2>2. ASSUME NEW id, SweepBox(id)
        PROVE  FALSE
    BY <1>2, <2>2 DEF SweepBox, ids
  <2> QED BY <1>2, <2>1, <2>2, BoxesChange
<1>4. cur[l][h].is = "new"
  BY <1>3 DEF CreateBox
<1>5. PICK s \in Rows(l, h, phase[l][h]) :
          s.title = cur[l][h].title /\ cur[l][h].add \subseteq s.members
  <2>1. HandOk(l, h, cur[l][h])
    BY ShapesNow
  <2> QED BY <1>4, <2>1 DEF HandOk, NoWork
<1>6. phase[l][h] \in Boxing
  BY <1>4, HandShape
<1>7. PICK m \in SUBSET cur[l][h].add :
         /\ m # {}
         /\ c = [id |-> lastId', kind |-> phase[l][h], owner |-> DestUser(h),
                  shelf |-> IF phase[l][h] = "collections" THEN l ELSE FamilyOf(m),
                  title |-> cur[l][h].title, members |-> m]
  <2> DEFINE new(m) == [id |-> lastId', kind |-> phase[l][h], owner |-> DestUser(h),
                        shelf |-> IF phase[l][h] = "collections" THEN l ELSE FamilyOf(m),
                        title |-> cur[l][h].title, members |-> m]
  <2>1. \/ UNCHANGED boxes
        \/ \E m \in SUBSET cur[l][h].add : m # {} /\ boxes' = boxes \cup {new(m)}
    BY <1>3, Zenon DEF CreateBox
  <2> HIDE DEF new
  <2>2. \E m \in SUBSET cur[l][h].add : m # {} /\ c = new(m)
    BY <1>2, <2>1
  <2> QED BY <2>2 DEF new
<1>8. Titled(c, l, h, phase[l][h], s.title)
  BY <1>5, <1>7 DEF Titled
<1>9. phase[l][h] = "playlists" => /\ c.members # {} /\ c.members \subseteq s.members
                                  /\ c.shelf = FamilyOf(c.members)
  BY <1>5, <1>7
<1> QED
  BY <1>3, <1>5, <1>6, <1>8, <1>9 DEF Written

LEMMA HoldsBefore ==
    ASSUME Complete, RestoreInv, Separate(job), [Next]_vars, NEW c \in boxes',
           NEW l \in Libraries, NEW h \in Handles, NEW k \in Boxing, NEW r \in Rows(l, h, k),
           Holds(c, l, h, k, r.title)
    PROVE  \/ \E b \in boxes : b.id = c.id /\ Holds(b, l, h, k, r.title)
           \/ /\ CreateBox(l, h) /\ phase[l][h] = k /\ cur[l][h].is = "new"
              /\ cur[l][h].title = r.title /\ c.id = lastId' /\ lastId' > lastId
<1>1. ASSUME NEW b \in boxes, b.id = c.id, SameBox(b, c)
      PROVE  Holds(b, l, h, k, r.title)
  BY <1>1 DEF Holds, SameBox
<1>2. ASSUME NEW m \in Libraries, NEW g \in Handles, CreateBox(m, g), phase[m][g] \in Boxing,
             NEW s \in Rows(m, g, phase[m][g]), Written(c, m, g, s)
      PROVE  /\ CreateBox(l, h) /\ phase[l][h] = k /\ cur[l][h].is = "new"
             /\ cur[l][h].title = r.title
  <2>1. m = l /\ g = h /\ phase[m][g] = k /\ s = r
    BY <1>2, RowOfBox, HoldsTitled DEF Written
  <2> QED BY <1>2, <2>1 DEF CreateBox, Written
<1> QED
  BY <1>1, <1>2, NewBox

(* A playlist of the title of one that is of its library's type has that   *)
(* type, if those that were there have.                                    *)
LEMMA TitledHolds ==
    ASSUME Complete, RestoreInv, Separate(job), [Next]_vars, NEW c \in boxes',
           NEW l \in Libraries, NEW h \in Handles, NEW r \in Rows(l, h, "playlists"), Typed(r),
           \A b \in boxes : Titled(b, l, h, "playlists", r.title)
                             => Holds(b, l, h, "playlists", r.title),
           Titled(c, l, h, "playlists", r.title)
    PROVE  Holds(c, l, h, "playlists", r.title)
<1>1. ASSUME NEW b \in boxes, SameBox(b, c)
      PROVE  Holds(c, l, h, "playlists", r.title)
  <2>1. Titled(b, l, h, "playlists", r.title)
    BY <1>1 DEF Titled, SameBox
  <2> QED BY <1>1, <2>1 DEF Holds, SameBox
<1>2. ASSUME NEW m \in Libraries, NEW g \in Handles, phase[m][g] \in Boxing,
             NEW s \in Rows(m, g, phase[m][g]), Written(c, m, g, s)
      PROVE  Holds(c, l, h, "playlists", r.title)
  <2>1. m = l /\ g = h /\ phase[m][g] = "playlists" /\ s = r
    <3>1. "playlists" \in Boxing
      BY DEF Boxing
    <3>2. Titled(c, m, g, phase[m][g], s.title)
      BY <1>2 DEF Written
    <3> QED BY <1>2, <3>1, <3>2, RowOfBox
  <2>2. c.shelf = Family[l]
    BY <1>2, <2>1, FamilyOfRow DEF Written
  <2> QED BY <2>2 DEF Holds, Titled, Shelf
<1> QED
  BY <1>1, <1>2, NewBox

(* A create at hand was just decided on, or was there.                     *)
LEMMA NewHand ==
    ASSUME RestoreAssumption, RestoreInv, ~stop, clean', [Next]_vars,
           NEW l \in Libraries, NEW h \in Handles, cur'[l][h].is = "new"
    PROVE  \/ Apace(l, h)
           \/ \E s \in todo[l][h] :
                 /\ TakeBox(l, h, s) /\ cur'[l][h].title = s.title
                 /\ \A b \in boxes : b.id \in existing[l][h] => b.title # s.title
<1>0. NoWork.is # "new"
  BY DEF NoWork
<1>1. ASSUME NEW k \in Phases, Begins(l, h, k)
      PROVE  FALSE
  <2>1. cur'[l][h].is \in {"nothing", "resolving"}
    BY <1>1, BeginsHand
  <2> QED BY <2>1
<1>2. ASSUME NEW s, TakesRow(l, h, s)
      PROVE  /\ s \in todo[l][h] /\ TakeBox(l, h, s) /\ cur'[l][h].title = s.title
             /\ \A b \in boxes : b.id \in existing[l][h] => b.title # s.title
  <2>1. cur[l][h] = NoWork /\ s \in todo[l][h]
    BY <1>2, TakesRowAt
  <2>2. ~RateRow(l, h, s) /\ ~PurgeBox(l, h, s)
    BY <1>0, <2>1 DEF RateRow, PurgeBox
  <2>3. ~ReadRow(l, h, s)
    <3>1. cur[l][h].is = "nothing"
      BY <2>1 DEF NoWork
    <3>2. ReadRow(l, h, s) => cur'[l][h].is \in {"item", "nothing"}
      BY <3>1, WatchHand
    <3> QED BY <3>2
  <2>4. TakeBox(l, h, s)
    BY <1>2, <2>2, <2>3 DEF TakesRow
  <2> DEFINE hit == s.members \cap found[l][h]
             same == {b \in boxes : b.id \in existing[l][h] /\ b.title = s.title}
  <2>5. \/ UNCHANGED cur
        \/ /\ same = {}
           /\ cur' = Set(cur, l, h, [is |-> "new", title |-> s.title, add |-> hit])
        \/ \E b \in same : cur' = Set(cur, l, h,
                [is |-> "box", id |-> b.id, add |-> hit \ b.members,
                 remove |-> IF Replace THEN b.members \ hit ELSE {}])
    BY <2>4 DEF TakeBox, Do
  <2>6. ASSUME NEW n, NEW a, NEW m,
               cur' = Set(cur, l, h, [is |-> "box", id |-> n, add |-> a, remove |-> m])
        PROVE  FALSE
    <3>1. cur'[l][h] = [is |-> "box", id |-> n, add |-> a, remove |-> m]
      BY <2>6, CurSet
    <3> QED BY <3>1
  <2>7. ASSUME NEW a, cur' = Set(cur, l, h, [is |-> "new", title |-> s.title, add |-> a])
        PROVE  cur'[l][h].title = s.title
    <3>1. cur'[l][h] = [is |-> "new", title |-> s.title, add |-> a]
      BY <2>7, CurSet
    <3> QED BY <3>1
  <2>8. \A b \in boxes : b.id \in existing[l][h] /\ b.title = s.title => b \in same
    OBVIOUS
  <2>9. ~UNCHANGED cur
    BY <1>0, <2>1
  <2> HIDE DEF hit, same
  <2> QED BY <2>1, <2>4, <2>5, <2>6, <2>7, <2>8, <2>9
<1>3. ASSUME MakesCall(l, h)
      PROVE  FALSE
  <2>1. CASE Resolve(l, h) \/ CreateBox(l, h) \/ AddMembers(l, h)
    <3>1. cur' = Set(cur, l, h, NoWork)
      BY <2>1 DEF Resolve, CreateBox, AddMembers, Do
    <3> QED BY <1>0, <3>1, CurSet
  <2>2. CASE WriteRow(l, h)
    <3>1. cur[l][h].is = "item"
      BY <2>2 DEF WriteRow
    <3>2. cur'[l][h].is \in {"item", "nothing"}
      BY <2>2, <3>1, WatchHand
    <3> QED BY <3>2
  <2>3. CASE RemoveMember(l, h)
    <3>1. PICK n, a, m : cur[l][h] = [is |-> "box", id |-> n, add |-> a, remove |-> m]
      BY <2>3, HandShape DEF RemoveMember
    <3>2. PICK x : cur' = Set(cur, l, h, [cur[l][h] EXCEPT !.remove = x])
      BY <2>3, Zenon DEF RemoveMember, Do
    <3>3. cur'[l][h] = [cur[l][h] EXCEPT !.remove = x]
      BY <3>2, CurSet
    <3>4. [cur[l][h] EXCEPT !.remove = x].is = "box"
      BY <3>1
    <3> QED BY <3>3, <3>4
  <2> QED BY <1>3, <2>1, <2>2, <2>3 DEF MakesCall
<1> QED
  BY <1>0, <1>1, <1>2, <1>3, StepAt

LEMMA SoleStep ==
    ASSUME RestoreAssumption, Apart, Complete, RestoreInv, TasksInv, SoleInv, [Next]_vars
    PROVE  SoleInv'
<1>1. job \in Jobs /\ Separate(job) /\ job' = job
  BY JobStays DEF RestoreInv, Shapes, Apart
<1>2. SUFFICES ASSUME clean', NEW l \in Libraries, NEW h \in Handles, NEW k \in Boxing,
                      NEW r \in Rows(l, h, k), Typed(r)
               PROVE  SoleOk(l, h, k, r)'
  BY <1>1, SameJob, SameTyped DEF SoleInv
<1>3. clean /\ ~stop /\ SoleOk(l, h, k, r)
  BY <1>2, CleanBefore DEF TasksInv, SoleInv
<1> DEFINE H(c) == Holds(c, l, h, k, r.title)
           Makes == /\ CreateBox(l, h) /\ phase[l][h] = k /\ cur[l][h].is = "new"
                    /\ cur[l][h].title = r.title
<1>4. ASSUME NEW c \in boxes', H(c)
      PROVE  \/ \E b \in boxes : b.id = c.id /\ H(b)
             \/ Makes /\ c.id = lastId'
  BY <1>1, <1>4, HoldsBefore
<1>5. Makes => /\ \A b \in boxes : ~H(b)
               /\ r \notin todo'[l][h] /\ cur'[l][h] = NoWork /\ phase'[l][h] = k
  <2>1. CreateBox(l, h) => UNCHANGED <<todo, phase>> /\ cur' = Set(cur, l, h, NoWork)
    BY DEF CreateBox, rest, Do
  <2> QED BY <1>3, <2>1, CurSet DEF SoleOk
<1>6. \A c : H(c)' = H(c')
  BY <1>1, SameHolds
<1> HIDE DEF H, Makes
<1>7. ASSUME NEW b \in boxes', NEW c \in boxes', H(b), H(c)
      PROVE  b = c
  <2>1. CASE Makes
    BY <1>4, <1>5, <1>7, <2>1, StepRenews DEF Renewed
  <2>2. CASE ~Makes
    <3>1. PICK x \in boxes, y \in boxes : x.id = b.id /\ y.id = c.id /\ H(x) /\ H(y)
      BY <1>4, <1>7, <2>2
    <3>2. x = y
      BY <1>3, <3>1 DEF SoleOk, H
    <3> QED BY <3>1, <3>2, StepRenews DEF Renewed
  <2> QED BY <2>1, <2>2
<1>8. ASSUME phase'[l][h] = k, cur'[l][h].is = "new", cur'[l][h].title = r.title
      PROVE  r \notin todo'[l][h] /\ \A c \in boxes' : ~H(c)
  <2>0. ~Makes
    BY <1>5, <1>8 DEF NoWork
  <2>1. CASE Apace(l, h)
    <3>1. r \notin todo[l][h] /\ \A b \in boxes : ~H(b)
      BY <1>3, <1>8, <2>1 DEF Apace, SoleOk, H
    <3> QED BY <1>4, <2>0, <2>1, <3>1 DEF Apace
  <2>2. ASSUME NEW s \in todo[l][h], TakeBox(l, h, s), cur'[l][h].title = s.title,
               \A b \in boxes : b.id \in existing[l][h] => b.title # s.title
        PROVE  r \notin todo'[l][h] /\ \A c \in boxes' : ~H(c)
    <3>1. UNCHANGED <<phase, boxes>> /\ todo' = Set(todo, l, h, todo[l][h] \ {s})
      BY <2>2 DEF TakeBox, Took, rest, dest
    <3>2. phase[l][h] = k /\ todo'[l][h] = todo[l][h] \ {s}
      BY <1>8, <3>1, ShapesNow, SetShape
    <3>3. s \in Rows(l, h, k)
      BY <2>2, <3>2 DEF RestoreInv, LeftInv, Boxing, Kinds
    <3>4. s = r
      BY <1>8, <2>2, <3>3, RowOfTitle
    <3>5. ASSUME NEW b \in boxes, H(b)
          PROVE  FALSE
      <4>1. b.id \in existing[l][h]
        BY <1>3, <2>2, <3>2, <3>4, <3>5 DEF SoleOk, H
      <4>2. b.title = s.title
        BY <3>4, <3>5 DEF H, Holds
      <4> QED BY <2>2, <4>1, <4>2
    <3> QED BY <3>1, <3>2, <3>4, <3>5
  <2> QED BY <1>2, <1>3, <1>8, <2>1, <2>2, NewHand
<1>9. ASSUME phase'[l][h] = k, r \in todo'[l][h], NEW c \in boxes', H(c)
      PROVE  c.id \in existing'[l][h]
  <2>1. PICK b \in boxes : b.id = c.id /\ H(b)
    BY <1>4, <1>5, <1>9
  <2>2. ASSUME phase[l][h] = k, r \in todo[l][h], existing'[l][h] = existing[l][h]
        PROVE  c.id \in existing'[l][h]
    BY <1>3, <2>1, <2>2 DEF SoleOk, H
  <2>3. CASE Apace(l, h)
    BY <1>9, <2>2, <2>3 DEF Apace
  <2>4. ASSUME NEW n \in Phases, Begins(l, h, n)
        PROVE  c.id \in existing'[l][h]
    <3>1. n = k
      BY <1>9, <2>4, BeginsPhase
    <3>2. Begins(l, h, k)
      BY <2>4, <3>1
    <3>3. existing'[l][h] = {x.id : x \in Existing(l, h, k)}
      BY <3>2, BeginsAt
    <3>4. k = "playlists" => phase[l][h] = "watch"
      BY <3>2 DEF Begins, After, Still
    <3>5. k = "playlists" /\ h = Owner => b.id \in roster
      BY <1>3, <2>1, <3>4 DEF SoleOk, H
    <3>6. b \in Existing(l, h, k)
      BY <2>1, <3>5 DEF Existing, H, Holds, Shelf
    <3> QED BY <2>1, <3>3, <3>6
  <2>5. ASSUME NEW s, TakesRow(l, h, s)
        PROVE  c.id \in existing'[l][h]
    BY <1>9, <2>2, <2>5, TakesRowAt
  <2>6. ASSUME MakesCall(l, h)
        PROVE  c.id \in existing'[l][h]
    BY <1>9, <2>2, <2>6, MakesCallAt
  <2>7. phase'[l][h] # "off"
    BY <1>9 DEF Boxing
  <2> QED BY <1>2, <1>3, <2>3, <2>4, <2>5, <2>6, <2>7, StepAt
<1>10. ASSUME h = Owner, k = "playlists", phase'[l][h] \in {"off", "watch"}, NEW c \in boxes', H(c)
       PROVE  c.id \in roster'
  <2>1. CASE Rerun
    <3>1. roster' \in Fetched(boxes) /\ c \in boxes
      BY <1>10, <2>1 DEF Rerun, dest
    <3>2. c \in OwnLists(boxes) /\ c.title = r.title
      BY <1>1, <1>10, <3>1 DEF H, Holds, Separate, DestUser, OwnLists
    <3>3. ASSUME NEW b \in OwnLists(boxes), b.title = c.title
          PROVE  b = c
      <4>1. b \in boxes /\ Titled(b, l, h, k, r.title)
        BY <1>1, <1>10, <3>2, <3>3 DEF Titled, OwnLists, Separate, DestUser
      <4> QED BY <1>3, <1>10, <3>1, <4>1 DEF SoleOk, H
    <3> QED BY <3>1, <3>2, <3>3, FetchedOwn
  <2>2. CASE ~Rerun
    <3>1. roster' = roster
      BY <2>2, OnceMore
    <3>2. PICK b \in boxes : b.id = c.id /\ H(b)
      BY <1>4, <1>5, <1>10
    <3>3. phase[l][h] \in {"off", "watch"}
      <4>1. CASE Apace(l, h)
        BY <1>10, <4>1 DEF Apace
      <4>2. ASSUME NEW n \in Phases, Begins(l, h, n)
            PROVE  phase[l][h] \in {"off", "watch"}
        <5>1. n \in {"off", "watch"}
          BY <1>10, <4>2, BeginsPhase
        <5>2. phase[l][h] \in Phases
          BY DEF RestoreInv, Shapes
        <5> QED BY <4>2, <5>1, <5>2 DEF Begins, After, Phases, Kinds, Still
      <4>3. ASSUME NEW s, TakesRow(l, h, s)
            PROVE  phase[l][h] \in {"off", "watch"}
        BY <1>10, <4>3, TakesRowAt
      <4>4. ASSUME MakesCall(l, h)
            PROVE  phase[l][h] \in {"off", "watch"}
        BY <1>10, <4>4, MakesCallAt
      <4> QED BY <1>2, <1>3, <2>2, <4>1, <4>2, <4>3, <4>4, StepAt
    <3> QED BY <1>3, <1>10, <3>1, <3>2, <3>3 DEF SoleOk, H
  <2> QED BY <2>1, <2>2
<1>11. ASSUME h = Owner, k = "playlists", NEW c \in boxes', Titled(c, l, h, k, r.title)
       PROVE  H(c)
  BY <1>1, <1>2, <1>3, <1>11, TitledHolds DEF SoleOk, H
<1>12. \A c : Titled(c, l, h, k, r.title)' = Titled(c', l, h, k, r.title)
  BY <1>1, SameJob DEF Titled
<1> QED
  BY <1>6, <1>7, <1>8, <1>9, <1>10, <1>11, <1>12 DEF SoleOk, H

(* What a purge has left of the collections that no row is for.            *)
Leftover(b, l, h) ==
    /\ b.kind = "collections" /\ b.shelf = l /\ b.owner = DestUser(h)
    /\ \A r \in Rows(l, h, "collections") : r.title # b.title
Marked(b, l, h) ==
    \/ phase[l][h] \in {"off", "watch", "playlists"}
    \/ phase[l][h] = "collections" /\ b.id \in existing[l][h]
    \/ phase[l][h] = "purge" /\ b.id \in todo[l][h]
PurgedInv ==
    clean /\ Replace => \A l \in Libraries, h \in Handles : Included(l, "collections") =>
        \A b \in boxes : Leftover(b, l, h) => Marked(b, l, h)

LEMMA PurgedStep ==
    ASSUME RestoreAssumption, Apart, Complete, RestoreInv, TasksInv, PurgedInv, [Next]_vars
    PROVE  PurgedInv'
<1>1. job \in Jobs /\ Separate(job) /\ job' = job
  BY JobStays DEF RestoreInv, Shapes, Apart
<1>2. SUFFICES ASSUME clean', Replace, NEW l \in Libraries, NEW h \in Handles,
                      Included(l, "collections"), NEW c \in boxes', Leftover(c, l, h)
               PROVE  Marked(c, l, h)'
  <2>1. Replace' = Replace /\ \A m : Included(m, "collections")' = Included(m, "collections")
    BY <1>1, SameJob, SameFits
  <2>2. \A c, m, g : Leftover(c, m, g)' = Leftover(c', m, g)
    BY <1>1, SameJob DEF Leftover
  <2> QED BY <2>1, <2>2 DEF PurgedInv
<1>3. clean /\ ~stop
  BY <1>2, CleanBefore DEF TasksInv
<1>4. PICK b \in boxes : b.id = c.id /\ SameBox(b, c)
  <2>1. ASSUME NEW m \in Libraries, NEW g \in Handles, phase[m][g] \in Boxing,
               NEW s \in Rows(m, g, phase[m][g]), Written(c, m, g, s)
        PROVE  FALSE
    <3>1. phase[m][g] = "collections" /\ m = l /\ DestUser(g) = DestUser(h) /\ s.title = c.title
      BY <1>2, <2>1 DEF Written, Titled, Leftover
    <3>2. g = h
      BY <1>1, <3>1 DEF Separate, DestUser
    <3> QED BY <1>2, <2>1, <3>1, <3>2 DEF Leftover
  <2> QED BY <2>1, NewBox
<1>5. Marked(b, l, h)
  <2>1. Leftover(b, l, h)
    BY <1>2, <1>4 DEF Leftover, SameBox
  <2> QED BY <1>2, <1>3, <2>1 DEF PurgedInv
<1>6. CASE Apace(l, h)
  BY <1>4, <1>5, <1>6 DEF Apace, Marked
<1>7. ASSUME NEW n \in Phases, Begins(l, h, n)
      PROVE  Marked(c, l, h)'
  <2>1. phase'[l][h] = n
    BY <1>7, BeginsPhase
  <2>2. \/ phase[l][h] = "off" /\ n = "watch"
        \/ phase[l][h] \notin Still /\ n = After(phase[l][h]) /\ todo[l][h] = {}
    BY <1>7 DEF Begins
  <2>3. phase[l][h] # "purge"
    BY <1>5, <2>2 DEF Marked, Still
  <2>4. CASE n \in {"watch", "playlists"}
    BY <2>1, <2>4 DEF Marked
  <2>5. CASE n = "collections"
    <3>1. Begins(l, h, "collections")
      BY <1>7, <2>5
    <3>2. existing'[l][h] = {x.id : x \in Existing(l, h, "collections")}
      BY <3>1, BeginsAt DEF Boxing
    <3>3. b \in Existing(l, h, "collections")
      BY <1>2, <1>4 DEF Existing, Shelf, Leftover, SameBox
    <3> QED BY <1>4, <2>1, <2>5, <3>2, <3>3 DEF Marked
  <2>6. CASE n = "purge"
    <3>1. Begins(l, h, "purge")
      BY <1>7, <2>6
    <3>2. todo'[l][h] = DestOnly(l, h)
      BY <1>2, <3>1, BeginsAt
    <3>3. phase[l][h] = "collections"
      BY <2>2, <2>6 DEF After, Still, RestoreInv, Shapes, Phases, Kinds
    <3>4. b.id \in existing[l][h]
      BY <1>5, <3>3 DEF Marked
    <3>5. c.id \in DestOnly(l, h)
      BY <1>2, <1>4, <3>4 DEF DestOnly, Leftover, SameBox
    <3> QED BY <2>1, <2>6, <3>2, <3>5 DEF Marked
  <2> QED BY <1>5, <2>2, <2>3, <2>4, <2>5, <2>6 DEF Marked, After, Still
<1>8. ASSUME NEW r, TakesRow(l, h, r)
      PROVE  Marked(c, l, h)'
  <2>1. UNCHANGED <<phase, existing>> /\ todo'[l][h] = todo[l][h] \ {r}
    BY <1>8, TakesRowAt
  <2>2. phase[l][h] = "purge" => c.id # r
    <3>1. SUFFICES ASSUME phase[l][h] = "purge"
                   PROVE  c.id # r
      OBVIOUS
    <3>2. PurgeBox(l, h, r)
      BY <1>8, <3>1 DEF TakesRow, ReadRow, RateRow, TakeBox
    <3>3. boxes' = {x \in boxes : x.id # r}
      BY <1>2, <3>2 DEF PurgeBox, Fail
    <3> QED BY <3>3
  <2> QED BY <1>4, <1>5, <2>1, <2>2 DEF Marked
<1>9. ASSUME MakesCall(l, h)
      PROVE  Marked(c, l, h)'
  BY <1>4, <1>5, <1>9, MakesCallAt DEF Marked
<1>10. phase'[l][h] = "off" => Marked(c, l, h)'
  BY DEF Marked
<1> QED
  BY <1>2, <1>3, <1>6, <1>7, <1>8, <1>9, <1>10, StepAt

-----------------------------------------------------------------------------
(* Running the job again: nothing is left to write                         *)

LEMMA OwnersOwn == ASSUME RestoreInv, Separate(job) PROVE DestUser(Owner) = Owner
BY DEF Separate, DestUser

LEMMA SoleBegins ==
    ASSUME RestoreAssumption, Apart, Sole, Init
    PROVE  SoleInv /\ PurgedInv
<1>1. /\ boxes = Boxes0 /\ roster \in Fetched(Boxes0) /\ job \in Jobs
      /\ \A l \in Libraries, h \in Handles : phase[l][h] = "off" /\ cur[l][h] = NoWork
  BY DEF Init, Idle
<1>2. DestUser(Owner) = Owner
  BY <1>1 DEF Apart, Separate, DestUser
<1>3. PurgedInv
  BY <1>1 DEF PurgedInv, Marked
<1>4. ASSUME NEW l \in Libraries, NEW h \in Handles, NEW k \in Boxing, NEW r \in Rows(l, h, k)
      PROVE  SoleOk(l, h, k, r)
  <2>1. \A b, c \in boxes : Titled(b, l, h, k, r.title) /\ Titled(c, l, h, k, r.title) => b = c
    BY <1>1 DEF Sole, Titled, Boxing
  <2>2. ASSUME h = Owner, k = "playlists", NEW b \in boxes, Titled(b, l, h, k, r.title)
        PROVE  Holds(b, l, h, k, r.title) /\ b.id \in roster
    <3>1. /\ b.kind = "playlists" /\ b.owner = Owner /\ b.title = r.title
          /\ r \in Payload(job) /\ r.kind = "playlists" /\ r.handle = Owner /\ r.library = l
      BY <1>2, <2>2 DEF Titled, Rows
    <3>2. b.shelf = Family[l]
      BY <1>1, <3>1 DEF Sole
    <3>3. b \in OwnLists(Boxes0) /\ \A c \in OwnLists(Boxes0) : c.title = b.title => c = b
      BY <1>1, <3>1 DEF Sole, OwnLists
    <3> QED BY <1>1, <2>2, <3>2, <3>3, FetchedOwn DEF Holds, Titled, Shelf
  <2>3. phase[l][h] # k
    BY <1>1 DEF Boxing
  <2> QED BY <2>1, <2>2, <2>3, HoldsTitled DEF SoleOk
<1> QED
  BY <1>3, <1>4 DEF SoleInv

(* The job's counts are within the cap and its playlists of their          *)
(* libraries' types; a user the tasks restore.                             *)
Modest ==
    (\A r \in Rowed("watch") : r.views <= Cap) /\ \A r \in Rowed("playlists") : Typed(r)
Served(h) == h = Owner \/ Selected(h)

(* The destination has what the rows of a user in a library ask for.       *)
Granted(l, h) ==
    /\ \A r \in Rows(l, h, "watch") : Included(l, "watch") =>
          WatchFits(r, views[DestUser(h)][r.item], offset[DestUser(h)][r.item])
    /\ \A r \in Rows(l, h, "ratings") : Included(l, "ratings") =>
          RateFits(r, rating[DestUser(h)][r.item])
    /\ \A k \in Boxing : \A r \in Rows(l, h, k) : Included(l, k) /\ r.members # {} =>
          /\ \E b \in boxes : Holds(b, l, h, k, r.title)
          /\ \A b \in boxes : Holds(b, l, h, k, r.title) => MembersFit(r, b.members)
    /\ Replace /\ Included(l, "collections") => \A b \in boxes : ~Leftover(b, l, h)
SweptClean ==
    Replace /\ job.sweeps => \A b \in boxes :
        b.kind = "playlists" /\ b.owner \in {Owner} \cup job.home /\ InScope(b) =>
            b.title \in SourceTitles(b.owner)
Landed ==
    /\ SweptClean
    /\ \A l \in Libraries \cap job.libraries, h \in Handles : Served(h) => Granted(l, h)

LEMMA AllLanded ==
    ASSUME RestoreInv, Complete, EndsInv, SoleInv, PurgedInv, Modest, clean, sweep.on = "after"
    PROVE  Landed
<1>1. Ended /\ sweep.left = {}
  BY DEF RestoreInv, SweepInv
<1>2. SweptClean
  BY <1>1 DEF EndsInv, SweepDoneInv, SweptClean
<1>3. ASSUME NEW l \in Libraries \cap job.libraries, NEW h \in Handles, Served(h)
      PROVE  Granted(l, h)
  <2>1. \A k \in Kinds : \A r \in Rows(l, h, k) : Included(l, k) => r \in Rowed(k)
    BY <1>3 DEF Rows, Rowed, Covered, Included, Served
  <2>2. phase[l][h] = "done"
    BY <1>1, <1>3 DEF Ended, Served, EndsInv, TasksInv
  <2>3. cur[l][h] = NoWork
    BY <2>2, ShapesNow DEF HandOk, Boxing
  <2>4. \A k \in Kinds : \A r : ~ToCome(l, h, k, r)
    BY <2>2 DEF ToCome, Before, Kinds
  <2>5. ASSUME NEW r \in Rows(l, h, "watch"), Included(l, "watch")
        PROVE  WatchFits(r, views[DestUser(h)][r.item], offset[DestUser(h)][r.item])
    <3>1. r.views <= Cap
      BY <2>1, <2>5 DEF Modest, Kinds
    <3>2. WatchFits(r, ViewsTo(l, h, r.item), OffsetTo(l, h, r.item))
      BY <2>4, <2>5, <3>1 DEF EndsInv, WatchInv, WatchOk, Kinds
    <3>3. /\ ViewsTo(l, h, r.item) = views[DestUser(h)][r.item]
          /\ OffsetTo(l, h, r.item) = offset[DestUser(h)][r.item]
      BY <2>3 DEF ViewsTo, OffsetTo, Writing, NoWork
    <3> QED BY <3>2, <3>3
  <2>6. ASSUME NEW r \in Rows(l, h, "ratings"), Included(l, "ratings")
        PROVE  RateFits(r, rating[DestUser(h)][r.item])
    BY <2>4, <2>6 DEF EndsInv, RateInv, RateOk, Kinds
  <2>7. ASSUME NEW k \in Boxing, NEW r \in Rows(l, h, k), Included(l, k), r.members # {}
        PROVE  /\ \E b \in boxes : Holds(b, l, h, k, r.title)
               /\ \A b \in boxes : Holds(b, l, h, k, r.title) => MembersFit(r, b.members)
    <3>1. ~ToCome(l, h, k, r)
      BY <2>4 DEF Boxing, Kinds
    <3>0. Typed(r)
      BY <2>1, <2>7 DEF Modest, Boxing, Kinds, Typed, Rows
    <3>2. Made(l, h, k, r)
      BY <2>3, <2>7, <3>0, <3>1 DEF EndsInv, BoxesInv, BoxesOk, Making, NoWork
    <3>3. PICK b \in boxes : Holds(b, l, h, k, r.title) /\ MembersFit(r, MembersTo(l, h, b))
      BY <3>2 DEF Made
    <3>4. MembersTo(l, h, b) = b.members
      BY <2>3 DEF MembersTo, NoWork
    <3>5. \A c \in boxes : Holds(c, l, h, k, r.title) => c = b
      BY <2>7, <3>0, <3>3 DEF SoleInv, SoleOk
    <3> QED BY <3>3, <3>4, <3>5
  <2>8. ASSUME Replace, Included(l, "collections"), NEW b \in boxes, Leftover(b, l, h)
        PROVE  FALSE
    <3>1. Marked(b, l, h)
      BY <2>8 DEF PurgedInv
    <3> QED BY <2>2, <3>1 DEF Marked
  <2> QED BY <2>5, <2>6, <2>7, <2>8 DEF Granted
<1> QED
  BY <1>2, <1>3 DEF Landed

(* What a user's phase does then: it finds the containers that are there,  *)
(* and has no write at hand.                                               *)
QuietAt(l, h) ==
    /\ cur[l][h].is \notin {"item", "new"}
    /\ cur[l][h].is = "box" => cur[l][h].add = {} /\ cur[l][h].remove = {}
    /\ phase[l][h] = "purge" => todo[l][h] = {}
    /\ phase[l][h] \in Kinds /\ todo[l][h] # {} => Included(l, phase[l][h])
    /\ phase[l][h] \in Boxing => existing[l][h] = {b.id : b \in Existing(l, h, phase[l][h])}
QuietSweep ==
    /\ sweep.left = {}
    /\ sweep.on \in {"list", "delete"} =>
          Replace /\ job.sweeps /\ sweep.users \subseteq {Owner} \cup job.home
Quiet ==
    /\ settled = dest /\ Landed /\ roster \in Fetched(boxes) /\ QuietSweep
    /\ \A l \in Libraries, h \in Handles : QuietAt(l, h)
Again == clean /\ Modest /\ job.strategy # "sum"
QuietInv == Again /\ runs # 1 => Quiet

(* A phase under way is one of a task of the job, for a user it restores.  *)
LEMMA PhaseIsServed ==
    ASSUME RestoreInv, JobLibs, NEW l \in Libraries, NEW h \in Handles, phase[l][h] \notin Still
    PROVE  l \in job.libraries /\ Served(h)
BY DEF RestoreInv, LibInv, LibOk, JobLibs, Still, Served

LEMMA SeenNow ==
    ASSUME RestoreInv, MergeInv, Separate(job), NEW l \in Libraries, NEW h \in Handles,
           NEW k \in {"watch", "ratings"}, phase[l][h] = k, NEW r \in todo[l][h]
    PROVE  /\ r \in Rows(l, h, k) /\ r.item \in Items
           /\ k = "watch" => /\ Seen(l, h, r.item).views = views[DestUser(h)][r.item]
                             /\ Seen(l, h, r.item).offset = offset[DestUser(h)][r.item]
           /\ k = "ratings" => Seen(l, h, r.item).rating = rating[DestUser(h)][r.item]
<1>1. r \in Rows(l, h, k)
  BY DEF RestoreInv, LeftInv, Kinds
<1>2. r.item \in Items /\ (r.item \in ByPath => h = Owner)
  BY <1>1, RowsApart
<1>3. CASE r.item \in ByPath
  <2>1. h = Owner /\ DestUser(h) = Owner
    BY <1>2, <1>3, OwnersOwn
  <2>2. Untouched(l)
    BY <2>1, OwnerAtWork DEF MergeInv, Still
  <2> QED BY <1>1, <1>2, <1>3, <2>1, <2>2 DEF Untouched, Seen
<1>4. CASE r.item \notin ByPath
  BY <1>1, <1>2, <1>4 DEF Seen
<1> QED
  BY <1>3, <1>4

(* A row of the watch history has nothing to write.                        *)
LEMMA QuietRead ==
    ASSUME RestoreAssumption, Complete, RestoreInv, MergeInv, Separate(job), JobLibs, Quiet,
           job.strategy # "sum", ~stop, clean', NEW l \in Libraries, NEW h \in Handles, NEW r,
           ReadRow(l, h, r)
    PROVE  cur'[l][h] = NoWork
<1> DEFINE d == DestUser(h)
           n == views[d][r.item]
           o == offset[d][r.item]
           w == Writes(r, n, o)
<1>1. phase[l][h] = "watch" /\ cur[l][h] = NoWork /\ r \in todo[l][h] /\ r.views \in Nat
  <2>1. phase[l][h] = "watch" /\ cur[l][h] = NoWork /\ r \in todo[l][h]
    BY DEF ReadRow, Took
  <2>2. r \in Rows(l, h, "watch")
    BY <2>1 DEF RestoreInv, LeftInv, Kinds
  <2> QED BY <2>1, <2>2 DEF Rows, Complete, RestoreInv, Shapes
<1>2. /\ r \in Rows(l, h, "watch") /\ r.item \in Items
      /\ Seen(l, h, r.item).views = n /\ Seen(l, h, r.item).offset = o
  BY <1>1, SeenNow
<1>3. Included(l, "watch") /\ Granted(l, h)
  <2>1. l \in job.libraries /\ Served(h)
    BY <1>1, PhaseIsServed DEF Still
  <2>2. QuietAt(l, h)
    BY DEF Quiet
  <2> QED BY <1>1, <2>1, <2>2 DEF Quiet, Landed, QuietAt, Kinds
<1>4. WatchFits(r, n, o)
  BY <1>2, <1>3 DEF Granted
<1>5. n \in Nat /\ Cap \in Nat
  <2>1. d \in Users
    BY RestoreAssumption DEF RestoreAssumption, RestoreInv, Shapes, DestUser, Handles
  <2> QED BY <1>2, <2>1, ShapesNow, RestoreAssumption DEF RestoreAssumption
<1>6. UNCHANGED cur \/ cur' = Set(cur, l, h, Left(w))
  BY <1>2 DEF ReadRow, Do
<1> HIDE DEF n, o, d
<1>7. ~w.reset /\ w.add = 0 /\ ~w.place
  <2> DEFINE reset == Replace /\ n > r.views
             base == IF reset THEN 0 ELSE n
             add == IF Replace THEN r.views - base ELSE MergeViewsToAdd(r.views, n)
  <2>1. add = 0 /\ ~reset /\ (Replace => r.offset = o)
    BY <1>1, <1>4, <1>5 DEF WatchFits, MergeViewsToAdd
  <2>2. /\ (w.reset => reset) /\ w.add = Smaller(add, Cap)
        /\ w.place => IF Replace THEN r.offset # o ELSE add > 0
    BY DEF Writes
  <2>3. Smaller(0, Cap) = 0
    BY <1>5 DEF Smaller
  <2> HIDE DEF add, reset, w
  <2> QED BY <2>1, <2>2, <2>3
<1> HIDE DEF w
<1>8. Left(w) = NoWork
  BY <1>7 DEF Left
<1> QED
  BY <1>1, <1>6, <1>8, CurSet

LEMMA QuietRate ==
    ASSUME RestoreAssumption, Complete, RestoreInv, MergeInv, Separate(job), JobLibs, Quiet,
           clean', NEW l \in Libraries, NEW h \in Handles, NEW r, RateRow(l, h, r)
    PROVE  UNCHANGED <<rating, cur>>
<1> DEFINE d == DestUser(h)
           seen == Seen(l, h, r.item).rating
           skip == r.value = Unrated \/ (IF Replace THEN seen = r.value ELSE seen # Unrated)
<1>1. phase[l][h] = "ratings" /\ r \in todo[l][h] /\ UNCHANGED cur
  BY DEF RateRow, Took
<1>2. /\ r \in Rows(l, h, "ratings") /\ r.item \in Items
      /\ Seen(l, h, r.item).rating = rating[d][r.item]
  BY <1>1, SeenNow
<1>3. Included(l, "ratings") /\ Granted(l, h)
  <2>1. l \in job.libraries /\ Served(h)
    BY <1>1, PhaseIsServed DEF Still
  <2>2. QuietAt(l, h)
    BY DEF Quiet
  <2> QED BY <1>1, <2>1, <2>2 DEF Quiet, Landed, QuietAt, Kinds
<1>4. skip \/ rating[d][r.item] = r.value
  BY <1>2, <1>3 DEF Granted, RateFits
<1>5. UNCHANGED rating \/ (~skip /\ rating' = [rating EXCEPT ![d][r.item] = r.value])
  BY DEF RateRow
<1>6. rating[d][r.item] = r.value => [rating EXCEPT ![d][r.item] = r.value] = rating
  BY ShapesNow DEF OfUsers
<1> QED
  BY <1>1, <1>4, <1>5, <1>6

(* A container is there, and is found to be as the row asks.               *)
LEMMA QuietTake ==
    ASSUME RestoreAssumption, Complete, RestoreInv, Separate(job), JobLibs, HandsInv, SoleInv,
           Quiet, Modest, clean, clean', NEW l \in Libraries, NEW h \in Handles, NEW r,
           TakeBox(l, h, r)
    PROVE  /\ cur'[l][h].is \notin {"item", "new"}
           /\ cur'[l][h].is = "box" => cur'[l][h].add = {} /\ cur'[l][h].remove = {}
<1> DEFINE k == phase[l][h]
           hit == r.members \cap found[l][h]
           same == {b \in boxes : b.id \in existing[l][h] /\ b.title = r.title}
<1>1. k \in Boxing /\ cur[l][h] = NoWork /\ r \in todo[l][h]
  BY DEF TakeBox, Took, Boxing
<1>2. r \in Rows(l, h, k)
  BY <1>1 DEF RestoreInv, LeftInv, Boxing, Kinds
<1>3. QuietAt(l, h) /\ Granted(l, h)
  <2>1. l \in job.libraries /\ Served(h)
    BY <1>1, PhaseIsServed DEF Still, Boxing
  <2> QED BY <2>1 DEF Quiet, Landed
<1>4. Included(l, k) /\ existing[l][h] = {b.id : b \in Existing(l, h, k)}
  BY <1>1, <1>3 DEF QuietAt, Boxing, Kinds
<1>5. hit = r.members
  <2>1. ResolvedOk(l, h)
    BY DEF HandsInv
  <2>2. cur[l][h].is # "resolving"
    BY <1>1 DEF NoWork
  <2> QED BY <1>1, <2>1, <2>2 DEF ResolvedOk
<1>13. Typed(r) /\ SoleOk(l, h, k, r)
  <2>1. l \in job.libraries /\ Served(h)
    BY <1>1, PhaseIsServed DEF Still, Boxing
  <2>2. k = "playlists" => r \in Rowed("playlists")
    BY <1>2, <1>4, <2>1 DEF Rows, Rowed, Covered, Served
  <2>3. k # "playlists" => r.kind # "playlists"
    BY <1>2 DEF Rows
  <2>4. Typed(r)
    BY <2>2, <2>3 DEF Modest, Typed
  <2> QED BY <1>1, <1>2, <2>4 DEF SoleInv
<1>6. ASSUME NEW b \in boxes, Holds(b, l, h, k, r.title)
      PROVE  b \in same
  <2>1. k = "playlists" /\ h = Owner => b.id \in roster
    <3>1. SUFFICES ASSUME k = "playlists", h = Owner
                   PROVE  b.id \in roster
      OBVIOUS
    <3>2. b \in OwnLists(boxes) /\ b.title = r.title
      BY <1>6, <3>1, OwnersOwn DEF Holds, OwnLists
    <3>3. ASSUME NEW c \in OwnLists(boxes), c.title = b.title
          PROVE  c = b
      <4>1. c \in boxes /\ Titled(c, l, h, k, r.title)
        BY <3>1, <3>2, <3>3, OwnersOwn DEF Titled, OwnLists
      <4> QED BY <1>6, <1>13, <3>1, <4>1 DEF SoleOk
    <3> QED BY <3>2, <3>3, FetchedOwn DEF Quiet
  <2>2. b \in Existing(l, h, k)
    BY <1>6, <2>1 DEF Existing, Holds
  <2> QED BY <1>4, <1>6, <2>2 DEF Holds
<1>7. ASSUME NEW b \in same
      PROVE  Holds(b, l, h, k, r.title)
  <2>1. PICK x \in Existing(l, h, k) : x.id = b.id
    BY <1>4
  <2>2. x = b
    BY <2>1 DEF Existing, RestoreInv, BoxInv
  <2> QED BY <2>1, <2>2 DEF Existing, Holds
<1>8. r.members # {} =>
        /\ same # {}
        /\ \A b \in same : /\ r.members \ b.members = {}
                           /\ Replace => b.members \ r.members = {}
  <2>1. SUFFICES ASSUME r.members # {}
                 PROVE  /\ same # {}
                        /\ \A b \in same : /\ r.members \ b.members = {}
                                           /\ Replace => b.members \ r.members = {}
    OBVIOUS
  <2>2. /\ \E b \in boxes : Holds(b, l, h, k, r.title)
        /\ \A b \in boxes : Holds(b, l, h, k, r.title) => MembersFit(r, b.members)
    BY <1>1, <1>2, <1>3, <1>4, <2>1 DEF Granted
  <2>3. same # {}
    BY <1>6, <2>2
  <2>4. \A b \in same : MembersFit(r, b.members)
    BY <1>7, <2>2
  <2> QED BY <2>3, <2>4 DEF MembersFit
<1>9. \/ UNCHANGED cur
      \/ r.members # {} /\ same = {}
      \/ r.members # {} /\ \E b \in same :
            cur' = Set(cur, l, h, [is |-> "box", id |-> b.id, add |-> r.members \ b.members,
                                   remove |-> IF Replace THEN b.members \ r.members ELSE {}])
  <2>1. \/ UNCHANGED cur
        \/ hit # {} /\ same = {}
        \/ hit # {} /\ \E b \in same :
              cur' = Set(cur, l, h, [is |-> "box", id |-> b.id, add |-> hit \ b.members,
                                     remove |-> IF Replace THEN b.members \ hit ELSE {}])
    BY Zenon DEF TakeBox, Do
  <2> HIDE DEF hit, same
  <2> QED BY <1>5, <2>1
<1> HIDE DEF same
<1>10. \/ UNCHANGED cur
       \/ \E n : cur' = Set(cur, l, h, [is |-> "box", id |-> n, add |-> {}, remove |-> {}])
  <2>1. ASSUME NEW b \in same, r.members # {}
        PROVE  /\ r.members \ b.members = {}
               /\ (IF Replace THEN b.members \ r.members ELSE {}) = {}
    BY <1>8, <2>1
  <2> QED BY <1>8, <1>9, <2>1
<1>11. CASE UNCHANGED cur
  BY <1>1, <1>11 DEF NoWork
<1>12. ASSUME NEW n, cur' = Set(cur, l, h, [is |-> "box", id |-> n, add |-> {}, remove |-> {}])
       PROVE  /\ cur'[l][h].is \notin {"item", "new"}
              /\ cur'[l][h].is = "box" => cur'[l][h].add = {} /\ cur'[l][h].remove = {}
  <2>1. cur'[l][h] = [is |-> "box", id |-> n, add |-> {}, remove |-> {}]
    BY <1>12, CurSet
  <2> QED BY <2>1
<1> QED
  BY <1>10, <1>11, <1>12

(* A purge finds nothing, nor does the sweep.                              *)
LEMMA QuietPurge ==
    ASSUME RestoreInv, Separate(job), JobLibs, Quiet, NEW l \in Libraries, NEW h \in Handles,
           phase[l][h] = "collections", Replace, Included(l, "collections")
    PROVE  DestOnly(l, h) = {}
<1>1. QuietAt(l, h) /\ Granted(l, h)
  <2>1. l \in job.libraries /\ Served(h)
    BY PhaseIsServed DEF Still
  <2> QED BY <2>1 DEF Quiet, Landed
<1>2. existing[l][h] = {b.id : b \in Existing(l, h, "collections")}
  BY <1>1 DEF QuietAt, Boxing
<1>3. ASSUME NEW b \in boxes, b.id \in existing[l][h],
             \A y \in Rows(l, h, "collections") : y.title # b.title
      PROVE  FALSE
  <2>1. PICK x \in Existing(l, h, "collections") : x.id = b.id
    BY <1>2, <1>3
  <2>2. x = b
    BY <2>1 DEF Existing, RestoreInv, BoxInv
  <2>3. Leftover(b, l, h)
    BY <1>3, <2>1, <2>2 DEF Existing, Leftover, Shelf
  <2> QED BY <1>1, <2>3 DEF Granted
<1> QED
  BY <1>3 DEF DestOnly

LEMMA QuietAdd ==
    ASSUME RestoreInv, NEW l \in Libraries, NEW h \in Handles, QuietAt(l, h), AddMembers(l, h)
    PROVE  UNCHANGED boxes
<1>1. cur[l][h].add = {} /\ boxes' = Changed(cur[l][h].id, Box(cur[l][h].id).members)
  <2>1. cur[l][h].is = "box" /\ cur[l][h].add = {}
    BY DEF AddMembers, QuietAt
  <2>2. PICK some \in SUBSET cur[l][h].add :
            boxes' = Changed(cur[l][h].id, Box(cur[l][h].id).members \cup some)
    BY DEF AddMembers
  <2>3. some = {}
    BY <2>1, <2>2
  <2>4. Box(cur[l][h].id).members \cup {} = Box(cur[l][h].id).members
    OBVIOUS
  <2> QED BY <2>1, <2>2, <2>3, <2>4
<1> DEFINE n == cur[l][h].id
<1>2. ASSUME NEW b \in boxes
      PROVE  (IF b.id = n THEN [b EXCEPT !.members = Box(n).members] ELSE b) = b
  <2>1. CASE b.id = n
    <3>1. Box(n) \in boxes /\ Box(n).id = n
      BY <2>1 DEF Box
    <3>2. Box(n) = b
      BY <2>1, <3>1 DEF RestoreInv, BoxInv
    <3>3. [b EXCEPT !.members = b.members] = b
      BY DEF RestoreInv, BoxInv, Boxed
    <3> QED BY <2>1, <3>2, <3>3
  <2>2. CASE b.id # n
    BY <2>2
  <2> QED BY <2>1, <2>2
<1> HIDE DEF n
<1>3. Changed(n, Box(n).members) = boxes
  BY <1>2 DEF Changed
<1> QED
  BY <1>1, <1>3 DEF n

(* What is known while the job runs again.                                 *)
Calm ==
    /\ RestoreAssumption /\ Complete /\ RestoreInv /\ MergeInv /\ Separate(job) /\ JobLibs
    /\ TasksInv /\ HandsInv /\ SoleInv /\ Quiet /\ Modest /\ clean /\ job.strategy # "sum"

LEMMA QuietCall ==
    ASSUME RestoreInv, NEW l \in Libraries, NEW h \in Handles, QuietAt(l, h), MakesCall(l, h)
    PROVE  UNCHANGED dest /\ cur'[l][h] = NoWork
<1>1. ~WriteRow(l, h) /\ ~CreateBox(l, h)
  BY DEF QuietAt, WriteRow, CreateBox
<1>2. ~RemoveMember(l, h)
  <2>1. SUFFICES ASSUME RemoveMember(l, h)
                 PROVE  FALSE
    OBVIOUS
  <2>2. cur[l][h].is = "box" /\ \E i : i \in cur[l][h].remove
    BY <2>1 DEF RemoveMember
  <2> QED BY <2>2 DEF QuietAt
<1>3. CASE Resolve(l, h)
  <2>1. UNCHANGED dest /\ cur' = Set(cur, l, h, NoWork)
    BY <1>3 DEF Resolve, Do
  <2> QED BY <2>1, CurSet
<1>4. CASE AddMembers(l, h)
  <2>1. UNCHANGED <<views, offset, rating>> /\ cur' = Set(cur, l, h, NoWork)
    BY <1>4 DEF AddMembers, Do
  <2> QED BY <1>4, <2>1, CurSet, QuietAdd DEF dest
<1> QED
  BY <1>1, <1>2, <1>3, <1>4 DEF MakesCall

LEMMA QuietRow ==
    ASSUME Calm, clean', NEW l \in Libraries, NEW h \in Handles, NEW r, TakesRow(l, h, r)
    PROVE  /\ UNCHANGED dest /\ cur'[l][h].is \notin {"item", "new"}
           /\ cur'[l][h].is = "box" => cur'[l][h].add = {} /\ cur'[l][h].remove = {}
<1> USE DEF Calm
<1>1. cur[l][h] = NoWork /\ r \in todo[l][h] /\ ~stop /\ QuietAt(l, h)
  BY TakesRowAt DEF TasksInv, Quiet
<1>2. ~PurgeBox(l, h, r)
  BY <1>1 DEF PurgeBox, QuietAt
<1>3. CASE ReadRow(l, h, r)
  <2>1. cur'[l][h] = NoWork
    BY <1>1, <1>3, QuietRead
  <2> QED BY <1>3, <2>1 DEF ReadRow, NoWork
<1>4. CASE RateRow(l, h, r)
  <2>1. UNCHANGED <<rating, cur>>
    BY <1>4, QuietRate
  <2>2. UNCHANGED <<views, offset, boxes>>
    BY <1>4 DEF RateRow
  <2> QED BY <1>1, <2>1, <2>2 DEF dest, NoWork
<1>5. CASE TakeBox(l, h, r)
  <2>1. UNCHANGED dest
    BY <1>5 DEF TakeBox
  <2> QED BY <1>5, <2>1, QuietTake
<1> QED
  BY <1>2, <1>3, <1>4, <1>5 DEF TakesRow

LEMMA QuietDest ==
    ASSUME Calm, clean', [Next]_vars, ~Rerun
    PROVE  UNCHANGED dest
<1> USE DEF Calm
<1>1. ~stop
  BY DEF TasksInv
<1>2. ASSUME NEW l \in Libraries, NEW h \in Handles, NEW k \in Phases, Begins(l, h, k)
      PROVE  UNCHANGED dest
  BY <1>2, BeginsPhase
<1>3. ASSUME NEW l \in Libraries, NEW h \in Handles, NEW r, TakesRow(l, h, r)
      PROVE  UNCHANGED dest
  BY <1>3, QuietRow
<1>4. ASSUME NEW l \in Libraries, NEW h \in Handles, MakesCall(l, h)
      PROVE  UNCHANGED dest
  BY <1>4, QuietCall DEF Quiet
<1>5. CASE Asides
  <2>1. sweep.left = {}
    BY DEF Quiet, QuietSweep
  <2> QED BY <1>5, <2>1, AsidesLeave DEF dest
<1> QED
  BY <1>1, <1>2, <1>3, <1>4, <1>5, StepKinds

LEMMA QuietPhase ==
    ASSUME Calm, clean', [Next]_vars, ~Rerun, UNCHANGED <<dest, roster, job>>,
           NEW l \in Libraries, NEW h \in Handles
    PROVE  QuietAt(l, h)'
<1> USE DEF Calm
<1>1. ~stop /\ QuietAt(l, h)
  BY DEF TasksInv, Quiet
<1>2. \A k : Existing(l, h, k)' = Existing(l, h, k') /\ Included(l, k)' = Included(l, k')
  BY SameJob DEF Existing, Included, dest
<1>3. CASE Apace(l, h)
  BY <1>1, <1>2, <1>3 DEF Apace, QuietAt
<1>4. ASSUME NEW k \in Phases, Begins(l, h, k)
      PROVE  QuietAt(l, h)'
  <2>1. phase'[l][h] = k
    BY <1>4, BeginsPhase
  <2>3. cur'[l][h].is \in {"nothing", "resolving"}
    BY <1>4, BeginsHand
  <2>4. k \in Kinds => todo'[l][h] = {} \/ Included(l, k)
    BY <1>4, BeginsAt
  <2>5. k \in Boxing => existing'[l][h] = {b.id : b \in Existing(l, h, k)}
    BY <1>4, BeginsAt
  <2>6. k = "purge" => todo'[l][h] = {}
    <3>1. SUFFICES ASSUME k = "purge"
                   PROVE  todo'[l][h] = {}
      OBVIOUS
    <3>2. Begins(l, h, "purge")
      BY <1>4, <3>1
    <3>3. todo'[l][h] = IF Replace /\ Included(l, "collections") THEN DestOnly(l, h) ELSE {}
      BY <3>2, BeginsAt
    <3>4. phase[l][h] = "collections"
      BY <3>2 DEF Begins, After, Still, RestoreInv, Shapes, Phases, Kinds
    <3> QED BY <3>3, <3>4, QuietPurge
  <2>7. k' = k
    OBVIOUS
  <2> QED BY <1>2, <2>1, <2>3, <2>4, <2>5, <2>6, <2>7 DEF QuietAt
<1>5. ASSUME NEW r, TakesRow(l, h, r)
      PROVE  QuietAt(l, h)'
  <2>1. UNCHANGED <<phase, existing>> /\ todo'[l][h] = todo[l][h] \ {r} /\ r \in todo[l][h]
    BY <1>5, TakesRowAt
  <2>2. /\ cur'[l][h].is \notin {"item", "new"}
        /\ cur'[l][h].is = "box" => cur'[l][h].add = {} /\ cur'[l][h].remove = {}
    BY <1>5, QuietRow
  <2> QED BY <1>1, <1>2, <2>1, <2>2 DEF QuietAt
<1>6. ASSUME MakesCall(l, h)
      PROVE  QuietAt(l, h)'
  <2>1. UNCHANGED <<phase, existing, todo>> /\ cur'[l][h] = NoWork
    BY <1>1, <1>6, MakesCallAt, QuietCall
  <2>2. cur'[l][h].is = "nothing"
    BY <2>1 DEF NoWork
  <2> QED BY <1>1, <1>2, <2>1, <2>2 DEF QuietAt
<1> QED
  BY <1>1, <1>3, <1>4, <1>5, <1>6, StepAt

LEMMA SweepLeaves ==
    ASSUME [Next]_vars, ~Rerun, ~SweepSteps
    PROVE  UNCHANGED sweep
<1>1. ASSUME NEW l \in Libraries, StartTask(l) \/ CancelTask(l) \/ EndTask(l)
      PROVE  UNCHANGED sweep
  BY <1>1 DEF StartTask, CancelTask, EndTask
<1>2. ASSUME NEW l \in Libraries, NEW h \in Handles,
             \/ EndPhase(l, h) \/ StartUser(l, h) \/ LoseListing(l, h)
             \/ WriteRow(l, h) \/ Resolve(l, h)
             \/ CreateBox(l, h) \/ RemoveMember(l, h) \/ AddMembers(l, h)
      PROVE  UNCHANGED sweep
  BY <1>2, Zenon DEF EndPhase, StartUser, LoseListing, WriteRow, Resolve, CreateBox,
                     RemoveMember, AddMembers, rest
<1>3. ASSUME NEW l \in Libraries, NEW h \in Handles, NEW r,
             ReadRow(l, h, r) \/ RateRow(l, h, r) \/ TakeBox(l, h, r) \/ PurgeBox(l, h, r)
      PROVE  UNCHANGED sweep
  BY <1>3 DEF ReadRow, RateRow, TakeBox, PurgeBox, rest
<1>4. Stop \/ UNCHANGED vars => UNCHANGED sweep
  BY DEF Stop, vars
<1> QED
  BY <1>1, <1>2, <1>3, <1>4 DEF Next, SweepSteps

LEMMA SweepStaysQuiet ==
    ASSUME RestoreInv, Landed, QuietSweep, clean', [Next]_vars, ~Rerun, job' = job
    PROVE  QuietSweep'
<1>1. ~Fail /\ sweep = [on |-> sweep.on, users |-> sweep.users, left |-> sweep.left]
      /\ Replace' = Replace
  BY SameJob DEF Fail, RestoreInv, SweepInv
<1>2. CASE StartSweep
  <2>1. CASE Replace /\ job.sweeps
    <3>1. sweep' = [on |-> "list", users |-> {Owner} \cup job.home, left |-> {}]
      BY <1>2, <2>1 DEF StartSweep
    <3> QED BY <1>1, <2>1, <3>1 DEF QuietSweep
  <2>2. CASE ~(Replace /\ job.sweeps)
    <3>1. sweep' = [on |-> "after", users |-> {}, left |-> {}]
      BY <1>2, <2>2 DEF StartSweep, NoSweep
    <3> QED BY <3>1 DEF QuietSweep
  <2> QED BY <2>1, <2>2
<1>3. ASSUME NEW u \in Users, SweepUser(u)
      PROVE  QuietSweep'
  <2> DEFINE listed == {b.id : b \in {x \in {b \in boxes : b.kind = "playlists" /\ b.owner = u} :
                                        InScope(x) /\ x.title \notin SourceTitles(u)}}
  <2>1. /\ sweep' = [on |-> "delete", users |-> sweep.users \ {u}, left |-> listed]
        /\ sweep.on = "list" /\ u \in sweep.users
    BY <1>1, <1>3 DEF SweepUser
  <2>2. Replace /\ job.sweeps /\ sweep.users \subseteq {Owner} \cup job.home
    BY <2>1 DEF QuietSweep
  <2>3. ASSUME NEW b \in boxes, b.kind = "playlists", b.owner = u, InScope(b)
        PROVE  b.title \in SourceTitles(u)
    BY <2>1, <2>2, <2>3 DEF Landed, SweptClean
  <2>4. listed = {}
    BY <2>3
  <2> HIDE DEF listed
  <2>5. sweep'.on = "delete" /\ sweep'.users = sweep.users \ {u} /\ sweep'.left = {}
    BY <2>1, <2>4
  <2> QED BY <1>1, <2>2, <2>5 DEF QuietSweep
<1>4. ASSUME NEW id \in sweep.left
      PROVE  FALSE
  BY <1>4 DEF QuietSweep
<1>5. CASE SweptUser
  <2>1. \/ sweep' = [sweep EXCEPT !.on = "list"] /\ sweep.on = "delete"
        \/ sweep' = [sweep EXCEPT !.on = "after"]
    BY <1>5 DEF SweptUser
  <2>2. PICK o, s, x : sweep = [on |-> o, users |-> s, left |-> x]
    BY <1>1
  <2>3. /\ sweep'.users = sweep.users /\ sweep'.left = sweep.left
        /\ (sweep'.on = "list" /\ sweep.on = "delete") \/ sweep'.on = "after"
    BY <2>1, <2>2
  <2> QED BY <1>1, <2>3 DEF QuietSweep
<1>6. CASE UNCHANGED sweep
  BY <1>1, <1>6 DEF QuietSweep
<1> QED
  BY <1>2, <1>3, <1>4, <1>5, <1>6, SweepLeaves DEF SweepSteps

LEMMA SameLanded == ASSUME UNCHANGED <<dest, job>> PROVE Landed' = Landed
<1>1. UNCHANGED <<views, offset, rating, boxes>>
  BY DEF dest
<1>2. \A l, h : Granted(l, h)' = Granted(l, h)
  <2>1. \A b, l, h : Leftover(b, l, h)' = Leftover(b', l, h)
    BY SameJob DEF Leftover
  <2>2. \A r, S : MembersFit(r, S)' = MembersFit(r, S')
    BY SameJob DEF MembersFit
  <2>3. \A r, n : RateFits(r, n)' = RateFits(r, n')
    BY SameJob DEF RateFits
  <2> QED BY <1>1, <2>1, <2>2, <2>3, SameJob, SameFits, SameHolds DEF Granted
<1>3. \A h : Served(h)' = Served(h)
  BY SameJob DEF Served
<1>4. SweptClean' = SweptClean
  BY <1>1, SameJob, SameTitles DEF SweptClean, InScope
<1> QED
  BY <1>2, <1>3, <1>4 DEF Landed

LEMMA SameModest == ASSUME job' = job PROVE Modest' = Modest
BY SameJob, SameFits, SameTyped DEF Modest, Rowed, Covered

LEMMA QuietStep ==
    ASSUME RestoreAssumption, Apart, Complete, RestoreInv, MergeInv, JobLibs, EndsInv, SoleInv,
           PurgedInv, QuietInv, [Next]_vars
    PROVE  QuietInv'
<1>1. job \in Jobs /\ Separate(job) /\ job' = job
  BY JobStays DEF RestoreInv, Shapes, Apart
<1>2. SUFFICES ASSUME Again', runs' # 1
               PROVE  Quiet'
  BY DEF QuietInv
<1>3. Again /\ clean /\ clean'
  BY <1>1, <1>2, CleanBefore, SameModest DEF Again
<1>4. CASE Rerun
  <2>1. /\ sweep.on = "after" /\ settled' = dest /\ roster' \in Fetched(boxes) /\ sweep' = NoSweep
        /\ UNCHANGED <<dest, cur>>
        /\ phase' = [l \in Libraries |-> [h \in Handles |-> "off"]]
    BY <1>4 DEF Rerun
  <2>2. Landed'
    BY <1>1, <1>3, <2>1, AllLanded, SameLanded DEF Again
  <2>3. settled' = dest' /\ roster' \in Fetched(boxes)'
    BY <2>1 DEF Fetched, OwnLists, dest
  <2>4. QuietSweep'
    BY <2>1 DEF QuietSweep, NoSweep
  <2>5. ASSUME NEW l \in Libraries, NEW h \in Handles
        PROVE  QuietAt(l, h)'
    <3>1. phase[l][h] \in Still
      BY <2>1 DEF RestoreInv, SweepInv, Ended, LibInv, LibOk
    <3>2. cur[l][h] = NoWork
      BY <3>1, ShapesNow DEF HandOk, Boxing, Still
    <3>3. phase'[l][h] = "off" /\ cur'[l][h].is = "nothing"
      BY <2>1, <3>2 DEF NoWork
    <3> QED BY <3>3 DEF QuietAt, Boxing, Kinds
  <2> QED BY <2>2, <2>3, <2>4, <2>5 DEF Quiet
<1>5. CASE ~Rerun
  <2>1. UNCHANGED <<roster, runs, settled>>
    BY <1>5, OnceMore
  <2>2. Quiet
    BY <1>2, <1>3, <2>1 DEF QuietInv
  <2>3. Calm
    BY <1>1, <1>3, <2>2 DEF Calm, EndsInv, Again
  <2>4. UNCHANGED dest
    BY <1>3, <1>5, <2>3, QuietDest
  <2>5. \A l \in Libraries, h \in Handles : QuietAt(l, h)'
    BY <1>1, <1>3, <1>5, <2>1, <2>3, <2>4, QuietPhase
  <2>6. Landed'
    BY <1>1, <2>2, <2>4, SameLanded DEF Quiet
  <2>7. QuietSweep'
    BY <1>1, <1>3, <1>5, <2>2, SweepStaysQuiet DEF Quiet
  <2>8. settled' = dest' /\ roster' \in Fetched(boxes)'
    BY <2>1, <2>2, <2>4 DEF Quiet, Fetched, OwnLists, dest
  <2> QED BY <2>5, <2>6, <2>7, <2>8 DEF Quiet
<1> QED
  BY <1>4, <1>5

(* The same job, run again after a run that nothing disturbed, writes      *)
(* nothing to the destination, unless views are to be summed: in Merge and *)
(* in Replace, with its purge and its sweep (_compute_merge_views_to_add,  *)
(* restore_playlists, restore_collections, purge_dest_only_playlists).     *)
THEOREM RerunsChangeNothing ==
    ASSUME Apart, Named, Complete, Sole PROVE Spec => []RerunChangesNothing
<1>1. Init => MergeInv /\ SpareInv /\ EndsInv
  <2>1. Init => MergeInv
    BY RestoreAssumption, MergeBegins
  <2>2. Init => SpareInv
    BY DEF Init, SpareInv, NoSweep
  <2>3. Init => EndsInv
    BY RestoreAssumption, EndsBegin
  <2> QED BY <2>1, <2>2, <2>3
<1>2. Init => SoleInv /\ PurgedInv /\ QuietInv
  <2>1. Init => runs = 1
    BY DEF Init
  <2> QED BY <2>1, RestoreAssumption, SoleBegins DEF QuietInv
<1>3. RestoreInv /\ MergeInv /\ [Next]_vars => MergeInv'
  BY MergeFits
<1>4. RestoreInv /\ JobLibs /\ SpareInv /\ [Next]_vars => SpareInv'
  BY SparesStep
<1>5. RestoreInv /\ MergeInv /\ SpareInv /\ EndsInv /\ [Next]_vars => EndsInv'
  BY RestoreAssumption, EndsStep
<1>6. RestoreInv /\ EndsInv /\ SoleInv /\ PurgedInv /\ [Next]_vars => SoleInv' /\ PurgedInv'
  BY RestoreAssumption, SoleStep, PurgedStep DEF EndsInv
<1>7. RestoreInv /\ MergeInv /\ JobLibs /\ EndsInv /\ SoleInv /\ PurgedInv /\ QuietInv /\ [Next]_vars
      => QuietInv'
  BY RestoreAssumption, QuietStep
<1>8. QuietInv => RerunChangesNothing
  BY DEF QuietInv, Again, Modest, Quiet, RerunChangesNothing
<1> QED
  BY <1>1, <1>2, <1>3, <1>4, <1>5, <1>6, <1>7, <1>8, RestoreIsSafe, TasksAreTheJobs,
     PTL DEF Spec

-----------------------------------------------------------------------------
(* The transfer by adapters                                                *)

AllRows ==
    (UNION {LibraryRows(u, n) : u \in Accounts, n \in 1..Len(Libs)})
    \cup (UNION {ListRows(Listed(u)) : u \in Accounts}) \cup CollectionRows(Collections)
Block == UNION {[D -> SUBSET AllRows] : D \in SUBSET (Accounts \cup {Top})}

(* What the capture of a job in memory has read, library by library.       *)
CaptureTyped ==
    /\ DOMAIN lists \subseteq SrcUsers \cup {Top, SrcOwner} /\ {Top, SrcOwner} \subseteq DOMAIN lists
    /\ lists \in [DOMAIN lists -> SUBSET AllRows]
    /\ left \subseteq SrcUsers \cap DOMAIN lists /\ at \in Nat \ {0} /\ payload \in Seq(Block)

(* How far it has come, and that the owner's rows of the library at hand   *)
(* are at its top.                                                         *)
CaptureAt ==
    /\ pc = "lists" => at = 1 /\ payload = <<>>
    /\ pc = "owner" => Len(payload) = at - 1 /\ at <= Len(Libs) + 1
    /\ pc = "users" =>
          /\ Len(payload) = at /\ at <= Len(Libs) /\ Top \in DOMAIN payload[at]
          /\ ~halted /\ SrcOwner \in replay.filter =>
                LibraryRows(SrcOwner, at) \subseteq payload[at][Top]
    /\ pc \in {"check"} \cup Replaying /\ ~halted => Len(payload) = Len(Libs)

CaptureInv ==
    Direct => CaptureTyped /\ CaptureAt /\ (~halted /\ pc # "failed" => Whole)

LEMMA ReadingRows ==
    ASSUME NEW u \in Accounts, NEW n \in 1..Len(Libs), NEW r \in Readings(u, n)
    PROVE  /\ r.rows \in SUBSET AllRows
           /\ r.how = "whole" => r.rows = LibraryRows(u, n)
           /\ r.how \in {"whole", "raised", "stopped"}
<1>1. LibraryRows(u, n) \subseteq AllRows
  BY DEF AllRows
<1> QED
  BY <1>1 DEF Readings

LEMMA ReplayInitHolds == ReplayInit => CaptureInv
<1> SUFFICES ASSUME ReplayInit, Direct PROVE CaptureInv
  BY DEF CaptureInv
<1>1. pc = "lists" /\ payload = <<>> /\ at = 1 /\ left = {} /\ lists = [u \in {Top, SrcOwner} |-> {}]
  BY DEF ReplayInit
<1>2. CaptureTyped
  BY <1>1 DEF CaptureTyped
<1>3. CaptureAt
  BY <1>1, AdapterAssumption DEF CaptureAt, Replaying
<1>4. Whole
  BY <1>1 DEF Whole
<1> QED
  BY <1>2, <1>3, <1>4 DEF CaptureInv

LEMMA BlockPut ==
    ASSUME payload \in Seq(Block), at \in 1..Len(payload),
           NEW D \in SUBSET (Accounts \cup {Top}), NEW R \in SUBSET AllRows,
           payload' = [payload EXCEPT ![at] = WithRows(D, R, @)]
    PROVE  /\ payload' \in Seq(Block) /\ Len(payload') = Len(payload)
           /\ DOMAIN payload'[at] = D \cup DOMAIN payload[at]
           /\ \A x \in D : payload'[at][x] = R
           /\ \A x \in DOMAIN payload[at] \ D : payload'[at][x] = payload[at][x]
           /\ \A n \in 1..Len(payload) \ {at} : payload'[n] = payload[n]
<1> DEFINE g == WithRows(D, R, payload[at])
<1>1. payload[at] \in Block
  OBVIOUS
<1>2. PICK E \in SUBSET (Accounts \cup {Top}) : payload[at] \in [E -> SUBSET AllRows]
  BY <1>1 DEF Block
<1>3. g = [x \in D \cup E |-> IF x \in D THEN R ELSE payload[at][x]]
  BY <1>2 DEF WithRows
<1>4. g \in [D \cup E -> SUBSET AllRows]
  BY <1>2, <1>3
<1>5. g \in Block
  <2>1. D \cup E \in SUBSET (Accounts \cup {Top})
    OBVIOUS
  <2> QED BY <1>4, <2>1 DEF Block
<1> HIDE DEF g
<1>6. payload' = [payload EXCEPT ![at] = g]
  BY DEF g
<1>7. payload' \in Seq(Block) /\ Len(payload') = Len(payload)
  BY <1>5, <1>6
<1>8. payload'[at] = g /\ \A n \in 1..Len(payload) \ {at} : payload'[n] = payload[n]
  BY <1>6
<1> QED
  BY <1>2, <1>3, <1>7, <1>8

LEMMA SameReplay ==
    ASSUME replay' = replay
    PROVE  /\ AllRows' = AllRows /\ Block' = Block /\ Direct' = Direct /\ Captured' = Captured
           /\ \A u, n : LibraryRows(u, n)' = LibraryRows(u, n)
<1>1. \A u, n : LibraryRows(u, n)' = LibraryRows(u, n)
  BY DEF LibraryRows, OfKinds, WatchRows, RatingRows, InLib, Flag, Direct
<1>2. \A u : Listed(u)' = Listed(u)
  BY DEF Listed
<1>3. AllRows' = AllRows
  <2>1. (UNION {LibraryRows(u, n) : u \in Accounts, n \in 1..Len(Libs)})'
           = UNION {LibraryRows(u, n) : u \in Accounts, n \in 1..Len(Libs)}
    BY <1>1
  <2>2. {ListRows(Listed(u)) : u \in Accounts}' = {ListRows(Listed(u)) : u \in Accounts}
    BY <1>2 DEF ListRows
  <2>3. CollectionRows(Collections)' = CollectionRows(Collections)
    BY DEF CollectionRows, Direct
  <2> QED BY <2>1, <2>2, <2>3 DEF AllRows
<1> QED
  BY <1>1, <1>3 DEF Block, Direct, Captured, Managed

(* In each step lemma the job is one in memory, for others nothing is said.*)
Steady == CaptureInv /\ Direct /\ replay' = replay

LEMMA Kept1 ==
    ASSUME Steady
    PROVE  /\ Direct' /\ CaptureTyped /\ CaptureAt /\ (~halted /\ pc # "failed" => Whole)
           /\ CaptureTyped' /\ CaptureAt' /\ (~halted' /\ pc' # "failed" => Whole') => CaptureInv'
BY SameReplay DEF Steady, CaptureInv

LEMMA ReadListsKeeps == Steady /\ ReadLists => CaptureInv'
<1> SUFFICES ASSUME Steady, ReadLists PROVE CaptureInv'
  OBVIOUS
<1> USE Kept1, SameReplay
<1>1. replay' = replay /\ pc = "lists" /\ pc' = "owner" /\ at' = at /\ payload' = payload
      /\ halted' = halted
  BY DEF Steady, ReadLists
<1>2. Managed \subseteq SrcUsers
  BY DEF Managed
<1>3. \A S \in SUBSET SrcUsers :
        /\ DOMAIN ListsOf(S) = S \cup {Top, SrcOwner}
        /\ \A b \in S \cup {Top, SrcOwner} : ListsOf(S)[b] \subseteq AllRows
  <2> SUFFICES ASSUME NEW S \in SUBSET SrcUsers, NEW b \in S \cup {Top, SrcOwner}
               PROVE  /\ DOMAIN ListsOf(S) = S \cup {Top, SrcOwner} /\ ListsOf(S)[b] \subseteq AllRows
    OBVIOUS
  <2>1. CollectionRows(Collections) \subseteq AllRows
    BY DEF AllRows
  <2>2. \A u \in Accounts : ListRows(Listed(u)) \subseteq AllRows
    BY DEF AllRows
  <2>3. Captured \subseteq Accounts
    BY <1>2 DEF Captured, Accounts
  <2> DEFINE brought == CASE b = Top -> CollectionRows(Collections)
                       [] b \in Captured -> ListRows(Listed(b)) [] OTHER -> {}
  <2>4. brought \subseteq AllRows
    BY <2>1, <2>2, <2>3
  <2>5. ListsOf(S)[b] = OfKinds(brought) /\ DOMAIN ListsOf(S) = S \cup {Top, SrcOwner}
    BY DEF ListsOf
  <2> HIDE DEF brought
  <2> QED
    BY <2>4, <2>5 DEF OfKinds
<1> DEFINE New(f) == /\ DOMAIN f \subseteq SrcUsers \cup {Top, SrcOwner}
                      /\ {Top, SrcOwner} \subseteq DOMAIN f /\ f \in [DOMAIN f -> SUBSET AllRows]
<1>4. New(lists')
  <2>1. CASE lists' = ListsOf(Managed)
    BY <1>2, <1>3, <2>1 DEF ListsOf
  <2>2. CASE lists' = ListsOf({})
    BY <1>3, <2>2 DEF ListsOf
  <2>3. ASSUME NEW u \in Managed \cup {Top, SrcOwner}, lists' = [ListsOf(Managed) EXCEPT ![u] = {}]
        PROVE  New(lists')
    BY <1>2, <1>3, <2>3 DEF ListsOf
  <2> QED
    BY <2>1, <2>2, <2>3 DEF ReadLists
<1>5. left' \subseteq SrcUsers \cap DOMAIN lists'
  BY <1>4 DEF ReadLists
<1>6. CaptureTyped'
  BY <1>1, <1>4, <1>5 DEF CaptureTyped
<1>7. CaptureAt'
  BY <1>1, AdapterAssumption DEF CaptureAt, Replaying
<1>8. Whole'
  BY <1>1 DEF CaptureAt, Whole
<1> QED
  BY <1>6, <1>7, <1>8

LEMMA CaptureOwnerKeeps == Steady /\ CaptureOwner => CaptureInv'
<1> SUFFICES ASSUME Steady, CaptureOwner PROVE CaptureInv'
  OBVIOUS
<1> USE Kept1, SameReplay
<1>1. /\ replay' = replay /\ pc = "owner" /\ ~halted /\ at <= Len(Libs) /\ at' = at /\ left' = left
      /\ lists' = lists
  BY DEF Steady, CaptureOwner
<1>2. PICK r \in IF SrcOwner \in replay.filter THEN Readings(SrcOwner, at)
                 ELSE {[how |-> "whole", rows |-> {}]} :
         /\ ReadingEnds(r) /\ pc' = (IF r.how = "raised" THEN "failed" ELSE "users")
         /\ payload' = Append(payload, [b \in {Top} |-> r.rows])
  BY DEF CaptureOwner
<1>3. SrcOwner \in Accounts /\ at \in 1..Len(Libs) /\ Len(payload) = at - 1 /\ payload \in Seq(Block)
  BY <1>1, AdapterAssumption DEF Accounts, CaptureTyped, CaptureAt
<1>4. /\ r.rows \in SUBSET AllRows /\ r.how \in {"whole", "raised", "stopped"}
      /\ r.how = "whole" /\ SrcOwner \in replay.filter => r.rows = LibraryRows(SrcOwner, at)
  BY <1>3, ReadingRows
<1> DEFINE block == [b \in {Top} |-> r.rows]
<1>5. block \in Block
  <2>1. block \in [{Top} -> SUBSET AllRows] /\ {Top} \in SUBSET (Accounts \cup {Top})
    BY <1>4
  <2> QED BY <2>1 DEF Block
<1>6. DOMAIN block = {Top} /\ block[Top] = r.rows
  OBVIOUS
<1> HIDE DEF block
<1>7. /\ payload' = Append(payload, block) /\ payload' \in Seq(Block) /\ Len(payload') = at
      /\ payload'[at] = block /\ \A n \in 1..Len(payload) : payload'[n] = payload[n]
  BY <1>2, <1>3, <1>5 DEF block
<1>8. CaptureTyped'
  BY <1>1, <1>7 DEF CaptureTyped
<1>9. ~halted' => r.how # "stopped"
  BY <1>2, <1>4 DEF ReadingEnds
<1>10. CaptureAt'
  BY <1>1, <1>2, <1>4, <1>6, <1>7, <1>9 DEF CaptureAt, Replaying
<1>11. Whole'
  <2> SUFFICES ASSUME NEW n \in DOMAIN payload', NEW u \in DOMAIN payload'[n] \ {Top}, u \in Captured
               PROVE  LibraryRows(u, n) \subseteq payload'[n][u]
    BY <1>1 DEF Whole
  <2>1. n \in 1..Len(payload) /\ payload'[n] = payload[n]
    BY <1>3, <1>6, <1>7
  <2> QED
    BY <1>1, <1>3, <2>1 DEF Whole
<1> QED
  BY <1>8, <1>10, <1>11

LEMMA CaptureUserKeeps == Steady /\ CaptureUser => CaptureInv'
<1> SUFFICES ASSUME Steady, CaptureUser PROVE CaptureInv'
  OBVIOUS
<1> USE Kept1, SameReplay
<1> DEFINE u == CHOOSE x \in left : TRUE
<1>1. /\ replay' = replay /\ pc = "users" /\ ~halted /\ at' = at /\ left' = left \ {u} /\ lists' = lists
      /\ u \in left
  BY DEF Steady, CaptureUser
<1>2. PICK r \in Readings(u, at) :
         /\ ReadingEnds(r) /\ pc' = (IF r.how = "raised" THEN "failed" ELSE "users")
         /\ payload' = [payload EXCEPT ![at] =
                           WithRows({u}, r.rows \cup Anchored(at, lists[u]), @)]
  BY DEF CaptureUser
<1> HIDE DEF u
<1>3. /\ u \in SrcUsers /\ u \in Accounts /\ u # Top /\ at \in 1..Len(payload) /\ at \in 1..Len(Libs)
      /\ payload \in Seq(Block) /\ Len(payload) = at
  BY <1>1, AdapterAssumption DEF Accounts, CaptureTyped, CaptureAt
<1>4. /\ r.rows \in SUBSET AllRows /\ r.how \in {"whole", "raised", "stopped"}
      /\ r.how = "whole" => r.rows = LibraryRows(u, at)
  BY <1>2, <1>3, ReadingRows
<1> DEFINE R == r.rows \cup Anchored(at, lists[u])
<1>5. R \in SUBSET AllRows
  BY <1>1, <1>4 DEF Anchored, CaptureTyped
<1>6. payload' = [payload EXCEPT ![at] = WithRows({u}, R, @)]
  BY <1>2
<1> HIDE DEF R
<1>7. /\ payload' \in Seq(Block) /\ Len(payload') = Len(payload)
      /\ DOMAIN payload'[at] = {u} \cup DOMAIN payload[at]
      /\ \A x \in {u} : payload'[at][x] = R
      /\ \A x \in DOMAIN payload[at] \ {u} : payload'[at][x] = payload[at][x]
      /\ \A n \in 1..Len(payload) \ {at} : payload'[n] = payload[n]
  <2>1. {u} \in SUBSET (Accounts \cup {Top})
    BY <1>3
  <2> QED BY ONLY <1>3, <1>5, <1>6, <2>1, BlockPut
<1>8. CaptureTyped'
  BY <1>1, <1>7 DEF CaptureTyped
<1>9. ~halted' => r.how # "stopped"
  BY <1>2, <1>4 DEF ReadingEnds
<1>10. CaptureAt'
  <2>1. Top \in DOMAIN payload[at] /\ payload'[at][Top] = payload[at][Top]
    BY <1>1, <1>3, <1>7 DEF CaptureAt
  <2>2. Top \in DOMAIN payload'[at]
    BY <1>7, <2>1
  <2>3. ~halted' /\ SrcOwner \in replay'.filter =>
           LibraryRows(SrcOwner, at)' \subseteq payload'[at][Top]
    BY <1>1, <2>1 DEF CaptureAt
  <2>4. pc' \in {"users", "failed"} /\ Len(payload') = at /\ at <= Len(Libs)
    BY <1>2, <1>3, <1>7
  <2>5. payload'[at'] = payload'[at] /\ at' = at
    BY <1>1
  <2> QED
    BY ONLY <2>2, <2>3, <2>4, <2>5 DEF CaptureAt, Replaying
<1>11. ~halted' /\ pc' # "failed" => Whole'
  <2> SUFFICES ASSUME ~halted', pc' # "failed",
                      NEW n \in DOMAIN payload', NEW v \in DOMAIN payload'[n] \ {Top}, v \in Captured
               PROVE  LibraryRows(v, n) \subseteq payload'[n][v]
    BY <1>1 DEF Whole
  <2>1. r.how = "whole"
    BY <1>2, <1>4, <1>9
  <2>2. n \in 1..Len(payload)
    BY <1>7
  <2>3. CASE n = at /\ v = u
    BY <1>4, <1>7, <2>1, <2>3 DEF R
  <2>4. CASE n # at \/ v # u
    BY <1>1, <1>3, <1>7, <2>2, <2>4 DEF Whole
  <2> QED BY <2>3, <2>4
<1> QED
  BY <1>8, <1>10, <1>11

LEMMA EndLibraryKeeps == Steady /\ EndLibrary => CaptureInv'
<1> SUFFICES ASSUME Steady, EndLibrary PROVE CaptureInv'
  OBVIOUS
<1> USE Kept1, SameReplay
<1> DEFINE R == payload[at][Top] \cup Anchored(at, lists[Top] \cup lists[SrcOwner])
           D == {Top, SrcOwner}
<1>1. /\ replay' = replay /\ pc = "users" /\ pc' = "owner" /\ halted' = halted /\ at' = at + 1
      /\ lists' = lists /\ left' = DOMAIN lists \ {Top, SrcOwner}
      /\ payload' = [payload EXCEPT ![at] = WithRows(D, R, @)]
  BY DEF Steady, EndLibrary
<1>2. /\ at \in 1..Len(payload) /\ at \in 1..Len(Libs) /\ payload \in Seq(Block) /\ Len(payload) = at
      /\ Top \in DOMAIN payload[at] /\ SrcOwner \in Accounts /\ SrcOwner # Top
  BY <1>1, AdapterAssumption DEF Accounts, CaptureTyped, CaptureAt
<1>3. R \in SUBSET AllRows
  <2>1. payload[at] \in Block
    BY <1>2
  <2>2. payload[at][Top] \in SUBSET AllRows
    BY <1>2, <2>1 DEF Block
  <2> QED
    BY <2>2 DEF Anchored, CaptureTyped
<1>4. payload[at][Top] \subseteq R
  OBVIOUS
<1> HIDE DEF R
<1>5. /\ payload' \in Seq(Block) /\ Len(payload') = Len(payload)
      /\ DOMAIN payload'[at] = D \cup DOMAIN payload[at]
      /\ \A x \in D : payload'[at][x] = R
      /\ \A x \in DOMAIN payload[at] \ D : payload'[at][x] = payload[at][x]
      /\ \A n \in 1..Len(payload) \ {at} : payload'[n] = payload[n]
  <2>1. D \in SUBSET (Accounts \cup {Top})
    BY <1>2
  <2> HIDE DEF D
  <2> QED BY ONLY <1>1, <1>2, <1>3, <2>1, BlockPut
<1>6. CaptureTyped'
  BY <1>1, <1>2, <1>5 DEF CaptureTyped
<1>7. CaptureAt'
  BY <1>1, <1>2, <1>5, AdapterAssumption DEF CaptureAt, Replaying
<1>8. ~halted' => Whole'
  <2> SUFFICES ASSUME ~halted',
                      NEW n \in DOMAIN payload', NEW v \in DOMAIN payload'[n] \ {Top}, v \in Captured
               PROVE  LibraryRows(v, n) \subseteq payload'[n][v]
    BY <1>1 DEF Whole
  <2>1. n \in 1..Len(payload)
    BY <1>5
  <2>2. CASE n = at /\ v = SrcOwner
    <3>1. SrcOwner \in replay.filter
      BY <2>2, AdapterAssumption DEF Captured, Managed
    <3>2. LibraryRows(SrcOwner, at) \subseteq payload[at][Top]
      BY <1>1, <3>1 DEF CaptureAt
    <3> QED BY <1>4, <1>5, <2>2, <3>2
  <2>3. CASE n # at \/ v # SrcOwner
    BY <1>1, <1>2, <1>5, <2>1, <2>3 DEF Whole
  <2> QED BY <2>2, <2>3
<1> QED
  BY <1>6, <1>7, <1>8

LEMMA EndCaptureKeeps == Steady /\ EndCapture => CaptureInv'
<1> SUFFICES ASSUME Steady, EndCapture PROVE CaptureInv'
  OBVIOUS
<1> USE Kept1, SameReplay
<1>1. /\ replay' = replay /\ pc = "owner" /\ pc' = "check" /\ halted' = halted /\ at' = 1
      /\ (halted \/ at > Len(Libs)) /\ UNCHANGED <<lists, left, payload>>
  BY DEF Steady, EndCapture
<1>2. CaptureTyped'
  BY <1>1 DEF CaptureTyped
<1>3. CaptureAt'
  BY <1>1, AdapterAssumption DEF CaptureAt, CaptureTyped, Replaying
<1>4. ~halted' => Whole'
  BY <1>1 DEF Whole
<1> QED
  BY <1>2, <1>3, <1>4

(* After the capture nothing changes what was read.                        *)
LEMMA LaterKeeps ==
    ASSUME Steady, UNCHANGED <<lists, left, payload>>, at' \in Nat \ {0},
           halted => halted',
           \/ pc' = pc /\ at' = at
           \/ pc \in {"check"} \cup Replaying /\ pc' \in {"failed"} \cup Replaying
           \/ pc' \in {"sweep", "done"} /\ pc \notin {"lists", "owner", "users", "failed"}
    PROVE  CaptureInv'
<1> USE Kept1, SameReplay
<1>1. CaptureTyped'
  BY DEF CaptureTyped, Steady
<1>2. CaptureAt'
  BY DEF CaptureAt, Steady, Replaying
<1>3. ~halted' /\ pc' # "failed" => Whole'
  BY DEF Whole, Steady, Replaying
<1> QED
  BY <1>1, <1>2, <1>3

LEMMA ReplayKeeps == CaptureInv /\ [ReplayNext]_replayVars => CaptureInv'
<1> SUFFICES ASSUME CaptureInv, [ReplayNext]_replayVars, Direct' PROVE CaptureInv'
  BY DEF CaptureInv
<1>1. replay' = replay
  BY DEF ReplayNext, replayVars, HaltReplay, ReadLists, CaptureOwner, CaptureUser, EndLibrary,
         EndCapture, Check, StartTop, StartUsers, ReplayRow, EndRows, StartReplaySweep, SweepOne, End
<1>2. Steady
  BY <1>1 DEF Steady, Direct
<1>3. at \in Nat \ {0}
  BY <1>2, Kept1 DEF CaptureTyped
<1>4. CASE ReadLists  BY <1>2, <1>4, ReadListsKeeps
<1>5. CASE CaptureOwner  BY <1>2, <1>5, CaptureOwnerKeeps
<1>6. CASE CaptureUser  BY <1>2, <1>6, CaptureUserKeeps
<1>7. CASE EndLibrary  BY <1>2, <1>7, EndLibraryKeeps
<1>8. CASE EndCapture  BY <1>2, <1>8, EndCaptureKeeps
<1>9. CASE HaltReplay  BY <1>2, <1>3, <1>9, LaterKeeps DEF HaltReplay
<1>10. CASE Check  BY <1>2, <1>3, <1>10, LaterKeeps DEF Check, Replaying
<1>11. CASE StartTop  BY <1>2, <1>3, <1>11, LaterKeeps DEF StartTop, Replaying
<1>12. CASE StartUsers  BY <1>2, <1>3, <1>12, LaterKeeps DEF StartUsers, Replaying
<1>13. CASE ReplayRow  BY <1>2, <1>3, <1>13, LaterKeeps DEF ReplayRow
<1>14. CASE EndRows  BY <1>2, <1>3, <1>14, LaterKeeps DEF EndRows, Replaying
<1>15. CASE StartReplaySweep  BY <1>2, <1>3, <1>15, LaterKeeps DEF StartReplaySweep, Replaying
<1>16. CASE SweepOne  BY <1>2, <1>3, <1>16, LaterKeeps DEF SweepOne
<1>17. CASE End  BY <1>2, <1>3, <1>17, LaterKeeps DEF End
<1>18. CASE UNCHANGED replayVars  BY <1>2, <1>3, <1>18, LaterKeeps DEF replayVars
<1> QED
  BY <1>4, <1>5, <1>6, <1>7, <1>8, <1>9, <1>10, <1>11, <1>12, <1>13, <1>14, <1>15, <1>16, <1>17,
     <1>18 DEF ReplayNext

(* Nothing of a history that was read in part is ever written to an        *)
(* account of the destination.                                             *)
THEOREM TornNeverLands == ReplaySpec => TornHistoryNeverLands
<1> DEFINE A == <<plays, stars, liked>>' # <<plays, stars, liked>> =>
                    ~Direct \/ (Len(payload) = Len(Libs) /\ Whole)
<1>1. CaptureInv /\ [ReplayNext]_replayVars => [A]_replayVars
  <2> SUFFICES ASSUME CaptureInv, ReplayNext, Direct,
                      <<plays, stars, liked>>' # <<plays, stars, liked>>
               PROVE  Len(payload) = Len(Libs) /\ Whole
    BY DEF replayVars
  <2>1. ReplayRow
    BY DEF ReplayNext, destination, HaltReplay, ReadLists, CaptureOwner, CaptureUser, EndLibrary,
           EndCapture, Check, StartTop, StartUsers, EndRows, StartReplaySweep, SweepOne, End
  <2> QED
    BY <2>1 DEF ReplayRow, CaptureInv, CaptureAt, Replaying
<1>2. ReplaySpec => []CaptureInv
  BY ReplayInitHolds, ReplayKeeps, PTL DEF ReplaySpec
<1> QED
  BY <1>1, <1>2, PTL DEF ReplaySpec, TornHistoryNeverLands

(* The rows of a payload, each with the fields of its kind.                *)
RowOk(r) ==
    /\ r.kind \in RowKinds
    /\ r.kind = "playlists" =>
          r = [kind |-> r.kind, name |-> r.name, smart |-> r.smart, items |-> r.items]
    /\ r.kind = "collections" =>
          r = [kind |-> r.kind, name |-> r.name, home |-> r.home, items |-> r.items]

PayloadOk ==
    /\ Len(payload) \in Nat /\ DOMAIN payload = 1..Len(payload)
    /\ \A n \in DOMAIN payload : \A b \in DOMAIN payload[n] : \A r \in payload[n][b] : RowOk(r)

(* What a playlist is called after its row: as in the payload, or as the   *)
(* half of a mixed one.                                                    *)
HalfName(x) == \E r \in {"[Audio]", "[Video]"}, t \in PayloadTitles : x = <<t, r>>
RowNamed(r) == r.kind \in RowKinds /\ (r.kind = "playlists" => r.name \in PayloadTitles \/ HalfName(r.name))

Numbered0 == Cardinality(Containers0)
LastMade == Numbered0 + Cardinality(made)

(* The ids are apart, those given to the lists made are the last; a list   *)
(* made is a playlist called after a row, or is not on a Plex server; what *)
(* is left to sweep is none of those whose name the payload has.           *)
MadeInv ==
    /\ IsFiniteSet(made) /\ made \subseteq (Numbered0 + 1)..LastMade
    /\ \A b \in containers :
          /\ b.id \in 1..LastMade
          /\ b.id \in made =>
                \/ b.kind = "playlists" /\ (b.name \in PayloadTitles \/ HalfName(b.name))
                \/ b.kind = "collections" /\ ~ToPlex
    /\ \A b, c \in containers : b.id = c.id /\ b.id \in made => b = c
LeftToWrite ==
    /\ at \in Nat \ {0}
    /\ pc \in {"topRows", "blocks", "userRows"} => at <= Len(payload)
    /\ pc \in {"topRows", "userRows"} => \A t \in pending : RowNamed(t.row)
LeftToSweep ==
    pc = "sweep" =>
        /\ pending # {} => Overwrites
        /\ \A b \in containers : b.id \in pending \cap made =>
                b.kind = "playlists" /\ b.name \notin PayloadTitles

Capturing == {"lists", "owner", "users"}
SweptInv ==
    /\ replay \in Replays /\ CaptureInv /\ (Direct \/ (pc \notin Capturing /\ PayloadOk))
    /\ pc \in Capturing \cup {"check"} => made = {}
    /\ MadeInv /\ LeftToWrite /\ LeftToSweep

LEMMA CollectionRowsOk == \A r \in CollectionRows(Collections) : RowOk(r)
<1> SUFFICES ASSUME NEW r \in CollectionRows(Collections) PROVE RowOk(r)
  OBVIOUS
<1> DEFINE home == IF Direct THEN "(server-wide)" ELSE ""
<1>1. PICK c \in Collections :
         r = [kind |-> "collections", name |-> c.name, home |-> home, items |-> c.items]
  BY DEF CollectionRows
<1> HIDE DEF home
<1> QED
  BY <1>1 DEF RowOk, RowKinds

LEMMA RowsOk == \A r \in AllRows : RowOk(r)
<1> SUFFICES ASSUME NEW r \in AllRows PROVE RowOk(r)
  OBVIOUS
<1>1. CASE \E u \in Accounts, n \in 1..Len(Libs) : r \in LibraryRows(u, n)
  BY <1>1 DEF LibraryRows, OfKinds, WatchRows, RatingRows, RowOk, RowKinds
<1>2. CASE \E u \in Accounts : r \in ListRows(Listed(u))
  BY <1>2 DEF ListRows, RowOk, RowKinds
<1>3. CASE r \in CollectionRows(Collections)
  BY <1>3, CollectionRowsOk
<1> QED
  BY <1>1, <1>2, <1>3 DEF AllRows

LEMMA FileRowsOk == \A n \in DOMAIN Libs, u \in Accounts : \A r \in FromFile[n][u] : RowOk(r)
<1> SUFFICES ASSUME NEW n \in DOMAIN Libs, NEW u \in Accounts, NEW r \in FromFile[n][u]
             PROVE  RowOk(r)
  OBVIOUS
<1>1. \/ r \in WatchRows(u, n) \/ r \in RatingRows(u, n)
      \/ r \in ListRows(Unmarked(Listed(u))) \/ r \in CollectionRows(Collections)
  BY DEF FromFile, Anchored
<1>2. CASE r \in WatchRows(u, n) \cup RatingRows(u, n)
  BY <1>2 DEF WatchRows, RatingRows, RowOk, RowKinds
<1>3. CASE r \in ListRows(Unmarked(Listed(u)))
  BY <1>3 DEF ListRows, RowOk, RowKinds
<1>4. CASE r \in CollectionRows(Collections)
  BY <1>4, CollectionRowsOk
<1> QED
  BY <1>1, <1>2, <1>3, <1>4

LEMMA PayloadIsOk == SweptInv => PayloadOk
<1> SUFFICES ASSUME SweptInv, Direct PROVE PayloadOk
  BY DEF SweptInv
<1>1. payload \in Seq(Block)
  BY DEF SweptInv, CaptureInv, CaptureTyped
<1>2. Len(payload) \in Nat /\ DOMAIN payload = 1..Len(payload)
  BY <1>1
<1>3. ASSUME NEW n \in DOMAIN payload, NEW b \in DOMAIN payload[n], NEW r \in payload[n][b]
      PROVE  RowOk(r)
  <2>1. payload[n] \in Block
    BY <1>1, <1>2
  <2>2. payload[n][b] \subseteq AllRows
    BY <2>1 DEF Block
  <2> QED BY <2>2, RowsOk
<1> QED
  BY <1>2, <1>3 DEF PayloadOk

(* A row to write is called after the row of the payload that it comes     *)
(* from.                                                                   *)
LEMMA UnmixedNamed ==
    ASSUME replay \in Replays, NEW x, RowOk(x), x.kind = "playlists", x.name \in PayloadTitles,
           NEW r \in Unmixed(x)
    PROVE  RowNamed(r) /\ r.kind = "playlists"
<1>1. x = [kind |-> "playlists", name |-> x.name, smart |-> x.smart, items |-> x.items]
  BY DEF RowOk
<1>2. RowNamed(x)
  BY DEF RowNamed, RowKinds
<1> DEFINE List(p) == RowNamed(p) /\ p.kind = "playlists"
<1>3. \A F : List([x EXCEPT !.items = F])
  BY <1>1 DEF RowNamed, RowKinds
<1>4. \A F : \A s \in {"[Audio]", "[Video]"} : List(Part(x, F, s))
  <2> SUFFICES ASSUME NEW F, NEW s \in {"[Audio]", "[Video]"} PROVE List(Part(x, F, s))
    OBVIOUS
  <2>1. Part(x, F, s).kind = "playlists" /\ Part(x, F, s).name = <<x.name, s>>
    BY <1>1 DEF Part
  <2> QED BY <2>1 DEF RowNamed, RowKinds, HalfName
<1>5. \A h \in Halves(x) : List(h)
  BY <1>4 DEF Halves
<1> DEFINE a == Cardinality(x.items \cap Audio)
           v == Cardinality(x.items \ Audio)
           Most == IF a > v THEN Audio ELSE MediaItems \ Audio
           top == IF a > v THEN a ELSE v
           close == 5 * top >= 3 * (a + v)
<1>6. r \in (IF x.smart THEN {x}
            ELSE IF Direct THEN {[x EXCEPT !.items = {}]}
            ELSE IF a = 0 \/ v = 0 THEN {x}
            ELSE CASE replay.mixed = "skip" -> {}
                   [] replay.mixed = "split" -> Halves(x)
                   [] replay.mixed = "dominant" ->
                         IF a = v THEN Halves(x)
                         ELSE IF close THEN {[x EXCEPT !.items = @ \cap Most]} ELSE {})
  BY DEF Unmixed
<1>7. replay.mixed \in {"skip", "split", "dominant"}
  BY AdapterAssumption
<1> HIDE DEF a, v, Most, top, close
<1> QED
  BY <1>2, <1>3, <1>5, <1>6, <1>7

LEMMA WorkNamed ==
    ASSUME replay \in Replays, PayloadOk, NEW n \in DOMAIN payload, NEW b, NEW u, NEW d,
           NEW t \in Work(u, d, BlockOf(n, b))
    PROVE  RowNamed(t.row)
<1>1. t.row \in Writable(BlockOf(n, b))
  BY DEF Work
<1>2. \A x \in BlockOf(n, b) : RowOk(x) /\ (x.kind = "playlists" => x.name \in PayloadTitles)
  <2> SUFFICES ASSUME NEW x \in BlockOf(n, b)
               PROVE  RowOk(x) /\ (x.kind = "playlists" => x.name \in PayloadTitles)
    OBVIOUS
  <2>1. b \in DOMAIN payload[n] /\ x \in payload[n][b]
    BY DEF BlockOf, OfKinds
  <2> QED BY <2>1 DEF PayloadOk, PayloadTitles
<1>3. CASE t.row.kind \in {"watch", "ratings"}
  BY <1>3 DEF RowNamed, RowKinds
<1>4. CASE \E x \in BlockOf(n, b) : x.kind = "playlists" /\ t.row \in Unmixed(x)
  BY <1>2, <1>4, UnmixedNamed
<1>5. CASE \E x \in BlockOf(n, b) : x.kind = "collections" /\ t.row = Prefixed(x)
  <2>1. PICK x \in BlockOf(n, b) : x.kind = "collections" /\ t.row = Prefixed(x)
    BY <1>5
  <2>2. x = [kind |-> "collections", name |-> x.name, home |-> x.home, items |-> x.items]
    BY <1>2, <2>1 DEF RowOk
  <2>3. t.row.kind = "collections"
    BY <2>1, <2>2 DEF Prefixed
  <2> QED BY <2>3 DEF RowNamed, RowKinds
<1> QED
  BY <1>1, <1>3, <1>4, <1>5 DEF Writable

LEMMA FirstIs == pending # {} => First \in pending
<1> SUFFICES ASSUME pending # {} PROVE First \in pending
  OBVIOUS
<1> DEFINE u == CHOOSE x \in {t.from : t \in pending} : TRUE
           Mine == {t \in pending : t.from = u}
<1>1. u \in {t.from : t \in pending}
  OBVIOUS
<1>2. Mine # {}
  BY <1>1
<1> HIDE DEF Mine
<1>3. \E t \in Mine : \A o \in Mine : Rank(t.row) <= Rank(o.row)
  <2>1. \A t \in Mine : Rank(t.row) \in 1..4
    BY DEF Rank
  <2>2. CASE \E t \in Mine : Rank(t.row) = 1
    BY <2>1, <2>2
  <2>3. CASE ~(\E t \in Mine : Rank(t.row) = 1) /\ \E t \in Mine : Rank(t.row) = 2
    BY <2>1, <2>3
  <2>4. CASE ~(\E t \in Mine : Rank(t.row) \in {1, 2}) /\ \E t \in Mine : Rank(t.row) = 3
    BY <2>1, <2>4
  <2>5. CASE ~(\E t \in Mine : Rank(t.row) \in {1, 2, 3})
    BY <1>2, <2>1, <2>5
  <2> QED BY <2>2, <2>3, <2>4, <2>5
<1>4. First \in Mine
  BY <1>3 DEF First, Mine
<1> QED
  BY <1>4 DEF Mine

(* Until the first write nothing is made, and what was there has the first *)
(* ids.                                                                    *)
LEMMA NumbersHold ==
    /\ Numbered0 \in Nat
    /\ \A S : IsFiniteSet(S) => Cardinality(S) \in Nat
BY AdapterAssumption, FS_CardinalityType DEF Numbered0

LEMMA SweptBegins == ReplayInit => SweptInv
<1> SUFFICES ASSUME ReplayInit PROVE SweptInv
  OBVIOUS
<1>1. CaptureInv
  BY ReplayInitHolds
<1>2. Direct \/ (pc \notin Capturing /\ PayloadOk)
  <2> SUFFICES ASSUME ~Direct PROVE pc \notin Capturing /\ PayloadOk
    OBVIOUS
  <2>1. payload = FromFile /\ pc = "check"
    BY DEF ReplayInit
  <2>2. DOMAIN payload = 1..Len(Libs) /\ Len(Libs) \in Nat
    BY <2>1, AdapterAssumption DEF FromFile
  <2>3. Len(payload) = Len(Libs)
    BY <2>2
  <2>4. \A n \in DOMAIN payload : \A b \in DOMAIN payload[n] : \A r \in payload[n][b] : RowOk(r)
    BY <2>1, FileRowsOk DEF FromFile
  <2> QED
    BY <2>1, <2>2, <2>3, <2>4 DEF PayloadOk, Capturing
<1>3. made = {} /\ containers = Containers0 /\ pc \in {"lists", "check"} /\ at = 1 /\ replay \in Replays
  BY DEF ReplayInit
<1>4. MadeInv
  <2>1. IsFiniteSet(made) /\ Cardinality(made) = 0
    BY <1>3, FS_EmptySet
  <2>2. LastMade = Numbered0
    BY <2>1, NumbersHold DEF LastMade
  <2> QED
    BY <1>3, <2>1, <2>2, AdapterAssumption DEF MadeInv, Numbered0
<1> QED
  BY <1>1, <1>2, <1>3, <1>4 DEF SweptInv, LeftToWrite, LeftToSweep

(* In each step the settings stay.                                         *)
Sweeping == SweptInv /\ replay' = replay /\ CaptureInv'

LEMMA SameSettings ==
    ASSUME Sweeping
    PROVE  /\ Direct' = Direct /\ ToPlex' = ToPlex /\ Overwrites' = Overwrites /\ replay' \in Replays
           /\ CaptureInv' /\ MadeInv /\ LeftToWrite /\ LeftToSweep /\ PayloadOk
           /\ (Direct \/ pc \notin Capturing) /\ (pc \in Capturing \cup {"check"} => made = {})
BY PayloadIsOk DEF Sweeping, SweptInv, Direct, ToPlex, Overwrites

LEMMA SamePayload ==
    payload' = payload => /\ PayloadOk' = PayloadOk /\ PayloadTitles' = PayloadTitles
                          /\ \A x : HalfName(x)' = HalfName(x)
                          /\ \A r : RowNamed(r)' = RowNamed(r)
BY DEF PayloadOk, PayloadTitles, HalfName, RowNamed

(* A capture makes nothing.                                                *)
LEMMA CaptureSwept ==
    ASSUME Sweeping, pc \in Capturing \cup {"check"}, pc' \in Capturing \cup {"check", "failed"},
           Direct, UNCHANGED <<containers, made>>
    PROVE  SweptInv'
<1> USE SameSettings
<1>1. at' \in Nat \ {0}
  BY DEF CaptureInv, CaptureTyped
<1>2. MadeInv'
  BY DEF MadeInv, LastMade
<1> QED
  BY <1>1, <1>2 DEF SweptInv, LeftToWrite, LeftToSweep, Capturing

(* Once the payload is whole, a step that makes nothing keeps the names.   *)
LEMMA MadeStays ==
    ASSUME Sweeping, UNCHANGED <<payload, made>>, containers' \subseteq containers
    PROVE  MadeInv'
<1> USE SameSettings, SamePayload
<1>1. LastMade' = LastMade
  BY DEF LastMade
<1> QED
  BY <1>1 DEF MadeInv

LEMMA WriteListSwept ==
    ASSUME Sweeping, UNCHANGED payload, NEW d, NEW r, RowNamed(r), r.kind \notin {"watch", "ratings"},
           WriteList(d, r)
    PROVE  MadeInv'
<1> USE SameSettings, SamePayload
<1>1. CASE UNCHANGED <<containers, made>>
  BY <1>1, MadeStays
<1>2. CASE ~UNCHANGED <<containers, made>>
  <2> DEFINE b == [id |-> Fresh, kind |-> r.kind,
                   owner |-> IF r.kind = "playlists" THEN d ELSE DstOwner,
                   name |-> r.name, items |-> r.items \cap Known]
  <2>1. /\ ~(r.kind = "collections" /\ ToPlex)
        /\ containers' = containers \cup {b} /\ made' = made \cup {Fresh}
    BY <1>2 DEF WriteList
  <2>2. Fresh = LastMade + 1 /\ LastMade \in Nat /\ Numbered0 \in Nat /\ Numbered0 <= LastMade
    BY NumbersHold DEF Fresh, LastMade, Numbered0, MadeInv
  <2>3. b.id = Fresh /\ b.kind = r.kind /\ b.name = r.name
    OBVIOUS
  <2> HIDE DEF b
  <2>4. Fresh \notin made
    BY <2>2 DEF MadeInv
  <2>5. IsFiniteSet(made') /\ Cardinality(made') = Cardinality(made) + 1
    BY <2>1, <2>4, FS_AddElement DEF MadeInv
  <2>6. LastMade' = LastMade + 1
    BY <2>5, NumbersHold DEF LastMade, Numbered0, MadeInv
  <2>7. Numbered0' = Numbered0
    BY DEF Numbered0
  <2>8. made' \subseteq (Numbered0 + 1)..(LastMade + 1)
    BY <2>1, <2>2 DEF MadeInv
  <2>9. \A c \in containers' : c.id \in 1..(LastMade + 1)
    BY <2>1, <2>2, <2>3 DEF MadeInv
  <2>10. \A c \in containers : c.id # Fresh
    BY <2>2 DEF MadeInv
  <2>11. \/ r.kind = "playlists" /\ (r.name \in PayloadTitles \/ HalfName(r.name))
         \/ r.kind = "collections" /\ ~ToPlex
    BY <2>1 DEF RowNamed, RowKinds
  <2>12. \A c \in containers' : c.id \in made' =>
            \/ c.kind = "playlists" /\ (c.name \in PayloadTitles \/ HalfName(c.name))
            \/ c.kind = "collections" /\ ~ToPlex
    BY <2>1, <2>3, <2>10, <2>11 DEF MadeInv
  <2>13. \A c, e \in containers' : c.id = e.id /\ c.id \in made' => c = e
    BY <2>1, <2>3, <2>10 DEF MadeInv
  <2> QED
    BY <2>5, <2>6, <2>7, <2>8, <2>9, <2>12, <2>13 DEF MadeInv
<1> QED
  BY <1>1, <1>2

LEMMA ReplayRowSwept == Sweeping /\ ReplayRow => SweptInv'
<1> SUFFICES ASSUME Sweeping, ReplayRow PROVE SweptInv'
  OBVIOUS
<1> USE SameSettings, SamePayload
<1>1. /\ pc \in {"topRows", "userRows"} /\ pending # {} /\ UNCHANGED <<pc, at, payload>>
      /\ pending' \subseteq pending
  BY DEF ReplayRow
<1> DEFINE t == First
<1>2. t \in pending /\ RowNamed(t.row)
  BY <1>1, FirstIs DEF LeftToWrite
<1>3. CASE t.row.kind \in {"watch", "ratings"}
  <2>1. UNCHANGED <<containers, made>>
    BY <1>3 DEF ReplayRow, WriteWatch, WriteRating
  <2> QED BY <1>1, <2>1, MadeStays DEF SweptInv, LeftToWrite, LeftToSweep, Capturing
<1>4. CASE t.row.kind \notin {"watch", "ratings"}
  <2>1. WriteList(t.to, t.row)
    BY <1>4 DEF ReplayRow
  <2> HIDE DEF t
  <2>2. MadeInv'
    BY <1>1, <1>2, <1>4, <2>1, WriteListSwept
  <2> QED BY <1>1, <2>2 DEF SweptInv, LeftToWrite, LeftToSweep, Capturing
<1> QED
  BY <1>3, <1>4

LEMMA StartTopSwept == Sweeping /\ StartTop => SweptInv'
<1> SUFFICES ASSUME Sweeping, StartTop PROVE SweptInv'
  OBVIOUS
<1> USE SameSettings, SamePayload
<1>1. /\ pc = "top" /\ pc' = "topRows" /\ at <= Len(payload)
      /\ UNCHANGED <<at, payload, containers, made>>
      /\ pending' = Work(Top, DstOwner, BlockOf(at, Top))
  BY DEF StartTop, destination
<1>2. at \in DOMAIN payload
  BY <1>1 DEF LeftToWrite, PayloadOk
<1>3. \A t \in pending' : RowNamed(t.row)
  BY <1>1, <1>2, WorkNamed DEF Sweeping, SweptInv
<1> QED
  BY <1>1, <1>3, MadeStays DEF SweptInv, LeftToWrite, LeftToSweep, Capturing

LEMMA StartUsersSwept == Sweeping /\ StartUsers => SweptInv'
<1> SUFFICES ASSUME Sweeping, StartUsers PROVE SweptInv'
  OBVIOUS
<1> USE SameSettings, SamePayload
<1>1. pc = "blocks" /\ pc' = "userRows" /\ UNCHANGED <<at, payload, containers, made>>
  BY DEF StartUsers, destination
<1>2. at \in DOMAIN payload
  BY <1>1 DEF LeftToWrite, PayloadOk
<1>3. \A t \in pending' : \E u \in Chosen : t \in Work(u, AccountFor(u, Visible), BlockOf(at, u))
  BY DEF StartUsers
<1>4. \A t \in pending' : RowNamed(t.row)
  BY <1>2, <1>3, WorkNamed DEF Sweeping, SweptInv
<1> QED
  BY <1>1, <1>4, MadeStays DEF SweptInv, LeftToWrite, LeftToSweep, Capturing

(* What a sweep is going to delete is of none of the names in the payload. *)
LEMMA StartSweepSwept == Sweeping /\ StartReplaySweep => SweptInv'
<1> SUFFICES ASSUME Sweeping, StartReplaySweep PROVE SweptInv'
  OBVIOUS
<1> USE SameSettings, SamePayload
<1>1. pc \in Replaying /\ pc' = "sweep" /\ UNCHANGED <<at, payload, containers, made>>
  BY DEF StartReplaySweep, destination
<1>2. \A users, kinds : \A b \in containers : b.id \in Doomed(users, kinds) \cap made =>
          b.kind = "playlists" /\ b.name \notin PayloadTitles
  <2> SUFFICES ASSUME NEW users, NEW kinds, NEW b \in containers, b.id \in Doomed(users, kinds),
                      b.id \in made
               PROVE  b.kind = "playlists" /\ b.name \notin PayloadTitles
    OBVIOUS
  <2>1. PICK x \in containers :
           /\ x.id = b.id
           /\ IF x.kind = "playlists" THEN x.owner \in users /\ x.name \notin PayloadTitles
              ELSE ToPlex /\ x.name \notin TopCollections
    BY DEF Doomed
  <2>2. x = b
    BY <2>1 DEF MadeInv
  <2> QED BY <2>1, <2>2 DEF MadeInv
<1>3. (pending' # {} => Overwrites) /\ \E users, kinds : pending' \subseteq Doomed(users, kinds)
  BY DEF StartReplaySweep
<1>4. LeftToSweep'
  BY <1>1, <1>2, <1>3 DEF LeftToSweep
<1> QED
  BY <1>1, <1>4, MadeStays DEF SweptInv, LeftToWrite, Capturing, Replaying

LEMMA SweepOneSwept == Sweeping /\ SweepOne => SweptInv'
<1> SUFFICES ASSUME Sweeping, SweepOne PROVE SweptInv'
  OBVIOUS
<1> USE SameSettings, SamePayload
<1>1. /\ pc = "sweep" /\ UNCHANGED <<pc, at, payload, made>> /\ containers' \subseteq containers
      /\ pending' \subseteq pending
  BY DEF SweepOne
<1>2. LeftToSweep'
  BY <1>1 DEF LeftToSweep
<1> QED
  BY <1>1, <1>2, MadeStays DEF SweptInv, LeftToWrite, Capturing

LEMMA EndRowsSwept == Sweeping /\ EndRows => SweptInv'
<1> SUFFICES ASSUME Sweeping, EndRows PROVE SweptInv'
  OBVIOUS
<1> USE SameSettings, SamePayload
<1>1. /\ pc \in {"topRows", "userRows"} /\ UNCHANGED <<payload, containers, made>>
      /\ \/ pc = "topRows" /\ pc' = "blocks" /\ at' = at
         \/ pc' = "top" /\ at' = at + 1
  BY DEF EndRows, destination
<1> QED
  BY <1>1, MadeStays DEF SweptInv, LeftToWrite, LeftToSweep, Capturing

(* The other steps leave the lists, the payload and what is left as they   *)
(* are.                                                                    *)
LEMMA QuietSwept ==
    ASSUME Sweeping, UNCHANGED <<at, payload, pending, containers, made>>,
           pc' = pc \/ (pc = "check" /\ pc' \in {"top", "failed"}) \/ pc' = "done"
    PROVE  SweptInv'
<1> USE SameSettings, SamePayload
<1> QED
  BY MadeStays DEF SweptInv, LeftToWrite, LeftToSweep, Capturing

LEMMA SweptStep == SweptInv /\ [ReplayNext]_replayVars => SweptInv'
<1> SUFFICES ASSUME SweptInv, [ReplayNext]_replayVars PROVE SweptInv'
  OBVIOUS
<1>1. replay' = replay
  BY DEF ReplayNext, replayVars, HaltReplay, ReadLists, CaptureOwner, CaptureUser, EndLibrary,
         EndCapture, Check, StartTop, StartUsers, ReplayRow, EndRows, StartReplaySweep, SweepOne, End
<1>2. Sweeping
  BY <1>1, ReplayKeeps DEF Sweeping, SweptInv
<1>3. Direct \/ pc \notin Capturing
  BY DEF SweptInv
<1>4. CASE ReadLists
  BY <1>2, <1>3, <1>4, CaptureSwept DEF ReadLists, Capturing, destination
<1>5. CASE CaptureOwner
  BY <1>2, <1>3, <1>5, CaptureSwept DEF CaptureOwner, Capturing, destination
<1>6. CASE CaptureUser
  BY <1>2, <1>3, <1>6, CaptureSwept DEF CaptureUser, Capturing, destination
<1>7. CASE EndLibrary
  BY <1>2, <1>3, <1>7, CaptureSwept DEF EndLibrary, Capturing, destination
<1>8. CASE EndCapture
  BY <1>2, <1>3, <1>8, CaptureSwept DEF EndCapture, Capturing, destination
<1>9. CASE HaltReplay  BY <1>2, <1>9, QuietSwept DEF HaltReplay, destination
<1>10. CASE Check  BY <1>2, <1>10, QuietSwept DEF Check, destination
<1>11. CASE StartTop  BY <1>2, <1>11, StartTopSwept
<1>12. CASE StartUsers  BY <1>2, <1>12, StartUsersSwept
<1>13. CASE ReplayRow  BY <1>2, <1>13, ReplayRowSwept
<1>14. CASE EndRows  BY <1>2, <1>14, EndRowsSwept
<1>15. CASE StartReplaySweep  BY <1>2, <1>15, StartSweepSwept
<1>16. CASE SweepOne  BY <1>2, <1>16, SweepOneSwept
<1>17. CASE End  BY <1>2, <1>17, QuietSwept DEF End, destination
<1>18. CASE UNCHANGED replayVars  BY <1>2, <1>18, QuietSwept DEF replayVars, destination
<1> QED
  BY <1>4, <1>5, <1>6, <1>7, <1>8, <1>9, <1>10, <1>11, <1>12, <1>13, <1>14, <1>15, <1>16, <1>17,
     <1>18 DEF ReplayNext

LEMMA MadeIsSpared == ReplaySpec => SweepSparesMade
<1>1. SweptInv /\ [ReplayNext]_replayVars =>
         [\A b \in containers \ containers' : b.id \in made =>
            /\ Overwrites
            /\ \E r \in {"[Audio]", "[Video]"}, t \in PayloadTitles : b.name = <<t, r>>]_replayVars
  <2> SUFFICES ASSUME SweptInv, ReplayNext, NEW b \in containers \ containers', b.id \in made
               PROVE  Overwrites /\ HalfName(b.name)
    BY DEF replayVars, HalfName
  <2>1. SweepOne
    BY DEF ReplayNext, destination, HaltReplay, ReadLists, CaptureOwner, CaptureUser, EndLibrary,
           EndCapture, Check, StartTop, StartUsers, EndRows, StartReplaySweep, End, ReplayRow,
           WriteWatch, WriteRating, WriteList
  <2>2. pc = "sweep" /\ pending # {} /\ b.id \in pending
    BY <2>1 DEF SweepOne
  <2> QED
    BY <2>2 DEF SweptInv, LeftToSweep, MadeInv
<1>2. ReplaySpec => []SweptInv
  BY SweptBegins, SweptStep, PTL DEF ReplaySpec
<1> QED
  BY <1>1, <1>2, PTL DEF ReplaySpec, SweepSparesMade

(* No step of either engine, the sweep after a stopped Replace included,   *)
(* deletes a list that its run has restored, for any payloads, accounts    *)
(* and lists of the destination; of the Plex engine, where users keep      *)
(* their name.                                                             *)
THEOREM SweepsSpare == ASSUME Named PROVE Spec /\ ReplaySpec => SweepsSpareRestored
BY EngineSpares, MadeIsSpared, PTL DEF SweepsSpareRestored

(* What a run that nothing disturbed has captured: of each block exactly   *)
(* the history of its account, the owner's also at the top.                *)
Histories == {"watch", "ratings"}
Told(rows) == {r \in rows : r.kind \in Histories}
Blocks == Managed \cup {Top, SrcOwner}
Reads(b, n) ==
    LET u == IF b = Top THEN SrcOwner ELSE b IN IF u \in Captured THEN LibraryRows(u, n) ELSE {}

ListsRead ==
    /\ pc # "lists" => DOMAIN lists = Blocks /\ \A b \in Blocks : Told(lists[b]) = {}
    /\ pc = "owner" => left = Managed
BlocksRead ==
    \A n \in 1..Len(payload) :
        /\ DOMAIN payload[n] = IF pc = "users" /\ n = at THEN {Top} \cup (Managed \ left) ELSE Blocks
        /\ \A b \in DOMAIN payload[n] : Told(payload[n][b]) = Reads(b, n)
ReadInv == Direct /\ undisturbed => ~halted /\ ListsRead /\ BlocksRead

LEMMA SameReads ==
    ASSUME replay' = replay
    PROVE  /\ Managed' = Managed /\ Blocks' = Blocks /\ \A b, n : Reads(b, n)' = Reads(b, n)
<1>1. Managed' = Managed /\ Captured' = Captured
  BY DEF Managed, Captured
<1>2. \A u, n : LibraryRows(u, n)' = LibraryRows(u, n)
  BY SameReplay
<1>3. \A b, n : Reads(b, n)' = Reads(b, n)
  BY <1>1, <1>2 DEF Reads
<1> QED
  BY <1>1, <1>3 DEF Blocks

LEMMA ToldIs ==
    /\ \A u, n : Told(LibraryRows(u, n)) = LibraryRows(u, n)
    /\ \A S : Told(ListRows(S)) = {} /\ Told(CollectionRows(S)) = {}
    /\ \A S : Told(OfKinds(S)) = OfKinds(Told(S))
    /\ Told({}) = {} /\ OfKinds({}) = {}
<1>1. \A u, n : Told(LibraryRows(u, n)) = LibraryRows(u, n)
  BY DEF Told, LibraryRows, OfKinds, WatchRows, RatingRows, Histories
<1>2. \A S : Told(ListRows(S)) = {}
  BY DEF Told, ListRows, Histories
<1>3. \A S : Told(CollectionRows(S)) = {}
  <2> SUFFICES ASSUME NEW S, NEW r \in CollectionRows(S) PROVE r.kind \notin Histories
    BY DEF Told
  <2> DEFINE home == IF Direct THEN "(server-wide)" ELSE ""
  <2>1. PICK c \in S : r = [kind |-> "collections", name |-> c.name, home |-> home, items |-> c.items]
    BY DEF CollectionRows
  <2> HIDE DEF home
  <2> QED BY <2>1 DEF Histories
<1>4. \A S : Told(OfKinds(S)) = OfKinds(Told(S))
  BY DEF Told, OfKinds
<1> QED
  BY <1>1, <1>2, <1>3, <1>4 DEF Told, OfKinds

LEMMA ToldUnion == \A S, T : Told(S \cup T) = Told(S) \cup Told(T)
BY DEF Told

LEMMA ToldReads == \A b, n : Told(Reads(b, n)) = Reads(b, n)
<1>1. \A u, n : Told(LibraryRows(u, n)) = LibraryRows(u, n)
  BY ToldIs
<1>2. Told({}) = {}
  BY DEF Told
<1> QED
  BY <1>1, <1>2 DEF Reads

(* The owner's own rows are read with the owner's turn, and each user who  *)
(* is left to capture is one whose rows were asked for.                    *)
LEMMA WhoIsRead ==
    /\ Managed \subseteq Captured /\ Managed \subseteq SrcUsers
    /\ SrcOwner \notin Managed /\ Top \notin Managed /\ SrcOwner # Top
    /\ SrcOwner \in Captured <=> SrcOwner \in replay.filter
    /\ \A n : Reads(Top, n) = (IF SrcOwner \in replay.filter THEN LibraryRows(SrcOwner, n) ELSE {})
    /\ \A n : Reads(SrcOwner, n) = Reads(Top, n)
    /\ \A n : \A u \in Managed : Reads(u, n) = LibraryRows(u, n)
<1>1. Managed \subseteq Captured /\ Managed \subseteq SrcUsers
  BY DEF Managed, Captured
<1>2. SrcOwner \notin Managed /\ Top \notin Managed /\ SrcOwner # Top
  BY <1>1, AdapterAssumption DEF Accounts
<1>3. SrcOwner \in Captured <=> SrcOwner \in replay.filter
  BY <1>2 DEF Captured
<1> QED
  BY <1>1, <1>2, <1>3 DEF Reads

(* In each step lemma the job is one in memory that nothing disturbs.      *)
ReadsOn == Steady /\ SweptInv /\ ReadInv /\ undisturbed /\ undisturbed'

LEMMA ReadListsReads == ReadsOn /\ ReadLists => ReadInv'
<1> SUFFICES ASSUME ReadsOn, ReadLists PROVE ReadInv'
  OBVIOUS
<1> USE DEF Steady, ReadsOn
<1>0. Managed' = Managed /\ Blocks' = Blocks /\ Direct' = Direct /\ \A b, n : Reads(b, n)' = Reads(b, n)
  BY SameReplay, SameReads
<1>1. /\ pc = "lists" /\ pc' = "owner" /\ halted' = halted /\ lists' = ListsOf(Managed)
      /\ payload' = payload /\ left' = DOMAIN lists' \ {Top, SrcOwner} /\ ~halted
  BY DEF ReadLists, Refused, ReadInv
<1>2. payload = <<>>
  BY <1>1, Kept1 DEF CaptureAt
<1>3. DOMAIN lists' = Blocks
  BY <1>1 DEF ListsOf, Blocks
<1>4. \A b \in Blocks : Told(lists'[b]) = {}
  <2> SUFFICES ASSUME NEW b \in Blocks PROVE Told(lists'[b]) = {}
    OBVIOUS
  <2> DEFINE brought == CASE b = Top -> CollectionRows(Collections)
                       [] b \in Captured -> ListRows(Listed(b)) [] OTHER -> {}
  <2>1. Told(brought) = {}
    BY ToldIs
  <2>2. lists'[b] = OfKinds(brought)
    BY <1>1 DEF ListsOf, Blocks
  <2> HIDE DEF brought
  <2> QED BY <2>1, <2>2, ToldIs
<1>5. left' = Managed
  BY <1>1, <1>3, WhoIsRead DEF Blocks
<1>6. ListsRead'
  BY <1>0, <1>1, <1>3, <1>4, <1>5 DEF ListsRead
<1>7. BlocksRead'
  BY <1>0, <1>1, <1>2 DEF BlocksRead
<1> QED
  BY <1>0, <1>1, <1>6, <1>7 DEF ReadInv

LEMMA CaptureOwnerReads == ReadsOn /\ CaptureOwner => ReadInv'
<1> SUFFICES ASSUME ReadsOn, CaptureOwner PROVE ReadInv'
  OBVIOUS
<1> USE DEF Steady, ReadsOn
<1>0. Managed' = Managed /\ Blocks' = Blocks /\ Direct' = Direct /\ \A b, n : Reads(b, n)' = Reads(b, n)
  BY SameReplay, SameReads
<1>1. /\ pc = "owner" /\ ~halted /\ at <= Len(Libs) /\ at' = at /\ left' = left
      /\ lists' = lists /\ ListsRead /\ BlocksRead
  BY DEF CaptureOwner, ReadInv
<1>2. PICK r \in IF SrcOwner \in replay.filter THEN Readings(SrcOwner, at)
                 ELSE {[how |-> "whole", rows |-> {}]} :
         /\ ReadingEnds(r) /\ pc' = (IF r.how = "raised" THEN "failed" ELSE "users")
         /\ payload' = Append(payload, [b \in {Top} |-> r.rows])
  BY DEF CaptureOwner
<1>3. at \in 1..Len(Libs) /\ Len(payload) = at - 1 /\ payload \in Seq(Block)
  BY <1>1, Kept1, AdapterAssumption DEF CaptureTyped, CaptureAt
<1>4. r.how = "whole"
  BY <1>2 DEF ReadingEnds, Refused, Readings
<1>5. ~halted' /\ pc' = "users"
  BY <1>1, <1>2, <1>4 DEF ReadingEnds
<1>6. r.rows = Reads(Top, at)
  <2>1. CASE SrcOwner \in replay.filter
    <3>1. r \in Readings(SrcOwner, at) /\ SrcOwner \in Accounts
      BY <2>1 DEF Accounts
    <3>2. r.rows = LibraryRows(SrcOwner, at)
      BY <1>3, <1>4, <3>1, ReadingRows
    <3> QED BY <2>1, <3>2, WhoIsRead
  <2>2. CASE SrcOwner \notin replay.filter
    BY <2>2, WhoIsRead
  <2> QED BY <2>1, <2>2
<1> DEFINE block == [b \in {Top} |-> r.rows]
<1>7. DOMAIN block = {Top} /\ block[Top] = r.rows
  OBVIOUS
<1> HIDE DEF block
<1>8. /\ Len(payload') = at /\ payload'[at] = block
      /\ \A n \in 1..Len(payload) : payload'[n] = payload[n]
  BY <1>2, <1>3 DEF block
<1>9. Told(r.rows) = r.rows
  BY <1>6, ToldReads
<1>10. ListsRead'
  BY <1>0, <1>1, <1>5 DEF ListsRead
<1>11. BlocksRead'
  <2> SUFFICES ASSUME NEW n \in 1..Len(payload')
               PROVE  /\ DOMAIN payload'[n] = IF n = at THEN {Top} ELSE Blocks
                      /\ \A b \in DOMAIN payload'[n] : Told(payload'[n][b]) = Reads(b, n)
    <3>1. {Top} \cup (Managed \ left') = {Top}
      BY <1>0, <1>1 DEF ListsRead
    <3> QED BY <1>0, <1>1, <1>5, <3>1 DEF BlocksRead
  <2>1. CASE n = at
    BY <1>6, <1>7, <1>8, <1>9, <2>1
  <2>2. CASE n # at
    <3>1. n \in 1..Len(payload)
      BY <1>3, <1>8, <2>2
    <3> QED BY <1>1, <1>8, <2>2, <3>1 DEF BlocksRead
  <2> QED BY <2>1, <2>2
<1> QED
  BY <1>0, <1>5, <1>10, <1>11 DEF ReadInv

LEMMA CaptureUserReads == ReadsOn /\ CaptureUser => ReadInv'
<1> SUFFICES ASSUME ReadsOn, CaptureUser PROVE ReadInv'
  OBVIOUS
<1> USE DEF Steady, ReadsOn
<1>0. Managed' = Managed /\ Blocks' = Blocks /\ Direct' = Direct /\ \A b, n : Reads(b, n)' = Reads(b, n)
  BY SameReplay, SameReads
<1> DEFINE u == CHOOSE x \in left : TRUE
<1>1. /\ pc = "users" /\ ~halted /\ at' = at /\ left' = left \ {u}
      /\ lists' = lists /\ u \in left /\ ListsRead /\ BlocksRead
  BY DEF CaptureUser, ReadInv
<1>2. PICK r \in Readings(u, at) :
         /\ ReadingEnds(r) /\ pc' = (IF r.how = "raised" THEN "failed" ELSE "users")
         /\ payload' = [payload EXCEPT ![at] =
                           WithRows({u}, r.rows \cup Anchored(at, lists[u]), @)]
  BY DEF CaptureUser
<1> HIDE DEF u
<1>3. /\ u \in SrcUsers /\ u \in DOMAIN lists /\ at \in 1..Len(payload) /\ at \in 1..Len(Libs)
      /\ payload \in Seq(Block) /\ left \subseteq SrcUsers
  BY <1>1, Kept1, AdapterAssumption DEF CaptureTyped, CaptureAt
<1>4. u \in Managed /\ u # Top /\ u \in Accounts
  BY <1>1, <1>3, AdapterAssumption DEF ListsRead, Blocks, Accounts
<1>5. r.how = "whole"
  BY <1>2 DEF ReadingEnds, Refused, Readings
<1>6. ~halted' /\ pc' = "users"
  BY <1>1, <1>2, <1>5 DEF ReadingEnds
<1> DEFINE R == r.rows \cup Anchored(at, lists[u])
<1>7. r.rows = LibraryRows(u, at) /\ r.rows \subseteq AllRows
  BY <1>3, <1>4, <1>5, ReadingRows
<1>14. R \in SUBSET AllRows
  BY <1>3, <1>7, Kept1 DEF Anchored, CaptureTyped
<1>8. Told(R) = Reads(u, at)
  <2>1. Told(lists[u]) = {} /\ Told({}) = {}
    BY <1>1, <1>4 DEF ListsRead, Blocks, Told
  <2>2. Told(Anchored(at, lists[u])) = {}
    BY <2>1 DEF Anchored
  <2>3. Told(R) = Told(r.rows) \cup Told(Anchored(at, lists[u]))
    BY ToldUnion
  <2>4. r.rows = Reads(u, at)
    BY <1>4, <1>7, WhoIsRead
  <2> QED BY <2>2, <2>3, <2>4, ToldReads
<1>9. payload' = [payload EXCEPT ![at] = WithRows({u}, R, @)]
  BY <1>2
<1> HIDE DEF R
<1>10. /\ Len(payload') = Len(payload)
       /\ DOMAIN payload'[at] = {u} \cup DOMAIN payload[at]
       /\ \A x \in {u} : payload'[at][x] = R
       /\ \A x \in DOMAIN payload[at] \ {u} : payload'[at][x] = payload[at][x]
       /\ \A n \in 1..Len(payload) \ {at} : payload'[n] = payload[n]
  <2>1. {u} \in SUBSET (Accounts \cup {Top})
    BY <1>4
  <2> QED BY ONLY <1>3, <1>9, <1>14, <2>1, BlockPut
<1>11. ListsRead'
  BY <1>0, <1>1, <1>6 DEF ListsRead
<1>12. BlocksRead'
  <2> SUFFICES ASSUME NEW n \in 1..Len(payload)
               PROVE  /\ DOMAIN payload'[n] = IF n = at THEN {Top} \cup (Managed \ (left \ {u})) ELSE Blocks
                      /\ \A b \in DOMAIN payload'[n] : Told(payload'[n][b]) = Reads(b, n)
    BY <1>0, <1>1, <1>6, <1>10 DEF BlocksRead
  <2>1. CASE n = at
    <3>1. DOMAIN payload[n] = {Top} \cup (Managed \ left)
      BY <1>0, <1>1, <2>1 DEF BlocksRead
    <3>2. \A b \in DOMAIN payload'[n] : Told(payload'[n][b]) = Reads(b, n)
      BY <1>0, <1>1, <1>8, <1>10, <2>1 DEF BlocksRead
    <3> QED BY <1>4, <1>10, <2>1, <3>1, <3>2
  <2>2. CASE n # at
    <3>1. payload'[n] = payload[n]
      BY <1>10, <2>2
    <3> QED BY <1>1, <2>2, <3>1 DEF BlocksRead
  <2> QED BY <2>1, <2>2
<1> QED
  BY <1>0, <1>6, <1>11, <1>12 DEF ReadInv

LEMMA EndLibraryReads == ReadsOn /\ EndLibrary => ReadInv'
<1> SUFFICES ASSUME ReadsOn, EndLibrary PROVE ReadInv'
  OBVIOUS
<1> USE DEF Steady, ReadsOn
<1>0. Managed' = Managed /\ Blocks' = Blocks /\ Direct' = Direct /\ \A b, n : Reads(b, n)' = Reads(b, n)
  BY SameReplay, SameReads
<1> DEFINE R == payload[at][Top] \cup Anchored(at, lists[Top] \cup lists[SrcOwner])
           D == {Top, SrcOwner}
<1>1. /\ pc = "users" /\ pc' = "owner" /\ halted' = halted /\ ~halted /\ at' = at + 1 /\ left = {}
      /\ lists' = lists /\ left' = DOMAIN lists \ {Top, SrcOwner} /\ ListsRead /\ BlocksRead
      /\ payload' = [payload EXCEPT ![at] = WithRows(D, R, @)]
  BY DEF EndLibrary, ReadInv
<1>2. /\ at \in 1..Len(payload) /\ at \in 1..Len(Libs) /\ payload \in Seq(Block) /\ Len(payload) = at
      /\ Top \in DOMAIN payload[at] /\ SrcOwner \in Accounts
  BY <1>1, Kept1, AdapterAssumption DEF Accounts, CaptureTyped, CaptureAt
<1>3. R \in SUBSET AllRows
  <2>1. payload[at] \in Block
    BY <1>2
  <2>2. payload[at][Top] \in SUBSET AllRows
    BY <1>2, <2>1 DEF Block
  <2> QED
    BY <2>2, Kept1 DEF Anchored, CaptureTyped
<1>4. Told(R) = Reads(Top, at)
  <2>1. Told(payload[at][Top]) = Reads(Top, at)
    BY <1>0, <1>1, <1>2 DEF BlocksRead
  <2>2. Told(lists[Top]) = {} /\ Told(lists[SrcOwner]) = {} /\ Told({}) = {}
    BY <1>1 DEF ListsRead, Blocks, Told
  <2>3. Told(lists[Top] \cup lists[SrcOwner]) = {}
    BY <2>2, ToldUnion
  <2>4. Told(Anchored(at, lists[Top] \cup lists[SrcOwner])) = {}
    BY <2>2, <2>3 DEF Anchored
  <2>5. Told(R) = Told(payload[at][Top]) \cup Told(Anchored(at, lists[Top] \cup lists[SrcOwner]))
    BY ToldUnion
  <2> QED BY <2>1, <2>4, <2>5
<1> HIDE DEF R
<1>5. /\ Len(payload') = Len(payload)
      /\ DOMAIN payload'[at] = D \cup DOMAIN payload[at]
      /\ \A x \in D : payload'[at][x] = R
      /\ \A x \in DOMAIN payload[at] \ D : payload'[at][x] = payload[at][x]
      /\ \A n \in 1..Len(payload) \ {at} : payload'[n] = payload[n]
  <2>1. D \in SUBSET (Accounts \cup {Top})
    BY <1>2
  <2> HIDE DEF D
  <2> QED BY ONLY <1>1, <1>2, <1>3, <2>1, BlockPut
<1>6. left' = Managed
  BY <1>1, WhoIsRead DEF ListsRead, Blocks
<1>7. ListsRead'
  BY <1>0, <1>1, <1>6 DEF ListsRead
<1>8. BlocksRead'
  <2> SUFFICES ASSUME NEW n \in 1..Len(payload)
               PROVE  /\ DOMAIN payload'[n] = Blocks
                      /\ \A b \in DOMAIN payload'[n] : Told(payload'[n][b]) = Reads(b, n)
    BY <1>0, <1>1, <1>5 DEF BlocksRead
  <2>1. CASE n = at
    <3>1. DOMAIN payload[n] = {Top} \cup Managed
      BY <1>0, <1>1, <2>1 DEF BlocksRead
    <3>2. \A b \in D : Told(payload'[n][b]) = Reads(b, n)
      BY <1>4, <1>5, <2>1, WhoIsRead
    <3>3. \A b \in DOMAIN payload'[n] \ D : Told(payload'[n][b]) = Reads(b, n)
      <4> SUFFICES ASSUME NEW b \in DOMAIN payload'[n] \ D PROVE Told(payload'[n][b]) = Reads(b, n)
        OBVIOUS
      <4>1. b \in DOMAIN payload[n] \ D /\ payload'[n][b] = payload[n][b]
        BY <1>5, <2>1
      <4> QED BY <1>1, <4>1 DEF BlocksRead
    <3> QED BY <1>5, <2>1, <3>1, <3>2, <3>3 DEF Blocks
  <2>2. CASE n # at
    <3>1. payload'[n] = payload[n]
      BY <1>5, <2>2
    <3> QED BY <1>1, <2>2, <3>1 DEF BlocksRead
  <2> QED BY <2>1, <2>2
<1> QED
  BY <1>0, <1>1, <1>7, <1>8 DEF ReadInv

(* The other steps read nothing.                                           *)
LEMMA RestReads ==
    ASSUME ReadsOn, UNCHANGED <<lists, left, payload, halted>>, pc \notin {"lists", "users"},
           pc' \notin Capturing
    PROVE  ReadInv'
<1> USE DEF Steady, ReadsOn
<1>0. Managed' = Managed /\ Blocks' = Blocks /\ Direct' = Direct /\ \A b, n : Reads(b, n)' = Reads(b, n)
  BY SameReplay, SameReads
<1>1. ListsRead' /\ BlocksRead'
  BY <1>0 DEF ListsRead, BlocksRead, ReadInv, Capturing
<1> QED
  BY <1>0, <1>1 DEF ReadInv

LEMMA ReadStep == SweptInv /\ ReadInv /\ [ReplayNext]_replayVars => ReadInv'
<1> SUFFICES ASSUME SweptInv, ReadInv, [ReplayNext]_replayVars, Direct', undisturbed' PROVE ReadInv'
  BY DEF ReadInv
<1>1. replay' = replay
  BY DEF ReplayNext, replayVars, HaltReplay, ReadLists, CaptureOwner, CaptureUser, EndLibrary,
         EndCapture, Check, StartTop, StartUsers, ReplayRow, EndRows, StartReplaySweep, SweepOne, End
<1>2. undisturbed
  BY DEF ReplayNext, replayVars, HaltReplay, ReadLists, CaptureOwner, CaptureUser, EndLibrary,
         EndCapture, Check, StartTop, StartUsers, ReplayRow, EndRows, StartReplaySweep, SweepOne, End,
         ReadingEnds, WriteWatch, WriteRating, WriteList, Accepted, Refused
<1>3. ReadsOn
  BY <1>1, <1>2 DEF ReadsOn, Steady, SweptInv, Direct
<1>4. CASE ReadLists  BY <1>3, <1>4, ReadListsReads
<1>5. CASE CaptureOwner  BY <1>3, <1>5, CaptureOwnerReads
<1>6. CASE CaptureUser  BY <1>3, <1>6, CaptureUserReads
<1>7. CASE EndLibrary  BY <1>3, <1>7, EndLibraryReads
<1>8. CASE EndCapture  BY <1>3, <1>8, RestReads DEF EndCapture, Capturing
<1>9. CASE HaltReplay  BY <1>9 DEF HaltReplay
<1>10. CASE Check  BY <1>3, <1>10, RestReads DEF Check, Capturing
<1>11. CASE StartTop  BY <1>3, <1>11, RestReads DEF StartTop, Capturing
<1>12. CASE StartUsers  BY <1>3, <1>12, RestReads DEF StartUsers, Capturing
<1>13. CASE ReplayRow  BY <1>3, <1>13, RestReads DEF ReplayRow, Capturing
<1>14. CASE EndRows  BY <1>3, <1>14, RestReads DEF EndRows, Capturing
<1>15. CASE StartReplaySweep  BY <1>3, <1>15, RestReads DEF StartReplaySweep, Capturing, Replaying
<1>16. CASE SweepOne  BY <1>3, <1>16, RestReads DEF SweepOne, Capturing
<1>17. CASE End  BY <1>3, <1>17, RestReads DEF End, Capturing
<1>18. CASE UNCHANGED replayVars
  BY <1>1, <1>18, SameReplay, SameReads DEF replayVars, ReadInv, ListsRead, BlocksRead
<1> QED
  BY <1>4, <1>5, <1>6, <1>7, <1>8, <1>9, <1>10, <1>11, <1>12, <1>13, <1>14, <1>15, <1>16, <1>17,
     <1>18 DEF ReplayNext

(* What there is to replay: the whole history of each account that has a   *)
(* place to go, and from a file its playlists.                             *)
ListRow(l) == [kind |-> "playlists", name |-> l.name, smart |-> FALSE, items |-> l.items]
Filled ==
    /\ Len(payload) = Len(Libs)
    /\ \A n \in 1..Len(Libs) :
          /\ Told(BlockOf(n, Top)) =
                IF Direct /\ SrcOwner \in replay.filter THEN LibraryRows(SrcOwner, n) ELSE {}
          /\ \A u \in Chosen :
                Told(BlockOf(n, u)) =
                    IF u \in Accounts /\ (Direct => u \in Captured) THEN LibraryRows(u, n) ELSE {}
    /\ ~Direct /\ "playlists" \in replay.include /\ Len(Libs) # 0 =>
          \A u \in Accounts : \A l \in Listed(u) : ListRow(l) \in BlockOf(1, u)
FilledInv == undisturbed /\ pc \notin Capturing => ~halted /\ Filled

LEMMA ChosenAre == Top \notin Chosen \/ replay \notin Replays
BY AdapterAssumption DEF Chosen

LEMMA FileFilled == ReplayInit /\ ~Direct => Filled
<1> SUFFICES ASSUME ReplayInit, ~Direct PROVE Filled
  OBVIOUS
<1>1. payload = FromFile /\ replay \in Replays
  BY DEF ReplayInit
<1>2. /\ DOMAIN payload = 1..Len(Libs) /\ Len(Libs) \in Nat
      /\ \A n \in 1..Len(Libs) : DOMAIN payload[n] = Accounts
  BY <1>1, AdapterAssumption DEF FromFile
<1>3. Len(payload) = Len(Libs)
  BY <1>2
<1>4. \A n \in 1..Len(Libs) : \A u \in Accounts : Told(BlockOf(n, u)) = LibraryRows(u, n)
  <2> SUFFICES ASSUME NEW n \in 1..Len(Libs), NEW u \in Accounts
               PROVE  Told(BlockOf(n, u)) = LibraryRows(u, n)
    OBVIOUS
  <2> DEFINE ls == Anchored(n, ListRows(Unmarked(Listed(u))))
             cs == IF u = SrcOwner THEN Anchored(n, CollectionRows(Collections)) ELSE {}
             hs == WatchRows(u, n) \cup RatingRows(u, n)
  <2>1. payload[n][u] = (hs \cup ls) \cup cs
    BY <1>1, <1>2 DEF FromFile
  <2>2. Told(ls) = {} /\ Told(cs) = {}
    BY ToldIs DEF Anchored
  <2>3. Told(hs) = hs
    BY DEF Told, WatchRows, RatingRows, Histories
  <2>4. LibraryRows(u, n) = OfKinds(hs)
    BY DEF LibraryRows
  <2> HIDE DEF ls, cs, hs
  <2>5. Told(payload[n][u]) = hs
    <3>1. Told(hs \cup ls) = Told(hs) \cup Told(ls)
      BY ToldUnion
    <3>2. Told((hs \cup ls) \cup cs) = Told(hs \cup ls) \cup Told(cs)
      BY ToldUnion
    <3> QED BY <2>1, <2>2, <2>3, <3>1, <3>2
  <2>6. BlockOf(n, u) = OfKinds(payload[n][u])
    BY <1>2 DEF BlockOf
  <2> QED BY <2>4, <2>5, <2>6, ToldIs
<1>5. \A n \in 1..Len(Libs) : \A u : u \notin Accounts => Told(BlockOf(n, u)) = {}
  BY <1>2 DEF BlockOf, Told
<1>6. ASSUME "playlists" \in replay.include, Len(Libs) # 0, NEW u \in Accounts, NEW l \in Listed(u)
      PROVE  ListRow(l) \in BlockOf(1, u)
  <2>1. l \in Lists[u] /\ l = [name |-> l.name, smart |-> l.smart, items |-> l.items]
    BY AdapterAssumption DEF Listed
  <2> DEFINE m == [l EXCEPT !.smart = FALSE]
  <2>2. m.name = l.name /\ m.smart = FALSE /\ m.items = l.items
    BY <2>1
  <2>3. m \in Unmarked(Listed(u))
    BY DEF Unmarked
  <2> HIDE DEF m
  <2>4. ListRow(l) \in ListRows(Unmarked(Listed(u)))
    BY <2>2, <2>3 DEF ListRow, ListRows
  <2>5. 1 \in 1..Len(Libs)
    BY <1>2, <1>6
  <2>6. ListRow(l) \in payload[1][u]
    BY <1>1, <1>2, <2>4, <2>5 DEF FromFile, Anchored
  <2> QED BY <1>2, <1>6, <2>5, <2>6 DEF BlockOf, OfKinds, ListRow
<1>7. Top \notin Accounts
  BY AdapterAssumption
<1> QED
  BY <1>3, <1>4, <1>5, <1>6, <1>7 DEF Filled

LEMMA CaptureFilled ==
    ASSUME SweptInv, ReadInv, Direct, undisturbed, Len(payload) = Len(Libs), pc # "users"
    PROVE  Filled
<1>1. /\ payload \in Seq(Block) /\ BlocksRead /\ replay \in Replays
  BY DEF SweptInv, CaptureInv, CaptureTyped, ReadInv
<1>2. \A n \in 1..Len(Libs) : DOMAIN payload[n] = Blocks
                              /\ \A b \in Blocks : Told(payload[n][b]) = Reads(b, n)
  BY <1>1 DEF BlocksRead
<1>3. \A b, n : OfKinds(Reads(b, n)) = Reads(b, n)
  BY ToldIs DEF Reads, LibraryRows, OfKinds
<1>4. \A n \in 1..Len(Libs) : \A b \in Blocks : Told(BlockOf(n, b)) = Reads(b, n)
  BY <1>2, <1>3, ToldIs DEF BlockOf
<1>5. \A n \in 1..Len(Libs) : \A b : b \notin Blocks => Told(BlockOf(n, b)) = {}
  BY <1>2 DEF BlockOf, Told
<1>6. Top \in Blocks /\ SrcOwner \in Blocks /\ Managed \subseteq Blocks
  BY DEF Blocks
<1>7. ASSUME NEW n \in 1..Len(Libs), NEW u \in Chosen
      PROVE  Told(BlockOf(n, u)) =
                 IF u \in Accounts /\ (Direct => u \in Captured) THEN LibraryRows(u, n) ELSE {}
  <2>1. u \in replay.filter /\ u # Top
    BY <1>1, AdapterAssumption DEF Chosen
  <2>2. CASE u \in Blocks
    <3>1. u \in Captured /\ u \in Accounts
      BY <2>1, <2>2, WhoIsRead DEF Blocks, Accounts
    <3>2. Reads(u, n) = LibraryRows(u, n)
      BY <2>1, <3>1 DEF Reads
    <3> QED BY <1>4, <2>2, <3>1, <3>2
  <2>3. CASE u \notin Blocks
    <3>1. u \notin Captured
      BY <2>3 DEF Captured, Blocks
    <3> QED BY <1>5, <2>3, <3>1
  <2> QED BY <2>2, <2>3
<1> QED
  BY <1>4, <1>6, <1>7, WhoIsRead DEF Filled

LEMMA SameFilled == replay' = replay /\ payload' = payload => Filled' = Filled
<1> SUFFICES ASSUME replay' = replay, payload' = payload PROVE Filled' = Filled
  OBVIOUS
<1>1. \A u, n : LibraryRows(u, n)' = LibraryRows(u, n)
  BY SameReplay
<1>2. \A n, b : BlockOf(n, b)' = BlockOf(n, b)
  BY DEF BlockOf, OfKinds
<1>3. Direct' = Direct /\ Captured' = Captured /\ Chosen' = Chosen
  BY SameReplay DEF Chosen, Drop
<1>4. \A u : Listed(u)' = Listed(u)
  BY DEF Listed
<1> QED
  BY <1>1, <1>2, <1>3, <1>4 DEF Filled

LEMMA FillBegins == ReplayInit => ReadInv /\ FilledInv
<1> SUFFICES ASSUME ReplayInit PROVE ReadInv /\ FilledInv
  OBVIOUS
<1>1. ReadInv
  BY AdapterAssumption DEF ReplayInit, ReadInv, ListsRead, BlocksRead
<1>2. FilledInv
  BY FileFilled DEF ReplayInit, FilledInv, Capturing
<1> QED
  BY <1>1, <1>2

LEMMA PastCapture ==
    ASSUME [ReplayNext]_replayVars
    PROVE  /\ replay' = replay /\ (undisturbed' => undisturbed /\ (halted' => halted))
           /\ pc \notin Capturing => pc' \notin Capturing /\ payload' = payload
<1>1. replay' = replay
  BY DEF ReplayNext, replayVars, HaltReplay, ReadLists, CaptureOwner, CaptureUser, EndLibrary,
         EndCapture, Check, StartTop, StartUsers, ReplayRow, EndRows, StartReplaySweep, SweepOne, End
<1>2. undisturbed' => undisturbed /\ (halted' => halted)
  BY DEF ReplayNext, replayVars, HaltReplay, ReadLists, CaptureOwner, CaptureUser, EndLibrary,
         EndCapture, Check, StartTop, StartUsers, ReplayRow, EndRows, StartReplaySweep, SweepOne, End,
         ReadingEnds, WriteWatch, WriteRating, WriteList, Accepted, Refused
<1>3. pc \notin Capturing => pc' \notin Capturing /\ payload' = payload
  BY DEF ReplayNext, replayVars, HaltReplay, ReadLists, CaptureOwner, CaptureUser, EndLibrary,
         EndCapture, Check, StartTop, StartUsers, ReplayRow, EndRows, StartReplaySweep, SweepOne, End,
         Capturing
<1> QED
  BY <1>1, <1>2, <1>3

LEMMA FillStep ==
    SweptInv /\ SweptInv' /\ ReadInv /\ FilledInv /\ [ReplayNext]_replayVars => ReadInv' /\ FilledInv'
<1> SUFFICES ASSUME SweptInv, SweptInv', ReadInv, FilledInv, [ReplayNext]_replayVars
             PROVE  ReadInv' /\ FilledInv'
  OBVIOUS
<1>1. ReadInv'
  BY ReadStep
<1>2. ASSUME undisturbed', pc' \notin Capturing PROVE ~halted' /\ Filled'
  <2>1. CASE pc \notin Capturing
    BY <1>2, <2>1, PastCapture, SameFilled DEF FilledInv
  <2>2. CASE pc \in Capturing
    <3>1. Direct /\ undisturbed /\ ~halted /\ CaptureInv
      BY <1>2, <2>2, PastCapture DEF SweptInv, ReadInv
    <3>2. pc = "owner" /\ pc' = "check" /\ payload' = payload /\ replay' = replay /\ at > Len(Libs)
      <4>1. EndCapture
        BY <1>2, <2>2 DEF ReplayNext, replayVars, HaltReplay, ReadLists, CaptureOwner, CaptureUser,
               EndLibrary, Check, StartTop, StartUsers, ReplayRow, EndRows, StartReplaySweep,
               SweepOne, End, ReadingEnds, Refused, Capturing, Replaying
      <4> QED BY <3>1, <4>1 DEF EndCapture
    <3>3. Len(payload) = Len(Libs)
      BY <3>1, <3>2, AdapterAssumption DEF CaptureInv, CaptureTyped, CaptureAt
    <3>4. Filled
      BY <3>1, <3>2, <3>3, CaptureFilled
    <3> QED BY <1>2, <3>1, <3>2, <3>4, SameFilled, PastCapture
  <2> QED BY <2>1, <2>2
<1> QED
  BY <1>1, <1>2 DEF FilledInv

(* The calls of a library's replay, in a run to another kind of server     *)
(* than Plex: those of its top, then those of its users' blocks.           *)
TopTasks(n) == Work(Top, DstOwner, BlockOf(n, Top))
UserTasks(n) ==
    IF replay.fanout
    THEN UNION {Work(u, AccountFor(u, Visible), BlockOf(n, u)) :
                    u \in {x \in Chosen : AccountFor(x, Visible) # Nobody}}
    ELSE {}

(* What an account is given is the history of an account that feeds it.    *)
Sent(u, i) == History[u][i].plays > 0 \/ (Overwrites /\ Begun(u, i))
RowFrom(r, u) ==
    /\ r.item \in Known
    /\ r.kind = "watch" => r.plays = History[u][r.item].plays /\ Sent(u, r.item)
    /\ r.kind = "ratings" => r.stars = History[u][r.item].stars

LEMMA HistoryRow ==
    ASSUME NEW u, NEW n, NEW r \in LibraryRows(u, n), r.item \in Known,
           r.kind = "watch" => r.plays > 0 \/ Overwrites
    PROVE  RowFrom(r, u)
<1>1. CASE r \in WatchRows(u, n)
  BY <1>1 DEF WatchRows, RowFrom, Sent, Begun
<1>2. CASE r \in RatingRows(u, n)
  BY <1>2 DEF RatingRows, RowFrom
<1> QED
  BY <1>1, <1>2 DEF LibraryRows, OfKinds

LEMMA WorkIs ==
    ASSUME replay \in Replays, PayloadOk, ~ToPlex, NEW n \in DOMAIN payload, NEW b, NEW d,
           NEW t \in Work(b, d, BlockOf(n, b)), t.row.kind \in Histories
    PROVE  /\ t.to = d /\ t.row \in Told(BlockOf(n, b)) /\ t.row.item \in Known
           /\ t.row.kind = "watch" => t.row.plays > 0 \/ Overwrites
<1>1. t.to = d /\ t.row \in Writable(BlockOf(n, b))
  BY DEF Work
<1>2. \A x \in BlockOf(n, b) : RowOk(x) /\ (x.kind = "playlists" => x.name \in PayloadTitles)
  <2> SUFFICES ASSUME NEW x \in BlockOf(n, b)
               PROVE  RowOk(x) /\ (x.kind = "playlists" => x.name \in PayloadTitles)
    OBVIOUS
  <2>1. b \in DOMAIN payload[n] /\ x \in payload[n][b]
    BY DEF BlockOf, OfKinds
  <2> QED BY <2>1 DEF PayloadOk, PayloadTitles
<1>3. ~ \E x \in BlockOf(n, b) : x.kind = "playlists" /\ t.row \in Unmixed(x)
  BY <1>2, UnmixedNamed DEF Histories
<1>4. ASSUME NEW x \in BlockOf(n, b), x.kind = "collections", t.row = Prefixed(x) PROVE FALSE
  <2>1. x = [kind |-> "collections", name |-> x.name, home |-> x.home, items |-> x.items]
    BY <1>2, <1>4 DEF RowOk
  <2>2. t.row.kind = "collections"
    BY <1>4, <2>1 DEF Prefixed
  <2> QED BY <2>2 DEF Histories
<1>5. /\ t.row \in BlockOf(n, b) /\ t.row.item \in Known
      /\ t.row.kind = "watch" => t.row.plays > 0 \/ Overwrites
  BY <1>1, <1>3, <1>4 DEF Writable
<1> QED
  BY <1>1, <1>5 DEF Told

LEMMA TasksRight ==
    ASSUME replay \in Replays, PayloadOk, Filled, ~ToPlex, NEW n \in 1..Len(Libs),
           NEW t \in TopTasks(n) \cup UserTasks(n), t.row.kind \in Histories
    PROVE  \E u \in Feeders(t.to) : RowFrom(t.row, u)
<1>1. n \in DOMAIN payload
  BY DEF Filled, PayloadOk
<1>2. CASE t \in TopTasks(n)
  <2>1. /\ t.to = DstOwner /\ t.row \in Told(BlockOf(n, Top)) /\ t.row.item \in Known
        /\ t.row.kind = "watch" => t.row.plays > 0 \/ Overwrites
    BY <1>1, <1>2, WorkIs DEF TopTasks
  <2>2. Direct /\ SrcOwner \in replay.filter /\ t.row \in LibraryRows(SrcOwner, n)
    BY <2>1 DEF Filled
  <2>3. RowFrom(t.row, SrcOwner)
    BY <2>1, <2>2, HistoryRow
  <2>4. SrcOwner \in Feeders(t.to)
    BY <2>1, <2>2 DEF Feeders, Accounts
  <2> QED BY <2>3, <2>4
<1>3. CASE t \in UserTasks(n)
  <2>1. replay.fanout
    BY <1>3 DEF UserTasks
  <2>2. PICK u \in Chosen : t \in Work(u, AccountFor(u, Visible), BlockOf(n, u))
    BY <1>3 DEF UserTasks
  <2>3. /\ t.to = AccountFor(u, Visible) /\ t.row \in Told(BlockOf(n, u)) /\ t.row.item \in Known
        /\ t.row.kind = "watch" => t.row.plays > 0 \/ Overwrites
    BY <1>1, <2>2, WorkIs
  <2>4. u \in Accounts /\ (Direct => u \in Captured) /\ t.row \in LibraryRows(u, n)
    BY <2>3 DEF Filled
  <2>5. RowFrom(t.row, u)
    BY <2>3, <2>4, HistoryRow
  <2>6. u \in Feeders(t.to)
    BY <2>1, <2>3, <2>4 DEF Feeders
  <2> QED BY <2>5, <2>6
<1> QED
  BY <1>2, <1>3

(* And all that is to be given is among the calls.                         *)
LEMMA RowIsTask ==
    ASSUME replay \in Replays, Filled, ~ToPlex, NEW n \in 1..Len(Libs), NEW d \in DstUsers,
           NEW u \in Feeders(d), NEW r \in LibraryRows(u, n), r.item \in Known,
           r.kind = "watch" => r.plays > 0 \/ Overwrites
    PROVE  \E t \in TopTasks(n) \cup UserTasks(n) : t.to = d /\ t.row = r
<1>1. r.kind \in Histories
  BY DEF LibraryRows, OfKinds, WatchRows, RatingRows, Histories
<1>2. \A b : r \in Told(BlockOf(n, b)) => r \in Writable(BlockOf(n, b))
  BY <1>1 DEF Told, Writable, Histories
<1>3. CASE Direct /\ u = SrcOwner /\ u \in replay.filter /\ d = DstOwner
  <2>1. r \in Told(BlockOf(n, Top))
    BY <1>3 DEF Filled
  <2> DEFINE t == [from |-> Top, to |-> DstOwner, row |-> r]
  <2>2. t \in TopTasks(n)
    BY <1>2, <2>1 DEF TopTasks, Work
  <2>3. t.to = d /\ t.row = r
    BY <1>3
  <2> QED BY <2>2, <2>3
<1>4. CASE replay.fanout /\ u \in Chosen /\ (Direct => u \in Captured) /\ AccountFor(u, Visible) = d
  <2>1. r \in Told(BlockOf(n, u))
    BY <1>4 DEF Filled, Feeders
  <2>2. d # Nobody
    BY AdapterAssumption
  <2> DEFINE t == [from |-> u, to |-> d, row |-> r]
  <2>3. t \in Work(u, d, BlockOf(n, u))
    BY <1>2, <2>1 DEF Work
  <2>4. t \in UserTasks(n)
    BY <1>4, <2>2, <2>3 DEF UserTasks
  <2>5. t.to = d /\ t.row = r
    OBVIOUS
  <2> QED BY <2>4, <2>5
<1> QED
  BY <1>3, <1>4 DEF Feeders

(* A playlist of a file, of one family of media.                           *)
LEMMA ListIsTask ==
    ASSUME replay \in Replays, PayloadOk, Filled, ~ToPlex, ~Direct, "playlists" \in replay.include,
           NEW d \in DstUsers, NEW u \in Feeders(d), NEW l \in Listed(u),
           l.items \cap Known # {}, l.items \subseteq Audio \/ l.items \cap Audio = {}
    PROVE  /\ 1 \in 1..Len(Libs) /\ l.name \in PayloadTitles
           /\ \E t \in UserTasks(1) : t.to = d /\ t.row = ListRow(l)
<1>1. 1 \in 1..Len(Libs) /\ Len(Libs) # 0
  <2>1. PICK i \in MediaItems : i \in l.items
    BY AdapterAssumption
  <2>2. Len(Libs) \in Nat /\ DOMAIN Libs = 1..Len(Libs) /\ DOMAIN Libs # {}
    BY <2>1, AdapterAssumption
  <2> QED BY <2>2
<1>2. u \in Accounts /\ replay.fanout /\ u \in Chosen /\ AccountFor(u, Visible) = d
  BY DEF Feeders
<1> DEFINE r == ListRow(l)
<1>3. r \in BlockOf(1, u)
  BY <1>1, <1>2 DEF Filled
<1>4. r.kind = "playlists" /\ r.name = l.name /\ r.smart = FALSE /\ r.items = l.items
  BY DEF ListRow
<1> HIDE DEF r
<1>5. l.name \in PayloadTitles
  <2>1. u \in DOMAIN payload[1] /\ r \in payload[1][u] /\ 1 \in DOMAIN payload
    BY <1>1, <1>3 DEF BlockOf, OfKinds, Filled, PayloadOk
  <2> QED BY <1>4, <2>1 DEF PayloadTitles
<1>6. r \in Unmixed(r)
  <2>1. r.items \cap Audio = {} \/ r.items \ Audio = {}
    BY <1>4
  <2>2. Cardinality(r.items \cap Audio) = 0 \/ Cardinality(r.items \ Audio) = 0
    BY <2>1, FS_EmptySet
  <2> QED BY <1>4, <2>2 DEF Unmixed
<1>7. r \in Writable(BlockOf(1, u))
  BY <1>3, <1>4, <1>6 DEF Writable
<1> DEFINE t == [from |-> u, to |-> d, row |-> r]
<1>8. t \in Work(u, d, BlockOf(1, u))
  BY <1>7 DEF Work
<1>9. d # Nobody
  BY AdapterAssumption
<1>10. t \in UserTasks(1)
  BY <1>2, <1>8, <1>9 DEF UserTasks
<1>11. t.to = d /\ t.row = r
  OBVIOUS
<1> QED
  BY <1>1, <1>5, <1>10, <1>11 DEF r

(* Who has which account, as a function of the settings.                   *)
AccountIn(s, direct, u, seen) ==
    LET By(f) == {f[x] : x \in {u} \cap DOMAIN f} \cap seen
        admins == s.admins \cap seen
        Finds == <<By(s.map),
                   IF direct THEN By(s.links) ELSE {},
                   IF s.strict THEN {} ELSE By(s.named),
                   IF ~s.strict /\ u = SrcOwner /\ Cardinality(admins) = 1
                   THEN admins ELSE {}>>
        hits == {n \in DOMAIN Finds : Finds[n] # {}}
    IN IF hits = {} THEN Nobody
       ELSE CHOOSE d \in Finds[CHOOSE n \in hits : \A k \in hits : n <= k] : TRUE

LEMMA AccountIs ==
    /\ \A u : AccountFor(u, Visible) = AccountIn(replay, Direct, u, Visible)
    /\ \A u : AccountFor(u, Visible)' = AccountIn(replay', Direct', u, Visible')
<1>1. \A u : AccountFor(u, Visible) = AccountIn(replay, Direct, u, Visible)
  BY DEF AccountFor, AccountIn, Map
<1>2. \A u : AccountFor(u, Visible)' = AccountIn(replay', Direct', u, Visible')
  BY DEF AccountFor, AccountIn, Map
<1> QED
  BY <1>1, <1>2

LEMMA SameAccounts ==
    replay' = replay => /\ Visible' = Visible
                        /\ \A u : AccountFor(u, Visible)' = AccountFor(u, Visible)
                        /\ \A d : Feeders(d)' = Feeders(d)
<1> SUFFICES ASSUME replay' = replay
             PROVE  /\ Visible' = Visible
                    /\ \A u : AccountFor(u, Visible)' = AccountFor(u, Visible)
                    /\ \A d : Feeders(d)' = Feeders(d)
  OBVIOUS
<1>1. Visible' = Visible
  BY DEF Visible
<1>2. \A u : AccountFor(u, Visible)' = AccountFor(u, Visible)
  BY <1>1, AccountIs, SameReplay
<1>3. Direct' = Direct /\ Captured' = Captured /\ Chosen' = Chosen
  BY SameReplay DEF Chosen, Drop
<1>4. \A d : Feeders(d)' = Feeders(d)
  BY <1>2, <1>3 DEF Feeders
<1> QED
  BY <1>1, <1>2, <1>4

LEMMA SameTasks ==
    ASSUME replay' = replay, payload' = payload
    PROVE  /\ \A n : TopTasks(n)' = TopTasks(n) /\ UserTasks(n)' = UserTasks(n)
           /\ Blocked(Visible, DstUsers \cap replay.hidden)' = Blocked(Visible, DstUsers \cap replay.hidden)
<1>1. \A n, b : BlockOf(n, b)' = BlockOf(n, b)
  BY DEF BlockOf, OfKinds
<1>2. \A S : Writable(S)' = Writable(S)
  <2>1. ToPlex' = ToPlex /\ Overwrites' = Overwrites /\ Direct' = Direct
    BY DEF ToPlex, Overwrites, Direct
  <2>2. \A x : Unmixed(x)' = Unmixed(x)
    BY <2>1 DEF Unmixed
  <2>3. \A x : Prefixed(x)' = Prefixed(x)
    BY <2>1 DEF Prefixed
  <2> QED BY <2>1, <2>2, <2>3 DEF Writable
<1>3. \A u, d, S : Work(u, d, S)' = Work(u, d, S)
  BY <1>2 DEF Work, ToPlex
<1>4. Chosen' = Chosen
  BY DEF Chosen, Drop
<1>5. \A n : TopTasks(n)' = TopTasks(n)
  BY <1>1, <1>3 DEF TopTasks
<1>6. \A n : UserTasks(n)' = UserTasks(n)
  <2> SUFFICES ASSUME NEW n PROVE UserTasks(n)' = UserTasks(n)
    OBVIOUS
  <2> DEFINE CallsOf(u) == Work(u, AccountFor(u, Visible), BlockOf(n, u))
             Placed == {x \in Chosen : AccountFor(x, Visible) # Nobody}
  <2>1. \A u : CallsOf(u)' = CallsOf(u)
    BY <1>1, <1>3, SameAccounts
  <2>2. Placed' = Placed
    BY <1>4, SameAccounts
  <2>3. UserTasks(n) = (IF replay.fanout THEN UNION {CallsOf(u) : u \in Placed} ELSE {})
    BY DEF UserTasks
  <2>4. UserTasks(n)' = (IF replay.fanout THEN UNION {CallsOf(u) : u \in Placed} ELSE {})'
    BY DEF UserTasks
  <2> HIDE DEF CallsOf, Placed
  <2> QED BY <2>1, <2>2, <2>3, <2>4
<1>7. Blocked(Visible, DstUsers \cap replay.hidden)' = Blocked(Visible, DstUsers \cap replay.hidden)
  BY <1>1, <1>4, SameAccounts DEF Blocked, HasRows
<1> QED
  BY <1>5, <1>6, <1>7

(* A call that was made has left what it was to leave; one that is made    *)
(* twice, from the top and from the owner's block, leaves the same.        *)
HasLanded(t) ==
    /\ t.row.kind = "watch" /\ t.to \in DstUsers =>
          \A u \in Accounts : Feeders(t.to) = {u} =>
              plays[t.to][t.row.item] = History[u][t.row.item].plays
    /\ t.row.kind = "ratings" /\ t.to \in DstUsers /\ t.row.stars > 0 =>
          \A u \in Accounts : Feeders(t.to) = {u} =>
              stars[t.to][t.row.item] = History[u][t.row.item].stars
    /\ t.row.kind = "playlists" /\ t.row.name \in PayloadTitles =>
          \E b \in containers : /\ b.owner = t.to /\ b.id \in made /\ b.name = t.row.name
                                /\ b.items = t.row.items \cap Known

(* An account shows what it had, or what an account that feeds it has.     *)
Shows ==
    /\ plays \in [DstUsers -> [MediaItems -> Nat]] /\ stars \in [DstUsers -> [MediaItems -> Nat]]
    /\ \A d \in DstUsers :
          /\ Feeders(d) = {} => plays[d] = Plays0[d] /\ \A i \in MediaItems : stars[d][i] = 0
          /\ \A u \in Accounts, i \in MediaItems : Feeders(d) = {u} =>
                /\ plays[d][i] = Plays0[d][i] \/ (Sent(u, i) /\ plays[d][i] = History[u][i].plays)
                /\ stars[d][i] \in {0, History[u][i].stars}

(* The calls whose turn has come, and those of them that are still to make.*)
TopOn(n) == n < at \/ (n = at /\ pc \in {"topRows", "blocks", "userRows"})
UsersOn(n) == n < at \/ (n = at /\ pc = "userRows")
ToCall == IF pc \in {"topRows", "userRows"} THEN pending ELSE {}
Settled(t) == HasLanded(t) \/ t \in ToCall
CallsMade ==
    \A n \in 1..Len(payload) : /\ TopOn(n) => \A t \in TopTasks(n) : Settled(t)
                               /\ UsersOn(n) => \A t \in UserTasks(n) : Settled(t)
Underway == Replaying \cup {"sweep", "done"}
LandInv ==
    undisturbed /\ ~ToPlex =>
        /\ Shows /\ (pc = "check" => at = 1)
        /\ pc \in Underway =>
              /\ ~Blocked(Visible, DstUsers \cap replay.hidden) /\ CallsMade
              /\ ToCall \subseteq UNION {TopTasks(n) \cup UserTasks(n) : n \in 1..Len(payload)}
        /\ pc \in {"sweep", "done"} => at > Len(payload)

LEMMA LandBegins == ReplayInit => LandInv
<1> SUFFICES ASSUME ReplayInit PROVE LandInv
  OBVIOUS
<1>1. /\ plays = Plays0 /\ stars = [d \in DstUsers |-> [i \in MediaItems |-> 0]] /\ at = 1
      /\ pc \in {"lists", "check"}
  BY DEF ReplayInit
<1>2. Shows
  BY <1>1, AdapterAssumption DEF Shows
<1> QED
  BY <1>1, <1>2 DEF LandInv, Underway, Replaying

(* In each step lemma nothing disturbs the run.                            *)
Landing ==
    /\ SweptInv /\ SweptInv' /\ ReadInv /\ FilledInv /\ LandInv /\ [ReplayNext]_replayVars
    /\ undisturbed /\ undisturbed' /\ ~ToPlex

LEMMA SameLanding ==
    ASSUME Landing
    PROVE  /\ replay' = replay /\ ~ToPlex' /\ Shows /\ replay \in Replays
           /\ \A d : Feeders(d)' = Feeders(d)
           /\ \A u, i : Sent(u, i)' = Sent(u, i)
<1>1. replay' = replay
  BY PastCapture DEF Landing
<1>2. \A u, i : Sent(u, i)' = Sent(u, i)
  BY <1>1 DEF Sent, Begun, Overwrites, Direct
<1> QED
  BY <1>1, <1>2, SameAccounts DEF Landing, LandInv, ToPlex, SweptInv

LEMMA ShowsStays ==
    ASSUME Landing, plays' = plays, stars' = stars
    PROVE  Shows'
BY SameLanding DEF Shows

LEMMA LandedStays ==
    ASSUME Landing, plays' = plays, stars' = stars, payload' = payload, containers \subseteq containers',
           made \subseteq made', NEW t, HasLanded(t)
    PROVE  HasLanded(t)'
BY SameLanding, SamePayload DEF HasLanded

(* The steps before the first write.                                       *)
LEMMA EarlyLands ==
    ASSUME Landing, pc' \in Capturing \cup {"failed"}, plays' = plays, stars' = stars
    PROVE  LandInv'
BY ShowsStays DEF LandInv, Underway, Replaying, Capturing

LEMMA EndCaptureLands ==
    ASSUME Landing, EndCapture PROVE LandInv'
BY ShowsStays DEF LandInv, Underway, Replaying, EndCapture, destination

LEMMA CheckLands ==
    ASSUME Landing, Check PROVE LandInv'
<1>1. /\ pc = "check" /\ at = 1 /\ at' = at /\ payload' = payload /\ replay' = replay
      /\ plays' = plays /\ stars' = stars
      /\ pc' = IF Blocked(Visible, DstUsers \cap replay.hidden) THEN "failed" ELSE "top"
  BY DEF Landing, LandInv, Check, Refused, destination
<1>2. Shows'
  BY <1>1, ShowsStays
<1>3. pc' = "top" => ~Blocked(Visible, DstUsers \cap replay.hidden)'
  BY <1>1, SameTasks
<1>4. pc' = "top" => CallsMade' /\ ToCall' = {}
  BY <1>1 DEF CallsMade, ToCall, TopOn, UsersOn
<1> QED
  BY <1>1, <1>2, <1>3, <1>4 DEF LandInv, Underway, Replaying

(* The steps between two calls.                                            *)
LEMMA Between ==
    ASSUME Landing, pc \in Underway
    PROVE  /\ pc \notin Capturing /\ Filled /\ PayloadOk /\ payload' = payload /\ CallsMade
           /\ ~Blocked(Visible, DstUsers \cap replay.hidden)
           /\ ToCall \subseteq UNION {TopTasks(n) \cup UserTasks(n) : n \in 1..Len(payload)}
           /\ at \in Nat \ {0} /\ Len(payload) \in Nat
<1>1. pc \notin Capturing
  BY DEF Underway, Replaying, Capturing
<1> QED
  BY <1>1, PastCapture, PayloadIsOk DEF Landing, FilledInv, LandInv, SweptInv, LeftToWrite, PayloadOk

LEMMA NextCalls ==
    ASSUME Landing, pc \in Underway, UNCHANGED <<plays, stars, containers, made>>,
           \A n \in 1..Len(payload) :
               /\ TopOn(n)' => TopOn(n) \/ TopTasks(n) \subseteq ToCall'
               /\ UsersOn(n)' => UsersOn(n) \/ UserTasks(n) \subseteq ToCall',
           ToCall = {},
           \/ ToCall' = {}
           \/ \E n \in 1..Len(payload) : ToCall' \subseteq TopTasks(n) \cup UserTasks(n),
           pc' \in {"sweep", "done"} => at' > Len(payload), pc' # "check"
    PROVE  LandInv'
<1>1. /\ replay' = replay /\ payload' = payload /\ CallsMade
      /\ ~Blocked(Visible, DstUsers \cap replay.hidden)
  BY Between, SameLanding
<1>2. Shows'
  BY ShowsStays
<1>3. \A n : TopTasks(n)' = TopTasks(n) /\ UserTasks(n)' = UserTasks(n)
  BY <1>1, SameTasks
<1>4. ~Blocked(Visible, DstUsers \cap replay.hidden)'
  BY <1>1, SameTasks
<1>5. \A t : HasLanded(t) => HasLanded(t)'
  BY <1>1, LandedStays
<1>6. CallsMade'
  <2> SUFFICES ASSUME NEW n \in 1..Len(payload)
               PROVE  /\ TopOn(n)' => \A t \in TopTasks(n) : Settled(t)'
                      /\ UsersOn(n)' => \A t \in UserTasks(n) : Settled(t)'
    BY <1>1, <1>3 DEF CallsMade
  <2>1. \A t : Settled(t) => HasLanded(t)'
    BY <1>5 DEF Settled
  <2>2. \A t : HasLanded(t)' \/ t \in ToCall' => Settled(t)'
    BY DEF Settled
  <2>3. TopOn(n) => \A t \in TopTasks(n) : Settled(t)
    BY <1>1 DEF CallsMade
  <2>4. UsersOn(n) => \A t \in UserTasks(n) : Settled(t)
    BY <1>1 DEF CallsMade
  <2> QED BY <2>1, <2>2, <2>3, <2>4
<1>7. (ToCall \subseteq UNION {TopTasks(n) \cup UserTasks(n) : n \in 1..Len(payload)})'
  BY <1>1, <1>3
<1> QED
  BY <1>1, <1>2, <1>4, <1>6, <1>7 DEF LandInv

LEMMA StartTopLands ==
    ASSUME Landing, StartTop PROVE LandInv'
<1>1. /\ pc = "top" /\ pc' = "topRows" /\ at' = at /\ at <= Len(payload)
      /\ pending' = TopTasks(at) /\ UNCHANGED <<plays, stars, containers, made>>
  BY DEF StartTop, TopTasks, destination
<1>2. pc \in Underway
  BY <1>1 DEF Underway, Replaying
<1>3. at \in 1..Len(payload)
  BY <1>1, <1>2, Between
<1>4. ToCall = {} /\ ToCall' = TopTasks(at)
  BY <1>1 DEF ToCall
<1>5. \A n \in 1..Len(payload) : /\ TopOn(n)' => TopOn(n) \/ n = at
                                 /\ UsersOn(n)' => UsersOn(n)
  BY <1>1 DEF TopOn, UsersOn
<1> QED
  BY <1>1, <1>2, <1>3, <1>4, <1>5, NextCalls

LEMMA StartUsersLands ==
    ASSUME Landing, StartUsers PROVE LandInv'
<1>1. /\ pc = "blocks" /\ pc' = "userRows" /\ at' = at
      /\ pending' = UserTasks(at) /\ UNCHANGED <<plays, stars, containers, made>>
  BY DEF Landing, StartUsers, UserTasks, Refused, destination
<1>2. pc \in Underway
  BY <1>1 DEF Underway, Replaying
<1>3. at \in 1..Len(payload)
  BY <1>1, <1>2, Between DEF Landing, SweptInv, LeftToWrite
<1>4. ToCall = {} /\ ToCall' = UserTasks(at)
  BY <1>1 DEF ToCall
<1>5. \A n \in 1..Len(payload) : /\ TopOn(n)' => TopOn(n)
                                 /\ UsersOn(n)' => UsersOn(n) \/ n = at
  BY <1>1 DEF TopOn, UsersOn
<1> QED
  BY <1>1, <1>2, <1>3, <1>4, <1>5, NextCalls

LEMMA EndRowsLands ==
    ASSUME Landing, EndRows PROVE LandInv'
<1>1. /\ pc \in {"topRows", "userRows"} /\ pending = {}
      /\ UNCHANGED <<plays, stars, containers, made>>
      /\ \/ pc = "topRows" /\ pc' = "blocks" /\ at' = at
         \/ pc = "userRows" /\ pc' = "top" /\ at' = at + 1
  BY DEF EndRows, destination
<1>2. pc \in Underway
  BY <1>1 DEF Underway, Replaying
<1>3. at \in Nat
  BY <1>2, Between
<1>4. ToCall = {} /\ ToCall' = {}
  BY <1>1 DEF ToCall
<1>5. \A n \in 1..Len(payload) : TopOn(n)' => TopOn(n)
  BY <1>1, <1>3 DEF TopOn
<1>6. \A n \in 1..Len(payload) : UsersOn(n)' => UsersOn(n)
  BY <1>1, <1>3 DEF UsersOn
<1> QED
  BY <1>1, <1>2, <1>4, <1>5, <1>6, NextCalls

LEMMA StartSweepLands ==
    ASSUME Landing, StartReplaySweep PROVE LandInv'
<1>1. pc \in Replaying /\ pc' = "sweep" /\ at' = at /\ UNCHANGED <<plays, stars, containers, made>>
  BY DEF StartReplaySweep, destination
<1>2. pc \in Underway
  BY <1>1 DEF Underway
<1>3. ~halted
  BY <1>2, Between DEF Landing, FilledInv
<1>4. pc = "top" /\ at > Len(payload)
  BY <1>3 DEF StartReplaySweep
<1>5. ToCall = {} /\ ToCall' = {}
  BY <1>1, <1>4 DEF ToCall
<1>6. \A n \in 1..Len(payload) : (TopOn(n)' => TopOn(n)) /\ (UsersOn(n)' => UsersOn(n))
  BY <1>1, <1>4 DEF TopOn, UsersOn
<1> QED
  BY <1>1, <1>2, <1>4, <1>5, <1>6, NextCalls

LEMMA EndLands ==
    ASSUME Landing, End PROVE LandInv'
<1>1. pc = "sweep" /\ pc' = "done" /\ at' = at /\ UNCHANGED <<plays, stars, containers, made>>
  BY DEF End, destination
<1>2. pc \in Underway /\ at > Len(payload)
  BY <1>1 DEF Underway, Landing, LandInv
<1>5. ToCall = {} /\ ToCall' = {}
  BY <1>1 DEF ToCall
<1>6. \A n \in 1..Len(payload) : (TopOn(n)' => TopOn(n)) /\ (UsersOn(n)' => UsersOn(n))
  BY <1>1 DEF TopOn, UsersOn
<1> QED
  BY <1>1, <1>2, <1>5, <1>6, NextCalls

(* A sweep deletes no list whose name the payload has.                     *)
LEMMA SweepOneLands ==
    ASSUME Landing, SweepOne PROVE LandInv'
<1>1. /\ pc = "sweep" /\ pc' = pc /\ at' = at /\ UNCHANGED <<plays, stars, made>>
      /\ \A b \in containers : b.id \notin pending => b \in containers'
  BY DEF SweepOne
<1>2. pc \in Underway /\ at > Len(payload)
  BY <1>1 DEF Underway, Landing, LandInv
<1>3. /\ replay' = replay /\ payload' = payload /\ CallsMade
      /\ ~Blocked(Visible, DstUsers \cap replay.hidden)
  BY <1>2, Between, SameLanding
<1>4. \A b \in containers : b.id \in pending /\ b.id \in made => b.name \notin PayloadTitles
  BY <1>1 DEF Landing, SweptInv, LeftToSweep
<1>5. \A t : HasLanded(t) => HasLanded(t)'
  BY <1>1, <1>3, <1>4, SameLanding, SamePayload DEF HasLanded
<1>6. ToCall = {} /\ ToCall' = {}
  BY <1>1 DEF ToCall
<1>7. \A n : TopTasks(n)' = TopTasks(n) /\ UserTasks(n)' = UserTasks(n)
  BY <1>3, SameTasks
<1>8. ~Blocked(Visible, DstUsers \cap replay.hidden)'
  BY <1>3, SameTasks
<1>9. \A n : TopOn(n)' = TopOn(n) /\ UsersOn(n)' = UsersOn(n)
  BY <1>1 DEF TopOn, UsersOn
<1>10. \A t : Settled(t) => Settled(t)'
  BY <1>5, <1>6 DEF Settled
<1>11. CallsMade'
  BY <1>3, <1>7, <1>9, <1>10 DEF CallsMade
<1>12. Shows'
  BY <1>1, ShowsStays
<1> QED
  BY <1>1, <1>2, <1>3, <1>6, <1>8, <1>11, <1>12 DEF LandInv

(* One call: it leaves what it is to leave, and of what earlier calls have *)
(* left it takes nothing back.                                             *)
Call(t) == Landing /\ ReplayRow /\ t = First

LEMMA CallIs ==
    ASSUME NEW t, Call(t)
    PROVE  /\ pc \in Underway /\ pc' = pc /\ at' = at /\ payload' = payload
           /\ t \in ToCall /\ ToCall' = ToCall \ {t} /\ t.row.kind \in RowKinds
           /\ t.row.kind \in Histories => \E u \in Feeders(t.to) : RowFrom(t.row, u)
<1>1. /\ pc \in {"topRows", "userRows"} /\ pc' = pc /\ at' = at /\ payload' = payload
      /\ pending # {} /\ pending' = pending \ {t}
  BY DEF Call, ReplayRow
<1>2. pc \in Underway /\ ToCall = pending /\ ToCall' = pending'
  BY <1>1 DEF Underway, Replaying, ToCall
<1>3. t \in pending
  BY <1>1, FirstIs DEF Call
<1>4. t.row.kind \in RowKinds
  BY <1>1, <1>3 DEF Call, Landing, SweptInv, LeftToWrite, RowNamed
<1>5. PICK n \in 1..Len(payload) : t \in TopTasks(n) \cup UserTasks(n)
  BY <1>2, <1>3, Between DEF Call
<1>6. t.row.kind \in Histories => \E u \in Feeders(t.to) : RowFrom(t.row, u)
  <2>1. Filled /\ PayloadOk /\ replay \in Replays /\ ~ToPlex
    BY <1>2, Between, SameLanding DEF Call, Landing
  <2>2. n \in 1..Len(Libs)
    BY <2>1 DEF Filled
  <2> QED BY <1>5, <2>1, <2>2, TasksRight
<1> QED
  BY <1>1, <1>2, <1>3, <1>4, <1>6

LEMMA WatchLands ==
    ASSUME NEW t, Call(t), t.row.kind = "watch"
    PROVE  Shows' /\ HasLanded(t)' /\ \A o : HasLanded(o) => HasLanded(o)'
<1> DEFINE d == t.to
           i == t.row.item
           n == t.row.plays
<1>1. /\ plays' = [plays EXCEPT ![d][i] = n] /\ stars' = stars
      /\ containers' = containers /\ made' = made
  <2>1. WriteWatch(t.to, t.row)
    BY DEF Call, ReplayRow
  <2>2. ~ToPlex /\ undisturbed'
    BY DEF Call, Landing
  <2>3. \A c : Target(n, c) = n
    BY <2>2 DEF Target
  <2> QED BY <2>1, <2>2, <2>3 DEF WriteWatch, Refused
<1>2. PICK v \in Feeders(d) : RowFrom(t.row, v)
  BY CallIs DEF Histories
<1>3. v \in Accounts /\ i \in MediaItems /\ n = History[v][i].plays /\ n \in Nat /\ Sent(v, i)
  BY <1>2, AdapterAssumption DEF RowFrom, Feeders
<1>4. Shows /\ (\A e : Feeders(e)' = Feeders(e)) /\ (\A u, x : Sent(u, x)' = Sent(u, x))
  BY SameLanding DEF Call
<1>5. /\ t.row.kind = "watch" /\ t.to = d /\ t.row.item = i
  OBVIOUS
<1> HIDE DEF d, i, n
<1>6. /\ plays' \in [DstUsers -> [MediaItems -> Nat]]
      /\ \A e \in DstUsers : e # d => plays'[e] = plays[e]
      /\ d \in DstUsers => plays'[d][i] = n
      /\ \A e \in DstUsers, x \in MediaItems : e # d \/ x # i => plays'[e][x] = plays[e][x]
  BY <1>1, <1>3, <1>4 DEF Shows
<1>7. Shows'
  <2>1. stars' \in [DstUsers -> [MediaItems -> Nat]]
    BY <1>1, <1>4 DEF Shows
  <2>2. ASSUME NEW e \in DstUsers, Feeders(e) = {}
        PROVE  plays'[e] = Plays0[e] /\ \A x \in MediaItems : stars'[e][x] = 0
    <3>1. e # d
      BY <1>2, <2>2
    <3> QED BY <1>1, <1>4, <1>6, <2>2, <3>1 DEF Shows
  <2>3. ASSUME NEW e \in DstUsers, NEW u \in Accounts, NEW x \in MediaItems, Feeders(e) = {u}
        PROVE  /\ plays'[e][x] = Plays0[e][x] \/ (Sent(u, x) /\ plays'[e][x] = History[u][x].plays)
               /\ stars'[e][x] \in {0, History[u][x].stars}
    <3>1. stars'[e][x] \in {0, History[u][x].stars}
      BY <1>1, <1>4, <2>3 DEF Shows
    <3>2. CASE e = d /\ x = i
      <4>1. u = v
        BY <1>2, <2>3, <3>2
      <4> QED BY <1>3, <1>6, <3>1, <3>2, <4>1
    <3>3. CASE e # d \/ x # i
      BY <1>4, <1>6, <2>3, <3>1, <3>3 DEF Shows
    <3> QED BY <3>2, <3>3
  <2> QED BY <1>4, <1>6, <2>1, <2>2, <2>3 DEF Shows
<1>8. \A u \in Accounts : Feeders(d) = {u} => History[u][i].plays = n
  BY <1>2, <1>3
<1>9. HasLanded(t)'
  BY <1>4, <1>5, <1>6, <1>8 DEF HasLanded
<1>10. ASSUME NEW o, HasLanded(o) PROVE HasLanded(o)'
  <2>1. PayloadTitles' = PayloadTitles
    BY CallIs, SamePayload
  <2>2. ASSUME o.row.kind = "watch", o.to \in DstUsers, NEW u \in Accounts, Feeders(o.to) = {u}
        PROVE  plays'[o.to][o.row.item] = History[u][o.row.item].plays
    <3>1. plays[o.to][o.row.item] = History[u][o.row.item].plays
      BY <1>10, <2>2 DEF HasLanded
    <3>2. CASE o.to = d /\ o.row.item = i
      BY <1>6, <1>8, <2>2, <3>2
    <3>3. CASE ~(o.to = d /\ o.row.item = i)
      <4>1. plays'[o.to][o.row.item] = plays[o.to][o.row.item]
        BY <1>1, <1>4, <2>2, <3>3 DEF Shows
      <4> QED BY <3>1, <4>1
    <3> QED BY <3>2, <3>3
  <2> QED BY <1>1, <1>4, <1>10, <2>1, <2>2 DEF HasLanded
<1> QED
  BY <1>7, <1>9, <1>10

LEMMA RatingLands ==
    ASSUME NEW t, Call(t), t.row.kind = "ratings"
    PROVE  Shows' /\ HasLanded(t)' /\ \A o : HasLanded(o) => HasLanded(o)'
<1> DEFINE d == t.to
           i == t.row.item
           n == IF t.row.stars > 0 THEN t.row.stars ELSE stars[d][i]
<1>1. /\ stars' = [stars EXCEPT ![d][i] = n] /\ plays' = plays
      /\ containers' = containers /\ made' = made
  <2>1. WriteRating(t.to, t.row)
    BY DEF Call, ReplayRow
  <2> QED BY <2>1 DEF WriteRating, Refused, Call, Landing
<1>2. PICK v \in Feeders(d) : RowFrom(t.row, v)
  BY CallIs DEF Histories
<1>3. /\ v \in Accounts /\ i \in MediaItems /\ t.row.stars = History[v][i].stars
      /\ History[v][i].stars \in Nat
  BY <1>2, AdapterAssumption DEF RowFrom, Feeders
<1>4. Shows /\ (\A e : Feeders(e)' = Feeders(e)) /\ (\A u, x : Sent(u, x)' = Sent(u, x))
  BY SameLanding DEF Call
<1>5. t.row.kind = "ratings" /\ t.to = d /\ t.row.item = i
  OBVIOUS
<1>6. /\ d \in DstUsers => n \in Nat /\ n \in {stars[d][i], History[v][i].stars}
      /\ t.row.stars > 0 => n = History[v][i].stars
  BY <1>3, <1>4 DEF Shows
<1> HIDE DEF d, i, n
<1>7. /\ stars' \in [DstUsers -> [MediaItems -> Nat]]
      /\ d \in DstUsers => stars'[d][i] = n
      /\ \A e \in DstUsers, x \in MediaItems : e # d \/ x # i => stars'[e][x] = stars[e][x]
  BY <1>1, <1>3, <1>4, <1>6 DEF Shows
<1>8. Shows'
  <2>1. ASSUME NEW e \in DstUsers, Feeders(e) = {}
        PROVE  plays'[e] = Plays0[e] /\ \A x \in MediaItems : stars'[e][x] = 0
    <3>1. e # d
      BY <1>2, <2>1
    <3> QED BY <1>1, <1>4, <1>7, <2>1, <3>1 DEF Shows
  <2>2. ASSUME NEW e \in DstUsers, NEW u \in Accounts, NEW x \in MediaItems, Feeders(e) = {u}
        PROVE  /\ plays'[e][x] = Plays0[e][x] \/ (Sent(u, x) /\ plays'[e][x] = History[u][x].plays)
               /\ stars'[e][x] \in {0, History[u][x].stars}
    <3>1. /\ plays'[e][x] = Plays0[e][x] \/ (Sent(u, x) /\ plays'[e][x] = History[u][x].plays)
          /\ stars[e][x] \in {0, History[u][x].stars}
      BY <1>1, <1>4, <2>2 DEF Shows
    <3>2. CASE e = d /\ x = i
      <4>1. u = v
        BY <1>2, <2>2, <3>2
      <4> QED BY <1>6, <1>7, <3>1, <3>2, <4>1
    <3>3. CASE e # d \/ x # i
      BY <1>7, <3>1, <3>3
    <3> QED BY <3>2, <3>3
  <2> QED BY <1>1, <1>4, <1>7, <2>1, <2>2 DEF Shows
<1>9. \A u \in Accounts : Feeders(d) = {u} => u = v
  BY <1>2
<1>10. HasLanded(t)'
  BY <1>4, <1>5, <1>6, <1>7, <1>9 DEF HasLanded
<1>11. ASSUME NEW o, HasLanded(o) PROVE HasLanded(o)'
  <2>1. PayloadTitles' = PayloadTitles
    BY CallIs, SamePayload
  <2>2. ASSUME o.row.kind = "ratings", o.to \in DstUsers, o.row.stars > 0,
               NEW u \in Accounts, Feeders(o.to) = {u}
        PROVE  stars'[o.to][o.row.item] = History[u][o.row.item].stars
    <3>1. stars[o.to][o.row.item] = History[u][o.row.item].stars
      BY <1>11, <2>2 DEF HasLanded
    <3>2. CASE o.to = d /\ o.row.item = i
      BY <1>6, <1>7, <1>9, <2>2, <3>1, <3>2
    <3>3. CASE ~(o.to = d /\ o.row.item = i)
      <4>1. stars'[o.to][o.row.item] = stars[o.to][o.row.item]
        BY <1>1, <1>4, <2>2, <3>3 DEF Shows
      <4> QED BY <3>1, <4>1
    <3> QED BY <3>2, <3>3
  <2> QED BY <1>1, <1>4, <1>11, <2>1, <2>2 DEF HasLanded
<1> QED
  BY <1>8, <1>10, <1>11

LEMMA ListLands ==
    ASSUME NEW t, Call(t), t.row.kind \in {"playlists", "collections"}
    PROVE  Shows' /\ HasLanded(t)' /\ \A o : HasLanded(o) => HasLanded(o)'
<1> DEFINE b == [id |-> Fresh, kind |-> t.row.kind,
                 owner |-> IF t.row.kind = "playlists" THEN t.to ELSE DstOwner,
                 name |-> t.row.name, items |-> t.row.items \cap Known]
<1>1. /\ plays' = plays /\ stars' = stars
      /\ containers' = containers \cup {b} /\ made' = made \cup {Fresh}
  <2>1. WriteList(t.to, t.row)
    BY DEF Call, ReplayRow
  <2> QED BY <2>1 DEF WriteList, Refused, Call, Landing
<1>2. Shows'
  BY <1>1, ShowsStays DEF Call
<1>3. payload' = payload
  BY CallIs
<1>4. \A o : HasLanded(o) => HasLanded(o)'
  BY <1>1, <1>3, LandedStays DEF Call
<1>5. b.id = Fresh /\ b.name = t.row.name /\ b.items = t.row.items \cap Known
      /\ (t.row.kind = "playlists" => b.owner = t.to)
  OBVIOUS
<1> HIDE DEF b
<1>6. HasLanded(t)'
  BY <1>1, <1>5 DEF HasLanded
<1> QED
  BY <1>2, <1>4, <1>6

LEMMA ReplayRowLands ==
    ASSUME Landing, ReplayRow PROVE LandInv'
<1>1. PICK t : Call(t)
  BY DEF Call
<1>2. /\ pc \in Underway /\ pc' = pc /\ at' = at /\ payload' = payload
      /\ t \in ToCall /\ ToCall' = ToCall \ {t} /\ t.row.kind \in RowKinds
  BY <1>1, CallIs
<1>3. Shows' /\ HasLanded(t)' /\ \A o : HasLanded(o) => HasLanded(o)'
  BY <1>1, <1>2, WatchLands, RatingLands, ListLands DEF RowKinds
<1>4. /\ replay' = replay /\ CallsMade /\ ~Blocked(Visible, DstUsers \cap replay.hidden)
      /\ ToCall \subseteq UNION {TopTasks(n) \cup UserTasks(n) : n \in 1..Len(payload)}
  BY <1>2, Between, SameLanding
<1>5. \A n : TopTasks(n)' = TopTasks(n) /\ UserTasks(n)' = UserTasks(n)
  BY <1>2, <1>4, SameTasks
<1>6. ~Blocked(Visible, DstUsers \cap replay.hidden)'
  BY <1>2, <1>4, SameTasks
<1>7. \A n : TopOn(n)' = TopOn(n) /\ UsersOn(n)' = UsersOn(n)
  BY <1>2 DEF TopOn, UsersOn
<1>8. \A o : Settled(o) => Settled(o)'
  BY <1>2, <1>3 DEF Settled
<1>9. CallsMade'
  BY <1>2, <1>4, <1>5, <1>7, <1>8 DEF CallsMade
<1>10. (ToCall \subseteq UNION {TopTasks(n) \cup UserTasks(n) : n \in 1..Len(payload)})'
  BY <1>2, <1>4, <1>5
<1>11. pc \notin {"check", "sweep", "done"}
  BY DEF ReplayRow
<1> QED
  BY <1>2, <1>3, <1>6, <1>9, <1>10, <1>11 DEF LandInv

LEMMA StutterLands ==
    ASSUME Landing, UNCHANGED replayVars PROVE LandInv'
<1>1. /\ pc' = pc /\ at' = at /\ payload' = payload /\ replay' = replay
      /\ UNCHANGED <<pending, plays, stars, containers, made>>
  BY DEF replayVars, destination
<1>2. Shows' /\ (\A o : HasLanded(o) => HasLanded(o)')
  BY <1>1, ShowsStays, LandedStays
<1>3. /\ \A n : TopTasks(n)' = TopTasks(n) /\ UserTasks(n)' = UserTasks(n)
      /\ Blocked(Visible, DstUsers \cap replay.hidden)' = Blocked(Visible, DstUsers \cap replay.hidden)
  BY <1>1, SameTasks
<1>4. ToCall' = ToCall /\ \A n : TopOn(n)' = TopOn(n) /\ UsersOn(n)' = UsersOn(n)
  BY <1>1 DEF ToCall, TopOn, UsersOn
<1>5. \A o : Settled(o) => Settled(o)'
  BY <1>2, <1>4 DEF Settled
<1>6. CallsMade => CallsMade'
  BY <1>1, <1>3, <1>4, <1>5 DEF CallsMade
<1> QED
  BY <1>1, <1>2, <1>3, <1>4, <1>6 DEF LandInv, Landing

LEMMA LandStep ==
    SweptInv /\ SweptInv' /\ ReadInv /\ FilledInv /\ LandInv /\ [ReplayNext]_replayVars => LandInv'
<1> SUFFICES ASSUME SweptInv, SweptInv', ReadInv, FilledInv, LandInv, [ReplayNext]_replayVars,
                    undisturbed', ~ToPlex'
             PROVE  LandInv'
  BY DEF LandInv
<1>1. Landing
  BY PastCapture DEF Landing, ToPlex
<1>2. Capturing \subseteq {"lists", "owner", "users"}
  BY DEF Capturing
<1>3. CASE ReadLists  BY <1>1, <1>3, EarlyLands DEF ReadLists, Capturing, destination
<1>4. CASE CaptureOwner  BY <1>1, <1>4, EarlyLands DEF CaptureOwner, Capturing, destination
<1>5. CASE CaptureUser  BY <1>1, <1>5, EarlyLands DEF CaptureUser, Capturing, destination
<1>6. CASE EndLibrary  BY <1>1, <1>6, EarlyLands DEF EndLibrary, Capturing, destination
<1>7. CASE EndCapture  BY <1>1, <1>7, EndCaptureLands
<1>8. CASE HaltReplay  BY <1>8 DEF HaltReplay
<1>9. CASE Check  BY <1>1, <1>9, CheckLands
<1>10. CASE StartTop  BY <1>1, <1>10, StartTopLands
<1>11. CASE StartUsers  BY <1>1, <1>11, StartUsersLands
<1>12. CASE ReplayRow  BY <1>1, <1>12, ReplayRowLands
<1>13. CASE EndRows  BY <1>1, <1>13, EndRowsLands
<1>14. CASE StartReplaySweep  BY <1>1, <1>14, StartSweepLands
<1>15. CASE SweepOne  BY <1>1, <1>15, SweepOneLands
<1>16. CASE End  BY <1>1, <1>16, EndLands
<1>17. CASE UNCHANGED replayVars  BY <1>1, <1>17, StutterLands
<1> QED
  BY <1>3, <1>4, <1>5, <1>6, <1>7, <1>8, <1>9, <1>10, <1>11, <1>12, <1>13, <1>14, <1>15, <1>16,
     <1>17 DEF ReplayNext

(* At the end every call was made.                                         *)
LEMMA EveryLanded ==
    ASSUME SweptInv, FilledInv, LandInv, pc = "done", undisturbed, ~ToPlex
    PROVE  /\ replay \in Replays /\ PayloadOk /\ Filled /\ Shows
           /\ ~Blocked(Visible, DstUsers \cap replay.hidden)
           /\ \A n \in 1..Len(Libs) : \A t \in TopTasks(n) \cup UserTasks(n) : HasLanded(t)
<1>1. replay \in Replays /\ PayloadOk /\ Filled /\ at \in Nat
  BY PayloadIsOk DEF SweptInv, FilledInv, Capturing, LeftToWrite
<1>2. /\ Shows /\ ~Blocked(Visible, DstUsers \cap replay.hidden) /\ CallsMade /\ at > Len(payload)
  BY DEF LandInv, Underway
<1>3. ToCall = {}
  BY DEF ToCall
<1>4. \A n \in 1..Len(payload) : TopOn(n) /\ UsersOn(n)
  BY <1>1, <1>2 DEF TopOn, UsersOn, Filled, PayloadOk
<1> QED
  BY <1>1, <1>2, <1>3, <1>4 DEF CallsMade, Settled, Filled

LEMMA LandedAtEnd ==
    ASSUME SweptInv, FilledInv, LandInv PROVE AdapterLands
<1> SUFFICES ASSUME pc = "done", undisturbed, ~ToPlex, NEW d \in DstUsers, NEW u \in Accounts,
                    Feeders(d) = {u}
             PROVE  /\ "watch" \in replay.include => \A i \in Known : Played(d, u, i)
                    /\ "ratings" \in replay.include => \A i \in Known : Starred(d, u, i)
                    /\ ~Direct /\ "playlists" \in replay.include => Kept(d, u)
  BY EveryLanded DEF AdapterLands, Shows
<1> USE EveryLanded
<1>1. ASSUME NEW i \in Known
      PROVE  i \in MediaItems /\ \E n \in 1..Len(Libs) : i \in InLib(n)
  BY AdapterAssumption DEF InLib
<1>2. ASSUME "watch" \in replay.include, NEW i \in Known PROVE Played(d, u, i)
  <2>1. CASE ~Sent(u, i)
    BY <1>1, <2>1 DEF Shows, Played, Sent
  <2>2. CASE Sent(u, i)
    <3>1. PICK n \in 1..Len(Libs) : i \in InLib(n)
      BY <1>1
    <3> DEFINE r == [kind |-> "watch", item |-> i, plays |-> History[u][i].plays]
    <3>2. r \in LibraryRows(u, n)
      BY <1>2, <2>2, <3>1 DEF LibraryRows, OfKinds, WatchRows, Sent, Begun
    <3>3. r.kind = "watch" /\ r.item = i /\ r.plays = History[u][i].plays
      OBVIOUS
    <3>4. r.plays > 0 \/ Overwrites
      BY <2>2 DEF Sent
    <3> HIDE DEF r
    <3>5. PICK t \in TopTasks(n) \cup UserTasks(n) : t.to = d /\ t.row = r
      BY <3>2, <3>3, <3>4, RowIsTask
    <3>6. plays[d][i] = History[u][i].plays
      BY <3>3, <3>5 DEF HasLanded
    <3> QED BY <2>2, <3>6 DEF Played, Sent
  <2> QED BY <2>1, <2>2
<1>3. ASSUME "ratings" \in replay.include, NEW i \in Known PROVE Starred(d, u, i)
  <2>1. stars[d][i] \in {0, History[u][i].stars} /\ History[u][i].stars \in Nat
    BY <1>1, AdapterAssumption DEF Shows
  <2>2. CASE History[u][i].stars = 0
    BY <2>1, <2>2 DEF Starred
  <2>3. CASE History[u][i].stars > 0
    <3>1. PICK n \in 1..Len(Libs) : i \in InLib(n)
      BY <1>1
    <3> DEFINE r == [kind |-> "ratings", item |-> i, stars |-> History[u][i].stars, liked |-> Flag(u, i)]
    <3>2. r \in LibraryRows(u, n)
      BY <1>3, <2>3, <3>1 DEF LibraryRows, OfKinds, RatingRows
    <3>3. r.kind = "ratings" /\ r.item = i /\ r.stars = History[u][i].stars
      OBVIOUS
    <3> HIDE DEF r
    <3>4. PICK t \in TopTasks(n) \cup UserTasks(n) : t.to = d /\ t.row = r
      BY <3>2, <3>3, RowIsTask
    <3> QED BY <2>3, <3>3, <3>4 DEF HasLanded, Starred
  <2> QED BY <2>1, <2>2, <2>3
<1>4. ASSUME ~Direct, "playlists" \in replay.include PROVE Kept(d, u)
  <2> SUFFICES ASSUME NEW l \in Listed(u), l.items \cap Known # {},
                      l.items \subseteq Audio \/ l.items \cap Audio = {}
               PROVE  \E b \in containers : /\ b.owner = d /\ b.id \in made /\ b.name = l.name
                                            /\ b.items = l.items \cap Known
    BY DEF Kept
  <2>1. u \in Feeders(d)
    OBVIOUS
  <2>2. 1 \in 1..Len(Libs) /\ l.name \in PayloadTitles
    BY <1>4, <2>1, ListIsTask
  <2>3. PICK t \in UserTasks(1) : t.to = d /\ t.row = ListRow(l)
    BY <1>4, <2>1, ListIsTask
  <2>4. HasLanded(t)
    BY <2>2
  <2>5. /\ t.row.kind = "playlists" /\ t.row.name = l.name /\ t.row.items = l.items
    BY <2>3 DEF ListRow
  <2> QED BY <2>2, <2>3, <2>4, <2>5 DEF HasLanded
<1> QED
  BY <1>2, <1>3, <1>4

(* After a run to a Jellyfin or Emby server that nothing disturbed, each   *)
(* account that one source account goes to shows that account's plays and  *)
(* ratings and, from a file, its unmixed playlists; an account that none   *)
(* goes to is as it was; and no owner's rows were silently dropped.        *)
THEOREM AdaptersLand == ReplaySpec => []AdapterLands
<1>1. ReplayInit => SweptInv /\ ReadInv /\ FilledInv /\ LandInv
  BY SweptBegins, FillBegins, LandBegins
<1>2. SweptInv /\ ReadInv /\ FilledInv /\ LandInv /\ [ReplayNext]_replayVars
         => (SweptInv /\ ReadInv /\ FilledInv /\ LandInv)'
  BY SweptStep, FillStep, LandStep
<1>3. SweptInv /\ ReadInv /\ FilledInv /\ LandInv => AdapterLands
  BY LandedAtEnd
<1> QED
  BY <1>1, <1>2, <1>3, PTL DEF ReplaySpec

-----------------------------------------------------------------------------
(* The direct transfer                                                     *)

(* The library at hand.                                                    *)
InHand(l) == current.pc # "idle" /\ current.lib = l
Imports == {"prefetch", "owner", "finish"}
CurrentShaped ==
    /\ current = [pc |-> current.pc, lib |-> current.lib, to |-> current.to, route |-> current.route,
                  payload |-> current.payload, phase |-> current.phase, users |-> current.users]
    /\ current.pc \in {"idle", "gather", "users", "save"} \cup Imports
    /\ current.route \in {"direct", "chained"} /\ (current.pc = "save" => current.route = "chained")
    /\ current.pc # "idle" => /\ current.lib \in Routed /\ current.to = Route(current.lib)
                              /\ current.lib \notin remaining
                              /\ current.route = "chained" => current.lib \in fell
DstShaped ==
    Table(dst, PlexLibs) /\ \A h \in TransferHandles, d \in PlexLibs : Holding(dst[h][d])
TransferTyped ==
    /\ transfer \in Transfers /\ remaining \subseteq transfer.libs /\ CurrentShaped /\ DstShaped
    /\ status \in {"running", "sweeping", "ended", "failed"}
    /\ status \in {"sweeping", "ended"} => current.pc = "idle" /\ remaining = {}

(* Where a temporary file is.                                              *)
FileInv ==
    /\ \A l \in tmp : \/ l \in stuck
                      \/ l = current.lib /\ current.route = "chained" /\ current.pc \in Imports
    /\ current.route = "chained" /\ current.pc \in Imports => current.lib \in tmp
    /\ status = "failed" => current.route = "chained"

LEMMA RouteIs == \A l : Route(l) \in PlexLibs \cup {Skip, Nowhere}
BY DEF Route, SameName, Saved

LEMMA MergedHolds ==
    ASSUME NEW old, NEW got, Holding(old), Holding(got), NEW kinds \in SUBSET TransferKinds
    PROVE  Holding([k \in TransferKinds |-> IF k \in kinds THEN Merged(k, old[k], got[k]) ELSE old[k]])
<1>1. \A a, b \in Nat : Merged("watch", a, b) \in Nat /\ Merged("ratings", a, b) \in Nat
  BY DEF Merged, Bigger
<1> QED
  BY <1>1 DEF Holding, TransferKinds

(* One cell of the destination is written.                                 *)
LEMMA CellWritten ==
    ASSUME DstShaped, NEW h \in TransferHandles, NEW kinds \in SUBSET TransferKinds,
           current.to \in PlexLibs, Holding(current.payload[h]), dst' = RestoredLibrary(h, kinds)
    PROVE  /\ DstShaped'
           /\ \A g \in TransferHandles, d \in PlexLibs, k \in TransferKinds :
                 dst'[g][d][k] = IF g = h /\ d = current.to /\ k \in kinds
                                 THEN Merged(k, dst[g][d][k], current.payload[h][k])
                                 ELSE dst[g][d][k]
<1> DEFINE old == dst[h][current.to]
           got == current.payload[h]
           cell == [k \in TransferKinds |-> IF k \in kinds THEN Merged(k, old[k], got[k]) ELSE old[k]]
<1>1. Holding(cell)
  <2> HIDE DEF old, got
  <2>1. Holding(old)
    BY DEF old, DstShaped
  <2>2. Holding(got)
    BY DEF got
  <2> QED BY <2>1, <2>2, MergedHolds
<1>2. dst' = [dst EXCEPT ![h][current.to] = cell]
  BY DEF RestoredLibrary
<1>3. \A k \in TransferKinds : cell[k] = IF k \in kinds THEN Merged(k, old[k], got[k]) ELSE old[k]
  OBVIOUS
<1> HIDE DEF cell
<1>4. \A g \in TransferHandles, d \in PlexLibs :
        dst'[g][d] = IF g = h /\ d = current.to THEN cell ELSE dst[g][d]
  BY <1>2 DEF DstShaped, Table
<1>5. Table(dst', PlexLibs)
  BY <1>2 DEF DstShaped, Table
<1>6. DstShaped'
  BY <1>1, <1>4, <1>5 DEF DstShaped, Table, Holding
<1> QED
  BY <1>3, <1>4, <1>6

LEMMA SourceHolds ==
    ASSUME NEW h \in TransferHandles, NEW kinds, current.lib \in SrcLibs
    PROVE  /\ Holding(Reading(h, kinds))
           /\ \A k \in TransferKinds : k \in kinds => Reading(h, kinds)[k] = Src[h][current.lib][k]
<1>1. Holding(Src[h][current.lib])
  BY TransferAssumption
<1>2. Empty["watch"] = 0 /\ Empty["ratings"] = 0
  BY DEF Empty
<1> QED
  BY <1>1, <1>2 DEF Reading, Holding, TransferKinds

(* What the reads of the library at hand have brought.                     *)
PayloadInv ==
    /\ current.pc = "users" => DOMAIN current.payload = {PlexOwner}
    /\ current.pc \in {"save"} \cup Imports =>
          PlexOwner \in DOMAIN current.payload /\ DOMAIN current.payload \subseteq TransferHandles
    /\ current.pc \in {"users", "save"} \cup Imports =>
          /\ \A h \in DOMAIN current.payload : Holding(current.payload[h])
          /\ ~short => \A h \in TransferHandles \cap transfer.who :
                current.pc # "users" \/ h = PlexOwner =>
                    /\ h \in DOMAIN current.payload
                    /\ \A k \in Wanted(current) : current.payload[h][k] = Src[h][current.lib][k]

(* What has been written of it.                                            *)
Passed == CASE current.phase = "watch" -> {}
            [] current.phase = "playlists" -> {"watch"}
            [] current.phase = "collections" -> {"watch", "playlists"}
            [] current.phase = "ratings" -> {"watch", "playlists", "collections"}
            [] OTHER -> TransferKinds
CoveredAt(h, l, to, kinds) == \A k \in kinds : Covers(k, dst[h][to][k], Src[h][l][k])
WrittenInv ==
    /\ current.pc \in {"gather", "users", "save", "prefetch"} =>
          current.phase = "watch" /\ current.users = {}
    /\ current.phase \in {"watch", "playlists", "collections", "ratings", "done"}
    /\ current.pc = "finish" => stopped
    /\ ~stopped /\ ~short /\ current.pc = "owner" =>
          \A h \in TransferHandles \cap transfer.who :
              /\ h = PlexOwner =>
                    CoveredAt(h, current.lib, current.to, Passed \cap Wanted(current))
              /\ h \in current.users => CoveredAt(h, current.lib, current.to, Wanted(current))

(* What has been written of the libraries before it.                       *)
CoversThen(l) ==
    \A h \in TransferHandles \cap transfer.who, k \in Asked(l) :
        Alone(l) /\ (l \in fell => k \in transfer.include)
            => Covers(k, dst[h][Route(l)][k], Src[h][l][k])
DoneInv ==
    ~stopped /\ ~short => \A l \in Routed \ remaining : InHand(l) \/ CoversThen(l)

TransferInv == TransferTyped /\ FileInv /\ PayloadInv /\ WrittenInv /\ DoneInv

LEMMA SameTransfer ==
    ASSUME transfer' = transfer
    PROVE  /\ \A l : Route(l)' = Route(l) /\ Asked(l)' = Asked(l)
           /\ Routed' = Routed /\ Replacing' = Replacing /\ \A l : Alone(l)' = Alone(l)
           /\ \A h : Takes(h)' = Takes(h)
<1>1. \A l : Route(l)' = Route(l)
  BY DEF Route, SameName, Saved
<1> QED
  BY <1>1 DEF Routed, Asked, Alone, Replacing, Takes

LEMMA WantedKinds ==
    ASSUME transfer \in Transfers
    PROVE  /\ Wanted(current) \subseteq TransferKinds
           /\ \A l : Asked(l) \subseteq TransferKinds
BY TransferAssumption DEF Wanted, Asked

(* Writing to an account's data what the source has makes it cover that;    *)
(* a Merge takes nothing away.                                              *)
LEMMA MergedCovers ==
    ASSUME ~stopped, NEW old, NEW got, NEW from, Holding(old), Holding(got), Holding(from),
           NEW k \in TransferKinds
    PROVE  /\ Covers(k, Merged(k, old[k], got[k]), got[k])
           /\ ~Replacing /\ Covers(k, old[k], from[k]) => Covers(k, Merged(k, old[k], got[k]), from[k])
<1>1. CASE k = "watch"
  BY <1>1 DEF Merged, Covers, Bigger, Holding
<1>2. CASE k = "ratings"
  BY <1>2 DEF Merged, Covers, Holding
<1>3. CASE k \in {"playlists", "collections"}
  BY <1>3 DEF Merged, Covers
<1> QED
  BY <1>1, <1>2, <1>3 DEF TransferKinds

(* A step that writes nothing and leaves the same library at hand.          *)
LEMMA DoneStays ==
    ASSUME TransferInv, UNCHANGED <<transfer, dst, remaining>>, fell \subseteq fell',
           stopped \/ short => stopped' \/ short',
           \A l : InHand(l)' <=> InHand(l)
    PROVE  DoneInv' /\ DstShaped'
<1>1. \A l : CoversThen(l) => CoversThen(l)'
  BY SameTransfer DEF CoversThen
<1> QED
  BY <1>1, SameTransfer DEF TransferInv, DoneInv, TransferTyped, DstShaped

(* An exception: the library at hand begins anew, or the job fails.         *)
LEMMA FallKeeps ==
    ASSUME TransferInv, Fall, current.pc \in {"gather", "save", "prefetch", "owner"},
           UNCHANGED <<transfer, remaining, stopped, short>>
    PROVE  TransferInv'
<1> USE DEF TransferInv
<1>1. CASE current.route = "direct"
  <2>1. /\ current' = [NoLibrary EXCEPT !.pc = "gather", !.lib = current.lib, !.to = current.to,
                                        !.route = "chained"]
        /\ fell' = fell \cup {current.lib} /\ UNCHANGED <<status, dst, tmp, fate, sweeping, stuck>>
    BY <1>1 DEF Fall
  <2>2. /\ current'.pc = "gather" /\ current'.lib = current.lib /\ current'.to = current.to
        /\ current'.route = "chained" /\ current'.phase = "watch" /\ current'.users = {}
        /\ current' = [pc |-> current'.pc, lib |-> current'.lib, to |-> current'.to,
                       route |-> current'.route, payload |-> current'.payload,
                       phase |-> current'.phase, users |-> current'.users]
    BY <2>1 DEF NoLibrary
  <2>3. DoneInv' /\ DstShaped'
    BY <2>1, <2>2, DoneStays DEF InHand
  <2>4. TransferTyped'
    BY <2>1, <2>2, <2>3, SameTransfer DEF TransferTyped, CurrentShaped
  <2>5. FileInv'
    BY <1>1, <2>1, <2>2 DEF FileInv, Imports, TransferTyped
  <2>6. PayloadInv' /\ WrittenInv'
    BY <2>1, <2>2 DEF PayloadInv, WrittenInv, Imports
  <2> QED BY <2>3, <2>4, <2>5, <2>6
<1>2. CASE current.route = "chained"
  <2>1. status' = "failed" /\ UNCHANGED <<transfer, remaining, stopped, short, current, fell, dst, tmp,
                                          fate, sweeping, stuck>>
    BY <1>2 DEF Fall
  <2>2. DoneInv' /\ DstShaped'
    BY <2>1, DoneStays DEF InHand
  <2>3. TransferTyped'
    BY <2>1, <2>2, SameTransfer DEF TransferTyped, CurrentShaped
  <2>4. FileInv'
    BY <1>2, <2>1 DEF FileInv
  <2>5. PayloadInv' /\ WrittenInv'
    BY <2>1 DEF PayloadInv, WrittenInv, Wanted, Passed, CoveredAt
  <2> QED BY <2>2, <2>3, <2>4, <2>5
<1> QED
  BY <1>1, <1>2 DEF TransferTyped, CurrentShaped

LEMMA BeginKeeps ==
    ASSUME TransferInv, NEW l \in remaining, Begin(l) PROVE TransferInv'
<1> USE DEF TransferInv
<1>1. /\ current.pc = "idle" /\ status = "running" /\ remaining' = remaining \ {l}
      /\ UNCHANGED <<transfer, dst, tmp, sweeping, stopped, failures, status, fell, short, stuck>>
  BY DEF Begin
<1>2. DstShaped'
  BY <1>1 DEF TransferTyped, DstShaped
<1>3. FileInv' /\ tmp \subseteq stuck
  BY <1>1 DEF FileInv, Begin, Imports, NoLibrary, TransferTyped
<1>4. \A m : CoversThen(m) => CoversThen(m)'
  BY <1>1, SameTransfer DEF CoversThen
<1>5. CASE stopped \/ l \notin Routed
  <2>1. UNCHANGED current
    <3>1. CASE stopped
      BY <3>1 DEF Begin
    <3>2. CASE l \notin Routed
      <4>1. l \notin SrcLibs \/ Route(l) \in {Skip, Nowhere}
        BY <3>2, RouteIs DEF Routed, TransferTyped
      <4> QED BY <4>1 DEF Begin
    <3> QED BY <1>5, <3>1, <3>2
  <2>2. DoneInv'
    BY <1>1, <1>4, <1>5, <2>1, SameTransfer DEF DoneInv, InHand
  <2>3. TransferTyped'
    BY <1>1, <1>2, <2>1, SameTransfer DEF TransferTyped, CurrentShaped
  <2>4. PayloadInv' /\ WrittenInv'
    BY <1>1, <2>1 DEF PayloadInv, WrittenInv, Wanted, Passed, CoveredAt, Imports
  <2> QED BY <1>3, <2>2, <2>3, <2>4
<1>6. CASE ~stopped /\ l \in Routed
  <2>1. current' = [NoLibrary EXCEPT !.pc = "gather", !.lib = l, !.to = Route(l)]
    BY <1>6, TransferAssumption DEF Begin, Routed
  <2>2. /\ current'.pc = "gather" /\ current'.lib = l /\ current'.to = Route(l)
        /\ current'.route = "direct" /\ current'.phase = "watch" /\ current'.users = {}
        /\ current' = [pc |-> current'.pc, lib |-> current'.lib, to |-> current'.to,
                       route |-> current'.route, payload |-> current'.payload,
                       phase |-> current'.phase, users |-> current'.users]
    BY <2>1 DEF NoLibrary
  <2>3. DoneInv'
    BY <1>1, <1>4, <2>2, SameTransfer DEF DoneInv, InHand
  <2>4. TransferTyped'
    BY <1>1, <1>2, <1>6, <2>2, SameTransfer DEF TransferTyped, CurrentShaped
  <2>5. PayloadInv' /\ WrittenInv'
    BY <2>2 DEF PayloadInv, WrittenInv, Imports
  <2> QED BY <1>3, <2>3, <2>4, <2>5
<1> QED
  BY <1>5, <1>6

(* A step that goes on to the next stage with the library at hand.          *)
LEMMA StageKeeps ==
    ASSUME TransferInv, current.pc \in {"gather", "users", "save", "prefetch"}, status = "running",
           NEW stage, NEW brought,
           current' = [current EXCEPT !.pc = stage, !.payload = brought],
           stage \in {"users", "save", "prefetch", "owner"}, stage = "owner" <=> current.pc = "prefetch",
           stage = "prefetch" => current.pc = "save" \/ current.route = "direct",
           current.pc = "save" => stage = "prefetch", stage = "save" => current.route = "chained",
           tmp' = (IF current.pc = "save" THEN tmp \cup {current.lib} ELSE tmp),
           UNCHANGED <<transfer, dst, remaining, sweeping, stopped, status, fell, stuck>>,
           short => short', PayloadInv'
    PROVE  TransferInv'
<1> USE DEF TransferInv
<1>1. /\ current'.pc = stage /\ current'.lib = current.lib /\ current'.to = current.to
      /\ current'.route = current.route /\ current'.phase = "watch" /\ current'.users = {}
      /\ current'.payload = brought
      /\ current' = [pc |-> current'.pc, lib |-> current'.lib, to |-> current'.to,
                     route |-> current'.route, payload |-> current'.payload,
                     phase |-> current'.phase, users |-> current'.users]
  BY DEF TransferTyped, CurrentShaped, WrittenInv
<1>2. DoneInv' /\ DstShaped'
  BY <1>1, DoneStays DEF InHand
<1>3. TransferTyped'
  BY <1>1, <1>2, SameTransfer DEF TransferTyped, CurrentShaped, Imports
<1>4. FileInv'
  BY <1>1 DEF FileInv, Imports, TransferTyped, CurrentShaped
<1>5. Passed' = {}
  BY <1>1 DEF Passed
<1>6. WrittenInv'
  BY <1>1, <1>5 DEF WrittenInv, CoveredAt
<1> QED
  BY <1>2, <1>3, <1>4, <1>6

LEMMA SameCurrent ==
    ASSUME transfer' = transfer, current'.lib = current.lib, current'.route = current.route
    PROVE  Wanted(current)' = Wanted(current)
BY DEF Wanted

LEMMA GatherOwnerKeeps ==
    ASSUME TransferInv, GatherOwner PROVE TransferInv'
<1> DEFINE kinds == IF Takes(PlexOwner) THEN Wanted(current) ELSE {}
<1>1. /\ status = "running" /\ current.pc = "gather" /\ UNCHANGED <<transfer, remaining, stopped>>
      /\ TransferTyped /\ CurrentShaped /\ current.lib \in SrcLibs
  BY DEF GatherOwner, TransferInv, TransferTyped, CurrentShaped, Routed
<1>2. CASE Fall /\ UNCHANGED short
  BY <1>1, <1>2, FallKeeps
<1>3. ASSUME NEW got \in SUBSET TransferKinds, got = kinds \/ short',
             current' = [current EXCEPT !.pc = "users",
                                 !.payload = [h \in {PlexOwner} |-> Reading(PlexOwner, got)]],
             short => short', UNCHANGED <<dst, tmp, fate, sweeping, status, fell, stuck>>
      PROVE  TransferInv'
  <2> DEFINE brought == [h \in {PlexOwner} |-> Reading(PlexOwner, got)]
  <2>1. /\ current'.pc = "users" /\ current'.payload = brought /\ current'.lib = current.lib
        /\ current'.route = current.route
    BY <1>1, <1>3 DEF CurrentShaped
  <2>2. /\ Holding(Reading(PlexOwner, got)) /\ DOMAIN brought = {PlexOwner}
        /\ brought[PlexOwner] = Reading(PlexOwner, got)
        /\ \A k \in got : Reading(PlexOwner, got)[k] = Src[PlexOwner][current.lib][k]
    BY <1>1, SourceHolds DEF TransferHandles
  <2> HIDE DEF brought
  <2>3. ASSUME ~short', PlexOwner \in transfer.who, NEW k \in Wanted(current)
        PROVE  brought[PlexOwner][k] = Src[PlexOwner][current.lib][k]
    BY <1>3, <2>2, <2>3 DEF Takes
  <2>4. Wanted(current)' = Wanted(current)
    BY <1>1, <2>1, SameCurrent
  <2>5. PayloadInv'
    BY <1>1, <2>1, <2>2, <2>3, <2>4 DEF PayloadInv, Imports
  <2>6. current' = [current EXCEPT !.pc = "users", !.payload = brought]
    BY <1>3 DEF brought
  <2> QED BY <1>1, <1>3, <2>5, <2>6, StageKeeps
<1>4. kinds \subseteq TransferKinds
  BY <1>1, WantedKinds DEF TransferTyped
<1> HIDE DEF kinds
<1>5. \/ /\ current' = [current EXCEPT !.pc = "users",
                                !.payload = [h \in {PlexOwner} |-> Reading(PlexOwner, kinds)]]
         /\ UNCHANGED <<dst, tmp, fate, sweeping, status, fell, stuck>> /\ UNCHANGED short
      \/ \E k \in kinds :
            /\ current' = [current EXCEPT !.pc = "users",
                             !.payload = [h \in {PlexOwner} |-> Reading(PlexOwner, kinds \ {k})]]
            /\ UNCHANGED <<dst, tmp, fate, sweeping, status, fell, stuck>> /\ short'
      \/ Fall /\ UNCHANGED short
  BY DEF GatherOwner, FailShort, kinds
<1>6. ASSUME NEW k \in kinds, short',
             current' = [current EXCEPT !.pc = "users",
                             !.payload = [h \in {PlexOwner} |-> Reading(PlexOwner, kinds \ {k})]],
             UNCHANGED <<dst, tmp, fate, sweeping, status, fell, stuck>>
      PROVE  TransferInv'
  <2>1. kinds \ {k} \in SUBSET TransferKinds
    BY <1>4
  <2> QED BY <1>3, <1>6, <2>1
<1>7. ASSUME current' = [current EXCEPT !.pc = "users",
                             !.payload = [h \in {PlexOwner} |-> Reading(PlexOwner, kinds)]],
             UNCHANGED <<dst, tmp, fate, sweeping, status, fell, stuck>>, UNCHANGED short
      PROVE  TransferInv'
  <2>1. kinds \in SUBSET TransferKinds
    BY <1>4
  <2> QED BY <1>3, <1>7, <2>1
<1> QED
  BY <1>2, <1>5, <1>6, <1>7

LEMMA GatherUsersKeeps ==
    ASSUME TransferInv, GatherUsers PROVE TransferInv'
<1> DEFINE who == {u \in Sharers : Takes(u)}
<1>1. /\ status = "running" /\ current.pc = "users"
      /\ UNCHANGED <<transfer, dst, remaining, tmp, fate, sweeping, stopped, status, fell, stuck>>
      /\ TransferTyped /\ CurrentShaped /\ current.lib \in SrcLibs
      /\ DOMAIN current.payload = {PlexOwner}
  BY DEF GatherUsers, TransferInv, TransferTyped, CurrentShaped, Routed, PayloadInv
<1>2. PICK lost \in {{}} \cup {{u} : u \in who} :
        /\ IF lost = {} THEN UNCHANGED short ELSE short'
        /\ current' = [current EXCEPT
                !.pc = IF current.route = "direct" THEN "prefetch" ELSE "save",
                !.payload = [h \in {PlexOwner} \cup (who \ lost) |->
                    IF h = PlexOwner THEN @[h] ELSE Reading(h, Wanted(current))]]
  BY Zenon DEF GatherUsers, FailShort
<1> DEFINE stage == IF current.route = "direct" THEN "prefetch" ELSE "save"
           D == {PlexOwner} \cup (who \ lost)
           brought == [h \in D |-> IF h = PlexOwner THEN current.payload[h]
                                   ELSE Reading(h, Wanted(current))]
<1>3. current' = [current EXCEPT !.pc = stage, !.payload = brought]
  BY <1>1, <1>2 DEF CurrentShaped
<1>4. /\ DOMAIN brought = D /\ brought[PlexOwner] = current.payload[PlexOwner]
      /\ \A h \in D \ {PlexOwner} : brought[h] = Reading(h, Wanted(current))
  OBVIOUS
<1>5. D \subseteq TransferHandles /\ PlexOwner \in D
  BY DEF TransferHandles
<1>6. /\ current'.pc = stage /\ current'.payload = brought /\ current'.lib = current.lib
      /\ current'.route = current.route
  BY <1>1, <1>3 DEF CurrentShaped
<1>7. Wanted(current)' = Wanted(current)
  BY <1>1, <1>6, SameCurrent
<1>8. ~short' => lost = {} /\ ~short
  BY <1>2
<1>9. \A h \in TransferHandles \cap transfer.who : lost = {} => h \in D
  BY DEF TransferHandles, Takes
<1> HIDE DEF brought, D, stage
<1>10. \A h \in D : Holding(brought[h])
  BY <1>1, <1>4, <1>5, SourceHolds DEF TransferInv, PayloadInv
<1>11. ASSUME ~short', NEW h \in TransferHandles \cap transfer.who, NEW k \in Wanted(current)
       PROVE  brought[h][k] = Src[h][current.lib][k]
  <2>1. k \in TransferKinds
    BY <1>1, WantedKinds DEF TransferTyped
  <2>2. CASE h = PlexOwner
    BY <1>1, <1>4, <1>8, <1>11, <2>2 DEF TransferInv, PayloadInv
  <2>3. CASE h # PlexOwner
    BY <1>1, <1>4, <1>5, <1>8, <1>9, <1>11, <2>1, <2>3, SourceHolds
  <2> QED BY <2>2, <2>3
<1>12. /\ stage \in {"prefetch", "save"} /\ (stage = "save" => current.route = "chained")
       /\ (stage = "prefetch" <=> current.route = "direct")
  BY <1>1 DEF stage, CurrentShaped
<1>13. PayloadInv'
  BY <1>1, <1>4, <1>5, <1>6, <1>7, <1>8, <1>9, <1>10, <1>11, <1>12 DEF PayloadInv, Imports
<1>14. short => short'
  BY <1>2
<1> QED
  BY <1>1, <1>3, <1>12, <1>13, <1>14, StageKeeps

LEMMA SaveKeeps ==
    ASSUME TransferInv, Save PROVE TransferInv'
<1>1. /\ status = "running" /\ current.pc = "save" /\ UNCHANGED <<transfer, remaining, stopped, short>>
      /\ CurrentShaped
  BY DEF Save, TransferInv, TransferTyped
<1>2. CASE Fall
  BY <1>1, <1>2, FallKeeps
<1>3. CASE ~Fall
  <2>1. /\ tmp' = tmp \cup {current.lib} /\ current' = [current EXCEPT !.pc = "prefetch"]
        /\ UNCHANGED <<dst, fate, sweeping, status, fell, stuck>>
    BY <1>3 DEF Save
  <2>2. current' = [current EXCEPT !.pc = "prefetch", !.payload = current.payload]
    BY <1>1, <2>1 DEF CurrentShaped
  <2>3. PayloadInv'
    BY <1>1, <2>1 DEF CurrentShaped, PayloadInv, TransferInv, Wanted, Imports
  <2> QED BY <1>1, <2>1, <2>2, <2>3, StageKeeps
<1> QED
  BY <1>2, <1>3

LEMMA PrefetchKeeps ==
    ASSUME TransferInv, Prefetch PROVE TransferInv'
<1>1. /\ status = "running" /\ current.pc = "prefetch"
      /\ UNCHANGED <<transfer, remaining, stopped, short>> /\ CurrentShaped
  BY DEF Prefetch, TransferInv, TransferTyped
<1>2. CASE Fall
  BY <1>1, <1>2, FallKeeps
<1>3. CASE ~Fall
  <2>1. current' = [current EXCEPT !.pc = "owner"]
        /\ UNCHANGED <<dst, tmp, fate, sweeping, status, fell, stuck>>
    BY <1>3 DEF Prefetch
  <2>2. current' = [current EXCEPT !.pc = "owner", !.payload = current.payload]
    BY <1>1, <2>1 DEF CurrentShaped
  <2>3. PayloadInv'
    BY <1>1, <2>1 DEF CurrentShaped, PayloadInv, TransferInv, Wanted, Imports
  <2> QED BY <1>1, <2>1, <2>2, <2>3, StageKeeps
<1> QED
  BY <1>2, <1>3

(* What a write to the library at hand does to what is covered.            *)
LEMMA WriteCovers ==
    ASSUME TransferInv, current.pc = "owner", NEW h \in DOMAIN current.payload,
           NEW kinds \in SUBSET TransferKinds, dst' = RestoredLibrary(h, kinds), ~stopped,
           UNCHANGED <<transfer, stopped>>, fell' = fell
    PROVE  /\ \A l \in Routed : l # current.lib /\ CoversThen(l) => CoversThen(l)'
           /\ \A k \in kinds : current.payload[h][k] = Src[h][current.lib][k] =>
                 Covers(k, dst'[h][current.to][k], Src[h][current.lib][k])
           /\ \A g \in TransferHandles, k \in TransferKinds : g # h \/ k \notin kinds =>
                 dst'[g][current.to][k] = dst[g][current.to][k]
<1>1. /\ h \in TransferHandles /\ Holding(current.payload[h]) /\ current.lib \in Routed
      /\ current.to = Route(current.lib) /\ current.to \in PlexLibs /\ DstShaped
  BY DEF TransferInv, PayloadInv, Imports, TransferTyped, CurrentShaped, Routed
<1>2. \A g \in TransferHandles, d \in PlexLibs, k \in TransferKinds :
         dst'[g][d][k] = IF g = h /\ d = current.to /\ k \in kinds
                         THEN Merged(k, dst[g][d][k], current.payload[h][k])
                         ELSE dst[g][d][k]
  BY <1>1, CellWritten
<1>3. ASSUME NEW l \in Routed, l # current.lib, CoversThen(l) PROVE CoversThen(l)'
  <2> SUFFICES ASSUME NEW g \in TransferHandles \cap transfer.who, NEW k \in Asked(l), Alone(l),
                      l \in fell => k \in transfer.include
               PROVE  Covers(k, dst'[g][Route(l)][k], Src[g][l][k])
    BY SameTransfer DEF CoversThen
  <2>1. Covers(k, dst[g][Route(l)][k], Src[g][l][k])
    BY <1>3 DEF CoversThen
  <2>2. k \in TransferKinds /\ Route(l) \in PlexLibs /\ l \in SrcLibs
    BY WantedKinds DEF TransferInv, TransferTyped, Routed
  <2>3. CASE g = h /\ Route(l) = current.to /\ k \in kinds
    <3>1. ~Replacing
      BY <1>1, <1>3, <2>3 DEF Alone
    <3>2. Holding(dst[g][Route(l)]) /\ Holding(Src[g][l])
      BY <1>1, <2>2, TransferAssumption DEF DstShaped
    <3>3. Covers(k, Merged(k, dst[g][Route(l)][k], current.payload[h][k]), Src[g][l][k])
      BY <1>1, <2>1, <2>2, <3>1, <3>2, MergedCovers
    <3> QED BY <1>2, <2>2, <2>3, <3>3
  <2>4. CASE ~(g = h /\ Route(l) = current.to /\ k \in kinds)
    BY <1>2, <2>1, <2>2, <2>4
  <2> QED BY <2>3, <2>4
<1>4. ASSUME NEW k \in kinds, current.payload[h][k] = Src[h][current.lib][k]
      PROVE  Covers(k, dst'[h][current.to][k], Src[h][current.lib][k])
  <2>1. Holding(dst[h][current.to])
    BY <1>1 DEF DstShaped
  <2>2. Covers(k, Merged(k, dst[h][current.to][k], current.payload[h][k]), current.payload[h][k])
    BY <1>1, <2>1, MergedCovers
  <2> QED BY <1>1, <1>2, <1>4, <2>2
<1> QED
  BY <1>1, <1>2, <1>3, <1>4

(* A step of the import, the library at hand staying the same.              *)
LEMMA ImportKeeps ==
    ASSUME TransferInv, current.pc = "owner", status = "running",
           NEW h \in DOMAIN current.payload, NEW kinds \in SUBSET TransferKinds,
           dst' = RestoredLibrary(h, kinds), NEW stage \in {"owner", "finish"}, NEW upto, NEW users,
           current' = [current EXCEPT !.pc = stage, !.phase = upto, !.users = users],
           short => short', UNCHANGED <<transfer, remaining, tmp, stopped, status, fell, stuck>>,
           stage = "finish" => stopped, upto \in {"watch", "playlists", "collections", "ratings", "done"},
           WrittenInv'
    PROVE  TransferInv'
<1>1. /\ current'.pc = stage /\ current'.lib = current.lib /\ current'.to = current.to
      /\ current'.route = current.route /\ current'.payload = current.payload
      /\ current' = [pc |-> current'.pc, lib |-> current'.lib, to |-> current'.to,
                     route |-> current'.route, payload |-> current'.payload,
                     phase |-> current'.phase, users |-> current'.users]
      /\ TransferTyped /\ CurrentShaped
  BY DEF TransferInv, TransferTyped, CurrentShaped
<1>2. /\ h \in TransferHandles /\ Holding(current.payload[h]) /\ current.to \in PlexLibs /\ DstShaped
  BY DEF TransferInv, PayloadInv, Imports, TransferTyped, CurrentShaped, Routed
<1>3. DstShaped'
  BY <1>2, CellWritten
<1>4. TransferTyped'
  BY <1>1, <1>3, SameTransfer DEF TransferTyped, CurrentShaped, Imports
<1>5. FileInv'
  BY <1>1 DEF TransferInv, FileInv, Imports
<1>6. PayloadInv'
  <2>1. Wanted(current)' = Wanted(current)
    BY <1>1, SameCurrent
  <2> QED BY <1>1, <2>1 DEF TransferInv, PayloadInv, Imports
<1>7. DoneInv'
  <2> SUFFICES ASSUME ~stopped, ~short', NEW l \in Routed \ remaining, ~InHand(l)'
               PROVE  CoversThen(l)'
    BY SameTransfer DEF DoneInv
  <2>1. l # current.lib /\ ~InHand(l)
    BY <1>1 DEF InHand
  <2>2. CoversThen(l)
    BY <2>1 DEF TransferInv, DoneInv
  <2> QED BY <2>1, <2>2, WriteCovers
<1> QED
  BY <1>4, <1>5, <1>6, <1>7 DEF TransferInv

LEMMA OwnerPhaseKeeps ==
    ASSUME TransferInv, OwnerPhase PROVE TransferInv'
<1> DEFINE k == current.phase
           kinds == {k} \cap Wanted(current)
<1>1. /\ status = "running" /\ current.pc = "owner" /\ k # "done"
      /\ UNCHANGED <<transfer, remaining, stopped>> /\ CurrentShaped /\ WrittenInv
      /\ PlexOwner \in DOMAIN current.payload /\ PlexOwner \in TransferHandles
  BY DEF OwnerPhase, TransferInv, TransferTyped, PayloadInv, Imports, TransferHandles
<1>2. CASE Fall /\ UNCHANGED short
  BY <1>1, <1>2, FallKeeps
<1>3. CASE ~(Fall /\ UNCHANGED short)
  <2> DEFINE stage == IF stopped /\ k # "ratings" THEN "finish" ELSE "owner"
             upto == IF stopped THEN "done" ELSE Following(k)
  <2>1. /\ UNCHANGED <<short, tmp, fate, sweeping, status, fell, stuck>>
        /\ dst' = RestoredLibrary(PlexOwner, kinds)
        /\ current' = [current EXCEPT !.phase = upto, !.pc = stage]
    BY <1>3 DEF OwnerPhase
  <2>2. current' = [current EXCEPT !.pc = stage, !.phase = upto, !.users = current.users]
    BY <1>1, <2>1 DEF CurrentShaped
  <2>3. kinds \in SUBSET TransferKinds
    BY WantedKinds DEF TransferInv, TransferTyped
  <2>4. upto \in {"watch", "playlists", "collections", "ratings", "done"}
    BY <1>1 DEF Following, WrittenInv
  <2>5. stage \in {"owner", "finish"} /\ (stage = "finish" => stopped)
    OBVIOUS
  <2>6. /\ current'.pc = stage /\ current'.lib = current.lib /\ current'.to = current.to
        /\ current'.route = current.route /\ current'.phase = upto /\ current'.users = current.users
    BY <1>1, <2>2 DEF CurrentShaped
  <2>7. Wanted(current)' = Wanted(current)
    BY <1>1, <2>6, SameCurrent
  <2>8. ~stopped => Passed' = Passed \cup {k}
    BY <1>1, <2>6 DEF Passed, Following, WrittenInv, TransferKinds
  <2> HIDE DEF kinds, upto, stage
  <2>9. WrittenInv'
    <3>1. ASSUME ~stopped, ~short, NEW h \in TransferHandles \cap transfer.who, h = PlexOwner,
                 NEW x \in Passed' \cap Wanted(current)
          PROVE  Covers(x, dst'[h][current.to][x], Src[h][current.lib][x])
      <4>1. x \in TransferKinds
        BY WantedKinds DEF TransferInv, TransferTyped
      <4>2. CASE x \in kinds
        <5>1. current.payload[h][x] = Src[h][current.lib][x]
          BY <1>1, <3>1 DEF TransferInv, PayloadInv, Imports
        <5> QED BY <1>1, <2>1, <2>3, <3>1, <4>2, <5>1, WriteCovers
      <4>3. CASE x \notin kinds
        <5>1. x \in Passed \cap Wanted(current)
          BY <2>8, <3>1, <4>3 DEF kinds
        <5>2. Covers(x, dst[h][current.to][x], Src[h][current.lib][x])
          BY <1>1, <3>1, <5>1 DEF WrittenInv, CoveredAt
        <5>3. dst'[h][current.to][x] = dst[h][current.to][x]
          BY <1>1, <2>1, <2>3, <3>1, <4>1, <4>3, WriteCovers
        <5> QED BY <5>2, <5>3
      <4> QED BY <4>2, <4>3
    <3>2. ASSUME ~stopped, ~short, NEW h \in TransferHandles \cap transfer.who, h \in current.users,
                 NEW x \in Wanted(current)
          PROVE  Covers(x, dst'[h][current.to][x], Src[h][current.lib][x])
      <4>1. x \in TransferKinds
        BY WantedKinds DEF TransferInv, TransferTyped
      <4>2. Covers(x, dst[h][current.to][x], Src[h][current.lib][x])
        BY <1>1, <3>2 DEF WrittenInv, CoveredAt
      <4>3. CASE h = PlexOwner /\ x \in kinds
        <5>1. current.payload[h][x] = Src[h][current.lib][x]
          BY <1>1, <3>2, <4>3 DEF TransferInv, PayloadInv, Imports
        <5> QED BY <1>1, <2>1, <2>3, <3>2, <4>3, <5>1, WriteCovers
      <4>4. CASE ~(h = PlexOwner /\ x \in kinds)
        BY <1>1, <2>1, <2>3, <3>2, <4>1, <4>2, <4>4, WriteCovers
      <4> QED BY <4>3, <4>4
    <3> QED
      BY <1>1, <2>1, <2>4, <2>5, <2>6, <2>7, <3>1, <3>2 DEF WrittenInv, CoveredAt
  <2> QED BY <1>1, <2>1, <2>2, <2>3, <2>4, <2>5, <2>9, ImportKeeps
<1> QED
  BY <1>2, <1>3

LEMMA RestoreUserKeeps ==
    ASSUME TransferInv, NEW u \in Sharers, RestoreUser(u) PROVE TransferInv'
<1> DEFINE wanted == Wanted(current)
           users == current.users \cup {u}
<1>1. /\ status = "running" /\ current.pc = "owner" /\ u \in DOMAIN current.payload /\ u # PlexOwner
      /\ UNCHANGED <<transfer, remaining, tmp, fate, sweeping, stopped, status, fell, stuck>>
      /\ current' = [current EXCEPT !.users = users]
      /\ CurrentShaped /\ WrittenInv
      /\ wanted \subseteq TransferKinds
  BY TransferAssumption, WantedKinds DEF RestoreUser, Gathered, TransferInv, TransferTyped
<1>2. PICK kinds \in SUBSET TransferKinds :
        /\ dst' = RestoredLibrary(u, kinds)
        /\ short => short'
        /\ kinds = wanted \/ short'
  <2>1. CASE UNCHANGED short /\ dst' = RestoredLibrary(u, wanted)
    BY <1>1, <2>1
  <2>2. CASE short' /\ dst' = RestoredLibrary(u, wanted \ {"collections", "ratings"})
    <3>1. wanted \ {"collections", "ratings"} \in SUBSET TransferKinds
      BY <1>1
    <3> QED BY <2>2, <3>1
  <2> QED BY <2>1, <2>2 DEF RestoreUser, FailShort
<1>3. current' = [current EXCEPT !.pc = "owner", !.phase = current.phase, !.users = users]
  BY <1>1 DEF CurrentShaped
<1>4. /\ current'.pc = "owner" /\ current'.lib = current.lib /\ current'.to = current.to
      /\ current'.route = current.route /\ current'.phase = current.phase /\ current'.users = users
  BY <1>1 DEF CurrentShaped
<1>5. Wanted(current)' = wanted /\ Passed' = Passed
  BY <1>1, <1>4, SameCurrent DEF Passed
<1>6. WrittenInv'
  <2>1. ASSUME ~stopped, ~short', NEW h \in TransferHandles \cap transfer.who, NEW x \in wanted,
               \/ h = PlexOwner /\ x \in Passed
               \/ h \in users
        PROVE  Covers(x, dst'[h][current.to][x], Src[h][current.lib][x])
    <3>1. CASE h = u
      <4>1. x \in kinds /\ current.payload[h][x] = Src[h][current.lib][x]
        BY <1>1, <1>2, <2>1, <3>1 DEF TransferInv, PayloadInv, Imports
      <4> QED BY <1>1, <1>2, <2>1, <3>1, <4>1, WriteCovers
    <3>2. CASE h # u
      <4>1. Covers(x, dst[h][current.to][x], Src[h][current.lib][x])
        BY <1>1, <1>2, <2>1, <3>2 DEF WrittenInv, CoveredAt
      <4>2. dst'[h][current.to][x] = dst[h][current.to][x]
        BY <1>1, <1>2, <2>1, <3>2, WriteCovers
      <4> QED BY <4>1, <4>2
    <3> QED BY <3>1, <3>2
  <2> HIDE DEF wanted, users
  <2> QED BY <1>1, <1>4, <1>5, <2>1 DEF WrittenInv, CoveredAt
<1>7. current.phase \in {"watch", "playlists", "collections", "ratings", "done"}
  BY <1>1 DEF WrittenInv
<1> QED
  BY <1>1, <1>2, <1>3, <1>6, <1>7, ImportKeeps

LEMMA FinishKeeps ==
    ASSUME TransferInv, Finish PROVE TransferInv'
<1>1. /\ status = "running" /\ current.pc \in {"owner", "finish"} /\ current' = NoLibrary
      /\ UNCHANGED <<transfer, dst, remaining, sweeping, stopped, status, fell, short>>
      /\ TransferTyped /\ CurrentShaped /\ current.lib \in Routed /\ current.to = Route(current.lib)
      /\ current.pc = "finish" \/ (current.phase = "done" /\ current.users = Gathered)
      /\ WrittenInv
  BY DEF Finish, TransferInv, TransferTyped, CurrentShaped
<1>2. /\ current'.pc = "idle" /\ current'.route = "direct" /\ current'.phase = "watch"
      /\ current'.users = {}
      /\ current' = [pc |-> current'.pc, lib |-> current'.lib, to |-> current'.to,
                     route |-> current'.route, payload |-> current'.payload,
                     phase |-> current'.phase, users |-> current'.users]
  BY <1>1 DEF NoLibrary
<1>3. DstShaped'
  BY <1>1 DEF TransferTyped, DstShaped
<1>4. TransferTyped'
  BY <1>1, <1>2, <1>3 DEF TransferTyped, CurrentShaped
<1>5. FileInv'
  <2>1. (tmp' = tmp \ {current.lib} /\ stuck' = stuck)
        \/ (tmp' = tmp /\ stuck' = stuck \cup {current.lib})
    BY DEF Finish
  <2> QED BY <1>1, <1>2, <2>1 DEF TransferInv, FileInv, Imports
<1>6. PayloadInv' /\ WrittenInv'
  BY <1>2 DEF PayloadInv, WrittenInv, Imports
<1>7. \A l : CoversThen(l) => CoversThen(l)'
  BY <1>1, SameTransfer DEF CoversThen
<1>8. ASSUME ~stopped, ~short PROVE CoversThen(current.lib)
  <2>1. current.pc = "owner" /\ current.phase = "done" /\ current.users = Gathered
    BY <1>1, <1>8 DEF WrittenInv
  <2>2. Passed = TransferKinds
    BY <2>1 DEF Passed
  <2> SUFFICES ASSUME NEW h \in TransferHandles \cap transfer.who, NEW k \in Asked(current.lib),
                      current.lib \in fell => k \in transfer.include
               PROVE  Covers(k, dst[h][current.to][k], Src[h][current.lib][k])
    BY <1>1 DEF CoversThen
  <2>3. k \in Wanted(current) /\ k \in TransferKinds
    <3>1. k \in Wanted(current)
      BY <1>1 DEF Wanted, Asked, CurrentShaped
    <3> QED BY <1>1, <3>1, WantedKinds DEF TransferTyped
  <2>4. CASE h = PlexOwner
    BY <1>1, <1>8, <2>1, <2>2, <2>3, <2>4 DEF WrittenInv, CoveredAt
  <2>5. CASE h # PlexOwner
    <3>1. h \in DOMAIN current.payload
      BY <1>8, <2>1 DEF TransferInv, PayloadInv, Imports
    <3>2. h \in current.users
      BY <2>1, <2>5, <3>1 DEF Gathered
    <3> QED BY <1>1, <1>8, <2>1, <2>3, <3>2 DEF WrittenInv, CoveredAt
  <2> QED BY <2>4, <2>5
<1>9. DoneInv'
  <2> SUFFICES ASSUME ~stopped, ~short, NEW l \in Routed \ remaining PROVE CoversThen(l)'
    BY <1>1, SameTransfer DEF DoneInv
  <2>1. CASE l = current.lib
    BY <1>7, <1>8, <2>1
  <2>2. CASE l # current.lib
    BY <1>7, <2>2 DEF TransferInv, DoneInv, InHand
  <2> QED BY <2>1, <2>2
<1> QED
  BY <1>4, <1>5, <1>6, <1>9 DEF TransferInv

(* The sweep keeps every title of the source.                               *)
LEMMA SweepKeeps ==
    ASSUME TransferInv, status = "sweeping", NEW h \in TransferHandles, NEW titles,
           dst' = Swept(h, titles), short => short', ~short' => TitlesOf(h) \subseteq titles,
           UNCHANGED <<transfer, remaining, current, tmp, stopped, status, fell, stuck>>
    PROVE  TransferInv'
<1>1. TransferTyped /\ CurrentShaped /\ DstShaped /\ current.pc = "idle"
  BY DEF TransferInv, TransferTyped
<1> DEFINE cell(d) == [dst[h][d] EXCEPT !.playlists = @ \cap titles]
<1>2. \A d \in PlexLibs :
         /\ Holding(cell(d)) /\ cell(d)["playlists"] = dst[h][d]["playlists"] \cap titles
         /\ \A k \in TransferKinds \ {"playlists"} : cell(d)[k] = dst[h][d][k]
  <2> TAKE d \in PlexLibs
  <2>1. Holding(dst[h][d])
    BY <1>1 DEF DstShaped
  <2> QED BY <2>1 DEF Holding, TransferKinds
<1>3. /\ Table(dst', PlexLibs)
      /\ \A g \in TransferHandles, d \in PlexLibs :
            dst'[g][d] = IF g = h /\ d \in Keys THEN cell(d) ELSE dst[g][d]
  <2> DEFINE row == [d \in PlexLibs |-> IF d \in Keys THEN cell(d) ELSE dst[h][d]]
  <2>1. dst' = [dst EXCEPT ![h] = row]
    BY DEF Swept
  <2>2. \A d \in PlexLibs : row[d] = IF d \in Keys THEN cell(d) ELSE dst[h][d]
    OBVIOUS
  <2>3. row = [d \in PlexLibs |-> row[d]]
    OBVIOUS
  <2> HIDE DEF row, cell
  <2>4. \A g \in TransferHandles : dst'[g] = IF g = h THEN row ELSE dst[g]
    BY <1>1, <2>1 DEF DstShaped, Table
  <2>5. Table(dst', PlexLibs)
    BY <1>1, <2>1, <2>3, <2>4 DEF DstShaped, Table
  <2> QED BY <2>2, <2>4, <2>5
<1> HIDE DEF cell
<1>5. DstShaped'
  BY <1>1, <1>2, <1>3 DEF DstShaped, Table, Holding
<1>6. ASSUME ~short', NEW l \in Routed, CoversThen(l) PROVE CoversThen(l)'
  <2> SUFFICES ASSUME NEW g \in TransferHandles \cap transfer.who, NEW k \in Asked(l), Alone(l),
                      l \in fell => k \in transfer.include
               PROVE  Covers(k, dst'[g][Route(l)][k], Src[g][l][k])
    BY SameTransfer DEF CoversThen
  <2>1. Covers(k, dst[g][Route(l)][k], Src[g][l][k])
    BY <1>6 DEF CoversThen
  <2>2. k \in TransferKinds /\ Route(l) \in PlexLibs /\ l \in transfer.libs \cap SrcLibs
    BY <1>1, WantedKinds DEF TransferTyped, Routed
  <2>3. CASE g = h /\ Route(l) \in Keys /\ k = "playlists"
    <3>1. dst'[g][Route(l)][k] = dst[g][Route(l)][k] \cap titles
      BY <1>2, <1>3, <2>2, <2>3
    <3>2. Src[g][l].playlists \subseteq titles
      BY <1>6, <2>2, <2>3 DEF TitlesOf
    <3> QED BY <2>1, <2>3, <3>1, <3>2 DEF Covers
  <2>4. CASE ~(g = h /\ Route(l) \in Keys /\ k = "playlists")
    BY <1>2, <1>3, <2>1, <2>2, <2>4
  <2> QED BY <2>3, <2>4
<1>7. DoneInv'
  BY <1>6, SameTransfer DEF TransferInv, DoneInv, InHand
<1>8. TransferTyped' /\ FileInv'
  BY <1>1, <1>5, SameTransfer DEF TransferInv, TransferTyped, CurrentShaped, FileInv
<1>9. PayloadInv' /\ WrittenInv'
  BY <1>1 DEF TransferInv, PayloadInv, WrittenInv, Imports
<1> QED
  BY <1>7, <1>8, <1>9 DEF TransferInv

(* The other steps touch no data.                                          *)
LEMMA RestKeeps ==
    ASSUME TransferInv, UNCHANGED <<transfer, dst, remaining, current, tmp, fell, short, stuck>>,
           stopped => stopped', status' = status \/ (status' \in {"sweeping", "ended"}
                                                     /\ current.pc = "idle" /\ remaining = {})
    PROVE  TransferInv'
<1>1. DoneInv' /\ DstShaped'
  BY DoneStays DEF InHand
<1>2. TransferTyped'
  BY <1>1, SameTransfer DEF TransferInv, TransferTyped, CurrentShaped
<1>3. FileInv'
  BY DEF TransferInv, FileInv
<1>4. PayloadInv' /\ WrittenInv'
  BY DEF TransferInv, PayloadInv, WrittenInv, Wanted, Passed, CoveredAt
<1> QED
  BY <1>1, <1>2, <1>3, <1>4 DEF TransferInv

LEMMA TransferInitHolds == TransferInit => TransferInv
<1> SUFFICES ASSUME TransferInit PROVE TransferInv
  OBVIOUS
<1>1. /\ transfer \in Transfers /\ dst = Dst0 /\ remaining = transfer.libs /\ current = NoLibrary
      /\ tmp = {} /\ status = "running"
  BY DEF TransferInit
<1>2. /\ current.pc = "idle" /\ current.route = "direct" /\ current.phase = "watch" /\ current.users = {}
      /\ current = [pc |-> current.pc, lib |-> current.lib, to |-> current.to,
                    route |-> current.route, payload |-> current.payload,
                    phase |-> current.phase, users |-> current.users]
  BY <1>1 DEF NoLibrary
<1>3. TransferTyped
  BY <1>1, <1>2, TransferAssumption DEF TransferTyped, CurrentShaped, DstShaped
<1>4. FileInv /\ PayloadInv /\ WrittenInv
  BY <1>1, <1>2 DEF FileInv, PayloadInv, WrittenInv, Imports
<1>5. DoneInv
  BY <1>1 DEF DoneInv, Routed
<1> QED
  BY <1>3, <1>4, <1>5 DEF TransferInv

LEMMA TransferKeeps == TransferInv /\ [TransferNext]_transferVars => TransferInv'
<1> SUFFICES ASSUME TransferInv, [TransferNext]_transferVars PROVE TransferInv'
  OBVIOUS
<1>1. CASE StopTransfer
  BY <1>1, RestKeeps DEF StopTransfer
<1>2. CASE StartTransferSweep \/ EndTransfer
  BY <1>2, RestKeeps DEF StartTransferSweep, EndTransfer, Over, TransferInv, TransferTyped
<1>3. CASE TransferEnded \/ UNCHANGED transferVars
  BY <1>3, RestKeeps DEF TransferEnded, transferVars
<1>4. ASSUME NEW h \in TransferHandles, SweepHandle(h) PROVE TransferInv'
  <2>1. CASE UNCHANGED <<dst, short>>
    BY <1>4, <2>1, RestKeeps DEF SweepHandle
  <2>2. CASE UNCHANGED short /\ dst' = Swept(h, TitlesOf(h))
    BY <1>4, <2>2, SweepKeeps DEF SweepHandle
  <2>3. ASSUME NEW t \in TitlesOf(h), short', dst' = Swept(h, TitlesOf(h) \ {t}) PROVE TransferInv'
    BY <1>4, <2>3, SweepKeeps DEF SweepHandle
  <2> QED BY <1>4, <2>1, <2>2, <2>3 DEF SweepHandle, FailShort
<1> QED
  BY <1>1, <1>2, <1>3, <1>4, BeginKeeps, GatherOwnerKeeps, GatherUsersKeeps, SaveKeeps,
     PrefetchKeeps, OwnerPhaseKeeps, RestoreUserKeeps, FinishKeeps DEF TransferNext

(* A job that ended undisturbed has brought over all that was asked for,    *)
(* fallback or not, and a temporary file stays only where an import raised. *)
THEOREM FallbackIsComplete == TransferSpec => []FallbackCompletes
<1>1. TransferInv => FallbackCompletes
  <2> SUFFICES ASSUME TransferInv PROVE AllArrives /\ FileIsForRecovery
    BY DEF FallbackCompletes
  <2>1. FileIsForRecovery
    BY DEF TransferInv, FileInv, FileIsForRecovery, Imports
  <2>2. AllArrives
    BY DEF TransferInv, TransferTyped, DoneInv, InHand, CoversThen, AllArrives
  <2> QED BY <2>1, <2>2
<1> QED
  BY <1>1, TransferInitHolds, TransferKeeps, PTL DEF TransferSpec

=============================================================================
