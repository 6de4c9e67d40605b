--------------------------- MODULE MCRestoreFamily ---------------------------
(* The restore engine, the direct transfer, the transfer by adapters and    *)
(* the identity map, in one run of TLC: a behaviour is one of               *)
(* RestoreEngine, DirectTransfer, AdapterTransfer or IdentityMap, and the   *)
(* others stay in an initial state.                                         *)
EXTENDS RestoreSweeps, DirectTransfer, IdentityMap, TLC

VARIABLE part   \* whose behaviour this is
CONSTANTS ow, mu, l1, l2, l3, i1, i2, i3, i4, pa, pb,  \* of the restore
          vi, A, B, C, pr,                          \* of the transfer, with ow, pa and pb
          dO, dA, dB, sm, pz, ca, cz,           \* of the adapters
          X, Y, Z, ann, bob, t1, t2             \* of the identity map

-----------------------------------------------------------------------------
(* Restore: an owner and a managed user, two libraries of films and one of *)
(* music.  Each job restores one kind of data, in each mode and strategy;  *)
(* those with the music have a mixed playlist and one of songs, or songs   *)
(* in a library of films.                                                  *)

MCUsers == {ow, mu}
MCLibraries == {l1, l2, l3}
MCItems == {i1, i2, i3, i4}
MCLibOf == [i \in MCItems |-> CASE i = i3 -> l2 [] i = i4 -> l3 [] OTHER -> l1]
MCFamily == [l \in MCLibraries |-> IF l = l3 THEN "audio" ELSE "video"]
MCTitles == {pa, pb}

Watch(h, i, n, o) == [kind |-> "watch", handle |-> h, library |-> MCLibOf[i], item |-> i,
                       views |-> n, offset |-> o]
Rate(h, i, n) == [kind |-> "ratings", handle |-> h, library |-> MCLibOf[i], item |-> i, value |-> n]
List(h, l, t, S) == [kind |-> "playlists", handle |-> h, library |-> l, title |-> t, members |-> S]
Coll(h, l, t, S) == [kind |-> "collections", handle |-> h, library |-> l, title |-> t, members |-> S]

Data ==
    [watch |-> {Watch(ow, i1, 2, 5), Watch(ow, i3, 0, 0), Watch(mu, i1, 1, 0)},
     ratings |-> {Rate(ow, i1, 3), Rate(ow, i2, 0), Rate(mu, i1, 4)},
     playlists |-> {List(ow, l1, pa, {i1, i3}), List(mu, l2, pb, {i3})},
     mixed |-> {List(ow, l1, pb, {i1, i2, i4}), List(mu, l3, pa, {i4})},
     astray |-> {List(ow, l1, pb, {i4}), List(mu, l1, pb, {i4})},
     collections |-> {Coll(ow, l1, pa, {i1}), Coll(mu, l1, pb, {i2})}]

Same == [h \in MCUsers |-> h]
Job(m, s, kind, ls, us) ==
    [mode |-> m, strategy |-> s, payload |-> Data[kind], include |-> [l \in MCLibraries |-> {kind}],
     libraries |-> ls, users |-> us, home |-> us, identity |-> Same,
     sweeps |-> kind = "playlists", mixed |-> [h \in MCUsers |-> "skip"]]
Music(m, data, how, us) ==
    [Job(m, "higher", "playlists", {l1, l3}, us) EXCEPT
        !.payload = Data[data], !.mixed = [h \in MCUsers |-> how]]

MCJobs ==
    {Job(m, "higher", kind, ls, us) :
        m \in {"merge", "replace"}, kind \in {"watch", "ratings", "playlists", "collections"},
        ls \in {{l1}, {l1, l2}}, us \in {{}, {mu}}}
    \cup {Job("merge", "sum", "watch", ls, {mu}) : ls \in {{l1}, {l1, l2}}}
    \cup {Music(m, "mixed", how, {}) : m \in {"merge", "replace"}, how \in {"skip", "split"}}
    \cup {Music(m, "mixed", "dominant", {mu}) : m \in {"merge", "replace"}}
    \cup {Music("replace", "astray", "skip", {mu})}

MCViews0 == [u \in MCUsers |-> [i \in MCItems |-> IF i = i3 THEN 1 ELSE 0]]
MCRatings0 == [u \in MCUsers |-> [i \in MCItems |-> IF u = ow THEN 1 ELSE 0]]
Was(n, k, u, s, t, S) ==
    [id |-> n, kind |-> k, owner |-> u, shelf |-> s, title |-> t, members |-> S]
MCBoxes0 == {Was(1, "playlists", ow, "video", pa, {i1, i2}),
             Was(2, "playlists", mu, "video", pa, {i3}),
             Was(3, "collections", ow, l1, pb, {i1}), Was(4, "collections", mu, l1, pb, {i1, i2}),
             Was(5, "playlists", ow, "video", pb, {i2, i3})}

-----------------------------------------------------------------------------
(* Transfer: two libraries on either side, one of which has another name    *)
(* there; an owner and a managed user; Merges of both kinds, Replaces,      *)
(* overrides and choices per library.                                       *)
Has(w, ps, cs, rt) == [watch |-> w, playlists |-> ps, collections |-> cs, ratings |-> rt]
TSrc == [h \in {ow, vi} |-> [l \in {A, C} |->
           IF l = A THEN Has(2, {pa}, {pa}, 1) ELSE Has(1, {pb}, {pb}, 2)]]
TDst == [h \in {ow, vi} |-> [d \in {A, B} |->
           IF d = A THEN Has(1, {pr}, {pa, pr}, 0) ELSE Has(3, {}, {}, 1)]]

NoChoice == [l \in {} |-> Skip]
Auto == [l \in {C} |-> [by |-> "auto", to |-> B]]
Operator == [l \in {A} |-> [by |-> "operator", to |-> B]]
TJob(mode, strategy, who, saved) ==
    [mode |-> mode, strategy |-> strategy, who |-> who, email |-> TRUE, libs |-> {A, C},
     include |-> Kinds, metrics |-> NoChoice, override |-> NoChoice, ignore |-> FALSE,
     saved |-> saved]

TJobs == {
    TJob("merge", "higher", {ow, vi}, Auto),
    [TJob("merge", "sum", {ow, vi}, Auto) EXCEPT !.email = FALSE],
    TJob("replace", "higher", {ow, vi}, Auto),
    [TJob("merge", "higher", {ow, vi}, Operator) EXCEPT !.include = Kinds \ {"ratings"}],
    [TJob("merge", "higher", {vi}, Auto) EXCEPT !.override = [l \in {C} |-> Skip]],
    [TJob("replace", "higher", {ow, vi}, Auto) EXCEPT !.ignore = TRUE,
        !.metrics = [l \in {A} |-> {"watch", "collections"}]],
    TJob("replace", "higher", {ow}, [l \in {A, C} |-> IF l = A THEN Operator[A] ELSE Auto[C]])}

MCSharers == {vi}
MCSrcLibs == {A, C}
MCPlexLibs == {A, B}

-----------------------------------------------------------------------------
(* Adapters: an owner and a managed user, a destination of three accounts,  *)
(* two libraries, an item that the destination lacks.  Each job takes a     *)
(* path, a mode and a way for the accounts to match.                        *)
Is(p, b, s, f) == [plays |-> p, begun |-> b, stars |-> s, liked |-> f]
AHistory == [u \in {ow, mu} |-> [i \in {i1, i2, i3} |->
    CASE u = ow /\ i = i1 -> Is(2, FALSE, 8, "no") [] u = ow /\ i = i2 -> Is(1, FALSE, 0, "no")
      [] u = ow /\ i = i3 -> Is(0, TRUE, 0, "yes")
      [] u = mu /\ i = i1 -> Is(1, FALSE, 3, "yes") [] u = mu /\ i = i3 -> Is(3, FALSE, 0, "no")
      [] OTHER -> Is(0, FALSE, 0, "no")]]
AList(n, s, S) == [name |-> n, smart |-> s, items |-> S]
ALists == [u \in {ow, mu} |-> IF u = ow THEN {AList(pa, FALSE, {i1, i2, i3}), AList(sm, TRUE, {i1})}
                             ELSE {AList(pb, FALSE, {i1})}]
ABox(n, k, d, t, S) == [id |-> n, kind |-> k, owner |-> d, name |-> t, items |-> S]
ABoxes == {ABox(1, "playlists", dO, pa, {i1}), ABox(2, "playlists", dB, pz, {i1, i3}),
           ABox(3, "collections", dO, cz, {i1})}
AViews == [d \in {dO, dA, dB} |-> [i \in {i1, i2, i3} |-> IF d = dO THEN 1 ELSE IF d = dB /\ i = i3 THEN 5 ELSE 0]]
NoAccount == [x \in {} |-> dO]
AKinds == {"watch", "ratings", "playlists", "collections"}
To(u, d) == [x \in {u} |-> d]
Base == [path |-> "direct", from |-> "jelly", to |-> "jelly", mode |-> "merge", strategy |-> "higher",
         include |-> AKinds, fanout |-> TRUE, filter |-> {ow, mu}, drop |-> {}, map |-> NoAccount,
         links |-> NoAccount, named |-> To(mu, dB), hidden |-> {}, admins |-> {dO}, mixed |-> "skip",
         strict |-> FALSE]
File == [Base EXCEPT !.path = "file"]
AJobs == {Base,
   [Base EXCEPT !.links = To(mu, dA), !.named = [x \in {ow, mu} |-> IF x = ow THEN dO ELSE dB], !.admins = {dO, dA}],
   [Base EXCEPT !.admins = {dO, dA}],
   [Base EXCEPT !.hidden = {dO}, !.named = To(ow, dO), !.mode = "replace"],
   [Base EXCEPT !.to = "plex", !.strategy = "sum"],
   [Base EXCEPT !.to = "plex", !.mode = "replace"],
   [Base EXCEPT !.from = "plex", !.mode = "replace", !.drop = {ow}],
   [Base EXCEPT !.filter = {mu}, !.map = To(mu, dA), !.mode = "replace"],
   [Base EXCEPT !.fanout = FALSE, !.include = {"watch", "ratings"}],
   [File EXCEPT !.from = "plex", !.mode = "replace", !.mixed = "dominant"],
   [File EXCEPT !.mixed = "split", !.mode = "replace"],
   [File EXCEPT !.strict = TRUE, !.links = To(ow, dA), !.map = To(ow, dO), !.drop = {mu}],
   [File EXCEPT !.admins = {dO, dA}, !.links = To(ow, dA)]}
ACollections == {[name |-> ca, items |-> {i1}]}

MCLibs == <<l1, l2>>
MCLibraryOf == [i \in {i1, i2, i3} |-> MCLibOf[i]]
MCDstLibs == {l1, l2}
MCKnown == {i1, i3}
MCSrcUsers == {mu}
MCDstUsers == {dO, dA, dB}

-----------------------------------------------------------------------------
(* Identity: one human with an account on two Plex servers under two names  *)
(* and on a Jellyfin server, and a namesake on the second Plex server.      *)
IServerOf == [n \in 1..4 |-> CASE n = 1 -> X [] n = 2 -> Y [] n = 3 -> Y [] n = 4 -> Z]
IService == [s \in {X, Y, Z} |-> IF s = Z THEN 2 ELSE 3]
IAccount == [n \in 1..4 |-> CASE n = 1 -> ann [] n = 2 -> bob [] n = 3 -> ann [] n = 4 -> None]
IName == [n \in 1..4 |-> IF n = 3 THEN bob ELSE ann]
Twins == Permutations({t1, t2})

MCLogins == 1..4
MCServers == {X, Y, Z}

-----------------------------------------------------------------------------
FamilyInit ==
    /\ part \in {"restore", "transfer", "adapter", "identity"}
    /\ Init /\ (part = "restore" \/ job = CHOOSE j \in Jobs : TRUE)
    /\ TransferInit /\ (part = "transfer" \/ transfer = CHOOSE j \in Transfers : TRUE)
    /\ ReplayInit /\ (part = "adapter" \/ replay = Base)
    /\ IdentityInit

FamilyNext ==
    \/ part = "restore" /\ Next /\ UNCHANGED <<transferVars, replayVars, identityVars, part>>
    \/ part = "transfer" /\ TransferNext /\ UNCHANGED <<vars, replayVars, identityVars, part>>
    \/ part = "adapter" /\ ReplayNext /\ UNCHANGED <<vars, transferVars, identityVars, part>>
    \/ part = "identity" /\ IdentityNext /\ UNCHANGED <<vars, transferVars, replayVars, part>>

FamilySpec ==
    FamilyInit /\ [][FamilyNext]_<<vars, transferVars, replayVars, identityVars, part>>
=============================================================================
