--------------------------- MODULE DirectTransfer ----------------------------
(* A direct transfer between two Plex servers: one library after the other  *)
(* is read into memory and written to the destination; when that fails, it  *)
(* is read again, saved to a temporary file and written; a Replace ends     *)
(* with a sweep of playlists.  The writing of one kind of data is one step: *)
(* its calls are in RestoreEngine.                                          *)
(* Sources: services/direct_transfer/engine.py,                             *)
(* services/library_mapping/lookup.py, services/restore/plex_native.        *)
EXTENDS Naturals, FiniteSets

CONSTANTS
    PlexOwner, Sharers,     \* Sharers: the managed users both servers have
    SrcLibs, PlexLibs,      \* names of libraries
    Src, Dst0,              \* Src[handle][library]: what the source has
    Transfers,
    Skip, Nowhere,          \* outcomes of the mapping that are no library
    MaxFailures             \* bound: calls that fail


TransferHandles == Sharers \cup {PlexOwner}
TransferKinds == {"watch", "playlists", "collections", "ratings"}
Empty == [watch |-> 0, playlists |-> {}, collections |-> {}, ratings |-> 0]
NoData == [h \in {} |-> Empty]

(* What one handle has in one library: two counts and two sets of titles.   *)
Holding(f) == /\ f = [k \in TransferKinds |-> f[k]]
              /\ f["watch"] \in Nat /\ f["ratings"] \in Nat
Table(f, libs) == f = [h \in TransferHandles |-> [l \in libs |-> f[h][l]]]

ASSUME TransferAssumption ==
    /\ PlexOwner \notin Sharers /\ {Skip, Nowhere} \cap PlexLibs = {}
    /\ \A h \in TransferHandles, l \in SrcLibs : Holding(Src[h][l])
    /\ Table(Dst0, PlexLibs) /\ \A h \in TransferHandles, d \in PlexLibs : Holding(Dst0[h][d])
    /\ \A t \in Transfers : /\ t.include \subseteq TransferKinds
                            /\ \A l \in DOMAIN t.metrics : t.metrics[l] \subseteq TransferKinds

VARIABLES
    transfer,   \* the settings; they do not change
    dst,        \* dst[handle][library]: what the destination has
    remaining,  \* libraries that were not begun
    current,    \* the library being transferred
    tmp,        \* libraries with a temporary file on disk
    fate,       \* fate[library]: what the dashboard says
    sweeping,   \* the handles whose playlists are still to be swept
    stopped, failures,
    status,     \* of the job
    fell, short, stuck  \* history: fell back; a read came short; not unlinked

transferVars == <<transfer, dst, remaining, current, tmp, fate, sweeping, stopped, failures,
                  status, fell, short, stuck>>

NoLibrary == [pc |-> "idle", lib |-> Nowhere, to |-> Nowhere, route |-> "direct",
              payload |-> NoData, phase |-> "watch", users |-> {}]

Replacing == transfer.mode = "replace"

-----------------------------------------------------------------------------
(* The destination library of a source library: the override of this run,   *)
(* the same name, or the saved mapping, in which an operator's entry beats  *)
(* the same name and an automatic one does not.                             *)

SameName(l) == IF l \in PlexLibs THEN l ELSE Nowhere

Saved(l) ==
    LET to == IF l \in DOMAIN transfer.saved THEN transfer.saved[l].to ELSE Nowhere
        by == IF l \in DOMAIN transfer.saved THEN transfer.saved[l].by ELSE "nobody"
    IN IF by = "operator" /\ to = Skip THEN Skip
       ELSE IF by = "operator" /\ to \in PlexLibs THEN to
       ELSE IF l \in PlexLibs THEN l
       ELSE IF by = "auto" /\ to \in PlexLibs THEN to
       ELSE Nowhere

Route(l) ==
    IF l \in DOMAIN transfer.override
    THEN IF transfer.override[l] \in PlexLibs \cup {Skip} THEN transfer.override[l] ELSE Nowhere
    ELSE IF transfer.ignore THEN SameName(l) ELSE Saved(l)

(* The kinds of data of a library.  The fallback does not look at the       *)
(* choice made for the library.                                             *)
Wanted(c) ==
    IF c.route = "direct" /\ c.lib \in DOMAIN transfer.metrics THEN transfer.metrics[c.lib]
    ELSE transfer.include

(* The users that were selected.  When the server does not tell who owns    *)
(* it, the owner belongs to any selection that is not empty.                *)
Takes(h) == h \in transfer.who \/ (h = PlexOwner /\ ~transfer.email /\ transfer.who # {})

-----------------------------------------------------------------------------
TransferInit ==
    /\ transfer \in Transfers
    /\ dst = Dst0 /\ remaining = transfer.libs /\ current = NoLibrary /\ tmp = {}
    /\ fate = [l \in transfer.libs |-> "queued"] /\ sweeping = {}
    /\ stopped = FALSE /\ failures = 0 /\ status = "running"
    /\ fell = {} /\ short = FALSE /\ stuck = {}

CallFails == failures < MaxFailures /\ failures' = failures + 1
CallWorks == UNCHANGED failures

(* A read that was swallowed: the job goes on with less than there is.      *)
FailShort == CallFails /\ short' = TRUE

StopTransfer ==
    /\ status = "running" /\ ~stopped /\ stopped' = TRUE
    /\ UNCHANGED <<transfer, dst, remaining, current, tmp, fate, sweeping, failures, status, fell,
                   short, stuck>>

Begin(l) ==
    /\ status = "running" /\ current.pc = "idle" /\ l \in remaining
    /\ remaining' = remaining \ {l}
    /\ IF stopped THEN UNCHANGED <<current, fate>>
       ELSE IF l \notin SrcLibs \/ Route(l) = Nowhere
       THEN fate' = [fate EXCEPT ![l] = "error"] /\ UNCHANGED current
       ELSE IF Route(l) = Skip
       THEN fate' = [fate EXCEPT ![l] = "skipped"] /\ UNCHANGED current
       ELSE /\ current' = [NoLibrary EXCEPT !.pc = "gather", !.lib = l, !.to = Route(l)]
            /\ fate' = [fate EXCEPT ![l] = "active"]
    /\ UNCHANGED <<transfer, dst, tmp, sweeping, stopped, failures, status, fell, short, stuck>>

(* Mutant: a library whose direct attempt failed is given up.               *)
FallGivesUp ==
    /\ current' = NoLibrary /\ fell' = fell \cup {current.lib}
    /\ UNCHANGED <<dst, tmp, fate, sweeping, status, stuck>>

(* An exception: the direct attempt is followed by the fallback, and that   *)
(* one ends the job.                                                        *)
Fall ==
    /\ IF current.route = "direct"
       THEN /\ current' = [NoLibrary EXCEPT !.pc = "gather", !.lib = current.lib, !.to = current.to,
                                   !.route = "chained"]
            /\ fell' = fell \cup {current.lib} /\ UNCHANGED status
       ELSE status' = "failed" /\ UNCHANGED <<current, fell>>
    /\ UNCHANGED <<dst, tmp, fate, sweeping, stuck>>

(* What the reads of a handle return, some kinds left out.                  *)
Reading(h, kinds) ==
    [k \in TransferKinds |-> IF k \in kinds THEN Src[h][current.lib][k] ELSE Empty[k]]

(* The owner's data.  The reads of playlists and collections swallow what   *)
(* fails; those of plays and ratings do not.                                *)
GatherOwner ==
    LET kinds == IF Takes(PlexOwner) THEN Wanted(current) ELSE {}
        Put(got) == /\ current' = [current EXCEPT !.pc = "users", !.payload = [h \in {PlexOwner} |-> got]]
                    /\ UNCHANGED <<dst, tmp, fate, sweeping, status, fell, stuck>>
    IN
    /\ status = "running" /\ current.pc = "gather"
    /\ \/ CallWorks /\ Put(Reading(PlexOwner, kinds)) /\ UNCHANGED short
       \/ \E k \in kinds \cap {"playlists", "collections"} :
             FailShort /\ Put(Reading(PlexOwner, kinds \ {k}))
       \/ kinds \cap {"watch", "ratings"} # {} /\ CallFails /\ Fall /\ UNCHANGED short
    /\ UNCHANGED <<transfer, remaining, stopped>>

(* The managed users' data: one that cannot be read is left out.            *)
GatherUsers ==
    LET who == {u \in Sharers : Takes(u)} IN
    /\ status = "running" /\ current.pc = "users"
    /\ \E lost \in {{}} \cup {{u} : u \in who} :
          /\ IF lost = {} THEN CallWorks /\ UNCHANGED short ELSE FailShort
          /\ current' = [current EXCEPT
                    !.pc = IF current.route = "direct" THEN "prefetch" ELSE "save",
                    !.payload = [h \in {PlexOwner} \cup (who \ lost) |->
                        IF h = PlexOwner THEN @[h] ELSE Reading(h, Wanted(current))]]
    /\ UNCHANGED <<transfer, dst, remaining, tmp, fate, sweeping, stopped, status, fell, stuck>>

(* Phase 2 of the fallback: the temporary file.                             *)
Save ==
    /\ status = "running" /\ current.pc = "save"
    /\ \/ /\ CallWorks /\ tmp' = tmp \cup {current.lib}
          /\ current' = [current EXCEPT !.pc = "prefetch"]
          /\ UNCHANGED <<dst, fate, sweeping, status, fell, stuck>>
       \/ CallFails /\ Fall
    /\ UNCHANGED <<transfer, remaining, stopped, short>>

(* The destination's sections and playlists.                                *)
Prefetch ==
    /\ status = "running" /\ current.pc = "prefetch"
    /\ \/ /\ CallWorks /\ current' = [current EXCEPT !.pc = "owner"]
          /\ UNCHANGED <<dst, tmp, fate, sweeping, status, fell, stuck>>
       \/ CallFails /\ Fall
    /\ UNCHANGED <<transfer, remaining, stopped, short>>

Bigger(a, b) == IF a > b THEN a ELSE b

(* What is there of one kind after it was restored.  After a Stop no row is *)
(* written any more, but a Replace still deletes collections.               *)
Merged(k, old, got) ==
    IF stopped THEN IF Replacing /\ k = "collections" THEN old \cap got ELSE old
    ELSE CASE k = "watch" /\ Replacing -> IF got > 0 THEN got ELSE old
           [] k = "watch" /\ ~Replacing ->
                 IF transfer.strategy = "sum" THEN old + got ELSE Bigger(old, got)
           [] k = "ratings" -> IF got > 0 /\ (Replacing \/ old = 0) THEN got ELSE old
           [] k = "collections" /\ Replacing -> got
           [] OTHER -> old \cup got

RestoredLibrary(h, kinds) ==
    [dst EXCEPT ![h][current.to] =
        [k \in TransferKinds |->
            IF k \in kinds THEN Merged(k, @[k], current.payload[h][k]) ELSE @[k]]]

Following(k) == CASE k = "watch" -> "playlists" [] k = "playlists" -> "collections"
                  [] k = "collections" -> "ratings" [] OTHER -> "done"

(* One phase of the owner.  The listing of the collections may raise.       *)
OwnerPhase ==
    LET k == current.phase IN
    /\ status = "running" /\ current.pc = "owner" /\ k # "done"
    /\ \/ /\ CallWorks /\ UNCHANGED short
          /\ dst' = RestoredLibrary(PlexOwner, {k} \cap Wanted(current))
          /\ current' = [current EXCEPT 
                !.phase = IF stopped THEN "done" ELSE Following(k),
                !.pc = IF stopped /\ k # "ratings" THEN "finish" ELSE "owner"]
          /\ UNCHANGED <<tmp, fate, sweeping, status, fell, stuck>>
       \/ /\ k = "collections" /\ k \in Wanted(current) /\ CallFails /\ Fall /\ UNCHANGED short
    /\ UNCHANGED <<transfer, remaining, stopped>>

Gathered == DOMAIN current.payload \ {PlexOwner}

(* The phases of a managed user; an exception ends them and is swallowed.   *)
RestoreUser(u) ==
    LET kinds == Wanted(current) IN
    /\ status = "running" /\ current.pc = "owner" /\ current.phase = "done"
    /\ u \in Gathered \ current.users
    /\ current' = [current EXCEPT !.users = @ \cup {u}]
    /\ \/ CallWorks /\ UNCHANGED short /\ dst' = RestoredLibrary(u, kinds)
       \/ "collections" \in kinds /\ FailShort
          /\ dst' = RestoredLibrary(u, kinds \ {"collections", "ratings"})
    /\ UNCHANGED <<transfer, remaining, tmp, fate, sweeping, stopped, status, fell, stuck>>

(* The temporary file goes when the import did not raise.                   *)
Finish ==
    /\ status = "running"
    /\ \/ current.pc = "finish"
       \/ current.pc = "owner" /\ current.phase = "done" /\ current.users = Gathered
    /\ \/ CallWorks /\ tmp' = tmp \ {current.lib} /\ UNCHANGED stuck
       \/ /\ current.route = "chained" /\ CallFails
          /\ stuck' = stuck \cup {current.lib} /\ UNCHANGED tmp
    /\ fate' = [fate EXCEPT ![current.lib] = "done"] /\ current' = NoLibrary
    /\ UNCHANGED <<transfer, dst, remaining, sweeping, stopped, status, fell, short>>

-----------------------------------------------------------------------------
(* The sweep of a Replace, by the names of the source's libraries.          *)

Over == status = "running" /\ current.pc = "idle" /\ remaining = {}
Sweeps == Replacing /\ "playlists" \in transfer.include

StartTransferSweep ==
    /\ Over /\ Sweeps
    /\ sweeping' = {PlexOwner} \cup {u \in Sharers : Takes(u)}
    /\ status' = "sweeping"
    /\ UNCHANGED <<transfer, dst, remaining, current, tmp, fate, stopped, failures, fell, short,
                   stuck>>

Keys == transfer.libs \cap PlexLibs

TitlesOf(h) == UNION {Src[h][l].playlists : l \in transfer.libs \cap SrcLibs}

Swept(h, titles) ==
    [dst EXCEPT ![h] = [d \in PlexLibs |->
        IF d \in Keys THEN [dst[h][d] EXCEPT !.playlists = @ \cap titles] ELSE dst[h][d]]]

(* A playlist of the source that cannot be read is not among its titles.    *)
(* The owner's comes first; when its listing fails the sweep ends.          *)
SweepHandle(h) ==
    /\ status = "sweeping" /\ h \in sweeping /\ (h # PlexOwner => PlexOwner \notin sweeping)
    /\ \/ /\ CallWorks /\ UNCHANGED short
          /\ sweeping' = sweeping \ {h} /\ dst' = Swept(h, TitlesOf(h))
       \/ \E t \in TitlesOf(h) :
             /\ FailShort /\ sweeping' = sweeping \ {h} /\ dst' = Swept(h, TitlesOf(h) \ {t})
       \/ /\ CallFails /\ UNCHANGED <<dst, short>>
          /\ sweeping' = IF h = PlexOwner THEN {} ELSE sweeping \ {h}
    /\ UNCHANGED <<transfer, remaining, current, tmp, fate, stopped, status, fell, stuck>>

EndTransfer ==
    /\ (Over /\ ~Sweeps) \/ (status = "sweeping" /\ sweeping = {})
    /\ status' = "ended"
    /\ UNCHANGED <<transfer, dst, remaining, current, tmp, fate, sweeping, stopped, failures,
                   fell, short, stuck>>

-----------------------------------------------------------------------------
TransferEnded == status \in {"ended", "failed"} /\ UNCHANGED transferVars

TransferNext ==
    \/ StopTransfer \/ GatherOwner \/ GatherUsers \/ Save \/ Prefetch \/ OwnerPhase \/ Finish
    \/ StartTransferSweep \/ EndTransfer \/ TransferEnded
    \/ \E l \in remaining : Begin(l)
    \/ \E u \in Sharers : RestoreUser(u)
    \/ \E h \in TransferHandles : SweepHandle(h)

TransferSpec == TransferInit /\ [][TransferNext]_transferVars
-----------------------------------------------------------------------------
Routed == {l \in transfer.libs \cap SrcLibs : Route(l) \in PlexLibs}

Asked(l) == IF l \in DOMAIN transfer.metrics THEN transfer.metrics[l] ELSE transfer.include

Covers(k, there, from) ==
    CASE k = "watch" -> there >= from
      [] k = "ratings" -> from > 0 => there > 0
      [] OTHER -> from \subseteq there

(* Replace makes a library what the last one that was routed to it is.      *)
Alone(l) == Replacing => \A m \in Routed : Route(m) = Route(l) => m = l

(* A job that ends without a Stop and without a read that came short has    *)
(* brought over all that was asked for, of a library that fell back all     *)
(* that the job includes.                                                   *)
AllArrives ==
    status = "ended" /\ ~stopped /\ ~short =>
        \A l \in Routed, h \in TransferHandles \cap transfer.who : \A k \in Asked(l) :
            Alone(l) /\ (l \in fell => k \in transfer.include)
                => Covers(k, dst[h][Route(l)][k], Src[h][l][k])

(* A temporary file, which holds every user's history, stays only for a     *)
(* library whose import raised, and a job that failed in an import has left *)
(* one (engine.py:1361).                                                    *)
FileIsForRecovery ==
    /\ \A l \in tmp : \/ l \in stuck
                      \/ l = current.lib /\ current.pc \in {"prefetch", "owner", "finish"}
    /\ status = "failed" /\ current.pc \in {"prefetch", "owner"} => current.lib \in tmp

(* A library whose direct attempt failed is transferred all the same,       *)
(* whichever call raised (engine.py:526), and the temporary file of the     *)
(* fallback stays only where its import raised.                             *)
FallbackCompletes == AllArrives /\ FileIsForRecovery

=============================================================================
