---------------------------- MODULE RestoreSweeps ----------------------------
(* A server is restored by one of two engines: RestoreEngine writes to a    *)
(* Plex server from a payload of one, AdapterTransfer has another kind of   *)
(* server on one of its sides.  A Replace of either ends with a sweep of    *)
(* what the source does not have; this is what both sweeps promise.         *)
EXTENDS RestoreEngine, AdapterTransfer

(* Neither engine's sweep deletes a list that its run has restored, but for *)
(* the pieces of a mixed one: the Plex engine's none that it created or     *)
(* updated (services/restore/plex_native), the adapters' none that they     *)
(* created (services/restore/adapter).  Both compare the destination's      *)
(* lists with the snapshot's names, not with what was written.              *)
SweepsSpareRestored == SweepSparesRestored /\ SweepSparesMade
=============================================================================
