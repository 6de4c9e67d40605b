---------------------------- MODULE MCSyncWorker ----------------------------
(* One pair of Plex servers under each kind of policy.                      *)
EXTENDS SyncWorker
OnePair == <<"p1">>
PlexPlex == [s \in Sides |-> "plex"]
Real(b, p) == [enabled |-> TRUE, dryRun |-> FALSE, bidirectional |-> b, policy |-> p]
Settings == {Real(b, p) : b \in BOOLEAN, p \in {"max", "latest_wins", "source_of_truth"}}
            \cup {[Real(TRUE, "max") EXCEPT !.dryRun = TRUE]}
=============================================================================
