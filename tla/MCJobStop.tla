------------------------------ MODULE MCJobStop ------------------------------
(* JobStop on two jobs, for several combinations of what the jobs run. *)
EXTENDS JobStop, TLC

CONSTANTS j1, j2

PlexJobs    == j1 :> <<"plex">> @@ j2 :> <<"plex">>
ReplaceJobs == j1 :> <<"plex", "plex">> @@ j2 :> <<"adapter">>
=============================================================================
