-------------------------- MODULE MCServerRegistry --------------------------
(* Two Plex servers and an Emby server, two requests at a time.            *)
EXTENDS ServerRegistry, TLC
CONSTANTS p, q, e, na, nb, ua, ub, ka, kb, s, h1, h2
MCBackend == [i \in {p, q, e} |-> IF i = e THEN "emby" ELSE "plex"]
MCMachine == [u \in {ua, ub} |-> u]
Twins == UNION {Permutations(S) : S \in {{h1, h2}, {na, nb}, {ua, ub}, {ka, kb}, {p, q}}}
=============================================================================
