------------------------------- MODULE MCFanOut -------------------------------
(* Instances of FanOut for TLC. *)
EXTENDS FanOut

CONSTANTS a1, a2

MCAddresses == {a1, a2}

J(kind, replace, cap) == [kind |-> kind, replace |-> replace, cap |-> cap]

\* Two destinations at once or one, with belts and without.
MCMixedJobs == {J("direct", TRUE, 0), J("restore", TRUE, 1),
                J("adapter", TRUE, 0), J("plex snapshot", FALSE, 0),
                J("adapter snapshot", FALSE, 0)}

===============================================================================
