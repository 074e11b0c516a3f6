---------------------------- MODULE MCReadyCheck ----------------------------
(***************************************************************************)
(* A duel and the fleets that may sweep it: one process or two, dependable *)
(* or not.                                                                 *)
(***************************************************************************)
EXTENDS ReadyCheck

CONSTANTS s1, s2

Fleet(sweepers, what) == [sweepers |-> sweepers, faults |-> what]

\* One process that may crash, and a fleet to which everything happens.
MCDeployments == {Fleet({s1}, {"crash"}), Fleet({s1, s2}, {"crash", "database"})}

\* Two processes and nothing going wrong.
MCTwoSweepers == {Fleet({s1, s2}, {})}
=============================================================================
