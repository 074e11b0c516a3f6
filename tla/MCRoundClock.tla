---------------------------- MODULE MCRoundClock ----------------------------
(***************************************************************************)
(* A duel of a faster and a slower agent.  One tick is 15 seconds: windows *)
(* of 45 and 60 seconds, extensions of 30; the ceiling is lowered from 180 *)
(* to 120 so that it is met before the cap on extensions and after it.     *)
(***************************************************************************)
EXTENDS RoundClock, TLC

CONSTANTS p1, p2, w1, w2

MCSeats == {0, 1}
MCWindow == 0 :> 3 @@ 1 :> 4

Fleet(procs, locking) == [procs |-> procs, locking |-> locking]

\* With locks the processes take turns, without them they race.
MCFleets == {Fleet({p1, w1, w2}, TRUE), Fleet({p1, w1}, FALSE), Fleet({p1, p2}, FALSE)}
=============================================================================
