------------------------------ MODULE MCSeating ------------------------------
(***************************************************************************)
(* Two duels and a mafia table of three, five agents (two of one owner and *)
(* a filler), two requests at a time.                                      *)
(***************************************************************************)
EXTENDS Seating, TLC

CONSTANTS a1, a2, a3, a4, h1, d1, d2, t1, r1, r2

MCOwner == a1 :> "ann" @@ a2 :> "bob" @@ a3 :> "cat" @@ a4 :> "bob" @@ h1 :> "sys"
MCHost == d1 :> a1 @@ d2 :> a2 @@ t1 :> a1

Funds(w, x, y, z) == a1 :> w @@ a2 :> x @@ a3 :> y @@ a4 :> z @@ h1 :> 0

Situation(tables, funds, limit, what) ==
    [tables |-> tables, funds |-> funds, limit |-> limit, faults |-> what]

MCSituations == {
    \* An agent with coins for both tables and room for one match; one with no coins.
    Situation({d2, t1}, Funds(1, 2, 2, 0), 1, {}),
    \* Two duels, all can pay twice.
    Situation({d1, d2}, Funds(2, 2, 2, 1), 1, {}),
    \* Coins for one table out of two.
    Situation({d1, t1}, Funds(1, 1, 1, 1), 2, {}),
    \* What goes wrong at a table of either game.
    Situation({d1}, Funds(2, 1, 2, 0), 2, FaultKinds),
    Situation({t1}, Funds(1, 1, 1, 1), 1, FaultKinds)}

Slots == Permutations(Requests)
=============================================================================
