--------------------------- MODULE MCMatchmaker ---------------------------
(***************************************************************************)
(* Three agents and up to two matchers: the queue of pairs and the queue   *)
(* of tables of two or three.                                              *)
(***************************************************************************)
EXTENDS Matchmaker, TLC

CONSTANTS a1, a2, a3, m1, m2

MCOwner == a1 :> "ann" @@ a2 :> "bob" @@ a3 :> "cat"
MCNear == {{a1, a2}}

Quota(x, y, z) == a1 :> x @@ a2 :> y @@ a3 :> z

Queue(queue, matchers, target, bids, quota, returning, aging, broke, what) ==
    [queue |-> queue, matchers |-> matchers, target |-> target, least |-> 2, bids |-> bids,
     quota |-> quota, returning |-> returning, aging |-> aging, broke |-> broke, faults |-> what]

MCMarkets == {
    \* One matcher of pairs, and an agent that cannot pay.
    Queue("pair", {m1}, 2, {1}, Quota(1, 1, 1), {}, Agents, {a1}, {}),
    \* ... and two.
    Queue("pair", {m1, m2}, 2, {1}, Quota(1, 1, 1), {}, {a2, a3}, {a1}, {}),
    \* An agent that changes its mind while two matchers are at it.
    Queue("pair", {m1, m2}, 2, {1}, Quota(2, 1, 0), {a1}, {}, {}, {}),
    \* ... and about the stake, with one matcher that fails.
    Queue("pair", {m1}, 2, {1, 2}, Quota(2, 1, 0), {a1}, {}, {}, {"crash", "database"}),
    \* Tables of two or three.
    Queue("group", {m1}, 3, {1}, Quota(1, 1, 1), {}, Agents, {a1}, {"crash"})}
=============================================================================
