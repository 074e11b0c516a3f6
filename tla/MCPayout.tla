------------------------------ MODULE MCPayout ------------------------------
(* Instances of Payout for TLC. *)
EXTENDS Payout

CONSTANTS r, a, b, j, w, v, h

World(chain, ps, fs) == [chain |-> chain, procs |-> ps \cup {r}, faults |-> fs]

\* On each rail: approvals that race, sweeps that race with an approval, everything
\* that may be forgotten, and rejections, with and without an approval.
MCWorlds ==
    {World("solana", {a, b, w}, {"crash", "database", "network"}),
     World("solana", {a, w, v}, {"crash", "database", "strand"}),
     World("solana", {a, j, w}, {"create", "network", "crash"}),
     World("stripe", {a, b, h}, {"crash", "database"}),
     World("stripe", {a, b, h}, {"network", "strand", "create"}),
     World("stripe", {a, j}, {"crash", "database"}),
     World("stripe", {j}, {"crash", "database"})}

\* An approval and a rejection at one time, and nothing going wrong.
MCContested == {World("solana", {a, j, w}, {})}
=============================================================================
