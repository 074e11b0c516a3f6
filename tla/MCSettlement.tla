---------------------------- MODULE MCSettlement ----------------------------
(* Instances of Settlement for TLC. *)
EXTENDS Settlement

CONSTANTS A, B, r, t, w, v, d, e

World(rs, ws, ds, fs, played, forced, absent, fl) ==
    [requests |-> rs, sweepers |-> ws, disputes |-> ds, faults |-> fs, played |-> played,
     forced |-> forced, absent |-> absent, flagged |-> fl]

MCSeats == {A, B}
MCRequests == {r, t}
MCSweepers == {w, v}
MCDisputes == {d, e}

\* A crash with each other fault, where request and sweeper end the match
\* differently; no Redis; two disputes; two sweepers.
MCWorlds ==
    {World({r}, {w}, {d}, {f, "crash"}, A, B, {}, FALSE) :
        f \in {"integrity", "gate", "hold", "admin"}}
      \cup {World({r}, {w}, {d}, {"redis", "hold"}, A, Tie, {B}, FALSE),
            World({r, t}, {w}, {}, {"redis", "crash"}, A, B, {A, B}, FALSE)}
      \cup {World({r}, {w}, {d, e}, {"admin"}, A, B, {}, TRUE),
            World({r, t}, {w, v}, {}, {"crash"}, Tie, B, {}, FALSE)}
=============================================================================
