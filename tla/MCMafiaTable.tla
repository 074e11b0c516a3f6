---------------------------- MODULE MCMafiaTable ----------------------------
(* Instances of MafiaTable for TLC. *)
EXTENDS MafiaTable

CONSTANTS M, D, V, r, t, w, v, a

MCSeats == {M, D, V}
MCRole == [s \in MCSeats |-> CASE s = M -> "Mafia" [] s = D -> "Doctor" [] OTHER -> "Villager"]
MCRequests == {r, t}
MCSweepers == {w, v}
MCAdmins == {a}

World(rs, ws, as, fs, house, provers, answer, suspects, fl, rake, days) ==
    [requests |-> rs, sweepers |-> ws, admins |-> as, faults |-> fs, house |-> house,
     provers |-> provers, answer |-> answer, suspects |-> suspects, flagged |-> fl,
     rake |-> rake, days |-> days]

\* A crash while proofs come in, and beside missing locks; a held table with two
\* winners; a gate that fails at a table whose town are house bots; a town of which one
\* proves and one does not; a silent house bot and two sweepers for two days; two days
\* without locks.
MCWorlds ==
    {World({r}, {w}, {}, {"crash", "integrity"}, {}, {D}, {M, D}, {V}, FALSE, TRUE, 1),
     World({r}, {w}, {}, {"crash", "redis"}, {}, {}, {M, D}, {V}, FALSE, TRUE, 1),
     World({r}, {w}, {a}, {"admin"}, {}, {D}, {D, V}, {M}, TRUE, TRUE, 1),
     World({r}, {w}, {a}, {"gate"}, {D, V}, {}, {D, V}, {M}, FALSE, TRUE, 1),
     World({r}, {w}, {}, {}, {}, {D}, {D, V}, {M}, FALSE, TRUE, 1),
     World({r, t}, {w, v}, {}, {}, {V}, {}, {D}, {D, V}, FALSE, FALSE, 2),
     World({r}, {w}, {}, {"redis"}, {}, {}, {M, D}, {V}, FALSE, FALSE, 2)}

\* One agent that talks, nothing fails.
MCTalkWorlds == {World({r}, {w}, {}, {}, {}, {}, {}, {}, FALSE, TRUE, 1)}
=============================================================================
