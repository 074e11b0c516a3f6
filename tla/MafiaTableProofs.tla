-------------------------- MODULE MafiaTableProofs --------------------------
(***************************************************************************)
(* What module MafiaTable checks with three seats holds at a table of any  *)
(* number of seats, with any number of requests, sweepers and              *)
(* administrators, whatever is said, done and forced, and whatever fails.  *)
(***************************************************************************)
EXTENDS MafiaTable, TLAPS

-----------------------------------------------------------------------------
(* Types *)

\* Games of at most d days, and the transactions that a table may end with.
Games(d) ==
    [day : 1 .. d, phase : Phases, alive : SUBSET Seats,
     acted : [Seats -> Seats \cup {Nobody, Owing}], shielded : Seats \cup {Nobody},
     missed : [Seats -> Int], winner : {"none", "mafia", "town"}]
Payments == [kind : {"none", "return", "split", "all"}, to : SUBSET Seats]
\* What a process holds in memory.
Memories(d) == [game : Games(d), adds : BOOLEAN, stale : BOOLEAN, pays : Payments]

\* A game goes on while a seat owes an action, and some of the mafia are alive then.
Sound(d, g) ==
    /\ g \in Games(d)
    /\ g.phase # "result" => Pending(g) # {} /\ Living(g, "mafia") # {}

\* A handler that has read the row and is not done.
Writing == {"advance", "verdict", "gate", "save", "settle", "finish"}

\* Processes, and where they may be.
Procs == Players \cup Admins
Steps == {"idle", "refund", "read", "pay"} \cup Writing

\* What it will write is a game that goes on, or one that ended, with an event; only
\* what is written at night, without ending it, has none.
Draft(d, step, m) == step # "idle" =>
    /\ step \in Writing /\ Sound(d, m.game)
    /\ step = "advance" <=> m.game.phase # "result"
    /\ m.adds \/ m.game.phase = "night"

Drafts ==
    /\ mine \in [Procs -> Memories(world.days)]
    /\ \A p \in Players : Draft(world.days, pc[p], mine[p])
    /\ \A a \in Admins : pc[a] \in {"idle", "refund", "read", "pay"}

\* Types, and what they rest on.
Typed ==
    /\ TypeOK /\ Drafts
    /\ Sound(world.days, row.game) /\ (Over <=> row.game.phase = "result")

-----------------------------------------------------------------------------
(* What stands *)

\* Read since the last event.
Fresh(p) == pc[p] # "idle" /\ ~ mine[p].stale
\* Will be written without an event: nothing but a night action is.
Quiet(p) == pc[p] # "idle" /\ ~ mine[p].adds

\* With or without locks.  What is written without an event, however late, is of no later
\* a turn than anything written with one, and all those alive in the latter are alive in it;
\* and what is written with an event follows the row, or is later than the night in it.
Chain == ~ Over =>
    /\ row.behind => row.game.phase = "night"
    /\ \A p \in Players : Fresh(p) =>
        /\ mine[p].game.alive \subseteq row.game.alive /\ Turn(row.game) <= Turn(mine[p].game)
        /\ ~ Quiet(p) /\ row.game.phase = "night" => Turn(row.game) < Turn(mine[p].game)
        /\ ~ Quiet(p) /\ ~ row.behind => Follows(row.game, mine[p].game)
        /\ Quiet(p) /\ ~ row.behind => row.game.phase = "night"
        /\ \A q \in Players : Quiet(q) =>
            /\ mine[p].game.alive \subseteq mine[q].game.alive
            /\ Turn(mine[q].game) <= Turn(mine[p].game)
            /\ ~ Quiet(p) => Turn(mine[q].game) < Turn(mine[p].game)
    /\ ~ row.behind => \A q \in Players : Quiet(q) =>
        row.game.alive \subseteq mine[q].game.alive /\ Turn(mine[q].game) <= Turn(row.game)

\* With locks, whoever is in a handler is alone, and the row is what it has read.
Alone == NoFault({"redis"}) =>
    /\ ~ row.behind
    /\ \A p \in Players : pc[p] # "idle" =>
        lease = p /\ ~ Over /\ ~ mine[p].stale /\ Follows(row.game, mine[p].game)

-----------------------------------------------------------------------------
(* What is paid *)

\* Winners, of world w.
Survivors(w, g) == {s \in g.alive \ w.house : Team(s) = g.winner}

\* What a table of world w which ended with g may have paid, given which seats proved a
\* decision and what became of its hold: to its survivors, but those withheld; back, if
\* nobody won or it was held; or by an administrator.
Owed(w, proved, held, g, o) ==
    \/ /\ o.kind = "split" /\ o.to \subseteq Survivors(w, g)
       /\ \A s \in Survivors(w, g) \ o.to :
             w.rake /\ proved # {} /\ ~ SeatWasAbsent(g, s)
    \/ o.kind = "return" /\ (Survivors(w, g) = {} \/ held # "none")
    \/ o.kind = "all" /\ held = "released"

\* Its pot is disbursed, or held, or somebody is at it; or could not be held.
Accounted ==
    \/ outs # {} \/ hold = "held" \/ ~ NoFault({"admin", "gate"})
    \/ \E a \in Admins : pc[a] # "idle"

\* From the verdict to the terminal write.
Finalizing(p) == pc[p] \in {"verdict", "gate", "save", "settle", "finish"}

\* Nothing was paid, held or saved.
Untouched == outs = {} /\ hold = "none" /\ saved = NoPays /\ \A a \in Admins : pc[a] = "idle"

\* Whatever was paid, or may be, is owed at a table that ends with g.
Justified(g) ==
    /\ \A o \in outs : Owed(world, proven, hold, g, o)
    /\ saved # NoPays => Owed(world, proven, hold, g, saved)
    /\ \A a \in Admins : pc[a] = "pay" => Owed(world, proven, hold, g, mine[a].pays)

\* How far a handler that finalizes has come.
Stage(p) ==
    /\ pc[p] \in {"verdict", "gate", "settle"} => Untouched
    /\ pc[p] \in {"gate", "save", "settle"} => Owed(world, proven, hold, mine[p].game, mine[p].pays)
    /\ pc[p] \in {"save", "finish"} => Accounted
    /\ Finalizing(p) => Justified(mine[p].game)

\* An administrator disburses what it claimed.
Resolving(a) ==
    /\ pc[a] = "refund" => hold = "refunded"
    /\ pc[a] \in {"read", "pay"} => hold = "released"

\* With locks and no crash, a table is finalized once, from the verdict to the finish.
Finalized == NoFault({"crash", "redis"}) =>
    /\ ~ Over /\ (\A p \in Players : ~ Finalizing(p)) => Untouched
    /\ \A p \in Players : Stage(p)
    /\ Over => Accounted /\ Justified(row.game)
    /\ \A a \in Admins : Resolving(a)

-----------------------------------------------------------------------------
(* The engine *)

\* The fields of a world.
LEMMA WorldIs ==
    ASSUME world \in Worlds
    PROVE  /\ world.days \in Nat \ {0} /\ world.house \subseteq Seats
           /\ world.requests \subseteq Requests /\ world.sweepers \subseteq Sweepers
           /\ world.admins \subseteq Admins /\ world.provers \subseteq Seats
BY WorldsAssumption

\* Turns are numbered by day and phase.
LEMMA TurnIs ==
    ASSUME NEW g, NEW h, g.day \in Nat, h.day \in Nat, g.phase \in Phases, h.phase \in Phases
    PROVE  /\ Turn(g) \in Nat
           /\ Turn(g) = Turn(h) <=> g.day = h.day /\ g.phase = h.phase
<1> DEFINE place(f) == CASE f.phase = "night" -> 0 [] f.phase = "discussion" -> 1
                         [] f.phase = "voting" -> 2 [] OTHER -> 3
<1>1. place(g) \in 0 .. 3 /\ place(h) \in 0 .. 3 /\ (place(g) = place(h) <=> g.phase = h.phase)
  BY DEF Phases
<1>2. Turn(g) = 4 * g.day + place(g) /\ Turn(h) = 4 * h.day + place(h)
  BY DEF Turn
<1> HIDE DEF place
<1> QED BY <1>1, <1>2

\* So are those of the games in hand.
LEMMA TurnsIn ==
    ASSUME world \in Worlds
    PROVE  \A g, h \in Games(world.days) :
              Turn(g) \in Nat /\ (Turn(g) = Turn(h) <=> g.day = h.day /\ g.phase = h.phase)
<1>1. world.days \in Nat
  BY WorldsAssumption
<1> SUFFICES ASSUME NEW g \in Games(world.days), NEW h \in Games(world.days)
             PROVE  Turn(g) \in Nat /\ (Turn(g) = Turn(h) <=> g.day = h.day /\ g.phase = h.phase)
  OBVIOUS
<1>2. g.day \in Nat /\ h.day \in Nat /\ g.phase \in Phases /\ h.phase \in Phases
  BY <1>1 DEF Games
<1> QED BY <1>2, TurnIs

\* A doctor shields a seat.
LEMMA ShieldedIs ==
    ASSUME NEW d \in Nat, NEW g \in Games(d), g.phase = "night", Pending(g) = {}
    PROVE  Shielded(g) \subseteq Seats
<1> SUFFICES ASSUME NEW s \in g.alive, Role[s] = "Doctor", g.acted[s] # Nobody
             PROVE  g.acted[s] \in Seats
  BY DEF Shielded
<1>1. s \in Asked(g)
  BY DEF Asked
<1>2. s \in Seats /\ g.acted[s] # Owing
  BY <1>1 DEF Pending, Games
<1> QED BY <1>2 DEF Games

\* A game that goes on, with a seat of the mafia alive and nobody acted, owes actions.
LEMMA FreshPhase ==
    ASSUME NEW g, g.phase \in {"night", "discussion", "voting"}, g.acted = NobodyActed,
           g.alive \subseteq Seats, Living(g, "mafia") # {}
    PROVE  Pending(g) # {}
<1>1. PICK s \in g.alive : Role[s] = "Mafia"
  BY DEF Living, Team
<1>2. s \in Asked(g)
  BY <1>1 DEF Asked
<1>3. g.acted[s] = Owing
  BY <1>1 DEF NobodyActed
<1> QED BY <1>2, <1>3 DEF Pending

\* Resolving a phase that nobody owes an action in enters another one, or ends the game.
LEMMA ResolveIs ==
    ASSUME world \in Worlds, NEW g \in Games(world.days), g.phase # "result",
           Pending(g) = {}, Living(g, "mafia") # {}
    PROVE  /\ Sound(world.days, Resolve(g))
           /\ Resolve(g).phase # g.phase /\ Turn(Resolve(g)) > Turn(g)
           /\ Resolve(g).alive \subseteq g.alive
<1> DEFINE alive == g.alive \ Victims(g)
           shielded == IF g.phase = "night" /\ Shielded(g) # {}
                       THEN CHOOSE s \in Shielded(g) : TRUE ELSE g.shielded
           h == [g EXCEPT !.alive = alive, !.shielded = shielded]
<1>0. world.days \in Nat \ {0}
  BY WorldIs
<1>1. alive \subseteq g.alive /\ alive \subseteq Seats
  BY DEF Games
<1>2. shielded \in Seats \cup {Nobody}
  <2>1. CASE g.phase = "night" /\ Shielded(g) # {}
    <3>1. (CHOOSE s \in Shielded(g) : TRUE) \in Shielded(g)
      BY <2>1
    <3> QED BY <1>0, <2>1, <3>1, ShieldedIs
  <2>2. CASE ~ (g.phase = "night" /\ Shielded(g) # {})
    BY <2>2 DEF Games
  <2> QED BY <2>1, <2>2
<1>3. Resolve(g) = IF g.phase # "discussion" /\ Ends(h) THEN Finished(h) ELSE NextPhase(h)
  BY DEF Resolve
<1>4. g.phase = "discussion" => alive = g.alive
  BY DEF Victims
<1> HIDE DEF alive, shielded
<1>5. /\ h \in Games(world.days) /\ h.phase = g.phase /\ h.alive = alive /\ h.day = g.day
      /\ h.shielded = shielded
  BY <1>1, <1>2 DEF Games
<1> HIDE DEF h
<1>9. g.day \in Nat /\ g.phase \in {"night", "discussion", "voting"}
  BY <1>0 DEF Games, Phases
<1>6. NobodyActed \in [Seats -> Seats \cup {Nobody, Owing}]
  BY DEF NobodyActed
<1>7. CASE g.phase # "discussion" /\ Ends(h)
  <2> DEFINE winner == IF Living(h, "mafia") # {} /\ MafiaPrevails(h) THEN "mafia" ELSE "town"
             f == [h EXCEPT !.phase = "result", !.acted = NobodyActed, !.winner = winner]
  <2>1. Resolve(g) = f
    BY <1>3, <1>7 DEF Finished
  <2>2. winner \in {"none", "mafia", "town"}
    OBVIOUS
  <2> HIDE DEF winner
  <2>3. /\ f \in Games(world.days) /\ f.phase = "result" /\ f.alive = h.alive
        /\ f.day = g.day
    BY <1>5, <1>6, <2>2 DEF Games, Phases
  <2> HIDE DEF f
  <2>4. Turn(f) > Turn(g)
    BY <1>9, <2>3 DEF Turn
  <2> QED BY <1>1, <1>5, <2>1, <2>3, <2>4 DEF Sound
<1>8. CASE ~ (g.phase # "discussion" /\ Ends(h))
  <2> DEFINE day == IF h.phase = "voting" THEN h.day + 1 ELSE h.day
             phase == CASE h.phase = "night" -> "discussion"
                        [] h.phase = "discussion" -> "voting"
                        [] OTHER -> "night"
             f == [h EXCEPT !.acted = NobodyActed, !.day = day, !.phase = phase]
  <2>1. Resolve(g) = f
    BY <1>3, <1>8 DEF NextPhase
  <2>2. Living(h, "mafia") # {}
    <3>1. CASE g.phase = "discussion"
      BY <1>4, <1>5, <3>1 DEF Living
    <3>2. CASE g.phase # "discussion"
      BY <1>8, <3>2 DEF Ends
    <3> QED BY <3>1, <3>2
  <2>3. h.day \in 1 .. world.days /\ h.phase \in Phases
    BY <1>5 DEF Games
  <2>4. day \in 1 .. world.days
    <3>1. h.phase = "voting" => h.day # world.days
      BY <1>5, <1>8 DEF Ends
    <3> QED BY <1>0, <2>3, <3>1
  <2>5. phase \in {"night", "discussion", "voting"} /\ phase # g.phase
    BY <1>5, <2>3 DEF Phases
  <2>9. /\ g.phase = "night" => phase = "discussion" /\ day = g.day
        /\ g.phase = "discussion" => phase = "voting" /\ day = g.day
        /\ g.phase = "voting" => phase = "night" /\ day = g.day + 1
    BY <1>5
  <2> HIDE DEF day, phase
  <2>6. /\ f \in Games(world.days) /\ f.phase = phase /\ f.alive = h.alive
        /\ f.acted = NobodyActed /\ f.day = day
    BY <1>5, <1>6, <2>4, <2>5 DEF Games, Phases
  <2> HIDE DEF f
  <2>7. Living(f, "mafia") # {}
    BY <2>2, <2>6 DEF Living
  <2>8. Pending(f) # {}
    BY <1>1, <1>5, <2>5, <2>6, <2>7, FreshPhase
  <2>10. Turn(f) > Turn(g)
    BY <1>9, <2>6, <2>9 DEF Turn
  <2> QED BY <1>1, <1>5, <2>1, <2>5, <2>6, <2>7, <2>8, <2>10 DEF Sound
<1> QED BY <1>7, <1>8

\* An action of an agent that owes one stands in what is written, or ends the phase; a
\* night that goes on is written with everybody alive who was.
LEMMA SubmitIs ==
    ASSUME world \in Worlds, NEW g, Sound(world.days, g), NEW s \in Pending(g),
           NEW x \in Seats \cup {Nobody}
    PROVE  /\ Sound(world.days, Submit(g, s, x)) /\ Follows(g, Submit(g, s, x))
           /\ Submit(g, s, x).phase = g.phase =>
                Submit(g, s, x).alive = g.alive /\ Turn(Submit(g, s, x)) = Turn(g)
<1> DEFINE acted == [g.acted EXCEPT ![s] = x]
           missed == [g.missed EXCEPT ![s] = @ - 1]
           f == [g EXCEPT !.acted = acted, !.missed = missed]
<1>0. g \in Games(world.days) /\ s \in Seats /\ g.acted[s] = Owing /\ g.phase # "result"
  BY DEF Sound, Pending, Asked, Games
<1>1. acted \in [Seats -> Seats \cup {Nobody, Owing}] /\ missed \in [Seats -> Int]
  BY <1>0 DEF Games
<1>2. \A q \in Seats : g.acted[q] \in {Owing, acted[q]}
  BY <1>0 DEF Games
<1>3. Submit(g, s, x) = IF Pending(f) = {} THEN Resolve(f) ELSE f
  BY DEF Submit, ResolveWhenComplete
<1> HIDE DEF acted, missed
<1>4. /\ f \in Games(world.days) /\ f.phase = g.phase /\ f.alive = g.alive
      /\ f.acted = acted /\ f.day = g.day
  BY <1>0, <1>1 DEF Games
<1> HIDE DEF f
<1>5. Living(f, "mafia") # {}
  BY <1>0, <1>4 DEF Sound, Living
<1>6. CASE Pending(f) = {}
  <2>1. /\ Sound(world.days, Resolve(f))
        /\ Resolve(f).phase # f.phase /\ Turn(Resolve(f)) > Turn(f)
        /\ Resolve(f).alive \subseteq f.alive
    BY <1>0, <1>4, <1>5, <1>6, ResolveIs
  <2>2. Submit(g, s, x) = Resolve(f)
    BY <1>3, <1>6
  <2>3. Turn(f) = Turn(g) /\ Turn(f) \in Nat
    BY <1>0, <1>4, TurnsIn
  <2> QED BY <1>4, <2>1, <2>2, <2>3 DEF Follows
<1>7. CASE Pending(f) # {}
  <2>1. Turn(f) = Turn(g)
    BY <1>0, <1>4, TurnsIn
  <2> QED BY <1>0, <1>2, <1>3, <1>4, <1>5, <1>7, <2>1 DEF Sound, Follows
<1> QED BY <1>6, <1>7

\* Forcing a phase ends it.
LEMMA ForceTimeoutIs ==
    ASSUME world \in Worlds, NEW g, Sound(world.days, g), g.phase # "result"
    PROVE  /\ Sound(world.days, ForceTimeout(g)) /\ Follows(g, ForceTimeout(g))
           /\ ForceTimeout(g).phase # g.phase
<1> DEFINE acted == [s \in Seats |-> IF s \in Pending(g) THEN Nobody ELSE g.acted[s]]
           missed == [s \in Seats |-> g.missed[s] + IF s \in Pending(g) THEN 1 ELSE 0]
           f == [g EXCEPT !.acted = acted, !.missed = missed]
<1>0. g \in Games(world.days) /\ Pending(g) # {} /\ Living(g, "mafia") # {}
  BY DEF Sound
<1>1. acted \in [Seats -> Seats \cup {Nobody, Owing}] /\ missed \in [Seats -> Int]
  BY <1>0 DEF Games
<1>2. ForceTimeout(g) = Resolve(f)
  BY <1>0 DEF ForceTimeout
<1>3. \A s \in Seats : acted[s] = Owing => s \notin Pending(g) /\ g.acted[s] = Owing
  BY SeatsAssumption DEF Nobody, Owing
<1> HIDE DEF acted, missed
<1>4. /\ f \in Games(world.days) /\ f.phase = g.phase /\ f.alive = g.alive
      /\ f.acted = acted /\ f.day = g.day
  BY <1>0, <1>1 DEF Games
<1> HIDE DEF f
<1>5. Pending(f) = {}
  <2>1. Asked(f) = Asked(g) /\ Asked(g) \subseteq Seats
    BY <1>0, <1>4 DEF Asked, Games
  <2> QED BY <1>3, <1>4, <2>1 DEF Pending
<1>6. Living(f, "mafia") # {}
  BY <1>0, <1>4 DEF Living
<1>7. /\ Sound(world.days, Resolve(f))
      /\ Resolve(f).phase # f.phase /\ Turn(Resolve(f)) > Turn(f)
      /\ Resolve(f).alive \subseteq f.alive
  BY <1>0, <1>4, <1>5, <1>6, ResolveIs
<1>8. Turn(f) = Turn(g)
  BY <1>0, <1>4, TurnsIn
<1> QED BY <1>2, <1>4, <1>7, <1>8 DEF Follows

\* A game that is dealt.
LEMMA DealIs == ASSUME world \in Worlds PROVE Sound(world.days, Deal) /\ Deal.phase = "night"
<1>1. 1 \in 1 .. world.days
  BY WorldIs
<1>2. NobodyActed \in [Seats -> Seats \cup {Nobody, Owing}]
  BY DEF NobodyActed
<1>3. Deal \in Games(world.days)
  BY <1>1, <1>2 DEF Deal, Games, Phases
<1>4. Living(Deal, "mafia") # {}
  BY RoleAssumption DEF Living, Team, Deal
<1>5. Pending(Deal) # {}
  BY <1>4, FreshPhase DEF Deal
<1> QED BY <1>3, <1>4, <1>5 DEF Sound, Deal

-----------------------------------------------------------------------------
(* Types are kept *)

\* The memory of a process that is not doing anything.
LEMMA NothingIs == ASSUME world \in Worlds PROVE Nothing \in Memories(world.days)
<1>1. Deal \in Games(world.days) /\ NoPays \in Payments
  BY DealIs DEF Sound, NoPays, Payments
<1> QED BY <1>1 DEF Nothing, Memories

\* What is paid is paid to seats.
LEMMA PaysIs ==
    ASSUME world \in Worlds, NEW d, NEW g \in Games(d), NEW withheld
    PROVE  Pays(g, withheld) \in Payments
<1>1. Humans \subseteq Seats /\ Winners(g) \subseteq Seats
  BY WorldIs DEF Humans, Winners, Games
<1> QED BY <1>1 DEF Pays, Payments

\* A step of one process, that leaves the row alone.
LEMMA TypedMoved ==
    ASSUME Typed, NEW p \in Procs, NEW step \in Steps, Goto(p, step),
           NEW m \in Memories(world.days), mine' = [mine EXCEPT ![p] = m],
           p \in Players => Draft(world.days, step, m),
           p \in Admins => step \in {"idle", "refund", "read", "pay"},
           UNCHANGED <<world, row, proven>>, failed' \subseteq world.faults,
           lease' \in Players \cup {"free"}, hold' \in {"none", "held", "released", "refunded"},
           \A o \in outs' \cup {saved'} : o \in Payments
    PROVE  Typed'
<1>1. pc' \in [Procs -> Steps] /\ pc' = [pc EXCEPT ![p] = step]
  BY DEF Typed, TypeOK, Goto, Procs, Steps, Writing
<1>2. mine' \in [Procs -> Memories(world.days)]
  BY DEF Typed, Drafts
<1>3. TypeOK'
  BY <1>1 DEF Typed, TypeOK, Procs, Steps, Writing, Over, Payments
<1>4. pc \in [Procs -> Steps] /\ mine \in [Procs -> Memories(world.days)]
  BY DEF Typed, TypeOK, Drafts, Procs, Steps, Writing
<1>5. ASSUME NEW q \in Players PROVE Draft(world.days, pc'[q], mine'[q])
  <2>1. q \in Procs
    BY DEF Procs
  <2>2. CASE q = p
    BY <1>1, <1>4, <2>1, <2>2
  <2>3. CASE q # p
    <3>1. pc'[q] = pc[q] /\ mine'[q] = mine[q]
      BY <1>1, <1>4, <2>1, <2>3
    <3> QED BY <3>1 DEF Typed, Drafts
  <2> QED BY <2>2, <2>3
<1>6. ASSUME NEW a \in Admins PROVE pc'[a] \in {"idle", "refund", "read", "pay"}
  <2>1. a \in Procs
    BY DEF Procs
  <2> QED BY <1>1, <1>4, <2>1 DEF Typed, Drafts
<1>7. Drafts'
  BY <1>2, <1>5, <1>6 DEF Drafts
<1> QED BY <1>3, <1>7 DEF Typed, Over

\* A process returns.
LEMMA TypedLeft ==
    ASSUME Typed, NEW p \in Procs, Leave(p),
           UNCHANGED <<world, row, proven>>, failed' \subseteq world.faults,
           hold' \in {"none", "held", "released", "refunded"},
           \A o \in outs' \cup {saved'} : o \in Payments
    PROVE  Typed'
<1>1. world \in Worlds
  BY DEF Typed, TypeOK
<1>2. Nothing \in Memories(world.days)
  BY <1>1, NothingIs
<1>3. lease' \in Players \cup {"free"}
  BY DEF Typed, TypeOK, Leave
<1>4. Draft(world.days, "idle", Nothing) /\ "idle" \in Steps
  BY DEF Draft, Steps
<1> QED BY <1>2, <1>3, <1>4, TypedMoved DEF Leave

\* A handler read the row and computed what it will write.
LEMMA TypedPersisted ==
    ASSUME Typed, NEW p \in Players, NEW g, Sound(world.days, g),
           NEW adds \in BOOLEAN, adds \/ g.phase = "night", Persist(p, g, adds)
    PROVE  Typed'
<1> DEFINE m == [game |-> g, adds |-> adds, stale |-> row.behind, pays |-> NoPays]
           step == IF g.phase = "result" THEN "verdict" ELSE "advance"
<1>1. row.behind \in BOOLEAN /\ NoPays \in Payments
  BY DEF Typed, TypeOK, NoPays, Payments
<1>2. m \in Memories(world.days) /\ m.game = g /\ m.adds = adds
  BY <1>1 DEF Memories, Sound
<1>3. Goto(p, step) /\ mine' = [mine EXCEPT ![p] = m] /\ step \in Steps
  BY DEF Persist, Steps, Writing
<1>4. Draft(world.days, step, m)
  BY <1>2 DEF Draft, Writing
<1>5. lease' \in Players \cup {"free"}
  BY DEF Typed, TypeOK, Persist, Enter
<1>6. p \in Procs /\ (p \in Admins => FALSE)
  BY ActorsAssumption DEF Procs, Players
<1>7. /\ UNCHANGED <<world, row, proven>> /\ failed' \subseteq world.faults
      /\ hold' \in {"none", "held", "released", "refunded"}
      /\ \A o \in outs' \cup {saved'} : o \in Payments
  BY DEF Typed, TypeOK, Persist, money, Payments
<1> HIDE DEF m, step
<1> QED BY <1>2, <1>3, <1>4, <1>5, <1>6, <1>7, TypedMoved

\* An action is asked for while the game goes on.
LEMMA Acted ==
    ASSUME Typed, NEW p \in Players, NEW s \in Seats, NEW x \in Seats \cup {Nobody},
           s \in Pending(row.game)
    PROVE  LET g == Submit(row.game, s, x)
           IN  /\ Sound(world.days, g) /\ Follows(row.game, g)
               /\ g.phase = row.game.phase =>
                    g.alive = row.game.alive /\ Turn(g) = Turn(row.game)
<1>1. Sound(world.days, row.game) /\ world \in Worlds
  BY DEF Typed, TypeOK
<1> QED BY <1>1, SubmitIs

\* A phase is forced on while the game goes on.
LEMMA Forced ==
    ASSUME Typed, row.status = "active"
    PROVE  LET g == ForceTimeout(row.game)
           IN  /\ Sound(world.days, g) /\ Follows(row.game, g)
               /\ g.phase # row.game.phase /\ g # row.game
<1>1. Sound(world.days, row.game) /\ world \in Worlds /\ row.game.phase # "result"
  BY DEF Typed, TypeOK, Over
<1> QED BY <1>1, ForceTimeoutIs

\* The state is written, with what a late writer has not seen.
LEMMA TypedAdvanced ==
    ASSUME Typed, NEW p \in Players, Advance(p)
    PROVE  Typed'
<1>1. p \in Procs /\ p \notin Admins /\ world \in Worlds
  BY ActorsAssumption DEF Procs, Players, Typed, TypeOK
<1>2. /\ pc \in [Procs -> Steps] /\ mine \in [Procs -> Memories(world.days)]
      /\ pc' = [pc EXCEPT ![p] = "idle"]
  BY DEF Typed, TypeOK, Drafts, Procs, Steps, Writing, Advance, Goto
<1>3. mine[p].game \in Games(world.days) /\ mine[p].stale \in BOOLEAN
  BY <1>1, <1>2 DEF Memories
<1>4. /\ mine[p].game.phase # "result" /\ Sound(world.days, mine[p].game)
  BY <1>1 DEF Typed, Drafts, Draft, Advance
<1>5. /\ row' = [row EXCEPT !.game = mine[p].game, !.due = FALSE, !.behind = mine[p].stale]
      /\ row'.game = mine[p].game /\ row'.status = row.status /\ row.status = "active"
  BY DEF Advance, Typed, TypeOK
<1>6. /\ pc' \in [Procs -> Steps] /\ lease' \in Players \cup {"free"}
      /\ UNCHANGED <<world, failed, proven, hold, saved, outs>>
  BY <1>2 DEF Steps, Advance, Typed, TypeOK, money
<1>7. ASSUME NEW q \in Procs
      PROVE  /\ mine'[q] \in Memories(world.days)
             /\ q # p => mine'[q].game = mine[q].game /\ mine'[q].adds = mine[q].adds
  <2>1. mine[q] \in Memories(world.days) /\ [mine[q] EXCEPT !.stale = TRUE] \in Memories(world.days)
    BY <1>2 DEF Memories
  <2>2. mine'[q] = IF q = p THEN Nothing
                   ELSE IF mine[p].adds /\ pc[q] # "idle" THEN [mine[q] EXCEPT !.stale = TRUE]
                   ELSE mine[q]
    BY <1>2 DEF Advance
  <2>3. Nothing \in Memories(world.days)
    BY <1>1, NothingIs
  <2> QED BY <2>1, <2>2, <2>3 DEF Memories
<1>8. mine' \in [Procs -> Memories(world.days)]
  <2>1. mine' = [q \in Procs |-> mine'[q]]
    BY <1>2 DEF Advance
  <2> QED BY <1>7, <2>1
<1>9. ASSUME NEW q \in Players PROVE Draft(world.days, pc'[q], mine'[q])
  <2>1. q \in Procs
    BY DEF Procs
  <2>2. CASE q = p
    BY <1>1, <1>2, <2>2 DEF Draft
  <2>3. CASE q # p
    BY <1>2, <1>7, <2>1, <2>3 DEF Typed, Drafts, Draft
  <2> QED BY <2>2, <2>3
<1>10. ASSUME NEW a \in Admins PROVE pc'[a] \in {"idle", "refund", "read", "pay"}
  <2>1. a \in Procs
    BY DEF Procs
  <2> QED BY <1>2, <2>1 DEF Typed, Drafts
<1>11. Sound(world.days, row.game)' /\ (Over <=> row.game.phase = "result")'
  BY <1>4, <1>5, <1>6 DEF Over
<1>12. Pending(row'.game) # {}
  BY <1>4, <1>5 DEF Sound
<1>13. TypeOK'
  <2>1. row' \in [status : {"active", "finished"}, game : Games(world.days), due : BOOLEAN,
                  behind : BOOLEAN, champion : Seats \cup {Nobody}]
    BY <1>3, <1>5 DEF Typed, TypeOK
  <2>2. row' \in [status : {"active", "finished"}, game : [
                    day : 1 .. world'.days, phase : Phases, alive : SUBSET Seats,
                    acted : [Seats -> Seats \cup {Nobody, Owing}],
                    shielded : Seats \cup {Nobody}, missed : [Seats -> Int],
                    winner : {"none", "mafia", "town"}],
                due : BOOLEAN, behind : BOOLEAN, champion : Seats \cup {Nobody}]
    BY <1>6, <2>1 DEF Games
  <2>3. (Over <=> Pending(row.game) = {})'
    BY <1>5, <1>12 DEF Over
  <2> QED BY <1>6, <2>2, <2>3 DEF Typed, TypeOK, Procs, Steps, Writing
<1> QED BY <1>6, <1>8, <1>9, <1>10, <1>11, <1>13 DEF Typed, Drafts

\* The terminal write.
LEMMA TypedFinished ==
    ASSUME Typed, NEW p \in Players, Finish(p)
    PROVE  Typed'
<1>1. p \in Procs /\ p \notin Admins /\ world \in Worlds
  BY ActorsAssumption DEF Procs, Players, Typed, TypeOK
<1>2. /\ pc \in [Procs -> Steps] /\ mine \in [Procs -> Memories(world.days)]
      /\ pc' = [pc EXCEPT ![p] = "idle"] /\ mine' = [mine EXCEPT ![p] = Nothing]
  BY DEF Typed, TypeOK, Drafts, Procs, Steps, Writing, Finish, Leave, Goto
<1>3. mine[p].game \in Games(world.days) /\ mine[p].game.phase = "result"
      /\ Sound(world.days, mine[p].game)
  BY <1>1, <1>2 DEF Typed, Drafts, Draft, Finish, Memories
<1>4. PICK s : /\ row' = [row EXCEPT !.status = "finished", !.game = mine[p].game, !.due = FALSE,
                                     !.champion = s]
               /\ s \in IF {t \in row.game.alive : Team(t) = mine[p].game.winner} = {}
                        THEN {Nobody} ELSE {t \in row.game.alive : Team(t) = mine[p].game.winner}
  BY DEF Finish
<1>5. s \in Seats \cup {Nobody}
  BY <1>4 DEF Typed, TypeOK
<1>6. /\ row' \in [status : {"active", "finished"}, game : Games(world.days), due : BOOLEAN,
                   behind : BOOLEAN, champion : Seats \cup {Nobody}]
      /\ row'.game = mine[p].game /\ row'.status = "finished"
  BY <1>3, <1>4, <1>5 DEF Typed, TypeOK
<1>7. /\ pc' \in [Procs -> Steps] /\ lease' \in Players \cup {"free"}
      /\ UNCHANGED <<world, failed, proven, hold, saved, outs>>
  BY <1>2 DEF Steps, Finish, Leave, Typed, TypeOK, money
<1>8. Drafts'
  <2>1. Nothing \in Memories(world.days)
    BY <1>1, NothingIs
  <2>2. mine' \in [Procs -> Memories(world.days)]
    BY <1>2, <2>1
  <2>3. ASSUME NEW q \in Players PROVE Draft(world.days, pc'[q], mine'[q])
    <3>1. q \in Procs
      BY DEF Procs
    <3>2. CASE q = p
      BY <1>1, <1>2, <3>2 DEF Draft
    <3>3. CASE q # p
      <4>1. pc'[q] = pc[q] /\ mine'[q] = mine[q]
        BY <1>2, <3>1, <3>3
      <4> QED BY <4>1 DEF Typed, Drafts
    <3> QED BY <3>2, <3>3
  <2>4. ASSUME NEW a \in Admins PROVE pc'[a] \in {"idle", "refund", "read", "pay"}
    <3>1. a \in Procs
      BY DEF Procs
    <3> QED BY <1>2, <3>1 DEF Typed, Drafts
  <2> QED BY <1>7, <2>2, <2>3, <2>4 DEF Drafts
<1>9. Sound(world.days, row.game)' /\ (Over <=> row.game.phase = "result")'
  BY <1>3, <1>6, <1>7 DEF Over
<1>10. Pending(row'.game) = {}
  BY <1>3, <1>6 DEF Pending, Asked
<1>11. TypeOK'
  <2>1. row' \in [status : {"active", "finished"}, game : [
                    day : 1 .. world'.days, phase : Phases, alive : SUBSET Seats,
                    acted : [Seats -> Seats \cup {Nobody, Owing}],
                    shielded : Seats \cup {Nobody}, missed : [Seats -> Int],
                    winner : {"none", "mafia", "town"}],
                due : BOOLEAN, behind : BOOLEAN, champion : Seats \cup {Nobody}]
    BY <1>6, <1>7 DEF Games
  <2>2. (Over <=> Pending(row.game) = {})'
    BY <1>6, <1>10 DEF Over
  <2> QED BY <1>7, <2>1, <2>2 DEF Typed, TypeOK, Procs, Steps, Writing
<1> QED BY <1>8, <1>9, <1>11 DEF Typed

\* The steps of a handler that is not done, or that dies.
LEMMA TypedHandled ==
    ASSUME Typed, NEW p \in Players, Step(p) \/ Crash(p)
    PROVE  Typed'
<1> DEFINE m == [mine[p] EXCEPT !.pays = Pays(mine[p].game, {})]
<1>1. p \in Procs /\ p \notin Admins /\ world \in Worlds
  BY ActorsAssumption DEF Procs, Players, Typed, TypeOK
<1>2. mine \in [Procs -> Memories(world.days)] /\ Draft(world.days, pc[p], mine[p])
  BY DEF Typed, Drafts
<1>3. /\ mine[p] \in Memories(world.days) /\ mine[p].pays \in Payments
      /\ mine[p].game \in Games(world.days)
  BY <1>1, <1>2 DEF Memories
<1>4. /\ lease \in Players \cup {"free"} /\ failed \subseteq world.faults
      /\ hold \in {"none", "held", "released", "refunded"}
      /\ \A o \in outs \cup {saved} : o \in Payments
  BY DEF Typed, TypeOK, Payments
<1>5. ASSUME NEW step \in {"gate", "save", "settle", "finish"}, pc[p] # "idle", pc[p] # "advance",
             NEW pays \in Payments
      PROVE  /\ step \in Steps /\ [mine[p] EXCEPT !.pays = pays] \in Memories(world.days)
             /\ Draft(world.days, step, [mine[p] EXCEPT !.pays = pays])
             /\ Draft(world.days, step, mine[p])
  BY <1>2, <1>3, <1>5 DEF Memories, Draft, Steps, Writing
<1>6. mine = [mine EXCEPT ![p] = mine[p]]
  BY <1>2
<1>7. CASE Advance(p)
  BY <1>7, TypedAdvanced
<1>8. CASE Finish(p)
  BY <1>8, TypedFinished
<1>9. CASE Refused(p) \/ Crash(p)
  BY <1>1, <1>4, <1>9, TypedLeft DEF Refused, Crash, Fault, money
<1>10. CASE Verdict(p)
  <2>1. PICK withheld :
           /\ mine' = [mine EXCEPT ![p] =
                           [mine[p] EXCEPT !.pays = Pays(mine[p].game, withheld)]]
           /\ failed' \subseteq world.faults
    BY <1>2, <1>4, <1>10 DEF Verdict, Fault
  <2>2. Pays(mine[p].game, withheld) \in Payments
    BY <1>1, <1>3, PaysIs
  <2>3. /\ Goto(p, "gate") /\ pc[p] = "verdict"
        /\ UNCHANGED <<world, lease, row, proven, hold, saved, outs>>
    BY <1>10 DEF Verdict, GoOn, money
  <2> DEFINE n == [mine[p] EXCEPT !.pays = Pays(mine[p].game, withheld)]
  <2>4. n \in Memories(world.days) /\ Draft(world.days, "gate", n) /\ "gate" \in Steps
    BY <1>5, <2>2, <2>3
  <2> HIDE DEF n
  <2> QED BY <1>1, <1>4, <2>1, <2>3, <2>4, TypedMoved DEF n
<1>11. CASE Gate(p)
  <2>1. PICK step \in {"save", "settle"} : Goto(p, step)
    BY <1>11 DEF Gate, GoOn
  <2>2. /\ pc[p] = "gate" /\ UNCHANGED <<world, lease, row, proven, failed, saved, outs, mine>>
        /\ hold' \in {"none", "held", "released", "refunded"}
    BY <1>4, <1>11 DEF Gate, GoOn
  <2>3. step \in Steps /\ Draft(world.days, step, mine[p])
    BY <1>3, <1>5, <2>1, <2>2
  <2> QED BY <1>1, <1>3, <1>4, <1>6, <2>1, <2>2, <2>3, TypedMoved
<1>12. CASE GateFails(p)
  <2>1. /\ pc[p] = "gate" /\ UNCHANGED <<world, lease, row, proven, saved, outs, mine>>
        /\ hold' \in {"none", "held", "released", "refunded"} /\ failed' \subseteq world.faults
        /\ Goto(p, "save")
    BY <1>4, <1>12 DEF GateFails, GoOn, Fault
  <2>2. "save" \in Steps /\ Draft(world.days, "save", mine[p])
    BY <1>3, <1>5, <2>1
  <2> QED BY <1>1, <1>3, <1>4, <1>6, <2>1, <2>2, TypedMoved
<1>13. CASE Save(p)
  <2>1. /\ pc[p] = "save" /\ UNCHANGED <<world, lease, row, proven, failed, hold, outs, mine>>
        /\ saved' = mine[p].pays /\ Goto(p, "finish")
    BY <1>13 DEF Save, GoOn
  <2>2. "finish" \in Steps /\ Draft(world.days, "finish", mine[p])
    BY <1>3, <1>5, <2>1
  <2>3. \A o \in outs' \cup {saved'} : o \in Payments
    BY <1>3, <1>4, <2>1
  <2> QED BY <1>1, <1>3, <1>4, <1>6, <2>1, <2>2, <2>3, TypedMoved
<1>14. CASE Settle(p)
  <2>1. /\ pc[p] = "settle" /\ UNCHANGED <<world, lease, row, proven, failed, hold, saved, mine>>
        /\ Goto(p, "finish") /\ Disburse(mine[p].pays)
    BY <1>14 DEF Settle, GoOn
  <2>2. "finish" \in Steps /\ Draft(world.days, "finish", mine[p])
    BY <1>3, <1>5, <2>1
  <2>3. \A o \in outs' \cup {saved'} : o \in Payments
    BY <1>3, <1>4, <2>1 DEF Disburse
  <2> QED BY <1>1, <1>3, <1>4, <1>6, <2>1, <2>2, <2>3, TypedMoved
<1> QED BY <1>7, <1>8, <1>9, <1>10, <1>11, <1>12, <1>13, <1>14 DEF Step

\* The steps of an administrator.
LEMMA TypedResolved ==
    ASSUME Typed, NEW a \in Admins,
           \/ \E action \in {"released", "refunded"} : ResolveHold(a, action)
           \/ Disburses(a) \/ AdminFails(a)
    PROVE  Typed'
<1>1. a \in Procs /\ a \notin Players /\ world \in Worlds
  BY ActorsAssumption DEF Procs, Players, Typed, TypeOK
<1>2. mine \in [Procs -> Memories(world.days)]
  BY DEF Typed, Drafts
<1>3. mine[a] \in Memories(world.days) /\ mine[a].pays \in Payments
  BY <1>1, <1>2 DEF Memories
<1>4. /\ lease \in Players \cup {"free"} /\ failed \subseteq world.faults
      /\ hold \in {"none", "held", "released", "refunded"}
      /\ \A o \in outs \cup {saved} : o \in Payments
  BY DEF Typed, TypeOK, Payments
<1>5. Humans \subseteq Seats
  BY DEF Humans
<1>6. mine = [mine EXCEPT ![a] = mine[a]]
  BY <1>2
<1>7. CASE \E action \in {"released", "refunded"} : ResolveHold(a, action)
  <2>1. PICK action \in {"released", "refunded"} : ResolveHold(a, action)
    BY <1>7
  <2>2. PICK step \in {"read", "refund"} : Goto(a, step)
    BY <2>1 DEF ResolveHold, GoOn
  <2>3. /\ UNCHANGED <<world, lease, row, proven, failed, saved, outs, mine>>
        /\ hold' \in {"none", "held", "released", "refunded"}
    BY <2>1 DEF ResolveHold, GoOn
  <2>4. step \in Steps
    BY DEF Steps
  <2> QED BY <1>1, <1>3, <1>4, <1>6, <2>2, <2>3, <2>4, TypedMoved
<1>8. CASE Refund(a)
  <2>1. [kind |-> "return", to |-> Humans] \in Payments
    BY <1>5 DEF Payments
  <2>2. /\ UNCHANGED <<world, row, proven, failed, hold, saved>> /\ Leave(a)
        /\ \A o \in outs' \cup {saved'} : o \in Payments
    BY <1>4, <1>8, <2>1 DEF Refund, Disburse
  <2> QED BY <1>1, <1>4, <2>2, TypedLeft
<1>9. CASE SettleHeld(a)
  <2>1. /\ UNCHANGED <<world, row, proven, failed, hold, saved>> /\ Leave(a)
        /\ \A o \in outs' \cup {saved'} : o \in Payments
    BY <1>3, <1>4, <1>9 DEF SettleHeld, Disburse
  <2> QED BY <1>1, <1>4, <2>1, TypedLeft
<1>10. CASE AdminFails(a)
  <2>1. /\ UNCHANGED <<world, row, proven, hold, saved, outs>> /\ Leave(a)
        /\ failed' \subseteq world.faults
    BY <1>4, <1>10 DEF AdminFails, Fault, money
  <2> QED BY <1>1, <1>4, <2>1, TypedLeft
<1>11. CASE ReadHeld(a)
  <2> DEFINE pays == IF saved # NoPays THEN saved
                     ELSE IF row.champion = Nobody THEN [kind |-> "return", to |-> Humans]
                     ELSE [kind |-> "all", to |-> {row.champion}]
             n == [mine[a] EXCEPT !.pays = pays]
  <2>1. row.champion \in Seats \cup {Nobody}
    BY DEF Typed, TypeOK
  <2>2. pays \in Payments
    BY <1>4, <1>5, <2>1 DEF Payments
  <2>3. /\ mine' = [mine EXCEPT ![a] = n] /\ Goto(a, "pay")
        /\ UNCHANGED <<world, lease, row, proven, failed, hold, saved, outs>>
    BY <1>2, <1>11 DEF ReadHeld, GoOn, money
  <2> HIDE DEF pays
  <2>4. n \in Memories(world.days) /\ "pay" \in Steps
    BY <1>3, <2>2 DEF Memories, Steps
  <2> HIDE DEF n
  <2> QED BY <1>1, <1>4, <2>3, <2>4, TypedMoved
<1> QED BY <1>7, <1>8, <1>9, <1>10, <1>11 DEF Disburses

\* The clock, proofs and Redis.
LEMMA TypedOutside ==
    ASSUME Typed, WindowEnds \/ RedisFails \/ (\E s \in Seats : ProofArrives(s))
    PROVE  Typed'
<1>1. CASE WindowEnds
  <2>1. /\ row'.game = row.game /\ row'.status = row.status
        /\ UNCHANGED <<world, failed, lease, proven, hold, saved, outs, pc, mine>>
    BY <1>1 DEF WindowEnds, Typed, TypeOK, money
  <2>2. TypeOK'
    BY <1>1, <2>1 DEF WindowEnds, Typed, TypeOK, Over
  <2>3. Drafts'
    BY <2>1 DEF Typed, Drafts
  <2>4. Sound(world.days, row.game)' /\ (Over <=> row.game.phase = "result")'
    BY <2>1 DEF Typed, Over
  <2> QED BY <2>2, <2>3, <2>4 DEF Typed
<1>2. CASE RedisFails
  BY <1>2 DEF RedisFails, Fault, Typed, TypeOK, Drafts, Over, money
<1>3. CASE \E s \in Seats : ProofArrives(s)
  BY <1>3 DEF ProofArrives, Typed, TypeOK, Drafts, Over, money
<1> QED BY <1>1, <1>2, <1>3

\* Every step keeps the types.
LEMMA TypedStep == Typed /\ [Next]_vars => Typed'
<1> SUFFICES ASSUME Typed, [Next]_vars PROVE Typed'
  OBVIOUS
<1>1. Sound(world.days, row.game) /\ world \in Worlds
  BY DEF Typed, TypeOK
<1>2. ASSUME NEW p \in Requests, NEW s \in Seats, NEW x \in Seats \cup {Nobody}, Act(p, s, x)
      PROVE  Typed'
  <2> DEFINE g == Submit(row.game, s, x)
             adds == row.game.phase # "night" \/ g.phase # "night"
  <2>1. p \in Players /\ s \in Pending(row.game) /\ Persist(p, g, adds)
    BY <1>2 DEF Act, Players
  <2>2. Sound(world.days, g)
    BY <2>1, Acted
  <2>3. adds \in BOOLEAN /\ (adds \/ g.phase = "night")
    OBVIOUS
  <2> HIDE DEF g, adds
  <2> QED BY <2>1, <2>2, <2>3, TypedPersisted
<1>3. ASSUME NEW p \in Requests, Say(p) PROVE Typed'
  <2>1. p \in Players /\ Persist(p, row.game, TRUE)
    BY <1>3 DEF Say, Players
  <2> QED BY <1>1, <2>1, TypedPersisted
<1>4. ASSUME NEW p \in Sweepers, HandleTimeout(p) PROVE Typed'
  <2> DEFINE g == ForceTimeout(row.game)
             adds == g # row.game
  <2>1. p \in Players /\ Persist(p, g, adds) /\ row.status = "active"
    BY <1>4 DEF HandleTimeout, Players, Persist, Enter
  <2>2. Sound(world.days, g) /\ adds = TRUE
    BY <2>1, Forced
  <2> HIDE DEF g, adds
  <2> QED BY <2>1, <2>2, TypedPersisted
<1>5. ASSUME NEW p \in Players, Step(p) \/ Crash(p) PROVE Typed'
  BY <1>5, TypedHandled
<1>6. ASSUME NEW a \in Admins,
             \/ \E action \in {"released", "refunded"} : ResolveHold(a, action)
             \/ Disburses(a) \/ AdminFails(a)
      PROVE  Typed'
  BY <1>6, TypedResolved
<1>7. CASE WindowEnds \/ RedisFails \/ \E s \in Seats : ProofArrives(s)
  BY <1>7, TypedOutside
<1>8. CASE UNCHANGED vars
  BY <1>8 DEF vars, money, Typed, TypeOK, Drafts, Over
<1> QED BY <1>2, <1>3, <1>4, <1>5, <1>6, <1>7, <1>8 DEF Next

\* They hold when the game is dealt.
LEMMA TypedInit == Init => Typed
<1> SUFFICES ASSUME Init PROVE Typed
  OBVIOUS
<1>1. world \in Worlds
  BY DEF Init
<1>2. Sound(world.days, Deal) /\ Deal.phase = "night" /\ Nothing \in Memories(world.days)
  BY <1>1, DealIs, NothingIs
<1>3. Pending(Deal) # {} /\ Deal \in Games(world.days) /\ NoPays \in Payments
  BY <1>2 DEF Sound, NoPays, Payments
<1> HIDE DEF Deal
<1>4. TypeOK
  BY <1>1, <1>3 DEF Init, TypeOK, Games, Payments, Over
<1>5. Drafts
  BY <1>2 DEF Init, Drafts, Draft, Procs
<1> QED BY <1>2, <1>4, <1>5 DEF Init, Typed, Over

-----------------------------------------------------------------------------
(* What stands is kept *)

\* The invariant survives a step that starts no handler and leaves the game alone.
LEMMA ChainKept ==
    ASSUME Chain, row'.game = row.game, row'.behind = row.behind, row'.status = row.status,
           \A q \in Players : pc'[q] # "idle" =>
               /\ pc[q] # "idle" /\ mine'[q].game = mine[q].game
               /\ mine'[q].adds = mine[q].adds /\ mine'[q].stale = mine[q].stale
    PROVE  Chain'
BY DEF Chain, Fresh, Quiet, Over, Follows

\* What begins is fresh unless the row is behind, and follows the row; what begins
\* without an event is a night that goes on.
LEMMA ChainEntered ==
    ASSUME Typed, Chain, NEW p \in Players, NEW g \in Games(world.days),
           NEW adds \in BOOLEAN, Persist(p, g, adds), Follows(row.game, g),
           ~ adds => row.game.phase = "night" /\ g.alive = row.game.alive /\ Turn(g) = Turn(row.game),
           adds /\ row.game.phase = "night" => g.phase # "night"
    PROVE  Chain'
<1>1. row' = row /\ ~ Over
  BY DEF Persist, Enter, Over
<1>2. /\ pc \in [Procs -> Steps] /\ mine \in [Procs -> Memories(world.days)]
      /\ p \in Procs /\ \A q \in Players : q \in Procs
  BY DEF Typed, TypeOK, Drafts, Procs, Steps, Writing
<1>3. /\ mine'[p].game = g /\ mine'[p].adds = adds /\ mine'[p].stale = row.behind
      /\ pc'[p] # "idle"
      /\ \A q \in Players \ {p} : pc'[q] = pc[q] /\ mine'[q] = mine[q]
  <2>1. mine'[p] = [game |-> g, adds |-> adds, stale |-> row.behind, pays |-> NoPays]
    BY <1>2 DEF Persist
  <2>2. pc'[p] \in {"verdict", "advance"}
    BY <1>2 DEF Persist, Goto
  <2>3. \A q \in Players \ {p} : pc'[q] = pc[q] /\ mine'[q] = mine[q]
    BY <1>2 DEF Persist, Goto
  <2> QED BY <2>1, <2>2, <2>3
<1>4. ASSUME NEW q \in Players, Quiet(q)'
      PROVE  IF q = p THEN ~ adds ELSE Quiet(q) /\ mine'[q].game = mine[q].game
  BY <1>3, <1>4 DEF Quiet
<1>5. ASSUME NEW q \in Players, Fresh(q)'
      PROVE  IF q = p THEN ~ row.behind ELSE Fresh(q) /\ mine'[q].game = mine[q].game
  BY <1>3, <1>5 DEF Fresh
<1>11. /\ row.game \in Games(world.days) /\ g \in Games(world.days) /\ world \in Worlds
       /\ Turn(row.game) \in Nat /\ Turn(g) \in Nat
       /\ \A q \in Players : mine[q].game \in Games(world.days) /\ Turn(mine[q].game) \in Nat
  <2>1. /\ row.game \in Games(world.days) /\ world \in Worlds
        /\ \A q \in Players : mine[q].game \in Games(world.days)
    BY <1>2 DEF Typed, TypeOK, Sound, Memories
  <2> QED BY <2>1, TurnsIn
<1>12. /\ Turn(row.game) <= Turn(g)
       /\ ~ adds => Turn(g) = Turn(row.game)
       /\ adds /\ row.game.phase = "night" => Turn(row.game) < Turn(g)
       /\ \A q \in Players : mine[q].game.phase = "night" /\ row.game.phase # "night" =>
             Turn(mine[q].game) # Turn(row.game)
  <2>1. Turn(row.game) <= Turn(g)
    BY <1>11 DEF Follows
  <2> QED BY <1>11, <2>1, TurnsIn
<1>6. ASSUME NEW q \in Players, Quiet(q)', ~ row.behind
      PROVE  /\ row.game.alive \subseteq mine'[q].game.alive
             /\ Turn(mine'[q].game) <= Turn(row.game)
  BY <1>1, <1>3, <1>4, <1>6, <1>11, <1>12 DEF Chain
<1>7. ASSUME NEW q \in Players, Fresh(q)'
      PROVE  /\ mine'[q].game.alive \subseteq row.game.alive
             /\ Turn(row.game) <= Turn(mine'[q].game)
             /\ ~ Quiet(q)' /\ row.game.phase = "night" => Turn(row.game) < Turn(mine'[q].game)
             /\ ~ row.behind /\ ~ Quiet(q)' => Follows(row.game, mine'[q].game)
             /\ Quiet(q)' /\ ~ row.behind => row.game.phase = "night"
  <2>1. CASE q = p
    BY <1>3, <1>12, <2>1 DEF Quiet, Follows
  <2>2. CASE q # p
    <3>1. Fresh(q) /\ mine'[q].game = mine[q].game /\ (Quiet(q)' <=> Quiet(q))
      BY <1>3, <1>5, <1>7, <2>2 DEF Quiet
    <3> QED BY <1>1, <3>1 DEF Chain
  <2> QED BY <2>1, <2>2
<1>8. ASSUME NEW q \in Players, Fresh(q)', NEW r \in Players, Quiet(r)'
      PROVE  /\ mine'[q].game.alive \subseteq mine'[r].game.alive
             /\ Turn(mine'[r].game) <= Turn(mine'[q].game)
             /\ ~ Quiet(q)' => Turn(mine'[r].game) < Turn(mine'[q].game)
  <2>1. /\ mine'[q].game.alive \subseteq row.game.alive
        /\ Turn(row.game) <= Turn(mine'[q].game)
        /\ ~ Quiet(q)' /\ row.game.phase = "night" => Turn(row.game) < Turn(mine'[q].game)
    BY <1>7, <1>8
  <2>2. CASE r = p
    <3>1. /\ mine'[r].game.alive = row.game.alive /\ Turn(mine'[r].game) = Turn(row.game)
          /\ row.game.phase = "night"
      BY <1>3, <1>4, <1>8, <2>2
    <3> QED BY <2>1, <3>1
  <2>3. CASE r # p /\ q = p
    <3>1. ~ row.behind /\ Quiet(r) /\ mine'[r].game = mine[r].game /\ mine'[q].game = g
      BY <1>3, <1>4, <1>5, <1>8, <2>3
    <3>2. row.game.alive \subseteq mine'[r].game.alive /\ Turn(mine[r].game) <= Turn(row.game)
      BY <1>6, <1>8, <3>1
    <3>3. mine[r].game.phase = "night"
      BY <3>1 DEF Typed, Drafts, Draft, Quiet
    <3> QED BY <1>11, <1>12, <2>1, <3>1, <3>2, <3>3
  <2>4. CASE r # p /\ q # p
    <3>1. Quiet(r) /\ Fresh(q) /\ mine'[r].game = mine[r].game /\ mine'[q].game = mine[q].game
      BY <1>4, <1>5, <1>8, <2>4
    <3>2. Quiet(q)' <=> Quiet(q)
      BY <1>3, <2>4 DEF Quiet
    <3> QED BY <1>1, <3>1, <3>2 DEF Chain
  <2> QED BY <2>2, <2>3, <2>4
<1>10. row.behind => row.game.phase = "night"
  BY <1>1 DEF Chain
<1> QED BY <1>1, <1>6, <1>7, <1>8, <1>10 DEF Chain

\* A write with events outdates whoever read before it; one without was made at night,
\* and everybody is alive in it who is in what is to follow.
LEMMA ChainAdvanced ==
    ASSUME Typed, Chain, NEW p \in Players, Advance(p)
    PROVE  Chain'
<1>1. /\ pc \in [Procs -> Steps] /\ mine \in [Procs -> Memories(world.days)]
      /\ p \in Procs /\ \A q \in Players : q \in Procs
  BY DEF Typed, TypeOK, Drafts, Procs, Steps, Writing
<1>2. /\ row'.game = mine[p].game /\ row'.behind = mine[p].stale /\ ~ Over /\ pc[p] = "advance"
      /\ ~ (mine[p].adds /\ mine[p].stale)
  BY DEF Advance, Typed, TypeOK, Over, Conflict
<1>3. Quiet(p) => mine[p].game.phase = "night"
  BY DEF Typed, Drafts, Draft, Quiet
<1>4. pc'[p] = "idle" /\ \A q \in Players \ {p} : pc'[q] = pc[q]
  BY <1>1 DEF Advance, Goto
<1>5. \A q \in Players : q # p =>
         mine'[q] = IF mine[p].adds /\ pc[q] # "idle" THEN [mine[q] EXCEPT !.stale = TRUE]
                    ELSE mine[q]
  BY <1>1 DEF Advance
<1>6. ASSUME NEW q \in Players, pc'[q] # "idle"
      PROVE  /\ q # p /\ pc[q] # "idle" /\ mine'[q].game = mine[q].game
             /\ mine'[q].adds = mine[q].adds
             /\ mine'[q].stale = (mine[p].adds \/ mine[q].stale)
  <2>1. q # p /\ pc[q] # "idle" /\ mine[q] \in Memories(world.days)
    BY <1>1, <1>4, <1>6
  <2>2. CASE mine[p].adds
    BY <1>5, <2>1, <2>2 DEF Memories
  <2>3. CASE ~ mine[p].adds
    <3>1. mine'[q] = mine[q]
      BY <1>5, <2>1, <2>3
    <3> QED BY <2>1, <2>3, <3>1 DEF Memories
  <2> QED BY <2>1, <2>2, <2>3
<1>10. \A q \in Players : mine[q].game \in Games(world.days) /\ Turn(mine[q].game) \in Nat
  <2>1. world \in Worlds
    BY DEF Typed, TypeOK
  <2>2. \A q \in Players : mine[q].game \in Games(world.days)
    BY <1>1 DEF Memories
  <2> QED BY <2>1, <2>2, TurnsIn
<1>7. CASE mine[p].adds
  <2>1. Fresh(p) /\ ~ row'.behind
    BY <1>2, <1>7 DEF Fresh
  <2>2. \A q \in Players : ~ Fresh(q)'
    BY <1>6, <1>7 DEF Fresh
  <2>3. ASSUME NEW q \in Players, Quiet(q)'
        PROVE  /\ row'.game.alive \subseteq mine'[q].game.alive
               /\ Turn(mine'[q].game) <= Turn(row'.game)
    <3>1. Quiet(q) /\ mine'[q].game = mine[q].game /\ ~ Quiet(p)
      BY <1>6, <1>7, <2>3 DEF Quiet
    <3> QED BY <1>2, <1>10, <2>1, <3>1 DEF Chain
  <2> QED BY <2>1, <2>2, <2>3 DEF Chain
<1>8. CASE ~ mine[p].adds
  <2>1. Quiet(p) /\ row'.game.phase = "night"
    BY <1>2, <1>3, <1>8 DEF Quiet
  <2>2. ASSUME NEW q \in Players
        PROVE  /\ Fresh(q)' => Fresh(q) /\ mine'[q].game = mine[q].game /\ (Quiet(q)' <=> Quiet(q))
               /\ Quiet(q)' => Quiet(q) /\ mine'[q].game = mine[q].game
    BY <1>6, <1>8 DEF Fresh, Quiet
  <2>3. ASSUME NEW q \in Players, Fresh(q)'
        PROVE  /\ mine'[q].game.alive \subseteq row'.game.alive
               /\ Turn(row'.game) <= Turn(mine'[q].game)
               /\ ~ Quiet(q)' => Turn(row'.game) < Turn(mine'[q].game)
               /\ ~ Quiet(q)' => Follows(row'.game, mine'[q].game)
               /\ \A r \in Players : Quiet(r)' =>
                    /\ mine'[q].game.alive \subseteq mine'[r].game.alive
                    /\ Turn(mine'[r].game) <= Turn(mine'[q].game)
                    /\ ~ Quiet(q)' => Turn(mine'[r].game) < Turn(mine'[q].game)
    <3>1. Fresh(q) /\ mine'[q].game = mine[q].game /\ (Quiet(q)' <=> Quiet(q))
      BY <2>2, <2>3
    <3>2. /\ mine'[q].game.alive \subseteq row'.game.alive
          /\ Turn(row'.game) <= Turn(mine'[q].game)
          /\ ~ Quiet(q)' => Turn(row'.game) < Turn(mine'[q].game)
      BY <1>2, <2>1, <3>1 DEF Chain
    <3>3. ~ Quiet(q)' => Follows(row'.game, mine'[q].game)
      BY <1>2, <1>10, <3>1, <3>2 DEF Follows
    <3>4. ASSUME NEW r \in Players, Quiet(r)'
          PROVE  /\ mine'[q].game.alive \subseteq mine'[r].game.alive
                 /\ Turn(mine'[r].game) <= Turn(mine'[q].game)
                 /\ ~ Quiet(q)' => Turn(mine'[r].game) < Turn(mine'[q].game)
      BY <1>2, <2>2, <3>1, <3>4 DEF Chain
    <3> QED BY <3>2, <3>3, <3>4
  <2>5. ASSUME NEW q \in Players, Quiet(q)', ~ row'.behind
        PROVE  /\ row'.game.alive \subseteq mine'[q].game.alive
               /\ Turn(mine'[q].game) <= Turn(row'.game)
    <3>1. Fresh(p) /\ Quiet(q) /\ mine'[q].game = mine[q].game
      BY <1>2, <2>2, <2>5 DEF Fresh
    <3> QED BY <1>2, <3>1 DEF Chain
  <2> QED BY <2>1, <2>3, <2>5 DEF Chain
<1>9. mine[p].adds \in BOOLEAN
  BY <1>1 DEF Memories
<1> QED BY <1>7, <1>8, <1>9

\* With the lock, nobody else is in a handler when one is entered.
LEMMA AloneEntered ==
    ASSUME Typed, Alone, NEW p \in Players, NEW g, NEW adds, Persist(p, g, adds),
           Follows(row.game, g)
    PROVE  Alone'
<1> SUFFICES ASSUME NoFault({"redis"})' PROVE Alone'
  BY DEF Alone
<1>1. /\ NoFault({"redis"}) /\ row' = row /\ lease = "free" /\ lease' = p /\ ~ Over /\ ~ Over'
  BY DEF Persist, Enter, NoFault, Over
<1>2. ~ row.behind /\ \A q \in Players : pc[q] = "idle"
  BY <1>1, ActorsAssumption DEF Alone, Players
<1>3. /\ pc \in [Procs -> Steps] /\ mine \in [Procs -> Memories(world.days)]
      /\ p \in Procs /\ \A q \in Players : q \in Procs
  BY DEF Typed, TypeOK, Drafts, Procs, Steps, Writing
<1>4. \A q \in Players : pc'[q] # "idle" => q = p
  BY <1>2, <1>3 DEF Persist, Goto
<1>5. mine'[p] = [game |-> g, adds |-> adds, stale |-> row.behind, pays |-> NoPays]
  BY <1>3 DEF Persist
<1> QED BY <1>1, <1>2, <1>4, <1>5 DEF Alone

\* Who leaves, leaves nobody behind.
LEMMA AloneLeft ==
    ASSUME Typed, Alone, NEW p \in Players, Goto(p, "idle"), failed \subseteq failed',
           ~ row.behind => ~ row'.behind \/ mine[p].stale, pc[p] # "idle"
    PROVE  Alone'
<1> SUFFICES ASSUME NoFault({"redis"})' PROVE Alone'
  BY DEF Alone
<1>1. NoFault({"redis"})
  BY DEF NoFault
<1>2. \A q \in Players : pc[q] # "idle" => q = p
  BY <1>1 DEF Alone
<1>3. pc \in [Procs -> Steps] /\ \A q \in Players : q \in Procs
  BY DEF Typed, TypeOK, Procs, Steps, Writing
<1>4. \A q \in Players : pc'[q] = "idle"
  BY <1>2, <1>3 DEF Goto
<1>5. ~ row'.behind
  BY <1>1 DEF Alone
<1> QED BY <1>4, <1>5 DEF Alone

\* Any other step starts no handler, and leaves lock and game alone.
LEMMA AloneKept ==
    ASSUME Alone, failed \subseteq failed', NoFault({"redis"})' => lease' = lease,
           row'.game = row.game, row'.behind = row.behind, row'.status = row.status,
           \A q \in Players : pc'[q] # "idle" =>
               /\ pc[q] # "idle" /\ mine'[q].game = mine[q].game
               /\ mine'[q].stale = mine[q].stale
    PROVE  Alone'
BY DEF Alone, NoFault, Over, Follows

\* A step of a handler that neither begins nor writes.
Between(p) ==
    \/ Refused(p) \/ Crash(p) \/ Verdict(p) \/ Gate(p) \/ GateFails(p) \/ Save(p) \/ Settle(p)

\* Nothing that the others hold in memory changes, and of its own but what is paid.
LEMMA BetweenIs ==
    ASSUME Typed, NEW p \in Players, Between(p)
    PROVE  /\ row' = row /\ world' = world /\ proven' = proven /\ failed \subseteq failed'
           /\ pc[p] # "idle"
           /\ \A q \in Players : pc'[q] # "idle" =>
                 /\ pc[q] # "idle" /\ mine'[q].game = mine[q].game
                 /\ mine'[q].adds = mine[q].adds /\ mine'[q].stale = mine[q].stale
           /\ \A q \in Procs \ {p} : pc'[q] = pc[q] /\ mine'[q] = mine[q]
           /\ lease' = lease \/ Goto(p, "idle")
<1>1. /\ pc \in [Procs -> Steps] /\ mine \in [Procs -> Memories(world.days)]
      /\ p \in Procs /\ \A q \in Players : q \in Procs
  BY DEF Typed, TypeOK, Drafts, Procs, Steps, Writing
<1>2. \A q \in Procs : mine[q] \in Memories(world.days)
  BY <1>1
<1>3. CASE Refused(p)
  BY <1>1, <1>3 DEF Refused, Leave, Goto, money
<1>4. CASE Crash(p)
  BY <1>1, <1>4 DEF Crash, Leave, Goto, Fault, money
<1>5. CASE Verdict(p)
  <2>1. PICK pays : mine' = [mine EXCEPT ![p].pays = pays] /\ failed \subseteq failed'
    BY <1>5 DEF Verdict, Fault
  <2>2. /\ pc[p] = "verdict" /\ pc' = [pc EXCEPT ![p] = "gate"]
        /\ UNCHANGED <<world, lease, row, proven>>
    BY <1>5 DEF Verdict, GoOn, Goto
  <2>3. mine'[p] = [mine[p] EXCEPT !.pays = pays]
    BY <1>1, <2>1
  <2>4. /\ mine'[p].game = mine[p].game /\ mine'[p].adds = mine[p].adds
        /\ mine'[p].stale = mine[p].stale
    BY <1>1, <1>2, <2>3 DEF Memories
  <2>5. \A q \in Procs \ {p} : pc'[q] = pc[q] /\ mine'[q] = mine[q]
    BY <1>1, <2>1, <2>2
  <2> QED BY <1>1, <2>1, <2>2, <2>4, <2>5
<1>6. CASE Gate(p)
  BY <1>1, <1>6 DEF Gate, GoOn, Goto
<1>7. CASE GateFails(p)
  BY <1>1, <1>7 DEF GateFails, GoOn, Goto, Fault
<1>8. CASE Save(p)
  BY <1>1, <1>8 DEF Save, GoOn, Goto
<1>9. CASE Settle(p)
  BY <1>1, <1>9 DEF Settle, GoOn, Goto
<1> QED BY <1>3, <1>4, <1>5, <1>6, <1>7, <1>8, <1>9 DEF Between

\* A step of an administrator.
Resolves(a) ==
    \/ \E action \in {"released", "refunded"} : ResolveHold(a, action)
    \/ Disburses(a) \/ AdminFails(a)

\* It changes nothing that players hold.
LEMMA ResolvesIs ==
    ASSUME Typed, NEW a \in Admins, Resolves(a)
    PROVE  /\ row' = row /\ world' = world /\ proven' = proven /\ lease' = lease
           /\ failed \subseteq failed'
           /\ \A q \in Procs \ {a} : pc'[q] = pc[q] /\ mine'[q] = mine[q]
           /\ \A q \in Players : pc'[q] = pc[q] /\ mine'[q] = mine[q]
<1>1. /\ pc \in [Procs -> Steps] /\ mine \in [Procs -> Memories(world.days)]
      /\ a \in Procs /\ a \notin Players /\ \A q \in Players : q \in Procs
  BY ActorsAssumption DEF Typed, TypeOK, Drafts, Procs, Players, Steps, Writing
<1>2. lease \in Players \cup {"free"}
  BY DEF Typed, TypeOK
<1>3. CASE \E action \in {"released", "refunded"} : ResolveHold(a, action)
  BY <1>1, <1>3 DEF ResolveHold, GoOn, Goto
<1>4. CASE Refund(a) \/ SettleHeld(a) \/ AdminFails(a)
  <2>1. /\ Leave(a) /\ row' = row /\ world' = world /\ proven' = proven /\ failed \subseteq failed'
    BY <1>4 DEF Refund, SettleHeld, AdminFails, Fault
  <2>2. lease' = lease
    BY <1>1, <1>2, <2>1 DEF Leave
  <2> QED BY <1>1, <2>1, <2>2 DEF Leave, Goto
<1>5. CASE ReadHeld(a)
  BY <1>1, <1>5 DEF ReadHeld, GoOn, Goto
<1> QED BY <1>3, <1>4, <1>5 DEF Resolves, Disburses

\* Every step is an entry, a write, a handler's between them, an administrator's, or
\* the environment's.
LEMMA Whose ==
    ASSUME [Next]_vars
    PROVE  \/ \E p \in Requests : Say(p) \/ \E s \in Seats, x \in Seats \cup {Nobody} : Act(p, s, x)
           \/ \E p \in Sweepers : HandleTimeout(p)
           \/ \E p \in Players : Between(p) \/ Advance(p) \/ Finish(p)
           \/ \E a \in Admins : Resolves(a)
           \/ WindowEnds \/ RedisFails \/ \E s \in Seats : ProofArrives(s)
           \/ UNCHANGED vars
BY DEF Next, Step, Between, Resolves

\* What an agent or a sweeper will write follows the row.
LEMMA Enters ==
    ASSUME Typed,
           \/ \E p \in Requests : Say(p) \/ \E s \in Seats, x \in Seats \cup {Nobody} : Act(p, s, x)
           \/ \E p \in Sweepers : HandleTimeout(p)
    PROVE  \E p \in Players, g \in Games(world.days), adds \in BOOLEAN :
              /\ Persist(p, g, adds) /\ Follows(row.game, g)
              /\ ~ adds => /\ row.game.phase = "night" /\ g.alive = row.game.alive
                          /\ Turn(g) = Turn(row.game)
              /\ adds /\ row.game.phase = "night" => g.phase # "night"
<1>1. ASSUME NEW p \in Requests, Say(p)
      PROVE  /\ p \in Players /\ Persist(p, row.game, TRUE) /\ Follows(row.game, row.game)
             /\ row.game.phase # "night" /\ row.game \in Games(world.days)
  BY <1>1 DEF Say, Players, Follows, Typed, Sound
<1>2. ASSUME NEW p \in Requests, NEW s \in Seats, NEW x \in Seats \cup {Nobody}, Act(p, s, x)
      PROVE  LET g == Submit(row.game, s, x)
                 adds == row.game.phase # "night" \/ g.phase # "night"
             IN  /\ p \in Players /\ adds \in BOOLEAN /\ Persist(p, g, adds)
                 /\ Follows(row.game, g) /\ g \in Games(world.days)
                 /\ ~ adds => /\ row.game.phase = "night" /\ g.alive = row.game.alive
                          /\ Turn(g) = Turn(row.game)
                 /\ adds /\ row.game.phase = "night" => g.phase # "night"
  <2> DEFINE g == Submit(row.game, s, x)
             adds == row.game.phase # "night" \/ g.phase # "night"
  <2>1. p \in Players /\ s \in Pending(row.game) /\ Persist(p, g, adds) /\ adds \in BOOLEAN
    BY <1>2 DEF Act, Players
  <2>2. /\ Follows(row.game, g)
        /\ g.phase = row.game.phase => g.alive = row.game.alive /\ Turn(g) = Turn(row.game)
        /\ Sound(world.days, g)
    BY <2>1, Acted
  <2> QED BY <2>1, <2>2 DEF Sound
<1>3. ASSUME NEW p \in Sweepers, HandleTimeout(p)
      PROVE  LET g == ForceTimeout(row.game)
             IN  /\ p \in Players /\ Persist(p, g, TRUE) /\ Follows(row.game, g)
                 /\ g.phase # row.game.phase /\ g \in Games(world.days)
  <2> DEFINE g == ForceTimeout(row.game)
             adds == g # row.game
  <2>1. p \in Players /\ Persist(p, g, adds) /\ row.status = "active"
    BY <1>3 DEF HandleTimeout, Players, Persist, Enter
  <2>2. /\ adds = TRUE /\ Follows(row.game, g) /\ g.phase # row.game.phase
        /\ Sound(world.days, g)
    BY <2>1, Forced
  <2> HIDE DEF g, adds
  <2>3. Persist(p, g, TRUE)
    BY <2>1, <2>2
  <2> QED BY <2>1, <2>2, <2>3 DEF g, Sound
<1> QED BY <1>1, <1>2, <1>3

\* Every step keeps both.
LEMMA StandingStep == Typed /\ Chain /\ Alone /\ [Next]_vars => Chain' /\ Alone'
<1> SUFFICES ASSUME Typed, Chain, Alone, [Next]_vars PROVE Chain' /\ Alone'
  OBVIOUS
<1>1. CASE \/ \E p \in Requests : Say(p) \/ \E s \in Seats, x \in Seats \cup {Nobody} : Act(p, s, x)
           \/ \E p \in Sweepers : HandleTimeout(p)
  <2>1. PICK p \in Players, g \in Games(world.days), adds \in BOOLEAN :
           /\ Persist(p, g, adds) /\ Follows(row.game, g)
           /\ ~ adds => /\ row.game.phase = "night" /\ g.alive = row.game.alive
                       /\ Turn(g) = Turn(row.game)
           /\ adds /\ row.game.phase = "night" => g.phase # "night"
    BY <1>1, Enters
  <2> QED BY <2>1, ChainEntered, AloneEntered
<1>2. ASSUME NEW p \in Players, Between(p) PROVE Chain' /\ Alone'
  <2>1. /\ row' = row /\ failed \subseteq failed' /\ pc[p] # "idle"
        /\ \A q \in Players : pc'[q] # "idle" =>
              /\ pc[q] # "idle" /\ mine'[q].game = mine[q].game
              /\ mine'[q].adds = mine[q].adds /\ mine'[q].stale = mine[q].stale
        /\ lease' = lease \/ Goto(p, "idle")
    BY <1>2, BetweenIs
  <2>2. Chain'
    BY <2>1, ChainKept
  <2>3. CASE Goto(p, "idle")
    BY <2>1, <2>2, <2>3, AloneLeft
  <2>4. CASE lease' = lease
    BY <2>1, <2>2, <2>4, AloneKept
  <2> QED BY <2>1, <2>3, <2>4
<1>3. ASSUME NEW p \in Players, Advance(p) PROVE Chain' /\ Alone'
  <2>1. Goto(p, "idle") /\ row'.behind = mine[p].stale /\ pc[p] # "idle" /\ failed' = failed
    BY <1>3 DEF Advance, Typed, TypeOK
  <2>2. p \in Procs /\ mine \in [Procs -> Memories(world.days)]
    BY DEF Procs, Typed, Drafts
  <2>3. mine[p].stale \in BOOLEAN
    BY <2>2 DEF Memories
  <2>4. ~ row'.behind \/ mine[p].stale
    BY <2>1, <2>3
  <2> QED BY <1>3, <2>1, <2>4, AloneLeft, ChainAdvanced
<1>4. ASSUME NEW p \in Players, Finish(p) PROVE Chain' /\ Alone'
  <2>1. Goto(p, "idle") /\ row'.behind = row.behind /\ pc[p] # "idle" /\ failed' = failed /\ Over'
    BY <1>4 DEF Finish, Leave, Typed, TypeOK, Over
  <2> QED BY <2>1, AloneLeft DEF Chain
<1>5. ASSUME NEW a \in Admins, Resolves(a) PROVE Chain' /\ Alone'
  BY <1>5, ResolvesIs, ChainKept, AloneKept
<1>6. CASE WindowEnds
  <2>1. /\ row'.game = row.game /\ row'.behind = row.behind /\ row'.status = row.status
        /\ UNCHANGED <<failed, lease, pc, mine>>
    BY <1>6 DEF WindowEnds, Typed, TypeOK
  <2> QED BY <2>1, ChainKept, AloneKept
<1>7. CASE RedisFails
  <2>1. UNCHANGED <<row, pc, mine>> /\ failed \subseteq failed' /\ ~ NoFault({"redis"})'
    BY <1>7 DEF RedisFails, Fault, NoFault
  <2> QED BY <2>1, ChainKept DEF Alone
<1>8. CASE \E s \in Seats : ProofArrives(s)
  <2>1. UNCHANGED <<failed, lease, row, pc, mine>>
    BY <1>8 DEF ProofArrives
  <2> QED BY <2>1, ChainKept, AloneKept
<1>9. CASE UNCHANGED vars
  BY <1>9, ChainKept, AloneKept DEF vars
<1> QED BY <1>1, <1>2, <1>3, <1>4, <1>5, <1>6, <1>7, <1>8, <1>9, Whose

\* And both hold when the game is dealt.
LEMMA StandingInit == Init => Chain /\ Alone
BY DEF Init, Chain, Alone, Fresh, Quiet, Players

\* So they hold in every reachable state.
LEMMA Standing == Spec => [](Typed /\ Chain /\ Alone)
<1>1. Init => Typed /\ Chain /\ Alone
  BY TypedInit, StandingInit
<1>2. Typed /\ Chain /\ Alone /\ [Next]_vars => (Typed /\ Chain /\ Alone)'
  BY TypedStep, StandingStep
<1> QED BY <1>1, <1>2, PTL DEF Spec

\* Only a write changes the game, and what is written follows the row, unless locks
\* are missing and it was read at night.
LEMMA Writes ==
    ASSUME Typed, Chain, Alone, [Next]_vars
    PROVE  \/ row'.game = row.game
           \/ Follows(row.game, row'.game)
           \/ /\ "redis" \in failed /\ row'.game.phase = "night"
              /\ row'.behind \/ Turn(row'.game) = Turn(row.game)
<1>1. CASE \E p \in Players : Advance(p) \/ Finish(p)
  <2>1. PICK p \in Players : Advance(p) \/ Finish(p)
    BY <1>1
  <2>2. /\ row'.game = mine[p].game /\ ~ Over /\ pc[p] # "idle"
        /\ ~ (mine[p].adds /\ mine[p].stale)
    BY <2>1 DEF Advance, Finish, Conflict, Typed, TypeOK, Over
  <2>3. CASE NoFault({"redis"})
    BY <2>2, <2>3 DEF Alone
  <2>5. Turn(row.game) \in Nat /\ Turn(mine[p].game) \in Nat
    <3>1. p \in Procs /\ world \in Worlds /\ row.game \in Games(world.days)
      BY DEF Procs, Typed, TypeOK, Sound
    <3>2. mine[p].game \in Games(world.days)
      BY <3>1 DEF Typed, Drafts, Memories
    <3> QED BY <3>1, <3>2, TurnsIn
  <2>4. CASE ~ NoFault({"redis"}) /\ mine[p].adds
    <3>1. Fresh(p) /\ ~ Quiet(p)
      BY <2>2, <2>4 DEF Fresh, Quiet
    <3>2. CASE row.behind
      <4>1. /\ mine[p].game.alive \subseteq row.game.alive
            /\ Turn(row.game) < Turn(mine[p].game)
        BY <2>2, <3>1, <3>2 DEF Chain
      <4> QED BY <2>2, <2>5, <4>1 DEF Follows
    <3>3. CASE ~ row.behind
      BY <2>2, <3>1, <3>3 DEF Chain
    <3> QED BY <3>2, <3>3
  <2>6. CASE ~ NoFault({"redis"}) /\ ~ mine[p].adds
    <3>1. mine[p].game.phase = "night" /\ pc[p] = "advance" /\ "redis" \in failed
      BY <2>2, <2>6 DEF Typed, Drafts, Draft, NoFault
    <3>2. row'.behind = mine[p].stale
      BY <2>1, <3>1 DEF Advance, Finish, Typed, TypeOK
    <3>3. CASE mine[p].stale
      BY <2>2, <3>1, <3>2, <3>3
    <3>4. CASE ~ mine[p].stale
      <4>1. /\ mine[p].game.alive \subseteq row.game.alive
            /\ Turn(row.game) <= Turn(mine[p].game)
        BY <2>2, <3>4 DEF Chain, Fresh
      <4>2. CASE Turn(row.game) < Turn(mine[p].game)
        BY <2>2, <2>5, <4>1, <4>2 DEF Follows
      <4>3. CASE Turn(row.game) = Turn(mine[p].game)
        BY <2>2, <3>1, <4>3
      <4> QED BY <2>5, <4>1, <4>2, <4>3
    <3> QED BY <3>3, <3>4
  <2> QED BY <2>2, <2>3, <2>4, <2>6
<1>2. CASE \/ \E p \in Requests : Say(p) \/ \E s \in Seats, x \in Seats \cup {Nobody} : Act(p, s, x)
           \/ \E p \in Sweepers : HandleTimeout(p)
  BY <1>2 DEF Say, Act, HandleTimeout, Persist
<1>3. CASE \E p \in Players : Between(p)
  BY <1>3, BetweenIs
<1>4. CASE \E a \in Admins : Resolves(a)
  BY <1>4, ResolvesIs
<1>5. CASE WindowEnds \/ RedisFails \/ (\E s \in Seats : ProofArrives(s)) \/ UNCHANGED vars
  BY <1>5 DEF WindowEnds, RedisFails, ProofArrives, vars, Typed, TypeOK
<1> QED BY <1>1, <1>2, <1>3, <1>4, <1>5, Whose

\* Nothing that a table knows is unsaid, for any number of agents and sweepers, and the game
\* goes from turn to turn: with locks because they are alone, without because of the event
\* log and of what the night leaves alone, but for the late night action that the property
\* excepts.
THEOREM MafiaSubmissionsStand == Spec => SubmissionsStand
<1>1. Typed /\ Chain /\ Alone /\ [Next]_vars
      => [\/ Follows(row.game, row'.game)
          \/ /\ "redis" \in failed /\ row'.game.phase = "night"
             /\ row'.behind \/ Turn(row'.game) = Turn(row.game)]_vars
  <2> SUFFICES ASSUME Typed, Chain, Alone, [Next]_vars
               PROVE  \/ Follows(row.game, row'.game)
                      \/ /\ "redis" \in failed /\ row'.game.phase = "night"
                         /\ row'.behind \/ Turn(row'.game) = Turn(row.game)
    OBVIOUS
  <2>1. row'.game = row.game => Follows(row.game, row'.game)
    BY DEF Follows
  <2> QED BY <2>1, Writes
<1> QED BY <1>1, Standing, PTL DEF Spec, SubmissionsStand

\* Types, and a game that goes on is owed an action by a seat alive, for any roles,
\* seats and number of days: the clock of a phase always has something to force.
THEOREM MafiaTypes == Spec => []TypeOK
<1>1. Typed => TypeOK
  BY DEF Typed
<1> QED BY <1>1, Standing, PTL

-----------------------------------------------------------------------------
(* What is paid is owed *)

\* A hold is opened once, and once resolved stays so.
Later(h, k) == (h # "none" => k # "none") /\ (h \in {"released", "refunded"} => k = h)

\* What is owed stays owed when more seats have proved a decision.
LEMMA OwedKept ==
    ASSUME NEW w, NEW g, NEW o, NEW proved, NEW more, proved \subseteq more,
           NEW h, NEW k, Later(h, k), Owed(w, proved, h, g, o)
    PROVE  Owed(w, more, k, g, o)
BY DEF Owed, Later

\* After a step: Justified, of the next state.
Remains(g) ==
    /\ \A o \in outs' : Owed(world', proven', hold', g, o)
    /\ saved' # NoPays => Owed(world', proven', hold', g, saved')
    /\ \A a \in Admins : pc'[a] = "pay" => Owed(world', proven', hold', g, mine'[a].pays)

\* Whatever a step adds must be owed, and the rest stays so.
LEMMA JustifiedKept ==
    ASSUME NEW g, Justified(g), world' = world, proven \subseteq proven', Later(hold, hold'),
           \A o \in outs' \ outs : Owed(world', proven', hold', g, o),
           saved' = saved \/ Owed(world', proven', hold', g, saved'),
           \A a \in Admins : pc'[a] = "pay" =>
               \/ pc[a] = "pay" /\ mine'[a].pays = mine[a].pays
               \/ Owed(world', proven', hold', g, mine'[a].pays)
    PROVE  Remains(g)
<1>1. \A o : Owed(world, proven, hold, g, o) => Owed(world', proven', hold', g, o)
  BY OwedKept
<1> QED BY <1>1 DEF Justified, Remains

\* Nothing was paid, so all of it was owed.
LEMMA UntouchedIs ==
    ASSUME NEW g, Untouched'
    PROVE  Remains(g)
BY DEF Untouched, Remains

\* The terms of a step that matter to what is owed.
LEMMA Growing ==
    ASSUME Typed, [Next]_vars
    PROVE  /\ world' = world /\ proven \subseteq proven' /\ failed \subseteq failed'
           /\ Later(hold, hold') /\ (outs # {} => outs' # {})
<1>1. hold \in {"none", "held", "released", "refunded"}
  BY DEF Typed, TypeOK
<1>2. CASE \/ \E p \in Requests : Say(p) \/ \E s \in Seats, x \in Seats \cup {Nobody} : Act(p, s, x)
           \/ \E p \in Sweepers : HandleTimeout(p)
  BY <1>2 DEF Say, Act, HandleTimeout, Persist, money, Later
<1>3. CASE \E p \in Players : Between(p)
  BY <1>3 DEF Between, Refused, Crash, Verdict, Gate, GateFails, Save, Settle, GoOn, money,
       Later, Disburse, Fault
<1>4. CASE \E p \in Players : Advance(p) \/ Finish(p)
  BY <1>4 DEF Advance, Finish, money, Later
<1>5. CASE \E a \in Admins : Resolves(a)
  BY <1>5 DEF Resolves, Disburses, ResolveHold, Refund, ReadHeld, SettleHeld, AdminFails, GoOn,
       money, Later, Disburse, Fault
<1>6. CASE WindowEnds \/ RedisFails \/ (\E s \in Seats : ProofArrives(s)) \/ UNCHANGED vars
  BY <1>6 DEF WindowEnds, RedisFails, ProofArrives, vars, money, Later, Fault
<1> QED BY <1>2, <1>3, <1>4, <1>5, <1>6, Whose

\* What an administrator does on a held table leaves its pot paid, being paid, or failed.
LEMMA AccountedResolved ==
    ASSUME Typed, Accounted, NEW a \in Admins, Resolves(a)
    PROVE  Accounted'
<1>1. /\ pc \in [Procs -> Steps] /\ a \in Procs /\ \A b \in Admins : b \in Procs
  BY DEF Typed, TypeOK, Procs, Steps, Writing
<1>2. CASE \E action \in {"released", "refunded"} : ResolveHold(a, action)
  <2>1. pc'[a] # "idle"
    BY <1>1, <1>2 DEF ResolveHold, GoOn, Goto
  <2> QED BY <2>1 DEF Accounted
<1>3. CASE ReadHeld(a)
  <2>1. pc'[a] # "idle"
    BY <1>1, <1>3 DEF ReadHeld, GoOn, Goto
  <2> QED BY <2>1 DEF Accounted
<1>4. CASE Refund(a) \/ SettleHeld(a)
  BY <1>4 DEF Refund, SettleHeld, Disburse, Accounted
<1>5. CASE AdminFails(a)
  BY <1>5 DEF AdminFails, Fault, Accounted, NoFault
<1> QED BY <1>2, <1>3, <1>4, <1>5 DEF Resolves, Disburses

\* No other step can undo that.
LEMMA AccountedKept ==
    ASSUME Accounted, outs # {} => outs' # {}, hold = "held" => hold' = "held",
           failed \subseteq failed', \A a \in Admins : pc'[a] = pc[a]
    PROVE  Accounted'
BY DEF Accounted, NoFault

\* What an administrator disburses is owed, whoever won.
LEMMA ResolvedIsOwed ==
    ASSUME Typed, NEW g, Justified(g), \A b \in Admins : Resolving(b),
           NEW a \in Admins, Resolves(a), [Next]_vars
    PROVE  Remains(g) /\ \A b \in Admins : Resolving(b)'
<1>1. /\ pc \in [Procs -> Steps] /\ mine \in [Procs -> Memories(world.days)]
      /\ a \in Procs /\ \A b \in Admins : b \in Procs
  BY DEF Typed, TypeOK, Drafts, Procs, Steps, Writing
<1>2. /\ world' = world /\ proven \subseteq proven' /\ Later(hold, hold')
      /\ \A b \in Admins \ {a} : pc'[b] = pc[b] /\ mine'[b] = mine[b]
  BY <1>1, Growing, ResolvesIs
<1>3. \A o : Owed(world, proven, hold, g, o) => Owed(world', proven', hold', g, o)
  BY <1>2, OwedKept
<1>4. \A b \in Admins \ {a} : Resolving(b)'
  BY <1>2 DEF Resolving, Later
<1>5. CASE \E action \in {"released", "refunded"} : ResolveHold(a, action)
  <2>1. PICK action \in {"released", "refunded"} : ResolveHold(a, action)
    BY <1>5
  <2>2. /\ outs' = outs /\ saved' = saved /\ pc'[a] # "pay" /\ hold' = action
        /\ pc'[a] = IF action = "refunded" THEN "refund" ELSE "read"
    BY <1>1, <2>1 DEF ResolveHold, GoOn, Goto
  <2>3. Resolving(a)'
    BY <2>2 DEF Resolving
  <2>4. Remains(g)
    BY <1>2, <2>2, JustifiedKept
  <2> QED BY <1>4, <2>3, <2>4
<1>6. CASE Refund(a)
  <2>1. /\ hold = "refunded" /\ hold' = hold /\ saved' = saved /\ pc'[a] = "idle"
        /\ outs' \subseteq outs \cup {[kind |-> "return", to |-> Humans]}
    BY <1>1, <1>6 DEF Refund, Resolving, Leave, Goto, Disburse
  <2>2. Owed(world', proven', hold', g, [kind |-> "return", to |-> Humans])
    BY <2>1 DEF Owed
  <2>3. Remains(g)
    BY <1>2, <2>1, <2>2, JustifiedKept
  <2> QED BY <1>4, <2>1, <2>3 DEF Resolving
<1>7. CASE ReadHeld(a)
  <2> DEFINE pays == IF saved # NoPays THEN saved
                     ELSE IF row.champion = Nobody THEN [kind |-> "return", to |-> Humans]
                     ELSE [kind |-> "all", to |-> {row.champion}]
  <2>1. /\ hold = "released" /\ hold' = hold /\ saved' = saved /\ outs' = outs
        /\ pc'[a] = "pay"
    BY <1>1, <1>7 DEF ReadHeld, Resolving, GoOn, Goto, money
  <2>2. mine'[a].pays = pays
    <3>1. mine[a] \in Memories(world.days) /\ mine' = [mine EXCEPT ![a].pays = pays]
      BY <1>1, <1>7 DEF ReadHeld
    <3> HIDE DEF pays
    <3>2. mine'[a] = [mine[a] EXCEPT !.pays = pays]
      BY <1>1, <3>1
    <3> QED BY <3>1, <3>2 DEF Memories
  <2>3. Owed(world, proven, hold, g, pays)
    BY <2>1 DEF Owed, Justified
  <2> HIDE DEF pays
  <2>4. Owed(world', proven', hold', g, mine'[a].pays)
    BY <1>3, <2>2, <2>3
  <2>5. Remains(g)
    BY <1>2, <2>1, <2>4, JustifiedKept
  <2> QED BY <1>4, <2>1, <2>5 DEF Resolving
<1>8. CASE SettleHeld(a)
  <2>1. /\ hold' = hold /\ saved' = saved /\ pc'[a] = "idle" /\ pc[a] = "pay"
        /\ outs' \subseteq outs \cup {mine[a].pays}
    BY <1>1, <1>8 DEF SettleHeld, Leave, Goto, Disburse
  <2>2. Owed(world', proven', hold', g, mine[a].pays)
    BY <1>3, <2>1 DEF Justified
  <2>3. Remains(g)
    BY <1>2, <2>1, <2>2, JustifiedKept
  <2> QED BY <1>4, <2>1, <2>3 DEF Resolving
<1>9. CASE AdminFails(a)
  <2>1. /\ hold' = hold /\ saved' = saved /\ pc'[a] = "idle" /\ outs' = outs
    BY <1>1, <1>9 DEF AdminFails, Leave, Goto, money
  <2>2. Remains(g)
    BY <1>2, <2>1, JustifiedKept
  <2> QED BY <1>4, <2>1, <2>2 DEF Resolving
<1> QED BY <1>5, <1>6, <1>7, <1>8, <1>9 DEF Resolves, Disburses

\* What the verdict leaves of the winnings is owed.
LEMMA PaysIsOwed ==
    ASSUME NEW g, NEW withheld,
           withheld = {} \/ (withheld = IF world.rake THEN Unproven(g) ELSE {})
    PROVE  Owed(world, proven, hold, g, Pays(g, withheld))
<1>1. Winners(g) = Survivors(world, g)
  BY DEF Winners, Survivors
<1>2. CASE Winners(g) = {}
  BY <1>1, <1>2 DEF Pays, Owed
<1>3. CASE Winners(g) # {}
  <2> DEFINE o == [kind |-> "split", to |-> Winners(g) \ withheld]
  <2>1. Pays(g, withheld) = o
    BY <1>3 DEF Pays
  <2>2. \A s \in withheld : world.rake /\ proven # {} /\ ~ SeatWasAbsent(g, s)
    BY DEF Unproven
  <2>3. o.kind = "split" /\ o.to \subseteq Survivors(world, g)
        /\ \A s \in Survivors(world, g) \ o.to : s \in withheld
    BY <1>1
  <2> HIDE DEF o
  <2> QED BY <2>1, <2>2, <2>3 DEF Owed
<1> QED BY <1>2, <1>3

\* As long as nobody finalizes, or a handler is about to, nothing was paid.
LEMMA FinalUntouched ==
    ASSUME Untouched', ~ Over', \A q \in Players : pc'[q] \in {"idle", "advance", "verdict"}
    PROVE  Finalized'
<1>1. ASSUME NEW q \in Players PROVE Stage(q)'
  <2>1. Remains(mine'[q].game)
    BY UntouchedIs
  <2> QED BY <2>1 DEF Stage, Justified, Remains
<1>2. ASSUME NEW a \in Admins PROVE Resolving(a)'
  BY DEF Resolving, Untouched
<1> QED BY <1>1, <1>2 DEF Finalized

\* The invariant of what is paid survives the clock and the arrival of proofs.
LEMMA FinalKept ==
    ASSUME Finalized, UNCHANGED <<world, hold, saved, outs, pc, mine>>,
           proven \subseteq proven', failed \subseteq failed',
           row'.game = row.game, row'.status = row.status
    PROVE  Finalized'
<1> SUFFICES ASSUME NoFault({"crash", "redis"})' PROVE Finalized'
  BY DEF Finalized
<1>1. NoFault({"crash", "redis"}) /\ Later(hold, hold')
  BY DEF NoFault, Later
<1>2. \A g, o : Owed(world, proven, hold, g, o) => Owed(world', proven', hold', g, o)
  BY <1>1, OwedKept
<1>3. Untouched => Untouched'
  BY DEF Untouched
<1>4. Accounted => Accounted'
  BY AccountedKept
<1>5. ASSUME NEW g, Justified(g) PROVE Remains(g)
  BY <1>1, <1>5, JustifiedKept
<1>6. ASSUME NEW p \in Players PROVE Stage(p)'
  <2>1. Stage(p)
    BY <1>1 DEF Finalized
  <2>2. Finalizing(p) => Remains(mine[p].game)
    BY <1>5, <2>1 DEF Stage
  <2>3. (Finalizing(p) => Justified(mine[p].game))'
    BY <2>2 DEF Justified, Remains, Finalizing
  <2>4. (pc[p] \in {"gate", "save", "settle"} =>
            Owed(world, proven, hold, mine[p].game, mine[p].pays))'
    BY <1>2, <2>1 DEF Stage
  <2> QED BY <1>3, <1>4, <2>1, <2>3, <2>4 DEF Stage
<1>7. (Over => Accounted /\ Justified(row.game))'
  <2>1. Over' => Over /\ Accounted /\ Justified(row.game)
    BY <1>1 DEF Over, Finalized
  <2>2. Over' => Remains(row.game)
    BY <1>5, <2>1
  <2>3. (Over => Justified(row.game))'
    BY <2>2 DEF Justified, Remains
  <2> QED BY <1>4, <2>1, <2>3
<1>8. \A a \in Admins : Resolving(a)'
  BY <1>1 DEF Finalized, Resolving
<1>9. (~ Over /\ (\A p \in Players : ~ Finalizing(p)) => Untouched)'
  BY <1>1, <1>3 DEF Finalized, Over, Finalizing
<1> QED BY <1>6, <1>7, <1>8, <1>9 DEF Finalized

\* With locks and no crash, only one handler is served.
LEMMA Only ==
    ASSUME Typed, Alone, NoFault({"crash", "redis"}), NEW p \in Players, pc[p] # "idle"
    PROVE  /\ ~ Over /\ ~ row.behind /\ ~ mine[p].stale
           /\ \A q \in Players \ {p} : pc[q] = "idle"
BY DEF Alone, NoFault

\* A handler that finalizes, alone, is at the next stage.
LEMMA FinalStaged ==
    ASSUME Typed, Alone, Finalized, NoFault({"crash", "redis"}), NEW p \in Players,
           pc[p] # "idle", \A q \in Procs \ {p} : pc'[q] = pc[q], row' = row,
           Finalizing(p)', Stage(p)', \A a \in Admins : Resolving(a)'
    PROVE  Finalized'
<1>1. \A q \in Players \ {p} : pc'[q] = "idle" /\ q \in Procs
  BY Only DEF Procs
<1>2. \A q \in Players : Stage(q)'
  BY <1>1 DEF Stage, Finalizing
<1>3. ~ Over'
  BY Only DEF Over
<1> QED BY <1>2, <1>3 DEF Finalized

\* From the verdict to the finish.
LEMMA FinalBetween ==
    ASSUME Typed, Alone, Finalized, NoFault({"crash", "redis"}), NEW p \in Players,
           Between(p), [Next]_vars, NoFault({"crash", "redis"})'
    PROVE  Finalized'
<1>1. /\ pc \in [Procs -> Steps] /\ mine \in [Procs -> Memories(world.days)]
      /\ p \in Procs /\ mine[p] \in Memories(world.days)
      /\ \A q \in Players : q \in Procs
      /\ \A a \in Admins : a \in Procs /\ a # p
  BY ActorsAssumption DEF Typed, TypeOK, Drafts, Procs, Players, Steps, Writing
<1>2. /\ row' = row /\ world' = world /\ proven' = proven /\ failed \subseteq failed'
      /\ pc[p] # "idle" /\ \A q \in Procs \ {p} : pc'[q] = pc[q] /\ mine'[q] = mine[q]
  BY BetweenIs
<1>3. ~ Over /\ ~ row.behind /\ ~ mine[p].stale
  BY <1>2, Only
<1>4. Stage(p) /\ \A a \in Admins : Resolving(a)
  BY DEF Finalized
<1>5. Later(hold, hold') /\ (outs # {} => outs' # {})
  BY Growing
<1>6. \A a \in Admins : Resolving(a)'
  BY <1>1, <1>2, <1>4, <1>5 DEF Resolving, Later
<1>7. Accounted /\ (hold = "held" => hold' = "held") => Accounted'
  BY <1>1, <1>2, <1>5, AccountedKept
<1>8. Refused(p) \/ Crash(p) => FALSE
  BY <1>3 DEF Refused, Conflict, Crash, Fault, NoFault, Typed, TypeOK, Over
<1>9. CASE Verdict(p)
  <2>1. PICK withheld :
           /\ withheld = {} \/ (withheld = IF world.rake THEN Unproven(mine[p].game) ELSE {})
           /\ mine' = [mine EXCEPT ![p].pays = Pays(mine[p].game, withheld)]
    BY <1>9 DEF Verdict
  <2>2. pc[p] = "verdict" /\ pc'[p] = "gate" /\ UNCHANGED <<hold, saved, outs>>
    BY <1>1, <1>9 DEF Verdict, GoOn, Goto, money
  <2>3. mine'[p].game = mine[p].game /\ mine'[p].pays = Pays(mine[p].game, withheld)
    <3> DEFINE pays == Pays(mine[p].game, withheld)
    <3>1. mine'[p] = [mine[p] EXCEPT !.pays = pays]
      BY <1>1, <2>1
    <3> HIDE DEF pays
    <3>2. mine'[p].game = mine[p].game /\ mine'[p].pays = pays
      BY <1>1, <3>1 DEF Memories
    <3> QED BY <3>2 DEF pays
  <2>4. Untouched'
    BY <1>1, <1>2, <1>4, <2>2 DEF Stage, Untouched
  <2>5. Owed(world, proven, hold, mine[p].game, Pays(mine[p].game, withheld))
    BY <2>1, PaysIsOwed
  <2>6. Owed(world', proven', hold', mine'[p].game, mine'[p].pays)
    BY <1>2, <2>2, <2>3, <2>5
  <2>7. Remains(mine'[p].game)
    BY <2>4, UntouchedIs
  <2>8. Justified(mine[p].game)'
    BY <2>7 DEF Justified, Remains
  <2>9. Stage(p)' /\ Finalizing(p)'
    BY <2>2, <2>4, <2>6, <2>8 DEF Stage, Finalizing
  <2> QED BY <1>2, <1>6, <2>9, FinalStaged
<1>10. CASE Gate(p) \/ GateFails(p)
  <2>1. /\ pc[p] = "gate" /\ UNCHANGED <<saved, outs, mine>>
        /\ \/ hold' = "held" /\ pc'[p] = "save"
           \/ hold' \in {hold, "held"} /\ pc'[p] = "save" /\ "gate" \in failed'
           \/ hold' = hold /\ pc'[p] = "settle"
    BY <1>1, <1>4, <1>10 DEF Gate, GateFails, GoOn, Goto, Fault, Stage, Untouched
  <2>2. Untouched /\ Owed(world, proven, hold, mine[p].game, mine[p].pays)
        /\ Justified(mine[p].game)
    BY <1>4, <2>1 DEF Stage, Finalizing
  <2>3. Owed(world', proven', hold', mine[p].game, mine[p].pays)
    BY <1>2, <1>5, <2>2, OwedKept
  <2>4. Remains(mine[p].game)
    BY <1>1, <1>2, <1>5, <2>1, <2>2, JustifiedKept
  <2>5. Justified(mine[p].game)'
    BY <2>1, <2>4 DEF Justified, Remains
  <2>6. pc'[p] = "save" => Accounted'
    BY <2>1 DEF Accounted, NoFault
  <2>7. pc'[p] = "settle" => Untouched'
    BY <1>1, <1>2, <2>1, <2>2 DEF Untouched
  <2>8. Stage(p)' /\ Finalizing(p)'
    BY <2>1, <2>3, <2>5, <2>6, <2>7 DEF Stage, Finalizing
  <2> QED BY <1>2, <1>6, <2>8, FinalStaged
<1>11. CASE Save(p)
  <2>1. /\ pc[p] = "save" /\ UNCHANGED <<hold, outs, mine>> /\ saved' = mine[p].pays
        /\ pc'[p] = "finish"
    BY <1>1, <1>11 DEF Save, GoOn, Goto
  <2>2. Owed(world', proven', hold', mine[p].game, saved') /\ Justified(mine[p].game) /\ Accounted
    BY <1>2, <1>4, <2>1 DEF Stage, Finalizing
  <2>3. Remains(mine[p].game)
    BY <1>1, <1>2, <1>5, <2>1, <2>2, JustifiedKept
  <2>4. Justified(mine[p].game)'
    BY <2>1, <2>3 DEF Justified, Remains
  <2>5. Accounted'
    BY <1>7, <2>1, <2>2
  <2>6. Stage(p)' /\ Finalizing(p)'
    BY <2>1, <2>4, <2>5 DEF Stage, Finalizing
  <2> QED BY <1>2, <1>6, <2>6, FinalStaged
<1>12. CASE Settle(p)
  <2>1. /\ pc[p] = "settle" /\ pc'[p] = "finish" /\ UNCHANGED <<hold, saved, mine>>
        /\ outs' \subseteq outs \cup {mine[p].pays} /\ outs' # {}
    BY <1>1, <1>12 DEF Settle, GoOn, Goto, Disburse
  <2>2. Owed(world', proven', hold', mine[p].game, mine[p].pays) /\ Justified(mine[p].game)
    BY <1>2, <1>4, <2>1 DEF Stage, Finalizing
  <2>3. Remains(mine[p].game)
    BY <1>1, <1>2, <1>5, <2>1, <2>2, JustifiedKept
  <2>4. Justified(mine[p].game)'
    BY <2>1, <2>3 DEF Justified, Remains
  <2>5. Accounted'
    BY <2>1 DEF Accounted
  <2>6. Stage(p)' /\ Finalizing(p)'
    BY <2>1, <2>4, <2>5 DEF Stage, Finalizing
  <2> QED BY <1>2, <1>6, <2>6, FinalStaged
<1> QED BY <1>8, <1>9, <1>10, <1>11, <1>12 DEF Between

\* An administrator finds a held table finished, or about to be.
LEMMA FinalResolved ==
    ASSUME Typed, Finalized, NoFault({"crash", "redis"}), NEW a \in Admins, Resolves(a), [Next]_vars
    PROVE  Finalized'
<1>1. /\ row' = row /\ world' = world /\ proven' = proven
      /\ \A q \in Players : pc'[q] = pc[q] /\ mine'[q] = mine[q]
  BY ResolvesIs
<1>2. ~ Untouched
  BY DEF Resolves, Disburses, ResolveHold, Refund, ReadHeld, SettleHeld, AdminFails, Untouched
<1>3. /\ \A p \in Players : Stage(p) /\ pc[p] \notin {"verdict", "gate", "settle"}
      /\ \A b \in Admins : Resolving(b)
  BY <1>2 DEF Finalized, Stage
<1>4. Accounted => Accounted'
  BY AccountedResolved
<1>5. Later(hold, hold')
  BY Growing
<1>6. ASSUME NEW g, Justified(g) PROVE Remains(g) /\ \A b \in Admins : Resolving(b)'
  BY <1>3, <1>6, ResolvedIsOwed
<1>7. ASSUME NEW p \in Players PROVE Stage(p)'
  <2>1. pc'[p] \in {"gate", "save", "settle"} => pc[p] = "save"
    BY <1>1, <1>3
  <2>2. pc'[p] \in {"gate", "save", "settle"} =>
           Owed(world', proven', hold', mine'[p].game, mine'[p].pays)
    BY <1>1, <1>3, <1>5, <2>1, OwedKept DEF Stage
  <2>3. Finalizing(p)' => Remains(mine[p].game)
    BY <1>1, <1>3, <1>6 DEF Finalizing, Stage
  <2>4. (Finalizing(p) => Justified(mine[p].game))'
    BY <1>1, <2>3 DEF Justified, Remains
  <2> QED BY <1>1, <1>3, <1>4, <2>2, <2>4 DEF Stage
<1>8. (Over => Accounted /\ Justified(row.game))'
  <2>1. Over' => Accounted /\ Justified(row.game)
    BY <1>1 DEF Over, Finalized
  <2>2. Over' => Remains(row.game)
    BY <1>6, <2>1
  <2>3. (Over => Justified(row.game))'
    BY <1>1, <2>2 DEF Justified, Remains
  <2> QED BY <1>4, <2>1, <2>3
<1>9. Over \/ \E p \in Players : Finalizing(p)
  BY <1>2 DEF Finalized
<1>10. \A b \in Admins : Resolving(b)'
  <2>1. \E g : Justified(g)
    BY <1>9 DEF Finalized, Stage
  <2> QED BY <1>6, <2>1
<1>11. (Over \/ \E p \in Players : Finalizing(p))'
  BY <1>1, <1>9 DEF Over, Finalizing
<1> QED BY <1>7, <1>8, <1>10, <1>11 DEF Finalized

\* The row ends with the game that was paid.
LEMMA FinalFinished ==
    ASSUME Typed, Alone, Finalized, NoFault({"crash", "redis"}), NEW p \in Players, Finish(p),
           [Next]_vars
    PROVE  Finalized'
<1>1. /\ pc \in [Procs -> Steps] /\ mine \in [Procs -> Memories(world.days)] /\ p \in Procs
      /\ \A q \in Players : q \in Procs
      /\ \A a \in Admins : a \in Procs /\ a # p
  BY ActorsAssumption DEF Typed, TypeOK, Drafts, Procs, Players, Steps, Writing
<1>2. /\ row'.game = mine[p].game /\ row'.status = "finished" /\ pc[p] = "finish"
      /\ UNCHANGED <<world, failed, proven, hold, saved, outs>>
  BY DEF Finish, Typed, TypeOK, money
<1>3. /\ pc'[p] = "idle" /\ \A q \in Procs \ {p} : pc'[q] = pc[q] /\ mine'[q] = mine[q]
  BY <1>1 DEF Finish, Leave, Goto
<1>4. \A q \in Players : pc'[q] = "idle"
  BY <1>1, <1>2, <1>3, Only
<1>5. Stage(p) /\ \A a \in Admins : Resolving(a)
  BY DEF Finalized
<1>6. Accounted /\ Justified(mine[p].game) /\ Later(hold, hold')
  BY <1>2, <1>5 DEF Stage, Finalizing, Later
<1>7. Accounted'
  BY <1>1, <1>2, <1>3, <1>6, AccountedKept
<1>8. Remains(mine[p].game)
  BY <1>1, <1>2, <1>3, <1>6, JustifiedKept
<1>9. Justified(row.game)'
  BY <1>2, <1>8 DEF Justified, Remains
<1>10. \A q \in Players : Stage(q)'
  BY <1>4 DEF Stage, Finalizing
<1>11. \A a \in Admins : Resolving(a)'
  BY <1>1, <1>2, <1>3, <1>5 DEF Resolving
<1>12. Over'
  BY <1>2 DEF Over
<1> QED BY <1>7, <1>9, <1>10, <1>11, <1>12 DEF Finalized

\* Every step keeps the invariant of what is paid.
LEMMA FinalStep == Typed /\ Alone /\ Finalized /\ [Next]_vars => Finalized'
<1> SUFFICES ASSUME Typed, Alone, Finalized, [Next]_vars, NoFault({"crash", "redis"})'
             PROVE  Finalized'
  BY DEF Finalized
<1>0. NoFault({"crash", "redis"})
  BY Growing DEF NoFault
<1>1. /\ pc \in [Procs -> Steps] /\ \A q \in Players : q \in Procs
      /\ \A a \in Admins : a \in Procs /\ a \notin Players
  BY ActorsAssumption DEF Typed, TypeOK, Procs, Players, Steps, Writing
<1>2. CASE \/ \E p \in Requests : Say(p) \/ \E s \in Seats, x \in Seats \cup {Nobody} : Act(p, s, x)
           \/ \E p \in Sweepers : HandleTimeout(p)
  <2>1. PICK p \in Players, g \in Games(world.days), adds \in BOOLEAN : Persist(p, g, adds)
    BY <1>2, Enters
  <2>2. /\ ~ Over /\ row' = row /\ lease = "free" /\ pc'[p] \in {"verdict", "advance"}
        /\ UNCHANGED <<hold, saved, outs>> /\ \A q \in Procs \ {p} : pc'[q] = pc[q]
    BY <1>0, <1>1, <2>1 DEF Persist, Enter, Goto, Over, money, NoFault
  <2>3. \A q \in Players : pc[q] = "idle"
    BY <1>0, <2>2, ActorsAssumption DEF Alone, NoFault, Players
  <2>4. Untouched
    BY <1>0, <2>2, <2>3 DEF Finalized, Finalizing
  <2>5. Untouched' /\ ~ Over' /\ \A q \in Players : pc'[q] \in {"idle", "advance", "verdict"}
    BY <1>1, <2>2, <2>3, <2>4 DEF Untouched, Over
  <2> QED BY <2>5, FinalUntouched
<1>3. ASSUME NEW p \in Players, Between(p) PROVE Finalized'
  BY <1>0, <1>3, FinalBetween
<1>4. ASSUME NEW p \in Players, Advance(p) PROVE Finalized'
  <2>1. /\ pc[p] = "advance" /\ pc'[p] = "idle" /\ \A q \in Procs \ {p} : pc'[q] = pc[q]
        /\ UNCHANGED <<hold, saved, outs>> /\ row'.status = row.status
    BY <1>1, <1>4 DEF Advance, Goto, money, Typed, TypeOK
  <2>2. ~ Over /\ \A q \in Players \ {p} : pc[q] = "idle"
    BY <1>0, <2>1, Only
  <2>3. Untouched
    BY <1>0, <2>1, <2>2 DEF Finalized, Finalizing
  <2>4. Untouched' /\ ~ Over' /\ \A q \in Players : pc'[q] \in {"idle", "advance", "verdict"}
    BY <1>1, <2>1, <2>2, <2>3 DEF Untouched, Over
  <2> QED BY <2>4, FinalUntouched
<1>5. ASSUME NEW p \in Players, Finish(p) PROVE Finalized'
  BY <1>0, <1>5, FinalFinished
<1>6. ASSUME NEW a \in Admins, Resolves(a) PROVE Finalized'
  BY <1>0, <1>6, FinalResolved
<1>7. CASE WindowEnds \/ (\E s \in Seats : ProofArrives(s)) \/ UNCHANGED vars
  <2>1. /\ UNCHANGED <<world, hold, saved, outs, pc, mine>>
        /\ proven \subseteq proven' /\ failed \subseteq failed'
        /\ row'.game = row.game /\ row'.status = row.status
    BY <1>7 DEF WindowEnds, ProofArrives, vars, money, Typed, TypeOK
  <2> QED BY <2>1, FinalKept
<1>8. CASE RedisFails
  BY <1>8 DEF RedisFails, Fault, NoFault
<1> QED BY <1>2, <1>3, <1>4, <1>5, <1>6, <1>7, <1>8, Whose

\* Nothing is paid before the game.
LEMMA FinalInit == Init => Finalized
<1> SUFFICES ASSUME Init PROVE Finalized
  OBVIOUS
<1>1. \A p \in Procs : pc[p] = "idle"
  BY DEF Init, Procs
<1>2. Untouched /\ ~ Over
  BY <1>1 DEF Init, Untouched, Over, Procs
<1>3. \A p \in Players : Stage(p)
  BY <1>1 DEF Stage, Finalizing, Procs
<1>4. \A a \in Admins : Resolving(a)
  BY <1>1 DEF Resolving, Procs
<1> QED BY <1>2, <1>3, <1>4 DEF Finalized

\* A table that ended, without a crash and with locks, paid its surviving winners but
\* those withheld, returned the stakes of a table that nobody won or that was held, or
\* its pot is held or being disbursed: at any table, whoever proves what and when, and
\* whatever administrators do in between.
THEOREM MafiaPaidTheSurvivors == Spec => []PaidTheSurvivors
<1>1. Finalized => PaidTheSurvivors
  <2> SUFFICES ASSUME Finalized, Over, NoFault({"crash", "redis"}) PROVE PaidTheSurvivors
    BY DEF PaidTheSurvivors
  <2>1. Accounted /\ Justified(row.game)
    BY DEF Finalized
  <2>2. Winners(row.game) = Survivors(world, row.game)
    BY DEF Winners, Survivors
  <2>3. \A o \in outs : Owed(world, proven, hold, row.game, o)
    BY <2>1 DEF Justified
  <2>4. \A o \in outs :
            \/ /\ o.kind = "split" /\ o.to \subseteq Winners(row.game)
               /\ \A s \in Winners(row.game) \ o.to :
                     world.rake /\ proven # {} /\ ~ SeatWasAbsent(row.game, s)
            \/ o.kind = "return" /\ (Winners(row.game) = {} \/ hold # "none")
            \/ o.kind = "all" /\ hold = "released"
    BY <2>2, <2>3 DEF Owed
  <2> QED BY <2>1, <2>4 DEF Accounted, PaidTheSurvivors
<1>2. Init => Finalized
  BY FinalInit
<1>3. Typed /\ Chain /\ Alone /\ Finalized /\ [Next]_vars => Finalized'
  BY FinalStep
<1> QED BY <1>1, <1>2, <1>3, Standing, PTL DEF Spec
=============================================================================
