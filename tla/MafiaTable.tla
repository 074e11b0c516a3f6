----------------------------- MODULE MafiaTable -----------------------------
(***************************************************************************)
(* A running, staked Mafia table: agents act and talk, sweepers end the    *)
(* phases whose window is over, and whoever makes the last move finalizes: *)
(* it withholds what was not proven, asks the gate, pays the surviving     *)
(* winners or saves the split for an administrator, and finishes the row.  *)
(*                                                                         *)
(* Whether a write is late is all that its sequence number is used for: a  *)
(* snapshot is stale once an event was appended after it was read.         *)
(* Postings are made as AtomicLedger says: at most once per key.           *)
(***************************************************************************)
EXTENDS Integers, FiniteSets

CONSTANTS
    Seats,      \* the seats of the table
    Role,       \* the role dealt to each
    Requests,   \* requests of agents
    Sweepers,   \* server processes, each with a sweeper
    Admins,     \* requests that resolve disputes
    Worlds      \* who runs, whose agents answer and whom they suspect, how long the
                \* game may last, what may go wrong

Nobody == "nobody"
Owing == "owing"
Roles == {"Mafia", "Doctor", "Detective", "Sheriff", "Villager"}

\* Each happens at most once.  "crash": a handler dies or returns an error.
\* "redis": locks cannot be taken any more.  "integrity": proofs cannot be read.
\* "gate": the gate's lookup or the insert of its hold fails.  "admin": the
\* resolving request dies.
FaultKinds == {"crash", "redis", "integrity", "gate", "admin"}

ASSUME SeatsAssumption == IsFiniteSet(Seats) /\ {Nobody, Owing} \cap Seats = {}
\* The pool of roles deals the mafia in.
ASSUME RoleAssumption == Role \in [Seats -> Roles] /\ \E s \in Seats : Role[s] = "Mafia"
ASSUME ActorsAssumption ==
    /\ Requests \cap Sweepers = {} /\ Admins \cap (Requests \cup Sweepers) = {}
    /\ "free" \notin Requests \cup Sweepers
ASSUME WorldsAssumption ==
    Worlds \subseteq [requests : SUBSET Requests, sweepers : SUBSET Sweepers,
                      admins : SUBSET Admins, faults : SUBSET FaultKinds,
                      house : SUBSET Seats, provers : SUBSET Seats,
                      answer : SUBSET Seats, suspects : SUBSET Seats,
                      flagged : BOOLEAN, rake : BOOLEAN, days : Nat \ {0}]

VARIABLES
    world, failed,  \* this behaviour's world, and what went wrong in it so far
    lease,          \* the Redis lock of the table
    row,            \* its row: status, game, whether the window is over, whether the
                    \* state is behind the event log, and the winner's agent
    proven,         \* seats with a bound decision
    hold, saved,    \* the rows of payout_holds and held_settlements
    outs,           \* the ledger's transactions out of the table's escrow
    pc, mine        \* per process: its next step, and what it holds in memory

vars == <<world, failed, lease, row, proven, hold, saved, outs, pc, mine>>
money == <<hold, saved, outs>>

Players == Requests \cup Sweepers
Humans == Seats \ world.house

-----------------------------------------------------------------------------
(* The engine.  acted[s] is the seat that s names in this phase, Nobody for *)
(* an abstention, a statement or an inquiry, Owing before it has acted.     *)
(* missed[s] is the turns s timed out of minus those it took.               *)

Team(s) == IF Role[s] = "Mafia" THEN "mafia" ELSE "town"
Living(g, team) == {s \in g.alive : Team(s) = team}
NobodyActed == [s \in Seats |-> Owing]

Deal == [day |-> 1, phase |-> "night", alive |-> Seats, acted |-> NobodyActed,
         shielded |-> Nobody, missed |-> [s \in Seats |-> 0], winner |-> "none"]

Asked(g) ==
    CASE g.phase = "night" -> {s \in g.alive : Role[s] # "Villager"}
      [] g.phase \in {"discussion", "voting"} -> g.alive
      [] OTHER -> {}

Pending(g) == {s \in Asked(g) : g.acted[s] = Owing}

\* Whom a seat may name.  A doctor may not shield the same seat twice running.
Choices(g, s) ==
    CASE g.phase = "voting" \/ (g.phase = "night" /\ Role[s] = "Mafia") -> g.alive \ {s}
      [] g.phase = "night" /\ Role[s] = "Doctor" -> g.alive \ {g.shielded}
      [] OTHER -> {}

Named(g, by, t) == Cardinality({s \in by : g.acted[s] = t})

\* pluralityTarget: the seat named most, and no seat in a tie.
Plurality(g, by) ==
    {t \in g.alive : /\ Named(g, by, t) > 0
                     /\ \A u \in g.alive \ {t} : Named(g, by, t) > Named(g, by, u)}

Shielded(g) == {g.acted[s] : s \in {d \in g.alive : Role[d] = "Doctor"}} \ {Nobody}

Victims(g) ==
    CASE g.phase = "night" -> Plurality(g, Living(g, "mafia")) \ Shielded(g)
      [] g.phase = "voting" -> Plurality(g, g.alive)
      [] OTHER -> {}

MafiaPrevails(g) == Cardinality(Living(g, "mafia")) >= Cardinality(Living(g, "town"))

\* checkWin, and the end of a game at its last day (finalByMajority).
Ends(g) ==
    \/ Living(g, "mafia") = {} \/ MafiaPrevails(g)
    \/ (g.phase = "voting" /\ g.day = world.days)

Finished(g) ==
    [g EXCEPT !.phase = "result", !.acted = NobodyActed,
              !.winner = IF Living(g, "mafia") # {} /\ MafiaPrevails(g) THEN "mafia" ELSE "town"]

\* Slip: what was said is not cleared when the vote begins.
NextPhaseUncleared(g) ==
    [g EXCEPT !.acted = IF g.phase = "discussion" THEN g.acted ELSE NobodyActed,
              !.day = IF g.phase = "voting" THEN g.day + 1 ELSE g.day,
              !.phase = CASE g.phase = "night" -> "discussion"
                          [] g.phase = "discussion" -> "voting"
                          [] OTHER -> "night"]

NextPhase(g) ==
    [g EXCEPT !.acted = NobodyActed,
              !.day = IF g.phase = "voting" THEN g.day + 1 ELSE g.day,
              !.phase = CASE g.phase = "night" -> "discussion"
                          [] g.phase = "discussion" -> "voting"
                          [] OTHER -> "night"]

\* The last action of a phase resolves it.
Resolve(g) ==
    LET h == [g EXCEPT !.alive = g.alive \ Victims(g),
                       !.shielded = IF g.phase = "night" /\ Shielded(g) # {}
                                    THEN CHOOSE s \in Shielded(g) : TRUE ELSE g.shielded]
    IN  IF g.phase # "discussion" /\ Ends(h) THEN Finished(h) ELSE NextPhase(h)

ResolveWhenComplete(g) == IF Pending(g) = {} THEN Resolve(g) ELSE g

\* Engine.Act by an agent.
Submit(g, s, x) ==
    ResolveWhenComplete([g EXCEPT !.acted[s] = x, !.missed[s] = @ - 1])

\* Engine.ForceTimeout: whoever owes an action abstains.
ForceTimeout(g) ==
    IF Pending(g) = {} THEN g
    ELSE Resolve([g EXCEPT
            !.acted = [s \in Seats |-> IF s \in Pending(g) THEN Nobody ELSE g.acted[s]],
            !.missed = [s \in Seats |-> g.missed[s] + IF s \in Pending(g) THEN 1 ELSE 0]])

SeatWasAbsent(g, s) == g.missed[s] > 0

-----------------------------------------------------------------------------
(* Settlement *)

\* ComputeRewards: house seats have staked nothing and are paid nothing.
Winners(g) == {s \in g.alive \ world.house : Team(s) = g.winner}

\* Slip: absent seats are not exempt.
UnprovenOrAbsent(g) == IF proven = {} THEN {} ELSE Humans \ proven

\* integrity.Evaluate: a seat that was there and proved nothing, at a table where
\* somebody did.
Unproven(g) ==
    IF proven = {} THEN {} ELSE {s \in Humans \ proven : ~ SeatWasAbsent(g, s)}

\* A table that nobody won returns the stakes; that is not a payout to withhold.
Pays(g, withheld) ==
    IF Winners(g) = {} THEN [kind |-> "return", to |-> Humans]
    ELSE [kind |-> "split", to |-> Winners(g) \ withheld]

NoPays == [kind |-> "none", to |-> {}]

\* ledger.Post under the one disbursement key of the match.
Disburse(pays) == outs' = IF outs = {} THEN {pays} ELSE outs

Nothing == [game |-> Deal, adds |-> FALSE, stale |-> FALSE, pays |-> NoPays]

-----------------------------------------------------------------------------
(* Helpers *)

Fault(kind) ==
    /\ kind \in world.faults \ failed
    /\ failed' = failed \cup {kind}

Goto(p, step) == pc' = [pc EXCEPT ![p] = step]

\* The handler returns; its lock is released, its memory is gone.
Leave(p) ==
    /\ Goto(p, "idle")
    /\ lease' = IF lease = p THEN "free" ELSE lease
    /\ mine' = [mine EXCEPT ![p] = Nothing]

Enter(p) ==
    /\ pc[p] = "idle" /\ row.status = "active"
    /\ IF "redis" \in failed THEN UNCHANGED lease ELSE lease = "free" /\ lease' = p

\* The handler has read the row and computed the state g to write, with events or
\* without.  A state that is final goes to finalize, any other to Advance.
Persist(p, g, adds) ==
    /\ Enter(p)
    /\ mine' = [mine EXCEPT ![p] = [game |-> g, adds |-> adds, stale |-> row.behind,
                                    pays |-> NoPays]]
    /\ Goto(p, IF g.phase = "result" THEN "verdict" ELSE "advance")
    /\ UNCHANGED <<world, failed, row, proven, money>>

-----------------------------------------------------------------------------
(* Agents and sweepers.  A seat that has acted, or is not asked, gets its   *)
(* view back.                                                               *)

\* A night action that does not end the night has no events.
Act(p, s, x) ==
    /\ p \in world.requests
    /\ s \in Pending(row.game) \cap world.answer
    /\ x \in (Choices(row.game, s) \cap world.suspects) \cup {Nobody}
    /\ LET g == Submit(row.game, s, x)
       IN  Persist(p, g, row.game.phase # "night" \/ g.phase # "night")

Say(p) ==
    /\ p \in world.requests
    /\ row.game.phase = "discussion"
    /\ Persist(p, row.game, TRUE)

\* The phase is forced on once its window is over.
HandleTimeout(p) ==
    /\ p \in world.sweepers /\ row.due
    /\ LET g == ForceTimeout(row.game) IN Persist(p, g, g # row.game)

-----------------------------------------------------------------------------
(* persist and finalize *)

\* Slip: the log takes any event.
ConflictNever(p) == FALSE

\* The sequence number of its first event is in the log already.
Conflict(p) == mine[p].adds /\ mine[p].stale

\* Every write arms the deadline again, talk included.
Advance(p) ==
    /\ pc[p] = "advance" /\ row.status = "active" /\ ~ Conflict(p)
    /\ row' = [row EXCEPT !.game = mine[p].game, !.due = FALSE, !.behind = mine[p].stale]
    /\ Goto(p, "idle")
    /\ lease' = IF lease = p THEN "free" ELSE lease
    /\ mine' = [q \in DOMAIN mine |->
                   IF q = p THEN Nothing
                   ELSE IF mine[p].adds /\ pc[q] # "idle" THEN [mine[q] EXCEPT !.stale = TRUE]
                   ELSE mine[q]]
    /\ UNCHANGED <<world, failed, proven, money>>

\* ErrNotActive or ErrConcurrentUpdate; a request reads again and retries.
Refused(p) ==
    /\ pc[p] \in {"advance", "finish"}
    /\ row.status # "active" \/ Conflict(p)
    /\ Leave(p)
    /\ UNCHANGED <<world, failed, row, proven, money>>

GoOn(p, step) ==
    /\ Goto(p, step)
    /\ UNCHANGED <<world, lease, row, proven>>

\* The check is made of tables with a rake whose result is paid.  It fails open.
Verdict(p) ==
    /\ pc[p] = "verdict"
    /\ LET withheld == IF world.rake THEN Unproven(mine[p].game) ELSE {}
       IN  \/ /\ mine' = [mine EXCEPT ![p].pays = Pays(mine[p].game, withheld)]
              /\ UNCHANGED failed
           \/ /\ mine' = [mine EXCEPT ![p].pays = Pays(mine[p].game, {})]
              /\ Fault("integrity")
    /\ GoOn(p, "gate")
    /\ UNCHANGED money

\* antifraud.Service.Allow: a table with a flagged agent is held.
Gate(p) ==
    /\ pc[p] = "gate"
    /\ hold' = IF world.flagged /\ hold = "none" THEN "held" ELSE hold
    /\ GoOn(p, IF world.flagged THEN "save" ELSE "settle")
    /\ UNCHANGED <<failed, saved, outs, mine>>

\* The gate fails closed, and its hold may not be recorded.
GateFails(p) ==
    /\ pc[p] = "gate" /\ Fault("gate")
    /\ hold' \in {hold, IF hold = "none" THEN "held" ELSE hold}
    /\ GoOn(p, "save")
    /\ UNCHANGED <<saved, outs, mine>>

\* Slip: a table whose payout is withheld is not finished either.
SaveAndReturn(p) ==
    /\ pc[p] = "save"
    /\ saved' = mine[p].pays
    /\ Leave(p)
    /\ UNCHANGED <<world, failed, row, proven, hold, outs>>

\* SaveHeldSettlement: the split an administrator may release.
Save(p) ==
    /\ pc[p] = "save"
    /\ saved' = mine[p].pays
    /\ GoOn(p, "finish")
    /\ UNCHANGED <<failed, hold, outs, mine>>

Settle(p) ==
    /\ pc[p] = "settle"
    /\ Disburse(mine[p].pays)
    /\ GoOn(p, "finish")
    /\ UNCHANGED <<failed, hold, saved, mine>>

\* The terminal write.  The row names one agent of the winning team that was alive
\* before the last resolution.
Finish(p) ==
    /\ pc[p] = "finish" /\ row.status = "active" /\ ~ Conflict(p)
    /\ LET g == mine[p].game
           champions == {s \in row.game.alive : Team(s) = g.winner}
       IN  \E s \in IF champions = {} THEN {Nobody} ELSE champions :
              row' = [row EXCEPT !.status = "finished", !.game = g, !.due = FALSE,
                                 !.champion = s]
    /\ Leave(p)
    /\ UNCHANGED <<world, failed, proven, money>>

-----------------------------------------------------------------------------
(* Administrators: the part of ResolveDispute that moves coins *)

\* Only the claim of an open hold goes on to disburse.
ResolveHold(a, action) ==
    /\ a \in world.admins /\ pc[a] = "idle" /\ hold = "held"
    /\ hold' = action
    /\ GoOn(a, IF action = "refunded" THEN "refund" ELSE "read")
    /\ UNCHANGED <<failed, saved, outs, mine>>

Refund(a) ==
    /\ pc[a] = "refund"
    /\ Disburse([kind |-> "return", to |-> Humans])
    /\ Leave(a)
    /\ UNCHANGED <<world, failed, row, proven, hold, saved>>

\* SettleHeld: the split that was saved, or else the winner of the row, or a tie.
ReadHeld(a) ==
    /\ pc[a] = "read"
    /\ mine' = [mine EXCEPT ![a].pays =
                   IF saved # NoPays THEN saved
                   ELSE IF row.champion = Nobody THEN [kind |-> "return", to |-> Humans]
                   ELSE [kind |-> "all", to |-> {row.champion}]]
    /\ GoOn(a, "pay")
    /\ UNCHANGED <<failed, money>>

SettleHeld(a) ==
    /\ pc[a] = "pay"
    /\ Disburse(mine[a].pays)
    /\ Leave(a)
    /\ UNCHANGED <<world, failed, row, proven, hold, saved>>

-----------------------------------------------------------------------------
(* The environment *)

WindowEnds ==
    /\ row.status = "active" /\ ~ row.due
    /\ row' = [row EXCEPT !.due = TRUE]
    /\ UNCHANGED <<world, failed, lease, proven, money, pc, mine>>

ProofArrives(s) ==
    /\ s \in world.provers \ proven
    /\ proven' = proven \cup {s}
    /\ UNCHANGED <<world, failed, lease, row, money, pc, mine>>

RedisFails ==
    /\ Fault("redis")
    /\ lease' = "free"
    /\ UNCHANGED <<world, row, proven, money, pc, mine>>

\* The lock of a process that died lapses.
Crash(p) ==
    /\ pc[p] # "idle" /\ Fault("crash")
    /\ Leave(p)
    /\ UNCHANGED <<world, row, proven, money>>

AdminFails(a) ==
    /\ pc[a] # "idle" /\ Fault("admin")
    /\ Leave(a)
    /\ UNCHANGED <<world, row, proven, money>>

-----------------------------------------------------------------------------
(* Specification *)

Init ==
    /\ world \in Worlds
    /\ failed = {}
    /\ lease = "free"
    /\ row = [status |-> "active", game |-> Deal, due |-> FALSE, behind |-> FALSE,
              champion |-> Nobody]
    /\ proven = {}
    /\ hold = "none" /\ saved = NoPays
    /\ outs = {}
    /\ pc = [p \in Players \cup Admins |-> "idle"]
    /\ mine = [p \in Players \cup Admins |-> Nothing]

Step(p) ==
    \/ Advance(p) \/ Refused(p)
    \/ Verdict(p) \/ Gate(p) \/ GateFails(p) \/ Save(p) \/ Settle(p) \/ Finish(p)

Disburses(a) == Refund(a) \/ ReadHeld(a) \/ SettleHeld(a)

Next ==
    \/ \E p \in Requests :
          Say(p) \/ \E s \in Seats, x \in Seats \cup {Nobody} : Act(p, s, x)
    \/ \E p \in Sweepers : HandleTimeout(p)
    \/ \E p \in Players : Step(p) \/ Crash(p)
    \/ \E a \in Admins :
          \/ \E action \in {"released", "refunded"} : ResolveHold(a, action)
          \/ Disburses(a) \/ AdminFails(a)
    \/ WindowEnds \/ RedisFails \/ \E s \in Seats : ProofArrives(s)

Spec == Init /\ [][Next]_vars

\* A handler that was entered goes on, a sweeper keeps coming, and time passes.
FairSpec ==
    /\ Spec
    /\ \A p \in Players : WF_vars(Step(p))
    /\ \A p \in Sweepers : WF_vars(HandleTimeout(p))
    /\ WF_vars(WindowEnds)

-----------------------------------------------------------------------------
(* Properties *)

Over == row.status = "finished"
NoFault(kinds) == failed \cap kinds = {}
Phases == {"night", "discussion", "voting", "result"}

\* Types; and a game goes on exactly as long as a seat that is alive owes an action,
\* so that ForceTimeout always has something to force and always makes an event.
TypeOK ==
    /\ world \in Worlds /\ failed \subseteq world.faults
    /\ lease \in Players \cup {"free"}
    /\ row \in [status : {"active", "finished"}, game : [
                    day : 1 .. world.days, phase : Phases, alive : SUBSET Seats,
                    acted : [Seats -> Seats \cup {Nobody, Owing}],
                    shielded : Seats \cup {Nobody}, missed : [Seats -> Int],
                    winner : {"none", "mafia", "town"}],
                due : BOOLEAN, behind : BOOLEAN, champion : Seats \cup {Nobody}]
    /\ proven \subseteq world.provers
    /\ hold \in {"none", "held", "released", "refunded"}
    /\ \A o \in outs \cup {saved} :
          o \in [kind : {"none", "return", "split", "all"}, to : SUBSET Seats]
    /\ pc \in [Players \cup Admins ->
                  {"idle", "advance", "verdict", "gate", "save", "settle", "finish",
                   "refund", "read", "pay"}]
    /\ Over <=> Pending(row.game) = {}

\* The turns of a game in their order: night, discussion, voting, and on to the next day.
Turn(g) ==
    4 * g.day + CASE g.phase = "night" -> 0 [] g.phase = "discussion" -> 1
                  [] g.phase = "voting" -> 2 [] OTHER -> 3

\* h may come after g: in a later turn, or in the same one with all that was submitted.
Follows(g, h) ==
    /\ h.alive \subseteq g.alive
    /\ \/ Turn(h) > Turn(g)
       \/ Turn(h) = Turn(g) /\ \A s \in Seats : g.acted[s] \in {Owing, h.acted[s]}

\* What a table knows is never unsaid: no write, however late it comes, moves the game
\* back to an earlier turn, raises the dead or takes away what a seat has submitted in
\* this turn.  A night action is written without an event, so while locks cannot be
\* taken the event log does not refuse it: it may overwrite another of the same night,
\* or take the table back to its night, and only then is the row behind the log.
SubmissionsStand ==
    [][\/ Follows(row.game, row'.game)
       \/ /\ "redis" \in failed /\ row'.game.phase = "night"
          /\ row'.behind \/ Turn(row'.game) = Turn(row.game)]_vars

\* When a table is over, its pot went to the surviving winners of the recorded team,
\* house seats excepted, and to all of them but those that were there, at a table
\* where somebody proved a decision; or the stakes went back, of a table that nobody
\* won or that was held; or the pot is held or being disbursed, or could not be held.
\* Excepted are a crash and missing locks: the state that is paid is not written first.
PaidTheSurvivors ==
    Over /\ NoFault({"crash", "redis"}) =>
      /\ \A o \in outs :
            \/ /\ o.kind = "split" /\ o.to \subseteq Winners(row.game)
               /\ \A s \in Winners(row.game) \ o.to :
                     world.rake /\ proven # {} /\ ~ SeatWasAbsent(row.game, s)
            \/ o.kind = "return" /\ (Winners(row.game) = {} \/ hold # "none")
            \/ o.kind = "all" /\ hold = "released"
      /\ \/ outs # {} \/ hold = "held" \/ ~ NoFault({"admin", "gate"})
         \/ \E a \in Admins : pc[a] # "idle"

\* Once the agents have fallen silent, the table is played to its end and its escrow
\* is not stranded.  Excepted is a state that a late night action has moved behind the
\* event log, which refuses every later event.
AbandonedTablesEnd ==
    <>[][\A p \in Requests : pc[p] = "idle" => pc'[p] = "idle"]_vars
      => <>(Over \/ row.behind)

\* Chatter cannot stall a discussion: "the phase clock still ends it"
\* (engine/mafia/clock.go).
TalkDoesNotStall == row.game.phase = "discussion" ~> row.game.phase # "discussion"
=============================================================================
