------------------------------- MODULE Seating -------------------------------
(***************************************************************************)
(* From an open table to a running one, in both games: match.Service.Join  *)
(* (a duel starts when the second agent joins) and mafia.Service.join (a   *)
(* table starts when the roster is full).  A join takes two leases in      *)
(* Redis, the agent's, shared by the games, and the table's; under them it *)
(* checks, stakes under the table's one stake key, activates, and refunds  *)
(* under the table's one disbursement key when the activation fails.       *)
(*                                                                         *)
(* Requests come at any time.  A lease may lapse under a slow request, a   *)
(* request may die, a statement may fail with or without its effect.       *)
(***************************************************************************)
EXTENDS Integers, Sequences, FiniteSets, SequencesExt

CONSTANTS
    Agents, House,      \* the agents; those that are the platform's fillers
    Owner,              \* the beneficiary behind each agent
    Duels, Mafia,       \* tables of either game
    Host,               \* who opens each table
    Roster,             \* seats of a mafia table
    Bid,                \* stake of every table
    Requests,           \* join requests in flight
    Nobody,             \* holder of a free lease
    Situations,         \* the situations considered
    MaxFaults           \* bound on what goes wrong in one behaviour

Tables == Duels \cup Mafia
FaultKinds == {"lapse", "crash", "database"}

ASSUME TablesAssumption ==
    /\ IsFiniteSet(Tables) /\ Duels \cap Mafia = {} /\ Host \in [Tables -> Agents \ House]
    /\ House \subseteq Agents /\ DOMAIN Owner = Agents
    /\ Roster \in Nat \ {0, 1} /\ Bid \in Nat \ {0}
    /\ Nobody \notin Requests \cup Agents /\ MaxFaults \in Nat
\* The fillers share one owner of their own, usr_system.
ASSUME HouseAssumption == \A h \in House, a \in Agents \ House : Owner[h] # Owner[a]
\* A situation: the tables that may be opened, what each agent's wallet holds (a
\* filler's nothing), max_concurrent_matches, and what may go wrong.
ASSUME SituationsAssumption ==
    /\ Situations \subseteq [tables : SUBSET Tables, funds : [Agents -> Nat], limit : Nat,
                             faults : SUBSET FaultKinds]
    /\ \A s \in Situations, h \in House : s.funds[h] = 0

VARIABLES
    world,      \* the situation of this behaviour; never changes
    faults,     \* how much went wrong so far
    table,      \* matches and match_players: status, agents by seat, who activated it
    balance,    \* the agents' wallets
    staked,     \* per table: the agents its stake transaction debits
    paidOut,    \* per table: the agents its disbursement transaction credits
    lease,      \* who holds each agent's and each table's lease
    req,        \* per request: its step, its agent and table, the players it read
    excused     \* history: tables and agents that a fault has touched

money == <<balance, staked, paidOut>>
vars == <<world, faults, table, money, lease, req, excused>>

Idle == [pc |-> "idle"]
Humans(s) == ToSet(s) \ House
Owners(s) == {Owner[a] : a \in ToSet(s)}

Fault(kind) == kind \in world.faults /\ faults < MaxFaults /\ faults' = faults + 1

-----------------------------------------------------------------------------
(* Helpers *)

Goto(r, step) == req' = [req EXCEPT ![r].pc = step]

\* A request ends and gives back the leases that are still its own.
Done(r) ==
    /\ req' = [req EXCEPT ![r] = Idle]
    /\ lease' = [x \in DOMAIN lease |-> IF lease[x] = r THEN Nobody ELSE lease[x]]

Active(a) == {t \in Tables : table[t].status = "active" /\ a \in ToSet(table[t].seats)}

\* checkSeat: the agent's wallet covers the stake and it plays few enough matches.
MayPlay(a) == balance[a] >= Bid /\ Cardinality(Active(a)) < world.limit

Open(t) == table[t].status = "waiting"

\* The checks of a join on what it reads.
Admissible(a, t) ==
    /\ Open(t) /\ a \notin ToSet(table[t].seats)
    /\ t \in Mafia => Len(table[t].seats) < Roster
    /\ \/ t \in Mafia /\ a \in House
       \/ Owner[a] \notin Owners(table[t].seats) /\ MayPlay(a)

Adjust(S, n) == [a \in Agents |-> IF a \in S THEN balance[a] + n ELSE balance[a]]

\* One transaction under stake:{table}; a replay of the key changes nothing.
PostStake(t, S) ==
    IF staked[t] # {} THEN UNCHANGED money
    ELSE balance' = Adjust(S, -Bid) /\ staked' = [staked EXCEPT ![t] = S] /\ UNCHANGED paidOut

\* Slip: the overdraft check stops at the first wallet that passes.
PayableByOne(t, S) == staked[t] # {} \/ \E a \in S : balance[a] >= Bid

Payable(t, S) == staked[t] # {} \/ \A a \in S : balance[a] >= Bid

\* Slip: a settlement has a key other than a refund's.
DisbursePerKind(t, S, amount) ==
    IF paidOut[t] = S THEN UNCHANGED money
    ELSE balance' = Adjust(S, amount) /\ paidOut' = [paidOut EXCEPT ![t] = S] /\ UNCHANGED staked

\* One transaction under disburse:{table}: amount to each of S.
Disburse(t, S, amount) ==
    IF paidOut[t] # {} THEN UNCHANGED money
    ELSE balance' = Adjust(S, amount) /\ paidOut' = [paidOut EXCEPT ![t] = S] /\ UNCHANGED staked

\* Whose coins a request stakes, and gives back: a duel's creator and this joiner;
\* the human players the request read, and those of match_players now.
Stakers(q) == IF q.table \in Duels THEN {Host[q.table], q.agent} ELSE Humans(q.seats)
Refunded(q) == IF q.table \in Duels THEN {Host[q.table], q.agent} ELSE Humans(table[q.table].seats)

\* Slip: a lease of the joiner for each game.
LeasesPerGame(a, t) ==
    /\ lease[t] = Nobody
    /\ \A r \in Requests : lease[a] = r => req[r].table \in Duels /\ t \in Mafia

Leases(a, t) == lease[a] = Nobody /\ lease[t] = Nobody

\* Slip: seats are numbered when they are written.
SeatAppended(t, s) == TRUE

\* UNIQUE (match_id, seat): seats are numbered from the players the request read.
SeatFree(t, s) == Len(table[t].seats) = Len(s)

Running(q) ==
    [table EXCEPT ![q.table] = [status |-> "active", starter |-> q.agent,
        seats |-> IF q.table \in Duels THEN Append(@.seats, q.agent) ELSE @.seats]]

-----------------------------------------------------------------------------
(* Tables *)

Init ==
    /\ world \in Situations
    /\ faults = 0
    /\ table = [t \in Tables |-> [status |-> "none", seats |-> <<>>, starter |-> Nobody]]
    /\ balance = world.funds
    /\ staked = [t \in Tables |-> {}]
    /\ paidOut = [t \in Tables |-> {}]
    /\ lease = [x \in Agents \cup Tables |-> Nobody]
    /\ req = [r \in Requests |-> Idle]
    /\ excused = {}

\* createWaiting, CreateTable: the host sits down; nothing is staked.
Create(t) ==
    /\ t \in world.tables /\ table[t].status = "none" /\ MayPlay(Host[t])
    /\ table' = [table EXCEPT ![t].status = "waiting", ![t].seats = <<Host[t]>>]
    /\ UNCHANGED <<world, faults, money, lease, req, excused>>

\* Cancel, by the host, under the table's lease.
Cancel(t) ==
    /\ lease[t] = Nobody /\ Open(t)
    /\ table' = [table EXCEPT ![t].status = "aborted"]
    /\ UNCHANGED <<world, faults, money, lease, req, excused>>

\* SweepStaleWaiting, with no lease: mafia tables that have waited too long.
SweepStaleWaiting(t) ==
    /\ t \in Mafia /\ Open(t)
    /\ table' = [table EXCEPT ![t].status = "aborted"]
    /\ UNCHANGED <<world, faults, money, lease, req, excused>>

\* The match is played and settled: the pool goes to a winner.
Finish(t) ==
    /\ table[t].status = "active"
    /\ table' = [table EXCEPT ![t].status = "over"]
    /\ \E w \in Humans(table[t].seats) :
        Disburse(t, {w}, Bid * Cardinality(Humans(table[t].seats)))
    /\ UNCHANGED <<world, faults, lease, req, excused>>

-----------------------------------------------------------------------------
(* One request *)

\* Both leases, or the request is answered "busy".
Begin(r, a, t) ==
    /\ req[r] = Idle /\ t \in world.tables /\ table[t].status # "none"
    /\ Leases(a, t)
    /\ lease' = [lease EXCEPT ![a] = r, ![t] = r]
    /\ req' = [req EXCEPT ![r] = [pc |-> "check", agent |-> a, table |-> t, seats |-> <<>>]]
    /\ UNCHANGED <<world, faults, table, money, excused>>

Check(r) ==
    /\ req[r].pc = "check"
    /\ IF Admissible(req[r].agent, req[r].table)
       THEN /\ req' = [req EXCEPT ![r].seats = table[req[r].table].seats,
                                  ![r].pc = IF req[r].table \in Duels THEN "stake" ELSE "sit"]
            /\ UNCHANGED lease
       ELSE Done(r)
    /\ UNCHANGED <<world, faults, table, money, excused>>

\* JoinSeat: the seat after those the request has read.
Sit(r) ==
    LET q == req[r] IN
    /\ q.pc = "sit"
    /\ IF Open(q.table) /\ SeatFree(q.table, q.seats)
       THEN /\ table' = [table EXCEPT ![q.table].seats = Append(@, q.agent)]
            /\ Goto(r, "count")
            /\ UNCHANGED lease
       ELSE Done(r) /\ UNCHANGED table
    /\ UNCHANGED <<world, faults, money, excused>>

\* The table is read again: is the roster full?
Count(r) ==
    LET s == table[req[r].table].seats IN
    /\ req[r].pc = "count"
    /\ IF Len(s) < Roster THEN Done(r)
       ELSE req' = [req EXCEPT ![r].seats = s, ![r].pc = "stake"] /\ UNCHANGED lease
    /\ UNCHANGED <<world, faults, table, money, excused>>

\* StakeMatch, StakeTable: all seats pay or none; an error ends the request.
Stake(r) ==
    LET q == req[r] IN
    /\ q.pc = "stake"
    /\ IF Payable(q.table, Stakers(q))
       THEN PostStake(q.table, Stakers(q)) /\ Goto(r, "start") /\ UNCHANGED lease
       ELSE Done(r) /\ UNCHANGED money
    /\ UNCHANGED <<world, faults, table, excused>>

\* ... also the error of a transaction that was committed.
StakeFails(r) ==
    LET q == req[r] IN
    /\ q.pc = "stake" /\ Fault("database") /\ Payable(q.table, Stakers(q))
    /\ PostStake(q.table, Stakers(q))
    /\ Done(r)
    /\ excused' = excused \cup {q.table}
    /\ UNCHANGED <<world, table>>

\* Activate, Start: guarded by the status.
Start(r) ==
    LET q == req[r] IN
    /\ q.pc = "start"
    /\ IF Open(q.table)
       THEN table' = Running(q) /\ Done(r)
       ELSE UNCHANGED <<table, lease>> /\ Goto(r, "refund")
    /\ UNCHANGED <<world, faults, money, excused>>

\* ... with an error, committed or not.
StartFails(r) ==
    LET q == req[r] IN
    /\ q.pc = "start" /\ Fault("database") /\ Open(q.table)
    /\ table' = Running(q) \/ UNCHANGED table
    /\ Goto(r, "refund")
    /\ excused' = excused \cup {q.table}
    /\ UNCHANGED <<world, money, lease>>

\* Slip: the refund is left to the sweeper.
RefundLater(r) ==
    /\ req[r].pc = "refund" /\ Done(r)
    /\ UNCHANGED <<world, faults, table, money, excused>>

\* RefundStakes, RefundTable.
Refund(r) ==
    /\ req[r].pc = "refund"
    /\ Disburse(req[r].table, Refunded(req[r]), Bid)
    /\ Done(r)
    /\ UNCHANGED <<world, faults, table, excused>>

\* ... whose error is logged or returned.
RefundFails(r) ==
    /\ req[r].pc = "refund" /\ Fault("database")
    /\ Done(r)
    /\ excused' = excused \cup {req[r].table}
    /\ UNCHANGED <<world, table, money>>

\* The request outlives its leases and goes on.
Lapse(r) ==
    /\ req[r].pc # "idle" /\ Fault("lapse")
    /\ lease' = [x \in DOMAIN lease |-> IF lease[x] = r THEN Nobody ELSE lease[x]]
    /\ excused' = excused \cup {req[r].agent, req[r].table}
    /\ UNCHANGED <<world, table, money, req>>

\* The process dies.  Its leases run out; until then others are only told "busy".
Crash(r) ==
    /\ req[r].pc # "idle" /\ Fault("crash")
    /\ Done(r)
    /\ excused' = IF req[r].pc \in {"start", "refund"} THEN excused \cup {req[r].table} ELSE excused
    /\ UNCHANGED <<world, table, money>>

Step(r) ==
    \/ Check(r) \/ Sit(r) \/ Count(r) \/ Stake(r) \/ Start(r) \/ Refund(r)

Next ==
    \/ \E t \in Tables : Create(t) \/ Cancel(t) \/ SweepStaleWaiting(t) \/ Finish(t)
    \/ \E r \in Requests, a \in Agents, t \in Tables : Begin(r, a, t)
    \/ \E r \in Requests :
        Step(r) \/ StakeFails(r) \/ StartFails(r) \/ RefundFails(r) \/ Lapse(r) \/ Crash(r)

Spec == Init /\ [][Next]_vars

-----------------------------------------------------------------------------
(* Properties *)

Statuses == {"none", "waiting", "active", "aborted", "over"}

\* The variables have their types, no wallet is overdrawn, and only an open or
\* finished table's starter is unknown.
TypeOK ==
    /\ world \in Situations /\ faults \in 0 .. MaxFaults
    /\ table \in [Tables -> [status : Statuses, seats : Seq(Agents), starter : Agents \cup {Nobody}]]
    /\ \A t \in Tables : table[t].status \in {"active", "over"} <=> table[t].starter # Nobody
    /\ balance \in [Agents -> Nat]
    /\ staked \in [Tables -> SUBSET (Agents \ House)] /\ paidOut \in [Tables -> SUBSET (Agents \ House)]
    /\ lease \in [Agents \cup Tables -> Requests \cup {Nobody}]
    /\ req \in [Requests -> {Idle} \cup
        [pc : {"check", "sit", "count", "stake", "start", "refund"}, agent : Agents,
         table : Tables, seats : Seq(Agents)]]

InHand(t) == \E r \in Requests : req[r].pc \in {"start", "refund"} /\ req[r].table = t

\* What a table may still pay is what it took: its prize if it is active, the stakes
\* that a request is about to give back; and none pays that took nothing.
Covered(t) ==
    /\ table[t].status = "active"
        => staked[t] # {} /\ Cardinality(staked[t]) = Cardinality(Humans(table[t].seats))
    /\ \A r \in Requests : req[r].pc = "refund" /\ req[r].table = t
        => staked[t] # {} /\ Cardinality(staked[t]) = Cardinality(Refunded(req[r]))
    /\ paidOut[t] # {} => staked[t] # {}

\* The escrow holds what the seats of running tables paid, and nothing else: an
\* active table was staked by exactly the agents that sit at it and has not been
\* paid out; one that never started holds no coins, or gave each payer its own.
\* Excepted are tables whose stake a crash, an error or a lapsed lease cut off: there
\* the wrong seats may have paid or been refunded, but no table, these included, ever
\* pays with another table's coins.
EscrowIsTheSeats == \A t \in Tables :
    /\ Covered(t)
    /\ t \notin excused =>
        /\ table[t].status = "active" => staked[t] = Humans(table[t].seats) /\ paidOut[t] = {}
        /\ table[t].status \in {"none", "waiting", "aborted"} /\ ~ InHand(t)
            => staked[t] = paidOut[t]

\* Each table's part of the one escrow wallet, from what was posted under its two keys,
\* and how far it has come.
PartOf(t) == IF paidOut[t] = {} THEN Bid * Cardinality(staked[t]) ELSE 0
PhaseOf(t) == IF paidOut[t] # {} THEN "closed" ELSE IF staked[t] # {} THEN "staked" ELSE "open"

Escrows == INSTANCE TableEscrow WITH
    wallet <- balance,
    coins <- [t \in Tables |-> PartOf(t)],
    phase <- [t \in Tables |-> PhaseOf(t)]

\* The shared escrow wallet can never be debited twice for the same match (disburseKey):
\* to every table, whatever lapses, dies or fails, it is an escrow of its own.
ImplementsTableEscrow == Escrows!Spec

\* No developer has two seats at a table and no table more players than seats,
\* even when leases lapse: fillers apart, which share one owner.
OwnersDistinct == \A t \in Tables :
    /\ Len(table[t].seats) <= IF t \in Duels THEN 2 ELSE Roster
    /\ \A i, j \in DOMAIN table[t].seats :
        i # j => /\ table[t].seats[i] # table[t].seats[j]
                 /\ {table[t].seats[i], table[t].seats[j]} \subseteq House
                    \/ Owner[table[t].seats[i]] # Owner[table[t].seats[j]]

\* An agent cannot race its joins into different tables, or games, past
\* max_concurrent_matches: the matches that its own joins made active stay within
\* the limit (M6).  Those that others' joins make active are not counted: nothing
\* looks at the seats already taken again.
JoinsWithinLimit == \A a \in Agents \ (House \cup excused) :
    Cardinality({t \in Active(a) : table[t].starter = a}) <= world.limit
=============================================================================
