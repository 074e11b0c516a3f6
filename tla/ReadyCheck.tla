----------------------------- MODULE ReadyCheck -----------------------------
(***************************************************************************)
(* The ready check of one paired table: match.Service.ReadyTick, driven by *)
(* a ready sweeper in every server process, from the pairing to the moment *)
(* the table is active or given up.  Each step is one statement another    *)
(* process can come between: a read, a write, or a call of the wallet,     *)
(* which posts to the ledger as AtomicLedger says (at most once per key).  *)
(*                                                                         *)
(* ReadyTick takes no lock, so what a sweeper read can be stale when it    *)
(* acts on it.  The windows a seat has to answer are abstracted to the     *)
(* fact that matters: whether the window of its last ask is over.          *)
(***************************************************************************)
EXTENDS Integers, FiniteSets

CONSTANTS
    Seats,          \* seat numbers of the table
    Sweepers,       \* server processes
    Deployments,    \* which of them run, and what may go wrong there
    MaxAsks,        \* policy: asks before a silent seat is dropped
    MinReady,       \* policy: seats that must be ready
    MaxFaults       \* bound on what goes wrong in one behaviour

\* "crash": the process dies.  "database": a statement returns an error; when
\* the connection broke at the wrong moment the statement took effect.
FaultKinds == {"crash", "database"}

ASSUME SeatsAssumption == Seats \subseteq Nat /\ IsFiniteSet(Seats)
ASSUME SweepersAssumption == IsFiniteSet(Sweepers)
ASSUME PolicyAssumption ==
    MaxAsks \in Nat \ {0} /\ MinReady \in 1 .. Cardinality(Seats) /\ MaxFaults \in Nat
ASSUME DeploymentsAssumption ==
    Deployments \subseteq [sweepers : SUBSET Sweepers, faults : SUBSET FaultKinds]

VARIABLES
    world,      \* the deployment of this behaviour; never changes
    faults,     \* how much went wrong so far
    status,     \* matches.status
    seat,       \* match_players.ready_at, ready_asks, and whether the window is over
    posted,     \* the ledger's keys of this match: "stake", "disburse"
    queued,     \* seats put back into the matchmaking queue
    pc, todo,   \* per sweeper: its next step, and the seats it has still to serve
    sawStake    \* per sweeper: the stake was posted when it began to post it

vars == <<world, faults, status, seat, posted, queued, pc, todo, sawStake>>

Steps == {"idle", "ask", "await", "requeue", "abandon", "stake", "activate", "refund"}

-----------------------------------------------------------------------------
(* Evaluate: what to do with the table now. *)

Ready == {a \in Seats : seat[a].ready}
Silent == {a \in Seats : ~ seat[a].ready /\ seat[a].late /\ seat[a].asks >= MaxAsks}
Live == Seats \ Silent
ToAsk == {a \in Live \ Ready : seat[a].asks = 0 \/ seat[a].late}

Decision ==
    IF Silent # {} THEN "drop"
    ELSE IF Cardinality(Ready) >= MinReady /\ Ready = Live THEN "start"
    ELSE IF Cardinality(Live) < MinReady THEN "abandon"
    ELSE IF ToAsk # {} THEN "ask"
    ELSE "wait"

-----------------------------------------------------------------------------
(* Helpers *)

Lowest(S) == CHOOSE a \in S : \A b \in S : a <= b

\* Sweeper s goes on with step, and has the seats in S left to serve.
Goto(s, step, S) ==
    /\ pc' = [pc EXCEPT ![s] = step]
    /\ todo' = [todo EXCEPT ![s] = S]

Fault(kind) ==
    /\ kind \in world.faults
    /\ faults < MaxFaults
    /\ faults' = faults + 1

\* The statements of the match repository, each with the status in its WHERE.
MarkReady(a) ==
    seat' = IF status = "ready_check" THEN [seat EXCEPT ![a].ready = TRUE] ELSE seat

\* Slip: the count is left to the answer.
CountAskUncounted(a) ==
    seat' = IF status = "ready_check" THEN [seat EXCEPT ![a].late = FALSE] ELSE seat

CountAsk(a) ==
    seat' = IF status = "ready_check"
            THEN [seat EXCEPT ![a].asks = @ + 1, ![a].late = FALSE]
            ELSE seat

SetStatus(new) == status' = IF status = "ready_check" THEN new ELSE status

\* ledger.Post under one of the match's keys: posted at most once.
PostKey(k) == posted' = posted \cup {k}

-----------------------------------------------------------------------------
(* Actions *)

Init ==
    /\ world \in Deployments
    /\ faults = 0
    /\ status = "ready_check"
    /\ seat = [a \in Seats |-> [ready |-> FALSE, asks |-> 0, late |-> FALSE]]
    /\ posted = {}
    /\ queued = {}
    /\ pc = [s \in Sweepers |-> "idle"]
    /\ todo = [s \in Sweepers |-> {}]
    /\ sawStake = [s \in Sweepers |-> FALSE]

\* A seat's agent calls POST /ready of its own accord.
AgentReady(a) ==
    /\ status = "ready_check" /\ ~ seat[a].ready
    /\ MarkReady(a)
    /\ UNCHANGED <<world, faults, status, posted, queued, pc, todo, sawStake>>

\* The window of the last ask is over.
WindowEnds(a) ==
    /\ status = "ready_check"
    /\ seat[a].asks > 0 /\ ~ seat[a].ready /\ ~ seat[a].late
    /\ seat' = [seat EXCEPT ![a].late = TRUE]
    /\ UNCHANGED <<world, faults, status, posted, queued, pc, todo, sawStake>>

\* ReadyTick reads the table and its seats and decides.
Tick(s) ==
    /\ pc[s] = "idle"
    /\ status = "ready_check"
    /\ \/ Decision = "ask" /\ Goto(s, "ask", ToAsk) /\ UNCHANGED sawStake
       \/ Decision \in {"drop", "abandon"}
          /\ Goto(s, "requeue", Silent \cup Ready) /\ UNCHANGED sawStake
       \/ Decision = "start" /\ Goto(s, "stake", {})
          /\ sawStake' = [sawStake EXCEPT ![s] = "stake" \in posted]
    /\ UNCHANGED <<world, faults, status, seat, posted, queued>>

\* The ask is recorded before it goes out.
RecordAsk(s) ==
    /\ pc[s] = "ask"
    /\ CountAsk(Lowest(todo[s]))
    /\ Goto(s, "await", todo[s])
    /\ UNCHANGED <<world, faults, status, posted, queued, sawStake>>

\* AskReady returns: the seat acknowledged, or it did not.
AskReturns(s) ==
    /\ pc[s] = "await"
    /\ LET a == Lowest(todo[s])
           rest == todo[s] \ {a}
       IN  /\ MarkReady(a) \/ UNCHANGED seat
           /\ Goto(s, IF rest = {} THEN "idle" ELSE "ask", rest)
    /\ UNCHANGED <<world, faults, status, posted, queued, sawStake>>

\* The seats of a table that cannot start go back to the queue, one by one;
\* one that cannot be put back is only logged.
Requeue(s) ==
    /\ pc[s] = "requeue"
    /\ todo[s] # {}
    /\ \E a \in todo[s] :
        /\ \/ queued' = queued \cup {a} /\ UNCHANGED faults
           \/ Fault("database") /\ UNCHANGED queued
        /\ Goto(s, "requeue", todo[s] \ {a})
    /\ UNCHANGED <<world, status, seat, posted, sawStake>>

\* Slip: the table is left to the next tick.
RequeueDoneOnly(s) ==
    /\ pc[s] = "requeue"
    /\ todo[s] = {}
    /\ Goto(s, "idle", {})
    /\ UNCHANGED <<world, faults, status, seat, posted, queued, sawStake>>

RequeueDone(s) ==
    /\ pc[s] = "requeue"
    /\ todo[s] = {}
    /\ Goto(s, "abandon", {})
    /\ UNCHANGED <<world, faults, status, seat, posted, queued, sawStake>>

\* Slip: a status of its own, which nobody else knows.
AbandonAsCancelled(s) ==
    /\ pc[s] = "abandon"
    /\ SetStatus("cancelled")
    /\ Goto(s, "idle", {})
    /\ UNCHANGED <<world, faults, seat, posted, queued, sawStake>>

Abandon(s) ==
    /\ pc[s] = "abandon"
    /\ SetStatus("aborted")
    /\ Goto(s, "idle", {})
    /\ UNCHANGED <<world, faults, seat, posted, queued, sawStake>>

\* StakeMatch succeeds: the stake is posted now, or was already.
Stake(s) ==
    /\ pc[s] = "stake"
    /\ PostKey("stake")
    /\ Goto(s, "activate", {})
    /\ UNCHANGED <<world, faults, status, seat, queued, sawStake>>

\* Slip: a stake that is posted already counts as a refusal.
StakeRefusedTwice(s) ==
    /\ pc[s] = "stake"
    /\ Goto(s, "abandon", {})
    /\ UNCHANGED <<world, faults, status, seat, posted, queued, sawStake>>

\* StakeMatch is refused: a seat has spent its coins elsewhere, or a rival has
\* just posted this very stake, which Apply looks at only after the balances.
StakeRefused(s) ==
    /\ pc[s] = "stake"
    /\ ~ sawStake[s]
    /\ Goto(s, "abandon", {})
    /\ UNCHANGED <<world, faults, status, seat, posted, queued, sawStake>>

\* Slip: whatever the failed call may have taken is given back.
StakeFailsRefunding(s) ==
    /\ pc[s] = "stake"
    /\ Fault("database")
    /\ PostKey("stake") \/ UNCHANGED posted
    /\ Goto(s, "refund", {})
    /\ UNCHANGED <<world, status, seat, queued, sawStake>>

\* StakeMatch fails, having posted or not; the code takes it for a refusal.
StakeFails(s) ==
    /\ pc[s] = "stake"
    /\ Fault("database")
    /\ PostKey("stake") \/ UNCHANGED posted
    /\ Goto(s, "abandon", {})
    /\ UNCHANGED <<world, status, seat, queued, sawStake>>

\* ActivateAfterReady: this sweeper starts the table ...
Activate(s) ==
    /\ pc[s] = "activate"
    /\ status = "ready_check"
    /\ SetStatus("active")
    /\ Goto(s, "idle", {})
    /\ UNCHANGED <<world, faults, seat, posted, queued, sawStake>>

\* ... or another was faster ...
ActivateLost(s) ==
    /\ pc[s] = "activate"
    /\ status # "ready_check"
    /\ Goto(s, "refund", {})
    /\ UNCHANGED <<world, faults, status, seat, posted, queued, sawStake>>

\* ... or the statement fails, having taken effect or not.
ActivateFails(s) ==
    /\ pc[s] = "activate"
    /\ Fault("database")
    /\ SetStatus("active") \/ UNCHANGED status
    /\ Goto(s, "refund", {})
    /\ UNCHANGED <<world, seat, posted, queued, sawStake>>

\* RefundStakes, after an activation that was lost or failed.
Refund(s) ==
    /\ pc[s] = "refund"
    /\ PostKey("disburse")
    /\ Goto(s, "idle", {})
    /\ UNCHANGED <<world, faults, status, seat, queued, sawStake>>

\* Any other statement of a sweeper fails: the tick ends, to be repeated.
TickFails(s) ==
    /\ pc[s] \in {"ask", "abandon", "refund"}
    /\ Fault("database")
    /\ Goto(s, "idle", {})
    /\ UNCHANGED <<world, status, seat, posted, queued, sawStake>>

Crash(s) ==
    /\ pc[s] # "idle"
    /\ Fault("crash")
    /\ Goto(s, "idle", {})
    /\ UNCHANGED <<world, status, seat, posted, queued, sawStake>>

\* What a sweeper does when nothing goes wrong.
Progress(s) ==
    \/ Tick(s) \/ RecordAsk(s) \/ AskReturns(s)
    \/ Requeue(s) \/ RequeueDone(s) \/ Abandon(s)
    \/ Stake(s) \/ StakeRefused(s)
    \/ Activate(s) \/ ActivateLost(s) \/ Refund(s)

Next ==
    \/ \E a \in Seats : AgentReady(a) \/ WindowEnds(a)
    \/ \E s \in world.sweepers :
        \/ Progress(s)
        \/ StakeFails(s) \/ ActivateFails(s) \/ TickFails(s) \/ Crash(s)

\* Sweepers tick every second and every call they make returns; time passes.
Fairness ==
    /\ \A s \in Sweepers : WF_vars(s \in world.sweepers /\ Progress(s))
    /\ \A a \in Seats : WF_vars(WindowEnds(a))

Spec == Init /\ [][Next]_vars

FairSpec == Spec /\ Fairness

-----------------------------------------------------------------------------
(* Properties *)

TypeOK ==
    /\ world \in Deployments
    /\ faults \in 0 .. MaxFaults
    /\ status \in {"ready_check", "active", "aborted"}
    /\ seat \in [Seats -> [ready : BOOLEAN, asks : Nat, late : BOOLEAN]]
    /\ posted \subseteq {"stake", "disburse"}
    /\ queued \subseteq Seats
    /\ pc \in [Sweepers -> Steps]
    /\ todo \in [Sweepers -> SUBSET Seats]
    /\ sawStake \in [Sweepers -> BOOLEAN]

\* The escrow wallet is shared by all matches, so a refund of a stake that was
\* never taken would pay out another table's coins.  No race of sweepers and no
\* half-failed statement gets there.
NoBorrowedEscrow == "disburse" \in posted => "stake" \in posted

\* No seat's coins are taken before enough seats, and every one still at the
\* table, said they are there; a seat that said so is never unsaid; and, as long as
\* a single sweeper runs and nothing goes wrong, none of them has been put back into
\* the queue, even if an acknowledgement arrives between the decision and its end.
ConsentBeforeStake ==
    "stake" \in posted =>
        /\ Ready = Seats /\ Cardinality(Ready) >= MinReady
        /\ Cardinality(world.sweepers) = 1 /\ faults = 0 => queued = {}

\* A table that is being played has its stakes in escrow (ready.go:309).
ActiveIsFunded == status = "active" => posted = {"stake"}

\* Whoever is not playing has his coins, once the sweepers are done with it.
AbortedIsRefunded ==
    status = "aborted" /\ (\A s \in Sweepers : pc[s] = "idle")
        => posted \in {{}, {"stake", "disburse"}}

\* One sweeper, whose process may die anywhere and come back, and a database
\* that answers what it does: stakes and status agree again after every crash.
Dependable == Cardinality(world.sweepers) = 1 /\ "database" \notin world.faults

FundedThroughCrashes == Dependable => ActiveIsFunded /\ AbortedIsRefunded

\* No table waits for its seats for ever: silent seats run out of asks.
EventuallyDecided == status = "ready_check" ~> status # "ready_check"
=============================================================================
