----------------------------- MODULE Settlement -----------------------------
(***************************************************************************)
(* The end of a staked Goofspiel match: the finishing seal, the integrity  *)
(* verdict, the payout gate, the one disbursement of the escrow, the       *)
(* terminal write and the rating, driven by whichever request or sweeper   *)
(* gets there, again after a crash; and the administrators who resolve     *)
(* disputes about a held payout meanwhile.                                 *)
(*                                                                         *)
(* The model begins in the last round with one seat still unsealed.  The   *)
(* move window may lapse at any time, so a sweeper may come at any time.   *)
(* Postings are made as AtomicLedger says: at most once per key.           *)
(***************************************************************************)
EXTENDS Integers, FiniteSets

CONSTANTS
    Seats,      \* the two seats
    Requests,   \* requests of agents: a move, or a line of table talk
    Sweepers,   \* server processes, each with a sweeper
    Disputes,   \* disputes open about this match
    Worlds,     \* who runs, how the board ends, what may go wrong
    MaxLog      \* bound on the events after the start of the last round

Tie == "tie"
Outcomes == Seats \cup {Tie}

\* Each happens at most once.  "crash": a process serving the match dies or
\* returns an error.  "redis": locks cannot be taken any more.  "integrity":
\* the bound decisions cannot be read.  "gate": the gate's lookup fails.
\* "hold": the insert of the hold fails.  "admin": the resolving request dies.
FaultKinds == {"crash", "redis", "integrity", "gate", "hold", "admin"}

ASSUME SeatsAssumption == Seats \cap {Tie, "open", "none"} = {}
ASSUME ActorsAssumption ==
    Disputes \cap (Requests \cup Sweepers) = {} /\ "free" \notin Requests \cup Sweepers
ASSUME WorldsAssumption ==
    Worlds \subseteq [requests : SUBSET Requests, sweepers : SUBSET Sweepers,
                      disputes : SUBSET Disputes, faults : SUBSET FaultKinds,
                      played : Outcomes, forced : Outcomes, absent : SUBSET Seats,
                      flagged : BOOLEAN]
ASSUME MaxLogAssumption == MaxLog \in Nat

VARIABLES
    world, failed,  \* this behaviour's world, and what went wrong in it so far
    lease,          \* the Redis lock of the match
    match,          \* its row: status, board, seq (next event), winner; and its rating
    log,            \* the number of rows of match_events
    proven,         \* seats with a bound decision
    flagged,        \* an agent of the match has an active fraud flag
    hold,           \* the row of payout_holds
    outs,           \* the ledger's transactions out of the match's escrow
    dispute,        \* the disputes' rows
    pc, mine        \* per process: its next step, and what it holds in memory

vars == <<world, failed, lease, match, log, proven, flagged, hold, outs, dispute, pc, mine>>
money == <<hold, outs, dispute>>
facts == <<world, proven, flagged>>

Finalizers == Requests \cup Sweepers
Steps == {"idle", "advance", "verdict", "refund", "gate", "hold", "settle", "finish", "rate",
          "claim", "read", "pay"}
Nothing == [board |-> "open", seq |-> 0, adds |-> 0, void |-> FALSE]

-----------------------------------------------------------------------------
(* Helpers *)

Fault(kind) ==
    /\ kind \in world.faults \ failed
    /\ failed' = failed \cup {kind}

Goto(p, step) == pc' = [pc EXCEPT ![p] = step]

\* The handler returns; its lock is released.
Leave(p) ==
    /\ Goto(p, "idle")
    /\ lease' = IF lease = p THEN "free" ELSE lease

\* Slip: a key per kind of disbursement.
DisburseKeyPerKind(kind) == kind

DisburseKey(kind) == "disburse"

\* ledger.Post: a key that is posted already changes nothing.
Disburse(kind, to) ==
    outs' = IF \E o \in outs : o.key = DisburseKey(kind) THEN outs
            ELSE outs \cup {[key |-> DisburseKey(kind), kind |-> kind, to |-> to]}

\* rankedIntegrityFailed: somebody proved a decision, and a seat that was there
\* proved none.
IntegrityFailed == proven # {} /\ Seats \ (proven \cup world.absent) # {}

\* An event with the sequence number seq is in the log already.
Conflict(seq) == seq < log

-----------------------------------------------------------------------------
(* Reading the match: a request or a sweeper enters under the match's lock, *)
(* or without one while Redis is unreachable.                               *)

Enter(p) ==
    /\ pc[p] = "idle" /\ match.status = "active"
    /\ IF "redis" \in failed THEN UNCHANGED lease ELSE lease = "free" /\ lease' = p
    /\ Goto(p, "advance")
    /\ UNCHANGED <<facts, money, failed, match, log>>

Read(p, board, adds) ==
    mine' = [mine EXCEPT ![p] = [board |-> board, seq |-> match.seq, adds |-> adds,
                                 void |-> FALSE]]

\* The last seat seals its card.  A seat that has sealed gets its view back.
Act(p) ==
    /\ p \in world.requests /\ match.board = "open"
    /\ Enter(p)
    /\ Read(p, world.played, 1)

Say(p) ==
    /\ p \in world.requests /\ log < MaxLog
    /\ Enter(p)
    /\ Read(p, match.board, 1)

\* Slip: a sweeper has nothing to do for a board that is sealed.
HandleTimeoutUnsealedOnly(p) ==
    /\ p \in world.sweepers /\ match.board = "open"
    /\ Enter(p)
    /\ Read(p, world.forced, 1)

\* The sweeper forces a card only for a seat that has not sealed.
HandleTimeout(p) ==
    /\ p \in world.sweepers
    /\ Enter(p)
    /\ IF match.board = "open" THEN Read(p, world.forced, 1) ELSE Read(p, match.board, 0)

-----------------------------------------------------------------------------
(* commit and finalize *)

Wrote(p, board) ==
    /\ match' = [match EXCEPT !.board = board, !.seq = mine[p].seq + mine[p].adds]
    /\ mine' = [mine EXCEPT ![p].seq = @ + mine[p].adds]

\* A sealed board is finalized by whoever wrote it.
ThenFinalize(p) ==
    IF mine[p].board = "open" THEN Leave(p) ELSE Goto(p, "verdict") /\ UNCHANGED lease

\* Slip: the finishing seal becomes durable only in Finish.
AdvanceUnsealed(p) ==
    /\ pc[p] = "advance"
    /\ match.status = "active" /\ (mine[p].adds > 0 => ~ Conflict(mine[p].seq))
    /\ Wrote(p, match.board)
    /\ log' = log + mine[p].adds
    /\ ThenFinalize(p)
    /\ UNCHANGED <<facts, money, failed>>

\* Slip: the state is written without its events.
AdvanceUnlogged(p) ==
    /\ pc[p] = "advance"
    /\ match.status = "active" /\ (mine[p].adds > 0 => ~ Conflict(mine[p].seq))
    /\ Wrote(p, mine[p].board)
    /\ ThenFinalize(p)
    /\ UNCHANGED <<facts, money, failed, log>>

Advance(p) ==
    /\ pc[p] = "advance"
    /\ match.status = "active" /\ (mine[p].adds > 0 => ~ Conflict(mine[p].seq))
    /\ Wrote(p, mine[p].board)
    /\ log' = log + mine[p].adds
    /\ ThenFinalize(p)
    /\ UNCHANGED <<facts, money, failed>>

\* ErrNotActive, or ErrConcurrentUpdate: another writer was first.
AdvanceRefused(p) ==
    /\ pc[p] = "advance"
    /\ match.status # "active" \/ (mine[p].adds > 0 /\ Conflict(mine[p].seq))
    /\ Leave(p)
    /\ UNCHANGED <<facts, money, failed, match, log, mine>>

GoOn(p, step) ==
    /\ Goto(p, step)
    /\ UNCHANGED <<facts, lease, match, log, dispute>>

Verdict(p) ==
    /\ pc[p] = "verdict"
    /\ mine' = [mine EXCEPT ![p].void = IntegrityFailed]
    /\ GoOn(p, IF IntegrityFailed THEN "refund" ELSE "gate")
    /\ UNCHANGED <<failed, hold, outs>>

\* The check fails open.
VerdictUnreadable(p) ==
    /\ pc[p] = "verdict" /\ Fault("integrity")
    /\ mine' = [mine EXCEPT ![p].void = FALSE]
    /\ GoOn(p, "gate")
    /\ UNCHANGED <<hold, outs>>

Refund(p) ==
    /\ pc[p] = "refund"
    /\ Disburse("refund", Tie)
    /\ GoOn(p, "finish")
    /\ UNCHANGED <<failed, hold, mine>>

\* Slip: a match with a hold on record was looked at already.
GateOncePerMatch(p) ==
    /\ pc[p] = "gate"
    /\ GoOn(p, IF flagged /\ hold = "none" THEN "hold" ELSE "settle")
    /\ UNCHANGED <<failed, hold, outs, mine>>

\* antifraud.Service.Allow
Gate(p) ==
    /\ pc[p] = "gate"
    /\ GoOn(p, IF flagged THEN "hold" ELSE "settle")
    /\ UNCHANGED <<failed, hold, outs, mine>>

\* The gate fails closed.
GateUnreadable(p) ==
    /\ pc[p] = "gate" /\ Fault("gate")
    /\ GoOn(p, "hold")
    /\ UNCHANGED <<hold, outs, mine>>

RecordHold(p) ==
    /\ pc[p] = "hold"
    /\ hold' = IF hold = "none" THEN "held" ELSE hold
    /\ GoOn(p, "finish")
    /\ UNCHANGED <<failed, outs, mine>>

\* The error is ignored; the payout is withheld all the same.
RecordHoldFails(p) ==
    /\ pc[p] = "hold" /\ Fault("hold")
    /\ GoOn(p, "finish")
    /\ UNCHANGED <<hold, outs, mine>>

Settle(p) ==
    /\ pc[p] = "settle"
    /\ Disburse("settle", mine[p].board)
    /\ GoOn(p, "finish")
    /\ UNCHANGED <<failed, hold, mine>>

\* The terminal write, with the events of the resolution.
Finish(p) ==
    /\ pc[p] = "finish"
    /\ match.status = "active" /\ ~ Conflict(mine[p].seq)
    /\ match' = [match EXCEPT !.status = "finished", !.winner = mine[p].board,
                              !.seq = mine[p].seq + 1]
    /\ log' = log + 1
    /\ Goto(p, "rate")
    /\ UNCHANGED <<facts, money, failed, lease, mine>>

FinishRefused(p) ==
    /\ pc[p] = "finish"
    /\ match.status # "active" \/ Conflict(mine[p].seq)
    /\ Leave(p)
    /\ UNCHANGED <<facts, money, failed, match, log, mine>>

Rate(p) ==
    /\ pc[p] = "rate"
    /\ match' = [match EXCEPT !.rated = IF mine[p].void THEN "blocked" ELSE "rated"]
    /\ Leave(p)
    /\ UNCHANGED <<facts, money, failed, log, mine>>

-----------------------------------------------------------------------------
(* Administrators: antifraud.Service.ResolveDispute *)

Administers(d) == UNCHANGED <<facts, lease, match, log>>

Resolve(d, action) ==
    /\ d \in world.disputes /\ dispute[d] = "open"
    /\ dispute' = [dispute EXCEPT ![d] = action]
    /\ Goto(d, IF action = "reject" THEN "idle" ELSE "claim")
    /\ Administers(d)
    /\ UNCHANGED <<failed, hold, outs, mine>>

\* Only the claim of an open hold goes on to disburse.
ResolveHold(d) ==
    /\ pc[d] = "claim"
    /\ IF hold = "held"
       THEN /\ hold' = IF dispute[d] = "refund" THEN "refunded" ELSE "released"
            /\ Goto(d, IF dispute[d] = "refund" THEN "refund" ELSE "read")
       ELSE Goto(d, "idle") /\ UNCHANGED hold
    /\ Administers(d)
    /\ UNCHANGED <<failed, outs, dispute, mine>>

RefundHeld(d) ==
    /\ pc[d] = "refund" /\ d \in Disputes
    /\ Disburse("refund", Tie)
    /\ Goto(d, "idle")
    /\ Administers(d)
    /\ UNCHANGED <<failed, hold, dispute, mine>>

\* SettleHeld reads the winner of the match's row; none means a tie.
ReadSettlement(d) ==
    /\ pc[d] = "read"
    /\ mine' = [mine EXCEPT ![d].board = IF match.winner = "none" THEN Tie ELSE match.winner]
    /\ Goto(d, "pay")
    /\ Administers(d)
    /\ UNCHANGED <<failed, money>>

SettleHeld(d) ==
    /\ pc[d] = "pay"
    /\ Disburse("settle", mine[d].board)
    /\ Goto(d, "idle")
    /\ Administers(d)
    /\ UNCHANGED <<failed, hold, dispute, mine>>

-----------------------------------------------------------------------------
(* The environment *)

ProofArrives(s) ==
    /\ proven' = proven \cup {s}
    /\ UNCHANGED <<world, failed, lease, match, log, flagged, money, pc, mine>>

FlagRaised ==
    /\ flagged' = TRUE
    /\ UNCHANGED <<world, failed, lease, match, log, proven, money, pc, mine>>

RedisFails ==
    /\ Fault("redis")
    /\ lease' = "free"
    /\ UNCHANGED <<facts, match, log, money, pc, mine>>

\* The lock of a process that died lapses.
Crash(p) ==
    /\ pc[p] # "idle" /\ Fault("crash")
    /\ Leave(p)
    /\ UNCHANGED <<facts, money, match, log, mine>>

AdminFails(d) ==
    /\ pc[d] # "idle" /\ Fault("admin")
    /\ Goto(d, "idle")
    /\ UNCHANGED <<facts, lease, money, match, log, mine>>

-----------------------------------------------------------------------------
(* Specification *)

Init ==
    /\ world \in Worlds
    /\ failed = {}
    /\ lease = "free"
    /\ match = [status |-> "active", board |-> "open", seq |-> 0, winner |-> "none",
                rated |-> "none"]
    /\ log = 0
    /\ proven = {}
    /\ flagged = world.flagged
    /\ hold = "none"
    /\ outs = {}
    /\ dispute = [d \in Disputes |-> "open"]
    /\ pc = [p \in Finalizers \cup Disputes |-> "idle"]
    /\ mine = [p \in Finalizers \cup Disputes |-> Nothing]

Commits(p) == Advance(p) \/ AdvanceRefused(p)

Finalizes(p) ==
    \/ Verdict(p) \/ VerdictUnreadable(p) \/ Refund(p)
    \/ Gate(p) \/ GateUnreadable(p) \/ RecordHold(p) \/ RecordHoldFails(p) \/ Settle(p)
    \/ Finish(p) \/ FinishRefused(p) \/ Rate(p)

Disburses(d) == ResolveHold(d) \/ RefundHeld(d) \/ ReadSettlement(d) \/ SettleHeld(d)

Next ==
    \/ \E p \in Finalizers :
          Act(p) \/ Say(p) \/ HandleTimeout(p) \/ Commits(p) \/ Finalizes(p) \/ Crash(p)
    \/ \E d \in Disputes :
          (\E action \in {"release", "refund", "reject"} : Resolve(d, action))
          \/ Disburses(d) \/ AdminFails(d)
    \/ (\E s \in Seats : ProofArrives(s)) \/ FlagRaised \/ RedisFails

Spec == Init /\ [][Next]_vars

\* A handler that was entered goes on, and a sweeper keeps coming.
FairSpec ==
    /\ Spec
    /\ \A p \in Finalizers : WF_vars(Commits(p) \/ Finalizes(p))
    /\ \A p \in Sweepers : WF_vars(HandleTimeout(p))

-----------------------------------------------------------------------------
(* Properties *)

Over == match.status = "finished"
NoFault(kinds) == failed \cap kinds = {}

\* Types; and the state that was written never runs ahead of the event log, from
\* which the next sequence number of every reader comes.
TypeOK ==
    /\ world \in Worlds /\ failed \subseteq world.faults
    /\ lease \in Finalizers \cup {"free"}
    /\ match \in [status : {"active", "finished"}, board : Outcomes \cup {"open"},
                  seq : 0 .. log, winner : Outcomes \cup {"none"},
                  rated : {"none", "rated", "blocked"}]
    /\ log \in Nat
    /\ proven \subseteq Seats /\ flagged \in BOOLEAN
    /\ hold \in {"none", "held", "released", "refunded"}
    /\ outs \subseteq [key : {"disburse", "refund", "settle"}, kind : {"refund", "settle"},
                       to : Outcomes]
    /\ dispute \in [Disputes -> {"open", "release", "refund", "reject"}]
    /\ pc \in [Finalizers \cup Disputes -> Steps]
    /\ mine \in [Finalizers \cup Disputes -> [board : Outcomes \cup {"open"}, seq : 0 .. log,
                                              adds : 0 .. 1, void : BOOLEAN]]

\* No escrow is left unexplained by a match that is over (the ledger audit's
\* escrow_unexplained): it left, or is held, or its claimed hold is being disbursed.
Explained ==
    Over /\ NoFault({"hold", "admin"})
      => outs # {} \/ hold = "held" \/ \E d \in Disputes : pc[d] \in {"refund", "read", "pay"}

\* The escrow of a match leaves the escrow wallet once, whoever settles, voids,
\* releases or refunds, however often and in whatever order (the H2 double spend); and
\* it does leave, unless it is held or the insert of the hold or an administrator failed.
EscrowPaidOnce == Cardinality(outs) <= 1 /\ Explained

\* A match is blocked from the rating exactly when its integrity verdict refunded it:
\* the verdict is evaluated once and read twice (finalize).
RatedAsPaid ==
    NoFault({"crash", "redis"}) /\ match.rated # "none"
      => (match.rated = "blocked" <=> hold # "refunded" /\ \E o \in outs : o.kind = "refund")

\* A re-drive records the result that was paid: when a seat was paid and the match
\* is over, that seat is its winner (G4 in commit); and the match is rated by the
\* verdict it was paid by.
PaidAsRecorded ==
    /\ Over => \A o \in outs : o.to \in Seats => o.to = match.winner
    /\ RatedAsPaid

\* While a hold is open no seat is paid, however often the match is finalized again;
\* only the claim of the hold by an administrator lets a payout through.  Excepted are
\* the gate's own failure, whose hold does not bind a re-drive, and a match that is
\* finalized twice at once because locks cannot be taken.
HeldIsNotPaid ==
    [][hold = "held" /\ NoFault({"gate", "redis"}) => \A o \in outs' \ outs : o.to = Tie]_vars

\* Every match is finished in the end: sweepers re-drive what a crash left behind.
\* A crash while locks cannot be taken is excepted: a stale sweeper may then have
\* moved the state back behind the log, which every later commit runs into.
EventuallyFinished == <>(Over \/ {"crash", "redis"} \subseteq failed)
=============================================================================
