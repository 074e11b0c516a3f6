----------------------------- MODULE RoundClock -----------------------------
(***************************************************************************)
(* The rounds of an active Goofspiel match before its last one: agents     *)
(* seal cards and talk, sweepers extend the shared deadline of agents that *)
(* still answer, or play for those that do not.  A commit is optimistic:   *)
(* it writes the state it read, changed, and is refused when another       *)
(* commit took its sequence number.  The end of the last round belongs to  *)
(* Settlement.                                                             *)
(*                                                                         *)
(* Time is counted in ticks; what happens within one tick, a probe among   *)
(* it, takes no time.  The database answers, except where an extension is  *)
(* written; its other errors are left out.                                 *)
(***************************************************************************)
EXTENDS Integers, FiniteSets, FiniteSetsExt

CONSTANTS
    Seats,          \* seat numbers of the table
    Requests,       \* requests of agents that may be served at once
    Sweepers,       \* server processes, each with a sweeper
    Window,         \* per seat: its adaptive decision window
    Ceiling, Extension, MaxExtensions,  \* deadline.Policy
    Fleets,         \* which of them run, and whether Redis is there to take locks
    MaxTime, MaxTalk, Rounds            \* bounds

ASSUME SeatsAssumption == IsFiniteSet(Seats) /\ Seats # {}
ASSUME ActorsAssumption == Requests \cap Sweepers = {} /\ "free" \notin Requests \cup Sweepers
ASSUME WindowAssumption == Window \in [Seats -> 1 .. Ceiling]
ASSUME PolicyAssumption ==
    {Ceiling, Extension, MaxExtensions, Rounds} \subseteq Nat \ {0}
ASSUME BoundsAssumption == {MaxTime, MaxTalk} \subseteq Nat
ASSUME FleetsAssumption ==
    Fleets \subseteq [procs : SUBSET (Requests \cup Sweepers), locking : BOOLEAN]

VARIABLES
    now,        \* the clock
    fleet,      \* the fleet of this behaviour; never changes
    lease,      \* the Redis lock of the match
    row,        \* its row: round, sealed seats, seq, deadline, base, opened
    log,        \* the number of rows of match_events
    talk,       \* lines of table talk so far
    refused,    \* seats whose move was refused in this round
    pc, snap, next  \* per process: next step, the row it read, what it will write

vars == <<now, fleet, lease, row, log, talk, refused, pc, snap, next>>
outside == <<now, fleet>>

Procs == Requests \cup Sweepers

-----------------------------------------------------------------------------
(* Deadlines *)

\* moveWindow: the table runs on the window of its slowest seat.
MoveWindow(S) == Max({Window[a] : a \in S})

\* tryExtend and deadline.Extend: how long after t an expired deadline may be pushed,
\* 0 for not at all.  What was granted before is derived from the time since the round
\* opened, and that from the deadline as recorded when the round was written.
\* Slip: the origin is the deadline itself, which every extension moves.
GrantFromDeadline(r, t) ==
    LET window == MoveWindow({a \in Seats : ~ r.sealed[a]})
        elapsed == t - (r.deadline - window)
        granted == IF elapsed > window THEN (elapsed - window) \div Extension ELSE 0
    IN IF granted >= MaxExtensions \/ elapsed >= Ceiling THEN 0
       ELSE Min({Extension, Ceiling - elapsed})

Grant(r, t) ==
    LET window == MoveWindow({a \in Seats : ~ r.sealed[a]})
        elapsed == t - (r.base - window)
        granted == IF elapsed > window THEN (elapsed - window) \div Extension ELSE 0
    IN IF granted >= MaxExtensions \/ elapsed >= Ceiling THEN 0
       ELSE Min({Extension, Ceiling - elapsed})

-----------------------------------------------------------------------------
(* Serving the match under its lock *)

Playing == row.round <= Rounds
Unsealed(r) == {a \in Seats : ~ r.sealed[a]}

Goto(p, step) == pc' = [pc EXCEPT ![p] = step]

First ==
    LET deadline == MoveWindow(Seats) IN
    [round |-> 1, sealed |-> [a \in Seats |-> FALSE], seq |-> 0,
     opened |-> 0, deadline |-> deadline, base |-> deadline]

Enter(p, step) ==
    /\ IF fleet.locking THEN lease = "free" /\ lease' = p ELSE UNCHANGED lease
    /\ Goto(p, step)
    /\ snap' = [snap EXCEPT ![p] = row]

\* p returns: its lock is released, and what it had in memory gone.
Leave(p) ==
    /\ Goto(p, "idle")
    /\ lease' = IF lease = p THEN "free" ELSE lease
    /\ snap' = [snap EXCEPT ![p] = First]
    /\ next' = [next EXCEPT ![p] = First]

\* The state p read, with its own change.
WillWrite(p, r) == next' = [next EXCEPT ![p] = r]

\* Another commit took the sequence number.
ConflictNever(p) == FALSE   \* Slip: no unique sequence number.

Conflict(p) == snap[p].seq # log

\* act: seal a card; a seat that has sealed gets its view back.
Act(p, a) ==
    /\ pc[p] = "idle"
    /\ Playing /\ ~ row.sealed[a]
    /\ Enter(p, "commit")
    /\ WillWrite(p, [row EXCEPT !.sealed[a] = TRUE])
    /\ UNCHANGED <<outside, row, log, talk, refused>>

\* A move the agent's model did not choose is refused, and the refusal recorded.
Refuse(p, a) ==
    /\ pc[p] = "idle"
    /\ Playing /\ ~ row.sealed[a]
    /\ fleet.locking => lease = "free"
    /\ refused' = refused \cup {a}
    /\ UNCHANGED <<outside, lease, row, log, talk, pc, snap, next>>

\* A line of table talk goes through the same commit as a move.
Say(p) ==
    /\ pc[p] = "idle"
    /\ Playing /\ talk < MaxTalk
    /\ Enter(p, "commit")
    /\ WillWrite(p, row)
    /\ talk' = talk + 1
    /\ UNCHANGED <<outside, row, log, refused>>

-----------------------------------------------------------------------------
(* Sweepers *)

\* ListActiveExpired; the listed matches are handled one after the other.
ListExpired(w) ==
    /\ pc[w] = "idle"
    /\ Playing /\ now >= row.deadline
    /\ Goto(w, "listed")
    /\ UNCHANGED <<outside, lease, row, log, talk, refused, snap, next>>

\* Slip: what was listed is handled without another look at the deadline.
HandleListed(w) ==
    /\ pc[w] = "listed"
    /\ Enter(w, "probe")
    /\ UNCHANGED <<outside, row, log, talk, refused, next>>

HandleTimeout(w) ==
    /\ pc[w] = "listed"
    /\ IF Playing /\ now >= row.deadline
       THEN Enter(w, "probe")
       ELSE Goto(w, "idle") /\ UNCHANGED <<lease, snap>>
    /\ UNCHANGED <<outside, row, log, talk, refused, next>>

\* Another process holds the lock: skip this round.
SkipLocked(w) ==
    /\ pc[w] = "listed" /\ fleet.locking /\ lease # "free"
    /\ Goto(w, "idle")
    /\ UNCHANGED <<outside, lease, row, log, talk, refused, snap, next>>

\* Every seat that has not sealed answers /health and was not refused.
StillThinking(r, alive) == \A a \in Unsealed(r) : a \in alive \ refused

\* The turn is over: the sweeper plays for every seat that has not sealed.
ForceTimeouts(w) ==
    /\ Goto(w, "commit")
    /\ WillWrite(w, [snap[w] EXCEPT !.sealed = [a \in Seats |-> TRUE]])

\* tryExtend: extend, or play.  A seat is alive that answers /health, or whose model
\* call of this turn the gateway saw throttled.
Probe(w) ==
    /\ pc[w] = "probe"
    /\ \E alive \in SUBSET Seats :
          LET grant == Grant(snap[w], now) IN
          IF grant > 0 /\ StillThinking(snap[w], alive)
          THEN /\ Goto(w, "extend")
               /\ WillWrite(w, [snap[w] EXCEPT !.deadline = now + grant])
          ELSE ForceTimeouts(w)
    /\ UNCHANGED <<outside, lease, row, log, talk, refused, snap>>

\* An extension that cannot be written is none.
ExtendFails(w) ==
    /\ pc[w] = "extend"
    /\ ForceTimeouts(w)
    /\ UNCHANGED <<outside, lease, row, log, talk, refused, snap>>

\* ExtendDeadline touches the deadline of whatever round is open, and no revision.
Extend(w) ==
    /\ pc[w] = "extend"
    /\ row' = IF Playing THEN [row EXCEPT !.deadline = next[w].deadline] ELSE row
    /\ Leave(w)
    /\ UNCHANGED <<outside, log, talk, refused>>

-----------------------------------------------------------------------------
(* commit *)

\* A round opens with the window of the slowest seat; after the last one there is none.
Opened(r) ==
    LET deadline == now + MoveWindow(Seats) IN
    [r EXCEPT !.round = @ + 1, !.seq = @ + 1, !.sealed = [a \in Seats |-> FALSE],
              !.opened = now, !.deadline = deadline, !.base = deadline]

\* Same round: Advance writes the deadline that was read, as deadline and as base.
Continued(r) == [r EXCEPT !.seq = @ + 1, !.base = r.deadline]

Commit(p) ==
    /\ pc[p] = "commit" /\ Playing /\ ~ Conflict(p)
    /\ LET r == next[p] IN
       IF Unsealed(r) = {} THEN row' = Opened(r) /\ refused' = {}
                           ELSE row' = Continued(r) /\ UNCHANGED refused
    /\ log' = log + 1
    /\ Leave(p)
    /\ UNCHANGED <<outside, talk>>

\* ErrConcurrentUpdate, or ErrNotActive: the caller reads again, or gives up.
CommitRefused(p) ==
    /\ pc[p] = "commit" /\ (Playing => Conflict(p))
    /\ Leave(p)
    /\ UNCHANGED <<outside, row, log, talk, refused>>

-----------------------------------------------------------------------------
(* The environment *)

Tick ==
    /\ now < MaxTime /\ Playing
    /\ now' = now + 1
    /\ UNCHANGED <<fleet, lease, row, log, talk, refused, pc, snap, next>>

Init ==
    /\ now = 0
    /\ fleet \in Fleets
    /\ lease = "free"
    /\ row = First
    /\ log = 0 /\ talk = 0
    /\ refused = {}
    /\ pc = [p \in Procs |-> "idle"]
    /\ snap = [p \in Procs |-> First]
    /\ next = [p \in Procs |-> First]

Sweep(w) ==
    \/ ListExpired(w) \/ HandleTimeout(w) \/ SkipLocked(w)
    \/ Probe(w) \/ Extend(w) \/ ExtendFails(w)

Next ==
    \/ \E p \in Requests \cap fleet.procs : Say(p) \/ (\E a \in Seats : Act(p, a) \/ Refuse(p, a))
    \/ \E w \in Sweepers \cap fleet.procs : Sweep(w)
    \/ \E p \in fleet.procs : Commit(p) \/ CommitRefused(p)
    \/ Tick

Spec == Init /\ [][Next]_vars

-----------------------------------------------------------------------------
(* Properties *)

Rows == [round : 1 .. Rounds + 1, sealed : [Seats -> BOOLEAN], seq : Nat,
         opened : Nat, deadline : Nat, base : Nat]

\* Types; and the row's next sequence number is the length of the event log, so that
\* a reader of the row can be told when it is late.
TypeOK ==
    /\ now \in Nat /\ fleet \in Fleets
    /\ lease \in Procs \cup {"free"}
    /\ row \in Rows /\ row.seq = log
    /\ log \in Nat /\ talk \in Nat
    /\ refused \subseteq Seats
    /\ pc \in [Procs -> {"idle", "listed", "probe", "extend", "commit"}]
    /\ snap \in [Procs -> Rows] /\ next \in [Procs -> Rows]

\* A card that was sealed is not taken back, with or without the lock: it stays until
\* its round is resolved, and a round is resolved once.
SealsStick ==
    [][\/ row'.round = row.round /\ \A a \in Seats : row.sealed[a] => row'.sealed[a]
       \/ row'.round = row.round + 1]_vars

\* Nobody forfeits a turn before the window the round opened with is over (with the
\* lock): HandleTimeout looks at the deadline again before it plays for a seat.
WindowIsHonoured ==
    [][fleet.locking /\ row'.round # row.round /\ (\E w \in Sweepers : pc[w] # pc'[w])
         => now >= row.opened + MoveWindow(Seats)]_vars

\* An extension is earned and bounded (with the lock): no seat that holds the round up
\* had its move refused, and extensions that follow one another end at the policy's
\* ceiling, counted from the deadline that was last committed.
ExtensionsEarned ==
    [][fleet.locking /\ row'.round = row.round /\ row'.deadline > row.deadline
         => /\ refused \cap Unsealed(row) = {}
            /\ row'.deadline + MoveWindow(Unsealed(row)) <= row'.base + Ceiling]_vars
=============================================================================
