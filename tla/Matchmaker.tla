----------------------------- MODULE Matchmaker -----------------------------
(***************************************************************************)
(* The ranked queues and the matchers that empty them.  There are two,     *)
(* with one protocol: matchmaking seats pairs, groupmatch seats tables of  *)
(* several.  Every server process runs a matcher: it reads the waiting     *)
(* rows, picks greedily, and for each pick claims the rows, creates the    *)
(* table and marks the rows matched, in three statements that others can   *)
(* come between: other matchers, agents that enqueue again or cancel, the  *)
(* end of a match, and the orphan sweep.                                   *)
(*                                                                         *)
(* A rating band and the short-form rule depend on how long a row waited;  *)
(* here a row has waited long enough for both, or for neither.             *)
(***************************************************************************)
EXTENDS Integers, Sequences, FiniteSets

CONSTANTS
    Agents, Matchers, Bids,
    Owner,          \* the beneficiary behind each agent
    Near,           \* sets of two agents whose ratings are within the base band
    Markets,    \* the queues considered
    MaxTables,      \* bound on the tables created
    MaxMishaps       \* bound on what goes wrong in one behaviour

Queues == {"pair", "group"}
MishapKinds == {"crash", "database"}

ASSUME OwnerAssumption == DOMAIN Owner = Agents /\ IsFiniteSet(Agents) /\ Bids \subseteq Nat
ASSUME BoundsAssumption == MaxTables \in Nat /\ MaxMishaps \in Nat
\* A market: the queue, its matchers, the seats of a table (most and least, see
\* seatBounds), the stakes on offer, how often each agent enqueues, which of them do so
\* over an existing row or cancel, whose rows grow old, who cannot pay when seated, what
\* may go wrong.
ASSUME MarketsAssumption ==
    /\ Markets \subseteq [queue : Queues, matchers : SUBSET Matchers, target : Nat, least : Nat,
                          bids : SUBSET Bids, quota : [Agents -> Nat],
                          returning : SUBSET Agents, aging : SUBSET Agents,
                          broke : SUBSET Agents, faults : SUBSET MishapKinds]
    /\ \A w \in Markets : /\ 2 <= w.least /\ w.least <= w.target
                          /\ w.queue = "pair" => w.target = 2

VARIABLES
    market,     \* the queue of this behaviour; never changes
    mishaps,    \* how much went wrong so far
    row,        \* matchmaking_queue or group_queue, one row per agent
    older,      \* per agent with a row: those whose enqueued_at is earlier
    requests,   \* per agent: the bids of its requests so far
    tables,     \* the tables created, in order
    clearing,   \* agents whose row a finished match is about to delete
    turn,       \* per matcher: its next step
    pools,      \* per matcher: the pools of its snapshot still to serve
    pool,       \* per matcher: the pool it serves
    last, used, \* per matcher: the pick it tried last, the agents it has seated
    hold,       \* per matcher: the request of each agent it claimed
    made,       \* per matcher: the table it created for them
    doubtful    \* history: the requests <<a, n>> no statement of the code can tell apart

rowVars == <<row, older, requests, doubtful>>
passVars == <<turn, pools, pool, last, used, hold, made>>
queueVars == <<market, mishaps, rowVars, tables, clearing, passVars>>

NoRow == [status |-> "none", bid |-> 0, table |-> 0, waited |-> FALSE]
NoClaim == [a \in {} |-> 0]
NoPick == [mates |-> {}]
NoPool == [a \in {} |-> 0]

-----------------------------------------------------------------------------
(* pairPool and formGroups: what a matcher tries next in its pool.  A pool *)
(* is what was read of the rows of some agents, and which are older.       *)
(* U are the agents it has seated.                                         *)

WithinBand(p, a, b) ==
    \/ {a, b} \in Near
    \/ p[a].waited
    \/ market.queue = "pair" /\ p[b].waited

Compatible(p, a, b) == Owner[a] # Owner[b] /\ WithinBand(p, a, b)

Later(p, a, b) == b \in p[a].older

\* Slip: an anchor is tried with the first row it suits, and no other.
FirstOpponent(p, U, a) ==
    {b \in DOMAIN p \ U :
        /\ Later(p, b, a) /\ Compatible(p, a, b)
        /\ \A c \in DOMAIN p \ U : Later(p, b, c) /\ Later(p, c, a) => ~ Compatible(p, a, c)}

\* The later rows that suit an anchor.
Opponents(p, U, a) == {b \in DOMAIN p \ U : Later(p, b, a) /\ Compatible(p, a, b)}

Pairs(p, U) ==
    UNION {{[anchor |-> a, mates |-> {b}] : b \in Opponents(p, U, a)} : a \in DOMAIN p \ U}

Members(g) == {g.anchor} \cup g.mates

\* The mates of an anchor are the earliest later rows of other owners, to the full table.
Collected(p, U, g) ==
    \A b \in DOMAIN p \ U :
        LET earlier == {c \in Members(g) : Later(p, b, c)}
        IN  b \in g.mates <=> /\ Later(p, b, g.anchor) /\ WithinBand(p, g.anchor, b)
                              /\ Cardinality(earlier) < market.target
                              /\ \A c \in earlier : Owner[c] # Owner[b]

\* A full table, or a short one whose anchor has waited for it.
Forms(p, g) ==
    LET n == Cardinality(Members(g))
    IN  n = market.target \/ (n \in market.least .. market.target /\ p[g.anchor].waited)

Groups(p, U) ==
    {g \in [anchor : DOMAIN p \ U, mates : SUBSET (DOMAIN p \ U)] : Collected(p, U, g) /\ Forms(p, g)}

\* Pick g is tried after pick h: the next anchor, or its next opponent.
After(p, g, h) ==
    \/ h = NoPick
    \/ Later(p, g.anchor, h.anchor)
    \/ /\ market.queue = "pair" /\ g.anchor = h.anchor
       /\ \A b \in g.mates, c \in h.mates : Later(p, b, c)

\* What matcher m has still to try in its pool.
Picks(m) ==
    {g \in IF market.queue = "pair" THEN Pairs(pool[m], used[m]) ELSE Groups(pool[m], used[m]) :
        After(pool[m], g, last[m])}

\* ... and first.
IsNextPick(m, g) == g \in Picks(m) /\ \A h \in Picks(m) \ {g} : After(pool[m], h, g)

-----------------------------------------------------------------------------
(* Helpers *)

\* A matcher has read, or claimed, an earlier request of agent a.
Busy(a) == \E m \in Matchers :
    a \in DOMAIN hold[m] \cup DOMAIN pool[m] \cup UNION {DOMAIN p : p \in pools[m]}

Mishap(kind) == kind \in market.faults /\ mishaps < MaxMishaps /\ mishaps' = mishaps + 1
NoMishap == UNCHANGED mishaps

\* Slip: rows of any status do.
SetAny(S, s, t) ==
    row' = [a \in Agents |-> IF a \in S THEN [row[a] EXCEPT !.status = s, !.table = t] ELSE row[a]]

\* The rows of the agents in S that are still claimed get status s, of table t.
SetClaimed(S, s, t) ==
    row' = [a \in Agents |->
        IF a \in S /\ row[a].status = "claimed"
        THEN [row[a] EXCEPT !.status = s, !.table = t] ELSE row[a]]

Delete(S) ==
    /\ row' = [a \in Agents |-> IF a \in S THEN NoRow ELSE row[a]]
    /\ older' = [a \in Agents |-> IF a \in S THEN {} ELSE older[a] \ S]

Queued == {a \in Agents : row[a].status # "none"}

Enter(m, next) == turn' = [turn EXCEPT ![m] = next]

Orphans == {a \in Agents : row[a].status = "matched" /\ tables[row[a].table].status # "open"}

-----------------------------------------------------------------------------
(* Agents *)

QueueInit ==
    /\ market \in Markets
    /\ mishaps = 0
    /\ row = [a \in Agents |-> NoRow]
    /\ older = [a \in Agents |-> {}]
    /\ requests = [a \in Agents |-> <<>>]
    /\ doubtful = {}
    /\ tables = <<>>
    /\ clearing = {}
    /\ turn = [m \in Matchers |-> "idle"]
    /\ pools = [m \in Matchers |-> {}]
    /\ pool = [m \in Matchers |-> NoPool]
    /\ last = [m \in Matchers |-> NoPick]
    /\ used = [m \in Matchers |-> {}]
    /\ hold = [m \in Matchers |-> NoClaim]
    /\ made = [m \in Matchers |-> 0]

\* Service.Enqueue, called by the agent, by autoplay, or by the ready check that
\* gives a seat its place back: whatever the row was, it is a waiting row now.
Enqueue(a, b) ==
    /\ b \in market.bids /\ Len(requests[a]) < market.quota[a]
    /\ row[a].status = "none" \/ a \in market.returning
    /\ row' = [row EXCEPT ![a] = [NoRow EXCEPT !.status = "waiting", !.bid = b]]
    /\ older' = [x \in Agents |-> IF x = a THEN Queued \ {a} ELSE older[x] \ {a}]
    /\ requests' = [requests EXCEPT ![a] = Append(@, b)]
    /\ doubtful' = IF Busy(a) THEN doubtful \cup {<<a, Len(requests[a]) + 1>>} ELSE doubtful
    /\ UNCHANGED <<market, mishaps, tables, clearing, passVars>>

\* Service.Cancel: the row goes, claimed or not.
Cancel(a) ==
    /\ a \in market.returning /\ row[a].status # "none"
    /\ Delete({a})
    /\ UNCHANGED <<market, mishaps, requests, doubtful, tables, clearing, passVars>>

\* A row has waited for the widest band, and for the short form.
Wait(a) ==
    /\ a \in market.aging /\ row[a].status = "waiting" /\ ~ row[a].waited
    /\ row' = [row EXCEPT ![a].waited = TRUE]
    /\ UNCHANGED <<market, mishaps, older, requests, doubtful, tables, clearing, passVars>>

-----------------------------------------------------------------------------
(* A matcher's pass *)

\* Slip: one pool for all.
OfAnyBid(S, b) == S

OfBid(S, b) == {a \in S : row[a].bid = b}

\* What a pass reads of the rows of S, with their order.
PoolOf(S) == [a \in S |-> [bid |-> row[a].bid, waited |-> row[a].waited,
                           older |-> older[a] \cap S]]

\* tick: the waiting rows, oldest first, in one pool per bid.
Snapshot(m) ==
    LET waiting == {a \in Agents : row[a].status = "waiting"}
        bids == {row[a].bid : a \in waiting}
    IN  /\ m \in market.matchers /\ turn[m] = "idle"
        /\ \E b \in bids :
            /\ pool' = [pool EXCEPT ![m] = PoolOf(OfBid(waiting, b))]
            /\ pools' = [pools EXCEPT ![m] = {PoolOf(OfBid(waiting, c)) : c \in bids \ {b}}]
        /\ Enter(m, "choose")
        /\ UNCHANGED <<market, mishaps, rowVars, tables, clearing, last, used, hold, made>>

\* Nothing is left to try: the next pool (they are a map: any order), or the end.
NextPool(m) ==
    /\ turn[m] = "choose" /\ Picks(m) = {}
    /\ last' = [last EXCEPT ![m] = NoPick]
    /\ used' = [used EXCEPT ![m] = {}]
    /\ \/ /\ pools[m] = {}
          /\ Enter(m, "idle")
          /\ pool' = [pool EXCEPT ![m] = NoPool]
          /\ UNCHANGED pools
       \/ \E p \in pools[m] :
          /\ pool' = [pool EXCEPT ![m] = p]
          /\ pools' = [pools EXCEPT ![m] = @ \ {p}]
          /\ UNCHANGED turn
    /\ UNCHANGED <<market, mishaps, rowVars, tables, clearing, hold, made>>

\* Slip: the rows are claimed as the snapshot showed them.
ClaimableUnlocked(S) == \A a \in S : row[a].status # "none"

Claimable(S) == \A a \in S : row[a].status = "waiting"

ClaimRows(S) ==
    row' = [a \in Agents |-> IF a \in S THEN [row[a] EXCEPT !.status = "claimed"] ELSE row[a]]

\* ClaimPair, ClaimGroup: all rows still waiting, or none is claimed.
Claim(m, g) ==
    /\ turn[m] = "choose" /\ IsNextPick(m, g) /\ NoMishap
    /\ last' = [last EXCEPT ![m] = g]
    /\ IF Claimable(Members(g))
       THEN /\ Enter(m, "create")
            /\ ClaimRows(Members(g))
            /\ hold' = [hold EXCEPT ![m] = [a \in Members(g) |-> Len(requests[a])]]
       ELSE UNCHANGED <<turn, row, hold>>
    /\ UNCHANGED <<market, older, requests, doubtful, tables, clearing, pools, pool, used, made>>

\* The claim returns an error, and may have been committed: the pass goes on.
ClaimFails(m, g) ==
    /\ turn[m] = "choose" /\ IsNextPick(m, g) /\ Mishap("database")
    /\ last' = [last EXCEPT ![m] = g]
    /\ IF Claimable(Members(g)) THEN ClaimRows(Members(g)) ELSE UNCHANGED row
    /\ UNCHANGED <<market, older, requests, doubtful, tables, clearing, turn, pools, pool, used, hold, made>>

\* The stake is the pool's, and it is not looked up again.
Table(m) == [status |-> "open", seats |-> hold[m], bid |-> pool[m][last[m].anchor].bid]

\* CreatePaired, CreateStartedTable: every seat must pass the join checks.
Create(m) ==
    /\ turn[m] = "create" /\ NoMishap
    /\ IF DOMAIN hold[m] \cap market.broke = {}
       THEN /\ Len(tables) < MaxTables
            /\ tables' = Append(tables, Table(m))
            /\ made' = [made EXCEPT ![m] = Len(tables) + 1]
            /\ Enter(m, "mark")
       ELSE Enter(m, "release") /\ UNCHANGED <<tables, made>>
    /\ UNCHANGED <<market, rowVars, clearing, pools, pool, last, used, hold>>

\* The creation returns an error although the table was committed.
CreateFails(m) ==
    /\ turn[m] = "create" /\ Mishap("database")
    /\ DOMAIN hold[m] \cap market.broke = {} /\ Len(tables) < MaxTables
    /\ tables' = Append(tables, Table(m))
    /\ doubtful' = doubtful \cup {<<a, hold[m][a]>> : a \in DOMAIN hold[m]}
    /\ Enter(m, "release")
    /\ UNCHANGED <<market, row, older, requests, clearing, pools, pool, last, used, hold, made>>

ReleaseRows(S) == SetClaimed(S, "waiting", 0)

\* ReleasePair, ReleaseGroup, which do not ask who claimed the rows; an error is logged.
Release(m) ==
    /\ turn[m] = "release"
    /\ \/ NoMishap /\ ReleaseRows(DOMAIN hold[m])
       \/ Mishap("database") /\ UNCHANGED row
    /\ hold' = [hold EXCEPT ![m] = NoClaim]
    /\ Enter(m, "choose")
    /\ UNCHANGED <<market, older, requests, doubtful, tables, clearing, pools, pool, last, used, made>>

\* MarkMatched, MarkMatchedGroup; an error is logged and the rows stay claimed.
Mark(m) ==
    /\ turn[m] = "mark"
    /\ \/ NoMishap /\ SetClaimed(DOMAIN hold[m], "matched", made[m])
       \/ Mishap("database") /\ UNCHANGED row
    /\ used' = [used EXCEPT ![m] = @ \cup Members(last[m])]
    /\ hold' = [hold EXCEPT ![m] = NoClaim]
    /\ made' = [made EXCEPT ![m] = 0]
    /\ Enter(m, "choose")
    /\ UNCHANGED <<market, older, requests, doubtful, tables, clearing, pools, pool, last>>

\* The process dies; its claims stay.
MatcherDies(m) ==
    /\ turn[m] # "idle" /\ Mishap("crash")
    /\ Enter(m, "idle")
    /\ pools' = [pools EXCEPT ![m] = {}]
    /\ pool' = [pool EXCEPT ![m] = NoPool]
    /\ last' = [last EXCEPT ![m] = NoPick]
    /\ used' = [used EXCEPT ![m] = {}]
    /\ hold' = [hold EXCEPT ![m] = NoClaim]
    /\ made' = [made EXCEPT ![m] = 0]
    /\ UNCHANGED <<market, rowVars, tables, clearing>>

-----------------------------------------------------------------------------
(* The end of a table, and the rows that point at it *)

\* A duel's finalize goes on to clear the rows of its seats; no other end does.
End(t, how) ==
    /\ tables[t].status = "open"
    /\ tables' = [tables EXCEPT ![t].status = how]
    /\ clearing' = IF market.queue = "pair" /\ how = "finished"
                   THEN clearing \cup DOMAIN tables[t].seats ELSE clearing
    /\ UNCHANGED <<market, mishaps, rowVars, passVars>>

\* ... even if Finish has returned an error: the clearing is deferred.
FinishFails(t) ==
    /\ market.queue = "pair" /\ tables[t].status = "open" /\ Mishap("database")
    /\ tables' = tables \/ tables' = [tables EXCEPT ![t].status = "finished"]
    /\ clearing' = clearing \cup DOMAIN tables[t].seats
    /\ UNCHANGED <<market, rowVars, passVars>>

\* ClearQueue deletes the row, whichever request it is of.
Clear(a) ==
    /\ a \in clearing
    /\ clearing' = clearing \ {a}
    /\ \/ NoMishap /\ Delete({a})
       \/ (Mishap("crash") \/ Mishap("database")) /\ UNCHANGED <<row, older>>
    /\ UNCHANGED <<market, requests, doubtful, tables, passVars>>

\* SweepOrphanedEntries, on the queue of pairs only.
Sweep ==
    /\ market.queue = "pair" /\ Orphans # {}
    /\ Delete(Orphans)
    /\ UNCHANGED <<market, mishaps, requests, doubtful, tables, clearing, passVars>>

Step(m) ==
    \/ Snapshot(m) \/ NextPool(m) \/ Create(m) \/ Release(m) \/ Mark(m)
    \/ \E g \in Picks(m) : Claim(m, g)

QueueNext ==
    \/ \E a \in Agents, b \in Bids : Enqueue(a, b)
    \/ \E a \in Agents : Cancel(a) \/ Wait(a) \/ Clear(a)
    \/ \E m \in Matchers : Step(m) \/ CreateFails(m) \/ MatcherDies(m) \/ \E g \in Picks(m) : ClaimFails(m, g)
    \/ \E t \in DOMAIN tables : FinishFails(t) \/ \E how \in {"finished", "aborted"} : End(t, how)
    \/ Sweep

QueueSpec == QueueInit /\ [][QueueNext]_queueVars

\* Tickers keep ticking, time passes.  Agents and matches do as they like.
QueueFairness ==
    /\ \A m \in Matchers : WF_queueVars(Step(m))
    /\ WF_queueVars(\E a \in Agents : Wait(a))
    /\ WF_queueVars(Sweep)

FairQueueSpec == QueueSpec /\ QueueFairness

-----------------------------------------------------------------------------
(* Properties *)

Statuses == {"none", "waiting", "claimed", "matched"}

\* The variables have their types; a row is matched exactly when it names a
\* table, and the rows are in one order.
QueueTypeOK ==
    /\ market \in Markets /\ mishaps \in 0 .. MaxMishaps
    /\ row \in [Agents -> [status : Statuses, bid : Bids \cup {0}, table : 0 .. Len(tables),
                          waited : BOOLEAN]]
    /\ \A a \in Agents : row[a].status = "matched" <=> row[a].table # 0
    /\ older \in [Agents -> SUBSET Queued] /\ \A a \in Agents \ Queued : older[a] = {}
    /\ \A a, b \in Queued : a = b <=> a \notin older[b] /\ b \notin older[a]
    /\ \A a, b \in Queued : a \in older[b] => older[a] \cup {a} \subseteq older[b]
    /\ requests \in [Agents -> Seq(Bids)]
    /\ clearing \subseteq Agents
    /\ \A m \in Matchers : turn[m] \in {"create", "mark", "release"} <=> hold[m] # NoClaim
    /\ \A m \in Matchers : made[m] # 0 <=> turn[m] = "mark"

ServedBy(a, n) == {t \in DOMAIN tables : <<a, n>> \in {<<b, tables[t].seats[b]>> : b \in DOMAIN tables[t].seats}}

\* A request for an opponent is served by one table at most, however many
\* matchers read it, and crash: matcher.go's promise that two instances can
\* never both escrow.  A request made while a matcher was busy with an earlier
\* one of the agent is excepted, and one whose creation failed after its commit.
OneTablePerRequest ==
    \A a \in Agents : \A n \in DOMAIN requests[a] :
        <<a, n>> \in doubtful \/ Cardinality(ServedBy(a, n)) <= 1

\* A table seats agents of distinct owners, no fewer than the game needs, each at
\* the stake it asked for in the request the table serves; and a row matched for
\* the agent's current request names the table that serves it.
ServedAsAsked ==
    /\ \A t \in DOMAIN tables : LET s == tables[t].seats IN
        /\ Cardinality(DOMAIN s) \in market.least .. market.target
        /\ \A a, b \in DOMAIN s : a # b => Owner[a] # Owner[b]
        /\ \A a \in DOMAIN s : <<a, s[a]>> \in doubtful \/ requests[a][s[a]] = tables[t].bid
    /\ \A a \in Agents : LET n == Len(requests[a]) IN
        row[a].status = "matched" /\ <<a, n>> \notin doubtful => row[a].table \in ServedBy(a, n)

Stuck(a, b) ==
    /\ Owner[a] # Owner[b] /\ row[a].bid = row[b].bid
    /\ {row[a].status, row[b].status} \subseteq {"waiting", "claimed"}
    /\ {a, b} \cap market.broke = {}

\* One matcher, or none that ever fails to seat what it claimed.  Two matchers that
\* tick in lock step can hold, in turn, an agent that cannot pay and one that can.
Undisturbed ==
    /\ market.queue = "pair" /\ market.faults = {}
    /\ Cardinality(market.matchers) = 1 \/ market.broke = {}

\* Two agents who could play each other do not both stay unseated for ever: pairPool
\* tries every later candidate, so an agent whose joins keep failing holds up nobody.
\* And a row that points at a finished or aborted match does not stay, whether the
\* match ended before or after it was marked: QueueClearer and SweepOrphanedEntries.
NobodyStarves ==
    /\ Undisturbed => []<>(\A a, b \in Agents : ~ Stuck(a, b))
    /\ market.queue = "pair" => []<>(Orphans = {})
=============================================================================
