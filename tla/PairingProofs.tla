---------------------------- MODULE PairingProofs ----------------------------
(***************************************************************************)
(* From the queue to a table that starts.  What modules Matchmaker and     *)
(* ReadyCheck check on small instances holds of any number of agents,      *)
(* owners, stakes, seats, matchers and sweepers, that may fail any number  *)
(* of times.  The two modules share no name, so that one can extend both.  *)
(***************************************************************************)
EXTENDS Matchmaker, ReadyCheck, FiniteSetTheorems, TLAPS

-----------------------------------------------------------------------------
(* The queues: types, and what is invariant *)

RowType(n) == [status : Statuses, bid : Bids \cup {0}, table : 0 .. n, waited : BOOLEAN]
Claims == UNION {[S -> Nat] : S \in SUBSET Agents}
TableRow == [status : {"open", "finished", "aborted"}, seats : Claims, bid : Bids]
Pools == UNION {[S -> [bid : Bids, waited : BOOLEAN, older : SUBSET Agents]] : S \in SUBSET Agents}
Turns == {"idle", "choose", "create", "mark", "release"}

\* Matcher m has claimed rows, and is not done with them.
Holds(m) == turn[m] \in {"create", "mark", "release"}

\* The order of the rows.
InOrder ==
    /\ older \in [Agents -> SUBSET Queued] /\ \A a \in Agents \ Queued : older[a] = {}
    /\ \A a, b \in Queued : a = b <=> a \notin older[b] /\ b \notin older[a]
    /\ \A a, b \in Queued : a \in older[b] => older[a] \cup {a} \subseteq older[b]

\* The tables of the database, and what a matcher has in memory.
RowsTyped ==
    /\ row \in [Agents -> RowType(Len(tables))]
    /\ \A a \in Agents : row[a].status = "matched" <=> row[a].table # 0
    /\ tables \in Seq(TableRow)
    /\ requests \in [Agents -> Seq(Bids)]
    /\ clearing \subseteq Agents
PassTyped ==
    /\ turn \in [Matchers -> Turns]
    /\ pools \in [Matchers -> SUBSET Pools] /\ pool \in [Matchers -> Pools]
    /\ last \in [Matchers -> {NoPick} \cup [anchor : Agents, mates : SUBSET Agents]]
    /\ used \in [Matchers -> SUBSET Agents]
    /\ hold \in [Matchers -> Claims]
    /\ made \in [Matchers -> 0 .. Len(tables)]
    /\ \A m \in Matchers : Holds(m) <=> hold[m] # NoClaim
    /\ \A m \in Matchers : Holds(m) => last[m] # NoPick /\ last[m].anchor \in DOMAIN pool[m]
    /\ \A m \in Matchers : made[m] # 0 <=> turn[m] = "mark"
QueueTyped ==
    market \in Markets /\ mishaps \in 0 .. MaxMishaps /\ RowsTyped /\ InOrder /\ PassTyped

Newest(a) == Len(requests[a])
\* The history can tell which table serves request n of agent a.
Sure(a, n) == <<a, n>> \notin doubtful

\* A pool is of one stake and in one order, and up to date, unless the agent asked again.
PoolRead(p) ==
    /\ \A a, b \in DOMAIN p : p[a].bid = p[b].bid /\ (a = b \/ Later(p, a, b) \/ Later(p, b, a))
    /\ \A a \in DOMAIN p : Newest(a) > 0 /\ (Sure(a, Newest(a)) => p[a].bid = requests[a][Newest(a)])

\* A row is of the agent's newest request.
RowsAsAsked == \A a \in Queued : Newest(a) > 0 /\ row[a].bid = requests[a][Newest(a)]

PoolsAsRead == \A m \in Matchers : PoolRead(pool[m]) /\ \A p \in pools[m] : PoolRead(p)

\* A claim is of a request whose successors are all doubtful; what was claimed
\* together can make a table, and does in the step "mark".
ClaimAsRead(m) ==
    /\ \A a \in DOMAIN hold[m] :
        /\ hold[m][a] \in DOMAIN requests[a]
        /\ \A n \in DOMAIN requests[a] : n > hold[m][a] => ~ Sure(a, n)
    /\ Holds(m) =>
        /\ Cardinality(DOMAIN hold[m]) \in market.least .. market.target
        /\ \A a, b \in DOMAIN hold[m] : a # b => Owner[a] # Owner[b]
        /\ \A a \in DOMAIN hold[m] :
            Sure(a, hold[m][a]) => requests[a][hold[m][a]] = pool[m][last[m].anchor].bid
    /\ turn[m] = "mark" => made[m] \in DOMAIN tables /\ tables[made[m]].seats = hold[m]
ClaimsAsRead == \A m \in Matchers : ClaimAsRead(m)

\* No two matchers hold a request, and none that has a table.
OneHolder ==
    /\ \A m, k \in Matchers : \A a \in DOMAIN hold[m] \cap DOMAIN hold[k] :
        m = k \/ hold[m][a] # hold[k][a] \/ ~ Sure(a, hold[m][a])
    /\ \A m \in Matchers : \A a \in DOMAIN hold[m] :
        Sure(a, hold[m][a]) /\ turn[m] # "mark" => ServedBy(a, hold[m][a]) = {}

\* A waiting row is free: nobody holds its request, and no table serves it.
WaitingFree == \A a \in Agents : row[a].status = "waiting" /\ Sure(a, Newest(a)) =>
    /\ ServedBy(a, Newest(a)) = {}
    /\ \A m \in Matchers : a \notin DOMAIN hold[m]

\* Tables serve requests, and no two the same.
TablesApart ==
    /\ \A t \in DOMAIN tables : \A a \in DOMAIN tables[t].seats :
        tables[t].seats[a] \in DOMAIN requests[a]
    /\ \A t, u \in DOMAIN tables : \A a \in DOMAIN tables[t].seats \cap DOMAIN tables[u].seats :
        t = u \/ tables[t].seats[a] # tables[u].seats[a] \/ ~ Sure(a, tables[t].seats[a])

TablesAsAsked == \A t \in DOMAIN tables :
    /\ Cardinality(DOMAIN tables[t].seats) \in market.least .. market.target
    /\ \A a, b \in DOMAIN tables[t].seats : a # b => Owner[a] # Owner[b]
    /\ \A a \in DOMAIN tables[t].seats :
        Sure(a, tables[t].seats[a]) => requests[a][tables[t].seats[a]] = tables[t].bid

\* A matched row names the table of the agent's newest request.
MatchedServed == \A a \in Agents :
    row[a].status = "matched" /\ Sure(a, Newest(a)) => row[a].table \in ServedBy(a, Newest(a))

ClaimsSafe == ClaimsAsRead /\ OneHolder /\ TablesApart /\ TablesAsAsked
RowsSafe == RowsAsAsked /\ WaitingFree /\ MatchedServed

\* The inductive invariant.
QueueSafe == QueueTyped /\ PoolsAsRead /\ ClaimsSafe /\ RowsSafe

\* What market a behaviour is in.
LEMMA MarketIs ==
    ASSUME market \in Markets
    PROVE  /\ market.least \in Nat /\ market.target \in Nat /\ 2 <= market.least
           /\ market.least <= market.target
           /\ market.queue = "pair" => market.target = 2
           /\ market.bids \subseteq Bids /\ market.matchers \subseteq Matchers
           /\ market.queue \in Queues
  BY MarketsAssumption

\* What Append adds to the bids of an agent, or to the tables.
LEMMA Appended ==
    ASSUME NEW T, NEW s \in Seq(T), NEW x \in T
    PROVE  /\ Append(s, x) \in Seq(T) /\ Len(Append(s, x)) = Len(s) + 1 /\ Len(s) \in Nat
           /\ DOMAIN Append(s, x) = 1 .. Len(s) + 1 /\ DOMAIN s = 1 .. Len(s)
           /\ \A i \in 1 .. Len(s) : Append(s, x)[i] = s[i] /\ s[i] \in T
           /\ Append(s, x)[Len(s) + 1] = x
  OBVIOUS

\* A pick is of the pool, of owners who differ, and as large as a table.
LEMMA PickIs ==
    ASSUME QueueTyped, NEW m \in Matchers, PoolRead(pool[m]), NEW g \in Picks(m)
    PROVE  /\ g \in [anchor : Agents, mates : SUBSET Agents] /\ g # NoPick
           /\ g.anchor \in Members(g) /\ Members(g) \subseteq DOMAIN pool[m]
           /\ DOMAIN pool[m] \subseteq Agents
           /\ Cardinality(Members(g)) \in market.least .. market.target
           /\ \A a, b \in Members(g) : a # b => Owner[a] # Owner[b]
<1> DEFINE p == pool[m]
<1> market.least \in Nat /\ market.target \in Nat /\ 2 <= market.least
  BY MarketIs DEF QueueTyped
<1>1. DOMAIN p \subseteq Agents
  BY DEF QueueTyped, PassTyped, Pools
<1>2. CASE market.queue = "pair"
  <2>1. g \in Pairs(p, used[m])
    BY <1>2 DEF Picks
  <2>2. PICK a \in DOMAIN p \ used[m] :
            g \in {[anchor |-> a, mates |-> {c}] : c \in Opponents(p, used[m], a)}
    BY <2>1, Zenon DEF Pairs
  <2>3. PICK b \in Opponents(p, used[m], a) : g = [anchor |-> a, mates |-> {b}]
    BY <2>2
  <2>4. b \in DOMAIN p /\ Owner[a] # Owner[b]
    BY DEF Opponents, Compatible
  <2>5. Members(g) = {a, b} /\ a # b
    BY <2>3, <2>4 DEF Members
  <2>6. Cardinality({a, b}) = 2
    <3>1. Cardinality({a}) = 1 /\ IsFiniteSet({a})
      BY FS_Singleton
    <3>2. Cardinality({a} \cup {b}) = Cardinality({a}) + 1
      BY <2>5, <3>1, FS_AddElement
    <3>3. {a, b} = {a} \cup {b}
      OBVIOUS
    <3> QED BY <3>1, <3>2, <3>3
  <2>7. g # NoPick
    BY <2>3 DEF NoPick
  <2>8. g \in [anchor : Agents, mates : SUBSET Agents] /\ g.anchor = a
    BY <1>1, <2>3, <2>4
  <2>9. Cardinality(Members(g)) \in market.least .. market.target
    BY <1>2, <2>5, <2>6, MarketIs DEF QueueTyped
  <2> QED BY <1>1, <2>4, <2>5, <2>7, <2>8, <2>9
<1>3. CASE market.queue # "pair"
  <2>1. g \in [anchor : DOMAIN p \ used[m], mates : SUBSET (DOMAIN p \ used[m])]
        /\ Collected(p, used[m], g) /\ Forms(p, g)
    BY <1>3 DEF Picks, Groups
  <2>2. Cardinality(Members(g)) \in market.least .. market.target
    BY <2>1, MarketIs DEF Forms, QueueTyped
  <2>3. Members(g) \subseteq DOMAIN p \ used[m]
    BY <2>1 DEF Members
  <2>4. ASSUME NEW a \in Members(g), NEW b \in g.mates, Later(p, b, a)
        PROVE  Owner[a] # Owner[b]
    BY <2>1, <2>4 DEF Collected
  <2>5. ASSUME NEW b \in g.mates PROVE Later(p, b, g.anchor)
    BY <2>1, <2>5 DEF Collected
  <2>6. \A a, b \in Members(g) : a # b => Owner[a] # Owner[b]
    <3>1. ASSUME NEW a \in g.mates, NEW b \in g.mates, a # b PROVE Owner[a] # Owner[b]
      <4>1. Later(p, a, b) \/ Later(p, b, a)
        BY <2>3, <3>1 DEF PoolRead, Members
      <4> QED BY <2>4, <4>1 DEF Members
    <3>2. ASSUME NEW b \in g.mates PROVE Owner[g.anchor] # Owner[b]
      BY <2>4, <2>5 DEF Members
    <3> QED BY <3>1, <3>2 DEF Members
  <2>7. g # NoPick
    <3> SUFFICES ASSUME g = NoPick PROVE FALSE
      OBVIOUS
    <3>1. g.mates = {}
      BY DEF NoPick
    <3>2. Members(g) = {g.anchor}
      BY <3>1 DEF Members
    <3>3. Cardinality({g.anchor}) = 1
      BY FS_Singleton
    <3> QED BY <2>2, <3>2, <3>3
  <2> QED BY <1>1, <2>1, <2>2, <2>3, <2>6, <2>7 DEF Members
<1> QED BY <1>2, <1>3

\* A step that deletes no row and adds none keeps the order.
LEMMA OrderKept ==
    ASSUME InOrder, UNCHANGED older,
           \A a \in Agents : row'[a].status = "none" <=> row[a].status = "none"
    PROVE  InOrder'
<1>1. Queued' = Queued
  BY DEF Queued
<1> QED BY <1>1 DEF InOrder

\* Delete keeps it, and makes no row of what was none.
LEMMA Deleted ==
    ASSUME RowsTyped, InOrder, NEW S \in SUBSET Agents, Delete(S), UNCHANGED <<tables, requests>>,
           clearing' \subseteq Agents
    PROVE  RowsTyped' /\ InOrder'
<1>1. Queued' = Queued \ S
  BY DEF Queued, Delete, NoRow
<1>2. \A a \in Agents : older'[a] = IF a \in S THEN {} ELSE older[a] \ S
  BY DEF Delete
<1>3. older' \in [Agents -> SUBSET Queued']
  BY <1>1 DEF Delete, InOrder
<1>4. \A a \in Agents \ Queued' : older'[a] = {}
  BY <1>1, <1>2 DEF InOrder
<1>5. ASSUME NEW a \in Queued', NEW b \in Queued'
     PROVE  a = b <=> a \notin older'[b] /\ b \notin older'[a]
  <2>1. a \in Agents /\ b \in Agents /\ a \in Queued \ S /\ b \in Queued \ S
    BY <1>1 DEF Queued
  <2>2. older'[a] = older[a] \ S /\ older'[b] = older[b] \ S
    BY <1>2, <2>1
  <2> QED BY <2>1, <2>2 DEF InOrder
<1>6. ASSUME NEW a \in Queued', NEW b \in Queued', a \in older'[b]
     PROVE  older'[a] \cup {a} \subseteq older'[b]
  <2>1. a \in Agents /\ b \in Agents /\ a \in Queued \ S /\ b \in Queued \ S
    BY <1>1 DEF Queued
  <2>2. older'[a] = older[a] \ S /\ older'[b] = older[b] \ S
    BY <1>2, <2>1
  <2> QED BY <2>1, <2>2, <1>6 DEF InOrder
<1>7. InOrder'
  BY <1>3, <1>4, <1>5, <1>6 DEF InOrder
<1>8. NoRow \in RowType(Len(tables)) /\ NoRow.status # "matched" /\ NoRow.table = 0
  <2>1. Len(tables) \in Nat
    BY DEF RowsTyped
  <2> QED BY <2>1 DEF NoRow, RowType, Statuses
<1>9. row' \in [Agents -> RowType(Len(tables))]
  BY <1>8 DEF Delete, RowsTyped
<1>10. \A a \in Agents : row'[a].status = "matched" <=> row'[a].table # 0
  BY <1>8 DEF Delete, RowsTyped
<1> QED BY <1>7, <1>9, <1>10 DEF RowsTyped

\* Nothing the types of the rows speak of changes.
LEMMA RowsSame ==
    ASSUME RowsTyped, InOrder, UNCHANGED <<row, older, tables, requests, clearing>>
    PROVE  RowsTyped' /\ InOrder'
<1>1. RowsTyped'
  BY DEF RowsTyped
<1>2. InOrder'
  BY OrderKept
<1> QED BY <1>1, <1>2

\* ... nor those of the matchers.
LEMMA PassSame == ASSUME PassTyped, UNCHANGED <<passVars, tables>> PROVE PassTyped'
  BY DEF PassTyped, passVars, Holds

-----------------------------------------------------------------------------
(* The agents' steps keep the types *)

LEMMA EnqueueTyped ==
    ASSUME QueueTyped, NEW a \in Agents, NEW b \in Bids, Enqueue(a, b)
    PROVE  QueueTyped'
<1> USE DEF QueueTyped
<1> DEFINE r == [NoRow EXCEPT !.status = "waiting", !.bid = b]
<1>1. Len(tables) \in Nat
  BY DEF RowsTyped
<1>2. NoRow \in RowType(Len(tables)) /\ NoRow.table = 0
  BY <1>1 DEF NoRow, RowType, Statuses
<1>3. r \in RowType(Len(tables)) /\ r.status = "waiting" /\ r.table = 0
  BY <1>2 DEF RowType, Statuses
<1>4. row' = [row EXCEPT ![a] = r] /\ UNCHANGED <<market, mishaps, tables, clearing>>
  BY DEF Enqueue
<1> HIDE DEF r
<1>5. Append(requests[a], b) \in Seq(Bids)
  BY Appended DEF RowsTyped
<1>6. requests' \in [Agents -> Seq(Bids)]
  BY <1>5 DEF Enqueue, RowsTyped
<1>7. RowsTyped'
  <2>1. row' \in [Agents -> RowType(Len(tables))]
    BY <1>3, <1>4 DEF RowsTyped
  <2>2. \A x \in Agents : row'[x].status = "matched" <=> row'[x].table # 0
    BY <1>3, <1>4 DEF RowsTyped
  <2> QED BY <1>4, <1>6, <2>1, <2>2 DEF RowsTyped
<1>8. InOrder'
  <2>1. Queued' = Queued \cup {a}
    BY <1>3, <1>4 DEF Queued, RowsTyped
  <2>2. \A x \in Agents : older'[x] = IF x = a THEN Queued \ {a} ELSE older[x] \ {a}
    BY DEF Enqueue
  <2>3. older' \in [Agents -> SUBSET Queued']
    BY <2>1 DEF InOrder, Enqueue
  <2>4. \A x \in Agents \ Queued' : older'[x] = {}
    BY <2>1, <2>2 DEF InOrder
  <2>5. ASSUME NEW x \in Queued', NEW y \in Queued'
       PROVE  x = y <=> x \notin older'[y] /\ y \notin older'[x]
    <3>1. x \in Agents /\ y \in Agents /\ x \in Queued \cup {a} /\ y \in Queued \cup {a}
      BY <2>1 DEF Queued
    <3>2. \A z \in Queued : older[z] \subseteq Queued
      BY DEF InOrder, Queued
    <3>3. CASE x = a \/ y = a
      BY <3>1, <3>3, <2>2
    <3>4. CASE x # a /\ y # a
      <4>1. x = y <=> x \notin older[y] /\ y \notin older[x]
        BY <3>1, <3>4 DEF InOrder
      <4> QED BY <3>1, <3>4, <4>1, <2>2
    <3> QED BY <3>3, <3>4
  <2>6. ASSUME NEW x \in Queued', NEW y \in Queued', x \in older'[y]
       PROVE  older'[x] \cup {x} \subseteq older'[y]
    <3>1. x \in Agents /\ y \in Agents /\ x \in Queued \cup {a} /\ y \in Queued \cup {a}
      BY <2>1 DEF Queued
    <3>2. \A z \in Queued : older[z] \subseteq Queued
      BY DEF InOrder, Queued
    <3>3. y # a => x # a /\ x \in older[y]
      BY <3>1, <2>2, <2>6
    <3>4. y # a => older[x] \cup {x} \subseteq older[y]
      BY <3>1, <3>3 DEF InOrder
    <3>5. CASE y = a
      BY <3>1, <3>2, <3>5, <2>2, <2>6
    <3>6. CASE y # a
      BY <3>1, <3>3, <3>4, <3>6, <2>2
    <3> QED BY <3>5, <3>6
  <2> QED BY <2>3, <2>4, <2>5, <2>6 DEF InOrder
<1>9. PassTyped'
  BY PassSame DEF Enqueue
<1> QED BY <1>4, <1>7, <1>8, <1>9

LEMMA CancelTyped == ASSUME QueueTyped, NEW a \in Agents, Cancel(a) PROVE QueueTyped'
<1>1. RowsTyped' /\ InOrder'
  BY Deleted DEF Cancel, QueueTyped, RowsTyped
<1>2. PassTyped'
  BY PassSame DEF Cancel, QueueTyped
<1> QED BY <1>1, <1>2 DEF Cancel, QueueTyped

LEMMA WaitTyped == ASSUME QueueTyped, NEW a \in Agents, Wait(a) PROVE QueueTyped'
<1>1. row' \in [Agents -> RowType(Len(tables))] /\ UNCHANGED tables
  BY DEF Wait, QueueTyped, RowsTyped, RowType
<1>2. \A x \in Agents : row'[x].status = row[x].status /\ row'[x].table = row[x].table
  BY DEF Wait, QueueTyped, RowsTyped, RowType
<1>3. RowsTyped'
  BY <1>1, <1>2 DEF Wait, QueueTyped, RowsTyped
<1>4. InOrder'
  BY <1>2, OrderKept DEF Wait, QueueTyped
<1>5. PassTyped'
  BY PassSame DEF Wait, QueueTyped
<1> QED BY <1>3, <1>4, <1>5 DEF Wait, QueueTyped

\* What a mishap counts.
LEMMA MishapCounted ==
    ASSUME mishaps \in 0 .. MaxMishaps, NEW kind, Mishap(kind) \/ NoMishap
    PROVE  mishaps' \in 0 .. MaxMishaps
  BY BoundsAssumption DEF Mishap, NoMishap

LEMMA ClearTyped == ASSUME QueueTyped, NEW a \in Agents, Clear(a) PROVE QueueTyped'
<1>1. RowsTyped' /\ InOrder'
  <2>1. CASE Delete({a})
    BY <2>1, Deleted DEF Clear, QueueTyped, RowsTyped
  <2>2. CASE UNCHANGED <<row, older>>
    <3>1. RowsTyped'
      BY <2>2 DEF Clear, QueueTyped, RowsTyped
    <3>2. InOrder'
      BY <2>2, OrderKept DEF QueueTyped
    <3> QED BY <3>1, <3>2
  <2> QED BY <2>1, <2>2 DEF Clear
<1>2. PassTyped'
  BY PassSame DEF Clear, QueueTyped
<1>3. mishaps' \in 0 .. MaxMishaps
  BY MishapCounted DEF Clear, QueueTyped
<1> QED BY <1>1, <1>2, <1>3 DEF Clear, QueueTyped

LEMMA SweepTyped == ASSUME QueueTyped, Sweep PROVE QueueTyped'
<1>1. Orphans \in SUBSET Agents
  BY DEF Orphans
<1>2. RowsTyped' /\ InOrder'
  BY <1>1, Deleted DEF Sweep, QueueTyped, RowsTyped
<1>3. PassTyped'
  BY PassSame DEF Sweep, QueueTyped
<1> QED BY <1>2, <1>3 DEF Sweep, QueueTyped

-----------------------------------------------------------------------------
(* The matchers' steps keep the types *)

\* What a pass reads of the rows.
LEMMA PoolOfTyped ==
    ASSUME RowsTyped, InOrder, NEW S \in SUBSET Agents, \A a \in S : row[a].bid \in Bids
    PROVE  PoolOf(S) \in Pools
<1> DEFINE E == [bid : Bids, waited : BOOLEAN, older : SUBSET Agents]
<1>1. PoolOf(S) = [a \in S |-> [bid |-> row[a].bid, waited |-> row[a].waited, older |-> older[a] \cap S]]
  BY DEF PoolOf
<1>2. \A a \in S : [bid |-> row[a].bid, waited |-> row[a].waited, older |-> older[a] \cap S] \in E
  BY DEF RowsTyped, RowType
<1>3. PoolOf(S) \in [S -> E]
  BY <1>1, <1>2
<1> QED BY <1>3 DEF Pools

LEMMA NothingHeld == NoClaim \in Claims /\ NoPool \in Pools
<1> DEFINE E == [bid : Bids, waited : BOOLEAN, older : SUBSET Agents]
<1>1. NoClaim \in [{} -> Nat] /\ NoPool \in [{} -> E] /\ {} \in SUBSET Agents
  BY DEF NoClaim, NoPool
<1> QED BY <1>1 DEF Claims, Pools

LEMMA SnapshotTyped ==
    ASSUME QueueTyped, \A a \in Queued : row[a].bid \in Bids, NEW m \in Matchers, Snapshot(m)
    PROVE  QueueTyped'
<1> DEFINE waiting == {a \in Agents : row[a].status = "waiting"}
           P(b) == PoolOf(OfBid(waiting, b))
<1>1. \A b : P(b) \in Pools
  <2> SUFFICES ASSUME NEW b PROVE P(b) \in Pools
    OBVIOUS
  <2>1. OfBid(waiting, b) \in SUBSET Agents /\ \A a \in OfBid(waiting, b) : row[a].bid \in Bids
    BY DEF OfBid, Queued
  <2> QED BY <2>1, PoolOfTyped DEF QueueTyped
<1>2. PICK b : /\ pool' = [pool EXCEPT ![m] = P(b)]
               /\ pools' = [pools EXCEPT ![m] =
                                {P(c) : c \in {row[a].bid : a \in waiting} \ {b}}]
  BY DEF Snapshot
<1> HIDE DEF P
<1>3. pool' \in [Matchers -> Pools] /\ pools' \in [Matchers -> SUBSET Pools]
  BY <1>1, <1>2 DEF QueueTyped, PassTyped
<1>4. turn[m] = "idle" /\ turn' = [turn EXCEPT ![m] = "choose"]
  BY DEF Snapshot, Enter
<1>5. turn' \in [Matchers -> Turns]
      /\ \A k \in Matchers : (Holds(k)' <=> Holds(k)) /\ (turn'[k] = "mark" <=> turn[k] = "mark")
  BY <1>4 DEF Holds, Turns, QueueTyped, PassTyped
<1>6. \A k \in Matchers : k = m \/ pool'[k] = pool[k]
  BY <1>2 DEF QueueTyped, PassTyped
<1>7. ~ Holds(m)
  BY <1>4 DEF Holds
<1>8. UNCHANGED <<market, mishaps, rowVars, tables, clearing, last, used, hold, made>>
  BY DEF Snapshot
<1>9. PassTyped'
  BY <1>3, <1>5, <1>6, <1>7, <1>8 DEF QueueTyped, PassTyped
<1>10. RowsTyped' /\ InOrder'
  BY <1>8, RowsSame DEF QueueTyped, rowVars
<1> QED BY <1>8, <1>9, <1>10 DEF QueueTyped

LEMMA NextPoolTyped ==
    ASSUME QueueTyped, NEW m \in Matchers, NextPool(m)
    PROVE  QueueTyped'
<1>1. UNCHANGED <<market, mishaps, rowVars, tables, clearing, hold, made>>
  BY DEF NextPool
<1>2. turn[m] = "choose" /\ (turn' = turn \/ turn' = [turn EXCEPT ![m] = "idle"])
  BY DEF NextPool, Enter
<1>3. turn' \in [Matchers -> Turns]
      /\ \A k \in Matchers : (Holds(k)' <=> Holds(k)) /\ (turn'[k] = "mark" <=> turn[k] = "mark")
  BY <1>2 DEF Holds, Turns, QueueTyped, PassTyped
<1>4. ~ Holds(m)
  BY <1>2 DEF Holds
<1>5. \/ pool' = [pool EXCEPT ![m] = NoPool] /\ UNCHANGED pools
      \/ \E p \in pools[m] : pool' = [pool EXCEPT ![m] = p] /\ pools' = [pools EXCEPT ![m] = @ \ {p}]
  BY DEF NextPool
<1>6. /\ pool' \in [Matchers -> Pools] /\ pools' \in [Matchers -> SUBSET Pools]
      /\ \A k \in Matchers : k = m \/ pool'[k] = pool[k]
  <2>1. CASE pool' = [pool EXCEPT ![m] = NoPool] /\ UNCHANGED pools
    BY <2>1, NothingHeld DEF QueueTyped, PassTyped
  <2>2. ASSUME NEW p \in pools[m], pool' = [pool EXCEPT ![m] = p],
               pools' = [pools EXCEPT ![m] = @ \ {p}]
        PROVE  /\ pool' \in [Matchers -> Pools] /\ pools' \in [Matchers -> SUBSET Pools]
               /\ \A k \in Matchers : k = m \/ pool'[k] = pool[k]
    <3>1. p \in Pools /\ pools[m] \ {p} \in SUBSET Pools
      BY DEF QueueTyped, PassTyped
    <3>2. pool' \in [Matchers -> Pools] /\ \A k \in Matchers : k = m \/ pool'[k] = pool[k]
      BY <2>2, <3>1 DEF QueueTyped, PassTyped
    <3>3. pools' \in [Matchers -> SUBSET Pools]
      BY <2>2, <3>1 DEF QueueTyped, PassTyped
    <3> QED BY <3>2, <3>3
  <2> QED BY <1>5, <2>1, <2>2
<1>7. /\ last' \in [Matchers -> {NoPick} \cup [anchor : Agents, mates : SUBSET Agents]]
      /\ used' \in [Matchers -> SUBSET Agents] /\ \A k \in Matchers : k = m \/ last'[k] = last[k]
  BY DEF NextPool, QueueTyped, PassTyped
<1>8. PassTyped'
  BY <1>1, <1>3, <1>4, <1>6, <1>7 DEF QueueTyped, PassTyped
<1>9. RowsTyped' /\ InOrder'
  BY <1>1, RowsSame DEF QueueTyped, rowVars
<1> QED BY <1>1, <1>8, <1>9 DEF QueueTyped

\* The rows after a claim.
LEMMA ClaimedRows ==
    ASSUME QueueTyped, NEW S \in SUBSET Agents, Claimable(S), ClaimRows(S),
           UNCHANGED <<older, requests, tables, clearing>>
    PROVE  /\ RowsTyped' /\ InOrder'
           /\ \A a \in Agents : /\ row'[a].bid = row[a].bid /\ row'[a].table = row[a].table
                                /\ row'[a].status = IF a \in S THEN "claimed" ELSE row[a].status
<1> DEFINE r(a) == IF a \in S THEN [row[a] EXCEPT !.status = "claimed"] ELSE row[a]
<1>1. row' = [a \in Agents |-> r(a)]
  BY DEF ClaimRows
<1>2. \A a \in Agents : r(a) \in RowType(Len(tables))
  BY DEF QueueTyped, RowsTyped, RowType, Statuses
<1>3. \A a \in Agents : /\ row'[a].bid = row[a].bid /\ row'[a].table = row[a].table
                        /\ row'[a].status = IF a \in S THEN "claimed" ELSE row[a].status
  BY <1>1 DEF QueueTyped, RowsTyped, RowType
<1> HIDE DEF r
<1>4. \A a \in S : row[a].status = "waiting"
  BY DEF Claimable
<1>5. RowsTyped'
  BY <1>1, <1>2, <1>3, <1>4 DEF QueueTyped, RowsTyped
<1>6. InOrder'
  BY <1>3, <1>4, OrderKept DEF QueueTyped
<1> QED BY <1>3, <1>5, <1>6

\* What matcher m holds of the rows it claims.
LEMMA ClaimTaken ==
    ASSUME RowsTyped, NEW S \in SUBSET Agents, S # {}
    PROVE  [a \in S |-> Len(requests[a])] \in Claims \ {NoClaim}
<1> DEFINE h == [a \in S |-> Len(requests[a])]
<1>1. \A a \in S : Len(requests[a]) \in Nat
  BY DEF RowsTyped
<1>2. h \in [S -> Nat]
  BY <1>1
<1>3. DOMAIN h # DOMAIN NoClaim
  BY DEF NoClaim
<1> HIDE DEF h
<1>4. h \in Claims /\ h # NoClaim
  BY <1>2, <1>3 DEF Claims
<1> QED BY <1>4 DEF h

LEMMA ClaimTyped ==
    ASSUME QueueTyped, NEW m \in Matchers, PoolRead(pool[m]), NEW g \in Picks(m), Claim(m, g)
    PROVE  QueueTyped'
<1>1. /\ g \in [anchor : Agents, mates : SUBSET Agents] /\ g # NoPick
      /\ Members(g) \in SUBSET Agents /\ Members(g) # {} /\ g.anchor \in DOMAIN pool[m]
  BY PickIs
<1>2. last' = [last EXCEPT ![m] = g] /\ turn[m] = "choose"
      /\ UNCHANGED <<market, mishaps, older, requests, tables, clearing, pools, pool, used, made>>
  BY DEF Claim, NoMishap
<1>3. last' \in [Matchers -> {NoPick} \cup [anchor : Agents, mates : SUBSET Agents]]
      /\ last'[m] = g /\ \A k \in Matchers : k = m \/ last'[k] = last[k]
  BY <1>1, <1>2 DEF QueueTyped, PassTyped
<1>4. CASE Claimable(Members(g))
  <2> DEFINE h == [a \in Members(g) |-> Len(requests[a])]
  <2>1. turn' = [turn EXCEPT ![m] = "create"] /\ hold' = [hold EXCEPT ![m] = h] /\ ClaimRows(Members(g))
    BY <1>4 DEF Claim, Enter
  <2>2. h \in Claims \ {NoClaim}
    BY <1>1, ClaimTaken DEF QueueTyped
  <2> HIDE DEF h
  <2>3. RowsTyped' /\ InOrder'
    BY <1>1, <1>2, <1>4, <2>1, ClaimedRows
  <2>4. turn' \in [Matchers -> Turns] /\ hold' \in [Matchers -> Claims]
    BY <2>1, <2>2 DEF QueueTyped, PassTyped, Turns
  <2>5. \A k \in Matchers : k = m \/ (turn'[k] = turn[k] /\ hold'[k] = hold[k] /\ (Holds(k)' <=> Holds(k)))
    BY <2>1 DEF QueueTyped, PassTyped, Holds
  <2>6. Holds(m)' /\ hold'[m] # NoClaim /\ turn'[m] # "mark"
    BY <2>1, <2>2 DEF QueueTyped, PassTyped, Holds
  <2>7. PassTyped'
    BY <1>1, <1>2, <1>3, <2>4, <2>5, <2>6 DEF QueueTyped, PassTyped
  <2> QED BY <1>2, <2>3, <2>7 DEF QueueTyped
<1>5. CASE ~ Claimable(Members(g))
  <2>1. UNCHANGED <<turn, row, hold>>
    BY <1>5 DEF Claim
  <2>2. RowsTyped' /\ InOrder'
    BY <1>2, <2>1, RowsSame DEF QueueTyped
  <2>3. PassTyped'
    BY <1>1, <1>2, <1>3, <2>1 DEF QueueTyped, PassTyped, Holds
  <2> QED BY <1>2, <2>2, <2>3 DEF QueueTyped
<1> QED BY <1>4, <1>5

LEMMA ClaimFailsTyped ==
    ASSUME QueueTyped, NEW m \in Matchers, PoolRead(pool[m]), NEW g \in Picks(m), ClaimFails(m, g)
    PROVE  QueueTyped'
<1>1. g \in [anchor : Agents, mates : SUBSET Agents] /\ Members(g) \in SUBSET Agents
  BY PickIs
<1>2. last' = [last EXCEPT ![m] = g] /\ turn[m] = "choose" /\ Mishap("database")
      /\ UNCHANGED <<market, older, requests, tables, clearing, turn, pools, pool, used, hold, made>>
  BY DEF ClaimFails
<1>3. last' \in [Matchers -> {NoPick} \cup [anchor : Agents, mates : SUBSET Agents]]
      /\ \A k \in Matchers : k = m \/ last'[k] = last[k]
  BY <1>1, <1>2 DEF QueueTyped, PassTyped
<1>4. PassTyped'
  BY <1>2, <1>3 DEF QueueTyped, PassTyped, Holds
<1>5. RowsTyped' /\ InOrder'
  <2>1. CASE Claimable(Members(g)) /\ ClaimRows(Members(g))
    BY <1>1, <1>2, <2>1, ClaimedRows
  <2>2. CASE UNCHANGED row
    BY <1>2, <2>2, RowsSame DEF QueueTyped
  <2> QED BY <2>1, <2>2 DEF ClaimFails
<1>6. mishaps' \in 0 .. MaxMishaps
  BY <1>2, MishapCounted DEF QueueTyped
<1> QED BY <1>2, <1>4, <1>5, <1>6 DEF QueueTyped

\* The table made of what matcher m holds.
LEMMA TableMade ==
    ASSUME QueueTyped, NEW m \in Matchers, Holds(m)
    PROVE  Table(m) \in TableRow
<1>1. last[m].anchor \in DOMAIN pool[m] /\ pool[m] \in Pools /\ hold[m] \in Claims
  BY DEF QueueTyped, PassTyped
<1>2. pool[m][last[m].anchor].bid \in Bids
  BY <1>1 DEF Pools
<1> QED BY <1>1, <1>2 DEF Table, TableRow, Claims

\* The tables after one is created.
LEMMA TablesGrown ==
    ASSUME QueueTyped, NEW t \in TableRow, tables' = Append(tables, t),
           UNCHANGED <<row, older, requests, clearing>>
    PROVE  /\ RowsTyped' /\ InOrder'
           /\ Len(tables) \in Nat /\ Len(tables') = Len(tables) + 1 /\ DOMAIN tables = 1 .. Len(tables)
           /\ DOMAIN tables' = 1 .. Len(tables) + 1 /\ tables'[Len(tables) + 1] = t
           /\ \A i \in DOMAIN tables : tables'[i] = tables[i]
<1>1. /\ tables' \in Seq(TableRow) /\ Len(tables) \in Nat /\ Len(tables') = Len(tables) + 1
      /\ DOMAIN tables = 1 .. Len(tables) /\ DOMAIN tables' = 1 .. Len(tables) + 1
      /\ tables'[Len(tables) + 1] = t /\ \A i \in DOMAIN tables : tables'[i] = tables[i]
  <2>1. tables \in Seq(TableRow)
    BY DEF QueueTyped, RowsTyped
  <2> QED BY <2>1, Appended
<1>2. RowType(Len(tables)) \subseteq RowType(Len(tables'))
  BY <1>1 DEF RowType
<1>3. RowsTyped'
  BY <1>1, <1>2 DEF QueueTyped, RowsTyped
<1>4. InOrder'
  BY OrderKept DEF QueueTyped
<1> QED BY <1>1, <1>3, <1>4

LEMMA CreateTyped == ASSUME QueueTyped, NEW m \in Matchers, Create(m) PROVE QueueTyped'
<1>1. turn[m] = "create" /\ Holds(m) /\ hold[m] # NoClaim /\ made[m] = 0
      /\ UNCHANGED <<market, mishaps, rowVars, clearing, pools, pool, last, used, hold>>
  BY DEF Create, NoMishap, Holds, QueueTyped, PassTyped
<1>2. CASE tables' = Append(tables, Table(m)) /\ made' = [made EXCEPT ![m] = Len(tables) + 1]
           /\ turn' = [turn EXCEPT ![m] = "mark"]
  <2>1. RowsTyped' /\ InOrder' /\ Len(tables) \in Nat /\ Len(tables') = Len(tables) + 1
    BY <1>1, <1>2, TableMade, TablesGrown DEF rowVars
  <2>2. turn' \in [Matchers -> Turns] /\ made' \in [Matchers -> 0 .. Len(tables')]
    BY <1>2, <2>1 DEF QueueTyped, PassTyped, Turns
  <2>3. \A k \in Matchers : /\ Holds(k)' <=> Holds(k)
                            /\ made'[k] # 0 <=> turn'[k] = "mark"
    BY <1>1, <1>2, <2>1 DEF QueueTyped, PassTyped, Holds
  <2>4. PassTyped'
    BY <1>1, <2>2, <2>3 DEF QueueTyped, PassTyped
  <2> QED BY <1>1, <2>1, <2>4 DEF QueueTyped
<1>3. CASE turn' = [turn EXCEPT ![m] = "release"] /\ UNCHANGED <<tables, made>>
  <2>1. RowsTyped' /\ InOrder'
    BY <1>1, <1>3, RowsSame DEF QueueTyped, rowVars
  <2>2. turn' \in [Matchers -> Turns]
    BY <1>3 DEF QueueTyped, PassTyped, Turns
  <2>3. \A k \in Matchers : (Holds(k)' <=> Holds(k)) /\ (turn'[k] = "mark" <=> turn[k] = "mark")
    BY <1>1, <1>3 DEF QueueTyped, PassTyped, Holds
  <2>4. PassTyped'
    BY <1>1, <1>3, <2>2, <2>3 DEF QueueTyped, PassTyped
  <2> QED BY <1>1, <2>1, <2>4 DEF QueueTyped
<1> QED BY <1>2, <1>3 DEF Create, Enter

LEMMA CreateFailsTyped == ASSUME QueueTyped, NEW m \in Matchers, CreateFails(m) PROVE QueueTyped'
<1>1. turn[m] = "create" /\ Holds(m) /\ tables' = Append(tables, Table(m)) /\ Mishap("database")
      /\ turn' = [turn EXCEPT ![m] = "release"]
      /\ UNCHANGED <<market, row, older, requests, clearing, pools, pool, last, used, hold, made>>
  BY DEF CreateFails, Holds, Enter
<1>2. RowsTyped' /\ InOrder' /\ Len(tables) \in Nat /\ Len(tables') = Len(tables) + 1
  BY <1>1, TableMade, TablesGrown
<1>3. turn' \in [Matchers -> Turns] /\ made' \in [Matchers -> 0 .. Len(tables')]
  BY <1>1, <1>2 DEF QueueTyped, PassTyped, Turns
<1>4. \A k \in Matchers : (Holds(k)' <=> Holds(k)) /\ (turn'[k] = "mark" <=> turn[k] = "mark")
  BY <1>1 DEF QueueTyped, PassTyped, Holds
<1>5. PassTyped'
  BY <1>1, <1>3, <1>4 DEF QueueTyped, PassTyped
<1>6. mishaps' \in 0 .. MaxMishaps
  BY <1>1, MishapCounted DEF QueueTyped
<1> QED BY <1>1, <1>2, <1>5, <1>6 DEF QueueTyped

\* The rows after their status is set: only claimed ones change.
LEMMA StatusSet ==
    ASSUME QueueTyped, NEW S \in SUBSET Agents, NEW s \in {"waiting", "matched"},
           NEW t \in 0 .. Len(tables), s = "matched" <=> t # 0,
           SetClaimed(S, s, t), UNCHANGED <<older, requests, tables, clearing>>
    PROVE  /\ RowsTyped' /\ InOrder'
           /\ \A a \in Agents :
                /\ row'[a].bid = row[a].bid
                /\ IF a \in S /\ row[a].status = "claimed"
                   THEN row'[a].status = s /\ row'[a].table = t
                   ELSE row'[a] = row[a]
<1> DEFINE r(a) == IF a \in S /\ row[a].status = "claimed"
                   THEN [row[a] EXCEPT !.status = s, !.table = t] ELSE row[a]
<1>1. row' = [a \in Agents |-> r(a)]
  BY DEF SetClaimed
<1>2. \A a \in Agents : r(a) \in RowType(Len(tables))
  BY DEF QueueTyped, RowsTyped, RowType, Statuses
<1>3. \A a \in Agents : /\ r(a).bid = row[a].bid
                        /\ IF a \in S /\ row[a].status = "claimed"
                           THEN r(a).status = s /\ r(a).table = t ELSE r(a) = row[a]
  BY DEF QueueTyped, RowsTyped, RowType
<1> HIDE DEF r
<1>4. \A a \in Agents : r(a).status = "none" <=> row[a].status = "none"
  BY <1>3
<1>5. \A a \in Agents : r(a).status = "matched" <=> r(a).table # 0
  BY <1>3 DEF QueueTyped, RowsTyped
<1>6. RowsTyped'
  BY <1>1, <1>2, <1>5 DEF QueueTyped, RowsTyped
<1>7. InOrder'
  BY <1>1, <1>4, OrderKept DEF QueueTyped
<1> QED BY <1>1, <1>3, <1>6, <1>7

\* A matcher is done with what it held.
LEMMA LetGo ==
    ASSUME PassTyped, NEW m \in Matchers, NEW next \in {"idle", "choose"},
           turn' = [turn EXCEPT ![m] = next], hold' = [hold EXCEPT ![m] = NoClaim],
           made' = [made EXCEPT ![m] = 0], UNCHANGED tables,
           last' \in [Matchers -> {NoPick} \cup [anchor : Agents, mates : SUBSET Agents]],
           used' \in [Matchers -> SUBSET Agents],
           pool' \in [Matchers -> Pools], pools' \in [Matchers -> SUBSET Pools],
           \A k \in Matchers : k = m \/ (last'[k] = last[k] /\ pool'[k] = pool[k])
    PROVE  PassTyped'
<1>1. turn' \in [Matchers -> Turns] /\ hold' \in [Matchers -> Claims]
  BY NothingHeld DEF PassTyped, Turns
<1>2. made' \in [Matchers -> 0 .. Len(tables)]
  BY DEF PassTyped
<1>3. \A k \in Matchers : k = m \/ (turn'[k] = turn[k] /\ hold'[k] = hold[k] /\ made'[k] = made[k])
  BY DEF PassTyped
<1>4. turn'[m] = next /\ hold'[m] = NoClaim /\ made'[m] = 0
  BY DEF PassTyped
<1> QED BY <1>1, <1>2, <1>3, <1>4 DEF PassTyped, Holds

LEMMA ReleaseTyped == ASSUME QueueTyped, NEW m \in Matchers, Release(m) PROVE QueueTyped'
<1>1. /\ turn[m] = "release" /\ (NoMishap \/ Mishap("database"))
      /\ hold' = [hold EXCEPT ![m] = NoClaim] /\ turn' = [turn EXCEPT ![m] = "choose"]
      /\ UNCHANGED <<market, older, requests, tables, clearing, pools, pool, last, used, made>>
  BY DEF Release, Enter
<1>2. made' = [made EXCEPT ![m] = 0]
  BY <1>1 DEF QueueTyped, PassTyped
<1>3. PassTyped'
  BY <1>1, <1>2, LetGo DEF QueueTyped, PassTyped
<1>4. DOMAIN hold[m] \in SUBSET Agents /\ Len(tables) \in Nat
  BY DEF QueueTyped, PassTyped, Claims, RowsTyped
<1>5. RowsTyped' /\ InOrder'
  <2>1. CASE SetClaimed(DOMAIN hold[m], "waiting", 0)
    BY <1>1, <1>4, <2>1, StatusSet
  <2>2. CASE UNCHANGED row
    BY <1>1, <2>2, RowsSame DEF QueueTyped
  <2> QED BY <2>1, <2>2 DEF Release, ReleaseRows
<1>6. mishaps' \in 0 .. MaxMishaps
  BY <1>1, MishapCounted DEF QueueTyped
<1> QED BY <1>1, <1>3, <1>5, <1>6 DEF QueueTyped

LEMMA MarkTyped == ASSUME QueueTyped, NEW m \in Matchers, Mark(m) PROVE QueueTyped'
<1>1. /\ turn[m] = "mark" /\ (NoMishap \/ Mishap("database"))
      /\ used' = [used EXCEPT ![m] = @ \cup Members(last[m])]
      /\ hold' = [hold EXCEPT ![m] = NoClaim] /\ made' = [made EXCEPT ![m] = 0]
      /\ turn' = [turn EXCEPT ![m] = "choose"]
      /\ UNCHANGED <<market, older, requests, tables, clearing, pools, pool, last>>
  BY DEF Mark, Enter
<1>2. Holds(m) /\ made[m] # 0 /\ made[m] \in 0 .. Len(tables)
  BY <1>1 DEF Holds, QueueTyped, PassTyped
<1>3. Members(last[m]) \subseteq Agents
  BY <1>2 DEF QueueTyped, PassTyped, Members
<1>4. used' \in [Matchers -> SUBSET Agents]
  BY <1>1, <1>3 DEF QueueTyped, PassTyped
<1>5. PassTyped'
  BY <1>1, <1>4, LetGo DEF QueueTyped, PassTyped
<1>6. DOMAIN hold[m] \in SUBSET Agents
  BY DEF QueueTyped, PassTyped, Claims
<1>7. RowsTyped' /\ InOrder'
  <2>1. CASE SetClaimed(DOMAIN hold[m], "matched", made[m])
    BY <1>1, <1>2, <1>6, <2>1, StatusSet
  <2>2. CASE UNCHANGED row
    BY <1>1, <2>2, RowsSame DEF QueueTyped
  <2> QED BY <2>1, <2>2 DEF Mark
<1>8. mishaps' \in 0 .. MaxMishaps
  BY <1>1, MishapCounted DEF QueueTyped
<1> QED BY <1>1, <1>5, <1>7, <1>8 DEF QueueTyped

LEMMA DiesTyped == ASSUME QueueTyped, NEW m \in Matchers, MatcherDies(m) PROVE QueueTyped'
<1>1. UNCHANGED <<market, rowVars, tables, clearing>> /\ Mishap("crash")
  BY DEF MatcherDies
<1>2. /\ last' \in [Matchers -> {NoPick} \cup [anchor : Agents, mates : SUBSET Agents]]
      /\ used' \in [Matchers -> SUBSET Agents]
      /\ pool' \in [Matchers -> Pools] /\ pools' \in [Matchers -> SUBSET Pools]
      /\ \A k \in Matchers : k = m \/ (last'[k] = last[k] /\ pool'[k] = pool[k])
  BY NothingHeld DEF MatcherDies, QueueTyped, PassTyped
<1>3. PassTyped'
  BY <1>1, <1>2, LetGo DEF MatcherDies, Enter, QueueTyped
<1>4. RowsTyped' /\ InOrder'
  BY <1>1, RowsSame DEF QueueTyped, rowVars
<1>5. mishaps' \in 0 .. MaxMishaps
  BY <1>1, MishapCounted DEF QueueTyped
<1> QED BY <1>1, <1>3, <1>4, <1>5 DEF QueueTyped

\* The end of table t: its seats stay, and so do the other tables.
LEMMA TableEnds ==
    ASSUME QueueTyped, NEW t \in DOMAIN tables, NEW how \in {"finished", "aborted"},
           tables' = [tables EXCEPT ![t].status = how]
    PROVE  /\ tables' \in Seq(TableRow) /\ Len(tables') = Len(tables) /\ DOMAIN tables' = DOMAIN tables
           /\ \A i \in DOMAIN tables : tables'[i].seats = tables[i].seats /\ tables'[i].bid = tables[i].bid
<1>1. tables \in Seq(TableRow) /\ DOMAIN tables = 1 .. Len(tables) /\ Len(tables) \in Nat
  BY DEF QueueTyped, RowsTyped
<1>2. tables[t] \in TableRow
  BY <1>1
<1> DEFINE r == [tables[t] EXCEPT !.status = how]
<1>3. r \in TableRow /\ r.seats = tables[t].seats /\ r.bid = tables[t].bid
  BY <1>2 DEF TableRow
<1>4. tables' = [tables EXCEPT ![t] = r]
  OBVIOUS
<1> HIDE DEF r
<1> QED BY <1>1, <1>3, <1>4

LEMMA EndTyped ==
    ASSUME QueueTyped, NEW t \in DOMAIN tables, NEW how \in {"finished", "aborted"},
           End(t, how) \/ FinishFails(t)
    PROVE  /\ QueueTyped' /\ Len(tables') = Len(tables) /\ DOMAIN tables' = DOMAIN tables
           /\ UNCHANGED <<market, rowVars, passVars>>
           /\ \A i \in DOMAIN tables : tables'[i].seats = tables[i].seats /\ tables'[i].bid = tables[i].bid
<1>1. /\ \/ tables' = tables \/ tables' = [tables EXCEPT ![t].status = how]
         \/ tables' = [tables EXCEPT ![t].status = "finished"]
      /\ UNCHANGED <<market, rowVars, passVars>>
      /\ clearing' \in {clearing, clearing \cup DOMAIN tables[t].seats}
      /\ NoMishap \/ Mishap("database")
  BY DEF End, FinishFails, NoMishap
<1>2. /\ tables' \in Seq(TableRow) /\ Len(tables') = Len(tables) /\ DOMAIN tables' = DOMAIN tables
      /\ \A i \in DOMAIN tables : tables'[i].seats = tables[i].seats /\ tables'[i].bid = tables[i].bid
  <2>1. CASE tables' = tables
    BY <2>1 DEF QueueTyped, RowsTyped
  <2>2. CASE tables' = [tables EXCEPT ![t].status = how]
    BY <2>2, TableEnds
  <2>3. CASE tables' = [tables EXCEPT ![t].status = "finished"]
    BY <2>3, TableEnds
  <2> QED BY <1>1, <2>1, <2>2, <2>3
<1>3. DOMAIN tables[t].seats \subseteq Agents
  <2>1. tables[t] \in TableRow
    BY DEF QueueTyped, RowsTyped
  <2> QED BY <2>1 DEF TableRow, Claims
<1>4. RowsTyped'
  BY <1>1, <1>2, <1>3 DEF QueueTyped, RowsTyped, rowVars
<1>5. InOrder'
  BY <1>1, OrderKept DEF QueueTyped, rowVars
<1>6. PassTyped'
  BY <1>1, <1>2 DEF QueueTyped, PassTyped, passVars, Holds
<1>7. mishaps' \in 0 .. MaxMishaps
  BY <1>1, MishapCounted DEF QueueTyped
<1> QED BY <1>1, <1>2, <1>4, <1>5, <1>6, <1>7 DEF QueueTyped

-----------------------------------------------------------------------------
(* What a step keeps *)

\* The tables' seats and stakes, and the bids, are as they were.
Settled ==
    /\ UNCHANGED <<market, requests, doubtful>> /\ DOMAIN tables' = DOMAIN tables
    /\ \A t \in DOMAIN tables : tables'[t].seats = tables[t].seats /\ tables'[t].bid = tables[t].bid

\* Matcher m holds what it held, or nothing any more.
Keeps(m) ==
    /\ hold'[m] = hold[m] /\ (Holds(m)' <=> Holds(m)) /\ (turn'[m] = "mark" <=> turn[m] = "mark")
    /\ made'[m] = made[m] /\ (Holds(m) => last'[m] = last[m] /\ pool'[m] = pool[m])
Drops(m) == hold'[m] = NoClaim /\ ~ Holds(m)' /\ turn'[m] # "mark"

\* Rows are deleted, or claimed, or as they were.
Thinned == \A a \in Agents :
    \/ row'[a].status = "none"
    \/ row'[a].bid = row[a].bid /\ row[a].status # "none" /\ row'[a].status = "claimed"
    \/ row'[a].bid = row[a].bid /\ row'[a].status = row[a].status /\ row'[a].table = row[a].table

LEMMA Serves ==
    ASSUME NEW a, NEW n, NEW t
    PROVE  t \in ServedBy(a, n) <=>
                t \in DOMAIN tables /\ a \in DOMAIN tables[t].seats /\ tables[t].seats[a] = n
  BY DEF ServedBy

LEMMA ServedSame ==
    ASSUME DOMAIN tables' = DOMAIN tables, NEW a, NEW n,
           \A t \in DOMAIN tables : tables'[t].seats = tables[t].seats
    PROVE  ServedBy(a, n)' = ServedBy(a, n)
  BY DEF ServedBy

LEMMA NoneHeld == DOMAIN NoClaim = {}
  BY DEF NoClaim

\* The requests of an agent, and what a claim is.
LEMMA RequestsTyped ==
    ASSUME QueueTyped, NEW a \in Agents
    PROVE  Newest(a) \in Nat /\ DOMAIN requests[a] = 1 .. Newest(a)
  BY DEF QueueTyped, RowsTyped, Newest
LEMMA HoldTyped ==
    ASSUME QueueTyped, NEW m \in Matchers
    PROVE  DOMAIN hold[m] \subseteq Agents /\ \A a \in DOMAIN hold[m] : hold[m][a] \in Nat
  BY DEF QueueTyped, PassTyped, Claims
LEMMA SeatsTyped ==
    ASSUME QueueTyped, NEW t \in DOMAIN tables
    PROVE  DOMAIN tables[t].seats \subseteq Agents /\ tables[t].seats \in Claims
<1>1. tables[t] \in TableRow
  BY DEF QueueTyped, RowsTyped
<1> QED BY <1>1 DEF TableRow, Claims

LEMMA ClaimsKept ==
    ASSUME QueueTyped, ClaimsSafe, Settled, \A m \in Matchers : Keeps(m) \/ Drops(m)
    PROVE  ClaimsSafe'
<1> USE DEF ClaimsSafe
<1>1. ClaimsAsRead'
  <2> SUFFICES ASSUME NEW m \in Matchers PROVE ClaimAsRead(m)'
    BY DEF ClaimsAsRead
  <2> ClaimAsRead(m)
    BY DEF ClaimsAsRead
  <2>1. CASE Keeps(m)
    BY <2>1 DEF ClaimAsRead, Keeps, Settled, Sure
  <2>2. CASE Drops(m)
    BY <2>2, NoneHeld DEF ClaimAsRead, Drops
  <2> QED BY <2>1, <2>2
<1>2. \A m \in Matchers :
        \/ DOMAIN hold'[m] = {}
        \/ hold'[m] = hold[m] /\ (turn'[m] = "mark" <=> turn[m] = "mark")
  BY NoneHeld DEF Keeps, Drops
<1>3. OneHolder'
  <2>1. \A a, n : ServedBy(a, n)' = ServedBy(a, n)
    BY ServedSame DEF Settled
  <2> QED BY <1>2, <2>1 DEF OneHolder, Settled, Sure
<1>4. TablesApart'
  BY DEF TablesApart, Settled, Sure
<1>5. TablesAsAsked'
  BY DEF TablesAsAsked, Settled, Sure
<1> QED BY <1>1, <1>3, <1>4, <1>5

LEMMA RowsKept ==
    ASSUME QueueTyped, RowsSafe, Settled, Thinned,
           \A m \in Matchers : hold'[m] = hold[m] \/ DOMAIN hold'[m] = {}
    PROVE  RowsSafe'
<1> USE DEF RowsSafe
<1>1. \A a, n : ServedBy(a, n)' = ServedBy(a, n)
  BY ServedSame DEF Settled
<1>2. \A a \in Agents : Newest(a)' = Newest(a)
  BY DEF Newest, Settled
<1>3. \A a, n : Sure(a, n)' <=> Sure(a, n)
  BY DEF Sure, Settled
<1>4. RowsAsAsked'
  BY <1>2 DEF RowsAsAsked, Thinned, Queued, Settled
<1>5. WaitingFree'
  BY <1>1, <1>2, <1>3 DEF WaitingFree, Thinned
<1>6. MatchedServed'
  BY <1>1, <1>2, <1>3 DEF MatchedServed, Thinned
<1> QED BY <1>4, <1>5, <1>6

\* What was read of the rows stays true of the requests.
LEMMA PoolsKept ==
    ASSUME PoolsAsRead, UNCHANGED requests, doubtful \subseteq doubtful',
           \A m \in Matchers : /\ pool'[m] \in {pool[m], NoPool} \cup pools[m]
                               /\ pools'[m] \subseteq pools[m]
    PROVE  PoolsAsRead'
<1>1. ASSUME NEW p, PoolRead(p) PROVE PoolRead(p)'
  BY <1>1 DEF PoolRead, Newest, Sure, Later
<1>2. PoolRead(NoPool)
  BY DEF PoolRead, NoPool
<1> QED BY <1>1, <1>2 DEF PoolsAsRead

-----------------------------------------------------------------------------
(* The steps *)

LEMMA AgentsAsAsked ==
    ASSUME QueueSafe, NEW a \in Agents, Cancel(a) \/ Wait(a) \/ Clear(a)
    PROVE  PoolsAsRead' /\ ClaimsSafe' /\ RowsSafe'
<1> USE DEF QueueSafe
<1>1. UNCHANGED <<market, requests, doubtful, tables, passVars>>
  BY DEF Cancel, Wait, Clear
<1>2. Settled /\ \A m \in Matchers : Keeps(m)
  BY <1>1 DEF Settled, Keeps, passVars, Holds
<1>3. Thinned
  <2>1. CASE Delete({a})
    BY <2>1 DEF Delete, NoRow, Thinned
  <2>2. CASE UNCHANGED row
    BY <2>2 DEF Thinned
  <2>3. CASE row' = [row EXCEPT ![a].waited = TRUE]
    BY <2>3 DEF Thinned, QueueTyped, RowsTyped, RowType
  <2> QED BY <2>1, <2>2, <2>3 DEF Cancel, Wait, Clear
<1>4. ClaimsSafe' /\ RowsSafe'
  BY <1>2, <1>3, ClaimsKept, RowsKept DEF Keeps
<1>5. PoolsAsRead'
  BY <1>1, PoolsKept DEF passVars
<1> QED BY <1>4, <1>5

LEMMA SweepAsAsked ==
    ASSUME QueueSafe, Sweep
    PROVE  PoolsAsRead' /\ ClaimsSafe' /\ RowsSafe'
<1> USE DEF QueueSafe
<1>1. UNCHANGED <<market, requests, doubtful, tables, passVars>>
  BY DEF Sweep
<1>2. Settled /\ \A m \in Matchers : Keeps(m)
  BY <1>1 DEF Settled, Keeps, passVars, Holds
<1>3. Thinned
  BY DEF Sweep, Delete, NoRow, Thinned
<1>4. ClaimsSafe' /\ RowsSafe'
  BY <1>2, <1>3, ClaimsKept, RowsKept DEF Keeps
<1>5. PoolsAsRead'
  BY <1>1, PoolsKept DEF passVars
<1> QED BY <1>4, <1>5

LEMMA EndAsAsked ==
    ASSUME QueueSafe, NEW t \in DOMAIN tables, NEW how \in {"finished", "aborted"},
           End(t, how) \/ FinishFails(t)
    PROVE  PoolsAsRead' /\ ClaimsSafe' /\ RowsSafe'
<1> USE DEF QueueSafe
<1>1. /\ Len(tables') = Len(tables) /\ DOMAIN tables' = DOMAIN tables
      /\ UNCHANGED <<market, rowVars, passVars>>
      /\ \A i \in DOMAIN tables : tables'[i].seats = tables[i].seats /\ tables'[i].bid = tables[i].bid
  BY EndTyped
<1>2. Settled /\ Thinned /\ \A m \in Matchers : Keeps(m)
  BY <1>1 DEF Settled, Keeps, passVars, rowVars, Holds, Thinned
<1>3. ClaimsSafe' /\ RowsSafe'
  BY <1>2, ClaimsKept, RowsKept DEF Keeps
<1>4. PoolsAsRead'
  BY <1>1, PoolsKept DEF passVars, rowVars
<1> QED BY <1>3, <1>4

LEMMA SnapshotAsAsked ==
    ASSUME QueueSafe, NEW m \in Matchers, Snapshot(m)
    PROVE  PoolsAsRead' /\ ClaimsSafe' /\ RowsSafe'
<1> USE DEF QueueSafe
<1> DEFINE waiting == {a \in Agents : row[a].status = "waiting"}
           P(b) == PoolOf(OfBid(waiting, b))
<1>1. turn[m] = "idle" /\ turn' = [turn EXCEPT ![m] = "choose"]
      /\ UNCHANGED <<market, rowVars, tables, last, hold, made>>
  BY DEF Snapshot, Enter
<1>2. PICK b : /\ pool' = [pool EXCEPT ![m] = P(b)]
               /\ pools' = [pools EXCEPT ![m] =
                                {P(c) : c \in {row[a].bid : a \in waiting} \ {b}}]
  BY DEF Snapshot
<1>3. \A c : PoolRead(P(c))
  <2> SUFFICES ASSUME NEW c PROVE PoolRead(P(c))
    OBVIOUS
  <2> DEFINE S == OfBid(waiting, c)
  <2>1. S \subseteq Queued /\ S \subseteq Agents /\ \A a \in S : row[a].bid = c
    BY DEF OfBid, Queued
  <2>2. DOMAIN P(c) = S /\ \A a \in S : P(c)[a].bid = row[a].bid /\ P(c)[a].older = older[a] \cap S
    BY DEF PoolOf
  <2> HIDE DEF P, S
  <2>3. \A a, x \in S : a = x \/ Later(P(c), a, x) \/ Later(P(c), x, a)
    <3> SUFFICES ASSUME NEW a \in S, NEW x \in S, a # x PROVE Later(P(c), a, x) \/ Later(P(c), x, a)
      OBVIOUS
    <3>1. a \in Queued /\ x \in Queued
      BY <2>1
    <3>2. a \in older[x] \/ x \in older[a]
      BY <3>1 DEF QueueTyped, InOrder
    <3> QED BY <2>2, <3>2 DEF Later
  <2>4. \A a \in S : Newest(a) > 0 /\ P(c)[a].bid = requests[a][Newest(a)]
    BY <2>1, <2>2 DEF RowsSafe, RowsAsAsked
  <2> QED BY <2>1, <2>2, <2>3, <2>4 DEF PoolRead
<1> HIDE DEF P
<1>4. \A p : PoolRead(p)' <=> PoolRead(p)
  BY <1>1 DEF PoolRead, Newest, Sure, Later, rowVars
<1>5. PoolsAsRead'
  BY <1>2, <1>3, <1>4 DEF PoolsAsRead, QueueTyped, PassTyped
<1>6. Settled /\ Thinned
  BY <1>1 DEF Settled, Thinned, rowVars
<1>7. \A k \in Matchers : Keeps(k)
  BY <1>1, <1>2 DEF Keeps, Holds, QueueTyped, PassTyped
<1>8. ClaimsSafe' /\ RowsSafe'
  BY <1>6, <1>7, ClaimsKept, RowsKept DEF Keeps
<1> QED BY <1>5, <1>8

LEMMA NextPoolAsAsked ==
    ASSUME QueueSafe, NEW m \in Matchers, NextPool(m)
    PROVE  PoolsAsRead' /\ ClaimsSafe' /\ RowsSafe'
<1> USE DEF QueueSafe
<1>1. turn[m] = "choose" /\ (turn' = turn \/ turn' = [turn EXCEPT ![m] = "idle"])
      /\ last' = [last EXCEPT ![m] = NoPick]
      /\ UNCHANGED <<market, rowVars, tables, hold, made>>
  BY DEF NextPool, Enter
<1>2. \/ pool' = [pool EXCEPT ![m] = NoPool] /\ UNCHANGED pools
      \/ \E p \in pools[m] : pool' = [pool EXCEPT ![m] = p] /\ pools' = [pools EXCEPT ![m] = @ \ {p}]
  BY DEF NextPool
<1>3. \A k \in Matchers : /\ pool'[k] \in {pool[k], NoPool} \cup pools[k] /\ pools'[k] \subseteq pools[k]
                          /\ k = m \/ pool'[k] = pool[k]
  BY <1>2 DEF QueueTyped, PassTyped
<1>4. PoolsAsRead'
  BY <1>1, <1>3, PoolsKept DEF rowVars
<1>5. Settled /\ Thinned
  BY <1>1 DEF Settled, Thinned, rowVars
<1>6. \A k \in Matchers : Keeps(k)
  BY <1>1, <1>3 DEF Keeps, Holds, QueueTyped, PassTyped
<1>7. ClaimsSafe' /\ RowsSafe'
  BY <1>5, <1>6, ClaimsKept, RowsKept DEF Keeps
<1> QED BY <1>4, <1>7

LEMMA DiesAsAsked ==
    ASSUME QueueSafe, NEW m \in Matchers, MatcherDies(m)
    PROVE  PoolsAsRead' /\ ClaimsSafe' /\ RowsSafe'
<1> USE DEF QueueSafe
<1>1. UNCHANGED <<market, rowVars, tables>>
  BY DEF MatcherDies
<1>2. \A k \in Matchers : pool'[k] \in {pool[k], NoPool} /\ pools'[k] \subseteq pools[k]
  BY DEF MatcherDies, QueueTyped, PassTyped
<1>3. PoolsAsRead'
  BY <1>1, <1>2, PoolsKept DEF rowVars
<1>4. Settled /\ Thinned
  BY <1>1 DEF Settled, Thinned, rowVars
<1>5. Drops(m)
  BY DEF Drops, MatcherDies, Enter, Holds, QueueTyped, PassTyped
<1>6. \A k \in Matchers \ {m} : Keeps(k)
  BY DEF MatcherDies, Enter, Keeps, Holds, QueueTyped, PassTyped
<1>7. ClaimsSafe' /\ RowsSafe'
  BY <1>4, <1>5, <1>6, NoneHeld, ClaimsKept, RowsKept DEF Keeps, Drops
<1> QED BY <1>3, <1>7

-----------------------------------------------------------------------------
(* The request of an agent *)

LEMMA EnqueueAsAsked ==
    ASSUME QueueSafe, NEW a \in Agents, NEW b \in Bids, Enqueue(a, b)
    PROVE  PoolsAsRead' /\ ClaimsSafe' /\ RowsSafe'
<1> USE DEF QueueSafe, ClaimsSafe, RowsSafe
<1>0. PICK k \in Nat : k = Newest(a) + 1
  BY RequestsTyped
<1>1. UNCHANGED <<market, mishaps, tables, clearing, passVars>>
  BY DEF Enqueue
<1>2. /\ k > 0 /\ Newest(a)' = k /\ requests'[a][k] = b
      /\ DOMAIN requests[a] = 1 .. k - 1 /\ DOMAIN requests'[a] = 1 .. k
      /\ \A n \in DOMAIN requests[a] : requests'[a][n] = requests[a][n]
      /\ \A x \in Agents \ {a} : requests'[x] = requests[x] /\ Newest(x)' = Newest(x)
  <2>1. requests' = [requests EXCEPT ![a] = Append(@, b)] /\ requests \in [Agents -> Seq(Bids)]
    BY DEF Enqueue, QueueTyped, RowsTyped
  <2>2. requests[a] \in Seq(Bids) /\ requests'[a] = Append(requests[a], b)
    BY <2>1
  <2>3. \A x \in Agents \ {a} : requests'[x] = requests[x]
    BY <2>1
  <2> QED BY <1>0, <2>2, <2>3, Appended DEF Newest
<1>3. doubtful \subseteq doubtful' /\ doubtful' \subseteq doubtful \cup {<<a, k>>}
      /\ (Busy(a) => ~ Sure(a, k)')
  BY <1>0 DEF Enqueue, Newest, Sure
<1>4. \A x \in Agents : /\ Newest(x) \in Nat /\ DOMAIN requests[x] = 1 .. Newest(x)
                        /\ DOMAIN requests[x] \subseteq DOMAIN requests'[x]
                        /\ \A n \in DOMAIN requests[x] : requests'[x][n] = requests[x][n]
                        /\ \A n \in DOMAIN requests'[x] : n \in DOMAIN requests[x] \/ (x = a /\ n = k)
  BY <1>2, RequestsTyped
<1>5. \A x, n : Sure(x, n)' => Sure(x, n)
  BY <1>3 DEF Sure
<1>6. \A x, n : ServedBy(x, n)' = ServedBy(x, n)
  BY <1>1 DEF ServedBy
<1>7. row'[a].status = "waiting" /\ row'[a].bid = b /\ \A x \in Agents \ {a} : row'[x] = row[x]
  BY DEF Enqueue, NoRow, QueueTyped, RowsTyped
<1>8. PoolsAsRead'
  <2>1. ASSUME NEW p \in Pools, PoolRead(p), a \in DOMAIN p => Busy(a) PROVE PoolRead(p)'
    <3>1. DOMAIN p \subseteq Agents
      BY DEF Pools
    <3>2. \A x, y \in DOMAIN p : p[x].bid = p[y].bid /\ (x = y \/ Later(p, x, y) \/ Later(p, y, x))
      BY <2>1 DEF PoolRead
    <3>3. ASSUME NEW x \in DOMAIN p
          PROVE  Newest(x)' > 0 /\ (Sure(x, Newest(x))' => p[x].bid = requests'[x][Newest(x)'])
      <4>1. CASE x = a
        BY <1>2, <1>3, <2>1, <4>1 DEF Sure
      <4>2. CASE x # a
        BY <1>2, <1>5, <2>1, <3>1, <4>2 DEF PoolRead, Sure
      <4> QED BY <4>1, <4>2
    <3> QED BY <3>2, <3>3 DEF PoolRead, Later
  <2>2. \A m \in Matchers : /\ pool[m] \in Pools /\ (a \in DOMAIN pool[m] => Busy(a))
                            /\ \A p \in pools[m] : p \in Pools /\ (a \in DOMAIN p => Busy(a))
    BY DEF Busy, QueueTyped, PassTyped
  <2>3. \A m \in Matchers : pool'[m] = pool[m] /\ pools'[m] = pools[m]
    BY <1>1 DEF passVars
  <2> QED BY <2>1, <2>2, <2>3 DEF PoolsAsRead
<1>9. \A m \in Matchers : a \in DOMAIN hold[m] => Busy(a)
  BY DEF Busy
<1>10. ClaimsAsRead'
  <2> SUFFICES ASSUME NEW m \in Matchers PROVE ClaimAsRead(m)'
    BY DEF ClaimsAsRead
  <2> ClaimAsRead(m)
    BY DEF ClaimsAsRead
  <2>1. DOMAIN hold[m] \subseteq Agents
    BY HoldTyped
  <2>2. hold'[m] = hold[m] /\ turn'[m] = turn[m] /\ made'[m] = made[m]
        /\ pool'[m] = pool[m] /\ last'[m] = last[m] /\ (Holds(m)' <=> Holds(m))
    BY <1>1 DEF passVars, Holds
  <2>3. ASSUME NEW x \in DOMAIN hold[m]
        PROVE  /\ hold[m][x] \in DOMAIN requests[x] /\ hold[m][x] \in DOMAIN requests'[x]
               /\ \A n \in DOMAIN requests'[x] : n > hold[m][x] => ~ Sure(x, n)'
    BY <1>3, <1>4, <1>5, <1>9, <2>1 DEF ClaimAsRead, Sure
  <2>4. ASSUME Holds(m), NEW x \in DOMAIN hold[m], Sure(x, hold[m][x])'
        PROVE  requests'[x][hold[m][x]] = pool[m][last[m].anchor].bid
    BY <1>4, <1>5, <2>1, <2>2, <2>3, <2>4 DEF ClaimAsRead
  <2> QED BY <1>1, <2>2, <2>3, <2>4 DEF ClaimAsRead, Sure
<1>11. OneHolder'
  BY <1>1, <1>5, <1>6 DEF OneHolder, passVars, Sure
<1>12. TablesApart' /\ TablesAsAsked'
  <2>1. ASSUME NEW t \in DOMAIN tables, NEW x \in DOMAIN tables[t].seats
        PROVE  /\ x \in Agents /\ tables[t].seats[x] \in DOMAIN requests[x]
               /\ tables[t].seats[x] \in DOMAIN requests'[x]
               /\ requests'[x][tables[t].seats[x]] = requests[x][tables[t].seats[x]]
    BY <1>4, SeatsTyped DEF TablesApart
  <2>2. TablesApart'
    BY <1>1, <1>5, <2>1 DEF TablesApart, Sure
  <2>3. TablesAsAsked'
    BY <1>1, <1>5, <2>1 DEF TablesAsAsked, Sure
  <2> QED BY <2>2, <2>3
<1>13. RowsAsAsked'
  BY <1>2, <1>7 DEF RowsAsAsked, Queued
<1>14. WaitingFree'
  <2> SUFFICES ASSUME NEW x \in Agents, row'[x].status = "waiting", Sure(x, Newest(x))'
               PROVE  ServedBy(x, Newest(x))' = {} /\ \A m \in Matchers : x \notin DOMAIN hold[m]
    BY <1>1 DEF WaitingFree, passVars
  <2>1. CASE x = a
    <3>1. ~ Busy(a)
      BY <1>2, <1>3, <2>1 DEF Sure
    <3>2. ServedBy(a, k) = {}
      BY <1>2, Serves DEF TablesApart
    <3> QED BY <1>2, <1>6, <1>9, <2>1, <3>1, <3>2
  <2>2. CASE x # a
    BY <1>2, <1>5, <1>6, <1>7, <2>2 DEF WaitingFree
  <2> QED BY <2>1, <2>2
<1>15. MatchedServed'
  <2> SUFFICES ASSUME NEW x \in Agents, row'[x].status = "matched", Sure(x, Newest(x))'
               PROVE  row'[x].table \in ServedBy(x, Newest(x))'
    BY DEF MatchedServed
  <2>1. x # a
    BY <1>7
  <2> QED BY <1>2, <1>5, <1>6, <1>7, <2>1 DEF MatchedServed
<1> QED BY <1>8, <1>10, <1>11, <1>12, <1>13, <1>14, <1>15

-----------------------------------------------------------------------------
(* The claim *)

LEMMA ClaimAsAsked ==
    ASSUME QueueSafe, NEW m \in Matchers, NEW g \in Picks(m), Claim(m, g), Claimable(Members(g))
    PROVE  PoolsAsRead' /\ ClaimsSafe' /\ RowsSafe'
<1> USE DEF QueueSafe, ClaimsSafe, RowsSafe
<1> DEFINE S == Members(g)
           h == [a \in S |-> Newest(a)]
<1>1. /\ turn[m] = "choose" /\ turn' = [turn EXCEPT ![m] = "create"] /\ ClaimRows(S)
      /\ hold' = [hold EXCEPT ![m] = h] /\ last' = [last EXCEPT ![m] = g]
      /\ UNCHANGED <<market, older, requests, doubtful, tables, clearing, pools, pool, used, made>>
  BY DEF Claim, Enter, Newest
<1>2. PoolRead(pool[m])
  BY DEF PoolsAsRead
<1>3. /\ g.anchor \in S /\ S \subseteq DOMAIN pool[m] /\ S \subseteq Agents
      /\ Cardinality(S) \in market.least .. market.target
      /\ \A a, b \in S : a # b => Owner[a] # Owner[b]
  BY <1>2, PickIs
<1>4. \A a \in Agents : /\ row'[a].bid = row[a].bid /\ row'[a].table = row[a].table
                        /\ row'[a].status = IF a \in S THEN "claimed" ELSE row[a].status
  BY <1>1, <1>3, ClaimedRows
<1>5. \A a \in S : row[a].status = "waiting"
  BY DEF Claimable
<1>6. \A a \in Agents : Newest(a)' = Newest(a)
  BY <1>1 DEF Newest
<1>7. \A a, n : (Sure(a, n)' <=> Sure(a, n)) /\ ServedBy(a, n)' = ServedBy(a, n)
  BY <1>1 DEF Sure, ServedBy
<1>8. hold'[m] = h /\ turn'[m] = "create" /\ last'[m] = g /\ Holds(m)'
  BY <1>1 DEF QueueTyped, PassTyped, Holds
<1>9. \A k \in Matchers \ {m} : Keeps(k)
  BY <1>1 DEF Keeps, Holds, QueueTyped, PassTyped
<1>10. \A a \in S : /\ h[a] = Newest(a) /\ Newest(a) \in DOMAIN requests[a]
                    /\ \A n \in DOMAIN requests[a] : ~ n > Newest(a)
                    /\ (Sure(a, Newest(a)) => requests[a][Newest(a)] = pool[m][g.anchor].bid)
  BY <1>2, <1>3, RequestsTyped DEF PoolRead
<1>11. DOMAIN h = S
  OBVIOUS
<1> HIDE DEF S, h
<1>12. ClaimsAsRead'
  <2> SUFFICES ASSUME NEW k \in Matchers PROVE ClaimAsRead(k)'
    BY DEF ClaimsAsRead
  <2> ClaimAsRead(k)
    BY DEF ClaimsAsRead
  <2>1. CASE k = m
    BY <1>1, <1>3, <1>7, <1>8, <1>10, <1>11, <2>1 DEF ClaimAsRead
  <2>2. CASE k # m
    BY <1>1, <1>7, <1>9, <2>2 DEF ClaimAsRead, Keeps
  <2> QED BY <2>1, <2>2
<1>13. OneHolder'
  <2>1. ASSUME NEW a \in S, Sure(a, Newest(a))
        PROVE  ServedBy(a, Newest(a)) = {} /\ \A k \in Matchers : a \notin DOMAIN hold[k]
    BY <1>3, <1>5, <2>1 DEF WaitingFree
  <2>2. \A k \in Matchers \ {m} : hold'[k] = hold[k] /\ (turn'[k] = "mark" <=> turn[k] = "mark")
    BY <1>9 DEF Keeps
  <2>3. ASSUME NEW k \in Matchers, NEW i \in Matchers, NEW a \in DOMAIN hold'[k] \cap DOMAIN hold'[i],
               k # i, hold'[k][a] = hold'[i][a], Sure(a, hold'[k][a])
        PROVE  FALSE
    <3>1. CASE k # m /\ i # m
      BY <2>2, <2>3, <3>1 DEF OneHolder
    <3>2. CASE k = m \/ i = m
      BY <1>8, <1>10, <1>11, <2>1, <2>2, <2>3, <3>2
    <3> QED BY <3>1, <3>2
  <2>4. ASSUME NEW k \in Matchers, NEW a \in DOMAIN hold'[k], Sure(a, hold'[k][a]), turn'[k] # "mark"
        PROVE  ServedBy(a, hold'[k][a]) = {}
    <3>1. CASE k # m
      BY <2>2, <2>4, <3>1 DEF OneHolder
    <3>2. CASE k = m
      BY <1>8, <1>10, <1>11, <2>1, <2>4, <3>2
    <3> QED BY <3>1, <3>2
  <2>5. \A k, i \in Matchers : \A a \in DOMAIN hold'[k] \cap DOMAIN hold'[i] :
            k = i \/ hold'[k][a] # hold'[i][a] \/ ~ Sure(a, hold[k][a])'
    BY <1>7, <2>3
  <2>6. \A k \in Matchers : \A a \in DOMAIN hold'[k] :
            Sure(a, hold[k][a])' /\ turn'[k] # "mark" => ServedBy(a, hold[k][a])' = {}
    BY <1>7, <2>4
  <2> QED BY <2>5, <2>6 DEF OneHolder
<1>14. TablesApart' /\ TablesAsAsked'
  BY <1>1 DEF TablesApart, TablesAsAsked, Sure
<1>15. RowsAsAsked'
  BY <1>1, <1>4, <1>5, <1>6 DEF RowsAsAsked, Queued
<1>16. WaitingFree'
  <2> SUFFICES ASSUME NEW a \in Agents, row'[a].status = "waiting", Sure(a, Newest(a))
               PROVE  ServedBy(a, Newest(a)) = {} /\ \A k \in Matchers : a \notin DOMAIN hold'[k]
    BY <1>6, <1>7 DEF WaitingFree
  <2>1. a \notin S /\ row[a].status = "waiting"
    BY <1>4
  <2>2. \A k \in Matchers \ {m} : hold'[k] = hold[k]
    BY <1>9 DEF Keeps
  <2> QED BY <1>8, <1>11, <2>1, <2>2 DEF WaitingFree
<1>17. MatchedServed'
  BY <1>4, <1>6, <1>7 DEF MatchedServed
<1>18. PoolsAsRead'
  BY <1>1, PoolsKept
<1> QED BY <1>12, <1>13, <1>14, <1>15, <1>16, <1>17, <1>18

LEMMA ClaimLostAsAsked ==
    ASSUME QueueSafe, NEW m \in Matchers, NEW g \in Picks(m),
           ClaimFails(m, g) \/ (Claim(m, g) /\ ~ Claimable(Members(g)))
    PROVE  PoolsAsRead' /\ ClaimsSafe' /\ RowsSafe'
<1> USE DEF QueueSafe
<1>1. /\ turn[m] = "choose" /\ last' = [last EXCEPT ![m] = g]
      /\ UNCHANGED <<market, requests, doubtful, tables, turn, pools, pool, hold, made>>
      /\ (Claimable(Members(g)) /\ ClaimRows(Members(g))) \/ UNCHANGED row
      /\ UNCHANGED <<older, clearing>>
  BY DEF Claim, ClaimFails
<1>2. Settled
  BY <1>1 DEF Settled
<1>3. \A k \in Matchers : Keeps(k)
  BY <1>1 DEF Keeps, Holds, QueueTyped, PassTyped
<1>4. Thinned
  <2>1. CASE Claimable(Members(g)) /\ ClaimRows(Members(g))
    <3>1. Members(g) \in SUBSET Agents
      BY PickIs DEF PoolsAsRead
    <3>2. \A a \in Agents : /\ row'[a].bid = row[a].bid /\ row'[a].table = row[a].table
                            /\ row'[a].status = IF a \in Members(g) THEN "claimed" ELSE row[a].status
      BY <1>1, <2>1, <3>1, ClaimedRows
    <3>3. \A a \in Members(g) : row[a].status # "none"
      BY <2>1 DEF Claimable
    <3> QED BY <3>2, <3>3 DEF Thinned
  <2>2. CASE UNCHANGED row
    BY <2>2 DEF Thinned
  <2> QED BY <1>1, <2>1, <2>2
<1>5. ClaimsSafe' /\ RowsSafe'
  BY <1>2, <1>3, <1>4, ClaimsKept, RowsKept DEF Keeps
<1>6. PoolsAsRead'
  BY <1>1, PoolsKept
<1> QED BY <1>5, <1>6

-----------------------------------------------------------------------------
(* The table, and the rows after it *)

\* The claim of an agent's newest request that can be told apart is of that request.
LEMMA ClaimIsNewest ==
    ASSUME QueueSafe, NEW m \in Matchers, NEW a \in DOMAIN hold[m], Sure(a, Newest(a))
    PROVE  a \in Agents /\ hold[m][a] = Newest(a)
<1>1. ClaimAsRead(m)
  BY DEF QueueSafe, ClaimsSafe, ClaimsAsRead
<1>2. a \in Agents
  BY HoldTyped DEF QueueSafe
<1>3. hold[m][a] \in DOMAIN requests[a] /\ (Newest(a) > hold[m][a] => Newest(a) \notin DOMAIN requests[a])
  BY <1>1 DEF ClaimAsRead
<1>4. Newest(a) \in Nat /\ DOMAIN requests[a] = 1 .. Newest(a)
  BY <1>2, RequestsTyped DEF QueueSafe
<1> QED BY <1>2, <1>3, <1>4

LEMMA TableAdded ==
    ASSUME QueueSafe, NEW m \in Matchers, turn[m] = "create", tables' = Append(tables, Table(m)),
           UNCHANGED <<market, row, older, requests, clearing, pools, pool, last, hold>>,
           doubtful \subseteq doubtful', turn' \in [Matchers -> Turns],
           \/ turn' = [turn EXCEPT ![m] = "mark"] /\ made' = [made EXCEPT ![m] = Len(tables) + 1]
           \/ /\ turn' = [turn EXCEPT ![m] = "release"] /\ UNCHANGED made
              /\ \A a \in DOMAIN hold[m] : <<a, hold[m][a]>> \in doubtful'
    PROVE  PoolsAsRead' /\ ClaimsSafe' /\ RowsSafe'
<1> USE DEF QueueSafe, ClaimsSafe, RowsSafe
<1>0. PICK u : u = Len(tables) + 1
  OBVIOUS
<1>1. Holds(m) /\ turn[m] # "mark" /\ ClaimAsRead(m)
  BY DEF Holds, ClaimsAsRead
<1>2. /\ Len(tables) \in Nat /\ DOMAIN tables = 1 .. Len(tables) /\ DOMAIN tables' = 1 .. u
      /\ u \notin DOMAIN tables /\ DOMAIN tables' = DOMAIN tables \cup {u}
      /\ tables'[u].seats = hold[m] /\ tables'[u].bid = pool[m][last[m].anchor].bid
      /\ \A t \in DOMAIN tables : tables'[t] = tables[t]
  <2>1. Table(m) \in TableRow /\ Table(m).seats = hold[m] /\ Table(m).bid = pool[m][last[m].anchor].bid
    BY <1>1, TableMade DEF Table
  <2> QED BY <1>0, <2>1, TablesGrown
<1>3. \A a, n : Sure(a, n)' => Sure(a, n)
  BY DEF Sure
<1>4. \A a, n : /\ (a \in DOMAIN hold[m] /\ hold[m][a] = n) \/ ServedBy(a, n)' = ServedBy(a, n)
                /\ ServedBy(a, n) \subseteq ServedBy(a, n)'
  BY <1>2 DEF ServedBy
<1>5. \A k \in Matchers : /\ hold'[k] = hold[k] /\ pool'[k] = pool[k] /\ last'[k] = last[k]
                          /\ Holds(k)' <=> Holds(k)
                          /\ k = m \/ (turn'[k] = turn[k] /\ made'[k] = made[k])
  BY <1>1 DEF Holds, QueueTyped, PassTyped
<1>6. turn'[m] = "mark" => made'[m] = u
  BY <1>0 DEF QueueTyped, PassTyped
<1>7. \A a \in Agents : Newest(a)' = Newest(a)
  BY DEF Newest
<1>8. ClaimsAsRead'
  <2> SUFFICES ASSUME NEW k \in Matchers PROVE ClaimAsRead(k)'
    BY DEF ClaimsAsRead
  <2> ClaimAsRead(k)
    BY DEF ClaimsAsRead
  <2>1. turn'[k] = "mark" => made'[k] \in DOMAIN tables' /\ tables'[made'[k]].seats = hold'[k]
    BY <1>2, <1>5, <1>6 DEF ClaimAsRead
  <2> QED BY <1>3, <1>5, <2>1 DEF ClaimAsRead
<1>9. OneHolder'
  <2>1. ASSUME NEW k \in Matchers, NEW a \in DOMAIN hold[k], <<a, hold[k][a]>> \notin doubtful',
               turn'[k] # "mark"
        PROVE  ServedBy(a, hold[k][a])' = {}
    <3>1. Sure(a, hold[k][a])
      BY <2>1 DEF Sure
    <3>2. k # m
      BY <2>1 DEF QueueTyped, PassTyped
    <3>3. ~ (a \in DOMAIN hold[m] /\ hold[m][a] = hold[k][a])
      BY <3>1, <3>2 DEF OneHolder
    <3>4. ServedBy(a, hold[k][a]) = {}
      BY <1>5, <2>1, <3>1, <3>2 DEF OneHolder
    <3>5. PICK n : n = hold[k][a]
      OBVIOUS
    <3>6. ServedBy(a, n)' = ServedBy(a, n)
      BY <1>4, <3>3, <3>5
    <3>7. hold'[k][a] = n
      BY <1>5, <3>5
    <3> QED BY <3>4, <3>5, <3>6, <3>7
  <2>2. \A k, i \in Matchers : \A a \in DOMAIN hold'[k] \cap DOMAIN hold'[i] :
            k = i \/ hold'[k][a] # hold'[i][a] \/ ~ Sure(a, hold[k][a])'
    BY <1>3, <1>5 DEF OneHolder, Sure
  <2>3. \A k \in Matchers : \A a \in DOMAIN hold'[k] :
            Sure(a, hold[k][a])' /\ turn'[k] # "mark" => ServedBy(a, hold[k][a])' = {}
    BY <1>5, <2>1 DEF Sure
  <2> QED BY <2>2, <2>3 DEF OneHolder
<1>10. TablesApart'
  <2>1. \A a \in DOMAIN hold[m] : hold[m][a] \in DOMAIN requests[a]
    BY <1>1 DEF ClaimAsRead
  <2>2. ASSUME NEW t \in DOMAIN tables, NEW a \in DOMAIN tables[t].seats \cap DOMAIN hold[m],
               tables[t].seats[a] = hold[m][a], Sure(a, hold[m][a])
        PROVE  FALSE
    <3>1. t \in ServedBy(a, hold[m][a])
      BY <2>2, Serves
    <3> QED BY <1>1, <2>2, <3>1 DEF OneHolder
  <2>3. \A t \in DOMAIN tables' : \A a \in DOMAIN tables'[t].seats :
            tables'[t].seats[a] \in DOMAIN requests'[a]
    BY <1>2, <2>1 DEF TablesApart
  <2>4. ASSUME NEW t \in DOMAIN tables', NEW v \in DOMAIN tables',
               NEW a \in DOMAIN tables'[t].seats \cap DOMAIN tables'[v].seats, t # v,
               tables'[t].seats[a] = tables'[v].seats[a]
        PROVE  ~ Sure(a, tables[t].seats[a])'
    <3> SUFFICES ASSUME <<a, tables'[t].seats[a]>> \notin doubtful' PROVE FALSE
      BY DEF Sure
    <3>1. Sure(a, tables'[t].seats[a])
      BY DEF Sure
    <3>2. CASE t = u
      <4>1. v \in DOMAIN tables /\ tables'[v] = tables[v] /\ tables'[t].seats = hold[m]
        BY <1>2, <2>4, <3>2
      <4>2. /\ a \in DOMAIN tables[v].seats \cap DOMAIN hold[m]
            /\ tables[v].seats[a] = hold[m][a] /\ Sure(a, hold[m][a])
        BY <2>4, <3>1, <4>1
      <4> QED BY <2>2, <4>1, <4>2
    <3>3. CASE v = u
      <4>1. t \in DOMAIN tables /\ tables'[t] = tables[t] /\ tables'[v].seats = hold[m]
        BY <1>2, <2>4, <3>3
      <4>2. /\ a \in DOMAIN tables[t].seats \cap DOMAIN hold[m]
            /\ tables[t].seats[a] = hold[m][a] /\ Sure(a, hold[m][a])
        BY <2>4, <3>1, <4>1
      <4> QED BY <2>2, <4>1, <4>2
    <3>4. CASE t # u /\ v # u
      BY <1>2, <2>4, <3>1, <3>4 DEF TablesApart
    <3> QED BY <3>2, <3>3, <3>4
  <2> QED BY <2>3, <2>4 DEF TablesApart
<1>11. TablesAsAsked'
  <2>1. /\ Cardinality(DOMAIN hold[m]) \in market.least .. market.target
        /\ \A a, b \in DOMAIN hold[m] : a # b => Owner[a] # Owner[b]
        /\ \A a \in DOMAIN hold[m] :
            Sure(a, hold[m][a]) => requests[a][hold[m][a]] = pool[m][last[m].anchor].bid
    BY <1>1 DEF ClaimAsRead
  <2> QED BY <1>2, <1>3, <2>1 DEF TablesAsAsked, Sure
<1>12. RowsAsAsked'
  BY <1>7 DEF RowsAsAsked, Queued
<1>13. WaitingFree'
  <2> SUFFICES ASSUME NEW a \in Agents, row[a].status = "waiting", Sure(a, Newest(a))'
               PROVE  ServedBy(a, Newest(a))' = {} /\ \A k \in Matchers : a \notin DOMAIN hold[k]
    BY <1>5 DEF WaitingFree
  <2>1. Sure(a, Newest(a))
    BY <1>7 DEF Sure
  <2>2. ServedBy(a, Newest(a)) = {} /\ \A k \in Matchers : a \notin DOMAIN hold[k]
    BY <2>1 DEF WaitingFree
  <2>3. \A n : ServedBy(a, n)' = ServedBy(a, n)
    BY <1>4, <2>2
  <2> QED BY <1>7, <2>2, <2>3
<1>14. MatchedServed'
  <2> SUFFICES ASSUME NEW a \in Agents, row[a].status = "matched", Sure(a, Newest(a))'
               PROVE  row[a].table \in ServedBy(a, Newest(a))'
    BY DEF MatchedServed
  <2>1. Sure(a, Newest(a))
    BY <1>7 DEF Sure
  <2> QED BY <1>4, <1>7, <2>1 DEF MatchedServed
<1>15. PoolsAsRead'
  BY PoolsKept
<1> QED BY <1>8, <1>9, <1>10, <1>11, <1>12, <1>13, <1>14, <1>15

LEMMA CreateAsAsked ==
    ASSUME QueueSafe, NEW m \in Matchers, Create(m) \/ CreateFails(m)
    PROVE  PoolsAsRead' /\ ClaimsSafe' /\ RowsSafe'
<1> USE DEF QueueSafe
<1>1. /\ turn[m] = "create" /\ doubtful \subseteq doubtful'
      /\ UNCHANGED <<market, row, older, requests, clearing, pools, pool, last, hold>>
  BY DEF Create, CreateFails, rowVars
<1>2. turn' \in [Matchers -> Turns]
  BY CreateTyped, CreateFailsTyped DEF QueueTyped, PassTyped
<1>3. CASE tables' = Append(tables, Table(m))
  BY <1>1, <1>2, <1>3, TableAdded DEF Create, CreateFails, Enter
<1>4. CASE tables' # Append(tables, Table(m))
  <2>1. turn' = [turn EXCEPT ![m] = "release"] /\ UNCHANGED <<tables, made, doubtful>>
    BY <1>4 DEF Create, CreateFails, Enter, rowVars
  <2>2. Settled /\ Thinned
    BY <1>1, <2>1 DEF Settled, Thinned
  <2>3. \A k \in Matchers : Keeps(k)
    BY <1>1, <2>1 DEF Keeps, Holds, QueueTyped, PassTyped
  <2>4. ClaimsSafe' /\ RowsSafe'
    BY <2>2, <2>3, ClaimsKept, RowsKept DEF Keeps
  <2>5. PoolsAsRead'
    BY <1>1, PoolsKept
  <2> QED BY <2>4, <2>5
<1> QED BY <1>3, <1>4

\* What matcher m held is let go; the others keep theirs.
LEMMA LetGoAsAsked ==
    ASSUME QueueSafe, NEW m \in Matchers, Release(m) \/ Mark(m)
    PROVE  /\ PoolsAsRead' /\ ClaimsSafe' /\ Settled /\ hold'[m] = NoClaim
           /\ \A k \in Matchers \ {m} : hold'[k] = hold[k]
           /\ \A a : Newest(a)' = Newest(a)
           /\ \A a, n : (Sure(a, n)' <=> Sure(a, n)) /\ ServedBy(a, n)' = ServedBy(a, n)
<1> USE DEF QueueSafe
<1>1. /\ turn' = [turn EXCEPT ![m] = "choose"] /\ hold' = [hold EXCEPT ![m] = NoClaim]
      /\ made' = made \/ made' = [made EXCEPT ![m] = 0]
      /\ UNCHANGED <<market, requests, doubtful, tables, pools, pool, last>>
  BY DEF Release, Mark, Enter
<1>2. Settled
  BY <1>1 DEF Settled
<1>3. Drops(m) /\ \A k \in Matchers \ {m} : Keeps(k)
  BY <1>1 DEF Drops, Keeps, Holds, QueueTyped, PassTyped
<1>4. ClaimsSafe'
  BY <1>2, <1>3, ClaimsKept
<1>5. PoolsAsRead'
  BY <1>1, PoolsKept
<1>6. \A a, n : (Sure(a, n)' <=> Sure(a, n)) /\ ServedBy(a, n)' = ServedBy(a, n)
  BY <1>1 DEF Sure, ServedBy
<1> QED BY <1>1, <1>2, <1>3, <1>4, <1>5, <1>6 DEF Newest, Drops, Keeps

LEMMA ReleaseAsAsked ==
    ASSUME QueueSafe, NEW m \in Matchers, Release(m)
    PROVE  PoolsAsRead' /\ ClaimsSafe' /\ RowsSafe'
<1> USE DEF QueueSafe, RowsSafe
<1>1. /\ PoolsAsRead' /\ ClaimsSafe' /\ Settled /\ hold'[m] = NoClaim
      /\ \A k \in Matchers \ {m} : hold'[k] = hold[k]
      /\ \A a : Newest(a)' = Newest(a)
      /\ \A a, n : (Sure(a, n)' <=> Sure(a, n)) /\ ServedBy(a, n)' = ServedBy(a, n)
  BY LetGoAsAsked
<1>2. CASE UNCHANGED row
  <2>1. Thinned
    BY <1>2 DEF Thinned
  <2> QED BY <1>1, <2>1, NoneHeld, RowsKept
<1>3. CASE SetClaimed(DOMAIN hold[m], "waiting", 0)
  <2>1. DOMAIN hold[m] \in SUBSET Agents /\ 0 \in 0 .. Len(tables)
    BY HoldTyped DEF QueueTyped, RowsTyped
  <2>2. UNCHANGED <<older, requests, tables, clearing>>
    BY DEF Release
  <2>3. \A a \in Agents : /\ row'[a].bid = row[a].bid
                          /\ IF a \in DOMAIN hold[m] /\ row[a].status = "claimed"
                             THEN row'[a].status = "waiting" /\ row'[a].table = 0
                             ELSE row'[a] = row[a]
    BY <1>3, <2>1, <2>2, StatusSet
  <2>4. RowsAsAsked'
    BY <1>1, <2>3 DEF RowsAsAsked, Queued, Settled
  <2>5. WaitingFree'
    <3> SUFFICES ASSUME NEW a \in Agents, row'[a].status = "waiting", Sure(a, Newest(a))
                 PROVE  ServedBy(a, Newest(a)) = {} /\ \A k \in Matchers : a \notin DOMAIN hold'[k]
      BY <1>1 DEF WaitingFree
    <3>1. CASE a \in DOMAIN hold[m]
      <4>1. hold[m][a] = Newest(a) /\ turn[m] # "mark"
        BY <3>1, ClaimIsNewest DEF Release
      <4>2. ServedBy(a, Newest(a)) = {}
        BY <3>1, <4>1 DEF OneHolder, ClaimsSafe
      <4>3. \A k \in Matchers \ {m} : a \notin DOMAIN hold[k]
        BY <3>1, <4>1, ClaimIsNewest DEF OneHolder, ClaimsSafe
      <4> QED BY <1>1, <4>2, <4>3, NoneHeld
    <3>2. CASE a \notin DOMAIN hold[m]
      BY <1>1, <2>3, <3>2, NoneHeld DEF WaitingFree
    <3> QED BY <3>1, <3>2
  <2>6. MatchedServed'
    BY <1>1, <2>3 DEF MatchedServed
  <2> QED BY <1>1, <2>4, <2>5, <2>6
<1> QED BY <1>2, <1>3 DEF Release, ReleaseRows

LEMMA MarkAsAsked ==
    ASSUME QueueSafe, NEW m \in Matchers, Mark(m)
    PROVE  PoolsAsRead' /\ ClaimsSafe' /\ RowsSafe'
<1> USE DEF QueueSafe, RowsSafe
<1>1. /\ PoolsAsRead' /\ ClaimsSafe' /\ Settled /\ hold'[m] = NoClaim
      /\ \A k \in Matchers \ {m} : hold'[k] = hold[k]
      /\ \A a : Newest(a)' = Newest(a)
      /\ \A a, n : (Sure(a, n)' <=> Sure(a, n)) /\ ServedBy(a, n)' = ServedBy(a, n)
  BY LetGoAsAsked
<1>2. CASE UNCHANGED row
  <2>1. Thinned
    BY <1>2 DEF Thinned
  <2> QED BY <1>1, <2>1, NoneHeld, RowsKept
<1>3. CASE SetClaimed(DOMAIN hold[m], "matched", made[m])
  <2>1. DOMAIN hold[m] \in SUBSET Agents
    BY HoldTyped
  <2>2. UNCHANGED <<older, requests, tables, clearing>> /\ turn[m] = "mark"
    BY DEF Mark
  <2>3. made[m] \in 0 .. Len(tables) /\ made[m] # 0
    BY <2>2 DEF QueueTyped, PassTyped
  <2>4. \A a \in Agents : /\ row'[a].bid = row[a].bid
                          /\ IF a \in DOMAIN hold[m] /\ row[a].status = "claimed"
                             THEN row'[a].status = "matched" /\ row'[a].table = made[m]
                             ELSE row'[a] = row[a]
    BY <1>3, <2>1, <2>2, <2>3, StatusSet
  <2>5. RowsAsAsked'
    BY <1>1, <2>4 DEF RowsAsAsked, Queued, Settled
  <2>6. WaitingFree'
    BY <1>1, <2>4, NoneHeld DEF WaitingFree
  <2>7. MatchedServed'
    <3>1. made[m] \in DOMAIN tables /\ tables[made[m]].seats = hold[m]
      BY <2>2 DEF ClaimsSafe, ClaimsAsRead, ClaimAsRead
    <3>2. ASSUME NEW a \in DOMAIN hold[m], Sure(a, Newest(a)) PROVE made[m] \in ServedBy(a, Newest(a))
      BY <3>1, <3>2, ClaimIsNewest, Serves
    <3> QED BY <1>1, <2>4, <3>2 DEF MatchedServed
  <2> QED BY <1>1, <2>5, <2>6, <2>7
<1> QED BY <1>2, <1>3 DEF Mark

-----------------------------------------------------------------------------
(* The theorems *)

LEMMA SafeInit == QueueInit => QueueSafe
<1> SUFFICES ASSUME QueueInit PROVE QueueSafe
  OBVIOUS
<1> USE DEF QueueInit
<1>1. tables = <<>> /\ Len(tables) = 0 /\ DOMAIN tables = {} /\ tables \in Seq(TableRow)
  OBVIOUS
<1>2. NoRow \in RowType(0) /\ NoRow.status = "none" /\ NoRow.table = 0
  BY DEF NoRow, RowType, Statuses
<1>3. Queued = {}
  BY <1>2 DEF Queued
<1>4. RowsTyped
  BY <1>1, <1>2 DEF RowsTyped
<1>5. InOrder
  BY <1>3 DEF InOrder
<1>6. PassTyped
  BY <1>1, NothingHeld DEF PassTyped, Turns, Holds
<1>7. QueueTyped
  BY <1>4, <1>5, <1>6, BoundsAssumption DEF QueueTyped
<1>8. PoolsAsRead
  BY DEF PoolsAsRead, PoolRead, NoPool
<1>9. ClaimsSafe
  BY <1>1, NoneHeld
     DEF ClaimsSafe, ClaimsAsRead, ClaimAsRead, Holds, OneHolder, TablesApart, TablesAsAsked
<1>10. RowsSafe
  BY <1>2, <1>3 DEF RowsSafe, RowsAsAsked, WaitingFree, MatchedServed
<1> QED BY <1>7, <1>8, <1>9, <1>10 DEF QueueSafe

LEMMA SafeStep == QueueSafe /\ [QueueNext]_queueVars => QueueSafe'
<1> SUFFICES ASSUME QueueSafe, [QueueNext]_queueVars PROVE QueueSafe'
  OBVIOUS
<1> USE DEF QueueSafe
<1>1. ASSUME NEW a \in Agents, NEW b \in Bids, Enqueue(a, b) PROVE QueueSafe'
  BY <1>1, EnqueueTyped, EnqueueAsAsked
<1>2. ASSUME NEW a \in Agents, Cancel(a) \/ Wait(a) \/ Clear(a) PROVE QueueSafe'
  BY <1>2, CancelTyped, WaitTyped, ClearTyped, AgentsAsAsked
<1>3. ASSUME NEW m \in Matchers, Snapshot(m) PROVE QueueSafe'
  <2>1. \A a \in Queued : row[a].bid \in Bids
    <3>1. ASSUME NEW a \in Queued PROVE row[a].bid \in Bids
      <4>1. a \in Agents /\ Newest(a) > 0 /\ row[a].bid = requests[a][Newest(a)]
        BY DEF RowsSafe, RowsAsAsked, Queued
      <4>2. requests[a] \in Seq(Bids)
        BY <4>1 DEF QueueTyped, RowsTyped
      <4> QED BY <4>1, <4>2 DEF Newest
    <3> QED BY <3>1
  <2> QED BY <1>3, <2>1, SnapshotTyped, SnapshotAsAsked
<1>4. ASSUME NEW m \in Matchers, NextPool(m) PROVE QueueSafe'
  BY <1>4, NextPoolTyped, NextPoolAsAsked
<1>5. ASSUME NEW m \in Matchers, NEW g \in Picks(m), Claim(m, g) \/ ClaimFails(m, g) PROVE QueueSafe'
  <2>1. PoolRead(pool[m])
    BY DEF PoolsAsRead
  <2>2. QueueTyped'
    BY <1>5, <2>1, ClaimTyped, ClaimFailsTyped
  <2> QED BY <1>5, <2>2, ClaimAsAsked, ClaimLostAsAsked
<1>6. ASSUME NEW m \in Matchers, Create(m) \/ CreateFails(m) PROVE QueueSafe'
  BY <1>6, CreateTyped, CreateFailsTyped, CreateAsAsked
<1>7. ASSUME NEW m \in Matchers, Release(m) PROVE QueueSafe'
  BY <1>7, ReleaseTyped, ReleaseAsAsked
<1>8. ASSUME NEW m \in Matchers, Mark(m) PROVE QueueSafe'
  BY <1>8, MarkTyped, MarkAsAsked
<1>9. ASSUME NEW m \in Matchers, MatcherDies(m) PROVE QueueSafe'
  BY <1>9, DiesTyped, DiesAsAsked
<1>10. ASSUME NEW t \in DOMAIN tables, NEW how \in {"finished", "aborted"}, End(t, how) \/ FinishFails(t)
       PROVE  QueueSafe'
  BY <1>10, EndTyped, EndAsAsked
<1>11. ASSUME Sweep PROVE QueueSafe'
  BY <1>11, SweepTyped, SweepAsAsked
<1>12. ASSUME UNCHANGED queueVars PROVE QueueSafe'
  <2>1. UNCHANGED <<market, mishaps, row, older, requests, doubtful, tables, clearing, passVars>>
    BY <1>12 DEF queueVars, rowVars
  <2>2. QueueTyped'
    BY <2>1, RowsSame, PassSame DEF QueueTyped
  <2>3. Settled /\ Thinned /\ \A k \in Matchers : Keeps(k)
    BY <2>1 DEF Settled, Thinned, Keeps, Holds, passVars
  <2>4. ClaimsSafe' /\ RowsSafe'
    BY <2>3, ClaimsKept, RowsKept DEF Keeps
  <2>5. PoolsAsRead'
    BY <2>1, PoolsKept DEF passVars
  <2> QED BY <2>2, <2>4, <2>5
<1>13. \A t \in DOMAIN tables : FinishFails(t) => QueueSafe'
  BY <1>10
<1> QED BY <1>1, <1>2, <1>3, <1>4, <1>5, <1>6, <1>7, <1>8, <1>9, <1>10, <1>11, <1>12, <1>13
        DEF QueueNext, Step

LEMMA QueueSafeAlways == QueueSpec => []QueueSafe
<1> QED BY SafeInit, SafeStep, PTL DEF QueueSpec

\* The rows, the matchers and the tables have their types; a row is matched exactly
\* when it names a table, a matcher holds rows exactly while it is at a table's
\* creation, its mark or its release, and the rows are in one order (enqueued_at),
\* whoever enqueues again, cancels or is cleared.
THEOREM QueueTypes == QueueSpec => []QueueTypeOK
<1>1. QueueSafe => QueueTypeOK
  <2> SUFFICES ASSUME QueueTyped PROVE QueueTypeOK
    BY DEF QueueSafe
  <2> QED BY DEF QueueTyped, QueueTypeOK, RowsTyped, RowType, InOrder, PassTyped, Holds
<1> QED BY <1>1, QueueSafeAlways, PTL

\* A request for an opponent is served by one table at most, for any number of
\* agents, owners, bids, matchers and servers, and any number of crashes and database
\* errors: FOR UPDATE in ClaimPair and ClaimGroup is enough, and no release, mark or
\* sweep, none of which asks who claimed a row, gives a request away twice.
THEOREM QueueOneTablePerRequest == QueueSpec => []OneTablePerRequest
<1>1. QueueSafe => OneTablePerRequest
  <2> SUFFICES ASSUME QueueSafe, NEW a \in Agents, NEW n \in DOMAIN requests[a], Sure(a, n)
               PROVE  Cardinality(ServedBy(a, n)) <= 1
    BY DEF OneTablePerRequest, Sure
  <2>1. \A t, u \in ServedBy(a, n) : t = u
    BY Serves DEF QueueSafe, ClaimsSafe, TablesApart
  <2>2. CASE ServedBy(a, n) = {}
    BY <2>2, FS_EmptySet
  <2>3. CASE ServedBy(a, n) # {}
    <3>1. PICK t : t \in ServedBy(a, n)
      BY <2>3
    <3>2. ServedBy(a, n) = {t}
      BY <2>1, <3>1
    <3>3. Cardinality({t}) = 1
      BY FS_Singleton
    <3> QED BY <3>2, <3>3
  <2> QED BY <2>2, <2>3
<1> QED BY <1>1, QueueSafeAlways, PTL

\* A table seats agents of distinct owners, as many as the game needs and no more, each
\* at the stake of the request that the table serves, though the row may have been
\* enqueued again since it was read; and the row of a seated agent names that table.
THEOREM QueueServedAsAsked == QueueSpec => []ServedAsAsked
<1>1. QueueSafe => ServedAsAsked
  <2> SUFFICES ASSUME QueueSafe PROVE ServedAsAsked
    OBVIOUS
  <2>1. TablesAsAsked /\ MatchedServed
    BY DEF QueueSafe, ClaimsSafe, RowsSafe
  <2> QED BY <2>1 DEF ServedAsAsked, TablesAsAsked, MatchedServed, Sure, Newest
<1> QED BY <1>1, QueueSafeAlways, PTL

-----------------------------------------------------------------------------
(* The ready check: types *)

\* What the deployments are.
LEMMA WorldType == TypeOK => world.sweepers \subseteq Sweepers /\ world.faults \subseteq FaultKinds
  BY DeploymentsAssumption DEF TypeOK

\* The table's seats are only ever marked, asked or given time; every sweeper is at a
\* step of the tick.
LEMMA TypeStep == TypeOK /\ [Next]_vars => TypeOK'
<1> SUFFICES ASSUME TypeOK, [Next]_vars PROVE TypeOK'
  OBVIOUS
<1> USE PolicyAssumption DEF TypeOK, Steps
<1>1. ASSUME NEW a \in Seats, AgentReady(a) PROVE TypeOK'
  BY <1>1, WorldType DEF AgentReady, MarkReady
<1>2. ASSUME NEW a \in Seats, WindowEnds(a) PROVE TypeOK'
  BY <1>2, WorldType DEF WindowEnds
<1>3. ASSUME NEW s \in world.sweepers, Tick(s) PROVE TypeOK'
  <2>1. pc' \in [Sweepers -> Steps]
    BY <1>3, WorldType DEF Tick, Goto
  <2>2. todo' \in [Sweepers -> SUBSET Seats]
    BY <1>3, WorldType DEF Tick, Goto, ToAsk, Live, Silent, Ready
  <2>3. sawStake' \in [Sweepers -> BOOLEAN]
    <3> DEFINE b == "stake" \in posted
    <3>1. sawStake' = sawStake \/ sawStake' = [sawStake EXCEPT ![s] = b]
      BY <1>3 DEF Tick
    <3>2. b \in BOOLEAN
      OBVIOUS
    <3> HIDE DEF b
    <3> QED BY <3>1, <3>2
  <2>4. UNCHANGED <<world, faults, status, seat, posted, queued>>
    BY <1>3 DEF Tick
  <2> QED BY <2>1, <2>2, <2>3, <2>4
<1>4. ASSUME NEW s \in world.sweepers, RecordAsk(s) PROVE TypeOK'
  <2>1. seat' \in [Seats -> [ready : BOOLEAN, asks : Nat, late : BOOLEAN]]
    <3> DEFINE a == Lowest(todo[s])
    <3>1. seat' = [seat EXCEPT ![a].asks = @ + 1, ![a].late = FALSE] \/ seat' = seat
      BY <1>4, WorldType DEF RecordAsk, CountAsk
    <3> HIDE DEF a
    <3>2. CASE a \in Seats
      <4> DEFINE r == [ready |-> seat[a].ready, asks |-> seat[a].asks + 1, late |-> FALSE]
      <4>1. r \in [ready : BOOLEAN, asks : Nat, late : BOOLEAN]
        BY <3>2
      <4>2. seat' = [seat EXCEPT ![a] = r] \/ seat' = seat
        BY <3>1, <3>2
      <4> HIDE DEF r
      <4> QED BY <4>1, <4>2
    <3>3. CASE a \notin Seats
      <4> seat' = seat
        BY <3>1, <3>3
      <4> QED OBVIOUS
    <3> QED BY <3>2, <3>3
  <2>2. pc' \in [Sweepers -> Steps] /\ todo' \in [Sweepers -> SUBSET Seats]
    BY <1>4, WorldType DEF RecordAsk, Goto
  <2>3. UNCHANGED <<world, faults, status, posted, queued, sawStake>>
    BY <1>4 DEF RecordAsk
  <2> QED BY <2>1, <2>2, <2>3
<1>5. ASSUME NEW s \in world.sweepers, AskReturns(s) PROVE TypeOK'
  <2>1. seat' \in [Seats -> [ready : BOOLEAN, asks : Nat, late : BOOLEAN]]
    <3> DEFINE a == Lowest(todo[s])
    <3>1. seat' = [seat EXCEPT ![a].ready = TRUE] \/ seat' = seat
      BY <1>5, WorldType DEF AskReturns, MarkReady
    <3> HIDE DEF a
    <3>2. CASE a \in Seats
      <4> DEFINE r == [seat[a] EXCEPT !.ready = TRUE]
      <4>1. r \in [ready : BOOLEAN, asks : Nat, late : BOOLEAN]
        BY <3>2
      <4>2. seat' = [seat EXCEPT ![a] = r] \/ seat' = seat
        BY <3>1, <3>2
      <4> HIDE DEF r
      <4> QED BY <4>1, <4>2
    <3>3. CASE a \notin Seats
      <4> seat' = seat
        BY <3>1, <3>3
      <4> QED OBVIOUS
    <3> QED BY <3>2, <3>3
  <2>2. pc' \in [Sweepers -> Steps] /\ todo' \in [Sweepers -> SUBSET Seats]
    BY <1>5, WorldType DEF AskReturns, Goto
  <2>3. UNCHANGED <<world, faults, status, posted, queued, sawStake>>
    BY <1>5 DEF AskReturns
  <2> QED BY <2>1, <2>2, <2>3
<1>6. ASSUME NEW s \in world.sweepers, Requeue(s) PROVE TypeOK'
  BY <1>6, WorldType DEF Requeue, Goto, Fault
<1>7. ASSUME NEW s \in world.sweepers, RequeueDone(s) PROVE TypeOK'
  BY <1>7, WorldType DEF RequeueDone, Goto
<1>8. ASSUME NEW s \in world.sweepers, Abandon(s) PROVE TypeOK'
  BY <1>8, WorldType DEF Abandon, Goto, SetStatus
<1>9. ASSUME NEW s \in world.sweepers, Stake(s) PROVE TypeOK'
  BY <1>9, WorldType DEF Stake, Goto, PostKey
<1>10. ASSUME NEW s \in world.sweepers, StakeRefused(s) PROVE TypeOK'
  BY <1>10, WorldType DEF StakeRefused, Goto
<1>11. ASSUME NEW s \in world.sweepers, StakeFails(s) PROVE TypeOK'
  <2>1. pc' \in [Sweepers -> Steps] /\ todo' \in [Sweepers -> SUBSET Seats]
    BY <1>11, WorldType DEF StakeFails, Goto
  <2>2. faults' \in 0 .. MaxFaults
    BY <1>11 DEF StakeFails, Fault
  <2>3. posted' \subseteq {"stake", "disburse"}
    BY <1>11 DEF StakeFails, PostKey
  <2>4. UNCHANGED <<world, status, seat, queued, sawStake>>
    BY <1>11 DEF StakeFails
  <2> QED BY <2>1, <2>2, <2>3, <2>4
<1>12. ASSUME NEW s \in world.sweepers, Activate(s) PROVE TypeOK'
  BY <1>12, WorldType DEF Activate, Goto, SetStatus
<1>13. ASSUME NEW s \in world.sweepers, ActivateLost(s) PROVE TypeOK'
  BY <1>13, WorldType DEF ActivateLost, Goto
<1>14. ASSUME NEW s \in world.sweepers, ActivateFails(s) PROVE TypeOK'
  BY <1>14, WorldType DEF ActivateFails, Goto, Fault, SetStatus
<1>15. ASSUME NEW s \in world.sweepers, Refund(s) PROVE TypeOK'
  BY <1>15, WorldType DEF Refund, Goto, PostKey
<1>16. ASSUME NEW s \in world.sweepers, TickFails(s) PROVE TypeOK'
  BY <1>16, WorldType DEF TickFails, Goto, Fault
<1>17. ASSUME NEW s \in world.sweepers, Crash(s) PROVE TypeOK'
  BY <1>17, WorldType DEF Crash, Goto, Fault
<1>18. ASSUME UNCHANGED vars PROVE TypeOK'
  BY <1>18, WorldType DEF vars
<1> QED BY <1>1, <1>2, <1>3, <1>4, <1>5, <1>6, <1>7, <1>8, <1>9, <1>10, <1>11, <1>12,
    <1>13, <1>14, <1>15, <1>16, <1>17, <1>18
    DEF Next, Progress

\* In every behaviour the variables have their types.
THEOREM ReadyTypes == Spec => []TypeOK
<1>1. ASSUME Init PROVE TypeOK
  <2>1. seat \in [Seats -> [ready : BOOLEAN, asks : Nat, late : BOOLEAN]]
    BY <1>1 DEF Init
  <2>2. pc \in [Sweepers -> Steps] /\ todo \in [Sweepers -> SUBSET Seats]
    BY <1>1 DEF Init, Steps
  <2>3. sawStake \in [Sweepers -> BOOLEAN]
    BY <1>1 DEF Init
  <2>4. faults \in 0 .. MaxFaults
    BY <1>1, PolicyAssumption DEF Init
  <2> QED BY <1>1, <2>1, <2>2, <2>3, <2>4 DEF Init, TypeOK
<1> QED BY <1>1, TypeStep, PTL DEF Spec

-----------------------------------------------------------------------------
(* Who stakes, and when. *)

\* Processes that are not deployed do nothing.
AbsentIdle == \A s \in Sweepers \ world.sweepers : pc[s] = "idle"

\* Only a deployed sweeper takes a step.
LEMMA AbsentStep == TypeOK /\ AbsentIdle /\ [Next]_vars => AbsentIdle'
<1> SUFFICES ASSUME TypeOK, AbsentIdle, [Next]_vars PROVE AbsentIdle'
  OBVIOUS
<1> USE DEF TypeOK, AbsentIdle
<1>1. ASSUME NEW a \in Seats, AgentReady(a) PROVE AbsentIdle'
  BY <1>1, WorldType DEF AgentReady, MarkReady
<1>2. ASSUME NEW a \in Seats, WindowEnds(a) PROVE AbsentIdle'
  BY <1>2, WorldType DEF WindowEnds
<1>3. ASSUME NEW s \in world.sweepers, Tick(s) PROVE AbsentIdle'
  BY <1>3, WorldType DEF Tick, Goto, Decision, Live, ToAsk
<1>4. ASSUME NEW s \in world.sweepers, RecordAsk(s) PROVE AbsentIdle'
  BY <1>4, WorldType DEF RecordAsk, Goto, CountAsk
<1>5. ASSUME NEW s \in world.sweepers, AskReturns(s) PROVE AbsentIdle'
  BY <1>5, WorldType DEF AskReturns, Goto, MarkReady
<1>6. ASSUME NEW s \in world.sweepers, Requeue(s) PROVE AbsentIdle'
  BY <1>6, WorldType DEF Requeue, Goto, Fault
<1>7. ASSUME NEW s \in world.sweepers, RequeueDone(s) PROVE AbsentIdle'
  BY <1>7, WorldType DEF RequeueDone, Goto
<1>8. ASSUME NEW s \in world.sweepers, Abandon(s) PROVE AbsentIdle'
  BY <1>8, WorldType DEF Abandon, Goto, SetStatus
<1>9. ASSUME NEW s \in world.sweepers, Stake(s) PROVE AbsentIdle'
  BY <1>9, WorldType DEF Stake, Goto, PostKey
<1>10. ASSUME NEW s \in world.sweepers, StakeRefused(s) PROVE AbsentIdle'
  BY <1>10, WorldType DEF StakeRefused, Goto
<1>11. ASSUME NEW s \in world.sweepers, StakeFails(s) PROVE AbsentIdle'
  BY <1>11, WorldType DEF StakeFails, Goto, Fault, PostKey
<1>12. ASSUME NEW s \in world.sweepers, Activate(s) PROVE AbsentIdle'
  BY <1>12, WorldType DEF Activate, Goto, SetStatus
<1>13. ASSUME NEW s \in world.sweepers, ActivateLost(s) PROVE AbsentIdle'
  BY <1>13, WorldType DEF ActivateLost, Goto
<1>14. ASSUME NEW s \in world.sweepers, ActivateFails(s) PROVE AbsentIdle'
  BY <1>14, WorldType DEF ActivateFails, Goto, Fault, SetStatus
<1>15. ASSUME NEW s \in world.sweepers, Refund(s) PROVE AbsentIdle'
  BY <1>15, WorldType DEF Refund, Goto, PostKey
<1>16. ASSUME NEW s \in world.sweepers, TickFails(s) PROVE AbsentIdle'
  BY <1>16, WorldType DEF TickFails, Goto, Fault
<1>17. ASSUME NEW s \in world.sweepers, Crash(s) PROVE AbsentIdle'
  BY <1>17, WorldType DEF Crash, Goto, Fault
<1>18. ASSUME UNCHANGED vars PROVE AbsentIdle'
  BY <1>18, WorldType DEF vars
<1> QED BY <1>1, <1>2, <1>3, <1>4, <1>5, <1>6, <1>7, <1>8, <1>9, <1>10, <1>11, <1>12,
    <1>13, <1>14, <1>15, <1>16, <1>17, <1>18
    DEF Next, Progress

\* A sweeper comes to the stake only when every seat said it is there, and past the
\* stake only when that is posted.
StakedFirst ==
    /\ \A s \in Sweepers : pc[s] = "stake" => Ready = Seats
    /\ \A s \in Sweepers : pc[s] \in {"activate", "refund"} => "stake" \in posted
    /\ "stake" \in posted => Ready = Seats
    /\ NoBorrowedEscrow

\* Nobody unsays that he is ready, and nothing is posted twice or taken back: what a
\* sweeper found at its tick still holds when it stakes, however late that is.
LEMMA StakedFirstStep == TypeOK /\ AbsentIdle /\ StakedFirst /\ [Next]_vars => StakedFirst'
<1> SUFFICES ASSUME TypeOK, AbsentIdle, StakedFirst, [Next]_vars PROVE StakedFirst'
  OBVIOUS
<1> USE DEF TypeOK, AbsentIdle, StakedFirst, NoBorrowedEscrow, Ready
<1>1. ASSUME NEW a \in Seats, AgentReady(a) PROVE StakedFirst'
  BY <1>1, WorldType DEF AgentReady, MarkReady
<1>2. ASSUME NEW a \in Seats, WindowEnds(a) PROVE StakedFirst'
  BY <1>2, WorldType DEF WindowEnds
<1>3. ASSUME NEW s \in world.sweepers, Tick(s) PROVE StakedFirst'
  BY <1>3, WorldType DEF Tick, Goto, Decision, Live, ToAsk
<1>4. ASSUME NEW s \in world.sweepers, RecordAsk(s) PROVE StakedFirst'
  BY <1>4, WorldType DEF RecordAsk, Goto, CountAsk
<1>5. ASSUME NEW s \in world.sweepers, AskReturns(s) PROVE StakedFirst'
  BY <1>5, WorldType DEF AskReturns, Goto, MarkReady
<1>6. ASSUME NEW s \in world.sweepers, Requeue(s) PROVE StakedFirst'
  BY <1>6, WorldType DEF Requeue, Goto, Fault
<1>7. ASSUME NEW s \in world.sweepers, RequeueDone(s) PROVE StakedFirst'
  BY <1>7, WorldType DEF RequeueDone, Goto
<1>8. ASSUME NEW s \in world.sweepers, Abandon(s) PROVE StakedFirst'
  BY <1>8, WorldType DEF Abandon, Goto, SetStatus
<1>9. ASSUME NEW s \in world.sweepers, Stake(s) PROVE StakedFirst'
  BY <1>9, WorldType DEF Stake, Goto, PostKey
<1>10. ASSUME NEW s \in world.sweepers, StakeRefused(s) PROVE StakedFirst'
  BY <1>10, WorldType DEF StakeRefused, Goto
<1>11. ASSUME NEW s \in world.sweepers, StakeFails(s) PROVE StakedFirst'
  BY <1>11, WorldType DEF StakeFails, Goto, Fault, PostKey
<1>12. ASSUME NEW s \in world.sweepers, Activate(s) PROVE StakedFirst'
  BY <1>12, WorldType DEF Activate, Goto, SetStatus
<1>13. ASSUME NEW s \in world.sweepers, ActivateLost(s) PROVE StakedFirst'
  BY <1>13, WorldType DEF ActivateLost, Goto
<1>14. ASSUME NEW s \in world.sweepers, ActivateFails(s) PROVE StakedFirst'
  BY <1>14, WorldType DEF ActivateFails, Goto, Fault, SetStatus
<1>15. ASSUME NEW s \in world.sweepers, Refund(s) PROVE StakedFirst'
  BY <1>15, WorldType DEF Refund, Goto, PostKey
<1>16. ASSUME NEW s \in world.sweepers, TickFails(s) PROVE StakedFirst'
  BY <1>16, WorldType DEF TickFails, Goto, Fault
<1>17. ASSUME NEW s \in world.sweepers, Crash(s) PROVE StakedFirst'
  BY <1>17, WorldType DEF Crash, Goto, Fault
<1>18. ASSUME UNCHANGED vars PROVE StakedFirst'
  BY <1>18, WorldType DEF vars
<1> QED BY <1>1, <1>2, <1>3, <1>4, <1>5, <1>6, <1>7, <1>8, <1>9, <1>10, <1>11, <1>12,
    <1>13, <1>14, <1>15, <1>16, <1>17, <1>18
    DEF Next, Progress

\* Nothing is staked before every seat said it is there, and nothing refunded before it
\* was staked, whatever fails and however many sweepers race.
THEOREM ReadyStakedFirst == Spec => [](AbsentIdle /\ StakedFirst)
<1>1. Init => AbsentIdle /\ StakedFirst
  BY DEF Init, AbsentIdle, StakedFirst, NoBorrowedEscrow
<1> QED BY <1>1, AbsentStep, StakedFirstStep, ReadyTypes, PTL DEF Spec

\* The escrow of other tables is never paid out: a refund follows a stake.
THEOREM ReadyNoBorrowedEscrow == Spec => []NoBorrowedEscrow
<1>1. StakedFirst => NoBorrowedEscrow
  BY DEF StakedFirst
<1> QED BY <1>1, ReadyStakedFirst, PTL

-----------------------------------------------------------------------------
(* One sweeper. *)

\* A set of one sweeper is that sweeper's.
LEMMA OneSweeper ==
    ASSUME TypeOK, Cardinality(world.sweepers) = 1
    PROVE  \E s \in Sweepers : world.sweepers = {s}
<1>1. world.sweepers \subseteq Sweepers /\ IsFiniteSet(world.sweepers)
  BY WorldType, SweepersAssumption, FS_Subset
<1>2. PICK s : world.sweepers = {s}
  BY <1>1, FS_Singleton
<1> QED BY <1>1, <1>2

\* A single sweeper decides a table at the end of its tick, and knows whether it has
\* staked: whatever it goes back on was not staked.
Alone(s) == world.sweepers = {s} /\ "database" \notin world.faults

SoloSweeper ==
    \A s \in Sweepers : Alone(s) =>
        /\ pc[s] # "idle" => status = "ready_check"
        /\ pc[s] # "refund" /\ "disburse" \notin posted
        /\ pc[s] = "stake" => (sawStake[s] <=> "stake" \in posted)
        /\ pc[s] \in {"requeue", "abandon"} \/ status = "aborted" => posted = {}
        /\ status = "active" => posted = {"stake"}

\* Whom no other sweeper and no database betrays is not surprised: at the stake it knows
\* whether that is posted, so that a refusal means that nothing was taken.
LEMMA SoloStep == TypeOK /\ AbsentIdle /\ StakedFirst /\ SoloSweeper /\ [Next]_vars => SoloSweeper'
<1> SUFFICES ASSUME TypeOK, AbsentIdle, StakedFirst, SoloSweeper,
    [Next]_vars PROVE SoloSweeper'
  OBVIOUS
<1> USE DEF TypeOK, AbsentIdle, StakedFirst, NoBorrowedEscrow, SoloSweeper, Alone
<1>1. ASSUME NEW a \in Seats, AgentReady(a) PROVE SoloSweeper'
  BY <1>1, WorldType DEF AgentReady, MarkReady
<1>2. ASSUME NEW a \in Seats, WindowEnds(a) PROVE SoloSweeper'
  BY <1>2, WorldType DEF WindowEnds
<1>3. ASSUME NEW s \in world.sweepers, Tick(s) PROVE SoloSweeper'
  <2>1. ASSUME "stake" \in posted PROVE Decision = "start"
    <3>0. Ready = Seats
      BY <2>1
    <3>1. Silent = {}
      <4> \A a \in Seats : seat[a].ready
        BY <3>0 DEF Ready
      <4> QED BY Zenon DEF Silent
    <3>2. Live = Seats
      BY <3>1 DEF Live
    <3>3. Cardinality(Ready) >= MinReady
      BY <3>0, PolicyAssumption, SeatsAssumption, FS_CardinalityType
    <3> QED BY <3>0, <3>1, <3>2, <3>3 DEF Decision
  <2>2. status = "ready_check" /\ UNCHANGED <<world, status, seat, posted>>
    BY <1>3 DEF Tick
  <2>3. CASE Decision # "start"
    <3>1. posted = {}
      BY <2>1, <2>3
    <3>2. pc'[s] \in {"ask", "requeue"} /\ sawStake' = sawStake
      BY <1>3, <2>3, WorldType DEF Tick, Goto
    <3> QED BY <1>3, <2>2, <3>1, <3>2, WorldType DEF Tick, Goto
  <2>4. CASE Decision = "start"
    <3>1. pc' = [pc EXCEPT ![s] = "stake"] /\ sawStake' = [sawStake EXCEPT ![s] = "stake" \in posted]
      BY <1>3, <2>4 DEF Tick, Goto
    <3> QED BY <1>3, <2>2, <3>1, WorldType
  <2> QED BY <2>3, <2>4
<1>4. ASSUME NEW s \in world.sweepers, RecordAsk(s) PROVE SoloSweeper'
  BY <1>4, WorldType DEF RecordAsk, Goto, CountAsk
<1>5. ASSUME NEW s \in world.sweepers, AskReturns(s) PROVE SoloSweeper'
  BY <1>5, WorldType DEF AskReturns, Goto, MarkReady
<1>6. ASSUME NEW s \in world.sweepers, Requeue(s) PROVE SoloSweeper'
  BY <1>6, WorldType DEF Requeue, Goto, Fault
<1>7. ASSUME NEW s \in world.sweepers, RequeueDone(s) PROVE SoloSweeper'
  BY <1>7, WorldType DEF RequeueDone, Goto
<1>8. ASSUME NEW s \in world.sweepers, Abandon(s) PROVE SoloSweeper'
  BY <1>8, WorldType DEF Abandon, Goto, SetStatus
<1>9. ASSUME NEW s \in world.sweepers, Stake(s) PROVE SoloSweeper'
  BY <1>9, WorldType DEF Stake, Goto, PostKey
<1>10. ASSUME NEW s \in world.sweepers, StakeRefused(s) PROVE SoloSweeper'
  BY <1>10, WorldType DEF StakeRefused, Goto
<1>11. ASSUME NEW s \in world.sweepers, StakeFails(s) PROVE SoloSweeper'
  BY <1>11, WorldType DEF StakeFails, Goto, Fault, PostKey
<1>12. ASSUME NEW s \in world.sweepers, Activate(s) PROVE SoloSweeper'
  <2>1. "stake" \in posted /\ UNCHANGED <<world, posted>>
    BY <1>12, WorldType DEF Activate
  <2>2. pc' = [pc EXCEPT ![s] = "idle"] /\ status' = "active"
    BY <1>12 DEF Activate, Goto, SetStatus
  <2>3. ASSUME "disburse" \notin posted PROVE posted = {"stake"}
    BY <2>1, <2>3
  <2> QED BY <2>1, <2>2, <2>3, WorldType
<1>13. ASSUME NEW s \in world.sweepers, ActivateLost(s) PROVE SoloSweeper'
  BY <1>13, WorldType DEF ActivateLost, Goto
<1>14. ASSUME NEW s \in world.sweepers, ActivateFails(s) PROVE SoloSweeper'
  BY <1>14, WorldType DEF ActivateFails, Goto, Fault, SetStatus
<1>15. ASSUME NEW s \in world.sweepers, Refund(s) PROVE SoloSweeper'
  BY <1>15, WorldType DEF Refund, Goto, PostKey
<1>16. ASSUME NEW s \in world.sweepers, TickFails(s) PROVE SoloSweeper'
  BY <1>16, WorldType DEF TickFails, Goto, Fault
<1>17. ASSUME NEW s \in world.sweepers, Crash(s) PROVE SoloSweeper'
  BY <1>17, WorldType DEF Crash, Goto, Fault
<1>18. ASSUME UNCHANGED vars PROVE SoloSweeper'
  BY <1>18, WorldType DEF vars
<1> QED BY <1>1, <1>2, <1>3, <1>4, <1>5, <1>6, <1>7, <1>8, <1>9, <1>10, <1>11, <1>12,
    <1>13, <1>14, <1>15, <1>16, <1>17, <1>18
    DEF Next, Progress

\* Through every crash of its only process a table is in step with its stakes.
THEOREM ReadySoloSweeper == Spec => []SoloSweeper
<1>1. Init => SoloSweeper
  BY DEF Init, SoloSweeper, Alone
<1> QED BY <1>1, SoloStep, ReadyTypes, ReadyStakedFirst, PTL DEF Spec

\* A table that is played has its stakes in escrow and one that was given up has none
\* left there, wherever the one sweeper dies and however often.
THEOREM ReadyFundedThroughCrashes == Spec => []FundedThroughCrashes
<1>1. TypeOK /\ SoloSweeper => FundedThroughCrashes
  <2> SUFFICES ASSUME TypeOK, SoloSweeper, Dependable PROVE ActiveIsFunded /\ AbortedIsRefunded
    BY DEF FundedThroughCrashes
  <2>1. PICK s \in Sweepers : Alone(s)
    BY OneSweeper DEF Dependable, Alone
  <2>2. /\ status = "active" => posted = {"stake"}
        /\ status = "aborted" => posted = {}
    BY <2>1 DEF SoloSweeper
  <2> QED BY <2>2 DEF ActiveIsFunded, AbortedIsRefunded
<1> QED BY <1>1, ReadyTypes, ReadySoloSweeper, PTL

\* A single sweeper to which nothing happens finishes what it began: once a seat is back in
\* the queue, the table is given up.
SmoothSweeper ==
    \A s \in Sweepers : world.sweepers = {s} /\ faults = 0 =>
        /\ pc[s] # "idle" => status = "ready_check"
        /\ "stake" \in posted => queued = {} /\ (pc[s] = "activate" \/ status = "active")
        /\ pc[s] \in {"stake", "activate"} => queued = {}
        /\ queued # {} => pc[s] \in {"requeue", "abandon"} \/ status = "aborted"

\* A tick that nothing interrupts either starts the table or gives it up.
LEMMA SmoothStep == TypeOK /\ AbsentIdle /\ StakedFirst /\ SmoothSweeper /\ [Next]_vars => SmoothSweeper'
<1> SUFFICES ASSUME TypeOK, AbsentIdle, StakedFirst, SmoothSweeper,
    [Next]_vars PROVE SmoothSweeper'
  OBVIOUS
<1> USE DEF TypeOK, AbsentIdle, StakedFirst, NoBorrowedEscrow, SmoothSweeper
<1>1. ASSUME NEW a \in Seats, AgentReady(a) PROVE SmoothSweeper'
  BY <1>1, WorldType DEF AgentReady, MarkReady
<1>2. ASSUME NEW a \in Seats, WindowEnds(a) PROVE SmoothSweeper'
  BY <1>2, WorldType DEF WindowEnds
<1>3. ASSUME NEW s \in world.sweepers, Tick(s) PROVE SmoothSweeper'
  BY <1>3, WorldType DEF Tick, Goto, Decision, Live, ToAsk
<1>4. ASSUME NEW s \in world.sweepers, RecordAsk(s) PROVE SmoothSweeper'
  BY <1>4, WorldType DEF RecordAsk, Goto, CountAsk
<1>5. ASSUME NEW s \in world.sweepers, AskReturns(s) PROVE SmoothSweeper'
  BY <1>5, WorldType DEF AskReturns, Goto, MarkReady
<1>6. ASSUME NEW s \in world.sweepers, Requeue(s) PROVE SmoothSweeper'
  BY <1>6, WorldType DEF Requeue, Goto, Fault
<1>7. ASSUME NEW s \in world.sweepers, RequeueDone(s) PROVE SmoothSweeper'
  BY <1>7, WorldType DEF RequeueDone, Goto
<1>8. ASSUME NEW s \in world.sweepers, Abandon(s) PROVE SmoothSweeper'
  BY <1>8, WorldType DEF Abandon, Goto, SetStatus
<1>9. ASSUME NEW s \in world.sweepers, Stake(s) PROVE SmoothSweeper'
  BY <1>9, WorldType DEF Stake, Goto, PostKey
<1>10. ASSUME NEW s \in world.sweepers, StakeRefused(s) PROVE SmoothSweeper'
  BY <1>10, WorldType DEF StakeRefused, Goto
<1>11. ASSUME NEW s \in world.sweepers, StakeFails(s) PROVE SmoothSweeper'
  BY <1>11, WorldType DEF StakeFails, Goto, Fault, PostKey
<1>12. ASSUME NEW s \in world.sweepers, Activate(s) PROVE SmoothSweeper'
  BY <1>12, WorldType DEF Activate, Goto, SetStatus
<1>13. ASSUME NEW s \in world.sweepers, ActivateLost(s) PROVE SmoothSweeper'
  BY <1>13, WorldType DEF ActivateLost, Goto
<1>14. ASSUME NEW s \in world.sweepers, ActivateFails(s) PROVE SmoothSweeper'
  BY <1>14, WorldType DEF ActivateFails, Goto, Fault, SetStatus
<1>15. ASSUME NEW s \in world.sweepers, Refund(s) PROVE SmoothSweeper'
  BY <1>15, WorldType DEF Refund, Goto, PostKey
<1>16. ASSUME NEW s \in world.sweepers, TickFails(s) PROVE SmoothSweeper'
  BY <1>16, WorldType DEF TickFails, Goto, Fault
<1>17. ASSUME NEW s \in world.sweepers, Crash(s) PROVE SmoothSweeper'
  BY <1>17, WorldType DEF Crash, Goto, Fault
<1>18. ASSUME UNCHANGED vars PROVE SmoothSweeper'
  BY <1>18, WorldType DEF vars
<1> QED BY <1>1, <1>2, <1>3, <1>4, <1>5, <1>6, <1>7, <1>8, <1>9, <1>10, <1>11, <1>12,
    <1>13, <1>14, <1>15, <1>16, <1>17, <1>18
    DEF Next, Progress

\* A single sweeper that nothing goes wrong with keeps a started table out of the queue.
THEOREM ReadySmoothSweeper == Spec => []SmoothSweeper
<1>1. Init => SmoothSweeper
  BY DEF Init, SmoothSweeper
<1> QED BY <1>1, SmoothStep, ReadyTypes, ReadyStakedFirst, PTL DEF Spec

\* No seat's coins are taken before every seat said it is there, and a seat that was put
\* back into the queue is not staked as well.
THEOREM ReadyConsentBeforeStake == Spec => []ConsentBeforeStake
<1>1. TypeOK /\ StakedFirst /\ SmoothSweeper => ConsentBeforeStake
  <2> SUFFICES ASSUME TypeOK, StakedFirst, SmoothSweeper, "stake" \in posted
               PROVE  /\ Ready = Seats /\ Cardinality(Ready) >= MinReady
                      /\ Cardinality(world.sweepers) = 1 /\ faults = 0 => queued = {}
    BY DEF ConsentBeforeStake
  <2>1. Ready = Seats
    BY DEF StakedFirst
  <2>2. Cardinality(Ready) >= MinReady
    BY <2>1, PolicyAssumption, SeatsAssumption, FS_CardinalityType
  <2>3. ASSUME Cardinality(world.sweepers) = 1, faults = 0 PROVE queued = {}
    <3>1. PICK s \in Sweepers : world.sweepers = {s}
      BY <2>3, OneSweeper
    <3> QED BY <2>3, <3>1 DEF SmoothSweeper
  <2> QED BY <2>1, <2>2, <2>3
<1> QED BY <1>1, ReadyTypes, ReadyStakedFirst, ReadySmoothSweeper, PTL
=============================================================================
