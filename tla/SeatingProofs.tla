---------------------------- MODULE SeatingProofs ----------------------------
(***************************************************************************)
(* What module Seating checks with two requests at three tables holds for  *)
(* any number of requests, agents and tables, whatever lapses, dies or     *)
(* fails.                                                                  *)
(***************************************************************************)
EXTENDS Seating, SequenceTheorems, FiniteSetTheorems, TLAPS

-----------------------------------------------------------------------------
(* The shape of the state *)

\* What money does: a transaction debits or credits those it names, or none.
LEMMA AdjustType ==
    ASSUME balance \in [Agents -> Nat], NEW S, NEW n \in Int, \A x \in S : balance[x] + n >= 0
    PROVE  Adjust(S, n) \in [Agents -> Nat]
  BY DEF Adjust

\* The players at a table are finitely many, whatever Agents is.
LEMMA SeatsFinite ==
    ASSUME NEW s \in Seq(Agents)
    PROVE  IsFiniteSet(ToSet(s)) /\ IsFiniteSet(Humans(s)) /\ Cardinality(Humans(s)) \in Nat
<1>1. DOMAIN s = 1 .. Len(s) /\ IsFiniteSet(DOMAIN s)
  BY FS_Interval
<1>2. s \in Surjection(DOMAIN s, ToSet(s))
  BY DEF Surjection, ToSet
<1>3. IsFiniteSet(ToSet(s))
  BY <1>1, <1>2, FS_Surjection
<1> QED BY <1>3, FS_Subset, FS_CardinalityType DEF Humans

\* What Append does to a list of players.
LEMMA Appended ==
    ASSUME NEW s \in Seq(Agents), NEW x \in Agents
    PROVE  /\ Append(s, x) \in Seq(Agents) /\ Len(Append(s, x)) = Len(s) + 1
           /\ DOMAIN Append(s, x) = 1 .. Len(s) + 1 /\ DOMAIN s = 1 .. Len(s)
           /\ \A i \in 1 .. Len(s) : Append(s, x)[i] = s[i]
           /\ Append(s, x)[Len(s) + 1] = x
           /\ ToSet(Append(s, x)) = ToSet(s) \cup {x}
<1>1. /\ Append(s, x) \in Seq(Agents) /\ Len(Append(s, x)) = Len(s) + 1
      /\ DOMAIN Append(s, x) = 1 .. Len(s) + 1 /\ DOMAIN s = 1 .. Len(s)
      /\ \A i \in 1 .. Len(s) : Append(s, x)[i] = s[i]
      /\ Append(s, x)[Len(s) + 1] = x
  OBVIOUS
<1>2. Len(s) \in Nat
  OBVIOUS
<1>3. ToSet(Append(s, x)) = ToSet(s) \cup {x}
  BY <1>1, <1>2 DEF ToSet
<1> QED BY <1>1, <1>3

\* A row of matches with its players, and a request that is not idle.
Row == [status : Statuses, seats : Seq(Agents), starter : Agents \cup {Nobody}]
Pass == [pc : {"check", "sit", "count", "stake", "start", "refund"}, agent : Agents,
         table : Tables, seats : Seq(Agents)]
Known(row) == row.status \in {"active", "over"} <=> row.starter # Nobody

\* The parts of TypeOK.
TableOK == table \in [Tables -> Row] /\ \A t \in Tables : Known(table[t])
MoneyOK ==
    /\ balance \in [Agents -> Nat]
    /\ staked \in [Tables -> SUBSET (Agents \ House)] /\ paidOut \in [Tables -> SUBSET (Agents \ House)]
RequestsOK ==
    /\ lease \in [Agents \cup Tables -> Requests \cup {Nobody}]
    /\ req \in [Requests -> {Idle} \cup Pass]

\* TypeOK in parts, so that each step disturbs one of them.
LEMMA TypeParts ==
    TypeOK <=> /\ world \in Situations /\ faults \in 0 .. MaxFaults
               /\ TableOK /\ MoneyOK /\ RequestsOK
  BY DEF TypeOK, TableOK, MoneyOK, RequestsOK, Row, Known, Pass

\* One row of match_players and matches is written.
LEMMA RowWritten ==
    ASSUME TableOK, NEW t \in Tables, NEW row \in Row, Known(row),
           table' = [table EXCEPT ![t] = row]
    PROVE  TableOK'
  BY DEF TableOK

\* One request moves on, or ends.
LEMMA Stepped ==
    ASSUME RequestsOK, NEW r \in Requests, NEW q \in {Idle} \cup Pass,
           req' = [req EXCEPT ![r] = q]
    PROVE  req' \in [Requests -> {Idle} \cup Pass]
  BY DEF RequestsOK

\* A lease that is given back is free.
LEMMA Released ==
    ASSUME RequestsOK, NEW r,
           lease' = [x \in DOMAIN lease |-> IF lease[x] = r THEN Nobody ELSE lease[x]]
    PROVE  lease' \in [Agents \cup Tables -> Requests \cup {Nobody}]
  BY DEF RequestsOK

\* Done keeps the types.
LEMMA DoneType == ASSUME RequestsOK, NEW r \in Requests, Done(r) PROVE RequestsOK'
<1>1. lease' \in [Agents \cup Tables -> Requests \cup {Nobody}]
  BY Released DEF Done
<1>2. req' \in [Requests -> {Idle} \cup Pass]
  BY Stepped DEF Done
<1> QED BY <1>1, <1>2 DEF RequestsOK

\* Goto keeps the types.
LEMMA GotoType ==
    ASSUME RequestsOK, NEW r \in Requests, req[r] # Idle,
           NEW step \in {"check", "sit", "count", "stake", "start", "refund"}, Goto(r, step)
    PROVE  req' \in [Requests -> {Idle} \cup Pass]
<1> DEFINE q == [pc |-> step, agent |-> req[r].agent, table |-> req[r].table, seats |-> req[r].seats]
<1>1. req[r] \in Pass
  BY DEF RequestsOK
<1>2. q \in Pass
  BY <1>1 DEF Pass
<1>3. q = [req[r] EXCEPT !.pc = step]
  BY <1>1 DEF Pass
<1>4. req' = [req EXCEPT ![r] = q]
  BY <1>3 DEF Goto
<1> HIDE DEF q
<1> QED BY <1>2, <1>4, Stepped

\* The stake transaction overdraws nobody: all of its payers were checked.
LEMMA StakeType ==
    ASSUME MoneyOK, NEW t \in Tables, NEW S \in SUBSET (Agents \ House),
           Payable(t, S), PostStake(t, S)
    PROVE  MoneyOK'
<1>1. CASE staked[t] # {}
  BY <1>1 DEF PostStake, MoneyOK, money
<1>2. CASE staked[t] = {}
  <2>1. \A a \in S : balance[a] + (-Bid) >= 0
    BY <1>2, TablesAssumption DEF Payable, MoneyOK
  <2>2. Adjust(S, -Bid) \in [Agents -> Nat]
    BY <2>1, TablesAssumption, AdjustType DEF MoneyOK
  <2> HIDE DEF Adjust
  <2> QED BY <1>2, <2>2 DEF PostStake, MoneyOK
<1> QED BY <1>1, <1>2

\* The disbursement transaction only credits.
LEMMA DisburseType ==
    ASSUME MoneyOK, NEW t \in Tables, NEW S \in SUBSET (Agents \ House), NEW n \in Nat,
           Disburse(t, S, n)
    PROVE  MoneyOK'
<1>1. \A a \in S : balance[a] + n >= 0
  BY DEF MoneyOK
<1>2. Adjust(S, n) \in [Agents -> Nat]
  BY <1>1, AdjustType DEF MoneyOK
<1> QED BY <1>2 DEF Disburse, MoneyOK, money

\* A request that is not idle has an agent and a table.
LEMMA InFlight ==
    ASSUME TypeOK, NEW r \in Requests, req[r].pc # "idle"
    PROVE  req[r] \in Pass /\ req[r] # Idle
  BY TypeParts DEF RequestsOK, Idle

\* A step that writes no table keeps the types of the tables.
LEMMA TableKept == TableOK /\ UNCHANGED table => TableOK'
  BY DEF TableOK

\* A table changes its status, and has a starter exactly when it has started.
LEMMA StatusWritten ==
    ASSUME TableOK, NEW t \in Tables, NEW st \in Statuses,
           st \in {"active", "over"} <=> table[t].starter # Nobody,
           table' = [table EXCEPT ![t].status = st]
    PROVE  TableOK'
<1> DEFINE row == [status |-> st, seats |-> table[t].seats, starter |-> table[t].starter]
<1>1. table[t] \in Row
  BY DEF TableOK
<1>2. row \in Row /\ Known(row)
  BY <1>1 DEF Row, Known
<1>3. row = [table[t] EXCEPT !.status = st]
  BY <1>1 DEF Row
<1>4. table' = [table EXCEPT ![t] = row]
  BY <1>3
<1> HIDE DEF row
<1> QED BY <1>2, <1>4, RowWritten

\* A row whose seats are written.
LEMMA SeatsOf ==
    ASSUME NEW row \in Row, NEW se
    PROVE  [row EXCEPT !.seats = se] = [status |-> row.status, seats |-> se, starter |-> row.starter]
  BY DEF Row

\* A row whose status and seats are written.
LEMMA StatusAndSeatsOf ==
    ASSUME NEW row \in Row, NEW st, NEW se
    PROVE  [row EXCEPT !.status = st, !.seats = se]
             = [status |-> st, seats |-> se, starter |-> row.starter]
<1>1. ASSUME NEW v, NEW u
      PROVE  [[status |-> st, seats |-> v, starter |-> u] EXCEPT !.seats = se]
               = [status |-> st, seats |-> se, starter |-> u]
  OBVIOUS
<1> DEFINE a == [row EXCEPT !.status = st]
<1>2. a = [status |-> st, seats |-> row.seats, starter |-> row.starter]
  BY DEF Row
<1>3. [row EXCEPT !.status = st, !.seats = se] = [a EXCEPT !.seats = se]
  OBVIOUS
<1> HIDE DEF a
<1> QED BY <1>1, <1>2, <1>3

\* One more player sits down.
LEMMA SeatWritten ==
    ASSUME TableOK, NEW t \in Tables, NEW a \in Agents,
           table' = [table EXCEPT ![t].seats = Append(@, a)]
    PROVE  TableOK'
<1> DEFINE row == [status |-> table[t].status, seats |-> Append(table[t].seats, a),
                   starter |-> table[t].starter]
<1>1. table[t] \in Row
  BY DEF TableOK
<1>2. row \in Row /\ Known(row)
  BY <1>1 DEF Row, Known, TableOK
<1>3. row = [table[t] EXCEPT !.seats = Append(table[t].seats, a)]
  BY <1>1, SeatsOf
<1>4. table' = [table EXCEPT ![t] = row]
  BY <1>3
<1> HIDE DEF row
<1> QED BY <1>2, <1>4, RowWritten

\* A table starts, which the request's agent has brought about.
LEMMA RunWritten ==
    ASSUME TableOK, NEW q \in Pass, table' = Running(q)
    PROVE  TableOK'
<1> DEFINE t == q.table
           row == [status |-> "active", starter |-> q.agent,
                   seats |-> IF t \in Duels THEN Append(table[t].seats, q.agent) ELSE table[t].seats]
<1>1. t \in Tables /\ q.agent \in Agents /\ q.agent # Nobody
  BY TablesAssumption DEF Pass
<1>2. table[t] \in Row
  BY <1>1 DEF TableOK
<1>3. row \in Row /\ Known(row)
  BY <1>1, <1>2 DEF Row, Known, Statuses
<1>4. table' = [table EXCEPT ![t] = row]
  BY DEF Running
<1> HIDE DEF row
<1> QED BY <1>1, <1>3, <1>4, RowWritten

\* Every step keeps the types of the tables.
LEMMA TableStep == TypeOK /\ [Next]_vars => TableOK'
<1> SUFFICES ASSUME TypeOK, [Next]_vars PROVE TableOK'
  OBVIOUS
<1> USE TypeParts, TableKept
<1>1. ASSUME NEW t \in Tables, Create(t) PROVE TableOK'
  <2> DEFINE row == [status |-> "waiting", seats |-> <<Host[t]>>,
      starter |-> table[t].starter]
  <2>1. table[t] \in Row /\ table[t].starter = Nobody
    BY <1>1 DEF TableOK, Known, Create
  <2>2. <<Host[t]>> \in Seq(Agents)
    BY TablesAssumption
  <2>3. row \in Row /\ Known(row)
    BY <2>1, <2>2 DEF Row, Known, Statuses
  <2>4. row = [table[t] EXCEPT !.status = "waiting", !.seats = <<Host[t]>>]
    BY <2>1, StatusAndSeatsOf
  <2>5. table' = [table EXCEPT ![t] = row]
    BY <1>1, <2>4 DEF Create
  <2> HIDE DEF row
  <2> QED BY <2>3, <2>5, RowWritten
<1>2. ASSUME NEW t \in Tables, Cancel(t) PROVE TableOK'
  <2>1. table' = [table EXCEPT ![t].status = "aborted"]
    BY <1>2 DEF Cancel
  <2>2. "aborted" \in {"active", "over"} <=> table[t].starter # Nobody
    BY <1>2 DEF Cancel, Open, TableOK, Known
  <2> QED BY <2>1, <2>2, StatusWritten DEF Statuses
<1>3. ASSUME NEW t \in Tables, SweepStaleWaiting(t) PROVE TableOK'
  <2>1. table' = [table EXCEPT ![t].status = "aborted"]
    BY <1>3 DEF SweepStaleWaiting
  <2>2. "aborted" \in {"active", "over"} <=> table[t].starter # Nobody
    BY <1>3 DEF SweepStaleWaiting, Open, TableOK, Known
  <2> QED BY <2>1, <2>2, StatusWritten DEF Statuses
<1>4. ASSUME NEW t \in Tables, Finish(t) PROVE TableOK'
  <2>1. table' = [table EXCEPT ![t].status = "over"]
    BY <1>4 DEF Finish
  <2>2. "over" \in {"active", "over"} <=> table[t].starter # Nobody
    BY <1>4 DEF Finish, Open, TableOK, Known
  <2> QED BY <2>1, <2>2, StatusWritten DEF Statuses
<1>5. ASSUME NEW r \in Requests, NEW a \in Agents, NEW t \in Tables, Begin(r, a,
    t) PROVE TableOK'
  BY <1>5 DEF Begin
<1>6. ASSUME NEW r \in Requests, Check(r) PROVE TableOK'
  BY <1>6 DEF Check
<1>7. ASSUME NEW r \in Requests, Sit(r) PROVE TableOK'
  <2>1. req[r] \in Pass
    BY <1>7 DEF Sit, RequestsOK, Idle
  <2> QED BY <1>7, <2>1, SeatWritten DEF Sit, Pass
<1>8. ASSUME NEW r \in Requests, Count(r) PROVE TableOK'
  BY <1>8 DEF Count
<1>9. ASSUME NEW r \in Requests, Stake(r) PROVE TableOK'
  BY <1>9 DEF Stake
<1>10. ASSUME NEW r \in Requests, Start(r) PROVE TableOK'
  <2>1. req[r] \in Pass
    BY <1>10 DEF Start, RequestsOK, Idle
  <2> QED BY <1>10, <2>1, RunWritten DEF Start
<1>11. ASSUME NEW r \in Requests, Refund(r) PROVE TableOK'
  BY <1>11 DEF Refund
<1>12. ASSUME NEW r \in Requests, StakeFails(r) PROVE TableOK'
  BY <1>12 DEF StakeFails
<1>13. ASSUME NEW r \in Requests, StartFails(r) PROVE TableOK'
  <2>1. req[r] \in Pass
    BY <1>13 DEF StartFails, RequestsOK, Idle
  <2> QED BY <1>13, <2>1, RunWritten DEF StartFails
<1>14. ASSUME NEW r \in Requests, RefundFails(r) PROVE TableOK'
  BY <1>14 DEF RefundFails
<1>15. ASSUME NEW r \in Requests, Lapse(r) PROVE TableOK'
  BY <1>15 DEF Lapse
<1>16. ASSUME NEW r \in Requests, Crash(r) PROVE TableOK'
  BY <1>16 DEF Crash
<1>17. ASSUME UNCHANGED vars PROVE TableOK'
  BY <1>17 DEF vars
<1> QED BY <1>1, <1>2, <1>3, <1>4, <1>5, <1>6, <1>7, <1>8, <1>9, <1>10, <1>11, <1>12,
    <1>13, <1>14, <1>15, <1>16, <1>17
    DEF Next, Step

\* A step that moves no request and no lease keeps their types.
LEMMA RequestsKept == RequestsOK /\ UNCHANGED <<lease, req>> => RequestsOK'
  BY DEF RequestsOK

\* A step that moves no lease.
LEMMA Locked ==
    ASSUME RequestsOK, UNCHANGED lease, req' \in [Requests -> {Idle} \cup Pass]
    PROVE  RequestsOK'
  BY DEF RequestsOK

\* A request that keeps the players it has read, and its next step.
LEMMA ReadAt ==
    ASSUME RequestsOK, NEW r \in Requests, req[r] \in Pass, NEW st, NEW se
    PROVE  [req EXCEPT ![r].seats = se, ![r].pc = st]
             = [req EXCEPT ![r] = [pc |-> st, agent |-> req[r].agent, table |-> req[r].table, seats |-> se]]
<1> DEFINE q(p) == [pc |-> p, agent |-> req[r].agent, table |-> req[r].table, seats |-> se]
           f == [req EXCEPT ![r].seats = se]
<1>1. [req[r] EXCEPT !.seats = se] = q(req[r].pc)
  BY DEF Pass
<1>2. f = [req EXCEPT ![r] = q(req[r].pc)]
  BY <1>1
<1>3. [q(req[r].pc) EXCEPT !.pc = st] = q(st)
  OBVIOUS
<1>4. f[r] = q(req[r].pc)
  BY <1>2 DEF RequestsOK
<1>5. [req EXCEPT ![r].seats = se, ![r].pc = st] = [f EXCEPT ![r].pc = st]
  OBVIOUS
<1>6. [f EXCEPT ![r].pc = st] = [f EXCEPT ![r] = q(st)]
  BY <1>3, <1>4
<1>7. [f EXCEPT ![r] = q(st)] = [req EXCEPT ![r] = q(st)]
  BY <1>2
<1> HIDE DEF f
<1> QED BY <1>5, <1>6, <1>7

\* Every step keeps the types of the requests and leases.
LEMMA RequestsStep == TypeOK /\ [Next]_vars => RequestsOK'
<1> SUFFICES ASSUME TypeOK, [Next]_vars PROVE RequestsOK'
  OBVIOUS
<1> USE TypeParts, RequestsKept, DoneType
<1>1. ASSUME NEW t \in Tables, Create(t) PROVE RequestsOK'
  BY <1>1 DEF Create
<1>2. ASSUME NEW t \in Tables, Cancel(t) PROVE RequestsOK'
  BY <1>2 DEF Cancel
<1>3. ASSUME NEW t \in Tables, SweepStaleWaiting(t) PROVE RequestsOK'
  BY <1>3 DEF SweepStaleWaiting
<1>4. ASSUME NEW t \in Tables, Finish(t) PROVE RequestsOK'
  BY <1>4 DEF Finish
<1>5. ASSUME NEW r \in Requests, NEW a \in Agents, NEW t \in Tables, Begin(r, a,
    t) PROVE RequestsOK'
  <2> DEFINE q == [pc |-> "check", agent |-> a, table |-> t, seats |-> <<>>]
  <2>1. q \in Pass
    BY DEF Pass
  <2>2. req' = [req EXCEPT ![r] = q]
    BY <1>5 DEF Begin
  <2> HIDE DEF q
  <2>3. lease' \in [Agents \cup Tables -> Requests \cup {Nobody}]
    BY <1>5 DEF Begin, RequestsOK
  <2> QED BY <2>1, <2>2, <2>3, Stepped DEF RequestsOK
<1>6. ASSUME NEW r \in Requests, Check(r) PROVE RequestsOK'
  <2>1. req[r] \in Pass
    BY <1>6, InFlight DEF Check
  <2>2. CASE Admissible(req[r].agent, req[r].table)
    <3> DEFINE q == [pc |-> IF req[r].table \in Duels THEN "stake" ELSE "sit",
        agent |-> req[r].agent,
                     table |-> req[r].table, seats |-> table[req[r].table].seats]
    <3>1. q \in Pass
      BY <2>1, TypeParts DEF Pass, TableOK, Row
    <3>2. req' = [req EXCEPT ![r] = q] /\ UNCHANGED lease
      BY <1>6, <2>1, <2>2, ReadAt DEF Check
    <3> HIDE DEF q
    <3> QED BY <3>1, <3>2, Stepped, Locked
  <2>3. CASE ~ Admissible(req[r].agent, req[r].table)
    BY <1>6, <2>3, DoneType DEF Check
  <2> QED BY <2>2, <2>3
<1>7. ASSUME NEW r \in Requests, Sit(r) PROVE RequestsOK'
  <2>1. CASE Open(req[r].table) /\ SeatFree(req[r].table, req[r].seats)
    <3>1. req[r] # Idle /\ UNCHANGED lease /\ Goto(r, "count")
      BY <1>7, <2>1 DEF Sit, Idle
    <3> QED BY <3>1, GotoType, Locked
  <2>2. CASE ~ (Open(req[r].table) /\ SeatFree(req[r].table, req[r].seats))
    BY <1>7, <2>2, DoneType DEF Sit
  <2> QED BY <2>1, <2>2
<1>8. ASSUME NEW r \in Requests, Count(r) PROVE RequestsOK'
  <2>1. req[r] \in Pass
    BY <1>8, InFlight DEF Count
  <2> DEFINE s == table[req[r].table].seats
  <2>2. CASE ~ (Len(s) < Roster)
    <3> DEFINE q == [pc |-> "stake", agent |-> req[r].agent, table |-> req[r].table,
        seats |-> s]
    <3>1. q \in Pass
      BY <2>1, TypeParts DEF Pass, TableOK, Row
    <3>2. req' = [req EXCEPT ![r] = q] /\ UNCHANGED lease
      BY <1>8, <2>1, <2>2, ReadAt DEF Count
    <3> HIDE DEF q
    <3> QED BY <3>1, <3>2, Stepped, Locked
  <2>3. CASE Len(s) < Roster
    BY <1>8, <2>3, DoneType DEF Count
  <2> QED BY <2>2, <2>3
<1>9. ASSUME NEW r \in Requests, Stake(r) PROVE RequestsOK'
  <2>1. CASE Payable(req[r].table, Stakers(req[r]))
    <3>1. req[r] # Idle /\ UNCHANGED lease /\ Goto(r, "start")
      BY <1>9, <2>1 DEF Stake, Idle
    <3> QED BY <3>1, GotoType, Locked
  <2>2. CASE ~ (Payable(req[r].table, Stakers(req[r])))
    BY <1>9, <2>2, DoneType DEF Stake
  <2> QED BY <2>1, <2>2
<1>10. ASSUME NEW r \in Requests, Start(r) PROVE RequestsOK'
  <2>1. CASE ~ Open(req[r].table)
    <3>1. req[r] # Idle /\ UNCHANGED lease /\ Goto(r, "refund")
      BY <1>10, <2>1 DEF Start, Idle
    <3> QED BY <3>1, GotoType, Locked
  <2>2. CASE ~ (~ Open(req[r].table))
    BY <1>10, <2>2, DoneType DEF Start
  <2> QED BY <2>1, <2>2
<1>11. ASSUME NEW r \in Requests, Refund(r) PROVE RequestsOK'
  BY <1>11 DEF Refund
<1>12. ASSUME NEW r \in Requests, StakeFails(r) PROVE RequestsOK'
  BY <1>12 DEF StakeFails
<1>13. ASSUME NEW r \in Requests, StartFails(r) PROVE RequestsOK'
  <2>1. req[r] # Idle /\ UNCHANGED lease /\ Goto(r, "refund")
    BY <1>13 DEF StartFails, Idle
  <2> QED BY <2>1, GotoType, Locked
<1>14. ASSUME NEW r \in Requests, RefundFails(r) PROVE RequestsOK'
  BY <1>14 DEF RefundFails
<1>15. ASSUME NEW r \in Requests, Lapse(r) PROVE RequestsOK'
  <2>1. lease' \in [Agents \cup Tables -> Requests \cup {Nobody}]
    BY <1>15, Released DEF Lapse
  <2> QED BY <1>15, <2>1 DEF Lapse, RequestsOK
<1>16. ASSUME NEW r \in Requests, Crash(r) PROVE RequestsOK'
  BY <1>16 DEF Crash
<1>17. ASSUME UNCHANGED vars PROVE RequestsOK'
  BY <1>17 DEF vars
<1> QED BY <1>1, <1>2, <1>3, <1>4, <1>5, <1>6, <1>7, <1>8, <1>9, <1>10, <1>11, <1>12,
    <1>13, <1>14, <1>15, <1>16, <1>17
    DEF Next, Step

-----------------------------------------------------------------------------
(* What a step does to a table and to a request *)

\* What a step does to one table.
Opened(t) ==
    /\ table[t].status = "none"
    /\ table'[t] = [status |-> "waiting", seats |-> <<Host[t]>>, starter |-> Nobody]
Closed(t) ==
    /\ table[t].status \in {"waiting", "active"}
    /\ table'[t] = [status |-> IF Open(t) THEN "aborted" ELSE "over",
                    seats |-> table[t].seats, starter |-> table[t].starter]
SeatTaken(t, r) ==
    /\ Open(t) /\ req[r].pc = "sit" /\ req[r].table = t /\ SeatFree(t, req[r].seats)
    /\ table'[t] = [status |-> "waiting", seats |-> Append(table[t].seats, req[r].agent),
                    starter |-> table[t].starter]
Started(t, r) ==
    /\ Open(t) /\ req[r].pc = "start" /\ req[r].table = t /\ req'[r].pc \in {"idle", "refund"}
    /\ table'[t] = [status |-> "active", starter |-> req[r].agent, seats |->
                    IF t \in Duels THEN Append(table[t].seats, req[r].agent) ELSE table[t].seats]
Moved(t) ==
    Opened(t) \/ Closed(t) \/ \E r \in Requests : SeatTaken(t, r) \/ Started(t, r)
TablesMoved == \A t \in Tables : table'[t] = table[t] \/ Moved(t)

\* A step that writes one table.
LEMMA OneMoved ==
    ASSUME TableOK, NEW t \in Tables, NEW row, table' = [table EXCEPT ![t] = row], Moved(t)
    PROVE  TablesMoved
  BY DEF TableOK, TablesMoved

\* A table whose status alone is written.
LEMMA StatusOf ==
    ASSUME TableOK, NEW t \in Tables, NEW st,
           table' = [table EXCEPT ![t].status = st]
    PROVE  table'[t] = [status |-> st, seats |-> table[t].seats, starter |-> table[t].starter]
<1>1. table[t] \in Row
  BY DEF TableOK
<1>2. [table[t] EXCEPT !.status = st]
         = [status |-> st, seats |-> table[t].seats, starter |-> table[t].starter]
  BY <1>1 DEF Row
<1> QED BY <1>2 DEF TableOK

\* A step that writes no table.
LEMMA TablesKept == UNCHANGED table => TablesMoved
  BY DEF TablesMoved

\* Every table stays as it is, is opened or closed, gets one more player, or starts.
LEMMA TablesMove == TypeOK /\ [Next]_vars => TablesMoved
<1> SUFFICES ASSUME TypeOK, [Next]_vars PROVE TablesMoved
  OBVIOUS
<1> USE TypeParts, TablesKept
<1>1. ASSUME NEW t \in Tables, Create(t) PROVE TablesMoved
  <2>1. table[t] \in Row /\ table[t].starter = Nobody
    BY <1>1 DEF TableOK, Known, Create
  <2>2. table' = [table EXCEPT ![t].status = "waiting", ![t].seats = <<Host[t]>>]
    BY <1>1 DEF Create
  <2>3. table' = [table EXCEPT ![t] = [table[t] EXCEPT !.status = "waiting",
      !.seats = <<Host[t]>>]]
    BY <2>2
  <2>4. table' = [table EXCEPT ![t] = [status |-> "waiting", seats |-> <<Host[t]>>,
      starter |-> Nobody]]
    BY <2>1, <2>3, StatusAndSeatsOf
  <2>5. Opened(t)
    BY <1>1, <2>4 DEF Opened, TableOK, Create
  <2> QED BY <2>4, <2>5, OneMoved DEF Moved
<1>2. ASSUME NEW t \in Tables, Cancel(t) PROVE TablesMoved
  <2>1. table' = [table EXCEPT ![t].status = "aborted"]
    BY <1>2 DEF Cancel
  <2>2. Closed(t)
    BY <1>2, <2>1, StatusOf DEF Cancel, Open, Closed
  <2>3. table' = [table EXCEPT ![t] = table'[t]]
    BY <2>1 DEF TableOK
  <2> QED BY <2>2, <2>3, OneMoved DEF Moved
<1>3. ASSUME NEW t \in Tables, SweepStaleWaiting(t) PROVE TablesMoved
  <2>1. table' = [table EXCEPT ![t].status = "aborted"]
    BY <1>3 DEF SweepStaleWaiting
  <2>2. Closed(t)
    BY <1>3, <2>1, StatusOf DEF SweepStaleWaiting, Open, Closed
  <2>3. table' = [table EXCEPT ![t] = table'[t]]
    BY <2>1 DEF TableOK
  <2> QED BY <2>2, <2>3, OneMoved DEF Moved
<1>4. ASSUME NEW t \in Tables, Finish(t) PROVE TablesMoved
  <2>1. table' = [table EXCEPT ![t].status = "over"]
    BY <1>4 DEF Finish
  <2>2. Closed(t)
    BY <1>4, <2>1, StatusOf DEF Finish, Open, Closed
  <2>3. table' = [table EXCEPT ![t] = table'[t]]
    BY <2>1 DEF TableOK
  <2> QED BY <2>2, <2>3, OneMoved DEF Moved
<1>5. ASSUME NEW r \in Requests, NEW a \in Agents, NEW t \in Tables, Begin(r, a,
    t) PROVE TablesMoved
  BY <1>5 DEF Begin
<1>6. ASSUME NEW r \in Requests, Check(r) PROVE TablesMoved
  BY <1>6 DEF Check
<1>7. ASSUME NEW r \in Requests, Sit(r) PROVE TablesMoved
  <2>1. CASE Open(req[r].table) /\ SeatFree(req[r].table, req[r].seats)
    <3> DEFINE q == req[r]
               t == q.table
               row == [status |-> "waiting", seats |-> Append(table[t].seats, q.agent),
                       starter |-> table[t].starter]
    <3>1. t \in Tables /\ q.pc = "sit" /\ q \in Pass
      BY <1>7, InFlight DEF Sit, Pass
    <3>2. table[t] \in Row /\ table[t].status = "waiting"
      BY <2>1, <3>1 DEF TableOK, Open
    <3>3. row = [table[t] EXCEPT !.seats = Append(table[t].seats, q.agent)]
      BY <3>2, SeatsOf
    <3>4. table' = [table EXCEPT ![t] = row]
      BY <1>7, <2>1, <3>3 DEF Sit
    <3>5. table'[t] = row
      BY <3>1, <3>4 DEF TableOK
    <3>6. SeatTaken(t, r)
      BY <2>1, <3>1, <3>5 DEF SeatTaken
    <3> HIDE DEF row
    <3> QED BY <3>1, <3>4, <3>6, OneMoved DEF Moved
  <2>2. CASE ~ (Open(req[r].table) /\ SeatFree(req[r].table, req[r].seats))
    BY <1>7, <2>2 DEF Sit
  <2> QED BY <2>1, <2>2
<1>8. ASSUME NEW r \in Requests, Count(r) PROVE TablesMoved
  BY <1>8 DEF Count
<1>9. ASSUME NEW r \in Requests, Stake(r) PROVE TablesMoved
  BY <1>9 DEF Stake
<1>10. ASSUME NEW r \in Requests, Start(r) PROVE TablesMoved
  <2>1. CASE Open(req[r].table)
    <3> DEFINE q == req[r]
               t == q.table
               row == [status |-> "active", starter |-> q.agent, seats |->
                       IF t \in Duels THEN Append(table[t].seats,
                           q.agent) ELSE table[t].seats]
    <3>1. t \in Tables /\ q.pc = "start" /\ q \in Pass
      BY <1>10, InFlight DEF Start, Pass
    <3>2. table' = [table EXCEPT ![t] = row]
      BY <1>10, <2>1 DEF Start, Running
    <3>3. table'[t] = row
      BY <3>1, <3>2 DEF TableOK
    <3>4. req'[r].pc \in {"idle", "refund"}
      BY <1>10, <2>1, TypeParts DEF Start, Done, Idle, Goto, RequestsOK
    <3>5. Started(t, r)
      BY <2>1, <3>1, <3>3, <3>4 DEF Started
    <3> HIDE DEF row
    <3> QED BY <3>1, <3>2, <3>5, OneMoved DEF Moved
  <2>2. CASE ~ Open(req[r].table)
    BY <1>10, <2>2 DEF Start
  <2> QED BY <1>10, <2>1, <2>2 DEF Start
<1>11. ASSUME NEW r \in Requests, Refund(r) PROVE TablesMoved
  BY <1>11 DEF Refund
<1>12. ASSUME NEW r \in Requests, StakeFails(r) PROVE TablesMoved
  BY <1>12 DEF StakeFails
<1>13. ASSUME NEW r \in Requests, StartFails(r) PROVE TablesMoved
  <2>1. CASE Open(req[r].table) /\ table' = Running(req[r])
    <3> DEFINE q == req[r]
               t == q.table
               row == [status |-> "active", starter |-> q.agent, seats |->
                       IF t \in Duels THEN Append(table[t].seats,
                           q.agent) ELSE table[t].seats]
    <3>1. t \in Tables /\ q.pc = "start" /\ q \in Pass
      BY <1>13, InFlight DEF StartFails, Pass
    <3>2. table' = [table EXCEPT ![t] = row]
      BY <1>13, <2>1 DEF StartFails, Running
    <3>3. table'[t] = row
      BY <3>1, <3>2 DEF TableOK
    <3>4. req'[r].pc \in {"idle", "refund"}
      BY <1>13, <2>1, TypeParts DEF StartFails, Done, Idle, Goto, RequestsOK
    <3>5. Started(t, r)
      BY <2>1, <3>1, <3>3, <3>4 DEF Started
    <3> HIDE DEF row
    <3> QED BY <3>1, <3>2, <3>5, OneMoved DEF Moved
  <2>2. CASE UNCHANGED table
    BY <1>13, <2>2 DEF StartFails
  <2> QED BY <1>13, <2>1, <2>2 DEF StartFails
<1>14. ASSUME NEW r \in Requests, RefundFails(r) PROVE TablesMoved
  BY <1>14 DEF RefundFails
<1>15. ASSUME NEW r \in Requests, Lapse(r) PROVE TablesMoved
  BY <1>15 DEF Lapse
<1>16. ASSUME NEW r \in Requests, Crash(r) PROVE TablesMoved
  BY <1>16 DEF Crash
<1>17. ASSUME UNCHANGED vars PROVE TablesMoved
  BY <1>17 DEF vars
<1> QED BY <1>1, <1>2, <1>3, <1>4, <1>5, <1>6, <1>7, <1>8, <1>9, <1>10, <1>11, <1>12,
    <1>13, <1>14, <1>15, <1>16, <1>17
    DEF Next, Step

\* What a step does to one request.
Began(r) ==
    /\ req[r] = Idle /\ UNCHANGED table
    /\ \E a \in Agents, t \in Tables :
        /\ table[t].status # "none" /\ Leases(a, t) /\ lease' = [lease EXCEPT ![a] = r, ![t] = r]
        /\ req'[r] = [pc |-> "check", agent |-> a, table |-> t, seats |-> <<>>]
At(r, step, s) == req'[r] = [pc |-> step, agent |-> req[r].agent, table |-> req[r].table, seats |-> s]
Checked(r) ==
    /\ req[r].pc = "check" /\ Admissible(req[r].agent, req[r].table) /\ UNCHANGED table
    /\ At(r, IF req[r].table \in Duels THEN "stake" ELSE "sit", table[req[r].table].seats)
Counted(r) ==
    /\ req[r].pc = "count" /\ Len(table[req[r].table].seats) >= Roster /\ UNCHANGED table
    /\ At(r, "stake", table[req[r].table].seats)
Advanced(r, from, to) == req[r].pc = from /\ At(r, to, req[r].seats)
Went(r) ==
    \/ Began(r) \/ Checked(r) \/ Counted(r)
    \/ Advanced(r, "sit", "count") \/ Advanced(r, "stake", "start") \/ Advanced(r, "start", "refund")
RequestsMoved == \A r \in Requests : req'[r] = req[r] \/ req'[r] = Idle \/ Went(r)

\* A step of one request.
LEMMA OneWent ==
    ASSUME RequestsOK, NEW r \in Requests, NEW q, req' = [req EXCEPT ![r] = q],
           req'[r] = Idle \/ Went(r)
    PROVE  RequestsMoved
  BY DEF RequestsOK, RequestsMoved

\* A request that ends.
LEMMA OneDone ==
    ASSUME RequestsOK, NEW r \in Requests, Done(r)
    PROVE  RequestsMoved /\ req'[r] = Idle
  BY OneWent DEF RequestsOK, Done

\* A step that moves no request.
LEMMA RequestsStay == UNCHANGED req => RequestsMoved
  BY DEF RequestsMoved

\* A request that goes on with what it knows.
LEMMA GotoAt ==
    ASSUME RequestsOK, NEW r \in Requests, req[r] \in Pass, NEW step, Goto(r, step)
    PROVE  At(r, step, req[r].seats) /\ req' = [req EXCEPT ![r] = req'[r]]
<1>1. [req[r] EXCEPT !.pc = step]
        = [pc |-> step, agent |-> req[r].agent, table |-> req[r].table, seats |-> req[r].seats]
  BY DEF Pass
<1>2. req'[r] = [req[r] EXCEPT !.pc = step] /\ req' = [req EXCEPT ![r] = req'[r]]
  BY DEF Goto, RequestsOK
<1> QED BY <1>1, <1>2 DEF At

\* Every request stays where it is, ends, or goes on as the code's next line does.
LEMMA RequestsMove == TypeOK /\ [Next]_vars => RequestsMoved
<1> SUFFICES ASSUME TypeOK, [Next]_vars PROVE RequestsMoved
  OBVIOUS
<1> USE TypeParts, RequestsStay
<1>0. TypeOK /\ RequestsOK /\ TableOK
  BY TypeParts
<1>1. ASSUME NEW t \in Tables, Create(t) PROVE RequestsMoved
  BY <1>1 DEF Create
<1>2. ASSUME NEW t \in Tables, Cancel(t) PROVE RequestsMoved
  BY <1>2 DEF Cancel
<1>3. ASSUME NEW t \in Tables, SweepStaleWaiting(t) PROVE RequestsMoved
  BY <1>3 DEF SweepStaleWaiting
<1>4. ASSUME NEW t \in Tables, Finish(t) PROVE RequestsMoved
  BY <1>4 DEF Finish
<1>5. ASSUME NEW r \in Requests, NEW a \in Agents, NEW t \in Tables, Begin(r, a,
    t) PROVE RequestsMoved
  <2> DEFINE q == [pc |-> "check", agent |-> a, table |-> t, seats |-> <<>>]
  <2>1. req' = [req EXCEPT ![r] = q] /\ req'[r] = q
    BY <1>5 DEF Begin, RequestsOK
  <2>2. Began(r)
    BY <1>5, <2>1 DEF Begin, Began
  <2> HIDE DEF q
  <2> QED BY <2>1, <2>2, OneWent DEF Went
<1>6. ASSUME NEW r \in Requests, Check(r) PROVE RequestsMoved
  <2>1. req[r] \in Pass /\ Len(table[req[r].table].seats) \in Nat
    BY <1>6, InFlight, TypeParts DEF Check, TableOK, Row, Pass
  <2>2. CASE Admissible(req[r].agent, req[r].table)
    <3> DEFINE q == [pc |-> IF req[r].table \in Duels THEN "stake" ELSE "sit",
                     agent |-> req[r].agent, table |-> req[r].table,
                     seats |-> table[req[r].table].seats]
    <3>1. UNCHANGED table
      BY <1>6 DEF Check
    <3>2. req' = [req EXCEPT ![r] = q]
      BY <1>6, <2>1, <2>2, ReadAt DEF Check
    <3>3. req'[r] = q
      BY <3>2 DEF RequestsOK
    <3>4. Checked(r)
      BY <1>6, <2>1, <2>2, <3>1, <3>3, TablesAssumption DEF Check, Checked, At
    <3> HIDE DEF q
    <3> QED BY <3>2, <3>4, OneWent DEF Went
  <2>3. CASE ~ (Admissible(req[r].agent, req[r].table))
    BY <1>6, <2>3, OneDone DEF Check
  <2> QED BY <2>2, <2>3
<1>7. ASSUME NEW r \in Requests, Sit(r) PROVE RequestsMoved
  <2>1. req[r] \in Pass /\ req[r].pc = "sit"
    BY <1>7, InFlight DEF Sit
  <2>2. CASE Goto(r, "count")
    <3>1. Advanced(r, "sit", "count") /\ req' = [req EXCEPT ![r] = req'[r]]
      BY <2>1, <2>2, GotoAt DEF Advanced
    <3> QED BY <3>1, OneWent DEF Went
  <2>3. CASE Done(r)
    BY <2>3, OneDone
  <2> QED BY <1>7, <2>2, <2>3 DEF Sit
<1>8. ASSUME NEW r \in Requests, Count(r) PROVE RequestsMoved
  <2>1. req[r] \in Pass /\ Len(table[req[r].table].seats) \in Nat
    BY <1>8, InFlight, TypeParts DEF Count, TableOK, Row, Pass
  <2>2. CASE ~ (Len(table[req[r].table].seats) < Roster)
    <3> DEFINE q == [pc |-> "stake", agent |-> req[r].agent, table |-> req[r].table,
                     seats |-> table[req[r].table].seats]
    <3>1. UNCHANGED table
      BY <1>8 DEF Count
    <3>2. req' = [req EXCEPT ![r] = q]
      BY <1>8, <2>1, <2>2, ReadAt DEF Count
    <3>3. req'[r] = q
      BY <3>2 DEF RequestsOK
    <3>4. Counted(r)
      BY <1>8, <2>1, <2>2, <3>1, <3>3, TablesAssumption DEF Count, Counted, At
    <3> HIDE DEF q
    <3> QED BY <3>2, <3>4, OneWent DEF Went
  <2>3. CASE ~ (~ (Len(table[req[r].table].seats) < Roster))
    BY <1>8, <2>3, OneDone DEF Count
  <2> QED BY <2>2, <2>3
<1>9. ASSUME NEW r \in Requests, Stake(r) PROVE RequestsMoved
  <2>1. req[r] \in Pass /\ req[r].pc = "stake"
    BY <1>9, InFlight DEF Stake
  <2>2. CASE Goto(r, "start")
    <3>1. Advanced(r, "stake", "start") /\ req' = [req EXCEPT ![r] = req'[r]]
      BY <2>1, <2>2, GotoAt DEF Advanced
    <3> QED BY <3>1, OneWent DEF Went
  <2>3. CASE Done(r)
    BY <2>3, OneDone
  <2> QED BY <1>9, <2>2, <2>3 DEF Stake
<1>10. ASSUME NEW r \in Requests, Start(r) PROVE RequestsMoved
  <2>1. req[r] \in Pass /\ req[r].pc = "start"
    BY <1>10, InFlight DEF Start
  <2>2. CASE Goto(r, "refund")
    <3>1. Advanced(r, "start", "refund") /\ req' = [req EXCEPT ![r] = req'[r]]
      BY <2>1, <2>2, GotoAt DEF Advanced
    <3> QED BY <3>1, OneWent DEF Went
  <2>3. CASE Done(r)
    BY <2>3, OneDone
  <2> QED BY <1>10, <2>2, <2>3 DEF Start
<1>11. ASSUME NEW r \in Requests, Refund(r) PROVE RequestsMoved
  BY <1>11, OneDone DEF Refund
<1>12. ASSUME NEW r \in Requests, StakeFails(r) PROVE RequestsMoved
  BY <1>12, OneDone DEF StakeFails
<1>13. ASSUME NEW r \in Requests, StartFails(r) PROVE RequestsMoved
  <2>1. req[r] \in Pass /\ req[r].pc = "start"
    BY <1>13, InFlight DEF StartFails
  <2>2. CASE Goto(r, "refund")
    <3>1. Advanced(r, "start", "refund") /\ req' = [req EXCEPT ![r] = req'[r]]
      BY <2>1, <2>2, GotoAt DEF Advanced
    <3> QED BY <3>1, OneWent DEF Went
  <2>3. CASE Done(r)
    BY <2>3, OneDone
  <2> QED BY <1>13, <2>2, <2>3 DEF StartFails
<1>14. ASSUME NEW r \in Requests, RefundFails(r) PROVE RequestsMoved
  BY <1>14, OneDone DEF RefundFails
<1>15. ASSUME NEW r \in Requests, Lapse(r) PROVE RequestsMoved
  BY <1>15 DEF Lapse
<1>16. ASSUME NEW r \in Requests, Crash(r) PROVE RequestsMoved
  BY <1>16, OneDone DEF Crash
<1>17. ASSUME UNCHANGED vars PROVE RequestsMoved
  BY <1>17 DEF vars
<1> QED BY <1>1, <1>2, <1>3, <1>4, <1>5, <1>6, <1>7, <1>8, <1>9, <1>10, <1>11, <1>12,
    <1>13, <1>14, <1>15, <1>16, <1>17
    DEF Next, Step

-----------------------------------------------------------------------------
(* Types, and who sits where *)

\* A filler's wallet stays empty, so that only a mafia table seats it.
FillersHoldNothing == \A h \in House : balance[h] = 0

\* A list of players read earlier, and an agent that the checks let join it.
Prefix(s, u) == Len(s) <= Len(u) /\ \A i \in 1 .. Len(s) : s[i] = u[i]
Welcome(a, s) == a \notin ToSet(s) /\ (a \in House \/ Owner[a] \notin Owners(s))

\* A duel that waits has its host alone at the table.
DuelsWait == \A t \in Duels : Open(t) => table[t].seats = <<Host[t]>>

\* Only an opened table is joined, and only at a mafia table a joiner sits down first.
Joined ==
    /\ \A r \in Requests : req[r] # Idle => table[req[r].table].status # "none"
    /\ \A r \in Requests : req[r].pc \in {"sit", "count"} => req[r].table \in Mafia

\* Who sits down is welcome to those it has read, who have not left since.
NextSeat == \A r \in Requests : req[r].pc = "sit" =>
    /\ Prefix(req[r].seats, table[req[r].table].seats)
    /\ Welcome(req[r].agent, req[r].seats) /\ Len(req[r].seats) < Roster

\* Who stakes for a duel can pay, so is no filler, and is welcome to the host.
SecondPlayer == \A r \in Requests :
    req[r].pc \in {"stake", "start", "refund"} /\ req[r].table \in Duels =>
        req[r].agent \notin House /\ Welcome(req[r].agent, <<Host[req[r].table]>>)

Invited == DuelsWait /\ Joined /\ NextSeat /\ SecondPlayer

Seated == TypeOK /\ FillersHoldNothing /\ Invited /\ OwnersDistinct

\* Only the wallets of players are debited or credited.
LEMMA HumansType ==
    ASSUME NEW s \in Seq(Agents)
    PROVE  Humans(s) \in SUBSET (Agents \ House)
  BY DEF Humans, ToSet

\* Who is debited or refunded for a table is a player: a filler never stakes.
LEMMA Payers ==
    ASSUME Seated, NEW r \in Requests, req[r].pc \in {"stake", "start", "refund"}
    PROVE  /\ req[r].table \in Tables
           /\ Stakers(req[r]) \in SUBSET (Agents \ House)
           /\ Refunded(req[r]) \in SUBSET (Agents \ House)
<1>1. req[r] \in Pass
  BY InFlight DEF Seated
<1>2. table[req[r].table].seats \in Seq(Agents)
  BY <1>1, TypeParts DEF Seated, TableOK, Row, Pass
<1>3. req[r].table \in Duels => req[r].agent \notin House
  BY DEF Seated, Invited, SecondPlayer
<1> QED BY <1>1, <1>2, <1>3, HumansType, TablesAssumption DEF Pass, Stakers, Refunded, Tables

\* A step without a transaction keeps the types of the wallets.
LEMMA MoneyKept == MoneyOK /\ UNCHANGED money => MoneyOK'
  BY DEF MoneyOK, money

\* Every step keeps the types of the wallets: none is overdrawn.
LEMMA MoneyStep == Seated /\ [Next]_vars => MoneyOK'
<1> SUFFICES ASSUME Seated, [Next]_vars PROVE MoneyOK'
  OBVIOUS
<1> USE MoneyKept
<1> TypeOK /\ TableOK /\ MoneyOK
  BY TypeParts DEF Seated
<1>1. ASSUME NEW t \in Tables, Create(t) PROVE MoneyOK'
  BY <1>1 DEF Create
<1>2. ASSUME NEW t \in Tables, Cancel(t) PROVE MoneyOK'
  BY <1>2 DEF Cancel
<1>3. ASSUME NEW t \in Tables, SweepStaleWaiting(t) PROVE MoneyOK'
  BY <1>3 DEF SweepStaleWaiting
<1>4. ASSUME NEW t \in Tables, Finish(t) PROVE MoneyOK'
  <2>1. PICK w \in Humans(table[t].seats) :
            Disburse(t, {w}, Bid * Cardinality(Humans(table[t].seats)))
    BY <1>4 DEF Finish
  <2>2. table[t].seats \in Seq(Agents)
    BY DEF TableOK, Row
  <2>3. {w} \in SUBSET (Agents \ House)
    BY <2>2, HumansType
  <2>4. Bid * Cardinality(Humans(table[t].seats)) \in Nat
    BY <2>2, SeatsFinite, TablesAssumption
  <2> QED BY <2>1, <2>3, <2>4, DisburseType
<1>5. ASSUME NEW r \in Requests, NEW a \in Agents, NEW t \in Tables, Begin(r, a,
    t) PROVE MoneyOK'
  BY <1>5 DEF Begin
<1>6. ASSUME NEW r \in Requests, Check(r) PROVE MoneyOK'
  BY <1>6 DEF Check
<1>7. ASSUME NEW r \in Requests, Sit(r) PROVE MoneyOK'
  BY <1>7 DEF Sit
<1>8. ASSUME NEW r \in Requests, Count(r) PROVE MoneyOK'
  BY <1>8 DEF Count
<1>9. ASSUME NEW r \in Requests, Stake(r) PROVE MoneyOK'
  <2>1. req[r].table \in Tables /\ Stakers(req[r]) \in SUBSET (Agents \ House)
    BY <1>9, Payers DEF Stake
  <2> QED BY <1>9, <2>1, StakeType, MoneyKept DEF Stake
<1>10. ASSUME NEW r \in Requests, Start(r) PROVE MoneyOK'
  BY <1>10 DEF Start
<1>11. ASSUME NEW r \in Requests, Refund(r) PROVE MoneyOK'
  <2>1. req[r].table \in Tables /\ Refunded(req[r]) \in SUBSET (Agents \ House)
    BY <1>11, Payers DEF Refund
  <2>2. Bid \in Nat
    BY TablesAssumption
  <2> QED BY <1>11, <2>1, <2>2, DisburseType DEF Refund
<1>12. ASSUME NEW r \in Requests, StakeFails(r) PROVE MoneyOK'
  <2>1. req[r].table \in Tables /\ Stakers(req[r]) \in SUBSET (Agents \ House)
    BY <1>12, Payers DEF StakeFails
  <2> QED BY <1>12, <2>1, StakeType DEF StakeFails
<1>13. ASSUME NEW r \in Requests, StartFails(r) PROVE MoneyOK'
  BY <1>13 DEF StartFails
<1>14. ASSUME NEW r \in Requests, RefundFails(r) PROVE MoneyOK'
  BY <1>14 DEF RefundFails
<1>15. ASSUME NEW r \in Requests, Lapse(r) PROVE MoneyOK'
  BY <1>15 DEF Lapse
<1>16. ASSUME NEW r \in Requests, Crash(r) PROVE MoneyOK'
  BY <1>16 DEF Crash
<1>17. ASSUME UNCHANGED vars PROVE MoneyOK'
  BY <1>17 DEF vars
<1> QED BY <1>1, <1>2, <1>3, <1>4, <1>5, <1>6, <1>7, <1>8, <1>9, <1>10, <1>11, <1>12,
    <1>13, <1>14, <1>15, <1>16, <1>17
    DEF Next, Step

\* The situation never changes, and no more goes wrong than the bound allows.
LEMMA WorldStep ==
    ASSUME world \in Situations, faults \in 0 .. MaxFaults, [Next]_vars
    PROVE  UNCHANGED world /\ faults' \in 0 .. MaxFaults
<1>1. \/ UNCHANGED <<world, faults>>
      \/ UNCHANGED world /\ (Fault("database") \/ Fault("lapse") \/ Fault("crash"))
  <2>1. ASSUME NEW t \in Tables, Create(t) \/ Cancel(t) \/ SweepStaleWaiting(t) \/ Finish(t)
        PROVE  UNCHANGED <<world, faults>>
    BY <2>1 DEF Create, Cancel, SweepStaleWaiting, Finish
  <2>2. ASSUME NEW r \in Requests, NEW a \in Agents, NEW t \in Tables, Begin(r, a, t)
        PROVE  UNCHANGED <<world, faults>>
    BY <2>2 DEF Begin
  <2>3. ASSUME NEW r \in Requests, Step(r) PROVE UNCHANGED <<world, faults>>
    BY <2>3 DEF Step, Check, Sit, Count, Stake, Start, Refund
  <2>4. ASSUME NEW r \in Requests,
               StakeFails(r) \/ StartFails(r) \/ RefundFails(r) \/ Lapse(r) \/ Crash(r)
        PROVE  UNCHANGED world /\ (Fault("database") \/ Fault("lapse") \/ Fault("crash"))
    <3>1. CASE StakeFails(r) \/ StartFails(r) \/ RefundFails(r)
      BY <3>1 DEF StakeFails, StartFails, RefundFails
    <3>2. CASE Lapse(r) \/ Crash(r)
      BY <3>2 DEF Lapse, Crash
    <3> QED BY <2>4, <3>1, <3>2
  <2>5. CASE UNCHANGED vars
    BY <2>5 DEF vars
  <2>6. CASE Next
    <3>1. CASE \E t \in Tables : Create(t) \/ Cancel(t) \/ SweepStaleWaiting(t) \/ Finish(t)
      BY <3>1, <2>1
    <3>2. CASE \E r \in Requests, a \in Agents, t \in Tables : Begin(r, a, t)
      BY <3>2, <2>2
    <3>3. CASE \E r \in Requests :
            Step(r) \/ StakeFails(r) \/ StartFails(r) \/ RefundFails(r) \/ Lapse(r) \/ Crash(r)
      BY <3>3, <2>3, <2>4
    <3> QED BY <2>6, <3>1, <3>2, <3>3 DEF Next
  <2> QED BY <2>5, <2>6
<1> QED BY <1>1, TablesAssumption DEF Fault

\* Every step keeps the types.
LEMMA TypeStep == Seated /\ [Next]_vars => TypeOK'
<1> SUFFICES ASSUME Seated, [Next]_vars PROVE TypeOK'
  OBVIOUS
<1>1. TypeOK /\ world \in Situations /\ faults \in 0 .. MaxFaults
  BY TypeParts DEF Seated
<1>2. world' \in Situations /\ faults' \in 0 .. MaxFaults
  BY <1>1, WorldStep
<1> QED BY <1>1, <1>2, TableStep, MoneyStep, RequestsStep DEF TypeOK, TableOK, MoneyOK, RequestsOK,
       Row, Known, Pass

\* A transaction that names no filler leaves the fillers' wallets alone.
LEMMA PostedToPlayers ==
    ASSUME MoneyOK, FillersHoldNothing, NEW t \in Tables, NEW S \in SUBSET (Agents \ House),
           PostStake(t, S)
    PROVE  FillersHoldNothing'
  BY TablesAssumption DEF FillersHoldNothing, MoneyOK, PostStake, Adjust, money

\* The same of a disbursement.
LEMMA DisbursedToPlayers ==
    ASSUME MoneyOK, FillersHoldNothing, NEW t \in Tables, NEW S \in SUBSET (Agents \ House), NEW n,
           Disburse(t, S, n)
    PROVE  FillersHoldNothing'
  BY TablesAssumption DEF FillersHoldNothing, MoneyOK, Disburse, Adjust, money

\* The same of a step without a transaction.
LEMMA FillersKept == FillersHoldNothing /\ UNCHANGED money => FillersHoldNothing'
  BY DEF FillersHoldNothing, money

\* No step pays a filler.
LEMMA FillersStep == Seated /\ [Next]_vars => FillersHoldNothing'
<1> SUFFICES ASSUME Seated, [Next]_vars PROVE FillersHoldNothing'
  OBVIOUS
<1> USE FillersKept
<1> TypeOK /\ TableOK /\ MoneyOK /\ FillersHoldNothing
  BY TypeParts DEF Seated
<1>1. ASSUME NEW t \in Tables, Create(t) PROVE FillersHoldNothing'
  BY <1>1 DEF Create
<1>2. ASSUME NEW t \in Tables, Cancel(t) PROVE FillersHoldNothing'
  BY <1>2 DEF Cancel
<1>3. ASSUME NEW t \in Tables, SweepStaleWaiting(t) PROVE FillersHoldNothing'
  BY <1>3 DEF SweepStaleWaiting
<1>4. ASSUME NEW t \in Tables, Finish(t) PROVE FillersHoldNothing'
  <2>1. PICK w \in Humans(table[t].seats) :
            Disburse(t, {w}, Bid * Cardinality(Humans(table[t].seats)))
    BY <1>4 DEF Finish
  <2>2. table[t].seats \in Seq(Agents)
    BY DEF TableOK, Row
  <2>3. {w} \in SUBSET (Agents \ House)
    BY <2>2, HumansType
  <2>4. Bid * Cardinality(Humans(table[t].seats)) \in Nat
    BY <2>2, SeatsFinite, TablesAssumption
  <2> QED BY <2>1, <2>3, <2>4, DisbursedToPlayers
<1>5. ASSUME NEW r \in Requests, NEW a \in Agents, NEW t \in Tables, Begin(r, a,
    t) PROVE FillersHoldNothing'
  BY <1>5 DEF Begin
<1>6. ASSUME NEW r \in Requests, Check(r) PROVE FillersHoldNothing'
  BY <1>6 DEF Check
<1>7. ASSUME NEW r \in Requests, Sit(r) PROVE FillersHoldNothing'
  BY <1>7 DEF Sit
<1>8. ASSUME NEW r \in Requests, Count(r) PROVE FillersHoldNothing'
  BY <1>8 DEF Count
<1>9. ASSUME NEW r \in Requests, Stake(r) PROVE FillersHoldNothing'
  <2>1. req[r].table \in Tables /\ Stakers(req[r]) \in SUBSET (Agents \ House)
    BY <1>9, Payers DEF Stake
  <2> QED BY <1>9, <2>1, PostedToPlayers, FillersKept DEF Stake
<1>10. ASSUME NEW r \in Requests, Start(r) PROVE FillersHoldNothing'
  BY <1>10 DEF Start
<1>11. ASSUME NEW r \in Requests, Refund(r) PROVE FillersHoldNothing'
  <2>1. req[r].table \in Tables /\ Refunded(req[r]) \in SUBSET (Agents \ House)
    BY <1>11, Payers DEF Refund
  <2>2. Bid \in Nat
    BY TablesAssumption
  <2> QED BY <1>11, <2>1, <2>2, DisbursedToPlayers DEF Refund
<1>12. ASSUME NEW r \in Requests, StakeFails(r) PROVE FillersHoldNothing'
  <2>1. req[r].table \in Tables /\ Stakers(req[r]) \in SUBSET (Agents \ House)
    BY <1>12, Payers DEF StakeFails
  <2> QED BY <1>12, <2>1, PostedToPlayers DEF StakeFails
<1>13. ASSUME NEW r \in Requests, StartFails(r) PROVE FillersHoldNothing'
  BY <1>13 DEF StartFails
<1>14. ASSUME NEW r \in Requests, RefundFails(r) PROVE FillersHoldNothing'
  BY <1>14 DEF RefundFails
<1>15. ASSUME NEW r \in Requests, Lapse(r) PROVE FillersHoldNothing'
  BY <1>15 DEF Lapse
<1>16. ASSUME NEW r \in Requests, Crash(r) PROVE FillersHoldNothing'
  BY <1>16 DEF Crash
<1>17. ASSUME UNCHANGED vars PROVE FillersHoldNothing'
  BY <1>17 DEF vars
<1> QED BY <1>1, <1>2, <1>3, <1>4, <1>5, <1>6, <1>7, <1>8, <1>9, <1>10, <1>11, <1>12,
    <1>13, <1>14, <1>15, <1>16, <1>17
    DEF Next, Step

\* A list read earlier is a prefix of a table that has grown since.
LEMMA Lengthened ==
    ASSUME NEW s \in Seq(Agents), NEW u \in Seq(Agents), NEW a \in Agents, Prefix(s, u)
    PROVE  Prefix(s, Append(u, a))
  BY Appended DEF Prefix

\* An opened table only grows.
LEMMA SeatsKept ==
    ASSUME TypeOK, NEW t \in Tables, table[t].status # "none",
           table'[t] = table[t] \/ Moved(t), NEW s \in Seq(Agents), Prefix(s, table[t].seats)
    PROVE  table'[t].status # "none" /\ Prefix(s, table'[t].seats)
<1>1. table[t].seats \in Seq(Agents)
  BY TypeParts DEF TableOK, Row
<1>2. ASSUME NEW r \in Requests, SeatTaken(t, r)
      PROVE  table'[t].status # "none" /\ Prefix(s, table'[t].seats)
  <2>1. req[r].agent \in Agents
    BY <1>2, InFlight DEF SeatTaken, Pass
  <2> QED BY <1>1, <1>2, <2>1, Lengthened DEF SeatTaken
<1>3. ASSUME NEW r \in Requests, Started(t, r)
      PROVE  table'[t].status # "none" /\ Prefix(s, table'[t].seats)
  <2>1. req[r].agent \in Agents
    BY <1>3, InFlight DEF Started, Pass
  <2> QED BY <1>1, <1>3, <2>1, Lengthened DEF Started
<1>4. CASE Closed(t)
  BY <1>4 DEF Closed
<1> QED BY <1>2, <1>3, <1>4 DEF Moved, Opened

\* No step seats a second player at a duel that waits: it starts it.
LEMMA DuelsWaitStep == Seated /\ [Next]_vars => DuelsWait'
<1> SUFFICES ASSUME Seated, [Next]_vars, NEW t \in Duels, table'[t].status = "waiting"
             PROVE  table'[t].seats = <<Host[t]>>
  BY DEF DuelsWait, Open
<1>1. TypeOK /\ t \in Tables /\ t \notin Mafia
  BY TablesAssumption DEF Seated, Tables
<1>2. table'[t] = table[t] \/ Moved(t)
  BY <1>1, TablesMove DEF TablesMoved
<1>3. \A r \in Requests : ~ SeatTaken(t, r)
  BY <1>1 DEF Seated, Invited, Joined, SeatTaken
<1>4. \A r \in Requests : ~ Started(t, r)
  BY DEF Started
<1>5. ~ Closed(t)
  BY DEF Closed
<1> QED BY <1>2, <1>3, <1>4, <1>5 DEF Moved, Opened, Seated, Invited, DuelsWait, Open

\* Every request is at an opened table; only a mafia table's joiner sits down first.
LEMMA JoinedStep == Seated /\ [Next]_vars => Joined'
<1> SUFFICES ASSUME Seated, [Next]_vars PROVE Joined'
  OBVIOUS
<1>1. TypeOK /\ TypeOK' /\ TablesMoved /\ RequestsMoved /\ Joined
  BY TypeStep, TablesMove, RequestsMove DEF Seated, Invited
<1>2. ASSUME NEW r \in Requests, req'[r] # Idle
      PROVE  /\ table'[req'[r].table].status # "none"
             /\ req'[r].pc \in {"sit", "count"} => req'[r].table \in Mafia
  <2>1. ASSUME NEW t \in Tables, table[t].status # "none"
        PROVE  table'[t].status # "none"
    <3>1. <<>> \in Seq(Agents) /\ table[t].seats \in Seq(Agents)
      BY <1>1, TypeParts DEF TableOK, Row
    <3>2. Prefix(<<>>, table[t].seats)
      BY <3>1 DEF Prefix
    <3> QED BY <1>1, <2>1, <3>1, <3>2, SeatsKept DEF TablesMoved
  <2>2. CASE req'[r] = req[r]
    <3>1. req[r] \in Pass
      BY <1>1, <1>2, <2>2, TypeParts DEF RequestsOK
    <3> QED BY <1>1, <1>2, <2>1, <2>2, <3>1 DEF Joined, Pass
  <2>3. CASE Began(r)
    BY <2>3 DEF Began
  <2>4. ASSUME req[r].pc # "idle" PROVE req[r] # Idle /\ req[r].table \in Tables
    BY <1>1, <2>4, InFlight DEF Pass
  <2>5. CASE Checked(r)
    <3> USE DEF Checked, At
    <3> QED BY <1>1, <2>4, <2>5 DEF Joined, Tables
  <2>6. CASE Counted(r)
    BY <1>1, <2>4, <2>6 DEF Counted, At, Joined
  <2>7. CASE Advanced(r, "sit", "count") \/ Advanced(r, "stake", "start") \/ Advanced(r, "start", "refund")
    BY <1>1, <2>1, <2>4, <2>7 DEF Advanced, At, Joined
  <2> QED BY <1>1, <1>2, <2>2, <2>3, <2>5, <2>6, <2>7 DEF RequestsMoved, Went
<1> QED BY <1>2 DEF Joined, Idle

\* A request begins with the checks.
LEMMA BeganAt == ASSUME NEW r, Began(r) PROVE req'[r].pc = "check"
<1> PICK a \in Agents, t \in Tables :
        req'[r] = [pc |-> "check", agent |-> a, table |-> t, seats |-> <<>>]
  BY DEF Began
<1> QED OBVIOUS

\* What a joiner was admitted by still holds when it sits down, but for those who came.
LEMMA NextSeatStep == Seated /\ [Next]_vars => NextSeat'
<1> SUFFICES ASSUME Seated, [Next]_vars, NEW r \in Requests, req'[r].pc = "sit"
             PROVE  /\ Prefix(req'[r].seats, table'[req'[r].table].seats)
                    /\ Welcome(req'[r].agent, req'[r].seats) /\ Len(req'[r].seats) < Roster
  BY DEF NextSeat
<1>1. TypeOK /\ TablesMoved /\ RequestsMoved /\ Joined /\ NextSeat
  BY TablesMove, RequestsMove DEF Seated, Invited
<1>2. CASE req'[r] = req[r]
  <2>1. req[r] \in Pass /\ req[r] # Idle
    BY <1>1, <1>2, InFlight
  <2>2. Prefix(req[r].seats, table'[req[r].table].seats)
    BY <1>1, <1>2, <2>1, SeatsKept DEF Joined, NextSeat, TablesMoved, Pass
  <2> QED BY <1>1, <1>2, <2>2 DEF NextSeat
<1>3. CASE Checked(r)
  <2> DEFINE t == req[r].table
  <2>1. req[r] \in Pass
    BY <1>1, <1>3, InFlight DEF Checked
  <2>2. t \in Mafia /\ table'[t] = table[t] /\ table[t].seats \in Seq(Agents)
    BY <1>1, <1>3, <2>1, TypeParts DEF Checked, At, Pass, Tables, TableOK, Row
  <2>3. req'[r].seats = table[t].seats /\ req'[r].agent = req[r].agent /\ req'[r].table = t
    BY <1>3 DEF Checked, At
  <2>4. Prefix(table[t].seats, table[t].seats)
    BY <2>2 DEF Prefix
  <2>5. Admissible(req[r].agent, t)
    BY <1>3 DEF Checked
  <2>6. Welcome(req[r].agent, table[t].seats) /\ Len(table[t].seats) < Roster
    BY <2>2, <2>5 DEF Admissible, Welcome
  <2> QED BY <2>2, <2>3, <2>4, <2>6
<1>4. req'[r] # Idle
  BY DEF Idle
<1>5. ~ Began(r)
  BY BeganAt
<1>6. ~ Counted(r)
  BY DEF Counted, At
<1>7. ~ Advanced(r, "sit", "count") /\ ~ Advanced(r, "stake", "start") /\ ~ Advanced(r, "start", "refund")
  BY DEF Advanced, At
<1> QED BY <1>1, <1>2, <1>3, <1>4, <1>5, <1>6, <1>7 DEF RequestsMoved, Went

\* What the second player of a duel was admitted by holds until it starts.
LEMMA SecondPlayerStep == Seated /\ [Next]_vars => SecondPlayer'
<1> SUFFICES ASSUME Seated, [Next]_vars, NEW r \in Requests,
                    req'[r].pc \in {"stake", "start", "refund"}, req'[r].table \in Duels
             PROVE  req'[r].agent \notin House /\ Welcome(req'[r].agent, <<Host[req'[r].table]>>)
  BY DEF SecondPlayer
<1>1. TypeOK /\ RequestsMoved /\ Joined /\ SecondPlayer /\ DuelsWait /\ FillersHoldNothing
  BY RequestsMove DEF Seated, Invited
<1>2. CASE req'[r] = req[r]
  BY <1>1, <1>2 DEF SecondPlayer
<1>3. CASE Checked(r)
  <2> DEFINE t == req[r].table
             a == req[r].agent
  <2>1. req[r] \in Pass
    BY <1>1, <1>3, InFlight DEF Checked
  <2>2. t \in Duels /\ t \notin Mafia /\ req'[r].agent = a /\ req'[r].table = t
    BY <1>3, TablesAssumption DEF Checked, At
  <2>3. Admissible(a, t)
    BY <1>3 DEF Checked
  <2>4. table[t].seats = <<Host[t]>>
    BY <1>1, <2>2, <2>3 DEF DuelsWait, Admissible
  <2>5. a \notin ToSet(<<Host[t]>>) /\ Owner[a] \notin Owners(<<Host[t]>>) /\ MayPlay(a)
    BY <2>2, <2>3, <2>4 DEF Admissible
  <2>6. a \notin House
    BY <1>1, <2>5, TablesAssumption DEF FillersHoldNothing, MayPlay
  <2> QED BY <2>2, <2>5, <2>6 DEF Welcome
<1>4. CASE Counted(r)
  BY <1>1, <1>4, TablesAssumption DEF Counted, At, Joined
<1>5. CASE Advanced(r, "stake", "start") \/ Advanced(r, "start", "refund")
  <2>1. /\ req'[r].agent = req[r].agent /\ req'[r].table = req[r].table
        /\ req[r].pc \in {"stake", "start"}
    BY <1>5 DEF Advanced, At
  <2> QED BY <1>1, <2>1 DEF SecondPlayer
<1>6. req'[r] # Idle
  BY DEF Idle
<1>7. ~ Began(r)
  BY BeganAt
<1>8. ~ Advanced(r, "sit", "count")
  BY DEF Advanced, At
<1> QED BY <1>1, <1>2, <1>3, <1>4, <1>5, <1>6, <1>7, <1>8 DEF RequestsMoved, Went

\* No two of these players are the same, or have the same developer behind them.
Distinct(s) == \A i, j \in DOMAIN s :
    i # j => s[i] # s[j] /\ ({s[i], s[j]} \subseteq House \/ Owner[s[i]] # Owner[s[j]])

\* A welcome player keeps the players distinct: fillers share an owner of their own.
LEMMA OneMore ==
    ASSUME NEW s \in Seq(Agents), NEW a \in Agents, Distinct(s), Welcome(a, s)
    PROVE  Distinct(Append(s, a))
<1> DEFINE u == Append(s, a)
<1>1. /\ DOMAIN u = 1 .. Len(s) + 1 /\ DOMAIN s = 1 .. Len(s) /\ u[Len(s) + 1] = a
      /\ \A i \in 1 .. Len(s) : u[i] = s[i] /\ s[i] \in Agents
      /\ Len(s) \in Nat
  BY Appended
<1>2. ASSUME NEW i \in DOMAIN s
      PROVE  s[i] # a /\ ({s[i], a} \subseteq House \/ Owner[s[i]] # Owner[a])
  <2>1. s[i] \in ToSet(s) /\ s[i] \in Agents
    BY <1>1 DEF ToSet
  <2>2. CASE Owner[a] \notin Owners(s)
    BY <2>1, <2>2 DEF Owners, Welcome
  <2>3. CASE a \in House
    BY <2>1, <2>3, HouseAssumption DEF Welcome
  <2> QED BY <2>2, <2>3 DEF Welcome
<1> HIDE DEF u
<1>3. ASSUME NEW i \in DOMAIN u, NEW j \in DOMAIN u, i # j
      PROVE  u[i] # u[j] /\ ({u[i], u[j]} \subseteq House \/ Owner[u[i]] # Owner[u[j]])
  <2>1. CASE i \in DOMAIN s /\ j \in DOMAIN s
    BY <1>1, <1>3, <2>1 DEF Distinct
  <2>2. CASE i \in DOMAIN s /\ j = Len(s) + 1
    BY <1>1, <1>2, <2>2
  <2>3. CASE i = Len(s) + 1 /\ j \in DOMAIN s
    BY <1>1, <1>2, <2>3
  <2> QED BY <1>1, <1>3, <2>1, <2>2, <2>3
<1> QED BY <1>3 DEF Distinct, u

\* Every step keeps the players and developers at a table distinct: a seat is taken only
\* if none was since the request read them (UNIQUE (match_id, seat)).
LEMMA OwnersStep == Seated /\ [Next]_vars => OwnersDistinct'
<1> DEFINE Fits(t, s) == Len(s) <= (IF t \in Duels THEN 2 ELSE Roster) /\ Distinct(s)
<1> SUFFICES ASSUME Seated, [Next]_vars, NEW t \in Tables
             PROVE  Fits(t, table'[t].seats)
  BY DEF OwnersDistinct, Distinct
<1>1. TypeOK /\ TablesMoved /\ Fits(t, table[t].seats) /\ table[t].seats \in Seq(Agents)
  BY TablesMove, TypeParts DEF Seated, OwnersDistinct, Distinct, TableOK, Row
<1>2. CASE Opened(t)
  <2>1. table'[t].seats = <<Host[t]>>
    BY <1>2 DEF Opened
  <2> QED BY <2>1, TablesAssumption DEF Distinct
<1>3. CASE Closed(t)
  BY <1>1, <1>3 DEF Closed
<1>4. ASSUME NEW r \in Requests, SeatTaken(t, r)
      PROVE  Fits(t, table'[t].seats)
  <2> DEFINE s == table[t].seats
             a == req[r].agent
  <2>1. req[r] \in Pass /\ req[r].table = t /\ req[r].pc = "sit"
    BY <1>1, <1>4, InFlight DEF SeatTaken
  <2>2. a \in Agents /\ req[r].seats \in Seq(Agents) /\ t \in Mafia /\ t \notin Duels
    BY <2>1, TablesAssumption DEF Pass, Seated, Invited, Joined
  <2>3. Prefix(req[r].seats, s) /\ Welcome(a, req[r].seats) /\ Len(req[r].seats) < Roster
    BY <2>1 DEF Seated, Invited, NextSeat
  <2>4. Len(s) = Len(req[r].seats)
    BY <1>4 DEF SeatTaken, SeatFree
  <2>5. s = req[r].seats
    BY <1>1, <2>2, <2>3, <2>4, SeqEqual DEF Prefix
  <2>6. table'[t].seats = Append(s, a)
    BY <1>4 DEF SeatTaken
  <2>7. Distinct(Append(s, a))
    BY <1>1, <2>2, <2>3, <2>5, OneMore
  <2>8. Len(Append(s, a)) = Len(s) + 1 /\ Len(s) \in Nat
    BY <1>1, <2>2
  <2> QED BY <2>2, <2>3, <2>5, <2>6, <2>7, <2>8, TablesAssumption
<1>5. ASSUME NEW r \in Requests, Started(t, r)
      PROVE  Fits(t, table'[t].seats)
  <2>1. CASE t \notin Duels
    BY <1>1, <1>5, <2>1 DEF Started
  <2>2. CASE t \in Duels
    <3> DEFINE a == req[r].agent
               s == <<Host[t]>>
    <3>1. req[r] \in Pass /\ req[r].table = t /\ req[r].pc = "start" /\ Open(t)
      BY <1>1, <1>5, InFlight DEF Started
    <3>2. a \in Agents /\ Welcome(a, s)
      BY <2>2, <3>1 DEF Pass, Seated, Invited, SecondPlayer
    <3>3. table[t].seats = s /\ Host[t] \in Agents
      BY <2>2, <3>1, TablesAssumption DEF Seated, Invited, DuelsWait
    <3>4. table'[t].seats = Append(s, a)
      BY <1>5, <2>2, <3>3 DEF Started
    <3>5. s \in Seq(Agents) /\ Len(s) = 1
      BY <3>3
    <3>6. Distinct(s)
      BY <1>1, <3>3
    <3>7. Distinct(Append(s, a))
      BY <3>2, <3>5, <3>6, OneMore
    <3>8. Len(Append(s, a)) = 2
      BY <3>2, <3>5
    <3> QED BY <2>2, <3>4, <3>7, <3>8
  <2> QED BY <2>1, <2>2
<1> QED BY <1>1, <1>2, <1>3, <1>4, <1>5 DEF TablesMoved, Moved

\* At first no table is open.
LEMMA SeatedInit == Init => Seated
<1> SUFFICES ASSUME Init PROVE Seated
  OBVIOUS
<1>1. world \in Situations /\ faults \in 0 .. MaxFaults
  BY TablesAssumption DEF Init
<1>2. TableOK
  BY TablesAssumption DEF Init, TableOK, Row, Known, Statuses
<1>3. MoneyOK
  BY <1>1, SituationsAssumption DEF Init, MoneyOK
<1>4. RequestsOK
  BY DEF Init, RequestsOK
<1>5. FillersHoldNothing
  BY <1>1, SituationsAssumption DEF Init, FillersHoldNothing
<1>6. Invited
  <2>1. \A t \in Tables : table[t].status = "none"
    BY DEF Init
  <2>2. \A r \in Requests : req[r] = Idle
    BY DEF Init
  <2>3. DuelsWait
    BY <2>1 DEF DuelsWait, Open, Tables
  <2>4. Joined /\ NextSeat /\ SecondPlayer
    BY <2>2 DEF Joined, NextSeat, SecondPlayer, Idle
  <2> QED BY <2>3, <2>4 DEF Invited
<1>7. OwnersDistinct
  BY TablesAssumption DEF Init, OwnersDistinct
<1> QED BY <1>1, <1>2, <1>3, <1>4, <1>5, <1>6, <1>7, TypeParts DEF Seated

\* Every step keeps who sits where in order.
LEMMA SeatedStep == Seated /\ [Next]_vars => Seated'
  BY TypeStep, FillersStep, DuelsWaitStep, JoinedStep, NextSeatStep, SecondPlayerStep, OwnersStep
     DEF Seated, Invited

\* In every reachable state the tables are seated as the code means them to be.
LEMMA SeatedAlways == Spec => []Seated
  BY SeatedInit, SeatedStep, PTL DEF Spec

\* The variables keep their types, no wallet is ever overdrawn, and a table has a starter
\* exactly when it has started (TypeOK).
THEOREM SeatingTypes == Spec => []TypeOK
<1>1. Seated => TypeOK
  BY DEF Seated
<1> QED BY SeatedAlways, <1>1, PTL

\* For any number of requests, agents and tables, and even when leases lapse: no
\* developer has two seats at a table, and no table more players than seats.
THEOREM SeatingOwnersDistinct == Spec => []OwnersDistinct
<1>1. Seated => OwnersDistinct
  BY DEF Seated
<1> QED BY SeatedAlways, <1>1, PTL

-----------------------------------------------------------------------------
(* Leases *)

\* Until it is lost, a lease keeps an agent to one request and a table to one joiner.
Leased == \A r \in Requests : req[r] # Idle =>
    /\ req[r].agent \notin excused => lease[req[r].agent] = r
    /\ req[r].table \notin excused => lease[req[r].table] = r

\* A lease held stays held, unless its request ends or loses it.
LeasesHeld ==
    /\ excused \subseteq excused'
    /\ \A r \in Requests, x \in Agents \cup Tables :
        lease[x] = r => \/ lease'[x] = r \/ req'[r] = Idle
                        \/ {req[r].agent, req[r].table} \subseteq excused' /\ UNCHANGED req

\* A step that moves no lease.
LEMMA LeasesStay == UNCHANGED lease /\ excused \subseteq excused' => LeasesHeld
  BY DEF LeasesHeld

\* A request that ends gives back its own leases only.
LEMMA DoneHeld ==
    ASSUME RequestsOK, NEW r \in Requests, Done(r), excused \subseteq excused'
    PROVE  LeasesHeld
  BY DEF Done, RequestsOK, LeasesHeld

\* No step takes a lease from the request that holds it, other than by losing it.
LEMMA LeasesHold == TypeOK /\ [Next]_vars => LeasesHeld
<1> SUFFICES ASSUME TypeOK, [Next]_vars PROVE LeasesHeld
  OBVIOUS
<1> USE TypeParts, LeasesStay, DoneHeld
<1>1. ASSUME NEW t \in Tables, Create(t) PROVE LeasesHeld
  BY <1>1 DEF Create
<1>2. ASSUME NEW t \in Tables, Cancel(t) PROVE LeasesHeld
  BY <1>2 DEF Cancel
<1>3. ASSUME NEW t \in Tables, SweepStaleWaiting(t) PROVE LeasesHeld
  BY <1>3 DEF SweepStaleWaiting
<1>4. ASSUME NEW t \in Tables, Finish(t) PROVE LeasesHeld
  BY <1>4 DEF Finish
<1>5. ASSUME NEW r \in Requests, NEW a \in Agents, NEW t \in Tables, Begin(r, a,
    t) PROVE LeasesHeld
  BY <1>5, TablesAssumption DEF Begin, Leases, RequestsOK, LeasesHeld
<1>6. ASSUME NEW r \in Requests, Check(r) PROVE LeasesHeld
  BY <1>6 DEF Check
<1>7. ASSUME NEW r \in Requests, Sit(r) PROVE LeasesHeld
  BY <1>7 DEF Sit
<1>8. ASSUME NEW r \in Requests, Count(r) PROVE LeasesHeld
  BY <1>8 DEF Count
<1>9. ASSUME NEW r \in Requests, Stake(r) PROVE LeasesHeld
  BY <1>9 DEF Stake
<1>10. ASSUME NEW r \in Requests, Start(r) PROVE LeasesHeld
  BY <1>10 DEF Start
<1>11. ASSUME NEW r \in Requests, Refund(r) PROVE LeasesHeld
  BY <1>11 DEF Refund
<1>12. ASSUME NEW r \in Requests, StakeFails(r) PROVE LeasesHeld
  BY <1>12 DEF StakeFails
<1>13. ASSUME NEW r \in Requests, StartFails(r) PROVE LeasesHeld
  BY <1>13 DEF StartFails
<1>14. ASSUME NEW r \in Requests, RefundFails(r) PROVE LeasesHeld
  BY <1>14 DEF RefundFails
<1>15. ASSUME NEW r \in Requests, Lapse(r) PROVE LeasesHeld
  BY <1>15 DEF Lapse, RequestsOK, LeasesHeld
<1>16. ASSUME NEW r \in Requests, Crash(r) PROVE LeasesHeld
  BY <1>16 DEF Crash
<1>17. ASSUME UNCHANGED vars PROVE LeasesHeld
  BY <1>17 DEF vars
<1> QED BY <1>1, <1>2, <1>3, <1>4, <1>5, <1>6, <1>7, <1>8, <1>9, <1>10, <1>11, <1>12,
    <1>13, <1>14, <1>15, <1>16, <1>17
    DEF Next, Step

\* Every step keeps the leases with their requests, or excuses what was lost.
LEMMA LeasedStep == Seated /\ Leased /\ [Next]_vars => Leased'
<1> SUFFICES ASSUME Seated, Leased, [Next]_vars, NEW r \in Requests, req'[r] # Idle
             PROVE  /\ req'[r].agent \notin excused' => lease'[req'[r].agent] = r
                    /\ req'[r].table \notin excused' => lease'[req'[r].table] = r
  BY DEF Leased
<1>1. TypeOK /\ RequestsMoved /\ LeasesHeld
  BY RequestsMove, LeasesHold DEF Seated
<1>2. CASE /\ req[r] # Idle
           /\ req'[r].agent = req[r].agent /\ req'[r].table = req[r].table
  <2>1. req[r] \in Pass
    BY <1>1, <1>2, TypeParts DEF RequestsOK
  <2>2. req[r].agent \in Agents \cup Tables /\ req[r].table \in Agents \cup Tables
    BY <2>1 DEF Pass
  <2> QED BY <1>1, <1>2, <2>2 DEF Leased, LeasesHeld
<1>3. CASE Began(r)
  <2>1. PICK a \in Agents, t \in Tables :
          /\ lease' = [lease EXCEPT ![a] = r, ![t] = r]
          /\ req'[r] = [pc |-> "check", agent |-> a, table |-> t, seats |-> <<>>]
    BY <1>3 DEF Began
  <2> QED BY <1>1, <2>1, TypeParts DEF RequestsOK
<1>4. CASE Went(r) /\ ~ Began(r)
  <2>1. req[r] # Idle
    BY <1>4 DEF Went, Checked, Counted, Advanced, Idle
  <2>2. req'[r].agent = req[r].agent /\ req'[r].table = req[r].table
    BY <1>4 DEF Went, Checked, Counted, Advanced, At
  <2> QED BY <1>2, <2>1, <2>2
<1> QED BY <1>1, <1>2, <1>3, <1>4 DEF RequestsMoved

\* Two requests of one agent, or at one table, are the same, until a lease is lost.
LEMMA Alone ==
    ASSUME TypeOK, Leased, NEW r \in Requests, NEW u \in Requests, req[r] # Idle, req[u] # Idle,
           \/ req[r].agent = req[u].agent /\ req[r].agent \notin excused
           \/ req[r].table = req[u].table /\ req[r].table \notin excused
    PROVE  r = u
  BY DEF Leased

\* Until it is lost, a lease is with its request.
LEMMA LeasedAlways == Spec => []Leased
<1>1. Init => Leased
  BY DEF Init, Leased
<1>2. Seated /\ Leased /\ [Next]_vars => Leased'
  BY LeasedStep
<1> QED BY <1>1, <1>2, SeatedAlways, PTL DEF Spec

\* The matches that an agent's own joins made active.
Own(a) == {t \in Active(a) : table[t].starter = a}

\* A request that passed the checks still finds room for one more.
Room ==
    /\ JoinsWithinLimit
    /\ \A r \in Requests :
        req[r].pc \in {"sit", "count", "stake", "start"} /\ req[r].agent \notin House \cup excused
          => Cardinality(Own(req[r].agent)) < world.limit

\* The matches an agent plays are finitely many.
LEMMA OwnFinite ==
    ASSUME NEW a
    PROVE  /\ IsFiniteSet(Active(a)) /\ IsFiniteSet(Own(a))
           /\ Cardinality(Own(a)) \in Nat /\ Cardinality(Active(a)) \in Nat
           /\ Cardinality(Own(a)) <= Cardinality(Active(a))
<1>1. Own(a) \subseteq Active(a) /\ Active(a) \subseteq Tables
  BY DEF Own, Active
<1> QED BY <1>1, TablesAssumption, FS_Subset, FS_CardinalityType

\* One step adds at most the table that the agent's only request activates.
LEMMA OwnGrows ==
    ASSUME TypeOK, Leased, TablesMoved, NEW a \in Agents \ excused
    PROVE  \/ Own(a)' \subseteq Own(a)
           \/ \E r \in Requests :
                /\ req[r].pc = "start" /\ req[r].agent = a /\ req'[r].pc \in {"idle", "refund"}
                /\ Own(a)' \subseteq Own(a) \cup {req[r].table}
<1>1. ASSUME NEW t \in Own(a)', t \notin Own(a)
      PROVE  \E r \in Requests : Started(t, r) /\ req[r].agent = a
  <2>1. /\ t \in Tables /\ table'[t].status = "active" /\ table'[t].starter = a
        /\ a \in ToSet(table'[t].seats)
    BY DEF Own, Active
  <2>2. table'[t] # table[t]
    BY <1>1, <2>1 DEF Own, Active
  <2>3. ~ Opened(t) /\ ~ Closed(t) /\ \A r \in Requests : ~ SeatTaken(t, r)
    BY <2>1 DEF Opened, Closed, SeatTaken
  <2>4. Moved(t)
    BY <2>1, <2>2 DEF TablesMoved
  <2>5. PICK r \in Requests : Started(t, r)
    BY <2>3, <2>4 DEF Moved
  <2>6. table'[t].starter = req[r].agent
    BY <2>5 DEF Started
  <2> QED BY <2>1, <2>5, <2>6
<1>2. CASE Own(a)' \subseteq Own(a)
  BY <1>2
<1>3. CASE ~ (Own(a)' \subseteq Own(a))
  <2>1. PICK t \in Own(a)' : t \notin Own(a)
    BY <1>3
  <2>2. PICK r \in Requests : Started(t, r) /\ req[r].agent = a
    BY <1>1, <2>1
  <2>3. ASSUME NEW u \in Own(a)', u \notin Own(a)
        PROVE  u = req[r].table
    <3>1. PICK q \in Requests : Started(u, q) /\ req[q].agent = a
      BY <1>1, <2>3
    <3>2. req[q] # Idle /\ req[r] # Idle
      BY <2>2, <3>1 DEF Started, Idle
    <3>3. q = r
      BY <2>2, <3>1, <3>2, Alone
    <3> QED BY <3>1, <3>3 DEF Started
  <2> QED BY <2>2, <2>3 DEF Started
<1> QED BY <1>2, <1>3

\* Every step keeps the matches of an agent's own joins within the limit: the join that
\* passed the check is the agent's only one, so none of its others can use up the room.
LEMMA RoomStep == Seated /\ Leased /\ Room /\ [Next]_vars => Room'
<1> SUFFICES ASSUME Seated, Leased, Room, [Next]_vars PROVE Room'
  OBVIOUS
<1>1. TypeOK /\ TablesMoved /\ RequestsMoved /\ excused \subseteq excused'
  BY TablesMove, RequestsMove, LeasesHold DEF Seated, LeasesHeld
<1>2. UNCHANGED world /\ world.limit \in Nat
  BY <1>1, WorldStep, SituationsAssumption DEF TypeOK
<1>3. ASSUME NEW a \in Agents \ (House \cup excused'), NEW S, Own(a)' \subseteq S, IsFiniteSet(S)
      PROVE  Cardinality(Own(a)') <= Cardinality(S)
  BY <1>3, FS_Subset
<1>4. ASSUME NEW a \in Agents \ (House \cup excused')
      PROVE  Cardinality(Own(a)') <= world.limit
  <2>1. a \in Agents \ excused /\ Cardinality(Own(a)) <= world.limit
    BY <1>1 DEF Room, JoinsWithinLimit, Own
  <2>2. CASE Own(a)' \subseteq Own(a)
    <3>1. Cardinality(Own(a)') <= Cardinality(Own(a)) /\ Cardinality(Own(a)') \in Nat
      BY <2>2, OwnFinite, FS_Subset, FS_CardinalityType
    <3> QED BY <1>2, <2>1, <3>1, OwnFinite
  <2>3. ASSUME NEW r \in Requests, req[r].pc = "start", req[r].agent = a,
               Own(a)' \subseteq Own(a) \cup {req[r].table}
        PROVE  Cardinality(Own(a)') <= world.limit
    <3> DEFINE S == Own(a) \cup {req[r].table}
    <3>1. Cardinality(Own(a)) < world.limit
      BY <1>1, <2>3 DEF Room
    <3>2. /\ IsFiniteSet(S) /\ Cardinality(S) \in Nat
          /\ Cardinality(S) = IF req[r].table \in Own(a) THEN Cardinality(Own(a)) ELSE Cardinality(Own(a)) + 1
      <4>1. IsFiniteSet(Own(a))
        BY OwnFinite
      <4> HIDE DEF Own
      <4> QED BY <4>1, FS_AddElement, FS_CardinalityType
    <3>3. Cardinality(Own(a)') <= Cardinality(S) /\ Cardinality(Own(a)') \in Nat
      BY <2>3, <3>2, FS_Subset, FS_CardinalityType
    <3> HIDE DEF S
    <3> QED BY <1>2, <3>1, <3>2, <3>3, OwnFinite
  <2> QED BY <1>1, <2>1, <2>2, <2>3, OwnGrows
<1>5. ASSUME NEW r \in Requests, NEW a, req'[r].agent = a, a \notin House \cup excused',
             req'[r].pc \in {"sit", "count", "stake", "start"}
      PROVE  Cardinality(Own(a)') < world.limit
  <2>1. req[r].pc \in {"check", "sit", "count", "stake", "start"} /\ req[r].agent = a /\ a \in Agents
    <3>1. req'[r] # Idle /\ ~ Began(r) /\ ~ Advanced(r, "start", "refund")
      BY <1>5, BeganAt DEF Idle, Advanced, At
    <3>2. CASE req'[r] = req[r]
      BY <1>1, <1>5, <3>2, InFlight DEF Pass
    <3>3. CASE Checked(r) \/ Counted(r)
      <4>1. req[r].pc \in {"check", "count"} /\ req'[r].agent = req[r].agent
        BY <3>3 DEF Checked, Counted, At
      <4> QED BY <1>1, <1>5, <4>1, InFlight DEF Pass
    <3>4. CASE Advanced(r, "sit", "count") \/ Advanced(r, "stake", "start")
      <4>1. req[r].pc \in {"sit", "stake"} /\ req'[r].agent = req[r].agent
        BY <3>4 DEF Advanced, At
      <4> QED BY <1>1, <1>5, <4>1, InFlight DEF Pass
    <3> QED BY <1>1, <3>1, <3>2, <3>3, <3>4 DEF RequestsMoved, Went
  <2>2. a \in Agents \ (House \cup excused') /\ a \in Agents \ excused
    BY <1>1, <1>5, <2>1
  <2>3. req[r] # Idle
    BY <2>1 DEF Idle
  <2>4. Own(a)' \subseteq Own(a)
    <3>1. ASSUME NEW u \in Requests, req[u].pc = "start", req[u].agent = a,
                 req'[u].pc \in {"idle", "refund"}
          PROVE  FALSE
      <4>1. u = r
        BY <1>1, <2>1, <2>2, <2>3, <3>1, Alone DEF Idle
      <4> QED BY <1>5, <3>1, <4>1
    <3> QED BY <1>1, <2>2, <3>1, OwnGrows
  <2>5. Cardinality(Own(a)) < world.limit
    <3>1. CASE req[r].pc = "check"
      <4>1. Checked(r)
        BY <1>1, <1>5, <3>1, BeganAt DEF RequestsMoved, Went, Counted, Advanced, Idle
      <4>2. MayPlay(a)
        BY <2>1, <2>2, <4>1 DEF Checked, Admissible
      <4> QED BY <1>2, <4>2, OwnFinite DEF MayPlay
    <3>2. CASE req[r].pc # "check"
      BY <2>1, <2>2, <3>2 DEF Room
    <3> QED BY <3>1, <3>2
  <2>6. Cardinality(Own(a)') <= Cardinality(Own(a)) /\ Cardinality(Own(a)') \in Nat
    BY <2>4, OwnFinite, FS_Subset, FS_CardinalityType
  <2> QED BY <1>2, <2>5, <2>6, OwnFinite
<1>6. \A a \in Agents \ (House \cup excused') :
        Cardinality({t \in Active(a)' : table'[t].starter = a}) <= world'.limit
  BY <1>2, <1>4 DEF Own
<1> QED BY <1>2, <1>5, <1>6 DEF Room, JoinsWithinLimit, Own, Active

\* For any number of requests, agents and tables: the matches that an agent's own joins
\* made active stay within max_concurrent_matches, unless a lease of that agent lapsed
\* under it.
THEOREM SeatingJoinsWithinLimit == Spec => []JoinsWithinLimit
<1>1. Init => Room
  <2> SUFFICES ASSUME Init PROVE Room
    OBVIOUS
  <2>1. world \in Situations /\ world.limit \in Nat
    BY SituationsAssumption DEF Init
  <2>2. ASSUME NEW a PROVE Own(a) = {}
    BY DEF Init, Own, Active
  <2>3. \A a \in Agents \ (House \cup excused) : Cardinality(Own(a)) <= world.limit
    BY <2>1, <2>2, FS_EmptySet
  <2>4. \A r \in Requests : req[r].pc = "idle"
    BY DEF Init, Idle
  <2> QED BY <2>3, <2>4 DEF Room, JoinsWithinLimit, Own
<1>2. Seated /\ Leased /\ Room /\ [Next]_vars => Room'
  BY RoomStep
<1>3. Room => JoinsWithinLimit
  BY DEF Room
<1> QED BY <1>1, <1>2, <1>3, SeatedAlways, LeasedAlways, PTL DEF Spec

-----------------------------------------------------------------------------
(* The escrow *)

\* What a table's two transactions took and gave: when no request is at it, ...
AtRest(row, took, gave) ==
    /\ row.status = "active" => took = Humans(row.seats) /\ gave = {}
    /\ row.status \in {"none", "waiting"} => took = {} /\ gave = {}
    /\ row.status = "aborted" => took = gave

\* ... and at every step of the one that is: none before it stakes, then its stakers';
\* its list of players stays the table's, and only an aborted table is refunded.
Held(row, took, gave, q) ==
    /\ q.pc = "check" => AtRest(row, took, gave)
    /\ q.pc # "check" => row.status \in {"waiting", "aborted"} /\ gave = {}
    /\ q.pc \in {"sit", "count", "stake"} => took = {}
    /\ q.pc \in {"start", "refund"} => took = Stakers(q)
    /\ q.pc = "refund" => row.status = "aborted"
    /\ q.pc \in {"stake", "start", "refund"} /\ q.table \in Mafia => q.seats = row.seats

EscrowAt(t) ==
    /\ (\A r \in Requests : req[r] # Idle => req[r].table # t)
        => AtRest(table[t], staked[t], paidOut[t])
    /\ \A r \in Requests : req[r] # Idle /\ req[r].table = t
        => Held(table[t], staked[t], paidOut[t], req[r])
Escrow == \A t \in Tables \ excused : EscrowAt(t)

\* What a step leaves alone at the tables it is not about.
Apart(t) ==
    \A v \in Tables \ {t} :
        table'[v] = table[v] /\ staked'[v] = staked[v] /\ paidOut'[v] = paidOut[v]

\* A table that a step is not about keeps its escrow.
LEMMA OtherTable ==
    ASSUME NEW t \in Tables, EscrowAt(t),
           table'[t] = table[t], staked'[t] = staked[t], paidOut'[t] = paidOut[t],
           \A r \in Requests : \/ req'[r] = req[r]
                               \/ /\ req[r] = Idle \/ req[r].table # t
                                  /\ req'[r] = Idle \/ req'[r].table # t
    PROVE  EscrowAt(t)'
  BY DEF EscrowAt

\* A step of the request that has table t.
LEMMA OneRequest ==
    ASSUME Leased, Escrow, excused \subseteq excused',
           NEW r \in Requests, NEW t \in Tables, req[r] # Idle, req[r].table = t, Apart(t),
           \A u \in Requests \ {r} : req'[u] = req[u],
           req'[r] = Idle \/ req'[r].table = t,
           t \notin excused' => IF req'[r] = Idle THEN AtRest(table'[t], staked'[t], paidOut'[t])
                                ELSE Held(table'[t], staked'[t], paidOut'[t], req'[r])
    PROVE  Escrow'
<1>1. ASSUME NEW v \in Tables \ excused', v # t
      PROVE  EscrowAt(v)'
  <2>1. EscrowAt(v) /\ table'[v] = table[v] /\ staked'[v] = staked[v] /\ paidOut'[v] = paidOut[v]
    BY <1>1 DEF Escrow, Apart
  <2> QED BY <1>1, <2>1, OtherTable
<1>2. ASSUME t \notin excused' PROVE EscrowAt(t)'
  <2>1. ASSUME NEW u \in Requests, req'[u] # Idle, req'[u].table = t
        PROVE  u = r
    BY <1>2, <2>1 DEF Leased
  <2>2. CASE req'[r] = Idle
    BY <1>2, <2>1, <2>2 DEF EscrowAt
  <2>3. CASE req'[r] # Idle
    BY <1>2, <2>1, <2>3 DEF EscrowAt
  <2> QED BY <2>2, <2>3
<1> QED BY <1>1, <1>2 DEF Escrow

\* What a request that is under way can rely on.
LEMMA SoleHolder ==
    ASSUME Seated, Escrow, NEW r \in Requests, req[r].pc # "idle"
    PROVE  /\ req[r] \in Pass /\ req[r] # Idle /\ req[r].table \in Tables /\ req[r].agent \in Agents
           /\ req[r].table \notin excused =>
                Held(table[req[r].table], staked[req[r].table], paidOut[req[r].table], req[r])
<1>1. req[r] \in Pass /\ req[r] # Idle
  BY InFlight DEF Seated
<1> QED BY <1>1 DEF Pass, Escrow, EscrowAt

\* Before it stakes, a request leaves the escrow at rest.
LEMMA RestsUnstaked ==
    ASSUME NEW row, NEW took, NEW gave, NEW q, Held(row, took, gave, q),
           q.pc \in {"check", "sit", "count", "stake"}
    PROVE  AtRest(row, took, gave)
  BY DEF Held, AtRest

\* A step without a transaction that writes no table.
LEMMA ApartKept == ASSUME UNCHANGED <<table, staked, paidOut>>, NEW t PROVE Apart(t)
  BY DEF Apart

\* A request that ends moves no other.
LEMMA OneReleased ==
    ASSUME RequestsOK, NEW r \in Requests, Done(r)
    PROVE  req'[r] = Idle /\ \A u \in Requests \ {r} : req'[u] = req[u]
  BY DEF Done, RequestsOK

\* A request that goes on moves no other.
LEMMA OneAdvanced ==
    ASSUME RequestsOK, NEW r \in Requests, req[r] \in Pass, NEW step, step # "idle", Goto(r, step)
    PROVE  /\ \A u \in Requests \ {r} : req'[u] = req[u]
           /\ req'[r] # Idle /\ req'[r].pc = step /\ req'[r].table = req[r].table
           /\ req'[r].agent = req[r].agent /\ req'[r].seats = req[r].seats
<1>1. At(r, step, req[r].seats) /\ req' = [req EXCEPT ![r] = req'[r]]
  BY GotoAt
<1>2. \A u \in Requests \ {r} : req'[u] = req[u]
  BY <1>1 DEF RequestsOK
<1> QED BY <1>1, <1>2 DEF At, Idle

\* The stake transaction of one table.
LEMMA OneStaked ==
    ASSUME MoneyOK, UNCHANGED table, NEW t \in Tables, NEW S, PostStake(t, S)
    PROVE  /\ Apart(t) /\ paidOut'[t] = paidOut[t]
           /\ staked'[t] = IF staked[t] = {} THEN S ELSE staked[t]
  BY DEF MoneyOK, PostStake, money, Apart

\* The disbursement transaction of one table.
LEMMA OnePaid ==
    ASSUME MoneyOK, UNCHANGED table, NEW t \in Tables, NEW S, NEW n, Disburse(t, S, n)
    PROVE  /\ Apart(t) /\ staked'[t] = staked[t]
           /\ paidOut'[t] = IF paidOut[t] = {} THEN S ELSE paidOut[t]
  BY DEF MoneyOK, Disburse, money, Apart

\* A step that moves no table, no request and no coins.
LEMMA EscrowKept ==
    ASSUME Escrow, UNCHANGED <<table, staked, paidOut, req>>, excused \subseteq excused'
    PROVE  Escrow'
  BY OtherTable DEF Escrow

\* A step about a table that is no request's.
LEMMA OneTable ==
    ASSUME Escrow, UNCHANGED <<req, excused>>, NEW t \in Tables, Apart(t),
           AtRest(table[t], staked[t], paidOut[t]) => AtRest(table'[t], staked'[t], paidOut'[t]),
           \/ \A r \in Requests : req[r] # Idle => req[r].table # t
           \/ \A q : Held(table[t], staked[t], paidOut[t], q)
                       => Held(table'[t], staked'[t], paidOut'[t], q)
    PROVE  Escrow'
<1>1. ASSUME NEW v \in Tables \ excused', v # t
      PROVE  EscrowAt(v)'
  BY <1>1, OtherTable DEF Escrow, Apart
<1>2. ASSUME t \notin excused PROVE EscrowAt(t)'
  BY <1>2 DEF Escrow, EscrowAt
<1> QED BY <1>1, <1>2 DEF Escrow

\* The players that sit at a table when it starts are those that staked for it.
LEMMA StartedHumans ==
    ASSUME Seated, NEW r \in Requests, req[r].pc = "start", NEW t \in Tables, req[r].table = t,
           Open(t), Held(table[t], staked[t], paidOut[t], req[r]), NEW s,
           s = IF t \in Duels THEN Append(table[t].seats, req[r].agent) ELSE table[t].seats
    PROVE  Stakers(req[r]) = Humans(s)
<1>1. CASE t \in Duels
  <2> DEFINE a == req[r].agent
  <2>1. a \in Agents \ House
    BY <1>1, InFlight DEF Pass, Seated, Invited, SecondPlayer
  <2>2. table[t].seats = <<Host[t]>> /\ Host[t] \in Agents \ House
    BY <1>1, TablesAssumption DEF Seated, Invited, DuelsWait
  <2>3. <<Host[t]>> \in Seq(Agents) /\ ToSet(<<Host[t]>>) = {Host[t]}
    BY <2>2 DEF ToSet
  <2>4. ToSet(s) = {Host[t], a}
    BY <1>1, <2>1, <2>2, <2>3, Appended
  <2> QED BY <1>1, <2>1, <2>2, <2>4 DEF Stakers, Humans
<1>2. CASE t \notin Duels
  BY <1>2 DEF Held, Stakers, Tables
<1> QED BY <1>1, <1>2

\* Every step keeps the escrow.
LEMMA EscrowStep == Seated /\ Leased /\ Escrow /\ [Next]_vars => Escrow'
<1> SUFFICES ASSUME Seated, Leased, Escrow, [Next]_vars PROVE Escrow'
  OBVIOUS
<1> USE TypeParts
<1> TypeOK /\ TableOK /\ MoneyOK /\ RequestsOK
  BY TypeParts DEF Seated
<1>1. ASSUME NEW t \in Tables, Create(t) PROVE Escrow'
  <2>1. /\ UNCHANGED <<req, excused, staked, paidOut>> /\ table[t].status = "none"
        /\ table' = [table EXCEPT ![t].status = "waiting", ![t].seats = <<Host[t]>>]
    BY <1>1 DEF Create, money
  <2>2. table[t] \in Row
    BY DEF TableOK
  <2>3. table' = [table EXCEPT ![t] = [table[t] EXCEPT !.status = "waiting",
      !.seats = <<Host[t]>>]]
    BY <2>1
  <2>4. table' = [table EXCEPT ![t] =
                     [status |-> "waiting", seats |-> <<Host[t]>>,
                         starter |-> table[t].starter]]
    BY <2>2, <2>3, StatusAndSeatsOf
  <2>5. table'[t] = [status |-> "waiting", seats |-> <<Host[t]>>,
      starter |-> table[t].starter]
    BY <2>4 DEF TableOK
  <2>6. Apart(t)
    BY <2>1 DEF TableOK, Apart
  <2>7. table'[t].status = "waiting" /\ Apart(t)
    BY <2>6, <2>5
  <2>8. AtRest(table[t], staked[t], paidOut[t]) => AtRest(table'[t], staked[t], paidOut[t])
    BY <2>1, <2>7 DEF AtRest
  <2>9. \A r \in Requests : req[r] # Idle => req[r].table # t
    BY <2>1 DEF Seated, Invited, Joined
  <2> QED BY <2>1, <2>7, <2>8, <2>9, OneTable
<1>2. ASSUME NEW t \in Tables, Cancel(t) PROVE Escrow'
  <2>1. /\ UNCHANGED <<req, excused, staked, paidOut>> /\ Open(t)
        /\ table' = [table EXCEPT ![t].status = "aborted"]
    BY <1>2 DEF Cancel, money
  <2>2. table'[t] = [status |-> "aborted", seats |-> table[t].seats,
      starter |-> table[t].starter]
    BY <2>1, StatusOf
  <2>3. Apart(t)
    BY <2>1 DEF TableOK, Apart
  <2>4. AtRest(table[t], staked[t], paidOut[t]) => AtRest(table'[t], staked[t], paidOut[t])
    BY <2>1, <2>2 DEF AtRest, Open
  <2>5. \A q : Held(table[t], staked[t], paidOut[t], q) => Held(table'[t], staked[t],
      paidOut[t], q)
    BY <2>2, <2>4 DEF Held
  <2> QED BY <2>1, <2>3, <2>4, <2>5, OneTable
<1>3. ASSUME NEW t \in Tables, SweepStaleWaiting(t) PROVE Escrow'
  <2>1. /\ UNCHANGED <<req, excused, staked, paidOut>> /\ Open(t)
        /\ table' = [table EXCEPT ![t].status = "aborted"]
    BY <1>3 DEF SweepStaleWaiting, money
  <2>2. table'[t] = [status |-> "aborted", seats |-> table[t].seats,
      starter |-> table[t].starter]
    BY <2>1, StatusOf
  <2>3. Apart(t)
    BY <2>1 DEF TableOK, Apart
  <2>4. AtRest(table[t], staked[t], paidOut[t]) => AtRest(table'[t], staked[t], paidOut[t])
    BY <2>1, <2>2 DEF AtRest, Open
  <2>5. \A q : Held(table[t], staked[t], paidOut[t], q) => Held(table'[t], staked[t],
      paidOut[t], q)
    BY <2>2, <2>4 DEF Held
  <2> QED BY <2>1, <2>3, <2>4, <2>5, OneTable
<1>4. ASSUME NEW t \in Tables, Finish(t) PROVE Escrow'
  <2>1. /\ UNCHANGED <<req, excused>> /\ table[t].status = "active"
        /\ table' = [table EXCEPT ![t].status = "over"]
    BY <1>4 DEF Finish
  <2>2. PICK w \in Humans(table[t].seats) :
            Disburse(t, {w}, Bid * Cardinality(Humans(table[t].seats)))
    BY <1>4 DEF Finish
  <2>3. Apart(t)
    BY <2>1, <2>2 DEF TableOK, MoneyOK, Disburse, money, Apart
  <2>4. table'[t] = [status |-> "over", seats |-> table[t].seats,
      starter |-> table[t].starter]
    BY <2>1, StatusOf
  <2>5. table'[t].status = "over"
    BY <2>4
  <2>6. AtRest(table'[t], staked'[t], paidOut'[t])
    BY <2>5 DEF AtRest
  <2>7. \A q : Held(table[t], staked[t], paidOut[t], q) => Held(table'[t], staked'[t],
      paidOut'[t], q)
    BY <2>1, <2>6 DEF Held
  <2> QED BY <2>1, <2>3, <2>6, <2>7, OneTable
<1>5. ASSUME NEW r \in Requests, NEW a \in Agents, NEW t \in Tables, Begin(r, a,
    t) PROVE Escrow'
  <2> DEFINE q == [pc |-> "check", agent |-> a, table |-> t, seats |-> <<>>]
  <2>1. /\ UNCHANGED <<table, staked, paidOut, excused>> /\ req[r] = Idle
        /\ lease[t] = Nobody /\ req' = [req EXCEPT ![r] = q]
    BY <1>5 DEF Begin, Leases, money
  <2>2. req'[r] = q /\ (\A u \in Requests \ {r} : req'[u] = req[u]) /\ q.table = t /\ q.pc = "check"
    BY <2>1 DEF RequestsOK
  <2> HIDE DEF q
  <2>3. ASSUME NEW v \in Tables \ excused', v # t
        PROVE  EscrowAt(v)'
    BY <2>1, <2>2, <2>3, OtherTable DEF Escrow
  <2>4. ASSUME t \notin excused'
        PROVE  EscrowAt(t)'
    <3>1. \A u \in Requests : req[u] # Idle => req[u].table # t
      BY <2>1, <2>4, TablesAssumption DEF Leased
    <3>2. AtRest(table[t], staked[t], paidOut[t])
      BY <2>1, <2>4, <3>1 DEF Escrow, EscrowAt
    <3>3. Held(table[t], staked[t], paidOut[t], q)
      BY <2>2, <3>2 DEF Held
    <3>4. q # Idle
      BY <2>2 DEF Idle
    <3> QED BY <2>1, <2>2, <3>1, <3>3, <3>4 DEF EscrowAt
  <2> QED BY <2>3, <2>4 DEF Escrow
<1>6. ASSUME NEW r \in Requests, Check(r) PROVE Escrow'
  <2> DEFINE q == req[r]
             t == q.table
  <2>1. /\ q \in Pass /\ q # Idle /\ t \in Tables /\ q.agent \in Agents /\ q.pc = "check"
        /\ t \notin excused => Held(table[t], staked[t], paidOut[t], q)
    BY <1>6, SoleHolder DEF Check
  <2>2. CASE Admissible(q.agent, t)
    <3>1. /\ UNCHANGED <<table, staked, paidOut, excused>> /\ Apart(t)
          /\ req' = [req EXCEPT ![r] = [pc |-> IF t \in Duels THEN "stake" ELSE "sit",
                       agent |-> q.agent, table |-> t, seats |-> table[t].seats]]
      BY <1>6, <2>1, <2>2, ReadAt, ApartKept DEF Check, money
    <3>2. /\ \A u \in Requests \ {r} : req'[u] = req[u]
          /\ req'[r].pc = IF t \in Duels THEN "stake" ELSE "sit"
          /\ req'[r].table = t
      BY <3>1 DEF RequestsOK
    <3>3. req'[r] # Idle
      BY <3>2 DEF Idle
    <3>4. Open(t)
      BY <2>2 DEF Admissible
    <3>5. t \notin excused => Held(table[t], staked[t], paidOut[t], req'[r])
      BY <2>1, <3>2, <3>4, TablesAssumption DEF Held, AtRest, Open
    <3> QED BY <2>1, <3>1, <3>2, <3>3, <3>5, OneRequest
  <2>3. CASE ~ Admissible(q.agent, t)
    <3>1. Done(r) /\ UNCHANGED <<table, staked, paidOut, excused>>
      BY <1>6, <2>3 DEF Check, money
    <3>2. t \notin excused => AtRest(table[t], staked[t], paidOut[t])
      BY <2>1, RestsUnstaked
    <3> QED BY <2>1, <3>1, <3>2, ApartKept, OneReleased, OneRequest
  <2> QED BY <2>2, <2>3
<1>7. ASSUME NEW r \in Requests, Sit(r) PROVE Escrow'
  <2> DEFINE q == req[r]
             t == q.table
  <2>1. /\ q \in Pass /\ q # Idle /\ t \in Tables /\ q.agent \in Agents /\ q.pc = "sit"
        /\ t \notin excused => Held(table[t], staked[t], paidOut[t], q)
    BY <1>7, SoleHolder DEF Sit
  <2>2. CASE Open(t) /\ SeatFree(t, q.seats)
    <3>1. /\ UNCHANGED <<staked, paidOut, excused>> /\ Goto(r, "count")
          /\ table' = [table EXCEPT ![t].seats = Append(@, q.agent)]
      BY <1>7, <2>2 DEF Sit, money
    <3>2. table[t] \in Row /\ Apart(t) /\ table'[t].status = table[t].status
      BY <2>1, <3>1 DEF TableOK, Row, Apart
    <3>3. t \notin excused => Held(table'[t], staked[t], paidOut[t], req'[r])
      BY <2>1, <3>1, <3>2, OneAdvanced DEF Held
    <3> QED BY <2>1, <3>1, <3>2, <3>3, OneAdvanced, OneRequest
  <2>3. CASE ~ (Open(t) /\ SeatFree(t, q.seats))
    <3>1. Done(r) /\ UNCHANGED <<table, staked, paidOut, excused>>
      BY <1>7, <2>3 DEF Sit, money
    <3>2. t \notin excused => AtRest(table[t], staked[t], paidOut[t])
      BY <2>1, RestsUnstaked
    <3> QED BY <2>1, <3>1, <3>2, ApartKept, OneReleased, OneRequest
  <2> QED BY <2>2, <2>3
<1>8. ASSUME NEW r \in Requests, Count(r) PROVE Escrow'
  <2> DEFINE q == req[r]
             t == q.table
  <2>1. /\ q \in Pass /\ q # Idle /\ t \in Tables /\ q.agent \in Agents /\ q.pc = "count"
        /\ t \notin excused => Held(table[t], staked[t], paidOut[t], q)
    BY <1>8, SoleHolder DEF Count
  <2>2. CASE ~ (Len(table[t].seats) < Roster)
    <3>1. /\ UNCHANGED <<table, staked, paidOut, excused>> /\ Apart(t)
          /\ req' = [req EXCEPT ![r] = [pc |-> "stake", agent |-> q.agent, table |-> t,
                                       seats |-> table[t].seats]]
      BY <1>8, <2>1, <2>2, ReadAt, ApartKept DEF Count, money
    <3>2. /\ \A u \in Requests \ {r} : req'[u] = req[u]
          /\ req'[r].pc = "stake" /\ req'[r].table = t /\ req'[r].seats = table[t].seats
      BY <3>1 DEF RequestsOK
    <3>3. req'[r] # Idle
      BY <3>2 DEF Idle
    <3>4. t \notin excused => Held(table[t], staked[t], paidOut[t], req'[r])
      BY <2>1, <3>2 DEF Held
    <3> QED BY <2>1, <3>1, <3>2, <3>3, <3>4, OneRequest
  <2>3. CASE Len(table[t].seats) < Roster
    <3>1. Done(r) /\ UNCHANGED <<table, staked, paidOut, excused>>
      BY <1>8, <2>3 DEF Count, money
    <3>2. t \notin excused => AtRest(table[t], staked[t], paidOut[t])
      BY <2>1, RestsUnstaked
    <3> QED BY <2>1, <3>1, <3>2, ApartKept, OneReleased, OneRequest
  <2> QED BY <2>2, <2>3
<1>9. ASSUME NEW r \in Requests, Stake(r) PROVE Escrow'
  <2> DEFINE q == req[r]
             t == q.table
  <2>1. /\ q \in Pass /\ q # Idle /\ t \in Tables /\ q.agent \in Agents /\ q.pc = "stake"
        /\ t \notin excused => Held(table[t], staked[t], paidOut[t], q)
    BY <1>9, SoleHolder DEF Stake
  <2>2. CASE Payable(t, Stakers(q))
    <3>1. /\ UNCHANGED <<table, excused>> /\ Goto(r, "start") /\ PostStake(t, Stakers(q))
      BY <1>9, <2>2 DEF Stake
    <3>2. /\ Apart(t) /\ paidOut'[t] = paidOut[t]
          /\ staked'[t] = IF staked[t] = {} THEN Stakers(q) ELSE staked[t]
      BY <2>1, <3>1, OneStaked
    <3>3. /\ \A u \in Requests \ {r} : req'[u] = req[u]
          /\ req'[r] # Idle /\ req'[r].pc = "start" /\ req'[r].table = t
          /\ req'[r].agent = q.agent /\ req'[r].seats = q.seats
      BY <2>1, <3>1, OneAdvanced
    <3>4. Stakers(req'[r]) = Stakers(q)
      BY <3>3 DEF Stakers
    <3>5. t \notin excused => Held(table[t], staked'[t], paidOut'[t], req'[r])
      BY <2>1, <3>2, <3>3, <3>4 DEF Held
    <3> QED BY <2>1, <3>1, <3>2, <3>3, <3>5, OneRequest
  <2>3. CASE ~ Payable(t, Stakers(q))
    <3>1. Done(r) /\ UNCHANGED <<table, staked, paidOut, excused>>
      BY <1>9, <2>3 DEF Stake, money
    <3>2. t \notin excused => AtRest(table[t], staked[t], paidOut[t])
      BY <2>1, RestsUnstaked
    <3> QED BY <2>1, <3>1, <3>2, ApartKept, OneReleased, OneRequest
  <2> QED BY <2>2, <2>3
<1>10. ASSUME NEW r \in Requests, Start(r) PROVE Escrow'
  <2> DEFINE q == req[r]
             t == q.table
  <2>1. /\ q \in Pass /\ q # Idle /\ t \in Tables /\ q.agent \in Agents /\ q.pc = "start"
        /\ t \notin excused => Held(table[t], staked[t], paidOut[t], q)
    BY <1>10, SoleHolder DEF Start
  <2>2. CASE Open(t)
    <3>1. UNCHANGED <<staked, paidOut, excused>> /\ Done(r) /\ table' = Running(q)
      BY <1>10, <2>2 DEF Start, money
    <3>2. /\ Apart(t) /\ table'[t].status = "active"
          /\ table'[t].seats = IF t \in Duels THEN Append(table[t].seats,
              q.agent) ELSE table[t].seats
      BY <2>1, <3>1 DEF Running, TableOK, Apart
    <3>3. t \notin excused => Stakers(q) = Humans(table'[t].seats)
      BY <2>1, <2>2, <3>2, StartedHumans
    <3>4. t \notin excused => AtRest(table'[t], staked[t], paidOut[t])
      BY <2>1, <3>2, <3>3 DEF Held, AtRest
    <3> QED BY <2>1, <3>1, <3>2, <3>4, OneReleased, OneRequest
  <2>3. CASE ~ Open(t)
    <3>1. UNCHANGED <<table, staked, paidOut, excused>> /\ Goto(r, "refund")
      BY <1>10, <2>3 DEF Start, money
    <3>2. /\ req'[r].pc = "refund" /\ req'[r].table = t
          /\ req'[r].agent = q.agent /\ req'[r].seats = q.seats
      BY <2>1, <3>1, OneAdvanced
    <3>3. Stakers(req'[r]) = Stakers(q)
      BY <3>2 DEF Stakers
    <3>4. t \notin excused => Held(table[t], staked[t], paidOut[t], req'[r])
      BY <2>1, <2>3, <3>2, <3>3 DEF Held, Open
    <3> QED BY <2>1, <3>1, <3>4, ApartKept, OneAdvanced, OneRequest
  <2> QED BY <2>2, <2>3
<1>11. ASSUME NEW r \in Requests, Refund(r) PROVE Escrow'
  <2> DEFINE q == req[r]
             t == q.table
  <2>1. /\ q \in Pass /\ q # Idle /\ t \in Tables /\ q.agent \in Agents /\ q.pc = "refund"
        /\ t \notin excused => Held(table[t], staked[t], paidOut[t], q)
    BY <1>11, SoleHolder DEF Refund
  <2>2. UNCHANGED <<table, excused>> /\ Done(r) /\ Disburse(t, Refunded(q), Bid)
    BY <1>11 DEF Refund
  <2>3. /\ Apart(t) /\ staked'[t] = staked[t]
        /\ paidOut'[t] = IF paidOut[t] = {} THEN Refunded(q) ELSE paidOut[t]
    BY <2>1, <2>2, OnePaid
  <2>4. t \notin excused => Refunded(q) = Stakers(q)
    BY <2>1, TablesAssumption DEF Held, Refunded, Stakers, Tables
  <2>5. t \notin excused => AtRest(table[t], staked'[t], paidOut'[t])
    BY <2>1, <2>3, <2>4 DEF Held, AtRest
  <2> QED BY <2>1, <2>2, <2>3, <2>5, OneReleased, OneRequest
<1>12. ASSUME NEW r \in Requests, StakeFails(r) PROVE Escrow'
  <2> DEFINE q == req[r]
             t == q.table
  <2>1. /\ q \in Pass /\ q # Idle /\ t \in Tables /\ q.agent \in Agents /\ q.pc = "stake"
        /\ t \notin excused => Held(table[t], staked[t], paidOut[t], q)
    BY <1>12, SoleHolder DEF StakeFails
  <2>2. /\ UNCHANGED table /\ Done(r) /\ PostStake(t, Stakers(q))
        /\ excused' = excused \cup {t}
    BY <1>12 DEF StakeFails
  <2>3. Apart(t)
    BY <2>1, <2>2, OneStaked
  <2> QED BY <2>1, <2>2, <2>3, OneReleased, OneRequest
<1>13. ASSUME NEW r \in Requests, StartFails(r) PROVE Escrow'
  <2> DEFINE q == req[r]
             t == q.table
  <2>1. /\ q \in Pass /\ q # Idle /\ t \in Tables /\ q.agent \in Agents /\ q.pc = "start"
        /\ t \notin excused => Held(table[t], staked[t], paidOut[t], q)
    BY <1>13, SoleHolder DEF StartFails
  <2>2. /\ UNCHANGED <<staked, paidOut>> /\ Goto(r, "refund") /\ excused' = excused \cup {t}
        /\ table' = Running(q) \/ UNCHANGED table
    BY <1>13 DEF StartFails, money
  <2>3. Apart(t)
    BY <2>1, <2>2 DEF Running, TableOK, Apart
  <2> QED BY <2>1, <2>2, <2>3, OneAdvanced, OneRequest
<1>14. ASSUME NEW r \in Requests, RefundFails(r) PROVE Escrow'
  <2> DEFINE q == req[r]
             t == q.table
  <2>1. /\ q \in Pass /\ q # Idle /\ t \in Tables /\ q.agent \in Agents /\ q.pc = "refund"
        /\ t \notin excused => Held(table[t], staked[t], paidOut[t], q)
    BY <1>14, SoleHolder DEF RefundFails
  <2>2. UNCHANGED <<table, staked, paidOut>> /\ Done(r) /\ excused' = excused \cup {t}
    BY <1>14 DEF RefundFails, money
  <2> QED BY <2>1, <2>2, ApartKept, OneReleased, OneRequest
<1>15. ASSUME NEW r \in Requests, Lapse(r) PROVE Escrow'
  <2>1. UNCHANGED <<table, staked, paidOut, req>> /\ excused \subseteq excused'
    BY <1>15 DEF Lapse, money
  <2> QED BY <2>1, EscrowKept
<1>16. ASSUME NEW r \in Requests, Crash(r) PROVE Escrow'
  <2> DEFINE q == req[r]
             t == q.table
  <2>1. /\ q \in Pass /\ q # Idle /\ t \in Tables /\ q.agent \in Agents
        /\ t \notin excused => Held(table[t], staked[t], paidOut[t], q)
    BY <1>16, SoleHolder DEF Crash
  <2>2. /\ UNCHANGED <<table, staked, paidOut>> /\ Done(r) /\ excused \subseteq excused'
        /\ q.pc \in {"start", "refund"} => t \in excused'
    BY <1>16 DEF Crash, money
  <2>3. t \notin excused' => q.pc \in {"check", "sit", "count", "stake"}
    BY <2>1, <2>2 DEF Pass
  <2>4. t \notin excused' => AtRest(table[t], staked[t], paidOut[t])
    BY <2>1, <2>2, <2>3, RestsUnstaked
  <2> QED BY <2>1, <2>2, <2>4, ApartKept, OneReleased, OneRequest
<1>17. ASSUME UNCHANGED vars PROVE Escrow'
  <2>1. UNCHANGED <<table, staked, paidOut, req>> /\ excused \subseteq excused'
    BY <1>17 DEF vars, money
  <2> QED BY <2>1, EscrowKept
<1> QED BY <1>1, <1>2, <1>3, <1>4, <1>5, <1>6, <1>7, <1>8, <1>9, <1>10, <1>11, <1>12,
    <1>13, <1>14, <1>15, <1>16, <1>17
    DEF Next, Step

-----------------------------------------------------------------------------
(* The coins of every table *)

\* The host sits first at every table that was opened.
HostFirst == \A t \in Tables : table[t].status # "none" => Prefix(<<Host[t]>>, table[t].seats)

\* A mafia table is staked with the list of its full roster, which stays its list.
FullRoster == \A r \in Requests :
    req[r].pc \in {"stake", "start", "refund"} /\ req[r].table \in Mafia =>
        req[r].seats = table[req[r].table].seats /\ Len(table[req[r].table].seats) = Roster

\* A duel is of two players, fillers excluded.
PairsPlay == \A t \in Duels : table[t].status = "active" => Cardinality(Humans(table[t].seats)) = 2

\* Whoever's request posted the stake, as many paid as there are seats to pay.
StakedBySeats == \A t \in Tables : staked[t] # {} =>
    /\ table[t].status # "none"
    /\ IF t \in Duels THEN Cardinality(staked[t]) = 2
       ELSE staked[t] = Humans(table[t].seats) /\ Len(table[t].seats) = Roster

\* Nothing starts, refunds or pays before a stake.
StakedBefore ==
    /\ \A r \in Requests : req[r].pc \in {"start", "refund"} => staked[req[r].table] # {}
    /\ \A t \in Tables : table[t].status = "active" \/ paidOut[t] # {} => staked[t] # {}

Backed == HostFirst /\ FullRoster /\ PairsPlay /\ StakedBySeats /\ StakedBefore

\* What a step does to the coins: one transaction of one table, or none.
StakePosted(r) ==
    /\ req[r].pc = "stake" /\ UNCHANGED table
    /\ Payable(req[r].table, Stakers(req[r])) /\ PostStake(req[r].table, Stakers(req[r]))
PrizePaid(t) ==
    /\ table[t].status = "active"
    /\ \E w \in Humans(table[t].seats) :
        Disburse(t, {w}, Bid * Cardinality(Humans(table[t].seats)))
RefundPosted(r) == req[r].pc = "refund" /\ Disburse(req[r].table, Refunded(req[r]), Bid)
MoneyMoved ==
    \/ UNCHANGED money
    \/ \E r \in Requests : StakePosted(r) \/ RefundPosted(r)
    \/ \E t \in Tables : PrizePaid(t)
\* Whoever goes on to the start has staked.
StakedOn == \A r \in Requests : req[r].pc = "stake" /\ req'[r].pc = "start" => StakePosted(r)

\* A request that does not leave the stake for the start.
LEMMA NoStakedOn ==
    ASSUME RequestsOK, NEW r \in Requests, \A u \in Requests \ {r} : req'[u] = req[u],
           req[r].pc # "stake" \/ req'[r] = Idle
    PROVE  StakedOn
<1> SUFFICES ASSUME NEW u \in Requests, req[u].pc = "stake", req'[u].pc = "start" PROVE FALSE
  BY DEF StakedOn
<1>1. u = r
  OBVIOUS
<1> QED BY <1>1 DEF Idle

\* The same when no request moves.
LEMMA NoneStakedOn == UNCHANGED req => StakedOn
  BY DEF StakedOn

\* Every step posts one transaction of one table, or none.
LEMMA MoneyMoves == TypeOK /\ [Next]_vars => MoneyMoved /\ StakedOn
<1> SUFFICES ASSUME TypeOK, [Next]_vars PROVE MoneyMoved /\ StakedOn
  OBVIOUS
<1> USE TypeParts, NoneStakedOn
<1> RequestsOK
  BY TypeParts
<1>1. ASSUME NEW t \in Tables, Create(t) \/ Cancel(t) \/ SweepStaleWaiting(t)
      PROVE  MoneyMoved /\ StakedOn
  BY <1>1 DEF Create, Cancel, SweepStaleWaiting, MoneyMoved
<1>2. ASSUME NEW t \in Tables, Finish(t) PROVE MoneyMoved /\ StakedOn
  <2>1. PrizePaid(t) /\ UNCHANGED req
    BY <1>2 DEF Finish, PrizePaid
  <2> QED BY <2>1 DEF MoneyMoved
<1>3. ASSUME NEW r \in Requests, NEW a \in Agents, NEW t \in Tables, Begin(r, a, t)
      PROVE  MoneyMoved /\ StakedOn
  <2>1. req[r].pc # "stake" /\ \A u \in Requests \ {r} : req'[u] = req[u]
    BY <1>3 DEF Begin, RequestsOK, Idle
  <2> QED BY <1>3, <2>1, NoStakedOn DEF Begin, MoneyMoved
<1>4. ASSUME NEW r \in Requests, Check(r) PROVE MoneyMoved /\ StakedOn
  <2>1. req[r].pc # "stake" /\ \A u \in Requests \ {r} : req'[u] = req[u]
    BY <1>4, OneReleased DEF Check, RequestsOK
  <2> QED BY <1>4, <2>1, NoStakedOn DEF Check, MoneyMoved
<1>5. ASSUME NEW r \in Requests, Sit(r) PROVE MoneyMoved /\ StakedOn
  <2>1. req[r].pc # "stake" /\ \A u \in Requests \ {r} : req'[u] = req[u]
    BY <1>5, OneReleased DEF Sit, Goto, RequestsOK
  <2> QED BY <1>5, <2>1, NoStakedOn DEF Sit, MoneyMoved
<1>6. ASSUME NEW r \in Requests, Count(r) PROVE MoneyMoved /\ StakedOn
  <2>1. req[r].pc # "stake" /\ \A u \in Requests \ {r} : req'[u] = req[u]
    BY <1>6, OneReleased DEF Count, RequestsOK
  <2> QED BY <1>6, <2>1, NoStakedOn DEF Count, MoneyMoved
<1>7. ASSUME NEW r \in Requests, Stake(r) PROVE MoneyMoved /\ StakedOn
  <2>1. CASE Payable(req[r].table, Stakers(req[r]))
    <3>1. StakePosted(r) /\ Goto(r, "start")
      BY <1>7, <2>1 DEF Stake, StakePosted
    <3>2. \A u \in Requests \ {r} : req'[u] = req[u]
      BY <3>1 DEF Goto, RequestsOK
    <3>3. \A u \in Requests : req[u].pc = "stake" /\ req'[u].pc = "start" => u = r
      BY <3>2
    <3> QED BY <3>1, <3>3 DEF MoneyMoved, StakedOn
  <2>2. CASE ~ Payable(req[r].table, Stakers(req[r]))
    <3>1. Done(r) /\ UNCHANGED money
      BY <1>7, <2>2 DEF Stake
    <3> QED BY <3>1, OneReleased, NoStakedOn DEF MoneyMoved
  <2> QED BY <2>1, <2>2
<1>8. ASSUME NEW r \in Requests, StakeFails(r) PROVE MoneyMoved /\ StakedOn
  <2>1. StakePosted(r) /\ Done(r)
    BY <1>8 DEF StakeFails, StakePosted
  <2> QED BY <2>1, OneReleased, NoStakedOn DEF MoneyMoved
<1>9. ASSUME NEW r \in Requests, Start(r) \/ StartFails(r) PROVE MoneyMoved /\ StakedOn
  <2>1. req[r].pc # "stake" /\ \A u \in Requests \ {r} : req'[u] = req[u]
    BY <1>9, OneReleased DEF Start, StartFails, Goto, RequestsOK
  <2> QED BY <1>9, <2>1, NoStakedOn DEF Start, StartFails, MoneyMoved
<1>10. ASSUME NEW r \in Requests, Refund(r) PROVE MoneyMoved /\ StakedOn
  <2>1. req[r].pc = "refund" /\ RefundPosted(r) /\ Done(r)
    BY <1>10 DEF Refund, RefundPosted
  <2> QED BY <2>1, OneReleased, NoStakedOn DEF MoneyMoved
<1>11. ASSUME NEW r \in Requests, RefundFails(r) \/ Crash(r) PROVE MoneyMoved /\ StakedOn
  <2>1. Done(r) /\ UNCHANGED money
    BY <1>11 DEF RefundFails, Crash
  <2> QED BY <2>1, OneReleased, NoStakedOn DEF MoneyMoved
<1>12. ASSUME NEW r \in Requests, Lapse(r) PROVE MoneyMoved /\ StakedOn
  BY <1>12 DEF Lapse, MoneyMoved
<1>13. ASSUME UNCHANGED vars PROVE MoneyMoved /\ StakedOn
  BY <1>13 DEF vars, MoneyMoved
<1> QED BY <1>1, <1>2, <1>3, <1>4, <1>5, <1>6, <1>7, <1>8, <1>9, <1>10, <1>11, <1>12, <1>13
    DEF Next, Step

\* A table's stake is posted once, for the request at its stake.
LEMMA StakesMove ==
    ASSUME TypeOK, MoneyMoved, NEW t \in Tables
    PROVE  \/ staked'[t] = staked[t]
           \/ staked[t] = {} /\ UNCHANGED table
              /\ \E r \in Requests : req[r].pc = "stake" /\ req[r].table = t
                                     /\ staked'[t] = Stakers(req[r])
<1>0. MoneyOK
  BY TypeParts
<1>1. CASE UNCHANGED money
  BY <1>1 DEF money
<1>2. ASSUME NEW r \in Requests, StakePosted(r)
      PROVE  \/ staked'[t] = staked[t]
             \/ /\ staked[t] = {} /\ UNCHANGED table
                /\ req[r].pc = "stake" /\ req[r].table = t /\ staked'[t] = Stakers(req[r])
  BY <1>0, <1>2 DEF StakePosted, PostStake, MoneyOK, money
<1>3. ASSUME NEW v, NEW S, NEW n, Disburse(v, S, n) PROVE staked'[t] = staked[t]
  BY <1>3 DEF Disburse, money
<1> QED BY <1>1, <1>2, <1>3 DEF MoneyMoved, PrizePaid, RefundPosted

\* Only an active table, or one about to be refunded, pays.
LEMMA PaymentsMove ==
    ASSUME TypeOK, MoneyMoved, NEW t \in Tables, paidOut'[t] # paidOut[t]
    PROVE  \/ table[t].status = "active"
           \/ \E r \in Requests : req[r].pc = "refund" /\ req[r].table = t
<1>0. MoneyOK
  BY TypeParts
<1>1. ~ UNCHANGED money
  BY DEF money
<1>2. \A r \in Requests : ~ StakePosted(r)
  BY DEF StakePosted, PostStake, money
<1>3. ASSUME NEW v, NEW S, NEW n, Disburse(v, S, n) PROVE v = t
  BY <1>0, <1>3 DEF Disburse, MoneyOK, money
<1> QED BY <1>1, <1>2, <1>3 DEF MoneyMoved, PrizePaid, RefundPosted

\* A duel's request is of two players.
LEMMA PairIs ==
    ASSUME Seated, NEW r \in Requests, req[r].pc \in {"stake", "start", "refund"},
           req[r].table \in Duels
    PROVE  /\ Cardinality({Host[req[r].table], req[r].agent}) = 2
           /\ Humans(Append(<<Host[req[r].table]>>, req[r].agent)) = {Host[req[r].table], req[r].agent}
<1> DEFINE h == Host[req[r].table]
           a == req[r].agent
<1>1. a \in Agents \ House /\ a \notin ToSet(<<h>>)
  BY InFlight DEF Pass, Seated, Invited, SecondPlayer, Welcome
<1>2. h \in Agents \ House
  BY TablesAssumption DEF Tables
<1> HIDE DEF h, a
<1>3. <<h>> \in Seq(Agents) /\ ToSet(<<h>>) = {h}
  BY <1>2 DEF ToSet
<1>4. Cardinality({h, a}) = 2
  <2>1. a \notin {h} /\ IsFiniteSet({h}) /\ Cardinality({h}) = 1
    BY <1>1, <1>3, FS_Singleton
  <2>2. Cardinality({h} \cup {a}) = Cardinality({h}) + 1
    BY <2>1, FS_AddElement
  <2>3. {h} \cup {a} = {h, a}
    OBVIOUS
  <2> QED BY <2>1, <2>2, <2>3
<1>5. Humans(Append(<<h>>, a)) = {h, a}
  <2> DEFINE s == <<h>>
  <2>1. s \in Seq(Agents) /\ ToSet(s) = {h} /\ a \in Agents
    BY <1>1, <1>3
  <2> HIDE DEF s
  <2>2. ToSet(Append(s, a)) = {h} \cup {a}
    BY <2>1, Appended
  <2> QED BY <1>1, <1>2, <2>2 DEF Humans, s
<1> QED BY <1>4, <1>5 DEF h, a

\* A full table's list stays as it is.
LEMMA FullStays ==
    ASSUME Seated, OwnersDistinct', TypeOK', TablesMoved, NEW t \in Mafia,
           table[t].status # "none", Len(table[t].seats) = Roster
    PROVE  table'[t].status # "none" /\ table'[t].seats = table[t].seats
<1>1. t \in Tables /\ t \notin Duels /\ Roster \in Nat
  BY TablesAssumption DEF Tables
<1>2. table[t].seats \in Seq(Agents) /\ table'[t].seats \in Seq(Agents)
  BY <1>1 DEF Seated, TypeOK
<1>3. Prefix(table[t].seats, table[t].seats)
  BY <1>2 DEF Prefix
<1>4. table'[t].status # "none" /\ Prefix(table[t].seats, table'[t].seats)
  BY <1>1, <1>2, <1>3, SeatsKept DEF Seated, TablesMoved
<1>5. Len(table'[t].seats) <= Roster
  BY <1>1 DEF OwnersDistinct
<1>6. Len(table[t].seats) = Len(table'[t].seats)
  BY <1>1, <1>2, <1>4, <1>5 DEF Prefix
<1> QED BY <1>2, <1>4, <1>6, SeqEqual DEF Prefix

\* Nobody takes the host's place.
LEMMA HostFirstStep == Seated /\ HostFirst /\ [Next]_vars => HostFirst'
<1> SUFFICES ASSUME Seated, HostFirst, [Next]_vars, NEW t \in Tables, table'[t].status # "none"
             PROVE  Prefix(<<Host[t]>>, table'[t].seats)
  BY DEF HostFirst
<1>1. TypeOK /\ (table'[t] = table[t] \/ Moved(t))
  BY TablesMove DEF Seated, TablesMoved
<1>2. <<Host[t]>> \in Seq(Agents)
  BY TablesAssumption
<1>3. CASE table[t].status # "none"
  BY <1>1, <1>2, <1>3, SeatsKept DEF HostFirst
<1>4. CASE table[t].status = "none"
  <2>1. table'[t].seats = <<Host[t]>>
    BY <1>1, <1>4 DEF Moved, Opened, Closed, SeatTaken, Started, Open
  <2> QED BY <1>2, <2>1 DEF Prefix
<1> QED BY <1>3, <1>4

\* What a request read of a full table stays true.
LEMMA FullRosterStep == Seated /\ FullRoster /\ [Next]_vars => FullRoster'
<1> SUFFICES ASSUME Seated, FullRoster, [Next]_vars, NEW r \in Requests,
                    req'[r].pc \in {"stake", "start", "refund"}, req'[r].table \in Mafia
             PROVE  /\ req'[r].seats = table'[req'[r].table].seats
                    /\ Len(table'[req'[r].table].seats) = Roster
  BY DEF FullRoster
<1>1. TypeOK /\ Seated' /\ TablesMoved /\ RequestsMoved /\ Joined
  BY SeatedStep, TablesMove, RequestsMove DEF Seated, Invited
<1>2. ASSUME req[r].pc \in {"stake", "start", "refund"}, req'[r].seats = req[r].seats,
             req'[r].table = req[r].table
      PROVE  /\ req'[r].seats = table'[req'[r].table].seats
             /\ Len(table'[req'[r].table].seats) = Roster
  <2>1. /\ req[r].seats = table[req[r].table].seats /\ Len(table[req[r].table].seats) = Roster
        /\ table[req[r].table].status # "none"
    BY <1>1, <1>2, InFlight DEF FullRoster, Joined
  <2>2. table'[req[r].table].seats = table[req[r].table].seats
    BY <1>1, <1>2, <2>1, FullStays DEF Seated
  <2> QED BY <1>2, <2>1, <2>2
<1>3. CASE req'[r] = req[r]
  BY <1>2, <1>3
<1>4. CASE Counted(r)
  <2> DEFINE t == req[r].table
  <2>1. /\ req'[r].table = t /\ req'[r].seats = table[t].seats /\ Len(table[t].seats) >= Roster
        /\ table'[t] = table[t]
    BY <1>4 DEF Counted, At
  <2>2. t \in Tables /\ t \notin Duels /\ table[t].seats \in Seq(Agents)
    BY <1>1, <2>1, TypeParts, TablesAssumption DEF Tables, TableOK, Row
  <2>3. Len(table[t].seats) <= Roster
    BY <2>2 DEF Seated, OwnersDistinct
  <2> QED BY <2>1, <2>2, <2>3, TablesAssumption
<1>5. CASE Advanced(r, "stake", "start") \/ Advanced(r, "start", "refund")
  BY <1>2, <1>5 DEF Advanced, At
<1>6. req'[r] # Idle
  BY DEF Idle
<1>7. ~ Began(r)
  BY BeganAt
<1>8. ~ Advanced(r, "sit", "count")
  BY DEF Advanced, At
<1>9. ~ Checked(r)
  BY TablesAssumption DEF Checked, At
<1> QED BY <1>1, <1>3, <1>4, <1>5, <1>6, <1>7, <1>8, <1>9 DEF RequestsMoved, Went

\* A duel starts with its host and the player that staked with it, or with another.
LEMMA PairsPlayStep == Seated /\ PairsPlay /\ [Next]_vars => PairsPlay'
<1> SUFFICES ASSUME Seated, PairsPlay, [Next]_vars, NEW t \in Duels, table'[t].status = "active"
             PROVE  Cardinality(Humans(table'[t].seats)) = 2
  BY DEF PairsPlay, Humans
<1>1. table'[t] = table[t] \/ Moved(t)
  BY TablesMove DEF Seated, TablesMoved, Tables
<1>2. CASE table'[t] = table[t]
  BY <1>2 DEF PairsPlay
<1>3. ASSUME NEW r \in Requests, Started(t, r)
      PROVE  Cardinality(Humans(table'[t].seats)) = 2
  <2>1. table'[t].seats = Append(<<Host[t]>>, req[r].agent)
    BY <1>3 DEF Started, Seated, Invited, DuelsWait
  <2>2. req[r].pc = "start" /\ req[r].table = t
    BY <1>3 DEF Started
  <2>3. Humans(table'[t].seats) = {Host[t], req[r].agent}
    BY <2>1, <2>2, PairIs
  <2> QED BY <2>2, <2>3, PairIs
<1>4. ~ Opened(t) /\ ~ Closed(t) /\ \A r \in Requests : ~ SeatTaken(t, r)
  BY DEF Opened, Closed, SeatTaken
<1> QED BY <1>1, <1>2, <1>3, <1>4 DEF Moved

\* Every stake is of as many players as will share it, and what it counted stays.
LEMMA StakedBySeatsStep ==
    Seated /\ FullRoster /\ StakedBySeats /\ [Next]_vars => StakedBySeats'
<1> SUFFICES ASSUME Seated, FullRoster, StakedBySeats, [Next]_vars,
                    NEW t \in Tables, staked'[t] # {}
             PROVE  /\ table'[t].status # "none"
                    /\ IF t \in Duels THEN Cardinality(staked'[t]) = 2
                       ELSE staked'[t] = Humans(table'[t].seats) /\ Len(table'[t].seats) = Roster
  BY DEF StakedBySeats, Humans
<1>1. TypeOK /\ Seated' /\ TablesMoved /\ MoneyMoved /\ Joined
  BY SeatedStep, TablesMove, MoneyMoves DEF Seated, Invited
<1>2. table[t].seats \in Seq(Agents) /\ <<>> \in Seq(Agents)
  BY <1>1, TypeParts DEF TableOK, Row
<1>3. CASE staked'[t] = staked[t]
  <2>1. table[t].status # "none"
    BY <1>3 DEF StakedBySeats
  <2>2. CASE t \in Duels
    <3>1. Prefix(<<>>, table[t].seats)
      BY <1>2 DEF Prefix
    <3>2. table'[t].status # "none"
      BY <1>1, <1>2, <2>1, <3>1, SeatsKept DEF TablesMoved
    <3> QED BY <1>3, <2>2, <3>2 DEF StakedBySeats
  <2>3. CASE t \notin Duels
    <3>1. t \in Mafia /\ staked[t] = Humans(table[t].seats) /\ Len(table[t].seats) = Roster
      BY <1>3, <2>3 DEF StakedBySeats, Tables
    <3>2. table'[t].status # "none" /\ table'[t].seats = table[t].seats
      BY <1>1, <2>1, <3>1, FullStays DEF Seated
    <3> QED BY <1>3, <2>3, <3>1, <3>2
  <2> QED BY <2>2, <2>3
<1>4. ASSUME NEW r \in Requests, req[r].pc = "stake", req[r].table = t, UNCHANGED table,
             staked'[t] = Stakers(req[r])
      PROVE  /\ table'[t].status # "none"
             /\ IF t \in Duels THEN Cardinality(staked'[t]) = 2
                ELSE staked'[t] = Humans(table'[t].seats) /\ Len(table'[t].seats) = Roster
  <2>1. table'[t] = table[t] /\ table[t].status # "none"
    BY <1>1, <1>4, InFlight DEF Joined
  <2>2. CASE t \in Duels
    BY <1>4, <2>1, <2>2, PairIs DEF Stakers
  <2>3. CASE t \notin Duels
    <3>1. t \in Mafia
      BY <2>3 DEF Tables
    <3> QED BY <1>4, <2>1, <2>3, <3>1 DEF FullRoster, Stakers
  <2> QED BY <2>2, <2>3
<1> QED BY <1>1, <1>3, <1>4, StakesMove

\* The host of an opened table is one of its players.
LEMMA HostSits ==
    ASSUME Seated, HostFirst, NEW t \in Tables, table[t].status # "none"
    PROVE  Host[t] \in Humans(table[t].seats)
<1> DEFINE s == table[t].seats
<1>1. Host[t] \in Agents \ House /\ s \in Seq(Agents)
  BY TablesAssumption, TypeParts DEF Seated, TableOK, Row
<1>2. Prefix(<<Host[t]>>, s)
  BY DEF HostFirst
<1> HIDE DEF s
<1>3. 1 \in DOMAIN s /\ s[1] = Host[t]
  BY <1>1, <1>2 DEF Prefix
<1>4. Host[t] \in Humans(s)
  BY <1>1, <1>3 DEF Humans, ToSet
<1> QED BY <1>4 DEF s

\* A table's host is one of its stakers, so that no stake is of nobody.
LEMMA StakersSome ==
    ASSUME Seated, HostFirst, FullRoster, NEW r \in Requests, req[r].pc = "stake"
    PROVE  Stakers(req[r]) # {}
<1> DEFINE t == req[r].table
<1>1. req[r] # Idle /\ t \in Tables /\ table[t].status # "none"
  BY InFlight DEF Seated, Invited, Joined, Pass
<1>2. CASE t \in Duels
  BY <1>2 DEF Stakers
<1>3. CASE t \notin Duels
  <2>1. Stakers(req[r]) = Humans(table[t].seats)
    BY <1>1, <1>3 DEF Stakers, FullRoster, Tables
  <2> QED BY <1>1, <2>1, HostSits
<1> QED BY <1>2, <1>3

\* The host is one of those a request refunds.
LEMMA RefundedSome ==
    ASSUME Seated, HostFirst, NEW r \in Requests, req[r].pc = "refund"
    PROVE  Refunded(req[r]) # {}
<1>1. req[r] # Idle /\ req[r].table \in Tables /\ table[req[r].table].status # "none"
  BY InFlight DEF Seated, Invited, Joined, Pass
<1> QED BY <1>1, HostSits DEF Refunded

\* No step starts, refunds or pays a table before its stake.
LEMMA StakedBeforeStep ==
    Seated /\ HostFirst /\ FullRoster /\ StakedBefore /\ [Next]_vars => StakedBefore'
<1> SUFFICES ASSUME Seated, HostFirst, FullRoster, StakedBefore, [Next]_vars PROVE StakedBefore'
  OBVIOUS
<1>1. TypeOK /\ MoneyOK /\ TablesMoved /\ RequestsMoved /\ MoneyMoved /\ StakedOn
  BY TablesMove, RequestsMove, MoneyMoves, TypeParts DEF Seated
<1>2. ASSUME NEW t \in Tables, staked[t] # {} PROVE staked'[t] # {}
  BY <1>1, <1>2, StakesMove
<1>3. ASSUME NEW r \in Requests, req[r].pc # "idle" PROVE req[r].table \in Tables
  BY <1>1, <1>3, InFlight DEF Pass
<1>4. ASSUME NEW r \in Requests, req'[r].pc \in {"start", "refund"}
      PROVE  staked'[req'[r].table] # {}
  <2>1. CASE req'[r] = req[r]
    BY <1>2, <1>3, <1>4, <2>1 DEF StakedBefore
  <2>2. CASE Advanced(r, "stake", "start")
    <3>1. req[r].pc = "stake" /\ req'[r].pc = "start" /\ req'[r].table = req[r].table
      BY <2>2 DEF Advanced, At
    <3>2. PostStake(req[r].table, Stakers(req[r]))
      BY <1>1, <3>1 DEF StakedOn, StakePosted
    <3>3. Stakers(req[r]) # {} /\ req[r].table \in Tables
      BY <1>3, <3>1, StakersSome
    <3> QED BY <1>1, <1>2, <3>1, <3>2, <3>3 DEF PostStake, MoneyOK
  <2>3. CASE Advanced(r, "start", "refund")
    <3>1. req[r].pc = "start" /\ req'[r].table = req[r].table
      BY <2>3 DEF Advanced, At
    <3> QED BY <1>2, <1>3, <3>1 DEF StakedBefore
  <2>4. req'[r] # Idle
    BY <1>4 DEF Idle
  <2>5. ~ Began(r)
    BY <1>4, BeganAt
  <2>6. ~ Checked(r) /\ ~ Counted(r) /\ ~ Advanced(r, "sit", "count")
    BY <1>4 DEF Checked, Counted, Advanced, At
  <2> QED BY <1>1, <2>1, <2>2, <2>3, <2>4, <2>5, <2>6 DEF RequestsMoved, Went
<1>5. ASSUME NEW t \in Tables, table'[t].status = "active" PROVE staked'[t] # {}
  <2>1. CASE table'[t] = table[t]
    BY <1>2, <1>5, <2>1 DEF StakedBefore
  <2>2. ASSUME NEW r \in Requests, Started(t, r) PROVE staked[t] # {}
    BY <2>2 DEF Started, StakedBefore
  <2>3. ~ Opened(t) /\ ~ Closed(t) /\ \A r \in Requests : ~ SeatTaken(t, r)
    BY <1>5 DEF Opened, Closed, SeatTaken
  <2> QED BY <1>1, <1>2, <2>3, <2>1, <2>2 DEF TablesMoved, Moved
<1>6. ASSUME NEW t \in Tables, paidOut'[t] # {} PROVE staked'[t] # {}
  <2>1. CASE paidOut'[t] = paidOut[t]
    BY <1>2, <1>6, <2>1 DEF StakedBefore
  <2>2. CASE paidOut'[t] # paidOut[t]
    BY <1>1, <1>2, <2>2, PaymentsMove DEF StakedBefore
  <2> QED BY <2>1, <2>2
<1> QED BY <1>4, <1>5, <1>6 DEF StakedBefore

\* In every reachable state every table's coins are its own.
LEMMA BackedAlways == Spec => []Backed
<1>1. Init => Backed
  <2> SUFFICES ASSUME Init PROVE Backed
    OBVIOUS
  <2>1. /\ \A t \in Tables : table[t].status = "none" /\ staked[t] = {} /\ paidOut[t] = {}
        /\ \A r \in Requests : req[r].pc = "idle"
    BY DEF Init, Idle
  <2>2. \A t \in Duels : t \in Tables
    BY DEF Tables
  <2> QED BY <2>1, <2>2 DEF Backed, HostFirst, FullRoster, PairsPlay, StakedBySeats, StakedBefore
<1>2. Seated /\ Backed /\ [Next]_vars => Backed'
  BY HostFirstStep, FullRosterStep, PairsPlayStep, StakedBySeatsStep, StakedBeforeStep DEF Backed
<1> QED BY <1>1, <1>2, SeatedAlways, PTL DEF Spec

\* What a table may still pay is what it took.
LEMMA BackedCovers == ASSUME Seated, Backed, NEW t \in Tables PROVE Covered(t)
<1> USE DEF Backed
<1>1. ASSUME table[t].status = "active"
      PROVE  staked[t] # {} /\ Cardinality(staked[t]) = Cardinality(Humans(table[t].seats))
  <2>1. staked[t] # {}
    BY <1>1 DEF StakedBefore
  <2> QED BY <1>1, <2>1 DEF StakedBySeats, PairsPlay
<1>2. ASSUME NEW r \in Requests, req[r].pc = "refund", req[r].table = t
      PROVE  staked[t] # {} /\ Cardinality(staked[t]) = Cardinality(Refunded(req[r]))
  <2>1. staked[t] # {}
    BY <1>2 DEF StakedBefore
  <2>2. t \in Duels => Cardinality(Refunded(req[r])) = 2
    BY <1>2, PairIs DEF Refunded
  <2>3. t \notin Duels => Refunded(req[r]) = Humans(table[t].seats)
    BY <1>2 DEF Refunded
  <2> QED BY <2>1, <2>2, <2>3 DEF StakedBySeats
<1> QED BY <1>1, <1>2 DEF Covered, StakedBefore
\* For any number of requests, agents and tables: an active table was staked by exactly
\* those that sit at it, and one that never started holds no coins or gave each payer its
\* own, unless a crash, an error or a lapsed lease cut off its stake; and whatever lapses,
\* dies or fails, no table pays with another's coins (EscrowIsTheSeats).
THEOREM SeatingEscrowIsTheSeats == Spec => []EscrowIsTheSeats
<1>1. Init => Escrow
  BY DEF Init, Escrow, EscrowAt, AtRest
<1>2. Seated /\ Leased /\ Escrow /\ [Next]_vars => Escrow'
  BY EscrowStep
<1>3. Seated /\ Backed /\ Escrow => EscrowIsTheSeats
  <2> SUFFICES ASSUME Seated, Backed, Escrow, NEW t \in Tables \ excused
               PROVE  /\ table[t].status = "active"
                           => staked[t] = Humans(table[t].seats) /\ paidOut[t] = {}
                      /\ table[t].status \in {"none", "waiting", "aborted"} /\ ~ InHand(t)
                           => staked[t] = paidOut[t]
    BY BackedCovers DEF EscrowIsTheSeats
  <2>1. EscrowAt(t)
    BY DEF Escrow
  <2>2. CASE \A r \in Requests : req[r] # Idle => req[r].table # t
    BY <2>1, <2>2 DEF EscrowAt, AtRest
  <2>3. ASSUME NEW r \in Requests, req[r] # Idle, req[r].table = t
        PROVE  /\ table[t].status = "active"
                    => staked[t] = Humans(table[t].seats) /\ paidOut[t] = {}
               /\ table[t].status \in {"none", "waiting", "aborted"} /\ ~ InHand(t)
                    => staked[t] = paidOut[t]
    <3>1. Held(table[t], staked[t], paidOut[t], req[r])
      BY <2>1, <2>3 DEF EscrowAt
    <3>2. CASE req[r].pc = "check"
      BY <3>1, <3>2 DEF Held, AtRest
    <3>3. CASE req[r].pc \in {"sit", "count", "stake"}
      BY <3>1, <3>3 DEF Held
    <3>4. CASE req[r].pc \in {"start", "refund"}
      BY <2>3, <3>1, <3>4 DEF Held, InHand
    <3>5. req[r] \in Pass
      BY <2>3, TypeParts DEF Seated, RequestsOK
    <3> QED BY <3>2, <3>3, <3>4, <3>5 DEF Pass
  <2> QED BY <2>2, <2>3
<1> QED BY <1>1, <1>2, <1>3, SeatedAlways, LeasedAlways, BackedAlways, PTL DEF Spec

-----------------------------------------------------------------------------
(* One escrow wallet, as if each table had its own *)

Parts == [t \in Tables |-> PartOf(t)]
Phases == [t \in Tables |-> PhaseOf(t)]

\* TableEscrow counts as this module does.
LEMMA SameCount ==
    ASSUME NEW S
    PROVE  Escrows!Cardinality(S) = Cardinality(S) /\ (Escrows!IsFiniteSet(S) <=> IsFiniteSet(S))
<1>1. Escrows!Cardinality(S) = Cardinality(S)
  BY Zenon DEF Cardinality, Escrows!Cardinality
<1>2. Escrows!IsFiniteSet(S) <=> IsFiniteSet(S)
  BY Zenon DEF IsFiniteSet, Escrows!IsFiniteSet
<1> QED BY <1>1, <1>2

\* A transaction of one table moves its part of the escrow and no other.
LEMMA OnePart ==
    ASSUME NEW t \in Tables,
           \A v \in Tables \ {t} : staked'[v] = staked[v] /\ paidOut'[v] = paidOut[v]
    PROVE  /\ Parts' = [Parts EXCEPT ![t] = PartOf(t)']
           /\ Phases' = [Phases EXCEPT ![t] = PhaseOf(t)']
<1>1. \A v \in Tables \ {t} : PartOf(v)' = Parts[v] /\ PhaseOf(v)' = Phases[v]
  BY DEF Parts, Phases, PartOf, PhaseOf
<1> HIDE DEF PartOf, PhaseOf
<1> QED BY <1>1 DEF Parts, Phases

\* A step without a transaction moves no part of the escrow.
LEMMA PartsKept == UNCHANGED money => UNCHANGED <<balance, Parts, Phases>>
  BY DEF money, Parts, Phases, PartOf, PhaseOf

\* Those who stake, and are refunded, are finitely many.
LEMMA PayersFinite ==
    ASSUME Seated, NEW r \in Requests, req[r].pc \in {"stake", "start", "refund"}
    PROVE  IsFiniteSet(Stakers(req[r])) /\ IsFiniteSet(Refunded(req[r]))
<1>1. req[r] \in Pass /\ req[r].seats \in Seq(Agents) /\ req[r].table \in Tables
  BY InFlight DEF Seated, Pass
<1>2. table[req[r].table].seats \in Seq(Agents)
  BY <1>1, TypeParts DEF Seated, TableOK, Row
<1>3. ASSUME NEW x, NEW y PROVE IsFiniteSet({x, y})
  <2>1. IsFiniteSet({x} \cup {y}) /\ {x} \cup {y} = {x, y}
    BY FS_Singleton, FS_AddElement
  <2> QED BY <2>1
<1> QED BY <1>1, <1>2, <1>3, SeatsFinite DEF Stakers, Refunded

\* A stake is collected, or the transaction is a replay.
LEMMA StakeCollects ==
    ASSUME Seated, Backed, Backed', NEW r \in Requests, StakePosted(r),
           NEW t \in Tables, t = req[r].table
    PROVE  Escrows!Collect(t) \/ UNCHANGED money
<1> PICK S : S = Stakers(req[r])
  OBVIOUS
<1>1. MoneyOK /\ S \in SUBSET (Agents \ House) /\ IsFiniteSet(S)
  BY TypeParts, Payers, PayersFinite DEF Seated, StakePosted
<1>2. Payable(t, S) /\ PostStake(t, S) /\ req[r].pc = "stake"
  BY DEF StakePosted
<1>3. S # {}
  BY <1>2, StakersSome DEF Backed
<1>4. CASE staked[t] # {}
  BY <1>2, <1>4 DEF PostStake
<1>5. CASE staked[t] = {}
  <2>1. /\ balance' = Adjust(S, -Bid) /\ staked' = [staked EXCEPT ![t] = S] /\ UNCHANGED paidOut
        /\ \A a \in S : balance[a] >= Bid
    BY <1>2, <1>5 DEF PostStake, Payable
  <2>2. paidOut[t] = {} /\ staked'[t] = S
    BY <1>1, <1>5, <2>1 DEF Backed, StakedBefore, MoneyOK
  <2>3. PartOf(t)' = Bid * Cardinality(S) /\ PhaseOf(t)' = "staked"
    BY <1>3, <2>1, <2>2 DEF PartOf, PhaseOf
  <2>4. Phases[t] = "open"
    BY <1>1, <1>5, <2>2 DEF Phases, PhaseOf
  <2>5. \A v \in Tables \ {t} : staked'[v] = staked[v] /\ paidOut'[v] = paidOut[v]
    BY <1>1, <2>1 DEF MoneyOK
  <2>6. /\ Parts' = [Parts EXCEPT ![t] = Bid * Cardinality(S)]
        /\ Phases' = [Phases EXCEPT ![t] = "staked"]
    BY <1>1, <2>3, <2>5, OnePart
  <2>7. S \in SUBSET {a \in Agents : balance[a] >= Bid}
    BY <1>1, <2>1
  <2>8. Escrows!Credit(S, -Bid)
    BY <2>1 DEF Escrows!Credit, Adjust
  <2>9. \E P \in SUBSET {a \in Agents : balance[a] >= Bid} :
            /\ P # {} /\ Escrows!IsFiniteSet(P) /\ Escrows!Credit(P, -Bid)
            /\ Parts' = [Parts EXCEPT ![t] = Bid * Escrows!Cardinality(P)]
    BY <1>1, <1>3, <2>6, <2>7, <2>8, SameCount
  <2> HIDE DEF PartOf, PhaseOf
  <2> QED BY <2>4, <2>6, <2>9 DEF Escrows!Collect, Parts, Phases
<1> QED BY <1>4, <1>5

\* A disbursement that is no replay closes the table's escrow.
LEMMA DisburseCloses ==
    ASSUME Seated, Backed, Backed', NEW t \in Tables, staked[t] # {}, paidOut[t] = {},
           NEW S, S # {}, NEW n, Disburse(t, S, n)
    PROVE  /\ Escrows!Close(t) /\ Escrows!Credit(S, n)
           /\ Parts[t] = Bid * Cardinality(staked[t])
<1>1. MoneyOK
  BY TypeParts DEF Seated
<1>2. balance' = Adjust(S, n) /\ paidOut' = [paidOut EXCEPT ![t] = S] /\ UNCHANGED staked
  BY DEF Disburse
<1>3. Phases[t] = "staked" /\ Parts[t] = Bid * Cardinality(staked[t])
  BY DEF Phases, PhaseOf, Parts, PartOf
<1>4. PartOf(t)' = 0 /\ PhaseOf(t)' = "closed"
  BY <1>1, <1>2 DEF PartOf, PhaseOf, MoneyOK
<1>5. \A v \in Tables \ {t} : staked'[v] = staked[v] /\ paidOut'[v] = paidOut[v]
  BY <1>1, <1>2 DEF MoneyOK
<1>6. Parts' = [Parts EXCEPT ![t] = 0] /\ Phases' = [Phases EXCEPT ![t] = "closed"]
  BY <1>4, <1>5, OnePart
<1>7. Escrows!Close(t)
  BY <1>3, <1>6 DEF Escrows!Close, Parts, Phases
<1>8. Escrows!Credit(S, n)
  BY <1>2 DEF Escrows!Credit, Adjust
<1> QED BY <1>3, <1>7, <1>8

\* A prize is all that the table took, and goes to one of its players.
LEMMA PrizeAwards ==
    ASSUME Seated, Backed, Backed', NEW t \in Tables, PrizePaid(t)
    PROVE  Escrows!Award(t) \/ UNCHANGED money
<1> DEFINE n == Bid * Cardinality(Humans(table[t].seats))
<1>1. PICK w \in Humans(table[t].seats) : Disburse(t, {w}, n)
  BY DEF PrizePaid
<1>2. /\ staked[t] # {} /\ Cardinality(staked[t]) = Cardinality(Humans(table[t].seats))
      /\ w \in Agents
  BY BackedCovers, HumansType, TypeParts DEF PrizePaid, Covered, Seated, TableOK, Row
<1>3. CASE paidOut[t] # {}
  BY <1>1, <1>3 DEF Disburse
<1>4. CASE paidOut[t] = {}
  <2>1. Escrows!Close(t) /\ Escrows!Credit({w}, n) /\ Parts[t] = Bid * Cardinality(staked[t])
    BY <1>1, <1>2, <1>4, DisburseCloses
  <2> QED BY <1>2, <2>1 DEF Escrows!Award, Parts
<1> QED BY <1>3, <1>4

\* A refund is all that the table took, a stake to each of as many as paid.
LEMMA RefundGivesBack ==
    ASSUME Seated, Backed, Backed', NEW r \in Requests, RefundPosted(r),
           NEW t \in Tables, t = req[r].table
    PROVE  Escrows!GiveBack(t) \/ UNCHANGED money
<1> PICK S : S = Refunded(req[r])
  OBVIOUS
<1>1. req[r].pc = "refund" /\ Disburse(t, S, Bid)
  BY DEF RefundPosted
<1>2. S \in SUBSET Agents /\ IsFiniteSet(S)
  BY <1>1, Payers, PayersFinite
<1>3. staked[t] # {} /\ Cardinality(staked[t]) = Cardinality(S)
  BY <1>1, <1>2, BackedCovers DEF Covered
<1>4. S # {}
  BY <1>1, RefundedSome DEF Backed
<1>5. CASE paidOut[t] # {}
  BY <1>1, <1>5 DEF Disburse
<1>6. CASE paidOut[t] = {}
  <2>1. Escrows!Close(t) /\ Escrows!Credit(S, Bid) /\ Parts[t] = Bid * Cardinality(S)
    BY <1>1, <1>2, <1>3, <1>4, <1>6, DisburseCloses
  <2>2. \E P \in SUBSET Agents :
            /\ Escrows!IsFiniteSet(P) /\ Parts[t] = Bid * Escrows!Cardinality(P)
            /\ Escrows!Credit(P, Bid)
    BY <1>2, <2>1, SameCount
  <2> QED BY <2>1, <2>2 DEF Escrows!GiveBack, Parts
<1> QED BY <1>5, <1>6

\* For any number of requests, agents and tables, whatever lapses, dies or fails: every
\* step of the tables' money is a step of TableEscrow, where a table's coins are collected
\* from wallets that can pay, once, and leave once and all together, so that none pays from
\* the coins of another (ImplementsTableEscrow).
THEOREM SeatingImplementsTableEscrow == Spec => ImplementsTableEscrow
<1>1. Init => Escrows!Init
  <2> SUFFICES ASSUME Init PROVE Escrows!Init
    OBVIOUS
  <2>1. balance \in [Agents -> Nat]
    BY SituationsAssumption DEF Init
  <2>2. \A t \in Tables : PartOf(t) = 0 /\ PhaseOf(t) = "open"
    <3>1. Bid * Cardinality({}) = 0
      BY FS_EmptySet, TablesAssumption
    <3> QED BY <3>1 DEF Init, PartOf, PhaseOf
  <2> HIDE DEF PartOf, PhaseOf
  <2> QED BY <2>1, <2>2 DEF Escrows!Init
<1>2. Seated /\ Backed /\ Backed' /\ [Next]_vars
        => [Escrows!Next]_<<balance, Parts, Phases>>
  <2> SUFFICES ASSUME Seated, Backed, Backed', [Next]_vars
               PROVE  Escrows!Next \/ UNCHANGED <<balance, Parts, Phases>>
    OBVIOUS
  <2>1. MoneyMoved
    BY MoneyMoves DEF Seated
  <2>2. ASSUME NEW r \in Requests, StakePosted(r) \/ RefundPosted(r)
        PROVE  Escrows!Next \/ UNCHANGED money
    <3> PICK t \in Tables : t = req[r].table
      BY <2>2, Payers DEF StakePosted, RefundPosted
    <3> QED BY <2>2, StakeCollects, RefundGivesBack DEF Escrows!Next
  <2>3. ASSUME NEW t \in Tables, PrizePaid(t)
        PROVE  Escrows!Next \/ UNCHANGED money
    BY <2>3, PrizeAwards DEF Escrows!Next
  <2> QED BY <2>1, <2>2, <2>3, PartsKept DEF MoneyMoved
<1>3. [Escrows!Next]_<<balance, Parts, Phases>> <=>
      [Escrows!Next]_<<balance, [t \in Tables |-> PartOf(t)], [t \in Tables |-> PhaseOf(t)]>>
  BY DEF Parts, Phases
<1> QED BY <1>1, <1>2, <1>3, SeatedAlways, BackedAlways, PTL
       DEF Spec, Escrows!Spec, ImplementsTableEscrow
=============================================================================
