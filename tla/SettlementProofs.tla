--------------------------- MODULE SettlementProofs ---------------------------
(***************************************************************************)
(* What module Settlement checks in eight small worlds holds in all of     *)
(* them: any number of requests, sweepers and disputes, however the board  *)
(* ends, whatever goes wrong.                                              *)
(***************************************************************************)
EXTENDS Settlement, FiniteSetTheorems, TLAPS

-----------------------------------------------------------------------------
(* A board is sealed once. *)

Finalizing == {"verdict", "refund", "gate", "hold", "settle", "finish", "rate"}

\* Every process is at a step of its own; a dispute that was not resolved did nothing.
Places ==
    /\ \A p \in Finalizers : pc[p] \in {"idle", "advance"} \cup Finalizing
    /\ \A d \in Disputes :
        /\ pc[d] \in {"idle", "claim", "refund", "read", "pay"}
        /\ dispute[d] = "open" => pc[d] = "idle"
        /\ pc[d] = "pay" => mine[d].board # "open"

\* Whoever is past the seal finalizes the board that is in the row; and whoever is
\* about to write another board than that read the row before somebody else logged an
\* event, and will be refused.
SealedOnce ==
    /\ \A p \in Finalizers :
        /\ pc[p] \in Finalizing \/ (pc[p] = "advance" /\ mine[p].adds = 0)
             => mine[p].board = match.board /\ match.board # "open"
        /\ pc[p] = "advance" /\ ~ Conflict(mine[p].seq)
             => match.board \in {"open", mine[p].board}
    /\ match.winner = IF Over THEN match.board ELSE "none"
    /\ Over => match.board # "open"

Order == TypeOK /\ Places /\ SealedOnce

\* What a process holds in memory, and the row of the match, when the log has n events.
Memory(n) == [board : Outcomes \cup {"open"}, seq : 0 .. n, adds : 0 .. 1, void : BOOLEAN]
Row(n) == [status : {"active", "finished"}, board : Outcomes \cup {"open"}, seq : 0 .. n,
           winner : Outcomes \cup {"none"}, rated : {"none", "rated", "blocked"}]

\* The log only grows, so a sequence number in memory stays one of its own.
LEMMA MemoryGrows ==
    ASSUME TypeOK, log' \in Nat, log <= log'
    PROVE  mine \in [Finalizers \cup Disputes -> Memory(log')]
<1>1. Memory(log) \subseteq Memory(log')
  <2>1. 0 .. log \subseteq 0 .. log'
    BY DEF TypeOK
  <2> QED BY <2>1 DEF Memory
<1>2. mine \in [Finalizers \cup Disputes -> Memory(log)]
  BY DEF TypeOK, Memory
<1> QED BY <1>1, <1>2

\* Whoever writes the row writes what he read, and logs what he counts on.
LEMMA TypeStep == Order /\ [Next]_vars => TypeOK'
<1> SUFFICES ASSUME Order, [Next]_vars PROVE TypeOK'
  OBVIOUS
<1> USE ActorsAssumption, SeatsAssumption, WorldsAssumption DEF Order, TypeOK, Places,
    SealedOnce, Finalizing, Finalizers, Conflict, Over, Steps, Outcomes, Nothing
<1>1. ASSUME NEW p \in Finalizers, Act(p) PROVE TypeOK'
  BY <1>1 DEF Act, Goto, facts, money, Enter, Read
<1>2. ASSUME NEW p \in Finalizers, Say(p) PROVE TypeOK'
  BY <1>2 DEF Say, Goto, facts, money, Enter, Read
<1>3. ASSUME NEW p \in Finalizers, HandleTimeout(p) PROVE TypeOK'
  <2>1. pc' \in [Finalizers \cup Disputes -> Steps]
    BY <1>3 DEF HandleTimeout, Enter, Goto
  <2>2. lease' \in Finalizers \cup {"free"}
    BY <1>3 DEF HandleTimeout, Enter
  <2>3. UNCHANGED <<world, failed, match, log, proven, flagged, hold, outs, dispute>>
    BY <1>3 DEF HandleTimeout, Enter, facts, money
  <2>4. mine' \in [Finalizers \cup Disputes -> Memory(log')]
    <3>1. world.forced \in Outcomes
      OBVIOUS
    <3>2. PICK b \in Outcomes \cup {"open"}, n \in 0 .. 1 : Read(p, b, n)
      BY <1>3, <3>1 DEF HandleTimeout
    <3> DEFINE r == [board |-> b, seq |-> match.seq, adds |-> n, void |-> FALSE]
    <3>3. r \in Memory(log')
      BY <2>3 DEF Memory
    <3>4. mine' = [mine EXCEPT ![p] = r]
      BY <3>2 DEF Read
    <3>5. mine \in [Finalizers \cup Disputes -> Memory(log')]
      BY <2>3, MemoryGrows
    <3> HIDE DEF r
    <3> QED BY <3>3, <3>4, <3>5
  <2> QED BY <2>1, <2>2, <2>3, <2>4 DEF Memory
<1>4. ASSUME NEW p \in Finalizers, Advance(p) PROVE TypeOK'
  <2>1. log \in Nat /\ log' \in Nat /\ log <= log' /\ mine[p].seq + mine[p].adds \in 0 .. log'
    BY <1>4 DEF Advance
  <2>2. match' \in Row(log')
    <3>1. match' = [status |-> match.status, board |-> mine[p].board,
                    seq |-> mine[p].seq + mine[p].adds,
                    winner |-> match.winner, rated |-> match.rated]
      BY <1>4 DEF Advance, Wrote
    <3> QED BY <2>1, <3>1 DEF Row
  <2>3. mine' \in [Finalizers \cup Disputes -> Memory(log')]
    <3> DEFINE r == [mine[p] EXCEPT !.seq = @ + mine[p].adds]
    <3>0. mine \in [Finalizers \cup Disputes -> Memory(log')]
      BY <2>1, MemoryGrows
    <3>1. r \in Memory(log')
      BY <2>1, <3>0 DEF Memory
    <3>2. mine' = [mine EXCEPT ![p] = r]
      BY <1>4 DEF Advance, Wrote
    <3> HIDE DEF r
    <3> QED BY <3>0, <3>1, <3>2
  <2>4. pc' \in [Finalizers \cup Disputes -> Steps]
    BY <1>4 DEF Advance, ThenFinalize, Leave, Goto
  <2>5. lease' \in Finalizers \cup {"free"}
    BY <1>4 DEF Advance, ThenFinalize, Leave
  <2>6. UNCHANGED <<world, failed, proven, flagged, hold, outs, dispute>>
    BY <1>4 DEF Advance, facts, money
  <2> QED BY <2>1, <2>2, <2>3, <2>4, <2>5, <2>6 DEF Memory, Row
<1>5. ASSUME NEW p \in Finalizers, AdvanceRefused(p) PROVE TypeOK'
  BY <1>5 DEF AdvanceRefused, Goto, facts, money, Leave
<1>6. ASSUME NEW p \in Finalizers, Verdict(p) PROVE TypeOK'
  <2>1. pc' \in [Finalizers \cup Disputes -> Steps]
    BY <1>6 DEF Verdict, GoOn, Goto
  <2>2. UNCHANGED <<failed, world, lease, match, log, proven, flagged, hold, outs, dispute>>
    BY <1>6 DEF Verdict, GoOn, facts
  <2>3. mine' \in [Finalizers \cup Disputes -> Memory(log')]
    <3> DEFINE v == IntegrityFailed
    <3> DEFINE r == [mine[p] EXCEPT !.void = v]
    <3>1. v \in BOOLEAN
      BY DEF IntegrityFailed
    <3>2. mine' = [mine EXCEPT ![p].void = v]
      BY <1>6 DEF Verdict
    <3> HIDE DEF v
    <3>0. mine \in [Finalizers \cup Disputes -> Memory(log')]
      BY <2>2, MemoryGrows
    <3>3. r \in Memory(log')
      BY <3>0, <3>1 DEF Memory
    <3>4. mine' = [mine EXCEPT ![p] = r]
      BY <3>2
    <3> HIDE DEF r
    <3> QED BY <3>0, <3>3, <3>4
  <2> QED BY <2>1, <2>2, <2>3 DEF Memory
<1>7. ASSUME NEW p \in Finalizers, VerdictUnreadable(p) PROVE TypeOK'
  <2>1. pc' \in [Finalizers \cup Disputes -> Steps]
    BY <1>7 DEF VerdictUnreadable, GoOn, Goto
  <2>2. UNCHANGED <<world, lease, match, log, proven, flagged, hold, outs, dispute>>
    BY <1>7 DEF VerdictUnreadable, GoOn, facts
  <2>3. mine' \in [Finalizers \cup Disputes -> Memory(log')]
    <3> DEFINE v == FALSE
    <3> DEFINE r == [mine[p] EXCEPT !.void = v]
    <3>1. v \in BOOLEAN
      BY Zenon
    <3>2. mine' = [mine EXCEPT ![p].void = v]
      BY <1>7 DEF VerdictUnreadable
    <3> HIDE DEF v
    <3>0. mine \in [Finalizers \cup Disputes -> Memory(log')]
      BY <2>2, MemoryGrows
    <3>3. r \in Memory(log')
      BY <3>0, <3>1 DEF Memory
    <3>4. mine' = [mine EXCEPT ![p] = r]
      BY <3>2
    <3> HIDE DEF r
    <3> QED BY <3>0, <3>3, <3>4
  <2>4. failed' \subseteq world'.faults
    BY <1>7, <2>2 DEF VerdictUnreadable, Fault
  <2> QED BY <2>1, <2>2, <2>3, <2>4 DEF Memory
<1>8. ASSUME NEW p \in Finalizers, Refund(p) PROVE TypeOK'
  BY <1>8 DEF Refund, Goto, facts, money, GoOn, Disburse, DisburseKey
<1>9. ASSUME NEW p \in Finalizers, Gate(p) PROVE TypeOK'
  BY <1>9 DEF Gate, Goto, facts, money, GoOn
<1>10. ASSUME NEW p \in Finalizers, GateUnreadable(p) PROVE TypeOK'
  BY <1>10 DEF GateUnreadable, Goto, facts, money, GoOn, Fault
<1>11. ASSUME NEW p \in Finalizers, RecordHold(p) PROVE TypeOK'
  BY <1>11 DEF RecordHold, Goto, facts, money, GoOn
<1>12. ASSUME NEW p \in Finalizers, RecordHoldFails(p) PROVE TypeOK'
  BY <1>12 DEF RecordHoldFails, Goto, facts, money, GoOn, Fault
<1>13. ASSUME NEW p \in Finalizers, Settle(p) PROVE TypeOK'
  BY <1>13 DEF Settle, Goto, facts, money, GoOn, Disburse, DisburseKey
<1>14. ASSUME NEW p \in Finalizers, Finish(p) PROVE TypeOK'
  <2>1. log \in Nat /\ log' \in Nat /\ log <= log' /\ mine[p].seq + 1 \in 0 .. log'
    BY <1>14 DEF Finish
  <2>2. match' \in Row(log')
    <3>1. match' = [status |-> "finished", board |-> match.board, seq |-> mine[p].seq + 1,
                    winner |-> mine[p].board, rated |-> match.rated]
      BY <1>14 DEF Finish
    <3>2. mine[p].board \in Outcomes
      BY <1>14 DEF Finish
    <3> QED BY <2>1, <3>1, <3>2 DEF Row
  <2>3. mine' \in [Finalizers \cup Disputes -> Memory(log')]
    BY <1>14, <2>1, MemoryGrows DEF Finish
  <2>4. pc' \in [Finalizers \cup Disputes -> Steps]
    BY <1>14 DEF Finish, Goto
  <2>5. UNCHANGED <<world, failed, lease, proven, flagged, hold, outs, dispute>>
    BY <1>14 DEF Finish, facts, money
  <2> QED BY <2>1, <2>2, <2>3, <2>4, <2>5 DEF Memory, Row
<1>15. ASSUME NEW p \in Finalizers, FinishRefused(p) PROVE TypeOK'
  BY <1>15 DEF FinishRefused, Goto, facts, money, Leave
<1>16. ASSUME NEW p \in Finalizers, Rate(p) PROVE TypeOK'
  BY <1>16 DEF Rate, Goto, facts, money, Leave
<1>17. ASSUME NEW p \in Finalizers, Crash(p) PROVE TypeOK'
  BY <1>17 DEF Crash, Goto, facts, money, Leave, Fault
<1>18. ASSUME NEW d \in Disputes, NEW action \in {"release", "refund", "reject"},
    Resolve(d, action) PROVE TypeOK'
  BY <1>18 DEF Resolve, Administers, Goto, facts
<1>19. ASSUME NEW d \in Disputes, ResolveHold(d) PROVE TypeOK'
  <2>1. pc' \in [Finalizers \cup Disputes -> Steps]
    BY <1>19 DEF ResolveHold, Goto
  <2>2. hold' \in {"none", "held", "released", "refunded"}
    BY <1>19 DEF ResolveHold
  <2>3. UNCHANGED <<world, failed, lease, match, log, proven, flagged, outs, dispute, mine>>
    BY <1>19 DEF ResolveHold, Administers, facts
  <2> QED BY <2>1, <2>2, <2>3
<1>20. ASSUME NEW d \in Disputes, RefundHeld(d) PROVE TypeOK'
  BY <1>20 DEF RefundHeld, Goto, facts, Administers, Disburse, DisburseKey
<1>21. ASSUME NEW d \in Disputes, ReadSettlement(d) PROVE TypeOK'
  BY <1>21 DEF ReadSettlement, Goto, facts, Administers, money
<1>22. ASSUME NEW d \in Disputes, SettleHeld(d) PROVE TypeOK'
  BY <1>22 DEF SettleHeld, Goto, facts, Administers, Disburse, DisburseKey
<1>23. ASSUME NEW d \in Disputes, AdminFails(d) PROVE TypeOK'
  BY <1>23 DEF AdminFails, Goto, facts, Fault, money
<1>24. ASSUME NEW s \in Seats, ProofArrives(s) PROVE TypeOK'
  BY <1>24 DEF ProofArrives, money
<1>25. ASSUME FlagRaised PROVE TypeOK'
  BY <1>25 DEF FlagRaised, money
<1>26. ASSUME RedisFails PROVE TypeOK'
  BY <1>26 DEF RedisFails, Fault, facts, money
<1>27. ASSUME UNCHANGED vars PROVE TypeOK'
  BY <1>27 DEF vars, facts, money
<1> QED BY <1>1, <1>2, <1>3, <1>4, <1>5, <1>6, <1>7, <1>8, <1>9, <1>10, <1>11, <1>12,
    <1>13, <1>14, <1>15, <1>16, <1>17, <1>18, <1>19, <1>20, <1>21, <1>22, <1>23, <1>24,
    <1>25, <1>26, <1>27
    DEF Next, Commits, Finalizes, Disburses

\* A process leaves its handler only by its steps.
LEMMA PlacesStep == Order /\ [Next]_vars => Places'
<1> SUFFICES ASSUME Order, [Next]_vars PROVE Places'
  OBVIOUS
<1> USE ActorsAssumption, SeatsAssumption, WorldsAssumption DEF Order, TypeOK, Places,
    SealedOnce, Finalizing, Finalizers, Conflict, Over, Tie
<1>1. ASSUME NEW p \in Finalizers, Act(p) PROVE Places'
  BY <1>1 DEF Act, Goto, facts, money, Enter, Read
<1>2. ASSUME NEW p \in Finalizers, Say(p) PROVE Places'
  BY <1>2 DEF Say, Goto, facts, money, Enter, Read
<1>3. ASSUME NEW p \in Finalizers, HandleTimeout(p) PROVE Places'
  BY <1>3 DEF HandleTimeout, Goto, facts, money, Enter, Read
<1>4. ASSUME NEW p \in Finalizers, Advance(p) PROVE Places'
  BY <1>4 DEF Advance, Goto, facts, money, Wrote, ThenFinalize, Leave
<1>5. ASSUME NEW p \in Finalizers, AdvanceRefused(p) PROVE Places'
  BY <1>5 DEF AdvanceRefused, Goto, facts, money, Leave
<1>6. ASSUME NEW p \in Finalizers, Verdict(p) PROVE Places'
  BY <1>6 DEF Verdict, Goto, facts, money, GoOn
<1>7. ASSUME NEW p \in Finalizers, VerdictUnreadable(p) PROVE Places'
  BY <1>7 DEF VerdictUnreadable, Goto, facts, money, GoOn, Fault
<1>8. ASSUME NEW p \in Finalizers, Refund(p) PROVE Places'
  BY <1>8 DEF Refund, Goto, facts, money, GoOn, Disburse, DisburseKey
<1>9. ASSUME NEW p \in Finalizers, Gate(p) PROVE Places'
  BY <1>9 DEF Gate, Goto, facts, money, GoOn
<1>10. ASSUME NEW p \in Finalizers, GateUnreadable(p) PROVE Places'
  BY <1>10 DEF GateUnreadable, Goto, facts, money, GoOn, Fault
<1>11. ASSUME NEW p \in Finalizers, RecordHold(p) PROVE Places'
  BY <1>11 DEF RecordHold, Goto, facts, money, GoOn
<1>12. ASSUME NEW p \in Finalizers, RecordHoldFails(p) PROVE Places'
  BY <1>12 DEF RecordHoldFails, Goto, facts, money, GoOn, Fault
<1>13. ASSUME NEW p \in Finalizers, Settle(p) PROVE Places'
  BY <1>13 DEF Settle, Goto, facts, money, GoOn, Disburse, DisburseKey
<1>14. ASSUME NEW p \in Finalizers, Finish(p) PROVE Places'
  BY <1>14 DEF Finish, Goto, facts, money
<1>15. ASSUME NEW p \in Finalizers, FinishRefused(p) PROVE Places'
  BY <1>15 DEF FinishRefused, Goto, facts, money, Leave
<1>16. ASSUME NEW p \in Finalizers, Rate(p) PROVE Places'
  BY <1>16 DEF Rate, Goto, facts, money, Leave
<1>17. ASSUME NEW p \in Finalizers, Crash(p) PROVE Places'
  BY <1>17 DEF Crash, Goto, facts, money, Leave, Fault
<1>18. ASSUME NEW d \in Disputes, NEW action \in {"release", "refund", "reject"},
    Resolve(d, action) PROVE Places'
  BY <1>18 DEF Resolve, Administers, Goto, facts
<1>19. ASSUME NEW d \in Disputes, ResolveHold(d) PROVE Places'
  BY <1>19 DEF ResolveHold, Goto, facts, Administers
<1>20. ASSUME NEW d \in Disputes, RefundHeld(d) PROVE Places'
  BY <1>20 DEF RefundHeld, Goto, facts, Administers, Disburse, DisburseKey
<1>21. ASSUME NEW d \in Disputes, ReadSettlement(d) PROVE Places'
  BY <1>21 DEF ReadSettlement, Goto, facts, Administers, money
<1>22. ASSUME NEW d \in Disputes, SettleHeld(d) PROVE Places'
  BY <1>22 DEF SettleHeld, Goto, facts, Administers, Disburse, DisburseKey
<1>23. ASSUME NEW d \in Disputes, AdminFails(d) PROVE Places'
  BY <1>23 DEF AdminFails, Goto, facts, Fault, money
<1>24. ASSUME NEW s \in Seats, ProofArrives(s) PROVE Places'
  BY <1>24 DEF ProofArrives, money
<1>25. ASSUME FlagRaised PROVE Places'
  BY <1>25 DEF FlagRaised, money
<1>26. ASSUME RedisFails PROVE Places'
  BY <1>26 DEF RedisFails, Fault, facts, money
<1>27. ASSUME UNCHANGED vars PROVE Places'
  BY <1>27 DEF vars, facts, money
<1> QED BY <1>1, <1>2, <1>3, <1>4, <1>5, <1>6, <1>7, <1>8, <1>9, <1>10, <1>11, <1>12,
    <1>13, <1>14, <1>15, <1>16, <1>17, <1>18, <1>19, <1>20, <1>21, <1>22, <1>23, <1>24,
    <1>25, <1>26, <1>27
    DEF Next, Commits, Finalizes, Disburses

\* The event that seals the board makes every other writer's number a conflict.
LEMMA SealedStep == Order /\ [Next]_vars => SealedOnce'
<1> SUFFICES ASSUME Order, [Next]_vars PROVE SealedOnce'
  OBVIOUS
<1> USE ActorsAssumption, SeatsAssumption, WorldsAssumption DEF Order, TypeOK, Places,
    SealedOnce, Finalizing, Finalizers, Conflict, Over
<1>1. ASSUME NEW p \in Finalizers, Act(p) PROVE SealedOnce'
  BY <1>1 DEF Act, Goto, facts, money, Enter, Read
<1>2. ASSUME NEW p \in Finalizers, Say(p) PROVE SealedOnce'
  BY <1>2 DEF Say, Goto, facts, money, Enter, Read
<1>3. ASSUME NEW p \in Finalizers, HandleTimeout(p) PROVE SealedOnce'
  BY <1>3 DEF HandleTimeout, Goto, facts, money, Enter, Read
<1>4. ASSUME NEW p \in Finalizers, Advance(p) PROVE SealedOnce'
  BY <1>4 DEF Advance, Goto, facts, money, Wrote, ThenFinalize, Leave
<1>5. ASSUME NEW p \in Finalizers, AdvanceRefused(p) PROVE SealedOnce'
  BY <1>5 DEF AdvanceRefused, Goto, facts, money, Leave
<1>6. ASSUME NEW p \in Finalizers, Verdict(p) PROVE SealedOnce'
  BY <1>6 DEF Verdict, Goto, facts, money, GoOn
<1>7. ASSUME NEW p \in Finalizers, VerdictUnreadable(p) PROVE SealedOnce'
  BY <1>7 DEF VerdictUnreadable, Goto, facts, money, GoOn, Fault
<1>8. ASSUME NEW p \in Finalizers, Refund(p) PROVE SealedOnce'
  BY <1>8 DEF Refund, Goto, facts, money, GoOn, Disburse, DisburseKey
<1>9. ASSUME NEW p \in Finalizers, Gate(p) PROVE SealedOnce'
  BY <1>9 DEF Gate, Goto, facts, money, GoOn
<1>10. ASSUME NEW p \in Finalizers, GateUnreadable(p) PROVE SealedOnce'
  BY <1>10 DEF GateUnreadable, Goto, facts, money, GoOn, Fault
<1>11. ASSUME NEW p \in Finalizers, RecordHold(p) PROVE SealedOnce'
  BY <1>11 DEF RecordHold, Goto, facts, money, GoOn
<1>12. ASSUME NEW p \in Finalizers, RecordHoldFails(p) PROVE SealedOnce'
  BY <1>12 DEF RecordHoldFails, Goto, facts, money, GoOn, Fault
<1>13. ASSUME NEW p \in Finalizers, Settle(p) PROVE SealedOnce'
  BY <1>13 DEF Settle, Goto, facts, money, GoOn, Disburse, DisburseKey
<1>14. ASSUME NEW p \in Finalizers, Finish(p) PROVE SealedOnce'
  BY <1>14 DEF Finish, Goto, facts, money
<1>15. ASSUME NEW p \in Finalizers, FinishRefused(p) PROVE SealedOnce'
  BY <1>15 DEF FinishRefused, Goto, facts, money, Leave
<1>16. ASSUME NEW p \in Finalizers, Rate(p) PROVE SealedOnce'
  BY <1>16 DEF Rate, Goto, facts, money, Leave
<1>17. ASSUME NEW p \in Finalizers, Crash(p) PROVE SealedOnce'
  BY <1>17 DEF Crash, Goto, facts, money, Leave, Fault
<1>18. ASSUME NEW d \in Disputes, NEW action \in {"release", "refund", "reject"},
    Resolve(d, action) PROVE SealedOnce'
  BY <1>18 DEF Resolve, Administers, Goto, facts
<1>19. ASSUME NEW d \in Disputes, ResolveHold(d) PROVE SealedOnce'
  BY <1>19 DEF ResolveHold, Goto, facts, Administers
<1>20. ASSUME NEW d \in Disputes, RefundHeld(d) PROVE SealedOnce'
  BY <1>20 DEF RefundHeld, Goto, facts, Administers, Disburse, DisburseKey
<1>21. ASSUME NEW d \in Disputes, ReadSettlement(d) PROVE SealedOnce'
  BY <1>21 DEF ReadSettlement, Goto, facts, Administers, money
<1>22. ASSUME NEW d \in Disputes, SettleHeld(d) PROVE SealedOnce'
  BY <1>22 DEF SettleHeld, Goto, facts, Administers, Disburse, DisburseKey
<1>23. ASSUME NEW d \in Disputes, AdminFails(d) PROVE SealedOnce'
  BY <1>23 DEF AdminFails, Goto, facts, Fault, money
<1>24. ASSUME NEW s \in Seats, ProofArrives(s) PROVE SealedOnce'
  BY <1>24 DEF ProofArrives, money
<1>25. ASSUME FlagRaised PROVE SealedOnce'
  BY <1>25 DEF FlagRaised, money
<1>26. ASSUME RedisFails PROVE SealedOnce'
  BY <1>26 DEF RedisFails, Fault, facts, money
<1>27. ASSUME UNCHANGED vars PROVE SealedOnce'
  BY <1>27 DEF vars, facts, money
<1> QED BY <1>1, <1>2, <1>3, <1>4, <1>5, <1>6, <1>7, <1>8, <1>9, <1>10, <1>11, <1>12,
    <1>13, <1>14, <1>15, <1>16, <1>17, <1>18, <1>19, <1>20, <1>21, <1>22, <1>23, <1>24,
    <1>25, <1>26, <1>27
    DEF Next, Commits, Finalizes, Disburses

\* Whatever fails, at most one board is ever sealed for a match, and every process that
\* finalizes works on that one, with a lock or without.
THEOREM SettlementOrder == Spec => []Order
<1>1. ASSUME Init PROVE Order
  <2>1. pc \in [Finalizers \cup Disputes -> Steps]
    BY <1>1 DEF Init, Steps
  <2>2. mine \in [Finalizers \cup Disputes -> Memory(log)]
    BY <1>1 DEF Init, Nothing, Memory
  <2>3. match \in Row(log)
    BY <1>1 DEF Init, Row
  <2>4. dispute \in [Disputes -> {"open", "release", "refund", "reject"}]
    BY <1>1 DEF Init
  <2>5. flagged \in BOOLEAN
    <3>1. world.flagged \in BOOLEAN
      BY <1>1, WorldsAssumption DEF Init
    <3> QED BY <1>1, <3>1, Zenon DEF Init
  <2>6. TypeOK
    BY <1>1, <2>1, <2>2, <2>3, <2>4, <2>5 DEF Init, TypeOK, Memory, Row
  <2>7. Places /\ SealedOnce
    BY <1>1 DEF Init, Places, SealedOnce, Over, Finalizing
  <2> QED BY <2>6, <2>7 DEF Order
<1>2. Order /\ [Next]_vars => Order'
  BY TypeStep, PlacesStep, SealedStep DEF Order
<1> QED BY <1>1, <1>2, PTL DEF Spec

\* The variables have their types; in particular the row never runs ahead of the log.
THEOREM SettlementTypes == Spec => []TypeOK
<1>1. Order => TypeOK
  BY DEF Order
<1> QED BY <1>1, SettlementOrder, PTL

-----------------------------------------------------------------------------
(* The escrow leaves once, to the seat that is recorded. *)

\* At most one transaction takes the escrow out; a seat is paid, or about to be paid
\* by an administrator, only what the sealed board says.
PaidOnce ==
    /\ outs = {} \/ \E o \in outs : outs = {o}
    /\ \A o \in outs : o.key = "disburse" /\ (o.to \in Seats => o.to = match.board)
    /\ \A d \in Disputes : pc[d] = "pay" /\ mine[d].board \in Seats => mine[d].board = match.board

\* An administrator disburses a hold that he claimed.
Claimed ==
    \A d \in Disputes :
        /\ pc[d] = "refund" => hold = "refunded"
        /\ pc[d] \in {"read", "pay"} => hold = "released"

\* Nobody finishes a match before its escrow left or was held; and a hold that was
\* claimed was disbursed or is being disbursed.
Accounted ==
    /\ NoFault({"hold"}) /\ (Over \/ \E p \in Finalizers : pc[p] = "finish")
         => outs # {} \/ hold # "none"
    /\ NoFault({"admin"}) /\ hold \in {"released", "refunded"}
         => outs # {} \/ \E d \in Disputes : pc[d] \in {"refund", "read", "pay"}

\* Every disbursement has the one key of the match, and pays the sealed board.
LEMMA PaidStep == Order /\ PaidOnce /\ [Next]_vars => PaidOnce'
<1> SUFFICES ASSUME Order, PaidOnce, [Next]_vars PROVE PaidOnce'
  OBVIOUS
<1> USE ActorsAssumption, SeatsAssumption, WorldsAssumption DEF Order, TypeOK, Places,
    SealedOnce, Finalizing, Finalizers, Conflict, Over, PaidOnce
<1>1. ASSUME NEW p \in Finalizers, Act(p) PROVE PaidOnce'
  BY <1>1 DEF Act, Goto, facts, money, Enter, Read
<1>2. ASSUME NEW p \in Finalizers, Say(p) PROVE PaidOnce'
  BY <1>2 DEF Say, Goto, facts, money, Enter, Read
<1>3. ASSUME NEW p \in Finalizers, HandleTimeout(p) PROVE PaidOnce'
  BY <1>3 DEF HandleTimeout, Goto, facts, money, Enter, Read
<1>4. ASSUME NEW p \in Finalizers, Advance(p) PROVE PaidOnce'
  BY <1>4 DEF Advance, Goto, facts, money, Wrote, ThenFinalize, Leave
<1>5. ASSUME NEW p \in Finalizers, AdvanceRefused(p) PROVE PaidOnce'
  BY <1>5 DEF AdvanceRefused, Goto, facts, money, Leave
<1>6. ASSUME NEW p \in Finalizers, Verdict(p) PROVE PaidOnce'
  BY <1>6 DEF Verdict, Goto, facts, money, GoOn
<1>7. ASSUME NEW p \in Finalizers, VerdictUnreadable(p) PROVE PaidOnce'
  BY <1>7 DEF VerdictUnreadable, Goto, facts, money, GoOn, Fault
<1>8. ASSUME NEW p \in Finalizers, Refund(p) PROVE PaidOnce'
  BY <1>8 DEF Refund, Goto, facts, money, GoOn, Disburse, DisburseKey
<1>9. ASSUME NEW p \in Finalizers, Gate(p) PROVE PaidOnce'
  BY <1>9 DEF Gate, Goto, facts, money, GoOn
<1>10. ASSUME NEW p \in Finalizers, GateUnreadable(p) PROVE PaidOnce'
  BY <1>10 DEF GateUnreadable, Goto, facts, money, GoOn, Fault
<1>11. ASSUME NEW p \in Finalizers, RecordHold(p) PROVE PaidOnce'
  BY <1>11 DEF RecordHold, Goto, facts, money, GoOn
<1>12. ASSUME NEW p \in Finalizers, RecordHoldFails(p) PROVE PaidOnce'
  BY <1>12 DEF RecordHoldFails, Goto, facts, money, GoOn, Fault
<1>13. ASSUME NEW p \in Finalizers, Settle(p) PROVE PaidOnce'
  BY <1>13 DEF Settle, Goto, facts, money, GoOn, Disburse, DisburseKey
<1>14. ASSUME NEW p \in Finalizers, Finish(p) PROVE PaidOnce'
  BY <1>14 DEF Finish, Goto, facts, money
<1>15. ASSUME NEW p \in Finalizers, FinishRefused(p) PROVE PaidOnce'
  BY <1>15 DEF FinishRefused, Goto, facts, money, Leave
<1>16. ASSUME NEW p \in Finalizers, Rate(p) PROVE PaidOnce'
  BY <1>16 DEF Rate, Goto, facts, money, Leave
<1>17. ASSUME NEW p \in Finalizers, Crash(p) PROVE PaidOnce'
  BY <1>17 DEF Crash, Goto, facts, money, Leave, Fault
<1>18. ASSUME NEW d \in Disputes, NEW action \in {"release", "refund", "reject"},
    Resolve(d, action) PROVE PaidOnce'
  BY <1>18 DEF Resolve, Administers, Goto, facts
<1>19. ASSUME NEW d \in Disputes, ResolveHold(d) PROVE PaidOnce'
  BY <1>19 DEF ResolveHold, Goto, facts, Administers
<1>20. ASSUME NEW d \in Disputes, RefundHeld(d) PROVE PaidOnce'
  BY <1>20 DEF RefundHeld, Goto, facts, Administers, Disburse, DisburseKey
<1>21. ASSUME NEW d \in Disputes, ReadSettlement(d) PROVE PaidOnce'
  BY <1>21 DEF ReadSettlement, Goto, facts, Administers, money
<1>22. ASSUME NEW d \in Disputes, SettleHeld(d) PROVE PaidOnce'
  BY <1>22 DEF SettleHeld, Goto, facts, Administers, Disburse, DisburseKey
<1>23. ASSUME NEW d \in Disputes, AdminFails(d) PROVE PaidOnce'
  BY <1>23 DEF AdminFails, Goto, facts, Fault, money
<1>24. ASSUME NEW s \in Seats, ProofArrives(s) PROVE PaidOnce'
  BY <1>24 DEF ProofArrives, money
<1>25. ASSUME FlagRaised PROVE PaidOnce'
  BY <1>25 DEF FlagRaised, money
<1>26. ASSUME RedisFails PROVE PaidOnce'
  BY <1>26 DEF RedisFails, Fault, facts, money
<1>27. ASSUME UNCHANGED vars PROVE PaidOnce'
  BY <1>27 DEF vars, facts, money
<1> QED BY <1>1, <1>2, <1>3, <1>4, <1>5, <1>6, <1>7, <1>8, <1>9, <1>10, <1>11, <1>12,
    <1>13, <1>14, <1>15, <1>16, <1>17, <1>18, <1>19, <1>20, <1>21, <1>22, <1>23, <1>24,
    <1>25, <1>26, <1>27
    DEF Next, Commits, Finalizes, Disburses

\* A hold that an administrator claimed is nobody else's any more.
LEMMA ClaimedStep == Order /\ Claimed /\ [Next]_vars => Claimed'
<1> SUFFICES ASSUME Order, Claimed, [Next]_vars PROVE Claimed'
  OBVIOUS
<1> USE ActorsAssumption, SeatsAssumption, WorldsAssumption DEF Order, TypeOK, Places,
    SealedOnce, Finalizing, Finalizers, Conflict, Over, Claimed
<1>1. ASSUME NEW p \in Finalizers, Act(p) PROVE Claimed'
  BY <1>1 DEF Act, Goto, facts, money, Enter, Read
<1>2. ASSUME NEW p \in Finalizers, Say(p) PROVE Claimed'
  BY <1>2 DEF Say, Goto, facts, money, Enter, Read
<1>3. ASSUME NEW p \in Finalizers, HandleTimeout(p) PROVE Claimed'
  BY <1>3 DEF HandleTimeout, Goto, facts, money, Enter, Read
<1>4. ASSUME NEW p \in Finalizers, Advance(p) PROVE Claimed'
  BY <1>4 DEF Advance, Goto, facts, money, Wrote, ThenFinalize, Leave
<1>5. ASSUME NEW p \in Finalizers, AdvanceRefused(p) PROVE Claimed'
  BY <1>5 DEF AdvanceRefused, Goto, facts, money, Leave
<1>6. ASSUME NEW p \in Finalizers, Verdict(p) PROVE Claimed'
  BY <1>6 DEF Verdict, Goto, facts, money, GoOn
<1>7. ASSUME NEW p \in Finalizers, VerdictUnreadable(p) PROVE Claimed'
  BY <1>7 DEF VerdictUnreadable, Goto, facts, money, GoOn, Fault
<1>8. ASSUME NEW p \in Finalizers, Refund(p) PROVE Claimed'
  BY <1>8 DEF Refund, Goto, facts, money, GoOn, Disburse, DisburseKey
<1>9. ASSUME NEW p \in Finalizers, Gate(p) PROVE Claimed'
  BY <1>9 DEF Gate, Goto, facts, money, GoOn
<1>10. ASSUME NEW p \in Finalizers, GateUnreadable(p) PROVE Claimed'
  BY <1>10 DEF GateUnreadable, Goto, facts, money, GoOn, Fault
<1>11. ASSUME NEW p \in Finalizers, RecordHold(p) PROVE Claimed'
  BY <1>11 DEF RecordHold, Goto, facts, money, GoOn
<1>12. ASSUME NEW p \in Finalizers, RecordHoldFails(p) PROVE Claimed'
  BY <1>12 DEF RecordHoldFails, Goto, facts, money, GoOn, Fault
<1>13. ASSUME NEW p \in Finalizers, Settle(p) PROVE Claimed'
  BY <1>13 DEF Settle, Goto, facts, money, GoOn, Disburse, DisburseKey
<1>14. ASSUME NEW p \in Finalizers, Finish(p) PROVE Claimed'
  BY <1>14 DEF Finish, Goto, facts, money
<1>15. ASSUME NEW p \in Finalizers, FinishRefused(p) PROVE Claimed'
  BY <1>15 DEF FinishRefused, Goto, facts, money, Leave
<1>16. ASSUME NEW p \in Finalizers, Rate(p) PROVE Claimed'
  BY <1>16 DEF Rate, Goto, facts, money, Leave
<1>17. ASSUME NEW p \in Finalizers, Crash(p) PROVE Claimed'
  BY <1>17 DEF Crash, Goto, facts, money, Leave, Fault
<1>18. ASSUME NEW d \in Disputes, NEW action \in {"release", "refund", "reject"},
    Resolve(d, action) PROVE Claimed'
  BY <1>18 DEF Resolve, Administers, Goto, facts
<1>19. ASSUME NEW d \in Disputes, ResolveHold(d) PROVE Claimed'
  BY <1>19 DEF ResolveHold, Goto, facts, Administers
<1>20. ASSUME NEW d \in Disputes, RefundHeld(d) PROVE Claimed'
  BY <1>20 DEF RefundHeld, Goto, facts, Administers, Disburse, DisburseKey
<1>21. ASSUME NEW d \in Disputes, ReadSettlement(d) PROVE Claimed'
  BY <1>21 DEF ReadSettlement, Goto, facts, Administers, money
<1>22. ASSUME NEW d \in Disputes, SettleHeld(d) PROVE Claimed'
  BY <1>22 DEF SettleHeld, Goto, facts, Administers, Disburse, DisburseKey
<1>23. ASSUME NEW d \in Disputes, AdminFails(d) PROVE Claimed'
  BY <1>23 DEF AdminFails, Goto, facts, Fault, money
<1>24. ASSUME NEW s \in Seats, ProofArrives(s) PROVE Claimed'
  BY <1>24 DEF ProofArrives, money
<1>25. ASSUME FlagRaised PROVE Claimed'
  BY <1>25 DEF FlagRaised, money
<1>26. ASSUME RedisFails PROVE Claimed'
  BY <1>26 DEF RedisFails, Fault, facts, money
<1>27. ASSUME UNCHANGED vars PROVE Claimed'
  BY <1>27 DEF vars, facts, money
<1> QED BY <1>1, <1>2, <1>3, <1>4, <1>5, <1>6, <1>7, <1>8, <1>9, <1>10, <1>11, <1>12,
    <1>13, <1>14, <1>15, <1>16, <1>17, <1>18, <1>19, <1>20, <1>21, <1>22, <1>23, <1>24,
    <1>25, <1>26, <1>27
    DEF Next, Commits, Finalizes, Disburses

\* Escrow that is neither disbursed nor held has somebody who is about to disburse it.
LEMMA AccountedStep == Order /\ Claimed /\ Accounted /\ [Next]_vars => Accounted'
<1> SUFFICES ASSUME Order, Claimed, Accounted, [Next]_vars PROVE Accounted'
  OBVIOUS
<1> USE ActorsAssumption, SeatsAssumption, WorldsAssumption DEF Order, TypeOK, Places,
    SealedOnce, Finalizing, Finalizers, Conflict, Over, Claimed, Accounted, NoFault
<1>1. ASSUME NEW p \in Finalizers, Act(p) PROVE Accounted'
  BY <1>1 DEF Act, Goto, facts, money, Enter, Read
<1>2. ASSUME NEW p \in Finalizers, Say(p) PROVE Accounted'
  BY <1>2 DEF Say, Goto, facts, money, Enter, Read
<1>3. ASSUME NEW p \in Finalizers, HandleTimeout(p) PROVE Accounted'
  BY <1>3 DEF HandleTimeout, Goto, facts, money, Enter, Read
<1>4. ASSUME NEW p \in Finalizers, Advance(p) PROVE Accounted'
  BY <1>4 DEF Advance, Goto, facts, money, Wrote, ThenFinalize, Leave
<1>5. ASSUME NEW p \in Finalizers, AdvanceRefused(p) PROVE Accounted'
  BY <1>5 DEF AdvanceRefused, Goto, facts, money, Leave
<1>6. ASSUME NEW p \in Finalizers, Verdict(p) PROVE Accounted'
  BY <1>6 DEF Verdict, Goto, facts, money, GoOn
<1>7. ASSUME NEW p \in Finalizers, VerdictUnreadable(p) PROVE Accounted'
  BY <1>7 DEF VerdictUnreadable, Goto, facts, money, GoOn, Fault
<1>8. ASSUME NEW p \in Finalizers, Refund(p) PROVE Accounted'
  BY <1>8 DEF Refund, Goto, facts, money, GoOn, Disburse, DisburseKey
<1>9. ASSUME NEW p \in Finalizers, Gate(p) PROVE Accounted'
  BY <1>9 DEF Gate, Goto, facts, money, GoOn
<1>10. ASSUME NEW p \in Finalizers, GateUnreadable(p) PROVE Accounted'
  BY <1>10 DEF GateUnreadable, Goto, facts, money, GoOn, Fault
<1>11. ASSUME NEW p \in Finalizers, RecordHold(p) PROVE Accounted'
  BY <1>11 DEF RecordHold, Goto, facts, money, GoOn
<1>12. ASSUME NEW p \in Finalizers, RecordHoldFails(p) PROVE Accounted'
  BY <1>12 DEF RecordHoldFails, Goto, facts, money, GoOn, Fault
<1>13. ASSUME NEW p \in Finalizers, Settle(p) PROVE Accounted'
  BY <1>13 DEF Settle, Goto, facts, money, GoOn, Disburse, DisburseKey
<1>14. ASSUME NEW p \in Finalizers, Finish(p) PROVE Accounted'
  BY <1>14 DEF Finish, Goto, facts, money
<1>15. ASSUME NEW p \in Finalizers, FinishRefused(p) PROVE Accounted'
  BY <1>15 DEF FinishRefused, Goto, facts, money, Leave
<1>16. ASSUME NEW p \in Finalizers, Rate(p) PROVE Accounted'
  BY <1>16 DEF Rate, Goto, facts, money, Leave
<1>17. ASSUME NEW p \in Finalizers, Crash(p) PROVE Accounted'
  BY <1>17 DEF Crash, Goto, facts, money, Leave, Fault
<1>18. ASSUME NEW d \in Disputes, NEW action \in {"release", "refund", "reject"},
    Resolve(d, action) PROVE Accounted'
  BY <1>18 DEF Resolve, Administers, Goto, facts
<1>19. ASSUME NEW d \in Disputes, ResolveHold(d) PROVE Accounted'
  BY <1>19 DEF ResolveHold, Goto, facts, Administers
<1>20. ASSUME NEW d \in Disputes, RefundHeld(d) PROVE Accounted'
  BY <1>20 DEF RefundHeld, Goto, facts, Administers, Disburse, DisburseKey
<1>21. ASSUME NEW d \in Disputes, ReadSettlement(d) PROVE Accounted'
  BY <1>21 DEF ReadSettlement, Goto, facts, Administers, money
<1>22. ASSUME NEW d \in Disputes, SettleHeld(d) PROVE Accounted'
  BY <1>22 DEF SettleHeld, Goto, facts, Administers, Disburse, DisburseKey
<1>23. ASSUME NEW d \in Disputes, AdminFails(d) PROVE Accounted'
  BY <1>23 DEF AdminFails, Goto, facts, Fault, money
<1>24. ASSUME NEW s \in Seats, ProofArrives(s) PROVE Accounted'
  BY <1>24 DEF ProofArrives, money
<1>25. ASSUME FlagRaised PROVE Accounted'
  BY <1>25 DEF FlagRaised, money
<1>26. ASSUME RedisFails PROVE Accounted'
  BY <1>26 DEF RedisFails, Fault, facts, money
<1>27. ASSUME UNCHANGED vars PROVE Accounted'
  BY <1>27 DEF vars, facts, money
<1> QED BY <1>1, <1>2, <1>3, <1>4, <1>5, <1>6, <1>7, <1>8, <1>9, <1>10, <1>11, <1>12,
    <1>13, <1>14, <1>15, <1>16, <1>17, <1>18, <1>19, <1>20, <1>21, <1>22, <1>23, <1>24,
    <1>25, <1>26, <1>27
    DEF Next, Commits, Finalizes, Disburses

\* A match pays out of escrow at most once, and only to the winner of its board.
THEOREM SettlementPaidOnce == Spec => [](PaidOnce /\ Claimed /\ Accounted)
<1>1. Init => PaidOnce /\ Claimed /\ Accounted
  BY ActorsAssumption DEF Init, PaidOnce, Claimed, Accounted, Over, Finalizers
<1> QED BY <1>1, PaidStep, ClaimedStep, AccountedStep, SettlementOrder, PTL DEF Spec

\* The escrow of a match leaves once, whoever settles, voids, releases or refunds, and
\* what has not left a match that is over is held.
THEOREM SettlementEscrowPaidOnce == Spec => []EscrowPaidOnce
<1>1. Order /\ PaidOnce /\ Accounted => EscrowPaidOnce
  <2> SUFFICES ASSUME Order, PaidOnce, Accounted PROVE EscrowPaidOnce
    OBVIOUS
  <2>1. Cardinality(outs) <= 1
    <3>1. CASE outs = {}
      BY <3>1, FS_EmptySet
    <3>2. ASSUME NEW o \in outs, outs = {o} PROVE Cardinality(outs) <= 1
      <4>1. Cardinality({o}) = 1
        BY FS_Singleton
      <4> QED BY <3>2, <4>1
    <3> QED BY <3>1, <3>2 DEF PaidOnce
  <2>2. Explained
    BY DEF Explained, Accounted, NoFault, Order, TypeOK
  <2> QED BY <2>1, <2>2 DEF EscrowPaidOnce
<1> QED BY <1>1, SettlementOrder, SettlementPaidOnce, PTL

-----------------------------------------------------------------------------
(* A hold binds whoever finalizes. *)

\* The lock excludes the others as long as there are locks.
Locked ==
    NoFault({"redis"}) => \A p \in Finalizers : pc[p] # "idle" => lease = p

\* A hold was recorded because of a flag, which nobody lowers; who was let through the
\* gate saw no flag, and nobody could record a hold since.
Bound ==
    /\ NoFault({"gate"}) /\ (hold # "none" \/ \E p \in Finalizers : pc[p] = "hold") => flagged
    /\ NoFault({"gate", "redis"}) => \A p \in Finalizers : pc[p] = "settle" => hold = "none"

\* Nobody enters while the lock is taken, unless locks cannot be taken.
LEMMA LockedStep == Order /\ Locked /\ [Next]_vars => Locked'
<1> SUFFICES ASSUME Order, Locked, [Next]_vars PROVE Locked'
  OBVIOUS
<1> USE ActorsAssumption, SeatsAssumption, WorldsAssumption DEF Order, TypeOK, Places,
    SealedOnce, Finalizing, Finalizers, Conflict, Over, Locked, NoFault
<1>1. ASSUME NEW p \in Finalizers, Act(p) PROVE Locked'
  BY <1>1 DEF Act, Goto, facts, money, Enter, Read
<1>2. ASSUME NEW p \in Finalizers, Say(p) PROVE Locked'
  BY <1>2 DEF Say, Goto, facts, money, Enter, Read
<1>3. ASSUME NEW p \in Finalizers, HandleTimeout(p) PROVE Locked'
  BY <1>3 DEF HandleTimeout, Goto, facts, money, Enter, Read
<1>4. ASSUME NEW p \in Finalizers, Advance(p) PROVE Locked'
  BY <1>4 DEF Advance, Goto, facts, money, Wrote, ThenFinalize, Leave
<1>5. ASSUME NEW p \in Finalizers, AdvanceRefused(p) PROVE Locked'
  BY <1>5 DEF AdvanceRefused, Goto, facts, money, Leave
<1>6. ASSUME NEW p \in Finalizers, Verdict(p) PROVE Locked'
  BY <1>6 DEF Verdict, Goto, facts, money, GoOn
<1>7. ASSUME NEW p \in Finalizers, VerdictUnreadable(p) PROVE Locked'
  BY <1>7 DEF VerdictUnreadable, Goto, facts, money, GoOn, Fault
<1>8. ASSUME NEW p \in Finalizers, Refund(p) PROVE Locked'
  BY <1>8 DEF Refund, Goto, facts, money, GoOn, Disburse, DisburseKey
<1>9. ASSUME NEW p \in Finalizers, Gate(p) PROVE Locked'
  BY <1>9 DEF Gate, Goto, facts, money, GoOn
<1>10. ASSUME NEW p \in Finalizers, GateUnreadable(p) PROVE Locked'
  BY <1>10 DEF GateUnreadable, Goto, facts, money, GoOn, Fault
<1>11. ASSUME NEW p \in Finalizers, RecordHold(p) PROVE Locked'
  BY <1>11 DEF RecordHold, Goto, facts, money, GoOn
<1>12. ASSUME NEW p \in Finalizers, RecordHoldFails(p) PROVE Locked'
  BY <1>12 DEF RecordHoldFails, Goto, facts, money, GoOn, Fault
<1>13. ASSUME NEW p \in Finalizers, Settle(p) PROVE Locked'
  BY <1>13 DEF Settle, Goto, facts, money, GoOn, Disburse, DisburseKey
<1>14. ASSUME NEW p \in Finalizers, Finish(p) PROVE Locked'
  BY <1>14 DEF Finish, Goto, facts, money
<1>15. ASSUME NEW p \in Finalizers, FinishRefused(p) PROVE Locked'
  BY <1>15 DEF FinishRefused, Goto, facts, money, Leave
<1>16. ASSUME NEW p \in Finalizers, Rate(p) PROVE Locked'
  BY <1>16 DEF Rate, Goto, facts, money, Leave
<1>17. ASSUME NEW p \in Finalizers, Crash(p) PROVE Locked'
  BY <1>17 DEF Crash, Goto, facts, money, Leave, Fault
<1>18. ASSUME NEW d \in Disputes, NEW action \in {"release", "refund", "reject"},
    Resolve(d, action) PROVE Locked'
  BY <1>18 DEF Resolve, Administers, Goto, facts
<1>19. ASSUME NEW d \in Disputes, ResolveHold(d) PROVE Locked'
  BY <1>19 DEF ResolveHold, Goto, facts, Administers
<1>20. ASSUME NEW d \in Disputes, RefundHeld(d) PROVE Locked'
  BY <1>20 DEF RefundHeld, Goto, facts, Administers, Disburse, DisburseKey
<1>21. ASSUME NEW d \in Disputes, ReadSettlement(d) PROVE Locked'
  BY <1>21 DEF ReadSettlement, Goto, facts, Administers, money
<1>22. ASSUME NEW d \in Disputes, SettleHeld(d) PROVE Locked'
  BY <1>22 DEF SettleHeld, Goto, facts, Administers, Disburse, DisburseKey
<1>23. ASSUME NEW d \in Disputes, AdminFails(d) PROVE Locked'
  BY <1>23 DEF AdminFails, Goto, facts, Fault, money
<1>24. ASSUME NEW s \in Seats, ProofArrives(s) PROVE Locked'
  BY <1>24 DEF ProofArrives, money
<1>25. ASSUME FlagRaised PROVE Locked'
  BY <1>25 DEF FlagRaised, money
<1>26. ASSUME RedisFails PROVE Locked'
  BY <1>26 DEF RedisFails, Fault, facts, money
<1>27. ASSUME UNCHANGED vars PROVE Locked'
  BY <1>27 DEF vars, facts, money
<1> QED BY <1>1, <1>2, <1>3, <1>4, <1>5, <1>6, <1>7, <1>8, <1>9, <1>10, <1>11, <1>12,
    <1>13, <1>14, <1>15, <1>16, <1>17, <1>18, <1>19, <1>20, <1>21, <1>22, <1>23, <1>24,
    <1>25, <1>26, <1>27
    DEF Next, Commits, Finalizes, Disburses

\* A flag stays raised: whoever comes to the gate after a hold is held as well.
LEMMA BoundStep == Order /\ Locked /\ Bound /\ [Next]_vars => Bound'
<1> SUFFICES ASSUME Order, Locked, Bound, [Next]_vars PROVE Bound'
  OBVIOUS
<1> USE ActorsAssumption, SeatsAssumption, WorldsAssumption DEF Order, TypeOK, Places,
    SealedOnce, Finalizing, Finalizers, Conflict, Over, Locked, Bound, NoFault
<1>1. ASSUME NEW p \in Finalizers, Act(p) PROVE Bound'
  BY <1>1 DEF Act, Goto, facts, money, Enter, Read
<1>2. ASSUME NEW p \in Finalizers, Say(p) PROVE Bound'
  BY <1>2 DEF Say, Goto, facts, money, Enter, Read
<1>3. ASSUME NEW p \in Finalizers, HandleTimeout(p) PROVE Bound'
  BY <1>3 DEF HandleTimeout, Goto, facts, money, Enter, Read
<1>4. ASSUME NEW p \in Finalizers, Advance(p) PROVE Bound'
  BY <1>4 DEF Advance, Goto, facts, money, Wrote, ThenFinalize, Leave
<1>5. ASSUME NEW p \in Finalizers, AdvanceRefused(p) PROVE Bound'
  BY <1>5 DEF AdvanceRefused, Goto, facts, money, Leave
<1>6. ASSUME NEW p \in Finalizers, Verdict(p) PROVE Bound'
  BY <1>6 DEF Verdict, Goto, facts, money, GoOn
<1>7. ASSUME NEW p \in Finalizers, VerdictUnreadable(p) PROVE Bound'
  BY <1>7 DEF VerdictUnreadable, Goto, facts, money, GoOn, Fault
<1>8. ASSUME NEW p \in Finalizers, Refund(p) PROVE Bound'
  BY <1>8 DEF Refund, Goto, facts, money, GoOn, Disburse, DisburseKey
<1>9. ASSUME NEW p \in Finalizers, Gate(p) PROVE Bound'
  BY <1>9 DEF Gate, Goto, facts, money, GoOn
<1>10. ASSUME NEW p \in Finalizers, GateUnreadable(p) PROVE Bound'
  BY <1>10 DEF GateUnreadable, Goto, facts, money, GoOn, Fault
<1>11. ASSUME NEW p \in Finalizers, RecordHold(p) PROVE Bound'
  BY <1>11 DEF RecordHold, Goto, facts, money, GoOn
<1>12. ASSUME NEW p \in Finalizers, RecordHoldFails(p) PROVE Bound'
  BY <1>12 DEF RecordHoldFails, Goto, facts, money, GoOn, Fault
<1>13. ASSUME NEW p \in Finalizers, Settle(p) PROVE Bound'
  BY <1>13 DEF Settle, Goto, facts, money, GoOn, Disburse, DisburseKey
<1>14. ASSUME NEW p \in Finalizers, Finish(p) PROVE Bound'
  BY <1>14 DEF Finish, Goto, facts, money
<1>15. ASSUME NEW p \in Finalizers, FinishRefused(p) PROVE Bound'
  BY <1>15 DEF FinishRefused, Goto, facts, money, Leave
<1>16. ASSUME NEW p \in Finalizers, Rate(p) PROVE Bound'
  BY <1>16 DEF Rate, Goto, facts, money, Leave
<1>17. ASSUME NEW p \in Finalizers, Crash(p) PROVE Bound'
  BY <1>17 DEF Crash, Goto, facts, money, Leave, Fault
<1>18. ASSUME NEW d \in Disputes, NEW action \in {"release", "refund", "reject"},
    Resolve(d, action) PROVE Bound'
  BY <1>18 DEF Resolve, Administers, Goto, facts
<1>19. ASSUME NEW d \in Disputes, ResolveHold(d) PROVE Bound'
  BY <1>19 DEF ResolveHold, Goto, facts, Administers
<1>20. ASSUME NEW d \in Disputes, RefundHeld(d) PROVE Bound'
  BY <1>20 DEF RefundHeld, Goto, facts, Administers, Disburse, DisburseKey
<1>21. ASSUME NEW d \in Disputes, ReadSettlement(d) PROVE Bound'
  BY <1>21 DEF ReadSettlement, Goto, facts, Administers, money
<1>22. ASSUME NEW d \in Disputes, SettleHeld(d) PROVE Bound'
  BY <1>22 DEF SettleHeld, Goto, facts, Administers, Disburse, DisburseKey
<1>23. ASSUME NEW d \in Disputes, AdminFails(d) PROVE Bound'
  BY <1>23 DEF AdminFails, Goto, facts, Fault, money
<1>24. ASSUME NEW s \in Seats, ProofArrives(s) PROVE Bound'
  BY <1>24 DEF ProofArrives, money
<1>25. ASSUME FlagRaised PROVE Bound'
  BY <1>25 DEF FlagRaised, money
<1>26. ASSUME RedisFails PROVE Bound'
  BY <1>26 DEF RedisFails, Fault, facts, money
<1>27. ASSUME UNCHANGED vars PROVE Bound'
  BY <1>27 DEF vars, facts, money
<1> QED BY <1>1, <1>2, <1>3, <1>4, <1>5, <1>6, <1>7, <1>8, <1>9, <1>10, <1>11, <1>12,
    <1>13, <1>14, <1>15, <1>16, <1>17, <1>18, <1>19, <1>20, <1>21, <1>22, <1>23, <1>24,
    <1>25, <1>26, <1>27
    DEF Next, Commits, Finalizes, Disburses

\* Under the lock a hold is in force for everybody.
THEOREM SettlementBound == Spec => [](Locked /\ Bound)
<1>1. Init => Locked /\ Bound
  BY ActorsAssumption DEF Init, Locked, Bound, Finalizers
<1> QED BY <1>1, LockedStep, BoundStep, SettlementOrder, PTL DEF Spec

\* While a hold is open no seat is paid, however often the match is finalized again: unless
\* the gate failed, or locks could not be taken.
THEOREM SettlementHeldIsNotPaid == Spec => HeldIsNotPaid
<1>1. Order /\ Claimed /\ Bound /\ [Next]_vars =>
        [hold = "held" /\ NoFault({"gate", "redis"}) => \A o \in outs' \ outs : o.to = Tie]_vars
  <2> SUFFICES ASSUME Order, Claimed, Bound, Next, hold = "held", NoFault({"gate", "redis"})
               PROVE  \A o \in outs' \ outs : o.to = Tie
    OBVIOUS
  <2>1. ASSUME NEW p \in Finalizers, Refund(p) PROVE \A o \in outs' \ outs : o.to = Tie
    BY <2>1 DEF Refund, Disburse
  <2>2. ASSUME NEW p \in Finalizers PROVE ~ Settle(p)
    BY DEF Settle, Bound
  <2>3. ASSUME NEW d \in Disputes, RefundHeld(d) PROVE \A o \in outs' \ outs : o.to = Tie
    BY <2>3 DEF RefundHeld, Disburse
  <2>4. ASSUME NEW d \in Disputes PROVE ~ SettleHeld(d)
    BY DEF SettleHeld, Claimed
  <2>5. CASE outs' = outs
    BY <2>5
  <2>6. CASE \E p \in Finalizers :
                Act(p) \/ Say(p) \/ HandleTimeout(p) \/ Commits(p) \/ Finalizes(p) \/ Crash(p)
    BY <2>1, <2>2, <2>5, <2>6
       DEF Commits, Finalizes, Act, Say, HandleTimeout, Enter, Advance, AdvanceRefused, Verdict,
           VerdictUnreadable, Gate, GateUnreadable, RecordHold, RecordHoldFails, Finish,
           FinishRefused, Rate, Crash, money
  <2>7. CASE \E d \in Disputes :
                (\E action \in {"release", "refund", "reject"} : Resolve(d, action))
                \/ Disburses(d) \/ AdminFails(d)
    BY <2>3, <2>4, <2>5, <2>7 DEF Disburses, Resolve, ResolveHold, ReadSettlement, AdminFails, money
  <2>8. CASE (\E s \in Seats : ProofArrives(s)) \/ FlagRaised \/ RedisFails
    BY <2>5, <2>8 DEF ProofArrives, FlagRaised, RedisFails, money
  <2> QED BY <2>6, <2>7, <2>8 DEF Next
<1> QED BY <1>1, SettlementOrder, SettlementPaidOnce, SettlementBound, PTL DEF Spec, HeldIsNotPaid

-----------------------------------------------------------------------------
(* A match is rated by the verdict it was paid by. *)

Refunded == \E o \in outs : o.kind = "refund"

\* What was disbursed and held when a match is rated "blocked", or not.
RatedBy(void) == IF void THEN hold = "none" /\ Refunded ELSE Refunded => hold = "refunded"

\* While locks work and nobody dies, a match is finalized once: whoever is before the
\* disbursement finds nothing disbursed, and his commits are never refused.
FinalizedOnce ==
    NoFault({"crash", "redis"}) =>
        /\ match.seq = log
        /\ ~ Over => match.rated = "none"
        /\ ~ Over /\ (\A p \in Finalizers : pc[p] = "idle") => outs = {} /\ hold = "none"
        /\ \A p \in Finalizers :
            /\ pc[p] # "idle" => (Over <=> pc[p] = "rate")
            /\ pc[p] \notin {"idle", "rate"} => mine[p].seq = log
            /\ pc[p] \in {"advance", "verdict", "refund", "gate", "hold", "settle"}
                 => outs = {} /\ hold = "none"
            /\ pc[p] = "refund" => mine[p].void
            /\ pc[p] \in {"gate", "hold", "settle"} => ~ mine[p].void
            /\ pc[p] \in {"finish", "rate"} => RatedBy(mine[p].void)
        /\ match.rated = "blocked" => RatedBy(TRUE)
        /\ match.rated = "rated" => RatedBy(FALSE)

\* One finalization, from the verdict to the rating, and administrators in between.
LEMMA FinalizedStep == Order /\ Claimed /\ Locked /\ FinalizedOnce /\ [Next]_vars => FinalizedOnce'
<1> SUFFICES ASSUME Order, Claimed, Locked, FinalizedOnce, [Next]_vars PROVE FinalizedOnce'
  OBVIOUS
<1> USE ActorsAssumption, SeatsAssumption, WorldsAssumption DEF Order, TypeOK, Places,
    SealedOnce, Finalizing, Finalizers, Conflict, Over, Claimed, Locked, FinalizedOnce,
    Refunded, RatedBy, NoFault
<1>1. ASSUME NEW p \in Finalizers, Act(p) PROVE FinalizedOnce'
  BY <1>1 DEF Act, Goto, facts, money, Enter, Read
<1>2. ASSUME NEW p \in Finalizers, Say(p) PROVE FinalizedOnce'
  BY <1>2 DEF Say, Goto, facts, money, Enter, Read
<1>3. ASSUME NEW p \in Finalizers, HandleTimeout(p) PROVE FinalizedOnce'
  BY <1>3 DEF HandleTimeout, Goto, facts, money, Enter, Read
<1>4. ASSUME NEW p \in Finalizers, Advance(p) PROVE FinalizedOnce'
  BY <1>4 DEF Advance, Goto, facts, money, Wrote, ThenFinalize, Leave
<1>5. ASSUME NEW p \in Finalizers, AdvanceRefused(p) PROVE FinalizedOnce'
  BY <1>5 DEF AdvanceRefused, Goto, facts, money, Leave
<1>6. ASSUME NEW p \in Finalizers, Verdict(p) PROVE FinalizedOnce'
  BY <1>6 DEF Verdict, Goto, facts, money, GoOn
<1>7. ASSUME NEW p \in Finalizers, VerdictUnreadable(p) PROVE FinalizedOnce'
  BY <1>7 DEF VerdictUnreadable, Goto, facts, money, GoOn, Fault
<1>8. ASSUME NEW p \in Finalizers, Refund(p) PROVE FinalizedOnce'
  <2>1. UNCHANGED <<match, log, hold, mine, failed>> /\ pc' = [pc EXCEPT ![p] = "finish"]
    BY <1>8 DEF Refund, GoOn, Goto
  <2>2. NoFault({"crash",
      "redis"}) => hold = "none" /\ outs = {} /\ mine[p].void /\ mine[p].seq = log /\ ~ Over
    BY <1>8 DEF Refund
  <2>3. outs = {} => outs' = {[key |-> "disburse", kind |-> "refund", to |-> Tie]}
    BY <1>8 DEF Refund, Disburse, DisburseKey
  <2>4. NoFault({"crash", "redis"}) => RatedBy(TRUE)'
    <3> SUFFICES ASSUME NoFault({"crash", "redis"}) PROVE RatedBy(TRUE)'
      BY DEF NoFault
    <3>1. hold' = "none" /\ outs' = {[key |-> "disburse", kind |-> "refund", to |-> Tie]}
      BY <2>1, <2>2, <2>3
    <3> QED BY <3>1
  <2>5. NoFault({"crash", "redis"}) => \A q \in Finalizers \ {p} : pc[q] = "idle"
    BY <1>8 DEF Refund
  <2> QED BY <2>1, <2>2, <2>4, <2>5
<1>9. ASSUME NEW p \in Finalizers, Gate(p) PROVE FinalizedOnce'
  BY <1>9 DEF Gate, Goto, facts, money, GoOn
<1>10. ASSUME NEW p \in Finalizers, GateUnreadable(p) PROVE FinalizedOnce'
  BY <1>10 DEF GateUnreadable, Goto, facts, money, GoOn, Fault
<1>11. ASSUME NEW p \in Finalizers, RecordHold(p) PROVE FinalizedOnce'
  BY <1>11 DEF RecordHold, Goto, facts, money, GoOn
<1>12. ASSUME NEW p \in Finalizers, RecordHoldFails(p) PROVE FinalizedOnce'
  BY <1>12 DEF RecordHoldFails, Goto, facts, money, GoOn, Fault
<1>13. ASSUME NEW p \in Finalizers, Settle(p) PROVE FinalizedOnce'
  BY <1>13 DEF Settle, Goto, facts, money, GoOn, Disburse, DisburseKey
<1>14. ASSUME NEW p \in Finalizers, Finish(p) PROVE FinalizedOnce'
  BY <1>14 DEF Finish, Goto, facts, money
<1>15. ASSUME NEW p \in Finalizers, FinishRefused(p) PROVE FinalizedOnce'
  BY <1>15 DEF FinishRefused, Goto, facts, money, Leave
<1>16. ASSUME NEW p \in Finalizers, Rate(p) PROVE FinalizedOnce'
  BY <1>16 DEF Rate, Goto, facts, money, Leave
<1>17. ASSUME NEW p \in Finalizers, Crash(p) PROVE FinalizedOnce'
  BY <1>17 DEF Crash, Goto, facts, money, Leave, Fault
<1>18. ASSUME NEW d \in Disputes, NEW action \in {"release", "refund", "reject"},
    Resolve(d, action) PROVE FinalizedOnce'
  BY <1>18 DEF Resolve, Administers, Goto, facts
<1>19. ASSUME NEW d \in Disputes, ResolveHold(d) PROVE FinalizedOnce'
  BY <1>19 DEF ResolveHold, Goto, facts, Administers
<1>20. ASSUME NEW d \in Disputes, RefundHeld(d) PROVE FinalizedOnce'
  BY <1>20 DEF RefundHeld, Goto, facts, Administers, Disburse, DisburseKey
<1>21. ASSUME NEW d \in Disputes, ReadSettlement(d) PROVE FinalizedOnce'
  BY <1>21 DEF ReadSettlement, Goto, facts, Administers, money
<1>22. ASSUME NEW d \in Disputes, SettleHeld(d) PROVE FinalizedOnce'
  BY <1>22 DEF SettleHeld, Goto, facts, Administers, Disburse, DisburseKey
<1>23. ASSUME NEW d \in Disputes, AdminFails(d) PROVE FinalizedOnce'
  BY <1>23 DEF AdminFails, Goto, facts, Fault, money
<1>24. ASSUME NEW s \in Seats, ProofArrives(s) PROVE FinalizedOnce'
  BY <1>24 DEF ProofArrives, money
<1>25. ASSUME FlagRaised PROVE FinalizedOnce'
  BY <1>25 DEF FlagRaised, money
<1>26. ASSUME RedisFails PROVE FinalizedOnce'
  BY <1>26 DEF RedisFails, Fault, facts, money
<1>27. ASSUME UNCHANGED vars PROVE FinalizedOnce'
  BY <1>27 DEF vars, facts, money
<1> QED BY <1>1, <1>2, <1>3, <1>4, <1>5, <1>6, <1>7, <1>8, <1>9, <1>10, <1>11, <1>12,
    <1>13, <1>14, <1>15, <1>16, <1>17, <1>18, <1>19, <1>20, <1>21, <1>22, <1>23, <1>24,
    <1>25, <1>26, <1>27
    DEF Next, Commits, Finalizes, Disburses

\* A match that is finalized under the lock, by a process that lives, is finalized once.
THEOREM SettlementFinalizedOnce == Spec => []FinalizedOnce
<1>1. Init => FinalizedOnce
  BY DEF Init, FinalizedOnce, Over, Finalizers
<1> QED BY <1>1, FinalizedStep, SettlementOrder, SettlementPaidOnce, SettlementBound, PTL DEF Spec

\* A seat that was paid is the recorded winner; and, without a crash and with locks, the
\* rating follows the verdict that the escrow followed.
THEOREM SettlementPaidAsRecorded == Spec => []PaidAsRecorded
<1>1. Order /\ PaidOnce /\ FinalizedOnce => PaidAsRecorded
  <2> SUFFICES ASSUME Order, PaidOnce, FinalizedOnce PROVE PaidAsRecorded
    OBVIOUS
  <2>1. Over => \A o \in outs : o.to \in Seats => o.to = match.winner
    BY DEF Order, SealedOnce, PaidOnce
  <2>2. RatedAsPaid
    BY DEF RatedAsPaid, FinalizedOnce, RatedBy, Refunded, Order, TypeOK
  <2> QED BY <2>1, <2>2 DEF PaidAsRecorded
<1> QED BY <1>1, SettlementOrder, SettlementPaidOnce, SettlementFinalizedOnce, PTL
==============================================================================
