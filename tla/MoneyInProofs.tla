---------------------------- MODULE MoneyInProofs ----------------------------
(***************************************************************************)
(* What module MoneyIn checks in six small situations holds in all of      *)
(* them: any number of sessions, transfers, purchases and workers, however *)
(* often events are told and whatever goes wrong.                          *)
(***************************************************************************)
EXTENDS MoneyIn, FiniteSetTheorems, WellFoundedInduction, TLAPS

-----------------------------------------------------------------------------
(* Types *)

\* What a worker has in hand.
Polls == [pc : {"look", "detect"}, of : Sessions, seen : {"pending", "detected"}]
Credits == [pc : {"credit", "complete"}, of : Sessions, what : Transfers]
Handles == [pc : {"topup", "record", "find", "level", "mark"}, of : Purchases, event : Events]
Claws == [pc : {"claw", "save", "mark"}, of : Purchases, event : Refunds, delta : Nat, balance : Nat]
Owes == [pc : {"owe", "save", "mark"}, of : Purchases, event : Refunds, short : Nat]

JobOK == job \in [Workers -> {Idle} \cup Polls \cup Credits \cup Handles \cup Claws \cup Owes]

\* A worker at an event knows its purchase, and a refund is told from a payment.
Reversing == {"find", "level", "claw", "owe", "save"}

Told ==
    /\ \A e \in emitted : (e.kind # "unpaid" => e.of \in paid) /\ (e \in Refunds => e.level <= refund[e.of])
    /\ \A e \in Events : log[e] # "none" => e \in emitted
    /\ \A w \in Workers : job[w].pc \in {"topup", "record", "mark"} \cup Reversing =>
        /\ job[w].event \in emitted /\ job[w].event.of = job[w].of
        /\ job[w].pc \in {"topup", "record"} => job[w].event.kind # "unpaid"
        /\ job[w].pc \in Reversing => job[w].event \in Refunds
        /\ job[w].pc \in Reversing \ {"find"} => job[w].of \in bought

\* A purchase is taken back by one worker at a time, and to a higher level.
Exclusive ==
    /\ \A p \in Purchases : \A v, w \in Holding(p) : v = w
    /\ \A p \in Purchases : \A w \in Holding(p) : reversed[p] < job[w].event.level
    /\ \A p \in Purchases : reversed[p] <= refund[p]

Order == TypeOK /\ JobOK /\ Told /\ Exclusive

\* A session is completed after its transfer was final and credited.
Completed ==
    /\ \A w \in Workers :
        /\ job[w].pc \in {"credit", "complete"} =>
            ForSession[job[w].what] = job[w].of /\ transfer[job[w].what] = "final"
        /\ job[w].pc = "complete" => DepositKey(job[w].what) \in Keys
    /\ deposits \subseteq Transfers
    /\ \A x \in deposits : DepositKey(x) \in Keys
    /\ \A s \in Sessions : session[s] = "completed" => \E x \in deposits : ForSession[x] = s

\* Crediting leaves the key on the journal, whoever put it there.
LEMMA CreditPosts ==
    ASSUME NEW key, NEW of, Credit(key, of)
    PROVE  key \in Keys' /\ Keys \subseteq Keys'
  BY DEF Credit, Keys, ledgerVars

\* What is posted stays posted.
LEMMA KeysGrow == [Next]_vars => Keys \subseteq Keys'
<1>1. ASSUME UNCHANGED journal PROVE Keys \subseteq Keys'
  BY <1>1 DEF Keys
<1>2. ASSUME NEW w \in Workers, Claw(w) PROVE Keys \subseteq Keys'
  BY <1>2 DEF Claw, Keys, ledgerVars
<1>3. ASSUME NEW p \in Purchases, Reconcile(p) PROVE Keys \subseteq Keys'
  BY <1>3, CreditPosts DEF Reconcile
<1>4. ASSUME NEW w \in Workers, CreditDeposit(w) \/ Topup(w) PROVE Keys \subseteq Keys'
  BY <1>4, CreditPosts DEF CreditDeposit, Topup
<1> SUFFICES ASSUME [Next]_vars PROVE Keys \subseteq Keys'
  OBVIOUS
<1>5. CASE UNCHANGED vars
  BY <1>1, <1>5 DEF vars, ledgerVars
<1>6. CASE \E s \in Sessions : Create(s) \/ Age(s)
  BY <1>1, <1>6 DEF Create, Age, ledgerVars
<1>7. CASE \E x \in Transfers : Pay(x) \/ \E how \in {"final", "dropped"} : Resolve(x, how)
  BY <1>1, <1>7 DEF Pay, Resolve, ledgerVars
<1>8. CASE Spend \/ \E p \in Purchases : CheckOut(p) \/ Settle(p) \/ Unlist(p) \/ RefundMore(p) \/ Reconcile(p)
  BY <1>1, <1>3, <1>8 DEF Spend, CheckOut, Settle, Unlist, RefundMore, ledgerVars
<1>9. CASE \E w \in Workers : Poll(w) \/ Handle(w) \/ OweFails(w) \/ Stop(w)
  BY <1>1, <1>2, <1>4, <1>9
     DEF Poll, Handle, Open, Expire, Look, Detect, Complete, RecordPurchase, Find, Level, Owe,
         Save, MarkProcessed, OweFails, Stop, ledgerVars
<1>10. CASE \E w \in Workers, e \in Events : Deliver(w, e) \/ Replay(w, e)
  BY <1>1, <1>10 DEF Deliver, Replay, ledgerVars
<1> QED BY <1>5, <1>6, <1>7, <1>8, <1>9, <1>10 DEF Next

\* The smaller of two numbers.
LEMMA MinOfTwo ==
    ASSUME NEW a \in Nat, NEW b \in Nat
    PROVE  Min({a, b}) \in Nat /\ Min({a, b}) <= a /\ Min({a, b}) <= b
<1>1. \E x \in {a, b} : \A y \in {a, b} : x <= y
  <2>1. CASE a <= b
    BY <2>1
  <2>2. CASE b <= a
    BY <2>2
  <2> QED BY <2>1, <2>2
<1> QED BY <1>1 DEF Min

\* What a reversal that is not refused does.
Covered(w) == Min({job[w].delta, job[w].balance})
Posted(w) == [key |-> ReversalKey(job[w].of, job[w].event.level), of |-> job[w].of,
              coins |-> - Covered(w), short |-> job[w].delta - Covered(w)]

\* It covers no more than was asked.
LEMMA Covers ==
    ASSUME JobOK, NEW w \in Workers, job[w].pc = "claw"
    PROVE  /\ job[w].of \in Purchases /\ job[w].event \in Refunds
           /\ job[w].delta \in Nat /\ Covered(w) \in Nat /\ job[w].delta - Covered(w) \in Nat
<1>1. job[w] \in Claws
  BY DEF JobOK, Idle, Polls, Credits, Handles, Claws, Owes
<1>2. job[w].of \in Purchases /\ job[w].event \in Refunds /\ job[w].delta \in Nat /\ job[w].balance \in Nat
  BY <1>1 DEF Claws
<1>3. Covered(w) \in Nat /\ Covered(w) <= job[w].delta
  BY <1>2, MinOfTwo DEF Covered
<1> QED BY <1>2, <1>3

\* A worker takes up an event: a refund, a payment, or one that tells of neither.
LEMMA Processes ==
    ASSUME JobOK, NEW w \in Workers, NEW e \in Events, Process(w, e)
    PROVE  /\ job'[w] \in Handles /\ job'[w].of = e.of /\ job'[w].event = e
           /\ job' = [job EXCEPT ![w] = job'[w]]
           /\ \/ job'[w].pc = "find" /\ e \in Refunds
              \/ job'[w].pc = "mark" /\ e \in Topups /\ e.kind = "unpaid"
              \/ job'[w].pc = "topup" /\ e \in Topups /\ e.kind # "unpaid"
<1> DEFINE step == CASE e.kind = "refund" -> "find"
                     [] e.kind = "unpaid" -> "mark"
                     [] OTHER -> "topup"
           r == [pc |-> step, of |-> e.of, event |-> e]
<1>1. job' = [job EXCEPT ![w] = r]
  BY DEF Process
<1>2. /\ e.kind = "refund" => step = "find"
      /\ e.kind = "unpaid" => step = "mark"
      /\ e.kind \notin {"refund", "unpaid"} => step = "topup"
  OBVIOUS
<1>3. e.of \in Purchases /\ (e.kind = "refund" <=> e \in Refunds) /\ (e.kind # "refund" <=> e \in Topups)
  BY DEF Events, Topups, TopupKinds, Refunds
<1>4. step \in {"find", "mark", "topup"}
  BY <1>2
<1>5. r \in Handles /\ r.of = e.of /\ r.event = e /\ r.pc = step
  BY <1>3, <1>4 DEF Handles
<1> HIDE DEF r
<1>6. job'[w] = r
  BY <1>1 DEF JobOK
<1> HIDE DEF step
<1> QED BY <1>1, <1>2, <1>3, <1>5, <1>6

\* Every step leaves the variables in their types; a completed session stays completed,
\* because only open ones expire and nobody but a completion completes.
LEMMA TypeStep == Order /\ Completed /\ [Next]_vars => TypeOK'
<1> SUFFICES ASSUME Order, Completed, [Next]_vars PROVE TypeOK'
  OBVIOUS
<1> USE MoneyAssumption, SituationsAssumption DEF Order, JobOK, TypeOK, Told, Exclusive,
    Reversing, Completed, Polls, Credits, Handles, Claws, Owes, Idle
<1>1. ASSUME NEW s \in Sessions, Create(s) PROVE TypeOK'
  BY <1>1 DEF Create, chainVars, stripeVars, ledgerVars
<1>2. ASSUME NEW s \in Sessions, Age(s) PROVE TypeOK'
  BY <1>2 DEF Age, chainVars, stripeVars, ledgerVars
<1>3. ASSUME NEW x \in Transfers, Pay(x) PROVE TypeOK'
  BY <1>3 DEF Pay, chainVars, stripeVars, ledgerVars
<1>4. ASSUME NEW x \in Transfers, NEW how \in {"final", "dropped"}, Resolve(x,
    how) PROVE TypeOK'
  BY <1>4 DEF Resolve, chainVars, stripeVars, ledgerVars
<1>5. ASSUME NEW p \in Purchases, Settle(p) PROVE TypeOK'
  BY <1>5 DEF Settle, Telling, chainVars, stripeVars, ledgerVars, Events, Topups, Refunds
<1>6. ASSUME NEW p \in Purchases, RefundMore(p) PROVE TypeOK'
  BY <1>6 DEF RefundMore, chainVars, stripeVars, ledgerVars, Events, Topups, Refunds
<1>7. ASSUME NEW p \in Purchases, Reconcile(p) PROVE TypeOK'
  BY <1>7 DEF Reconcile, Credit, chainVars, stripeVars, ledgerVars
<1>8. ASSUME Spend PROVE TypeOK'
  BY <1>8 DEF Spend, chainVars, stripeVars, ledgerVars
<1>9. ASSUME NEW w \in Workers, NEW s \in Sessions, Open(w, s) PROVE TypeOK'
  BY <1>9 DEF Open, IsOpen, chainVars, stripeVars, ledgerVars
<1>10. ASSUME NEW w \in Workers, Expire(w) PROVE TypeOK'
  BY <1>10 DEF Expire, Expired, Done, IsOpen, chainVars, stripeVars, ledgerVars
<1>11. ASSUME NEW w \in Workers, Look(w) PROVE TypeOK'
  <2>1. job[w].of \in Sessions
    BY <1>11 DEF Look
  <2>2. heard' \in [Sessions -> BOOLEAN]
    <3> DEFINE b == TRUE
    <3>1. heard' = heard \/ heard' = [heard EXCEPT ![job[w].of] = b]
      BY <1>11 DEF Look
    <3>2. b \in BOOLEAN
      OBVIOUS
    <3> HIDE DEF b
    <3> QED BY <2>1, <3>1, <3>2
  <2>3. UNCHANGED <<world, faults, session, age, transfer, deposits, stripeVars,
      ledgerVars>>
    BY <1>11 DEF Look
  <2> QED BY <2>2, <2>3 DEF stripeVars, ledgerVars
<1>12. ASSUME NEW w \in Workers, Detect(w) PROVE TypeOK'
  <2>1. job[w].of \in Sessions
    BY <1>12 DEF Detect
  <2>2. session' \in [Sessions -> {"none", "pending", "detected", "completed", "expired"}]
    BY <1>12, <2>1 DEF Detect
  <2>3. heard' \in [Sessions -> BOOLEAN]
    BY <1>12, <2>1 DEF Detect, InFlight
  <2>4. \A x \in deposits : session'[ForSession[x]] = "completed"
    BY <1>12, <2>1 DEF Detect
  <2> QED BY <1>12, <2>2, <2>3, <2>4 DEF Detect, stripeVars, ledgerVars
<1>13. ASSUME NEW w \in Workers, CreditDeposit(w) PROVE TypeOK'
  BY <1>13 DEF CreditDeposit, Credit, Goto, chainVars, stripeVars, ledgerVars
<1>14. ASSUME NEW w \in Workers, Complete(w) PROVE TypeOK'
  <2>1. job[w].of \in Sessions /\ job[w].what \in Transfers /\ ForSession[job[w].what] = job[w].of
    BY <1>14 DEF Complete
  <2>2. session' \in [Sessions -> {"none", "pending", "detected", "completed", "expired"}]
    BY <1>14, <2>1 DEF Complete
  <2>3. \A x \in deposits' : session'[ForSession[x]] = "completed"
    BY <1>14, <2>1 DEF Complete
  <2> QED BY <1>14, <2>2, <2>3 DEF Complete, stripeVars, ledgerVars
<1>15. ASSUME NEW w \in Workers, Topup(w) PROVE TypeOK'
  BY <1>15 DEF Topup, Credit, Goto, chainVars, stripeVars, ledgerVars
<1>16. ASSUME NEW w \in Workers, RecordPurchase(w) PROVE TypeOK'
  BY <1>16 DEF RecordPurchase, Goto, chainVars, stripeVars, ledgerVars
<1>17. ASSUME NEW w \in Workers, Find(w) PROVE TypeOK'
  BY <1>17 DEF Find, Goto, chainVars, stripeVars, ledgerVars
<1>18. ASSUME NEW w \in Workers, Level(w) PROVE TypeOK'
  BY <1>18 DEF Level, Goto, MayReverse, chainVars, stripeVars, ledgerVars
<1>19. ASSUME NEW w \in Workers, Claw(w) PROVE TypeOK'
  <2>1. treasury' \in Nat
    <3>2. Covered(w) \in Nat
      BY <1>19, Covers DEF Claw
    <3> QED BY <1>19, <3>2 DEF Claw, Covered, ledgerVars
  <2>2. debt' = debt
    BY <1>19 DEF Claw, ledgerVars
  <2>3. UNCHANGED <<world, faults, chainVars, stripeVars>>
    BY <1>19 DEF Claw
  <2> QED BY <2>1, <2>2, <2>3 DEF chainVars, stripeVars
<1>20. ASSUME NEW w \in Workers, Owe(w) PROVE TypeOK'
  BY <1>20 DEF Owe, Goto, chainVars, stripeVars, ledgerVars
<1>21. ASSUME NEW w \in Workers, Save(w) PROVE TypeOK'
  <2>1. job[w].of \in Purchases /\ job[w].event \in Refunds /\ job[w].of \in bought
    BY <1>21 DEF Save
  <2>2. reversed' \in [Purchases -> 0 .. Coins]
    <3>1. job[w].event.level \in 0 .. Coins
      BY <2>1 DEF Refunds
    <3> QED BY <1>21, <3>1 DEF Save
  <2>3. \A p \in Purchases : reversed'[p] > 0 => p \in bought
    BY <1>21, <2>1 DEF Save
  <2> QED BY <1>21, <2>2, <2>3 DEF Save, chainVars, ledgerVars
<1>22. ASSUME NEW w \in Workers, MarkProcessed(w) PROVE TypeOK'
  BY <1>22 DEF MarkProcessed, Done, chainVars, stripeVars, ledgerVars
<1>23. ASSUME NEW w \in Workers, OweFails(w) PROVE TypeOK'
  BY <1>23 DEF OweFails, Goto, chainVars, stripeVars, ledgerVars
<1>24. ASSUME NEW w \in Workers, Stop(w) PROVE TypeOK'
  BY <1>24 DEF Stop, Done, chainVars, stripeVars, ledgerVars
<1>25. ASSUME NEW w \in Workers, NEW e \in Events, Deliver(w, e) PROVE TypeOK'
  BY <1>25 DEF Deliver, Process, chainVars, stripeVars, ledgerVars
<1>26. ASSUME NEW w \in Workers, NEW e \in Events, Replay(w, e) PROVE TypeOK'
  BY <1>26 DEF Replay, Process, chainVars, stripeVars, ledgerVars
<1>27. ASSUME UNCHANGED vars PROVE TypeOK'
  BY <1>27 DEF vars, chainVars, stripeVars, ledgerVars
<1>28. ASSUME NEW p \in Purchases, CheckOut(p) PROVE TypeOK'
  BY <1>28 DEF CheckOut, Telling, chainVars, stripeVars, ledgerVars, Events, Topups, Refunds
<1>29. ASSUME NEW p \in Purchases, Unlist(p) PROVE TypeOK'
  BY <1>29 DEF Unlist, chainVars, stripeVars, ledgerVars
<1> HIDE DEF Order, JobOK, TypeOK, Told, Exclusive, Completed
<1> QED BY <1>1, <1>2, <1>3, <1>4, <1>5, <1>6, <1>7, <1>8, <1>9, <1>10, <1>11, <1>12,
    <1>13, <1>14, <1>15, <1>16, <1>17, <1>18, <1>19, <1>20, <1>21, <1>22, <1>23, <1>24,
    <1>25, <1>26, <1>27, <1>28, <1>29
    DEF Next, Poll, Handle

\* A worker goes from one task to the next with what the next one needs.
LEMMA JobStep == Order /\ [Next]_vars => JobOK'
<1> SUFFICES ASSUME Order, [Next]_vars PROVE JobOK'
  OBVIOUS
<1> USE MoneyAssumption DEF Order, JobOK, TypeOK, Told, Reversing, Polls, Credits, Handles,
    Claws, Owes, Idle
<1>1. ASSUME NEW s \in Sessions, Create(s) PROVE JobOK'
  BY <1>1 DEF Create, chainVars, stripeVars, ledgerVars
<1>2. ASSUME NEW s \in Sessions, Age(s) PROVE JobOK'
  BY <1>2 DEF Age, chainVars, stripeVars, ledgerVars
<1>3. ASSUME NEW x \in Transfers, Pay(x) PROVE JobOK'
  BY <1>3 DEF Pay, chainVars, stripeVars, ledgerVars
<1>4. ASSUME NEW x \in Transfers, NEW how \in {"final", "dropped"}, Resolve(x,
    how) PROVE JobOK'
  BY <1>4 DEF Resolve, chainVars, stripeVars, ledgerVars
<1>5. ASSUME NEW p \in Purchases, Settle(p) PROVE JobOK'
  BY <1>5 DEF Settle, chainVars, stripeVars, ledgerVars
<1>6. ASSUME NEW p \in Purchases, RefundMore(p) PROVE JobOK'
  BY <1>6 DEF RefundMore, chainVars, stripeVars, ledgerVars
<1>7. ASSUME NEW p \in Purchases, Reconcile(p) PROVE JobOK'
  BY <1>7 DEF Reconcile, Credit, chainVars, stripeVars, ledgerVars
<1>8. ASSUME Spend PROVE JobOK'
  BY <1>8 DEF Spend, chainVars, stripeVars, ledgerVars
<1>9. ASSUME NEW w \in Workers, NEW s \in Sessions, Open(w, s) PROVE JobOK'
  BY <1>9 DEF Open, IsOpen, chainVars, stripeVars, ledgerVars
<1>10. ASSUME NEW w \in Workers, Expire(w) PROVE JobOK'
  BY <1>10 DEF Expire, Expired, Done, IsOpen, chainVars, stripeVars, ledgerVars
<1>11. ASSUME NEW w \in Workers, Look(w) PROVE JobOK'
  BY <1>11 DEF Look, Creditable, Goto, Done, chainVars, stripeVars, ledgerVars
<1>12. ASSUME NEW w \in Workers, Detect(w) PROVE JobOK'
  BY <1>12 DEF Detect, Done, chainVars, stripeVars, ledgerVars
<1>13. ASSUME NEW w \in Workers, CreditDeposit(w) PROVE JobOK'
  BY <1>13 DEF CreditDeposit, Credit, Goto, chainVars, stripeVars, ledgerVars
<1>14. ASSUME NEW w \in Workers, Complete(w) PROVE JobOK'
  BY <1>14 DEF Complete, Done, chainVars, stripeVars, ledgerVars
<1>15. ASSUME NEW w \in Workers, Topup(w) PROVE JobOK'
  BY <1>15 DEF Topup, Credit, Goto, chainVars, stripeVars, ledgerVars
<1>16. ASSUME NEW w \in Workers, RecordPurchase(w) PROVE JobOK'
  BY <1>16 DEF RecordPurchase, Goto, chainVars, stripeVars, ledgerVars
<1>17. ASSUME NEW w \in Workers, Find(w) PROVE JobOK'
  BY <1>17 DEF Find, Goto, chainVars, stripeVars, ledgerVars
<1>18. ASSUME NEW w \in Workers, Level(w) PROVE JobOK'
  <2>1. job[w] \in Handles /\ job[w].event \in Refunds /\ job[w].of = job[w].event.of
    BY <1>18 DEF Level
  <2>2. CASE job[w].event.level <= reversed[job[w].event.of]
    <3>1. job' = [job EXCEPT ![w].pc = "mark"]
      BY <1>18, <2>2 DEF Level, Goto
    <3> QED BY <2>1, <3>1
  <2>3. CASE ~ (job[w].event.level <= reversed[job[w].event.of])
    <3> DEFINE r == [pc |-> "claw", of |-> job[w].event.of, event |-> job[w].event,
                     delta |-> job[w].event.level - reversed[job[w].event.of],
                         balance |-> treasury]
    <3>1. job' = [job EXCEPT ![w] = r]
      BY <1>18, <2>3 DEF Level
    <3>2. job[w].event.level \in 1 .. Coins /\ job[w].event.of \in Purchases
      BY <2>1 DEF Refunds
    <3>3. job[w].event.level - reversed[job[w].event.of] \in Nat
      BY <2>3, <3>2
    <3>4. r \in Claws
      BY <2>1, <3>2, <3>3
    <3> HIDE DEF r
    <3> QED BY <3>1, <3>4
  <2> QED BY <2>2, <2>3
<1>19. ASSUME NEW w \in Workers, Claw(w) PROVE JobOK'
  <2>1. job[w] \in Claws /\ job[w].pc = "claw"
    BY <1>19 DEF Claw
  <2>2. job[w].delta - Covered(w) \in Nat /\ job[w].event \in Refunds /\ job[w].event.of = job[w].of
    BY <2>1, Covers DEF Claw
  <2> DEFINE short == job[w].delta - Covered(w)
             r == [pc |-> "owe", of |-> job[w].event.of, event |-> job[w].event,
                 short |-> short]
  <2>3. \/ job' = [job EXCEPT ![w].pc = "save"]
        \/ job' = [job EXCEPT ![w] = Idle]
        \/ job' = [job EXCEPT ![w] = r]
    BY <1>19 DEF Claw, Goto, Done, Covered
  <2>4. r \in Owes
    BY <2>1, <2>2
  <2>5. CASE job' = [job EXCEPT ![w].pc = "save"]
    BY <2>1, <2>5
  <2>6. CASE job' = [job EXCEPT ![w] = Idle]
    BY <2>6
  <2>7. CASE job' = [job EXCEPT ![w] = r]
    <3> HIDE DEF r
    <3> QED BY <2>4, <2>7
  <2> QED BY <2>3, <2>5, <2>6, <2>7
<1>20. ASSUME NEW w \in Workers, Owe(w) PROVE JobOK'
  BY <1>20 DEF Owe, Goto, chainVars, stripeVars, ledgerVars
<1>21. ASSUME NEW w \in Workers, Save(w) PROVE JobOK'
  BY <1>21 DEF Save, Goto, chainVars, stripeVars, ledgerVars
<1>22. ASSUME NEW w \in Workers, MarkProcessed(w) PROVE JobOK'
  BY <1>22 DEF MarkProcessed, Done, chainVars, stripeVars, ledgerVars
<1>23. ASSUME NEW w \in Workers, OweFails(w) PROVE JobOK'
  BY <1>23 DEF OweFails, Goto, chainVars, stripeVars, ledgerVars
<1>24. ASSUME NEW w \in Workers, Stop(w) PROVE JobOK'
  BY <1>24 DEF Stop, Done, chainVars, stripeVars, ledgerVars
<1>25. ASSUME NEW w \in Workers, NEW e \in Events, Deliver(w, e) PROVE JobOK'
  <2>1. job'[w] \in Handles /\ job' = [job EXCEPT ![w] = job'[w]]
    BY <1>25, Processes DEF Deliver
  <2> QED BY <2>1
<1>26. ASSUME NEW w \in Workers, NEW e \in Events, Replay(w, e) PROVE JobOK'
  <2>1. job'[w] \in Handles /\ job' = [job EXCEPT ![w] = job'[w]]
    BY <1>26, Processes DEF Replay
  <2> QED BY <2>1
<1>27. ASSUME UNCHANGED vars PROVE JobOK'
  BY <1>27 DEF vars, chainVars, stripeVars, ledgerVars
<1>28. ASSUME NEW p \in Purchases, CheckOut(p) PROVE JobOK'
  BY <1>28 DEF CheckOut, Telling, chainVars, stripeVars, ledgerVars
<1>29. ASSUME NEW p \in Purchases, Unlist(p) PROVE JobOK'
  BY <1>29 DEF Unlist, chainVars, stripeVars, ledgerVars
<1> HIDE DEF Order, JobOK, TypeOK, Told
<1> QED BY <1>1, <1>2, <1>3, <1>4, <1>5, <1>6, <1>7, <1>8, <1>9, <1>10, <1>11, <1>12,
    <1>13, <1>14, <1>15, <1>16, <1>17, <1>18, <1>19, <1>20, <1>21, <1>22, <1>23, <1>24,
    <1>25, <1>26, <1>27, <1>28, <1>29
    DEF Next, Poll, Handle

\* Nobody works at an event that was not sent, and refunds and payments only rise.
LEMMA ToldStep == Order /\ [Next]_vars => Told'
<1> SUFFICES ASSUME Order, [Next]_vars PROVE Told'
  OBVIOUS
<1> USE MoneyAssumption, SituationsAssumption DEF Order, JobOK, TypeOK, Told, Reversing,
    Polls, Credits, Handles, Claws, Owes, Idle
<1>1. ASSUME NEW s \in Sessions, Create(s) PROVE Told'
  BY <1>1 DEF Create, chainVars, stripeVars, ledgerVars
<1>2. ASSUME NEW s \in Sessions, Age(s) PROVE Told'
  BY <1>2 DEF Age, chainVars, stripeVars, ledgerVars
<1>3. ASSUME NEW x \in Transfers, Pay(x) PROVE Told'
  BY <1>3 DEF Pay, chainVars, stripeVars, ledgerVars
<1>4. ASSUME NEW x \in Transfers, NEW how \in {"final", "dropped"}, Resolve(x,
    how) PROVE Told'
  BY <1>4 DEF Resolve, chainVars, stripeVars, ledgerVars
<1>5. ASSUME NEW p \in Purchases, Settle(p) PROVE Told'
  BY <1>5 DEF Settle, Telling, chainVars, stripeVars, ledgerVars, Events, Topups, Refunds
<1>6. ASSUME NEW p \in Purchases, RefundMore(p) PROVE Told'
  BY <1>6 DEF RefundMore, chainVars, stripeVars, ledgerVars, Events, Topups, Refunds
<1>7. ASSUME NEW p \in Purchases, Reconcile(p) PROVE Told'
  BY <1>7 DEF Reconcile, Credit, chainVars, stripeVars, ledgerVars
<1>8. ASSUME Spend PROVE Told'
  BY <1>8 DEF Spend, chainVars, stripeVars, ledgerVars
<1>9. ASSUME NEW w \in Workers, NEW s \in Sessions, Open(w, s) PROVE Told'
  BY <1>9 DEF Open, IsOpen, chainVars, stripeVars, ledgerVars
<1>10. ASSUME NEW w \in Workers, Expire(w) PROVE Told'
  BY <1>10 DEF Expire, Expired, Done, IsOpen, chainVars, stripeVars, ledgerVars
<1>11. ASSUME NEW w \in Workers, Look(w) PROVE Told'
  BY <1>11 DEF Look, Creditable, Goto, Done, chainVars, stripeVars, ledgerVars, Events,
      Topups, Refunds
<1>12. ASSUME NEW w \in Workers, Detect(w) PROVE Told'
  BY <1>12 DEF Detect, Done, chainVars, stripeVars, ledgerVars
<1>13. ASSUME NEW w \in Workers, CreditDeposit(w) PROVE Told'
  BY <1>13 DEF CreditDeposit, Credit, Goto, chainVars, stripeVars, ledgerVars
<1>14. ASSUME NEW w \in Workers, Complete(w) PROVE Told'
  BY <1>14 DEF Complete, Done, chainVars, stripeVars, ledgerVars
<1>15. ASSUME NEW w \in Workers, Topup(w) PROVE Told'
  BY <1>15 DEF Topup, Credit, Goto, chainVars, stripeVars, ledgerVars
<1>16. ASSUME NEW w \in Workers, RecordPurchase(w) PROVE Told'
  BY <1>16 DEF RecordPurchase, Goto, chainVars, stripeVars, ledgerVars
<1>17. ASSUME NEW w \in Workers, Find(w) PROVE Told'
  BY <1>17 DEF Find, Goto, chainVars, stripeVars, ledgerVars
<1>18. ASSUME NEW w \in Workers, Level(w) PROVE Told'
  BY <1>18 DEF Level, Goto, MayReverse, chainVars, stripeVars, ledgerVars
<1>19. ASSUME NEW w \in Workers, Claw(w) PROVE Told'
  BY <1>19 DEF Claw, Goto, Done, chainVars, stripeVars, ledgerVars
<1>20. ASSUME NEW w \in Workers, Owe(w) PROVE Told'
  BY <1>20 DEF Owe, Goto, chainVars, stripeVars, ledgerVars
<1>21. ASSUME NEW w \in Workers, Save(w) PROVE Told'
  BY <1>21 DEF Save, Goto, chainVars, stripeVars, ledgerVars
<1>22. ASSUME NEW w \in Workers, MarkProcessed(w) PROVE Told'
  BY <1>22 DEF MarkProcessed, Done, chainVars, stripeVars, ledgerVars
<1>23. ASSUME NEW w \in Workers, OweFails(w) PROVE Told'
  BY <1>23 DEF OweFails, Goto, chainVars, stripeVars, ledgerVars
<1>24. ASSUME NEW w \in Workers, Stop(w) PROVE Told'
  BY <1>24 DEF Stop, Done, chainVars, stripeVars, ledgerVars
<1>25. ASSUME NEW w \in Workers, NEW e \in Events, Deliver(w, e) PROVE Told'
  <2>1. /\ job'[w].of = e.of /\ job'[w].event = e /\ job' = [job EXCEPT ![w] = job'[w]]
        /\ job'[w].pc \in {"find", "mark", "topup"}
        /\ job'[w].pc = "find" => e \in Refunds
        /\ job'[w].pc = "topup" => e.kind # "unpaid"
    BY <1>25, Processes DEF Deliver
  <2>2. e \in emitted /\ UNCHANGED <<emitted, paid, refund, bought>>
    BY <1>25 DEF Deliver, stripeVars
  <2>3. \A v \in Workers : v # w => job'[v] = job[v]
    BY <2>1
  <2>4. \A d \in Events : log'[d] # "none" => log[d] # "none" \/ d = e
    BY <1>25 DEF Deliver, stripeVars
  <2> QED BY <2>1, <2>2, <2>3, <2>4
<1>26. ASSUME NEW w \in Workers, NEW e \in Events, Replay(w, e) PROVE Told'
  <2>1. /\ job'[w].of = e.of /\ job'[w].event = e /\ job' = [job EXCEPT ![w] = job'[w]]
        /\ job'[w].pc \in {"find", "mark", "topup"}
        /\ job'[w].pc = "find" => e \in Refunds
        /\ job'[w].pc = "topup" => e.kind # "unpaid"
    BY <1>26, Processes DEF Replay
  <2>2. e \in emitted /\ UNCHANGED <<emitted, paid, refund, bought>>
    BY <1>26 DEF Replay, stripeVars
  <2>3. \A v \in Workers : v # w => job'[v] = job[v]
    BY <2>1
  <2>4. \A d \in Events : log'[d] # "none" => log[d] # "none" \/ d = e
    BY <1>26 DEF Replay, stripeVars
  <2> QED BY <2>1, <2>2, <2>3, <2>4
<1>27. ASSUME UNCHANGED vars PROVE Told'
  BY <1>27 DEF vars, chainVars, stripeVars, ledgerVars
<1>28. ASSUME NEW p \in Purchases, CheckOut(p) PROVE Told'
  BY <1>28 DEF CheckOut, Telling, chainVars, stripeVars, ledgerVars, Events, Topups, Refunds
<1>29. ASSUME NEW p \in Purchases, Unlist(p) PROVE Told'
  BY <1>29 DEF Unlist, chainVars, stripeVars, ledgerVars
<1> HIDE DEF Order, JobOK, TypeOK, Told
<1> QED BY <1>1, <1>2, <1>3, <1>4, <1>5, <1>6, <1>7, <1>8, <1>9, <1>10, <1>11, <1>12,
    <1>13, <1>14, <1>15, <1>16, <1>17, <1>18, <1>19, <1>20, <1>21, <1>22, <1>23, <1>24,
    <1>25, <1>26, <1>27, <1>28, <1>29
    DEF Next, Poll, Handle

\* The lock on the row of a purchase keeps a second worker from taking it back.
LEMMA ExclusiveStep == Order /\ [Next]_vars => Exclusive'
<1> SUFFICES ASSUME Order, [Next]_vars PROVE Exclusive'
  OBVIOUS
<1> USE MoneyAssumption, SituationsAssumption DEF Order, JobOK, TypeOK, Told, Exclusive,
    Holding, Reversing, Polls, Credits, Handles, Claws, Owes, Idle
<1>1. ASSUME NEW s \in Sessions, Create(s) PROVE Exclusive'
  BY <1>1 DEF Create, chainVars, stripeVars, ledgerVars
<1>2. ASSUME NEW s \in Sessions, Age(s) PROVE Exclusive'
  BY <1>2 DEF Age, chainVars, stripeVars, ledgerVars
<1>3. ASSUME NEW x \in Transfers, Pay(x) PROVE Exclusive'
  BY <1>3 DEF Pay, chainVars, stripeVars, ledgerVars
<1>4. ASSUME NEW x \in Transfers, NEW how \in {"final", "dropped"}, Resolve(x,
    how) PROVE Exclusive'
  BY <1>4 DEF Resolve, chainVars, stripeVars, ledgerVars
<1>5. ASSUME NEW p \in Purchases, Settle(p) PROVE Exclusive'
  BY <1>5 DEF Settle, chainVars, stripeVars, ledgerVars
<1>6. ASSUME NEW p \in Purchases, RefundMore(p) PROVE Exclusive'
  BY <1>6 DEF RefundMore, chainVars, stripeVars, ledgerVars
<1>7. ASSUME NEW p \in Purchases, Reconcile(p) PROVE Exclusive'
  BY <1>7 DEF Reconcile, Credit, chainVars, stripeVars, ledgerVars
<1>8. ASSUME Spend PROVE Exclusive'
  BY <1>8 DEF Spend, chainVars, stripeVars, ledgerVars
<1>9. ASSUME NEW w \in Workers, NEW s \in Sessions, Open(w, s) PROVE Exclusive'
  BY <1>9 DEF Open, IsOpen, chainVars, stripeVars, ledgerVars
<1>10. ASSUME NEW w \in Workers, Expire(w) PROVE Exclusive'
  BY <1>10 DEF Expire, Expired, Done, IsOpen, chainVars, stripeVars, ledgerVars
<1>11. ASSUME NEW w \in Workers, Look(w) PROVE Exclusive'
  <2>1. \A v \in Workers : v # w => job'[v] = job[v]
    BY <1>11 DEF Look, Goto, Done
  <2>2. job[w].pc \notin {"claw", "owe", "save"} /\ job'[w].pc \notin {"claw", "owe",
      "save"}
    BY <1>11 DEF Look, Goto, Done
  <2>3. \A p \in Purchases : Holding(p)' = Holding(p) /\ \A v \in Holding(p) : job'[v] = job[v]
    BY <2>1, <2>2
  <2> QED BY <1>11, <2>3 DEF Look, chainVars, stripeVars
<1>12. ASSUME NEW w \in Workers, Detect(w) PROVE Exclusive'
  BY <1>12 DEF Detect, Done, chainVars, stripeVars, ledgerVars
<1>13. ASSUME NEW w \in Workers, CreditDeposit(w) PROVE Exclusive'
  BY <1>13 DEF CreditDeposit, Credit, Goto, chainVars, stripeVars, ledgerVars
<1>14. ASSUME NEW w \in Workers, Complete(w) PROVE Exclusive'
  BY <1>14 DEF Complete, Done, chainVars, stripeVars, ledgerVars
<1>15. ASSUME NEW w \in Workers, Topup(w) PROVE Exclusive'
  BY <1>15 DEF Topup, Credit, Goto, chainVars, stripeVars, ledgerVars
<1>16. ASSUME NEW w \in Workers, RecordPurchase(w) PROVE Exclusive'
  BY <1>16 DEF RecordPurchase, Goto, chainVars, stripeVars, ledgerVars
<1>17. ASSUME NEW w \in Workers, Find(w) PROVE Exclusive'
  <2>1. \A v \in Workers : v # w => job'[v] = job[v]
    BY <1>17 DEF Find, Goto, Done
  <2>2. job[w].pc \notin {"claw", "owe", "save"} /\ job'[w].pc \notin {"claw", "owe",
      "save"}
    BY <1>17 DEF Find, Goto, Done
  <2>3. \A p \in Purchases : Holding(p)' = Holding(p) /\ \A v \in Holding(p) : job'[v] = job[v]
    BY <2>1, <2>2
  <2> QED BY <1>17, <2>3 DEF Find, chainVars, stripeVars
<1>18. ASSUME NEW w \in Workers, Level(w) PROVE Exclusive'
  <2>1. job[w] \in Handles /\ job[w].event \in Refunds /\ job[w].of = job[w].event.of
    BY <1>18 DEF Level
  <2>2. job[w].of \in Purchases /\ job[w].event.level \in 1 .. Coins /\ Holding(job[w].of) = {}
    BY <1>18, <2>1 DEF Level, MayReverse, Refunds
  <2>3. \A v \in Workers : v # w => job'[v] = job[v]
    BY <1>18 DEF Level, Goto
  <2>4. UNCHANGED <<reversed, refund>>
    BY <1>18 DEF Level, stripeVars
  <2>5. CASE job[w].event.level <= reversed[job[w].of]
    <3>1. job'[w].pc = "mark"
      BY <1>18, <2>1, <2>5 DEF Level, Goto
    <3>2. \A p \in Purchases : Holding(p)' = Holding(p) /\ \A v \in Holding(p) : job'[v] = job[v]
      BY <2>1, <2>3, <3>1
    <3> QED BY <2>4, <3>2
  <2>6. CASE ~ (job[w].event.level <= reversed[job[w].of])
    <3>1. job'[w].pc = "claw" /\ job'[w].of = job[w].of /\ job'[w].event = job[w].event
      BY <1>18, <2>1, <2>6 DEF Level
    <3>2. \A p \in Purchases : p # job[w].of =>
            Holding(p)' = Holding(p) /\ \A v \in Holding(p) : job'[v] = job[v]
      BY <2>1, <2>3, <3>1
    <3>3. \A p \in Purchases : p = job[w].of => Holding(p)' = {w}
      BY <2>2, <2>3, <3>1
    <3>4. reversed[job[w].of] < job'[w].event.level
      BY <2>2, <2>6, <3>1
    <3>5. ASSUME NEW p \in Purchases, NEW v \in Holding(p)'
          PROVE  (\A u \in Holding(p)' : u = v) /\ reversed[p] < job'[v].event.level
      <4>1. CASE p = job[w].of
        <5>1. Holding(p)' = {w}
          BY <3>3, <4>1
        <5> HIDE DEF Holding
        <5> QED BY <3>4, <4>1, <5>1
      <4>2. CASE p # job[w].of
        <5>1. Holding(p)' = Holding(p) /\ job'[v] = job[v]
          BY <3>2, <4>2
        <5> HIDE DEF Holding
        <5> QED BY <5>1
      <4> QED BY <4>1, <4>2
    <3> HIDE DEF Holding
    <3> QED BY <2>4, <3>5
  <2> QED BY <2>5, <2>6
<1>19. ASSUME NEW w \in Workers, Claw(w) PROVE Exclusive'
  <2>1. \A v \in Workers : v # w => job'[v] = job[v]
    BY <1>19 DEF Claw, Goto, Done
  <2>2. job[w] \in Claws /\ job[w].pc = "claw" /\ job[w].of = job[w].event.of
    BY <1>19 DEF Claw
  <2>3. job'[w] = Idle \/ (job'[w].pc \in {"save",
      "owe"} /\ job'[w].of = job[w].of /\ job'[w].event = job[w].event)
    BY <1>19, <2>2 DEF Claw, Goto, Done
  <2>4. \A p \in Purchases : Holding(p)' \subseteq Holding(p) /\ \A v \in Holding(p)' : job'[v].event = job[v].event
    <3>1. \A v \in Workers : job'[v].pc \in {"claw", "owe", "save"} =>
            job[v].pc \in {"claw", "owe", "save"} /\ job'[v].of = job[v].of /\ job'[v].event = job[v].event
      BY <2>1, <2>2, <2>3
    <3> QED BY <3>1
  <2> QED BY <1>19, <2>4 DEF Claw, stripeVars
<1>20. ASSUME NEW w \in Workers, Owe(w) PROVE Exclusive'
  BY <1>20 DEF Owe, Goto, chainVars, stripeVars, ledgerVars
<1>21. ASSUME NEW w \in Workers, Save(w) PROVE Exclusive'
  BY <1>21 DEF Save, Goto, chainVars, stripeVars, ledgerVars
<1>22. ASSUME NEW w \in Workers, MarkProcessed(w) PROVE Exclusive'
  BY <1>22 DEF MarkProcessed, Done, chainVars, stripeVars, ledgerVars
<1>23. ASSUME NEW w \in Workers, OweFails(w) PROVE Exclusive'
  BY <1>23 DEF OweFails, Goto, chainVars, stripeVars, ledgerVars
<1>24. ASSUME NEW w \in Workers, Stop(w) PROVE Exclusive'
  BY <1>24 DEF Stop, Done, chainVars, stripeVars, ledgerVars
<1>25. ASSUME NEW w \in Workers, NEW e \in Events, Deliver(w, e) PROVE Exclusive'
  BY <1>25 DEF Deliver, Process, chainVars, stripeVars, ledgerVars
<1>26. ASSUME NEW w \in Workers, NEW e \in Events, Replay(w, e) PROVE Exclusive'
  BY <1>26 DEF Replay, Process, chainVars, stripeVars, ledgerVars
<1>27. ASSUME UNCHANGED vars PROVE Exclusive'
  BY <1>27 DEF vars, chainVars, stripeVars, ledgerVars
<1>28. ASSUME NEW p \in Purchases, CheckOut(p) PROVE Exclusive'
  BY <1>28 DEF CheckOut, Telling, chainVars, stripeVars, ledgerVars
<1>29. ASSUME NEW p \in Purchases, Unlist(p) PROVE Exclusive'
  BY <1>29 DEF Unlist, chainVars, stripeVars, ledgerVars
<1> HIDE DEF Order, JobOK, TypeOK, Told, Exclusive
<1> QED BY <1>1, <1>2, <1>3, <1>4, <1>5, <1>6, <1>7, <1>8, <1>9, <1>10, <1>11, <1>12,
    <1>13, <1>14, <1>15, <1>16, <1>17, <1>18, <1>19, <1>20, <1>21, <1>22, <1>23, <1>24,
    <1>25, <1>26, <1>27, <1>28, <1>29
    DEF Next, Poll, Handle

\* A deposit is posted before it is recorded, and recorded when the session completes.
LEMMA CompletedStep == Order /\ Completed /\ [Next]_vars => Completed'
<1> SUFFICES ASSUME Order, Completed, [Next]_vars PROVE Completed'
  OBVIOUS
<1> USE MoneyAssumption, SituationsAssumption DEF Order, JobOK, TypeOK, Completed, Polls,
    Credits, Handles, Claws, Owes, Idle
<1>1. ASSUME NEW s \in Sessions, Create(s) PROVE Completed'
  BY <1>1, KeysGrow, CreditPosts DEF Create, chainVars, stripeVars, ledgerVars
<1>2. ASSUME NEW s \in Sessions, Age(s) PROVE Completed'
  BY <1>2, KeysGrow, CreditPosts DEF Age, chainVars, stripeVars, ledgerVars
<1>3. ASSUME NEW x \in Transfers, Pay(x) PROVE Completed'
  BY <1>3, KeysGrow, CreditPosts DEF Pay, chainVars, stripeVars, ledgerVars
<1>4. ASSUME NEW x \in Transfers, NEW how \in {"final", "dropped"}, Resolve(x,
    how) PROVE Completed'
  BY <1>4, KeysGrow, CreditPosts DEF Resolve, chainVars, stripeVars, ledgerVars
<1>5. ASSUME NEW p \in Purchases, Settle(p) PROVE Completed'
  BY <1>5, KeysGrow, CreditPosts DEF Settle, chainVars, stripeVars, ledgerVars
<1>6. ASSUME NEW p \in Purchases, RefundMore(p) PROVE Completed'
  BY <1>6, KeysGrow, CreditPosts DEF RefundMore, chainVars, stripeVars, ledgerVars
<1>7. ASSUME NEW p \in Purchases, Reconcile(p) PROVE Completed'
  BY <1>7, KeysGrow, CreditPosts DEF Reconcile, chainVars, stripeVars, ledgerVars
<1>8. ASSUME Spend PROVE Completed'
  BY <1>8, KeysGrow, CreditPosts DEF Spend, chainVars, stripeVars, ledgerVars
<1>9. ASSUME NEW w \in Workers, NEW s \in Sessions, Open(w, s) PROVE Completed'
  BY <1>9, KeysGrow, CreditPosts DEF Open, IsOpen, chainVars, stripeVars, ledgerVars
<1>10. ASSUME NEW w \in Workers, Expire(w) PROVE Completed'
  BY <1>10, KeysGrow, CreditPosts DEF Expire, Expired, Done, IsOpen, chainVars, stripeVars,
      ledgerVars
<1>11. ASSUME NEW w \in Workers, Look(w) PROVE Completed'
  BY <1>11, KeysGrow, CreditPosts DEF Look, Creditable, Goto, Done, chainVars, stripeVars,
      ledgerVars
<1>12. ASSUME NEW w \in Workers, Detect(w) PROVE Completed'
  BY <1>12, KeysGrow, CreditPosts DEF Detect, Done, chainVars, stripeVars, ledgerVars
<1>13. ASSUME NEW w \in Workers, CreditDeposit(w) PROVE Completed'
  BY <1>13, KeysGrow, CreditPosts DEF CreditDeposit, Goto, chainVars, stripeVars, ledgerVars
<1>14. ASSUME NEW w \in Workers, Complete(w) PROVE Completed'
  BY <1>14, KeysGrow, CreditPosts DEF Complete, Done, chainVars, stripeVars, ledgerVars
<1>15. ASSUME NEW w \in Workers, Topup(w) PROVE Completed'
  BY <1>15, KeysGrow, CreditPosts DEF Topup, Goto, chainVars, stripeVars, ledgerVars
<1>16. ASSUME NEW w \in Workers, RecordPurchase(w) PROVE Completed'
  BY <1>16, KeysGrow, CreditPosts DEF RecordPurchase, Goto, chainVars, stripeVars,
      ledgerVars
<1>17. ASSUME NEW w \in Workers, Find(w) PROVE Completed'
  BY <1>17, KeysGrow, CreditPosts DEF Find, Goto, chainVars, stripeVars, ledgerVars
<1>18. ASSUME NEW w \in Workers, Level(w) PROVE Completed'
  BY <1>18, KeysGrow, CreditPosts DEF Level, Goto, MayReverse, chainVars, stripeVars,
      ledgerVars
<1>19. ASSUME NEW w \in Workers, Claw(w) PROVE Completed'
  BY <1>19, KeysGrow, CreditPosts DEF Claw, Goto, Done, chainVars, stripeVars, ledgerVars
<1>20. ASSUME NEW w \in Workers, Owe(w) PROVE Completed'
  BY <1>20, KeysGrow, CreditPosts DEF Owe, Goto, chainVars, stripeVars, ledgerVars
<1>21. ASSUME NEW w \in Workers, Save(w) PROVE Completed'
  BY <1>21, KeysGrow, CreditPosts DEF Save, Goto, chainVars, stripeVars, ledgerVars
<1>22. ASSUME NEW w \in Workers, MarkProcessed(w) PROVE Completed'
  BY <1>22, KeysGrow, CreditPosts DEF MarkProcessed, Done, chainVars, stripeVars, ledgerVars
<1>23. ASSUME NEW w \in Workers, OweFails(w) PROVE Completed'
  BY <1>23, KeysGrow, CreditPosts DEF OweFails, Goto, chainVars, stripeVars, ledgerVars
<1>24. ASSUME NEW w \in Workers, Stop(w) PROVE Completed'
  BY <1>24, KeysGrow, CreditPosts DEF Stop, Done, chainVars, stripeVars, ledgerVars
<1>25. ASSUME NEW w \in Workers, NEW e \in Events, Deliver(w, e) PROVE Completed'
  BY <1>25, KeysGrow, CreditPosts DEF Deliver, Process, chainVars, stripeVars, ledgerVars
<1>26. ASSUME NEW w \in Workers, NEW e \in Events, Replay(w, e) PROVE Completed'
  BY <1>26, KeysGrow, CreditPosts DEF Replay, Process, chainVars, stripeVars, ledgerVars
<1>27. ASSUME UNCHANGED vars PROVE Completed'
  BY <1>27, KeysGrow, CreditPosts DEF vars, chainVars, stripeVars, ledgerVars
<1>28. ASSUME NEW p \in Purchases, CheckOut(p) PROVE Completed'
  BY <1>28, KeysGrow, CreditPosts DEF CheckOut, Telling, chainVars, stripeVars, ledgerVars
<1>29. ASSUME NEW p \in Purchases, Unlist(p) PROVE Completed'
  BY <1>29, KeysGrow, CreditPosts DEF Unlist, chainVars, stripeVars, ledgerVars
<1> HIDE DEF Order, JobOK, TypeOK, Completed
<1> QED BY <1>1, <1>2, <1>3, <1>4, <1>5, <1>6, <1>7, <1>8, <1>9, <1>10, <1>11, <1>12,
    <1>13, <1>14, <1>15, <1>16, <1>17, <1>18, <1>19, <1>20, <1>21, <1>22, <1>23, <1>24,
    <1>25, <1>26, <1>27, <1>28, <1>29
    DEF Next, Poll, Handle

\* Nothing has happened yet.
LEMMA InitOrder == Init => Order /\ Completed
<1> SUFFICES ASSUME Init PROVE Order /\ Completed
  OBVIOUS
<1>1. TypeOK
  BY MoneyAssumption DEF Init, TypeOK, Events
<1>2. JobOK /\ Told /\ Exclusive
  BY <1>1 DEF Init, JobOK, Told, Exclusive, Holding, Reversing, Idle, TypeOK
<1>3. Completed
  BY DEF Init, Completed, Idle
<1> QED BY <1>1, <1>2, <1>3 DEF Order

\* Who works at an event was sent it, one worker at a time takes a purchase back, and only to
\* a higher level; a session is completed by the posted deposit of its own final transfer.
THEOREM MoneyInOrder == Spec => [](Order /\ Completed)
<1>1. Init => Order /\ Completed
  BY InitOrder
<1>2. Order /\ Completed /\ [Next]_vars => (Order /\ Completed)'
  BY TypeStep, JobStep, ToldStep, ExclusiveStep, CompletedStep DEF Order
<1> QED BY <1>1, <1>2, PTL DEF Spec

\* The variables have their types; in particular the treasury is never overdrawn.
THEOREM MoneyInTypes == Spec => []TypeOK
<1>1. Order => TypeOK
  BY DEF Order
<1> QED BY <1>1, MoneyInOrder, PTL

-----------------------------------------------------------------------------
(* Sums.  Coins and shortfalls of the entries are added by a fold of the      *)
(* community modules: a function over the subsets of the entries, defined by  *)
(* recursion.  What holds of it is proved on a minimal subset on which it     *)
(* would fail: strict inclusion is well founded on the subsets of a finite    *)
(* set.                                                                       *)

\* The element the fold takes out of s next.
Elem(s) == CHOOSE x \in s : TRUE

\* g is a table of the sums of f over every subset of S.
Table(f, S, g) ==
    g = [s \in SUBSET S |-> IF s = {} THEN 0 ELSE f[Elem(s)] + g[s \ {Elem(s)}]]

SumOn(f, S) == (CHOOSE g : Table(f, S, g))[S]

\* A nonempty collection of subsets of a finite set has a minimal member.
LEMMA MinimalSubset ==
    ASSUME NEW S, IsFiniteSet(S), NEW T \in SUBSET SUBSET S, T # {}
    PROVE  \E x \in T : \A y \in SUBSET x : y \in T => y = x
<1>1. IsWellFoundedOn(StrictSubsetOrdering(S), FiniteSubsetsOf(S))
  BY FS_StrictSubsetOrderingWellFounded
<1>2. T \subseteq FiniteSubsetsOf(S)
  BY FS_Subset DEF FiniteSubsetsOf
<1>3. \E x \in T : \A y \in T : <<y, x>> \notin StrictSubsetOrdering(S)
  BY <1>1, <1>2, WFMin
<1>4. \A x, y \in T : y \subseteq x /\ y # x => <<y, x>> \in StrictSubsetOrdering(S)
  BY DEF StrictSubsetOrdering
<1> QED BY <1>3, <1>4

\* The element the fold chooses belongs to the set.
LEMMA ElemIn == \A s : s # {} => Elem(s) \in s
BY DEF Elem

\* Two tables agree on the subsets they share.
LEMMA TablesAgree ==
    ASSUME NEW f, NEW S, IsFiniteSet(S), NEW y, NEW z, y \subseteq S,
           NEW g, NEW h, Table(f, y, g), Table(f, z, h),
           NEW s, s \subseteq y, s \subseteq z
    PROVE  g[s] = h[s]
<1> DEFINE Bad == {t \in SUBSET S : t \subseteq y /\ t \subseteq z /\ g[t] # h[t]}
<1> SUFFICES ASSUME Bad # {} PROVE FALSE
  OBVIOUS
<1>1. PICK x \in Bad : \A t \in SUBSET x : t \in Bad => t = x
  <2>1. Bad \in SUBSET SUBSET S
    OBVIOUS
  <2> HIDE DEF Bad
  <2> QED BY <2>1, MinimalSubset
<1>2. x # {}
  BY DEF Table
<1>3. /\ g[x] = f[Elem(x)] + g[x \ {Elem(x)}]
      /\ h[x] = f[Elem(x)] + h[x \ {Elem(x)}]
  BY <1>2 DEF Table
<1>4. g[x \ {Elem(x)}] = h[x \ {Elem(x)}]
  BY <1>1, <1>2, ElemIn
<1> QED BY <1>3, <1>4

\* A table of sums exists for every finite set.
LEMMA TableExists ==
    ASSUME NEW f, NEW S, IsFiniteSet(S)
    PROVE  \E g : Table(f, S, g)
<1> DEFINE Bad == {t \in SUBSET S : ~ \E g : Table(f, t, g)}
<1> SUFFICES ASSUME Bad # {} PROVE FALSE
  OBVIOUS
<1>1. PICK x \in Bad : \A t \in SUBSET x : t \in Bad => t = x
  <2>1. Bad \in SUBSET SUBSET S
    OBVIOUS
  <2> HIDE DEF Bad
  <2> QED BY <2>1, MinimalSubset
<1> DEFINE G(t) == CHOOSE g : Table(f, t, g)
           gx == [s \in SUBSET x |->
                    IF s = {} THEN 0
                    ELSE f[Elem(s)] + G(s \ {Elem(s)})[s \ {Elem(s)}]]
<1>2. \A t \in SUBSET x : t # x => Table(f, t, G(t))
  BY <1>1
<1>3. ASSUME NEW s \in SUBSET x, s # {}
      PROVE  gx[s \ {Elem(s)}] = G(s \ {Elem(s)})[s \ {Elem(s)}]
  <2> DEFINE r == s \ {Elem(s)}
  <2>1. r \in SUBSET x /\ r # x
    BY <1>3, ElemIn
  <2>2. CASE r = {}
    <3>1. Table(f, r, G(r))
      BY <1>2, <2>1
    <3> HIDE DEF G
    <3>2. G(r)[r] = 0
      BY <3>1, <2>2 DEF Table
    <3>3. gx[r] = 0
      BY <2>1, <2>2
    <3> QED BY <3>2, <3>3
  <2>3. CASE r # {}
    <3> DEFINE q == r \ {Elem(r)}
    <3>1. q \in SUBSET x /\ q # x /\ q \subseteq r
      BY <2>1
    <3>2. Table(f, r, G(r)) /\ Table(f, q, G(q))
      BY <1>2, <2>1, <3>1
    <3> HIDE DEF G
    <3>3. G(r)[r] = f[Elem(r)] + G(r)[q]
      BY <3>2, <2>3 DEF Table
    <3>4. G(r)[q] = G(q)[q]
      BY <3>1, <3>2, TablesAgree, x \subseteq S, r \subseteq S
    <3>5. gx[r] = f[Elem(r)] + G(q)[q]
      BY <2>1, <2>3
    <3> QED BY <3>3, <3>4, <3>5
  <2> QED BY <2>2, <2>3
<1>4. Table(f, x, gx)
  <2> HIDE DEF G
  <2> QED BY <1>3 DEF Table
<1> QED BY <1>1, <1>4

\* The sum over no element is zero.
LEMMA SumOnEmpty == \A f : SumOn(f, {}) = 0
<1> SUFFICES ASSUME NEW f PROVE SumOn(f, {}) = 0
  OBVIOUS
<1>1. \E g : Table(f, {}, g)
  BY TableExists, FS_EmptySet
<1>2. \A g : Table(f, {}, g) => g[{}] = 0
  BY DEF Table
<1> QED BY <1>1, <1>2 DEF SumOn

\* A sum over a nonempty set is the value at the chosen element plus the sum of the rest.
LEMMA SumOnStep ==
    ASSUME NEW f, NEW S, IsFiniteSet(S), S # {}
    PROVE  SumOn(f, S) = f[Elem(S)] + SumOn(f, S \ {Elem(S)})
<1> DEFINE R == S \ {Elem(S)}
           g == CHOOSE t : Table(f, S, t)
           h == CHOOSE t : Table(f, R, t)
<1>1. IsFiniteSet(R) /\ R \subseteq S
  BY FS_Subset
<1>2. Table(f, S, g) /\ Table(f, R, h)
  BY <1>1, TableExists
<1>3. g[R] = h[R]
  <2> HIDE DEF g, h
  <2> QED BY <1>1, <1>2, TablesAgree
<1>4. g[S] = f[Elem(S)] + g[R]
  <2> HIDE DEF g, h
  <2> QED BY <1>2 DEF Table
<1> QED BY <1>3, <1>4 DEF SumOn

\* A sum of integers is an integer.
LEMMA SumOnType ==
    ASSUME NEW S, IsFiniteSet(S), NEW f \in [S -> Int], NEW T, T \subseteq S
    PROVE  SumOn(f, T) \in Int
<1> DEFINE Bad == {t \in SUBSET S : SumOn(f, t) \notin Int}
<1> SUFFICES ASSUME Bad # {} PROVE FALSE
  OBVIOUS
<1>1. PICK x \in Bad : \A t \in SUBSET x : t \in Bad => t = x
  <2>1. Bad \in SUBSET SUBSET S
    OBVIOUS
  <2> HIDE DEF Bad
  <2> QED BY <2>1, MinimalSubset
<1>2. x # {} /\ x \subseteq S
  BY SumOnEmpty
<1>3. Elem(x) \in x /\ f[Elem(x)] \in Int
  BY <1>2, ElemIn
<1>4. IsFiniteSet(x)
  BY <1>2, FS_Subset
<1>5. SumOn(f, x) = f[Elem(x)] + SumOn(f, x \ {Elem(x)})
  BY <1>2, <1>4, SumOnStep
<1>6. SumOn(f, x \ {Elem(x)}) \in Int
  BY <1>1, <1>2, <1>3
<1> QED BY <1>1, <1>3, <1>5, <1>6

\* Taking any element out takes its value off the sum: the order in which the
\* fold chooses the elements does not matter.
LEMMA SumOnRemove ==
    ASSUME NEW S, IsFiniteSet(S), NEW f \in [S -> Int],
           NEW T, T \subseteq S, NEW a \in T
    PROVE  SumOn(f, T) = f[a] + SumOn(f, T \ {a})
<1> DEFINE Good(t) == \A b \in t : SumOn(f, t) = f[b] + SumOn(f, t \ {b})
           Bad == {t \in SUBSET S : ~ Good(t)}
<1> SUFFICES ASSUME Bad # {} PROVE FALSE
  OBVIOUS
<1>1. PICK x \in Bad : \A t \in SUBSET x : t \in Bad => t = x
  <2>1. Bad \in SUBSET SUBSET S
    OBVIOUS
  <2> HIDE DEF Bad
  <2> QED BY <2>1, MinimalSubset
<1>2. PICK b \in x : SumOn(f, x) # f[b] + SumOn(f, x \ {b})
  OBVIOUS
<1> DEFINE e == Elem(x)
           r == (x \ {e}) \ {b}
<1>3. e \in x /\ x \subseteq S
  BY <1>2, ElemIn
<1>4. IsFiniteSet(x)
  BY <1>3, FS_Subset
<1>5. SumOn(f, x) = f[e] + SumOn(f, x \ {e})
  BY <1>2, <1>4, SumOnStep
<1>6. e # b
  BY <1>2, <1>5
<1>7. Good(x \ {e}) /\ Good(x \ {b})
  BY <1>1, <1>2, <1>3
<1>8. SumOn(f, x \ {e}) = f[b] + SumOn(f, r)
  BY <1>2, <1>6, <1>7
<1>9. SumOn(f, x \ {b}) = f[e] + SumOn(f, r)
  <2>1. (x \ {b}) \ {e} = r
    OBVIOUS
  <2> QED BY <2>1, <1>3, <1>6, <1>7
<1>10. SumOn(f, r) \in Int
  BY <1>3, SumOnType, r \subseteq S
<1>11. f[e] \in Int /\ f[b] \in Int
  BY <1>2, <1>3
<1> HIDE DEF e, r
<1> QED BY <1>2, <1>5, <1>8, <1>9, <1>10, <1>11

\* A sum looks only at the values on its subset.
LEMMA SumOnAgree ==
    ASSUME NEW S, IsFiniteSet(S), NEW f, NEW g, \A x \in S : f[x] = g[x]
    PROVE  SumOn(f, S) = SumOn(g, S)
<1> DEFINE Bad == {t \in SUBSET S : SumOn(f, t) # SumOn(g, t)}
<1> SUFFICES ASSUME Bad # {} PROVE FALSE
  OBVIOUS
<1>1. PICK x \in Bad : \A t \in SUBSET x : t \in Bad => t = x
  <2>1. Bad \in SUBSET SUBSET S
    OBVIOUS
  <2> HIDE DEF Bad
  <2> QED BY <2>1, MinimalSubset
<1>2. x # {} /\ x \subseteq S
  BY SumOnEmpty
<1>3. Elem(x) \in x
  BY <1>2, ElemIn
<1>4. IsFiniteSet(x)
  BY <1>2, FS_Subset
<1>5. /\ SumOn(f, x) = f[Elem(x)] + SumOn(f, x \ {Elem(x)})
      /\ SumOn(g, x) = g[Elem(x)] + SumOn(g, x \ {Elem(x)})
  BY <1>2, <1>4, SumOnStep
<1>6. SumOn(f, x \ {Elem(x)}) = SumOn(g, x \ {Elem(x)})
  BY <1>1, <1>3
<1> QED BY <1>1, <1>2, <1>3, <1>5, <1>6

\* Total and Shortfall are such sums, of the entries' coins and of their shortfalls.
LEMMA TotalIsSum ==
    ASSUME NEW S, IsFiniteSet(S)
    PROVE  Total(S) = SumOn([j \in S |-> j.coins], S)
<1> DEFINE f == [j \in S |-> j.coins]
           Eq(g) == g = [s \in SUBSET S |-> IF s = {} THEN 0 ELSE Elem(s).coins + g[s \ {Elem(s)}]]
<1>1. ASSUME NEW g PROVE Eq(g) <=> Table(f, S, g)
  <2>1. \A s \in SUBSET S : s # {} => f[Elem(s)] = Elem(s).coins
    BY ElemIn
  <2> HIDE DEF f
  <2> QED BY <2>1 DEF Table
<1>2. Total(S) = (CHOOSE g : Eq(g))[S]
  BY DEF Total, MapThenSumSet, MapThenFoldSet, Elem
<1> DEFINE h == CHOOSE g : Eq(g)
           k == CHOOSE g : Table(f, S, g)
<1> HIDE DEF Eq, f
<1>3. Eq(h) /\ Table(f, S, k)
  BY <1>1, TableExists
<1>4. Table(f, S, h)
  BY <1>1, <1>3
<1> HIDE DEF h
<1>5. h[S] = k[S]
  <2> HIDE DEF k
  <2> QED BY <1>3, <1>4, TablesAgree
<1> QED BY <1>2, <1>5 DEF SumOn, h, f

\* The same of shortfalls.
LEMMA ShortfallIsSum ==
    ASSUME NEW S, IsFiniteSet(S)
    PROVE  Shortfall(S) = SumOn([j \in S |-> j.short], S)
<1> DEFINE f == [j \in S |-> j.short]
           Eq(g) == g = [s \in SUBSET S |-> IF s = {} THEN 0 ELSE Elem(s).short + g[s \ {Elem(s)}]]
<1>1. ASSUME NEW g PROVE Eq(g) <=> Table(f, S, g)
  <2>1. \A s \in SUBSET S : s # {} => f[Elem(s)] = Elem(s).short
    BY ElemIn
  <2> HIDE DEF f
  <2> QED BY <2>1 DEF Table
<1>2. Shortfall(S) = (CHOOSE g : Eq(g))[S]
  BY DEF Shortfall, MapThenSumSet, MapThenFoldSet, Elem
<1> DEFINE h == CHOOSE g : Eq(g)
           k == CHOOSE g : Table(f, S, g)
<1> HIDE DEF Eq, f
<1>3. Eq(h) /\ Table(f, S, k)
  BY <1>1, TableExists
<1>4. Table(f, S, h)
  BY <1>1, <1>3
<1> HIDE DEF h
<1>5. h[S] = k[S]
  <2> HIDE DEF k
  <2> QED BY <1>3, <1>4, TablesAgree
<1> QED BY <1>2, <1>5 DEF SumOn, h, f

\* The sum of a set of entries with one more is that entry more.
LEMMA SumOnAdd ==
    ASSUME NEW S, IsFiniteSet(S), NEW a, a \notin S, NEW f \in [S \cup {a} -> Int],
           NEW g \in [S -> Int], \A x \in S : g[x] = f[x]
    PROVE  SumOn(f, S \cup {a}) = f[a] + SumOn(g, S) /\ SumOn(g, S) \in Int
<1>1. IsFiniteSet(S \cup {a})
  BY FS_AddElement
<1>2. SumOn(f, S \cup {a}) = f[a] + SumOn(f, (S \cup {a}) \ {a})
  BY <1>1, SumOnRemove, a \in S \cup {a}, S \cup {a} \subseteq S \cup {a}
<1>3. (S \cup {a}) \ {a} = S
  OBVIOUS
<1>4. SumOn(f, S) = SumOn(g, S)
  BY SumOnAgree
<1>5. SumOn(g, S) \in Int
  BY SumOnType, S \subseteq S
<1> QED BY <1>2, <1>3, <1>4, <1>5

\* An entry, as far as sums are concerned.
Entries(S) == \A j \in S : j.coins \in Int /\ j.short \in Int

\* Nothing sums to nothing,
LEMMA SumsEmpty == Total({}) = 0 /\ Shortfall({}) = 0
  BY TotalIsSum, ShortfallIsSum, FS_EmptySet, SumOnEmpty

\* ... and one entry more adds what it says.
LEMMA SumsAdd ==
    ASSUME NEW S, IsFiniteSet(S), NEW a, Entries(S \cup {a}), a \notin S
    PROVE  /\ Total(S \cup {a}) = Total(S) + a.coins /\ Total(S) \in Int
           /\ Shortfall(S \cup {a}) = Shortfall(S) + a.short /\ Shortfall(S) \in Int
<1> DEFINE T == S \cup {a}
           c == [j \in T |-> j.coins]
           d == [j \in S |-> j.coins]
           s == [j \in T |-> j.short]
           t == [j \in S |-> j.short]
<1>1. IsFiniteSet(T)
  BY FS_AddElement
<1>2. /\ Total(T) = SumOn(c, T) /\ Total(S) = SumOn(d, S)
      /\ Shortfall(T) = SumOn(s, T) /\ Shortfall(S) = SumOn(t, S)
  BY <1>1, TotalIsSum, ShortfallIsSum
<1>3. /\ c \in [S \cup {a} -> Int] /\ d \in [S -> Int] /\ \A x \in S : d[x] = c[x]
      /\ s \in [S \cup {a} -> Int] /\ t \in [S -> Int] /\ \A x \in S : t[x] = s[x]
      /\ c[a] = a.coins /\ s[a] = a.short
  BY DEF Entries
<1>4. a.coins \in Int /\ a.short \in Int
  BY DEF Entries
<1> HIDE DEF c, d, s, t
<1>5. SumOn(c, S \cup {a}) = c[a] + SumOn(d, S) /\ SumOn(d, S) \in Int
  BY <1>3, SumOnAdd
<1>6. SumOn(s, S \cup {a}) = s[a] + SumOn(t, S) /\ SumOn(t, S) \in Int
  BY <1>3, SumOnAdd
<1> QED BY <1>2, <1>3, <1>4, <1>5, <1>6

-----------------------------------------------------------------------------
(* Credits *)

\* The entries of the journal: a deposit of a final transfer, a topup of a paid checkout,
\* coins clawed back and the rest of them as debt; each under a key of its own.
Deposited(j) == \E x \in Transfers :
    /\ j = [key |-> DepositKey(x), of |-> x, coins |-> Coins, short |-> 0]
    /\ transfer[x] = "final"
ToppedUp(j) == \E p \in paid :
    j = [key |-> TopupKey(p), of |-> p, coins |-> Coins, short |-> 0]
ClawedBack(j) == \E p \in Purchases, l \in 1 .. Coins, c, n \in Nat :
    j = [key |-> ReversalKey(p, l), of |-> p, coins |-> - c, short |-> n]

Books ==
    /\ IsFiniteSet(journal)
    /\ \A j \in journal : Deposited(j) \/ ToppedUp(j) \/ ClawedBack(j)
    /\ \A i, j \in journal : i.key = j.key => i = j

\* The entries of the journal are summed over finite sets of them.
LEMMA BooksAreEntries ==
    ASSUME Books
    PROVE  Entries(journal) /\ \A S \in SUBSET journal : IsFiniteSet(S) /\ Entries(S)
<1>1. \A j \in journal : j.coins \in Int /\ j.short \in Int
  BY MoneyAssumption DEF Books, Deposited, ToppedUp, ClawedBack
<1> QED BY <1>1, FS_Subset DEF Entries, Books

\* What a new entry changes of what was clawed back.
LEMMA ClawedAfter ==
    ASSUME Books, NEW j, j.key \notin Keys, journal' = journal \cup {j},
           Deposited(j) \/ ToppedUp(j) \/ ClawedBack(j), NEW p \in Purchases
    PROVE  /\ Clawed(p) \in Int
           /\ Clawed(p)' = IF j.of = p /\ ClawedBack(j) THEN Clawed(p) + j.short - j.coins
                           ELSE Clawed(p)
<1> DEFINE A == Of(p)
           B == {i \in Of(p) : i.coins <= 0}
<1>1. j \notin journal /\ A \subseteq journal /\ B \subseteq journal /\ j \notin A /\ j \notin B
  BY DEF Keys, Of
<1>2. j.coins \in Int /\ j.short \in Int
  BY MoneyAssumption DEF Deposited, ToppedUp, ClawedBack
<1>3. /\ IsFiniteSet(A) /\ Entries(A \cup {j})
      /\ IsFiniteSet(B) /\ Entries(B \cup {j})
  BY <1>1, <1>2, BooksAreEntries DEF Entries
<1> HIDE DEF A, B
<1>4. /\ Shortfall(A \cup {j}) = Shortfall(A) + j.short /\ Shortfall(A) \in Int
      /\ Total(B \cup {j}) = Total(B) + j.coins /\ Total(B) \in Int
  BY <1>1, <1>3, SumsAdd
<1>5. Clawed(p) = Shortfall(A) - Total(B)
  BY DEF Clawed, A, B
<1>6. ASSUME NEW S, S = Of(p)', NEW T, T = {i \in S : i.coins <= 0}
      PROVE  Clawed(p)' = Shortfall(S) - Total(T)
  BY <1>6 DEF Clawed
<1> DEFINE S == Of(p)'
           T == {i \in S : i.coins <= 0}
<1>7. CASE j.of # p
  <2>1. S = A /\ T = B
    BY <1>7 DEF A, B, Of
  <2> QED BY <1>4, <1>5, <1>6, <1>7, <2>1
<1>8. CASE j.of = p /\ ClawedBack(j)
  <2>1. j.coins <= 0
    BY <1>8 DEF ClawedBack
  <2>2. S = A \cup {j} /\ T = B \cup {j}
    BY <1>8, <2>1 DEF A, B, Of
  <2> QED BY <1>2, <1>4, <1>5, <1>6, <1>8, <2>2
<1>9. CASE j.of = p /\ ~ ClawedBack(j)
  <2>1. ToppedUp(j)
    BY <1>9, MoneyAssumption DEF Deposited
  <2>2. j.coins = Coins /\ j.short = 0 /\ ~ (j.coins <= 0)
    BY <2>1, MoneyAssumption DEF ToppedUp
  <2>3. S = A \cup {j} /\ T = B
    BY <1>9, <2>2 DEF A, B, Of
  <2> QED BY <1>2, <1>4, <1>5, <1>6, <1>9, <2>2, <2>3
<1> QED BY <1>7, <1>8, <1>9

\* A reversal is refused, was posted before, or posts what it takes.
LEMMA ClawPosts ==
    ASSUME Order, NEW w \in Workers, Claw(w)
    PROVE  \/ /\ Posted(w).key \in Keys /\ UNCHANGED ledgerVars
              /\ job' = [job EXCEPT ![w].pc = "save"]
           \/ /\ UNCHANGED ledgerVars /\ job' = [job EXCEPT ![w] = Idle]
           \/ /\ Posted(w).key \notin Keys /\ journal' = journal \cup {Posted(w)} /\ UNCHANGED debt
              /\ IF Posted(w).short = 0 \/ job[w].of \notin world.named THEN job' = [job EXCEPT ![w].pc = "save"]
                 ELSE job' = [job EXCEPT ![w] = [pc |-> "owe", of |-> job[w].of, event |-> job[w].event,
                                                 short |-> Posted(w).short]]
<1>1. job[w].event.of = job[w].of
  BY DEF Claw, Order, Told, Reversing
<1> QED BY <1>1 DEF Claw, Goto, Done, Posted, Covered, ledgerVars

\* What the journal says stays true: a final transfer stays final, a payment settled.
LEMMA BooksKept ==
    ASSUME Books, UNCHANGED journal, paid \subseteq paid',
           \A x \in Transfers : transfer[x] = "final" => transfer'[x] = "final"
    PROVE  Books'
<1>1. \A j \in journal : Deposited(j)' \/ ToppedUp(j)' \/ ClawedBack(j)'
  BY DEF Books, Deposited, ToppedUp, ClawedBack
<1> QED BY <1>1 DEF Books

\* One more entry, of one of the three kinds, under a key of its own.
LEMMA PostKeepsBooks ==
    ASSUME Books, NEW j, j.key \notin Keys, journal' = journal \cup {j}, UNCHANGED <<transfer, paid>>,
           Deposited(j) \/ ToppedUp(j) \/ ClawedBack(j)
    PROVE  Books'
<1>1. IsFiniteSet(journal')
  BY FS_AddElement DEF Books
<1>2. \A i \in journal' : Deposited(i)' \/ ToppedUp(i)' \/ ClawedBack(i)'
  BY DEF Books, Deposited, ToppedUp, ClawedBack
<1>3. \A i, k \in journal' : i.key = k.key => i = k
  BY DEF Books, Keys
<1> QED BY <1>1, <1>2, <1>3 DEF Books

\* Crediting posts a deposit or a topup, unless it was posted before.
LEMMA CreditKeepsBooks ==
    ASSUME Books, NEW key, NEW of, Credit(key, of), UNCHANGED <<transfer, paid>>,
           LET j == [key |-> key, of |-> of, coins |-> Coins, short |-> 0]
           IN  Deposited(j) \/ ToppedUp(j)
    PROVE  Books'
<1> DEFINE j == [key |-> key, of |-> of, coins |-> Coins, short |-> 0]
<1>1. CASE key \in Keys
  <2>1. UNCHANGED <<journal, transfer, paid>>
    BY <1>1 DEF Credit, ledgerVars
  <2> QED BY <2>1 DEF Books, Deposited, ToppedUp, ClawedBack
<1>2. CASE key \notin Keys
  <2>1. journal' = journal \cup {j} /\ j.key \notin Keys
    BY <1>2 DEF Credit
  <2>2. Deposited(j) \/ ToppedUp(j)
    OBVIOUS
  <2> HIDE DEF j
  <2> QED BY <2>1, <2>2, PostKeepsBooks
<1> QED BY <1>1, <1>2

\* Whatever is posted is a deposit, a topup or a reversal, once.
LEMMA BooksStep == Order /\ Completed /\ Books /\ [Next]_vars => Books'
<1> SUFFICES ASSUME Order, Completed, Books, [Next]_vars PROVE Books'
  OBVIOUS
<1> USE MoneyAssumption, SituationsAssumption DEF Order, JobOK, TypeOK, Told, Reversing,
    Completed, Polls, Credits, Handles, Claws, Owes, Idle
<1>1. ASSUME NEW s \in Sessions, Create(s) PROVE Books'
  BY <1>1, BooksKept DEF Create, chainVars, stripeVars, ledgerVars
<1>2. ASSUME NEW s \in Sessions, Age(s) PROVE Books'
  BY <1>2, BooksKept DEF Age, chainVars, stripeVars, ledgerVars
<1>3. ASSUME NEW x \in Transfers, Pay(x) PROVE Books'
  BY <1>3, BooksKept DEF Pay, chainVars, stripeVars, ledgerVars
<1>4. ASSUME NEW x \in Transfers, NEW how \in {"final", "dropped"}, Resolve(x,
    how) PROVE Books'
  BY <1>4, BooksKept DEF Resolve, chainVars, stripeVars, ledgerVars
<1>5. ASSUME NEW p \in Purchases, Settle(p) PROVE Books'
  BY <1>5, BooksKept DEF Settle, chainVars, stripeVars, ledgerVars
<1>6. ASSUME NEW p \in Purchases, RefundMore(p) PROVE Books'
  BY <1>6, BooksKept DEF RefundMore, chainVars, stripeVars, ledgerVars
<1>7. ASSUME NEW p \in Purchases, Reconcile(p) PROVE Books'
  <2>1. Credit(TopupKey(p), p) /\ p \in paid /\ UNCHANGED <<transfer, paid>>
    BY <1>7 DEF Reconcile, chainVars, stripeVars
  <2>2. ToppedUp([key |-> TopupKey(p), of |-> p, coins |-> Coins, short |-> 0])
    BY <2>1 DEF ToppedUp
  <2> QED BY <2>1, <2>2, CreditKeepsBooks
<1>8. ASSUME Spend PROVE Books'
  BY <1>8, BooksKept DEF Spend, chainVars, stripeVars, ledgerVars
<1>9. ASSUME NEW w \in Workers, NEW s \in Sessions, Open(w, s) PROVE Books'
  BY <1>9, BooksKept DEF Open, IsOpen, chainVars, stripeVars, ledgerVars
<1>10. ASSUME NEW w \in Workers, Expire(w) PROVE Books'
  BY <1>10, BooksKept DEF Expire, Expired, Done, IsOpen, chainVars, stripeVars, ledgerVars
<1>11. ASSUME NEW w \in Workers, Look(w) PROVE Books'
  BY <1>11, BooksKept DEF Look, Creditable, Goto, Done, chainVars, stripeVars, ledgerVars
<1>12. ASSUME NEW w \in Workers, Detect(w) PROVE Books'
  BY <1>12, BooksKept DEF Detect, Done, chainVars, stripeVars, ledgerVars
<1>13. ASSUME NEW w \in Workers, CreditDeposit(w) PROVE Books'
  <2> DEFINE x == job[w].what
  <2>1. Credit(DepositKey(x), x) /\ UNCHANGED <<transfer, paid>>
    BY <1>13 DEF CreditDeposit, chainVars, stripeVars
  <2>2. x \in Transfers /\ transfer[x] = "final"
    BY <1>13 DEF CreditDeposit
  <2>3. Deposited([key |-> DepositKey(x), of |-> x, coins |-> Coins, short |-> 0])
    BY <2>2 DEF Deposited
  <2> HIDE DEF x
  <2> QED BY <2>1, <2>3, CreditKeepsBooks
<1>14. ASSUME NEW w \in Workers, Complete(w) PROVE Books'
  BY <1>14, BooksKept DEF Complete, Done, chainVars, stripeVars, ledgerVars
<1>15. ASSUME NEW w \in Workers, Topup(w) PROVE Books'
  <2> DEFINE p == job[w].of
  <2>1. Credit(TopupKey(p), p) /\ UNCHANGED <<transfer, paid>>
    BY <1>15 DEF Topup, TopupKey, chainVars, stripeVars
  <2>2. p \in paid
    BY <1>15 DEF Topup
  <2>3. ToppedUp([key |-> TopupKey(p), of |-> p, coins |-> Coins, short |-> 0])
    BY <2>2 DEF ToppedUp
  <2> HIDE DEF p
  <2> QED BY <2>1, <2>3, CreditKeepsBooks
<1>16. ASSUME NEW w \in Workers, RecordPurchase(w) PROVE Books'
  BY <1>16, BooksKept DEF RecordPurchase, Goto, chainVars, stripeVars, ledgerVars
<1>17. ASSUME NEW w \in Workers, Find(w) PROVE Books'
  BY <1>17, BooksKept DEF Find, Goto, chainVars, stripeVars, ledgerVars
<1>18. ASSUME NEW w \in Workers, Level(w) PROVE Books'
  BY <1>18, BooksKept DEF Level, Goto, MayReverse, chainVars, stripeVars, ledgerVars
<1>19. ASSUME NEW w \in Workers, Claw(w) PROVE Books'
  <2>1. UNCHANGED <<transfer, paid>>
    BY <1>19 DEF Claw, chainVars, stripeVars
  <2>2. CASE UNCHANGED journal
    BY <2>1, <2>2, BooksKept
  <2>3. CASE Posted(w).key \notin Keys /\ journal' = journal \cup {Posted(w)}
    <3>1. job[w].of \in Purchases /\ job[w].event.level \in 1 .. Coins
      BY <1>19, Covers DEF Claw, Refunds
    <3>2. Covered(w) \in Nat /\ job[w].delta - Covered(w) \in Nat
      BY <1>19, Covers DEF Claw
    <3>3. ClawedBack(Posted(w))
      BY <3>1, <3>2 DEF ClawedBack, Posted
    <3> QED BY <2>1, <2>3, <3>3, PostKeepsBooks
  <2> QED BY <1>19, <2>2, <2>3, ClawPosts DEF ledgerVars
<1>20. ASSUME NEW w \in Workers, Owe(w) PROVE Books'
  BY <1>20, BooksKept DEF Owe, Goto, chainVars, stripeVars, ledgerVars
<1>21. ASSUME NEW w \in Workers, Save(w) PROVE Books'
  BY <1>21, BooksKept DEF Save, Goto, chainVars, stripeVars, ledgerVars
<1>22. ASSUME NEW w \in Workers, MarkProcessed(w) PROVE Books'
  BY <1>22, BooksKept DEF MarkProcessed, Done, chainVars, stripeVars, ledgerVars
<1>23. ASSUME NEW w \in Workers, OweFails(w) PROVE Books'
  BY <1>23, BooksKept DEF OweFails, Goto, chainVars, stripeVars, ledgerVars
<1>24. ASSUME NEW w \in Workers, Stop(w) PROVE Books'
  BY <1>24, BooksKept DEF Stop, Done, chainVars, stripeVars, ledgerVars
<1>25. ASSUME NEW w \in Workers, NEW e \in Events, Deliver(w, e) PROVE Books'
  BY <1>25, BooksKept DEF Deliver, Process, chainVars, stripeVars, ledgerVars
<1>26. ASSUME NEW w \in Workers, NEW e \in Events, Replay(w, e) PROVE Books'
  BY <1>26, BooksKept DEF Replay, Process, chainVars, stripeVars, ledgerVars
<1>27. ASSUME UNCHANGED vars PROVE Books'
  BY <1>27, BooksKept DEF vars, chainVars, stripeVars, ledgerVars
<1>28. ASSUME NEW p \in Purchases, CheckOut(p) PROVE Books'
  BY <1>28, BooksKept DEF CheckOut, Telling, chainVars, stripeVars, ledgerVars
<1>29. ASSUME NEW p \in Purchases, Unlist(p) PROVE Books'
  BY <1>29, BooksKept DEF Unlist, chainVars, stripeVars, ledgerVars
<1> HIDE DEF Order, JobOK, TypeOK, Told, Completed
<1> QED BY <1>1, <1>2, <1>3, <1>4, <1>5, <1>6, <1>7, <1>8, <1>9, <1>10, <1>11, <1>12,
    <1>13, <1>14, <1>15, <1>16, <1>17, <1>18, <1>19, <1>20, <1>21, <1>22, <1>23, <1>24,
    <1>25, <1>26, <1>27, <1>28, <1>29
    DEF Next, Poll, Handle

\* ... the journal is empty,
LEMMA InitBooks == Init => Books
  BY FS_EmptySet DEF Init, Books

\* The journal consists of deposits of final transfers, topups of settled payments, and
\* reversals, each under a key of its own.
THEOREM MoneyInBooks == Spec => []Books
<1>1. Init => Books
  BY InitBooks
<1>2. Order /\ Completed /\ Books /\ [Next]_vars => Books'
  BY BooksStep
<1> QED BY <1>1, <1>2, MoneyInOrder, PTL DEF Spec

\* A deposit is the one entry of its transfer.
LEMMA EntryOfTransfer ==
    ASSUME Order, Books, NEW x \in Transfers
    PROVE  /\ Total(Of(x)) = IF DepositKey(x) \in Keys THEN Coins ELSE 0
           /\ Of(x) # {} => transfer[x] = "final"
           /\ DepositKey(x) \in Keys => Of(x) # {}
<1> DEFINE d == [key |-> DepositKey(x), of |-> x, coins |-> Coins, short |-> 0]
<1>1. \A j \in Of(x) : j = d /\ transfer[x] = "final"
  <2> SUFFICES ASSUME NEW j \in journal, j.of = x PROVE j = d /\ transfer[x] = "final"
    BY DEF Of
  <2>1. ~ ToppedUp(j) /\ ~ ClawedBack(j)
    BY MoneyAssumption DEF ToppedUp, ClawedBack, Order, TypeOK
  <2> QED BY <2>1 DEF Books, Deposited
<1>2. DepositKey(x) \in Keys => d \in Of(x)
  <2> SUFFICES ASSUME NEW j \in journal, j.key = DepositKey(x) PROVE j.of = x
    BY <1>1 DEF Keys, Of
  <2>1. ~ ToppedUp(j) /\ ~ ClawedBack(j)
    BY DEF ToppedUp, ClawedBack, DepositKey, TopupKey, ReversalKey
  <2>2. \A y \in Transfers : DepositKey(y) = DepositKey(x) => y = x
    BY DEF DepositKey
  <2> QED BY <2>1, <2>2 DEF Books, Deposited
<1>3. d \in Of(x) => DepositKey(x) \in Keys
  BY DEF Of, Keys
<1>4. Total({d}) = Coins
  <2>1. d.coins = Coins /\ d.coins \in Int /\ d.short \in Int
    BY MoneyAssumption
  <2> HIDE DEF d
  <2>2. Total({} \cup {d}) = Total({}) + d.coins
    BY <2>1, SumsAdd, FS_EmptySet DEF Entries
  <2>3. {} \cup {d} = {d}
    OBVIOUS
  <2> QED BY <2>1, <2>2, <2>3, SumsEmpty
<1> HIDE DEF d
<1>5. Of(x) = IF DepositKey(x) \in Keys THEN {d} ELSE {}
  BY <1>1, <1>2, <1>3
<1> QED BY <1>1, <1>4, <1>5, SumsEmpty

\* A topup is the one entry that adds coins for its purchase.
LEMMA EntryOfPurchase ==
    ASSUME Order, Books, NEW p \in Purchases
    PROVE  Total({j \in Of(p) : j.coins > 0}) \in IF p \in paid THEN {0, Coins} ELSE {0}
<1> DEFINE t == [key |-> TopupKey(p), of |-> p, coins |-> Coins, short |-> 0]
           S == {j \in Of(p) : j.coins > 0}
<1>1. \A j \in S : j = t /\ p \in paid
  <2> SUFFICES ASSUME NEW j \in journal, j.of = p, j.coins > 0 PROVE j = t /\ p \in paid
    BY DEF Of
  <2>1. ~ Deposited(j)
    BY MoneyAssumption DEF Deposited
  <2>2. ~ ClawedBack(j)
    <3>1. \A c \in Nat : ~ (- c > 0)
      OBVIOUS
    <3> QED BY <3>1 DEF ClawedBack
  <2> QED BY <2>1, <2>2 DEF Books, ToppedUp
<1>2. Total({t}) = Coins
  <2>1. t.coins = Coins /\ t.coins \in Int /\ t.short \in Int
    BY MoneyAssumption
  <2> HIDE DEF t
  <2>2. Total({} \cup {t}) = Total({}) + t.coins
    BY <2>1, SumsAdd, FS_EmptySet DEF Entries
  <2>3. {} \cup {t} = {t}
    OBVIOUS
  <2> QED BY <2>1, <2>2, <2>3, SumsEmpty
<1> HIDE DEF t, S
<1>3. S = {} \/ (S = {t} /\ p \in paid)
  BY <1>1
<1>4. Total(S) \in IF p \in paid THEN {0, Coins} ELSE {0}
  BY <1>2, <1>3, SumsEmpty
<1> QED BY <1>4 DEF S

\* So every payment counts once.
LEMMA BooksCreditOnce == Order /\ Completed /\ Books => CreditedOnce
<1> SUFFICES ASSUME Order, Completed, Books PROVE CreditedOnce
  OBVIOUS
<1>1. \A s \in Sessions : session[s] = "completed" => \E x \in deposits : ForSession[x] = s /\ Of(x) # {}
  BY EntryOfTransfer DEF Completed
<1> QED BY <1>1, EntryOfTransfer, EntryOfPurchase DEF CreditedOnce

\* A payment is credited once, however many pollers, webhooks and reconcilers see it, and only
\* when it is there for good; a completed session has the entry of its deposit.
THEOREM MoneyInCreditedOnce == Spec => []CreditedOnce
  BY MoneyInOrder, MoneyInBooks, BooksCreditOnce, PTL

-----------------------------------------------------------------------------
(* Refunds *)

\* What was clawed back of a purchase is the level saved, or the level that the worker
\* who holds its row is about to save.
InStep(p) ==
    /\ (\A w \in Holding(p) : job[w].pc = "claw") => Clawed(p) = reversed[p]
    /\ \A w \in Holding(p) :
        IF job[w].pc = "claw" THEN job[w].delta = job[w].event.level - reversed[p]
        ELSE Clawed(p) = job[w].event.level
    /\ \A l \in 1 .. Coins : ReversalKey(p, l) \in Keys => l <= Clawed(p)

Levelled == \A p \in Purchases \ astray : InStep(p)

\* An event that is done with has reached its level, unless it is a payment's.
Reached ==
    /\ \A w \in Workers : job[w].pc \in {"topup", "record"} => job[w].event \in Topups
    /\ \A w \in Workers : job[w].pc = "mark" /\ job[w].event \in Refunds \ astray =>
        reversed[job[w].of] >= job[w].event.level
    /\ \A e \in Refunds \ astray : log[e] = "processed" => reversed[e.of] >= e.level

\* Entries whose shortfall nobody owes, and those whose debt is not recorded yet.
Unrecorded ==
    {j \in journal :
        \/ j.of \notin world.named
        \/ \E w \in Workers :
            job[w].pc = "owe" /\ j.key = ReversalKey(job[w].of, job[w].event.level)}

\* Each of these is the one that a worker is about to record, of a checkout that named an
\* agent; the debt is all the others.
Booked ==
    /\ \A w \in Workers : job[w].pc = "owe" => \E j \in journal :
        /\ j.key = ReversalKey(job[w].of, job[w].event.level)
        /\ j.short = job[w].short /\ j.of \in world.named
    /\ debt = Shortfall(journal \ Unrecorded)

Indebted == Purchases \cap astray = {} => Booked

\* What a reversal posts is clawed back, all of it either in coins or as debt.
LEMMA PostedIsClaw ==
    ASSUME Order, NEW w \in Workers, Claw(w)
    PROVE  /\ ClawedBack(Posted(w)) /\ Posted(w).of = job[w].of
           /\ Posted(w).short \in Nat /\ Posted(w).coins \in Int
           /\ Posted(w).short - Posted(w).coins = job[w].delta
<1>1. job[w].of \in Purchases /\ job[w].event.level \in 1 .. Coins
  BY Covers DEF Claw, Refunds, Order
<1>2. Covered(w) \in Nat /\ job[w].delta - Covered(w) \in Nat /\ job[w].delta \in Nat
  BY Covers DEF Claw, Order
<1>3. Posted(w).short - Posted(w).coins = job[w].delta
  BY <1>2 DEF Posted
<1> QED BY <1>1, <1>2, <1>3 DEF ClawedBack, Posted

\* A step that neither claws back nor saves a level keeps what was clawed back in step.
Unclawed == \A p \in Purchases :
    /\ Clawed(p)' = Clawed(p)
    /\ \A l \in 1 .. Coins : ReversalKey(p, l) \in Keys' => ReversalKey(p, l) \in Keys

\* Nothing is posted at all,
LEMMA JournalKept == ASSUME UNCHANGED journal PROVE Unclawed /\ Keys' = Keys
  BY DEF Unclawed, Clawed, Of, Keys

\* ... or a credit,
LEMMA CreditUnclawed ==
    ASSUME Books, NEW key, NEW of, Credit(key, of),
           LET j == [key |-> key, of |-> of, coins |-> Coins, short |-> 0]
           IN  Deposited(j) \/ ToppedUp(j)
    PROVE  Unclawed
<1> DEFINE j == [key |-> key, of |-> of, coins |-> Coins, short |-> 0]
<1>1. CASE key \in Keys
  BY <1>1, JournalKept DEF Credit, ledgerVars
<1>2. CASE key \notin Keys
  <2>1. journal' = journal \cup {j} /\ j.key \notin Keys
    BY <1>2 DEF Credit
  <2>2. Deposited(j) \/ ToppedUp(j)
    OBVIOUS
  <2>3. j.coins = Coins
    OBVIOUS
  <2> HIDE DEF j
  <2>4. ~ ClawedBack(j)
    <3>1. ASSUME NEW c \in Nat PROVE Coins # - c
      BY MoneyAssumption
    <3> QED BY <2>3, <3>1 DEF ClawedBack
  <2>5. Keys' = Keys \cup {j.key}
    BY <2>1 DEF Keys
  <2>6. \A p \in Purchases, l \in 1 .. Coins : j.key # ReversalKey(p, l)
    <3>1. CASE Deposited(j)
      BY <3>1 DEF Deposited, ReversalKey, DepositKey
    <3>2. CASE ToppedUp(j)
      BY <3>2 DEF ToppedUp, ReversalKey, TopupKey
    <3> QED BY <2>2, <3>1, <3>2
  <2>7. \A p \in Purchases : Clawed(p)' = Clawed(p)
    BY <2>1, <2>2, <2>4, ClawedAfter
  <2> QED BY <2>5, <2>6, <2>7 DEF Unclawed
<1> QED BY <1>1, <1>2

\* ... while the workers who hold the row stay where they are.
LEMMA InStepKept ==
    ASSUME Levelled, Unclawed, UNCHANGED reversed, astray \subseteq astray',
           \A v \in Workers : job'[v] = job[v]
                \/ {job[v].pc, job'[v].pc} \cap {"claw", "owe", "save"} = {}
    PROVE  Levelled'
<1> SUFFICES ASSUME NEW p \in Purchases \ astray' PROVE InStep(p)'
  BY DEF Levelled
<1>1. InStep(p)
  BY DEF Levelled
<1>2. Holding(p)' = Holding(p) /\ \A v \in Holding(p) : job'[v] = job[v]
  BY DEF Holding
<1> HIDE DEF Holding
<1> QED BY <1>1, <1>2 DEF InStep, Unclawed

\* The level saved follows what was clawed back, step by step: the level read under the lock is
\* still the one clawed back to when the coins are taken, so that the difference is what is due.
LEMMA LevelledStep == Order /\ Completed /\ Books /\ Levelled /\ [Next]_vars => Levelled'
<1> SUFFICES ASSUME Order, Completed, Books, Levelled, [Next]_vars PROVE Levelled'
  OBVIOUS
<1> USE MoneyAssumption DEF Order, JobOK, TypeOK, Told, Reversing, Exclusive, Completed,
    Polls, Credits, Handles, Claws, Owes, Idle
<1>1. ASSUME NEW s \in Sessions, Create(s) PROVE Levelled'
  BY <1>1, InStepKept, JournalKept DEF Create, chainVars, stripeVars, ledgerVars
<1>2. ASSUME NEW s \in Sessions, Age(s) PROVE Levelled'
  BY <1>2, InStepKept, JournalKept DEF Age, chainVars, stripeVars, ledgerVars
<1>3. ASSUME NEW x \in Transfers, Pay(x) PROVE Levelled'
  BY <1>3, InStepKept, JournalKept DEF Pay, chainVars, stripeVars, ledgerVars
<1>4. ASSUME NEW x \in Transfers, NEW how \in {"final", "dropped"}, Resolve(x,
    how) PROVE Levelled'
  BY <1>4, InStepKept, JournalKept DEF Resolve, chainVars, stripeVars, ledgerVars
<1>5. ASSUME NEW p \in Purchases, Settle(p) PROVE Levelled'
  BY <1>5, InStepKept, JournalKept DEF Settle, chainVars, stripeVars, ledgerVars
<1>6. ASSUME NEW p \in Purchases, RefundMore(p) PROVE Levelled'
  BY <1>6, InStepKept, JournalKept DEF RefundMore, chainVars, stripeVars, ledgerVars
<1>7. ASSUME NEW p \in Purchases, Reconcile(p) PROVE Levelled'
  <2>1. Credit(TopupKey(p), p) /\ p \in paid
    BY <1>7 DEF Reconcile
  <2>2. ToppedUp([key |-> TopupKey(p), of |-> p, coins |-> Coins, short |-> 0])
    BY <2>1 DEF ToppedUp
  <2>3. Unclawed
    BY <2>1, <2>2, CreditUnclawed
  <2> QED BY <1>7, <2>3, InStepKept DEF Reconcile, stripeVars
<1>8. ASSUME Spend PROVE Levelled'
  BY <1>8, InStepKept, JournalKept DEF Spend, chainVars, stripeVars, ledgerVars
<1>9. ASSUME NEW w \in Workers, NEW s \in Sessions, Open(w, s) PROVE Levelled'
  BY <1>9, InStepKept, JournalKept DEF Open, IsOpen, chainVars, stripeVars, ledgerVars
<1>10. ASSUME NEW w \in Workers, Expire(w) PROVE Levelled'
  BY <1>10, InStepKept, JournalKept DEF Expire, Expired, Done, IsOpen, chainVars,
      stripeVars, ledgerVars
<1>11. ASSUME NEW w \in Workers, Look(w) PROVE Levelled'
  BY <1>11, InStepKept, JournalKept DEF Look, Creditable, Goto, Done, chainVars,
      stripeVars, ledgerVars
<1>12. ASSUME NEW w \in Workers, Detect(w) PROVE Levelled'
  BY <1>12, InStepKept, JournalKept DEF Detect, Done, chainVars, stripeVars, ledgerVars
<1>13. ASSUME NEW w \in Workers, CreditDeposit(w) PROVE Levelled'
  <2> DEFINE x == job[w].what
  <2>1. Credit(DepositKey(x), x) /\ x \in Transfers /\ transfer[x] = "final"
    BY <1>13 DEF CreditDeposit
  <2>2. Deposited([key |-> DepositKey(x), of |-> x, coins |-> Coins, short |-> 0])
    BY <2>1 DEF Deposited
  <2> HIDE DEF x
  <2>3. Unclawed
    BY <2>1, <2>2, CreditUnclawed
  <2> QED BY <1>13, <2>3, InStepKept DEF CreditDeposit, Goto, stripeVars
<1>14. ASSUME NEW w \in Workers, Complete(w) PROVE Levelled'
  BY <1>14, InStepKept, JournalKept DEF Complete, Done, chainVars, stripeVars, ledgerVars
<1>15. ASSUME NEW w \in Workers, Topup(w) PROVE Levelled'
  <2> DEFINE p == job[w].of
  <2>1. Credit(TopupKey(p), p) /\ p \in paid
    BY <1>15 DEF Topup, TopupKey
  <2>2. ToppedUp([key |-> TopupKey(p), of |-> p, coins |-> Coins, short |-> 0])
    BY <2>1 DEF ToppedUp
  <2> HIDE DEF p
  <2>3. Unclawed
    BY <2>1, <2>2, CreditUnclawed
  <2> QED BY <1>15, <2>3, InStepKept DEF Topup, Goto, stripeVars
<1>16. ASSUME NEW w \in Workers, RecordPurchase(w) PROVE Levelled'
  BY <1>16, InStepKept, JournalKept DEF RecordPurchase, Goto, chainVars, stripeVars,
      ledgerVars
<1>17. ASSUME NEW w \in Workers, Find(w) PROVE Levelled'
  BY <1>17, InStepKept, JournalKept DEF Find, Goto, chainVars, stripeVars, ledgerVars
<1>18. ASSUME NEW w \in Workers, Level(w) PROVE Levelled'
  <2>1. job[w] \in Handles /\ job[w].event \in Refunds /\ job[w].of = job[w].event.of
    BY <1>18 DEF Level
  <2>2. UNCHANGED <<reversed, journal, astray>> /\ Unclawed /\ Keys' = Keys
    BY <1>18, JournalKept DEF Level, stripeVars, ledgerVars
  <2>3. \A v \in Workers : v # w => job'[v] = job[v]
    BY <1>18 DEF Level, Goto
  <2>4. CASE job[w].event.level <= reversed[job[w].of]
    <3>1. job'[w].pc = "mark"
      BY <1>18, <2>1, <2>4 DEF Level, Goto
    <3> QED BY <2>1, <2>2, <2>3, <3>1, InStepKept
  <2>5. CASE ~ (job[w].event.level <= reversed[job[w].of])
    <3>1. /\ job'[w].pc = "claw" /\ job'[w].of = job[w].of /\ job'[w].event = job[w].event
          /\ job'[w].delta = job[w].event.level - reversed[job[w].of]
      BY <1>18, <2>1, <2>5 DEF Level
    <3> SUFFICES ASSUME NEW p \in Purchases \ astray' PROVE InStep(p)'
      BY DEF Levelled
    <3>2. InStep(p)
      BY <2>2 DEF Levelled
    <3>3. CASE p # job[w].of
      <4>1. Holding(p)' = Holding(p) /\ \A v \in Holding(p) : job'[v] = job[v]
        BY <2>1, <2>3, <3>1, <3>3 DEF Holding
      <4> QED BY <2>2, <3>2, <4>1 DEF InStep, Unclawed
    <3>4. CASE p = job[w].of
      <4>1. Holding(p) = {}
        BY <1>18, <2>1, <3>4 DEF Level, MayReverse
      <4>2. Holding(p)' = {w}
        BY <2>3, <3>1, <3>4, <4>1 DEF Holding
      <4> QED BY <2>2, <3>1, <3>2, <3>4, <4>1, <4>2 DEF InStep, Unclawed
    <3> QED BY <3>3, <3>4
  <2> QED BY <2>4, <2>5
<1>19. ASSUME NEW w \in Workers, Claw(w) PROVE Levelled'
  <2>1. job[w] \in Claws /\ job[w].pc = "claw" /\ job[w].of = job[w].event.of
    BY <1>19 DEF Claw
  <2>2. UNCHANGED <<reversed, astray>>
    BY <1>19 DEF Claw, stripeVars
  <2>3. \A v \in Workers : v # w => job'[v] = job[v]
    BY <1>19 DEF Claw, Goto, Done
  <2>4. w \in Holding(job[w].of)
    BY <2>1 DEF Holding
  <2> SUFFICES ASSUME NEW p \in Purchases \ astray' PROVE InStep(p)'
    BY DEF Levelled
  <2>5. InStep(p)
    BY <2>2 DEF Levelled
  <2>6. CASE p # job[w].of
    <3>1. Holding(p)' = Holding(p) /\ \A v \in Holding(p) : job'[v] = job[v]
      <4>1. job'[w] = Idle \/ job'[w].of = job[w].of
        BY <1>19, <2>1 DEF Claw, Goto, Done
      <4> QED BY <2>1, <2>3, <2>6, <4>1 DEF Holding
    <3>2. Clawed(p)' = Clawed(p) /\ \A l \in 1 .. Coins : ReversalKey(p,
        l) \in Keys' => ReversalKey(p, l) \in Keys
      <4>1. CASE UNCHANGED journal
        BY <4>1, JournalKept DEF Unclawed
      <4>2. CASE Posted(w).key \notin Keys /\ journal' = journal \cup {Posted(w)}
        <5>1. ClawedBack(Posted(w)) /\ Posted(w).of # p
          BY <1>19, <2>6, PostedIsClaw DEF Posted
        <5>2. \A l \in 1 .. Coins : Posted(w).key # ReversalKey(p, l)
          BY <2>6 DEF Posted, ReversalKey
        <5> QED BY <4>2, <5>1, <5>2, ClawedAfter DEF Keys
      <4> QED BY <1>19, <4>1, <4>2, ClawPosts DEF ledgerVars
    <3> QED BY <2>2, <2>5, <3>1, <3>2 DEF InStep
  <2>7. CASE p = job[w].of
    <3>1. \A v \in Holding(p) : v = w
      BY <2>4, <2>7
    <3>2. Clawed(p) = reversed[p] /\ job[w].delta = job[w].event.level - reversed[p]
      BY <2>1, <2>4, <2>5, <2>7, <3>1 DEF InStep
    <3>3. job[w].event.level \in 1 .. Coins /\ reversed[p] < job[w].event.level
      BY <2>1, <2>4, <2>7 DEF Refunds
    <3>4. Posted(w).key \notin Keys
      BY <2>1, <2>5, <2>7, <3>2, <3>3 DEF InStep, Posted
    <3>5. CASE UNCHANGED ledgerVars /\ job' = [job EXCEPT ![w] = Idle]
      <4>1. Holding(p)' = {}
        BY <2>3, <3>1, <3>5 DEF Holding
      <4>2. Clawed(p)' = Clawed(p) /\ Keys' = Keys
        BY <3>5, JournalKept DEF Unclawed, ledgerVars
      <4> QED BY <2>2, <2>5, <3>2, <4>1, <4>2 DEF InStep
    <3>6. CASE /\ journal' = journal \cup {Posted(w)}
               /\ job' = [job EXCEPT ![w].pc = "save"] \/ job' = [job EXCEPT ![w] =
                    [pc |-> "owe", of |-> job[w].of, event |-> job[w].event,
                        short |-> Posted(w).short]]
      <4>1. job'[w].pc \in {"save",
          "owe"} /\ job'[w].of = job[w].of /\ job'[w].event = job[w].event
        BY <2>1, <3>6
      <4>2. Holding(p)' = {w}
        BY <2>3, <2>7, <3>1, <4>1 DEF Holding
      <4>3. Posted(w).of = p /\ ClawedBack(Posted(w)) /\ Posted(w).short - Posted(w).coins = job[w].delta
        BY <1>19, <2>7, PostedIsClaw
      <4>4. Clawed(p) \in Int /\ Clawed(p)' = Clawed(p) + Posted(w).short - Posted(w).coins
        BY <3>4, <3>6, <4>3, ClawedAfter
      <4>5. Posted(w).short \in Int /\ Posted(w).coins \in Int
        BY <1>19, PostedIsClaw
      <4>6. reversed[p] \in Int
        BY <2>1
      <4>7. Clawed(p)' = job[w].event.level
        BY <3>2, <3>3, <4>3, <4>4, <4>5, <4>6
      <4>8. \A l \in 1 .. Coins : ReversalKey(p, l) \in Keys' => ReversalKey(p,
          l) \in Keys \/ l = job[w].event.level
        BY <3>6, <2>7 DEF Keys, Posted, ReversalKey
      <4>9. \A l \in 1 .. Coins : ReversalKey(p, l) \in Keys => l <= job[w].event.level
        BY <2>5, <3>2, <3>3, <4>6 DEF InStep
      <4> QED BY <3>3, <4>1, <4>2, <4>7, <4>8, <4>9 DEF InStep
    <3> QED BY <1>19, <3>4, <3>5, <3>6, ClawPosts
  <2> QED BY <2>6, <2>7
<1>20. ASSUME NEW w \in Workers, Owe(w) PROVE Levelled'
  <2>1. Unclawed /\ Keys' = Keys /\ UNCHANGED <<astray, reversed>>
    BY <1>20, JournalKept DEF Owe, stripeVars
  <2>2. \A v \in Workers : v # w => job'[v] = job[v]
    BY <1>20 DEF Owe, Goto
  <2>3. job[w].pc = "owe" /\ job'[w].pc = "save" /\ job'[w].of = job[w].of /\ job'[w].event = job[w].event
    BY <1>20 DEF Owe, Goto
  <2> SUFFICES ASSUME NEW p \in Purchases \ astray' PROVE InStep(p)'
    BY DEF Levelled
  <2>4. InStep(p)
    BY <2>1 DEF Levelled
  <2>5. Holding(p)' = Holding(p)
    BY <2>2, <2>3 DEF Holding
  <2>6. \A v \in Holding(p) :
            /\ job'[v].event = job[v].event /\ (job'[v].pc = "claw" <=> job[v].pc = "claw")
            /\ job[v].pc = "claw" => job'[v] = job[v]
    BY <2>2, <2>3 DEF Holding
  <2> HIDE DEF Holding
  <2> QED BY <2>1, <2>4, <2>5, <2>6 DEF InStep, Unclawed
<1>21. ASSUME NEW w \in Workers, Save(w) PROVE Levelled'
  <2>1. job[w].pc = "save" /\ job[w].of \in Purchases /\ w \in Holding(job[w].of) /\ job[w].event \in Refunds
    BY <1>21 DEF Save, Holding
  <2>2. Unclawed /\ Keys' = Keys /\ UNCHANGED astray
    BY <1>21, JournalKept DEF Save, ledgerVars
  <2>3. (\A v \in Workers : v # w => job'[v] = job[v]) /\ job'[w].pc = "mark"
    BY <1>21 DEF Save, Goto
  <2> SUFFICES ASSUME NEW p \in Purchases \ astray' PROVE InStep(p)'
    BY DEF Levelled
  <2>4. InStep(p)
    BY <2>2 DEF Levelled
  <2>5. CASE p # job[w].of
    <3>1. Holding(p)' = Holding(p) /\ (\A v \in Holding(p) : job'[v] = job[v]) /\ reversed'[p] = reversed[p]
      BY <1>21, <2>3, <2>5 DEF Holding, Save
    <3> QED BY <2>2, <2>4, <3>1 DEF InStep, Unclawed
  <2>6. CASE p = job[w].of
    <3>1. Holding(p)' = {}
      BY <2>1, <2>3, <2>6 DEF Holding
    <3>2. reversed'[p] = job[w].event.level /\ Clawed(p) = job[w].event.level
      BY <1>21, <2>1, <2>4, <2>6 DEF InStep, Save
    <3> QED BY <2>2, <2>4, <3>1, <3>2 DEF InStep, Unclawed
  <2> QED BY <2>5, <2>6
<1>22. ASSUME NEW w \in Workers, MarkProcessed(w) PROVE Levelled'
  BY <1>22, InStepKept, JournalKept DEF MarkProcessed, Done, chainVars, stripeVars,
      ledgerVars
<1>23. ASSUME NEW w \in Workers, OweFails(w) PROVE Levelled'
  <2>1. Unclawed /\ Keys' = Keys /\ UNCHANGED reversed /\ astray' = astray \cup {job[w].of}
    BY <1>23, JournalKept DEF OweFails, stripeVars
  <2>2. \A v \in Workers : v # w => job'[v] = job[v]
    BY <1>23 DEF OweFails, Goto
  <2>3. job'[w].of = job[w].of
    BY <1>23 DEF OweFails, Goto
  <2> SUFFICES ASSUME NEW p \in Purchases \ astray' PROVE InStep(p)'
    BY DEF Levelled
  <2>4. InStep(p) /\ p # job[w].of
    BY <2>1 DEF Levelled
  <2>5. Holding(p)' = Holding(p) /\ \A v \in Holding(p) : job'[v] = job[v]
    BY <2>2, <2>3, <2>4 DEF Holding
  <2> QED BY <2>1, <2>4, <2>5 DEF InStep, Unclawed
<1>24. ASSUME NEW w \in Workers, Stop(w) PROVE Levelled'
  <2>1. Unclawed /\ Keys' = Keys /\ UNCHANGED reversed
    BY <1>24, JournalKept DEF Stop, stripeVars, ledgerVars
  <2>2. (\A v \in Workers : v # w => job'[v] = job[v]) /\ job'[w] = Idle
    BY <1>24 DEF Stop, Done
  <2>3. astray' = IF job[w].pc \in {"owe", "save"} THEN astray \cup {job[w].of} ELSE astray
    BY <1>24 DEF Stop
  <2> SUFFICES ASSUME NEW p \in Purchases \ astray' PROVE InStep(p)'
    BY DEF Levelled
  <2>4. InStep(p)
    BY <2>3 DEF Levelled
  <2>5. CASE w \notin Holding(p)
    <3>1. Holding(p)' = Holding(p) /\ \A v \in Holding(p) : job'[v] = job[v]
      BY <2>2, <2>5 DEF Holding
    <3> QED BY <2>1, <2>4, <3>1 DEF InStep, Unclawed
  <2>6. CASE w \in Holding(p)
    <3>1. job[w].pc = "claw" /\ \A v \in Holding(p) : v = w
      BY <2>3, <2>6 DEF Holding
    <3>2. Holding(p)' = {}
      BY <2>2, <3>1 DEF Holding
    <3> QED BY <2>1, <2>4, <3>1, <3>2 DEF InStep, Unclawed
  <2> QED BY <2>5, <2>6
<1>25. ASSUME NEW w \in Workers, NEW e \in Events, Deliver(w, e) PROVE Levelled'
  BY <1>25, InStepKept, JournalKept DEF Deliver, Process, chainVars, stripeVars, ledgerVars
<1>26. ASSUME NEW w \in Workers, NEW e \in Events, Replay(w, e) PROVE Levelled'
  BY <1>26, InStepKept, JournalKept DEF Replay, Process, chainVars, stripeVars, ledgerVars
<1>27. ASSUME UNCHANGED vars PROVE Levelled'
  BY <1>27, InStepKept, JournalKept DEF vars, chainVars, stripeVars, ledgerVars
<1>28. ASSUME NEW p \in Purchases, CheckOut(p) PROVE Levelled'
  BY <1>28, InStepKept, JournalKept DEF CheckOut, Telling, chainVars, stripeVars, ledgerVars
<1>29. ASSUME NEW p \in Purchases, Unlist(p) PROVE Levelled'
  BY <1>29, InStepKept, JournalKept DEF Unlist, chainVars, stripeVars, ledgerVars
<1> HIDE DEF Order, JobOK, TypeOK, Told, Exclusive, Completed
<1> QED BY <1>1, <1>2, <1>3, <1>4, <1>5, <1>6, <1>7, <1>8, <1>9, <1>10, <1>11, <1>12,
    <1>13, <1>14, <1>15, <1>16, <1>17, <1>18, <1>19, <1>20, <1>21, <1>22, <1>23, <1>24,
    <1>25, <1>26, <1>27, <1>28, <1>29
    DEF Next, Poll, Handle

\* A level only rises, and what is processed stays so.
LEMMA ReachedKept ==
    ASSUME Reached, astray \subseteq astray',
           \A p \in Purchases : reversed[p] \in Int /\ reversed'[p] \in Int /\ reversed[p] <= reversed'[p],
           \A e \in Events : log'[e] = "processed" => log[e] = "processed",
           \A w \in Workers : job'[w].pc \in {"topup", "record", "mark"} =>
                /\ job'[w].event = job[w].event /\ job'[w].of = job[w].of /\ job[w].of \in Purchases
                /\ job[w].pc \in {"topup", "record"} \/ (job[w].pc = "mark" /\ job'[w].pc = "mark")
    PROVE  Reached'
<1>1. \A e \in Events : e.of \in Purchases /\ (e \in Refunds => e.level \in Int)
  BY DEF Events, Topups, Refunds
<1>2. \A e \in Topups : e \notin Refunds
  BY DEF Topups, Refunds
<1>3. \A e \in Refunds : e \in Events
  BY DEF Events
<1> QED BY <1>1, <1>2, <1>3 DEF Reached

\* An event is marked after its level was saved, or found saved.
LEMMA ReachedStep == Order /\ Reached /\ [Next]_vars => Reached'
<1> SUFFICES ASSUME Order, Reached, [Next]_vars PROVE Reached'
  OBVIOUS
<1> USE MoneyAssumption DEF Order, JobOK, TypeOK, Told, Reversing, Exclusive, Polls,
    Credits, Handles, Claws, Owes, Idle
<1>1. ASSUME NEW s \in Sessions, Create(s) PROVE Reached'
  BY <1>1, ReachedKept DEF Create, chainVars, stripeVars, ledgerVars
<1>2. ASSUME NEW s \in Sessions, Age(s) PROVE Reached'
  BY <1>2, ReachedKept DEF Age, chainVars, stripeVars, ledgerVars
<1>3. ASSUME NEW x \in Transfers, Pay(x) PROVE Reached'
  BY <1>3, ReachedKept DEF Pay, chainVars, stripeVars, ledgerVars
<1>4. ASSUME NEW x \in Transfers, NEW how \in {"final", "dropped"}, Resolve(x,
    how) PROVE Reached'
  BY <1>4, ReachedKept DEF Resolve, chainVars, stripeVars, ledgerVars
<1>5. ASSUME NEW p \in Purchases, Settle(p) PROVE Reached'
  BY <1>5, ReachedKept DEF Settle, chainVars, stripeVars, ledgerVars
<1>6. ASSUME NEW p \in Purchases, RefundMore(p) PROVE Reached'
  BY <1>6, ReachedKept DEF RefundMore, chainVars, stripeVars, ledgerVars
<1>7. ASSUME NEW p \in Purchases, Reconcile(p) PROVE Reached'
  BY <1>7, ReachedKept DEF Reconcile, chainVars, stripeVars, ledgerVars
<1>8. ASSUME Spend PROVE Reached'
  BY <1>8, ReachedKept DEF Spend, chainVars, stripeVars, ledgerVars
<1>9. ASSUME NEW w \in Workers, NEW s \in Sessions, Open(w, s) PROVE Reached'
  BY <1>9, ReachedKept DEF Open, IsOpen, chainVars, stripeVars, ledgerVars
<1>10. ASSUME NEW w \in Workers, Expire(w) PROVE Reached'
  BY <1>10, ReachedKept DEF Expire, Expired, Done, IsOpen, chainVars, stripeVars, ledgerVars
<1>11. ASSUME NEW w \in Workers, Look(w) PROVE Reached'
  BY <1>11, ReachedKept DEF Look, Creditable, Goto, Done, chainVars, stripeVars, ledgerVars
<1>12. ASSUME NEW w \in Workers, Detect(w) PROVE Reached'
  BY <1>12, ReachedKept DEF Detect, Done, chainVars, stripeVars, ledgerVars
<1>13. ASSUME NEW w \in Workers, CreditDeposit(w) PROVE Reached'
  BY <1>13, ReachedKept DEF CreditDeposit, Goto, chainVars, stripeVars, ledgerVars
<1>14. ASSUME NEW w \in Workers, Complete(w) PROVE Reached'
  BY <1>14, ReachedKept DEF Complete, Done, chainVars, stripeVars, ledgerVars
<1>15. ASSUME NEW w \in Workers, Topup(w) PROVE Reached'
  BY <1>15, ReachedKept DEF Topup, Goto, chainVars, stripeVars, ledgerVars
<1>16. ASSUME NEW w \in Workers, RecordPurchase(w) PROVE Reached'
  <2>1. UNCHANGED <<reversed, astray>>
    BY <1>16 DEF RecordPurchase
  <2>2. \A v \in Workers : v # w => job'[v] = job[v]
    BY <1>16 DEF RecordPurchase, Goto, Done, Process
  <2>3. UNCHANGED log /\ job'[w].pc = "mark" /\ job'[w].event = job[w].event /\ job[w].pc = "record"
    BY <1>16 DEF RecordPurchase, Goto
  <2>4. \A e \in Topups : e \notin Refunds
    BY DEF Topups, Refunds
  <2> QED BY <2>1, <2>2, <2>3, <2>4 DEF Reached
<1>17. ASSUME NEW w \in Workers, Find(w) PROVE Reached'
  <2>1. \A v \in Workers : v # w => job'[v] = job[v]
    BY <1>17 DEF Find, Goto
  <2>2. UNCHANGED <<log,
      reversed>> /\ astray \subseteq astray' /\ job'[w].event = job[w].event
    BY <1>17 DEF Find, Goto, stripeVars
  <2>3. job'[w].pc = "level" \/ (job'[w].pc = "mark" /\ job[w].event \in astray')
    BY <1>17 DEF Find, Goto
  <2> QED BY <2>1, <2>2, <2>3 DEF Reached
<1>18. ASSUME NEW w \in Workers, Level(w) PROVE Reached'
  <2>1. UNCHANGED <<reversed, astray>>
    BY <1>18 DEF Level, stripeVars
  <2>2. \A v \in Workers : v # w => job'[v] = job[v]
    BY <1>18 DEF Level, Goto, Done, Process
  <2>3. UNCHANGED log /\ job[w] \in Handles /\ job[w].event \in Refunds /\ job[w].event.of = job[w].of
    BY <1>18 DEF Level, stripeVars
  <2>4. CASE job[w].event.level <= reversed[job[w].event.of]
    <3>1. job'[w].pc = "mark" /\ job'[w].of = job[w].of /\ job'[w].event = job[w].event
      BY <1>18, <2>3, <2>4 DEF Level, Goto
    <3>2. job[w].event.level \in Int /\ job[w].of \in Purchases
      BY <2>3 DEF Refunds
    <3> QED BY <2>1, <2>2, <2>3, <2>4, <3>1, <3>2 DEF Reached
  <2>5. CASE ~ (job[w].event.level <= reversed[job[w].event.of])
    <3>1. job'[w].pc = "claw"
      BY <1>18, <2>5 DEF Level
    <3> QED BY <2>1, <2>2, <2>3, <3>1 DEF Reached
  <2> QED BY <2>4, <2>5
<1>19. ASSUME NEW w \in Workers, Claw(w) PROVE Reached'
  <2>1. UNCHANGED <<reversed, astray>>
    BY <1>19 DEF Claw, stripeVars
  <2>2. \A v \in Workers : v # w => job'[v] = job[v]
    BY <1>19 DEF Claw, Goto, Done, Process
  <2>3. UNCHANGED log /\ job[w] \in Claws /\ job[w].pc = "claw"
    BY <1>19 DEF Claw, stripeVars
  <2>4. job'[w].pc \in {"save", "owe", "idle"}
    BY <1>19, <2>3 DEF Claw, Goto, Done
  <2> QED BY <2>1, <2>2, <2>3, <2>4 DEF Reached
<1>20. ASSUME NEW w \in Workers, Owe(w) PROVE Reached'
  BY <1>20, ReachedKept DEF Owe, Goto, chainVars, stripeVars, ledgerVars
<1>21. ASSUME NEW w \in Workers, Save(w) PROVE Reached'
  <2>1. \A v \in Workers : v # w => job'[v] = job[v]
    BY <1>21 DEF Save, Goto
  <2>2. UNCHANGED <<log, astray>> /\ job[w].of \in Purchases /\ job[w].event \in Refunds
    BY <1>21 DEF Save, ledgerVars
  <2>3. /\ job'[w].pc = "mark" /\ job'[w].of = job[w].of /\ job'[w].event = job[w].event
        /\ reversed' = [reversed EXCEPT ![job[w].of] = job[w].event.level]
    BY <1>21 DEF Save, Goto
  <2>4. job[w].event.level \in Int /\ reversed[job[w].of] <= job[w].event.level
    BY <1>21, <2>2 DEF Save, Holding, Refunds
  <2>5. \A p \in Purchases : reversed[p] \in Int /\ reversed'[p] \in Int /\ reversed[p] <= reversed'[p]
    BY <2>2, <2>3, <2>4
  <2>6. \A e \in Refunds : e.of \in Purchases /\ e.level \in Int /\ e \in Events
    BY DEF Refunds, Events
  <2>7. ASSUME NEW v \in Workers, job'[v].pc = "mark", job'[v].event \in Refunds \ astray'
        PROVE  reversed'[job'[v].of] >= job'[v].event.level
    <3>1. CASE v = w
      BY <2>2, <2>3, <2>4, <3>1
    <3>2. CASE v # w
      <4>1. job[v].event = job'[v].event /\ job[v].of = job'[v].of /\ job[v].of \in Purchases
        BY <2>1, <2>6, <2>7, <3>2
      <4> QED BY <2>1, <2>2, <2>5, <2>6, <2>7, <3>2, <4>1 DEF Reached
    <3> QED BY <3>1, <3>2
  <2>8. \A e \in Refunds \ astray' : log'[e] = "processed" => reversed'[e.of] >= e.level
    BY <2>2, <2>5, <2>6 DEF Reached
  <2> QED BY <2>1, <2>3, <2>7, <2>8 DEF Reached
<1>22. ASSUME NEW w \in Workers, MarkProcessed(w) PROVE Reached'
  <2>1. UNCHANGED <<reversed, astray>>
    BY <1>22 DEF MarkProcessed
  <2>2. \A v \in Workers : v # w => job'[v] = job[v]
    BY <1>22 DEF MarkProcessed, Goto, Done, Process
  <2>3. job[w].pc = "mark" /\ job[w].event.of = job[w].of /\ job'[w].pc = "idle"
    BY <1>22 DEF MarkProcessed, Done
  <2>4. \A e \in Refunds : e \in Events
    BY DEF Events
  <2>5. \A e \in Refunds : log'[e] = "processed" => log[e] = "processed" \/ e = job[w].event
    BY <1>22, <2>4 DEF MarkProcessed
  <2> QED BY <2>1, <2>2, <2>3, <2>5 DEF Reached
<1>23. ASSUME NEW w \in Workers, OweFails(w) PROVE Reached'
  BY <1>23, ReachedKept DEF OweFails, Goto, chainVars, stripeVars, ledgerVars
<1>24. ASSUME NEW w \in Workers, Stop(w) PROVE Reached'
  BY <1>24, ReachedKept DEF Stop, Done, chainVars, stripeVars, ledgerVars
<1>25. ASSUME NEW w \in Workers, NEW e \in Events, Deliver(w, e) PROVE Reached'
  <2>1. UNCHANGED <<reversed, astray>>
    BY <1>25 DEF Deliver
  <2>2. \A v \in Workers : v # w => job'[v] = job[v]
    BY <1>25 DEF Deliver, Goto, Done, Process
  <2>3. \A f \in Refunds : log'[f] = "processed" => log[f] = "processed"
    BY <1>25 DEF Deliver
  <2>4. /\ job'[w].pc \in {"find", "mark", "topup"} /\ job'[w].event = e
        /\ job'[w].pc # "find" => e \in Topups
    BY <1>25, Processes DEF Deliver
  <2>5. \A f \in Topups : f \notin Refunds
    BY DEF Refunds, Topups
  <2> QED BY <2>1, <2>2, <2>3, <2>4, <2>5 DEF Reached
<1>26. ASSUME NEW w \in Workers, NEW e \in Events, Replay(w, e) PROVE Reached'
  <2>1. UNCHANGED <<reversed, astray>>
    BY <1>26 DEF Replay, stripeVars
  <2>2. \A v \in Workers : v # w => job'[v] = job[v]
    BY <1>26 DEF Replay, Goto, Done, Process
  <2>3. UNCHANGED log
    BY <1>26 DEF Replay, stripeVars
  <2>4. /\ job'[w].pc \in {"find", "mark", "topup"} /\ job'[w].event = e
        /\ job'[w].pc # "find" => e \in Topups
    BY <1>26, Processes DEF Replay
  <2>5. \A f \in Topups : f \notin Refunds
    BY DEF Refunds, Topups
  <2> QED BY <2>1, <2>2, <2>3, <2>4, <2>5 DEF Reached
<1>27. ASSUME UNCHANGED vars PROVE Reached'
  BY <1>27, ReachedKept DEF vars, chainVars, stripeVars, ledgerVars
<1>28. ASSUME NEW p \in Purchases, CheckOut(p) PROVE Reached'
  BY <1>28, ReachedKept DEF CheckOut, Telling, chainVars, stripeVars, ledgerVars
<1>29. ASSUME NEW p \in Purchases, Unlist(p) PROVE Reached'
  BY <1>29, ReachedKept DEF Unlist, chainVars, stripeVars, ledgerVars
<1> HIDE DEF Order, JobOK, TypeOK, Told, Exclusive
<1> QED BY <1>1, <1>2, <1>3, <1>4, <1>5, <1>6, <1>7, <1>8, <1>9, <1>10, <1>11, <1>12,
    <1>13, <1>14, <1>15, <1>16, <1>17, <1>18, <1>19, <1>20, <1>21, <1>22, <1>23, <1>24,
    <1>25, <1>26, <1>27, <1>28, <1>29
    DEF Next, Poll, Handle

\* Who owes goes on owing the same.
Owing == UNCHANGED world /\ \A w \in Workers : job[w].pc = "owe" \/ job'[w].pc = "owe" => job'[w] = job[w]

\* Then the debt stays what was booked.
LEMMA IndebtedKept ==
    ASSUME Indebted, UNCHANGED <<journal, debt>>, astray \subseteq astray', Owing
    PROVE  Indebted'
<1>1. Unrecorded' = Unrecorded
  BY DEF Unrecorded, Owing
<1> QED BY <1>1 DEF Indebted, Booked, Owing

\* An entry without a shortfall, or one that nobody owes, leaves the debt what it was.
LEMMA NothingOwed ==
    ASSUME Books, Indebted, NEW j, j.key \notin Keys, journal' = journal \cup {j},
           j.coins \in Int, j.short \in Int, j.short = 0 \/ j.of \notin world.named,
           UNCHANGED debt, astray \subseteq astray', Owing
    PROVE  Indebted'
<1> SUFFICES ASSUME Purchases \cap astray' = {}
             PROVE  Booked'
  BY DEF Indebted, Booked
<1> DEFINE S == journal \ Unrecorded
           T == journal' \ Unrecorded'
<1>1. Purchases \cap astray = {}
  OBVIOUS
<1>2. debt = Shortfall(S) /\ j \notin S
  BY <1>1 DEF Indebted, Booked, Keys
<1>3. \A w \in Workers : job[w].pc = "owe" => ReversalKey(job[w].of, job[w].event.level) # j.key
  BY <1>1 DEF Indebted, Booked, Keys
<1>4. \A i \in journal : i \in Unrecorded' <=> i \in Unrecorded
  BY DEF Unrecorded, Owing
<1>5. j \in Unrecorded' <=> j.of \notin world.named
  BY <1>3 DEF Unrecorded, Owing
<1>6. ASSUME j.of \notin world.named PROVE debt' = Shortfall(T)
  <2>1. T = S
    BY <1>4, <1>5, <1>6
  <2> HIDE DEF S, T
  <2>2. \A U : U = S => Shortfall(U) = Shortfall(S)
    OBVIOUS
  <2> QED BY <1>2, <2>1, <2>2
<1>7. ASSUME j.of \in world.named PROVE debt' = Shortfall(T)
  <2>1. T = S \cup {j} /\ j.short = 0
    BY <1>4, <1>5, <1>7
  <2>2. IsFiniteSet(S) /\ Entries(S \cup {j})
    BY BooksAreEntries, S \subseteq journal DEF Entries
  <2> HIDE DEF S, T
  <2>3. Shortfall(S \cup {j}) = Shortfall(S) + 0 /\ Shortfall(S) \in Int
    BY <1>2, <2>1, <2>2, SumsAdd
  <2>4. \A U : U = S \cup {j} => Shortfall(U) = Shortfall(S)
    BY <2>3
  <2> QED BY <1>2, <2>1, <2>4
<1>8. debt' = Shortfall(journal' \ Unrecorded')
  BY <1>6, <1>7 DEF T
<1>9. \A w \in Workers : job'[w].pc = "owe" => \E i \in journal' :
        /\ i.key = ReversalKey(job'[w].of, job'[w].event.level) /\ i.short = job'[w].short
        /\ i.of \in world'.named
  BY <1>1 DEF Indebted, Booked, Owing
<1> QED BY <1>8, <1>9 DEF Booked

\* Crediting posts such an entry, or none.
LEMMA CreditOwesNothing ==
    ASSUME Books, Indebted, NEW key, NEW of, Credit(key, of), astray \subseteq astray', Owing
    PROVE  Indebted'
<1> DEFINE j == [key |-> key, of |-> of, coins |-> Coins, short |-> 0]
<1>1. CASE key \in Keys
  BY <1>1, IndebtedKept DEF Credit, ledgerVars
<1>2. CASE key \notin Keys
  <2>1. journal' = journal \cup {j} /\ j.key \notin Keys /\ UNCHANGED debt
    BY <1>2 DEF Credit
  <2>2. j.coins \in Int /\ j.short \in Int /\ j.short = 0
    BY MoneyAssumption
  <2> HIDE DEF j
  <2> QED BY <2>1, <2>2, NothingOwed
<1> QED BY <1>1, <1>2

\* A shortfall is posted when its debt is about to be recorded, and recorded once.
LEMMA IndebtedStep == Order /\ Completed /\ Books /\ Indebted /\ [Next]_vars => Indebted'
<1> SUFFICES ASSUME Order, Completed, Books, Indebted, [Next]_vars PROVE Indebted'
  OBVIOUS
<1> USE MoneyAssumption DEF Order, JobOK, TypeOK, Told, Reversing, Exclusive, Polls,
    Credits, Handles, Claws, Owes, Idle
<1>1. ASSUME NEW s \in Sessions, Create(s) PROVE Indebted'
  BY <1>1, IndebtedKept DEF Create, chainVars, stripeVars, ledgerVars, Owing
<1>2. ASSUME NEW s \in Sessions, Age(s) PROVE Indebted'
  BY <1>2, IndebtedKept DEF Age, chainVars, stripeVars, ledgerVars, Owing
<1>3. ASSUME NEW x \in Transfers, Pay(x) PROVE Indebted'
  BY <1>3, IndebtedKept DEF Pay, chainVars, stripeVars, ledgerVars, Owing
<1>4. ASSUME NEW x \in Transfers, NEW how \in {"final", "dropped"}, Resolve(x,
    how) PROVE Indebted'
  BY <1>4, IndebtedKept DEF Resolve, chainVars, stripeVars, ledgerVars, Owing
<1>5. ASSUME NEW p \in Purchases, Settle(p) PROVE Indebted'
  BY <1>5, IndebtedKept DEF Settle, chainVars, stripeVars, ledgerVars, Owing
<1>6. ASSUME NEW p \in Purchases, RefundMore(p) PROVE Indebted'
  BY <1>6, IndebtedKept DEF RefundMore, chainVars, stripeVars, ledgerVars, Owing
<1>7. ASSUME NEW p \in Purchases, Reconcile(p) PROVE Indebted'
  <2> QED BY <1>7, CreditOwesNothing DEF Reconcile, Owing
<1>8. ASSUME Spend PROVE Indebted'
  BY <1>8, IndebtedKept DEF Spend, chainVars, stripeVars, ledgerVars, Owing
<1>9. ASSUME NEW w \in Workers, NEW s \in Sessions, Open(w, s) PROVE Indebted'
  BY <1>9, IndebtedKept DEF Open, IsOpen, chainVars, stripeVars, ledgerVars, Owing
<1>10. ASSUME NEW w \in Workers, Expire(w) PROVE Indebted'
  BY <1>10, IndebtedKept DEF Expire, Expired, Done, IsOpen, chainVars, stripeVars,
      ledgerVars, Owing
<1>11. ASSUME NEW w \in Workers, Look(w) PROVE Indebted'
  BY <1>11, IndebtedKept DEF Look, Creditable, Goto, Done, chainVars, stripeVars,
      ledgerVars, Owing
<1>12. ASSUME NEW w \in Workers, Detect(w) PROVE Indebted'
  BY <1>12, IndebtedKept DEF Detect, Done, chainVars, stripeVars, ledgerVars, Owing
<1>13. ASSUME NEW w \in Workers, CreditDeposit(w) PROVE Indebted'
  <2>1. Credit(DepositKey(job[w].what), job[w].what) /\ UNCHANGED astray
    BY <1>13 DEF CreditDeposit
  <2>2. Owing
    BY <1>13 DEF CreditDeposit, Goto, Owing
  <2> QED BY <2>1, <2>2, CreditOwesNothing
<1>14. ASSUME NEW w \in Workers, Complete(w) PROVE Indebted'
  BY <1>14, IndebtedKept DEF Complete, Done, chainVars, stripeVars, ledgerVars, Owing
<1>15. ASSUME NEW w \in Workers, Topup(w) PROVE Indebted'
  <2>1. Credit(TopupKey(job[w].of), job[w].of) /\ UNCHANGED astray
    BY <1>15 DEF Topup
  <2>2. Owing
    BY <1>15 DEF Topup, Goto, Owing
  <2> QED BY <2>1, <2>2, CreditOwesNothing
<1>16. ASSUME NEW w \in Workers, RecordPurchase(w) PROVE Indebted'
  BY <1>16, IndebtedKept DEF RecordPurchase, Goto, chainVars, stripeVars, ledgerVars, Owing
<1>17. ASSUME NEW w \in Workers, Find(w) PROVE Indebted'
  BY <1>17, IndebtedKept DEF Find, Goto, chainVars, stripeVars, ledgerVars, Owing
<1>18. ASSUME NEW w \in Workers, Level(w) PROVE Indebted'
  BY <1>18, IndebtedKept DEF Level, Goto, MayReverse, chainVars, stripeVars, ledgerVars,
      Owing
<1>19. ASSUME NEW w \in Workers, Claw(w) PROVE Indebted'
  <2>1. \A v \in Workers : v # w => job'[v] = job[v]
    BY <1>19 DEF Claw, Goto, Done
  <2>2. UNCHANGED <<world, astray>> /\ job[w].pc = "claw"
    BY <1>19 DEF Claw
  <2>3. job[w] \in Claws
    BY <2>2
  <2>4. CASE UNCHANGED ledgerVars /\ job'[w].pc # "owe"
    BY <2>1, <2>2, <2>4, IndebtedKept DEF Owing, ledgerVars
  <2>5. CASE /\ Posted(w).key \notin Keys /\ journal' = journal \cup {Posted(w)} /\ UNCHANGED debt
             /\ Posted(w).short = 0 \/ job[w].of \notin world.named
             /\ job'[w].pc # "owe"
    <3>1. Posted(w).coins \in Int /\ Posted(w).short \in Int /\ Posted(w).of = job[w].of
      BY <1>19, PostedIsClaw
    <3> QED BY <2>1, <2>2, <2>5, <3>1, NothingOwed DEF Owing
  <2>6. CASE /\ Posted(w).key \notin Keys /\ journal' = journal \cup {Posted(w)} /\ UNCHANGED debt
             /\ job[w].of \in world.named
             /\ job'[w] = [pc |-> "owe", of |-> job[w].of, event |-> job[w].event,
                           short |-> Posted(w).short]
    <3> SUFFICES ASSUME Purchases \cap astray' = {} PROVE Booked'
      BY DEF Indebted, Booked
    <3>1. Purchases \cap astray = {}
      BY <2>2
    <3>2. Posted(w).key = ReversalKey(job[w].of, job[w].event.level)
      BY DEF Posted
    <3>3. \A i \in journal : i.key # ReversalKey(job[w].of, job[w].event.level)
      BY <2>6, <3>2 DEF Keys
    <3>4. Posted(w) \in Unrecorded'
      BY <2>6, <3>2 DEF Unrecorded
    <3>5. \A i \in journal : i \in Unrecorded' <=> i \in Unrecorded
      BY <2>1, <2>2, <2>6, <3>3 DEF Unrecorded
    <3>6. journal' \ Unrecorded' = journal \ Unrecorded
      BY <2>6, <3>4, <3>5
    <3>7. debt' = Shortfall(journal' \ Unrecorded')
      BY <2>6, <3>1, <3>6 DEF Indebted, Booked
    <3>8. ASSUME NEW v \in Workers, job'[v].pc = "owe"
          PROVE  \E i \in journal' :
            /\ i.key = ReversalKey(job'[v].of, job'[v].event.level) /\ i.short = job'[v].short
            /\ i.of \in world'.named
      <4>1. CASE v = w
        <5>1. Posted(w).of = job[w].of
          BY DEF Posted
        <5> HIDE DEF Posted
        <5> QED BY <2>2, <2>6, <3>2, <4>1, <5>1
      <4>2. CASE v # w
        BY <2>1, <2>2, <2>6, <3>1, <3>8, <4>2 DEF Indebted, Booked
      <4> QED BY <4>1, <4>2
    <3> QED BY <3>7, <3>8 DEF Booked
  <2>7. job' = [job EXCEPT ![w].pc = "save"] => job'[w].pc # "owe"
    BY <2>3
  <2>8. job' = [job EXCEPT ![w] = Idle] => job'[w].pc # "owe"
    OBVIOUS
  <2> DEFINE r == [pc |-> "owe", of |-> job[w].of, event |-> job[w].event,
                     short |-> Posted(w).short]
  <2>9. job' = [job EXCEPT ![w] = r] => job'[w] = r
    <3> HIDE DEF r
    <3> QED OBVIOUS
  <2>10. \/ UNCHANGED ledgerVars /\ job' = [job EXCEPT ![w].pc = "save"]
         \/ UNCHANGED ledgerVars /\ job' = [job EXCEPT ![w] = Idle]
         \/ /\ Posted(w).key \notin Keys /\ journal' = journal \cup {Posted(w)} /\ UNCHANGED debt
            /\ \/ job[w].of \in world.named /\ job' = [job EXCEPT ![w] = r]
               \/ /\ Posted(w).short = 0 \/ job[w].of \notin world.named
                  /\ job' = [job EXCEPT ![w].pc = "save"]
    <3> HIDE DEF Posted
    <3> QED BY <1>19, ClawPosts
  <2> HIDE DEF r
  <2> QED BY <2>4, <2>5, <2>6, <2>7, <2>8, <2>9, <2>10 DEF r
<1>20. ASSUME NEW w \in Workers, Owe(w) PROVE Indebted'
  <2> SUFFICES ASSUME Purchases \cap astray' = {} PROVE Booked'
    BY DEF Indebted, Booked
  <2>1. /\ Purchases \cap astray = {} /\ UNCHANGED <<world, journal>>
        /\ job[w].pc = "owe" /\ job'[w].pc = "save"
    BY <1>20 DEF Owe, Goto
  <2>2. \A v \in Workers : v # w => job'[v] = job[v]
    BY <1>20 DEF Owe, Goto
  <2>3. debt' = debt + job[w].short
    BY <1>20 DEF Owe
  <2>4. PICK j \in journal :
          /\ j.key = ReversalKey(job[w].of, job[w].event.level) /\ j.short = job[w].short
          /\ j.of \in world.named
    BY <2>1 DEF Indebted, Booked
  <2> DEFINE S == journal \ Unrecorded
  <2>5. debt = Shortfall(S)
    BY <2>1 DEF Indebted, Booked
  <2>6. j \in Unrecorded
    BY <2>1, <2>4 DEF Unrecorded
  <2>7. ASSUME NEW v \in Workers, v # w, job[v].pc = "owe"
        PROVE  ReversalKey(job[v].of, job[v].event.level) # j.key
    <3>1. job[v].of \in Purchases /\ job[v].of # job[w].of
      BY <2>1, <2>7 DEF Holding
    <3> QED BY <2>4, <3>1 DEF ReversalKey
  <2>8. j \notin Unrecorded'
    BY <2>1, <2>2, <2>4, <2>7 DEF Unrecorded
  <2>9. \A i \in journal : i # j => (i \in Unrecorded' <=> i \in Unrecorded)
    <3>1. \A i \in journal : i # j => i.key # j.key
      BY <2>4 DEF Books
    <3> QED BY <2>1, <2>2, <2>4, <3>1 DEF Unrecorded
  <2>10. journal' \ Unrecorded' = S \cup {j}
    BY <2>1, <2>6, <2>8, <2>9
  <2>11. IsFiniteSet(S) /\ Entries(S \cup {j})
    BY <2>4, BooksAreEntries, S \subseteq journal DEF Entries
  <2> HIDE DEF S
  <2>12. Shortfall(S \cup {j}) = Shortfall(S) + j.short
    BY <2>6, <2>11, SumsAdd DEF S
  <2>13. \A U : U = S \cup {j} => Shortfall(U) = Shortfall(S) + j.short
    BY <2>12
  <2>14. debt' = Shortfall(journal' \ Unrecorded')
    BY <2>3, <2>4, <2>5, <2>10, <2>13
  <2>15. \A v \in Workers : job'[v].pc = "owe" => \E i \in journal' :
            /\ i.key = ReversalKey(job'[v].of, job'[v].event.level) /\ i.short = job'[v].short
            /\ i.of \in world'.named
    BY <2>1, <2>2 DEF Indebted, Booked
  <2> QED BY <2>14, <2>15 DEF Booked
<1>21. ASSUME NEW w \in Workers, Save(w) PROVE Indebted'
  BY <1>21, IndebtedKept DEF Save, Goto, chainVars, stripeVars, ledgerVars, Owing
<1>22. ASSUME NEW w \in Workers, MarkProcessed(w) PROVE Indebted'
  BY <1>22, IndebtedKept DEF MarkProcessed, Done, chainVars, stripeVars, ledgerVars, Owing
<1>23. ASSUME NEW w \in Workers, OweFails(w) PROVE Indebted'
  <2>1. job[w].of \in Purchases \cap astray'
    BY <1>23 DEF OweFails
  <2> QED BY <2>1 DEF Indebted, Booked
<1>24. ASSUME NEW w \in Workers, Stop(w) PROVE Indebted'
  <2>1. CASE job[w].pc \in {"owe", "save"}
    <3>1. job[w].of \in Purchases \cap astray'
      BY <1>24, <2>1 DEF Stop
    <3> QED BY <3>1 DEF Indebted, Booked
  <2>2. CASE job[w].pc \notin {"owe", "save"}
    <3>1. Owing
      BY <1>24, <2>2 DEF Stop, Done, Owing
    <3> QED BY <1>24, <2>2, <3>1, IndebtedKept DEF Stop, ledgerVars
  <2> QED BY <2>1, <2>2
<1>25. ASSUME NEW w \in Workers, NEW e \in Events, Deliver(w, e) PROVE Indebted'
  BY <1>25, IndebtedKept DEF Deliver, Process, chainVars, stripeVars, ledgerVars, Owing
<1>26. ASSUME NEW w \in Workers, NEW e \in Events, Replay(w, e) PROVE Indebted'
  BY <1>26, IndebtedKept DEF Replay, Process, chainVars, stripeVars, ledgerVars, Owing
<1>27. ASSUME UNCHANGED vars PROVE Indebted'
  BY <1>27, IndebtedKept DEF vars, chainVars, stripeVars, ledgerVars, Owing
<1>28. ASSUME NEW p \in Purchases, CheckOut(p) PROVE Indebted'
  BY <1>28, IndebtedKept DEF CheckOut, Telling, chainVars, stripeVars, ledgerVars, Owing
<1>29. ASSUME NEW p \in Purchases, Unlist(p) PROVE Indebted'
  BY <1>29, IndebtedKept DEF Unlist, chainVars, stripeVars, ledgerVars, Owing
<1> HIDE DEF Order, JobOK, TypeOK, Told, Exclusive
<1> QED BY <1>1, <1>2, <1>3, <1>4, <1>5, <1>6, <1>7, <1>8, <1>9, <1>10, <1>11, <1>12,
    <1>13, <1>14, <1>15, <1>16, <1>17, <1>18, <1>19, <1>20, <1>21, <1>22, <1>23, <1>24,
    <1>25, <1>26, <1>27, <1>28, <1>29
    DEF Next, Poll, Handle

\* ... and nothing was refunded.
LEMMA InitRefunds == Init => Levelled /\ Reached /\ Indebted
<1> SUFFICES ASSUME Init PROVE Levelled /\ Reached /\ Indebted
  OBVIOUS
<1>1. \A p \in Purchases : Holding(p) = {} /\ reversed[p] = 0
  BY DEF Init, Holding, Idle
<1>2. \A p \in Purchases : Clawed(p) = 0
  <2>1. \A p \in Purchases : Of(p) = {} /\ {j \in Of(p) : j.coins <= 0} = {}
    BY DEF Init, Of
  <2> QED BY <2>1, SumsEmpty DEF Clawed
<1>3. Keys = {}
  BY DEF Init, Keys
<1>4. Levelled
  BY <1>1, <1>2, <1>3 DEF Levelled, InStep
<1>5. Reached
  BY DEF Init, Reached, Idle, Refunds, Events
<1>6. Indebted
  BY SumsEmpty DEF Init, Indebted, Booked, Idle
<1> QED BY <1>4, <1>5, <1>6

\* What is clawed back is in step with the level saved, a marked event has reached its level,
\* and the debt recorded is what was booked, but for what is about to be recorded.
THEOREM MoneyInRefunds == Spec => [](Levelled /\ Reached /\ Indebted)
<1>1. Init => Levelled /\ Reached /\ Indebted
  BY InitRefunds
<1>2. Order /\ Completed /\ Books /\ Levelled /\ Reached /\ Indebted /\ [Next]_vars
        => (Levelled /\ Reached /\ Indebted)'
  BY LevelledStep, ReachedStep, IndebtedStep
<1> QED BY <1>1, <1>2, MoneyInOrder, MoneyInBooks, PTL DEF Spec

\* When nobody is at it, that is what is promised.
LEMMA RefundsClawedBack == Order /\ Levelled /\ Reached /\ Indebted => ClawedAsRefunded
<1> SUFFICES ASSUME Order, Levelled, Reached, Indebted PROVE ClawedAsRefunded
  OBVIOUS
<1>1. ASSUME NEW p \in Purchases \ astray
      PROVE  (Holding(p) = {} => Clawed(p) = reversed[p]) /\ Clawed(p) <= refund[p]
  <2>1. InStep(p) /\ reversed[p] <= refund[p]
    BY DEF Levelled, Order, Exclusive
  <2>2. CASE \A w \in Holding(p) : job[w].pc = "claw"
    BY <2>1, <2>2 DEF InStep
  <2>3. ASSUME NEW w \in Holding(p), job[w].pc # "claw"
        PROVE  Clawed(p) <= refund[p]
    <3>1. Clawed(p) = job[w].event.level
      BY <2>1, <2>3 DEF InStep
    <3>2. /\ job[w].event \in emitted /\ job[w].event.of = p /\ job[w].event \in Refunds
      BY DEF Holding, Order, Told, Reversing
    <3> QED BY <3>1, <3>2 DEF Order, Told
  <2> QED BY <2>2, <2>3
<1>2. ASSUME \A p \in Purchases : p \notin astray /\ Holding(p) = {}
      PROVE  debt = Shortfall({j \in journal : j.of \in world.named})
  <2>1. \A w \in Workers : job[w].pc # "owe"
    <3> SUFFICES ASSUME NEW w \in Workers, job[w].pc = "owe" PROVE FALSE
      OBVIOUS
    <3>1. job[w].of \in Purchases
      BY DEF Order, JobOK, Idle, Polls, Credits, Handles, Claws, Owes
    <3> QED BY <1>2, <3>1 DEF Holding
  <2>2. journal \ Unrecorded = {j \in journal : j.of \in world.named}
    BY <2>1 DEF Unrecorded
  <2>3. Purchases \cap astray = {}
    BY <1>2
  <2> QED BY <2>2, <2>3 DEF Indebted, Booked
<1> QED BY <1>1, <1>2 DEF ClawedAsRefunded, Reached

\* Refunds take back what they should and no more, whatever the order in which events come, and
\* however often; a purchase whose debt or level a fault cut off is excepted.
THEOREM MoneyInClawedAsRefunded == Spec => []ClawedAsRefunded
  BY MoneyInOrder, MoneyInRefunds, RefundsClawedBack, PTL
=============================================================================
