----------------------------- MODULE PayoutProofs -----------------------------
(***************************************************************************)
(* What module Payout checks on seven small worlds holds of every world:   *)
(* any number of approvals, watchers, rejections and hooks, on either      *)
(* rail, with any set of faults.                                           *)
(***************************************************************************)
EXTENDS Payout, TLAPS

-----------------------------------------------------------------------------
(* Where the processes can be, and how often a transaction is sent.        *)

ApproverSteps ==
    IF Solana THEN {"idle", "claim", "sign", "send", "giveback", "fail"}
              ELSE {"idle", "transfer", "burn", "mark", "giveback", "fail"}

WatcherSteps ==
    IF Solana THEN {"idle", "burn", "mark", "giveback", "fail", "recover"} ELSE {"idle"}

\* Every process is at a step of its own handler, and absent ones are nowhere.
Places ==
    /\ pc[Requester] \in {"idle", "create", "undo"}
    /\ \A a \in Approvers : pc[a] \in ApproverSteps
    /\ \A w \in Watchers : pc[w] \in WatcherSteps
    /\ \A j \in Rejecters : pc[j] \in {"idle", "return", "reject"}
    /\ \A h \in Hooks : pc[h] \in IF Solana THEN {"idle"} ELSE {"idle", "unburn", "reverse"}
    /\ \A p \in Procs \ world.procs : pc[p] = "idle"

\* Nothing happens to a withdrawal before it has a row, and no money is sent that
\* nobody approves.
RowFirst ==
    /\ status = "none" => tx = "none" /\ \A p \in Approvers \cup Rejecters : pc[p] = "idle"
    /\ status # "none" \/ pc[Requester] # "idle" => "hold" \in posted
    /\ pc[Requester] = "create" => status = "none"
    /\ Approvers \cap world.procs = {} => tx = "none"
    /\ Solana => tx # "reversed"

\* Solana: the approval that claimed the row is the only one to sign and send, and
\* sends once; so what the chain decides is never overwritten.
OneSend ==
    Solana =>
        /\ sends = 0 <=> tx = "none"
        /\ status \in {"none", "requested", "processing"} => sends = 0
        /\ status \in {"none", "requested"} =>
            /\ \A a \in Approvers : pc[a] \in {"idle", "claim"}
            /\ \A w \in Watchers : pc[w] = "idle"
        /\ status = "processing" => \A a \in Approvers : pc[a] # "send"
        /\ status = "broadcasted" /\ aged => tx # "sent"
        /\ \A a, b \in Approvers :
            pc[a] \in {"sign", "send"} =>
                sends = 0 /\ (pc[b] \in {"sign", "send"} => a = b)

\* Stripe's transfers are not counted as sends.
StripeSendsNothing == ~ Solana => sends = 0

Order == TypeOK /\ Places /\ RowFirst /\ OneSend /\ StripeSendsNothing

\* Where an error sends a process, step by step.
LEMMA OnErrorIs ==
    ASSUME NEW p \in Procs
    PROVE  /\ pc[p] = "create" => OnError(p) = "undo"
           /\ pc[p] = "sign" => OnError(p) = "giveback"
           /\ pc[p] = "giveback" => OnError(p) = IF p \in Approvers THEN "fail" ELSE "idle"
           /\ pc[p] \notin {"create", "sign", "giveback"} => OnError(p) = "idle"
  BY DEF OnError

\* Every step keeps the order.  Claim and Sign make the one sender, Send ends it.
LEMMA OrderStep == Order /\ [Next]_vars => Order'
<1> SUFFICES ASSUME Order, [Next]_vars PROVE Order'
  OBVIOUS
<1> USE ProcsAssumption DEF Goto, Fault, row, money, Procs, Solana, Order, TypeOK, Steps,
    Statements, Statuses,
    Places, ApproverSteps, WatcherSteps, RowFirst, OneSend, StripeSendsNothing
<1>1. ASSUME Request(Requester) PROVE Order'
  BY <1>1 DEF Request, Begins, Post
<1>2. ASSUME Create(Requester) PROVE Order'
  <2>1. TypeOK'
    <3>1. pc' \in [Procs -> Steps]
      BY <1>2, OnErrorIs DEF Create, Answered
    <3>2. world' = world /\ failed' \subseteq world.faults
      BY <1>2 DEF Create, Answered
    <3>3. status' \in Statuses /\ aged' \in BOOLEAN /\ UNCHANGED <<posted, tx, sends>>
      BY <1>2 DEF Create, Move
    <3> QED BY <3>1, <3>2, <3>3
  <2>2. Places'
    BY <1>2, OnErrorIs DEF Create, Move, Answered
  <2>3. RowFirst'
    BY <1>2, OnErrorIs DEF Create, Move, Answered
  <2>4. OneSend'
    BY <1>2, OnErrorIs DEF Create, Move, Answered
  <2>5. StripeSendsNothing'
    BY <1>2, OnErrorIs DEF Create, Move, Answered
  <2> QED BY <2>1, <2>2, <2>3, <2>4, <2>5 DEF Order
<1>3. ASSUME Undo(Requester) PROVE Order'
  BY <1>3 DEF Undo, Post
<1>4. ASSUME NEW a \in Approvers, Approve(a) PROVE Order'
  BY <1>4 DEF Approve, Begins
<1>5. ASSUME NEW a \in Approvers, Claim(a) PROVE Order'
  <2>1. TypeOK'
    <3>1. pc' \in [Procs -> Steps]
      BY <1>5, OnErrorIs DEF Claim, Answered
    <3>2. world' = world /\ failed' \subseteq world.faults
      BY <1>5 DEF Claim, Answered
    <3>3. status' \in Statuses /\ aged' \in BOOLEAN /\ UNCHANGED <<posted, tx, sends>>
      BY <1>5 DEF Claim, Move
    <3> QED BY <3>1, <3>2, <3>3
  <2>2. Places'
    BY <1>5, OnErrorIs DEF Claim, Move, Answered
  <2>3. RowFirst'
    BY <1>5, OnErrorIs DEF Claim, Move, Answered
  <2>4. OneSend'
    BY <1>5, OnErrorIs DEF Claim, Move, Answered
  <2>5. StripeSendsNothing'
    BY <1>5, OnErrorIs DEF Claim, Move, Answered
  <2> QED BY <2>1, <2>2, <2>3, <2>4, <2>5 DEF Order
<1>6. ASSUME NEW a \in Approvers, Sign(a) PROVE Order'
  <2>1. TypeOK'
    <3>1. pc' \in [Procs -> Steps]
      BY <1>6, OnErrorIs DEF Sign, Answered
    <3>2. world' = world /\ failed' \subseteq world.faults
      BY <1>6 DEF Sign, Answered
    <3>3. status' \in Statuses /\ aged' \in BOOLEAN /\ UNCHANGED <<posted, tx, sends>>
      BY <1>6 DEF Sign, Move
    <3> QED BY <3>1, <3>2, <3>3
  <2>2. Places'
    BY <1>6, OnErrorIs DEF Sign, Move, Answered
  <2>3. RowFirst'
    BY <1>6, OnErrorIs DEF Sign, Move, Answered
  <2>4. OneSend'
    BY <1>6, OnErrorIs DEF Sign, Move, Answered
  <2>5. StripeSendsNothing'
    BY <1>6, OnErrorIs DEF Sign, Move, Answered
  <2> QED BY <2>1, <2>2, <2>3, <2>4, <2>5 DEF Order
<1>7. ASSUME NEW a \in Approvers, SignFails(a) PROVE Order'
  BY <1>7 DEF SignFails
<1>8. ASSUME NEW a \in Approvers, Send(a) PROVE Order'
  BY <1>8 DEF Send
<1>9. ASSUME NEW a \in Approvers, Transfer(a) PROVE Order'
  BY <1>9 DEF Transfer
<1>10. ASSUME NEW a \in Approvers, TransferRefused(a) PROVE Order'
  BY <1>10 DEF TransferRefused
<1>11. ASSUME NEW a \in Approvers, TransferUnknown(a) PROVE Order'
  BY <1>11 DEF TransferUnknown
<1>12. ASSUME NEW w \in Watchers, Confirm(w) PROVE Order'
  BY <1>12 DEF Confirm, Begins
<1>13. ASSUME NEW w \in Watchers, Reconcile(w) PROVE Order'
  <2>1. TypeOK'
    BY <1>13 DEF Reconcile, Begins, Move
  <2>2. Places'
    BY <1>13 DEF Reconcile, Begins, Move
  <2>3. RowFirst'
    BY <1>13 DEF Reconcile, Begins, Move
  <2>4. OneSend'
    BY <1>13 DEF Reconcile, Begins, Move
  <2>5. StripeSendsNothing'
    BY <1>13 DEF Reconcile, Begins, Move
  <2> QED BY <2>1, <2>2, <2>3, <2>4, <2>5 DEF Order
<1>14. ASSUME NEW w \in Watchers, Recover(w) PROVE Order'
  BY <1>14 DEF Recover, Post
<1>15. ASSUME NEW p \in Approvers \cup Watchers, Burn(p) PROVE Order'
  BY <1>15, OnErrorIs DEF Burn, Post, Answered
<1>16. ASSUME NEW p \in Approvers \cup Watchers, Mark(p) PROVE Order'
  <2>1. TypeOK'
    BY <1>16 DEF Mark, Move, From
  <2>2. Places'
    BY <1>16 DEF Mark, Move, From
  <2>3. RowFirst'
    BY <1>16 DEF Mark, Move, From
  <2>4. OneSend'
    BY <1>16 DEF Mark, Move, From
  <2>5. StripeSendsNothing'
    BY <1>16 DEF Mark, Move, From
  <2> QED BY <2>1, <2>2, <2>3, <2>4, <2>5 DEF Order
<1>17. ASSUME NEW p \in Approvers \cup Watchers, GiveBack(p) PROVE Order'
  BY <1>17, OnErrorIs DEF GiveBack, Post, Answered
<1>18. ASSUME NEW p \in Approvers \cup Watchers, Fail(p) PROVE Order'
  <2>1. TypeOK'
    BY <1>18 DEF Fail, Move, From
  <2>2. Places'
    BY <1>18 DEF Fail, Move, From
  <2>3. RowFirst'
    BY <1>18 DEF Fail, Move, From
  <2>4. OneSend'
    BY <1>18 DEF Fail, Move, From
  <2>5. StripeSendsNothing'
    BY <1>18 DEF Fail, Move, From
  <2> QED BY <2>1, <2>2, <2>3, <2>4, <2>5 DEF Order
<1>19. ASSUME NEW j \in Rejecters, Reject(j) PROVE Order'
  BY <1>19 DEF Reject, Begins
<1>20. ASSUME NEW j \in Rejecters, Return(j) PROVE Order'
  BY <1>20, OnErrorIs DEF Return, Post, Answered
<1>21. ASSUME NEW j \in Rejecters, MarkRejected(j) PROVE Order'
  <2>1. TypeOK'
    BY <1>21 DEF MarkRejected, Move
  <2>2. Places'
    BY <1>21 DEF MarkRejected, Move
  <2>3. RowFirst'
    BY <1>21 DEF MarkRejected, Move
  <2>4. OneSend'
    BY <1>21 DEF MarkRejected, Move
  <2>5. StripeSendsNothing'
    BY <1>21 DEF MarkRejected, Move
  <2> QED BY <2>1, <2>2, <2>3, <2>4, <2>5 DEF Order
<1>22. ASSUME NEW h \in Hooks, ReverseByTransfer(h) PROVE Order'
  BY <1>22 DEF ReverseByTransfer, Begins
<1>23. ASSUME NEW h \in Hooks, Unburn(h) PROVE Order'
  BY <1>23, OnErrorIs DEF Unburn, Post, Answered
<1>24. ASSUME NEW h \in Hooks, MarkReversed(h) PROVE Order'
  BY <1>24 DEF MarkReversed, Move
<1>25. ASSUME NEW p \in Procs, StatementFails(p) PROVE Order'
  BY <1>25, OnErrorIs DEF StatementFails, Forgotten, Statements
<1>26. ASSUME NEW p \in Procs, Crash(p) PROVE Order'
  BY <1>26 DEF Crash, Forgotten
<1>27. ASSUME ChainDecides PROVE Order'
  BY <1>27 DEF ChainDecides
<1>28. ASSUME StripeReverses PROVE Order'
  BY <1>28 DEF StripeReverses
<1>29. ASSUME GrowsOld PROVE Order'
  BY <1>29 DEF GrowsOld
<1>30. ASSUME UNCHANGED vars PROVE Order'
  BY <1>30 DEF vars
<1> QED BY <1>1, <1>2, <1>3, <1>4, <1>5, <1>6, <1>7, <1>8, <1>9, <1>10, <1>11, <1>12,
    <1>13, <1>14, <1>15, <1>16, <1>17, <1>18, <1>19, <1>20, <1>21, <1>22, <1>23, <1>24,
    <1>25, <1>26, <1>27, <1>28, <1>29, <1>30
    DEF Next, Approval, Ends, Watches

\* Nobody has begun.
LEMMA OrderInit == Init => Order
<1> SUFFICES ASSUME Init PROVE Order
  OBVIOUS
<1>1. TypeOK
  <2>1. pc \in [Procs -> Steps]
    BY DEF Init, Steps
  <2>2. world \in Worlds /\ failed \subseteq world.faults /\ posted = {}
    BY DEF Init
  <2>3. status \in Statuses /\ sends \in 0 .. 1 /\ tx = "none"
    BY DEF Init, Statuses
  <2>4. aged \in BOOLEAN
    BY Zenon DEF Init
  <2> QED BY <2>1, <2>2, <2>3, <2>4 DEF TypeOK
<1>2. \A p \in Procs : pc[p] = "idle"
  BY DEF Init
<1>3. Places /\ RowFirst
  BY <1>2 DEF Init, Procs, Places, ApproverSteps, WatcherSteps, RowFirst
<1>4. OneSend /\ StripeSendsNothing
  BY <1>2 DEF Init, Procs, OneSend, StripeSendsNothing
<1> QED BY <1>1, <1>3, <1>4 DEF Order

\* In every behaviour every process is at a step of its own handler, and a transaction
\* is signed and sent by one approval, once.
THEOREM PayoutOrder == Spec => []Order
<1> QED BY OrderInit, OrderStep, PTL DEF Spec

\* In every behaviour the variables have their types; the bound of sends says that a
\* withdrawal is broadcast at most once, whoever approves it and however often.
THEOREM PayoutTypes == Spec => []TypeOK
<1>1. Order => TypeOK
  BY DEF Order
<1> QED BY <1>1, PayoutOrder, PTL

-----------------------------------------------------------------------------
(* What the processes have seen when they post. *)

\* Who burns has seen the money go; who marks a withdrawal has posted what it says.
Justified ==
    /\ PaidIsBurnedIsSent
    /\ \A p \in Approvers \cup Watchers :
        /\ pc[p] = "burn" => Sent
        /\ pc[p] = "mark" => "payout" \in posted
    /\ \A h \in Hooks :
        /\ pc[h] \in {"unburn", "reverse"} => "payout" \in posted /\ tx = "reversed"
        /\ pc[h] = "reverse" => "reversal" \in posted

\* What a process saw stays so: no step undoes a posting, and nobody overwrites what
\* became of the money.
LEMMA JustifiedStep == Order /\ Justified /\ [Next]_vars => Justified'
<1> SUFFICES ASSUME Order /\ Justified, [Next]_vars PROVE Justified'
  OBVIOUS
<1> USE ProcsAssumption DEF Goto, Fault, row, money, Procs, Solana, Order, TypeOK,
    Statements, Statuses, Places, ApproverSteps, WatcherSteps,
    RowFirst, OneSend, Sent, Justified, PaidIsBurnedIsSent
<1>1. ASSUME Request(Requester) PROVE Justified'
  BY <1>1 DEF Request, Begins, Post
<1>2. ASSUME Create(Requester) PROVE Justified'
  BY <1>2, OnErrorIs DEF Create, Move, Answered
<1>3. ASSUME Undo(Requester) PROVE Justified'
  BY <1>3 DEF Undo, Post
<1>4. ASSUME NEW a \in Approvers, Approve(a) PROVE Justified'
  BY <1>4 DEF Approve, Begins
<1>5. ASSUME NEW a \in Approvers, Claim(a) PROVE Justified'
  BY <1>5, OnErrorIs DEF Claim, Move, Answered
<1>6. ASSUME NEW a \in Approvers, Sign(a) PROVE Justified'
  BY <1>6, OnErrorIs DEF Sign, Move, Answered
<1>7. ASSUME NEW a \in Approvers, SignFails(a) PROVE Justified'
  BY <1>7 DEF SignFails
<1>8. ASSUME NEW a \in Approvers, Send(a) PROVE Justified'
  BY <1>8 DEF Send
<1>9. ASSUME NEW a \in Approvers, Transfer(a) PROVE Justified'
  BY <1>9 DEF Transfer
<1>10. ASSUME NEW a \in Approvers, TransferRefused(a) PROVE Justified'
  BY <1>10 DEF TransferRefused
<1>11. ASSUME NEW a \in Approvers, TransferUnknown(a) PROVE Justified'
  BY <1>11 DEF TransferUnknown
<1>12. ASSUME NEW w \in Watchers, Confirm(w) PROVE Justified'
  BY <1>12 DEF Confirm, Begins
<1>13. ASSUME NEW w \in Watchers, Reconcile(w) PROVE Justified'
  BY <1>13 DEF Reconcile, Begins, Move
<1>14. ASSUME NEW w \in Watchers, Recover(w) PROVE Justified'
  BY <1>14 DEF Recover, Post
<1>15. ASSUME NEW p \in Approvers \cup Watchers, Burn(p) PROVE Justified'
  BY <1>15, OnErrorIs DEF Burn, Post, Answered
<1>16. ASSUME NEW p \in Approvers \cup Watchers, Mark(p) PROVE Justified'
  BY <1>16 DEF Mark, Move, From
<1>17. ASSUME NEW p \in Approvers \cup Watchers, GiveBack(p) PROVE Justified'
  BY <1>17, OnErrorIs DEF GiveBack, Post, Answered
<1>18. ASSUME NEW p \in Approvers \cup Watchers, Fail(p) PROVE Justified'
  BY <1>18 DEF Fail, Move, From
<1>19. ASSUME NEW j \in Rejecters, Reject(j) PROVE Justified'
  BY <1>19 DEF Reject, Begins
<1>20. ASSUME NEW j \in Rejecters, Return(j) PROVE Justified'
  BY <1>20, OnErrorIs DEF Return, Post, Answered
<1>21. ASSUME NEW j \in Rejecters, MarkRejected(j) PROVE Justified'
  BY <1>21 DEF MarkRejected, Move
<1>22. ASSUME NEW h \in Hooks, ReverseByTransfer(h) PROVE Justified'
  BY <1>22 DEF ReverseByTransfer, Begins
<1>23. ASSUME NEW h \in Hooks, Unburn(h) PROVE Justified'
  BY <1>23, OnErrorIs DEF Unburn, Post, Answered
<1>24. ASSUME NEW h \in Hooks, MarkReversed(h) PROVE Justified'
  BY <1>24 DEF MarkReversed, Move
<1>25. ASSUME NEW p \in Procs, StatementFails(p) PROVE Justified'
  BY <1>25, OnErrorIs DEF StatementFails, Forgotten, Statements
<1>26. ASSUME NEW p \in Procs, Crash(p) PROVE Justified'
  BY <1>26 DEF Crash, Forgotten
<1>27. ASSUME ChainDecides PROVE Justified'
  BY <1>27 DEF ChainDecides
<1>28. ASSUME StripeReverses PROVE Justified'
  BY <1>28 DEF StripeReverses
<1>29. ASSUME GrowsOld PROVE Justified'
  BY <1>29 DEF GrowsOld
<1>30. ASSUME UNCHANGED vars PROVE Justified'
  BY <1>30 DEF vars
<1> QED BY <1>1, <1>2, <1>3, <1>4, <1>5, <1>6, <1>7, <1>8, <1>9, <1>10, <1>11, <1>12,
    <1>13, <1>14, <1>15, <1>16, <1>17, <1>18, <1>19, <1>20, <1>21, <1>22, <1>23, <1>24,
    <1>25, <1>26, <1>27, <1>28, <1>29, <1>30
    DEF Next, Approval, Ends, Watches

\* Processes post only what they have seen reason for.
THEOREM PayoutJustified == Spec => []Justified
<1>1. Init => Justified
  BY ProcsAssumption DEF Init, Justified, PaidIsBurnedIsSent, Sent, Procs
<1> QED BY <1>1, JustifiedStep, PayoutOrder, PTL DEF Spec

\* Coins are burned only for money that was sent, and credited again only when it came back.
THEOREM PayoutBurnsWhatWasSent == Spec => []PaidIsBurnedIsSent
<1>1. Justified => PaidIsBurnedIsSent
  BY DEF Justified
<1> QED BY <1>1, PayoutJustified, PTL

-----------------------------------------------------------------------------
(* When coins are given back, no money was sent, and none can be sent any more. *)

\* What NeverPaidAndReturned excepts did not happen.
Undisputed ==
    ~ Contested /\ NoFault({"create"}) /\ (Solana \/ NoFault({"network"}))

\* No transaction was sent or landed, and whoever may still send one is too late.
Unpayable ==
    \/ tx \in {"refused", "lapsed"}
    \/ /\ tx = "none"
       /\ status = "none" => pc[Requester] # "create"
       /\ status = "requested" => Approvers \cap world.procs = {}
       /\ \A a \in Approvers :
            /\ pc[a] # "transfer"
            /\ pc[a] = "sign" => status # "processing"
            /\ pc[a] = "send" => status # "broadcasted" \/ aged

GivesBack(p) == pc[p] \in {"undo", "giveback", "fail", "recover", "return", "reject"}

ReturnedIsUnpayable ==
    Undisputed =>
        /\ pc[Requester] \in {"create", "undo"} => status = "none"
        /\ "release" \in posted \/ (\E p \in Procs : GivesBack(p)) => Unpayable

\* A watcher gives up on a row that is old or refused, an approval on one that it did
\* not send: from then on no step can send its money.
LEMMA ReturnedIsUnpayableStep == Order /\ Justified /\ ReturnedIsUnpayable /\ [Next]_vars => ReturnedIsUnpayable'
<1> SUFFICES ASSUME Order /\ Justified /\ ReturnedIsUnpayable,
    [Next]_vars PROVE ReturnedIsUnpayable'
  OBVIOUS
<1> USE ProcsAssumption DEF Goto, Fault, row, money, Procs, Solana, Order, TypeOK,
    Statements, Statuses, Places, ApproverSteps, WatcherSteps,
    RowFirst, OneSend, Sent, Undisputed, NoFault, Contested,
    Unpayable, GivesBack, ReturnedIsUnpayable
<1>1. ASSUME Request(Requester) PROVE ReturnedIsUnpayable'
  BY <1>1 DEF Request, Begins, Post
<1>2. ASSUME Create(Requester) PROVE ReturnedIsUnpayable'
  BY <1>2, OnErrorIs DEF Create, Move, Answered
<1>3. ASSUME Undo(Requester) PROVE ReturnedIsUnpayable'
  BY <1>3 DEF Undo, Post
<1>4. ASSUME NEW a \in Approvers, Approve(a) PROVE ReturnedIsUnpayable'
  BY <1>4 DEF Approve, Begins
<1>5. ASSUME NEW a \in Approvers, Claim(a) PROVE ReturnedIsUnpayable'
  BY <1>5, OnErrorIs DEF Claim, Move, Answered
<1>6. ASSUME NEW a \in Approvers, Sign(a) PROVE ReturnedIsUnpayable'
  BY <1>6, OnErrorIs DEF Sign, Move, Answered
<1>7. ASSUME NEW a \in Approvers, SignFails(a) PROVE ReturnedIsUnpayable'
  BY <1>7 DEF SignFails
<1>8. ASSUME NEW a \in Approvers, Send(a) PROVE ReturnedIsUnpayable'
  BY <1>8 DEF Send
<1>9. ASSUME NEW a \in Approvers, Transfer(a) PROVE ReturnedIsUnpayable'
  BY <1>9 DEF Transfer
<1>10. ASSUME NEW a \in Approvers, TransferRefused(a) PROVE ReturnedIsUnpayable'
  BY <1>10 DEF TransferRefused
<1>11. ASSUME NEW a \in Approvers, TransferUnknown(a) PROVE ReturnedIsUnpayable'
  BY <1>11 DEF TransferUnknown
<1>12. ASSUME NEW w \in Watchers, Confirm(w) PROVE ReturnedIsUnpayable'
  BY <1>12 DEF Confirm, Begins
<1>13. ASSUME NEW w \in Watchers, Reconcile(w) PROVE ReturnedIsUnpayable'
  BY <1>13 DEF Reconcile, Begins, Move
<1>14. ASSUME NEW w \in Watchers, Recover(w) PROVE ReturnedIsUnpayable'
  BY <1>14 DEF Recover, Post
<1>15. ASSUME NEW p \in Approvers \cup Watchers, Burn(p) PROVE ReturnedIsUnpayable'
  BY <1>15, OnErrorIs DEF Burn, Post, Answered
<1>16. ASSUME NEW p \in Approvers \cup Watchers, Mark(p) PROVE ReturnedIsUnpayable'
  BY <1>16 DEF Mark, Move, From
<1>17. ASSUME NEW p \in Approvers \cup Watchers, GiveBack(p) PROVE ReturnedIsUnpayable'
  BY <1>17, OnErrorIs DEF GiveBack, Post, Answered
<1>18. ASSUME NEW p \in Approvers \cup Watchers, Fail(p) PROVE ReturnedIsUnpayable'
  BY <1>18 DEF Fail, Move, From
<1>19. ASSUME NEW j \in Rejecters, Reject(j) PROVE ReturnedIsUnpayable'
  BY <1>19 DEF Reject, Begins
<1>20. ASSUME NEW j \in Rejecters, Return(j) PROVE ReturnedIsUnpayable'
  BY <1>20, OnErrorIs DEF Return, Post, Answered
<1>21. ASSUME NEW j \in Rejecters, MarkRejected(j) PROVE ReturnedIsUnpayable'
  BY <1>21 DEF MarkRejected, Move
<1>22. ASSUME NEW h \in Hooks, ReverseByTransfer(h) PROVE ReturnedIsUnpayable'
  BY <1>22 DEF ReverseByTransfer, Begins
<1>23. ASSUME NEW h \in Hooks, Unburn(h) PROVE ReturnedIsUnpayable'
  BY <1>23, OnErrorIs DEF Unburn, Post, Answered
<1>24. ASSUME NEW h \in Hooks, MarkReversed(h) PROVE ReturnedIsUnpayable'
  BY <1>24 DEF MarkReversed, Move
<1>25. ASSUME NEW p \in Procs, StatementFails(p) PROVE ReturnedIsUnpayable'
  BY <1>25, OnErrorIs DEF StatementFails, Forgotten, Statements
<1>26. ASSUME NEW p \in Procs, Crash(p) PROVE ReturnedIsUnpayable'
  BY <1>26 DEF Crash, Forgotten
<1>27. ASSUME ChainDecides PROVE ReturnedIsUnpayable'
  BY <1>27 DEF ChainDecides
<1>28. ASSUME StripeReverses PROVE ReturnedIsUnpayable'
  BY <1>28 DEF StripeReverses
<1>29. ASSUME GrowsOld PROVE ReturnedIsUnpayable'
  BY <1>29 DEF GrowsOld
<1>30. ASSUME UNCHANGED vars PROVE ReturnedIsUnpayable'
  BY <1>30 DEF vars
<1> QED BY <1>1, <1>2, <1>3, <1>4, <1>5, <1>6, <1>7, <1>8, <1>9, <1>10, <1>11, <1>12,
    <1>13, <1>14, <1>15, <1>16, <1>17, <1>18, <1>19, <1>20, <1>21, <1>22, <1>23, <1>24,
    <1>25, <1>26, <1>27, <1>28, <1>29, <1>30
    DEF Next, Approval, Ends, Watches

\* Coins go back only when no transaction can take the money out any more.
THEOREM PayoutReturnsUnpayable == Spec => []ReturnedIsUnpayable
<1>1. Init => ReturnedIsUnpayable
  BY ProcsAssumption DEF Init, ReturnedIsUnpayable, Unpayable, GivesBack, Procs
<1> QED BY <1>1, ReturnedIsUnpayableStep, PayoutOrder, PayoutJustified, PTL DEF Spec

\* Nobody has both the money and the coins, but for a rejection beside an approval, a
\* withdrawal created and undone, and an answer that Stripe lost.
THEOREM PayoutNeverPaidAndReturned == Spec => []NeverPaidAndReturned
<1>1. ReturnedIsUnpayable => NeverPaidAndReturned
  BY DEF ReturnedIsUnpayable, Undisputed, Unpayable, NeverPaidAndReturned, Sent
<1> QED BY <1>1, PayoutReturnsUnpayable, PTL

-----------------------------------------------------------------------------
(* Who remembers the coins in escrow. *)

\* Coins that are neither burned nor returned are those of a withdrawal under way,
\* or in the hands of a process that is about to give them back.
Remembered ==
    NoFault({"strand"}) =>
        /\ \A p \in Procs : pc[p] \in {"fail", "reject"} => "release" \in posted
        /\ "hold" \in posted =>
            \/ posted \cap {"release", "payout"} # {}
            \/ status \in {"requested", "processing", "broadcasted"}
            \/ pc[Requester] \in {"create", "undo"}
            \/ \E w \in Watchers : pc[w] = "recover"

\* Whoever leaves the coins behind has given them back, or an excepted fault struck.
LEMMA RememberedStep == Order /\ Justified /\ Remembered /\ [Next]_vars => Remembered'
<1> SUFFICES ASSUME Order /\ Justified /\ Remembered, [Next]_vars PROVE Remembered'
  OBVIOUS
<1> USE ProcsAssumption DEF Goto, Fault, row, money, Procs, Solana, Order, TypeOK,
    Statements, Statuses, Places, ApproverSteps, WatcherSteps,
    RowFirst, OneSend, Sent, Justified, NoFault, Remembered
<1>1. ASSUME Request(Requester) PROVE Remembered'
  BY <1>1 DEF Request, Begins, Post
<1>2. ASSUME Create(Requester) PROVE Remembered'
  BY <1>2, OnErrorIs DEF Create, Move, Answered
<1>3. ASSUME Undo(Requester) PROVE Remembered'
  BY <1>3 DEF Undo, Post
<1>4. ASSUME NEW a \in Approvers, Approve(a) PROVE Remembered'
  BY <1>4 DEF Approve, Begins
<1>5. ASSUME NEW a \in Approvers, Claim(a) PROVE Remembered'
  BY <1>5, OnErrorIs DEF Claim, Move, Answered
<1>6. ASSUME NEW a \in Approvers, Sign(a) PROVE Remembered'
  BY <1>6, OnErrorIs DEF Sign, Move, Answered
<1>7. ASSUME NEW a \in Approvers, SignFails(a) PROVE Remembered'
  BY <1>7 DEF SignFails
<1>8. ASSUME NEW a \in Approvers, Send(a) PROVE Remembered'
  BY <1>8 DEF Send
<1>9. ASSUME NEW a \in Approvers, Transfer(a) PROVE Remembered'
  BY <1>9 DEF Transfer
<1>10. ASSUME NEW a \in Approvers, TransferRefused(a) PROVE Remembered'
  BY <1>10 DEF TransferRefused
<1>11. ASSUME NEW a \in Approvers, TransferUnknown(a) PROVE Remembered'
  BY <1>11 DEF TransferUnknown
<1>12. ASSUME NEW w \in Watchers, Confirm(w) PROVE Remembered'
  BY <1>12 DEF Confirm, Begins
<1>13. ASSUME NEW w \in Watchers, Reconcile(w) PROVE Remembered'
  BY <1>13 DEF Reconcile, Begins, Move
<1>14. ASSUME NEW w \in Watchers, Recover(w) PROVE Remembered'
  BY <1>14 DEF Recover, Post
<1>15. ASSUME NEW p \in Approvers \cup Watchers, Burn(p) PROVE Remembered'
  BY <1>15, OnErrorIs DEF Burn, Post, Answered
<1>16. ASSUME NEW p \in Approvers \cup Watchers, Mark(p) PROVE Remembered'
  BY <1>16 DEF Mark, Move, From
<1>17. ASSUME NEW p \in Approvers \cup Watchers, GiveBack(p) PROVE Remembered'
  BY <1>17, OnErrorIs DEF GiveBack, Post, Answered
<1>18. ASSUME NEW p \in Approvers \cup Watchers, Fail(p) PROVE Remembered'
  BY <1>18 DEF Fail, Move, From
<1>19. ASSUME NEW j \in Rejecters, Reject(j) PROVE Remembered'
  BY <1>19 DEF Reject, Begins
<1>20. ASSUME NEW j \in Rejecters, Return(j) PROVE Remembered'
  BY <1>20, OnErrorIs DEF Return, Post, Answered
<1>21. ASSUME NEW j \in Rejecters, MarkRejected(j) PROVE Remembered'
  BY <1>21 DEF MarkRejected, Move
<1>22. ASSUME NEW h \in Hooks, ReverseByTransfer(h) PROVE Remembered'
  BY <1>22 DEF ReverseByTransfer, Begins
<1>23. ASSUME NEW h \in Hooks, Unburn(h) PROVE Remembered'
  BY <1>23, OnErrorIs DEF Unburn, Post, Answered
<1>24. ASSUME NEW h \in Hooks, MarkReversed(h) PROVE Remembered'
  BY <1>24 DEF MarkReversed, Move
<1>25. ASSUME NEW p \in Procs, StatementFails(p) PROVE Remembered'
  BY <1>25, OnErrorIs DEF StatementFails, Forgotten, Statements
<1>26. ASSUME NEW p \in Procs, Crash(p) PROVE Remembered'
  BY <1>26 DEF Crash, Forgotten
<1>27. ASSUME ChainDecides PROVE Remembered'
  BY <1>27 DEF ChainDecides
<1>28. ASSUME StripeReverses PROVE Remembered'
  BY <1>28 DEF StripeReverses
<1>29. ASSUME GrowsOld PROVE Remembered'
  BY <1>29 DEF GrowsOld
<1>30. ASSUME UNCHANGED vars PROVE Remembered'
  BY <1>30 DEF vars
<1> QED BY <1>1, <1>2, <1>3, <1>4, <1>5, <1>6, <1>7, <1>8, <1>9, <1>10, <1>11, <1>12,
    <1>13, <1>14, <1>15, <1>16, <1>17, <1>18, <1>19, <1>20, <1>21, <1>22, <1>23, <1>24,
    <1>25, <1>26, <1>27, <1>28, <1>29, <1>30
    DEF Next, Approval, Ends, Watches

\* The coins in escrow are always somebody's to burn or to give back.
THEOREM PayoutRemembers == Spec => []Remembered
<1>1. Init => Remembered
  BY ProcsAssumption DEF Init, Remembered, Procs
<1> QED BY <1>1, RememberedStep, PayoutOrder, PayoutJustified, PTL DEF Spec

\* A withdrawal that is over leaves no coins in escrow, unless nothing remembered them.
THEOREM PayoutSettlesEscrow == Spec => []EscrowSettled
<1>1. Order /\ Remembered => EscrowSettled
  BY DEF Order, Remembered, EscrowSettled, Procs
<1> QED BY <1>1, PayoutOrder, PayoutRemembers, PTL
===============================================================================
