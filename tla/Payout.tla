------------------------------- MODULE Payout -------------------------------
(***************************************************************************)
(* One withdrawal of coins for money, from the hold of the coins to their  *)
(* burning or return: payout.Service over the Stripe rail, whose transfers *)
(* are idempotent and settle at the call, and over the Solana rail, whose  *)
(* transactions are neither.  The coins are held in the escrow wallet that *)
(* the matches use, so it can pay whatever is asked of it; postings happen *)
(* at most once per key (AtomicLedger).  The rows are claimed by updates   *)
(* that name the status they leave.                                        *)
(*                                                                         *)
(* Policy checks (clearing, caps, flags, breaker, funding) are refusals    *)
(* that change nothing, and are left out.  The chain is asked and the age  *)
(* of the row compared in one step: a stall between the two is assumed to  *)
(* be shorter than the 90 s by which deadBroadcastWindow exceeds the life  *)
(* of a blockhash.                                                         *)
(***************************************************************************)
EXTENDS Integers, FiniteSets

CONSTANTS
    Requester,  \* the request that files the withdrawal
    Approvers,  \* approvals: by administrators, or after account.updated
    Rejecters,  \* rejections
    Watchers,   \* server processes, each with a confirmation watcher
    Hooks,      \* deliveries of Stripe's transfer.reversed
    Worlds      \* the rail, who is there, and what may go wrong

\* Each happens at most once.  "crash": a process dies.  "database": a statement fails,
\* or only its answer is lost.  "network": an answer of Stripe, or of the chain before
\* anything is signed, is lost.  "create": the insert of the withdrawal commits and is
\* answered with an error.  "strand": a failure at one of the places where nothing
\* remembers that the coins are to be given back.
FaultKinds == {"crash", "database", "network", "create", "strand"}
Procs == {Requester} \cup Approvers \cup Rejecters \cup Watchers \cup Hooks

ASSUME WorldsAssumption ==
    Worlds \subseteq [chain : {"stripe", "solana"}, procs : SUBSET Procs,
                      faults : SUBSET FaultKinds]
ASSUME ProcsAssumption ==
    /\ Requester \notin Approvers \cup Rejecters \cup Watchers \cup Hooks
    /\ Approvers \cap (Rejecters \cup Watchers \cup Hooks) = {}
    /\ Watchers \cap (Rejecters \cup Hooks) = {} /\ Rejecters \cap Hooks = {}

VARIABLES
    world, failed,  \* this behaviour's world, and what went wrong so far
    status,         \* withdrawals.status; "none" while there is no row
    aged,           \* it has been so for longer than the sweeps' grace
    posted,         \* the ledger's keys of this withdrawal
    tx, sends,      \* what became of the money, and how often a transaction was sent
    pc              \* the next step of each process

vars == <<world, failed, status, aged, posted, tx, sends, pc>>
row == <<status, aged>>
money == <<tx, sends>>

Statuses == {"none", "requested", "processing", "broadcasted", "paid", "failed",
             "rejected", "reversed"}

\* Statements, which can fail; and the calls of a rail.
Statements == {"create", "undo", "claim", "sign", "burn", "mark", "giveback", "fail",
               "return", "reject", "recover", "unburn", "reverse"}
Steps == Statements \cup {"idle", "send", "transfer"}

Solana == world.chain = "solana"

-----------------------------------------------------------------------------
(* Helpers *)

Fault(kind) ==
    /\ kind \in world.faults \ failed
    /\ failed' = failed \cup {kind}

Goto(p, step) == pc' = [pc EXCEPT ![p] = step]

Begins(p) == p \in world.procs /\ pc[p] = "idle"

Post(key) == posted' = posted \cup {key} /\ UNCHANGED row

\* SetStatus: from one status to another, or nothing.
Move(from, to) ==
    /\ IF status = from THEN status' = to /\ aged' = FALSE ELSE UNCHANGED row
    /\ UNCHANGED posted

\* The status in which p found the row that it resolves.
From(p) == IF p \in Watchers THEN "broadcasted"
           ELSE IF Solana THEN "processing" ELSE "requested"

\* Slip: a watcher gives up on coins it could not release, as an approval does.
OnErrorCareless(p) ==
    CASE pc[p] = "create"   -> "undo"
      [] pc[p] = "sign"     -> "giveback"
      [] pc[p] = "giveback" -> "fail"
      [] OTHER              -> "idle"

\* Where p goes on when a statement is answered with an error.  An approval ignores
\* the error of Release; a watcher leaves the row for its next pass.
OnError(p) ==
    CASE pc[p] = "create"                       -> "undo"
      [] pc[p] = "sign"                         -> "giveback"
      [] pc[p] = "giveback" /\ p \in Approvers  -> "fail"
      [] OTHER                                  -> "idle"

\* The statement took effect; its answer may be lost.
Answered(p, step, kind) ==
    \/ Goto(p, step) /\ UNCHANGED failed
    \/ Goto(p, OnError(p)) /\ Fault(kind)

-----------------------------------------------------------------------------
(* Request *)

\* Hold (and before it the sweep of the owner's treasury into the agent's wallet).
Request(r) ==
    /\ Begins(r) /\ status = "none" /\ posted = {}
    /\ Post("hold")
    /\ \/ Goto(r, "create") /\ UNCHANGED failed
       \/ Fault("strand") /\ UNCHANGED pc
    /\ UNCHANGED <<world, money>>

Create(r) ==
    /\ pc[r] = "create"
    /\ Move("none", "requested")
    /\ Answered(r, "idle", "create")
    /\ UNCHANGED <<world, money>>

\* The row could not be inserted.
Undo(r) ==
    /\ pc[r] = "undo"
    /\ Post("release")
    /\ Goto(r, "idle")
    /\ UNCHANGED <<world, failed, money>>

-----------------------------------------------------------------------------
(* Approve *)

Approve(a) ==
    /\ Begins(a) /\ status = "requested"
    /\ Goto(a, IF Solana THEN "claim" ELSE "transfer")
    /\ UNCHANGED <<world, failed, row, posted, money>>

\* Slip: the result of the update is not looked at.
ClaimUnchecked(a) ==
    /\ pc[a] = "claim"
    /\ Move("requested", "processing")
    /\ Answered(a, "sign", "database")
    /\ UNCHANGED <<world, money>>

\* Only one approval claims the row.
Claim(a) ==
    /\ pc[a] = "claim"
    /\ Move("requested", "processing")
    /\ IF status = "requested" THEN Answered(a, "sign", "database")
                               ELSE Goto(a, "idle") /\ UNCHANGED failed
    /\ UNCHANGED <<world, money>>

\* Sign, and record the signature before anything is sent.
Sign(a) ==
    /\ pc[a] = "sign"
    /\ Move("processing", "broadcasted")
    /\ IF status = "processing" THEN Answered(a, "send", "database")
                                ELSE Goto(a, "giveback") /\ UNCHANGED failed
    /\ UNCHANGED <<world, money>>

\* No blockhash to sign with.
SignFails(a) ==
    /\ pc[a] = "sign"
    /\ Fault("network")
    /\ Goto(a, "giveback")
    /\ UNCHANGED <<world, row, posted, money>>

\* Whatever the send returns, the chain decides.  A send that comes too late carries
\* a blockhash that is no longer valid.
Send(a) ==
    /\ pc[a] = "send"
    /\ tx' = IF status = "broadcasted" /\ ~ aged THEN "sent" ELSE "lapsed"
    /\ sends' = sends + 1
    /\ Goto(a, "idle")
    /\ UNCHANGED <<world, failed, row, posted>>

\* Stripe repeats its first answer to a key that it has seen.
Transfer(a) ==
    /\ pc[a] = "transfer"
    /\ tx \in {"none", "landed", "reversed"}
    /\ tx' = IF tx = "none" THEN "landed" ELSE tx
    /\ Goto(a, "burn")
    /\ UNCHANGED <<world, failed, row, posted, sends>>

TransferRefused(a) ==
    /\ pc[a] = "transfer"
    /\ tx \in {"none", "refused"}
    /\ tx' = "refused"
    /\ Goto(a, "giveback")
    /\ UNCHANGED <<world, failed, row, posted, sends>>

\* The answer is lost: an error like any other for approveStripe.
TransferUnknown(a) ==
    /\ pc[a] = "transfer"
    /\ Fault("network")
    /\ tx' \in {tx, IF tx = "none" THEN "landed" ELSE tx}
    /\ Goto(a, "giveback")
    /\ UNCHANGED <<world, row, posted, sends>>

-----------------------------------------------------------------------------
(* The end of a withdrawal, by an approval or by a watcher *)

Burn(p) ==
    /\ pc[p] = "burn"
    /\ Post("payout")
    /\ Answered(p, "mark", "database")
    /\ UNCHANGED <<world, money>>

Mark(p) ==
    /\ pc[p] = "mark"
    /\ Move(From(p), "paid")
    /\ Goto(p, "idle")
    /\ UNCHANGED <<world, failed, money>>

GiveBack(p) ==
    /\ pc[p] = "giveback"
    /\ Post("release")
    /\ Answered(p, "fail", "database")
    /\ UNCHANGED <<world, money>>

\* Slip: a status of its own, that nothing lists.
FailAsBounced(p) ==
    /\ pc[p] = "fail"
    /\ Move(From(p), "bounced")
    /\ Goto(p, "idle")
    /\ UNCHANGED <<world, failed, money>>

Fail(p) ==
    /\ pc[p] = "fail"
    /\ Move(From(p), "failed")
    /\ Goto(p, "idle")
    /\ UNCHANGED <<world, failed, money>>

-----------------------------------------------------------------------------
(* Watchers *)

\* Slip: what has not failed on the chain counts as paid.
ConfirmOptimistic(w) ==
    /\ Begins(w) /\ Solana /\ status = "broadcasted"
    /\ Goto(w, IF tx = "refused" THEN "giveback" ELSE "burn")
    /\ UNCHANGED <<world, failed, row, posted, money>>

\* Slip: a transaction that is not there yet is waited for.
ConfirmPatient(w) ==
    /\ Begins(w) /\ Solana /\ status = "broadcasted"
    /\ tx \in {"landed", "refused"}
    /\ Goto(w, IF tx = "landed" THEN "burn" ELSE "giveback")
    /\ UNCHANGED <<world, failed, row, posted, money>>

\* ConfirmBroadcasted: finalized well, finalized badly, or not seen for too long.
Confirm(w) ==
    /\ Begins(w) /\ Solana /\ status = "broadcasted"
    /\ \/ tx = "landed" /\ Goto(w, "burn")
       \/ tx = "refused" /\ Goto(w, "giveback")
       \/ tx \notin {"landed", "refused"} /\ aged /\ Goto(w, "giveback")
    /\ UNCHANGED <<world, failed, row, posted, money>>

\* ReconcileStuckProcessing: never sent, so fail it, and then release the coins.
Reconcile(w) ==
    /\ Begins(w) /\ Solana /\ status = "processing" /\ aged
    /\ Move("processing", "failed")
    /\ \/ Goto(w, "recover") /\ UNCHANGED failed
       \/ Fault("strand") /\ UNCHANGED pc
    /\ UNCHANGED <<world, money>>

Recover(w) ==
    /\ pc[w] = "recover"
    /\ Post("release")
    /\ Goto(w, "idle")
    /\ UNCHANGED <<world, failed, money>>

-----------------------------------------------------------------------------
(* Reject, and transfers that Stripe takes back *)

Reject(j) ==
    /\ Begins(j) /\ status = "requested"
    /\ Goto(j, "return")
    /\ UNCHANGED <<world, failed, row, posted, money>>

Return(j) ==
    /\ pc[j] = "return"
    /\ Post("release")
    /\ Answered(j, "reject", "database")
    /\ UNCHANGED <<world, money>>

MarkRejected(j) ==
    /\ pc[j] = "reject"
    /\ Move("requested", "rejected")
    /\ Goto(j, "idle")
    /\ UNCHANGED <<world, failed, money>>

\* ReverseByTransfer ignores a withdrawal that is not paid.
ReverseByTransfer(h) ==
    /\ Begins(h) /\ ~ Solana /\ tx = "reversed" /\ status = "paid"
    /\ Goto(h, "unburn")
    /\ UNCHANGED <<world, failed, row, posted, money>>

Unburn(h) ==
    /\ pc[h] = "unburn"
    /\ Post("reversal")
    /\ Answered(h, "reverse", "database")
    /\ UNCHANGED <<world, money>>

MarkReversed(h) ==
    /\ pc[h] = "reverse"
    /\ Move("paid", "reversed")
    /\ Goto(h, "idle")
    /\ UNCHANGED <<world, failed, money>>

-----------------------------------------------------------------------------
(* What goes wrong, and what happens outside *)

\* Where an error or a crash leaves coins that nobody will give back.
Forgotten(p) == pc[p] \in {"undo", "recover"}

StatementFails(p) ==
    /\ pc[p] \in Statements
    /\ Fault(IF Forgotten(p) \/ (pc[p] = "giveback" /\ p \in Approvers)
             THEN "strand" ELSE "database")
    /\ Goto(p, OnError(p))
    /\ UNCHANGED <<world, row, posted, money>>

Crash(p) ==
    /\ pc[p] # "idle"
    /\ Fault(IF Forgotten(p) \/ pc[p] = "create" THEN "strand" ELSE "crash")
    /\ Goto(p, "idle")
    /\ UNCHANGED <<world, row, posted, money>>

\* A transaction is final, or its blockhash has lapsed, long before its row is old.
ChainDecides ==
    /\ tx = "sent"
    /\ tx' \in {"landed", "refused", "lapsed"}
    /\ UNCHANGED <<world, failed, row, posted, sends, pc>>

StripeReverses ==
    /\ ~ Solana /\ tx = "landed"
    /\ tx' = "reversed"
    /\ UNCHANGED <<world, failed, row, posted, sends, pc>>

GrowsOld ==
    /\ status \in {"processing", "broadcasted"} /\ ~ aged /\ tx # "sent"
    /\ aged' = TRUE
    /\ UNCHANGED <<world, failed, status, posted, money, pc>>

-----------------------------------------------------------------------------
(* Specification *)

Init ==
    /\ world \in Worlds
    /\ failed = {}
    /\ status = "none" /\ aged = FALSE
    /\ posted = {}
    /\ tx = "none" /\ sends = 0
    /\ pc = [p \in Procs |-> "idle"]

Approval(a) ==
    \/ Approve(a) \/ Claim(a) \/ Sign(a) \/ SignFails(a) \/ Send(a)
    \/ Transfer(a) \/ TransferRefused(a) \/ TransferUnknown(a)

Ends(p) == Burn(p) \/ Mark(p) \/ GiveBack(p) \/ Fail(p)

Watches(w) == Confirm(w) \/ Reconcile(w) \/ Recover(w)

Next ==
    \/ Request(Requester) \/ Create(Requester) \/ Undo(Requester)
    \/ \E a \in Approvers : Approval(a)
    \/ \E w \in Watchers : Watches(w)
    \/ \E p \in Approvers \cup Watchers : Ends(p)
    \/ \E j \in Rejecters : Reject(j) \/ Return(j) \/ MarkRejected(j)
    \/ \E h \in Hooks : ReverseByTransfer(h) \/ Unburn(h) \/ MarkReversed(h)
    \/ \E p \in Procs : StatementFails(p) \/ Crash(p)
    \/ ChainDecides \/ StripeReverses \/ GrowsOld

Spec == Init /\ [][Next]_vars

\* Watchers tick, the chain decides, time passes.
FairSpec ==
    /\ Spec
    /\ \A w \in Watchers : WF_vars(Watches(w) \/ Ends(w))
    /\ WF_vars(ChainDecides) /\ WF_vars(GrowsOld)

-----------------------------------------------------------------------------
(* Properties *)

NoFault(kinds) == failed \cap kinds = {}

\* An approval and a rejection of one withdrawal, at one time or after a crash.
Contested == Approvers \cap world.procs # {} /\ Rejecters \cap world.procs # {}

Sent == tx \in {"landed", "reversed"}

\* Types; and no withdrawal is broadcast twice (the 'processing' claim).
TypeOK ==
    /\ world \in Worlds /\ failed \subseteq world.faults
    /\ status \in Statuses /\ aged \in BOOLEAN
    /\ posted \subseteq {"hold", "release", "payout", "reversal"}
    /\ tx \in {"none", "sent", "landed", "refused", "lapsed", "reversed"}
    /\ sends \in 0 .. 1
    /\ pc \in [Procs -> Steps]

\* Nobody has both the money and the coins: approvals that race, crash or are repeated,
\* and sweeps that take a slow one for dead, never return the coins of money that was
\* or will be sent.  Excepted are a rejection beside an approval, a withdrawal that
\* was created and undone, and on Stripe a transfer whose answer was lost.
NeverPaidAndReturned ==
    (~ Contested /\ NoFault({"create"}) /\ (Solana \/ NoFault({"network"})))
        => ~ (Sent /\ "release" \in posted)

\* Coins are burned only for money that was sent, a paid withdrawal is burned, and
\* only what was burned, and came back, is credited again.
PaidIsBurnedIsSent ==
    /\ "payout" \in posted => Sent
    /\ status \in {"paid", "reversed"} => "payout" \in posted
    /\ status = "reversed" => "reversal" \in posted
    /\ "reversal" \in posted => "payout" \in posted /\ tx = "reversed"

\* A withdrawal that is over, or never came to be, leaves no coins in escrow, in spite
\* of crashes and failed statements everywhere but where nothing remembers them.
EscrowSettled ==
    (/\ status \notin {"requested", "processing", "broadcasted"}
     /\ \A p \in Procs : pc[p] = "idle"
     /\ "hold" \in posted /\ NoFault({"strand"}))
        => posted \cap {"release", "payout"} # {}

\* A withdrawal that was claimed is resolved, whatever became of the approval.
EventuallyResolved ==
    status \in {"processing", "broadcasted"} ~> status \in {"paid", "failed"}

\* "Escrow terminal states mutually exclusive" (WALLET_SECURITY_AUDIT.md): the held
\* coins are burned, or they are returned.
BurnedOrReturned == ~ ({"payout", "release"} \subseteq posted)
=============================================================================
