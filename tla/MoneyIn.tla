------------------------------- MODULE MoneyIn -------------------------------
(***************************************************************************)
(* How coins come in, and go back, on two rails.                           *)
(*                                                                         *)
(* Solana: a poller in every process looks at the open deposit sessions    *)
(* and at the chain.  A transfer that is final and sufficient is credited  *)
(* under a key of its own, then recorded; a session too old expires.       *)
(*                                                                         *)
(* Stripe: webhooks come late, twice, in any order, or never.  Each is     *)
(* stored, processed and marked; a reconciler replays what is stored and   *)
(* not marked, and credits the paid checkouts Stripe still lists.  A       *)
(* completed checkout may not be paid yet, and then credits nothing.  A    *)
(* refund claws coins back up to its cumulative level, from the treasury   *)
(* as far as it goes, the rest as debt of the agent the checkout named.    *)
(*                                                                         *)
(* The ledger is what Ledger.tla shows it to be: a transaction takes       *)
(* effect at once, once per key, and overdraws nobody.                     *)
(***************************************************************************)
EXTENDS Integers, FiniteSets, FiniteSetsExt

CONSTANTS
    Sessions, Transfers, ForSession,    \* deposit sessions, transfers and their reference
    Short,                              \* the transfers of less than the amount
    Purchases, Coins,                   \* checkouts, and the coins each buys
    Workers,                            \* pollers and webhook handlers
    Situations,                         \* the situations considered
    MaxFaults                           \* bound on what goes wrong in one behaviour

ASSUME MoneyAssumption ==
    /\ ForSession \in [Transfers -> Sessions] /\ Short \subseteq Transfers
    /\ Transfers \cap Purchases = {}
    /\ Coins \in Nat \ {0} /\ MaxFaults \in Nat
\* What tells of a checkout: its completion, paid or not yet, or its later settlement.
TopupKinds == {"unpaid", "completed", "settled"}

\* A situation: the transfers and checkouts made, the events that tell of a checkout,
\* the coins' worth refunded at most, the checkouts that named an agent, and whether
\* sessions and paid checkouts are looked at while they are young enough.
ASSUME SituationsAssumption ==
    Situations \subseteq [transfers : SUBSET Transfers, purchases : SUBSET Purchases,
                          kinds : SUBSET TopupKinds, refunds : 0 .. Coins,
                          named : SUBSET Purchases, workers : SUBSET Workers, prompt : BOOLEAN]

VARIABLES
    world,      \* the situation of this behaviour; never changes
    faults,     \* how much went wrong so far
    session,    \* deposit_sessions: the status
    age,        \* per session: see Age
    heard,      \* per session: it was looked at since it aged, and nothing was left to credit
    transfer,   \* the chain
    deposits,   \* solana_deposits: the transfers recorded
    paid,       \* the checkouts whose payment settled
    refund,     \* per checkout: the coins' worth refunded, cumulative
    unlisted,   \* the checkouts too old, or too many, for Stripe's list of recent ones
    emitted,    \* the events Stripe has sent
    log,        \* stripe_events
    bought,     \* coin_purchases: the checkouts recorded
    reversed,   \* ... and the level each is clawed back to
    journal,    \* ledger_txns: [key, of, coins, short] of both rails
    treasury,   \* the owner's wallet
    debt,       \* the owner's recorded debt
    job,        \* per worker: what it is doing
    astray      \* history: what a fault cut off, or a refund missed

chainVars == <<session, age, heard, transfer, deposits>>
stripeVars == <<paid, refund, unlisted, emitted, log, bought, reversed>>
ledgerVars == <<journal, treasury, debt>>
vars == <<world, faults, chainVars, stripeVars, ledgerVars, job, astray>>

Idle == [pc |-> "idle"]
Topups == [of : Purchases, kind : TopupKinds, level : {0}]
Refunds == [of : Purchases, kind : {"refund"}, level : 1 .. Coins]
Events == Topups \cup Refunds

-----------------------------------------------------------------------------
(* Helpers *)

Goto(w, step) == job' = [job EXCEPT ![w].pc = step]
Done(w) == job' = [job EXCEPT ![w] = Idle]

Keys == {j.key : j \in journal}

\* topup:{session}, whichever event or reconciliation brings it.
TopupKey(p) == <<"topup", p>>

DepositKey(x) == <<"solana", x>>
ReversalKey(p, level) == <<"reversal", p, level>>

\* Coins from the clearing account to the treasury.
Credit(key, of) ==
    IF key \in Keys THEN UNCHANGED ledgerVars
    ELSE /\ journal' = journal \cup {[key |-> key, of |-> of, coins |-> Coins, short |-> 0]}
         /\ treasury' = treasury + Coins
         /\ UNCHANGED debt

IsOpen(s) == session[s] \in {"pending", "detected"}

\* processSession: finalized, of the session's reference, and enough.
Creditable(s) == {x \in Transfers \ Short : ForSession[x] = s /\ transfer[x] = "final"}

InFlight(s) == \E x \in Transfers : ForSession[x] = s /\ transfer[x] = "sent"

\* Slip: a session in flight gets no more time than others.
ExpiresAtOnce(status, a) == a >= 2

\* shouldExpire: 15 minutes of grace, or a day for a transfer in flight.
Expires(status, a) == IF status = "detected" THEN a = 3 ELSE a >= 2

\* Slip: a session expires even if another poller has just completed it.
ExpiredAnyway(s) == "expired"

\* ExpireSession: an open session only.
Expired(s) == IF IsOpen(s) THEN "expired" ELSE session[s]

-----------------------------------------------------------------------------
(* The chain, and time *)

Init ==
    /\ world \in Situations
    /\ faults = 0
    /\ session = [s \in Sessions |-> "none"]
    /\ age = [s \in Sessions |-> 0]
    /\ heard = [s \in Sessions |-> FALSE]
    /\ transfer = [x \in Transfers |-> "none"]
    /\ deposits = {}
    /\ paid = {}
    /\ refund = [p \in Purchases |-> 0]
    /\ unlisted = {}
    /\ emitted = {}
    /\ log = [e \in Events |-> "none"]
    /\ bought = {}
    /\ reversed = [p \in Purchases |-> 0]
    /\ journal = {}
    /\ treasury = 0
    /\ debt = 0
    /\ job = [w \in Workers |-> Idle]
    /\ astray = {}

\* Create: a session, and the payment request it shows.
Create(s) ==
    /\ session[s] = "none" /\ \E x \in world.transfers : ForSession[x] = s
    /\ session' = [session EXCEPT ![s] = "pending"]
    /\ UNCHANGED <<world, faults, age, heard, transfer, deposits, stripeVars, ledgerVars, job, astray>>

\* The owner pays while the request is shown.
Pay(x) ==
    /\ x \in world.transfers /\ transfer[x] = "none"
    /\ session[ForSession[x]] # "none" /\ age[ForSession[x]] = 0
    /\ transfer' = [transfer EXCEPT ![x] = "sent"]
    /\ UNCHANGED <<world, faults, session, age, heard, deposits, stripeVars, ledgerVars, job, astray>>

\* The chain finalizes it, or drops it in a reorganization.
Resolve(x, how) ==
    /\ transfer[x] = "sent"
    /\ transfer' = [transfer EXCEPT ![x] = how]
    /\ heard' = [heard EXCEPT ![ForSession[x]] = FALSE]
    /\ UNCHANGED <<world, faults, session, age, deposits, stripeVars, ledgerVars, job, astray>>

Looking(s) == \E w \in Workers : job[w] # Idle /\ job[w].of = s

\* A session's age: within its window (0), in the grace of a pending one (1), in the
\* day of a detected one (2), beyond (3).  In a prompt situation none ages past a
\* grace without a look, and no transfer takes a day.
Age(s) ==
    /\ session[s] # "none" /\ age[s] < 3
    /\ world.prompt /\ age[s] > 0 /\ IsOpen(s) => heard[s] /\ ~ Looking(s)
    /\ world.prompt /\ age[s] = 2 => ~ InFlight(s)
    /\ age' = [age EXCEPT ![s] = @ + 1]
    /\ heard' = [heard EXCEPT ![s] = FALSE]
    /\ UNCHANGED <<world, faults, session, transfer, deposits, stripeVars, ledgerVars, job, astray>>

-----------------------------------------------------------------------------
(* Poll, one session at a time *)

\* The session as OpenSessions returns it.
Open(w, s) ==
    /\ w \in world.workers /\ job[w] = Idle /\ IsOpen(s)
    /\ job' = [job EXCEPT ![w] = [pc |-> "look", of |-> s, seen |-> session[s]]]
    /\ UNCHANGED <<world, faults, chainVars, stripeVars, ledgerVars, astray>>

\* Too old: it expires, if it is still open.
Expire(w) ==
    LET s == job[w].of IN
    /\ job[w].pc = "look" /\ Expires(job[w].seen, age[s])
    /\ session' = [session EXCEPT ![s] = Expired(s)]
    /\ Done(w)
    /\ UNCHANGED <<world, faults, age, heard, transfer, deposits, stripeVars, ledgerVars, astray>>

\* The chain is asked for the session's transfers.
Look(w) ==
    LET s == job[w].of IN
    /\ job[w].pc = "look" /\ ~ Expires(job[w].seen, age[s])
    /\ \/ \E x \in Creditable(s) :
          /\ job' = [job EXCEPT ![w] = [pc |-> "credit", of |-> s, what |-> x]]
          /\ UNCHANGED heard
       \/ /\ Creditable(s) = {} /\ InFlight(s)
          /\ Goto(w, "detect")
          /\ UNCHANGED heard
       \/ /\ Creditable(s) = {} /\ ~ InFlight(s)
          /\ Done(w)
          /\ heard' = [heard EXCEPT ![s] = TRUE]
    /\ UNCHANGED <<world, faults, session, age, transfer, deposits, stripeVars, ledgerVars, astray>>

\* MarkDetected: a pending session only.
Detect(w) ==
    LET s == job[w].of IN
    /\ job[w].pc = "detect"
    /\ session' = IF session[s] = "pending" THEN [session EXCEPT ![s] = "detected"] ELSE session
    /\ heard' = [heard EXCEPT ![s] = InFlight(s)]
    /\ Done(w)
    /\ UNCHANGED <<world, faults, age, transfer, deposits, stripeVars, ledgerVars, astray>>

\* CreditDeposit, fee and all.
CreditDeposit(w) ==
    /\ job[w].pc = "credit"
    /\ Credit(DepositKey(job[w].what), job[w].what)
    /\ Goto(w, "complete")
    /\ UNCHANGED <<world, faults, chainVars, stripeVars, astray>>

\* CompleteCredit: the deposit, once, and the session, whatever its status.
Complete(w) ==
    /\ job[w].pc = "complete"
    /\ deposits' = deposits \cup {job[w].what}
    /\ session' = [session EXCEPT ![job[w].of] = "completed"]
    /\ Done(w)
    /\ UNCHANGED <<world, faults, age, heard, transfer, stripeVars, ledgerVars, astray>>

-----------------------------------------------------------------------------
(* Stripe *)

Telling(p, kinds) == {[of |-> p, kind |-> k, level |-> 0] : k \in kinds}

\* A checkout is completed before its payment, an asynchronous one, is settled.
CheckOut(p) ==
    /\ "unpaid" \in world.kinds /\ p \in world.purchases \ paid
    /\ emitted' = emitted \cup Telling(p, {"unpaid"})
    /\ UNCHANGED <<world, faults, chainVars, paid, refund, unlisted, log, bought, reversed, ledgerVars, job, astray>>

\* A payment settles: as a completed checkout, or later if it is asynchronous, or both.
Settle(p) ==
    /\ p \in world.purchases \ paid
    /\ "unpaid" \in world.kinds => Telling(p, {"unpaid"}) \subseteq emitted
    /\ paid' = paid \cup {p}
    /\ emitted' = emitted \cup Telling(p, world.kinds \ {"unpaid"})
    /\ UNCHANGED <<world, faults, chainVars, refund, unlisted, log, bought, reversed, ledgerVars, job, astray>>

\* ListRecentCheckouts: a checkout drops out of the list a day after it was opened, paid
\* or not, or behind a hundred others.  In a prompt situation none drops out before it is
\* credited, and then it may as well stay.
Unlist(p) ==
    /\ ~ world.prompt /\ p \in world.purchases \ unlisted
    /\ TopupKey(p) \notin Keys
    /\ unlisted' = unlisted \cup {p}
    /\ UNCHANGED <<world, faults, chainVars, paid, refund, emitted, log, bought, reversed, ledgerVars, job, astray>>

\* One coin's worth more goes back to the buyer.
RefundMore(p) ==
    /\ p \in paid /\ refund[p] < world.refunds
    /\ refund' = [refund EXCEPT ![p] = @ + 1]
    /\ emitted' = emitted \cup {[of |-> p, kind |-> "refund", level |-> refund[p] + 1]}
    /\ UNCHANGED <<world, faults, chainVars, paid, unlisted, log, bought, reversed, ledgerVars, job, astray>>

\* The owner spends.
Spend ==
    /\ treasury > 0
    /\ treasury' = treasury - 1
    /\ UNCHANGED <<world, faults, chainVars, stripeVars, journal, debt, job, astray>>

\* Slip: a completed checkout is taken to be paid.
ProcessUnsettled(w, e) ==
    job' = [job EXCEPT ![w] = [pc |-> IF e.kind = "refund" THEN "find" ELSE "topup", of |-> e.of, event |-> e]]

\* process: a completed checkout whose payment has not settled is skipped.
Process(w, e) ==
    job' = [job EXCEPT ![w] =
        [pc |-> CASE e.kind = "refund" -> "find"
                  [] e.kind = "unpaid" -> "mark"
                  [] OTHER -> "topup",
         of |-> e.of, event |-> e]]

\* HandleWebhook: the event is stored, and processed even when it was before.
Deliver(w, e) ==
    /\ w \in world.workers /\ job[w] = Idle /\ e \in emitted
    /\ log' = IF log[e] = "none" THEN [log EXCEPT ![e] = "stored"] ELSE log
    /\ Process(w, e)
    /\ UNCHANGED <<world, faults, chainVars, paid, refund, unlisted, emitted, bought, reversed, ledgerVars, astray>>

\* Reconcile, first half: the stored events that are not marked.
Replay(w, e) ==
    /\ w \in world.workers /\ job[w] = Idle /\ log[e] = "stored"
    /\ Process(w, e)
    /\ UNCHANGED <<world, faults, chainVars, stripeVars, ledgerVars, astray>>

\* ... second half: the paid checkouts Stripe lists.  The purchase is not recorded.
Reconcile(p) ==
    /\ p \in paid \ unlisted /\ TopupKey(p) \notin Keys
    /\ Credit(TopupKey(p), p)
    /\ UNCHANGED <<world, faults, chainVars, stripeVars, job, astray>>

Topup(w) ==
    /\ job[w].pc = "topup"
    /\ Credit(TopupKey(job[w].of), job[w].of)
    /\ Goto(w, "record")
    /\ UNCHANGED <<world, faults, chainVars, stripeVars, astray>>

RecordPurchase(w) ==
    /\ job[w].pc = "record"
    /\ bought' = bought \cup {job[w].of}
    /\ Goto(w, "mark")
    /\ UNCHANGED <<world, faults, chainVars, paid, refund, unlisted, emitted, log, reversed, ledgerVars, astray>>

\* A refund of a purchase not recorded, yet or ever, is done with.
Find(w) ==
    /\ job[w].pc = "find"
    /\ IF job[w].of \in bought
       THEN Goto(w, "level") /\ UNCHANGED astray
       ELSE Goto(w, "mark") /\ astray' = astray \cup {job[w].event}
    /\ UNCHANGED <<world, faults, chainVars, stripeVars, ledgerVars>>

Holding(p) == {w \in Workers : job[w].pc \in {"claw", "owe", "save"} /\ job[w].of = p}

\* Slip: the level is read without the row's lock.
MayReverseUnlocked(p) == TRUE

MayReverse(p) == Holding(p) = {}

\* ReverseToLevel: the row is locked and its level read; Reverse reads the balance.
Level(w) ==
    LET e == job[w].event IN
    /\ job[w].pc = "level" /\ MayReverse(e.of)
    /\ IF e.level <= reversed[e.of] THEN Goto(w, "mark")
       ELSE job' = [job EXCEPT ![w] = [pc |-> "claw", of |-> e.of, event |-> e,
                                       delta |-> e.level - reversed[e.of], balance |-> treasury]]
    /\ UNCHANGED <<world, faults, chainVars, stripeVars, ledgerVars, astray>>

\* Reverse: what the balance it read covers, the rest as bad debt, which an agent owes if
\* the checkout named one; refused if the owner has spent in between, and the event is
\* left for a redelivery.
Claw(w) ==
    LET e == job[w].event
        key == ReversalKey(e.of, e.level)
        covered == Min({job[w].delta, job[w].balance})
        short == job[w].delta - covered
    IN  /\ job[w].pc = "claw"
        /\ IF key \in Keys
           THEN UNCHANGED ledgerVars /\ Goto(w, "save")
           ELSE IF covered > treasury THEN UNCHANGED ledgerVars /\ Done(w)
           ELSE /\ journal' = journal \cup {[key |-> key, of |-> e.of, coins |-> - covered, short |-> short]}
                /\ treasury' = treasury - covered
                /\ IF short = 0 \/ e.of \notin world.named THEN Goto(w, "save")
                   ELSE job' = [job EXCEPT ![w] = [pc |-> "owe", of |-> e.of, event |-> e, short |-> short]]
                /\ UNCHANGED debt
        /\ UNCHANGED <<world, faults, chainVars, stripeVars, astray>>

\* RecordDebt, within the same transaction's function, but outside the ledger.
Owe(w) ==
    /\ job[w].pc = "owe"
    /\ debt' = debt + job[w].short
    /\ Goto(w, "save")
    /\ UNCHANGED <<world, faults, chainVars, stripeVars, journal, treasury, astray>>

\* bestEffortDebt: tried again after an error, three times at most, and then dropped;
\* an attempt that failed may have been committed.
OweFails(w) ==
    /\ job[w].pc = "owe" /\ faults < MaxFaults /\ faults' = faults + 1
    /\ \E times \in 0 .. 3 : debt' = debt + times * job[w].short
    /\ astray' = astray \cup {job[w].of}
    /\ Goto(w, "save")
    /\ UNCHANGED <<world, chainVars, stripeVars, journal, treasury>>

Save(w) ==
    /\ job[w].pc = "save"
    /\ reversed' = [reversed EXCEPT ![job[w].of] = job[w].event.level]
    /\ Goto(w, "mark")
    /\ UNCHANGED <<world, faults, chainVars, paid, refund, unlisted, emitted, log, bought, ledgerVars, astray>>

MarkProcessed(w) ==
    /\ job[w].pc = "mark"
    /\ log' = [log EXCEPT ![job[w].event] = "processed"]
    /\ Done(w)
    /\ UNCHANGED <<world, faults, chainVars, paid, refund, unlisted, emitted, bought, reversed, ledgerVars, astray>>

-----------------------------------------------------------------------------

\* The process dies, or a statement returns an error, before or after its effect:
\* every error ends the pass or the webhook.
Stop(w) ==
    /\ job[w] # Idle /\ faults < MaxFaults /\ faults' = faults + 1
    /\ Done(w)
    /\ astray' = IF job[w].pc \in {"owe", "save"} THEN astray \cup {job[w].of} ELSE astray
    /\ UNCHANGED <<world, chainVars, stripeVars, ledgerVars>>

Poll(w) ==
    \/ \E s \in Sessions : Open(w, s)
    \/ Expire(w) \/ Look(w) \/ Detect(w) \/ CreditDeposit(w) \/ Complete(w)

Handle(w) ==
    \/ Topup(w) \/ RecordPurchase(w) \/ Find(w) \/ Level(w) \/ Claw(w) \/ Owe(w) \/ Save(w) \/ MarkProcessed(w)

Next ==
    \/ \E s \in Sessions : Create(s) \/ Age(s)
    \/ \E x \in Transfers : Pay(x) \/ \E how \in {"final", "dropped"} : Resolve(x, how)
    \/ \E p \in Purchases : CheckOut(p) \/ Settle(p) \/ Unlist(p) \/ RefundMore(p) \/ Reconcile(p)
    \/ Spend
    \/ \E w \in Workers : Poll(w) \/ Handle(w) \/ OweFails(w) \/ Stop(w)
    \/ \E w \in Workers, e \in Events : Deliver(w, e) \/ Replay(w, e)

Spec == Init /\ [][Next]_vars

\* The listener and the reconciler tick, a handler that has begun goes on.  The reconciler
\* has a goroutine of its own, so that no flood of webhooks keeps it from a stored payment.
Fairness ==
    /\ \A w \in Workers : WF_vars(Poll(w)) /\ WF_vars(Handle(w))
    /\ \A p \in Purchases : WF_vars(Reconcile(p))
    /\ \A e \in Topups : SF_vars(\E w \in Workers : Replay(w, e))

FairSpec == Spec /\ Fairness

-----------------------------------------------------------------------------
(* Properties *)

Total(S) == MapThenSumSet(LAMBDA j : j.coins, S)
Shortfall(S) == MapThenSumSet(LAMBDA j : j.short, S)
Of(y) == {j \in journal : j.of = y}
Clawed(p) == Shortfall(Of(p)) - Total({j \in Of(p) : j.coins <= 0})

\* The variables have their types; the treasury is never overdrawn, a recorded
\* deposit is a completed session's, and a level is that of a recorded purchase.
TypeOK ==
    /\ world \in Situations /\ faults \in 0 .. MaxFaults
    /\ session \in [Sessions -> {"none", "pending", "detected", "completed", "expired"}]
    /\ age \in [Sessions -> 0 .. 3] /\ heard \in [Sessions -> BOOLEAN]
    /\ transfer \in [Transfers -> {"none", "sent", "final", "dropped"}]
    /\ \A x \in deposits : session[ForSession[x]] = "completed"
    /\ paid \cup unlisted \subseteq Purchases /\ emitted \subseteq Events /\ bought \subseteq paid
    /\ log \in [Events -> {"none", "stored", "processed"}]
    /\ refund \in [Purchases -> 0 .. Coins] /\ reversed \in [Purchases -> 0 .. Coins]
    /\ \A p \in Purchases : reversed[p] > 0 => p \in bought
    /\ treasury \in Nat /\ debt \in Nat

\* The owner is credited for a payment once, however many pollers, webhooks and
\* reconcilers see it, and only for money that is there for good: a transfer that is
\* final, or a payment that settled, also when Stripe told of the checkout before.
CreditedOnce ==
    /\ \A x \in Transfers :
        /\ Total(Of(x)) = IF DepositKey(x) \in Keys THEN Coins ELSE 0
        /\ Of(x) # {} => transfer[x] = "final"
    /\ \A p \in Purchases :
        Total({j \in Of(p) : j.coins > 0}) \in IF p \in paid THEN {0, Coins} ELSE {0}
    /\ \A s \in Sessions : session[s] = "completed" =>
        \E x \in deposits : ForSession[x] = s /\ Of(x) # {}

\* Refunds take back what they should: when nobody is at it, the coins and the shortfall
\* taken for a purchase add up to the level saved, which is no higher than the refund;
\* an event marked processed has reached its level; and the debt recorded is the
\* shortfall booked for checkouts that named an agent: of one that named none, the
\* shortfall stands on the ledger and holds up nobody's payout.  Excepted are purchases
\* whose debt or level a fault kept from being saved, and refunds that came before the
\* purchase was recorded.
ClawedAsRefunded ==
    /\ \A p \in Purchases \ astray :
        /\ Holding(p) = {} => Clawed(p) = reversed[p]
        /\ Clawed(p) <= refund[p]
    /\ \A e \in Refunds \ astray : log[e] = "processed" => reversed[e.of] >= e.level
    /\ (\A p \in Purchases : p \notin astray /\ Holding(p) = {}) =>
        debt = Shortfall({j \in journal : j.of \in world.named})

\* Who paid is credited.  A session whose transfer became final in time is completed, if
\* sessions are looked at in time; a settled checkout is topped up, if the reconciler
\* sees it before it drops out of Stripe's list, or if an event that tells of the
\* settlement was ever stored, whatever then became of its handler.  A checkout that
\* dropped out and whose events were all lost is never credited.
PaidIsCredited ==
    /\ world.prompt => \A x \in Transfers \ Short :
        transfer[x] = "final" ~> session[ForSession[x]] = "completed"
    /\ world.prompt => \A p \in Purchases : p \in paid ~> TopupKey(p) \in Keys
    /\ \A e \in {t \in Topups : t.kind # "unpaid"} :
        log[e] # "none" ~> TopupKey(e.of) \in Keys
=============================================================================
