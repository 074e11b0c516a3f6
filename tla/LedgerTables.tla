---------------------------- MODULE LedgerTables ----------------------------
(***************************************************************************)
(* What the ledger keeps in the database, and what makes it a ledger.      *)
(*                                                                         *)
(* A call is a transaction somebody asks ledger.Service.Post for: its      *)
(* idempotency key, the wallets its postings name, and the net amount per  *)
(* wallet (the code adds several postings to one wallet up before it does  *)
(* anything with them).                                                    *)
(***************************************************************************)
EXTENDS Integers, FiniteSets, Functions

CONSTANTS
    Wallets,    \* wallet row ids
    Kind,       \* the kind column of each wallet
    Calls       \* the transactions callers may ask for

Kinds == {"agent", "user", "escrow", "stripe_clearing", "platform_revenue", "bad_debt"}

ASSUME WalletsAssumption == Wallets \subseteq Nat /\ IsFiniteSet(Wallets)
ASSUME KindAssumption    == Kind \in [Wallets -> Kinds]
ASSUME CallsAssumption   ==
    \A c \in Calls : /\ c.touched \subseteq Wallets
                     /\ c.delta \in [Wallets -> Int]
                     /\ \A w \in Wallets \ c.touched : c.delta[w] = 0

VARIABLES
    journal,    \* committed ledger_transactions with their ledger_entries
    balance     \* committed wallets.balance

Keys == {c.key : c \in Calls}

Posted(k) == \E t \in journal : t.key = k

Balanced(c) == SumFunction(c.delta) = 0

\* The wallets a transaction must not take below zero; the other system
\* wallets may go negative.
Protected == {w \in Wallets : Kind[w] \in {"agent", "user", "escrow"}}

\* Slip: an error of its own for each kind, which callers do not know.
OverdraftErrorPerKind(w) == Kind[w]

\* What Apply answers when a transaction would overdraw protected wallet w.
OverdraftError(w) == IF Kind[w] = "escrow" THEN "invariant" ELSE "insufficient"

Affordable(c) ==
    \A w \in Protected \cap c.touched : balance[w] + c.delta[w] >= 0

EmptyTables ==
    /\ journal = {}
    /\ balance = [w \in Wallets |-> 0]

\* The entries of call c and the new balances, written by one transaction.
WriteEntries(c) ==
    /\ journal' = journal \cup {c}
    /\ balance' = [w \in Wallets |-> balance[w] + c.delta[w]]

-----------------------------------------------------------------------------
(* Properties *)

TablesTypeOK ==
    /\ journal \subseteq Calls
    /\ IsFiniteSet(journal)
    /\ balance \in [Wallets -> Int]

\* No agent, owner or escrow wallet is ever below zero, whatever transactions
\* interleave (ledger_repo.go: "enforces the protected non-negative invariant").
NoOverdraft == \A w \in Protected : balance[w] >= 0

\* An idempotency key is posted at most once, even when callers race with
\* different transactions under it (a refund and a settlement of one match).
OneTxnPerKey == \A s, t \in journal : s.key = t.key => s = t

\* What Reconcile looks for: the cached balance of a wallet is the sum of its
\* entries.  A transaction applied twice would show here.
BalancesMatchEntries ==
    \A w \in Wallets :
        balance[w] = SumFunction([t \in journal |-> t.delta[w]])

\* Double entry: coins are moved, never made or lost.
Conservation == SumFunction(balance) = 0

\* What ledger.Reconcile and the audit look for (unbalanced books, wallet_balance_drift,
\* negative_agent_or_escrow_balance), in any state a crash or a race of posters may leave.
Reconciled == NoOverdraft /\ BalancesMatchEntries /\ Conservation
=============================================================================
