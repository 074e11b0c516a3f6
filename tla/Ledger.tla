------------------------------- MODULE Ledger -------------------------------
(***************************************************************************)
(* The coin mover: ledger.Service.Post and the Postgres transaction behind *)
(* it, LedgerRepo.Apply.  Several goroutines ("posters"), of one server    *)
(* process or of several, run it at once against one database.             *)
(*                                                                         *)
(* A step is one statement the database executes.  Rows written inside the *)
(* transaction are invisible to the others until the commit, so the writes *)
(* of the entries and of the balances are part of the step Commit.  What   *)
(* is visible before it, and is state of its own, is what other            *)
(* transactions can block on: the row locks, and the not yet committed     *)
(* entry of the unique index on idempotency_key.                           *)
(***************************************************************************)
EXTENDS LedgerTables

CONSTANTS
    Posters,    \* goroutines that post
    NoCall      \* what a poster that never posted remembers

ASSUME NoCallAssumption == NoCall \notin Calls

VARIABLES
    pc,         \* what each poster does next
    call,       \* the call it works on, or answered last
    held,       \* the wallet rows it holds FOR UPDATE
    seen,       \* the balances its locking SELECT returned
    reply       \* what its last call returned

vars == <<journal, balance, pc, call, held, seen, reply>>

Steps == {"idle", "precheck", "lock", "check", "insert", "commit"}

\* What Post returns.  "error" is any failure of the database or of the
\* connection: the caller cannot tell whether the transaction committed.
Replies == {"none", "applied", "replay", "empty", "unbalanced",
            "insufficient", "invariant", "error"}

-----------------------------------------------------------------------------
(* Helpers.  An operator marked "slip" is a plausible mistake in the code   *)
(* that the operator after it models; the specification does not use it.   *)

\* Slip: only the payer is checked, not the escrow.
OverdrawnAgents(p) ==
    {w \in call[p].touched : /\ Kind[w] = "agent"
                             /\ seen[p][w] + call[p].delta[w] < 0}

\* The protected wallets poster p would overdraw, by the balances it read.
Overdrawn(p) == {w \in Protected \cap call[p].touched :
                    seen[p][w] + call[p].delta[w] < 0}

\* Rows p still has to lock, and whether row w is the next one: the SELECT
\* orders by id, and waits for a row until its holder ends its transaction.
ToLock(p) == call[p].touched \ held[p]
\* Slip: no ORDER BY.
AnyRow(p, w) == w \in ToLock(p)

NextRow(p, w) == w \in ToLock(p) /\ \A v \in ToLock(p) : w <= v

RowFree(w) == \A q \in Posters : w \notin held[q]

\* Somebody has inserted the key and not committed yet: an insert of the same
\* key waits for that transaction to end.
KeyInFlight(k) == \E q \in Posters : pc[q] = "commit" /\ call[q].key = k

\* The transaction of p is over, whichever way, and the caller gets an answer.
End(p, answer) ==
    /\ pc' = [pc EXCEPT ![p] = "idle"]
    /\ held' = [held EXCEPT ![p] = {}]
    /\ seen' = [seen EXCEPT ![p] = [w \in Wallets |-> 0]]
    /\ reply' = [reply EXCEPT ![p] = answer]

Rollback(p, answer) == End(p, answer) /\ UNCHANGED <<journal, balance, call>>

-----------------------------------------------------------------------------
(* Actions *)

Init ==
    /\ EmptyTables
    /\ pc = [p \in Posters |-> "idle"]
    /\ call = [p \in Posters |-> NoCall]
    /\ held = [p \in Posters |-> {}]
    /\ seen = [p \in Posters |-> [w \in Wallets |-> 0]]
    /\ reply = [p \in Posters |-> "none"]

\* Service.Post: refuse an empty or unbalanced transaction, else call Apply.
Post(p, c) ==
    /\ pc[p] = "idle"
    /\ call' = [call EXCEPT ![p] = c]
    /\ \/ /\ c.touched = {}
          /\ reply' = [reply EXCEPT ![p] = "empty"]
          /\ UNCHANGED pc
       \/ /\ c.touched # {} /\ ~ Balanced(c)
          /\ reply' = [reply EXCEPT ![p] = "unbalanced"]
          /\ UNCHANGED pc
       \/ /\ c.touched # {} /\ Balanced(c)
          /\ pc' = [pc EXCEPT ![p] = "precheck"]
          /\ reply' = [reply EXCEPT ![p] = "none"]
    /\ UNCHANGED <<journal, balance, held, seen>>

\* The cheap check outside the transaction: the key is already posted.
PrecheckReplay(p) ==
    /\ pc[p] = "precheck"
    /\ Posted(call[p].key)
    /\ Rollback(p, "replay")

\* ... or it is not: begin the transaction and resolve the wallets.
Begin(p) ==
    /\ pc[p] = "precheck"
    /\ ~ Posted(call[p].key)
    /\ pc' = [pc EXCEPT ![p] = "lock"]
    /\ UNCHANGED <<journal, balance, call, held, seen, reply>>

\* The locking SELECT gets its next row, with the balance of that moment.
LockRow(p, w) ==
    /\ pc[p] = "lock"
    /\ NextRow(p, w)
    /\ RowFree(w)
    /\ held' = [held EXCEPT ![p] = @ \cup {w}]
    /\ seen' = [seen EXCEPT ![p][w] = balance[w]]
    /\ pc' = [pc EXCEPT ![p] = IF ToLock(p) = {w} THEN "check" ELSE "lock"]
    /\ UNCHANGED <<journal, balance, call, reply>>

\* The protected non-negative invariant, before any write.  The code walks a
\* map, so any of the overdrawn wallets can be the one that names the error.
RefuseOverdraft(p) ==
    /\ pc[p] = "check"
    /\ \E w \in Overdrawn(p) : Rollback(p, OverdraftError(w))

PassCheck(p) ==
    /\ pc[p] = "check"
    /\ Overdrawn(p) = {}
    /\ pc' = [pc EXCEPT ![p] = "insert"]
    /\ UNCHANGED <<journal, balance, call, held, seen, reply>>

\* INSERT INTO ledger_transactions: a key that is posted meanwhile is a
\* unique violation, which the code answers as a replay ...
InsertReplay(p) ==
    /\ pc[p] = "insert"
    /\ Posted(call[p].key)
    /\ Rollback(p, "replay")

\* Slip: the insert trusts the precheck.
InsertKeyPrechecked(p) ==
    /\ pc[p] = "insert"
    /\ pc' = [pc EXCEPT ![p] = "commit"]
    /\ UNCHANGED <<journal, balance, call, held, seen, reply>>

\* ... a key in flight makes the insert wait, and a free key is taken.
InsertKey(p) ==
    /\ pc[p] = "insert"
    /\ ~ Posted(call[p].key)
    /\ ~ KeyInFlight(call[p].key)
    /\ pc' = [pc EXCEPT ![p] = "commit"]
    /\ UNCHANGED <<journal, balance, call, held, seen, reply>>

\* The entries, balance = balance + delta, and the commit.  The connection can
\* break after the database committed: the caller then gets an error.
Commit(p) ==
    /\ pc[p] = "commit"
    /\ WriteEntries(call[p])
    /\ \E answer \in {"applied", "error"} : End(p, answer)
    /\ UNCHANGED call

\* A statement fails, a wallet does not resolve, or the process dies: the
\* transaction rolls back.
Fail(p) ==
    /\ pc[p] # "idle"
    /\ Rollback(p, "error")

Progress(p) ==
    \/ PrecheckReplay(p) \/ Begin(p)
    \/ \E w \in Wallets : LockRow(p, w)
    \/ RefuseOverdraft(p) \/ PassCheck(p)
    \/ InsertReplay(p) \/ InsertKey(p)
    \/ Commit(p)

Next ==
    \E p \in Posters :
        \/ \E c \in Calls : Post(p, c)
        \/ Progress(p)
        \/ Fail(p)

Spec == Init /\ [][Next]_vars

\* A poster runs until it returns, and Postgres serves the waiters of a row or
\* of an index entry in the order they came: none is passed over for ever.
FairSpec == Spec /\ \A p \in Posters : SF_vars(Progress(p))

-----------------------------------------------------------------------------
(* Properties *)

TypeOK ==
    /\ TablesTypeOK
    /\ pc \in [Posters -> Steps]
    /\ call \in [Posters -> Calls \cup {NoCall}]
    /\ held \in [Posters -> SUBSET Wallets]
    /\ seen \in [Posters -> [Wallets -> Int]]
    /\ reply \in [Posters -> Replies]
    /\ \A p \in Posters : pc[p] # "idle" => call[p] \in Calls

\* A caller that is told "already applied" can rely on it: the transaction
\* under its key is committed, not merely attempted by a rival.
ReplayMeansPosted ==
    \A p \in Posters : reply[p] = "replay" => Posted(call[p].key)

\* The lock order: a poster waits only for rows above every row it holds, so
\* no two of them can wait for each other.
AscendingLocks ==
    \A p \in Posters :
        pc[p] = "lock" => \A w \in held[p], v \in ToLock(p) : w < v

\* Every Post returns: no poster is locked out or deadlocked for ever.
EveryPostReturns == \A p \in Posters : pc[p] # "idle" ~> pc[p] = "idle"

\* Every interleaving of the statements of several posters looks, in the
\* committed tables, like transactions that happened one at a time.
Atomic == INSTANCE AtomicLedger WITH journal <- journal, balance <- balance

ImplementsAtomicLedger == Atomic!Spec
=============================================================================
