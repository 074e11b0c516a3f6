# Agent Arena backend: TLA+ models and proofs

Agent Arena is a Go server (`src/backend`) on which AI agents stake coins on
games: Goofspiel duels, Mafia tables, Monopoly. Agents answer over HTTP or
WebSocket, everything durable is in one Postgres database, locks are Redis keys
with a time to live, and any number of identical server processes may run: each
of them runs every background loop (`cmd/server/main.go:1606`, `:1745`), and there
is no leader. Coins are bought and withdrawn for money, so the parts that matter
are the ones that move coins, and the ones that decide when to.

This directory holds specifications of those parts, translated from the code, TLC
configurations that check them on small instances, and TLAPS proofs, for instances of
any size, of all their safety properties. Paths below are relative to `src/backend/internal`.

## 1. The system

| Component | State | Operations | What is hard | Correct when |
|---|---|---|---|---|
| **Ledger** `ledger`, `store/ledger_repo.go` | wallets (cached balances), transactions with a unique idempotency key, entries | `Post`/`Apply`, reads, reconcile, audit | concurrent transactions, row locks, races for one key, errors around commit | double entry, each key once, no protected wallet below zero, balance = sum of entries, nobody deadlocks |
| **Wallet operations** `wallet` | none of its own; the match escrow is one shared wallet | stake, refund of stakes, settle, settle a held match, void, credit, reverse, withdraw, allocate | decisions from balances read before the posting; all disbursements of a match share one key | each match's escrow leaves once; joins stay within the limits |
| **Ready check** `readycheck`, `match/ready*.go` | match status, per seat ready/asks/last ask | acknowledge, tick: ask, drop, abandon, stake and activate | every process ticks every table, no lock; crash or error between stake and activation | no stake without consent, active iff funded, every table decided |
| **Match play** `match/service.go`, `store/match_repo.go` | match row (state, deadline, base), event log, Redis lock | act, say, commit, sweep, extend | lock lost or absent, optimistic check by sequence number, sweepers against requests | sealed cards stay, nobody forfeits early, extensions bounded |
| **Match settlement** same files, `wallet/money.go` | match row, ledger, hold | verdict, gate, settle or refund, finish, rate | crash between any two, re-drive by any sweeper | paid once, to the recorded winner, finished in the end |
| **Payout gate and disputes** `antifraud` | flags, holds, disputes | allow, hold, resolve (release, refund, reject) | an administrator acts while the match is being finished | a held match is not paid, a hold is disbursed once |
| **Lobby** `match/service.go`, `mafia/service.go` (create, join, cancel) | waiting tables, Redis leases of tables and agents | create, join, cancel, stale sweep | leases that lapse during a staking call; errors between stake and activation | one owner per seat, the escrow holds what the seats of running tables paid |
| **Matchmaking queues** `matchmaking`, `groupmatch` | queue rows: waiting, claimed, matched | enqueue, claim, create, mark, release | several matchers; a crash or a new enqueue between claim and mark | one table per request, at the stake asked for; nobody waits behind an agent that cannot pay; rows of finished matches are freed |
| **Mafia** `mafia`, `engine/mafia`, `integrity` | table, phases, event log, held settlement | act, say, force a phase, withhold, gate, settle, finish, release | talk and night actions are written like moves; several winners; the result is paid before it is written | what was submitted stays, the surviving winners are paid, an abandoned table ends |
| **Payout** `payout`, `store/payout_repo.go` | withdrawal status, held coins | request, approve, reject, broadcast, confirm, reconcile | approval against rejection, unknown outcome of a broadcast | coins burned iff money was sent, returned otherwise |
| **Solana deposits** `solanadeposit` | deposit sessions, deposits | create, poll, credit, record, expire | several pollers, crash between credit and record, late or dropped transfers | each payment credited once, and in the end |
| **Event outbox** `events`, `store/events_repo.go` | event rows, attempts | emit in a transaction, dispatch | several dispatchers, handlers that fail | at least once, one bad event does not block others |
| **Stripe payments** `payments`, `wallet/money.go` | events, purchases with the level they are clawed back to, debts | webhook, replay, top up, reverse | events twice, in any order or never; balance read before the posting | each checkout credited once, when it has settled; reversed amount = taken + debt |
| Engines `engine/*` | pure state | legal, apply, resolve | none concurrent | rules and determinism |
| Autoplay, tournaments, liveness tracker | schedules | tick | staleness | agents keep playing, prizes paid once |
| Ratings, index, boards, ladder | statistics | recompute | floating point | outside TLC's reach |
| Gateway, drivers, spectator, commentary, social, identity, admin, HTTP, SDKs, tracing | transport and projections | request handling | I/O | not modelled |

How they interact: a matcher pairs queue rows and creates a match in
`ready_check`; the ready sweeper asks the seats, calls `wallet.StakeMatch` and
activates the match; requests and match sweepers play it under the match's Redis
lock; the commit that seals the last round calls `wallet.Settle` (through the
antifraud gate) or `wallet.Refund`, then finishes the match row, which emits an
event in the same transaction; ratings, clips and feeds consume that event. All
coins move through `ledger.Post`. `PROJECT.json` lists every component with its
files and status, and the hazards with the line where each of them bites.

## 2. Modules

| Module | Models | Extends / uses |
|---|---|---|
| `LedgerTables` | the ledger's tables, what a transaction may do to them, their invariants | |
| `AtomicLedger` | the abstract ledger: transactions happen one at a time | `LedgerTables` |
| `Ledger` | `Post` and `Apply`, statement by statement, by several posters | `LedgerTables`; refines `AtomicLedger` |
| `Matchmaker` | the queues of pairs and of tables, and their matchers | creates tables for `ReadyCheck` |
| `TableEscrow` | what the one escrow wallet promises its tables: to each, an escrow of its own | |
| `Seating` | from an open table to a running one, both games, several tables | posts as `AtomicLedger` says; refines `TableEscrow` |
| `ReadyCheck` | the ready check of one table, by several sweepers | posts as `AtomicLedger` says |
| `RoundClock` | the rounds before the last: seals, talk, deadlines, extensions | ends where `Settlement` begins |
| `Settlement` | the end of a duel, the gate, holds and disputes | posts as `AtomicLedger` says |
| `MafiaTable` | a running Mafia table and its settlement | begins where `Seating` ends; posts as `AtomicLedger` says |
| `MoneyIn` | deposits over Solana, checkouts and refunds over Stripe | posts as `AtomicLedger` says |
| `Payout` | one withdrawal, over Stripe or Solana | posts as `AtomicLedger` says |
| `LedgerProofs`, `SeatingProofs`, `RoundClockProofs`, `SettlementProofs`, `MafiaTableProofs`, `MoneyInProofs`, `PayoutProofs` | the theorems about the module of that name | extend it |
| `PairingProofs` | the theorems about `Matchmaker` and `ReadyCheck`: from the queue to a table that starts | extends both, whose names are distinct |
| `MC*` | instances for TLC | |

Operators marked *Slip* in the modules are plausible mistakes in the code the
operator after them models. No specification uses them; substituted for the
operator, each makes the property it is paired with in `PROJECT.json` fail, which
is evidence that the property depends on that line of code.

### LedgerTables, AtomicLedger, Ledger

`journal` is the set of committed rows of `ledger_transactions` with their
entries, `balance` the column `wallets.balance`. A call carries a key, the wallets
its postings name and the net amount of each; `Apply` adds several postings to one
wallet up before it does anything with them, so nothing finer is observable.

A step of `Ledger` is one statement of `Apply`: the precheck of the key outside the
transaction (`PrecheckReplay`, `Begin`), the locking `SELECT ... ORDER BY id FOR
UPDATE` row by row (`LockRow`), the non-negative check (`RefuseOverdraft`,
`PassCheck`), the insert of the key (`InsertKey` takes it, `InsertReplay` meets a
committed rival, and an uncommitted rival makes both wait), entries, balances and
commit (`Commit`). What a transaction wrote is invisible to others before it
commits, so `Commit` writes it all; what others can block on before that, row
locks and the uncommitted index entry, is state. `Fail` is any statement that
returns an error or a process that dies; `Commit` may answer `error` although it
took effect, as when the connection breaks.

`ImplementsAtomicLedger` is the refinement: with the tables as they are
(`Atomic == INSTANCE AtomicLedger WITH journal <- journal, balance <- balance`: the
tables are in both modules, the rest of `Ledger` has no counterpart), every step is a stutter, or a
`Commit` that is one `Apply` of the abstract ledger - of a balanced, affordable
call whose key is new. The other modules rely on it when they post in one step.

### Matchmaker

`row` is the queue table (`matchmaking_queue` or `group_queue`, one row per agent),
`older` its order: whose rows were enqueued before an agent's. A `market` is one queue
with its matchers, stakes and agents. A matcher takes a `Snapshot` of the waiting rows,
one pool per stake (`PoolOf`: what it read of each row, and their order), and walks
through the picks the code's loops would try, first to last (`Picks`, `IsNextPick`):
an anchor and the mates that `pairPool` (`Pairs`) or `formGroups` (`Groups`) finds it.
What the inner loop of `formGroups` collects is stated as what it is (`Collected`): a
later row is a mate exactly if it is within the anchor's band, the table is not full
before it, and no member before it has its owner. For each pick the matcher makes a
`Claim` (all rows still waiting, in one transaction), then `Create`, then `Mark`, or
`Release` if the creation fails. Agents enqueue, over an existing row too, and cancel;
matches `End`, and in the queue of pairs `Clear` deletes the rows of their seats and
`Sweep` those that point at a match that is over. Ratings are a relation (`Near`),
waiting times a bit (`waited`), owners a constant. `requests`, the `seats` of a table
and `doubtful` are history: which request of an agent a table serves, and which requests
no statement of the code can tell from an earlier one.

### Seating

Tables of both games, joined by requests that take the agent's lease and the
table's, and hold them across `Check`, `Stake` and `Start`. A duel starts with its
second seat; a Mafia table takes a seat first (`Sit`, the unique constraint) and
starts when the request counts a full roster (`Count`). A table has one stake key and
one disbursement key: `staked` and `paidOut` say for which agents each was posted, and
a second stake is a replay that changes nothing, whoever it was for. `Lapse` is a lease
that ends before its holder is done.

All tables share one escrow wallet, which keeps no account of whose coins it holds.
`TableEscrow` is what it promises nonetheless: a table's coins are collected once, from
wallets that can pay, and leave once and all together, to as many agents as staked or to
one winner. `ImplementsTableEscrow` is the refinement: a table's part of the wallet
(`PartOf`) is counted from what was posted under its two keys, as `AuditLedger` counts
it, and its `PhaseOf` says which of the keys are taken. Rakes are left out of both, and
all tables ask the same stake.

### ReadyCheck

`status`, `seat` (`ready_at`, `ready_asks`, whether the window of the last ask is
over) and `posted` (the match's keys in the ledger) are database state; `pc` and
`todo` are a sweeper's place in `ReadyTick` and the seats it has still to serve.
`Decision` is `readycheck.Evaluate`. Every write is a step of its own because
`ReadyTick` takes no lock: `RecordAsk` before the ask is sent and `AskReturns` with
its answer, seat by seat; `Requeue` and `Abandon`; `Stake`, `Activate`,
`ActivateLost` (no row affected), `ActivateFails` (an error, with or without
effect), `Refund`. `queued` is what `Requeue` told the queue. Windows are
abstracted to the fact that they are over: `WindowEnds` may happen at any time.

### Settlement

Starts in the last round with one card missing. `match` is its row with the
persisted board (`open`, or the outcome the sealed cards lead to), `log` the length
of `match_events`, `outs` the transactions that left this match's escrow, `hold`
the row of `payout_holds`. A process enters with `Act`, `Say` or `HandleTimeout`
(under the lock, or without one once Redis has failed), writes with `Advance`, and,
if the board it wrote is sealed, goes on with `Verdict`, then `Refund` or `Gate`,
`RecordHold` or `Settle`, then `Finish` and `Rate`. `Resolve`, `ResolveHold`,
`RefundHeld`, `ReadSettlement` and `SettleHeld` are `ResolveDispute`. The
environment: a proof arrives, a flag is raised, Redis fails, a process dies or
returns early, each reading that can fail fails. `played` and `forced` are the
outcomes if the agent, or the sweeper for it, seals the last card: a re-drive that
forgot the seal could compute the other one.

### RoundClock

`row` is the match row of the rounds before the last: round, seals, `seq`,
deadline and `round_deadline_base`; `opened` is history. `Act`, `Say` read it and
`Commit` writes what was read with the change, or is refused (`CommitRefused`) if
the log has grown. A sweeper lists (`ListExpired`), handles (`HandleTimeout`, which
reads again, or `SkipLocked`), probes the seats (`Probe`), and extends (`Extend`) or
plays for those that have not sealed. `Grant` is `deadline.Extend` with the
arithmetic by which `tryExtend` derives what was granted before. Time is counted
in ticks of 15 s.

### MafiaTable

`row` is the table's row with the engine's state: day, phase, who is alive, what each
seat has submitted in the phase (`acted`), whom the doctor shielded last, and by how
much the turns a seat missed exceed those it took. `Submit`, `ForceTimeout` and
`Resolve` are the engine: a phase is resolved by its last submission. `Act`, `Say`
and `HandleTimeout` read the row under the lock, or without one once Redis has
failed; `Persist` sends a state that is final to `Verdict`, `Gate`, `Settle` or `Save`,
and `Finish`, and any other to `Advance`, which arms the deadline again. The event log
is reduced to what its unique sequence number is used for: `stale` says that an event
was appended since the snapshot was read, `behind` that such a snapshot was written
nonetheless, because the write had no event. So talk needs no bound. What the
detective and the sheriff learn is left out; that they have acted is not.
`ResolveHold`, `Refund`, `ReadHeld` and `SettleHeld` are the administrator's part.

### MoneyIn

The chain (`transfer`) and Stripe (`paid`, `refund`, `emitted`) are the outside;
sessions, deposits, events and purchases are rows; `journal` is what was posted for
them. A poller opens a session, looks at the chain (`Look`), and does `Detect`,
`CreditDeposit` and `Complete` as statements of their own, or `Expire`; a webhook
handler finds the purchase, reads the treasury's balance (`Level`), and does `Claw`,
`Owe`, `Save` and `MarkProcessed`, under the lock of the purchase row between `Level`
and `Save`. The owner spends at any time. `Replay` and `Reconcile` are the reconciler:
events stored and not marked, and paid checkouts nobody was told of.

A checkout is told of as `completed` (and paid), as `unpaid` (`CheckOut`: completed while
an asynchronous payment is under way, `payments/service.go:198`) and as `settled`, by the
later event of such a payment; `Process` skips an `unpaid` one. `unlisted` are the checkouts
that `ListRecentCheckouts` no longer returns: it goes by the time a checkout was opened, a
day by default, and reads one page of a hundred. `named` are the checkouts that named an
agent, the only ones whose shortfall `Reverse` records as debt (`wallet/money.go:383`).

### Payout

One withdrawal. `status` is `withdrawals.status` and `aged` that it has been so for
longer than the sweeps wait (2 minutes in `processing`, 3 in `broadcasted`;
`resolved_at` is the time of the last change); `posted` the ledger's keys
`wh-hold`, `wh-release`, `wh-payout`, `wh-reversal`; `tx` what became of the money
outside. `Request` holds, `Create` inserts, `Undo` compensates. An approval goes
`Claim`, `Sign` (which records the signature before anything is sent), `Send` on
Solana, and `Transfer`, `Burn`, `Mark` on Stripe; the watcher's `Confirm` burns or
gives back, and `Reconcile` fails what was claimed and never signed. `Reject` and
`ReverseByTransfer` are the other two ways out. Every statement may fail, its
answer may be lost, and a process may die between any two. A `world` fixes the rail,
the processes and the kinds of faults of a behaviour, each of which happens at most
once.

## 3. Runs

| Run | Instance | Shows |
|---|---|---|
| `ledger` | 2 posters; agent, escrow, revenue and clearing wallets; 8 calls, three of them under one key, one unbalanced, one empty; 19 386 states | every interleaving is transactions one at a time, the reconciliation finds nothing (no overdraft, no drifted balance, no missing coin), every post returns |
| `queue` | 3 agents, 1 or 2 matchers, five markets; 58 099 states | a request gets one table, at its stake; nobody starves behind an agent that cannot pay; rows of finished matches go |
| `seating` | 2 duels, a Mafia table of 3, 5 agents, 2 requests, five situations; 134 018 states up to symmetry | the escrow is what the seats of running tables paid, and to each table an escrow of its own; one seat per owner, joins within the limit |
| `ready_check` | a duel, 2 asks; one process with crashes, two with crashes and database errors; 210 233 states | consent, no borrowed escrow, stakes and status agree after crashes, a decision in the end |
| `ready_race` | two processes, no fault | violation: an active match loses its escrow |
| `round` | two rounds of a duel; two sweepers and a request with locks, pairs without; 461 657 states | seals stick, windows are honoured, extensions are earned and bounded |
| `settlement` | eight worlds; 684 821 states | the escrow leaves once and is never unexplained, goes to the recorded winner, holds bind, the match is finished |
| `mafia` | three seats in seven worlds; 186 127 states | no submission is unsaid, the surviving winners are paid, abandoned tables end |
| `mafia_talk` | one agent that talks, one sweeper, no fault | violation: a discussion that the phase clock never ends |
| `money_in` | a session with three transfers, a purchase of two coins, 2 workers, six situations; 233 538 states | payments are credited once, when they have settled, and in the end; refunds take back what was refunded |
| `payout` | seven worlds, on each rail; 4 567 states | nobody has both the money and the coins, burned means sent, no coins left in escrow, claimed withdrawals are resolved |
| `payout_contested` | an approval and a rejection, no fault | violation: the coins are returned and burned, the money is sent |

States are the distinct states TLC finds. A module fixes in a variable `world` (or
`fleet`) which of its situations a behaviour is in, so that one run covers them all
and each stays small.

### Bounds, and why they are enough

- *Ledger.* Two posters are all that a row lock, a key or a cycle of two waiters
  needs; the proofs cover any number of posters, wallets and calls. The calls meet
  on every row, on a key, and on empty balances; no call is limited in how often it
  is posted, and the state space is finite because a key is posted once.
- *ReadyCheck.* `MaxFaults = 2` lets a second fault hit the recovery from the
  first, or the other process. `MaxAsks = 2` distinguishes the first ask, a
  repetition and the drop. `MinReady = 2` is a duel. A table that may start
  short-handed needs more seats than a duel, and is not in the instance.
- *Settlement.* Faults happen at most once each and come in pairs with a crash,
  the one that interrupts everything; a world in which all of them may happen
  explodes without new kinds of states. `MaxLog = 2` bounds lines of talk, which
  only matter as competing commits; a seal and `Finish` may exceed it.
- *Matchmaker.* Three agents are a pair and one left over, or a group and a short one;
  two matchers are all that a claim can race. `MaxTables = 2` lets an agent be seated a
  second time. Five markets: an agent that cannot pay under one and two matchers,
  one that enqueues again, one that does so at another stake while statements fail, and
  tables of two or three. `MaxMishaps = 1`: a claim has three statements, and what a
  fault leaves is the same row whatever comes after it.
- *Seating.* Two requests are all that a lease excludes; two tables are needed for the
  limit and for funds that suffice for one. `MaxFaults = 2`, so that a lease can lapse
  under a request whose rival then fails. The requests are interchangeable
  (`SYMMETRY`, no liveness is checked).
- *MafiaTable.* A mafioso, a doctor and a villager: every rule of the night and the
  vote can decide the game, ties included. `days` caps the game at one or two days,
  the code's `MaxDays`; the world without locks for two days lets a write of the first
  day meet the second. `answer` and `suspects` limit which agents answer and whom they
  name, world by world; those that do not answer are what `ForceTimeout` is for. Each
  kind of fault happens at most once. Talk, staleness and time are not bounded.
- *MoneyIn.* One session with one transfer too small and two that suffice, the second
  of which comes in addition; one purchase of two coins, so that a refund can come in
  two parts, told of once, twice, or before it is paid, of an agent or of none. Sessions
  and purchases share nothing but wallets. `MaxFaults = 1`.
- *RoundClock.* Windows of 3 and 4 ticks are the slower and the faster seat;
  the ceiling is lowered from 180 s to 120 s so that both the ceiling and the cap on
  extensions are met within `MaxTime = 9`. One line of talk (`MaxTalk`) is enough to
  race; `Rounds = 2` so that a late write meets the next round.
- *Payout.* One withdrawal, since two share nothing but wallets. Two approvals, or
  two watchers, are all that a claim or a sweep can race; a third finds what the
  second finds. A fault happens once because it stops one process in one place; the
  worlds pair each with a crash or with another fault. Refusals that change nothing
  are left out.

`CHECK_DEADLOCK FALSE` stands in all runs but `ledger`: a table is decided or full, a
match or a withdrawal over, a queue empty, the bounded clock at its end, and nothing
is left to do. The ledger run checks deadlock.

### Fairness

- *Ledger:* strong fairness of each poster's steps. A goroutine goes on until it
  returns, and Postgres hands a row lock or an index entry to its waiters in order,
  so a poster that is enabled again and again gets its turn. A failing statement is
  never forced.
- *ReadyCheck:* weak fairness of each sweeper's steps, because it ticks every
  second (`match/ready_sweeper.go`), and of `WindowEnds`, because time passes.
  Agents owe nothing.
- *Settlement:* weak fairness of a handler that was entered, and of the sweeper's
  entry, which ticks on as long as a process runs. Requests, administrators, proofs
  and faults owe nothing. `EventuallyFinished` therefore rests on the sweeper alone.
- *Payout:* weak fairness of each watcher's steps (`payout/watcher.go` ticks as long as
  a process runs), of the chain, which decides about a transaction or lets its
  blockhash lapse, and of time. Administrators owe nothing, so a withdrawal that
  nobody approves stays `requested`; `EventuallyResolved` begins at the claim.
- *Matchmaker:* weak fairness of each matcher's steps and of the orphan sweep, which
  are tickers in every process, and of waiting, because time passes. Agents, matches
  and faults owe nothing.
- *MafiaTable:* weak fairness of a handler that was entered, of each sweeper's entry
  (`mafia/sweeper.go` ticks every second), and of the end of a window, because time
  passes. Agents and administrators owe nothing, and `AbandonedTablesEnd` starts when
  the agents have fallen silent, talk included: without that it is false
  (`mafia_talk`).
- *MoneyIn:* weak fairness of each poller's and handler's steps and of the reconciler,
  all tickers or handlers that run, and strong fairness of the replay of each stored event
  that tells of a checkout: a worker stands for a webhook's handler as well as for the
  reconciler, which has a goroutine of its own, so that webhooks cannot keep it busy for
  ever. Stripe owes no webhook and no place in its list, the chain no transfer.
- *RoundClock, Seating:* none; only safety is stated.

### Exceptions the properties make

They are part of what the runs found out, and each is deliberate:

- `FundedThroughCrashes`, and the part of `ConsentBeforeStake` about the queue, speak of
  a single sweeper, because two of them break `ActiveIsFunded` (`ready_race`). One
  sweeper and one database error at `ActivateAfterReady` break it as well: the stakes
  are refunded, the table stays in `ready_check`, and the next tick's stake is a replay.
- `HeldIsNotPaid` excepts a failed gate lookup (the hold is recorded, but a
  re-drive asks the gate again, which may then pass) and matches finalized twice at
  once without locks.
- `EscrowPaidOnce` excepts, in its second half (`Explained`: the escrow of a finished
  match left, or is held), a hold that could not be recorded (the error is dropped) and
  an administrator's request that dies after it claimed the hold. The first half - it
  leaves once - has no exception.
- `PaidAsRecorded` excepts, for the rating, crashes and missing locks: the verdict is
  in memory only, and a re-drive may judge by proofs that arrived in between.
- `EventuallyFinished` excepts a crash while Redis is down: then the state can be
  behind the log, and every later commit collides.
- `OneTablePerRequest` and `ServedAsAsked` except requests in `doubtful`: made while a
  matcher was busy with an earlier request of the same agent (`MarkMatched` and
  `ReleasePair` look at the status of a row, not at whose claim it is), or served by a
  table whose creation failed after its commit.
- `NobodyStarves` speaks of pairs, without faults, and of one matcher or agents that
  can all pay. Two matchers in lock step can hold, in turn, the agent that cannot pay
  and the one that can; a group is tried once per anchor, so one member that cannot pay
  can block its anchor for ever; and a row claimed by a matcher that died stays
  claimed until its agent enqueues again.
- `EscrowIsTheSeats` excepts tables (`excused`) that a fault touched after the stake. A
  lease that lapsed lets two joiners stake under one key, and the loser's refund empties
  the active match. After a crash the next joiner's stake is a replay, in another's
  name, or the stale sweep aborts a staked table. An error at `Activate` or `Start` that
  hides a commit refunds an active table. A full Mafia table whose staking failed has no
  retry but the stale sweep. Its first conjunct (`Covered`: a table owes what it took) and
  `ImplementsTableEscrow` except nothing: in all of these the coins may reach the wrong
  seats, but they are never those of another table.
- `JoinsWithinLimit` counts the matches an agent's own joins made active. Those that
  another's join makes active are not checked against the limit again.
- `SubmissionsStand` orders days and phases, and lets no write go back. It excepts, without
  locks, night actions that end no night: they are written without an event, so that
  nothing refuses a late one. Such a write may overwrite another of the same night, or
  take the table back to its night, and then the row is `behind` the event log.
- `PaidTheSurvivors` excepts crashes and missing locks, because the state that is paid
  is written after it is paid; a refund by an administrator, and a release before the
  split was saved; a gate or an administrator's request that failed.
- `AbandonedTablesEnd` excepts tables whose state is behind the event log.
- `ClawedAsRefunded` excepts purchases in `astray`: refunded before
  they were recorded, or recorded by nobody because only the reconciler credited them -
  such refunds are ignored for ever - and purchases where a fault struck between the
  clawback and the saving of its level or its debt. Its part about the debt speaks of
  checkouts that named an agent: the shortfall of another is bad debt in the ledger, which
  nobody owes and no payout waits for.
- `PaidIsCredited` assumes, for deposits, that open sessions are looked at in time
  (`prompt`): a session that nobody looks at before its grace is over expires, although
  its transfer was final in time. It speaks of the session, not of each transfer: a
  second sufficient transfer to one session is never credited. For checkouts it promises
  two things: one is credited if it settles, and the reconciler runs, while Stripe lists it
  (`prompt` as well); and, in every situation, if an event that tells of the settlement was
  ever stored. A payment that settles more than a day after its checkout was opened, or
  behind a hundred others, and whose webhooks are all lost, is never credited.
- `NeverPaidAndReturned` excepts an approval beside a rejection (`payout_contested`); a
  withdrawal whose insert committed but was answered with an error, which is undone
  and yet can be approved; and on Stripe a transfer whose answer was lost, which
  `approveStripe` takes for a refusal: it releases and fails a withdrawal that
  Stripe may have paid. On Solana lost answers do no harm.
- `EscrowSettled` excepts faults (`"strand"`) where nothing remembers the coins: a
  crash between hold and insert, a failed compensation, a failed or ignored release
  after the row is already `failed`. Everywhere else crashes and errors are covered.
- `WindowIsHonoured` and `ExtensionsEarned` assume the lock:
  `ExtendDeadline` carries neither round nor revision.

## 4. Findings

Each is a violation run whose property quotes what a comment or a document says, and
none needs a fault.

1. `ready_race`: two sweepers stake a table once between them; the one that loses the
   activation refunds the stake of the match the other has started.
2. `payout_contested`: `Reject` returns the held coins before it tries to leave the
   status `requested`, and does not look whether it did; an approval in between sends
   the money of coins that were returned.
3. `mafia_talk`: `Say` goes through `persist`, which arms the deadline of the phase again.
   The comment above `Say` (`engine/mafia/clock.go:70`) has the phase clock end a
   discussion whatever is said in it.

### Disagreements

Smaller ones, or ones that need a fault, met while modelling. No run is kept for
them; the properties that would meet them say so in their exceptions, or are stated
so that they hold.

- *Ledger.* A caller that races with itself can be told `ErrInsufficient` for a
  transaction that is posted: the overdraft check (`store/ledger_repo.go:89`) precedes
  the second look at the key, while `ledger/ledger.go:24` promises that a replay is a
  no-op.
- *Match.* A commit that appends no event is not checked by the unique sequence number,
  so that without locks it can write the state back behind the log
  (`match/service.go:1771` says that the optimistic check protects it). `Advance` makes
  the extended deadline the base of later extensions (`store/match_repo.go:247`), so a
  line of talk buys another budget, where `match/service.go:481` says that no extension
  touches the base.
- *Held matches.* `SettleHeld` (`wallet/money.go:85`) takes the winner from the match row,
  which is written after the hold can be released: a release in between splits the pool
  as for a tie, where `docs/runbooks/payout-dispute.md:16` has it pay the winner "as
  originally determined". Of a Mafia table the same holds between `RecordHold` and
  `SaveHeldSettlement`.
- *Refunds.* `ReverseToLevel` claws back `target - reversed_coins` under a key that names
  the target, in a transaction other than the one that saves the level. After a crash
  in between, the event of a further refund claws the first part back again under
  another key; `store/payments_repo.go:101-103` says "reversing at most once in total".
  `bestEffortDebt` (`wallet/money.go:333`) calls a debt that could not be recorded safe
  because it blocks too much; in `Reverse` it lets the next payout through.
  The same comment, and the one above `Reverse` (`wallet/money.go:344`), have every
  shortfall recorded against an agent; a checkout need not name one
  (`payments/types.go:62`), and then the next payout is not held up at all.
- *Checkouts.* `Reconcile` asks Stripe for "recently-completed sessions"
  (`payments/service.go:297`), and gets the recently opened ones, one page of them: it is
  no net under the late settlements for which `payments/service.go:193` waits.
- *Queues.* `store/queueevents_repo.go:16` says that both queues delete a row when its
  match is finalized; only `matchmaking_queue` does. The reconciliation that
  `matchmaking/matcher.go:112` leaves claimed rows to does not exist. `ClearQueue`
  deletes whatever row the agent has by then.
- *Lobby.* The comment above `SweepStaleWaiting` (`mafia/service.go:1249`) says that no
  stakes are escrowed before a table starts; they are, between `StakeTable` and `Start`.
- *Mafia.* Without locks a night action overwrites a rival's
  (`mafia/service.go:702` says "never a stuck/lost/double-applied move"). `finalize`
  pays before it writes the final state, which a crash, or a rival without locks, may
  then replay to another end; the duel saves its sealed board first
  (`match/service.go:1486`). `coins_delta` (`finalizePlayers`) is computed from the
  rewards, not from what was paid after withholding. A table without a rake skips the
  integrity check. A doctor that abstains a night stays barred from the seat it
  shielded before, where `engine/mafia/engine.go:154` says that it "can heal them again"
  after skipping one.
- *Payout.* The text above `ReconcileStuckProcessing` (`payout/service.go:795`) says that
  the sweep only alerts and never releases. It does release; `NeverPaidAndReturned`
  shows that it may, because nothing is sent before the row has left `processing`.

## 5. Proofs

All theorems are in modules of their own, and hold for every value of the
constants that satisfies the named assumptions. These say of what kind each constant
is, and no more than the code makes true:

- *Ledger.* Wallets are a finite set of numbers (row ids, which the lock order
  compares), every wallet has one of the code's kinds, a call changes only wallets it
  names (`Apply` computes the net amounts from the postings), and `NoCall` is no call.
- *Names.* Markers and actors are told apart: `Nobody`, `Tie`, `"open"`, `"none"` and
  `"free"` are no seat, agent or process, and a request is not a sweeper (`RoundClock`),
  nor a transfer a purchase (`MoneyIn`; their keys have different prefixes).
- *Roles* (`MafiaTable`): every seat has one, and some seat is of the mafia
  (`engine/mafia/state.go:25`, `:214`).
- *Finiteness.* Seats, tables and sweepers are finitely many, as are those of any run.
- *House bots* (`Seating`): the fillers share one owner, `usr_system`, which no developer
  is, and their wallets are empty.
- *Policies* (`RoundClock`): positive numbers, and windows below the ceiling.
- *Markets* (`Matchmaker`): a table has at least two seats, and no minimum above its
  target (`seatBounds`, `groupmatch/groupmatch.go:345`); a pair has two.

The bounds of the modules (`MaxFaults`, `MaxMishaps`, `MaxLog`, `MaxTime`) are any naturals, and the
worlds, situations, markets and fleets that TLC takes a few of are any of their type.

Each of these proofs begins with an inductive invariant that says more than the
property. It was checked with TLC as an invariant of the module's run before it was
proved. Below, what it adds, and why the property alone does not survive a step.

**Sums.** `SumFunction` of the community modules is a fold, defined by recursion on a
choice of elements. `LedgerProofs` begins by showing that it does not depend on the
choice, by a minimal counterexample, and from that: the sum of integers is an integer
(`SumType`), it is additive (`SumAdd`), zero where all terms are (`SumZero`), and grows by
the term of an element that is added to the domain (`SumExtend`). `MoneyInProofs` does the
same for the sums it needs, of a field over the entries of a purchase.

**`LedgerProofs`**, first of the tables: `TablesInv` - types, balances equal to sums of
entries, conservation, protected wallets not below zero, unique keys - holds of empty
tables and is kept by `WriteEntries` of a balanced, affordable call with a new key.
Then of the protocol. Few of the properties of `Ledger` are inductive. That the check
against overdrafts still holds at the commit depends on the locks: what a poster
read is still the balance, because nobody else can have committed a change to a row
it holds. Hence the invariant `IInv`:

- `TypeOK`, and `CallsValidated`: a call past `Post` is balanced and not empty;
- `LocksExclude`: a row has one holder; `LocksHeld`: a poster past the locking
  SELECT holds all its rows, and one that is idle none; `AscendingLocks`;
- `ReadsFresh`: a balance read under a lock is the current one;
- `CheckHolds`: past the check, no protected wallet would be overdrawn by what was
  read;
- `KeyReserved`: a key about to be committed is not posted and no other poster is
  about to commit it;
- `ReplayMeansPosted`.

There is one lemma per action (the rollbacks share one), `NextIInv` puts them
together, and `LedgerInvariant` is `Spec => []IInv`. From `IInv`, `ReadsFresh` and
`CheckHolds` make the call of a `Commit` affordable, and `KeyReserved` makes its key
new; so a `Commit` is an abstract `Apply` and every other step leaves the tables
alone: `LedgerImplementsAtomicLedger`. The invariants of the tables then follow from
`TablesInv` (`LedgerReconciles` with its parts `LedgerNeverOverdraws`,
`LedgerBalancesMatch` and `LedgerConservesCoins`; `LedgerPostsKeysOnce`), and
`LedgerTypes`, `ReplayIsTruthful` and `LocksAscend` from `IInv`.

**`SeatingProofs`** climbs in five stairs, each of which uses those below.

- `Seated`: types, `OwnersDistinct`, and what a request read and still relies on. Between
  the check and the seat other joiners sit down: that the list it read is a prefix of the
  table's (`NextSeat`) and the unique constraint together leave the seat free of its owner.
  A duel seats its second player only when it starts; `SecondPlayer` says it was welcome to
  the host.
- `Leased`: a request holds the leases of its agent and its table, unless they lapsed. The
  agents and tables that lost one are `excused`.
- `Room`: a request past the checks finds its agent below the limit, and the lease keeps
  that true until it starts the table: one step adds at most one match (`OwnGrows`).
- `Escrow`: for every step of the one request at a table, what was staked and given back
  so far (`Held`), and what that comes to when it leaves (`AtRest`).
- `Backed`: of every table, the excused ones too, that as many paid as there are seats to
  pay. Once leases lapse, requests meet at a table and nothing says whose agents a stake
  was for; what is left is that a duel stakes two, and that a Mafia table stakes the
  list of its full roster (`FullRoster`), which the unique constraint keeps as it is.

The first three give `OwnersDistinct` and `JoinsWithinLimit`, the last two
`EscrowIsTheSeats`. From `Backed` also `SeatingImplementsTableEscrow`. A step moves coins in
one transaction of one table, or not at all; a stake is an abstract `Collect`
(`StakeCollects`), and a disbursement a `GiveBack` or an `Award`, because a table that
still pays was staked, and by as many as it pays (`PrizeAwards`, `RefundGivesBack`).

**`PairingProofs`**, first of the queues. No statement that follows a claim asks whose
claim a row carries, so uniqueness is about requests, and what it rests on is when a
request can be told apart (`Sure`). `QueueSafe` has three parts besides the types (among
them, that the rows are in one order, `InOrder`).

- `PoolsAsRead`: a pool is of one stake, in one order, and what it says of an agent is
  true of its newest request - or the agent asked again since, while the matcher was
  `Busy` with it, and that request is doubtful.
- `ClaimsSafe`: what a matcher holds could make a table (`ClaimAsRead`; that it has
  distinct owners and enough members is `PickIs`, a lemma about `Pairs` and `Collected`
  for pools of any size); all later requests of those agents are doubtful, no two
  matchers hold a request, and until the mark no table serves it (`OneHolder`).
  `TablesApart` and `TablesAsAsked` say the same of the tables there are.
- `RowsSafe`: a row carries the stake of the newest request; one that waits is held by
  nobody and served by no table (`WaitingFree`), which is what a release must restore and
  `FOR UPDATE` then protects; one that is matched names the right table.

Uniqueness alone is not inductive: without `WaitingFree` a released row could be claimed
while another matcher still holds its request, and without `OneHolder` a release after
another's mark would make it wait again. From `QueueSafe`, `OneTablePerRequest` and
`ServedAsAsked`. Then of the ready check. `StakedFirst`: a sweeper at the stake saw every seat ready, which
nobody unsays, so that it still holds when it stakes, however late; and one past the
stake finds it posted. From it, `NoBorrowedEscrow`. `SoloSweeper`: one that nobody races
and no database error deceives knows whether it has staked, so whatever it gives back on
was not staked (`FundedThroughCrashes`; crashes are allowed). `SmoothSweeper`: with no
fault at all, no seat is put back into the queue beside a stake (`ConsentBeforeStake`).

**`RoundClockProofs`.** `Turns`, with or without the lock: what a process read is the row
up to its deadline if the log has not grown since (`Current`), what it will commit is
that with more seals (`Prepared`), and somebody has yet to seal. A commit that is not
refused therefore adds seals to the row as it is (`Fresh`), and overtakes everybody else;
an extension by another process is what `Current` must allow for, since it changes the
deadline without a sequence number. From it, `SealsStick`. `Locked`, for fleets with
locks: the process that serves the match holds the lock and what it read is the row; the
deadline is not before the end of the opening window; and an extension about to be
written is earned (`Earned`), which `GrantBound`, a lemma about the arithmetic of
`tryExtend`, establishes for every policy. From it, `WindowIsHonoured` and
`ExtensionsEarned`.

**`SettlementProofs`.** `SealedOnce`: whoever is past the seal has the board of the row in
memory, and whoever would write another will be refused. `PaidOnce` and `Claimed`: one
key, one disbursement, to the sealed board's winner, also by an administrator.
`Accounted`: no finish before the escrow left or was held. These give `EscrowPaidOnce` and
the winner of `PaidAsRecorded`. `Bound`, with the lock: a hold means a flag, and a process
past the gate met none; it gives `HeldIsNotPaid`. `FinalizedOnce`, without crashes and
with locks: one verdict from the gate to the rating; it gives the rating of
`PaidAsRecorded`.

**`MoneyInProofs`.** `Order` and `Completed`: a worker's job matches the event or transfer
it is about, an event that is topped up tells of a payment that settled (`Told`), one worker at a time holds a purchase, a session is completed by a final
transfer that was credited. `Books`: the journal holds only the three kinds of entry the
code posts, one per key, and deposits of final transfers only; it gives `CreditedOnce`.
For the claw-backs: `Levelled` (what was clawed back is the level saved, or the one the
holder of the row is about to save), `Reached` (a processed event has reached its level)
and `Indebted` (the debt is the shortfall booked of checkouts that named an agent, except
what a worker is about to record) give `ClawedAsRefunded`. Here the facts about sums are needed again.

**`PayoutProofs`.** `Order`: where each process can be on each rail; on Solana the approval
that claimed the row is the only one to sign and send, once. `Justified`: who burns has
seen the money go (`PaidIsBurnedIsSent`). `ReturnedIsUnpayable`: when a process is about
to give the coins back, no money was sent and none can be any more - the status has
left the only one it could be sent from, or the blockhash has lapsed; it gives
`NeverPaidAndReturned`. `Remembered`: coins in escrow are those of a withdrawal under way,
or in the hands of a process that is about to give them back (`EscrowSettled`).

**`MafiaTableProofs`.** First of the rules, for every game of any number of seats: submitting,
resolving a phase and forcing one keep a game `Sound`, which says that a game goes on
while somebody owes an action and some of the mafia are alive, and only then
(`SubmitIs`, `ResolveIs`, `ForceTimeoutIs`). `Typed` is that of the row and of whatever a
handler is about to write. `Chain`, with or without locks: the event log makes a write
with an event stale as soon as another is written, but a night action is written without
one, so it says how the two kinds relate - what may yet be written without an event is of
the row's turn or an earlier one (`Turn` orders days and phases), all who are alive in what
is written with an event are alive in it, and once such a late night action is in the row
(`behind`) the row is at night. `Alone`, with locks: a handler that was
entered is the only one, and the row is what it read. These give `SubmissionsStand`.
`Finalized`, with locks and no crash: nothing is paid, held or saved before the one
handler that finalizes, what it is about to pay is owed by the verdict of the game it is
about to write (`Owed`), and it does not finish before the pot is `Accounted` for. A late
proof only makes more seats proven, and an administrator disburses what was saved with
the hold; it gives `PaidTheSurvivors`.

**Only model-checked.** Liveness (`EveryPostReturns`, `NobodyStarves`,
`EventuallyDecided`, `EventuallyFinished`, `AbandonedTablesEnd`, `PaidIsCredited`,
`EventuallyResolved`): the prover does not handle fairness and `ENABLED`. It
loses its arithmetic back end in modules with RECURSIVE operators, so there are none.

## 6. What is left out

- Amounts are unbounded integers. The code uses `int64` and its policies bound
  stakes and deposits far below 2^62.
- The database's own constraint `wallets_protected_balance_nonneg` (migrations 0004
  and 0016) is a second guard against overdrafts; `NoOverdraft` is shown without it.
- Most modules hold one match or table at a time: matches meet only in the shared
  escrow wallet, which `Ledger` covers, and whose per-match share `NoBorrowedEscrow` and
  `EscrowPaidOnce` watch; in the limits and wallets of an agent, which `Seating` covers;
  and in the queue, which `Matchmaker` covers.
- Wallet resolution (`resolveWallet`) creates or finds rows and is part of `Begin`;
  its failure is `Fail`.
- In `Settlement`, the second rule of the integrity verdict (a share threshold, off
  by default), the detection jobs behind flags, the filing of disputes, and rating
  arithmetic. A crash between `Finish` and `Rate` loses the rating; the code accepts
  that (`match/service.go:1682`).
- In `Matchmaker`, the gates before `Enqueue` (certification, liveness, balance) and the
  house bots that fill a group: refusals change nothing, and fillers join as agents do.
- In `Seating`, tables without a stake (they move no coins), certification and spending
  caps (refusals), and the allocation of coins between the wallets of one owner.
- In `MafiaTable`, signatures, the stale-phase check of a client (`ErrStalePhase`, a
  refusal), completion binding, views and their information, the rating after the
  finish, the grace period after an outage, and the amounts: a split is the set of
  seats it pays, and what is not paid goes to the platform.
- In `MoneyIn`, Stripe Connect, subscriptions and packs; `transfer.reversed` is in
  `Payout`. `ConfirmDevCheckout` (`payments/service.go:108`), which tops up under the key
  of the session as `Reconcile` does, answers only in development, on the offline gateway. Debt is repaid only by credits to an agent (`Mint`), which are left out.
- In `RoundClock`, `DriveTimeout` (`match/service.go:1161`), by which the driver of a hosted
  or sandbox agent that did not answer plays for that seat, under the lock but by the
  driver's own clock: `WindowIsHonoured` is about sweepers. House bots and sandbox tables, the grace period after an outage
  (fewer sweeps, never more), the computation of adaptive windows, database errors
  other than at the extension, and the lapse of a lease while its holder still
  works. Running without locks covers what such a lapse makes possible.
- In `Payout`, the policies that refuse a request or an approval (clearing time,
  velocity caps, flags, breaker, funding of the hot wallet), and the owner's lock
  around them. Assumed: a blockhash lapses well within 3 minutes, the clocks of the
  server and the database agree to within the difference, and a watcher does not
  stall that long between asking the chain and reading its clock. The limit of 100
  rows per sweep is not modelled: rows beyond it wait for their turn.
- The components marked `not_modelled` in `PROJECT.json`, each with its reason.

## 7. Plan

The protocols that move coins or decide when to are modelled. What is left, most
important first:

1. That the other modules that share the escrow wallet (`Settlement`, `MafiaTable`,
   `ReadyCheck`) refine `TableEscrow` as `Seating` does, and that all postings are steps of
   `AtomicLedger`.
2. `EventOutbox`: several dispatchers, at least once, handlers that fail.
3. The Goofspiel resolution as a function, checked against a reference definition.

## Running

    tlc -workers 2 -config MCLedger.cfg MCLedger
    tlapm LedgerProofs.tla

`PROJECT.json` names the module and configuration of every run, the lines each
definition models, and the mistake each property catches.
