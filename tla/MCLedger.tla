------------------------------ MODULE MCLedger ------------------------------
(***************************************************************************)
(* A small ledger for TLC: an agent, the match escrow, the house and the   *)
(* clearing wallet (the outside world, the only source of coins).          *)
(***************************************************************************)
EXTENDS Ledger, TLC

Agent    == 1
Escrow   == 2
Revenue  == 3
Clearing == 4

MCWallets == 1 .. 4
MCKind == Agent :> "agent" @@ Escrow :> "escrow"
              @@ Revenue :> "platform_revenue" @@ Clearing :> "stripe_clearing"

Txn(key, postings) ==
    [key     |-> key,
     touched |-> DOMAIN postings,
     delta   |-> [w \in MCWallets |->
                     IF w \in DOMAIN postings THEN postings[w] ELSE 0]]

Deposit == Txn("deposit", Agent :> 2 @@ Clearing :> -2)
Stake   == Txn("stake",   Agent :> -2 @@ Escrow :> 2)
Settle  == Txn("pay",     Agent :> 1 @@ Escrow :> -2 @@ Revenue :> 1)
Refund  == Txn("pay",     Agent :> 2 @@ Escrow :> -2)
Withdraw == Txn("withdraw", Agent :> -2 @@ Clearing :> 2)
\* A settlement that forgets its counterpart, and an empty one.
Lopsided == Txn("lopsided", Revenue :> 1)
Nothing  == Txn("nothing", <<>>)
\* The house books the same key against different wallets.
HouseCut == Txn("pay", Revenue :> 1 @@ Clearing :> -1)

MCCalls == {Deposit, Stake, Settle, Refund, Withdraw, Lopsided, Nothing, HouseCut}
=============================================================================
