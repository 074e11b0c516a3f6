---------------------------- MODULE TableEscrow ----------------------------
(***************************************************************************)
(* What the shared escrow wallet promises its tables, though it keeps one  *)
(* balance for all of them: a table's coins come from wallets that can     *)
(* pay, once; they leave once, all of them, in one transaction; and no     *)
(* table is served from the coins of another.  Module Seating implements   *)
(* it, whatever lapses, dies or fails.                                     *)
(***************************************************************************)
EXTENDS Integers, FiniteSets

CONSTANTS
    Agents, Tables,
    Bid         \* stake of every table

VARIABLES
    wallet,     \* the agents' wallets
    coins,      \* per table: its part of the escrow wallet
    phase       \* per table: "open", "staked", "closed"

Credit(S, n) == wallet' = [a \in Agents |-> IF a \in S THEN wallet[a] + n ELSE wallet[a]]

Init ==
    /\ wallet \in [Agents -> Nat]
    /\ coins = [t \in Tables |-> 0]
    /\ phase = [t \in Tables |-> "open"]

\* Some agents that can pay stake for the table.
Collect(t) ==
    /\ phase[t] = "open"
    /\ \E S \in SUBSET {a \in Agents : wallet[a] >= Bid} :
        /\ S # {} /\ IsFiniteSet(S)
        /\ Credit(S, -Bid)
        /\ coins' = [coins EXCEPT ![t] = Bid * Cardinality(S)]
    /\ phase' = [phase EXCEPT ![t] = "staked"]

\* Nothing is left behind.
Close(t) ==
    /\ phase[t] = "staked"
    /\ coins' = [coins EXCEPT ![t] = 0]
    /\ phase' = [phase EXCEPT ![t] = "closed"]

\* The coins are given back, to as many as staked ...
GiveBack(t) ==
    /\ Close(t)
    /\ \E S \in SUBSET Agents :
        IsFiniteSet(S) /\ coins[t] = Bid * Cardinality(S) /\ Credit(S, Bid)

\* ... or all won by one.
Award(t) == Close(t) /\ \E w \in Agents : Credit({w}, coins[t])

Next == \E t \in Tables : Collect(t) \/ GiveBack(t) \/ Award(t)

Spec == Init /\ [][Next]_<<wallet, coins, phase>>
=============================================================================
