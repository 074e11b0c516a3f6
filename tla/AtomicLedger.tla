---------------------------- MODULE AtomicLedger ----------------------------
(***************************************************************************)
(* What the ledger promises its callers: a transaction happens at once and *)
(* as a whole, once per key, and only if it is balanced and every          *)
(* protected wallet can pay.  Module Ledger implements it; the modules of  *)
(* the services that move coins use it in its place.                       *)
(***************************************************************************)
EXTENDS LedgerTables

Apply(c) ==
    /\ ~ Posted(c.key)
    /\ c.touched # {}
    /\ Balanced(c)
    /\ Affordable(c)
    /\ WriteEntries(c)

Init == EmptyTables

Next == \E c \in Calls : Apply(c)

Spec == Init /\ [][Next]_<<journal, balance>>
=============================================================================
