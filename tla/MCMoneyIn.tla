------------------------------ MODULE MCMoneyIn ------------------------------
(***************************************************************************)
(* A deposit session with a short and two sufficient transfers; a purchase *)
(* of two coins with its refunds; and one of each.                         *)
(***************************************************************************)
EXTENDS MoneyIn, TLC

CONSTANTS s1, x1, x2, x3, p1, w1, w2

MCForSession == x1 :> s1 @@ x2 :> s1 @@ x3 :> s1

Deposits(transfers, workers, prompt) ==
    [transfers |-> transfers, purchases |-> {}, kinds |-> {}, refunds |-> 0,
     named |-> {}, workers |-> workers, prompt |-> prompt]

Checkout(kinds, refunds, named, prompt) ==
    [transfers |-> {}, purchases |-> {p1}, kinds |-> kinds, refunds |-> refunds,
     named |-> named, workers |-> {w1, w2}, prompt |-> prompt]

MCSituations == {
    \* Two pollers that look in time, and two that may not.
    Deposits({x1, x2, x3}, {w1}, TRUE),
    Deposits({x2, x3}, {w1, w2}, TRUE),
    Deposits({x2}, {w1, w2}, FALSE),
    \* One payment told twice; one refunded in two parts; one completed before it
    \* settles, that named no agent.
    Checkout({"completed", "settled"}, 1, {p1}, FALSE),
    Checkout({"completed"}, 2, {p1}, TRUE),
    Checkout({"unpaid", "settled"}, 1, {}, FALSE)}
=============================================================================
