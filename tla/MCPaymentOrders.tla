-------------------------- MODULE MCPaymentOrders --------------------------
(* Small instances of PaymentOrders for TLC. *)
EXTENDS PaymentOrders

CONSTANTS plain, slot, pkg, sub1, sub2, te, t1, t2, t3

AllProducts ==
    [o \in Orders |-> CASE o = plain -> "plain" [] o = slot -> "slot"
                       [] o = pkg -> "package" [] OTHER -> "subscription"]
OneTeacher == [o \in Orders |-> te]

SmallScenes ==
    {{plain, t1, t3}, {plain, pkg, t1}, {pkg, t1, t2}, {sub1, t1, t2}, {slot, sub1, t1}}
OneScene == {Orders \cup Txns}
=============================================================================
