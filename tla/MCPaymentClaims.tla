-------------------------- MODULE MCPaymentClaims --------------------------
(* Small instances of PaymentClaims for TLC. *)
EXTENDS PaymentClaims, TLC

CONSTANTS a, b, l1, t1, m1, p1, x1

McSlotTeacher == [s \in Slots |-> t1]
McMethodTeacher == [m \in Methods |-> t1]
McPurchaseLearner == [p \in {p1} |-> l1]
McPurchaseTeacher == [p \in {p1} |-> t1]

McBooked == (a :> NoLearner) @@ (b :> l1)

\* Both lessons in either order, once with a package; refunds of what x1
\* claimed.
AllRequests ==
    {ClaimJob("learner", t1, l1, m1, <<a, b>>, 1),
     ClaimJob("teacher", t1, l1, NoMethod, <<b, p1, a>>, 1),
     RefundJob(x1, 1)}
=============================================================================
