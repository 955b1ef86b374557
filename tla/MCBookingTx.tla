---------------------------- MODULE MCBookingTx ----------------------------
(* Small instances of BookingTx for TLC. *)
EXTENDS BookingTx, TLC

CONSTANTS a, c, d, o1, l1, l2

\* c and d would start at one time.
McStart == [s \in Slots |-> IF s = a THEN 1 ELSE 2]
McOwner == [o \in Orders |-> l1]
McCount == [o \in Orders |-> 1]
McExpires == [o \in Orders |-> 1]

\* One lesson is booked by two learners, cancelled, and moved by learner and
\* teacher to one time, where another is assigned; its package is refunded.
Contended == {Job("book", a, a, l1, NoOrder),
              Job("book", a, a, l2, NoOrder),
              Job("cancel", a, NoSlot, NoLearner, NoOrder),
              Job("assign", d, d, l1, NoOrder),
              Job("rescheduleByLearner", a, c, l1, NoOrder),
              Job("rescheduleByTeacher", a, d, NoLearner, NoOrder),
              Job("refund", NoSlot, NoSlot, NoLearner, o1)}
=============================================================================
