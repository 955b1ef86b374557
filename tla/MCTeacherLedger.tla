-------------------------- MODULE MCTeacherLedger --------------------------
(* Small instances of TeacherLedger for TLC. *)
EXTENDS TeacherLedger, TLC

CONSTANTS a, b, c, l1, l2, t1

McPairOf == [s \in Lessons |-> IF s = c THEN <<t1, l2>> ELSE <<t1, l1>>]
McPrice == [s \in Lessons |-> IF s = a THEN 2 ELSE 1]
McCompletedAt == [s \in Lessons |-> IF s = a THEN 1 ELSE IF s = b THEN 2 ELSE 3]

\* A part of the oldest lesson, more than the pair owes, a ticked lesson,
\* another pair; un-completing.
AllRequests ==
    {SettleJob(<<t1, l1>>, 1, {}), SettleJob(<<t1, l1>>, 4, {}),
     SettleJob(<<t1, l1>>, 2, {b}), SettleJob(<<t1, l2>>, 1, {}),
     UncompleteJob(a), UncompleteJob(b)}

Symmetry == Permutations(Txns)
=============================================================================
