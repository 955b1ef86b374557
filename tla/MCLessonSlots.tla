--------------------------- MODULE MCLessonSlots ---------------------------
(* Small instances of LessonSlots for TLC. *)
EXTENDS LessonSlots, TLC

CONSTANTS t1, l1, k1, f1

OnePkgTeacher == (k1 :> t1)
OnePkgDuration == (k1 :> 1)
OnePkgCount == (k1 :> 1)
OneTariffTeacher == (f1 :> t1)
OneTariffDuration == (f1 :> 1)
OneTariffAccess == {<<f1, l1>>}
OneWindow == [t \in Teachers |-> 1]
OneCell == {<<t1, 1>>}

Symmetry == Permutations(Slots) \cup Permutations(Orders)
=============================================================================
