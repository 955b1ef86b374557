----------------------------- MODULE UnitLedger -----------------------------
(***************************************************************************)
(* What the package ledger promises, seen from outside: a purchase is      *)
(* issued with a number of units and may be voided; a slot takes at most   *)
(* one unit in its life, gives it back at most once, and a purchase never  *)
(* has more units in use than it was issued with.                          *)
(*                                                                         *)
(* LessonSlots implements it with one transaction per step, BookingTx with *)
(* the statements and locks of concurrent transactions.                    *)
(***************************************************************************)
EXTENDS Naturals, FiniteSets

CONSTANTS Slots, Orders, NoOrder

VARIABLES
    standing,   \* of each purchase: none, live or voided
    size,       \* units each purchase was issued with
    unit,       \* the purchase whose unit a slot holds, or NoOrder
    spent       \* slots that hold or held a unit

ledger == <<standing, size, unit, spent>>

InUse(o) == {s \in Slots : unit[s] = o}

Init ==
    /\ standing = [o \in Orders |-> "none"]
    /\ size = [o \in Orders |-> 0]
    /\ unit = [s \in Slots |-> NoOrder]
    /\ spent = {}

\* A purchase with any number of units.
Issue(o) ==
    /\ standing[o] = "none"
    /\ standing' = [standing EXCEPT ![o] = "live"]
    /\ size'[o] \in Nat
    /\ size' = [size EXCEPT ![o] = size'[o]]
    /\ UNCHANGED <<unit, spent>>

Void(o) ==
    /\ standing[o] = "live"
    /\ standing' = [standing EXCEPT ![o] = "voided"]
    /\ unit' = [s \in Slots |-> IF unit[s] = o THEN NoOrder ELSE unit[s]]
    /\ UNCHANGED <<size, spent>>

\* The units of the slots in R come back, and slot n takes one of o.
Take(R, n, o) ==
    /\ n \notin spent
    /\ standing[o] = "live"
    /\ Cardinality(InUse(o) \ R) < size[o]
    /\ unit' = [s \in Slots |-> IF s = n THEN o
                                ELSE IF s \in R THEN NoOrder ELSE unit[s]]
    /\ spent' = spent \cup {n}
    /\ UNCHANGED <<standing, size>>

Release(s) ==
    /\ unit' = [unit EXCEPT ![s] = NoOrder]
    /\ UNCHANGED <<standing, size, spent>>

Next ==
    \/ \E s \in Slots : Release(s)
    \/ \E o \in Orders : Issue(o) \/ Void(o)
    \/ \E n \in Slots, o \in Orders :
          \/ Take({}, n, o)
          \/ \E s \in Slots \ {n} : Take({s}, n, o)

Spec == Init /\ [][Next]_ledger
=============================================================================
