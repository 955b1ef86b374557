---------------------------- MODULE LessonProofs ----------------------------
(***************************************************************************)
(* Proofs about LessonSlots for every number of slots, orders, learners,   *)
(* teachers and packages: its types; its ledger of package units, of which *)
(* no purchase is overdrawn and every step is a step of the abstract       *)
(* UnitLedger; and the lessons themselves: completions agree with          *)
(* statuses, no start is taken twice, rescheduling keeps one live          *)
(* successor, units back lessons, and what is settled or cancelled stays   *)
(* so.                                                                     *)
(***************************************************************************)
EXTENDS LessonSlots, FiniteSetTheorems, TLAPS

Ledgers == [Slots -> ConsRow]

-----------------------------------------------------------------------------
(* Types.                                                                  *)

\* Writing one row gives a ledger.
LEMMA WriteConsType ==
    ASSUME NEW c \in Ledgers, NEW s \in Slots, NEW o \in Orders
    PROVE  WriteCons(c, s, o) \in Ledgers
  BY DEF WriteCons, Ledgers, ConsRow

\* consumePackageUnit gives a ledger.
LEMMA ConsumeType ==
    ASSUME NEW c \in Ledgers, NEW s \in Slots, NEW l, NEW t, NEW d,
           NEW e \in consumePackageUnit(c, s, l, t, d)
    PROVE  e \in Ledgers
  <1>1. CASE Consumable(c, s, l, t, d)
    <2>1. PICK o \in EarliestExpiring(Eligible(c, l, t, d)) : e = WriteCons(c, s, o)
      BY <1>1 DEF consumePackageUnit
    <2>2. o \in Orders
      BY DEF EarliestExpiring, Eligible
    <2>3. QED
      BY <2>1, <2>2, WriteConsType
  <1>2. CASE ~Consumable(c, s, l, t, d)
    BY <1>2 DEF consumePackageUnit
  <1>3. QED
    BY <1>1, <1>2

\* Giving one unit back gives a ledger.
LEMMA RestoreType ==
    ASSUME NEW c \in Ledgers, NEW s \in Slots
    PROVE  restorePackageConsumption(c, s) \in Ledgers
  BY DEF restorePackageConsumption, Ledgers, ConsRow

\* Giving all units of a purchase back gives a ledger.
LEMMA RestoreAllType ==
    ASSUME NEW c \in Ledgers, NEW o \in Orders
    PROVE  restoreAllConsumptions(c, o) \in Ledgers
  BY DEF restoreAllConsumptions, Ledgers, ConsRow

\* The rows that inserts write are rows of lesson_slots.
LEMMA RowTypes ==
    ASSUME NEW t \in Teachers \cup {NoTeacher}, NEW x \in Nat, NEW d \in Nat,
           NEW f \in Tariffs \cup {NoTariff}
    PROVE  /\ OpenRow(t, x, d, f) \in SlotRow
           /\ \A l \in Learners \cup {NoLearner}, p \in Slots \cup {NoSlot} :
                 BookedRow(t, l, x, d, f, p) \in SlotRow
  BY DEF OpenRow, BookedRow, SlotRow, Absent, LessonStatus

\* So is a missing row.
LEMMA AbsentType == Absent \in SlotRow
  BY DEF Absent, SlotRow

\* So is a cancelled one.
LEMMA CancelRowType ==
    ASSUME NEW r \in SlotRow, NEW by \in {"learner", "teacher", "admin"}, now \in Nat
    PROVE  CancelRow(r, by) \in SlotRow
  BY DEF CancelRow, SlotRow, LessonStatus

\* In a state of the right type, the ledger a step writes is a ledger.
LEMMA TypedLedger == TypeOK => cons \in Ledgers
  BY DEF TypeOK, PackageTypeOK, Ledgers

\* Billing operations keep the types.
LEMMA PackageTypes ==
    ASSUME TypeOK, PackageNext, UNCHANGED slotVars
    PROVE  TypeOK'
  <1> USE PackageAssumption, TypedLedger
  <1>1. ASSUME NEW o \in Orders, NEW l \in Learners, NEW k \in Packages,
               CheckoutPackage(o, l, k)
        PROVE  TypeOK'
    BY <1>1 DEF CheckoutPackage, TypeOK, PackageTypeOK, OrderRow, OrderStatus, slotVars
  <1>2. ASSUME NEW o \in Orders, NEW l \in Learners, NEW k \in Packages,
               NEW stacking \in BOOLEAN, IssueTeacherPackageGrant(o, l, k, stacking)
        PROVE  TypeOK'
    BY <1>2 DEF IssueTeacherPackageGrant, TypeOK, PackageTypeOK, OrderRow,
                OrderStatus, PurchaseRow, slotVars
  <1>3. ASSUME NEW o \in Orders, NEW st \in {"paid", "failed"}, SettleOrder(o, st)
        PROVE  TypeOK'
    BY ZenonT(60), <1>3 DEF SettleOrder, TypeOK, PackageTypeOK, OrderRow, OrderStatus, slotVars
  <1>4. ASSUME NEW o \in Orders, ProcessPackageGrant(o)
        PROVE  TypeOK'
    BY <1>4 DEF ProcessPackageGrant, TypeOK, PackageTypeOK, OrderRow, PurchaseRow, slotVars
  <1>5. ASSUME NEW o \in Orders, RevokeTeacherPackageGrant(o)
        PROVE  TypeOK'
    <2>1. cons' \in Ledgers
      BY <1>5, RestoreAllType DEF RevokeTeacherPackageGrant
    <2>2. order' \in [Orders -> OrderRow]
      BY ZenonT(60), <1>5 DEF RevokeTeacherPackageGrant, TypeOK, PackageTypeOK, OrderRow,
                  OrderStatus
    <2>3. purchase' \in [Orders -> PurchaseRow]
      BY <1>5 DEF RevokeTeacherPackageGrant, TypeOK, PackageTypeOK, PurchaseRow
    <2>4. QED
      BY <1>5, <2>1, <2>2, <2>3 DEF RevokeTeacherPackageGrant, TypeOK, PackageTypeOK,
                              slotVars, Ledgers
  <1>6. ASSUME NEW o \in Orders, RefundPackage(o)
        PROVE  TypeOK'
    BY <1>6, RestoreAllType DEF RefundPackage, TypeOK, PackageTypeOK, PurchaseRow,
       slotVars, Ledgers
  <1>7. QED
    BY <1>1, <1>2, <1>3, <1>4, <1>5, <1>6 DEF PackageNext

\* Cancelling, whoever does it, keeps the types.
LEMMA CancelTypes ==
    ASSUME TypeOK, NEW s \in Slots, NEW by \in {"learner", "teacher", "admin"},
           CancelAndRestore(s, by)
    PROVE  TypeOK'
  BY RestoreType, CancelRowType, TypedLedger
     DEF CancelAndRestore, TypeOK, PackageTypeOK, Ledgers

\* So does rescheduling.
LEMMA RescheduleTypes ==
    ASSUME TypeOK, NEW s \in Slots, NEW n \in Slots, NEW x \in Starts,
           NEW by \in {"learner", "teacher"}, Reschedule(s, n, x, by)
    PROVE  TypeOK'
  <1> DEFINE restored == restorePackageConsumption(cons, s)
             moved == [slot EXCEPT ![s] = CancelRow(slot[s], by)]
             new == BookedRow(slot[s].teacher, slot[s].learner, x, slot[s].dur,
                              slot[s].tariff, s)
  <1>1. slot[s] \in SlotRow /\ now \in Nat /\ x \in Nat
    BY SlotAssumption DEF TypeOK, PackageTypeOK
  <1>2. CancelRow(slot[s], by) \in SlotRow
    BY <1>1, CancelRowType
  <1>3. new \in SlotRow
    BY <1>1, RowTypes DEF SlotRow
  <1>4. slot' \in [Slots -> SlotRow]
    <2>1. moved \in [Slots -> SlotRow]
      BY <1>2 DEF TypeOK
    <2>2. slot' = [moved EXCEPT ![n] = new]
      BY DEF Reschedule
    <2>3. QED
      BY <2>1, <2>2, <1>3
  <1>5. cons' \in Ledgers
    <2>1. restored \in Ledgers
      BY RestoreType, TypedLedger
    <2>2. cons' \in IF slot[s].tariff = NoTariff THEN {restored}
                    ELSE consumePackageUnit(restored, n, slot[s].learner,
                                            slot[s].teacher, slot[s].dur)
      BY DEF Reschedule
    <2>3. QED
      BY <2>1, <2>2, ConsumeType
  <1>6. QED
    BY <1>4, <1>5 DEF Reschedule, TypeOK, PackageTypeOK, Ledgers

\* Changing a status keeps the rows well typed.
LEMMA StatusType ==
    ASSUME NEW rows \in [Slots -> SlotRow], NEW s \in Slots, NEW st \in LessonStatus
    PROVE  [rows EXCEPT ![s].status = st] \in [Slots -> SlotRow]
  <1>1. rows[s] \in SlotRow
    OBVIOUS
  <1>2. [rows[s] EXCEPT !.status = st] \in SlotRow
    BY <1>1 DEF SlotRow
  <1>3. QED
    BY <1>2

\* Reserving a slot for a learner keeps them well typed.
LEMMA ReserveType ==
    ASSUME TypeOK, NEW s \in Slots, NEW l \in Learners, Reserve(s, l)
    PROVE  slot' \in [Slots -> SlotRow]
  <1>1. slot[s] \in SlotRow
    BY DEF TypeOK
  <1>2. [slot[s] EXCEPT !.status = "booked", !.learner = l] \in SlotRow
    BY <1>1 DEF SlotRow, LessonStatus
  <1>3. slot' = [slot EXCEPT ![s] = [slot[s] EXCEPT !.status = "booked", !.learner = l]]
    BY DEF Reserve, TypeOK
  <1>4. QED
    BY <1>2, <1>3 DEF TypeOK

\* Correcting who missed a lesson keeps completions well typed.
LEMMA NoShowType ==
    ASSUME NEW rows \in [Slots -> CompletionRow], NEW s \in Slots, NEW b \in BOOLEAN
    PROVE  [rows EXCEPT ![s].noShow = b] \in [Slots -> CompletionRow]
  BY DEF CompletionRow

\* A completion and the status its trigger writes have the right types.
LEMMA CompletionTypes ==
    ASSUME TypeOK, NEW s \in Slots, NEW noShow \in BOOLEAN, InsertCompletion(s, noShow)
    PROVE  /\ completion' \in [Slots -> CompletionRow]
           /\ slot' \in [Slots -> SlotRow]
  <1>1. completion' \in [Slots -> CompletionRow]
    BY DEF InsertCompletion, TypeOK, PackageTypeOK, CompletionRow
  <1>2. slot' \in [Slots -> SlotRow]
    BY StatusType DEF InsertCompletion, TypeOK, LessonStatus
  <1>3. QED
    BY <1>1, <1>2

\* Every state has the right types: each handler writes rows the tables accept,
\* the bulk insert and the two rewrites of the ledger included.
THEOREM TypeCorrect == Spec => []TypeOK
  <1>1. Init => TypeOK
    BY AbsentType DEF Init, PackageInit, TypeOK, PackageTypeOK, OrderRow,
       OrderStatus, PurchaseRow, ConsRow, NoCons, CompletionRow, NoCompletion
  <1>2. TypeOK /\ [Next]_vars => TypeOK'
    <2> SUFFICES ASSUME TypeOK, [Next]_vars
                 PROVE  TypeOK'
      OBVIOUS
    <2> USE PackageAssumption, SlotAssumption
    <2>1. CASE UNCHANGED vars
      BY <2>1 DEF vars, TypeOK, PackageTypeOK
    <2>2. CASE Tick
      BY <2>2 DEF Tick, TypeOK, PackageTypeOK
    <2>3. CASE PackageNext /\ UNCHANGED slotVars
      BY <2>3, PackageTypes
    <2>4. ASSUME NEW s \in Slots, NEW t \in Teachers, NEW x \in Starts, NEW d \in Durations,
                 CreatePersonalEvent(s, t, x, d)
          PROVE  TypeOK'
      <3>1. OpenRow(t, x, d, NoTariff) \in SlotRow
        BY RowTypes
      <3>2. [OpenRow(t, x, d, NoTariff) EXCEPT !.status = "personal_event",
                                               !.personal = TRUE] \in SlotRow
        BY <3>1 DEF SlotRow
      <3>3. QED
        BY <2>4, <3>2 DEF CreatePersonalEvent, TypeOK, PackageTypeOK
    <2>5. ASSUME NEW s \in Slots, NEW x \in Starts, NEW d \in Durations, EditOpenSlot(s, x, d)
          PROVE  TypeOK'
      <3>1. slot[s] \in SlotRow
        BY DEF TypeOK
      <3>2. [slot[s] EXCEPT !.start = x, !.dur = d] \in SlotRow
        BY <3>1 DEF SlotRow
      <3>3. slot' = [slot EXCEPT ![s] = [slot[s] EXCEPT !.start = x, !.dur = d]]
        BY <2>5 DEF EditOpenSlot, TypeOK
      <3>4. QED
        BY <2>5, <3>2, <3>3 DEF EditOpenSlot, TypeOK, PackageTypeOK
    <2>6. ASSUME NEW s \in Slots, NEW t \in Teachers, NEW x \in Starts, NEW d \in Durations,
                 NEW f \in Tariffs \cup {NoTariff}, CreateSlot(s, t, x, d, f)
          PROVE  TypeOK'
      <3>1. OpenRow(t, x, d, f) \in SlotRow
        BY RowTypes
      <3>2. QED
        BY <2>6, <3>1 DEF CreateSlot, TypeOK, PackageTypeOK
    <2>7. ASSUME NEW s \in Slots, NEW t \in Teachers, NEW x \in Starts, NEW d \in Durations,
                 NEW f \in Tariffs \cup {NoTariff}, NEW l \in Learners,
                 NEW choice \in {"auto", "package", "postpaid"},
                 NEW pinned \in Orders \cup {NoOrder},
                 AssignSlotDirect(s, t, l, x, d, f, choice, pinned)
          PROVE  TypeOK'
      <3>1. BookedRow(t, l, x, d, f, NoSlot) \in SlotRow
        BY RowTypes
      <3>2. cons' \in Ledgers
        <4>1. \/ cons' = cons
              \/ pinned # NoOrder /\ cons' = WriteCons(cons, s, pinned)
              \/ cons' \in consumePackageUnit(cons, s, l, t, d)
          BY <2>7 DEF AssignSlotDirect
        <4>2. QED
          BY <4>1, TypedLedger, WriteConsType, ConsumeType
      <3>3. slot' \in [Slots -> SlotRow]
        BY <2>7, <3>1 DEF AssignSlotDirect, TypeOK
      <3>4. QED
        BY <2>7, <3>2, <3>3 DEF AssignSlotDirect, TypeOK, PackageTypeOK, Ledgers
    <2>8. ASSUME NEW X \in SUBSET Starts, NEW ids \in [X -> Slots], NEW t \in Teachers,
                 NEW d \in Durations, NEW f \in Tariffs \cup {NoTariff},
                 BulkCreateSlots(ids, t, d, f)
          PROVE  TypeOK'
      <3> DEFINE fresh == {x \in DOMAIN ids : FreeStart(slot, NoSlot, t, x)}
                 At(s) == CHOOSE x \in fresh : ids[x] = s
      <3>1. slot' = [s \in Slots |-> IF \E x \in fresh : ids[x] = s
                                    THEN OpenRow(t, At(s), d, f) ELSE slot[s]]
        BY <2>8 DEF BulkCreateSlots
      <3>2. ASSUME NEW s \in Slots, \E x \in fresh : ids[x] = s
            PROVE  OpenRow(t, At(s), d, f) \in SlotRow
        <4>1. At(s) \in Nat
          BY <3>2
        <4>2. QED
          BY <4>1, RowTypes
      <3>3. slot' \in [Slots -> SlotRow]
        BY <3>1, <3>2 DEF TypeOK
      <3>4. QED
        BY <2>8, <3>3 DEF BulkCreateSlots, TypeOK, PackageTypeOK
    <2>9. ASSUME NEW s \in Slots, NEW l \in Learners, BookSlotLegacy(s, l)
          PROVE  TypeOK'
      BY <2>9, ReserveType DEF BookSlotLegacy, TypeOK, PackageTypeOK
    <2>10. ASSUME NEW s \in Slots, NEW l \in Learners, BookSlot(s, l)
           PROVE  TypeOK'
      <3>1. cons' \in Ledgers
        BY <2>10, TypedLedger, ConsumeType DEF BookSlot
      <3>2. slot' \in [Slots -> SlotRow]
        BY <2>10, ReserveType DEF BookSlot
      <3>3. QED
        BY <2>10, <3>1, <3>2 DEF BookSlot, TypeOK, PackageTypeOK, Ledgers
    <2>11. ASSUME NEW s \in Slots, NEW by \in {"learner", "teacher", "admin"},
                  CancelAndRestore(s, by)
           PROVE  TypeOK'
      BY <2>11, CancelTypes
    <2>12. ASSUME NEW s \in Slots, NEW x \in Starts, MoveOpenSlot(s, x)
           PROVE  TypeOK'
      <3>1. slot[s] \in SlotRow /\ x \in Nat
        BY SlotAssumption DEF TypeOK
      <3>2. [slot[s] EXCEPT !.start = x] \in SlotRow
        BY <3>1 DEF SlotRow
      <3>3. slot' = [slot EXCEPT ![s] = [slot[s] EXCEPT !.start = x]]
        BY <2>12 DEF MoveOpenSlot
      <3>4. slot' \in [Slots -> SlotRow]
        BY <3>2, <3>3 DEF TypeOK
      <3>5. QED
        BY <2>12, <3>4 DEF MoveOpenSlot, TypeOK, PackageTypeOK
    <2>13. ASSUME NEW s \in Slots, NEW n \in Slots, NEW x \in Starts,
                  \/ RescheduleSlotByLearner(s, n, x)
                  \/ RescheduleSlotByTeacher(s, n, x)
           PROVE  TypeOK'
      BY <2>13, RescheduleTypes DEF RescheduleSlotByLearner, RescheduleSlotByTeacher
    <2>14. ASSUME NEW s \in Slots, DeleteOpenSlot(s)
           PROVE  TypeOK'
      BY <2>14, AbsentType DEF DeleteOpenSlot, TypeOK, PackageTypeOK
    <2>15. ASSUME NEW s \in Slots, MarkNoShowTeacher(s)
           PROVE  TypeOK'
      BY <2>15, StatusType DEF MarkNoShowTeacher, TypeOK, PackageTypeOK, LessonStatus
    <2>16. ASSUME NEW s \in Slots, Uncomplete(s)
           PROVE  TypeOK'
      BY <2>16, StatusType DEF Uncomplete, TypeOK, PackageTypeOK, LessonStatus,
                               CompletionRow, NoCompletion
    <2>17. ASSUME NEW s \in Slots, SettleLesson(s)
           PROVE  TypeOK'
      BY <2>17 DEF SettleLesson, TypeOK, PackageTypeOK, CompletionRow
    <2>18. ASSUME NEW s \in Slots, NEW noShow \in BOOLEAN, MarkLessonCompleted(s, noShow)
           PROVE  TypeOK'
      BY <2>18, CompletionTypes DEF MarkLessonCompleted, TypeOK, PackageTypeOK
    <2>19. ASSUME NEW s \in Slots, NEW to \in LessonStatus, ChangeLessonStatus(s, to)
           PROVE  TypeOK'
      <3>1. completion' \in [Slots -> CompletionRow] /\ slot' \in [Slots -> SlotRow]
        <4>1. CASE InsertCompletion(s, to = "no_show_learner")
          BY <4>1, CompletionTypes
        <4>2. CASE slot' = [slot EXCEPT ![s].status = to]
          <5>1. completion' \in [Slots -> CompletionRow]
            <6>1. \/ completion' = [completion EXCEPT ![s].noShow = (to = "no_show_learner")]
                  \/ completion' = [completion EXCEPT ![s] = NoCompletion]
                  \/ completion' = completion
                  \/ InsertCompletion(s, to = "no_show_learner")
              BY <2>19 DEF ChangeLessonStatus
            <6>2. [completion EXCEPT ![s].noShow = (to = "no_show_learner")]
                     \in [Slots -> CompletionRow]
              <7>1. (to = "no_show_learner") \in BOOLEAN
                OBVIOUS
              <7>2. QED
                BY <7>1, NoShowType DEF TypeOK
            <6>3. [completion EXCEPT ![s] = NoCompletion] \in [Slots -> CompletionRow]
              BY DEF TypeOK, CompletionRow, NoCompletion
            <6>4. QED
              BY <6>1, <6>2, <6>3, CompletionTypes DEF TypeOK
          <5>2. QED
            BY <4>2, <5>1, StatusType DEF TypeOK
        <4>3. QED
          BY <2>19, <4>1, <4>2 DEF ChangeLessonStatus
      <3>2. QED
        BY <2>19, <3>1 DEF ChangeLessonStatus, TypeOK, PackageTypeOK
    <2>20. ASSUME NEW s \in Slots, NEW to \in DealStatus, ChangeDealStatus(s, to)
           PROVE  TypeOK'
      <3>1. slot[s] \in SlotRow /\ now \in Nat
        BY DEF TypeOK, PackageTypeOK
      <3>2. [slot[s] EXCEPT !.status = to, !.cancelledBy = "nobody",
                            !.cancelledAt = 0] \in SlotRow
        BY <3>1 DEF SlotRow, DealStatus, LessonStatus
      <3>3. CancelRow(slot[s], "teacher") \in SlotRow
        BY <3>1, CancelRowType
      <3>4. QED
        BY <2>20, <3>2, <3>3 DEF ChangeDealStatus, TypeOK, PackageTypeOK
    <2>21. ASSUME NEW t \in Teachers, NEW l \in Learners, SetPaymentMethodForPair(t, l)
           PROVE  TypeOK'
      BY <2>21 DEF SetPaymentMethodForPair, TypeOK, PackageTypeOK
    <2>22. ASSUME NEW cells \in SUBSET BusyCells, RefreshBusy(cells)
           PROVE  TypeOK'
      BY <2>22 DEF RefreshBusy, TypeOK, PackageTypeOK
    <2>23. CASE PublishNext
      BY <2>4, <2>5, <2>6, <2>8, <2>12, <2>14, <2>23 DEF PublishNext
    <2>24. CASE BookNext
      BY <2>7, <2>9, <2>10, <2>24 DEF BookNext
    <2>25. CASE CancelNext
      BY <2>11, <2>13, <2>25
         DEF CancelNext, CancelLearnerSlot, CancelSlot, CancelSlotByTeacher
    <2>26. CASE MarkNext
      BY <2>15, <2>16, <2>17, <2>18, <2>19, <2>20, <2>26 DEF MarkNext
    <2>27. CASE SettingsNext
      BY <2>21, <2>22, <2>27 DEF SettingsNext
    <2>28. QED
      BY <2>1, <2>2, <2>3, <2>23, <2>24, <2>25, <2>26, <2>27 DEF Next
  <1>3. QED
    BY <1>1, <1>2, PTL DEF Spec

-----------------------------------------------------------------------------
(* Ledgers as values: what the three rewrites do to the units in use.      *)

\* The units in use are a finite set, so they can be counted.
LEMMA ActiveFinite ==
    ASSUME NEW c, NEW o
    PROVE  IsFiniteSet(Active(c, o)) /\ Cardinality(Active(c, o)) \in Nat
  <1>1. IsFiniteSet(Slots) /\ Active(c, o) \subseteq Slots
    BY PackageAssumption DEF Active
  <1>2. QED
    BY <1>1, FS_Subset, FS_CardinalityType

\* A ledger with fewer units in use has a smaller count.
LEMMA ActiveMonotone ==
    ASSUME NEW c, NEW e, NEW o, Active(e, o) \subseteq Active(c, o)
    PROVE  Cardinality(Active(e, o)) <= Cardinality(Active(c, o))
  BY ActiveFinite, FS_Subset

\* Restoring a slot's unit takes nothing else away and adds nothing.
LEMMA RestoreActive ==
    ASSUME NEW c \in Ledgers, NEW s \in Slots, NEW o \in Orders
    PROVE  Active(restorePackageConsumption(c, s), o) = Active(c, o) \ {s}
  BY PackageAssumption DEF Active, restorePackageConsumption, Ledgers, ConsRow

\* Restoring every unit of purchase p empties p and leaves the others alone.
LEMMA RestoreAllActive ==
    ASSUME NEW c \in Ledgers, NEW p \in Orders, NEW o \in Orders
    PROVE  Active(restoreAllConsumptions(c, p), o) =
              IF o = p THEN {} ELSE Active(c, o)
  BY DEF Active, restoreAllConsumptions, Ledgers, ConsRow

\* Consuming one unit of p for slot s.
LEMMA WriteActive ==
    ASSUME NEW c \in Ledgers, NEW s \in Slots, NEW p \in Orders, NEW o \in Orders,
           c[s].order = NoOrder
    PROVE  Active(WriteCons(c, s, p), o) =
              IF o = p THEN Active(c, o) \cup {s} ELSE Active(c, o)
  BY PackageAssumption DEF Active, WriteCons, Ledgers, ConsRow

-----------------------------------------------------------------------------
(* The inductive invariant.                                                *)

\* No purchase has more units of ledger c in use than it was sold with.
Fits(c) ==
    \A o \in Orders : purchase[o].st # "none" =>
        Cardinality(Active(c, o)) <= PkgCount[order[o].pkg]

\* Ledger rows name purchases that exist.
Recorded(c) ==
    \A s \in Slots : c[s].order # NoOrder => purchase[c[s].order].st # "none"

\* A purchase has an order, and an order names a package of the catalogue.
OrdersBacked ==
    \A o \in Orders : /\ order[o].st = "none" => purchase[o].st = "none"
                      /\ order[o].st # "none" => order[o].pkg \in Packages

LedgerInv == TypeOK /\ OrdersBacked /\ Recorded(cons) /\ Fits(cons)

\* What a step of the calendar may do to the ledger.
Consumes(c, n) ==
    \E o \in Orders : /\ c[n].order = NoOrder
                      /\ purchase[o].st = "live"
                      /\ HasCapacity(c, o)
                      /\ cons' = WriteCons(c, n, o)

CalendarStep ==
    /\ UNCHANGED <<order, purchase>>
    /\ \/ UNCHANGED cons
       \/ \E s \in Slots : cons' = restorePackageConsumption(cons, s)
       \/ \E n \in Slots : Consumes(cons, n)
       \/ \E s \in Slots : \E n \in Slots \ {s} :
             Consumes(restorePackageConsumption(cons, s), n)

\* consumePackageUnit leaves the ledger alone or takes one unit of a live
\* purchase that has one.
LEMMA ConsumeCases ==
    ASSUME NEW c, NEW n \in Slots, NEW l, NEW t, NEW d,
           cons' \in consumePackageUnit(c, n, l, t, d)
    PROVE  cons' = c \/ Consumes(c, n)
  <1>1. CASE Consumable(c, n, l, t, d)
    <2>1. PICK o \in EarliestExpiring(Eligible(c, l, t, d)) : cons' = WriteCons(c, n, o)
      BY <1>1 DEF consumePackageUnit
    <2>2. o \in Eligible(c, l, t, d)
      BY DEF EarliestExpiring
    <2>3. QED
      BY <1>1, <2>1, <2>2 DEF Consumable, Eligible, Usable, Consumes
  <1>2. CASE ~Consumable(c, n, l, t, d)
    BY <1>2 DEF consumePackageUnit
  <1>3. QED
    BY <1>1, <1>2

\* Rescheduling gives the old unit back and may take a new one.
LEMMA RescheduleCalendar ==
    ASSUME NEW s \in Slots, NEW n \in Slots, NEW x, NEW by, Reschedule(s, n, x, by)
    PROVE  CalendarStep
  <1> DEFINE restored == restorePackageConsumption(cons, s)
  <1>1. n # s
    BY DEF Reschedule
  <1>2. cons' = restored \/ Consumes(restored, n)
    <2>1. CASE slot[s].tariff = NoTariff
      BY <2>1 DEF Reschedule
    <2>2. CASE slot[s].tariff # NoTariff
      BY <2>2, ConsumeCases DEF Reschedule
    <2>3. QED
      BY <2>1, <2>2
  <1>3. QED
    BY <1>1, <1>2 DEF CalendarStep, Reschedule

\* Every action outside billing does at most that.
LEMMA CalendarOnly ==
    ASSUME Tick \/ PublishNext \/ BookNext \/ CancelNext \/ MarkNext \/ SettingsNext
    PROVE  CalendarStep
  <1>1. CASE Tick
    BY <1>1 DEF Tick, CalendarStep
  <1>2. CASE PublishNext
    BY ZenonT(60), <1>2 DEF PublishNext, CalendarStep, CreatePersonalEvent, CreateSlot,
       BulkCreateSlots, EditOpenSlot, MoveOpenSlot, DeleteOpenSlot
  <1>3. CASE BookNext
    <2>1. ASSUME NEW s \in Slots, NEW l \in Learners, BookSlotLegacy(s, l)
          PROVE  CalendarStep
      BY <2>1 DEF BookSlotLegacy, CalendarStep
    <2>2. ASSUME NEW s \in Slots, NEW l \in Learners, BookSlot(s, l)
          PROVE  CalendarStep
      <3>1. cons' = cons \/ Consumes(cons, s)
        BY <2>2, ConsumeCases DEF BookSlot
      <3>2. QED
        BY <2>2, <3>1 DEF BookSlot, CalendarStep
    <2>3. ASSUME NEW s \in Slots, NEW t \in Teachers, NEW l \in Learners,
                 NEW x \in Starts, NEW d \in Durations, NEW f \in Tariffs \cup {NoTariff},
                 NEW choice \in {"auto", "package", "postpaid"},
                 NEW pinned \in Orders \cup {NoOrder},
                 AssignSlotDirect(s, t, l, x, d, f, choice, pinned)
          PROVE  CalendarStep
      <3>1. \/ cons' = cons
            \/ /\ pinned \in Orders /\ cons[s].order = NoOrder
               /\ Usable(pinned) /\ HasCapacity(cons, pinned)
               /\ cons' = WriteCons(cons, s, pinned)
            \/ cons' \in consumePackageUnit(cons, s, l, t, d)
        BY <2>3 DEF AssignSlotDirect
      <3>2. cons' = cons \/ Consumes(cons, s)
        BY <3>1, ConsumeCases DEF Consumes, Usable
      <3>3. QED
        BY <2>3, <3>2 DEF AssignSlotDirect, CalendarStep
    <2>4. QED
      BY <1>3, <2>1, <2>2, <2>3 DEF BookNext
  <1>4. CASE CancelNext
    <2>1. ASSUME NEW s \in Slots, NEW by, CancelAndRestore(s, by)
          PROVE  CalendarStep
      BY <2>1 DEF CancelAndRestore, CalendarStep
    <2>2. QED
      BY <1>4, <2>1, RescheduleCalendar DEF CancelNext, CancelLearnerSlot, CancelSlot,
         CancelSlotByTeacher, RescheduleSlotByLearner, RescheduleSlotByTeacher
  <1>5. CASE MarkNext
    BY <1>5 DEF MarkNext, CalendarStep, MarkNoShowTeacher, Uncomplete, SettleLesson,
       MarkLessonCompleted, ChangeLessonStatus, ChangeDealStatus
  <1>6. CASE SettingsNext
    BY <1>6 DEF SettingsNext, CalendarStep, SetPaymentMethodForPair, RefreshBusy
  <1>7. QED
    BY <1>1, <1>2, <1>3, <1>4, <1>5, <1>6

-----------------------------------------------------------------------------
(* No purchase is overdrawn.                                               *)

\* A calendar step keeps ledger rows recorded and purchases within their size.
LEMMA CalendarKeeps ==
    ASSUME LedgerInv, CalendarStep
    PROVE  Recorded(cons)' /\ Fits(cons)'
  <1> DEFINE Good(c) == /\ c \in Ledgers
                        /\ Recorded(c)
                        /\ Fits(c)
  <1>1. Good(cons)
    BY TypedLedger DEF LedgerInv
  <1>2. ASSUME NEW c, Good(c), NEW s \in Slots
        PROVE  Good(restorePackageConsumption(c, s))
    <2> DEFINE e == restorePackageConsumption(c, s)
    <2>1. e \in Ledgers
      BY <1>2, RestoreType
    <2>2. Recorded(e)
      BY <1>2 DEF Recorded, restorePackageConsumption, Ledgers, ConsRow
    <2>3. ASSUME NEW o \in Orders, purchase[o].st # "none"
          PROVE  Cardinality(Active(e, o)) <= PkgCount[order[o].pkg]
      <3>1. Cardinality(Active(e, o)) <= Cardinality(Active(c, o))
        BY <1>2, RestoreActive, ActiveMonotone
      <3>2. Cardinality(Active(c, o)) <= PkgCount[order[o].pkg]
        BY <1>2, <2>3 DEF Fits
      <3>3. order[o].pkg \in Packages
        BY <2>3 DEF LedgerInv, OrdersBacked
      <3>4. QED
        BY <3>1, <3>2, <3>3, ActiveFinite, PackageAssumption
    <2>4. QED
      BY <2>1, <2>2, <2>3 DEF Fits
  <1>3. ASSUME NEW c, Good(c), NEW n \in Slots, Consumes(c, n)
        PROVE  Good(cons')
    <2>1. PICK p \in Orders : /\ c[n].order = NoOrder
                              /\ purchase[p].st = "live"
                              /\ HasCapacity(c, p)
                              /\ cons' = WriteCons(c, n, p)
      BY <1>3 DEF Consumes
    <2>2. cons' \in Ledgers
      BY <1>3, <2>1, WriteConsType
    <2>3. Recorded(cons')
      BY <1>3, <2>1 DEF Recorded, WriteCons, Ledgers, ConsRow
    <2>4. ASSUME NEW o \in Orders, purchase[o].st # "none"
          PROVE  Cardinality(Active(cons', o)) <= PkgCount[order[o].pkg]
      <3>1. CASE o = p
        <4>1. Active(cons', o) = Active(c, o) \cup {n}
          BY <1>3, <2>1, <3>1, WriteActive
        <4>2. n \notin Active(c, o)
          BY <2>1, PackageAssumption DEF Active
        <4>3. Cardinality(Active(cons', o)) = Cardinality(Active(c, o)) + 1
          BY <4>1, <4>2, ActiveFinite, FS_AddElement
        <4>4. order[o].pkg \in Packages
          BY <2>4 DEF LedgerInv, OrdersBacked
        <4>5. QED
          BY <2>1, <3>1, <4>3, <4>4, ActiveFinite, PackageAssumption DEF HasCapacity
      <3>2. CASE o # p
        BY <1>3, <2>1, <2>4, <3>2, WriteActive DEF Fits
      <3>3. QED
        BY <3>1, <3>2
    <2>5. QED
      BY <2>2, <2>3, <2>4 DEF Fits
  <1>4. Good(cons')
    BY <1>1, <1>2, <1>3 DEF CalendarStep
  <1>5. QED
    BY <1>4 DEF CalendarStep, Recorded, Fits, Active

\* A billing step does, too: a new purchase starts with no unit in use, and
\* voiding one gives all of its units back.
LEMMA BillingKeeps ==
    ASSUME LedgerInv, PackageNext
    PROVE  OrdersBacked' /\ Recorded(cons)' /\ Fits(cons)'
  <1> USE PackageAssumption DEF LedgerInv
  <1>a. cons \in Ledgers
    BY TypedLedger
  <1>1. ASSUME NEW o \in Orders, NEW l \in Learners, NEW k \in Packages,
               CheckoutPackage(o, l, k)
        PROVE  OrdersBacked' /\ Recorded(cons)' /\ Fits(cons)'
    BY <1>1 DEF CheckoutPackage, OrdersBacked, Recorded, Fits, Active, TypeOK,
                PackageTypeOK, OrderRow
  <1>2. ASSUME NEW o \in Orders, NEW st \in {"paid", "failed"}, SettleOrder(o, st)
        PROVE  OrdersBacked' /\ Recorded(cons)' /\ Fits(cons)'
    <2>1. \A q \in Orders : /\ order'[q].pkg = order[q].pkg
                            /\ order'[q].st = "none" <=> order[q].st = "none"
      BY <1>2 DEF SettleOrder, TypeOK, PackageTypeOK, OrderRow
    <2>2. QED
      BY <1>2, <2>1 DEF SettleOrder, OrdersBacked, Recorded, Fits, Active
  <1>3. ASSUME NEW o \in Orders, purchase[o].st = "none", order'[o].pkg \in Packages,
               order'[o].st # "none",
               purchase'[o].st = "live", cons' = cons,
               \A q \in Orders \ {o} : purchase'[q] = purchase[q] /\ order'[q] = order[q]
        PROVE  OrdersBacked' /\ Recorded(cons)' /\ Fits(cons)'
    <2>1. Active(cons, o) = {}
      BY <1>3, <1>a DEF Recorded, Active, Ledgers, ConsRow
    <2>2. Cardinality(Active(cons, o)) = 0
      BY <2>1, FS_EmptySet
    <2>3. OrdersBacked'
      BY <1>3 DEF OrdersBacked
    <2>4. Recorded(cons)'
      BY <1>3, <1>a DEF Recorded, Ledgers, ConsRow
    <2>5. ASSUME NEW q \in Orders, purchase'[q].st # "none"
          PROVE  Cardinality(Active(cons, q)) <= PkgCount[order'[q].pkg]
      BY <1>3, <2>2, <2>5 DEF Fits
    <2>6. QED
      BY <1>3, <2>3, <2>4, <2>5 DEF Fits, Active
  <1>4. ASSUME NEW o \in Orders, ProcessPackageGrant(o)
        PROVE  OrdersBacked' /\ Recorded(cons)' /\ Fits(cons)'
    BY <1>3, <1>4 DEF ProcessPackageGrant, TypeOK, PackageTypeOK, PurchaseRow, OrdersBacked
  <1>5. ASSUME NEW o \in Orders, NEW l \in Learners, NEW k \in Packages,
               NEW stacking \in BOOLEAN, IssueTeacherPackageGrant(o, l, k, stacking)
        PROVE  OrdersBacked' /\ Recorded(cons)' /\ Fits(cons)'
    BY <1>3, <1>5 DEF IssueTeacherPackageGrant, TypeOK, PackageTypeOK, OrderRow,
                      PurchaseRow, OrdersBacked
  <1>6. ASSUME NEW o \in Orders, cons' = restoreAllConsumptions(cons, o),
               purchase' = [purchase EXCEPT ![o].st = "voided"], purchase[o].st # "none",
               \A q \in Orders : /\ order'[q].pkg = order[q].pkg
                                 /\ order'[q].st = "none" <=> order[q].st = "none"
        PROVE  OrdersBacked' /\ Recorded(cons)' /\ Fits(cons)'
    <2>1. \A q \in Orders : purchase'[q].st = "none" <=> purchase[q].st = "none"
      BY <1>6 DEF TypeOK, PackageTypeOK, PurchaseRow
    <2>2. OrdersBacked'
      BY <1>6, <2>1 DEF OrdersBacked
    <2>3. Recorded(cons)'
      BY <1>6, <1>a, <2>1 DEF Recorded, restoreAllConsumptions, Ledgers, ConsRow
    <2>4. ASSUME NEW q \in Orders, purchase'[q].st # "none"
          PROVE  Cardinality(Active(cons', q)) <= PkgCount[order'[q].pkg]
      <3>1. Cardinality(Active(cons', q)) <= Cardinality(Active(cons, q))
        BY <1>6, <1>a, RestoreAllActive, ActiveMonotone
      <3>2. Cardinality(Active(cons, q)) <= PkgCount[order[q].pkg]
        BY <2>1, <2>4 DEF Fits
      <3>3. order[q].pkg \in Packages
        BY <2>1, <2>4 DEF OrdersBacked
      <3>4. QED
        BY <1>6, <3>1, <3>2, <3>3, ActiveFinite
    <2>5. QED
      BY <2>2, <2>3, <2>4 DEF Fits, Active
  <1>7. ASSUME NEW o \in Orders, RevokeTeacherPackageGrant(o)
        PROVE  OrdersBacked' /\ Recorded(cons)' /\ Fits(cons)'
    BY <1>6, <1>7 DEF RevokeTeacherPackageGrant, TypeOK, PackageTypeOK, OrderRow
  <1>8. ASSUME NEW o \in Orders, RefundPackage(o)
        PROVE  OrdersBacked' /\ Recorded(cons)' /\ Fits(cons)'
    BY <1>6, <1>8 DEF RefundPackage
  <1>9. QED
    BY <1>1, <1>2, <1>4, <1>5, <1>7, <1>8 DEF PackageNext

\* The ledger invariant holds in every state.
THEOREM LedgerInvariant == Spec => []LedgerInv
  <1>1. Init => OrdersBacked /\ Recorded(cons) /\ Fits(cons)
    BY DEF Init, PackageInit, OrdersBacked, Recorded, Fits, NoCons
  <1>2. TypeOK /\ TypeOK' /\ OrdersBacked /\ Recorded(cons) /\ Fits(cons) /\ [Next]_vars
        => OrdersBacked' /\ Recorded(cons)' /\ Fits(cons)'
    <2> SUFFICES ASSUME LedgerInv, [Next]_vars
                 PROVE  OrdersBacked' /\ Recorded(cons)' /\ Fits(cons)'
      BY DEF LedgerInv
    <2>1. CASE UNCHANGED vars
      BY <2>1 DEF vars, LedgerInv, OrdersBacked, Recorded, Fits, Active
    <2>2. CASE PackageNext
      BY <2>2, BillingKeeps
    <2>3. CASE Tick \/ PublishNext \/ BookNext \/ CancelNext \/ MarkNext \/ SettingsNext
      <3>1. CalendarStep
        BY <2>3, CalendarOnly
      <3>2. OrdersBacked'
        BY <3>1 DEF CalendarStep, LedgerInv, OrdersBacked
      <3>3. QED
        BY <3>1, <3>2, CalendarKeeps
    <2>4. QED
      BY <2>1, <2>2, <2>3 DEF Next
  <1>3. QED
    BY <1>1, <1>2, TypeCorrect, PTL DEF Spec, LedgerInv

\* However lessons are booked, assigned, cancelled, moved and refunded, no
\* purchase ever has more units in use than it was sold with.
THEOREM NeverOverdrawn == Spec => []NoOverdraw
  <1>1. LedgerInv => NoOverdraw
    BY DEF LedgerInv, Fits, NoOverdraw
  <1>2. QED
    BY <1>1, LedgerInvariant, PTL

-----------------------------------------------------------------------------
(* LessonSlots implements UnitLedger.                                      *)

Standing == [o \in Orders |-> purchase[o].st]
Size == [o \in Orders |-> IF purchase[o].st = "none" THEN 0 ELSE PkgCount[order[o].pkg]]
UnitIn(c) == [s \in Slots |-> IF c[s].restored THEN NoOrder ELSE c[s].order]
SpentIn(c) == {s \in Slots : c[s].order # NoOrder}

\* The slots the abstract ledger counts as using o are those of the concrete one.
LEMMA InUseIsActive ==
    ASSUME NEW c \in Ledgers, NEW o \in Orders
    PROVE  {s \in Slots : UnitIn(c)[s] = o} = Active(c, o)
  BY PackageAssumption DEF UnitIn, Active, Ledgers, ConsRow

\* The abstract ledger counts as the concrete one does.
LEMMA SameCount ==
    ASSUME NEW S
    PROVE  Ledger!Cardinality(S) = Cardinality(S)
  BY DEF Ledger!Cardinality, Cardinality

\* A calendar step takes a unit, gives one back, does both, or leaves the
\* abstract ledger alone.
LEMMA CalendarRefines ==
    ASSUME LedgerInv, CalendarStep
    PROVE  [Ledger!Next]_(Ledger!ledger)
  <1>a. cons \in Ledgers
    BY TypedLedger DEF LedgerInv
  <1>b. Standing' = Standing /\ Size' = Size
    BY DEF CalendarStep, Standing, Size
  <1>1. CASE UNCHANGED cons
    BY <1>1, <1>b DEF Ledger!ledger, Standing, Size
  <1>2. ASSUME NEW s \in Slots, cons' = restorePackageConsumption(cons, s)
        PROVE  Ledger!Release(s)
    <2>1. UnitIn(cons') = [UnitIn(cons) EXCEPT ![s] = NoOrder]
      BY <1>2, <1>a DEF UnitIn, restorePackageConsumption, Ledgers, ConsRow
    <2>2. SpentIn(cons') = SpentIn(cons)
      BY <1>2, <1>a DEF SpentIn, restorePackageConsumption, Ledgers, ConsRow
    <2>3. QED
      BY <1>b, <2>1, <2>2 DEF Ledger!Release, Standing, Size, UnitIn, SpentIn
  <1>3. ASSUME NEW R, NEW c \in Ledgers, NEW n \in Slots, Consumes(c, n),
               UnitIn(c) = [x \in Slots |-> IF x \in R THEN NoOrder ELSE UnitIn(cons)[x]],
               SpentIn(c) = SpentIn(cons),
               \A o \in Orders : Active(c, o) = Active(cons, o) \ R
        PROVE  \E o \in Orders : Ledger!Take(R, n, o)
    <2>1. PICK o \in Orders : /\ c[n].order = NoOrder
                              /\ purchase[o].st = "live"
                              /\ HasCapacity(c, o)
                              /\ cons' = WriteCons(c, n, o)
      BY <1>3 DEF Consumes
    <2>2. n \notin SpentIn(cons)
      BY <1>3, <2>1 DEF SpentIn
    <2>3. Standing[o] = "live"
      BY <2>1 DEF Standing
    <2>4. Cardinality({s \in Slots : UnitIn(cons)[s] = o} \ R) < Size[o]
      BY <1>3, <1>a, <2>1, InUseIsActive DEF HasCapacity, Size
    <2>5. UnitIn(cons') = [x \in Slots |-> IF x = n THEN o
                                          ELSE IF x \in R THEN NoOrder ELSE UnitIn(cons)[x]]
      <3>1. UnitIn(cons') = [x \in Slots |-> IF x = n THEN o ELSE UnitIn(c)[x]]
        BY <2>1 DEF UnitIn, WriteCons, Ledgers, ConsRow
      <3>2. QED
        BY <1>3, <3>1
    <2>6. SpentIn(cons') = SpentIn(cons) \cup {n}
      <3>1. SpentIn(cons') = SpentIn(c) \cup {n}
        BY <2>1, PackageAssumption DEF SpentIn, WriteCons, Ledgers, ConsRow
      <3>2. QED
        BY <1>3, <3>1
    <2>7. Ledger!Take(R, n, o)
      BY <1>b, <2>2, <2>3, <2>4, <2>5, <2>6, SameCount
         DEF Ledger!Take, Ledger!InUse, Standing, Size, UnitIn, SpentIn
    <2>8. QED
      BY <2>7
  <1>4. ASSUME NEW n \in Slots, Consumes(cons, n)
        PROVE  \E o \in Orders : Ledger!Take({}, n, o)
    <2>1. UnitIn(cons) = [x \in Slots |-> IF x \in {} THEN NoOrder ELSE UnitIn(cons)[x]]
      BY DEF UnitIn
    <2>2. \A o \in Orders : Active(cons, o) = Active(cons, o) \ {}
      OBVIOUS
    <2>3. QED
      BY <1>3, <1>4, <1>a, <2>1, <2>2
  <1>5. ASSUME NEW s \in Slots, NEW n \in Slots \ {s},
               Consumes(restorePackageConsumption(cons, s), n)
        PROVE  \E o \in Orders : Ledger!Take({s}, n, o)
    <2> DEFINE c == restorePackageConsumption(cons, s)
    <2>1. UnitIn(c) = [x \in Slots |-> IF x \in {s} THEN NoOrder ELSE UnitIn(cons)[x]]
      BY <1>a DEF UnitIn, restorePackageConsumption, Ledgers, ConsRow
    <2>2. SpentIn(c) = SpentIn(cons)
      BY <1>a DEF SpentIn, restorePackageConsumption, Ledgers, ConsRow
    <2>3. \A o \in Orders : Active(c, o) = Active(cons, o) \ {s}
      BY <1>a, RestoreActive
    <2>4. c \in Ledgers
      BY <1>a, RestoreType
    <2>5. QED
      BY <1>3, <1>5, <2>1, <2>2, <2>3, <2>4
  <1>6. QED
    BY <1>1, <1>2, <1>4, <1>5 DEF CalendarStep, Ledger!Next

\* Billing issues a purchase, voids one with all of its units, or leaves the
\* abstract ledger alone.
LEMMA BillingRefines ==
    ASSUME LedgerInv, PackageNext
    PROVE  [Ledger!Next]_(Ledger!ledger)
  <1> USE PackageAssumption DEF LedgerInv
  <1>a. cons \in Ledgers
    BY TypedLedger
  <1>1. ASSUME UNCHANGED <<purchase, cons>>,
               \A q \in Orders : order'[q].pkg = order[q].pkg \/ purchase[q].st = "none"
        PROVE  UNCHANGED Ledger!ledger
    <2>1. Size' = Size
      BY <1>1 DEF Size
    <2>2. QED
      BY <1>1, <2>1 DEF Ledger!ledger, Size
  <1>2. ASSUME NEW o \in Orders, NEW l \in Learners, NEW k \in Packages,
               CheckoutPackage(o, l, k)
        PROVE  UNCHANGED Ledger!ledger
    BY <1>1, <1>2 DEF CheckoutPackage, OrdersBacked, TypeOK, PackageTypeOK
  <1>3. ASSUME NEW o \in Orders, NEW st \in {"paid", "failed"}, SettleOrder(o, st)
        PROVE  UNCHANGED Ledger!ledger
    BY <1>1, <1>3 DEF SettleOrder, TypeOK, PackageTypeOK, OrderRow
  <1>4. ASSUME NEW o \in Orders, purchase[o].st = "none", order'[o].pkg \in Packages,
               purchase' \in [Orders -> PurchaseRow],
               purchase'[o].st = "live", cons' = cons,
               \A q \in Orders \ {o} : purchase'[q] = purchase[q] /\ order'[q] = order[q]
        PROVE  Ledger!Issue(o)
    <2>1. Standing' = [Standing EXCEPT ![o] = "live"]
      BY <1>4 DEF Standing
    <2>2. Size' = [Size EXCEPT ![o] = Size'[o]]
      BY <1>4 DEF Size
    <2>3. Size'[o] \in Nat
      BY <1>4 DEF Size
    <2>4. QED
      BY <1>4, <2>1, <2>2, <2>3 DEF Ledger!Issue, Standing, Size
  <1>5. ASSUME NEW o \in Orders, ProcessPackageGrant(o)
        PROVE  Ledger!Issue(o)
    BY <1>4, <1>5 DEF ProcessPackageGrant, TypeOK, PackageTypeOK, OrderRow, PurchaseRow,
                      OrdersBacked
  <1>6. ASSUME NEW o \in Orders, NEW l \in Learners, NEW k \in Packages,
               NEW stacking \in BOOLEAN, IssueTeacherPackageGrant(o, l, k, stacking)
        PROVE  Ledger!Issue(o)
    BY <1>4, <1>6 DEF IssueTeacherPackageGrant, TypeOK, PackageTypeOK, OrderRow,
                      PurchaseRow, OrdersBacked
  <1>7. ASSUME NEW o \in Orders, cons' = restoreAllConsumptions(cons, o),
               purchase' = [purchase EXCEPT ![o].st = "voided"],
               \A q \in Orders : order'[q].pkg = order[q].pkg,
               \/ purchase[o].st = "live"
               \/ purchase[o].st = "voided" /\ Active(cons, o) = {}
        PROVE  Ledger!Void(o) \/ UNCHANGED Ledger!ledger
    <2>1. Standing' = [Standing EXCEPT ![o] = "voided"]
      BY <1>7 DEF Standing, TypeOK, PackageTypeOK, PurchaseRow
    <2>2. Size' = Size
      BY <1>7 DEF Size, TypeOK, PackageTypeOK, PurchaseRow
    <2>3. UnitIn(cons') = [s \in Slots |-> IF UnitIn(cons)[s] = o THEN NoOrder
                                          ELSE UnitIn(cons)[s]]
      BY <1>7, <1>a DEF UnitIn, restoreAllConsumptions, Ledgers, ConsRow
    <2>4. SpentIn(cons') = SpentIn(cons)
      BY <1>7, <1>a DEF SpentIn, restoreAllConsumptions, Ledgers, ConsRow
    <2>5. CASE purchase[o].st = "live"
      BY <2>1, <2>2, <2>3, <2>4, <2>5 DEF Ledger!Void, Standing, Size, UnitIn, SpentIn
    <2>6. CASE purchase[o].st = "voided" /\ Active(cons, o) = {}
      <3>1. Standing' = Standing
        BY <2>1, <2>6 DEF Standing
      <3>2. UnitIn(cons') = UnitIn(cons)
        <4>1. \A s \in Slots : UnitIn(cons)[s] # o
          BY <2>6, <1>a, InUseIsActive
        <4>2. UnitIn(cons) = [s \in Slots |-> UnitIn(cons)[s]]
          BY DEF UnitIn
        <4>3. QED
          BY <2>3, <4>1, <4>2
      <3>3. QED
        BY <2>2, <2>4, <3>1, <3>2 DEF Ledger!ledger, Standing, Size, UnitIn, SpentIn
    <2>7. QED
      BY <1>7, <2>5, <2>6
  <1>8. ASSUME NEW o \in Orders, RevokeTeacherPackageGrant(o)
        PROVE  Ledger!Void(o) \/ UNCHANGED Ledger!ledger
    BY ZenonT(60), <1>7, <1>8 DEF RevokeTeacherPackageGrant, TypeOK, PackageTypeOK, OrderRow, PurchaseRow
  <1>9. ASSUME NEW o \in Orders, RefundPackage(o)
        PROVE  Ledger!Void(o) \/ UNCHANGED Ledger!ledger
    BY <1>7, <1>9 DEF RefundPackage
  <1>10. QED
    BY <1>2, <1>3, <1>5, <1>6, <1>8, <1>9 DEF PackageNext, Ledger!Next

\* Every transaction of the calendar and of billing is one step of the abstract
\* ledger, or none.
THEOREM LessonSlotsImplementsUnitLedger == Spec => ImplementsUnitLedger
  <1>1. Init => Ledger!Init
    BY PackageAssumption DEF Init, PackageInit, NoCons, Ledger!Init
  <1>2. LedgerInv /\ [Next]_vars => [Ledger!Next]_(Ledger!ledger)
    <2> SUFFICES ASSUME LedgerInv, [Next]_vars
                 PROVE  [Ledger!Next]_(Ledger!ledger)
      OBVIOUS
    <2>1. CASE UNCHANGED vars
      BY <2>1 DEF vars, Ledger!ledger
    <2>2. CASE PackageNext
      BY <2>2, BillingRefines
    <2>3. CASE Tick \/ PublishNext \/ BookNext \/ CancelNext \/ MarkNext \/ SettingsNext
      BY <2>3, CalendarOnly, CalendarRefines
    <2>4. QED
      BY <2>1, <2>2, <2>3 DEF Next
  <1>3. QED
    BY <1>1, <1>2, LedgerInvariant, PTL DEF Spec, ImplementsUnitLedger, Ledger!Spec


-----------------------------------------------------------------------------
(* The lessons: their inductive invariant.                                 *)

Live(r) == r.status \notin {"absent", "cancelled"}
Closed(r) == r.status = "cancelled" /\ ~r.personal
Held(r) == r.status \in {"booked", "no_show_teacher"} \cup Billable

\* A row without a booking succeeds none, and a personal event is no lesson.
RowOK(r) ==
    /\ r.status \in {"absent", "open"} => r.prev = NoSlot
    /\ r.personal => r.status \in DealStatus /\ r.prev = NoSlot

CompletionOK(s) ==
    /\ completion[s].st # "none" <=>
          slot[s].status \in Billable /\ ~slot[s].personal
    /\ completion[s].st # "none" =>
          /\ completion[s].noShow <=> slot[s].status = "no_show_learner"
          /\ Ended(s)

\* Row s succeeds a closed row of the same lesson, and no other row does.
Succeeds(s) ==
    LET p == slot[s].prev IN
    /\ Closed(slot[p])
    /\ slot[p].learner = slot[s].learner
    /\ slot[p].teacher = slot[s].teacher
    /\ slot[p].dur = slot[s].dur
    /\ \A u \in Slots : slot[u].prev = p => u = s

ChainOK == \A s \in Slots : slot[s].prev # NoSlot => Succeeds(s)

UnitTaken(s) == cons[s].order # NoOrder /\ ~cons[s].restored

\* The unit taken for row s is the booked learner's, and the row is a lesson.
Backed(s) ==
    LET o == cons[s].order IN
    /\ Held(slot[s])
    /\ ~slot[s].personal
    /\ purchase[o].st = "live"
    /\ order[o].account = slot[s].learner
    /\ PkgDuration[order[o].pkg] = slot[s].dur
    /\ PkgTeacher[order[o].pkg] \in {slot[s].teacher, NoTeacher}

LessonInv ==
    /\ LedgerInv
    /\ \A s \in Slots : RowOK(slot[s]) /\ CompletionOK(s)
    /\ UniqueStart
    /\ ChainOK
    /\ \A s \in Slots : UnitTaken(s) => Backed(s)

-----------------------------------------------------------------------------
(* What one transaction may do to one row.                                 *)

SamePlace(s) == /\ slot'[s].teacher = slot[s].teacher
                /\ slot'[s].start = slot[s].start

SameLesson(s) == /\ slot'[s].learner = slot[s].learner
                 /\ slot'[s].teacher = slot[s].teacher
                 /\ slot'[s].dur = slot[s].dur

\* No other row is live after the step where row s now is.
Lands(s) == \A u \in Slots \ {s} :
    ~ /\ Live(slot'[u])
      /\ slot'[u].teacher = slot'[s].teacher
      /\ slot'[u].start = slot'[s].start

\* Row s changes lawfully: it was not a closed lesson, it stays where it was
\* or lands on a free start, and it keeps its predecessor or gets a fresh one.
RowMove(s) ==
    /\ ~Closed(slot[s])
    /\ RowOK(slot'[s])
    /\ Live(slot'[s]) => (Live(slot[s]) /\ SamePlace(s)) \/ Lands(s)
    /\ \/ slot'[s].prev = NoSlot
       \/ slot'[s].prev = slot[s].prev /\ SameLesson(s)
       \/ Succeeds(s)'

SlotStep == \A s \in Slots : slot'[s] = slot[s] \/ RowMove(s)

\* Statuses, starts and predecessors stay in order under such steps.
LEMMA RowsKeep ==
    ASSUME TypeOK, TypeOK', \A s \in Slots : RowOK(slot[s]), UniqueStart, ChainOK, SlotStep
    PROVE  (\A s \in Slots : RowOK(slot[s]))' /\ UniqueStart' /\ ChainOK'
  <1>1. (\A s \in Slots : RowOK(slot[s]))'
    BY DEF SlotStep, RowMove
  <1>2. UniqueStart'
    <2> SUFFICES ASSUME NEW s \in Slots, NEW u \in Slots, s # u,
                        Live(slot'[s]), Live(slot'[u]),
                        slot'[s].teacher = slot'[u].teacher,
                        slot'[s].start = slot'[u].start
                 PROVE  FALSE
      BY DEF UniqueStart, Live
    <2>1. ~Lands(s) /\ ~Lands(u)
      BY DEF Lands
    <2>2. /\ Live(slot[s]) /\ SamePlace(s)
          /\ Live(slot[u]) /\ SamePlace(u)
      BY <2>1 DEF SlotStep, RowMove, SamePlace
    <2>3. QED
      BY <2>2 DEF UniqueStart, Live, SamePlace
  <1>3. ChainOK'
    <2> SUFFICES ASSUME NEW s \in Slots, slot'[s].prev # NoSlot
                 PROVE  Succeeds(s)'
      BY DEF ChainOK
    <2>1. CASE Succeeds(s)'
      BY <2>1
    <2>2. CASE ~Succeeds(s)'
      <3> DEFINE p == slot[s].prev
      <3>1. slot'[s].prev = p /\ SameLesson(s)
        BY <2>2 DEF SlotStep, RowMove, SameLesson
      <3>2. Succeeds(s) /\ p \in Slots
        BY <3>1 DEF ChainOK, TypeOK, SlotRow
      <3>3. slot'[p] = slot[p]
        BY <3>2 DEF Succeeds, SlotStep, RowMove
      <3>4. ASSUME NEW u \in Slots, slot'[u].prev = p
            PROVE  u = s
        <4>1. CASE slot[u].prev = p
          BY <3>2, <4>1 DEF Succeeds
        <4>2. CASE slot[u].prev # p
          <5>1. Succeeds(u)'
            BY <3>1, <3>4, <4>2 DEF SlotStep, RowMove
          <5>2. QED
            BY <5>1, <3>1, <3>4 DEF Succeeds
        <4>3. QED
          BY <4>1, <4>2
      <3>5. QED
        BY <3>1, <3>2, <3>3, <3>4 DEF Succeeds, SameLesson
    <2>3. QED
      BY <2>1, <2>2
  <1>4. QED
    BY <1>1, <1>2, <1>3

-----------------------------------------------------------------------------
(* Transactions that touch one row.                                        *)

StepOK ==
    /\ SlotStep
    /\ \A s \in Slots : /\ CompletionOK(s)'
                        /\ UnitTaken(s)' => Backed(s)'

\* Only row s, its completion and its unit may change.
OnlyRow(s) ==
    /\ UNCHANGED <<now, order, purchase>>
    /\ \A u \in Slots \ {s} : /\ slot'[u] = slot[u]
                              /\ completion'[u] = completion[u]
                              /\ cons'[u] = cons[u]

\* Then it is enough to look at row s.
LEMMA OneRow ==
    ASSUME LessonInv, NEW s \in Slots, OnlyRow(s), RowMove(s) \/ slot'[s] = slot[s],
           CompletionOK(s)', UnitTaken(s)' => Backed(s)'
    PROVE  StepOK
  <1>1. SlotStep
    BY DEF SlotStep, OnlyRow
  <1>2. ASSUME NEW u \in Slots \ {s}
        PROVE  CompletionOK(u)' /\ (UnitTaken(u)' => Backed(u)')
    <2>1. /\ slot'[u] = slot[u] /\ completion'[u] = completion[u] /\ cons'[u] = cons[u]
          /\ now' = now /\ order' = order /\ purchase' = purchase
      BY DEF OnlyRow
    <2>2. CompletionOK(u) /\ (UnitTaken(u) => Backed(u))
      BY DEF LessonInv
    <2>3. QED
      BY <2>1, <2>2 DEF CompletionOK, Ended, UnitTaken, Backed
  <1>3. QED
    BY <1>1, <1>2 DEF StepOK

\* The unique index lets row s land where FreeStart finds room.
LEMMA FreeLands ==
    ASSUME NEW s \in Slots, OnlyRow(s),
           FreeStart(slot, s, slot'[s].teacher, slot'[s].start)
    PROVE  Lands(s)
  BY DEF OnlyRow, FreeStart, Lands, Live

\* Inserting a row that is open, or is a personal event.
LEMMA InsertStep ==
    ASSUME LessonInv, NEW s \in Slots, NEW r \in SlotRow,
           slot[s].status = "absent",
           (r.status = "open" /\ ~r.personal) \/ r.status = "personal_event",
           r.prev = NoSlot,
           FreeStart(slot, s, r.teacher, r.start),
           slot' = [slot EXCEPT ![s] = r],
           UNCHANGED <<now, order, purchase, cons, completion>>
    PROVE  StepOK
  <1>1. slot'[s] = r /\ OnlyRow(s)
    BY DEF OnlyRow, LessonInv, LedgerInv, TypeOK
  <1>2. Lands(s)
    BY <1>1, FreeLands
  <1>3. RowMove(s)
    BY <1>1, <1>2 DEF RowMove, Closed, RowOK, Live, DealStatus
  <1>4. CompletionOK(s) /\ ~UnitTaken(s)
    BY DEF LessonInv, Backed, Held, Billable
  <1>5. CompletionOK(s)'
    BY <1>1, <1>4 DEF CompletionOK, Billable
  <1>6. ~UnitTaken(s)'
    BY <1>4 DEF UnitTaken
  <1>7. QED
    BY <1>1, <1>3, <1>5, <1>6, OneRow

\* Moving an open row, or changing its length.
LEMMA EditStep ==
    ASSUME LessonInv, NEW s \in Slots, NEW r \in SlotRow,
           slot[s].status = "open", r.status = "open",
           r.prev = slot[s].prev, r.personal = slot[s].personal,
           FreeStart(slot, s, r.teacher, r.start),
           slot' = [slot EXCEPT ![s] = r],
           UNCHANGED <<now, order, purchase, cons, completion>>
    PROVE  StepOK
  <1>1. slot'[s] = r /\ OnlyRow(s)
    BY DEF OnlyRow, LessonInv, LedgerInv, TypeOK
  <1>2. Lands(s)
    BY <1>1, FreeLands
  <1>a. RowOK(slot[s]) /\ CompletionOK(s) /\ ~UnitTaken(s)
    BY DEF LessonInv, Backed, Held, Billable
  <1>3. RowMove(s)
    BY <1>1, <1>2, <1>a DEF RowMove, Closed, RowOK, Live, DealStatus
  <1>5. CompletionOK(s)'
    BY <1>1, <1>a DEF CompletionOK, Billable
  <1>6. ~UnitTaken(s)'
    BY <1>a DEF UnitTaken
  <1>7. QED
    BY <1>1, <1>3, <1>5, <1>6, OneRow

\* Publishing: single slots, personal events, edits, moves and deletions.
LEMMA PublishOne ==
    ASSUME LessonInv, NEW s \in Slots
    PROVE  /\ \A t \in Teachers, x \in Starts, d \in Durations :
                 CreatePersonalEvent(s, t, x, d) => StepOK
           /\ \A t \in Teachers, x \in Starts, d \in Durations,
                 f \in Tariffs \cup {NoTariff} : CreateSlot(s, t, x, d, f) => StepOK
           /\ \A x \in Starts, d \in Durations : EditOpenSlot(s, x, d) => StepOK
           /\ \A x \in Starts : MoveOpenSlot(s, x) => StepOK
           /\ DeleteOpenSlot(s) => StepOK
  <1> USE SlotAssumption
  <1>a. slot \in [Slots -> SlotRow] /\ slot[s] \in SlotRow
    BY DEF LessonInv, LedgerInv, TypeOK
  <1>1. ASSUME NEW t \in Teachers, NEW x \in Starts, NEW d \in Durations,
               CreatePersonalEvent(s, t, x, d)
        PROVE  StepOK
    <2> DEFINE q == OpenRow(t, x, d, NoTariff)
               r == [q EXCEPT !.status = "personal_event", !.personal = TRUE]
    <2>a. q \in SlotRow /\ q.prev = NoSlot /\ q.teacher = t /\ q.start = x
      BY RowTypes DEF OpenRow, Absent
    <2> HIDE DEF q
    <2>1. /\ r \in SlotRow /\ r.status = "personal_event" /\ r.prev = NoSlot
          /\ r.teacher = t /\ r.start = x
      BY <2>a DEF SlotRow
    <2>2. QED
      BY <1>1, <2>1, InsertStep DEF CreatePersonalEvent, q
  <1>2. ASSUME NEW t \in Teachers, NEW x \in Starts, NEW d \in Durations,
               NEW f \in Tariffs \cup {NoTariff}, CreateSlot(s, t, x, d, f)
        PROVE  StepOK
    <2> DEFINE r == OpenRow(t, x, d, f)
    <2>1. /\ r \in SlotRow /\ r.status = "open" /\ ~r.personal /\ r.prev = NoSlot
          /\ r.teacher = t /\ r.start = x
      BY RowTypes DEF OpenRow, Absent
    <2>2. QED
      BY <1>2, <2>1, InsertStep DEF CreateSlot
  <1>3. ASSUME NEW x \in Starts, NEW d \in Durations, EditOpenSlot(s, x, d)
        PROVE  StepOK
    <2> DEFINE r == [slot[s] EXCEPT !.start = x, !.dur = d]
    <2>1. /\ r \in SlotRow /\ r.status = slot[s].status /\ r.personal = slot[s].personal
          /\ r.prev = slot[s].prev /\ r.teacher = slot[s].teacher /\ r.start = x
      BY <1>a DEF SlotRow
    <2>2. slot' = [slot EXCEPT ![s] = r]
      BY <1>3, <1>a DEF EditOpenSlot
    <2>3. QED
      BY ZenonT(60), <1>3, <2>1, <2>2, EditStep DEF EditOpenSlot
  <1>4. ASSUME NEW x \in Starts, MoveOpenSlot(s, x)
        PROVE  StepOK
    <2> DEFINE r == [slot[s] EXCEPT !.start = x]
    <2>1. /\ r \in SlotRow /\ r.status = slot[s].status /\ r.personal = slot[s].personal
          /\ r.prev = slot[s].prev /\ r.teacher = slot[s].teacher /\ r.start = x
      BY <1>a DEF SlotRow
    <2>2. slot' = [slot EXCEPT ![s] = r]
      BY <1>4, <1>a DEF MoveOpenSlot
    <2>3. QED
      BY <1>4, <2>1, <2>2, EditStep DEF MoveOpenSlot
  <1>5. ASSUME DeleteOpenSlot(s)
        PROVE  StepOK
    <2>1. slot'[s] = Absent /\ OnlyRow(s) /\ slot[s].status = "open"
      BY <1>5, <1>a DEF OnlyRow, DeleteOpenSlot
    <2>2. CompletionOK(s) /\ ~UnitTaken(s)
      BY <2>1 DEF LessonInv, Backed, Held, Billable
    <2>3. RowMove(s)
      BY <2>1 DEF RowMove, Closed, RowOK, Live, Absent
    <2>4. CompletionOK(s)'
      BY <1>5, <2>1, <2>2 DEF CompletionOK, Billable, Absent, DeleteOpenSlot
    <2>5. ~UnitTaken(s)'
      BY <1>5, <2>2 DEF UnitTaken, DeleteOpenSlot
    <2>6. QED
      BY <2>1, <2>3, <2>4, <2>5, OneRow
  <1>6. QED
    BY <1>1, <1>2, <1>3, <1>4, <1>5

\* Bulk publishing inserts open rows on distinct starts that were all free.
LEMMA BulkStep ==
    ASSUME LessonInv, NEW X \in SUBSET Starts, NEW ids \in [X -> Slots],
           NEW t \in Teachers, NEW d \in Durations, NEW f \in Tariffs \cup {NoTariff},
           BulkCreateSlots(ids, t, d, f)
    PROVE  StepOK
  <1> DEFINE fresh == {x \in DOMAIN ids : FreeStart(slot, NoSlot, t, x)}
             New(s) == \E x \in fresh : ids[x] = s
             At(s) == CHOOSE x \in fresh : ids[x] = s
  <1>1. \A s \in Slots : slot'[s] = IF New(s) THEN OpenRow(t, At(s), d, f) ELSE slot[s]
    BY DEF BulkCreateSlots
  <1>2. ASSUME NEW s \in Slots, New(s)
        PROVE  /\ At(s) \in fresh /\ ids[At(s)] = s
               /\ slot[s].status = "absent"
               /\ slot'[s].status = "open" /\ ~slot'[s].personal /\ slot'[s].prev = NoSlot
               /\ slot'[s].teacher = t /\ slot'[s].start = At(s)
    <2>1. At(s) \in fresh /\ ids[At(s)] = s
      BY <1>2
    <2>2. slot[s].status = "absent"
      BY <2>1 DEF BulkCreateSlots
    <2>3. slot'[s] = OpenRow(t, At(s), d, f)
      BY <1>1, <1>2
    <2> HIDE DEF At
    <2>4. QED
      BY <2>1, <2>2, <2>3 DEF OpenRow, Absent
  <1> HIDE DEF At, New
  <1>3. ASSUME NEW s \in Slots, New(s)
        PROVE  Lands(s)
    <2> SUFFICES ASSUME NEW u \in Slots \ {s}, Live(slot'[u]),
                        slot'[u].teacher = slot'[s].teacher,
                        slot'[u].start = slot'[s].start
                 PROVE  FALSE
      BY DEF Lands
    <2>1. CASE New(u)
      BY <1>2, <1>3, <2>1
    <2>2. CASE ~New(u)
      <3>1. slot'[u] = slot[u]
        BY <1>1, <2>2
      <3>2. FreeStart(slot, NoSlot, t, At(s))
        BY <1>2, <1>3
      <3>3. QED
        BY <1>2, <1>3, <3>1, <3>2, SlotAssumption DEF FreeStart, Live
    <2>3. QED
      BY <2>1, <2>2
  <1>4. ASSUME NEW s \in Slots
        PROVE  /\ slot'[s] = slot[s] \/ RowMove(s)
               /\ CompletionOK(s)'
               /\ UnitTaken(s)' => Backed(s)'
    <2>a. CompletionOK(s) /\ (UnitTaken(s) => Backed(s))
      BY DEF LessonInv
    <2>b. UNCHANGED <<now, order, purchase, cons, completion>>
      BY DEF BulkCreateSlots
    <2>1. CASE New(s)
      <3>1. RowMove(s)
        BY <1>2, <1>3, <2>1 DEF RowMove, Closed, RowOK
      <3>2. CompletionOK(s)'
        BY <1>2, <2>1, <2>a, <2>b DEF CompletionOK, Billable
      <3>3. ~UnitTaken(s)'
        BY <1>2, <2>1, <2>a, <2>b DEF UnitTaken, Backed, Held, Billable
      <3>4. QED
        BY <3>1, <3>2, <3>3
    <2>2. CASE ~New(s)
      <3>1. slot'[s] = slot[s]
        BY <1>1, <2>2
      <3>2. QED
        BY <3>1, <2>a, <2>b DEF CompletionOK, Ended, UnitTaken, Backed
    <2>3. QED
      BY <2>1, <2>2
  <1>5. QED
    BY <1>4 DEF StepOK, SlotStep

-----------------------------------------------------------------------------
(* Booking, cancelling and rescheduling.                                   *)

\* The unit booked for row n pays for a lesson of l with t that lasts d.
Pays(o, l, t, d) ==
    /\ purchase[o].st = "live"
    /\ order[o].account = l
    /\ PkgDuration[order[o].pkg] = d
    /\ PkgTeacher[order[o].pkg] \in {t, NoTeacher}

\* consumePackageUnit writes nothing but a unit that pays for the lesson.
LEMMA ConsumePays ==
    ASSUME NEW c \in Ledgers, NEW n \in Slots, NEW l, NEW t, NEW d,
           NEW e \in consumePackageUnit(c, n, l, t, d)
    PROVE  \/ e = c
           \/ \E o \in Orders : Pays(o, l, t, d) /\ e = WriteCons(c, n, o)
  <1>1. CASE Consumable(c, n, l, t, d)
    <2>1. PICK o \in EarliestExpiring(Eligible(c, l, t, d)) : e = WriteCons(c, n, o)
      BY <1>1 DEF consumePackageUnit
    <2>2. o \in Eligible(c, l, t, d)
      BY DEF EarliestExpiring
    <2>3. QED
      BY <2>1, <2>2 DEF Eligible, Usable, Pays
  <1>2. CASE ~Consumable(c, n, l, t, d)
    BY <1>2 DEF consumePackageUnit
  <1>3. QED
    BY <1>1, <1>2

\* Row s becomes a booked lesson and its unit, if one is taken, pays for it.
LEMMA BookStep ==
    ASSUME LessonInv, NEW s \in Slots, NEW r \in SlotRow,
           slot[s].status \in {"absent", "open"}, r.status = "booked", ~r.personal,
           r.prev = NoSlot,
           FreeStart(slot, s, r.teacher, r.start),
           slot' = [slot EXCEPT ![s] = r],
           \/ cons' = cons
           \/ \E o \in Orders : /\ Pays(o, r.learner, r.teacher, r.dur)
                                /\ cons' = WriteCons(cons, s, o),
           UNCHANGED <<now, order, purchase, completion>>
    PROVE  StepOK
  <1>a. slot \in [Slots -> SlotRow] /\ cons \in Ledgers
    BY TypedLedger DEF LessonInv, LedgerInv, TypeOK
  <1>1. slot'[s] = r /\ OnlyRow(s)
    BY <1>a DEF OnlyRow, WriteCons, Ledgers
  <1>2. Lands(s)
    BY <1>1, FreeLands
  <1>3. RowMove(s)
    BY <1>1, <1>2 DEF RowMove, Closed, RowOK
  <1>4. CompletionOK(s) /\ ~UnitTaken(s)
    BY DEF LessonInv, Backed, Held, Billable
  <1>5. CompletionOK(s)'
    BY <1>1, <1>4 DEF CompletionOK, Billable
  <1>6. UnitTaken(s)' => Backed(s)'
    <2>1. CASE cons' = cons
      BY <1>4, <2>1 DEF UnitTaken
    <2>2. ASSUME NEW o \in Orders, Pays(o, r.learner, r.teacher, r.dur),
                 cons' = WriteCons(cons, s, o)
          PROVE  Backed(s)'
      <3>1. cons'[s].order = o
        BY <1>a, <2>2 DEF WriteCons, Ledgers
      <3>2. QED
        BY <1>1, <2>2, <3>1 DEF Pays, Backed, Held
    <2>3. QED
      BY <2>1, <2>2
  <1>7. QED
    BY <1>1, <1>3, <1>5, <1>6, OneRow

\* All three ways to book.
LEMMA BookingOne ==
    ASSUME LessonInv, NEW s \in Slots, NEW l \in Learners
    PROVE  /\ BookSlotLegacy(s, l) => StepOK
           /\ BookSlot(s, l) => StepOK
           /\ \A t \in Teachers, x \in Starts, d \in Durations,
                 f \in Tariffs \cup {NoTariff}, choice \in {"auto", "package", "postpaid"},
                 pinned \in Orders \cup {NoOrder} :
                 AssignSlotDirect(s, t, l, x, d, f, choice, pinned) => StepOK
  <1>a. slot \in [Slots -> SlotRow] /\ slot[s] \in SlotRow /\ cons \in Ledgers
    BY TypedLedger DEF LessonInv, LedgerInv, TypeOK
  <1>1. ASSUME Reservable(s, l), Reserve(s, l),
               UNCHANGED <<now, order, purchase, completion>>,
               \/ cons' = cons
               \/ \E o \in Orders : /\ Pays(o, l, slot[s].teacher, slot[s].dur)
                                    /\ cons' = WriteCons(cons, s, o)
        PROVE  StepOK
    <2> DEFINE r == [slot[s] EXCEPT !.status = "booked", !.learner = l]
    <2>1. /\ r \in SlotRow /\ r.status = "booked" /\ r.personal = slot[s].personal
          /\ r.prev = slot[s].prev /\ r.teacher = slot[s].teacher
          /\ r.start = slot[s].start /\ r.dur = slot[s].dur /\ r.learner = l
      BY <1>a DEF SlotRow, LessonStatus
    <2>2. slot' = [slot EXCEPT ![s] = r]
      BY <1>1, <1>a DEF Reserve
    <2>3. slot[s].status = "open" /\ RowOK(slot[s])
      BY <1>1 DEF Reservable, LessonInv
    <2>4. ~r.personal /\ r.prev = NoSlot
      BY <2>1, <2>3 DEF RowOK, DealStatus
    <2>5. FreeStart(slot, s, r.teacher, r.start)
      BY <2>1, <2>3 DEF FreeStart, LessonInv, UniqueStart
    <2> HIDE DEF r
    <2>6. QED
      BY <1>1, <2>1, <2>2, <2>3, <2>4, <2>5, BookStep
  <1>2. BookSlotLegacy(s, l) => StepOK
    BY <1>1 DEF BookSlotLegacy
  <1>3. ASSUME BookSlot(s, l)
        PROVE  StepOK
    <2>1. cons' \in consumePackageUnit(cons, s, l, slot[s].teacher, slot[s].dur)
      BY <1>3 DEF BookSlot
    <2>2. QED
      BY <1>1, <1>3, <1>a, <2>1, ConsumePays DEF BookSlot
  <1>4. ASSUME NEW t \in Teachers, NEW x \in Starts, NEW d \in Durations,
               NEW f \in Tariffs \cup {NoTariff}, NEW choice \in {"auto", "package", "postpaid"},
               NEW pinned \in Orders \cup {NoOrder},
               AssignSlotDirect(s, t, l, x, d, f, choice, pinned)
        PROVE  StepOK
    <2> DEFINE r == BookedRow(t, l, x, d, f, NoSlot)
    <2>1. /\ r \in SlotRow /\ r.status = "booked" /\ ~r.personal /\ r.prev = NoSlot
          /\ r.teacher = t /\ r.start = x /\ r.dur = d /\ r.learner = l
      BY ZenonT(60), RowTypes, SlotAssumption DEF BookedRow, OpenRow, Absent
    <2>2. \/ cons' = cons
          \/ \E o \in Orders : Pays(o, l, t, d) /\ cons' = WriteCons(cons, s, o)
      <3>1. \/ cons' = cons
            \/ /\ pinned # NoOrder /\ Usable(pinned) /\ order[pinned].account = l
               /\ PkgTeacher[order[pinned].pkg] = t /\ PkgDuration[order[pinned].pkg] = d
               /\ cons' = WriteCons(cons, s, pinned)
            \/ cons' \in consumePackageUnit(cons, s, l, t, d)
        BY <1>4 DEF AssignSlotDirect
      <3>2. QED
        BY <1>a, <3>1, ConsumePays DEF Pays, Usable
    <2> HIDE DEF r
    <2>3. /\ slot[s].status = "absent" /\ FreeStart(slot, s, t, x)
          /\ slot' = [slot EXCEPT ![s] = r]
          /\ UNCHANGED <<now, order, purchase, completion>>
      BY <1>4 DEF AssignSlotDirect, r
    <2>4. QED
      BY <2>1, <2>2, <2>3, BookStep
  <1>5. QED
    BY <1>2, <1>3, <1>4

\* A cancelled row keeps everything but its status and the canceller.
LEMMA CancelRowFields ==
    ASSUME NEW r \in SlotRow, NEW by \in {"learner", "teacher", "admin"}, now \in Nat
    PROVE  LET q == CancelRow(r, by) IN
           /\ q.status = "cancelled" /\ q.personal = r.personal /\ q.prev = r.prev
           /\ q.teacher = r.teacher /\ q.learner = r.learner
           /\ q.start = r.start /\ q.dur = r.dur
  BY DEF CancelRow, SlotRow

\* Cancelling a row that is neither billable nor cancelled.
LEMMA CancelStep ==
    ASSUME LessonInv, NEW s \in Slots, NEW by \in {"learner", "teacher", "admin"},
           slot[s].status \notin {"absent", "cancelled"} \cup Billable,
           CancelAndRestore(s, by)
    PROVE  StepOK
  <1> DEFINE q == CancelRow(slot[s], by)
  <1>a. slot[s] \in SlotRow /\ now \in Nat /\ cons \in Ledgers
    BY TypedLedger DEF LessonInv, LedgerInv, TypeOK, PackageTypeOK
  <1>1. slot'[s] = q /\ OnlyRow(s)
    BY <1>a DEF CancelAndRestore, OnlyRow, restorePackageConsumption, Ledgers,
       LessonInv, LedgerInv, TypeOK
  <1>2. /\ q.status = "cancelled" /\ q.personal = slot[s].personal /\ q.prev = slot[s].prev
        /\ q.teacher = slot[s].teacher /\ q.learner = slot[s].learner /\ q.dur = slot[s].dur
    BY <1>a, CancelRowFields
  <1> HIDE DEF q
  <1>3. RowOK(slot[s]) /\ CompletionOK(s)
    BY DEF LessonInv
  <1>4. RowMove(s)
    BY <1>1, <1>2, <1>3 DEF RowMove, Closed, RowOK, Live, DealStatus, SameLesson
  <1>5. CompletionOK(s)'
    BY <1>1, <1>2, <1>3 DEF CompletionOK, Billable, CancelAndRestore
  <1>6. ~UnitTaken(s)'
    BY <1>a DEF CancelAndRestore, restorePackageConsumption, UnitTaken, Ledgers, ConsRow
  <1>7. QED
    BY <1>1, <1>4, <1>5, <1>6, OneRow

\* Rescheduling closes row s and makes row n its one successor.
LEMMA RescheduleStep ==
    ASSUME LessonInv, NEW s \in Slots, NEW n \in Slots, NEW x \in Starts,
           NEW by \in {"learner", "teacher"}, Reschedule(s, n, x, by)
    PROVE  StepOK
  <1> DEFINE old == slot[s]
             q == CancelRow(old, by)
             r == BookedRow(old.teacher, old.learner, x, old.dur, old.tariff, s)
             moved == [slot EXCEPT ![s] = q]
             restored == restorePackageConsumption(cons, s)
  <1>a. /\ slot \in [Slots -> SlotRow] /\ old \in SlotRow /\ now \in Nat
        /\ cons \in Ledgers /\ x \in Nat
    BY TypedLedger, SlotAssumption DEF LessonInv, LedgerInv, TypeOK, PackageTypeOK
  <1>b. /\ old.status = "booked" /\ slot[n].status = "absent" /\ n # s
        /\ FreeStart(moved, n, old.teacher, x)
        /\ slot' = [moved EXCEPT ![n] = r]
        /\ UNCHANGED <<now, order, purchase, completion>>
    BY DEF Reschedule
  <1>1. /\ q.status = "cancelled" /\ q.personal = old.personal /\ q.prev = old.prev
        /\ q.teacher = old.teacher /\ q.learner = old.learner /\ q.dur = old.dur
    BY <1>a, CancelRowFields
  <1>2. /\ r.status = "booked" /\ ~r.personal /\ r.prev = s /\ r.teacher = old.teacher
        /\ r.learner = old.learner /\ r.dur = old.dur /\ r.start = x
    BY DEF BookedRow, OpenRow, Absent
  <1>3. /\ slot'[s] = q /\ slot'[n] = r
        /\ \A u \in Slots \ {s, n} : slot'[u] = slot[u]
    BY <1>a, <1>b
  <1>c. /\ RowOK(old) /\ CompletionOK(s) /\ RowOK(slot[n]) /\ CompletionOK(n)
        /\ ~UnitTaken(n) /\ ChainOK
    BY <1>b DEF LessonInv, Backed, Held, Billable
  <1>d. /\ cons' \in Ledgers /\ restored \in Ledgers
        /\ \A u \in Slots \ {n} : cons'[u] = restored[u]
        /\ \A u \in Slots \ {s} : restored[u] = cons[u]
        /\ restored[s].restored \/ restored[s].order = NoOrder
        /\ UnitTaken(n)' => Pays(cons'[n].order, old.learner, old.teacher, old.dur)
    <2>1. /\ restored \in Ledgers
          /\ \A u \in Slots \ {s} : restored[u] = cons[u]
          /\ restored[s].restored \/ restored[s].order = NoOrder
      BY SMTT(30), <1>a, RestoreType DEF restorePackageConsumption, Ledgers, ConsRow
    <2>2. \/ cons' = restored
          \/ \E o \in Orders : /\ Pays(o, old.learner, old.teacher, old.dur)
                               /\ cons' = WriteCons(restored, n, o)
      <3>1. CASE old.tariff = NoTariff
        BY <3>1 DEF Reschedule
      <3>2. CASE old.tariff # NoTariff
        BY <3>2, <2>1, ConsumePays DEF Reschedule
      <3>3. QED
        BY <3>1, <3>2
    <2> HIDE DEF restored
    <2>3. CASE cons' = restored
      BY <1>b, <1>c, <2>1, <2>3 DEF UnitTaken
    <2>4. ASSUME NEW o \in Orders, Pays(o, old.learner, old.teacher, old.dur),
                 cons' = WriteCons(restored, n, o)
          PROVE  /\ cons' \in Ledgers
                 /\ \A u \in Slots \ {n} : cons'[u] = restored[u]
                 /\ Pays(cons'[n].order, old.learner, old.teacher, old.dur)
      <3>1. cons'[n].order = o
        BY <2>1, <2>4 DEF WriteCons, Ledgers
      <3>2. QED
        BY <2>1, <2>4, <3>1, WriteConsType DEF WriteCons, Ledgers
    <2>5. QED
      BY <2>1, <2>2, <2>3, <2>4
  <1> HIDE DEF q, r, restored
  <1>4. Lands(n)
    <2> SUFFICES ASSUME NEW u \in Slots \ {n}, Live(slot'[u]),
                        slot'[u].teacher = old.teacher, slot'[u].start = x
                 PROVE  FALSE
      BY <1>2, <1>3 DEF Lands
    <2>1. slot'[u] = moved[u]
      BY <1>a, <1>b
    <2> HIDE DEF moved
    <2>2. QED
      BY <1>b, <2>1 DEF FreeStart, Live
  <1>5. Succeeds(n)'
    <2>1. ASSUME NEW u \in Slots \ {n}, slot'[u].prev = s
          PROVE  FALSE
      <3>1. slot[u].prev = s
        BY <1>1, <1>3, <2>1
      <3>2. Closed(slot[s])
        BY <1>c, <3>1, SlotAssumption DEF ChainOK, Succeeds
      <3>3. QED
        BY <1>b, <3>2 DEF Closed
    <2>2. ~old.personal
      BY <1>b, <1>c DEF RowOK, DealStatus
    <2>3. QED
      BY <1>1, <1>2, <1>3, <2>1, <2>2 DEF Succeeds, Closed
  <1>6. RowMove(n)
    BY <1>b, <1>2, <1>3, <1>4, <1>5 DEF RowMove, Closed, RowOK
  <1>7. RowMove(s)
    BY <1>b, <1>1, <1>3, <1>c DEF RowMove, Closed, RowOK, Live, DealStatus, SameLesson
  <1>8. SlotStep
    BY <1>3, <1>6, <1>7 DEF SlotStep
  <1>9. ASSUME NEW u \in Slots
        PROVE  CompletionOK(u)' /\ (UnitTaken(u)' => Backed(u)')
    <2>a. CompletionOK(u) /\ (UnitTaken(u) => Backed(u))
      BY DEF LessonInv
    <2>1. CASE u = s
      <3>1. CompletionOK(u)'
        BY <1>b, <1>1, <1>3, <2>a, <2>1 DEF CompletionOK, Billable
      <3>2. ~UnitTaken(u)'
        BY <1>b, <1>d, <2>1 DEF UnitTaken
      <3>3. QED
        BY <3>1, <3>2
    <2>2. CASE u = n
      <3>1. CompletionOK(u)'
        BY <1>b, <1>2, <1>3, <2>a, <2>2 DEF CompletionOK, Billable
      <3>2. UnitTaken(u)' => Backed(u)'
        BY <1>b, <1>d, <1>2, <1>3, <2>2 DEF Pays, Backed, Held
      <3>3. QED
        BY <3>1, <3>2
    <2>3. CASE u \notin {s, n}
      <3>1. slot'[u] = slot[u] /\ cons'[u] = cons[u]
        BY <1>3, <1>d, <2>3
      <3>2. QED
        BY <1>b, <2>a, <3>1 DEF CompletionOK, Ended, UnitTaken, Backed
    <2>4. QED
      BY <2>1, <2>2, <2>3
  <1>10. QED
    BY <1>8, <1>9 DEF StepOK

-----------------------------------------------------------------------------
(* Marks, corrections, settlements and personal events.                    *)

\* A lesson that was held or is still booked gets another such status, and its
\* completion follows.
LEMMA StatusStep ==
    ASSUME LessonInv, NEW s \in Slots, NEW to \in LessonStatus,
           Held(slot[s]), ~slot[s].personal,
           to \in {"booked", "no_show_teacher"} \cup Billable,
           slot' = [slot EXCEPT ![s].status = to],
           \A u \in Slots \ {s} : completion'[u] = completion[u],
           completion'[s].st # "none" <=> to \in Billable,
           completion'[s].st # "none" => /\ completion'[s].noShow <=> to = "no_show_learner"
                                         /\ Ended(s),
           UNCHANGED <<now, order, purchase, cons>>
    PROVE  StepOK
  <1> DEFINE r == [slot[s] EXCEPT !.status = to]
  <1>a. slot \in [Slots -> SlotRow] /\ slot[s] \in SlotRow
    BY DEF LessonInv, LedgerInv, TypeOK
  <1>1. /\ r.status = to /\ r.personal = slot[s].personal /\ r.prev = slot[s].prev
        /\ r.teacher = slot[s].teacher /\ r.learner = slot[s].learner
        /\ r.dur = slot[s].dur /\ r.start = slot[s].start
    BY <1>a DEF SlotRow
  <1>2. slot'[s] = r /\ OnlyRow(s)
    BY <1>a DEF OnlyRow
  <1> HIDE DEF r
  <1>3. RowOK(slot[s]) /\ (UnitTaken(s) => Backed(s))
    BY DEF LessonInv
  <1>4. RowMove(s)
    BY <1>1, <1>2, <1>3
       DEF RowMove, Closed, RowOK, Live, SamePlace, SameLesson, Held, Billable
  <1>5. CompletionOK(s)'
    BY <1>1, <1>2 DEF CompletionOK, Ended
  <1>6. UnitTaken(s)' => Backed(s)'
    BY <1>1, <1>2, <1>3 DEF UnitTaken, Backed, Held
  <1>7. QED
    BY <1>2, <1>4, <1>5, <1>6, OneRow

\* Every mark and correction is such a change.
LEMMA MarkStep ==
    ASSUME LessonInv, NEW s \in Slots
    PROVE  /\ MarkNoShowTeacher(s) => StepOK
           /\ Uncomplete(s) => StepOK
           /\ \A noShow \in BOOLEAN : MarkLessonCompleted(s, noShow) => StepOK
           /\ \A to \in LessonStatus : ChangeLessonStatus(s, to) => StepOK
  <1>a. /\ completion \in [Slots -> CompletionRow] /\ completion[s] \in CompletionRow
        /\ RowOK(slot[s]) /\ CompletionOK(s)
    BY DEF LessonInv, LedgerInv, TypeOK
  <1>b. slot[s].status = "booked" => ~slot[s].personal
    BY <1>a DEF RowOK, DealStatus
  <1>1. ASSUME MarkNoShowTeacher(s)
        PROVE  StepOK
    <2>1. completion[s].st = "none"
      BY <1>1, <1>a DEF CompletionOK, MarkNoShowTeacher, Billable
    <2>2. QED
      BY <1>1, <1>b, <2>1, StatusStep DEF MarkNoShowTeacher, Held, LessonStatus, Billable
  <1>2. ASSUME completion' = [completion EXCEPT ![s] = NoCompletion]
        PROVE  /\ completion'[s].st = "none"
               /\ \A u \in Slots \ {s} : completion'[u] = completion[u]
    BY <1>2, <1>a DEF NoCompletion
  <1>3. ASSUME Uncomplete(s)
        PROVE  StepOK
    <2>1. Held(slot[s]) /\ ~slot[s].personal
      BY <1>3, <1>a DEF Uncomplete, Removable, CompletionOK, Held
    <2>2. QED
      BY <1>2, <1>3, <2>1, StatusStep DEF Uncomplete, LessonStatus, Billable
  <1>4. ASSUME NEW noShow \in BOOLEAN, NEW to \in Billable, Held(slot[s]),
               ~slot[s].personal, Ended(s), InsertCompletion(s, noShow),
               noShow <=> to = "no_show_learner",
               UNCHANGED <<now, order, purchase, cons>>
        PROVE  StepOK
    <2>1. /\ completion'[s].st = "open" /\ completion'[s].noShow = noShow
          /\ \A u \in Slots \ {s} : completion'[u] = completion[u]
      BY <1>4, <1>a DEF InsertCompletion
    <2>2. slot' = [slot EXCEPT ![s].status = to]
      BY <1>4 DEF InsertCompletion, Billable
    <2>3. QED
      BY <1>4, <2>1, <2>2, StatusStep DEF LessonStatus, Billable
  <1>5. ASSUME NEW noShow \in BOOLEAN, MarkLessonCompleted(s, noShow)
        PROVE  StepOK
    <2> DEFINE to == IF noShow THEN "no_show_learner" ELSE "completed"
    <2>1. to \in Billable /\ (noShow <=> to = "no_show_learner")
      BY DEF Billable
    <2>2. Held(slot[s]) /\ ~slot[s].personal
      BY <1>5, <1>b DEF MarkLessonCompleted, Held
    <2> HIDE DEF to
    <2>3. QED
      BY <1>4, <1>5, <2>1, <2>2 DEF MarkLessonCompleted
  <1>6. ASSUME NEW to \in LessonStatus, ChangeLessonStatus(s, to)
        PROVE  StepOK
    <2>a. /\ ~slot[s].personal /\ Held(slot[s]) /\ Ended(s)
          /\ UNCHANGED <<now, order, purchase, cons>>
      BY <1>6 DEF ChangeLessonStatus, Held
    <2>1. ASSUME to \in Billable, slot[s].status \in Billable,
                 completion' = [completion EXCEPT ![s].noShow = (to = "no_show_learner")],
                 slot' = [slot EXCEPT ![s].status = to]
          PROVE  StepOK
      <3>1. /\ completion'[s].st = completion[s].st
            /\ completion'[s].noShow = (to = "no_show_learner")
            /\ \A u \in Slots \ {s} : completion'[u] = completion[u]
        BY <2>1, <1>a DEF CompletionRow
      <3>2. completion[s].st # "none"
        BY <2>1, <2>a, <1>a DEF CompletionOK
      <3>3. QED
        BY <2>1, <2>a, <3>1, <3>2, StatusStep
    <2>2. ASSUME to \in {"booked", "no_show_teacher"},
                 completion' = [completion EXCEPT ![s] = NoCompletion],
                 slot' = [slot EXCEPT ![s].status = to]
          PROVE  StepOK
      BY <1>2, <2>2, <2>a, StatusStep DEF Billable
    <2>3. ASSUME to \in Billable, InsertCompletion(s, to = "no_show_learner")
          PROVE  StepOK
      <3>1. (to = "no_show_learner") \in BOOLEAN
        OBVIOUS
      <3>2. QED
        BY <1>4, <2>3, <2>a, <3>1
    <2>4. ASSUME slot[s].status \notin Billable, to \in {"booked", "no_show_teacher"},
                 slot' = [slot EXCEPT ![s].status = to], UNCHANGED completion
          PROVE  StepOK
      <3>1. completion[s].st = "none"
        BY <2>4, <1>a DEF CompletionOK
      <3>2. QED
        BY <2>4, <2>a, <3>1, StatusStep DEF Billable
    <2>5. QED
      BY <1>6, <2>1, <2>2, <2>3, <2>4 DEF ChangeLessonStatus
  <1>7. QED
    BY <1>1, <1>3, <1>5, <1>6

\* Settling covers a completion and leaves the lesson alone.
LEMMA SettleStep ==
    ASSUME LessonInv, NEW s \in Slots, SettleLesson(s)
    PROVE  StepOK
  <1>a. /\ completion \in [Slots -> CompletionRow] /\ completion[s] \in CompletionRow
        /\ CompletionOK(s) /\ (UnitTaken(s) => Backed(s))
    BY DEF LessonInv, LedgerInv, TypeOK
  <1>1. /\ completion'[s].st = "covered" /\ completion'[s].noShow = completion[s].noShow
        /\ completion[s].st = "open" /\ slot' = slot /\ OnlyRow(s) /\ UNCHANGED cons
    BY <1>a DEF SettleLesson, CompletionRow, OnlyRow
  <1>2. CompletionOK(s)'
    BY <1>1, <1>a DEF CompletionOK, Ended, OnlyRow
  <1>3. UnitTaken(s)' => Backed(s)'
    BY <1>1, <1>a DEF UnitTaken, Backed, OnlyRow
  <1>4. QED
    BY <1>1, <1>2, <1>3, OneRow

\* A personal event changes status; one that comes back finds its start free.
LEMMA DealStep ==
    ASSUME LessonInv, NEW s \in Slots, NEW to \in DealStatus, ChangeDealStatus(s, to)
    PROVE  StepOK
  <1> DEFINE r == IF to = "cancelled" THEN CancelRow(slot[s], "teacher")
                  ELSE [slot[s] EXCEPT !.status = to, !.cancelledBy = "nobody",
                                       !.cancelledAt = 0]
  <1>a. /\ slot \in [Slots -> SlotRow] /\ slot[s] \in SlotRow /\ now \in Nat
        /\ RowOK(slot[s]) /\ CompletionOK(s)
        /\ (UnitTaken(s) => Backed(s))
    BY DEF LessonInv, LedgerInv, TypeOK, PackageTypeOK
  <1>1. /\ r.status = to /\ r.personal = slot[s].personal /\ r.prev = slot[s].prev
        /\ r.teacher = slot[s].teacher /\ r.start = slot[s].start
    <2>1. CASE to = "cancelled"
      BY <2>1, <1>a, CancelRowFields
    <2>2. CASE to # "cancelled"
      BY <2>2, <1>a DEF SlotRow
    <2>3. QED
      BY <2>1, <2>2
  <1>2. /\ slot'[s] = r /\ OnlyRow(s) /\ UNCHANGED <<cons, completion>>
        /\ slot[s].personal
        /\ slot[s].status = "cancelled" =>
              FreeStart(slot, s, slot[s].teacher, slot[s].start)
    BY <1>a DEF ChangeDealStatus, OnlyRow
  <1> HIDE DEF r
  <1>3. Live(slot'[s]) => (Live(slot[s]) /\ SamePlace(s)) \/ Lands(s)
    <2>1. CASE slot[s].status = "cancelled"
      BY <2>1, <1>1, <1>2, FreeLands
    <2>2. CASE slot[s].status # "cancelled"
      BY <2>2, <1>1, <1>2, <1>a DEF RowOK, DealStatus, Live, SamePlace
    <2>3. QED
      BY <2>1, <2>2
  <1>4. RowMove(s)
    BY <1>1, <1>2, <1>3, <1>a DEF RowMove, Closed, RowOK, DealStatus
  <1>5. CompletionOK(s)'
    BY <1>1, <1>2, <1>a DEF CompletionOK
  <1>6. ~UnitTaken(s)'
    BY <1>2, <1>a DEF UnitTaken, Backed
  <1>7. QED
    BY <1>2, <1>4, <1>5, <1>6, OneRow

-----------------------------------------------------------------------------
(* Steps that leave the calendar alone.                                    *)

\* Time only ends lessons; settings touch no row.
LEMMA QuietStep ==
    ASSUME LessonInv, now' \in Nat, now <= now',
           UNCHANGED <<order, purchase, cons, slot, completion>>
    PROVE  StepOK
  <1>1. ASSUME NEW s \in Slots
        PROVE  CompletionOK(s)' /\ (UnitTaken(s)' => Backed(s)')
    <2>1. CompletionOK(s) /\ (UnitTaken(s) => Backed(s))
      BY DEF LessonInv
    <2>2. now \in Nat /\ slot[s].start \in Nat /\ slot[s].dur \in Nat
      BY DEF LessonInv, LedgerInv, TypeOK, PackageTypeOK, SlotRow
    <2>3. Ended(s) => Ended(s)'
      BY <2>2 DEF Ended
    <2>4. QED
      BY <2>1, <2>3 DEF CompletionOK, UnitTaken, Backed
  <1>2. QED
    BY <1>1 DEF StepOK, SlotStep

\* Billing keeps every unit in use backed: a purchase is voided only with its
\* units given back, and the orders of live purchases keep learner and package.
LEMMA BillingStep ==
    ASSUME LessonInv, PackageNext, UNCHANGED slotVars
    PROVE  StepOK
  <1> USE DEF LessonInv, LedgerInv
  <1>a. cons \in Ledgers /\ now' = now
    BY TypedLedger DEF PackageNext, CheckoutPackage, IssueTeacherPackageGrant, SettleOrder,
       ProcessPackageGrant, RevokeTeacherPackageGrant, RefundPackage
  <1>1. ASSUME \A s \in Slots : UnitTaken(s)' =>
                  /\ UnitTaken(s)
                  /\ cons'[s].order = cons[s].order
                  /\ purchase'[cons[s].order].st = "live"
                  /\ order'[cons[s].order].account = order[cons[s].order].account
                  /\ order'[cons[s].order].pkg = order[cons[s].order].pkg
        PROVE  StepOK
    <2>1. ASSUME NEW s \in Slots
          PROVE  CompletionOK(s)' /\ (UnitTaken(s)' => Backed(s)')
      <3>1. CompletionOK(s) /\ (UnitTaken(s) => Backed(s))
        OBVIOUS
      <3>2. CompletionOK(s)'
        BY <1>a, <3>1 DEF CompletionOK, Ended, slotVars
      <3>3. UnitTaken(s)' => Backed(s)'
        BY <1>1, <3>1 DEF Backed, slotVars
      <3>4. QED
        BY <3>2, <3>3
    <2>2. QED
      BY <2>1 DEF StepOK, SlotStep, slotVars
  <1>2. ASSUME NEW s \in Slots, UnitTaken(s)
        PROVE  /\ cons[s].order \in Orders
               /\ purchase[cons[s].order].st = "live"
               /\ order[cons[s].order].st # "none"
    BY <1>2, <1>a DEF UnitTaken, Ledgers, ConsRow, Backed, OrdersBacked
  <1>3. ASSUME UNCHANGED cons,
               \A o \in Orders : purchase[o].st = "live" =>
                   /\ purchase'[o].st = "live"
                   /\ order'[o].account = order[o].account
                   /\ order'[o].pkg = order[o].pkg
        PROVE  StepOK
    BY <1>1, <1>2, <1>3 DEF UnitTaken
  <1>4. ASSUME NEW o \in Orders, cons' = restoreAllConsumptions(cons, o),
               \A q \in Orders \ {o} : purchase'[q] = purchase[q],
               \A q \in Orders : /\ order'[q].account = order[q].account
                                 /\ order'[q].pkg = order[q].pkg
        PROVE  StepOK
    <2>1. ASSUME NEW s \in Slots, UnitTaken(s)'
          PROVE  UnitTaken(s) /\ cons'[s].order = cons[s].order /\ cons[s].order # o
      BY <1>4, <1>a, <2>1 DEF UnitTaken, restoreAllConsumptions, Ledgers, ConsRow
    <2>2. QED
      BY <1>1, <1>2, <1>4, <2>1
  <1>b. order \in [Orders -> OrderRow] /\ purchase \in [Orders -> PurchaseRow]
    BY DEF TypeOK, PackageTypeOK
  <1>5. ASSUME NEW o \in Orders, NEW l \in Learners, NEW k \in Packages,
               CheckoutPackage(o, l, k)
        PROVE  StepOK
    BY <1>3, <1>5, <1>b DEF CheckoutPackage, OrdersBacked
  <1>6. ASSUME NEW o \in Orders, NEW l \in Learners, NEW k \in Packages,
               NEW stacking \in BOOLEAN, IssueTeacherPackageGrant(o, l, k, stacking)
        PROVE  StepOK
    BY <1>3, <1>6, <1>b DEF IssueTeacherPackageGrant, OrdersBacked
  <1>7. ASSUME NEW o \in Orders, NEW st \in {"paid", "failed"}, SettleOrder(o, st)
        PROVE  StepOK
    BY <1>3, <1>7, <1>b DEF SettleOrder, OrderRow
  <1>8. ASSUME NEW o \in Orders, ProcessPackageGrant(o)
        PROVE  StepOK
    BY <1>3, <1>8, <1>b DEF ProcessPackageGrant
  <1>9. ASSUME NEW o \in Orders, RevokeTeacherPackageGrant(o)
        PROVE  StepOK
    BY <1>4, <1>9, <1>b DEF RevokeTeacherPackageGrant, OrderRow
  <1>10. ASSUME NEW o \in Orders, RefundPackage(o)
         PROVE  StepOK
    BY <1>4, <1>10, <1>b DEF RefundPackage
  <1>11. QED
    BY <1>5, <1>6, <1>7, <1>8, <1>9, <1>10 DEF PackageNext

-----------------------------------------------------------------------------
(* The theorems.                                                           *)

\* Every transaction of the calendar and of billing changes rows lawfully.
LEMMA EveryStep ==
    ASSUME LessonInv, [Next]_vars
    PROVE  StepOK
  <1>a. now \in Nat
    BY DEF LessonInv, LedgerInv, TypeOK, PackageTypeOK
  <1>1. CASE UNCHANGED vars
    BY <1>1, <1>a, QuietStep DEF vars
  <1>2. CASE Tick
    BY <1>2, <1>a, QuietStep DEF Tick
  <1>3. CASE PackageNext /\ UNCHANGED slotVars
    BY <1>3, BillingStep
  <1>4. CASE PublishNext
    BY <1>4, PublishOne, BulkStep DEF PublishNext
  <1>5. CASE BookNext
    BY <1>5, BookingOne DEF BookNext
  <1>6. CASE CancelNext
    BY <1>6, CancelStep, RescheduleStep
       DEF CancelNext, CancelLearnerSlot, CancelSlot, CancelSlotByTeacher, Billable,
           RescheduleSlotByLearner, RescheduleSlotByTeacher
  <1>7. CASE MarkNext
    BY <1>7, MarkStep, SettleStep, DealStep DEF MarkNext
  <1>8. CASE SettingsNext
    <2>1. UNCHANGED <<now, order, purchase, cons, slot, completion>>
      BY <1>8 DEF SettingsNext, SetPaymentMethodForPair, RefreshBusy
    <2>2. QED
      BY <2>1, <1>a, QuietStep
  <1>9. QED
    BY <1>1, <1>2, <1>3, <1>4, <1>5, <1>6, <1>7, <1>8 DEF Next

\* Rows, completions, starts, predecessors and units fit together in every
\* state, whatever handlers ran and in whatever order.
THEOREM LessonInvariant == Spec => []LessonInv
  <1>1. Init => LessonInv
    <2> SUFFICES ASSUME Init PROVE LessonInv
      OBVIOUS
    <2>1. LedgerInv
      BY AbsentType, PackageAssumption, FS_EmptySet
         DEF LedgerInv, Init, PackageInit, TypeOK, PackageTypeOK, OrderRow, OrderStatus,
             PurchaseRow, ConsRow, NoCons, CompletionRow, NoCompletion, OrdersBacked,
             Recorded, Fits
    <2>2. ASSUME NEW s \in Slots
          PROVE  /\ RowOK(slot[s]) /\ CompletionOK(s) /\ ~UnitTaken(s)
                 /\ slot[s].status = "absent" /\ slot[s].prev = NoSlot
      BY DEF Init, PackageInit, RowOK, CompletionOK, UnitTaken, Absent, NoCompletion,
             NoCons, Billable
    <2>3. QED
      BY <2>1, <2>2 DEF LessonInv, UniqueStart, ChainOK
  <1>2. LessonInv /\ LedgerInv' /\ [Next]_vars => LessonInv'
    <2> SUFFICES ASSUME LessonInv, LedgerInv', [Next]_vars
                 PROVE  LessonInv'
      OBVIOUS
    <2>1. StepOK
      BY EveryStep
    <2>2. (\A s \in Slots : RowOK(slot[s]))' /\ UniqueStart' /\ ChainOK'
      BY <2>1, RowsKeep DEF StepOK, LessonInv, LedgerInv
    <2>3. QED
      BY <2>1, <2>2 DEF StepOK, LessonInv
  <1>3. QED
    BY <1>1, <1>2, LedgerInvariant, PTL DEF Spec

\* A lesson has a completion exactly when its status is billable, and the two
\* agree on who missed it.
THEOREM CompletionsAgree == Spec => []CompletionMatchesStatus
  <1>1. LessonInv => CompletionMatchesStatus
    BY DEF LessonInv, CompletionOK, CompletionMatchesStatus
  <1>2. QED
    BY <1>1, LessonInvariant, PTL

\* No teacher has two live rows with one start.
THEOREM StartsUnique == Spec => []UniqueStart
  <1>1. LessonInv => UniqueStart
    BY DEF LessonInv
  <1>2. QED
    BY <1>1, LessonInvariant, PTL

\* A rescheduled lesson has one successor, and it alone can be live.
THEOREM OneSuccessor == Spec => []RescheduleChain
  <1>1. LessonInv => RescheduleChain
    BY DEF LessonInv, ChainOK, Succeeds, Closed, RescheduleChain
  <1>2. QED
    BY <1>1, LessonInvariant, PTL

\* Every unit in use backs a lesson of the learner who bought it.
THEOREM UnitsBackLessons == Spec => []ActiveUnitsBackLessons
  <1>1. LessonInv => ActiveUnitsBackLessons
    BY DEF LessonInv, UnitTaken, Backed, Held, ActiveUnitsBackLessons
  <1>2. QED
    BY <1>1, LessonInvariant, PTL

\* A cancelled lesson never comes back.
THEOREM CancelledStays == Spec => CancelledIsFinal
  <1>1. LessonInv /\ [Next]_vars =>
           [\A s \in Slots : slot[s].status = "cancelled" /\ ~slot[s].personal =>
               slot'[s] = slot[s]]_vars
    BY EveryStep DEF StepOK, SlotStep, RowMove, Closed
  <1>2. QED
    BY <1>1, LessonInvariant, PTL DEF Spec, CancelledIsFinal

\* A settled or 48 hours old completion is never removed.
LEMMA CompletionStays ==
    ASSUME LessonInv, Next, NEW s \in Slots,
           \/ completion[s].st = "covered"
           \/ completion[s].st = "open" /\ now >= completion[s].at + ImmutableAfter
    PROVE  completion'[s].st # "none"
  <1>a. /\ completion \in [Slots -> CompletionRow] /\ completion[s] \in CompletionRow
        /\ now \in Nat
    BY DEF LessonInv, LedgerInv, TypeOK, PackageTypeOK
  <1>b. ~Removable(s)
    BY <1>a, SlotAssumption DEF Removable, CompletionRow
  <1>1. ASSUME NEW u \in Slots, completion' = [completion EXCEPT ![u] = NoCompletion],
               Removable(u)
        PROVE  completion'[s].st # "none"
    BY <1>1, <1>a, <1>b
  <1>2. ASSUME NEW u \in Slots, NEW noShow, InsertCompletion(u, noShow)
        PROVE  completion'[s].st # "none"
    BY <1>2, <1>a DEF InsertCompletion
  <1>3. CASE completion' = completion
    BY <1>3
  <1>4. ASSUME NEW u \in Slots, NEW to \in LessonStatus, ChangeLessonStatus(u, to)
        PROVE  completion'[s].st # "none"
    <2>1. ASSUME completion' = [completion EXCEPT ![u].noShow = (to = "no_show_learner")]
          PROVE  completion'[s].st # "none"
      <3>1. completion'[s].st = completion[s].st
        BY <2>1, <1>a DEF CompletionRow
      <3>2. QED
        BY <3>1
    <2>2. QED
      BY <1>1, <1>2, <1>3, <1>4, <2>1 DEF ChangeLessonStatus
  <1>5. CASE MarkNext
    <2>1. ASSUME NEW u \in Slots, SettleLesson(u)
          PROVE  completion'[s].st # "none"
      BY <2>1, <1>a DEF SettleLesson, CompletionRow
    <2>2. QED
      BY <1>5, <1>1, <1>2, <1>3, <1>4, <2>1
         DEF MarkNext, MarkNoShowTeacher, Uncomplete, MarkLessonCompleted, ChangeDealStatus
  <1>6. CASE PublishNext
    BY ZenonT(60), <1>3, <1>6 DEF PublishNext, CreatePersonalEvent, CreateSlot, BulkCreateSlots,
       EditOpenSlot, MoveOpenSlot, DeleteOpenSlot
  <1>7. CASE BookNext
    <2>1. \A u \in Slots, l \in Learners :
             BookSlotLegacy(u, l) \/ BookSlot(u, l) => completion' = completion
      BY DEF BookSlotLegacy, BookSlot
    <2>2. \A u, t, l, x, d, f, choice, pinned :
             AssignSlotDirect(u, t, l, x, d, f, choice, pinned) => completion' = completion
      BY DEF AssignSlotDirect
    <2>3. QED
      BY <1>3, <1>7, <2>1, <2>2 DEF BookNext
  <1>8. CASE CancelNext
    BY ZenonT(60), <1>3, <1>8 DEF CancelNext, CancelLearnerSlot, CancelSlot, CancelSlotByTeacher,
       CancelAndRestore, RescheduleSlotByLearner, RescheduleSlotByTeacher, Reschedule
  <1>9. CASE Tick \/ SettingsNext \/ UNCHANGED slotVars
    BY <1>3, <1>9 DEF Tick, SettingsNext, SetPaymentMethodForPair, RefreshBusy, slotVars
  <1>10. QED
    BY <1>5, <1>6, <1>7, <1>8, <1>9 DEF Next

\* What money was allocated to, or is 48 hours old, stays a billed lesson.
THEOREM SettledStays == Spec => CoveredStays
  <1>1. LessonInv /\ LessonInv' /\ [Next]_vars =>
           [\A s \in Slots :
              \/ completion[s].st = "covered"
              \/ completion[s].st = "open" /\ now >= completion[s].at + ImmutableAfter
              =>
                 /\ completion'[s].st # "none"
                 /\ slot'[s].status \in Billable]_vars
    BY CompletionStays DEF LessonInv, CompletionOK
  <1>2. QED
    BY <1>1, LessonInvariant, PTL DEF Spec, CoveredStays
=============================================================================
