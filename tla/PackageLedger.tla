--------------------------- MODULE PackageLedger ---------------------------
(***************************************************************************)
(* Prepaid lesson packages: the orders that buy them, the purchase rows    *)
(* they turn into, and the append-only ledger of consumed units            *)
(* (package_consumptions, one row per slot).                               *)
(*                                                                         *)
(* One step is one committed database transaction; LessonSlots composes    *)
(* these operations with the calendar.  The statements inside a            *)
(* transaction and the locks that make it atomic are in BookingTx.         *)
(***************************************************************************)
EXTENDS Naturals, FiniteSets

CONSTANTS
    Slots,          \* ids of lesson_slots rows
    Orders,         \* invoice ids; a purchase row is named by its order
    Packages,       \* the lesson_packages catalogue
    Learners,
    Teachers,
    PkgTeacher,     \* owner of a package, NoTeacher for rows without one
    PkgDuration,    \* lesson length a package pays for
    PkgCount,       \* units in a package
    NoOrder,        \* "no ledger row for this slot"
    NoPackage,
    NoLearner,
    NoTeacher,
    PackageLife,    \* ticks from payment to expiry (180 days)
    PendingWindow,  \* ticks an unpaid order counts as in flight (15 minutes)
    MaxTime         \* bound on the clock

ASSUME PackageAssumption ==
    /\ IsFiniteSet(Slots)
    /\ NoOrder \notin Orders
    /\ NoPackage \notin Packages
    /\ NoLearner \notin Learners
    /\ NoTeacher \notin Teachers
    /\ PkgTeacher \in [Packages -> Teachers \cup {NoTeacher}]
    /\ PkgDuration \in [Packages -> Nat]
    /\ PkgCount \in [Packages -> Nat]
    /\ PackageLife \in Nat
    /\ PendingWindow \in Nat
    /\ MaxTime \in Nat

VARIABLES
    now,        \* the database clock
    order,      \* payment_orders rows that carry a package
    purchase,   \* package_purchases rows
    cons        \* package_consumptions rows by slot_id, their primary key

OrderStatus == {"none", "pending", "paid", "failed",
                "teacher_granted", "teacher_revoked"}

\* at is created_at while the order is pending and paid_at once it is paid.
OrderRow == [st : OrderStatus, account : Learners \cup {NoLearner},
             pkg : Packages \cup {NoPackage}, at : Nat]

PurchaseRow == [st : {"none", "live", "voided"}, expires : Nat]

ConsRow == [order : Orders \cup {NoOrder}, restored : BOOLEAN]

NoCons == [order |-> NoOrder, restored |-> FALSE]

PackageTypeOK ==
    /\ now \in Nat
    /\ order \in [Orders -> OrderRow]
    /\ purchase \in [Orders -> PurchaseRow]
    /\ cons \in [Slots -> ConsRow]

PackageInit ==
    /\ now = 0
    /\ order = [o \in Orders |-> [st |-> "none", account |-> NoLearner,
                                  pkg |-> NoPackage, at |-> 0]]
    /\ purchase = [o \in Orders |-> [st |-> "none", expires |-> 0]]
    /\ cons = [s \in Slots |-> NoCons]

-----------------------------------------------------------------------------
(* Reading the ledger.                                                     *)

\* Slots whose unit of purchase o is consumed and not restored, in ledger c.
Active(c, o) == {s \in Slots : c[s].order = o /\ ~c[s].restored}

\* Mutant: the last unit can be handed out twice.
HasCapacityOffByOne(c, o) ==
    Cardinality(Active(c, o)) <= PkgCount[order[o].pkg]

HasCapacity(c, o) == Cardinality(Active(c, o)) < PkgCount[order[o].pkg]

Usable(o) == purchase[o].st = "live" /\ purchase[o].expires > now

\* The where-clause of consumePackageUnit.
Eligible(c, l, t, d) ==
    {o \in Orders : /\ Usable(o)
                    /\ order[o].account = l
                    /\ PkgDuration[order[o].pkg] = d
                    /\ PkgTeacher[order[o].pkg] \in {t, NoTeacher}
                    /\ HasCapacity(c, o)}

EarliestExpiring(os) ==
    {o \in os : \A q \in os : purchase[o].expires <= purchase[q].expires}

WriteCons(c, s, o) == [c EXCEPT ![s] = [order |-> o, restored |-> FALSE]]

Consumable(c, s, l, t, d) == c[s].order = NoOrder /\ Eligible(c, l, t, d) # {}

\* The ledgers consumePackageUnit can leave: one unit of the earliest expiring
\* eligible purchase (ties fall to the row id, an arbitrary choice), or c itself
\* when there is none or the slot already has a row.
consumePackageUnit(c, s, l, t, d) ==
    IF Consumable(c, s, l, t, d)
    THEN {WriteCons(c, s, o) : o \in EarliestExpiring(Eligible(c, l, t, d))}
    ELSE {c}

\* Mutant: the restore is forgotten.
restoreNothing(c, s) == c

restorePackageConsumption(c, s) ==
    [c EXCEPT ![s].restored = (c[s].order # NoOrder)]

restoreAllConsumptions(c, o) ==
    [s \in Slots |-> IF c[s].order = o THEN [c[s] EXCEPT !.restored = TRUE]
                                       ELSE c[s]]

\* learnerHasActivePackageOfDuration
OwnsActive(l, t, d) ==
    \E o \in Orders : /\ Usable(o)
                      /\ order[o].account = l
                      /\ PkgDuration[order[o].pkg] = d
                      /\ t = NoTeacher \/ PkgTeacher[order[o].pkg] = t
                      /\ HasCapacity(cons, o)

\* accountHasPendingPackageGrantForDuration
HasPending(l, t, d) ==
    \E o \in Orders : /\ order[o].st = "pending"
                      /\ order[o].account = l
                      /\ PkgDuration[order[o].pkg] = d
                      /\ t = NoTeacher \/ PkgTeacher[order[o].pkg] = t
                      /\ now < order[o].at + PendingWindow

-----------------------------------------------------------------------------
(* Buying, granting, revoking and refunding a package.                     *)

\* POST /api/checkout/package: under the pkg-stack lock, neither an order in
\* flight nor an active package of the same length from the same teacher.
CheckoutPackage(o, l, k) ==
    /\ order[o].st = "none"
    /\ ~HasPending(l, PkgTeacher[k], PkgDuration[k])
    /\ ~OwnsActive(l, PkgTeacher[k], PkgDuration[k])
    /\ order' = [order EXCEPT ![o] = [st |-> "pending", account |-> l,
                                      pkg |-> k, at |-> now]]
    /\ UNCHANGED <<now, purchase, cons>>

\* The order is paid, or it fails or is cancelled, which a payment that comes
\* late still undoes.  The grant is a later step of the same handler, and may
\* never follow.
SettleOrder(o, st) ==
    /\ order[o].st = "pending" \/ (order[o].st = "failed" /\ st = "paid")
    /\ order' = [order EXCEPT ![o].st = st, ![o].at = now]
    /\ UNCHANGED <<now, purchase, cons>>

\* processPackageGrant: a replay for the same invoice, or an active package of
\* the same length from the same teacher, grants nothing.
ProcessPackageGrant(o) ==
    /\ order[o].st = "paid"
    /\ purchase[o].st = "none"
    /\ ~OwnsActive(order[o].account, PkgTeacher[order[o].pkg],
                   PkgDuration[order[o].pkg])
    /\ purchase' = [purchase EXCEPT ![o] =
                      [st |-> "live", expires |-> order[o].at + PackageLife]]
    /\ UNCHANGED <<now, order, cons>>

\* issueTeacherPackageGrant: order and purchase in one transaction;
\* allowStacking skips the active-package gate.
IssueTeacherPackageGrant(o, l, k, allowStacking) ==
    /\ order[o].st = "none"
    /\ PkgTeacher[k] # NoTeacher
    /\ allowStacking \/ ~OwnsActive(l, PkgTeacher[k], PkgDuration[k])
    /\ order' = [order EXCEPT ![o] = [st |-> "teacher_granted", account |-> l,
                                      pkg |-> k, at |-> now]]
    /\ purchase' = [purchase EXCEPT ![o] =
                      [st |-> "live", expires |-> now + PackageLife]]
    /\ UNCHANGED <<now, cons>>

\* Mutant: the order's new status is written to the purchase row.
RevokeIntoPurchase(o) ==
    /\ order[o].st = "teacher_granted"
    /\ purchase[o].st # "none"
    /\ Active(cons, o) = {}
    /\ purchase' = [purchase EXCEPT ![o].st = "teacher_revoked"]
    /\ UNCHANGED <<now, order, cons>>

\* revokeTeacherPackageGrant refuses while any unit is in use.
RevokeTeacherPackageGrant(o) ==
    /\ order[o].st = "teacher_granted"
    /\ purchase[o].st # "none"
    /\ Active(cons, o) = {}
    /\ purchase' = [purchase EXCEPT ![o].st = "voided"]
    /\ cons' = restoreAllConsumptions(cons, o)
    /\ order' = [order EXCEPT ![o].st = "teacher_revoked"]
    /\ UNCHANGED now

\* Mutant: the refunded purchase is deleted instead of voided.
RefundDeletes(o) ==
    /\ order[o].st = "paid"
    /\ purchase[o].st = "live"
    /\ purchase' = [purchase EXCEPT ![o].st = "none"]
    /\ cons' = restoreAllConsumptions(cons, o)
    /\ UNCHANGED <<now, order>>

\* POST /api/admin/refunds, kind = package: only a paid order has money to
\* return, and a second full refund would exceed the allocation.
RefundPackage(o) ==
    /\ order[o].st = "paid"
    /\ purchase[o].st = "live"
    /\ purchase' = [purchase EXCEPT ![o].st = "voided"]
    /\ cons' = restoreAllConsumptions(cons, o)
    /\ UNCHANGED <<now, order>>

PackageNext ==
    \/ \E o \in Orders, l \in Learners, k \in Packages :
          \/ CheckoutPackage(o, l, k)
          \/ \E stacking \in BOOLEAN : IssueTeacherPackageGrant(o, l, k, stacking)
    \/ \E o \in Orders : \/ \E st \in {"paid", "failed"} : SettleOrder(o, st)
                         \/ ProcessPackageGrant(o)
                         \/ RevokeTeacherPackageGrant(o)
                         \/ RefundPackage(o)
=============================================================================
