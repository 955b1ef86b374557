---------------------------- MODULE LessonSlots ----------------------------
(***************************************************************************)
(* The calendar (lesson_slots, lesson_completions) composed with the       *)
(* package ledger: publishing, booking, cancelling, rescheduling, marking, *)
(* correcting and settling lessons, and the teacher's personal events.     *)
(* One step is one committed database transaction.                         *)
(***************************************************************************)
EXTENDS PackageLedger

CONSTANTS
    Starts,              \* start times the calendar band allows
    Durations,           \* lesson lengths in ticks
    Tariffs,             \* active pricing_tariffs rows
    TariffTeacher,       \* owner of a tariff
    TariffDuration,
    TariffAccess,        \* pairs <<f, l>>: tariff f is public, or l may use it
    NoTariff,
    NoSlot,
    BillingModes,        \* what env BILLING_WAVE_ACTIVE = 'true' is, restart by restart
    EnvCancelWindow,     \* env LEARNER_CANCEL_WINDOW_HOURS, in ticks
    CancelWindow,        \* accounts.teacher_cancel_window_minutes, in ticks
    ImmutableAfter,      \* FORTY_EIGHT_HOURS_MS, in ticks
    BusyCells            \* <<t, x>> a foreign calendar event can ever cover

ASSUME SlotAssumption ==
    /\ Starts \subseteq Nat
    /\ Durations \subseteq Nat \ {0}
    /\ TariffTeacher \in [Tariffs -> Teachers]
    /\ TariffDuration \in [Tariffs -> Nat]
    /\ NoTariff \notin Tariffs
    /\ NoSlot \notin Slots
    /\ BillingModes \subseteq BOOLEAN
    /\ EnvCancelWindow \in Nat
    /\ CancelWindow \in [Teachers -> Nat]
    /\ ImmutableAfter \in Nat
    /\ BusyCells \subseteq Teachers \X Nat

VARIABLES
    slot,        \* lesson_slots rows
    completion,  \* lesson_completions rows by slot_id (unique)
    method,      \* pairs <<t, l>> whose payment_method is 'postpaid'
    busy         \* fresh foreign busy cells of active integrations

slotVars == <<slot, completion, method, busy>>
vars == <<now, order, purchase, cons, slot, completion, method, busy>>

LessonStatus == {"open", "booked", "cancelled", "completed",
                 "no_show_learner", "no_show_teacher"}
DealStatus == {"personal_event", "completed", "cancelled"}
Billable == {"completed", "no_show_learner"}

\* "absent" is a row that does not exist; prev is the previousSlotId that a
\* rescheduled row carries in its events log.
SlotRow == [status : LessonStatus \cup {"absent", "personal_event"},
            personal : BOOLEAN,
            teacher : Teachers \cup {NoTeacher},
            learner : Learners \cup {NoLearner},
            start : Nat, dur : Nat,
            tariff : Tariffs \cup {NoTariff},
            prev : Slots \cup {NoSlot},
            cancelledBy : {"nobody", "learner", "teacher", "admin"},
            cancelledAt : Nat]

Absent == [status |-> "absent", personal |-> FALSE, teacher |-> NoTeacher,
           learner |-> NoLearner, start |-> 0, dur |-> 0, tariff |-> NoTariff,
           prev |-> NoSlot, cancelledBy |-> "nobody", cancelledAt |-> 0]

\* st "covered": a settlement allocation points at the completion.
CompletionRow == [st : {"none", "open", "covered"}, noShow : BOOLEAN, at : Nat]
NoCompletion == [st |-> "none", noShow |-> FALSE, at |-> 0]

TypeOK ==
    /\ PackageTypeOK
    /\ slot \in [Slots -> SlotRow]
    /\ completion \in [Slots -> CompletionRow]
    /\ method \subseteq Teachers \X Learners
    /\ busy \subseteq BusyCells

Init ==
    /\ PackageInit
    /\ slot = [s \in Slots |-> Absent]
    /\ completion = [s \in Slots |-> NoCompletion]
    /\ method = {}
    /\ busy = {}

-----------------------------------------------------------------------------
(* The database constraints and shared predicates.                         *)

\* lesson_slots_teacher_start_unique (mig 0035).
FreeStart(rows, s, t, x) ==
    \A u \in Slots \ {s} : ~ /\ rows[u].status \notin {"absent", "cancelled"}
                             /\ rows[u].teacher = t
                             /\ rows[u].start = x

\* A foreign busy interval overlaps [x, x + d).
BusyOverlap(t, x, d) == \E y \in x .. x + d - 1 : <<t, y>> \in busy

Ended(s) == slot[s].start + slot[s].dur <= now

OpenRow(t, x, d, f) ==
    [Absent EXCEPT !.status = "open", !.teacher = t, !.start = x, !.dur = d,
                   !.tariff = f]

BookedRow(t, l, x, d, f, p) ==
    [OpenRow(t, x, d, f) EXCEPT !.status = "booked", !.learner = l, !.prev = p]

TariffFits(f, t, d) ==
    f # NoTariff => TariffTeacher[f] = t /\ TariffDuration[f] = d

-----------------------------------------------------------------------------
(* Publishing open slots.                                                  *)

CreateSlot(s, t, x, d, f) ==
    /\ slot[s].status = "absent"
    /\ x > now
    /\ TariffFits(f, t, d)
    /\ FreeStart(slot, s, t, x)
    /\ slot' = [slot EXCEPT ![s] = OpenRow(t, x, d, f)]
    /\ UNCHANGED <<now, order, purchase, cons, completion, method, busy>>

\* One transaction, conflicting starts skipped: ids names the rows inserted.
BulkCreateSlots(ids, t, d, f) ==
    LET fresh == {x \in DOMAIN ids : FreeStart(slot, NoSlot, t, x)} IN
    /\ TariffFits(f, t, d)
    /\ \A x \in DOMAIN ids : x > now /\ slot[ids[x]].status = "absent"
    /\ \A x, y \in DOMAIN ids : ids[x] = ids[y] => x = y
    /\ slot' = [s \in Slots |->
                  IF \E x \in fresh : ids[x] = s
                  THEN OpenRow(t, CHOOSE x \in fresh : ids[x] = s, d, f)
                  ELSE slot[s]]
    /\ UNCHANGED <<now, order, purchase, cons, completion, method, busy>>

EditOpenSlot(s, x, d) ==
    /\ slot[s].status = "open"
    /\ x = slot[s].start \/ x > now
    /\ FreeStart(slot, s, slot[s].teacher, x)
    /\ slot' = [slot EXCEPT ![s].start = x, ![s].dur = d]
    /\ UNCHANGED <<now, order, purchase, cons, completion, method, busy>>

\* moveOpenSlot and moveOpenSlotByTeacher: neither asks that x be in the future.
MoveOpenSlot(s, x) ==
    /\ slot[s].status = "open"
    /\ FreeStart(slot, s, slot[s].teacher, x)
    /\ slot' = [slot EXCEPT ![s].start = x]
    /\ UNCHANGED <<now, order, purchase, cons, completion, method, busy>>

DeleteOpenSlot(s) ==
    /\ slot[s].status = "open"
    /\ slot' = [slot EXCEPT ![s] = Absent]
    /\ UNCHANGED <<now, order, purchase, cons, completion, method, busy>>

-----------------------------------------------------------------------------
(* Booking.                                                                *)

\* The where-clause of bookSlot's UPDATE.
Reservable(s, l) ==
    /\ slot[s].status = "open"
    /\ slot[s].start > now
    /\ slot[s].teacher # l
    /\ ~BusyOverlap(slot[s].teacher, slot[s].start, slot[s].dur)

Reserve(s, l) == slot' = [slot EXCEPT ![s].status = "booked", ![s].learner = l]

BookSlotLegacy(s, l) ==
    /\ FALSE \in BillingModes
    /\ Reservable(s, l)
    /\ Reserve(s, l)
    /\ UNCHANGED <<now, order, purchase, cons, completion, method, busy>>

\* Reserve, then pay with a package unit or, failing that, go postpaid; any
\* refused gate rolls the reservation back.
BookSlot(s, l) ==
    LET t == slot[s].teacher
        d == slot[s].dur
        f == slot[s].tariff
    IN
    /\ TRUE \in BillingModes
    /\ Reservable(s, l)
    /\ f # NoTariff => <<f, l>> \in TariffAccess
    /\ <<t, l>> \in method
    /\ Consumable(cons, s, l, t, d) \/ (~HasPending(l, t, d) /\ f # NoTariff)
    /\ Reserve(s, l)
    /\ cons' \in consumePackageUnit(cons, s, l, t, d)
    /\ UNCHANGED <<now, order, purchase, completion, method, busy>>

\* assignSlotDirect: the teacher books a new row straight into "booked".
\* choice is billingChoice; pinned the purchase the teacher picked, if any.
AssignSlotDirect(s, t, l, x, d, f, choice, pinned) ==
    /\ slot[s].status = "absent"
    /\ x > now
    /\ t # l
    /\ f # NoTariff /\ TariffFits(f, t, d)
    /\ ~BusyOverlap(t, x, d)
    /\ FreeStart(slot, s, t, x)
    /\ slot' = [slot EXCEPT ![s] = BookedRow(t, l, x, d, f, NoSlot)]
    /\ \/ /\ choice # "postpaid" /\ pinned # NoOrder
          /\ Usable(pinned) /\ HasCapacity(cons, pinned)
          /\ order[pinned].account = l
          /\ PkgTeacher[order[pinned].pkg] = t
          /\ PkgDuration[order[pinned].pkg] = d
          /\ cons[s].order = NoOrder
          /\ cons' = WriteCons(cons, s, pinned)
       \/ /\ choice # "postpaid" /\ pinned = NoOrder
          /\ Consumable(cons, s, l, t, d)
          /\ cons' \in consumePackageUnit(cons, s, l, t, d)
       \/ /\ \/ choice = "postpaid"
             \/ /\ choice = "auto" /\ pinned = NoOrder
                /\ ~Consumable(cons, s, l, t, d)
                /\ ~HasPending(l, t, d)
          /\ <<t, l>> \in method
          /\ UNCHANGED cons
    /\ UNCHANGED <<now, order, purchase, completion, method, busy>>

-----------------------------------------------------------------------------
(* Cancelling and rescheduling.                                            *)

CancelRow(r, by) == [r EXCEPT !.status = "cancelled", !.cancelledBy = by,
                              !.cancelledAt = now]

\* Every cancel path restores the slot's unit in the same transaction.
CancelAndRestore(s, by) ==
    /\ slot' = [slot EXCEPT ![s] = CancelRow(slot[s], by)]
    /\ cons' = restorePackageConsumption(cons, s)
    /\ UNCHANGED <<now, order, purchase, completion, method, busy>>

CancelLearnerSlot(s, l) ==
    /\ slot[s].status = "booked"
    /\ slot[s].learner = l
    /\ slot[s].start >= now + CancelWindow[slot[s].teacher]
    /\ CancelAndRestore(s, "learner")

\* Mutant: a billable lesson can be cancelled too.
CancelSlotBillable(s) ==
    /\ slot[s].status \notin {"absent", "cancelled"}
    /\ CancelAndRestore(s, "admin")

\* cancelSlot, the admin path: any row that is not cancelled and not billable.
CancelSlot(s) ==
    /\ slot[s].status \notin {"absent", "cancelled"} \cup Billable
    /\ CancelAndRestore(s, "admin")

CancelSlotByTeacher(s) ==
    /\ slot[s].status \in {"open", "booked"}
    /\ CancelAndRestore(s, "teacher")

\* Mutant: the old row stays booked.
RescheduleKeepsOld(s, n, x, by) ==
    LET old == slot[s] IN
    /\ old.status = "booked"
    /\ x > now
    /\ slot[n].status = "absent"
    /\ FreeStart(slot, n, old.teacher, x)
    /\ slot' = [slot EXCEPT ![n] = BookedRow(old.teacher, old.learner, x,
                                             old.dur, old.tariff, s)]
    /\ UNCHANGED <<now, order, purchase, cons, completion, method, busy>>

\* Cancel row s, restore its unit, insert row n at x, consume again, in one
\* transaction; a collision or a busy interval rolls everything back.
Reschedule(s, n, x, by) ==
    LET old == slot[s]
        moved == [slot EXCEPT ![s] = CancelRow(old, by)]
        restored == restorePackageConsumption(cons, s)
    IN
    /\ old.status = "booked"
    /\ x > now
    /\ slot[n].status = "absent"
    /\ ~BusyOverlap(old.teacher, x, old.dur)
    /\ FreeStart(moved, n, old.teacher, x)
    /\ slot' = [moved EXCEPT ![n] = BookedRow(old.teacher, old.learner, x,
                                              old.dur, old.tariff, s)]
    /\ cons' \in IF old.tariff = NoTariff THEN {restored}
                 ELSE consumePackageUnit(restored, n, old.learner,
                                         old.teacher, old.dur)
    /\ UNCHANGED <<now, order, purchase, completion, method, busy>>

RescheduleSlotByLearner(s, n, x) ==
    /\ slot[s].start >= now + EnvCancelWindow
    /\ Reschedule(s, n, x, "learner")

RescheduleSlotByTeacher(s, n, x) == Reschedule(s, n, x, "teacher")

-----------------------------------------------------------------------------
(* Marking lessons, correcting the mark, settling.                         *)

\* insert into lesson_completions; the forward trigger sets the status.
InsertCompletion(s, noShow) ==
    /\ completion[s].st = "none"
    /\ completion' = [completion EXCEPT ![s] =
                        [st |-> "open", noShow |-> noShow, at |-> now]]
    /\ slot' = [slot EXCEPT ![s].status =
                  IF noShow THEN "no_show_learner" ELSE "completed"]

\* Mutant: the settlement gate is missing.
RemovableSettled(s) ==
    /\ completion[s].st # "none"
    /\ now < completion[s].at + ImmutableAfter

\* Gates before a completion is deleted; the BEFORE DELETE trigger repeats them.
Removable(s) ==
    /\ completion[s].st = "open"
    /\ now < completion[s].at + ImmutableAfter

\* Mutant: a cancelled lesson can be marked.
MarkNoShowAny(s) ==
    /\ slot[s].learner # NoLearner
    /\ slot[s].start <= now
    /\ slot' = [slot EXCEPT ![s].status = "no_show_teacher"]
    /\ UNCHANGED <<now, order, purchase, cons, completion, method, busy>>

MarkNoShowTeacher(s) ==
    /\ slot[s].status = "booked"
    /\ slot[s].start <= now
    /\ slot' = [slot EXCEPT ![s].status = "no_show_teacher"]
    /\ UNCHANGED <<now, order, purchase, cons, completion, method, busy>>

MarkLessonCompleted(s, noShow) ==
    /\ slot[s].status = "booked"
    /\ Ended(s)
    /\ InsertCompletion(s, noShow)
    /\ UNCHANGED <<now, order, purchase, cons, method, busy>>

\* POST /api/teacher/lessons/[id]/uncomplete; the reverse trigger sets "booked".
Uncomplete(s) ==
    /\ Removable(s)
    /\ completion' = [completion EXCEPT ![s] = NoCompletion]
    /\ slot' = [slot EXCEPT ![s].status = "booked"]
    /\ UNCHANGED <<now, order, purchase, cons, method, busy>>

\* changeLessonStatus with a fresh expectedUpdatedAt: the transition matrix.
ChangeLessonStatus(s, to) ==
    LET from == slot[s].status IN
    /\ ~slot[s].personal
    /\ slot[s].learner # NoLearner
    /\ from \in {"booked", "no_show_teacher"} \cup Billable
    /\ to # from
    /\ Ended(s)
    /\ \/ /\ from \in Billable /\ to \in Billable
          /\ completion[s].st # "none"
          /\ completion' = [completion EXCEPT ![s].noShow =
                              (to = "no_show_learner")]
          /\ slot' = [slot EXCEPT ![s].status = to]
       \/ /\ from \in Billable /\ to \in {"booked", "no_show_teacher"}
          /\ Removable(s)
          /\ completion' = [completion EXCEPT ![s] = NoCompletion]
          /\ slot' = [slot EXCEPT ![s].status = to]
       \/ /\ from \notin Billable /\ to \in Billable
          /\ InsertCompletion(s, to = "no_show_learner")
       \/ /\ from \notin Billable /\ to \in {"booked", "no_show_teacher"}
          /\ slot' = [slot EXCEPT ![s].status = to]
          /\ UNCHANGED completion
    /\ UNCHANGED <<now, order, purchase, cons, method, busy>>

\* settleLessons allocates money to an outstanding completion; one without a
\* tariff has amount 0 and is never outstanding.
SettleLesson(s) ==
    /\ completion[s].st = "open"
    /\ slot[s].tariff # NoTariff
    /\ completion' = [completion EXCEPT ![s].st = "covered"]
    /\ UNCHANGED <<now, order, purchase, cons, slot, method, busy>>

-----------------------------------------------------------------------------
(* The teacher's personal events share the table and its unique index.     *)

CreatePersonalEvent(s, t, x, d) ==
    /\ slot[s].status = "absent"
    /\ FreeStart(slot, s, t, x)
    /\ slot' = [slot EXCEPT ![s] = [OpenRow(t, x, d, NoTariff) EXCEPT
                                      !.status = "personal_event",
                                      !.personal = TRUE]]
    /\ UNCHANGED <<now, order, purchase, cons, completion, method, busy>>

\* Mutant: a cancelled event returns without looking at its start.
ChangeDealStatusBlind(s, to) ==
    /\ slot[s].personal
    /\ to # slot[s].status
    /\ slot' = [slot EXCEPT ![s].status = to]
    /\ UNCHANGED <<now, order, purchase, cons, completion, method, busy>>

\* transitionPersonalEvent and changeDealStatus: any other deal status; a
\* cancelled event that returns must find its start free.
ChangeDealStatus(s, to) ==
    /\ slot[s].personal
    /\ to # slot[s].status
    /\ slot[s].status = "cancelled" =>
          FreeStart(slot, s, slot[s].teacher, slot[s].start)
    /\ slot' = [slot EXCEPT ![s] =
                  IF to = "cancelled" THEN CancelRow(slot[s], "teacher")
                  ELSE [slot[s] EXCEPT !.status = to,
                                       !.cancelledBy = "nobody",
                                       !.cancelledAt = 0]]
    /\ UNCHANGED <<now, order, purchase, cons, completion, method, busy>>

-----------------------------------------------------------------------------
(* Settings, the calendar pull and the clock.                              *)

SetPaymentMethodForPair(t, l) ==
    /\ method' = IF <<t, l>> \in method THEN method \ {<<t, l>>}
                                        ELSE method \cup {<<t, l>>}
    /\ UNCHANGED <<now, order, purchase, cons, slot, completion, busy>>

\* A pull rewrites the cached busy cells, or they go stale and stop counting.
RefreshBusy(cells) ==
    /\ busy' = cells
    /\ UNCHANGED <<now, order, purchase, cons, slot, completion, method>>

Tick ==
    /\ now < MaxTime
    /\ now' = now + 1
    /\ UNCHANGED <<order, purchase, cons, slot, completion, method, busy>>

PublishNext ==
    \/ \E s \in Slots, t \in Teachers, x \in Starts, d \in Durations :
          \/ CreatePersonalEvent(s, t, x, d)
          \/ \E f \in Tariffs \cup {NoTariff} : CreateSlot(s, t, x, d, f)
    \/ \E X \in SUBSET Starts : \E ids \in [X -> Slots] :
          \E t \in Teachers, d \in Durations, f \in Tariffs \cup {NoTariff} :
             BulkCreateSlots(ids, t, d, f)
    \/ \E s \in Slots, x \in Starts, d \in Durations : EditOpenSlot(s, x, d)
    \/ \E s \in Slots, x \in Starts : MoveOpenSlot(s, x)
    \/ \E s \in Slots : DeleteOpenSlot(s)

BookNext ==
    \/ \E s \in Slots, l \in Learners : BookSlotLegacy(s, l) \/ BookSlot(s, l)
    \/ \E s \in Slots, t \in Teachers, l \in Learners, x \in Starts, d \in Durations,
          f \in Tariffs \cup {NoTariff}, choice \in {"auto", "package", "postpaid"},
          pinned \in Orders \cup {NoOrder} :
          AssignSlotDirect(s, t, l, x, d, f, choice, pinned)

CancelNext ==
    \/ \E s \in Slots, l \in Learners : CancelLearnerSlot(s, l)
    \/ \E s \in Slots : CancelSlot(s) \/ CancelSlotByTeacher(s)
    \/ \E s, n \in Slots, x \in Starts : \/ RescheduleSlotByLearner(s, n, x)
                                         \/ RescheduleSlotByTeacher(s, n, x)

MarkNext ==
    \E s \in Slots : \/ MarkNoShowTeacher(s)
                     \/ Uncomplete(s)
                     \/ SettleLesson(s)
                     \/ \E noShow \in BOOLEAN : MarkLessonCompleted(s, noShow)
                     \/ \E to \in LessonStatus : ChangeLessonStatus(s, to)
                     \/ \E to \in DealStatus : ChangeDealStatus(s, to)

SettingsNext ==
    \/ \E t \in Teachers, l \in Learners : SetPaymentMethodForPair(t, l)
    \/ \E cells \in SUBSET BusyCells : RefreshBusy(cells)

Next ==
    \/ Tick
    \/ PackageNext /\ UNCHANGED slotVars
    \/ PublishNext
    \/ BookNext
    \/ CancelNext
    \/ MarkNext
    \/ SettingsNext

Spec == Init /\ [][Next]_vars

-----------------------------------------------------------------------------
(* Safety.                                                                 *)

\* Every consumed, unrestored unit backs a lesson that is booked or was held,
\* and comes from a purchase the same learner holds for that lesson length and
\* teacher and that was not voided: no cancel, reschedule, refund or revoke
\* leaves a unit spent on nothing (consumption.ts, mutations-cancel.ts).
ActiveUnitsBackLessons ==
    \A s \in Slots : cons[s].order # NoOrder /\ ~cons[s].restored =>
        LET o == cons[s].order IN
        /\ slot[s].status \in {"booked", "no_show_teacher"} \cup Billable
        /\ purchase[o].st = "live"
        /\ order[o].account = slot[s].learner
        /\ PkgDuration[order[o].pkg] = slot[s].dur
        /\ PkgTeacher[order[o].pkg] \in {slot[s].teacher, NoTeacher}

\* A purchase never has more units in use than it was sold with, whatever mix
\* of booking, direct assignment, cancellation and rescheduling ran
\* (count_initial minus active rows in consumePackageUnit).
NoOverdraw ==
    \A o \in Orders : purchase[o].st # "none" =>
        Cardinality(Active(cons, o)) <= PkgCount[order[o].pkg]

\* A lesson has a completion row exactly when its status is billable, the row
\* agrees on who missed it, and the lesson is over: the triggers of mig 0092,
\* the marking paths and the status editor never drift apart.
CompletionMatchesStatus ==
    \A s \in Slots :
        /\ completion[s].st # "none" <=>
              slot[s].status \in Billable /\ ~slot[s].personal
        /\ completion[s].st # "none" =>
              /\ completion[s].noShow <=> slot[s].status = "no_show_learner"
              /\ Ended(s)

\* No teacher has two live rows with one start, personal events included, even
\* after a cancelled event is reinstated (mig 0035, applyDealChainInTx).
UniqueStart ==
    \A s, u \in Slots :
        /\ s # u
        /\ slot[s].status \notin {"absent", "cancelled"}
        /\ slot[u].status \notin {"absent", "cancelled"}
        => <<slot[s].teacher, slot[s].start>> # <<slot[u].teacher, slot[u].start>>

\* Rescheduling never duplicates a lesson: a row is replaced by at most one
\* other, is cancelled once replaced, and its successor is the same learner,
\* teacher and length (mutations-reschedule.ts).
RescheduleChain ==
    \A s \in Slots : slot[s].prev # NoSlot =>
        LET p == slot[s].prev IN
        /\ slot[p].status = "cancelled"
        /\ slot[p].learner = slot[s].learner
        /\ slot[p].teacher = slot[s].teacher
        /\ slot[p].dur = slot[s].dur
        /\ \A u \in Slots : slot[u].prev = p => u = s

\* A completion that money was allocated to, or that is 48 hours old, is never
\* removed, so its lesson can no longer be cancelled, moved or billed again.
CoveredStays ==
    [][\A s \in Slots :
          \/ completion[s].st = "covered"
          \/ completion[s].st = "open" /\ now >= completion[s].at + ImmutableAfter
          =>
             /\ completion'[s].st # "none"
             /\ slot'[s].status \in Billable]_vars

\* A cancelled lesson stays cancelled; only a personal event may come back.
CancelledIsFinal ==
    [][\A s \in Slots : slot[s].status = "cancelled" /\ ~slot[s].personal =>
          slot'[s] = slot[s]]_vars

-----------------------------------------------------------------------------
(* The abstract ledger this module implements.                             *)

Ledger == INSTANCE UnitLedger WITH
    standing <- [o \in Orders |-> purchase[o].st],
    size <- [o \in Orders |-> IF purchase[o].st = "none" THEN 0
                              ELSE PkgCount[order[o].pkg]],
    unit <- [s \in Slots |-> IF cons[s].restored THEN NoOrder
                             ELSE cons[s].order],
    spent <- {s \in Slots : cons[s].order # NoOrder}

\* Every transaction of the calendar and of billing is one step of the abstract
\* ledger or none: units are taken only from live purchases with capacity,
\* once per slot, and come back on cancel, reschedule, refund and revoke.
ImplementsUnitLedger == Ledger!Spec
=============================================================================
