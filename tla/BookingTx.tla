----------------------------- MODULE BookingTx -----------------------------
(***************************************************************************)
(* Booking, assigning, rescheduling, cancelling and refunding as the       *)
(* database really runs them: concurrent READ COMMITTED transactions, one  *)
(* statement per step, with the per-learner advisory lock, the row locks,  *)
(* the re-check of a row after a wait, deadlock victims and connections    *)
(* that die in the middle.                                                 *)
(*                                                                         *)
(* One teacher and one lesson length; the filters on both, and the clock,  *)
(* are in PackageLedger and LessonSlots.                                   *)
(***************************************************************************)
EXTENDS Naturals, Sequences, FiniteSets

CONSTANTS
    Txns,       \* database transactions, one per request
    Slots,
    Requests,   \* the requests users may make, among Jobs
    Published,  \* slots that exist, open; the others are ids for new rows
    Start,      \* start_at of each row
    Learners,
    Orders,
    Owner,      \* account_id of a purchase
    Count,      \* count_initial
    Expires,    \* expires_at; distinct, the row id breaks ties
    NoOrder,
    NoSlot,
    NoLearner

ASSUME TxAssumption ==
    /\ IsFiniteSet(Slots)
    /\ Published \subseteq Slots
    /\ Start \in [Slots -> Nat]
    /\ Owner \in [Orders -> Learners]
    /\ Count \in [Orders -> Nat]
    /\ Expires \in [Orders -> Nat]
    /\ \A o, q \in Orders : Expires[o] = Expires[q] => o = q
    /\ NoOrder \notin Orders /\ NoSlot \notin Slots /\ NoLearner \notin Learners

VARIABLES
    slot,       \* committed lesson_slots
    cons,       \* committed package_consumptions
    standing,   \* committed package_purchases: none, live, voided
    tx          \* the transactions

committed == <<slot, cons, standing>>
vars == <<slot, cons, standing, tx>>

NoCons == [order |-> NoOrder, restored |-> FALSE]

-----------------------------------------------------------------------------
(* The transactions, as the statements they issue.                         *)

\* consumePackageUnit is "pick", "lockPurchase", "insertUnit".
\* Mutant: bookSlot without the advisory lock.
BookSlotTxUnlocked == <<"reserve", "pick", "lockPurchase", "insertUnit", "commit">>

BookSlotTx ==
    <<"advisory", "reserve", "pick", "lockPurchase", "insertUnit", "commit">>
AssignSlotDirectTx ==
    <<"advisory", "insertSlot", "pick", "lockPurchase", "insertUnit", "commit">>
RescheduleByLearnerTx ==
    <<"advisory", "cancel", "restore", "insertSlot", "pick", "lockPurchase",
      "insertUnit", "commit">>
RescheduleByTeacherTx ==
    <<"cancel", "advisory", "restore", "insertSlot", "pick", "lockPurchase",
      "insertUnit", "commit">>
CancelTx == <<"cancel", "restore", "commit">>

\* Mutant: the consumptions are restored before the purchase is voided.
RefundTxSwapped == <<"allocation", "restoreAll", "void", "commit">>

RefundTx == <<"allocation", "void", "restoreAll", "commit">>

Job(kind, s, n, l, o) ==
    [kind |-> kind, slot |-> s, new |-> n, learner |-> l, order |-> o]

Jobs ==
    {Job("book", s, s, l, NoOrder) : s \in Published, l \in Learners}
    \cup {Job("assign", n, n, l, NoOrder) : n \in Slots \ Published, l \in Learners}
    \cup {Job("rescheduleByLearner", s, n, l, NoOrder) :
            s \in Slots, n \in Slots \ Published, l \in Learners}
    \cup {Job("rescheduleByTeacher", s, n, NoLearner, NoOrder) :
            s \in Slots, n \in Slots \ Published}
    \cup {Job("cancel", s, NoSlot, NoLearner, NoOrder) : s \in Slots}
    \cup {Job("refund", NoSlot, NoSlot, NoLearner, o) : o \in Orders}

ASSUME RequestsAssumption == Requests \subseteq Jobs

Program(kind) ==
    CASE kind = "book" -> BookSlotTx
      [] kind = "assign" -> AssignSlotDirectTx
      [] kind = "rescheduleByLearner" -> RescheduleByLearnerTx
      [] kind = "rescheduleByTeacher" -> RescheduleByTeacherTx
      [] kind = "cancel" -> CancelTx
      [] kind = "refund" -> RefundTx

\* wslot, wcons, wvoid: uncommitted writes.  cand: purchases the select saw.
Idle == [job |-> Job("none", NoSlot, NoSlot, NoLearner, NoOrder),
         todo |-> <<>>, held |-> {}, cand |-> {},
         wslot |-> <<>>, wcons |-> <<>>, wvoid |-> {}]

Init ==
    /\ slot = [s \in Slots |->
                 [status |-> IF s \in Published THEN "open" ELSE "absent",
                  learner |-> NoLearner]]
    /\ cons = [s \in Slots |-> NoCons]
    /\ standing = [o \in Orders |-> "none"]
    /\ tx = [i \in Txns |-> Idle]

-----------------------------------------------------------------------------
(* Snapshots, locks, commit and rollback.                                  *)

At(i, stmt) == tx[i].todo # <<>> /\ Head(tx[i].todo) = stmt

Overlay(w, base) ==
    [x \in DOMAIN base |-> IF x \in DOMAIN w THEN w[x] ELSE base[x]]

\* What a statement of i sees: committed rows and its own writes.
SlotsSeen(i) == Overlay(tx[i].wslot, slot)
ConsSeen(i) == Overlay(tx[i].wcons, cons)

CanLock(i, r) == \A j \in Txns \ {i} : r \notin tx[j].held

\* The learner whose consumption lock i takes: the caller's or, when the
\* teacher reschedules, the one on the row just cancelled.
LockedLearner(i) ==
    IF tx[i].job.kind = "rescheduleByTeacher"
    THEN SlotsSeen(i)[tx[i].job.slot].learner
    ELSE tx[i].job.learner

Earliest(os) == CHOOSE o \in os : \A q \in os : Expires[o] <= Expires[q]

ActiveRows(c, o) == {s \in Slots : c[s].order = o /\ ~c[s].restored}

\* Mutant: bookSlot's update forgets status = 'open'.
MatchesAny(i) ==
    LET j == tx[i].job IN
    j.kind # "book" => slot[j.slot].status \in {"open", "booked"}

\* The row meets the where-clause of i's update of lesson_slots.
Matches(i) ==
    LET j == tx[i].job
        row == slot[j.slot]
    IN CASE j.kind = "book" -> row.status = "open"
         [] j.kind = "cancel" -> row.status \in {"open", "booked"}
         [] j.kind = "rescheduleByTeacher" -> row.status = "booked"
         [] j.kind = "rescheduleByLearner" ->
               row.status = "booked" /\ row.learner = j.learner

\* Rows with the same start that another transaction is writing: the unique
\* index makes an insert wait for them.
Rivals(i) ==
    {<<"slot", s>> : s \in {u \in Slots : /\ u # tx[i].job.new
                                          /\ Start[u] = Start[tx[i].job.new]
                                          /\ ~CanLock(i, <<"slot", u>>)}}

\* The locks the next statement of i can go on with; it waits for one of them.
Wanted(i) ==
    LET j == tx[i].job IN
    CASE At(i, "advisory") -> {<<"advisory", LockedLearner(i)>>}
      [] (At(i, "reserve") \/ At(i, "cancel")) /\ Matches(i) ->
            {<<"slot", j.slot>>}
      [] At(i, "restore") /\ ConsSeen(i)[j.slot].order # NoOrder
            /\ ~ConsSeen(i)[j.slot].restored -> {<<"cons", j.slot>>}
      [] At(i, "insertSlot") -> Rivals(i)
      [] At(i, "lockPurchase") /\ tx[i].cand # {} ->
            {<<"purchase", Earliest(tx[i].cand)>>}
      [] At(i, "allocation") -> {<<"allocation", j.order>>}
      [] At(i, "void") -> {<<"purchase", j.order>>}
      [] At(i, "restoreAll") ->
            {<<"cons", s>> : s \in ActiveRows(ConsSeen(i), j.order)}
      [] OTHER -> {}

\* j holds what i waits for.
WaitsFor(i, j) ==
    /\ i # j /\ Wanted(i) \cap tx[j].held # {}
    /\ \A r \in Wanted(i) : ~CanLock(i, r)

\* Whoever i waits for, and they wait for, and so on, i is among them.
InCycle(i) ==
    \A S \in SUBSET Txns :
        (\A j \in S \cup {i}, k \in Txns : WaitsFor(j, k) => k \in S) => i \in S

\* Mutant: an early return without rollback leaves the transaction open.
RollbackForgotten(i) ==
    /\ tx' = [tx EXCEPT ![i].todo = <<>>]
    /\ UNCHANGED committed

Rollback(i) ==
    /\ tx' = [tx EXCEPT ![i] = [Idle EXCEPT !.job = tx[i].job]]
    /\ UNCHANGED committed

\* Statement done: hold r, and go on with the rest of the program.
Advance(i, r, upd) ==
    tx' = [tx EXCEPT ![i] = [upd EXCEPT !.todo = Tail(@), !.held = @ \cup r]]

\* A request arrives; the id of a row it will insert is fresh.
Begin(i, j) ==
    /\ tx[i].job.kind = "none"
    /\ j.new \in Slots \ Published => \A k \in Txns : tx[k].job.new # j.new
    /\ tx' = [tx EXCEPT ![i] = [Idle EXCEPT !.job = j, !.todo = Program(j.kind)]]
    /\ UNCHANGED committed

-----------------------------------------------------------------------------
(* The statements.                                                         *)

Advisory(i) ==
    LET r == <<"advisory", LockedLearner(i)>> IN
    /\ At(i, "advisory")
    /\ CanLock(i, r)
    /\ Advance(i, {r}, tx[i])
    /\ UNCHANGED committed

\* update lesson_slots ... where ...: waits only for a row that matches, and
\* looks at the committed row again once it has the lock.
UpdateSlot(i, row) ==
    LET s == tx[i].job.slot IN
    \/ /\ ~Matches(i)
       /\ Rollback(i)
    \/ /\ Matches(i)
       /\ CanLock(i, <<"slot", s>>)
       /\ Advance(i, {<<"slot", s>>}, [tx[i] EXCEPT !.wslot = [x \in {s} |-> row]])
       /\ UNCHANGED committed

Reserve(i) ==
    /\ At(i, "reserve")
    /\ UpdateSlot(i, [status |-> "booked", learner |-> tx[i].job.learner])

Cancel(i) ==
    /\ At(i, "cancel")
    /\ UpdateSlot(i, [slot[tx[i].job.slot] EXCEPT !.status = "cancelled"])

\* restorePackageConsumption: stamps the slot's row if it is still active.
Restore(i) ==
    LET s == tx[i].job.slot
        row == ConsSeen(i)[s]
    IN
    /\ At(i, "restore")
    /\ \/ /\ row.order = NoOrder \/ row.restored
          /\ Advance(i, {}, tx[i])
       \/ /\ row.order # NoOrder /\ ~row.restored
          /\ CanLock(i, <<"cons", s>>)
          /\ Advance(i, {<<"cons", s>>},
               [tx[i] EXCEPT !.wcons = [x \in {s} |-> [row EXCEPT !.restored = TRUE]]])
    /\ UNCHANGED committed

\* insert into lesson_slots: a live row with the same start is error 23505.
InsertSlot(i) ==
    LET n == tx[i].job.new
        row == [status |-> "booked", learner |-> LockedLearner(i)]
        taken == \E s \in Slots \ {n} :
                    /\ Start[s] = Start[n]
                    /\ SlotsSeen(i)[s].status \in {"open", "booked"}
    IN
    /\ At(i, "insertSlot")
    /\ Rivals(i) = {}
    /\ \/ taken /\ Rollback(i)
       \/ /\ ~taken
          /\ Advance(i, {<<"slot", n>>},
                     [tx[i] EXCEPT !.wslot = [x \in DOMAIN @ \cup {n} |->
                                                IF x = n THEN row ELSE @[x]]])
          /\ UNCHANGED committed

\* Which of the packages os may pay: a teacher who assigns may pin one or want
\* the lesson postpaid, and a lesson without a tariff is moved without one.
Choices(i, os) ==
    {os} \cup (IF tx[i].job.kind = "book" THEN {} ELSE {{}})
         \cup (IF tx[i].job.kind = "assign" THEN {{o} : o \in os} ELSE {})

\* The select of consumePackageUnit: its snapshot fixes the candidates.
Pick(i) ==
    /\ At(i, "pick")
    /\ \E cand \in Choices(i, {o \in Orders :
              /\ standing[o] = "live"
              /\ Owner[o] = LockedLearner(i)
              /\ Cardinality(ActiveRows(ConsSeen(i), o)) < Count[o]}) :
          Advance(i, {}, [tx[i] EXCEPT !.cand = cand])
    /\ UNCHANGED committed

\* for update: after the wait only the purchase row itself is read again; the
\* count of its units stays the one of the snapshot.
LockPurchase(i) ==
    LET o == Earliest(tx[i].cand) IN
    /\ At(i, "lockPurchase")
    /\ tx[i].cand # {}
    /\ CanLock(i, <<"purchase", o>>)
    /\ \/ /\ standing[o] = "live"
          /\ Advance(i, {<<"purchase", o>>}, [tx[i] EXCEPT !.cand = {o}])
       \/ /\ standing[o] # "live"
          /\ tx' = [tx EXCEPT ![i].cand = @ \ {o}]
    /\ UNCHANGED committed

\* No package: a reschedule goes on unpaid; a booking goes postpaid or, when a
\* gate refuses that, rolls back.
NoPackage(i) ==
    /\ At(i, "lockPurchase")
    /\ tx[i].cand = {}
    /\ \/ /\ tx' = [tx EXCEPT ![i].todo = <<"commit">>]
          /\ UNCHANGED committed
       \/ /\ tx[i].job.kind \in {"book", "assign"}
          /\ Rollback(i)

\* on conflict (slot_id) do nothing: a row that exists stays.
InsertUnit(i) ==
    LET n == tx[i].job.new
        seen == ConsSeen(i)
        row == IF seen[n].order = NoOrder
               THEN [order |-> Earliest(tx[i].cand), restored |-> FALSE]
               ELSE seen[n]
    IN
    /\ At(i, "insertUnit")
    /\ Advance(i, {<<"cons", n>>},
               [tx[i] EXCEPT !.wcons = [x \in DOMAIN @ \cup {n} |->
                                          IF x = n THEN row ELSE @[x]]])
    /\ UNCHANGED committed

\* select ... from payment_allocations for update, then the sum of refunds.
Allocation(i) ==
    LET r == <<"allocation", tx[i].job.order>> IN
    /\ At(i, "allocation")
    /\ CanLock(i, r)
    /\ \/ /\ standing[tx[i].job.order] # "live"
          /\ Rollback(i)
       \/ /\ standing[tx[i].job.order] = "live"
          /\ Advance(i, {r}, tx[i])
          /\ UNCHANGED committed

Void(i) ==
    LET o == tx[i].job.order IN
    /\ At(i, "void")
    /\ CanLock(i, <<"purchase", o>>)
    /\ Advance(i, {<<"purchase", o>>}, [tx[i] EXCEPT !.wvoid = {o}])
    /\ UNCHANGED committed

\* restoreAllConsumptionsForPurchase, second statement: row after row.
RestoreAll(i) ==
    LET rows == ActiveRows(ConsSeen(i), tx[i].job.order) IN
    /\ At(i, "restoreAll")
    /\ \/ /\ rows = {}
          /\ Advance(i, {}, tx[i])
       \/ \E s \in rows :
             /\ CanLock(i, <<"cons", s>>)
             /\ tx' = [tx EXCEPT ![i].held = @ \cup {<<"cons", s>>},
                                 ![i].wcons = [x \in DOMAIN @ \cup {s} |->
                                    IF x = s THEN [cons[s] EXCEPT !.restored = TRUE]
                                             ELSE @[x]]]
    /\ UNCHANGED committed

Commit(i) ==
    /\ At(i, "commit")
    /\ slot' = SlotsSeen(i)
    /\ cons' = ConsSeen(i)
    /\ standing' = [o \in Orders |-> IF o \in tx[i].wvoid THEN "voided" ELSE standing[o]]
    /\ tx' = [tx EXCEPT ![i] = [Idle EXCEPT !.job = tx[i].job]]

-----------------------------------------------------------------------------
(* The surroundings.                                                       *)

\* The deadlock detector picks a victim; the handler rolls back and answers 500.
DeadlockVictim(i) ==
    /\ InCycle(i)
    /\ Rollback(i)

\* A statement fails or the process dies: the server rolls back.
ConnectionLost(i) ==
    /\ tx[i].todo # <<>>
    /\ Rollback(i)

\* A grant commits a new purchase.
Grant(o) ==
    /\ standing[o] = "none"
    /\ standing' = [standing EXCEPT ![o] = "live"]
    /\ UNCHANGED <<slot, cons, tx>>

Statement(i) ==
    \/ Advisory(i) \/ Reserve(i) \/ Cancel(i) \/ Restore(i) \/ InsertSlot(i)
    \/ Pick(i) \/ LockPurchase(i) \/ NoPackage(i) \/ InsertUnit(i)
    \/ Allocation(i) \/ Void(i) \/ RestoreAll(i) \/ Commit(i)

Next ==
    \/ \E i \in Txns : \/ \E j \in Requests : Begin(i, j)
                       \/ Statement(i)
                       \/ DeadlockVictim(i)
                       \/ ConnectionLost(i)
    \/ \E o \in Orders : Grant(o)

\* The server runs every statement that need not wait, and its detector runs.
Fairness == \A i \in Txns : WF_vars(Statement(i) \/ DeadlockVictim(i))

Spec == Init /\ [][Next]_vars /\ Fairness

-----------------------------------------------------------------------------
(* Properties.                                                             *)

Ledger == INSTANCE UnitLedger WITH
    size <- [o \in Orders |-> IF standing[o] = "none" THEN 0 ELSE Count[o]],
    unit <- [s \in Slots |-> IF cons[s].restored THEN NoOrder ELSE cons[s].order],
    spent <- {s \in Slots : cons[s].order # NoOrder}

\* Whatever order the statements of concurrent requests run in, every commit is
\* one step of the abstract ledger: no unit is handed out twice although the
\* capacity is counted on a snapshot that a wait leaves stale (consumption.ts).
ImplementsUnitLedger == Ledger!Spec

\* In every committed state a unit in use belongs to a booked lesson of the
\* learner who owns the purchase, which is not voided: a refund that races a
\* booking or a cancel leaves nothing behind (restoreAllConsumptionsForPurchase).
UnitsBackBookings ==
    \A s \in Slots : cons[s].order # NoOrder /\ ~cons[s].restored =>
        /\ slot[s].status = "booked"
        /\ slot[s].learner = Owner[cons[s].order]
        /\ standing[cons[s].order] = "live"

\* A booked slot is never taken over by another booking: it leaves "booked"
\* only for "cancelled" (the where-clause of bookSlot's update).
BookedOnce ==
    [][\A s \in Slots : slot[s].status \in {"booked", "cancelled"} =>
          /\ slot'[s].learner = slot[s].learner
          /\ slot'[s].status \in {slot[s].status, "cancelled"}]_vars

\* Every request ends, also when two of them take the row lock and the learner
\* lock in opposite orders (rescheduleSlotByTeacher against bookSlot).
EveryRequestEnds == \A i \in Txns : tx[i].todo # <<>> ~> tx[i].todo = <<>>
=============================================================================
