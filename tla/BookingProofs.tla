--------------------------- MODULE BookingProofs ---------------------------
(***************************************************************************)
(* Proofs about BookingTx for every number of concurrent transactions:     *)
(* whatever order their statements run in, each commit is one step of the  *)
(* abstract UnitLedger, units back bookings and no slot is booked twice.   *)
(***************************************************************************)
EXTENDS BookingTx, FiniteSetTheorems, WellFoundedInduction, TLAPS

-----------------------------------------------------------------------------
(* Where a transaction is in its program: what kind it is, and how many    *)
(* statements it has left.                                                 *)

Movers == {"rescheduleByLearner", "rescheduleByTeacher"}
Consumers == {"book", "assign"} \cup Movers
Inserters == {"assign"} \cup Movers
Cancellers == {"cancel"} \cup Movers
Kinds == Consumers \cup {"cancel", "refund"}

ConsumeRests ==
    {<<"pick", "lockPurchase", "insertUnit", "commit">>,
     <<"lockPurchase", "insertUnit", "commit">>,
     <<"insertUnit", "commit">>, <<"commit">>, <<>>}

\* What may be left of a program.
Rests(kind) ==
    CASE kind = "book" -> {BookSlotTx, Tail(BookSlotTx)} \cup ConsumeRests
      [] kind = "assign" -> {AssignSlotDirectTx, Tail(AssignSlotDirectTx)} \cup ConsumeRests
      [] kind = "rescheduleByLearner" ->
            {RescheduleByLearnerTx, Tail(RescheduleByLearnerTx),
             Tail(Tail(RescheduleByLearnerTx)), Tail(Tail(Tail(RescheduleByLearnerTx)))}
            \cup ConsumeRests
      [] kind = "rescheduleByTeacher" ->
            {RescheduleByTeacherTx, Tail(RescheduleByTeacherTx),
             Tail(Tail(RescheduleByTeacherTx)), Tail(Tail(Tail(RescheduleByTeacherTx)))}
            \cup ConsumeRests
      [] kind = "cancel" -> {CancelTx, <<"restore", "commit">>, <<"commit">>, <<>>}
      [] kind = "refund" -> {RefundTx, <<"void", "restoreAll", "commit">>,
                             <<"restoreAll", "commit">>, <<"commit">>, <<>>}
      [] OTHER -> {<<>>}

Kind(i) == tx[i].job.kind
Left(i) == Len(tx[i].todo)
Running(i) == tx[i].todo # <<>>

\* How much is left once the learner is locked, the slot's own row is written,
\* its unit is back.
AfterAdvisory(k) ==
    CASE k \in {"book", "assign"} -> 5
      [] k = "rescheduleByLearner" -> 7 [] k = "rescheduleByTeacher" -> 6
AfterUpdate(k) ==
    CASE k = "book" -> 4 [] k = "rescheduleByLearner" -> 6
      [] k = "rescheduleByTeacher" -> 7 [] k = "cancel" -> 2
AfterRestore(k) == IF k = "cancel" THEN 1 ELSE 5

Locked(i) == Running(i) /\ Kind(i) \in Consumers /\ Left(i) <= AfterAdvisory(Kind(i))
Updated(i) ==
    Running(i) /\ Kind(i) \in {"book"} \cup Cancellers /\ Left(i) <= AfterUpdate(Kind(i))
Returned(i) == Running(i) /\ Kind(i) \in Cancellers /\ Left(i) <= AfterRestore(Kind(i))
Inserted(i) == Running(i) /\ Kind(i) \in Inserters /\ Left(i) <= 4
Picked(i) == Running(i) /\ Kind(i) \in Consumers /\ Left(i) <= 3
Chosen(i) == Running(i) /\ Kind(i) \in Consumers /\ Left(i) <= 2
Refunding(i, n) == Running(i) /\ Kind(i) = "refund" /\ Left(i) <= n

-----------------------------------------------------------------------------
(* The inductive invariant.                                                *)

InUnit(row) == row.order # NoOrder /\ ~row.restored

Committed ==
    /\ slot \in [Slots -> [status : {"absent", "open", "booked", "cancelled"},
                           learner : Learners \cup {NoLearner}]]
    /\ cons \in [Slots -> [order : Orders \cup {NoOrder}, restored : BOOLEAN]]
    /\ standing \in [Orders -> {"none", "live", "voided"}]
    /\ \A s \in Slots : slot[s].status \in {"absent", "open"} => cons[s] = NoCons

\* A transaction is a record, follows its program and has nothing left behind
\* when it is over.
Shape ==
    tx = [i \in Txns |->
            [job |-> tx[i].job, todo |-> tx[i].todo, held |-> tx[i].held,
             cand |-> tx[i].cand, wslot |-> tx[i].wslot, wcons |-> tx[i].wcons,
             wvoid |-> tx[i].wvoid]]

ProgramOK(i) ==
    /\ tx[i].job \in Jobs \cup {Idle.job}
    /\ tx[i].todo \in Rests(Kind(i))
    /\ ~Running(i) => tx[i] = [Idle EXCEPT !.job = tx[i].job]

\* Rows of lesson_slots it wrote: locked, and still as the update saw them.
SlotWrites(i) ==
    LET j == tx[i].job
        w == tx[i].wslot
    IN
    /\ DOMAIN w = {s \in Slots : \/ Updated(i) /\ s = j.slot
                                 \/ Inserted(i) /\ s = j.new}
    /\ \A s \in Slots : <<"slot", s>> \in tx[i].held <=> s \in DOMAIN w
    /\ Updated(i) =>
         /\ Matches(i)
         /\ w[j.slot] = IF j.kind = "book" THEN [status |-> "booked", learner |-> j.learner]
                        ELSE [slot[j.slot] EXCEPT !.status = "cancelled"]
    /\ Inserted(i) => w[j.new] = [status |-> "booked", learner |-> LockedLearner(i)]

\* Rows of package_consumptions it wrote: a unit given back is still in use for
\* the others, the unit taken is the candidate's.
GivesBack(i, s) ==
    /\ InUnit(cons[s])
    /\ tx[i].wcons[s] = [cons[s] EXCEPT !.restored = TRUE]
    /\ \/ Updated(i) /\ Kind(i) \in Cancellers /\ s = tx[i].job.slot
       \/ Refunding(i, 2) /\ cons[s].order = tx[i].job.order
Takes(i, s) ==
    /\ Chosen(i) /\ Left(i) = 1
    /\ s = tx[i].job.new /\ cons[s] = NoCons
    /\ \E o \in Orders : /\ tx[i].cand = {o}
                         /\ tx[i].wcons[s] = [order |-> o, restored |-> FALSE]

ConsWrites(i) ==
    /\ DOMAIN tx[i].wcons \subseteq Slots
    /\ \A s \in Slots : <<"cons", s>> \in tx[i].held <=> s \in DOMAIN tx[i].wcons
    /\ \A s \in DOMAIN tx[i].wcons : GivesBack(i, s) \/ Takes(i, s)
    /\ Returned(i) => ~InUnit(ConsSeen(i)[tx[i].job.slot])

\* The learner's lock keeps the count of the units that was taken at the pick.
Candidates(i) ==
    /\ Locked(i) => <<"advisory", LockedLearner(i)>> \in tx[i].held
    /\ tx[i].cand \subseteq Orders
    /\ tx[i].cand # {} => Picked(i)
    /\ \A o \in tx[i].cand :
         /\ Owner[o] = LockedLearner(i)
         /\ Cardinality(ActiveRows(ConsSeen(i), o) \ {tx[i].job.new}) < Count[o]
    /\ Chosen(i) /\ (Left(i) = 2 \/ tx[i].cand # {}) =>
         \E o \in Orders : /\ tx[i].cand = {o}
                           /\ <<"purchase", o>> \in tx[i].held
                           /\ standing[o] = "live"

\* A refund holds the allocation and the purchase, and leaves no unit in use.
RefundWrites(i) ==
    LET o == tx[i].job.order IN
    /\ tx[i].wvoid = IF Refunding(i, 2) THEN {o} ELSE {}
    /\ Refunding(i, 3) => <<"allocation", o>> \in tx[i].held /\ standing[o] = "live"
    /\ Refunding(i, 2) => <<"purchase", o>> \in tx[i].held
    /\ Refunding(i, 1) => ActiveRows(ConsSeen(i), o) = {}

\* No lock has two holders, no new row two writers, and it is not there before
\* its writer commits.
LocksExclude == \A i, k \in Txns : i # k => tx[i].held \cap tx[k].held = {}
FreshRows ==
    \A n \in Slots \ Published :
      /\ \A i, k \in Txns : tx[i].job.new = n /\ tx[k].job.new = n => i = k
      /\ (\A i \in Txns : tx[i].job.new = n => Running(i)) => slot[n].status = "absent"

TxOK(i) ==
    /\ ProgramOK(i) /\ SlotWrites(i) /\ ConsWrites(i)
    /\ Candidates(i) /\ RefundWrites(i)

BookInv ==
    /\ Committed /\ UnitsBackBookings
    /\ Shape /\ LocksExclude /\ FreshRows
    /\ \A i \in Txns : TxOK(i)

-----------------------------------------------------------------------------
(* Programs.                                                               *)

\* Which statement comes when.
Position(k, h, n) ==
    \/ /\ h = "advisory"
       /\ \/ k \in {"book", "assign"} /\ n = 6
          \/ k = "rescheduleByLearner" /\ n = 8
          \/ k = "rescheduleByTeacher" /\ n = 7
    \/ h = "reserve" /\ k = "book" /\ n = 5
    \/ /\ h = "cancel"
       /\ \/ k = "rescheduleByLearner" /\ n = 7
          \/ k = "rescheduleByTeacher" /\ n = 8
          \/ k = "cancel" /\ n = 3
    \/ /\ h = "restore"
       /\ (k \in Movers /\ n = 6) \/ (k = "cancel" /\ n = 2)
    \/ h = "insertSlot" /\ k \in Inserters /\ n = 5
    \/ h = "pick" /\ k \in Consumers /\ n = 4
    \/ h = "lockPurchase" /\ k \in Consumers /\ n = 3
    \/ h = "insertUnit" /\ k \in Consumers /\ n = 2
    \/ h = "allocation" /\ k = "refund" /\ n = 4
    \/ h = "void" /\ k = "refund" /\ n = 3
    \/ h = "restoreAll" /\ k = "refund" /\ n = 2
    \/ h = "commit" /\ k \in Kinds /\ n = 1

Goes(k, t) ==
    t = <<>> \/ (/\ Tail(t) \in Rests(k) /\ Len(t) \in 1 .. 8
                 /\ Len(Tail(t)) = Len(t) - 1 /\ Position(k, Head(t), Len(t)))

\* The common end of the programs that take a unit.
LEMMA ConsumeGoes ==
    ASSUME NEW k \in Consumers, NEW t \in ConsumeRests
    PROVE  t \in Rests(k) /\ Goes(k, t)
  <1>1. ConsumeRests \subseteq Rests(k)
    BY DEF Rests, Consumers, Movers
  <1>2. k \in Kinds
    BY DEF Kinds
  <1>3. CASE t = <<"pick", "lockPurchase", "insertUnit", "commit">>
    <2>1. t # <<>> /\ Tail(t) = <<"lockPurchase", "insertUnit", "commit">> /\ Len(t) = 4 /\ Head(t) = "pick" /\ Len(Tail(t)) = 3
      BY <1>3
    <2>2. Tail(t) \in ConsumeRests
      BY <2>1 DEF ConsumeRests
    <2>. QED BY <1>1, <1>2, <2>1, <2>2 DEF Goes, Position
  <1>4. CASE t = <<"lockPurchase", "insertUnit", "commit">>
    <2>1. t # <<>> /\ Tail(t) = <<"insertUnit", "commit">> /\ Len(t) = 3 /\ Head(t) = "lockPurchase" /\ Len(Tail(t)) = 2
      BY <1>4
    <2>2. Tail(t) \in ConsumeRests
      BY <2>1 DEF ConsumeRests
    <2>. QED BY <1>1, <1>2, <2>1, <2>2 DEF Goes, Position
  <1>5. CASE t = <<"insertUnit", "commit">>
    <2>1. t # <<>> /\ Tail(t) = <<"commit">> /\ Len(t) = 2 /\ Head(t) = "insertUnit" /\ Len(Tail(t)) = 1
      BY <1>5
    <2>2. Tail(t) \in ConsumeRests
      BY <2>1 DEF ConsumeRests
    <2>. QED BY <1>1, <1>2, <2>1, <2>2 DEF Goes, Position
  <1>6. CASE t = <<"commit">>
    <2>1. t # <<>> /\ Tail(t) = <<>> /\ Len(t) = 1 /\ Head(t) = "commit" /\ Len(Tail(t)) = 0
      BY <1>6
    <2>2. Tail(t) \in ConsumeRests
      BY <2>1 DEF ConsumeRests
    <2>. QED BY <1>1, <1>2, <2>1, <2>2 DEF Goes, Position
  <1>7. CASE t = <<>>
    BY <1>1, <1>7 DEF Goes, ConsumeRests
  <1>. QED BY <1>3, <1>4, <1>5, <1>6, <1>7 DEF ConsumeRests

\* Every program goes through its statements one by one.
LEMMA ProgramGoes ==
    ASSUME NEW k \in Kinds, NEW t \in Rests(k)
    PROVE  Goes(k, t)
  <1>1. CASE k = "book"
    <2>1. ASSUME t = <<"advisory", "reserve", "pick",
                    "lockPurchase", "insertUnit", "commit">>
          PROVE  Goes(k, t)
      <3>1. /\ t # <<>> /\ Len(t) = 6 /\ Head(t) = "advisory"
            /\ Tail(t) = <<"reserve", "pick", "lockPurchase", "insertUnit", "commit">> /\ Len(Tail(t)) = 5
        BY <2>1
      <3>2. Tail(t) \in Rests(k)
        BY <1>1, <3>1 DEF Rests, BookSlotTx, ConsumeRests
      <3>. QED BY <1>1, <3>1, <3>2 DEF Goes, Position, Kinds, Consumers, Inserters, Movers
    <2>2. ASSUME t = <<"reserve", "pick", "lockPurchase", "insertUnit", "commit">>
          PROVE  Goes(k, t)
      <3>1. /\ t # <<>> /\ Len(t) = 5 /\ Head(t) = "reserve"
            /\ Tail(t) = <<"pick", "lockPurchase", "insertUnit", "commit">> /\ Len(Tail(t)) = 4
        BY <2>2
      <3>2. Tail(t) \in Rests(k)
        BY <1>1, <3>1 DEF Rests, BookSlotTx, ConsumeRests
      <3>. QED BY <1>1, <3>1, <3>2 DEF Goes, Position, Kinds, Consumers, Inserters, Movers
    <2>. QED BY <1>1, <2>1, <2>2, ConsumeGoes DEF Rests, BookSlotTx, Consumers, Movers
  <1>2. CASE k = "assign"
    <2>1. ASSUME t = <<"advisory", "insertSlot", "pick",
                    "lockPurchase", "insertUnit", "commit">>
          PROVE  Goes(k, t)
      <3>1. /\ t # <<>> /\ Len(t) = 6 /\ Head(t) = "advisory"
            /\ Tail(t) = <<"insertSlot", "pick", "lockPurchase", "insertUnit", "commit">> /\ Len(Tail(t)) = 5
        BY <2>1
      <3>2. Tail(t) \in Rests(k)
        BY <1>2, <3>1 DEF Rests, AssignSlotDirectTx, ConsumeRests
      <3>. QED BY <1>2, <3>1, <3>2 DEF Goes, Position, Kinds, Consumers, Inserters, Movers
    <2>2. ASSUME t = <<"insertSlot", "pick", "lockPurchase", "insertUnit", "commit">>
          PROVE  Goes(k, t)
      <3>1. /\ t # <<>> /\ Len(t) = 5 /\ Head(t) = "insertSlot"
            /\ Tail(t) = <<"pick", "lockPurchase", "insertUnit", "commit">> /\ Len(Tail(t)) = 4
        BY <2>2
      <3>2. Tail(t) \in Rests(k)
        BY <1>2, <3>1 DEF Rests, AssignSlotDirectTx, ConsumeRests
      <3>. QED BY <1>2, <3>1, <3>2 DEF Goes, Position, Kinds, Consumers, Inserters, Movers
    <2>. QED BY <1>2, <2>1, <2>2, ConsumeGoes DEF Rests, AssignSlotDirectTx, Consumers, Movers
  <1>3. CASE k = "rescheduleByLearner"
    <2>1. ASSUME t = <<"advisory", "cancel", "restore", "insertSlot",
                    "pick", "lockPurchase", "insertUnit", "commit">>
          PROVE  Goes(k, t)
      <3>1. /\ t # <<>> /\ Len(t) = 8 /\ Head(t) = "advisory"
            /\ Tail(t) = <<"cancel", "restore", "insertSlot", "pick", "lockPurchase", "insertUnit", "commit">> /\ Len(Tail(t)) = 7
        BY <2>1
      <3>2. Tail(t) \in Rests(k)
        BY <1>3, <3>1 DEF Rests, RescheduleByLearnerTx, ConsumeRests
      <3>. QED BY <1>3, <3>1, <3>2 DEF Goes, Position, Kinds, Consumers, Inserters, Movers
    <2>2. ASSUME t = <<"cancel", "restore", "insertSlot",
                    "pick", "lockPurchase", "insertUnit", "commit">>
          PROVE  Goes(k, t)
      <3>1. /\ t # <<>> /\ Len(t) = 7 /\ Head(t) = "cancel"
            /\ Tail(t) = <<"restore", "insertSlot", "pick", "lockPurchase", "insertUnit", "commit">> /\ Len(Tail(t)) = 6
        BY <2>2
      <3>2. Tail(t) \in Rests(k)
        BY <1>3, <3>1 DEF Rests, RescheduleByLearnerTx, ConsumeRests
      <3>. QED BY <1>3, <3>1, <3>2 DEF Goes, Position, Kinds, Consumers, Inserters, Movers
    <2>3. ASSUME t = <<"restore", "insertSlot", "pick",
                    "lockPurchase", "insertUnit", "commit">>
          PROVE  Goes(k, t)
      <3>1. /\ t # <<>> /\ Len(t) = 6 /\ Head(t) = "restore"
            /\ Tail(t) = <<"insertSlot", "pick", "lockPurchase", "insertUnit", "commit">> /\ Len(Tail(t)) = 5
        BY <2>3
      <3>2. Tail(t) \in Rests(k)
        BY <1>3, <3>1 DEF Rests, RescheduleByLearnerTx, ConsumeRests
      <3>. QED BY <1>3, <3>1, <3>2 DEF Goes, Position, Kinds, Consumers, Inserters, Movers
    <2>4. ASSUME t = <<"insertSlot", "pick", "lockPurchase", "insertUnit", "commit">>
          PROVE  Goes(k, t)
      <3>1. /\ t # <<>> /\ Len(t) = 5 /\ Head(t) = "insertSlot"
            /\ Tail(t) = <<"pick", "lockPurchase", "insertUnit", "commit">> /\ Len(Tail(t)) = 4
        BY <2>4
      <3>2. Tail(t) \in Rests(k)
        BY <1>3, <3>1 DEF Rests, RescheduleByLearnerTx, ConsumeRests
      <3>. QED BY <1>3, <3>1, <3>2 DEF Goes, Position, Kinds, Consumers, Inserters, Movers
    <2>. QED BY <1>3, <2>1, <2>2, <2>3, <2>4, ConsumeGoes DEF Rests, RescheduleByLearnerTx, Consumers, Movers
  <1>4. CASE k = "rescheduleByTeacher"
    <2>1. ASSUME t = <<"cancel", "advisory", "restore", "insertSlot",
                    "pick", "lockPurchase", "insertUnit", "commit">>
          PROVE  Goes(k, t)
      <3>1. /\ t # <<>> /\ Len(t) = 8 /\ Head(t) = "cancel"
            /\ Tail(t) = <<"advisory", "restore", "insertSlot", "pick", "lockPurchase", "insertUnit", "commit">> /\ Len(Tail(t)) = 7
        BY <2>1
      <3>2. Tail(t) \in Rests(k)
        BY <1>4, <3>1 DEF Rests, RescheduleByTeacherTx, ConsumeRests
      <3>. QED BY <1>4, <3>1, <3>2 DEF Goes, Position, Kinds, Consumers, Inserters, Movers
    <2>2. ASSUME t = <<"advisory", "restore", "insertSlot",
                    "pick", "lockPurchase", "insertUnit", "commit">>
          PROVE  Goes(k, t)
      <3>1. /\ t # <<>> /\ Len(t) = 7 /\ Head(t) = "advisory"
            /\ Tail(t) = <<"restore", "insertSlot", "pick", "lockPurchase", "insertUnit", "commit">> /\ Len(Tail(t)) = 6
        BY <2>2
      <3>2. Tail(t) \in Rests(k)
        BY <1>4, <3>1 DEF Rests, RescheduleByTeacherTx, ConsumeRests
      <3>. QED BY <1>4, <3>1, <3>2 DEF Goes, Position, Kinds, Consumers, Inserters, Movers
    <2>3. ASSUME t = <<"restore", "insertSlot", "pick",
                    "lockPurchase", "insertUnit", "commit">>
          PROVE  Goes(k, t)
      <3>1. /\ t # <<>> /\ Len(t) = 6 /\ Head(t) = "restore"
            /\ Tail(t) = <<"insertSlot", "pick", "lockPurchase", "insertUnit", "commit">> /\ Len(Tail(t)) = 5
        BY <2>3
      <3>2. Tail(t) \in Rests(k)
        BY <1>4, <3>1 DEF Rests, RescheduleByTeacherTx, ConsumeRests
      <3>. QED BY <1>4, <3>1, <3>2 DEF Goes, Position, Kinds, Consumers, Inserters, Movers
    <2>4. ASSUME t = <<"insertSlot", "pick", "lockPurchase", "insertUnit", "commit">>
          PROVE  Goes(k, t)
      <3>1. /\ t # <<>> /\ Len(t) = 5 /\ Head(t) = "insertSlot"
            /\ Tail(t) = <<"pick", "lockPurchase", "insertUnit", "commit">> /\ Len(Tail(t)) = 4
        BY <2>4
      <3>2. Tail(t) \in Rests(k)
        BY <1>4, <3>1 DEF Rests, RescheduleByTeacherTx, ConsumeRests
      <3>. QED BY <1>4, <3>1, <3>2 DEF Goes, Position, Kinds, Consumers, Inserters, Movers
    <2>. QED BY <1>4, <2>1, <2>2, <2>3, <2>4, ConsumeGoes DEF Rests, RescheduleByTeacherTx, Consumers, Movers
  <1>5. CASE k = "cancel"
    <2>1. ASSUME t = <<"cancel", "restore", "commit">>
          PROVE  Goes(k, t)
      <3>1. /\ t # <<>> /\ Len(t) = 3 /\ Head(t) = "cancel"
            /\ Tail(t) = <<"restore", "commit">> /\ Len(Tail(t)) = 2
        BY <2>1
      <3>2. Tail(t) \in Rests(k)
        BY <1>5, <3>1 DEF Rests, CancelTx, ConsumeRests
      <3>. QED BY <1>5, <3>1, <3>2 DEF Goes, Position, Kinds, Consumers, Inserters, Movers
    <2>2. ASSUME t = <<"restore", "commit">>
          PROVE  Goes(k, t)
      <3>1. /\ t # <<>> /\ Len(t) = 2 /\ Head(t) = "restore"
            /\ Tail(t) = <<"commit">> /\ Len(Tail(t)) = 1
        BY <2>2
      <3>2. Tail(t) \in Rests(k)
        BY <1>5, <3>1 DEF Rests, CancelTx, ConsumeRests
      <3>. QED BY <1>5, <3>1, <3>2 DEF Goes, Position, Kinds, Consumers, Inserters, Movers
    <2>3. ASSUME t = <<"commit">>
          PROVE  Goes(k, t)
      <3>1. /\ t # <<>> /\ Len(t) = 1 /\ Head(t) = "commit"
            /\ Tail(t) = <<>> /\ Len(Tail(t)) = 0
        BY <2>3
      <3>2. Tail(t) \in Rests(k)
        BY <1>5, <3>1 DEF Rests, CancelTx, ConsumeRests
      <3>. QED BY <1>5, <3>1, <3>2 DEF Goes, Position, Kinds, Consumers, Inserters, Movers
    <2>. QED BY <1>5, <2>1, <2>2, <2>3 DEF Rests, CancelTx, Goes
  <1>6. CASE k = "refund"
    <2>1. ASSUME t = <<"allocation", "void", "restoreAll", "commit">>
          PROVE  Goes(k, t)
      <3>1. /\ t # <<>> /\ Len(t) = 4 /\ Head(t) = "allocation"
            /\ Tail(t) = <<"void", "restoreAll", "commit">> /\ Len(Tail(t)) = 3
        BY <2>1
      <3>2. Tail(t) \in Rests(k)
        BY <1>6, <3>1 DEF Rests, RefundTx, ConsumeRests
      <3>. QED BY <1>6, <3>1, <3>2 DEF Goes, Position, Kinds, Consumers, Inserters, Movers
    <2>2. ASSUME t = <<"void", "restoreAll", "commit">>
          PROVE  Goes(k, t)
      <3>1. /\ t # <<>> /\ Len(t) = 3 /\ Head(t) = "void"
            /\ Tail(t) = <<"restoreAll", "commit">> /\ Len(Tail(t)) = 2
        BY <2>2
      <3>2. Tail(t) \in Rests(k)
        BY <1>6, <3>1 DEF Rests, RefundTx, ConsumeRests
      <3>. QED BY <1>6, <3>1, <3>2 DEF Goes, Position, Kinds, Consumers, Inserters, Movers
    <2>3. ASSUME t = <<"restoreAll", "commit">>
          PROVE  Goes(k, t)
      <3>1. /\ t # <<>> /\ Len(t) = 2 /\ Head(t) = "restoreAll"
            /\ Tail(t) = <<"commit">> /\ Len(Tail(t)) = 1
        BY <2>3
      <3>2. Tail(t) \in Rests(k)
        BY <1>6, <3>1 DEF Rests, RefundTx, ConsumeRests
      <3>. QED BY <1>6, <3>1, <3>2 DEF Goes, Position, Kinds, Consumers, Inserters, Movers
    <2>4. ASSUME t = <<"commit">>
          PROVE  Goes(k, t)
      <3>1. /\ t # <<>> /\ Len(t) = 1 /\ Head(t) = "commit"
            /\ Tail(t) = <<>> /\ Len(Tail(t)) = 0
        BY <2>4
      <3>2. Tail(t) \in Rests(k)
        BY <1>6, <3>1 DEF Rests, RefundTx, ConsumeRests
      <3>. QED BY <1>6, <3>1, <3>2 DEF Goes, Position, Kinds, Consumers, Inserters, Movers
    <2>. QED BY <1>6, <2>1, <2>2, <2>3, <2>4 DEF Rests, RefundTx, Goes
  <1>. QED BY <1>1, <1>2, <1>3, <1>4, <1>5, <1>6 DEF Kinds, Consumers, Movers

-----------------------------------------------------------------------------
(* Jobs and transactions.                                                  *)

\* What the requests are about.
LEMMA JobFields ==
    ASSUME NEW j \in Jobs
    PROVE  /\ j.kind \in Kinds
           /\ j.kind = "book" => j.slot \in Published /\ j.new = j.slot
           /\ j.kind \in Inserters => j.new \in Slots \ Published
           /\ j.kind \in Cancellers \cup {"book"} => j.slot \in Slots
           /\ j.kind \in Consumers => j.new \in Slots
           /\ j.kind \in {"cancel", "refund"} => j.new = NoSlot
           /\ j.kind = "refund" => j.order \in Orders
  BY TxAssumption
     DEF Jobs, Job, Kinds, Consumers, Inserters, Cancellers, Movers

\* Where a transaction is when it comes to a statement.
LEMMA AtStage ==
    ASSUME NEW i \in Txns, ProgramOK(i), NEW x, At(i, x)
    PROVE  /\ Running(i) /\ Kind(i) \in Kinds /\ tx[i].job \in Jobs
           /\ Left(i) \in 1 .. 8 /\ Position(Kind(i), x, Left(i))
           /\ Tail(tx[i].todo) \in Rests(Kind(i))
           /\ Len(Tail(tx[i].todo)) = Left(i) - 1
  <1>1. Running(i) /\ tx[i].todo \in Rests(Kind(i)) /\ Head(tx[i].todo) = x
    BY DEF At, Running, ProgramOK
  <1>2. Kind(i) # "none"
    <2>1. ASSUME Kind(i) = "none" PROVE FALSE
      <3>1. Rests(Kind(i)) = {<<>>}
        BY <2>1 DEF Rests
      <3>. QED BY <1>1, <3>1 DEF Running
    <2>. QED BY <2>1
  <1>3. tx[i].job \in Jobs
    BY <1>2 DEF ProgramOK, Idle, Job, Kind
  <1>4. Kind(i) \in Kinds
    BY <1>3, JobFields DEF Kind
  <1>5. Goes(Kind(i), tx[i].todo)
    BY <1>1, <1>4, ProgramGoes
  <1>. QED BY <1>1, <1>3, <1>4, <1>5 DEF Goes, Running, Left

\* A running transaction has some of its statements left.
LEMMA RunningStage ==
    ASSUME NEW i \in Txns, ProgramOK(i), Running(i)
    PROVE  Kind(i) \in Kinds /\ tx[i].job \in Jobs /\ Left(i) \in 1 .. 8
  <1>1. At(i, Head(tx[i].todo))
    BY DEF At, Running
  <1>. QED BY <1>1, AtStage

\* The statement is done.
Went(i, r, c, ws, wc, wv) ==
    tx' = [tx EXCEPT ![i] =
             [job |-> tx[i].job, todo |-> Tail(tx[i].todo), held |-> tx[i].held \cup r,
              cand |-> c, wslot |-> ws, wcons |-> wc, wvoid |-> wv]]

\* What that makes of the transaction.
LEMMA WentFields ==
    ASSUME BookInv, NEW i \in Txns, NEW x, At(i, x), x # "commit",
           NEW r, NEW c, NEW ws, NEW wc, NEW wv, Went(i, r, c, ws, wc, wv)
    PROVE  /\ tx'[i].job = tx[i].job /\ tx'[i].held = tx[i].held \cup r
           /\ tx'[i].cand = c /\ tx'[i].wslot = ws
           /\ tx'[i].wcons = wc /\ tx'[i].wvoid = wv
           /\ Kind(i)' = Kind(i) /\ Left(i)' = Left(i) - 1
           /\ Left(i) \in 2 .. 8 /\ Kind(i) \in Kinds /\ tx[i].job \in Jobs
           /\ Position(Kind(i), x, Left(i))
           /\ Running(i) /\ Running(i)' /\ ProgramOK(i)'
           /\ \A k \in Txns \ {i} : tx'[k] = tx[k]
           /\ Shape'
  <1> DEFINE rec == [job |-> tx[i].job, todo |-> Tail(tx[i].todo),
                     held |-> tx[i].held \cup r,
                     cand |-> c, wslot |-> ws, wcons |-> wc, wvoid |-> wv]
  <1>1. tx' = [tx EXCEPT ![i] = rec] /\ DOMAIN tx = Txns
    BY DEF Went, BookInv, Shape
  <1>2. tx'[i] = rec /\ \A k \in Txns \ {i} : tx'[k] = tx[k]
    BY <1>1
  <1>3. /\ rec.job = tx[i].job /\ rec.held = tx[i].held \cup r /\ rec.cand = c
        /\ rec.wslot = ws /\ rec.wcons = wc /\ rec.wvoid = wv
        /\ rec.todo = Tail(tx[i].todo)
    OBVIOUS
  <1>4. Shape'
    <2>1. tx' = [k \in Txns |-> IF k = i THEN rec ELSE tx[k]]
      BY <1>1
    <2>. QED BY ZenonT(60), <1>2, <1>3, <2>1 DEF BookInv, Shape
  <1>5. ProgramOK(i)
    BY DEF BookInv, TxOK
  <1>6. /\ Running(i) /\ Kind(i) \in Kinds /\ tx[i].job \in Jobs
        /\ Left(i) \in 1 .. 8 /\ Position(Kind(i), x, Left(i))
        /\ Tail(tx[i].todo) \in Rests(Kind(i))
        /\ Len(Tail(tx[i].todo)) = Left(i) - 1
    BY <1>5, AtStage
  <1> HIDE DEF rec
  <1>7. Left(i) # 1
    BY <1>6 DEF Position
  <1>8. Kind(i)' = Kind(i) /\ Left(i)' = Left(i) - 1
    BY <1>2, <1>3, <1>6 DEF Kind, Left
  <1>9. Running(i)'
    <2>1. ASSUME Tail(tx[i].todo) = <<>> PROVE FALSE
      <3>1. \A t : t = <<>> => Len(t) = 0
        OBVIOUS
      <3>2. Len(Tail(tx[i].todo)) = 0
        BY <2>1, <3>1, Zenon
      <3>3. Left(i) \in 1 .. 8 /\ Left(i) # 1
        BY <1>6, <1>7
      <3>4. Left(i) - 1 # 0
        BY <3>3
      <3>5. Len(Tail(tx[i].todo)) = Left(i) - 1
        BY <1>6
      <3>. QED BY <3>2, <3>4, <3>5, Zenon
    <2>. QED BY <1>2, <1>3, <2>1 DEF Running
  <1>10. ProgramOK(i)'
    BY <1>2, <1>3, <1>6, <1>8, <1>9 DEF ProgramOK
  <1>. QED BY <1>2, <1>3, <1>4, <1>6, <1>7, <1>8, <1>9, <1>10

\* Transactions that do nothing keep what they rely on, as long as nothing
\* commits.
LEMMA Bystander ==
    ASSUME NEW k \in Txns, TxOK(k), tx'[k] = tx[k], UNCHANGED committed
    PROVE  TxOK(k)'
  <1> USE DEF committed
  <1>1. /\ Kind(k)' = Kind(k) /\ Left(k)' = Left(k) /\ (Running(k)' <=> Running(k))
        /\ SlotsSeen(k)' = SlotsSeen(k) /\ ConsSeen(k)' = ConsSeen(k)
    BY DEF Kind, Left, Running, SlotsSeen, ConsSeen, Overlay
  <1>2. LockedLearner(k)' = LockedLearner(k) /\ (Matches(k)' <=> Matches(k))
    BY <1>1 DEF LockedLearner, Matches, Kind
  <1>3. /\ Locked(k)' <=> Locked(k)
        /\ Updated(k)' <=> Updated(k)
        /\ Returned(k)' <=> Returned(k)
        /\ Inserted(k)' <=> Inserted(k)
        /\ Picked(k)' <=> Picked(k)
        /\ Chosen(k)' <=> Chosen(k)
        /\ Refunding(k, 1)' <=> Refunding(k, 1)
        /\ Refunding(k, 2)' <=> Refunding(k, 2)
        /\ Refunding(k, 3)' <=> Refunding(k, 3)
    BY <1>1 DEF Locked, Updated, Returned, Inserted, Picked, Chosen, Refunding
  <1>4. ProgramOK(k)'
    BY <1>1 DEF TxOK, ProgramOK
  <1>5. SlotWrites(k)'
    BY <1>2, <1>3 DEF TxOK, SlotWrites
  <1>6. \A s : /\ GivesBack(k, s)' <=> GivesBack(k, s)
               /\ Takes(k, s)' <=> Takes(k, s)
    BY <1>1, <1>3 DEF GivesBack, Takes
  <1>7. ConsWrites(k)'
    BY <1>1, <1>3, <1>6 DEF TxOK, ConsWrites
  <1>8. Candidates(k)'
    BY <1>1, <1>2, <1>3 DEF TxOK, Candidates, ActiveRows
  <1>9. RefundWrites(k)'
    BY <1>1, <1>3 DEF TxOK, RefundWrites, ActiveRows
  <1>. QED BY <1>4, <1>5, <1>7, <1>8, <1>9 DEF TxOK

\* A statement that does not commit.
LEMMA OwnStep ==
    ASSUME BookInv, NEW i \in Txns, UNCHANGED committed, Shape',
           \A k \in Txns \ {i} : tx'[k] = tx[k],
           tx'[i].job = tx[i].job, Running(i)' => Running(i),
           \A k \in Txns \ {i} : tx'[i].held \cap tx[k].held = {},
           TxOK(i)'
    PROVE  BookInv'
  <1>1. Committed' /\ UnitsBackBookings'
    BY DEF BookInv, Committed, UnitsBackBookings, committed
  <1>2. LocksExclude'
    BY DEF BookInv, LocksExclude
  <1>3. FreshRows'
    <2>1. \A k \in Txns : /\ tx'[k].job = tx[k].job
                          /\ Running(k)' => Running(k)
      BY DEF Running
    <2>. QED BY <2>1 DEF BookInv, FreshRows, committed
  <1>4. \A k \in Txns : TxOK(k)'
    BY Bystander DEF BookInv
  <1>. QED BY <1>1, <1>2, <1>3, <1>4 DEF BookInv

\* A lock that nobody else holds.
LEMMA TakeLock ==
    ASSUME BookInv, NEW i \in Txns, NEW r,
           \A z \in r : CanLock(i, z)
    PROVE  \A k \in Txns \ {i} : (tx[i].held \cup r) \cap tx[k].held = {}
  BY DEF BookInv, LocksExclude, CanLock

\* A finished transaction is in order.
LEMMA OverOK ==
    ASSUME NEW i \in Txns, tx'[i].job \in Jobs \cup {Idle.job},
           tx'[i] = [Idle EXCEPT !.job = tx'[i].job]
    PROVE  TxOK(i)' /\ ~Running(i)' /\ tx'[i].held = {}
  <1>1. /\ tx'[i].todo = <<>> /\ tx'[i].held = {} /\ tx'[i].cand = {}
        /\ tx'[i].wslot = <<>> /\ tx'[i].wcons = <<>> /\ tx'[i].wvoid = {}
    BY DEF Idle
  <1>2. ~Running(i)' /\ DOMAIN tx'[i].wslot = {} /\ DOMAIN tx'[i].wcons = {}
    BY <1>1 DEF Running
  <1>3. tx'[i].todo \in Rests(Kind(i))'
    BY <1>1 DEF Rests, CancelTx, RefundTx, ConsumeRests
  <1>4. ProgramOK(i)'
    BY <1>2, <1>3 DEF ProgramOK
  <1>5. ~Locked(i)' /\ ~Updated(i)' /\ ~Returned(i)' /\ ~Inserted(i)' /\ ~Picked(i)' /\ ~Chosen(i)'
    BY <1>2 DEF Locked, Updated, Returned, Inserted, Picked, Chosen
  <1>6. SlotWrites(i)'
    BY <1>1, <1>2, <1>5 DEF SlotWrites
  <1>7. ConsWrites(i)'
    BY <1>1, <1>2, <1>5 DEF ConsWrites
  <1>8. Candidates(i)'
    BY <1>1, <1>5 DEF Candidates
  <1>9. RefundWrites(i)'
    BY <1>1, <1>2 DEF RefundWrites, Refunding
  <1>. QED BY <1>1, <1>2, <1>4, <1>6, <1>7, <1>8, <1>9 DEF TxOK

\* Only the request is left of it.
LEMMA ResetFields ==
    ASSUME NEW j, NEW k, NEW e
    PROVE  [[job |-> k, todo |-> e, held |-> {}, cand |-> {},
             wslot |-> e, wcons |-> e, wvoid |-> {}] EXCEPT !.job = j]
             = [job |-> j, todo |-> e, held |-> {}, cand |-> {},
                wslot |-> e, wcons |-> e, wvoid |-> {}]
  OBVIOUS

\* A rollback forgets everything but the request.
LEMMA RollbackStep ==
    ASSUME BookInv, NEW i \in Txns, Rollback(i)
    PROVE  BookInv'
  <1> DEFINE rec == [Idle EXCEPT !.job = tx[i].job]
  <1>1. rec = [job |-> tx[i].job, todo |-> <<>>, held |-> {}, cand |-> {},
               wslot |-> <<>>, wcons |-> <<>>, wvoid |-> {}]
    BY ResetFields DEF Idle
  <1>2. tx' = [tx EXCEPT ![i] = rec] /\ DOMAIN tx = Txns /\ UNCHANGED committed
    BY DEF Rollback, BookInv, Shape
  <1>3. tx'[i] = rec /\ \A k \in Txns \ {i} : tx'[k] = tx[k]
    BY <1>2
  <1>4. Shape'
    <2>1. tx' = [k \in Txns |-> IF k = i THEN rec ELSE tx[k]]
      BY <1>2
    <2>. QED BY <1>1, <1>3, <2>1 DEF BookInv, Shape
  <1>5. tx'[i].job = tx[i].job /\ tx'[i] = [Idle EXCEPT !.job = tx'[i].job]
    BY <1>1, <1>3
  <1>6. tx'[i].job \in Jobs \cup {Idle.job}
    BY <1>5 DEF BookInv, TxOK, ProgramOK
  <1>7. TxOK(i)' /\ ~Running(i)' /\ tx'[i].held = {}
    BY <1>5, <1>6, OverOK
  <1>. QED BY <1>2, <1>3, <1>4, <1>5, <1>7, OwnStep

\* A transaction with another value of one field.
With(i, c, ws, wc, wv) ==
    [job |-> tx[i].job, todo |-> tx[i].todo, held |-> tx[i].held,
     cand |-> c, wslot |-> ws, wcons |-> wc, wvoid |-> wv]

\* A record with the fields of a transaction.
Plain(z) ==
    z = [job |-> z.job, todo |-> z.todo, held |-> z.held, cand |-> z.cand,
         wslot |-> z.wslot, wcons |-> z.wcons, wvoid |-> z.wvoid]

\* Writing what is left and the locks.
LEMMA TodoAndHeld ==
    ASSUME NEW x, NEW y, NEW z, Plain(z)
    PROVE  [z EXCEPT !.todo = x, !.held = y]
             = [job |-> z.job, todo |-> x, held |-> y, cand |-> z.cand,
                wslot |-> z.wslot, wcons |-> z.wcons, wvoid |-> z.wvoid]
  <1> DEFINE w == [z EXCEPT !.todo = x]
  <1>1. w = [job |-> z.job, todo |-> x, held |-> z.held, cand |-> z.cand,
             wslot |-> z.wslot, wcons |-> z.wcons, wvoid |-> z.wvoid]
    BY DEF Plain
  <1>2. /\ w.job = z.job /\ w.todo = x /\ w.cand = z.cand
        /\ w.wslot = z.wslot /\ w.wcons = z.wcons /\ w.wvoid = z.wvoid
    BY <1>1
  <1>3. Plain(w)
    BY <1>1 DEF Plain
  <1>4. [z EXCEPT !.todo = x, !.held = y] = [w EXCEPT !.held = y]
    OBVIOUS
  <1> HIDE DEF w
  <1>5. [w EXCEPT !.held = y]
          = [job |-> w.job, todo |-> w.todo, held |-> y, cand |-> w.cand,
             wslot |-> w.wslot, wcons |-> w.wcons, wvoid |-> w.wvoid]
    BY <1>3 DEF Plain
  <1>. QED BY <1>2, <1>4, <1>5

\* Going on with the rest.
LEMMA Forward ==
    ASSUME NEW z, Plain(z), NEW r
    PROVE  [z EXCEPT !.todo = Tail(@), !.held = @ \cup r]
             = [job |-> z.job, todo |-> Tail(z.todo), held |-> z.held \cup r,
                cand |-> z.cand, wslot |-> z.wslot, wcons |-> z.wcons, wvoid |-> z.wvoid]
  <1>1. [z EXCEPT !.todo = Tail(@), !.held = @ \cup r]
          = [z EXCEPT !.todo = Tail(z.todo), !.held = z.held \cup r]
    OBVIOUS
  <1>2. \A x, y : [z EXCEPT !.todo = x, !.held = y]
                     = [job |-> z.job, todo |-> x, held |-> y, cand |-> z.cand,
                        wslot |-> z.wslot, wcons |-> z.wcons, wvoid |-> z.wvoid]
    BY TodoAndHeld, Zenon
  <1>. QED BY <1>1, <1>2, Zenon

\* The updates the statements make.
LEMMA Updates ==
    ASSUME Shape, NEW i \in Txns, NEW x
    PROVE  LET t == tx[i] IN
           /\ t = With(i, t.cand, t.wslot, t.wcons, t.wvoid)
           /\ [t EXCEPT !.cand = x] = With(i, x, t.wslot, t.wcons, t.wvoid)
           /\ [t EXCEPT !.wslot = x] = With(i, t.cand, x, t.wcons, t.wvoid)
           /\ [t EXCEPT !.wcons = x] = With(i, t.cand, t.wslot, x, t.wvoid)
           /\ [t EXCEPT !.wvoid = x] = With(i, t.cand, t.wslot, t.wcons, x)
  <1>1. tx[i] = With(i, tx[i].cand, tx[i].wslot, tx[i].wcons, tx[i].wvoid)
    BY DEF Shape, With
  <1>2. PICK z : z = tx[i]
    OBVIOUS
  <1>3. z = [job |-> z.job, todo |-> z.todo, held |-> z.held, cand |-> z.cand,
             wslot |-> z.wslot, wcons |-> z.wcons, wvoid |-> z.wvoid]
    BY <1>1, <1>2 DEF With
  <1>4. /\ [z EXCEPT !.cand = x] = With(i, x, z.wslot, z.wcons, z.wvoid)
        /\ [z EXCEPT !.wslot = x] = With(i, z.cand, x, z.wcons, z.wvoid)
        /\ [z EXCEPT !.wcons = x] = With(i, z.cand, z.wslot, x, z.wvoid)
        /\ [z EXCEPT !.wvoid = x] = With(i, z.cand, z.wslot, z.wcons, x)
    <2>1. /\ [z EXCEPT !.cand = x] = [job |-> z.job, todo |-> z.todo, held |-> z.held, cand |-> x,
                                      wslot |-> z.wslot, wcons |-> z.wcons, wvoid |-> z.wvoid]
          /\ [z EXCEPT !.wslot = x] = [job |-> z.job, todo |-> z.todo, held |-> z.held, cand |-> z.cand,
                                       wslot |-> x, wcons |-> z.wcons, wvoid |-> z.wvoid]
          /\ [z EXCEPT !.wcons = x] = [job |-> z.job, todo |-> z.todo, held |-> z.held, cand |-> z.cand,
                                       wslot |-> z.wslot, wcons |-> x, wvoid |-> z.wvoid]
          /\ [z EXCEPT !.wvoid = x] = [job |-> z.job, todo |-> z.todo, held |-> z.held, cand |-> z.cand,
                                       wslot |-> z.wslot, wcons |-> z.wcons, wvoid |-> x]
      BY <1>3
    <2>. QED BY <1>2, <2>1 DEF With
  <1>. QED BY <1>1, <1>2, <1>4, Zenon

\* A statement that is done is Went.
LEMMA AdvanceWent ==
    ASSUME Shape, NEW i \in Txns, NEW r, NEW c, NEW ws, NEW wc, NEW wv,
           NEW upd, upd = With(i, c, ws, wc, wv), Advance(i, r, upd)
    PROVE  Went(i, r, c, ws, wc, wv)
  <1>1. /\ upd.job = tx[i].job /\ upd.todo = tx[i].todo /\ upd.held = tx[i].held
        /\ upd.cand = c /\ upd.wslot = ws /\ upd.wcons = wc /\ upd.wvoid = wv
    BY DEF With
  <1>2. Plain(upd)
    BY DEF With, Plain
  <1>3. [upd EXCEPT !.todo = Tail(@), !.held = @ \cup r]
          = [job |-> upd.job, todo |-> Tail(upd.todo), held |-> upd.held \cup r,
             cand |-> upd.cand, wslot |-> upd.wslot, wcons |-> upd.wcons,
             wvoid |-> upd.wvoid]
    BY <1>2, Forward
  <1>. QED BY <1>1, <1>3 DEF Advance, Went

-----------------------------------------------------------------------------
(* What a statement leaves alone.                                          *)

\* The rows of lesson_slots.
LEMMA KeepSlots ==
    ASSUME NEW i \in Txns, SlotWrites(i), UNCHANGED committed,
           tx'[i].job = tx[i].job, tx'[i].wslot = tx[i].wslot,
           \A s \in Slots : <<"slot", s>> \in tx'[i].held <=> <<"slot", s>> \in tx[i].held,
           Updated(i)' <=> Updated(i), Inserted(i)' <=> Inserted(i)
    PROVE  /\ SlotWrites(i)' /\ SlotsSeen(i)' = SlotsSeen(i)
           /\ LockedLearner(i)' = LockedLearner(i)
  <1>1. SlotsSeen(i)' = SlotsSeen(i)
    BY DEF SlotsSeen, Overlay, committed
  <1>2. LockedLearner(i)' = LockedLearner(i) /\ (Matches(i)' <=> Matches(i))
    BY <1>1 DEF LockedLearner, Matches, committed
  <1>. QED BY <1>1, <1>2 DEF SlotWrites, committed

\* The rows of package_consumptions, before one is inserted.
LEMMA KeepCons ==
    ASSUME NEW i \in Txns, ConsWrites(i), UNCHANGED committed,
           tx'[i].job = tx[i].job, tx'[i].wcons = tx[i].wcons,
           \A s \in Slots : <<"cons", s>> \in tx'[i].held <=> <<"cons", s>> \in tx[i].held,
           Updated(i) => Updated(i)', Refunding(i, 2) => Refunding(i, 2)',
           Returned(i)' => Returned(i) \/ ~InUnit(ConsSeen(i)[tx[i].job.slot]),
           Left(i) # 1
    PROVE  ConsWrites(i)' /\ ConsSeen(i)' = ConsSeen(i)
  <1>1. ConsSeen(i)' = ConsSeen(i)
    BY DEF ConsSeen, Overlay, committed
  <1>2. Kind(i)' = Kind(i)
    BY DEF Kind
  <1>3. \A s \in DOMAIN tx[i].wcons : GivesBack(i, s)
    BY DEF ConsWrites, Takes
  <1>4. \A s \in DOMAIN tx[i].wcons : GivesBack(i, s)'
    BY <1>2, <1>3 DEF GivesBack, committed
  <1>. QED BY <1>1, <1>4 DEF ConsWrites

\* The voids of everything but a refund.
LEMMA KeepVoids ==
    ASSUME NEW i \in Txns, RefundWrites(i), Kind(i) # "refund",
           tx'[i].job = tx[i].job, tx'[i].wvoid = tx[i].wvoid
    PROVE  RefundWrites(i)'
  BY DEF RefundWrites, Refunding, Kind

\* A transaction without candidates.
LEMMA NoCandidates ==
    ASSUME NEW i \in Txns, tx'[i].cand = {}, Chosen(i)' => Left(i)' # 2,
           Locked(i)' => <<"advisory", LockedLearner(i)'>> \in tx'[i].held
    PROVE  Candidates(i)'
  BY DEF Candidates

\* Before the pick there are none.
LEMMA CandidatesLater ==
    ASSUME NEW i \in Txns, Candidates(i), ~Picked(i)
    PROVE  tx[i].cand = {}
  BY DEF Candidates

-----------------------------------------------------------------------------
(* The statements of a booking or a cancel.                                *)

\* Whether the learner is locked and the rows are written depends on the place
\* in the program.
LEMMA Places ==
    ASSUME NEW i \in Txns, Running(i), Running(i)', Kind(i)' = Kind(i),
           Left(i) \in 1 .. 8, Left(i)' = Left(i) - 1,
           NEW x, Position(Kind(i), x, Left(i))
    PROVE  /\ (Locked(i)' <=> Locked(i)) \/ x = "advisory"
           /\ (Updated(i)' <=> Updated(i)) \/ x \in {"reserve", "cancel"}
           /\ (Returned(i)' <=> Returned(i)) \/ x = "restore"
           /\ (Inserted(i)' <=> Inserted(i)) \/ x = "insertSlot"
           /\ (Picked(i)' <=> Picked(i)) \/ x = "pick"
           /\ (Chosen(i)' <=> Chosen(i)) \/ x = "lockPurchase"
           /\ (Refunding(i, 3)' <=> Refunding(i, 3)) \/ x = "allocation"
           /\ (Refunding(i, 2)' <=> Refunding(i, 2)) \/ x = "void"
           /\ (Refunding(i, 1)' <=> Refunding(i, 1)) \/ x = "restoreAll"
  <1> USE DEF Position, Consumers, Inserters, Cancellers, Movers, Kinds
  <1>1. (Locked(i)' <=> Locked(i)) \/ x = "advisory"
    BY DEF Locked, AfterAdvisory
  <1>2. (Updated(i)' <=> Updated(i)) \/ x \in {"reserve", "cancel"}
    BY DEF Updated, AfterUpdate
  <1>3. (Returned(i)' <=> Returned(i)) \/ x = "restore"
    BY DEF Returned, AfterRestore
  <1>4. (Inserted(i)' <=> Inserted(i)) \/ x = "insertSlot"
    BY DEF Inserted
  <1>5. (Picked(i)' <=> Picked(i)) \/ x = "pick"
    BY DEF Picked
  <1>6. (Chosen(i)' <=> Chosen(i)) \/ x = "lockPurchase"
    BY DEF Chosen
  <1>7. /\ (Refunding(i, 3)' <=> Refunding(i, 3)) \/ x = "allocation"
        /\ (Refunding(i, 2)' <=> Refunding(i, 2)) \/ x = "void"
        /\ (Refunding(i, 1)' <=> Refunding(i, 1)) \/ x = "restoreAll"
    BY DEF Refunding
  <1>. QED BY <1>1, <1>2, <1>3, <1>4, <1>5, <1>6, <1>7

\* pg_advisory_xact_lock on the learner.
LEMMA AdvisoryStep ==
    ASSUME BookInv, NEW i \in Txns, Advisory(i)
    PROVE  BookInv'
  <1> DEFINE r == {<<"advisory", LockedLearner(i)>>}
             t == tx[i]
  <1>1. At(i, "advisory") /\ UNCHANGED committed /\ CanLock(i, <<"advisory", LockedLearner(i)>>)
    BY DEF Advisory
  <1>2. Went(i, r, t.cand, t.wslot, t.wcons, t.wvoid)
    BY Updates, AdvanceWent DEF Advisory, BookInv
  <1>3. /\ tx'[i].job = t.job /\ tx'[i].held = t.held \cup r
        /\ tx'[i].cand = t.cand /\ tx'[i].wslot = t.wslot
        /\ tx'[i].wcons = t.wcons /\ tx'[i].wvoid = t.wvoid
        /\ Kind(i)' = Kind(i) /\ Left(i)' = Left(i) - 1
        /\ Left(i) \in 2 .. 8 /\ Position(Kind(i), "advisory", Left(i))
        /\ Running(i) /\ Running(i)' /\ ProgramOK(i)'
        /\ \A k \in Txns \ {i} : tx'[k] = tx[k]
        /\ Shape'
    BY <1>1, <1>2, WentFields
  <1>4. TxOK(i)
    BY DEF BookInv
  <1>5. /\ Updated(i)' <=> Updated(i)
        /\ Inserted(i)' <=> Inserted(i)
        /\ Returned(i)' <=> Returned(i)
        /\ Refunding(i, 2)' <=> Refunding(i, 2)
        /\ Kind(i) # "refund" /\ ~Picked(i)
        /\ Chosen(i)' => Left(i)' # 2
    BY <1>3, Places DEF Position, Picked
  <1>l. \A s \in Slots : /\ <<"slot", s>> \in tx'[i].held <=> <<"slot", s>> \in tx[i].held
                        /\ <<"cons", s>> \in tx'[i].held <=> <<"cons", s>> \in tx[i].held
    BY <1>3
  <1>6. SlotWrites(i)' /\ LockedLearner(i)' = LockedLearner(i)
    BY <1>1, <1>3, <1>4, <1>5, <1>l, KeepSlots DEF TxOK
  <1>7. ConsWrites(i)'
    BY <1>1, <1>3, <1>4, <1>5, <1>l, KeepCons DEF TxOK
  <1>8. RefundWrites(i)'
    BY <1>3, <1>4, <1>5, KeepVoids DEF TxOK
  <1>9. Candidates(i)'
    <2>1. t.cand = {}
      BY <1>4, <1>5, CandidatesLater DEF TxOK
    <2>. QED BY <1>3, <1>5, <1>6, <2>1, NoCandidates
  <1>10. \A k \in Txns \ {i} : tx'[i].held \cap tx[k].held = {}
    <2>1. \A z \in r : CanLock(i, z)
      BY <1>1
    <2>2. \A k \in Txns \ {i} : (t.held \cup r) \cap tx[k].held = {}
      BY <2>1, TakeLock
    <2>. QED BY <1>3, <2>2
  <1>11. TxOK(i)'
    BY <1>3, <1>6, <1>7, <1>8, <1>9 DEF TxOK
  <1>. QED BY <1>1, <1>3, <1>10, <1>11, OwnStep

\* The update of lesson_slots, on a row that matches.
LEMMA UpdateGoesOn ==
    ASSUME BookInv, NEW i \in Txns, NEW x \in {"reserve", "cancel"}, At(i, x), NEW row,
           row = IF Kind(i) = "book" THEN [status |-> "booked", learner |-> tx[i].job.learner]
                 ELSE [slot[tx[i].job.slot] EXCEPT !.status = "cancelled"],
           Matches(i), CanLock(i, <<"slot", tx[i].job.slot>>), UNCHANGED committed,
           Advance(i, {<<"slot", tx[i].job.slot>>},
                   [tx[i] EXCEPT !.wslot = [u \in {tx[i].job.slot} |-> row]])
    PROVE  BookInv'
  <1> DEFINE s == tx[i].job.slot
             r == {<<"slot", s>>}
             t == tx[i]
             ws == [u \in {s} |-> row]
  <1>1. Went(i, r, t.cand, ws, t.wcons, t.wvoid)
    <2>1. Shape
      BY DEF BookInv
    <2>2. [t EXCEPT !.wslot = ws] = With(i, t.cand, ws, t.wcons, t.wvoid)
      BY <2>1, Updates
    <2>3. Advance(i, r, [t EXCEPT !.wslot = ws])
      OBVIOUS
    <2>. QED BY <2>1, <2>2, <2>3, AdvanceWent
  <1>2. /\ tx'[i].job = t.job /\ tx'[i].held = t.held \cup r
        /\ tx'[i].cand = t.cand /\ tx'[i].wslot = ws
        /\ tx'[i].wcons = t.wcons /\ tx'[i].wvoid = t.wvoid
        /\ Kind(i)' = Kind(i) /\ Left(i)' = Left(i) - 1
        /\ Left(i) \in 2 .. 8 /\ Position(Kind(i), x, Left(i))
        /\ t.job \in Jobs
        /\ Running(i) /\ Running(i)' /\ ProgramOK(i)'
        /\ \A k \in Txns \ {i} : tx'[k] = tx[k]
        /\ Shape'
    BY <1>1, WentFields
  <1>3. TxOK(i)
    BY DEF BookInv
  <1>4. Kind(i) \in {"book"} \cup Cancellers /\ s \in Slots
    <2>1. Kind(i) \in {"book"} \cup Cancellers
      BY <1>2 DEF Position, Cancellers, Movers
    <2>. QED BY <1>2, <2>1, JobFields DEF Kind
  <1>5. /\ Locked(i)' <=> Locked(i)
        /\ Inserted(i)' <=> Inserted(i)
        /\ Returned(i)' <=> Returned(i)
        /\ Refunding(i, 2)' <=> Refunding(i, 2)
    BY <1>2, Places
  <1>6. /\ Kind(i) # "refund" /\ ~Picked(i) /\ ~Updated(i) /\ ~Inserted(i)
        /\ (Chosen(i)' => Left(i)' # 2) /\ Updated(i)'
        /\ Locked(i)' => Kind(i) # "rescheduleByTeacher"
    <2>1. \/ Kind(i) = "book" /\ Left(i) = 5
          \/ Kind(i) = "rescheduleByLearner" /\ Left(i) = 7
          \/ Kind(i) = "rescheduleByTeacher" /\ Left(i) = 8
          \/ Kind(i) = "cancel" /\ Left(i) = 3
      BY <1>2 DEF Position
    <2>2. Kind(i) # "refund" /\ ~Picked(i) /\ ~Inserted(i)
      BY <2>1 DEF Picked, Inserted, Inserters, Consumers, Movers
    <2>3. ~Updated(i) /\ Updated(i)'
      BY <1>2, <1>4, <2>1 DEF Updated, AfterUpdate
    <2>4. Chosen(i)' => Left(i)' # 2
      BY <1>2, <2>1 DEF Chosen, Consumers, Movers
    <2>5. Locked(i)' => Kind(i) # "rescheduleByTeacher"
      BY <1>2, <2>1 DEF Locked, AfterAdvisory
    <2>. QED BY <2>2, <2>3, <2>4, <2>5
  <1>7. /\ \A u \in Slots : <<"cons", u>> \in tx'[i].held <=> <<"cons", u>> \in tx[i].held
        /\ \A u \in Slots : <<"slot", u>> \in tx'[i].held <=> u = s \/ <<"slot", u>> \in tx[i].held
    BY SMTT(30), <1>2
  <1>8. SlotWrites(i)'
    <2>1. DOMAIN tx[i].wslot = {}
      BY <1>3, <1>6 DEF TxOK, SlotWrites
    <2>2. \A u \in Slots : <<"slot", u>> \notin tx[i].held
      BY <1>3, <2>1 DEF TxOK, SlotWrites
    <2>3. DOMAIN ws = {s} /\ ws[s] = row
      OBVIOUS
    <2>4. Matches(i)'
      BY <1>2 DEF Matches, committed
    <2>5. Kind(i) = t.job.kind /\ slot' = slot
      BY DEF Kind, committed
    <2>. QED BY <1>2, <1>4, <1>5, <1>6, <1>7, <2>2, <2>3, <2>4, <2>5 DEF SlotWrites
  <1>9. ConsWrites(i)'
    BY <1>2, <1>3, <1>5, <1>6, <1>7, KeepCons DEF TxOK
  <1>10. RefundWrites(i)'
    BY <1>2, <1>3, <1>6, KeepVoids DEF TxOK
  <1>11. Candidates(i)'
    <2>1. t.cand = {}
      BY <1>3, <1>6, CandidatesLater DEF TxOK
    <2>2. Locked(i)' => LockedLearner(i)' = LockedLearner(i)
      BY <1>2, <1>6 DEF LockedLearner, Kind
    <2>3. Locked(i)' => <<"advisory", LockedLearner(i)'>> \in tx'[i].held
      BY <1>2, <1>3, <1>5, <2>2 DEF TxOK, Candidates
    <2>. QED BY <1>2, <1>6, <2>1, <2>3, NoCandidates
  <1>12. \A k \in Txns \ {i} : tx'[i].held \cap tx[k].held = {}
    <2>1. \A k \in Txns \ {i} : (t.held \cup r) \cap tx[k].held = {}
      <3>1. \A z \in r : CanLock(i, z)
        OBVIOUS
      <3>. QED BY <3>1, TakeLock
    <2>. QED BY <1>2, <2>1
  <1>13. TxOK(i)'
    BY <1>2, <1>8, <1>9, <1>10, <1>11 DEF TxOK
  <1>. QED BY <1>2, <1>12, <1>13, OwnStep

\* bookSlot's update.
LEMMA ReserveStep ==
    ASSUME BookInv, NEW i \in Txns, Reserve(i)
    PROVE  BookInv'
  <1>1. At(i, "reserve")
    BY DEF Reserve
  <1>2. Kind(i) = "book"
    BY <1>1, AtStage DEF BookInv, TxOK, Position
  <1>3. CASE Rollback(i)
    BY <1>3, RollbackStep
  <1>4. CASE ~Rollback(i)
    BY <1>1, <1>2, <1>4, UpdateGoesOn DEF Reserve, UpdateSlot
  <1>. QED BY <1>3, <1>4

\* The update that cancels.
LEMMA CancelStep ==
    ASSUME BookInv, NEW i \in Txns, Cancel(i)
    PROVE  BookInv'
  <1>1. At(i, "cancel")
    BY DEF Cancel
  <1>2. Kind(i) # "book"
    BY <1>1, AtStage DEF BookInv, TxOK, Position
  <1>3. CASE Rollback(i)
    BY <1>3, RollbackStep
  <1>4. CASE ~Rollback(i)
    BY <1>1, <1>2, <1>4, UpdateGoesOn DEF Cancel, UpdateSlot
  <1>. QED BY <1>3, <1>4

\* A statement that writes nothing, and those that write one field.
LEMMA Done ==
    ASSUME Shape, NEW i \in Txns, NEW r, NEW x
    PROVE  LET t == tx[i] IN
           /\ Advance(i, r, t) => Went(i, r, t.cand, t.wslot, t.wcons, t.wvoid)
           /\ Advance(i, r, [t EXCEPT !.cand = x])
                => Went(i, r, x, t.wslot, t.wcons, t.wvoid)
           /\ Advance(i, r, [t EXCEPT !.wslot = x])
                => Went(i, r, t.cand, x, t.wcons, t.wvoid)
           /\ Advance(i, r, [t EXCEPT !.wcons = x])
                => Went(i, r, t.cand, t.wslot, x, t.wvoid)
           /\ Advance(i, r, [t EXCEPT !.wvoid = x])
                => Went(i, r, t.cand, t.wslot, t.wcons, x)
  <1> DEFINE t == tx[i]
  <1>1. Advance(i, r, t) => Went(i, r, t.cand, t.wslot, t.wcons, t.wvoid)
    <2>1. t = With(i, t.cand, t.wslot, t.wcons, t.wvoid)
      BY Updates
    <2>. QED BY <2>1, AdvanceWent
  <1>2. Advance(i, r, [t EXCEPT !.cand = x])
          => Went(i, r, x, t.wslot, t.wcons, t.wvoid)
    <2>1. [t EXCEPT !.cand = x] = With(i, x, t.wslot, t.wcons, t.wvoid)
      BY Updates
    <2>. QED BY <2>1, AdvanceWent
  <1>3. Advance(i, r, [t EXCEPT !.wslot = x])
          => Went(i, r, t.cand, x, t.wcons, t.wvoid)
    <2>1. [t EXCEPT !.wslot = x] = With(i, t.cand, x, t.wcons, t.wvoid)
      BY Updates
    <2>. QED BY <2>1, AdvanceWent
  <1>4. Advance(i, r, [t EXCEPT !.wcons = x])
          => Went(i, r, t.cand, t.wslot, x, t.wvoid)
    <2>1. [t EXCEPT !.wcons = x] = With(i, t.cand, t.wslot, x, t.wvoid)
      BY Updates
    <2>. QED BY <2>1, AdvanceWent
  <1>5. Advance(i, r, [t EXCEPT !.wvoid = x])
          => Went(i, r, t.cand, t.wslot, t.wcons, x)
    <2>1. [t EXCEPT !.wvoid = x] = With(i, t.cand, t.wslot, t.wcons, x)
      BY Updates
    <2>. QED BY <2>1, AdvanceWent
  <1>. QED BY <1>1, <1>2, <1>3, <1>4, <1>5

\* What a statement of i makes of i, when it takes the locks r.
LEMMA WentOn ==
    ASSUME BookInv, NEW i \in Txns, NEW x, At(i, x), x # "commit",
           UNCHANGED committed,
           NEW r, NEW c, NEW ws, NEW wc, NEW wv, Went(i, r, c, ws, wc, wv),
           \A k \in Txns \ {i} : r \cap tx[k].held = {},
           SlotWrites(i)', ConsWrites(i)', Candidates(i)', RefundWrites(i)'
    PROVE  BookInv'
  <1>1. /\ tx'[i].job = tx[i].job /\ tx'[i].held = tx[i].held \cup r
        /\ Running(i) /\ ProgramOK(i)'
        /\ \A k \in Txns \ {i} : tx'[k] = tx[k]
        /\ Shape'
    BY WentFields
  <1>2. \A k \in Txns \ {i} : tx'[i].held \cap tx[k].held = {}
    BY <1>1 DEF BookInv, LocksExclude
  <1>3. TxOK(i)'
    BY <1>1 DEF TxOK
  <1>. QED BY <1>1, <1>2, <1>3, OwnStep

\* restorePackageConsumption, when there is nothing to restore.
LEMMA RestoreNothing ==
    ASSUME BookInv, NEW i \in Txns, At(i, "restore"), UNCHANGED committed,
           ~InUnit(ConsSeen(i)[tx[i].job.slot]), NEW r, \A z : z \notin r,
           Advance(i, r, tx[i])
    PROVE  BookInv'
  <1> DEFINE t == tx[i]
  <1>1. Went(i, r, t.cand, t.wslot, t.wcons, t.wvoid)
    BY Done DEF BookInv
  <1>2. /\ tx'[i].job = t.job /\ tx'[i].held = t.held \cup r
        /\ tx'[i].cand = t.cand /\ tx'[i].wslot = t.wslot
        /\ tx'[i].wcons = t.wcons /\ tx'[i].wvoid = t.wvoid
        /\ Kind(i)' = Kind(i) /\ Left(i)' = Left(i) - 1
        /\ Left(i) \in 2 .. 8 /\ Position(Kind(i), "restore", Left(i))
        /\ Running(i) /\ Running(i)'
    BY <1>1, WentFields
  <1>3. TxOK(i) /\ tx'[i].held = t.held
    BY <1>2 DEF BookInv
  <1>4. /\ Locked(i)' <=> Locked(i)
        /\ Updated(i)' <=> Updated(i)
        /\ Inserted(i)' <=> Inserted(i)
        /\ Refunding(i, 2)' <=> Refunding(i, 2)
    BY <1>2, Places
  <1>5. Kind(i) # "refund" /\ ~Picked(i) /\ (Chosen(i)' => Left(i)' # 2)
    BY <1>2 DEF Position, Picked, Chosen, Consumers, Movers
  <1>6. SlotWrites(i)' /\ LockedLearner(i)' = LockedLearner(i)
    BY <1>2, <1>3, <1>4, KeepSlots DEF TxOK
  <1>7. ConsWrites(i)'
    BY <1>2, <1>3, <1>4, <1>5, KeepCons DEF TxOK
  <1>8. RefundWrites(i)'
    BY <1>2, <1>3, <1>5, KeepVoids DEF TxOK
  <1>9. Candidates(i)'
    <2>1. t.cand = {}
      BY <1>3, <1>5, CandidatesLater DEF TxOK
    <2>2. Locked(i)' => <<"advisory", LockedLearner(i)'>> \in tx'[i].held
      BY <1>3, <1>4, <1>6 DEF TxOK, Candidates
    <2>. QED BY <1>2, <1>5, <2>1, <2>2, NoCandidates
  <1>. QED BY <1>1, <1>6, <1>7, <1>8, <1>9, WentOn

\* restorePackageConsumption, when the slot's unit is in use.
LEMMA RestoreUnit ==
    ASSUME BookInv, NEW i \in Txns, At(i, "restore"), UNCHANGED committed,
           NEW s, s = tx[i].job.slot, NEW row, row = ConsSeen(i)[s], InUnit(row),
           CanLock(i, <<"cons", s>>),
           Advance(i, {<<"cons", s>>},
                   [tx[i] EXCEPT !.wcons = [u \in {s} |-> [row EXCEPT !.restored = TRUE]]])
    PROVE  BookInv'
  <1> DEFINE t == tx[i]
             r == {<<"cons", s>>}
             wc == [u \in {s} |-> [row EXCEPT !.restored = TRUE]]
  <1>1. Went(i, r, t.cand, t.wslot, wc, t.wvoid)
    <2>1. Advance(i, r, [t EXCEPT !.wcons = wc]) /\ Shape
      BY DEF BookInv
    <2>. QED BY <2>1, Done
  <1>2. /\ tx'[i].job = t.job /\ tx'[i].held = t.held \cup r
        /\ tx'[i].cand = t.cand /\ tx'[i].wslot = t.wslot
        /\ tx'[i].wcons = wc /\ tx'[i].wvoid = t.wvoid
        /\ Kind(i)' = Kind(i) /\ Left(i)' = Left(i) - 1
        /\ Left(i) \in 2 .. 8 /\ Position(Kind(i), "restore", Left(i))
        /\ t.job \in Jobs /\ Running(i) /\ Running(i)'
    BY <1>1, WentFields
  <1>3. TxOK(i)
    BY DEF BookInv
  <1>4. /\ Locked(i)' <=> Locked(i)
        /\ Updated(i)' <=> Updated(i)
        /\ Inserted(i)' <=> Inserted(i)
        /\ Refunding(i, 2)' <=> Refunding(i, 2)
    BY <1>2, Places
  <1>5. /\ Kind(i) # "refund" /\ ~Picked(i) /\ (Chosen(i)' => Left(i)' # 2)
        /\ Kind(i) \in Cancellers /\ Updated(i) /\ ~Refunding(i, 2)
        /\ ~(Chosen(i) /\ Left(i) = 1)
    <2>1. \/ Kind(i) = "rescheduleByLearner" /\ Left(i) = 6
          \/ Kind(i) = "rescheduleByTeacher" /\ Left(i) = 6
          \/ Kind(i) = "cancel" /\ Left(i) = 2
      BY <1>2 DEF Position, Movers
    <2>2. Kind(i) # "refund" /\ Kind(i) \in Cancellers /\ ~Refunding(i, 2)
      BY <2>1 DEF Cancellers, Movers, Refunding
    <2>3. ~Picked(i) /\ (Chosen(i)' => Left(i)' # 2) /\ ~(Chosen(i) /\ Left(i) = 1)
      BY <1>2, <2>1 DEF Picked, Chosen, Consumers, Movers
    <2>4. Updated(i)
      BY <1>2, <2>1, <2>2 DEF Updated, AfterUpdate
    <2>. QED BY <2>2, <2>3, <2>4
  <1>6. s \in Slots
    BY <1>2, <1>5, JobFields DEF Kind
  <1>7. \A u \in Slots : /\ <<"slot", u>> \in tx'[i].held <=> <<"slot", u>> \in t.held
                         /\ <<"cons", u>> \in tx'[i].held <=> u = s \/ <<"cons", u>> \in t.held
    BY <1>2
  <1>8. SlotWrites(i)' /\ LockedLearner(i)' = LockedLearner(i)
    BY <1>2, <1>3, <1>4, <1>7, KeepSlots DEF TxOK
  <1>9. cons \in [Slots -> [order : Orders \cup {NoOrder}, restored : BOOLEAN]]
    BY DEF BookInv, Committed
  <1>10. \A u \in DOMAIN t.wcons : u = s /\ t.wcons[u].restored
    <2>1. \A u \in DOMAIN t.wcons : GivesBack(i, u) /\ u \in Slots
      BY <1>3, <1>5 DEF TxOK, ConsWrites, Takes
    <2>. QED BY <1>5, <1>9, <2>1 DEF GivesBack
  <1>11. s \notin DOMAIN t.wcons /\ row = cons[s]
    BY ZenonT(60), <1>6, <1>9, <1>10 DEF ConsSeen, Overlay, InUnit
  <1>12. ConsWrites(i)'
    <2>1. DOMAIN wc = {s} /\ wc[s] = [cons[s] EXCEPT !.restored = TRUE]
      BY <1>11
    <2>2. DOMAIN t.wcons = {}
      BY <1>10, <1>11
    <2>3. cons' = cons
      BY DEF committed
    <2>4. GivesBack(i, s)'
      BY <1>2, <1>4, <1>5, <1>11, <2>1, <2>3 DEF GivesBack
    <2>5. ~InUnit(ConsSeen(i)[tx[i].job.slot])'
      <3>1. ConsSeen(i)'[s] = wc[s]
        BY ZenonT(60), <1>2, <1>6, <1>9, <2>1, <2>3 DEF ConsSeen, Overlay
      <3>2. wc[s].restored
        BY <1>6, <1>9, <2>1
      <3>. QED BY <1>2, <3>1, <3>2 DEF InUnit
    <2>6. \A u \in Slots : <<"cons", u>> \in tx'[i].held <=> u = s
      BY <1>3, <1>7, <2>2 DEF TxOK, ConsWrites
    <2>. QED BY <1>2, <1>6, <2>1, <2>4, <2>5, <2>6 DEF ConsWrites
  <1>13. RefundWrites(i)'
    BY <1>2, <1>3, <1>5, KeepVoids DEF TxOK
  <1>14. Candidates(i)'
    <2>1. t.cand = {}
      BY <1>3, <1>5, CandidatesLater DEF TxOK
    <2>2. Locked(i)' => <<"advisory", LockedLearner(i)'>> \in tx'[i].held
      BY <1>2, <1>3, <1>4, <1>8 DEF TxOK, Candidates
    <2>. QED BY <1>2, <1>5, <2>1, <2>2, NoCandidates
  <1>15. \A k \in Txns \ {i} : r \cap tx[k].held = {}
    BY DEF CanLock
  <1>. QED BY <1>1, <1>8, <1>12, <1>13, <1>14, <1>15, WentOn

\* restorePackageConsumption.
LEMMA RestoreStep ==
    ASSUME BookInv, NEW i \in Txns, Restore(i)
    PROVE  BookInv'
  <1>1. At(i, "restore") /\ UNCHANGED committed
    BY DEF Restore
  <1>2. CASE ~InUnit(ConsSeen(i)[tx[i].job.slot])
    <2>1. Advance(i, {}, tx[i])
      BY <1>2 DEF Restore, InUnit
    <2>. QED BY <1>1, <1>2, <2>1, RestoreNothing
  <1>3. CASE InUnit(ConsSeen(i)[tx[i].job.slot])
    BY <1>1, <1>3, RestoreUnit DEF Restore, InUnit
  <1>. QED BY <1>2, <1>3

-----------------------------------------------------------------------------
(* The statements that insert and pay.                                     *)

\* The row a transaction updates was open or booked.
LEMMA MatchedRow ==
    ASSUME NEW i \in Txns, Updated(i), Matches(i)
    PROVE  slot[tx[i].job.slot].status \in {"open", "booked"}
  BY DEF Updated, Matches, Kind, Cancellers, Movers

\* The row a transaction inserts is not there, and nobody else writes it.
LEMMA NewRow ==
    ASSUME BookInv, NEW i \in Txns, Running(i), Kind(i) \in Inserters
    PROVE  /\ tx[i].job.new \in Slots \ Published
           /\ slot[tx[i].job.new].status = "absent"
           /\ cons[tx[i].job.new] = NoCons
           /\ Updated(i) => tx[i].job.new # tx[i].job.slot
           /\ \A k \in Txns \ {i} : <<"slot", tx[i].job.new>> \notin tx[k].held
  <1> DEFINE n == tx[i].job.new
  <1>1. n \in Slots \ Published
    <2>1. tx[i].job \in Jobs
      BY RunningStage DEF BookInv, TxOK
    <2>. QED BY <2>1, JobFields DEF Kind
  <1>2. \A k \in Txns : tx[k].job.new = n => k = i
    BY <1>1 DEF BookInv, FreshRows
  <1>3. slot[n].status = "absent"
    BY <1>1, <1>2 DEF BookInv, FreshRows
  <1>4. cons[n] = NoCons
    BY <1>1, <1>3 DEF BookInv, Committed
  <1>5. \A k \in Txns : Updated(k) => n # tx[k].job.slot
    <2>1. \A k \in Txns : Updated(k) => Matches(k)
      BY DEF BookInv, TxOK, SlotWrites
    <2>. QED BY <1>3, <2>1, MatchedRow
  <1>6. ASSUME NEW k \in Txns \ {i}, <<"slot", n>> \in tx[k].held
        PROVE  FALSE
    <2>1. SlotWrites(k)
      BY DEF BookInv, TxOK
    <2>2. n \in DOMAIN tx[k].wslot
      BY <1>1, <1>6, <2>1 DEF SlotWrites
    <2>3. (Updated(k) /\ n = tx[k].job.slot) \/ n = tx[k].job.new
      BY <2>1, <2>2 DEF SlotWrites
    <2>. QED BY <1>2, <1>5, <2>3
  <1>. QED BY <1>1, <1>3, <1>4, <1>5, <1>6

\* insert into lesson_slots.
LEMMA InsertGoesOn ==
    ASSUME BookInv, NEW i \in Txns, At(i, "insertSlot"), UNCHANGED committed,
           NEW n, n = tx[i].job.new, NEW row,
           row = [status |-> "booked", learner |-> LockedLearner(i)],
           NEW ws, ws = [u \in DOMAIN tx[i].wslot \cup {n} |->
                           IF u = n THEN row ELSE tx[i].wslot[u]],
           Advance(i, {<<"slot", n>>}, [tx[i] EXCEPT !.wslot = ws])
    PROVE  BookInv'
  <1> DEFINE t == tx[i]
             r == {<<"slot", n>>}
  <1>1. Went(i, r, t.cand, ws, t.wcons, t.wvoid)
    <2>1. Advance(i, r, [t EXCEPT !.wslot = ws]) /\ Shape
      BY DEF BookInv
    <2>. QED BY <2>1, Done
  <1>2. /\ tx'[i].job = t.job /\ tx'[i].held = t.held \cup r
        /\ tx'[i].cand = t.cand /\ tx'[i].wslot = ws
        /\ tx'[i].wcons = t.wcons /\ tx'[i].wvoid = t.wvoid
        /\ Kind(i)' = Kind(i) /\ Left(i)' = Left(i) - 1
        /\ Left(i) \in 2 .. 8 /\ Position(Kind(i), "insertSlot", Left(i))
        /\ t.job \in Jobs /\ Running(i) /\ Running(i)'
    BY <1>1, WentFields
  <1>3. TxOK(i) /\ slot' = slot
    BY DEF BookInv, committed
  <1>4. /\ Locked(i)' <=> Locked(i)
        /\ Updated(i)' <=> Updated(i)
        /\ Returned(i)' <=> Returned(i)
        /\ Refunding(i, 2)' <=> Refunding(i, 2)
    BY <1>2, Places
  <1>5. /\ Kind(i) # "refund" /\ ~Picked(i) /\ (Chosen(i)' => Left(i)' # 2)
        /\ Kind(i) \in Inserters /\ ~Inserted(i) /\ Inserted(i)'
        /\ Kind(i) = "rescheduleByTeacher" => Updated(i)
    <2>1. Kind(i) \in Inserters /\ Left(i) = 5
      BY <1>2 DEF Position
    <2>2. Kind(i) # "refund"
      BY <2>1 DEF Inserters, Movers
    <2>3. ~Picked(i) /\ (Chosen(i)' => Left(i)' # 2)
      BY <1>2, <2>1 DEF Picked, Chosen
    <2>4. ~Inserted(i) /\ Inserted(i)'
      BY <1>2, <2>1 DEF Inserted
    <2>5. Kind(i) = "rescheduleByTeacher" => Updated(i)
      BY <1>2, <2>1 DEF Updated, AfterUpdate, Cancellers, Movers
    <2>. QED BY <2>1, <2>2, <2>3, <2>4, <2>5
  <1>6. /\ n \in Slots
        /\ Updated(i) => /\ n # t.job.slot /\ t.job.slot \in DOMAIN t.wslot
                         /\ t.job.slot \in Slots
        /\ \A k \in Txns \ {i} : <<"slot", n>> \notin tx[k].held
    <2>1. Updated(i) => t.job.slot \in Slots
      BY <1>2, JobFields DEF Updated, Kind
    <2>2. Updated(i) => t.job.slot \in DOMAIN t.wslot
      BY <1>3, <2>1 DEF TxOK, SlotWrites
    <2>. QED BY <1>2, <1>5, <2>1, <2>2, NewRow
  <1>7. \A u \in Slots : /\ <<"cons", u>> \in tx'[i].held <=> <<"cons", u>> \in t.held
                         /\ <<"slot", u>> \in tx'[i].held <=> u = n \/ <<"slot", u>> \in t.held
    BY <1>2
  <1>8. /\ DOMAIN ws = DOMAIN t.wslot \cup {n} /\ ws[n] = row
        /\ Updated(i) => ws[t.job.slot] = t.wslot[t.job.slot]
    BY SMTT(30), <1>6
  <1>9. LockedLearner(i)' = LockedLearner(i)
    <2>1. ASSUME Kind(i) = "rescheduleByTeacher"
          PROVE  SlotsSeen(i)'[t.job.slot] = SlotsSeen(i)[t.job.slot]
      <3>1. DOMAIN slot = Slots
        BY SMTT(30) DEF BookInv, Committed
      <3>. QED BY <1>2, <1>3, <1>5, <1>6, <1>8, <2>1, <3>1 DEF SlotsSeen, Overlay
    <2>. QED BY SMTT(30), <1>2, <2>1 DEF LockedLearner, Kind
  <1>10. SlotWrites(i)'
    <2>1. SlotWrites(i)
      BY <1>3 DEF TxOK
    <2>2. DOMAIN t.wslot = {u \in Slots : Updated(i) /\ u = t.job.slot}
      BY <1>5, <2>1 DEF SlotWrites
    <2>3. DOMAIN ws = {u \in Slots : (Updated(i) /\ u = t.job.slot) \/ u = n}
      BY <1>6, <1>8, <2>2
    <2>4. \A u \in Slots : <<"slot", u>> \in tx'[i].held <=> u \in DOMAIN ws
      BY <1>7, <1>8, <2>1 DEF SlotWrites
    <2>5. Matches(i)' <=> Matches(i)
      BY <1>2, <1>3 DEF Matches
    <2>. QED BY <1>2, <1>3, <1>4, <1>5, <1>8, <1>9, <2>1, <2>3, <2>4, <2>5 DEF SlotWrites
  <1>11. ConsWrites(i)'
    BY <1>2, <1>3, <1>4, <1>5, <1>7, KeepCons DEF TxOK
  <1>12. RefundWrites(i)'
    BY <1>2, <1>3, <1>5, KeepVoids DEF TxOK
  <1>13. Candidates(i)'
    <2>1. t.cand = {}
      BY <1>3, <1>5, CandidatesLater DEF TxOK
    <2>2. Locked(i)' => <<"advisory", LockedLearner(i)'>> \in tx'[i].held
      BY <1>2, <1>3, <1>4, <1>9 DEF TxOK, Candidates
    <2>. QED BY <1>2, <1>5, <2>1, <2>2, NoCandidates
  <1>14. \A k \in Txns \ {i} : r \cap tx[k].held = {}
    BY <1>6
  <1>. QED BY <1>1, <1>10, <1>11, <1>12, <1>13, <1>14, WentOn

\* insert into lesson_slots, or error 23505.
LEMMA InsertSlotStep ==
    ASSUME BookInv, NEW i \in Txns, InsertSlot(i)
    PROVE  BookInv'
  <1>1. At(i, "insertSlot")
    BY DEF InsertSlot
  <1>2. CASE Rollback(i)
    BY <1>2, RollbackStep
  <1>3. CASE ~Rollback(i)
    <2> DEFINE n == tx[i].job.new
               row == [status |-> "booked", learner |-> LockedLearner(i)]
               ws == [u \in DOMAIN tx[i].wslot \cup {n} |->
                           IF u = n THEN row ELSE tx[i].wslot[u]]
    <2>1. /\ UNCHANGED committed
          /\ Advance(i, {<<"slot", n>>}, [tx[i] EXCEPT !.wslot = ws])
      BY <1>3 DEF InsertSlot
    <2>. QED BY <1>1, <2>1, InsertGoesOn
  <1>. QED BY <1>2, <1>3

\* A set of numbers has a least one.
LEMMA LeastNat ==
    ASSUME NEW T \in SUBSET Nat, T # {}
    PROVE  \E m \in T : \A k \in T : m <= k
  <1> DEFINE Below == OpToRel(<, Nat)
  <1>1. PICK m \in T : \A k \in T : ~(<<k, m>> \in Below)
    BY NatLessThanWellFounded, WFMin
  <1>2. \A k \in T : <<k, m>> \in Below <=> k < m
    BY DEF OpToRel
  <1> HIDE DEF Below
  <1>3. ASSUME NEW k \in T PROVE m <= k
    <2>1. ~(k < m)
      BY <1>1, <1>2, Zenon
    <2>. QED BY <2>1
  <1>. QED BY <1>3

\* The candidate that expires first is a candidate.
LEMMA EarliestIn ==
    ASSUME NEW os \in SUBSET Orders, os # {}
    PROVE  Earliest(os) \in os
  <1> DEFINE T == {Expires[o] : o \in os}
  <1>1. T \in SUBSET Nat /\ T # {}
    BY TxAssumption
  <1>2. PICK m \in T : \A k \in T : m <= k
    BY <1>1, LeastNat
  <1>3. \E o \in os : \A q \in os : Expires[o] <= Expires[q]
    BY <1>2
  <1>. QED BY <1>3 DEF Earliest

\* The only candidate is the one that expires first.
LEMMA EarliestOnly ==
    ASSUME NEW o \in Orders
    PROVE  Earliest({o}) = o
  <1>1. {o} \in SUBSET Orders /\ {o} # {}
    OBVIOUS
  <1>2. Earliest({o}) \in {o}
    BY <1>1, EarliestIn
  <1>. QED BY <1>2

\* Fewer rows count less.
LEMMA FewerRows ==
    ASSUME NEW S \in SUBSET Slots, NEW T \in SUBSET S, NEW n \in Nat, Cardinality(S) < n
    PROVE  Cardinality(T) < n
  <1>1. IsFiniteSet(S)
    BY TxAssumption, FS_Subset
  <1>2. IsFiniteSet(T) /\ Cardinality(T) <= Cardinality(S)
    BY <1>1, FS_Subset
  <1>3. Cardinality(T) \in Nat /\ Cardinality(S) \in Nat
    BY <1>1, <1>2, FS_CardinalityType
  <1>. QED BY <1>2, <1>3

\* The select of consumePackageUnit.
LEMMA PickStep ==
    ASSUME BookInv, NEW i \in Txns, Pick(i)
    PROVE  BookInv'
  <1> DEFINE t == tx[i]
             os == {o \in Orders : /\ standing[o] = "live"
                                   /\ Owner[o] = LockedLearner(i)
                                   /\ Cardinality(ActiveRows(ConsSeen(i), o)) < Count[o]}
  <1>1. At(i, "pick") /\ UNCHANGED committed
    BY DEF Pick
  <1>a. PICK c \in Choices(i, os) : Advance(i, {}, [t EXCEPT !.cand = c])
    BY DEF Pick
  <1>b. c \subseteq os
    BY <1>a DEF Choices
  <1>2. PICK r : (\A z : z \notin r) /\ Went(i, r, c, t.wslot, t.wcons, t.wvoid)
    <2>1. Advance(i, {}, [t EXCEPT !.cand = c]) /\ Shape
      BY <1>a DEF BookInv
    <2>2. \E r : r = {} /\ Advance(i, r, [t EXCEPT !.cand = c])
      BY <2>1
    <2>. QED BY <2>1, <2>2, Done
  <1> HIDE DEF os
  <1>3. /\ tx'[i].job = t.job /\ tx'[i].held = t.held \cup r
        /\ tx'[i].cand = c /\ tx'[i].wslot = t.wslot
        /\ tx'[i].wcons = t.wcons /\ tx'[i].wvoid = t.wvoid
        /\ Kind(i)' = Kind(i) /\ Left(i)' = Left(i) - 1
        /\ Left(i) \in 2 .. 8 /\ Position(Kind(i), "pick", Left(i))
        /\ Running(i) /\ Running(i)'
    BY <1>1, <1>2, WentFields
  <1>4. TxOK(i) /\ tx'[i].held = t.held
    BY <1>2, <1>3 DEF BookInv
  <1>5. /\ Locked(i)' <=> Locked(i)
        /\ Updated(i)' <=> Updated(i)
        /\ Returned(i)' <=> Returned(i)
        /\ Inserted(i)' <=> Inserted(i)
        /\ Refunding(i, 2)' <=> Refunding(i, 2)
    BY <1>3, Places
  <1>6. Kind(i) # "refund" /\ Picked(i)' /\ ~Chosen(i)'
    <2>1. Kind(i) \in Consumers /\ Left(i) = 4
      BY <1>3 DEF Position
    <2>. QED BY <1>3, <2>1 DEF Picked, Chosen, Consumers, Movers
  <1>7. SlotWrites(i)' /\ LockedLearner(i)' = LockedLearner(i)
    BY <1>1, <1>3, <1>4, <1>5, KeepSlots DEF TxOK
  <1>8. ConsWrites(i)' /\ ConsSeen(i)' = ConsSeen(i)
    BY <1>1, <1>3, <1>4, <1>5, KeepCons DEF TxOK
  <1>9. RefundWrites(i)'
    BY <1>3, <1>4, <1>6, KeepVoids DEF TxOK
  <1>10. Candidates(i)'
    <2>1. c \subseteq Orders /\ \A o \in c : Owner[o] = LockedLearner(i)
      BY <1>b DEF os
    <2>2. Locked(i)' => <<"advisory", LockedLearner(i)'>> \in tx'[i].held
      BY <1>4, <1>5, <1>7 DEF TxOK, Candidates
    <2>3. \A o \in c : Cardinality(ActiveRows(ConsSeen(i)', o) \ {t.job.new}) < Count[o]
      <3>1. TAKE o \in c
      <3>2. Cardinality(ActiveRows(ConsSeen(i), o)) < Count[o] /\ Count[o] \in Nat
        BY <1>b, TxAssumption DEF os
      <3>3. ActiveRows(ConsSeen(i), o) \in SUBSET Slots
        BY DEF ActiveRows
      <3>4. Cardinality(ActiveRows(ConsSeen(i), o) \ {t.job.new}) < Count[o]
        BY <3>2, <3>3, FewerRows
      <3>. QED BY <1>8, <3>4
    <2>4. \A o \in c : ActiveRows(ConsSeen(i), o)' = ActiveRows(ConsSeen(i)', o)
      BY DEF ActiveRows
    <2>. QED BY <1>3, <1>6, <1>7, <2>1, <2>2, <2>3, <2>4 DEF Candidates
  <1>. QED BY <1>1, <1>2, <1>7, <1>8, <1>9, <1>10, WentOn

\* select ... for update of the purchase, when it is still live.
LEMMA LockPurchaseLive ==
    ASSUME BookInv, NEW i \in Txns, At(i, "lockPurchase"), UNCHANGED committed,
           NEW o \in tx[i].cand, CanLock(i, <<"purchase", o>>), standing[o] = "live",
           Advance(i, {<<"purchase", o>>}, [tx[i] EXCEPT !.cand = {o}])
    PROVE  BookInv'
  <1> DEFINE t == tx[i]
             r == {<<"purchase", o>>}
             c == {o}
  <1>1. Went(i, r, c, t.wslot, t.wcons, t.wvoid)
    <2>1. Advance(i, r, [t EXCEPT !.cand = c]) /\ Shape
      BY DEF BookInv
    <2>. QED BY <2>1, Done
  <1>2. /\ tx'[i].job = t.job /\ tx'[i].held = t.held \cup r
        /\ tx'[i].cand = c /\ tx'[i].wslot = t.wslot
        /\ tx'[i].wcons = t.wcons /\ tx'[i].wvoid = t.wvoid
        /\ Kind(i)' = Kind(i) /\ Left(i)' = Left(i) - 1
        /\ Left(i) \in 2 .. 8 /\ Position(Kind(i), "lockPurchase", Left(i))
        /\ Running(i) /\ Running(i)'
    BY <1>1, WentFields
  <1>3. TxOK(i)
    BY DEF BookInv
  <1>4. /\ Locked(i)' <=> Locked(i)
        /\ Updated(i)' <=> Updated(i)
        /\ Returned(i)' <=> Returned(i)
        /\ Inserted(i)' <=> Inserted(i)
        /\ Picked(i)' <=> Picked(i)
        /\ Refunding(i, 2)' <=> Refunding(i, 2)
    BY <1>2, Places
  <1>5. Kind(i) # "refund"
    BY <1>2 DEF Position, Consumers, Movers
  <1>6. \A u \in Slots : /\ <<"slot", u>> \in tx'[i].held <=> <<"slot", u>> \in t.held
                         /\ <<"cons", u>> \in tx'[i].held <=> <<"cons", u>> \in t.held
    BY <1>2
  <1>7. SlotWrites(i)' /\ LockedLearner(i)' = LockedLearner(i)
    BY <1>2, <1>3, <1>4, <1>6, KeepSlots DEF TxOK
  <1>8. ConsWrites(i)' /\ ConsSeen(i)' = ConsSeen(i)
    BY <1>2, <1>3, <1>4, <1>6, KeepCons DEF TxOK
  <1>9. RefundWrites(i)'
    BY <1>2, <1>3, <1>5, KeepVoids DEF TxOK
  <1>10. Candidates(i)'
    <2>1. /\ o \in Orders /\ Owner[o] = LockedLearner(i) /\ Picked(i)
          /\ Cardinality(ActiveRows(ConsSeen(i), o) \ {t.job.new}) < Count[o]
          /\ Locked(i) => <<"advisory", LockedLearner(i)>> \in t.held
      BY <1>3 DEF TxOK, Candidates
    <2>2. ActiveRows(ConsSeen(i), o)' = ActiveRows(ConsSeen(i), o)
      BY <1>8 DEF ActiveRows
    <2>3. standing' = standing
      BY DEF committed
    <2>. QED BY <1>2, <1>4, <1>7, <2>1, <2>2, <2>3 DEF Candidates
  <1>11. \A k \in Txns \ {i} : r \cap tx[k].held = {}
    BY DEF CanLock
  <1>. QED BY <1>1, <1>7, <1>8, <1>9, <1>10, <1>11, WentOn

\* What is left, the locks, the candidates or the units change.
Becomes(i, td, h, c, wc) ==
    tx' = [tx EXCEPT ![i] =
             [job |-> tx[i].job, todo |-> td, held |-> h, cand |-> c,
              wslot |-> tx[i].wslot, wcons |-> wc, wvoid |-> tx[i].wvoid]]

\* What that makes of the transaction.
LEMMA BecomesFields ==
    ASSUME Shape, NEW i \in Txns, NEW td, NEW h, NEW c, NEW wc, Becomes(i, td, h, c, wc)
    PROVE  /\ tx'[i].job = tx[i].job /\ tx'[i].todo = td /\ tx'[i].held = h
           /\ tx'[i].cand = c /\ tx'[i].wslot = tx[i].wslot
           /\ tx'[i].wcons = wc /\ tx'[i].wvoid = tx[i].wvoid
           /\ Kind(i)' = Kind(i)
           /\ \A k \in Txns \ {i} : tx'[k] = tx[k]
           /\ Shape'
  <1> DEFINE rec == [job |-> tx[i].job, todo |-> td, held |-> h, cand |-> c,
                     wslot |-> tx[i].wslot, wcons |-> wc, wvoid |-> tx[i].wvoid]
  <1>1. tx' = [tx EXCEPT ![i] = rec] /\ DOMAIN tx = Txns
    BY DEF Becomes, Shape
  <1>2. tx'[i] = rec /\ \A k \in Txns \ {i} : tx'[k] = tx[k]
    BY <1>1
  <1>3. /\ rec.job = tx[i].job /\ rec.todo = td /\ rec.held = h /\ rec.cand = c
        /\ rec.wslot = tx[i].wslot /\ rec.wcons = wc /\ rec.wvoid = tx[i].wvoid
    OBVIOUS
  <1>4. Shape'
    <2>1. tx' = [k \in Txns |-> IF k = i THEN rec ELSE tx[k]]
      BY <1>1
    <2>. QED BY ZenonT(60), <1>2, <1>3, <2>1 DEF Shape
  <1> HIDE DEF rec
  <1>. QED BY <1>2, <1>3, <1>4 DEF Kind

\* As long as what is left stays the same, so does the place in the program.
LEMMA SamePlace ==
    ASSUME NEW i \in Txns, tx'[i].job = tx[i].job, tx'[i].todo = tx[i].todo
    PROVE  /\ Kind(i)' = Kind(i) /\ Left(i)' = Left(i)
           /\ Running(i)' <=> Running(i)
           /\ Locked(i)' <=> Locked(i)
           /\ Updated(i)' <=> Updated(i)
           /\ Returned(i)' <=> Returned(i)
           /\ Inserted(i)' <=> Inserted(i)
           /\ Picked(i)' <=> Picked(i)
           /\ Chosen(i)' <=> Chosen(i)
           /\ Refunding(i, 1)' <=> Refunding(i, 1)
           /\ Refunding(i, 2)' <=> Refunding(i, 2)
           /\ Refunding(i, 3)' <=> Refunding(i, 3)
  <1>1. Kind(i)' = Kind(i) /\ Left(i)' = Left(i) /\ (Running(i)' <=> Running(i))
    BY DEF Kind, Left, Running
  <1>. QED BY <1>1 DEF Locked, Updated, Returned, Inserted, Picked, Chosen, Refunding

\* select ... for update of the purchase, when it is no longer live: the next
\* candidate's turn.
LEMMA LockPurchaseGone ==
    ASSUME BookInv, NEW i \in Txns, At(i, "lockPurchase"), UNCHANGED committed,
           NEW o, tx' = [tx EXCEPT ![i].cand = @ \ {o}]
    PROVE  BookInv'
  <1> DEFINE t == tx[i]
             c == t.cand \ {o}
  <1>1. Becomes(i, t.todo, t.held, c, t.wcons)
    <2>1. tx' = [tx EXCEPT ![i] = [t EXCEPT !.cand = c]]
      OBVIOUS
    <2>2. [t EXCEPT !.cand = c] = With(i, c, t.wslot, t.wcons, t.wvoid)
      BY Updates DEF BookInv
    <2>. QED BY <2>1, <2>2 DEF With, Becomes
  <1>2. /\ tx'[i].job = t.job /\ tx'[i].todo = t.todo /\ tx'[i].held = t.held
        /\ tx'[i].cand = c /\ tx'[i].wslot = t.wslot
        /\ tx'[i].wcons = t.wcons /\ tx'[i].wvoid = t.wvoid
        /\ \A k \in Txns \ {i} : tx'[k] = tx[k]
        /\ Shape'
    BY <1>1, BecomesFields DEF BookInv
  <1>3. TxOK(i) /\ Running(i) /\ Kind(i) # "refund" /\ ~Chosen(i) /\ Left(i) # 1
    <2>1. TxOK(i)
      BY DEF BookInv
    <2>2. Running(i) /\ Kind(i) \in Consumers /\ Left(i) = 3
      BY <2>1, AtStage DEF TxOK, Position
    <2>. QED BY <2>1, <2>2 DEF Chosen, Consumers, Movers
  <1>4. /\ Kind(i)' = Kind(i) /\ Left(i)' = Left(i)
        /\ Running(i)' <=> Running(i)
        /\ Locked(i)' <=> Locked(i)
        /\ Updated(i)' <=> Updated(i)
        /\ Returned(i)' <=> Returned(i)
        /\ Inserted(i)' <=> Inserted(i)
        /\ Picked(i)' <=> Picked(i)
        /\ Chosen(i)' <=> Chosen(i)
        /\ Refunding(i, 2)' <=> Refunding(i, 2)
    BY <1>2, SamePlace
  <1>5. ProgramOK(i)'
    BY <1>2, <1>3, <1>4 DEF TxOK, ProgramOK
  <1>6. SlotWrites(i)' /\ LockedLearner(i)' = LockedLearner(i)
    BY <1>2, <1>3, <1>4, KeepSlots DEF TxOK
  <1>7. ConsWrites(i)' /\ ConsSeen(i)' = ConsSeen(i)
    BY <1>2, <1>3, <1>4, KeepCons DEF TxOK
  <1>8. RefundWrites(i)'
    BY <1>2, <1>3, KeepVoids DEF TxOK
  <1>9. Candidates(i)'
    <2>1. \A q : ActiveRows(ConsSeen(i), q)' = ActiveRows(ConsSeen(i), q)
      BY <1>7 DEF ActiveRows
    <2>. QED BY <1>2, <1>3, <1>4, <1>6, <2>1 DEF TxOK, Candidates
  <1>10. TxOK(i)'
    BY <1>5, <1>6, <1>7, <1>8, <1>9 DEF TxOK
  <1>11. \A k \in Txns \ {i} : tx'[i].held \cap tx[k].held = {}
    BY <1>2 DEF BookInv, LocksExclude
  <1>. QED BY <1>2, <1>3, <1>10, <1>11, OwnStep

\* The lock on the purchase.
LEMMA LockPurchaseStep ==
    ASSUME BookInv, NEW i \in Txns, LockPurchase(i)
    PROVE  BookInv'
  <1> DEFINE o == Earliest(tx[i].cand)
  <1>1. /\ At(i, "lockPurchase") /\ UNCHANGED committed
        /\ CanLock(i, <<"purchase", o>>) /\ tx[i].cand # {}
    BY DEF LockPurchase
  <1>2. o \in tx[i].cand
    <2>1. tx[i].cand \in SUBSET Orders
      BY DEF BookInv, TxOK, Candidates
    <2>. QED BY <1>1, <2>1, EarliestIn
  <1>3. CASE standing[o] = "live"
    <2>1. Advance(i, {<<"purchase", o>>}, [tx[i] EXCEPT !.cand = {o}])
      BY <1>3 DEF LockPurchase
    <2>. QED BY <1>1, <1>2, <1>3, <2>1, LockPurchaseLive
  <1>4. CASE standing[o] # "live"
    <2>1. tx' = [tx EXCEPT ![i].cand = @ \ {o}]
      BY <1>4 DEF LockPurchase
    <2>. QED BY <1>1, <2>1, LockPurchaseGone
  <1>. QED BY <1>3, <1>4

\* No package, and the lesson goes unpaid.
LEMMA Unpaid ==
    ASSUME BookInv, NEW i \in Txns, At(i, "lockPurchase"), UNCHANGED committed,
           tx[i].cand = {}, tx' = [tx EXCEPT ![i].todo = <<"commit">>]
    PROVE  BookInv'
  <1> DEFINE t == tx[i]
  <1>1. PICK td : td = <<"commit">> /\ Becomes(i, td, t.held, t.cand, t.wcons)
    <2>1. PICK td : td = <<"commit">>
      OBVIOUS
    <2>2. tx' = [tx EXCEPT ![i] = [t EXCEPT !.todo = td]]
      BY <2>1
    <2>3. PICK z : z = t
      OBVIOUS
    <2>4. z = [job |-> z.job, todo |-> z.todo, held |-> z.held, cand |-> z.cand,
               wslot |-> z.wslot, wcons |-> z.wcons, wvoid |-> z.wvoid]
      BY <2>3 DEF BookInv, Shape
    <2>5. [z EXCEPT !.todo = td] = [job |-> z.job, todo |-> td, held |-> z.held, cand |-> z.cand,
               wslot |-> z.wslot, wcons |-> z.wcons, wvoid |-> z.wvoid]
      BY <2>4
    <2>. QED BY <2>1, <2>2, <2>3, <2>5 DEF Becomes
  <1>2. /\ tx'[i].job = t.job /\ tx'[i].todo = td /\ tx'[i].held = t.held
        /\ tx'[i].cand = t.cand /\ tx'[i].wslot = t.wslot
        /\ tx'[i].wcons = t.wcons /\ tx'[i].wvoid = t.wvoid
        /\ Kind(i)' = Kind(i)
        /\ \A k \in Txns \ {i} : tx'[k] = tx[k]
        /\ Shape'
    BY <1>1, BecomesFields DEF BookInv
  <1>3. TxOK(i) /\ Running(i) /\ Kind(i) \in Consumers /\ Left(i) = 3
    <2>1. TxOK(i)
      BY DEF BookInv
    <2>. QED BY <2>1, AtStage DEF TxOK, Position
  <1>4. td # <<>> /\ Len(td) = 1 /\ td \in ConsumeRests
    BY <1>1 DEF ConsumeRests
  <1>5. Running(i)' /\ Left(i)' = 1
    BY <1>2, <1>4 DEF Running, Left
  <1>6. ProgramOK(i)'
    <2>1. td \in Rests(Kind(i))
      BY <1>3, <1>4, ConsumeGoes
    <2>. QED BY <1>2, <1>3, <1>5, <2>1 DEF TxOK, ProgramOK
  <1>7. /\ Locked(i)' <=> Locked(i)
        /\ Updated(i)' <=> Updated(i)
        /\ Returned(i)' <=> Returned(i)
        /\ Inserted(i)' <=> Inserted(i)
        /\ Refunding(i, 2)' <=> Refunding(i, 2)
        /\ Kind(i) # "refund"
    BY <1>2, <1>3, <1>5 DEF Locked, AfterAdvisory, Updated, AfterUpdate, Returned,
       AfterRestore, Inserted, Consumers, Cancellers, Movers, Refunding
  <1>8. SlotWrites(i)' /\ LockedLearner(i)' = LockedLearner(i)
    BY <1>2, <1>3, <1>7, KeepSlots DEF TxOK
  <1>9. ConsWrites(i)'
    BY <1>2, <1>3, <1>7, KeepCons DEF TxOK
  <1>10. RefundWrites(i)'
    BY <1>2, <1>3, <1>7, KeepVoids DEF TxOK
  <1>11. Candidates(i)'
    <2>1. Locked(i)' => <<"advisory", LockedLearner(i)'>> \in tx'[i].held
      BY <1>2, <1>3, <1>7, <1>8 DEF TxOK, Candidates
    <2>. QED BY <1>2, <1>5, <2>1, NoCandidates
  <1>12. TxOK(i)'
    BY <1>6, <1>8, <1>9, <1>10, <1>11 DEF TxOK
  <1>13. \A k \in Txns \ {i} : tx'[i].held \cap tx[k].held = {}
    BY <1>2 DEF BookInv, LocksExclude
  <1>. QED BY <1>2, <1>3, <1>12, <1>13, OwnStep

\* No package.
LEMMA NoPackageStep ==
    ASSUME BookInv, NEW i \in Txns, NoPackage(i)
    PROVE  BookInv'
  BY RollbackStep, Unpaid DEF NoPackage

\* Whoever is about to pay for a lesson has its row, which has no unit yet.
LEMMA PaidRow ==
    ASSUME BookInv, NEW i \in Txns, Chosen(i)
    PROVE  /\ tx[i].job.new \in Slots /\ tx[i].job.new \in DOMAIN tx[i].wslot
           /\ <<"slot", tx[i].job.new>> \in tx[i].held
           /\ tx[i].wslot[tx[i].job.new] = [status |-> "booked", learner |-> LockedLearner(i)]
           /\ cons[tx[i].job.new] = NoCons
           /\ Kind(i) \in Cancellers /\ Updated(i) => tx[i].job.slot # tx[i].job.new
  <1> DEFINE t == tx[i]
             n == t.job.new
  <1>1. TxOK(i) /\ Running(i) /\ Kind(i) \in Consumers /\ Left(i) <= 2
    BY DEF BookInv, Chosen
  <1>2. t.job \in Jobs /\ Left(i) \in 1 .. 8
    BY <1>1, RunningStage DEF TxOK
  <1>3. n \in Slots
    BY <1>1, <1>2, JobFields DEF Kind
  <1>4. SlotWrites(i)
    BY <1>1 DEF TxOK
  <1>5. CASE Kind(i) = "book"
    <2>1. Updated(i) /\ n = t.job.slot
      BY <1>1, <1>2, <1>5, JobFields DEF Updated, AfterUpdate, Kind
    <2>2. slot[n].status = "open"
      BY <1>4, <1>5, <2>1 DEF SlotWrites, Matches, Kind
    <2>3. cons[n] = NoCons
      BY <1>3, <2>2 DEF BookInv, Committed
    <2>4. n \in DOMAIN t.wslot
      BY <1>3, <1>4, <2>1 DEF SlotWrites
    <2>5. LockedLearner(i) = t.job.learner
      BY <1>5 DEF LockedLearner, Kind
    <2>6. t.wslot[n] = [status |-> "booked", learner |-> t.job.learner]
      BY <1>4, <1>5, <2>1 DEF SlotWrites, Kind
    <2>7. Kind(i) \notin Cancellers
      BY <1>5 DEF Cancellers, Movers
    <2>8. <<"slot", n>> \in t.held
      BY <1>3, <1>4, <2>4 DEF SlotWrites
    <2>. QED BY <1>3, <2>3, <2>4, <2>5, <2>6, <2>7, <2>8
  <1>6. CASE Kind(i) \in Inserters
    <2>1. Inserted(i)
      BY <1>1, <1>2, <1>6 DEF Inserted
    <2>2. cons[n] = NoCons /\ (Updated(i) => n # t.job.slot)
      BY <1>1, <1>6, NewRow
    <2>3. n \in DOMAIN t.wslot
      BY <1>3, <1>4, <2>1 DEF SlotWrites
    <2>4. <<"slot", n>> \in t.held
      BY <1>3, <1>4, <2>3 DEF SlotWrites
    <2>. QED BY <1>3, <1>4, <2>1, <2>2, <2>3, <2>4 DEF SlotWrites
  <1>. QED BY <1>1, <1>5, <1>6 DEF Consumers, Inserters

\* Nobody else writes the unit of that lesson.
LEMMA PaidOnce ==
    ASSUME BookInv, NEW i \in Txns, Chosen(i), NEW k \in Txns \ {i}
    PROVE  <<"cons", tx[i].job.new>> \notin tx[k].held
  <1> DEFINE n == tx[i].job.new
  <1>1. n \in Slots /\ <<"slot", n>> \in tx[i].held /\ cons[n] = NoCons
    BY PaidRow
  <1>2. ASSUME <<"cons", n>> \in tx[k].held PROVE FALSE
    <2>1. n \in DOMAIN tx[k].wcons /\ (GivesBack(k, n) \/ Takes(k, n))
      BY <1>1, <1>2 DEF BookInv, TxOK, ConsWrites
    <2>2. ~GivesBack(k, n)
      BY <1>1 DEF GivesBack, InUnit, NoCons
    <2>3. Chosen(k) /\ tx[k].job.new = n
      BY <2>1, <2>2 DEF Takes
    <2>4. <<"slot", n>> \in tx[k].held
      BY <2>3, PaidRow
    <2>. QED BY <1>1, <2>4 DEF BookInv, LocksExclude
  <1>. QED BY <1>2

\* insert into package_consumptions.
LEMMA InsertUnitStep ==
    ASSUME BookInv, NEW i \in Txns, InsertUnit(i)
    PROVE  BookInv'
  <1> DEFINE t == tx[i]
             n == t.job.new
             r == {<<"cons", n>>}
             seen == ConsSeen(i)
             row == IF seen[n].order = NoOrder
                    THEN [order |-> Earliest(t.cand), restored |-> FALSE]
                    ELSE seen[n]
             wc == [u \in DOMAIN t.wcons \cup {n} |-> IF u = n THEN row ELSE t.wcons[u]]
  <1>1. At(i, "insertUnit") /\ UNCHANGED committed
    BY DEF InsertUnit
  <1>2. Went(i, r, t.cand, t.wslot, wc, t.wvoid)
    <2>1. Advance(i, r, [t EXCEPT !.wcons = wc]) /\ Shape
      BY DEF BookInv, InsertUnit
    <2>. QED BY <2>1, Done
  <1> HIDE DEF wc
  <1>3. /\ tx'[i].job = t.job /\ tx'[i].held = t.held \cup r
        /\ tx'[i].cand = t.cand /\ tx'[i].wslot = t.wslot
        /\ tx'[i].wcons = wc /\ tx'[i].wvoid = t.wvoid
        /\ Kind(i)' = Kind(i) /\ Left(i)' = Left(i) - 1
        /\ Left(i) \in 2 .. 8 /\ Position(Kind(i), "insertUnit", Left(i))
        /\ Running(i) /\ Running(i)'
    BY <1>1, <1>2, WentFields
  <1>4. TxOK(i) /\ cons' = cons /\ standing' = standing /\ DOMAIN cons = Slots
    BY <1>1 DEF BookInv, committed, Committed
  <1>5. /\ Locked(i)' <=> Locked(i)
        /\ Updated(i)' <=> Updated(i)
        /\ Returned(i)' <=> Returned(i)
        /\ Inserted(i)' <=> Inserted(i)
        /\ Picked(i)' <=> Picked(i)
        /\ Chosen(i)' <=> Chosen(i)
        /\ Refunding(i, 2)' <=> Refunding(i, 2)
    BY <1>3, Places
  <1>6. Kind(i) # "refund" /\ Left(i) = 2 /\ Chosen(i) /\ Picked(i) /\ Left(i)' = 1
    <2>1. Kind(i) \in Consumers /\ Left(i) = 2
      BY <1>3 DEF Position
    <2>. QED BY <1>3, <2>1 DEF Consumers, Movers, Chosen, Picked
  <1>7. PICK o \in Orders : /\ t.cand = {o}
                            /\ <<"purchase", o>> \in t.held
                            /\ standing[o] = "live"
    BY <1>4, <1>6 DEF TxOK, Candidates
  <1>8. /\ n \in Slots /\ cons[n] = NoCons
        /\ Kind(i) \in Cancellers /\ Updated(i) => t.job.slot # n
    BY <1>6, PaidRow
  <1>9. DOMAIN t.wcons \subseteq Slots /\ \A u \in DOMAIN t.wcons : GivesBack(i, u) /\ u # n
    <2>1. \A u \in DOMAIN t.wcons : GivesBack(i, u)
      BY <1>4, <1>6 DEF TxOK, ConsWrites, Takes
    <2>2. ~GivesBack(i, n)
      BY <1>8 DEF GivesBack, InUnit, NoCons
    <2>. QED BY <1>4, <2>1, <2>2 DEF TxOK, ConsWrites
  <1>10. row = [order |-> o, restored |-> FALSE]
    <2>1. seen[n] = NoCons
      BY <1>4, <1>8, <1>9 DEF ConsSeen, Overlay
    <2>2. Earliest(t.cand) = o
      BY <1>7, EarliestOnly
    <2>. QED BY <2>1, <2>2 DEF NoCons
  <1> HIDE DEF row
  <1>11. /\ DOMAIN wc = DOMAIN t.wcons \cup {n} /\ wc[n] = [order |-> o, restored |-> FALSE]
         /\ \A u \in DOMAIN t.wcons : wc[u] = t.wcons[u]
    BY <1>9, <1>10 DEF wc
  <1>12. \A u \in Slots : /\ <<"slot", u>> \in tx'[i].held <=> <<"slot", u>> \in t.held
                          /\ <<"cons", u>> \in tx'[i].held <=> u = n \/ <<"cons", u>> \in t.held
    BY <1>3
  <1>13. SlotWrites(i)' /\ LockedLearner(i)' = LockedLearner(i)
    BY <1>1, <1>3, <1>4, <1>5, <1>12, KeepSlots DEF TxOK
  <1>14. \A u \in Slots \ {n} : ConsSeen(i)'[u] = ConsSeen(i)[u]
    BY <1>3, <1>4, <1>11 DEF ConsSeen, Overlay
  <1>15. ConsWrites(i)'
    <2>1. \A u \in DOMAIN t.wcons : GivesBack(i, u)'
      BY <1>3, <1>4, <1>5, <1>9, <1>11 DEF GivesBack
    <2>2. Takes(i, n)'
      BY <1>3, <1>4, <1>5, <1>6, <1>7, <1>8, <1>11 DEF Takes
    <2>3. \A u \in Slots : <<"cons", u>> \in tx'[i].held <=> u \in DOMAIN wc
      BY <1>4, <1>11, <1>12 DEF TxOK, ConsWrites
    <2>4. Returned(i)' => ~InUnit(ConsSeen(i)[tx[i].job.slot])'
      <3>1. Returned(i) => /\ ~InUnit(ConsSeen(i)[t.job.slot])
                           /\ t.job.slot \in Slots /\ t.job.slot # n
        <4>1. SUFFICES ASSUME Returned(i) PROVE t.job.slot \in Slots /\ t.job.slot # n
          BY <1>4 DEF TxOK, ConsWrites
        <4>2. Kind(i) \in Movers
          BY <1>3, <1>6, <4>1 DEF Returned, Chosen, Consumers, Cancellers, Movers
        <4>3. Updated(i) /\ Kind(i) \in Cancellers
          BY <1>3, <1>6, <4>2 DEF Updated, Cancellers, Movers, AfterUpdate
        <4>4. t.job.slot \in Slots
          BY <1>4, <1>3, <4>3, RunningStage, JobFields DEF TxOK, Kind
        <4>. QED BY <1>8, <4>3, <4>4
      <3>. QED BY <1>3, <1>5, <1>14, <3>1 DEF InUnit
    <2>. QED BY <1>3, <1>8, <1>9, <1>11, <2>1, <2>2, <2>3, <2>4 DEF ConsWrites
  <1>16. RefundWrites(i)'
    BY <1>3, <1>4, <1>6, KeepVoids DEF TxOK
  <1>17. Candidates(i)'
    <2>1. /\ Owner[o] = LockedLearner(i)
          /\ Cardinality(ActiveRows(ConsSeen(i), o) \ {n}) < Count[o]
          /\ Locked(i) => <<"advisory", LockedLearner(i)>> \in t.held
      BY <1>4, <1>7 DEF TxOK, Candidates
    <2>2. (ActiveRows(ConsSeen(i), o) \ {n})' = ActiveRows(ConsSeen(i), o) \ {n}
      BY <1>3, <1>14 DEF ActiveRows
    <2>. QED BY <1>3, <1>4, <1>5, <1>6, <1>7, <1>13, <2>1, <2>2 DEF Candidates
  <1>18. \A k \in Txns \ {i} : r \cap tx[k].held = {}
    BY <1>6, PaidOnce
  <1>. QED BY <1>1, <1>2, <1>13, <1>15, <1>16, <1>17, <1>18, WentOn

-----------------------------------------------------------------------------
(* The statements of a refund.                                             *)

\* A refund locks no learner, writes no slot and has no candidates.
LEMMA RefundKeeps ==
    ASSUME BookInv, NEW i \in Txns, Kind(i) = "refund", UNCHANGED committed,
           tx'[i].job = tx[i].job, tx'[i].cand = tx[i].cand, tx'[i].wslot = tx[i].wslot,
           \A u \in Slots : <<"slot", u>> \in tx'[i].held <=> <<"slot", u>> \in tx[i].held
    PROVE  SlotWrites(i)' /\ Candidates(i)' /\ ~Updated(i)' /\ ~Returned(i)' /\ ~Returned(i)
  <1>1. TxOK(i) /\ Kind(i)' = Kind(i)
    BY DEF BookInv, Kind
  <1>2. /\ ~Locked(i)' /\ ~Updated(i)' /\ ~Returned(i)' /\ ~Inserted(i)' /\ ~Chosen(i)'
        /\ ~Updated(i) /\ ~Returned(i) /\ ~Inserted(i) /\ ~Picked(i)
    BY <1>1 DEF Locked, Updated, Returned, Inserted, Chosen, Picked, Consumers,
                Inserters, Cancellers, Movers
  <1>3. SlotWrites(i)'
    BY <1>1, <1>2, KeepSlots DEF TxOK
  <1>4. tx[i].cand = {}
    BY <1>1, <1>2, CandidatesLater DEF TxOK
  <1>5. Candidates(i)'
    BY <1>2, <1>4, NoCandidates
  <1>. QED BY <1>2, <1>3, <1>5

\* The lock on the allocation.
LEMMA AllocationStep ==
    ASSUME BookInv, NEW i \in Txns, Allocation(i)
    PROVE  BookInv'
  <1> DEFINE t == tx[i]
             o == t.job.order
             r == {<<"allocation", o>>}
  <1>1. At(i, "allocation") /\ CanLock(i, <<"allocation", o>>)
    BY DEF Allocation
  <1>2. CASE Rollback(i)
    BY <1>2, RollbackStep
  <1>3. CASE ~Rollback(i)
    <2>1. standing[o] = "live" /\ UNCHANGED committed /\ Advance(i, r, t)
      BY <1>3 DEF Allocation
    <2>2. Went(i, r, t.cand, t.wslot, t.wcons, t.wvoid)
      BY <2>1, Done DEF BookInv
    <2>3. /\ tx'[i].job = t.job /\ tx'[i].held = t.held \cup r
          /\ tx'[i].cand = t.cand /\ tx'[i].wslot = t.wslot
          /\ tx'[i].wcons = t.wcons /\ tx'[i].wvoid = t.wvoid
          /\ Kind(i)' = Kind(i) /\ Left(i)' = Left(i) - 1
          /\ Left(i) \in 2 .. 8 /\ Position(Kind(i), "allocation", Left(i))
          /\ Running(i) /\ Running(i)'
      BY <1>1, <2>2, WentFields
    <2>4. TxOK(i) /\ Kind(i) = "refund" /\ Left(i) = 4
      BY <2>3 DEF BookInv, Position
    <2>5. \A u \in Slots : /\ <<"slot", u>> \in tx'[i].held <=> <<"slot", u>> \in t.held
                           /\ <<"cons", u>> \in tx'[i].held <=> <<"cons", u>> \in t.held
      BY <2>3
    <2>6. SlotWrites(i)' /\ Candidates(i)' /\ ~Returned(i)'
      BY <2>1, <2>3, <2>4, <2>5, RefundKeeps
    <2>7. /\ ~Refunding(i, 2) /\ ~Refunding(i, 2)' /\ ~Refunding(i, 1)' /\ ~Updated(i)
      BY <2>3, <2>4 DEF Refunding, Updated, Cancellers, Movers
    <2>8. ConsWrites(i)'
      BY <2>1, <2>3, <2>4, <2>5, <2>6, <2>7, KeepCons DEF TxOK
    <2>9. RefundWrites(i)'
      BY <2>1, <2>3, <2>4, <2>7 DEF TxOK, RefundWrites, committed
    <2>10. \A k \in Txns \ {i} : r \cap tx[k].held = {}
      BY <1>1 DEF CanLock
    <2>. QED BY <1>1, <2>1, <2>2, <2>6, <2>8, <2>9, <2>10, WentOn
  <1>. QED BY <1>2, <1>3

\* The purchase is voided.
LEMMA VoidStep ==
    ASSUME BookInv, NEW i \in Txns, Void(i)
    PROVE  BookInv'
  <1> DEFINE t == tx[i]
             o == t.job.order
             r == {<<"purchase", o>>}
             wv == {o}
  <1>1. At(i, "void") /\ CanLock(i, <<"purchase", o>>) /\ UNCHANGED committed
    BY DEF Void
  <1>2. Went(i, r, t.cand, t.wslot, t.wcons, wv)
    <2>1. Advance(i, r, [t EXCEPT !.wvoid = wv]) /\ Shape
      BY DEF Void, BookInv
    <2>. QED BY <2>1, Done
  <1>3. /\ tx'[i].job = t.job /\ tx'[i].held = t.held \cup r
        /\ tx'[i].cand = t.cand /\ tx'[i].wslot = t.wslot
        /\ tx'[i].wcons = t.wcons /\ tx'[i].wvoid = wv
        /\ Kind(i)' = Kind(i) /\ Left(i)' = Left(i) - 1
        /\ Left(i) \in 2 .. 8 /\ Position(Kind(i), "void", Left(i))
        /\ Running(i) /\ Running(i)'
    BY <1>1, <1>2, WentFields
  <1>4. TxOK(i) /\ Kind(i) = "refund" /\ Left(i) = 3
    BY <1>3 DEF BookInv, Position
  <1>5. \A u \in Slots : /\ <<"slot", u>> \in tx'[i].held <=> <<"slot", u>> \in t.held
                         /\ <<"cons", u>> \in tx'[i].held <=> <<"cons", u>> \in t.held
    BY <1>3
  <1>6. SlotWrites(i)' /\ Candidates(i)' /\ ~Returned(i)'
    BY <1>1, <1>3, <1>4, <1>5, RefundKeeps
  <1>7. /\ ~Refunding(i, 2) /\ Refunding(i, 2)' /\ ~Refunding(i, 1)'
        /\ Refunding(i, 3) /\ ~Updated(i)
    BY <1>3, <1>4 DEF Refunding, Updated, Cancellers, Movers
  <1>8. ConsWrites(i)'
    BY <1>1, <1>3, <1>4, <1>5, <1>6, <1>7, KeepCons DEF TxOK
  <1>9. RefundWrites(i)'
    BY <1>1, <1>3, <1>4, <1>7 DEF TxOK, RefundWrites, committed
  <1>10. \A k \in Txns \ {i} : r \cap tx[k].held = {}
    BY <1>1 DEF CanLock
  <1>. QED BY <1>1, <1>2, <1>6, <1>8, <1>9, <1>10, WentOn

\* restoreAllConsumptionsForPurchase, when no unit is left in use.
LEMMA RestoreAllEnds ==
    ASSUME BookInv, NEW i \in Txns, At(i, "restoreAll"), UNCHANGED committed,
           ActiveRows(ConsSeen(i), tx[i].job.order) = {},
           NEW r, \A z : z \notin r, Advance(i, r, tx[i])
    PROVE  BookInv'
  <1> DEFINE t == tx[i]
             o == t.job.order
  <1>1. Went(i, r, t.cand, t.wslot, t.wcons, t.wvoid)
    BY Done DEF BookInv
  <1>2. /\ tx'[i].job = t.job /\ tx'[i].held = t.held \cup r
        /\ tx'[i].cand = t.cand /\ tx'[i].wslot = t.wslot
        /\ tx'[i].wcons = t.wcons /\ tx'[i].wvoid = t.wvoid
        /\ Kind(i)' = Kind(i) /\ Left(i)' = Left(i) - 1
        /\ Left(i) \in 2 .. 8 /\ Position(Kind(i), "restoreAll", Left(i))
        /\ Running(i) /\ Running(i)'
    BY <1>1, WentFields
  <1>3. TxOK(i) /\ Kind(i) = "refund" /\ Left(i) = 2 /\ tx'[i].held = t.held
    BY <1>2 DEF BookInv, Position
  <1>4. SlotWrites(i)' /\ Candidates(i)' /\ ~Returned(i)'
    BY <1>2, <1>3, RefundKeeps
  <1>5. Refunding(i, 2) /\ Refunding(i, 2)' /\ Refunding(i, 3) /\ ~Updated(i)
    BY <1>2, <1>3 DEF Refunding, Updated, Cancellers, Movers
  <1>6. ConsWrites(i)' /\ ConsSeen(i)' = ConsSeen(i)
    BY <1>2, <1>3, <1>4, <1>5, KeepCons DEF TxOK
  <1>7. RefundWrites(i)'
    <2>1. ActiveRows(ConsSeen(i), tx[i].job.order)' = {}
      BY <1>2, <1>6 DEF ActiveRows
    <2>. QED BY <1>2, <1>3, <1>5, <2>1 DEF TxOK, RefundWrites, committed
  <1>. QED BY <1>1, <1>4, <1>6, <1>7, WentOn

\* The locks and the units.
LEMMA HeldAndCons ==
    ASSUME NEW x, NEW y, NEW z, Plain(z)
    PROVE  [z EXCEPT !.held = x, !.wcons = y]
             = [job |-> z.job, todo |-> z.todo, held |-> x, cand |-> z.cand,
                wslot |-> z.wslot, wcons |-> y, wvoid |-> z.wvoid]
  <1> DEFINE w == [z EXCEPT !.held = x]
  <1>1. w = [job |-> z.job, todo |-> z.todo, held |-> x, cand |-> z.cand,
             wslot |-> z.wslot, wcons |-> z.wcons, wvoid |-> z.wvoid]
    BY DEF Plain
  <1>2. /\ w.job = z.job /\ w.todo = z.todo /\ w.held = x /\ w.cand = z.cand
        /\ w.wslot = z.wslot /\ w.wvoid = z.wvoid
    BY <1>1
  <1>3. Plain(w)
    BY <1>1 DEF Plain
  <1>4. [z EXCEPT !.held = x, !.wcons = y] = [w EXCEPT !.wcons = y]
    OBVIOUS
  <1> HIDE DEF w
  <1>5. [w EXCEPT !.wcons = y]
          = [job |-> w.job, todo |-> w.todo, held |-> w.held, cand |-> w.cand,
             wslot |-> w.wslot, wcons |-> y, wvoid |-> w.wvoid]
    BY <1>3 DEF Plain
  <1>. QED BY <1>2, <1>4, <1>5

\* A row of restoreAllConsumptionsForPurchase changes the locks and the units.
LEMMA RowRestored ==
    ASSUME BookInv, NEW i \in Txns, NEW s,
           tx' = [tx EXCEPT ![i].held = @ \cup {<<"cons", s>>},
                            ![i].wcons = [x \in DOMAIN @ \cup {s} |->
                               IF x = s THEN [cons[s] EXCEPT !.restored = TRUE]
                                        ELSE @[x]]]
    PROVE  Becomes(i, tx[i].todo, tx[i].held \cup {<<"cons", s>>}, tx[i].cand,
                   [x \in DOMAIN tx[i].wcons \cup {s} |->
                      IF x = s THEN [cons[s] EXCEPT !.restored = TRUE] ELSE tx[i].wcons[x]])
  <1> DEFINE t == tx[i]
             h == t.held \cup {<<"cons", s>>}
             wc == [x \in DOMAIN t.wcons \cup {s} |->
                      IF x = s THEN [cons[s] EXCEPT !.restored = TRUE] ELSE t.wcons[x]]
  <1>1. tx' = [tx EXCEPT ![i] = [t EXCEPT !.held = h, !.wcons = wc]]
    BY DEF BookInv, Shape
  <1>2. Plain(t)
    BY DEF BookInv, Shape, Plain
  <1> HIDE DEF h, wc
  <1>3. [t EXCEPT !.held = h, !.wcons = wc]
          = [job |-> t.job, todo |-> t.todo, held |-> h, cand |-> t.cand,
             wslot |-> t.wslot, wcons |-> wc, wvoid |-> t.wvoid]
    <2>1. PICK z : z = t
      OBVIOUS
    <2>2. Plain(z)
      BY <1>2, <2>1
    <2>3. [z EXCEPT !.held = h, !.wcons = wc]
            = [job |-> z.job, todo |-> z.todo, held |-> h, cand |-> z.cand,
               wslot |-> z.wslot, wcons |-> wc, wvoid |-> z.wvoid]
      BY <2>2, HeldAndCons, Zenon
    <2>. QED BY <2>1, <2>3
  <1>4. Becomes(i, t.todo, h, t.cand, wc)
    BY <1>1, <1>3 DEF Becomes
  <1>. QED BY SMTT(30), <1>4 DEF h, wc

\* restoreAllConsumptionsForPurchase, one row.
LEMMA RestoreAllRow ==
    ASSUME BookInv, NEW i \in Txns, At(i, "restoreAll"), UNCHANGED committed,
           NEW s \in ActiveRows(ConsSeen(i), tx[i].job.order), CanLock(i, <<"cons", s>>),
           NEW h, h = tx[i].held \cup {<<"cons", s>>},
           NEW wc, wc = [x \in DOMAIN tx[i].wcons \cup {s} |->
                           IF x = s THEN [cons[s] EXCEPT !.restored = TRUE]
                           ELSE tx[i].wcons[x]],
           Becomes(i, tx[i].todo, h, tx[i].cand, wc)
    PROVE  BookInv'
  <1> DEFINE t == tx[i]
             o == t.job.order
  <1>2. /\ tx'[i].job = t.job /\ tx'[i].todo = t.todo /\ tx'[i].held = h
        /\ tx'[i].cand = t.cand /\ tx'[i].wslot = t.wslot
        /\ tx'[i].wcons = wc /\ tx'[i].wvoid = t.wvoid
        /\ \A k \in Txns \ {i} : tx'[k] = tx[k]
        /\ Shape'
    BY BecomesFields DEF BookInv
  <1>3. TxOK(i) /\ Running(i) /\ Kind(i) = "refund" /\ Left(i) = 2
    <2>1. TxOK(i)
      BY DEF BookInv
    <2>. QED BY <2>1, AtStage DEF TxOK, Position
  <1>4. /\ Kind(i)' = Kind(i) /\ Left(i)' = Left(i)
        /\ Running(i)' <=> Running(i)
        /\ Refunding(i, 1)' <=> Refunding(i, 1)
        /\ Refunding(i, 2)' <=> Refunding(i, 2)
        /\ Refunding(i, 3)' <=> Refunding(i, 3)
    BY <1>2, SamePlace
  <1>5. \A u \in Slots : /\ <<"slot", u>> \in tx'[i].held <=> <<"slot", u>> \in t.held
                         /\ <<"cons", u>> \in tx'[i].held <=> u = s \/ <<"cons", u>> \in t.held
    BY <1>2
  <1>6. SlotWrites(i)' /\ Candidates(i)' /\ ~Returned(i)'
    BY <1>2, <1>3, <1>5, RefundKeeps
  <1>7. Refunding(i, 2) /\ ~Refunding(i, 1) /\ ~Updated(i) /\ ~Chosen(i)
    BY <1>3 DEF Refunding, Updated, Chosen, Consumers, Cancellers, Movers
  <1>8. ProgramOK(i)'
    BY <1>2, <1>3, <1>4 DEF TxOK, ProgramOK
  <1>9. cons' = cons /\ cons \in [Slots -> [order : Orders \cup {NoOrder}, restored : BOOLEAN]]
    BY DEF BookInv, Committed, committed
  <1>10. /\ DOMAIN t.wcons \subseteq Slots
         /\ \A u \in DOMAIN t.wcons : GivesBack(i, u) /\ t.wcons[u].restored
    <2>1. DOMAIN t.wcons \subseteq Slots /\ \A u \in DOMAIN t.wcons : GivesBack(i, u)
      BY <1>3, <1>7 DEF TxOK, ConsWrites, Takes
    <2>. QED BY <1>9, <2>1 DEF GivesBack
  <1>11. /\ s \in Slots /\ s \notin DOMAIN t.wcons /\ cons[s].order = o /\ InUnit(cons[s])
    <2>1. s \in Slots /\ ConsSeen(i)[s].order = o /\ ~ConsSeen(i)[s].restored
      BY DEF ActiveRows
    <2>2. s \notin DOMAIN t.wcons /\ ConsSeen(i)[s] = cons[s]
      BY <1>9, <1>10, <2>1 DEF ConsSeen, Overlay
    <2>3. t.job \in Jobs
      BY <1>3, RunningStage DEF TxOK
    <2>4. o \in Orders /\ o # NoOrder
      BY <1>3, <2>3, JobFields, TxAssumption DEF Kind
    <2>. QED BY <2>1, <2>2, <2>4 DEF InUnit
  <1>12. /\ DOMAIN wc = DOMAIN t.wcons \cup {s}
         /\ wc[s] = [cons[s] EXCEPT !.restored = TRUE]
         /\ \A u \in DOMAIN t.wcons : wc[u] = t.wcons[u]
    BY <1>11
  <1>13. ConsWrites(i)'
    <2>1. \A u \in DOMAIN t.wcons : GivesBack(i, u)'
      BY <1>2, <1>4, <1>7, <1>9, <1>10, <1>12 DEF GivesBack
    <2>2. GivesBack(i, s)'
      BY <1>2, <1>4, <1>7, <1>9, <1>11, <1>12 DEF GivesBack
    <2>3. \A u \in Slots : <<"cons", u>> \in tx'[i].held <=> u \in DOMAIN wc
      BY <1>3, <1>5, <1>12 DEF TxOK, ConsWrites
    <2>4. DOMAIN wc \subseteq Slots
      BY <1>10, <1>11, <1>12
    <2>5. \A u \in DOMAIN wc : GivesBack(i, u)'
      BY <1>12, <2>1, <2>2
    <2>. QED BY <1>2, <1>6, <2>3, <2>4, <2>5 DEF ConsWrites
  <1>14. RefundWrites(i)'
    BY <1>2, <1>3, <1>4, <1>7 DEF TxOK, RefundWrites, committed
  <1>15. TxOK(i)'
    BY <1>6, <1>8, <1>13, <1>14 DEF TxOK
  <1>16. \A k \in Txns \ {i} : tx'[i].held \cap tx[k].held = {}
    <2>1. \A z \in {<<"cons", s>>} : CanLock(i, z)
      OBVIOUS
    <2>2. \A k \in Txns \ {i} : h \cap tx[k].held = {}
      BY <2>1, TakeLock
    <2>. QED BY <1>2, <2>2
  <1>. QED BY <1>2, <1>3, <1>15, <1>16, OwnStep

\* restoreAllConsumptionsForPurchase.
LEMMA RestoreAllStep ==
    ASSUME BookInv, NEW i \in Txns, RestoreAll(i)
    PROVE  BookInv'
  <1>1. At(i, "restoreAll") /\ UNCHANGED committed
    BY DEF RestoreAll
  <1>2. CASE ActiveRows(ConsSeen(i), tx[i].job.order) = {}
    <2>1. \E r : r = {} /\ Advance(i, r, tx[i])
      BY <1>2 DEF RestoreAll
    <2>2. PICK r : (\A z : z \notin r) /\ Advance(i, r, tx[i])
      BY <2>1
    <2>. QED BY <1>1, <1>2, <2>2, RestoreAllEnds
  <1>3. CASE ActiveRows(ConsSeen(i), tx[i].job.order) # {}
    <2>1. PICK s \in ActiveRows(ConsSeen(i), tx[i].job.order) :
             /\ CanLock(i, <<"cons", s>>)
             /\ tx' = [tx EXCEPT ![i].held = @ \cup {<<"cons", s>>},
                                 ![i].wcons = [x \in DOMAIN @ \cup {s} |->
                                    IF x = s THEN [cons[s] EXCEPT !.restored = TRUE]
                                             ELSE @[x]]]
      BY <1>3 DEF RestoreAll
    <2> DEFINE h == tx[i].held \cup {<<"cons", s>>}
               wc == [x \in DOMAIN tx[i].wcons \cup {s} |->
                        IF x = s THEN [cons[s] EXCEPT !.restored = TRUE]
                        ELSE tx[i].wcons[x]]
    <2>2. Becomes(i, tx[i].todo, h, tx[i].cand, wc)
      BY <2>1, RowRestored
    <2>. QED BY <1>1, <2>1, <2>2, RestoreAllRow
  <1>. QED BY <1>2, <1>3

-----------------------------------------------------------------------------
(* Requests arrive, purchases are granted.                                 *)

\* A program has its whole length to go.
LEMMA ProgramStarts ==
    ASSUME NEW k \in Kinds
    PROVE  /\ Program(k) \in Rests(k) /\ Program(k) # <<>>
           /\ k \in {"book", "assign"} => Len(Program(k)) = 6
           /\ k \in Movers => Len(Program(k)) = 8
           /\ k = "cancel" => Len(Program(k)) = 3
           /\ k = "refund" => Len(Program(k)) = 4
  <1>1. CASE k = "book"
    <2>1. Program(k) = BookSlotTx
      BY <1>1 DEF Program
    <2>. QED BY <1>1, <2>1 DEF Rests, BookSlotTx, Movers
  <1>2. CASE k = "assign"
    <2>1. Program(k) = AssignSlotDirectTx
      BY <1>2 DEF Program
    <2>. QED BY <1>2, <2>1 DEF Rests, AssignSlotDirectTx, Movers
  <1>3. CASE k = "rescheduleByLearner"
    <2>1. Program(k) = RescheduleByLearnerTx
      BY <1>3 DEF Program
    <2>. QED BY <1>3, <2>1 DEF Rests, RescheduleByLearnerTx, Movers
  <1>4. CASE k = "rescheduleByTeacher"
    <2>1. Program(k) = RescheduleByTeacherTx
      BY <1>4 DEF Program
    <2>. QED BY <1>4, <2>1 DEF Rests, RescheduleByTeacherTx, Movers
  <1>5. CASE k = "cancel"
    <2>1. Program(k) = CancelTx
      BY <1>5 DEF Program
    <2>. QED BY <1>5, <2>1 DEF Rests, CancelTx, Movers
  <1>6. CASE k = "refund"
    <2>1. Program(k) = RefundTx
      BY <1>6 DEF Program
    <2>. QED BY <1>6, <2>1 DEF Rests, RefundTx, Movers
  <1>. QED BY <1>1, <1>2, <1>3, <1>4, <1>5, <1>6 DEF Kinds, Consumers, Movers

\* The request and what is left of it.
LEMMA JobAndTodo ==
    ASSUME NEW x, NEW y, NEW z, Plain(z)
    PROVE  [z EXCEPT !.job = x, !.todo = y]
             = [job |-> x, todo |-> y, held |-> z.held, cand |-> z.cand,
                wslot |-> z.wslot, wcons |-> z.wcons, wvoid |-> z.wvoid]
  <1> DEFINE w == [z EXCEPT !.job = x]
  <1>1. w = [job |-> x, todo |-> z.todo, held |-> z.held, cand |-> z.cand,
             wslot |-> z.wslot, wcons |-> z.wcons, wvoid |-> z.wvoid]
    BY DEF Plain
  <1>2. /\ w.job = x /\ w.held = z.held /\ w.cand = z.cand
        /\ w.wslot = z.wslot /\ w.wcons = z.wcons /\ w.wvoid = z.wvoid
    BY <1>1
  <1>3. Plain(w)
    BY <1>1 DEF Plain
  <1>4. [z EXCEPT !.job = x, !.todo = y] = [w EXCEPT !.todo = y]
    OBVIOUS
  <1> HIDE DEF w
  <1>5. [w EXCEPT !.todo = y]
          = [job |-> w.job, todo |-> y, held |-> w.held, cand |-> w.cand,
             wslot |-> w.wslot, wcons |-> w.wcons, wvoid |-> w.wvoid]
    BY <1>3 DEF Plain
  <1>. QED BY <1>2, <1>4, <1>5

\* A request arrives.
LEMMA BeginStep ==
    ASSUME BookInv, NEW i \in Txns, NEW j \in Requests, Begin(i, j)
    PROVE  BookInv'
  <1> DEFINE p == Program(j.kind)
             rec == [job |-> j, todo |-> p, held |-> {}, cand |-> {},
                     wslot |-> <<>>, wcons |-> <<>>, wvoid |-> {}]
  <1>1. j \in Jobs /\ j.kind \in Kinds
    BY RequestsAssumption, JobFields
  <1>2. tx' = [tx EXCEPT ![i] = rec] /\ DOMAIN tx = Txns /\ UNCHANGED committed
    <2>1. [Idle EXCEPT !.job = j, !.todo = p] = rec
      <3>1. Plain(Idle)
        BY DEF Plain, Idle
      <3>2. [Idle EXCEPT !.job = j, !.todo = p]
              = [job |-> j, todo |-> p, held |-> Idle.held, cand |-> Idle.cand,
                 wslot |-> Idle.wslot, wcons |-> Idle.wcons, wvoid |-> Idle.wvoid]
        BY <3>1, JobAndTodo, Zenon
      <3>3. /\ Idle.held = {} /\ Idle.cand = {} /\ Idle.wslot = <<>>
            /\ Idle.wcons = <<>> /\ Idle.wvoid = {}
        BY DEF Idle
      <3>. QED BY <3>2, <3>3
    <2>. QED BY <2>1 DEF Begin, BookInv, Shape
  <1>3. tx'[i] = rec /\ \A k \in Txns \ {i} : tx'[k] = tx[k]
    BY <1>2
  <1>4. Shape'
    <2>1. tx' = [k \in Txns |-> IF k = i THEN rec ELSE tx[k]]
      BY <1>2
    <2>. QED BY <1>3, <2>1 DEF BookInv, Shape
  <1> HIDE DEF p
  <1>5. /\ tx'[i].job = j /\ tx'[i].todo = p /\ tx'[i].held = {} /\ tx'[i].cand = {}
        /\ DOMAIN tx'[i].wslot = {} /\ DOMAIN tx'[i].wcons = {} /\ tx'[i].wvoid = {}
    BY <1>3
  <1>6. /\ p \in Rests(j.kind) /\ p # <<>>
        /\ j.kind \in {"book", "assign"} => Len(p) = 6
        /\ j.kind \in Movers => Len(p) = 8
        /\ j.kind = "cancel" => Len(p) = 3
        /\ j.kind = "refund" => Len(p) = 4
    BY <1>1, ProgramStarts DEF p
  <1>7. Kind(i)' = j.kind /\ Left(i)' = Len(p) /\ Running(i)'
    BY <1>5, <1>6 DEF Kind, Left, Running
  <1>8. ProgramOK(i)'
    BY <1>1, <1>5, <1>6, <1>7 DEF ProgramOK
  <1>9. /\ ~Locked(i)' /\ ~Updated(i)' /\ ~Returned(i)' /\ ~Inserted(i)' /\ ~Chosen(i)'
        /\ ~Refunding(i, 1)' /\ ~Refunding(i, 2)' /\ ~Refunding(i, 3)'
    <2>0. \/ Kind(i)' = "book" /\ Left(i)' = 6
          \/ Kind(i)' = "assign" /\ Left(i)' = 6
          \/ Kind(i)' = "rescheduleByLearner" /\ Left(i)' = 8
          \/ Kind(i)' = "rescheduleByTeacher" /\ Left(i)' = 8
          \/ Kind(i)' = "cancel" /\ Left(i)' = 3
          \/ Kind(i)' = "refund" /\ Left(i)' = 4
      BY <1>1, <1>6, <1>7, Zenon DEF Kinds, Consumers, Movers
    <2>1. ~Locked(i)'
      BY <2>0 DEF Locked, AfterAdvisory, Consumers, Movers
    <2>2. ~Updated(i)'
      BY <2>0 DEF Updated, AfterUpdate, Cancellers, Movers
    <2>3. ~Returned(i)'
      BY <2>0 DEF Returned, AfterRestore, Cancellers, Movers
    <2>4. ~Inserted(i)' /\ ~Chosen(i)'
      BY <2>0 DEF Inserted, Chosen, Inserters, Consumers, Movers
    <2>5. ~Refunding(i, 1)' /\ ~Refunding(i, 2)' /\ ~Refunding(i, 3)'
      BY <2>0 DEF Refunding
    <2>. QED BY <2>1, <2>2, <2>3, <2>4, <2>5
  <1>10. SlotWrites(i)'
    BY <1>5, <1>9 DEF SlotWrites
  <1>11. ConsWrites(i)'
    BY <1>5, <1>9 DEF ConsWrites
  <1>12. Candidates(i)'
    BY <1>5, <1>9, NoCandidates
  <1>13. RefundWrites(i)'
    BY <1>5, <1>9 DEF RefundWrites
  <1>14. \A k \in Txns : TxOK(k)'
    <2>1. TxOK(i)'
      BY <1>8, <1>10, <1>11, <1>12, <1>13 DEF TxOK
    <2>2. \A k \in Txns \ {i} : TxOK(k)'
      BY <1>2, <1>3, Bystander DEF BookInv
    <2>. QED BY <2>1, <2>2
  <1>15. Committed' /\ UnitsBackBookings'
    BY <1>2 DEF BookInv, Committed, UnitsBackBookings, committed
  <1>16. LocksExclude'
    BY <1>3, <1>5 DEF BookInv, LocksExclude
  <1>17. FreshRows'
    <2>1. tx[i].job.new = NoSlot
      <3>1. tx[i].job.kind = "none" /\ tx[i].job \in Jobs \cup {Idle.job}
        BY DEF Begin, BookInv, TxOK, ProgramOK
      <3>2. tx[i].job \notin Jobs
        BY <3>1, JobFields DEF Kinds, Consumers, Movers
      <3>3. tx[i].job = Idle.job
        BY <3>1, <3>2
      <3>. QED BY <3>3 DEF Idle, Job
    <2>2. \A k \in Txns \ {i} : tx'[k].job = tx[k].job /\ (Running(k)' <=> Running(k))
      BY <1>3 DEF Running
    <2>3. j.new \in Slots \ Published => \A k \in Txns : tx[k].job.new # j.new
      BY DEF Begin
    <2>4. ASSUME NEW n \in Slots \ Published
          PROVE  /\ \A k, m \in Txns : tx'[k].job.new = n /\ tx'[m].job.new = n => k = m
                 /\ (\A k \in Txns : tx'[k].job.new = n => Running(k)') => slot[n].status = "absent"
      <3>1. tx[i].job.new # n
        BY <2>1, TxAssumption
      <3>2. /\ \A k, m \in Txns : tx[k].job.new = n /\ tx[m].job.new = n => k = m
            /\ (\A k \in Txns : tx[k].job.new = n => Running(k)) => slot[n].status = "absent"
        BY <2>4 DEF BookInv, FreshRows
      <3>3. j.new = n => \A k \in Txns : tx[k].job.new # n
        BY <2>3
      <3>. QED BY <1>5, <2>2, <3>1, <3>2, <3>3
    <2>5. slot' = slot
      BY <1>2 DEF committed
    <2>. QED BY <2>4, <2>5 DEF FreshRows
  <1>. QED BY <1>4, <1>14, <1>15, <1>16, <1>17 DEF BookInv

\* A purchase is granted.
LEMMA GrantStep ==
    ASSUME BookInv, NEW o \in Orders, Grant(o)
    PROVE  BookInv'
  <1>1. /\ standing \in [Orders -> {"none", "live", "voided"}]
        /\ standing' = [standing EXCEPT ![o] = "live"] /\ slot' = slot /\ cons' = cons
        /\ tx' = tx
    BY DEF BookInv, Committed, Grant
  <1>2. \A q \in Orders : standing[q] = "live" => standing'[q] = "live"
    BY <1>1
  <1>3. Committed'
    BY <1>1 DEF BookInv, Committed
  <1>4. UnitsBackBookings'
    <2>1. \A s \in Slots : InUnit(cons[s]) => cons[s].order \in Orders
      BY DEF BookInv, Committed, InUnit
    <2>. QED BY <1>1, <1>2, <2>1 DEF BookInv, UnitsBackBookings, InUnit
  <1>5. Shape' /\ LocksExclude' /\ FreshRows'
    BY <1>1 DEF BookInv, Shape, LocksExclude, FreshRows, Running
  <1>6. ASSUME NEW k \in Txns PROVE TxOK(k)'
    <2>1. /\ Kind(k)' = Kind(k) /\ Left(k)' = Left(k) /\ (Running(k)' <=> Running(k))
          /\ SlotsSeen(k)' = SlotsSeen(k) /\ ConsSeen(k)' = ConsSeen(k) /\ TxOK(k)
      BY <1>1 DEF Kind, Left, Running, SlotsSeen, ConsSeen, Overlay, BookInv
    <2>2. LockedLearner(k)' = LockedLearner(k) /\ (Matches(k)' <=> Matches(k))
      BY <1>1, <2>1 DEF LockedLearner, Matches, Kind
    <2>3. /\ Locked(k)' <=> Locked(k)
          /\ Updated(k)' <=> Updated(k)
          /\ Returned(k)' <=> Returned(k)
          /\ Inserted(k)' <=> Inserted(k)
          /\ Picked(k)' <=> Picked(k)
          /\ Chosen(k)' <=> Chosen(k)
          /\ Refunding(k, 1)' <=> Refunding(k, 1)
          /\ Refunding(k, 2)' <=> Refunding(k, 2)
          /\ Refunding(k, 3)' <=> Refunding(k, 3)
      BY <1>1, SamePlace
    <2>4. ProgramOK(k)'
      BY <1>1, <2>1 DEF TxOK, ProgramOK
    <2>5. SlotWrites(k)'
      BY <1>1, <2>1, <2>2, <2>3 DEF TxOK, SlotWrites
    <2>6. \A s : /\ GivesBack(k, s)' <=> GivesBack(k, s)
                 /\ Takes(k, s)' <=> Takes(k, s)
      BY <1>1, <2>1, <2>3 DEF GivesBack, Takes
    <2>7. ConsWrites(k)'
      BY <1>1, <2>1, <2>3, <2>6 DEF TxOK, ConsWrites
    <2>8. Candidates(k)'
      BY <1>1, <1>2, <2>1, <2>2, <2>3 DEF TxOK, Candidates, ActiveRows
    <2>9. RefundWrites(k)'
      <3>1. Refunding(k, 3) => tx[k].job.order \in Orders
        BY <2>1, RunningStage, JobFields DEF Refunding, TxOK, Kind
      <3>. QED BY <1>1, <1>2, <2>1, <2>3, <3>1 DEF TxOK, RefundWrites, ActiveRows
    <2>. QED BY <2>4, <2>5, <2>7, <2>8, <2>9 DEF TxOK
  <1>. QED BY <1>3, <1>4, <1>5, <1>6 DEF BookInv

-----------------------------------------------------------------------------
(* Commit.                                                                 *)

\* What a commit writes, and what it leaves of the transaction.
LEMMA CommitRows ==
    ASSUME BookInv, NEW i \in Txns, Commit(i)
    PROVE  /\ Running(i) /\ Left(i) = 1 /\ Kind(i) \in Kinds /\ tx[i].job \in Jobs
           /\ \A k \in Txns \ {i} : tx'[k] = tx[k]
           /\ tx'[i].job = tx[i].job /\ tx'[i] = [Idle EXCEPT !.job = tx[i].job]
           /\ Shape'
           /\ slot' = [s \in Slots |-> IF s \in DOMAIN tx[i].wslot THEN tx[i].wslot[s] ELSE slot[s]]
           /\ cons' = [s \in Slots |-> IF s \in DOMAIN tx[i].wcons THEN tx[i].wcons[s] ELSE cons[s]]
           /\ standing' = [o \in Orders |-> IF o \in tx[i].wvoid THEN "voided" ELSE standing[o]]
  <1> DEFINE rec == [Idle EXCEPT !.job = tx[i].job]
  <1>1. rec = [job |-> tx[i].job, todo |-> <<>>, held |-> {}, cand |-> {},
               wslot |-> <<>>, wcons |-> <<>>, wvoid |-> {}]
    BY ResetFields DEF Idle
  <1>2. tx' = [tx EXCEPT ![i] = rec] /\ DOMAIN tx = Txns
    BY DEF Commit, BookInv, Shape
  <1>3. tx'[i] = rec /\ \A k \in Txns \ {i} : tx'[k] = tx[k]
    BY <1>2
  <1>4. Shape'
    <2>1. tx' = [k \in Txns |-> IF k = i THEN rec ELSE tx[k]]
      BY <1>2
    <2>. QED BY <1>1, <1>3, <2>1 DEF BookInv, Shape
  <1>5. tx'[i].job = tx[i].job
    BY <1>1, <1>3
  <1>6. At(i, "commit") /\ ProgramOK(i)
    BY DEF Commit, BookInv, TxOK
  <1>7. Running(i) /\ Left(i) = 1 /\ Kind(i) \in Kinds /\ tx[i].job \in Jobs
    BY <1>6, AtStage DEF Position
  <1>8. DOMAIN slot = Slots /\ DOMAIN cons = Slots
    BY DEF BookInv, Committed
  <1>9. /\ slot' = [s \in Slots |-> IF s \in DOMAIN tx[i].wslot THEN tx[i].wslot[s] ELSE slot[s]]
        /\ cons' = [s \in Slots |-> IF s \in DOMAIN tx[i].wcons THEN tx[i].wcons[s] ELSE cons[s]]
    BY <1>8 DEF Commit, SlotsSeen, ConsSeen, Overlay
  <1>10. standing' = [o \in Orders |-> IF o \in tx[i].wvoid THEN "voided" ELSE standing[o]]
    BY DEF Commit
  <1>. QED BY <1>3, <1>4, <1>5, <1>7, <1>9, <1>10

\* What the end of its program says of a transaction.
LEMMA AtEnd ==
    ASSUME BookInv, NEW i \in Txns, Running(i), Left(i) = 1, Kind(i) \in Kinds
    PROVE  /\ Updated(i) <=> Kind(i) \in {"book"} \cup Cancellers
           /\ Returned(i) <=> Kind(i) \in Cancellers
           /\ Inserted(i) <=> Kind(i) \in Inserters
           /\ Chosen(i) <=> Kind(i) \in Consumers
           /\ Locked(i) <=> Kind(i) \in Consumers
           /\ Refunding(i, 1) <=> Kind(i) = "refund"
           /\ Refunding(i, 2) <=> Kind(i) = "refund"
           /\ Refunding(i, 3) <=> Kind(i) = "refund"
  <1> USE DEF Kinds, Consumers, Inserters, Cancellers, Movers
  <1>1. Updated(i) <=> Kind(i) \in {"book"} \cup Cancellers
    BY DEF Updated, AfterUpdate
  <1>2. Returned(i) <=> Kind(i) \in Cancellers
    BY DEF Returned, AfterRestore
  <1>3. Locked(i) <=> Kind(i) \in Consumers
    BY DEF Locked, AfterAdvisory
  <1>4. /\ Inserted(i) <=> Kind(i) \in Inserters
        /\ Chosen(i) <=> Kind(i) \in Consumers
        /\ Refunding(i, 1) <=> Kind(i) = "refund"
        /\ Refunding(i, 2) <=> Kind(i) = "refund"
        /\ Refunding(i, 3) <=> Kind(i) = "refund"
    BY DEF Inserted, Chosen, Refunding
  <1>. QED BY <1>1, <1>2, <1>3, <1>4

\* What becomes of a row of lesson_slots when a transaction commits.
SlotStays(i, s) == s \notin DOMAIN tx[i].wslot /\ slot'[s] = slot[s]
SlotBooked(i, s) ==
    /\ Kind(i) = "book" /\ s = tx[i].job.slot /\ s = tx[i].job.new
    /\ slot[s].status = "open"
    /\ slot'[s] = [status |-> "booked", learner |-> LockedLearner(i)]
SlotCancelled(i, s) ==
    /\ Kind(i) \in Cancellers /\ s = tx[i].job.slot
    /\ slot[s].status \in {"open", "booked"}
    /\ slot'[s] = [slot[s] EXCEPT !.status = "cancelled"]
SlotInserted(i, s) ==
    /\ Kind(i) \in Inserters /\ s = tx[i].job.new
    /\ slot[s].status = "absent"
    /\ slot'[s] = [status |-> "booked", learner |-> LockedLearner(i)]

\* These are the ways.
LEMMA SlotFate ==
    ASSUME BookInv, NEW i \in Txns, Commit(i), NEW s \in Slots
    PROVE  \/ SlotStays(i, s) \/ SlotBooked(i, s)
           \/ SlotCancelled(i, s) \/ SlotInserted(i, s)
  <1> DEFINE t == tx[i]
  <1>1. /\ Running(i) /\ Left(i) = 1 /\ Kind(i) \in Kinds /\ t.job \in Jobs
        /\ slot' = [u \in Slots |-> IF u \in DOMAIN t.wslot THEN t.wslot[u] ELSE slot[u]]
    BY CommitRows
  <1>2. /\ Updated(i) <=> Kind(i) \in {"book"} \cup Cancellers
        /\ Inserted(i) <=> Kind(i) \in Inserters
    BY <1>1, AtEnd
  <1>3. SlotWrites(i)
    BY DEF BookInv, TxOK
  <1>4. CASE s \notin DOMAIN t.wslot
    BY <1>1, <1>4 DEF SlotStays
  <1>5. CASE s \in DOMAIN t.wslot /\ Inserted(i) /\ s = t.job.new
    <2>1. slot[s].status = "absent"
      BY <1>1, <1>2, <1>5, NewRow
    <2>2. t.wslot[s] = [status |-> "booked", learner |-> LockedLearner(i)]
      BY <1>3, <1>5 DEF SlotWrites
    <2>. QED BY <1>1, <1>2, <1>5, <2>1, <2>2 DEF SlotInserted
  <1>6. CASE s \in DOMAIN t.wslot /\ Updated(i) /\ s = t.job.slot
    <2>1. Matches(i) /\ slot[s].status \in {"open", "booked"}
      BY <1>3, <1>6, MatchedRow DEF SlotWrites
    <2>2. CASE Kind(i) = "book"
      <3>1. slot[s].status = "open"
        BY <1>6, <2>1, <2>2 DEF Matches, Kind
      <3>2. t.wslot[s] = [status |-> "booked", learner |-> t.job.learner]
        BY <1>3, <1>6, <2>2 DEF SlotWrites, Kind
      <3>3. t.job.learner = LockedLearner(i)
        BY <2>2 DEF LockedLearner, Kind
      <3>4. s = t.job.new
        BY <1>1, <1>6, <2>2, JobFields DEF Kind
      <3>. QED BY <1>1, <1>6, <2>2, <3>1, <3>2, <3>3, <3>4 DEF SlotBooked
    <2>3. CASE Kind(i) # "book"
      <3>1. t.wslot[s] = [slot[s] EXCEPT !.status = "cancelled"]
        BY <1>3, <1>6, <2>3 DEF SlotWrites, Kind
      <3>. QED BY <1>1, <1>2, <1>6, <2>1, <2>3, <3>1 DEF SlotCancelled
    <2>. QED BY <2>2, <2>3
  <1>7. s \in DOMAIN t.wslot => (Updated(i) /\ s = t.job.slot) \/ (Inserted(i) /\ s = t.job.new)
    BY <1>3 DEF SlotWrites
  <1>. QED BY <1>4, <1>5, <1>6, <1>7

\* What becomes of a row of package_consumptions.
UnitStays(i, s) == s \notin DOMAIN tx[i].wcons /\ cons'[s] = cons[s]
UnitReturned(i, s) ==
    /\ InUnit(cons[s]) /\ cons'[s] = [cons[s] EXCEPT !.restored = TRUE]
    /\ \/ Kind(i) \in Cancellers /\ s = tx[i].job.slot
       \/ Kind(i) = "refund" /\ cons[s].order = tx[i].job.order
UnitTaken(i, s, o) ==
    /\ Kind(i) \in Consumers /\ s = tx[i].job.new /\ cons[s] = NoCons
    /\ tx[i].cand = {o} /\ cons'[s] = [order |-> o, restored |-> FALSE]
    /\ Owner[o] = LockedLearner(i) /\ standing[o] = "live"
    /\ <<"purchase", o>> \in tx[i].held
    /\ <<"advisory", LockedLearner(i)>> \in tx[i].held
    /\ <<"slot", s>> \in tx[i].held /\ s \in DOMAIN tx[i].wslot

\* These are the ways.
LEMMA UnitFate ==
    ASSUME BookInv, NEW i \in Txns, Commit(i), NEW s \in Slots
    PROVE  \/ UnitStays(i, s) \/ UnitReturned(i, s)
           \/ \E o \in Orders : UnitTaken(i, s, o)
  <1> DEFINE t == tx[i]
  <1>1. /\ Running(i) /\ Left(i) = 1 /\ Kind(i) \in Kinds /\ t.job \in Jobs
        /\ cons' = [u \in Slots |-> IF u \in DOMAIN t.wcons THEN t.wcons[u] ELSE cons[u]]
    BY CommitRows
  <1>2. /\ Chosen(i) <=> Kind(i) \in Consumers
        /\ Locked(i) <=> Kind(i) \in Consumers
        /\ Refunding(i, 2) <=> Kind(i) = "refund"
    BY <1>1, AtEnd
  <1>3. ConsWrites(i) /\ Candidates(i)
    BY DEF BookInv, TxOK
  <1>4. CASE s \notin DOMAIN t.wcons
    BY <1>1, <1>4 DEF UnitStays
  <1>5. CASE s \in DOMAIN t.wcons /\ GivesBack(i, s)
    BY <1>1, <1>2, <1>5 DEF UnitReturned, GivesBack
  <1>6. CASE s \in DOMAIN t.wcons /\ Takes(i, s)
    <2>1. PICK o \in Orders : t.cand = {o} /\ t.wcons[s] = [order |-> o, restored |-> FALSE]
      BY <1>6 DEF Takes
    <2>2. Chosen(i) /\ s = t.job.new /\ cons[s] = NoCons
      BY <1>6 DEF Takes
    <2>3. <<"slot", s>> \in t.held /\ s \in DOMAIN t.wslot
      BY <2>2, PaidRow
    <2>4. /\ Owner[o] = LockedLearner(i) /\ <<"advisory", LockedLearner(i)>> \in t.held
          /\ standing[o] = "live" /\ <<"purchase", o>> \in t.held
      BY <1>2, <1>3, <2>1, <2>2 DEF Candidates
    <2>5. UnitTaken(i, s, o)
      BY <1>1, <1>2, <1>6, <2>1, <2>2, <2>3, <2>4 DEF UnitTaken
    <2>. QED BY <2>5
  <1>7. s \in DOMAIN t.wcons => GivesBack(i, s) \/ Takes(i, s)
    BY <1>3 DEF ConsWrites
  <1>. QED BY <1>4, <1>5, <1>6, <1>7

\* A learner who is locked is one.
LEMMA LockedIsLearner ==
    ASSUME BookInv, NEW i \in Txns, Running(i), Kind(i) \in Consumers,
           Kind(i) = "rescheduleByTeacher" => Updated(i)
    PROVE  LockedLearner(i) \in Learners \cup {NoLearner}
  <1>1. tx[i].job \in Jobs
    BY RunningStage DEF BookInv, TxOK
  <1>2. CASE Kind(i) # "rescheduleByTeacher"
    <2>1. tx[i].job.learner \in Learners
      BY <1>1, <1>2 DEF Jobs, Job, Kind, Consumers, Movers
    <2>. QED BY <1>2, <2>1 DEF LockedLearner, Kind
  <1>3. CASE Kind(i) = "rescheduleByTeacher"
    <2> DEFINE s == tx[i].job.slot
    <2>1. s \in Slots /\ Updated(i)
      BY <1>1, <1>3, JobFields DEF Kind, Cancellers, Movers
    <2>2. SlotWrites(i) /\ slot \in [Slots -> [status : {"absent", "open", "booked", "cancelled"},
                                               learner : Learners \cup {NoLearner}]]
      BY DEF BookInv, TxOK, Committed
    <2>3. s \in DOMAIN tx[i].wslot /\ tx[i].wslot[s] = [slot[s] EXCEPT !.status = "cancelled"]
      BY <1>3, <2>1, <2>2 DEF SlotWrites, Kind
    <2>4. SlotsSeen(i)[s] = [slot[s] EXCEPT !.status = "cancelled"]
      BY <2>1, <2>2, <2>3 DEF SlotsSeen, Overlay
    <2>5. [slot[s] EXCEPT !.status = "cancelled"].learner = slot[s].learner
      BY <2>1, <2>2
    <2>. QED BY <1>3, <2>1, <2>2, <2>4, <2>5 DEF LockedLearner, Kind
  <1>. QED BY <1>2, <1>3

\* Committed rows stay rows, and one without a lesson stays without a unit.
LEMMA CommitCommitted ==
    ASSUME BookInv, NEW i \in Txns, Commit(i)
    PROVE  Committed'
  <1> DEFINE Row == [status : {"absent", "open", "booked", "cancelled"},
                     learner : Learners \cup {NoLearner}]
             Unit == [order : Orders \cup {NoOrder}, restored : BOOLEAN]
  <1>1. /\ slot \in [Slots -> Row] /\ cons \in [Slots -> Unit]
        /\ standing \in [Orders -> {"none", "live", "voided"}]
        /\ \A s \in Slots : slot[s].status \in {"absent", "open"} => cons[s] = NoCons
    BY DEF BookInv, Committed
  <1>2. /\ Running(i) /\ Left(i) = 1 /\ Kind(i) \in Kinds
        /\ slot' = [s \in Slots |-> IF s \in DOMAIN tx[i].wslot THEN tx[i].wslot[s] ELSE slot[s]]
        /\ cons' = [s \in Slots |-> IF s \in DOMAIN tx[i].wcons THEN tx[i].wcons[s] ELSE cons[s]]
        /\ standing' = [o \in Orders |-> IF o \in tx[i].wvoid THEN "voided" ELSE standing[o]]
    BY CommitRows
  <1>3. Kind(i) \in Consumers => LockedLearner(i) \in Learners \cup {NoLearner}
    <2>1. Kind(i) = "rescheduleByTeacher" => Updated(i)
      BY <1>2, AtEnd DEF Cancellers, Movers
    <2>. QED BY <1>2, <2>1, LockedIsLearner
  <1>4. ASSUME NEW s \in Slots PROVE slot'[s] \in Row
    <2>1. CASE SlotStays(i, s)
      BY <1>1, <2>1 DEF SlotStays
    <2>2. CASE SlotBooked(i, s)
      BY <1>3, <2>2 DEF SlotBooked, Consumers
    <2>3. CASE SlotCancelled(i, s)
      BY <1>1, <2>3 DEF SlotCancelled
    <2>4. CASE SlotInserted(i, s)
      BY <1>3, <2>4 DEF SlotInserted, Consumers, Inserters
    <2>. QED BY <2>1, <2>2, <2>3, <2>4, SlotFate
  <1>5. ASSUME NEW s \in Slots PROVE cons'[s] \in Unit
    <2>1. CASE UnitStays(i, s)
      BY <1>1, <2>1 DEF UnitStays
    <2>2. CASE UnitReturned(i, s)
      BY <1>1, <2>2 DEF UnitReturned
    <2>3. CASE \E o \in Orders : UnitTaken(i, s, o)
      BY <2>3 DEF UnitTaken
    <2>. QED BY <2>1, <2>2, <2>3, UnitFate
  <1>6. ASSUME NEW s \in Slots, slot'[s].status \in {"absent", "open"}
        PROVE  cons'[s] = NoCons
    <2>1. SlotStays(i, s)
      <3>1. ~SlotBooked(i, s) /\ ~SlotInserted(i, s)
        BY <1>6 DEF SlotBooked, SlotInserted
      <3>2. ~SlotCancelled(i, s)
        BY <1>1, <1>6 DEF SlotCancelled
      <3>. QED BY <3>1, <3>2, SlotFate
    <2>2. cons[s] = NoCons /\ s \notin DOMAIN tx[i].wslot
      BY <1>1, <1>6, <2>1 DEF SlotStays
    <2>3. ~UnitReturned(i, s) /\ \A o \in Orders : ~UnitTaken(i, s, o)
      BY <2>2 DEF UnitReturned, UnitTaken, InUnit, NoCons
    <2>. QED BY <2>2, <2>3, UnitFate DEF UnitStays
  <1>7. slot' \in [Slots -> Row] /\ cons' \in [Slots -> Unit]
    BY <1>2, <1>4, <1>5
  <1>8. standing' \in [Orders -> {"none", "live", "voided"}]
    BY <1>1, <1>2
  <1>. QED BY <1>6, <1>7, <1>8 DEF Committed

\* Units in use back bookings after a commit.
LEMMA CommitBacks ==
    ASSUME BookInv, NEW i \in Txns, Commit(i)
    PROVE  UnitsBackBookings'
  <1>1. /\ Running(i) /\ Left(i) = 1 /\ Kind(i) \in Kinds
        /\ standing' = [o \in Orders |-> IF o \in tx[i].wvoid THEN "voided" ELSE standing[o]]
    BY CommitRows
  <1>2. TxOK(i) /\ \A s \in Slots : slot[s] \in [status : {"absent", "open", "booked", "cancelled"},
                                                 learner : Learners \cup {NoLearner}]
    BY DEF BookInv, Committed
  <1>3. tx[i].wvoid = IF Kind(i) = "refund" THEN {tx[i].job.order} ELSE {}
    BY <1>1, <1>2, AtEnd DEF TxOK, RefundWrites
  <1>4. SUFFICES ASSUME NEW s \in Slots, InUnit(cons'[s])
                 PROVE  /\ slot'[s].status = "booked"
                        /\ slot'[s].learner = Owner[cons'[s].order]
                        /\ standing'[cons'[s].order] = "live"
    BY DEF UnitsBackBookings, InUnit
  <1>5. CASE \E o \in Orders : UnitTaken(i, s, o)
    <2>1. PICK o \in Orders : UnitTaken(i, s, o)
      BY <1>5
    <2>2. cons'[s].order = o /\ Owner[o] = LockedLearner(i) /\ standing[o] = "live"
      BY <2>1 DEF UnitTaken
    <2>3. Chosen(i) /\ s = tx[i].job.new /\ s \in DOMAIN tx[i].wslot /\ Kind(i) # "refund"
      BY <1>1, <2>1, AtEnd DEF UnitTaken, Consumers, Movers
    <2>4. tx[i].wslot[s] = [status |-> "booked", learner |-> LockedLearner(i)]
      BY <2>3, PaidRow
    <2>5. slot'[s] = tx[i].wslot[s]
      BY <2>3, CommitRows
    <2>6. standing'[o] = "live"
      BY <1>1, <1>3, <2>2, <2>3
    <2>. QED BY <2>2, <2>4, <2>5, <2>6
  <1>6. CASE UnitReturned(i, s)
    <2>1. cons[s] \in [order : Orders \cup {NoOrder}, restored : BOOLEAN]
      BY DEF BookInv, Committed
    <2>. QED BY <1>4, <1>6, <2>1 DEF UnitReturned, InUnit
  <1>7. CASE UnitStays(i, s)
    <2>1. s \notin DOMAIN tx[i].wcons /\ InUnit(cons[s]) /\ cons'[s] = cons[s]
      BY <1>4, <1>7 DEF UnitStays
    <2>2. /\ slot[s].status = "booked" /\ slot[s].learner = Owner[cons[s].order]
          /\ standing[cons[s].order] = "live"
      BY <2>1 DEF BookInv, UnitsBackBookings, InUnit
    <2>3. ConsSeen(i)[s] = cons[s]
      BY <2>1 DEF ConsSeen, Overlay, BookInv, Committed
    <2>4. ~SlotCancelled(i, s)
      <3>1. ASSUME SlotCancelled(i, s) PROVE FALSE
        <4>1. Returned(i) /\ s = tx[i].job.slot
          BY <1>1, <3>1, AtEnd DEF SlotCancelled
        <4>2. ~InUnit(ConsSeen(i)[s])
          BY <1>2, <4>1 DEF TxOK, ConsWrites
        <4>. QED BY <2>1, <2>3, <4>2
      <3>. QED BY <3>1
    <2>5. SlotStays(i, s)
      BY <2>2, <2>4, SlotFate DEF SlotBooked, SlotInserted
    <2>6. cons[s].order \in Orders
      BY <2>1 DEF BookInv, Committed, InUnit
    <2>7. cons[s].order \notin tx[i].wvoid
      <3>1. ASSUME cons[s].order \in tx[i].wvoid PROVE FALSE
        <4>1. Refunding(i, 1) /\ cons[s].order = tx[i].job.order
          BY <1>1, <1>3, <3>1, AtEnd
        <4>2. ActiveRows(ConsSeen(i), tx[i].job.order) = {}
          BY <1>2, <4>1 DEF TxOK, RefundWrites
        <4>3. s \in ActiveRows(ConsSeen(i), tx[i].job.order)
          BY <2>1, <2>3, <4>1 DEF ActiveRows, InUnit
        <4>. QED BY <4>2, <4>3
      <3>. QED BY <3>1
    <2>. QED BY <1>1, <2>1, <2>2, <2>5, <2>6, <2>7 DEF SlotStays
  <1>. QED BY <1>5, <1>6, <1>7, UnitFate

\* New rows stay fresh.
LEMMA CommitFresh ==
    ASSUME BookInv, NEW i \in Txns, Commit(i)
    PROVE  FreshRows'
  <1>1. /\ \A k \in Txns \ {i} : tx'[k] = tx[k]
        /\ tx'[i].job = tx[i].job /\ tx'[i] = [Idle EXCEPT !.job = tx[i].job]
    BY CommitRows
  <1>2. ~Running(i)' /\ \A k \in Txns \ {i} : Running(k)' <=> Running(k)
    <2>1. tx'[i].todo = <<>>
      BY <1>1 DEF Idle
    <2>. QED BY <1>1, <2>1 DEF Running
  <1>3. \A k \in Txns : tx'[k].job = tx[k].job
    BY <1>1
  <1>4. SUFFICES ASSUME NEW n \in Slots \ Published
                 PROVE  (\A k \in Txns : tx'[k].job.new = n => Running(k)')
                          => slot'[n].status = "absent"
    BY <1>3 DEF BookInv, FreshRows
  <1>5. HAVE \A k \in Txns : tx'[k].job.new = n => Running(k)'
  <1>6. tx[i].job.new # n /\ \A k \in Txns : tx[k].job.new = n => Running(k)
    BY <1>2, <1>3, <1>5
  <1>7. slot[n].status = "absent"
    BY <1>4, <1>6 DEF BookInv, FreshRows
  <1>8. SlotStays(i, n)
    BY <1>4, <1>6, <1>7, SlotFate DEF SlotBooked, SlotCancelled, SlotInserted
  <1>. QED BY <1>7, <1>8 DEF SlotStays

\* Two transactions do not hold one lock.
LEMMA NotBoth ==
    ASSUME BookInv, NEW i \in Txns, NEW k \in Txns \ {i}, NEW r,
           r \in tx[i].held, r \in tx[k].held
    PROVE  FALSE
  BY DEF BookInv, LocksExclude

\* A commit leaves the rows of lesson_slots alone that another transaction wrote.
LEMMA CommitSlotsOfOthers ==
    ASSUME BookInv, NEW i \in Txns, Commit(i), NEW k \in Txns \ {i}
    PROVE  /\ SlotWrites(k)'
           /\ Locked(k) => LockedLearner(k)' = LockedLearner(k)
  <1> DEFINE t == tx[k]
  <1>1. tx'[k] = t /\ slot' = [s \in Slots |-> IF s \in DOMAIN tx[i].wslot
                                                 THEN tx[i].wslot[s] ELSE slot[s]]
    BY CommitRows
  <1>2. /\ Kind(k)' = Kind(k) /\ Left(k)' = Left(k) /\ (Running(k)' <=> Running(k))
        /\ Updated(k)' <=> Updated(k)
        /\ Inserted(k)' <=> Inserted(k)
    BY <1>1, SamePlace
  <1>3. TxOK(k) /\ SlotWrites(i) /\ SlotWrites(k) /\ DOMAIN slot = Slots
    BY DEF BookInv, TxOK, Committed
  <1>4. \A s \in DOMAIN t.wslot : s \in Slots /\ slot'[s] = slot[s]
    <2>1. TAKE s \in DOMAIN t.wslot
    <2>2. s \in Slots
      BY <1>3 DEF SlotWrites
    <2>3. <<"slot", s>> \in t.held
      BY <1>3, <2>2 DEF SlotWrites
    <2>4. <<"slot", s>> \notin tx[i].held
      BY <2>3, NotBoth
    <2>5. s \notin DOMAIN tx[i].wslot
      BY <1>3, <2>2, <2>4 DEF SlotWrites
    <2>. QED BY <1>1, <2>2, <2>5
  <1>5. Updated(k) => t.job.slot \in DOMAIN t.wslot
    <2>1. SUFFICES ASSUME Updated(k) PROVE t.job.slot \in DOMAIN t.wslot
      OBVIOUS
    <2>2. t.job.slot \in Slots
      BY <1>3, <2>1, RunningStage, JobFields DEF Updated, TxOK, Kind
    <2>. QED BY <1>3, <2>1, <2>2 DEF SlotWrites
  <1>6. Kind(k) # "rescheduleByTeacher" \/ Updated(k) => LockedLearner(k)' = LockedLearner(k)
    <2>1. ASSUME Updated(k) PROVE SlotsSeen(k)'[t.job.slot] = SlotsSeen(k)[t.job.slot]
      BY <1>1, <1>3, <1>4, <1>5, <2>1 DEF SlotsSeen, Overlay
    <2>. QED BY <1>1, <2>1 DEF LockedLearner, Kind
  <1>7. Kind(k) = "rescheduleByTeacher" /\ (Locked(k) \/ Inserted(k)) => Updated(k)
    <2>1. Running(k) => Left(k) \in 1 .. 8
      BY SMTT(30), <1>3, RunningStage DEF TxOK
    <2>. QED BY <2>1 DEF Locked, Inserted, Updated, AfterAdvisory, AfterUpdate, Cancellers, Movers
  <1>8. Updated(k) => (Matches(k)' <=> Matches(k))
    BY <1>1, <1>4, <1>5 DEF Matches
  <1>9. SlotWrites(k)'
    <2>1. Inserted(k) => LockedLearner(k)' = LockedLearner(k)
      BY <1>6, <1>7
    <2>2. Updated(k) => slot'[t.job.slot] = slot[t.job.slot]
      BY <1>4, <1>5
    <2>3. /\ DOMAIN t.wslot = {s \in Slots : (Updated(k)' /\ s = t.job.slot)
                                              \/ (Inserted(k)' /\ s = t.job.new)}
          /\ \A s \in Slots : <<"slot", s>> \in t.held <=> s \in DOMAIN t.wslot
      BY <1>2, <1>3 DEF SlotWrites
    <2>4. Updated(k) =>
            /\ Matches(k)'
            /\ t.wslot[t.job.slot] =
                 IF t.job.kind = "book" THEN [status |-> "booked", learner |-> t.job.learner]
                 ELSE [slot'[t.job.slot] EXCEPT !.status = "cancelled"]
      BY <1>3, <1>8, <2>2 DEF SlotWrites
    <2>5. Inserted(k) => t.wslot[t.job.new] = [status |-> "booked", learner |-> LockedLearner(k)']
      BY <1>3, <2>1 DEF SlotWrites
    <2>. QED BY ZenonT(60), <1>1, <1>2, <2>3, <2>4, <2>5 DEF SlotWrites
  <1>. QED BY <1>6, <1>7, <1>9

\* Nor the units.
LEMMA CommitUnitsOfOthers ==
    ASSUME BookInv, NEW i \in Txns, Commit(i), NEW k \in Txns \ {i},
           NEW s \in DOMAIN tx[k].wcons
    PROVE  s \in Slots /\ cons'[s] = cons[s]
  <1>1. ConsWrites(i) /\ ConsWrites(k)
    BY DEF BookInv, TxOK
  <1>2. s \in Slots
    BY <1>1 DEF ConsWrites
  <1>3. <<"cons", s>> \in tx[k].held
    BY <1>1, <1>2 DEF ConsWrites
  <1>4. <<"cons", s>> \notin tx[i].held
    BY <1>3, NotBoth
  <1>5. s \notin DOMAIN tx[i].wcons
    BY <1>1, <1>2, <1>4 DEF ConsWrites
  <1>6. cons' = [u \in Slots |-> IF u \in DOMAIN tx[i].wcons THEN tx[i].wcons[u] ELSE cons[u]]
    BY CommitRows
  <1>. QED BY <1>2, <1>5, <1>6

\* A unit that becomes visible to another transaction is one that i took.
LEMMA SeenBefore ==
    ASSUME BookInv, NEW i \in Txns, Commit(i), NEW k \in Txns \ {i}, NEW s \in Slots,
           InUnit(ConsSeen(k)'[s])
    PROVE  \/ InUnit(ConsSeen(k)[s]) /\ ConsSeen(k)'[s] = ConsSeen(k)[s]
           \/ \E o \in Orders : UnitTaken(i, s, o) /\ ConsSeen(k)'[s].order = o
  <1>1. tx'[k] = tx[k] /\ DOMAIN cons = Slots /\ DOMAIN cons' = Slots
    BY CommitRows DEF BookInv, Committed
  <1>2. CASE s \in DOMAIN tx[k].wcons
    BY <1>1, <1>2 DEF ConsSeen, Overlay
  <1>3. CASE s \notin DOMAIN tx[k].wcons
    <2>1. ConsSeen(k)[s] = cons[s] /\ ConsSeen(k)'[s] = cons'[s]
      BY <1>1, <1>3 DEF ConsSeen, Overlay
    <2>2. CASE UnitStays(i, s)
      BY <2>1, <2>2 DEF UnitStays
    <2>3. CASE UnitReturned(i, s)
      <3>1. cons[s] \in [order : Orders \cup {NoOrder}, restored : BOOLEAN]
        BY DEF BookInv, Committed
      <3>. QED BY <2>1, <2>3, <3>1 DEF UnitReturned, InUnit
    <2>4. CASE \E o \in Orders : UnitTaken(i, s, o)
      <3>1. PICK o \in Orders : UnitTaken(i, s, o)
        BY <2>4
      <3>2. cons'[s].order = o
        BY <3>1 DEF UnitTaken
      <3>. QED BY <2>1, <3>1, <3>2
    <2>. QED BY <2>2, <2>3, <2>4, UnitFate
  <1>. QED BY <1>2, <1>3

\* What another transaction wrote of the units stands.
LEMMA CommitConsOfOthers ==
    ASSUME BookInv, NEW i \in Txns, Commit(i), NEW k \in Txns \ {i}
    PROVE  ConsWrites(k)'
  <1> DEFINE t == tx[k]
  <1>1. tx'[k] = t /\ TxOK(k) /\ ConsWrites(k) /\ SlotWrites(k)
    BY CommitRows DEF BookInv, TxOK
  <1>2. /\ Kind(k)' = Kind(k) /\ Left(k)' = Left(k) /\ (Running(k)' <=> Running(k))
        /\ Updated(k)' <=> Updated(k)
        /\ Returned(k)' <=> Returned(k)
        /\ Chosen(k)' <=> Chosen(k)
        /\ Refunding(k, 2)' <=> Refunding(k, 2)
    BY <1>1, SamePlace
  <1>3. \A s \in DOMAIN t.wcons : cons'[s] = cons[s]
    BY CommitUnitsOfOthers
  <1>4. \A s \in DOMAIN t.wcons : GivesBack(k, s)' \/ Takes(k, s)'
    <2>1. TAKE s \in DOMAIN t.wcons
    <2>2. GivesBack(k, s) => GivesBack(k, s)'
      BY <1>1, <1>2, <1>3 DEF GivesBack
    <2>3. Takes(k, s) => Takes(k, s)'
      BY <1>1, <1>2, <1>3 DEF Takes
    <2>. QED BY <1>1, <2>2, <2>3 DEF ConsWrites
  <1>5. Returned(k) => ~InUnit(ConsSeen(k)[tx[k].job.slot])'
    <2> DEFINE s == t.job.slot
    <2>1. SUFFICES ASSUME Returned(k), InUnit(ConsSeen(k)'[s]) PROVE FALSE
      BY <1>1 DEF InUnit
    <2>2. Running(k) /\ Kind(k) \in Cancellers /\ Left(k) \in 1 .. 8 /\ t.job \in Jobs
      BY <1>1, <2>1, RunningStage DEF Returned, TxOK
    <2>3. Updated(k)
      BY <2>1, <2>2 DEF Returned, Updated, AfterRestore, AfterUpdate, Cancellers, Movers
    <2>4. s \in Slots
      BY <2>2, JobFields DEF Kind
    <2>5. <<"slot", s>> \in t.held
      BY <1>1, <2>3, <2>4 DEF SlotWrites
    <2>6. ~InUnit(ConsSeen(k)[s])
      BY <1>1, <2>1 DEF ConsWrites
    <2>7. PICK o \in Orders : UnitTaken(i, s, o)
      BY <2>1, <2>4, <2>6, SeenBefore
    <2>8. <<"slot", s>> \in tx[i].held
      BY <2>7 DEF UnitTaken
    <2>. QED BY <2>5, <2>8, NotBoth
  <1>. QED BY <1>1, <1>2, <1>4, <1>5 DEF ConsWrites

\* Nobody takes a unit from a candidate of another transaction.
LEMMA CommitCandidatesOfOthers ==
    ASSUME BookInv, NEW i \in Txns, Commit(i), NEW k \in Txns \ {i}
    PROVE  Candidates(k)'
  <1> DEFINE t == tx[k]
             n == t.job.new
  <1>1. tx'[k] = t /\ TxOK(k) /\ Candidates(k) /\ RefundWrites(i)
    BY CommitRows DEF BookInv, TxOK
  <1>2. /\ Kind(k)' = Kind(k) /\ Left(k)' = Left(k) /\ (Running(k)' <=> Running(k))
        /\ Locked(k)' <=> Locked(k)
        /\ Picked(k)' <=> Picked(k)
        /\ Chosen(k)' <=> Chosen(k)
    BY <1>1, SamePlace
  <1>3. Locked(k) => LockedLearner(k)' = LockedLearner(k)
    BY CommitSlotsOfOthers
  <1>4. Picked(k) => Locked(k)
    <2>1. Running(k) => Left(k) \in 1 .. 8
      BY <1>1, RunningStage DEF TxOK
    <2>. QED BY <2>1 DEF Picked, Locked, AfterAdvisory, Consumers, Movers
  <1>5. ASSUME NEW o \in t.cand
        PROVE  /\ Owner[o] = LockedLearner(k)'
               /\ Cardinality(ActiveRows(ConsSeen(k)', o) \ {n}) < Count[o]
    <2>1. /\ o \in Orders /\ Locked(k) /\ Owner[o] = LockedLearner(k)
          /\ Cardinality(ActiveRows(ConsSeen(k), o) \ {n}) < Count[o]
          /\ <<"advisory", LockedLearner(k)>> \in t.held
      BY <1>1, <1>4, <1>5 DEF Candidates
    <2>2. ASSUME NEW s \in ActiveRows(ConsSeen(k)', o) PROVE s \in ActiveRows(ConsSeen(k), o)
      <3>1. s \in Slots /\ ConsSeen(k)'[s].order = o /\ ~ConsSeen(k)'[s].restored
        BY <2>2 DEF ActiveRows
      <3>2. InUnit(ConsSeen(k)'[s])
        BY <2>1, <3>1, TxAssumption DEF InUnit
      <3>3. ~UnitTaken(i, s, o)
        BY <2>1, NotBoth DEF UnitTaken
      <3>4. ConsSeen(k)'[s] = ConsSeen(k)[s]
        BY <3>1, <3>2, <3>3, SeenBefore
      <3>. QED BY <3>1, <3>4 DEF ActiveRows
    <2>3. Cardinality(ActiveRows(ConsSeen(k)', o) \ {n}) < Count[o]
      <3>1. ActiveRows(ConsSeen(k), o) \ {n} \in SUBSET Slots
        BY DEF ActiveRows
      <3>2. (ActiveRows(ConsSeen(k)', o) \ {n}) \in SUBSET (ActiveRows(ConsSeen(k), o) \ {n})
        BY <2>2
      <3>3. Count[o] \in Nat
        BY <2>1, TxAssumption
      <3>. QED BY <2>1, <3>1, <3>2, <3>3, FewerRows
    <2>. QED BY <1>3, <2>1, <2>3
  <1>6. ASSUME NEW o \in Orders, <<"purchase", o>> \in t.held, standing[o] = "live"
        PROVE  standing'[o] = "live"
    <2>1. <<"purchase", o>> \notin tx[i].held
      BY <1>6, NotBoth
    <2>2. o \notin tx[i].wvoid
      BY <1>1, <2>1 DEF RefundWrites
    <2>3. standing' = [q \in Orders |-> IF q \in tx[i].wvoid THEN "voided" ELSE standing[q]]
      BY CommitRows
    <2>. QED BY <1>6, <2>2, <2>3
  <1>7. \A o : ActiveRows(ConsSeen(k), o)' = ActiveRows(ConsSeen(k)', o)
    BY DEF ActiveRows
  <1>8. Chosen(k) /\ (Left(k) = 2 \/ t.cand # {}) =>
         \E o \in Orders : /\ t.cand = {o}
                           /\ <<"purchase", o>> \in t.held
                           /\ standing'[o] = "live"
    BY <1>1, <1>6 DEF Candidates
  <1>. QED BY <1>1, <1>2, <1>3, <1>5, <1>7, <1>8 DEF Candidates

\* A refund under way is not overtaken.
LEMMA CommitRefundsOfOthers ==
    ASSUME BookInv, NEW i \in Txns, Commit(i), NEW k \in Txns \ {i}
    PROVE  RefundWrites(k)'
  <1> DEFINE t == tx[k]
             o == t.job.order
  <1>1. tx'[k] = t /\ TxOK(k) /\ RefundWrites(k) /\ RefundWrites(i)
    BY CommitRows DEF BookInv, TxOK
  <1>2. /\ Refunding(k, 1)' <=> Refunding(k, 1)
        /\ Refunding(k, 2)' <=> Refunding(k, 2)
        /\ Refunding(k, 3)' <=> Refunding(k, 3)
    BY <1>1, SamePlace
  <1>3. Refunding(k, 1) => Refunding(k, 2)
    <2>1. Running(k) => Left(k) \in 1 .. 8
      BY <1>1, RunningStage DEF TxOK
    <2>. QED BY <2>1 DEF Refunding
  <1>4. Refunding(k, 3) => o \in Orders
    BY <1>1, RunningStage, JobFields DEF Refunding, TxOK, Kind
  <1>5. ASSUME Refunding(k, 3) PROVE standing'[o] = "live"
    <2>1. <<"allocation", o>> \in t.held /\ standing[o] = "live"
      BY <1>1, <1>5 DEF RefundWrites
    <2>2. <<"allocation", o>> \notin tx[i].held
      BY <2>1, NotBoth
    <2>3. Refunding(i, 2) => Refunding(i, 3)
      <3>1. Running(i) => Left(i) \in 1 .. 8
        BY RunningStage DEF BookInv, TxOK
      <3>. QED BY <3>1 DEF Refunding
    <2>4. o \notin tx[i].wvoid
      BY <1>1, <2>2, <2>3 DEF RefundWrites
    <2>5. standing' = [q \in Orders |-> IF q \in tx[i].wvoid THEN "voided" ELSE standing[q]]
      BY CommitRows
    <2>. QED BY <1>4, <1>5, <2>1, <2>4, <2>5
  <1>6. ASSUME Refunding(k, 1) PROVE ActiveRows(ConsSeen(k)', o) = {}
    <2>1. <<"purchase", o>> \in t.held /\ ActiveRows(ConsSeen(k), o) = {}
      BY <1>1, <1>3, <1>6 DEF RefundWrites
    <2>2. SUFFICES ASSUME NEW s \in ActiveRows(ConsSeen(k)', o) PROVE FALSE
      OBVIOUS
    <2>3. s \in Slots /\ ConsSeen(k)'[s].order = o /\ ~ConsSeen(k)'[s].restored
      BY <2>2 DEF ActiveRows
    <2>4. o \in Orders
      BY <1>1, <1>6, RunningStage, JobFields DEF Refunding, TxOK, Kind
    <2>5. InUnit(ConsSeen(k)'[s])
      BY <2>3, <2>4, TxAssumption DEF InUnit
    <2>6. ~UnitTaken(i, s, o)
      BY <2>1, NotBoth DEF UnitTaken
    <2>7. ConsSeen(k)'[s] = ConsSeen(k)[s]
      BY <2>3, <2>5, <2>6, SeenBefore
    <2>8. s \in ActiveRows(ConsSeen(k), o)
      BY <2>3, <2>7 DEF ActiveRows
    <2>. QED BY <2>1, <2>8
  <1>7. ActiveRows(ConsSeen(k), o)' = ActiveRows(ConsSeen(k)', o')
    BY DEF ActiveRows
  <1>. QED BY <1>1, <1>2, <1>5, <1>6, <1>7 DEF RefundWrites

\* A commit.
LEMMA CommitStep ==
    ASSUME BookInv, NEW i \in Txns, Commit(i)
    PROVE  BookInv'
  <1>1. /\ \A k \in Txns \ {i} : tx'[k] = tx[k]
        /\ tx'[i].job = tx[i].job /\ tx'[i] = [Idle EXCEPT !.job = tx[i].job]
        /\ tx[i].job \in Jobs
        /\ Shape'
    BY CommitRows
  <1>2. TxOK(i)' /\ tx'[i].held = {}
    BY <1>1, OverOK
  <1>3. ASSUME NEW k \in Txns \ {i} PROVE TxOK(k)'
    <2>1. ProgramOK(k)'
      BY <1>1, SamePlace DEF BookInv, TxOK, ProgramOK
    <2>. QED BY <2>1, CommitSlotsOfOthers, CommitConsOfOthers, CommitCandidatesOfOthers,
                CommitRefundsOfOthers DEF TxOK
  <1>4. LocksExclude'
    BY <1>1, <1>2 DEF BookInv, LocksExclude
  <1>. QED BY <1>1, <1>2, <1>3, <1>4, CommitCommitted, CommitBacks, CommitFresh DEF BookInv

-----------------------------------------------------------------------------
(* The invariant.                                                          *)

\* At first no transaction runs.
LEMMA InitBook ==
    ASSUME Init
    PROVE  BookInv
  <1> USE TxAssumption
  <1>1. /\ slot = [s \in Slots |-> [status |-> IF s \in Published THEN "open" ELSE "absent",
                                    learner |-> NoLearner]]
        /\ cons = [s \in Slots |-> NoCons]
        /\ standing = [o \in Orders |-> "none"]
        /\ tx = [i \in Txns |-> Idle]
    BY DEF Init
  <1>2. Committed
    BY <1>1 DEF Committed, NoCons
  <1>3. UnitsBackBookings
    BY <1>1 DEF UnitsBackBookings, NoCons
  <1>4. /\ Idle.todo = <<>> /\ Idle.held = {} /\ Idle.cand = {} /\ Idle.wslot = <<>>
        /\ Idle.wcons = <<>> /\ Idle.wvoid = {} /\ Idle.job.new = NoSlot
        /\ Idle.job.kind = "none"
    BY DEF Idle, Job
  <1>5. Shape
    <2>1. Plain(Idle)
      BY DEF Plain, Idle
    <2>. QED BY <1>1, <2>1 DEF Shape, Plain
  <1>6. LocksExclude
    BY <1>1, <1>4 DEF LocksExclude
  <1>7. FreshRows
    BY <1>1, <1>4 DEF FreshRows
  <1>8. ASSUME NEW i \in Txns PROVE TxOK(i)
    <2>1. tx[i] = Idle /\ ~Running(i) /\ DOMAIN tx[i].wslot = {} /\ DOMAIN tx[i].wcons = {}
      BY <1>1, <1>4 DEF Running
    <2>2. /\ ~Locked(i) /\ ~Updated(i) /\ ~Returned(i) /\ ~Inserted(i) /\ ~Picked(i)
          /\ ~Chosen(i) /\ ~Refunding(i, 1) /\ ~Refunding(i, 2) /\ ~Refunding(i, 3)
      BY <2>1 DEF Locked, Updated, Returned, Inserted, Picked, Chosen, Refunding
    <2>3. ProgramOK(i)
      <3>1. Rests(Kind(i)) = {<<>>}
        BY <1>4, <2>1 DEF Rests, Kind
      <3>2. Idle = [Idle EXCEPT !.job = Idle.job]
        BY DEF Idle
      <3>. QED BY <1>4, <2>1, <3>1, <3>2 DEF ProgramOK
    <2>4. SlotWrites(i)
      BY <1>4, <2>1, <2>2 DEF SlotWrites
    <2>5. ConsWrites(i)
      BY <1>4, <2>1, <2>2 DEF ConsWrites
    <2>6. Candidates(i)
      BY <1>4, <2>1, <2>2 DEF Candidates
    <2>7. RefundWrites(i)
      BY <1>4, <2>1, <2>2 DEF RefundWrites
    <2>. QED BY <2>3, <2>4, <2>5, <2>6, <2>7 DEF TxOK
  <1>. QED BY <1>2, <1>3, <1>5, <1>6, <1>7, <1>8 DEF BookInv

\* Every step keeps it.
LEMMA NextBook ==
    ASSUME BookInv, [Next]_vars
    PROVE  BookInv'
  <1>1. CASE UNCHANGED vars
    <2>1. tx' = tx /\ UNCHANGED committed
      BY <1>1 DEF vars, committed
    <2>2. \A k \in Txns : TxOK(k)'
      BY <2>1, Bystander DEF BookInv
    <2>3. Committed' /\ UnitsBackBookings'
      BY <2>1 DEF BookInv, Committed, UnitsBackBookings, committed
    <2>4. Shape' /\ LocksExclude' /\ FreshRows'
      BY <2>1 DEF BookInv, Shape, LocksExclude, FreshRows, Running, committed
    <2>. QED BY <2>2, <2>3, <2>4 DEF BookInv
  <1>2. ASSUME NEW i \in Txns, Statement(i) PROVE BookInv'
    BY <1>2, AdvisoryStep, ReserveStep, CancelStep, RestoreStep, InsertSlotStep, PickStep,
       LockPurchaseStep, NoPackageStep, InsertUnitStep, AllocationStep, VoidStep,
       RestoreAllStep, CommitStep DEF Statement
  <1>3. ASSUME NEW i \in Txns, DeadlockVictim(i) \/ ConnectionLost(i) PROVE BookInv'
    BY <1>3, RollbackStep DEF DeadlockVictim, ConnectionLost
  <1>. QED BY <1>1, <1>2, <1>3, BeginStep, GrantStep DEF Next

\* Rows, locks, uncommitted writes and places in the programs agree in every
\* reachable state, however many transactions run.
THEOREM BookingInvariant == Spec => []BookInv
  <1>1. Init => BookInv
    BY InitBook
  <1>2. BookInv /\ [Next]_vars => BookInv'
    BY NextBook
  <1>. QED BY <1>1, <1>2, PTL DEF Spec

\* In every committed state a unit in use belongs to a booked lesson of the
\* purchase's owner, and the purchase is not voided (restoreAllConsumptionsForPurchase).
THEOREM UnitsAlwaysBack == Spec => []UnitsBackBookings
  <1>1. BookInv => UnitsBackBookings
    BY DEF BookInv
  <1>. QED BY <1>1, BookingInvariant, PTL

\* Only a commit writes lesson_slots or package_consumptions.
LEMMA OnlyCommits ==
    ASSUME Next
    PROVE  \/ \E i \in Txns : Commit(i)
           \/ \E o \in Orders : Grant(o)
           \/ UNCHANGED committed
  BY ZenonT(30) DEF Next, Begin, Statement, DeadlockVictim, ConnectionLost, Rollback, Advisory, Reserve,
     Cancel, UpdateSlot, Restore, InsertSlot, Pick, LockPurchase, NoPackage, InsertUnit,
     Allocation, Void, RestoreAll

\* A booked slot is never taken over and a cancelled one never comes back (the
\* where-clause of bookSlot's update, read again under the row lock).
THEOREM SlotsBookedOnce == Spec => BookedOnce
  <1>1. BookInv /\ [Next]_vars =>
          [\A s \in Slots : slot[s].status \in {"booked", "cancelled"} =>
             /\ slot'[s].learner = slot[s].learner
             /\ slot'[s].status \in {slot[s].status, "cancelled"}]_vars
    <2>1. SUFFICES ASSUME BookInv, Next, NEW s \in Slots,
                          slot[s].status \in {"booked", "cancelled"}
                   PROVE  /\ slot'[s].learner = slot[s].learner
                          /\ slot'[s].status \in {slot[s].status, "cancelled"}
      OBVIOUS
    <2>2. slot[s] \in [status : {"absent", "open", "booked", "cancelled"},
                       learner : Learners \cup {NoLearner}]
      BY <2>1 DEF BookInv, Committed
    <2>3. ASSUME NEW i \in Txns, Commit(i)
          PROVE  /\ slot'[s].learner = slot[s].learner
                 /\ slot'[s].status \in {slot[s].status, "cancelled"}
      BY <2>1, <2>2, <2>3, SlotFate DEF SlotStays, SlotBooked, SlotCancelled, SlotInserted
    <2>4. ASSUME slot' = slot
          PROVE  /\ slot'[s].learner = slot[s].learner
                 /\ slot'[s].status \in {slot[s].status, "cancelled"}
      BY <2>4
    <2>. QED BY <2>1, <2>3, <2>4, OnlyCommits DEF committed, Grant
  <1>. QED BY <1>1, BookingInvariant, PTL DEF Spec, BookedOnce

-----------------------------------------------------------------------------
(* BookingTx implements UnitLedger.                                        *)

SizeIn(st) == [o \in Orders |-> IF st[o] = "none" THEN 0 ELSE Count[o]]
UnitIn(c) == [s \in Slots |-> IF c[s].restored THEN NoOrder ELSE c[s].order]
SpentIn(c) == {s \in Slots : c[s].order # NoOrder}

\* The abstract ledger counts as the concrete one does.
LEMMA SameCount ==
    ASSUME NEW S
    PROVE  Ledger!Cardinality(S) = Cardinality(S)
  BY DEF Ledger!Cardinality, Cardinality

\* A slot is using o in the abstract ledger when its row is active.
LEMMA InUseIsActive ==
    ASSUME NEW c \in [Slots -> [order : Orders \cup {NoOrder}, restored : BOOLEAN]],
           NEW o \in Orders
    PROVE  {s \in Slots : UnitIn(c)[s] = o} = ActiveRows(c, o)
  BY TxAssumption DEF UnitIn, ActiveRows

\* The slot whose unit a transaction gives back, if it is of that kind.
GivenBack(i) == IF Kind(i) \in Cancellers THEN {tx[i].job.slot} ELSE {}

\* What a commit that is no refund does to the abstract ledger.
LEMMA CommitUnits ==
    ASSUME BookInv, NEW i \in Txns, Commit(i), Kind(i) # "refund"
    PROVE  /\ standing' = standing
           /\ GivenBack(i) \subseteq Slots
           /\ \/ \E n \in Slots, o \in Orders :
                   /\ UnitTaken(i, n, o) /\ n \notin GivenBack(i)
                   /\ UnitIn(cons') = [s \in Slots |-> IF s = n THEN o
                                         ELSE IF s \in GivenBack(i) THEN NoOrder
                                         ELSE UnitIn(cons)[s]]
                   /\ SpentIn(cons') = SpentIn(cons) \cup {n}
              \/ /\ UnitIn(cons') = [s \in Slots |-> IF s \in GivenBack(i) THEN NoOrder
                                                     ELSE UnitIn(cons)[s]]
                 /\ SpentIn(cons') = SpentIn(cons)
  <1> DEFINE R == GivenBack(i)
             Unit == [order : Orders \cup {NoOrder}, restored : BOOLEAN]
  <1>1. /\ Running(i) /\ Left(i) = 1 /\ Kind(i) \in Kinds /\ tx[i].job \in Jobs
        /\ cons' = [u \in Slots |-> IF u \in DOMAIN tx[i].wcons THEN tx[i].wcons[u] ELSE cons[u]]
        /\ standing' = [o \in Orders |-> IF o \in tx[i].wvoid THEN "voided" ELSE standing[o]]
    BY CommitRows
  <1>2. TxOK(i) /\ cons \in [Slots -> Unit] /\ standing \in [Orders -> {"none", "live", "voided"}]
    BY DEF BookInv, Committed
  <1>3. standing' = standing
    <2>1. tx[i].wvoid = {}
      BY <1>1, <1>2, AtEnd DEF TxOK, RefundWrites
    <2>. QED BY <1>1, <1>2, <2>1
  <1>4. R \subseteq Slots
    BY <1>1, JobFields DEF GivenBack, Kind
  <1>5. \A s \in R : ~InUnit(cons'[s])
    <2>1. TAKE s \in R
    <2>2. Kind(i) \in Cancellers /\ s = tx[i].job.slot /\ s \in Slots
      BY <1>4 DEF GivenBack
    <2>3. ~InUnit(ConsSeen(i)[s])
      BY <1>1, <1>2, <2>2, AtEnd DEF TxOK, ConsWrites
    <2>4. ConsSeen(i)[s] = cons'[s]
      BY DEF Commit
    <2>. QED BY <2>3, <2>4
  <1>6. ASSUME NEW s \in Slots
        PROVE  \/ \E o \in Orders : UnitTaken(i, s, o)
               \/ UnitStays(i, s)
               \/ UnitReturned(i, s) /\ s \in R
    BY UnitFate DEF UnitReturned, GivenBack
  <1>7. ASSUME NEW s \in Slots, s \notin R, \A o \in Orders : ~UnitTaken(i, s, o)
        PROVE  UnitIn(cons')[s] = UnitIn(cons)[s]
    BY <1>6, <1>7 DEF UnitStays, UnitIn
  <1>8. ASSUME NEW s \in R
        PROVE  UnitIn(cons')[s] = NoOrder
    BY <1>4, <1>5, <1>8 DEF UnitIn, InUnit
  <1>9. ASSUME NEW s \in Slots, \A o \in Orders : ~UnitTaken(i, s, o)
        PROVE  cons'[s].order = cons[s].order
    BY <1>2, <1>6, <1>9 DEF UnitStays, UnitReturned
  <1>10. ASSUME NEW n \in Slots, NEW o \in Orders, UnitTaken(i, n, o)
         PROVE  /\ n \notin R
                /\ UnitIn(cons') = [s \in Slots |-> IF s = n THEN o
                                      ELSE IF s \in R THEN NoOrder ELSE UnitIn(cons)[s]]
                /\ SpentIn(cons') = SpentIn(cons) \cup {n}
    <2>1. \A s \in Slots \ {n} : \A q \in Orders : ~UnitTaken(i, s, q)
      BY <1>10 DEF UnitTaken
    <2>2. cons'[n] = [order |-> o, restored |-> FALSE] /\ InUnit(cons'[n])
      BY <1>10, TxAssumption DEF UnitTaken, InUnit
    <2>3. n \notin R
      BY <1>5, <2>2
    <2>4. UnitIn(cons')[n] = o
      BY <2>2 DEF UnitIn
    <2>5. \A s \in Slots : UnitIn(cons')[s] = IF s = n THEN o
                              ELSE IF s \in R THEN NoOrder ELSE UnitIn(cons)[s]
      BY <1>7, <1>8, <2>1, <2>4
    <2>6. \A s \in Slots : s \in SpentIn(cons') <=> s = n \/ s \in SpentIn(cons)
      BY <1>9, <2>1, <2>2, TxAssumption DEF SpentIn
    <2>7. UnitIn(cons') = [s \in Slots |-> UnitIn(cons')[s]]
      BY DEF UnitIn
    <2>8. SpentIn(cons') \subseteq Slots /\ SpentIn(cons) \subseteq Slots
      BY DEF SpentIn
    <2>. QED BY <2>3, <2>5, <2>6, <2>7, <2>8
  <1>11. ASSUME \A n \in Slots, o \in Orders : ~UnitTaken(i, n, o)
         PROVE  /\ UnitIn(cons') = [s \in Slots |-> IF s \in R THEN NoOrder ELSE UnitIn(cons)[s]]
                /\ SpentIn(cons') = SpentIn(cons)
    <2>1. UnitIn(cons') = [s \in Slots |-> UnitIn(cons')[s]]
      BY DEF UnitIn
    <2>2. \A s \in Slots : UnitIn(cons')[s] = IF s \in R THEN NoOrder ELSE UnitIn(cons)[s]
      BY <1>7, <1>8, <1>11
    <2>3. SpentIn(cons') = SpentIn(cons)
      BY <1>9, <1>11 DEF SpentIn
    <2>. QED BY <2>1, <2>2, <2>3
  <1>. QED BY <1>3, <1>4, <1>10, <1>11

\* The unit that is taken was free: the count of the snapshot still holds.
LEMMA TakenWasFree ==
    ASSUME BookInv, NEW i \in Txns, Commit(i), Kind(i) # "refund",
           NEW n \in Slots, NEW o \in Orders, UnitTaken(i, n, o), n \notin GivenBack(i),
           UnitIn(cons') = [s \in Slots |-> IF s = n THEN o
                              ELSE IF s \in GivenBack(i) THEN NoOrder ELSE UnitIn(cons)[s]]
    PROVE  Cardinality({s \in Slots : UnitIn(cons)[s] = o} \ GivenBack(i)) < Count[o]
  <1> DEFINE R == GivenBack(i)
  <1>1. cons' \in [Slots -> [order : Orders \cup {NoOrder}, restored : BOOLEAN]]
    BY CommitCommitted DEF Committed
  <1>2. ConsSeen(i) = cons' /\ TxOK(i)
    BY DEF Commit, BookInv
  <1>3. tx[i].cand = {o} /\ n = tx[i].job.new /\ cons[n] = NoCons
    BY DEF UnitTaken
  <1>4. Cardinality(ActiveRows(cons', o) \ {n}) < Count[o]
    BY <1>2, <1>3 DEF TxOK, Candidates
  <1>5. ActiveRows(cons', o) = {s \in Slots : UnitIn(cons')[s] = o}
    BY <1>1, InUseIsActive
  <1>6. UnitIn(cons)[n] # o
    BY <1>3, TxAssumption DEF UnitIn, NoCons
  <1>7. ActiveRows(cons', o) \ {n} = {s \in Slots : UnitIn(cons)[s] = o} \ R
    <2>1. NoOrder # o
      BY TxAssumption
    <2>2. \A s \in Slots : s # n =>
             (UnitIn(cons')[s] = o <=> UnitIn(cons)[s] = o /\ s \notin R)
      BY <2>1
    <2>. QED BY <1>5, <1>6, <2>2
  <1>. QED BY <1>4, <1>7

\* A booking, an assignment or a reschedule commits.
LEMMA CommitRefines ==
    ASSUME BookInv, NEW i \in Txns, Commit(i), Kind(i) # "refund"
    PROVE  [Ledger!Next]_(Ledger!ledger)
  <1> DEFINE R == GivenBack(i)
  <1>1. standing' = standing /\ R \subseteq Slots /\ SizeIn(standing)' = SizeIn(standing)
    BY CommitUnits DEF SizeIn
  <1>2. ASSUME NEW n \in Slots, NEW o \in Orders, UnitTaken(i, n, o), n \notin R,
               UnitIn(cons') = [s \in Slots |-> IF s = n THEN o
                                  ELSE IF s \in R THEN NoOrder ELSE UnitIn(cons)[s]],
               SpentIn(cons') = SpentIn(cons) \cup {n}
        PROVE  Ledger!Next
    <2>1. standing[o] = "live" /\ n \notin SpentIn(cons)
      BY <1>2 DEF UnitTaken, SpentIn, NoCons
    <2>2. Cardinality({s \in Slots : UnitIn(cons)[s] = o} \ R) < SizeIn(standing)[o]
      BY <1>2, <2>1, TakenWasFree DEF SizeIn
    <2>3. Ledger!Take(R, n, o)
      BY <1>1, <1>2, <2>1, <2>2, SameCount
         DEF Ledger!Take, Ledger!InUse, SizeIn, UnitIn, SpentIn
    <2>4. R = {} \/ \E s \in Slots \ {n} : R = {s}
      BY <1>1, <1>2 DEF GivenBack
    <2>. QED BY <2>3, <2>4 DEF Ledger!Next
  <1>3. ASSUME UnitIn(cons') = [s \in Slots |-> IF s \in R THEN NoOrder ELSE UnitIn(cons)[s]],
               SpentIn(cons') = SpentIn(cons)
        PROVE  [Ledger!Next]_(Ledger!ledger)
    <2>0. UnitIn(cons) = [s \in Slots |-> UnitIn(cons)[s]]
      BY DEF UnitIn
    <2>1. CASE R = {}
      <3>1. UnitIn(cons') = UnitIn(cons)
        BY <1>3, <2>0, <2>1
      <3>. QED BY <1>1, <1>3, <3>1 DEF Ledger!ledger, SizeIn, UnitIn, SpentIn
    <2>2. ASSUME NEW r \in Slots, R = {r} PROVE Ledger!Next
      <3>1. UnitIn(cons') = [UnitIn(cons) EXCEPT ![r] = NoOrder]
        BY <1>3, <2>0, <2>2
      <3>2. Ledger!Release(r)
        BY <1>1, <1>3, <3>1 DEF Ledger!Release, SizeIn, UnitIn, SpentIn
      <3>. QED BY <3>2 DEF Ledger!Next
    <2>3. R = {} \/ \E r \in Slots : R = {r}
      BY <1>1 DEF GivenBack
    <2>. QED BY <2>1, <2>2, <2>3
  <1>. QED BY <1>2, <1>3, CommitUnits

\* A refund commits.
LEMMA RefundRefines ==
    ASSUME BookInv, NEW i \in Txns, Commit(i), Kind(i) = "refund"
    PROVE  \E o \in Orders : Ledger!Void(o)
  <1> DEFINE Unit == [order : Orders \cup {NoOrder}, restored : BOOLEAN]
  <1>1. /\ Running(i) /\ Left(i) = 1 /\ Kind(i) \in Kinds /\ tx[i].job \in Jobs
        /\ cons' = [u \in Slots |-> IF u \in DOMAIN tx[i].wcons THEN tx[i].wcons[u] ELSE cons[u]]
        /\ standing' = [q \in Orders |-> IF q \in tx[i].wvoid THEN "voided" ELSE standing[q]]
    BY CommitRows
  <1>2. /\ TxOK(i) /\ cons \in [Slots -> Unit] /\ cons' \in [Slots -> Unit]
        /\ standing \in [Orders -> {"none", "live", "voided"}]
    BY CommitCommitted DEF BookInv, Committed
  <1>3. PICK o \in Orders : o = tx[i].job.order
    BY <1>1, JobFields DEF Kind
  <1>4. /\ o \in Orders /\ tx[i].wvoid = {o} /\ standing[o] = "live"
        /\ ActiveRows(ConsSeen(i), o) = {}
    BY <1>3, <1>1, <1>2, AtEnd DEF TxOK, RefundWrites
  <1>5. standing' = [standing EXCEPT ![o] = "voided"] /\ SizeIn(standing)' = SizeIn(standing)
    <2>1. standing' = [standing EXCEPT ![o] = "voided"]
      BY <1>1, <1>2, <1>4
    <2>. QED BY <1>2, <1>4, <2>1 DEF SizeIn
  <1>6. ConsSeen(i) = cons'
    BY DEF Commit
  <1>7. \A s \in Slots : UnitIn(cons')[s] # o
    BY <1>2, <1>4, <1>6, InUseIsActive
  <1>8. ASSUME NEW s \in Slots
        PROVE  /\ UnitIn(cons')[s] = IF UnitIn(cons)[s] = o THEN NoOrder ELSE UnitIn(cons)[s]
               /\ cons'[s].order = cons[s].order
    <2>1. UnitStays(i, s) \/ UnitReturned(i, s)
      BY UnitFate DEF UnitTaken, Consumers, Movers
    <2>2. CASE UnitStays(i, s)
      <3>1. cons'[s] = cons[s] /\ UnitIn(cons')[s] = UnitIn(cons)[s]
        BY <2>2 DEF UnitStays, UnitIn
      <3>. QED BY <1>7, <3>1
    <2>3. CASE UnitReturned(i, s)
      <3>1. InUnit(cons[s]) /\ cons[s].order = o /\ cons'[s] = [cons[s] EXCEPT !.restored = TRUE]
        BY <1>3, <2>3 DEF UnitReturned, Cancellers, Movers
      <3>2. cons'[s].restored /\ cons'[s].order = cons[s].order
        BY <1>2, <3>1
      <3>. QED BY <3>1, <3>2 DEF UnitIn, InUnit
    <2>. QED BY <2>1, <2>2, <2>3
  <1>9. UnitIn(cons') = [s \in Slots |-> IF UnitIn(cons)[s] = o THEN NoOrder ELSE UnitIn(cons)[s]]
    <2>1. UnitIn(cons') = [s \in Slots |-> UnitIn(cons')[s]]
      BY DEF UnitIn
    <2>. QED BY <1>8, <2>1
  <1>10. SpentIn(cons') = SpentIn(cons)
    BY <1>8 DEF SpentIn
  <1>11. Ledger!Void(o)
    BY <1>4, <1>5, <1>9, <1>10 DEF Ledger!Void, SizeIn, UnitIn, SpentIn
  <1>. QED BY <1>3, <1>11

\* A grant issues a purchase.
LEMMA GrantRefines ==
    ASSUME BookInv, NEW o \in Orders, Grant(o)
    PROVE  Ledger!Issue(o)
  <1>1. /\ standing \in [Orders -> {"none", "live", "voided"}] /\ standing[o] = "none"
        /\ standing' = [standing EXCEPT ![o] = "live"] /\ cons' = cons
    BY DEF BookInv, Committed, Grant
  <1>2. /\ SizeIn(standing') = [SizeIn(standing) EXCEPT ![o] = SizeIn(standing')[o]]
        /\ SizeIn(standing')[o] \in Nat
    BY <1>1, TxAssumption DEF SizeIn
  <1>. QED BY <1>1, <1>2 DEF Ledger!Issue, SizeIn

\* Whatever order the statements of concurrent requests run in, every commit is
\* one step of the abstract ledger, or none: no unit is handed out twice although
\* consumePackageUnit counts on a snapshot that a wait leaves stale.
THEOREM BookingTxImplementsUnitLedger == Spec => ImplementsUnitLedger
  <1>1. Init => Ledger!Init
    BY DEF Init, NoCons, Ledger!Init
  <1>2. BookInv /\ [Next]_vars => [Ledger!Next]_(Ledger!ledger)
    <2> SUFFICES ASSUME BookInv, [Next]_vars
                 PROVE  [Ledger!Next]_(Ledger!ledger)
      OBVIOUS
    <2>1. CASE UNCHANGED committed
      BY <2>1 DEF committed, Ledger!ledger
    <2>2. CASE UNCHANGED vars
      BY <2>1, <2>2 DEF vars, committed
    <2>3. ASSUME NEW i \in Txns, Commit(i)
          PROVE  [Ledger!Next]_(Ledger!ledger)
      <3>1. CASE Kind(i) # "refund"
        BY <2>3, <3>1, CommitRefines
      <3>2. CASE Kind(i) = "refund"
        BY <2>3, <3>2, RefundRefines DEF Ledger!Next
      <3>. QED BY <3>1, <3>2
    <2>4. ASSUME NEW o \in Orders, Grant(o)
          PROVE  Ledger!Next
      BY <2>4, GrantRefines DEF Ledger!Next
    <2>. QED BY <2>1, <2>2, <2>3, <2>4, OnlyCommits
  <1>. QED BY <1>1, <1>2, BookingInvariant, PTL DEF Spec, ImplementsUnitLedger, Ledger!Spec
=============================================================================
