----------------------------- MODULE PushProofs -----------------------------
(***************************************************************************)
(* Calendar pushes for any number of lessons, workers, reconnects, jobs    *)
(* and faults.  A lesson is booked once, so its outbox holds at most one   *)
(* create job, and that row's epoch is the only stamp and the only binding *)
(* the lesson ever gets; a delete job is owed only by what saw the lesson  *)
(* cancelled, and cancelled it stays.                                      *)
(***************************************************************************)
EXTENDS CalendarPush, TLAPS

-----------------------------------------------------------------------------
(* The inductive invariant.                                                *)

Is(j, s, kind) == job[j].slot = s /\ job[j].kind = kind

\* A create job of lesson s carries epoch e.
Stamped(s, e) == \E j \in DOMAIN job : Is(j, s, "create") /\ job[j].epoch = e

AttemptsInv ==
    \A j \in DOMAIN job : job[j].status = "pending" => job[j].attempts < MAX_ATTEMPTS

WorkInv == \A w \in Workers : worker[w].at # "idle" => worker[w].job \in DOMAIN job

CreateInv ==
    /\ \A j \in DOMAIN job : job[j].kind = "create" =>
          lesson[job[j].slot].status # "open" /\ "create" \notin owed[job[j].slot]
    /\ \A i, j \in DOMAIN job : /\ job[i].kind = "create" /\ job[j].kind = "create"
                                /\ job[i].slot = job[j].slot
                                => i = j

StampInv ==
    \A s \in Slots : /\ google[s] # None => Stamped(s, google[s])
                     /\ lesson[s].bound # None => Stamped(s, lesson[s].bound)

OwedInv ==
    \A s \in Slots : /\ lesson[s].status = "open" => owed[s] = {}
                     /\ "intent" \in owed[s] => lesson[s].status = "cancelled"
                     /\ intent[s].status # "none" => lesson[s].status = "cancelled"

SweepInv ==
    /\ sweep.at # "idle" /\ sweep.status = "cancelled" =>
          lesson[sweep.slot].status = "cancelled"
    /\ sweep.at = "enqueue" => sweep.status = "cancelled"

PushInv ==
    /\ TypeOK /\ AttemptsInv /\ WorkInv
    /\ OwedInv /\ SweepInv /\ DeletesOnlyCancelled
    /\ CreateInv /\ StampInv

-----------------------------------------------------------------------------
(* The outbox as a value.                                                  *)

\* "None" is no epoch.
LEMMA NoneFacts ==
    /\ None \in Nat /\ None \in 0..None /\ None \notin Epochs /\ 0 \in Epochs
    /\ \A e \in 0..None : e # None => e \in Epochs
    /\ \A e \in Epochs : e \in 0..None
  BY PushAssumption DEF None, Epochs

\* A row of the outbox is a job.
LEMMA RowIn ==
    ASSUME job \in Seq(JobRow), NEW j \in DOMAIN job
    PROVE  job[j] \in JobRow
  OBVIOUS

\* Rewriting rows in place gives an outbox of the same length.
LEMMA Rewritten ==
    ASSUME job \in Seq(JobRow), NEW q, q = [j \in DOMAIN job |-> q[j]],
           \A j \in DOMAIN job : q[j] \in JobRow
    PROVE  q \in Seq(JobRow) /\ Len(q) = Len(job) /\ DOMAIN q = DOMAIN job
  OBVIOUS

\* The old rows keep what they are about.
JobsGrow ==
    \A j \in DOMAIN job : /\ j \in DOMAIN job'
                          /\ job'[j].slot = job[j].slot
                          /\ job'[j].kind = job[j].kind
                          /\ job'[j].epoch = job[j].epoch

\* No row is added, and a pending row has attempts left.
JobsKept == /\ job' \in Seq(JobRow) /\ Len(job') = Len(job) /\ DOMAIN job' = DOMAIN job
            /\ JobsGrow
            /\ AttemptsInv'

\* One row is rewritten.
LEMMA OneJob ==
    ASSUME TypeOK, AttemptsInv, NEW j \in DOMAIN job, NEW r \in JobRow,
           r.slot = job[j].slot, r.kind = job[j].kind, r.epoch = job[j].epoch,
           r.status = "pending" => r.attempts < MAX_ATTEMPTS,
           job' = [job EXCEPT ![j] = r]
    PROVE  JobsKept
  <1>1. job \in Seq(JobRow)
    BY DEF TypeOK
  <1>2. /\ job' = [i \in DOMAIN job |-> job'[i]] /\ job'[j] = r
        /\ \A i \in DOMAIN job : i # j => job'[i] = job[i]
    BY <1>1
  <1>3. \A i \in DOMAIN job : job'[i] \in JobRow
    BY <1>1, <1>2, RowIn
  <1>4. job' \in Seq(JobRow) /\ Len(job') = Len(job) /\ DOMAIN job' = DOMAIN job
    BY <1>1, <1>2, <1>3, Rewritten
  <1>5. JobsGrow
    BY <1>2, <1>4 DEF JobsGrow
  <1>6. AttemptsInv'
    BY <1>2, <1>4 DEF AttemptsInv
  <1>7. QED
    BY <1>4, <1>5, <1>6 DEF JobsKept

\* Its status is rewritten.
LEMMA StatusJob ==
    ASSUME TypeOK, AttemptsInv, NEW j \in DOMAIN job,
           NEW st \in {"pending", "in_progress", "succeeded", "terminal_failure",
                       "cancelled_by_dependent"},
           st = "pending" => job[j].attempts < MAX_ATTEMPTS, SetJob(j, st)
    PROVE  JobsKept
  <1> DEFINE r == [job[j] EXCEPT !.status = st]
  <1>1. job \in Seq(JobRow) /\ job[j] \in JobRow
    BY RowIn DEF TypeOK
  <1>2. /\ r \in JobRow /\ r.slot = job[j].slot /\ r.kind = job[j].kind /\ r.epoch = job[j].epoch
        /\ r.status = st /\ r.attempts = job[j].attempts
    BY <1>1 DEF JobRow
  <1>3. job' = [job EXCEPT ![j] = r]
    BY <1>1 DEF SetJob
  <1> HIDE DEF r
  <1>4. QED
    BY <1>2, <1>3, OneJob

\* One fresh pending row for slot s is added at the end.
JobAdded(s, kind) ==
    /\ job' \in Seq(JobRow) /\ Len(job') = Len(job) + 1 /\ Len(job') <= MaxJobs
    /\ DOMAIN job' = DOMAIN job \cup {Len(job')} /\ Len(job') \notin DOMAIN job
    /\ \A j \in DOMAIN job : job'[j] = job[j]
    /\ LET r == job'[Len(job')] IN /\ r.slot = s /\ r.kind = kind
                                   /\ r.attempts = 0 /\ r \in JobRow

\* That, or nothing, is what enqueuePushJob does.
LEMMA Enqueued ==
    ASSUME TypeOK, NEW s \in Slots, NEW kind \in {"create", "delete"}, enqueuePushJob(s, kind)
    PROVE  job' = job \/ JobAdded(s, kind)
  <1> DEFINE r == [slot |-> s, kind |-> kind, status |-> "pending",
                   attempts |-> 0, tried |-> 0, old |-> FALSE,
                   epoch |-> IF kind = "create" THEN integ.epoch ELSE 0]
  <1>1. job \in Seq(JobRow) /\ integ.epoch \in Epochs /\ Len(job) \in Nat
    BY DEF TypeOK
  <1>2. r \in JobRow /\ r.slot = s /\ r.kind = kind /\ r.attempts = 0
    BY <1>1, NoneFacts, PushAssumption DEF JobRow
  <1>3. job' = job \/ (Len(job) < MaxJobs /\ job' = Append(job, r))
    BY DEF enqueuePushJob
  <1> HIDE DEF r
  <1>4. ASSUME Len(job) < MaxJobs, job' = Append(job, r)
        PROVE  JobAdded(s, kind)
    <2>1. job' \in Seq(JobRow) /\ Len(job') = Len(job) + 1 /\ job'[Len(job) + 1] = r
      BY <1>1, <1>2, <1>4
    <2>2. \A j \in DOMAIN job : job'[j] = job[j]
      BY <1>1, <1>4
    <2>3. DOMAIN job = 1..Len(job) /\ DOMAIN job' = 1..Len(job')
      BY <1>1, <2>1
    <2>4. QED
      BY <1>1, <1>2, <1>4, <2>1, <2>2, <2>3, PushAssumption DEF JobAdded
  <1>5. QED
    BY <1>3, <1>4

-----------------------------------------------------------------------------
(* What every step but a booking and an insert has in common.              *)

\* A lesson may only become cancelled; bindings and stamps come from create
\* jobs or go away; an intent is recorded if owed and owed if cancelled.
Flow ==
    \A s \in Slots :
        /\ \/ lesson'[s].status = lesson[s].status
           \/ lesson[s].status = "booked" /\ lesson'[s].status = "cancelled"
        /\ lesson'[s].bound \in {lesson[s].bound, None} \/ Stamped(s, lesson'[s].bound)
        /\ google'[s] \in {google[s], None} \/ Stamped(s, google'[s])
        /\ "create" \in owed'[s] => "create" \in owed[s]
        /\ "intent" \in owed'[s] => "intent" \in owed[s] \/ lesson'[s].status = "cancelled"
        /\ intent'[s].status # "none" => intent[s].status # "none" \/ "intent" \in owed[s]

\* The outbox as it was.
LEMMA SameJobs ==
    ASSUME PushInv, job' = job
    PROVE  JobsKept
  BY DEF JobsKept, JobsGrow, PushInv, TypeOK, AttemptsInv

\* Such a step keeps the invariant if workers and sweep are well.
LEMMA FlowKeeps ==
    ASSUME PushInv, TypeOK', JobsKept, Flow,
           worker' = worker \/ WorkInv', sweep' = sweep \/ SweepInv'
    PROVE  PushInv'
  <1>a. \A j \in DOMAIN job : job[j].slot \in Slots
    <2>1. \A r \in JobRow : r.slot \in Slots
      BY DEF JobRow
    <2>2. QED
      BY <2>1, RowIn DEF PushInv, TypeOK
  <1>b. /\ DOMAIN job' = DOMAIN job
        /\ \A j \in DOMAIN job : /\ job'[j].slot = job[j].slot
                                 /\ job'[j].kind = job[j].kind
                                 /\ job'[j].epoch = job[j].epoch
    BY DEF JobsKept, JobsGrow
  <1>c. \A s, e : Stamped(s, e) => Stamped(s, e)'
    BY <1>b DEF Stamped, Is
  <1>d. \A s \in Slots : lesson[s].status = "cancelled" => lesson'[s].status = "cancelled"
    BY DEF Flow
  <1>1. AttemptsInv' /\ WorkInv'
    BY <1>b DEF JobsKept, PushInv, WorkInv
  <1>2. OwedInv'
    <2> SUFFICES ASSUME NEW s \in Slots
                 PROVE  /\ lesson'[s].status = "open" => owed'[s] = {}
                        /\ "intent" \in owed'[s] => lesson'[s].status = "cancelled"
                        /\ intent'[s].status # "none" => lesson'[s].status = "cancelled"
      BY DEF OwedInv
    <2>1. /\ lesson[s].status = "open" => owed[s] = {}
          /\ "intent" \in owed[s] => lesson[s].status = "cancelled"
          /\ intent[s].status # "none" => lesson[s].status = "cancelled"
      BY DEF PushInv, OwedInv
    <2>2. owed'[s] \subseteq {"create", "intent"}
      BY DEF TypeOK
    <2>3. QED
      BY <2>1, <2>2, <1>d DEF Flow
  <1>3. SweepInv'
    <2>1. CASE sweep' = sweep
      <3>1. sweep.at # "idle" => sweep.slot \in Slots
        BY DEF PushInv, TypeOK, NoSweep
      <3>2. QED
        BY <1>d, <2>1, <3>1 DEF PushInv, SweepInv
    <2>2. QED
      BY <2>1
  <1>4. DeletesOnlyCancelled'
    BY <1>a, <1>b, <1>d DEF PushInv, DeletesOnlyCancelled
  <1>5. CreateInv'
    <2>1. ASSUME NEW j \in DOMAIN job, job[j].kind = "create"
          PROVE  lesson'[job[j].slot].status # "open" /\ "create" \notin owed'[job[j].slot]
      BY <1>a, <2>1 DEF PushInv, CreateInv, Flow
    <2>2. QED
      BY <1>b, <2>1 DEF PushInv, CreateInv
  <1>6. StampInv'
    BY <1>c DEF PushInv, StampInv, Flow
  <1>7. QED
    BY <1>1, <1>2, <1>3, <1>4, <1>5, <1>6 DEF PushInv

\* Adding a job keeps it if a delete is for a cancelled lesson and a create
\* for one that had none and is no longer owed one.
LEMMA AddKeeps ==
    ASSUME PushInv, TypeOK', NEW s \in Slots, NEW kind \in {"create", "delete"},
           JobAdded(s, kind),
           kind = "delete" => lesson[s].status = "cancelled",
           kind = "create" => /\ "create" \in owed[s] /\ "create" \notin owed'[s],
           UNCHANGED <<lesson, worker, google>>,
           \A u \in Slots : /\ owed'[u] \subseteq owed[u]
                            /\ intent'[u].status # "none" => intent[u].status # "none",
           sweep' = sweep \/ sweep' = NoSweep
    PROVE  PushInv'
  <1> DEFINE n == Len(job')
  <1>a. /\ DOMAIN job' = DOMAIN job \cup {n} /\ n \notin DOMAIN job
        /\ \A j \in DOMAIN job : job'[j] = job[j]
        /\ job'[n].slot = s /\ job'[n].kind = kind /\ job'[n].attempts = 0
    BY DEF JobAdded
  <1> HIDE DEF n
  <1>b. \A j \in DOMAIN job : job[j].slot \in Slots
    <2>1. \A r \in JobRow : r.slot \in Slots
      BY DEF JobRow
    <2>2. QED
      BY <2>1, RowIn DEF PushInv, TypeOK
  <1>c. \A u, e : Stamped(u, e) => Stamped(u, e)'
    BY <1>a DEF Stamped, Is
  <1>1. AttemptsInv'
    BY <1>a, PushAssumption DEF PushInv, AttemptsInv
  <1>2. WorkInv'
    BY <1>a DEF PushInv, WorkInv
  <1>3. OwedInv'
    BY DEF PushInv, OwedInv
  <1>4. SweepInv'
    BY DEF PushInv, SweepInv, NoSweep
  <1>5. DeletesOnlyCancelled'
    BY <1>a DEF PushInv, DeletesOnlyCancelled
  <1>6. CreateInv'
    <2>1. CASE kind = "delete"
      BY <1>a, <1>b, <2>1 DEF PushInv, CreateInv
    <2>2. CASE kind = "create"
      <3>1. \A j \in DOMAIN job : ~Is(j, s, "create")
        BY <2>2 DEF PushInv, CreateInv, Is
      <3>2. lesson[s].status # "open"
        BY <2>2 DEF PushInv, OwedInv
      <3>3. QED
        BY <1>a, <1>b, <2>2, <3>1, <3>2 DEF PushInv, CreateInv, Is
    <2>3. QED
      BY <2>1, <2>2
  <1>7. StampInv'
    BY <1>c DEF PushInv, StampInv
  <1>8. QED
    BY <1>1, <1>2, <1>3, <1>4, <1>5, <1>6, <1>7 DEF PushInv

-----------------------------------------------------------------------------
(* Types, variable by variable.                                            *)

LessonRow == [status : {"open", "booked", "cancelled"}, bound : 0..None]
IntentRow == [status : {"none", "pending", "claimed", "enqueue", "dedup", "verify", "in_progress",
                        "succeeded", "blocked_integration", "terminal_failure"},
              attempts : Nat, bound : 0..None]
WorkerRow == [at : {"idle", "read", "call", "record"}, job : 0..Len(job), bound : 0..None,
              answer : {"none", "ok", "transient", "permanent"}]
SweepRow == [at : {"fetch", "decide", "enqueue"}, slot : Slots, status : {"booked", "cancelled"},
             bound : Epochs, seen : 0..None]
IntegRow == [state : {"active", "disconnected"}, epoch : Epochs]

\* What TypeOK says of each variable.
LEMMA Types ==
    ASSUME PushInv
    PROVE  /\ lesson \in [Slots -> LessonRow]
           /\ owed \in [Slots -> SUBSET {"create", "intent"}]
           /\ job \in Seq(JobRow) /\ Len(job) \in Nat
           /\ intent \in [Slots -> IntentRow]
           /\ worker \in [Workers -> WorkerRow]
           /\ sweep = NoSweep \/ sweep \in SweepRow
           /\ integ \in IntegRow
           /\ google \in [Slots -> 0..None]
           /\ faults \in 0..MaxFaults
  BY DEF PushInv, TypeOK, LessonRow, IntentRow, WorkerRow, SweepRow, IntegRow

\* The next state has its types if no row is added and the rest is typed.
LEMMA TypesKept ==
    ASSUME PushInv, JobsKept,
           lesson' \in [Slots -> LessonRow],
           owed' \in [Slots -> SUBSET {"create", "intent"}],
           intent' \in [Slots -> IntentRow],
           worker' \in [Workers -> WorkerRow],
           sweep' = NoSweep \/ sweep' \in SweepRow,
           integ' \in IntegRow,
           google' \in [Slots -> 0..None],
           faults' \in 0..MaxFaults
    PROVE  TypeOK'
  BY DEF PushInv, TypeOK, JobsKept, LessonRow, IntentRow, WorkerRow, SweepRow, IntegRow

\* A step that adds a fault stays within the bound.
LEMMA FaultType ==
    ASSUME PushInv, faults < MaxFaults, faults' = faults + 1
    PROVE  faults' \in 0..MaxFaults
  BY Types, PushAssumption

\* Writing one binding.
LEMMA BoundWritten ==
    ASSUME PushInv, NEW s \in Slots, NEW b \in 0..None,
           lesson' = [lesson EXCEPT ![s].bound = b]
    PROVE  /\ lesson' \in [Slots -> LessonRow]
           /\ lesson'[s].status = lesson[s].status /\ lesson'[s].bound = b
           /\ \A u \in Slots \ {s} : lesson'[u] = lesson[u]
  BY Types DEF LessonRow

\* Writing one status.
LEMMA StatusWritten ==
    ASSUME PushInv, NEW s \in Slots, NEW st \in {"booked", "cancelled"},
           lesson' = [lesson EXCEPT ![s].status = st]
    PROVE  /\ lesson' \in [Slots -> LessonRow]
           /\ lesson'[s].status = st /\ lesson'[s].bound = lesson[s].bound
           /\ \A u \in Slots \ {s} : lesson'[u] = lesson[u]
  BY Types DEF LessonRow

\* Writing one worker's state.
LEMMA Worked ==
    ASSUME PushInv, NEW w \in Workers, NEW rec \in WorkerRow, Work(w, rec),
           rec.at # "idle" => rec.job \in DOMAIN job, DOMAIN job' = DOMAIN job
    PROVE  worker' \in [Workers -> WorkerRow] /\ WorkInv'
  <1>1. /\ worker' \in [Workers -> WorkerRow] /\ worker'[w] = rec
        /\ \A v \in Workers \ {w} : worker'[v] = worker[v]
    BY Types DEF Work
  <1>2. QED
    BY <1>1 DEF PushInv, WorkInv

\* A worker at work has a job, and the job has a lesson.
LEMMA AtWork ==
    ASSUME PushInv, NEW w \in Workers, worker[w].at # "idle"
    PROVE  /\ worker[w] \in WorkerRow /\ worker[w].job \in DOMAIN job
           /\ JobOf(w) \in JobRow /\ SlotOf(w) \in Slots /\ JobOf(w).epoch \in Epochs
           /\ worker[w].job \in 0..Len(job) /\ worker[w].bound \in 0..None
           /\ JobOf(w).kind \in {"create", "delete"}
  <1>1. worker[w] \in WorkerRow /\ worker[w].job \in DOMAIN job
    BY Types DEF PushInv, WorkInv
  <1>2. JobOf(w) \in JobRow
    BY <1>1, Types, RowIn DEF JobOf
  <1>3. QED
    BY <1>1, <1>2 DEF SlotOf, JobRow, WorkerRow

\* An idle worker's state.
LEMMA IdleType == PushInv => NoWork \in WorkerRow /\ NoWork.at = "idle"
  BY Types, NoneFacts DEF NoWork, WorkerRow

-----------------------------------------------------------------------------
(* The routes, the teacher and the clock.                                  *)

\* A booked lesson owes its one create job.
LEMMA BookStep ==
    ASSUME PushInv, NEW s \in Slots, Book(s)
    PROVE  PushInv'
  <1>1. /\ lesson' \in [Slots -> LessonRow] /\ lesson'[s].status = "booked"
        /\ lesson'[s].bound = lesson[s].bound
        /\ \A u \in Slots \ {s} : lesson'[u] = lesson[u]
        /\ lesson[s].status = "open"
    BY StatusWritten DEF Book
  <1>2. /\ owed' \in [Slots -> SUBSET {"create", "intent"}] /\ owed'[s] = {"create"}
        /\ \A u \in Slots \ {s} : owed'[u] = owed[u]
        /\ UNCHANGED <<job, intent, worker, sweep, integ, google, faults>>
    BY Types DEF Book
  <1>3. TypeOK'
    BY <1>1, <1>2, Types, TypesKept, SameJobs DEF WorkerRow
  <1>a. \A j \in DOMAIN job : job[j].slot \in Slots /\ job[j].slot # s
    <2>1. \A r \in JobRow : r.slot \in Slots /\ r.kind \in {"create", "delete"}
      BY DEF JobRow
    <2>2. \A j \in DOMAIN job : job[j] \in JobRow
      BY Types, RowIn
    <2>3. QED
      BY <1>1, <2>1, <2>2 DEF PushInv, CreateInv, DeletesOnlyCancelled
  <1>4. AttemptsInv' /\ WorkInv'
    BY <1>2 DEF PushInv, AttemptsInv, WorkInv
  <1>5. OwedInv'
    BY <1>1, <1>2 DEF PushInv, OwedInv
  <1>6. SweepInv'
    <2>1. sweep.at # "idle" => sweep.slot \in Slots
      BY Types DEF NoSweep, SweepRow
    <2>2. QED
      BY <1>1, <1>2, <2>1 DEF PushInv, SweepInv
  <1>7. DeletesOnlyCancelled' /\ CreateInv'
    BY <1>1, <1>2, <1>a DEF PushInv, DeletesOnlyCancelled, CreateInv
  <1>8. StampInv'
    BY <1>1, <1>2 DEF PushInv, StampInv, Stamped, Is
  <1>9. QED
    BY <1>3, <1>4, <1>5, <1>6, <1>7, <1>8 DEF PushInv

\* Cancelling, losing what is owed, recording an intent.
LEMMA RouteStep ==
    ASSUME PushInv, NEW s \in Slots, Cancel(s) \/ RecordFails(s) \/ insertPostCancelIntent(s)
    PROVE  PushInv'
  <1>a. JobsKept /\ UNCHANGED <<job, worker, sweep, integ, google>>
    BY SameJobs DEF Cancel, RecordFails, insertPostCancelIntent
  <1>1. CASE Cancel(s)
    <2>1. /\ lesson' \in [Slots -> LessonRow] /\ lesson'[s].status = "cancelled"
          /\ lesson'[s].bound = lesson[s].bound /\ lesson[s].status = "booked"
          /\ \A u \in Slots \ {s} : lesson'[u] = lesson[u]
      BY <1>1, StatusWritten DEF Cancel
    <2>2. /\ owed' \in [Slots -> SUBSET {"create", "intent"}]
          /\ owed'[s] \subseteq owed[s] \cup {"intent"}
          /\ \A u \in Slots \ {s} : owed'[u] = owed[u]
          /\ UNCHANGED <<intent, faults>>
      BY <1>1, Types DEF Cancel
    <2>3. TypeOK'
      BY <1>a, <2>1, <2>2, Types, TypesKept
    <2>4. Flow
      BY <1>a, <2>1, <2>2 DEF Flow
    <2>5. QED
      BY <1>a, <2>3, <2>4, FlowKeeps
  <1>2. CASE RecordFails(s)
    <2>1. /\ owed' \in [Slots -> SUBSET {"create", "intent"}]
          /\ \A u \in Slots : owed'[u] \subseteq owed[u]
      BY <1>2, Types DEF RecordFails
    <2>2. UNCHANGED <<lesson, intent>> /\ faults' \in 0..MaxFaults
      BY <1>2, FaultType DEF RecordFails
    <2>3. TypeOK'
      BY <1>a, <2>1, <2>2, Types, TypesKept
    <2>4. Flow
      BY <1>a, <2>1, <2>2 DEF Flow
    <2>5. QED
      BY <1>a, <2>3, <2>4, FlowKeeps
  <1>3. CASE insertPostCancelIntent(s)
    <2>1. /\ owed' \in [Slots -> SUBSET {"create", "intent"}]
          /\ \A u \in Slots : owed'[u] \subseteq owed[u]
          /\ "intent" \in owed[s] /\ UNCHANGED <<lesson, faults>>
      BY <1>3, Types DEF insertPostCancelIntent
    <2>2. /\ intent' \in [Slots -> IntentRow]
          /\ \A u \in Slots \ {s} : intent'[u] = intent[u]
      BY <1>3, Types, NoneFacts DEF insertPostCancelIntent, NoIntent, IntentRow
    <2>3. TypeOK'
      BY <1>a, <2>1, <2>2, Types, TypesKept
    <2>4. Flow
      BY <1>a, <2>1, <2>2 DEF Flow
    <2>5. QED
      BY <1>a, <2>3, <2>4, FlowKeeps
  <1>4. QED
    BY <1>1, <1>2, <1>3

\* Recording the create job that a booking owes.
LEMMA CreateStep ==
    ASSUME PushInv, NEW s \in Slots, enqueueCreatePushIfIntegrationActive(s)
    PROVE  PushInv'
  <1>1. /\ owed' \in [Slots -> SUBSET {"create", "intent"}]
        /\ \A u \in Slots : owed'[u] \subseteq owed[u]
        /\ "create" \in owed[s] /\ "create" \notin owed'[s]
        /\ UNCHANGED <<lesson, intent, worker, sweep, integ, google, faults>>
    BY Types DEF enqueueCreatePushIfIntegrationActive
  <1>2. job' = job \/ JobAdded(s, "create")
    BY Enqueued DEF enqueueCreatePushIfIntegrationActive, PushInv
  <1>3. CASE job' = job
    <2>1. JobsKept
      BY <1>3, SameJobs
    <2>2. TypeOK'
      BY <1>1, <2>1, Types, TypesKept
    <2>3. Flow
      BY <1>1 DEF Flow
    <2>4. QED
      BY <1>1, <2>1, <2>2, <2>3, FlowKeeps
  <1>4. CASE JobAdded(s, "create")
    <2>1. worker' \in [Workers -> [at : {"idle", "read", "call", "record"}, job : 0..Len(job'),
                                   bound : 0..None, answer : {"none", "ok", "transient", "permanent"}]]
      <3>1. \A x \in 0..Len(job) : x \in 0..Len(job')
        BY <1>4, Types DEF JobAdded
      <3>2. QED
        BY <1>1, <3>1, Types DEF WorkerRow
    <2>2. TypeOK'
      BY <1>1, <1>4, <2>1 DEF PushInv, TypeOK, JobAdded
    <2>3. QED
      BY <1>1, <1>4, <2>2, AddKeeps
  <1>5. QED
    BY <1>2, <1>3, <1>4

\* The teacher connects, disconnects, ignores an orphan, deletes an event, and
\* a delete that succeeded grows old.
LEMMA TeacherStep ==
    ASSUME PushInv,
           \/ disconnectGoogleIntegration \/ upsertGoogleIntegration
           \/ \E s \in Slots : ignoreOrphanSelfSlot(s) \/ TeacherDeletesEvent(s)
           \/ \E j \in DOMAIN job : SixHoursPass(j)
    PROVE  PushInv'
  <1>1. CASE disconnectGoogleIntegration \/ upsertGoogleIntegration
    <2>1. /\ UNCHANGED <<lesson, owed, job, intent, worker, sweep, google, faults>>
          /\ integ' \in IntegRow
      <3>1. integ.epoch < MaxEpoch => integ.epoch + 1 \in Epochs
        BY Types, PushAssumption DEF IntegRow, Epochs
      <3>2. integ \in IntegRow
        BY Types
      <3>3. CASE disconnectGoogleIntegration
        BY <3>2, <3>3 DEF disconnectGoogleIntegration, IntegRow
      <3>4. CASE upsertGoogleIntegration
        BY <3>1, <3>4 DEF upsertGoogleIntegration, IntegRow
      <3>5. QED
        BY <1>1, <3>3, <3>4
    <2>2. JobsKept
      BY <2>1, SameJobs
    <2>3. TypeOK'
      BY <2>1, <2>2, Types, TypesKept
    <2>4. Flow
      BY <2>1 DEF Flow
    <2>5. QED
      BY <2>1, <2>2, <2>3, <2>4, FlowKeeps
  <1>2. ASSUME NEW s \in Slots, ignoreOrphanSelfSlot(s)
        PROVE  PushInv'
    <2>1. UNCHANGED <<owed, job, intent, worker, sweep, integ, google, faults>>
      BY <1>2 DEF ignoreOrphanSelfSlot
    <2>2. /\ lesson' \in [Slots -> LessonRow]
          /\ lesson'[s].status = lesson[s].status /\ lesson'[s].bound = None
          /\ \A u \in Slots \ {s} : lesson'[u] = lesson[u]
      BY <1>2, BoundWritten, NoneFacts DEF ignoreOrphanSelfSlot
    <2>3. JobsKept
      BY <2>1, SameJobs
    <2>4. TypeOK'
      BY <2>1, <2>2, <2>3, Types, TypesKept
    <2>5. Flow
      BY <2>1, <2>2 DEF Flow
    <2>6. QED
      BY <2>1, <2>3, <2>4, <2>5, FlowKeeps
  <1>3. ASSUME NEW s \in Slots, TeacherDeletesEvent(s)
        PROVE  PushInv'
    <2>1. UNCHANGED <<lesson, owed, job, intent, worker, sweep, integ>> /\ faults' \in 0..MaxFaults
      BY <1>3, FaultType DEF TeacherDeletesEvent
    <2>2. google' \in [Slots -> 0..None] /\ \A u \in Slots : google'[u] \in {google[u], None}
      BY <1>3, Types, NoneFacts DEF TeacherDeletesEvent
    <2>3. JobsKept
      BY <2>1, SameJobs
    <2>4. TypeOK'
      BY <2>1, <2>2, <2>3, Types, TypesKept
    <2>5. Flow
      BY <2>1, <2>2 DEF Flow
    <2>6. QED
      BY <2>1, <2>3, <2>4, <2>5, FlowKeeps
  <1>4. ASSUME NEW j \in DOMAIN job, SixHoursPass(j)
        PROVE  PushInv'
    <2> DEFINE r == [job[j] EXCEPT !.old = TRUE]
    <2>1. /\ UNCHANGED <<lesson, owed, intent, worker, sweep, integ, google, faults>>
          /\ job[j] \in JobRow /\ job' = [job EXCEPT ![j] = r] /\ job[j].status = "succeeded"
      BY <1>4, Types, RowIn DEF SixHoursPass
    <2>2. /\ r \in JobRow /\ r.slot = job[j].slot /\ r.kind = job[j].kind
          /\ r.epoch = job[j].epoch /\ r.status = "succeeded"
      BY <2>1 DEF JobRow
    <2> HIDE DEF r
    <2>3. JobsKept
      BY <2>1, <2>2, OneJob DEF PushInv
    <2>4. TypeOK'
      BY <2>1, <2>3, Types, TypesKept
    <2>5. Flow
      BY <2>1 DEF Flow
    <2>6. QED
      BY <2>1, <2>3, <2>4, <2>5, FlowKeeps
  <1>5. QED
    BY <1>1, <1>2, <1>3, <1>4

-----------------------------------------------------------------------------
(* The push worker.                                                        *)

\* Claiming counts the attempt; a pending job has one left.
LEMMA ClaimStep ==
    ASSUME PushInv, NEW w \in Workers, NEW j \in DOMAIN job, claimNextJob(w, j)
    PROVE  PushInv'
  <1> DEFINE r == [job[j] EXCEPT !.status = "in_progress", !.attempts = @ + 1,
                                 !.tried = integ.epoch]
             rec == [NoWork EXCEPT !.at = "read", !.job = j]
  <1>1. /\ job[j] \in JobRow /\ integ.epoch \in Epochs /\ job[j].status = "pending"
        /\ UNCHANGED <<lesson, owed, intent, sweep, integ, google, faults>>
    BY Types, RowIn DEF claimNextJob, IntegRow
  <1>2. job[j].attempts + 1 \in 0..MAX_ATTEMPTS
    <2>1. job[j].attempts \in 0..MAX_ATTEMPTS
      BY <1>1 DEF JobRow
    <2>2. job[j].attempts < MAX_ATTEMPTS
      BY <1>1 DEF PushInv, AttemptsInv
    <2>3. QED
      BY <2>1, <2>2, PushAssumption
  <1>3. /\ r \in JobRow /\ r.slot = job[j].slot /\ r.kind = job[j].kind
        /\ r.epoch = job[j].epoch /\ r.status = "in_progress"
    BY <1>1, <1>2 DEF JobRow
  <1>4. job' = [job EXCEPT ![j] = r]
    BY Types DEF claimNextJob
  <1> HIDE DEF r
  <1>5. JobsKept
    BY <1>3, <1>4, OneJob DEF PushInv
  <1>6. rec \in WorkerRow /\ rec.at = "read" /\ rec.job = j
    <2>1. j \in 0..Len(job)
      BY Types
    <2>2. QED
      BY <2>1, NoneFacts DEF NoWork, WorkerRow
  <1>7. worker' \in [Workers -> WorkerRow] /\ WorkInv'
    BY <1>5, <1>6, Worked DEF claimNextJob, JobsKept
  <1>8. TypeOK'
    BY <1>1, <1>5, <1>7, Types, TypesKept
  <1>9. Flow
    BY <1>1 DEF Flow
  <1>10. QED
    BY <1>1, <1>5, <1>7, <1>8, <1>9, FlowKeeps

\* The worker reads the lesson, or drops the job of one that is cancelled.
LEMMA ReadStep ==
    ASSUME PushInv, NEW w \in Workers, ReadSlot(w)
    PROVE  PushInv'
  <1>1. /\ worker[w] \in WorkerRow /\ worker[w].job \in DOMAIN job /\ SlotOf(w) \in Slots
        /\ UNCHANGED <<lesson, owed, intent, sweep, integ, google, faults>>
    BY AtWork DEF ReadSlot
  <1>2. JobsKept
    BY <1>1, SameJobs, StatusJob DEF ReadSlot, PushInv
  <1>3. worker' \in [Workers -> WorkerRow] /\ WorkInv'
    <2> DEFINE rec == [worker[w] EXCEPT !.at = "call", !.bound = lesson[SlotOf(w)].bound]
    <2>1. lesson[SlotOf(w)].bound \in 0..None
      BY <1>1, Types DEF LessonRow
    <2>2. rec \in WorkerRow /\ rec.job = worker[w].job
      BY <1>1, <2>1 DEF WorkerRow
    <2>3. Work(w, NoWork) \/ Work(w, rec)
      BY DEF ReadSlot
    <2> HIDE DEF rec
    <2>4. QED
      BY <1>1, <1>2, <2>2, <2>3, IdleType, Worked DEF JobsKept
  <1>4. TypeOK'
    BY <1>1, <1>2, <1>3, Types, TypesKept
  <1>5. Flow
    BY <1>1 DEF Flow
  <1>6. QED
    BY <1>1, <1>2, <1>3, <1>4, <1>5, FlowKeeps

\* What a call does to Google: an event goes, stays, or gets the job's stamp.
LEMMA GoogleStep ==
    ASSUME PushInv, NEW w \in Workers, worker[w].at # "idle", GoogleApplies(w) \/ UNCHANGED google
    PROVE  /\ google' \in [Slots -> 0..None]
           /\ \A s \in Slots : google'[s] \in {google[s], None} \/ Stamped(s, google'[s])
  <1>1. /\ worker[w].job \in DOMAIN job /\ SlotOf(w) \in Slots /\ JobOf(w).epoch \in 0..None
        /\ JobOf(w).kind \in {"create", "delete"} /\ google \in [Slots -> 0..None]
        /\ None \in 0..None
    BY AtWork, Types, NoneFacts
  <1>2. CASE UNCHANGED google
    BY <1>1, <1>2
  <1>3. CASE GoogleApplies(w)
    <2>1. /\ google' \in [Slots -> 0..None]
          /\ \A s \in Slots \ {SlotOf(w)} : google'[s] = google[s]
          /\ \/ google'[SlotOf(w)] \in {google[SlotOf(w)], None}
             \/ JobOf(w).kind = "create" /\ google'[SlotOf(w)] = JobOf(w).epoch
      BY <1>1, <1>3 DEF GoogleApplies
    <2>2. JobOf(w).kind = "create" => Stamped(SlotOf(w), JobOf(w).epoch)
      BY <1>1 DEF Stamped, Is, JobOf, SlotOf
    <2>3. QED
      BY <2>1, <2>2
  <1>4. QED
    BY <1>2, <1>3

\* A call, answered, failed or refused.
LEMMA CallStep ==
    ASSUME PushInv, NEW w \in Workers, CallGoogle(w) \/ CallFails(w)
    PROVE  PushInv'
  <1>1. /\ worker[w].at = "call" /\ worker[w] \in WorkerRow /\ worker[w].job \in DOMAIN job
        /\ UNCHANGED <<lesson, owed, job, intent, sweep>>
    BY AtWork DEF CallGoogle, CallFails
  <1>2. JobsKept
    BY <1>1, SameJobs
  <1>3. \E answer \in {"ok", "transient", "permanent"} : Answered(w, answer)
    BY DEF CallGoogle, CallFails
  <1>4. worker' \in [Workers -> WorkerRow] /\ WorkInv'
    <2>1. PICK answer \in {"ok", "transient", "permanent"} : Answered(w, answer)
      BY <1>3
    <2> DEFINE rec == [worker[w] EXCEPT !.at = "record", !.answer = answer]
    <2>2. rec \in WorkerRow /\ rec.job = worker[w].job
      BY <1>1 DEF WorkerRow
    <2>3. Work(w, rec)
      BY <2>1 DEF Answered
    <2> HIDE DEF rec
    <2>4. QED
      BY <1>1, <2>2, <2>3, Worked
  <1>5. GoogleApplies(w) \/ UNCHANGED google
    BY DEF CallGoogle, CallFails
  <1>6. integ' \in IntegRow /\ faults' \in 0..MaxFaults
    <2>1. CASE CallGoogle(w)
      BY <2>1, Types DEF CallGoogle
    <2>2. CASE CallFails(w)
      <3>1. integ' = integ \/ integ' = [integ EXCEPT !.state = "disconnected"]
        BY <2>2 DEF CallFails
      <3>2. integ \in IntegRow
        BY Types
      <3>3. integ' \in IntegRow
        BY <3>1, <3>2 DEF IntegRow
      <3>4. QED
        BY <2>2, <3>3, FaultType DEF CallFails
    <2>3. QED
      BY <2>1, <2>2
  <1>7. /\ google' \in [Slots -> 0..None]
        /\ \A s \in Slots : google'[s] \in {google[s], None} \/ Stamped(s, google'[s])
    BY <1>1, <1>5, GoogleStep
  <1>8. TypeOK'
    BY <1>1, <1>2, <1>4, <1>6, <1>7, Types, TypesKept
  <1>9. Flow
    BY <1>1, <1>7 DEF Flow
  <1>10. QED
    BY <1>1, <1>2, <1>4, <1>8, <1>9, FlowKeeps

\* A success binds the lesson to its create job's epoch, or unbinds it.
LEMMA SuccessStep ==
    ASSUME PushInv, NEW w \in Workers, RecordSuccess(w)
    PROVE  PushInv'
  <1> DEFINE s == SlotOf(w)
             b == IF JobOf(w).kind = "create" THEN JobOf(w).epoch
                  ELSE IF worker[w].bound # None THEN None ELSE lesson[s].bound
  <1>1. /\ worker[w].job \in DOMAIN job /\ s \in Slots /\ JobOf(w).epoch \in 0..None
        /\ UNCHANGED <<owed, intent, sweep, integ, google, faults>>
        /\ Work(w, NoWork) /\ SetJob(worker[w].job, "succeeded")
    BY AtWork, NoneFacts DEF RecordSuccess
  <1>2. JobsKept
    BY <1>1, StatusJob DEF PushInv
  <1>3. worker' \in [Workers -> WorkerRow] /\ WorkInv'
    BY <1>1, <1>2, IdleType, Worked DEF JobsKept
  <1>4. b \in 0..None /\ lesson' = [lesson EXCEPT ![s].bound = b]
    <2>1. lesson[s].bound \in 0..None
      BY <1>1, Types DEF LessonRow
    <2>2. QED
      BY <1>1, <2>1, NoneFacts DEF RecordSuccess, Bind, Unbind
  <1>5. b \in {lesson[s].bound, None} \/ Stamped(s, b)
    BY <1>1 DEF Stamped, Is, JobOf, SlotOf
  <1> HIDE DEF b, s
  <1>6. /\ lesson' \in [Slots -> LessonRow]
        /\ lesson'[s].status = lesson[s].status /\ lesson'[s].bound = b
        /\ \A u \in Slots \ {s} : lesson'[u] = lesson[u]
    BY <1>1, <1>4, BoundWritten
  <1>7. TypeOK'
    BY <1>1, <1>2, <1>3, <1>6, Types, TypesKept
  <1>8. Flow
    BY <1>1, <1>5, <1>6 DEF Flow
  <1>9. QED
    BY <1>1, <1>2, <1>3, <1>7, <1>8, FlowKeeps

\* A failure is retried while attempts are left; a crash leaves the job.
LEMMA FailureStep ==
    ASSUME PushInv, NEW w \in Workers, markFailure(w) \/ Crash(w)
    PROVE  PushInv'
  <1>1. /\ worker[w].job \in DOMAIN job /\ Work(w, NoWork)
        /\ UNCHANGED <<lesson, owed, intent, sweep, integ, google>>
    BY AtWork DEF markFailure, Crash
  <1>2. JobsKept
    <2>1. \/ job' = job
          \/ SetJob(worker[w].job, "terminal_failure")
          \/ Retryable(w) /\ SetJob(worker[w].job, "pending")
      BY DEF markFailure, Crash
    <2>2. Retryable(w) => job[worker[w].job].attempts < MAX_ATTEMPTS
      BY DEF Retryable, JobOf
    <2>3. QED
      BY <1>1, <2>1, <2>2, SameJobs, StatusJob DEF PushInv
  <1>3. worker' \in [Workers -> WorkerRow] /\ WorkInv'
    BY <1>1, <1>2, IdleType, Worked DEF JobsKept
  <1>4. faults' \in 0..MaxFaults
    BY FaultType, Types DEF markFailure, Crash
  <1>5. TypeOK'
    BY <1>1, <1>2, <1>3, <1>4, Types, TypesKept
  <1>6. Flow
    BY <1>1 DEF Flow
  <1>7. QED
    BY <1>1, <1>2, <1>3, <1>5, <1>6, FlowKeeps

-----------------------------------------------------------------------------
(* The intent worker and the sweep.                                        *)

\* Writing the status of an intent that is there.
LEMMA IntentMoved ==
    ASSUME PushInv, NEW s \in Slots, NEW st \in {"dedup", "verify"}, SetIntent(s, st),
           intent[s].status # "none"
    PROVE  /\ intent' \in [Slots -> IntentRow]
           /\ \A u \in Slots : intent'[u].status # "none" => intent[u].status # "none"
  <1> DEFINE r == [intent[s] EXCEPT !.status = st]
  <1>1. intent[s] \in IntentRow
    BY Types
  <1>2. r \in IntentRow
    BY <1>1 DEF IntentRow
  <1>3. intent' = [intent EXCEPT ![s] = r]
    BY DEF SetIntent
  <1> HIDE DEF r
  <1>4. QED
    BY <1>2, <1>3, Types

\* An intent moves on: its slot was cancelled when it was recorded.
LEMMA IntentKeeps ==
    ASSUME PushInv, JobsKept, intent' \in [Slots -> IntentRow],
           \A s \in Slots : intent'[s].status # "none" => intent[s].status # "none",
           UNCHANGED <<lesson, owed, worker, sweep, integ, google>>, faults' \in 0..MaxFaults
    PROVE  PushInv'
  <1>1. TypeOK'
    BY Types, TypesKept
  <1>2. Flow
    BY DEF Flow
  <1>3. QED
    BY <1>1, <1>2, FlowKeeps

\* Every step of it that adds no job.
LEMMA IntentStep ==
    ASSUME PushInv,
           \/ reviveBlockedIntents
           \/ \E s \in Slots : \/ claimNextIntent(s) \/ processPostCancelPush(s)
                               \/ VerifyDelete(s) \/ IntentCrash(s)
    PROVE  PushInv'
  <1>1. /\ UNCHANGED <<lesson, owed, job, worker, sweep, integ, google>>
        /\ faults' \in 0..MaxFaults
    BY FaultType, Types DEF reviveBlockedIntents, claimNextIntent, processPostCancelPush,
                            VerifyDelete, IntentCrash
  <1>2. JobsKept
    BY <1>1, SameJobs
  <1>3. ASSUME NEW s \in Slots, NEW r \in IntentRow, intent' = [intent EXCEPT ![s] = r],
               intent[s].status # "none"
        PROVE  PushInv'
    <2>1. /\ intent' \in [Slots -> IntentRow]
          /\ \A u \in Slots : intent'[u].status # "none" => intent[u].status # "none"
      BY <1>3, Types
    <2>2. QED
      BY <1>1, <1>2, <2>1, IntentKeeps
  <1>4. ASSUME NEW s \in Slots, claimNextIntent(s)
        PROVE  PushInv'
    <2> DEFINE n == intent[s].attempts + 1
               r == [intent[s] EXCEPT !.status = "claimed", !.attempts = n]
    <2>1. intent[s] \in IntentRow
      BY Types
    <2>a. n \in Nat
      BY <2>1 DEF IntentRow
    <2> HIDE DEF n
    <2>2. r \in IntentRow
      BY <2>1, <2>a DEF IntentRow
    <2>3. intent' = [intent EXCEPT ![s] = r] /\ intent[s].status # "none"
      BY <1>4, Types DEF claimNextIntent, n
    <2> HIDE DEF r
    <2>4. QED
      BY <1>3, <2>2, <2>3
  <1>5. ASSUME NEW s \in Slots, processPostCancelPush(s)
        PROVE  PushInv'
    <2> DEFINE st == IF Connected THEN "enqueue"
                     ELSE IF intent[s].attempts >= INTENT_MAX_ATTEMPTS
                          THEN "terminal_failure" ELSE "blocked_integration"
               r == [intent[s] EXCEPT !.bound = lesson[s].bound, !.status = st]
    <2>1. intent[s] \in IntentRow /\ lesson[s].bound \in 0..None
      BY Types DEF LessonRow
    <2>2. st \in {"enqueue", "terminal_failure", "blocked_integration"}
      OBVIOUS
    <2>3. intent' = [intent EXCEPT ![s] = r] /\ intent[s].status # "none"
      BY <1>5, Types DEF processPostCancelPush
    <2> HIDE DEF st
    <2>4. r \in IntentRow
      BY <2>1, <2>2 DEF IntentRow
    <2> HIDE DEF r
    <2>5. QED
      BY <1>3, <2>3, <2>4
  <1>6. ASSUME NEW s \in Slots, NEW st \in {"succeeded", "pending", "in_progress"},
               intent' = [intent EXCEPT ![s].bound = None, ![s].status = st],
               intent[s].status # "none"
        PROVE  PushInv'
    <2> DEFINE r == [intent[s] EXCEPT !.bound = None, !.status = st]
    <2>1. intent[s] \in IntentRow
      BY Types
    <2>2. r \in IntentRow
      BY <2>1, NoneFacts DEF IntentRow
    <2>3. intent' = [intent EXCEPT ![s] = r]
      BY <1>6, Types
    <2> HIDE DEF r
    <2>4. QED
      BY <1>3, <1>6, <2>2, <2>3
  <1>7. ASSUME NEW s \in Slots, VerifyDelete(s)
        PROVE  PushInv'
    BY <1>6, <1>7 DEF VerifyDelete
  <1>8. ASSUME NEW s \in Slots, IntentCrash(s)
        PROVE  PushInv'
    <2> DEFINE r == [intent[s] EXCEPT !.status = "in_progress", !.bound = None]
    <2>1. intent[s] \in IntentRow
      BY Types
    <2>2. r \in IntentRow
      BY <2>1, NoneFacts DEF IntentRow
    <2>3. intent' = [intent EXCEPT ![s] = r] /\ intent[s].status # "none"
      BY <1>8, Types DEF IntentCrash
    <2> HIDE DEF r
    <2>4. QED
      BY <1>3, <2>2, <2>3
  <1>9. ASSUME reviveBlockedIntents
        PROVE  PushInv'
    <2>1. ASSUME NEW s \in Slots
          PROVE  /\ intent'[s] \in IntentRow
                 /\ intent'[s].status # "none" => intent[s].status # "none"
      <3>1. intent[s] \in IntentRow
        BY Types
      <3>2. [intent[s] EXCEPT !.status = "pending"] \in IntentRow
        BY <3>1 DEF IntentRow
      <3>3. QED
        BY <1>9, <3>1, <3>2 DEF reviveBlockedIntents
    <2>2. intent' = [s \in Slots |-> intent'[s]]
      BY <1>9 DEF reviveBlockedIntents
    <2>3. QED
      BY <1>1, <1>2, <2>1, <2>2, IntentKeeps
  <1>10. QED
    BY <1>4, <1>5, <1>7, <1>8, <1>9

\* The deduplication cancels pending creates and touches nothing else.
LEMMA DedupStep ==
    ASSUME PushInv, NEW s \in Slots, DedupCreate(s)
    PROVE  PushInv'
  <1>1. ASSUME NEW j \in DOMAIN job
        PROVE  /\ job'[j] \in JobRow /\ job'[j].slot = job[j].slot
               /\ job'[j].kind = job[j].kind /\ job'[j].epoch = job[j].epoch
               /\ job'[j].status = "pending" => job'[j].attempts < MAX_ATTEMPTS
    <2> DEFINE r == [job[j] EXCEPT !.status = "cancelled_by_dependent"]
    <2>1. job[j] \in JobRow /\ (job[j].status = "pending" => job[j].attempts < MAX_ATTEMPTS)
      BY Types, RowIn DEF PushInv, AttemptsInv
    <2>2. /\ r \in JobRow /\ r.slot = job[j].slot /\ r.kind = job[j].kind
          /\ r.epoch = job[j].epoch /\ r.status = "cancelled_by_dependent"
      BY <2>1 DEF JobRow
    <2>3. job'[j] \in {r, job[j]}
      BY DEF DedupCreate
    <2> HIDE DEF r
    <2>4. QED
      BY <2>1, <2>2, <2>3
  <1>2. job' = [j \in DOMAIN job |-> job'[j]]
    BY DEF DedupCreate
  <1>3. job' \in Seq(JobRow) /\ Len(job') = Len(job) /\ DOMAIN job' = DOMAIN job
    BY <1>1, <1>2, Types, Rewritten
  <1>4. JobsKept
    BY <1>1, <1>3 DEF JobsKept, JobsGrow, AttemptsInv
  <1>5. /\ intent' \in [Slots -> IntentRow]
        /\ \A u \in Slots : intent'[u].status # "none" => intent[u].status # "none"
    BY IntentMoved DEF DedupCreate
  <1>6. QED
    BY <1>4, <1>5, Types, IntentKeeps DEF DedupCreate

\* A delete job is added, or is there already, for a lesson that was cancelled.
LEMMA DeleteKeeps ==
    ASSUME PushInv, NEW s \in Slots, enqueuePushJob(s, "delete"),
           lesson[s].status = "cancelled", intent' \in [Slots -> IntentRow],
           \A u \in Slots : intent'[u].status # "none" => intent[u].status # "none",
           sweep' = sweep \/ sweep' = NoSweep,
           UNCHANGED <<lesson, owed, worker, integ, google, faults>>
    PROVE  PushInv'
  <1>1. job' = job \/ JobAdded(s, "delete")
    BY Enqueued DEF PushInv
  <1>2. CASE job' = job
    <2>1. JobsKept
      BY <1>2, SameJobs
    <2>2. TypeOK'
      BY <2>1, Types, TypesKept
    <2>3. Flow
      BY DEF Flow
    <2>4. sweep' = sweep \/ SweepInv'
      BY DEF SweepInv, NoSweep
    <2>5. QED
      BY <2>1, <2>2, <2>3, <2>4, FlowKeeps
  <1>3. CASE JobAdded(s, "delete")
    <2>1. worker' \in [Workers -> [at : {"idle", "read", "call", "record"}, job : 0..Len(job'),
                                   bound : 0..None, answer : {"none", "ok", "transient", "permanent"}]]
      <3>1. \A x \in 0..Len(job) : x \in 0..Len(job')
        BY <1>3, Types DEF JobAdded
      <3>2. QED
        BY <3>1, Types DEF WorkerRow
    <2>2. TypeOK'
      BY <1>3, <2>1 DEF PushInv, TypeOK, JobAdded, IntentRow
    <2>3. QED
      BY <1>3, <2>2, AddKeeps
  <1>4. QED
    BY <1>1, <1>2, <1>3

\* The intent's delete and the sweep's.
LEMMA DeleteStep ==
    ASSUME PushInv, ReenqueueDelete \/ \E s \in Slots : EnqueueDelete(s)
    PROVE  PushInv'
  <1>1. CASE ReenqueueDelete
    <2>1. sweep.slot \in Slots /\ lesson[sweep.slot].status = "cancelled"
      BY <1>1, Types DEF ReenqueueDelete, PushInv, SweepInv, NoSweep, SweepRow
    <2>2. QED
      BY <1>1, <2>1, Types, DeleteKeeps DEF ReenqueueDelete
  <1>2. ASSUME NEW s \in Slots, EnqueueDelete(s)
        PROVE  PushInv'
    <2>1. lesson[s].status = "cancelled"
      BY <1>2 DEF EnqueueDelete, PushInv, OwedInv
    <2>2. /\ intent' \in [Slots -> IntentRow]
          /\ \A u \in Slots : intent'[u].status # "none" => intent[u].status # "none"
      BY <1>2, IntentMoved DEF EnqueueDelete
    <2>3. QED
      BY <1>2, <2>1, <2>2, DeleteKeeps DEF EnqueueDelete
  <1>3. QED
    BY <1>1, <1>2

\* The sweep moves on without touching outbox, workers or events.
LEMMA SweepKeeps ==
    ASSUME PushInv, sweep' = NoSweep \/ (sweep' \in SweepRow /\ SweepInv'),
           lesson' \in [Slots -> LessonRow],
           \A s \in Slots : /\ lesson'[s].status = lesson[s].status
                            /\ lesson'[s].bound \in {lesson[s].bound, None},
           UNCHANGED <<owed, job, intent, worker, integ, google>>, faults' \in 0..MaxFaults
    PROVE  PushInv'
  <1>1. JobsKept
    BY SameJobs
  <1>2. TypeOK'
    BY <1>1, Types, TypesKept
  <1>3. Flow
    BY DEF Flow
  <1>4. SweepInv'
    BY DEF SweepInv, NoSweep
  <1>5. QED
    BY <1>1, <1>2, <1>3, <1>4, FlowKeeps

\* It remembers a status that only a booked lesson can still change.
LEMMA SweepStep ==
    ASSUME PushInv,
           \/ FetchEvent \/ FetchFails \/ UnbindDrifted \/ LeaveBound \/ PassGate
           \/ \E s \in Slots : pickReconcileCandidates(s)
    PROVE  PushInv'
  <1>a. \A x : sweep.at = x /\ x # "idle" => sweep \in SweepRow
    BY Types DEF NoSweep
  <1>1. ASSUME NEW s \in Slots, pickReconcileCandidates(s)
        PROVE  PushInv'
    <2>1. lesson[s].bound \in Epochs
      BY <1>1, Types, NoneFacts DEF pickReconcileCandidates, LessonRow
    <2>2. sweep' \in SweepRow /\ SweepInv'
      BY <1>1, <2>1, NoneFacts DEF pickReconcileCandidates, Candidate, SweepRow, SweepInv
    <2>3. QED
      BY <1>1, <2>2, Types, SweepKeeps DEF pickReconcileCandidates
  <1>2. CASE FetchEvent
    <2>1. sweep' = NoSweep \/ (sweep' \in SweepRow /\ SweepInv')
      <3>1. CASE ~Connected
        BY <1>2, <3>1 DEF FetchEvent
      <3>2. CASE Connected
        <4>1. sweep \in SweepRow /\ sweep.at = "fetch"
          BY <1>2, <1>a DEF FetchEvent
        <4>2. google[sweep.slot] \in 0..None
          BY <4>1, Types DEF SweepRow
        <4>3. /\ sweep' \in SweepRow /\ sweep'.at = "decide" /\ sweep'.slot = sweep.slot
              /\ sweep'.status = sweep.status /\ lesson' = lesson
          BY <1>2, <3>2, <4>1, <4>2 DEF FetchEvent, SweepRow
        <4>4. QED
          BY <4>1, <4>3 DEF PushInv, SweepInv
      <3>3. QED
        BY <3>1, <3>2
    <2>2. QED
      BY <1>2, <2>1, Types, SweepKeeps DEF FetchEvent
  <1>3. CASE FetchFails
    <2>1. faults' \in 0..MaxFaults
      BY <1>3, FaultType DEF FetchFails
    <2>2. QED
      BY <1>3, <2>1, Types, SweepKeeps DEF FetchFails
  <1>4. CASE LeaveBound
    BY <1>4, Types, SweepKeeps DEF LeaveBound
  <1>5. CASE PassGate
    <2>1. sweep \in SweepRow /\ sweep.at = "decide" /\ sweep.status = "cancelled"
      BY <1>5, <1>a DEF PassGate
    <2>2. /\ sweep' \in SweepRow /\ sweep'.at = "enqueue" /\ sweep'.slot = sweep.slot
          /\ sweep'.status = sweep.status /\ lesson' = lesson
      BY <1>5, <2>1 DEF PassGate, SweepRow
    <2>3. SweepInv'
      BY <2>1, <2>2 DEF PushInv, SweepInv
    <2>4. QED
      BY <1>5, <2>2, <2>3, Types, SweepKeeps DEF PassGate
  <1>6. CASE UnbindDrifted
    <2> DEFINE s == sweep.slot
               b == IF lesson[s].status = sweep.status THEN None ELSE lesson[s].bound
    <2>1. s \in Slots
      BY <1>6, <1>a DEF UnbindDrifted, SweepRow
    <2>2. b \in 0..None /\ b \in {lesson[s].bound, None}
      BY <2>1, Types, NoneFacts DEF LessonRow
    <2>3. lesson' = [lesson EXCEPT ![s].bound = b]
      BY <1>6 DEF UnbindDrifted
    <2> HIDE DEF b, s
    <2>4. /\ lesson' \in [Slots -> LessonRow]
          /\ lesson'[s].status = lesson[s].status /\ lesson'[s].bound = b
          /\ \A u \in Slots \ {s} : lesson'[u] = lesson[u]
      BY <2>1, <2>2, <2>3, BoundWritten
    <2>5. \A u \in Slots : /\ lesson'[u].status = lesson[u].status
                           /\ lesson'[u].bound \in {lesson[u].bound, None}
      BY <2>2, <2>4
    <2>6. QED
      BY <1>6, <2>4, <2>5, Types, SweepKeeps DEF UnbindDrifted
  <1>7. QED
    BY <1>1, <1>2, <1>3, <1>4, <1>5, <1>6

-----------------------------------------------------------------------------
(* The theorems.                                                           *)

\* Every step keeps the invariant.
LEMMA PushStep ==
    ASSUME PushInv, [Next]_vars
    PROVE  PushInv'
  <1>1. CASE UNCHANGED vars
    BY <1>1 DEF vars, PushInv, TypeOK, AttemptsInv, WorkInv, OwedInv, SweepInv,
                DeletesOnlyCancelled, CreateInv, StampInv, Stamped, Is
  <1>2. ASSUME NEW s \in Slots, Route(s) \/ Recording(s) \/ Intents(s) \/ IntentCrash(s)
        PROVE  PushInv'
    BY <1>2, BookStep, RouteStep, CreateStep, IntentStep, DedupStep, DeleteStep
       DEF Route, Recording, Intents
  <1>3. ASSUME NEW w \in Workers, Push(w) \/ CallFails(w) \/ Crash(w)
        PROVE  PushInv'
    BY <1>3, ClaimStep, ReadStep, CallStep, SuccessStep, FailureStep DEF Push
  <1>4. CASE Sweep \/ FetchFails
    BY <1>4, SweepStep, DeleteStep DEF Sweep
  <1>5. QED
    BY <1>1, <1>2, <1>3, <1>4, TeacherStep, IntentStep DEF Next

\* Jobs, intents, sweep, bindings and events fit together in every state.
THEOREM PushInvariant == Spec => []PushInv
  <1>1. Init => PushInv
    <2> SUFFICES ASSUME Init PROVE PushInv
      OBVIOUS
    <2>1. job = <<>> /\ <<>> \in Seq(JobRow) /\ Len(<<>>) = 0 /\ DOMAIN job = {}
      BY DEF Init
    <2>2. TypeOK
      <3>1. lesson \in [Slots -> LessonRow] /\ intent \in [Slots -> IntentRow]
        BY NoneFacts DEF Init, LessonRow, IntentRow, NoIntent
      <3>2. worker \in [Workers -> WorkerRow]
        BY <2>1, NoneFacts DEF Init, WorkerRow, NoWork
      <3>3. google \in [Slots -> 0..None] /\ owed \in [Slots -> SUBSET {"create", "intent"}]
        BY NoneFacts DEF Init
      <3>4. integ \in IntegRow /\ faults \in 0..MaxFaults /\ Len(job) <= MaxJobs
        BY <2>1, NoneFacts, PushAssumption DEF Init, IntegRow
      <3>5. QED
        BY <2>1, <3>1, <3>2, <3>3, <3>4
           DEF Init, TypeOK, LessonRow, IntentRow, WorkerRow, IntegRow
    <2>3. AttemptsInv /\ DeletesOnlyCancelled /\ CreateInv
      BY <2>1 DEF AttemptsInv, DeletesOnlyCancelled, CreateInv
    <2>4. WorkInv /\ OwedInv /\ SweepInv /\ StampInv
      BY DEF Init, WorkInv, NoWork, OwedInv, NoIntent, SweepInv, NoSweep, StampInv
    <2>5. QED
      BY <2>2, <2>3, <2>4 DEF PushInv
  <1>2. PushInv /\ [Next]_vars => PushInv'
    BY PushStep
  <1>3. QED
    BY <1>1, <1>2, PTL DEF Spec

\* Columns and worker states have their types, and no job is tried more often
\* than MAX_ATTEMPTS.
THEOREM PushTypeCorrect == Spec => []TypeOK
  <1>1. PushInv => TypeOK
    BY DEF PushInv
  <1>2. QED
    BY <1>1, PushInvariant, PTL

\* No delete job, however late it runs, is about a lesson that takes place.
THEOREM DeletesAreOfCancelled == Spec => []DeletesOnlyCancelled
  <1>1. PushInv => DeletesOnlyCancelled
    BY DEF PushInv
  <1>2. QED
    BY <1>1, PushInvariant, PTL

\* Binding and stamp of a lesson both come from its one create job.
THEOREM BindingsMatchStamps == Spec => []BindingMatchesStamp
  <1>1. PushInv => BindingMatchesStamp
    BY DEF PushInv, StampInv, CreateInv, Stamped, Is, BindingMatchesStamp
  <1>2. QED
    BY <1>1, PushInvariant, PTL
=============================================================================
