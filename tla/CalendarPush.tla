--------------------------- MODULE CalendarPush ----------------------------
(***************************************************************************)
(* A teacher's lessons in Google Calendar: the outbox of create and delete *)
(* jobs (push-worker.ts), the intents that owe a delete after a learner's  *)
(* cancel (intent-worker.ts), the daily sweep that compares bindings with  *)
(* Google (reconcile-runner.ts), and connecting, disconnecting and         *)
(* ignoring orphans (integrations.ts, orphan-cleanup.ts).  One teacher,    *)
(* one write calendar; an event's id is computed from its lesson, so an    *)
(* event is its lesson's.  No code enqueues update jobs.                   *)
(***************************************************************************)
EXTENDS Naturals, Sequences, FiniteSets

CONSTANTS
    Slots, Workers,
    MAX_ATTEMPTS, INTENT_MAX_ATTEMPTS,
    MaxEpoch,       \* bound: how often the teacher reconnects
    MaxJobs,        \* bound: rows of the outbox
    MaxFaults       \* bound: failed calls to Google, lost statements, crashes

ASSUME PushAssumption ==
    /\ MAX_ATTEMPTS \in Nat \ {0} /\ INTENT_MAX_ATTEMPTS \in Nat \ {0}
    /\ MaxEpoch \in Nat /\ MaxJobs \in Nat /\ MaxFaults \in Nat

VARIABLES
    lesson,     \* lesson_slots: status and the epoch of the binding
    owed,       \* what the routes still have to record: "create", "intent"
    job,        \* calendar_push_jobs, in the order of created_at
    intent,     \* slot_lifecycle_intents, post_cancel_push
    worker,     \* the push workers
    sweep,      \* the slot the reconcile sweep is at
    integ,      \* teacher_calendar_integrations: sync_state, epoch
    google,     \* the lessons' events, by their lc_epoch
    faults

vars == <<lesson, owed, job, intent, worker, sweep, integ, google, faults>>

Epochs == 0..MaxEpoch
None == MaxEpoch + 1        \* no binding, no event

NoWork == [at |-> "idle", job |-> 0, bound |-> None, answer |-> "none"]
NoSweep == [at |-> "idle"]
NoIntent == [status |-> "none", attempts |-> 0, bound |-> None]

Init ==
    /\ lesson = [s \in Slots |-> [status |-> "open", bound |-> None]]
    /\ owed = [s \in Slots |-> {}]
    /\ job = <<>>
    /\ intent = [s \in Slots |-> NoIntent]
    /\ worker = [w \in Workers |-> NoWork]
    /\ sweep = NoSweep
    /\ integ = [state |-> "active", epoch |-> 0]
    /\ google = [s \in Slots |-> None]
    /\ faults = 0

Connected == integ.state = "active"

-----------------------------------------------------------------------------
(* The outbox.                                                             *)

Jobs(s, kind) == {j \in DOMAIN job : job[j].slot = s /\ job[j].kind = kind}
Pending(s, kind) == \E j \in Jobs(s, kind) : job[j].status = "pending"

\* The insert conflicts with a pending row of the same slot and kind only.
enqueuePushJob(s, kind) ==
    IF Pending(s, kind) THEN UNCHANGED job
    ELSE /\ Len(job) < MaxJobs
         /\ job' = Append(job, [slot |-> s, kind |-> kind, status |-> "pending",
                                attempts |-> 0, tried |-> 0, old |-> FALSE,
                                epoch |-> IF kind = "create" THEN integ.epoch ELSE 0])

SetJob(j, status) == job' = [job EXCEPT ![j].status = status]

\* More than six hours since the last attempt, which only deletes are asked for.
SixHoursPass(j) ==
    /\ job[j].kind = "delete" /\ job[j].status = "succeeded" /\ ~job[j].old
    /\ job' = [job EXCEPT ![j].old = TRUE]
    /\ UNCHANGED <<lesson, owed, intent, worker, sweep, integ, google, faults>>

-----------------------------------------------------------------------------
(* The routes.  What they owe the calendar is recorded after the commit,   *)
(* and a failure to record it is only logged.                              *)

Book(s) ==
    /\ lesson[s].status = "open"
    /\ lesson' = [lesson EXCEPT ![s].status = "booked"]
    /\ owed' = [owed EXCEPT ![s] = {"create"}]
    /\ UNCHANGED <<job, intent, worker, sweep, integ, google, faults>>

enqueueCreatePushIfIntegrationActive(s) ==
    /\ "create" \in owed[s]
    /\ owed' = [owed EXCEPT ![s] = @ \ {"create"}]
    /\ IF Connected THEN enqueuePushJob(s, "create") ELSE UNCHANGED job
    /\ UNCHANGED <<lesson, intent, worker, sweep, integ, google, faults>>

\* Only the learner's route owes an intent; the teacher's and the
\* administrator's cancels do not.
Cancel(s) ==
    /\ lesson[s].status = "booked"
    /\ lesson' = [lesson EXCEPT ![s].status = "cancelled"]
    /\ \E more \in {{"intent"}, {}} : owed' = [owed EXCEPT ![s] = @ \cup more]
    /\ UNCHANGED <<job, intent, worker, sweep, integ, google, faults>>

insertPostCancelIntent(s) ==
    /\ "intent" \in owed[s]
    /\ owed' = [owed EXCEPT ![s] = @ \ {"intent"}]
    /\ intent' = [intent EXCEPT ![s] = [NoIntent EXCEPT !.status = "pending"]]
    /\ UNCHANGED <<lesson, job, worker, sweep, integ, google, faults>>

RecordFails(s) ==
    /\ faults < MaxFaults
    /\ \E what \in owed[s] : owed' = [owed EXCEPT ![s] = @ \ {what}]
    /\ faults' = faults + 1
    /\ UNCHANGED <<lesson, job, intent, worker, sweep, integ, google>>

-----------------------------------------------------------------------------
(* The push worker.                                                        *)

Work(w, rec) == worker' = [worker EXCEPT ![w] = rec]
JobOf(w) == job[worker[w].job]
SlotOf(w) == JobOf(w).slot

\* The oldest job that is due; a job that failed before may be backing off.
claimNextJob(w, j) ==
    /\ worker[w].at = "idle"
    /\ job[j].status = "pending"
    /\ \A i \in 1..(j - 1) : job[i].status = "pending" => job[i].attempts > 0
    /\ job' = [job EXCEPT ![j].status = "in_progress", ![j].attempts = @ + 1,
                          ![j].tried = integ.epoch]
    /\ Work(w, [NoWork EXCEPT !.at = "read", !.job = j])
    /\ UNCHANGED <<lesson, owed, intent, sweep, integ, google, faults>>

\* readSlot, and the early return for a lesson that is no longer there.
ReadSlot(w) ==
    /\ worker[w].at = "read"
    /\ IF JobOf(w).kind = "create" /\ lesson[SlotOf(w)].status = "cancelled"
       THEN SetJob(worker[w].job, "cancelled_by_dependent") /\ Work(w, NoWork)
       ELSE /\ Work(w, [worker[w] EXCEPT !.at = "call", !.bound = lesson[SlotOf(w)].bound])
            /\ UNCHANGED job
    /\ UNCHANGED <<lesson, owed, intent, sweep, integ, google, faults>>

Answered(w, answer) == Work(w, [worker[w] EXCEPT !.at = "record", !.answer = answer])

\* insertEventIdempotent stamps a new event with the epoch of the payload and
\* takes an event that is there already; deleteEvent also accepts 404 and 410.
GoogleApplies(w) ==
    google' = [google EXCEPT ![SlotOf(w)] =
                 IF JobOf(w).kind = "delete" THEN None
                 ELSE IF @ = None THEN JobOf(w).epoch ELSE @]

CallGoogle(w) ==
    /\ worker[w].at = "call"
    /\ IF Connected THEN GoogleApplies(w) /\ Answered(w, "ok")
                    ELSE UNCHANGED google /\ Answered(w, "permanent")
    /\ UNCHANGED <<lesson, owed, job, intent, sweep, integ, faults>>

\* An error that is worth a retry, the answer perhaps lost after the effect; an
\* error that is not; a second 401 in a row, which disconnects.
CallFails(w) ==
    /\ worker[w].at = "call" /\ Connected /\ faults < MaxFaults
    /\ faults' = faults + 1
    /\ \/ /\ UNCHANGED google \/ GoogleApplies(w)
          /\ Answered(w, "transient") /\ UNCHANGED integ
       \/ Answered(w, "permanent") /\ UNCHANGED <<google, integ>>
       \/ /\ Answered(w, "permanent") /\ UNCHANGED google
          /\ integ' = [integ EXCEPT !.state = "disconnected"]
    /\ UNCHANGED <<lesson, owed, job, intent, sweep>>

\* Mutant: the binding takes the epoch of the integration as it is now.
BindCurrent(w) ==
    lesson' = [lesson EXCEPT ![SlotOf(w)].bound = integ.epoch]

\* processCreate binds the lesson whatever has become of it.
Bind(w) == lesson' = [lesson EXCEPT ![SlotOf(w)].bound = JobOf(w).epoch]

\* processDelete clears the binding it has read, if that was one.
Unbind(w) ==
    lesson' = [lesson EXCEPT ![SlotOf(w)].bound =
                 IF worker[w].bound # None THEN None ELSE @]

RecordSuccess(w) ==
    /\ worker[w].at = "record" /\ worker[w].answer = "ok"
    /\ IF JobOf(w).kind = "create" THEN Bind(w) ELSE Unbind(w)
    /\ SetJob(worker[w].job, "succeeded")
    /\ Work(w, NoWork)
    /\ UNCHANGED <<owed, intent, sweep, integ, google, faults>>

\* Mutant: a failed job is always tried again.
RetryableAlways(w) == TRUE

Retryable(w) == worker[w].answer = "transient" /\ JobOf(w).attempts < MAX_ATTEMPTS

\* A job that would be pending next to another one violates the unique index;
\* the drain ends with the exception and the job stays as it is.
markFailure(w) ==
    /\ worker[w].at = "record" /\ worker[w].answer # "ok"
    /\ IF ~Retryable(w) THEN SetJob(worker[w].job, "terminal_failure")
       ELSE IF Pending(SlotOf(w), JobOf(w).kind) THEN UNCHANGED job
       ELSE SetJob(worker[w].job, "pending")
    /\ Work(w, NoWork)
    /\ UNCHANGED <<lesson, owed, intent, sweep, integ, google, faults>>

Crash(w) ==
    /\ worker[w].at # "idle" /\ faults < MaxFaults
    /\ faults' = faults + 1
    /\ Work(w, NoWork)
    /\ UNCHANGED <<lesson, owed, job, intent, sweep, integ, google>>

-----------------------------------------------------------------------------
(* The intent worker.  The status in_progress is the step it is at:        *)
(* "claimed", "enqueue", "dedup", "verify".                                *)

SetIntent(s, status) == intent' = [intent EXCEPT ![s].status = status]

claimNextIntent(s) ==
    /\ intent[s].status = "pending"
    /\ intent' = [intent EXCEPT ![s].status = "claimed", ![s].attempts = @ + 1]
    /\ UNCHANGED <<lesson, owed, job, worker, sweep, integ, google, faults>>

processPostCancelPush(s) ==
    /\ intent[s].status = "claimed"
    /\ intent' = [intent EXCEPT ![s].bound = lesson[s].bound,
                    ![s].status = IF Connected THEN "enqueue"
                                  ELSE IF intent[s].attempts >= INTENT_MAX_ATTEMPTS
                                       THEN "terminal_failure"
                                       ELSE "blocked_integration"]
    /\ UNCHANGED <<lesson, owed, job, worker, sweep, integ, google, faults>>

EnqueueDelete(s) ==
    /\ intent[s].status = "enqueue"
    /\ enqueuePushJob(s, "delete")
    /\ SetIntent(s, "dedup")
    /\ UNCHANGED <<lesson, owed, worker, sweep, integ, google, faults>>

DedupCreate(s) ==
    /\ intent[s].status = "dedup"
    /\ job' = [j \in DOMAIN job |->
                 IF j \in Jobs(s, "create") /\ job[j].status = "pending"
                 THEN [job[j] EXCEPT !.status = "cancelled_by_dependent"] ELSE job[j]]
    /\ SetIntent(s, "verify")
    /\ UNCHANGED <<lesson, owed, worker, sweep, integ, google, faults>>

\* No delete on its way for a lesson that was bound: try again.
VerifyDelete(s) ==
    /\ intent[s].status = "verify"
    /\ intent' = [intent EXCEPT ![s].bound = None,
                    ![s].status = IF \/ intent[s].bound = None
                                     \/ \E j \in Jobs(s, "delete") :
                                            job[j].status \in {"pending", "in_progress"}
                                  THEN "succeeded" ELSE "pending"]
    /\ UNCHANGED <<lesson, owed, job, worker, sweep, integ, google, faults>>

\* An intent that was claimed by a process that died is not claimed again.
IntentCrash(s) ==
    /\ intent[s].status \in {"claimed", "enqueue", "dedup", "verify"} /\ faults < MaxFaults
    /\ intent' = [intent EXCEPT ![s].status = "in_progress", ![s].bound = None]
    /\ faults' = faults + 1
    /\ UNCHANGED <<lesson, owed, job, worker, sweep, integ, google>>

reviveBlockedIntents ==
    /\ Connected
    /\ \E s \in Slots : intent[s].status = "blocked_integration"
    /\ intent' = [s \in Slots |-> IF intent[s].status = "blocked_integration"
                                  THEN [intent[s] EXCEPT !.status = "pending"] ELSE intent[s]]
    /\ UNCHANGED <<lesson, owed, job, worker, sweep, integ, google, faults>>

-----------------------------------------------------------------------------
(* The reconcile sweep, one slot after the other.                          *)

\* Mutant: every bound lesson is compared the same way.
CandidateAny(s) ==
    [at |-> "fetch", slot |-> s, status |-> "cancelled", bound |-> lesson[s].bound, seen |-> None]

\* The row as the sweep read it.
Candidate(s) ==
    [at |-> "fetch", slot |-> s, status |-> lesson[s].status, bound |-> lesson[s].bound, seen |-> None]

pickReconcileCandidates(s) ==
    /\ sweep = NoSweep
    /\ Connected
    /\ lesson[s].bound # None /\ lesson[s].status \in {"booked", "cancelled"}
    /\ sweep' = Candidate(s)
    /\ UNCHANGED <<lesson, owed, job, intent, worker, integ, google, faults>>

\* events.get; without an answer the slot is left for the next sweep.
FetchEvent ==
    /\ sweep.at = "fetch"
    /\ IF Connected THEN sweep' = [sweep EXCEPT !.at = "decide", !.seen = google[sweep.slot]]
                    ELSE sweep' = NoSweep
    /\ UNCHANGED <<lesson, owed, job, intent, worker, integ, google, faults>>

FetchFails ==
    /\ sweep.at = "fetch" /\ faults < MaxFaults
    /\ faults' = faults + 1
    /\ sweep' = NoSweep
    /\ UNCHANGED <<lesson, owed, job, intent, worker, integ, google>>

\* The event is gone, or a cancelled lesson's event is not stamped as its own.
Drifted ==
    \/ sweep.seen = None
    \/ sweep.status = "cancelled" /\ sweep.seen # sweep.bound

\* unbindSlot writes only if the row is still the one that was read.
UnbindDrifted ==
    /\ sweep.at = "decide" /\ Drifted
    /\ lesson' = [lesson EXCEPT ![sweep.slot].bound =
                    IF lesson[sweep.slot].status = sweep.status THEN None ELSE @]
    /\ sweep' = NoSweep
    /\ UNCHANGED <<owed, job, intent, worker, integ, google, faults>>

LatestDelete(s) == {j \in Jobs(s, "delete") : \A i \in Jobs(s, "delete") : i <= j}

\* Mutant: a delete that succeeded is believed for good.
decideNeverAgain(s) == Jobs(s, "delete") = {}

\* No delete yet, or the latest one ended and its outcome no longer counts.
decideCancelReenqueue(s) ==
    \A j \in LatestDelete(s) :
        \/ job[j].status = "cancelled_by_dependent"
        \/ job[j].status = "succeeded" /\ job[j].old
        \/ job[j].status = "terminal_failure" /\ job[j].tried < integ.epoch

\* A healthy booked lesson, or a cancelled one that the gate holds back.
LeaveBound ==
    /\ sweep.at = "decide" /\ ~Drifted
    /\ sweep.status = "cancelled" => ~decideCancelReenqueue(sweep.slot)
    /\ sweep' = NoSweep
    /\ UNCHANGED <<lesson, owed, job, intent, worker, integ, google, faults>>

PassGate ==
    /\ sweep.at = "decide" /\ ~Drifted
    /\ sweep.status = "cancelled" /\ decideCancelReenqueue(sweep.slot)
    /\ sweep' = [sweep EXCEPT !.at = "enqueue"]
    /\ UNCHANGED <<lesson, owed, job, intent, worker, integ, google, faults>>

ReenqueueDelete ==
    /\ sweep.at = "enqueue"
    /\ enqueuePushJob(sweep.slot, "delete")
    /\ sweep' = NoSweep
    /\ UNCHANGED <<lesson, owed, intent, worker, integ, google, faults>>

-----------------------------------------------------------------------------
(* The teacher.                                                            *)

disconnectGoogleIntegration ==
    /\ Connected /\ integ.epoch < MaxEpoch
    /\ integ' = [integ EXCEPT !.state = "disconnected"]
    /\ UNCHANGED <<lesson, owed, job, intent, worker, sweep, google, faults>>

\* initial_connect, also on top of a live connection, starts a new epoch.
upsertGoogleIntegration ==
    /\ integ.epoch < MaxEpoch
    /\ integ' = [state |-> "active", epoch |-> integ.epoch + 1]
    /\ UNCHANGED <<lesson, owed, job, intent, worker, sweep, google, faults>>

ignoreOrphanSelfSlot(s) ==
    /\ lesson[s].bound \notin {None, integ.epoch}
    /\ lesson' = [lesson EXCEPT ![s].bound = None]
    /\ UNCHANGED <<owed, job, intent, worker, sweep, integ, google, faults>>

\* In Google's own calendar.
TeacherDeletesEvent(s) ==
    /\ google[s] # None /\ faults < MaxFaults
    /\ google' = [google EXCEPT ![s] = None]
    /\ faults' = faults + 1
    /\ UNCHANGED <<lesson, owed, job, intent, worker, sweep, integ>>

-----------------------------------------------------------------------------
Route(s) == Book(s) \/ Cancel(s) \/ RecordFails(s)
Recording(s) == enqueueCreatePushIfIntegrationActive(s) \/ insertPostCancelIntent(s)

Push(w) ==
    \/ \E j \in DOMAIN job : claimNextJob(w, j)
    \/ ReadSlot(w) \/ CallGoogle(w) \/ RecordSuccess(w) \/ markFailure(w)

Intents(s) ==
    \/ claimNextIntent(s) \/ processPostCancelPush(s)
    \/ EnqueueDelete(s) \/ DedupCreate(s) \/ VerifyDelete(s)

Sweep ==
    \/ \E s \in Slots : pickReconcileCandidates(s)
    \/ FetchEvent \/ UnbindDrifted \/ LeaveBound \/ PassGate \/ ReenqueueDelete

Next ==
    \/ \E s \in Slots : \/ Route(s) \/ Recording(s) \/ Intents(s) \/ IntentCrash(s)
                        \/ ignoreOrphanSelfSlot(s) \/ TeacherDeletesEvent(s)
    \/ \E w \in Workers : Push(w) \/ CallFails(w) \/ Crash(w)
    \/ \E j \in DOMAIN job : SixHoursPass(j)
    \/ reviveBlockedIntents \/ Sweep \/ FetchFails
    \/ disconnectGoogleIntegration \/ upsertGoogleIntegration

\* The crons keep firing and time passes; a route that has answered runs on.
Fairness ==
    /\ \A s \in Slots : WF_vars(Recording(s)) /\ WF_vars(Intents(s))
    /\ \A s \in Slots : SF_vars(pickReconcileCandidates(s))
    /\ \A w \in Workers : WF_vars(Push(w))
    /\ \A j \in 1..MaxJobs : WF_vars(j \in DOMAIN job /\ SixHoursPass(j))
    /\ WF_vars(Sweep) /\ WF_vars(reviveBlockedIntents)

Spec == Init /\ [][Next]_vars /\ Fairness

-----------------------------------------------------------------------------
(* Properties.                                                             *)

JobRow ==
    [slot : Slots, kind : {"create", "delete"},
     status : {"pending", "in_progress", "succeeded", "terminal_failure", "cancelled_by_dependent"},
     attempts : 0..MAX_ATTEMPTS, epoch : Epochs, tried : Epochs, old : BOOLEAN]

\* Every column and every worker's state has its type; no job is tried more
\* often than MAX_ATTEMPTS.
TypeOK ==
    /\ lesson \in [Slots -> [status : {"open", "booked", "cancelled"}, bound : 0..None]]
    /\ owed \in [Slots -> SUBSET {"create", "intent"}]
    /\ job \in Seq(JobRow) /\ Len(job) <= MaxJobs
    /\ intent \in [Slots -> [status : {"none", "pending", "claimed", "enqueue", "dedup", "verify",
                                       "in_progress", "succeeded", "blocked_integration", "terminal_failure"},
                             attempts : Nat, bound : 0..None]]
    /\ worker \in [Workers -> [at : {"idle", "read", "call", "record"}, job : 0..Len(job),
                               bound : 0..None, answer : {"none", "ok", "transient", "permanent"}]]
    /\ sweep = NoSweep \/ sweep \in [at : {"fetch", "decide", "enqueue"}, slot : Slots,
                                     status : {"booked", "cancelled"}, bound : Epochs, seen : 0..None]
    /\ integ \in [state : {"active", "disconnected"}, epoch : Epochs]
    /\ google \in [Slots -> 0..None]
    /\ faults \in 0..MaxFaults

\* A delete job is only ever made for a lesson that was cancelled, so no worker,
\* however late, removes the event of a lesson that takes place.
DeletesOnlyCancelled ==
    \A j \in DOMAIN job :
        job[j].kind = "delete" => lesson[job[j].slot].status = "cancelled"

\* The epoch of a binding is the one the lesson's event is stamped with, whatever
\* was reconnected in between: the sweep, which unbinds without deleting when
\* they differ, never abandons an event of ours.
BindingMatchesStamp ==
    \A s \in Slots :
        lesson[s].bound # None /\ google[s] # None => google[s] = lesson[s].bound

GivenUp(s) == \E j \in Jobs(s, "delete") : job[j].status = "terminal_failure"

\* In progress, but no worker is at it: the one that claimed it died, or its
\* retry collided with another pending job.
Stranded(s) ==
    \E j \in Jobs(s, "delete") :
        job[j].status = "in_progress" /\ \A w \in Workers : worker[w].job # j

Bound(s) == lesson[s].status = "cancelled" /\ lesson[s].bound # None

\* Once the teacher stays connected, a cancelled lesson that is bound to an event
\* is unbound in the end, even if its create ran late, its delete too early or
\* its intent was never recorded; unless a delete gave up after MAX_ATTEMPTS or
\* was stranded.
CancelledIsUnbound ==
    <>[]Connected =>
        \A s \in Slots : Bound(s) ~> ~Bound(s) \/ GivenUp(s) \/ Stranded(s)

\* What the header of reconcile-runner.ts says of the sweep: it repairs the same
\* whatever became of the workers.
SweepIsCatchNet ==
    <>[]Connected => \A s \in Slots : Bound(s) ~> ~Bound(s) \/ GivenUp(s)
=============================================================================
