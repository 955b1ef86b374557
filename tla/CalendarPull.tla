--------------------------- MODULE CalendarPull ----------------------------
(***************************************************************************)
(* The busy times of a teacher's Google calendar.  An announced change     *)
(* becomes a pull job (pull-worker.ts), a pull fetches the next 30 days or *)
(* what changed since a sync token and writes the cache (pull-runner.ts),  *)
(* and a detector marks the lesson that the cache overlaps                 *)
(* (conflict-detector.ts).  The teacher disconnects, reconnects, and       *)
(* deletes a conflicting event from here (delete-external-conflict).  One  *)
(* teacher, one calendar, one booked lesson that every event overlaps, and *)
(* events that do not recur.                                               *)
(***************************************************************************)
EXTENDS Naturals, Sequences, FiniteSets

CONSTANTS
    Events, Workers,
    None,           \* no token, no conflict
    Order,          \* of events: earliest start, then id
    Before,         \* what the calendar holds when the teacher connects it
    MAX_ATTEMPTS,
    MaxChanges,     \* bound: events added, changed and removed
    MaxTurns,       \* bound: reconnects and passing days, together
    MaxFaults       \* bound: failed calls, crashes and disconnects, together

ASSUME PullAssumption ==
    /\ None \notin Nat
    /\ Order \in [Events -> Nat] /\ MAX_ATTEMPTS \in Nat \ {0}
    /\ Before \in Seq([event : Events, op : {"add"}])
    /\ MaxChanges \in Nat /\ MaxTurns \in Nat /\ MaxFaults \in Nat

VARIABLES
    log,        \* external: what happened in the calendar, in order
    horizon,    \* events up to here start before now + 30 days
    integ,      \* teacher_calendar_integrations
    queue,      \* the pending row of calendar_pull_jobs: its attempts so far
    pull,       \* the pull workers
    busy,       \* teacher_external_busy_intervals
    stamp,      \* the lesson's conflict_source_event_id
    route,      \* the delete-external-conflict request under way
    faults,
    skipped,    \* ghost: what a full pull left out and no delta has brought
    since       \* ghost: the worst that went on since a pull was last pending

vars == <<log, horizon, integ, queue, pull, busy, stamp, route, faults, skipped, since>>

Empty == MAX_ATTEMPTS + 1       \* no job is pending
NoPull == [at |-> "idle"]

\* How bad what went on may be.
Fine == 0
Scan == 1           \* a scan failed
Overlap == 2        \* a pull started while another was running
Missed == 3         \* a pull failed for good, or the calendar changed

Init ==
    /\ log = Before /\ horizon = 0
    /\ integ = [state |-> "active", tokens |-> TRUE, epoch |-> 0, token |-> None, pulled |-> 0]
    /\ queue \in 0..(MAX_ATTEMPTS - 1) \cup {Empty}
    /\ pull = [w \in Workers |-> NoPull]
    /\ busy = {} /\ stamp = None /\ route = [at |-> "idle"]
    /\ faults = 0 /\ skipped = {}
    /\ since = IF queue = Empty THEN Missed ELSE Fine

MoreTurns == integ.epoch + horizon < MaxTurns

Connected == integ.state = "active"

\* disconnectGoogleIntegration keeps the epoch and the sync token.
Disconnected ==
    [integ EXCEPT !.state = "disconnected", !.tokens = FALSE]

\* A pull that is still pending makes up for whatever went on before it starts.
Befalls(what) == since' = IF queue' # Empty THEN Fine ELSE IF since < what THEN what ELSE since

-----------------------------------------------------------------------------
(* Google.  An event is added once and removed once, and one that no full  *)
(* pull asks for yet may change in between; a sync token is a position in  *)
(* the log.                                                                *)

Touched(n, m) == {log[k].event : k \in (n + 1)..m}
Contents(n) ==
    {log[k].event : k \in 1..n} \ {log[k].event : k \in {i \in 1..n : log[i].op = "remove"}}
Now == Len(log)

\* A full pull asks for [now - 1 day, now + 30 days].  The lesson is yet to
\* come, so no event that overlaps it starts too early.
Within == {e \in Events : Order[e] <= horizon}

Happens(e, op) == log' = Append(log, [event |-> e, op |-> op])

\* The bound leaves room for a delete that is under way.
Room == IF route.at \in {"check", "google"} THEN MaxChanges - 1 ELSE MaxChanges

Change(e) ==
    /\ Now < Room
    /\ \/ e \notin Touched(0, Now) /\ Happens(e, "add")
       \/ e \in Contents(Now) /\ Happens(e, "remove")
       \/ e \in Contents(Now) \ Within /\ Happens(e, "edit")
    /\ UNCHANGED queue /\ Befalls(Missed)
    /\ UNCHANGED <<horizon, integ, pull, busy, stamp, route, faults, skipped>>

DaysPass ==
    /\ MoreTurns /\ horizon' = horizon + 1
    /\ UNCHANGED <<log, integ, queue, pull, busy, stamp, route, faults, skipped, since>>

-----------------------------------------------------------------------------
(* Pull jobs: at most one is pending.                                      *)

\* Mutant: a calendar that is being pulled needs no job.
enqueueUnlessRunning ==
    /\ queue' = IF queue = Empty /\ \A w \in Workers : pull[w] = NoPull THEN 0 ELSE queue
    /\ since' = Fine

enqueuePullJob ==
    /\ queue' = IF queue = Empty THEN 0 ELSE queue
    /\ since' = Fine

\* A message of the channel that the webhook accepts, or the OAuth callback.
Announced ==
    /\ Connected /\ enqueuePullJob
    /\ UNCHANGED <<log, horizon, integ, pull, busy, stamp, route, faults, skipped>>

-----------------------------------------------------------------------------
(* The pull.                                                               *)

Set(w, rec) == pull' = [pull EXCEPT ![w] = rec]

\* The teacher had a pull in the last day or, as may be, a booking in the last
\* two weeks.
isActiveTeacher == IF integ.pulled = horizon THEN {TRUE} ELSE BOOLEAN

Modes == {IF integ.token # None /\ active THEN "delta" ELSE "full" : active \in isActiveTeacher}

\* claimNextJob and the integration row as runPullForCalendar reads it; without
\* an access token the job fails for good.
StartPull(w, mode) ==
    /\ pull[w] = NoPull /\ queue # Empty /\ mode \in Modes
    /\ queue' = Empty
    /\ IF Connected /\ integ.tokens
       THEN /\ Set(w, [at |-> "fetch", attempts |-> queue + 1, mode |-> mode,
                       token |-> integ.token, epoch |-> integ.epoch])
            /\ Befalls(IF \E v \in Workers : pull[v] # NoPull THEN Overlap ELSE Fine)
       ELSE Befalls(Missed) /\ UNCHANGED pull
    /\ UNCHANGED <<log, horizon, integ, busy, stamp, route, faults, skipped>>

\* A delta knows no window.
Fetch(w) ==
    /\ pull[w].at = "fetch" /\ integ.tokens
    /\ Set(w, [at |-> "write", mode |-> pull[w].mode, token |-> pull[w].token,
               epoch |-> pull[w].epoch, got |-> Now,
               window |-> IF pull[w].mode = "full" THEN Within ELSE Events])
    /\ UNCHANGED <<log, horizon, integ, queue, busy, stamp, route, faults, skipped, since>>

Same(w) == integ.token = pull[w].token /\ integ.epoch = pull[w].epoch

\* Mutant: no limit on the attempts.
RetryForever(w) ==
    /\ queue' = IF queue = Empty THEN pull[w].attempts ELSE queue
    /\ Befalls(Missed)

\* Back to pending, unless it was the last attempt or a newer job is pending
\* already: then the unique index refuses the row.
Retry(w) ==
    /\ queue' = IF pull[w].attempts < MAX_ATTEMPTS /\ queue = Empty
                THEN pull[w].attempts ELSE queue
    /\ Befalls(Missed)

\* withTokenRetry: a call fails, or is refused twice and the teacher disconnected.
Refused == IF integ.tokens THEN {integ, Disconnected} ELSE {integ}

\* markFailure.  An expired sync token is forgotten, unless it is another one by
\* now; the access token may be gone already.
FetchFails(w) ==
    /\ pull[w].at = "fetch"
    /\ integ.tokens => faults < MaxFaults
    /\ faults' = IF integ.tokens THEN faults + 1 ELSE faults
    /\ Set(w, NoPull)
    /\ \/ integ.tokens /\ Retry(w) /\ UNCHANGED integ
       \/ /\ integ.tokens /\ pull[w].mode = "delta" /\ Retry(w)
          /\ integ' = [integ EXCEPT !.token = IF Same(w) THEN None ELSE @]
       \/ integ' \in Refused /\ UNCHANGED queue /\ Befalls(Missed)
    /\ UNCHANGED <<log, horizon, busy, stamp, route, skipped>>

Fails(w, what) ==
    /\ faults < MaxFaults /\ faults' = faults + 1
    /\ Set(w, NoPull)
    /\ UNCHANGED queue /\ Befalls(what)
    /\ UNCHANGED <<log, horizon, integ, busy, stamp, route, skipped>>

\* The worker stops, and its job stays in_progress.
Crash(w) == pull[w] # NoPull /\ Fails(w, Missed)

\* Mutant: the tombstones of a delta are not applied.
MergedUpserts(w) ==
    IF pull[w].mode = "full"
    THEN Contents(pull[w].got) \cap pull[w].window
    ELSE busy \cup (Touched(pull[w].token, pull[w].got) \cap Contents(pull[w].got))

\* The cache with what Google answered: the events of the window, or those
\* that changed since the token, near or far.
Merged(w) ==
    IF pull[w].mode = "full"
    THEN Contents(pull[w].got) \cap pull[w].window
    ELSE LET changed == Touched(pull[w].token, pull[w].got)
         IN  (busy \ changed) \cup (changed \cap Contents(pull[w].got))

\* A full pull leaves out what is beyond its window, and only a delta in which
\* such an event changed brings it.
LeftOut(w) ==
    IF pull[w].mode = "full"
    THEN Contents(pull[w].got) \ pull[w].window
    ELSE skipped \ Touched(pull[w].token, pull[w].got)

\* One transaction: the cache and, if token and epoch are as the pull found
\* them, the new token, or the old one when the answer carried none; else the
\* transaction is rolled back.
Write(w) ==
    /\ pull[w].at = "write"
    /\ IF Same(w)
       THEN /\ busy' = Merged(w) /\ skipped' = LeftOut(w)
            /\ \E t \in {pull[w].got, integ.token} :
                  /\ integ' = [integ EXCEPT !.state = "active", !.token = t, !.pulled = horizon]
                  /\ faults' = IF t = pull[w].got THEN faults ELSE faults + 1
                  /\ faults' <= MaxFaults
       ELSE UNCHANGED <<busy, skipped, integ, faults>>
    /\ Set(w, [at |-> "slots"])
    /\ UNCHANGED <<log, horizon, queue, stamp, route, since>>

-----------------------------------------------------------------------------
(* The conflict detector reads the lesson, then the first overlap, and     *)
(* then writes the lesson without looking again.                           *)

Primary == IF busy = {} THEN None
           ELSE CHOOSE e \in busy : \A f \in busy : Order[e] <= Order[f]

ReadSlots(w) ==
    /\ pull[w].at = "slots"
    /\ Set(w, [at |-> "overlap", current |-> stamp])
    /\ UNCHANGED <<log, horizon, integ, queue, busy, stamp, route, faults, skipped, since>>

FindOverlap(w) ==
    /\ pull[w].at = "overlap"
    /\ Set(w, IF pull[w].current = Primary THEN NoPull ELSE [at |-> "stamp", primary |-> Primary])
    /\ UNCHANGED <<log, horizon, integ, queue, busy, stamp, route, faults, skipped, since>>


StampConflict(w) ==
    /\ pull[w].at = "stamp"
    /\ stamp' = pull[w].primary
    /\ Set(w, NoPull)
    /\ UNCHANGED <<log, horizon, integ, queue, busy, route, faults, skipped, since>>

\* A failed scan is caught, and the job has succeeded all the same.
DetectorFails(w) == pull[w].at \in {"slots", "overlap", "stamp"} /\ Fails(w, Scan)

-----------------------------------------------------------------------------
(* delete-external-conflict: the event goes from Google, then from here.   *)

Cleared(e) == IF stamp = e THEN None ELSE stamp

DeleteRequest ==
    /\ route.at = "idle" /\ stamp # None /\ Now < MaxChanges
    /\ route' = [at |-> "check", event |-> stamp]
    /\ UNCHANGED <<log, horizon, integ, queue, pull, busy, stamp, faults, skipped, since>>

\* An event that is no longer busy leaves nothing to delete.
DeleteChecks ==
    /\ route.at = "check"
    /\ IF route.event \in busy
       THEN route' = [at |-> "google", event |-> route.event] /\ UNCHANGED stamp
       ELSE route' = [at |-> "idle"] /\ stamp' = Cleared(route.event)
    /\ UNCHANGED <<log, horizon, integ, queue, pull, busy, faults, skipped, since>>

\* Google answers 404 or 410 for an event that is gone: the same as deleted.
DeleteInGoogle ==
    /\ route.at = "google" /\ integ.tokens
    /\ IF route.event \in Contents(Now)
       THEN Happens(route.event, "remove") /\ UNCHANGED queue /\ Befalls(Missed)
       ELSE UNCHANGED <<log, queue, since>>
    /\ route' = [at |-> "local", event |-> route.event]
    /\ UNCHANGED <<horizon, integ, pull, busy, stamp, faults, skipped>>

DeleteRefused ==
    /\ route.at = "google"
    /\ integ.tokens => faults < MaxFaults
    /\ faults' = IF integ.tokens THEN faults + 1 ELSE faults
    /\ integ' \in Refused
    /\ route' = [at |-> "idle"]
    /\ UNCHANGED <<log, horizon, queue, pull, busy, stamp, skipped, since>>

DeleteLocally ==
    /\ route.at = "local"
    /\ busy' = busy \ {route.event}
    /\ stamp' = Cleared(route.event)
    /\ route' = [at |-> "enqueue"]
    /\ UNCHANGED <<log, horizon, integ, queue, pull, faults, skipped, since>>

DeleteEnqueues ==
    /\ route.at = "enqueue"
    /\ route' = [at |-> "idle"]
    /\ \/ enqueuePullJob /\ UNCHANGED faults
       \/ faults < MaxFaults /\ faults' = faults + 1 /\ UNCHANGED <<queue, since>>
    /\ UNCHANGED <<log, horizon, integ, pull, busy, stamp, skipped>>

-----------------------------------------------------------------------------
(* The teacher.                                                            *)

disconnectGoogleIntegration ==
    /\ Connected /\ faults < MaxFaults
    /\ integ' = Disconnected /\ faults' = faults + 1
    /\ UNCHANGED <<log, horizon, queue, pull, busy, stamp, route, skipped, since>>

upsertGoogleIntegration ==
    /\ MoreTurns
    /\ integ' = [state |-> "active", tokens |-> TRUE, epoch |-> integ.epoch + 1,
                 token |-> None, pulled |-> 0]
    /\ UNCHANGED queue /\ Befalls(Missed)
    /\ UNCHANGED <<log, horizon, pull, busy, stamp, route, faults, skipped>>

-----------------------------------------------------------------------------

Pull(w) == \/ \E mode \in {"full", "delta"} : StartPull(w, mode)
           \/ Fetch(w) \/ FetchFails(w) \/ Write(w)
           \/ ReadSlots(w) \/ FindOverlap(w) \/ StampConflict(w)

DeleteGoesOn == DeleteChecks \/ DeleteInGoogle \/ DeleteRefused \/ DeleteLocally \/ DeleteEnqueues

Next == \/ \E e \in Events : Change(e)
        \/ DaysPass \/ Announced
        \/ \E w \in Workers : Pull(w) \/ DetectorFails(w) \/ Crash(w)
        \/ DeleteRequest \/ DeleteGoesOn
        \/ disconnectGoogleIntegration \/ upsertGoogleIntegration

\* The cron calls the drain every minute, so that some worker goes on, and a
\* request runs to its end.
Fairness == /\ WF_vars(\E w \in Workers : Pull(w))
            /\ WF_vars(DeleteGoesOn)

Spec == Init /\ [][Next]_vars /\ Fairness

-----------------------------------------------------------------------------
\* Types: a stored sync token is a position Google has given out, and a pending job has attempts left.
TypeOK ==
    /\ log \in Seq([event : Events, op : {"add", "edit", "remove"}]) /\ horizon \in 0..MaxTurns
    /\ integ \in [state : {"active", "disconnected"}, tokens : BOOLEAN, epoch : 0..MaxTurns,
                  token : (0..Now) \cup {None}, pulled : 0..MaxTurns]
    /\ queue \in 0..(MAX_ATTEMPTS - 1) \cup {Empty}
    /\ busy \subseteq Touched(0, Now) /\ stamp \in Touched(0, Now) \cup {None}
    /\ faults \in 0..MaxFaults /\ skipped \subseteq Touched(0, Now) /\ since \in Fine..Missed

\* The cache stands at its sync token: an event that has not changed since the
\* stored token is busy here exactly if it is in the calendar, but for those a
\* full pull left beyond its window and no delta has brought since.  Racing
\* pulls, an expired token, a reconnect and the delete route may each write the
\* cache or the token; if the two part, every later delta leaves the cache wrong.
CacheAtToken ==
    integ.token # None =>
        \A e \in Events \ Touched(integ.token, Now) :
            e \in busy <=> e \in Contents(integ.token) \ skipped

CacheIsCalendar == busy = Contents(Now) \ skipped

\* Once a pull was pending, and then started while no other ran and got through
\* (since: no change, failed pull or overlap came after it was pending, though a
\* scan may have failed), the cache of a teacher who stays connected is the
\* calendar for good, but for events beyond the window that did not change,
\* whatever failed, overlapped or was deleted from here before.
CacheConverges ==
    <>[](Connected /\ integ.tokens /\ since <= Scan) => <>[]CacheIsCalendar


\* pull-worker.ts:102: "Multiple workers can drain concurrently without
\* contending."  Two pulls of one calendar that overlap leave the cache as
\* right as one would.
OverlapIsSafe ==
    <>[](Connected /\ integ.tokens /\ since <= Overlap) => <>[]CacheIsCalendar
=============================================================================
