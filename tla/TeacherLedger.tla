--------------------------- MODULE TeacherLedger ---------------------------
(***************************************************************************)
(* Money for completed lessons (settle-lessons.ts, the settle and          *)
(* uncomplete routes): a settlement of a learner is spread over the        *)
(* outstanding lessons of the pair, oldest first, while completions are    *)
(* added and taken back.                                                   *)
(***************************************************************************)
EXTENDS MoneyTx

CONSTANTS
    Lessons,
    PairOf,         \* teacher and learner of a lesson
    Price,          \* lesson_completions.amount_kopecks
    CompletedAt,    \* end of the lesson; the row id breaks ties
    Requests        \* the jobs users may ask for

ASSUME LedgerAssumption ==
    /\ IsFiniteSet(Lessons)
    /\ Price \in [Lessons -> Nat]
    /\ CompletedAt \in [Lessons -> Nat]
    /\ \A s, u \in Lessons : CompletedAt[s] = CompletedAt[u] => s = u

VARIABLES
    completed,      \* lessons with a row in lesson_completions
    covered,        \* sum of a completion's lesson_settlement_completions
    settlement      \* lesson_settlements; recent: less than 60 seconds old

rows == <<completed, covered, settlement>>
vars == <<tx, rows>>

NoSettlement == [amount |-> 0, pair |-> NoJob, left |-> 0, recent |-> FALSE]

Init ==
    /\ tx = [i \in Txns |-> Idle]
    /\ completed = {}
    /\ covered = [s \in Lessons |-> 0]
    /\ settlement = [i \in Txns |-> NoSettlement]

-----------------------------------------------------------------------------
(* POST /api/teacher/learners/[id]/settle.                                 *)

\* ids: the lessons the teacher ticked; {} walks all outstanding ones.
SettleJob(pair, amount, ids) ==
    [kind |-> "settle", pair |-> pair, amount |-> amount, ids |-> ids]

\* Mutant: the pair is not locked.
SettleTxUnlocked(job) ==
    <<Stmt("recent", job.pair, {}), Stmt("lockPair", job.pair, {}),
      Stmt("candidates", job.pair, {}), Stmt("commitSettle", job.pair, {})>>

\* The search for a recent twin comes before the transaction and its lock.
SettleTx(job) ==
    <<Stmt("recent", job.pair, {}),
      Stmt("lockPair", job.pair, {<<"settle-lessons", job.pair>>}),
      Stmt("candidates", job.pair, {}), Stmt("commitSettle", job.pair, {})>>

Twin(i, job) ==
    /\ settlement[i].recent
    /\ settlement[i].pair = job.pair
    /\ settlement[i].amount = job.amount

FindRecent(i) ==
    /\ At(i, "recent")
    /\ IF \E k \in Txns : Twin(k, tx[i].job) THEN Close(i) ELSE Advance(i, tx[i])
    /\ UNCHANGED rows

LockPair(i) ==
    /\ Ready(i, "lockPair")
    /\ Advance(i, [tx[i] EXCEPT !.read = tx[i].job.amount])
    /\ UNCHANGED rows

Outstanding(pair) ==
    {s \in completed : PairOf[s] = pair /\ covered[s] < Price[s]}

\* Mutant: newest first.
InOrderNewest(S) ==
    CHOOSE q \in [1 .. Cardinality(S) -> S] :
        \A a, b \in 1 .. Cardinality(S) : a < b => CompletedAt[q[a]] > CompletedAt[q[b]]

InOrder(S) ==
    CHOOSE q \in [1 .. Cardinality(S) -> S] :
        \A a, b \in 1 .. Cardinality(S) : a < b => CompletedAt[q[a]] < CompletedAt[q[b]]

\* The grouped select remembers what is missing of each lesson; the insert of
\* an allocation locks the completion it refers to.
Candidates(i) ==
    LET job == tx[i].job
        found == Outstanding(job.pair) \cap (IF job.ids = {} THEN Lessons ELSE job.ids)
        queue == InOrder(found)
        inserts == [k \in DOMAIN queue |->
                      Stmt("allocate", <<queue[k], Price[queue[k]] - covered[queue[k]]>>,
                           {<<"completion", queue[k]>>})]
    IN
    /\ At(i, "candidates")
    /\ IF job.ids \subseteq found
       THEN Advance(i, [tx[i] EXCEPT !.todo = <<Head(@)>> \o inserts \o Tail(@)])
       ELSE Close(i)
    /\ UNCHANGED rows

Least(a, b) == IF a < b THEN a ELSE b

\* One turn of the loop; a completion deleted meanwhile breaks the foreign key,
\* an empty budget ends the loop.
Allocate(i) ==
    LET s == Arg(i)[1]
        give == Least(Arg(i)[2], tx[i].read)
        wrote == [u \in DOMAIN tx[i].rows \cup {s} |->
                    IF u = s THEN give ELSE tx[i].rows[u]]
        rest == IF give = tx[i].read
                THEN <<Head(tx[i].todo), Stmt("commitSettle", tx[i].job.pair, {})>>
                ELSE tx[i].todo
    IN
    /\ Ready(i, "allocate")
    /\ IF s \in completed
       THEN Advance(i, [tx[i] EXCEPT !.rows = wrote, !.read = @ - give, !.todo = rest])
       ELSE Close(i)
    /\ UNCHANGED rows

CommitSettle(i) ==
    /\ At(i, "commitSettle")
    /\ Close(i)
    /\ covered' = [s \in Lessons |-> covered[s] +
                     (IF s \in DOMAIN tx[i].rows THEN tx[i].rows[s] ELSE 0)]
    /\ settlement' = [settlement EXCEPT ![i] =
                        [amount |-> tx[i].job.amount, pair |-> tx[i].job.pair,
                         left |-> tx[i].read, recent |-> TRUE]]
    /\ UNCHANGED completed

\* now() - interval '60 seconds' passes a settlement.
MinutePasses(k) ==
    /\ settlement[k].recent
    /\ settlement' = [settlement EXCEPT ![k].recent = FALSE]
    /\ UNCHANGED <<tx, completed, covered>>

-----------------------------------------------------------------------------
(* Completions come and go.                                                *)

\* markLessonCompleted: on conflict (slot_id) do nothing.
MarkCompleted(s) ==
    /\ s \notin completed
    /\ completed' = completed \cup {s}
    /\ UNCHANGED <<tx, covered, settlement>>

UncompleteJob(s) == [kind |-> "uncomplete", lesson |-> s]

\* An amount that is not a positive integer is refused at once.
ASSUME RequestsAssumption ==
    \A job \in Requests :
        \/ /\ job.kind = "settle"
           /\ job = SettleJob(job.pair, job.amount, job.ids)
           /\ job.amount \in Nat \ {0}
        \/ /\ job.kind = "uncomplete"
           /\ job = UncompleteJob(job.lesson)
           /\ job.lesson \in Lessons

UncompleteTx(job) ==
    <<Stmt("lockCompletion", job.lesson, {<<"completion", job.lesson>>}),
      Stmt("gates", job.lesson, {}), Stmt("delete", job.lesson, {})>>

LockCompletion(i) ==
    /\ Ready(i, "lockCompletion")
    /\ IF Arg(i) \in completed THEN Advance(i, tx[i]) ELSE Close(i)
    /\ UNCHANGED rows

\* Coverage refuses; the 48 hours and accrued earnings do so under Abort.
Gates(i) ==
    /\ At(i, "gates")
    /\ IF covered[Arg(i)] > 0 THEN Close(i) ELSE Advance(i, tx[i])
    /\ UNCHANGED rows

\* The trigger asks about coverage once more.
DeleteCompletion(i) ==
    /\ At(i, "delete")
    /\ Close(i)
    /\ completed' = IF covered[Arg(i)] > 0 THEN completed ELSE completed \ {Arg(i)}
    /\ UNCHANGED <<covered, settlement>>

Program(job) == IF job.kind = "settle" THEN SettleTx(job) ELSE UncompleteTx(job)

Statement(i) ==
    \/ FindRecent(i) \/ LockPair(i) \/ Candidates(i) \/ Allocate(i) \/ CommitSettle(i)
    \/ LockCompletion(i) \/ Gates(i) \/ DeleteCompletion(i)

Next ==
    \/ \E i \in Txns : \/ Statement(i)
                       \/ /\ \/ \E job \in Requests : Begin(i, job, Program(job))
                             \/ Abort(i)
                          /\ UNCHANGED rows
    \/ \E k \in Txns : MinutePasses(k)
    \/ \E s \in Lessons : MarkCompleted(s)

Spec == Init /\ [][Next]_vars

-----------------------------------------------------------------------------
(* Properties.                                                             *)

\* A lesson is never paid for more than it costs, although what is missing is
\* read before other settlements of the pair insert (the pair lock of
\* settleLessonsInTx), and money covers completions that exist only.
CoverageWithinPrice ==
    \A s \in Lessons : /\ covered[s] <= Price[s]
                       /\ covered[s] > 0 => s \in completed

\* The oldest debt is paid first: while a settlement has given a lesson money,
\* no older lesson of the settlement still waits for its turn, and the older
\* ones it paid are paid in full (the order and the loop of settleLessonsInTx).
OldestFirst ==
    \A i \in Txns : \A s \in DOMAIN tx[i].rows, u \in Lessons :
        CompletedAt[u] < CompletedAt[s] =>
            /\ u \in DOMAIN tx[i].rows => covered[u] + tx[i].rows[u] = Price[u]
            /\ \A k \in DOMAIN tx[i].todo :
                  tx[i].todo[k].op = "allocate" => tx[i].todo[k].arg[1] # u
=============================================================================
