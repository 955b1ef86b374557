--------------------------- MODULE PaymentClaims ---------------------------
(***************************************************************************)
(* Payments past the platform (sbp-claims.ts, sbp-refunds.ts): a learner   *)
(* claims to have paid lessons or packages, the teacher confirms or        *)
(* declines, or marks them paid himself, and may give money back.          *)
(*                                                                         *)
(* Refusals that depend on the request alone (amounts, number of items,    *)
(* dates) come before the transaction; a lesson older than 30 days is a    *)
(* refusal the model subsumes under Abort.                                 *)
(***************************************************************************)
EXTENDS MoneyTx

CONSTANTS
    Slots, Learners, Methods,
    SlotTeacher,        \* lesson_slots.teacher_account_id
    MethodTeacher,      \* teacher_payment_methods.teacher_account_id
    PurchaseLearner,    \* package_purchases.account_id
    PurchaseTeacher,    \* package_purchases.teacher_id
    NoLearner,
    NoTeacher,          \* a package any teacher of the learner may settle
    NoMethod,           \* payment_channel is not 'sbp'
    Booked,             \* who has a lesson from the start, without a package
    Requests            \* the jobs users may ask for

ASSUME ClaimsAssumption ==
    /\ NoLearner \notin Learners
    /\ Booked \in [Slots -> Learners \cup {NoLearner}]

VARIABLES
    lesson,     \* the learner of a slot and its package consumption
    card,       \* slots with an allocation of a paid card order
    archived,   \* teacher_payment_methods.archived_at is not null
    claim,      \* payment_claims and their items
    refunded    \* the sum of a claim's payment_refunds

rows == <<lesson, card, archived, claim, refunded>>
vars == <<tx, rows>>

Active == {"claimed", "confirmed"}
NoClaim == [status |-> "absent", by |-> "nobody", items |-> <<>>, amount |-> 0]

Init ==
    /\ tx = [i \in Txns |-> Idle]
    /\ lesson = [s \in Slots |-> [learner |-> Booked[s], unit |-> "none"]]
    /\ card = {}
    /\ archived = {}
    /\ claim = [i \in Txns |-> NoClaim]
    /\ refunded = [i \in Txns |-> 0]

-----------------------------------------------------------------------------
(* createLearnerClaim and createTeacherMarkPaid.                           *)

ClaimJob(by, t, l, m, items, amount) ==
    [kind |-> "claim", by |-> by, teacher |-> t, learner |-> l, method |-> m,
     items |-> items, amount |-> amount]

\* Mutant: no advisory lock.
ClaimLocksNone(items) == <<>>

\* One advisory lock per lesson, in the order of the request; none for a package.
ClaimLocks(items) ==
    [k \in 1 .. Len(items) |->
        Stmt("advisory", items[k],
             IF items[k] \in Slots THEN {<<"pay-claim", items[k]>>} ELSE {})]

\* Mutant: the lesson is looked at after the check for payments.
ClaimChecksSwapped(items) ==
    [k \in 1 .. 2 * Len(items) |->
        Stmt(IF k % 2 = 1 THEN "paid" ELSE "own", items[(k + 1) \div 2], {})]

\* For each item first whose it is, then whether it is paid.
ClaimChecks(items) ==
    [k \in 1 .. 2 * Len(items) |->
        Stmt(IF k % 2 = 1 THEN "own" ELSE "paid", items[(k + 1) \div 2], {})]

ClaimTx(job) ==
    ClaimLocks(job.items) \o <<Stmt("method", job.method, {})>>
        \o ClaimChecks(job.items) \o <<Stmt("insertClaim", NoMethod, {})>>

AdvisoryLock(i) ==
    /\ Ready(i, "advisory")
    /\ Advance(i, tx[i])
    /\ UNCHANGED rows

\* Only a learner's claim minds that the method is archived.
CheckMethod(i) ==
    LET m == Arg(i)
        good == m # NoMethod =>
                  /\ MethodTeacher[m] = tx[i].job.teacher
                  /\ tx[i].job.by = "learner" => m \notin archived
    IN
    /\ At(i, "method")
    /\ IF good THEN Advance(i, tx[i]) ELSE Close(i)
    /\ UNCHANGED rows

\* loadSlotSnapshot, or the select of the purchase.
Owned(x, t, l) ==
    IF x \in Slots THEN lesson[x].learner = l /\ SlotTeacher[x] = t
                   ELSE PurchaseLearner[x] = l /\ PurchaseTeacher[x] \in {t, NoTeacher}

CheckOwner(i) ==
    /\ At(i, "own")
    /\ IF Owned(Arg(i), tx[i].job.teacher, tx[i].job.learner)
       THEN Advance(i, tx[i]) ELSE Close(i)
    /\ UNCHANGED rows

Holds(c, x) == \E k \in DOMAIN claim[c].items : claim[c].items[k] = x

\* A claim that waits or is confirmed, a package unit in use, a paid card order.
AlreadyPaid(x) ==
    \/ \E c \in Txns : claim[c].status \in Active /\ Holds(c, x)
    \/ lesson[x].unit = "active"
    \/ x \in card

\* Packages are not asked about.
CheckPaid(i) ==
    /\ At(i, "paid")
    /\ IF Arg(i) \in Slots /\ AlreadyPaid(Arg(i)) THEN Close(i) ELSE Advance(i, tx[i])
    /\ UNCHANGED rows

\* The claim, its items, commit; a repeated item is error 23505.
InsertClaim(i) ==
    LET j == tx[i].job
        distinct == \A a, b \in DOMAIN j.items : j.items[a] = j.items[b] => a = b
        row == [status |-> IF j.by = "learner" THEN "claimed" ELSE "confirmed",
                by |-> j.by, items |-> j.items, amount |-> j.amount]
    IN
    /\ At(i, "insertClaim")
    /\ Close(i)
    /\ claim' = IF distinct THEN [claim EXCEPT ![i] = row] ELSE claim
    /\ UNCHANGED <<lesson, card, archived, refunded>>

-----------------------------------------------------------------------------
(* The life of a claim: single updates with a where-clause, which wait for *)
(* the row lock of a refund.  Others than the claim's teacher and learner  *)
(* are refused.                                                            *)

Resolve(c, status) ==
    /\ claim[c].status = "claimed"
    /\ \A j \in Txns : <<"claim", c>> \notin tx[j].held
    /\ claim' = [claim EXCEPT ![c].status = status]
    /\ UNCHANGED <<tx, lesson, card, archived, refunded>>

ConfirmClaim(c) == Resolve(c, "confirmed")
DeclineClaim(c) == Resolve(c, "declined")
CancelClaimByLearner(c) == claim[c].by = "learner" /\ Resolve(c, "cancelled")

RefundJob(c, amount) == [kind |-> "refund", claim |-> c, amount |-> amount]

\* A learner signed in; amounts and the number of items are checked at once.
ASSUME RequestsAssumption ==
    \A job \in Requests :
        \/ /\ job.kind = "claim"
           /\ job = ClaimJob(job.by, job.teacher, job.learner, job.method,
                             job.items, job.amount)
           /\ job.learner \in Learners
           /\ job.items \in Seq(Slots \cup DOMAIN PurchaseLearner)
           /\ job.amount \in Nat
        \/ /\ job.kind = "refund"
           /\ job = RefundJob(job.claim, job.amount)
           /\ job.claim \in Txns
           /\ job.amount \in Nat

\* Mutant: the claim is read without for update.
RefundTxUnlocked(job) ==
    <<Stmt("lockClaim", job.claim, {}),
      Stmt("sum", job.claim, {}), Stmt("insertRefund", job.claim, {})>>

RefundTx(job) ==
    <<Stmt("lockClaim", job.claim, {<<"claim", job.claim>>}),
      Stmt("sum", job.claim, {}), Stmt("insertRefund", job.claim, {})>>

LockClaim(i) ==
    /\ Ready(i, "lockClaim")
    /\ IF claim[Arg(i)].status = "confirmed" THEN Advance(i, tx[i]) ELSE Close(i)
    /\ UNCHANGED rows

SumRefunds(i) ==
    /\ At(i, "sum")
    /\ IF refunded[Arg(i)] + tx[i].job.amount > claim[Arg(i)].amount
       THEN Close(i) ELSE Advance(i, tx[i])
    /\ UNCHANGED rows

InsertRefund(i) ==
    /\ At(i, "insertRefund")
    /\ Close(i)
    /\ refunded' = [refunded EXCEPT ![Arg(i)] = @ + tx[i].job.amount]
    /\ UNCHANGED <<lesson, card, archived, claim>>

-----------------------------------------------------------------------------
(* What the rest of the system does to the rows a claim reads.             *)

\* Booking commits the learner together with the unit it consumed, if any.
Book(s, l, unit) ==
    /\ lesson[s].learner = NoLearner
    /\ lesson' = [lesson EXCEPT ![s] = [learner |-> l, unit |-> unit]]
    /\ UNCHANGED <<tx, card, archived, claim, refunded>>

\* A cancel or a refund of the package gives the unit back.
RestoreUnit(s) ==
    /\ lesson[s].unit = "active"
    /\ lesson' = [lesson EXCEPT ![s].unit = "restored"]
    /\ UNCHANGED <<tx, card, archived, claim, refunded>>

\* The pay webhook of an order bound to the lesson: it takes no claim lock.
CardPaid(s) ==
    /\ lesson[s].learner # NoLearner
    /\ s \notin card
    /\ card' = card \cup {s}
    /\ UNCHANGED <<tx, lesson, archived, claim, refunded>>

ArchiveMethod(m) ==
    /\ m \notin archived
    /\ archived' = archived \cup {m}
    /\ UNCHANGED <<tx, lesson, card, claim, refunded>>

Program(job) == IF job.kind = "claim" THEN ClaimTx(job) ELSE RefundTx(job)

Statement(i) ==
    \/ AdvisoryLock(i) \/ CheckMethod(i) \/ CheckOwner(i) \/ CheckPaid(i)
    \/ InsertClaim(i) \/ LockClaim(i) \/ SumRefunds(i) \/ InsertRefund(i)

Transaction(i) ==
    /\ \/ \E job \in Requests : Begin(i, job, Program(job))
       \/ Abort(i)
       \/ DeadlockVictim(i)
    /\ UNCHANGED rows

Next ==
    \/ \E i \in Txns : Statement(i) \/ Transaction(i)
    \/ \E c \in Txns : ConfirmClaim(c) \/ DeclineClaim(c) \/ CancelClaimByLearner(c)
    \/ \E s \in Slots : \/ \E l \in Learners, u \in {"none", "active"} : Book(s, l, u)
                        \/ RestoreUnit(s)
                        \/ CardPaid(s)
    \/ \E m \in Methods : ArchiveMethod(m)

\* The server runs every statement that need not wait, and its detector runs.
Fairness ==
    \A i \in Txns : WF_vars(Statement(i) \/ (DeadlockVictim(i) /\ UNCHANGED rows))

Spec == Init /\ [][Next]_vars /\ Fairness

-----------------------------------------------------------------------------
(* Properties.                                                             *)

\* A lesson is in at most one claim that waits or is confirmed, whoever raced
\* whom to claim it (the advisory lock and the check of sbp-claims.ts).
OneActiveClaim ==
    \A c, d \in Txns, s \in Slots :
        /\ claim[c].status \in Active /\ Holds(c, s)
        /\ claim[d].status \in Active /\ Holds(d, s)
        => c = d

\* A lesson that a package pays for is in no active claim: the claim reads the
\* learner before it asks for a consumption, and both commit together.
NoClaimOnPackagedLesson ==
    \A c \in Txns, s \in Slots :
        claim[c].status \in Active /\ Holds(c, s) => lesson[s].unit # "active"

\* What goes back to the learner never exceeds a claim, and only a confirmed
\* claim is refunded (createRefund's row lock and sum).
RefundsWithinClaim ==
    \A c \in Txns : /\ refunded[c] <= claim[c].amount
                    /\ refunded[c] > 0 => claim[c].status = "confirmed"

\* Every request ends, also when two claims lock the same lessons in opposite
\* orders (the loop over the items of createLearnerClaim).
EveryRequestEnds == \A i \in Txns : tx[i].todo # <<>> ~> tx[i].todo = <<>>
=============================================================================
