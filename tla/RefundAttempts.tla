--------------------------- MODULE RefundAttempts ---------------------------
(***************************************************************************)
(* Refunds of one lesson's payment.  An operator records one that was made *)
(* elsewhere (admin/refunds), or has the server ask the card provider for  *)
(* it (gateway-initiated): a row is written, the provider is called        *)
(* outside of any transaction, and the reversal is booked afterwards.  The *)
(* request may die in between, and a timer picks up what it left.          *)
(*                                                                         *)
(* Every transaction that reads or books reversals first locks the         *)
(* allocation's row, so each is one step.                                  *)
(***************************************************************************)
EXTENDS Naturals, Sequences

CONSTANTS
    Amount,         \* amount_kopecks of the allocation
    Clients,        \* operators' windows: one request of each at a time
    Key,            \* the Idempotency-Key a client sends
    NoKey,
    MaxAttempts,    \* bound: rows of payment_refund_attempts
    MaxSends,       \* bound: requests of one client
    MaxFaults       \* bound: failing transactions and crashes

ASSUME RefundAssumption ==
    /\ Amount \in Nat /\ MaxAttempts \in Nat /\ MaxSends \in Nat /\ MaxFaults \in Nat
    /\ Key = [c \in Clients |-> Key[c]]

Attempts == 1..MaxAttempts

VARIABLES
    attempt,    \* payment_refund_attempts
    reversed,   \* sum of refunded_kopecks in payment_allocation_reversals
    refund,     \* external: refunds the provider made, and how many reversals book each
    req,        \* gateway-initiated requests under way
    sends, faults,
    calls       \* history: calls of the provider for each attempt

vars == <<attempt, reversed, refund, req, sends, faults, calls>>

Statuses == {"none", "pending", "succeeded", "gateway_succeeded_db_failed", "declined", "error"}

NoRow == [status |-> "none", key |-> NoKey, kopecks |-> 0, gateway |-> 0, reversal |-> FALSE]
IdleReq == [at |-> "idle"]

Init ==
    /\ attempt = [a \in Attempts |-> NoRow]
    /\ reversed = 0 /\ refund = <<>>
    /\ req = [c \in Clients |-> IdleReq]
    /\ sends = [c \in Clients |-> 0] /\ faults = 0
    /\ calls = [a \in Attempts |-> 0]

Fault == faults < MaxFaults /\ faults' = faults + 1

Fits(n) == reversed + n <= Amount

\* createAllocationReversal, for refund g of the provider.
Book(n, g) ==
    /\ reversed' = reversed + n
    /\ refund' = [refund EXCEPT ![g].booked = @ + 1]

-----------------------------------------------------------------------------
(* The attempt's row.                                                      *)

Mark(a, status) == attempt' = [attempt EXCEPT ![a].status = status]

\* Mutant: a status the column does not know.
MarkRefunded(a, g) ==
    attempt' = [attempt EXCEPT ![a].status = "refunded", ![a].gateway = g, ![a].reversal = TRUE]

markAttemptSucceeded(a, g) ==
    attempt' = [attempt EXCEPT ![a].status = "succeeded", ![a].gateway = g, ![a].reversal = TRUE]

\* Mutant: the row's check constraint is missing.
MarkDbFailedUnchecked(a, g) ==
    attempt' = [attempt EXCEPT ![a].status = "gateway_succeeded_db_failed", ![a].gateway = g]

\* The check constraint refuses the status on a row that has its reversal.
markAttemptGatewaySucceededDbFailed(a, g) ==
    attempt' = IF attempt[a].reversal THEN attempt
               ELSE [attempt EXCEPT ![a].status = "gateway_succeeded_db_failed",
                                    ![a].gateway = g]

WithKey(c) == {a \in Attempts : Key[c] # NoKey /\ attempt[a].status # "none"
                                /\ attempt[a].key = Key[c]}

\* An attempt with the key that exists already is taken as it is.
createPendingRefundAttempt(c, a, n) ==
    IF WithKey(c) # {}
    THEN a \in WithKey(c) /\ UNCHANGED attempt
    ELSE /\ attempt[a].status = "none" /\ \A b \in 1..(a - 1) : attempt[b].status # "none"
         /\ attempt' = [attempt EXCEPT ![a] = [NoRow EXCEPT !.status = "pending", !.key = Key[c],
                                                            !.kopecks = n]]

-----------------------------------------------------------------------------
(* The gateway-initiated request.                                          *)

At(c, at) == req[c].at = at
Set(c, rec) == req' = [req EXCEPT ![c] = rec]

\* The request goes on, with refund g of the provider.
Goes(c, at, g) == Set(c, [at |-> at, attempt |-> req[c].attempt, kopecks |-> req[c].kopecks,
                          gateway |-> g])

\* Mutant: only a finished attempt answers the repeated request.
FindTerminalOnly(c) == {a \in WithKey(c) : attempt[a].status \in {"succeeded", "declined"}}

findRefundAttemptByIdempotency(c) == WithKey(c)

\* Phase 0: a known key is answered from its row.
Send(c, n) ==
    /\ At(c, "idle") /\ sends[c] < MaxSends
    /\ sends' = [sends EXCEPT ![c] = @ + 1]
    /\ IF findRefundAttemptByIdempotency(c) # {} THEN UNCHANGED req
       ELSE Set(c, [at |-> "validate", kopecks |-> n])
    /\ UNCHANGED <<attempt, reversed, refund, faults, calls>>

\* Phase 1: a refund that does not fit is refused; the row is durable before
\* the call.
Validate(c) ==
    /\ At(c, "validate")
    /\ LET n == req[c].kopecks
       IN  \/ ~Fits(n) /\ Set(c, IdleReq) /\ UNCHANGED attempt
           \/ /\ Fits(n)
              /\ \E a \in Attempts :
                   /\ createPendingRefundAttempt(c, a, n)
                   /\ Set(c, [at |-> "call", attempt |-> a, kopecks |-> n])
    /\ UNCHANGED <<reversed, refund, sends, faults, calls>>

\* Mutant: success without a transaction id counts as declined.
AnswersParsedLoosely(moved) ==
    IF moved THEN {"success", "declined", "error"} ELSE {"declined", "error"}

\* refundTransaction: an error hides whether the money moved.
Answers(moved) ==
    IF moved THEN {"success", "error"} ELSE {"declined", "error"}

\* Phase 2.
CallGateway(c) ==
    /\ At(c, "call")
    /\ calls' = [calls EXCEPT ![req[c].attempt] = @ + 1]
    /\ \E moved \in BOOLEAN : \E answer \in Answers(moved) :
         /\ refund' = IF moved
                      THEN Append(refund, [attempt |-> req[c].attempt, booked |-> 0])
                      ELSE refund
         /\ Goes(c, answer, IF answer = "success" THEN Len(refund') ELSE 0)
    /\ UNCHANGED <<attempt, reversed, sends, faults>>

\* Phase 3 of a refusal or an error.
FinishRefused(c) ==
    /\ req[c].at \in {"declined", "error"}
    /\ Mark(req[c].attempt, req[c].at)
    /\ Set(c, IdleReq)
    /\ UNCHANGED <<reversed, refund, sends, faults, calls>>

\* Mutant: what fitted in phase 1 is taken to fit still.
BookReversalBlindly(c) ==
    /\ At(c, "success")
    /\ Book(req[c].kopecks, req[c].gateway)
    /\ markAttemptSucceeded(req[c].attempt, req[c].gateway)

\* The reversal and the row in one transaction.
BookReversal(c) ==
    /\ At(c, "success") /\ Fits(req[c].kopecks)
    /\ Book(req[c].kopecks, req[c].gateway)
    /\ markAttemptSucceeded(req[c].attempt, req[c].gateway)

\* Phase 3 of a success.
Finish(c) ==
    /\ BookReversal(c)
    /\ Set(c, IdleReq)
    /\ UNCHANGED <<sends, faults, calls>>

\* Another refund was booked meanwhile, the transaction failed, or it
\* committed and the answer to the commit was lost.
FinishThrows(c) ==
    /\ At(c, "success")
    /\ Goes(c, "db_failed", req[c].gateway)
    /\ \/ ~Fits(req[c].kopecks) /\ UNCHANGED <<attempt, reversed, refund, faults>>
       \/ Fault /\ UNCHANGED <<attempt, reversed, refund>>
       \/ Fault /\ BookReversal(c)
    /\ UNCHANGED <<sends, calls>>

MarkDbFailed(c) ==
    /\ At(c, "db_failed")
    /\ markAttemptGatewaySucceededDbFailed(req[c].attempt, req[c].gateway)
    /\ Set(c, IdleReq)
    /\ UNCHANGED <<reversed, refund, sends, faults, calls>>

\* The server dies, or a best-effort write fails.
Dies(c) ==
    /\ ~At(c, "idle") /\ Fault
    /\ Set(c, IdleReq)
    /\ UNCHANGED <<attempt, reversed, refund, sends, calls>>

-----------------------------------------------------------------------------
(* The manual refund, and the timer.                                       *)

RecordManually(n) ==
    /\ Fits(n)
    /\ reversed' = reversed + n
    /\ UNCHANGED <<attempt, refund, req, sends, faults, calls>>

\* A refund that no longer fits is left to the operator.
reconcileGatewaySucceededDbFailed(a) ==
    /\ attempt[a].status = "gateway_succeeded_db_failed"
    /\ Fits(attempt[a].kopecks)
    /\ Book(attempt[a].kopecks, attempt[a].gateway)
    /\ markAttemptSucceeded(a, attempt[a].gateway)
    /\ UNCHANGED <<req, sends, faults, calls>>

\* Mutant: an attempt without the provider's id is left alone.
TimeoutOfKnown(a) ==
    /\ attempt[a].status = "pending" /\ attempt[a].gateway # 0
    /\ Mark(a, "error")
    /\ UNCHANGED <<reversed, refund, req, sends, faults, calls>>

\* After half an hour, although the request may still be waiting for a
\* connection.
reconcilePendingTimeout(a) ==
    /\ attempt[a].status = "pending"
    /\ Mark(a, "error")
    /\ UNCHANGED <<reversed, refund, req, sends, faults, calls>>

-----------------------------------------------------------------------------

RequestStep(c) == \/ Validate(c) \/ CallGateway(c) \/ FinishRefused(c) \/ Finish(c)
                  \/ FinishThrows(c) \/ MarkDbFailed(c)

runRefundReconcile(a) ==
    reconcileGatewaySucceededDbFailed(a) \/ reconcilePendingTimeout(a)

Next ==
    \/ \E c \in Clients : RequestStep(c) \/ Dies(c) \/ \E n \in 1..Amount : Send(c, n)
    \/ \E n \in 1..Amount : RecordManually(n)
    \/ \E a \in Attempts : runRefundReconcile(a)

\* The timer fires every five minutes, and a living server carries a request on.
Fairness ==
    /\ \A c \in Clients : WF_vars(RequestStep(c))
    /\ \A a \in Attempts : WF_vars(runRefundReconcile(a))

Spec == Init /\ [][Next]_vars /\ Fairness

-----------------------------------------------------------------------------
\* Types.
TypeOK ==
    /\ attempt \in [Attempts -> [status : Statuses, key : {Key[c] : c \in Clients} \cup {NoKey},
                                 kopecks : 0..Amount, gateway : 0..Len(refund),
                                 reversal : BOOLEAN]]
    /\ reversed \in Nat
    /\ \A g \in 1..Len(refund) : refund[g].attempt \in Attempts /\ refund[g].booked \in Nat
    /\ sends \in [Clients -> 0..MaxSends] /\ faults \in 0..MaxFaults
    /\ calls \in [Attempts -> Nat]

\* Reversals never exceed what was paid, though manual refunds, the timer and
\* requests that validated long ago all book against one allocation.
ReversedWithinAllocation == reversed <= Amount

\* A refund of the provider is booked by one reversal at most.  A commit whose
\* answer is lost is followed by an attempt to flag the row for the timer, which
\* would book it again.
RefundBookedOnce == \A g \in 1..Len(refund) : refund[g].booked <= 1

\* Money that left is booked, or its row is one an operator or the timer looks
\* at: never succeeded without a reversal and never declined.
RefundAccountedFor ==
    \A g \in 1..Len(refund) :
        \/ refund[g].booked > 0
        \/ attempt[refund[g].attempt].status \in {"pending", "gateway_succeeded_db_failed", "error"}

\* A key makes the provider called once, however often the operator repeats the
\* request ("the existing attempt row is returned and the CP call does NOT fire
\* a second time").
OneCallPerAttempt == \A a \in Attempts : calls[a] <= 1

\* An attempt is decided in the end; only a refund that no longer fits, or that
\* nobody knows the outcome of, is left to the operator.
AttemptsSettle ==
    \A a \in Attempts :
        attempt[a].status # "none" ~>
            \/ attempt[a].status \in {"succeeded", "declined", "error"}
            \/ ~Fits(attempt[a].kopecks)
=============================================================================
