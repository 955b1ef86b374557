--------------------------- MODULE PaymentOrders ---------------------------
(***************************************************************************)
(* Payment orders from checkout to product.  The card provider captures or *)
(* declines, answers API calls late or not at all, and repeats a webhook   *)
(* until it is acknowledged; the server may handle several deliveries of   *)
(* one webhook at a time, time out waiting for a connection, fail in the   *)
(* middle of a handler or die.                                             *)
(*                                                                         *)
(* A webhook request is a process: its steps are the handler's own         *)
(* transactions, which run outside the transaction that holds the lock.    *)
(***************************************************************************)
EXTENDS Naturals, FiniteSets

CONSTANTS
    Orders,
    Product,    \* what the order's metadata names
    Teacher,    \* teacher_account_id of an order
    Teachers,
    Txns,       \* transactions of the provider
    Valid,      \* those whose amount and e-mail are the order's
    Requests,   \* webhook requests the server handles at a time
    Scenes,     \* bound: the orders and transactions of one behaviour
    MaxFaults,  \* bound: timeouts, errors, crashes and lost answers
    NoOrder,
    NoTxn

Products == {"plain", "slot", "package", "subscription"}

ASSUME PaymentAssumption ==
    /\ Product \in [Orders -> Products]
    /\ Teacher \in [Orders -> Teachers]
    /\ Valid \subseteq Txns
    /\ MaxFaults \in Nat
    /\ NoOrder \notin Orders
    /\ NoTxn \notin Txns

VARIABLES
    order,      \* payment_orders
    txn,        \* the provider's transactions
    owed,       \* webhooks the provider still has to get acknowledged
    delivered,  \* webhook_deliveries
    req,        \* webhook requests in progress
    call,       \* answers of provider API calls not yet applied
    alloc,      \* orders with a lesson_slot row in payment_allocations
    grant,      \* outcome of processPackageGrant per order
    sub,        \* teacher_subscriptions
    applied,    \* history: how often an order was applied to a subscription
    runs,       \* history: how often the handler of a webhook was entered
    faults

vars == <<order, txn, owed, delivered, req, call, alloc, grant, sub,
          applied, runs, faults>>
products == <<alloc, grant, sub, applied>>

Statuses == {"none", "pending", "paid", "failed", "cancelled"}
Kinds == {"pay", "fail"}
Webhooks == Kinds \X Txns
Steps == {"idle", "recv", "mark", "mail", "alloc", "grant", "look", "renew",
          "record"}
Answers == {"success", "requires3ds", "declined", "error"}

IdleReq == [pc |-> "idle", hook |-> <<"pay", NoTxn>>, serial |-> FALSE,
            mails |-> 0]
NoSub == [order |-> NoOrder, cancelled |-> FALSE]

\* Types of the state.
TypeOK ==
    /\ order \in [Orders -> [st : Statuses, threeDs : Txns \cup {NoTxn}]]
    /\ txn \in [Txns -> [order : Orders \cup {NoOrder},
                         st : {"none", "challenged", "captured", "declined"}]]
    /\ owed \subseteq Webhooks
    /\ delivered \subseteq Webhooks
    /\ req \in [Requests -> [pc : Steps, hook : Webhooks \cup {<<"pay", NoTxn>>},
                             serial : BOOLEAN, mails : 0..2]]
    /\ call \subseteq [kind : {"charge", "post3ds", "createQr"}, order : Orders,
                       txn : Txns \cup {NoTxn}, answer : Answers]
    /\ alloc \subseteq Orders
    /\ grant \in [Orders -> {"none", "granted", "refused"}]
    /\ sub \in [Teachers -> [order : Orders \cup {NoOrder}, cancelled : BOOLEAN]]
    /\ applied \in [Orders -> Nat]
    /\ runs \in [Webhooks -> Nat]
    /\ faults \in 0..MaxFaults

Init ==
    /\ order = [o \in Orders |-> [st |-> "none", threeDs |-> NoTxn]]
    /\ txn = [t \in Txns |-> [order |-> NoOrder, st |-> "none"]]
    /\ owed = {}
    /\ delivered = {}
    /\ req = [r \in Requests |-> IdleReq]
    /\ call = {}
    /\ alloc = {}
    /\ grant = [o \in Orders |-> "none"]
    /\ sub = [a \in Teachers |-> NoSub]
    /\ applied = [o \in Orders |-> 0]
    /\ runs = [w \in Webhooks |-> 0]
    /\ faults = 0

Fault == faults < MaxFaults /\ faults' = faults + 1

\* The orders and transactions so far and those of S may occur together.
Used == {o \in Orders : order[o].st # "none"} \cup {t \in Txns : txn[t].st # "none"}
InScene(S) == \E scene \in Scenes : Used \cup S \subseteq scene

-----------------------------------------------------------------------------
(* The order's life cycle: each is one transaction under the row lock.     *)

\* Mutant: a fail that arrives after the payment wins.
markOrderFailedAlways(o) == [order EXCEPT ![o].st = "failed"]

\* Mutant: a payment that arrives after a failure or a cancel is ignored.
markOrderPaidIfPending(o) ==
    IF order[o].st = "pending" THEN [order EXCEPT ![o].st = "paid"] ELSE order

markOrderPaid(o) == [order EXCEPT ![o].st = "paid"]
markOrderFailed(o) ==
    IF order[o].st \in {"paid", "failed"} THEN order
    ELSE [order EXCEPT ![o].st = "failed"]
markOrderCancelled(o) ==
    IF order[o].st \in {"paid", "cancelled", "failed"} THEN order
    ELSE [order EXCEPT ![o].st = "cancelled"]

\* createPayment, checkoutPackage and the subscribe route insert the order.
CreatePayment(o) ==
    /\ order[o].st = "none" /\ InScene({o})
    /\ order' = [order EXCEPT ![o].st = "pending"]
    /\ UNCHANGED <<txn, owed, delivered, req, call, products, runs, faults>>

\* The buyer closes the form.
CancelPayment(o) ==
    /\ order[o].st # "none"
    /\ order' = markOrderCancelled(o)
    /\ UNCHANGED <<txn, owed, delivered, req, call, products, runs, faults>>

\* The hourly cleanup.
CancelStaleOrder(o) ==
    /\ order[o].st = "pending"
    /\ order' = [order EXCEPT ![o].st = "cancelled"]
    /\ UNCHANGED <<txn, owed, delivered, req, call, products, runs, faults>>

-----------------------------------------------------------------------------
(* The provider, as the code relies on it.                                 *)

Hook(st) == IF st = "captured" THEN "pay" ELSE "fail"

\* The provider decides transaction t and owes the webhook that says so.
Decide(t, o, st) ==
    /\ txn' = [txn EXCEPT ![t] = [order |-> o, st |-> st]]
    /\ owed' = owed \cup {<<Hook(st), t>>}

\* The buyer pays in the widget or by the QR code; the form does not notice
\* that the order was failed or cancelled meanwhile.
BuyerPays(t, o) ==
    /\ order[o].st \notin {"none", "paid"}
    /\ txn[t].st = "none" /\ InScene({t})
    /\ \E st \in {"captured", "declined"} : Decide(t, o, st)
    /\ UNCHANGED <<order, delivered, req, call, products, runs, faults>>

Answer(k, o, t, a) == [kind |-> k, order |-> o, txn |-> t, answer |-> a]

\* What the API may answer about a transaction: an error hides its state.
AnswersFor(st) ==
    CASE st = "captured" -> {"success", "error"}
      [] st = "declined" -> {"declined", "error"}
      [] st = "challenged" -> {"requires3ds", "error"}
      [] st = "none" -> {"declined", "error"}

-----------------------------------------------------------------------------
(* Calls to the provider.  The order is written before the call, the       *)
(* answer is applied after it; anything may happen in between.             *)

ChargeWithSavedCard(o, t) ==
    /\ order[o].st = "none" /\ Product[o] = "plain" /\ t \in Valid
    /\ txn[t].st = "none" /\ InScene({o, t})
    /\ order' = [order EXCEPT ![o].st = "pending"]
    /\ \E st \in {"none", "challenged", "captured", "declined"} :
         /\ CASE st \in {"captured", "declined"} -> Decide(t, o, st)
              [] st = "challenged" ->
                   /\ txn' = [txn EXCEPT ![t] = [order |-> o, st |-> st]]
                   /\ UNCHANGED owed
              [] st = "none" -> UNCHANGED <<txn, owed>>
         /\ \E a \in AnswersFor(st) : call' = call \cup {Answer("charge", o, t, a)}
    /\ UNCHANGED <<delivered, req, products, runs, faults>>

\* The bank sends the buyer back, perhaps twice.
ConfirmThreeDs(o) ==
    /\ order[o].st = "pending"
    /\ order[o].threeDs # NoTxn
    /\ LET t == order[o].threeDs
       IN  \E st \in {"challenged", "captured", "declined"} :
             /\ IF txn[t].st = "challenged" /\ st # "challenged" THEN Decide(t, o, st)
                ELSE st = txn[t].st /\ UNCHANGED <<txn, owed>>
             /\ \E a \in AnswersFor(st) \ {"requires3ds"} :
                  call' = call \cup {Answer("post3ds", o, t, a)}
    /\ UNCHANGED <<order, delivered, req, products, runs, faults>>

\* Only a refusal changes the order; otherwise it stays pending, as after
\* CreatePayment.
CreateSbpQr(o) ==
    /\ order[o].st = "none" /\ Product[o] = "plain" /\ InScene({o})
    /\ order' = [order EXCEPT ![o].st = "pending"]
    /\ call' = call \cup {Answer("createQr", o, NoTxn, "declined")}
    /\ UNCHANGED <<txn, owed, delivered, req, products, runs, faults>>

\* An error of the charge call fails the order; one of post3ds leaves it.
AnswerApplied(c) ==
    CASE c.answer = "success" -> markOrderPaid(c.order)
      [] c.answer = "requires3ds" -> [order EXCEPT ![c.order].threeDs = c.txn]
      [] c.answer = "declined" -> markOrderFailed(c.order)
      [] c.answer = "error" /\ c.kind = "charge" -> markOrderFailed(c.order)
      [] OTHER -> order

CallReturns(c) ==
    /\ order' = AnswerApplied(c)
    /\ call' = call \ {c}
    /\ UNCHANGED <<txn, owed, delivered, req, products, runs, faults>>

\* The server dies while it waits for the provider.
CallLost(c) ==
    /\ Fault
    /\ call' = call \ {c}
    /\ UNCHANGED <<order, txn, owed, delivered, req, products, runs>>

-----------------------------------------------------------------------------
(* Webhook requests.                                                       *)

At(r, pc) == req[r].pc = pc
OrderOf(r) == txn[req[r].hook[2]].order
Kind(r) == req[r].hook[1]
Goto(r, pc) == req' = [req EXCEPT ![r].pc = pc]

\* The provider sends a webhook that it has no acknowledgement for.
Deliver(w, r) ==
    /\ w \in owed
    /\ At(r, "idle")
    /\ req' = [req EXCEPT ![r] = [pc |-> "recv", hook |-> w, serial |-> FALSE,
                                  mails |-> 0]]
    /\ UNCHANGED <<order, txn, owed, delivered, call, products, runs, faults>>

\* Mutant: no advisory lock.
LockFreeAlways(r) == TRUE

\* pg_advisory_xact_lock on (provider, kind, transaction) is free.
LockFree(r) ==
    \A q \in Requests : ~(req[q].serial /\ req[q].hook = req[r].hook)

\* Mutant: the webhook is acknowledged before it is handled.
RespondFirst(r, acked) ==
    /\ req' = [req EXCEPT ![r] = IdleReq]
    /\ owed' = owed \ {req[r].hook}

\* Answer; the provider is done with the webhook when the code is 0.
Respond(r, acked) ==
    /\ req' = [req EXCEPT ![r] = IdleReq]
    /\ owed' = IF acked THEN owed \ {req[r].hook} ELSE owed

Accepted(r) == req[r].hook[2] \in Valid

\* Take the lock, then look the delivery up: replay the answer or go on.
LockAndLookup(r) ==
    /\ At(r, "recv")
    /\ LockFree(r)
    /\ IF req[r].hook \in delivered
       THEN Respond(r, Accepted(r))
       ELSE /\ req' = [req EXCEPT ![r].pc = "mark", ![r].serial = TRUE]
            /\ UNCHANGED owed
    /\ UNCHANGED <<order, txn, delivered, call, products, runs, faults>>

\* No connection in time, or the lock or the lookup fails: go on without.
SerialPathFails(r) ==
    /\ Fault
    /\ At(r, "recv")
    /\ Goto(r, "mark")
    /\ UNCHANGED <<order, txn, owed, delivered, call, products, runs>>

NextStep(o) ==
    CASE Product[o] = "slot" -> "alloc"
      [] Product[o] = "package" -> "grant"
      [] Product[o] = "subscription" -> "look"
      [] OTHER -> "record"

\* Mutant: the cross-check of amount and e-mail is gone.
MarkUnchecked(r) ==
    /\ At(r, "mark")
    /\ order' = IF Kind(r) = "pay" THEN markOrderPaid(OrderOf(r))
                                   ELSE markOrderFailed(OrderOf(r))
    /\ Goto(r, "mail")
    /\ runs' = [runs EXCEPT ![req[r].hook] = @ + 1]
    /\ UNCHANGED <<txn, owed, delivered, call, products, faults>>

\* Validate, then the handler's first transaction.
Mark(r) ==
    /\ At(r, "mark")
    /\ IF Accepted(r)
       THEN /\ order' = IF Kind(r) = "pay" THEN markOrderPaid(OrderOf(r))
                                           ELSE markOrderFailed(OrderOf(r))
            /\ Goto(r, "mail")
            /\ runs' = [runs EXCEPT ![req[r].hook] = @ + 1]
       ELSE /\ Goto(r, "record")
            /\ UNCHANGED <<order, runs>>
    /\ UNCHANGED <<txn, owed, delivered, call, products, faults>>

\* The operator's e-mail; its errors are swallowed.
Mail(r) ==
    /\ At(r, "mail")
    /\ req' = [req EXCEPT ![r].mails = @ + 1,
                          ![r].pc = IF Kind(r) = "pay" THEN NextStep(OrderOf(r))
                                                       ELSE "record"]
    /\ UNCHANGED <<order, txn, owed, delivered, call, products, runs, faults>>

\* Best effort: the row is written, or the binding is refused or fails.
Allocate(r) ==
    /\ At(r, "alloc")
    /\ alloc' \in {alloc, alloc \cup {OrderOf(r)}}
    /\ Goto(r, "record")
    /\ UNCHANGED <<order, txn, owed, delivered, call, grant, sub, applied, runs,
                   faults>>

\* processPackageGrant: granted, granted before, or refused for good.
Grant(r) ==
    /\ At(r, "grant")
    /\ grant' \in IF grant[OrderOf(r)] = "granted" THEN {grant}
                  ELSE {[grant EXCEPT ![OrderOf(r)] = g] : g \in {"granted", "refused"}}
    /\ Goto(r, "record")
    /\ UNCHANGED <<order, txn, owed, delivered, call, alloc, sub, applied, runs,
                   faults>>

\* findSubscriptionByPaymentOrderId.  The subscribe route names the tier and the
\* teacher in every order, so the branch without them is never taken.
LookSubscription(r) ==
    /\ At(r, "look")
    /\ Goto(r, IF \E a \in Teachers : sub[a].order = OrderOf(r)
               THEN "record" ELSE "renew")
    /\ UNCHANGED <<order, txn, owed, delivered, call, products, runs, faults>>

\* createOrRenewTeacherSubscription.
RenewSubscription(r) ==
    /\ At(r, "renew")
    /\ LET o == OrderOf(r)
       IN  /\ sub' = [sub EXCEPT ![Teacher[o]] = [order |-> o, cancelled |-> FALSE]]
           /\ applied' = [applied EXCEPT ![o] = @ + 1]
    /\ Goto(r, "record")
    /\ UNCHANGED <<order, txn, owed, delivered, call, alloc, grant, runs, faults>>

Throwing == {"mark", "mail", "grant", "look", "renew"}

\* Mutant: the error is swallowed and the delivery counts as handled.
HandlerThrowsQuietly(r) ==
    /\ Fault
    /\ req[r].pc \in Throwing
    /\ Goto(r, "record")
    /\ UNCHANGED <<order, txn, owed, delivered, call, products, runs>>

\* Mutant: every error starts the request over.
HandlerThrowsOver(r) ==
    /\ Fault
    /\ req[r].pc \in Throwing
    /\ req' = [req EXCEPT ![r].serial = FALSE, ![r].pc = "mark"]
    /\ UNCHANGED <<order, txn, owed, delivered, call, products, runs>>

\* A transaction of the handler fails.  The serialised path rolls back and
\* falls through to the path without a lock; that one answers 500.
HandlerThrows(r) ==
    /\ Fault
    /\ req[r].pc \in Throwing
    /\ IF req[r].serial
       THEN /\ req' = [req EXCEPT ![r].serial = FALSE, ![r].pc = "mark"]
            /\ UNCHANGED owed
       ELSE Respond(r, FALSE)
    /\ UNCHANGED <<order, txn, delivered, call, products, runs>>

\* Record the delivery, release the lock, answer.
Record(r) ==
    /\ At(r, "record")
    /\ delivered' = delivered \cup {req[r].hook}
    /\ Respond(r, Accepted(r))
    /\ UNCHANGED <<order, txn, call, products, runs, faults>>

\* The insert fails: the answer is sent all the same.
RecordFails(r) ==
    /\ Fault
    /\ At(r, "record")
    /\ Respond(r, Accepted(r))
    /\ UNCHANGED <<order, txn, delivered, call, products, runs>>

\* The delivery is recorded, the answer does not reach the provider.
AnswerLost(r) ==
    /\ Fault
    /\ At(r, "record")
    /\ delivered' = delivered \cup {req[r].hook}
    /\ Respond(r, FALSE)
    /\ UNCHANGED <<order, txn, call, products, runs>>

\* The server dies: the lock's transaction rolls back, no answer is sent.
Crash(r) ==
    /\ Fault
    /\ ~At(r, "idle")
    /\ Respond(r, FALSE)
    /\ UNCHANGED <<order, txn, delivered, call, products, runs>>

-----------------------------------------------------------------------------
(* Subscriptions apart from payment.                                       *)

CancelSubscription(a) ==
    /\ sub[a].order # NoOrder
    /\ sub' = [sub EXCEPT ![a].cancelled = TRUE]
    /\ UNCHANGED <<order, txn, owed, delivered, req, call, alloc, grant, applied,
                   runs, faults>>

\* A webhook of the order may still be handled.
Repeatable(o) ==
    \E t \in Txns : /\ txn[t].order = o
                    /\ \/ <<"pay", t>> \in owed
                       \/ \E r \in Requests : req[r].hook = <<"pay", t>>

\* expireOverdueSubscriptions; cancelled_at is kept.  A period is at least 30
\* days long, far longer than the provider repeats a webhook.
ExpireSubscription(a) ==
    /\ sub[a].order # NoOrder
    /\ ~Repeatable(sub[a].order)
    /\ sub' = [sub EXCEPT ![a].order = NoOrder]
    /\ UNCHANGED <<order, txn, owed, delivered, req, call, alloc, grant, applied,
                   runs, faults>>

-----------------------------------------------------------------------------
RequestStep(r) ==
    \/ LockAndLookup(r) \/ Mark(r) \/ Mail(r) \/ Allocate(r) \/ Grant(r)
    \/ LookSubscription(r) \/ RenewSubscription(r) \/ Record(r)

RequestFault(r) ==
    \/ SerialPathFails(r) \/ HandlerThrows(r) \/ RecordFails(r)
    \/ AnswerLost(r) \/ Crash(r)

Next ==
    \/ \E o \in Orders : \/ CreatePayment(o) \/ CancelPayment(o)
                         \/ CancelStaleOrder(o) \/ CreateSbpQr(o)
                         \/ ConfirmThreeDs(o)
    \/ \E o \in Orders, t \in Txns : BuyerPays(t, o) \/ ChargeWithSavedCard(o, t)
    \/ \E c \in call : CallReturns(c) \/ CallLost(c)
    \/ \E w \in owed, r \in Requests : Deliver(w, r)
    \/ \E r \in Requests : RequestStep(r) \/ RequestFault(r)
    \/ \E a \in Teachers : CancelSubscription(a) \/ ExpireSubscription(a)

\* A running server takes every request on, and the provider repeats a payment
\* until it is acknowledged: webhooks that are refused, and so repeated for ever,
\* may keep all of Requests busy, but not each time (SF).  Buyers, faults and the
\* operator are not bound to anything.
Fairness ==
    /\ \A r \in Requests : WF_vars(RequestStep(r))
    /\ \A t \in Valid : SF_vars(\E r \in Requests : Deliver(<<"pay", t>>, r))

Spec == Init /\ [][Next]_vars /\ Fairness

-----------------------------------------------------------------------------
(* Properties.                                                             *)

\* An order is paid only when the provider captured a transaction for it
\* whose amount and e-mail are the order's: neither a webhook for another
\* amount nor an unanswered API call makes it paid.
PaidMeansCaptured ==
    \A o \in Orders :
      order[o].st = "paid" =>
        \E t \in Valid : txn[t] = [order |-> o, st |-> "captured"]

\* markOrderFailed, markOrderCancelled and the cleanup never take a payment
\* back, however late they come.
PaidIsFinal ==
    [][\A o \in Orders : order[o].st = "paid" => order'[o].st = "paid"]_vars

\* The order is paid and what it bought was handed over or refused for good.
Fulfilled(o) ==
    /\ order[o].st = "paid"
    /\ Product[o] = "package" => grant[o] # "none"
    /\ Product[o] = "subscription" => applied[o] > 0

\* Once the provider stops repeating the pay webhook nobody will run the
\* handler again, so by then the product must have been handed over.
AcknowledgedMeansFulfilled ==
    \A t \in Valid :
      txn[t].st = "captured" /\ <<"pay", t>> \notin owed => Fulfilled(txn[t].order)

\* A recorded delivery is replayed instead of handled, so it was handled.
RecordedMeansFulfilled ==
    \A t \in Valid : <<"pay", t>> \in delivered => Fulfilled(txn[t].order)

\* Without faults the lock and the delivery row let each webhook be handled
\* once.  A fault costs at most two runs more: when a handler throws, its own
\* request starts over without the lock, and the lock it gave up lets a second
\* delivery in at the same time.
RunsNeedFaults ==
    \A w \in Webhooks : runs[w] <= 1 + 2 * faults

\* A captured payment reaches its product, through any bounded number of
\* faults, also when the order was failed or cancelled meanwhile.
CapturedIsFulfilled ==
    \A t \in Valid :
      txn[t].st = "captured" ~> (txn[t].order # NoOrder /\ Fulfilled(txn[t].order))

\* "if the order was already applied (e.g. CloudPayments re-fired the webhook),
\* the second call is a no-op".
AppliedOnce ==
    \A o \in Orders : applied[o] <= 1
=============================================================================
