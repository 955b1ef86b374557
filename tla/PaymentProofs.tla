--------------------------- MODULE PaymentProofs ---------------------------
(***************************************************************************)
(* Proofs about PaymentOrders for every number of orders, transactions,    *)
(* webhook requests and faults.                                            *)
(***************************************************************************)
EXTENDS PaymentOrders, FiniteSetTheorems, TLAPS

-----------------------------------------------------------------------------
(* The inductive invariant.                                                *)

\* A transaction that was begun has an order.
Placed == \A t \in Txns : txn[t].st # "none" => txn[t].order \in Orders

\* A webhook tells what the provider decided.
Told(w) ==
    /\ txn[w[2]].st # "none"
    /\ w[1] = "pay" => txn[w[2]].st = "captured"

HooksTrue == \A w \in owed \cup delivered : Told(w)
HookTrue(r) ==
    req[r].pc # "idle" => req[r].hook \in Webhooks /\ Told(req[r].hook)

\* Transaction t was begun for order o, with the order's amount and e-mail.
Begun(t, o) == t \in Valid /\ txn[t].order = o /\ txn[t].st # "none"

CallsTrue ==
    \A c \in call :
      /\ c.answer \in {"success", "requires3ds"} => Begun(c.txn, c.order)
      /\ c.answer = "success" => txn[c.txn].st = "captured"

LinksTrue ==
    \A o \in Orders : order[o].threeDs # NoTxn => Begun(order[o].threeDs, o)

SubsApplied ==
    \A a \in Teachers : sub[a].order # NoOrder => applied[sub[a].order] > 0

\* One request enters the handler at most twice, the second time unlocked.
MailBound(r) ==
    /\ req[r].pc = "recv" => ~req[r].serial /\ req[r].mails = 0
    /\ req[r].serial => req[r].mails <= 1
    /\ req[r].pc \in {"mark", "mail"} =>
         req[r].mails <= 1 /\ (req[r].serial => req[r].mails = 0)

\* How far the handler of a valid pay webhook has brought its order.
InHandler == {"mail", "alloc", "grant", "look", "renew"}
Handled(r) ==
    /\ req[r].pc \in InHandler => Accepted(r)
    /\ req[r].pc \in InHandler \ {"mail"} => Kind(r) = "pay"
    /\ req[r].pc = "alloc" => Product[OrderOf(r)] = "slot"
    /\ req[r].pc = "grant" => Product[OrderOf(r)] = "package"
    /\ req[r].pc \in {"look", "renew"} => Product[OrderOf(r)] = "subscription"
    /\ req[r].pc \in InHandler /\ Kind(r) = "pay" => order[OrderOf(r)].st = "paid"
    /\ req[r].pc = "record" /\ Kind(r) = "pay" /\ Accepted(r) => Fulfilled(OrderOf(r))

PayInv ==
    /\ TypeOK
    /\ Placed /\ HooksTrue /\ CallsTrue /\ LinksTrue /\ PaidMeansCaptured /\ SubsApplied
    /\ \A r \in Requests : HookTrue(r) /\ MailBound(r) /\ Handled(r)
    /\ RecordedMeansFulfilled /\ AcknowledgedMeansFulfilled

-----------------------------------------------------------------------------
(* What no step takes back.                                                *)

TxnsKept ==
    \A t \in Txns :
      txn[t].st # "none" => /\ txn'[t].order = txn[t].order
                            /\ txn'[t].st # "none"
                            /\ txn[t].st = "captured" => txn'[t].st = "captured"
PaidKept ==
    \A o \in Orders : order[o].st = "paid" => order'[o].st = "paid"
GoodsKept ==
    \A o \in Orders : /\ grant[o] # "none" => grant'[o] # "none"
                      /\ applied[o] > 0 => applied'[o] > 0

\* So a fulfilled order stays fulfilled.
LEMMA FulfilledKept ==
    ASSUME PaidKept, GoodsKept, NEW o \in Orders, Fulfilled(o)
    PROVE  Fulfilled(o)'
  BY DEF PaidKept, GoodsKept, Fulfilled

\* The life-cycle writes leave rows of payment_orders and never undo a payment.
LEMMA LifeCycle ==
    ASSUME TypeOK, NEW o \in Orders
    PROVE  \A d \in {markOrderPaid(o), markOrderFailed(o), markOrderCancelled(o)} :
             /\ d \in [Orders -> [st : Statuses, threeDs : Txns \cup {NoTxn}]]
             /\ \A q \in Orders :
                  /\ order[q].st = "paid" => d[q].st = "paid"
                  /\ d[q].threeDs = order[q].threeDs
                  /\ d[q].st = "paid" /\ order[q].st # "paid" =>
                       q = o /\ d = markOrderPaid(o)
  <1>1. markOrderPaid(o) = [order EXCEPT ![o].st = "paid"]
    BY DEF markOrderPaid
  <1>2. \A x \in {"failed", "cancelled"} :
          /\ [order EXCEPT ![o].st = x]
               \in [Orders -> [st : Statuses, threeDs : Txns \cup {NoTxn}]]
          /\ [order EXCEPT ![o].st = x][o] = [order[o] EXCEPT !.st = x]
          /\ \A q \in Orders \ {o} : [order EXCEPT ![o].st = x][q] = order[q]
    BY DEF TypeOK, Statuses
  <1>3. QED
    BY <1>1, <1>2 DEF TypeOK, markOrderFailed, markOrderCancelled, Statuses

\* Steps that touch nothing but an order and a provider call.
LEMMA OrderFrame ==
    ASSUME PayInv, TypeOK', PaidKept, CallsTrue', LinksTrue', PaidMeansCaptured',
           UNCHANGED <<txn, owed, delivered, req, products>>
    PROVE  PayInv'
  <1>1. HooksTrue' /\ SubsApplied'
    BY DEF PayInv, HooksTrue, SubsApplied, Told, products
  <1>2. GoodsKept
    BY DEF GoodsKept, products
  <1>3. \A t \in Txns : txn[t].st # "none" /\ Fulfilled(txn[t].order)
                           => Fulfilled(txn[t].order)'
    BY <1>2, FulfilledKept DEF PayInv, Placed
  <1>4. RecordedMeansFulfilled' /\ AcknowledgedMeansFulfilled'
    BY <1>3, PaymentAssumption DEF PayInv, HooksTrue, Told, RecordedMeansFulfilled,
       AcknowledgedMeansFulfilled, Webhooks, Kinds
  <1>5. ASSUME NEW r \in Requests
        PROVE  HookTrue(r)' /\ MailBound(r)' /\ Handled(r)'
    <2>1. HookTrue(r)' /\ MailBound(r)'
      BY DEF PayInv, HookTrue, MailBound, Told
    <2>2. ASSUME req[r].pc # "idle"
          PROVE  OrderOf(r) \in Orders /\ (Fulfilled(OrderOf(r)) => Fulfilled(OrderOf(r))')
      BY <2>2, <1>3 DEF PayInv, Placed, HookTrue, Told, OrderOf, Webhooks
    <2>3. Handled(r)'
      BY <2>2 DEF PayInv, Handled, InHandler, Accepted, Kind, OrderOf, PaidKept
    <2>. QED BY <2>1, <2>3
  <1>. QED BY <1>1, <1>4, <1>5 DEF PayInv, Placed

-----------------------------------------------------------------------------
(* Steps on orders and provider calls.                                     *)

\* A write of one order that neither pays it nor touches its 3-D Secure link.
LEMMA QuietOrderStep ==
    ASSUME PayInv, TypeOK', NEW o \in Orders, PaidKept,
           \A q \in Orders : /\ order'[q].threeDs = order[q].threeDs
                             /\ order'[q].st = "paid" => order[q].st = "paid",
           call' = call \/ call' = call \cup {Answer("createQr", o, NoTxn, "declined")},
           UNCHANGED <<txn, owed, delivered, req, products>>
    PROVE  PayInv'
  <1>1. CallsTrue'
    BY DEF PayInv, CallsTrue, Begun, Answer
  <1>2. LinksTrue' /\ PaidMeansCaptured'
    BY DEF PayInv, LinksTrue, PaidMeansCaptured, Begun
  <1>. QED BY <1>1, <1>2, OrderFrame

\* Creating and cancelling an order.
LEMMA OrderSteps ==
    ASSUME PayInv, NEW o \in Orders,
           CreatePayment(o) \/ CancelPayment(o) \/ CancelStaleOrder(o) \/ CreateSbpQr(o)
    PROVE  PayInv'
  <1> USE DEF products
  <1>1. /\ order' \in [Orders -> [st : Statuses, threeDs : Txns \cup {NoTxn}]]
        /\ PaidKept
        /\ \A q \in Orders : /\ order'[q].threeDs = order[q].threeDs
                             /\ order'[q].st = "paid" => order[q].st = "paid"
    <2>1. CASE CancelPayment(o)
      BY <2>1 DEF PayInv, TypeOK, CancelPayment, markOrderCancelled, Statuses, PaidKept
    <2>2. CASE CreatePayment(o) \/ CreateSbpQr(o)
      <3>1. order[o].st = "none" /\ order' = [order EXCEPT ![o].st = "pending"]
        BY <2>2 DEF CreatePayment, CreateSbpQr
      <3>. QED BY <3>1 DEF PayInv, TypeOK, Statuses, PaidKept
    <2>3. CASE CancelStaleOrder(o)
      BY <2>3 DEF PayInv, TypeOK, CancelStaleOrder, Statuses, PaidKept
    <2>. QED BY <2>1, <2>2, <2>3
  <1>2. /\ call' = call \/ call' = call \cup {Answer("createQr", o, NoTxn, "declined")}
        /\ UNCHANGED <<txn, owed, delivered, req, products, runs, faults>>
    BY DEF CreatePayment, CancelPayment, CancelStaleOrder, CreateSbpQr
  <1>3. TypeOK'
    BY <1>1, <1>2 DEF PayInv, TypeOK, Answer, Answers
  <1>. QED BY <1>1, <1>2, <1>3, QuietOrderStep

\* The answer of a provider call.
LEMMA CallSteps ==
    ASSUME PayInv, NEW c \in call, CallReturns(c) \/ CallLost(c)
    PROVE  PayInv'
  <1> USE DEF products
  <1> DEFINE o == c.order
  <1>1. o \in Orders /\ c.txn \in Txns \cup {NoTxn} /\ c.answer \in Answers
    BY DEF PayInv, TypeOK
  <1>2. CASE CallLost(c)
    <2>1. TypeOK'
      BY <1>2, PaymentAssumption DEF PayInv, TypeOK, CallLost, Fault
    <2>2. PaidKept /\ CallsTrue' /\ LinksTrue' /\ PaidMeansCaptured'
      BY <1>2 DEF PayInv, CallLost, PaidKept, CallsTrue, LinksTrue, PaidMeansCaptured, Begun
    <2>. QED BY <1>2, <2>1, <2>2, OrderFrame DEF CallLost
  <1>3. CASE CallReturns(c)
    <2>1. CallsTrue'
      BY <1>3 DEF PayInv, CallReturns, CallsTrue, Begun
    <2>2. /\ order' \in [Orders -> [st : Statuses, threeDs : Txns \cup {NoTxn}]]
          /\ PaidKept /\ LinksTrue' /\ PaidMeansCaptured'
      <3>1. CASE c.answer = "success"
        <4>1. order' = markOrderPaid(o)
          BY <1>3, <3>1 DEF CallReturns, AnswerApplied
        <4>2. c.txn \in Valid /\ txn[c.txn] = [order |-> o, st |-> "captured"]
          BY <3>1, PaymentAssumption DEF PayInv, TypeOK, CallsTrue, Begun
        <4>3. order' = [order EXCEPT ![o].st = "paid"] /\ txn' = txn
          BY <1>3, <4>1 DEF markOrderPaid, CallReturns
        <4>4. PaidMeansCaptured'
          BY <1>1, <4>2, <4>3 DEF PayInv, TypeOK, PaidMeansCaptured
        <4>. QED
          BY <1>1, <4>3, <4>4 DEF PayInv, TypeOK, Statuses, PaidKept, LinksTrue, Begun
      <3>2. CASE c.answer = "requires3ds"
        <4>1. order' = [order EXCEPT ![o].threeDs = c.txn]
          BY <1>3, <3>2 DEF CallReturns, AnswerApplied
        <4>2. Begun(c.txn, o)
          BY <3>2 DEF PayInv, CallsTrue
        <4>. QED
          BY <1>1, <1>3, <4>1, <4>2
             DEF PayInv, TypeOK, PaidKept, LinksTrue, Begun, PaidMeansCaptured, CallReturns
      <3>3. CASE c.answer \in {"declined", "error"}
        <4>1. order' = markOrderFailed(o) \/ order' = order
          BY <1>3, <3>3 DEF CallReturns, AnswerApplied
        <4>2. \A q \in Orders : /\ order'[q].threeDs = order[q].threeDs
                                /\ order'[q].st = "paid" => order[q].st = "paid"
          BY <1>1, <4>1 DEF PayInv, TypeOK, markOrderFailed
        <4>. QED
          BY <1>1, <1>3, <4>1, <4>2, LifeCycle
             DEF PayInv, TypeOK, PaidKept, LinksTrue, Begun, PaidMeansCaptured, CallReturns
      <3>. QED BY <1>1, <3>1, <3>2, <3>3 DEF Answers
    <2>3. TypeOK'
      BY <1>3, <2>2 DEF PayInv, TypeOK, CallReturns
    <2>. QED BY <1>3, <2>1, <2>2, <2>3, OrderFrame DEF CallReturns
  <1>. QED BY <1>2, <1>3

-----------------------------------------------------------------------------
(* Steps of the provider.                                                  *)

\* Steps that decide a transaction, or begin one, and owe the webhook.
LEMMA TxnFrame ==
    ASSUME PayInv, TypeOK', TxnsKept, PaidKept, Placed', CallsTrue', LinksTrue',
           \A q \in Orders : order'[q].st = "paid" => order[q].st = "paid",
           \A t \in Txns : txn'[t].st = "captured" /\ txn[t].st # "captured" =>
                             <<"pay", t>> \in owed',
           owed \subseteq owed',
           \A w \in owed' \ owed : Told(w)',
           UNCHANGED <<delivered, req, products>>
    PROVE  PayInv'
  <1>1. \A w \in Webhooks : Told(w) => Told(w)'
    BY DEF Told, TxnsKept, Webhooks
  <1>2. HooksTrue'
    BY <1>1 DEF PayInv, TypeOK, HooksTrue
  <1>3. PaidMeansCaptured'
    <2>1. \A t \in Valid, o \in Orders : txn[t] = [order |-> o, st |-> "captured"] =>
                                        txn'[t] = [order |-> o, st |-> "captured"]
      BY PaymentAssumption DEF TypeOK, TxnsKept
    <2>. QED BY <2>1 DEF PayInv, PaidMeansCaptured
  <1>4. SubsApplied'
    BY DEF PayInv, SubsApplied, products
  <1>5. GoodsKept
    BY DEF GoodsKept, products
  <1>6. ASSUME NEW t \in Txns, txn[t].st # "none", Fulfilled(txn[t].order)
        PROVE  txn'[t].order = txn[t].order /\ (Fulfilled(txn[t].order))'
    <2>1. txn[t].order \in Orders /\ txn'[t].order = txn[t].order
      BY <1>6 DEF PayInv, Placed, TxnsKept
    <2>2. PICK o \in Orders : o = txn[t].order
      BY <2>1
    <2>3. Fulfilled(o)'
      BY <1>5, <1>6, <2>2, FulfilledKept
    <2>. QED BY <2>1, <2>2, <2>3
  <1>7. RecordedMeansFulfilled'
    BY <1>6, PaymentAssumption DEF PayInv, HooksTrue, Told, RecordedMeansFulfilled
  <1>8. AcknowledgedMeansFulfilled'
    BY <1>6, PaymentAssumption DEF PayInv, AcknowledgedMeansFulfilled
  <1>9. ASSUME NEW r \in Requests
        PROVE  HookTrue(r)' /\ MailBound(r)' /\ Handled(r)'
    <2>1. HookTrue(r)' /\ MailBound(r)'
      BY <1>1 DEF PayInv, HookTrue, MailBound
    <2>2. ASSUME req[r].pc # "idle"
          PROVE  /\ OrderOf(r) \in Orders /\ OrderOf(r)' = OrderOf(r)
                 /\ Fulfilled(OrderOf(r)) => Fulfilled(OrderOf(r))'
      BY <2>2, <1>6 DEF PayInv, Placed, HookTrue, Told, OrderOf, Webhooks, TxnsKept
    <2>3. Handled(r)'
      BY <2>2 DEF PayInv, Handled, InHandler, Accepted, Kind, PaidKept
    <2>. QED BY <2>1, <2>3
  <1>. QED BY <1>2, <1>3, <1>4, <1>7, <1>8, <1>9 DEF PayInv

\* Deciding a transaction that was not decided.
LEMMA DecideSteps ==
    ASSUME PayInv, NEW t \in Txns, NEW o \in Orders, NEW st \in {"captured", "declined"},
           txn[t].st \in {"none", "challenged"},
           txn[t].st = "challenged" => txn[t].order = o, Decide(t, o, st)
    PROVE  /\ txn' \in [Txns -> [order : Orders \cup {NoOrder},
                                 st : {"none", "challenged", "captured", "declined"}]]
           /\ owed' \subseteq Webhooks
           /\ TxnsKept /\ Placed'
           /\ owed \subseteq owed'
           /\ \A w \in owed' \ owed : Told(w)'
           /\ \A u \in Txns : txn'[u].st = "captured" /\ txn[u].st # "captured" =>
                                <<"pay", u>> \in owed'
  <1>1. /\ txn'[t] = [order |-> o, st |-> st]
        /\ \A u \in Txns \ {t} : txn'[u] = txn[u]
        /\ txn' \in [Txns -> [order : Orders \cup {NoOrder},
                              st : {"none", "challenged", "captured", "declined"}]]
    BY DEF Decide, PayInv, TypeOK
  <1>2. owed' = owed \cup {<<Hook(st), t>>} /\ <<Hook(st), t>> \in Webhooks
    BY DEF Decide, Hook, Webhooks, Kinds
  <1>3. TxnsKept /\ Placed'
    BY <1>1 DEF PayInv, TxnsKept, Placed
  <1>4. \A w \in owed' \ owed : Told(w)'
    BY <1>1, <1>2 DEF Told, Hook
  <1>5. \A u \in Txns : txn'[u].st = "captured" /\ txn[u].st # "captured" =>
                          <<"pay", u>> \in owed'
    BY <1>1, <1>2 DEF Hook
  <1>. QED BY <1>1, <1>2, <1>3, <1>4, <1>5 DEF PayInv, TypeOK

\* What answers and 3-D Secure links say of a transaction stays true.
LEMMA BegunKept ==
    ASSUME PayInv, TxnsKept
    PROVE  /\ \A t \in Valid, o \in Orders : Begun(t, o) => Begun(t, o)'
           /\ \A c \in call :
                /\ c.answer \in {"success", "requires3ds"} => Begun(c.txn, c.order)'
                /\ c.answer = "success" => txn'[c.txn].st = "captured"
           /\ (\A q \in Orders : order'[q].threeDs = order[q].threeDs) => LinksTrue'
  <1>1. \A t \in Valid, o \in Orders : Begun(t, o) => Begun(t, o)'
    BY PaymentAssumption DEF TxnsKept, Begun
  <1>2. \A c \in call :
          /\ c.answer \in {"success", "requires3ds"} => Begun(c.txn, c.order)'
          /\ c.answer = "success" => txn'[c.txn].st = "captured"
    BY PaymentAssumption DEF PayInv, CallsTrue, TxnsKept, Begun
  <1>. QED BY <1>1, <1>2, PaymentAssumption DEF PayInv, LinksTrue, TxnsKept, Begun

\* The buyer pays in the widget.
LEMMA BuyerPaysStep ==
    ASSUME PayInv, NEW t \in Txns, NEW o \in Orders, BuyerPays(t, o)
    PROVE  PayInv'
  <1> USE DEF products
  <1>1. PICK st \in {"captured", "declined"} : Decide(t, o, st)
    BY DEF BuyerPays
  <1>2. txn[t].st = "none" /\ UNCHANGED <<order, delivered, req, call, products, runs, faults>>
    BY DEF BuyerPays
  <1>3. /\ TxnsKept /\ Placed' /\ owed \subseteq owed' /\ owed' \subseteq Webhooks
        /\ txn' \in [Txns -> [order : Orders \cup {NoOrder},
                              st : {"none", "challenged", "captured", "declined"}]]
        /\ \A w \in owed' \ owed : Told(w)'
        /\ \A u \in Txns : txn'[u].st = "captured" /\ txn[u].st # "captured" =>
                             <<"pay", u>> \in owed'
    BY <1>1, <1>2, DecideSteps
  <1>4. TypeOK'
    BY <1>2, <1>3 DEF PayInv, TypeOK
  <1>5. CallsTrue' /\ LinksTrue'
    BY <1>2, <1>3, BegunKept DEF CallsTrue
  <1>6. PaidKept
    BY <1>2 DEF PaidKept
  <1>. QED BY <1>2, <1>3, <1>4, <1>5, <1>6, TxnFrame

\* A charge with a saved card: the provider decides, asks for 3-D Secure or
\* never hears of it, and the answer is on its way.
LEMMA ChargeStep ==
    ASSUME PayInv, NEW o \in Orders, NEW t \in Txns, ChargeWithSavedCard(o, t)
    PROVE  PayInv'
  <1> USE DEF products
  <1>1. /\ order[o].st = "none" /\ t \in Valid /\ txn[t].st = "none"
        /\ order' = [order EXCEPT ![o].st = "pending"]
        /\ UNCHANGED <<delivered, req, products, runs, faults>>
    BY DEF ChargeWithSavedCard
  <1>2. PICK st \in {"none", "challenged", "captured", "declined"} :
          /\ CASE st \in {"captured", "declined"} -> Decide(t, o, st)
               [] st = "challenged" ->
                    /\ txn' = [txn EXCEPT ![t] = [order |-> o, st |-> st]]
                    /\ UNCHANGED owed
               [] st = "none" -> UNCHANGED <<txn, owed>>
          /\ \E a \in AnswersFor(st) : call' = call \cup {Answer("charge", o, t, a)}
    BY DEF ChargeWithSavedCard
  <1>3. PICK a \in AnswersFor(st) : call' = call \cup {Answer("charge", o, t, a)}
    BY <1>2
  <1>4. /\ TxnsKept /\ Placed' /\ owed \subseteq owed' /\ owed' \subseteq Webhooks
        /\ txn' \in [Txns -> [order : Orders \cup {NoOrder},
                              st : {"none", "challenged", "captured", "declined"}]]
        /\ \A w \in owed' \ owed : Told(w)'
        /\ \A u \in Txns : txn'[u].st = "captured" /\ txn[u].st # "captured" =>
                             <<"pay", u>> \in owed'
    <2>1. CASE st \in {"captured", "declined"}
      <3>1. Decide(t, o, st)
        BY <1>2, <2>1
      <3>. QED BY <1>1, <2>1, <3>1, DecideSteps
    <2>2. CASE st = "challenged"
      <3>1. txn' = [txn EXCEPT ![t] = [order |-> o, st |-> st]] /\ owed' = owed
        BY <1>2, <2>2
      <3>. QED BY <1>1, <2>2, <3>1 DEF PayInv, TypeOK, TxnsKept, Placed
    <2>3. CASE st = "none"
      <3>1. UNCHANGED <<txn, owed>>
        BY <1>2, <2>3
      <3>. QED BY <3>1 DEF PayInv, TypeOK, TxnsKept, Placed
    <2>. QED BY <1>2, <2>1, <2>2, <2>3
  <1>5. /\ a \in Answers
        /\ a = "success" => st = "captured"
        /\ a = "requires3ds" => st = "challenged"
    BY <1>2, <1>3 DEF AnswersFor, Answers
  <1>6. st # "none" => txn'[t] = [order |-> o, st |-> st]
    BY <1>2 DEF Decide, PayInv, TypeOK
  <1>7. CallsTrue'
    BY <1>1, <1>3, <1>4, <1>5, <1>6, BegunKept DEF CallsTrue, Answer, Begun
  <1>8. /\ PaidKept
        /\ order' \in [Orders -> [st : Statuses, threeDs : Txns \cup {NoTxn}]]
        /\ \A q \in Orders : /\ order'[q].threeDs = order[q].threeDs
                             /\ order'[q].st = "paid" => order[q].st = "paid"
    BY <1>1 DEF PaidKept, PayInv, TypeOK, Statuses
  <1>9. TypeOK'
    BY <1>1, <1>3, <1>4, <1>5, <1>8 DEF PayInv, TypeOK, Answer
  <1>10. LinksTrue'
    BY <1>4, <1>8, BegunKept
  <1>. QED BY <1>1, <1>4, <1>7, <1>8, <1>9, <1>10, TxnFrame

\* The buyer returns from the bank.
LEMMA ThreeDsStep ==
    ASSUME PayInv, NEW o \in Orders, ConfirmThreeDs(o)
    PROVE  PayInv'
  <1> USE DEF products
  <1> DEFINE t == order[o].threeDs
  <1>1. t \in Valid /\ t \in Txns /\ txn[t].order = o /\ txn[t].st # "none"
    BY PaymentAssumption DEF ConfirmThreeDs, PayInv, LinksTrue, Begun
  <1>2. PICK st \in {"challenged", "captured", "declined"} :
          /\ IF txn[t].st = "challenged" /\ st # "challenged" THEN Decide(t, o, st)
             ELSE st = txn[t].st /\ UNCHANGED <<txn, owed>>
          /\ \E a \in AnswersFor(st) \ {"requires3ds"} :
               call' = call \cup {Answer("post3ds", o, t, a)}
    BY DEF ConfirmThreeDs
  <1>3. PICK a \in AnswersFor(st) \ {"requires3ds"} :
          call' = call \cup {Answer("post3ds", o, t, a)}
    BY <1>2
  <1>4. UNCHANGED <<order, delivered, req, products, runs, faults>>
    BY DEF ConfirmThreeDs
  <1>5. /\ TxnsKept /\ Placed' /\ owed \subseteq owed' /\ owed' \subseteq Webhooks
        /\ txn' \in [Txns -> [order : Orders \cup {NoOrder},
                              st : {"none", "challenged", "captured", "declined"}]]
        /\ \A w \in owed' \ owed : Told(w)'
        /\ \A u \in Txns : txn'[u].st = "captured" /\ txn[u].st # "captured" =>
                             <<"pay", u>> \in owed'
    <2>1. CASE txn[t].st = "challenged" /\ st # "challenged"
      <3>1. Decide(t, o, st) /\ st \in {"captured", "declined"}
        BY <1>2, <2>1
      <3>. QED BY <1>1, <2>1, <3>1, DecideSteps
    <2>2. CASE ~(txn[t].st = "challenged" /\ st # "challenged")
      <3>1. UNCHANGED <<txn, owed>>
        BY <1>2, <2>2
      <3>. QED BY <3>1 DEF PayInv, TypeOK, TxnsKept, Placed
    <2>. QED BY <2>1, <2>2
  <1>6. a \in Answers /\ a # "requires3ds" /\ (a = "success" => st = "captured")
    BY <1>2, <1>3 DEF AnswersFor, Answers
  <1>7. txn'[t].st = st /\ txn'[t].order = o
    BY <1>1, <1>2 DEF Decide, PayInv, TypeOK
  <1>8. CallsTrue'
    BY <1>1, <1>3, <1>5, <1>6, <1>7, BegunKept DEF CallsTrue, Answer, Begun
  <1>9. TypeOK'
    BY <1>1, <1>3, <1>4, <1>5, <1>6 DEF PayInv, TypeOK, Answer
  <1>10. PaidKept /\ LinksTrue'
    BY <1>4, <1>5, BegunKept DEF PaidKept
  <1>. QED BY <1>4, <1>5, <1>8, <1>9, <1>10, TxnFrame

-----------------------------------------------------------------------------
(* Steps of webhook requests.                                              *)

\* A step of request r: the other requests stay as they are, and a webhook is
\* acknowledged or recorded only when its order is fulfilled.
LEMMA RequestFrame ==
    ASSUME PayInv, TypeOK', NEW r \in Requests, NEW o \in Orders,
           PaidKept, GoodsKept, PaidMeansCaptured', SubsApplied',
           \A q \in Orders : order'[q].threeDs = order[q].threeDs,
           \A q \in Requests \ {r} : req'[q] = req[q],
           HookTrue(r)', MailBound(r)', Handled(r)',
           owed' \subseteq owed,
           delivered \subseteq delivered',
           \A w \in (owed \ owed') \cup (delivered' \ delivered) :
             /\ w = req[r].hook /\ req[r].pc # "idle" /\ o = OrderOf(r)
             /\ Kind(r) = "pay" /\ Accepted(r) => Fulfilled(o)',
           UNCHANGED <<txn, call>>
    PROVE  PayInv'
  <1>1. Placed' /\ CallsTrue' /\ LinksTrue'
    BY DEF PayInv, Placed, CallsTrue, LinksTrue, Begun
  <1>2. HooksTrue'
    BY DEF PayInv, HooksTrue, HookTrue, Told
  <1>3. \A t \in Txns : txn[t].st # "none" /\ Fulfilled(txn[t].order)
                           => Fulfilled(txn[t].order)'
    BY FulfilledKept DEF PayInv, Placed
  <1>4. RecordedMeansFulfilled' /\ AcknowledgedMeansFulfilled'
    <2>1. ASSUME NEW t \in Valid,
                 <<"pay", t>> \in (owed \ owed') \cup (delivered' \ delivered)
          PROVE  Fulfilled(txn[t].order)'
      <3>1. o = txn[t].order /\ Fulfilled(o)'
        BY <2>1 DEF Kind, Accepted, OrderOf
      <3>2. (o = txn[t].order)'
        BY <3>1
      <3>. QED BY <3>1, <3>2
    <2>2. ASSUME NEW t \in Valid, <<"pay", t>> \in delivered'
          PROVE  Fulfilled(txn[t].order)'
      <3>1. CASE <<"pay", t>> \in delivered
        BY <1>3, <3>1, PaymentAssumption DEF PayInv, RecordedMeansFulfilled, HooksTrue, Told
      <3>. QED BY <2>1, <2>2, <3>1
    <2>3. ASSUME NEW t \in Valid, txn[t].st = "captured", <<"pay", t>> \notin owed'
          PROVE  Fulfilled(txn[t].order)'
      <3>1. CASE <<"pay", t>> \notin owed
        BY <1>3, <2>3, <3>1, PaymentAssumption DEF PayInv, AcknowledgedMeansFulfilled
      <3>. QED BY <2>1, <2>3, <3>1
    <2>. QED BY <2>2, <2>3 DEF RecordedMeansFulfilled, AcknowledgedMeansFulfilled
  <1>5. ASSUME NEW q \in Requests
        PROVE  HookTrue(q)' /\ MailBound(q)' /\ Handled(q)'
    <2>1. CASE q = r
      BY <2>1
    <2>2. CASE q # r
      <3>1. HookTrue(q)' /\ MailBound(q)'
        BY <2>2 DEF PayInv, HookTrue, MailBound, Told
      <3>2. ASSUME req[q].pc # "idle"
            PROVE  OrderOf(q) \in Orders /\ (Fulfilled(OrderOf(q)) => Fulfilled(OrderOf(q))')
        BY <2>2, <3>2, <1>3 DEF PayInv, Placed, HookTrue, Told, OrderOf, Webhooks
      <3>3. Handled(q)'
        BY <2>2, <3>2 DEF PayInv, Handled, InHandler, Accepted, Kind, OrderOf, PaidKept
      <3>. QED BY <3>1, <3>3
    <2>. QED BY <2>1, <2>2
  <1>. QED BY <1>1, <1>2, <1>4, <1>5 DEF PayInv

\* A step of a request that leaves orders and products alone.
LEMMA QuietRequestStep ==
    ASSUME PayInv, TypeOK', NEW r \in Requests, NEW o \in Orders,
           \A q \in Requests \ {r} : req'[q] = req[q],
           HookTrue(r)', MailBound(r)', Handled(r)',
           owed' \subseteq owed,
           delivered \subseteq delivered',
           \A w \in (owed \ owed') \cup (delivered' \ delivered) :
             /\ w = req[r].hook /\ req[r].pc # "idle" /\ o = OrderOf(r)
             /\ Kind(r) = "pay" /\ Accepted(r) => Fulfilled(o),
           UNCHANGED <<order, txn, call, products>>
    PROVE  PayInv'
  <1> USE DEF products
  <1>1. PaidKept /\ GoodsKept
    BY DEF PaidKept, GoodsKept
  <1>2. PaidMeansCaptured' /\ SubsApplied'
    BY DEF PayInv, PaidMeansCaptured, SubsApplied
  <1>3. Fulfilled(o) => Fulfilled(o)'
    BY <1>1, FulfilledKept
  <1>. QED BY <1>1, <1>2, <1>3, RequestFrame

\* A request in progress has a webhook of a transaction with an order.
LEMMA InProgress ==
    ASSUME PayInv, NEW r \in Requests, req[r].pc # "idle"
    PROVE  /\ OrderOf(r) \in Orders /\ req[r].hook \in Webhooks
           /\ req[r].hook[2] \in Txns /\ Kind(r) \in Kinds
           /\ Kind(r) = "pay" => txn[req[r].hook[2]].st = "captured"
  BY DEF PayInv, HookTrue, Told, Placed, OrderOf, Kind, Webhooks, Kinds

ReqRow == [pc : Steps, hook : Webhooks \cup {<<"pay", NoTxn>>},
           serial : BOOLEAN, mails : 0..2]

\* Writing one request leaves the others, and an idle one promises nothing.
LEMMA WriteRequest ==
    ASSUME PayInv, NEW r \in Requests, NEW row \in ReqRow, req' = [req EXCEPT ![r] = row]
    PROVE  /\ req' \in [Requests -> ReqRow]
           /\ req'[r] = row
           /\ \A q \in Requests \ {r} : req'[q] = req[q]
  BY DEF PayInv, TypeOK, ReqRow

\* The answer ends a request; only a fulfilled order's webhook is acknowledged.
LEMMA RespondStep ==
    ASSUME PayInv, NEW r \in Requests, req[r].pc # "idle", NEW acked \in BOOLEAN,
           Respond(r, acked),
           delivered' = delivered \/ delivered' = delivered \cup {req[r].hook},
           acked \/ delivered' # delivered =>
             (Kind(r) = "pay" /\ Accepted(r) => Fulfilled(OrderOf(r))),
           faults' \in 0..MaxFaults,
           UNCHANGED <<order, txn, call, products, runs>>
    PROVE  PayInv'
  <1>1. IdleReq \in ReqRow
    BY DEF IdleReq, ReqRow, Steps
  <1>2. /\ req' \in [Requests -> ReqRow]
        /\ req'[r] = IdleReq
        /\ \A q \in Requests \ {r} : req'[q] = req[q]
    BY <1>1, WriteRequest DEF Respond
  <1>3. TypeOK'
    BY <1>2, InProgress DEF PayInv, TypeOK, Respond, ReqRow, products
  <1>4. HookTrue(r)' /\ MailBound(r)' /\ Handled(r)'
    BY <1>2 DEF HookTrue, MailBound, Handled, InHandler, IdleReq
  <1>5. PICK o \in Orders : o = OrderOf(r)
    BY InProgress
  <1>6. /\ owed' \subseteq owed /\ delivered \subseteq delivered'
        /\ \A w \in (owed \ owed') \cup (delivered' \ delivered) :
             /\ w = req[r].hook /\ req[r].pc # "idle" /\ o = OrderOf(r)
             /\ Kind(r) = "pay" /\ Accepted(r) => Fulfilled(o)
    BY <1>5 DEF Respond
  <1>. QED BY <1>2, <1>3, <1>4, <1>6, QuietRequestStep

\* A step that only moves a request on.
LEMMA MoveStep ==
    ASSUME PayInv, NEW r \in Requests, NEW row \in ReqRow, Orders # {},
           req' = [req EXCEPT ![r] = row],
           HookTrue(r)', MailBound(r)', Handled(r)',
           faults' \in 0..MaxFaults, runs' \in [Webhooks -> Nat],
           UNCHANGED <<order, txn, owed, delivered, call, products>>
    PROVE  PayInv'
  <1>1. /\ req' \in [Requests -> ReqRow]
        /\ \A q \in Requests \ {r} : req'[q] = req[q]
    BY WriteRequest
  <1>2. TypeOK'
    BY <1>1 DEF PayInv, TypeOK, ReqRow, products
  <1>3. PICK o \in Orders : TRUE
    OBVIOUS
  <1>. QED BY <1>1, <1>2, <1>3, QuietRequestStep

\* The provider delivers.
LEMMA DeliverStep ==
    ASSUME PayInv, NEW w \in owed, NEW r \in Requests, Deliver(w, r)
    PROVE  PayInv'
  <1> DEFINE row == [pc |-> "recv", hook |-> w, serial |-> FALSE, mails |-> 0]
  <1>1. w \in Webhooks /\ Told(w)
    BY DEF PayInv, TypeOK, HooksTrue
  <1>. Orders # {}
    BY <1>1 DEF PayInv, Told, Placed, Webhooks
  <1>2. row \in ReqRow
    BY <1>1 DEF ReqRow, Steps
  <1>3. req' = [req EXCEPT ![r] = row] /\ UNCHANGED <<order, txn, owed, delivered, call,
                                                      products, runs, faults>>
    BY DEF Deliver
  <1>4. req'[r] = row
    BY <1>2, <1>3, WriteRequest
  <1>5. HookTrue(r)' /\ MailBound(r)' /\ Handled(r)'
    BY <1>1, <1>2, <1>3, <1>4 DEF HookTrue, MailBound, Handled, InHandler, Told
  <1>6. faults' \in 0..MaxFaults /\ runs' \in [Webhooks -> Nat]
    BY <1>3 DEF PayInv, TypeOK
  <1>. QED BY <1>1, <1>2, <1>3, <1>5, <1>6, MoveStep

\* A fault stays within the budget.
LEMMA FaultType ==
    ASSUME TypeOK, Fault
    PROVE  faults' \in 0..MaxFaults
  BY PaymentAssumption DEF TypeOK, Fault

\* Faults that end a request, and its last step.
LEMMA EndSteps ==
    ASSUME PayInv, NEW r \in Requests,
           Record(r) \/ RecordFails(r) \/ AnswerLost(r) \/ Crash(r)
    PROVE  PayInv'
  <1>0. ASSUME At(r, "record")
        PROVE  /\ req[r].pc # "idle" /\ Accepted(r) \in BOOLEAN
               /\ Kind(r) = "pay" /\ Accepted(r) => Fulfilled(OrderOf(r))
    BY <1>0 DEF At, Accepted, Handled, PayInv
  <1>1. CASE Record(r)
    BY <1>0, <1>1, RespondStep DEF Record, PayInv, TypeOK
  <1>2. CASE RecordFails(r)
    BY <1>0, <1>2, RespondStep, FaultType DEF RecordFails, PayInv, TypeOK
  <1>3. CASE AnswerLost(r)
    BY <1>0, <1>3, RespondStep, FaultType DEF AnswerLost, PayInv, TypeOK
  <1>4. CASE Crash(r)
    BY <1>4, RespondStep, FaultType DEF Crash, At, PayInv, TypeOK
  <1>. QED BY <1>1, <1>2, <1>3, <1>4

\* Lock and lookup, or neither.
LEMMA LockSteps ==
    ASSUME PayInv, NEW r \in Requests, LockAndLookup(r) \/ SerialPathFails(r)
    PROVE  PayInv'
  <1>1. /\ req[r].pc = "recv" /\ ~req[r].serial /\ req[r].mails = 0
        /\ req[r].hook \in Webhooks /\ Told(req[r].hook) /\ req[r] \in ReqRow
    BY DEF LockAndLookup, SerialPathFails, At, PayInv, TypeOK, ReqRow, MailBound, HookTrue
  <1>. Orders # {}
    BY <1>1, InProgress
  <1>2. CASE LockAndLookup(r) /\ req[r].hook \in delivered
    <2>1. Kind(r) = "pay" /\ Accepted(r) => Fulfilled(OrderOf(r))
      BY <1>1, <1>2 DEF PayInv, RecordedMeansFulfilled, Kind, Accepted, OrderOf, Webhooks, Kinds
    <2>2. /\ Respond(r, Accepted(r))
          /\ UNCHANGED <<order, txn, delivered, call, products, runs, faults>>
      BY <1>2 DEF LockAndLookup
    <2>3. Accepted(r) \in BOOLEAN /\ faults' \in 0..MaxFaults
      BY <2>2 DEF Accepted, PayInv, TypeOK
    <2>. QED BY <1>1, <2>1, <2>2, <2>3, RespondStep
  <1>3. ASSUME NEW b \in BOOLEAN, req' = [req EXCEPT ![r].pc = "mark", ![r].serial = b],
               UNCHANGED <<order, txn, owed, delivered, call, products, runs>>,
               faults' \in 0..MaxFaults
        PROVE  PayInv'
    <2> DEFINE row == [req[r] EXCEPT !.pc = "mark", !.serial = b]
    <2>1. row \in ReqRow /\ req' = [req EXCEPT ![r] = row]
      BY <1>1, <1>3 DEF ReqRow, Steps, PayInv, TypeOK
    <2>2. req'[r] = row
      BY <2>1, WriteRequest
    <2>3. HookTrue(r)' /\ MailBound(r)' /\ Handled(r)'
      <3>1. /\ req'[r].pc = "mark" /\ req'[r].serial = b
            /\ req'[r].mails = 0 /\ req'[r].hook = req[r].hook
        BY <1>1, <2>2 DEF ReqRow
      <3>. QED BY <1>1, <1>3, <3>1 DEF HookTrue, MailBound, Handled, InHandler, Told
    <2>4. runs' \in [Webhooks -> Nat]
      BY <1>3 DEF PayInv, TypeOK
    <2>. QED BY <1>3, <2>1, <2>3, <2>4, MoveStep
  <1>4. CASE LockAndLookup(r) /\ req[r].hook \notin delivered
    <2>1. faults' \in 0..MaxFaults
      BY <1>4 DEF LockAndLookup, PayInv, TypeOK
    <2>. QED BY <1>3, <1>4, <2>1 DEF LockAndLookup
  <1>5. CASE SerialPathFails(r)
    <2>1. req' = [req EXCEPT ![r].pc = "mark", ![r].serial = FALSE]
      BY ZenonT(60), <1>1, <1>5 DEF SerialPathFails, Goto, PayInv, TypeOK, ReqRow
    <2>. QED BY <1>3, <1>5, <2>1, FaultType DEF SerialPathFails, PayInv
  <1>. QED BY <1>2, <1>4, <1>5

\* The handler fails: once more without the lock, or answer 500.
LEMMA ThrowStep ==
    ASSUME PayInv, NEW r \in Requests, HandlerThrows(r)
    PROVE  PayInv'
  <1>1. /\ req[r].pc \in Throwing /\ req[r].pc # "idle"
        /\ req[r] \in ReqRow /\ req[r].hook \in Webhooks /\ Told(req[r].hook)
        /\ faults' \in 0..MaxFaults
    BY FaultType DEF HandlerThrows, Throwing, PayInv, TypeOK, ReqRow, HookTrue
  <1>. Orders # {}
    BY <1>1, InProgress
  <1>2. CASE ~req[r].serial
    BY <1>1, <1>2, RespondStep DEF HandlerThrows
  <1>3. CASE req[r].serial
    <2> DEFINE row == [req[r] EXCEPT !.serial = FALSE, !.pc = "mark"]
    <2>1. row \in ReqRow /\ req' = [req EXCEPT ![r] = row] /\ req[r].mails <= 1
      BY <1>1, <1>3 DEF HandlerThrows, ReqRow, Steps, PayInv, MailBound
    <2>2. req'[r] = row
      BY <2>1, WriteRequest
    <2>3. /\ UNCHANGED <<order, txn, owed, delivered, call, products, runs>>
          /\ runs' \in [Webhooks -> Nat]
      BY <1>3 DEF HandlerThrows, PayInv, TypeOK
    <2>4. HookTrue(r)' /\ MailBound(r)' /\ Handled(r)'
      <3>1. /\ req'[r].pc = "mark" /\ req'[r].serial = FALSE
            /\ req'[r].mails <= 1 /\ req'[r].hook = req[r].hook
        BY <1>1, <2>1, <2>2 DEF ReqRow
      <3>. QED BY <1>1, <2>3, <3>1 DEF HookTrue, MailBound, Handled, InHandler, Told
    <2>. QED BY <1>1, <2>1, <2>3, <2>4, MoveStep
  <1>. QED BY <1>1, <1>2, <1>3 DEF ReqRow

\* The operator's e-mail, then on to the product.
LEMMA MailStep ==
    ASSUME PayInv, NEW r \in Requests, Mail(r)
    PROVE  PayInv'
  <1> DEFINE pc == IF Kind(r) = "pay" THEN NextStep(OrderOf(r)) ELSE "record"
             row == [req[r] EXCEPT !.mails = req[r].mails + 1, !.pc = pc]
  <1>1. /\ req[r].pc = "mail" /\ req[r] \in ReqRow
        /\ req[r].mails <= 1 /\ (req[r].serial => req[r].mails = 0)
        /\ req[r].hook \in Webhooks /\ Told(req[r].hook) /\ OrderOf(r) \in Orders
        /\ Accepted(r) /\ (Kind(r) = "pay" => order[OrderOf(r)].st = "paid")
    BY InProgress DEF Mail, At, PayInv, TypeOK, ReqRow, MailBound, HookTrue, Handled, InHandler
  <1>2. /\ pc \in {"alloc", "grant", "look", "record"}
        /\ pc # "record" => Kind(r) = "pay"
        /\ pc = "alloc" => Product[OrderOf(r)] = "slot"
        /\ pc = "grant" => Product[OrderOf(r)] = "package"
        /\ pc = "look" => Product[OrderOf(r)] = "subscription"
        /\ pc = "record" /\ Kind(r) = "pay" =>
             Product[OrderOf(r)] \notin {"package", "subscription"}
    BY DEF NextStep
  <1>3. row \in ReqRow /\ req' = [req EXCEPT ![r] = row]
    <2>1. req[r].mails + 1 \in 0..2 /\ pc \in Steps
      BY <1>1, <1>2 DEF ReqRow, Steps
    <2>2. row \in ReqRow
      BY <1>1, <2>1 DEF ReqRow
    <2>3. req' = [req EXCEPT ![r] = row]
      BY DEF Mail
    <2>. QED BY <2>2, <2>3
  <1>4. /\ req'[r].pc = pc /\ req'[r].hook = req[r].hook /\ req'[r].serial = req[r].serial
        /\ req'[r].mails = req[r].mails + 1 /\ req[r].mails \in Nat
    <2>1. req'[r] = row
      BY <1>3, WriteRequest
    <2>. QED BY <1>1, <2>1 DEF ReqRow
  <1>5. /\ UNCHANGED <<order, txn, owed, delivered, call, products, runs, faults>>
        /\ faults' \in 0..MaxFaults /\ runs' \in [Webhooks -> Nat]
    BY DEF Mail, PayInv, TypeOK
  <1>6. HookTrue(r)' /\ MailBound(r)'
    BY <1>1, <1>2, <1>4, <1>5 DEF HookTrue, MailBound, Told
  <1>7. Handled(r)'
    BY <1>1, <1>2, <1>4, <1>5
       DEF Handled, InHandler, Accepted, Kind, OrderOf, Fulfilled, products
  <1>. QED BY <1>1, <1>3, <1>5, <1>6, <1>7, MoveStep

\* The subscription lookup.
LEMMA LookStep ==
    ASSUME PayInv, NEW r \in Requests, LookSubscription(r)
    PROVE  PayInv'
  <1> DEFINE pc == IF \E a \in Teachers : sub[a].order = OrderOf(r) THEN "record" ELSE "renew"
             row == [req[r] EXCEPT !.pc = pc]
  <1>1. /\ req[r].pc = "look" /\ req[r] \in ReqRow
        /\ req[r].hook \in Webhooks /\ Told(req[r].hook) /\ OrderOf(r) \in Orders
        /\ Accepted(r) /\ Kind(r) = "pay" /\ order[OrderOf(r)].st = "paid"
        /\ Product[OrderOf(r)] = "subscription" /\ MailBound(r)
    BY InProgress DEF LookSubscription, At, PayInv, TypeOK, ReqRow, HookTrue, Handled, InHandler
  <1>2. pc = "record" => applied[OrderOf(r)] > 0
    BY <1>1, PaymentAssumption DEF PayInv, SubsApplied
  <1>3. row \in ReqRow /\ req' = [req EXCEPT ![r] = row]
    BY <1>1 DEF LookSubscription, Goto, ReqRow, Steps
  <1>4. /\ req'[r].pc = pc /\ req'[r].hook = req[r].hook /\ req'[r].serial = req[r].serial
        /\ req'[r].mails = req[r].mails
    BY <1>1, <1>3, WriteRequest DEF ReqRow
  <1>5. /\ UNCHANGED <<order, txn, owed, delivered, call, products, runs, faults>>
        /\ faults' \in 0..MaxFaults /\ runs' \in [Webhooks -> Nat]
    BY DEF LookSubscription, PayInv, TypeOK
  <1>6. HookTrue(r)' /\ MailBound(r)'
    BY SMTT(30), <1>1, <1>4, <1>5 DEF HookTrue, MailBound, Told
  <1>7. Handled(r)'
    BY <1>1, <1>2, <1>4, <1>5
       DEF Handled, InHandler, Accepted, Kind, OrderOf, Fulfilled, products
  <1>. QED BY <1>1, <1>3, <1>5, <1>6, <1>7, MoveStep

\* The order is marked paid or failed, unless the webhook is rejected.
LEMMA MarkStep ==
    ASSUME PayInv, NEW r \in Requests, Mark(r)
    PROVE  PayInv'
  <1> DEFINE pc == IF Accepted(r) THEN "mail" ELSE "record"
             row == [req[r] EXCEPT !.pc = pc]
  <1>1. /\ req[r].pc = "mark" /\ req[r] \in ReqRow /\ MailBound(r)
        /\ req[r].hook \in Webhooks /\ Told(req[r].hook) /\ req[r].hook[2] \in Txns
        /\ Kind(r) \in Kinds
    BY InProgress DEF Mark, At, PayInv, TypeOK, ReqRow, HookTrue
  <1>2. PICK o \in Orders : o = OrderOf(r)
    BY <1>1, InProgress
  <1>3. row \in ReqRow /\ req' = [req EXCEPT ![r] = row]
    BY <1>1 DEF Mark, Goto, ReqRow, Steps
  <1>4. /\ req'[r].pc = pc /\ req'[r].hook = req[r].hook /\ req'[r].serial = req[r].serial
        /\ req'[r].mails = req[r].mails
        /\ req' \in [Requests -> ReqRow]
        /\ \A q \in Requests \ {r} : req'[q] = req[q]
    BY <1>1, <1>3, WriteRequest DEF ReqRow
  <1>5. UNCHANGED <<txn, owed, delivered, call, products, faults>>
    BY DEF Mark
  <1>6. order' = IF ~Accepted(r) THEN order
                 ELSE IF Kind(r) = "pay" THEN markOrderPaid(o) ELSE markOrderFailed(o)
    BY <1>2 DEF Mark
  <1>7. /\ order' \in [Orders -> [st : Statuses, threeDs : Txns \cup {NoTxn}]]
        /\ PaidKept
        /\ \A q \in Orders : order'[q].threeDs = order[q].threeDs
        /\ \A q \in Orders : order'[q].st = "paid" /\ order[q].st # "paid" =>
             q = o /\ Accepted(r) /\ Kind(r) = "pay"
        /\ Accepted(r) /\ Kind(r) = "pay" => order'[o].st = "paid"
    <2>1. CASE ~Accepted(r)
      BY <1>6, <2>1 DEF PayInv, TypeOK, PaidKept
    <2>2. CASE Accepted(r) /\ Kind(r) = "pay"
      BY <1>6, <2>2 DEF PayInv, TypeOK, PaidKept, Statuses, markOrderPaid
    <2>3. CASE Accepted(r) /\ Kind(r) # "pay"
      BY <1>6, <2>3 DEF PayInv, TypeOK, PaidKept, Statuses, markOrderFailed
    <2>. QED BY <2>1, <2>2, <2>3
  <1>8. PaidMeansCaptured'
    <2>1. Accepted(r) /\ Kind(r) = "pay" =>
            \E t \in Valid : txn[t] = [order |-> o, st |-> "captured"]
      BY <1>1, <1>2 DEF Accepted, Kind, OrderOf, Told, PayInv, TypeOK
    <2>. QED BY <1>5, <1>7, <2>1 DEF PayInv, PaidMeansCaptured
  <1>9. runs' \in [Webhooks -> Nat]
    BY <1>1 DEF Mark, PayInv, TypeOK
  <1>10. TypeOK'
    BY <1>4, <1>5, <1>7, <1>9 DEF PayInv, TypeOK, ReqRow, products
  <1>11. GoodsKept /\ SubsApplied'
    BY <1>5 DEF GoodsKept, SubsApplied, PayInv, products
  <1>12. HookTrue(r)' /\ MailBound(r)'
    BY <1>1, <1>4, <1>5 DEF HookTrue, MailBound, Told
  <1>13. Handled(r)'
    BY <1>2, <1>4, <1>5, <1>7 DEF Handled, InHandler, Accepted, Kind, OrderOf
  <1>. QED
    BY <1>4, <1>5, <1>7, <1>8, <1>10, <1>11, <1>12, <1>13, RequestFrame

\* Handing the product over: the request goes on to record the delivery.
LEMMA ProductFrame ==
    ASSUME PayInv, NEW r \in Requests, req[r].pc \in InHandler, Goto(r, "record"),
           GoodsKept, SubsApplied',
           order[OrderOf(r)].st = "paid" /\ Kind(r) = "pay" => Fulfilled(OrderOf(r))',
           alloc' \subseteq Orders,
           grant' \in [Orders -> {"none", "granted", "refused"}],
           sub' \in [Teachers -> [order : Orders \cup {NoOrder}, cancelled : BOOLEAN]],
           applied' \in [Orders -> Nat],
           UNCHANGED <<order, txn, owed, delivered, call, runs, faults>>
    PROVE  PayInv'
  <1> DEFINE row == [req[r] EXCEPT !.pc = "record"]
  <1>1. /\ req[r] \in ReqRow /\ MailBound(r) /\ Handled(r)
        /\ req[r].pc # "idle" /\ req[r].hook \in Webhooks /\ Told(req[r].hook)
    BY DEF PayInv, TypeOK, ReqRow, HookTrue, InHandler
  <1>2. PICK o \in Orders : o = OrderOf(r)
    BY <1>1, InProgress
  <1>3. row \in ReqRow /\ req' = [req EXCEPT ![r] = row]
    BY <1>1 DEF Goto, ReqRow, Steps
  <1>4. /\ req'[r].pc = "record" /\ req'[r].hook = req[r].hook
        /\ req'[r].serial = req[r].serial /\ req'[r].mails = req[r].mails
        /\ req' \in [Requests -> ReqRow]
        /\ \A q \in Requests \ {r} : req'[q] = req[q]
    BY <1>1, <1>3, WriteRequest DEF ReqRow
  <1>5. TypeOK'
    BY <1>4 DEF PayInv, TypeOK, ReqRow
  <1>6. PaidKept /\ PaidMeansCaptured'
    BY DEF PaidKept, PayInv, PaidMeansCaptured
  <1>7. HookTrue(r)' /\ MailBound(r)'
    BY <1>1, <1>4 DEF HookTrue, MailBound, Told
  <1>8. Handled(r)'
    BY <1>1, <1>4 DEF Handled, InHandler, Accepted, Kind
  <1>. QED BY <1>2, <1>4, <1>5, <1>6, <1>7, <1>8, RequestFrame

\* Allocation, package grant and subscription renewal.
LEMMA ProductSteps ==
    ASSUME PayInv, NEW r \in Requests, Allocate(r) \/ Grant(r) \/ RenewSubscription(r)
    PROVE  PayInv'
  <1>1. /\ req[r].pc \in InHandler /\ req[r].pc # "idle" /\ Handled(r)
        /\ OrderOf(r) \in Orders /\ Goto(r, "record")
        /\ UNCHANGED <<order, txn, owed, delivered, call, runs, faults>>
    BY InProgress DEF Allocate, Grant, RenewSubscription, At, InHandler, PayInv
  <1>2. PICK o \in Orders : o = OrderOf(r)
    BY <1>1
  <1>3. OrderOf(r)' = o
    BY <1>1, <1>2 DEF OrderOf, Goto, PayInv, TypeOK
  <1>4. /\ alloc' \subseteq Orders
        /\ grant' \in [Orders -> {"none", "granted", "refused"}]
        /\ sub' \in [Teachers -> [order : Orders \cup {NoOrder}, cancelled : BOOLEAN]]
        /\ applied' \in [Orders -> Nat]
        /\ GoodsKept /\ SubsApplied'
        /\ order[o].st = "paid" => Fulfilled(o)'
    <2>1. CASE Allocate(r)
      BY <1>1, <1>2, <2>1
         DEF Allocate, At, Handled, PayInv, TypeOK, GoodsKept, SubsApplied, Fulfilled
    <2>2. CASE Grant(r)
      <3>1. Product[o] = "package"
        BY <1>1, <1>2, <2>2 DEF Grant, At, Handled
      <3>2. /\ grant' \in [Orders -> {"none", "granted", "refused"}]
            /\ grant'[o] # "none"
            /\ \A q \in Orders \ {o} : grant'[q] = grant[q]
            /\ UNCHANGED <<alloc, sub, applied>>
        BY ZenonT(60), <1>2, <2>2 DEF Grant, PayInv, TypeOK
      <3>. QED
        BY <1>1, <3>1, <3>2 DEF PayInv, TypeOK, GoodsKept, SubsApplied, Fulfilled
    <2>3. CASE RenewSubscription(r)
      <3>1. Product[o] = "subscription" /\ Teacher[o] \in Teachers
        BY <1>1, <1>2, <2>3, PaymentAssumption DEF RenewSubscription, At, Handled
      <3>2. /\ sub' = [sub EXCEPT ![Teacher[o]] = [order |-> o, cancelled |-> FALSE]]
            /\ applied' = [applied EXCEPT ![o] = @ + 1]
            /\ UNCHANGED <<alloc, grant>>
        BY <1>2, <2>3 DEF RenewSubscription
      <3>3. /\ applied' \in [Orders -> Nat] /\ applied'[o] > 0
            /\ \A q \in Orders : applied[q] > 0 => applied'[q] > 0
        BY <3>2 DEF PayInv, TypeOK
      <3>4. /\ sub' \in [Teachers -> [order : Orders \cup {NoOrder}, cancelled : BOOLEAN]]
            /\ \A a \in Teachers : sub'[a].order = o \/ sub'[a] = sub[a]
        BY <3>1, <3>2 DEF PayInv, TypeOK
      <3>5. SubsApplied'
        BY SMTT(30), <3>3, <3>4 DEF PayInv, TypeOK, SubsApplied
      <3>. QED
        BY <1>1, <3>1, <3>2, <3>3, <3>4, <3>5 DEF PayInv, TypeOK, GoodsKept, Fulfilled
    <2>. QED BY <2>1, <2>2, <2>3
  <1>5. order[OrderOf(r)].st = "paid" => Fulfilled(OrderOf(r))'
    BY <1>2, <1>3, <1>4
  <1>. QED BY <1>1, <1>4, <1>5, ProductFrame

\* Cancelling and expiring a subscription.
LEMMA SubscriptionSteps ==
    ASSUME PayInv, NEW a \in Teachers, CancelSubscription(a) \/ ExpireSubscription(a)
    PROVE  PayInv'
  <1>1. UNCHANGED <<order, txn, owed, delivered, req, call, alloc, grant, applied, runs, faults>>
    BY DEF CancelSubscription, ExpireSubscription
  <1>2. /\ sub' \in [Teachers -> [order : Orders \cup {NoOrder}, cancelled : BOOLEAN]]
        /\ \A b \in Teachers : sub'[b].order \in {sub[b].order, NoOrder}
    <2>1. CASE CancelSubscription(a)
      BY <2>1 DEF CancelSubscription, PayInv, TypeOK
    <2>2. CASE ExpireSubscription(a)
      BY <2>2 DEF ExpireSubscription, PayInv, TypeOK
    <2>. QED BY <2>1, <2>2
  <1>3. TypeOK'
    BY <1>1, <1>2 DEF PayInv, TypeOK
  <1>4. SubsApplied'
    BY <1>1, <1>2 DEF PayInv, SubsApplied
  <1>. QED
    BY ZenonT(60), <1>1, <1>3, <1>4 DEF PayInv, Placed, HooksTrue, Told, CallsTrue, LinksTrue, Begun,
       PaidMeansCaptured, HookTrue, MailBound, Handled, InHandler, Accepted, Kind, OrderOf,
       Fulfilled, RecordedMeansFulfilled, AcknowledgedMeansFulfilled

-----------------------------------------------------------------------------
(* The theorems.                                                           *)

\* The initial state satisfies the invariant.
LEMMA PayInvInit == Init => PayInv
  <1> SUFFICES ASSUME Init PROVE PayInv
    OBVIOUS
  <1>1. TypeOK
    BY PaymentAssumption DEF Init, TypeOK, Statuses, Steps, Webhooks, Kinds, IdleReq, NoSub
  <1>2. \A r \in Requests : HookTrue(r) /\ MailBound(r) /\ Handled(r)
    BY DEF Init, HookTrue, MailBound, Handled, InHandler, IdleReq
  <1>3. \A t \in Txns : txn[t].st = "none"
    BY DEF Init
  <1>4. AcknowledgedMeansFulfilled
    BY <1>3, PaymentAssumption DEF AcknowledgedMeansFulfilled
  <1>5. Placed /\ HooksTrue /\ CallsTrue /\ RecordedMeansFulfilled
    BY <1>3 DEF Init, Placed, HooksTrue, CallsTrue, RecordedMeansFulfilled
  <1>6. LinksTrue /\ PaidMeansCaptured
    BY DEF Init, LinksTrue, PaidMeansCaptured
  <1>7. SubsApplied
    BY DEF Init, SubsApplied, NoSub
  <1>. QED BY <1>1, <1>2, <1>4, <1>5, <1>6, <1>7 DEF PayInv

\* Every step preserves it.
LEMMA PayInvStep == PayInv /\ [Next]_vars => PayInv'
  <1> SUFFICES ASSUME PayInv, [Next]_vars PROVE PayInv'
    OBVIOUS
  <1>1. CASE UNCHANGED vars
    <2>1. TypeOK'
      BY <1>1 DEF vars, products, PayInv, TypeOK
    <2>2. PaidKept /\ CallsTrue' /\ LinksTrue' /\ PaidMeansCaptured'
      BY <1>1 DEF vars, PayInv, PaidKept, CallsTrue, LinksTrue, Begun, PaidMeansCaptured
    <2>. QED BY <1>1, <2>1, <2>2, OrderFrame DEF vars, products
  <1>2. ASSUME NEW o \in Orders, CreatePayment(o) \/ CancelPayment(o)
                                 \/ CancelStaleOrder(o) \/ CreateSbpQr(o)
        PROVE  PayInv'
    BY <1>2, OrderSteps
  <1>3. ASSUME NEW o \in Orders, ConfirmThreeDs(o)
        PROVE  PayInv'
    BY <1>3, ThreeDsStep
  <1>4. ASSUME NEW o \in Orders, NEW t \in Txns,
               BuyerPays(t, o) \/ ChargeWithSavedCard(o, t)
        PROVE  PayInv'
    BY <1>4, BuyerPaysStep, ChargeStep
  <1>5. ASSUME NEW c \in call, CallReturns(c) \/ CallLost(c)
        PROVE  PayInv'
    BY <1>5, CallSteps
  <1>6. ASSUME NEW w \in owed, NEW r \in Requests, Deliver(w, r)
        PROVE  PayInv'
    BY <1>6, DeliverStep
  <1>7. ASSUME NEW r \in Requests, RequestStep(r)
        PROVE  PayInv'
    BY <1>7, LockSteps, MarkStep, MailStep, LookStep, ProductSteps, EndSteps DEF RequestStep
  <1>8. ASSUME NEW r \in Requests, RequestFault(r)
        PROVE  PayInv'
    BY <1>8, LockSteps, ThrowStep, EndSteps DEF RequestFault
  <1>9. ASSUME NEW a \in Teachers, CancelSubscription(a) \/ ExpireSubscription(a)
        PROVE  PayInv'
    BY <1>9, SubscriptionSteps
  <1>. QED
    BY <1>1, <1>2, <1>3, <1>4, <1>5, <1>6, <1>7, <1>8, <1>9 DEF Next

\* The invariant holds in every reachable state, whatever the faults.
THEOREM PaymentInvariant == Spec => []PayInv
  BY PayInvInit, PayInvStep, PTL DEF Spec

\* Types of the payment model.
THEOREM PaymentTypeCorrect == Spec => []TypeOK
  <1>1. PayInv => TypeOK
    BY DEF PayInv
  <1>. QED BY <1>1, PaymentInvariant, PTL

\* No order is paid without a capture of its own amount.
THEOREM NeverPaidUncaptured == Spec => []PaidMeansCaptured
  <1>1. PayInv => PaidMeansCaptured
    BY DEF PayInv
  <1>. QED BY <1>1, PaymentInvariant, PTL

\* The provider never stops repeating a webhook whose product is outstanding.
THEOREM NeverAcknowledgedUnfulfilled == Spec => []AcknowledgedMeansFulfilled
  <1>1. PayInv => AcknowledgedMeansFulfilled
    BY DEF PayInv
  <1>. QED BY <1>1, PaymentInvariant, PTL

\* A delivery that will only be replayed has been handled.
THEOREM NeverRecordedUnfulfilled == Spec => []RecordedMeansFulfilled
  <1>1. PayInv => RecordedMeansFulfilled
    BY DEF PayInv
  <1>. QED BY <1>1, PaymentInvariant, PTL

\* What a step may write into orders.
LEMMA OrderWrites ==
    ASSUME PayInv, Next
    PROVE  \/ order' = order
           \/ \E o \in Orders :
                \/ /\ order[o].st \in {"none", "pending"}
                   /\ \E x \in {"pending", "cancelled"} : order' = [order EXCEPT ![o].st = x]
                \/ order' \in {markOrderPaid(o), markOrderFailed(o), markOrderCancelled(o)}
                \/ \E t \in Txns \cup {NoTxn} : order' = [order EXCEPT ![o].threeDs = t]
  <1>1. ASSUME NEW o \in Orders,
               CreatePayment(o) \/ CreateSbpQr(o)
               \/ \E t \in Txns : ChargeWithSavedCard(o, t)
        PROVE  order[o].st = "none" /\ order' = [order EXCEPT ![o].st = "pending"]
    BY <1>1 DEF CreatePayment, CreateSbpQr, ChargeWithSavedCard
  <1>2. ASSUME NEW o \in Orders, CancelStaleOrder(o)
        PROVE  order[o].st = "pending" /\ order' = [order EXCEPT ![o].st = "cancelled"]
    BY <1>2 DEF CancelStaleOrder
  <1>3. ASSUME NEW o \in Orders, CancelPayment(o)
        PROVE  order' = markOrderCancelled(o)
    BY <1>3 DEF CancelPayment
  <1>4. ASSUME NEW c \in call, CallReturns(c)
        PROVE  /\ c.order \in Orders /\ c.txn \in Txns \cup {NoTxn}
               /\ \/ order' \in {order, markOrderPaid(c.order), markOrderFailed(c.order)}
                  \/ order' = [order EXCEPT ![c.order].threeDs = c.txn]
    BY <1>4 DEF CallReturns, AnswerApplied, PayInv, TypeOK
  <1>5. ASSUME NEW r \in Requests, Mark(r)
        PROVE  order' = order \/ (/\ OrderOf(r) \in Orders
                                  /\ order' \in {markOrderPaid(OrderOf(r)),
                                                 markOrderFailed(OrderOf(r))})
    BY <1>5, InProgress DEF Mark, At
  <1>6. ASSUME NEW r \in Requests, RequestStep(r) \/ RequestFault(r), ~Mark(r)
        PROVE  order' = order
    BY <1>6 DEF RequestStep, RequestFault, LockAndLookup, Mail, Allocate, Grant,
       LookSubscription, RenewSubscription, Record, SerialPathFails, HandlerThrows,
       RecordFails, AnswerLost, Crash
  <1>7. ASSUME \/ \E o \in Orders : ConfirmThreeDs(o)
               \/ \E o \in Orders, t \in Txns : BuyerPays(t, o)
               \/ \E c \in call : CallLost(c)
               \/ \E w \in owed, r \in Requests : Deliver(w, r)
               \/ \E a \in Teachers : CancelSubscription(a) \/ ExpireSubscription(a)
        PROVE  order' = order
    BY <1>7 DEF ConfirmThreeDs, BuyerPays, CallLost, Deliver, CancelSubscription,
       ExpireSubscription
  <1>. QED
    BY ZenonT(60), <1>1, <1>2, <1>3, <1>4, <1>5, <1>6, <1>7 DEF Next

\* A paid order stays paid, however late a failure, a cancel or the cleanup
\* comes.
THEOREM PaidStaysPaid == Spec => PaidIsFinal
  <1>1. PayInv /\ [Next]_vars =>
          [\A o \in Orders : order[o].st = "paid" => order'[o].st = "paid"]_vars
    <2> SUFFICES ASSUME PayInv, Next PROVE PaidKept
      BY DEF PaidKept
    <2>1. CASE order' = order
      BY <2>1 DEF PaidKept
    <2>2. ASSUME NEW o \in Orders,
                 order' \in {markOrderPaid(o), markOrderFailed(o), markOrderCancelled(o)}
          PROVE  PaidKept
      BY <2>2, LifeCycle DEF PayInv, PaidKept
    <2>3. ASSUME NEW o \in Orders, order[o].st \in {"none", "pending"},
                 NEW x \in {"pending", "cancelled"}, order' = [order EXCEPT ![o].st = x]
          PROVE  PaidKept
      BY <2>3 DEF PayInv, TypeOK, PaidKept
    <2>4. ASSUME NEW o \in Orders, NEW t, order' = [order EXCEPT ![o].threeDs = t]
          PROVE  PaidKept
      BY <2>4 DEF PayInv, TypeOK, PaidKept
    <2>. QED BY <2>1, <2>2, <2>3, <2>4, OrderWrites
  <1>. QED BY <1>1, PaymentInvariant, PTL DEF Spec, PaidIsFinal

-----------------------------------------------------------------------------
(* Each webhook is handled once, and twice more for each fault: what the   *)
(* requests in progress may still add is counted as well.                  *)

\* Requests about to enter the handler of webhook w.
Entering(w) == {r \in Requests : req[r].pc = "mark" /\ req[r].hook = w}

\* A request could still come in through the lock.
Door(w) ==
    IF w \in delivered \/ \E r \in Requests : req[r].serial /\ req[r].hook = w
    THEN 0 ELSE 1

RunInv ==
    /\ \A r \in Requests : req[r].pc \in {"idle", "recv"} => ~req[r].serial
    /\ \A w \in Webhooks :
         /\ IsFiniteSet(Entering(w))
         /\ runs[w] + Cardinality(Entering(w)) + Door(w) <= 1 + 2 * faults

\* One element more or less.
LEMMA OneApart ==
    ASSUME NEW S, NEW T, NEW r, IsFiniteSet(S), T \ {r} = S \ {r}
    PROVE  /\ IsFiniteSet(T)
           /\ Cardinality(S) \in Nat /\ Cardinality(T) \in Nat
           /\ Cardinality(T) + (IF r \in S THEN 1 ELSE 0)
                = Cardinality(S) + (IF r \in T THEN 1 ELSE 0)
  <1> DEFINE R == S \ {r}
  <1>1. IsFiniteSet(R) /\ Cardinality(R) \in Nat
    BY FS_Subset, FS_CardinalityType
  <1>2. ASSUME NEW U, U \ {r} = R
        PROVE  /\ IsFiniteSet(U) /\ Cardinality(U) \in Nat
               /\ Cardinality(U) = Cardinality(R) + (IF r \in U THEN 1 ELSE 0)
    <2>1. U = IF r \in U THEN R \cup {r} ELSE R
      BY <1>2
    <2>2. r \notin R
      OBVIOUS
    <2>. QED BY SMTT(30), <1>1, <2>1, <2>2, FS_AddElement, FS_CardinalityType
  <1>. QED BY <1>1, <1>2

\* What one request counts for.
Weight(r, w) == IF req[r].pc = "mark" /\ req[r].hook = w THEN 1 ELSE 0

\* A step of one request adds to a webhook's count what faults pay for.
LEMMA RunFrame ==
    ASSUME TypeOK, TypeOK', RunInv, NEW r \in Requests,
           \A q \in Requests \ {r} : req'[q] = req[q],
           req'[r].pc \in {"idle", "recv"} => ~req'[r].serial,
           \A w \in Webhooks :
             runs'[w] + Weight(r, w)' + Door(w)'
               <= runs[w] + Weight(r, w) + Door(w) + 2 * (faults' - faults)
    PROVE  RunInv'
  <1>1. ASSUME NEW w \in Webhooks
        PROVE  /\ IsFiniteSet(Entering(w))'
               /\ (runs[w] + Cardinality(Entering(w)) + Door(w) <= 1 + 2 * faults)'
    <2>1. Entering(w)' \ {r} = Entering(w) \ {r}
      BY DEF Entering
    <2>2. /\ Weight(r, w) = IF r \in Entering(w) THEN 1 ELSE 0
          /\ Weight(r, w)' = IF r \in Entering(w)' THEN 1 ELSE 0
      BY DEF Weight, Entering
    <2>3. IsFiniteSet(Entering(w))
      BY DEF RunInv
    <2>4. /\ IsFiniteSet(Entering(w)')
          /\ Cardinality(Entering(w)) \in Nat /\ Cardinality(Entering(w)') \in Nat
          /\ Cardinality(Entering(w)') + Weight(r, w)
               = Cardinality(Entering(w)) + Weight(r, w)'
      BY <2>1, <2>2, <2>3, OneApart
    <2>5. /\ runs[w] \in Nat /\ runs'[w] \in Nat /\ faults \in Nat /\ faults' \in Nat
          /\ Weight(r, w) \in Nat /\ Weight(r, w)' \in Nat
          /\ Door(w) \in Nat /\ Door(w)' \in Nat
      BY DEF TypeOK, Weight, Door
    <2>6. runs[w] + Cardinality(Entering(w)) + Door(w) <= 1 + 2 * faults
      BY DEF RunInv
    <2>. QED BY <2>4, <2>5, <2>6
  <1>2. \A q \in Requests : req'[q].pc \in {"idle", "recv"} => ~req'[q].serial
    BY DEF RunInv
  <1>. QED BY <1>1, <1>2 DEF RunInv

\* Steps that run no handler and move no request.
LEMMA RunQuiet ==
    ASSUME TypeOK, TypeOK', RunInv, UNCHANGED <<req, delivered, runs>>, faults <= faults'
    PROVE  RunInv'
  <1>1. \A w \in Webhooks :
          /\ Entering(w)' = Entering(w) /\ Door(w)' = Door(w)
          /\ Door(w) \in Nat /\ runs[w] \in Nat /\ faults \in Nat /\ faults' \in Nat
    BY DEF Entering, Door, TypeOK
  <1>2. \A w \in Webhooks : IsFiniteSet(Entering(w)) => Cardinality(Entering(w)) \in Nat
    BY FS_CardinalityType
  <1>3. \A w \in Webhooks :
          runs'[w] + Cardinality(Entering(w)') + Door(w)' <= 1 + 2 * faults'
    BY <1>1, <1>2 DEF RunInv
  <1>. QED BY <1>1, <1>3 DEF RunInv

\* The door of a webhook opens only when the request that holds its lock ends
\* or starts over, and stays shut once the delivery is recorded.
LEMMA Doors ==
    ASSUME TypeOK, NEW r \in Requests, NEW w \in Webhooks,
           \A q \in Requests \ {r} : req'[q] = req[q],
           delivered \subseteq delivered'
    PROVE  /\ Door(w) \in {0, 1} /\ Door(w)' \in {0, 1}
           /\ Door(w)' > Door(w) => /\ req[r].serial /\ req[r].hook = w
                                    /\ ~(req'[r].serial /\ req'[r].hook = w)
                                    /\ w \notin delivered'
  BY DEF Door

\* A request that ends takes no handler's place; if it held the lock, the
\* delivery is recorded or a fault pays.
LEMMA RunEnds ==
    ASSUME PayInv, PayInv', RunInv, NEW r \in Requests, NEW acked, Respond(r, acked),
           delivered \subseteq delivered', runs' = runs,
           \/ faults' = faults + 1
           \/ faults' = faults /\ (req[r].serial => req[r].hook \in delivered')
    PROVE  RunInv'
  <1>1. TypeOK /\ TypeOK'
    BY DEF PayInv
  <1>2. req' = [req EXCEPT ![r] = IdleReq]
    BY DEF Respond
  <1>3. req'[r] = IdleReq /\ \A q \in Requests \ {r} : req'[q] = req[q]
    BY <1>1, <1>2 DEF TypeOK
  <1>4. req'[r].pc = "idle" /\ req'[r].serial = FALSE
    BY <1>3 DEF IdleReq
  <1>5. ASSUME NEW w \in Webhooks
        PROVE  runs'[w] + Weight(r, w)' + Door(w)'
                 <= runs[w] + Weight(r, w) + Door(w) + 2 * (faults' - faults)
    <2>1. Weight(r, w) \in {0, 1} /\ Weight(r, w)' = 0
      BY <1>4 DEF Weight
    <2>2. runs[w] \in Nat /\ faults \in Nat /\ faults' \in Nat
      BY <1>1 DEF TypeOK
    <2>3. /\ Door(w) \in {0, 1} /\ Door(w)' \in {0, 1}
          /\ Door(w)' > Door(w) => faults' = faults + 1
      BY <1>1, <1>3, Doors
    <2>. QED BY <2>1, <2>2, <2>3
  <1>. QED BY <1>1, <1>3, <1>4, <1>5, RunFrame

\* A request that goes on keeps its webhook, so only that one is counted anew.
LEMMA RunMoved ==
    ASSUME PayInv, PayInv', RunInv, NEW r \in Requests, NEW row,
           req' = [req EXCEPT ![r] = row],
           row.hook = req[r].hook, row.pc \notin {"idle", "recv"},
           delivered' = delivered, faults' = faults \/ faults' = faults + 1,
           \A w \in Webhooks :
             IF w = row.hook
             THEN runs'[w] + Door(w)' + (IF row.pc = "mark" THEN 1 ELSE 0)
                    <= runs[w] + Door(w) + (IF req[r].pc = "mark" THEN 1 ELSE 0)
                         + 2 * (faults' - faults)
             ELSE runs'[w] = runs[w]
    PROVE  RunInv'
  <1>1. TypeOK /\ TypeOK'
    BY DEF PayInv
  <1>2. req'[r] = row /\ \A q \in Requests \ {r} : req'[q] = req[q]
    BY <1>1 DEF TypeOK
  <1>3. ASSUME NEW w \in Webhooks
        PROVE  runs'[w] + Weight(r, w)' + Door(w)'
                 <= runs[w] + Weight(r, w) + Door(w) + 2 * (faults' - faults)
    <2>1. /\ runs[w] \in Nat /\ runs'[w] \in Nat /\ faults \in Nat /\ faults' \in Nat
          /\ Door(w) \in {0, 1} /\ Door(w)' \in {0, 1}
      BY <1>1, <1>2, Doors DEF TypeOK
    <2>2. CASE w = row.hook
      <3>1. /\ Weight(r, w) = IF req[r].pc = "mark" THEN 1 ELSE 0
            /\ Weight(r, w)' = IF row.pc = "mark" THEN 1 ELSE 0
        BY <1>2, <2>2 DEF Weight
      <3>2. runs'[w] + Door(w)' + (IF row.pc = "mark" THEN 1 ELSE 0)
              <= runs[w] + Door(w) + (IF req[r].pc = "mark" THEN 1 ELSE 0)
                   + 2 * (faults' - faults)
        BY <2>2
      <3>. QED BY <2>1, <3>1, <3>2
    <2>3. CASE w # row.hook
      <3>1. Weight(r, w) = 0 /\ Weight(r, w)' = 0 /\ runs'[w] = runs[w]
        BY <1>2, <2>3 DEF Weight
      <3>2. ~(Door(w)' > Door(w))
        BY <1>1, <1>2, <2>3, Doors
      <3>. QED BY <2>1, <3>1, <3>2
    <2>. QED BY <2>2, <2>3
  <1>. QED BY <1>1, <1>2, <1>3, RunFrame

\* The steps of a request in progress.
LEMMA RunGoesOn ==
    ASSUME PayInv, PayInv', RunInv, NEW r \in Requests,
           \/ LockAndLookup(r) /\ req[r].hook \notin delivered
           \/ SerialPathFails(r) \/ Mark(r) \/ Mail(r) \/ Allocate(r) \/ Grant(r)
           \/ LookSubscription(r) \/ RenewSubscription(r)
           \/ HandlerThrows(r) /\ req[r].serial
    PROVE  RunInv'
  <1> DEFINE old == req[r]  h == req[r].hook
  <1> USE DEF products
  <1>1. /\ TypeOK /\ TypeOK' /\ old \in ReqRow
        /\ old.pc # "idle" /\ h \in Webhooks
        /\ runs \in [Webhooks -> Nat] /\ faults \in Nat /\ faults' \in Nat
    <2>1. old.pc # "idle"
      BY DEF LockAndLookup, SerialPathFails, Mark, Mail, Allocate, Grant,
         LookSubscription, RenewSubscription, HandlerThrows, At, Throwing
    <2>. QED BY <2>1, InProgress DEF PayInv, TypeOK, ReqRow
  <1>2. ASSUME NEW row, req' = [req EXCEPT ![r] = row]
        PROVE  /\ req'[r] = row /\ \A q \in Requests \ {r} : req'[q] = req[q]
               /\ delivered' = delivered =>
                    \A w \in Webhooks :
                      /\ Door(w) \in {0, 1} /\ Door(w)' \in {0, 1}
                      /\ row.hook = h /\ row.serial = old.serial => Door(w)' = Door(w)
    <2>1. req'[r] = row /\ \A q \in Requests \ {r} : req'[q] = req[q]
      BY <1>1, <1>2 DEF TypeOK
    <2>. QED BY <1>1, <2>1 DEF Door
  <1>3. CASE LockAndLookup(r) /\ h \notin delivered
    <2> DEFINE row == [old EXCEPT !.pc = "mark", !.serial = TRUE]
    <2>1. /\ old.pc = "recv" /\ LockFree(r) /\ UNCHANGED <<delivered, runs, faults>>
          /\ req' = [req EXCEPT ![r].pc = "mark", ![r].serial = TRUE]
      BY <1>3 DEF LockAndLookup, At
    <2>2. req' = [req EXCEPT ![r] = row]
      BY <1>1, <2>1 DEF TypeOK, ReqRow
    <2>3. row.pc = "mark" /\ row.serial = TRUE /\ row.hook = h
      BY <1>1 DEF ReqRow
    <2>5. req'[r].serial /\ req'[r].hook = h
      BY <1>2, <2>2, <2>3
    <2>4. \A w \in Webhooks : w = h => Door(w) = 1 /\ Door(w)' = 0
      BY <1>3, <2>1, <2>5 DEF Door, LockFree
    <2> HIDE DEF row
    <2>8. \A w \in Webhooks :
            IF w = row.hook
            THEN runs'[w] + Door(w)' + (IF row.pc = "mark" THEN 1 ELSE 0)
                   <= runs[w] + Door(w) + (IF req[r].pc = "mark" THEN 1 ELSE 0)
                        + 2 * (faults' - faults)
            ELSE runs'[w] = runs[w]
      BY <1>1, <2>1, <2>2, <2>3, <2>4
    <2>9. row.pc \notin {"idle", "recv"}
      BY <2>1, <2>2, <2>3, <2>4
    <2>. QED BY <2>1, <2>2, <2>3, <2>4, <2>8, <2>9, RunMoved
  <1>4. CASE SerialPathFails(r)
    <2> DEFINE row == [old EXCEPT !.pc = "mark"]
    <2>1. /\ old.pc = "recv" /\ UNCHANGED <<delivered, runs>> /\ faults' = faults + 1
          /\ req' = [req EXCEPT ![r].pc = "mark"]
      BY <1>4 DEF SerialPathFails, At, Fault, Goto
    <2>2. req' = [req EXCEPT ![r] = row]
      BY <1>1, <2>1 DEF TypeOK, ReqRow
    <2>3. row.pc = "mark" /\ row.serial = old.serial /\ row.hook = h
      BY <1>1 DEF ReqRow
    <2>4. \A w \in Webhooks : Door(w) \in {0, 1} /\ Door(w)' = Door(w)
      BY <1>2, <2>1, <2>2, <2>3
    <2> HIDE DEF row
    <2>8. \A w \in Webhooks :
            IF w = row.hook
            THEN runs'[w] + Door(w)' + (IF row.pc = "mark" THEN 1 ELSE 0)
                   <= runs[w] + Door(w) + (IF req[r].pc = "mark" THEN 1 ELSE 0)
                        + 2 * (faults' - faults)
            ELSE runs'[w] = runs[w]
      BY <1>1, <2>1, <2>2, <2>3, <2>4
    <2>9. row.pc \notin {"idle", "recv"}
      BY <2>1, <2>2, <2>3, <2>4
    <2>. QED BY ZenonT(60), <2>1, <2>2, <2>3, <2>4, <2>8, <2>9, RunMoved
  <1>5. CASE Mark(r)
    <2>1. PICK s \in {"mail", "record"} : req' = [req EXCEPT ![r].pc = s]
      BY <1>5 DEF Mark, Goto
    <2> DEFINE row == [old EXCEPT !.pc = s]
    <2>2. /\ old.pc = "mark" /\ UNCHANGED <<delivered, faults>>
          /\ runs' = runs \/ runs' = [runs EXCEPT ![h] = @ + 1]
      BY <1>5 DEF Mark, At
    <2>3. req' = [req EXCEPT ![r] = row]
      BY <1>1, <2>1 DEF TypeOK, ReqRow
    <2>4. row.pc = s /\ row.serial = old.serial /\ row.hook = h
      BY <1>1 DEF ReqRow
    <2>5. \A w \in Webhooks : Door(w) \in {0, 1} /\ Door(w)' = Door(w)
      BY <1>2, <2>2, <2>3, <2>4
    <2>6. /\ runs'[h] \in {runs[h], runs[h] + 1} /\ runs[h] \in Nat
          /\ \A w \in Webhooks \ {h} : runs'[w] = runs[w]
      BY <1>1, <2>2
    <2> HIDE DEF row
    <2>8. \A w \in Webhooks :
            IF w = row.hook
            THEN runs'[w] + Door(w)' + (IF row.pc = "mark" THEN 1 ELSE 0)
                   <= runs[w] + Door(w) + (IF req[r].pc = "mark" THEN 1 ELSE 0)
                        + 2 * (faults' - faults)
            ELSE runs'[w] = runs[w]
      BY <1>1, <2>1, <2>2, <2>3, <2>4, <2>5, <2>6
    <2>9. row.pc \notin {"idle", "recv"}
      BY <2>1, <2>2, <2>3, <2>4, <2>5, <2>6
    <2>. QED BY ZenonT(60), <2>2, <2>3, <2>4, <2>8, <2>9, RunMoved
  <1>6. CASE Mail(r) \/ Allocate(r) \/ Grant(r) \/ LookSubscription(r) \/ RenewSubscription(r)
    <2> DEFINE Later == {"alloc", "grant", "look", "renew", "record"}
               To(x, m) == [pc |-> x, hook |-> h, serial |-> old.serial, mails |-> m]
               Goes(x, m) == req' = [req EXCEPT ![r] = To(x, m)]
    <2>6. ASSUME Mail(r)
          PROVE  \E x \in Later, m \in Nat : Goes(x, m)
      <3>1. req' = [req EXCEPT ![r].mails = @ + 1,
                      ![r].pc = IF Kind(r) = "pay" THEN NextStep(OrderOf(r)) ELSE "record"]
        BY <2>6 DEF Mail
      <3>2. NextStep(OrderOf(r)) \in Later
        BY DEF NextStep
      <3>3. PICK x \in Later : req' = [req EXCEPT ![r].mails = @ + 1, ![r].pc = x]
        BY <3>1, <3>2
      <3>4. old = To(old.pc, old.mails) /\ old.mails \in Nat
        BY <1>1 DEF ReqRow
      <3> DEFINE one == [old EXCEPT !.mails = old.mails + 1]
      <3>5. one = To(old.pc, old.mails + 1)
        BY <3>4
      <3>6. req' = [req EXCEPT ![r] = [one EXCEPT !.pc = x]]
        BY <1>1, <3>3 DEF TypeOK
      <3> HIDE DEF one
      <3>7. [one EXCEPT !.pc = x] = To(x, old.mails + 1)
        BY <3>5
      <3> HIDE DEF To
      <3>8. req' = [req EXCEPT ![r] = To(x, old.mails + 1)]
        BY <3>6, <3>7
      <3>9. old.mails + 1 \in Nat
        BY <3>4
      <3>. QED BY <3>8, <3>9
    <2>7. ASSUME Allocate(r) \/ Grant(r) \/ LookSubscription(r) \/ RenewSubscription(r)
          PROVE  \E x \in Later, m \in Nat : Goes(x, m)
      <3>1. PICK x \in Later : req' = [req EXCEPT ![r].pc = x]
        BY <2>7 DEF Allocate, Grant, LookSubscription, RenewSubscription, Goto
      <3>2. old = To(old.pc, old.mails) /\ old.mails \in Nat
        BY <1>1 DEF ReqRow
      <3>3. [old EXCEPT !.pc = x] = To(x, old.mails)
        BY <3>2
      <3>4. req' = [req EXCEPT ![r] = [old EXCEPT !.pc = x]]
        BY <1>1, <3>1 DEF TypeOK
      <3>. QED BY <3>2, <3>3, <3>4
    <2>1. PICK s \in Later, m \in Nat : Goes(s, m)
      BY <1>6, <2>6, <2>7
    <2> DEFINE row == To(s, m)
    <2>2. UNCHANGED <<delivered, runs, faults>>
      BY <1>6 DEF Mail, Allocate, Grant, LookSubscription, RenewSubscription
    <2>3. row.pc = s /\ row.serial = old.serial /\ row.hook = h /\ runs[h] \in Nat
      BY <1>1 DEF ReqRow
    <2>4. \A w \in Webhooks : Door(w) \in {0, 1} /\ Door(w)' = Door(w)
      BY <1>2, <2>1, <2>2, <2>3
    <2>5. req' = [req EXCEPT ![r] = row]
      BY <2>1
    <2> HIDE DEF row
    <2>8. \A w \in Webhooks :
            IF w = row.hook
            THEN runs'[w] + Door(w)' + (IF row.pc = "mark" THEN 1 ELSE 0)
                   <= runs[w] + Door(w) + (IF req[r].pc = "mark" THEN 1 ELSE 0)
                        + 2 * (faults' - faults)
            ELSE runs'[w] = runs[w]
      BY <1>1, <1>6, <2>2, <2>3, <2>4
    <2>9. row.pc \notin {"idle", "recv"}
      BY <2>2, <2>3, <2>4, <2>5
    <2>. QED BY <2>2, <2>3, <2>4, <2>5, <2>8, <2>9, RunMoved
  <1>7. CASE HandlerThrows(r) /\ old.serial
    <2> DEFINE row == [old EXCEPT !.serial = FALSE, !.pc = "mark"]
    <2>1. /\ UNCHANGED <<delivered, runs>> /\ faults' = faults + 1
          /\ req' = [req EXCEPT ![r].serial = FALSE, ![r].pc = "mark"]
      BY <1>7 DEF HandlerThrows, Fault
    <2>2. req' = [req EXCEPT ![r] = row]
      BY <1>1, <2>1 DEF TypeOK, ReqRow
    <2>3. row.pc = "mark" /\ row.hook = h /\ runs[h] \in Nat
      BY <1>1 DEF ReqRow
    <2>4. \A w \in Webhooks : Door(w) \in {0, 1} /\ Door(w)' \in {0, 1}
      BY <1>2, <2>1, <2>2
    <2> HIDE DEF row
    <2>8. \A w \in Webhooks :
            IF w = row.hook
            THEN runs'[w] + Door(w)' + (IF row.pc = "mark" THEN 1 ELSE 0)
                   <= runs[w] + Door(w) + (IF req[r].pc = "mark" THEN 1 ELSE 0)
                        + 2 * (faults' - faults)
            ELSE runs'[w] = runs[w]
      BY <1>1, <2>1, <2>2, <2>3, <2>4
    <2>9. row.pc \notin {"idle", "recv"}
      BY <2>1, <2>2, <2>3, <2>4
    <2>. QED BY <2>1, <2>2, <2>3, <2>4, <2>8, <2>9, RunMoved
  <1>. QED BY <1>3, <1>4, <1>5, <1>6, <1>7

\* The last step of a request.
LEMMA RunStops ==
    ASSUME PayInv, PayInv', RunInv, NEW r \in Requests,
           \/ LockAndLookup(r) /\ req[r].hook \in delivered
           \/ Record(r) \/ RecordFails(r) \/ AnswerLost(r) \/ Crash(r)
           \/ HandlerThrows(r) /\ ~req[r].serial
    PROVE  RunInv'
  <1>1. CASE LockAndLookup(r) /\ req[r].hook \in delivered
    BY <1>1, RunEnds DEF LockAndLookup
  <1>2. CASE Record(r)
    BY <1>2, RunEnds DEF Record
  <1>3. CASE RecordFails(r) \/ AnswerLost(r) \/ Crash(r) \/ (HandlerThrows(r) /\ ~req[r].serial)
    BY <1>3, RunEnds DEF RecordFails, AnswerLost, Crash, HandlerThrows, Fault
  <1>. QED BY <1>1, <1>2, <1>3

\* A delivery begins.
LEMMA RunDelivers ==
    ASSUME PayInv, PayInv', RunInv, NEW w \in owed, NEW r \in Requests, Deliver(w, r)
    PROVE  RunInv'
  <1> DEFINE row == [pc |-> "recv", hook |-> w, serial |-> FALSE, mails |-> 0]
  <1>1. /\ TypeOK /\ TypeOK' /\ req[r].pc = "idle" /\ ~req[r].serial
        /\ req' = [req EXCEPT ![r] = row] /\ UNCHANGED <<delivered, runs, faults>>
    BY DEF Deliver, At, PayInv, RunInv
  <1>2. req'[r] = row /\ \A q \in Requests \ {r} : req'[q] = req[q]
    BY <1>1 DEF TypeOK
  <1>3. req'[r].pc = "recv" /\ ~req'[r].serial
    BY <1>2
  <1>4. ASSUME NEW x \in Webhooks
        PROVE  runs'[x] + Weight(r, x)' + Door(x)'
                 <= runs[x] + Weight(r, x) + Door(x) + 2 * (faults' - faults)
    <2>1. Weight(r, x) = 0 /\ Weight(r, x)' = 0
      BY <1>1, <1>3 DEF Weight
    <2>2. Door(x)' = Door(x) /\ Door(x) \in {0, 1}
      BY <1>1, <1>2, <1>3 DEF Door
    <2>. QED BY <1>1, <2>1, <2>2 DEF TypeOK
  <1>. QED BY <1>1, <1>2, <1>3, <1>4, RunFrame

\* What the buyer, the provider and the operator do runs no handler.
LEMMA RunApart ==
    ASSUME PayInv, PayInv', RunInv,
           \/ UNCHANGED vars
           \/ \E o \in Orders : \/ CreatePayment(o) \/ CancelPayment(o)
                                \/ CancelStaleOrder(o) \/ CreateSbpQr(o)
                                \/ ConfirmThreeDs(o)
           \/ \E o \in Orders, t \in Txns : BuyerPays(t, o) \/ ChargeWithSavedCard(o, t)
           \/ \E c \in call : CallReturns(c) \/ CallLost(c)
           \/ \E a \in Teachers : CancelSubscription(a) \/ ExpireSubscription(a)
    PROVE  RunInv'
  <1>1. UNCHANGED <<req, delivered, runs>>
    BY DEF vars, CreatePayment, CancelPayment, CancelStaleOrder, CreateSbpQr,
       ConfirmThreeDs, BuyerPays, ChargeWithSavedCard, CallReturns, CallLost,
       CancelSubscription, ExpireSubscription
  <1>2. faults' = faults \/ faults' = faults + 1
    BY DEF vars, CreatePayment, CancelPayment, CancelStaleOrder, CreateSbpQr,
       ConfirmThreeDs, BuyerPays, ChargeWithSavedCard, CallReturns, CallLost, Fault,
       CancelSubscription, ExpireSubscription
  <1>3. faults \in Nat
    BY DEF PayInv, TypeOK
  <1>. QED BY <1>1, <1>2, <1>3, RunQuiet DEF PayInv

\* A handler runs once per webhook, and at most twice more per fault.
THEOREM HandledOnceUnlessFaults == Spec => []RunsNeedFaults
  <1>1. Init => RunInv
    <2> SUFFICES ASSUME Init PROVE RunInv
      OBVIOUS
    <2>1. \A r \in Requests : req[r].pc = "idle" /\ ~req[r].serial
      BY DEF Init, IdleReq
    <2>2. \A w \in Webhooks : Entering(w) = {} /\ Door(w) = 1 /\ runs[w] = 0
      BY <2>1 DEF Init, Entering, Door
    <2>3. faults = 0
      BY DEF Init
    <2>. QED BY <2>1, <2>2, <2>3, FS_EmptySet DEF RunInv
  <1>2. PayInv /\ PayInv' /\ RunInv /\ [Next]_vars => RunInv'
    <2> SUFFICES ASSUME PayInv, PayInv', RunInv, [Next]_vars PROVE RunInv'
      OBVIOUS
    <2>1. ASSUME NEW r \in Requests, RequestStep(r) \/ RequestFault(r)
          PROVE  RunInv'
      BY <2>1, RunGoesOn, RunStops DEF RequestStep, RequestFault
    <2>2. ASSUME NEW w \in owed, NEW r \in Requests, Deliver(w, r)
          PROVE  RunInv'
      BY <2>2, RunDelivers
    <2>. QED BY <2>1, <2>2, RunApart DEF Next
  <1>3. PayInv /\ RunInv => RunsNeedFaults
    <2> SUFFICES ASSUME PayInv, RunInv, NEW w \in Webhooks
                 PROVE  runs[w] <= 1 + 2 * faults
      BY DEF RunsNeedFaults
    <2>1. /\ runs[w] \in Nat /\ faults \in Nat /\ Door(w) \in Nat
          /\ IsFiniteSet(Entering(w))
          /\ runs[w] + Cardinality(Entering(w)) + Door(w) <= 1 + 2 * faults
      BY DEF PayInv, TypeOK, RunInv, Door
    <2>2. Cardinality(Entering(w)) \in Nat
      BY <2>1, FS_CardinalityType
    <2>. QED BY <2>1, <2>2
  <1>4. Spec => []RunInv
    BY <1>1, <1>2, PaymentInvariant, PTL DEF Spec
  <1>. QED BY <1>3, <1>4, PaymentInvariant, PTL
=============================================================================
