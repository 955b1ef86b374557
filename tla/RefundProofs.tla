---------------------------- MODULE RefundProofs ----------------------------
(***************************************************************************)
(* The refund invariants for any payment, any number of operators,         *)
(* requests and faults.  Two of them hold whatever keys are sent; that no  *)
(* money is forgotten and the provider is called once per attempt holds    *)
(* when no two clients send one key at the same time (DistinctKeys).       *)
(***************************************************************************)
EXTENDS RefundAttempts, TLAPS

DistinctKeys == \A c, d \in Clients : Key[c] # NoKey /\ Key[c] = Key[d] => c = d

Row == [status : Statuses, key : {Key[c] : c \in Clients} \cup {NoKey}, kopecks : 0..Amount,
        gateway : Nat, reversal : BOOLEAN]
Refund == [attempt : Attempts, booked : Nat]

Busy(c) == req[c].at \in {"call", "success", "declined", "error", "db_failed"}
HasRefund(c) == req[c].at \in {"success", "db_failed"}

\* The tables.
TableInv ==
    /\ attempt \in [Attempts -> Row] /\ reversed \in 0..Amount /\ refund \in Seq(Refund)
    /\ calls \in [Attempts -> Nat]
    /\ sends \in [Clients -> 0..MaxSends] /\ faults \in 0..MaxFaults
    /\ \A a \in Attempts : attempt[a].gateway <= Len(refund)

\* What the requests remember is there.
RequestInv ==
    /\ req = [c \in Clients |-> req[c]]
    /\ \A c \in Clients :
         /\ req[c].at # "idle" => req[c].kopecks \in 1..Amount
         /\ Busy(c) => req[c].attempt \in Attempts /\ attempt[req[c].attempt].status # "none"
         /\ HasRefund(c) => /\ req[c].gateway \in 1..Len(refund)
                            /\ refund[req[c].gateway].attempt = req[c].attempt

\* What a request or a flagged row is going to book is not booked yet, and
\* nobody else is going to book it.
BookInv ==
    /\ \A g \in 1..Len(refund) : refund[g].booked <= 1
    /\ \A c \in Clients : At(c, "success") => refund[req[c].gateway].booked = 0
    /\ \A c \in Clients : At(c, "db_failed") /\ refund[req[c].gateway].booked # 0
                          => attempt[req[c].attempt].reversal
    /\ \A c, d \in Clients : HasRefund(c) /\ HasRefund(d) /\ req[c].gateway = req[d].gateway => c = d
    /\ \A a \in Attempts : attempt[a].status = "gateway_succeeded_db_failed" =>
         /\ ~attempt[a].reversal /\ attempt[a].gateway # 0
         /\ refund[attempt[a].gateway].attempt = a /\ refund[attempt[a].gateway].booked = 0
         /\ \A c \in Clients : HasRefund(c) => req[c].gateway # attempt[a].gateway

\* The inductive invariant.
RefundInv == TableInv /\ RequestInv /\ BookInv

-----------------------------------------------------------------------------
(* Steps on one variable.                                                  *)

\* A request goes on; the others stay where they are.
LEMMA SetStep ==
    ASSUME req = [d \in Clients |-> req[d]], NEW c \in Clients, NEW r, Set(c, r)
    PROVE  /\ req' = [d \in Clients |-> req'[d]]
           /\ req'[c] = r
           /\ \A d \in Clients \ {c} : req'[d] = req[d]
  BY DEF Set

\* Booking a refund of the provider changes that refund's count only.
LEMMA BookStep ==
    ASSUME refund \in Seq(Refund), NEW g \in 1..Len(refund), NEW n, Book(n, g)
    PROVE  /\ refund' \in Seq(Refund) /\ Len(refund') = Len(refund)
           /\ \A h \in 1..Len(refund) : /\ refund'[h].attempt = refund[h].attempt
                                        /\ h # g => refund'[h] = refund[h]
           /\ refund'[g].booked = refund[g].booked + 1
  <1> DEFINE r == [refund[g] EXCEPT !.booked = refund[g].booked + 1]
  <1>1. refund[g] \in Refund
    OBVIOUS
  <1>2. r \in Refund /\ r.attempt = refund[g].attempt /\ r.booked = refund[g].booked + 1
    BY <1>1 DEF Refund
  <1>3. refund' = [refund EXCEPT ![g] = r]
    BY DEF Book
  <1> HIDE DEF r
  <1>4. refund' \in Seq(Refund) /\ Len(refund') = Len(refund)
    BY <1>2, <1>3
  <1>5. \A h \in 1..Len(refund) : refund'[h] = IF h = g THEN r ELSE refund[h]
    BY <1>3
  <1>6. QED
    BY <1>2, <1>4, <1>5

\* The provider's new refund is the last one.
LEMMA MovedStep ==
    ASSUME refund \in Seq(Refund), NEW a \in Attempts,
           refund' = Append(refund, [attempt |-> a, booked |-> 0])
    PROVE  /\ refund' \in Seq(Refund) /\ Len(refund') = Len(refund) + 1 /\ Len(refund) \in Nat
           /\ \A h \in 1..Len(refund) : refund'[h] = refund[h]
           /\ refund'[Len(refund) + 1] = [attempt |-> a, booked |-> 0]
  <1>1. [attempt |-> a, booked |-> 0] \in Refund
    BY DEF Refund
  <1>2. QED
    BY <1>1

\* A write to one attempt's row.
LEMMA RowStep ==
    ASSUME attempt \in [Attempts -> Row], NEW a \in Attempts, NEW g \in Nat
    PROVE  /\ \A st \in Statuses : Mark(a, st) =>
                /\ attempt' \in [Attempts -> Row]
                /\ \A b \in Attempts : b # a => attempt'[b] = attempt[b]
                /\ attempt'[a].status = st /\ attempt'[a].gateway = attempt[a].gateway
                /\ attempt'[a].reversal = attempt[a].reversal
                /\ attempt'[a].key = attempt[a].key
           /\ markAttemptSucceeded(a, g) =>
                /\ attempt' \in [Attempts -> Row]
                /\ \A b \in Attempts : b # a => attempt'[b] = attempt[b]
                /\ attempt'[a].status = "succeeded" /\ attempt'[a].gateway = g
                /\ attempt'[a].reversal /\ attempt'[a].key = attempt[a].key
           /\ markAttemptGatewaySucceededDbFailed(a, g) =>
                /\ attempt' \in [Attempts -> Row]
                /\ \A b \in Attempts : b # a => attempt'[b] = attempt[b]
                /\ attempt[a].reversal => attempt' = attempt
                /\ ~attempt[a].reversal =>
                     /\ attempt'[a].status = "gateway_succeeded_db_failed"
                     /\ attempt'[a].gateway = g /\ ~attempt'[a].reversal
                     /\ attempt'[a].key = attempt[a].key
  <1>1. attempt[a] \in Row
    OBVIOUS
  <1>2. ASSUME NEW st \in Statuses, Mark(a, st)
        PROVE  /\ attempt' \in [Attempts -> Row]
               /\ \A b \in Attempts : b # a => attempt'[b] = attempt[b]
               /\ attempt'[a].status = st /\ attempt'[a].gateway = attempt[a].gateway
               /\ attempt'[a].reversal = attempt[a].reversal
               /\ attempt'[a].key = attempt[a].key
    BY <1>1, <1>2 DEF Mark, Row
  <1>3. ASSUME markAttemptSucceeded(a, g)
        PROVE  /\ attempt' \in [Attempts -> Row]
               /\ \A b \in Attempts : b # a => attempt'[b] = attempt[b]
               /\ attempt'[a].status = "succeeded" /\ attempt'[a].gateway = g
               /\ attempt'[a].reversal /\ attempt'[a].key = attempt[a].key
    BY <1>1, <1>3 DEF markAttemptSucceeded, Row, Statuses
  <1>4. ASSUME markAttemptGatewaySucceededDbFailed(a, g)
        PROVE  /\ attempt' \in [Attempts -> Row]
               /\ \A b \in Attempts : b # a => attempt'[b] = attempt[b]
               /\ attempt[a].reversal => attempt' = attempt
               /\ ~attempt[a].reversal =>
                    /\ attempt'[a].status = "gateway_succeeded_db_failed"
                    /\ attempt'[a].gateway = g /\ ~attempt'[a].reversal
                    /\ attempt'[a].key = attempt[a].key
    BY <1>1, <1>4 DEF markAttemptGatewaySucceededDbFailed, Row, Statuses
  <1>5. QED
    BY <1>2, <1>3, <1>4

-----------------------------------------------------------------------------
(* The actions.                                                            *)

\* A request that starts, is refused or dies has nothing to book.
LEMMA IdleStep ==
    ASSUME RefundInv, NEW c \in Clients, NEW r, Set(c, r), r.at \in {"idle", "validate"},
           r.at = "validate" => r.kopecks \in 1..Amount,
           UNCHANGED <<attempt, reversed, refund, calls>>,
           sends' \in [Clients -> 0..MaxSends], faults' \in 0..MaxFaults
    PROVE  RefundInv'
  <1>1. /\ req' = [d \in Clients |-> req'[d]]
        /\ req'[c] = r
        /\ \A d \in Clients \ {c} : req'[d] = req[d]
    BY SetStep DEF RefundInv, RequestInv
  <1>2. TableInv'
    BY DEF RefundInv, TableInv
  <1>3. RequestInv'
    BY <1>1 DEF RefundInv, RequestInv, Busy, HasRefund
  <1>4. BookInv'
    BY SMTT(30), <1>1 DEF RefundInv, BookInv, HasRefund, At
  <1>5. QED
    BY <1>2, <1>3, <1>4 DEF RefundInv

\* A known key is answered, or the request starts.
LEMMA SendStep ==
    ASSUME RefundInv, NEW c \in Clients, NEW n \in 1..Amount, Send(c, n)
    PROVE  RefundInv'
  <1>1. sends' \in [Clients -> 0..MaxSends] /\ faults' \in 0..MaxFaults
    BY RefundAssumption DEF Send, RefundInv, TableInv
  <1>2. CASE UNCHANGED req
    BY <1>1, <1>2 DEF Send, RefundInv, TableInv, RequestInv, BookInv, Busy, HasRefund, At
  <1>3. CASE Set(c, [at |-> "validate", kopecks |-> n])
    BY <1>1, <1>3, IdleStep DEF Send
  <1>4. QED
    BY <1>2, <1>3 DEF Send

\* A request that dies leaves its row behind.
LEMMA DiesStep ==
    ASSUME RefundInv, NEW c \in Clients, Dies(c)
    PROVE  RefundInv'
  <1>1. sends' \in [Clients -> 0..MaxSends] /\ faults' \in 0..MaxFaults
    BY RefundAssumption DEF Dies, Fault, RefundInv, TableInv
  <1>2. QED
    BY <1>1, IdleStep DEF Dies, IdleReq

\* A manual refund fits.
LEMMA ManualStep ==
    ASSUME RefundInv, NEW n \in 1..Amount, RecordManually(n)
    PROVE  RefundInv'
  <1>1. TableInv'
    BY RefundAssumption DEF RecordManually, Fits, RefundInv, TableInv
  <1>2. RequestInv' /\ BookInv'
    BY DEF RecordManually, RefundInv, RequestInv, BookInv, Busy, HasRefund, At
  <1>3. QED
    BY <1>1, <1>2 DEF RefundInv

\* The row is written before anything is booked under it.
LEMMA ValidateStep ==
    ASSUME RefundInv, NEW c \in Clients, Validate(c)
    PROVE  RefundInv'
  <1>1. CASE Set(c, IdleReq) /\ UNCHANGED attempt
    BY <1>1, IdleStep DEF Validate, IdleReq, RefundInv, TableInv
  <1>2. ASSUME NEW a \in Attempts, createPendingRefundAttempt(c, a, req[c].kopecks),
               Set(c, [at |-> "call", attempt |-> a, kopecks |-> req[c].kopecks])
        PROVE  RefundInv'
    <2>1. /\ req' = [d \in Clients |-> req'[d]]
          /\ req'[c] = [at |-> "call", attempt |-> a, kopecks |-> req[c].kopecks]
          /\ \A d \in Clients \ {c} : req'[d] = req[d]
      BY <1>2, SetStep DEF RefundInv, RequestInv
    <2>2. /\ attempt' \in [Attempts -> Row]
          /\ \A b \in Attempts :
               \/ attempt'[b] = attempt[b] /\ (b = a => attempt[b].status # "none")
               \/ /\ attempt[b].status = "none" /\ attempt'[b].status = "pending"
                  /\ attempt'[b].gateway = 0 /\ ~attempt'[b].reversal
      <3>1. CASE WithKey(c) # {}
        BY <1>2, <3>1 DEF createPendingRefundAttempt, WithKey, RefundInv, TableInv
      <3>2. CASE WithKey(c) = {}
        <4> DEFINE r == [NoRow EXCEPT !.status = "pending", !.key = Key[c],
                                      !.kopecks = req[c].kopecks]
        <4>0. req[c].kopecks \in 0..Amount
          BY RefundAssumption DEF Validate, At, RefundInv, RequestInv
        <4>1. r \in Row /\ r.status = "pending" /\ r.gateway = 0 /\ ~r.reversal
          <5>1. Key[c] \in {Key[d] : d \in Clients} \cup {NoKey}
            OBVIOUS
          <5>2. NoRow \in Row
            BY RefundAssumption DEF NoRow, Row, Statuses
          <5>3. NoRow.gateway = 0 /\ NoRow.reversal = FALSE
            BY DEF NoRow
          <5>4. QED
            BY <4>0, <5>1, <5>2, <5>3 DEF Row, Statuses
        <4>2. attempt[a].status = "none" /\ attempt' = [attempt EXCEPT ![a] = r]
          BY <1>2, <3>2 DEF createPendingRefundAttempt
        <4> HIDE DEF r
        <4>3. QED
          BY <4>1, <4>2 DEF RefundInv, TableInv
      <3>3. QED
        BY <3>1, <3>2
    <2>3. TableInv'
      BY <2>2 DEF Validate, RefundInv, TableInv
    <2>4. RequestInv'
      BY <2>1, <2>2 DEF Validate, At, RefundInv, RequestInv, Busy, HasRefund
    <2>5. BookInv'
      BY <2>1, <2>2 DEF Validate, At, RefundInv, RequestInv, BookInv, Busy, HasRefund
    <2>6. QED
      BY <2>3, <2>4, <2>5 DEF RefundInv
  <1>3. QED
    BY <1>1, <1>2 DEF Validate

\* The provider's refund is new, so nobody has booked it.
LEMMA CallStep ==
    ASSUME RefundInv, NEW c \in Clients, CallGateway(c)
    PROVE  RefundInv'
  <1> DEFINE a == req[c].attempt
  <1>1. PICK moved \in BOOLEAN, answer \in {"success", "declined", "error"} :
          /\ answer = "success" => moved
          /\ refund' = IF moved THEN Append(refund, [attempt |-> a, booked |-> 0]) ELSE refund
          /\ Goes(c, answer, IF answer = "success" THEN Len(refund') ELSE 0)
    BY DEF CallGateway, Answers
  <1>2. /\ a \in Attempts /\ attempt[a].status # "none" /\ req[c].kopecks \in 1..Amount
        /\ req[c].at = "call" /\ refund \in Seq(Refund)
    BY DEF CallGateway, At, RefundInv, RequestInv, TableInv, Busy
  <1>3. /\ refund' \in Seq(Refund) /\ Len(refund) \in Nat /\ Len(refund') \in Nat
        /\ Len(refund) <= Len(refund')
        /\ \A h \in 1..Len(refund) : refund'[h] = refund[h]
        /\ \A h \in 1..Len(refund') : h \notin 1..Len(refund) =>
             refund'[h].attempt = a /\ refund'[h].booked = 0
        /\ moved => Len(refund') = Len(refund) + 1
    <2>1. CASE moved
      BY <1>1, <1>2, <2>1, MovedStep
    <2>2. CASE ~moved
      BY <1>1, <1>2, <2>2
    <2>3. QED
      BY <2>1, <2>2
  <1>4. /\ req' = [d \in Clients |-> req'[d]]
        /\ req'[c].at = answer /\ req'[c].attempt = a /\ req'[c].kopecks = req[c].kopecks
        /\ answer = "success" => req'[c].gateway = Len(refund) + 1
        /\ \A d \in Clients \ {c} : req'[d] = req[d]
    BY <1>1, <1>3, SetStep DEF Goes, RefundInv, RequestInv
  <1> HIDE DEF a
  <1>5. TableInv'
    <2>1. calls' \in [Attempts -> Nat]
      BY <1>2 DEF CallGateway, RefundInv, TableInv, a
    <2>2. QED
      BY <1>3, <2>1 DEF CallGateway, RefundInv, TableInv, Row
  <1>6. RequestInv'
    <2>1. \A d \in Clients \ {c} :
            /\ req[d].at # "idle" => req[d].kopecks \in 1..Amount
            /\ Busy(d) => req[d].attempt \in Attempts /\ attempt[req[d].attempt].status # "none"
            /\ HasRefund(d) => /\ req[d].gateway \in 1..Len(refund')
                               /\ refund'[req[d].gateway].attempt = req[d].attempt
      BY <1>3 DEF RefundInv, RequestInv
    <2>2. answer = "success" => /\ req'[c].gateway \in 1..Len(refund')
                                /\ refund'[req'[c].gateway].attempt = a
      BY <1>1, <1>3, <1>4
    <2>3. UNCHANGED attempt
      BY DEF CallGateway
    <2>4. ASSUME NEW d \in Clients
          PROVE  /\ req'[d].at # "idle" => req'[d].kopecks \in 1..Amount
                 /\ Busy(d)' => /\ req'[d].attempt \in Attempts
                                /\ attempt'[req'[d].attempt].status # "none"
                 /\ HasRefund(d)' => /\ req'[d].gateway \in 1..Len(refund')
                                     /\ refund'[req'[d].gateway].attempt = req'[d].attempt
      <3>1. CASE d = c
        <4>1. req'[c].kopecks \in 1..Amount /\ req'[c].attempt \in Attempts
          BY <1>2, <1>4
        <4>2. attempt'[req'[c].attempt].status # "none"
          BY <1>2, <1>4, <2>3
        <4>3. HasRefund(c)' => answer = "success"
          BY <1>1, <1>4 DEF HasRefund
        <4>4. QED
          BY <1>4, <2>2, <3>1, <4>1, <4>2, <4>3
      <3>2. CASE d # c
        BY <1>4, <2>1, <2>3, <3>2 DEF Busy, HasRefund
      <3>3. QED
        BY <3>1, <3>2
    <2>5. QED
      BY <1>4, <2>4 DEF RequestInv
  <1>7. BookInv'
    <2>1. \A d \in Clients : d # c /\ HasRefund(d) => req[d].gateway \in 1..Len(refund)
      BY DEF RefundInv, RequestInv
    <2>2. \A b \in Attempts : attempt[b].status = "gateway_succeeded_db_failed" =>
            attempt[b].gateway \in 1..Len(refund)
      <3>1. \A b \in Attempts : attempt[b].gateway \in Nat /\ attempt[b].gateway <= Len(refund)
        BY DEF RefundInv, TableInv, Row
      <3>2. QED
        BY <1>3, <3>1 DEF RefundInv, BookInv
    <2>3. \A g \in 1..Len(refund') : refund'[g].booked <= 1
      BY <1>3 DEF RefundInv, BookInv
    <2>4. answer = "success" => /\ refund'[req'[c].gateway].booked = 0
                                /\ req'[c].gateway \notin 1..Len(refund)
      BY <1>1, <1>3, <1>4
    <2>5. UNCHANGED attempt
      BY DEF CallGateway
    <2>6. \A d \in Clients : req'[d].at = "success" => refund'[req'[d].gateway].booked = 0
      BY <1>1, <1>3, <1>4, <2>1, <2>4 DEF RefundInv, BookInv, HasRefund, At
    <2>7. \A d \in Clients : req'[d].at = "db_failed" /\ refund'[req'[d].gateway].booked # 0
                             => attempt'[req'[d].attempt].reversal
      BY <1>1, <1>3, <1>4, <2>1, <2>5 DEF RefundInv, BookInv, HasRefund, At
    <2>8. \A d, e \in Clients : HasRefund(d)' /\ HasRefund(e)'
                                /\ req'[d].gateway = req'[e].gateway => d = e
      BY <1>1, <1>4, <2>1, <2>4 DEF RefundInv, BookInv, HasRefund
    <2>9. \A b \in Attempts : attempt'[b].status = "gateway_succeeded_db_failed" =>
            /\ ~attempt'[b].reversal /\ attempt'[b].gateway # 0
            /\ refund'[attempt'[b].gateway].attempt = b /\ refund'[attempt'[b].gateway].booked = 0
            /\ \A d \in Clients : HasRefund(d)' => req'[d].gateway # attempt'[b].gateway
      BY <1>1, <1>3, <1>4, <2>2, <2>4, <2>5 DEF RefundInv, BookInv, HasRefund
    <2>10. QED
      BY <2>3, <2>6, <2>7, <2>8, <2>9 DEF BookInv, At
  <1>8. QED
    BY <1>5, <1>6, <1>7 DEF RefundInv

\* A row that is refused keeps what is booked under it.
LEMMA RefusedStep ==
    ASSUME RefundInv, NEW c \in Clients, FinishRefused(c)
    PROVE  RefundInv'
  <1> DEFINE a == req[c].attempt
  <1>1. a \in Attempts /\ req[c].at \in Statuses /\ req[c].at \in {"declined", "error"}
    BY DEF FinishRefused, RefundInv, RequestInv, Busy, Statuses
  <1>2. /\ req' = [d \in Clients |-> req'[d]]
        /\ req'[c] = IdleReq
        /\ \A d \in Clients \ {c} : req'[d] = req[d]
    BY SetStep DEF FinishRefused, RefundInv, RequestInv
  <1>3. /\ attempt' \in [Attempts -> Row]
        /\ \A b \in Attempts : b # a => attempt'[b] = attempt[b]
        /\ attempt'[a].status \in {"declined", "error"}
        /\ attempt'[a].gateway = attempt[a].gateway /\ attempt'[a].reversal = attempt[a].reversal
    BY <1>1, RowStep DEF FinishRefused, RefundInv, TableInv
  <1> HIDE DEF a
  <1>4. TableInv'
    BY <1>1, <1>3 DEF FinishRefused, RefundInv, TableInv
  <1>5. RequestInv'
    BY <1>2, <1>3 DEF FinishRefused, RefundInv, RequestInv, Busy, HasRefund, IdleReq
  <1>6. BookInv'
    BY <1>2, <1>3 DEF FinishRefused, RefundInv, RequestInv, BookInv, Busy, HasRefund, At, IdleReq
  <1>7. QED
    BY <1>4, <1>5, <1>6 DEF RefundInv

\* The timer gives up on a row.
LEMMA TimeoutStep ==
    ASSUME RefundInv, NEW a \in Attempts, reconcilePendingTimeout(a)
    PROVE  RefundInv'
  <1>1. /\ attempt' \in [Attempts -> Row]
        /\ \A b \in Attempts : b # a => attempt'[b] = attempt[b]
        /\ attempt'[a].status = "error"
        /\ attempt'[a].gateway = attempt[a].gateway /\ attempt'[a].reversal = attempt[a].reversal
    BY RowStep DEF reconcilePendingTimeout, RefundInv, TableInv, Statuses
  <1>2. TableInv'
    BY <1>1 DEF reconcilePendingTimeout, RefundInv, TableInv
  <1>3. RequestInv'
    BY <1>1 DEF reconcilePendingTimeout, RefundInv, RequestInv, Busy, HasRefund
  <1>4. BookInv'
    BY <1>1 DEF reconcilePendingTimeout, RefundInv, RequestInv, BookInv, Busy, HasRefund, At
  <1>5. QED
    BY <1>2, <1>3, <1>4 DEF RefundInv

\* A refund that fits is booked, and its row carries the reversal; nobody else
\* was going to book it.
LEMMA BookedStep ==
    ASSUME RefundInv, NEW a \in Attempts, NEW g \in 1..Len(refund), NEW n \in 0..Amount,
           Fits(n), Book(n, g), markAttemptSucceeded(a, g),
           refund[g].attempt = a, refund[g].booked = 0,
           req' = [d \in Clients |-> req'[d]],
           \A d \in Clients : \/ req'[d] = req[d] /\ (HasRefund(d) => req[d].gateway # g)
                              \/ req'[d] = IdleReq
                              \/ /\ req'[d].at = "db_failed" /\ At(d, "success")
                                 /\ req'[d].attempt = a /\ req'[d].gateway = g
                                 /\ req'[d].kopecks = req[d].kopecks
                                 /\ req[d].gateway = g,
           \A b \in Attempts \ {a} : attempt[b].status = "gateway_succeeded_db_failed"
                                     => attempt[b].gateway # g,
           UNCHANGED <<sends, calls>>, faults' \in 0..MaxFaults
    PROVE  RefundInv'
  <1>1. refund \in Seq(Refund) /\ Len(refund) \in Nat
    BY DEF RefundInv, TableInv
  <1>2. /\ refund' \in Seq(Refund) /\ Len(refund') = Len(refund)
        /\ \A h \in 1..Len(refund) : /\ refund'[h].attempt = refund[h].attempt
                                     /\ h # g => refund'[h] = refund[h]
        /\ refund'[g].booked = 1
    BY <1>1, BookStep
  <1>3. /\ attempt' \in [Attempts -> Row]
        /\ \A b \in Attempts : b # a => attempt'[b] = attempt[b]
        /\ attempt'[a].status = "succeeded" /\ attempt'[a].gateway = g
        /\ attempt'[a].reversal
    BY <1>1, RowStep DEF RefundInv, TableInv
  <1>4. TableInv'
    <2>1. reversed' \in 0..Amount
      BY RefundAssumption DEF RefundInv, TableInv, Fits, Book
    <2>2. QED
      BY SMTT(30), <1>1, <1>2, <1>3, <2>1 DEF RefundInv, TableInv
  <1>5. RequestInv'
    <2>1. ASSUME NEW d \in Clients
          PROVE  /\ req'[d].at # "idle" => req'[d].kopecks \in 1..Amount
                 /\ Busy(d)' => /\ req'[d].attempt \in Attempts
                                /\ attempt'[req'[d].attempt].status # "none"
                 /\ HasRefund(d)' => /\ req'[d].gateway \in 1..Len(refund')
                                     /\ refund'[req'[d].gateway].attempt = req'[d].attempt
      <3>1. CASE req'[d] = req[d]
        BY SMTT(30), <1>2, <1>3, <3>1 DEF RefundInv, RequestInv, Busy, HasRefund
      <3>2. CASE req'[d] = IdleReq
        BY <3>2 DEF IdleReq, Busy, HasRefund
      <3>3. CASE req'[d].at = "db_failed" /\ At(d, "success") /\ req'[d].attempt = a
                 /\ req'[d].gateway = g /\ req'[d].kopecks = req[d].kopecks
        BY <1>2, <1>3, <3>3 DEF RefundInv, RequestInv, Busy, HasRefund, At
      <3>4. QED
        BY <3>1, <3>2, <3>3
    <2>2. QED
      BY <2>1 DEF RequestInv
  <1>6. BookInv'
    <2>1. \A h \in 1..Len(refund') : refund'[h].booked <= 1
      BY <1>2 DEF RefundInv, BookInv
    <2>2. \A d \in Clients : req'[d].at = "success" => refund'[req'[d].gateway].booked = 0
      BY <1>2 DEF RefundInv, RequestInv, BookInv, HasRefund, At, IdleReq
    <2>3. \A d \in Clients : req'[d].at = "db_failed" /\ refund'[req'[d].gateway].booked # 0
                             => attempt'[req'[d].attempt].reversal
      BY <1>2, <1>3 DEF RefundInv, RequestInv, BookInv, Busy, HasRefund, At, IdleReq
    <2>4. \A d \in Clients : HasRefund(d)' => HasRefund(d) /\ req'[d].gateway = req[d].gateway
      BY DEF HasRefund, At, IdleReq
    <2>5. \A d, e \in Clients : HasRefund(d)' /\ HasRefund(e)'
                                /\ req'[d].gateway = req'[e].gateway => d = e
      BY <2>4 DEF RefundInv, BookInv
    <2>6. \A b \in Attempts : attempt'[b].status = "gateway_succeeded_db_failed" =>
            /\ ~attempt'[b].reversal /\ attempt'[b].gateway # 0
            /\ refund'[attempt'[b].gateway].attempt = b /\ refund'[attempt'[b].gateway].booked = 0
            /\ \A d \in Clients : HasRefund(d)' => req'[d].gateway # attempt'[b].gateway
      <3>1. SUFFICES ASSUME NEW b \in Attempts,
                            attempt'[b].status = "gateway_succeeded_db_failed"
                     PROVE  /\ ~attempt'[b].reversal /\ attempt'[b].gateway # 0
                            /\ refund'[attempt'[b].gateway].attempt = b
                            /\ refund'[attempt'[b].gateway].booked = 0
                            /\ \A d \in Clients : HasRefund(d)' => req'[d].gateway # attempt'[b].gateway
        OBVIOUS
      <3>2. b # a /\ attempt'[b] = attempt[b] /\ attempt[b].gateway # g
        BY <1>3, <3>1
      <3>3. attempt[b].gateway \in Nat /\ attempt[b].gateway <= Len(refund)
        BY DEF RefundInv, TableInv, Row
      <3>4. attempt[b].gateway \in 1..Len(refund)
        BY <1>1, <3>1, <3>2, <3>3 DEF RefundInv, BookInv
      <3>5. QED
        BY <1>2, <2>4, <3>1, <3>2, <3>4 DEF RefundInv, BookInv
    <2>7. QED
      BY <2>1, <2>2, <2>3, <2>5, <2>6 DEF BookInv, At
  <1>7. QED
    BY <1>4, <1>5, <1>6 DEF RefundInv

\* Phase 3 of a success, whether or not its commit is heard of.
LEMMA FinishStep ==
    ASSUME RefundInv, NEW c \in Clients, BookReversal(c),
           Set(c, IdleReq) \/ Goes(c, "db_failed", req[c].gateway),
           UNCHANGED <<sends, calls>>, faults' \in 0..MaxFaults
    PROVE  RefundInv'
  <1> DEFINE a == req[c].attempt  g == req[c].gateway
  <1>1. /\ a \in Attempts /\ g \in 1..Len(refund) /\ refund[g].attempt = a
        /\ refund[g].booked = 0 /\ req[c].kopecks \in 1..Amount
        /\ req[c].at = "success" /\ HasRefund(c)
    BY DEF BookReversal, At, RefundInv, RequestInv, BookInv, Busy, HasRefund
  <1>2. /\ req' = [d \in Clients |-> req'[d]]
        /\ \/ req'[c] = IdleReq
           \/ /\ req'[c].at = "db_failed" /\ req'[c].attempt = a /\ req'[c].gateway = g
              /\ req'[c].kopecks = req[c].kopecks
        /\ \A d \in Clients \ {c} : req'[d] = req[d]
    BY SetStep DEF Goes, RefundInv, RequestInv
  <1>3. \A d \in Clients \ {c} : HasRefund(d) => req[d].gateway # g
    BY <1>1 DEF RefundInv, BookInv
  <1>4. \A b \in Attempts : attempt[b].status = "gateway_succeeded_db_failed"
                            => attempt[b].gateway # g
    BY <1>1 DEF RefundInv, BookInv
  <1>5. Fits(req[c].kopecks) /\ Book(req[c].kopecks, g) /\ markAttemptSucceeded(a, g)
    BY DEF BookReversal
  <1>6. req[c].kopecks \in 0..Amount
    BY <1>1
  <1> HIDE DEF a, g
  <1>7. \A d \in Clients : \/ req'[d] = req[d] /\ (HasRefund(d) => req[d].gateway # g)
                           \/ req'[d] = IdleReq
                           \/ /\ req'[d].at = "db_failed" /\ At(d, "success")
                              /\ req'[d].attempt = a /\ req'[d].gateway = g
                              /\ req'[d].kopecks = req[d].kopecks
                              /\ req[d].gateway = g
    BY <1>1, <1>2, <1>3 DEF At, g
  <1>8. QED
    BY <1>1, <1>2, <1>4, <1>5, <1>6, <1>7, BookedStep

\* The timer books what a request could not.
LEMMA ReconcileStep ==
    ASSUME RefundInv, NEW a \in Attempts, reconcileGatewaySucceededDbFailed(a)
    PROVE  RefundInv'
  <1> DEFINE g == attempt[a].gateway  n == attempt[a].kopecks
  <1>1. g \in Nat /\ g <= Len(refund) /\ n \in 0..Amount /\ Len(refund) \in Nat
    BY DEF RefundInv, TableInv, Row
  <1>2. /\ g # 0 /\ refund[g].attempt = a /\ refund[g].booked = 0
        /\ \A d \in Clients : HasRefund(d) => req[d].gateway # g
    BY DEF reconcileGatewaySucceededDbFailed, RefundInv, BookInv
  <1>3. \A b \in Attempts \ {a} : attempt[b].status = "gateway_succeeded_db_failed"
                                  => attempt[b].gateway # g
    BY <1>2 DEF RefundInv, BookInv
  <1>4. /\ Fits(n) /\ Book(n, g) /\ markAttemptSucceeded(a, g)
        /\ UNCHANGED <<req, sends, calls, faults>>
    BY DEF reconcileGatewaySucceededDbFailed
  <1>5. g \in 1..Len(refund)
    BY <1>1, <1>2
  <1>6. req' = [d \in Clients |-> req'[d]] /\ faults' \in 0..MaxFaults
    BY <1>4 DEF RefundInv, RequestInv, TableInv
  <1> HIDE DEF g, n
  <1>7. QED
    BY <1>1, <1>2, <1>3, <1>4, <1>5, <1>6, BookedStep

\* A request that could not book remembers its refund.
LEMMA ThrowsStep ==
    ASSUME RefundInv, NEW c \in Clients, FinishThrows(c)
    PROVE  RefundInv'
  <1>1. faults' \in 0..MaxFaults
    BY RefundAssumption DEF FinishThrows, Fault, RefundInv, TableInv
  <1>2. CASE BookReversal(c)
    BY <1>1, <1>2, FinishStep DEF FinishThrows
  <1>3. CASE UNCHANGED <<attempt, reversed, refund>>
    <2>1. /\ req' = [d \in Clients |-> req'[d]]
          /\ req'[c].at = "db_failed" /\ req'[c].attempt = req[c].attempt
          /\ req'[c].gateway = req[c].gateway /\ req'[c].kopecks = req[c].kopecks
          /\ \A d \in Clients \ {c} : req'[d] = req[d]
      BY SetStep DEF FinishThrows, Goes, RefundInv, RequestInv
    <2>2. req[c].at = "success"
      BY DEF FinishThrows, At
    <2>3. TableInv'
      BY <1>1, <1>3 DEF FinishThrows, RefundInv, TableInv
    <2>4. \A d \in Clients : /\ HasRefund(d)' <=> HasRefund(d)
                             /\ Busy(d)' <=> Busy(d)
                             /\ HasRefund(d) => req'[d].gateway = req[d].gateway
                             /\ Busy(d) => req'[d].attempt = req[d].attempt
                             /\ req'[d].at # "idle" => req[d].at # "idle"
                             /\ req'[d].at # "idle" => req'[d].kopecks = req[d].kopecks
      BY <2>1, <2>2 DEF Busy, HasRefund
    <2>5. RequestInv'
      <3>1. \A d \in Clients : HasRefund(d) => Busy(d)
        BY DEF HasRefund, Busy
      <3>2. QED
        BY <1>3, <2>1, <2>4, <3>1 DEF RefundInv, RequestInv
    <2>6. BookInv'
      BY <1>3, <2>1, <2>2, <2>4 DEF RefundInv, BookInv, At
    <2>7. QED
      BY <2>3, <2>5, <2>6 DEF RefundInv
  <1>4. QED
    BY <1>2, <1>3 DEF FinishThrows

\* A row is flagged for the timer only when the request's refund is not booked.
LEMMA DbFailedStep ==
    ASSUME RefundInv, NEW c \in Clients, MarkDbFailed(c)
    PROVE  RefundInv'
  <1> DEFINE a == req[c].attempt  g == req[c].gateway
  <1>1. /\ a \in Attempts /\ g \in 1..Len(refund) /\ refund[g].attempt = a
        /\ refund[g].booked # 0 => attempt[a].reversal
        /\ req[c].at = "db_failed" /\ HasRefund(c) /\ Len(refund) \in Nat
    BY DEF MarkDbFailed, At, RefundInv, RequestInv, TableInv, BookInv, Busy, HasRefund
  <1>2. /\ req' = [d \in Clients |-> req'[d]]
        /\ req'[c] = IdleReq
        /\ \A d \in Clients \ {c} : req'[d] = req[d]
    BY SetStep DEF MarkDbFailed, RefundInv, RequestInv
  <1>3. CASE attempt[a].reversal
    <2>1. UNCHANGED attempt
      BY <1>3 DEF MarkDbFailed, markAttemptGatewaySucceededDbFailed
    <2>2. QED
      BY <2>1, IdleStep DEF MarkDbFailed, IdleReq, RefundInv, TableInv
  <1>4. CASE ~attempt[a].reversal
    <2>1. /\ attempt' \in [Attempts -> Row]
          /\ \A b \in Attempts : b # a => attempt'[b] = attempt[b]
          /\ attempt'[a].status = "gateway_succeeded_db_failed"
          /\ attempt'[a].gateway = g /\ ~attempt'[a].reversal
      <3>1. g \in Nat
        BY <1>1
      <3>2. QED
        BY <1>1, <1>4, <3>1, RowStep DEF MarkDbFailed, RefundInv, TableInv
    <2> HIDE DEF a, g
    <2>2. TableInv'
      BY <1>1, <2>1 DEF MarkDbFailed, RefundInv, TableInv
    <2>3. RequestInv'
      BY <1>2, <2>1 DEF MarkDbFailed, RefundInv, RequestInv, Busy, HasRefund, IdleReq
    <2>4. BookInv'
      <3>1. \A d \in Clients : HasRefund(d)' => d # c /\ HasRefund(d) /\ req'[d] = req[d]
        BY <1>2 DEF HasRefund, IdleReq
      <3>2. \A d \in Clients : HasRefund(d)' => req'[d].gateway # g
        BY <1>1, <3>1 DEF RefundInv, BookInv, g
      <3>3. UNCHANGED refund
        BY DEF MarkDbFailed
      <3>4. \A b \in Attempts : attempt'[b].status = "gateway_succeeded_db_failed" =>
              /\ ~attempt'[b].reversal /\ attempt'[b].gateway # 0
              /\ refund'[attempt'[b].gateway].attempt = b
              /\ refund'[attempt'[b].gateway].booked = 0
              /\ \A d \in Clients : HasRefund(d)' => req'[d].gateway # attempt'[b].gateway
        <4>1. SUFFICES ASSUME NEW b \in Attempts,
                              attempt'[b].status = "gateway_succeeded_db_failed"
                       PROVE  /\ ~attempt'[b].reversal /\ attempt'[b].gateway # 0
                              /\ refund'[attempt'[b].gateway].attempt = b
                              /\ refund'[attempt'[b].gateway].booked = 0
                              /\ \A d \in Clients : HasRefund(d)'
                                                    => req'[d].gateway # attempt'[b].gateway
          OBVIOUS
        <4>2. CASE b = a
          BY <1>1, <1>4, <2>1, <3>2, <3>3, <4>2
        <4>3. CASE b # a
          BY <2>1, <3>1, <3>3, <4>1, <4>3 DEF RefundInv, BookInv
        <4>4. QED
          BY <4>2, <4>3
      <3>5. \A d \in Clients : req'[d].at = "db_failed" /\ refund'[req'[d].gateway].booked # 0
                               => attempt'[req'[d].attempt].reversal
        <4>1. SUFFICES ASSUME NEW d \in Clients, req'[d].at = "db_failed",
                              refund'[req'[d].gateway].booked # 0
                       PROVE  attempt'[req'[d].attempt].reversal
          OBVIOUS
        <4>2. req'[d] = req[d] /\ req[d].attempt \in Attempts
          BY <1>2, <4>1 DEF IdleReq, RefundInv, RequestInv, Busy
        <4>3. attempt[req[d].attempt].reversal
          BY <3>3, <4>1, <4>2 DEF RefundInv, BookInv, At
        <4>4. QED
          BY <1>4, <2>1, <4>2, <4>3
      <3>6. QED
        BY <1>2, <3>1, <3>3, <3>4, <3>5 DEF RefundInv, BookInv, At, IdleReq
    <2>5. QED
      BY <2>2, <2>3, <2>4 DEF RefundInv
  <1>5. QED
    BY <1>3, <1>4

-----------------------------------------------------------------------------
(* The theorems.                                                           *)

\* The tables are empty at first.
LEMMA RefundInitial == Init => RefundInv
  <1>1. Init => TableInv
    BY RefundAssumption DEF Init, TableInv, NoRow, Row, Statuses
  <1>2. Init => RequestInv
    BY DEF Init, RequestInv, IdleReq, Busy, HasRefund
  <1>3. Init => BookInv
    BY DEF Init, BookInv, IdleReq, HasRefund, At, NoRow
  <1>4. QED
    BY <1>1, <1>2, <1>3 DEF RefundInv

\* Every step keeps the invariant.
LEMMA RefundStep ==
    ASSUME RefundInv, [Next]_vars
    PROVE  RefundInv'
  <1>1. CASE UNCHANGED vars
    BY <1>1 DEF vars, RefundInv, TableInv, RequestInv, BookInv, Busy, HasRefund, At
  <1>2. ASSUME NEW c \in Clients, RequestStep(c) PROVE RefundInv'
    <2>1. CASE Finish(c)
      BY <2>1, FinishStep DEF Finish, RefundInv, TableInv
    <2>2. QED
      BY <1>2, <2>1, ValidateStep, CallStep, RefusedStep, ThrowsStep, DbFailedStep
         DEF RequestStep
  <1>3. ASSUME NEW c \in Clients, Dies(c) PROVE RefundInv'
    BY <1>3, DiesStep
  <1>4. ASSUME NEW c \in Clients, NEW n \in 1..Amount, Send(c, n) PROVE RefundInv'
    BY <1>4, SendStep
  <1>5. ASSUME NEW n \in 1..Amount, RecordManually(n) PROVE RefundInv'
    BY <1>5, ManualStep
  <1>6. ASSUME NEW a \in Attempts, runRefundReconcile(a) PROVE RefundInv'
    BY <1>6, ReconcileStep, TimeoutStep DEF runRefundReconcile
  <1>7. QED
    BY <1>1, <1>2, <1>3, <1>4, <1>5, <1>6 DEF Next

\* The inductive invariant holds of every reachable state.
THEOREM RefundInvariant == Spec => []RefundInv
  <1>1. RefundInv /\ [Next]_vars => RefundInv'
    BY RefundStep
  <1>2. QED
    BY <1>1, RefundInitial, PTL DEF Spec

\* Reversals never exceed what was paid, for any payment, any number of
\* operators, requests, attempts and faults, whatever keys they send.
THEOREM NeverBeyondAllocation == Spec => []ReversedWithinAllocation
  <1>1. RefundInv => ReversedWithinAllocation
    BY RefundAssumption DEF RefundInv, TableInv, ReversedWithinAllocation
  <1>2. QED
    BY <1>1, RefundInvariant, PTL

\* A refund of the provider is booked once, though its commit is lost and the
\* timer finds its row, and though two requests share an attempt.
THEOREM NeverBookedTwice == Spec => []RefundBookedOnce
  <1>1. RefundInv => RefundBookedOnce
    BY DEF RefundInv, BookInv, RefundBookedOnce
  <1>2. QED
    BY <1>1, RefundInvariant, PTL

\* Every step keeps the tables within their types.
THEOREM RefundTypeCorrect == Spec => []TypeOK
  <1>1. RefundInv => TypeOK
    <2> SUFFICES ASSUME RefundInv PROVE TypeOK
      OBVIOUS
    <2>1. refund \in Seq(Refund) /\ Len(refund) \in Nat
      BY DEF RefundInv, TableInv
    <2>2. attempt \in [Attempts -> [status : Statuses, key : {Key[c] : c \in Clients} \cup {NoKey},
                                    kopecks : 0..Amount, gateway : 0..Len(refund),
                                    reversal : BOOLEAN]]
      <3>1. \A a \in Attempts : attempt[a] \in Row /\ attempt[a].gateway <= Len(refund)
        BY DEF RefundInv, TableInv
      <3>2. \A a \in Attempts : attempt[a] \in
              [status : Statuses, key : {Key[c] : c \in Clients} \cup {NoKey},
               kopecks : 0..Amount, gateway : 0..Len(refund), reversal : BOOLEAN]
        BY <2>1, <3>1 DEF Row
      <3>3. QED
        BY <3>2 DEF RefundInv, TableInv
    <2>3. \A g \in 1..Len(refund) : refund[g].attempt \in Attempts /\ refund[g].booked \in Nat
      <3>1. \A g \in 1..Len(refund) : refund[g] \in Refund
        BY <2>1
      <3>2. QED
        BY <3>1 DEF Refund
    <2>4. QED
      BY <2>2, <2>3, RefundAssumption DEF RefundInv, TableInv, TypeOK
  <1>2. QED
    BY <1>1, RefundInvariant, PTL

-----------------------------------------------------------------------------
(* One call per attempt, and no money forgotten: no two clients send one   *)
(* key.                                                                    *)

\* A request that found no attempt of its key is right as long as it waits,
\* because only it can write one.
KeyInv == \A c \in Clients : At(c, "validate") => WithKey(c) = {}

\* An attempt is in the hands of one request, which has not called yet when it
\* is about to.
CallInv ==
    /\ \A c \in Clients : At(c, "call") => calls[req[c].attempt] = 0
    /\ \A c, d \in Clients : Busy(c) /\ Busy(d) /\ req[c].attempt = req[d].attempt => c = d
    /\ \A a \in Attempts : attempt[a].status = "none" => calls[a] = 0
    /\ \A a \in Attempts : calls[a] <= 1

\* The row of a request that is about to call is pending, or the timer gave up
\* on it.
CallingInv == \A c \in Clients : At(c, "call") => attempt[req[c].attempt].status \in {"pending", "error"}

\* An attempt moves money once, and not when the provider declined.
MoneyInv ==
    /\ \A g \in 1..Len(refund) : calls[refund[g].attempt] # 0
    /\ \A g, h \in 1..Len(refund) : refund[g].attempt = refund[h].attempt => g = h
    /\ \A c \in Clients, g \in 1..Len(refund) : At(c, "declined") => refund[g].attempt # req[c].attempt
    /\ RefundAccountedFor

\* The second inductive invariant.
OnceInv == RefundInv /\ KeyInv /\ CallInv /\ CallingInv /\ MoneyInv

\* A step that neither calls the provider nor creates a row.
LEMMA OnceFrame ==
    ASSUME OnceInv, RefundInv', UNCHANGED calls,
           Len(refund') = Len(refund),
           \A g \in 1..Len(refund) : refund'[g].attempt = refund[g].attempt,
           \A b \in Attempts : /\ attempt'[b].status = "none" <=> attempt[b].status = "none"
                               /\ attempt'[b].key = attempt[b].key,
           \A d \in Clients : \/ req'[d] = req[d]
                              \/ req'[d].at = "idle"
                              \/ req'[d].at = "validate" /\ WithKey(d) = {}
                              \/ /\ req'[d].at = "db_failed" /\ Busy(d)
                                 /\ req'[d].attempt = req[d].attempt,
           CallingInv', RefundAccountedFor'
    PROVE  OnceInv'
  <1>1. KeyInv'
    <2>1. \A d \in Clients : WithKey(d)' = WithKey(d)
      BY DEF WithKey
    <2>2. \A d \in Clients : At(d, "validate")' => WithKey(d) = {}
      BY DEF At, OnceInv, KeyInv
    <2>3. QED
      BY <2>1, <2>2 DEF KeyInv
  <1>2. \A d \in Clients : Busy(d)' => Busy(d) /\ req'[d].attempt = req[d].attempt
    BY DEF Busy
  <1>3. CallInv'
    <2>1. \A d \in Clients : req'[d].at = "call" => req[d].at = "call" /\ req'[d] = req[d]
      OBVIOUS
    <2>2. QED
      BY <1>2, <2>1 DEF OnceInv, CallInv, At
  <1>4. MoneyInv'
    <2>1. \A d \in Clients : req'[d].at = "declined" => req[d].at = "declined" /\ req'[d] = req[d]
      OBVIOUS
    <2>2. QED
      BY <2>1 DEF OnceInv, MoneyInv, At
  <1>5. QED
    BY <1>1, <1>3, <1>4 DEF OnceInv

\* The attempt that a request gets is a new one.
LEMMA OnceValidate ==
    ASSUME DistinctKeys, OnceInv, RefundInv', NEW c \in Clients, Validate(c)
    PROVE  OnceInv'
  <1>1. WithKey(c) = {}
    BY DEF Validate, OnceInv, KeyInv
  <1>2. CASE Set(c, IdleReq) /\ UNCHANGED attempt
    <2>1. req'[c] = IdleReq /\ \A d \in Clients \ {c} : req'[d] = req[d]
      BY <1>2, SetStep DEF OnceInv, RefundInv, RequestInv
    <2>2. RefundAccountedFor'
      BY <1>2 DEF Validate, OnceInv, MoneyInv, RefundAccountedFor
    <2>3. CallingInv'
      BY <1>2, <2>1 DEF OnceInv, CallingInv, At, IdleReq
    <2>4. QED
      BY <1>2, <2>1, <2>2, <2>3, OnceFrame DEF Validate, IdleReq
  <1>3. ASSUME NEW a \in Attempts, createPendingRefundAttempt(c, a, req[c].kopecks),
               Set(c, [at |-> "call", attempt |-> a, kopecks |-> req[c].kopecks])
        PROVE  OnceInv'
    <2>1. /\ req'[c].at = "call" /\ req'[c].attempt = a
          /\ \A d \in Clients \ {c} : req'[d] = req[d]
      BY <1>3, SetStep DEF OnceInv, RefundInv, RequestInv
    <2>2. /\ attempt[a].status = "none" /\ attempt'[a].status = "pending" /\ attempt'[a].key = Key[c]
          /\ \A b \in Attempts : b # a => attempt'[b] = attempt[b]
      BY <1>1, <1>3 DEF createPendingRefundAttempt, NoRow, OnceInv, RefundInv, TableInv
    <2>3. UNCHANGED <<refund, calls>>
      BY DEF Validate
    <2>4. \A d \in Clients : d # c /\ Busy(d) => req[d].attempt # a
      BY <2>2 DEF OnceInv, RefundInv, RequestInv
    <2>5. KeyInv'
      <3>1. SUFFICES ASSUME NEW d \in Clients, At(d, "validate")' PROVE WithKey(d)' = {}
        BY DEF KeyInv
      <3>2. d # c /\ At(d, "validate")
        BY <2>1, <3>1 DEF At
      <3>3. WithKey(d) = {}
        BY <3>2 DEF OnceInv, KeyInv
      <3>4. Key[d] # NoKey => Key[c] # Key[d]
        BY <3>2 DEF DistinctKeys
      <3>5. QED
        BY <2>2, <3>3, <3>4 DEF WithKey
    <2>6. CallInv'
      <3>1. \A d \in Clients : d # c => (Busy(d)' <=> Busy(d)) /\ req'[d] = req[d]
        BY <2>1 DEF Busy
      <3>2. \A b \in Attempts : attempt'[b].status = "none" => attempt[b].status = "none"
        BY <2>2
      <3>3. \A d, e \in Clients : Busy(d)' /\ Busy(e)' /\ req'[d].attempt = req'[e].attempt => d = e
        BY <2>1, <2>4, <3>1 DEF OnceInv, CallInv
      <3>4. \A d \in Clients : req'[d].at = "call" => calls'[req'[d].attempt] = 0
        BY <2>1, <2>2, <2>3 DEF OnceInv, CallInv, At
      <3>5. QED
        BY <2>3, <3>2, <3>3, <3>4 DEF OnceInv, CallInv, At
    <2>7. MoneyInv'
      <3>1. \A g \in 1..Len(refund) : refund[g].attempt \in Attempts
        <4>1. \A g \in 1..Len(refund) : refund[g] \in Refund
          BY DEF OnceInv, RefundInv, TableInv
        <4>2. QED
          BY <4>1 DEF Refund
      <3>2. \A g \in 1..Len(refund) : refund[g].attempt # a
        BY <2>2, <3>1 DEF OnceInv, CallInv, MoneyInv
      <3>3. RefundAccountedFor'
        BY <2>2, <2>3, <3>1, <3>2 DEF OnceInv, MoneyInv, RefundAccountedFor
      <3>4. QED
        BY <2>1, <2>3, <3>3 DEF OnceInv, MoneyInv, At
    <2>8. CallingInv'
      <3>1. \A d \in Clients : req'[d].at = "call" => d = c \/ (Busy(d) /\ At(d, "call") /\ req'[d] = req[d])
        BY <2>1 DEF Busy, At
      <3>2. \A d \in Clients : Busy(d) => req[d].attempt \in Attempts
        BY DEF OnceInv, RefundInv, RequestInv
      <3>3. ASSUME NEW d \in Clients, req'[d].at = "call"
            PROVE  attempt'[req'[d].attempt].status \in {"pending", "error"}
        <4>1. CASE d = c
          BY <2>1, <2>2, <4>1
        <4>2. CASE d # c
          BY <2>2, <2>4, <3>1, <3>2, <3>3, <4>2 DEF OnceInv, CallingInv
        <4>3. QED
          BY <4>1, <4>2
      <3>4. QED
        BY <3>3 DEF CallingInv, At
    <2>9. QED
      BY <2>5, <2>6, <2>7, <2>8 DEF OnceInv
  <1>4. QED
    BY <1>2, <1>3 DEF Validate

\* The attempt's only call: its refund is the first of the attempt.
LEMMA OnceCall ==
    ASSUME OnceInv, RefundInv', NEW c \in Clients, CallGateway(c)
    PROVE  OnceInv'
  <1> DEFINE a == req[c].attempt
  <1>1. PICK moved \in BOOLEAN, answer \in {"success", "declined", "error"} :
          /\ answer = "declined" => ~moved
          /\ refund' = IF moved THEN Append(refund, [attempt |-> a, booked |-> 0]) ELSE refund
          /\ Goes(c, answer, IF answer = "success" THEN Len(refund') ELSE 0)
    BY DEF CallGateway, Answers
  <1>2. /\ a \in Attempts /\ attempt[a].status # "none" /\ calls[a] = 0
        /\ Busy(c) /\ refund \in Seq(Refund) /\ Len(refund) \in Nat
    BY DEF CallGateway, At, OnceInv, CallInv, RefundInv, RequestInv, TableInv, Busy
  <1>3. /\ calls'[a] = 1
        /\ \A b \in Attempts : b # a => calls'[b] = calls[b]
    BY <1>2 DEF CallGateway, OnceInv, RefundInv, TableInv
  <1>4. /\ req'[c].at = answer /\ req'[c].attempt = a
        /\ \A d \in Clients \ {c} : req'[d] = req[d]
    BY <1>1, SetStep DEF Goes, OnceInv, RefundInv, RequestInv
  <1>5. UNCHANGED attempt
    BY DEF CallGateway
  <1>6. \A g \in 1..Len(refund) : refund[g].attempt \in Attempts /\ refund[g].attempt # a
    <2>1. \A g \in 1..Len(refund) : refund[g] \in Refund
      BY <1>2
    <2>2. QED
      BY <1>2, <2>1 DEF OnceInv, MoneyInv, Refund
  <1>7. \A d \in Clients : d # c /\ Busy(d) => req[d].attempt \in Attempts /\ req[d].attempt # a
    BY <1>2 DEF OnceInv, CallInv, RefundInv, RequestInv
  <1> HIDE DEF a
  <1>8. KeyInv'
    <2>1. \A d \in Clients : WithKey(d)' = WithKey(d)
      BY <1>5 DEF WithKey
    <2>2. QED
      BY <1>1, <1>4, <2>1 DEF OnceInv, KeyInv, At
  <1>9. CallInv'
    <2>1. \A d \in Clients : req'[d].at = "call" => calls'[req'[d].attempt] = 0
      <3>1. SUFFICES ASSUME NEW d \in Clients, req'[d].at = "call"
                     PROVE  calls'[req'[d].attempt] = 0
        OBVIOUS
      <3>2. d # c /\ req'[d] = req[d] /\ Busy(d) /\ At(d, "call")
        BY <1>1, <1>4, <3>1 DEF Busy, At
      <3>3. calls[req[d].attempt] = 0
        BY <3>2 DEF OnceInv, CallInv
      <3>4. QED
        BY <1>3, <1>7, <3>2, <3>3
    <2>2. \A d \in Clients : Busy(d)' => Busy(d) /\ req'[d].attempt = req[d].attempt
      BY <1>1, <1>2, <1>4 DEF Busy, a
    <2>3. \A b \in Attempts : attempt'[b].status = "none" => calls'[b] = 0
      BY <1>2, <1>3, <1>5 DEF OnceInv, CallInv
    <2>4. \A b \in Attempts : calls'[b] <= 1
      BY <1>3 DEF OnceInv, CallInv
    <2>5. \A d, e \in Clients : Busy(d)' /\ Busy(e)' /\ req'[d].attempt = req'[e].attempt => d = e
      BY <2>2 DEF OnceInv, CallInv
    <2>6. QED
      BY <2>1, <2>3, <2>4, <2>5 DEF CallInv, At
  <1>10. MoneyInv'
    <2>1. CASE ~moved
      <3>1. UNCHANGED refund
        BY <1>1, <2>1
      <3>2. \A g \in 1..Len(refund) : calls'[refund[g].attempt] # 0
        BY <1>3, <1>6 DEF OnceInv, MoneyInv
      <3>3. \A d \in Clients, g \in 1..Len(refund) : req'[d].at = "declined"
                                                     => refund[g].attempt # req'[d].attempt
        BY <1>4, <1>6 DEF OnceInv, MoneyInv, At
      <3>4. RefundAccountedFor'
        BY <1>5, <3>1 DEF OnceInv, MoneyInv, RefundAccountedFor
      <3>5. QED
        BY <3>1, <3>2, <3>3, <3>4 DEF OnceInv, MoneyInv, At
    <2>2. CASE moved
      <3>1. /\ Len(refund') = Len(refund) + 1
            /\ \A h \in 1..Len(refund) : refund'[h] = refund[h]
            /\ refund'[Len(refund) + 1] = [attempt |-> a, booked |-> 0]
        BY <1>1, <1>2, <2>2, MovedStep
      <3>2. \A g \in 1..Len(refund') :
              \/ g \in 1..Len(refund) /\ refund'[g] = refund[g] /\ refund'[g].attempt # a
              \/ g = Len(refund) + 1 /\ refund'[g].attempt = a
        BY <1>2, <1>6, <3>1
      <3>3. \A g \in 1..Len(refund') : calls'[refund'[g].attempt] # 0
        BY <1>3, <1>6, <3>2 DEF OnceInv, MoneyInv
      <3>4. \A g, h \in 1..Len(refund') : refund'[g].attempt = refund'[h].attempt => g = h
        BY <3>2 DEF OnceInv, MoneyInv
      <3>5. \A d \in Clients, g \in 1..Len(refund') : req'[d].at = "declined"
                                                      => refund'[g].attempt # req'[d].attempt
        <4>1. \A d \in Clients : req'[d].at = "declined"
                                 => d # c /\ req'[d] = req[d] /\ Busy(d) /\ At(d, "declined")
          BY <1>1, <1>4, <2>2 DEF Busy, At
        <4>2. QED
          BY <1>7, <3>2, <4>1 DEF OnceInv, MoneyInv
      <3>6. attempt[a].status \in {"pending", "error"}
        BY DEF CallGateway, OnceInv, CallingInv, a
      <3>7. RefundAccountedFor'
        BY <1>5, <3>2, <3>6 DEF OnceInv, MoneyInv, RefundAccountedFor
      <3>8. QED
        BY <3>3, <3>4, <3>5, <3>7 DEF MoneyInv, At
    <2>3. QED
      BY <2>1, <2>2
  <1>11. CallingInv'
    BY <1>1, <1>4, <1>5 DEF OnceInv, CallingInv, At
  <1>12. QED
    BY <1>8, <1>9, <1>10, <1>11 DEF OnceInv

\* Only the request that holds an attempt, and the timer, write its row.
LEMMA OthersCalling ==
    ASSUME OnceInv, NEW c \in Clients, Busy(c), ~At(c, "call"),
           \A b \in Attempts : b # req[c].attempt => attempt'[b] = attempt[b],
           \A d \in Clients \ {c} : req'[d] = req[d], req'[c].at # "call"
    PROVE  CallingInv'
  <1>1. SUFFICES ASSUME NEW d \in Clients, req'[d].at = "call"
                 PROVE  attempt'[req'[d].attempt].status \in {"pending", "error"}
    BY DEF CallingInv, At
  <1>2. d # c /\ req'[d] = req[d] /\ Busy(d) /\ At(d, "call")
    BY <1>1 DEF Busy, At
  <1>3. req[d].attempt \in Attempts /\ req[d].attempt # req[c].attempt
    BY <1>2 DEF OnceInv, CallInv, RefundInv, RequestInv
  <1>4. QED
    BY <1>2, <1>3 DEF OnceInv, CallingInv

\* A row whose refund is booked may say so: it has no other refund.
LEMMA BookedAccounted ==
    ASSUME OnceInv, NEW a \in Attempts, NEW g \in 1..Len(refund), NEW n, Book(n, g),
           refund[g].attempt = a,
           \A b \in Attempts : b # a => attempt'[b] = attempt[b]
    PROVE  /\ RefundAccountedFor'
           /\ Len(refund') = Len(refund)
           /\ \A h \in 1..Len(refund) : refund'[h].attempt = refund[h].attempt
  <1>1. refund \in Seq(Refund) /\ \A h \in 1..Len(refund) : refund[h] \in Refund
    BY DEF OnceInv, RefundInv, TableInv
  <1>2. /\ Len(refund') = Len(refund)
        /\ \A h \in 1..Len(refund) : /\ refund'[h].attempt = refund[h].attempt
                                     /\ h # g => refund'[h] = refund[h]
        /\ refund'[g].booked = refund[g].booked + 1
    BY <1>1, BookStep
  <1>3. refund[g].booked \in Nat
    BY <1>1 DEF Refund
  <1>4. \A h \in 1..Len(refund) : h # g => refund[h].attempt \in Attempts /\ refund[h].attempt # a
    BY <1>1 DEF OnceInv, MoneyInv, Refund
  <1>5. RefundAccountedFor'
    <2>1. SUFFICES ASSUME NEW h \in 1..Len(refund)
                   PROVE  \/ refund'[h].booked > 0
                          \/ attempt'[refund'[h].attempt].status
                               \in {"pending", "gateway_succeeded_db_failed", "error"}
      BY <1>2 DEF RefundAccountedFor
    <2>2. CASE h = g
      BY <1>2, <1>3, <2>2
    <2>3. CASE h # g
      BY <1>2, <1>4, <2>3 DEF OnceInv, MoneyInv, RefundAccountedFor
    <2>4. QED
      BY <2>2, <2>3
  <1>6. QED
    BY <1>2, <1>5

\* Phase 3, however it ends.
LEMMA OnceFinish ==
    ASSUME OnceInv, RefundInv', NEW c \in Clients,
           FinishRefused(c) \/ Finish(c) \/ FinishThrows(c) \/ MarkDbFailed(c)
    PROVE  OnceInv'
  <1> DEFINE a == req[c].attempt
  <1>1. Busy(c) /\ ~At(c, "call") /\ a \in Attempts
    BY DEF FinishRefused, Finish, BookReversal, FinishThrows, MarkDbFailed, At, Busy, OnceInv,
           RefundInv, RequestInv
  <1>2. /\ \A d \in Clients \ {c} : req'[d] = req[d]
        /\ \/ req'[c].at = "idle"
           \/ req'[c].at = "db_failed" /\ req'[c].attempt = a
    BY SetStep DEF FinishRefused, Finish, FinishThrows, MarkDbFailed, Goes, IdleReq, OnceInv,
                   RefundInv, RequestInv
  <1>3. /\ \A b \in Attempts : b # a => attempt'[b] = attempt[b]
        /\ attempt'[a].key = attempt[a].key /\ attempt'[a].status # "none"
    <2>0. attempt \in [Attempts -> Row] /\ attempt[a].status # "none"
      BY <1>1 DEF OnceInv, RefundInv, TableInv, RequestInv
    <2>1. CASE UNCHANGED attempt
      BY <2>0, <2>1
    <2>2. CASE FinishRefused(c)
      <3>1. req[c].at \in Statuses /\ req[c].at # "none"
        BY <2>2 DEF FinishRefused, Statuses
      <3>2. QED
        BY <1>1, <2>0, <2>2, <3>1, RowStep DEF FinishRefused
    <2>3. CASE BookReversal(c) \/ MarkDbFailed(c)
      <3>1. req[c].gateway \in 1..Len(refund) /\ Len(refund) \in Nat
        BY <2>3 DEF BookReversal, MarkDbFailed, At, HasRefund, OnceInv, RefundInv, RequestInv,
                    TableInv
      <3>2. req[c].gateway \in Nat
        BY <3>1
      <3>3. QED
        BY <1>1, <2>0, <2>3, <3>2, RowStep DEF BookReversal, MarkDbFailed
    <2>4. QED
      BY <2>1, <2>2, <2>3 DEF Finish, FinishThrows
  <1>4. /\ RefundAccountedFor' /\ Len(refund') = Len(refund)
        /\ \A g \in 1..Len(refund) : refund'[g].attempt = refund[g].attempt
    <2>1. CASE BookReversal(c)
      <3>1. req[c].gateway \in 1..Len(refund) /\ refund[req[c].gateway].attempt = a
        BY <2>1 DEF BookReversal, At, HasRefund, OnceInv, RefundInv, RequestInv
      <3>2. Book(req[c].kopecks, req[c].gateway)
        BY <2>1 DEF BookReversal
      <3>3. QED
        BY <1>1, <1>3, <3>1, <3>2, BookedAccounted
    <2>2. CASE ~BookReversal(c)
      <3>1. UNCHANGED refund
        BY <2>2 DEF FinishRefused, Finish, FinishThrows, MarkDbFailed
      <3>2. \A g \in 1..Len(refund) : refund[g] \in Refund
        BY DEF OnceInv, RefundInv, TableInv
      <3>3. \A g \in 1..Len(refund) : refund[g].attempt = a /\ attempt'[a] # attempt[a] =>
              attempt'[a].status \in {"gateway_succeeded_db_failed", "error"}
        <4>0. attempt \in [Attempts -> Row]
          BY DEF OnceInv, RefundInv, TableInv
        <4>1. CASE FinishRefused(c)
          <5>1. req[c].at = "declined" => \A g \in 1..Len(refund) : refund[g].attempt # a
            BY DEF OnceInv, MoneyInv, At
          <5>2. req[c].at \in Statuses /\ req[c].at \in {"declined", "error"}
            BY <4>1 DEF FinishRefused, Statuses
          <5>3. attempt'[a].status = req[c].at
            BY <1>1, <4>0, <4>1, <5>2, RowStep DEF FinishRefused
          <5>4. QED
            BY <5>1, <5>2, <5>3
        <4>2. CASE MarkDbFailed(c)
          <5>1. req[c].gateway \in Nat
            BY <4>2 DEF MarkDbFailed, At, HasRefund, OnceInv, RefundInv, RequestInv, TableInv
          <5>2. QED
            BY <1>1, <4>0, <4>2, <5>1, RowStep DEF MarkDbFailed
        <4>3. CASE UNCHANGED attempt
          BY <4>3
        <4>4. QED
          BY <2>2, <4>1, <4>2, <4>3 DEF Finish, FinishThrows
      <3>4. RefundAccountedFor'
        BY <1>3, <3>1, <3>2, <3>3 DEF OnceInv, MoneyInv, RefundAccountedFor, Refund
      <3>5. QED
        BY <3>1, <3>4
    <2>3. QED
      BY <2>1, <2>2
  <1>5. CallingInv'
    BY <1>1, <1>2, <1>3, OthersCalling
  <1>6. \A b \in Attempts : /\ attempt'[b].status = "none" <=> attempt[b].status = "none"
                            /\ attempt'[b].key = attempt[b].key
    BY <1>1, <1>3 DEF OnceInv, RefundInv, RequestInv
  <1>7. UNCHANGED calls
    BY DEF FinishRefused, Finish, FinishThrows, MarkDbFailed
  <1>8. QED
    BY <1>1, <1>2, <1>4, <1>5, <1>6, <1>7, OnceFrame

\* Starting, dying and the manual refund touch no row.
LEMMA OnceIdle ==
    ASSUME OnceInv, RefundInv', UNCHANGED <<attempt, refund, calls>>,
           \A d \in Clients : \/ req'[d] = req[d]
                              \/ req'[d].at = "idle"
                              \/ req'[d].at = "validate" /\ WithKey(d) = {}
    PROVE  OnceInv'
  <1>1. RefundAccountedFor'
    BY DEF OnceInv, MoneyInv, RefundAccountedFor
  <1>2. CallingInv'
    BY DEF OnceInv, CallingInv, At
  <1>3. QED
    BY <1>1, <1>2, OnceFrame

\* The timer, however it ends.
LEMMA OnceReconcile ==
    ASSUME OnceInv, RefundInv', NEW a \in Attempts, runRefundReconcile(a)
    PROVE  OnceInv'
  <1>0. attempt \in [Attempts -> Row] /\ attempt[a].gateway \in Nat
    BY DEF OnceInv, RefundInv, TableInv, Row
  <1>1. UNCHANGED <<req, calls>>
    BY DEF runRefundReconcile, reconcileGatewaySucceededDbFailed, reconcilePendingTimeout
  <1>2. CASE reconcilePendingTimeout(a)
    <2>1. /\ \A b \in Attempts : b # a => attempt'[b] = attempt[b]
          /\ attempt'[a].status = "error" /\ attempt'[a].key = attempt[a].key
          /\ attempt[a].status = "pending" /\ UNCHANGED refund
      BY <1>0, <1>2, RowStep DEF reconcilePendingTimeout, Statuses
    <2>2. \A g \in 1..Len(refund) : refund[g] \in Refund
      BY DEF OnceInv, RefundInv, TableInv
    <2>3. RefundAccountedFor'
      BY <2>1, <2>2 DEF OnceInv, MoneyInv, RefundAccountedFor, Refund
    <2>4. CallingInv'
      BY <1>1, <2>1 DEF OnceInv, CallingInv, At, RefundInv, RequestInv, Busy
    <2>5. \A b \in Attempts : /\ attempt'[b].status = "none" <=> attempt[b].status = "none"
                              /\ attempt'[b].key = attempt[b].key
      BY <2>1
    <2>6. QED
      BY <1>1, <2>1, <2>3, <2>4, <2>5, OnceFrame
  <1>3. CASE reconcileGatewaySucceededDbFailed(a)
    <2> DEFINE g == attempt[a].gateway
    <2>1. /\ \A b \in Attempts : b # a => attempt'[b] = attempt[b]
          /\ attempt'[a].status = "succeeded" /\ attempt'[a].key = attempt[a].key
          /\ attempt[a].status = "gateway_succeeded_db_failed"
          /\ Book(attempt[a].kopecks, g)
      BY <1>0, <1>3, RowStep DEF reconcileGatewaySucceededDbFailed
    <2>2. g # 0 /\ refund[g].attempt = a /\ g <= Len(refund) /\ Len(refund) \in Nat
      BY <2>1 DEF OnceInv, RefundInv, BookInv, TableInv
    <2>3. g \in 1..Len(refund)
      BY <1>0, <2>2
    <2> HIDE DEF g
    <2>4. /\ RefundAccountedFor' /\ Len(refund') = Len(refund)
          /\ \A h \in 1..Len(refund) : refund'[h].attempt = refund[h].attempt
      BY <2>1, <2>2, <2>3, BookedAccounted
    <2>5. CallingInv'
      BY <1>1, <2>1 DEF OnceInv, CallingInv, At, RefundInv, RequestInv, Busy
    <2>6. \A b \in Attempts : /\ attempt'[b].status = "none" <=> attempt[b].status = "none"
                              /\ attempt'[b].key = attempt[b].key
      BY <2>1
    <2>7. QED
      BY <1>1, <2>4, <2>5, <2>6, OnceFrame
  <1>4. QED
    BY <1>2, <1>3 DEF runRefundReconcile

\* The second invariant holds of every reachable state when keys are distinct.
THEOREM OnceInvariant == ASSUME DistinctKeys PROVE Spec => []OnceInv
  <1>1. Init => OnceInv
    <2>1. Init => RefundInv
      BY RefundInitial
    <2>2. Init => KeyInv /\ CallInv /\ CallingInv
      BY DEF Init, KeyInv, CallInv, CallingInv, At, Busy, IdleReq
    <2>3. Init => MoneyInv
      BY DEF Init, MoneyInv, At, IdleReq, RefundAccountedFor
    <2>4. QED
      BY <2>1, <2>2, <2>3 DEF OnceInv
  <1>2. OnceInv /\ [Next]_vars => OnceInv'
    <2> SUFFICES ASSUME OnceInv, [Next]_vars PROVE OnceInv'
      OBVIOUS
    <2>0. RefundInv'
      BY RefundStep DEF OnceInv
    <2>1. CASE UNCHANGED vars
      BY <2>0, <2>1, OnceIdle DEF vars
    <2>2. ASSUME NEW c \in Clients, RequestStep(c) PROVE OnceInv'
      BY <2>0, <2>2, OnceValidate, OnceCall, OnceFinish DEF RequestStep
    <2>3. ASSUME NEW c \in Clients, Dies(c) PROVE OnceInv'
      <3>1. req'[c] = IdleReq /\ \A d \in Clients \ {c} : req'[d] = req[d]
        BY <2>3, SetStep DEF Dies, OnceInv, RefundInv, RequestInv
      <3>2. QED
        BY <2>0, <2>3, <3>1, OnceIdle DEF Dies, IdleReq
    <2>4. ASSUME NEW c \in Clients, NEW n \in 1..Amount, Send(c, n) PROVE OnceInv'
      <3>1. CASE UNCHANGED req
        BY <2>0, <2>4, <3>1, OnceIdle DEF Send
      <3>2. CASE findRefundAttemptByIdempotency(c) = {} /\ Set(c, [at |-> "validate", kopecks |-> n])
        <4>1. req'[c].at = "validate" /\ \A d \in Clients \ {c} : req'[d] = req[d]
          BY <3>2, SetStep DEF OnceInv, RefundInv, RequestInv
        <4>2. QED
          BY <2>0, <2>4, <3>2, <4>1, OnceIdle DEF Send, findRefundAttemptByIdempotency
      <3>3. QED
        BY <2>4, <3>1, <3>2 DEF Send
    <2>5. ASSUME NEW n \in 1..Amount, RecordManually(n) PROVE OnceInv'
      BY <2>0, <2>5, OnceIdle DEF RecordManually
    <2>6. ASSUME NEW a \in Attempts, runRefundReconcile(a) PROVE OnceInv'
      BY <2>0, <2>6, OnceReconcile
    <2>7. QED
      BY <2>1, <2>2, <2>3, <2>4, <2>5, <2>6 DEF Next
  <1>3. QED
    BY <1>1, <1>2, PTL DEF Spec

\* The provider is called once per attempt, however often a request is repeated
\* and whatever dies, when no two clients send one key.
THEOREM NeverCalledTwice == ASSUME DistinctKeys PROVE Spec => []OneCallPerAttempt
  <1>1. OnceInv => OneCallPerAttempt
    BY DEF OnceInv, CallInv, OneCallPerAttempt
  <1>2. QED
    BY <1>1, OnceInvariant, PTL

\* Money that left is booked, or the timer or an operator is told, when no two
\* clients send one key.
THEOREM NeverForgotten == ASSUME DistinctKeys PROVE Spec => []RefundAccountedFor
  <1>1. OnceInv => RefundAccountedFor
    BY DEF OnceInv, MoneyInv
  <1>2. QED
    BY <1>1, OnceInvariant, PTL
=============================================================================
