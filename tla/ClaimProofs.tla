---------------------------- MODULE ClaimProofs -----------------------------
(***************************************************************************)
(* Proofs about PaymentClaims for any number of concurrent requests over   *)
(* any lists of lessons and packages: no lesson is in two live claims or   *)
(* in one that a package unit pays for, and no claim is refunded beyond    *)
(* its amount.                                                             *)
(***************************************************************************)
EXTENDS PaymentClaims, SequenceTheorems, TLAPS

-----------------------------------------------------------------------------
(* The inductive invariant.                                                *)

Items(i) == tx[i].job.items
Running(i) == tx[i].todo # <<>>
Claims(i) == Running(i) /\ tx[i].job.kind = "claim"
Refunds(i) == Running(i) /\ tx[i].job.kind = "refund"

\* How many statements of its program a request has run.
Done(i) == Len(Program(tx[i].job)) - Len(tx[i].todo)

Stmts(job) == {Program(job)[k] : k \in 1 .. Len(Program(job))}

Shape ==
    tx = [i \in Txns |-> [job |-> tx[i].job, todo |-> tx[i].todo, held |-> tx[i].held,
                          read |-> tx[i].read, rows |-> tx[i].rows]]

\* What is left to run is the end of the program.
ProgramOK(i) ==
    Running(i) =>
      /\ tx[i].job \in Requests
      /\ tx[i].todo \in Seq(Stmts(tx[i].job))
      /\ Len(tx[i].todo) <= Len(Program(tx[i].job))
      /\ \A k \in 1 .. Len(tx[i].todo) :
            tx[i].todo[k] = Program(tx[i].job)[Done(i) + k]

Unclaimed(s) == \A c \in Txns : claim[c].status \in Active => ~Holds(c, s)

\* Item k of a claim under way: the lesson is locked, it was and is the
\* learner's, and it was and is unpaid, as far as the program has come.
ItemOK(i, k) ==
    LET s == Items(i)[k] IN
    s \in Slots =>
      /\ Done(i) >= k => <<"pay-claim", s>> \in tx[i].held
      /\ Done(i) >= Len(Items(i)) + 2 * k => lesson[s].learner = tx[i].job.learner
      /\ Done(i) >= Len(Items(i)) + 2 * k + 1 =>
            Unclaimed(s) /\ lesson[s].unit # "active"

ClaimOK(i) == Claims(i) => \A k \in 1 .. Len(Items(i)) : ItemOK(i, k)

\* A refund under way holds its claim, which stays confirmed and large enough.
RefundOK(i) ==
    LET c == tx[i].job.claim IN
    Refunds(i) =>
      /\ Done(i) >= 1 => <<"claim", c>> \in tx[i].held /\ claim[c].status = "confirmed"
      /\ Done(i) >= 2 => refunded[c] + tx[i].job.amount <= claim[c].amount

LocksExclude == \A i, j \in Txns : i # j => tx[i].held \cap tx[j].held = {}

\* A claim is there once its request is over.
FreshRows ==
    \A c \in Txns : /\ claim[c].status # "absent" => ~Running(c) /\ tx[c].job # NoJob
                    /\ claim[c].status = "absent" => refunded[c] = 0

\* A claimed lesson is somebody's, so no booking brings a unit to it.
ClaimedIsBooked ==
    \A c \in Txns, s \in Slots :
        claim[c].status \in Active /\ Holds(c, s) => lesson[s].learner # NoLearner

Rows ==
    /\ lesson \in [Slots -> [learner : Learners \cup {NoLearner},
                             unit : {"none", "active", "restored"}]]
    /\ \A c \in Txns : claim[c].amount \in Nat
    /\ claim = [c \in Txns |-> [status |-> claim[c].status, by |-> claim[c].by,
                                items |-> claim[c].items, amount |-> claim[c].amount]]
    /\ refunded \in [Txns -> Nat]

ClaimInv ==
    /\ Shape /\ Rows /\ LocksExclude /\ FreshRows /\ ClaimedIsBooked
    /\ OneActiveClaim /\ NoClaimOnPackagedLesson /\ RefundsWithinClaim
    /\ \A i \in Txns : ProgramOK(i) /\ ClaimOK(i) /\ RefundOK(i)

-----------------------------------------------------------------------------
(* Programs.                                                               *)

\* A function on 1 .. n is a sequence of length n.
LEMMA FcnSeq ==
    ASSUME NEW n \in Nat, NEW f, NEW S, f \in [1 .. n -> S]
    PROVE  f \in Seq(S) /\ Len(f) = n
  OBVIOUS

\* Being a certain statement.
IsStmt(h, op, arg, locks) == h.op = op /\ h.arg = arg /\ h.locks = locks

\* The program of a claim over n items has 3n + 2 statements.
LEMMA ClaimProgram ==
    ASSUME NEW job \in Requests, job.kind = "claim"
    PROVE  LET n == Len(job.items)
               p == Program(job)
           IN
           /\ n \in Nat /\ Len(p) = 3 * n + 2
           /\ p \in Seq(Stmts(job))
           /\ \A k \in 1 .. n : IsStmt(p[k], "advisory", job.items[k],
                 IF job.items[k] \in Slots THEN {<<"pay-claim", job.items[k]>>} ELSE {})
           /\ IsStmt(p[n + 1], "method", job.method, {})
           /\ \A k \in 1 .. n : /\ IsStmt(p[n + 2 * k], "own", job.items[k], {})
                                /\ IsStmt(p[n + 2 * k + 1], "paid", job.items[k], {})
           /\ IsStmt(p[3 * n + 2], "insertClaim", NoMethod, {})
  <1> DEFINE n == Len(job.items)
             A == ClaimLocks(job.items)
             M == <<Stmt("method", job.method, {})>>
             B == ClaimChecks(job.items)
             I == <<Stmt("insertClaim", NoMethod, {})>>
             S == {A[k] : k \in 1 .. n} \cup {B[k] : k \in 1 .. 2 * n}
                    \cup {M[1], I[1]}
             C == A \o M
             D == C \o B
             p == Program(job)
  <1>1. job.items \in Seq(Slots \cup DOMAIN PurchaseLearner) /\ n \in Nat
    BY RequestsAssumption, LenProperties
  <1>2. A \in [1 .. n -> S] /\ B \in [1 .. 2 * n -> S]
    BY <1>1 DEF ClaimLocks, ClaimChecks
  <1>3. A \in Seq(S) /\ Len(A) = n /\ B \in Seq(S) /\ Len(B) = 2 * n
    <2>1. A \in Seq(S) /\ Len(A) = n
      BY <1>1, <1>2, FcnSeq
    <2>2. 2 * n \in Nat
      BY <1>1
    <2>3. B \in Seq(S) /\ Len(B) = 2 * n
      BY <1>2, <2>2, FcnSeq
    <2>. QED BY <2>1, <2>3
  <1>4. M \in Seq(S) /\ Len(M) = 1 /\ I \in Seq(S) /\ Len(I) = 1
    OBVIOUS
  <1>5. p = D \o I
    BY DEF Program, ClaimTx
  <1>a. \A k \in 1 .. n : IsStmt(A[k], "advisory", job.items[k],
                 IF job.items[k] \in Slots THEN {<<"pay-claim", job.items[k]>>} ELSE {})
    BY DEF ClaimLocks, Stmt, IsStmt
  <1>b. \A k \in 1 .. n : /\ IsStmt(B[2 * k - 1], "own", job.items[k], {})
                          /\ IsStmt(B[2 * k], "paid", job.items[k], {})
    <2>1. ASSUME NEW k \in 1 .. n
          PROVE  /\ 2 * k - 1 \in 1 .. 2 * n /\ 2 * k \in 1 .. 2 * n
                 /\ (2 * k - 1) % 2 = 1 /\ (2 * k) % 2 # 1
                 /\ ((2 * k - 1) + 1) \div 2 = k /\ (2 * k + 1) \div 2 = k
      BY <1>1, <2>1
    <2>. QED BY <1>1, <2>1 DEF ClaimChecks, Stmt, IsStmt
  <1> HIDE DEF A, B, C, D, M, I, S, p, n
  <1>6. /\ C \in Seq(S) /\ Len(C) = n + 1
        /\ \A k \in 1 .. n + 1 : C[k] = IF k <= n THEN A[k] ELSE M[k - n]
    <2>1. /\ A \o M \in Seq(S) /\ Len(A \o M) = Len(A) + Len(M)
          /\ \A k \in 1 .. Len(A) + Len(M) :
               (A \o M)[k] = IF k <= Len(A) THEN A[k] ELSE M[k - Len(A)]
      BY <1>3, <1>4, ConcatProperties
    <2>. QED BY <1>3, <1>4, <2>1 DEF C
  <1>7. /\ D \in Seq(S) /\ Len(D) = 3 * n + 1
        /\ \A k \in 1 .. 3 * n + 1 : D[k] = IF k <= n + 1 THEN C[k] ELSE B[k - (n + 1)]
    <2>1. (n + 1) + 2 * n = 3 * n + 1
      BY <1>1
    <2>2. /\ C \o B \in Seq(S) /\ Len(C \o B) = Len(C) + Len(B)
          /\ \A k \in 1 .. Len(C) + Len(B) :
               (C \o B)[k] = IF k <= Len(C) THEN C[k] ELSE B[k - Len(C)]
      BY <1>3, <1>6, ConcatProperties
    <2>. QED BY <1>3, <1>6, <2>1, <2>2 DEF D
  <1>8. /\ p \in Seq(S) /\ Len(p) = 3 * n + 2
        /\ \A k \in 1 .. 3 * n + 2 :
             p[k] = IF k <= 3 * n + 1 THEN D[k] ELSE I[k - (3 * n + 1)]
    <2>1. (3 * n + 1) + 1 = 3 * n + 2
      BY <1>1
    <2>2. /\ D \o I \in Seq(S) /\ Len(D \o I) = Len(D) + Len(I)
          /\ \A k \in 1 .. Len(D) + Len(I) :
               (D \o I)[k] = IF k <= Len(D) THEN D[k] ELSE I[k - Len(D)]
      BY <1>4, <1>7, ConcatProperties
    <2>. QED BY <1>4, <1>5, <1>7, <2>1, <2>2
  <1>9. p \in Seq(Stmts(job))
    <2>1. p \in [1 .. 3 * n + 2 -> Stmts(job)]
      <3>1. p \in [1 .. 3 * n + 2 -> S]
        BY <1>8, LenProperties
      <3>. QED BY <1>8, <3>1 DEF Stmts, p
    <2>. QED BY <1>1, <2>1, FcnSeq
  <1>10. \A k \in 1 .. n : p[k] = A[k]
    BY <1>1, <1>6, <1>7, <1>8
  <1>11. \A k : k = n + 1 => p[k] = M[1]
    BY <1>1, <1>6, <1>7, <1>8
  <1>12. ASSUME NEW k \in 1 .. n
         PROVE  /\ \A q : q = n + 2 * k => p[q] = B[2 * k - 1]
                /\ \A q : q = n + 2 * k + 1 => p[q] = B[2 * k]
    <2>1. ASSUME NEW q, NEW m, q = n + 1 + m, m \in 1 .. 2 * n
          PROVE  p[q] = B[m]
      <3>1. /\ q \in 1 .. 3 * n + 1 /\ q \in 1 .. 3 * n + 2
            /\ ~(q <= n + 1) /\ q <= 3 * n + 1 /\ q - (n + 1) = m
        BY <1>1, <2>1
      <3>. QED BY <1>7, <1>8, <3>1
    <2>2. 2 * k - 1 \in 1 .. 2 * n /\ 2 * k \in 1 .. 2 * n
      BY <1>1, <1>12
    <2>3. n + 2 * k = n + 1 + (2 * k - 1) /\ n + 2 * k + 1 = n + 1 + 2 * k
      BY <1>1, <1>12
    <2>. QED BY <2>1, <2>2, <2>3
  <1>13. \A k : k = 3 * n + 2 => p[k] = I[1]
    BY <1>1, <1>8
  <1>14. IsStmt(M[1], "method", job.method, {}) /\ IsStmt(I[1], "insertClaim", NoMethod, {})
    BY DEF M, I, Stmt, IsStmt
  <1>15. \A k \in 1 .. n : IsStmt(p[k], "advisory", job.items[k],
                 IF job.items[k] \in Slots THEN {<<"pay-claim", job.items[k]>>} ELSE {})
    BY <1>10, <1>a
  <1>16. IsStmt(p[n + 1], "method", job.method, {})
    BY <1>11, <1>14
  <1>17. \A k \in 1 .. n : /\ IsStmt(p[n + 2 * k], "own", job.items[k], {})
                           /\ IsStmt(p[n + 2 * k + 1], "paid", job.items[k], {})
    BY <1>12, <1>b
  <1>18. IsStmt(p[3 * n + 2], "insertClaim", NoMethod, {})
    BY <1>13, <1>14
  <1>19. n \in Nat /\ Len(p) = 3 * n + 2
    BY <1>1, <1>8
  <1>. QED BY <1>9, <1>15, <1>16, <1>17, <1>18, <1>19 DEF p, n

\* The program of a refund.
LEMMA RefundProgram ==
    ASSUME NEW job \in Requests, job.kind = "refund"
    PROVE  /\ job.claim \in Txns /\ job.amount \in Nat
           /\ Len(Program(job)) = 3 /\ Program(job) \in Seq(Stmts(job))
           /\ IsStmt(Program(job)[1], "lockClaim", job.claim, {<<"claim", job.claim>>})
           /\ IsStmt(Program(job)[2], "sum", job.claim, {})
           /\ IsStmt(Program(job)[3], "insertRefund", job.claim, {})
  <1>1. Program(job) = RefundTx(job)
    BY DEF Program
  <1>2. /\ Len(Program(job)) = 3
        /\ IsStmt(Program(job)[1], "lockClaim", job.claim, {<<"claim", job.claim>>})
        /\ IsStmt(Program(job)[2], "sum", job.claim, {})
        /\ IsStmt(Program(job)[3], "insertRefund", job.claim, {})
    BY <1>1 DEF RefundTx, Stmt, IsStmt
  <1>3. Program(job) \in [1 .. 3 -> Stmts(job)]
    <2>1. Program(job) \in [1 .. 3 -> {Program(job)[k] : k \in 1 .. 3}]
      BY <1>1 DEF RefundTx
    <2>. QED BY <1>2, <2>1 DEF Stmts
  <1>4. Program(job) \in Seq(Stmts(job))
    BY <1>3, FcnSeq
  <1>. QED BY <1>2, <1>4, RequestsAssumption

\* Every request is of one of the two kinds, and its program has an end.
LEMMA Programs ==
    ASSUME NEW job \in Requests
    PROVE  /\ job.kind \in {"claim", "refund"} /\ job # NoJob
           /\ Len(Program(job)) \in Nat \ {0, 1} /\ Program(job) \in Seq(Stmts(job))
  <1>1. job.kind \in {"claim", "refund"} /\ job # NoJob
    BY RequestsAssumption DEF NoJob
  <1>2. CASE job.kind = "claim"
    <2>1. Len(job.items) \in Nat /\ Len(Program(job)) = 3 * Len(job.items) + 2
      BY <1>2, ClaimProgram
    <2>2. Len(Program(job)) \in Nat \ {0, 1}
      BY <2>1
    <2>. QED BY <1>1, <1>2, <2>2, ClaimProgram
  <1>3. CASE job.kind = "refund"
    <2>1. Len(Program(job)) = 3 /\ Program(job) \in Seq(Stmts(job))
      BY <1>3, RefundProgram
    <2>. QED BY <1>1, <2>1
  <1>. QED BY <1>1, <1>2, <1>3

\* The next statement of a request.
LEMMA Place ==
    ASSUME NEW i \in Txns, ProgramOK(i), Running(i)
    PROVE  /\ tx[i].job \in Requests
           /\ Len(tx[i].todo) \in Nat \ {0}
           /\ Done(i) \in Nat /\ Done(i) < Len(Program(tx[i].job))
           /\ Head(tx[i].todo) = Program(tx[i].job)[Done(i) + 1]
  <1> DEFINE q == tx[i].todo
             p == Program(tx[i].job)
  <1>1. /\ tx[i].job \in Requests /\ q \in Seq(Stmts(tx[i].job)) /\ q # <<>>
        /\ Len(q) <= Len(p)
        /\ \A k \in 1 .. Len(q) : q[k] = p[Done(i) + k]
    BY DEF ProgramOK, Running
  <1>2. Len(p) \in Nat
    BY <1>1, Programs
  <1>3. Len(q) \in Nat \ {0}
    BY <1>1, EmptySeq
  <1>4. Done(i) = Len(p) - Len(q)
    BY DEF Done
  <1>5. Head(q) = q[1]
    BY <1>1, <1>3
  <1>6. 1 \in 1 .. Len(q)
    BY <1>3
  <1>7. Head(q) = p[Done(i) + 1]
    BY <1>1, <1>5, <1>6
  <1> HIDE DEF q, p
  <1>8. Done(i) \in Nat /\ Done(i) < Len(p)
    BY <1>1, <1>2, <1>3, <1>4
  <1>. QED BY <1>1, <1>3, <1>7, <1>8 DEF q, p

\* The checks come in pairs.
LEMMA Halves ==
    ASSUME NEW n \in Nat, NEW d \in Nat, n < d, d < 3 * n + 1
    PROVE  \E k \in 1 .. n : \/ d + 1 = n + 2 * k /\ d = n + 2 * k - 1
                             \/ d + 1 = n + 2 * k + 1 /\ d = n + 2 * k
  <1> DEFINE m == (d + 1 - n) \div 2
  <1>1. d + 1 - n = 2 * m \/ d + 1 - n = 2 * m + 1
    OBVIOUS
  <1>2. m \in Int
    OBVIOUS
  <1> HIDE DEF m
  <1>3. m \in 1 .. n
    BY <1>1, <1>2
  <1>4. \/ d + 1 = n + 2 * m /\ d = n + 2 * m - 1
        \/ d + 1 = n + 2 * m + 1 /\ d = n + 2 * m
    BY <1>1, <1>2
  <1>. QED BY <1>3, <1>4

\* Where a claim is.
LEMMA ClaimPlace ==
    ASSUME NEW i \in Txns, ProgramOK(i), Claims(i)
    PROVE  LET n == Len(Items(i))
               d == Done(i)
               h == Head(tx[i].todo)
           IN
           /\ n \in Nat /\ d \in Nat
           /\ \/ d < n /\ IsStmt(h, "advisory", Items(i)[d + 1],
                   IF Items(i)[d + 1] \in Slots THEN {<<"pay-claim", Items(i)[d + 1]>>}
                                                ELSE {})
              \/ d = n /\ IsStmt(h, "method", tx[i].job.method, {})
              \/ \E k \in 1 .. n : d = n + 2 * k - 1 /\ IsStmt(h, "own", Items(i)[k], {})
              \/ \E k \in 1 .. n : d = n + 2 * k /\ IsStmt(h, "paid", Items(i)[k], {})
              \/ d = 3 * n + 1 /\ IsStmt(h, "insertClaim", NoMethod, {})
  <1> DEFINE job == tx[i].job
             n == Len(Items(i))
             d == Done(i)
             h == Head(tx[i].todo)
             p == Program(job)
             it == Items(i)
  <1>1. /\ job \in Requests /\ job.kind = "claim"
        /\ it = job.items /\ n = Len(job.items)
        /\ d \in Nat /\ d < Len(p) /\ h = p[d + 1]
    BY Place DEF Claims, Items
  <1>2. /\ n \in Nat /\ Len(p) = 3 * n + 2
        /\ \A k \in 1 .. n : IsStmt(p[k], "advisory", it[k],
                 IF it[k] \in Slots THEN {<<"pay-claim", it[k]>>} ELSE {})
        /\ IsStmt(p[n + 1], "method", job.method, {})
        /\ \A k \in 1 .. n : /\ IsStmt(p[n + 2 * k], "own", it[k], {})
                             /\ IsStmt(p[n + 2 * k + 1], "paid", it[k], {})
        /\ IsStmt(p[3 * n + 2], "insertClaim", NoMethod, {})
    <2> HIDE DEF job, n, it
    <2>. QED BY <1>1, ClaimProgram
  <1> HIDE DEF job, n, d, h, p, it
  <1>3. CASE d < n
    <2>1. d + 1 \in 1 .. n
      BY <1>1, <1>2, <1>3
    <2>. QED BY <1>1, <1>2, <1>3, <2>1 DEF job, n, d, h, p, it
  <1>4. CASE d = n
    BY <1>1, <1>2, <1>4 DEF job, n, d, h, p, it
  <1>5. CASE d = 3 * n + 1
    <2>1. d + 1 = 3 * n + 2
      BY <1>2, <1>5
    <2>. QED BY <1>1, <1>2, <1>5, <2>1 DEF job, n, d, h, p, it
  <1>6. CASE n < d /\ d < 3 * n + 1
    <2>1. n \in Nat /\ d \in Nat
      BY <1>1, <1>2
    <2>2. PICK k \in 1 .. n : \/ d + 1 = n + 2 * k /\ d = n + 2 * k - 1
                              \/ d + 1 = n + 2 * k + 1 /\ d = n + 2 * k
      BY <1>6, <2>1, Halves
    <2>3. CASE d + 1 = n + 2 * k /\ d = n + 2 * k - 1
      <3>1. IsStmt(h, "own", it[k], {}) /\ d = n + 2 * k - 1
        <4>1. IsStmt(p[d + 1], "own", it[k], {})
          <5>1. IsStmt(p[n + 2 * k], "own", it[k], {})
            BY <1>2
          <5>. QED BY <2>3, <5>1
        <4>. QED BY <1>1, <2>3, <4>1
      <3>. QED BY <1>1, <1>2, <3>1 DEF job, n, d, h, p, it
    <2>4. CASE d + 1 = n + 2 * k + 1 /\ d = n + 2 * k
      <3>1. IsStmt(h, "paid", it[k], {}) /\ d = n + 2 * k
        <4>1. IsStmt(p[d + 1], "paid", it[k], {})
          <5>1. IsStmt(p[n + 2 * k + 1], "paid", it[k], {})
            BY <1>2
          <5>. QED BY <2>4, <5>1
        <4>. QED BY <1>1, <2>4, <4>1
      <3>. QED BY <1>1, <1>2, <3>1 DEF job, n, d, h, p, it
    <2>. QED BY <2>2, <2>3, <2>4
  <1>7. d < n \/ d = n \/ (n < d /\ d < 3 * n + 1) \/ d = 3 * n + 1
    <2>1. n \in Nat /\ d \in Nat /\ d < 3 * n + 2
      BY <1>1, <1>2
    <2>. QED BY <2>1
  <1>. QED BY <1>3, <1>4, <1>5, <1>6, <1>7

\* Where a refund is.
LEMMA RefundPlace ==
    ASSUME NEW i \in Txns, ProgramOK(i), Refunds(i)
    PROVE  LET c == tx[i].job.claim
               h == Head(tx[i].todo)
           IN
           /\ c \in Txns /\ tx[i].job.amount \in Nat
           /\ \/ Done(i) = 0 /\ IsStmt(h, "lockClaim", c, {<<"claim", c>>})
              \/ Done(i) = 1 /\ IsStmt(h, "sum", c, {})
              \/ Done(i) = 2 /\ IsStmt(h, "insertRefund", c, {})
  <1>1. /\ tx[i].job \in Requests /\ tx[i].job.kind = "refund"
        /\ Done(i) \in Nat /\ Done(i) < Len(Program(tx[i].job))
        /\ Head(tx[i].todo) = Program(tx[i].job)[Done(i) + 1]
    BY Place DEF Refunds
  <1> DEFINE job == tx[i].job
  <1>2. job \in Requests /\ job.kind = "refund"
    BY <1>1
  <1> HIDE DEF job
  <1>3. /\ job.claim \in Txns /\ job.amount \in Nat
        /\ Len(Program(job)) = 3
        /\ IsStmt(Program(job)[1], "lockClaim", job.claim, {<<"claim", job.claim>>})
        /\ IsStmt(Program(job)[2], "sum", job.claim, {})
        /\ IsStmt(Program(job)[3], "insertRefund", job.claim, {})
    BY <1>2, RefundProgram
  <1>4. Done(i) = 0 \/ Done(i) = 1 \/ Done(i) = 2
    BY <1>1, <1>3 DEF job
  <1>. QED BY <1>1, <1>3, <1>4 DEF job

-----------------------------------------------------------------------------
(* What a step does to the transactions.                                   *)

\* All but i stay as they are.
Only(i) == Shape' /\ \A j \in Txns : j # i => tx'[j] = tx[j]

\* A statement that goes well, and is not the last one.
LEMMA WentOn ==
    ASSUME ClaimInv, NEW i \in Txns, Running(i), Advance(i, tx[i]),
           Done(i) + 1 < Len(Program(tx[i].job))
    PROVE  /\ Only(i) /\ tx'[i].job = tx[i].job
           /\ tx'[i].held = tx[i].held \cup Head(tx[i].todo).locks
           /\ Running(i)' /\ Done(i)' = Done(i) + 1 /\ ProgramOK(i)'
  <1> DEFINE q == tx[i].todo
             p == Program(tx[i].job)
  <1>1. Shape /\ ProgramOK(i)
    BY DEF ClaimInv
  <1>2. /\ tx[i].job \in Requests /\ Len(q) \in Nat \ {0} /\ Done(i) \in Nat
        /\ Len(p) \in Nat
    BY <1>1, Place, Programs
  <1>3. /\ tx' = [tx EXCEPT ![i] = [tx[i] EXCEPT !.todo = Tail(@),
                                                 !.held = @ \cup Head(tx[i].todo).locks]]
        /\ DOMAIN tx = Txns
    BY <1>1 DEF Advance, Shape
  <1>4. tx[i] = [job |-> tx[i].job, todo |-> q, held |-> tx[i].held,
                 read |-> tx[i].read, rows |-> tx[i].rows]
    BY <1>1 DEF Shape
  <1>5. tx'[i] = [job |-> tx[i].job, todo |-> Tail(q),
                  held |-> tx[i].held \cup Head(tx[i].todo).locks,
                  read |-> tx[i].read, rows |-> tx[i].rows]
    BY <1>3, <1>4
  <1>6. \A j \in Txns : j # i => tx'[j] = tx[j]
    BY <1>3
  <1>7. Only(i)
    <2>1. DOMAIN tx' = Txns /\ tx' = [j \in Txns |-> tx'[j]]
      BY <1>3
    <2>2. \A j \in Txns : tx'[j] = [job |-> tx'[j].job, todo |-> tx'[j].todo,
                                    held |-> tx'[j].held, read |-> tx'[j].read,
                                    rows |-> tx'[j].rows]
      BY <1>1, <1>5, <1>6 DEF Shape
    <2>. QED BY <1>6, <2>1, <2>2 DEF Only, Shape
  <1>8. /\ q \in Seq(Stmts(tx[i].job)) /\ q # <<>> /\ Len(q) <= Len(p)
        /\ \A k \in 1 .. Len(q) : q[k] = p[Done(i) + k]
        /\ Done(i) = Len(p) - Len(q)
    BY <1>1 DEF ProgramOK, Running, Done
  <1>9. /\ Tail(q) \in Seq(Stmts(tx[i].job)) /\ Len(Tail(q)) = Len(q) - 1
        /\ \A k \in 1 .. Len(Tail(q)) : Tail(q)[k] = q[k + 1]
    BY <1>8, HeadTailProperties
  <1>10. Done(i)' = Len(p) - Len(Tail(q))
    BY <1>5 DEF Done
  <1> HIDE DEF q, p
  <1>11. Done(i)' = Done(i) + 1 /\ Len(Tail(q)) \in Nat \ {0} /\ Len(Tail(q)) <= Len(p)
    <2> DEFINE a == Len(p)
               b == Len(q)
               c == Len(Tail(q))
    <2>1. /\ a \in Nat /\ b \in Nat \ {0} /\ b <= a /\ c = b - 1
          /\ Done(i) = a - b /\ Done(i) + 1 < a /\ Done(i)' = a - c
      BY <1>2, <1>8, <1>9, <1>10 DEF p
    <2> HIDE DEF a, b, c
    <2>2. Done(i)' = Done(i) + 1 /\ c \in Nat \ {0} /\ c <= a
      BY <2>1
    <2>. QED BY <2>2 DEF a, c
  <1>12. Tail(q) # <<>>
    BY <1>11, EmptySeq
  <1>13. \A k \in 1 .. Len(Tail(q)) : Tail(q)[k] = p[Done(i)' + k]
    <2>1. ASSUME NEW k \in 1 .. Len(Tail(q))
          PROVE  Tail(q)[k] = p[Done(i)' + k]
      <3>1. k + 1 \in 1 .. Len(q) /\ Done(i) + (k + 1) = Done(i)' + k
        <4>1. /\ Len(q) \in Nat /\ Len(Tail(q)) = Len(q) - 1
              /\ Done(i) \in Nat /\ Done(i)' = Done(i) + 1
          BY <1>2, <1>9, <1>11 DEF q
        <4>. QED BY <2>1, <4>1
      <3>2. Tail(q)[k] = q[k + 1]
        BY <1>9
      <3>3. q[k + 1] = p[Done(i) + (k + 1)]
        BY <1>8, <3>1
      <3>. QED BY <3>1, <3>2, <3>3
    <2>. QED BY <2>1
  <1>14. ProgramOK(i)' /\ Running(i)'
    BY <1>2, <1>5, <1>9, <1>11, <1>12, <1>13 DEF ProgramOK, Running, p
  <1>. QED BY <1>5, <1>7, <1>11, <1>14

\* A transaction ends.
LEMMA Ended ==
    ASSUME ClaimInv, NEW i \in Txns, Close(i)
    PROVE  /\ Only(i) /\ tx'[i].job = tx[i].job /\ tx'[i].held = {}
           /\ ~Running(i)'
  <1>1. Shape
    BY DEF ClaimInv
  <1>2. /\ tx' = [tx EXCEPT ![i] = [Idle EXCEPT !.job = tx[i].job]]
        /\ DOMAIN tx = Txns
    BY <1>1 DEF Close, Shape
  <1>3. tx'[i] = [job |-> tx[i].job, todo |-> <<>>, held |-> {}, read |-> 0, rows |-> <<>>]
    BY <1>2 DEF Idle
  <1>4. \A j \in Txns : j # i => tx'[j] = tx[j]
    BY <1>2
  <1>5. Only(i)
    <2>1. DOMAIN tx' = Txns /\ tx' = [j \in Txns |-> tx'[j]]
      BY <1>2
    <2>2. \A j \in Txns : tx'[j] = [job |-> tx'[j].job, todo |-> tx'[j].todo,
                                    held |-> tx'[j].held, read |-> tx'[j].read,
                                    rows |-> tx'[j].rows]
      BY <1>1, <1>3, <1>4 DEF Shape
    <2>. QED BY <1>4, <2>1, <2>2 DEF Only, Shape
  <1>. QED BY <1>3, <1>5 DEF Running

\* A transaction begins.
LEMMA Begun ==
    ASSUME ClaimInv, NEW i \in Txns, NEW job \in Requests, Begin(i, job, Program(job))
    PROVE  /\ Only(i) /\ tx[i].job = NoJob
           /\ tx'[i].job = job /\ tx'[i].held = {}
           /\ Running(i)' /\ Done(i)' = 0 /\ ProgramOK(i)'
  <1>1. Shape
    BY DEF ClaimInv
  <1>2. /\ tx[i].job = NoJob /\ DOMAIN tx = Txns
        /\ tx' = [tx EXCEPT ![i] = [Idle EXCEPT !.job = job, !.todo = Program(job)]]
    BY <1>1 DEF Begin, Shape
  <1>3. tx'[i] = [job |-> job, todo |-> Program(job), held |-> {}, read |-> 0, rows |-> <<>>]
    BY <1>2 DEF Idle
  <1>4. \A j \in Txns : j # i => tx'[j] = tx[j]
    BY <1>2
  <1>5. Only(i)
    <2>1. DOMAIN tx' = Txns /\ tx' = [j \in Txns |-> tx'[j]]
      BY <1>2
    <2>2. \A j \in Txns : tx'[j] = [job |-> tx'[j].job, todo |-> tx'[j].todo,
                                    held |-> tx'[j].held, read |-> tx'[j].read,
                                    rows |-> tx'[j].rows]
      BY <1>1, <1>3, <1>4 DEF Shape
    <2>. QED BY <1>4, <2>1, <2>2 DEF Only, Shape
  <1>6. Len(Program(job)) \in Nat \ {0, 1} /\ Program(job) \in Seq(Stmts(job))
    BY Programs
  <1>7. Done(i)' = 0
    BY <1>3, <1>6 DEF Done
  <1>8. Running(i)' /\ ProgramOK(i)'
    <2>1. Program(job) # <<>>
      BY <1>6
    <2>2. \A k \in 1 .. Len(Program(job)) : Program(job)[k] = Program(job)[0 + k]
      BY <1>6
    <2>. QED BY <1>3, <1>6, <1>7, <2>1, <2>2 DEF Running, ProgramOK
  <1>. QED BY <1>2, <1>3, <1>5, <1>7, <1>8

\* A step that changes no row: what is to be shown of the one transaction.
LEMMA QuietStep ==
    ASSUME ClaimInv, NEW i \in Txns, Only(i), UNCHANGED rows, LocksExclude',
           ProgramOK(i)', ClaimOK(i)', RefundOK(i)',
           claim[i].status # "absent" => ~Running(i)' /\ tx'[i].job # NoJob
    PROVE  ClaimInv'
  <1>1. /\ lesson' = lesson /\ claim' = claim /\ refunded' = refunded
    BY DEF rows
  <1>2. \A x : \A c \in Txns : Holds(c, x)' <=> Holds(c, x)
    BY <1>1 DEF Holds
  <1>a. Rows'
    BY <1>1 DEF ClaimInv, Rows
  <1>b. ClaimedIsBooked' /\ NoClaimOnPackagedLesson'
    BY <1>1, <1>2 DEF ClaimInv, ClaimedIsBooked, NoClaimOnPackagedLesson
  <1>c. OneActiveClaim'
    BY <1>1, <1>2 DEF ClaimInv, OneActiveClaim
  <1>d. RefundsWithinClaim'
    BY <1>1 DEF ClaimInv, RefundsWithinClaim
  <1>3. FreshRows'
    BY <1>1 DEF ClaimInv, FreshRows, Only, Running
  <1>4. ASSUME NEW j \in Txns, j # i
        PROVE  ProgramOK(j)' /\ ClaimOK(j)' /\ RefundOK(j)'
    <2>1. tx'[j] = tx[j] /\ ProgramOK(j) /\ ClaimOK(j) /\ RefundOK(j)
      BY <1>4 DEF Only, ClaimInv
    <2>2. ProgramOK(j)'
      BY <2>1 DEF ProgramOK, Running, Done
    <2>3. RefundOK(j)'
      BY <1>1, <2>1 DEF RefundOK, Refunds, Running, Done
    <2>4. ClaimOK(j)'
      <3>1. \A x : Unclaimed(x)' <=> Unclaimed(x)
        BY <1>1, <1>2 DEF Unclaimed
      <3>2. \A k : ItemOK(j, k)' <=> ItemOK(j, k)
        BY <1>1, <2>1, <3>1 DEF ItemOK, Items, Done
      <3>. QED BY <2>1, <3>2 DEF ClaimOK, Claims, Running, Items
    <2>. QED BY <2>2, <2>3, <2>4
  <1>5. Shape'
    BY DEF Only
  <1>. QED BY <1>3, <1>4, <1>5, <1>a, <1>b, <1>c, <1>d DEF ClaimInv

-----------------------------------------------------------------------------
(* Steps that change no row.                                               *)

\* A transaction that ends, or only begins, holds nothing.
LEMMA NothingHeld ==
    ASSUME ClaimInv, NEW i \in Txns, Only(i), tx'[i].held = {}
    PROVE  LocksExclude'
  <1>1. \A j \in Txns : tx'[j].held = tx[j].held \/ tx'[j].held = {}
    BY DEF Only
  <1>. QED BY <1>1 DEF ClaimInv, LocksExclude

\* Rolling back, or committing what wrote nothing.
LEMMA QuietClose ==
    ASSUME ClaimInv, NEW i \in Txns, Close(i), UNCHANGED rows
    PROVE  ClaimInv'
  <1>1. Only(i) /\ tx'[i].job = tx[i].job /\ tx'[i].held = {} /\ ~Running(i)'
    BY Ended
  <1>2. LocksExclude'
    BY <1>1, NothingHeld
  <1>3. ProgramOK(i)' /\ ClaimOK(i)' /\ RefundOK(i)'
    BY <1>1 DEF ProgramOK, ClaimOK, RefundOK, Claims, Refunds
  <1>4. claim[i].status # "absent" => ~Running(i)' /\ tx'[i].job # NoJob
    BY <1>1 DEF ClaimInv, FreshRows
  <1>. QED BY <1>1, <1>2, <1>3, <1>4, QuietStep

\* A request begins.
LEMMA QuietBegin ==
    ASSUME ClaimInv, NEW i \in Txns, NEW job \in Requests, Begin(i, job, Program(job)),
           UNCHANGED rows
    PROVE  ClaimInv'
  <1>1. /\ Only(i) /\ tx[i].job = NoJob /\ tx'[i].job = job /\ tx'[i].held = {}
        /\ Running(i)' /\ Done(i)' = 0 /\ ProgramOK(i)'
    BY Begun
  <1>2. LocksExclude'
    BY <1>1, NothingHeld
  <1>3. RefundOK(i)'
    BY <1>1 DEF RefundOK
  <1>4. ClaimOK(i)'
    <2>1. SUFFICES ASSUME job.kind = "claim", NEW k \in 1 .. Len(job.items)
                   PROVE  ItemOK(i, k)'
      BY <1>1 DEF ClaimOK, Claims, Items
    <2>2. Len(job.items) \in Nat
      BY <2>1, ClaimProgram
    <2>3. ~(0 >= k) /\ ~(0 >= Len(job.items) + 2 * k) /\ ~(0 >= Len(job.items) + 2 * k + 1)
      <3> DEFINE m == Len(job.items)
      <3>1. m \in Nat /\ k \in 1 .. m
        BY <2>1, <2>2
      <3> HIDE DEF m
      <3>2. ~(0 >= k) /\ ~(0 >= m + 2 * k) /\ ~(0 >= m + 2 * k + 1)
        BY <3>1
      <3>. QED BY <3>2 DEF m
    <2>. QED BY <1>1, <2>3 DEF ItemOK, Items
  <1>5. claim[i].status = "absent"
    BY <1>1 DEF ClaimInv, FreshRows
  <1>. QED BY <1>1, <1>2, <1>3, <1>4, <1>5, QuietStep

\* A statement that takes free locks.
LEMMA QuietAdvance ==
    ASSUME ClaimInv, NEW i \in Txns, Running(i), Advance(i, tx[i]), UNCHANGED rows,
           Done(i) + 1 < Len(Program(tx[i].job)),
           \A r \in Head(tx[i].todo).locks : Free(i, r),
           ClaimOK(i)', RefundOK(i)'
    PROVE  ClaimInv'
  <1>1. /\ Only(i) /\ tx'[i].job = tx[i].job
        /\ tx'[i].held = tx[i].held \cup Head(tx[i].todo).locks
        /\ Running(i)' /\ Done(i)' = Done(i) + 1 /\ ProgramOK(i)'
    BY WentOn
  <1>2. LocksExclude'
    <2>1. \A j \in Txns : j # i => tx'[j].held \cap tx'[i].held = {}
      BY <1>1 DEF ClaimInv, LocksExclude, Only, Free
    <2>2. \A j, k \in Txns : j # i /\ k # i /\ j # k => tx'[j].held \cap tx'[k].held = {}
      BY <1>1 DEF ClaimInv, LocksExclude, Only
    <2>. QED BY <2>1, <2>2 DEF LocksExclude
  <1>3. claim[i].status = "absent"
    BY DEF ClaimInv, FreshRows
  <1>. QED BY <1>1, <1>2, <1>3, QuietStep

\* The next statement of a claim: what it must have established.
LEMMA ClaimGoesOn ==
    ASSUME ClaimInv, NEW i \in Txns, Claims(i), Advance(i, tx[i]), UNCHANGED rows,
           Done(i) + 1 < Len(Program(tx[i].job)),
           \A r \in Head(tx[i].todo).locks : Free(i, r),
           \A k \in 1 .. Len(Items(i)) : Items(i)[k] \in Slots =>
             /\ Done(i) + 1 = k => <<"pay-claim", Items(i)[k]>> \in Head(tx[i].todo).locks
             /\ Done(i) + 1 = Len(Items(i)) + 2 * k =>
                  lesson[Items(i)[k]].learner = tx[i].job.learner
             /\ Done(i) + 1 = Len(Items(i)) + 2 * k + 1 =>
                  Unclaimed(Items(i)[k]) /\ lesson[Items(i)[k]].unit # "active"
    PROVE  ClaimInv'
  <1>1. /\ Only(i) /\ tx'[i].job = tx[i].job
        /\ tx'[i].held = tx[i].held \cup Head(tx[i].todo).locks
        /\ Running(i)' /\ Done(i)' = Done(i) + 1
    BY WentOn DEF Claims
  <1>2. Done(i) \in Nat /\ Len(Items(i)) \in Nat /\ ClaimOK(i)
    BY ClaimPlace DEF ClaimInv
  <1>3. /\ lesson' = lesson /\ claim' = claim /\ Items(i)' = Items(i)
    BY <1>1 DEF rows, Items
  <1>4. \A x : Unclaimed(x)' <=> Unclaimed(x)
    BY <1>3 DEF Unclaimed, Holds
  <1>5. ASSUME NEW k \in 1 .. Len(Items(i))
        PROVE  ItemOK(i, k)'
    <2>1. ItemOK(i, k)
      BY <1>2 DEF ClaimOK
    <2>2. /\ Done(i) + 1 >= k => Done(i) >= k \/ Done(i) + 1 = k
          /\ Done(i) + 1 >= Len(Items(i)) + 2 * k =>
                Done(i) >= Len(Items(i)) + 2 * k \/ Done(i) + 1 = Len(Items(i)) + 2 * k
          /\ Done(i) + 1 >= Len(Items(i)) + 2 * k + 1 =>
                \/ Done(i) >= Len(Items(i)) + 2 * k + 1
                \/ Done(i) + 1 = Len(Items(i)) + 2 * k + 1
      BY <1>2
    <2> DEFINE n == Len(Items(i)) + 2 * k
               m == Len(Items(i)) + 2 * k + 1
               d == Done(i)
    <2>3. /\ (d + 1 >= k => d >= k \/ d + 1 = k) /\ (d + 1 >= n => d >= n \/ d + 1 = n)
          /\ (d + 1 >= m => d >= m \/ d + 1 = m)
      BY <2>2
    <2>4. Items(i)[k] \in Slots =>
             /\ d + 1 = k => <<"pay-claim", Items(i)[k]>> \in Head(tx[i].todo).locks
             /\ d + 1 = n => lesson[Items(i)[k]].learner = tx[i].job.learner
             /\ d + 1 = m => Unclaimed(Items(i)[k]) /\ lesson[Items(i)[k]].unit # "active"
      OBVIOUS
    <2>5. Items(i)[k] \in Slots =>
             /\ d >= k => <<"pay-claim", Items(i)[k]>> \in tx[i].held
             /\ d >= n => lesson[Items(i)[k]].learner = tx[i].job.learner
             /\ d >= m => Unclaimed(Items(i)[k]) /\ lesson[Items(i)[k]].unit # "active"
      BY <2>1 DEF ItemOK
    <2>6. ItemOK(i, k)' <=>
             (Items(i)[k] \in Slots =>
                /\ d + 1 >= k => <<"pay-claim", Items(i)[k]>> \in tx'[i].held
                /\ d + 1 >= n => lesson[Items(i)[k]].learner = tx[i].job.learner
                /\ d + 1 >= m => Unclaimed(Items(i)[k]) /\ lesson[Items(i)[k]].unit # "active")
      BY <1>1, <1>3, <1>4 DEF ItemOK
    <2> HIDE DEF n, m, d
    <2>. QED BY <1>1, <2>3, <2>4, <2>5, <2>6
  <1>6. ClaimOK(i)'
    BY <1>3, <1>5 DEF ClaimOK
  <1>7. RefundOK(i)'
    BY <1>1 DEF RefundOK, Refunds, Claims
  <1>. QED BY <1>6, <1>7, QuietAdvance DEF Claims

\* The next statement of a refund.
LEMMA RefundGoesOn ==
    ASSUME ClaimInv, NEW i \in Txns, Refunds(i), Advance(i, tx[i]), UNCHANGED rows,
           Done(i) + 1 < Len(Program(tx[i].job)),
           \A r \in Head(tx[i].todo).locks : Free(i, r),
           Done(i) = 0 => /\ <<"claim", tx[i].job.claim>> \in Head(tx[i].todo).locks
                          /\ claim[tx[i].job.claim].status = "confirmed",
           Done(i) = 1 => refunded[tx[i].job.claim] + tx[i].job.amount
                            <= claim[tx[i].job.claim].amount
    PROVE  ClaimInv'
  <1>1. /\ Only(i) /\ tx'[i].job = tx[i].job
        /\ tx'[i].held = tx[i].held \cup Head(tx[i].todo).locks
        /\ Running(i)' /\ Done(i)' = Done(i) + 1
    BY WentOn DEF Refunds
  <1>2. Done(i) \in {0, 1, 2} /\ RefundOK(i)
    BY RefundPlace DEF ClaimInv
  <1>3. claim' = claim /\ refunded' = refunded
    BY DEF rows
  <1>4. RefundOK(i)'
    <2>1. CASE Done(i) = 0
      BY <1>1, <1>3, <2>1 DEF RefundOK
    <2>2. CASE Done(i) = 1
      BY <1>1, <1>2, <1>3, <2>2 DEF RefundOK, Refunds
    <2>3. CASE Done(i) = 2
      BY <1>1, <1>2, <1>3, <2>3 DEF RefundOK, Refunds
    <2>. QED BY <1>2, <2>1, <2>2, <2>3
  <1>5. ClaimOK(i)'
    BY <1>1 DEF ClaimOK, Claims, Refunds
  <1>. QED BY <1>4, <1>5, QuietAdvance DEF Refunds

-----------------------------------------------------------------------------
(* The statements of a claim.                                              *)

\* Which request a statement belongs to, and where it stands.
LEMMA Placed ==
    ASSUME ClaimInv, NEW i \in Txns, NEW op, At(i, op)
    PROVE  /\ Running(i) /\ (Claims(i) \/ Refunds(i))
           /\ op \in {"advisory", "method", "own", "paid", "insertClaim"} => Claims(i)
           /\ op \in {"lockClaim", "sum", "insertRefund"} => Refunds(i)
  <1>1. Running(i) /\ Head(tx[i].todo).op = op /\ ProgramOK(i)
    BY DEF At, Running, ClaimInv
  <1>2. Claims(i) \/ Refunds(i)
    BY <1>1, Place, Programs DEF Claims, Refunds
  <1>3. CASE Claims(i)
    <2>1. op \in {"advisory", "method", "own", "paid", "insertClaim"}
      BY <1>1, <1>3, ClaimPlace DEF IsStmt
    <2>. QED BY <1>1, <1>2, <1>3, <2>1
  <1>4. CASE Refunds(i)
    <2>1. op \in {"lockClaim", "sum", "insertRefund"}
      BY <1>1, <1>4, RefundPlace DEF IsStmt
    <2>. QED BY <1>1, <1>2, <1>4, <2>1
  <1>. QED BY <1>2, <1>3, <1>4

\* The length of a claim's program.
LEMMA ClaimLength ==
    ASSUME ClaimInv, NEW i \in Txns, Claims(i)
    PROVE  /\ Len(Items(i)) \in Nat /\ Done(i) \in Nat
           /\ Len(Program(tx[i].job)) = 3 * Len(Items(i)) + 2
           /\ tx[i].job \in Requests /\ tx[i].job.learner \in Learners
           /\ tx[i].job.amount \in Nat
  <1>1. tx[i].job \in Requests /\ tx[i].job.kind = "claim" /\ Done(i) \in Nat
    BY Place DEF ClaimInv, Claims
  <1> DEFINE job == tx[i].job
  <1>2. job \in Requests /\ job.kind = "claim"
    BY <1>1
  <1> HIDE DEF job
  <1>3. Len(job.items) \in Nat /\ Len(Program(job)) = 3 * Len(job.items) + 2
    BY <1>2, ClaimProgram
  <1>4. job.learner \in Learners /\ job.amount \in Nat
    BY <1>2, RequestsAssumption
  <1>. QED BY <1>1, <1>3, <1>4 DEF job, Items

\* The locks of the request.
LEMMA AdvisoryInv ==
    ASSUME ClaimInv, NEW i \in Txns, AdvisoryLock(i)
    PROVE  ClaimInv'
  <1> DEFINE n == Len(Items(i))
             d == Done(i)
  <1>1. /\ At(i, "advisory") /\ Advance(i, tx[i]) /\ UNCHANGED rows
        /\ \A r \in Head(tx[i].todo).locks : Free(i, r)
    BY DEF AdvisoryLock, Ready
  <1>2. Claims(i)
    BY <1>1, Placed
  <1>3. n \in Nat /\ d \in Nat /\ Len(Program(tx[i].job)) = 3 * n + 2
    BY <1>2, ClaimLength
  <1>4. d < n /\ IsStmt(Head(tx[i].todo), "advisory", Items(i)[d + 1],
                   IF Items(i)[d + 1] \in Slots THEN {<<"pay-claim", Items(i)[d + 1]>>}
                                                ELSE {})
    BY <1>1, <1>2, ClaimPlace DEF At, ClaimInv, IsStmt
  <1>5. Items(i)[d + 1] \in Slots =>
          <<"pay-claim", Items(i)[d + 1]>> \in Head(tx[i].todo).locks
    BY <1>4 DEF IsStmt
  <1>6. d + 1 < Len(Program(tx[i].job))
    BY <1>3, <1>4
  <1>7. ASSUME NEW k \in 1 .. n
        PROVE  d + 1 # n + 2 * k /\ d + 1 # n + 2 * k + 1
    <2> HIDE DEF n, d
    <2>. QED BY <1>3, <1>4, <1>7
  <1>. QED BY <1>1, <1>2, <1>5, <1>6, <1>7, ClaimGoesOn

\* The method.
LEMMA MethodInv ==
    ASSUME ClaimInv, NEW i \in Txns, CheckMethod(i)
    PROVE  ClaimInv'
  <1> DEFINE n == Len(Items(i))
             d == Done(i)
  <1>1. At(i, "method") /\ UNCHANGED rows /\ (Advance(i, tx[i]) \/ Close(i))
    BY DEF CheckMethod
  <1>2. CASE Close(i)
    BY <1>1, <1>2, QuietClose
  <1>3. CASE Advance(i, tx[i])
    <2>1. Claims(i)
      BY <1>1, Placed
    <2>2. n \in Nat /\ d \in Nat /\ Len(Program(tx[i].job)) = 3 * n + 2
      BY <2>1, ClaimLength
    <2>3. d = n /\ Head(tx[i].todo).locks = {}
      BY <1>1, <2>1, ClaimPlace DEF At, ClaimInv, IsStmt
    <2>4. d + 1 < Len(Program(tx[i].job))
      BY <2>2, <2>3
    <2>5. ASSUME NEW k \in 1 .. n
          PROVE  d + 1 # k /\ d + 1 # n + 2 * k /\ d + 1 # n + 2 * k + 1
      <3> HIDE DEF n, d
      <3>. QED BY <2>2, <2>3, <2>5
    <2>. QED BY <1>1, <1>3, <2>1, <2>3, <2>4, <2>5, ClaimGoesOn
  <1>. QED BY <1>1, <1>2, <1>3

\* Whose the item is.
LEMMA OwnerInv ==
    ASSUME ClaimInv, NEW i \in Txns, CheckOwner(i)
    PROVE  ClaimInv'
  <1> DEFINE n == Len(Items(i))
             d == Done(i)
  <1>1. At(i, "own") /\ UNCHANGED rows
    BY DEF CheckOwner
  <1>2. CASE Close(i)
    BY <1>1, <1>2, QuietClose
  <1>3. CASE /\ Owned(Arg(i), tx[i].job.teacher, tx[i].job.learner)
             /\ Advance(i, tx[i])
    <2>1. Claims(i)
      BY <1>1, Placed
    <2>2. n \in Nat /\ d \in Nat /\ Len(Program(tx[i].job)) = 3 * n + 2
      BY <2>1, ClaimLength
    <2>3. PICK m \in 1 .. n : d = n + 2 * m - 1 /\ IsStmt(Head(tx[i].todo), "own", Items(i)[m], {})
      BY <1>1, <2>1, ClaimPlace DEF At, ClaimInv, IsStmt
    <2>4. Head(tx[i].todo).locks = {} /\ Arg(i) = Items(i)[m]
      BY <2>3 DEF IsStmt, Arg
    <2>5. d + 1 < Len(Program(tx[i].job))
      <3> HIDE DEF n, d
      <3>. QED BY <2>2, <2>3
    <2>6. ASSUME NEW k \in 1 .. n
          PROVE  /\ d + 1 # k /\ (d + 1 = n + 2 * k => k = m)
                 /\ d + 1 # n + 2 * k + 1
      <3> HIDE DEF n, d
      <3>. QED BY <2>2, <2>3, <2>6
    <2>7. Items(i)[m] \in Slots => lesson[Items(i)[m]].learner = tx[i].job.learner
      BY <1>3, <2>4 DEF Owned
    <2>. QED BY <1>1, <1>3, <2>1, <2>4, <2>5, <2>6, <2>7, ClaimGoesOn
  <1>. QED BY <1>2, <1>3 DEF CheckOwner

\* Whether it is paid.
LEMMA PaidInv ==
    ASSUME ClaimInv, NEW i \in Txns, CheckPaid(i)
    PROVE  ClaimInv'
  <1> DEFINE n == Len(Items(i))
             d == Done(i)
  <1>1. At(i, "paid") /\ UNCHANGED rows
    BY DEF CheckPaid
  <1>2. CASE Close(i)
    BY <1>1, <1>2, QuietClose
  <1>3. CASE ~(Arg(i) \in Slots /\ AlreadyPaid(Arg(i))) /\ Advance(i, tx[i])
    <2>1. Claims(i)
      BY <1>1, Placed
    <2>2. n \in Nat /\ d \in Nat /\ Len(Program(tx[i].job)) = 3 * n + 2
      BY <2>1, ClaimLength
    <2>3. PICK m \in 1 .. n : d = n + 2 * m /\ IsStmt(Head(tx[i].todo), "paid", Items(i)[m], {})
      BY <1>1, <2>1, ClaimPlace DEF At, ClaimInv, IsStmt
    <2>4. Head(tx[i].todo).locks = {} /\ Arg(i) = Items(i)[m]
      BY <2>3 DEF IsStmt, Arg
    <2>5. d + 1 < Len(Program(tx[i].job))
      <3> HIDE DEF n, d
      <3>. QED BY <2>2, <2>3
    <2>6. ASSUME NEW k \in 1 .. n
          PROVE  /\ d + 1 # k /\ (d + 1 = n + 2 * k + 1 => k = m)
                 /\ d + 1 # n + 2 * k
      <3> HIDE DEF n, d
      <3>. QED BY <2>2, <2>3, <2>6
    <2>7. Items(i)[m] \in Slots =>
            Unclaimed(Items(i)[m]) /\ lesson[Items(i)[m]].unit # "active"
      BY <1>3, <2>4 DEF AlreadyPaid, Unclaimed
    <2>. QED BY <1>1, <1>3, <2>1, <2>4, <2>5, <2>6, <2>7, ClaimGoesOn
  <1>. QED BY <1>2, <1>3 DEF CheckPaid

\* A claim about to be inserted: all its checks still hold.
LEMMA AllChecked ==
    ASSUME ClaimInv, NEW i \in Txns, At(i, "insertClaim")
    PROVE  /\ Claims(i) /\ tx[i].job \in Requests /\ tx[i].job.amount \in Nat
           /\ DOMAIN Items(i) = 1 .. Len(Items(i))
           /\ \A k \in 1 .. Len(Items(i)) : Items(i)[k] \in Slots =>
                /\ <<"pay-claim", Items(i)[k]>> \in tx[i].held
                /\ lesson[Items(i)[k]].learner # NoLearner
                /\ Unclaimed(Items(i)[k]) /\ lesson[Items(i)[k]].unit # "active"
  <1> DEFINE n == Len(Items(i))
             d == Done(i)
  <1>1. Claims(i)
    BY Placed
  <1>2. /\ n \in Nat /\ d \in Nat /\ tx[i].job \in Requests
        /\ tx[i].job.learner \in Learners /\ tx[i].job.amount \in Nat
    BY <1>1, ClaimLength
  <1>3. d = 3 * n + 1
    BY <1>1, ClaimPlace DEF At, ClaimInv, IsStmt
  <1>4. DOMAIN Items(i) = 1 .. n
    <2> DEFINE job == tx[i].job
    <2>1. job \in Requests /\ job.kind = "claim" /\ Items(i) = job.items
      BY <1>1, <1>2 DEF Claims, Items
    <2> HIDE DEF job
    <2>2. job.items \in Seq(Slots \cup DOMAIN PurchaseLearner)
      BY <2>1, RequestsAssumption
    <2>. QED BY <2>1, <2>2, LenProperties
  <1>5. ASSUME NEW k \in 1 .. n, Items(i)[k] \in Slots
        PROVE  /\ <<"pay-claim", Items(i)[k]>> \in tx[i].held
               /\ lesson[Items(i)[k]].learner # NoLearner
               /\ Unclaimed(Items(i)[k]) /\ lesson[Items(i)[k]].unit # "active"
    <2>1. ItemOK(i, k)
      BY <1>1 DEF ClaimInv, ClaimOK
    <2>2. d >= k /\ d >= n + 2 * k /\ d >= n + 2 * k + 1
      <3> HIDE DEF n, d
      <3>. QED BY <1>2, <1>3, <1>5
    <2>3. tx[i].job.learner # NoLearner
      BY <1>2, ClaimsAssumption
    <2>. QED BY <1>5, <2>1, <2>2, <2>3 DEF ItemOK
  <1>. QED BY <1>1, <1>2, <1>4, <1>5

\* A new claim.  Others that found its lessons unpaid would hold its locks.
LEMMA InsertClaimInv ==
    ASSUME ClaimInv, NEW i \in Txns, InsertClaim(i)
    PROVE  ClaimInv'
  <1> DEFINE row == [status |-> IF tx[i].job.by = "learner" THEN "claimed" ELSE "confirmed",
                     by |-> tx[i].job.by, items |-> tx[i].job.items,
                     amount |-> tx[i].job.amount]
  <1>1. /\ At(i, "insertClaim") /\ Close(i) /\ lesson' = lesson /\ refunded' = refunded
        /\ card' = card /\ archived' = archived
        /\ claim' = claim \/ claim' = [claim EXCEPT ![i] = row]
    BY DEF InsertClaim
  <1>2. CASE claim' = claim
    BY <1>1, <1>2, QuietClose DEF rows
  <1>3. CASE claim' = [claim EXCEPT ![i] = row]
    <2>1. /\ Claims(i) /\ tx[i].job \in Requests /\ tx[i].job.amount \in Nat
          /\ DOMAIN Items(i) = 1 .. Len(Items(i))
          /\ \A k \in 1 .. Len(Items(i)) : Items(i)[k] \in Slots =>
               /\ <<"pay-claim", Items(i)[k]>> \in tx[i].held
               /\ lesson[Items(i)[k]].learner # NoLearner
               /\ Unclaimed(Items(i)[k]) /\ lesson[Items(i)[k]].unit # "active"
      BY <1>1, AllChecked
    <2>2. Only(i) /\ tx'[i].job = tx[i].job /\ tx'[i].held = {} /\ ~Running(i)'
      BY <1>1, Ended
    <2>3. tx[i].job # NoJob /\ claim[i].status = "absent" /\ refunded[i] = 0
      BY <2>1, Programs DEF ClaimInv, FreshRows, Claims
    <2>4. /\ claim = [c \in Txns |-> [status |-> claim[c].status, by |-> claim[c].by,
                                      items |-> claim[c].items, amount |-> claim[c].amount]]
          /\ \A c \in Txns : claim[c].amount \in Nat
          /\ refunded \in [Txns -> Nat]
      BY DEF ClaimInv, Rows
    <2>5. /\ claim'[i] = row /\ \A c \in Txns : c # i => claim'[c] = claim[c]
          /\ claim'[i].status \in Active /\ claim'[i].amount \in Nat
          /\ claim'[i].items = Items(i)
      BY <1>3, <2>1, <2>4 DEF Active, Items
    <2>6. Rows'
      <3>1. claim' = [c \in Txns |-> claim'[c]]
        BY <1>3, <2>4
      <3>2. \A c \in Txns :
               claim'[c] = [status |-> claim'[c].status, by |-> claim'[c].by,
                            items |-> claim'[c].items, amount |-> claim'[c].amount]
        BY <2>4, <2>5
      <3>. QED BY <1>1, <2>4, <2>5, <3>1, <3>2 DEF ClaimInv, Rows
    <2>7. FreshRows'
      BY <1>1, <2>2, <2>3, <2>5 DEF ClaimInv, FreshRows, Only, Running, Active
    <2>8. \A c \in Txns, s \in Slots : c # i => (Holds(c, s)' <=> Holds(c, s))
      BY <2>5 DEF Holds
    <2>9. ASSUME NEW s \in Slots, Holds(i, s)'
          PROVE  /\ <<"pay-claim", s>> \in tx[i].held /\ lesson[s].learner # NoLearner
                 /\ Unclaimed(s) /\ lesson[s].unit # "active"
      BY <2>1, <2>5, <2>9 DEF Holds
    <2>10. ClaimedIsBooked' /\ NoClaimOnPackagedLesson'
      BY <1>1, <2>5, <2>8, <2>9 DEF ClaimInv, ClaimedIsBooked, NoClaimOnPackagedLesson
    <2>11. OneActiveClaim'
      <3>1. ASSUME NEW c \in Txns, NEW s \in Slots, c # i, Holds(i, s)',
                   claim'[c].status \in Active, Holds(c, s)'
            PROVE  FALSE
        BY <2>5, <2>8, <2>9, <3>1 DEF Unclaimed
      <3>. QED BY <2>5, <2>8, <3>1 DEF ClaimInv, OneActiveClaim
    <2>12. RefundsWithinClaim'
      BY <1>1, <2>3, <2>4, <2>5 DEF ClaimInv, RefundsWithinClaim
    <2>13. LocksExclude'
      BY <2>2, NothingHeld
    <2>14. ASSUME NEW j \in Txns, j # i
           PROVE  ProgramOK(j)' /\ ClaimOK(j)' /\ RefundOK(j)'
      <3>1. tx'[j] = tx[j] /\ ProgramOK(j) /\ ClaimOK(j) /\ RefundOK(j)
        BY <2>2, <2>14 DEF Only, ClaimInv
      <3>2. ProgramOK(j)'
        BY <3>1 DEF ProgramOK, Running, Done
      <3>3. RefundOK(j)'
        <4>1. Refunds(j) => tx[j].job.claim \in Txns /\ Done(j) \in {0, 1, 2}
          BY <3>1, RefundPlace
        <4>2. Refunds(j) /\ Done(j) >= 1 =>
                 claim'[tx[j].job.claim] = claim[tx[j].job.claim]
          BY <2>3, <2>5, <3>1, <4>1 DEF RefundOK
        <4>. QED BY <1>1, <3>1, <4>1, <4>2 DEF RefundOK, Refunds, Running, Done
      <3>4. ClaimOK(j)'
        <4>1. SUFFICES ASSUME Claims(j), NEW k \in 1 .. Len(Items(j))
                       PROVE  ItemOK(j, k)'
          BY <3>1 DEF ClaimOK, Claims, Running, Items
        <4>2. ItemOK(j, k) /\ Done(j) \in Nat /\ Len(Items(j)) \in Nat
          BY <3>1, <4>1, ClaimPlace DEF ClaimOK
        <4>3. Done(j) >= Len(Items(j)) + 2 * k + 1 => Done(j) >= k
          BY <4>2
        <4>4. ASSUME Items(j)[k] \in Slots, Done(j) >= Len(Items(j)) + 2 * k + 1
              PROVE  Unclaimed(Items(j)[k])'
          <5>1. <<"pay-claim", Items(j)[k]>> \in tx[j].held /\ Unclaimed(Items(j)[k])
            BY <4>2, <4>3, <4>4 DEF ItemOK
          <5>2. PICK s \in Slots : s = Items(j)[k]
            BY <4>4
          <5>3. ~Holds(i, s)'
            <6>1. <<"pay-claim", s>> \notin tx[i].held
              BY <2>14, <5>1, <5>2 DEF ClaimInv, LocksExclude
            <6>. QED BY <2>9, <6>1
          <5>4. Items(j)' = Items(j)
            BY <3>1 DEF Items
          <5>5. Unclaimed(s)'
            BY <2>5, <2>8, <5>1, <5>2, <5>3 DEF Unclaimed
          <5>. QED BY <5>2, <5>4, <5>5 DEF Unclaimed, Holds
        <4>. QED BY <1>1, <3>1, <4>2, <4>4 DEF ItemOK, Items, Done
      <3>. QED BY <3>2, <3>3, <3>4
    <2>15. ProgramOK(i)' /\ ClaimOK(i)' /\ RefundOK(i)'
      BY <2>2 DEF ProgramOK, ClaimOK, RefundOK, Claims, Refunds
    <2>16. Shape'
      BY <2>2 DEF Only
    <2>. QED BY <2>6, <2>7, <2>10, <2>11, <2>12, <2>13, <2>14, <2>15, <2>16 DEF ClaimInv
  <1>. QED BY <1>1, <1>2, <1>3

-----------------------------------------------------------------------------
(* The statements of a refund.                                             *)

\* The length of a refund's program.
LEMMA RefundLength ==
    ASSUME ClaimInv, NEW i \in Txns, Refunds(i)
    PROVE  Len(Program(tx[i].job)) = 3 /\ RefundOK(i)
  <1>1. tx[i].job \in Requests /\ tx[i].job.kind = "refund" /\ RefundOK(i)
    BY Place DEF ClaimInv, Refunds
  <1> DEFINE job == tx[i].job
  <1>2. job \in Requests /\ job.kind = "refund"
    BY <1>1
  <1> HIDE DEF job
  <1>3. Len(Program(job)) = 3
    BY <1>2, RefundProgram
  <1>. QED BY <1>1, <1>3 DEF job

\* The row lock on a confirmed claim.
LEMMA LockClaimInv ==
    ASSUME ClaimInv, NEW i \in Txns, LockClaim(i)
    PROVE  ClaimInv'
  <1>1. /\ At(i, "lockClaim") /\ UNCHANGED rows
        /\ \A r \in Head(tx[i].todo).locks : Free(i, r)
    BY DEF LockClaim, Ready
  <1>2. CASE Close(i)
    BY <1>1, <1>2, QuietClose
  <1>3. CASE claim[Arg(i)].status = "confirmed" /\ Advance(i, tx[i])
    <2>1. Refunds(i)
      BY <1>1, Placed
    <2>2. /\ Done(i) = 0
          /\ IsStmt(Head(tx[i].todo), "lockClaim", tx[i].job.claim, {<<"claim", tx[i].job.claim>>})
      BY <1>1, <2>1, RefundPlace DEF At, ClaimInv, IsStmt
    <2>a. Len(Program(tx[i].job)) = 3
      BY <2>1, RefundLength
    <2>3. Done(i) + 1 < Len(Program(tx[i].job))
      BY <2>2, <2>a
    <2>4. /\ <<"claim", tx[i].job.claim>> \in Head(tx[i].todo).locks
          /\ Arg(i) = tx[i].job.claim
      BY <2>2 DEF IsStmt, Arg
    <2>5. /\ Done(i) = 0 => /\ <<"claim", tx[i].job.claim>> \in Head(tx[i].todo).locks
                            /\ claim[tx[i].job.claim].status = "confirmed"
          /\ Done(i) = 1 => refunded[tx[i].job.claim] + tx[i].job.amount
                              <= claim[tx[i].job.claim].amount
      BY <1>3, <2>2, <2>4
    <2>. QED BY <1>1, <1>3, <2>1, <2>3, <2>5, RefundGoesOn
  <1>. QED BY <1>2, <1>3 DEF LockClaim

\* The sum.
LEMMA SumInv ==
    ASSUME ClaimInv, NEW i \in Txns, SumRefunds(i)
    PROVE  ClaimInv'
  <1>1. At(i, "sum") /\ UNCHANGED rows
    BY DEF SumRefunds
  <1>2. CASE Close(i)
    BY <1>1, <1>2, QuietClose
  <1>3. CASE /\ ~(refunded[Arg(i)] + tx[i].job.amount > claim[Arg(i)].amount)
             /\ Advance(i, tx[i])
    <2>1. Refunds(i)
      BY <1>1, Placed
    <2>2. /\ Done(i) = 1 /\ tx[i].job.claim \in Txns /\ tx[i].job.amount \in Nat
          /\ IsStmt(Head(tx[i].todo), "sum", tx[i].job.claim, {})
      BY <1>1, <2>1, RefundPlace DEF At, ClaimInv, IsStmt
    <2>3. Done(i) + 1 < Len(Program(tx[i].job))
      <3>1. Len(Program(tx[i].job)) = 3
        BY <2>1, RefundLength
      <3>. QED BY <2>2, <3>1
    <2>4. Arg(i) = tx[i].job.claim /\ Head(tx[i].todo).locks = {}
      BY <2>2 DEF IsStmt, Arg
    <2>5. refunded[tx[i].job.claim] \in Nat /\ claim[tx[i].job.claim].amount \in Nat
      BY <2>2 DEF ClaimInv, Rows
    <2>6. refunded[tx[i].job.claim] + tx[i].job.amount <= claim[tx[i].job.claim].amount
      BY <1>3, <2>2, <2>4, <2>5
    <2>7. /\ Done(i) = 0 => /\ <<"claim", tx[i].job.claim>> \in Head(tx[i].todo).locks
                            /\ claim[tx[i].job.claim].status = "confirmed"
          /\ Done(i) = 1 => refunded[tx[i].job.claim] + tx[i].job.amount
                              <= claim[tx[i].job.claim].amount
      BY <2>2, <2>6
    <2>8. \A r \in Head(tx[i].todo).locks : Free(i, r)
      BY <2>4
    <2>. QED BY <1>1, <1>3, <2>1, <2>3, <2>7, <2>8, RefundGoesOn
  <1>. QED BY <1>2, <1>3 DEF SumRefunds

\* The refund.  Nobody else refunds this claim meanwhile.
LEMMA InsertRefundInv ==
    ASSUME ClaimInv, NEW i \in Txns, InsertRefund(i)
    PROVE  ClaimInv'
  <1>1. /\ At(i, "insertRefund") /\ Close(i) /\ lesson' = lesson /\ claim' = claim
        /\ refunded' = [refunded EXCEPT ![Arg(i)] = @ + tx[i].job.amount]
    BY DEF InsertRefund
  <1>2. Refunds(i)
    BY <1>1, Placed
  <1>3. PICK c \in Txns : c = tx[i].job.claim
    BY <1>2, RefundPlace DEF ClaimInv
  <1>4. PICK a \in Nat : a = tx[i].job.amount
    BY <1>2, RefundPlace DEF ClaimInv
  <1>5. Done(i) = 2 /\ Arg(i) = c
    BY <1>1, <1>2, <1>3, RefundPlace DEF At, ClaimInv, IsStmt, Arg
  <1>6. /\ <<"claim", c>> \in tx[i].held /\ claim[c].status = "confirmed"
        /\ refunded[c] + a <= claim[c].amount
    BY <1>2, <1>3, <1>4, <1>5, RefundLength DEF RefundOK
  <1>7. /\ refunded \in [Txns -> Nat] /\ \A b \in Txns : claim[b].amount \in Nat
        /\ refunded' = [refunded EXCEPT ![c] = @ + a]
    BY <1>1, <1>4, <1>5 DEF ClaimInv, Rows
  <1>8. /\ refunded'[c] = refunded[c] + a /\ refunded' \in [Txns -> Nat]
        /\ \A b \in Txns : b # c => refunded'[b] = refunded[b]
    BY <1>7
  <1>9. Only(i) /\ tx'[i].job = tx[i].job /\ tx'[i].held = {} /\ ~Running(i)'
    BY <1>1, Ended
  <1>10. Rows'
    BY <1>1, <1>8 DEF ClaimInv, Rows
  <1>11. FreshRows'
    BY <1>1, <1>6, <1>8, <1>9 DEF ClaimInv, FreshRows, Only, Running
  <1>12. \A x : \A b \in Txns : Holds(b, x)' <=> Holds(b, x)
    BY <1>1 DEF Holds
  <1>13. ClaimedIsBooked' /\ NoClaimOnPackagedLesson'
    BY <1>1, <1>12 DEF ClaimInv, ClaimedIsBooked, NoClaimOnPackagedLesson
  <1>14. OneActiveClaim'
    BY <1>1, <1>12 DEF ClaimInv, OneActiveClaim
  <1>15. RefundsWithinClaim'
    BY <1>1, <1>6, <1>8 DEF ClaimInv, RefundsWithinClaim
  <1>16. LocksExclude'
    BY <1>9, NothingHeld
  <1>17. ASSUME NEW j \in Txns, j # i
         PROVE  ProgramOK(j)' /\ ClaimOK(j)' /\ RefundOK(j)'
    <2>1. tx'[j] = tx[j] /\ ProgramOK(j) /\ ClaimOK(j) /\ RefundOK(j)
      BY <1>9, <1>17 DEF Only, ClaimInv
    <2>2. ProgramOK(j)'
      BY <2>1 DEF ProgramOK, Running, Done
    <2>3. RefundOK(j)'
      <3>1. Refunds(j) => tx[j].job.claim \in Txns /\ Done(j) \in {0, 1, 2}
        BY <2>1, RefundPlace
      <3>2. Refunds(j) /\ Done(j) >= 1 => tx[j].job.claim # c
        BY <1>6, <1>17, <2>1, <3>1 DEF RefundOK, ClaimInv, LocksExclude
      <3>. QED BY <1>1, <1>8, <2>1, <3>1, <3>2 DEF RefundOK, Refunds, Running, Done
    <2>4. ClaimOK(j)'
      <3>1. \A x : Unclaimed(x)' <=> Unclaimed(x)
        BY <1>1, <1>12 DEF Unclaimed
      <3>2. \A k : ItemOK(j, k)' <=> ItemOK(j, k)
        BY <1>1, <2>1, <3>1 DEF ItemOK, Items, Done
      <3>. QED BY <2>1, <3>2 DEF ClaimOK, Claims, Running, Items
    <2>. QED BY <2>2, <2>3, <2>4
  <1>18. ProgramOK(i)' /\ ClaimOK(i)' /\ RefundOK(i)'
    BY <1>9 DEF ProgramOK, ClaimOK, RefundOK, Claims, Refunds
  <1>19. Shape'
    BY <1>9 DEF Only
  <1>. QED BY <1>10, <1>11, <1>13, <1>14, <1>15, <1>16, <1>17, <1>18, <1>19 DEF ClaimInv

-----------------------------------------------------------------------------
(* What others do to the rows.                                             *)

\* A lesson keeps its learner and gets no unit later; a claim keeps what it is
\* about, and is never live again.
LEMMA RowStep ==
    ASSUME ClaimInv, tx' = tx, refunded' = refunded, Rows',
           \A s \in Slots : lesson[s].learner # NoLearner =>
             /\ lesson'[s].learner = lesson[s].learner
             /\ lesson'[s].unit = "active" => lesson[s].unit = "active",
           \A c \in Txns :
             /\ claim'[c].items = claim[c].items /\ claim'[c].amount = claim[c].amount
             /\ claim'[c].status \in Active => claim[c].status \in Active
             /\ claim[c].status = "confirmed" => claim'[c].status = "confirmed"
             /\ claim'[c].status = "absent" <=> claim[c].status = "absent"
    PROVE  ClaimInv'
  <1>1. \A x : \A c \in Txns : Holds(c, x)' <=> Holds(c, x)
    BY DEF Holds
  <1>2. Shape' /\ LocksExclude' /\ FreshRows'
    BY DEF ClaimInv, Shape, LocksExclude, FreshRows, Running
  <1>3. ClaimedIsBooked' /\ NoClaimOnPackagedLesson'
    BY <1>1 DEF ClaimInv, ClaimedIsBooked, NoClaimOnPackagedLesson
  <1>4. OneActiveClaim'
    BY <1>1 DEF ClaimInv, OneActiveClaim
  <1>5. RefundsWithinClaim'
    BY DEF ClaimInv, RefundsWithinClaim
  <1>6. \A x : Unclaimed(x) => Unclaimed(x)'
    BY <1>1 DEF Unclaimed
  <1>7. ASSUME NEW j \in Txns
        PROVE  ProgramOK(j)' /\ ClaimOK(j)' /\ RefundOK(j)'
    <2>1. ProgramOK(j) /\ ClaimOK(j) /\ RefundOK(j)
      BY DEF ClaimInv
    <2>2. ProgramOK(j)'
      BY <2>1 DEF ProgramOK, Running, Done
    <2>3. RefundOK(j)'
      <3>1. Refunds(j) => tx[j].job.claim \in Txns /\ Done(j) \in {0, 1, 2}
        BY <2>1, RefundPlace
      <3>. QED BY <2>1, <3>1 DEF RefundOK, Refunds, Running, Done
    <2>4. ClaimOK(j)'
      <3>1. SUFFICES ASSUME Claims(j), NEW k \in 1 .. Len(Items(j))
                     PROVE  ItemOK(j, k)'
        BY DEF ClaimOK, Claims, Running, Items
      <3>2. /\ ItemOK(j, k) /\ Done(j) \in Nat /\ Len(Items(j)) \in Nat
            /\ tx[j].job.learner # NoLearner
        BY <2>1, <3>1, ClaimLength, ClaimsAssumption DEF ClaimOK
      <3>3. Done(j) >= Len(Items(j)) + 2 * k + 1 => Done(j) >= Len(Items(j)) + 2 * k
        BY <3>2
      <3>4. Items(j)' = Items(j) /\ Done(j)' = Done(j)
        BY DEF Items, Done
      <3>5. Unclaimed(Items(j)[k]) => Unclaimed(Items(j)[k])'
        <4>1. PICK x : x = Items(j)[k]
          OBVIOUS
        <4>2. Unclaimed(x) => Unclaimed(x)'
          BY <1>6
        <4>3. (Unclaimed(x) <=> Unclaimed(Items(j)[k])) /\ (Unclaimed(x)' <=> Unclaimed(Items(j)[k])')
          BY <3>4, <4>1 DEF Unclaimed, Holds
        <4>. QED BY <4>2, <4>3
      <3>. QED BY <3>2, <3>3, <3>4, <3>5 DEF ItemOK
    <2>. QED BY <2>2, <2>3, <2>4
  <1>. QED BY <1>2, <1>3, <1>4, <1>5, <1>7 DEF ClaimInv

\* Confirming, declining, cancelling.
LEMMA ResolveInv ==
    ASSUME ClaimInv, NEW c \in Txns, NEW status \in {"confirmed", "declined", "cancelled"},
           Resolve(c, status)
    PROVE  ClaimInv'
  <1>1. /\ claim[c].status = "claimed" /\ claim' = [claim EXCEPT ![c].status = status]
        /\ tx' = tx /\ refunded' = refunded /\ lesson' = lesson
    BY DEF Resolve
  <1>2. /\ claim = [b \in Txns |-> [status |-> claim[b].status, by |-> claim[b].by,
                                    items |-> claim[b].items, amount |-> claim[b].amount]]
        /\ \A b \in Txns : claim[b].amount \in Nat
    BY DEF ClaimInv, Rows
  <1>3. /\ claim'[c] = [status |-> status, by |-> claim[c].by,
                        items |-> claim[c].items, amount |-> claim[c].amount]
        /\ \A b \in Txns : b # c => claim'[b] = claim[b]
    <2>1. claim[c] = [status |-> claim[c].status, by |-> claim[c].by,
                      items |-> claim[c].items, amount |-> claim[c].amount]
      BY <1>2
    <2>2. DOMAIN claim = Txns
      BY <1>2
    <2>3. claim'[c] = [claim[c] EXCEPT !.status = status]
      <3>1. claim' = [claim EXCEPT ![c] = [claim[c] EXCEPT !.status = status]]
        BY <1>1
      <3>. QED BY <2>2, <3>1
    <2>4. \A b \in Txns : b # c => claim'[b] = claim[b]
      BY <1>1, <2>2
    <2>5. claim'[c] = [status |-> status, by |-> claim[c].by,
                       items |-> claim[c].items, amount |-> claim[c].amount]
      BY <2>1, <2>3
    <2>. QED BY <2>4, <2>5
  <1>4. Rows'
    <2>1. claim' = [b \in Txns |-> claim'[b]]
      BY <1>1, <1>2
    <2>2. \A b \in Txns :
             claim'[b] = [status |-> claim'[b].status, by |-> claim'[b].by,
                          items |-> claim'[b].items, amount |-> claim'[b].amount]
      BY <1>2, <1>3
    <2>3. claim' = [b \in Txns |-> [status |-> claim'[b].status, by |-> claim'[b].by,
                                    items |-> claim'[b].items, amount |-> claim'[b].amount]]
      BY <2>1, <2>2
    <2>4. \A b \in Txns : claim'[b].amount \in Nat
      BY <1>2, <1>3
    <2>5. /\ lesson' \in [Slots -> [learner : Learners \cup {NoLearner},
                                    unit : {"none", "active", "restored"}]]
          /\ refunded' \in [Txns -> Nat]
      BY <1>1 DEF ClaimInv, Rows
    <2>. QED BY <2>3, <2>4, <2>5 DEF Rows
  <1>5. \A b \in Txns :
          /\ claim'[b].items = claim[b].items /\ claim'[b].amount = claim[b].amount
          /\ claim'[b].status \in Active => claim[b].status \in Active
          /\ claim[b].status = "confirmed" => claim'[b].status = "confirmed"
          /\ claim'[b].status = "absent" <=> claim[b].status = "absent"
    BY <1>1, <1>3 DEF Active
  <1>. QED BY <1>1, <1>4, <1>5, RowStep

\* Booking, giving a unit back.
LEMMA LessonStep ==
    ASSUME ClaimInv, UNCHANGED <<tx, claim, refunded>>, NEW s \in Slots,
           \/ lesson' = lesson
           \/ \E l \in Learners, u \in {"none", "active"} : Book(s, l, u)
           \/ RestoreUnit(s)
    PROVE  ClaimInv'
  <1> DEFINE L == [learner : Learners \cup {NoLearner}, unit : {"none", "active", "restored"}]
  <1>1. lesson \in [Slots -> L]
    BY DEF ClaimInv, Rows
  <1>2. /\ lesson' \in [Slots -> L]
        /\ \A x \in Slots : lesson[x].learner # NoLearner =>
             /\ lesson'[x].learner = lesson[x].learner
             /\ lesson'[x].unit = "active" => lesson[x].unit = "active"
    <2>1. CASE lesson' = lesson
      BY <1>1, <2>1
    <2>2. ASSUME NEW l \in Learners, NEW u \in {"none", "active"}, Book(s, l, u)
          PROVE  /\ lesson' \in [Slots -> L]
                 /\ \A x \in Slots : lesson[x].learner # NoLearner =>
                      /\ lesson'[x].learner = lesson[x].learner
                      /\ lesson'[x].unit = "active" => lesson[x].unit = "active"
      BY <1>1, <2>2 DEF Book
    <2>3. CASE RestoreUnit(s)
      <3>1. lesson' = [lesson EXCEPT ![s] = [lesson[s] EXCEPT !.unit = "restored"]]
        BY <2>3 DEF RestoreUnit
      <3>. QED BY <1>1, <3>1
    <2>. QED BY <2>1, <2>2, <2>3
  <1>3. Rows'
    BY <1>2 DEF ClaimInv, Rows
  <1>. QED BY <1>2, <1>3, RowStep

-----------------------------------------------------------------------------
(* The theorems.                                                           *)

\* Nothing has begun.
LEMMA InitClaim == Init => ClaimInv
  <1> SUFFICES ASSUME Init PROVE ClaimInv
    OBVIOUS
  <1>1. /\ tx = [i \in Txns |-> [job |-> NoJob, todo |-> <<>>, held |-> {}, read |-> 0,
                                 rows |-> <<>>]]
        /\ claim = [i \in Txns |-> [status |-> "absent", by |-> "nobody", items |-> <<>>,
                                    amount |-> 0]]
        /\ refunded = [i \in Txns |-> 0]
        /\ lesson = [s \in Slots |-> [learner |-> Booked[s], unit |-> "none"]]
    BY DEF Init, Idle, NoClaim
  <1>2. \A i \in Txns : /\ tx[i].todo = <<>> /\ tx[i].held = {}
                        /\ claim[i].status = "absent" /\ claim[i].amount = 0
                        /\ refunded[i] = 0
    BY <1>1
  <1>3. Shape
    BY <1>1 DEF Shape
  <1>4. Rows
    <2>1. lesson \in [Slots -> [learner : Learners \cup {NoLearner},
                                unit : {"none", "active", "restored"}]]
      BY <1>1, ClaimsAssumption
    <2>. QED BY <1>1, <2>1 DEF Rows
  <1>5. LocksExclude /\ FreshRows /\ ClaimedIsBooked
    BY <1>2 DEF LocksExclude, FreshRows, ClaimedIsBooked, Active
  <1>6. OneActiveClaim /\ NoClaimOnPackagedLesson /\ RefundsWithinClaim
    BY <1>2 DEF OneActiveClaim, NoClaimOnPackagedLesson, RefundsWithinClaim, Active
  <1>7. \A i \in Txns : ProgramOK(i) /\ ClaimOK(i) /\ RefundOK(i)
    BY <1>2 DEF ProgramOK, ClaimOK, RefundOK, Claims, Refunds, Running
  <1>. QED BY <1>3, <1>4, <1>5, <1>6, <1>7 DEF ClaimInv

\* Every step keeps the invariant.
LEMMA NextClaim ==
    ASSUME ClaimInv, [Next]_vars
    PROVE  ClaimInv'
  <1>1. ASSUME NEW i \in Txns, Statement(i)
        PROVE  ClaimInv'
    BY <1>1, AdvisoryInv, MethodInv, OwnerInv, PaidInv, InsertClaimInv, LockClaimInv,
       SumInv, InsertRefundInv DEF Statement
  <1>2. ASSUME NEW i \in Txns, Transaction(i)
        PROVE  ClaimInv'
    BY <1>2, QuietBegin, QuietClose DEF Transaction, Abort, DeadlockVictim
  <1>3. ASSUME NEW c \in Txns, ConfirmClaim(c) \/ DeclineClaim(c) \/ CancelClaimByLearner(c)
        PROVE  ClaimInv'
    BY <1>3, ResolveInv DEF ConfirmClaim, DeclineClaim, CancelClaimByLearner
  <1>4. ASSUME NEW s \in Slots,
               \/ \E l \in Learners, u \in {"none", "active"} : Book(s, l, u)
               \/ RestoreUnit(s)
        PROVE  ClaimInv'
    BY <1>4, LessonStep DEF Book, RestoreUnit
  <1>5. ASSUME UNCHANGED <<tx, lesson, claim, refunded>>
        PROVE  ClaimInv'
    <2>1. Rows'
      BY <1>5 DEF ClaimInv, Rows
    <2>. QED BY <1>5, <2>1, RowStep
  <1>6. ASSUME NEW s \in Slots, CardPaid(s)
        PROVE  ClaimInv'
    BY <1>5, <1>6 DEF CardPaid
  <1>7. ASSUME NEW m \in Methods, ArchiveMethod(m)
        PROVE  ClaimInv'
    BY <1>5, <1>7 DEF ArchiveMethod
  <1>8. CASE UNCHANGED vars
    BY <1>5, <1>8 DEF vars, rows
  <1>. QED BY <1>1, <1>2, <1>3, <1>4, <1>6, <1>7, <1>8 DEF Next

\* The inductive invariant: what every request under way has locked, seen and
\* still relies on.
THEOREM ClaimInvariant == Spec => []ClaimInv
  <1>. QED BY InitClaim, NextClaim, PTL DEF Spec

\* No lesson is ever in two live claims, for any number of requests that list
\* any lessons in any order (the advisory locks of sbp-claims.ts).
THEOREM NeverClaimedTwice == Spec => []OneActiveClaim
  <1>1. ClaimInv => OneActiveClaim
    BY DEF ClaimInv
  <1>. QED BY <1>1, ClaimInvariant, PTL

\* No live claim is about a lesson that a package unit pays for, although
\* bookings take no claim lock.
THEOREM NeverClaimedAndPackaged == Spec => []NoClaimOnPackagedLesson
  <1>1. ClaimInv => NoClaimOnPackagedLesson
    BY DEF ClaimInv
  <1>. QED BY <1>1, ClaimInvariant, PTL

\* No claim is refunded beyond its amount or before it is confirmed (the row
\* lock of sbp-refunds.ts).
THEOREM NeverRefundedBeyond == Spec => []RefundsWithinClaim
  <1>1. ClaimInv => RefundsWithinClaim
    BY DEF ClaimInv
  <1>. QED BY <1>1, ClaimInvariant, PTL

=============================================================================
