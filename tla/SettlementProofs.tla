-------------------------- MODULE SettlementProofs --------------------------
(***************************************************************************)
(* Proofs about TeacherLedger for any number of lessons, prices and        *)
(* concurrent settlements and un-completes: no lesson is paid beyond its   *)
(* price or without a completion, and the oldest debt is paid first.       *)
(***************************************************************************)
EXTENDS TeacherLedger, FiniteSetTheorems, SequenceTheorems, TLAPS

-----------------------------------------------------------------------------
(* The inductive invariant.                                                *)

Running(i) == tx[i].todo # <<>>
PairLock(i) == <<"settle-lessons", tx[i].job.pair>>

Shape ==
    tx = [i \in Txns |-> [job |-> tx[i].job, todo |-> tx[i].todo, held |-> tx[i].held,
                          read |-> tx[i].read, rows |-> tx[i].rows]]

LocksExclude == \A i, j \in Txns : i # j => tx[i].held \cap tx[j].held = {}

Rows ==
    /\ completed \subseteq Lessons
    /\ covered \in [Lessons -> Nat]

IsSeq(q) == q \in Seq({q[k] : k \in 1 .. Len(q)})

\* Being a certain statement.
IsStmt(h, op, arg, locks) == h.op = op /\ h.arg = arg /\ h.locks = locks

\* A lesson whose turn is to come: what the select read is still missing, and
\* whoever got money is older.
InQueue(i, h) ==
    LET s == h.arg[1] IN
    /\ s \in Lessons /\ PairOf[s] = tx[i].job.pair /\ covered[s] < Price[s]
    /\ IsStmt(h, "allocate", <<s, Price[s] - covered[s]>>, {<<"completion", s>>})
    /\ \A u \in DOMAIN tx[i].rows : CompletedAt[u] < CompletedAt[s]

\* The insertions of a walk, in order, and the commit.
QueueOK(i) ==
    LET q == tx[i].todo IN
    /\ IsSeq(q)
    /\ IsStmt(q[Len(q)], "commitSettle", tx[i].job.pair, {})
    /\ \A k \in 1 .. Len(q) - 1 : InQueue(i, q[k])
    /\ \A k, m \in 1 .. Len(q) - 1 :
          k < m => CompletedAt[q[k].arg[1]] < CompletedAt[q[m].arg[1]]

\* A lesson that got money: its completion cannot go, and the money fits.
GivenOK(i, s) ==
    /\ s \in Lessons /\ s \in completed /\ PairOf[s] = tx[i].job.pair
    /\ <<"completion", s>> \in tx[i].held
    /\ tx[i].rows[s] \in Nat
    /\ covered[s] + tx[i].rows[s] <= Price[s]

PaidUp(i, s) == covered[s] + tx[i].rows[s] = Price[s]

\* All but the newest lesson that got money are paid up, and that one too as
\* long as there are others to come.
RowsOK(i) ==
    \A s \in DOMAIN tx[i].rows :
        /\ GivenOK(i, s)
        /\ Len(tx[i].todo) > 1 => PaidUp(i, s)
        /\ \A u \in DOMAIN tx[i].rows : CompletedAt[s] < CompletedAt[u] => PaidUp(i, s)

Locked(i) == PairLock(i) \in tx[i].held /\ tx[i].read \in Nat

SettleOK(i) ==
    LET q == tx[i].todo
        start == SettleTx(tx[i].job)
    IN
    \/ q = start /\ tx[i].rows = <<>>
    \/ q = Tail(start) /\ tx[i].rows = <<>>
    \/ q = Tail(Tail(start)) /\ tx[i].rows = <<>> /\ Locked(i)
    \/ Locked(i) /\ QueueOK(i) /\ RowsOK(i)

UncompleteOK(i) ==
    LET q == tx[i].todo
        start == UncompleteTx(tx[i].job)
    IN
    /\ tx[i].rows = <<>>
    /\ \/ q = start
       \/ /\ q \in {Tail(start), Tail(Tail(start))}
          /\ <<"completion", tx[i].job.lesson>> \in tx[i].held

TxOK(i) ==
    IF Running(i)
    THEN /\ tx[i].job \in Requests
         /\ tx[i].job.kind = "settle" => SettleOK(i)
         /\ tx[i].job.kind = "uncomplete" => UncompleteOK(i)
    ELSE tx[i].rows = <<>>

SettleInv ==
    /\ Shape /\ LocksExclude /\ Rows /\ CoverageWithinPrice
    /\ \A i \in Txns : TxOK(i)

-----------------------------------------------------------------------------
(* What InOrder delivers.                                                  *)

\* The lessons of S that are not newer than s, and how many they are.
UpTo(S, s) == {u \in S : CompletedAt[u] <= CompletedAt[s]}
Rank(S) == [s \in S |-> Cardinality(UpTo(S, s))]

Sorted(q, n) == \A a, b \in 1 .. n : a < b => CompletedAt[q[a]] < CompletedAt[q[b]]

\* The rank of a lesson grows with its age's order.
LEMMA RankGrows ==
    ASSUME NEW S, S \subseteq Lessons, NEW s \in S, NEW u \in S
    PROVE  /\ Rank(S)[s] \in 1 .. Cardinality(S)
           /\ CompletedAt[s] <= CompletedAt[u] => Rank(S)[s] <= Rank(S)[u]
           /\ CompletedAt[s] < CompletedAt[u] => Rank(S)[s] < Rank(S)[u]
  <1>1. IsFiniteSet(S) /\ Cardinality(S) \in Nat
    BY LedgerAssumption, FS_Subset, FS_CardinalityType
  <1>2. CompletedAt[s] \in Nat /\ CompletedAt[u] \in Nat
    BY LedgerAssumption
  <1>3. \A x \in S : CompletedAt[x] \in Nat
    BY LedgerAssumption
  <1>4. /\ IsFiniteSet(UpTo(S, s)) /\ Cardinality(UpTo(S, s)) \in Nat
        /\ Cardinality(UpTo(S, s)) <= Cardinality(S)
        /\ IsFiniteSet(UpTo(S, u)) /\ Cardinality(UpTo(S, u)) \in Nat
    <2>1. UpTo(S, s) \in SUBSET S /\ UpTo(S, u) \in SUBSET S
      BY DEF UpTo
    <2>. QED BY <1>1, <2>1, FS_Subset, FS_CardinalityType
  <1>5. Cardinality(UpTo(S, s)) # 0
    <2>1. s \in UpTo(S, s)
      BY <1>2 DEF UpTo
    <2>. QED BY <1>4, <2>1, FS_EmptySet
  <1>6. ASSUME CompletedAt[s] <= CompletedAt[u]
        PROVE  Cardinality(UpTo(S, s)) <= Cardinality(UpTo(S, u))
    <2>1. UpTo(S, s) \in SUBSET UpTo(S, u)
      BY <1>2, <1>3, <1>6 DEF UpTo
    <2>. QED BY <1>4, <2>1, FS_Subset
  <1>7. ASSUME CompletedAt[s] < CompletedAt[u]
        PROVE  Cardinality(UpTo(S, s)) < Cardinality(UpTo(S, u))
    <2>1. UpTo(S, s) \in SUBSET UpTo(S, u)
      BY <1>2, <1>3, <1>7 DEF UpTo
    <2>2. u \in UpTo(S, u) /\ u \notin UpTo(S, s)
      BY <1>2, <1>7 DEF UpTo
    <2>3. /\ Cardinality(UpTo(S, s)) <= Cardinality(UpTo(S, u))
          /\ Cardinality(UpTo(S, u)) = Cardinality(UpTo(S, s)) => UpTo(S, u) = UpTo(S, s)
      BY <1>4, <2>1, FS_Subset
    <2>. QED BY <1>4, <2>2, <2>3
  <1>8. Rank(S)[s] = Cardinality(UpTo(S, s)) /\ Rank(S)[u] = Cardinality(UpTo(S, u))
    BY DEF Rank
  <1>. QED BY <1>1, <1>4, <1>5, <1>6, <1>7, <1>8

\* Every set of lessons has an enumeration from the oldest to the newest.
LEMMA SomeOrder ==
    ASSUME NEW S, S \subseteq Lessons
    PROVE  /\ Cardinality(S) \in Nat
           /\ \E q \in [1 .. Cardinality(S) -> S] : Sorted(q, Cardinality(S))
  <1> DEFINE n == Cardinality(S)
             r == Rank(S)
  <1>1. IsFiniteSet(S) /\ n \in Nat
    BY LedgerAssumption, FS_Subset, FS_CardinalityType
  <1>2. r \in Injection(S, 1 .. n)
    <2>1. r \in [S -> 1 .. n]
      <3>1. \A s \in S : r[s] \in 1 .. n
        BY RankGrows
      <3>. QED BY <3>1 DEF Rank
    <2>2. ASSUME NEW s \in S, NEW u \in S, r[s] = r[u]
          PROVE  s = u
      <3>1. CompletedAt[s] \in Nat /\ CompletedAt[u] \in Nat
        BY LedgerAssumption
      <3>2. r[s] \in Nat /\ r[u] \in Nat
        BY <1>1, RankGrows
      <3>3. ~(CompletedAt[s] < CompletedAt[u]) /\ ~(CompletedAt[u] < CompletedAt[s])
        BY <2>2, <3>2, RankGrows
      <3>4. CompletedAt[s] = CompletedAt[u]
        BY <3>1, <3>3
      <3>. QED BY <3>4, LedgerAssumption
    <2>. QED BY <2>1, <2>2 DEF Injection, IsInjective
  <1>3. IsFiniteSet(1 .. n) /\ Cardinality(1 .. n) = n
    BY <1>1, FS_Interval
  <1>4. r \in Surjection(S, 1 .. n)
    BY <1>1, <1>2, <1>3, FS_Injection
  <1>5. \A k \in 1 .. n : \E s \in S : r[s] = k
    BY <1>4 DEF Surjection
  <1> DEFINE q == [k \in 1 .. n |-> CHOOSE s \in S : r[s] = k]
  <1>6. \A k \in 1 .. n : q[k] \in S /\ r[q[k]] = k
    BY <1>5
  <1>7. q \in [1 .. n -> S]
    BY <1>6
  <1> HIDE DEF q
  <1>8. ASSUME NEW a \in 1 .. n, NEW b \in 1 .. n, a < b
        PROVE  CompletedAt[q[a]] < CompletedAt[q[b]]
    <2>1. q[a] \in S /\ q[b] \in S /\ r[q[a]] = a /\ r[q[b]] = b
      BY <1>6
    <2>2. CompletedAt[q[a]] \in Nat /\ CompletedAt[q[b]] \in Nat
      BY <2>1, LedgerAssumption
    <2>3. CompletedAt[q[b]] <= CompletedAt[q[a]] => r[q[b]] <= r[q[a]]
      BY <2>1, RankGrows
    <2>4. ~(b <= a)
      BY <1>1, <1>8
    <2>. QED BY <2>1, <2>2, <2>3, <2>4
  <1>9. Sorted(q, n)
    BY <1>8 DEF Sorted
  <1>. QED BY <1>1, <1>7, <1>9

\* InOrder enumerates any set of lessons from the oldest to the newest.
LEMMA InOrderSorts ==
    ASSUME NEW S, S \subseteq Lessons
    PROVE  /\ Cardinality(S) \in Nat
           /\ InOrder(S) \in [1 .. Cardinality(S) -> S]
           /\ Sorted(InOrder(S), Cardinality(S))
  BY SomeOrder DEF InOrder, Sorted

-----------------------------------------------------------------------------
(* Sequences and steps.                                                    *)

\* A non-empty sequence, its head and its tail.
LEMMA HeadAndTail ==
    ASSUME NEW q, IsSeq(q), q # <<>>
    PROVE  /\ Len(q) \in Nat \ {0} /\ Head(q) = q[1]
           /\ IsSeq(Tail(q)) /\ Len(Tail(q)) = Len(q) - 1
           /\ \A k \in 1 .. Len(q) - 1 : Tail(q)[k] = q[k + 1]
           /\ Len(q) > 1 => Tail(q) # <<>>
  <1> DEFINE S == {q[k] : k \in 1 .. Len(q)}
             t == Tail(q)
  <1>1. q \in Seq(S)
    BY DEF IsSeq
  <1>2. Len(q) \in Nat \ {0}
    BY <1>1, EmptySeq
  <1>3. /\ t \in Seq(S) /\ Len(t) = Len(q) - 1
        /\ \A k \in 1 .. Len(t) : t[k] = q[k + 1]
    BY <1>1, HeadTailProperties
  <1>4. t \in Seq({t[k] : k \in 1 .. Len(t)})
    <2>1. Len(t) \in Nat /\ t \in [1 .. Len(t) -> S]
      BY <1>3, LenProperties
    <2> HIDE DEF t
    <2>. QED BY <2>1
  <1>5. Len(q) > 1 => t # <<>>
    <2>1. ASSUME Len(q) > 1, t = <<>> PROVE FALSE
      BY <1>2, <1>3, <2>1
    <2>. QED BY <2>1
  <1>6. Head(q) = q[1]
    BY <1>1, <1>2
  <1>. QED BY <1>2, <1>3, <1>4, <1>5, <1>6 DEF IsSeq

IsRow(e) ==
    e = [job |-> e.job, todo |-> e.todo, held |-> e.held, read |-> e.read, rows |-> e.rows]

\* Another transaction is not touched.
Only(i) == Shape' /\ \A j \in Txns : j # i => tx'[j] = tx[j]

\* Replacing the row of one transaction.
LEMMA Replaced ==
    ASSUME Shape, NEW i \in Txns, NEW e, IsRow(e), tx' = [tx EXCEPT ![i] = e]
    PROVE  Only(i) /\ tx'[i] = e
  <1>1. DOMAIN tx = Txns /\ DOMAIN tx' = Txns
    BY DEF Shape
  <1>2. tx'[i] = e /\ \A j \in Txns : j # i => tx'[j] = tx[j]
    BY <1>1
  <1>3. \A j \in Txns : tx[j] = [job |-> tx[j].job, todo |-> tx[j].todo,
                                 held |-> tx[j].held, read |-> tx[j].read,
                                 rows |-> tx[j].rows]
    BY DEF Shape
  <1>4. \A j \in Txns : tx'[j] = [job |-> tx'[j].job, todo |-> tx'[j].todo,
                                  held |-> tx'[j].held, read |-> tx'[j].read,
                                  rows |-> tx'[j].rows]
    BY <1>2, <1>3 DEF IsRow
  <1>5. tx' = [j \in Txns |-> tx'[j]]
    BY <1>1
  <1>6. Shape'
    BY <1>4, <1>5 DEF Shape
  <1>. QED BY <1>2, <1>6 DEF Only

\* The row of a transaction.
LEMMA RowShape ==
    ASSUME Shape, NEW i \in Txns
    PROVE  IsRow(tx[i])
  BY DEF Shape, IsRow

\* A statement that ran: the program goes on behind it, its locks are kept.
LEMMA Advanced ==
    ASSUME Shape, NEW i \in Txns, NEW upd, IsRow(upd), Advance(i, upd)
    PROVE  /\ Only(i)
           /\ tx'[i].job = upd.job /\ tx'[i].todo = Tail(upd.todo)
           /\ tx'[i].held = upd.held \cup Head(tx[i].todo).locks
           /\ tx'[i].read = upd.read /\ tx'[i].rows = upd.rows
  <1>1. PICK t0, h0 : t0 = Tail(upd.todo) /\ h0 = upd.held \cup Head(tx[i].todo).locks
    OBVIOUS
  <1>2. PICK e : e = [upd EXCEPT !.todo = t0, !.held = h0]
    OBVIOUS
  <1>3. tx' = [tx EXCEPT ![i] = e]
    BY <1>1, <1>2 DEF Advance
  <1>4. IsRow(e) /\ e.job = upd.job /\ e.todo = t0 /\ e.held = h0
        /\ e.read = upd.read /\ e.rows = upd.rows
    BY <1>2 DEF IsRow
  <1>5. Only(i) /\ tx'[i] = e
    BY <1>3, <1>4, Replaced
  <1>. QED BY <1>1, <1>4, <1>5

\* The end of a transaction.
LEMMA Closed ==
    ASSUME Shape, NEW i \in Txns, Close(i)
    PROVE  Only(i) /\ tx'[i].todo = <<>> /\ tx'[i].held = {} /\ tx'[i].rows = <<>>
  <1>1. PICK j0 : j0 = tx[i].job
    OBVIOUS
  <1>2. PICK e : e = [Idle EXCEPT !.job = j0]
    OBVIOUS
  <1>3. tx' = [tx EXCEPT ![i] = e]
    BY <1>1, <1>2 DEF Close
  <1>4. IsRow(e) /\ e.todo = <<>> /\ e.held = {} /\ e.rows = <<>>
    BY <1>2 DEF IsRow, Idle
  <1>. QED BY <1>3, <1>4, Replaced

\* The beginning of a transaction.
LEMMA Begun ==
    ASSUME Shape, NEW i \in Txns, NEW job, NEW program, Begin(i, job, program)
    PROVE  /\ Only(i) /\ tx'[i].job = job /\ tx'[i].todo = program
           /\ tx'[i].held = {} /\ tx'[i].rows = <<>>
  <1>1. PICK e : e = [Idle EXCEPT !.job = job, !.todo = program]
    OBVIOUS
  <1>2. tx' = [tx EXCEPT ![i] = e]
    BY <1>1 DEF Begin
  <1>3. IsRow(e) /\ e.job = job /\ e.todo = program /\ e.held = {} /\ e.rows = <<>>
    BY <1>1 DEF IsRow, Idle
  <1>. QED BY <1>2, <1>3, Replaced

-----------------------------------------------------------------------------
(* Frames.                                                                 *)

\* What a step leaves alone for transaction j: the coverage of its pair while
\* it holds the pair, the completions it has locked.
Stable(j) ==
    \A s \in Lessons :
        /\ PairOf[s] = tx[j].job.pair /\ PairLock(j) \in tx[j].held
              => covered'[s] = covered[s]
        /\ <<"completion", s>> \in tx[j].held /\ s \in completed => s \in completed'

\* A transaction is right after a step of another that leaves it alone.
LEMMA Undisturbed ==
    ASSUME NEW j \in Txns, TxOK(j), tx'[j] = tx[j], Stable(j)
    PROVE  TxOK(j)'
  <1>1. Running(j)' <=> Running(j)
    BY DEF Running
  <1>2. CASE ~Running(j)
    BY <1>1, <1>2 DEF TxOK
  <1>3. CASE Running(j)
    <2>1. tx[j].job \in Requests /\ tx'[j].job \in Requests
      BY <1>3 DEF TxOK
    <2>2. ASSUME tx[j].job.kind = "settle" PROVE SettleOK(j)'
      <3>1. SettleOK(j)
        BY <1>3, <2>2 DEF TxOK
      <3>2. Locked(j) => Locked(j)'
        BY DEF Locked, PairLock
      <3>3. ASSUME Locked(j), QueueOK(j) PROVE QueueOK(j)'
        <4>1. ASSUME NEW h, InQueue(j, h) PROVE InQueue(j, h)'
          BY <3>3, <4>1 DEF InQueue, IsStmt, Stable, Locked
        <4> DEFINE q == tx[j].todo
        <4>2. tx'[j].todo = q
          OBVIOUS
        <4>3. /\ IsSeq(q) /\ IsStmt(q[Len(q)], "commitSettle", tx[j].job.pair, {})
              /\ \A k \in 1 .. Len(q) - 1 : InQueue(j, q[k])
              /\ \A k, m \in 1 .. Len(q) - 1 :
                    k < m => CompletedAt[q[k].arg[1]] < CompletedAt[q[m].arg[1]]
          BY <3>3 DEF QueueOK
        <4>4. \A k \in 1 .. Len(q) - 1 : InQueue(j, q[k])'
          BY <4>1, <4>3
        <4>. QED BY <4>2, <4>3, <4>4 DEF QueueOK
      <3>4. ASSUME Locked(j), RowsOK(j) PROVE RowsOK(j)'
        <4>1. ASSUME NEW s \in DOMAIN tx[j].rows
              PROVE  GivenOK(j, s)' /\ covered'[s] = covered[s]
          <5>1. GivenOK(j, s)
            BY <3>4 DEF RowsOK
          <5>. QED BY <3>4, <5>1 DEF GivenOK, Stable, Locked
        <4>. QED BY <3>4, <4>1 DEF RowsOK, PaidUp
      <3>. QED BY <3>1, <3>2, <3>3, <3>4 DEF SettleOK
    <2>3. ASSUME tx[j].job.kind = "uncomplete" PROVE UncompleteOK(j)'
      BY <1>3, <2>3 DEF TxOK, UncompleteOK
    <2>. QED BY <1>1, <1>3, <2>1, <2>2, <2>3 DEF TxOK
  <1>. QED BY <1>2, <1>3

\* Locks still exclude each other when only free ones were taken.
LEMMA StillExclude ==
    ASSUME LocksExclude, NEW i \in Txns, NEW L, \A r \in L : Free(i, r), Only(i),
           tx'[i].held \subseteq tx[i].held \cup L
    PROVE  LocksExclude'
  <1>1. ASSUME NEW j \in Txns, j # i
        PROVE  tx'[i].held \cap tx'[j].held = {} /\ tx'[j].held \cap tx'[i].held = {}
    <2>1. tx'[j] = tx[j] /\ tx[i].held \cap tx[j].held = {}
      BY <1>1 DEF Only, LocksExclude
    <2>2. \A r \in L : r \notin tx[j].held
      BY <1>1 DEF Free
    <2>. QED BY <2>1, <2>2
  <1>2. ASSUME NEW j \in Txns, NEW k \in Txns, j # k, j # i, k # i
        PROVE  tx'[j].held \cap tx'[k].held = {}
    BY <1>2 DEF Only, LocksExclude
  <1>. QED BY <1>1, <1>2 DEF LocksExclude

\* A step of one transaction that leaves the tables alone.
LEMMA QuietStep ==
    ASSUME SettleInv, NEW i \in Txns, Only(i), UNCHANGED rows, TxOK(i)',
           \/ tx'[i].held \subseteq tx[i].held
           \/ /\ \A r \in Head(tx[i].todo).locks : Free(i, r)
              /\ tx'[i].held = tx[i].held \cup Head(tx[i].todo).locks
    PROVE  SettleInv'
  <1>1. LocksExclude'
    <2>1. LocksExclude
      BY DEF SettleInv
    <2>2. PICK L : (\A r \in L : Free(i, r)) /\ tx'[i].held \subseteq tx[i].held \cup L
      <3>1. CASE tx'[i].held \subseteq tx[i].held
        <4>1. PICK L : L = {}
          OBVIOUS
        <4>2. (\A r \in L : Free(i, r)) /\ tx'[i].held \subseteq tx[i].held \cup L
          BY <3>1, <4>1
        <4>. QED BY <4>2
      <3>2. CASE /\ \A r \in Head(tx[i].todo).locks : Free(i, r)
                 /\ tx'[i].held = tx[i].held \cup Head(tx[i].todo).locks
        <4>1. PICK L : L = Head(tx[i].todo).locks
          OBVIOUS
        <4>2. (\A r \in L : Free(i, r)) /\ tx'[i].held \subseteq tx[i].held \cup L
          BY <3>2, <4>1
        <4>. QED BY <4>2
      <3>. QED BY <3>1, <3>2
    <2>. QED BY <2>1, <2>2, StillExclude
  <1>2. Rows' /\ CoverageWithinPrice'
    BY DEF SettleInv, Rows, CoverageWithinPrice, rows
  <1>3. ASSUME NEW j \in Txns, j # i PROVE TxOK(j)'
    <2>1. TxOK(j) /\ tx'[j] = tx[j]
      BY <1>3 DEF SettleInv, Only
    <2>2. Stable(j)
      BY DEF Stable, rows
    <2>. QED BY <2>1, <2>2, Undisturbed
  <1>. QED BY <1>1, <1>2, <1>3 DEF SettleInv, Only

\* Ending without a write.
LEMMA QuietClose ==
    ASSUME SettleInv, NEW i \in Txns, Close(i), UNCHANGED rows
    PROVE  SettleInv'
  <1>1. /\ Only(i) /\ tx'[i].todo = <<>> /\ tx'[i].held = {} /\ tx'[i].rows = <<>>
    BY Closed DEF SettleInv
  <1>2. TxOK(i)'
    BY <1>1 DEF TxOK, Running
  <1>. QED BY <1>1, <1>2, QuietStep

-----------------------------------------------------------------------------
(* Where a transaction is.                                                 *)

Settles(i) == tx[i].job \in Requests /\ tx[i].job.kind = "settle"
Uncompletes(i) == tx[i].job \in Requests /\ tx[i].job.kind = "uncomplete"

Walks(i) == Settles(i) /\ Locked(i) /\ QueueOK(i) /\ RowsOK(i)

\* The program of a settlement, statement by statement.
LEMMA SettleProgram ==
    ASSUME NEW job
    PROVE  LET p == SettleTx(job) IN
           /\ IsStmt(Head(p), "recent", job.pair, {})
           /\ IsStmt(Head(Tail(p)), "lockPair", job.pair, {<<"settle-lessons", job.pair>>})
           /\ IsStmt(Head(Tail(Tail(p))), "candidates", job.pair, {})
           /\ Tail(Tail(Tail(p))) = <<Stmt("commitSettle", job.pair, {})>>
           /\ p # <<>> /\ Tail(p) # <<>> /\ Tail(Tail(p)) # <<>>
  BY DEF SettleTx, Stmt, IsStmt

\* The program of an un-complete.
LEMMA UncompleteProgram ==
    ASSUME NEW job
    PROVE  LET p == UncompleteTx(job) IN
           /\ IsStmt(Head(p), "lockCompletion", job.lesson, {<<"completion", job.lesson>>})
           /\ IsStmt(Head(Tail(p)), "gates", job.lesson, {})
           /\ IsStmt(Head(Tail(Tail(p))), "delete", job.lesson, {})
           /\ p # <<>> /\ Tail(p) # <<>> /\ Tail(Tail(p)) # <<>>
  BY DEF UncompleteTx, Stmt, IsStmt

\* A number that is not zero.
LEMMA OneOrMore ==
    ASSUME NEW n \in Nat \ {0}
    PROVE  n = 1 \/ n > 1
  OBVIOUS

\* A number greater than one.
LEMMA OneInside ==
    ASSUME NEW n \in Nat \ {0}, n > 1
    PROVE  1 \in 1 .. n - 1
  OBVIOUS

\* Every transaction that runs is at one of eight statements.
LEMMA Placed ==
    ASSUME SettleInv, NEW i \in Txns, Running(i)
    PROVE  LET q == tx[i].todo
               h == Head(q)
               p == tx[i].job.pair
               s == tx[i].job.lesson
               settle == SettleTx(tx[i].job)
               undo == UncompleteTx(tx[i].job)
           IN
           \/ /\ IsStmt(h, "recent", p, {})
              /\ Settles(i) /\ tx[i].rows = <<>> /\ q = settle
           \/ /\ IsStmt(h, "lockPair", p, {PairLock(i)})
              /\ Settles(i) /\ tx[i].rows = <<>> /\ q = Tail(settle)
           \/ /\ IsStmt(h, "candidates", p, {})
              /\ Settles(i) /\ tx[i].rows = <<>> /\ q = Tail(Tail(settle)) /\ Locked(i)
           \/ /\ IsStmt(h, "commitSettle", p, {})
              /\ Walks(i)
           \/ /\ InQueue(i, h) /\ h.op = "allocate"
              /\ Walks(i) /\ Len(q) > 1
           \/ /\ IsStmt(h, "lockCompletion", s, {<<"completion", s>>})
              /\ Uncompletes(i) /\ tx[i].rows = <<>> /\ q = undo
           \/ /\ IsStmt(h, "gates", s, {})
              /\ Uncompletes(i) /\ tx[i].rows = <<>> /\ q = Tail(undo)
              /\ <<"completion", s>> \in tx[i].held
           \/ /\ IsStmt(h, "delete", s, {})
              /\ Uncompletes(i) /\ tx[i].rows = <<>> /\ <<"completion", s>> \in tx[i].held
  <1> DEFINE q == tx[i].todo
  <1>1. TxOK(i) /\ q # <<>> /\ tx[i].job \in Requests
    BY DEF SettleInv, TxOK, Running
  <1>2. tx[i].job.kind \in {"settle", "uncomplete"}
    BY <1>1, RequestsAssumption, SMTT(40)
  <1>3. CASE tx[i].job.kind = "settle"
    <2>1. SettleOK(i) /\ Settles(i)
      BY <1>1, <1>3 DEF TxOK, Running, Settles
    <2>2. CASE q = SettleTx(tx[i].job) /\ tx[i].rows = <<>>
      BY <2>1, <2>2, SettleProgram
    <2>3. CASE q = Tail(SettleTx(tx[i].job)) /\ tx[i].rows = <<>>
      BY <2>1, <2>3, SettleProgram DEF PairLock
    <2>4. CASE q = Tail(Tail(SettleTx(tx[i].job))) /\ tx[i].rows = <<>> /\ Locked(i)
      BY <2>1, <2>4, SettleProgram
    <2>5. CASE Locked(i) /\ QueueOK(i) /\ RowsOK(i)
      <3>1. /\ IsSeq(q) /\ IsStmt(q[Len(q)], "commitSettle", tx[i].job.pair, {})
            /\ \A k \in 1 .. Len(q) - 1 : InQueue(i, q[k])
        BY <2>5 DEF QueueOK
      <3>2. Len(q) \in Nat \ {0} /\ Head(q) = q[1]
        BY <1>1, <3>1, HeadAndTail
      <3>3. Walks(i)
        BY <2>1, <2>5 DEF Walks
      <3>4. CASE Len(q) = 1
        <4>1. IsStmt(Head(q), "commitSettle", tx[i].job.pair, {})
          BY <3>1, <3>2, <3>4
        <4>. QED BY <3>3, <4>1
      <3>5. CASE Len(q) > 1
        <4>1. 1 \in 1 .. Len(q) - 1
          BY <3>2, <3>5, OneInside
        <4>2. InQueue(i, Head(q))
          BY <3>1, <3>2, <4>1, SMTT(40)
        <4>3. Head(q).op = "allocate"
          BY <4>2 DEF InQueue, IsStmt
        <4>. QED BY <3>3, <3>5, <4>2, <4>3
      <3>6. Len(q) = 1 \/ Len(q) > 1
        BY <3>2, OneOrMore
      <3>. QED BY <3>4, <3>5, <3>6
    <2>. QED BY <2>1, <2>2, <2>3, <2>4, <2>5 DEF SettleOK
  <1>4. CASE tx[i].job.kind = "uncomplete"
    <2>1. UncompleteOK(i) /\ Uncompletes(i)
      BY <1>1, <1>4 DEF TxOK, Running, Uncompletes
    <2>. QED BY <2>1, UncompleteProgram DEF UncompleteOK
  <1>. QED BY <1>2, <1>3, <1>4, ZenonT(60)

-----------------------------------------------------------------------------
(* One lemma per statement.                                                *)

\* A transaction whose row is as it should be is right.
LEMMA SettleRight ==
    ASSUME NEW i \in Txns, Settles(i), tx'[i].job = tx[i].job, SettleOK(i)',
           tx'[i].todo # <<>>
    PROVE  TxOK(i)'
  BY DEF Settles, TxOK, Running

\* The search for a twin.
LEMMA FindRecentInv ==
    ASSUME SettleInv, NEW i \in Txns, FindRecent(i)
    PROVE  SettleInv'
  <1>1. CASE Close(i)
    BY <1>1, QuietClose DEF FindRecent
  <1>2. CASE Advance(i, tx[i])
    <2>1. Running(i) /\ Head(tx[i].todo).op = "recent"
      BY SMTT(40) DEF FindRecent, At, Running
    <2>2. /\ Settles(i) /\ tx[i].rows = <<>> /\ tx[i].todo = SettleTx(tx[i].job)
          /\ Head(tx[i].todo).locks = {}
      BY <2>1, Placed DEF IsStmt, InQueue
    <2>3. /\ Only(i) /\ tx'[i].job = tx[i].job /\ tx'[i].todo = Tail(tx[i].todo)
          /\ tx'[i].held = tx[i].held \cup {} /\ tx'[i].rows = tx[i].rows
      BY <1>2, <2>2, Advanced, RowShape DEF SettleInv
    <2>4. SettleOK(i)' /\ tx'[i].todo # <<>>
      BY <2>2, <2>3, SettleProgram DEF SettleOK
    <2>5. TxOK(i)'
      BY <2>2, <2>3, <2>4, SettleRight
    <2>6. tx'[i].held \subseteq tx[i].held
      BY <2>3
    <2>7. UNCHANGED rows
      BY DEF FindRecent
    <2>. QED BY <2>3, <2>5, <2>6, <2>7, QuietStep
  <1>. QED BY <1>1, <1>2 DEF FindRecent

\* The pair lock.
LEMMA LockPairInv ==
    ASSUME SettleInv, NEW i \in Txns, LockPair(i)
    PROVE  SettleInv'
  <1>1. Running(i) /\ Head(tx[i].todo).op = "lockPair"
    BY DEF LockPair, Ready, At, Running
  <1>2. /\ Settles(i) /\ tx[i].rows = <<>> /\ tx[i].todo = Tail(SettleTx(tx[i].job))
        /\ Head(tx[i].todo).locks = {PairLock(i)}
    BY <1>1, Placed DEF IsStmt, InQueue
  <1>3. tx[i].job.amount \in Nat
    BY <1>2, RequestsAssumption DEF Settles
  <1>4. PICK upd : upd = [tx[i] EXCEPT !.read = tx[i].job.amount]
    OBVIOUS
  <1>5. IsRow(tx[i])
    BY RowShape DEF SettleInv
  <1>6. /\ IsRow(upd) /\ upd.job = tx[i].job /\ upd.todo = tx[i].todo
        /\ upd.held = tx[i].held /\ upd.read = tx[i].job.amount /\ upd.rows = tx[i].rows
    BY <1>4, <1>5 DEF IsRow
  <1>7. Advance(i, upd)
    BY <1>4 DEF LockPair
  <1>8. /\ Only(i) /\ tx'[i].job = tx[i].job /\ tx'[i].todo = Tail(tx[i].todo)
        /\ tx'[i].held = tx[i].held \cup {PairLock(i)} /\ tx'[i].rows = tx[i].rows
        /\ tx'[i].read = tx[i].job.amount
    <2>1. Shape
      BY DEF SettleInv
    <2>2. /\ Only(i)
          /\ tx'[i].job = upd.job /\ tx'[i].todo = Tail(upd.todo)
          /\ tx'[i].held = upd.held \cup Head(tx[i].todo).locks
          /\ tx'[i].read = upd.read /\ tx'[i].rows = upd.rows
      BY <1>6, <1>7, <2>1, Advanced
    <2>. QED BY <1>2, <1>6, <2>2
  <1>9. Locked(i)'
    BY <1>3, <1>8 DEF Locked, PairLock
  <1>10. SettleOK(i)' /\ tx'[i].todo # <<>>
    BY <1>2, <1>8, <1>9, SettleProgram DEF SettleOK
  <1>11. TxOK(i)'
    BY <1>2, <1>8, <1>10, SettleRight
  <1>12. /\ \A r \in Head(tx[i].todo).locks : Free(i, r)
         /\ tx'[i].held = tx[i].held \cup Head(tx[i].todo).locks
    BY <1>2, <1>8 DEF LockPair, Ready
  <1>13. UNCHANGED rows
    BY DEF LockPair
  <1>. QED BY <1>8, <1>11, <1>12, <1>13, QuietStep

\* What has a length is not empty.
LEMMA NonEmpty ==
    ASSUME NEW t, Len(t) \in Nat \ {0}
    PROVE  t # <<>>
  <1>1. Len(<<>>) = 0
    OBVIOUS
  <1>. QED BY <1>1, Zenon

\* A function on 1 .. n is a sequence of length n.
LEMMA FcnSeq ==
    ASSUME NEW n \in Nat, NEW f, NEW S, f \in [1 .. n -> S]
    PROVE  f \in Seq(S) /\ Len(f) = n
  OBVIOUS

Splice(h, ins, c) == Tail(<<h>> \o ins \o <<c>>)

\* u is the insertions and a last statement.
Queued(u, n, ins, c) ==
    /\ IsSeq(u) /\ Len(u) = n + 1 /\ u[Len(u)] = c
    /\ \A k \in 1 .. n : u[k] = ins[k]

\* What is left when the insertions follow the statement that ran.
LEMMA Spliced ==
    ASSUME NEW n \in Nat, NEW S, NEW ins \in [1 .. n -> S], NEW h, NEW c, NEW u,
           u = Splice(h, ins, c)
    PROVE  Queued(u, n, ins, c)
  <1> DEFINE T == S \cup {h, c}
             a == <<h>> \o ins
             b == a \o <<c>>
             t == Tail(b)
  <1>1. ins \in Seq(T) /\ Len(ins) = n
    <2>1. ins \in [1 .. n -> T]
      OBVIOUS
    <2>. QED BY <2>1, FcnSeq
  <1>2. <<h>> \in Seq(T) /\ Len(<<h>>) = 1 /\ <<c>> \in Seq(T) /\ Len(<<c>>) = 1
        /\ <<h>>[1] = h /\ <<c>>[1] = c
    OBVIOUS
  <1>3. /\ a \in Seq(T) /\ Len(a) = n + 1
        /\ \A k \in 1 .. n + 1 : a[k] = IF k <= 1 THEN h ELSE ins[k - 1]
    <2> DEFINE o == <<h>>
    <2>1. o \in Seq(T) /\ Len(o) = 1 /\ o[1] = h
      BY <1>2
    <2> HIDE DEF o
    <2>2. /\ o \o ins \in Seq(T) /\ Len(o \o ins) = Len(o) + Len(ins)
          /\ \A k \in 1 .. Len(o) + Len(ins) :
               (o \o ins)[k] = IF k <= Len(o) THEN o[k] ELSE ins[k - Len(o)]
      BY <1>1, <2>1, ConcatProperties
    <2>3. /\ o \o ins \in Seq(T) /\ Len(o \o ins) = n + 1
          /\ \A k \in 1 .. n + 1 : (o \o ins)[k] = IF k <= 1 THEN o[k] ELSE ins[k - 1]
      BY <1>1, <2>1, <2>2
    <2>4. \A k \in 1 .. n + 1 : k <= 1 => o[k] = h
      BY <2>1
    <2>. QED BY <2>3, <2>4 DEF o
  <1> HIDE DEF a
  <1>4. /\ b \in Seq(T) /\ Len(b) = n + 2
        /\ \A k \in 1 .. n + 2 : b[k] = IF k <= n + 1 THEN a[k] ELSE c
    <2> DEFINE o == <<c>>
    <2>1. o \in Seq(T) /\ Len(o) = 1 /\ o[1] = c
      BY <1>2
    <2> HIDE DEF o
    <2>2. /\ a \o o \in Seq(T) /\ Len(a \o o) = Len(a) + Len(o)
          /\ \A k \in 1 .. Len(a) + Len(o) :
               (a \o o)[k] = IF k <= Len(a) THEN a[k] ELSE o[k - Len(a)]
      BY <1>3, <2>1, ConcatProperties
    <2>3. /\ a \o o \in Seq(T) /\ Len(a \o o) = n + 2
          /\ \A k \in 1 .. n + 2 :
               (a \o o)[k] = IF k <= n + 1 THEN a[k] ELSE o[k - (n + 1)]
      BY <1>3, <2>1, <2>2
    <2>4. \A k \in 1 .. n + 2 : ~(k <= n + 1) => k - (n + 1) = 1
      OBVIOUS
    <2>. QED BY <2>1, <2>3, <2>4 DEF o
  <1> HIDE DEF b
  <1>5. b # <<>>
    BY <1>4, EmptySeq
  <1>6. /\ t \in Seq(T) /\ Len(t) = n + 1
        /\ \A k \in 1 .. n + 1 : t[k] = b[k + 1]
    BY <1>4, <1>5, HeadTailProperties
  <1>7. IsSeq(t)
    <2>1. t \in [1 .. n + 1 -> T]
      BY <1>6, LenProperties
    <2> HIDE DEF t
    <2>2. t \in [1 .. n + 1 -> {t[k] : k \in 1 .. n + 1}]
      BY <2>1
    <2>. QED BY <1>6, <2>2, FcnSeq DEF IsSeq
  <1>9. \A k \in 1 .. n : t[k] = ins[k]
    <2>1. ASSUME NEW k \in 1 .. n PROVE t[k] = ins[k]
      <3>1. /\ k \in 1 .. n + 1 /\ k + 1 \in 1 .. n + 2 /\ k + 1 <= n + 1
            /\ k + 1 \in 1 .. n + 1 /\ ~(k + 1 <= 1) /\ (k + 1) - 1 = k
        OBVIOUS
      <3> HIDE DEF t
      <3>2. t[k] = b[k + 1] /\ b[k + 1] = a[k + 1]
        BY <1>4, <1>6, <3>1
      <3>3. a[k + 1] = ins[(k + 1) - 1]
        BY <1>3, <3>1
      <3>. QED BY <3>1, <3>2, <3>3
    <2>. QED BY <2>1
  <1>10. \A k : k = n + 1 => t[k] = c
    <2>1. n + 1 \in 1 .. n + 1 /\ (n + 1) + 1 \in 1 .. n + 2 /\ ~((n + 1) + 1 <= n + 1)
      OBVIOUS
    <2> HIDE DEF t
    <2>2. t[n + 1] = b[(n + 1) + 1]
      BY <1>6, <2>1
    <2>3. b[(n + 1) + 1] = c
      BY <1>4, <2>1
    <2>. QED BY <2>2, <2>3
  <1>11. u = t
    BY DEF a, b, Splice
  <1> HIDE DEF t
  <1>12. t[Len(t)] = c
    BY <1>6, <1>10, SMTT(40)
  <1>. QED BY <1>6, <1>7, <1>9, <1>11, <1>12 DEF Queued

\* The grouped select: the outstanding lessons are queued, oldest first.
LEMMA CandidatesInv ==
    ASSUME SettleInv, NEW i \in Txns, Candidates(i)
    PROVE  SettleInv'
  <1> DEFINE job == tx[i].job
             found == Outstanding(job.pair) \cap (IF job.ids = {} THEN Lessons ELSE job.ids)
             queue == InOrder(found)
             inserts == [k \in DOMAIN queue |->
                           Stmt("allocate", <<queue[k], Price[queue[k]] - covered[queue[k]]>>,
                                {<<"completion", queue[k]>>})]
             next == <<Head(tx[i].todo)>> \o inserts \o Tail(tx[i].todo)
             n == Cardinality(found)
             c == Stmt("commitSettle", job.pair, {})
  <1>1. CASE Close(i)
    BY <1>1, QuietClose DEF Candidates
  <1>2. CASE Advance(i, [tx[i] EXCEPT !.todo = next])
    <2>1. Running(i) /\ Head(tx[i].todo).op = "candidates"
      BY DEF Candidates, At, Running
    <2>2. /\ Settles(i) /\ tx[i].rows = <<>> /\ tx[i].todo = Tail(Tail(SettleTx(job)))
          /\ Head(tx[i].todo).locks = {} /\ Locked(i)
      BY <2>1, Placed DEF IsStmt, InQueue
    <2>3. Tail(tx[i].todo) = <<c>>
      BY <2>2, SettleProgram
    <2>4. found \subseteq Lessons /\ \A s \in found : PairOf[s] = job.pair /\ covered[s] < Price[s]
      BY DEF SettleInv, Rows, Outstanding
    <2>5. n \in Nat /\ queue \in [1 .. n -> found] /\ Sorted(queue, n)
      <3> HIDE DEF found
      <3>. QED BY <2>4, InOrderSorts
    <2> HIDE DEF found, queue, n
    <2>6. DOMAIN queue = 1 .. n
      BY <2>5
    <2>7. inserts \in [1 .. n -> {inserts[k] : k \in 1 .. n}]
      BY <2>6
    <2>8. ASSUME NEW k \in 1 .. n
          PROVE  /\ queue[k] \in found
                 /\ IsStmt(inserts[k], "allocate",
                           <<queue[k], Price[queue[k]] - covered[queue[k]]>>,
                           {<<"completion", queue[k]>>})
      BY <2>5, <2>6 DEF Stmt, IsStmt
    <2> HIDE DEF inserts
    <2>9. PICK t : t = Tail(next)
      OBVIOUS
    <2>10. /\ IsSeq(t) /\ Len(t) = n + 1 /\ t[Len(t)] = c /\ t # <<>>
           /\ \A k \in 1 .. n : t[k] = inserts[k]
      <3>1. PICK h, ins, S, m, e : /\ h = Head(tx[i].todo) /\ ins = inserts
                                   /\ S = {inserts[k] : k \in 1 .. n}
                                   /\ m = n /\ e = c
        OBVIOUS
      <3>2. next = <<h>> \o ins \o <<e>>
        BY <2>3, <3>1
      <3> HIDE DEF c, next
      <3>3. m \in Nat /\ ins \in [1 .. m -> S]
        BY <2>5, <2>7, <3>1
      <3>4. t = Splice(h, ins, e)
        BY <2>9, <3>2 DEF Splice
      <3>5. /\ IsSeq(t) /\ Len(t) = m + 1 /\ t[Len(t)] = e
            /\ \A k \in 1 .. m : t[k] = ins[k]
        <4>1. Queued(t, m, ins, e)
          BY <3>3, <3>4, Spliced
        <4>. QED BY <4>1 DEF Queued
      <3>6. Len(t) \in Nat \ {0}
        BY <3>3, <3>5
      <3>. QED BY <3>1, <3>5, <3>6, NonEmpty
    <2>11. PICK nx : nx = next
      OBVIOUS
    <2> HIDE DEF next
    <2>12. PICK upd : upd = [tx[i] EXCEPT !.todo = nx]
      OBVIOUS
    <2>13. /\ IsRow(upd) /\ upd.job = tx[i].job /\ upd.todo = nx /\ upd.held = tx[i].held
           /\ upd.read = tx[i].read /\ upd.rows = tx[i].rows
      <3>1. IsRow(tx[i])
        BY RowShape DEF SettleInv
      <3>. QED BY <2>12, <3>1 DEF IsRow
    <2>14. /\ Only(i) /\ tx'[i].job = tx[i].job /\ tx'[i].todo = t
           /\ tx'[i].held = tx[i].held /\ tx'[i].read = tx[i].read /\ tx'[i].rows = <<>>
      <3>1. Shape /\ Advance(i, upd)
        BY <1>2, <2>11, <2>12 DEF SettleInv
      <3>2. /\ Only(i)
            /\ tx'[i].job = upd.job /\ tx'[i].todo = Tail(upd.todo)
            /\ tx'[i].held = upd.held \cup Head(tx[i].todo).locks
            /\ tx'[i].read = upd.read /\ tx'[i].rows = upd.rows
        BY <2>13, <3>1, Advanced
      <3>. QED BY <2>2, <2>9, <2>11, <2>13, <3>2
    <2>15. covered' = covered
      BY DEF Candidates, rows
    <2>16. QueueOK(i)'
      <3>1. n = Len(t) - 1 /\ Len(t) = n + 1
        BY <2>5, <2>10
      <3>2. ASSUME NEW k \in 1 .. n
            PROVE  /\ t[k].arg[1] = queue[k]
                   /\ InQueue(i, t[k])'
        <4>1. PICK s : s = queue[k]
          OBVIOUS
        <4>2. /\ s \in found /\ t[k] = inserts[k]
              /\ IsStmt(t[k], "allocate", <<s, Price[s] - covered[s]>>, {<<"completion", s>>})
          BY <2>8, <2>10, <4>1
        <4>3. t[k].arg[1] = s
          BY <4>2 DEF IsStmt
        <4>4. s \in Lessons /\ PairOf[s] = job.pair /\ covered[s] < Price[s]
          BY <2>4, <4>2
        <4>. QED BY <2>14, <2>15, <4>1, <4>2, <4>3, <4>4 DEF InQueue, IsStmt
      <3>3. \A k, m \in 1 .. n : k < m => CompletedAt[t[k].arg[1]] < CompletedAt[t[m].arg[1]]
        BY <2>5, <3>2 DEF Sorted
      <3>4. IsStmt(t[Len(t)], "commitSettle", job.pair, {})
        BY <2>10, <3>1 DEF Stmt, IsStmt
      <3>. QED BY <2>10, <2>14, <3>1, <3>2, <3>3, <3>4 DEF QueueOK, IsStmt
    <2>17. RowsOK(i)' /\ Locked(i)'
      BY <2>2, <2>14 DEF RowsOK, Locked, PairLock
    <2>18. SettleOK(i)' /\ tx'[i].todo # <<>>
      BY <2>10, <2>14, <2>16, <2>17 DEF SettleOK
    <2>19. TxOK(i)'
      BY <2>2, <2>14, <2>18, SettleRight, SMTT(40)
    <2>20. UNCHANGED rows
      BY DEF Candidates
    <2>21. tx'[i].held \subseteq tx[i].held
      BY <2>14
    <2>. QED BY <2>14, <2>19, <2>20, <2>21, QuietStep, ZenonT(60)
  <1>3. Close(i) \/ Advance(i, [tx[i] EXCEPT !.todo = next])
    BY Zenon DEF Candidates
  <1>. QED BY <1>1, <1>2, <1>3, ZenonT(60)

\* What one turn of the loop gives.
LEMMA LeastOf ==
    ASSUME NEW a \in Nat, NEW b \in Nat
    PROVE  /\ Least(a, b) \in Nat /\ Least(a, b) <= a /\ Least(a, b) <= b
           /\ b - Least(a, b) \in Nat
           /\ Least(a, b) # b => Least(a, b) = a
  BY DEF Least

\* A sequence of one statement.
LEMMA LastStmt ==
    ASSUME NEW h, NEW c
    PROVE  LET t == Tail(<<h, c>>) IN
           IsSeq(t) /\ Len(t) = 1 /\ t[1] = c /\ t # <<>>
  <1>1. Tail(<<h, c>>) = <<c>>
    OBVIOUS
  <1>2. Len(<<c>>) = 1 /\ <<c>>[1] = c /\ <<c>> # <<>>
    OBVIOUS
  <1>3. IsSeq(<<c>>)
    <2>1. <<c>> \in Seq({c})
      OBVIOUS
    <2>2. {<<c>>[k] : k \in 1 .. Len(<<c>>)} = {c}
      OBVIOUS
    <2>. QED BY <2>1, <2>2 DEF IsSeq
  <1>. QED BY <1>1, <1>2, <1>3

\* One turn of the loop.
LEMMA AllocateInv ==
    ASSUME SettleInv, NEW i \in Txns, Allocate(i)
    PROVE  SettleInv'
  <1> DEFINE q == tx[i].todo
             h == Head(q)
             s == Arg(i)[1]
             d == Arg(i)[2]
             w == tx[i].rows
             give == Least(d, tx[i].read)
             wrote == [u \in DOMAIN w \cup {s} |-> IF u = s THEN give ELSE w[u]]
             c == Stmt("commitSettle", tx[i].job.pair, {})
             rest == IF give = tx[i].read THEN <<h, c>> ELSE q
             upd == [tx[i] EXCEPT !.rows = wrote, !.read = @ - give, !.todo = rest]
  <1>1. CASE s \notin completed
    <2>1. Close(i) /\ UNCHANGED rows
      BY <1>1 DEF Allocate
    <2>. QED BY <2>1, QuietClose
  <1>2. CASE s \in completed
    <2>1. Running(i) /\ h.op = "allocate" /\ \A r \in h.locks : Free(i, r)
      BY DEF Allocate, Ready, At, Running
    <2>2. InQueue(i, h) /\ Walks(i) /\ Len(q) > 1
      BY <2>1, Placed DEF IsStmt
    <2>3. /\ s \in Lessons /\ PairOf[s] = tx[i].job.pair /\ covered[s] < Price[s]
          /\ d = Price[s] - covered[s] /\ h.locks = {<<"completion", s>>}
          /\ \A u \in DOMAIN w : CompletedAt[u] < CompletedAt[s]
      <3>1. h.arg = Arg(i) /\ s = h.arg[1] /\ d = h.arg[2]
        BY DEF Arg
      <3>2. PICK x : x = h.arg[1]
        OBVIOUS
      <3>3. /\ x \in Lessons /\ PairOf[x] = tx[i].job.pair /\ covered[x] < Price[x]
            /\ h.arg = <<x, Price[x] - covered[x]>> /\ h.locks = {<<"completion", x>>}
            /\ \A u \in DOMAIN w : CompletedAt[u] < CompletedAt[x]
        <4> HIDE DEF h
        <4>. QED BY <2>2, <3>2 DEF InQueue, IsStmt
      <3>4. h.arg[2] = Price[x] - covered[x]
        BY <3>3
      <3>5. s = x
        BY <3>1, <3>2
      <3> HIDE DEF s, d, h
      <3>. QED BY <3>1, <3>3, <3>4, <3>5
    <2>4. tx[i].read \in Nat /\ PairLock(i) \in tx[i].held /\ Settles(i)
      BY <2>2 DEF Walks, Locked
    <2>5. covered[s] \in Nat /\ Price[s] \in Nat
      BY <2>3, LedgerAssumption DEF SettleInv, Rows
    <2>6. d \in Nat
      <3> HIDE DEF d
      <3>. QED BY <2>3, <2>5
    <2>7. /\ give \in Nat /\ give <= d /\ tx[i].read - give \in Nat
          /\ give # tx[i].read => give = d
      <3> HIDE DEF d
      <3>. QED BY <2>4, <2>6, LeastOf
    <2>8. covered[s] + give <= Price[s] /\ (give # tx[i].read => covered[s] + give = Price[s])
      <3> HIDE DEF give, d
      <3>. QED BY <2>3, <2>5, <2>6, <2>7
    <2> HIDE DEF give, d, s
    <2>9. /\ Only(i) /\ tx'[i].job = tx[i].job /\ tx'[i].todo = Tail(rest)
          /\ tx'[i].held = tx[i].held \cup h.locks /\ tx'[i].read = tx[i].read - give
          /\ tx'[i].rows = wrote
      <3>1. PICK w0, r0, t0 : w0 = wrote /\ r0 = tx[i].read - give /\ t0 = rest
        OBVIOUS
      <3>2. PICK e : e = [tx[i] EXCEPT !.rows = w0, !.read = r0, !.todo = t0]
        OBVIOUS
      <3>3. IsRow(tx[i]) /\ Shape
        BY RowShape DEF SettleInv
      <3>4. /\ IsRow(e) /\ e.job = tx[i].job /\ e.todo = t0 /\ e.held = tx[i].held
            /\ e.read = r0 /\ e.rows = w0
        BY <3>2, <3>3 DEF IsRow
      <3>5. Advance(i, upd)
        BY <1>2 DEF Allocate, s, d, give
      <3>6. upd = e
        BY <3>1, <3>2
      <3> HIDE DEF upd
      <3>7. Advance(i, e)
        BY <3>5, <3>6
      <3>8. /\ Only(i)
            /\ tx'[i].job = e.job /\ tx'[i].todo = Tail(e.todo)
            /\ tx'[i].held = e.held \cup Head(tx[i].todo).locks
            /\ tx'[i].read = e.read /\ tx'[i].rows = e.rows
        BY <3>3, <3>4, <3>7, Advanced
      <3> HIDE DEF wrote, rest
      <3>. QED BY <3>1, <3>4, <3>8
    <2>10. covered' = covered /\ completed' = completed /\ UNCHANGED rows
      BY DEF Allocate, rows
    <2>11. CompletedAt[s] \in Nat /\ s \notin DOMAIN w
      <3>1. CompletedAt[s] \in Nat
        BY <2>3, LedgerAssumption
      <3>. QED BY <2>3, <3>1
    <2>12. /\ DOMAIN wrote = DOMAIN w \cup {s} /\ wrote[s] = give
           /\ \A u \in DOMAIN w : wrote[u] = w[u]
      BY <2>11
    <2> HIDE DEF wrote
    <2>13. Locked(i)'
      BY <2>4, <2>7, <2>9 DEF Locked, PairLock
    <2>14. /\ IsSeq(q) /\ q # <<>> /\ IsStmt(q[Len(q)], "commitSettle", tx[i].job.pair, {})
           /\ \A k \in 1 .. Len(q) - 1 : InQueue(i, q[k])
           /\ \A k, m \in 1 .. Len(q) - 1 :
                 k < m => CompletedAt[q[k].arg[1]] < CompletedAt[q[m].arg[1]]
      BY <2>1, <2>2 DEF Walks, QueueOK, Running
    <2>15. /\ Len(q) \in Nat \ {0} /\ h = q[1]
           /\ IsSeq(Tail(q)) /\ Len(Tail(q)) = Len(q) - 1
           /\ \A k \in 1 .. Len(q) - 1 : Tail(q)[k] = q[k + 1]
           /\ Tail(q) # <<>>
      BY <2>2, <2>14, HeadAndTail, SMTT(40)
    <2>16. QueueOK(i)' /\ tx'[i].todo # <<>>
           /\ (give = tx[i].read => Len(tx'[i].todo) = 1)
      <3>1. CASE give = tx[i].read
        <4>1. PICK t : t = tx'[i].todo
          OBVIOUS
        <4>2. t = Tail(<<h, c>>)
          BY <2>9, <3>1, <4>1
        <4>3. IsSeq(t) /\ Len(t) = 1 /\ t[1] = c /\ t # <<>>
          <5> HIDE DEF h, c
          <5>. QED BY <4>2, LastStmt
        <4>4. IsStmt(t[Len(t)], "commitSettle", tx[i].job.pair, {})
          BY <4>3 DEF Stmt, IsStmt
        <4>5. 1 .. Len(t) - 1 = {}
          BY <4>3
        <4>. QED BY <2>9, <4>1, <4>3, <4>4, <4>5 DEF QueueOK
      <3>2. CASE give # tx[i].read
        <4>1. PICK t, n : t = Tail(q) /\ n = Len(q) - 1
          OBVIOUS
        <4>2. tx'[i].todo = t
          BY <2>9, <3>2, <4>1
        <4>3. /\ IsSeq(t) /\ Len(t) = n /\ t # <<>> /\ n \in Nat \ {0}
              /\ \A k \in 1 .. n : t[k] = q[k + 1]
          BY <2>2, <2>15, <4>1
        <4>4. IsStmt(t[Len(t)], "commitSettle", tx[i].job.pair, {})
          <5>1. n \in 1 .. n /\ n + 1 = Len(q)
            BY <2>15, <4>1, <4>3
          <5>2. t[n] = q[n + 1]
            BY <4>3, <5>1
          <5>. QED BY <2>14, <4>3, <5>1, <5>2
        <4>5. ASSUME NEW k \in 1 .. Len(t) - 1
              PROVE  InQueue(i, t[k])'
          <5>1. k \in 1 .. n /\ k + 1 \in 1 .. Len(q) - 1 /\ 1 \in 1 .. Len(q) - 1 /\ 1 < k + 1
            BY <4>1, <4>3, <4>5
          <5>2. PICK g : g = q[k + 1]
            OBVIOUS
          <5>3. t[k] = g /\ InQueue(i, g)
            BY <2>14, <4>3, <5>1, <5>2
          <5>4. CompletedAt[s] < CompletedAt[g.arg[1]]
            <6>1. CompletedAt[q[1].arg[1]] < CompletedAt[q[k + 1].arg[1]]
              BY <2>14, <5>1
            <6>2. q[1].arg[1] = s
              BY <2>15 DEF s, Arg
            <6>. QED BY <5>2, <6>1, <6>2
          <5>5. \A u \in DOMAIN wrote : CompletedAt[u] < CompletedAt[g.arg[1]]
            BY <2>12, <5>3, <5>4 DEF InQueue
          <5>6. InQueue(i, g)'
            BY <2>9, <2>10, <5>3, <5>5 DEF InQueue, IsStmt
          <5>. QED BY <5>3, <5>6
        <4>6. \A k, m \in 1 .. Len(t) - 1 :
                 k < m => CompletedAt[t[k].arg[1]] < CompletedAt[t[m].arg[1]]
          <5>1. ASSUME NEW k \in 1 .. Len(t) - 1, NEW m \in 1 .. Len(t) - 1, k < m
                PROVE  CompletedAt[t[k].arg[1]] < CompletedAt[t[m].arg[1]]
            <6>1. /\ k \in 1 .. n /\ m \in 1 .. n /\ k + 1 \in 1 .. Len(q) - 1
                  /\ m + 1 \in 1 .. Len(q) - 1 /\ k + 1 < m + 1
              BY <4>1, <4>3, <5>1
            <6>2. CompletedAt[q[k + 1].arg[1]] < CompletedAt[q[m + 1].arg[1]]
              BY <2>14, <6>1
            <6>. QED BY <4>3, <6>1, <6>2
          <5>. QED BY <5>1
        <4>. QED BY <2>9, <3>2, <4>2, <4>3, <4>4, <4>5, <4>6 DEF QueueOK
      <3>. QED BY <3>1, <3>2
    <2>17. RowsOK(i)'
      <3>1. ASSUME NEW u \in DOMAIN w
            PROVE  GivenOK(i, u)' /\ PaidUp(i, u)'
        <4>1. GivenOK(i, u) /\ PaidUp(i, u)
          BY <2>2, <3>1 DEF Walks, RowsOK
        <4>2. tx'[i].rows[u] = tx[i].rows[u] /\ tx[i].held \subseteq tx'[i].held
          BY <2>9, <2>12, <3>1
        <4>. QED BY <2>9, <2>10, <4>1, <4>2 DEF GivenOK, PaidUp
      <3>2. PICK x, g : x = s /\ g = give
        OBVIOUS
      <3>3. tx'[i].rows[x] = g /\ <<"completion", x>> \in tx'[i].held
        BY <2>3, <2>9, <2>12, <3>2
      <3>4. GivenOK(i, x)'
        <4>1. x \in Lessons /\ x \in completed' /\ PairOf[x] = tx'[i].job.pair
          BY <1>2, <2>3, <2>9, <2>10, <3>2
        <4>2. g \in Nat /\ covered'[x] + g <= Price[x]
          BY <2>7, <2>8, <2>10, <3>2
        <4>. QED BY <3>3, <4>1, <4>2 DEF GivenOK
      <3>5. give # tx[i].read => PaidUp(i, x)'
        BY <2>8, <2>10, <3>2, <3>3 DEF PaidUp
      <3>6. Len(tx'[i].todo) > 1 => give # tx[i].read
        <4>1. PICK n : n = Len(tx'[i].todo)
          OBVIOUS
        <4>2. n = 1 => ~(n > 1)
          OBVIOUS
        <4>. QED BY <2>16, <4>1, <4>2
      <3>7. DOMAIN tx'[i].rows = DOMAIN w \cup {x}
        BY <2>9, <2>12, <3>2
      <3>8. \A u \in DOMAIN w \cup {x} : ~(CompletedAt[x] < CompletedAt[u])
        <4>1. \A u \in DOMAIN w : CompletedAt[u] \in Nat
          BY <2>2, LedgerAssumption DEF Walks, RowsOK, GivenOK
        <4>. QED BY <2>3, <2>11, <3>2, <4>1
      <3>9. ASSUME NEW v \in DOMAIN tx'[i].rows
            PROVE  /\ GivenOK(i, v)'
                   /\ Len(tx'[i].todo) > 1 => PaidUp(i, v)'
                   /\ \A u \in DOMAIN tx'[i].rows : CompletedAt[v] < CompletedAt[u] => PaidUp(i, v)'
        <4>1. CASE v \in DOMAIN w
          BY <3>1, <4>1
        <4>2. CASE v = x
          BY <3>4, <3>5, <3>6, <3>7, <3>8, <4>2
        <4>. QED BY <3>7, <4>1, <4>2
      <3>. QED BY <3>9 DEF RowsOK
    <2>18. SettleOK(i)'
      BY <2>13, <2>16, <2>17 DEF SettleOK
    <2>19. TxOK(i)'
      BY <2>4, <2>9, <2>16, <2>18, SettleRight
    <2>. QED BY <2>1, <2>9, <2>10, <2>19, QuietStep
  <1>. QED BY <1>1, <1>2

\* Two transactions of one pair do not both hold its lock.
LEMMA PairExcludes ==
    ASSUME LocksExclude, NEW i \in Txns, NEW j \in Txns, i # j,
           PairLock(i) \in tx[i].held, PairLock(j) \in tx[j].held
    PROVE  tx[i].job.pair # tx[j].job.pair
  <1>1. tx[i].held \cap tx[j].held = {}
    BY DEF LocksExclude
  <1>2. ASSUME tx[i].job.pair = tx[j].job.pair PROVE PairLock(i) = PairLock(j)
    BY <1>2 DEF PairLock
  <1>. QED BY <1>1, <1>2

\* A transaction that closes and writes tables the others do not rely on.
LEMMA LoudClose ==
    ASSUME SettleInv, NEW i \in Txns, Close(i), Rows', CoverageWithinPrice',
           \A j \in Txns : j # i => Stable(j)
    PROVE  SettleInv'
  <1>1. /\ Only(i) /\ tx'[i].todo = <<>> /\ tx'[i].held = {} /\ tx'[i].rows = <<>>
    BY Closed DEF SettleInv
  <1>2. TxOK(i)'
    BY <1>1 DEF TxOK, Running
  <1>3. LocksExclude'
    <2>1. PICK L : L = {}
      OBVIOUS
    <2>2. LocksExclude /\ (\A r \in L : Free(i, r)) /\ tx'[i].held \subseteq tx[i].held \cup L
      BY <1>1, <2>1 DEF SettleInv
    <2>. QED BY <1>1, <2>2, StillExclude
  <1>4. ASSUME NEW j \in Txns, j # i PROVE TxOK(j)'
    <2>1. TxOK(j) /\ tx'[j] = tx[j] /\ Stable(j)
      BY <1>1, <1>4 DEF SettleInv, Only
    <2>. QED BY <2>1, Undisturbed
  <1>. QED BY <1>1, <1>2, <1>3, <1>4 DEF SettleInv, Only

\* The allocations take effect.
LEMMA CommitSettleInv ==
    ASSUME SettleInv, NEW i \in Txns, CommitSettle(i)
    PROVE  SettleInv'
  <1> DEFINE w == tx[i].rows
  <1>1. Running(i) /\ Head(tx[i].todo).op = "commitSettle"
    BY DEF CommitSettle, At, Running
  <1>2. Walks(i)
    BY <1>1, Placed DEF IsStmt, InQueue
  <1>3. PairLock(i) \in tx[i].held /\ \A s \in DOMAIN w : GivenOK(i, s)
    BY <1>2 DEF Walks, Locked, RowsOK
  <1>4. /\ covered \in [Lessons -> Nat] /\ completed \subseteq Lessons /\ completed' = completed
        /\ covered' = [s \in Lessons |-> covered[s] + (IF s \in DOMAIN w THEN w[s] ELSE 0)]
    BY DEF SettleInv, Rows, CommitSettle
  <1>5. ASSUME NEW s \in Lessons
        PROVE  /\ covered'[s] \in Nat /\ covered'[s] <= Price[s]
               /\ covered'[s] > 0 => s \in completed'
               /\ s \notin DOMAIN w => covered'[s] = covered[s]
    <2>1. /\ covered[s] \in Nat /\ covered[s] <= Price[s] /\ Price[s] \in Nat
          /\ covered[s] > 0 => s \in completed
      BY <1>4, LedgerAssumption DEF SettleInv, CoverageWithinPrice
    <2>2. CASE s \in DOMAIN w
      <3>1. covered'[s] = covered[s] + w[s]
        BY <1>4, <2>2
      <3>2. w[s] \in Nat /\ covered[s] + w[s] <= Price[s] /\ s \in completed
        BY <1>3, <2>2 DEF GivenOK
      <3>. QED BY <1>4, <2>1, <2>2, <3>1, <3>2
    <2>3. CASE s \notin DOMAIN w
      <3>1. covered'[s] = covered[s]
        BY <1>4, <2>1, <2>3
      <3>. QED BY <1>4, <2>1, <3>1
    <2>. QED BY <2>2, <2>3
  <1>6. Rows' /\ CoverageWithinPrice'
    <2>1. covered' \in [Lessons -> Nat]
      BY <1>4, <1>5
    <2>. QED BY <1>4, <1>5, <2>1 DEF Rows, CoverageWithinPrice
  <1>7. ASSUME NEW j \in Txns, j # i PROVE Stable(j)
    <2>1. ASSUME NEW s \in Lessons, PairOf[s] = tx[j].job.pair, PairLock(j) \in tx[j].held
          PROVE  covered'[s] = covered[s]
      <3>1. tx[i].job.pair # tx[j].job.pair
        BY <1>3, <1>7, <2>1, PairExcludes DEF SettleInv
      <3>2. s \notin DOMAIN w
        BY <1>3, <2>1, <3>1 DEF GivenOK
      <3>. QED BY <1>5, <3>2
    <2>. QED BY <1>4, <2>1 DEF Stable
  <1>8. Close(i)
    BY DEF CommitSettle
  <1>. QED BY <1>6, <1>7, <1>8, LoudClose

\* An un-complete whose row is as it should be is right.
LEMMA UncompleteRight ==
    ASSUME NEW i \in Txns, Uncompletes(i), tx'[i].job = tx[i].job, UncompleteOK(i)',
           tx'[i].todo # <<>>
    PROVE  TxOK(i)'
  BY DEF Uncompletes, TxOK, Running

\* The completion is locked.
LEMMA LockCompletionInv ==
    ASSUME SettleInv, NEW i \in Txns, LockCompletion(i)
    PROVE  SettleInv'
  <1>1. CASE Close(i)
    BY <1>1, QuietClose DEF LockCompletion
  <1>2. CASE Advance(i, tx[i])
    <2>1. /\ Running(i) /\ Head(tx[i].todo).op = "lockCompletion"
          /\ \A r \in Head(tx[i].todo).locks : Free(i, r)
      BY SMTT(40) DEF LockCompletion, Ready, At, Running
    <2>2. /\ Uncompletes(i) /\ tx[i].rows = <<>> /\ tx[i].todo = UncompleteTx(tx[i].job)
          /\ Head(tx[i].todo).locks = {<<"completion", tx[i].job.lesson>>}
      BY <2>1, Placed DEF IsStmt, InQueue
    <2>3. /\ Only(i) /\ tx'[i].job = tx[i].job /\ tx'[i].todo = Tail(tx[i].todo)
          /\ tx'[i].held = tx[i].held \cup Head(tx[i].todo).locks /\ tx'[i].rows = tx[i].rows
      BY <1>2, Advanced, RowShape DEF SettleInv
    <2>4. <<"completion", tx'[i].job.lesson>> \in tx'[i].held
      BY <2>2, <2>3
    <2>5. UncompleteOK(i)' /\ tx'[i].todo # <<>>
      BY <2>2, <2>3, <2>4, UncompleteProgram DEF UncompleteOK
    <2>6. TxOK(i)'
      BY <2>2, <2>3, <2>5, UncompleteRight
    <2>7. UNCHANGED rows
      BY DEF LockCompletion
    <2>. QED BY <2>1, <2>3, <2>6, <2>7, QuietStep
  <1>. QED BY <1>1, <1>2 DEF LockCompletion

\* The gates are asked under the lock.
LEMMA GatesInv ==
    ASSUME SettleInv, NEW i \in Txns, Gates(i)
    PROVE  SettleInv'
  <1>1. CASE Close(i)
    BY <1>1, QuietClose DEF Gates
  <1>2. CASE Advance(i, tx[i])
    <2>1. Running(i) /\ Head(tx[i].todo).op = "gates"
      BY SMTT(40) DEF Gates, At, Running
    <2>2. /\ Uncompletes(i) /\ tx[i].rows = <<>> /\ tx[i].todo = Tail(UncompleteTx(tx[i].job))
          /\ Head(tx[i].todo).locks = {} /\ <<"completion", tx[i].job.lesson>> \in tx[i].held
      BY <2>1, Placed DEF IsStmt, InQueue
    <2>3. /\ Only(i) /\ tx'[i].job = tx[i].job /\ tx'[i].todo = Tail(tx[i].todo)
          /\ tx'[i].held = tx[i].held \cup {} /\ tx'[i].rows = tx[i].rows
      BY <1>2, <2>2, Advanced, RowShape DEF SettleInv
    <2>4. tx'[i].held = tx[i].held
      BY <2>3
    <2>5. UncompleteOK(i)' /\ tx'[i].todo # <<>>
      BY <2>2, <2>3, <2>4, UncompleteProgram DEF UncompleteOK
    <2>6. TxOK(i)'
      BY <2>2, <2>3, <2>5, UncompleteRight
    <2>7. UNCHANGED rows
      BY DEF Gates
    <2>8. tx'[i].held \subseteq tx[i].held
      BY <2>4
    <2>. QED BY <2>3, <2>6, <2>7, <2>8, QuietStep
  <1>. QED BY <1>1, <1>2 DEF Gates

\* The completion goes; nobody else has it locked.
LEMMA DeleteCompletionInv ==
    ASSUME SettleInv, NEW i \in Txns, DeleteCompletion(i)
    PROVE  SettleInv'
  <1>1. Running(i) /\ Head(tx[i].todo).op = "delete"
    BY DEF DeleteCompletion, At, Running
  <1>2. PICK x : x = Arg(i)
    OBVIOUS
  <1>3. <<"completion", x>> \in tx[i].held
    <2>1. /\ Head(tx[i].todo).arg = tx[i].job.lesson
          /\ <<"completion", tx[i].job.lesson>> \in tx[i].held
      BY <1>1, Placed DEF IsStmt, InQueue
    <2>. QED BY <1>2, <2>1, SMTT(40) DEF Arg
  <1>4. /\ completed' \subseteq completed /\ covered' = covered
        /\ \A s \in completed : s # x \/ covered[x] > 0 => s \in completed'
    BY <1>2 DEF DeleteCompletion
  <1>5. Rows' /\ CoverageWithinPrice'
    BY <1>4 DEF SettleInv, Rows, CoverageWithinPrice
  <1>6. ASSUME NEW j \in Txns, j # i PROVE Stable(j)
    <2>1. <<"completion", x>> \notin tx[j].held
      BY <1>3, <1>6 DEF SettleInv, LocksExclude
    <2>. QED BY <1>4, <2>1 DEF Stable
  <1>7. Close(i)
    BY DEF DeleteCompletion
  <1>. QED BY <1>5, <1>6, <1>7, LoudClose

\* A job starts.
LEMMA BeginInv ==
    ASSUME SettleInv, NEW i \in Txns, NEW job \in Requests, Begin(i, job, Program(job)),
           UNCHANGED rows
    PROVE  SettleInv'
  <1>1. PICK p : p = Program(job)
    OBVIOUS
  <1>2. /\ Only(i) /\ tx'[i].job = job /\ tx'[i].todo = p
        /\ tx'[i].held = {} /\ tx'[i].rows = <<>>
    BY <1>1, Begun DEF SettleInv
  <1>3. job.kind = "settle" \/ job.kind = "uncomplete"
    BY RequestsAssumption
  <1>4. job.kind = "settle" => p = SettleTx(job)
    BY <1>1 DEF Program
  <1>5. job.kind = "uncomplete" => p = UncompleteTx(job)
    BY <1>1 DEF Program
  <1>6. job.kind = "settle" => SettleOK(i)'
    BY <1>2, <1>4 DEF SettleOK
  <1>7. job.kind = "uncomplete" => UncompleteOK(i)'
    BY <1>2, <1>5 DEF UncompleteOK
  <1>8. p # <<>>
    BY <1>3, <1>4, <1>5, SettleProgram, UncompleteProgram
  <1>9. TxOK(i)'
    BY <1>2, <1>6, <1>7, <1>8 DEF TxOK, Running
  <1>10. tx'[i].held \subseteq tx[i].held
    BY <1>2
  <1>. QED BY <1>2, <1>9, <1>10, QuietStep

\* The tables change while no transaction moves.
LEMMA TableStep ==
    ASSUME SettleInv, UNCHANGED <<tx, covered>>, completed \subseteq completed',
           completed' \subseteq Lessons
    PROVE  SettleInv'
  <1>1. Shape' /\ LocksExclude' /\ Rows' /\ CoverageWithinPrice'
    BY DEF SettleInv, Shape, LocksExclude, Rows, CoverageWithinPrice
  <1>2. ASSUME NEW j \in Txns PROVE TxOK(j)'
    <2>1. TxOK(j) /\ tx'[j] = tx[j] /\ Stable(j)
      BY DEF SettleInv, Stable
    <2>. QED BY <2>1, Undisturbed
  <1>. QED BY <1>1, <1>2 DEF SettleInv

-----------------------------------------------------------------------------
(* The theorems.                                                           *)

\* Nothing is booked at first.
LEMMA InitSettle == Init => SettleInv
  <1> SUFFICES ASSUME Init PROVE SettleInv
    OBVIOUS
  <1>1. \A i \in Txns : tx[i] = Idle
    BY DEF Init
  <1>2. /\ IsRow(Idle) /\ Idle.todo = <<>> /\ Idle.held = {} /\ Idle.rows = <<>>
    BY DEF Idle, IsRow
  <1>3. Shape
    <2>1. tx = [i \in Txns |-> tx[i]]
      BY DEF Init
    <2>2. \A i \in Txns : IsRow(tx[i])
      BY <1>1, <1>2
    <2>. QED BY <2>1, <2>2 DEF Shape, IsRow
  <1>4. LocksExclude
    BY <1>1, <1>2 DEF LocksExclude
  <1>5. Rows /\ CoverageWithinPrice
    BY LedgerAssumption DEF Init, Rows, CoverageWithinPrice
  <1>6. \A i \in Txns : TxOK(i)
    BY <1>1, <1>2 DEF TxOK, Running
  <1>. QED BY <1>3, <1>4, <1>5, <1>6 DEF SettleInv

\* Every step keeps the invariant.
LEMMA NextSettle == SettleInv /\ [Next]_vars => SettleInv'
  <1> SUFFICES ASSUME SettleInv, [Next]_vars PROVE SettleInv'
    OBVIOUS
  <1>1. ASSUME NEW i \in Txns, Statement(i) PROVE SettleInv'
    <2>1. CASE FindRecent(i)
      BY <2>1, FindRecentInv
    <2>2. CASE LockPair(i)
      BY <2>2, LockPairInv
    <2>3. CASE Candidates(i)
      BY <2>3, CandidatesInv
    <2>4. CASE Allocate(i)
      BY <2>4, AllocateInv
    <2>5. CASE CommitSettle(i)
      BY <2>5, CommitSettleInv
    <2>6. CASE LockCompletion(i)
      BY <2>6, LockCompletionInv
    <2>7. CASE Gates(i)
      BY <2>7, GatesInv
    <2>8. CASE DeleteCompletion(i)
      BY <2>8, DeleteCompletionInv
    <2>. QED BY <1>1, <2>1, <2>2, <2>3, <2>4, <2>5, <2>6, <2>7, <2>8 DEF Statement
  <1>2. ASSUME NEW i \in Txns, NEW job \in Requests, Begin(i, job, Program(job)),
               UNCHANGED rows
        PROVE  SettleInv'
    BY <1>2, BeginInv
  <1>3. ASSUME NEW i \in Txns, Abort(i), UNCHANGED rows PROVE SettleInv'
    <2>1. Close(i)
      BY <1>3 DEF Abort
    <2>. QED BY <1>3, <2>1, QuietClose
  <1>4. ASSUME NEW k \in Txns, MinutePasses(k) PROVE SettleInv'
    <2>1. UNCHANGED <<tx, covered>> /\ completed \subseteq completed' /\ completed' \subseteq Lessons
      BY <1>4 DEF MinutePasses, SettleInv, Rows
    <2>. QED BY <2>1, TableStep
  <1>5. ASSUME NEW s \in Lessons, MarkCompleted(s) PROVE SettleInv'
    <2>1. UNCHANGED <<tx, covered>> /\ completed \subseteq completed' /\ completed' \subseteq Lessons
      BY <1>5 DEF MarkCompleted, SettleInv, Rows
    <2>. QED BY <2>1, TableStep
  <1>6. CASE UNCHANGED vars
    <2>1. UNCHANGED <<tx, covered>> /\ completed \subseteq completed' /\ completed' \subseteq Lessons
      BY <1>6 DEF vars, rows, SettleInv, Rows
    <2>. QED BY <2>1, TableStep
  <1>. QED BY <1>1, <1>2, <1>3, <1>4, <1>5, <1>6, Zenon DEF Next

\* What has got money, what waits and who is paid up, put together.
LEMMA QueueIsNewer == SettleInv => OldestFirst
  <1> SUFFICES ASSUME SettleInv, NEW i \in Txns, NEW s \in DOMAIN tx[i].rows, NEW u \in Lessons,
                      CompletedAt[u] < CompletedAt[s]
               PROVE  /\ u \in DOMAIN tx[i].rows => covered[u] + tx[i].rows[u] = Price[u]
                      /\ \A k \in DOMAIN tx[i].todo :
                            tx[i].todo[k].op = "allocate" => tx[i].todo[k].arg[1] # u
    BY DEF OldestFirst
  <1> DEFINE q == tx[i].todo
  <1>1. tx[i].rows # <<>>
    OBVIOUS
  <1>2. QueueOK(i) /\ RowsOK(i)
    <2>1. TxOK(i) /\ Running(i) /\ tx[i].job \in Requests
      BY <1>1 DEF SettleInv, TxOK
    <2>2. tx[i].job.kind = "settle" \/ tx[i].job.kind = "uncomplete"
      BY <2>1, RequestsAssumption
    <2>. QED BY <1>1, <2>1, <2>2 DEF TxOK, SettleOK, UncompleteOK
  <1>3. u \in DOMAIN tx[i].rows => covered[u] + tx[i].rows[u] = Price[u]
    BY <1>2 DEF RowsOK, PaidUp
  <1>4. ASSUME NEW k \in DOMAIN q, q[k].op = "allocate", q[k].arg[1] = u
        PROVE  FALSE
    <2>1. /\ IsSeq(q) /\ q[Len(q)].op = "commitSettle"
          /\ \A m \in 1 .. Len(q) - 1 : InQueue(i, q[m])
      BY <1>2 DEF QueueOK, IsStmt
    <2>2. k \in 1 .. Len(q) /\ Len(q) \in Nat
      BY <2>1, LenProperties DEF IsSeq
    <2>3. k # Len(q)
      BY <1>4, <2>1
    <2>4. k \in 1 .. Len(q) - 1
      BY <2>2, <2>3
    <2>5. CompletedAt[s] < CompletedAt[u]
      BY <1>4, <2>1, <2>4 DEF InQueue
    <2>6. CompletedAt[s] \in Nat /\ CompletedAt[u] \in Nat
      BY <1>2, LedgerAssumption DEF RowsOK, GivenOK
    <2>. QED BY <2>5, <2>6
  <1>. QED BY <1>3, <1>4

\* In every reachable state what a settlement has queued and given fits the
\* tables it will be added to: what the grouped select read is still missing,
\* because the pair is locked, and what got money is still completed, because
\* its completion is.
THEOREM SettleInvariant == Spec => []SettleInv
  BY InitSettle, NextSettle, PTL DEF Spec

\* However settlements, completions and un-completes interleave, no lesson is
\* ever paid more than it costs, nor one without a completion
\* (settleLessonsInTx, the uncomplete route).
THEOREM NeverOverpaid == Spec => []CoverageWithinPrice
  <1>1. SettleInv => CoverageWithinPrice
    BY DEF SettleInv
  <1>. QED BY <1>1, SettleInvariant, PTL

\* A settlement pays the oldest debt first, for any number of lessons, prices
\* and amounts (the order by and the loop of settleLessonsInTx).
THEOREM OldestPaidFirst == Spec => []OldestFirst
  BY QueueIsNewer, SettleInvariant, PTL
=============================================================================
