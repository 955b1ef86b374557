------------------------------ MODULE MoneyTx ------------------------------
(***************************************************************************)
(* The database transactions of PaymentClaims and TeacherLedger: READ      *)
(* COMMITTED, one statement per step.  Each request runs one transaction,  *)
(* and a row it inserts has the transaction's name for its id.             *)
(***************************************************************************)
EXTENDS Naturals, Sequences, FiniteSets

CONSTANT Txns

\* tx[i]: the job, the statements still to run, the locks held until the end,
\* a number read earlier, and the rows written but not committed.
VARIABLE tx

NoJob == [kind |-> "none"]
Idle == [job |-> NoJob, todo |-> <<>>, held |-> {}, read |-> 0, rows |-> <<>>]

\* A statement, what it is about, and the locks it waits for and keeps.
Stmt(op, arg, locks) == [op |-> op, arg |-> arg, locks |-> locks]

At(i, op) == tx[i].todo # <<>> /\ Head(tx[i].todo).op = op
Arg(i) == Head(tx[i].todo).arg

Free(i, r) == \A j \in Txns \ {i} : r \notin tx[j].held
Ready(i, op) == At(i, op) /\ \A r \in Head(tx[i].todo).locks : Free(i, r)

Waits(i, j) ==
    /\ i # j
    /\ tx[i].todo # <<>>
    /\ Head(tx[i].todo).locks \cap tx[j].held # {}

\* Whoever i waits for, and they wait for, and so on, i is among them.
InCycle(i) ==
    \A S \in SUBSET Txns :
        (\A j \in S \cup {i}, k \in Txns : Waits(j, k) => k \in S) => i \in S

\* The statement is done: keep its locks and go on.
Advance(i, upd) ==
    tx' = [tx EXCEPT ![i] = [upd EXCEPT !.todo = Tail(@),
                                        !.held = @ \cup Head(tx[i].todo).locks]]

\* Mutant: an early return that neither commits nor rolls back.
CloseForgotten(i) == tx' = [tx EXCEPT ![i].todo = <<>>]

\* commit, or rollback when nothing else changes: the locks are gone.
Close(i) == tx' = [tx EXCEPT ![i] = [Idle EXCEPT !.job = tx[i].job]]

Begin(i, job, program) ==
    /\ tx[i].job = NoJob
    /\ tx' = [tx EXCEPT ![i] = [Idle EXCEPT !.job = job, !.todo = program]]

\* A failed statement, a refusal by a check the model leaves out, a dead
\* process: the server rolls back.
Abort(i) == tx[i].todo # <<>> /\ Close(i)

\* The deadlock detector picks a member of the cycle.
DeadlockVictim(i) == InCycle(i) /\ Close(i)
=============================================================================
