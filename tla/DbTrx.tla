------------------------------- MODULE DbTrx -------------------------------
(***************************************************************************)
(* The transaction contract of the PBS data store (include/pbs_db.h):      *)
(* pbs_db_begin_trx and pbs_db_end_trx on one connection, whose            *)
(* conn_trx_nest counts the open begins and whose conn_trx_rollback        *)
(* remembers that a nested end asked for a rollback.  Only the outermost   *)
(* begin starts a database transaction and only the outermost end finishes *)
(* it.  The bodies of the two functions are not in this repository; the    *)
(* operators follow the header's description of them.                      *)
(*                                                                         *)
(* The connection and the database are one record                         *)
(*   [nest, rollback, pending, committed]                                  *)
(* where pending is what the open transaction has written and committed    *)
(* what the database holds.  Each call is an operator from the record      *)
(* before the call to the record after it, so that a caller's action can   *)
(* chain the calls its code path makes.                                    *)
(***************************************************************************)
EXTENDS Integers

CONSTANT Rows

VARIABLE db

DbInit == db = [nest |-> 0, rollback |-> FALSE, pending |-> {}, committed |-> {}]

DbType ==
    /\ db.nest \in Int
    /\ db.rollback \in BOOLEAN
    /\ db.pending \subseteq Rows
    /\ db.committed \subseteq Rows

\* Mutant of BeginTrx: every begin starts afresh.
BeginTrxAlwaysNew(t) == [t EXCEPT !.nest = @ + 1, !.rollback = FALSE, !.pending = {}]

\* pbs_db_begin_trx returning 0: a new transaction when none is open,
\* otherwise only the nest count grows.
BeginTrx(t) ==
    IF t.nest = 0
    THEN [t EXCEPT !.nest = 1, !.rollback = FALSE, !.pending = {}]
    ELSE [t EXCEPT !.nest = @ + 1]

\* pbs_db_begin_trx can return -1 only when it sends BEGIN.
BeginTrxMayFail(t) == t.nest = 0

\* Statements of the open transaction that succeeded (pbs_db_save_obj and
\* the *_save_db helpers), writing the rows rs.
WriteRows(t, rs) == [t EXCEPT !.pending = @ \cup rs]

\* pbs_db_end_trx when the nest count reaches zero: commit only when asked
\* to and no nested end asked for a rollback.  dbOk is the database's
\* answer to END TRANSACTION.
FinishTrx(t, commit, dbOk) ==
    [nest |-> 0, rollback |-> FALSE, pending |-> {},
     committed |-> IF commit /\ ~t.rollback /\ dbOk
                   THEN t.committed \cup t.pending ELSE t.committed]

\* pbs_db_end_trx: decrement the nest count and finish the transaction when
\* it reaches zero; a nested rollback is remembered.  The header states no
\* exception for an end with no transaction open: the count goes below
\* zero, and there is no transaction whose rollback could be remembered.
EndTrx(t, commit, dbOk) ==
    CASE t.nest = 1 -> FinishTrx(t, commit, dbOk)
      [] t.nest > 1 -> [t EXCEPT !.nest = @ - 1,
                                 !.rollback = @ \/ ~commit]
      [] OTHER      -> [t EXCEPT !.nest = @ - 1]

\* pbs_db_end_trx returns 0 unless the outermost commit did not commit.
EndTrxOk(t, commit, dbOk) ==
    t.nest # 1 \/ ~commit \/ (~t.rollback /\ dbOk)

(***************************************************************************)
(* The nested transaction implements the flat one of DbTrxAbs: a nested    *)
(* begin or a nested commit is a stutter, a nested rollback dooms the      *)
(* transaction, and the outermost end finishes it.                         *)
(***************************************************************************)
Abs == INSTANCE DbTrxAbs WITH
           open <- db.nest > 0,
           doomed <- db.rollback,
           pending <- db.pending,
           committed <- db.committed

=============================================================================
