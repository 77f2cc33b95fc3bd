------------------------------ MODULE DbTrxAbs ------------------------------
(***************************************************************************)
(* What a database transaction of the PBS data store promises its callers, *)
(* without nesting: writes made while a transaction is open become visible *)
(* together when it ends, and only if no part of it asked for a rollback   *)
(* and the final commit succeeded.                                         *)
(***************************************************************************)
EXTENDS FiniteSets

CONSTANT Rows

VARIABLES
    open,       \* a transaction is in progress
    doomed,     \* some part of it asked for a rollback
    pending,    \* rows written in it so far
    committed   \* rows the database holds

vars == <<open, doomed, pending, committed>>

Init ==
    /\ open = FALSE
    /\ doomed = FALSE
    /\ pending = {}
    /\ committed = {}

Start ==
    /\ ~open
    /\ open' = TRUE
    /\ doomed' = FALSE
    /\ pending' = {}
    /\ UNCHANGED committed

\* Statements of the open transaction that succeeded.
Write(rs) ==
    /\ open
    /\ pending' = pending \cup rs
    /\ UNCHANGED <<open, doomed, committed>>

Doom ==
    /\ open
    /\ doomed' = TRUE
    /\ UNCHANGED <<open, pending, committed>>

\* ok: the transaction's rows became visible.
Finish(ok) ==
    /\ open
    /\ ok => ~doomed
    /\ open' = FALSE
    /\ doomed' = FALSE
    /\ pending' = {}
    /\ committed' = IF ok THEN committed \cup pending ELSE committed

\* A caller that begins, writes and ends a transaction of its own within
\* one step.
Whole(rs, ok) ==
    /\ ~open
    /\ committed' = IF ok THEN committed \cup rs ELSE committed
    /\ UNCHANGED <<open, doomed, pending>>

Next ==
    \/ Start
    \/ \E rs \in SUBSET Rows : Write(rs)
    \/ Doom
    \/ \E ok \in BOOLEAN : Finish(ok)
    \/ \E rs \in SUBSET Rows, ok \in BOOLEAN : Whole(rs, ok)

Spec == Init /\ [][Next]_vars

=============================================================================
