--------------------------- MODULE ExecutionLedger ---------------------------
(***************************************************************************)
(* What the executions table promises to the rest of the platform, with    *)
(* the exchanges, the workers and their sessions left out.                 *)
(*                                                                         *)
(* The table holds committed rows only.  A (signal, strategy) pair owns at *)
(* most one row, the row appears FAILED or FILLED (PENDING and the other   *)
(* states of ExecutionStatus live in an open transaction and are never     *)
(* seen by another session), FILLED may become CLOSED, and nothing else    *)
(* changes a status.  Rows only disappear with a parent they cascade from, *)
(* and a pair that lost its parent never owns a row again.                 *)
(*                                                                         *)
(* TradeExecution and PositionSync implement this specification.           *)
(***************************************************************************)

CONSTANT Keys       \* the (signal, strategy) pairs

VARIABLES
    table,          \* the committed rows, [key, status] records
    retired         \* pairs whose signal or strategy has been deleted

vars == <<table, retired>>

Statuses == {"FAILED", "FILLED", "CLOSED"}
TableRows == [key : Keys, status : Statuses]

HasRow(k) == \E r \in table : r.key = k

TypeOK ==
    /\ table \subseteq TableRows
    /\ retired \subseteq Keys

Init ==
    /\ table = {}
    /\ retired = {}

\* A session commits the outcome of one execute_signal call.
Record(k, s) ==
    /\ k \notin retired
    /\ ~HasRow(k)
    /\ table' = table \union {[key |-> k, status |-> s]}
    /\ UNCHANGED retired

\* apply_close_details on the FILLED rows of a set of pairs, one commit.
Close(K) ==
    /\ table' = {IF r.key \in K /\ r.status = "FILLED"
                   THEN [r EXCEPT !.status = "CLOSED"] ELSE r : r \in table}
    /\ UNCHANGED retired

\* ON DELETE CASCADE from a signal or a strategy.
Retire(K) ==
    /\ table' = {r \in table : r.key \notin K}
    /\ retired' = retired \union K

Next ==
    \/ \E k \in Keys, s \in {"FAILED", "FILLED"} : Record(k, s)
    \/ \E K \in SUBSET Keys : Close(K) \/ Retire(K)

Spec == Init /\ [][Next]_vars

-----------------------------------------------------------------------------

\* One row per (signal, strategy): the promise of the unique constraints of
\* models/execution.py, which every idempotency check relies on.
OneRowPerKey ==
    \A r1, r2 \in table : r1.key = r2.key => r1 = r2

\* A pair that was recorded FAILED is never traded later, a CLOSED pair never
\* reopens, and a retired pair stays without a row.
HistoryIsFinal ==
    [][\A k \in Keys :
        /\ [key |-> k, status |-> "FAILED"] \in table
             => ~(\E s \in {"FILLED", "CLOSED"} : [key |-> k, status |-> s] \in table')
        /\ [key |-> k, status |-> "CLOSED"] \in table
             => ~(\E s \in {"FILLED", "FAILED"} : [key |-> k, status |-> s] \in table')
        /\ k \in retired => ~\E r \in table' : r.key = k]_vars
=============================================================================
