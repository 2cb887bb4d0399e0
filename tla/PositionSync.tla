---------------------------- MODULE PositionSync ----------------------------
(***************************************************************************)
(* How an open execution gets CLOSED: the monitor that Celery beat starts  *)
(* every minute (ATEService.monitor_positions) and the close endpoint      *)
(* (close_execution, which the admin endpoint delegates to).               *)
(*                                                                         *)
(* Neither holds a lock on the row: both read it FILLED, talk to the       *)
(* exchange for seconds or minutes and then write CLOSED without looking   *)
(* again.  Both find a position by its symbol alone.  The endpoint takes   *)
(* the acceptance of its close order for the close.  A monitor run walks   *)
(* the accounts one by one, Hyperliquid first, then Bybit, then Binance,   *)
(* each exchange with its own answer to a failing fetch, and makes one     *)
(* commit at the end.                                                      *)
(***************************************************************************)
EXTENDS Naturals, FiniteSets

CONSTANTS
    Rows,           \* executions
    Accounts,       \* (user, exchange) pairs
    Symbols,
    AccountOf,      \* execution |-> account
    VenueOf,        \* account |-> exchange
    SymbolOf,       \* execution |-> symbol
    Monitors,       \* monitor tasks that may overlap
    Requests,       \* close requests, each sent at most once
    TargetOf,       \* request |-> execution
    Broken,         \* accounts whose position fetch always fails
    Faults          \* what else may go wrong, see FaultKinds

Venues == {"hyperliquid", "bybit", "binance"}

FaultKinds ==
    {"apiError",    \* a position fetch fails now and then
     "noPrice",     \* no exit price can be found for a closed position
     "refused",     \* a close order is refused
     "lostAck",     \* a close order is executed, its answer does not come
     "noFill",      \* a close order is accepted and does not close the position
     "crash",       \* a monitor run or a request dies, its session with it
     "overlap",     \* executions may be opened on a symbol that has one
     "disconnect",  \* users remove their exchange keys
     "switch",      \* users connect another account of the exchange
     "delete"}      \* executions are deleted with their strategy

ASSUME ConstantsOK ==
    /\ AccountOf \in [Rows -> Accounts]
    /\ VenueOf \in [Accounts -> Venues]
    /\ SymbolOf \in [Rows -> Symbols]
    /\ TargetOf \in [Requests -> Rows]
    /\ Broken \subseteq Accounts
    /\ Faults \subseteq FaultKinds

VARIABLES
    row,            \* execution |-> committed status
    source,         \* execution |-> committed close_source
    lot,            \* execution |-> its quantity on the exchange
    moved,          \* executions left on an account no longer connected
    connected,      \* accounts with keys (or a wallet) on file
    mpc,            \* monitor |-> phase
    batch,          \* monitor |-> executions it read
    left,           \* monitor |-> accounts it still has to visit
    gone,           \* monitor |-> executions it closed in its session
    rpc,            \* request |-> phase
    blinded,        \* history: executions taken for closed after a failed fetch
    unfilled        \* history: executions whose close order did not close them

history == <<blinded, unfilled>>
platform == <<row, source>>
exchange == <<lot, moved, connected>>
monitor == <<mpc, batch, left, gone>>
vars == <<row, source, lot, moved, connected, mpc, batch, left, gone, rpc, blinded, unfilled>>

Slot(e) == <<AccountOf[e], SymbolOf[e]>>

\* What the account on file holds on the slot.
Holding(slot) == {e \in Rows : lot[e] = "open" /\ Slot(e) = slot /\ e \notin moved}
Flat(e) == Holding(Slot(e)) = {}

TypeOK ==
    /\ row \in [Rows -> {"absent", "FILLED", "CLOSED", "deleted"}]
    /\ source \in [Rows -> {"none", "monitor", "manual"}]
    /\ lot \in [Rows -> {"none", "open", "closed"}]
    /\ moved \subseteq Rows
    /\ connected \subseteq Accounts
    /\ mpc \in [Monitors -> {"idle", "scan"}]
    /\ batch \in [Monitors -> SUBSET Rows]
    /\ left \in [Monitors -> SUBSET Accounts]
    /\ gone \in [Monitors -> SUBSET Rows]
    /\ rpc \in [Requests -> {"idle", "fetch", "order", "settle", "done"}]
    /\ blinded \subseteq Rows
    /\ unfilled \subseteq Rows

Init ==
    /\ row = [e \in Rows |-> "absent"]
    /\ source = [e \in Rows |-> "none"]
    /\ lot = [e \in Rows |-> "none"]
    /\ moved = {}
    /\ connected = Accounts
    /\ mpc = [m \in Monitors |-> "idle"]
    /\ batch = [m \in Monitors |-> {}]
    /\ left = [m \in Monitors |-> {}]
    /\ gone = [m \in Monitors |-> {}]
    /\ rpc = [q \in Requests |-> "idle"]
    /\ blinded = {}
    /\ unfilled = {}

-----------------------------------------------------------------------------
(***************************************************************************)
(* The monitor.                                                            *)
(***************************************************************************)

EndRun(m) ==
    /\ mpc' = [mpc EXCEPT ![m] = "idle"]
    /\ batch' = [batch EXCEPT ![m] = {}]
    /\ left' = [left EXCEPT ![m] = {}]
    /\ gone' = [gone EXCEPT ![m] = {}]

\* One query for every FILLED execution without an exit price, users and keys
\* included; executions of users without keys are passed over.
StartRun(m) ==
    LET found == {e \in Rows : row[e] = "FILLED"} IN
    /\ mpc[m] = "idle"
    /\ found # {}
    /\ mpc' = [mpc EXCEPT ![m] = "scan"]
    /\ batch' = [batch EXCEPT ![m] = found]
    /\ left' = [left EXCEPT ![m] = {AccountOf[e] : e \in found} \intersect connected]
    /\ UNCHANGED <<history, gone, platform, exchange, rpc>>

\* Hyperliquid, then Bybit, then Binance.
NextInLine(m, c) ==
    /\ mpc[m] = "scan"
    /\ c \in left[m]
    /\ VenueOf[c] = "bybit" => \A d \in left[m] : VenueOf[d] # "hyperliquid"
    /\ VenueOf[c] = "binance" => \A d \in left[m] : VenueOf[d] = "binance"

Fails(c) == c \in Broken \/ "apiError" \in Faults

\* The executions a visit closes when it believes that missing are gone: all of
\* them, save those for which no exit price was found this time.
MarkGone(m, c, missing) ==
    /\ \E priced \in SUBSET missing :
          /\ priced # missing => "noPrice" \in Faults
          /\ gone' = [gone EXCEPT ![m] = @ \union priced]
    /\ left' = [left EXCEPT ![m] = @ \ {c}]
    /\ UNCHANGED <<unfilled, mpc, batch, platform, exchange, rpc>>

Visit(m, c) ==
    /\ NextInLine(m, c)
    /\ c \notin Broken
    /\ MarkGone(m, c, {e \in batch[m] : AccountOf[e] = c /\ Flat(e)})
    /\ UNCHANGED blinded

\* HyperliquidService.get_user_positions logs the error and returns {}.
VisitBlind(m, c) ==
    /\ NextInLine(m, c)
    /\ Fails(c)
    /\ VenueOf[c] = "hyperliquid"
    /\ MarkGone(m, c, {e \in batch[m] : AccountOf[e] = c})
    /\ blinded' = blinded \union {e \in batch[m] : AccountOf[e] = c}

\* Variant with a slip: the error taken for an empty account.
VisitAbortsBlind(m, c) ==
    /\ NextInLine(m, c)
    /\ Fails(c)
    /\ VenueOf[c] = "bybit"
    /\ MarkGone(m, c, {e \in batch[m] : AccountOf[e] = c})
    /\ UNCHANGED blinded

\* The Bybit fetch raises out of monitor_positions; the task rolls back.
VisitAborts(m, c) ==
    /\ NextInLine(m, c)
    /\ Fails(c)
    /\ VenueOf[c] = "bybit"
    /\ EndRun(m)
    /\ UNCHANGED <<history, platform, exchange, rpc>>

\* Variant with a slip: the error is not caught.
VisitSkipsUncaught(m, c) ==
    /\ NextInLine(m, c)
    /\ Fails(c)
    /\ VenueOf[c] = "binance"
    /\ EndRun(m)
    /\ UNCHANGED <<history, platform, exchange, rpc>>

\* The Binance fetch is caught: this account is skipped.
VisitSkips(m, c) ==
    /\ NextInLine(m, c)
    /\ Fails(c)
    /\ VenueOf[c] = "binance"
    /\ MarkGone(m, c, {})
    /\ UNCHANGED blinded

\* One flush and one commit for the run.  The UPDATEs do not look at the
\* status; one that finds its row deleted fails the whole run.
FinishRun(m) ==
    /\ mpc[m] = "scan"
    /\ left[m] = {}
    /\ IF \E e \in gone[m] : row[e] = "deleted"
         THEN UNCHANGED platform
         ELSE /\ row' = [e \in Rows |-> IF e \in gone[m] THEN "CLOSED" ELSE row[e]]
              /\ source' = [e \in Rows |-> IF e \in gone[m] THEN "monitor" ELSE source[e]]
    /\ EndRun(m)
    /\ UNCHANGED <<history, exchange, rpc>>

CrashRun(m) ==
    /\ "crash" \in Faults
    /\ mpc[m] = "scan"
    /\ EndRun(m)
    /\ UNCHANGED <<history, platform, exchange, rpc>>

\* A run that proceeds: everything but its crash.
MonitorStep(m) ==
    \/ StartRun(m) \/ FinishRun(m)
    \/ \E c \in Accounts : Visit(m, c) \/ VisitBlind(m, c) \/ VisitAborts(m, c)
                             \/ VisitSkips(m, c)

-----------------------------------------------------------------------------
(***************************************************************************)
(* The close endpoint.                                                     *)
(***************************************************************************)

Goto(q, label) == rpc' = [rpc EXCEPT ![q] = label]

\* Reads the execution; the check of its status is never repeated.
Receive(q) ==
    /\ rpc[q] = "idle"
    /\ row[TargetOf[q]] = "FILLED"
    /\ AccountOf[TargetOf[q]] \in connected
    /\ Goto(q, "fetch")
    /\ UNCHANGED <<history, platform, exchange, monitor>>

\* Position present: close it.  Position absent: synchronise the record.
Fetch(q) ==
    LET e == TargetOf[q] IN
    /\ rpc[q] = "fetch"
    /\ AccountOf[e] \notin Broken
    /\ Goto(q, IF Flat(e) THEN "settle" ELSE "order")
    /\ UNCHANGED <<history, platform, exchange, monitor>>

\* Hyperliquid's empty answer reads as a closed position; elsewhere a 500.
FetchFails(q) ==
    LET e == TargetOf[q] IN
    /\ rpc[q] = "fetch"
    /\ Fails(AccountOf[e])
    /\ IF VenueOf[AccountOf[e]] = "hyperliquid"
         THEN Goto(q, "settle") /\ blinded' = blinded \union {e}
         ELSE Goto(q, "done") /\ UNCHANGED blinded
    /\ UNCHANGED <<unfilled, platform, exchange, monitor>>

\* A reduce-only market order for the quantity of the execution: its own lot
\* if that is open, else whatever the slot holds.
Reduce(e) ==
    \E f \in Holding(Slot(e)) :
        /\ e \in Holding(Slot(e)) => f = e
        /\ lot' = [lot EXCEPT ![f] = "closed"]
        /\ UNCHANGED <<moved, connected>>

CloseOrder(q) ==
    /\ rpc[q] = "order"
    /\ Reduce(TargetOf[q])
    /\ Goto(q, "settle")
    /\ UNCHANGED <<history, platform, monitor>>

\* Accepted, with the position as it was: the answer says as much of an order
\* that is not executed, or only in part, and nobody looks at it again.
CloseOrderUnfilled(q) ==
    /\ "noFill" \in Faults
    /\ rpc[q] = "order"
    /\ ~Flat(TargetOf[q])
    /\ unfilled' = unfilled \union {TargetOf[q]}
    /\ Goto(q, "settle")
    /\ UNCHANGED <<blinded, platform, exchange, monitor>>

\* 502: refused, nothing left to reduce, or done with its answer lost.
CloseOrderFails(q) ==
    /\ rpc[q] = "order"
    /\ \/ /\ "refused" \in Faults \/ Flat(TargetOf[q])
          /\ UNCHANGED exchange
       \/ "lostAck" \in Faults /\ Reduce(TargetOf[q])
    /\ Goto(q, "done")
    /\ UNCHANGED <<history, platform, monitor>>

\* Variant with a slip: an upsert that brings a deleted row back.
SettleUpserts(q) ==
    /\ rpc[q] = "settle"
    /\ row' = [row EXCEPT ![TargetOf[q]] = "CLOSED"]
    /\ source' = [source EXCEPT ![TargetOf[q]] = "manual"]
    /\ Goto(q, "done")
    /\ UNCHANGED <<history, exchange, monitor>>

\* After eight polls for a fill, with the ticker's and then the entry price as a
\* last resort, so that an exit price is always found, fill or no fill.
Settle(q) ==
    LET e == TargetOf[q] IN
    /\ rpc[q] = "settle"
    /\ IF row[e] = "deleted"
         THEN UNCHANGED platform
         ELSE /\ row' = [row EXCEPT ![e] = "CLOSED"]
              /\ source' = [source EXCEPT ![e] = "manual"]
    /\ Goto(q, "done")
    /\ UNCHANGED <<history, exchange, monitor>>

CrashRequest(q) ==
    /\ "crash" \in Faults
    /\ rpc[q] \notin {"idle", "done"}
    /\ Goto(q, "done")
    /\ UNCHANGED <<history, platform, exchange, monitor>>

RequestStep(q) ==
    \/ Receive(q) \/ Fetch(q) \/ FetchFails(q) \/ CloseOrder(q)
    \/ CloseOrderUnfilled(q) \/ CloseOrderFails(q) \/ Settle(q)

-----------------------------------------------------------------------------
(***************************************************************************)
(* The rest of the world.                                                  *)
(***************************************************************************)

\* execute_signal commits a FILLED row.  Its symbol check keeps a second one
\* off the slot unless sessions overlap (TradeExecution).
Open(e) ==
    /\ row[e] = "absent"
    /\ AccountOf[e] \in connected
    /\ "overlap" \in Faults \/ \A f \in Rows : Slot(f) = Slot(e) => row[f] # "FILLED"
    /\ row' = [row EXCEPT ![e] = "FILLED"]
    /\ lot' = [lot EXCEPT ![e] = "open"]
    /\ UNCHANGED <<history, source, moved, connected, monitor, rpc>>

\* Take profit, stop loss, liquidation, or the user on the exchange's own site.
ExchangeClose(e) ==
    /\ lot[e] = "open"
    /\ lot' = [lot EXCEPT ![e] = "closed"]
    /\ UNCHANGED <<history, platform, moved, connected, monitor, rpc>>

\* Keys can be removed whatever is open.
Disconnect(c) ==
    /\ "disconnect" \in Faults
    /\ VenueOf[c] # "hyperliquid"
    /\ c \in connected
    /\ connected' = connected \ {c}
    /\ UNCHANGED <<history, platform, lot, moved, monitor, rpc>>

\* New keys or a new wallet replace the old ones whatever is open.  Taken
\* between runs and requests, which keep using the keys they loaded.
SwitchAccount(c) ==
    /\ "switch" \in Faults
    /\ \A m \in Monitors : c \notin left[m]
    /\ \A q \in Requests : AccountOf[TargetOf[q]] = c => rpc[q] \in {"idle", "done"}
    /\ moved' = moved \union {e \in Rows : AccountOf[e] = c /\ lot[e] = "open"}
    /\ connected' = connected \union {c}
    /\ UNCHANGED <<history, platform, lot, monitor, rpc>>

\* The cascade of a strategy or signal deletion.
Delete(e) ==
    /\ "delete" \in Faults
    /\ row[e] \in {"FILLED", "CLOSED"}
    /\ row' = [row EXCEPT ![e] = "deleted"]
    /\ UNCHANGED <<history, source, exchange, monitor, rpc>>

Next ==
    \/ \E m \in Monitors : MonitorStep(m) \/ CrashRun(m)
    \/ \E q \in Requests : RequestStep(q) \/ CrashRequest(q)
    \/ \E e \in Rows : Open(e) \/ ExchangeClose(e) \/ Delete(e)
    \/ \E c \in Accounts : Disconnect(c) \/ SwitchAccount(c)

Spec == Init /\ [][Next]_vars

\* Celery beat starts the monitor every minute and each exchange call is
\* bounded by a timeout.  Users and exchanges owe nothing.
FairSpec == Spec /\ \A m \in Monitors : WF_vars(MonitorStep(m))

-----------------------------------------------------------------------------
(***************************************************************************)
(* Properties.                                                             *)
(***************************************************************************)

\* Every way in which the platform calls a live position closed, one that neither
\* the monitor nor the close endpoint looks at any more: it was looked for on the
\* account that replaced its own, its close order was accepted and did not close
\* it, or a failed fetch read as an empty account, which only Hyperliquid's does.
\* Monitors and requests that overlap, fail and crash add no other.
ClosedIsGone ==
    \A e \in Rows : row[e] = "CLOSED" /\ lot[e] = "open" =>
        \/ e \in moved \union unfilled
        \/ e \in blinded /\ VenueOf[AccountOf[e]] = "hyperliquid"

\* "Position is GONE from Hyperliquid" (monitor_positions): what is closed was
\* not open.
ClosedWasGone ==
    \A e \in Rows : row[e] = "CLOSED" => lot[e] # "open"

\* Every execution whose position the exchange no longer holds is closed within
\* some number of monitor runs, as long as its keys stay on file.
GoneIsRecorded ==
    \A e \in Rows :
        (row[e] = "FILLED" /\ AccountOf[e] \notin Broken /\ Flat(e))
            ~> (row[e] # "FILLED" \/ ~Flat(e) \/ AccountOf[e] \notin connected)

Ledger == INSTANCE ExecutionLedger WITH
    Keys <- Rows,
    table <- {[key |-> e, status |-> row[e]] : e \in {f \in Rows : row[f] \in {"FILLED", "CLOSED"}}},
    retired <- {e \in Rows : row[e] = "deleted"}

\* Overlapping monitors and requests still move the executions table as
\* ExecutionLedger promises.
ImplementsLedger == Ledger!Spec
=============================================================================
