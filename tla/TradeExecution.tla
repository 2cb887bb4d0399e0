--------------------------- MODULE TradeExecution ---------------------------
(***************************************************************************)
(* ATEService.execute_signal and the two callers that wrap it: the worker  *)
(* (_execute_signal_for_strategy_async) and the admin trigger endpoint.    *)
(*                                                                         *)
(* An attempt is one call of execute_signal for a (signal, strategy) pair. *)
(* It runs in its own database session under READ COMMITTED, awaits        *)
(* between its reads, talks to the exchange BEFORE its execution row       *)
(* reaches the database (db.add without a flush until the order has been   *)
(* answered) and commits at the very end.  Every await is a step of its    *)
(* own here, so attempts interleave at every one of them.                  *)
(*                                                                         *)
(* The exchange is modelled by lots: the quantity an attempt's market      *)
(* order bought or sold.  The exchange nets the lots of one account on one *)
(* symbol into a single position, a Slot; a reduce-only order reduces the  *)
(* slot and cannot tell the lots apart.  All signals of a symbol have the  *)
(* same direction here, so lots never net against each other.              *)
(***************************************************************************)
EXTENDS Naturals, FiniteSets

CONSTANTS
    Attempts,       \* calls of execute_signal, each made at most once
    Signals, Strategies, Users, Symbols,
    SymbolOf,       \* signal |-> symbol
    VenueOf,        \* signal |-> exchange, the table the signal is stored in
    OwnerOf,        \* strategy |-> user
    MaxPositions,   \* strategies.max_positions
    Concurrency,    \* sessions open at once: worker slots plus API requests
    Routes,         \* the callers considered
    Faults          \* what the environment may do, see FaultKinds

Venues == {"hyperliquid", "bybit", "binance"}
RouteKinds == {"task", "trigger"}

FaultKinds ==
    {"crash",       \* a worker dies, or an exception rolls the session back
     "lostAck",     \* an order reaches the exchange, its answer does not come
     "noFill",      \* the exchange accepts an order and fills none of it, an
                    \* order that closes a position included
     "tpslFails",   \* TP/SL placement fails for good
     "closeFails",  \* the emergency close is refused
     "blindFetch",  \* get_user_positions of Hyperliquid swallows an error
     "switch",      \* a user connects another account of the exchange
     "delete",      \* a strategy is deleted, its executions cascade
     "purge"}       \* cleanup_old_data deletes an EXPIRED signal

ASSUME ConstantsOK ==
    /\ IsFiniteSet(Attempts)
    /\ SymbolOf \in [Signals -> Symbols]
    /\ VenueOf \in [Signals -> Venues]
    /\ OwnerOf \in [Strategies -> Users]
    /\ MaxPositions \in Nat \ {0}
    /\ Concurrency \in Nat \ {0}
    /\ Routes \subseteq RouteKinds
    /\ Faults \subseteq FaultKinds

VARIABLES
    job,            \* attempt |-> its arguments, fixed before it starts
    pc,             \* attempt |-> the await it is at
    draft,          \* attempt |-> status of its row inside its session
    row,            \* attempt |-> status of its committed row
    lot,            \* attempt |-> what its order did on the exchange
    guarded,        \* attempts whose take profit and stop loss are resting
    alarmed,        \* attempts that logged MANUAL INTERVENTION REQUIRED
    signal,         \* signal |-> status of its row
    overdue,        \* signals whose expires_at has passed
    deleted,        \* strategies deleted
    met,            \* history: pairs of attempts whose sessions were open at once
    mishap          \* history: attempt |-> what came between it and its exchange

session == <<pc, draft>>
exchange == <<lot, guarded>>
catalog == <<signal, overdue, deleted>>
history == <<met, mishap>>
vars == <<job, pc, draft, row, lot, guarded, alarmed, signal, overdue, deleted, met, mishap>>

PCs == {"idle", "gate", "once", "symbol", "admit", "order", "flush", "protect",
        "close", "commit", "done"}
\* A session whose INSERT the database has accepted and not yet committed.
Flushed == {"protect", "close", "commit"}

\* The session died; an order was filled and its answer lost; an order to close
\* was accepted and filled nothing; the position was looked for on an account
\* that is not the one it is on, or in an empty answer to a failed call.
Mishaps == {"none", "died", "unanswered", "unfilled", "moved", "blinded"}

Jobs == [sig : Signals, strat : Strategies, route : Routes]

Key(a) == <<job[a].sig, job[a].strat>>
Venue(a) == VenueOf[job[a].sig]
Slot(a) == <<OwnerOf[job[a].strat], Venue(a), SymbolOf[job[a].sig]>>

InFlight == {a \in Attempts : pc[a] \notin {"idle", "done"}}
LotsOn(slot) == {a \in Attempts : lot[a] = "open" /\ Slot(a) = slot}

\* What a query of another session sees: committed rows only.
RowsOf(k) == {a \in Attempts : Key(a) = k /\ row[a] # "absent"}
OpenRowsOn(slot) == {a \in Attempts : row[a] = "FILLED" /\ Slot(a) = slot}
OpenRowsOf(t) == {a \in Attempts : row[a] = "FILLED" /\ job[a].strat = t}

TypeOK ==
    /\ job \in [Attempts -> Jobs]
    /\ pc \in [Attempts -> PCs]
    /\ draft \in [Attempts -> {"none", "PENDING", "FAILED", "FILLED"}]
    /\ row \in [Attempts -> {"absent", "FAILED", "FILLED", "CLOSED"}]
    /\ lot \in [Attempts -> {"none", "open", "closed"}]
    /\ guarded \subseteq Attempts
    /\ alarmed \subseteq Attempts
    /\ signal \in [Signals -> {"NEW", "CANCELLED", "EXPIRED", "purged"}]
    /\ overdue \subseteq Signals
    /\ deleted \subseteq Strategies
    /\ met \subseteq Attempts \X Attempts
    /\ mishap \in [Attempts -> Mishaps]

\* The trigger endpoint loads its signal from the Hyperliquid table only.
Init ==
    /\ job \in {j \in [Attempts -> Jobs] : \A a \in Attempts :
                  j[a].route = "trigger" => VenueOf[j[a].sig] = "hyperliquid"}
    /\ pc = [a \in Attempts |-> "idle"]
    /\ draft = [a \in Attempts |-> "none"]
    /\ row = [a \in Attempts |-> "absent"]
    /\ lot = [a \in Attempts |-> "none"]
    /\ guarded = {}
    /\ alarmed = {}
    /\ signal = [s \in Signals |-> "NEW"]
    /\ overdue = {}
    /\ deleted = {}
    /\ met = {}
    /\ mishap = [a \in Attempts |-> "none"]

-----------------------------------------------------------------------------
(***************************************************************************)
(* The session of one attempt.                                             *)
(***************************************************************************)

Goto(a, label) == pc' = [pc EXCEPT ![a] = label]

\* return None, a skip, or a rollback: the session ends and leaves nothing.
Leave(a) ==
    /\ Goto(a, "done")
    /\ draft' = [draft EXCEPT ![a] = "none"]

Begin(a) ==
    /\ pc[a] = "idle"
    /\ Cardinality(InFlight) < Concurrency
    /\ Goto(a, IF job[a].route = "task" THEN "gate" ELSE "once")
    /\ job[a].route = "trigger" =>
         signal[job[a].sig] # "purged" /\ job[a].strat \notin deleted
    /\ met' = met \union ({a} \X InFlight) \union (InFlight \X {a})
    /\ UNCHANGED <<mishap, job, draft, row, exchange, alarmed, catalog>>

\* The worker's own checks let the attempt through.  The status of the signal
\* is compared with EXPIRED and with nothing else.
PassGate(a) ==
    /\ pc[a] = "gate"
    /\ signal[job[a].sig] \notin {"EXPIRED", "purged"}
    /\ job[a].sig \notin overdue
    /\ job[a].strat \notin deleted
    /\ Goto(a, "once")
    /\ UNCHANGED <<history, job, draft, row, exchange, alarmed, catalog>>

\* Halted, signal gone or EXPIRED, strategy inactive, wrong target exchange,
\* no keys, no ATE access or drawdown: skipped without a row.
Skip(a) ==
    /\ pc[a] = "gate"
    /\ Leave(a)
    /\ UNCHANGED <<history, job, row, exchange, alarmed, catalog>>

\* The worker meets a signal past its expiry and marks it.
SkipOverdue(a) ==
    /\ pc[a] = "gate"
    /\ job[a].sig \in overdue
    /\ signal[job[a].sig] \notin {"EXPIRED", "purged"}
    /\ signal' = [signal EXCEPT ![job[a].sig] = "EXPIRED"]
    /\ Leave(a)
    /\ UNCHANGED <<history, job, row, exchange, alarmed, overdue, deleted>>

\* Variant with a slip: only open executions count as already executed.
CheckOnceOpenOnly(a) ==
    /\ pc[a] = "once"
    /\ IF \A b \in RowsOf(Key(a)) : row[b] # "FILLED"
         THEN Goto(a, "symbol") /\ UNCHANGED draft
         ELSE Leave(a)
    /\ UNCHANGED <<history, job, row, exchange, alarmed, catalog>>

\* First idempotency layer: a committed row of the same pair, in any status.
CheckOnce(a) ==
    /\ pc[a] = "once"
    /\ IF RowsOf(Key(a)) = {} THEN Goto(a, "symbol") /\ UNCHANGED draft
                              ELSE Leave(a)
    /\ UNCHANGED <<history, job, row, exchange, alarmed, catalog>>

\* The in-memory rate limiter of the user refuses the call.
RateLimited(a) ==
    /\ pc[a] = "once"
    /\ Leave(a)
    /\ UNCHANGED <<history, job, row, exchange, alarmed, catalog>>

\* Variant with a slip: looks at the executions of the same strategy only.
CheckSymbolOfStrategy(a) ==
    /\ pc[a] = "symbol"
    /\ IF OpenRowsOn(Slot(a)) \intersect OpenRowsOf(job[a].strat) = {}
         THEN Goto(a, "admit") /\ UNCHANGED draft
         ELSE Leave(a)
    /\ UNCHANGED <<history, job, row, exchange, alarmed, catalog>>

\* Second layer: a committed FILLED row of the user on the symbol.
CheckSymbol(a) ==
    /\ pc[a] = "symbol"
    /\ IF OpenRowsOn(Slot(a)) = {} THEN Goto(a, "admit") /\ UNCHANGED draft
                                   ELSE Leave(a)
    /\ UNCHANGED <<history, job, row, exchange, alarmed, catalog>>

\* Variant with a slip: off by one at the limit.
AdmitOneMore(a) ==
    /\ pc[a] = "admit"
    /\ job[a].sig \notin overdue
    /\ Cardinality(OpenRowsOf(job[a].strat)) <= MaxPositions
    /\ Goto(a, "order")
    /\ draft' = [draft EXCEPT ![a] = "PENDING"]
    /\ UNCHANGED <<history, job, row, exchange, alarmed, catalog>>

\* evaluate_signal and the count of open executions let the attempt through:
\* its row is added to the session, which does not flush it.
Admit(a) ==
    /\ pc[a] = "admit"
    /\ job[a].sig \notin overdue
    /\ Cardinality(OpenRowsOf(job[a].strat)) < MaxPositions
    /\ Goto(a, "order")
    /\ draft' = [draft EXCEPT ![a] = "PENDING"]
    /\ UNCHANGED <<history, job, row, exchange, alarmed, catalog>>

\* Any other check between the two idempotency layers and the order: keys,
\* balance, confidence, expiry, limits, direction, trend, sizing, margin,
\* missing or invalid TP/SL, blocklist.  Each leaves a FAILED row.
Reject(a) ==
    /\ pc[a] = "admit"
    /\ Goto(a, "flush")
    /\ draft' = [draft EXCEPT ![a] = "FAILED"]
    /\ UNCHANGED <<history, job, row, exchange, alarmed, catalog>>

AwaitsOrder(a) ==
    /\ pc[a] = "order"
    /\ Goto(a, "flush")
    /\ UNCHANGED <<met, job, row, guarded, alarmed, catalog>>

Befalls(a, what) == mishap' = [mishap EXCEPT ![a] = what]

OrderFills(a) ==
    /\ AwaitsOrder(a)
    /\ lot' = [lot EXCEPT ![a] = "open"]
    /\ draft' = [draft EXCEPT ![a] = "FILLED"]
    /\ UNCHANGED mishap

\* Undecryptable keys, unapproved agent wallet or an order the exchange refuses.
OrderRefused(a) ==
    /\ AwaitsOrder(a)
    /\ draft' = [draft EXCEPT ![a] = "FAILED"]
    /\ UNCHANGED <<lot, mishap>>

\* place_order turns every exception into success = False.
OrderUnanswered(a) ==
    /\ "lostAck" \in Faults
    /\ AwaitsOrder(a)
    /\ lot' = [lot EXCEPT ![a] = "open"]
    /\ draft' = [draft EXCEPT ![a] = "FAILED"]
    /\ Befalls(a, "unanswered")

\* Bybit and Binance acknowledge the acceptance of an order, whatever of it is
\* executed; the code takes it for a fill and uses what it learns of the fill
\* only to refine price and quantity.
OrderUnfilled(a) ==
    /\ "noFill" \in Faults
    /\ Venue(a) # "hyperliquid"
    /\ AwaitsOrder(a)
    /\ draft' = [draft EXCEPT ![a] = "FILLED"]
    /\ UNCHANGED <<lot, mishap>>

\* Variant with a slip: an INSERT waits for every session about to insert.
KeyIsFreeOfWaiters(a) ==
    \A b \in Attempts \ {a} : Key(b) = Key(a) => pc[b] \notin Flushed \union {"flush"}

\* The unique index makes an INSERT wait for another open transaction that
\* holds the same pair.
KeyIsFree(a) ==
    \A b \in Attempts \ {a} : Key(b) = Key(a) => pc[b] \notin Flushed

\* Variants with a slip: no unique constraint, no foreign keys.
ConflictsWithoutUnique(a) ==
    job[a].strat \in deleted \/ signal[job[a].sig] = "purged"

ConflictsWithoutParents(a) == RowsOf(Key(a)) # {}

\* The INSERT breaks a unique constraint or a foreign key.
Conflicts(a) ==
    \/ RowsOf(Key(a)) # {}
    \/ job[a].strat \in deleted
    \/ signal[job[a].sig] = "purged"

\* await db.flush(): the row meets the database for the first time, after the
\* order.  An IntegrityError rolls the session back and nothing is undone on
\* the exchange.
Flush(a) ==
    /\ pc[a] = "flush"
    /\ KeyIsFree(a)
    /\ IF Conflicts(a)
         THEN Leave(a)
         ELSE /\ Goto(a, IF draft[a] = "FILLED" THEN "protect" ELSE "commit")
              /\ UNCHANGED draft
    /\ UNCHANGED <<history, job, row, exchange, alarmed, catalog>>

\* Take profit and stop loss accepted.  Bybit refuses a trading stop for a
\* position it does not have.
Protect(a) ==
    /\ pc[a] = "protect"
    /\ Venue(a) = "bybit" => LotsOn(Slot(a)) # {}
    /\ guarded' = guarded \union {a}
    /\ Goto(a, "commit")
    /\ UNCHANGED <<history, job, draft, row, lot, alarmed, catalog>>

\* Variant with a slip: the failure is only logged on every venue.
ProtectFailsLogged(a) ==
    /\ pc[a] = "protect"
    /\ "tpslFails" \in Faults \/ LotsOn(Slot(a)) = {}
    /\ Goto(a, "commit")
    /\ UNCHANGED <<history, job, draft, row, exchange, alarmed, catalog>>

\* Placement failed after its retries.  Hyperliquid failures are only logged.
ProtectFails(a) ==
    /\ pc[a] = "protect"
    /\ "tpslFails" \in Faults \/ LotsOn(Slot(a)) = {}
    /\ Goto(a, IF Venue(a) = "hyperliquid" THEN "commit" ELSE "close")
    /\ UNCHANGED <<history, job, draft, row, exchange, alarmed, catalog>>

\* A reduce-only order for the attempt's quantity: its own lot when that is
\* still open, else whatever else is open on the slot.
Reduce(a) ==
    \E b \in LotsOn(Slot(a)) :
        /\ lot[a] = "open" => b = a
        /\ lot' = [lot EXCEPT ![b] = "closed"]

EmergencyClose(a) ==
    /\ pc[a] = "close"
    /\ Reduce(a)
    /\ draft' = [draft EXCEPT ![a] = "FAILED"]
    /\ Goto(a, "commit")
    /\ UNCHANGED <<history, job, row, guarded, alarmed, catalog>>

\* The answer to a close says that the order was accepted; nobody looks for a
\* fill, and the row says FAILED although the position is as it was.
EmergencyCloseUnfilled(a) ==
    /\ "noFill" \in Faults
    /\ pc[a] = "close"
    /\ LotsOn(Slot(a)) # {}
    /\ draft' = [draft EXCEPT ![a] = "FAILED"]
    /\ Befalls(a, "unfilled")
    /\ Goto(a, "commit")
    /\ UNCHANGED <<met, job, row, exchange, alarmed, catalog>>

\* Variant with a slip: the row is marked FAILED before the result is looked at.
EmergencyCloseFailsMarked(a) ==
    /\ pc[a] = "close"
    /\ "closeFails" \in Faults \/ LotsOn(Slot(a)) = {}
    /\ draft' = [draft EXCEPT ![a] = "FAILED"]
    /\ alarmed' = alarmed \union {a}
    /\ Goto(a, "commit")
    /\ UNCHANGED <<history, job, row, exchange, catalog>>

\* The close is refused, or done and its answer lost: the row stays FILLED.
EmergencyCloseFails(a) ==
    /\ pc[a] = "close"
    /\ \/ /\ "closeFails" \in Faults \/ LotsOn(Slot(a)) = {}
          /\ UNCHANGED lot
       \/ "lostAck" \in Faults /\ Reduce(a)
    /\ alarmed' = alarmed \union {a}
    /\ Goto(a, "commit")
    /\ UNCHANGED <<history, job, draft, row, guarded, catalog>>

Commit(a) ==
    /\ pc[a] = "commit"
    /\ row' = [row EXCEPT ![a] = draft[a]]
    /\ Leave(a)
    /\ UNCHANGED <<history, job, exchange, alarmed, catalog>>

\* Whatever ends the session early takes its row with it.
Crash(a) ==
    /\ "crash" \in Faults
    /\ a \in InFlight
    /\ Leave(a)
    /\ Befalls(a, "died")
    /\ UNCHANGED <<met, job, row, exchange, alarmed, catalog>>

Step(a) ==
    \/ PassGate(a) \/ Skip(a) \/ SkipOverdue(a)
    \/ CheckOnce(a) \/ RateLimited(a) \/ CheckSymbol(a) \/ Admit(a) \/ Reject(a)
    \/ OrderFills(a) \/ OrderRefused(a) \/ OrderUnanswered(a) \/ OrderUnfilled(a)
    \/ Flush(a) \/ Protect(a) \/ ProtectFails(a)
    \/ EmergencyClose(a) \/ EmergencyCloseUnfilled(a) \/ EmergencyCloseFails(a)
    \/ Commit(a)

-----------------------------------------------------------------------------
(***************************************************************************)
(* Everything else that touches the same rows and positions.               *)
(***************************************************************************)

\* A take profit or stop loss fires, the user closes by hand, a manual close
\* request sends its order, the account is liquidated.
ExchangeClose(a) ==
    /\ lot[a] = "open"
    /\ lot' = [lot EXCEPT ![a] = "closed"]
    /\ UNCHANGED <<history, job, session, row, guarded, alarmed, catalog>>

\* The monitor or the end of a manual close writes CLOSED (PositionSync has
\* the detail).
SyncClose(a) ==
    /\ row[a] = "FILLED"
    /\ lot[a] # "open"
    /\ row' = [row EXCEPT ![a] = "CLOSED"]
    /\ UNCHANGED <<history, job, session, exchange, alarmed, catalog>>

\* They write it over a position that is open: after an accepted close that
\* filled nothing, with keys of another account, or after a fetch of Hyperliquid
\* that failed and read as an empty account.
SyncCloseMisled(a) ==
    /\ row[a] = "FILLED"
    /\ lot[a] = "open"
    /\ \/ "noFill" \in Faults /\ Befalls(a, "unfilled")
       \/ "switch" \in Faults /\ Befalls(a, "moved")
       \/ "blindFetch" \in Faults /\ Venue(a) = "hyperliquid" /\ Befalls(a, "blinded")
    /\ row' = [row EXCEPT ![a] = "CLOSED"]
    /\ UNCHANGED <<met, job, session, exchange, alarmed, catalog>>

TimePasses(s) ==
    /\ s \notin overdue
    /\ overdue' = overdue \union {s}
    /\ UNCHANGED <<history, job, session, row, exchange, alarmed, signal, deleted>>

\* Celery beat: expire every overdue NEW signal, one commit.
ExpireStale ==
    /\ \E s \in overdue : signal[s] = "NEW"
    /\ signal' = [s \in Signals |->
                    IF s \in overdue /\ signal[s] = "NEW" THEN "EXPIRED" ELSE signal[s]]
    /\ UNCHANGED <<history, job, session, row, exchange, alarmed, overdue, deleted>>

\* Admin: cancel a signal that is not in a terminal status.  There is no
\* endpoint for Binance signals.
CancelSignal(s) ==
    /\ signal[s] = "NEW"
    /\ VenueOf[s] # "binance"
    /\ signal' = [signal EXCEPT ![s] = "CANCELLED"]
    /\ UNCHANGED <<history, job, session, row, exchange, alarmed, overdue, deleted>>

\* DELETE of a parent: waits for the open transactions that inserted a child,
\* then removes the children with it.
Cascade(A) ==
    /\ \A a \in A : pc[a] \notin Flushed
    /\ row' = [a \in Attempts |-> IF a \in A THEN "absent" ELSE row[a]]

DeleteStrategy(t) ==
    /\ "delete" \in Faults
    /\ t \notin deleted
    /\ Cascade({a \in Attempts : job[a].strat = t})
    /\ deleted' = deleted \union {t}
    /\ UNCHANGED <<history, job, session, exchange, alarmed, signal, overdue>>

\* cleanup_old_data: 90 days old, so no session still works on the signal.
PurgeSignal(s) ==
    /\ "purge" \in Faults
    /\ signal[s] = "EXPIRED"
    /\ \A a \in InFlight : job[a].sig # s
    /\ Cascade({a \in Attempts : job[a].sig = s})
    /\ signal' = [signal EXCEPT ![s] = "purged"]
    /\ UNCHANGED <<history, job, session, exchange, alarmed, overdue, deleted>>

Next ==
    \/ \E a \in Attempts : Begin(a) \/ Step(a) \/ Crash(a)
                             \/ ExchangeClose(a) \/ SyncClose(a) \/ SyncCloseMisled(a)
    \/ \E s \in Signals : TimePasses(s) \/ CancelSignal(s) \/ PurgeSignal(s)
    \/ \E t \in Strategies : DeleteStrategy(t)
    \/ ExpireStale

Spec == Init /\ [][Next]_vars

\* A session that can take a step takes it: every await of execute_signal is
\* bounded by a client timeout and Celery's soft time limit ends the rest.
FairSpec == Spec /\ \A a \in Attempts : WF_vars(Step(a))

-----------------------------------------------------------------------------
(***************************************************************************)
(* The executions table.                                                   *)
(***************************************************************************)

Pairs == Signals \X Strategies

\* The unique constraints hold for committed rows, whatever sessions overlap.
OneRowPerKey ==
    \A a, b \in Attempts :
        row[a] # "absent" /\ row[b] # "absent" /\ Key(a) = Key(b) => a = b

\* At most one session holds an uncommitted row of a pair, and none does once
\* the pair has a committed row: no session learns of a conflict at COMMIT.
OneHolderPerKey ==
    \A a, b \in Attempts :
        pc[a] \in Flushed /\ Key(a) = Key(b) =>
            /\ row[b] = "absent"
            /\ pc[b] \in Flushed => a = b

CommittedRow(a) == [key |-> Key(a), status |-> row[a]]

\* The executions table as other sessions see it, and the pairs without a parent.
Table == {CommittedRow(a) : a \in {b \in Attempts : row[b] # "absent"}}
Retired == {k \in Pairs : k[2] \in deleted \/ signal[k[1]] = "purged"}

Ledger == INSTANCE ExecutionLedger WITH Keys <- Pairs, table <- Table, retired <- Retired

\* The executions table behaves as ExecutionLedger promises.
ImplementsLedger == Ledger!Spec
-----------------------------------------------------------------------------
(***************************************************************************)
(* Positions and rows.                                                     *)
(***************************************************************************)

\* A row committed FILLED on Bybit or Binance with its quantity still open has
\* its TP/SL resting, or an operator was called: whatever fails or crashes,
\* execute_signal does not leave it FILLED and unprotected.  (What an accepted
\* close leaves behind says FAILED, see OpenLotsAreBooked.)
ProtectedOrAlarmed ==
    \A a \in Attempts :
        row[a] = "FILLED" /\ lot[a] = "open" /\ Venue(a) # "hyperliquid"
            => a \in guarded \union alarmed

\* The sessions of these attempts followed one another.
Apart(A) == \A a, b \in A : <<a, b>> \notin met

\* The second idempotency layer, however many sessions are open: a user has two
\* open executions on one symbol of one exchange only if the sessions that
\* opened them overlapped, whatever failed, expired or was closed in between.
NoDuplicatePositions ==
    \A a, b \in Attempts :
        row[a] = "FILLED" /\ row[b] = "FILLED" /\ Slot(a) = Slot(b) /\ a # b
            => <<a, b>> \in met

\* "enforces two idempotency layers: ... prevents duplicate positions"
\* (execute_signal_task): no user has two open executions on one symbol.
OneOpenRowPerSlot ==
    \A a, b \in Attempts :
        row[a] = "FILLED" /\ row[b] = "FILLED" /\ Slot(a) = Slot(b) => a = b

\* The first idempotency layer: a strategy trades a signal twice only if the
\* two sessions overlapped, one of them died and took its row along, or the
\* rows went with the strategy or the signal.
OrderedOnce ==
    \A a, b \in Attempts :
        lot[a] # "none" /\ lot[b] # "none" /\ Key(a) = Key(b) /\ a # b
            => \/ <<a, b>> \in met
               \/ "died" \in {mishap[a], mishap[b]}
               \/ Key(a) \in Retired

\* strategies.max_positions bounds the open executions of a strategy, any
\* number of sessions at once: of those whose sessions did not overlap there
\* are at most so many.
MaxPositionsRespected ==
    \A t \in Strategies : \A A \in SUBSET OpenRowsOf(t) :
        Apart(A) => Cardinality(A) <= MaxPositions

\* Every way in which quantity of a finished attempt is open and off the books,
\* where neither the monitor nor the user finds it: its row says FAILED after an
\* answer that was lost or a close that was accepted and not filled; it has no
\* row, because the session died, the INSERT lost to another attempt at the pair,
\* or strategy or signal were deleted; or it was closed after an order that filled
\* nothing, on another account, or on an empty answer, of Hyperliquid alone.
OpenLotsAreBooked ==
    \A a \in Attempts :
        pc[a] = "done" /\ lot[a] = "open" /\ row[a] # "FILLED" =>
            \/ row[a] = "FAILED" /\ mishap[a] \in {"unanswered", "unfilled"}
            \/ /\ row[a] = "absent"
               /\ \/ mishap[a] = "died"
                  \/ \E b \in Attempts \ {a} : Key(b) = Key(a) /\ row[b] # "absent"
                  \/ Key(a) \in Retired
            \/ /\ row[a] = "CLOSED"
               /\ \/ mishap[a] \in {"unfilled", "moved"}
                  \/ mishap[a] = "blinded" /\ Venue(a) = "hyperliquid"

\* "ATE checks signal.status == NEW for idempotency" (execute_signal_task): an
\* attempt gets past the checks of the worker only for a NEW signal.
PassesOnlyNew ==
    [][\A a \in Attempts : pc[a] = "gate" /\ pc'[a] = "once"
                             => signal[job[a].sig] = "NEW"]_vars

\* No session waits for ever: waiting for the unique index ends because the
\* holder of a pair never waits itself.
SessionsEnd ==
    \A a \in Attempts : (a \in InFlight) ~> (pc[a] = "done")
=============================================================================
