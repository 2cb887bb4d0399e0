---------------------------- MODULE TradingHalt ----------------------------
(***************************************************************************)
(* The kill switch (routers/admin/trading.py), the endpoints that turn     *)
(* strategies on and off, and the two reads by which a worker's execution  *)
(* attempt obeys them.                                                     *)
(*                                                                         *)
(* Each admin request is one READ COMMITTED transaction of several         *)
(* statements: read the halt record, select the ids of the active          *)
(* strategies, UPDATE them, rewrite the record and commit.  The UPDATE     *)
(* locks the rows it changes and is not restricted to the ids selected     *)
(* before it.                                                              *)
(***************************************************************************)
EXTENDS Naturals, FiniteSets

CONSTANTS
    Strategies,
    Admins,         \* admin requests that may overlap, each slot reusable
    Attempts,       \* execution attempts of the worker
    OwnersWait,     \* whether owners leave their strategies alone during a halt
                    \* and while an admin request is open
    MaxRounds       \* bound: halts committed in a behaviour

ASSUME ConstantsOK ==
    /\ OwnersWait \in BOOLEAN
    /\ MaxRounds \in Nat

VARIABLES
    active,         \* strategies with is_active, committed
    wanted,         \* strategies their owners last asked to run
    halt,           \* committed halt record; exists is FALSE before the first halt
    phase,          \* admin |-> statement it is at
    read,           \* admin |-> the halt record it read
    ids,            \* admin |-> halted_strategy_ids it is about to store
    written,        \* admin |-> strategy rows it has updated and locked
    pc,             \* attempt |-> position in the worker's gate
    target,         \* attempt |-> strategy it executes for
    rounds,         \* halts committed
    strayed         \* history: strategies whose owner acted during a halt or an open
                    \* request, or that ran when two requests overlapped

config == <<active, wanted, halt>>
admin == <<phase, read, ids, written>>
worker == <<pc, target>>
vars == <<active, wanted, halt, phase, read, ids, written, pc, target, rounds, strayed>>

Records == [exists : BOOLEAN, halted : BOOLEAN, ids : SUBSET Strategies]
NoRecord == [exists |-> FALSE, halted |-> FALSE, ids |-> {}]

TypeOK ==
    /\ active \subseteq Strategies
    /\ wanted \subseteq Strategies
    /\ halt \in Records
    /\ phase \in [Admins -> {"idle", "select", "update", "upsert", "commit", "resume", "restart"}]
    /\ read \in [Admins -> Records]
    /\ ids \in [Admins -> SUBSET Strategies]
    /\ written \in [Admins -> SUBSET Strategies]
    /\ pc \in [Attempts -> {"halted?", "active?", "cleared", "done"}]
    /\ target \in [Attempts -> Strategies]
    /\ rounds \in 0..MaxRounds
    /\ strayed \subseteq Strategies

Init ==
    /\ active \in SUBSET Strategies
    /\ wanted = active
    /\ halt = NoRecord
    /\ phase = [d \in Admins |-> "idle"]
    /\ read = [d \in Admins |-> NoRecord]
    /\ ids = [d \in Admins |-> {}]
    /\ written = [d \in Admins |-> {}]
    /\ pc = [a \in Attempts |-> "halted?"]
    /\ target \in [Attempts -> Strategies]
    /\ rounds = 0
    /\ strayed = {}

-----------------------------------------------------------------------------
(***************************************************************************)
(* Admin requests.                                                         *)
(***************************************************************************)

Enter(d, p) == phase' = [phase EXCEPT ![d] = p]

\* A request that starts beside another one mixes up whatever runs or should run.
Start(d, p) ==
    /\ Enter(d, p)
    /\ strayed' = IF \E f \in Admins \ {d} : phase[f] # "idle" THEN strayed \union active \union wanted
                                                              ELSE strayed

\* Rows another open transaction has updated make an UPDATE wait.
Unlocked(d, S) == \A f \in Admins \ {d} : written[f] \intersect S = {}

Finish(d) ==
    /\ Enter(d, "idle")
    /\ read' = [read EXCEPT ![d] = NoRecord]
    /\ ids' = [ids EXCEPT ![d] = {}]
    /\ written' = [written EXCEPT ![d] = {}]

\* 409 when trading is already halted.
HaltRead(d) ==
    /\ phase[d] = "idle"
    /\ ~halt.halted
    /\ rounds < MaxRounds
    /\ Start(d, "select")
    /\ UNCHANGED <<config, read, ids, written, worker, rounds>>

HaltSelect(d) ==
    /\ phase[d] = "select"
    /\ ids' = [ids EXCEPT ![d] = active]
    /\ Enter(d, IF active = {} THEN "upsert" ELSE "update")
    /\ UNCHANGED <<config, read, written, worker, rounds, strayed>>

\* UPDATE strategies SET is_active = false WHERE is_active.
HaltUpdate(d) ==
    /\ phase[d] = "update"
    /\ Unlocked(d, active)
    /\ written' = [written EXCEPT ![d] = active]
    /\ Enter(d, "upsert")
    /\ UNCHANGED <<config, read, ids, worker, rounds, strayed>>

\* _upsert_halt_config looks the record up again; whether it is still halted or
\* halted by now is not checked.
HaltUpsert(d) ==
    /\ phase[d] = "upsert"
    /\ read' = [read EXCEPT ![d] = halt]
    /\ Enter(d, "commit")
    /\ UNCHANGED <<config, ids, written, worker, rounds, strayed>>

\* Variant with a slip: the flag is stored, the strategies stay on.
HaltCommitFlagOnly(d) ==
    /\ phase[d] = "commit"
    /\ rounds < MaxRounds
    /\ halt' = [exists |-> TRUE, halted |-> TRUE, ids |-> ids[d]]
    /\ rounds' = rounds + 1
    /\ Finish(d)
    /\ UNCHANGED <<active, wanted, worker, strayed>>

\* An INSERT where another one got in first breaks the unique key of the record
\* and rolls the request back.
HaltCommit(d) ==
    /\ phase[d] = "commit"
    /\ IF ~read[d].exists /\ halt.exists
         THEN UNCHANGED <<active, halt, rounds>>
         ELSE /\ rounds < MaxRounds
              /\ active' = active \ written[d]
              /\ halt' = [exists |-> TRUE, halted |-> TRUE, ids |-> ids[d]]
              /\ rounds' = rounds + 1
    /\ Finish(d)
    /\ UNCHANGED <<wanted, worker, strayed>>

ResumeRead(d) ==
    /\ phase[d] = "idle"
    /\ halt.halted
    /\ read' = [read EXCEPT ![d] = halt]
    /\ Start(d, "resume")
    /\ UNCHANGED <<config, ids, written, worker, rounds>>

\* Variant with a slip: the UPDATE forgets its WHERE clause.
ResumeUpdateAll(d) ==
    /\ phase[d] = "resume"
    /\ Unlocked(d, Strategies)
    /\ written' = [written EXCEPT ![d] = Strategies]
    /\ Enter(d, "restart")
    /\ UNCHANGED <<config, read, ids, worker, rounds, strayed>>

\* UPDATE strategies SET is_active = true WHERE id IN the stored ids.
ResumeUpdate(d) ==
    /\ phase[d] = "resume"
    /\ Unlocked(d, read[d].ids)
    /\ written' = [written EXCEPT ![d] = read[d].ids]
    /\ Enter(d, "restart")
    /\ UNCHANGED <<config, read, ids, worker, rounds, strayed>>

ResumeCommit(d) ==
    /\ phase[d] = "restart"
    /\ active' = active \union written[d]
    /\ halt' = [exists |-> TRUE, halted |-> FALSE, ids |-> {}]
    /\ Finish(d)
    /\ UNCHANGED <<wanted, worker, rounds, strayed>>

AdminStep(d) ==
    \/ HaltRead(d) \/ HaltSelect(d) \/ HaltUpdate(d) \/ HaltUpsert(d)
    \/ HaltCommit(d)
    \/ ResumeRead(d) \/ ResumeUpdate(d) \/ ResumeCommit(d)

-----------------------------------------------------------------------------
(***************************************************************************)
(* Owners and workers.                                                     *)
(***************************************************************************)

\* Nothing in the code makes owners wait; the passing run does not either.
Undisturbed == ~halt.halted /\ \A d \in Admins : phase[d] = "idle"
OwnerMayAct == OwnersWait => Undisturbed

\* What an owner says undisturbed is what counts from then on.
Says(t) == strayed' = IF Undisturbed THEN strayed \ {t} ELSE strayed \union {t}

\* The write of one row waits for whoever has it locked.
Free(t) == \A d \in Admins : t \notin written[d]

\* activate_strategy: asks for a subscription, not for the halt record.
Activate(t) ==
    /\ OwnerMayAct
    /\ Free(t)
    /\ active' = active \union {t}
    /\ wanted' = wanted \union {t}
    /\ Says(t)
    /\ UNCHANGED <<halt, admin, worker, rounds>>

\* pause_strategy and admin_deactivate_strategy.
Pause(t) ==
    /\ OwnerMayAct
    /\ Free(t)
    /\ active' = active \ {t}
    /\ wanted' = wanted \ {t}
    /\ Says(t)
    /\ UNCHANGED <<halt, admin, worker, rounds>>

\* _is_trading_halted, the first read of an attempt.
CheckHalt(a) ==
    /\ pc[a] = "halted?"
    /\ pc' = [pc EXCEPT ![a] = IF halt.halted THEN "done" ELSE "active?"]
    /\ UNCHANGED <<config, admin, target, rounds, strayed>>

\* Variant with a slip: the strategy is loaded and its is_active ignored.
CheckActiveLoadsOnly(a) ==
    /\ pc[a] = "active?"
    /\ pc' = [pc EXCEPT ![a] = "cleared"]
    /\ UNCHANGED <<config, admin, target, rounds, strayed>>

\* Several reads later the strategy is loaded.
CheckActive(a) ==
    /\ pc[a] = "active?"
    /\ pc' = [pc EXCEPT ![a] = IF target[a] \in active THEN "cleared" ELSE "done"]
    /\ UNCHANGED <<config, admin, target, rounds, strayed>>

\* execute_signal sends its order, or not; the halt is not looked at again.
Execute(a) ==
    /\ pc[a] = "cleared"
    /\ pc' = [pc EXCEPT ![a] = "done"]
    /\ UNCHANGED <<config, admin, target, rounds, strayed>>

\* The next signal.
Again(a) ==
    /\ pc[a] = "done"
    /\ pc' = [pc EXCEPT ![a] = "halted?"]
    /\ \E t \in Strategies : target' = [target EXCEPT ![a] = t]
    /\ UNCHANGED <<config, admin, rounds, strayed>>

Next ==
    \/ \E d \in Admins : AdminStep(d)
    \/ \E t \in Strategies : Activate(t) \/ Pause(t)
    \/ \E a \in Attempts : CheckHalt(a) \/ CheckActive(a) \/ Execute(a) \/ Again(a)

Spec == Init /\ [][Next]_vars

-----------------------------------------------------------------------------
(***************************************************************************)
(* Properties.                                                             *)
(***************************************************************************)

\* With trading on and no admin request open, exactly the strategies their
\* owners asked for are active: a halt and its resume cancel out, "leaving
\* user-deactivated strategies untouched" and the others running again.  What
\* can come between is an owner who acts during the halt or while a request is
\* open, on that owner's strategy only, and requests that overlap, which never
\* start a strategy that was paused before.
OwnersObeyed ==
    Undisturbed => \A t \in Strategies \ strayed : t \in active <=> t \in wanted

\* The statement without its exceptions, which the code does not keep.
HaltResumeCancelOut ==
    Undisturbed => active = wanted

\* The flag and the strategies agree: while trading is halted nothing is active
\* but what an owner has activated since the halt began, or what overlapping
\* requests left behind.
HaltedMeansIdle ==
    halt.halted => active \subseteq strayed

\* The second read closes the window the first one leaves: an attempt that read
\* the flag just before the halt is stopped by its strategy being inactive.
NoneClearedWhileHalted ==
    [][\A a \in Attempts :
          pc'[a] = "cleared" /\ pc[a] # "cleared" => ~halt.halted \/ target[a] \in strayed]_vars
=============================================================================
