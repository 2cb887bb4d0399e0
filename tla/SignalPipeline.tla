--------------------------- MODULE SignalPipeline ---------------------------
(***************************************************************************)
(* From market data to signals to execution attempts: the analysis         *)
(* pipelines, one per exchange and an older one for all of them, as Celery *)
(* runs them (worker/tasks.py, services/ai_engine.py), the tasks that      *)
(* expire and purge signals, the admin who cancels them                    *)
(* (routers/admin/signals.py) and switches tasks off                       *)
(* (routers/admin/system.py).                                              *)
(*                                                                         *)
(* What the models answer and whether the filters let a signal through is  *)
(* chosen freely here (TradeDecision has it), and so is what an execution  *)
(* attempt comes to (TradeExecution has it).  A signal is named by the     *)
(* pipeline start that made it and its symbol; its three tables are one.   *)
(***************************************************************************)
EXTENDS Naturals, FiniteSets

CONSTANTS
    Exchanges, Symbols, Strategies,
    Workers,        \* processes of the analysis queue
    Cancellable,    \* exchanges whose signals an admin can cancel
    Lifetime,       \* of a signal; analysis_schedule_hours and a quarter in the code
    Retention,      \* age at which expired signals are purged
    Faults,         \* of "config", "error", "lost", "killed"
    MaxNow, MaxStarts, MaxRequests   \* bounds: clock, starts with retries, requests by hand

ASSUME PipelineConstants ==
    /\ Lifetime \in Nat /\ Retention \in Nat /\ MaxNow \in Nat
    /\ MaxStarts \in Nat /\ MaxRequests \in Nat
    /\ Cancellable \subseteq Exchanges
    /\ Faults \subseteq {"config", "error", "lost", "killed"}
    /\ "analysis-pipeline" \notin Exchanges

VARIABLES
    now,
    signal,     \* signals, bybit_signals, binance_signals: id |-> record
    disabled,   \* admin_config "disabled_tasks"
    active,     \* strategies switched on
    job,        \* worker |-> the pipeline task it works on
    starts,     \* number of starts so far
    sweep,      \* what the expiry task has selected
    edit,       \* what an admin who cancels has read
    requests,   \* requests by hand so far
    tried,      \* <<signal, strategy>> handed to the ATE
    offered,    \* history: pairs the loop has been through
    broken,     \* history: starts that were interrupted after their signals
    met         \* history: pairs of starts at work on a common exchange at a time

vars == <<now, signal, disabled, active, job, starts, sweep, edit, requests, tried, offered, broken, met>>

Keys == Symbols \X Exchanges
Ids == (1..MaxStarts) \X Keys
Tasks == Exchanges \union {"analysis-pipeline"}
SignalStatuses == {"NEW", "EXECUTING", "FILLED", "EXPIRED", "CANCELLED"}
Terminal == {"FILLED", "EXPIRED", "CANCELLED"}
Stages == {"idle", "queued", "fetch", "keys", "analyse", "strategies", "execute"}
SignalRows == [status : SignalStatuses, created : 0..MaxNow, expires : 0..(MaxNow + Lifetime)]

Idle == [stage |-> "idle", on |-> {}, no |-> 0, retries |-> 0, data |-> {}, skip |-> {},
         drafts |-> {}, left |-> {}]

TypeOK ==
    /\ now \in 0..MaxNow
    /\ DOMAIN signal \subseteq Ids /\ \A i \in DOMAIN signal : signal[i] \in SignalRows
    /\ disabled \subseteq Tasks
    /\ active \subseteq Strategies
    /\ job \in [Workers -> [stage : Stages, on : SUBSET Exchanges, no : 0..MaxStarts,
                            retries : 0..1, data : SUBSET Keys, skip : SUBSET Keys,
                            drafts : SUBSET (Keys \X (0..(MaxNow + Lifetime))),
                            left : SUBSET (Ids \X Strategies)]]
    /\ starts \in 0..MaxStarts
    /\ sweep \subseteq Ids /\ edit \subseteq Ids /\ requests \in 0..MaxRequests
    /\ tried \subseteq Ids \X Strategies /\ tried \subseteq offered
    /\ met \subseteq (0..MaxStarts) \X (0..MaxStarts)

Init ==
    /\ now = 0
    /\ signal = << >>
    /\ disabled \in {{}, {"analysis-pipeline"}}
    /\ active = Strategies
    /\ job = [w \in Workers |-> Idle]
    /\ starts = 0
    /\ sweep = {} /\ edit = {} /\ requests = 0
    /\ tried = {} /\ offered = {} /\ broken = {} /\ met = {}

-----------------------------------------------------------------------------
(***************************************************************************)
(* A pipeline task.                                                        *)
(***************************************************************************)

store == <<signal, sweep, edit>>
settings == <<disabled, active, requests>>
history == <<tried, offered, broken, met>>

NameOf(E) == IF E = Exchanges THEN {"analysis-pipeline"} ELSE E

\* The starts at work on an exchange of E in other workers.
Beside(w, E) == {job[v].no : v \in {u \in Workers \ {w} : job[u].on \intersect E # {}}}

\* The next start begins beside them; nothing in the code keeps it from doing so.
Meet(w, E) == /\ starts < MaxStarts
              /\ starts' = starts + 1
              /\ met' = met \union (Beside(w, E) \X {starts + 1}) \union ({starts + 1} \X Beside(w, E))

\* From the beat schedule or by hand.
Start(w, E) ==
    /\ job[w].stage = "idle"
    /\ Meet(w, E)
    /\ job' = [job EXCEPT ![w] = [Idle EXCEPT !.stage = "queued", !.on = E, !.no = starts + 1, !.retries = 1]]
    /\ UNCHANGED <<now, store, settings, tried, offered, broken>>

\* The switch is taken for on when it cannot be read.
Take(w) ==
    /\ job[w].stage = "queued"
    /\ \/ /\ NameOf(job[w].on) \intersect disabled = {} \/ "config" \in Faults
          /\ job' = [job EXCEPT ![w].stage = "fetch"]
       \/ /\ NameOf(job[w].on) \intersect disabled # {}
          /\ job' = [job EXCEPT ![w] = Idle]
    /\ UNCHANGED <<now, starts, store, settings, history>>

\* An exchange that fails to answer contributes nothing.
FetchMarketData(w) ==
    /\ job[w].stage = "fetch"
    /\ \E D \in SUBSET (Symbols \X job[w].on) :
          job' = [job EXCEPT ![w] = IF D = {} THEN Idle ELSE [@ EXCEPT !.stage = "keys", !.data = D]]
    /\ UNCHANGED <<now, starts, store, settings, history>>

Live(i) == signal[i].status = "NEW" /\ signal[i].expires > now
LiveOn(k) == {i \in DOMAIN signal : i[2] = k /\ Live(i)}

\* Variant with a slip: the third table is not read.
ActiveKeysOfTwoTables == {k \in Keys : k[2] \in Cancellable /\ LiveOn(k) # {}}

ActiveSignalKeys == {k \in Keys : LiveOn(k) # {}}

ReadActiveKeys(w) ==
    /\ job[w].stage = "keys"
    /\ job' = [job EXCEPT ![w].stage = "analyse", ![w].skip = ActiveSignalKeys]
    /\ UNCHANGED <<now, starts, store, settings, history>>

\* One symbol: skipped, held back, or drafted; the models take up to a minute.
Analyse(w, k) ==
    /\ job[w].stage = "analyse" /\ k \in job[w].data
    /\ \E new \in {{}, {<<k, now + Lifetime>>}} :
          /\ k \in job[w].skip => new = {}
          /\ job' = [job EXCEPT ![w].data = @ \ {k}, ![w].drafts = @ \union new]
    /\ UNCHANGED <<now, starts, store, settings, history>>

Inserted(w) == {<<job[w].no, d[1]>> : d \in job[w].drafts}

\* All drafts in one transaction.
StoreSignals(w) ==
    /\ job[w].stage = "analyse" /\ job[w].data = {}
    /\ IF job[w].drafts = {}
         THEN /\ job' = [job EXCEPT ![w] = Idle]
              /\ UNCHANGED signal
         ELSE /\ signal' = [i \in DOMAIN signal \union Inserted(w) |->
                   IF i \in DOMAIN signal THEN signal[i]
                   ELSE [status |-> "NEW", created |-> now,
                         expires |-> (CHOOSE d \in job[w].drafts : d[1] = i[2])[2]]]
              /\ job' = [job EXCEPT ![w].stage = "strategies"]
    /\ UNCHANGED <<now, starts, sweep, edit, settings, history>>

ListStrategies(w) ==
    /\ job[w].stage = "strategies"
    /\ job' = [job EXCEPT ![w] = IF active = {} THEN Idle
                                 ELSE [@ EXCEPT !.stage = "execute", !.left = Inserted(w) \X active]]
    /\ UNCHANGED <<now, starts, store, settings, history>>

\* What is left after a pair whose attempt may have failed.  Variant with a slip: an
\* exception ends the loop.
LeftUnlessFailed(left, pair, failed) == IF failed THEN {} ELSE left \ {pair}

Left(left, pair, failed) == left \ {pair}

\* The checks before the ATE, and the ATE itself, on which nothing here depends.
\* A signal found past its time is marked.
Attempt(w, i, s) ==
    /\ job[w].stage = "execute" /\ <<i, s>> \in job[w].left
    /\ \E failed \in IF "error" \in Faults THEN BOOLEAN ELSE {FALSE} :
          LET left == Left(job[w].left, <<i, s>>, failed)
          IN job' = [job EXCEPT ![w] = IF left = {} THEN Idle ELSE [@ EXCEPT !.left = left]]
    /\ LET readable == i \in DOMAIN signal /\ signal[i].status # "EXPIRED"
           late == readable /\ signal[i].expires < now
       IN /\ signal' = IF late THEN [signal EXCEPT ![i].status = "EXPIRED"] ELSE signal
          /\ tried' = IF readable /\ ~late /\ s \in active THEN tried \union {<<i, s>>} ELSE tried
    /\ offered' = offered \union {<<i, s>>}
    /\ UNCHANGED <<now, starts, sweep, edit, settings, broken, met>>

\* What the queue does with a task that was interrupted.  Variant with a slip: a task
\* that was lost goes on with the signals it has stored.
RequeuedWithSignals(j) == [j EXCEPT !.stage = IF j.left = {} THEN "queued" ELSE "execute",
                                    !.left = (DOMAIN signal) \X active]

Requeued(j) == [Idle EXCEPT !.stage = "queued", !.on = j.on, !.no = starts + 1, !.retries = j.retries]

Interrupted(w) ==
    broken' = IF job[w].stage \in {"strategies", "execute"} THEN broken \union {job[w].no} ELSE broken

\* An exception outside the loop over the pairs: retried once.
Fail(w) ==
    /\ "error" \in Faults
    /\ job[w].stage \in {"fetch", "keys", "analyse", "strategies"}
    /\ IF job[w].retries > 0 /\ starts < MaxStarts
         THEN /\ job' = [job EXCEPT ![w] = [Requeued(job[w]) EXCEPT !.retries = @ - 1]]
              /\ Meet(w, job[w].on)
         ELSE job' = [job EXCEPT ![w] = Idle] /\ UNCHANGED <<starts, met>>
    /\ Interrupted(w)
    /\ UNCHANGED <<now, store, settings, tried, offered>>

\* acks_late, task_reject_on_worker_lost: the message is delivered again.
LoseWorker(w) ==
    /\ "lost" \in Faults
    /\ job[w].stage # "idle"
    /\ job' = [job EXCEPT ![w] = Requeued(job[w])]
    /\ Meet(w, job[w].on)
    /\ Interrupted(w)
    /\ UNCHANGED <<now, store, settings, tried, offered>>

\* The hard time limit; the soft one ends no attempt, whose exception is caught.
Kill(w) ==
    /\ "killed" \in Faults
    /\ job[w].stage # "idle"
    /\ job' = [job EXCEPT ![w] = Idle]
    /\ Interrupted(w)
    /\ UNCHANGED <<now, starts, store, settings, tried, offered, met>>

-----------------------------------------------------------------------------
(***************************************************************************)
(* Maintenance and admin.                                                  *)
(***************************************************************************)

\* Variant with a slip: the third table is not swept.
StaleOfTwoTables ==
    {i \in DOMAIN signal : i[2][2] \in Cancellable /\ signal[i].status = "NEW" /\ signal[i].expires < now}

Stale == {i \in DOMAIN signal : signal[i].status = "NEW" /\ signal[i].expires < now}

\* _expire_stale_signals_async: selected, then written back whatever became of them.
ExpireSelect ==
    /\ sweep = {}
    /\ sweep' = Stale
    /\ UNCHANGED <<now, signal, edit, starts, job, settings, history>>

Marked(S, status) ==
    [i \in DOMAIN signal |-> IF i \in S THEN [signal[i] EXCEPT !.status = status] ELSE signal[i]]

\* A row that is gone makes the transaction fail.
ExpireCommit ==
    /\ sweep # {}
    /\ signal' = IF sweep \subseteq DOMAIN signal THEN Marked(sweep, "EXPIRED") ELSE signal
    /\ sweep' = {}
    /\ UNCHANGED <<now, edit, starts, job, settings, history>>

Request == requests < MaxRequests /\ requests' = requests + 1

CancelRead(i) ==
    /\ Request /\ edit = {}
    /\ i[2][2] \in Cancellable /\ signal[i].status \notin Terminal
    /\ edit' = {i}
    /\ UNCHANGED <<now, signal, sweep, starts, job, disabled, active, history>>

CancelCommit ==
    /\ edit # {}
    /\ signal' = IF edit \subseteq DOMAIN signal THEN Marked(edit, "CANCELLED") ELSE signal
    /\ edit' = {}
    /\ UNCHANGED <<now, sweep, starts, job, settings, history>>

\* The executions of a purged signal go with it (TradeExecution, PurgeSignal).
CleanupOldData ==
    /\ LET kept == {i \in DOMAIN signal : ~(signal[i].status = "EXPIRED" /\ signal[i].created + Retention < now)}
       IN signal' = [i \in kept |-> signal[i]]
    /\ UNCHANGED <<now, sweep, edit, starts, job, settings, history>>

\* Variant with a slip: the older switch goes, and with it the others' state.
SwitchedOnAlone(e) == disabled \ {e, "analysis-pipeline"}

\* The older switch stands for all exchanges: it is spelled out when one goes on.
SwitchedOn(e) ==
    IF "analysis-pipeline" \in disabled
      THEN (disabled \union Exchanges) \ {e, "analysis-pipeline"}
      ELSE disabled \ {e}

ToggleTask(e, enabled) ==
    /\ Request
    /\ disabled' = IF enabled THEN SwitchedOn(e) ELSE disabled \union {e}
    /\ UNCHANGED <<now, store, active, job, starts, history>>

\* What list_tasks shows of an exchange's pipeline.
ShownEnabled(off, e) == e \notin off /\ "analysis-pipeline" \notin off

ToggleStrategy(s) ==
    /\ Request
    /\ active' = IF s \in active THEN active \ {s} ELSE active \union {s}
    /\ UNCHANGED <<now, store, disabled, job, starts, history>>

Tick ==
    /\ now < MaxNow
    /\ now' = now + 1
    /\ UNCHANGED <<store, settings, job, starts, history>>

-----------------------------------------------------------------------------

Pipeline(w) ==
    \/ Take(w) \/ FetchMarketData(w) \/ ReadActiveKeys(w)
    \/ \E k \in Keys : Analyse(w, k)
    \/ StoreSignals(w) \/ ListStrategies(w)
    \/ \E i \in Ids, s \in Strategies : Attempt(w, i, s)

Trouble(w) == Fail(w) \/ LoseWorker(w) \/ Kill(w)

Expiry == ExpireSelect \/ ExpireCommit

Admin ==
    \/ \E i \in DOMAIN signal : CancelRead(i)
    \/ CancelCommit
    \/ \E e \in Exchanges, enabled \in BOOLEAN : ToggleTask(e, enabled)

Next ==
    \/ \E w \in Workers : \/ \E E \in {{e} : e \in Exchanges} \union {Exchanges} : Start(w, E)
                          \/ Pipeline(w) \/ Trouble(w)
    \/ Expiry \/ Admin \/ CleanupOldData
    \/ \E s \in Strategies : ToggleStrategy(s)
    \/ Tick

\* Beat starts the expiry task every half hour, and a worker goes on with its task.
Fairness == WF_vars(Expiry) /\ \A w \in Workers : WF_vars(Pipeline(w))

Spec == Init /\ [][Next]_vars
FairSpec == Spec /\ Fairness

-----------------------------------------------------------------------------
(***************************************************************************)
(* Properties.                                                             *)
(***************************************************************************)

\* generate_signals reads the live signals first and inserts minutes later.  Two
\* live signals of a symbol on an exchange come from two pipelines that were at
\* work on it at a time, and from nothing else: not from one that failed, was
\* killed or delivered again and began anew, nor from what was cancelled, expired
\* or purged between the reading and the storing.
OneLivePerKey == \A k \in Keys : \A i, j \in LiveOn(k) : i = j \/ <<i[1], j[1]>> \in met

\* "Only skip symbols that still have an active (non-expired) signal": what the
\* skipping is for, which overlapping pipelines do not keep.
OneSignalAtATime == \A k \in Keys : Cardinality(LiveOn(k)) <= 1

\* "Low retry count to minimize double-execution risk": a pair that was handed to
\* the ATE once is never handed to it again by a pipeline that is retried or
\* delivered again.
NoneTriedTwice == \A w \in Workers : job[w].left \intersect tried = {}

\* "For each strategy x each signal: execute": when no worker has the pipeline any
\* more, and it was not interrupted, either every signal it stored was offered to
\* a strategy, and then all were offered to the same strategies, or there was no
\* active one.
NothingSkipped ==
    \A i, j \in DOMAIN signal :
       i[1] = j[1] /\ i[1] \notin broken /\ (\A w \in Workers : job[w].no # i[1]) =>
          \A s \in Strategies : <<i, s>> \in offered <=> <<j, s>> \in offered

\* An admin who switches one pipeline sees the state of no other one change, also
\* when the older switch for all of them is still stored.
TogglesOneTask ==
    [][\A e, f \in Exchanges :
          (\E enabled \in BOOLEAN : ToggleTask(e, enabled) /\ disabled' # disabled) /\
          ShownEnabled(disabled, f) # ShownEnabled(disabled', f)
             => \A g \in Exchanges \ {f} : ShownEnabled(disabled, g) = ShownEnabled(disabled', g)]_vars

\* A signal past its time does not stay NEW, cancelled or not meanwhile.
StaleIsExpired ==
    \A i \in Ids : (i \in DOMAIN signal /\ signal[i].status = "NEW" /\ signal[i].expires < now)
                      ~> (i \notin DOMAIN signal \/ signal[i].status # "NEW")
=============================================================================
