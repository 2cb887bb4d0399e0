------------------------ MODULE SignalPipeline_proofs ------------------------
(***************************************************************************)
(* What the pipelines guarantee for every number of exchanges, symbols,    *)
(* strategies, workers and starts, whatever fails, is lost or killed:      *)
(* nothing is tried twice, what is stored is offered evenly, a switch      *)
(* moves one task, and two live signals of a symbol on an exchange come    *)
(* from pipelines that were at work on it at a time.                       *)
(***************************************************************************)
EXTENDS SignalPipeline, TLAPS

Jobs == [stage : Stages, on : SUBSET Exchanges, no : 0..MaxStarts, retries : 0..1,
         data : SUBSET Keys, skip : SUBSET Keys,
         drafts : SUBSET (Keys \X (0..(MaxNow + Lifetime))),
         left : SUBSET (Ids \X Strategies)]

-----------------------------------------------------------------------------
(***************************************************************************)
(* Type correctness.                                                       *)
(***************************************************************************)

LEMMA IdleType == Idle \in Jobs
  BY PipelineConstants DEF Idle, Jobs, Stages

\* A task that is not idle has a number.
Numbered == \A w \in Workers : job[w].stage # "idle" => job[w].no # 0

LEMMA InsertedType ==
    ASSUME TypeOK, NEW w \in Workers
    PROVE  /\ Inserted(w) \subseteq {job[w].no} \X Keys
           /\ job[w].no # 0 => Inserted(w) \subseteq Ids
<1>1. \A d \in job[w].drafts : d[1] \in Keys
  BY DEF TypeOK
<1>2. job[w].no \in 0..MaxStarts
  BY DEF TypeOK
<1> QED
  BY <1>1, <1>2, PipelineConstants DEF Inserted, Ids

\* Marking rows keeps the table a table.
LEMMA MarkedType ==
    ASSUME TypeOK, NEW S, NEW st \in SignalStatuses
    PROVE  /\ DOMAIN Marked(S, st) = DOMAIN signal
           /\ \A i \in DOMAIN signal : Marked(S, st)[i] \in SignalRows
<1>1. \A i \in DOMAIN signal : [signal[i] EXCEPT !.status = st] \in SignalRows
  BY DEF TypeOK, SignalRows
<1> QED
  BY <1>1 DEF Marked, TypeOK

\* Worker w's task becomes j, the others' tasks stay.
Becomes(w, j) == j \in Jobs /\ job' = [job EXCEPT ![w] = j]

\* j is what w has in its hands, at another stage, but for the parts in S.
Keeps(j, w, S) ==
    /\ j.on = job[w].on /\ j.no = job[w].no /\ j.retries = job[w].retries
    /\ "data" \notin S => j.data = job[w].data
    /\ "skip" \notin S => j.skip = job[w].skip
    /\ "drafts" \notin S => j.drafts = job[w].drafts
    /\ "left" \notin S => j.left = job[w].left

\* j is a task that has yet to be taken, under the next number.
Waiting(j) == /\ starts < MaxStarts /\ starts' = starts + 1
              /\ j.stage = "queued" /\ j.no = starts + 1
              /\ j.data = {} /\ j.skip = {} /\ j.drafts = {} /\ j.left = {}

\* What each step makes of the task it is about.
LEMMA JobSteps ==
    ASSUME TypeOK, Numbered, NEW w \in Workers
    PROVE  /\ \A E \in {{e} : e \in Exchanges} \union {Exchanges} :
                 Start(w, E) => \E j : Becomes(w, j) /\ Waiting(j) /\ j.on = E
           /\ Take(w) => \/ Becomes(w, Idle)
                         \/ \E j : Becomes(w, j) /\ j.stage = "fetch" /\ Keeps(j, w, {})
           /\ FetchMarketData(w) =>
                 \/ Becomes(w, Idle)
                 \/ \E j : /\ Becomes(w, j) /\ j.stage = "keys" /\ Keeps(j, w, {"data"})
                           /\ j.data \subseteq Symbols \X job[w].on
           /\ ReadActiveKeys(w) =>
                 \E j : /\ Becomes(w, j) /\ j.stage = "analyse" /\ Keeps(j, w, {"skip"})
                        /\ j.skip = ActiveSignalKeys
           /\ \A k \in Keys : Analyse(w, k) =>
                 \E j : /\ Becomes(w, j) /\ j.stage = "analyse" /\ Keeps(j, w, {"data", "drafts"})
                        /\ j.data = job[w].data \ {k}
                        /\ \/ j.drafts = job[w].drafts
                           \/ k \notin job[w].skip /\ j.drafts = job[w].drafts \union {<<k, now + Lifetime>>}
           /\ StoreSignals(w) =>
                 \/ job[w].drafts = {} /\ Becomes(w, Idle)
                 \/ \E j : job[w].drafts # {} /\ Becomes(w, j) /\ j.stage = "strategies" /\ Keeps(j, w, {})
           /\ ListStrategies(w) =>
                 \/ Becomes(w, Idle)
                 \/ \E j : /\ Becomes(w, j) /\ j.stage = "execute" /\ Keeps(j, w, {"left"})
                           /\ j.left = Inserted(w) \X active
           /\ \A i \in Ids, s \in Strategies : Attempt(w, i, s) =>
                 \/ job[w].left \subseteq {<<i, s>>} /\ Becomes(w, Idle)
                 \/ \E j : /\ Becomes(w, j) /\ j.stage = "execute" /\ Keeps(j, w, {"left"})
                           /\ j.left = job[w].left \ {<<i, s>>}
           /\ Fail(w) \/ LoseWorker(w) =>
                 \/ Becomes(w, Idle) /\ UNCHANGED starts
                 \/ \E j : Becomes(w, j) /\ Waiting(j) /\ j.on = job[w].on
           /\ Kill(w) => Becomes(w, Idle)
<1> DEFINE old == job[w]
<1>0. old \in Jobs /\ Idle \in Jobs
  BY IdleType DEF TypeOK, Jobs
<1> HIDE DEF old
<1>1. ASSUME NEW E \in {{e} : e \in Exchanges} \union {Exchanges}, Start(w, E)
      PROVE  \E j : Becomes(w, j) /\ Waiting(j) /\ j.on = E
  <2> DEFINE j == [Idle EXCEPT !.stage = "queued", !.on = E, !.no = starts + 1, !.retries = 1]
  <2>1. /\ starts + 1 \in 0..MaxStarts /\ 1 \in 0..1 /\ E \in SUBSET Exchanges
        /\ starts < MaxStarts /\ starts' = starts + 1
    BY <1>1, PipelineConstants DEF Start, Meet, TypeOK
  <2>2. job' = [job EXCEPT ![w] = j]
    BY <1>1 DEF Start
  <2>3. j \in Jobs
    BY <2>1 DEF Idle, Jobs, Stages
  <2>4. j.stage = "queued" /\ j.on = E /\ j.no = starts + 1
        /\ j.data = {} /\ j.skip = {} /\ j.drafts = {} /\ j.left = {}
    BY DEF Idle
  <2> HIDE DEF j
  <2> QED
    BY <2>1, <2>2, <2>3, <2>4 DEF Becomes, Waiting
<1>2. ASSUME Take(w)
      PROVE  \/ Becomes(w, Idle)
             \/ \E j : Becomes(w, j) /\ j.stage = "fetch" /\ Keeps(j, w, {})
  <2> DEFINE j == [old EXCEPT !.stage = "fetch"]
  <2>1. j \in Jobs /\ j.stage = "fetch" /\ Keeps(j, w, {})
    BY <1>0 DEF Jobs, Stages, Keeps, old
  <2>2. job' = [job EXCEPT ![w] = j] \/ job' = [job EXCEPT ![w] = Idle]
    BY <1>2 DEF Take, old
  <2> HIDE DEF j
  <2> QED
    BY <1>0, <2>1, <2>2 DEF Becomes
<1>3. ASSUME FetchMarketData(w)
      PROVE  \/ Becomes(w, Idle)
             \/ \E j : /\ Becomes(w, j) /\ j.stage = "keys" /\ Keeps(j, w, {"data"})
                       /\ j.data \subseteq Symbols \X job[w].on
  <2>1. PICK D \in SUBSET (Symbols \X job[w].on) :
           job' = [job EXCEPT ![w] = IF D = {} THEN Idle ELSE [@ EXCEPT !.stage = "keys", !.data = D]]
    BY <1>3 DEF FetchMarketData
  <2> DEFINE j == [old EXCEPT !.stage = "keys", !.data = D]
  <2>2. D \subseteq Keys
    BY <1>0 DEF Keys, Jobs, old
  <2>3. j \in Jobs /\ j.stage = "keys" /\ j.data = D /\ Keeps(j, w, {"data"})
    BY <1>0, <2>2 DEF Jobs, Stages, Keeps, old
  <2>4. job' = [job EXCEPT ![w] = j] \/ job' = [job EXCEPT ![w] = Idle]
    BY <2>1 DEF old
  <2> HIDE DEF j
  <2> QED
    BY <1>0, <2>3, <2>4 DEF Becomes
<1>4. ASSUME ReadActiveKeys(w)
      PROVE  \E j : /\ Becomes(w, j) /\ j.stage = "analyse" /\ Keeps(j, w, {"skip"})
                    /\ j.skip = ActiveSignalKeys
  <2> DEFINE j == [old EXCEPT !.stage = "analyse", !.skip = ActiveSignalKeys]
  <2>1. ActiveSignalKeys \subseteq Keys
    BY DEF ActiveSignalKeys
  <2>2. j \in Jobs /\ j.stage = "analyse" /\ j.skip = ActiveSignalKeys /\ Keeps(j, w, {"skip"})
    BY <1>0, <2>1 DEF Jobs, Stages, Keeps, old
  <2>3. job' = [job EXCEPT ![w] = j]
    BY <1>4 DEF ReadActiveKeys, old
  <2> HIDE DEF j
  <2> QED
    BY <2>2, <2>3 DEF Becomes
<1>5. ASSUME NEW k \in Keys, Analyse(w, k)
      PROVE  \E j : /\ Becomes(w, j) /\ j.stage = "analyse" /\ Keeps(j, w, {"data", "drafts"})
                    /\ j.data = job[w].data \ {k}
                    /\ \/ j.drafts = job[w].drafts
                       \/ k \notin job[w].skip /\ j.drafts = job[w].drafts \union {<<k, now + Lifetime>>}
  <2>1. PICK new \in {{}, {<<k, now + Lifetime>>}} :
           /\ k \in job[w].skip => new = {}
           /\ job' = [job EXCEPT ![w].data = @ \ {k}, ![w].drafts = @ \union new]
    BY <1>5 DEF Analyse
  <2> DEFINE j == [old EXCEPT !.data = old.data \ {k}, !.drafts = old.drafts \union new]
  <2>2. new \subseteq Keys \X (0..(MaxNow + Lifetime)) /\ old.stage = "analyse"
    BY <1>5, PipelineConstants DEF TypeOK, Analyse, old
  <2>3. j \in Jobs /\ j.data = old.data \ {k} /\ j.drafts = old.drafts \union new /\ j.stage = "analyse"
        /\ Keeps(j, w, {"data", "drafts"})
    BY <1>0, <2>2 DEF Jobs, Keeps, old
  <2>4. job' = [job EXCEPT ![w] = j]
    BY <2>1 DEF old
  <2> HIDE DEF j
  <2> QED
    BY <2>1, <2>3, <2>4 DEF Becomes, old
<1>6. ASSUME StoreSignals(w)
      PROVE  \/ job[w].drafts = {} /\ Becomes(w, Idle)
             \/ \E j : job[w].drafts # {} /\ Becomes(w, j) /\ j.stage = "strategies" /\ Keeps(j, w, {})
  <2> DEFINE j == [old EXCEPT !.stage = "strategies"]
  <2>1. j \in Jobs /\ j.stage = "strategies" /\ Keeps(j, w, {})
    BY <1>0 DEF Jobs, Stages, Keeps, old
  <2>2. \/ job[w].drafts = {} /\ job' = [job EXCEPT ![w] = Idle]
        \/ job[w].drafts # {} /\ job' = [job EXCEPT ![w] = j]
    BY <1>6 DEF StoreSignals, old
  <2> HIDE DEF j
  <2> QED
    BY <1>0, <2>1, <2>2 DEF Becomes
<1>7. ASSUME ListStrategies(w)
      PROVE  \/ Becomes(w, Idle)
             \/ \E j : /\ Becomes(w, j) /\ j.stage = "execute" /\ Keeps(j, w, {"left"})
                       /\ j.left = Inserted(w) \X active
  <2> DEFINE j == [old EXCEPT !.stage = "execute", !.left = Inserted(w) \X active]
  <2>1. Inserted(w) \X active \subseteq Ids \X Strategies
    <3>1. job[w].no # 0
      BY <1>7 DEF ListStrategies, Numbered
    <3> QED
      BY <3>1, InsertedType DEF TypeOK
  <2>2. j \in Jobs /\ j.stage = "execute" /\ j.left = Inserted(w) \X active /\ Keeps(j, w, {"left"})
    BY <1>0, <2>1 DEF Jobs, Stages, Keeps, old
  <2>3. job' = [job EXCEPT ![w] = j] \/ job' = [job EXCEPT ![w] = Idle]
    BY <1>7 DEF ListStrategies, old
  <2> HIDE DEF j
  <2> QED
    BY <1>0, <2>2, <2>3 DEF Becomes
<1>8. ASSUME NEW i \in Ids, NEW s \in Strategies, Attempt(w, i, s)
      PROVE  \/ job[w].left \subseteq {<<i, s>>} /\ Becomes(w, Idle)
             \/ \E j : /\ Becomes(w, j) /\ j.stage = "execute" /\ Keeps(j, w, {"left"})
                       /\ j.left = job[w].left \ {<<i, s>>}
  <2> DEFINE rest == old.left \ {<<i, s>>}
             j == [old EXCEPT !.left = rest]
  <2>1. old.stage = "execute"
    BY <1>8 DEF Attempt, old
  <2>2. j \in Jobs /\ j.stage = "execute" /\ j.left = rest /\ Keeps(j, w, {"left"})
    BY <1>0, <2>1 DEF Jobs, Keeps, old
  <2>3. \/ rest = {} /\ job' = [job EXCEPT ![w] = Idle]
        \/ job' = [job EXCEPT ![w] = j]
    BY <1>8 DEF Attempt, Left, old
  <2> HIDE DEF j
  <2> QED
    BY <1>0, <2>2, <2>3 DEF Becomes, old
<1>9. ASSUME Fail(w) \/ LoseWorker(w)
      PROVE  \/ Becomes(w, Idle) /\ UNCHANGED starts
             \/ \E j : Becomes(w, j) /\ Waiting(j) /\ j.on = job[w].on
  <2>1. CASE job' = [job EXCEPT ![w] = Idle] /\ UNCHANGED starts
    BY <1>0, <2>1 DEF Becomes
  <2>2. ASSUME NEW t \in 0..1, starts < MaxStarts, starts' = starts + 1,
               job' = [job EXCEPT ![w] = [Idle EXCEPT !.stage = "queued", !.on = old.on,
                                                     !.no = starts + 1, !.retries = t]]
        PROVE  \E j : Becomes(w, j) /\ Waiting(j) /\ j.on = job[w].on
    <3> DEFINE j == [Idle EXCEPT !.stage = "queued", !.on = old.on, !.no = starts + 1, !.retries = t]
    <3>1. starts + 1 \in 0..MaxStarts /\ old.on \in SUBSET Exchanges
      BY <1>0, <2>2, PipelineConstants DEF TypeOK, Jobs
    <3>2. j \in Jobs
      BY <3>1 DEF Idle, Jobs, Stages
    <3>3. j.stage = "queued" /\ j.on = old.on /\ j.no = starts + 1
          /\ j.data = {} /\ j.skip = {} /\ j.drafts = {} /\ j.left = {}
      BY DEF Idle
    <3>4. job' = [job EXCEPT ![w] = j]
      BY <2>2 DEF j
    <3> HIDE DEF j
    <3> QED
      BY <2>2, <3>2, <3>3, <3>4 DEF Becomes, Waiting, old
  <2>3. CASE LoseWorker(w)
    <3>1. Requeued(job[w]) = [Idle EXCEPT !.stage = "queued", !.on = old.on,
                                         !.no = starts + 1, !.retries = old.retries]
      BY DEF Requeued, old
    <3>2. old.retries \in 0..1
      BY <1>0 DEF Jobs
    <3> QED
      BY <2>2, <2>3, <3>1, <3>2 DEF LoseWorker, Meet
  <2>4. CASE Fail(w)
    <3>1. CASE job[w].retries > 0 /\ starts < MaxStarts
      <4>1. old.retries - 1 \in 0..1
        BY <1>0, <3>1 DEF Jobs, old
      <4>2. [Requeued(job[w]) EXCEPT !.retries = @ - 1] =
               [Idle EXCEPT !.stage = "queued", !.on = old.on, !.no = starts + 1, !.retries = old.retries - 1]
        BY DEF Requeued, Idle, old
      <4> QED
        BY <2>2, <2>4, <3>1, <4>1, <4>2 DEF Fail, Meet
    <3>2. CASE ~(job[w].retries > 0 /\ starts < MaxStarts)
      BY <2>1, <2>4, <3>2 DEF Fail
    <3> QED
      BY <3>1, <3>2
  <2> QED
    BY <1>9, <2>3, <2>4
<1>10. ASSUME Kill(w) PROVE Becomes(w, Idle)
  BY <1>0, <1>10 DEF Kill, Becomes
<1> QED
  BY <1>1, <1>2, <1>3, <1>4, <1>5, <1>6, <1>7, <1>8, <1>9, <1>10

\* The tasks after a step of worker w.
LEMMA TaskOf ==
    ASSUME TypeOK, NEW w \in Workers, NEW j, Becomes(w, j)
    PROVE  /\ job' \in [Workers -> Jobs] /\ job'[w] = j
           /\ \A v \in Workers \ {w} : job'[v] = job[v]
<1>1. job \in [Workers -> Jobs]
  BY DEF TypeOK, Jobs
<1> QED
  BY <1>1 DEF Becomes

\* Of the steps of the pipelines only two touch the table.
LEMMA StoreType ==
    ASSUME TypeOK, Numbered, NEW w \in Workers, StoreSignals(w), job[w].drafts # {}
    PROVE  /\ DOMAIN signal' = DOMAIN signal \union Inserted(w) /\ Inserted(w) \subseteq Ids
           /\ \A i \in DOMAIN signal : signal'[i] = signal[i]
           /\ \A i \in DOMAIN signal' : signal'[i] \in SignalRows
           /\ DOMAIN signal' \subseteq Ids
<1> DEFINE row(i) == IF i \in DOMAIN signal THEN signal[i]
                     ELSE [status |-> "NEW", created |-> now,
                           expires |-> (CHOOSE d \in job[w].drafts : d[1] = i[2])[2]]
<1>1. signal' = [i \in DOMAIN signal \union Inserted(w) |-> row(i)]
  BY DEF StoreSignals
<1>2. Inserted(w) \subseteq Ids
  BY InsertedType DEF StoreSignals, Numbered
<1>3. ASSUME NEW i \in Inserted(w), i \notin DOMAIN signal PROVE row(i) \in SignalRows
  <2>1. PICK d \in job[w].drafts : i = <<job[w].no, d[1]>>
    BY DEF Inserted
  <2> DEFINE e == CHOOSE x \in job[w].drafts : x[1] = i[2]
  <2>2. e \in job[w].drafts
    BY <2>1
  <2>3. e[2] \in 0..(MaxNow + Lifetime)
    BY <2>2 DEF TypeOK
  <2>4. row(i) = [status |-> "NEW", created |-> now, expires |-> e[2]]
    BY <1>3
  <2> QED
    BY <2>3, <2>4 DEF SignalRows, SignalStatuses, TypeOK
<1>4. \A i \in DOMAIN signal : row(i) \in SignalRows /\ row(i) = signal[i]
  BY DEF TypeOK
<1>5. \A i \in DOMAIN signal' : signal'[i] = row(i)
  BY <1>1
<1>6. DOMAIN signal' = DOMAIN signal \union Inserted(w)
  BY <1>1
<1> HIDE DEF row
<1> QED
  BY <1>2, <1>3, <1>4, <1>5, <1>6 DEF TypeOK

LEMMA AttemptType ==
    ASSUME TypeOK, NEW w \in Workers, NEW i \in Ids, NEW s \in Strategies, Attempt(w, i, s)
    PROVE  /\ DOMAIN signal' = DOMAIN signal
           /\ \A k \in DOMAIN signal : \/ signal'[k] = signal[k]
                                       \/ signal'[k] = [signal[k] EXCEPT !.status = "EXPIRED"]
           /\ \A k \in DOMAIN signal : signal'[k] \in SignalRows
           /\ tried' \subseteq tried \union {<<i, s>>} /\ offered' = offered \union {<<i, s>>}
<1>1. signal' = signal \/ (i \in DOMAIN signal /\ signal' = [signal EXCEPT ![i].status = "EXPIRED"])
  BY DEF Attempt
<1>2. \A k \in DOMAIN signal : [signal[k] EXCEPT !.status = "EXPIRED"] \in SignalRows /\ signal[k] \in SignalRows
  BY DEF TypeOK, SignalRows, SignalStatuses
<1>3. DOMAIN signal' = DOMAIN signal
  BY <1>1
<1>4. \A k \in DOMAIN signal : \/ signal'[k] = signal[k]
                               \/ signal'[k] = [signal[k] EXCEPT !.status = "EXPIRED"]
  BY <1>1
<1> QED
  BY <1>2, <1>3, <1>4 DEF Attempt

\* A step that leaves the tasks alone, and rows of the table out or marks them.
Quiet ==
    /\ UNCHANGED <<job, starts, tried, offered, broken, met>>
    /\ DOMAIN signal' \subseteq DOMAIN signal
    /\ \A i \in DOMAIN signal' : /\ signal'[i] \in SignalRows
                                 /\ signal'[i].expires = signal[i].expires
                                 /\ signal'[i].status = "NEW" => signal[i].status = "NEW"
    /\ now' \in 0..MaxNow /\ now <= now'
    /\ disabled' \subseteq Tasks /\ active' \subseteq Strategies
    /\ sweep' \subseteq Ids /\ edit' \subseteq Ids /\ requests' \in 0..MaxRequests

\* Maintenance, the admin and the clock.
LEMMA QuietSteps ==
    ASSUME TypeOK, \/ Expiry \/ Admin \/ CleanupOldData
                   \/ \E s \in Strategies : ToggleStrategy(s)
                   \/ Tick \/ UNCHANGED vars
    PROVE  Quiet
<1> USE PipelineConstants DEF TypeOK
<1>0. ASSUME NEW S, NEW st \in {"EXPIRED", "CANCELLED"}
      PROVE  /\ DOMAIN Marked(S, st) = DOMAIN signal
             /\ \A i \in DOMAIN signal : /\ Marked(S, st)[i] \in SignalRows
                                         /\ Marked(S, st)[i].expires = signal[i].expires
                                         /\ Marked(S, st)[i].status = "NEW" => signal[i].status = "NEW"
  <2>1. st \in SignalStatuses /\ st # "NEW"
    BY DEF SignalStatuses
  <2> QED
    BY <2>1, MarkedType DEF Marked, SignalRows
<1>1. CASE ExpireSelect
  BY <1>1 DEF ExpireSelect, Stale, settings, history, Quiet
<1>2. CASE ExpireCommit
  BY <1>0, <1>2 DEF ExpireCommit, settings, history, Quiet
<1>3. ASSUME NEW i \in DOMAIN signal, CancelRead(i) PROVE Quiet
  BY <1>3 DEF CancelRead, Request, history, Quiet
<1>4. CASE CancelCommit
  BY <1>0, <1>4 DEF CancelCommit, settings, history, Quiet
<1>5. CASE CleanupOldData
  <2>1. PICK kept \in SUBSET (DOMAIN signal) : signal' = [i \in kept |-> signal[i]]
    BY <1>5 DEF CleanupOldData
  <2> QED
    BY <1>5, <2>1 DEF CleanupOldData, settings, history, Quiet
<1>6. ASSUME NEW e \in Exchanges, NEW b \in BOOLEAN, ToggleTask(e, b) PROVE Quiet
  <2>1. disabled' \subseteq Tasks
    BY <1>6 DEF ToggleTask, SwitchedOn, Tasks
  <2> QED
    BY <1>6, <2>1 DEF ToggleTask, Request, store, history, Quiet
<1>7. ASSUME NEW s \in Strategies, ToggleStrategy(s) PROVE Quiet
  BY <1>7 DEF ToggleStrategy, Request, store, history, Quiet
<1>8. CASE Tick
  BY <1>8 DEF Tick, store, settings, history, Quiet
<1>9. CASE UNCHANGED vars
  BY <1>9 DEF vars, Quiet
<1> QED
  BY <1>1, <1>2, <1>3, <1>4, <1>5, <1>6, <1>7, <1>8, <1>9 DEF Expiry, Admin

LEMMA TypeStep == TypeOK /\ Numbered /\ [Next]_vars => TypeOK' /\ Numbered'
<1> SUFFICES ASSUME TypeOK, Numbered, [Next]_vars PROVE TypeOK' /\ Numbered'
  OBVIOUS
<1> USE PipelineConstants
<1>T. ASSUME job' \in [Workers -> Jobs], Numbered',
             now' \in 0..MaxNow, starts' \in 0..MaxStarts,
             DOMAIN signal' \subseteq Ids, \A i \in DOMAIN signal' : signal'[i] \in SignalRows,
             disabled' \subseteq Tasks, active' \subseteq Strategies,
             sweep' \subseteq Ids, edit' \subseteq Ids, requests' \in 0..MaxRequests,
             tried' \subseteq Ids \X Strategies, tried' \subseteq offered',
             met' \subseteq (0..MaxStarts) \X (0..MaxStarts)
      PROVE  TypeOK' /\ Numbered'
  BY <1>T DEF TypeOK, Jobs
<1>M. ASSUME NEW w \in Workers, NEW E, Meet(w, E)
      PROVE  met' \subseteq (0..MaxStarts) \X (0..MaxStarts)
  <2>1. Beside(w, E) \subseteq 0..MaxStarts /\ {starts + 1} \subseteq 0..MaxStarts
    BY <1>M DEF Meet, Beside, TypeOK
  <2> QED
    BY <1>M, <2>1 DEF Meet, TypeOK
<1>J. ASSUME NEW w \in Workers, NEW j, Becomes(w, j), j.stage # "idle" => j.no # 0
      PROVE  job' \in [Workers -> Jobs] /\ Numbered'
  BY <1>J, TaskOf DEF Numbered
<1>I. Idle.stage = "idle"
  BY DEF Idle
<1>W. ASSUME NEW w \in Workers, NEW j, Becomes(w, j), Waiting(j)
      PROVE  job' \in [Workers -> Jobs] /\ Numbered' /\ starts' \in 0..MaxStarts
  <2>1. j.no # 0 /\ starts' \in 0..MaxStarts
    BY <1>W DEF Waiting, TypeOK
  <2> QED
    BY <1>J, <1>W, <2>1
<1>K. ASSUME NEW w \in Workers, NEW j, Becomes(w, j), NEW S, Keeps(j, w, S), job[w].stage # "idle"
      PROVE  job' \in [Workers -> Jobs] /\ Numbered'
  <2>1. j.no # 0
    BY <1>K DEF Keeps, Numbered
  <2> QED
    BY <1>J, <1>K, <2>1
<1>0. UNCHANGED <<now, sweep, edit, disabled, active, requests, tried, offered, signal>> =>
         /\ now' \in 0..MaxNow /\ DOMAIN signal' \subseteq Ids
         /\ \A i \in DOMAIN signal' : signal'[i] \in SignalRows
         /\ disabled' \subseteq Tasks /\ active' \subseteq Strategies
         /\ sweep' \subseteq Ids /\ edit' \subseteq Ids /\ requests' \in 0..MaxRequests
         /\ tried' \subseteq Ids \X Strategies /\ tried' \subseteq offered'
  BY DEF TypeOK
<1>1. ASSUME NEW w \in Workers, NEW E \in {{e} : e \in Exchanges} \union {Exchanges}, Start(w, E)
      PROVE  TypeOK' /\ Numbered'
  <2>1. PICK j : Becomes(w, j) /\ Waiting(j)
    BY <1>1, JobSteps
  <2> QED
    BY <1>0, <1>1, <1>M, <1>T, <1>W, <2>1 DEF Start, store, settings
<1>2. ASSUME NEW w \in Workers, Take(w) PROVE TypeOK' /\ Numbered'
  <2>1. \/ Becomes(w, Idle)
        \/ \E j : Becomes(w, j) /\ Keeps(j, w, {})
    BY <1>2, JobSteps
  <2>2. job' \in [Workers -> Jobs] /\ Numbered'
    BY <1>2, <1>I, <1>J, <1>K, <2>1 DEF Take
  <2> QED
    BY <1>0, <1>2, <1>T, <2>2 DEF Take, store, settings, history, TypeOK
<1>3. ASSUME NEW w \in Workers, FetchMarketData(w) PROVE TypeOK' /\ Numbered'
  <2>1. \/ Becomes(w, Idle)
        \/ \E j : Becomes(w, j) /\ Keeps(j, w, {"data"})
    BY <1>3, JobSteps
  <2>2. job' \in [Workers -> Jobs] /\ Numbered'
    BY <1>3, <1>I, <1>J, <1>K, <2>1 DEF FetchMarketData
  <2> QED
    BY <1>0, <1>3, <1>T, <2>2 DEF FetchMarketData, store, settings, history, TypeOK
<1>4. ASSUME NEW w \in Workers, ReadActiveKeys(w) PROVE TypeOK' /\ Numbered'
  <2>1. \E j : Becomes(w, j) /\ Keeps(j, w, {"skip"})
    BY <1>4, JobSteps
  <2>2. job' \in [Workers -> Jobs] /\ Numbered'
    BY <1>4, <1>K, <2>1 DEF ReadActiveKeys
  <2> QED
    BY <1>0, <1>4, <1>T, <2>2 DEF ReadActiveKeys, store, settings, history, TypeOK
<1>5. ASSUME NEW w \in Workers, NEW k \in Keys, Analyse(w, k) PROVE TypeOK' /\ Numbered'
  <2>1. \E j : Becomes(w, j) /\ Keeps(j, w, {"data", "drafts"})
    BY <1>5, JobSteps
  <2>2. job' \in [Workers -> Jobs] /\ Numbered'
    BY <1>5, <1>K, <2>1 DEF Analyse
  <2> QED
    BY <1>0, <1>5, <1>T, <2>2 DEF Analyse, store, settings, history, TypeOK
<1>6. ASSUME NEW w \in Workers, StoreSignals(w) PROVE TypeOK' /\ Numbered'
  <2>1. \/ job[w].drafts = {} /\ Becomes(w, Idle)
        \/ \E j : job[w].drafts # {} /\ Becomes(w, j) /\ Keeps(j, w, {})
    BY <1>6, JobSteps
  <2>2. job' \in [Workers -> Jobs] /\ Numbered'
    BY <1>6, <1>I, <1>J, <1>K, <2>1 DEF StoreSignals
  <2>3. DOMAIN signal' \subseteq Ids /\ \A i \in DOMAIN signal' : signal'[i] \in SignalRows
    <3>1. CASE job[w].drafts # {}
      BY <1>6, <3>1, StoreType
    <3>2. CASE job[w].drafts = {}
      BY <1>6, <3>2 DEF StoreSignals, TypeOK
    <3> QED
      BY <3>1, <3>2
  <2> QED
    BY <1>6, <1>T, <2>2, <2>3 DEF StoreSignals, settings, history, TypeOK
<1>7. ASSUME NEW w \in Workers, ListStrategies(w) PROVE TypeOK' /\ Numbered'
  <2>1. \/ Becomes(w, Idle)
        \/ \E j : Becomes(w, j) /\ Keeps(j, w, {"left"})
    BY <1>7, JobSteps
  <2>2. job' \in [Workers -> Jobs] /\ Numbered'
    BY <1>7, <1>I, <1>J, <1>K, <2>1 DEF ListStrategies
  <2> QED
    BY <1>0, <1>7, <1>T, <2>2 DEF ListStrategies, store, settings, history, TypeOK
<1>8. ASSUME NEW w \in Workers, NEW i \in Ids, NEW s \in Strategies, Attempt(w, i, s)
      PROVE  TypeOK' /\ Numbered'
  <2>1. \/ Becomes(w, Idle)
        \/ \E j : Becomes(w, j) /\ Keeps(j, w, {"left"})
    BY <1>8, JobSteps
  <2>2. job' \in [Workers -> Jobs] /\ Numbered'
    BY <1>8, <1>I, <1>J, <1>K, <2>1 DEF Attempt
  <2>3. DOMAIN signal' \subseteq Ids /\ \A k \in DOMAIN signal' : signal'[k] \in SignalRows
    BY <1>8, AttemptType DEF TypeOK
  <2>4. tried' \subseteq Ids \X Strategies /\ tried' \subseteq offered'
    BY <1>8, AttemptType DEF TypeOK
  <2> QED
    BY <1>8, <1>T, <2>2, <2>3, <2>4 DEF Attempt, settings, TypeOK
<1>9. ASSUME NEW w \in Workers, Trouble(w) PROVE TypeOK' /\ Numbered'
  <2>1. /\ UNCHANGED <<now, sweep, edit, disabled, active, requests, tried, offered, signal>>
        /\ Kill(w) => UNCHANGED starts
        /\ UNCHANGED met \/ Meet(w, job[w].on)
    BY <1>9 DEF Trouble, Fail, LoseWorker, Kill, store, settings
  <2>2. \/ Becomes(w, Idle) /\ UNCHANGED starts
        \/ \E j : Becomes(w, j) /\ Waiting(j)
    BY <1>9, <2>1, JobSteps DEF Trouble
  <2>3. job' \in [Workers -> Jobs] /\ Numbered' /\ starts' \in 0..MaxStarts
    BY <1>I, <1>J, <1>W, <2>2 DEF TypeOK
  <2>4. met' \subseteq (0..MaxStarts) \X (0..MaxStarts)
    BY <1>M, <2>1 DEF TypeOK
  <2> QED
    BY <1>0, <1>T, <2>1, <2>3, <2>4
<1>10. CASE \/ Expiry \/ Admin \/ CleanupOldData
            \/ \E s \in Strategies : ToggleStrategy(s)
            \/ Tick \/ UNCHANGED vars
  <2>1. Quiet
    BY <1>10, QuietSteps
  <2> QED
    BY <2>1, <1>T DEF Quiet, TypeOK, Jobs, Numbered
<1> QED
  BY <1>1, <1>2, <1>3, <1>4, <1>5, <1>6, <1>7, <1>8, <1>9, <1>10 DEF Next, Pipeline

LEMMA InitType == Init => TypeOK /\ Numbered
<1> SUFFICES ASSUME Init PROVE TypeOK /\ Numbered
  OBVIOUS
<1>1. job \in [Workers -> Jobs] /\ Numbered
  <2>1. Idle.stage = "idle"
    BY DEF Idle
  <2> QED
    BY <2>1, IdleType DEF Init, Numbered
<1>2. DOMAIN signal \subseteq Ids /\ \A i \in DOMAIN signal : signal[i] \in SignalRows
  BY DEF Init
<1>3. disabled \subseteq Tasks
  BY DEF Init, Tasks
<1> QED
  BY <1>1, <1>2, <1>3, PipelineConstants DEF Init, TypeOK, Jobs

\* Clock, tables, switches, tasks and history keep their types; a task that
\* is at work has a number, without which its signals would have no names.
THEOREM TypeCorrect == Spec => []TypeOK
<1>1. Spec => [](TypeOK /\ Numbered)
  BY InitType, TypeStep, PTL DEF Spec
<1> QED
  BY <1>1, PTL

-----------------------------------------------------------------------------
(***************************************************************************)
(* The kinds of steps, as far as signals and attempts are concerned.       *)
(***************************************************************************)

Early == {"queued", "fetch", "keys", "analyse"}

\* Only the task of w changes, or what was interrupted is noted.
Inside(w) == UNCHANGED <<now, signal, tried, offered>> /\ broken \subseteq broken' /\ met \subseteq met'

\* A new task, or one that is delivered again, under a new number.
Restarted(w) ==
    /\ Inside(w)
    /\ \E j : /\ Becomes(w, j) /\ Waiting(j)
              /\ \A v \in Workers \ {w} : job[v].on \intersect j.on # {} =>
                    <<j.no, job[v].no>> \in met' /\ <<job[v].no, j.no>> \in met'
    /\ job[w].stage = "execute" => job[w].no \in broken'

\* The task ends before it has offered anything, or is noted as interrupted.
Dropped(w) ==
    /\ Inside(w) /\ UNCHANGED starts /\ Becomes(w, Idle)
    /\ job[w].stage = "execute" => job[w].no \in broken'

\* One step on the way from the market data to the signals.
Onward(j, w) ==
    \/ job[w].stage = "queued" /\ j.stage = "fetch" /\ Keeps(j, w, {})
    \/ /\ job[w].stage = "fetch" /\ j.stage = "keys" /\ Keeps(j, w, {"data"})
       /\ j.data \subseteq Symbols \X job[w].on
    \/ /\ job[w].stage = "keys" /\ j.stage = "analyse" /\ Keeps(j, w, {"skip"})
       /\ j.skip = ActiveSignalKeys
    \/ /\ job[w].stage = "analyse" /\ j.stage = "analyse" /\ Keeps(j, w, {"data", "drafts"})
       /\ \E k \in job[w].data :
             /\ j.data = job[w].data \ {k}
             /\ \/ j.drafts = job[w].drafts
                \/ k \notin job[w].skip /\ j.drafts = job[w].drafts \union {<<k, now + Lifetime>>}

Advanced(w) ==
    /\ Inside(w) /\ UNCHANGED starts /\ job[w].stage \in Early
    /\ \E j : /\ Becomes(w, j) /\ j.stage \in Early /\ Keeps(j, w, {"data", "skip", "drafts"})
              /\ Onward(j, w)

Stored(w) ==
    /\ UNCHANGED <<now, tried, offered, broken, starts, met>> /\ job[w].stage = "analyse"
    /\ DOMAIN signal' = DOMAIN signal \union Inserted(w)
    /\ \A i \in DOMAIN signal : signal'[i] = signal[i]
    /\ \E j : Becomes(w, j) /\ j.stage = "strategies" /\ Keeps(j, w, {})

Listed(w) ==
    /\ Inside(w) /\ UNCHANGED starts /\ job[w].stage = "strategies"
    /\ \E j : /\ Becomes(w, j) /\ j.stage = "execute" /\ Keeps(j, w, {"left"})
              /\ j.left = Inserted(w) \X active

Offered(w) ==
    \E x \in job[w].left :
        /\ UNCHANGED <<now, broken, starts, met>> /\ DOMAIN signal' = DOMAIN signal
        /\ \A i \in DOMAIN signal : /\ signal'[i].expires = signal[i].expires
                                    /\ signal'[i].status = "NEW" => signal[i].status = "NEW"
        /\ offered' = offered \union {x} /\ tried' \subseteq tried \union {x}
        /\ job[w].stage = "execute"
        /\ \/ job[w].left = {x} /\ Becomes(w, Idle)
           \/ \E j : /\ Becomes(w, j) /\ j.stage = "execute" /\ Keeps(j, w, {"left"})
                     /\ j.left = job[w].left \ {x}

Moves(w) == Restarted(w) \/ Dropped(w) \/ Advanced(w) \/ Stored(w) \/ Listed(w) \/ Offered(w)

\* A task that begins is noted with every other that is at work on an exchange of its own.
LEMMA MeetNotes ==
    ASSUME NEW w \in Workers, NEW j, Waiting(j), Meet(w, j.on)
    PROVE  /\ met \subseteq met'
           /\ \A v \in Workers \ {w} : job[v].on \intersect j.on # {} =>
                 <<j.no, job[v].no>> \in met' /\ <<job[v].no, j.no>> \in met'
  BY DEF Waiting, Meet, Beside

LEMMA Kinds == ASSUME TypeOK, Numbered, [Next]_vars PROVE Quiet \/ \E w \in Workers : Moves(w)
<1>1. ASSUME NEW w \in Workers, NEW E \in {{e} : e \in Exchanges} \union {Exchanges}, Start(w, E)
      PROVE  Restarted(w)
  <2>1. PICK j : Becomes(w, j) /\ Waiting(j) /\ j.on = E
    BY <1>1, JobSteps
  <2>2. Meet(w, j.on)
    BY <1>1, <2>1 DEF Start
  <2>3. Inside(w) /\ job[w].stage # "execute"
    BY <1>1, <2>1, <2>2, MeetNotes DEF Start, Inside, store
  <2> QED
    BY <2>1, <2>2, <2>3, MeetNotes DEF Restarted
<1>2. ASSUME NEW w \in Workers, Take(w) \/ FetchMarketData(w) \/ ReadActiveKeys(w)
      PROVE  Dropped(w) \/ Advanced(w)
  <2>1. /\ Inside(w) /\ UNCHANGED starts /\ job[w].stage \in Early \ {"analyse"}
    BY <1>2 DEF Take, FetchMarketData, ReadActiveKeys, Inside, store, history, Early
  <2>2. \/ Becomes(w, Idle)
        \/ \E j, S : /\ Becomes(w, j) /\ j.stage \in Early /\ Onward(j, w)
                     /\ Keeps(j, w, S) /\ S \in {{}, {"data"}, {"skip"}}
    <3>1. CASE Take(w)
      BY <3>1, JobSteps DEF Take, Onward, Early
    <3>2. CASE FetchMarketData(w)
      BY <3>2, JobSteps DEF FetchMarketData, Onward, Early
    <3>3. CASE ReadActiveKeys(w)
      BY <3>3, JobSteps DEF ReadActiveKeys, Onward, Early
    <3> QED
      BY <1>2, <3>1, <3>2, <3>3
  <2>3. \A j, S : S \in {{}, {"data"}, {"skip"}} /\ Keeps(j, w, S) => Keeps(j, w, {"data", "skip", "drafts"})
    BY DEF Keeps
  <2> QED
    BY <2>1, <2>2, <2>3 DEF Dropped, Advanced, Early
<1>3. ASSUME NEW w \in Workers, NEW k \in Keys, Analyse(w, k) PROVE Advanced(w)
  <2>1. PICK j : /\ Becomes(w, j) /\ j.stage = "analyse" /\ Keeps(j, w, {"data", "drafts"})
                 /\ j.data = job[w].data \ {k}
                 /\ \/ j.drafts = job[w].drafts
                    \/ k \notin job[w].skip /\ j.drafts = job[w].drafts \union {<<k, now + Lifetime>>}
    BY <1>3, JobSteps
  <2>2. Keeps(j, w, {"data", "skip", "drafts"})
    BY <2>1 DEF Keeps
  <2>3. k \in job[w].data /\ job[w].stage = "analyse"
    BY <1>3 DEF Analyse
  <2>4. Onward(j, w)
    BY <2>1, <2>3 DEF Onward
  <2> QED
    BY <1>3, <2>1, <2>2, <2>3, <2>4 DEF Analyse, Advanced, Inside, store, history, Early
<1>4. ASSUME NEW w \in Workers, StoreSignals(w) PROVE Dropped(w) \/ Stored(w)
  <2>1. CASE job[w].drafts = {}
    BY <1>4, <2>1, JobSteps DEF StoreSignals, Dropped, Inside, history
  <2>2. CASE job[w].drafts # {}
    BY <1>4, <2>2, JobSteps, StoreType DEF StoreSignals, Stored, history
  <2> QED
    BY <2>1, <2>2
<1>5. ASSUME NEW w \in Workers, ListStrategies(w) PROVE Dropped(w) \/ Listed(w)
  BY <1>5, JobSteps DEF ListStrategies, Dropped, Listed, Inside, store, history
<1>6. ASSUME NEW w \in Workers, NEW i \in Ids, NEW s \in Strategies, Attempt(w, i, s) PROVE Offered(w)
  <2>1. <<i, s>> \in job[w].left /\ job[w].stage = "execute" /\ UNCHANGED <<now, broken, starts, met>>
    BY <1>6 DEF Attempt
  <2>2. \/ job[w].left \subseteq {<<i, s>>} /\ Becomes(w, Idle)
        \/ \E j : /\ Becomes(w, j) /\ j.stage = "execute" /\ Keeps(j, w, {"left"})
                  /\ j.left = job[w].left \ {<<i, s>>}
    BY <1>6, JobSteps
  <2>3. DOMAIN signal' = DOMAIN signal /\ offered' = offered \union {<<i, s>>}
        /\ tried' \subseteq tried \union {<<i, s>>}
    BY <1>6, AttemptType
  <2>4. \A k \in DOMAIN signal : /\ signal'[k].expires = signal[k].expires
                                 /\ signal'[k].status = "NEW" => signal[k].status = "NEW"
    BY <1>6, AttemptType DEF TypeOK, SignalRows
  <2> QED
    BY <2>1, <2>2, <2>3, <2>4 DEF Offered
<1>7. ASSUME NEW w \in Workers, Trouble(w) PROVE Restarted(w) \/ Dropped(w)
  <2>1. /\ UNCHANGED <<now, signal, tried, offered>> /\ broken \subseteq broken'
        /\ job[w].stage = "execute" => job[w].no \in broken'
        /\ Kill(w) => UNCHANGED starts
        /\ UNCHANGED <<starts, met>> \/ Meet(w, job[w].on)
    BY <1>7 DEF Trouble, Fail, LoseWorker, Kill, Interrupted, store
  <2>2. \/ Becomes(w, Idle) /\ UNCHANGED starts
        \/ \E j : Becomes(w, j) /\ Waiting(j) /\ j.on = job[w].on
    BY <1>7, <2>1, JobSteps DEF Trouble
  <2>3. starts \in Nat
    BY PipelineConstants DEF TypeOK
  <2>4. CASE Becomes(w, Idle) /\ UNCHANGED starts
    <3>1. UNCHANGED met
      BY <2>1, <2>3, <2>4 DEF Meet
    <3> QED
      BY <2>1, <2>4, <3>1 DEF Dropped, Inside
  <2>5. ASSUME NEW j, Becomes(w, j), Waiting(j), j.on = job[w].on PROVE Restarted(w)
    <3>1. Meet(w, j.on)
      BY <2>1, <2>3, <2>5 DEF Waiting
    <3> QED
      BY <2>1, <2>5, <3>1, MeetNotes DEF Restarted, Inside
  <2> QED
    BY <2>2, <2>4, <2>5
<1>8. CASE \/ Expiry \/ Admin \/ CleanupOldData
           \/ \E s \in Strategies : ToggleStrategy(s)
           \/ Tick \/ UNCHANGED vars
  BY <1>8, QuietSteps
<1> QED
  BY <1>1, <1>2, <1>3, <1>4, <1>5, <1>6, <1>7, <1>8 DEF Next, Pipeline, Moves

-----------------------------------------------------------------------------
(***************************************************************************)
(* Nothing is tried twice, and what was stored is offered evenly.          *)
(***************************************************************************)

\* Tasks at work have different numbers, none above the last one given.
NumbersOK ==
    /\ \A w \in Workers : job[w].no \in 0..starts
    /\ \A w \in Workers : job[w].stage = "idle" => job[w].no = 0
    /\ \A v, w \in Workers : v # w /\ job[v].no = job[w].no => job[v].no = 0

\* What was offered bears a number that was given; the task of that number is
\* at its attempts, and has left only what it has not offered.
OfferedOK ==
    /\ \A x \in offered : x[1][1] \in 1..starts
    /\ \A w \in Workers : \A x \in offered : x[1][1] = job[w].no => job[w].stage = "execute"
    /\ \A w \in Workers : job[w].left # {} => job[w].stage = "execute"
    /\ \A w \in Workers : \A x \in job[w].left : x[1][1] = job[w].no /\ x \notin offered

WorkOK == TypeOK /\ Numbered /\ NumbersOK /\ OfferedOK

LEMMA NumbersStep == ASSUME WorkOK, Quiet \/ \E w \in Workers : Moves(w) PROVE NumbersOK'
<1> USE PipelineConstants DEF WorkOK, NumbersOK
<1>1. starts \in Nat
  BY DEF TypeOK
<1>2. CASE Quiet
  BY <1>2 DEF Quiet
<1>3. ASSUME NEW w \in Workers, Moves(w) PROVE NumbersOK'
  <2>1. \/ \E j : Becomes(w, j) /\ Waiting(j)
        \/ Becomes(w, Idle) /\ UNCHANGED starts
        \/ \E j, S : Becomes(w, j) /\ Keeps(j, w, S) /\ j.stage # "idle" /\ UNCHANGED starts
    BY <1>3 DEF Moves, Restarted, Dropped, Advanced, Stored, Listed, Offered, Early
  <2>2. CASE \E j : Becomes(w, j) /\ Waiting(j)
    BY <1>1, <2>2, TaskOf DEF Waiting
  <2>3. CASE Becomes(w, Idle) /\ UNCHANGED starts
    <3>1. Idle.no = 0 /\ Idle.stage = "idle"
      BY DEF Idle
    <3> QED
      BY <1>1, <2>3, <3>1, TaskOf
  <2>4. CASE \E j, S : Becomes(w, j) /\ Keeps(j, w, S) /\ j.stage # "idle" /\ UNCHANGED starts
    BY <1>1, <2>4, TaskOf DEF Keeps
  <2> QED
    BY <2>1, <2>2, <2>3, <2>4
<1> QED
  BY <1>2, <1>3

LEMMA OfferedStep == ASSUME WorkOK, Quiet \/ \E w \in Workers : Moves(w) PROVE OfferedOK'
<1> USE PipelineConstants DEF OfferedOK
<1>0. OfferedOK /\ NumbersOK /\ TypeOK /\ Numbered /\ starts \in Nat
  BY DEF WorkOK, TypeOK
<1>2. CASE Quiet
  BY <1>0, <1>2 DEF Quiet
<1>3. ASSUME NEW w \in Workers, Moves(w) PROVE OfferedOK'
  <2>1. CASE Restarted(w)
    <3>1. PICK j : Becomes(w, j) /\ Waiting(j)
      BY <2>1 DEF Restarted
    <3>2. /\ offered' = offered /\ starts' = starts + 1
          /\ job'[w] = j /\ \A v \in Workers \ {w} : job'[v] = job[v]
          /\ j.no = starts + 1 /\ j.left = {}
      BY <1>0, <2>1, <3>1, TaskOf DEF Restarted, Inside, Waiting
    <3> QED
      BY <1>0, <3>2
  <2>2. CASE Dropped(w)
    <3>1. /\ offered' = offered /\ starts' = starts
          /\ job'[w] = Idle /\ \A v \in Workers \ {w} : job'[v] = job[v]
          /\ Idle.no = 0 /\ Idle.left = {}
      BY <1>0, <2>2, TaskOf DEF Dropped, Inside, Idle
    <3> QED
      BY <1>0, <3>1
  <2>3. CASE Advanced(w) \/ Stored(w)
    <3>1. PICK j : Becomes(w, j) /\ Keeps(j, w, {"data", "skip", "drafts"}) /\ j.stage # "idle"
      BY <2>3 DEF Advanced, Stored, Keeps, Early
    <3>2. /\ offered' = offered /\ starts' = starts /\ job[w].stage # "execute"
          /\ job'[w] = j /\ \A v \in Workers \ {w} : job'[v] = job[v]
          /\ j.no = job[w].no /\ j.left = job[w].left
      BY <1>0, <2>3, <3>1, TaskOf DEF Advanced, Stored, Inside, Keeps, Early
    <3> QED
      BY <1>0, <3>2
  <2>4. CASE Listed(w)
    <3>1. PICK j : /\ Becomes(w, j) /\ j.stage = "execute" /\ Keeps(j, w, {"left"})
                   /\ j.left = Inserted(w) \X active
      BY <2>4 DEF Listed
    <3>2. /\ offered' = offered /\ starts' = starts /\ job[w].stage = "strategies"
          /\ job'[w] = j /\ \A v \in Workers \ {w} : job'[v] = job[v]
          /\ j.no = job[w].no
      BY <1>0, <2>4, <3>1, TaskOf DEF Listed, Inside, Keeps
    <3>3. \A x \in j.left : x[1][1] = job[w].no
      BY <1>0, <3>1, InsertedType
    <3> QED
      BY <1>0, <3>1, <3>2, <3>3
  <2>5. CASE Offered(w)
    <3>1. PICK x \in job[w].left :
             /\ UNCHANGED <<broken, starts>> /\ offered' = offered \union {x}
             /\ job[w].stage = "execute"
             /\ \/ job[w].left = {x} /\ Becomes(w, Idle)
                \/ \E j : /\ Becomes(w, j) /\ j.stage = "execute" /\ Keeps(j, w, {"left"})
                          /\ j.left = job[w].left \ {x}
      BY <2>5 DEF Offered
    <3>2. x[1][1] = job[w].no /\ job[w].no # 0
      BY <1>0, <3>1 DEF Numbered
    <3>3. x[1][1] \in 1..starts /\ \A v \in Workers \ {w} : job[v].no # x[1][1]
      BY <1>0, <3>2 DEF NumbersOK
    <3>4. CASE job[w].left = {x} /\ Becomes(w, Idle)
      <4>1. /\ job'[w] = Idle /\ \A v \in Workers \ {w} : job'[v] = job[v]
            /\ Idle.no = 0 /\ Idle.left = {}
        BY <1>0, <3>4, TaskOf DEF Idle
      <4> QED
        BY <1>0, <3>1, <3>2, <3>3, <4>1
    <3>5. ASSUME NEW j, Becomes(w, j), j.stage = "execute", Keeps(j, w, {"left"}),
                 j.left = job[w].left \ {x}
          PROVE  OfferedOK'
      <4>1. job'[w] = j /\ (\A v \in Workers \ {w} : job'[v] = job[v]) /\ j.no = job[w].no
        BY <1>0, <3>5, TaskOf DEF Keeps
      <4> QED
        BY <1>0, <3>1, <3>2, <3>3, <3>5, <4>1
    <3> QED
      BY <3>1, <3>4, <3>5
  <2> QED
    BY <1>3, <2>1, <2>2, <2>3, <2>4, <2>5 DEF Moves
<1> QED
  BY <1>2, <1>3

LEMMA WorkInvariant == Spec => []WorkOK
<1>1. Init => WorkOK
  <2> SUFFICES ASSUME Init PROVE WorkOK
    OBVIOUS
  <2>1. Idle.no = 0 /\ Idle.left = {} /\ Idle.stage = "idle"
    BY DEF Idle
  <2>2. NumbersOK /\ OfferedOK
    BY <2>1 DEF Init, NumbersOK, OfferedOK
  <2> QED
    BY <2>2, InitType DEF WorkOK
<1>2. WorkOK /\ [Next]_vars => WorkOK'
  <2> SUFFICES ASSUME WorkOK, [Next]_vars PROVE WorkOK'
    OBVIOUS
  <2>1. Quiet \/ \E w \in Workers : Moves(w)
    BY Kinds DEF WorkOK
  <2> QED
    BY <2>1, NumbersStep, OfferedStep, TypeStep DEF WorkOK
<1> QED
  BY <1>1, <1>2, PTL DEF Spec

\* However a pipeline fails, is retried, delivered again or killed, and however
\* many overlap, a pair of a signal and a strategy is handed to the ATE once:
\* a task that comes back has a new number and generates anew.
THEOREM TriedOnce == Spec => []NoneTriedTwice
<1>1. WorkOK => NoneTriedTwice
  BY DEF WorkOK, OfferedOK, TypeOK, NoneTriedTwice
<1> QED
  BY <1>1, WorkInvariant, PTL

\* The signals of a number were stored by the task of that number, which has
\* not offered any of them yet or is at its attempts.
StoredOK ==
    \A i \in DOMAIN signal :
       /\ i[1] \in 1..starts
       /\ \A w \in Workers : job[w].no = i[1] => \/ job[w].stage = "execute"
                                                 \/ job[w].stage = "strategies" /\ i \in Inserted(w)

\* Of the signals of one number all are offered to the same strategies, or
\* will have been once the task is through with what it has left.
EvenOK ==
    \A i, j \in DOMAIN signal : i[1] = j[1] /\ i[1] \notin broken =>
       /\ (\A w \in Workers : job[w].no # i[1]) =>
             \A s \in Strategies : <<i, s>> \in offered <=> <<j, s>> \in offered
       /\ \A w \in Workers : job[w].no = i[1] /\ job[w].stage = "execute" =>
             \A s \in Strategies : <<i, s>> \in offered \union job[w].left
                                     <=> <<j, s>> \in offered \union job[w].left

LEMMA StoredStep == ASSUME WorkOK, StoredOK, Quiet \/ \E w \in Workers : Moves(w) PROVE StoredOK'
<1> USE PipelineConstants DEF StoredOK
<1>0. NumbersOK /\ TypeOK /\ Numbered /\ starts \in Nat /\ \A w \in Workers : job[w].no \in 0..starts
  BY DEF WorkOK, TypeOK, NumbersOK
<1>1. \A v \in Workers : job'[v] = job[v] => Inserted(v)' = Inserted(v)
  BY DEF Inserted
<1>2. CASE Quiet
  BY <1>0, <1>1, <1>2 DEF Quiet
<1>3. ASSUME NEW w \in Workers, Moves(w) PROVE StoredOK'
  <2>1. CASE Restarted(w)
    <3>1. PICK j : Becomes(w, j) /\ Waiting(j)
      BY <2>1 DEF Restarted
    <3>2. /\ signal' = signal /\ starts' = starts + 1
          /\ job'[w] = j /\ \A v \in Workers \ {w} : job'[v] = job[v]
          /\ j.no = starts + 1
      BY <1>0, <2>1, <3>1, TaskOf DEF Restarted, Inside, Waiting
    <3> QED
      BY <1>0, <1>1, <3>2
  <2>2. CASE Dropped(w)
    <3>1. /\ signal' = signal /\ starts' = starts
          /\ job'[w] = Idle /\ (\A v \in Workers \ {w} : job'[v] = job[v]) /\ Idle.no = 0
      BY <1>0, <2>2, TaskOf DEF Dropped, Inside, Idle
    <3> QED
      BY <1>0, <1>1, <3>1
  <2>3. CASE Advanced(w)
    <3>1. PICK j : Becomes(w, j) /\ Keeps(j, w, {"data", "skip", "drafts"})
      BY <2>3 DEF Advanced
    <3>2. /\ signal' = signal /\ starts' = starts /\ job[w].stage \notin {"strategies", "execute"}
          /\ job'[w] = j /\ \A v \in Workers \ {w} : job'[v] = job[v]
          /\ j.no = job[w].no
      BY <1>0, <2>3, <3>1, TaskOf DEF Advanced, Inside, Keeps, Early
    <3> QED
      BY <1>0, <1>1, <3>2
  <2>4. CASE Stored(w)
    <3>1. PICK j : Becomes(w, j) /\ j.stage = "strategies" /\ Keeps(j, w, {})
      BY <2>4 DEF Stored
    <3>2. /\ DOMAIN signal' = DOMAIN signal \union Inserted(w) /\ starts' = starts
          /\ job[w].stage = "analyse"
          /\ job'[w] = j /\ \A v \in Workers \ {w} : job'[v] = job[v]
          /\ j.no = job[w].no /\ j.drafts = job[w].drafts
      BY <1>0, <2>4, <3>1, TaskOf DEF Stored, Keeps
    <3>3. Inserted(w)' = Inserted(w)
      BY <3>2 DEF Inserted
    <3>4. \A i \in Inserted(w) : i[1] = job[w].no /\ i[1] # 0
      BY <1>0, <3>2, InsertedType DEF Numbered
    <3>5. \A v \in Workers \ {w} : job[v].no # job[w].no
      BY <1>0, <3>2 DEF NumbersOK, Numbered
    <3> QED
      BY <1>0, <1>1, <3>1, <3>2, <3>3, <3>4, <3>5
  <2>5. CASE Listed(w)
    <3>1. PICK j : Becomes(w, j) /\ j.stage = "execute" /\ Keeps(j, w, {"left"})
      BY <2>5 DEF Listed
    <3>2. /\ signal' = signal /\ starts' = starts
          /\ job'[w] = j /\ (\A v \in Workers \ {w} : job'[v] = job[v]) /\ j.no = job[w].no
      BY <1>0, <2>5, <3>1, TaskOf DEF Listed, Inside, Keeps
    <3> QED
      BY <1>0, <1>1, <3>1, <3>2
  <2>6. CASE Offered(w)
    <3>1. /\ DOMAIN signal' = DOMAIN signal /\ starts' = starts /\ job[w].stage = "execute"
          /\ \A v \in Workers \ {w} : job'[v] = job[v]
          /\ job'[w].no = 0 \/ (job'[w].no = job[w].no /\ job'[w].stage = "execute")
      BY <1>0, <2>6, TaskOf DEF Offered, Keeps, Idle
    <3> QED
      BY <1>0, <1>1, <3>1
  <2> QED
    BY <1>3, <2>1, <2>2, <2>3, <2>4, <2>5, <2>6 DEF Moves
<1> QED
  BY <1>2, <1>3

LEMMA EvenStep == ASSUME WorkOK, StoredOK, EvenOK, Quiet \/ \E w \in Workers : Moves(w) PROVE EvenOK'
<1> USE PipelineConstants
<1>0. NumbersOK /\ OfferedOK /\ TypeOK /\ Numbered /\ starts \in Nat /\ \A w \in Workers : job[w].no \in 0..starts
  BY DEF WorkOK, TypeOK, NumbersOK
<1>2. CASE Quiet
  BY <1>2 DEF Quiet, EvenOK
<1>3. ASSUME NEW w \in Workers, Moves(w),
             NEW i \in DOMAIN signal', NEW k \in DOMAIN signal', i[1] = k[1], i[1] \notin broken'
      PROVE  /\ (\A v \in Workers : job'[v].no # i[1]) =>
                   \A s \in Strategies : <<i, s>> \in offered' <=> <<k, s>> \in offered'
             /\ \A v \in Workers : job'[v].no = i[1] /\ job'[v].stage = "execute" =>
                   \A s \in Strategies : <<i, s>> \in offered' \union job'[v].left
                                           <=> <<k, s>> \in offered' \union job'[v].left
  <2> DEFINE n == i[1]
             Even(O) == \A s \in Strategies : <<i, s>> \in O <=> <<k, s>> \in O
  <2>0. \A v, u \in Workers : v # u /\ job[v].no = job[u].no => job[v].no = 0
    BY <1>0 DEF NumbersOK
  <2>1. broken \subseteq broken'
    BY <1>3 DEF Moves, Restarted, Dropped, Advanced, Stored, Listed, Offered, Inside
  <2>A. ASSUME i \in DOMAIN signal, k \in DOMAIN signal
        PROVE  /\ n \in 1..starts
               /\ (\A v \in Workers : job[v].no # n) => Even(offered)
               /\ \A v \in Workers : job[v].no = n /\ job[v].stage = "execute" =>
                     Even(offered \union job[v].left)
               /\ \A v \in Workers : job[v].no = n => job[v].stage \in {"strategies", "execute"}
               /\ \A v \in Workers : job[v].no = n /\ job[v].stage = "strategies" =>
                     /\ i \in Inserted(v) /\ k \in Inserted(v)
                     /\ Even(offered)
    BY <1>0, <1>3, <2>1, <2>A DEF EvenOK, StoredOK, OfferedOK
  <2>2. CASE Restarted(w)
    <3>1. PICK j : Becomes(w, j) /\ Waiting(j)
      BY <2>2 DEF Restarted
    <3>2. /\ signal' = signal /\ offered' = offered
          /\ job'[w] = j /\ \A v \in Workers \ {w} : job'[v] = job[v]
          /\ j.no = starts + 1
          /\ job[w].stage = "execute" => job[w].no # n
      BY <1>0, <1>3, <2>2, <3>1, TaskOf DEF Restarted, Inside, Waiting
    <3>3. (\A v \in Workers : job'[v].no # n) => Even(offered)
      BY <1>0, <2>A, <3>2
    <3>4. \A v \in Workers : job'[v].no = n => job'[v] = job[v]
      BY <1>0, <2>A, <3>2
    <3> QED
      BY <1>3, <2>A, <3>2, <3>3, <3>4
  <2>3. CASE Dropped(w)
    <3>2. /\ signal' = signal /\ offered' = offered
          /\ job'[w] = Idle /\ \A v \in Workers \ {w} : job'[v] = job[v]
          /\ Idle.no = 0
          /\ job[w].stage = "execute" => job[w].no # n
      BY <1>0, <1>3, <2>3, TaskOf DEF Dropped, Inside, Idle
    <3>3. (\A v \in Workers : job'[v].no # n) => Even(offered)
      BY <1>0, <2>A, <3>2
    <3>4. \A v \in Workers : job'[v].no = n => job'[v] = job[v]
      BY <1>0, <2>A, <3>2
    <3> QED
      BY <1>3, <2>A, <3>2, <3>3, <3>4
  <2>4. CASE Advanced(w)
    <3>1. PICK j : Becomes(w, j) /\ j.stage \in Early /\ Keeps(j, w, {"data", "skip", "drafts"})
      BY <2>4 DEF Advanced
    <3>2. /\ signal' = signal /\ offered' = offered
          /\ job'[w] = j /\ (\A v \in Workers \ {w} : job'[v] = job[v])
          /\ j.no = job[w].no /\ j.stage # "execute" /\ job[w].stage \notin {"strategies", "execute"}
      BY <1>0, <2>4, <3>1, TaskOf DEF Advanced, Inside, Keeps, Early
    <3> QED
      BY <1>3, <2>A, <3>2
  <2>5. CASE Stored(w)
    <3>1. PICK j : Becomes(w, j) /\ j.stage = "strategies" /\ Keeps(j, w, {})
      BY <2>5 DEF Stored
    <3>2. /\ DOMAIN signal' = DOMAIN signal \union Inserted(w) /\ offered' = offered
          /\ job[w].stage = "analyse"
          /\ job'[w] = j /\ \A v \in Workers \ {w} : job'[v] = job[v]
          /\ j.no = job[w].no
      BY <1>0, <2>5, <3>1, TaskOf DEF Stored, Keeps
    <3>3. \A x \in Inserted(w) : x[1] = job[w].no /\ x[1] # 0
      BY <1>0, <3>2, InsertedType DEF Numbered
    <3>4. \A x \in DOMAIN signal : x[1] # job[w].no
      BY <3>2 DEF StoredOK
    <3>5. CASE n = job[w].no
      <4>1. n # 0
        BY <1>0, <3>2, <3>5 DEF Numbered
      <4>2. \A v \in Workers : job'[v].no = n => job'[v] = j
        BY <2>0, <3>2, <3>5, <4>1
      <4>3. job'[w].no = n
        BY <3>2, <3>5
      <4> QED
        BY <3>1, <4>2, <4>3
    <3>6. CASE n # job[w].no
      <4>1. i \in DOMAIN signal /\ k \in DOMAIN signal
        BY <1>3, <3>2, <3>3, <3>6
      <4> QED
        BY <1>3, <2>A, <3>2, <3>6, <4>1
    <3> QED
      BY <3>5, <3>6
  <2>6. CASE Listed(w)
    <3>1. PICK j : /\ Becomes(w, j) /\ j.stage = "execute" /\ Keeps(j, w, {"left"})
                   /\ j.left = Inserted(w) \X active
      BY <2>6 DEF Listed
    <3>2. /\ signal' = signal /\ offered' = offered /\ job[w].stage = "strategies"
          /\ job'[w] = j /\ (\A v \in Workers \ {w} : job'[v] = job[v]) /\ j.no = job[w].no
      BY <1>0, <2>6, <3>1, TaskOf DEF Listed, Inside, Keeps
    <3>3. CASE n = job[w].no
      <4>1. Even(offered) /\ i \in Inserted(w) /\ k \in Inserted(w)
        BY <1>3, <2>A, <3>2, <3>3
      <4>2. Even(offered \union j.left)
        BY <3>1, <4>1
      <4>3. \A v \in Workers : job'[v].no = n => job'[v] = j
        BY <1>0, <1>3, <2>0, <2>A, <3>2, <3>3
      <4> QED
        BY <3>2, <3>3, <4>2, <4>3
    <3>4. CASE n # job[w].no
      BY <1>3, <2>A, <3>2, <3>4
    <3> QED
      BY <3>3, <3>4
  <2>7. CASE Offered(w)
    <3>1. PICK x \in job[w].left :
             /\ DOMAIN signal' = DOMAIN signal /\ offered' = offered \union {x}
             /\ job[w].stage = "execute"
             /\ \/ job[w].left = {x} /\ Becomes(w, Idle)
                \/ \E j : /\ Becomes(w, j) /\ j.stage = "execute" /\ Keeps(j, w, {"left"})
                          /\ j.left = job[w].left \ {x}
      BY <2>7 DEF Offered
    <3>2. x[1][1] = job[w].no /\ job[w].no # 0
      BY <1>0, <3>1 DEF Numbered, OfferedOK
    <3>3. /\ \A v \in Workers \ {w} : job'[v] = job[v]
          /\ \/ job'[w].no = 0 /\ job[w].left = {x}
             \/ job'[w].no = job[w].no /\ job'[w].left = job[w].left \ {x}
      BY <1>0, <3>1, TaskOf DEF Keeps, Idle
    <3>4. CASE n = job[w].no
      <4>1. Even(offered \union job[w].left)
        BY <1>3, <2>A, <3>1, <3>4
      <4>2. job'[w].no = 0 => Even(offered')
        BY <3>1, <3>2, <3>3, <4>1
      <4>3. job'[w].no # 0 => Even(offered' \union job'[w].left) /\ job'[w].no = n
        BY <3>1, <3>3, <3>4, <4>1
      <4>4. \A v \in Workers : job'[v].no = n => v = w
        BY <2>0, <3>2, <3>3, <3>4
      <4>5. n # 0
        BY <3>2, <3>4
      <4> QED
        BY <4>2, <4>3, <4>4, <4>5
    <3>5. CASE n # job[w].no
      <4>1. \A s : <<i, s>> # x /\ <<k, s>> # x
        BY <1>3, <3>2, <3>5
      <4>2. n # 0
        BY <1>3, <2>A, <3>1
      <4> QED
        BY <1>3, <2>A, <3>1, <3>3, <3>5, <4>1, <4>2
    <3> QED
      BY <3>4, <3>5
  <2> QED
    BY <1>3, <2>2, <2>3, <2>4, <2>5, <2>6, <2>7 DEF Moves
<1> QED
  BY <1>2, <1>3 DEF EvenOK

\* A pipeline that nothing interrupts offers all the signals it stored to the
\* same strategies, whichever attempts fail, and whatever is cancelled, expires
\* or is switched off meanwhile.
THEOREM OfferedEvenly == Spec => []NothingSkipped
<1>1. Init => StoredOK /\ EvenOK
  BY DEF Init, StoredOK, EvenOK
<1>2. WorkOK /\ StoredOK /\ EvenOK /\ [Next]_vars => (StoredOK /\ EvenOK)'
  <2> SUFFICES ASSUME WorkOK, StoredOK, EvenOK, [Next]_vars PROVE (StoredOK /\ EvenOK)'
    OBVIOUS
  <2>1. Quiet \/ \E w \in Workers : Moves(w)
    BY Kinds DEF WorkOK
  <2> QED
    BY <2>1, StoredStep, EvenStep
<1>3. WorkOK /\ EvenOK => NothingSkipped
  BY DEF EvenOK, NothingSkipped
<1> QED
  BY <1>1, <1>2, <1>3, WorkInvariant, PTL DEF Spec

-----------------------------------------------------------------------------
(***************************************************************************)
(* Two live signals of a key come from pipelines that overlapped.          *)
(***************************************************************************)

\* Tasks at work on a common exchange have been noted as a pair.
MetOK == \A v, w \in Workers :
            v # w /\ job[v].on \intersect job[w].on # {} => <<job[v].no, job[w].no>> \in met

\* The live signals of k are from starts that overlapped start n.
OnlyMet(n, k) == \A i \in LiveOn(k) : <<i[1], n>> \in met /\ <<n, i[1]>> \in met

\* What a task has yet to look at and has not seen a live signal of, and what
\* it has drafted, has live signals now only of tasks it has met; its exchanges
\* are its own.
DraftsOK ==
    \A w \in Workers :
       /\ \A k \in job[w].data : k[2] \in job[w].on
       /\ job[w].stage \in {"queued", "fetch", "keys"} => job[w].drafts = {}
       /\ job[w].stage = "analyse" =>
             /\ \A k \in job[w].data : k \notin job[w].skip => OnlyMet(job[w].no, k)
             /\ \A d \in job[w].drafts : /\ d[1][2] \in job[w].on /\ d[1] \notin job[w].data
                                         /\ OnlyMet(job[w].no, d[1])

TurnsOK == MetOK /\ DraftsOK /\ OneLivePerKey

\* Nothing but storing brings a key a live signal.
LEMMA LiveShrinks ==
    ASSUME TypeOK, \/ Quiet
                   \/ \E w \in Workers : Restarted(w) \/ Dropped(w) \/ Advanced(w) \/ Listed(w) \/ Offered(w),
           NEW k
    PROVE  LiveOn(k)' \subseteq LiveOn(k)
<1>1. now \in Nat /\ now' \in Nat /\ now <= now' /\ \A i \in DOMAIN signal : signal[i].expires \in Nat
  BY PipelineConstants DEF TypeOK, SignalRows, Quiet, Restarted, Dropped, Advanced, Listed, Offered, Inside
<1>2. DOMAIN signal' \subseteq DOMAIN signal
  BY DEF Quiet, Restarted, Dropped, Advanced, Listed, Offered, Inside
<1>3. \A i \in DOMAIN signal' : /\ signal'[i].expires = signal[i].expires
                                /\ signal'[i].status = "NEW" => signal[i].status = "NEW"
  BY DEF Quiet, Restarted, Dropped, Advanced, Listed, Offered, Inside
<1>4. \A i \in DOMAIN signal' : Live(i)' => Live(i)
  BY <1>1, <1>2, <1>3 DEF Live
<1> QED
  BY <1>2, <1>4 DEF LiveOn

LEMMA MetStep ==
    ASSUME TypeOK, MetOK, Quiet \/ \E w \in Workers : Moves(w)
    PROVE  MetOK' /\ met \subseteq met'
<1>1. CASE Quiet
  BY <1>1 DEF Quiet, MetOK
<1>2. ASSUME NEW w \in Workers, NEW j, Becomes(w, j), met \subseteq met',
             \A v \in Workers \ {w} : job[v].on \intersect j.on # {} =>
                <<j.no, job[v].no>> \in met' /\ <<job[v].no, j.no>> \in met'
      PROVE  MetOK'
  <2>1. job'[w] = j /\ \A v \in Workers \ {w} : job'[v] = job[v]
    BY <1>2, TaskOf
  <2> SUFFICES ASSUME NEW u \in Workers, NEW v \in Workers, u # v, job'[u].on \intersect job'[v].on # {}
               PROVE  <<job'[u].no, job'[v].no>> \in met'
    BY DEF MetOK
  <2>2. CASE u # w /\ v # w
    BY <1>2, <2>1, <2>2 DEF MetOK
  <2>3. CASE u = w
    BY <1>2, <2>1, <2>3
  <2>4. CASE v = w
    BY <1>2, <2>1, <2>4
  <2> QED
    BY <2>2, <2>3, <2>4
<1>3. ASSUME NEW w \in Workers, Moves(w) PROVE MetOK' /\ met \subseteq met'
  <2>0. met \subseteq met'
    BY <1>3 DEF Moves, Restarted, Dropped, Advanced, Stored, Listed, Offered, Inside
  <2>1. CASE Restarted(w)
    BY <1>2, <2>0, <2>1 DEF Restarted
  <2>2. CASE Becomes(w, Idle)
    <3>1. Idle.on = {}
      BY DEF Idle
    <3> QED
      BY <1>2, <2>0, <2>2, <3>1
  <2>3. CASE \E j, S : Becomes(w, j) /\ Keeps(j, w, S)
    <3>1. PICK j : Becomes(w, j) /\ j.on = job[w].on /\ j.no = job[w].no
      BY <2>3 DEF Keeps
    <3>2. \A v \in Workers \ {w} : job[v].on \intersect j.on # {} =>
             <<j.no, job[v].no>> \in met' /\ <<job[v].no, j.no>> \in met'
      BY <2>0, <3>1 DEF MetOK
    <3> QED
      BY <1>2, <2>0, <3>1, <3>2
  <2> QED
    BY <1>3, <2>0, <2>1, <2>2, <2>3 DEF Moves, Dropped, Advanced, Stored, Listed, Offered
<1> QED
  BY <1>1, <1>3 DEF Quiet

LEMMA DraftsStep ==
    ASSUME WorkOK, MetOK, DraftsOK, Quiet \/ \E w \in Workers : Moves(w)
    PROVE  DraftsOK'
<1>0. TypeOK /\ met \subseteq met'
  BY MetStep DEF WorkOK
<1> DEFINE After(n, k) == \A i \in LiveOn(k)' : <<i[1], n>> \in met' /\ <<n, i[1]>> \in met'
           Fine(j) ==
             /\ \A k \in j.data : k[2] \in j.on
             /\ j.stage \in {"queued", "fetch", "keys"} => j.drafts = {}
             /\ j.stage = "analyse" =>
                   /\ \A k \in j.data : k \notin j.skip => OnlyMet(j.no, k)
                   /\ \A d \in j.drafts : /\ d[1][2] \in j.on /\ d[1] \notin j.data
                                          /\ OnlyMet(j.no, d[1])
<1>1. \A w \in Workers : Fine(job[w])
  BY DEF DraftsOK
<1>2. ASSUME \A k : LiveOn(k)' \subseteq LiveOn(k), NEW w \in Workers, NEW j, Becomes(w, j), Fine(j)
      PROVE  DraftsOK'
  <2>1. job'[w] = j /\ \A v \in Workers \ {w} : job'[v] = job[v]
    BY <1>0, <1>2, TaskOf
  <2>2. \A n, k : OnlyMet(n, k) => After(n, k)
    BY <1>0, <1>2 DEF OnlyMet
  <2>3. \A v \in Workers : Fine(job'[v])
    BY <1>1, <1>2, <2>1
  <2> HIDE DEF Fine, After
  <2>4. \A v \in Workers :
           /\ \A k \in job'[v].data : k[2] \in job'[v].on
           /\ job'[v].stage \in {"queued", "fetch", "keys"} => job'[v].drafts = {}
           /\ job'[v].stage = "analyse" =>
                 /\ \A k \in job'[v].data : k \notin job'[v].skip => After(job'[v].no, k)
                 /\ \A d \in job'[v].drafts : /\ d[1][2] \in job'[v].on /\ d[1] \notin job'[v].data
                                              /\ After(job'[v].no, d[1])
    BY <2>2, <2>3 DEF Fine
  <2> QED
    BY <2>4 DEF DraftsOK, OnlyMet, After
<1>3. CASE Quiet
  <2>1. \A k : LiveOn(k)' \subseteq LiveOn(k)
    BY <1>0, <1>3, LiveShrinks
  <2>2. job' = job /\ met' = met
    BY <1>3 DEF Quiet
  <2>3. \A n, k : OnlyMet(n, k) => OnlyMet(n, k)'
    BY <2>1, <2>2 DEF OnlyMet
  <2> QED
    BY <2>2, <2>3 DEF DraftsOK
<1>4. ASSUME NEW w \in Workers, Restarted(w) \/ Dropped(w) \/ Advanced(w) \/ Listed(w) \/ Offered(w)
      PROVE  DraftsOK'
  <2>0. \A k : LiveOn(k)' \subseteq LiveOn(k)
    BY <1>0, <1>4, LiveShrinks
  <2>1. CASE Becomes(w, Idle)
    BY <1>2, <2>0, <2>1 DEF Idle
  <2>2. CASE \E j : Becomes(w, j) /\ Waiting(j)
    BY <1>2, <2>0, <2>2 DEF Waiting
  <2>3. CASE Advanced(w)
    <3>1. PICK j : Becomes(w, j) /\ Onward(j, w) /\ j.on = job[w].on
      BY <2>3 DEF Advanced, Keeps
    <3>2. \A k \in job[w].data : k \in Keys
      BY <1>0 DEF TypeOK
    <3>3. Fine(j)
      <4>1. CASE job[w].stage = "queued" /\ j.stage = "fetch" /\ Keeps(j, w, {})
        BY <1>1, <3>1, <4>1 DEF Keeps
      <4>2. CASE /\ job[w].stage = "fetch" /\ j.stage = "keys" /\ Keeps(j, w, {"data"})
                 /\ j.data \subseteq Symbols \X job[w].on
        BY <1>1, <3>1, <4>2 DEF Keeps
      <4>3. CASE /\ job[w].stage = "keys" /\ j.stage = "analyse" /\ Keeps(j, w, {"skip"})
                 /\ j.skip = ActiveSignalKeys
        <5>1. j.data = job[w].data /\ j.drafts = {}
          BY <1>1, <4>3 DEF Keeps
        <5>2. \A k \in j.data : k \notin j.skip => OnlyMet(j.no, k)
          BY <3>2, <4>3, <5>1 DEF ActiveSignalKeys, OnlyMet
        <5> QED
          BY <1>1, <3>1, <4>3, <5>1, <5>2
      <4>4. CASE /\ job[w].stage = "analyse" /\ j.stage = "analyse" /\ Keeps(j, w, {"data", "drafts"})
                 /\ \E k \in job[w].data :
                       /\ j.data = job[w].data \ {k}
                       /\ \/ j.drafts = job[w].drafts
                          \/ k \notin job[w].skip /\ j.drafts = job[w].drafts \union {<<k, now + Lifetime>>}
        <5>1. j.skip = job[w].skip /\ j.no = job[w].no
          BY <4>4 DEF Keeps
        <5>2. \A k \in job[w].data : /\ k[2] \in job[w].on
                                     /\ k \notin job[w].skip => OnlyMet(job[w].no, k)
          BY <1>1, <4>4
        <5>3. \A d \in job[w].drafts : /\ d[1][2] \in job[w].on /\ d[1] \notin job[w].data
                                       /\ OnlyMet(job[w].no, d[1])
          BY <1>1, <4>4
        <5> QED
          BY <3>1, <4>4, <5>1, <5>2, <5>3
      <4> QED
        BY <3>1, <4>1, <4>2, <4>3, <4>4 DEF Onward
    <3> QED
      BY <1>2, <2>0, <3>1, <3>3
  <2>4. CASE Listed(w) \/ \E j : Becomes(w, j) /\ j.stage = "execute" /\ Keeps(j, w, {"left"})
    <3>1. PICK j : Becomes(w, j) /\ j.stage = "execute" /\ j.data = job[w].data /\ j.on = job[w].on
      BY <2>4 DEF Listed, Keeps
    <3>2. Fine(j)
      BY <1>1, <3>1
    <3> QED
      BY <1>2, <2>0, <3>1, <3>2
  <2> QED
    BY <1>4, <2>1, <2>2, <2>3, <2>4 DEF Restarted, Dropped, Offered
<1>5. ASSUME NEW w \in Workers, Stored(w) PROVE DraftsOK'
  <2>1. PICK j : Becomes(w, j) /\ j.stage = "strategies" /\ Keeps(j, w, {})
    BY <1>5 DEF Stored
  <2>2. job'[w] = j /\ \A v \in Workers \ {w} : job'[v] = job[v]
    BY <1>0, <2>1, TaskOf
  <2>3. \A i \in DOMAIN signal' : i \in DOMAIN signal \/ i \in Inserted(w)
    BY <1>5 DEF Stored
  <2>4. job[w].stage = "analyse" /\ now' = now /\ \A i \in DOMAIN signal : signal'[i] = signal[i]
    BY <1>5 DEF Stored
  <2>5. \A i \in Inserted(w) : i[2][2] \in job[w].on
    BY <1>1, <2>4 DEF Inserted
  <2>6. ASSUME NEW v \in Workers \ {w}, NEW k, k[2] \in job[v].on, OnlyMet(job[v].no, k)
        PROVE  OnlyMet(job[v].no, k)'
    <3> SUFFICES ASSUME NEW i \in LiveOn(k)'
                 PROVE  <<i[1], job[v].no>> \in met /\ <<job[v].no, i[1]>> \in met
      BY <1>5, <2>2 DEF OnlyMet, Stored
    <3>1. CASE i \in LiveOn(k)
      BY <2>6, <3>1 DEF OnlyMet
    <3>2. CASE i \in Inserted(w)
      <4>1. i[1] = job[w].no /\ i[2] = k
        BY <3>2 DEF Inserted, LiveOn
      <4>2. job[v].on \intersect job[w].on # {}
        BY <2>5, <2>6, <3>2, <4>1
      <4> QED
        BY <4>1, <4>2 DEF MetOK
    <3> QED
      BY <2>3, <2>4, <3>1, <3>2 DEF LiveOn, Live
  <2>7. \A v \in Workers \ {w} :
           /\ \A k \in job[v].data : k[2] \in job[v].on
           /\ job[v].stage \in {"queued", "fetch", "keys"} => job[v].drafts = {}
           /\ job[v].stage = "analyse" =>
                 /\ \A k \in job[v].data : k \notin job[v].skip => OnlyMet(job[v].no, k)'
                 /\ \A d \in job[v].drafts : /\ d[1][2] \in job[v].on /\ d[1] \notin job[v].data
                                             /\ OnlyMet(job[v].no, d[1])'
    BY <1>1, <2>6
  <2>8. \A k \in j.data : k[2] \in j.on
    BY <1>1, <2>1 DEF Keeps
  <2> QED
    BY <2>1, <2>2, <2>7, <2>8 DEF DraftsOK
<1> QED
  BY <1>3, <1>4, <1>5 DEF Moves

LEMMA LiveStep ==
    ASSUME WorkOK, MetOK, DraftsOK, OneLivePerKey, Quiet \/ \E w \in Workers : Moves(w)
    PROVE  OneLivePerKey'
<1>0. TypeOK /\ met \subseteq met'
  BY MetStep DEF WorkOK
<1>1. ASSUME \A k : LiveOn(k)' \subseteq LiveOn(k) PROVE OneLivePerKey'
  BY <1>0, <1>1 DEF OneLivePerKey, Keys
<1>2. ASSUME NEW w \in Workers, Stored(w), NEW k \in Keys, NEW i \in LiveOn(k)', NEW m \in LiveOn(k)'
      PROVE  i = m \/ <<i[1], m[1]>> \in met'
  <2>1. /\ \A x \in DOMAIN signal' : x \in DOMAIN signal \/ x \in Inserted(w)
        /\ job[w].stage = "analyse" /\ now' = now /\ \A x \in DOMAIN signal : signal'[x] = signal[x]
    BY <1>2 DEF Stored
  <2>2. \A x \in LiveOn(k)' : x \in LiveOn(k) \/ x \in Inserted(w)
    BY <2>1 DEF LiveOn, Live
  <2>3. \A x \in LiveOn(k)' : x[2] = k
    BY DEF LiveOn
  <2>4. \A x \in Inserted(w) : OnlyMet(job[w].no, x[2]) /\ x = <<job[w].no, x[2]>>
    BY <2>1 DEF Inserted, DraftsOK
  <2>5. CASE i \in LiveOn(k) /\ m \in LiveOn(k)
    BY <1>0, <2>5 DEF OneLivePerKey
  <2>6. CASE i \in Inserted(w) /\ m \in Inserted(w)
    BY <2>3, <2>4, <2>6
  <2>7. ASSUME NEW x \in Inserted(w), x[2] = k, NEW y \in LiveOn(k)
        PROVE  <<x[1], y[1]>> \in met' /\ <<y[1], x[1]>> \in met'
    <3>1. OnlyMet(job[w].no, k) /\ x[1] = job[w].no
      BY <2>4, <2>7
    <3> QED
      BY <1>0, <3>1 DEF OnlyMet
  <2> QED
    BY <2>2, <2>3, <2>5, <2>6, <2>7
<1> QED
  BY <1>0, <1>1, <1>2, LiveShrinks DEF Moves, OneLivePerKey

\* Generation, which reads the live signals first and inserts minutes later, makes
\* a second live signal of a symbol on an exchange only beside a pipeline that was
\* at work there at the same time, whatever fails, comes again, expires or is
\* cancelled, and however many pipelines run.
THEOREM OneSignalPerKey == Spec => []OneLivePerKey
<1>1. Init => TurnsOK
  <2> SUFFICES ASSUME Init PROVE TurnsOK
    OBVIOUS
  <2>1. MetOK /\ DraftsOK
    BY DEF Init, Idle, MetOK, DraftsOK
  <2>2. \A k : LiveOn(k) = {}
    BY DEF Init, LiveOn
  <2> QED
    BY <2>1, <2>2 DEF TurnsOK, OneLivePerKey
<1>2. WorkOK /\ TurnsOK /\ [Next]_vars => TurnsOK'
  <2> SUFFICES ASSUME WorkOK, TurnsOK, [Next]_vars PROVE TurnsOK'
    OBVIOUS
  <2>1. Quiet \/ \E w \in Workers : Moves(w)
    BY Kinds DEF WorkOK
  <2> QED
    BY <2>1, MetStep, DraftsStep, LiveStep DEF TurnsOK, WorkOK
<1>3. TurnsOK => OneLivePerKey
  BY DEF TurnsOK
<1> QED
  BY <1>1, <1>2, <1>3, WorkInvariant, PTL DEF Spec

-----------------------------------------------------------------------------
(***************************************************************************)
(* The switches.                                                           *)
(***************************************************************************)

\* Switching one pipeline leaves what is shown of the others alone, the older
\* switch for all of them included.
THEOREM OneTaskToggled == Spec => TogglesOneTask
<1>1. [Next]_vars =>
        [\A e, f \in Exchanges :
          (\E enabled \in BOOLEAN : ToggleTask(e, enabled) /\ disabled' # disabled) /\
          ShownEnabled(disabled, f) # ShownEnabled(disabled', f)
             => \A g \in Exchanges \ {f} : ShownEnabled(disabled, g) = ShownEnabled(disabled', g)]_vars
  <2> SUFFICES ASSUME NEW e \in Exchanges, NEW f \in Exchanges, NEW b \in BOOLEAN, ToggleTask(e, b),
                      ShownEnabled(disabled, f) # ShownEnabled(disabled', f),
                      NEW g \in Exchanges \ {f}
               PROVE  ShownEnabled(disabled, g) = ShownEnabled(disabled', g)
    OBVIOUS
  <2>1. disabled' = IF b THEN SwitchedOn(e) ELSE disabled \union {e}
    BY DEF ToggleTask
  <2>2. CASE b
    BY <2>1, <2>2, PipelineConstants DEF SwitchedOn, ShownEnabled
  <2>3. CASE ~b
    BY <2>1, <2>3, PipelineConstants DEF ShownEnabled
  <2> QED
    BY <2>2, <2>3
<1> QED
  BY <1>1, PTL DEF Spec, TogglesOneTask
=============================================================================
