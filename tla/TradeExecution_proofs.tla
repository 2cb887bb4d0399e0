----------------------- MODULE TradeExecution_proofs -----------------------
(***************************************************************************)
(* Proofs about TradeExecution, for every set of attempts, signals and     *)
(* strategies, every assignment of jobs, every number of concurrent        *)
(* sessions and every combination of faults.                               *)
(*                                                                         *)
(* The argument rests on what a session holds: what its row may be at each *)
(* await (SessionOK), that it inserts only for a pair nobody else holds    *)
(* (PairsOK) and whose parents exist (ParentsOK).  Sessions that overlap   *)
(* can break both idempotency layers and the limit of a strategy; the      *)
(* third part proves that nothing else does.  The last part is about the   *)
(* ledger itself, whose history is final.                                  *)
(***************************************************************************)
EXTENDS TradeExecution, FiniteSetTheorems, TLAPS

\* The row of a session has a final status before it is flushed, is FILLED
\* while its position is being protected, and is committed only at the end.
SessionOK ==
    \A a \in Attempts :
        /\ pc[a] \in {"flush", "commit"} => draft[a] \in {"FAILED", "FILLED"}
        /\ pc[a] \in {"protect", "close"} => draft[a] = "FILLED"
        /\ row[a] # "absent" => pc[a] = "done"

PairsOK == OneRowPerKey /\ OneHolderPerKey

\* A row, committed or inserted, keeps its strategy and its signal alive.
ParentsOK ==
    \A a \in Attempts : row[a] # "absent" \/ pc[a] \in Flushed =>
        /\ job[a].strat \notin deleted
        /\ signal[job[a].sig] # "purged"

IInv == TypeOK /\ SessionOK /\ PairsOK /\ ParentsOK

LEMMA InitOK == Init => IInv
BY DEF Init, IInv, TypeOK, PCs, Mishaps, SessionOK, PairsOK, OneRowPerKey,
       OneHolderPerKey, ParentsOK, Flushed

-----------------------------------------------------------------------------
\* Every action keeps the state and its sessions well-formed.
LEMMA TypeStep == TypeOK /\ SessionOK /\ [Next]_vars => TypeOK' /\ SessionOK'
<1> SUFFICES ASSUME TypeOK, SessionOK, [Next]_vars
             PROVE  TypeOK' /\ SessionOK'
  OBVIOUS
<1> USE DEF TypeOK, SessionOK, PCs, Mishaps, session, exchange, catalog, history, Befalls, Goto, Leave
<1>1. ASSUME NEW a \in Attempts, Begin(a)
      PROVE  TypeOK' /\ SessionOK'
  BY <1>1 DEF Begin, InFlight
<1>2. ASSUME NEW a \in Attempts, PassGate(a)
      PROVE  TypeOK' /\ SessionOK'
  BY <1>2 DEF PassGate
<1>3. ASSUME NEW a \in Attempts, Skip(a)
      PROVE  TypeOK' /\ SessionOK'
  BY <1>3 DEF Skip
<1>4. ASSUME NEW a \in Attempts, SkipOverdue(a)
      PROVE  TypeOK' /\ SessionOK'
  BY <1>4 DEF SkipOverdue
<1>5. ASSUME NEW a \in Attempts, CheckOnce(a)
      PROVE  TypeOK' /\ SessionOK'
  BY <1>5 DEF CheckOnce
<1>6. ASSUME NEW a \in Attempts, RateLimited(a)
      PROVE  TypeOK' /\ SessionOK'
  BY <1>6 DEF RateLimited
<1>7. ASSUME NEW a \in Attempts, CheckSymbol(a)
      PROVE  TypeOK' /\ SessionOK'
  BY <1>7 DEF CheckSymbol
<1>8. ASSUME NEW a \in Attempts, Admit(a)
      PROVE  TypeOK' /\ SessionOK'
  BY <1>8 DEF Admit
<1>9. ASSUME NEW a \in Attempts, Reject(a)
      PROVE  TypeOK' /\ SessionOK'
  BY <1>9 DEF Reject
<1>10. ASSUME NEW a \in Attempts, OrderFills(a)
      PROVE  TypeOK' /\ SessionOK'
  BY <1>10 DEF OrderFills, AwaitsOrder
<1>11. ASSUME NEW a \in Attempts, OrderRefused(a)
      PROVE  TypeOK' /\ SessionOK'
  BY <1>11 DEF OrderRefused, AwaitsOrder
<1>12. ASSUME NEW a \in Attempts, OrderUnanswered(a)
      PROVE  TypeOK' /\ SessionOK'
  BY <1>12 DEF OrderUnanswered, AwaitsOrder
<1>13. ASSUME NEW a \in Attempts, OrderUnfilled(a)
      PROVE  TypeOK' /\ SessionOK'
  BY <1>13 DEF OrderUnfilled, AwaitsOrder
<1>14. ASSUME NEW a \in Attempts, Flush(a)
      PROVE  TypeOK' /\ SessionOK'
  BY <1>14 DEF Flush
<1>15. ASSUME NEW a \in Attempts, Protect(a)
      PROVE  TypeOK' /\ SessionOK'
  BY <1>15 DEF Protect
<1>16. ASSUME NEW a \in Attempts, ProtectFails(a)
      PROVE  TypeOK' /\ SessionOK'
  BY <1>16 DEF ProtectFails
<1>17. ASSUME NEW a \in Attempts, EmergencyClose(a)
      PROVE  TypeOK' /\ SessionOK'
  BY <1>17 DEF EmergencyClose, Reduce, LotsOn
<1>18. ASSUME NEW a \in Attempts, EmergencyCloseUnfilled(a)
      PROVE  TypeOK' /\ SessionOK'
  BY <1>18 DEF EmergencyCloseUnfilled
<1>19. ASSUME NEW a \in Attempts, EmergencyCloseFails(a)
      PROVE  TypeOK' /\ SessionOK'
  BY <1>19 DEF EmergencyCloseFails, Reduce, LotsOn
<1>20. ASSUME NEW a \in Attempts, Commit(a)
      PROVE  TypeOK' /\ SessionOK'
  BY <1>20 DEF Commit
<1>21. ASSUME NEW a \in Attempts, Crash(a)
      PROVE  TypeOK' /\ SessionOK'
  BY <1>21 DEF Crash, InFlight
<1>22. ASSUME NEW a \in Attempts, ExchangeClose(a)
      PROVE  TypeOK' /\ SessionOK'
  BY <1>22 DEF ExchangeClose
<1>23. ASSUME NEW a \in Attempts, SyncClose(a)
      PROVE  TypeOK' /\ SessionOK'
  BY <1>23 DEF SyncClose
<1>24. ASSUME NEW a \in Attempts, SyncCloseMisled(a)
      PROVE  TypeOK' /\ SessionOK'
  BY <1>24 DEF SyncCloseMisled
<1>25. ASSUME NEW s \in Signals, TimePasses(s)
      PROVE  TypeOK' /\ SessionOK'
  BY <1>25 DEF TimePasses
<1>26. ASSUME NEW s \in Signals, CancelSignal(s)
      PROVE  TypeOK' /\ SessionOK'
  BY <1>26 DEF CancelSignal
<1>27. ASSUME NEW s \in Signals, PurgeSignal(s)
      PROVE  TypeOK' /\ SessionOK'
  BY <1>27 DEF PurgeSignal, Cascade
<1>28. ASSUME NEW t \in Strategies, DeleteStrategy(t)
      PROVE  TypeOK' /\ SessionOK'
  BY <1>28 DEF DeleteStrategy, Cascade
<1>29. ASSUME ExpireStale
      PROVE  TypeOK' /\ SessionOK'
  BY <1>29 DEF ExpireStale
<1>30. CASE UNCHANGED vars
  BY <1>30 DEF vars
<1> QED
  BY <1>1, <1>2, <1>3, <1>4, <1>5, <1>6, <1>7, <1>8, <1>9, <1>10, <1>11,
     <1>12, <1>13, <1>14, <1>15, <1>16, <1>17, <1>18, <1>19, <1>20, <1>21,
     <1>22, <1>23, <1>24, <1>25, <1>26, <1>27, <1>28, <1>29,
     <1>30 DEF Next, Step

-----------------------------------------------------------------------------
\* A step that commits nothing, inserts nothing and deletes nothing.
Quiet ==
    /\ job' = job
    /\ row' = row
    /\ deleted' = deleted
    /\ \A a \in Attempts : pc'[a] \in Flushed => pc[a] \in Flushed
    /\ \A s \in Signals : signal'[s] = "purged" => signal[s] = "purged"

LEMMA QuietStep == TypeOK /\ PairsOK /\ ParentsOK /\ Quiet => PairsOK' /\ ParentsOK'
BY DEF TypeOK, Jobs, PairsOK, ParentsOK, OneRowPerKey, OneHolderPerKey, Quiet, Key

\* Only a flush, a commit, a close and a deletion touch what the table holds.
LEMMA TableStep == IInv /\ [Next]_vars => PairsOK' /\ ParentsOK'
<1> SUFFICES ASSUME TypeOK, SessionOK, PairsOK, ParentsOK, [Next]_vars
             PROVE  PairsOK' /\ ParentsOK'
  BY DEF IInv
<1> USE DEF TypeOK, PCs, Flushed, session, exchange, catalog, history, Befalls, Goto, Leave
<1>1. ASSUME NEW a \in Attempts, Begin(a)
      PROVE  PairsOK' /\ ParentsOK'
  <2>1. Quiet
    BY <1>1 DEF Begin, Quiet
  <2> QED BY <2>1, QuietStep
<1>2. ASSUME NEW a \in Attempts, PassGate(a)
      PROVE  PairsOK' /\ ParentsOK'
  <2>1. Quiet
    BY <1>2 DEF PassGate, Quiet
  <2> QED BY <2>1, QuietStep
<1>3. ASSUME NEW a \in Attempts, Skip(a)
      PROVE  PairsOK' /\ ParentsOK'
  <2>1. Quiet
    BY <1>3 DEF Skip, Quiet
  <2> QED BY <2>1, QuietStep
<1>4. ASSUME NEW a \in Attempts, SkipOverdue(a)
      PROVE  PairsOK' /\ ParentsOK'
  <2>1. Quiet
    BY <1>4 DEF SkipOverdue, Quiet
  <2> QED BY <2>1, QuietStep
<1>5. ASSUME NEW a \in Attempts, CheckOnce(a)
      PROVE  PairsOK' /\ ParentsOK'
  <2>1. Quiet
    BY <1>5 DEF CheckOnce, Quiet
  <2> QED BY <2>1, QuietStep
<1>6. ASSUME NEW a \in Attempts, RateLimited(a)
      PROVE  PairsOK' /\ ParentsOK'
  <2>1. Quiet
    BY <1>6 DEF RateLimited, Quiet
  <2> QED BY <2>1, QuietStep
<1>7. ASSUME NEW a \in Attempts, CheckSymbol(a)
      PROVE  PairsOK' /\ ParentsOK'
  <2>1. Quiet
    BY <1>7 DEF CheckSymbol, Quiet
  <2> QED BY <2>1, QuietStep
<1>8. ASSUME NEW a \in Attempts, Admit(a)
      PROVE  PairsOK' /\ ParentsOK'
  <2>1. Quiet
    BY <1>8 DEF Admit, Quiet
  <2> QED BY <2>1, QuietStep
<1>9. ASSUME NEW a \in Attempts, Reject(a)
      PROVE  PairsOK' /\ ParentsOK'
  <2>1. Quiet
    BY <1>9 DEF Reject, Quiet
  <2> QED BY <2>1, QuietStep
<1>10. ASSUME NEW a \in Attempts, OrderFills(a)
      PROVE  PairsOK' /\ ParentsOK'
  <2>1. Quiet
    BY <1>10 DEF OrderFills, AwaitsOrder, Quiet
  <2> QED BY <2>1, QuietStep
<1>11. ASSUME NEW a \in Attempts, OrderRefused(a)
      PROVE  PairsOK' /\ ParentsOK'
  <2>1. Quiet
    BY <1>11 DEF OrderRefused, AwaitsOrder, Quiet
  <2> QED BY <2>1, QuietStep
<1>12. ASSUME NEW a \in Attempts, OrderUnanswered(a)
      PROVE  PairsOK' /\ ParentsOK'
  <2>1. Quiet
    BY <1>12 DEF OrderUnanswered, AwaitsOrder, Quiet
  <2> QED BY <2>1, QuietStep
<1>13. ASSUME NEW a \in Attempts, OrderUnfilled(a)
      PROVE  PairsOK' /\ ParentsOK'
  <2>1. Quiet
    BY <1>13 DEF OrderUnfilled, AwaitsOrder, Quiet
  <2> QED BY <2>1, QuietStep
<1>14. ASSUME NEW a \in Attempts, Flush(a)
      PROVE  PairsOK' /\ ParentsOK'
  <2>1. CASE Conflicts(a)
    <3>1. Quiet
      BY <1>14, <2>1 DEF Flush, Quiet
    <3> QED BY <3>1, QuietStep
  <2>2. CASE ~Conflicts(a)
    <3>1. \A b \in Attempts : Key(b) = Key(a) => row[b] = "absent"
      BY <2>2 DEF Conflicts, RowsOf
    <3>2. \A b \in Attempts \ {a} : Key(b) = Key(a) => pc[b] \notin Flushed
      BY <1>14 DEF Flush, KeyIsFree
    <3>3. job[a].strat \notin deleted /\ signal[job[a].sig] # "purged"
      BY <2>2 DEF Conflicts
    <3>4. /\ job' = job /\ row' = row /\ deleted' = deleted /\ signal' = signal
          /\ \A b \in Attempts \ {a} : pc'[b] = pc[b]
      BY <1>14 DEF Flush
    <3>5. \A b \in Attempts : Key(b)' = Key(b)
      BY <3>4 DEF Key
    <3> HIDE DEF TypeOK, Key
    <3>6. PairsOK'
      BY <3>1, <3>2, <3>4, <3>5 DEF PairsOK, OneRowPerKey, OneHolderPerKey
    <3>7. ParentsOK'
      BY <3>3, <3>4 DEF ParentsOK
    <3> QED BY <3>6, <3>7
  <2> QED BY <2>1, <2>2
<1>15. ASSUME NEW a \in Attempts, Protect(a)
      PROVE  PairsOK' /\ ParentsOK'
  <2>1. Quiet
    BY <1>15 DEF Protect, Quiet
  <2> QED BY <2>1, QuietStep
<1>16. ASSUME NEW a \in Attempts, ProtectFails(a)
      PROVE  PairsOK' /\ ParentsOK'
  <2>1. Quiet
    BY <1>16 DEF ProtectFails, Quiet
  <2> QED BY <2>1, QuietStep
<1>17. ASSUME NEW a \in Attempts, EmergencyClose(a)
      PROVE  PairsOK' /\ ParentsOK'
  <2>1. Quiet
    BY <1>17 DEF EmergencyClose, Reduce, LotsOn, Quiet
  <2> QED BY <2>1, QuietStep
<1>18. ASSUME NEW a \in Attempts, EmergencyCloseUnfilled(a)
      PROVE  PairsOK' /\ ParentsOK'
  <2>1. Quiet
    BY <1>18 DEF EmergencyCloseUnfilled, Quiet
  <2> QED BY <2>1, QuietStep
<1>19. ASSUME NEW a \in Attempts, EmergencyCloseFails(a)
      PROVE  PairsOK' /\ ParentsOK'
  <2>1. Quiet
    BY <1>19 DEF EmergencyCloseFails, Reduce, LotsOn, Quiet
  <2> QED BY <2>1, QuietStep
<1>20. ASSUME NEW a \in Attempts, Commit(a)
      PROVE  PairsOK' /\ ParentsOK'
  <2>1. /\ pc[a] \in Flushed /\ pc'[a] = "done"
        /\ \A b \in Attempts \ {a} : pc'[b] = pc[b] /\ row'[b] = row[b]
        /\ UNCHANGED <<job, deleted, signal>>
    BY <1>20 DEF Commit
  <2>2. \A b \in Attempts : Key(b)' = Key(b)
    BY <2>1 DEF Key
  <2> HIDE DEF TypeOK, Key
  <2>3. PairsOK'
    BY <2>1, <2>2 DEF PairsOK, OneRowPerKey, OneHolderPerKey
  <2>4. ParentsOK'
    BY <2>1 DEF ParentsOK
  <2> QED BY <2>3, <2>4
<1>21. ASSUME NEW a \in Attempts, Crash(a)
      PROVE  PairsOK' /\ ParentsOK'
  <2>1. Quiet
    BY <1>21 DEF Crash, InFlight, Quiet
  <2> QED BY <2>1, QuietStep
<1>22. ASSUME NEW a \in Attempts, ExchangeClose(a)
      PROVE  PairsOK' /\ ParentsOK'
  <2>1. Quiet
    BY <1>22 DEF ExchangeClose, Quiet
  <2> QED BY <2>1, QuietStep
<1>23. ASSUME NEW a \in Attempts, SyncClose(a)
      PROVE  PairsOK' /\ ParentsOK'
  <2>1. /\ row[a] # "absent"
        /\ \A b \in Attempts \ {a} : row'[b] = row[b]
        /\ UNCHANGED <<job, pc, deleted, signal>>
    BY <1>23 DEF SyncClose
  <2>2. \A b \in Attempts : Key(b)' = Key(b)
    BY <2>1 DEF Key
  <2> HIDE DEF TypeOK, Key
  <2>3. PairsOK'
    BY <2>1, <2>2 DEF PairsOK, OneRowPerKey, OneHolderPerKey
  <2>4. ParentsOK'
    BY <2>1 DEF ParentsOK
  <2> QED BY <2>3, <2>4
<1>24. ASSUME NEW a \in Attempts, SyncCloseMisled(a)
      PROVE  PairsOK' /\ ParentsOK'
  <2>1. /\ row[a] # "absent"
        /\ \A b \in Attempts \ {a} : row'[b] = row[b]
        /\ UNCHANGED <<job, pc, deleted, signal>>
    BY <1>24 DEF SyncCloseMisled
  <2>2. \A b \in Attempts : Key(b)' = Key(b)
    BY <2>1 DEF Key
  <2> HIDE DEF TypeOK, Key
  <2>3. PairsOK'
    BY <2>1, <2>2 DEF PairsOK, OneRowPerKey, OneHolderPerKey
  <2>4. ParentsOK'
    BY <2>1 DEF ParentsOK
  <2> QED BY <2>3, <2>4
<1>25. ASSUME NEW s \in Signals, TimePasses(s)
      PROVE  PairsOK' /\ ParentsOK'
  <2>1. Quiet
    BY <1>25 DEF TimePasses, Quiet
  <2> QED BY <2>1, QuietStep
<1>26. ASSUME NEW s \in Signals, CancelSignal(s)
      PROVE  PairsOK' /\ ParentsOK'
  <2>1. Quiet
    BY <1>26 DEF CancelSignal, Quiet
  <2> QED BY <2>1, QuietStep
<1>27. ASSUME NEW s \in Signals, PurgeSignal(s)
      PROVE  PairsOK' /\ ParentsOK'
  <2>1. /\ \A b \in Attempts : row'[b] # "absent" => row'[b] = row[b] /\ ~(job[b].sig = s)
        /\ \A b \in Attempts : pc[b] \in Flushed => ~(job[b].sig = s)
        /\ UNCHANGED <<job, pc>>
    BY <1>27 DEF PurgeSignal, Cascade
  <2>2. \A b \in Attempts : Key(b)' = Key(b)
    BY <2>1 DEF Key
  <2>3. PairsOK'
    BY <2>1, <2>2 DEF PairsOK, OneRowPerKey, OneHolderPerKey
  <2>4. ParentsOK'
    BY <1>27, <2>1 DEF PurgeSignal, ParentsOK, Jobs
  <2> QED BY <2>3, <2>4
<1>28. ASSUME NEW t \in Strategies, DeleteStrategy(t)
      PROVE  PairsOK' /\ ParentsOK'
  <2>1. /\ \A b \in Attempts : row'[b] # "absent" => row'[b] = row[b] /\ ~(job[b].strat = t)
        /\ \A b \in Attempts : pc[b] \in Flushed => ~(job[b].strat = t)
        /\ UNCHANGED <<job, pc>>
    BY <1>28 DEF DeleteStrategy, Cascade
  <2>2. \A b \in Attempts : Key(b)' = Key(b)
    BY <2>1 DEF Key
  <2>3. PairsOK'
    BY <2>1, <2>2 DEF PairsOK, OneRowPerKey, OneHolderPerKey
  <2>4. ParentsOK'
    BY <1>28, <2>1 DEF DeleteStrategy, ParentsOK, Jobs
  <2> QED BY <2>3, <2>4
<1>29. ASSUME ExpireStale
      PROVE  PairsOK' /\ ParentsOK'
  <2>1. Quiet
    BY <1>29 DEF ExpireStale, Quiet
  <2> QED BY <2>1, QuietStep
<1>30. CASE UNCHANGED vars
  <2>1. Quiet
    BY <1>30 DEF vars, Quiet
  <2> QED BY <2>1, QuietStep
<1> QED
  BY <1>1, <1>2, <1>3, <1>4, <1>5, <1>6, <1>7, <1>8, <1>9, <1>10, <1>11,
     <1>12, <1>13, <1>14, <1>15, <1>16, <1>17, <1>18, <1>19, <1>20, <1>21,
     <1>22, <1>23, <1>24, <1>25, <1>26, <1>27, <1>28, <1>29,
     <1>30 DEF Next, Step

\* The inductive invariant holds in every reachable state.
THEOREM Invariance == Spec => []IInv
<1>1. IInv /\ [Next]_vars => IInv'
  BY TypeStep, TableStep DEF IInv
<1> QED BY <1>1, InitOK, PTL DEF Spec

\* The state stays well-formed whatever sessions overlap and fail.
THEOREM TypeCorrect == Spec => []TypeOK
<1>1. IInv => TypeOK
  BY DEF IInv
<1> QED BY <1>1, Invariance, PTL

\* The unique constraint of the executions table.
THEOREM RowsAreUnique == Spec => []OneRowPerKey
<1>1. IInv => OneRowPerKey
  BY DEF IInv, PairsOK
<1> QED BY <1>1, Invariance, PTL

\* A session that got its row inserted holds its pair alone until it commits.
THEOREM HoldersAreUnique == Spec => []OneHolderPerKey
<1>1. IInv => OneHolderPerKey
  BY DEF IInv, PairsOK
<1> QED BY <1>1, Invariance, PTL

-----------------------------------------------------------------------------
\* A position of Bybit or Binance on its way into a FILLED row, or in one, is
\* guarded or somebody was called.
ProtectionOK ==
    \A a \in Attempts :
        /\ row[a] = "FILLED" \/ (pc[a] = "commit" /\ draft[a] = "FILLED")
        /\ lot[a] = "open"
        /\ Venue(a) # "hyperliquid"
        => a \in guarded \union alarmed

\* The row of an attempt reaches "commit" FILLED through Protect, through a
\* failed emergency close, or on Hyperliquid; no other step reopens its lot.
LEMMA ProtectionStep == IInv /\ ProtectionOK /\ [Next]_vars => ProtectionOK'
<1> SUFFICES ASSUME TypeOK, SessionOK, ProtectionOK, [Next]_vars
             PROVE  ProtectionOK'
  BY DEF IInv
<1>0. UNCHANGED job => \A b \in Attempts : Venue(b)' = Venue(b)
  BY DEF Venue
<1> USE DEF TypeOK, SessionOK, ProtectionOK, PCs, session, exchange, catalog, history, Befalls, Goto, Leave
<1> HIDE DEF Venue
<1>1. ASSUME NEW a \in Attempts, Begin(a)
      PROVE  ProtectionOK'
  BY <1>1, <1>0 DEF Begin
<1>2. ASSUME NEW a \in Attempts, PassGate(a)
      PROVE  ProtectionOK'
  BY <1>2, <1>0 DEF PassGate
<1>3. ASSUME NEW a \in Attempts, Skip(a)
      PROVE  ProtectionOK'
  BY <1>3, <1>0 DEF Skip
<1>4. ASSUME NEW a \in Attempts, SkipOverdue(a)
      PROVE  ProtectionOK'
  BY <1>4, <1>0 DEF SkipOverdue
<1>5. ASSUME NEW a \in Attempts, CheckOnce(a)
      PROVE  ProtectionOK'
  BY <1>5, <1>0 DEF CheckOnce
<1>6. ASSUME NEW a \in Attempts, RateLimited(a)
      PROVE  ProtectionOK'
  BY <1>6, <1>0 DEF RateLimited
<1>7. ASSUME NEW a \in Attempts, CheckSymbol(a)
      PROVE  ProtectionOK'
  BY <1>7, <1>0 DEF CheckSymbol
<1>8. ASSUME NEW a \in Attempts, Admit(a)
      PROVE  ProtectionOK'
  BY <1>8, <1>0 DEF Admit
<1>9. ASSUME NEW a \in Attempts, Reject(a)
      PROVE  ProtectionOK'
  BY <1>9, <1>0 DEF Reject
<1>10. ASSUME NEW a \in Attempts, OrderFills(a)
      PROVE  ProtectionOK'
  BY <1>10, <1>0 DEF OrderFills, AwaitsOrder
<1>11. ASSUME NEW a \in Attempts, OrderRefused(a)
      PROVE  ProtectionOK'
  BY <1>11, <1>0 DEF OrderRefused, AwaitsOrder
<1>12. ASSUME NEW a \in Attempts, OrderUnanswered(a)
      PROVE  ProtectionOK'
  BY <1>12, <1>0 DEF OrderUnanswered, AwaitsOrder
<1>13. ASSUME NEW a \in Attempts, OrderUnfilled(a)
      PROVE  ProtectionOK'
  BY <1>13, <1>0 DEF OrderUnfilled, AwaitsOrder
<1>14. ASSUME NEW a \in Attempts, Flush(a)
      PROVE  ProtectionOK'
  BY <1>14, <1>0 DEF Flush
<1>15. ASSUME NEW a \in Attempts, Protect(a)
      PROVE  ProtectionOK'
  BY <1>15, <1>0 DEF Protect
<1>16. ASSUME NEW a \in Attempts, ProtectFails(a)
      PROVE  ProtectionOK'
  BY <1>16, <1>0 DEF ProtectFails
<1>17. ASSUME NEW a \in Attempts, EmergencyClose(a)
      PROVE  ProtectionOK'
  BY <1>17, <1>0 DEF EmergencyClose, Reduce, LotsOn
<1>18. ASSUME NEW a \in Attempts, EmergencyCloseUnfilled(a)
      PROVE  ProtectionOK'
  BY <1>18, <1>0 DEF EmergencyCloseUnfilled
<1>19. ASSUME NEW a \in Attempts, EmergencyCloseFails(a)
      PROVE  ProtectionOK'
  BY <1>19, <1>0 DEF EmergencyCloseFails, Reduce, LotsOn
<1>20. ASSUME NEW a \in Attempts, Commit(a)
      PROVE  ProtectionOK'
  BY <1>20, <1>0 DEF Commit
<1>21. ASSUME NEW a \in Attempts, Crash(a)
      PROVE  ProtectionOK'
  BY <1>21, <1>0 DEF Crash, InFlight
<1>22. ASSUME NEW a \in Attempts, ExchangeClose(a)
      PROVE  ProtectionOK'
  BY <1>22, <1>0 DEF ExchangeClose
<1>23. ASSUME NEW a \in Attempts, SyncClose(a)
      PROVE  ProtectionOK'
  BY <1>23, <1>0 DEF SyncClose
<1>24. ASSUME NEW a \in Attempts, SyncCloseMisled(a)
      PROVE  ProtectionOK'
  BY <1>24, <1>0 DEF SyncCloseMisled
<1>25. ASSUME NEW s \in Signals, TimePasses(s)
      PROVE  ProtectionOK'
  BY <1>25, <1>0 DEF TimePasses
<1>26. ASSUME NEW s \in Signals, CancelSignal(s)
      PROVE  ProtectionOK'
  BY <1>26, <1>0 DEF CancelSignal
<1>27. ASSUME NEW s \in Signals, PurgeSignal(s)
      PROVE  ProtectionOK'
  BY <1>27, <1>0 DEF PurgeSignal, Cascade
<1>28. ASSUME NEW t \in Strategies, DeleteStrategy(t)
      PROVE  ProtectionOK'
  BY <1>28, <1>0 DEF DeleteStrategy, Cascade
<1>29. ASSUME ExpireStale
      PROVE  ProtectionOK'
  BY <1>29, <1>0 DEF ExpireStale
<1>30. CASE UNCHANGED vars
  BY <1>30, <1>0 DEF vars
<1> QED
  BY <1>1, <1>2, <1>3, <1>4, <1>5, <1>6, <1>7, <1>8, <1>9, <1>10, <1>11,
     <1>12, <1>13, <1>14, <1>15, <1>16, <1>17, <1>18, <1>19, <1>20, <1>21,
     <1>22, <1>23, <1>24, <1>25, <1>26, <1>27, <1>28, <1>29,
     <1>30 DEF Next, Step

\* No FILLED row with an open position on Bybit or Binance is unprotected, with
\* every fault, crashes included.
THEOREM PositionsAreProtected == Spec => []ProtectedOrAlarmed
<1>1. Init => ProtectionOK
  BY DEF Init, ProtectionOK
<1>2. ProtectionOK => ProtectedOrAlarmed
  BY DEF ProtectionOK, ProtectedOrAlarmed
<1> QED BY <1>1, <1>2, Invariance, ProtectionStep, PTL DEF Spec

-----------------------------------------------------------------------------
(***************************************************************************)
(* The executions table implements ExecutionLedger: a commit records a     *)
(* row, a close closes one, a deletion retires pairs, and every other step *)
(* leaves the table alone.                                                 *)
(***************************************************************************)

\* A step that neither writes a row nor deletes a parent.
StillTable ==
    /\ job' = job
    /\ row' = row
    /\ deleted' = deleted
    /\ \A s \in Signals : (signal'[s] = "purged") <=> (signal[s] = "purged")

LEMMA StillStutters == StillTable => UNCHANGED <<Table, Retired>>
<1> SUFFICES ASSUME StillTable PROVE UNCHANGED <<Table, Retired>>
  OBVIOUS
<1>1. Table' = Table
  BY DEF StillTable, Table, CommittedRow, Key
<1>2. Retired' = Retired
  BY DEF StillTable, Retired, Pairs
<1> QED BY <1>1, <1>2

LEMMA KeyInPairs == ASSUME TypeOK, NEW a \in Attempts PROVE Key(a) \in Pairs
BY DEF TypeOK, Jobs, Key, Pairs

LEMMA InitRefines == Init => Ledger!Init
<1> SUFFICES ASSUME Init PROVE Ledger!Init
  OBVIOUS
<1>1. Table = {}
  BY DEF Init, Table
<1>2. Retired = {}
  BY DEF Init, Retired, Pairs
<1> QED BY <1>1, <1>2 DEF Ledger!Init, Table, Retired

\* A commit records the outcome of a pair that had no row and has its parents.
LEMMA CommitRecords ==
    ASSUME IInv, NEW a \in Attempts, Commit(a)
    PROVE  \E k \in Pairs, st \in {"FAILED", "FILLED"} : Ledger!Record(k, st)
<1> USE DEF IInv
<1>1. /\ pc[a] \in Flushed
      /\ draft[a] \in {"FAILED", "FILLED"}
      /\ row' = [row EXCEPT ![a] = draft[a]]
      /\ UNCHANGED <<job, deleted, signal>>
  BY DEF Commit, Flushed, SessionOK, catalog
<1>2. \A b \in Attempts : Key(b) = Key(a) => row[b] = "absent"
  BY <1>1 DEF PairsOK, OneHolderPerKey
<1>3. Key(a) \notin Retired
  BY <1>1 DEF ParentsOK, Retired, Key
<1>4. ~(\E r \in Table : r.key = Key(a))
  BY <1>2 DEF Table, CommittedRow
<1>5. \A b \in Attempts : Key(b)' = Key(b)
  BY <1>1 DEF Key
<1>6. Table' = Table \union {[key |-> Key(a), status |-> draft[a]]}
  <2>1. /\ row'[a] = draft[a] /\ row[a] = "absent"
        /\ \A b \in Attempts \ {a} : row'[b] = row[b]
    BY <1>1, <1>2 DEF TypeOK
  <2>2. draft[a] # "absent"
    BY <1>1
  <2> HIDE DEF IInv
  <2> QED BY <1>5, <2>1, <2>2 DEF Table, CommittedRow
<1>7. Retired' = Retired
  BY <1>1 DEF Retired
<1>8. ASSUME NEW k \in Pairs, NEW st \in {"FAILED", "FILLED"},
             k = Key(a), st = draft[a]
      PROVE  Ledger!Record(k, st)
  <2> HIDE DEF IInv
  <2> QED BY <1>3, <1>4, <1>6, <1>7, <1>8
          DEF Ledger!Record, Ledger!HasRow, Table, Retired
<1>9. Key(a) \in Pairs
  BY KeyInPairs
<1> QED BY <1>1, <1>8, <1>9

\* Writing CLOSED over FILLED closes the only row of its pair.
LEMMA SyncCloses ==
    ASSUME IInv, NEW a \in Attempts, SyncClose(a) \/ SyncCloseMisled(a)
    PROVE  \E K \in SUBSET Pairs : Ledger!Close(K)
<1> USE DEF IInv
<1>1. /\ row[a] = "FILLED"
      /\ row' = [row EXCEPT ![a] = "CLOSED"]
      /\ UNCHANGED <<job, deleted, signal>>
  BY DEF SyncClose, SyncCloseMisled, catalog
<1>2. \A b \in Attempts : Key(b)' = Key(b)
  BY <1>1 DEF Key
<1> DEFINE after(r) == IF r.key \in {Key(a)} /\ r.status = "FILLED"
                         THEN [r EXCEPT !.status = "CLOSED"] ELSE r
<1>3. \A b \in Attempts : row[b] # "absent" =>
        [key |-> Key(b)', status |-> row'[b]] = after([key |-> Key(b), status |-> row[b]])
  <2> SUFFICES ASSUME NEW b \in Attempts, row[b] # "absent"
               PROVE  [key |-> Key(b)', status |-> row'[b]]
                        = after([key |-> Key(b), status |-> row[b]])
    OBVIOUS
  <2>1. CASE b = a
    <3>1. row'[b] = "CLOSED" /\ row[b] = "FILLED"
      BY <1>1, <2>1 DEF TypeOK
    <3> QED BY <1>2, <2>1, <3>1
  <2>2. CASE b # a
    <3>1. Key(b) # Key(a)
      BY <1>1, <2>2 DEF PairsOK, OneRowPerKey
    <3>2. row'[b] = row[b]
      BY <1>1, <2>2 DEF TypeOK
    <3> QED BY <1>2, <3>1, <3>2
  <2> QED BY <2>1, <2>2
<1>4. \A b \in Attempts : (row'[b] # "absent") <=> (row[b] # "absent")
  BY <1>1 DEF TypeOK
<1> HIDE DEF after, IInv
<1>5. Table' = {after(r) : r \in Table}
  BY <1>3, <1>4 DEF Table, CommittedRow
<1>6. Retired' = Retired
  BY <1>1 DEF Retired
<1>7. ASSUME NEW K \in SUBSET Pairs, K = {Key(a)}
      PROVE  Ledger!Close(K)
  BY <1>5, <1>6, <1>7 DEF Ledger!Close, Table, Retired, after
<1>8. {Key(a)} \in SUBSET Pairs
  BY KeyInPairs DEF IInv
<1> QED BY <1>7, <1>8

\* Deleting a parent retires the pairs that have it.
LEMMA DeletionRetires ==
    ASSUME IInv, NEW K \in SUBSET Pairs, UNCHANGED job,
           \A a \in Attempts : row'[a] = IF Key(a) \in K THEN "absent" ELSE row[a],
           Retired' = Retired \union K
    PROVE  Ledger!Retire(K)
<1>1. \A b \in Attempts : Key(b)' = Key(b)
  BY DEF Key
<1>2. Table' = {r \in Table : r.key \notin K}
  BY <1>1 DEF Table, CommittedRow
<1> QED BY <1>2 DEF Ledger!Retire, Table, Retired

\* Every step is a step of the ledger or leaves the ledger alone.
LEMMA StepRefines == IInv /\ [Next]_vars => [Ledger!Next]_(Ledger!vars)
<1> SUFFICES ASSUME IInv, [Next]_vars PROVE [Ledger!Next]_(Ledger!vars)
  OBVIOUS
<1>0. ASSUME StillTable PROVE UNCHANGED Ledger!vars
  BY <1>0, StillStutters DEF Ledger!vars, Table, Retired
<1> USE DEF session, exchange, catalog, history, Befalls
<1>1. ASSUME NEW a \in Attempts, Begin(a)
      PROVE  [Ledger!Next]_(Ledger!vars)
  <2>1. StillTable
    BY <1>1 DEF Begin, StillTable, IInv, TypeOK
  <2> QED BY <2>1, <1>0
<1>2. ASSUME NEW a \in Attempts, PassGate(a)
      PROVE  [Ledger!Next]_(Ledger!vars)
  <2>1. StillTable
    BY <1>2 DEF PassGate, StillTable, IInv, TypeOK
  <2> QED BY <2>1, <1>0
<1>3. ASSUME NEW a \in Attempts, Skip(a)
      PROVE  [Ledger!Next]_(Ledger!vars)
  <2>1. StillTable
    BY <1>3 DEF Skip, StillTable, IInv, TypeOK
  <2> QED BY <2>1, <1>0
<1>4. ASSUME NEW a \in Attempts, SkipOverdue(a)
      PROVE  [Ledger!Next]_(Ledger!vars)
  <2>1. StillTable
    BY <1>4 DEF SkipOverdue, StillTable, IInv, TypeOK
  <2> QED BY <2>1, <1>0
<1>5. ASSUME NEW a \in Attempts, CheckOnce(a)
      PROVE  [Ledger!Next]_(Ledger!vars)
  <2>1. StillTable
    BY <1>5 DEF CheckOnce, StillTable, IInv, TypeOK
  <2> QED BY <2>1, <1>0
<1>6. ASSUME NEW a \in Attempts, RateLimited(a)
      PROVE  [Ledger!Next]_(Ledger!vars)
  <2>1. StillTable
    BY <1>6 DEF RateLimited, StillTable, IInv, TypeOK
  <2> QED BY <2>1, <1>0
<1>7. ASSUME NEW a \in Attempts, CheckSymbol(a)
      PROVE  [Ledger!Next]_(Ledger!vars)
  <2>1. StillTable
    BY <1>7 DEF CheckSymbol, StillTable, IInv, TypeOK
  <2> QED BY <2>1, <1>0
<1>8. ASSUME NEW a \in Attempts, Admit(a)
      PROVE  [Ledger!Next]_(Ledger!vars)
  <2>1. StillTable
    BY <1>8 DEF Admit, StillTable, IInv, TypeOK
  <2> QED BY <2>1, <1>0
<1>9. ASSUME NEW a \in Attempts, Reject(a)
      PROVE  [Ledger!Next]_(Ledger!vars)
  <2>1. StillTable
    BY <1>9 DEF Reject, StillTable, IInv, TypeOK
  <2> QED BY <2>1, <1>0
<1>10. ASSUME NEW a \in Attempts, OrderFills(a)
      PROVE  [Ledger!Next]_(Ledger!vars)
  <2>1. StillTable
    BY <1>10 DEF OrderFills, AwaitsOrder, StillTable, IInv, TypeOK
  <2> QED BY <2>1, <1>0
<1>11. ASSUME NEW a \in Attempts, OrderRefused(a)
      PROVE  [Ledger!Next]_(Ledger!vars)
  <2>1. StillTable
    BY <1>11 DEF OrderRefused, AwaitsOrder, StillTable, IInv, TypeOK
  <2> QED BY <2>1, <1>0
<1>12. ASSUME NEW a \in Attempts, OrderUnanswered(a)
      PROVE  [Ledger!Next]_(Ledger!vars)
  <2>1. StillTable
    BY <1>12 DEF OrderUnanswered, AwaitsOrder, StillTable, IInv, TypeOK
  <2> QED BY <2>1, <1>0
<1>13. ASSUME NEW a \in Attempts, OrderUnfilled(a)
      PROVE  [Ledger!Next]_(Ledger!vars)
  <2>1. StillTable
    BY <1>13 DEF OrderUnfilled, AwaitsOrder, StillTable, IInv, TypeOK
  <2> QED BY <2>1, <1>0
<1>14. ASSUME NEW a \in Attempts, Flush(a)
      PROVE  [Ledger!Next]_(Ledger!vars)
  <2>1. StillTable
    BY <1>14 DEF Flush, StillTable, IInv, TypeOK
  <2> QED BY <2>1, <1>0
<1>15. ASSUME NEW a \in Attempts, Protect(a)
      PROVE  [Ledger!Next]_(Ledger!vars)
  <2>1. StillTable
    BY <1>15 DEF Protect, StillTable, IInv, TypeOK
  <2> QED BY <2>1, <1>0
<1>16. ASSUME NEW a \in Attempts, ProtectFails(a)
      PROVE  [Ledger!Next]_(Ledger!vars)
  <2>1. StillTable
    BY <1>16 DEF ProtectFails, StillTable, IInv, TypeOK
  <2> QED BY <2>1, <1>0
<1>17. ASSUME NEW a \in Attempts, EmergencyClose(a)
      PROVE  [Ledger!Next]_(Ledger!vars)
  <2>1. StillTable
    BY <1>17 DEF EmergencyClose, Reduce, LotsOn, StillTable, IInv, TypeOK
  <2> QED BY <2>1, <1>0
<1>18. ASSUME NEW a \in Attempts, EmergencyCloseUnfilled(a)
      PROVE  [Ledger!Next]_(Ledger!vars)
  <2>1. StillTable
    BY <1>18 DEF EmergencyCloseUnfilled, StillTable, IInv, TypeOK
  <2> QED BY <2>1, <1>0
<1>19. ASSUME NEW a \in Attempts, EmergencyCloseFails(a)
      PROVE  [Ledger!Next]_(Ledger!vars)
  <2>1. StillTable
    BY <1>19 DEF EmergencyCloseFails, Reduce, LotsOn, StillTable, IInv, TypeOK
  <2> QED BY <2>1, <1>0
<1>20. ASSUME NEW a \in Attempts, Commit(a)
      PROVE  [Ledger!Next]_(Ledger!vars)
  BY <1>20, CommitRecords DEF Ledger!Next
<1>21. ASSUME NEW a \in Attempts, Crash(a)
      PROVE  [Ledger!Next]_(Ledger!vars)
  <2>1. StillTable
    BY <1>21 DEF Crash, InFlight, StillTable, IInv, TypeOK
  <2> QED BY <2>1, <1>0
<1>22. ASSUME NEW a \in Attempts, ExchangeClose(a)
      PROVE  [Ledger!Next]_(Ledger!vars)
  <2>1. StillTable
    BY <1>22 DEF ExchangeClose, StillTable, IInv, TypeOK
  <2> QED BY <2>1, <1>0
<1>23. ASSUME NEW a \in Attempts, SyncClose(a)
      PROVE  [Ledger!Next]_(Ledger!vars)
  BY <1>23, SyncCloses DEF Ledger!Next
<1>24. ASSUME NEW a \in Attempts, SyncCloseMisled(a)
      PROVE  [Ledger!Next]_(Ledger!vars)
  BY <1>24, SyncCloses DEF Ledger!Next
<1>25. ASSUME NEW s \in Signals, TimePasses(s)
      PROVE  [Ledger!Next]_(Ledger!vars)
  <2>1. StillTable
    BY <1>25 DEF TimePasses, StillTable, IInv, TypeOK
  <2> QED BY <2>1, <1>0
<1>26. ASSUME NEW s \in Signals, CancelSignal(s)
      PROVE  [Ledger!Next]_(Ledger!vars)
  <2>1. StillTable
    BY <1>26 DEF CancelSignal, StillTable, IInv, TypeOK
  <2> QED BY <2>1, <1>0
<1>27. ASSUME NEW s \in Signals, PurgeSignal(s)
      PROVE  [Ledger!Next]_(Ledger!vars)
  <2> DEFINE K == {k \in Pairs : k[1] = s}
  <2>1. \A b \in Attempts : (Key(b) \in K) <=> (job[b].sig = s)
    BY DEF IInv, TypeOK, Jobs, Key, Pairs
  <2>2. /\ UNCHANGED job
        /\ \A b \in Attempts : row'[b] = IF Key(b) \in K THEN "absent" ELSE row[b]
    BY <1>27, <2>1 DEF PurgeSignal, Cascade
  <2>3. Retired' = Retired \union K
    <3>1. ASSUME NEW k \in Pairs
          PROVE  k \in Retired' <=> k \in Retired \/ k[1] = s
      <4>1. k[1] \in Signals /\ k[2] \in Strategies
        BY DEF Pairs
      <4>2. signal \in [Signals -> {"NEW", "CANCELLED", "EXPIRED", "purged"}]
        BY DEF IInv, TypeOK
      <4> QED BY <1>27, <4>1, <4>2 DEF PurgeSignal, Retired
    <3> QED BY <3>1 DEF Retired
  <2>4. Ledger!Retire(K)
    <3> HIDE DEF K
    <3>1. K \in SUBSET Pairs
      BY DEF K
    <3> QED BY <2>2, <2>3, <3>1, DeletionRetires
  <2> QED BY <2>4 DEF Ledger!Next
<1>28. ASSUME NEW t \in Strategies, DeleteStrategy(t)
      PROVE  [Ledger!Next]_(Ledger!vars)
  <2> DEFINE K == {k \in Pairs : k[2] = t}
  <2>1. \A b \in Attempts : (Key(b) \in K) <=> (job[b].strat = t)
    BY DEF IInv, TypeOK, Jobs, Key, Pairs
  <2>2. /\ UNCHANGED job
        /\ \A b \in Attempts : row'[b] = IF Key(b) \in K THEN "absent" ELSE row[b]
    BY <1>28, <2>1 DEF DeleteStrategy, Cascade
  <2>3. Retired' = Retired \union K
    <3>1. ASSUME NEW k \in Pairs
          PROVE  k \in Retired' <=> k \in Retired \/ k[2] = t
      <4>1. k[1] \in Signals /\ k[2] \in Strategies
        BY DEF Pairs
      <4>2. signal \in [Signals -> {"NEW", "CANCELLED", "EXPIRED", "purged"}]
        BY DEF IInv, TypeOK
      <4> QED BY <1>28, <4>1, <4>2 DEF DeleteStrategy, Retired
    <3> QED BY <3>1 DEF Retired
  <2>4. Ledger!Retire(K)
    <3> HIDE DEF K
    <3>1. K \in SUBSET Pairs
      BY DEF K
    <3> QED BY <2>2, <2>3, <3>1, DeletionRetires
  <2> QED BY <2>4 DEF Ledger!Next
<1>29. ASSUME ExpireStale
      PROVE  [Ledger!Next]_(Ledger!vars)
  <2>1. StillTable
    BY <1>29 DEF ExpireStale, StillTable, IInv, TypeOK
  <2> QED BY <2>1, <1>0
<1>30. CASE UNCHANGED vars
  <2>1. StillTable
    BY <1>30 DEF vars, StillTable
  <2> QED BY <2>1, <1>0
<1> QED
  BY <1>1, <1>2, <1>3, <1>4, <1>5, <1>6, <1>7, <1>8, <1>9, <1>10, <1>11,
     <1>12, <1>13, <1>14, <1>15, <1>16, <1>17, <1>18, <1>19, <1>20, <1>21,
     <1>22, <1>23, <1>24, <1>25, <1>26, <1>27, <1>28, <1>29,
     <1>30 DEF Next, Step

\* The executions table behaves as ExecutionLedger promises, whatever sessions
\* overlap and fail.
THEOREM RefinesLedger == Spec => ImplementsLedger
<1> QED
  BY InitRefines, StepRefines, Invariance, PTL DEF Spec, ImplementsLedger, Ledger!Spec
-----------------------------------------------------------------------------
(***************************************************************************)
(* Any number of sessions at once.  What a session read from the table     *)
(* stays true until it commits, except for what sessions that overlapped   *)
(* it have committed: deletions and closes only take rows away.            *)
(***************************************************************************)

\* The awaits after which a check of execute_signal has been passed.
PastAdmit == {"order", "flush", "protect", "close", "commit"}
PastSymbol == PastAdmit \union {"admit"}
PastOnce == PastSymbol \union {"symbol"}

\* Sessions open together have met, each the other.
MetOK ==
    /\ \A a, b \in InFlight : a # b => <<a, b>> \in met
    /\ \A a, b \in Attempts : <<a, b>> \in met => <<b, a>> \in met

\* A session has a row of its own between its admission and its end; the row
\* counts against the limit of the strategy unless it has failed.
Counted(a) == draft[a] \in {"PENDING", "FILLED"}

DraftsOK ==
    \A a \in Attempts :
        /\ pc[a] \in {"idle", "done"} => draft[a] = "none"
        /\ pc[a] = "order" => draft[a] = "PENDING"
        /\ Counted(a) => pc[a] \in PastAdmit

\* First idempotency layer, still true but for sessions met.
PairClear ==
    \A a, b \in Attempts :
        pc[a] \in PastOnce /\ Key(b) = Key(a) /\ row[b] # "absent" => <<a, b>> \in met

\* Second idempotency layer, still true but for sessions met.
SlotClear ==
    \A a, b \in Attempts :
        pc[a] \in PastSymbol /\ Slot(b) = Slot(a) /\ row[b] = "FILLED" => <<a, b>> \in met

\* The open executions of an attempt's strategy that it has not met, and that
\* have not met each other.
Unmet(a, A) ==
    /\ A \subseteq OpenRowsOf(job[a].strat)
    /\ Apart(A)
    /\ \A b \in A : <<a, b>> \notin met

\* There is room beside them for the row of an admitted session.
RoomLeft ==
    \A a \in Attempts : Counted(a) =>
        \A A \in SUBSET Attempts : Unmet(a, A) => Cardinality(A) < MaxPositions

OverlapInv ==
    /\ MetOK
    /\ DraftsOK
    /\ PairClear
    /\ SlotClear
    /\ RoomLeft
    /\ NoDuplicatePositions
    /\ MaxPositionsRespected

-----------------------------------------------------------------------------
(***************************************************************************)
(* The four kinds of step, as far as the table and its limits go.          *)
(***************************************************************************)

Alone(a) == \A b \in Attempts \ {a} : pc'[b] = pc[b] /\ draft'[b] = draft[b]

\* A session starts, beside those that are open.
Starts(a) ==
    /\ pc[a] = "idle" /\ pc'[a] \in {"gate", "once"} /\ draft'[a] = draft[a]
    /\ Alone(a)
    /\ met' = met \union ({a} \X InFlight) \union (InFlight \X {a})
    /\ UNCHANGED <<job, row>>

\* A session moves on without a commit; what it passes, it has checked.
Proceeds(a) ==
    /\ a \in InFlight
    /\ pc'[a] # "idle"
    /\ Alone(a)
    /\ UNCHANGED <<job, row, met>>
    /\ pc'[a] = "done" => draft'[a] = "none"
    /\ pc'[a] = "order" => draft'[a] = "PENDING"
    /\ Counted(a)' => pc'[a] \in PastAdmit
    /\ pc'[a] \in PastOnce => pc[a] \in PastOnce \/ RowsOf(Key(a)) = {}
    /\ pc'[a] \in PastSymbol => pc[a] \in PastSymbol \/ OpenRowsOn(Slot(a)) = {}
    /\ Counted(a)' => \/ Counted(a)
                      \/ Cardinality(OpenRowsOf(job[a].strat)) < MaxPositions

\* A session ends with its row in the table.
Commits(a) ==
    /\ pc[a] = "commit"
    /\ pc'[a] = "done" /\ draft'[a] = "none"
    /\ Alone(a)
    /\ row' = [row EXCEPT ![a] = draft[a]]
    /\ UNCHANGED <<job, met>>

\* Rows are closed or deleted; every session stays where it is.
Shrinks ==
    /\ UNCHANGED <<job, pc, draft, met>>
    /\ \A a \in Attempts :
         row'[a] = row[a] \/ (row[a] # "absent" /\ row'[a] \in {"absent", "CLOSED"})

Kinds ==
    \/ \E a \in Attempts : Starts(a) \/ Proceeds(a) \/ Commits(a)
    \/ Shrinks

\* Every step is of one of these kinds.
LEMMA KindOfStep ==
    ASSUME IInv, DraftsOK, [Next]_vars
    PROVE  Kinds
<1> USE DEF TypeOK, IInv, SessionOK, session, exchange, catalog, history, Befalls, Goto, Leave,
            Alone, Counted, InFlight, DraftsOK, PastOnce, PastSymbol, PastAdmit
<1> HIDE DEF RowsOf, OpenRowsOn, OpenRowsOf
<1>1. ASSUME NEW a \in Attempts, Begin(a)
      PROVE  Kinds
  <2>1. Starts(a)
    BY <1>1 DEF Begin, Starts
  <2> QED BY <2>1 DEF Kinds
<1>2. ASSUME NEW a \in Attempts, PassGate(a)
      PROVE  Kinds
  <2>1. Proceeds(a)
    BY <1>2 DEF PassGate, Proceeds
  <2> QED BY <2>1 DEF Kinds
<1>3. ASSUME NEW a \in Attempts, Skip(a)
      PROVE  Kinds
  <2>1. Proceeds(a)
    BY <1>3 DEF Skip, Proceeds
  <2> QED BY <2>1 DEF Kinds
<1>4. ASSUME NEW a \in Attempts, SkipOverdue(a)
      PROVE  Kinds
  <2>1. Proceeds(a)
    BY <1>4 DEF SkipOverdue, Proceeds
  <2> QED BY <2>1 DEF Kinds
<1>5. ASSUME NEW a \in Attempts, CheckOnce(a)
      PROVE  Kinds
  <2>1. Proceeds(a)
    BY <1>5 DEF CheckOnce, Proceeds
  <2> QED BY <2>1 DEF Kinds
<1>6. ASSUME NEW a \in Attempts, RateLimited(a)
      PROVE  Kinds
  <2>1. Proceeds(a)
    BY <1>6 DEF RateLimited, Proceeds
  <2> QED BY <2>1 DEF Kinds
<1>7. ASSUME NEW a \in Attempts, CheckSymbol(a)
      PROVE  Kinds
  <2>1. Proceeds(a)
    BY <1>7 DEF CheckSymbol, Proceeds
  <2> QED BY <2>1 DEF Kinds
<1>8. ASSUME NEW a \in Attempts, Admit(a)
      PROVE  Kinds
  <2>1. Proceeds(a)
    BY <1>8 DEF Admit, Proceeds
  <2> QED BY <2>1 DEF Kinds
<1>9. ASSUME NEW a \in Attempts, Reject(a)
      PROVE  Kinds
  <2>1. Proceeds(a)
    BY <1>9 DEF Reject, Proceeds
  <2> QED BY <2>1 DEF Kinds
<1>10. ASSUME NEW a \in Attempts, OrderFills(a)
      PROVE  Kinds
  <2>1. Proceeds(a)
    BY <1>10 DEF OrderFills, AwaitsOrder, Proceeds
  <2> QED BY <2>1 DEF Kinds
<1>11. ASSUME NEW a \in Attempts, OrderRefused(a)
      PROVE  Kinds
  <2>1. Proceeds(a)
    BY <1>11 DEF OrderRefused, AwaitsOrder, Proceeds
  <2> QED BY <2>1 DEF Kinds
<1>12. ASSUME NEW a \in Attempts, OrderUnanswered(a)
      PROVE  Kinds
  <2>1. Proceeds(a)
    BY <1>12 DEF OrderUnanswered, AwaitsOrder, Proceeds
  <2> QED BY <2>1 DEF Kinds
<1>13. ASSUME NEW a \in Attempts, OrderUnfilled(a)
      PROVE  Kinds
  <2>1. Proceeds(a)
    BY <1>13 DEF OrderUnfilled, AwaitsOrder, Proceeds
  <2> QED BY <2>1 DEF Kinds
<1>14. ASSUME NEW a \in Attempts, Flush(a)
      PROVE  Kinds
  <2>1. Proceeds(a)
    BY <1>14 DEF Flush, Proceeds
  <2> QED BY <2>1 DEF Kinds
<1>15. ASSUME NEW a \in Attempts, Protect(a)
      PROVE  Kinds
  <2>1. Proceeds(a)
    BY <1>15 DEF Protect, Proceeds
  <2> QED BY <2>1 DEF Kinds
<1>16. ASSUME NEW a \in Attempts, ProtectFails(a)
      PROVE  Kinds
  <2>1. Proceeds(a)
    BY <1>16 DEF ProtectFails, Proceeds
  <2> QED BY <2>1 DEF Kinds
<1>17. ASSUME NEW a \in Attempts, EmergencyClose(a)
      PROVE  Kinds
  <2>1. Proceeds(a)
    BY <1>17 DEF EmergencyClose, Reduce, LotsOn, Proceeds
  <2> QED BY <2>1 DEF Kinds
<1>18. ASSUME NEW a \in Attempts, EmergencyCloseUnfilled(a)
      PROVE  Kinds
  <2>1. Proceeds(a)
    BY <1>18 DEF EmergencyCloseUnfilled, Proceeds
  <2> QED BY <2>1 DEF Kinds
<1>19. ASSUME NEW a \in Attempts, EmergencyCloseFails(a)
      PROVE  Kinds
  <2>1. Proceeds(a)
    BY <1>19 DEF EmergencyCloseFails, Reduce, LotsOn, Proceeds
  <2> QED BY <2>1 DEF Kinds
<1>20. ASSUME NEW a \in Attempts, Commit(a)
      PROVE  Kinds
  <2>1. Commits(a)
    BY <1>20 DEF Commit, Commits
  <2> QED BY <2>1 DEF Kinds
<1>21. ASSUME NEW a \in Attempts, Crash(a)
      PROVE  Kinds
  <2>1. Proceeds(a)
    BY <1>21 DEF Crash, Proceeds
  <2> QED BY <2>1 DEF Kinds
<1>22. ASSUME NEW a \in Attempts, ExchangeClose(a)
      PROVE  Kinds
  <2>1. Shrinks
    BY <1>22 DEF ExchangeClose, Shrinks
  <2> QED BY <2>1 DEF Kinds
<1>23. ASSUME NEW a \in Attempts, SyncClose(a)
      PROVE  Kinds
  <2>1. Shrinks
    BY <1>23 DEF SyncClose, Shrinks
  <2> QED BY <2>1 DEF Kinds
<1>24. ASSUME NEW a \in Attempts, SyncCloseMisled(a)
      PROVE  Kinds
  <2>1. Shrinks
    BY <1>24 DEF SyncCloseMisled, Shrinks
  <2> QED BY <2>1 DEF Kinds
<1>25. ASSUME NEW s \in Signals, TimePasses(s)
      PROVE  Kinds
  <2>1. Shrinks
    BY <1>25 DEF TimePasses, Shrinks
  <2> QED BY <2>1 DEF Kinds
<1>26. ASSUME NEW s \in Signals, CancelSignal(s)
      PROVE  Kinds
  <2>1. Shrinks
    BY <1>26 DEF CancelSignal, Shrinks
  <2> QED BY <2>1 DEF Kinds
<1>27. ASSUME NEW s \in Signals, PurgeSignal(s)
      PROVE  Kinds
  <2>1. Shrinks
    BY <1>27 DEF PurgeSignal, Cascade, Shrinks
  <2> QED BY <2>1 DEF Kinds
<1>28. ASSUME NEW t \in Strategies, DeleteStrategy(t)
      PROVE  Kinds
  <2>1. Shrinks
    BY <1>28 DEF DeleteStrategy, Cascade, Shrinks
  <2> QED BY <2>1 DEF Kinds
<1>29. ASSUME ExpireStale
      PROVE  Kinds
  <2>1. Shrinks
    BY <1>29 DEF ExpireStale, Shrinks
  <2> QED BY <2>1 DEF Kinds
<1>30. CASE UNCHANGED vars
  <2>1. Shrinks
    BY <1>30 DEF vars, Shrinks
  <2> QED BY <2>1 DEF Kinds
<1> QED
  BY <1>1, <1>2, <1>3, <1>4, <1>5, <1>6, <1>7, <1>8, <1>9, <1>10, <1>11,
     <1>12, <1>13, <1>14, <1>15, <1>16, <1>17, <1>18, <1>19, <1>20, <1>21,
     <1>22, <1>23, <1>24, <1>25, <1>26, <1>27, <1>28, <1>29,
     <1>30 DEF Next, Step

LEMMA JobFixed ==
    ASSUME UNCHANGED job, NEW a
    PROVE  /\ Key(a)' = Key(a)
           /\ Slot(a)' = Slot(a)
           /\ job'[a] = job[a]
BY DEF Key, Slot, Venue

LEMMA SubsetsFinite ==
    ASSUME NEW A \in SUBSET Attempts
    PROVE  /\ IsFiniteSet(A)
           /\ Cardinality(A) \in Nat
           /\ \A B \in SUBSET A : Cardinality(B) <= Cardinality(A)
<1>1. IsFiniteSet(A)
  BY ConstantsOK, FS_Subset
<1> QED BY <1>1, FS_Subset, FS_CardinalityType

\* The two limits of a strategy hold as long as no new row is open, no new
\* attempt counts and nobody has met less.
LEMMA LimitsStand ==
    ASSUME OverlapInv, UNCHANGED job, met \subseteq met',
           \A a \in Attempts : row'[a] = "FILLED" => row[a] = "FILLED",
           \A a \in Attempts : Counted(a)' => Counted(a)
    PROVE  RoomLeft' /\ MaxPositionsRespected'
<1>1. \A t : OpenRowsOf(t)' \subseteq OpenRowsOf(t)
  BY DEF OpenRowsOf
<1>2. \A A : Apart(A)' => Apart(A)
  BY DEF Apart
<1>3. \A a \in Attempts, A \in SUBSET Attempts : Unmet(a, A)' => Unmet(a, A)
  BY <1>1, <1>2 DEF Unmet, OpenRowsOf
<1>4. RoomLeft'
  BY <1>3 DEF OverlapInv, RoomLeft
<1>5. MaxPositionsRespected'
  BY <1>1, <1>2 DEF OverlapInv, MaxPositionsRespected
<1> QED BY <1>4, <1>5

\* A session that starts has met every session that is open, and has passed
\* nothing.
LEMMA StartKeeps ==
    ASSUME IInv, OverlapInv, NEW a \in Attempts, Starts(a)
    PROVE  OverlapInv'
<1>1. /\ pc[a] = "idle" /\ pc'[a] \in {"gate", "once"}
      /\ \A b \in Attempts \ {a} : pc'[b] = pc[b]
      /\ \A b \in Attempts : draft'[b] = draft[b]
      /\ met' = met \union ({a} \X InFlight) \union (InFlight \X {a})
      /\ UNCHANGED <<job, row>>
  BY DEF Starts, Alone
<1>2. \A b \in Attempts : Key(b)' = Key(b) /\ Slot(b)' = Slot(b)
  BY <1>1, JobFixed
<1>3. MetOK'
  BY <1>1 DEF OverlapInv, MetOK, InFlight
<1>4. DraftsOK'
  BY <1>1 DEF OverlapInv, DraftsOK, Counted
<1>5. PairClear' /\ SlotClear' /\ NoDuplicatePositions'
  BY <1>1, <1>2 DEF OverlapInv, PairClear, SlotClear, NoDuplicatePositions,
                    PastOnce, PastSymbol, PastAdmit
<1>6. RoomLeft' /\ MaxPositionsRespected'
  BY <1>1, LimitsStand DEF Counted
<1> QED BY <1>3, <1>4, <1>5, <1>6 DEF OverlapInv

\* A session that moves on has checked what it passes.
LEMMA ProceedKeeps ==
    ASSUME IInv, OverlapInv, NEW a \in Attempts, Proceeds(a)
    PROVE  OverlapInv'
<1>1. /\ pc[a] \notin {"idle", "done"} /\ pc'[a] # "idle"
      /\ \A b \in Attempts \ {a} : pc'[b] = pc[b] /\ draft'[b] = draft[b]
      /\ UNCHANGED <<job, row, met>>
  BY DEF Proceeds, InFlight, Alone
<1>2. \A b \in Attempts : Key(b)' = Key(b) /\ Slot(b)' = Slot(b)
  BY <1>1, JobFixed
<1>3. MetOK'
  BY <1>1 DEF OverlapInv, MetOK, InFlight
<1>4. DraftsOK'
  BY <1>1 DEF Proceeds, OverlapInv, DraftsOK, Counted
<1>5. PairClear'
  <2>1. pc'[a] \in PastOnce => \A b \in Attempts :
          Key(b) = Key(a) /\ row[b] # "absent" => <<a, b>> \in met
    BY DEF Proceeds, RowsOf, OverlapInv, PairClear
  <2> QED BY <2>1, <1>1, <1>2 DEF OverlapInv, PairClear
<1>6. SlotClear'
  <2>1. pc'[a] \in PastSymbol => \A b \in Attempts :
          Slot(b) = Slot(a) /\ row[b] = "FILLED" => <<a, b>> \in met
    BY DEF Proceeds, OpenRowsOn, OverlapInv, SlotClear
  <2> QED BY <2>1, <1>1, <1>2 DEF OverlapInv, SlotClear
<1>7. NoDuplicatePositions' /\ MaxPositionsRespected'
  BY <1>1, <1>2 DEF OverlapInv, NoDuplicatePositions, MaxPositionsRespected, OpenRowsOf, Apart
<1>8. RoomLeft'
  <2> SUFFICES ASSUME NEW b \in Attempts, Counted(b)', NEW A \in SUBSET Attempts, Unmet(b, A)'
               PROVE  Cardinality(A) < MaxPositions
    BY DEF RoomLeft
  <2>1. Unmet(b, A)
    BY <1>1 DEF Unmet, OpenRowsOf, Apart
  <2>2. CASE Counted(b)
    BY <2>1, <2>2 DEF OverlapInv, RoomLeft
  <2>3. CASE ~Counted(b)
    <3>1. b = a
      BY <1>1, <2>3 DEF Counted
    <3>2. Cardinality(OpenRowsOf(job[b].strat)) < MaxPositions
      BY <2>3, <3>1 DEF Proceeds
    <3>3. OpenRowsOf(job[b].strat) \in SUBSET Attempts
      BY DEF OpenRowsOf
    <3>4. A \subseteq OpenRowsOf(job[b].strat)
      BY <2>1 DEF Unmet
    <3>5. /\ Cardinality(A) <= Cardinality(OpenRowsOf(job[b].strat))
          /\ Cardinality(A) \in Nat /\ Cardinality(OpenRowsOf(job[b].strat)) \in Nat
      BY <3>3, <3>4, SubsetsFinite
    <3>6. MaxPositions \in Nat
      BY ConstantsOK
    <3> QED BY <3>2, <3>5, <3>6
  <2> QED BY <2>2, <2>3
<1> QED BY <1>3, <1>4, <1>5, <1>6, <1>7, <1>8 DEF OverlapInv

\* The row that a session commits fits: what stands in its way belongs to
\* sessions it has met.
LEMMA CommitKeeps ==
    ASSUME IInv, OverlapInv, NEW a \in Attempts, Commits(a)
    PROVE  OverlapInv'
<1>1. /\ pc[a] = "commit" /\ pc'[a] = "done" /\ draft'[a] = "none"
      /\ \A b \in Attempts \ {a} : pc'[b] = pc[b] /\ draft'[b] = draft[b]
      /\ row' = [row EXCEPT ![a] = draft[a]]
      /\ UNCHANGED <<job, met>>
  BY DEF Commits, Alone
<1>2. \A b \in Attempts : Key(b)' = Key(b) /\ Slot(b)' = Slot(b)
  BY <1>1, JobFixed
<1>3. row'[a] = draft[a] /\ \A b \in Attempts \ {a} : row'[b] = row[b]
  BY <1>1 DEF IInv, TypeOK
<1>4. \A b \in Attempts \ {a} : pc[b] \notin {"idle", "done"} => <<b, a>> \in met
  BY <1>1 DEF OverlapInv, MetOK, InFlight
<1>5. MetOK'
  BY <1>1 DEF OverlapInv, MetOK, InFlight
<1>6. DraftsOK'
  BY <1>1 DEF OverlapInv, DraftsOK, Counted
<1>7. PairClear' /\ SlotClear'
  <2>1. \A b \in Attempts : pc'[b] \in PastOnce => b # a /\ pc[b] \in PastOnce /\ <<b, a>> \in met
    BY <1>1, <1>4 DEF PastOnce, PastSymbol, PastAdmit
  <2>2. PairClear'
    <3> SUFFICES ASSUME NEW b \in Attempts, NEW c \in Attempts, pc'[b] \in PastOnce,
                        Key(c) = Key(b), row'[c] # "absent"
                 PROVE  <<b, c>> \in met
      BY <1>1, <1>2 DEF PairClear
    <3>1. CASE c = a
      BY <2>1, <3>1
    <3>2. CASE c # a
      BY <2>1, <1>3, <3>2 DEF OverlapInv, PairClear
    <3> QED BY <3>1, <3>2
  <2>3. \A b \in Attempts : pc'[b] \in PastSymbol => b # a /\ pc[b] \in PastSymbol /\ <<b, a>> \in met
    BY <2>1, <1>1 DEF PastOnce, PastSymbol
  <2>4. SlotClear'
    BY <2>3, <1>1, <1>2, <1>3 DEF OverlapInv, SlotClear
  <2> QED BY <2>2, <2>4
<1>8. NoDuplicatePositions'
  <2>1. \A b \in Attempts \ {a} : Slot(b) = Slot(a) /\ row[b] = "FILLED" => <<a, b>> \in met
    BY <1>1 DEF OverlapInv, SlotClear, PastSymbol, PastAdmit
  <2>2. \A b \in Attempts : <<a, b>> \in met => <<b, a>> \in met
    BY DEF OverlapInv, MetOK
  <2> QED BY <2>1, <2>2, <1>1, <1>2, <1>3 DEF OverlapInv, NoDuplicatePositions
<1>9. RoomLeft'
  <2> SUFFICES ASSUME NEW b \in Attempts, Counted(b)', NEW A \in SUBSET Attempts, Unmet(b, A)'
               PROVE  Cardinality(A) < MaxPositions
    BY DEF RoomLeft
  <2>1. b # a /\ Counted(b)
    BY <1>1 DEF Counted
  <2>2. <<b, a>> \in met
    BY <1>4, <2>1 DEF OverlapInv, DraftsOK, PastAdmit
  <2>3. Unmet(b, A)
    BY <1>1, <1>3, <2>2 DEF Unmet, OpenRowsOf, Apart
  <2> QED BY <2>1, <2>3 DEF OverlapInv, RoomLeft
<1>10. MaxPositionsRespected'
  <2> SUFFICES ASSUME NEW t \in Strategies, NEW A \in SUBSET OpenRowsOf(t)', Apart(A)
               PROVE  Cardinality(A) <= MaxPositions
    BY <1>1 DEF MaxPositionsRespected, Apart
  <2>1. MaxPositions \in Nat
    BY ConstantsOK
  <2>2. A \subseteq Attempts /\ \A b \in A : row'[b] = "FILLED" /\ job[b].strat = t
    BY <1>1 DEF OpenRowsOf
  <2>3. CASE a \notin A
    <3>1. A \in SUBSET OpenRowsOf(t)
      BY <1>3, <2>2, <2>3 DEF OpenRowsOf
    <3> QED BY <3>1 DEF OverlapInv, MaxPositionsRespected
  <2>4. CASE a \in A
    <3> DEFINE B == A \ {a}
    <3>1. Counted(a)
      BY <1>3, <2>2, <2>4 DEF Counted
    <3>2. B \in SUBSET Attempts /\ B \subseteq OpenRowsOf(job[a].strat)
      BY <1>3, <2>2, <2>4 DEF OpenRowsOf
    <3>3. Unmet(a, B)
      BY <3>2, <2>4 DEF Unmet, Apart
    <3>4. Cardinality(B) < MaxPositions
      BY <3>1, <3>2, <3>3 DEF OverlapInv, RoomLeft
    <3>5. IsFiniteSet(B) /\ Cardinality(B) \in Nat
      BY <3>2, SubsetsFinite
    <3>6. A = B \union {a} /\ a \notin B
      BY <2>4
    <3>7. Cardinality(A) = Cardinality(B) + 1
      BY <3>5, <3>6, FS_AddElement
    <3> QED BY <2>1, <3>4, <3>5, <3>7
  <2> QED BY <2>3, <2>4
<1> QED BY <1>5, <1>6, <1>7, <1>8, <1>9, <1>10 DEF OverlapInv

\* Closing and deleting rows makes room and nothing else.
LEMMA ShrinkKeeps ==
    ASSUME IInv, OverlapInv, Shrinks
    PROVE  OverlapInv'
<1>1. /\ UNCHANGED <<job, pc, draft, met>>
      /\ \A b \in Attempts : row'[b] = "FILLED" => row[b] = "FILLED"
      /\ \A b \in Attempts : row[b] = "absent" => row'[b] = "absent"
  BY DEF Shrinks
<1>2. \A b \in Attempts : Key(b)' = Key(b) /\ Slot(b)' = Slot(b)
  BY <1>1, JobFixed
<1>3. MetOK' /\ DraftsOK'
  BY <1>1 DEF OverlapInv, MetOK, InFlight, DraftsOK, Counted
<1>4. PairClear' /\ SlotClear' /\ NoDuplicatePositions'
  BY <1>1, <1>2 DEF OverlapInv, PairClear, SlotClear, NoDuplicatePositions
<1>5. RoomLeft' /\ MaxPositionsRespected'
  BY <1>1, LimitsStand DEF Counted
<1> QED BY <1>3, <1>4, <1>5 DEF OverlapInv

LEMMA OverlapStart == Init => OverlapInv
<1> SUFFICES ASSUME Init PROVE OverlapInv
  OBVIOUS
<1>1. MetOK /\ DraftsOK /\ PairClear /\ SlotClear /\ RoomLeft /\ NoDuplicatePositions
  BY DEF Init, MetOK, InFlight, DraftsOK, Counted, PairClear, SlotClear, RoomLeft,
         NoDuplicatePositions, PastOnce, PastSymbol, PastAdmit
<1>2. \A t : OpenRowsOf(t) = {}
  BY DEF Init, OpenRowsOf
<1>3. MaxPositionsRespected
  BY <1>2, FS_EmptySet, ConstantsOK DEF MaxPositionsRespected
<1> QED BY <1>1, <1>3 DEF OverlapInv

LEMMA OverlapInvariance == Spec => [](IInv /\ OverlapInv)
<1>1. IInv /\ OverlapInv /\ [Next]_vars => OverlapInv'
  <2> SUFFICES ASSUME IInv, OverlapInv, [Next]_vars PROVE OverlapInv'
    OBVIOUS
  <2>1. Kinds
    BY KindOfStep DEF OverlapInv
  <2> QED BY <2>1, StartKeeps, ProceedKeeps, CommitKeeps, ShrinkKeeps DEF Kinds
<1> QED BY <1>1, OverlapStart, Invariance, PTL DEF Spec

\* The second idempotency layer, any number of sessions at once and whatever
\* fails: two open executions of a user share a symbol of an exchange only if
\* the sessions that opened them overlapped.
THEOREM OnePositionPerSlot == Spec => []NoDuplicatePositions
<1>1. OverlapInv => NoDuplicatePositions
  BY DEF OverlapInv
<1> QED BY <1>1, OverlapInvariance, PTL

\* max_positions, any number of sessions at once and whatever fails: it bounds
\* every set of open executions whose sessions did not overlap.
THEOREM LimitHolds == Spec => []MaxPositionsRespected
<1>1. OverlapInv => MaxPositionsRespected
  BY DEF OverlapInv
<1> QED BY <1>1, OverlapInvariance, PTL

-----------------------------------------------------------------------------
(***************************************************************************)
(* Orders and the books, any number of sessions at once.  An order that    *)
(* has gone out leaves a row, which the first idempotency layer of every   *)
(* later attempt finds, unless its session died, another attempt has the   *)
(* row of the pair, or the pair is gone.                                   *)
(***************************************************************************)

\* The pair of an attempt has lost its strategy or its signal.
Gone(a) == job[a].strat \in deleted \/ signal[job[a].sig] = "purged"

\* What accounts for an order without a row of its own.
Covered(a) ==
    \/ mishap[a] = "died"
    \/ \E b \in Attempts : Key(b) = Key(a) /\ row[b] # "absent"
    \/ Gone(a)

Ending == {"flush", "protect", "close", "commit"}

\* An order out is about to be recorded, or accounted for.
Recorded ==
    \A a \in Attempts :
        /\ lot[a] # "none" => pc[a] \in Ending \/ (pc[a] = "done" /\ Covered(a))
        /\ mishap[a] = "died" => pc[a] = "done" /\ row[a] = "absent"

\* Quantity that is open has a row FILLED, or is about to get one, or is off
\* the books for one of the reasons of OpenLotsAreBooked.
OpenLotsOK ==
    \A a \in Attempts : lot[a] = "open" =>
        \/ /\ pc[a] \in {"flush", "commit"}
           /\ draft[a] = "FILLED" \/ mishap[a] \in {"unanswered", "unfilled"}
        \/ pc[a] \in {"protect", "close"}
        \/ /\ pc[a] = "done"
           /\ \/ row[a] = "FILLED"
              \/ row[a] = "FAILED" /\ mishap[a] \in {"unanswered", "unfilled"}
              \/ row[a] = "absent" /\ Covered(a)
              \/ /\ row[a] = "CLOSED"
                 /\ \/ mishap[a] \in {"unfilled", "moved"}
                    \/ mishap[a] = "blinded" /\ Venue(a) = "hyperliquid"

\* An attempt past the first layer, or with an order out, has met every other
\* that has an order out for its pair.
HasPassed(a) == pc[a] \in PastOnce \/ lot[a] # "none"

OrdersMet ==
    \A a, b \in Attempts :
        HasPassed(a) /\ lot[b] # "none" /\ Key(a) = Key(b) /\ a # b =>
            \/ <<a, b>> \in met
            \/ "died" \in {mishap[a], mishap[b]}
            \/ Gone(a)

BooksInv == Recorded /\ OpenLotsOK /\ OrdersMet

\* What no step takes back, and what a step must have to go further.
Advances ==
    /\ UNCHANGED job
    /\ met \subseteq met'
    /\ deleted \subseteq deleted'
    /\ \A s \in Signals : signal[s] = "purged" => signal'[s] = "purged"
    /\ \A a \in Attempts :
         /\ mishap[a] = "died" => mishap'[a] = "died"
         /\ lot'[a] # "none" => lot[a] # "none" \/ pc[a] = "order"
         /\ row[a] # "absent" => row'[a] # "absent" \/ Gone(a)'
         /\ pc'[a] \in PastOnce =>
              pc[a] \in PastOnce \/ (pc[a] = "once" /\ RowsOf(Key(a)) = {})

LEMMA AdvanceStep ==
    ASSUME IInv, Recorded, [Next]_vars
    PROVE  Advances
<1> USE DEF IInv, TypeOK, Jobs, SessionOK, Recorded, session, exchange, catalog, history,
            Befalls, Goto, Leave, Advances, Gone, PastOnce, PastSymbol, PastAdmit
<1> HIDE DEF RowsOf, Covered
<1>1. ASSUME NEW a \in Attempts, Begin(a)
      PROVE  Advances
  BY <1>1 DEF Begin, InFlight
<1>2. ASSUME NEW a \in Attempts, PassGate(a)
      PROVE  Advances
  BY <1>2 DEF PassGate
<1>3. ASSUME NEW a \in Attempts, Skip(a)
      PROVE  Advances
  BY <1>3 DEF Skip
<1>4. ASSUME NEW a \in Attempts, SkipOverdue(a)
      PROVE  Advances
  BY <1>4 DEF SkipOverdue
<1>5. ASSUME NEW a \in Attempts, CheckOnce(a)
      PROVE  Advances
  BY <1>5 DEF CheckOnce
<1>6. ASSUME NEW a \in Attempts, RateLimited(a)
      PROVE  Advances
  BY <1>6 DEF RateLimited
<1>7. ASSUME NEW a \in Attempts, CheckSymbol(a)
      PROVE  Advances
  BY <1>7 DEF CheckSymbol
<1>8. ASSUME NEW a \in Attempts, Admit(a)
      PROVE  Advances
  BY <1>8 DEF Admit
<1>9. ASSUME NEW a \in Attempts, Reject(a)
      PROVE  Advances
  BY <1>9 DEF Reject
<1>10. ASSUME NEW a \in Attempts, OrderFills(a)
      PROVE  Advances
  BY <1>10 DEF OrderFills, AwaitsOrder
<1>11. ASSUME NEW a \in Attempts, OrderRefused(a)
      PROVE  Advances
  BY <1>11 DEF OrderRefused, AwaitsOrder
<1>12. ASSUME NEW a \in Attempts, OrderUnanswered(a)
      PROVE  Advances
  BY <1>12 DEF OrderUnanswered, AwaitsOrder
<1>13. ASSUME NEW a \in Attempts, OrderUnfilled(a)
      PROVE  Advances
  BY <1>13 DEF OrderUnfilled, AwaitsOrder
<1>14. ASSUME NEW a \in Attempts, Flush(a)
      PROVE  Advances
  BY <1>14 DEF Flush
<1>15. ASSUME NEW a \in Attempts, Protect(a)
      PROVE  Advances
  BY <1>15 DEF Protect
<1>16. ASSUME NEW a \in Attempts, ProtectFails(a)
      PROVE  Advances
  BY <1>16 DEF ProtectFails
<1>17. ASSUME NEW a \in Attempts, EmergencyClose(a)
      PROVE  Advances
  BY <1>17 DEF EmergencyClose, Reduce, LotsOn
<1>18. ASSUME NEW a \in Attempts, EmergencyCloseUnfilled(a)
      PROVE  Advances
  BY <1>18 DEF EmergencyCloseUnfilled
<1>19. ASSUME NEW a \in Attempts, EmergencyCloseFails(a)
      PROVE  Advances
  BY <1>19 DEF EmergencyCloseFails, Reduce, LotsOn
<1>20. ASSUME NEW a \in Attempts, Commit(a)
      PROVE  Advances
  BY <1>20 DEF Commit
<1>21. ASSUME NEW a \in Attempts, Crash(a)
      PROVE  Advances
  BY <1>21 DEF Crash, InFlight
<1>22. ASSUME NEW a \in Attempts, ExchangeClose(a)
      PROVE  Advances
  BY <1>22 DEF ExchangeClose
<1>23. ASSUME NEW a \in Attempts, SyncClose(a)
      PROVE  Advances
  BY <1>23 DEF SyncClose
<1>24. ASSUME NEW a \in Attempts, SyncCloseMisled(a)
      PROVE  Advances
  BY <1>24 DEF SyncCloseMisled
<1>25. ASSUME NEW s \in Signals, TimePasses(s)
      PROVE  Advances
  BY <1>25 DEF TimePasses
<1>26. ASSUME NEW s \in Signals, CancelSignal(s)
      PROVE  Advances
  BY <1>26 DEF CancelSignal
<1>27. ASSUME NEW s \in Signals, PurgeSignal(s)
      PROVE  Advances
  BY <1>27 DEF PurgeSignal, Cascade
<1>28. ASSUME NEW t \in Strategies, DeleteStrategy(t)
      PROVE  Advances
  BY <1>28 DEF DeleteStrategy, Cascade
<1>29. ASSUME ExpireStale
      PROVE  Advances
  BY <1>29 DEF ExpireStale
<1>30. CASE UNCHANGED vars
  BY <1>30 DEF vars
<1> QED
  BY <1>1, <1>2, <1>3, <1>4, <1>5, <1>6, <1>7, <1>8, <1>9, <1>10, <1>11,
     <1>12, <1>13, <1>14, <1>15, <1>16, <1>17, <1>18, <1>19, <1>20, <1>21,
     <1>22, <1>23, <1>24, <1>25, <1>26, <1>27, <1>28, <1>29,
     <1>30 DEF Next, Step

\* What accounts for an order goes on doing so.
LEMMA CoveredStays ==
    ASSUME IInv, Advances, NEW a \in Attempts, Covered(a)
    PROVE  Covered(a)'
<1>1. \A b \in Attempts : Key(b)' = Key(b)
  BY JobFixed DEF Advances
<1>2. Gone(a) => Gone(a)'
  BY DEF Advances, Gone, IInv, TypeOK, Jobs
<1>3. ASSUME NEW b \in Attempts, Key(b) = Key(a), row[b] # "absent"
      PROVE  Covered(a)'
  <2>1. Gone(b)' => Gone(a)'
    BY <1>3 DEF Key, Gone, Advances
  <2>2. row'[b] # "absent" \/ Gone(b)'
    BY <1>3 DEF Advances
  <2> QED BY <2>1, <2>2, <1>1, <1>3 DEF Covered
<1>4. mishap[a] = "died" => mishap'[a] = "died"
  BY DEF Advances
<1> QED BY <1>2, <1>3, <1>4 DEF Covered

\* A conflict at the INSERT accounts for the order.
LEMMA ConflictCovers ==
    ASSUME NEW a \in Attempts, Conflicts(a)
    PROVE  Covered(a)
BY DEF Conflicts, RowsOf, Covered, Gone

\* What a step does to the books.
LEMMA BooksStep ==
    ASSUME IInv, Recorded, OpenLotsOK, [Next]_vars
    PROVE  Recorded' /\ OpenLotsOK'
<1>0. /\ \A b \in Attempts : Covered(b) => Covered(b)'
      /\ \A b \in Attempts : Venue(b)' = Venue(b)
      /\ \A b \in Attempts : row'[b] # "absent" => Covered(b)'
      /\ \A b \in Attempts : mishap'[b] = "died" => Covered(b)'
      /\ \A b \in Attempts : row[b] # "absent" /\ row'[b] = "absent" => Covered(b)'
      /\ \A b \in Attempts : Conflicts(b) => Covered(b)'
  BY AdvanceStep, CoveredStays, ConflictCovers DEF Advances, Venue, Covered
<1> USE <1>0 DEF IInv, TypeOK, SessionOK, Recorded, OpenLotsOK, Ending, Mishaps,
            session, exchange, catalog, history, Befalls, Goto, Leave
<1> HIDE DEF Covered, Venue, Conflicts
<1>1. ASSUME NEW a \in Attempts, Begin(a)
      PROVE  Recorded' /\ OpenLotsOK'
  BY <1>1 DEF Begin, InFlight
<1>2. ASSUME NEW a \in Attempts, PassGate(a)
      PROVE  Recorded' /\ OpenLotsOK'
  BY <1>2 DEF PassGate
<1>3. ASSUME NEW a \in Attempts, Skip(a)
      PROVE  Recorded' /\ OpenLotsOK'
  BY <1>3 DEF Skip
<1>4. ASSUME NEW a \in Attempts, SkipOverdue(a)
      PROVE  Recorded' /\ OpenLotsOK'
  BY <1>4 DEF SkipOverdue
<1>5. ASSUME NEW a \in Attempts, CheckOnce(a)
      PROVE  Recorded' /\ OpenLotsOK'
  BY <1>5 DEF CheckOnce
<1>6. ASSUME NEW a \in Attempts, RateLimited(a)
      PROVE  Recorded' /\ OpenLotsOK'
  BY <1>6 DEF RateLimited
<1>7. ASSUME NEW a \in Attempts, CheckSymbol(a)
      PROVE  Recorded' /\ OpenLotsOK'
  BY <1>7 DEF CheckSymbol
<1>8. ASSUME NEW a \in Attempts, Admit(a)
      PROVE  Recorded' /\ OpenLotsOK'
  BY <1>8 DEF Admit
<1>9. ASSUME NEW a \in Attempts, Reject(a)
      PROVE  Recorded' /\ OpenLotsOK'
  BY <1>9 DEF Reject
<1>10. ASSUME NEW a \in Attempts, OrderFills(a)
      PROVE  Recorded' /\ OpenLotsOK'
  BY <1>10 DEF OrderFills, AwaitsOrder
<1>11. ASSUME NEW a \in Attempts, OrderRefused(a)
      PROVE  Recorded' /\ OpenLotsOK'
  BY <1>11 DEF OrderRefused, AwaitsOrder
<1>12. ASSUME NEW a \in Attempts, OrderUnanswered(a)
      PROVE  Recorded' /\ OpenLotsOK'
  BY <1>12 DEF OrderUnanswered, AwaitsOrder
<1>13. ASSUME NEW a \in Attempts, OrderUnfilled(a)
      PROVE  Recorded' /\ OpenLotsOK'
  BY <1>13 DEF OrderUnfilled, AwaitsOrder
<1>14. ASSUME NEW a \in Attempts, Flush(a)
      PROVE  Recorded' /\ OpenLotsOK'
  BY <1>14 DEF Flush
<1>15. ASSUME NEW a \in Attempts, Protect(a)
      PROVE  Recorded' /\ OpenLotsOK'
  BY <1>15 DEF Protect
<1>16. ASSUME NEW a \in Attempts, ProtectFails(a)
      PROVE  Recorded' /\ OpenLotsOK'
  BY <1>16 DEF ProtectFails
<1>17. ASSUME NEW a \in Attempts, EmergencyClose(a)
      PROVE  Recorded' /\ OpenLotsOK'
  BY <1>17 DEF EmergencyClose, Reduce, LotsOn
<1>18. ASSUME NEW a \in Attempts, EmergencyCloseUnfilled(a)
      PROVE  Recorded' /\ OpenLotsOK'
  BY <1>18 DEF EmergencyCloseUnfilled
<1>19. ASSUME NEW a \in Attempts, EmergencyCloseFails(a)
      PROVE  Recorded' /\ OpenLotsOK'
  BY <1>19 DEF EmergencyCloseFails, Reduce, LotsOn
<1>20. ASSUME NEW a \in Attempts, Commit(a)
      PROVE  Recorded' /\ OpenLotsOK'
  BY <1>20 DEF Commit
<1>21. ASSUME NEW a \in Attempts, Crash(a)
      PROVE  Recorded' /\ OpenLotsOK'
  BY <1>21 DEF Crash, InFlight
<1>22. ASSUME NEW a \in Attempts, ExchangeClose(a)
      PROVE  Recorded' /\ OpenLotsOK'
  BY <1>22 DEF ExchangeClose
<1>23. ASSUME NEW a \in Attempts, SyncClose(a)
      PROVE  Recorded' /\ OpenLotsOK'
  BY <1>23 DEF SyncClose
<1>24. ASSUME NEW a \in Attempts, SyncCloseMisled(a)
      PROVE  Recorded' /\ OpenLotsOK'
  BY <1>24 DEF SyncCloseMisled
<1>25. ASSUME NEW s \in Signals, TimePasses(s)
      PROVE  Recorded' /\ OpenLotsOK'
  BY <1>25 DEF TimePasses
<1>26. ASSUME NEW s \in Signals, CancelSignal(s)
      PROVE  Recorded' /\ OpenLotsOK'
  BY <1>26 DEF CancelSignal
<1>27. ASSUME NEW s \in Signals, PurgeSignal(s)
      PROVE  Recorded' /\ OpenLotsOK'
  BY <1>27 DEF PurgeSignal, Cascade
<1>28. ASSUME NEW t \in Strategies, DeleteStrategy(t)
      PROVE  Recorded' /\ OpenLotsOK'
  BY <1>28 DEF DeleteStrategy, Cascade
<1>29. ASSUME ExpireStale
      PROVE  Recorded' /\ OpenLotsOK'
  BY <1>29 DEF ExpireStale
<1>30. CASE UNCHANGED vars
  BY <1>30 DEF vars
<1> QED
  BY <1>1, <1>2, <1>3, <1>4, <1>5, <1>6, <1>7, <1>8, <1>9, <1>10, <1>11,
     <1>12, <1>13, <1>14, <1>15, <1>16, <1>17, <1>18, <1>19, <1>20, <1>21,
     <1>22, <1>23, <1>24, <1>25, <1>26, <1>27, <1>28, <1>29,
     <1>30 DEF Next, Step

\* An attempt passes the first layer, or sends its order, only beside sessions
\* it has met and orders that are accounted for without a row.
LEMMA OrdersStep ==
    ASSUME IInv, OverlapInv, BooksInv, [Next]_vars
    PROVE  OrdersMet'
<1>1. Advances
  BY AdvanceStep DEF BooksInv
<1>2. \A a \in Attempts : Key(a)' = Key(a)
  BY <1>1, JobFixed DEF Advances
<1>3. SUFFICES ASSUME NEW a \in Attempts, NEW b \in Attempts, HasPassed(a)', lot'[b] # "none",
                      Key(a) = Key(b), a # b
               PROVE  \/ <<a, b>> \in met
                      \/ "died" \in {mishap[a], mishap[b]}
                      \/ Gone(a)
  <2>1. /\ met \subseteq met'
        /\ \A a \in Attempts : mishap[a] = "died" => mishap'[a] = "died"
        /\ \A a \in Attempts : Gone(a) => Gone(a)'
    BY <1>1 DEF Advances, Gone, IInv, TypeOK, Jobs
  <2> QED BY <2>1, <1>2 DEF OrdersMet
<1>4. CASE HasPassed(a) /\ lot[b] # "none"
  BY <1>3, <1>4 DEF BooksInv, OrdersMet
<1>5. CASE HasPassed(a) /\ lot[b] = "none"
  <2>1. pc[b] = "order"
    BY <1>1, <1>3, <1>5 DEF Advances
  <2>2. HasPassed(b)
    BY <2>1 DEF HasPassed, PastOnce, PastSymbol, PastAdmit
  <2>3. CASE lot[a] # "none"
    <3>1. Gone(b) => Gone(a)
      BY <1>3 DEF Gone, Key
    <3>2. <<b, a>> \in met => <<a, b>> \in met
      BY DEF OverlapInv, MetOK
    <3> QED BY <2>2, <2>3, <3>1, <3>2, <1>3 DEF BooksInv, OrdersMet
  <2>4. CASE lot[a] = "none"
    <3>1. a \in InFlight /\ b \in InFlight
      BY <1>5, <2>1, <2>4 DEF HasPassed, InFlight, PastOnce, PastSymbol, PastAdmit
    <3> QED BY <3>1, <1>3 DEF OverlapInv, MetOK
  <2> QED BY <2>3, <2>4
<1>6. CASE ~HasPassed(a)
  <2>1. pc[a] = "once" /\ RowsOf(Key(a)) = {}
    BY <1>1, <1>3, <1>6 DEF Advances, HasPassed, PastOnce, PastSymbol, PastAdmit
  <2>2. pc[b] \in Ending \union {"order"} \/ (pc[b] = "done" /\ Covered(b))
    BY <1>1, <1>3 DEF Advances, BooksInv, Recorded
  <2>3. CASE pc[b] \in Ending \union {"order"}
    <3>1. a \in InFlight /\ b \in InFlight
      BY <2>1, <2>3 DEF InFlight, Ending
    <3> QED BY <3>1, <1>3 DEF OverlapInv, MetOK
  <2>4. CASE Covered(b)
    <3>1. \A c \in Attempts : Key(c) = Key(b) => row[c] = "absent"
      BY <2>1, <1>3 DEF RowsOf
    <3>2. Gone(b) => Gone(a)
      BY <1>3 DEF Gone, Key
    <3> QED BY <2>4, <3>1, <3>2 DEF Covered
  <2> QED BY <2>2, <2>3, <2>4
<1> QED BY <1>4, <1>5, <1>6

LEMMA BooksInvariance == Spec => [](IInv /\ BooksInv)
<1>1. Init => BooksInv
  BY DEF Init, BooksInv, Recorded, OpenLotsOK, OrdersMet, HasPassed, PastOnce, PastSymbol,
         PastAdmit
<1>2. IInv /\ OverlapInv /\ BooksInv /\ [Next]_vars => BooksInv'
  BY BooksStep, OrdersStep DEF BooksInv
<1> QED BY <1>1, <1>2, OverlapInvariance, PTL DEF Spec

LEMMA GoneIsRetired ==
    ASSUME TypeOK, NEW a \in Attempts
    PROVE  Gone(a) <=> Key(a) \in Retired
BY KeyInPairs DEF Gone, Retired, Key

\* The first idempotency layer, any number of sessions at once and whatever
\* fails: a strategy trades a signal twice only if the two sessions overlapped,
\* one of them died with its order out, or strategy or signal are gone.
THEOREM PairTradedOnce == Spec => []OrderedOnce
<1>1. IInv /\ BooksInv => OrderedOnce
  BY GoneIsRetired DEF IInv, BooksInv, OrdersMet, HasPassed, OrderedOnce
<1> QED BY <1>1, BooksInvariance, PTL

\* Quantity of a finished attempt that is open and off the books got there by a
\* lost answer, an accepted close that filled nothing, a session that died, an
\* INSERT that lost to another attempt at the pair, a deletion, another account, or
\* an empty answer of Hyperliquid; whatever overlaps and fails, there is no other way.
THEOREM OpenLotsBooked == Spec => []OpenLotsAreBooked
<1>1. IInv /\ BooksInv => OpenLotsAreBooked
  BY GoneIsRetired DEF IInv, BooksInv, OpenLotsOK, OpenLotsAreBooked, Covered
<1> QED BY <1>1, BooksInvariance, PTL
-----------------------------------------------------------------------------
(***************************************************************************)
(* What ExecutionLedger promises holds of every behaviour of it, and so of *)
(* the table here.  Instantiated, it speaks of Pairs, Table and Retired.   *)
(***************************************************************************)

LEMMA LedgerTyped == Ledger!Spec => []Ledger!TypeOK
<1>1. Ledger!Init => Ledger!TypeOK
  BY DEF Ledger!Init, Ledger!TypeOK
<1>2. Ledger!TypeOK /\ [Ledger!Next]_(Ledger!vars) => Ledger!TypeOK'
  <2> SUFFICES ASSUME Ledger!TypeOK, [Ledger!Next]_(Ledger!vars) PROVE Ledger!TypeOK'
    OBVIOUS
  <2> USE DEF Ledger!TypeOK
  <2>1. ASSUME NEW k \in Pairs, NEW s \in {"FAILED", "FILLED"}, Ledger!Record(k, s)
        PROVE  Ledger!TypeOK'
    <3>1. [key |-> k, status |-> s] \in Ledger!TableRows
      BY DEF Ledger!TableRows, Ledger!Statuses
    <3> QED BY <2>1, <3>1 DEF Ledger!Record
  <2>2. ASSUME NEW K \in SUBSET Pairs, Ledger!Close(K)
        PROVE  Ledger!TypeOK'
    <3>1. \A r \in Ledger!TableRows : [r EXCEPT !.status = "CLOSED"] \in Ledger!TableRows
      BY DEF Ledger!TableRows, Ledger!Statuses
    <3> QED BY <2>2, <3>1 DEF Ledger!Close
  <2>3. ASSUME NEW K \in SUBSET Pairs, Ledger!Retire(K)
        PROVE  Ledger!TypeOK'
    BY <2>3 DEF Ledger!Retire
  <2>4. CASE UNCHANGED Ledger!vars
    BY <2>4 DEF Ledger!vars
  <2> QED BY <2>1, <2>2, <2>3, <2>4 DEF Ledger!Next
<1> QED BY <1>1, <1>2, PTL DEF Ledger!Spec

\* One row per (signal, strategy), and none for a pair that lost its parent.
KeysOK == Ledger!OneRowPerKey /\ \A r \in Table : r.key \notin Retired

\* Closing keeps the key of a row, recording waits for the pair to be free.
LEMMA LedgerKeysOK == Ledger!Spec => []KeysOK
<1>1. Ledger!Init => KeysOK
  BY DEF Ledger!Init, KeysOK, Ledger!OneRowPerKey
<1>2. Ledger!TypeOK /\ KeysOK /\ [Ledger!Next]_(Ledger!vars) => KeysOK'
  <2> SUFFICES ASSUME Ledger!TypeOK, KeysOK, [Ledger!Next]_(Ledger!vars) PROVE KeysOK'
    OBVIOUS
  <2> USE DEF KeysOK, Ledger!OneRowPerKey
  <2>1. ASSUME NEW k \in Pairs, NEW s \in {"FAILED", "FILLED"}, Ledger!Record(k, s)
        PROVE  KeysOK'
    BY <2>1 DEF Ledger!Record, Ledger!HasRow
  <2>2. ASSUME NEW K \in SUBSET Pairs, Ledger!Close(K)
        PROVE  KeysOK'
    <3> DEFINE after(r) == IF r.key \in K /\ r.status = "FILLED"
                             THEN [r EXCEPT !.status = "CLOSED"] ELSE r
    <3>1. \A r \in Table : after(r).key = r.key
      BY DEF Ledger!TypeOK, Ledger!TableRows
    <3>2. Table' = {after(r) : r \in Table} /\ Retired' = Retired
      BY <2>2 DEF Ledger!Close
    <3> HIDE DEF after
    <3> QED BY <3>1, <3>2
  <2>3. ASSUME NEW K \in SUBSET Pairs, Ledger!Retire(K)
        PROVE  KeysOK'
    BY <2>3 DEF Ledger!Retire
  <2>4. CASE UNCHANGED Ledger!vars
    BY <2>4 DEF Ledger!vars
  <2> QED BY <2>1, <2>2, <2>3, <2>4 DEF Ledger!Next
<1> QED BY <1>1, <1>2, LedgerTyped, PTL DEF Ledger!Spec

\* What a step may do to the row of one pair.
Finality(k) ==
    /\ [key |-> k, status |-> "FAILED"] \in Table
         => ~(\E s \in {"FILLED", "CLOSED"} : [key |-> k, status |-> s] \in Table')
    /\ [key |-> k, status |-> "CLOSED"] \in Table
         => ~(\E s \in {"FILLED", "FAILED"} : [key |-> k, status |-> s] \in Table')
    /\ k \in Retired => ~\E r \in Table' : r.key = k

\* The rows of a pair are untouched, or it had none and was not retired.
LEMMA UntouchedIsFinal ==
    ASSUME KeysOK, NEW k \in Pairs,
           \A r \in Table' : r.key = k => r \in Table \/ (~Ledger!HasRow(k) /\ k \notin Retired)
    PROVE  Finality(k)
<1>1. \A s, t : /\ [key |-> k, status |-> s].key = k
                /\ [key |-> k, status |-> s] = [key |-> k, status |-> t] => s = t
  OBVIOUS
<1>2. ASSUME NEW s, NEW t,
             [key |-> k, status |-> s] \in Table, [key |-> k, status |-> t] \in Table'
      PROVE  s = t
  <2>1. Ledger!HasRow(k)
    BY <1>1, <1>2 DEF Ledger!HasRow
  <2>2. [key |-> k, status |-> t] \in Table
    BY <1>1, <1>2, <2>1
  <2>3. [key |-> k, status |-> s] = [key |-> k, status |-> t]
    BY <1>1, <1>2, <2>2 DEF KeysOK, Ledger!OneRowPerKey
  <2> QED BY <1>1, <2>3
<1>3. k \in Retired => ~\E r \in Table' : r.key = k
  BY DEF KeysOK, Ledger!HasRow
<1> QED BY <1>2, <1>3 DEF Finality

\* Closing rewrites FILLED rows only.
LEMMA ClosingIsFinal ==
    ASSUME Ledger!TypeOK, KeysOK, NEW K, Ledger!Close(K), NEW k \in Pairs
    PROVE  Finality(k)
<1> USE DEF KeysOK, Ledger!OneRowPerKey, Ledger!TypeOK
<1> DEFINE after(r) == IF r.key \in K /\ r.status = "FILLED"
                         THEN [r EXCEPT !.status = "CLOSED"] ELSE r
<1>1. \A r \in Table : /\ after(r).key = r.key
                       /\ r.status # "FILLED" => after(r) = r
  BY DEF Ledger!TableRows
<1>2. Table' = {after(r) : r \in Table} /\ Retired' = Retired
  BY DEF Ledger!Close
<1>3. \A s \in Ledger!Statuses, r \in Table :
         [key |-> k, status |-> s] \in Table /\ r.key = k => r = [key |-> k, status |-> s]
  OBVIOUS
<1>4. \A s, t : [key |-> k, status |-> s].key = k /\ [key |-> k, status |-> s].status = s
  OBVIOUS
<1> HIDE DEF after
<1>5. ASSUME NEW s \in {"FAILED", "CLOSED"}, NEW t \in Ledger!Statuses,
             [key |-> k, status |-> s] \in Table, [key |-> k, status |-> t] \in Table'
      PROVE  s = t
  <2>1. PICK r \in Table : after(r) = [key |-> k, status |-> t]
    BY <1>2, <1>5
  <2>2. r.key = k
    BY <2>1, <1>1, <1>4
  <2>3. r = [key |-> k, status |-> s]
    BY <1>5, <2>2, <1>3 DEF Ledger!Statuses
  <2>4. r.status # "FILLED"
    BY <2>3
  <2>5. [key |-> k, status |-> s] = [key |-> k, status |-> t]
    BY <2>1, <2>3, <2>4, <1>1
  <2> QED BY <2>5, <1>4
<1>6. k \in Retired => ~\E r \in Table' : r.key = k
  BY <1>1, <1>2
<1> QED BY <1>5, <1>6 DEF Finality, Ledger!Statuses

\* A FAILED or CLOSED row never changes into another, and a retired pair stays
\* without a row: neither recording nor closing touches a pair that has one.
THEOREM LedgerHistoryIsFinal == Ledger!Spec => Ledger!HistoryIsFinal
<1>1. Ledger!TypeOK /\ KeysOK /\ [Ledger!Next]_(Ledger!vars)
        => [\A k \in Pairs : Finality(k)]_(Ledger!vars)
  <2> SUFFICES ASSUME Ledger!TypeOK, KeysOK, Ledger!Next, NEW k \in Pairs
               PROVE  Finality(k)
    OBVIOUS
  <2>1. ASSUME NEW k0 \in Pairs, NEW s \in {"FAILED", "FILLED"}, Ledger!Record(k0, s)
        PROVE  Finality(k)
    <3>1. \A r \in Table' : r.key = k => r \in Table \/ (~Ledger!HasRow(k) /\ k \notin Retired)
      BY <2>1 DEF Ledger!Record
    <3> QED BY <3>1, UntouchedIsFinal
  <2>2. ASSUME NEW K \in SUBSET Pairs, Ledger!Close(K)
        PROVE  Finality(k)
    BY <2>2, ClosingIsFinal
  <2>3. ASSUME NEW K \in SUBSET Pairs, Ledger!Retire(K)
        PROVE  Finality(k)
    <3>1. \A r \in Table' : r.key = k => r \in Table
      BY <2>3 DEF Ledger!Retire
    <3> QED BY <3>1, UntouchedIsFinal
  <2> QED BY <2>1, <2>2, <2>3 DEF Ledger!Next
<1>2. [\A k \in Pairs : Finality(k)]_(Ledger!vars) =>
        [\A k \in Pairs :
          /\ [key |-> k, status |-> "FAILED"] \in Table
               => ~(\E s \in {"FILLED", "CLOSED"} : [key |-> k, status |-> s] \in Table')
          /\ [key |-> k, status |-> "CLOSED"] \in Table
               => ~(\E s \in {"FILLED", "FAILED"} : [key |-> k, status |-> s] \in Table')
          /\ k \in Retired => ~\E r \in Table' : r.key = k]_(Ledger!vars)
  BY DEF Finality
<1> QED BY <1>1, <1>2, LedgerKeysOK, LedgerTyped, PTL DEF Ledger!Spec, Ledger!HistoryIsFinal

\* So it is with the executions of every behaviour of the engine: whatever
\* sessions overlap, crash and lose the race, a pair recorded as FAILED is never
\* traded later, a CLOSED one never reopens, and none outlives its parents.
THEOREM TableIsFinal == Spec => Ledger!HistoryIsFinal
BY RefinesLedger, LedgerHistoryIsFinal, PTL DEF ImplementsLedger
=============================================================================
