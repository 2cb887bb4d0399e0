------------------------- MODULE TradingHalt_proofs -------------------------
(***************************************************************************)
(* What the kill switch keeps, for every set of strategies, any number of  *)
(* execution attempts, of halts and of admin requests that overlap, and    *)
(* owners who act whenever they like.                                      *)
(*                                                                         *)
(* Strategies that have not strayed are looked at one by one: a paused one *)
(* is in no set that any request carries, and one that should run is       *)
(* carried by the only request open, whose every statement still finds it  *)
(* as the statement before left it.                                        *)
(***************************************************************************)
EXTENDS TradingHalt, TLAPS

\* A closed request holds nothing, a resumed halt stores nothing.
RestOK ==
    /\ ~halt.halted => halt.ids = {}
    /\ \A d \in Admins :
          /\ phase[d] = "idle" => ids[d] = {}
          /\ phase[d] \in {"idle", "select", "update", "upsert"} => read[d].ids = {}
          /\ phase[d] \in {"idle", "select", "update", "resume"} => written[d] = {}

PausedOK ==
    \A t \in Strategies \ (strayed \union wanted) :
        /\ t \notin active \union halt.ids
        /\ \A d \in Admins : t \notin read[d].ids \union ids[d] \union written[d]

Alone == \A d, f \in Admins : phase[d] # "idle" /\ phase[f] # "idle" => d = f

\* What an open request has read and updated of t, at each of its statements.
Carries(d, t) ==
    /\ phase[d] \in {"select", "update", "upsert", "commit"} => ~halt.halted
    /\ phase[d] \in {"update", "upsert", "commit"} => t \in ids[d]
    /\ phase[d] \in {"upsert", "commit"} => t \in written[d]
    /\ phase[d] = "commit" => read[d] = halt
    /\ phase[d] \in {"resume", "restart"} => halt.halted /\ t \in read[d].ids
    /\ phase[d] = "restart" => t \in written[d]

WantedOK ==
    \A t \in wanted \ strayed :
        /\ Alone
        /\ IF halt.halted THEN t \notin active /\ t \in halt.ids ELSE t \in active
        /\ \A d \in Admins : Carries(d, t)

IInv == TypeOK /\ RestOK /\ PausedOK /\ WantedOK

LEMMA InitOK == Init => IInv
BY ConstantsOK DEF Init, IInv, TypeOK, RestOK, PausedOK, WantedOK, Alone, Carries, Records, NoRecord

-----------------------------------------------------------------------------
\* Every action keeps the state well-formed; this needs no assumption.
LEMMA TypeStep == TypeOK /\ [Next]_vars => TypeOK'
<1> SUFFICES ASSUME TypeOK, [Next]_vars PROVE TypeOK'
  OBVIOUS
<1> USE ConstantsOK DEF TypeOK, Records, config, admin, worker, Enter, Start, Says
<1>1. ASSUME NEW d \in Admins, HaltRead(d)     PROVE TypeOK'
  BY <1>1 DEF HaltRead
<1>2. ASSUME NEW d \in Admins, HaltSelect(d)   PROVE TypeOK'
  BY <1>2 DEF HaltSelect
<1>3. ASSUME NEW d \in Admins, HaltUpdate(d)   PROVE TypeOK'
  BY <1>3 DEF HaltUpdate
<1>4. ASSUME NEW d \in Admins, HaltUpsert(d)   PROVE TypeOK'
  BY <1>4 DEF HaltUpsert
<1>5. ASSUME NEW d \in Admins, HaltCommit(d)   PROVE TypeOK'
  <2>1. active' \subseteq Strategies /\ halt' \in Records /\ rounds' \in 0..MaxRounds
    <3>1. CASE ~read[d].exists /\ halt.exists
      BY <1>5, <3>1 DEF HaltCommit
    <3>2. CASE ~(~read[d].exists /\ halt.exists)
      <4>1. /\ rounds < MaxRounds /\ rounds' = rounds + 1
            /\ active' = active \ written[d]
            /\ halt' = [exists |-> TRUE, halted |-> TRUE, ids |-> ids[d]]
        BY <1>5, <3>2 DEF HaltCommit
      <4>2. rounds' \in 0..MaxRounds
        BY <4>1
      <4> QED BY <4>1, <4>2
    <3> QED BY <3>1, <3>2
  <2>2. Finish(d) /\ UNCHANGED <<wanted, worker, strayed>>
    BY <1>5 DEF HaltCommit
  <2> QED BY <2>1, <2>2 DEF Finish, NoRecord
<1>6. ASSUME NEW d \in Admins, ResumeRead(d)   PROVE TypeOK'
  BY <1>6 DEF ResumeRead
<1>7. ASSUME NEW d \in Admins, ResumeUpdate(d) PROVE TypeOK'
  BY <1>7 DEF ResumeUpdate
<1>8. ASSUME NEW d \in Admins, ResumeCommit(d) PROVE TypeOK'
  BY <1>8 DEF ResumeCommit, Finish, NoRecord
<1>9. ASSUME NEW t \in Strategies, Activate(t) PROVE TypeOK'
  BY <1>9 DEF Activate
<1>10. ASSUME NEW t \in Strategies, Pause(t)   PROVE TypeOK'
  BY <1>10 DEF Pause
<1>11. ASSUME NEW a \in Attempts,
              CheckHalt(a) \/ CheckActive(a) \/ Execute(a) \/ Again(a)
       PROVE  TypeOK'
  BY <1>11 DEF CheckHalt, CheckActive, Execute, Again
<1>12. CASE UNCHANGED vars
  BY <1>12 DEF vars
<1> QED
  BY <1>1, <1>2, <1>3, <1>4, <1>5, <1>6, <1>7, <1>8, <1>9, <1>10, <1>11,
     <1>12 DEF Next, AdminStep

\* A request drops what it has read when it closes.
LEMMA RestStep == IInv /\ [Next]_vars => RestOK'
<1> SUFFICES ASSUME IInv, [Next]_vars PROVE RestOK'
  OBVIOUS
<1> USE DEF IInv, TypeOK, Records, NoRecord, config, admin, worker, Enter, Start, Says, Finish, RestOK
<1>1. ASSUME NEW d \in Admins, HaltRead(d) PROVE RestOK'
  BY <1>1 DEF HaltRead
<1>2. ASSUME NEW d \in Admins, HaltSelect(d) PROVE RestOK'
  BY <1>2 DEF HaltSelect
<1>3. ASSUME NEW d \in Admins, HaltUpdate(d) PROVE RestOK'
  BY <1>3 DEF HaltUpdate
<1>4. ASSUME NEW d \in Admins, HaltUpsert(d) PROVE RestOK'
  BY <1>4 DEF HaltUpsert
<1>5. ASSUME NEW d \in Admins, HaltCommit(d) PROVE RestOK'
  BY <1>5 DEF HaltCommit
<1>6. ASSUME NEW d \in Admins, ResumeRead(d) PROVE RestOK'
  BY <1>6 DEF ResumeRead
<1>7. ASSUME NEW d \in Admins, ResumeUpdate(d) PROVE RestOK'
  BY <1>7 DEF ResumeUpdate
<1>8. ASSUME NEW d \in Admins, ResumeCommit(d) PROVE RestOK'
  BY <1>8 DEF ResumeCommit
<1>9. ASSUME NEW t \in Strategies, Activate(t) \/ Pause(t) PROVE RestOK'
  BY <1>9 DEF Activate, Pause, Undisturbed
<1>10. ASSUME NEW a \in Attempts, CheckHalt(a) \/ CheckActive(a) \/ Execute(a) \/ Again(a)
      PROVE  RestOK'
  BY <1>10 DEF CheckHalt, CheckActive, Execute, Again
<1>11. CASE UNCHANGED vars
  BY <1>11 DEF vars
<1> QED
  BY <1>1, <1>2, <1>3, <1>4, <1>5, <1>6, <1>7, <1>8, <1>9, <1>10, <1>11 DEF Next, AdminStep

\* No request picks up a strategy that is paused and stays so.
LEMMA PausedStep == IInv /\ [Next]_vars => PausedOK'
<1> SUFFICES ASSUME IInv, [Next]_vars PROVE PausedOK'
  OBVIOUS
<1> USE DEF IInv, TypeOK, Records, NoRecord, config, admin, worker, Enter, Start, Says, Finish, RestOK, PausedOK
<1>1. ASSUME NEW d \in Admins, HaltRead(d) PROVE PausedOK'
  BY <1>1 DEF HaltRead
<1>2. ASSUME NEW d \in Admins, HaltSelect(d) PROVE PausedOK'
  BY <1>2 DEF HaltSelect
<1>3. ASSUME NEW d \in Admins, HaltUpdate(d) PROVE PausedOK'
  BY <1>3 DEF HaltUpdate
<1>4. ASSUME NEW d \in Admins, HaltUpsert(d) PROVE PausedOK'
  BY <1>4 DEF HaltUpsert
<1>5. ASSUME NEW d \in Admins, HaltCommit(d) PROVE PausedOK'
  BY <1>5 DEF HaltCommit
<1>6. ASSUME NEW d \in Admins, ResumeRead(d) PROVE PausedOK'
  BY <1>6 DEF ResumeRead
<1>7. ASSUME NEW d \in Admins, ResumeUpdate(d) PROVE PausedOK'
  BY <1>7 DEF ResumeUpdate
<1>8. ASSUME NEW d \in Admins, ResumeCommit(d) PROVE PausedOK'
  BY <1>8 DEF ResumeCommit
<1>9. ASSUME NEW t \in Strategies, Activate(t) \/ Pause(t) PROVE PausedOK'
  BY <1>9 DEF Activate, Pause, Undisturbed
<1>10. ASSUME NEW a \in Attempts, CheckHalt(a) \/ CheckActive(a) \/ Execute(a) \/ Again(a)
      PROVE  PausedOK'
  BY <1>10 DEF CheckHalt, CheckActive, Execute, Again
<1>11. CASE UNCHANGED vars
  BY <1>11 DEF vars
<1> QED
  BY <1>1, <1>2, <1>3, <1>4, <1>5, <1>6, <1>7, <1>8, <1>9, <1>10, <1>11 DEF Next, AdminStep

\* The one request open finds what its last statement left; a second one makes
\* every strategy that should run stray.
LEMMA WantedStep == IInv /\ [Next]_vars => WantedOK'
<1> SUFFICES ASSUME IInv, [Next]_vars PROVE WantedOK'
  OBVIOUS
<1> USE DEF IInv, TypeOK, Records, NoRecord, config, admin, worker, Enter, Start, Says, Finish, RestOK, WantedOK, Alone, Carries
<1>1. ASSUME NEW d \in Admins, HaltRead(d) PROVE WantedOK'
  BY <1>1 DEF HaltRead
<1>2. ASSUME NEW d \in Admins, HaltSelect(d) PROVE WantedOK'
  BY <1>2 DEF HaltSelect
<1>3. ASSUME NEW d \in Admins, HaltUpdate(d) PROVE WantedOK'
  BY <1>3 DEF HaltUpdate
<1>4. ASSUME NEW d \in Admins, HaltUpsert(d) PROVE WantedOK'
  BY <1>4 DEF HaltUpsert
<1>5. ASSUME NEW d \in Admins, HaltCommit(d) PROVE WantedOK'
  BY <1>5 DEF HaltCommit
<1>6. ASSUME NEW d \in Admins, ResumeRead(d) PROVE WantedOK'
  BY <1>6 DEF ResumeRead
<1>7. ASSUME NEW d \in Admins, ResumeUpdate(d) PROVE WantedOK'
  BY <1>7 DEF ResumeUpdate
<1>8. ASSUME NEW d \in Admins, ResumeCommit(d) PROVE WantedOK'
  BY <1>8 DEF ResumeCommit
<1>9. ASSUME NEW t \in Strategies, Activate(t) \/ Pause(t) PROVE WantedOK'
  BY <1>9 DEF Activate, Pause, Undisturbed
<1>10. ASSUME NEW a \in Attempts, CheckHalt(a) \/ CheckActive(a) \/ Execute(a) \/ Again(a)
      PROVE  WantedOK'
  BY <1>10 DEF CheckHalt, CheckActive, Execute, Again
<1>11. CASE UNCHANGED vars
  BY <1>11 DEF vars
<1> QED
  BY <1>1, <1>2, <1>3, <1>4, <1>5, <1>6, <1>7, <1>8, <1>9, <1>10, <1>11 DEF Next, AdminStep

LEMMA Invariance == Spec => []IInv
<1>1. IInv /\ [Next]_vars => IInv'
  BY TypeStep, RestStep, PausedStep, WantedStep DEF IInv
<1> QED BY <1>1, InitOK, PTL DEF Spec

-----------------------------------------------------------------------------
\* Type correctness.
THEOREM SwitchTypeOK == Spec => []TypeOK
BY InitOK, TypeStep, PTL DEF Spec, IInv

\* No strategy is active while trading is halted, but those whose owner has acted
\* since or that overlapping requests left behind.
THEOREM HaltIsComplete == Spec => []HaltedMeansIdle
<1>1. IInv => HaltedMeansIdle
  BY DEF IInv, TypeOK, PausedOK, WantedOK, HaltedMeansIdle
<1> QED BY <1>1, Invariance, PTL

\* Halt and resume cancel out: with trading on, what runs is what owners want, for
\* every strategy that has not strayed.
THEOREM HaltCancelsOut == Spec => []OwnersObeyed
<1>1. IInv => OwnersObeyed
  BY DEF IInv, PausedOK, WantedOK, OwnersObeyed, Undisturbed
<1> QED BY <1>1, Invariance, PTL

\* An attempt that read the flag before a halt does not get past its second
\* read after it: by then its strategy is inactive.
THEOREM HaltStopsAttempts == Spec => NoneClearedWhileHalted
<1> DEFINE Clears == \A a \in Attempts :
                        pc'[a] = "cleared" /\ pc[a] # "cleared"
                           => ~halt.halted \/ target[a] \in strayed
<1>1. IInv /\ [Next]_vars => [Clears]_vars
  <2> SUFFICES ASSUME IInv, Next, NEW a \in Attempts,
                      pc'[a] = "cleared", pc[a] # "cleared"
               PROVE  ~halt.halted \/ target[a] \in strayed
    BY DEF vars
  <2> USE DEF IInv, TypeOK, admin, worker
  <2>1. ASSUME NEW d \in Admins, AdminStep(d) PROVE FALSE
    BY <2>1 DEF AdminStep, HaltRead, HaltSelect, HaltUpdate, HaltUpsert,
                HaltCommit, ResumeRead, ResumeUpdate, ResumeCommit
  <2>2. ASSUME NEW t \in Strategies, Activate(t) \/ Pause(t) PROVE FALSE
    BY <2>2 DEF Activate, Pause
  <2>3. ASSUME NEW b \in Attempts, CheckHalt(b) \/ Execute(b) \/ Again(b)
        PROVE  FALSE
    BY <2>3 DEF CheckHalt, Execute, Again
  <2>4. ASSUME NEW b \in Attempts, CheckActive(b)
        PROVE  ~halt.halted \/ target[a] \in strayed
    BY <2>4 DEF CheckActive, PausedOK, WantedOK
  <2> QED BY <2>1, <2>2, <2>3, <2>4 DEF Next
<1> QED BY <1>1, Invariance, PTL DEF Spec, NoneClearedWhileHalted
=============================================================================
