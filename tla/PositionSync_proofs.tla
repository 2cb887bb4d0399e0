------------------------ MODULE PositionSync_proofs ------------------------
(***************************************************************************)
(* Proofs about the monitor and the close endpoint, for every set of       *)
(* executions, accounts, overlapping monitors and close requests.          *)
(*                                                                         *)
(* Nothing locks a row between the moment a run or a request finds its     *)
(* position gone and the moment it writes CLOSED.  What makes that safe is *)
(* that a position never comes back: an execution opens once, and closed   *)
(* quantity stays closed.  What is seen once holds for ever; what is seen  *)
(* wrongly, or not seen at all, is accounted for by one of three causes.   *)
(***************************************************************************)
EXTENDS PositionSync, TLAPS

\* Every action keeps the state well-formed.
LEMMA TypeStep == TypeOK /\ [Next]_vars => TypeOK'
<1> SUFFICES ASSUME TypeOK, [Next]_vars PROVE TypeOK'
  OBVIOUS
<1> USE ConstantsOK DEF TypeOK, platform, exchange, monitor, history, Goto
<1>1. ASSUME NEW m \in Monitors, StartRun(m)     PROVE TypeOK'
  BY <1>1 DEF StartRun
<1>2. ASSUME NEW m \in Monitors, NEW c \in Accounts, NEW missing \in SUBSET batch[m],
             MarkGone(m, c, missing), blinded' \subseteq Rows
      PROVE  TypeOK'
  BY <1>2 DEF MarkGone
<1>3. ASSUME NEW m \in Monitors, NEW c \in Accounts,
             Visit(m, c) \/ VisitBlind(m, c) \/ VisitSkips(m, c)
      PROVE  TypeOK'
  <2>1. \E missing \in SUBSET batch[m] : MarkGone(m, c, missing)
    BY <1>3 DEF Visit, VisitBlind, VisitSkips
  <2>2. blinded' \subseteq Rows
    BY <1>3 DEF Visit, VisitBlind, VisitSkips
  <2> QED BY <2>1, <2>2, <1>2
<1>4. ASSUME NEW m \in Monitors, NEW c \in Accounts, VisitAborts(m, c)
      PROVE  TypeOK'
  BY <1>4 DEF VisitAborts, EndRun
<1>5. ASSUME NEW m \in Monitors, FinishRun(m) PROVE TypeOK'
  BY <1>5 DEF FinishRun, EndRun
<1>6. ASSUME NEW m \in Monitors, CrashRun(m)  PROVE TypeOK'
  BY <1>6 DEF CrashRun, EndRun
<1>7. ASSUME NEW q \in Requests, Receive(q)   PROVE TypeOK'
  BY <1>7 DEF Receive
<1>8. ASSUME NEW q \in Requests, Fetch(q) \/ FetchFails(q) PROVE TypeOK'
  BY <1>8 DEF Fetch, FetchFails
<1>9. ASSUME NEW q \in Requests,
             CloseOrder(q) \/ CloseOrderUnfilled(q) \/ CloseOrderFails(q)
      PROVE  TypeOK'
  BY <1>9 DEF CloseOrder, CloseOrderUnfilled, CloseOrderFails, Reduce, Holding
<1>10. ASSUME NEW q \in Requests, Settle(q) \/ CrashRequest(q) PROVE TypeOK'
  BY <1>10 DEF Settle, CrashRequest
<1>11. ASSUME NEW e \in Rows, Open(e) \/ ExchangeClose(e) \/ Delete(e) PROVE TypeOK'
  BY <1>11 DEF Open, ExchangeClose, Delete
<1>12. ASSUME NEW c \in Accounts, Disconnect(c) \/ SwitchAccount(c) PROVE TypeOK'
  BY <1>12 DEF Disconnect, SwitchAccount
<1>13. CASE UNCHANGED vars
  BY <1>13 DEF vars
<1> QED
  BY <1>1, <1>3, <1>4, <1>5, <1>6, <1>7, <1>8, <1>9, <1>10, <1>11, <1>12, <1>13
     DEF Next, MonitorStep, RequestStep

\* The state stays well-formed whatever overlaps and fails.
THEOREM SyncTypeOK == Spec => []TypeOK
<1>1. Init => TypeOK
  BY DEF Init, TypeOK
<1> QED BY <1>1, TypeStep, PTL DEF Spec

-----------------------------------------------------------------------------
(***************************************************************************)
(* CLOSED means gone.                                                      *)
(***************************************************************************)

\* Quantity that is open, though it is taken for closed, has a cause.
Explained(e) ==
    lot[e] = "open" =>
        \/ e \in moved \union unfilled
        \/ e \in blinded /\ VenueOf[AccountOf[e]] = "hyperliquid"

\* What a run or a request has in hand has been opened.
OpenedOK ==
    /\ \A e \in Rows : row[e] = "absent" <=> lot[e] = "none"
    /\ \A m \in Monitors : \A e \in batch[m] \union gone[m] : lot[e] # "none"
    /\ \A q \in Requests : rpc[q] \in {"fetch", "order", "settle"} => lot[TargetOf[q]] # "none"

\* What it is about to close is explained already, like what has been closed.
GoneOK ==
    /\ \A e \in Rows : row[e] = "CLOSED" => Explained(e)
    /\ \A m \in Monitors : \A e \in gone[m] : Explained(e)
    /\ \A q \in Requests : rpc[q] = "settle" => Explained(TargetOf[q])

IInv == TypeOK /\ OpenedOK /\ GoneOK

LEMMA InitOK == Init => IInv
BY DEF Init, IInv, TypeOK, OpenedOK, GoneOK, Explained

\* A position that a truthful answer does not show is closed, or elsewhere.
LEMMA FlatIsExplained ==
    ASSUME NEW e \in Rows, Flat(e)
    PROVE  Explained(e)
BY DEF Flat, Holding, Explained

\* An execution that has been opened is not opened again, and its causes stay.
Keeps ==
    /\ \A e \in Rows : lot[e] # "none" => lot'[e] \in {lot[e], "closed"}
    /\ moved \subseteq moved'
    /\ blinded \subseteq blinded'
    /\ unfilled \subseteq unfilled'

LEMMA ExplainedStays ==
    ASSUME Keeps, NEW e \in Rows, lot[e] # "none", Explained(e)
    PROVE  Explained(e)'
BY DEF Keeps, Explained

\* No step opens an execution again, and what it takes into its hands to close
\* is explained.
LEMMA GoneStep ==
    IInv /\ [Next]_vars => OpenedOK' /\ GoneOK'
<1> SUFFICES ASSUME IInv, [Next]_vars
             PROVE  OpenedOK' /\ GoneOK'
  OBVIOUS
<1> USE ConstantsOK DEF IInv, TypeOK, OpenedOK, platform, exchange, monitor, history, Goto
\* It is enough to look at what is new in the hands of runs and requests.
<1>0. ASSUME Keeps, OpenedOK',
             \A e \in Rows : row'[e] = "CLOSED" =>
                \/ row[e] = "CLOSED"
                \/ \E m \in Monitors : e \in gone[m]
                \/ \E q \in Requests : rpc[q] = "settle" /\ TargetOf[q] = e,
             \A m \in Monitors : \A e \in gone'[m] : e \in gone[m] \/ Explained(e)',
             \A q \in Requests : rpc'[q] = "settle" =>
                rpc[q] = "settle" \/ Explained(TargetOf[q])'
      PROVE  OpenedOK' /\ GoneOK'
  <2>1. \A e \in Rows : row'[e] = "CLOSED" => Explained(e)'
    <3> SUFFICES ASSUME NEW e \in Rows, row'[e] = "CLOSED" PROVE Explained(e)'
      OBVIOUS
    <3>1. Explained(e) /\ lot[e] # "none"
      BY <1>0 DEF GoneOK
    <3> QED BY <3>1, <1>0, ExplainedStays
  <2>2. \A m \in Monitors : \A e \in gone'[m] : Explained(e)'
    BY <1>0, ExplainedStays DEF GoneOK
  <2>3. \A q \in Requests : rpc'[q] = "settle" => Explained(TargetOf[q])'
    BY <1>0, ExplainedStays DEF GoneOK
  <2> QED BY <1>0, <2>1, <2>2, <2>3 DEF GoneOK
<1>1. ASSUME NEW m \in Monitors, StartRun(m)
      PROVE  OpenedOK' /\ GoneOK'
  BY <1>1, <1>0 DEF StartRun, Keeps
<1>2. ASSUME NEW m \in Monitors, NEW c \in Accounts, NEW missing \in SUBSET batch[m],
             \A e \in missing : Explained(e)', blinded \subseteq blinded',
             MarkGone(m, c, missing)
      PROVE  OpenedOK' /\ GoneOK'
  <2>1. Keeps
    BY <1>2 DEF MarkGone, Keeps
  <2>2. OpenedOK' /\ row' = row /\ rpc' = rpc
    BY <1>2 DEF MarkGone
  <2>3. \A n \in Monitors : \A e \in gone'[n] : e \in gone[n] \/ e \in missing
    BY <1>2 DEF MarkGone
  <2> QED BY <2>1, <2>2, <2>3, <1>2, <1>0
<1>3. ASSUME NEW m \in Monitors, NEW c \in Accounts, Visit(m, c)
      PROVE  OpenedOK' /\ GoneOK'
  <2> DEFINE missing == {e \in batch[m] : AccountOf[e] = c /\ Flat(e)}
  <2>1. MarkGone(m, c, missing) /\ blinded' = blinded
    BY <1>3 DEF Visit
  <2>2. \A e \in missing : Explained(e) /\ lot[e] # "none"
    BY FlatIsExplained
  <2>3. Keeps
    BY <2>1 DEF MarkGone, Keeps
  <2>4. \A e \in missing : Explained(e)'
    BY <2>2, <2>3, ExplainedStays
  <2> QED BY <2>1, <2>4, <1>2
<1>4. ASSUME NEW m \in Monitors, NEW c \in Accounts, VisitSkips(m, c)
      PROVE  OpenedOK' /\ GoneOK'
  <2>1. PICK missing \in SUBSET batch[m] : missing = {}
    OBVIOUS
  <2> QED BY <1>4, <1>2, <2>1 DEF VisitSkips
<1>5. ASSUME NEW m \in Monitors, NEW c \in Accounts, VisitBlind(m, c)
      PROVE  OpenedOK' /\ GoneOK'
  <2> DEFINE missing == {e \in batch[m] : AccountOf[e] = c}
  <2>1. MarkGone(m, c, missing) /\ blinded' = blinded \union missing
        /\ VenueOf[c] = "hyperliquid"
    BY <1>5 DEF VisitBlind
  <2>2. \A e \in missing : Explained(e)'
    BY <2>1 DEF Explained
  <2> QED BY <2>1, <2>2, <1>2
<1>6. ASSUME NEW m \in Monitors, NEW c \in Accounts, VisitAborts(m, c)
      PROVE  OpenedOK' /\ GoneOK'
  BY <1>6, <1>0 DEF VisitAborts, EndRun, Keeps
<1>7. ASSUME NEW m \in Monitors, FinishRun(m)
      PROVE  OpenedOK' /\ GoneOK'
  <2>1. UNCHANGED <<lot, moved, rpc, blinded, unfilled>>
    BY <1>7 DEF FinishRun
  <2>2. \A n \in Monitors : batch'[n] \subseteq batch[n] /\ gone'[n] \subseteq gone[n]
    BY <1>7 DEF FinishRun, EndRun
  <2>3. \A e \in Rows : row'[e] = row[e] \/ (e \in gone[m] /\ row'[e] = "CLOSED")
    BY <1>7 DEF FinishRun
  <2>4. Keeps
    BY <2>1 DEF Keeps
  <2>5. OpenedOK'
    BY <2>1, <2>2, <2>3
  <2> QED BY <2>1, <2>2, <2>3, <2>4, <2>5, <1>0
<1>8. ASSUME NEW m \in Monitors, CrashRun(m)
      PROVE  OpenedOK' /\ GoneOK'
  BY <1>8, <1>0 DEF CrashRun, EndRun, Keeps
<1>9. ASSUME NEW q \in Requests, Receive(q)
      PROVE  OpenedOK' /\ GoneOK'
  BY <1>9, <1>0 DEF Receive, Keeps
<1>10. ASSUME NEW q \in Requests, Fetch(q)
       PROVE  OpenedOK' /\ GoneOK'
  <2>1. Flat(TargetOf[q]) => Explained(TargetOf[q])
    BY FlatIsExplained
  <2>2. Keeps
    BY <1>10 DEF Fetch, Keeps
  <2>3. rpc'[q] = "settle" => Explained(TargetOf[q])'
    BY <1>10, <2>1, <2>2, ExplainedStays DEF Fetch
  <2> QED BY <1>10, <2>2, <2>3, <1>0 DEF Fetch
<1>11. ASSUME NEW q \in Requests, FetchFails(q)
       PROVE  OpenedOK' /\ GoneOK'
  <2>1. Keeps
    BY <1>11 DEF FetchFails, Keeps
  <2>2. rpc'[q] = "settle" => Explained(TargetOf[q])'
    BY <1>11 DEF FetchFails, Explained
  <2> QED BY <1>11, <2>1, <2>2, <1>0 DEF FetchFails
<1>12. ASSUME NEW q \in Requests, Reduce(TargetOf[q]), UNCHANGED history
       PROVE  /\ Keeps
              /\ \A e \in Rows : lot'[e] = "none" <=> lot[e] = "none"
              /\ lot[TargetOf[q]] = "open" => TargetOf[q] \in moved \/ lot'[TargetOf[q]] = "closed"
              /\ UNCHANGED moved
  BY <1>12 DEF Reduce, Holding, Keeps
<1>13. ASSUME NEW q \in Requests, CloseOrder(q)
       PROVE  OpenedOK' /\ GoneOK'
  <2>1. /\ Keeps
        /\ \A e \in Rows : lot'[e] = "none" <=> lot[e] = "none"
        /\ lot[TargetOf[q]] = "open" => TargetOf[q] \in moved' \/ lot'[TargetOf[q]] = "closed"
        /\ rpc[q] = "order"
    BY <1>12, <1>13 DEF CloseOrder
  <2>2. Explained(TargetOf[q])'
    BY <2>1 DEF Explained, Keeps
  <2>3. OpenedOK'
    BY <1>13, <2>1 DEF CloseOrder
  <2> QED BY <1>13, <2>1, <2>2, <2>3, <1>0 DEF CloseOrder
<1>14. ASSUME NEW q \in Requests, CloseOrderFails(q)
       PROVE  OpenedOK' /\ GoneOK'
  <2>1. /\ Keeps
        /\ \A e \in Rows : lot'[e] = "none" <=> lot[e] = "none"
    BY <1>12, <1>14 DEF CloseOrderFails, Keeps
  <2>2. OpenedOK'
    BY <1>14, <2>1 DEF CloseOrderFails
  <2> QED BY <1>14, <2>1, <2>2, <1>0 DEF CloseOrderFails
<1>15. ASSUME NEW q \in Requests, CloseOrderUnfilled(q)
       PROVE  OpenedOK' /\ GoneOK'
  <2>1. Keeps
    BY <1>15 DEF CloseOrderUnfilled, Keeps
  <2>2. Explained(TargetOf[q])'
    BY <1>15 DEF CloseOrderUnfilled, Explained
  <2> QED BY <1>15, <2>1, <2>2, <1>0 DEF CloseOrderUnfilled
<1>16. ASSUME NEW q \in Requests, Settle(q)
       PROVE  OpenedOK' /\ GoneOK'
  <2>1. Keeps
    BY <1>16 DEF Settle, Keeps
  <2>2. OpenedOK'
    BY <1>16 DEF Settle
  <2>3. \A e \in Rows : row'[e] = row[e] \/ e = TargetOf[q]
    BY <1>16 DEF Settle
  <2> QED BY <1>16, <2>1, <2>2, <2>3, <1>0 DEF Settle
<1>17. ASSUME NEW q \in Requests, CrashRequest(q)
       PROVE  OpenedOK' /\ GoneOK'
  BY <1>17, <1>0 DEF CrashRequest, Keeps
<1>18. ASSUME NEW e \in Rows, Open(e)
       PROVE  OpenedOK' /\ GoneOK'
  BY <1>18, <1>0 DEF Open, Keeps
<1>19. ASSUME NEW e \in Rows, ExchangeClose(e)
       PROVE  OpenedOK' /\ GoneOK'
  BY <1>19, <1>0 DEF ExchangeClose, Keeps
<1>20. ASSUME NEW e \in Rows, Delete(e)
       PROVE  OpenedOK' /\ GoneOK'
  BY <1>20, <1>0 DEF Delete, Keeps
<1>21. ASSUME NEW c \in Accounts, Disconnect(c)
       PROVE  OpenedOK' /\ GoneOK'
  BY <1>21, <1>0 DEF Disconnect, Keeps
<1>22. ASSUME NEW c \in Accounts, SwitchAccount(c)
       PROVE  OpenedOK' /\ GoneOK'
  BY <1>22, <1>0 DEF SwitchAccount, Keeps
<1>23. CASE UNCHANGED vars
  BY <1>23, <1>0 DEF vars, Keeps
<1> QED
  BY <1>1, <1>3, <1>4, <1>5, <1>6, <1>7, <1>8, <1>9, <1>10, <1>11, <1>13,
     <1>14, <1>15, <1>16, <1>17, <1>18, <1>19, <1>20, <1>21, <1>22, <1>23
     DEF Next, MonitorStep, RequestStep

\* A CLOSED row hides a live position for one of three causes only, however many
\* monitors and requests overlap, fail and crash.
THEOREM ClosedMeansGone == Spec => []ClosedIsGone
<1>1. IInv /\ [Next]_vars => IInv'
  BY TypeStep, GoneStep DEF IInv
<1>2. IInv => ClosedIsGone
  BY DEF IInv, GoneOK, Explained, ClosedIsGone
<1> QED BY <1>1, <1>2, InitOK, PTL DEF Spec

-----------------------------------------------------------------------------
(***************************************************************************)
(* The executions table implements ExecutionLedger, with no assumption on  *)
(* the exchanges: a run and a request close rows, an opening records one,  *)
(* a deletion retires one, and every other step leaves the table alone.    *)
(***************************************************************************)

Booked == {e \in Rows : row[e] \in {"FILLED", "CLOSED"}}
Table == {[key |-> e, status |-> row[e]] : e \in Booked}
Retired == {e \in Rows : row[e] = "deleted"}

\* Whatever a run or a request has read exists, or existed.
SeenOK ==
    /\ \A m \in Monitors : \A e \in batch[m] \union gone[m] : row[e] # "absent"
    /\ \A q \in Requests : rpc[q] \in {"fetch", "order", "settle"} => row[TargetOf[q]] # "absent"

\* No step takes a row back to absent.
LEMMA SeenStep == TypeOK /\ SeenOK /\ [Next]_vars => SeenOK'
<1> SUFFICES ASSUME TypeOK, SeenOK, [Next]_vars PROVE SeenOK'
  OBVIOUS
<1> USE ConstantsOK DEF TypeOK, SeenOK, platform, exchange, monitor, history, Goto
<1>1. ASSUME NEW m \in Monitors, StartRun(m)     PROVE SeenOK'
  BY <1>1 DEF StartRun
<1>2. ASSUME NEW m \in Monitors, NEW c \in Accounts, NEW missing \in SUBSET batch[m],
             MarkGone(m, c, missing)
      PROVE  SeenOK'
  BY <1>2 DEF MarkGone
<1>3. ASSUME NEW m \in Monitors, NEW c \in Accounts,
             Visit(m, c) \/ VisitBlind(m, c) \/ VisitSkips(m, c)
      PROVE  SeenOK'
  <2>1. \E missing \in SUBSET batch[m] : MarkGone(m, c, missing)
    BY <1>3 DEF Visit, VisitBlind, VisitSkips
  <2> QED BY <2>1, <1>2
<1>4. ASSUME NEW m \in Monitors, NEW c \in Accounts, VisitAborts(m, c)
      PROVE  SeenOK'
  BY <1>4 DEF VisitAborts, EndRun
<1>5. ASSUME NEW m \in Monitors, FinishRun(m)
      PROVE  SeenOK'
  <2>1. UNCHANGED rpc
    BY <1>5 DEF FinishRun
  <2>2. \A n \in Monitors : batch'[n] \subseteq batch[n] /\ gone'[n] \subseteq gone[n]
    BY <1>5 DEF FinishRun, EndRun
  <2>3. \A e \in Rows : row'[e] \in {row[e], "CLOSED"}
    BY <1>5 DEF FinishRun
  <2> QED BY <2>1, <2>2, <2>3
<1>6. ASSUME NEW m \in Monitors, CrashRun(m)  PROVE SeenOK'
  BY <1>6 DEF CrashRun, EndRun
<1>7. ASSUME NEW q \in Requests,
             \/ Receive(q) \/ Fetch(q) \/ FetchFails(q)
             \/ CloseOrder(q) \/ CloseOrderUnfilled(q) \/ CloseOrderFails(q)
      PROVE  SeenOK'
  BY <1>7 DEF Receive, Fetch, FetchFails, CloseOrder, CloseOrderUnfilled, CloseOrderFails
<1>8. ASSUME NEW q \in Requests, Settle(q) \/ CrashRequest(q) PROVE SeenOK'
  BY <1>8 DEF Settle, CrashRequest
<1>9. ASSUME NEW e \in Rows, Open(e) \/ ExchangeClose(e) \/ Delete(e) PROVE SeenOK'
  BY <1>9 DEF Open, ExchangeClose, Delete
<1>10. ASSUME NEW c \in Accounts, Disconnect(c) \/ SwitchAccount(c) PROVE SeenOK'
  BY <1>10 DEF Disconnect, SwitchAccount
<1>11. CASE UNCHANGED vars
  BY <1>11 DEF vars
<1> QED
  BY <1>1, <1>3, <1>4, <1>5, <1>6, <1>7, <1>8, <1>9, <1>10, <1>11
     DEF Next, MonitorStep, RequestStep

LEMMA InitRefines == Init => Ledger!Init
<1> SUFFICES ASSUME Init PROVE Ledger!Init
  OBVIOUS
<1>1. Table = {} /\ Retired = {}
  BY DEF Init, Table, Booked, Retired
<1> QED BY <1>1 DEF Ledger!Init, Table, Booked, Retired

\* Writing CLOSED over a set of rows that exist closes the FILLED ones.
LEMMA WritesClose ==
    ASSUME TypeOK, NEW K \in SUBSET Rows, \A e \in K : e \in Booked,
           row' = [e \in Rows |-> IF e \in K THEN "CLOSED" ELSE row[e]]
    PROVE  Ledger!Close(K)
<1> DEFINE after(r) == IF r.key \in K /\ r.status = "FILLED"
                         THEN [r EXCEPT !.status = "CLOSED"] ELSE r
<1>1. \A e \in Booked :
         [key |-> e, status |-> row'[e]] = after([key |-> e, status |-> row[e]])
  <2> SUFFICES ASSUME NEW e \in Booked
               PROVE  [key |-> e, status |-> row'[e]]
                        = after([key |-> e, status |-> row[e]])
    OBVIOUS
  <2>1. e \in Rows /\ row[e] \in {"FILLED", "CLOSED"}
    BY DEF Booked
  <2>2. CASE e \in K /\ row[e] = "FILLED"
    BY <2>1, <2>2
  <2>3. CASE ~(e \in K /\ row[e] = "FILLED")
    <3>1. row'[e] = row[e]
      BY <2>1, <2>3
    <3> QED BY <2>3, <3>1
  <2> QED BY <2>2, <2>3
<1>2. Booked' = Booked
  BY DEF Booked
<1>3. Retired' = Retired
  BY DEF Retired, Booked
<1> HIDE DEF after
<1>4. Table' = {after(r) : r \in Table}
  BY <1>1, <1>2 DEF Table
<1> QED BY <1>3, <1>4 DEF Ledger!Close, Table, Booked, Retired, after

\* An opening records the first row of an execution.
LEMMA OpenRecords ==
    ASSUME TypeOK, NEW e \in Rows, Open(e)
    PROVE  Ledger!Record(e, "FILLED")
<1>1. row[e] = "absent" /\ row' = [row EXCEPT ![e] = "FILLED"]
  BY DEF Open
<1>2. Booked' = Booked \union {e} /\ e \notin Booked
  BY <1>1 DEF TypeOK, Booked
<1>3. \A f \in Booked : row'[f] = row[f]
  BY <1>1 DEF TypeOK, Booked
<1>4. row'[e] = "FILLED"
  BY <1>1 DEF TypeOK
<1>5. Table' = Table \union {[key |-> e, status |-> "FILLED"]}
  BY <1>2, <1>3, <1>4 DEF Table
<1>6. ~(\E r \in Table : r.key = e)
  BY <1>2 DEF Table
<1>7. e \notin Retired /\ Retired' = Retired
  BY <1>1 DEF TypeOK, Retired
<1> QED BY <1>5, <1>6, <1>7 DEF Ledger!Record, Ledger!HasRow, Table, Booked, Retired

\* A deletion takes the row away for good.
LEMMA DeleteRetires ==
    ASSUME TypeOK, NEW e \in Rows, Delete(e)
    PROVE  Ledger!Retire({e})
<1>1. row' = [row EXCEPT ![e] = "deleted"]
  BY DEF Delete
<1>2. Booked' = Booked \ {e}
  BY <1>1 DEF TypeOK, Booked
<1>3. \A f \in Booked' : row'[f] = row[f]
  BY <1>1, <1>2 DEF TypeOK, Booked
<1>4. Table' = {r \in Table : r.key \notin {e}}
  BY <1>2, <1>3 DEF Table
<1>5. Retired' = Retired \union {e}
  BY <1>1 DEF TypeOK, Retired
<1> QED BY <1>4, <1>5 DEF Ledger!Retire, Table, Booked, Retired

\* Every step is a step of the ledger or leaves the ledger alone.
LEMMA StepRefines == TypeOK /\ SeenOK /\ [Next]_vars => [Ledger!Next]_(Ledger!vars)
<1> SUFFICES ASSUME TypeOK, SeenOK, [Next]_vars
             PROVE  [Ledger!Next]_(Ledger!vars)
  OBVIOUS
<1>1. ASSUME UNCHANGED row PROVE UNCHANGED Ledger!vars
  BY <1>1 DEF Ledger!vars
<1>2. ASSUME NEW K \in SUBSET Rows, \A e \in K : e \in Booked,
             row' = [e \in Rows |-> IF e \in K THEN "CLOSED" ELSE row[e]]
      PROVE  Ledger!Next
  <2>1. Ledger!Close(K)
    BY <1>2, WritesClose
  <2> QED BY <2>1 DEF Ledger!Next
<1> USE DEF platform, exchange, monitor, history
<1>3. ASSUME NEW m \in Monitors, MonitorStep(m) \/ CrashRun(m), ~FinishRun(m)
      PROVE  UNCHANGED row
  BY <1>3 DEF MonitorStep, CrashRun, StartRun, Visit, VisitBlind, VisitAborts,
              VisitSkips, MarkGone
<1>4. ASSUME NEW m \in Monitors, FinishRun(m)
      PROVE  [Ledger!Next]_(Ledger!vars)
  <2>1. CASE UNCHANGED row
    BY <2>1, <1>1
  <2>2. CASE ~(UNCHANGED row)
    <3>1. /\ ~(\E e \in gone[m] : row[e] = "deleted")
          /\ row' = [e \in Rows |-> IF e \in gone[m] THEN "CLOSED" ELSE row[e]]
      BY <1>4, <2>2 DEF FinishRun
    <3>2. gone[m] \in SUBSET Rows
      BY DEF TypeOK
    <3>3. \A e \in gone[m] : e \in Booked
      BY <3>1, <3>2 DEF TypeOK, SeenOK, Booked
    <3>4. PICK K \in SUBSET Rows : K = gone[m]
      BY <3>2
    <3> QED BY <3>1, <3>3, <3>4, <1>2
  <2> QED BY <2>1, <2>2
<1>5. ASSUME NEW q \in Requests, RequestStep(q) \/ CrashRequest(q), ~Settle(q)
      PROVE  UNCHANGED row
  BY <1>5 DEF RequestStep, CrashRequest, Receive, Fetch, FetchFails, CloseOrder,
              CloseOrderUnfilled, CloseOrderFails
<1>6. ASSUME NEW q \in Requests, Settle(q)
      PROVE  [Ledger!Next]_(Ledger!vars)
  <2> DEFINE e == TargetOf[q]
  <2>1. e \in Rows
    BY ConstantsOK
  <2>2. CASE row[e] = "deleted"
    BY <1>6, <2>2, <1>1 DEF Settle
  <2>3. CASE row[e] # "deleted"
    <3>1. row' = [row EXCEPT ![e] = "CLOSED"]
      BY <1>6, <2>3 DEF Settle
    <3>2. row' = [f \in Rows |-> IF f \in {e} THEN "CLOSED" ELSE row[f]]
      BY <3>1, <2>1 DEF TypeOK
    <3>3. e \in Booked
      BY <1>6, <2>1, <2>3 DEF Settle, TypeOK, SeenOK, Booked
    <3>4. PICK K \in SUBSET Rows : K = {e}
      BY <2>1
    <3> QED BY <3>2, <3>3, <3>4, <1>2
  <2> QED BY <2>2, <2>3
<1>7. ASSUME NEW e \in Rows, Open(e)
      PROVE  [Ledger!Next]_(Ledger!vars)
  BY <1>7, OpenRecords DEF Ledger!Next
<1>8. ASSUME NEW e \in Rows, Delete(e)
      PROVE  [Ledger!Next]_(Ledger!vars)
  BY <1>8, DeleteRetires DEF Ledger!Next
<1>9. ASSUME NEW e \in Rows, ExchangeClose(e)
      PROVE  UNCHANGED row
  BY <1>9 DEF ExchangeClose
<1>10. ASSUME NEW c \in Accounts, Disconnect(c) \/ SwitchAccount(c)
       PROVE  UNCHANGED row
  BY <1>10 DEF Disconnect, SwitchAccount
<1>11. CASE UNCHANGED vars
  BY <1>11, <1>1 DEF vars
<1> QED
  BY <1>1, <1>3, <1>4, <1>5, <1>6, <1>7, <1>8, <1>9, <1>10, <1>11 DEF Next

\* Overlapping monitors and requests move the executions table as
\* ExecutionLedger promises.
THEOREM SyncRefinesLedger == Spec => ImplementsLedger
<1>1. Init => SeenOK
  BY DEF Init, SeenOK
<1> QED
  BY <1>1, SyncTypeOK, SeenStep, InitRefines, StepRefines, PTL
     DEF Spec, ImplementsLedger, Ledger!Spec
=============================================================================
