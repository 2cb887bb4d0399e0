---------------------------- MODULE Billing_proofs ----------------------------
(***************************************************************************)
(* What Billing guarantees for every number of subscriptions and payments, *)
(* and of requests and deliveries that overlap: access is earned, a        *)
(* payment is booked again only by deliveries that were open together,     *)
(* money that has arrived does not leave its subscription waiting, and a   *)
(* trial goes to a user who had nothing when it was asked for.             *)
(***************************************************************************)
EXTENDS Billing, TLAPS

-----------------------------------------------------------------------------
(***************************************************************************)
(* Type correctness.                                                       *)
(***************************************************************************)

\* The changes the actions make to one subscription.
LEMMA Row ==
    ASSUME NEW r \in Subscription
    PROVE  /\ \A st \in Statuses : [r EXCEPT !.status = st] \in Subscription
           /\ \A d \in {"none", "later", "soon", "late"} : [r EXCEPT !.due = d] \in Subscription
           /\ [r EXCEPT !.grace = FALSE] \in Subscription
           /\ [r EXCEPT !.due = "later", !.grace = TRUE] \in Subscription
           /\ \A st \in Statuses : [r EXCEPT !.status = st, !.due = "later", !.grace = TRUE] \in Subscription
           /\ \A st \in Statuses, d \in {"none", "later", "soon", "late"}, o \in {"user", "trial", "admin"} :
                 [r EXCEPT !.status = st, !.due = d, !.origin = o] \in Subscription
           /\ r.due \in {"none", "later", "soon", "late"} /\ r.origin \in {"user", "trial", "admin"}
           /\ r.status \in Statuses \union {"absent"}
  BY DEF Subscription

LEMMA SameStatus ==
    ASSUME NEW r \in Subscription
    PROVE  [r EXCEPT !.status = r.status, !.due = "later", !.grace = TRUE] \in Subscription
  BY DEF Subscription

\* The row a delivery is filed under is a row of the table, or none yet.
LEMMA RowForType == ASSUME NEW p \in PaymentIds, TypeOK
                    PROVE  RowFor(p) \in Rows \union {0}
<1>1. CASE RowOf(p) # {}
  <2>1. RowFor(p) = CHOOSE r \in RowOf(p) : TRUE
    BY <1>1 DEF RowFor
  <2>2. (CHOOSE r \in RowOf(p) : TRUE) \in RowOf(p)
    BY <1>1
  <2> QED
    BY <2>1, <2>2 DEF RowOf
<1>2. CASE RowOf(p) = {} /\ Waiting(InvoiceOf[p]) # {}
  BY <1>2, BillingConstants DEF RowFor, Rows
<1>3. CASE RowOf(p) = {} /\ Waiting(InvoiceOf[p]) = {}
  <2>1. RowFor(p) = 0
    BY <1>3 DEF RowFor
  <2> QED
    BY <2>1
<1> QED
  BY <1>1, <1>2, <1>3

\* Storing a subscription and what its session changed in others.
LEMMA StoreType == ASSUME NEW c \in Clients, NEW n \in Subs, NEW new \in Subscription, TypeOK
                   PROVE  Store(c, n, new) \in [Subs -> Subscription]
<1>1. \A s \in Subs : /\ [subs[s] EXCEPT !.status = "CANCELLED"] \in Subscription
                     /\ [subs[s] EXCEPT !.status = "EXPIRED"] \in Subscription
                     /\ subs[s] \in Subscription
  BY Row DEF TypeOK, Statuses
<1> QED
  BY <1>1 DEF Store

\* The tables and the sessions keep the values their columns can hold.
THEOREM TypeCorrect == Spec => []TypeOK
<1>1. Init => TypeOK
  <2> SUFFICES ASSUME Init PROVE TypeOK
    OBVIOUS
  <2> USE BillingConstants DEF Init
  <2>1. NoSubscription \in Subscription /\ NoPayment \in Payment
    BY DEF NoSubscription, NoPayment, Subscription, Payment
  <2>2. subs \in [Subs -> Subscription] /\ payments \in [Rows -> Payment]
    BY <2>1
  <2>3. booked \in [PaymentIds -> 0..MaxBooked]
    OBVIOUS
  <2>4. client \in [Clients -> [at : {"idle", "trial", "invoice"}, expire : SUBSET Subs,
                                cancel : SUBSET Subs, set : Writes, had : SUBSET Subs]]
    BY DEF IdleClient, Writes
  <2>5. hook \in [Hooks -> [at : {"idle", "open"}, pid : PaymentIds \union {"none"},
                            status : PaymentStatuses, row : Rows \union {0},
                            seen : PaymentStatuses \union {"absent"},
                            activate : BOOLEAN, set : Writes]]
    BY DEF IdleHook, Writes, PaymentStatuses
  <2>6. /\ had \subseteq Subs /\ reset \subseteq Subs /\ crossed \subseteq PaymentIds
        /\ before \in [Subs -> SUBSET Subs]
    OBVIOUS
  <2> QED
    BY <2>2, <2>3, <2>4, <2>5, <2>6 DEF TypeOK
<1>2. TypeOK /\ [Next]_vars => TypeOK'
  <2> SUFFICES ASSUME TypeOK, [Next]_vars PROVE TypeOK'
    OBVIOUS
  <2> USE BillingConstants
  <2> USE DEF TypeOK
  <2>0. {"ACTIVE", "EXPIRING_SOON", "EXPIRED", "CANCELLED", "PENDING_PAYMENT"} \subseteq Statuses
    BY DEF Statuses
  <2>00. Counts => had' \subseteq Subs
    BY DEF Counts
  <2>1. CASE Request
    <3>1. \A s \in Subs : [subs[s] EXCEPT !.status = "EXPIRED"] \in Subscription
      BY <2>0, Row
    <3>2. subs' \in [Subs -> Subscription]
      BY <2>1, <3>1 DEF Request
    <3> QED
      BY <2>00, <2>1, <3>2 DEF Request, Corrected
  <2>2. ASSUME NEW c \in Clients, NEW kind \in {"trial", "invoice"}, Subscribe(c, kind)
        PROVE  TypeOK'
    <3>1. Expires \subseteq Subs /\ InStatus({"PENDING_PAYMENT"}) \subseteq Subs
      BY DEF Expires, Newest, InStatus, Created
    <3>2. Change(flag, IF kind = "trial" THEN TRUE ELSE Corrected) \in Writes
      BY DEF Change, Writes
    <3> QED
      BY <2>2, <3>1, <3>2 DEF Subscribe, table, history
  <2>3. ASSUME NEW c \in Clients, NEW n \in Subs, StartTrial(c, n)
        PROVE  TypeOK'
    <3> DEFINE new == [status |-> "ACTIVE", due |-> "later", grace |-> FALSE,
                       invoice |-> FALSE, origin |-> "trial"]
    <3>1. subs' \in [Subs -> Subscription]
      <4>1. new \in Subscription
        BY <2>0 DEF Subscription
      <4>2. subs' = Store(c, n, new)
        BY <2>3 DEF StartTrial
      <4> QED
        BY <4>1, <4>2, StoreType
    <3> QED
      BY <2>00, <2>3, <3>1 DEF StartTrial, Apply, IdleClient, Writes
  <2>4. ASSUME NEW c \in Clients, NEW n \in Subs, NEW i \in BOOLEAN, AwaitPayment(c, n, i)
        PROVE  TypeOK'
    <3> DEFINE new == [status |-> "PENDING_PAYMENT", due |-> "none", grace |-> FALSE,
                       invoice |-> i, origin |-> "user"]
    <3>1. subs' \in [Subs -> Subscription]
      <4>1. new \in Subscription
        BY <2>0 DEF Subscription
      <4>2. subs' = Store(c, n, new)
        BY <2>4 DEF AwaitPayment
      <4> QED
        BY <4>1, <4>2, StoreType
    <3>2. payments' \in [Rows -> Payment]
      <4>1. [status |-> "WAITING", pid |-> "none"] \in Payment
        BY DEF Payment, PaymentStatuses
      <4> QED
        BY <2>4, <4>1 DEF AwaitPayment
    <3> QED
      BY <2>00, <2>4, <3>1, <3>2 DEF AwaitPayment, Apply, IdleClient, Writes
  <2>5. ASSUME NEW h \in Hooks, NEW p \in PaymentIds, NEW st \in Reported, Webhook(h, p, st)
        PROVE  TypeOK'
    <3>1. RowFor(p) \in Rows \union {0}
      BY RowForType
    <3>2. (IF RowFor(p) = 0 THEN "absent" ELSE payments[RowFor(p)].status)
             \in PaymentStatuses \union {"absent"}
      BY <3>1 DEF Payment
    <3>3. (IF Activating(st) THEN Change(flag, TRUE) ELSE "keep") \in Writes
      BY DEF Change, Writes
    <3>4. (Activating(st) /\ subs[InvoiceOf[p]].status # "ACTIVE") \in BOOLEAN
      BY DEF Activating
    <3> QED
      <4>1. Meets(p) \subseteq PaymentIds
        BY DEF Meets
      <4> QED
        BY <2>5, <3>1, <3>2, <3>3, <3>4, <4>1 DEF Webhook, table
  <2>6. ASSUME NEW h \in Hooks, WebhookCommits(h)
        PROVE  TypeOK'
    <3> DEFINE p == hook[h].pid
               r == IF hook[h].row = 0 THEN p ELSE hook[h].row
    <3>1. payments' \in [Rows -> Payment]
      <4>1. payments' = [payments EXCEPT ![r] =
               [status |-> IF hook[h].status = hook[h].seen THEN payments[r].status ELSE hook[h].status,
                pid |-> p]]
        BY <2>6 DEF WebhookCommits, Receive
      <4>2. \A q \in Rows, st \in PaymentStatuses :
                /\ [status |-> st, pid |-> p] \in Payment
                /\ [status |-> payments[q].status, pid |-> p] \in Payment
        BY DEF Payment
      <4>3. hook[h].status \in PaymentStatuses
        OBVIOUS
      <4> QED
        BY <4>1, <4>2, <4>3
    <3>2. booked' \in [PaymentIds -> 0..MaxBooked]
      <4>1. CASE UNCHANGED booked
        BY <4>1
      <4>2. CASE booked[p] < MaxBooked /\ booked' = [booked EXCEPT ![p] = booked[p] + 1]
        <5>1. p \in PaymentIds => booked[p] + 1 \in 0..MaxBooked
          BY <4>2
        <5> QED
          BY <4>2, <5>1
      <4> QED
        BY <2>6, <4>1, <4>2 DEF WebhookCommits
    <3>3. subs' \in [Subs -> Subscription]
      <4>1. CASE UNCHANGED subs
        BY <4>1
      <4>2. CASE subs' = [subs EXCEPT ![InvoiceOf[hook[h].pid]] = Activated(h, InvoiceOf[hook[h].pid])]
        <5>1. \A s \in Subs : Activated(h, s) \in Subscription
          BY <2>0, Row, SameStatus DEF Activated
        <5> QED
          BY <4>2, <5>1
      <4> QED
        BY <2>6, <4>1, <4>2 DEF WebhookCommits
    <3> QED
      BY <2>00, <2>6, <3>1, <3>2, <3>3 DEF WebhookCommits, Apply, IdleHook, Writes, PaymentStatuses
  <2>7. ASSUME NEW h \in Hooks, WebhookLost(h)
        PROVE  TypeOK'
    BY <2>7 DEF WebhookLost, IdleHook, Writes, PaymentStatuses, table, history
  <2>8. CASE FindExpiring
    BY <2>8 DEF FindExpiring, InStatus, Created, table, history
  <2>9. CASE MarkExpiring
    <3>1. \A s \in Subs : [subs[s] EXCEPT !.status = "EXPIRING_SOON"] \in Subscription
      BY <2>0, Row
    <3> QED
      BY <2>00, <2>9, <3>1 DEF MarkExpiring
  <2>10. CASE NoticeLost
    BY <2>10 DEF NoticeLost, table, history
  <2>11. CASE Admin
    <3>1. ASSUME NEW n \in Subs, NEW st \in AdminStatuses, NEW d \in {"none", "later"}, AdminCreate(n, st, d)
          PROVE  TypeOK'
      <4>1. [status |-> st, due |-> d, grace |-> FALSE, invoice |-> FALSE, origin |-> "admin"] \in Subscription
        BY DEF Subscription
      <4> QED
        BY <2>00, <3>1, <4>1 DEF AdminCreate, Live
    <3>2. ASSUME NEW s \in Subs, NEW st \in AdminStatuses, NEW d \in {subs[s].due, "later"}, AdminOverride(s, st, d)
          PROVE  TypeOK'
      <4>1. d \in {"none", "later", "soon", "late"} /\ subs[s].origin \in {"user", "trial", "admin"}
        BY Row
      <4> DEFINE o == IF subs[s].origin = "trial" THEN "trial" ELSE "admin"
      <4>2. o \in {"user", "trial", "admin"}
        BY <4>1
      <4>3. st \in Statuses
        OBVIOUS
      <4>4. [subs[s] EXCEPT !.status = st, !.due = d, !.origin = o] \in Subscription
        BY <4>1, <4>2, <4>3, Row
      <4>5. subs' = [subs EXCEPT ![s] = [subs[s] EXCEPT !.status = st, !.due = d, !.origin = o]]
        BY <3>2 DEF AdminOverride
      <4>6. subs' \in [Subs -> Subscription]
        BY <4>4, <4>5
      <4>7. /\ flag' \in BOOLEAN /\ UNCHANGED <<payments, booked, client, hook, notice, before, crossed>>
            /\ had' \subseteq Subs /\ reset' \subseteq Subs
        BY <2>00, <3>2 DEF AdminOverride, Live
      <4> QED
        BY <4>6, <4>7
    <3>3. ASSUME NEW s \in Subs, AdminCancel(s)
          PROVE  TypeOK'
      <4>1. [subs[s] EXCEPT !.status = "CANCELLED"] \in Subscription
        BY <2>0, Row
      <4> QED
        BY <2>00, <3>3, <4>1 DEF AdminCancel
    <3> QED
      BY <2>11, <3>1, <3>2, <3>3 DEF Admin
  <2>12. ASSUME NEW s \in Subs, Elapse(s)
         PROVE  TypeOK'
    <3>1. /\ [subs[s] EXCEPT !.due = "soon"] \in Subscription
          /\ [subs[s] EXCEPT !.due = "late"] \in Subscription
          /\ [subs[s] EXCEPT !.grace = FALSE] \in Subscription
      BY Row
    <3>2. subs' \in [Subs -> Subscription]
      <4>1. \/ subs' = [subs EXCEPT ![s] = [subs[s] EXCEPT !.due = "soon"]]
            \/ subs' = [subs EXCEPT ![s] = [subs[s] EXCEPT !.due = "late"]]
            \/ subs' = [subs EXCEPT ![s] = [subs[s] EXCEPT !.grace = FALSE]]
        BY <2>12 DEF Elapse
      <4>2. subs \in [Subs -> Subscription]
        OBVIOUS
      <4> HIDE DEF TypeOK
      <4> QED
        BY <3>1, <4>1, <4>2
    <3> QED
      BY <2>12, <3>2 DEF Elapse, history
  <2>13. CASE UNCHANGED vars
    BY <2>13 DEF vars
  <2> QED
    BY <2>1, <2>2, <2>3, <2>4, <2>5, <2>6, <2>7, <2>8, <2>9, <2>10, <2>11, <2>12, <2>13 DEF Next
<1> QED
  BY <1>1, <1>2, PTL DEF Spec

-----------------------------------------------------------------------------
(***************************************************************************)
(* The inductive invariant behind ActiveIsEarned, BookedOnce and           *)
(* PaidIsNotWaiting.  Overlapping deliveries may undo each other's payment *)
(* rows, so access rests on the transactions booked, which stay; a         *)
(* delivery that overlapped none still finds its row as it read it.        *)
(***************************************************************************)

Given == {"trial", "admin"}
BookedFor(s) == \E p \in PaymentIds : InvoiceOf[p] = s /\ booked[p] > 0
Granted(s) == subs[s].origin \in Given \/ BookedFor(s)

\* A payment is filed in the row of its invoice or in one of its own.
RowsOK ==
    /\ \A r \in Rows, p \in PaymentIds :
          payments[r].pid = p => r \in {p, InvoiceOf[p]} /\ InvoiceOf[p] \in Created
    /\ \A r \in Rows : payments[r].pid = "none" => payments[r].status \notin Paid

BookedOK ==
    \A p \in PaymentIds \ crossed : booked[p] <= 1 /\ (booked[p] = 1 => Processed(p))

LiveOK == \A s \in InStatus(Live) : Granted(s)

NoticeOK == \A s \in notice : s \in Created /\ Granted(s)

\* A subscription that has counted counts until an admin sets it back.
HadOK ==
    /\ \A s \in Created : subs[s].status \notin Unsettled => s \in had
    /\ \A s \in had : s \in Created /\ (subs[s].status \in Unsettled => s \in reset)

PaidOK == \A s \in Subs : PaidFor(s) => s \in had

\* What the session of an open delivery knows, and what it knows as long as it
\* has met no other.
Knows(h) ==
    /\ hook[h].pid \in PaymentIds
    /\ InvoiceOf[hook[h].pid] \in Created
    /\ hook[h].row \in {0, hook[h].pid, InvoiceOf[hook[h].pid]}
    /\ hook[h].row # 0 => payments[hook[h].row].pid \in {hook[h].pid, "none"} \union crossed
    /\ Activating(hook[h].status) /\ ~hook[h].activate => InvoiceOf[hook[h].pid] \in had

Remembers(h) ==
    /\ ~Processed(hook[h].pid)
    /\ hook[h].row = 0 => hook[h].seen = "absent"
    /\ hook[h].row # 0 => hook[h].seen = payments[hook[h].row].status

HookOK ==
    \A h \in Hooks : hook[h].at = "open" =>
        Knows(h) /\ (hook[h].pid \notin crossed => Remembers(h))

CrossOK ==
    \A g, h \in Hooks :
        g # h /\ hook[g].at = "open" /\ hook[h].at = "open"
              /\ InvoiceOf[hook[g].pid] = InvoiceOf[hook[h].pid]
           => hook[g].pid \in crossed

Inv == RowsOK /\ BookedOK /\ LiveOK /\ NoticeOK /\ HadOK /\ PaidOK /\ HookOK /\ CrossOK

\* A step that touches no payment: it may add a subscription and its blank row.
Quiet ==
    /\ \A s \in Created : /\ subs'[s].status # "absent"
                          /\ subs[s].origin \in Given => subs'[s].origin \in Given
    /\ \A s \in Subs : subs'[s].status \in Live
                          => subs'[s].origin \in Given \/ s \in InStatus(Live) \union notice
    /\ \A s \in had : subs'[s].status \in Unsettled => s \in reset'
    /\ \A r \in Rows : \/ payments'[r] = payments[r]
                       \/ /\ r \in Subs \ Created
                          /\ payments'[r].pid = "none" /\ payments'[r].status \notin Paid
    /\ booked' = booked /\ crossed' = crossed
    /\ had' = had \union {s \in Subs : subs'[s].status \in Statuses \ Unsettled}
    /\ notice' \subseteq notice \union InStatus(Live)
    /\ \A h \in Hooks : hook'[h] = hook[h] \/ hook'[h] = IdleHook

\* The numbers of subscriptions, the payment ids and 0 name different rows.
LEMMA RowNames ==
    /\ \A p \in PaymentIds : p # "none" /\ p # 0 /\ p \notin Subs /\ p \in Rows
                             /\ InvoiceOf[p] \in Subs /\ InvoiceOf[p] # p
    /\ \A s \in Subs : s # 0 /\ s \in Rows
    /\ 0 \notin Rows
  BY BillingConstants DEF Rows, Subs

\* A row that a quiet step changes belonged to no payment.
LEMMA QuietRow ==
    ASSUME TypeOK, RowsOK, Quiet, NEW r \in Rows, payments'[r] # payments[r]
    PROVE  /\ payments[r].pid = "none" /\ payments'[r].pid = "none"
           /\ r \in Subs \ Created
<1>1. r \in Subs \ Created /\ payments'[r].pid = "none"
  BY DEF Quiet
<1>2. payments[r].pid \in PaymentIds \union {"none"}
  BY DEF TypeOK, Payment
<1>3. payments[r].pid \notin PaymentIds
  BY <1>1, RowNames DEF RowsOK
<1> QED
  BY <1>1, <1>2, <1>3

\* Such a step leaves what is filed under a payment id alone.
LEMMA QuietRows ==
    ASSUME TypeOK, RowsOK, Quiet
    PROVE  \A p \in PaymentIds : RowOf(p)' = RowOf(p) /\ Processed(p)' = Processed(p)
<1> SUFFICES ASSUME NEW p \in PaymentIds
             PROVE  RowOf(p)' = RowOf(p) /\ Processed(p)' = Processed(p)
  OBVIOUS
<1>0. p # "none"
  BY RowNames
<1>1. \A r \in Rows : payments'[r] # payments[r] => payments[r].pid = "none" /\ payments'[r].pid = "none"
  BY QuietRow
<1>2. RowOf(p)' = RowOf(p)
  BY <1>0, <1>1 DEF RowOf
<1>3. \A r \in RowOf(p) : payments'[r] = payments[r]
  BY <1>0, <1>1 DEF RowOf
<1> QED
  BY <1>2, <1>3 DEF Processed

\* Such a step keeps the invariant.
LEMMA QuietStep ==
    ASSUME TypeOK, TypeOK', Inv, Quiet
    PROVE  Inv'
<1>0. \A p \in PaymentIds : RowOf(p)' = RowOf(p) /\ Processed(p)' = Processed(p)
  BY QuietRows DEF Inv
<1>1. \A s \in Subs : PaidFor(s)' = PaidFor(s)
  BY <1>0 DEF PaidFor, Processed
<1>2. Created \subseteq Created'
  BY DEF Quiet, Created
<1>3. \A s \in Created : Granted(s) => Granted(s)'
  BY DEF Granted, BookedFor, Quiet, Created
<1>4. RowsOK'
  <2> SUFFICES ASSUME NEW r \in Rows
               PROVE  /\ \A p \in PaymentIds : payments'[r].pid = p
                            => r \in {p, InvoiceOf[p]} /\ InvoiceOf[p] \in Created'
                      /\ payments'[r].pid = "none" => payments'[r].status \notin Paid
    BY DEF RowsOK
  <2>1. CASE payments'[r] = payments[r]
    BY <1>2, <2>1 DEF Inv, RowsOK
  <2>2. CASE payments'[r] # payments[r]
    BY <2>2, RowNames DEF Quiet
  <2> QED
    BY <2>1, <2>2
<1>5. BookedOK'
  BY <1>0 DEF Inv, BookedOK, Quiet
<1>6. NoticeOK'
  BY <1>2, <1>3 DEF Inv, NoticeOK, LiveOK, Quiet, InStatus
<1>7. LiveOK'
  <2> SUFFICES ASSUME NEW s \in InStatus(Live)' PROVE Granted(s)'
    BY DEF LiveOK
  <2>1. s \in Subs /\ subs'[s].status \in Live
    BY DEF InStatus, Created
  <2>2. CASE subs'[s].origin \in Given
    BY <2>2 DEF Granted
  <2>3. CASE s \in InStatus(Live) \union notice
    BY <1>3, <2>3 DEF Inv, LiveOK, NoticeOK, InStatus
  <2> QED
    BY <2>1, <2>2, <2>3 DEF Quiet
<1>8. HadOK'
  <2>1. \A s \in Created' : subs'[s].status \notin Unsettled => s \in had'
    BY DEF Quiet, Created, TypeOK, Subscription
  <2>2. ASSUME NEW s \in had' PROVE s \in Created' /\ (subs'[s].status \in Unsettled => s \in reset')
    <3>1. CASE s \in had
      BY <1>2, <3>1 DEF Inv, HadOK, Quiet
    <3>2. CASE s \notin had
      BY <2>2, <3>2 DEF Quiet, Created, Statuses
    <3> QED
      BY <3>1, <3>2
  <2> QED
    BY <2>1, <2>2 DEF HadOK
<1>9. PaidOK'
  BY <1>1 DEF Inv, PaidOK, Quiet
<1>10. HookOK'
  <2> SUFFICES ASSUME NEW h \in Hooks, hook'[h].at = "open"
               PROVE  Knows(h)' /\ (hook'[h].pid \notin crossed' => Remembers(h)')
    BY DEF HookOK
  <2>1. hook'[h] = hook[h] /\ Knows(h) /\ (hook[h].pid \notin crossed => Remembers(h))
    BY DEF Quiet, IdleHook, Inv, HookOK
  <2>2. hook[h].row # 0 => payments'[hook[h].row] = payments[hook[h].row]
    BY <2>1, QuietRow, RowNames DEF Inv, Knows
  <2>3. Knows(h)'
    BY <1>2, <2>1, <2>2 DEF Knows, Quiet, Activating
  <2>4. hook[h].pid \notin crossed => Remembers(h)'
    BY <1>0, <2>1, <2>2 DEF Remembers, Knows
  <2> QED
    BY <2>1, <2>3, <2>4 DEF Quiet
<1>11. CrossOK'
  BY DEF CrossOK, Inv, Quiet, IdleHook
<1> QED
  BY <1>4, <1>5, <1>6, <1>7, <1>8, <1>9, <1>10, <1>11 DEF Inv

\* Reading the table for a delivery.
LEMMA WebhookStep ==
    ASSUME TypeOK, TypeOK', Inv,
           NEW h \in Hooks, NEW p \in PaymentIds, NEW st \in Reported, Webhook(h, p, st)
    PROVE  Inv'
<1>1. /\ subs' = subs /\ payments' = payments /\ booked' = booked /\ notice' = notice
      /\ had' = had /\ reset' = reset
      /\ hook'[h].pid = p /\ hook'[h].status = st /\ hook'[h].row = RowFor(p)
      /\ hook'[h].seen = IF RowFor(p) = 0 THEN "absent" ELSE payments[RowFor(p)].status
      /\ hook'[h].activate = (Activating(st) /\ subs[InvoiceOf[p]].status # "ACTIVE")
      /\ \A g \in Hooks \ {h} : hook'[g] = hook[g]
      /\ hook[h].at = "idle"
      /\ crossed' = IF Meets(p) = {} THEN crossed ELSE crossed \union Meets(p) \union {p}
  BY DEF Webhook, TypeOK, table, IdleHook
<1>2. InvoiceOf[p] \in Created /\ ~Processed(p)
  BY DEF Webhook
<1>3. crossed \subseteq crossed'
  BY <1>1
<1>4. \/ RowFor(p) = 0
      \/ /\ RowFor(p) \in {p, InvoiceOf[p]}
         /\ payments[RowFor(p)].pid \in {p, "none"}
  <2>1. CASE RowOf(p) # {}
    <3>1. RowFor(p) = CHOOSE r \in RowOf(p) : TRUE
      BY <2>1 DEF RowFor
    <3>2. RowFor(p) \in RowOf(p)
      BY <2>1, <3>1
    <3> QED
      BY <3>2 DEF RowOf, Inv, RowsOK
  <2>2. CASE RowOf(p) = {} /\ Waiting(InvoiceOf[p]) # {}
    BY <2>2 DEF RowFor, Waiting
  <2>3. CASE RowOf(p) = {} /\ Waiting(InvoiceOf[p]) = {}
    BY <2>3 DEF RowFor
  <2> QED
    BY <2>1, <2>2, <2>3
<1>5. /\ \A q \in PaymentIds : Processed(q)' = Processed(q) /\ BookedFor(InvoiceOf[q])' = BookedFor(InvoiceOf[q])
      /\ \A s \in Subs : PaidFor(s)' = PaidFor(s) /\ Granted(s)' = Granted(s)
      /\ Created' = Created /\ InStatus(Live)' = InStatus(Live)
  BY <1>1 DEF Processed, RowOf, PaidFor, Granted, BookedFor, Created, InStatus
<1>6. Knows(h)' /\ Remembers(h)'
  <2>1. Activating(st) /\ ~hook'[h].activate => subs[InvoiceOf[p]].status = "ACTIVE"
    BY <1>1
  <2>2. subs[InvoiceOf[p]].status = "ACTIVE" => InvoiceOf[p] \in had
    BY <1>2 DEF Inv, HadOK, Unsettled
  <2>3. Knows(h)'
    BY <1>1, <1>2, <1>4, <1>5, <2>1, <2>2, RowNames DEF Knows, Activating
  <2>4. Remembers(h)'
    BY <1>1, <1>2, <1>5 DEF Remembers
  <2> QED
    BY <2>3, <2>4
<1>7. HookOK'
  <2> SUFFICES ASSUME NEW g \in Hooks, hook'[g].at = "open"
               PROVE  Knows(g)' /\ (hook'[g].pid \notin crossed' => Remembers(g)')
    BY DEF HookOK
  <2>1. CASE g = h
    BY <1>6, <2>1
  <2>2. CASE g # h
    <3>1. hook'[g] = hook[g] /\ Knows(g) /\ (hook[g].pid \notin crossed => Remembers(g))
      BY <1>1, <2>2 DEF Inv, HookOK
    <3>2. Knows(g)'
      BY <1>1, <1>3, <1>5, <3>1 DEF Knows, Activating
    <3>3. hook[g].pid \notin crossed => Remembers(g)'
      BY <1>1, <1>5, <3>1 DEF Remembers, Knows
    <3> QED
      BY <1>3, <3>1, <3>2, <3>3
  <2> QED
    BY <2>1, <2>2
<1>8. CrossOK'
  <2> SUFFICES ASSUME NEW f \in Hooks, NEW g \in Hooks, f # g,
                      hook'[f].at = "open", hook'[g].at = "open",
                      InvoiceOf[hook'[f].pid] = InvoiceOf[hook'[g].pid]
               PROVE  hook'[f].pid \in crossed'
    BY DEF CrossOK
  <2>1. CASE f # h /\ g # h
    BY <1>1, <1>3, <2>1 DEF Inv, CrossOK
  <2>2. CASE f = h
    <3>1. hook[g].at = "open" /\ hook[g].pid \in PaymentIds /\ hook'[g] = hook[g]
      BY <1>1, <2>2 DEF Inv, HookOK, Knows
    <3>2. hook[g].pid \in Meets(p)
      BY <1>1, <2>2, <3>1 DEF Meets
    <3> QED
      BY <1>1, <2>2, <3>2
  <2>3. CASE g = h
    <3>1. hook[f].at = "open" /\ hook[f].pid \in PaymentIds /\ hook'[f] = hook[f]
      BY <1>1, <2>3 DEF Inv, HookOK, Knows
    <3>2. hook[f].pid \in Meets(p)
      BY <1>1, <2>3, <3>1 DEF Meets
    <3> QED
      BY <1>1, <3>1, <3>2
  <2> QED
    BY <2>1, <2>2, <2>3
<1>9. RowsOK' /\ LiveOK' /\ NoticeOK' /\ HadOK' /\ PaidOK'
  BY <1>1, <1>5 DEF Inv, RowsOK, LiveOK, NoticeOK, HadOK, PaidOK, InStatus, Created
<1>10. BookedOK'
  BY <1>1, <1>3, <1>5 DEF Inv, BookedOK
<1> QED
  BY <1>7, <1>8, <1>9, <1>10 DEF Inv

\* Writing what a delivery found.
LEMMA CommitStep ==
    ASSUME TypeOK, TypeOK', Inv, NEW h \in Hooks, WebhookCommits(h)
    PROVE  Inv'
<1>0. hook[h].at = "open" /\ Knows(h) /\ (hook[h].pid \notin crossed => Remembers(h))
  BY DEF WebhookCommits, Inv, HookOK
<1> PICK p \in PaymentIds : p = hook[h].pid
  BY <1>0 DEF Knows
<1> PICK st \in PaymentStatuses : st = hook[h].status
  BY DEF TypeOK
<1> PICK s \in Created : s = InvoiceOf[p]
  BY <1>0 DEF Knows
<1> PICK r : r = IF hook[h].row = 0 THEN p ELSE hook[h].row
  OBVIOUS
<1>1. r \in Rows /\ r \in {p, s} /\ s \in Subs
  BY <1>0, RowNames DEF Knows, Created
<1>2. payments[r].pid \in {p, "none"} \union crossed
  <2>1. CASE hook[h].row = 0
    <3>1. r = p /\ payments[p].pid \in PaymentIds \union {"none"}
      BY <2>1, <1>1 DEF TypeOK, Payment
    <3>2. payments[p].pid \in PaymentIds => p \in {payments[p].pid, InvoiceOf[payments[p].pid]}
      BY RowNames DEF Inv, RowsOK
    <3> QED
      BY <3>1, <3>2, RowNames
  <2>2. CASE hook[h].row # 0
    BY <1>0, <2>2 DEF Knows
  <2> QED
    BY <2>1, <2>2
<1> PICK new : new = IF st = hook[h].seen THEN payments[r].status ELSE st
  OBVIOUS
<1>3. payments' = [payments EXCEPT ![r] = [status |-> new, pid |-> p]]
  BY DEF WebhookCommits, Receive
<1>4. /\ payments'[r].status = new /\ payments'[r].pid = p
      /\ \A q \in Rows \ {r} : payments'[q] = payments[q]
  BY <1>1, <1>3 DEF TypeOK
<1>5. p \notin crossed => new = st /\ ~Processed(p)
  <2>1. st # "absent"
    BY DEF PaymentStatuses
  <2> QED
    BY <1>0, <2>1 DEF Remembers
<1>6. \A q \in PaymentIds \ {p} : q \notin crossed => RowOf(q)' = RowOf(q) /\ Processed(q)' = Processed(q)
  <2> SUFFICES ASSUME NEW q \in PaymentIds \ {p}, q \notin crossed
               PROVE  RowOf(q)' = RowOf(q) /\ Processed(q)' = Processed(q)
    OBVIOUS
  <2>1. RowOf(q)' = RowOf(q) /\ r \notin RowOf(q)
    BY <1>2, <1>4, RowNames DEF RowOf
  <2>2. \A x \in RowOf(q) : payments'[x] = payments[x]
    BY <1>4, <2>1 DEF RowOf
  <2> QED
    BY <2>1, <2>2 DEF Processed
<1>7. /\ notice' = notice /\ reset' = reset /\ crossed' = crossed
      /\ hook'[h].at = "idle" /\ \A g \in Hooks \ {h} : hook'[g] = hook[g]
      /\ had' = had \union {t \in Subs : subs'[t].status \in Statuses \ Unsettled}
      /\ \/ Activating(st) /\ booked' = [booked EXCEPT ![p] = booked[p] + 1]
            /\ subs' = [subs EXCEPT ![s] = Activated(h, s)]
         \/ ~Activating(st) /\ booked' = booked /\ subs' = subs
  BY DEF WebhookCommits, Counts, IdleHook, TypeOK
<1>8. \A q \in PaymentIds : booked[q] \in Nat /\ booked'[q] \in Nat /\ booked[q] <= booked'[q]
  BY <1>7, BillingConstants DEF TypeOK
<1>9. Activating(st) => booked'[p] > 0
  BY <1>7, <1>8 DEF TypeOK
<1>10. /\ \A t \in Subs \ {s} : subs'[t] = subs[t]
       /\ subs'[s].origin = subs[s].origin
       /\ \/ subs'[s].status = subs[s].status
          \/ Activating(st) /\ subs'[s].status = "ACTIVE"
       /\ Activating(st) => s \in had'
  <2>1. CASE Activating(st)
    <3>1. subs'[s] = Activated(h, s) /\ \A t \in Subs \ {s} : subs'[t] = subs[t]
      BY <1>1, <1>7, <2>1 DEF TypeOK
    <3>2. Activated(h, s).origin = subs[s].origin
      BY <1>1 DEF Activated, TypeOK, Subscription
    <3>3. Activated(h, s).status = IF hook[h].activate THEN "ACTIVE" ELSE subs[s].status
      BY <1>1 DEF Activated, TypeOK, Subscription
    <3>4. s \in had'
      BY <1>0, <1>1, <1>7, <2>1, <3>1, <3>3 DEF Knows, Statuses, Unsettled
    <3> QED
      BY <2>1, <3>1, <3>2, <3>3, <3>4
  <2>2. CASE ~Activating(st)
    BY <1>7, <2>2
  <2> QED
    BY <2>1, <2>2
<1>11. Created' = Created
  BY <1>1, <1>10 DEF Created
<1>12. \A t \in Subs : BookedFor(t) => BookedFor(t)'
  BY <1>8 DEF BookedFor
<1>13. Activating(st) => BookedFor(s)'
  BY <1>9 DEF BookedFor
<1>14. RowsOK'
  <2> SUFFICES ASSUME NEW x \in Rows
               PROVE  /\ \A q \in PaymentIds : payments'[x].pid = q
                            => x \in {q, InvoiceOf[q]} /\ InvoiceOf[q] \in Created
                      /\ payments'[x].pid = "none" => payments'[x].status \notin Paid
    BY <1>11 DEF RowsOK
  <2>1. CASE x = r
    BY <1>1, <1>4, <2>1, RowNames
  <2>2. CASE x # r
    BY <1>4, <2>2 DEF Inv, RowsOK
  <2> QED
    BY <2>1, <2>2
<1>15. BookedOK'
  <2> SUFFICES ASSUME NEW q \in PaymentIds, q \notin crossed
               PROVE  booked'[q] <= 1 /\ (booked'[q] = 1 => Processed(q)')
    BY <1>7 DEF BookedOK
  <2>1. booked[q] <= 1 /\ (booked[q] = 1 => Processed(q)) /\ booked[q] \in Nat
    BY <1>8 DEF Inv, BookedOK
  <2>2. CASE q # p
    BY <1>6, <1>7, <2>1, <2>2 DEF TypeOK
  <2>3. CASE q = p
    <3>1. booked[p] = 0 /\ new = st
      BY <1>5, <2>1, <2>3
    <3>2. Activating(st) => Processed(p)'
      BY <1>1, <1>4, <3>1 DEF Activating, Processed, RowOf
    <3> QED
      BY <1>7, <2>3, <3>1, <3>2 DEF TypeOK
  <2> QED
    BY <2>2, <2>3
<1>16. NoticeOK' /\ LiveOK'
  <2>1. \A t \in Subs : Granted(t) => Granted(t)'
    BY <1>10, <1>12 DEF Granted
  <2>2. NoticeOK'
    BY <1>7, <1>11, <2>1 DEF Inv, NoticeOK, Created
  <2>3. \A t \in InStatus(Live)' : t \in InStatus(Live) \/ (t = s /\ Activating(st))
    BY <1>10, <1>11 DEF InStatus, Created
  <2>4. LiveOK'
    BY <1>13, <2>1, <2>3 DEF Inv, LiveOK, Granted, InStatus, Created
  <2> QED
    BY <2>2, <2>4
<1>17. HadOK'
  <2>1. \A t \in Created : subs'[t].status \notin Unsettled => t \in had'
    BY <1>7, <1>11 DEF TypeOK, Subscription, Created
  <2>2. ASSUME NEW t \in had' PROVE t \in Created /\ (subs'[t].status \in Unsettled => t \in reset)
    <3>1. CASE t \in had
      BY <1>10, <3>1 DEF Inv, HadOK, Unsettled, Created
    <3>2. CASE t \notin had
      BY <1>7, <1>11, <2>2, <3>2 DEF Created, Statuses
    <3> QED
      BY <3>1, <3>2
  <2> QED
    BY <1>7, <1>11, <2>1, <2>2 DEF HadOK
<1>18. PaidOK'
  <2> SUFFICES ASSUME NEW t \in Subs, PaidFor(t)' PROVE t \in had'
    BY DEF PaidOK
  <2>1. PICK q \in PaymentIds, x \in Rows : InvoiceOf[q] = t /\ payments'[x].pid = q /\ payments'[x].status \in Paid
    BY DEF PaidFor, RowOf
  <2>2. CASE x # r
    BY <1>4, <1>7, <2>1, <2>2 DEF PaidFor, RowOf, Inv, PaidOK
  <2>3. CASE x = r
    <3>1. q = p /\ t = s /\ new \in Paid
      BY <1>4, <2>1, <2>3
    <3>2. CASE Activating(st)
      BY <1>10, <3>1, <3>2
    <3>3. CASE ~Activating(st)
      <4>1. payments[r].status \in Paid
        BY <3>1, <3>3 DEF Activating
      <4>2. payments[r].pid \in PaymentIds
        BY <1>1, <4>1 DEF TypeOK, Payment, Inv, RowsOK
      <4>3. r \in {payments[r].pid, InvoiceOf[payments[r].pid]}
        BY <1>1, <4>2 DEF Inv, RowsOK
      <4>4. InvoiceOf[payments[r].pid] = s
        BY <1>1, <4>2, <4>3, RowNames
      <4> QED
        BY <1>1, <1>7, <3>1, <4>1, <4>2, <4>4 DEF PaidFor, RowOf, Inv, PaidOK
    <3> QED
      BY <3>2, <3>3
  <2> QED
    BY <2>2, <2>3
<1>19. HookOK'
  <2> SUFFICES ASSUME NEW g \in Hooks, hook'[g].at = "open"
               PROVE  Knows(g)' /\ (hook'[g].pid \notin crossed => Remembers(g)')
    BY <1>7 DEF HookOK
  <2>1. g # h /\ hook'[g] = hook[g] /\ hook[g].at = "open"
    BY <1>7
  <2>2. Knows(g) /\ (hook[g].pid \notin crossed => Remembers(g))
    BY <2>1 DEF Inv, HookOK
  <2> PICK q \in PaymentIds : q = hook[g].pid
    BY <2>2 DEF Knows
  <2>3. InvoiceOf[q] = s => p \in crossed /\ q \in crossed
    BY <1>0, <2>1 DEF Inv, CrossOK
  <2>4. hook[g].row # 0 /\ hook[g].row = r => InvoiceOf[q] = s
    BY <1>1, <2>2, RowNames DEF Knows
  <2>5. hook[g].row # 0 => hook[g].row \in Rows
    BY <2>2, RowNames DEF Knows
  <2>6. Knows(g)'
    <3>1. hook[g].row # 0 => payments'[hook[g].row].pid \in {q, "none"} \union crossed
      BY <1>4, <2>2, <2>3, <2>4, <2>5 DEF Knows
    <3> QED
      BY <1>7, <1>11, <2>1, <2>2, <3>1 DEF Knows, Activating
  <2>7. q \notin crossed => Remembers(g)'
    <3> SUFFICES ASSUME q \notin crossed PROVE Remembers(g)'
      OBVIOUS
    <3>1. q # p
      BY <2>3
    <3>2. Processed(q)' = Processed(q)
      BY <1>6, <3>1
    <3>3. hook[g].row # 0 => payments'[hook[g].row] = payments[hook[g].row]
      BY <1>4, <2>3, <2>4, <2>5
    <3> QED
      BY <2>1, <2>2, <3>2, <3>3 DEF Remembers
  <2> QED
    BY <2>1, <2>6, <2>7
<1>20. CrossOK'
  BY <1>7 DEF Inv, CrossOK
<1> QED
  BY <1>14, <1>15, <1>16, <1>17, <1>18, <1>19, <1>20 DEF Inv

\* A step that only reads, or drops what it has read, is quiet.
LEMMA ReadStep ==
    ASSUME TypeOK, TypeOK', Inv, UNCHANGED table, UNCHANGED history,
           notice' \subseteq notice \union InStatus(Live),
           \A h \in Hooks : hook'[h] = hook[h] \/ hook'[h] = IdleHook
    PROVE  Inv'
<1>1. /\ subs' = subs /\ payments' = payments /\ booked' = booked
      /\ had' = had /\ reset' = reset /\ crossed' = crossed
  BY DEF table, history
<1>2. \A s \in Subs : subs[s].status \in Live => s \in InStatus(Live)
  BY DEF InStatus, Created, Live
<1>3. {s \in Subs : subs[s].status \in Statuses \ Unsettled} \subseteq had
  BY DEF Inv, HadOK, Created, Statuses
<1>4. \A s \in had : subs[s].status \in Unsettled => s \in reset
  BY DEF Inv, HadOK
<1>5. Quiet
  BY <1>1, <1>2, <1>3, <1>4 DEF Quiet, Created
<1> QED
  BY <1>5, QuietStep

\* What storing a subscription does to the others.
Stored(s) ==
    /\ subs'[s].origin = subs[s].origin
    /\ subs'[s].status = subs[s].status \/ (s \in Created => subs'[s].status \in {"CANCELLED", "EXPIRED"})
    /\ s \notin Created => subs'[s].status = "absent" \/ subs'[s].status \in {"CANCELLED", "EXPIRED"}

LEMMA StoreEffect ==
    ASSUME TypeOK, NEW c \in Clients, NEW n \in Subs, NEW new, subs' = Store(c, n, new)
    PROVE  subs'[n] = new /\ \A s \in Subs \ {n} : Stored(s)
<1>1. subs'[n] = new
  BY DEF Store
<1>2. ASSUME NEW s \in Subs \ {n} PROVE Stored(s)
  <2>1. \/ subs'[s] = subs[s]
        \/ subs'[s] = [subs[s] EXCEPT !.status = "CANCELLED"]
        \/ subs'[s] = [subs[s] EXCEPT !.status = "EXPIRED"]
    BY <1>2 DEF Store
  <2> QED
    BY <2>1 DEF Stored, TypeOK, Subscription, Created
<1> QED
  BY <1>1, <1>2

\* Every other action is quiet.
LEMMA InvStep == TypeOK /\ TypeOK' /\ Inv /\ [Next]_vars => Inv'
<1> SUFFICES ASSUME TypeOK, TypeOK', Inv, [Next]_vars PROVE Inv'
  OBVIOUS
<1>0. \A s \in had : s \in Created /\ (subs[s].status \in Unsettled => s \in reset)
  BY DEF Inv, HadOK
<1>1. CASE Request
  <2>1. \A s \in Subs : s \in Expires => subs'[s] = [subs[s] EXCEPT !.status = "EXPIRED"]
    BY <1>1 DEF Request
  <2>2. \A s \in Subs : s \notin Expires => subs'[s] = subs[s]
    BY <1>1 DEF Request
  <2> QED
    BY <1>0, <1>1, <2>1, <2>2, QuietStep
       DEF Request, Counts, Quiet, TypeOK, Subscription, Created, InStatus, Live, Unsettled
<1>2. ASSUME NEW c \in Clients, NEW kind \in {"trial", "invoice"}, Subscribe(c, kind)
      PROVE  Inv'
  BY <1>2, ReadStep DEF Subscribe
<1>3. ASSUME NEW c \in Clients, NEW n \in Subs, StartTrial(c, n)
      PROVE  Inv'
  <2> DEFINE new == [status |-> "ACTIVE", due |-> "later", grace |-> FALSE,
                     invoice |-> FALSE, origin |-> "trial"]
  <2>1. subs' = Store(c, n, new) /\ Fresh(n)
    BY <1>3 DEF StartTrial
  <2>2. subs'[n] = new /\ n \notin Created /\ \A s \in Subs \ {n} : Stored(s)
    BY <2>1, StoreEffect DEF Fresh
  <2> QED
    BY <1>0, <1>3, <2>2, QuietStep DEF StartTrial, Counts, Quiet, Stored, Created, InStatus, Live, Unsettled, Given
<1>4. ASSUME NEW c \in Clients, NEW n \in Subs, NEW i \in BOOLEAN, AwaitPayment(c, n, i)
      PROVE  Inv'
  <2> DEFINE new == [status |-> "PENDING_PAYMENT", due |-> "none", grace |-> FALSE,
                     invoice |-> i, origin |-> "user"]
  <2>1. subs' = Store(c, n, new) /\ Fresh(n)
    BY <1>4 DEF AwaitPayment
  <2>2. subs'[n] = new /\ n \notin Created /\ \A s \in Subs \ {n} : Stored(s)
    BY <2>1, StoreEffect DEF Fresh
  <2>3. \A r \in Rows : \/ payments'[r] = payments[r]
                        \/ r = n /\ payments'[r].pid = "none" /\ payments'[r].status \notin Paid
    <3>1. /\ payments'[n] = [status |-> "WAITING", pid |-> "none"]
          /\ \A r \in Rows \ {n} : payments'[r] = payments[r]
      BY <1>4, RowNames DEF AwaitPayment, TypeOK
    <3>2. "WAITING" \notin Paid
      BY DEF Paid
    <3> QED
      BY <3>1, <3>2
  <2> QED
    <3>1. /\ booked' = booked /\ notice' = notice /\ hook' = hook
          /\ reset' = reset /\ crossed' = crossed
          /\ had' = had \union {s \in Subs : subs'[s].status \in Statuses \ Unsettled}
      BY <1>4 DEF AwaitPayment, Counts
    <3>2. subs'[n].status = "PENDING_PAYMENT"
      BY <2>2
    <3>3. Quiet
      BY <1>0, <2>2, <2>3, <3>1, <3>2 DEF Quiet, Stored, Created, InStatus, Live, Unsettled
    <3> QED
      BY <3>3, QuietStep
<1>5. ASSUME NEW h \in Hooks, NEW p \in PaymentIds, NEW st \in Reported, Webhook(h, p, st)
      PROVE  Inv'
  BY <1>5, WebhookStep
<1>6. ASSUME NEW h \in Hooks, WebhookCommits(h)
      PROVE  Inv'
  BY <1>6, CommitStep
<1>7. ASSUME NEW h \in Hooks, WebhookLost(h)
      PROVE  Inv'
  <2>1. \A g \in Hooks : hook'[g] = hook[g] \/ hook'[g] = IdleHook
    BY <1>7 DEF WebhookLost, TypeOK
  <2> QED
    BY <1>7, <2>1, ReadStep DEF WebhookLost
<1>8. CASE FindExpiring
  BY <1>8, ReadStep DEF FindExpiring, InStatus, Live
<1>9. CASE MarkExpiring
  <2>1. \A s \in Subs : s \in notice => subs'[s] = [subs[s] EXCEPT !.status = "EXPIRING_SOON"]
    BY <1>9 DEF MarkExpiring
  <2>2. \A s \in Subs : s \notin notice => subs'[s] = subs[s]
    BY <1>9 DEF MarkExpiring
  <2> QED
    BY <1>0, <1>9, <2>1, <2>2, QuietStep
       DEF MarkExpiring, Counts, Quiet, TypeOK, Subscription, Created, InStatus, Live, Unsettled
<1>10. CASE NoticeLost
  BY <1>10, ReadStep DEF NoticeLost
<1>11. CASE Admin
  <2>1. ASSUME NEW n \in Subs, NEW st \in AdminStatuses, NEW d \in {"none", "later"}, AdminCreate(n, st, d)
        PROVE  Inv'
    <3>1. /\ subs'[n].origin = "admin" /\ n \notin Created
          /\ \A s \in Subs \ {n} : subs'[s] = subs[s]
      BY <2>1 DEF AdminCreate, Fresh, TypeOK
    <3>2. /\ payments' = payments /\ booked' = booked /\ notice' = notice /\ hook' = hook
          /\ reset' = reset /\ crossed' = crossed
          /\ had' = had \union {s \in Subs : subs'[s].status \in Statuses \ Unsettled}
      BY <2>1 DEF AdminCreate, Counts
    <3>3. Quiet
      BY <1>0, <3>1, <3>2 DEF Quiet, Created, InStatus, Live, Given
    <3> QED
      BY <3>3, QuietStep
  <2>2. ASSUME NEW s \in Subs, NEW st \in AdminStatuses, NEW d \in {subs[s].due, "later"}, AdminOverride(s, st, d)
        PROVE  Inv'
    <3>1. subs'[s] = [subs[s] EXCEPT !.status = st, !.due = d,
                                     !.origin = IF subs[s].origin = "trial" THEN "trial" ELSE "admin"]
      BY <2>2 DEF AdminOverride, TypeOK
    <3>2. subs'[s].status = st /\ subs'[s].origin \in Given
      BY <3>1 DEF TypeOK, Subscription, Given
    <3>3. \A t \in Subs \ {s} : subs'[t] = subs[t]
      BY <2>2 DEF AdminOverride, TypeOK
    <3>4. st # "absent"
      BY BillingConstants DEF Statuses
    <3>5. /\ payments' = payments /\ booked' = booked /\ notice' = notice /\ hook' = hook
          /\ crossed' = crossed
          /\ reset' = IF s \in had /\ st \in Unsettled THEN reset \union {s} ELSE reset
          /\ had' = had \union {t \in Subs : subs'[t].status \in Statuses \ Unsettled}
      BY <2>2 DEF AdminOverride, Counts
    <3>6. Quiet
      BY <1>0, <3>2, <3>3, <3>4, <3>5 DEF Quiet, Created, InStatus, Live
    <3> QED
      BY <3>6, QuietStep
  <2>3. ASSUME NEW s \in Subs, AdminCancel(s)
        PROVE  Inv'
    <3>1. subs'[s] = [subs[s] EXCEPT !.status = "CANCELLED"]
      BY <2>3 DEF AdminCancel, TypeOK
    <3>2. subs'[s].status = "CANCELLED" /\ subs'[s].origin = subs[s].origin
      BY <3>1 DEF TypeOK, Subscription
    <3>3. \A t \in Subs \ {s} : subs'[t] = subs[t]
      BY <2>3 DEF AdminCancel, TypeOK
    <3> QED
      BY <1>0, <2>3, <3>2, <3>3, QuietStep DEF AdminCancel, Counts, Quiet, Created, InStatus, Live, Unsettled
  <2> QED
    BY <1>11, <2>1, <2>2, <2>3 DEF Admin
<1>12. ASSUME NEW s \in Subs, Elapse(s)
       PROVE  Inv'
  <2>1. \A t \in Subs : subs'[t].status = subs[t].status /\ subs'[t].origin = subs[t].origin
    <3>1. \/ subs' = [subs EXCEPT ![s].due = "soon"]
          \/ subs' = [subs EXCEPT ![s].due = "late"]
          \/ subs' = [subs EXCEPT ![s].grace = FALSE]
      BY <1>12 DEF Elapse
    <3> QED
      BY <3>1 DEF TypeOK, Subscription
  <2> QED
    <3>1. /\ payments' = payments /\ booked' = booked /\ notice' = notice /\ hook' = hook
          /\ had' = had /\ reset' = reset /\ crossed' = crossed
      BY <1>12 DEF Elapse, history
    <3>2. {t \in Subs : subs[t].status \in Statuses \ Unsettled} \subseteq had
      BY DEF Inv, HadOK, Created, Statuses
    <3>3. had' = had \union {t \in Subs : subs'[t].status \in Statuses \ Unsettled}
      BY <2>1, <3>1, <3>2
    <3>4. Quiet
      BY <1>0, <2>1, <3>1, <3>3 DEF Quiet, Created, InStatus, Live
    <3> QED
      BY <3>4, QuietStep
<1>13. CASE UNCHANGED vars
  BY <1>13, ReadStep DEF vars, table, history
<1> QED
  BY <1>1, <1>2, <1>3, <1>4, <1>5, <1>6, <1>7, <1>8, <1>9, <1>10, <1>11, <1>12, <1>13 DEF Next

\* The invariant holds in every reachable state.
THEOREM InvCorrect == Spec => []Inv
<1>1. Init => Inv
  <2> SUFFICES ASSUME Init PROVE Inv
    OBVIOUS
  <2>1. Created = {}
    BY DEF Init, Created, NoSubscription
  <2>2. \A r \in Rows : payments[r].pid = "none" /\ payments[r].status = "absent"
    BY DEF Init, NoPayment
  <2>3. \A p \in PaymentIds : RowOf(p) = {}
    BY <2>2, RowNames DEF RowOf
  <2>4. \A h \in Hooks : hook[h].at = "idle"
    BY DEF Init, IdleHook
  <2>5. RowsOK
    BY <2>2, RowNames DEF RowsOK, Paid
  <2>6. PaidOK
    BY <2>3 DEF PaidOK, PaidFor
  <2> QED
    BY <2>1, <2>4, <2>5, <2>6
       DEF Init, Inv, BookedOK, NoticeOK, LiveOK, HadOK, HookOK, CrossOK, InStatus
<1> QED
  BY <1>1, InvStep, TypeCorrect, PTL DEF Spec

\* A payment that met no other was booked once, and is stored as paid then.
LEMMA BookedMeansPaid ==
    ASSUME TypeOK, Inv, NEW p \in PaymentIds, p \notin crossed
    PROVE  booked[p] <= 1 /\ (booked[p] > 0 => Processed(p))
<1>1. booked[p] \in Nat
  BY BillingConstants DEF TypeOK
<1> QED
  BY <1>1 DEF Inv, BookedOK

\* Every subscription that gives access is a trial, the admin's, or paid: by a
\* payment stored as paid or, where its deliveries overlapped, by a transaction.
THEOREM AccessIsEarned == Spec => []ActiveIsEarned
<1>1. TypeOK /\ Inv => ActiveIsEarned
  <2> SUFFICES ASSUME TypeOK, Inv, NEW s \in InStatus(Live), ~PaidFor(s), BookedFor(s)
               PROVE  \E p \in crossed : InvoiceOf[p] = s /\ booked[p] > 0
    BY DEF ActiveIsEarned, Inv, LiveOK, Granted, Given
  <2>1. PICK p \in PaymentIds : InvoiceOf[p] = s /\ booked[p] > 0
    BY DEF BookedFor
  <2>2. p \in crossed
    BY <2>1, BookedMeansPaid DEF PaidFor, Processed
  <2> QED
    BY <2>1, <2>2
<1> QED
  BY <1>1, InvCorrect, TypeCorrect, PTL

\* Redelivered in whatever order, a payment's webhooks book it once; it takes two
\* that were open at the same time to book it again.
THEOREM PaymentBookedOnce == Spec => []BookedOnce
<1>1. TypeOK /\ Inv => BookedOnce
  <2> SUFFICES ASSUME TypeOK, Inv, NEW p \in PaymentIds, booked[p] > 1, p \notin crossed
               PROVE  FALSE
    BY DEF BookedOnce
  <2>1. booked[p] <= 1 /\ booked[p] \in Nat
    BY BookedMeansPaid, BillingConstants DEF TypeOK
  <2> QED
    BY <2>1
<1> QED
  BY <1>1, InvCorrect, TypeCorrect, PTL

\* A subscription that has been paid waits for its payment only when an admin has
\* set it back.
THEOREM PaidSubscriptionSettled == Spec => []PaidIsNotWaiting
<1>1. Inv => PaidIsNotWaiting
  BY DEF Inv, HadOK, PaidOK, PaidIsNotWaiting, InStatus, Created
<1> QED
  BY <1>1, InvCorrect, PTL

-----------------------------------------------------------------------------
(***************************************************************************)
(* Trials.                                                                 *)
(***************************************************************************)

\* A request that starts a trial found nothing that counts, and what it found
\* goes with the trial.
TrialInv ==
    /\ \A c \in Clients : client[c].had = {}
    /\ \A s \in Subs : before[s] = {}

\* A subscription that has counted, and that no admin has set back, makes the
\* request ineligible.
LEMMA EligibleMeansNew == ASSUME TypeOK, Inv, Eligible PROVE had \ reset = {}
<1> SUFFICES ASSUME NEW s \in had, s \notin reset PROVE FALSE
  OBVIOUS
<1>1. s \in Created /\ subs[s].status \notin Unsettled
  BY DEF Inv, HadOK
<1>2. subs[s].status \in Statuses
  BY <1>1 DEF Created, TypeOK, Subscription
<1> QED
  BY <1>1, <1>2 DEF Eligible, InStatus

LEMMA TrialStep == TypeOK /\ TypeOK' /\ Inv /\ TrialInv /\ [Next]_vars => TrialInv'
<1> SUFFICES ASSUME TypeOK, TypeOK', Inv, TrialInv, [Next]_vars PROVE TrialInv'
  OBVIOUS
<1>1. ASSUME NEW c \in Clients, NEW kind \in {"trial", "invoice"}, Subscribe(c, kind)
      PROVE  TrialInv'
  <2>1. (IF kind = "trial" THEN had \ reset ELSE {}) = {}
    BY <1>1, EligibleMeansNew DEF Subscribe
  <2>2. client'[c].had = {} /\ \A d \in Clients \ {c} : client'[d] = client[d]
    BY <1>1, <2>1 DEF Subscribe, TypeOK
  <2> QED
    BY <1>1, <2>2 DEF TrialInv, Subscribe, history
<1>2. ASSUME NEW c \in Clients, NEW n \in Subs, StartTrial(c, n)
      PROVE  TrialInv'
  BY <1>2 DEF TrialInv, StartTrial, IdleClient, TypeOK
<1>3. ASSUME NEW c \in Clients, NEW n \in Subs, NEW i \in BOOLEAN, AwaitPayment(c, n, i)
      PROVE  TrialInv'
  BY <1>3 DEF TrialInv, AwaitPayment, IdleClient, TypeOK
<1>4. CASE UNCHANGED <<client, before>>
  BY <1>4 DEF TrialInv
<1> QED
  BY <1>1, <1>2, <1>3, <1>4
     DEF Next, Request, Webhook, WebhookCommits, WebhookLost, FindExpiring, MarkExpiring, NoticeLost,
         Admin, AdminCreate, AdminOverride, AdminCancel, Elapse, vars, history

\* Whoever gets a trial had never had a subscription that counts, whatever has
\* become of it since, unless an admin set it back.
THEOREM TrialsForNewUsers == Spec => []TrialsOnce
<1>1. Init => TrialInv
  BY DEF Init, TrialInv, IdleClient
<1>2. TrialInv => TrialsOnce
  BY DEF TrialInv, TrialsOnce, Created
<1> QED
  BY <1>1, <1>2, TrialStep, InvCorrect, TypeCorrect, PTL DEF Spec
=============================================================================
