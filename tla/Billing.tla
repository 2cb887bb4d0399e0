------------------------------- MODULE Billing -------------------------------
(***************************************************************************)
(* The subscriptions of one user: subscribing (routers/billing.py), the    *)
(* payment provider's webhooks (services/billing.py), the lazy expiry done *)
(* by the user's own requests (middleware/permissions.py), the daily       *)
(* expiry notice (worker/tasks.py) and the admin's overrides               *)
(* (routers/admin/subscriptions.py).                                       *)
(*                                                                         *)
(* Every request is one READ COMMITTED session with autoflush off: it      *)
(* reads, awaits (an invoice, an e-mail), and writes at its commit the     *)
(* columns whose value differs from the one it read.  Subscriptions are    *)
(* numbered in the order of their creation; users share no row.            *)
(***************************************************************************)
EXTENDS Naturals, FiniteSets

CONSTANTS
    Clients,        \* requests to /subscribe that may overlap
    Hooks,          \* webhook deliveries that may overlap
    PaymentIds,     \* the provider's payment ids
    InvoiceOf,      \* payment id |-> number of the subscription it pays for
    Reported,       \* payment statuses the provider reports
    AdminStatuses,  \* subscription statuses the admin sets
    MaxSubs,        \* bound: subscriptions created
    MaxBooked       \* bound: transactions booked per payment id

Subs == 1..MaxSubs
Statuses == {"INACTIVE", "PENDING_PAYMENT", "ACTIVE", "EXPIRING_SOON", "EXPIRED", "CANCELLED"}
PaymentStatuses == {"WAITING", "CONFIRMING", "CONFIRMED", "SENDING", "PARTIALLY_PAID",
                    "FINISHED", "FAILED", "REFUNDED", "EXPIRED"}
Paid == {"CONFIRMED", "FINISHED"}
Live == {"ACTIVE", "EXPIRING_SOON"}
Unsettled == {"INACTIVE", "PENDING_PAYMENT"}

ASSUME BillingConstants ==
    /\ MaxSubs \in Nat
    /\ MaxBooked \in Nat
    /\ InvoiceOf \in [PaymentIds -> Subs]
    /\ Reported \subseteq PaymentStatuses
    /\ AdminStatuses \subseteq Statuses
    /\ PaymentIds \intersect (Subs \union {0}) = {}
    /\ "none" \notin PaymentIds

VARIABLES
    subs,           \* subscriptions table, committed
    payments,       \* payments table: the row made with subscription n is row n,
                    \* a row made for a payment id has that id
    booked,         \* payment id |-> transactions booked for it
    flag,           \* users.is_subscribed
    client,         \* request |-> what its session holds
    hook,           \* delivery |-> what its session holds
    notice,         \* subscriptions the daily task is sending notices for
    had,            \* history: subscriptions that have been active, expired or cancelled
    reset,          \* history: those an admin has set back to wait for a payment
    before,         \* history: trial |-> what its user had had when it was asked for
    crossed         \* history: payments whose deliveries overlapped one for their invoice

table == <<subs, payments, booked, flag>>
history == <<had, reset, before, crossed>>
vars == <<subs, payments, booked, flag, client, hook, notice, had, reset, before, crossed>>

\* due: how far expires_at is ("none": no date; "late": past); grace: grace_until
\* is still ahead; origin: who gave it, for the properties only.
Subscription == [status : Statuses \union {"absent"}, due : {"none", "later", "soon", "late"},
                 grace : BOOLEAN, invoice : BOOLEAN, origin : {"user", "trial", "admin"}]
NoSubscription == [status |-> "absent", due |-> "none", grace |-> FALSE,
                   invoice |-> FALSE, origin |-> "user"]

Rows == Subs \union PaymentIds
Payment == [status : PaymentStatuses \union {"absent"}, pid : PaymentIds \union {"none"}]
NoPayment == [status |-> "absent", pid |-> "none"]

\* The change a session makes to a flag it has read.
Writes == {"keep", "up", "down"}
IdleClient == [at |-> "idle", expire |-> {}, cancel |-> {}, set |-> "keep", had |-> {}]
IdleHook == [at |-> "idle", pid |-> "none", status |-> "WAITING", row |-> 0,
             seen |-> "absent", activate |-> FALSE, set |-> "keep"]

TypeOK ==
    /\ subs \in [Subs -> Subscription]
    /\ payments \in [Rows -> Payment]
    /\ booked \in [PaymentIds -> 0..MaxBooked]
    /\ flag \in BOOLEAN
    /\ client \in [Clients -> [at : {"idle", "trial", "invoice"}, expire : SUBSET Subs,
                               cancel : SUBSET Subs, set : Writes, had : SUBSET Subs]]
    /\ hook \in [Hooks -> [at : {"idle", "open"}, pid : PaymentIds \union {"none"},
                           status : PaymentStatuses, row : Rows \union {0},
                           seen : PaymentStatuses \union {"absent"},
                           activate : BOOLEAN, set : Writes]]
    /\ notice \subseteq Subs
    /\ had \subseteq Subs
    /\ reset \subseteq Subs
    /\ before \in [Subs -> SUBSET Subs]
    /\ crossed \subseteq PaymentIds

Init ==
    /\ subs = [s \in Subs |-> NoSubscription]
    /\ payments = [r \in Rows |-> NoPayment]
    /\ booked = [p \in PaymentIds |-> 0]
    /\ flag = FALSE
    /\ client = [c \in Clients |-> IdleClient]
    /\ hook = [h \in Hooks |-> IdleHook]
    /\ notice = {}
    /\ had = {}
    /\ reset = {}
    /\ before = [s \in Subs |-> {}]
    /\ crossed = {}

-----------------------------------------------------------------------------
(***************************************************************************)
(* Permissions: every authenticated request loads the newest subscription  *)
(* that is ACTIVE or EXPIRING_SOON.                                        *)
(***************************************************************************)

Created == {s \in Subs : subs[s].status # "absent"}
InStatus(S) == {s \in Created : subs[s].status \in S}

Newest == {s \in InStatus(Live) : \A t \in InStatus(Live) : t <= s}

\* The subscriptions a step leaves settled have counted once and for all.
Counts == had' = had \union {s \in Subs : subs'[s].status \in Statuses \ Unsettled}

Lapsed(s) == subs[s].due = "late" /\ ~subs[s].grace

\* The subscription this request expires, and what it makes of the flag.
Expires == {s \in Newest : Lapsed(s)}
Corrected == IF Expires # {} THEN FALSE ELSE IF Newest # {} THEN TRUE ELSE flag

Change(old, new) == IF old = new THEN "keep" ELSE IF new THEN "up" ELSE "down"
Apply(write) == CASE write = "up" -> TRUE [] write = "down" -> FALSE [] OTHER -> flag

\* Any other request of the user that a guard lets through; one that a guard
\* refuses is rolled back, expiry included.
Request ==
    /\ subs' = [s \in Subs |-> IF s \in Expires THEN [subs[s] EXCEPT !.status = "EXPIRED"]
                                                ELSE subs[s]]
    /\ flag' = Corrected
    /\ Counts
    /\ UNCHANGED <<payments, booked, client, hook, notice, reset, before, crossed>>

-----------------------------------------------------------------------------
(***************************************************************************)
(* subscribe_to_plan.                                                      *)
(***************************************************************************)

\* ACTIVE is refused, EXPIRING_SOON is not.  The subscription this request has
\* just expired no longer counts.
MaySubscribe == InStatus({"ACTIVE"}) \subseteq Expires

\* Variant with a slip: eligibility looks for expired subscriptions only.
EligibleUnlessExpired == InStatus({"EXPIRED"}) = {}

\* trial_eligibility reads the table, where the changes of this session are not
\* yet: what it has expired still counts, what it is cancelling does not.
Eligible == InStatus(Statuses \ Unsettled) = {}

Subscribe(c, kind) ==
    /\ client[c] = IdleClient
    /\ Created # Subs
    /\ MaySubscribe
    /\ kind = "trial" => Eligible
    /\ client' = [client EXCEPT ![c] =
         [at |-> kind,
          expire |-> Expires,
          cancel |-> InStatus({"PENDING_PAYMENT"}),
          set |-> Change(flag, IF kind = "trial" THEN TRUE ELSE Corrected),
          had |-> IF kind = "trial" THEN had \ reset ELSE {}]]
    /\ UNCHANGED <<table, hook, notice, history>>

\* The committing request gets the next number.
Fresh(n) == n \notin Created /\ \A m \in Subs : m < n => m \in Created

Store(c, n, new) ==
    [s \in Subs |->
        IF s = n THEN new
        ELSE IF s \in client[c].cancel THEN [subs[s] EXCEPT !.status = "CANCELLED"]
        ELSE IF s \in client[c].expire THEN [subs[s] EXCEPT !.status = "EXPIRED"]
        ELSE subs[s]]

StartTrial(c, n) ==
    /\ client[c].at = "trial"
    /\ Fresh(n)
    /\ subs' = Store(c, n, [status |-> "ACTIVE", due |-> "later", grace |-> FALSE,
                            invoice |-> FALSE, origin |-> "trial"])
    /\ flag' = Apply(client[c].set)
    /\ client' = [client EXCEPT ![c] = IdleClient]
    /\ Counts
    /\ before' = [before EXCEPT ![n] = client[c].had]
    /\ UNCHANGED <<payments, booked, hook, notice, reset, crossed>>

\* create_invoice returns None on any error; the subscription is stored without
\* an invoice then.
AwaitPayment(c, n, invoiced) ==
    /\ client[c].at = "invoice"
    /\ Fresh(n)
    /\ subs' = Store(c, n, [status |-> "PENDING_PAYMENT", due |-> "none", grace |-> FALSE,
                            invoice |-> invoiced, origin |-> "user"])
    /\ payments' = [payments EXCEPT ![n] = [status |-> "WAITING", pid |-> "none"]]
    /\ flag' = Apply(client[c].set)
    /\ client' = [client EXCEPT ![c] = IdleClient]
    /\ Counts
    /\ UNCHANGED <<booked, hook, notice, reset, before, crossed>>

-----------------------------------------------------------------------------
(***************************************************************************)
(* process_webhook and _activate_subscription.                             *)
(***************************************************************************)

RowOf(p) == {r \in Rows : payments[r].pid = p}
Waiting(s) == {r \in {s} : payments[r] = [status |-> "WAITING", pid |-> "none"]}

\* The row a delivery for p updates; 0 when it inserts one.
RowFor(p) ==
    CASE RowOf(p) # {} -> CHOOSE r \in RowOf(p) : TRUE
      [] RowOf(p) = {} /\ Waiting(InvoiceOf[p]) # {} -> InvoiceOf[p]
      [] OTHER -> 0

\* Variant with a slip: only FINISHED counts as processed.
ProcessedFinished(p) == \E r \in RowOf(p) : payments[r].status = "FINISHED"

\* A payment stored as paid is not looked at again.
Processed(p) == \E r \in RowOf(p) : payments[r].status \in Paid

\* Variant with a slip: part of the price is enough.
ActivatingPartly(status) == status \in Paid \union {"PARTIALLY_PAID"}

\* Statuses that activate.
Activating(status) == status \in Paid

\* Payments of the same invoice with a delivery open.
Meets(p) == {q \in PaymentIds : /\ InvoiceOf[q] = InvoiceOf[p]
                                 /\ \E g \in Hooks : hook[g].at = "open" /\ hook[g].pid = q}

Webhook(h, p, status) ==
    /\ hook[h] = IdleHook
    /\ InvoiceOf[p] \in {s \in Created : subs[s].invoice}
    /\ ~Processed(p)
    /\ hook' = [hook EXCEPT ![h] =
         [at |-> "open", pid |-> p, status |-> status, row |-> RowFor(p),
          seen |-> IF RowFor(p) = 0 THEN "absent" ELSE payments[RowFor(p)].status,
          activate |-> Activating(status) /\ subs[InvoiceOf[p]].status # "ACTIVE",
          set |-> IF Activating(status) THEN Change(flag, TRUE) ELSE "keep"]]
    /\ crossed' = IF Meets(p) = {} THEN crossed ELSE crossed \union Meets(p) \union {p}
    /\ UNCHANGED <<table, client, notice, had, reset, before>>

\* nowpayments_payment_id is unique.
Duplicate(h) == RowOf(hook[h].pid) \ {hook[h].row} # {}

Receive(h) ==
    [payments EXCEPT ![IF hook[h].row = 0 THEN hook[h].pid ELSE hook[h].row] =
        [status |-> IF hook[h].status = hook[h].seen THEN @.status ELSE hook[h].status,
         pid |-> hook[h].pid]]

\* Variant with a slip: the dates are set, the status is forgotten.
ActivatedDatesOnly(h, s) ==
    [subs[s] EXCEPT !.due = "later", !.grace = TRUE]

\* One month, a quarter or a year from now, with three days of grace.
Activated(h, s) ==
    [subs[s] EXCEPT !.status = IF hook[h].activate THEN "ACTIVE" ELSE @,
                    !.due = "later", !.grace = TRUE]

WebhookCommits(h) ==
    /\ hook[h].at = "open"
    /\ ~Duplicate(h)
    /\ payments' = Receive(h)
    /\ LET p == hook[h].pid
       IN IF Activating(hook[h].status)
            THEN /\ booked[p] < MaxBooked
                 /\ booked' = [booked EXCEPT ![p] = @ + 1]
                 /\ subs' = [subs EXCEPT ![InvoiceOf[p]] = Activated(h, InvoiceOf[p])]
            ELSE UNCHANGED <<booked, subs>>
    /\ flag' = Apply(hook[h].set)
    /\ hook' = [hook EXCEPT ![h] = IdleHook]
    /\ Counts
    /\ UNCHANGED <<client, notice, reset, before, crossed>>

\* A lost process, or a unique violation: nothing is kept and the provider, which
\* got no 200, delivers again.
WebhookLost(h) ==
    /\ hook[h].at = "open"
    /\ hook' = [hook EXCEPT ![h] = IdleHook]
    /\ UNCHANGED <<table, client, notice, history>>

-----------------------------------------------------------------------------
(***************************************************************************)
(* The daily task, the admin and time.                                     *)
(***************************************************************************)

\* The notices go out one by one before anything is written.
FindExpiring ==
    /\ notice = {}
    /\ notice' = {s \in InStatus({"ACTIVE"}) : subs[s].due = "soon"}
    /\ notice' # {}
    /\ UNCHANGED <<table, client, hook, history>>

\* The status is written whatever it has become meanwhile.
MarkExpiring ==
    /\ notice # {}
    /\ subs' = [s \in Subs |-> IF s \in notice THEN [subs[s] EXCEPT !.status = "EXPIRING_SOON"]
                                               ELSE subs[s]]
    /\ notice' = {}
    /\ Counts
    /\ UNCHANGED <<payments, booked, flag, client, hook, reset, before, crossed>>

NoticeLost ==
    /\ notice # {}
    /\ notice' = {}
    /\ UNCHANGED <<table, client, hook, history>>

AdminCreate(n, status, due) ==
    /\ Fresh(n)
    /\ subs' = [subs EXCEPT ![n] = [status |-> status, due |-> due, grace |-> FALSE,
                                    invoice |-> FALSE, origin |-> "admin"]]
    /\ flag' = (status \in Live)
    /\ Counts
    /\ UNCHANGED <<payments, booked, client, hook, notice, reset, before, crossed>>

\* The flag follows the one subscription, whatever others the user has.
AdminOverride(s, status, due) ==
    /\ s \in Created
    /\ subs' = [subs EXCEPT ![s] =
         [subs[s] EXCEPT !.status = status, !.due = due,
                         !.origin = IF subs[s].origin = "trial" THEN "trial" ELSE "admin"]]
    /\ flag' = (status \in Live)
    /\ Counts
    /\ reset' = IF s \in had /\ status \in Unsettled THEN reset \union {s} ELSE reset
    /\ UNCHANGED <<payments, booked, client, hook, notice, before, crossed>>

AdminCancel(s) ==
    /\ s \in Created
    /\ subs[s].status # "CANCELLED"
    /\ subs' = [subs EXCEPT ![s].status = "CANCELLED"]
    /\ flag' = FALSE
    /\ Counts
    /\ UNCHANGED <<payments, booked, client, hook, notice, reset, before, crossed>>

\* expires_at comes closer and passes, then grace_until.
Elapse(s) ==
    /\ s \in Created
    /\ \/ subs[s].due = "later" /\ subs' = [subs EXCEPT ![s].due = "soon"]
       \/ subs[s].due = "soon" /\ subs' = [subs EXCEPT ![s].due = "late"]
       \/ subs[s].due = "late" /\ subs[s].grace /\ subs' = [subs EXCEPT ![s].grace = FALSE]
    /\ UNCHANGED <<payments, booked, flag, client, hook, notice, history>>

Admin ==
    \/ \E n \in Subs, status \in AdminStatuses, due \in {"none", "later"} :
          AdminCreate(n, status, due)
    \/ \E s \in Subs, status \in AdminStatuses :
          \E due \in {subs[s].due, "later"} : AdminOverride(s, status, due)
    \/ \E s \in Subs : AdminCancel(s)

Next ==
    \/ Request
    \/ \E c \in Clients : \/ \E kind \in {"trial", "invoice"} : Subscribe(c, kind)
                          \/ \E n \in Subs : StartTrial(c, n)
                          \/ \E n \in Subs, invoiced \in BOOLEAN : AwaitPayment(c, n, invoiced)
    \/ \E h \in Hooks : \/ \E p \in PaymentIds, status \in Reported : Webhook(h, p, status)
                        \/ WebhookCommits(h)
                        \/ WebhookLost(h)
    \/ FindExpiring \/ MarkExpiring \/ NoticeLost
    \/ Admin
    \/ \E s \in Subs : Elapse(s)

Spec == Init /\ [][Next]_vars

-----------------------------------------------------------------------------
(***************************************************************************)
(* Properties.                                                             *)
(***************************************************************************)

PaidFor(s) == \E p \in PaymentIds : InvoiceOf[p] = s /\ \E r \in RowOf(p) : payments[r].status \in Paid

\* Nobody has access for nothing: a subscription that is ACTIVE or EXPIRING_SOON
\* is a trial, was set by an admin, or has a payment stored as paid, whatever the
\* webhooks, the daily task and the re-subscriptions overwrite.  Overlapping
\* deliveries can write an older status over the paid one; the transaction they
\* booked for the payment is there then.
ActiveIsEarned ==
    \A s \in InStatus(Live) :
        \/ subs[s].origin \in {"trial", "admin"}
        \/ PaidFor(s)
        \/ \E p \in crossed : InvoiceOf[p] = s /\ booked[p] > 0

\* Redelivered webhooks book a payment once ("Idempotency: check if this payment
\* was already processed"), in whatever order they come; only deliveries for one
\* invoice that were open at the same time book it again.
BookedOnce ==
    \A p \in PaymentIds : booked[p] > 1 => p \in crossed

\* "Free trials are available to new subscribers only": when a trial was asked
\* for, its user had never had a subscription, of a trial, a payment or an admin,
\* that was active, expired or cancelled, but for those an admin had set back.
\* Two trials of a user are therefore two requests that overlapped.
TrialsOnce ==
    \A s \in Created : before[s] = {}

\* Money that has arrived is not left waiting: the subscription it paid for has
\* left PENDING_PAYMENT for good, unless an admin set it back.
PaidIsNotWaiting ==
    \A s \in InStatus(Unsettled) : PaidFor(s) => s \in reset

\* subscribe_to_plan cancels pending subscriptions ("Cancel any existing pending
\* subscriptions"), never one that has been paid meanwhile.
CancelsOnlyPending ==
    [][\A c \in Clients, s \in Subs :
          client[c] # IdleClient /\ client'[c] = IdleClient /\ subs'[s].status = "CANCELLED"
             => subs[s].status \in {"PENDING_PAYMENT", "CANCELLED"}]_vars
=============================================================================
