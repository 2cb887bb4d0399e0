SPECIFICATION Spec
CONSTANTS
    c1 = c1
    c2 = c2
    h1 = h1
    h2 = h2
    p1 = p1
    Clients = {c1, c2}
    Hooks = {h1, h2}
    PaymentIds = {p1}
    InvoiceOf <- MCInvoiceOf
    Reported = {"PARTIALLY_PAID", "CONFIRMED"}
    AdminStatuses = {"PENDING_PAYMENT"}
    MaxSubs = 2
    MaxBooked = 2
SYMMETRY Interchangeable

INVARIANTS
    ActiveIsEarned
    BookedOnce
    TrialsOnce
    PaidIsNotWaiting
