SPECIFICATION Spec
CONSTANTS
    c1 = c1
    c2 = c2
    h1 = h1
    h2 = h2
    p1 = p1
    Clients = {c1}
    Hooks = {h1}
    PaymentIds = {p1}
    InvoiceOf <- MCInvoiceOf
    Reported = {"PARTIALLY_PAID", "CONFIRMED"}
    AdminStatuses = {"ACTIVE", "EXPIRED"}
    MaxSubs = 2
    MaxBooked = 2
PROPERTY CancelsOnlyPending
