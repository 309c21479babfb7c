\* One invoice, each kind of record that settles it and a refund; the first of
\* two accounting dates is closed and reopened between the postings.
SPECIFICATION SettlementSpec
CONSTANTS
    i1 = i1
    i2 = i2
    r1 = r1
    r2 = r2
    w1 = w1
    c1 = c1
    p1 = p1
    Invoices = {i1}
    Receipts = {r1}
    Withholdings = {w1}
    Credits = {c1}
    Refunds = {p1}
    Content <- MCContent
    Today = 2
    Closable = {1}
    MaxEvents = 2
INVARIANTS
    NoOverApplication
    ReversedSettlesNothing
    Reconciled
PROPERTY
    ClosedHistoryFixed
