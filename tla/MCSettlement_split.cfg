\* An application to two lines with tax is released bit by bit.
SPECIFICATION SettlementSpec
CONSTANTS
    i1 = i1
    i2 = i2
    r1 = r1
    r2 = r2
    w1 = w1
    c1 = c1
    p1 = p1
    Invoices = {i1}
    Receipts = {r1}
    Withholdings = {}
    Credits = {}
    Refunds = {}
    Content <- TwoLines
    Today = 1
    Closable = {1}
    MaxEvents = 4
INVARIANT
    FinalReleaseApportioned
