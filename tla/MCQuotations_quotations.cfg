SPECIFICATION FairSpec
CONSTANTS
    Clerks = {c1}
    Commands = {e1, e2}
    Parties = {p1, p2}
    Client = p1
    Codes = {k1}
    NoCode = NoCode
    Financials = {f1}
    MaxVersion = 2
    MaxTime = 1
    MaxQuotations = 2
    MaxRevisions = 2
    MaxIssues = 2
    MaxOrders = 1
INVARIANTS SerialsComplete OrderedWasSent ExpiryRecordedOnce
PROPERTIES ExpiryRecorded
CHECK_DEADLOCK FALSE
