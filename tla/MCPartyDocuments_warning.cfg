\* One document, one request at a time, no failure.
SPECIFICATION DocumentsSpec
CONSTANTS
    DocumentIds = {d1}
    ContentOf <- MCContent
    Dates = {1, 2}
    Users = {u1}
    Faults = FALSE
    MaxUploads = 1
    MaxUpdates = 1
    NoDocument = NoDocument
INVARIANT WarningScheduled
CHECK_DEADLOCK FALSE
