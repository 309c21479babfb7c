\* Two workers and an administrator on one delivery that may be cancelled.
SPECIFICATION Spec
CONSTANTS
    d1 = d1
    d2 = d2
    w1 = w1
    w2 = w2
    a1 = a1
    Deliveries = {d1}
    Workers = {w1, w2}
    Admins = {a1}
    Schedules = {0, 1}
    Expiries <- MCExpiries
    Batch = 1
    MaxAttempts = 2
    RetryBase = 1
    RetryMax = 2
    LockTimeout = 0
    Inline = TRUE
    MaxTime = 3
    LastFault = 3
    MaxRetries = 1
SYMMETRY Symmetric
INVARIANTS
    CopiesExplained
    FailedIsExhausted
PROPERTY
    CancelledIsNotAttempted
