\* Faults stop at LastFault; the clock then covers every lock and back-off.
SPECIFICATION FairSpec
CONSTANTS
    d1 = d1
    d2 = d2
    w1 = w1
    w2 = w2
    a1 = a1
    Deliveries = {d1, d2}
    Workers = {w1}
    Admins = {}
    Schedules = {0}
    Expiries <- MCExpiries
    Batch = 1
    MaxAttempts = 2
    RetryBase = 1
    RetryMax = 2
    LockTimeout = 1
    Inline = FALSE
    MaxTime = 3
    LastFault = 1
    MaxRetries = 1
PROPERTY
    Settled
