\* One batch of two tasks, one with a reminder, and two requests at a time.
SPECIFICATION Spec
CONSTANTS
    b1 = b1
    Batches <- OneBatch
    Tasks = {k1, k2}
    Reminders = {r1}
    Txns = {x1, x2}
    BatchOf <- BatchOfEach
    TaskOf <- TaskOfEach
    Personal <- OneBatch
    MaxTime = 2
    Nobody = Nobody
SYMMETRY Symmetric
INVARIANTS
    NoReminderOnFinishedTask
    NoActiveTaskUnderCancelledBatch
    ArchivedBatchIsFinished
PROPERTY
    FinalStatusIsFinal
