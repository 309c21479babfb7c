---------------------------- MODULE TaskLifecycle ----------------------------
(***************************************************************************)
(* The lifecycle of task batches, tasks and reminders (tasks/services/     *)
(* lifecycle.py and reminders.py) as concurrent PostgreSQL transactions.   *)
(*                                                                         *)
(* Every service is one READ COMMITTED transaction.  Its first statement   *)
(* is SELECT ... FOR UPDATE OF self with the parent rows joined: the       *)
(* locked row is re-read once the lock is granted, the joined rows are     *)
(* those of the statement's snapshot and may be stale by then.  Writes     *)
(* become visible at COMMIT.  Each service inserts TaskActivity rows, and  *)
(* Django declares foreign keys DEFERRABLE INITIALLY DEFERRED, so COMMIT   *)
(* takes a KEY SHARE lock on the task and batch rows they refer to and     *)
(* waits while another transaction holds one of them FOR UPDATE.           *)
(*                                                                         *)
(* TO_DO, IN_PROGRESS and BLOCKED are one status here, "ACTIVE": no rule   *)
(* below tells them apart; a move between them writes "ACTIVE" again.      *)
(***************************************************************************)
EXTENDS Naturals

CONSTANTS
    Batches,      \* TaskBatch rows
    Tasks,        \* Task rows
    Reminders,    \* identities TaskReminder rows may take
    Txns,         \* requests served at the same time
    BatchOf,      \* Task.batch
    TaskOf,       \* TaskReminder.task
    Personal,     \* the batches whose assignment_type is PERSONAL
    MaxTime,      \* bound on the instants a deadline or a reminder may name
    Nobody        \* the owner of an unlocked row

Rows == Batches \cup Tasks \cup Reminders

ASSUME TablesAssumption ==
    /\ BatchOf \in [Tasks -> Batches]
    /\ TaskOf \in [Reminders -> Tasks]
    /\ Personal \subseteq Batches
    /\ MaxTime \in Nat
    /\ Nobody \notin Txns
    /\ Batches \cap Tasks = {}
    /\ Batches \cap Reminders = {}
    /\ Tasks \cap Reminders = {}

VARIABLES
    batch,        \* committed TaskBatch rows: cancelled_at, archived_at set? and due_at
    task,         \* committed Task rows: status and archived_at
    reminder,     \* committed TaskReminder rows: existence or cancelled_at, and remind_at
    owner,        \* the transaction holding a row FOR UPDATE
    tx            \* what each running transaction has read and is about to write

vars == <<batch, task, reminder, owner, tx>>

\* due_at = 0 stands for NULL.
Instants == 1..MaxTime
BatchRow == [cancelled : BOOLEAN, archived : BOOLEAN, due : 0..MaxTime]

\* archived_at: NULL, a time of its own, or the archived_at of its batch.
FinalStatuses == {"COMPLETED", "CANCELLED"}
TaskRow == [status : {"ACTIVE"} \cup FinalStatuses,
            archived : {"NO", "ALONE", "WITH_BATCH"}]
ReminderRow == [state : {"ABSENT", "ACTIVE", "CANCELLED"}, at : Instants \cup {0}]

TasksOf(b) == {k \in Tasks : BatchOf[k] = b}

-----------------------------------------------------------------------------
(* The state of one transaction.                                           *)

TaskOps     == {"progress", "complete", "cancel", "archive", "restore", "remind"}
BatchOps    == {"edit", "cancelBatch", "archiveBatch", "restoreBatch"}
ReminderOps == {"reschedule", "cancelReminder"}

\* The operations that close tasks and so cancel their reminders.
ClosingOps == {"complete", "cancel", "cancelBatch"}

\* What a joined row holds when the operation never looks at it.
NoBatch == [cancelled |-> FALSE, archived |-> FALSE, due |-> 0]
NoTask  == [status |-> "ACTIVE", archived |-> "NO"]

Idle == [pc |-> "idle", op |-> "none", row |-> Nobody, value |-> 0,
         seenBatch |-> NoBatch, seenTask |-> NoTask, todo |-> {}, rems |-> {}]

TxState ==
    [pc        : {"idle", "lock", "tasks", "find", "claim", "commit"},
     op        : {"none"} \cup TaskOps \cup BatchOps \cup ReminderOps,
     row       : Rows \cup {Nobody},
     value     : 0..MaxTime,
     seenBatch : BatchRow,          \* the batch as the first statement joined it
     seenTask  : TaskRow,           \* the task as the first statement joined it
     todo      : SUBSET Tasks,      \* tasks it writes
     rems      : SUBSET Reminders]  \* reminders it writes

At(t, pc, op) == tx[t].pc = pc /\ tx[t].op = op

\* FOR UPDATE on a set of rows; it waits while another transaction holds one.
Acquire(t, rows) ==
    /\ \A x \in rows : owner[x] \in {Nobody, t}
    /\ owner' = [x \in Rows |-> IF x \in rows THEN t ELSE owner[x]]

Release(t) == owner' = [x \in Rows |-> IF owner[x] = t THEN Nobody ELSE owner[x]]

TypeOK ==
    /\ batch \in [Batches -> BatchRow]
    /\ task \in [Tasks -> TaskRow]
    /\ reminder \in [Reminders -> ReminderRow]
    /\ owner \in [Rows -> Txns \cup {Nobody}]
    /\ tx \in [Txns -> TxState]

\* Batches as create_task_assignment leaves them: every task active.
Init ==
    /\ batch \in [Batches -> [cancelled : {FALSE}, archived : {FALSE}, due : 0..MaxTime]]
    /\ task = [k \in Tasks |-> [status |-> "ACTIVE", archived |-> "NO"]]
    /\ reminder = [r \in Reminders |-> [state |-> "ABSENT", at |-> 0]]
    /\ owner = [x \in Rows |-> Nobody]
    /\ tx = [t \in Txns |-> Idle]

-----------------------------------------------------------------------------
(* The first statement: its snapshot, before its row lock is granted.      *)

Start(t, s) ==
    /\ tx[t].pc = "idle"
    /\ tx' = [tx EXCEPT ![t] = s]
    /\ UNCHANGED <<batch, task, reminder, owner>>

\* _lock_task: the task row is locked, its batch is joined unlocked.
RequestTask(t) ==
    \E op \in TaskOps \ {"remind"}, k \in Tasks :
        Start(t, [Idle EXCEPT !.pc = "lock", !.op = op, !.row = k,
                              !.seenBatch = IF op \in {"progress", "complete", "restore"}
                                            THEN batch[BatchOf[k]] ELSE NoBatch])

RequestReminder(t) ==
    \E r \in Reminders, at \in Instants :
        /\ reminder[r].state = "ABSENT"
        /\ Start(t, [Idle EXCEPT !.pc = "lock", !.op = "remind", !.row = TaskOf[r],
                                 !.value = at, !.rems = {r},
                                 !.seenBatch = batch[BatchOf[TaskOf[r]]]])

\* _lock_reminder: the reminder row is locked, task and batch are joined unlocked.
RequestReminderChange(t) ==
    \E r \in Reminders :
        /\ reminder[r].state # "ABSENT"
        /\ \/ \E at \in Instants :
                Start(t, [Idle EXCEPT !.pc = "lock", !.op = "reschedule", !.row = r,
                                      !.value = at, !.rems = {r},
                                      !.seenBatch = batch[BatchOf[TaskOf[r]]],
                                      !.seenTask = task[TaskOf[r]]])
           \/ Start(t, [Idle EXCEPT !.pc = "lock", !.op = "cancelReminder",
                                    !.row = r, !.rems = {r}])

\* _lock_batch: only the batch row, re-read once the lock is granted.
RequestBatch(t) ==
    \E b \in Batches :
        \/ \E due \in 0..MaxTime :
              Start(t, [Idle EXCEPT !.pc = "lock", !.op = "edit", !.row = b, !.value = due])
        \/ \E op \in BatchOps \ {"edit"} :
              Start(t, [Idle EXCEPT !.pc = "lock", !.op = op, !.row = b])

-----------------------------------------------------------------------------
(* The lock is granted and the checks of the operation pass.               *)

\* Mutant: the first statement reads the row without FOR UPDATE.
GrantedUnlocked(t, op, pc, todo) ==
    /\ At(t, "lock", op)
    /\ tx' = [tx EXCEPT ![t].pc = pc, ![t].todo = todo]
    /\ UNCHANGED <<batch, task, reminder, owner>>

Granted(t, op, pc, todo) ==
    /\ At(t, "lock", op)
    /\ Acquire(t, {tx[t].row})
    /\ tx' = [tx EXCEPT ![t].pc = pc, ![t].todo = todo]
    /\ UNCHANGED <<batch, task, reminder>>

\* What transition_task_status asks of the locked task row and the joined
\* batch row; STATUS_TRANSITIONS leaves a final status nowhere to go.
MayTransition(t, k) ==
    /\ task[k].archived = "NO"
    /\ ~tx[t].seenBatch.cancelled
    /\ task[k].status = "ACTIVE"

\* Mutant: STATUS_TRANSITIONS lets a completed task be reopened.
ReopenTask(t) ==
    LET k == tx[t].row IN
    /\ Granted(t, "progress", "commit", {k})
    /\ task[k].archived = "NO"
    /\ ~tx[t].seenBatch.cancelled

\* To TO_DO, IN_PROGRESS or BLOCKED.
ProgressTask(t) ==
    LET k == tx[t].row IN
    /\ Granted(t, "progress", "commit", {k})
    /\ MayTransition(t, k)

\* To COMPLETED, which goes on to cancel the reminders.
CompleteTask(t) ==
    LET k == tx[t].row IN
    /\ Granted(t, "complete", "find", {k})
    /\ MayTransition(t, k)

CancelTask(t) ==
    LET k == tx[t].row IN
    /\ Granted(t, "cancel", "find", {k})
    /\ task[k].archived = "NO"
    /\ task[k].status \notin FinalStatuses

ArchiveTask(t) ==
    LET k == tx[t].row IN
    /\ Granted(t, "archive", "commit", {k})
    /\ task[k].archived = "NO"
    /\ task[k].status \in FinalStatuses

\* "Restore the task batch before restoring an individual task": the batch
\* it looks at is the joined one.
RestoreTask(t) ==
    LET k == tx[t].row IN
    /\ Granted(t, "restore", "commit", {k})
    /\ task[k].archived # "NO"
    /\ ~tx[t].seenBatch.archived

\* _validate_reminder_task on the task row k and the batch row b.
ReminderAllowed(k, taskRow, batchRow, at) ==
    /\ BatchOf[k] \in Personal
    /\ taskRow.status = "ACTIVE"
    /\ taskRow.archived = "NO"
    /\ ~batchRow.cancelled
    /\ batchRow.due # 0 => at <= batchRow.due

\* The other active reminders of the task k that name the same instant.
Duplicates(k, at, r) ==
    {q \in Reminders \ {r} : TaskOf[q] = k /\ reminder[q] = [state |-> "ACTIVE", at |-> at]}

CreateReminder(t) ==
    LET k == tx[t].row IN
    /\ Granted(t, "remind", "commit", {})
    /\ ReminderAllowed(k, task[k], tx[t].seenBatch, tx[t].value)
    /\ Duplicates(k, tx[t].value, Nobody) = {}

\* Naming the same instant again is a change of the channels only.
UpdateReminder(t) ==
    LET r == tx[t].row IN
    /\ Granted(t, "reschedule", "commit", {})
    /\ reminder[r].state = "ACTIVE"
    /\ ReminderAllowed(TaskOf[r], tx[t].seenTask, tx[t].seenBatch, tx[t].value)

CancelReminder(t) ==
    /\ Granted(t, "cancelReminder", "commit", {})
    /\ reminder[tx[t].row].state = "ACTIVE"

\* update_task_batch changing due_at; a NULL deadline cancels no reminder.
EditBatch(t) ==
    LET b == tx[t].row IN
    /\ Granted(t, "edit", IF tx[t].value = 0 THEN "commit" ELSE "find", {})
    /\ ~batch[b].cancelled
    /\ ~batch[b].archived
    /\ batch[b].due # tx[t].value

CancelBatch(t) ==
    LET b == tx[t].row IN
    /\ Granted(t, "cancelBatch", "tasks", {})
    /\ ~batch[b].archived
    /\ ~batch[b].cancelled

ArchiveBatch(t) ==
    /\ Granted(t, "archiveBatch", "tasks", {})
    /\ ~batch[tx[t].row].archived

RestoreBatch(t) ==
    /\ Granted(t, "restoreBatch", "tasks", {})
    /\ batch[tx[t].row].archived

-----------------------------------------------------------------------------
(* A batch operation locks the task rows of the batch it already holds.    *)

LockTasks(t, op, rows, pc, todo) ==
    /\ At(t, "tasks", op)
    /\ Acquire(t, rows)
    /\ tx' = [tx EXCEPT ![t].pc = pc, ![t].todo = todo]
    /\ UNCHANGED <<batch, task, reminder>>

\* Mutant: the tasks another transaction holds are skipped.
CancelBatchTasksSkipLocked(t) ==
    LET free == {k \in TasksOf(tx[t].row) : owner[k] \in {Nobody, t}}
        affected == {k \in free : task[k].status = "ACTIVE" /\ task[k].archived = "NO"}
    IN  /\ affected # {}
        /\ LockTasks(t, "cancelBatch", free, "find", affected)

CancelBatchTasks(t) ==
    LET b == tx[t].row
        affected == {k \in TasksOf(b) : task[k].status = "ACTIVE" /\ task[k].archived = "NO"}
    IN  /\ affected # {}
        /\ LockTasks(t, "cancelBatch", TasksOf(b), "find", affected)

ArchiveBatchTasks(t) ==
    LET b == tx[t].row
        unarchived == {k \in TasksOf(b) : task[k].archived = "NO"}
    IN  /\ \A k \in TasksOf(b) : task[k].status \in FinalStatuses
        /\ LockTasks(t, "archiveBatch", TasksOf(b), "commit", unarchived)

\* Only the tasks that carry the archived_at of the batch.
RestoreBatchTasks(t) ==
    LET together == {k \in TasksOf(tx[t].row) : task[k].archived = "WITH_BATCH"}
    IN  LockTasks(t, "restoreBatch", together, "commit", together)

-----------------------------------------------------------------------------
(* The reminder rows to cancel: the statement's snapshot picks them, the    *)
(* locks come later and each row is tested again when its lock is granted.  *)

Active(r) == reminder[r].state = "ACTIVE"

Matches(t, r) ==
    IF tx[t].op = "edit"
    THEN /\ Active(r)
         /\ BatchOf[TaskOf[r]] = tx[t].row
         /\ reminder[r].at > tx[t].value
    ELSE Active(r) /\ TaskOf[r] \in tx[t].todo

FindReminders(t) ==
    /\ tx[t].pc = "find"
    /\ tx' = [tx EXCEPT ![t].pc = "claim", ![t].rems = {r \in Reminders : Matches(t, r)}]
    /\ UNCHANGED <<batch, task, reminder, owner>>

\* Mutant: the reminders another transaction holds are skipped.
ClaimRemindersSkipLocked(t) ==
    LET free == {r \in tx[t].rems : owner[r] \in {Nobody, t}} IN
    /\ tx[t].pc = "claim"
    /\ Acquire(t, free)
    /\ tx' = [tx EXCEPT ![t].pc = "commit", ![t].rems = {r \in free : Matches(t, r)}]
    /\ UNCHANGED <<batch, task, reminder>>

ClaimReminders(t) ==
    /\ tx[t].pc = "claim"
    /\ Acquire(t, tx[t].rems)
    /\ tx' = [tx EXCEPT ![t].pc = "commit", ![t].rems = {r \in tx[t].rems : Matches(t, r)}]
    /\ UNCHANGED <<batch, task, reminder>>

-----------------------------------------------------------------------------
(* COMMIT.                                                                 *)

\* The rows the TaskActivity rows of the transaction refer to.
Referenced(t) ==
    LET x == tx[t].row IN
    IF tx[t].op \in BatchOps
    THEN {x} \cup (IF tx[t].op = "edit" THEN TasksOf(x) ELSE tx[t].todo)
    ELSE LET k == IF tx[t].op \in ReminderOps THEN TaskOf[x] ELSE x
         IN  {k, BatchOf[k]}

Commit(t, op) ==
    /\ At(t, "commit", op)
    /\ \A x \in Referenced(t) : owner[x] \in {Nobody, t}
    /\ Release(t)
    /\ tx' = [tx EXCEPT ![t] = Idle]

SetStatus(t, status) ==
    task' = [k \in Tasks |-> IF k \in tx[t].todo
                             THEN [task[k] EXCEPT !.status = status] ELSE task[k]]

SetArchived(t, archived) ==
    task' = [k \in Tasks |-> IF k \in tx[t].todo
                             THEN [task[k] EXCEPT !.archived = archived] ELSE task[k]]

CancelReminders(t) ==
    reminder' = [r \in Reminders |-> IF r \in tx[t].rems
                                     THEN [reminder[r] EXCEPT !.state = "CANCELLED"]
                                     ELSE reminder[r]]

CommitProgress(t) ==
    /\ Commit(t, "progress")
    /\ SetStatus(t, "ACTIVE")
    /\ UNCHANGED <<batch, reminder>>

CommitComplete(t) ==
    /\ Commit(t, "complete")
    /\ SetStatus(t, "COMPLETED")
    /\ CancelReminders(t)
    /\ UNCHANGED batch

CommitCancel(t) ==
    /\ Commit(t, "cancel")
    /\ SetStatus(t, "CANCELLED")
    /\ CancelReminders(t)
    /\ UNCHANGED batch

CommitCancelBatch(t) ==
    /\ Commit(t, "cancelBatch")
    /\ batch' = [batch EXCEPT ![tx[t].row].cancelled = TRUE]
    /\ SetStatus(t, "CANCELLED")
    /\ CancelReminders(t)

CommitArchive(t) ==
    /\ Commit(t, "archive")
    /\ SetArchived(t, "ALONE")
    /\ UNCHANGED <<batch, reminder>>

CommitRestore(t) ==
    /\ Commit(t, "restore")
    /\ SetArchived(t, "NO")
    /\ UNCHANGED <<batch, reminder>>

CommitArchiveBatch(t) ==
    /\ Commit(t, "archiveBatch")
    /\ batch' = [batch EXCEPT ![tx[t].row].archived = TRUE]
    /\ SetArchived(t, "WITH_BATCH")
    /\ UNCHANGED reminder

CommitRestoreBatch(t) ==
    /\ Commit(t, "restoreBatch")
    /\ batch' = [batch EXCEPT ![tx[t].row].archived = FALSE]
    /\ SetArchived(t, "NO")
    /\ UNCHANGED reminder

CommitEdit(t) ==
    /\ Commit(t, "edit")
    /\ batch' = [batch EXCEPT ![tx[t].row].due = tx[t].value]
    /\ CancelReminders(t)
    /\ UNCHANGED task

\* The unique index on active (task, user, remind_at) refuses a second row.
CommitRemind(t) ==
    /\ Commit(t, "remind")
    /\ \A r \in tx[t].rems :
          /\ reminder[r].state = "ABSENT"
          /\ Duplicates(TaskOf[r], tx[t].value, r) = {}
    /\ reminder' = [r \in Reminders |-> IF r \in tx[t].rems
                                        THEN [state |-> "ACTIVE", at |-> tx[t].value]
                                        ELSE reminder[r]]
    /\ UNCHANGED <<batch, task>>

CommitReschedule(t) ==
    LET r == tx[t].row IN
    /\ Commit(t, "reschedule")
    /\ Duplicates(TaskOf[r], tx[t].value, r) = {}
    /\ reminder' = [reminder EXCEPT ![r].at = tx[t].value]
    /\ UNCHANGED <<batch, task>>

CommitCancelReminder(t) ==
    /\ Commit(t, "cancelReminder")
    /\ CancelReminders(t)
    /\ UNCHANGED <<batch, task>>

\* A failed check, a permission refusal, a deadlock victim or a lost
\* connection: the transaction rolls back and its locks are released.
Abort(t) ==
    /\ tx[t].pc # "idle"
    /\ Release(t)
    /\ tx' = [tx EXCEPT ![t] = Idle]
    /\ UNCHANGED <<batch, task, reminder>>

Requests(t) == RequestTask(t) \/ RequestReminder(t) \/ RequestReminderChange(t) \/ RequestBatch(t)

Checks(t) ==
    \/ ProgressTask(t) \/ CompleteTask(t) \/ CancelTask(t) \/ ArchiveTask(t) \/ RestoreTask(t)
    \/ CreateReminder(t) \/ UpdateReminder(t) \/ CancelReminder(t)
    \/ EditBatch(t) \/ CancelBatch(t) \/ ArchiveBatch(t) \/ RestoreBatch(t)

Locks(t) ==
    \/ CancelBatchTasks(t) \/ ArchiveBatchTasks(t) \/ RestoreBatchTasks(t)
    \/ FindReminders(t) \/ ClaimReminders(t)

Commits(t) ==
    \/ CommitProgress(t) \/ CommitComplete(t) \/ CommitCancel(t) \/ CommitCancelBatch(t)
    \/ CommitArchive(t) \/ CommitRestore(t) \/ CommitArchiveBatch(t) \/ CommitRestoreBatch(t)
    \/ CommitEdit(t) \/ CommitRemind(t) \/ CommitReschedule(t) \/ CommitCancelReminder(t)

Next == \E t \in Txns : Requests(t) \/ Checks(t) \/ Locks(t) \/ Commits(t) \/ Abort(t)

Spec == Init /\ [][Next]_vars

-----------------------------------------------------------------------------
(* Properties.                                                             *)

\* A cancelled assignment has no task still to be done, whichever requests
\* ran while it was being cancelled: what inconsistent_batch_tasks of the
\* check_task_integrity command looks for.
NoActiveTaskUnderCancelledBatch ==
    \A k \in Tasks : batch[BatchOf[k]].cancelled => task[k].status # "ACTIVE"

\* A reminder that is still scheduled belongs to an active, unarchived task
\* of a batch that is not cancelled, although rescheduling a reminder locks
\* neither the task nor the batch: the first three disjuncts of
\* invalid_reminders in check_task_integrity.
NoReminderOnFinishedTask ==
    \A r \in Reminders : reminder[r].state = "ACTIVE" =>
        /\ task[TaskOf[r]].status = "ACTIVE"
        /\ task[TaskOf[r]].archived = "NO"
        /\ ~batch[BatchOf[TaskOf[r]]].cancelled

\* An archived assignment hides no unfinished work: archive_task_batch
\* checks its tasks once, and nothing that runs later reopens one.
ArchivedBatchIsFinished ==
    \A k \in Tasks : batch[BatchOf[k]].archived => task[k].status \in FinalStatuses

\* A finished task keeps its outcome: a cancellation racing a completion
\* never overwrites the status the other one committed.
FinalStatusIsFinal ==
    [][\A k \in Tasks : task[k].status \in FinalStatuses => task'[k].status = task[k].status]_vars

-----------------------------------------------------------------------------
(* The inductive invariant.  OwnTx(t) is what a transaction knows of the   *)
(* rows it is about to write; the locks it holds keep it true while the    *)
(* others run.  RowsOK is what every commit leaves behind.                 *)

Past(t) == tx[t].pc \in {"find", "claim", "commit"}

\* The operation fits the row it names and the point it has reached.
RequestFits(t) ==
    /\ tx[t].pc # "idle" => tx[t].op \in TaskOps \cup BatchOps \cup ReminderOps
    /\ tx[t].op \in TaskOps => tx[t].row \in Tasks
    /\ tx[t].op \in BatchOps => tx[t].row \in Batches
    /\ tx[t].op \in ReminderOps => tx[t].row \in Reminders
    /\ tx[t].pc \in {"find", "claim"} => tx[t].op \in ClosingOps \cup {"edit"}
    /\ tx[t].op = "remind" => \A r \in tx[t].rems : TaskOf[r] = tx[t].row

\* Past its first lock, it holds its row and every task it will write.
HoldsLocks(t) ==
    tx[t].pc \notin {"idle", "lock"} =>
        /\ owner[tx[t].row] = t
        /\ \A k \in tx[t].todo : owner[k] = t

\* Every task whose status it will write is still unfinished and unarchived.
WritesUnfinished(t) ==
    Past(t) /\ tx[t].op \in ClosingOps \cup {"progress"} =>
        \A k \in tx[t].todo : task[k] = [status |-> "ACTIVE", archived |-> "NO"]

\* Once it has looked for them, no scheduled reminder of a task it closes
\* escapes it: a new one needs the lock of the task.
CoversReminders(t) ==
    tx[t].pc \in {"claim", "commit"} /\ tx[t].op \in ClosingOps =>
        \A r \in Reminders : Active(r) /\ TaskOf[r] \in tx[t].todo => r \in tx[t].rems

\* A reminder about to be created belongs to an unfinished task.
RemindsUnfinished(t) ==
    At(t, "commit", "remind") => task[tx[t].row].status = "ACTIVE"

\* What it is about to archive is finished.
ArchivesFinished(t) ==
    /\ At(t, "commit", "archive") =>
          \A k \in tx[t].todo : task[k].status \in FinalStatuses
    /\ At(t, "commit", "archiveBatch") =>
          /\ tx[t].todo \subseteq TasksOf(tx[t].row)
          /\ \A k \in TasksOf(tx[t].row) : task[k].status \in FinalStatuses

\* A batch cancellation leaves alone only the tasks that are finished.
CancelsTheRest(t) ==
    Past(t) /\ tx[t].op = "cancelBatch" =>
        \A k \in TasksOf(tx[t].row) \ tx[t].todo : task[k].status \in FinalStatuses

OwnTx(t) ==
    /\ RequestFits(t)
    /\ HoldsLocks(t)
    /\ WritesUnfinished(t)
    /\ CoversReminders(t)
    /\ RemindsUnfinished(t)
    /\ ArchivesFinished(t)
    /\ CancelsTheRest(t)

ArchivedIsFinished == \A k \in Tasks : task[k].archived # "NO" => task[k].status \in FinalStatuses

RowsOK ==
    /\ ArchivedIsFinished
    /\ NoActiveTaskUnderCancelledBatch
    /\ ArchivedBatchIsFinished
    /\ NoReminderOnFinishedTask

\* The state between two steps of the transactions: each of them may rely
\* on what it read under lock, and the committed rows agree.  It is what
\* makes the invariants above hold for any number of rows and requests.
IInv ==
    /\ TypeOK
    /\ \A t \in Txns : OwnTx(t)
    /\ RowsOK
=============================================================================
