----------------------------- MODULE TaskProofs ------------------------------
(*****************************************************************************)
(* Proofs about TaskLifecycle and ReminderNotices, for any tables, any number *)
(* of requests and any deadlines.                                            *)
(*                                                                           *)
(* TaskLifecycle: the argument is rely-guarantee.  Guarantee(t) says what a  *)
(* step of t may do to the rows of the others, Rely that their knowledge     *)
(* survives it, and one lemma per action shows that the action keeps to its  *)
(* guarantee, leaves the rows in order and knows what it wrote.              *)
(* ReminderNotices: an active reminder has one notification to come, at its  *)
(* time, whatever requests and repairs are under way.                        *)
(*****************************************************************************)
EXTENDS TaskLifecycle, ReminderNotices, TLAPS

-----------------------------------------------------------------------------
(* TaskLifecycle.                                                          *)

USE TablesAssumption

\* What a step of t may do to rows and transactions that are not its own.
Guarantee(t) ==
    /\ \A u \in Txns \ {t} : tx'[u] = tx[u]
    /\ \A x \in Rows : owner[x] \in Txns \ {t} => owner'[x] = owner[x]
    /\ \A k \in Tasks : task'[k] # task[k] => owner[k] = t
    /\ \A k \in Tasks : task[k].status \in FinalStatuses => task'[k].status = task[k].status
    /\ \A r \in Reminders : Active(r)' /\ ~Active(r) => owner[TaskOf[r]] = t

\* What is to be shown of every action of t.
Keeps(t) == TypeOK' /\ OwnTx(t)' /\ RowsOK' /\ Guarantee(t)

-----------------------------------------------------------------------------
\* A step that keeps to the guarantee of t leaves the other transactions
\* everything they know: their locks are what protects it.
LEMMA Rely ==
    ASSUME TypeOK, TypeOK', NEW t \in Txns, NEW u \in Txns \ {t}, OwnTx(u), Guarantee(t)
    PROVE  OwnTx(u)'
<1>1. tx'[u] = tx[u]
  BY DEF Guarantee
<1>2. RequestFits(u)'
  BY <1>1 DEF OwnTx, RequestFits
<1>3. \A x \in Rows : owner[x] = u => owner'[x] = u
  BY DEF Guarantee
<1>4. /\ tx[u].row \in Rows \cup {Nobody}
      /\ tx[u].todo \in SUBSET Tasks
      /\ tx[u].rems \in SUBSET Reminders
  BY DEF TypeOK, TxState
<1>5. HoldsLocks(u) /\ HoldsLocks(u)'
  <2>1. HoldsLocks(u)
    BY DEF OwnTx
  <2>2. tx[u].pc \notin {"idle", "lock"} => tx[u].row \in Rows
    BY DEF OwnTx, RequestFits, Rows
  <2> QED
    BY <1>1, <1>3, <1>4, <2>1, <2>2 DEF HoldsLocks, Rows
<1>6. ASSUME tx[u].pc \notin {"idle", "lock"}
      PROVE  /\ \A k \in tx[u].todo : task'[k] = task[k]
             /\ tx[u].row \in Tasks => task'[tx[u].row] = task[tx[u].row]
  BY <1>4, <1>5, <1>6 DEF HoldsLocks, Guarantee
<1>7. WritesUnfinished(u)'
  BY <1>1, <1>6 DEF OwnTx, WritesUnfinished, Past
<1>8. CoversReminders(u)'
  BY <1>1, <1>4, <1>5 DEF OwnTx, CoversReminders, HoldsLocks, Guarantee
<1>9. RemindsUnfinished(u)'
  BY <1>1, <1>6 DEF OwnTx, RemindsUnfinished, RequestFits, At, TaskOps
<1>10. \A k \in Tasks : task[k].status \in FinalStatuses => task'[k].status \in FinalStatuses
  BY DEF Guarantee
<1>11. ArchivesFinished(u)'
  BY <1>1, <1>4, <1>10 DEF OwnTx, ArchivesFinished, At, TasksOf
<1>12. CancelsTheRest(u)'
  BY <1>1, <1>10 DEF OwnTx, CancelsTheRest, Past, TasksOf
<1> QED
  BY <1>2, <1>5, <1>7, <1>8, <1>9, <1>11, <1>12 DEF OwnTx

-----------------------------------------------------------------------------
(* Facts shared by the steps of one kind.                                  *)

\* Rows in order stay in order while nothing is committed.
LEMMA QuietRows ==
    ASSUME RowsOK, UNCHANGED <<batch, task, reminder>>
    PROVE  RowsOK'
BY DEF RowsOK, ArchivedIsFinished, NoActiveTaskUnderCancelledBatch, ArchivedBatchIsFinished,
       NoReminderOnFinishedTask

\* A request only takes down what its snapshot shows.
LEMMA StartKeeps ==
    ASSUME IInv, NEW t \in Txns, NEW s \in TxState, Start(t, s), s.pc = "lock",
           s.op \in TaskOps \cup BatchOps \cup ReminderOps,
           s.op \in TaskOps => s.row \in Tasks,
           s.op \in BatchOps => s.row \in Batches,
           s.op \in ReminderOps => s.row \in Reminders,
           s.op = "remind" => \A r \in s.rems : TaskOf[r] = s.row
    PROVE  Keeps(t)
<1>1. tx' = [tx EXCEPT ![t] = s] /\ UNCHANGED <<batch, task, reminder, owner>>
  BY DEF Start
<1>2. TypeOK /\ RowsOK
  BY DEF IInv
<1>3. TypeOK' /\ tx'[t] = s
  BY <1>1, <1>2 DEF TypeOK
<1>4. OwnTx(t)'
  BY <1>3 DEF OwnTx, RequestFits, HoldsLocks, WritesUnfinished, CoversReminders,
              RemindsUnfinished, ArchivesFinished, CancelsTheRest, Past, At
<1>5. Guarantee(t)
  BY <1>1, <1>2 DEF Guarantee, TypeOK, Active
<1> QED
  BY <1>1, <1>2, <1>3, <1>4, <1>5, QuietRows DEF Keeps

\* A lock that is granted takes nothing from another transaction.
LEMMA AcquireKeeps ==
    ASSUME TypeOK, NEW t \in Txns, NEW rows \in SUBSET Rows, Acquire(t, rows)
    PROVE  /\ owner' \in [Rows -> Txns \cup {Nobody}]
           /\ \A x \in Rows : owner[x] \in Txns \ {t} => owner'[x] = owner[x]
           /\ \A x \in Rows : owner[x] = t => owner'[x] = t
           /\ \A x \in rows : owner'[x] = t
BY DEF TypeOK, Acquire

\* A request that has its locks: it moves to pc, nothing else changes but its
\* own state and what it holds.
Moves(t, pc, todo) ==
    /\ tx'[t].op = tx[t].op /\ tx'[t].pc = pc /\ tx'[t].todo = todo
    /\ tx'[t].row = tx[t].row /\ tx'[t].rems = tx[t].rems
    /\ UNCHANGED <<batch, task, reminder>>
    /\ TypeOK' /\ RowsOK' /\ Guarantee(t)
    /\ RequestFits(t)' /\ HoldsLocks(t)'

\* The first lock: the transaction moves on and holds its row.
LEMMA GrantedKeeps ==
    ASSUME IInv, NEW t \in Txns, NEW pc \in {"tasks", "find", "commit"},
           NEW todo \in SUBSET Tasks, todo \subseteq {tx[t].row}, Granted(t, tx[t].op,
           pc, todo),
           pc = "find" => tx[t].op \in ClosingOps \cup {"edit"}
    PROVE  Moves(t, pc, todo)
<1>1. /\ TypeOK /\ RowsOK /\ RequestFits(t)
      /\ At(t, "lock", tx[t].op) /\ Acquire(t, {tx[t].row})
      /\ tx' = [tx EXCEPT ![t].pc = pc, ![t].todo = todo]
      /\ UNCHANGED <<batch, task, reminder>>
  BY DEF IInv, OwnTx, Granted
<1>2. tx[t] \in TxState /\ tx[t].pc = "lock"
  BY <1>1 DEF TypeOK, At
<1>3. tx[t].row \in Rows
  BY <1>1, <1>2 DEF RequestFits, Rows
<1>4. /\ owner' \in [Rows -> Txns \cup {Nobody}]
      /\ \A x \in Rows : owner[x] \in Txns \ {t} => owner'[x] = owner[x]
      /\ owner'[tx[t].row] = t
  BY <1>1, <1>3, AcquireKeeps
<1>5. /\ tx'[t] = [tx[t] EXCEPT !.pc = pc, !.todo = todo]
      /\ \A u \in Txns \ {t} : tx'[u] = tx[u]
  BY <1>1 DEF TypeOK
<1>6. [tx[t] EXCEPT !.pc = pc, !.todo = todo] \in TxState
  BY <1>2 DEF TxState
<1>7. tx' \in [Txns -> TxState]
  BY <1>1, <1>5, <1>6 DEF TypeOK
<1>8. TypeOK'
  BY <1>1, <1>4, <1>7 DEF TypeOK
<1>9. tx'[t].op = tx[t].op /\ tx'[t].row = tx[t].row /\ tx'[t].rems = tx[t].rems /\ tx'[t].todo = todo
  BY <1>2, <1>5 DEF TxState
<1>10. RequestFits(t)'
  BY <1>1, <1>2, <1>5, <1>6, <1>9 DEF RequestFits, TxState
<1>11. HoldsLocks(t)'
  BY <1>4, <1>9 DEF HoldsLocks
<1>12. Guarantee(t)
  BY <1>1, <1>4, <1>5 DEF Guarantee, Active
<1> QED
  BY <1>1, <1>2, <1>5, <1>6, <1>8, <1>9, <1>10, <1>11, <1>12, QuietRows DEF TxState, Moves

-----------------------------------------------------------------------------
(* The requests.                                                           *)

\* What a snapshot joins is a row of the tables.
LEMMA IdleShape == Idle \in TxState /\ NoBatch \in BatchRow /\ NoTask \in TaskRow
BY DEF NoBatch, NoTask, BatchRow, TaskRow, Idle, TxState

LEMMA IdleType ==
    ASSUME TypeOK
    PROVE  /\ Idle \in TxState
           /\ NoBatch \in BatchRow /\ NoTask \in TaskRow
           /\ \A k \in Tasks : task[k] \in TaskRow /\ batch[BatchOf[k]] \in BatchRow
BY IdleShape DEF TypeOK

LEMMA RequestTaskKeeps ==
    ASSUME IInv, NEW t \in Txns, RequestTask(t)
    PROVE  Keeps(t)
<1>1. PICK op \in TaskOps \ {"remind"}, k \in Tasks :
        Start(t, [Idle EXCEPT !.pc = "lock", !.op = op, !.row = k,
                              !.seenBatch = IF op \in {"progress", "complete", "restore"}
                                            THEN batch[BatchOf[k]] ELSE NoBatch])
  BY DEF RequestTask
<1> DEFINE s == [Idle EXCEPT !.pc = "lock", !.op = op, !.row = k,
                             !.seenBatch = IF op \in {"progress", "complete", "restore"}
                                           THEN batch[BatchOf[k]] ELSE NoBatch]
<1>2. TypeOK
  BY DEF IInv
<1>3. s \in TxState /\ s.pc = "lock" /\ s.op = op /\ s.row = k
  BY <1>2, IdleType DEF TxState, Idle, Rows
<1>4. op \notin BatchOps /\ op \notin ReminderOps /\ op # "remind"
  BY DEF TaskOps, BatchOps, ReminderOps
<1> HIDE DEF s
<1>5. Start(t, s)
  BY <1>1 DEF s
<1> QED
  BY <1>3, <1>4, <1>5, StartKeeps

LEMMA RequestReminderKeeps ==
    ASSUME IInv, NEW t \in Txns, RequestReminder(t)
    PROVE  Keeps(t)
<1>1. PICK r \in Reminders, at \in Instants :
        Start(t, [Idle EXCEPT !.pc = "lock", !.op = "remind", !.row = TaskOf[r],
                              !.value = at, !.rems = {r},
                              !.seenBatch = batch[BatchOf[TaskOf[r]]]])
  BY DEF RequestReminder
<1> DEFINE s == [Idle EXCEPT !.pc = "lock", !.op = "remind", !.row = TaskOf[r],
                             !.value = at, !.rems = {r},
                             !.seenBatch = batch[BatchOf[TaskOf[r]]]]
<1>2. TypeOK
  BY DEF IInv
<1>3. /\ s \in TxState /\ s.pc = "lock" /\ s.op = "remind" /\ s.row = TaskOf[r] /\ s.rems = {r}
      /\ s.row \in Tasks
  <2>1. TaskOf[r] \in Tasks /\ batch[BatchOf[TaskOf[r]]] \in BatchRow /\ at \in 0..MaxTime
    BY <1>2, IdleType DEF Instants
  <2>2. Idle \in TxState
    BY <1>2, IdleType
  <2> QED
    BY <2>1, <2>2 DEF TxState, Idle, Rows, TaskOps
<1>4. s.op \in TaskOps /\ s.op \notin BatchOps /\ s.op \notin ReminderOps
  BY <1>3 DEF TaskOps, BatchOps, ReminderOps
<1> HIDE DEF s
<1>5. Start(t, s)
  BY <1>1 DEF s
<1>6. \A q \in s.rems : TaskOf[q] = s.row
  BY <1>3
<1> QED
  BY <1>3, <1>4, <1>5, <1>6, StartKeeps

LEMMA RequestReminderChangeKeeps ==
    ASSUME IInv, NEW t \in Txns, RequestReminderChange(t)
    PROVE  Keeps(t)
<1>1. PICK r \in Reminders :
        \/ \E at \in Instants :
             Start(t, [Idle EXCEPT !.pc = "lock", !.op = "reschedule", !.row = r,
                                   !.value = at, !.rems = {r},
                                   !.seenBatch = batch[BatchOf[TaskOf[r]]],
                                   !.seenTask = task[TaskOf[r]]])
        \/ Start(t, [Idle EXCEPT !.pc = "lock", !.op = "cancelReminder",
                                 !.row = r, !.rems = {r}])
  BY DEF RequestReminderChange
<1>2. TypeOK
  BY DEF IInv
<1>3. PICK s \in TxState : /\ Start(t, s) /\ s.pc = "lock" /\ s.row = r
                           /\ s.op \in ReminderOps
  <2>1. CASE Start(t, [Idle EXCEPT !.pc = "lock", !.op = "cancelReminder",
                                   !.row = r, !.rems = {r}])
    <3> DEFINE s == [Idle EXCEPT !.pc = "lock", !.op = "cancelReminder", !.row = r, !.rems = {r}]
    <3>1. s \in TxState /\ s.pc = "lock" /\ s.row = r /\ s.op \in ReminderOps
      BY <1>2, IdleType DEF TxState, Idle, Rows, ReminderOps
    <3> QED
      BY <2>1, <3>1
  <2>2. CASE \E at \in Instants :
               Start(t, [Idle EXCEPT !.pc = "lock", !.op = "reschedule", !.row = r,
                                     !.value = at, !.rems = {r},
                                     !.seenBatch = batch[BatchOf[TaskOf[r]]],
                                     !.seenTask = task[TaskOf[r]]])
    <3>1. PICK at \in Instants :
               Start(t, [Idle EXCEPT !.pc = "lock", !.op = "reschedule", !.row = r,
                                     !.value = at, !.rems = {r},
                                     !.seenBatch = batch[BatchOf[TaskOf[r]]],
                                     !.seenTask = task[TaskOf[r]]])
      BY <2>2
    <3> DEFINE s == [Idle EXCEPT !.pc = "lock", !.op = "reschedule", !.row = r,
                                 !.value = at, !.rems = {r},
                                 !.seenBatch = batch[BatchOf[TaskOf[r]]],
                                 !.seenTask = task[TaskOf[r]]]
    <3>2. s \in TxState /\ s.pc = "lock" /\ s.row = r /\ s.op \in ReminderOps
      <4>1. /\ batch[BatchOf[TaskOf[r]]] \in BatchRow /\ task[TaskOf[r]] \in TaskRow
            /\ at \in 0..MaxTime /\ Idle \in TxState
        BY <1>2, IdleType DEF Instants
      <4> QED
        BY <4>1 DEF TxState, Idle, Rows, ReminderOps
    <3> QED
      BY <3>1, <3>2
  <2> QED
    BY <1>1, <2>1, <2>2
<1>4. s.op \notin TaskOps /\ s.op \notin BatchOps /\ s.op # "remind"
  BY <1>3 DEF TaskOps, BatchOps, ReminderOps
<1> QED
  BY <1>3, <1>4, StartKeeps

LEMMA RequestBatchKeeps ==
    ASSUME IInv, NEW t \in Txns, RequestBatch(t)
    PROVE  Keeps(t)
<1>1. PICK b \in Batches :
        \/ \E due \in 0..MaxTime :
              Start(t, [Idle EXCEPT !.pc = "lock", !.op = "edit", !.row = b,
              !.value = due])
        \/ \E op \in BatchOps \ {"edit"} :
              Start(t, [Idle EXCEPT !.pc = "lock", !.op = op, !.row = b])
  BY DEF RequestBatch
<1>2. TypeOK
  BY DEF IInv
<1>3. PICK s \in TxState : /\ Start(t, s) /\ s.pc = "lock" /\ s.row = b
                           /\ s.op \in BatchOps
  <2>1. ASSUME NEW due \in 0..MaxTime,
               Start(t, [Idle EXCEPT !.pc = "lock", !.op = "edit", !.row = b,
               !.value = due])
        PROVE  \E s \in TxState : Start(t, s) /\ s.pc = "lock" /\ s.row = b /\ s.op \in BatchOps
    <3> DEFINE s == [Idle EXCEPT !.pc = "lock", !.op = "edit", !.row = b, !.value = due]
    <3>1. s \in TxState /\ s.pc = "lock" /\ s.row = b /\ s.op \in BatchOps
      BY <1>2, IdleType DEF TxState, Idle, Rows, BatchOps
    <3> QED
      BY <2>1, <3>1
  <2>2. ASSUME NEW op \in BatchOps \ {"edit"},
               Start(t, [Idle EXCEPT !.pc = "lock", !.op = op, !.row = b])
        PROVE  \E s \in TxState : Start(t, s) /\ s.pc = "lock" /\ s.row = b /\ s.op \in BatchOps
    <3> DEFINE s == [Idle EXCEPT !.pc = "lock", !.op = op, !.row = b]
    <3>1. s \in TxState /\ s.pc = "lock" /\ s.row = b /\ s.op \in BatchOps
      BY <1>2, IdleType DEF TxState, Idle, Rows
    <3> QED
      BY <2>2, <3>1
  <2> QED
    BY <1>1, <2>1, <2>2
<1>4. s.op \notin TaskOps /\ s.op \notin ReminderOps /\ s.op # "remind"
  BY <1>3 DEF TaskOps, BatchOps, ReminderOps
<1> QED
  BY <1>3, <1>4, StartKeeps

-----------------------------------------------------------------------------
(* The checks under the first lock.                                        *)

\* A task operation names a task.
LEMMA LockedTask ==
    ASSUME IInv, NEW t \in Txns, NEW op \in TaskOps, At(t, "lock", op)
    PROVE  tx[t].row \in Tasks /\ task[tx[t].row] \in TaskRow
BY DEF IInv, OwnTx, RequestFits, At, TypeOK

LEMMA ProgressTaskKeeps ==
    ASSUME IInv, NEW t \in Txns, ProgressTask(t)
    PROVE  Keeps(t)
<1> DEFINE k == tx[t].row
<1>1. k \in Tasks /\ task[k] \in TaskRow
  BY LockedTask DEF ProgressTask, Granted, TaskOps
<1>2. Granted(t, "progress", "commit", {k})
  BY DEF ProgressTask
<1>3. /\ tx'[t].op = "progress" /\ tx'[t].pc = "commit" /\ tx'[t].todo = {k}
      /\ tx'[t].row = k /\ UNCHANGED <<batch, task, reminder>>
      /\ TypeOK' /\ RowsOK' /\ Guarantee(t)
      /\ RequestFits(t)' /\ HoldsLocks(t)'
  <2>1. tx[t].op = "progress"
    BY <1>2 DEF Granted, At
  <2>2. Granted(t, tx[t].op, "commit", {k})
    BY <1>2, <2>1
  <2>3. {k} \in SUBSET Tasks /\ {k} \subseteq {tx[t].row}
    BY <1>1
  <2>4. Moves(t, "commit", {k})
    BY <2>2, <2>3, GrantedKeeps
  <2> QED
    BY <2>1, <2>4 DEF Moves
<1>4. task[k] = [status |-> "ACTIVE", archived |-> "NO"]
  BY <1>1 DEF ProgressTask, MayTransition, TaskRow
<1> QED
  BY <1>3, <1>4 DEF Keeps, OwnTx, WritesUnfinished, CoversReminders, RemindsUnfinished,
     ArchivesFinished,
     CancelsTheRest, Past, At, ClosingOps

LEMMA CompleteTaskKeeps ==
    ASSUME IInv, NEW t \in Txns, CompleteTask(t)
    PROVE  Keeps(t)
<1> DEFINE k == tx[t].row
<1>1. k \in Tasks /\ task[k] \in TaskRow
  BY LockedTask DEF CompleteTask, Granted, TaskOps
<1>2. Granted(t, "complete", "find", {k})
  BY DEF CompleteTask
<1>3. /\ tx'[t].op = "complete" /\ tx'[t].pc = "find" /\ tx'[t].todo = {k}
      /\ tx'[t].row = k /\ UNCHANGED <<batch, task, reminder>>
      /\ TypeOK' /\ RowsOK' /\ Guarantee(t)
      /\ RequestFits(t)' /\ HoldsLocks(t)'
  <2>1. tx[t].op = "complete"
    BY <1>2 DEF Granted, At
  <2>2. Granted(t, tx[t].op, "find", {k})
    BY <1>2, <2>1
  <2>3. {k} \in SUBSET Tasks /\ {k} \subseteq {tx[t].row}
    BY <1>1
  <2>4. tx[t].op \in ClosingOps \cup {"edit"}
    BY <2>1 DEF ClosingOps
  <2>5. Moves(t, "find", {k})
    BY <2>2, <2>3, <2>4, GrantedKeeps
  <2> QED
    BY <2>1, <2>5 DEF Moves
<1>4. task[k] = [status |-> "ACTIVE", archived |-> "NO"]
  BY <1>1 DEF CompleteTask, MayTransition, TaskRow
<1> QED
  BY <1>3, <1>4 DEF Keeps, OwnTx, WritesUnfinished, CoversReminders, RemindsUnfinished,
     ArchivesFinished,
     CancelsTheRest, Past, At, ClosingOps

LEMMA CancelTaskKeeps ==
    ASSUME IInv, NEW t \in Txns, CancelTask(t)
    PROVE  Keeps(t)
<1> DEFINE k == tx[t].row
<1>1. k \in Tasks /\ task[k] \in TaskRow
  BY LockedTask DEF CancelTask, Granted, TaskOps
<1>2. Granted(t, "cancel", "find", {k})
  BY DEF CancelTask
<1>3. /\ tx'[t].op = "cancel" /\ tx'[t].pc = "find" /\ tx'[t].todo = {k}
      /\ tx'[t].row = k /\ UNCHANGED <<batch, task, reminder>>
      /\ TypeOK' /\ RowsOK' /\ Guarantee(t)
      /\ RequestFits(t)' /\ HoldsLocks(t)'
  <2>1. tx[t].op = "cancel"
    BY <1>2 DEF Granted, At
  <2>2. Granted(t, tx[t].op, "find", {k})
    BY <1>2, <2>1
  <2>3. {k} \in SUBSET Tasks /\ {k} \subseteq {tx[t].row}
    BY <1>1
  <2>4. tx[t].op \in ClosingOps \cup {"edit"}
    BY <2>1 DEF ClosingOps
  <2>5. Moves(t, "find", {k})
    BY <2>2, <2>3, <2>4, GrantedKeeps
  <2> QED
    BY <2>1, <2>5 DEF Moves
<1>4. task[k] = [status |-> "ACTIVE", archived |-> "NO"]
  BY <1>1 DEF CancelTask, FinalStatuses, TaskRow
<1> QED
  BY <1>3, <1>4 DEF Keeps, OwnTx, WritesUnfinished, CoversReminders, RemindsUnfinished,
     ArchivesFinished,
     CancelsTheRest, Past, At, ClosingOps

LEMMA ArchiveTaskKeeps ==
    ASSUME IInv, NEW t \in Txns, ArchiveTask(t)
    PROVE  Keeps(t)
<1> DEFINE k == tx[t].row
<1>1. k \in Tasks /\ task[k] \in TaskRow
  BY LockedTask DEF ArchiveTask, Granted, TaskOps
<1>2. Granted(t, "archive", "commit", {k})
  BY DEF ArchiveTask
<1>3. /\ tx'[t].op = "archive" /\ tx'[t].pc = "commit" /\ tx'[t].todo = {k}
      /\ tx'[t].row = k /\ UNCHANGED <<batch, task, reminder>>
      /\ TypeOK' /\ RowsOK' /\ Guarantee(t)
      /\ RequestFits(t)' /\ HoldsLocks(t)'
  <2>1. tx[t].op = "archive"
    BY <1>2 DEF Granted, At
  <2>2. Granted(t, tx[t].op, "commit", {k})
    BY <1>2, <2>1
  <2>3. {k} \in SUBSET Tasks /\ {k} \subseteq {tx[t].row}
    BY <1>1
  <2>4. Moves(t, "commit", {k})
    BY <2>2, <2>3, GrantedKeeps
  <2> QED
    BY <2>1, <2>4 DEF Moves
<1>4. task[k].status \in FinalStatuses
  BY DEF ArchiveTask
<1> QED
  BY <1>3, <1>4 DEF Keeps, OwnTx, WritesUnfinished, CoversReminders, RemindsUnfinished,
     ArchivesFinished,
     CancelsTheRest, Past, At, ClosingOps

LEMMA RestoreTaskKeeps ==
    ASSUME IInv, NEW t \in Txns, RestoreTask(t)
    PROVE  Keeps(t)
<1> DEFINE k == tx[t].row
<1>1. k \in Tasks /\ task[k] \in TaskRow
  BY LockedTask DEF RestoreTask, Granted, TaskOps
<1>2. Granted(t, "restore", "commit", {k})
  BY DEF RestoreTask
<1>3. /\ tx'[t].op = "restore" /\ tx'[t].pc = "commit" /\ tx'[t].todo = {k}
      /\ tx'[t].row = k /\ UNCHANGED <<batch, task, reminder>>
      /\ TypeOK' /\ RowsOK' /\ Guarantee(t)
      /\ RequestFits(t)' /\ HoldsLocks(t)'
  <2>1. tx[t].op = "restore"
    BY <1>2 DEF Granted, At
  <2>2. Granted(t, tx[t].op, "commit", {k})
    BY <1>2, <2>1
  <2>3. {k} \in SUBSET Tasks /\ {k} \subseteq {tx[t].row}
    BY <1>1
  <2>4. Moves(t, "commit", {k})
    BY <2>2, <2>3, GrantedKeeps
  <2> QED
    BY <2>1, <2>4 DEF Moves
<1> QED
  BY <1>3 DEF Keeps, OwnTx, WritesUnfinished, CoversReminders, RemindsUnfinished,
     ArchivesFinished,
     CancelsTheRest, Past, At, ClosingOps

LEMMA CreateReminderKeeps ==
    ASSUME IInv, NEW t \in Txns, CreateReminder(t)
    PROVE  Keeps(t)
<1> DEFINE k == tx[t].row
<1>1. k \in Tasks /\ task[k] \in TaskRow
  BY LockedTask DEF CreateReminder, Granted, TaskOps
<1>2. Granted(t, "remind", "commit", {})
  BY DEF CreateReminder
<1>3. /\ tx'[t].op = "remind" /\ tx'[t].pc = "commit" /\ tx'[t].todo = {}
      /\ tx'[t].row = k /\ UNCHANGED <<batch, task, reminder>>
      /\ TypeOK' /\ RowsOK' /\ Guarantee(t)
      /\ RequestFits(t)' /\ HoldsLocks(t)'
  <2>1. tx[t].op = "remind"
    BY <1>2 DEF Granted, At
  <2>2. Granted(t, tx[t].op, "commit", {})
    BY <1>2, <2>1
  <2>3. {} \in SUBSET Tasks /\ {} \subseteq {tx[t].row}
    OBVIOUS
  <2>4. Moves(t, "commit", {})
    BY <2>2, <2>3, GrantedKeeps
  <2> QED
    BY <2>1, <2>4 DEF Moves
<1>4. task[k].status = "ACTIVE"
  BY DEF CreateReminder, ReminderAllowed
<1> QED
  BY <1>3, <1>4 DEF Keeps, OwnTx, WritesUnfinished, CoversReminders, RemindsUnfinished,
     ArchivesFinished,
     CancelsTheRest, Past, At, ClosingOps

LEMMA UpdateReminderKeeps ==
    ASSUME IInv, NEW t \in Txns, UpdateReminder(t)
    PROVE  Keeps(t)
<1>1. Granted(t, "reschedule", "commit", {})
  BY DEF UpdateReminder
<1>2. /\ tx'[t].op = "reschedule" /\ tx'[t].pc = "commit" /\ tx'[t].todo = {}
      /\ tx'[t].row = tx[t].row /\ UNCHANGED <<batch, task, reminder>>
      /\ TypeOK' /\ RowsOK' /\ Guarantee(t)
      /\ RequestFits(t)' /\ HoldsLocks(t)'
  <2>1. tx[t].op = "reschedule"
    BY <1>1 DEF Granted, At
  <2>2. Granted(t, tx[t].op, "commit", {})
    BY <1>1, <2>1
  <2>3. {} \in SUBSET Tasks /\ {} \subseteq {tx[t].row}
    OBVIOUS
  <2>4. Moves(t, "commit", {})
    BY <2>2, <2>3, GrantedKeeps
  <2> QED
    BY <2>1, <2>4 DEF Moves
<1> QED
  BY <1>2 DEF Keeps, OwnTx, WritesUnfinished, CoversReminders, RemindsUnfinished,
     ArchivesFinished,
     CancelsTheRest, Past, At, ClosingOps

LEMMA CancelReminderKeeps ==
    ASSUME IInv, NEW t \in Txns, CancelReminder(t)
    PROVE  Keeps(t)
<1>1. Granted(t, "cancelReminder", "commit", {})
  BY DEF CancelReminder
<1>2. /\ tx'[t].op = "cancelReminder" /\ tx'[t].pc = "commit" /\ tx'[t].todo = {}
      /\ tx'[t].row = tx[t].row /\ UNCHANGED <<batch, task, reminder>>
      /\ TypeOK' /\ RowsOK' /\ Guarantee(t)
      /\ RequestFits(t)' /\ HoldsLocks(t)'
  <2>1. tx[t].op = "cancelReminder"
    BY <1>1 DEF Granted, At
  <2>2. Granted(t, tx[t].op, "commit", {})
    BY <1>1, <2>1
  <2>3. {} \in SUBSET Tasks /\ {} \subseteq {tx[t].row}
    OBVIOUS
  <2>4. Moves(t, "commit", {})
    BY <2>2, <2>3, GrantedKeeps
  <2> QED
    BY <2>1, <2>4 DEF Moves
<1> QED
  BY <1>2 DEF Keeps, OwnTx, WritesUnfinished, CoversReminders, RemindsUnfinished,
     ArchivesFinished,
     CancelsTheRest, Past, At, ClosingOps

LEMMA CancelBatchKeeps ==
    ASSUME IInv, NEW t \in Txns, CancelBatch(t)
    PROVE  Keeps(t)
<1>1. Granted(t, "cancelBatch", "tasks", {})
  BY DEF CancelBatch
<1>2. /\ tx'[t].op = "cancelBatch" /\ tx'[t].pc = "tasks" /\ tx'[t].todo = {}
      /\ tx'[t].row = tx[t].row /\ UNCHANGED <<batch, task, reminder>>
      /\ TypeOK' /\ RowsOK' /\ Guarantee(t)
      /\ RequestFits(t)' /\ HoldsLocks(t)'
  <2>1. tx[t].op = "cancelBatch"
    BY <1>1 DEF Granted, At
  <2>2. Granted(t, tx[t].op, "tasks", {})
    BY <1>1, <2>1
  <2>3. {} \in SUBSET Tasks /\ {} \subseteq {tx[t].row}
    OBVIOUS
  <2>4. Moves(t, "tasks", {})
    BY <2>2, <2>3, GrantedKeeps
  <2> QED
    BY <2>1, <2>4 DEF Moves
<1> QED
  BY <1>2 DEF Keeps, OwnTx, WritesUnfinished, CoversReminders, RemindsUnfinished,
     ArchivesFinished,
     CancelsTheRest, Past, At, ClosingOps

LEMMA ArchiveBatchKeeps ==
    ASSUME IInv, NEW t \in Txns, ArchiveBatch(t)
    PROVE  Keeps(t)
<1>1. Granted(t, "archiveBatch", "tasks", {})
  BY DEF ArchiveBatch
<1>2. /\ tx'[t].op = "archiveBatch" /\ tx'[t].pc = "tasks" /\ tx'[t].todo = {}
      /\ tx'[t].row = tx[t].row /\ UNCHANGED <<batch, task, reminder>>
      /\ TypeOK' /\ RowsOK' /\ Guarantee(t)
      /\ RequestFits(t)' /\ HoldsLocks(t)'
  <2>1. tx[t].op = "archiveBatch"
    BY <1>1 DEF Granted, At
  <2>2. Granted(t, tx[t].op, "tasks", {})
    BY <1>1, <2>1
  <2>3. {} \in SUBSET Tasks /\ {} \subseteq {tx[t].row}
    OBVIOUS
  <2>4. Moves(t, "tasks", {})
    BY <2>2, <2>3, GrantedKeeps
  <2> QED
    BY <2>1, <2>4 DEF Moves
<1> QED
  BY <1>2 DEF Keeps, OwnTx, WritesUnfinished, CoversReminders, RemindsUnfinished,
     ArchivesFinished,
     CancelsTheRest, Past, At, ClosingOps

LEMMA RestoreBatchKeeps ==
    ASSUME IInv, NEW t \in Txns, RestoreBatch(t)
    PROVE  Keeps(t)
<1>1. Granted(t, "restoreBatch", "tasks", {})
  BY DEF RestoreBatch
<1>2. /\ tx'[t].op = "restoreBatch" /\ tx'[t].pc = "tasks" /\ tx'[t].todo = {}
      /\ tx'[t].row = tx[t].row /\ UNCHANGED <<batch, task, reminder>>
      /\ TypeOK' /\ RowsOK' /\ Guarantee(t)
      /\ RequestFits(t)' /\ HoldsLocks(t)'
  <2>1. tx[t].op = "restoreBatch"
    BY <1>1 DEF Granted, At
  <2>2. Granted(t, tx[t].op, "tasks", {})
    BY <1>1, <2>1
  <2>3. {} \in SUBSET Tasks /\ {} \subseteq {tx[t].row}
    OBVIOUS
  <2>4. Moves(t, "tasks", {})
    BY <2>2, <2>3, GrantedKeeps
  <2> QED
    BY <2>1, <2>4 DEF Moves
<1> QED
  BY <1>2 DEF Keeps, OwnTx, WritesUnfinished, CoversReminders, RemindsUnfinished,
     ArchivesFinished,
     CancelsTheRest, Past, At, ClosingOps

LEMMA EditBatchKeeps ==
    ASSUME IInv, NEW t \in Txns, EditBatch(t)
    PROVE  Keeps(t)
<1>1. PICK pc \in {"commit", "find"} : Granted(t, "edit", pc, {})
  BY DEF EditBatch
<1>2. /\ tx'[t].op = "edit" /\ tx'[t].pc = pc /\ tx'[t].todo = {}
      /\ tx'[t].row = tx[t].row /\ UNCHANGED <<batch, task, reminder>>
      /\ TypeOK' /\ RowsOK' /\ Guarantee(t)
      /\ RequestFits(t)' /\ HoldsLocks(t)'
  <2>1. tx[t].op = "edit"
    BY <1>1 DEF Granted, At
  <2>2. Granted(t, tx[t].op, pc, {})
    BY <1>1, <2>1
  <2>3. {} \in SUBSET Tasks /\ {} \subseteq {tx[t].row}
    OBVIOUS
  <2>4. pc \in {"tasks", "find", "commit"} /\ tx[t].op \in ClosingOps \cup {"edit"}
    BY <1>1, <2>1
  <2>5. Moves(t, pc, {})
    BY <2>2, <2>3, <2>4, GrantedKeeps
  <2> QED
    BY <2>1, <2>5 DEF Moves
<1> QED
  BY <1>2 DEF Keeps, OwnTx, WritesUnfinished, CoversReminders, RemindsUnfinished,
     ArchivesFinished,
     CancelsTheRest, Past, At, ClosingOps

-----------------------------------------------------------------------------
(* The tasks of a batch, its reminders, rollback.                          *)

LEMMA LockTasksKeeps ==
    ASSUME IInv, NEW t \in Txns, NEW op, NEW pc \in {"find", "commit"},
           NEW rows \in SUBSET Tasks, NEW todo \in SUBSET rows, LockTasks(t, op, rows,
           pc, todo),
           pc = "find" => tx[t].op \in ClosingOps \cup {"edit"}
    PROVE  /\ tx'[t].op = tx[t].op /\ tx'[t].pc = pc /\ tx'[t].todo = todo
           /\ tx'[t].row = tx[t].row
           /\ UNCHANGED <<batch, task, reminder>>
           /\ TypeOK' /\ RowsOK' /\ Guarantee(t)
           /\ RequestFits(t)' /\ HoldsLocks(t)'
<1>1. /\ TypeOK /\ RowsOK /\ RequestFits(t) /\ HoldsLocks(t)
      /\ At(t, "tasks", op) /\ Acquire(t, rows)
      /\ tx' = [tx EXCEPT ![t].pc = pc, ![t].todo = todo]
      /\ UNCHANGED <<batch, task, reminder>>
  BY DEF IInv, OwnTx, LockTasks
<1>2. tx[t] \in TxState /\ tx[t].pc = "tasks"
  BY <1>1 DEF TypeOK, At
<1>3. rows \in SUBSET Rows /\ tx[t].row \in Rows /\ owner[tx[t].row] = t
  BY <1>1, <1>2 DEF RequestFits, HoldsLocks, Rows
<1>4. /\ owner' \in [Rows -> Txns \cup {Nobody}]
      /\ \A x \in Rows : owner[x] \in Txns \ {t} => owner'[x] = owner[x]
      /\ owner'[tx[t].row] = t
      /\ \A x \in rows : owner'[x] = t
  BY <1>1, <1>3, AcquireKeeps
<1>5. /\ tx'[t] = [tx[t] EXCEPT !.pc = pc, !.todo = todo]
      /\ \A u \in Txns \ {t} : tx'[u] = tx[u]
  BY <1>1 DEF TypeOK
<1>6. [tx[t] EXCEPT !.pc = pc, !.todo = todo] \in TxState
  BY <1>2 DEF TxState
<1>7. tx' \in [Txns -> TxState]
  BY <1>1, <1>5, <1>6 DEF TypeOK
<1>8. TypeOK'
  BY <1>1, <1>4, <1>7 DEF TypeOK
<1>9. tx'[t].op = tx[t].op /\ tx'[t].row = tx[t].row /\ tx'[t].rems = tx[t].rems /\ tx'[t].todo = todo
  BY <1>2, <1>5 DEF TxState
<1>10. RequestFits(t)'
  BY <1>1, <1>2, <1>5, <1>6, <1>9 DEF RequestFits, TxState
<1>11. HoldsLocks(t)'
  BY <1>4, <1>9 DEF HoldsLocks
<1>12. Guarantee(t)
  BY <1>1, <1>4, <1>5 DEF Guarantee, Active
<1> QED
  BY <1>1, <1>2, <1>5, <1>6, <1>8, <1>9, <1>10, <1>11, <1>12, QuietRows DEF TxState

\* An active task of the batch is unarchived, so cancelling what is active
\* and unarchived leaves only finished tasks alone.
LEMMA CancelBatchTasksKeeps ==
    ASSUME IInv, NEW t \in Txns, CancelBatchTasks(t)
    PROVE  Keeps(t)
<1> DEFINE b == tx[t].row
           affected == {k \in TasksOf(b) : task[k].status = "ACTIVE" /\ task[k].archived = "NO"}
<1>1. LockTasks(t, "cancelBatch", TasksOf(b), "find", affected)
  BY DEF CancelBatchTasks
<1>2. /\ tx'[t].op = "cancelBatch" /\ tx'[t].pc = "find" /\ tx'[t].todo = affected
      /\ tx'[t].row = b /\ UNCHANGED <<batch, task, reminder>>
      /\ TypeOK' /\ RowsOK' /\ Guarantee(t)
      /\ RequestFits(t)' /\ HoldsLocks(t)'
  <2>1. tx[t].op = "cancelBatch"
    BY <1>1 DEF LockTasks, At
  <2>2. TasksOf(b) \in SUBSET Tasks /\ affected \in SUBSET TasksOf(b)
    BY DEF TasksOf
  <2> HIDE DEF affected
  <2> QED
    BY <1>1, <2>1, <2>2, LockTasksKeeps DEF ClosingOps
<1>3. \A k \in Tasks : task[k] \in TaskRow
  BY DEF IInv, TypeOK
<1>4. \A k \in affected : task[k] = [status |-> "ACTIVE", archived |-> "NO"]
  BY <1>3 DEF TaskRow, TasksOf
<1>5. \A k \in TasksOf(b) \ affected : task[k].status \in FinalStatuses
  BY <1>3 DEF TaskRow, TasksOf, IInv, RowsOK, ArchivedIsFinished, FinalStatuses
<1> HIDE DEF affected
<1> QED
  BY <1>2, <1>4, <1>5 DEF Keeps, OwnTx, WritesUnfinished, CoversReminders,
     RemindsUnfinished, ArchivesFinished,
     CancelsTheRest, Past, At, ClosingOps

LEMMA ArchiveBatchTasksKeeps ==
    ASSUME IInv, NEW t \in Txns, ArchiveBatchTasks(t)
    PROVE  Keeps(t)
<1> DEFINE b == tx[t].row
           unarchived == {k \in TasksOf(b) : task[k].archived = "NO"}
<1>1. /\ LockTasks(t, "archiveBatch", TasksOf(b), "commit", unarchived)
      /\ \A k \in TasksOf(b) : task[k].status \in FinalStatuses
  BY DEF ArchiveBatchTasks
<1>2. TasksOf(b) \in SUBSET Tasks /\ unarchived \in SUBSET TasksOf(b)
  BY DEF TasksOf
<1>3. /\ tx'[t].op = "archiveBatch" /\ tx'[t].pc = "commit" /\ tx'[t].todo = unarchived
      /\ tx'[t].row = b /\ UNCHANGED <<batch, task, reminder>>
      /\ TypeOK' /\ RowsOK' /\ Guarantee(t)
      /\ RequestFits(t)' /\ HoldsLocks(t)'
  <2>1. tx[t].op = "archiveBatch"
    BY <1>1 DEF LockTasks, At
  <2> HIDE DEF unarchived
  <2> QED
    BY <1>1, <1>2, <2>1, LockTasksKeeps DEF ClosingOps
<1> HIDE DEF unarchived
<1>4. ArchivesFinished(t)'
  BY <1>1, <1>2, <1>3 DEF ArchivesFinished, At, TasksOf
<1> QED
  BY <1>3, <1>4 DEF Keeps, OwnTx, WritesUnfinished, CoversReminders, RemindsUnfinished,
     CancelsTheRest, Past, At, ClosingOps

LEMMA RestoreBatchTasksKeeps ==
    ASSUME IInv, NEW t \in Txns, RestoreBatchTasks(t)
    PROVE  Keeps(t)
<1> DEFINE together == {k \in TasksOf(tx[t].row) : task[k].archived = "WITH_BATCH"}
<1>1. LockTasks(t, "restoreBatch", together, "commit", together)
  BY DEF RestoreBatchTasks
<1>2. together \in SUBSET Tasks
  BY DEF TasksOf
<1>3. /\ tx'[t].op = "restoreBatch" /\ tx'[t].pc = "commit" /\ tx'[t].todo = together
      /\ UNCHANGED <<batch, task, reminder>>
      /\ TypeOK' /\ RowsOK' /\ Guarantee(t)
      /\ RequestFits(t)' /\ HoldsLocks(t)'
  <2>1. tx[t].op = "restoreBatch"
    BY <1>1 DEF LockTasks, At
  <2> HIDE DEF together
  <2> QED
    BY <1>1, <1>2, <2>1, LockTasksKeeps, SMTT(40) DEF ClosingOps
<1> HIDE DEF together
<1> QED
  BY <1>3 DEF Keeps, OwnTx, WritesUnfinished, CoversReminders, RemindsUnfinished,
     ArchivesFinished,
     CancelsTheRest, Past, At, ClosingOps

\* The search for reminders finds every one that is scheduled.
LEMMA FindRemindersKeeps ==
    ASSUME IInv, NEW t \in Txns, FindReminders(t)
    PROVE  Keeps(t)
<1> DEFINE found == {r \in Reminders : Matches(t, r)}
<1>1. /\ TypeOK /\ RowsOK /\ OwnTx(t) /\ tx[t].pc = "find"
      /\ tx' = [tx EXCEPT ![t].pc = "claim", ![t].rems = found]
      /\ UNCHANGED <<batch, task, reminder, owner>>
  BY DEF IInv, FindReminders
<1>2. \A r \in Reminders : tx[t].op \in ClosingOps /\ Active(r) /\ TaskOf[r] \in tx[t].todo => r \in found
  BY DEF Matches, ClosingOps
<1>3. tx[t] \in TxState /\ found \in SUBSET Reminders
  BY <1>1 DEF TypeOK
<1> HIDE DEF found
<1>4. /\ tx'[t] = [tx[t] EXCEPT !.pc = "claim", !.rems = found]
      /\ \A u \in Txns \ {t} : tx'[u] = tx[u]
  BY <1>1 DEF TypeOK
<1>5. /\ tx'[t] \in TxState /\ tx'[t].pc = "claim" /\ tx'[t].rems = found
      /\ tx'[t].op = tx[t].op /\ tx'[t].row = tx[t].row /\ tx'[t].todo = tx[t].todo
  BY <1>3, <1>4 DEF TxState
<1>6. tx' \in [Txns -> TxState]
  BY <1>1, <1>4, <1>5 DEF TypeOK
<1>7. TypeOK' /\ RowsOK' /\ Guarantee(t)
  BY <1>1, <1>4, <1>6, QuietRows DEF TypeOK, Guarantee, Active
<1>8. RequestFits(t)'
  <2>1. tx[t].op \in ClosingOps \cup {"edit"} /\ tx[t].op # "remind"
    BY <1>1 DEF OwnTx, RequestFits, ClosingOps
  <2> QED
    BY <1>1, <1>5, <2>1 DEF OwnTx, RequestFits
<1>9. CoversReminders(t)'
  BY <1>1, <1>2, <1>5 DEF CoversReminders, Active
<1> QED
  BY <1>1, <1>5, <1>7, <1>8, <1>9 DEF Keeps, OwnTx, HoldsLocks, WritesUnfinished,
     RemindsUnfinished,
     ArchivesFinished, CancelsTheRest, Past, At

\* The second test under lock drops only reminders that are no longer
\* scheduled.
LEMMA ClaimRemindersKeeps ==
    ASSUME IInv, NEW t \in Txns, ClaimReminders(t)
    PROVE  Keeps(t)
<1> DEFINE kept == {r \in tx[t].rems : Matches(t, r)}
<1>1. /\ TypeOK /\ RowsOK /\ OwnTx(t) /\ tx[t].pc = "claim"
      /\ Acquire(t, tx[t].rems)
      /\ tx' = [tx EXCEPT ![t].pc = "commit", ![t].rems = kept]
      /\ UNCHANGED <<batch, task, reminder>>
  BY DEF IInv, ClaimReminders
<1>2. \A r \in tx[t].rems : tx[t].op \in ClosingOps /\ Active(r) /\ TaskOf[r] \in tx[t].todo => r \in kept
  BY DEF Matches, ClosingOps
<1>3. tx[t] \in TxState /\ kept \in SUBSET Reminders /\ tx[t].rems \in SUBSET Rows
  BY <1>1 DEF TypeOK, TxState, Rows
<1> HIDE DEF kept
<1>4. /\ tx'[t] = [tx[t] EXCEPT !.pc = "commit", !.rems = kept]
      /\ \A u \in Txns \ {t} : tx'[u] = tx[u]
  BY <1>1 DEF TypeOK
<1>5. /\ tx'[t] \in TxState /\ tx'[t].pc = "commit" /\ tx'[t].rems = kept
      /\ tx'[t].op = tx[t].op /\ tx'[t].row = tx[t].row /\ tx'[t].todo = tx[t].todo
  BY <1>3, <1>4 DEF TxState
<1>6. tx' \in [Txns -> TxState]
  BY <1>1, <1>4, <1>5 DEF TypeOK
<1>7. /\ owner' \in [Rows -> Txns \cup {Nobody}]
      /\ \A x \in Rows : owner[x] \in Txns \ {t} => owner'[x] = owner[x]
      /\ \A x \in Rows : owner[x] = t => owner'[x] = t
  BY <1>1, <1>3, AcquireKeeps
<1>8. TypeOK' /\ RowsOK' /\ Guarantee(t)
  BY <1>1, <1>4, <1>6, <1>7, QuietRows DEF TypeOK, Guarantee, Active
<1>9. /\ tx[t].op \in TaskOps \cup BatchOps \cup ReminderOps
      /\ tx[t].op \in ClosingOps \cup {"edit"}
  BY <1>1 DEF OwnTx, RequestFits
<1>10. RequestFits(t)'
  <2>1. tx[t].op # "remind"
    BY <1>9 DEF ClosingOps
  <2> QED
    BY <1>1, <1>5, <1>9, <2>1 DEF OwnTx, RequestFits
<1>11. HoldsLocks(t)'
  <2>1. tx[t].row \in Rows /\ tx[t].todo \subseteq Rows
    BY <1>1, <1>3, <1>9 DEF OwnTx, RequestFits, Rows, TxState
  <2> QED
    BY <1>1, <1>5, <1>7, <2>1 DEF OwnTx, HoldsLocks
<1>12. CoversReminders(t)'
  BY <1>1, <1>2, <1>5 DEF OwnTx, CoversReminders, Active
<1>13. tx[t].op \notin {"archive", "archiveBatch", "remind"}
  BY <1>9 DEF ClosingOps
<1> QED
  BY <1>1, <1>5, <1>8, <1>9, <1>10, <1>11, <1>12, <1>13
     DEF Keeps, OwnTx, WritesUnfinished, RemindsUnfinished, ArchivesFinished,
     CancelsTheRest, Past, At

-----------------------------------------------------------------------------
(* COMMIT and ROLLBACK.                                                    *)

\* The transaction is over: it knows and holds nothing any more.
LEMMA EndKeeps ==
    ASSUME TypeOK, NEW t \in Txns, Release(t), tx' = [tx EXCEPT ![t] = Idle]
    PROVE  /\ owner' \in [Rows -> Txns \cup {Nobody}]
           /\ tx' \in [Txns -> TxState]
           /\ OwnTx(t)'
           /\ \A u \in Txns \ {t} : tx'[u] = tx[u]
           /\ \A x \in Rows : owner[x] \in Txns \ {t} => owner'[x] = owner[x]
<1>1. tx'[t] = Idle /\ tx' \in [Txns -> TxState]
  BY IdleType DEF TypeOK
<1>2. /\ tx'[t].pc = "idle" /\ tx'[t].op = "none"
      /\ "none" \notin TaskOps /\ "none" \notin BatchOps /\ "none" \notin ReminderOps
  BY <1>1 DEF Idle, TaskOps, BatchOps, ReminderOps
<1>3. OwnTx(t)'
  BY <1>2 DEF OwnTx, RequestFits, HoldsLocks, WritesUnfinished, CoversReminders,
              RemindsUnfinished, ArchivesFinished, CancelsTheRest, Past, At
<1> QED
  BY <1>1, <1>3 DEF TypeOK, Release

LEMMA AbortKeeps ==
    ASSUME IInv, NEW t \in Txns, Abort(t)
    PROVE  Keeps(t)
<1>1. TypeOK /\ RowsOK
  BY DEF IInv
<1>2. Release(t) /\ tx' = [tx EXCEPT ![t] = Idle] /\ UNCHANGED <<batch, task, reminder>>
  BY DEF Abort
<1> QED
  BY <1>1, <1>2, EndKeeps, QuietRows DEF Keeps, TypeOK, Guarantee, Active

\* The status written to the tasks: each of them was unfinished until now.
LEMMA StatusWritten ==
    ASSUME TypeOK, NEW t \in Txns, OwnTx(t), tx[t].pc = "commit",
           tx[t].op \in ClosingOps \cup {"progress"},
           NEW status \in {"ACTIVE"} \cup FinalStatuses, SetStatus(t, status)
    PROVE  /\ task' \in [Tasks -> TaskRow]
           /\ \A k \in Tasks \ tx[t].todo : task'[k] = task[k]
           /\ \A k \in tx[t].todo : /\ owner[k] = t
                                    /\ task[k].status = "ACTIVE"
                                    /\ task'[k].status = status
                                    /\ task'[k].archived = "NO"
<1>1. tx[t].todo \in SUBSET Tasks
  BY DEF TypeOK, TxState
<1>2. \A k \in tx[t].todo : /\ owner[k] = t
                            /\ task[k] = [status |-> "ACTIVE", archived |-> "NO"]
  BY DEF OwnTx, HoldsLocks, WritesUnfinished, Past
<1>3. \A k \in Tasks : task[k] \in TaskRow
  BY DEF TypeOK
<1>4. \A k \in Tasks : task'[k] = IF k \in tx[t].todo THEN [task[k] EXCEPT !.status = status] ELSE task[k]
  BY DEF SetStatus
<1>5. \A k \in tx[t].todo : task'[k] = [status |-> status, archived |-> "NO"]
  BY <1>1, <1>2, <1>4
<1>6. ASSUME NEW k \in Tasks
      PROVE  task'[k] \in TaskRow
  <2>1. CASE k \in tx[t].todo
    BY <1>5, <2>1 DEF TaskRow
  <2>2. CASE k \notin tx[t].todo
    BY <1>3, <1>4, <2>2
  <2> QED
    BY <2>1, <2>2
<1>7. task' = [k \in Tasks |-> task'[k]]
  BY DEF SetStatus
<1> QED
  BY <1>1, <1>2, <1>4, <1>5, <1>6, <1>7

\* Archiving and restoring write archived_at alone.
LEMMA ArchivedWritten ==
    ASSUME TypeOK, NEW t \in Txns, OwnTx(t), tx[t].pc = "commit",
           NEW archived \in {"NO", "ALONE", "WITH_BATCH"}, SetArchived(t, archived)
    PROVE  /\ task' \in [Tasks -> TaskRow]
           /\ \A k \in Tasks : task'[k].status = task[k].status
           /\ \A k \in Tasks \ tx[t].todo : task'[k] = task[k]
           /\ \A k \in tx[t].todo : owner[k] = t /\ task'[k].archived = archived
<1>1. tx[t].todo \in SUBSET Tasks
  BY DEF TypeOK, TxState
<1>2. \A k \in tx[t].todo : owner[k] = t
  BY DEF OwnTx, HoldsLocks
<1>3. \A k \in Tasks : task[k] \in TaskRow
  BY DEF TypeOK
<1>4. \A k \in Tasks : task'[k] = IF k \in tx[t].todo THEN [task[k] EXCEPT !.archived = archived] ELSE task[k]
  BY DEF SetArchived
<1>5. ASSUME NEW k \in Tasks
      PROVE  /\ task'[k] \in TaskRow /\ task'[k].status = task[k].status
             /\ k \in tx[t].todo => task'[k].archived = archived
  <2>1. CASE k \in tx[t].todo
    <3>1. task[k] \in TaskRow /\ task'[k] = [task[k] EXCEPT !.archived = archived]
      BY <1>3, <1>4, <2>1
    <3>2. [task[k] EXCEPT !.archived = archived] = [status |-> task[k].status, archived |-> archived]
      BY <3>1 DEF TaskRow
    <3>3. task[k].status \in {"ACTIVE"} \cup FinalStatuses
      BY <3>1 DEF TaskRow
    <3> QED
      BY <3>1, <3>2, <3>3 DEF TaskRow
  <2>2. CASE k \notin tx[t].todo
    BY <1>3, <1>4, <2>2
  <2> QED
    BY <2>1, <2>2
<1>6. \A k \in tx[t].todo : task'[k].archived = archived
  BY <1>1, <1>5
<1>7. task' = [k \in Tasks |-> task'[k]]
  BY DEF SetArchived
<1> QED
  BY <1>2, <1>4, <1>5, <1>6, <1>7

\* Cancelling reminders schedules none.
LEMMA RemindersCancelled ==
    ASSUME TypeOK, NEW t \in Txns, CancelReminders(t)
    PROVE  /\ reminder' \in [Reminders -> ReminderRow]
           /\ \A r \in Reminders : Active(r)' => Active(r) /\ r \notin tx[t].rems
<1>1. \A r \in Reminders : reminder[r] \in ReminderRow
  BY DEF TypeOK
<1>2. \A r \in Reminders : reminder'[r] = IF r \in tx[t].rems
                                          THEN [reminder[r] EXCEPT !.state = "CANCELLED"]
                                          ELSE reminder[r]
  BY DEF CancelReminders
<1>3. \A r \in Reminders : reminder'[r] \in ReminderRow
  BY <1>1, <1>2 DEF ReminderRow
<1>4. \A r \in tx[t].rems \cap Reminders : reminder'[r].state = "CANCELLED"
  BY <1>1, <1>2 DEF ReminderRow
<1>5. reminder' = [r \in Reminders |-> reminder'[r]]
  BY DEF CancelReminders
<1> QED
  BY <1>2, <1>3, <1>4, <1>5 DEF Active

-----------------------------------------------------------------------------
(* The commits.                                                            *)

\* Where a commit starts from.
LEMMA CommitBegins ==
    ASSUME IInv, NEW t \in Txns, NEW op, Commit(t, op)
    PROVE  /\ TypeOK /\ RowsOK /\ OwnTx(t) /\ tx[t].pc = "commit"
           /\ owner' \in [Rows -> Txns \cup {Nobody}]
           /\ tx' \in [Txns -> TxState]
           /\ OwnTx(t)'
           /\ \A u \in Txns \ {t} : tx'[u] = tx[u]
           /\ \A x \in Rows : owner[x] \in Txns \ {t} => owner'[x] = owner[x]
BY EndKeeps DEF IInv, Commit, At

\* A commit writes one column of its batch row.
LEMMA BatchCancelled ==
    ASSUME TypeOK, NEW b \in Batches, batch' = [batch EXCEPT ![b].cancelled = TRUE]
    PROVE  /\ batch' \in [Batches -> BatchRow]
           /\ \A c \in Batches : /\ batch'[c].archived = batch[c].archived
                                 /\ c # b => batch'[c] = batch[c]
<1>1. batch[b] \in BatchRow /\ batch' = [batch EXCEPT ![b] = [batch[b] EXCEPT !.cancelled = TRUE]]
  BY DEF TypeOK
<1>2. /\ [batch[b] EXCEPT !.cancelled = TRUE] \in BatchRow
      /\ [batch[b] EXCEPT !.cancelled = TRUE].archived = batch[b].archived
  BY <1>1 DEF BatchRow
<1> QED
  BY <1>1, <1>2 DEF TypeOK

LEMMA BatchArchived ==
    ASSUME TypeOK, NEW b \in Batches, NEW archived \in BOOLEAN,
           batch' = [batch EXCEPT ![b].archived = archived]
    PROVE  /\ batch' \in [Batches -> BatchRow]
           /\ \A c \in Batches : /\ batch'[c].cancelled = batch[c].cancelled
                                 /\ c # b => batch'[c] = batch[c]
           /\ batch'[b].archived = archived
<1>1. batch[b] \in BatchRow /\ batch' = [batch EXCEPT ![b] = [batch[b] EXCEPT !.archived = archived]]
  BY DEF TypeOK
<1>2. /\ [batch[b] EXCEPT !.archived = archived] \in BatchRow
      /\ [batch[b] EXCEPT !.archived = archived].cancelled = batch[b].cancelled
      /\ [batch[b] EXCEPT !.archived = archived].archived = archived
  BY <1>1 DEF BatchRow
<1> QED
  BY <1>1, <1>2 DEF TypeOK

LEMMA BatchMoved ==
    ASSUME TypeOK, NEW b \in Batches, NEW due \in 0..MaxTime,
           batch' = [batch EXCEPT ![b].due = due]
    PROVE  /\ batch' \in [Batches -> BatchRow]
           /\ \A c \in Batches : /\ batch'[c].cancelled = batch[c].cancelled
                                 /\ batch'[c].archived = batch[c].archived
<1>1. batch[b] \in BatchRow /\ batch' = [batch EXCEPT ![b] = [batch[b] EXCEPT !.due = due]]
  BY DEF TypeOK
<1>2. /\ [batch[b] EXCEPT !.due = due] \in BatchRow
      /\ [batch[b] EXCEPT !.due = due].cancelled = batch[b].cancelled
      /\ [batch[b] EXCEPT !.due = due].archived = batch[b].archived
  BY <1>1 DEF BatchRow
<1> QED
  BY <1>1, <1>2 DEF TypeOK

\* The tables the rows of one another refer to.
LEMMA References ==
    ASSUME TypeOK
    PROVE  /\ \A k \in Tasks : BatchOf[k] \in Batches
           /\ \A r \in Reminders : TaskOf[r] \in Tasks /\ BatchOf[TaskOf[r]] \in Batches
           /\ \A k \in Tasks : task[k].status \in {"ACTIVE"} \cup FinalStatuses
           /\ "ACTIVE" \notin FinalStatuses
           /\ "CANCELLED" \in FinalStatuses /\ "COMPLETED" \in FinalStatuses
BY DEF TypeOK, TaskRow, FinalStatuses

\* Progress writes ACTIVE over ACTIVE.
LEMMA CommitProgressKeeps ==
    ASSUME IInv, NEW t \in Txns, CommitProgress(t)
    PROVE  Keeps(t)
<1>1. /\ TypeOK /\ RowsOK /\ OwnTx(t) /\ tx[t].pc = "commit"
      /\ owner' \in [Rows -> Txns \cup {Nobody}] /\ tx' \in [Txns -> TxState] /\ OwnTx(t)'
      /\ \A u \in Txns \ {t} : tx'[u] = tx[u]
      /\ \A x \in Rows : owner[x] \in Txns \ {t} => owner'[x] = owner[x]
  BY CommitBegins DEF CommitProgress
<1>2. tx[t].op = "progress" /\ SetStatus(t, "ACTIVE") /\ UNCHANGED <<batch, reminder>>
  BY DEF CommitProgress, Commit, At
<1>3. /\ task' \in [Tasks -> TaskRow]
      /\ \A k \in Tasks \ tx[t].todo : task'[k] = task[k]
      /\ \A k \in tx[t].todo : /\ owner[k] = t
                               /\ task[k].status = "ACTIVE" /\ task'[k].status = "ACTIVE"
                               /\ task'[k].archived = "NO"
  BY <1>1, <1>2, StatusWritten
<1>4. TypeOK'
  BY <1>1, <1>2, <1>3 DEF TypeOK
<1>5. RowsOK'
  BY <1>1, <1>2, <1>3, References DEF RowsOK, ArchivedIsFinished,
     NoActiveTaskUnderCancelledBatch,
     ArchivedBatchIsFinished, NoReminderOnFinishedTask
<1>6. Guarantee(t)
  BY <1>1, <1>2, <1>3, References DEF Guarantee, Active
<1> QED
  BY <1>1, <1>4, <1>5, <1>6 DEF Keeps

LEMMA CommitCompleteKeeps ==
    ASSUME IInv, NEW t \in Txns, CommitComplete(t)
    PROVE  Keeps(t)
<1>1. /\ TypeOK /\ RowsOK /\ OwnTx(t) /\ tx[t].pc = "commit"
      /\ owner' \in [Rows -> Txns \cup {Nobody}] /\ tx' \in [Txns -> TxState] /\ OwnTx(t)'
      /\ \A u \in Txns \ {t} : tx'[u] = tx[u]
      /\ \A x \in Rows : owner[x] \in Txns \ {t} => owner'[x] = owner[x]
  BY CommitBegins DEF CommitComplete
<1>2. /\ tx[t].op = "complete" /\ tx[t].op \in ClosingOps
      /\ SetStatus(t, "COMPLETED") /\ CancelReminders(t) /\ UNCHANGED batch
  BY DEF CommitComplete, Commit, At, ClosingOps
<1>3. /\ task' \in [Tasks -> TaskRow]
      /\ \A k \in Tasks \ tx[t].todo : task'[k] = task[k]
      /\ \A k \in tx[t].todo : /\ owner[k] = t
                               /\ task[k].status = "ACTIVE" /\ task'[k].status = "COMPLETED"
                               /\ task'[k].archived = "NO"
  BY <1>1, <1>2, StatusWritten, References
<1>4. /\ reminder' \in [Reminders -> ReminderRow]
      /\ \A r \in Reminders : Active(r)' => Active(r) /\ r \notin tx[t].rems
  BY <1>1, <1>2, RemindersCancelled
<1>5. \A r \in Reminders : Active(r)' => Active(r) /\ TaskOf[r] \notin tx[t].todo
  BY <1>1, <1>2, <1>4 DEF OwnTx, CoversReminders
<1>6. TypeOK'
  BY <1>1, <1>2, <1>3, <1>4 DEF TypeOK
<1>7. RowsOK'
  BY <1>1, <1>2, <1>3, <1>5, References DEF Active, RowsOK, ArchivedIsFinished,
     NoActiveTaskUnderCancelledBatch,
     ArchivedBatchIsFinished, NoReminderOnFinishedTask
<1>8. Guarantee(t)
  BY <1>1, <1>3, <1>4, References DEF Guarantee
<1> QED
  BY <1>1, <1>6, <1>7, <1>8 DEF Keeps

LEMMA CommitCancelKeeps ==
    ASSUME IInv, NEW t \in Txns, CommitCancel(t)
    PROVE  Keeps(t)
<1>1. /\ TypeOK /\ RowsOK /\ OwnTx(t) /\ tx[t].pc = "commit"
      /\ owner' \in [Rows -> Txns \cup {Nobody}] /\ tx' \in [Txns -> TxState] /\ OwnTx(t)'
      /\ \A u \in Txns \ {t} : tx'[u] = tx[u]
      /\ \A x \in Rows : owner[x] \in Txns \ {t} => owner'[x] = owner[x]
  BY CommitBegins DEF CommitCancel
<1>2. /\ tx[t].op = "cancel" /\ tx[t].op \in ClosingOps
      /\ SetStatus(t, "CANCELLED") /\ CancelReminders(t) /\ UNCHANGED batch
  BY DEF CommitCancel, Commit, At, ClosingOps
<1>3. /\ task' \in [Tasks -> TaskRow]
      /\ \A k \in Tasks \ tx[t].todo : task'[k] = task[k]
      /\ \A k \in tx[t].todo : /\ owner[k] = t
                               /\ task[k].status = "ACTIVE" /\ task'[k].status = "CANCELLED"
                               /\ task'[k].archived = "NO"
  BY <1>1, <1>2, StatusWritten, References
<1>4. /\ reminder' \in [Reminders -> ReminderRow]
      /\ \A r \in Reminders : Active(r)' => Active(r) /\ r \notin tx[t].rems
  BY <1>1, <1>2, RemindersCancelled
<1>5. \A r \in Reminders : Active(r)' => Active(r) /\ TaskOf[r] \notin tx[t].todo
  BY <1>1, <1>2, <1>4 DEF OwnTx, CoversReminders
<1>6. TypeOK'
  BY <1>1, <1>2, <1>3, <1>4 DEF TypeOK
<1>7. RowsOK'
  BY <1>1, <1>2, <1>3, <1>5, References DEF Active, RowsOK, ArchivedIsFinished,
     NoActiveTaskUnderCancelledBatch,
     ArchivedBatchIsFinished, NoReminderOnFinishedTask
<1>8. Guarantee(t)
  BY <1>1, <1>3, <1>4, References DEF Guarantee
<1> QED
  BY <1>1, <1>6, <1>7, <1>8 DEF Keeps

\* The cancellation reaches every task of the batch and every reminder of theirs.
LEMMA CommitCancelBatchKeeps ==
    ASSUME IInv, NEW t \in Txns, CommitCancelBatch(t)
    PROVE  Keeps(t)
<1>1. /\ TypeOK /\ RowsOK /\ OwnTx(t) /\ tx[t].pc = "commit"
      /\ owner' \in [Rows -> Txns \cup {Nobody}] /\ tx' \in [Txns -> TxState] /\ OwnTx(t)'
      /\ \A u \in Txns \ {t} : tx'[u] = tx[u]
      /\ \A x \in Rows : owner[x] \in Txns \ {t} => owner'[x] = owner[x]
  BY CommitBegins DEF CommitCancelBatch
<1>2. /\ tx[t].op = "cancelBatch" /\ tx[t].op \in ClosingOps
      /\ SetStatus(t, "CANCELLED") /\ CancelReminders(t)
      /\ batch' = [batch EXCEPT ![tx[t].row].cancelled = TRUE]
  BY DEF CommitCancelBatch, Commit, At, ClosingOps
<1>3. /\ task' \in [Tasks -> TaskRow]
      /\ \A k \in Tasks \ tx[t].todo : task'[k] = task[k]
      /\ \A k \in tx[t].todo : /\ owner[k] = t
                               /\ task[k].status = "ACTIVE" /\ task'[k].status = "CANCELLED"
                               /\ task'[k].archived = "NO"
  BY <1>1, <1>2, StatusWritten, References
<1>4. /\ reminder' \in [Reminders -> ReminderRow]
      /\ \A r \in Reminders : Active(r)' => Active(r) /\ r \notin tx[t].rems
  BY <1>1, <1>2, RemindersCancelled
<1>5. \A r \in Reminders : Active(r)' => Active(r) /\ TaskOf[r] \notin tx[t].todo
  BY <1>1, <1>2, <1>4 DEF OwnTx, CoversReminders
<1>6. tx[t].row \in Batches
  BY <1>1, <1>2 DEF OwnTx, RequestFits, BatchOps
<1>7. /\ batch' \in [Batches -> BatchRow]
      /\ \A b \in Batches : /\ batch'[b].archived = batch[b].archived
                            /\ b # tx[t].row => batch'[b] = batch[b]
  BY <1>1, <1>2, <1>6, BatchCancelled
<1>8. \A k \in Tasks : BatchOf[k] = tx[t].row => task'[k].status \in FinalStatuses
  BY <1>1, <1>2, <1>3, References DEF OwnTx, CancelsTheRest, Past, TasksOf
<1>9. TypeOK'
  BY <1>1, <1>3, <1>4, <1>7 DEF TypeOK
<1>10. ArchivedIsFinished' /\ ArchivedBatchIsFinished'
  BY <1>1, <1>3, <1>7, References DEF RowsOK, ArchivedIsFinished, ArchivedBatchIsFinished
<1>11. NoActiveTaskUnderCancelledBatch'
  BY <1>1, <1>3, <1>7, <1>8, References DEF RowsOK, NoActiveTaskUnderCancelledBatch
<1>12. NoReminderOnFinishedTask'
  <2> SUFFICES ASSUME NEW r \in Reminders, Active(r)'
               PROVE  /\ task'[TaskOf[r]].status = "ACTIVE" /\ task'[TaskOf[r]].archived = "NO"
                      /\ ~batch'[BatchOf[TaskOf[r]]].cancelled
    BY DEF NoReminderOnFinishedTask, Active
  <2>1. Active(r) /\ task'[TaskOf[r]] = task[TaskOf[r]]
    BY <1>3, <1>5, References, <1>1
  <2>2. task[TaskOf[r]].status = "ACTIVE" /\ task[TaskOf[r]].archived = "NO"
    BY <1>1, <2>1 DEF RowsOK, NoReminderOnFinishedTask, Active
  <2>3. BatchOf[TaskOf[r]] # tx[t].row
    BY <1>1, <1>8, <2>1, <2>2, References
  <2> QED
    BY <1>1, <1>7, <2>1, <2>2, <2>3, References DEF RowsOK, NoReminderOnFinishedTask,
     Active
<1>13. RowsOK'
  BY <1>10, <1>11, <1>12 DEF RowsOK
<1>14. Guarantee(t)
  BY <1>1, <1>3, <1>4, References DEF Guarantee
<1> QED
  BY <1>1, <1>9, <1>13, <1>14 DEF Keeps

-----------------------------------------------------------------------------
\* Only finished tasks are archived, so no scheduled reminder is touched.
LEMMA CommitArchiveKeeps ==
    ASSUME IInv, NEW t \in Txns, CommitArchive(t)
    PROVE  Keeps(t)
<1>1. /\ TypeOK /\ RowsOK /\ OwnTx(t) /\ tx[t].pc = "commit"
      /\ owner' \in [Rows -> Txns \cup {Nobody}] /\ tx' \in [Txns -> TxState] /\ OwnTx(t)'
      /\ \A u \in Txns \ {t} : tx'[u] = tx[u]
      /\ \A x \in Rows : owner[x] \in Txns \ {t} => owner'[x] = owner[x]
  BY CommitBegins DEF CommitArchive
<1>2. tx[t].op = "archive" /\ SetArchived(t, "ALONE") /\ UNCHANGED <<batch, reminder>>
  BY DEF CommitArchive, Commit, At
<1>3. /\ task' \in [Tasks -> TaskRow]
      /\ \A k \in Tasks : task'[k].status = task[k].status
      /\ \A k \in Tasks \ tx[t].todo : task'[k] = task[k]
      /\ \A k \in tx[t].todo : owner[k] = t /\ task'[k].archived = "ALONE"
  BY <1>1, <1>2, ArchivedWritten
<1>4. \A k \in tx[t].todo : task[k].status \in FinalStatuses
  BY <1>1, <1>2 DEF OwnTx, ArchivesFinished, At
<1>5. TypeOK'
  BY <1>1, <1>2, <1>3 DEF TypeOK
<1>6. RowsOK'
  BY <1>1, <1>2, <1>3, <1>4, References DEF RowsOK, ArchivedIsFinished,
     NoActiveTaskUnderCancelledBatch,
     ArchivedBatchIsFinished, NoReminderOnFinishedTask
<1>7. Guarantee(t)
  BY <1>1, <1>2, <1>3 DEF Guarantee, Active
<1> QED
  BY <1>1, <1>5, <1>6, <1>7 DEF Keeps

LEMMA CommitRestoreKeeps ==
    ASSUME IInv, NEW t \in Txns, CommitRestore(t)
    PROVE  Keeps(t)
<1>1. /\ TypeOK /\ RowsOK /\ OwnTx(t) /\ tx[t].pc = "commit"
      /\ owner' \in [Rows -> Txns \cup {Nobody}] /\ tx' \in [Txns -> TxState] /\ OwnTx(t)'
      /\ \A u \in Txns \ {t} : tx'[u] = tx[u]
      /\ \A x \in Rows : owner[x] \in Txns \ {t} => owner'[x] = owner[x]
  BY CommitBegins DEF CommitRestore
<1>2. tx[t].op = "restore" /\ SetArchived(t, "NO") /\ UNCHANGED <<batch, reminder>>
  BY DEF CommitRestore, Commit, At
<1>3. /\ task' \in [Tasks -> TaskRow]
      /\ \A k \in Tasks : task'[k].status = task[k].status
      /\ \A k \in Tasks \ tx[t].todo : task'[k] = task[k]
      /\ \A k \in tx[t].todo : owner[k] = t /\ task'[k].archived = "NO"
  BY <1>1, <1>2, ArchivedWritten
<1>4. TypeOK'
  BY <1>1, <1>2, <1>3 DEF TypeOK
<1>5. RowsOK'
  BY <1>1, <1>2, <1>3, References DEF RowsOK, ArchivedIsFinished,
     NoActiveTaskUnderCancelledBatch,
     ArchivedBatchIsFinished, NoReminderOnFinishedTask
<1>6. Guarantee(t)
  BY <1>1, <1>2, <1>3 DEF Guarantee, Active
<1> QED
  BY <1>1, <1>4, <1>5, <1>6 DEF Keeps

LEMMA CommitArchiveBatchKeeps ==
    ASSUME IInv, NEW t \in Txns, CommitArchiveBatch(t)
    PROVE  Keeps(t)
<1>1. /\ TypeOK /\ RowsOK /\ OwnTx(t) /\ tx[t].pc = "commit"
      /\ owner' \in [Rows -> Txns \cup {Nobody}] /\ tx' \in [Txns -> TxState] /\ OwnTx(t)'
      /\ \A u \in Txns \ {t} : tx'[u] = tx[u]
      /\ \A x \in Rows : owner[x] \in Txns \ {t} => owner'[x] = owner[x]
  BY CommitBegins DEF CommitArchiveBatch
<1>2. /\ tx[t].op = "archiveBatch" /\ SetArchived(t, "WITH_BATCH") /\ UNCHANGED reminder
      /\ batch' = [batch EXCEPT ![tx[t].row].archived = TRUE]
  BY DEF CommitArchiveBatch, Commit, At
<1>3. /\ task' \in [Tasks -> TaskRow]
      /\ \A k \in Tasks : task'[k].status = task[k].status
      /\ \A k \in Tasks \ tx[t].todo : task'[k] = task[k]
      /\ \A k \in tx[t].todo : owner[k] = t /\ task'[k].archived = "WITH_BATCH"
  BY <1>1, <1>2, ArchivedWritten
<1>4. tx[t].row \in Batches
  BY <1>1, <1>2 DEF OwnTx, RequestFits, BatchOps
<1>5. /\ batch' \in [Batches -> BatchRow]
      /\ \A c \in Batches : /\ batch'[c].cancelled = batch[c].cancelled
                            /\ c # tx[t].row => batch'[c] = batch[c]
  BY <1>1, <1>2, <1>4, BatchArchived
<1>6. /\ \A k \in Tasks : BatchOf[k] = tx[t].row => task[k].status \in FinalStatuses
      /\ \A k \in tx[t].todo : task[k].status \in FinalStatuses
  BY <1>1, <1>2 DEF OwnTx, ArchivesFinished, At, TasksOf
<1>7. TypeOK'
  BY <1>1, <1>2, <1>3, <1>5 DEF TypeOK
<1>8. RowsOK'
  BY <1>1, <1>2, <1>3, <1>5, <1>6, References, SMTT(40) DEF RowsOK, ArchivedIsFinished,
     NoActiveTaskUnderCancelledBatch,
     ArchivedBatchIsFinished, NoReminderOnFinishedTask
<1>9. Guarantee(t)
  BY <1>1, <1>2, <1>3 DEF Guarantee, Active
<1> QED
  BY <1>1, <1>7, <1>8, <1>9 DEF Keeps

LEMMA CommitRestoreBatchKeeps ==
    ASSUME IInv, NEW t \in Txns, CommitRestoreBatch(t)
    PROVE  Keeps(t)
<1>1. /\ TypeOK /\ RowsOK /\ OwnTx(t) /\ tx[t].pc = "commit"
      /\ owner' \in [Rows -> Txns \cup {Nobody}] /\ tx' \in [Txns -> TxState] /\ OwnTx(t)'
      /\ \A u \in Txns \ {t} : tx'[u] = tx[u]
      /\ \A x \in Rows : owner[x] \in Txns \ {t} => owner'[x] = owner[x]
  BY CommitBegins DEF CommitRestoreBatch
<1>2. /\ tx[t].op = "restoreBatch" /\ SetArchived(t, "NO") /\ UNCHANGED reminder
      /\ batch' = [batch EXCEPT ![tx[t].row].archived = FALSE]
  BY DEF CommitRestoreBatch, Commit, At
<1>3. /\ task' \in [Tasks -> TaskRow]
      /\ \A k \in Tasks : task'[k].status = task[k].status
      /\ \A k \in Tasks \ tx[t].todo : task'[k] = task[k]
      /\ \A k \in tx[t].todo : owner[k] = t /\ task'[k].archived = "NO"
  BY <1>1, <1>2, ArchivedWritten
<1>4. tx[t].row \in Batches
  BY <1>1, <1>2 DEF OwnTx, RequestFits, BatchOps
<1>5. /\ batch' \in [Batches -> BatchRow]
      /\ \A c \in Batches : /\ batch'[c].cancelled = batch[c].cancelled
                            /\ c # tx[t].row => batch'[c] = batch[c]
      /\ ~batch'[tx[t].row].archived
  BY <1>1, <1>2, <1>4, BatchArchived
<1>6. TypeOK'
  BY <1>1, <1>2, <1>3, <1>5 DEF TypeOK
<1>7. RowsOK'
  BY <1>1, <1>2, <1>3, <1>5, References, SMTT(40) DEF RowsOK, ArchivedIsFinished,
     NoActiveTaskUnderCancelledBatch,
     ArchivedBatchIsFinished, NoReminderOnFinishedTask
<1>8. Guarantee(t)
  BY <1>1, <1>2, <1>3 DEF Guarantee, Active
<1> QED
  BY <1>1, <1>6, <1>7, <1>8 DEF Keeps

LEMMA CommitEditKeeps ==
    ASSUME IInv, NEW t \in Txns, CommitEdit(t)
    PROVE  Keeps(t)
<1>1. /\ TypeOK /\ RowsOK /\ OwnTx(t) /\ tx[t].pc = "commit"
      /\ owner' \in [Rows -> Txns \cup {Nobody}] /\ tx' \in [Txns -> TxState] /\ OwnTx(t)'
      /\ \A u \in Txns \ {t} : tx'[u] = tx[u]
      /\ \A x \in Rows : owner[x] \in Txns \ {t} => owner'[x] = owner[x]
  BY CommitBegins DEF CommitEdit
<1>2. /\ tx[t].op = "edit" /\ CancelReminders(t) /\ UNCHANGED task
      /\ batch' = [batch EXCEPT ![tx[t].row].due = tx[t].value]
  BY DEF CommitEdit, Commit, At
<1>3. tx[t].row \in Batches /\ tx[t].value \in 0..MaxTime
  BY <1>1, <1>2 DEF OwnTx, RequestFits, BatchOps, TypeOK, TxState
<1>4. /\ batch' \in [Batches -> BatchRow]
      /\ \A c \in Batches : /\ batch'[c].cancelled = batch[c].cancelled
                            /\ batch'[c].archived = batch[c].archived
  BY <1>1, <1>2, <1>3, BatchMoved
<1>5. /\ reminder' \in [Reminders -> ReminderRow]
      /\ \A r \in Reminders : Active(r)' => Active(r) /\ r \notin tx[t].rems
  BY <1>1, <1>2, RemindersCancelled
<1>6. TypeOK'
  BY <1>1, <1>2, <1>4, <1>5 DEF TypeOK
<1>7. RowsOK'
  BY <1>1, <1>2, <1>4, <1>5, References DEF Active, RowsOK, ArchivedIsFinished,
     NoActiveTaskUnderCancelledBatch,
     ArchivedBatchIsFinished, NoReminderOnFinishedTask
<1>8. Guarantee(t)
  BY <1>1, <1>2, <1>5 DEF Guarantee
<1> QED
  BY <1>1, <1>6, <1>7, <1>8 DEF Keeps

\* The lock of the task has kept it unfinished since the check.
LEMMA CommitRemindKeeps ==
    ASSUME IInv, NEW t \in Txns, CommitRemind(t)
    PROVE  Keeps(t)
<1>1. /\ TypeOK /\ RowsOK /\ OwnTx(t) /\ tx[t].pc = "commit"
      /\ owner' \in [Rows -> Txns \cup {Nobody}] /\ tx' \in [Txns -> TxState] /\ OwnTx(t)'
      /\ \A u \in Txns \ {t} : tx'[u] = tx[u]
      /\ \A x \in Rows : owner[x] \in Txns \ {t} => owner'[x] = owner[x]
  BY CommitBegins DEF CommitRemind
<1>2. /\ tx[t].op = "remind" /\ UNCHANGED <<batch, task>>
      /\ reminder' = [r \in Reminders |-> IF r \in tx[t].rems
                                           THEN [state |-> "ACTIVE", at |-> tx[t].value]
                                           ELSE reminder[r]]
      /\ \A r \in tx[t].rems : TaskOf[r] = tx[t].row
      /\ task[tx[t].row].status = "ACTIVE" /\ tx[t].row \in Tasks /\ owner[tx[t].row] = t
      /\ tx[t].value \in 0..MaxTime
  BY <1>1 DEF CommitRemind, Commit, At, OwnTx, RequestFits, HoldsLocks, RemindsUnfinished,
     TaskOps, TypeOK, TxState
<1>3. reminder' \in [Reminders -> ReminderRow]
  BY <1>1, <1>2 DEF TypeOK, ReminderRow, Instants
<1>4. \A r \in Reminders : Active(r)' => Active(r) \/ TaskOf[r] = tx[t].row
  BY <1>2 DEF Active
<1>5. TypeOK'
  BY <1>1, <1>2, <1>3 DEF TypeOK
<1>6. RowsOK'
  BY <1>1, <1>2, <1>4, References DEF Active, RowsOK, ArchivedIsFinished,
     NoActiveTaskUnderCancelledBatch,
     ArchivedBatchIsFinished, NoReminderOnFinishedTask
<1>7. Guarantee(t)
  BY <1>1, <1>2, <1>4 DEF Guarantee
<1> QED
  BY <1>1, <1>5, <1>6, <1>7 DEF Keeps

LEMMA CommitRescheduleKeeps ==
    ASSUME IInv, NEW t \in Txns, CommitReschedule(t)
    PROVE  Keeps(t)
<1>1. /\ TypeOK /\ RowsOK /\ OwnTx(t) /\ tx[t].pc = "commit"
      /\ owner' \in [Rows -> Txns \cup {Nobody}] /\ tx' \in [Txns -> TxState] /\ OwnTx(t)'
      /\ \A u \in Txns \ {t} : tx'[u] = tx[u]
      /\ \A x \in Rows : owner[x] \in Txns \ {t} => owner'[x] = owner[x]
  BY CommitBegins DEF CommitReschedule
<1>2. /\ tx[t].op = "reschedule" /\ UNCHANGED <<batch, task>>
      /\ reminder' = [reminder EXCEPT ![tx[t].row].at = tx[t].value]
      /\ tx[t].row \in Reminders /\ tx[t].value \in 0..MaxTime
  BY <1>1 DEF CommitReschedule, Commit, At, OwnTx, RequestFits, ReminderOps, TypeOK,
     TxState
<1>3. /\ reminder' \in [Reminders -> ReminderRow]
      /\ \A r \in Reminders : Active(r)' => Active(r)
  <2> DEFINE old == reminder[tx[t].row]
  <2>1. old \in ReminderRow /\ reminder' = [reminder EXCEPT ![tx[t].row] = [old EXCEPT !.at = tx[t].value]]
    BY <1>1, <1>2 DEF TypeOK
  <2>2. [old EXCEPT !.at = tx[t].value] \in ReminderRow /\ [old EXCEPT !.at = tx[t].value].state = old.state
    BY <1>2, <2>1 DEF ReminderRow, Instants
  <2> QED
    BY <1>1, <1>2, <2>1, <2>2 DEF TypeOK, Active
<1>4. TypeOK'
  BY <1>1, <1>2, <1>3 DEF TypeOK
<1>5. RowsOK'
  BY <1>1, <1>2, <1>3, References DEF Active, RowsOK, ArchivedIsFinished,
     NoActiveTaskUnderCancelledBatch,
     ArchivedBatchIsFinished, NoReminderOnFinishedTask
<1>6. Guarantee(t)
  BY <1>1, <1>2, <1>3 DEF Guarantee
<1> QED
  BY <1>1, <1>4, <1>5, <1>6 DEF Keeps

LEMMA CommitCancelReminderKeeps ==
    ASSUME IInv, NEW t \in Txns, CommitCancelReminder(t)
    PROVE  Keeps(t)
<1>1. /\ TypeOK /\ RowsOK /\ OwnTx(t) /\ tx[t].pc = "commit"
      /\ owner' \in [Rows -> Txns \cup {Nobody}] /\ tx' \in [Txns -> TxState] /\ OwnTx(t)'
      /\ \A u \in Txns \ {t} : tx'[u] = tx[u]
      /\ \A x \in Rows : owner[x] \in Txns \ {t} => owner'[x] = owner[x]
  BY CommitBegins DEF CommitCancelReminder
<1>2. tx[t].op = "cancelReminder" /\ CancelReminders(t) /\ UNCHANGED <<batch, task>>
  BY DEF CommitCancelReminder, Commit, At
<1>3. /\ reminder' \in [Reminders -> ReminderRow]
      /\ \A r \in Reminders : Active(r)' => Active(r) /\ r \notin tx[t].rems
  BY <1>1, <1>2, RemindersCancelled
<1>4. TypeOK'
  BY <1>1, <1>2, <1>3 DEF TypeOK
<1>5. RowsOK'
  BY <1>1, <1>2, <1>3, References DEF Active, RowsOK, ArchivedIsFinished,
     NoActiveTaskUnderCancelledBatch,
     ArchivedBatchIsFinished, NoReminderOnFinishedTask
<1>6. Guarantee(t)
  BY <1>1, <1>2, <1>3 DEF Guarantee
<1> QED
  BY <1>1, <1>4, <1>5, <1>6 DEF Keeps

-----------------------------------------------------------------------------
(* The theorems.                                                           *)

\* Every step of a transaction keeps to its guarantee.
LEMMA StepKeeps ==
    ASSUME IInv, NEW t \in Txns, Requests(t) \/ Checks(t) \/ Locks(t) \/ Commits(t) \/ Abort(t)
    PROVE  Keeps(t)
<1>1. CASE Requests(t)
  BY <1>1, RequestTaskKeeps, RequestReminderKeeps, RequestReminderChangeKeeps,
     RequestBatchKeeps
     DEF Requests
<1>2. CASE Checks(t)
  BY <1>2, ProgressTaskKeeps, CompleteTaskKeeps, CancelTaskKeeps, ArchiveTaskKeeps,
     RestoreTaskKeeps,
     CreateReminderKeeps, UpdateReminderKeeps, CancelReminderKeeps, EditBatchKeeps,
     CancelBatchKeeps, ArchiveBatchKeeps, RestoreBatchKeeps
     DEF Checks
<1>3. CASE Locks(t)
  BY <1>3, CancelBatchTasksKeeps, ArchiveBatchTasksKeeps, RestoreBatchTasksKeeps,
     FindRemindersKeeps,
     ClaimRemindersKeeps
     DEF Locks
<1>4. CASE Commits(t)
  BY <1>4, CommitProgressKeeps, CommitCompleteKeeps, CommitCancelKeeps,
     CommitCancelBatchKeeps,
     CommitArchiveKeeps, CommitRestoreKeeps, CommitArchiveBatchKeeps,
     CommitRestoreBatchKeeps, CommitEditKeeps, CommitRemindKeeps, CommitRescheduleKeeps,
     CommitCancelReminderKeeps
     DEF Commits
<1> QED
  BY <1>1, <1>2, <1>3, <1>4, AbortKeeps

LEMMA InitIInv == Init => IInv
<1> SUFFICES ASSUME Init PROVE IInv
  OBVIOUS
<1>1. TypeOK
  BY IdleShape DEF Init, TypeOK, BatchRow, TaskRow, ReminderRow
<1>2. ASSUME NEW t \in Txns PROVE OwnTx(t)
  <2>1. tx[t].pc = "idle" /\ tx[t].op = "none"
    BY DEF Init, Idle
  <2>2. "none" \notin TaskOps /\ "none" \notin BatchOps /\ "none" \notin ReminderOps
    BY DEF TaskOps, BatchOps, ReminderOps
  <2> QED
    BY <2>1, <2>2 DEF OwnTx, RequestFits, HoldsLocks, WritesUnfinished, CoversReminders,
       RemindsUnfinished, ArchivesFinished, CancelsTheRest, Past, At
<1>3. RowsOK
  BY DEF Init, RowsOK, ArchivedIsFinished, NoActiveTaskUnderCancelledBatch,
     ArchivedBatchIsFinished, NoReminderOnFinishedTask
<1> QED
  BY <1>1, <1>2, <1>3 DEF IInv

LEMMA NextIInv == IInv /\ [Next]_vars => IInv'
<1> SUFFICES ASSUME IInv, [Next]_vars PROVE IInv'
  OBVIOUS
<1>1. CASE UNCHANGED vars
  BY <1>1 DEF vars, IInv, TypeOK, OwnTx, RequestFits, HoldsLocks, WritesUnfinished,
     CoversReminders,
     RemindsUnfinished, ArchivesFinished, CancelsTheRest, Past, At, RowsOK,
     ArchivedIsFinished,
     NoActiveTaskUnderCancelledBatch, ArchivedBatchIsFinished, NoReminderOnFinishedTask,
     Active
<1>2. CASE Next
  <2>1. PICK t \in Txns : Keeps(t)
    BY <1>2, StepKeeps DEF Next
  <2>2. ASSUME NEW u \in Txns \ {t} PROVE OwnTx(u)'
    BY <2>1, Rely DEF IInv, Keeps
  <2> QED
    BY <2>1, <2>2 DEF IInv, Keeps
<1> QED
  BY <1>1, <1>2

\* The invariant: what every transaction has read under lock stays true,
\* and every commit leaves the rows in order.
THEOREM Invariance == Spec => []IInv
  BY InitIInv, NextIInv, PTL DEF Spec

\* Type correctness.
THEOREM TypeCorrect == Spec => []TypeOK
<1>1. IInv => TypeOK
  BY DEF IInv
<1> QED
  BY <1>1, Invariance, PTL

\* cancel_task_batch leaves no task to be done under a cancelled batch,
\* whatever runs beside it.
THEOREM CancelledBatchSafe == Spec => []NoActiveTaskUnderCancelledBatch
<1>1. IInv => NoActiveTaskUnderCancelledBatch
  BY DEF IInv, RowsOK
<1> QED
  BY <1>1, Invariance, PTL

\* No reminder stays scheduled for a task that is finished, archived or of
\* a cancelled batch, although reminders are rescheduled without its lock.
THEOREM RemindersSafe == Spec => []NoReminderOnFinishedTask
<1>1. IInv => NoReminderOnFinishedTask
  BY DEF IInv, RowsOK
<1> QED
  BY <1>1, Invariance, PTL

\* archive_task_batch hides finished work only, then and later.
THEOREM ArchiveSafe == Spec => []ArchivedBatchIsFinished
<1>1. IInv => ArchivedBatchIsFinished
  BY DEF IInv, RowsOK
<1> QED
  BY <1>1, Invariance, PTL

\* The outcome of a task is written once.
THEOREM OutcomeSafe == Spec => FinalStatusIsFinal
<1>1. IInv /\ [Next]_vars =>
        [\A k \in Tasks : task[k].status \in FinalStatuses => task'[k].status = task[k].status]_vars
  BY StepKeeps DEF Next, Keeps, Guarantee
<1> QED
  BY <1>1, Invariance, PTL DEF Spec, FinalStatusIsFinal

-----------------------------------------------------------------------------
(* ReminderNotices.                                                        *)

HIDE TablesAssumption
USE ReminderNoticesAssumption

\* The rows of a typed state, and what they name.
LEMMA ReminderRows ==
    ASSUME RemindersTypeOK
    PROVE  /\ \A i \in ReminderIds : reminders[i] # NoReminder => reminders[i] \in TaskReminder
           /\ \A n \in NoticeIds : scheduled[n] # NoReminder => scheduled[n] \in ScheduledNotice
           /\ \A i \in ReminderIds : fixing[i] # NoReminder => fixing[i] \in TaskReminder
  BY DEF RemindersTypeOK

LEMMA ReminderRequests ==
    ASSUME RemindersTypeOK, NEW a \in Askers, asking[a] # NotAsking
    PROVE  asking[a] \in Ask
  BY DEF RemindersTypeOK

LEMMA AskingType ==
    ASSUME RemindersTypeOK, NEW a \in Askers, Finished(a)
    PROVE  asking' \in [Askers -> Ask \cup {NotAsking}]
  BY DEF RemindersTypeOK, Finished

LEMMA RemindersStart == RemindersInit => RemindersInvariant
  BY DEF RemindersInit, RemindersInvariant, RemindersTypeOK, NoticesHaveOwners,
     NoticeMatchesReminder, Nothing, Duty, Pending

LEMMA NoReminderIsNoRow == NoReminder \notin TaskReminder /\ NoReminder \notin ScheduledNotice
  OBVIOUS

\* What the constructors of rows construct.
LEMMA Reminded ==
    ASSUME NEW at \in Moments, NEW n \in NoticeIds
    PROVE  /\ Remind(at, n) \in TaskReminder /\ Remind(at, n) # NoReminder
           /\ Remind(at, n).at = at /\ Remind(at, n).notification = n
           /\ Remind(at, n).cancelled_by = ""
<1>1. Remind(at, n) \in TaskReminder
  BY DEF Remind, TaskReminder
<1> QED
  BY <1>1, NoReminderIsNoRow DEF Remind

LEMMA Scheduled ==
    ASSUME NEW at \in Moments, NEW i \in ReminderIds
    PROVE  /\ Scheduling(i, at) \in ScheduledNotice /\ Scheduling(i, at) # NoReminder
           /\ Scheduling(i, at).reminder = i /\ ~Scheduling(i, at).expired
<1>1. Scheduling(i, at) \in ScheduledNotice
  BY DEF Scheduling, ScheduledNotice
<1> QED
  BY <1>1, NoReminderIsNoRow DEF Scheduling

LEMMA ReminderCancelled ==
    ASSUME NEW row \in TaskReminder, NEW by \in {"user", "command"}
    PROVE  /\ CancelledReminder(row, by) \in TaskReminder
           /\ CancelledReminder(row, by) # NoReminder
           /\ CancelledReminder(row, by).cancelled_by = by
           /\ CancelledReminder(row, by).notification = row.notification
<1>1. CancelledReminder(row, by) \in TaskReminder
  BY DEF CancelledReminder, TaskReminder
<1> QED
  BY <1>1, NoReminderIsNoRow DEF CancelledReminder

LEMMA NoticeExpired ==
    ASSUME NEW row \in ScheduledNotice
    PROVE  /\ ExpiredNotice(row) \in ScheduledNotice /\ ExpiredNotice(row) # NoReminder
           /\ ExpiredNotice(row).expired /\ ExpiredNotice(row).reminder = row.reminder
<1>1. ExpiredNotice(row) \in ScheduledNotice
  BY DEF ExpiredNotice, ScheduledNotice
<1> QED
  BY <1>1, NoReminderIsNoRow DEF ExpiredNotice

\* What the invariant says of a reminder that exists, of a notification, and of a
\* reminder the command has read.
LEMMA ReminderOwns ==
    ASSUME RemindersInvariant, NEW j \in ReminderIds, reminders[j] # NoReminder
    PROVE  /\ reminders[j] \in TaskReminder /\ reminders[j].notification \in NoticeIds
           /\ scheduled[reminders[j].notification] \in ScheduledNotice
           /\ scheduled[reminders[j].notification] # NoReminder
           /\ scheduled[reminders[j].notification].reminder = j
           /\ reminders[j].cancelled_by = "" =>
                 scheduled[reminders[j].notification] = Scheduling(j, reminders[j].at)
  BY ReminderRows, NoReminderIsNoRow DEF RemindersInvariant, NoticesHaveOwners,
     NoticeMatchesReminder, RemindersTypeOK, TaskReminder, Pending

LEMMA NoticeOwned ==
    ASSUME RemindersInvariant, NEW m \in NoticeIds, scheduled[m] # NoReminder
    PROVE  /\ scheduled[m] \in ScheduledNotice /\ scheduled[m].reminder \in ReminderIds
           /\ reminders[scheduled[m].reminder] # NoReminder
           /\ ~scheduled[m].expired =>
                 /\ reminders[scheduled[m].reminder].notification = m
                 /\ reminders[scheduled[m].reminder].cancelled_by \in {"", "command"}
  BY ReminderRows, NoReminderIsNoRow DEF RemindersInvariant, NoticesHaveOwners,
     NoticeMatchesReminder, RemindersTypeOK, ScheduledNotice

LEMMA FixOwns ==
    ASSUME RemindersInvariant, NEW j \in ReminderIds, fixing[j] # NoReminder
    PROVE  /\ reminders[j] \in TaskReminder /\ reminders[j] # NoReminder
           /\ fixing[j] \in TaskReminder /\ fixing[j].notification \in NoticeIds
           /\ scheduled[fixing[j].notification] \in ScheduledNotice
           /\ scheduled[fixing[j].notification] # NoReminder
           /\ scheduled[fixing[j].notification].reminder = j
  BY ReminderRows, NoReminderIsNoRow DEF RemindersInvariant, NoticesHaveOwners,
     RemindersTypeOK,
     TaskReminder

\* The invariant of the next state, row by row.
ReminderOK(j) == reminders[j] # NoReminder =>
    /\ scheduled[reminders[j].notification] # NoReminder
    /\ scheduled[reminders[j].notification].reminder = j
    /\ reminders[j].cancelled_by = "" =>
           scheduled[reminders[j].notification] = Scheduling(j, reminders[j].at)
NoticeOK(m) == scheduled[m] # NoReminder =>
    /\ reminders[scheduled[m].reminder] # NoReminder
    /\ ~scheduled[m].expired =>
           /\ reminders[scheduled[m].reminder].notification = m
           /\ reminders[scheduled[m].reminder].cancelled_by \in {"", "command"}
FixOK(j) == fixing[j] # NoReminder =>
    /\ reminders[j] # NoReminder
    /\ scheduled[fixing[j].notification] # NoReminder
    /\ scheduled[fixing[j].notification].reminder = j

LEMMA RowByRow ==
    ASSUME \A j \in ReminderIds : ReminderOK(j)' /\ FixOK(j)',
           \A m \in NoticeIds : NoticeOK(m)'
    PROVE  NoticesHaveOwners' /\ NoticeMatchesReminder'
  BY DEF ReminderOK, NoticeOK, FixOK, NoticesHaveOwners, NoticeMatchesReminder, Pending

\* A reminder stays as it is, and its notification.
LEMMA ReminderStays ==
    ASSUME RemindersInvariant, NEW j \in ReminderIds, reminders'[j] = reminders[j],
           reminders[j] # NoReminder =>
               scheduled'[reminders[j].notification] = scheduled[reminders[j].notification]
    PROVE  ReminderOK(j)'
  BY ReminderOwns DEF ReminderOK

\* A notification stays as it is, and its owner.
LEMMA NoticeStays ==
    ASSUME RemindersInvariant, NEW m \in NoticeIds, scheduled'[m] = scheduled[m],
           scheduled[m] # NoReminder =>
               reminders'[scheduled[m].reminder] = reminders[scheduled[m].reminder]
    PROVE  NoticeOK(m)'
  BY NoticeOwned DEF NoticeOK

\* What is not about the rows changes nothing of them.
LEMMA RowsUndisturbed ==
    ASSUME RemindersInvariant, UNCHANGED <<reminders, scheduled, fixing>>
    PROVE  NoticesHaveOwners' /\ NoticeMatchesReminder'
  BY DEF RemindersInvariant, NoticesHaveOwners, NoticeMatchesReminder, Pending

LEMMA BeginKeeps ==
    ASSUME RemindersInvariant, NEW a \in Askers,
           NEW op, NEW i, begin(a, op, i),
           \/ op \in {"CREATE", "UPDATE", "CANCEL"} /\ i \in ReminderIds
           \/ op \in {"FINISH", "DEADLINE"} /\ i = NoReminder
    PROVE  RemindersInvariant'
<1> DEFINE seen == [j \in ReminderIds |->
                       IF Pending(j) THEN reminders[j].notification ELSE NoReminder]
<1>1. seen \in Seen
  <2>1. ASSUME NEW j \in ReminderIds, Pending(j) PROVE reminders[j].notification \in NoticeIds
    BY <2>1, ReminderRows DEF RemindersInvariant, Pending, TaskReminder
  <2> QED
    BY <2>1 DEF Seen
<1>2. asking' = [asking EXCEPT ![a] = [op |-> op, of |-> i, duty |-> duty, seen |-> seen]]
  BY DEF begin
<1> HIDE DEF seen
<1>3. RemindersTypeOK'
  BY <1>1, <1>2 DEF RemindersInvariant, RemindersTypeOK, begin, Ask
<1> QED
  BY <1>3, RowsUndisturbed DEF RemindersInvariant, begin

\* A new notification has no owner yet.
LEMMA CreateKeeps ==
    ASSUME RemindersInvariant, NEW a \in Askers, NEW n \in NoticeIds, NEW at \in Moments,
           create_task_reminder(a, n, at)
    PROVE  RemindersInvariant'
<1> USE DEF RemindersInvariant
<1> DEFINE i == asking[a].of
<1>1. asking[a] \in Ask
  BY ReminderRequests DEF create_task_reminder, NotAsking
<1>2. reminders[i] = NoReminder /\ scheduled[n] = NoReminder
  BY DEF create_task_reminder, _create_reminder_notification
<1>3. i \in ReminderIds
  BY <1>1 DEF Ask, create_task_reminder
<1>4. UNCHANGED <<duty, fixing>>
  BY DEF create_task_reminder
<1>5. /\ reminders' = [reminders EXCEPT ![i] = Remind(at, n)]
      /\ scheduled' = [scheduled EXCEPT ![n] = Scheduling(i, at)]
      /\ asking' \in [Askers -> Ask \cup {NotAsking}]
  BY AskingType DEF create_task_reminder
<1> HIDE DEF i
<1>6. \A j \in ReminderIds :
          IF j = i THEN /\ reminders'[j] # NoReminder /\ reminders'[j].notification = n
                        /\ reminders'[j].at = at /\ reminders'[j].cancelled_by = ""
          ELSE reminders'[j] = reminders[j]
  BY <1>3, <1>5, Reminded DEF RemindersTypeOK
<1>7. \A m \in NoticeIds :
          IF m = n THEN /\ scheduled'[m] # NoReminder /\ scheduled'[m].reminder = i
                        /\ scheduled'[m] = Scheduling(i, at)
          ELSE scheduled'[m] = scheduled[m]
  BY <1>3, <1>5, Scheduled DEF RemindersTypeOK
<1>8. RemindersTypeOK'
  BY <1>3, <1>4, <1>5, Reminded, Scheduled DEF RemindersTypeOK
<1>9. ASSUME NEW j \in ReminderIds PROVE ReminderOK(j)'
  <2>1. CASE j = i
    BY <2>1, <1>6, <1>7 DEF ReminderOK
  <2>2. CASE j # i
    <3>1. reminders'[j] = reminders[j]
      BY <2>2, <1>6
    <3>2. reminders[j] # NoReminder => reminders[j].notification \in NoticeIds \ {n}
      BY <1>2, ReminderOwns
    <3> QED
      BY <3>1, <3>2, <1>7, ReminderStays
  <2> QED
    BY <2>1, <2>2
<1>10. ASSUME NEW m \in NoticeIds PROVE NoticeOK(m)'
  <2>1. CASE m = n
    BY <2>1, <1>3, <1>6, <1>7 DEF NoticeOK
  <2>2. CASE m # n
    <3>1. scheduled'[m] = scheduled[m]
      BY <2>2, <1>7
    <3>2. scheduled[m] # NoReminder => scheduled[m].reminder \in ReminderIds \ {i}
      BY <1>2, NoticeOwned
    <3> QED
      BY <3>1, <3>2, <1>6, NoticeStays
  <2> QED
    BY <2>1, <2>2
<1>11. ASSUME NEW j \in ReminderIds PROVE FixOK(j)'
  <2>1. fixing[j] # NoReminder => j # i /\ fixing[j].notification \in NoticeIds \ {n}
    BY <1>2, FixOwns
  <2> QED
    BY <2>1, <1>4, <1>6, <1>7, FixOwns DEF FixOK
<1>12. NoticesHaveOwners' /\ NoticeMatchesReminder'
  BY <1>9, <1>10, <1>11, RowByRow
<1> QED
  BY <1>8, <1>12

\* The notification that is replaced is the reminder's own.
LEMMA UpdateKeeps ==
    ASSUME RemindersInvariant, NEW a \in Askers, NEW n \in NoticeIds, NEW at \in Moments,
           update_task_reminder(a, n, at)
    PROVE  RemindersInvariant'
<1> USE DEF RemindersInvariant
<1> DEFINE i == asking[a].of
           old == reminders[i].notification
<1>1. i \in ReminderIds /\ Pending(i) /\ scheduled[n] = NoReminder
  BY DEF update_task_reminder, Found, _create_reminder_notification
<1>2. /\ reminders[i] \in TaskReminder /\ old \in NoticeIds /\ old # n
      /\ scheduled[old] \in ScheduledNotice /\ scheduled[old].reminder = i
  BY <1>1, ReminderRows DEF NoticesHaveOwners, Pending, TaskReminder
<1>3. /\ reminders' = [reminders EXCEPT ![i] = Remind(at, n)]
      /\ scheduled' = [scheduled EXCEPT ![n] = Scheduling(i, at), ![old] = ExpiredNotice(@)]
      /\ UNCHANGED <<duty, fixing>>
  BY DEF update_task_reminder
<1>4. asking' \in [Askers -> Ask \cup {NotAsking}]
  BY AskingType DEF update_task_reminder
<1> HIDE DEF i, old
<1>5. \A j \in ReminderIds :
          IF j = i THEN /\ reminders'[j] # NoReminder /\ reminders'[j].notification = n
                        /\ reminders'[j].at = at /\ reminders'[j].cancelled_by = ""
          ELSE reminders'[j] = reminders[j]
  BY <1>1, <1>3, Reminded DEF RemindersTypeOK
<1>9. \A m \in NoticeIds :
          IF m = n THEN /\ scheduled'[m] # NoReminder /\ scheduled'[m].reminder = i
                        /\ scheduled'[m] = Scheduling(i, at)
          ELSE IF m = old THEN /\ scheduled'[m] # NoReminder /\ scheduled'[m].reminder = i
                               /\ scheduled'[m].expired
          ELSE scheduled'[m] = scheduled[m]
  BY <1>1, <1>2, <1>3, Scheduled, NoticeExpired DEF RemindersTypeOK
<1>6. RemindersTypeOK'
  BY <1>1, <1>2, <1>3, <1>4, Reminded, Scheduled, NoticeExpired DEF RemindersTypeOK
<1>7. ASSUME NEW j \in ReminderIds PROVE ReminderOK(j)'
  <2>1. CASE j = i
    BY <2>1, <1>5, <1>9 DEF ReminderOK
  <2>2. CASE j # i
    <3>1. reminders'[j] = reminders[j]
      BY <2>2, <1>5
    <3>2. reminders[j] # NoReminder => reminders[j].notification \in NoticeIds \ {n, old}
      BY <2>2, <1>1, <1>2, ReminderOwns
    <3> QED
      BY <3>1, <3>2, <1>9, ReminderStays
  <2> QED
    BY <2>1, <2>2
<1>8. ASSUME NEW m \in NoticeIds PROVE NoticeOK(m)'
  <2>1. CASE m = n
    BY <2>1, <1>1, <1>5, <1>9 DEF NoticeOK
  <2>2. CASE m = old
    BY <2>2, <1>1, <1>2, <1>5, <1>9 DEF NoticeOK
  <2>3. CASE m \notin {n, old}
    <3>1. scheduled'[m] = scheduled[m]
      BY <2>3, <1>9
    <3>2. CASE scheduled[m] # NoReminder /\ scheduled[m].reminder = i
      <4>1. scheduled[m].expired
        BY <2>3, <3>2, NoticeOwned DEF old
      <4> QED
        BY <3>1, <3>2, <4>1, <1>1, <1>5 DEF NoticeOK
    <3>3. CASE scheduled[m] # NoReminder => scheduled[m].reminder # i
      <4>1. scheduled[m] # NoReminder => scheduled[m].reminder \in ReminderIds \ {i}
        BY <3>3, NoticeOwned
      <4> QED
        BY <3>1, <4>1, <1>5, NoticeStays
    <3> QED
      BY <3>2, <3>3
  <2> QED
    BY <2>1, <2>2, <2>3
<1>10. ASSUME NEW j \in ReminderIds PROVE FixOK(j)'
  <2> SUFFICES ASSUME fixing[j] # NoReminder
               PROVE  /\ reminders'[j] # NoReminder
                      /\ scheduled'[fixing[j].notification] # NoReminder
                      /\ scheduled'[fixing[j].notification].reminder = j
    BY <1>3 DEF FixOK
  <2>1. reminders'[j] # NoReminder
    BY <1>5, FixOwns
  <2>2. fixing[j].notification \in NoticeIds \ {n}
    BY <1>1, FixOwns
  <2>3. fixing[j].notification = old => j = i
    BY <1>2, FixOwns
  <2> QED
    BY <2>1, <2>2, <2>3, <1>9, FixOwns
<1>11. NoticesHaveOwners' /\ NoticeMatchesReminder'
  BY <1>7, <1>8, <1>10, RowByRow
<1> QED
  BY <1>6, <1>11

\* Reminders are cancelled, and notifications of theirs expired: the ones to come,
\* unless the command does it.
LEMMA CancelRows ==
    ASSUME RemindersInvariant,
           NEW ids \in SUBSET ReminderIds, NEW old \in SUBSET NoticeIds,
           NEW by \in {"user", "command"},
           \A i \in ids : /\ reminders[i] # NoReminder
                          /\ by = "command" \/ reminders[i].notification \in old,
           \A m \in old : scheduled[m] # NoReminder /\ scheduled[m].reminder \in ids,
           reminders' = [i \in ReminderIds |->
               IF i \in ids THEN CancelledReminder(reminders[i], by) ELSE reminders[i]],
           scheduled' = [m \in NoticeIds |->
               IF m \in old THEN ExpiredNotice(scheduled[m]) ELSE scheduled[m]],
           \A j \in ReminderIds : fixing'[j] \in {fixing[j], NoReminder}
    PROVE  /\ reminders' \in [ReminderIds -> TaskReminder \cup {NoReminder}]
           /\ scheduled' \in [NoticeIds -> ScheduledNotice \cup {NoReminder}]
           /\ NoticesHaveOwners' /\ NoticeMatchesReminder'
<1>1. \A j \in ReminderIds :
          IF j \in ids THEN /\ reminders'[j] \in TaskReminder /\ reminders'[j] # NoReminder
                            /\ reminders'[j].notification = reminders[j].notification
                            /\ reminders'[j].cancelled_by = by
          ELSE reminders'[j] = reminders[j]
  <2>1. ASSUME NEW j \in ids
        PROVE  /\ reminders'[j] = CancelledReminder(reminders[j], by)
               /\ reminders[j] \in TaskReminder
    BY ReminderOwns
  <2> QED
    BY <2>1, ReminderCancelled
<1>2. \A m \in NoticeIds :
          IF m \in old THEN /\ scheduled'[m] \in ScheduledNotice /\ scheduled'[m] # NoReminder
                            /\ scheduled'[m].expired
                            /\ scheduled'[m].reminder = scheduled[m].reminder
          ELSE scheduled'[m] = scheduled[m]
  BY NoticeOwned, NoticeExpired
<1>3. reminders' \in [ReminderIds -> TaskReminder \cup {NoReminder}]
  BY <1>1 DEF RemindersInvariant, RemindersTypeOK
<1>4. scheduled' \in [NoticeIds -> ScheduledNotice \cup {NoReminder}]
  BY <1>2 DEF RemindersInvariant, RemindersTypeOK
<1>5. ASSUME NEW j \in ReminderIds PROVE ReminderOK(j)'
  <2>1. CASE j \in ids
    <3>1. /\ reminders'[j].notification = reminders[j].notification
          /\ reminders'[j].cancelled_by # ""
      BY <2>1, <1>1
    <3>2. /\ reminders[j].notification \in NoticeIds
          /\ scheduled[reminders[j].notification] # NoReminder
          /\ scheduled[reminders[j].notification].reminder = j
      BY <2>1, ReminderOwns
    <3>3. /\ scheduled'[reminders[j].notification] # NoReminder
          /\ scheduled'[reminders[j].notification].reminder = j
      BY <3>2, <1>2
    <3> QED
      BY <3>1, <3>3 DEF ReminderOK
  <2>2. CASE j \notin ids
    <3>1. reminders'[j] = reminders[j]
      BY <2>2, <1>1
    <3>2. reminders[j] # NoReminder => reminders[j].notification \in NoticeIds \ old
      <4> SUFFICES ASSUME reminders[j] # NoReminder
                   PROVE  reminders[j].notification \in NoticeIds \ old
        OBVIOUS
      <4>1. /\ reminders[j].notification \in NoticeIds
            /\ scheduled[reminders[j].notification].reminder = j
        BY ReminderOwns
      <4> QED
        BY <2>2, <4>1
    <3> QED
      BY <3>1, <3>2, <1>2, ReminderStays
  <2> QED
    BY <2>1, <2>2
<1>6. ASSUME NEW m \in NoticeIds PROVE NoticeOK(m)'
  <2> DEFINE k == scheduled[m].reminder
  <2>1. scheduled[m] # NoReminder => k \in ReminderIds /\ reminders'[k] # NoReminder
    BY <1>1, NoticeOwned
  <2>2. CASE m \in old
    BY <2>1, <2>2, <1>2 DEF NoticeOK
  <2>3. CASE m \notin old /\ k \notin ids
    BY <2>1, <2>3, <1>1, <1>2, NoticeStays
  <2>4. CASE m \notin old /\ k \in ids /\ scheduled[m] # NoReminder
    <3>1. scheduled'[m] = scheduled[m]
      BY <2>4, <1>2
    <3>2. /\ reminders'[k].notification = reminders[k].notification
          /\ reminders'[k].cancelled_by = by
      BY <2>4, <1>1
    <3>3. ~scheduled[m].expired => reminders[k].notification = m
      BY <2>4, NoticeOwned
    <3>4. ~scheduled[m].expired => by = "command"
      BY <2>4, <3>3
    <3> QED
      BY <2>1, <2>4, <3>1, <3>2, <3>3, <3>4 DEF NoticeOK
  <2>5. CASE m \notin old /\ scheduled[m] = NoReminder
    BY <2>5, <1>2 DEF NoticeOK
  <2> QED
    BY <2>2, <2>3, <2>4, <2>5
<1>7. ASSUME NEW j \in ReminderIds PROVE FixOK(j)'
  <2> SUFFICES ASSUME fixing[j] # NoReminder
               PROVE  /\ reminders'[j] # NoReminder
                      /\ scheduled'[fixing[j].notification] # NoReminder
                      /\ scheduled'[fixing[j].notification].reminder = j
    BY DEF FixOK
  <2>1. reminders'[j] # NoReminder
    BY <1>1, FixOwns
  <2> QED
    BY <2>1, <1>2, FixOwns
<1>8. NoticesHaveOwners' /\ NoticeMatchesReminder'
  BY <1>5, <1>6, <1>7, RowByRow
<1> QED
  BY <1>3, <1>4, <1>8

LEMMA CancelKeeps ==
    ASSUME RemindersInvariant, NEW a \in Askers, NEW ids \in SUBSET Found(a),
           Cancel(ids, "user"), UNCHANGED fixing
    PROVE  /\ reminders' \in [ReminderIds -> TaskReminder \cup {NoReminder}]
           /\ scheduled' \in [NoticeIds -> ScheduledNotice \cup {NoReminder}]
           /\ NoticesHaveOwners' /\ NoticeMatchesReminder'
<1> DEFINE old == {reminders[i].notification : i \in ids}
<1>1. \A i \in ids : i \in ReminderIds /\ reminders[i] # NoReminder
  BY DEF Found, Pending
<1>2. \A m \in old : m \in NoticeIds /\ scheduled[m] # NoReminder /\ scheduled[m].reminder \in ids
  <2>1. \A i \in ids : /\ reminders[i].notification \in NoticeIds
                       /\ scheduled[reminders[i].notification] # NoReminder
                       /\ scheduled[reminders[i].notification].reminder = i
    BY <1>1, ReminderOwns
  <2> QED
    BY <2>1
<1>3. scheduled' = [m \in NoticeIds |->
          IF m \in old THEN ExpiredNotice(scheduled[m]) ELSE scheduled[m]]
  BY DEF Cancel
<1>4. \A i \in ids : reminders[i].notification \in old
  OBVIOUS
<1> HIDE DEF old
<1>5. reminders' = [i \in ReminderIds |->
          IF i \in ids THEN CancelledReminder(reminders[i], "user") ELSE reminders[i]]
  BY DEF Cancel
<1>6. ids \in SUBSET ReminderIds /\ old \in SUBSET NoticeIds
  BY <1>1, <1>2
<1> QED
  BY <1>1, <1>2, <1>3, <1>4, <1>5, <1>6, CancelRows

LEMMA CancelOneKeeps ==
    ASSUME RemindersInvariant, NEW a \in Askers, cancel_task_reminder(a)
    PROVE  RemindersInvariant'
<1>1. {asking[a].of} \in SUBSET Found(a)
  BY DEF cancel_task_reminder
<1>2. Cancel({asking[a].of}, "user") /\ Finished(a) /\ UNCHANGED <<duty, fixing>>
  BY DEF cancel_task_reminder
<1> QED
  BY <1>1, <1>2, CancelKeeps, AskingType DEF RemindersInvariant, RemindersTypeOK

LEMMA FinishKeeps ==
    ASSUME RemindersInvariant, NEW a \in Askers, cancel_active_task_reminders(a)
    PROVE  RemindersInvariant'
<1>1. Cancel(Found(a), "user") /\ Finished(a) /\ UNCHANGED fixing
  BY DEF cancel_active_task_reminders
<1>2. duty' \in Duty
  BY DEF cancel_active_task_reminders, RemindersInvariant, RemindersTypeOK, Duty
<1> QED
  BY <1>1, <1>2, CancelKeeps, AskingType DEF RemindersInvariant, RemindersTypeOK

LEMMA DeadlineKeeps ==
    ASSUME RemindersInvariant, NEW a \in Askers, NEW due \in Moments,
           cancel_reminders_after_batch_due_at(a, due)
    PROVE  RemindersInvariant'
<1> DEFINE late == {i \in Found(a) : reminders[i].at > due}
<1>1. Cancel(late, "user") /\ Finished(a) /\ UNCHANGED fixing
  BY DEF cancel_reminders_after_batch_due_at
<1>2. duty' \in Duty
  BY DEF cancel_reminders_after_batch_due_at, RemindersInvariant, RemindersTypeOK, Duty
<1>3. late \in SUBSET Found(a)
  OBVIOUS
<1> HIDE DEF late
<1> QED
  BY <1>1, <1>2, <1>3, CancelKeeps, AskingType DEF RemindersInvariant, RemindersTypeOK

\* The command works on what it has read; a notification it expires has the owner
\* it had then.
LEMMA RepairKeeps ==
    ASSUME RemindersInvariant, repair_reminders
    PROVE  RemindersInvariant'
<1> DEFINE ids == {i \in ReminderIds : fixing[i] # NoReminder}
           old == {m \in NoticeIds :
                      \E i \in ReminderIds : fixing[i] # NoReminder /\ fixing[i].notification = m}
<1>1. \A i \in ids : reminders[i] # NoReminder
  BY FixOwns
<1>2. \A m \in old : scheduled[m] # NoReminder /\ scheduled[m].reminder \in ids
  BY FixOwns
<1>3. /\ reminders' = [i \in ReminderIds |->
             IF i \in ids THEN CancelledReminder(reminders[i],
             "command") ELSE reminders[i]]
      /\ scheduled' = [m \in NoticeIds |->
             IF m \in old THEN ExpiredNotice(scheduled[m]) ELSE scheduled[m]]
  BY DEF repair_reminders
<1>4. \A j \in ReminderIds : fixing'[j] \in {fixing[j], NoReminder}
  BY DEF repair_reminders, Nothing
<1>5. ids \in SUBSET ReminderIds /\ old \in SUBSET NoticeIds
  BY <1>2
<1> HIDE DEF ids, old
<1>6. /\ reminders' \in [ReminderIds -> TaskReminder \cup {NoReminder}]
      /\ scheduled' \in [NoticeIds -> ScheduledNotice \cup {NoReminder}]
      /\ NoticesHaveOwners' /\ NoticeMatchesReminder'
  BY <1>1, <1>2, <1>3, <1>4, <1>5, CancelRows
<1> QED
  BY <1>6 DEF repair_reminders, Nothing, RemindersInvariant, RemindersTypeOK

LEMMA FindKeeps == ASSUME RemindersInvariant, find_invalid PROVE RemindersInvariant'
<1> USE DEF RemindersInvariant, find_invalid
<1>1. RemindersTypeOK'
  BY DEF RemindersTypeOK
<1>2. NoticesHaveOwners'
  BY DEF NoticesHaveOwners, invalid_reminders, Pending
<1>3. NoticeMatchesReminder'
  BY DEF NoticeMatchesReminder, Pending
<1> QED
  BY <1>1, <1>2, <1>3

LEMMA RollBackKeeps ==
    ASSUME RemindersInvariant, NEW a \in Askers, roll_back(a)
    PROVE  RemindersInvariant'
  BY RowsUndisturbed, AskingType DEF roll_back, RemindersInvariant, RemindersTypeOK

LEMMA NoticeKeeps ==
    ASSUME RemindersInvariant, NEW event, _send_lifecycle_notification(event)
    PROVE  RemindersInvariant'
  BY RowsUndisturbed DEF _send_lifecycle_notification, RemindersInvariant, RemindersTypeOK

LEMMA RemindersStep == RemindersInvariant /\ [RemindersNext]_reminderVars => RemindersInvariant'
<1> SUFFICES ASSUME RemindersInvariant, [RemindersNext]_reminderVars PROVE RemindersInvariant'
  OBVIOUS
<1>1. CASE RemindersNext
  BY <1>1, BeginKeeps, CreateKeeps, UpdateKeeps, CancelOneKeeps, FinishKeeps,
     DeadlineKeeps, RollBackKeeps, FindKeeps, RepairKeeps, NoticeKeeps DEF RemindersNext
<1>2. CASE UNCHANGED reminderVars
  BY <1>2, RowsUndisturbed DEF reminderVars, RemindersInvariant, RemindersTypeOK
<1> QED
  BY <1>1, <1>2

\* Every notification belongs to one reminder.
THEOREM RemindersInvariance == RemindersSpec => []RemindersInvariant
  BY RemindersStart, RemindersStep, PTL DEF RemindersSpec

\* Whatever is rescheduled, cancelled and repaired at once, the notifications to
\* come are those of the active reminders, at their times.
THEOREM RemindersNoticed == RemindersSpec => []NoticeMatchesReminder
<1>1. RemindersInvariant => NoticeMatchesReminder
  BY DEF RemindersInvariant
<1> QED
  BY <1>1, RemindersInvariance, PTL

==============================================================================
