---------------------------- MODULE ReminderNotices ----------------------------
(***************************************************************************)
(* The scheduled notification of each reminder of a personal task          *)
(* (tasks/services/reminders.py), next to the command that repairs         *)
(* reminders without locking them (check_task_integrity), and the notices  *)
(* that tell others what happened to a task                                *)
(* (tasks/services/task_notifications.py).                                 *)
(*                                                                         *)
(* Every request is one transaction that locks the reminders it works on.  *)
(* A SELECT ... FOR UPDATE OF self that has waited returns the reminder of *)
(* now joined to the notification of its snapshot: when the reminder was   *)
(* rescheduled in between the join finds nothing.                          *)
(***************************************************************************)
EXTENDS Integers

CONSTANTS
    ReminderIds,  \* reminders of one task
    NoticeIds,    \* notifications scheduled for them; each is created once
    Askers,       \* requests in progress at a time
    LastMoment,   \* reminders and deadlines are at 1 .. LastMoment
    NoReminder

Moments == 1 .. LastMoment

VARIABLES
    reminders, \* TaskReminder rows
    scheduled, \* their Notification rows
    duty,      \* the task: whether it is active, and the deadline of its batch
    asking,    \* what each request is doing
    fixing,    \* the reminders the command has found, as it read them
    notices    \* lifecycle notices: waiting for their transaction's callback, or sent

reminderVars == <<reminders, scheduled, duty, asking, fixing, notices>>

\* cancelled_by is null in a row that was cancelled by the command.
TaskReminder == [at : Moments, cancelled_by : {"", "user", "command"}, notification : NoticeIds]
ScheduledNotice == [at : Moments, reminder : ReminderIds, expired : BOOLEAN]

Duty == [active : BOOLEAN, due_at : Moments]
NotAsking == [op |-> "NONE"]
Seen == [ReminderIds -> NoticeIds \cup {NoReminder}]
Ask == [op : {"CREATE", "UPDATE", "CANCEL"}, of : ReminderIds, duty : Duty, seen : Seen]
       \cup [op : {"FINISH", "DEADLINE"}, of : {NoReminder}, duty : Duty, seen : Seen]
Nothing == [i \in ReminderIds |-> NoReminder]

ASSUME ReminderNoticesAssumption ==
    /\ LastMoment \in Nat
    /\ NoReminder \notin TaskReminder \cup ScheduledNotice \cup NoticeIds \cup ReminderIds

RemindersTypeOK ==
    /\ reminders \in [ReminderIds -> TaskReminder \cup {NoReminder}]
    /\ scheduled \in [NoticeIds -> ScheduledNotice \cup {NoReminder}]
    /\ duty \in Duty
    /\ asking \in [Askers -> Ask \cup {NotAsking}]
    /\ fixing \in [ReminderIds -> TaskReminder \cup {NoReminder}]

CancelledReminder(row, by) ==
    [at |-> row.at, cancelled_by |-> by, notification |-> row.notification]
ExpiredNotice(row) == [at |-> row.at, reminder |-> row.reminder, expired |-> TRUE]

Pending(i) == reminders[i] # NoReminder /\ reminders[i].cancelled_by = ""

-----------------------------------------------------------------------------
(* Operations of the services, each in one transaction.                    *)

\* The SELECT takes its snapshot, and waits for the locks.  Completing a task locks
\* it first, which keeps creations and other completions out; the edit of a deadline
\* locks the batch only.
begin(a, op, i) ==
    /\ asking[a] = NotAsking
    /\ op \in {"FINISH", "DEADLINE"} => \A b \in Askers : asking[b].op # op
    /\ asking' = [asking EXCEPT ![a] =
           [op |-> op, of |-> i, duty |-> duty,
            seen |-> [j \in ReminderIds |->
                          IF Pending(j) THEN reminders[j].notification ELSE NoReminder]]]
    /\ UNCHANGED <<reminders, scheduled, duty, fixing, notices>>

\* The active reminders the SELECT has found, now that they are locked.
Found(a) == {i \in ReminderIds : asking[a].seen[i] # NoReminder /\ Pending(i)}

\* What is joined to one of them.
Joined(a, i) == reminders[i].notification = asking[a].seen[i]

Finished(a) == asking' = [asking EXCEPT ![a] = NotAsking]

_validate_reminder_task(task, at) == task.active /\ at <= task.due_at

\* notify: the next new notification, scheduled for the time of the reminder.
_create_reminder_notification(n) ==
    scheduled[n] = NoReminder /\ \A m \in NoticeIds : m < n => scheduled[m] # NoReminder

Scheduling(i, at) == [at |-> at, reminder |-> i, expired |-> FALSE]
Remind(at, n) == [at |-> at, cancelled_by |-> "", notification |-> n]

\* The task is locked, the deadline is that of the snapshot.
create_task_reminder(a, n, at) ==
    LET i == asking[a].of IN
    /\ asking[a].op = "CREATE" /\ \A b \in Askers : asking[b].op # "FINISH"
    /\ reminders[i] = NoReminder /\ _create_reminder_notification(n)
    /\ _validate_reminder_task([active |-> duty.active, due_at |-> asking[a].duty.due_at], at)
    /\ ~ \E j \in ReminderIds : Pending(j) /\ reminders[j].at = at
    /\ reminders' = [reminders EXCEPT ![i] = Remind(at, n)]
    /\ scheduled' = [scheduled EXCEPT ![n] = Scheduling(i, at)]
    /\ Finished(a) /\ UNCHANGED <<duty, fixing, notices>>

\* A mutation of update_task_reminder: a reminder without a joined notification has
\* nothing to cancel.
update_without_notice(a, n, at) ==
    LET i == asking[a].of IN
    /\ asking[a].op = "UPDATE" /\ i \in Found(a)
    /\ _create_reminder_notification(n)
    /\ _validate_reminder_task(asking[a].duty, at) /\ at # reminders[i].at
    /\ reminders' = [reminders EXCEPT ![i] = Remind(at, n)]
    /\ scheduled' = [m \in NoticeIds |->
           IF m = n THEN Scheduling(i, at)
           ELSE IF m = reminders[i].notification /\ Joined(a, i)
           THEN ExpiredNotice(scheduled[m]) ELSE scheduled[m]]
    /\ Finished(a) /\ UNCHANGED <<duty, fixing, notices>>

\* The task is not locked: it is validated as the snapshot has it.
\* cancel_scheduled_notification(None) raises: the request fails as a whole.
update_task_reminder(a, n, at) ==
    LET i == asking[a].of IN
    /\ asking[a].op = "UPDATE" /\ i \in Found(a)
    /\ _create_reminder_notification(n)
    /\ _validate_reminder_task(asking[a].duty, at) /\ at # reminders[i].at
    /\ Joined(a, i)
    /\ reminders' = [reminders EXCEPT ![i] = Remind(at, n)]
    /\ scheduled' = [scheduled EXCEPT ![n] = Scheduling(i, at),
                                      ![reminders[i].notification] = ExpiredNotice(@)]
    /\ Finished(a) /\ UNCHANGED <<duty, fixing, notices>>

\* Cancels the reminders of a set, and expires their notifications.
Cancel(ids, by) ==
    /\ reminders' = [i \in ReminderIds |->
           IF i \in ids THEN CancelledReminder(reminders[i], by) ELSE reminders[i]]
    /\ scheduled' = [n \in NoticeIds |->
           IF \E i \in ids : reminders[i].notification = n
           THEN ExpiredNotice(scheduled[n]) ELSE scheduled[n]]

cancel_task_reminder(a) ==
    LET i == asking[a].of IN
    /\ asking[a].op = "CANCEL" /\ i \in Found(a)
    /\ Joined(a, i)
    /\ Cancel({i}, "user")
    /\ Finished(a) /\ UNCHANGED <<duty, fixing, notices>>

\* The task is completed or cancelled.  Its lock keeps new reminders out.
cancel_active_task_reminders(a) ==
    /\ asking[a].op = "FINISH" /\ duty.active
    /\ \A i \in Found(a) : Joined(a, i)
    /\ Cancel(Found(a), "user")
    /\ duty' = [active |-> FALSE, due_at |-> duty.due_at]
    /\ notices' = [notices EXCEPT !.waiting = @ \cup {"finished"}]
    /\ Finished(a) /\ UNCHANGED fixing

\* The deadline moves; the reminders after it are cancelled.
cancel_reminders_after_batch_due_at(a, due) ==
    LET late == {i \in Found(a) : reminders[i].at > due} IN
    /\ asking[a].op = "DEADLINE" /\ due # duty.due_at
    /\ \A i \in late : Joined(a, i)
    /\ Cancel(late, "user")
    /\ duty' = [active |-> duty.active, due_at |-> due]
    /\ notices' = [notices EXCEPT !.waiting = @ \cup {"updated"}]
    /\ Finished(a) /\ UNCHANGED fixing

\* The request is refused, fails, or is chosen as a deadlock's victim.
roll_back(a) ==
    /\ asking[a] # NotAsking
    /\ Finished(a)
    /\ UNCHANGED <<reminders, scheduled, duty, fixing, notices>>

-----------------------------------------------------------------------------
(* check_task_integrity --fix.                                             *)

invalid_reminders ==
    {i \in ReminderIds : Pending(i) /\ ~_validate_reminder_task(duty, reminders[i].at)}

find_invalid ==
    /\ fixing = Nothing /\ invalid_reminders # {}
    /\ fixing' = [i \in ReminderIds |->
           IF i \in invalid_reminders THEN reminders[i] ELSE NoReminder]
    /\ UNCHANGED <<reminders, scheduled, duty, asking, notices>>

\* The rows are saved one by one, which takes their locks until the end, and the
\* notifications that were read with them are expired.
repair_reminders ==
    /\ fixing # Nothing
    /\ reminders' = [i \in ReminderIds |->
           IF fixing[i] # NoReminder THEN CancelledReminder(reminders[i], "command")
           ELSE reminders[i]]
    /\ scheduled' = [n \in NoticeIds |->
           IF \E i \in ReminderIds : fixing[i] # NoReminder /\ fixing[i].notification = n
           THEN ExpiredNotice(scheduled[n]) ELSE scheduled[n]]
    /\ fixing' = Nothing
    /\ UNCHANGED <<duty, asking, notices>>

-----------------------------------------------------------------------------
(* Lifecycle notices, sent by the on_commit callback of the transaction.   *)

\* An exception of notify is logged and the notice is gone, as with the process.
_send_lifecycle_notification(event) ==
    /\ event \in notices.waiting
    /\ \/ notices' = [waiting |-> notices.waiting \ {event}, sent |-> notices.sent \cup {event}]
       \/ notices' = [notices EXCEPT !.waiting = @ \ {event}]
    /\ UNCHANGED <<reminders, scheduled, duty, asking, fixing>>

-----------------------------------------------------------------------------
RemindersInit ==
    /\ reminders = [i \in ReminderIds |-> NoReminder]
    /\ scheduled = [n \in NoticeIds |-> NoReminder]
    /\ duty \in [active : {TRUE}, due_at : Moments]
    /\ asking = [a \in Askers |-> NotAsking]
    /\ fixing = Nothing
    /\ notices = [waiting |-> {}, sent |-> {}]

RemindersNext ==
    \/ \E a \in Askers :
           \/ \E op \in {"UPDATE", "CANCEL"}, i \in {i \in ReminderIds : Pending(i)} : begin(a, op, i)
           \/ \E op \in {"FINISH", "DEADLINE"} : begin(a, op, NoReminder)
           \/ \E i \in {i \in ReminderIds : reminders[i] = NoReminder} : begin(a, "CREATE", i)
           \/ \E n \in NoticeIds, at \in Moments :
                  create_task_reminder(a, n, at) \/ update_task_reminder(a, n, at)
           \/ cancel_task_reminder(a) \/ cancel_active_task_reminders(a)
           \/ \E due \in Moments : cancel_reminders_after_batch_due_at(a, due)
           \/ roll_back(a)
    \/ find_invalid \/ repair_reminders
    \/ \E event \in {"finished", "updated"} : _send_lifecycle_notification(event)

RemindersSpec == RemindersInit /\ [][RemindersNext]_reminderVars

-----------------------------------------------------------------------------
(* Properties.                                                             *)

\* An active reminder has one notification to come, at its time, and no other
\* notification of a reminder is to come; but for a reminder the command cancelled,
\* whose notification may have been replaced after the command had read it.
NoticeMatchesReminder ==
    /\ \A i \in ReminderIds : Pending(i) =>
           scheduled[reminders[i].notification]
               = Scheduling(i, reminders[i].at)
    /\ \A n \in NoticeIds : scheduled[n] # NoReminder /\ ~scheduled[n].expired =>
           LET reminder == reminders[scheduled[n].reminder]
           IN reminder.notification = n /\ reminder.cancelled_by \in {"", "command"}

\* It is inductive with this: a notification belongs to one reminder, whether it is
\* the reminder's now or was when the command read it.
NoticesHaveOwners ==
    /\ \A i \in ReminderIds : reminders[i] # NoReminder =>
           /\ scheduled[reminders[i].notification] # NoReminder
           /\ scheduled[reminders[i].notification].reminder = i
    /\ \A n \in NoticeIds : scheduled[n] # NoReminder =>
           reminders[scheduled[n].reminder] # NoReminder
    /\ \A i \in ReminderIds : fixing[i] # NoReminder =>
           /\ reminders[i] # NoReminder
           /\ scheduled[fixing[i].notification] # NoReminder
           /\ scheduled[fixing[i].notification].reminder = i

RemindersInvariant == RemindersTypeOK /\ NoticesHaveOwners /\ NoticeMatchesReminder

=============================================================================
