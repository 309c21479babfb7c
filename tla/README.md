# Verification of the Holans backend

This directory models the parts of the Holans backend (Django, PostgreSQL) whose
correctness depends on the order in which requests, workers and administrators
act. It holds TLA+ modules translated from the source, configurations that check
them with TLC on small instances, and theorems that TLAPS proves for every
instance. `PROJECT.json` lists the runs, the mutants that show each property can
fail, the source lines of every definition, the hazards and the theorems.

1. The system
2. What is modelled, and what the runs show
3. Disagreements and observations
4. What is proved
5. Not modelled
6. What could be added

## 1. The system

Requests are served by several processes. Most services run in one
`transaction.atomic` block of PostgreSQL at READ COMMITTED, with `SELECT ... FOR
UPDATE` on the rows they are about to change; outside such blocks every statement
commits by itself (`ATOMIC_REQUESTS` is not set). Management commands run from
cron beside the requests. There is no message broker: work that must happen after
a commit is an `on_commit` callback, a row another process polls, or both.

| Component | State | Operations | Talks to | Hard behaviour | Correct when |
| --- | --- | --- | --- | --- | --- |
| tasks: lifecycle | `TaskBatch`, `Task`: status, cancellation, archiving, deadline | progress, complete, cancel, archive, restore, of a task and of a batch; edit a batch | reminders, activities, notifications | two requests on one batch and on its tasks; joined rows that were never locked; deadlock | no open work under a cancelled or archived batch; an outcome is never rewritten |
| tasks: reminders | `TaskReminder`: instant, cancelled; its `Notification` | create, move, cancel; cancelled when the task ends or the deadline moves; repaired by a command | scheduled notifications | reminder changes against task and batch changes; a row locked with an old notification joined to it | no reminder for finished work; a pending reminder has its notification scheduled |
| tasks: assignments, comments, access, API | batches, tasks, comments; profiles and leaderships they are judged by | assign, comment, edit, remove, archive, restore | accounts | staff who move or lose roles after an assignment | whoever may change a row also finds it |
| notifications: outbox | `NotificationDelivery`: status, attempts, lock, next attempt | claim, send, mark, release timed-out locks, batch, inline callback, retry, cancel | providers, notifications | crashes between claim and mark, lock timeouts, blind marks, manual retries, cancellation | copies are accounted for; no early failure; cancelled is not attempted; everything settles |
| notifications: creation, inbox, cleanup | `Notification`, recipients, dashboard deliveries | notify, cancel, see, read, unread, read all, archive, dismiss, clean up | outbox, every other application | two statements per request without a transaction; concurrent calls with one key | a cancelled notification stays hidden |
| ledger: records, approval, workflow | record status, revisions, approvals, intents, review tasks | create, submit, decide, revise, post, reverse, process intents | tasks, notifications | intents processed late, twice or out of order | the approved content is what is posted, once; reviews end |
| ledger: client settlement, periods | records, client movements, sources, allocations, refunds, closed periods | post, allocate, release, refund, reverse, close, reopen | procurement | money moves between invoices in any order and on any past date; rounding | money is not used twice; two accounts of it agree; closed history is fixed |
| ledger: obligations, advances, tax | bills, expenses, advances, remittances and what is paid, returned, cleared; withholding authorizations | draft, post, reverse; authorize, revoke | settlement | chains of dependent records; an authorization revoked while a deduction is posted | control accounts agree with documents; a deduction is authorized on its day |
| ledger, procurement: idempotent operations | `LedgerOperation`, `Operation`, exported documents and files | begin, execute, save, replay, refuse | a file store | repeated requests, failures between store and commit | one effect per key; a reusable export is complete |
| procurement: fulfilment and revenue | orders, attempts, purchases, receipts, deliveries, outcomes, resolutions; invoice links, credits, recognitions | order, buy, receive, deliver, record the answer, resolve; bill, credit, recognise | ledger | long sequences of partial quantities | no quantity counted twice; revenue only for accepted goods |
| procurement: quotations, numbering | drafts, revisions, issues, orders, serials, client codes, expiries | submit, revise, approve, issue, order, expire | ledger | two documents at once; two runs of a command | serials unique and without gaps; what is ordered was sent; an expiry is recorded once |
| crm: parties | parties, roles, contacts, places, affiliations, merge records | create, edit, status, archive, delete, merge | procurement, ledger | merges validated on rows seen before the locks; PATCH of a row read before | a merge loses nothing; a tombstone leads to a survivor |
| crm: documents | rows, files, expiry warnings | upload, edit, delete, warn | a store, notifications | a store outside the transaction | an active row has its file |
| accounts: sessions, resets | credentials, reset codes, tokens, blacklist | request, verify and confirm a code; login, renewal, logout; edit a user | e-mail | every statement commits by itself | a spent code stays spent; a logout is whole |
| accounts: audit summaries | `AuditLog`, cached summaries and insights | write, summarise, cache | cache, an AI provider | several queries without a transaction | parts within the total |
| accounts: users, hierarchy | profiles, reporting lines, leaderships, roles | edit, lead | tasks | whole rows saved after unlocked checks | no circle without a race |

How they interact: ledger approvals create and close tasks (`integrations/workflow.py`),
tasks own reminders, each reminder owns a scheduled notification, every component
calls `notify`, and the outbox carries external deliveries. Procurement numbers its
documents in the ledger's register, the ledger reads acceptance back, and both ask
the CRM whether a party may be used.

## 2. What is modelled, and what the runs show

| Module | Component | Runs | Proofs |
| --- | --- | --- | --- |
| `TaskLifecycle` | tasks: lifecycle, reminders against them | `tasks` | `TaskProofs` |
| `ReminderNotices` | tasks: reminders with their notifications, repair command, lifecycle notices | `services` | `TaskProofs` |
| `Organisation` | tasks: access, assignments, comments; accounts: hierarchy | `services` | `PeopleProofs` |
| `DeliveryOutbox` | notifications: outbox | `overlap`, `settle` | `NotificationProofs` |
| `Inbox` | notifications: creation, inbox, cleanup | `services` | `NotificationProofs` |
| `RecordApproval` | ledger: records, approval, workflow | `approval`, `retries` | `RecordApprovalProofs` |
| `Settlement` | ledger: client settlement, periods | `balance`, `split` | `LedgerProofs` |
| `Obligations` | ledger: bills, expenses, advances, remittances | `services` | `LedgerProofs` |
| `Deductions` | ledger: withholding authorizations | `services` | `LedgerProofs` |
| `Operations` | ledger and procurement: idempotent requests, exports | `services` | `LedgerProofs` |
| `Fulfilment` | procurement: fulfilment, billing, revenue | `fulfilment` | `FulfilmentProofs` |
| `OrderBalance` | what `Fulfilment` promises about quantities (abstract) | `fulfilment`, as `KeepsBalance` | `FulfilmentProofs` |
| `Quotations` | procurement: requests, quotations, numbering, expiry | `quotations` | `QuotationsProofs` |
| `Parties` | crm: parties, merges | `services`, `tombstone` | `PeopleProofs` |
| `PartyDocuments` | crm: documents, warnings | `services`, `warning` | `PeopleProofs` |
| `Sessions` | accounts: resets, tokens | `services` | `PeopleProofs` |
| `AuditSummaries` | accounts: audit summaries | `services` | `PeopleProofs` |

`Sums` holds the lemmas about sums over rows that the ledger and fulfilment proofs
share. `MC...` modules give the constants values. `MCServices` is the disjoint union of
eleven small components: a behaviour is one of *one* of them (`component`), so that
their state spaces add instead of multiplying. It says nothing about their
interaction; where components share state they share a module.

What all of them rely on, of PostgreSQL and Django: a row lock is held until COMMIT
or ROLLBACK; a query that waited for a lock tests the newest version of the locked
row again, and keeps the joined rows of its snapshot; foreign keys are deferred; a
unique key makes a second insert wait for the first transaction; `save()` without
`update_fields` writes every column that was read, and `save(update_fields=...)` of
a row that is gone fails. A service that holds one row, the same for all services
on that data, from its checks to COMMIT is one action; whatever is read before such a
lock, or written after it, is an action of its own.

No fairness is assumed but in `FairSpec` of `DeliveryOutbox`, `RecordApproval` and
`Quotations`, each for what cron starts again and again: users may stop at any time.
Runs say `CHECK_DEADLOCK FALSE` where a behaviour may end because its bounds on
requests or rows are used up.

### Runs

| Run | Bounds | Shows |
| --- | --- | --- |
| `tasks` | 1 batch, 2 tasks, 1 reminder, 2 requests at a time, instants 0..2 | no open task under a cancelled or archived batch, no reminder on a finished task, outcomes are final |
| `overlap` | 1 delivery, 2 workers, 1 administrator, 2 attempts, times 0..3, lock timeout 0 | `CopiesExplained`, `FailedIsExhausted`, `CancelledIsNotAttempted` |
| `settle` | 2 deliveries, 1 worker, batches of 1, faults until 1 | every delivery settles (`Settled`) |
| `approval` | 2 records that may revise one another, a quotation, 1 approver, 2 post requests, versions to 2 | a revision chain is posted at most once and as approved; no review task is left behind |
| `retries` | 2 records, 2 approvers, 1 post request, batches of 2 | reviews of decided approvals end, undecided ones are assigned once routing is restored for good |
| `balance` | an invoice (net 2, tax 1), receipt 2, withholding 1, credit note 1, refund 1, 2 dates, 2 allocation events | the balance is what invoices owe less what sources hold; no money or tax is used twice; a reversed source settles nothing; figures as of a closed date do not change |
| `split` (violation) | an invoice with two taxed lines, receipt 5, 4 events | partial releases can make the last release, and so the reversal, impossible |
| `fulfilment` | an item of 1, 2 suppliers, quantities 1 and 2, 1 order, 2 attempts, 2 rows per table, 2 invoices, 2 postings | no order line is overfulfilled; nothing is open when nothing remains; revenue is earned; the rows implement `OrderBalance` |
| `quotations` | 2 revisions and issues, 1 order, 2 runs of the command, 2 clients that want 1 code, a financial document, times 0..1 | serials complete; orders are on quotations that were sent and valid; an expiry is recorded once, and eventually |
| `tombstone` (violation) | 4 parties, 2 requests | a stale PATCH revives a merged party |
| `warning` (violation) | 1 document, 1 user, no failures | a rescheduled expiry warning is not scheduled |
| `services` | two overlapping requests in each component, a third or fourth after them (below) | fifteen properties of ten modules |

TLC evaluates every named assumption in these runs. The type invariants and the
inductive invariants were model-checked while they were written; where a theorem
states one, the proof has replaced the run.

### TaskLifecycle

State: the rows (`batch`, `task`, `reminder`), who holds each row lock (`owner`),
and the transactions (`tx`) with what they have read. `TO_DO`, `IN_PROGRESS` and
`BLOCKED` are one status, `ACTIVE`, as no guard of these services tells them
apart once a transition is legal.

One request is a sequence of steps, as in the code: `Request*` is the first
statement with its snapshot; the guard action (`CompleteTask`, `CancelBatch`, ...)
is the moment its lock is granted, where the locked row is read again but the
joined ones keep the values of the snapshot; `LockTasks` locks the tasks of a
batch; `FindReminders` and `ClaimReminders` are the two halves of the locking query
that cancels reminders; `Commit*` writes and releases. Activity rows take their share
locks at COMMIT, which waits for whoever holds the task or batch. A statement that
locks several rows is one step. `Abort` is any failed check, a lost connection or the
victim of a deadlock; that PostgreSQL finds one is not modelled.

Why the bounds are enough: an anomaly needs two requests on one row, or two tasks
that one batch request treats differently. `MaxTime` 2 gives a deadline, a reminder
before and one after it; 0 as a deadline is NULL. The theorems cover the rest.

### ReminderNotices

State: reminders and the notifications scheduled for them, the task they belong to
(`duty`), each request with its snapshot (`asking`), what the repair command has read
(`fixing`) and the lifecycle notices that wait for a commit. `begin` is the SELECT
with its snapshot; the service action is the moment its locks are granted, and ends
the transaction. `Joined` is the case where the reminder still has the notification
of the snapshot. When it has not, the row that comes back has no notification: the
services raise, which is a rollback. `find_invalid` and `repair_reminders` are the
unlocked halves of the command. Bounds: 1 reminder, 3 notifications, 2 requests,
2 moments; two reminders were checked with the module alone.

### Organisation

State: profiles with the roles of their users, leaderships, updates in progress,
batches, tasks and comments. The permission functions of `access.py` and the
querysets of the views are operators with the same names. An update of a profile is
two steps (read and validate, save the whole row); `raced` remembers that a row was
saved that had been read before another save. Bounds: 3 staff, 2 departments, 2 changes, 1 batch, 1 comment.

### DeliveryOutbox

State: the clock, the delivery rows of one notification, its expiry, the pending
`on_commit` callbacks, the program counter and locals of each worker, and the
retry requests past their status check. Ghost variables count what the provider
acknowledged and what the rows were allowed to send; no guard reads them.

`Claim` and `CancelNotification` are one step each because both lock the
notification row (`select_for_update` without `of` locks joined tables). What is
not atomic is split: `BeginClaim` reads the clock before the lock is granted,
`SendAccepted` or `SendRaises` is the provider call, `MarkSuccess` and
`MarkFailure` are the later blind updates; `BeginRetry` and `SaveRetry` are the
check and the save of `retry_delivery`. `Crash` ends a worker anywhere. The order
of deliveries inside one batch is abstracted to a set. All processes and the
database read one clock. A copy that a provider sent while reporting an error is
not counted as acknowledged.

Fairness, only in `FairSpec`: time passes (WF on `Tick`), and every worker keeps
taking steps, as the cron schedule starts new runs and a live process goes on
(WF on `WorkerStep`). Crashes and provider failures carry no fairness and stop at
`LastFault`; after it `MaxTime` leaves room for the longest lock timeout and
back-off.

One delivery is enough for the safety run because no step reads two rows to
decide about one, except `Select`, whose competition between rows is what `settle`
checks. With a lock timeout of 0 every claim can time out under its worker.

### Inbox

State: notifications by deduplication key, recipients, dashboard deliveries, and the
requests past their reading. `notify` looks its key up and then creates, in the mode
SHARED one notification for all recipients, else one for each, in a transaction that
commits or rolls back as a whole; a cancellation is one step. A request reads a
recipient, saves its fields, then updates the delivery, in three steps. The bulk
requests and the cleanup command work on the lists they have read. Bounds: 2 keys,
3 recipients of 2 users (one has disabled the dashboard), 2 calls of `notify`,
2 requests, an item that was archived long ago.

### RecordApproval

State: each record's status, version and the record it supersedes; how often it was
posted; the approval of its revision (status, version, whether review tasks exist);
the review tasks; the unprocessed intents, oldest first; whether tasks can be routed
now; and the post requests past their first, unlocked reading of the record.

Every service of `records.py` and the two quotation services are one action, since
they hold the row they decide on to COMMIT and write the intent in the same
transaction. `post` is two: it reads the record, waits for the book, and reads it
again (`BeginPost`, `Post`). `process_one` is one step, for it locks intent and
approval and undoes everything when it raises; an attempt without effect is a
stutter. Its `on_commit` call is the action `process_one` on any intent in any order,
which may never happen; the command is `Retry` on the `Batch` oldest. Contents are
represented by the version; the notification an intent sends and its `event`, which
only words that notification, are left out. Whether settlement lets a posting or a
reversal pass is in `Settlement`; here either may be refused.

Fairness, only in `FairSpec`: an intent that stays among the oldest and can be
processed is, as the command is scheduled again and again ("use the configured
deployment scheduler") and tries each of them. No user has to act and no callback has
to run.

Two records are a record and its revision, or two independent ones, and either may be
under two posts at once. `Symmetry` permutes records and post requests, in the run
without liveness. `retries` keeps the number of approvals that may wait for routing
below `Batch`: with as many, they hold back every newer intent whose callback was
lost, so reviews of decided approvals would stay open until routing is restored. In
the deployment that takes 50 such approvals.

### Settlement

State: the status of each record, journal entries, client movements, settlement
sources in their order of creation, the append-only allocation events with their
tax rows, refund applications, the closed dates, and the sources an allocation has
read as posted before it holds the book. The client's figures (`invoice_due`,
`source_available`, `tax_collected`, `BalanceAsOf`) are operators with the names
of the functions and take the date they are asked for.

Each service is one action since each holds the currency row (`book_lock`) to
COMMIT. The exception is `allocate`, which reads the status of its source before:
`BeginAllocate` and `Allocate` are separate. Reversal includes the releases it
causes, posting a withholding or a credit note includes its automatic application.
Records start approved; their date is chosen when they are posted, which is no
restriction as nothing reads it before. One client and one currency; amounts are
minor units and proportional shares are rounded half up as in `amount`. A release
fails when its parts do not add up, or when one would be negative, which the
database refuses (`models/tax.py:131-134`). What `SettlementAssumption` says of the
contents is what `create` enforces: amounts are positive, the lines of a withholding or
credit note are lines of its invoice, and a credit note names each line once.

Amounts are 1 to 5 minor units, and shares overlap by design: receipt, withholding
and credit note together exceed the invoice, and each is less than it. `MaxEvents` 2
allows an application and a release or another application, besides the releases of a
reversal, which it does not bound. `NoOverApplication` has one part for money and one
for the tax of each line, which is collected, withheld or credited once.

Left out: opening balances (they add a constant to the balance), the quantity
limits procurement puts on invoices and credits (in `Fulfilment`), authorization
dates (in `Deductions`), journal lines.

### Obligations, Deductions, Operations

`Obligations`: the status of fourteen records, what the control accounts hold
(`book`), the tax collected. `Plans` are three sets of records a behaviour may use: a
bill with two payments and two refunds; an advance with its fund, return, clearance,
and an expense that names the same procurement cost as the clearance; a tax with two
remittances. In each the payments exceed what is owed, so that the checks at posting,
long after those of the draft, decide. Posting and reversing are one action each,
under the book of the currency; `collect` stands for what settlement does to the tax
meanwhile.

`Deductions`: rows of authorizations and deductions, and the transaction of each
request. Posting holds the book and the authorization, revoking holds the client and
the authorization; what only one of the two holds does not keep the other out.
Bounds: 2 authorizations, 2 deductions, 2 days, 2 requests.

`Operations`: the row of each key, what has been executed, what clients were told,
exported documents and the files of the store. A request inserts its row, calls the
service, saves the answer and commits; it may fail, die, or lose its answer at each
step and is repeated with its key. Files are written before the commit, and deleted
again, as far as the store allows, when a page fails; nothing deletes those of a
request that is rolled back later. Bounds: 2 keys, 2 fingerprints (one an
export of 2 pages), 2 clients, 3 requests.

### Fulfilment and OrderBalance

State: six append-only tables of rows about goods and three about bills; a row is
named by its position. Every service holds the procurement request, so each is one
action. What the tracker shows (`attempt_summary`, `remaining_quantity`) is computed
from the rows as in `tracking.py`. A service that takes a list of rows checks each
against those before it and is modelled as one call per row.

`OrderBalance` has six counters and five steps. `KeepsBalance` is its specification
with each counter replaced by a sum over the rows: every step of `Fulfilment` is a
step or a stutter of the counters, and the counters never overfulfil. TLC checks both
on the small instance, TLAPS proves them for every one (section 4). `RevenueEarned` is about every set of order lines: what the
invoice lines that bill only those have recognised together was accepted there.
`MaxRows` 2 and quantities 1 and 2 allow a delivery in two parts, a rejection that is
answered in part by a replacement, and a call that asks for too much.

### Quotations

State: the draft and the version each clerk has loaded; revisions, their approvals,
issues and orders; expiries and the list each run of the command has read; client
codes; the register of the year with the transaction that holds its row. Services
that hold the request are one action; taking a number (`numbering`) and choosing a
client code (`coding`) are two each, for the row they lock is shared beyond the
request. Fairness in `FairSpec`: a transaction that has taken a number ends; the
command is started again by cron and visits what it has read, where fairness is strong
since both wait for a lock that others hold now and then, and PostgreSQL grants locks
in the order of the requests. A run may die at any moment and be started again.

### Parties and PartyDocuments

`Parties`: `Merging(s, t)` computes what the merge service does to the rows of two
parties, `RowsFit` is the unique constraints. A merge is two steps, since requests
that edit a child row take no lock on its party; a PATCH is two steps, reading and
saving the whole row. The initial states (`Given`) are databases legal requests have
led to, with contacts, addresses and affiliations that clash. A merge combines the
rows of the two parties at once, where the code visits those of the source one after
the other, primary ones first; the results are the same as long as a primary row is
active, which `MergeFits` therefore asks (section 3 says how it can fail).
`SurvivorStands` is stated as long as no stale PATCH has changed a tombstone back (`revived`), which
`tombstone` shows to be possible. Bounds: 2 organisations and 2 people, 3 requests,
2 at a time.

`PartyDocuments`: row, file and warning of each document, and the requests. With
`Faults` a request may die between any two steps, and a failed call of the store may
have stored the file. `ActiveHasFile` is checked with failures and 2 documents of
the same content, `WarningScheduled` without failures.

### Sessions and AuditSummaries

`Sessions`: one action per statement, as nothing but a logout is in a transaction:
deletion of the old codes, creation, the e-mail, its withdrawal, verification,
confirmation, the two saves, edits of a user that save the row they have read. A
password is named for the code that set it. `services` runs the reset actions and
the token actions as two components, which share only the table of requests in
progress; the theorems are about their union, `SessionsNext`. Bounds: 1 user, 2 codes, 2 logins with
1 renewal, 2 requests.

`AuditSummaries`: rows with the time they were created and, later, the commit; the
cache entry of the topic a behaviour is about, which may be forgotten at any moment;
the requests between their queries. `calculate_login_summary` and
`calculate_audit_summary` are operators over the rows each query saw. Bounds: 2 rows,
2 instants, 1 reader, 4 topics.

## 3. Disagreements and observations

Found by a run that TLC refutes:

1. `split`: the tax of the last release cannot be apportioned
   (`ledger/services/settlement.py:301`). It does not need tiny amounts: taxes 10.00
   and 20.00 on two lines and two releases of tax 1.00 give the first line 0.33
   twice; the remaining 28.00 then split into 9.33 and 18.67, above the 18.66 the
   second line has left. Where earlier parts leave less than nothing for the last line,
   the constraint on its row refuses the release instead.
2. `tombstone`: a PATCH that has read a party before it was merged saves every column
   over the tombstone (`crm/serializers.py:1298`), against `docs/crm/README.md:95`.
3. `warning`: rescheduling an expiry warning cancels it and then finds its key taken by
   the cancelled notification (`crm/notifications.py:315`), against the docstring of
   the view (`crm/views.py:1932`).

Disagreements with a text, seen while modelling: `docs/crm/CRM_OPERATIONS_AND_DEPLOYMENT.md:214-223`
says that a merge reassigns references of procurement and the ledger; the call is
commented out (`crm/services.py:1390`), and rows of both keep naming the tombstone.

Reachable states of the models that no line of the repository excludes, so that no
property is stated about them:

- *tasks.* A reminder validated against a joined, unlocked batch row can end up after
  a deadline that has moved (`services/reminders.py:435`), and a task can be restored
  inside a batch that was archived meanwhile (`services/lifecycle.py:701`). Review
  tasks the ledger closes keep the reminders users have set on them
  (`ledger/integrations/workflow.py:179`). Rescheduling a reminder while another
  request has just rescheduled it fails as a whole; the repair command can leave the
  newer notification of a reminder it cancels scheduled. The creator of a batch
  passes `can_manage_task` before any other rule is asked (`services/access.py:501`),
  so also after losing the role. An archived batch is found for restoring only with
  `?archived=true` (`views/batches.py:175`).
- *notifications.* A mark that comes late puts a cancelled delivery back in the queue
  (`services/delivery.py:204`), where it is not attempted, for the notification has
  expired. The release of timed-out locks does not look at the number of attempts
  (`delivery.py:290`). Two concurrent calls of `notify` with one key both pass the
  lookup and the second fails on the unique key (`services/notifications.py:445`).
- *ledger.* Partial cash without tax can leave less due than tax remaining; the final
  cash allocation is then refused until one is released (`settlement.py:186`).
  Releasing a receipt whose tax was remitted makes the remittable tax negative
  (`services/tax.py:125`). A bill
  that was paid and refunded cannot be paid again. Two lines of one expense may name
  the same procurement cost. The view looks at the state of a record before it looks
  for an earlier answer to the key, so a repetition may be refused instead of
  answered. Files of an export written in a nested transaction are orphaned when
  the outer one fails; nothing refers to them.
- *crm.* A merge saves `is_primary` of a contact as it was when the merge began
  (`crm/services.py:845`), but not `is_active`. Two PATCHes that take the flag away
  and switch the contact off meanwhile therefore end with a contact that is primary
  and not active. A later merge into that party of one that has an equal, active
  and primary contact combines the two rows, besides another primary contact of the
  target, and is refused by `crm_one_primary_contact_type`. `MergeFits` is stated for
  parties whose primary contacts are active. Two creations of equal parties both pass the duplicate check
  (`serializers.py:1212`).
- *accounts.* Two overlapping confirmations of one code both set their password; two
  concurrent requests leave two active codes; an edit of a user that has read the row
  before a reset writes the old password back (`serializers.py:318`). Overlapping
  edits can close a circle in the hierarchy (`serializers.py:719`) or give a
  department two primary leaders, and two new employees of a department can be given
  one number, which the unique key then refuses (`models.py:196`). The login summary
  counts failures before it looks for the account that failed most often
  (`audit_services.py:284`), so that the account's count may be larger; a cached
  summary counts rows that were written but not yet visible as known; a range
  that is valid in capitals uses the threshold of a month (`audit_services.py:58`).

## 4. What is proved

TLAPS checks every step of the eight proof modules. The constants are arbitrary: any
number of rows, requests, workers, keys and dates, any timeouts and limits. The only
assumptions are the named `ASSUME`s of the modules, which TLC evaluates in the runs.
Every theorem follows one argument: an inductive invariant, one lemma per action
that it is kept, and a last temporal step.

*TaskLifecycle.* The properties are not inductive: they depend on what a transaction
read many steps before it commits. `IInv` says, for each stage of each operation,
what the transaction may rely on about rows it holds: the tasks it will write are
locked by it and still in the state it checked; the reminders it picked and locked
are the only active ones; a batch being cancelled is locked and its tasks are too.
The proof is of the rely-guarantee kind: a step of one transaction keeps what the
others rely on because they hold the lock, and only the commit step has to
re-establish the properties on the rows. `Invariance` is `Spec => []IInv`; the others
follow.

*DeliveryOutbox.* `IInv` has three parts besides typing. `AllowanceCovers`: the
acknowledged copies plus the attempts in flight plus what the row may still send
never exceed the allowance, so a lock that times out pays for the copy of the
worker that lost it. `GivingUp`: a worker about to write FAILED has seen a
permanent error or the last attempt, and counters only grow. `OutOfReach`: once a
notification is cancelled, a delivery nobody was handling then is expired for
every clock value a later claim may have read. From these follow
`CopiesExplained`, `FailedIsExhausted` and `CancelledIsNotAttempted`.

*RecordApproval.* `IInv` adds to typing: a record has been posted once if its status
says POSTED or REVERSED and never otherwise (`PostedOnce`); the original of a revision
is SUPERSEDED (`OriginalIsSuperseded`); an approved or posted record has an approval
of its version (`ApprovalStands`). `OpenReviewIsExpected` is inductive beside them: a
decision that ends PENDING appends an intent, and processing an intent touches only
the tasks of its own approval. `RemoveAtKeeps` is the fact about queues this needs.
From these follow `OnePosting`, `PostedAsApproved` and `OpenReviewIsExpected`.

*Fulfilment, OrderBalance.* `FulfilmentInvariant` says of every row what the guard
that added it checked: what names a row never adds up to more than that row has
(`PurchasesFit`, `ReceiptsFit`, `DeliveriesFit`, `OutcomesFit`, `ActionsFit`), and rows
name rows that exist (`RowsBelong`). Tables only grow, so every sum is the old one or
the old one and the new quantity. `OrderLineKept` and `NothingRemainsNothingOpen` are
about whole chains of replacements; they follow by exchanging the order of summation,
since the rejected goods of all outcomes are those of all attempts and each rejection
is closed or reordered. `FulfilmentKeepsBalance` is the refinement: each action of
`Fulfilment` is one step of `OrderBalance`, or none, under the mapping to sums.
`NeverOverfulfilledAlways` adds that `Accounted` is inductive for the counters: what was
answered was ordered or reopened, what was reopened or closed was rejected, what was
recognised was accepted.

*Sums.* The sums of the models are folds, about which nothing can be proved by
induction over an operator. Each lemma of `Sums` (a new element, two disjoint sets,
equal or smaller terms) is instead an argument by a smallest counterexample among
the subsets of the index set: of a finite family of subsets one has the least number
of elements, and taking one element away contradicts that.

*Obligations.* `AccountedFor` is inductive with `DraftsBelong` (a draft belongs to the
plan of its behaviour): what an account holds is a sum over the posted records that
name the obligation, posting adds the one record its guard has bounded by what remains,
and reversing is refused while a record that relies on it is posted.

*Deductions.* `AuthorizedOnce` needs what a transaction relies on while it holds an
authorization: a posting still names an authorization that covers its day
(`PostingStands`), a revocation has no posted deduction at or after its day
(`RevocationStands`), and no authorization is held by two (`LocksHeldOnce`). That no
other authorization covers the day is `Disjoint`, kept because authorizing checks for
overlaps under the lock of the client and revoking only shortens.

*Operations.* `RunsAreFresh` and `KeysAreHeld` say what a request in progress owns: a
run nobody else has and a key nobody else has inserted. `ExecutedIsStored` and
`AnswersAreStored` tie what was done and what was told to the row of the key.
`OncePerKey` follows; `ExportsComplete` is inductive since the files a failed export
deletes are of its own run, which no stored row names.

*Sessions.* `LogoutIsWhole` is inductive with three facts: the tokens of a login have
one user (`OneHolder`), a logout in progress has checked its two (`PairsAreChecked`),
and what is revoked was issued (`RevokedWereIssued`). `SpentStaysSpent` is an action
property: no step makes a generated code valid again, since every save names its
columns and a code is generated once.

*ReminderNotices.* `NoticeMatchesReminder` is inductive with `NoticesHaveOwners`: a
notification belongs to one reminder, and so does the one the repair command has read,
so that expiring it cannot reach a notification of another reminder.

*Quotations.* The serials of the year are complete because a transaction that takes a
number is alone with the sequence row and finds the document without a number
(`NumbersInHand`). An order follows from an issue, an issue from an approval that is
final, and an approval from a request for a revision with a document
(`SubmittedWasPrepared`, `IssuedWasApproved`): with these `OrderedWasSent` is
inductive. `ExpiryRecordedOnce` is inductive alone, since a transaction of the command
asks again what its list says. Most actions leave the quotations as they are
(`KeptQuotes`): the clock, the draft, the codes and the reading of the command.

*Inbox.* `CancelledStaysHidden` needs three facts about requests in progress. A
cancelled notification is there and expired until it is deleted (`WithdrawnExpired`);
what a call of `notify` is making is there for nobody yet and made by no other call
(`MadeIsNew`), so that no cancelled notification is made again; and a request writes
only a row that is still there (`ReadRowExists`).

*Organisation.* `ManagersFindTasks` relates the permission functions to the querysets:
with `DutiesHaveBatches`, `BatchesHaveDuties` and `RemarksHaveDuties` it holds for all
assignments of roles at once. `CirclesNeedRaces` is a property of paths. `NoCircles` says
that no set of staff reports only to itself while nothing was raced, and
`ValidatedStaysValid` that a request between its check and its save still has a valid
change then; a circle through the new line would have been one of the old lines or seen
by the check.

*PartyDocuments.* `ActiveHasFile` is inductive with what uploads own: an upload in
progress has an identifier nobody else has (`UploadsOwnIds`) and inserts a row only for
a file that it has stored (`InsertsHaveFiles`); a deletion or an edit is about a row
that is there, and an edit that would save it active has its file or a deletion has
begun (`RowsAtWork`, `RemovedExist`).

*AuditSummaries.* `DetailsWithinTotal` is carried from the queries to the answer: what
the first query counted is still there at the second (`CountedStaysThere`), so a result
fits when it is made, and stays so in the cache and in the hands of every reader
(`ResultsFit`).

*Parties.* Requests edit child rows of a party while it is merged, so what a merge read
must survive them. `PartiesInvariant` has four parts besides typing. `RowsStand`: the
unique constraints hold. `MergesHold`: the two parties of a merge in progress are
present, not merged and in no other merge, the rows it read stay on their side. `Tombstones`:
there is one merge record for each merged party, which names where it went. `SurvivorStands`
itself: a merge adds one edge, into a party that is not merged, which closes no circle.
`MergesFit` is by cases over which of the two parties a row comes from, one for each
unique constraint. `MergesLoseNothing` is an action property: the roles, contacts and
affiliations of both parties are found at the target, given `MergesHold`.

*Settlement.* The figures are signed sums over a growing sequence of allocations, of which
a reversal appends several at once. The proof therefore states them as functions of any
such sequence (`ActiveIn`, `CapacityIn`, `DueIn`, `AvailableIn`, `RemainingIn`) and has two
kinds of lemmas: what appending an application or the release of one does to each figure,
and that each operation is one of a few steps, of the books (a record is posted or reversed)
and of the allocations (none, an application, releases). `SettlementInvariant` has six parts
besides typing and the two properties. `EntriesFit` and `MovementsFit`: the journal says the
status of a record, and the balance is the sum over posted records. `SourcesFit`: the sources
are the records that were posted, and a source that an allocation waits with was posted.
`AllocationsFit`: a release repeats the source, the invoice and the lines of its application,
so what is left of an application is never spread over two invoices. `TaxesFit`: no tax row
gives back more than it has, which is why a negative part must be refused. `RefundsFit`: a
posted refund has taken its whole amount, from sources that stand. A reversal is safe for
`NoOverApplication` since it releases all that is left of the source first, and it is refused
while a refund that used the source is posted. `Reconciled` is not a part but follows: sources
less applications less refunds, summed over sources, and invoices less applications, summed
over invoices, are exchanged into the one sum over allocations. `ClosedHistoryFixed` follows
from the dates: every step writes rows of an open date only, so the sums up to a date at
which all is closed have the same terms.

Only model-checked: liveness (`Settled`, `ReviewsClose`, `ReviewsAreAssigned`,
`ExpiryRecorded`), which rests on fairness and is beyond these provers. Whether the last
release can be apportioned is refuted by `split`; the theorems do not depend on it, since a
reversal that needs it is refused.

## 5. Not modelled

- Preferences and quiet hours: a pure function of a preference and an instant.
- Templates and providers: rendering and network calls. The outcome of a call is a
  nondeterministic choice in `DeliveryOutbox` and `Sessions`.
- Encryption and normalisation of CRM fields: cryptography, string functions.
- Request parsing and rendering, filters, audit and activity texts, layout of
  documents. Permissions that only refuse are an `Abort`, or not asked.
- Read projections of the ledger and of procurement, but for those a property is about.
- Database triggers (`ledger/migrations/0004`, `0007`): they repeat guards of the
  services. Migrations, the generated schema, reports and settings.
- Opening balances, journal lines and the years of periods.

## 6. What could be added

A counter-level specification of the client account that `Settlement` implements, as
`OrderBalance` is for `Fulfilment`; the review tasks of
`RecordApproval` composed with `TaskLifecycle`; an abstract outbox that
`DeliveryOutbox` implements.
