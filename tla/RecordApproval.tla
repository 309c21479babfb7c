---------------------------- MODULE RecordApproval ----------------------------
(***************************************************************************)
(* Financial records from draft to posting, the approval of their exact    *)
(* revision and of quotations, and the review tasks Accounts gets for them *)
(* (ledger/services/records.py, ledger/integrations/procurement.py and     *)
(* workflow.py).                                                           *)
(*                                                                         *)
(* A service is one transaction that holds the record, or the approval of  *)
(* a quotation, to COMMIT: one action.  Posting reads the record, waits    *)
(* for the book and reads it again: two actions.  Each decision writes an  *)
(* IntegrationIntent in its own transaction; process_one carries it out    *)
(* later, called by an on_commit callback that may be lost and by a        *)
(* command that runs again and again.  process_one holds the intent and    *)
(* the approval to COMMIT and undoes everything when it raises, so one     *)
(* call is one step.                                                       *)
(*                                                                         *)
(* Contents are abstracted to the record and its version: editing and      *)
(* revising are what changes them, and both change the version.  Messages, *)
(* permissions and the failure code of an intent, which nothing reads, are *)
(* left out.                                                               *)
(***************************************************************************)
EXTENDS Naturals, SequencesExt

CONSTANTS
    Records,      \* identities FinancialRecord rows may take
    Quotations,   \* registered quotation revisions
    Approvers,    \* staff of Accounts that review tasks are assigned to
    Posters,      \* post requests served at the same time
    None,         \* no record
    MaxVersion,   \* bound on the versions editing may reach
    Batch         \* --batch-size of process_ledger_integrations

Approvals == Records \cup Quotations

ASSUME ConstantsAssumption ==
    /\ Records \cap Quotations = {}
    /\ None \notin Records
    /\ MaxVersion \in Nat /\ Batch \in Nat \ {0}

VARIABLES
    record,       \* FinancialRecord: status, version, supersedes
    journals,     \* how many times each record has been posted
    posting,      \* the record each post request has read as approved
    approval,     \* ApprovalRequest: status, the version of its revision, task_batch set?
    task,         \* the review task of each approver, by approval
    intents,      \* the approvals of the unprocessed IntegrationIntents, oldest first
    routing       \* whether review tasks can be assigned: policy, manager, approvers

vars == <<record, journals, posting, approval, task, intents, routing>>

Statuses == {"ABSENT", "DRAFT", "SUBMITTED", "APPROVED", "REJECTED", "POSTED", "REVERSED",
             "SUPERSEDED"}
RecordRow == [status : Statuses, version : Nat, supersedes : Records \cup {None}]

ApprovalStatuses == {"NONE", "PENDING", "APPROVED", "REJECTED", "SUPERSEDED"}
ApprovalRow == [status : ApprovalStatuses, version : Nat, batch : BOOLEAN]
NoApproval == [status |-> "NONE", version |-> 0, batch |-> FALSE]
Decided(a) == approval[a].status \in {"APPROVED", "REJECTED", "SUPERSEDED"}

\* TO_DO, IN_PROGRESS and BLOCKED are one status, "OPEN"; COMPLETED and
\* CANCELLED are one, "ENDED".
TaskStatuses == {"NONE", "OPEN", "ENDED"}

Init ==
    /\ record = [r \in Records |-> [status |-> "ABSENT", version |-> 0, supersedes |-> None]]
    /\ journals = [r \in Records |-> 0]
    /\ posting = [u \in Posters |-> None]
    /\ approval = [a \in Approvals |-> NoApproval]
    /\ task = [a \in Approvals |-> [p \in Approvers |-> "NONE"]]
    /\ intents = <<>>
    /\ routing = FALSE

-----------------------------------------------------------------------------
(* The records and their approvals.                                        *)

SetStatus(r, s) ==
    [status |-> s, version |-> record[r].version, supersedes |-> record[r].supersedes]

SetApproval(a, s) ==
    [status |-> s, version |-> approval[a].version, batch |-> approval[a].batch]

\* The intent commits with the decision it is about.  What process_one does
\* with it depends on its approval alone, so its event is left out.
queue_intent(a) == intents' = Append(intents, a)

ReviewUnchanged == UNCHANGED <<task, routing>>

\* A new draft, on its own or in the place of another record.
Draft(version, original) == [status |-> "DRAFT", version |-> version, supersedes |-> original]

Create(r) ==
    /\ record[r].status = "ABSENT"
    /\ record' = [record EXCEPT ![r] = Draft(1, None)]
    /\ ReviewUnchanged /\ UNCHANGED <<intents, journals, posting, approval>>

Edit(r) ==
    /\ record[r].status = "DRAFT" /\ record[r].version < MaxVersion
    /\ record' = [record EXCEPT ![r] = Draft(record[r].version + 1, record[r].supersedes)]
    /\ ReviewUnchanged /\ UNCHANGED <<intents, journals, posting, approval>>

\* The revision and its approval request are those of the current version.
Submit(r) ==
    /\ record[r].status = "DRAFT"
    /\ record' = [record EXCEPT ![r] = SetStatus(r, "SUBMITTED")]
    /\ approval' = [approval EXCEPT ![r] =
                      [status |-> "PENDING", version |-> record[r].version, batch |-> FALSE]]
    /\ queue_intent(r)
    /\ ReviewUnchanged /\ UNCHANGED <<journals, posting>>

\* The decision is on the revision of the version the record has now.
Decide(r, outcome) ==
    /\ record[r].status = "SUBMITTED"
    /\ approval[r].status # "NONE" /\ approval[r].version = record[r].version
    /\ approval' = [approval EXCEPT ![r] = SetApproval(r, outcome)]
    /\ record' = [record EXCEPT ![r] = SetStatus(r, outcome)]
    /\ queue_intent(r)
    /\ ReviewUnchanged /\ UNCHANGED <<journals, posting>>

\* A draft n replaces r, and r's approval if it has one.
Revise(r, n) ==
    /\ record[r].status \in {"DRAFT", "SUBMITTED", "APPROVED", "REJECTED"}
    /\ record[n].status = "ABSENT"
    /\ record' = [record EXCEPT ![n] = Draft(record[r].version + 1, r),
                                ![r] = SetStatus(r, "SUPERSEDED")]
    /\ \/ /\ approval[r].status \notin {"NONE", "SUPERSEDED"}
          /\ approval' = [approval EXCEPT ![r] = SetApproval(r, "SUPERSEDED")]
          /\ queue_intent(r)
       \/ /\ approval[r].status \in {"NONE", "SUPERSEDED"}
          /\ UNCHANGED <<intents, approval>>
    /\ ReviewUnchanged /\ UNCHANGED <<journals, posting>>

\* get_or_create: a second submission of the same quotation revision finds
\* the first and changes nothing.
submit_quotation(q) ==
    /\ approval[q].status = "NONE"
    /\ approval' = [approval EXCEPT ![q] = [status |-> "PENDING", version |-> 1, batch |-> FALSE]]
    /\ queue_intent(q)
    /\ ReviewUnchanged /\ UNCHANGED <<record, journals, posting>>

decide_quotation(q, outcome) ==
    /\ approval[q].status = "PENDING"
    /\ approval' = [approval EXCEPT ![q] = SetApproval(q, outcome)]
    /\ queue_intent(q)
    /\ ReviewUnchanged /\ UNCHANGED <<record, journals, posting>>

\* post reads the record before it waits for the book of its currency.  A
\* request that reads it before it is approved is as one that reads it then.
BeginPost(u, r) ==
    /\ posting[u] = None /\ record[r].status = "APPROVED"
    /\ posting' = [posting EXCEPT ![u] = r]
    /\ ReviewUnchanged /\ UNCHANGED <<intents, record, journals, approval>>

\* A mutation of Postable: the status as it was read first.
PostableAsRead(r) == approval[r].status # "NONE" /\ approval[r].version = record[r].version

Postable(r) ==
    /\ record[r].status = "APPROVED"
    /\ approval[r].status # "NONE" /\ approval[r].version = record[r].version

\* It holds the book: the record is locked and read again.
Post(u) ==
    LET r == posting[u]
    IN /\ r # None
       /\ \/ /\ Postable(r)
             /\ record' = [record EXCEPT ![r] = SetStatus(r, "POSTED")]
             /\ journals' = [journals EXCEPT ![r] = @ + 1]
          \/ ~Postable(r) /\ UNCHANGED <<record, journals>>
       /\ posting' = [posting EXCEPT ![u] = None]
       /\ ReviewUnchanged /\ UNCHANGED <<intents, approval>>

\* Whether settlement and procurement allow the reversal is not modelled here.
ReverseRecord(r) ==
    /\ record[r].status = "POSTED"
    /\ record' = [record EXCEPT ![r] = SetStatus(r, "REVERSED")]
    /\ ReviewUnchanged /\ UNCHANGED <<intents, journals, posting, approval>>

-----------------------------------------------------------------------------
(* The review tasks.                                                       *)

\* One task for each member of Accounts who may approve now.
AssignTo(team) == [p \in Approvers |-> IF p \in team THEN "OPEN" ELSE "NONE"]

WithBatch(a) == [status |-> approval[a].status, version |-> approval[a].version, batch |-> TRUE]

\* A mutation of AssignReview: it trusts that the approval is still undecided.
AssignUnchecked(a) ==
    /\ routing /\ ~approval[a].batch
    /\ task' = [task EXCEPT ![a] = AssignTo(Approvers)]
    /\ approval' = [approval EXCEPT ![a] = WithBatch(a)]

\* What process_one does with an approval that awaits its decision: the
\* tasks are created the first time.
AssignReview(a) ==
    /\ approval[a].status = "PENDING" /\ routing
    /\ \E team \in SUBSET Approvers \ {{}} :
          task' = [task EXCEPT ![a] = IF approval[a].batch THEN task[a] ELSE AssignTo(team)]
    /\ approval' = [approval EXCEPT ![a] = WithBatch(a)]

Ended(a) == [p \in Approvers |-> IF task[a][p] = "OPEN" THEN "ENDED" ELSE task[a][p]]

\* A mutation of CloseReview: only an approval closes the tasks.
CloseWhenApproved(a) ==
    /\ approval[a].status # "PENDING"
    /\ IF approval[a].status = "APPROVED"
       THEN task' = [task EXCEPT ![a] = Ended(a)] ELSE UNCHANGED task
    /\ UNCHANGED approval

\* What it does with one that is decided or superseded.
CloseReview(a) ==
    /\ approval[a].status # "PENDING"
    /\ task' = [task EXCEPT ![a] = Ended(a)]
    /\ UNCHANGED approval

\* A mutation of Handle: an approval that nobody can be assigned is given up.
HandleOnce(a) ==
    \/ AssignReview(a) \/ CloseReview(a)
    \/ approval[a].status = "PENDING" /\ ~routing /\ UNCHANGED <<task, approval>>

\* What is done depends on the approval as it is now.
Handle(a) == AssignReview(a) \/ CloseReview(a)

\* An attempt that raises, by accident or because nobody can be assigned, is
\* rolled back and one without a routing policy ends early: the intent stays
\* as it is, as if there had been no attempt.
process_one(i) ==
    /\ Handle(intents[i])
    /\ intents' = RemoveAt(intents, i)
    /\ UNCHANGED <<record, journals, posting, routing>>

\* The command reads the oldest unprocessed intents, at most Batch of them,
\* and tries each.  An intent that is among them stays among them until it
\* is processed: new ones come last.
Oldest == {i \in DOMAIN intents : i <= Batch}

Retry(a) == \E i \in Oldest : intents[i] = a /\ process_one(i)

\* The manager authorizes or withdraws routing; approvers join and leave.
authorize_routing ==
    /\ routing' = ~routing
    /\ UNCHANGED <<record, journals, posting, approval, task, intents>>

\* What the task services do with a review task, each a transaction of its
\* own on the task (TaskLifecycle): its end cancels its reminders.
FinishTask(a, p) ==
    /\ task[a][p] = "OPEN"
    /\ task' = [task EXCEPT ![a][p] = "ENDED"]
    /\ UNCHANGED <<record, journals, posting, approval, intents, routing>>

-----------------------------------------------------------------------------
Outcomes == {"APPROVED", "REJECTED"}

LedgerStep ==
    \/ \E r \in Records : Create(r) \/ Edit(r) \/ Submit(r) \/ ReverseRecord(r)
    \/ \E r \in Records, o \in Outcomes : Decide(r, o)
    \/ \E r \in Records, n \in Records : Revise(r, n)
    \/ \E q \in Quotations : submit_quotation(q)
    \/ \E q \in Quotations, o \in Outcomes : decide_quotation(q, o)
    \/ \E u \in Posters, r \in Records : BeginPost(u, r)
    \/ \E u \in Posters : Post(u)

Next ==
    \/ LedgerStep
    \/ \E a \in Approvals, p \in Approvers : FinishTask(a, p)
    \/ \E i \in DOMAIN intents : process_one(i)
    \/ authorize_routing

Spec == Init /\ [][Next]_vars

\* The deployment schedules the command again and again, and accidents do not
\* hit every attempt: an intent that stays among the oldest and can be
\* processed is.  Nothing else has to happen: users may stay away, and the
\* on_commit callback of an intent, which may process it at any time, may be
\* lost with its process.
FairSpec == Spec /\ \A a \in Approvals : WF_vars(Retry(a))

-----------------------------------------------------------------------------
TypeOK ==
    /\ record \in [Records -> RecordRow]
    /\ journals \in [Records -> Nat]
    /\ posting \in [Posters -> Records \cup {None}]
    /\ approval \in [Approvals -> ApprovalRow]
    /\ task \in [Approvals -> [Approvers -> TaskStatuses]]
    /\ intents \in Seq(Approvals)
    /\ routing \in BOOLEAN

\* Of a record and the revisions that replace it one after the other at most
\* one is posted, and it is posted once, however its postings, approval and
\* revision overlap.
OnePosting ==
    /\ \A r \in Records : journals[r] <= 1
    /\ \A n \in Records : record[n].supersedes # None => journals[record[n].supersedes] = 0

\* Nothing is posted but what stands approved: the approval of a posted
\* record has been given for its version and has not been superseded.
PostedAsApproved ==
    \A r \in Records :
        journals[r] > 0 => /\ approval[r].status = "APPROVED"
                           /\ approval[r].version = record[r].version

\* A review task is open only while its approval awaits the decision or an
\* intent is on its way that will close it, in whatever order the intents of
\* an approval are processed.
OpenReviewIsExpected ==
    \A a \in Approvals, p \in Approvers :
        task[a][p] = "OPEN" =>
            \/ approval[a].status = "PENDING"
            \/ \E i \in DOMAIN intents : intents[i] = a

\* What posting, revision and decision rely on.
PostedOnce ==
    \A r \in Records : journals[r] = IF record[r].status \in {"POSTED", "REVERSED"} THEN 1 ELSE 0
OriginalIsSuperseded ==
    \A n \in Records :
        record[n].supersedes # None => record[record[n].supersedes].status = "SUPERSEDED"
ApprovalStands ==
    \A r \in Records :
        record[r].status \in {"APPROVED", "POSTED", "REVERSED"} =>
            approval[r].status = "APPROVED" /\ approval[r].version = record[r].version

\* The inductive invariant of the proofs: a record has been posted once when
\* its status says so, the original of a revision is out of the way for good,
\* and the approval that let a record through still stands for its version.
IInv ==
    /\ TypeOK
    /\ PostedOnce
    /\ OriginalIsSuperseded
    /\ ApprovalStands
    /\ OpenReviewIsExpected

\* Once an approval is decided its review tasks are closed, although
\* callbacks are lost and other approvals cannot be routed.
ReviewsClose ==
    \A a \in Approvals : Decided(a) ~> (\A p \in Approvers : task[a][p] # "OPEN")

\* A crash after the commit cannot lose the review: where routing is restored
\* for good, an approval that stays undecided gets its tasks.
ReviewsAreAssigned ==
    <>[]routing => \A a \in Approvals :
        approval[a].status = "PENDING" ~> (approval[a].batch \/ approval[a].status # "PENDING")
=============================================================================
