------------------------- MODULE RecordApprovalProofs -------------------------
(***************************************************************************)
(* Proofs about RecordApproval: for any number of records, quotations,     *)
(* approvers, post requests and versions its inductive invariant holds, so *)
(* every revision chain is posted at most once and as approved, and no     *)
(* review task stays open that nothing will close.                         *)
(***************************************************************************)
EXTENDS RecordApproval, SequenceTheorems, TLAPS

\* What is left of a queue when one element is taken out: the others.
LEMMA RemoveAtKeeps ==
    ASSUME NEW S, NEW s \in Seq(S), NEW i \in DOMAIN s
    PROVE  /\ RemoveAt(s, i) \in Seq(S)
           /\ \A j \in DOMAIN s : j # i =>
                 \E k \in DOMAIN RemoveAt(s, i) : RemoveAt(s, i)[k] = s[j]
<1> DEFINE a == SubSeq(s, 1, i - 1)
           b == SubSeq(s, i + 1, Len(s))
<1>1. /\ Len(s) \in Nat /\ DOMAIN s = 1 .. Len(s) /\ i \in 1 .. Len(s)
      /\ \A j \in 1 .. Len(s) : s[j] \in S
  OBVIOUS
<1>2. /\ a \in Seq(S) /\ Len(a) = i - 1 /\ \A j \in 1 .. i - 1 : a[j] = s[j]
  BY <1>1, SubSeqProperties
<1>3. /\ b \in Seq(S) /\ Len(b) = Len(s) - i
      /\ \A j \in 1 .. Len(s) - i : b[j] = s[i + j]
  BY <1>1, SubSeqProperties
<1>4. RemoveAt(s, i) = a \o b
  BY DEF RemoveAt
<1> HIDE DEF a, b
<1>5. /\ a \o b \in Seq(S) /\ Len(a \o b) = Len(a) + Len(b)
      /\ \A j \in 1 .. Len(a) + Len(b) : (a \o b)[j] =
            IF j <= Len(a) THEN a[j] ELSE b[j - Len(a)]
  BY <1>2, <1>3, ConcatProperties
<1>6. ASSUME NEW j \in DOMAIN s, j # i
      PROVE  \E k \in DOMAIN (a \o b) : (a \o b)[k] = s[j]
  <2>1. CASE j < i
    BY <1>1, <1>2, <1>3, <1>5, <2>1
  <2>2. CASE j > i
    <3>0. /\ i \in Int /\ j \in Int /\ Len(s) \in Int
          /\ 1 <= i /\ j <= Len(s) /\ Len(a) = i - 1 /\ Len(b) = Len(s) - i
      BY <1>1, <1>2, <1>3
    <3>1. /\ j - i \in 1 .. Len(s) - i /\ i + (j - i) = j
          /\ j - 1 \in 1 .. Len(a) + Len(b) /\ ~(j - 1 <= Len(a))
          /\ (j - 1) - Len(a) = j - i
      BY <3>0, <2>2
    <3>2. b[j - i] = s[j]
      BY <1>3, <3>1
    <3>3. (a \o b)[j - 1] = b[j - i]
      BY <1>5, <3>1
    <3>4. j - 1 \in DOMAIN (a \o b)
      BY <1>5, <3>1
    <3> QED
      BY <3>2, <3>3, <3>4
  <2> QED
    BY <1>1, <1>6, <2>1, <2>2
<1> QED
  BY <1>4, <1>5, <1>6

-----------------------------------------------------------------------------
LEMMA InitInvariant == Init => IInv
<1> SUFFICES ASSUME Init PROVE IInv
  OBVIOUS
<1> USE DEF Init
<1>1. TypeOK
  <2>1. record \in [Records -> RecordRow]
    BY DEF RecordRow, Statuses
  <2>2. NoApproval \in ApprovalRow
    BY DEF NoApproval, ApprovalRow, ApprovalStatuses
  <2>3. approval \in [Approvals -> ApprovalRow]
    BY <2>2
  <2>4. /\ journals \in [Records -> Nat] /\ posting \in [Posters -> Records \cup {None}]
        /\ task \in [Approvals -> [Approvers -> TaskStatuses]] /\ routing \in BOOLEAN
    BY DEF TaskStatuses
  <2>5. intents \in Seq(Approvals)
    OBVIOUS
  <2> QED
    BY <2>1, <2>3, <2>4, <2>5 DEF TypeOK
<1>2. PostedOnce
  BY DEF PostedOnce
<1>3. OriginalIsSuperseded
  BY DEF OriginalIsSuperseded
<1>4. ApprovalStands
  BY DEF ApprovalStands
<1>5. OpenReviewIsExpected
  BY DEF OpenReviewIsExpected
<1> QED
  BY <1>1, <1>2, <1>3, <1>4, <1>5 DEF IInv

\* The rows of the tables have the fields of their types.
LEMMA Rows ==
    ASSUME TypeOK
    PROVE  /\ \A r \in Records : /\ record[r].status \in Statuses /\ record[r].version \in Nat
                                 /\ record[r].supersedes \in Records \cup {None}
           /\ \A a \in Approvals : /\ approval[a].status \in ApprovalStatuses
                                   /\ approval[a].version \in Nat /\ approval[a].batch \in BOOLEAN
           /\ \A a \in Approvals, p \in Approvers : task[a][p] \in TaskStatuses
  BY DEF TypeOK, RecordRow, ApprovalRow

\* One record changes: its row, and nothing but that row.
LEMMA RecordStep ==
    ASSUME TypeOK, NEW r \in Records, NEW row \in RecordRow,
           record' = [record EXCEPT ![r] = row]
    PROVE  /\ record' \in [Records -> RecordRow]
           /\ record'[r] = row
           /\ \A x \in Records : x # r => record'[x] = record[x]
  BY DEF TypeOK

LEMMA ApprovalStep ==
    ASSUME TypeOK, NEW a \in Approvals, NEW row \in ApprovalRow,
           approval' = [approval EXCEPT ![a] = row]
    PROVE  /\ approval' \in [Approvals -> ApprovalRow]
           /\ approval'[a] = row
           /\ \A x \in Approvals : x # a => approval'[x] = approval[x]
  BY DEF TypeOK

\* An intent is appended: the queue is one of approvals and keeps the others.
LEMMA QueueStep ==
    ASSUME TypeOK, NEW a \in Approvals, queue_intent(a)
    PROVE  /\ intents' \in Seq(Approvals)
           /\ \E i \in DOMAIN intents' : intents'[i] = a
           /\ \A b \in Approvals : (\E i \in DOMAIN intents : intents[i] = b)
                                    => \E i \in DOMAIN intents' : intents'[i] = b
<1>1. intents \in Seq(Approvals)
  BY DEF TypeOK
<1>2. /\ intents' \in Seq(Approvals) /\ Len(intents') = Len(intents) + 1
      /\ \A i \in 1 .. Len(intents) : intents'[i] = intents[i]
      /\ intents'[Len(intents) + 1] = a
  BY <1>1, AppendProperties DEF queue_intent
<1>3. /\ DOMAIN intents = 1 .. Len(intents) /\ Len(intents) \in Nat
      /\ DOMAIN intents' = 1 .. Len(intents) + 1
  BY <1>1, <1>2
<1> QED
  BY <1>2, <1>3

LEMMA RowConstructors ==
    ASSUME TypeOK
    PROVE  /\ \A r \in Records, s \in Statuses : SetStatus(r, s) \in RecordRow
           /\ \A v \in Nat, o \in Records \cup {None} : Draft(v, o) \in RecordRow
           /\ \A a \in Approvals, s \in ApprovalStatuses : SetApproval(a, s) \in ApprovalRow
           /\ \A a \in Approvals : WithBatch(a) \in ApprovalRow
  BY Rows DEF SetStatus, Draft, SetApproval, WithBatch, RecordRow, ApprovalRow, Statuses

-----------------------------------------------------------------------------
(* What the actions of the ledger write.                                   *)

\* A record gets a new row: what the row must satisfy to keep the invariant.
LEMMA RecordChange ==
    ASSUME IInv, NEW r \in Records, NEW row \in RecordRow,
           record' = [record EXCEPT ![r] = row],
           row.supersedes \in {record[r].supersedes, None},
           record[r].status # "SUPERSEDED",
           UNCHANGED journals,
           (row.status \in {"POSTED", "REVERSED"}) <=> (record[r].status \in {"POSTED", "REVERSED"})
    PROVE  PostedOnce' /\ OriginalIsSuperseded'
<1> USE DEF IInv
<1>1. /\ record' \in [Records -> RecordRow] /\ record'[r] = row
      /\ \A x \in Records : x # r => record'[x] = record[x]
  BY RecordStep
<1>2. PostedOnce'
  BY <1>1 DEF PostedOnce
<1>3. OriginalIsSuperseded'
  <2> SUFFICES ASSUME NEW n \in Records, record'[n].supersedes # None
               PROVE  record'[record'[n].supersedes].status = "SUPERSEDED"
    BY DEF OriginalIsSuperseded
  <2>1. record'[n].supersedes = record[n].supersedes /\ record[n].supersedes \in Records
    BY <1>1, Rows
  <2>2. record[record[n].supersedes].status = "SUPERSEDED"
    BY <2>1 DEF OriginalIsSuperseded
  <2> QED
    BY <1>1, <2>1, <2>2
<1> QED
  BY <1>2, <1>3

\* Review is kept where an approval that stops to be PENDING gets an intent.
LEMMA ReviewChange ==
    ASSUME IInv, UNCHANGED task,
           \A a \in Approvals : (\E i \in DOMAIN intents : intents[i] = a)
                                => \E i \in DOMAIN intents' : intents'[i] = a,
           \A a \in Approvals : \/ approval'[a].status = approval[a].status
                                \/ approval'[a].status = "PENDING"
                                \/ \E i \in DOMAIN intents' : intents'[i] = a
    PROVE  OpenReviewIsExpected'
  BY DEF IInv, OpenReviewIsExpected

\* Only the record changes, to a status that needs no approval of its own.
LEMMA RecordOnly ==
    ASSUME IInv, NEW r \in Records, NEW row \in RecordRow,
           record' = [record EXCEPT ![r] = row],
           row.supersedes \in {record[r].supersedes, None},
           record[r].status # "SUPERSEDED",
           row.status \in {"DRAFT", "SUBMITTED", "REVERSED"},
           row.status = "REVERSED" => row.version = record[r].version /\ record[r].status = "POSTED",
           row.status # "REVERSED" => record[r].status \notin {"POSTED", "REVERSED"},
           UNCHANGED <<journals, posting, approval, task, intents, routing>>
    PROVE  IInv'
<1>1. PostedOnce' /\ OriginalIsSuperseded'
  BY RecordChange
<1>2. TypeOK'
  BY RecordStep DEF IInv, TypeOK
<1>3. ApprovalStands'
  BY RecordStep DEF IInv, ApprovalStands
<1>4. OpenReviewIsExpected'
  BY ReviewChange
<1> QED
  BY <1>1, <1>2, <1>3, <1>4 DEF IInv

LEMMA CreateStep ==
    ASSUME IInv, NEW r \in Records, Create(r) PROVE IInv'
<1>1. Draft(1, None) \in RecordRow
  BY RowConstructors DEF IInv
<1> QED
  BY <1>1, RecordOnly DEF Create, ReviewUnchanged, Draft

LEMMA EditStep ==
    ASSUME IInv, NEW r \in Records, Edit(r) PROVE IInv'
<1>1. /\ record[r].version + 1 \in Nat /\ record[r].supersedes \in Records \cup {None}
  BY Rows DEF IInv
<1>2. Draft(record[r].version + 1, record[r].supersedes) \in RecordRow
  BY <1>1, RowConstructors DEF IInv
<1> QED
  BY <1>2, RecordOnly DEF Edit, ReviewUnchanged, Draft

LEMMA ReverseStep ==
    ASSUME IInv, NEW r \in Records, ReverseRecord(r) PROVE IInv'
<1>1. SetStatus(r, "REVERSED") \in RecordRow
  BY RowConstructors DEF IInv, Statuses
<1> QED
  BY <1>1, RecordOnly DEF ReverseRecord, ReviewUnchanged, SetStatus

\* A record is submitted or decided: it and its approval change together.
LEMMA TogetherStep ==
    ASSUME IInv, NEW r \in Records, NEW s \in {"SUBMITTED", "APPROVED", "REJECTED"},
           NEW row \in ApprovalRow,
           record[r].status \in {"DRAFT", "SUBMITTED"},
           record' = [record EXCEPT ![r] = SetStatus(r, s)],
           approval' = [approval EXCEPT ![r] = row],
           s = "APPROVED" => row.status = "APPROVED" /\ row.version = record[r].version,
           queue_intent(r),
           UNCHANGED <<journals, posting, task, routing>>
    PROVE  IInv'
<1> USE DEF IInv
<1>1. r \in Approvals
  BY DEF Approvals
<1>2. SetStatus(r, s) \in RecordRow
  BY RowConstructors DEF Statuses
<1>3. PostedOnce' /\ OriginalIsSuperseded'
  BY <1>2, RecordChange DEF SetStatus
<1>4. TypeOK'
  BY <1>1, <1>2, RecordStep, ApprovalStep, QueueStep DEF TypeOK
<1>5. ApprovalStands'
  <2>1. /\ record'[r].status = s /\ record'[r].version = record[r].version
        /\ \A x \in Records : x # r => record'[x] = record[x]
    BY <1>2, RecordStep DEF SetStatus
  <2>2. /\ approval'[r] = row
        /\ \A x \in Records : x # r => approval'[x] = approval[x]
    BY <1>1, ApprovalStep DEF Approvals
  <2> QED
    BY <2>1, <2>2 DEF ApprovalStands
<1>6. OpenReviewIsExpected'
  <2>1. \A a \in Approvals : a # r => approval'[a] = approval[a]
    BY <1>1, ApprovalStep
  <2>2. /\ \E i \in DOMAIN intents' : intents'[i] = r
        /\ \A a \in Approvals : (\E i \in DOMAIN intents : intents[i] = a)
                                => \E i \in DOMAIN intents' : intents'[i] = a
    BY <1>1, QueueStep
  <2> QED
    BY <2>1, <2>2, ReviewChange
<1> QED
  BY <1>3, <1>4, <1>5, <1>6

LEMMA SubmitStep ==
    ASSUME IInv, NEW r \in Records, Submit(r) PROVE IInv'
<1>1. [status |-> "PENDING", version |-> record[r].version, batch |-> FALSE] \in ApprovalRow
  BY Rows DEF IInv, ApprovalRow, ApprovalStatuses
<1> QED
  BY <1>1, TogetherStep DEF Submit, ReviewUnchanged

LEMMA DecideStep ==
    ASSUME IInv, NEW r \in Records, NEW o \in Outcomes, Decide(r, o) PROVE IInv'
<1>1. SetApproval(r, o) \in ApprovalRow
  BY RowConstructors DEF IInv, Approvals, ApprovalStatuses, Outcomes
<1>2. /\ SetApproval(r, o).status = o /\ SetApproval(r, o).version = record[r].version
      /\ o \in {"SUBMITTED", "APPROVED", "REJECTED"}
  BY DEF SetApproval, Decide, Outcomes
<1> QED
  BY <1>1, <1>2, TogetherStep DEF Decide, ReviewUnchanged

\* A quotation has no record: only its approval changes.
LEMMA QuotationStep ==
    ASSUME IInv, NEW q \in Quotations, NEW row \in ApprovalRow,
           approval' = [approval EXCEPT ![q] = row],
           queue_intent(q),
           UNCHANGED <<record, journals, posting, task, routing>>
    PROVE  IInv'
<1> USE DEF IInv
<1>1. q \in Approvals /\ q \notin Records /\ Records \subseteq Approvals
  BY ConstantsAssumption DEF Approvals
<1>2. \A a \in Approvals : a # q => approval'[a] = approval[a]
  BY <1>1, ApprovalStep
<1>3. TypeOK'
  BY <1>1, ApprovalStep, QueueStep DEF TypeOK
<1>4. PostedOnce' /\ OriginalIsSuperseded' /\ ApprovalStands'
  BY <1>1, <1>2 DEF PostedOnce, OriginalIsSuperseded, ApprovalStands
<1>5. OpenReviewIsExpected'
  <2>1. /\ \E i \in DOMAIN intents' : intents'[i] = q
        /\ \A a \in Approvals : (\E i \in DOMAIN intents : intents[i] = a)
                                => \E i \in DOMAIN intents' : intents'[i] = a
    BY <1>1, QueueStep
  <2> QED
    BY <1>2, <2>1, ReviewChange
<1> QED
  BY <1>3, <1>4, <1>5

LEMMA SubmitQuotationStep ==
    ASSUME IInv, NEW q \in Quotations, submit_quotation(q) PROVE IInv'
<1>1. [status |-> "PENDING", version |-> 1, batch |-> FALSE] \in ApprovalRow
  BY DEF ApprovalRow, ApprovalStatuses
<1> QED
  BY <1>1, QuotationStep DEF submit_quotation, ReviewUnchanged

LEMMA DecideQuotationStep ==
    ASSUME IInv, NEW q \in Quotations, NEW o \in Outcomes, decide_quotation(q, o)
    PROVE  IInv'
<1>1. SetApproval(q, o) \in ApprovalRow
  BY RowConstructors DEF IInv, Approvals, ApprovalStatuses, Outcomes
<1> QED
  BY <1>1, QuotationStep DEF decide_quotation, ReviewUnchanged

LEMMA ReviseStep ==
    ASSUME IInv, NEW r \in Records, NEW n \in Records, Revise(r, n) PROVE IInv'
<1> USE DEF IInv
<1> DEFINE new == Draft(record[r].version + 1, r)
           old == SetStatus(r, "SUPERSEDED")
<1>1. /\ r # n /\ record[n].status = "ABSENT"
      /\ record[r].status \in {"DRAFT", "SUBMITTED", "APPROVED", "REJECTED"}
      /\ record' = [record EXCEPT ![n] = new, ![r] = old]
      /\ UNCHANGED <<journals, posting, task, routing>>
  BY DEF Revise, ReviewUnchanged
<1>2. new \in RecordRow /\ old \in RecordRow
  BY Rows, RowConstructors DEF Statuses
<1>3. /\ new.status = "DRAFT" /\ new.supersedes = r
      /\ old.status = "SUPERSEDED" /\ old.supersedes = record[r].supersedes
  BY DEF Draft, SetStatus
<1> HIDE DEF new, old
<1>4. /\ record' \in [Records -> RecordRow] /\ record'[n] = new /\ record'[r] = old
      /\ \A x \in Records : x \notin {n, r} => record'[x] = record[x]
  BY <1>1, <1>2 DEF TypeOK
<1>5. PostedOnce'
  BY <1>1, <1>3, <1>4 DEF PostedOnce
<1>6. OriginalIsSuperseded'
  <2> SUFFICES ASSUME NEW x \in Records, record'[x].supersedes # None
               PROVE  record'[record'[x].supersedes].status = "SUPERSEDED"
    BY DEF OriginalIsSuperseded
  <2>1. CASE x = n
    BY <1>3, <1>4, <2>1
  <2>2. CASE x # n
    <3>1. record'[x].supersedes = record[x].supersedes /\ record[x].supersedes \in Records
      BY <1>3, <1>4, <2>2, Rows
    <3>2. record[record[x].supersedes].status = "SUPERSEDED"
      BY <3>1 DEF OriginalIsSuperseded
    <3> QED
      BY <1>1, <1>3, <1>4, <3>1, <3>2
  <2> QED
    BY <2>1, <2>2
<1>7. r \in Approvals /\ n \in Approvals /\ Records \subseteq Approvals
  BY DEF Approvals
<1>8. SetApproval(r, "SUPERSEDED") \in ApprovalRow
  BY <1>7, RowConstructors DEF ApprovalStatuses
<1>9. \/ /\ approval' = [approval EXCEPT ![r] = SetApproval(r, "SUPERSEDED")] /\ queue_intent(r)
      \/ UNCHANGED <<approval, intents>>
  BY DEF Revise
<1>10. /\ approval' \in [Approvals -> ApprovalRow] /\ intents' \in Seq(Approvals)
       /\ \A a \in Approvals : a # r => approval'[a] = approval[a]
       /\ approval'[r] = approval[r] \/ \E i \in DOMAIN intents' : intents'[i] = r
       /\ \A a \in Approvals : (\E i \in DOMAIN intents : intents[i] = a)
                               => \E i \in DOMAIN intents' : intents'[i] = a
  <2>1. CASE approval' = [approval EXCEPT ![r] = SetApproval(r, "SUPERSEDED")] /\ queue_intent(r)
    BY <1>7, <1>8, <2>1, ApprovalStep, QueueStep
  <2>2. CASE UNCHANGED <<approval, intents>>
    BY <2>2 DEF TypeOK
  <2> QED
    BY <1>9, <2>1, <2>2
<1>11. TypeOK'
  BY <1>1, <1>4, <1>10 DEF TypeOK
<1>12. ApprovalStands'
  BY <1>1, <1>3, <1>4, <1>7, <1>10 DEF ApprovalStands
<1>13. OpenReviewIsExpected'
  BY <1>1, <1>10, ReviewChange
<1> QED
  BY <1>5, <1>6, <1>11, <1>12, <1>13

LEMMA BeginPostStep ==
    ASSUME IInv, NEW u \in Posters, NEW r \in Records, BeginPost(u, r) PROVE IInv'
<1> USE DEF IInv, BeginPost, ReviewUnchanged
<1>1. TypeOK'
  BY DEF TypeOK
<1>2. PostedOnce' /\ OriginalIsSuperseded' /\ ApprovalStands'
  BY DEF PostedOnce, OriginalIsSuperseded, ApprovalStands
<1>3. OpenReviewIsExpected'
  BY DEF OpenReviewIsExpected
<1> QED
  BY <1>1, <1>2, <1>3

LEMMA PostStep ==
    ASSUME IInv, NEW u \in Posters, Post(u) PROVE IInv'
<1> USE DEF IInv
<1> DEFINE r == posting[u]
<1>1. /\ r \in Records
      /\ posting' = [posting EXCEPT ![u] = None]
      /\ UNCHANGED <<task, routing, intents, approval>>
  BY DEF Post, ReviewUnchanged, TypeOK
<1>2. posting' \in [Posters -> Records \cup {None}]
  BY <1>1 DEF TypeOK
<1>3. OpenReviewIsExpected'
  BY <1>1 DEF OpenReviewIsExpected
<1>4. CASE UNCHANGED <<record, journals>>
  BY <1>1, <1>2, <1>3, <1>4 DEF TypeOK, PostedOnce, OriginalIsSuperseded, ApprovalStands
<1>5. CASE /\ Postable(r)
           /\ record' = [record EXCEPT ![r] = SetStatus(r, "POSTED")]
           /\ journals' = [journals EXCEPT ![r] = @ + 1]
  <2> DEFINE row == SetStatus(r, "POSTED")
  <2>1. row \in RecordRow
    BY <1>1, RowConstructors DEF Statuses
  <2>2. /\ row.status = "POSTED" /\ row.version = record[r].version
        /\ row.supersedes = record[r].supersedes
    BY DEF SetStatus
  <2> HIDE DEF row
  <2>3. /\ record' \in [Records -> RecordRow] /\ record'[r] = row
        /\ \A x \in Records : x # r => record'[x] = record[x]
    BY <1>1, <1>5, <2>1, RecordStep DEF row
  <2>4. record[r].status = "APPROVED" /\ journals[r] = 0
    BY <1>1, <1>5 DEF Postable, PostedOnce
  <2>5. /\ journals' \in [Records -> Nat] /\ journals'[r] = 1
        /\ \A x \in Records : x # r => journals'[x] = journals[x]
    BY <1>1, <1>5, <2>4 DEF TypeOK
  <2>6. TypeOK'
    BY <1>1, <1>2, <2>3, <2>5 DEF TypeOK
  <2>7. PostedOnce'
    BY <1>1, <2>2, <2>3, <2>5 DEF PostedOnce
  <2>8. OriginalIsSuperseded'
    <3> SUFFICES ASSUME NEW n \in Records, record'[n].supersedes # None
                 PROVE  record'[record'[n].supersedes].status = "SUPERSEDED"
      BY DEF OriginalIsSuperseded
    <3>1. record'[n].supersedes = record[n].supersedes /\ record[n].supersedes \in Records
      BY <2>2, <2>3, Rows
    <3>2. record[record[n].supersedes].status = "SUPERSEDED"
      BY <3>1 DEF OriginalIsSuperseded
    <3> QED
      BY <2>3, <2>4, <3>1, <3>2
  <2>9. ApprovalStands'
    BY <1>1, <2>2, <2>3, <2>4 DEF ApprovalStands
  <2> QED
    BY <1>3, <2>6, <2>7, <2>8, <2>9
<1> QED
  BY <1>4, <1>5 DEF Post

LEMMA FinishStep ==
    ASSUME IInv, NEW a \in Approvals, NEW p \in Approvers, FinishTask(a, p) PROVE IInv'
<1> USE DEF IInv, FinishTask
<1>1. /\ task' \in [Approvals -> [Approvers -> TaskStatuses]]
      /\ \A b \in Approvals, x \in Approvers : task'[b][x] = "OPEN" => task[b][x] = "OPEN"
  BY DEF TypeOK, TaskStatuses
<1>2. TypeOK'
  BY <1>1 DEF TypeOK
<1>3. PostedOnce' /\ OriginalIsSuperseded' /\ ApprovalStands'
  BY DEF PostedOnce, OriginalIsSuperseded, ApprovalStands
<1>4. OpenReviewIsExpected'
  BY <1>1 DEF OpenReviewIsExpected
<1> QED
  BY <1>2, <1>3, <1>4

LEMMA RoutingStep ==
    ASSUME IInv, authorize_routing PROVE IInv'
<1> USE DEF IInv, authorize_routing
<1>1. TypeOK'
  BY DEF TypeOK
<1>2. PostedOnce' /\ OriginalIsSuperseded' /\ ApprovalStands'
  BY DEF PostedOnce, OriginalIsSuperseded, ApprovalStands
<1>3. OpenReviewIsExpected'
  BY DEF OpenReviewIsExpected
<1> QED
  BY <1>1, <1>2, <1>3

\* An intent is processed: it may close the tasks of its own approval only,
\* or open them where the decision is still awaited.
LEMMA ProcessStep ==
    ASSUME IInv, NEW i \in DOMAIN intents, process_one(i) PROVE IInv'
<1> USE DEF IInv
<1> DEFINE a == intents[i]
<1>1. intents \in Seq(Approvals) /\ a \in Approvals
  BY DEF TypeOK
<1>2. /\ intents' = RemoveAt(intents, i)
      /\ UNCHANGED <<record, journals, posting, routing>>
      /\ AssignReview(a) \/ CloseReview(a)
  BY DEF process_one, Handle
<1>3. /\ intents' \in Seq(Approvals)
      /\ \A j \in DOMAIN intents : j # i => \E k \in DOMAIN intents' : intents'[k] = intents[j]
  BY <1>1, <1>2, RemoveAtKeeps
<1>4. \A b \in Approvals : b # a /\ (\E j \in DOMAIN intents : intents[j] = b)
                           => \E k \in DOMAIN intents' : intents'[k] = b
  <2> SUFFICES ASSUME NEW b \in Approvals, b # a, NEW j \in DOMAIN intents, intents[j] = b
               PROVE  \E k \in DOMAIN intents' : intents'[k] = b
    OBVIOUS
  <2>1. j # i
    OBVIOUS
  <2> QED
    BY <1>3, <2>1
<1> HIDE DEF a
<1>5. PostedOnce' /\ OriginalIsSuperseded'
  BY <1>2 DEF PostedOnce, OriginalIsSuperseded
<1>6. CASE AssignReview(a)
  <2>1. /\ approval' \in [Approvals -> ApprovalRow] /\ approval'[a] = WithBatch(a)
        /\ \A b \in Approvals : b # a => approval'[b] = approval[b]
    BY <1>1, <1>6, RowConstructors, ApprovalStep DEF AssignReview
  <2>2. \A b \in Approvals : /\ approval'[b].status = approval[b].status
                             /\ approval'[b].version = approval[b].version
    BY <2>1 DEF WithBatch
  <2>3. /\ task' \in [Approvals -> [Approvers -> TaskStatuses]]
        /\ \A b \in Approvals : b # a => task'[b] = task[b]
    <3>1. PICK team \in SUBSET Approvers :
             task' = [task EXCEPT ![a] = IF approval[a].batch THEN task[a] ELSE AssignTo(team)]
      BY <1>6 DEF AssignReview
    <3>2. AssignTo(team) \in [Approvers -> TaskStatuses]
      BY DEF AssignTo, TaskStatuses
    <3> QED
      BY <1>1, <3>1, <3>2 DEF TypeOK
  <2>4. TypeOK'
    BY <1>2, <1>3, <2>1, <2>3 DEF TypeOK
  <2>5. ApprovalStands'
    BY <1>2, <2>2 DEF ApprovalStands, Approvals
  <2>6. OpenReviewIsExpected'
    <3>1. approval[a].status = "PENDING"
      BY <1>6 DEF AssignReview
    <3> QED
      BY <1>4, <2>2, <2>3, <3>1 DEF OpenReviewIsExpected
  <2> QED
    BY <1>5, <2>4, <2>5, <2>6
<1>7. CASE CloseReview(a)
  <2>1. approval' = approval /\ task' = [task EXCEPT ![a] = Ended(a)]
    BY <1>7 DEF CloseReview
  <2>2. /\ Ended(a) \in [Approvers -> TaskStatuses]
        /\ \A p \in Approvers : Ended(a)[p] # "OPEN"
    BY <1>1 DEF Ended, TypeOK, TaskStatuses
  <2>3. /\ task' \in [Approvals -> [Approvers -> TaskStatuses]] /\ task'[a] = Ended(a)
        /\ \A b \in Approvals : b # a => task'[b] = task[b]
    BY <1>1, <2>1, <2>2 DEF TypeOK
  <2>4. TypeOK'
    BY <1>2, <1>3, <2>1, <2>3 DEF TypeOK
  <2>5. ApprovalStands'
    BY <1>2, <2>1 DEF ApprovalStands
  <2>6. OpenReviewIsExpected'
    BY <1>4, <2>1, <2>2, <2>3 DEF OpenReviewIsExpected
  <2> QED
    BY <1>5, <2>4, <2>5, <2>6
<1> QED
  BY <1>2, <1>6, <1>7

LEMMA StutterStep ==
    ASSUME IInv, UNCHANGED vars PROVE IInv'
  BY DEF IInv, vars, TypeOK, PostedOnce, OriginalIsSuperseded, ApprovalStands,
     OpenReviewIsExpected

LEMMA StepKeepsInvariant == IInv /\ [Next]_vars => IInv'
<1> SUFFICES ASSUME IInv, [Next]_vars PROVE IInv'
  OBVIOUS
<1>1. CASE LedgerStep
  <2> USE DEF LedgerStep
  <2>1. CASE \E r \in Records : Create(r) \/ Edit(r) \/ Submit(r) \/ ReverseRecord(r)
    BY <2>1, CreateStep, EditStep, SubmitStep, ReverseStep
  <2>2. CASE \E r \in Records, o \in Outcomes : Decide(r, o)
    BY <2>2, DecideStep
  <2>3. CASE \E r \in Records, n \in Records : Revise(r, n)
    BY <2>3, ReviseStep
  <2>4. CASE \E q \in Quotations : submit_quotation(q)
    BY <2>4, SubmitQuotationStep
  <2>5. CASE \E q \in Quotations, o \in Outcomes : decide_quotation(q, o)
    BY <2>5, DecideQuotationStep
  <2>6. CASE \E u \in Posters, r \in Records : BeginPost(u, r)
    BY <2>6, BeginPostStep
  <2>7. CASE \E u \in Posters : Post(u)
    BY <2>7, PostStep
  <2> QED
    BY <1>1, <2>1, <2>2, <2>3, <2>4, <2>5, <2>6, <2>7
<1>2. CASE \E a \in Approvals, p \in Approvers : FinishTask(a, p)
  BY <1>2, FinishStep
<1>3. CASE \E i \in DOMAIN intents : process_one(i)
  BY <1>3, ProcessStep
<1>4. CASE authorize_routing
  BY <1>4, RoutingStep
<1>5. CASE UNCHANGED vars
  BY <1>5, StutterStep
<1> QED
  BY <1>1, <1>2, <1>3, <1>4, <1>5 DEF Next

-----------------------------------------------------------------------------
\* In every reachable state the inductive invariant holds, hence the types of
\* the rows: what each service finds under its locks.
THEOREM Invariance == Spec => []IInv
<1> QED
  BY InitInvariant, StepKeepsInvariant, PTL DEF Spec

\* Of a record and its revisions one after the other at most one is posted,
\* and once, however posting overlaps with revision and another posting.
THEOREM PostedAtMostOnce == Spec => []OnePosting
<1>1. IInv => OnePosting
  <2> SUFFICES ASSUME IInv PROVE OnePosting
    OBVIOUS
  <2>1. \A r \in Records : journals[r] <= 1
    BY DEF IInv, PostedOnce
  <2>2. ASSUME NEW n \in Records, record[n].supersedes # None
        PROVE  journals[record[n].supersedes] = 0
    <3>1. record[n].supersedes \in Records
      BY <2>2, Rows DEF IInv
    <3>2. record[record[n].supersedes].status = "SUPERSEDED"
      BY <2>2 DEF IInv, OriginalIsSuperseded
    <3> QED
      BY <3>1, <3>2 DEF IInv, PostedOnce
  <2> QED
    BY <2>1, <2>2 DEF OnePosting
<1> QED
  BY <1>1, Invariance, PTL

\* What has been posted stands approved in the version that was posted.
THEOREM PostedStandsApproved == Spec => []PostedAsApproved
<1>1. IInv => PostedAsApproved
  <2> SUFFICES ASSUME IInv, NEW r \in Records, journals[r] > 0
               PROVE  approval[r].status = "APPROVED" /\ approval[r].version = record[r].version
    BY DEF PostedAsApproved
  <2>1. record[r].status \in {"POSTED", "REVERSED"}
    BY DEF IInv, PostedOnce
  <2> QED
    BY <2>1 DEF IInv, ApprovalStands
<1> QED
  BY <1>1, Invariance, PTL

\* A review task is open only while the decision is awaited or an intent will
\* close it: no order of the intents leaves one behind.
THEOREM NoReviewLeftBehind == Spec => []OpenReviewIsExpected
<1>1. IInv => OpenReviewIsExpected
  BY DEF IInv
<1> QED
  BY <1>1, Invariance, PTL
=============================================================================
