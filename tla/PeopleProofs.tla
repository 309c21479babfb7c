---------------------------- MODULE PeopleProofs -----------------------------
(*****************************************************************************)
(* Proofs about the people and the papers of the system: Organisation,       *)
(* PartyDocuments, AuditSummaries, Parties and Sessions, each of them for    *)
(* any users, rows and requests.                                             *)
(*****************************************************************************)
EXTENDS Organisation, PartyDocuments, AuditSummaries, Parties, Sessions,
        FiniteSetTheorems, NaturalsInduction, WellFoundedInduction, TLAPS

-----------------------------------------------------------------------------
(* Organisation.                                                           *)

LEMMA OrganisationConstants ==
    /\ MaxChanges \in Nat /\ MaxBatches \in Nat /\ MaxComments \in Nat
    /\ IsFiniteSet(Staff) /\ NoOne \notin Staff /\ NoOne \notin Departments
    /\ FirstProfile \in [Staff -> ProfileRow] /\ WithoutCircles(FirstProfile)
    /\ Cardinality(Staff) \in Nat
  BY OrganisationAssumption, FS_CardinalityType DEF OrganisationAssumption

\* Induction over the naturals, for a set of them.
LEMMA Counting ==
    ASSUME NEW T, 0 \in T, \A n \in Nat : n \in T => n + 1 \in T
    PROVE  Nat \subseteq T
<1> DEFINE Bad == Nat \ T
<1> SUFFICES ASSUME Bad # {} PROVE FALSE
  OBVIOUS
<1>1. PICK least \in Bad : \A n \in Bad : ~ (<<n, least>> \in OpToRel(<, Nat))
  <2>1. Bad \subseteq Nat
    OBVIOUS
  <2> HIDE DEF Bad
  <2> QED
    BY <2>1, NatLessThanWellFounded, WFMin
<1>2. \A n \in Nat : n < least => n \in T
  BY <1>1 DEF OpToRel
<1>3. least # 0 /\ least \in Nat /\ least - 1 \in Nat /\ least - 1 < least
  OBVIOUS
<1>4. (least - 1) + 1 \in T
  BY <1>2, <1>3
<1> QED
  BY <1>3, <1>4

\* The values of f applied over and over to a.
IsIterate(g, f, a, first, last, S) ==
    /\ g \in [first..last -> S]
    /\ \A n \in first..last : g[n] = IF n = first THEN a ELSE f[g[n-1]]

LEMMA Iterates ==
    ASSUME NEW first \in Int, NEW last \in Int, NEW S, NEW f \in [S -> S], NEW a \in S
    PROVE  \E g : IsIterate(g, f, a, first, last, S)
<1> USE DEF IsIterate
<1> DEFINE
  T == {k \in Nat : \E g \in [first..(first + k) -> S] :
           \A n \in first..(first + k) : g[n] = IF n = first THEN a ELSE f[g[n-1]]}
<1>1. 0 \in T
  <2>1. [n \in first..(first + 0) |-> a] \in [first..(first + 0) -> S]
    OBVIOUS
  <2>2. \A n \in first..(first + 0) : n = first
    OBVIOUS
  <2> QED
    BY <2>1, <2>2
<1>2. ASSUME NEW k \in Nat, k \in T PROVE k + 1 \in T
  <2>1. PICK g \in [first..(first + k) -> S] :
           \A n \in first..(first + k) : g[n] = IF n = first THEN a ELSE f[g[n-1]]
    BY <1>2
  <2> DEFINE h == [n \in first..(first + (k + 1)) |->
                       IF n = first + (k + 1) THEN f[g[first + k]] ELSE g[n]]
  <2>2. \A n \in first..(first + (k + 1)) :
           n \in first..(first + k) \/ (n = first + (k + 1) /\ n - 1 = first + k)
    OBVIOUS
  <2>3. h \in [first..(first + (k + 1)) -> S]
    BY <2>2
  <2>4. ASSUME NEW n \in first..(first + (k + 1))
        PROVE  h[n] = IF n = first THEN a ELSE f[h[n-1]]
    <3>1. CASE n = first + (k + 1)
      <4>1. n # first /\ n - 1 = first + k /\ n - 1 \in first..(first + k)
        BY <3>1
      <4>2. h[n - 1] = g[first + k]
        BY <4>1, <3>1
      <4> QED
        BY <3>1, <4>1, <4>2
    <3>2. CASE n # first + (k + 1)
      <4>1. n \in first..(first + k) /\ h[n] = g[n]
        BY <2>2, <3>2
      <4>2. n # first => n - 1 \in first..(first + k)
        BY <4>1
      <4>3. n # first => h[n - 1] = g[n - 1]
        BY <4>2
      <4> QED
        BY <2>1, <4>1, <4>3
    <3> QED
      BY <3>1, <3>2
  <2>5. k + 1 \in Nat /\ h \in [first..(first + (k + 1)) -> S]
    BY <2>3
  <2> HIDE DEF h
  <2> QED
    BY <2>4, <2>5
<1>3. Nat \subseteq T
  <2> HIDE DEF T
  <2> QED
    BY <1>1, <1>2, Counting
<1>4. CASE first <= last
  <2>1. last - first \in Nat /\ first + (last - first) = last
    BY <1>4
  <2>2. last - first \in T
    <3> HIDE DEF T
    <3> QED
      BY <2>1, <1>3
  <2> QED
    BY <2>1, <2>2
<1>5. CASE ~ (first <= last)
  <2> DEFINE g == [n \in first..last |-> a]
  <2>1. g \in [first..last -> S] /\ first..last = {}
    BY <1>5
  <2> HIDE DEF g
  <2> QED
    BY <2>1
<1> QED
  BY <1>4, <1>5

-----------------------------------------------------------------------------
(* Circles in the hierarchy.                                               *)

\* The people whose managers are among the given.
Reporting(managers) == {p \in Staff : profile[p].reports_to \in managers}

IsBelow(below, u) ==
    below = [n \in 1..Cardinality(Staff) |->
                IF n = 1 THEN Reporting({u}) ELSE below[n-1] \cup Reporting(below[n-1])]

LEMMA DescendantsByDefinition ==
    ASSUME NEW u
    PROVE  get_reporting_descendants(u) = (CHOOSE g : IsBelow(g, u))[Cardinality(Staff)]
BY DEF get_reporting_descendants, IsBelow, Reporting

LEMMA BelowExists ==
    ASSUME NEW u
    PROVE  \E g : IsBelow(g, u)
<1> DEFINE
  N == Cardinality(Staff)
  S == SUBSET Staff
  a == Reporting({u})
  f == [managers \in S |-> managers \cup Reporting(managers)]
<1>1. N \in Int /\ 1 \in Int /\ a \in S /\ f \in [S -> S]
  BY OrganisationConstants DEF Reporting
<1>2. \A managers \in S : f[managers] = managers \cup Reporting(managers)
  OBVIOUS
<1> HIDE DEF N, S, a, f
<1>3. PICK g \in [1..N -> S] : \A n \in 1..N : g[n] = IF n = 1 THEN a ELSE f[g[n-1]]
  <2>1. \E g : IsIterate(g, f, a, 1, N, S)
    BY <1>1, Iterates
  <2> QED
    BY <2>1 DEF IsIterate
<1>4. \A n \in 1..N : n # 1 => n - 1 \in 1..N
  BY <1>1
<1>5. g = [n \in 1..N |-> IF n = 1 THEN a ELSE g[n-1] \cup Reporting(g[n-1])]
  BY <1>2, <1>3, <1>4
<1> QED
  BY <1>5 DEF IsBelow, N, a

\* The iteration of the reports is what its recursive definition says.
LEMMA ReportsBelow ==
    ASSUME NEW u \in Staff
    PROVE  \E below : /\ get_reporting_descendants(u) = below[Cardinality(Staff)]
                      /\ IsBelow(below, u)
<1> DEFINE below == CHOOSE g : IsBelow(g, u)
<1>1. IsBelow(below, u)
  BY BelowExists
<1> QED
  BY <1>1, DescendantsByDefinition

\* Where there is no circle nobody reports to himself.
LEMMA NobodyBelowHimself ==
    ASSUME profile \in [Staff -> ProfileRow], WithoutCircles(profile), NEW u \in Staff
    PROVE  u \notin get_reporting_descendants(u)
<1> DEFINE N == Cardinality(Staff)
<1>0. PICK below : get_reporting_descendants(u) = below[N] /\ IsBelow(below, u)
  BY ReportsBelow
<1>1. \A n \in 1..N : below[n] =
         IF n = 1 THEN Reporting({u}) ELSE below[n-1] \cup Reporting(below[n-1])
  BY <1>0 DEF IsBelow
<1>2. N \in Nat /\ N # 0
  BY OrganisationConstants, FS_EmptySet
<1> DEFINE T == {n \in Nat : n + 1 \in 1..N =>
                    /\ below[n + 1] \subseteq Staff
                    /\ \A q \in below[n + 1] : profile[q].reports_to \in {u} \cup below[n + 1]}
<1> HIDE DEF N
<1>3. 0 \in T
  <2>1. 0 + 1 = 1 /\ 1 \in 1..N
    BY <1>2
  <2>2. below[1] = Reporting({u})
    BY <1>1, <2>1
  <2>3. below[0 + 1] = {p \in Staff : profile[p].reports_to = u}
    BY <2>1, <2>2 DEF Reporting
  <2> QED
    BY <2>3
<1>4. ASSUME NEW n \in Nat, n \in T PROVE n + 1 \in T
  <2> DEFINE next == below[(n + 1) + 1]
  <2> SUFFICES ASSUME (n + 1) + 1 \in 1..N
               PROVE  /\ next \subseteq Staff
                      /\ \A q \in next : profile[q].reports_to \in {u} \cup next
    BY <1>2
  <2>1. n + 1 \in 1..N /\ (n + 1) + 1 # 1 /\ ((n + 1) + 1) - 1 = n + 1
    BY <1>2
  <2>2. next = below[n + 1] \cup Reporting(below[n + 1])
    BY <1>1, <2>1
  <2>3. /\ below[n + 1] \subseteq Staff
        /\ \A p \in below[n + 1] : profile[p].reports_to \in {u} \cup below[n + 1]
    BY <1>4, <2>1
  <2> HIDE DEF next, T
  <2> QED
    BY <2>2, <2>3 DEF Reporting
<1>5. N - 1 \in Nat /\ (N - 1) + 1 = N /\ N \in 1..N
  BY <1>2
<1>6. N - 1 \in T
  <2> HIDE DEF T
  <2> QED
    BY <1>3, <1>4, <1>5, Counting
<1>7. \A q \in below[N] : profile[q].reports_to \in {u} \cup below[N]
  BY <1>5, <1>6
<1>8. below[N] \in SUBSET Staff
  BY <1>5, <1>6
<1> HIDE DEF T
<1> SUFFICES ASSUME u \in below[N] PROVE FALSE
  BY <1>0
<1>9. \A q \in below[N] : profile[q].reports_to \in below[N]
  BY <1>7
<1>10. below[N] # {}
  OBVIOUS
<1> QED
  BY <1>8, <1>9, <1>10 DEF WithoutCircles

-----------------------------------------------------------------------------
(* What was validated makes no circle.                                     *)

IsChain(chain, manager) ==
    chain = [n \in 0..Cardinality(Staff) |->
                IF n = 0 THEN manager
                ELSE IF chain[n-1] = NoOne THEN NoOne ELSE profile[chain[n-1]].reports_to]

LEMMA ChainByDefinition ==
    ASSUME NEW manager
    PROVE  ChainOf(manager) = CHOOSE chain : IsChain(chain, manager)
BY DEF ChainOf, IsChain

LEMMA ChainIs ==
    ASSUME profile \in [Staff -> ProfileRow], NEW manager \in Staff \cup {NoOne}
    PROVE  IsChain(ChainOf(manager), manager)
<1> DEFINE
  N == Cardinality(Staff)
  S == Staff \cup {NoOne}
  f == [p \in S |-> IF p = NoOne THEN NoOne ELSE profile[p].reports_to]
<1>1. N \in Int /\ 0 \in Int /\ manager \in S
  BY OrganisationConstants
<1>2. f \in [S -> S]
  BY DEF ProfileRow
<1>3. \A p \in S : f[p] = IF p = NoOne THEN NoOne ELSE profile[p].reports_to
  OBVIOUS
<1> HIDE DEF N, S, f
<1>4. PICK g \in [0..N -> S] : \A n \in 0..N : g[n] = IF n = 0 THEN manager ELSE f[g[n-1]]
  <2>1. \E g : IsIterate(g, f, manager, 0, N, S)
    BY <1>1, <1>2, Iterates
  <2> QED
    BY <2>1 DEF IsIterate
<1>5. \A n \in 0..N : n # 0 => n - 1 \in 0..N
  BY <1>1
<1>6. g = [n \in 0..N |-> IF n = 0 THEN manager
                ELSE IF g[n-1] = NoOne THEN NoOne ELSE profile[g[n-1]].reports_to]
  BY <1>3, <1>4, <1>5
<1>7. IsChain(g, manager)
  BY <1>6 DEF IsChain, N
<1> QED
  BY <1>7, ChainByDefinition

\* A profile that is saved as it was validated closes no circle.
LEMMA ValidIsWithoutCircles ==
    ASSUME profile \in [Staff -> ProfileRow], WithoutCircles(profile),
           NEW p \in Staff, NEW manager \in Staff \cup {NoOne}, validate(p, manager),
           NEW after \in [Staff -> ProfileRow], after[p].reports_to = manager,
           \A q \in Staff \ {p} : after[q].reports_to = profile[q].reports_to
    PROVE  WithoutCircles(after)
<1> SUFFICES ASSUME NEW circle, circle \subseteq Staff, circle # {},
                    \A q \in circle : after[q].reports_to \in circle
             PROVE  FALSE
  BY DEF WithoutCircles
<1>1. CASE p \notin circle
  <2>1. \A q \in circle : profile[q].reports_to \in circle
    BY <1>1
  <2> QED
    BY <2>1 DEF WithoutCircles
<1>2. CASE p \in circle
  <2> DEFINE
    N == Cardinality(Staff)
    chain == ChainOf(manager)
    T == {n \in Nat : n \in 0..N => chain[n] \in circle}
  <2>1. N \in Nat /\ NoOne \notin circle /\ manager \in circle
    BY <1>2, OrganisationConstants
  <2>2. IsChain(chain, manager)
    BY ChainIs
  <2>3. \A n \in 0..N : chain[n] = IF n = 0 THEN manager
           ELSE IF chain[n-1] = NoOne THEN NoOne ELSE profile[chain[n-1]].reports_to
    BY <2>2 DEF IsChain
  <2>4. chain[N] = NoOne /\ \A n \in 0..N : chain[n] # p
    <3>1. DOMAIN chain = 0..N
      BY <2>2 DEF IsChain
    <3> QED
      BY <3>1 DEF validate
  <2> HIDE DEF chain, N
  <2>5. 0 \in T
    BY <2>1, <2>3
  <2>6. ASSUME NEW n \in Nat, n \in T PROVE n + 1 \in T
    <3> SUFFICES ASSUME n + 1 \in 0..N PROVE chain[n + 1] \in circle
      OBVIOUS
    <3>1. n \in 0..N /\ n + 1 # 0 /\ (n + 1) - 1 = n
      BY <2>1
    <3>2. chain[n] \in circle /\ chain[n] # p
      BY <2>4, <2>6, <3>1
    <3>3. chain[n + 1] = IF chain[n] = NoOne THEN NoOne ELSE profile[chain[n]].reports_to
      BY <2>3, <3>1
    <3>4. profile[chain[n]].reports_to = after[chain[n]].reports_to
      BY <3>2
    <3> QED
      BY <2>1, <3>2, <3>3, <3>4
  <2>7. N \in T
    <3> HIDE DEF T
    <3> QED
      BY <2>1, <2>5, <2>6, Counting
  <2>8. chain[N] \in circle
    BY <2>1, <2>7
  <2> QED
    BY <2>1, <2>4, <2>8
<1> QED
  BY <1>1, <1>2

LEMMA ValidateSame ==
    ASSUME profile' = profile, NEW p, NEW manager
    PROVE  validate(p, manager) <=> validate(p, manager)'
BY DEF validate, ChainOf

-----------------------------------------------------------------------------

\* Everyone the service lets change a task, a batch or a comment also finds it.
LEMMA FindsTasks ==
    ASSUME OrganisationTypeOK, NEW u \in Staff, IsActiveStaff(u), NEW t \in duties,
           \/ can_update_task_status(u, t) \/ can_cancel_task(u, t)
           \/ can_archive_task(u, t) \/ can_manage_task(u, t)
    PROVE  t \in visible_tasks_for(u)
<1>1. can_manage_all_tasks(u) => can_view_all_tasks(u)
  BY DEF can_manage_all_tasks, can_view_all_tasks, has_any_permission
<1>2. can_manage_department_tasks(u) => can_view_department_tasks(u)
  BY DEF can_manage_department_tasks, can_view_department_tasks, has_any_permission,
     DEPARTMENT_VIEW_PERMISSIONS
<1> QED
  BY <1>1, <1>2 DEF visible_tasks_for, can_update_task_status, can_cancel_task,
     can_archive_task, can_manage_task

LEMMA FindsBatches ==
    ASSUME OrganisationInvariant, NEW u \in Staff, IsActiveStaff(u), NEW b \in DOMAIN batches,
           can_manage_batch(u, b)
    PROVE  b \in visible_batches_for(u)
<1> USE DEF OrganisationInvariant
<1>1. can_manage_all_tasks(u) => can_view_all_tasks(u)
  BY DEF can_manage_all_tasks, can_view_all_tasks, has_any_permission
<1>2. can_manage_department_tasks(u) => can_view_department_tasks(u)
  BY DEF can_manage_department_tasks, can_view_department_tasks, has_any_permission,
     DEPARTMENT_VIEW_PERMISSIONS
<1>3. PICK t \in duties :
         t.batch = b /\ (batches[b].source # NoOne => t.department = batches[b].source)
  BY DEF BatchesHaveDuties
<1>4. CASE can_manage_all_tasks(u)
  BY <1>1, <1>3, <1>4 DEF visible_batches_for, visible_tasks_for
<1>5. CASE batches[b].creator = u
  BY <1>5 DEF visible_batches_for
<1>6. CASE can_manage_department_tasks(u) /\ batches[b].source \in get_managed_departments(u)
  <2>1. batches[b].source # NoOne
    BY <1>6, OrganisationConstants DEF get_managed_departments
  <2> QED
    BY <1>2, <1>3, <1>6, <2>1 DEF visible_batches_for, visible_tasks_for
<1>7. CASE /\ can_manage_department_tasks(u)
           /\ \E d \in duties : d.batch = b /\ d.assigned_to \in get_management_scope(u)
  BY <1>2, <1>7 DEF visible_batches_for, visible_tasks_for
<1> QED
  BY <1>4, <1>5, <1>6, <1>7 DEF can_manage_batch

LEMMA InvariantManagersFind ==
    ASSUME OrganisationInvariant
    PROVE  ManagersFindTasks
<1> SUFFICES ASSUME NEW u \in Staff, IsActiveStaff(u)
             PROVE  \A c \in remarks :
                       can_edit_task_comment(u, c) \/ can_remove_task_comment(u, c)
                       => TaskOf(c) \in visible_tasks_for(u)
  BY FindsTasks, FindsBatches DEF OrganisationInvariant, ManagersFindTasks
<1> TAKE c \in remarks
<1>1. TaskOf(c) \in duties
  BY DEF OrganisationInvariant, RemarksHaveDuties, TaskOf
<1>2. can_manage_task(u, TaskOf(c)) => TaskOf(c) \in visible_tasks_for(u)
  BY <1>1, FindsTasks DEF OrganisationInvariant
<1> QED
  BY <1>2 DEF can_edit_task_comment, can_remove_task_comment, can_comment_on_task

LEMMA InvariantNoCircles ==
    ASSUME OrganisationInvariant
    PROVE  CirclesNeedRaces
BY NobodyBelowHimself DEF OrganisationInvariant, OrganisationTypeOK, NoCircles, CirclesNeedRaces

-----------------------------------------------------------------------------

LEMMA OrganisationStart == OrganisationInit => OrganisationInvariant
<1> SUFFICES ASSUME OrganisationInit PROVE OrganisationInvariant
  OBVIOUS
<1> USE DEF OrganisationInit
<1>1. OrganisationTypeOK
  <2>1. IsFiniteSet(remarks) /\ duties \subseteq DutyRow /\ remarks \subseteq RemarkRow
        /\ leaders \subseteq LeaderRow
    BY FS_EmptySet
  <2>2. batches \in Seq(BatchRow) /\ Len(batches) <= MaxBatches
    BY OrganisationConstants
  <2>3. profile \in [Staff -> ProfileRow]
    BY OrganisationConstants
  <2>4. updating \in [Administrators -> Updating \cup {NotUpdating}]
    OBVIOUS
  <2>5. raced \in BOOLEAN
    OBVIOUS
  <2>6. changes \in 0..MaxChanges
    BY OrganisationConstants
  <2> QED
    BY <2>1, <2>2, <2>3, <2>4, <2>5, <2>6 DEF OrganisationTypeOK
<1>2. BatchesHaveDuties /\ RemarksHaveDuties /\ DutiesHaveBatches
  BY DEF BatchesHaveDuties, RemarksHaveDuties, DutiesHaveBatches
<1>3. NoCircles
  BY OrganisationConstants DEF NoCircles
<1>4. ValidatedStaysValid
  BY DEF ValidatedStaysValid
<1> QED
  BY <1>1, <1>2, <1>3, <1>4 DEF OrganisationInvariant

\* What depends on the profiles alone stays as it is with them.
LEMMA SameProfiles ==
    ASSUME OrganisationInvariant, UNCHANGED <<profile, updating, raced>>
    PROVE  NoCircles' /\ ValidatedStaysValid'
<1>1. NoCircles'
  BY DEF OrganisationInvariant, NoCircles, WithoutCircles
<1>2. ValidatedStaysValid'
  BY ValidateSame DEF OrganisationInvariant, ValidatedStaysValid
<1> QED
  BY <1>1, <1>2

LEMMA UpdateKeeps ==
    ASSUME OrganisationInvariant, NEW k \in Administrators, NEW p \in Staff,
           NEW row \in RowsNear(p), update_profile(k, p, row)
    PROVE  OrganisationInvariant'
<1> USE DEF OrganisationInvariant
<1> DEFINE u == [staff |-> p, row |-> row, read |-> profile[p], stale |-> FALSE]
<1>1. row \in ProfileRow
  <2>1. profile[p] \in ProfileRow
    BY DEF OrganisationTypeOK
  <2> QED
    BY <2>1 DEF RowsNear, ProfileRow
<1>2. u \in Updating /\ u.staff = p /\ u.row = row
  BY <1>1 DEF Updating, OrganisationTypeOK
<1>3. updating' = [updating EXCEPT ![k] = u] /\ validate(p, row.reports_to)
  BY DEF update_profile
<1>4. profile' = profile /\ raced' = raced /\ batches' = batches /\ duties' = duties
      /\ remarks' = remarks /\ leaders' = leaders
      /\ changes < MaxChanges /\ changes' = changes + 1
  BY DEF update_profile
<1> HIDE DEF u
<1>5. OrganisationTypeOK'
  BY <1>2, <1>3, <1>4, OrganisationConstants DEF OrganisationTypeOK
<1>6. BatchesHaveDuties' /\ RemarksHaveDuties' /\ DutiesHaveBatches'
  BY <1>4 DEF BatchesHaveDuties, RemarksHaveDuties, DutiesHaveBatches
<1>7. NoCircles'
  BY <1>4 DEF NoCircles, WithoutCircles
<1>8. ASSUME NEW d \in Administrators, NEW q \in Staff, NEW manager \in Staff \cup {NoOne},
             updating'[d] # NotUpdating, ~updating'[d].stale,
             updating'[d].staff = q, updating'[d].row.reports_to = manager
      PROVE  validate(q, manager)'
  <2>1. CASE d = k
    <3>1. updating'[d] = u
      BY <1>3, <2>1 DEF OrganisationTypeOK
    <3>2. validate(q, manager)
      BY <1>2, <1>3, <1>8, <3>1
    <3> QED
      BY <1>4, <3>2, ValidateSame
  <2>2. CASE d # k
    <3>1. updating'[d] = updating[d]
      BY <1>3, <2>2 DEF OrganisationTypeOK
    <3>2. validate(q, manager)
      BY <1>8, <3>1 DEF ValidatedStaysValid
    <3> QED
      BY <1>4, <3>2, ValidateSame
  <2> QED
    BY <2>1, <2>2
<1>9. ValidatedStaysValid'
  BY <1>8 DEF ValidatedStaysValid
<1> QED
  BY <1>5, <1>6, <1>7, <1>9

LEMMA SaveKeeps ==
    ASSUME OrganisationInvariant, NEW k \in Administrators, save_profile(k)
    PROVE  OrganisationInvariant'
<1> USE DEF OrganisationInvariant
<1> DEFINE
  r == updating[k]
  saved == [department |-> r.row.department,
            reports_to |-> r.row.reports_to,
            active |-> IF r.row.active = r.read.active THEN profile[r.staff].active ELSE r.row.active,
            role |-> IF r.row.role = r.read.role THEN profile[r.staff].role ELSE r.row.role]
<1>1. r \in Updating
  BY DEF save_profile, OrganisationTypeOK
<1>2. r.staff \in Staff /\ r.row \in ProfileRow /\ r.read \in ProfileRow /\ r.stale \in BOOLEAN
  BY <1>1 DEF Updating
<1>3. saved \in ProfileRow /\ saved.reports_to = r.row.reports_to
  BY <1>2 DEF ProfileRow, OrganisationTypeOK
<1>4. profile' = [profile EXCEPT ![r.staff] = saved]
  BY <1>2 DEF save_profile, OrganisationTypeOK
<1>5. raced' = (raced \/ r.stale) /\ batches' = batches /\ duties' = duties
      /\ remarks' = remarks /\ leaders' = leaders /\ changes' = changes
  BY DEF save_profile
<1>6. \A d \in Administrators : updating'[d] =
         IF d = k \/ updating[d] = NotUpdating THEN NotUpdating
         ELSE [updating[d] EXCEPT !.stale = TRUE]
  BY DEF save_profile
<1>7. \A d \in Administrators : updating'[d] \in Updating \cup {NotUpdating}
  BY <1>6 DEF OrganisationTypeOK, Updating
<1>8. updating' \in [Administrators -> Updating \cup {NotUpdating}]
  BY <1>7 DEF save_profile
<1>9. \A d \in Administrators : updating'[d] = NotUpdating \/ updating'[d].stale = TRUE
  BY <1>6 DEF OrganisationTypeOK, Updating
<1> HIDE DEF r, saved
<1>10. profile' \in [Staff -> ProfileRow] /\ profile'[r.staff] = saved
       /\ \A q \in Staff \ {r.staff} : profile'[q] = profile[q]
  BY <1>2, <1>3, <1>4 DEF OrganisationTypeOK
<1>11. OrganisationTypeOK'
  <2>1. raced' \in BOOLEAN
    BY <1>2, <1>5 DEF OrganisationTypeOK
  <2> QED
    BY <1>5, <1>8, <1>10, <2>1 DEF OrganisationTypeOK
<1>12. BatchesHaveDuties' /\ RemarksHaveDuties' /\ DutiesHaveBatches'
  BY <1>5 DEF BatchesHaveDuties, RemarksHaveDuties, DutiesHaveBatches
<1>13. NoCircles'
  <2> SUFFICES ASSUME ~raced' PROVE WithoutCircles(profile')
    BY DEF NoCircles
  <2>1. ~raced /\ ~r.stale
    BY <1>2, <1>5 DEF OrganisationTypeOK
  <2>2. WithoutCircles(profile)
    BY <2>1 DEF NoCircles
  <2>4. r.row.reports_to \in Staff \cup {NoOne}
    BY <1>2 DEF ProfileRow
  <2>3. validate(r.staff, r.row.reports_to)
    <3>1. updating[k] # NotUpdating
      BY DEF save_profile
    <3> QED
      BY <1>2, <2>1, <2>4, <3>1 DEF ValidatedStaysValid, r
  <2>5. profile \in [Staff -> ProfileRow]
    BY DEF OrganisationTypeOK
  <2>6. \A q \in Staff \ {r.staff} : profile'[q].reports_to = profile[q].reports_to
    BY <1>10
  <2>7. profile'[r.staff].reports_to = r.row.reports_to
    BY <1>3, <1>10
  <2> QED
    BY <1>2, <1>10, <2>2, <2>3, <2>4, <2>5, <2>6, <2>7, ValidIsWithoutCircles
<1>14. ValidatedStaysValid'
  BY <1>9 DEF ValidatedStaysValid
<1> QED
  BY <1>11, <1>12, <1>13, <1>14

LEMMA LeadersKeep ==
    ASSUME OrganisationInvariant, NEW d \in Departments, NEW p \in Staff,
           appoint_leader(d, p) \/ end_leadership(d, p)
    PROVE  OrganisationInvariant'
<1> USE DEF OrganisationInvariant
<1>1. UNCHANGED <<profile, updating, raced, batches, duties, remarks>>
      /\ leaders' \subseteq leaders \cup {<<d, p>>}
      /\ changes < MaxChanges /\ changes' = changes + 1
  BY DEF appoint_leader, end_leadership
<1>2. OrganisationTypeOK'
  BY <1>1, OrganisationConstants DEF OrganisationTypeOK, LeaderRow
<1>3. BatchesHaveDuties' /\ RemarksHaveDuties' /\ DutiesHaveBatches'
  BY <1>1 DEF BatchesHaveDuties, RemarksHaveDuties, DutiesHaveBatches
<1>4. NoCircles' /\ ValidatedStaysValid'
  BY <1>1, SameProfiles
<1> QED
  BY <1>2, <1>3, <1>4

LEMMA CreateKeeps ==
    ASSUME OrganisationInvariant, NEW u \in Staff,
           NEW type \in {"PERSONAL", "USERS", "DEPARTMENT"},
           NEW source \in Departments \cup {NoOne}, NEW recipients,
           recipients \subseteq Staff,
           source # NoOne => \A p \in recipients : profile[p].department = source,
           create_task_assignment(u, type, source, recipients)
    PROVE  OrganisationInvariant'
<1> USE DEF OrganisationInvariant
<1> DEFINE
  b == [creator |-> u, type |-> type, source |-> source]
  duty(p) == [batch |-> Len(batches) + 1, assigned_to |-> p,
              department |-> profile[p].department, archived |-> FALSE]
<1>1. UNCHANGED <<profile, leaders, updating, raced, changes, remarks>>
      /\ Len(batches) < MaxBatches /\ recipients # {}
      /\ batches' = Append(batches, b)
      /\ duties' = duties \cup {duty(p) : p \in recipients}
  BY DEF create_task_assignment
<1>2. b \in BatchRow /\ b.source = source
  BY DEF BatchRow
<1> HIDE DEF b
<1>3. batches \in Seq(BatchRow) /\ Len(batches) \in Nat
  BY DEF OrganisationTypeOK
<1>4. /\ batches' \in Seq(BatchRow) /\ Len(batches') = Len(batches) + 1
      /\ DOMAIN batches' = 1..(Len(batches) + 1) /\ DOMAIN batches = 1..Len(batches)
      /\ \A i \in 1..Len(batches) : batches'[i] = batches[i]
      /\ batches'[Len(batches) + 1] = b
  BY <1>1, <1>2, <1>3
<1>5. \A p \in recipients : duty(p) \in DutyRow /\ duty(p).batch = Len(batches) + 1
                            /\ duty(p).department = profile[p].department
  BY <1>1, <1>3, OrganisationConstants DEF DutyRow, OrganisationTypeOK, ProfileRow
<1> HIDE DEF duty
<1>6. OrganisationTypeOK'
  BY <1>1, <1>3, <1>4, <1>5, OrganisationConstants DEF OrganisationTypeOK
<1>7. BatchesHaveDuties'
  <2> SUFFICES ASSUME NEW i \in 1..(Len(batches) + 1)
               PROVE  \E t \in duties' : t.batch = i
                         /\ (batches'[i].source # NoOne => t.department = batches'[i].source)
    BY <1>4 DEF BatchesHaveDuties
  <2>1. CASE i \in 1..Len(batches)
    BY <1>1, <1>4, <2>1 DEF BatchesHaveDuties
  <2>2. CASE i = Len(batches) + 1
    <3>1. PICK p \in recipients : TRUE
      BY <1>1
    <3>2. duty(p) \in duties' /\ batches'[i].source = source
      BY <1>1, <1>2, <1>4, <2>2
    <3> QED
      BY <1>5, <2>2, <3>2
  <2> QED
    BY <1>3, <2>1, <2>2
<1>8. RemarksHaveDuties'
  BY <1>1 DEF RemarksHaveDuties
<1>9. DutiesHaveBatches'
  BY <1>1, <1>3, <1>4, <1>5 DEF DutiesHaveBatches
<1>10. NoCircles' /\ ValidatedStaysValid'
  BY <1>1, SameProfiles
<1> QED
  BY <1>6, <1>7, <1>8, <1>9, <1>10

LEMMA ArchiveKeeps ==
    ASSUME OrganisationInvariant, NEW t \in duties, NEW archived \in BOOLEAN, Archive(t, archived)
    PROVE  OrganisationInvariant'
<1> USE DEF OrganisationInvariant
<1> DEFINE new == [t EXCEPT !.archived = archived]
<1>1. UNCHANGED <<profile, leaders, updating, raced, changes, batches, remarks>>
      /\ duties' = (duties \ {t}) \cup {new}
  BY DEF Archive
<1>2. t \in DutyRow
  BY DEF OrganisationTypeOK
<1>3. new \in DutyRow /\ new.batch = t.batch /\ new.assigned_to = t.assigned_to
      /\ new.department = t.department
  BY <1>2 DEF DutyRow
<1> HIDE DEF new
<1>4. OrganisationTypeOK'
  BY <1>1, <1>3 DEF OrganisationTypeOK
<1>5. BatchesHaveDuties'
  BY <1>1, <1>3 DEF BatchesHaveDuties
<1>6. RemarksHaveDuties'
  BY <1>1, <1>3 DEF RemarksHaveDuties
<1>7. DutiesHaveBatches'
  BY <1>1, <1>3 DEF DutiesHaveBatches
<1>8. NoCircles' /\ ValidatedStaysValid'
  BY <1>1, SameProfiles
<1> QED
  BY <1>4, <1>5, <1>6, <1>7, <1>8

\* Comments come and change; each stays with its task.
LEMMA RemarksKeep ==
    ASSUME OrganisationInvariant,
           UNCHANGED <<profile, leaders, updating, raced, changes, batches, duties>>,
           NEW kept, kept \subseteq remarks, NEW new \in RemarkRow,
           remarks' = kept \cup {new},
           \E t \in duties : <<t.batch, t.assigned_to>> = new.task
    PROVE  OrganisationInvariant'
<1> USE DEF OrganisationInvariant
<1>1. IsFiniteSet(remarks')
  BY FS_Subset, FS_AddElement DEF OrganisationTypeOK
<1>2. OrganisationTypeOK'
  BY <1>1 DEF OrganisationTypeOK
<1>3. BatchesHaveDuties' /\ DutiesHaveBatches'
  BY DEF BatchesHaveDuties, DutiesHaveBatches
<1>4. RemarksHaveDuties'
  BY DEF RemarksHaveDuties
<1>5. NoCircles' /\ ValidatedStaysValid'
  BY SameProfiles
<1> QED
  BY <1>2, <1>3, <1>4, <1>5

LEMMA AddRemarkKeeps ==
    ASSUME OrganisationInvariant, NEW u \in Staff, NEW t \in duties, add_task_comment(u, t)
    PROVE  OrganisationInvariant'
<1> DEFINE new == [id |-> Cardinality(remarks) + 1, task |-> <<t.batch, t.assigned_to>>,
                   author |-> u, edited |-> FALSE, removed |-> FALSE]
<1>1. Cardinality(remarks) \in Nat /\ Cardinality(remarks) < MaxComments
  BY FS_CardinalityType DEF OrganisationInvariant, OrganisationTypeOK, add_task_comment
<1>2. t.batch \in 1..MaxBatches /\ t.assigned_to \in Staff
  BY DEF OrganisationInvariant, OrganisationTypeOK, DutyRow
<1>3. new \in RemarkRow /\ new.task = <<t.batch, t.assigned_to>>
  BY <1>1, <1>2, OrganisationConstants DEF RemarkRow
<1>4. remarks' = remarks \cup {new}
      /\ UNCHANGED <<profile, leaders, updating, raced, changes, batches, duties>>
  BY DEF add_task_comment
<1> HIDE DEF new
<1> QED
  BY <1>3, <1>4, RemarksKeep

LEMMA ChangeRemarkKeeps ==
    ASSUME OrganisationInvariant, NEW u \in Staff, NEW c \in remarks,
           edit_task_comment(u, c) \/ remove_task_comment(u, c)
    PROVE  OrganisationInvariant'
<1>1. c \in RemarkRow
  BY DEF OrganisationInvariant, OrganisationTypeOK
<1>2. PICK new \in RemarkRow : remarks' = (remarks \ {c}) \cup {new} /\ new.task = c.task
  <2>1. CASE edit_task_comment(u, c)
    <3>1. [c EXCEPT !.edited = TRUE] \in RemarkRow /\ [c EXCEPT !.edited = TRUE].task = c.task
      BY <1>1 DEF RemarkRow
    <3> QED
      BY <2>1, <3>1 DEF edit_task_comment
  <2>2. CASE remove_task_comment(u, c)
    <3>1. [c EXCEPT !.removed = TRUE] \in RemarkRow /\ [c EXCEPT !.removed = TRUE].task = c.task
      BY <1>1 DEF RemarkRow
    <3> QED
      BY <2>2, <3>1 DEF remove_task_comment
  <2> QED
    BY <2>1, <2>2
<1>3. UNCHANGED <<profile, leaders, updating, raced, changes, batches, duties>>
  BY DEF edit_task_comment, remove_task_comment
<1>4. \E t \in duties : <<t.batch, t.assigned_to>> = new.task
  BY <1>2 DEF OrganisationInvariant, RemarksHaveDuties
<1>5. remarks \ {c} \subseteq remarks
  OBVIOUS
<1> QED
  BY <1>2, <1>3, <1>4, <1>5, RemarksKeep

LEMMA UserKeeps ==
    ASSUME OrganisationInvariant, NEW u \in Staff,
           \/ create_personal(u)
           \/ \E recipients \in SUBSET Staff : create_for_users(u, recipients)
           \/ \E d \in Departments, b \in BOOLEAN : create_for_department(u, d, b)
           \/ \E t \in duties : archive_task(u, t) \/ restore_task(u, t) \/ add_task_comment(u, t)
           \/ \E c \in remarks : edit_task_comment(u, c) \/ remove_task_comment(u, c)
    PROVE  OrganisationInvariant'
<1>1. CASE create_personal(u)
  <2>1. {u} \subseteq Staff
    OBVIOUS
  <2> QED
    BY <1>1, <2>1, CreateKeeps DEF create_personal
<1>2. ASSUME NEW recipients \in SUBSET Staff, create_for_users(u, recipients)
      PROVE  OrganisationInvariant'
  BY <1>2, CreateKeeps DEF create_for_users
<1>3. ASSUME NEW d \in Departments, NEW b \in BOOLEAN, create_for_department(u, d, b)
      PROVE  OrganisationInvariant'
  <2> DEFINE recipients == {p \in Staff : /\ profile[p].active /\ profile[p].department = d
                                          /\ b \/ p # u}
  <2>1. create_task_assignment(u, "DEPARTMENT", d, recipients)
    BY <1>3 DEF create_for_department
  <2>2. recipients \subseteq Staff /\ \A p \in recipients : profile[p].department = d
    OBVIOUS
  <2> HIDE DEF recipients
  <2> QED
    BY <2>1, <2>2, CreateKeeps
<1>4. ASSUME NEW t \in duties, archive_task(u, t) \/ restore_task(u, t) \/ add_task_comment(u, t)
      PROVE  OrganisationInvariant'
  <2>1. CASE add_task_comment(u, t)
    BY <2>1, AddRemarkKeeps
  <2>2. CASE archive_task(u, t) \/ restore_task(u, t)
    BY <2>2, ArchiveKeeps DEF archive_task, restore_task
  <2> QED
    BY <1>4, <2>1, <2>2
<1>5. ASSUME NEW c \in remarks, edit_task_comment(u, c) \/ remove_task_comment(u, c)
      PROVE  OrganisationInvariant'
  BY <1>5, ChangeRemarkKeeps
<1> QED
  BY <1>1, <1>2, <1>3, <1>4, <1>5

\* The hierarchy without races, and a task behind every batch and comment: invariants
\* of Organisation.
THEOREM OrganisationInvariance == OrganisationSpec => []OrganisationInvariant
<1>1. OrganisationInvariant /\ [OrganisationNext]_organisationVars => OrganisationInvariant'
  <2> SUFFICES ASSUME OrganisationInvariant, [OrganisationNext]_organisationVars
               PROVE  OrganisationInvariant'
    OBVIOUS
  <2>1. CASE UNCHANGED organisationVars
    <3>1. UNCHANGED <<profile, leaders, updating, raced, changes, batches, duties, remarks>>
      BY <2>1 DEF organisationVars
    <3>2. NoCircles' /\ ValidatedStaysValid'
      BY <3>1, SameProfiles
    <3> QED
      BY <3>1, <3>2 DEF OrganisationInvariant, OrganisationTypeOK,
         BatchesHaveDuties, RemarksHaveDuties, DutiesHaveBatches
  <2>2. ASSUME NEW k \in Administrators,
               \/ \E p \in Staff : \E row \in RowsNear(p) : update_profile(k, p, row)
               \/ save_profile(k)
        PROVE  OrganisationInvariant'
    BY <2>2, UpdateKeeps, SaveKeeps
  <2>3. ASSUME NEW d \in Departments, NEW p \in Staff, appoint_leader(d, p) \/ end_leadership(d, p)
        PROVE  OrganisationInvariant'
    BY <2>3, LeadersKeep
  <2>4. CASE OrganisationNext
    BY <2>2, <2>3, <2>4, UserKeeps DEF OrganisationNext
  <2> QED
    BY <2>1, <2>4
<1> QED
  BY OrganisationStart, <1>1, PTL DEF OrganisationSpec

\* ManagersFindTasks (tasks/views/tasks.py:203): whoever may change a row finds it.
THEOREM ManagersFindTheirTasks == OrganisationSpec => []ManagersFindTasks
<1>1. OrganisationInvariant => ManagersFindTasks
  BY InvariantManagersFind
<1> QED
  BY <1>1, OrganisationInvariance, PTL

\* CirclesNeedRaces (accounts/serializers.py:738): no circle without a race.
THEOREM CirclesComeFromRaces == OrganisationSpec => []CirclesNeedRaces
<1>1. OrganisationInvariant => CirclesNeedRaces
  BY InvariantNoCircles
<1> QED
  BY <1>1, OrganisationInvariance, PTL

-----------------------------------------------------------------------------
(* PartyDocuments.                                                         *)

LEMMA DocumentConstants ==
    /\ Dates \subseteq Nat \ {0} /\ MaxUploads \in Nat /\ MaxUpdates \in Nat
    /\ NoDocument \notin DocumentRow
  BY DocumentsAssumption DEF DocumentsAssumption

\* What a request at work on a document holds.
LEMMA Tasks ==
    ASSUME DocumentsTypeOK, NEW u \in Users
    PROVE  /\ task[u] # NoTask <=> task[u].op # "NONE"
           /\ task[u] # NoTask => task[u].id \in DocumentIds
           /\ task[u].op \in {"STORE", "INSERT"} => task[u].expires \in Dates \cup {0}
           /\ task[u].op \in {"NOTIFY", "KEY"} => task[u].key \in Dates
           /\ task[u].op = "PATCH" => task[u].row \in DocumentRow
  BY DEF DocumentsTypeOK, DocumentTask, NoTask

LEMMA Gone ==
    ASSUME DocumentsTypeOK, NEW u \in Users, NEW t, Goto(u, t)
    PROVE  /\ task'[u] = t
           /\ \A v \in Users \ {u} : task'[v] = task[v]
           /\ t \in DocumentTask => task' \in [Users -> DocumentTask]
  BY DEF DocumentsTypeOK, Goto

LEMMA NoTaskFacts == NoTask \in DocumentTask /\ NoTask.op = "NONE"
  BY DEF DocumentTask, NoTask

\* Each row has a path of its own.
LEMMA PathsDiffer == \A d, e \in DocumentIds : Path(d) = Path(e) => d = e
  BY DEF Path

LEMMA DocumentsStart == DocumentsInit => DocumentsInvariant
<1> SUFFICES ASSUME DocumentsInit PROVE DocumentsInvariant
  OBVIOUS
<1>1. DocumentsTypeOK
  BY NoTaskFacts, DocumentConstants DEF DocumentsInit, DocumentsTypeOK, Warnings
<1> QED
  BY <1>1, NoTaskFacts DEF DocumentsInit, DocumentsInvariant, UploadsOwnIds,
     InsertsHaveFiles,
     RowsAtWork, RemovedExist, ActiveHasFile, Uploading, Active

\* A request that ends or dies: the others go on as they were.
LEMMA EndKeeps ==
    ASSUME DocumentsInvariant, NEW u \in Users, Goto(u, NoTask),
           UNCHANGED <<documents, removed>>,
           files' \subseteq {Path(d) : d \in DocumentIds}, files \subseteq files',
           warnings' \in [DocumentIds -> [Dates -> Warnings]],
           UNCHANGED <<uploads, updates>>
    PROVE  DocumentsInvariant'
<1> USE DEF DocumentsInvariant
<1>1. DocumentsTypeOK'
  BY Gone, NoTaskFacts DEF DocumentsTypeOK
<1>2. UploadsOwnIds'
  BY Gone, NoTaskFacts DEF UploadsOwnIds, Uploading
<1>3. InsertsHaveFiles'
  BY Gone, NoTaskFacts DEF InsertsHaveFiles
<1>4. RowsAtWork'
  BY Gone, NoTaskFacts DEF RowsAtWork, Uploading, Active
<1>5. RemovedExist'
  BY DEF RemovedExist
<1>6. ActiveHasFile'
  BY DEF ActiveHasFile, Active
<1> QED
  BY <1>1, <1>2, <1>3, <1>4, <1>5, <1>6

LEMMA BeginUploadKeeps ==
    ASSUME DocumentsInvariant, NEW u \in Users, NEW d \in DocumentIds,
           NEW expires \in Dates \cup {0}, begin_upload(u, d, expires)
    PROVE  DocumentsInvariant'
<1> USE DEF DocumentsInvariant
<1> DEFINE t == [op |-> "STORE", id |-> d, expires |-> expires]
<1>1. t \in DocumentTask /\ t.op = "STORE" /\ t.id = d /\ Goto(u, t)
  BY DEF DocumentTask, begin_upload
<1> HIDE DEF t
<1>2. /\ task[u] = NoTask /\ documents[d] = NoDocument
      /\ \A v \in Users : task[v] # NoTask => task[v].id # d
      /\ UNCHANGED <<documents, files, warnings, updates, removed>>
  BY DEF begin_upload
<1>3. DocumentsTypeOK'
  BY <1>1, Gone, DocumentConstants DEF DocumentsTypeOK, begin_upload
<1>4. UploadsOwnIds'
  <2>1. task'[u].id = d /\ \A v \in Users \ {u} : task'[v] = task[v]
    BY <1>1, Gone
  <2>2. \A v \in Users \ {u} : Uploading(v)' => Uploading(v) /\ task[v] # NoTask
    BY <2>1, NoTaskFacts DEF Uploading
  <2> QED
    BY <1>2, <2>1, <2>2 DEF UploadsOwnIds
<1>5. InsertsHaveFiles'
  BY <1>1, <1>2, Gone DEF InsertsHaveFiles
<1>6. RowsAtWork'
  BY <1>1, <1>2, Gone DEF RowsAtWork, Uploading, Active
<1>7. RemovedExist' /\ ActiveHasFile'
  BY <1>2 DEF RemovedExist, ActiveHasFile, Active
<1> QED
  BY <1>3, <1>4, <1>5, <1>6, <1>7

LEMMA StoreKeepsDocuments ==
    ASSUME DocumentsInvariant, NEW u \in Users, store_file(u)
    PROVE  DocumentsInvariant'
<1> USE DEF DocumentsInvariant
<1> DEFINE d == task[u].id
           t == [task[u] EXCEPT !.op = "INSERT"]
<1>1. task[u].op = "STORE" /\ d \in DocumentIds /\ UNCHANGED <<documents, warnings, uploads, updates, removed>>
  BY Tasks, NoTaskFacts DEF store_file
<1>2. CASE files' = files \cup {Path(d)} /\ Goto(u, t)
  <2>1. t \in DocumentTask /\ t.op = "INSERT" /\ t.id = d
    <3>1. task[u] \in [op : {"STORE", "INSERT"}, id : DocumentIds, expires : Dates \cup {0}]
      BY <1>1 DEF DocumentsTypeOK, DocumentTask, NoTask
    <3> QED
      BY <3>1 DEF DocumentTask
  <2> HIDE DEF t
  <2>2. DocumentsTypeOK'
    BY <1>1, <1>2, <2>1, Gone DEF DocumentsTypeOK
  <2>3. UploadsOwnIds'
    BY <1>1, <1>2, <2>1, Gone, NoTaskFacts DEF UploadsOwnIds, Uploading
  <2>4. InsertsHaveFiles'
    BY <1>1, <1>2, <2>1, Gone DEF InsertsHaveFiles
  <2>5. RowsAtWork'
    BY <1>1, <1>2, <2>1, Gone DEF RowsAtWork, Uploading, Active
  <2>6. RemovedExist' /\ ActiveHasFile'
    BY <1>1, <1>2 DEF RemovedExist, ActiveHasFile, Active
  <2> QED
    BY <2>2, <2>3, <2>4, <2>5, <2>6
<1>3. CASE Goto(u, NoTask) /\ \E left \in {{}, {Path(d)}} : files' = files \cup left
  <2>1. files' \subseteq {Path(e) : e \in DocumentIds} /\ files \subseteq files'
    BY <1>1, <1>3 DEF DocumentsTypeOK
  <2> QED
    BY <1>1, <1>3, <2>1, EndKeeps DEF DocumentsTypeOK
<1> QED
  BY <1>2, <1>3 DEF store_file

\* The new row has the file its request has stored.
LEMMA CreateRecordKeeps ==
    ASSUME DocumentsInvariant, NEW u \in Users, create_party_document_record(u)
    PROVE  DocumentsInvariant'
<1> USE DEF DocumentsInvariant
<1> DEFINE d == task[u].id
           r == [active |-> TRUE, confidential |-> FALSE, expires |-> task[u].expires,
           key |-> 0]
           warn == [op |-> "WARN", id |-> d]
           discard == [op |-> "DISCARD", id |-> d]
<1>1. /\ task[u].op = "INSERT" /\ task[u] # NoTask /\ d \in DocumentIds
      /\ task[u].expires \in Dates \cup {0}
      /\ UNCHANGED <<files, warnings, uploads, updates, removed>>
  BY Tasks, NoTaskFacts DEF create_party_document_record
<1>2. /\ warn \in DocumentTask /\ warn.op = "WARN" /\ warn.id = d
      /\ discard \in DocumentTask /\ discard.op = "DISCARD" /\ discard.id = d
  BY <1>1 DEF DocumentTask
<1>3. r \in DocumentRow /\ r.active
  BY <1>1 DEF DocumentRow
<1>4. documents[d] = NoDocument /\ \A v \in Users \ {u} : task[v] # NoTask => task[v].id # d
  BY <1>1 DEF UploadsOwnIds, Uploading
<1>5. CASE /\ documents' = [documents EXCEPT ![d] = r]
           /\ Goto(u, NoTask) \/ Goto(u, warn)
  <2> HIDE DEF r, warn, d
  <2>1. DocumentsTypeOK'
    BY <1>1, <1>2, <1>3, <1>5, Gone, NoTaskFacts DEF DocumentsTypeOK
  <2>2. documents'[d] = r /\ r # NoDocument /\ \A e \in DocumentIds \ {d} : documents'[e] = documents[e]
    BY <1>1, <1>3, <1>5, DocumentConstants DEF DocumentsTypeOK
  <2>3. \A v \in Users \ {u} : task'[v] = task[v] /\ (task[v] # NoTask => task[v].id \in DocumentIds \ {d})
    BY <1>4, <1>5, Gone, Tasks
  <2>4. UploadsOwnIds'
    BY <1>2, <1>5, <2>2, <2>3, Gone, NoTaskFacts DEF UploadsOwnIds, Uploading
  <2>5. InsertsHaveFiles'
    BY <1>1, <1>2, <1>5, <2>3, Gone, NoTaskFacts DEF InsertsHaveFiles
  <2>6. RowsAtWork'
    BY <1>1, <1>2, <1>5, <2>2, <2>3, Gone, NoTaskFacts DEF RowsAtWork, Uploading, Active
  <2>7. RemovedExist' /\ ActiveHasFile'
    BY <1>1, <2>2 DEF RemovedExist, ActiveHasFile, Active, InsertsHaveFiles,
     DocumentsTypeOK, d
  <2> QED
    BY <2>1, <2>4, <2>5, <2>6, <2>7
<1>6. CASE Goto(u, discard) /\ UNCHANGED documents
  <2> HIDE DEF discard, d
  <2>1. DocumentsTypeOK'
    BY <1>1, <1>2, <1>6, Gone DEF DocumentsTypeOK
  <2>2. UploadsOwnIds'
    <3>1. /\ task'[u].op = "DISCARD" /\ task'[u].id = d
          /\ \A v \in Users \ {u} : task'[v] = task[v]
      BY <1>2, <1>6, Gone
    <3>2. \A v \in Users : Uploading(v)' => Uploading(v) /\ task'[v].id = task[v].id
      BY <1>1, <3>1 DEF Uploading, d
    <3>3. \A v \in Users : task'[v] # NoTask => task[v] # NoTask /\ task'[v].id = task[v].id
      BY <1>1, <3>1 DEF d
    <3> QED
      BY <1>6, <3>2, <3>3 DEF UploadsOwnIds
  <2>3. InsertsHaveFiles'
    BY <1>1, <1>2, <1>6, Gone DEF InsertsHaveFiles
  <2>4. RowsAtWork'
    BY <1>1, <1>2, <1>6, Gone DEF RowsAtWork, Uploading, Active
  <2>5. RemovedExist' /\ ActiveHasFile'
    BY <1>1, <1>6 DEF RemovedExist, ActiveHasFile, Active
  <2> QED
    BY <2>1, <2>2, <2>3, <2>4, <2>5
<1> QED
  BY <1>5, <1>6 DEF create_party_document_record

\* The file that is discarded belongs to no row.
LEMMA DiscardFileKeeps ==
    ASSUME DocumentsInvariant, NEW u \in Users, discard_file(u)
    PROVE  DocumentsInvariant'
<1> USE DEF DocumentsInvariant
<1> DEFINE d == task[u].id
<1>1. /\ task[u].op = "DISCARD" /\ task[u] # NoTask /\ d \in DocumentIds /\ Goto(u, NoTask)
      /\ files' = files \ {Path(d)} \/ files' = files
      /\ UNCHANGED <<documents, warnings, uploads, updates, removed>>
  BY Tasks, NoTaskFacts DEF discard_file
<1>2. documents[d] = NoDocument /\ \A v \in Users \ {u} : task[v] # NoTask => task[v].id # d
  BY <1>1 DEF UploadsOwnIds, Uploading
<1>3. \A e \in DocumentIds : e # d /\ Path(e) \in files => Path(e) \in files'
  BY <1>1, PathsDiffer
<1>4. DocumentsTypeOK'
  BY <1>1, Gone, NoTaskFacts DEF DocumentsTypeOK
<1>5. UploadsOwnIds'
  BY <1>1, Gone, NoTaskFacts DEF UploadsOwnIds, Uploading
<1>6. InsertsHaveFiles'
  BY <1>1, <1>2, <1>3, Gone, NoTaskFacts, Tasks DEF InsertsHaveFiles
<1>7. RowsAtWork'
  <2>1. task'[u] = NoTask /\ \A v \in Users \ {u} : task'[v] = task[v]
    BY <1>1, Gone
  <2>2. \A v \in Users \ {u} : task[v] # NoTask => task[v].id \in DocumentIds /\ task[v].id # d
    BY <1>2, Tasks
  <2> QED
    BY <1>1, <1>3, <2>1, <2>2, NoTaskFacts DEF RowsAtWork, Uploading
<1>8. RemovedExist' /\ ActiveHasFile'
  BY <1>1, <1>2, <1>3 DEF RemovedExist, ActiveHasFile, Active
<1> QED
  BY <1>4, <1>5, <1>6, <1>7, <1>8

\* A step of a request about a row that is there, which changes no row and no file.
LEMMA GoOnKeeps ==
    ASSUME DocumentsInvariant, NEW u \in Users, NEW t \in DocumentTask, Goto(u, t),
           t.op \in {"WARN", "NOTIFY", "KEY", "PATCH"},
           documents[t.id] # NoDocument,
           t.op = "PATCH" => t.row = documents[t.id],
           UNCHANGED <<documents, files, removed>>,
           warnings' \in [DocumentIds -> [Dates -> Warnings]],
           uploads' \in 0..MaxUploads, updates' \in 0..MaxUpdates
    PROVE  DocumentsInvariant'
<1> USE DEF DocumentsInvariant
<1>1. DocumentsTypeOK'
  BY Gone DEF DocumentsTypeOK
<1>2. UploadsOwnIds'
  BY Gone DEF UploadsOwnIds, Uploading
<1>3. InsertsHaveFiles'
  BY Gone DEF InsertsHaveFiles
<1>4. RowsAtWork'
  <2>1. t.op = "PATCH" /\ t.row.active => Path(t.id) \in files \/ t.id \in removed
    BY DEF ActiveHasFile, Active, DocumentTask, NoTask
  <2> QED
    BY <2>1, Gone DEF RowsAtWork, Uploading
<1>5. RemovedExist' /\ ActiveHasFile'
  BY DEF RemovedExist, ActiveHasFile, Active
<1> QED
  BY <1>1, <1>2, <1>3, <1>4, <1>5

LEMMA CancelledType ==
    ASSUME DocumentsTypeOK, NEW d \in DocumentIds, NEW key \in Dates \cup {0}
    PROVE  cancel_document_expiry_notification(d, key) \in [DocumentIds -> [Dates -> Warnings]]
  BY DocumentConstants DEF DocumentsTypeOK, cancel_document_expiry_notification,
     Cancelled, Warnings

LEMMA BeginScheduleKeeps ==
    ASSUME DocumentsInvariant, NEW u \in Users, begin_schedule(u)
    PROVE  DocumentsInvariant'
<1> USE DEF DocumentsInvariant
<1> DEFINE d == task[u].id
           t == [op |-> "NOTIFY", id |-> d, key |-> documents[d].expires]
<1>1. /\ task[u].op = "WARN" /\ task[u] # NoTask /\ d \in DocumentIds /\ documents[d] # NoDocument
      /\ UNCHANGED <<documents, files, uploads, updates, removed>>
  BY Tasks, NoTaskFacts DEF begin_schedule, RowsAtWork, Uploading
<1>2. documents[d] \in DocumentRow
  BY <1>1 DEF DocumentsTypeOK
<1>3. CASE /\ documents[d].expires # 0 /\ Goto(u, t)
           /\ warnings' = cancel_document_expiry_notification(d, documents[d].key)
  <2>1. t \in DocumentTask /\ t.op = "NOTIFY" /\ t.id = d
    BY <1>1, <1>2, <1>3 DEF DocumentTask, DocumentRow
  <2>2. documents[d].key \in Dates \cup {0}
    BY <1>2 DEF DocumentRow
  <2>3. warnings' \in [DocumentIds -> [Dates -> Warnings]]
    BY <1>1, <1>3, <2>2, CancelledType
  <2>4. uploads' \in 0..MaxUploads /\ updates' \in 0..MaxUpdates
    BY <1>1 DEF DocumentsTypeOK
  <2> HIDE DEF t
  <2> QED
    BY <1>1, <1>3, <2>1, <2>3, <2>4, GoOnKeeps
<1>4. CASE Goto(u, NoTask) /\ UNCHANGED warnings
  BY <1>1, <1>4, EndKeeps DEF DocumentsTypeOK
<1> QED
  BY <1>3, <1>4 DEF begin_schedule

LEMMA NotifyExpiryKeeps ==
    ASSUME DocumentsInvariant, NEW u \in Users, notify_expiry(u)
    PROVE  DocumentsInvariant'
<1> USE DEF DocumentsInvariant
<1> DEFINE d == task[u].id
           t == [task[u] EXCEPT !.op = "KEY"]
<1>1. /\ task[u].op = "NOTIFY" /\ task[u] # NoTask /\ d \in DocumentIds /\ documents[d] # NoDocument
      /\ task[u].key \in Dates /\ Goto(u, t)
      /\ UNCHANGED <<documents, files, uploads, updates, removed>>
  BY Tasks, NoTaskFacts DEF notify_expiry, RowsAtWork, Uploading
<1>2. task[u] \in [op : {"NOTIFY", "KEY"}, id : DocumentIds, key : Dates]
  BY <1>1 DEF DocumentsTypeOK, DocumentTask, NoTask
<1>3. t \in DocumentTask /\ t.op = "KEY" /\ t.id = d
  BY <1>2 DEF DocumentTask
<1>4. warnings' \in [DocumentIds -> [Dates -> Warnings]]
  BY <1>1 DEF notify_expiry, DocumentsTypeOK, Warnings
<1>5. uploads' \in 0..MaxUploads /\ updates' \in 0..MaxUpdates
  BY <1>1 DEF DocumentsTypeOK
<1> HIDE DEF t
<1> QED
  BY <1>1, <1>3, <1>4, <1>5, GoOnKeeps

LEMMA GetDocumentKeeps ==
    ASSUME DocumentsInvariant, NEW u \in Users, NEW d \in DocumentIds, get_document(u, d)
    PROVE  DocumentsInvariant'
<1> USE DEF DocumentsInvariant
<1> DEFINE t == [op |-> "PATCH", id |-> d, row |-> documents[d]]
<1>1. /\ documents[d] # NoDocument /\ Goto(u, t)
      /\ UNCHANGED <<documents, files, warnings, uploads, removed>>
  BY DEF get_document
<1>2. t \in DocumentTask /\ t.op = "PATCH" /\ t.id = d /\ t.row = documents[d]
  BY <1>1 DEF DocumentTask, DocumentsTypeOK
<1>3. uploads' \in 0..MaxUploads /\ updates' \in 0..MaxUpdates
  BY DocumentConstants DEF DocumentsTypeOK, get_document
<1> HIDE DEF t
<1> QED
  BY <1>1, <1>2, <1>3, GoOnKeeps DEF DocumentsTypeOK

\* The row of one request is saved, and the request ends or asks for a warning.
LEMMA SaveRowKeeps ==
    ASSUME DocumentsInvariant, NEW u \in Users, task[u].op \in {"KEY", "PATCH", "DELETE"},
           NEW r \in DocumentRow, NEW t \in DocumentTask, Goto(u, t),
           t = NoTask \/ t = [op |-> "WARN", id |-> task[u].id],
           documents' = [documents EXCEPT ![task[u].id] = r],
           r.active => Path(task[u].id) \in files \/ task[u].id \in removed,
           warnings' \in [DocumentIds -> [Dates -> Warnings]],
           UNCHANGED <<files, uploads, updates, removed>>
    PROVE  DocumentsInvariant'
<1> USE DEF DocumentsInvariant
<1> DEFINE d == task[u].id
<1>1. d \in DocumentIds /\ task[u] # NoTask /\ documents[d] # NoDocument
  BY Tasks, NoTaskFacts DEF RowsAtWork, Uploading
<1>2. /\ documents'[d] = r /\ r # NoDocument
      /\ \A e \in DocumentIds \ {d} : documents'[e] = documents[e]
      /\ documents' \in [DocumentIds -> DocumentRow \cup {NoDocument}]
  BY <1>1, DocumentConstants DEF DocumentsTypeOK
<1>3. t.op \in {"NONE", "WARN"} /\ (t.op = "NONE" <=> t = NoTask) /\ (t # NoTask => t.id = d)
  BY NoTaskFacts
<1>4. \A v \in Users : Uploading(v) => v # u /\ task[v].id # d
  BY <1>1 DEF UploadsOwnIds, Uploading
<1> HIDE DEF d
<1>5. DocumentsTypeOK'
  BY <1>2, Gone DEF DocumentsTypeOK
<1>6. UploadsOwnIds'
  <2> SUFFICES ASSUME NEW v \in Users, Uploading(v)'
               PROVE  /\ documents'[task'[v].id] = NoDocument
                      /\ \A w \in Users \ {v} : task'[w] # NoTask => task'[w].id # task'[v].id
    BY DEF UploadsOwnIds
  <2>1. v # u /\ task'[v] = task[v] /\ Uploading(v)
    BY <1>3, Gone DEF Uploading
  <2>2. task[v].id \in DocumentIds \ {d} /\ documents'[task[v].id] = documents[task[v].id]
    BY <1>2, <1>4, <2>1, Tasks, NoTaskFacts DEF Uploading
  <2>3. \A w \in Users \ {v} : task[w] # NoTask => task[w].id # task[v].id
    BY <2>1 DEF UploadsOwnIds
  <2>4. ASSUME NEW w \in Users \ {v}, task'[w] # NoTask PROVE task'[w].id # task[v].id
    BY <1>3, <2>2, <2>3, <2>4, Gone
  <2> QED
    BY <2>1, <2>2, <2>4 DEF UploadsOwnIds
<1>7. InsertsHaveFiles'
  BY <1>3, Gone DEF InsertsHaveFiles
<1>8. \A e \in DocumentIds : Active(e)' => Active(e) \/ Path(e) \in files \/ e \in removed
  BY <1>1, <1>2 DEF Active, d
<1>9. RowsAtWork'
  <2> SUFFICES ASSUME NEW v \in Users, task'[v] # NoTask, ~Uploading(v)'
               PROVE  /\ documents'[task'[v].id] # NoDocument
                      /\ task'[v].op = "DELETE" => task'[v].id \in removed
                      /\ task'[v].op = "PATCH" /\ task'[v].row.active =>
                             Path(task'[v].id) \in files \/ task'[v].id \in removed
    BY DEF RowsAtWork
  <2>1. CASE v = u
    <3>1. task'[v] = t
      BY <2>1, Gone
    <3> QED
      BY <1>2, <1>3, <3>1
  <2>2. CASE v # u
    <3>1. task'[v] = task[v] /\ ~Uploading(v)
      BY <2>2, Gone DEF Uploading
    <3>2. task[v].id \in DocumentIds
      BY <3>1, Tasks
    <3>3. documents[task[v].id] # NoDocument
      BY <3>1 DEF RowsAtWork
    <3>4. documents'[task[v].id] # NoDocument
      BY <1>2, <3>2, <3>3
    <3> QED
      BY <3>1, <3>4 DEF RowsAtWork
  <2> QED
    BY <2>1, <2>2
<1>10. RemovedExist'
  BY <1>2 DEF RemovedExist, DocumentsTypeOK
<1>11. ActiveHasFile'
  BY <1>8 DEF ActiveHasFile, Path
<1> QED
  BY <1>5, <1>6, <1>7, <1>9, <1>10, <1>11

LEMMA SaveKeyKeeps ==
    ASSUME DocumentsInvariant, NEW u \in Users, save_key(u)
    PROVE  DocumentsInvariant'
<1> USE DEF DocumentsInvariant
<1> DEFINE d == task[u].id
           r == [documents[d] EXCEPT !.key = task[u].key]
<1>1. task[u].op = "KEY" /\ d \in DocumentIds /\ documents[d] \in DocumentRow /\ task[u].key \in Dates
  BY Tasks, NoTaskFacts DEF save_key, RowsAtWork, Uploading, DocumentsTypeOK
<1>2. r \in DocumentRow /\ r.active = documents[d].active
  BY <1>1 DEF DocumentRow
<1>3. /\ documents' = [documents EXCEPT ![d] = r] /\ Goto(u, NoTask)
      /\ UNCHANGED <<files, warnings, uploads, updates, removed>>
  BY DEF save_key
<1>4. r.active => Path(d) \in files \/ d \in removed
  BY <1>1, <1>2, DocumentConstants DEF ActiveHasFile, Active
<1> HIDE DEF r
<1> QED
  BY <1>1, <1>2, <1>3, <1>4, SaveRowKeeps, NoTaskFacts DEF DocumentsTypeOK

\* A stale row that is active comes from before the deletion.
LEMMA PerformUpdateKeeps ==
    ASSUME DocumentsInvariant, NEW u \in Users, NEW confidential \in BOOLEAN,
           NEW expires \in Dates \cup {0}, perform_update(u, confidential, expires)
    PROVE  DocumentsInvariant'
<1> USE DEF DocumentsInvariant
<1> DEFINE d == task[u].id
           r == [task[u].row EXCEPT !.confidential = confidential, !.expires = expires]
           warn == [op |-> "WARN", id |-> d]
<1>1. /\ task[u].op = "PATCH" /\ d \in DocumentIds /\ documents[d] \in DocumentRow
      /\ task[u].row \in DocumentRow /\ (task[u].row.active => Path(d) \in files \/ d \in removed)
  BY Tasks, NoTaskFacts DEF perform_update, RowsAtWork, Uploading, DocumentsTypeOK
<1>2. r \in DocumentRow /\ r.active = task[u].row.active
  BY <1>1 DEF DocumentRow
<1>3. /\ documents' = [documents EXCEPT ![d] = r] /\ (Goto(u, NoTask) \/ Goto(u, warn))
      /\ UNCHANGED <<files, warnings, uploads, updates, removed>>
  BY DEF perform_update
<1>4. warn \in DocumentTask /\ NoTask \in DocumentTask
  BY <1>1 DEF DocumentTask
<1> HIDE DEF r
<1> QED
  BY <1>1, <1>2, <1>3, <1>4, SaveRowKeeps DEF DocumentsTypeOK

LEMMA BeginDeleteKeeps ==
    ASSUME DocumentsInvariant, NEW u \in Users, NEW d \in DocumentIds, begin_delete(u, d)
    PROVE  DocumentsInvariant'
<1> USE DEF DocumentsInvariant
<1> DEFINE t == [op |-> "DELETE", id |-> d]
<1>1. /\ task[u] = NoTask /\ Active(d) /\ Goto(u, t)
      /\ files' = files \ {Path(d)} /\ removed' = removed \cup {d}
      /\ UNCHANGED <<documents, warnings, uploads, updates>>
  BY DEF begin_delete
<1>2. t \in DocumentTask /\ t.op = "DELETE" /\ t.id = d
  BY DEF DocumentTask
<1> HIDE DEF t
<1>3. \A e \in DocumentIds : Path(e) \in files => Path(e) \in files' \/ e = d
  BY <1>1, PathsDiffer
<1>4. \A v \in Users : Uploading(v) => task[v].id \in DocumentIds \ {d}
  BY <1>1, Tasks, NoTaskFacts DEF UploadsOwnIds, Uploading, Active
<1>5. DocumentsTypeOK'
  BY <1>1, <1>2, Gone DEF DocumentsTypeOK
<1>6. UploadsOwnIds'
  <2>1. \A v \in Users : Uploading(v)' => v # u /\ Uploading(v) /\ task'[v] = task[v]
    BY <1>1, <1>2, Gone DEF Uploading
  <2>2. \A v \in Users : task'[v] # NoTask =>
            \/ task'[v].id = d
            \/ task[v] # NoTask /\ task'[v] = task[v]
    <3>1. task'[u] = t /\ \A v \in Users \ {u} : task'[v] = task[v]
      BY <1>1, Gone
    <3> QED
      BY <1>2, <3>1
  <2> QED
    BY <1>1, <1>4, <2>1, <2>2 DEF UploadsOwnIds
<1>7. InsertsHaveFiles'
  BY <1>1, <1>2, <1>3, <1>4, Gone DEF InsertsHaveFiles, Uploading
<1>8. RowsAtWork'
  BY <1>1, <1>2, <1>3, Gone, Tasks DEF RowsAtWork, Uploading, Active
<1>9. RemovedExist' /\ ActiveHasFile'
  BY <1>1, <1>3 DEF RemovedExist, ActiveHasFile, Active
<1> QED
  BY <1>5, <1>6, <1>7, <1>8, <1>9

LEMMA FinishDeleteKeeps ==
    ASSUME DocumentsInvariant, NEW u \in Users, finish_delete(u)
    PROVE  DocumentsInvariant'
<1> USE DEF DocumentsInvariant
<1> DEFINE d == task[u].id
           r == [documents[d] EXCEPT !.active = FALSE, !.key = 0]
<1>1. task[u].op = "DELETE" /\ d \in DocumentIds /\ documents[d] \in DocumentRow
  BY Tasks, NoTaskFacts DEF finish_delete, RowsAtWork, Uploading, DocumentsTypeOK
<1>2. r \in DocumentRow /\ ~r.active /\ documents[d].key \in Dates \cup {0}
  BY <1>1 DEF DocumentRow
<1>3. /\ documents' = [documents EXCEPT ![d] = r] /\ Goto(u, NoTask)
      /\ warnings' = cancel_document_expiry_notification(d, documents[d].key)
      /\ UNCHANGED <<files, uploads, updates, removed>>
  BY DEF finish_delete
<1>4. warnings' \in [DocumentIds -> [Dates -> Warnings]]
  BY <1>1, <1>2, <1>3, CancelledType
<1> HIDE DEF r
<1> QED
  BY <1>1, <1>2, <1>3, <1>4, SaveRowKeeps, NoTaskFacts

LEMMA DieKeeps ==
    ASSUME DocumentsInvariant, NEW u \in Users, Die(u)
    PROVE  DocumentsInvariant'
  BY EndKeeps DEF Die, DocumentsInvariant, DocumentsTypeOK

LEMMA DocumentsStep == DocumentsInvariant /\ [DocumentsNext]_documentVars => DocumentsInvariant'
<1> SUFFICES ASSUME DocumentsInvariant, [DocumentsNext]_documentVars PROVE DocumentsInvariant'
  OBVIOUS
<1>1. CASE UNCHANGED documentVars
  BY <1>1 DEF documentVars, DocumentsInvariant, DocumentsTypeOK, UploadsOwnIds,
     InsertsHaveFiles,
     RowsAtWork, RemovedExist, ActiveHasFile, Uploading, Active
<1>2. CASE DocumentsNext
  BY <1>2, BeginUploadKeeps, StoreKeepsDocuments, CreateRecordKeeps, DiscardFileKeeps,
     BeginScheduleKeeps, NotifyExpiryKeeps, SaveKeyKeeps, GetDocumentKeeps,
     PerformUpdateKeeps,
     BeginDeleteKeeps, FinishDeleteKeeps, DieKeeps
     DEF DocumentsNext, create_document, destroy_document
<1> QED
  BY <1>1, <1>2

\* The rows, the files and the requests at work on them agree at every step.
THEOREM DocumentsInvariance == DocumentsSpec => []DocumentsInvariant
  BY DocumentsStart, DocumentsStep, PTL DEF DocumentsSpec

\* An active document has its file unless a deletion of it has begun, whatever
\* uploads of the same content fail and whatever requests die.
THEOREM DocumentsHaveFiles == DocumentsSpec => []ActiveHasFile
<1>1. DocumentsInvariant => ActiveHasFile
  BY DEF DocumentsInvariant
<1> QED
  BY <1>1, DocumentsInvariance, PTL

-----------------------------------------------------------------------------
(* AuditSummaries.                                                         *)

LEMMA Reads ==
    ASSUME SummariesTypeOK, NEW r \in Readers, NEW reads, Goes(r, reads)
    PROVE  /\ reading'[r] = reads /\ DOMAIN reading' = Readers
           /\ \A q \in Readers \ {r} : reading'[q] = reading[q]
           /\ UNCHANGED <<created_at, visible, instant>>
  BY DEF SummariesTypeOK, Goes

LEMMA NotReadingIdle == NotReading.phase = "IDLE"
  BY DEF NotReading

LEMMA SummariesStart == SummariesInit => SummariesInvariant
<1> SUFFICES ASSUME SummariesInit PROVE SummariesInvariant
  OBVIOUS
<1>1. SummariesTypeOK
  <2>1. LastInstant \in Nat
    BY SummariesAssumption DEF SummariesAssumption
  <2> QED
    BY <2>1 DEF SummariesInit, SummariesTypeOK, Unwritten
<1>2. TopicsAreKeys /\ CountedStaysThere
  BY NotReadingIdle DEF SummariesInit, TopicsAreKeys, CountedStaysThere
<1>3. ResultsFit
  BY NotReadingIdle DEF SummariesInit, ResultsFit, Answered
<1> QED
  BY <1>1, <1>2, <1>3 DEF SummariesInvariant

\* What was visible stays so, at the time it was written.
LEMMA RowsStay ==
    ASSUME SummariesTypeOK, visible \subseteq visible',
           \A e \in visible : created_at'[e] = created_at[e],
           NEW category, NEW period
    PROVE  get_category_queryset(category, period) \subseteq get_category_queryset(category, period)'
  BY DEF get_category_queryset

\* A step that is not of a request.
LEMMA WorldKeeps ==
    ASSUME SummariesInvariant, UNCHANGED <<cache, reading>>,
           visible \subseteq visible', \A e \in visible : created_at'[e] = created_at[e],
           created_at' \in [AuditRows -> Unwritten .. LastInstant],
           visible' \subseteq {e \in AuditRows : created_at'[e] # Unwritten},
           instant' \in 0 .. LastInstant, instant <= instant'
    PROVE  SummariesInvariant'
<1> USE DEF SummariesInvariant
<1>1. SummariesTypeOK'
  BY DEF SummariesTypeOK
<1>2. TopicsAreKeys'
  BY DEF TopicsAreKeys, get_summary_cache_key
<1>3. CountedStaysThere'
  BY RowsStay DEF CountedStaysThere
<1>4. ResultsFit'
  BY DEF ResultsFit, Fits, Answered, get_summary_cache_key
<1> QED
  BY <1>1, <1>2, <1>3, <1>4

\* A step of a request that stores nothing.
LEMMA ReadKeeps ==
    ASSUME SummariesInvariant, NEW r \in Readers, NEW reads, Goes(r, reads), UNCHANGED cache,
           reads # NotReading =>
               /\ reads.phase \in {"LOOKED", "STARTED", "COUNTED", "GENERATED", "HIT", "MISS"}
               /\ reads.topic \in DOMAIN cache
               /\ reads.topic = get_summary_cache_key(reads.topic.category, reads.topic.type,
                                                      reads.topic.range),
           reads.phase = "COUNTED" =>
               reads.early \subseteq get_category_queryset(reads.topic.category,
               reads.period),
           reads.phase = "LOOKED" /\ reads.entry # NoSummary => Fits(reads.topic,
           reads.entry.result),
           reads.phase = "GENERATED" => Fits(reads.topic, reads.result),
           reads.phase \in {"HIT", "MISS"} => Fits(reads.topic, reads.entry.result)
    PROVE  SummariesInvariant'
<1> USE DEF SummariesInvariant
<1>1. SummariesTypeOK'
  BY Reads DEF SummariesTypeOK
<1>2. TopicsAreKeys'
  BY Reads DEF TopicsAreKeys, get_summary_cache_key
<1>3. CountedStaysThere'
  BY Reads DEF CountedStaysThere, get_category_queryset
<1>4. ResultsFit'
  BY Reads DEF ResultsFit, Fits, Answered, get_summary_cache_key
<1> QED
  BY <1>1, <1>2, <1>3, <1>4

LEMMA AskKeeps ==
    ASSUME SummariesInvariant, NEW r \in Readers, ask(r)
    PROVE  SummariesInvariant'
<1>1. PICK category, type, range :
          read_cache(r, get_summary_cache_key(category, type, range))
  BY DEF ask, AuditLogViewSet, LoginActivityViewSet, get_cached_login_summary,
     get_cached_audit_summary, get_cached_login_ai_insight, get_cached_audit_ai_insight
<1> DEFINE topic == get_summary_cache_key(category, type, range)
           reads == [phase |-> "LOOKED", topic |-> topic, entry |-> cache[topic]]
<1>2. topic \in DOMAIN cache /\ Goes(r, reads) /\ UNCHANGED cache
  BY <1>1 DEF read_cache
<1>3. topic = get_summary_cache_key(topic.category, topic.type, topic.range)
  BY DEF get_summary_cache_key
<1>4. reads.entry # NoSummary => Fits(topic, reads.entry.result)
  BY <1>2 DEF SummariesInvariant, ResultsFit
<1>5. reads.phase = "LOOKED" /\ reads.topic = topic
  OBVIOUS
<1> HIDE DEF reads, topic
<1> QED
  BY <1>2, <1>3, <1>4, <1>5, ReadKeeps

\* An entry that is good enough is one that is there.
LEMMA HitKeeps ==
    ASSUME SummariesInvariant, NEW r \in Readers, answer_from_cache(r)
    PROVE  SummariesInvariant'
<1> DEFINE reads == [phase |-> "HIT", topic |-> reading[r].topic, entry |-> reading[r].entry]
<1>1. reading[r].phase = "LOOKED" /\ reading[r].entry # NoSummary /\ Goes(r, reads) /\ UNCHANGED cache
  BY DEF answer_from_cache, should_regenerate_cached_result
<1>2. /\ reads.phase = "HIT" /\ reads.topic = reading[r].topic /\ reads.entry = reading[r].entry
      /\ reading[r] # NotReading
  BY <1>1, NotReadingIdle
<1> HIDE DEF reads
<1>3. /\ reads.topic \in DOMAIN cache
      /\ reads.topic = get_summary_cache_key(reads.topic.category, reads.topic.type,
                                             reads.topic.range)
      /\ Fits(reads.topic, reads.entry.result)
  BY <1>1, <1>2 DEF SummariesInvariant, SummariesTypeOK, TopicsAreKeys, ResultsFit
<1> QED
  BY <1>1, <1>2, <1>3, ReadKeeps

LEMMA EndReadingKeeps ==
    ASSUME SummariesInvariant, NEW r \in Readers, Goes(r, NotReading), UNCHANGED cache
    PROVE  SummariesInvariant'
  BY NotReadingIdle, ReadKeeps

LEMMA BeginKeeps ==
    ASSUME SummariesInvariant, NEW r \in Readers, begin_generation(r)
    PROVE  SummariesInvariant'
<1> DEFINE topic == reading[r].topic
           reads == [phase |-> "STARTED", topic |-> topic,
           period |-> get_summary_period(topic.range)]
<1>1. CASE Goes(r, NotReading)
  BY <1>1, EndReadingKeeps DEF begin_generation
<1>2. CASE Goes(r, reads)
  <2>1. reads.phase = "STARTED" /\ reads.topic = topic
    OBVIOUS
  <2>2. /\ topic \in DOMAIN cache /\ UNCHANGED cache
        /\ topic = get_summary_cache_key(topic.category, topic.type, topic.range)
    BY NotReadingIdle DEF begin_generation, SummariesInvariant, SummariesTypeOK,
     TopicsAreKeys
  <2> HIDE DEF reads, topic
  <2> QED
    BY <1>2, <2>1, <2>2, ReadKeeps
<1> QED
  BY <1>1, <1>2 DEF begin_generation

LEMMA FirstQueriesKeep ==
    ASSUME SummariesInvariant, NEW r \in Readers, first_queries(r)
    PROVE  SummariesInvariant'
<1> DEFINE topic == reading[r].topic
           period == reading[r].period
           reads == [phase |-> "COUNTED", topic |-> topic, period |-> period,
                     early |-> get_category_queryset(topic.category, period)]
<1>1. Goes(r, reads) /\ UNCHANGED cache
  BY DEF first_queries
<1>2. /\ reads.phase = "COUNTED" /\ reads.topic = topic
      /\ reads.early \subseteq get_category_queryset(reads.topic.category, reads.period)
  OBVIOUS
<1>3. /\ topic \in DOMAIN cache
      /\ topic = get_summary_cache_key(topic.category, topic.type, topic.range)
  BY NotReadingIdle DEF first_queries, SummariesInvariant, SummariesTypeOK, TopicsAreKeys
<1> HIDE DEF reads, topic, period
<1> QED
  BY <1>1, <1>2, <1>3, ReadKeeps

\* Only the summary of logins by the rules counts its headline first.
LEMMA GeneratedFits ==
    ASSUME NEW topic, topic = get_summary_cache_key(topic.category, topic.type, topic.range),
           NEW early, NEW late, early \subseteq late, NEW level
    PROVE  Fits(topic, generator(topic, early, late, level))
<1>1. CASE topic.type = "rules" /\ topic.category = "login"
  BY <1>1 DEF Fits
<1>2. CASE topic.type = "rules" /\ topic.category # "login"
  BY <1>2 DEF Fits, generator, calculate_audit_summary
<1>3. CASE topic.type # "rules"
  BY <1>3 DEF Fits, generator, generate_ai_security_insight, generate_audit_ai_insight,
     Insight,
     calculate_ai_security_payload, calculate_audit_ai_payload
<1> QED
  BY <1>1, <1>2, <1>3

LEMMA LastQueriesKeep ==
    ASSUME SummariesInvariant, NEW r \in Readers, last_queries(r)
    PROVE  SummariesInvariant'
<1> DEFINE topic == reading[r].topic
           late == get_category_queryset(topic.category, reading[r].period)
<1>1. PICK level :
          Goes(r, [phase |-> "GENERATED", topic |-> topic,
                   result |-> generator(topic, reading[r].early, late, level)])
  BY DEF last_queries
<1> DEFINE result == generator(topic, reading[r].early, late, level)
           reads == [phase |-> "GENERATED", topic |-> topic, result |-> result]
<1>2. reading[r].phase = "COUNTED" /\ UNCHANGED cache
  BY DEF last_queries
<1>3. /\ topic \in DOMAIN cache /\ reading[r].early \subseteq late
      /\ topic = get_summary_cache_key(topic.category, topic.type, topic.range)
  BY <1>2, NotReadingIdle
     DEF SummariesInvariant, SummariesTypeOK, TopicsAreKeys, CountedStaysThere
<1>4. Fits(topic, result)
  BY <1>3, GeneratedFits
<1>5. reads.phase = "GENERATED" /\ reads.topic = topic /\ reads.result = result /\ Goes(r, reads)
  BY <1>1
<1> HIDE DEF reads, topic, late, result
<1> QED
  BY <1>2, <1>3, <1>4, <1>5, ReadKeeps

LEMMA StoreResultKeeps ==
    ASSUME SummariesInvariant, NEW r \in Readers, store_result(r)
    PROVE  SummariesInvariant'
<1> DEFINE topic == reading[r].topic
           entry == [result |-> reading[r].result, cached_at |-> instant,
                     last_record_at |-> Latest(get_category_queryset(topic.category,
                                                   get_summary_period(topic.range)))]
           reads == [phase |-> "MISS", topic |-> topic, entry |-> entry]
<1>1. /\ reading[r].phase = "GENERATED" /\ Goes(r, reads)
      /\ cache' = cache \/ cache' = [cache EXCEPT ![topic] = entry]
  BY DEF store_result
<1>2. /\ reads.phase = "MISS" /\ reads.topic = topic /\ reads.entry = entry
      /\ entry.result = reading[r].result /\ entry.cached_at = instant
  OBVIOUS
<1>3. /\ topic \in DOMAIN cache /\ Fits(topic, reading[r].result)
      /\ topic = get_summary_cache_key(topic.category, topic.type, topic.range)
  BY <1>1, NotReadingIdle
     DEF SummariesInvariant, SummariesTypeOK, TopicsAreKeys, ResultsFit
<1> HIDE DEF reads, topic, entry
<1>4. CASE UNCHANGED cache
  BY <1>1, <1>2, <1>3, <1>4, ReadKeeps
<1>5. CASE cache' = [cache EXCEPT ![topic] = entry]
  <2>1. /\ DOMAIN cache' = DOMAIN cache /\ cache'[topic] = entry
        /\ \A k \in DOMAIN cache \ {topic} : cache'[k] = cache[k]
    BY <1>3, <1>5
  <2>2. SummariesTypeOK /\ TopicsAreKeys /\ CountedStaysThere /\ ResultsFit
    BY DEF SummariesInvariant
  <2>3. SummariesTypeOK'
    BY <1>1, <1>2, <1>3, <2>1, <2>2, Reads DEF SummariesTypeOK
  <2>4. TopicsAreKeys'
    BY <1>1, <1>2, <1>3, <2>2, Reads DEF TopicsAreKeys, get_summary_cache_key
  <2>5. CountedStaysThere'
    BY <1>1, <1>2, <2>2, Reads DEF CountedStaysThere, get_category_queryset
  <2>6. ResultsFit'
    BY <1>1, <1>2, <1>3, <2>1, <2>2, Reads DEF ResultsFit, Fits, Answered,
     get_summary_cache_key
  <2> QED
    BY <2>3, <2>4, <2>5, <2>6 DEF SummariesInvariant
<1> QED
  BY <1>1, <1>4, <1>5

LEMMA ForgetKeeps ==
    ASSUME SummariesInvariant, NEW k \in DOMAIN cache, forget(k)
    PROVE  SummariesInvariant'
<1>1. /\ DOMAIN cache' = DOMAIN cache /\ cache'[k] = NoSummary
      /\ \A j \in DOMAIN cache \ {k} : cache'[j] = cache[j]
      /\ UNCHANGED <<created_at, visible, reading, instant>>
  BY DEF forget
<1>2. SummariesTypeOK /\ TopicsAreKeys /\ CountedStaysThere /\ ResultsFit
  BY DEF SummariesInvariant
<1>3. SummariesTypeOK'
  BY <1>1, <1>2 DEF SummariesTypeOK
<1>4. TopicsAreKeys' /\ CountedStaysThere'
  BY <1>1, <1>2 DEF TopicsAreKeys, get_summary_cache_key, CountedStaysThere,
     get_category_queryset
<1>5. ResultsFit'
  BY <1>1, <1>2 DEF ResultsFit, Fits, Answered, get_summary_cache_key
<1> QED
  BY <1>3, <1>4, <1>5 DEF SummariesInvariant

LEMMA WriteKeeps ==
    ASSUME SummariesInvariant, NEW e \in AuditRows, create_audit_log(e) \/ commit_row(e)
    PROVE  SummariesInvariant'
<1>1. /\ visible \subseteq visible' /\ \A d \in visible : created_at'[d] = created_at[d]
      /\ created_at' \in [AuditRows -> Unwritten .. LastInstant]
      /\ visible' \subseteq {d \in AuditRows : created_at'[d] # Unwritten}
  BY DEF SummariesInvariant, SummariesTypeOK, create_audit_log, commit_row, Unwritten
<1>2. UNCHANGED <<cache, reading, instant>> /\ instant \in 0 .. LastInstant
  BY DEF create_audit_log, commit_row, SummariesInvariant, SummariesTypeOK
<1> QED
  BY <1>1, <1>2, WorldKeeps

LEMMA TickKeeps ==
    ASSUME SummariesInvariant, clock_ticks
    PROVE  SummariesInvariant'
<1>1. instant' \in 0 .. LastInstant /\ instant <= instant'
  <2>1. LastInstant \in Nat
    BY SummariesAssumption DEF SummariesAssumption
  <2> QED
    BY <2>1 DEF SummariesInvariant, SummariesTypeOK, clock_ticks
<1> QED
  BY <1>1, WorldKeeps DEF clock_ticks, SummariesInvariant, SummariesTypeOK

LEMMA SummariesStep == SummariesInvariant /\ [SummariesNext]_summaryVars => SummariesInvariant'
<1> SUFFICES ASSUME SummariesInvariant, [SummariesNext]_summaryVars PROVE SummariesInvariant'
  OBVIOUS
<1>1. CASE UNCHANGED summaryVars
  BY <1>1, WorldKeeps DEF summaryVars, SummariesInvariant, SummariesTypeOK
<1>2. CASE SummariesNext
  BY <1>2, TickKeeps, WriteKeeps, ForgetKeeps, AskKeeps, HitKeeps, BeginKeeps,
     FirstQueriesKeep,
     LastQueriesKeep, StoreResultKeeps, EndReadingKeeps DEF SummariesNext,
     provider_fails, leave
<1> QED
  BY <1>1, <1>2

\* What is cached under a topic, and what a request has counted, still fits the rows.
THEOREM SummariesInvariance == SummariesSpec => []SummariesInvariant
  BY SummariesStart, SummariesStep, PTL DEF SummariesSpec

\* No answer counts details that its total does not include, whatever rows are
\* written and committed while it is computed.
THEOREM SummariesAddUp == SummariesSpec => []DetailsWithinTotal
<1>1. SummariesInvariant => DetailsWithinTotal
  BY DEF SummariesInvariant, ResultsFit, Fits, DetailsWithinTotal, Answered
<1> QED
  BY <1>1, SummariesInvariance, PTL

-----------------------------------------------------------------------------
(* Parties.                                                                *)

\* The conjuncts of the assumption.
LEMMA PartiesConstants ==
    /\ NoRow \notin PartyRow /\ NoRow \notin ContactRow /\ NoRow \notin PlaceRow
    /\ NoRow \notin AffiliationRow /\ NoRow \notin PartyIds
    /\ "ACTIVE" \in Statuses /\ "MERGED" \notin Statuses /\ MaxRequests \in Nat
    /\ \A d \in Given :
           /\ d.parties \in PartyTables /\ d.roles \in RoleTables
           /\ d.contacts \in ContactTables /\ d.places \in PlaceTables
           /\ d.affiliations \in AffiliationTables
           /\ \A p \in PartyIds : d.parties[p] # NoRow => d.parties[p].status # "MERGED"
           /\ \A i \in ContactIds :
                  d.contacts[i] # NoRow => d.parties[d.contacts[i].party] # NoRow
BY PartiesAssumption DEF PartiesAssumption

\* The rows of typed tables, one by one.
LEMMA PartyRows ==
    ASSUME TypeOK
    PROVE  /\ \A p \in Present : p \in PartyIds /\ parties[p] \in PartyRow
           /\ \A i \in ContactIds : contacts[i] # NoRow => contacts[i] \in ContactRow
           /\ \A i \in PlaceIds : places[i] # NoRow => places[i] \in PlaceRow
           /\ \A i \in AffiliationIds :
                 affiliations[i] # NoRow =>
                     /\ affiliations[i] \in AffiliationRow
                     /\ affiliations[i].person \in People
                     /\ affiliations[i].organisation \in Organisations
           /\ DOMAIN parties = PartyIds /\ DOMAIN contacts = ContactIds
           /\ DOMAIN places = PlaceIds /\ DOMAIN affiliations = AffiliationIds
           /\ DOMAIN request = Clerks
BY DEF TypeOK, Present, PartyTables, ContactTables, PlaceTables, AffiliationTables, AffiliationRow

-----------------------------------------------------------------------------

\* Tombstones stand where no party and no merge record changes: a request that has
\* just read a party has read one that is recorded if it is merged.
LEMMA TombstonesKept ==
    ASSUME Tombstones, SurvivorStands,
           parties' = parties, merges' = merges, revived' = revived,
           \A c \in Clerks : request'[c].op = "PARTY" =>
               \/ request'[c] = request[c]
               \/ /\ request'[c].party \in Present
                  /\ request'[c].row = parties[request'[c].party]
    PROVE  Tombstones' /\ SurvivorStands'
<1>1. Present' = Present /\ \A p : IsMerged(p)' <=> IsMerged(p)
  BY DEF Present, IsMerged
<1>2. SurvivorStands'
  BY <1>1 DEF SurvivorStands
<1>3. ASSUME NEW c \in Clerks, request'[c].op = "PARTY", request'[c].row.status = "MERGED"
      PROVE  [source |-> request'[c].party, target |-> request'[c].row.into] \in merges
  BY <1>3 DEF Tombstones, Recorded, IsMerged
<1>4. Tombstones'
  BY <1>1, <1>3 DEF Tombstones, Recorded
<1> QED
  BY <1>2, <1>4

\* A merge in progress holds while its request is the same, its parties are present
\* and not merged, and no row comes to its target.
LEMMA MergesKept ==
    ASSUME TypeOK, MergesHold,
           \A c \in Clerks : request'[c].op = "MERGING" =>
               /\ request'[c] = request[c]
               /\ \A p \in {request[c].source, request[c].target} :
                     p \in Present /\ ~IsMerged(p) => p \in Present' /\ ~IsMerged(p)'
               /\ \A i \in ContactIds :
                     contacts'[i] # NoRow /\ contacts'[i].party = request[c].target =>
                         contacts[i] # NoRow /\ contacts[i].party = request[c].target
               /\ \A i \in AffiliationIds :
                         /\ affiliations'[i] # NoRow
                         /\ request[c].target \in {affiliations'[i].person,
                                                   affiliations'[i].organisation}
                         => /\ affiliations[i] # NoRow
                            /\ request[c].target \in {affiliations[i].person,
                                                      affiliations[i].organisation}
               /\ \A i \in PlaceIds :
                     places[i] # NoRow /\ places[i].party = request[c].source =>
                         places'[i] = places[i]
    PROVE  MergesHold'
<1> SUFFICES ASSUME NEW c \in Clerks, request'[c].op = "MERGING"
             PROVE  /\ MergeHolds(request[c])'
                    /\ \A d \in Clerks \ {c} : request'[d].op = "MERGING" =>
                          {request'[c].source, request'[c].target} \cap
                              {request'[d].source, request'[d].target} = {}
  BY DEF MergesHold
<1>1. request'[c] = request[c] /\ MergeHolds(request[c])
  BY DEF MergesHold
<1>2. \A d \in Clerks \ {c} : request'[d].op = "MERGING" =>
          {request'[c].source, request'[c].target} \cap
              {request'[d].source, request'[d].target} = {}
  BY <1>1 DEF MergesHold
<1>4. /\ DOMAIN request[c].contacts \subseteq ContactIds
      /\ DOMAIN request[c].affiliations \subseteq AffiliationIds
      /\ DOMAIN request[c].places \subseteq PlaceIds
  BY <1>1 DEF TypeOK, RequestOK
<1>3. MergeHolds(request[c])'
  <2> DEFINE m == request[c]
  <2>1. /\ m.source \in Present /\ m.target \in Present /\ m.source # m.target
        /\ ~IsMerged(m.source) /\ ~IsMerged(m.target)
        /\ m.source \in Organisations <=> m.target \in Organisations
    BY <1>1 DEF MergeHolds
  <2>2. /\ m.source \in Present' /\ m.target \in Present'
        /\ parties'[m.source].status # "MERGED" /\ parties'[m.target].status # "MERGED"
    BY <1>1, <2>1 DEF IsMerged
  <2>3. \A i \in DOMAIN m.contacts :
           /\ contacts'[i] # NoRow => contacts'[i].party # m.target
           /\ \A j \in DOMAIN m.contacts \ {i} : m.contacts[i].value # m.contacts[j].value
    BY <1>1, <1>4 DEF MergeHolds
  <2>4. \A i \in DOMAIN m.affiliations :
           /\ Near(m, m.affiliations[i]) = m.source
           /\ affiliations'[i] # NoRow =>
                  m.target \notin {affiliations'[i].person, affiliations'[i].organisation}
    BY <1>1, <1>4 DEF MergeHolds
  <2>5. \A i \in DOMAIN m.places : places'[i] # NoRow /\ places'[i].party = m.source
    BY <1>1, <1>4 DEF MergeHolds
  <2> QED
    BY <1>1, <2>1, <2>2, <2>3, <2>4, <2>5 DEF MergeHolds, IsMerged, Near
<1> QED
  BY <1>2, <1>3

\* The rows stand where only requests change.
LEMMA RowsKept ==
    ASSUME RowsStand, Present' = Present, contacts' = contacts, places' = places,
           affiliations' = affiliations
    PROVE  RowsStand'
BY DEF RowsStand, ContactsFit, PlacesFit, AffiliationsFit, Pairwise


\* Tombstones stand where no party is merged or changed back and none that is
\* recorded is deleted.
LEMMA TombstonesStay ==
    ASSUME Tombstones, SurvivorStands, merges' = merges, revived' = revived,
           \A m \in merges : m.source \in Present' /\ m.target \in Present',
           \A p \in Present' : parties'[p].status = "MERGED" =>
               p \in Present /\ IsMerged(p) /\ parties'[p].into = parties[p].into,
           \A p \in Present : IsMerged(p) => parties'[p].status = "MERGED",
           \A c \in Clerks : request'[c].op = "PARTY" => request'[c] = request[c]
    PROVE  Tombstones' /\ SurvivorStands'
<1>1. \A p \in Present' : parties'[p].status = "MERGED" =>
          [source |-> p, target |-> parties'[p].into] \in merges
  BY DEF Tombstones, Recorded
<1>2. \A m \in merges : m.source \in Present
  BY DEF Tombstones
<1>3. Tombstones'
  BY <1>1, <1>2 DEF Tombstones, Recorded, IsMerged
<1>4. SurvivorStands'
  <2> SUFFICES ASSUME ~revived
               PROVE  /\ \A p \in Present' : parties'[p].status = "MERGED" =>
                             parties'[p].into \in Present'
                      /\ \A S \in SUBSET Present' : S # {} =>
                            ~\A p \in S : /\ parties'[p].status = "MERGED"
                                          /\ parties'[p].into \in S
    BY DEF SurvivorStands, IsMerged
  <2>1. \A p \in Present' : parties'[p].status = "MERGED" => parties'[p].into \in Present'
    <3> SUFFICES ASSUME NEW p \in Present', parties'[p].status = "MERGED"
                 PROVE  parties'[p].into \in Present'
      OBVIOUS
    <3> DEFINE m == [source |-> p, target |-> parties'[p].into]
    <3>1. m \in merges /\ m.target = parties'[p].into
      BY <1>1
    <3> HIDE DEF m
    <3> QED
      BY <3>1
  <2>2. ASSUME NEW S \in SUBSET Present', S # {},
               \A p \in S : parties'[p].status = "MERGED" /\ parties'[p].into \in S
        PROVE  FALSE
    <3>1. S \in SUBSET Present /\ \A p \in S : IsMerged(p) /\ parties[p].into \in S
      BY <2>2
    <3> QED
      BY <2>2, <3>1 DEF SurvivorStands
  <2> QED
    BY <2>1, <2>2
<1> QED
  BY <1>3, <1>4

\* A request that reads a row, or gives up, changes nothing else.
LEMMA RequestKeeps ==
    ASSUME PartiesInvariant, NEW c \in Clerks, NEW r, RequestOK(r), r.op # "MERGING",
           r.op = "PARTY" => r.party \in Present /\ r.row = parties[r.party],
           request' = [request EXCEPT ![c] = r],
           served' \in 0 .. MaxRequests, business' \subseteq PartyIds,
           parties' = parties, roles' = roles, contacts' = contacts, places' = places,
           affiliations' = affiliations, merges' = merges, changed' = changed,
           revived' = revived
    PROVE  PartiesInvariant'
<1> USE DEF PartiesInvariant
<1>1. DOMAIN request = Clerks /\ DOMAIN request' = Clerks
  BY DEF TypeOK
<1>2. request'[c] = r /\ \A d \in Clerks \ {c} : request'[d] = request[d]
  BY <1>1
<1>3. TypeOK'
  BY <1>1, <1>2 DEF TypeOK, RequestOK
<1>4. RowsStand'
  BY RowsKept DEF Present
<1>5. MergesHold'
  BY <1>2, MergesKept DEF Present, IsMerged
<1>6. Tombstones' /\ SurvivorStands'
  BY <1>2, TombstonesKept
<1> QED
  BY <1>3, <1>4, <1>5, <1>6

\* A read keeps the invariant, and so does a request that is refused.
LEMMA PartyReadKeeps ==
    ASSUME PartiesInvariant, NEW c \in Clerks, NEW r, RequestOK(r), r.op # "MERGING",
           r.op = "PARTY" => r.party \in Present /\ r.row = parties[r.party], Read(c, r)
    PROVE  PartiesInvariant'
<1>1. served' \in 0 .. MaxRequests /\ business' \subseteq PartyIds
  BY PartiesConstants DEF Read, Serve, PartiesInvariant, TypeOK
<1> QED
  BY <1>1, RequestKeeps DEF Read, children

LEMMA RefusedKeeps ==
    ASSUME PartiesInvariant, NEW c \in Clerks, Refused(c)
    PROVE  PartiesInvariant'
<1>1. served' \in 0 .. MaxRequests /\ business' \subseteq PartyIds
  BY DEF Refused, PartiesInvariant, TypeOK
<1>2. RequestOK(Idle) /\ Idle.op = "NONE"
  BY DEF RequestOK, Idle
<1> HIDE DEF Idle
<1> QED
  BY <1>1, <1>2, RequestKeeps DEF Refused, Done, children

\* The requests that only read.
LEMMA ReadsKeep ==
    ASSUME PartiesInvariant, NEW c \in Clerks
    PROVE  /\ \A p \in PartyIds, v \in Values : check_new_party(c, p, v) => PartiesInvariant'
           /\ \A p \in PartyIds : get_party(c, p) => PartiesInvariant'
           /\ \A i \in ContactIds : get_contact(c, i) => PartiesInvariant'
           /\ \A i \in AffiliationIds : get_affiliation(c, i) => PartiesInvariant'
           /\ \A p \in PartyIds, r \in Roles :
                 validate_party_for_new_business(c, p, r) => PartiesInvariant'
           /\ \A s, t \in PartyIds : merge(c, s, t) => PartiesInvariant'
<1>0. TypeOK
  BY DEF PartiesInvariant
<1>1. ASSUME NEW p \in PartyIds, NEW v \in Values, check_new_party(c, p, v)
      PROVE  PartiesInvariant'
  <2> DEFINE r == [op |-> "CREATE", party |-> p, value |-> v]
  <2>1. RequestOK(r) /\ r.op = "CREATE" /\ Read(c, r)
    BY <1>1 DEF RequestOK, check_new_party
  <2> HIDE DEF r
  <2> QED
    BY <2>1, PartyReadKeeps
<1>2. ASSUME NEW p \in PartyIds, get_party(c, p) PROVE PartiesInvariant'
  <2> DEFINE r == [op |-> "PARTY", party |-> p, row |-> parties[p], roles |-> roles[p]]
  <2>1. p \in Present /\ parties[p] \in PartyRow /\ roles[p] \in [Roles -> RoleStates]
    BY <1>0, <1>2, PartyRows DEF get_party, TypeOK, RoleTables
  <2>2. RequestOK(r) /\ r.op = "PARTY" /\ r.party = p /\ r.row = parties[p] /\ Read(c, r)
    BY <1>2, <2>1 DEF RequestOK, get_party
  <2> HIDE DEF r
  <2> QED
    BY <2>1, <2>2, PartyReadKeeps
<1>3. ASSUME NEW i \in ContactIds, get_contact(c, i) PROVE PartiesInvariant'
  <2> DEFINE r == [op |-> "CONTACT", id |-> i, row |-> contacts[i]]
  <2>1. contacts[i] \in ContactRow
    BY <1>0, <1>3, PartyRows DEF get_contact
  <2>2. RequestOK(r) /\ r.op = "CONTACT" /\ Read(c, r)
    BY <1>3, <2>1 DEF RequestOK, get_contact
  <2> HIDE DEF r
  <2> QED
    BY <2>1, <2>2, PartyReadKeeps
<1>4. ASSUME NEW i \in AffiliationIds, get_affiliation(c, i) PROVE PartiesInvariant'
  <2> DEFINE r == [op |-> "AFFILIATION", id |-> i, row |-> affiliations[i]]
  <2>1. affiliations[i] \in AffiliationRow
    BY <1>0, <1>4, PartyRows DEF get_affiliation
  <2>2. RequestOK(r) /\ r.op = "AFFILIATION" /\ Read(c, r)
    BY <1>4, <2>1 DEF RequestOK, get_affiliation
  <2> HIDE DEF r
  <2> QED
    BY <2>1, <2>2, PartyReadKeeps
<1>5. ASSUME NEW p \in PartyIds, NEW q \in Roles, validate_party_for_new_business(c, p, q)
      PROVE  PartiesInvariant'
  <2> DEFINE r == [op |-> "BUSINESS", party |-> p]
  <2>1. RequestOK(r) /\ r.op = "BUSINESS" /\ Read(c, r)
    BY <1>5 DEF RequestOK, validate_party_for_new_business
  <2> HIDE DEF r
  <2> QED
    BY <2>1, PartyReadKeeps
<1>6. ASSUME NEW s \in PartyIds, NEW t \in PartyIds, merge(c, s, t) PROVE PartiesInvariant'
  <2> DEFINE r == [op |-> "MERGE", source |-> s, target |-> t]
  <2>1. RequestOK(r) /\ r.op = "MERGE" /\ Read(c, r)
    BY <1>6 DEF RequestOK, merge
  <2> HIDE DEF r
  <2> QED
    BY <2>1, PartyReadKeeps
<1> QED
  BY <1>1, <1>2, <1>3, <1>4, <1>5, <1>6

\* The services that change one party.
LEMMA StatusKeeps ==
    ASSUME PartiesInvariant, NEW p \in PartyIds, NEW row \in PartyRow, row.status # "MERGED",
           p \in Present, Unlocked(p), ~IsMerged(p), Serve,
           parties' = [parties EXCEPT ![p] = row], changed' \subseteq PartyIds,
           UNCHANGED <<children, merges, business, request, revived>>
    PROVE  PartiesInvariant'
<1> USE DEF PartiesInvariant
<1>0. DOMAIN parties = PartyIds /\ row # NoRow
  BY PartyRows, PartiesConstants
<1>1. parties'[p] = row /\ \A q \in PartyIds \ {p} : parties'[q] = parties[q]
  BY <1>0
<1>2. Present' = Present /\ DOMAIN parties' = PartyIds
  BY <1>0, <1>1 DEF Present
<1>3. \A q \in PartyIds : (parties'[q].status = "MERGED" <=> parties[q].status = "MERGED")
                          /\ (IsMerged(q) => parties'[q] = parties[q])
  BY <1>1 DEF IsMerged
<1>4. TypeOK'
  BY <1>0, PartiesConstants DEF TypeOK, children, Serve, PartyTables
<1>5. RowsStand'
  BY <1>2, RowsKept DEF children
<1>6. MergesHold'
  BY <1>2, <1>3, MergesKept DEF children, IsMerged, Present
<1>7. Tombstones' /\ SurvivorStands'
  <2>1. \A m \in merges : m.source \in Present' /\ m.target \in Present'
    BY <1>2 DEF Tombstones
  <2>2. \A q \in Present' : parties'[q].status = "MERGED" =>
            q \in Present /\ IsMerged(q) /\ parties'[q].into = parties[q].into
    BY <1>2, <1>3 DEF IsMerged, Present
  <2>3. \A q \in Present : IsMerged(q) => parties'[q].status = "MERGED"
    BY <1>3 DEF IsMerged, Present
  <2> QED
    BY <2>1, <2>2, <2>3, TombstonesStay
<1> QED
  BY <1>4, <1>5, <1>6, <1>7


\* Status and archive flag of one party (change_party_status, set_party_archive_state).
LEMMA PartyStepKeeps ==
    ASSUME PartiesInvariant, NEW p \in PartyIds
    PROVE  /\ \A s \in Statuses : change_party_status(p, s) => PartiesInvariant'
           /\ \A archived \in BOOLEAN :
                 set_party_archive_state(p, archived) => PartiesInvariant'
<1> USE DEF PartiesInvariant
<1>1. ASSUME NEW s \in Statuses, change_party_status(p, s) PROVE PartiesInvariant'
  <2> DEFINE row == [parties[p] EXCEPT !.status = s]
  <2>1. parties[p] \in PartyRow /\ p \in Present /\ s # "MERGED"
    BY <1>1, PartyRows, PartiesConstants DEF change_party_status
  <2>2. row \in PartyRow /\ row.status # "MERGED"
    BY <2>1 DEF PartyRow
  <2>3. parties' = [parties EXCEPT ![p] = row]
    BY <1>1 DEF change_party_status
  <2> HIDE DEF row
  <2>4. changed' \subseteq PartyIds
    BY <1>1 DEF change_party_status, PartyStatusHistory, TypeOK
  <2> QED
    BY <1>1, <2>1, <2>2, <2>3, <2>4, StatusKeeps DEF change_party_status
<1>2. ASSUME NEW archived \in BOOLEAN, set_party_archive_state(p, archived)
      PROVE  PartiesInvariant'
  <2> DEFINE row == [parties[p] EXCEPT !.archived = archived]
  <2>1. parties[p] \in PartyRow /\ p \in Present /\ parties[p].status # "MERGED"
    BY <1>2, PartyRows DEF set_party_archive_state, IsMerged
  <2>2. row \in PartyRow /\ row.status # "MERGED"
    BY <2>1 DEF PartyRow
  <2>3. parties' = [parties EXCEPT ![p] = row]
    BY <1>2 DEF set_party_archive_state
  <2> HIDE DEF row
  <2>4. changed' \subseteq PartyIds
    BY <1>2 DEF set_party_archive_state, TypeOK
  <2> QED
    BY <1>2, <2>1, <2>2, <2>3, <2>4, StatusKeeps DEF set_party_archive_state
<1> QED
  BY <1>1, <1>2

\* A deleted party is named by no merge record, no tombstone and no affiliation
\* (delete_unused_party).
LEMMA DeleteKeeps ==
    ASSUME PartiesInvariant, NEW p \in PartyIds, delete_unused_party(p)
    PROVE  PartiesInvariant'
<1> USE DEF PartiesInvariant
<1>0. /\ DOMAIN parties = PartyIds /\ DOMAIN contacts = ContactIds
      /\ DOMAIN places = PlaceIds
  BY PartyRows
<1>1. /\ parties' = [parties EXCEPT ![p] = NoRow]
      /\ roles' = [roles EXCEPT ![p] = [r \in Roles |-> "NONE"]]
      /\ contacts' = [i \in ContactIds |-> IF i \in Of(contacts, p) THEN NoRow ELSE contacts[i]]
      /\ places' = [i \in PlaceIds |-> IF i \in Of(places, p) THEN NoRow ELSE places[i]]
      /\ affiliations' = affiliations /\ merges' = merges /\ changed' = changed
      /\ business' = business /\ request' = request /\ revived' = revived
      /\ served' = served + 1 /\ served < MaxRequests
      /\ p \in Present /\ Unlocked(p)
      /\ \A m \in merges : p \notin {m.source, m.target}
  BY DEF delete_unused_party, Serve
<1>2. Present' = Present \ {p} /\ \A q \in PartyIds \ {p} : parties'[q] = parties[q]
  BY <1>0, <1>1 DEF Present
<1>3. TypeOK'
  <2>1. parties' \in PartyTables /\ contacts' \in ContactTables /\ places' \in PlaceTables
    BY <1>1 DEF TypeOK, PartyTables, ContactTables, PlaceTables
  <2>2. roles' \in RoleTables
    BY <1>1 DEF TypeOK, RoleTables, RoleStates
  <2>3. served' \in 0 .. MaxRequests
    BY <1>1, PartiesConstants DEF TypeOK
  <2> QED
    BY <1>1, <2>1, <2>2, <2>3 DEF TypeOK
<1>4. RowsStand'
  <2>1. \A i \in ContactIds : contacts'[i] # NoRow =>
            contacts'[i] = contacts[i] /\ contacts[i] # NoRow /\ contacts[i].party # p
    BY <1>0, <1>1 DEF Of
  <2>2. \A i \in PlaceIds : places'[i] # NoRow => places'[i] = places[i]
    BY <1>1
  <2>3. DOMAIN contacts' = ContactIds /\ DOMAIN places' = PlaceIds
    BY <1>1
  <2>4. ContactsFit(contacts)'
    BY <1>0, <2>1, <2>3 DEF RowsStand, ContactsFit, Pairwise, OnePrimary
  <2>5. PlacesFit(places)'
    BY <1>0, <2>2, <2>3 DEF RowsStand, PlacesFit, Pairwise, OnePrimary
  <2>6. AffiliationsFit(affiliations)'
    BY <1>1 DEF RowsStand, AffiliationsFit, Pairwise
  <2>7. \A i \in ContactIds : contacts'[i] # NoRow => contacts'[i].party \in Present'
    BY <1>2, <2>1 DEF RowsStand
  <2> QED
    BY <2>4, <2>5, <2>6, <2>7 DEF RowsStand
<1>5. MergesHold'
  <2> SUFFICES ASSUME NEW c \in Clerks, request[c].op = "MERGING"
               PROVE  /\ \A q \in {request[c].source, request[c].target} :
                            q \in Present /\ ~IsMerged(q) => q \in Present' /\ ~IsMerged(q)'
                      /\ \A i \in PlaceIds :
                            places[i] # NoRow /\ places[i].party = request[c].source =>
                                places'[i] = places[i]
    <3>1. /\ \A i \in ContactIds : contacts'[i] # NoRow => contacts'[i] = contacts[i]
          /\ request' = request /\ affiliations' = affiliations
      BY <1>1
    <3> QED
      BY <3>1, MergesKept
  <2>1. p \notin {request[c].source, request[c].target}
    BY <1>1 DEF Unlocked
  <2>2. \A q \in {request[c].source, request[c].target} :
            q \in Present /\ ~IsMerged(q) => q \in Present' /\ ~IsMerged(q)'
    BY <1>2, <2>1 DEF IsMerged, Present
  <2>3. \A i \in PlaceIds : places[i] # NoRow /\ places[i].party = request[c].source =>
            places'[i] = places[i]
    BY <1>0, <1>1, <2>1 DEF Of
  <2> QED
    BY <2>2, <2>3
<1>6. Tombstones' /\ SurvivorStands'
  <2>1. \A m \in merges : m.source \in Present' /\ m.target \in Present'
    BY <1>1, <1>2 DEF Tombstones
  <2>2. \A q \in Present' : parties'[q].status = "MERGED" =>
            q \in Present /\ IsMerged(q) /\ parties'[q].into = parties[q].into
    BY <1>2 DEF IsMerged, Present
  <2>3. \A q \in Present : IsMerged(q) => q # p
    <3>1. ASSUME IsMerged(p) PROVE FALSE
      <4> DEFINE m == [source |-> p, target |-> parties[p].into]
      <4>1. m \in merges /\ m.source = p
        BY <1>1, <3>1 DEF Tombstones, Recorded
      <4> HIDE DEF m
      <4> QED
        BY <1>1, <4>1
    <3> QED
      BY <3>1
  <2>4. \A q \in Present : IsMerged(q) => parties'[q].status = "MERGED"
    BY <1>2, <2>3 DEF IsMerged, Present
  <2> QED
    BY <1>1, <2>1, <2>2, <2>4, TombstonesStay
<1> QED
  BY <1>3, <1>4, <1>5, <1>6

\* A contact of a party that is new.
LEMMA CreatePartyKeeps ==
    ASSUME PartiesInvariant, NEW c \in Clerks, create_party(c)
    PROVE  PartiesInvariant'
<1> USE DEF PartiesInvariant
<1> DEFINE p == request[c].party
           row == [status |-> "ACTIVE", archived |-> FALSE, into |-> NoRow]
           new == [party |-> p, value |-> request[c].value, primary |-> TRUE,
                   verified |-> FALSE, active |-> TRUE]
<1>0. /\ DOMAIN parties = PartyIds /\ DOMAIN contacts = ContactIds
      /\ DOMAIN request = Clerks
  BY PartyRows
<1>1. PICK i \in ContactIds, r \in Roles :
          /\ contacts[i] = NoRow
          /\ contacts' = [contacts EXCEPT ![i] = new]
          /\ roles' = [roles EXCEPT ![p][r] = "ACTIVE"]
  BY DEF create_party
<1>2. /\ request[c].op = "CREATE" /\ parties[p] = NoRow
      /\ parties' = [parties EXCEPT ![p] = row]
      /\ request' = [request EXCEPT ![c] = Idle]
      /\ UNCHANGED <<places, affiliations, merges, changed, business, served, revived>>
  BY DEF create_party, Done
<1>3. p \in PartyIds /\ request[c].value \in Values
  BY <1>2 DEF TypeOK, RequestOK
<1>4. row \in PartyRow /\ new \in ContactRow /\ row.status # "MERGED" /\ new.party = p
  BY <1>3, PartiesConstants DEF PartyRow, ContactRow
<1> HIDE DEF row, new
<1>5. row # NoRow /\ new # NoRow
  BY <1>4, PartiesConstants
<1>6. Present' = Present \cup {p} /\ p \notin Present
      /\ parties'[p] = row /\ \A q \in PartyIds \ {p} : parties'[q] = parties[q]
  BY <1>0, <1>2, <1>3, <1>5 DEF Present
<1>7. request'[c] = Idle /\ Idle.op = "NONE"
      /\ \A d \in Clerks \ {c} : request'[d] = request[d]
  BY <1>0, <1>2 DEF Idle
<1>8. TypeOK'
  <2>1. parties' \in PartyTables /\ contacts' \in ContactTables
    BY <1>1, <1>2, <1>3, <1>4 DEF TypeOK, PartyTables, ContactTables
  <2>2. roles' \in RoleTables
    BY <1>1, <1>3 DEF TypeOK, RoleTables, RoleStates
  <2>3. DOMAIN request' = Clerks /\ \A d \in Clerks : RequestOK(request'[d])
    BY <1>0, <1>2, <1>7 DEF TypeOK, RequestOK
  <2> QED
    BY <1>2, <2>1, <2>2, <2>3 DEF TypeOK, RequestOK
<1>9. contacts'[i] = new /\ DOMAIN contacts' = ContactIds
      /\ \A j \in ContactIds \ {i} : contacts'[j] = contacts[j]
  BY <1>0, <1>1
<1>10. RowsStand'
  <2>1. \A j \in ContactIds : contacts[j] # NoRow => contacts[j].party # p
    BY <1>6 DEF RowsStand
  <2>2. ContactsFit(contacts)'
    BY <1>0, <1>1, <1>4, <1>9, <2>1 DEF RowsStand, ContactsFit, Pairwise, OnePrimary
  <2>3. PlacesFit(places)' /\ AffiliationsFit(affiliations)'
    BY <1>2 DEF RowsStand, PlacesFit, AffiliationsFit, Pairwise
  <2>4. \A j \in ContactIds : contacts'[j] # NoRow => contacts'[j].party \in Present'
    BY <1>4, <1>6, <1>9 DEF RowsStand
  <2> QED
    BY <2>2, <2>3, <2>4 DEF RowsStand
<1>11. MergesHold'
  <2> SUFFICES ASSUME NEW d \in Clerks, request'[d].op = "MERGING"
               PROVE  /\ request'[d] = request[d]
                      /\ \A q \in {request[d].source, request[d].target} :
                            q \in Present /\ ~IsMerged(q) => q \in Present' /\ ~IsMerged(q)'
                      /\ \A j \in ContactIds :
                            contacts'[j] # NoRow /\ contacts'[j].party = request[d].target =>
                                contacts[j] # NoRow /\ contacts[j].party = request[d].target
    BY <1>2, MergesKept DEF TypeOK
  <2>1. request'[d] = request[d] /\ request[d].target \in Present
    BY <1>7 DEF MergesHold, MergeHolds
  <2> QED
    BY <1>4, <1>6, <1>9, <2>1 DEF IsMerged, Present
<1>12. Tombstones' /\ SurvivorStands'
  <2>1. \A m \in merges : m.source \in Present' /\ m.target \in Present'
    BY <1>6 DEF Tombstones
  <2>2. \A q \in Present' : parties'[q].status = "MERGED" =>
            q \in Present /\ IsMerged(q) /\ parties'[q].into = parties[q].into
    BY <1>4, <1>6 DEF IsMerged, Present
  <2>3. \A q \in Present : IsMerged(q) => parties'[q].status = "MERGED"
    BY <1>6 DEF IsMerged, Present
  <2> QED
    BY <1>2, <1>7, <2>1, <2>2, <2>3, TombstonesStay
<1> QED
  BY <1>8, <1>10, <1>11, <1>12


\* A row is inserted, saved or deleted: a contact comes only to a party that is not
\* locked.
LEMMA ContactRowKeeps ==
    ASSUME PartiesInvariant, NEW i \in ContactIds, NEW row \in ContactRow \cup {NoRow},
           contacts' = [contacts EXCEPT ![i] = row], ContactsFit(contacts'),
           row # NoRow => /\ row.party \in Present
                          /\ \/ Unlocked(row.party)
                             \/ contacts[i] # NoRow /\ contacts[i].party = row.party,
           served' \in 0 .. MaxRequests, DOMAIN request' = Clerks,
           \A c \in Clerks : request'[c] = request[c] \/ request'[c] = Idle,
           UNCHANGED <<parties, roles, places, affiliations, merges, changed, business,
           revived>>
    PROVE  PartiesInvariant'
<1> USE DEF PartiesInvariant
<1>0. DOMAIN contacts = ContactIds
  BY PartyRows
<1>1. /\ contacts'[i] = row /\ DOMAIN contacts' = ContactIds
      /\ \A j \in ContactIds \ {i} : contacts'[j] = contacts[j]
  BY <1>0
<1>2. \A c \in Clerks : request'[c].op # "NONE" => request'[c] = request[c]
  BY DEF Idle
<1>3. TypeOK'
  <2>1. contacts' \in ContactTables
    BY DEF TypeOK, ContactTables
  <2>2. \A c \in Clerks : RequestOK(request'[c])
    BY <1>2 DEF TypeOK, RequestOK
  <2> QED
    BY <2>1, <2>2 DEF TypeOK, RequestOK
<1>4. Present' = Present
  BY DEF Present
<1>5. RowsStand'
  <2>1. ContactsFit(contacts)'
    BY DEF ContactsFit, Pairwise
  <2>2. PlacesFit(places)' /\ AffiliationsFit(affiliations)'
    BY DEF RowsStand, PlacesFit, AffiliationsFit, Pairwise
  <2>3. \A j \in ContactIds : contacts'[j] # NoRow => contacts'[j].party \in Present'
    BY <1>1, <1>4 DEF RowsStand
  <2> QED
    BY <2>1, <2>2, <2>3 DEF RowsStand
<1>6. MergesHold'
  <2> SUFFICES ASSUME NEW d \in Clerks, request'[d].op = "MERGING"
               PROVE  /\ request'[d] = request[d]
                      /\ \A q \in {request[d].source, request[d].target} :
                            q \in Present /\ ~IsMerged(q) => q \in Present' /\ ~IsMerged(q)'
                      /\ \A j \in ContactIds :
                            contacts'[j] # NoRow /\ contacts'[j].party = request[d].target =>
                                contacts[j] # NoRow /\ contacts[j].party = request[d].target
    BY MergesKept
  <2>1. request'[d] = request[d] /\ request[d].op = "MERGING"
    BY <1>2
  <2>2. \A j \in ContactIds :
            contacts'[j] # NoRow /\ contacts'[j].party = request[d].target =>
                contacts[j] # NoRow /\ contacts[j].party = request[d].target
    BY <1>1, <2>1 DEF Unlocked
  <2> QED
    BY <1>4, <2>1, <2>2 DEF IsMerged
<1>7. Tombstones' /\ SurvivorStands'
  BY <1>2, TombstonesKept
<1> QED
  BY <1>3, <1>5, <1>6, <1>7

\* An affiliation that is written: its ends exist, and it comes to no party that a
\* merge holds.
LEMMA AffiliationRowKeeps ==
    ASSUME PartiesInvariant, NEW i \in AffiliationIds,
           NEW row \in AffiliationRow \cup {NoRow},
           affiliations' = [affiliations EXCEPT ![i] = row],
           AffiliationsFit(affiliations'),
           row # NoRow => \A p \in {row.person, row.organisation} :
               \/ Unlocked(p)
               \/ /\ affiliations[i] # NoRow
                  /\ p \in {affiliations[i].person, affiliations[i].organisation},
           served' \in 0 .. MaxRequests, DOMAIN request' = Clerks,
           \A c \in Clerks : request'[c] = request[c] \/ request'[c] = Idle,
           UNCHANGED <<parties, roles, places, contacts, merges, changed, business,
           revived>>
    PROVE  PartiesInvariant'
<1> USE DEF PartiesInvariant
<1>0. DOMAIN affiliations = AffiliationIds
  BY PartyRows
<1>1. /\ affiliations'[i] = row /\ DOMAIN affiliations' = AffiliationIds
      /\ \A j \in AffiliationIds \ {i} : affiliations'[j] = affiliations[j]
  BY <1>0
<1>2. \A c \in Clerks : request'[c].op # "NONE" => request'[c] = request[c]
  BY DEF Idle
<1>3. TypeOK'
  <2>1. affiliations' \in AffiliationTables
    BY DEF TypeOK, AffiliationTables
  <2>2. \A c \in Clerks : RequestOK(request'[c])
    BY <1>2 DEF TypeOK, RequestOK
  <2> QED
    BY <2>1, <2>2 DEF TypeOK, RequestOK
<1>4. Present' = Present
  BY DEF Present
<1>5. RowsStand'
  <2>1. AffiliationsFit(affiliations)'
    BY DEF AffiliationsFit, Pairwise
  <2>2. PlacesFit(places)' /\ ContactsFit(contacts)'
    BY DEF RowsStand, PlacesFit, ContactsFit, Pairwise
  <2>3. \A j \in ContactIds : contacts'[j] # NoRow => contacts'[j].party \in Present'
    BY <1>4 DEF RowsStand
  <2> QED
    BY <2>1, <2>2, <2>3 DEF RowsStand
<1>6. MergesHold'
  <2> SUFFICES ASSUME NEW d \in Clerks, request'[d].op = "MERGING"
               PROVE  /\ request'[d] = request[d]
                      /\ \A q \in {request[d].source, request[d].target} :
                            q \in Present /\ ~IsMerged(q) => q \in Present' /\ ~IsMerged(q)'
                      /\ \A j \in AffiliationIds :
                            /\ affiliations'[j] # NoRow
                            /\ request[d].target \in {affiliations'[j].person,
                                                      affiliations'[j].organisation}
                            => /\ affiliations[j] # NoRow
                               /\ request[d].target \in {affiliations[j].person,
                                                         affiliations[j].organisation}
    BY MergesKept
  <2>1. request'[d] = request[d] /\ request[d].op = "MERGING"
    BY <1>2
  <2>2. ~Unlocked(request[d].target)
    BY <2>1 DEF Unlocked
  <2>3. ASSUME NEW j \in AffiliationIds, affiliations'[j] # NoRow,
               request[d].target \in {affiliations'[j].person,
               affiliations'[j].organisation}
        PROVE  /\ affiliations[j] # NoRow
               /\ request[d].target \in {affiliations[j].person, affiliations[j].organisation}
    BY <1>1, <2>2, <2>3
  <2> QED
    BY <1>4, <2>1, <2>3 DEF IsMerged
<1>7. Tombstones' /\ SurvivorStands'
  BY <1>2, TombstonesKept
<1> QED
  BY <1>3, <1>5, <1>6, <1>7

\* The ordinary requests on contacts and affiliations.
LEMMA RowStepKeeps ==
    ASSUME PartiesInvariant
    PROVE  /\ \A p \in PartyIds, v \in Values, primary \in BOOLEAN :
                 create_contact(p, v, primary) => PartiesInvariant'
           /\ \A i \in ContactIds : delete_contact(i) => PartiesInvariant'
           /\ \A i \in AffiliationIds : delete_affiliation(i) => PartiesInvariant'
<1> USE DEF PartiesInvariant
<1>0. /\ DOMAIN contacts = ContactIds /\ DOMAIN affiliations = AffiliationIds
      /\ DOMAIN request = Clerks
  BY PartyRows
<1>1. ASSUME NEW p \in PartyIds, NEW v \in Values, NEW primary \in BOOLEAN,
             create_contact(p, v, primary)
      PROVE  PartiesInvariant'
  <2> DEFINE row == [party |-> p, value |-> v, primary |-> primary,
                     verified |-> FALSE, active |-> TRUE]
  <2>1. PICK i \in ContactIds : contacts' = [contacts EXCEPT ![i] = row]
    BY <1>1 DEF create_contact
  <2>2. /\ p \in Present /\ Unlocked(p) /\ ContactsFit(contacts') /\ Serve
        /\ UNCHANGED <<parties, roles, places, affiliations, merges, changed, business,
                       request, revived>>
    BY <1>1 DEF create_contact
  <2>3. row \in ContactRow /\ row.party = p
    BY DEF ContactRow
  <2>4. served' \in 0 .. MaxRequests
    BY <2>2, PartiesConstants DEF Serve, TypeOK
  <2> HIDE DEF row
  <2> QED
    BY <1>0, <2>1, <2>2, <2>3, <2>4, ContactRowKeeps
<1>2. ASSUME NEW i \in ContactIds, delete_contact(i) PROVE PartiesInvariant'
  <2>1. /\ contacts' = [contacts EXCEPT ![i] = NoRow] /\ Serve
        /\ UNCHANGED <<parties, roles, places, affiliations, merges, changed, business,
                       request, revived>>
    BY <1>2 DEF delete_contact
  <2>2. \A j \in ContactIds : contacts'[j] # NoRow => contacts'[j] = contacts[j]
    BY <1>0, <2>1
  <2>3. ContactsFit(contacts')
    BY <1>0, <2>1, <2>2 DEF RowsStand, ContactsFit, Pairwise, OnePrimary
  <2>4. served' \in 0 .. MaxRequests
    BY <2>1, PartiesConstants DEF Serve, TypeOK
  <2> QED
    BY <1>0, <2>1, <2>3, <2>4, ContactRowKeeps
<1>3. ASSUME NEW i \in AffiliationIds, delete_affiliation(i) PROVE PartiesInvariant'
  <2>1. /\ affiliations' = [affiliations EXCEPT ![i] = NoRow] /\ Serve
        /\ UNCHANGED <<parties, roles, contacts, places, merges, changed, business,
                       request, revived>>
    BY <1>3 DEF delete_affiliation
  <2>2. \A j \in AffiliationIds : affiliations'[j] # NoRow => affiliations'[j] = affiliations[j]
    BY <1>0, <2>1
  <2>3. AffiliationsFit(affiliations')
    BY <1>0, <2>1, <2>2 DEF RowsStand, AffiliationsFit, Pairwise
  <2>4. served' \in 0 .. MaxRequests
    BY <2>1, PartiesConstants DEF Serve, TypeOK
  <2> QED
    BY <1>0, <2>1, <2>3, <2>4, AffiliationRowKeeps
<1> QED
  BY <1>1, <1>2, <1>3

\* Saving a contact or an affiliation that was read before.
LEMMA SaveContactKeeps ==
    ASSUME PartiesInvariant, NEW c \in Clerks, NEW change \in {"PRIMARY", "ACTIVE", "VERIFIED"},
           save_contact(c, change)
    PROVE  PartiesInvariant'
<1> USE DEF PartiesInvariant
<1> DEFINE
  i == request[c].id
  row == request[c].row
  primary == IF change = "PRIMARY" THEN ~row.primary ELSE row.primary
  active == IF change = "ACTIVE" THEN ~row.active ELSE row.active
  saved == [party |-> row.party, value |-> row.value, primary |-> primary,
            verified |-> row.verified \/ change = "VERIFIED",
            active |-> active \/ primary]
  ends == IF contacts[i] # NoRow /\ contacts[i].party = row.party THEN {} ELSE {row.party}
<1>1. request[c].op = "CONTACT" /\ ~Waits(ends)
  BY DEF save_contact
<1>2. i \in ContactIds /\ row \in ContactRow /\ DOMAIN request = Clerks
  BY <1>1, PartyRows DEF TypeOK, RequestOK
<1>3. saved \in ContactRow /\ saved.party = row.party
  BY <1>2 DEF ContactRow
<1>4. CASE /\ Saved(c, ends, ContactsFit([contacts EXCEPT ![i] = saved]))
           /\ contacts' = [contacts EXCEPT ![i] = saved]
           /\ UNCHANGED <<parties, roles, places, affiliations, merges, changed, business,
                          served, revived>>
  <2>1. /\ ends \subseteq Present /\ ContactsFit(contacts')
        /\ request' = [request EXCEPT ![c] = Idle]
    BY <1>4 DEF Saved, Done
  <2>2. /\ row.party \in Present
        /\ \/ Unlocked(row.party)
           \/ contacts[i] # NoRow /\ contacts[i].party = row.party
    <3>1. CASE contacts[i] # NoRow /\ contacts[i].party = row.party
      BY <1>2, <3>1 DEF RowsStand
    <3>2. CASE ~(contacts[i] # NoRow /\ contacts[i].party = row.party)
      BY <1>1, <2>1, <3>2 DEF Waits
    <3> QED
      BY <3>1, <3>2
  <2>3. served' \in 0 .. MaxRequests /\ DOMAIN request' = Clerks
        /\ \A d \in Clerks : request'[d] = request[d] \/ request'[d] = Idle
    BY <1>2, <1>4, <2>1 DEF TypeOK
  <2> HIDE DEF saved, row, ends, i, Idle
  <2> QED
    BY <1>2, <1>3, <1>4, <2>1, <2>2, <2>3, ContactRowKeeps
<1>5. CASE Refused(c)
  BY <1>5, RefusedKeeps
<1> QED
  BY <1>4, <1>5 DEF save_contact

LEMMA SaveAffiliationKeeps ==
    ASSUME PartiesInvariant, NEW c \in Clerks, NEW change \in {"PRIMARY", "END"},
           save_affiliation(c, change)
    PROVE  PartiesInvariant'
<1> USE DEF PartiesInvariant
<1> DEFINE
  i == request[c].id
  row == request[c].row
  saved == [person |-> row.person, organisation |-> row.organisation,
            current |-> row.current /\ change # "END",
            primary_contact |-> row.primary_contact \/ change = "PRIMARY"]
  ends == {row.person, row.organisation} \
              (IF affiliations[i] = NoRow THEN {}
               ELSE {affiliations[i].person, affiliations[i].organisation})
<1>1. request[c].op = "AFFILIATION" /\ ~Waits(ends)
  BY DEF save_affiliation
<1>2. i \in AffiliationIds /\ row \in AffiliationRow /\ DOMAIN request = Clerks
  BY <1>1, PartyRows DEF TypeOK, RequestOK
<1>3. saved \in AffiliationRow /\ saved.person = row.person
      /\ saved.organisation = row.organisation
  BY <1>2 DEF AffiliationRow
<1>4. CASE /\ Saved(c, ends, AffiliationsFit([affiliations EXCEPT ![i] = saved]))
           /\ affiliations' = [affiliations EXCEPT ![i] = saved]
           /\ UNCHANGED <<parties, roles, contacts, places, merges, changed, business,
                          served, revived>>
  <2>1. /\ ends \subseteq Present /\ AffiliationsFit(affiliations')
        /\ request' = [request EXCEPT ![c] = Idle]
    BY <1>4 DEF Saved, Done
  <2>2. \A p \in {row.person, row.organisation} :
            \/ Unlocked(p)
            \/ /\ affiliations[i] # NoRow
               /\ p \in {affiliations[i].person, affiliations[i].organisation}
    BY <1>1 DEF Waits
  <2>3. served' \in 0 .. MaxRequests /\ DOMAIN request' = Clerks
        /\ \A d \in Clerks : request'[d] = request[d] \/ request'[d] = Idle
    BY <1>2, <1>4, <2>1 DEF TypeOK
  <2> HIDE DEF saved, row, ends, i, Idle
  <2> QED
    BY <1>2, <1>3, <1>4, <2>1, <2>2, <2>3, AffiliationRowKeeps
<1>5. CASE Refused(c)
  BY <1>5, RefusedKeeps
<1> QED
  BY <1>4, <1>5 DEF save_affiliation

\* Business with a party, which only adds to the parties named elsewhere.
LEMMA BusinessKeeps ==
    ASSUME PartiesInvariant, NEW c \in Clerks, start_business(c)
    PROVE  PartiesInvariant'
<1>1. CASE Refused(c)
  BY <1>1, RefusedKeeps
<1>2. CASE /\ Saved(c, {request[c].party}, TRUE)
           /\ business' = business \cup {request[c].party}
           /\ UNCHANGED <<parties, children, merges, changed, served, revived>>
  <2>1. request' = [request EXCEPT ![c] = Idle]
    BY <1>2 DEF Saved, Done
  <2>2. request[c].party \in PartyIds
    BY DEF start_business, PartiesInvariant, TypeOK, RequestOK
  <2>3. business' \subseteq PartyIds /\ served' \in 0 .. MaxRequests
    BY <1>2, <2>2 DEF PartiesInvariant, TypeOK
  <2>4. RequestOK(Idle) /\ Idle.op = "NONE"
    BY DEF RequestOK, Idle
  <2> HIDE DEF Idle
  <2> QED
    BY <1>2, <2>1, <2>3, <2>4, RequestKeeps DEF children
<1> QED
  BY <1>1, <1>2 DEF start_business


\* PATCH: a stale row may change a merged party back, and then revived says so; a
\* row read as merged is the tombstone that is there, as long as none was revived.
LEMMA UpdatePartyKeeps ==
    ASSUME PartiesInvariant, NEW c \in Clerks, update_party(c), roles' \in RoleTables
    PROVE  PartiesInvariant'
<1> USE DEF PartiesInvariant
<1> DEFINE p == request[c].party
           row == request[c].row
<1>0. DOMAIN parties = PartyIds /\ DOMAIN request = Clerks
  BY PartyRows
<1>1. /\ request[c].op = "PARTY" /\ Unlocked(p)
      /\ parties' = [parties EXCEPT ![p] = row]
      /\ revived' = (revived \/ (/\ parties[p] # NoRow /\ IsMerged(p)
                                 /\ row.status # "MERGED"))
      /\ request' = [request EXCEPT ![c] = Idle]
      /\ UNCHANGED <<contacts, places, affiliations, merges, changed, business, served>>
  BY DEF update_party, Done
<1>2. p \in PartyIds /\ row \in PartyRow /\ row # NoRow
  BY <1>1, PartiesConstants DEF TypeOK, RequestOK
<1>3. row.status = "MERGED" => [source |-> p, target |-> row.into] \in merges
  BY <1>1 DEF Tombstones, Recorded
<1>4. request'[c] = Idle /\ Idle.op = "NONE"
      /\ \A d \in Clerks \ {c} : request'[d] = request[d]
  BY <1>0, <1>1 DEF Idle
<1> HIDE DEF p, row
<1>5. Present' = Present \cup {p} /\ parties'[p] = row
      /\ \A q \in PartyIds \ {p} : parties'[q] = parties[q]
  BY <1>0, <1>1, <1>2 DEF Present
<1>6. TypeOK'
  <2>1. parties' \in PartyTables
    BY <1>1, <1>2 DEF TypeOK, PartyTables
  <2>2. DOMAIN request' = Clerks /\ \A d \in Clerks : RequestOK(request'[d])
    BY <1>0, <1>1, <1>4 DEF TypeOK, RequestOK
  <2>3. revived' \in BOOLEAN
    BY <1>1
  <2> QED
    BY <1>1, <2>1, <2>2, <2>3 DEF TypeOK
<1>7. RowsStand'
  <2>1. ContactsFit(contacts)' /\ PlacesFit(places)' /\ AffiliationsFit(affiliations)'
    BY <1>1 DEF RowsStand, ContactsFit, PlacesFit, AffiliationsFit, Pairwise
  <2>2. \A j \in ContactIds : contacts'[j] # NoRow => contacts'[j].party \in Present'
    BY <1>1, <1>5 DEF RowsStand
  <2> QED
    BY <2>1, <2>2 DEF RowsStand
<1>8. MergesHold'
  <2> SUFFICES ASSUME NEW d \in Clerks, request'[d].op = "MERGING"
               PROVE  /\ request'[d] = request[d]
                      /\ \A q \in {request[d].source, request[d].target} :
                            q \in Present /\ ~IsMerged(q) => q \in Present' /\ ~IsMerged(q)'
    BY <1>1, MergesKept
  <2>1. request'[d] = request[d] /\ p \notin {request[d].source, request[d].target}
    BY <1>1, <1>4 DEF Unlocked
  <2> QED
    BY <1>5, <2>1 DEF IsMerged, Present
<1>9. Tombstones'
  <2>1. \A m \in merges : m.source \in Present' /\ m.target \in Present'
    BY <1>5 DEF Tombstones
  <2>2. \A q \in Present' : parties'[q].status = "MERGED" =>
            [source |-> q, target |-> parties'[q].into] \in merges
    BY <1>3, <1>5 DEF Tombstones, Recorded, IsMerged, Present
  <2>3. \A d \in Clerks :
           request'[d].op = "PARTY" /\ request'[d].row.status = "MERGED"
               => [source |-> request'[d].party,
               target |-> request'[d].row.into] \in merges
    BY <1>4 DEF Tombstones, Recorded
  <2>4. ASSUME ~revived', NEW m \in merges PROVE parties'[m.source].status = "MERGED"
    <3>1. IsMerged(m.source) /\ m.source \in Present
      BY <1>1, <2>4 DEF Tombstones
    <3>2. CASE m.source # p
      BY <1>5, <3>1, <3>2 DEF IsMerged, Present
    <3>3. CASE m.source = p
      BY <1>1, <1>5, <2>4, <3>1, <3>3 DEF Present
    <3> QED
      BY <3>2, <3>3
  <2> QED
    BY <1>1, <2>1, <2>2, <2>3, <2>4 DEF Tombstones, Recorded, IsMerged
<1>10. SurvivorStands'
  <2> SUFFICES ASSUME ~revived'
               PROVE  /\ \A q \in Present' : parties'[q].status = "MERGED" =>
                             parties'[q].into \in Present'
                      /\ \A S \in SUBSET Present' : S # {} =>
                            ~\A q \in S : /\ parties'[q].status = "MERGED"
                                          /\ parties'[q].into \in S
    BY DEF SurvivorStands, IsMerged
  <2>0. ~revived
    BY <1>1
  <2>1. ASSUME NEW q \in Present', parties'[q].status = "MERGED"
        PROVE  /\ parties'[q].into \in Present'
               /\ q \in Present /\ IsMerged(q) /\ parties[q].into = parties'[q].into
    <3> DEFINE m == [source |-> q, target |-> parties'[q].into]
    <3>1. m \in merges /\ m.source = q /\ m.target = parties'[q].into
      BY <1>1, <1>9, <2>1 DEF Tombstones, Recorded, IsMerged
    <3> HIDE DEF m
    <3>2. q \in Present /\ IsMerged(q) /\ parties'[q].into \in Present'
      BY <1>5, <2>0, <3>1 DEF Tombstones
    <3> DEFINE n == [source |-> q, target |-> parties[q].into]
    <3>3. n \in merges /\ n.source = q /\ n.target = parties[q].into
      BY <3>2 DEF Tombstones, Recorded
    <3> HIDE DEF n
    <3>4. m = n
      BY <3>1, <3>3 DEF Tombstones
    <3> QED
      BY <3>1, <3>2, <3>3, <3>4
  <2>2. ASSUME NEW S \in SUBSET Present', S # {},
               \A q \in S : parties'[q].status = "MERGED" /\ parties'[q].into \in S
        PROVE  FALSE
    <3>1. S \in SUBSET Present /\ \A q \in S : IsMerged(q) /\ parties[q].into \in S
      BY <2>1, <2>2
    <3> QED
      BY <2>0, <2>2, <3>1 DEF SurvivorStands
  <2> QED
    BY <2>1, <2>2
<1> QED
  BY <1>6, <1>7, <1>8, <1>9, <1>10

\* Locking the parties of a merge and reading their rows.
LEMMA LockKeeps ==
    ASSUME PartiesInvariant, NEW c \in Clerks, lock_parties(c)
    PROVE  PartiesInvariant'
<1> USE DEF PartiesInvariant
<1> DEFINE s == request[c].source
           t == request[c].target
           m == Merging(s, t)
<1>0. DOMAIN request = Clerks /\ request[c].op = "MERGE" /\ Unlocked(s) /\ Unlocked(t)
  BY PartyRows DEF lock_parties
<1>1. s \in PartyIds /\ t \in PartyIds
  BY <1>0 DEF TypeOK, RequestOK
<1>2. CASE Refused(c)
  BY <1>2, RefusedKeeps
<1>3. CASE /\ _validate_merge_parties(s, t)
           /\ request' = [request EXCEPT ![c] = m]
           /\ UNCHANGED <<parties, children, merges, changed, business, served, revived>>
  <2>1. /\ s \in Present /\ t \in Present /\ s # t /\ ~IsMerged(s) /\ ~IsMerged(t)
        /\ s \in Organisations <=> t \in Organisations
    BY <1>3 DEF _validate_merge_parties
  <2>2. /\ m.op = "MERGING" /\ m.source = s /\ m.target = t
        /\ m.contacts = [i \in Of(contacts, s) |-> contacts[i]]
        /\ m.places = [i \in Of(places, s) |-> places[i]]
        /\ m.affiliations = [i \in AffiliationsOf(s) |-> affiliations[i]]
    BY DEF Merging, ReadRows
  <2>3. /\ \A i \in Of(contacts, s) :
               i \in ContactIds /\ contacts[i] \in ContactRow /\ contacts[i].party = s
        /\ \A i \in Of(places, s) : i \in PlaceIds /\ places[i] # NoRow /\ places[i].party = s
        /\ \A i \in AffiliationsOf(s) :
               /\ i \in AffiliationIds /\ affiliations[i] \in AffiliationRow
               /\ s \in {affiliations[i].person, affiliations[i].organisation}
               /\ affiliations[i].person \in People
               /\ affiliations[i].organisation \in Organisations
    BY PartyRows DEF Of, AffiliationsOf
  <2>4. /\ DOMAIN m.contacts = Of(contacts, s) /\ DOMAIN m.places = Of(places, s)
        /\ DOMAIN m.affiliations = AffiliationsOf(s)
        /\ \A i \in Of(contacts, s) : m.contacts[i] = contacts[i]
        /\ \A i \in AffiliationsOf(s) : m.affiliations[i] = affiliations[i]
    BY <2>2
  <2> HIDE DEF m
  <2>5. RequestOK(m)
    <3>1. /\ DOMAIN m.contacts \subseteq ContactIds /\ DOMAIN m.places \subseteq PlaceIds
          /\ DOMAIN m.affiliations \subseteq AffiliationIds
          /\ \A i \in DOMAIN m.contacts : m.contacts[i] \in ContactRow
          /\ \A i \in DOMAIN m.affiliations : m.affiliations[i] \in AffiliationRow
      BY <2>3, <2>4
    <3> QED
      BY <1>1, <2>2, <3>1 DEF RequestOK
  <2>6. MergeHolds(m)
    <3>1. \A i \in DOMAIN m.contacts :
             /\ contacts[i] # NoRow => contacts[i].party # t
             /\ \A j \in DOMAIN m.contacts \ {i} : m.contacts[i].value # m.contacts[j].value
      <4> SUFFICES ASSUME NEW i \in Of(contacts, s)
                   PROVE  /\ contacts[i].party # t
                          /\ \A j \in Of(contacts, s) \ {i} :
                                 contacts[i].value # contacts[j].value
        BY <2>4
      <4>1. contacts[i].party # t
        BY <2>1, <2>3
      <4>2. ASSUME NEW j \in Of(contacts,
      s) \ {i} PROVE contacts[i].value # contacts[j].value
        BY DEF RowsStand, ContactsFit, Pairwise, Of
      <4> QED
        BY <4>1, <4>2
    <3>2. \A i \in DOMAIN m.affiliations :
             /\ Near(m, m.affiliations[i]) = s
             /\ affiliations[i] # NoRow =>
                    t \notin {affiliations[i].person, affiliations[i].organisation}
      <4> SUFFICES ASSUME NEW i \in AffiliationsOf(s)
                   PROVE  /\ Near(m, affiliations[i]) = s
                          /\ t \notin {affiliations[i].person, affiliations[i].organisation}
        BY <2>4
      <4>1. affiliations[i].person \in People /\ affiliations[i].organisation \in Organisations
            /\ s \in {affiliations[i].person, affiliations[i].organisation}
        BY <2>3
      <4>2. CASE s \in Organisations
        BY <2>1, <2>2, <4>1, <4>2 DEF Near, People
      <4>3. CASE s \notin Organisations
        BY <2>1, <2>2, <4>1, <4>3, <1>1 DEF Near, People
      <4> QED
        BY <4>2, <4>3
    <3>3. \A i \in DOMAIN m.places : places[i] # NoRow /\ places[i].party = s
      BY <2>3, <2>4
    <3> HIDE DEF s, t
    <3> QED
      BY <2>1, <2>2, <3>1, <3>2, <3>3 DEF MergeHolds
  <2>7. /\ request'[c] = m /\ DOMAIN request' = Clerks
        /\ \A d \in Clerks \ {c} : request'[d] = request[d]
    BY <1>0, <1>3
  <2>8. TypeOK'
    BY <1>3, <2>5, <2>7 DEF TypeOK, children
  <2>9. RowsStand'
    BY <1>3, RowsKept DEF children, Present
  <2>10. MergesHold'
    <3>1. /\ parties' = parties /\ contacts' = contacts /\ places' = places
          /\ affiliations' = affiliations
      BY <1>3 DEF children
    <3>2. \A d \in Clerks : request'[d].op = "MERGING" => MergeHolds(request'[d])
      BY <2>6, <2>7 DEF MergesHold
    <3>3. \A d \in Clerks : request'[d].op = "MERGING" => MergeHolds(request[d])'
      BY <3>1, <3>2 DEF MergeHolds, Near, IsMerged, Present
    <3>4. \A d, e \in Clerks : d # e /\ request'[d].op = "MERGING" /\ request'[e].op = "MERGING"
              => {request'[d].source, request'[d].target} \cap
                     {request'[e].source, request'[e].target} = {}
      <4>1. \A d \in Clerks \ {c} : request[d].op = "MERGING" =>
                {s, t} \cap {request[d].source, request[d].target} = {}
        BY <1>0 DEF Unlocked
      <4> QED
        BY <2>2, <2>7, <4>1 DEF MergesHold
    <3> QED
      BY <3>3, <3>4 DEF MergesHold
  <2>11. Tombstones' /\ SurvivorStands'
    BY <1>3, <2>2, <2>7, TombstonesKept
  <2> QED
    BY <2>8, <2>9, <2>10, <2>11
<1> QED
  BY <1>2, <1>3 DEF lock_parties

\* What a merge leaves of each table: rows that were there, those of the source and
\* of the target at the target.
LEMMA MergedContacts ==
    ASSUME TypeOK, NEW m, m.op = "MERGING", RequestOK(m), MergeHolds(m), ~Vanished(m)
    PROVE  /\ _merge_contact_methods(m) \in ContactTables
           /\ \A j \in ContactIds : _merge_contact_methods(m)[j] # NoRow =>
                  /\ contacts[j] # NoRow
                  /\ _merge_contact_methods(m)[j].party \in {contacts[j].party, m.target}
<1> DEFINE table == _merge_contact_methods(m)
<1>0. /\ DOMAIN m.contacts \subseteq ContactIds /\ m.target \in PartyIds
      /\ \A i \in DOMAIN m.contacts : m.contacts[i] \in ContactRow
  BY DEF RequestOK
<1>1. table = [j \in ContactIds |-> table[j]]
  BY DEF _merge_contact_methods
<1>2. ASSUME NEW j \in ContactIds
      PROVE  \/ table[j] = NoRow
             \/ /\ contacts[j] # NoRow /\ table[j] \in ContactRow
                /\ table[j].party \in {contacts[j].party, m.target}
  <2>1. CASE j \in DOMAIN m.contacts
    <3>1. CASE Twin(m, j) = {}
      <4>1. contacts[j] # NoRow /\ contacts[j] \in ContactRow
        BY <2>1, <3>1, PartyRows DEF Vanished
      <4>2. table[j] = [contacts[j] EXCEPT !.party = m.target,
                            !.primary = /\ m.contacts[j].primary
                                        /\ ActivePrimary(contacts, m.target) = {}]
        BY <2>1, <3>1 DEF _merge_contact_methods
      <4>3. m.contacts[j].primary \in BOOLEAN
        BY <1>0, <2>1 DEF ContactRow
      <4> HIDE DEF table
      <4> QED
        BY <1>0, <4>1, <4>2, <4>3 DEF ContactRow
    <3>2. CASE Twin(m, j) # {}
      BY <2>1, <3>2 DEF _merge_contact_methods
    <3> QED
      BY <3>1, <3>2
  <2>2. CASE j \notin DOMAIN m.contacts
    <3> DEFINE into == {i \in DOMAIN m.contacts : j \in Twin(m, i)}
    <3>1. CASE into = {}
      <4>1. table[j] = contacts[j]
        BY <2>2, <3>1 DEF _merge_contact_methods
      <4> HIDE DEF table
      <4> QED
        BY <4>1, PartyRows
    <3>2. CASE into # {}
      <4> DEFINE i == CHOOSE k \in into : TRUE
                 primary == \/ contacts[j].primary
                            \/ /\ m.contacts[i].primary
                               /\ ActivePrimary(contacts, m.target) \subseteq {j}
      <4>1. i \in into
        BY <3>2
      <4>2. contacts[j] # NoRow /\ contacts[j] \in ContactRow /\ contacts[j].party = m.target
        BY <4>1, PartyRows DEF Twin, Of
      <4>3. table[j] = [contacts[j] EXCEPT !.verified = @ \/ m.contacts[i].verified,
                                           !.active = @ \/ m.contacts[i].active \/ primary,
                                           !.primary = primary]
        BY <2>2, <3>2 DEF _merge_contact_methods
      <4>4. /\ m.contacts[i].verified \in BOOLEAN /\ m.contacts[i].active \in BOOLEAN
            /\ primary \in BOOLEAN
        BY <1>0, <4>1, <4>2 DEF ContactRow
      <4> HIDE DEF table, i, into, primary
      <4> QED
        BY <4>2, <4>3, <4>4 DEF ContactRow
    <3> QED
      BY <3>1, <3>2
  <2> QED
    BY <2>1, <2>2
<1> HIDE DEF table
<1>3. table \in ContactTables
  BY <1>1, <1>2 DEF ContactTables
<1>4. \A j \in ContactIds : table[j] # NoRow =>
          contacts[j] # NoRow /\ table[j].party \in {contacts[j].party, m.target}
  BY <1>2
<1> QED
  BY <1>3, <1>4 DEF table

\* Every place of the source is at the target, every other where it was.
LEMMA MergedPlaces ==
    ASSUME TypeOK, NEW m, m.op = "MERGING", RequestOK(m), MergeHolds(m)
    PROVE  /\ _merge_addresses_and_sources(m) \in PlaceTables
           /\ \A i \in PlaceIds : places[i] # NoRow /\ places[i].party # m.source =>
                  _merge_addresses_and_sources(m)[i] = places[i]
<1> DEFINE table == _merge_addresses_and_sources(m)
           taken(i) == \E j \in ActivePrimary(places, m.target) :
                           places[j].table = places[i].table
<1>0. DOMAIN m.places \subseteq PlaceIds /\ m.target \in PartyIds
  BY DEF RequestOK
<1>1. table = [i \in PlaceIds |->
                  IF i \notin DOMAIN m.places THEN places[i]
                  ELSE [places[i] EXCEPT !.party = m.target, !.primary = @ /\ ~taken(i)]]
  BY DEF _merge_addresses_and_sources
<1>2. ASSUME NEW i \in DOMAIN m.places
      PROVE  [places[i] EXCEPT !.party = m.target, !.primary = @ /\ ~taken(i)] \in PlaceRow
  <2>1. places[i] \in PlaceRow
    BY <1>0, PartyRows DEF MergeHolds
  <2> HIDE DEF taken
  <2> QED
    BY <1>0, <2>1 DEF PlaceRow
<1>3. \A i \in DOMAIN m.places : places[i].party = m.source
  BY DEF MergeHolds
<1> HIDE DEF table, taken
<1>4. table \in PlaceTables
  BY <1>1, <1>2, PartyRows DEF PlaceTables
<1>5. \A i \in PlaceIds : places[i] # NoRow /\ places[i].party # m.source =>
          table[i] = places[i]
  BY <1>1, <1>3
<1> QED
  BY <1>4, <1>5 DEF table

\* No affiliation comes to another party than the target.
LEMMA MergedAffiliations ==
    ASSUME TypeOK, NEW m, m.op = "MERGING", RequestOK(m), MergeHolds(m), ~Vanished(m)
    PROVE  /\ _merge_affiliations(m) \in AffiliationTables
           /\ \A j \in AffiliationIds, p \in PartyIds \ {m.target} :
                  /\ _merge_affiliations(m)[j] # NoRow
                  /\ p \in {_merge_affiliations(m)[j].person,
                            _merge_affiliations(m)[j].organisation}
                  => /\ affiliations[j] # NoRow
                     /\ p \in {affiliations[j].person, affiliations[j].organisation}
<1> DEFINE table == _merge_affiliations(m)
<1>0. /\ DOMAIN m.affiliations \subseteq AffiliationIds
      /\ m.source \in PartyIds /\ m.target \in PartyIds
      /\ m.source \in Organisations <=> m.target \in Organisations
      /\ \A i \in DOMAIN m.affiliations : m.affiliations[i] \in AffiliationRow
  BY DEF RequestOK, MergeHolds
<1>1. table = [j \in AffiliationIds |-> table[j]]
  BY DEF _merge_affiliations
<1>2. ASSUME NEW j \in AffiliationIds
      PROVE  \/ table[j] = NoRow
             \/ /\ affiliations[j] # NoRow /\ table[j] \in AffiliationRow
                /\ table[j].person \in {affiliations[j].person, m.target}
                /\ table[j].organisation \in {affiliations[j].organisation, m.target}
  <2>1. CASE j \in DOMAIN m.affiliations
    <3>1. CASE Existing(m, j) = {}
      <4>1. affiliations[j] # NoRow /\ affiliations[j] \in AffiliationRow
        BY <2>1, <3>1, PartyRows DEF Vanished
      <4>2. table[j] = IF m.source \in People
                       THEN [affiliations[j] EXCEPT !.person = m.target]
                       ELSE [affiliations[j] EXCEPT !.organisation = m.target]
        BY <2>1, <3>1 DEF _merge_affiliations
      <4> HIDE DEF table
      <4>3. CASE m.source \in People
        BY <1>0, <4>1, <4>2, <4>3 DEF AffiliationRow, People
      <4>4. CASE m.source \notin People
        BY <1>0, <4>1, <4>2, <4>4 DEF AffiliationRow, People
      <4> QED
        BY <4>3, <4>4
    <3>2. CASE Existing(m, j) # {}
      BY <2>1, <3>2 DEF _merge_affiliations
    <3> QED
      BY <3>1, <3>2
  <2>2. CASE j \notin DOMAIN m.affiliations
    <3> DEFINE into == {i \in DOMAIN m.affiliations : j \in Existing(m, i)}
    <3>1. CASE into = {}
      <4>1. table[j] = affiliations[j]
        BY <2>2, <3>1 DEF _merge_affiliations
      <4> HIDE DEF table
      <4> QED
        BY <4>1, PartyRows
    <3>2. CASE into # {}
      <4> DEFINE flag == \E i \in into : m.affiliations[i].primary_contact
      <4>1. affiliations[j] # NoRow /\ affiliations[j] \in AffiliationRow
        BY <3>2, PartyRows DEF Existing, AffiliationsOf
      <4>2. table[j] = [affiliations[j] EXCEPT !.primary_contact = @ \/ flag]
        BY <2>2, <3>2 DEF _merge_affiliations
      <4> HIDE DEF table, flag, into
      <4> QED
        BY <4>1, <4>2 DEF AffiliationRow
    <3> QED
      BY <3>1, <3>2
  <2> QED
    BY <2>1, <2>2
<1> HIDE DEF table
<1>3. table \in AffiliationTables
  BY <1>1, <1>2 DEF AffiliationTables
<1>4. \A j \in AffiliationIds, p \in PartyIds \ {m.target} :
          table[j] # NoRow /\ p \in {table[j].person, table[j].organisation}
          => /\ affiliations[j] # NoRow
             /\ p \in {affiliations[j].person, affiliations[j].organisation}
  BY <1>2
<1> QED
  BY <1>3, <1>4 DEF table

\* The roles are again well formed.
LEMMA MergedRoles ==
    ASSUME TypeOK, NEW m, m.op = "MERGING", RequestOK(m)
    PROVE  _merge_role_records(m) \in RoleTables
<1>1. roles \in RoleTables
  BY DEF TypeOK
<1> QED
  BY <1>1 DEF RoleTables, RoleStates, _merge_role_records

\* A merge that is committed: its source becomes a tombstone that leads to its target.
LEMMA CommitKeeps ==
    ASSUME PartiesInvariant, NEW c \in Clerks, request[c].op = "MERGING",
           RowsFit(request[c]), ~\E r \in merges : r.source = request[c].source,
           roles' = _merge_role_records(request[c]),
           contacts' = _merge_contact_methods(request[c]),
           places' = _merge_addresses_and_sources(request[c]),
           affiliations' = _merge_affiliations(request[c]),
           parties' = [parties EXCEPT ![request[c].source] =
               [status |-> "MERGED", archived |-> TRUE, into |-> request[c].target]],
           PartyStatusHistory(request[c].source),
           merges' = merges \cup {[source |-> request[c].source,
                                   target |-> request[c].target]},
           Done(c), UNCHANGED <<business, served, revived>>
    PROVE  PartiesInvariant'
<1> USE DEF PartiesInvariant
<1> DEFINE m == request[c]
           s == m.source
           t == m.target
           row == [status |-> "MERGED", archived |-> TRUE, into |-> t]
           record == [source |-> s, target |-> t]
<1>0. /\ DOMAIN parties = PartyIds /\ DOMAIN request = Clerks
      /\ DOMAIN contacts = ContactIds /\ DOMAIN places = PlaceIds
  BY PartyRows
<1>1. RequestOK(m) /\ MergeHolds(m) /\ ~Vanished(m)
  BY DEF TypeOK, MergesHold, RowsFit
<1>2. /\ s \in Present /\ t \in Present /\ s # t /\ ~IsMerged(s) /\ ~IsMerged(t)
      /\ s \in PartyIds /\ t \in PartyIds
  BY <1>1 DEF MergeHolds, Present
<1>3. /\ contacts' \in ContactTables /\ places' \in PlaceTables
      /\ affiliations' \in AffiliationTables /\ roles' \in RoleTables
  BY <1>1, MergedContacts, MergedPlaces, MergedAffiliations, MergedRoles
<1>4. /\ \A j \in ContactIds : contacts'[j] # NoRow =>
             contacts[j] # NoRow /\ contacts'[j].party \in {contacts[j].party, t}
      /\ \A i \in PlaceIds : places[i] # NoRow /\ places[i].party # s =>
             places'[i] = places[i]
      /\ \A j \in AffiliationIds, p \in PartyIds \ {t} :
             affiliations'[j] # NoRow /\ p \in {affiliations'[j].person,
                                                affiliations'[j].organisation}
             => /\ affiliations[j] # NoRow
                /\ p \in {affiliations[j].person, affiliations[j].organisation}
  BY <1>1, MergedContacts, MergedPlaces, MergedAffiliations
<1>5. ContactsFit(contacts)' /\ PlacesFit(places)' /\ AffiliationsFit(affiliations)'
  <2>1. /\ ContactsFit(_merge_contact_methods(m))
        /\ PlacesFit(_merge_addresses_and_sources(m))
        /\ AffiliationsFit(_merge_affiliations(m))
    BY DEF RowsFit
  <2> QED
    BY <2>1 DEF ContactsFit, PlacesFit, AffiliationsFit, Pairwise
<1>6. row \in PartyRow /\ record \in MergeRecord /\ row.status = "MERGED" /\ row.into = t
      /\ record.source = s /\ record.target = t
  BY <1>2 DEF PartyRow, MergeRecord
<1>7. /\ parties' = [parties EXCEPT ![s] = row] /\ merges' = merges \cup {record}
      /\ request' = [request EXCEPT ![c] = Idle] /\ changed' = changed \cup {s}
      /\ \A r \in merges : r.source # s
      /\ business' = business /\ served' = served /\ revived' = revived
  BY DEF Done, PartyStatusHistory
<1>8. /\ \A d \in Clerks \ {c} : request[d].op = "MERGING" =>
             {s, t} \cap {request[d].source, request[d].target} = {}
      /\ \A d \in Clerks \ {c} : request[d].op = "MERGING" =>
             request[d].source \in PartyIds /\ request[d].target \in PartyIds
  BY DEF MergesHold, TypeOK, RequestOK
<1> HIDE DEF m, s, t, row, record
<1>9. request'[c] = Idle /\ Idle.op = "NONE"
      /\ \A d \in Clerks \ {c} : request'[d] = request[d]
  BY <1>0, <1>7 DEF Idle
<1>10. Present' = Present /\ parties'[s] = row
       /\ \A q \in PartyIds \ {s} : parties'[q] = parties[q]
  <2>1. row # NoRow
    BY <1>6, PartiesConstants
  <2>2. parties'[s] = row /\ \A q \in PartyIds \ {s} : parties'[q] = parties[q]
    BY <1>0, <1>2, <1>7
  <2>3. Present' = Present
    BY <1>2, <2>1, <2>2 DEF Present
  <2> QED
    BY <2>2, <2>3
<1>11. TypeOK'
  <2>1. parties' \in PartyTables
    BY <1>6, <1>7 DEF TypeOK, PartyTables
  <2>2. merges' \subseteq MergeRecord /\ changed' \subseteq PartyIds
    BY <1>2, <1>6, <1>7 DEF TypeOK
  <2>3. DOMAIN request' = Clerks /\ \A d \in Clerks : RequestOK(request'[d])
    BY <1>0, <1>7, <1>9 DEF TypeOK, RequestOK
  <2> QED
    BY <1>3, <1>7, <2>1, <2>2, <2>3 DEF TypeOK
<1>12. RowsStand'
  <2>1. \A j \in ContactIds : contacts'[j] # NoRow => contacts'[j].party \in Present'
    BY <1>2, <1>4, <1>10 DEF RowsStand
  <2> QED
    BY <1>5, <2>1 DEF RowsStand
<1>13. MergesHold'
  <2> SUFFICES ASSUME NEW d \in Clerks, request'[d].op = "MERGING"
               PROVE  /\ request'[d] = request[d]
                      /\ \A p \in {request[d].source, request[d].target} :
                            p \in Present /\ ~IsMerged(p) => p \in Present' /\ ~IsMerged(p)'
                      /\ \A i \in ContactIds :
                            contacts'[i] # NoRow /\ contacts'[i].party = request[d].target =>
                                contacts[i] # NoRow /\ contacts[i].party = request[d].target
                      /\ \A i \in AffiliationIds :
                            /\ affiliations'[i] # NoRow
                            /\ request[d].target \in {affiliations'[i].person,
                                                      affiliations'[i].organisation}
                            => /\ affiliations[i] # NoRow
                               /\ request[d].target \in {affiliations[i].person,
                                                         affiliations[i].organisation}
                      /\ \A i \in PlaceIds :
                            places[i] # NoRow /\ places[i].party = request[d].source =>
                                places'[i] = places[i]
    BY MergesKept
  <2>1. d # c /\ request'[d] = request[d]
    BY <1>9
  <2>2. /\ request[d].source \notin {s, t} /\ request[d].target \notin {s, t}
        /\ request[d].source \in PartyIds /\ request[d].target \in PartyIds
    BY <1>8, <2>1
  <2>3. \A p \in {request[d].source, request[d].target} :
            p \in Present /\ ~IsMerged(p) => p \in Present' /\ ~IsMerged(p)'
    BY <1>10, <2>2 DEF IsMerged
  <2>4. /\ \A i \in ContactIds :
               contacts'[i] # NoRow /\ contacts'[i].party = request[d].target =>
                   contacts[i] # NoRow /\ contacts[i].party = request[d].target
        /\ \A i \in PlaceIds :
               places[i] # NoRow /\ places[i].party = request[d].source =>
                   places'[i] = places[i]
    BY <1>4, <2>2
  <2>5. \A i \in AffiliationIds :
            /\ affiliations'[i] # NoRow
            /\ request[d].target \in {affiliations'[i].person, affiliations'[i].organisation}
            => /\ affiliations[i] # NoRow
               /\ request[d].target \in {affiliations[i].person, affiliations[i].organisation}
    BY <1>4, <2>2
  <2> QED
    BY <2>1, <2>3, <2>4, <2>5
<1>14. Tombstones'
  <2>1. \A n \in merges' : n.source \in Present' /\ n.target \in Present'
    BY <1>2, <1>6, <1>7, <1>10 DEF Tombstones
  <2>2. \A n, o \in merges' : n.source = o.source => n = o
    BY <1>6, <1>7 DEF Tombstones
  <2>3. \A q \in Present' : parties'[q].status = "MERGED" =>
            [source |-> q, target |-> parties'[q].into] \in merges'
    BY <1>6, <1>7, <1>10 DEF Tombstones, Recorded, IsMerged, Present, record
  <2>4. \A d \in Clerks :
           request'[d].op = "PARTY" /\ request'[d].row.status = "MERGED"
               => [source |-> request'[d].party,
               target |-> request'[d].row.into] \in merges'
    BY <1>7, <1>9 DEF Tombstones, Recorded
  <2>5. ~revived' => \A n \in merges' : parties'[n.source].status = "MERGED"
    BY <1>6, <1>7, <1>10 DEF Tombstones, IsMerged, Present
  <2> QED
    BY <2>1, <2>2, <2>3, <2>4, <2>5 DEF Tombstones, Recorded, IsMerged
<1>15. SurvivorStands'
  <2> SUFFICES ASSUME ~revived
               PROVE  /\ \A q \in Present : parties'[q].status = "MERGED" =>
                             parties'[q].into \in Present
                      /\ \A S \in SUBSET Present : S # {} =>
                            ~\A q \in S : /\ parties'[q].status = "MERGED"
                                          /\ parties'[q].into \in S
    BY <1>7, <1>10 DEF SurvivorStands, IsMerged
  <2>1. \A q \in Present : parties'[q].status = "MERGED" => parties'[q].into \in Present
    BY <1>2, <1>6, <1>10 DEF SurvivorStands, IsMerged, Present
  <2>2. ASSUME NEW S \in SUBSET Present, S # {},
               \A q \in S : parties'[q].status = "MERGED" /\ parties'[q].into \in S
        PROVE  FALSE
    <3>1. s \notin S
      <4>1. t \notin S
        BY <1>2, <1>10, <2>2 DEF IsMerged
      <4> QED
        BY <1>6, <1>10, <2>2, <4>1
    <3>2. \A q \in S : IsMerged(q) /\ parties[q].into \in S
      BY <1>10, <2>2, <3>1 DEF IsMerged, Present
    <3> QED
      BY <2>2, <3>2 DEF SurvivorStands
  <2> QED
    BY <2>1, <2>2
<1> QED
  BY <1>11, <1>12, <1>13, <1>14, <1>15

\* A merge is committed or refused.
LEMMA MergeKeeps ==
    ASSUME PartiesInvariant, NEW c \in Clerks, merge_parties(c)
    PROVE  PartiesInvariant'
<1>1. CASE Refused(c)
  BY <1>1, RefusedKeeps
<1>2. CASE ~Refused(c)
  BY <1>2, CommitKeeps DEF merge_parties
<1> QED
  BY <1>1, <1>2

\* PATCH with or without the roles.
LEMMA PatchKeeps ==
    ASSUME PartiesInvariant, NEW c \in Clerks
    PROVE  /\ PatchParty(c) => PartiesInvariant'
           /\ \A wanted \in SUBSET Roles :
                 PatchRoles(c, wanted) \/ PatchRefused(c, wanted) => PartiesInvariant'
<1>0. roles \in RoleTables
  BY DEF PartiesInvariant, TypeOK
<1>1. ASSUME PatchParty(c) PROVE PartiesInvariant'
  BY <1>0, <1>1, UpdatePartyKeeps DEF PatchParty
<1>2. ASSUME NEW wanted \in SUBSET Roles, PatchRoles(c, wanted) PROVE PartiesInvariant'
  <2>1. roles' \in RoleTables
    BY <1>0, <1>2 DEF PatchRoles, RoleTables, RoleStates
  <2> QED
    BY <1>2, <2>1, UpdatePartyKeeps DEF PatchRoles
<1>3. ASSUME NEW wanted \in SUBSET Roles, PatchRefused(c, wanted) PROVE PartiesInvariant'
  BY <1>3, RefusedKeeps DEF PatchRefused
<1> QED
  BY <1>1, <1>2, <1>3

\* The tables a behaviour starts from satisfy the invariant.
LEMMA PartiesStart == Init => PartiesInvariant
<1> SUFFICES ASSUME Init PROVE PartiesInvariant
  OBVIOUS
<1>1. PICK d \in Given : /\ parties = d.parties /\ roles = d.roles /\ contacts = d.contacts
                         /\ places = d.places /\ affiliations = d.affiliations
  BY DEF Init
<1>2. /\ merges = {} /\ changed = {} /\ business = {} /\ served = 0 /\ revived = FALSE
      /\ request = [c \in Clerks |-> Idle]
      /\ ContactsFit(contacts) /\ PlacesFit(places) /\ AffiliationsFit(affiliations)
  BY DEF Init
<1>3. \A c \in Clerks : request[c].op = "NONE"
  BY <1>2 DEF Idle
<1>4. \A p \in Present : ~IsMerged(p)
  BY <1>1, PartiesConstants DEF Present, IsMerged
<1>5. TypeOK
  <2>1. /\ parties \in PartyTables /\ roles \in RoleTables /\ contacts \in ContactTables
        /\ places \in PlaceTables /\ affiliations \in AffiliationTables
    BY <1>1, PartiesConstants
  <2>2. served \in 0 .. MaxRequests
    BY <1>2, PartiesConstants
  <2>3. DOMAIN request = Clerks /\ \A c \in Clerks : RequestOK(request[c])
    BY <1>2, <1>3 DEF RequestOK
  <2> QED
    BY <1>2, <2>1, <2>2, <2>3 DEF TypeOK
<1>6. RowsStand
  <2>1. \A i \in ContactIds : contacts[i] # NoRow => contacts[i].party \in PartyIds
    BY <1>5, PartyRows DEF ContactRow
  <2> QED
    BY <1>1, <1>2, <2>1, PartiesConstants DEF RowsStand, Present
<1>7. MergesHold
  BY <1>3 DEF MergesHold
<1>8. Tombstones
  BY <1>2, <1>3, <1>4 DEF Tombstones
<1>9. SurvivorStands
  BY <1>4 DEF SurvivorStands
<1> QED
  BY <1>5, <1>6, <1>7, <1>8, <1>9 DEF PartiesInvariant

\* The invariant does not depend on anything else.
LEMMA PartiesStutter ==
    ASSUME PartiesInvariant, UNCHANGED vars
    PROVE  PartiesInvariant'
<1>1. PartiesInvariant => PartiesInvariant
  OBVIOUS
<1> QED
  BY DEF vars, children, PartiesInvariant, TypeOK, RowsStand, MergesHold, Tombstones,
         SurvivorStands, ContactsFit, PlacesFit, AffiliationsFit, Pairwise, MergeHolds,
         Near, Recorded, IsMerged, Present, RequestOK

\* Every step keeps the invariant.
LEMMA PartiesStep ==
    ASSUME PartiesInvariant, [Next]_vars
    PROVE  PartiesInvariant'
<1>1. ASSUME NEW p \in PartyIds, delete_unused_party(p) PROVE PartiesInvariant'
  BY <1>1, DeleteKeeps
<1>2. CASE PartyStep
  BY <1>1, <1>2, PartyStepKeeps DEF PartyStep
<1>3. CASE RowStep
  BY <1>3, RowStepKeeps DEF RowStep
<1>4. ASSUME NEW c \in Clerks, PatchStep(c) PROVE PartiesInvariant'
  BY <1>4, ReadsKeep, PatchKeeps DEF PatchStep
<1>5. ASSUME NEW c \in Clerks, CreateStep(c) PROVE PartiesInvariant'
  BY <1>5, ReadsKeep, CreatePartyKeeps DEF CreateStep
<1>6. ASSUME NEW c \in Clerks, ContactStep(c) PROVE PartiesInvariant'
  BY <1>6, ReadsKeep, SaveContactKeeps DEF ContactStep
<1>7. ASSUME NEW c \in Clerks, AffiliationStep(c) PROVE PartiesInvariant'
  BY <1>7, ReadsKeep, SaveAffiliationKeeps DEF AffiliationStep
<1>8. ASSUME NEW c \in Clerks, BusinessStep(c) PROVE PartiesInvariant'
  BY <1>8, ReadsKeep, BusinessKeeps DEF BusinessStep
<1>9. ASSUME NEW c \in Clerks, MergeStep(c) PROVE PartiesInvariant'
  BY <1>9, ReadsKeep, LockKeeps, MergeKeeps DEF MergeStep
<1>10. CASE UNCHANGED vars
  BY <1>10, PartiesStutter
<1> QED
  BY <1>2, <1>3, <1>4, <1>5, <1>6, <1>7, <1>8, <1>9, <1>10 DEF Next

\* Constraints, merges in progress, merge records and tombstones agree in every
\* reachable state (services.py and the views of crm).
THEOREM PartiesInvariance == Spec => []PartiesInvariant
<1>1. PartiesInvariant /\ [Next]_vars => PartiesInvariant'
  BY PartiesStep
<1> QED
  BY <1>1, PartiesStart, PTL DEF Spec

\* Tombstones lead to parties that are not merged (merge_parties, services.py).
THEOREM SurvivorsStand == Spec => []SurvivorStands
<1>1. PartiesInvariant => SurvivorStands
  BY DEF PartiesInvariant
<1> QED
  BY <1>1, PartiesInvariance, PTL

\* What a merge of two parties that nobody else is changing reads.
LEMMA FreshReading ==
    ASSUME NEW s, NEW t
    PROVE  /\ Merging(s, t).source = s /\ Merging(s, t).target = t
           /\ DOMAIN Merging(s, t).contacts = Of(contacts, s)
           /\ DOMAIN Merging(s, t).places = Of(places, s)
           /\ DOMAIN Merging(s, t).affiliations = AffiliationsOf(s)
           /\ \A i \in Of(contacts, s) : Merging(s, t).contacts[i] = contacts[i]
           /\ \A i \in AffiliationsOf(s) : Merging(s, t).affiliations[i] = affiliations[i]
BY DEF Merging, ReadRows

\* The contacts after such a merge: a moved one, one of the target, or another's.
LEMMA FreshContacts ==
    ASSUME TypeOK, NEW s \in PartyIds, NEW t \in PartyIds, s # t,
           NEW m, m = Merging(s, t), NEW j \in ContactIds,
           _merge_contact_methods(m)[j] # NoRow
    PROVE  /\ contacts[j] # NoRow /\ _merge_contact_methods(m)[j].value = contacts[j].value
           /\ \/ /\ j \in Of(contacts, s) /\ Twin(m, j) = {}
                 /\ _merge_contact_methods(m)[j].party = t
                 /\ _merge_contact_methods(m)[j].primary =>
                        contacts[j].primary /\ ActivePrimary(contacts, t) = {}
              \/ /\ j \in Of(contacts, t)
                 /\ _merge_contact_methods(m)[j].party = t
                 /\ _merge_contact_methods(m)[j].primary =>
                        \/ contacts[j].primary
                        \/ /\ ActivePrimary(contacts, t) \subseteq {j}
                           /\ \E q \in Of(contacts, s) : contacts[q].primary /\ j \in Twin(m, q)
              \/ /\ j \notin Of(contacts, s) \cup Of(contacts, t)
                 /\ _merge_contact_methods(m)[j] = contacts[j]
<1> DEFINE row == _merge_contact_methods(m)[j]
<1>1. /\ m.target = t /\ DOMAIN m.contacts = Of(contacts, s)
      /\ \A i \in Of(contacts, s) : m.contacts[i] = contacts[i]
  BY FreshReading
<1>2. CASE j \in Of(contacts, s)
  <2>1. Twin(m, j) = {}
    BY <1>1, <1>2 DEF _merge_contact_methods
  <2>2. row = [contacts[j] EXCEPT !.party = t,
                   !.primary = contacts[j].primary /\ ActivePrimary(contacts, t) = {}]
    BY <1>1, <1>2, <2>1 DEF _merge_contact_methods
  <2>3. contacts[j] # NoRow /\ contacts[j] \in ContactRow
    BY <1>2, PartyRows DEF Of
  <2> HIDE DEF row
  <2>4. /\ row.party = t /\ row.value = contacts[j].value
        /\ row.primary => contacts[j].primary /\ ActivePrimary(contacts, t) = {}
    BY <2>2, <2>3 DEF ContactRow
  <2> QED
    BY <1>2, <2>1, <2>3, <2>4 DEF row
<1>3. CASE j \notin Of(contacts, s)
  <2> DEFINE into == {i \in DOMAIN m.contacts : j \in Twin(m, i)}
  <2>1. CASE into = {}
    <3>1. row = contacts[j]
      BY <1>1, <1>3, <2>1 DEF _merge_contact_methods
    <3>2. contacts[j] # NoRow
      BY <3>1
    <3>3. j \in Of(contacts, t) => contacts[j].party = t
      BY DEF Of
    <3> HIDE DEF row
    <3> QED
      BY <1>3, <3>1, <3>2, <3>3 DEF row
  <2>2. CASE into # {}
    <3> DEFINE i == CHOOSE k \in into : TRUE
               primary == \/ contacts[j].primary
                          \/ /\ m.contacts[i].primary
                             /\ ActivePrimary(contacts, m.target) \subseteq {j}
    <3>1. i \in into
      BY <2>2
    <3>2. /\ i \in Of(contacts, s) /\ j \in Twin(m, i) /\ m.contacts[i] = contacts[i]
          /\ j \in Of(contacts, t) /\ contacts[j] # NoRow /\ contacts[j].party = t
      BY <1>1, <3>1 DEF Twin, Of
    <3>3. row = [contacts[j] EXCEPT !.verified = @ \/ m.contacts[i].verified,
                                    !.active = @ \/ m.contacts[i].active \/ primary,
                                    !.primary = primary]
      BY <1>1, <1>3, <2>2 DEF _merge_contact_methods
    <3>4. contacts[j] \in ContactRow
      BY <3>2, PartyRows
    <3>5. primary => \/ contacts[j].primary
                     \/ /\ ActivePrimary(contacts, t) \subseteq {j}
                        /\ \E q \in Of(contacts, s) : contacts[q].primary /\ j \in Twin(m, q)
      BY <1>1, <3>2
    <3> HIDE DEF row, i, into, primary
    <3>6. row.party = t /\ row.value = contacts[j].value /\ row.primary = primary
      BY <3>2, <3>3, <3>4 DEF ContactRow
    <3> QED
      BY <3>2, <3>5, <3>6 DEF row
  <2> QED
    BY <2>1, <2>2
<1> QED
  BY <1>2, <1>3

\* Two contacts of the target differ in their value, and at most one is primary: the
\* primary one of the target or, if it has none, the one that comes from the source.
LEMMA ContactsMergeFits ==
    ASSUME TypeOK, RowsStand, NEW s \in PartyIds, NEW t \in PartyIds, s # t,
           PrimaryIsActive(s), PrimaryIsActive(t)
    PROVE  ContactsFit(_merge_contact_methods(Merging(s, t)))
<1> DEFINE m == Merging(s, t)
           table == _merge_contact_methods(m)
           S == Of(contacts, s)
           T == Of(contacts, t)
<1>1. m.target = t /\ DOMAIN m.contacts = S /\ \A i \in S : m.contacts[i] = contacts[i]
  BY FreshReading
<1>2. DOMAIN table = ContactIds
  BY DEF _merge_contact_methods
<1>3. /\ S \subseteq ContactIds /\ T \subseteq ContactIds
      /\ \A i \in S : contacts[i] # NoRow /\ contacts[i].party = s
      /\ \A i \in T : contacts[i] # NoRow /\ contacts[i].party = t
  BY PartyRows DEF Of
<1>4. \A i \in S, j \in ContactIds :
          j \in Twin(m, i) <=> j \in T /\ contacts[j].value = contacts[i].value
  BY <1>1 DEF Twin
<1>5. \A i, j \in ContactIds :
          /\ contacts[i] # NoRow /\ contacts[j] # NoRow /\ i # j
          /\ contacts[i].party = contacts[j].party
          => /\ contacts[i].value # contacts[j].value
             /\ OnePrimary(contacts[i], contacts[j])
  BY PartyRows DEF RowsStand, ContactsFit, Pairwise
<1>6. /\ \A i, j \in S : contacts[i].primary /\ contacts[j].primary => i = j
      /\ \A i, j \in T : contacts[i].primary /\ contacts[j].primary => i = j
      /\ \A j \in T : contacts[j].primary => j \in ActivePrimary(contacts, t)
  <2>1. \A i \in S \cup T : contacts[i].primary => contacts[i].active
    BY <1>3 DEF PrimaryIsActive
  <2>2. \A i, j \in ContactIds : OnePrimary(contacts[i], contacts[j]) =>
            ~(/\ contacts[i].primary /\ contacts[i].active
              /\ contacts[j].primary /\ contacts[j].active)
    BY DEF OnePrimary
  <2>3. \A j \in T : contacts[j].primary => j \in ActivePrimary(contacts, t)
    BY <2>1 DEF ActivePrimary
  <2>4. \A i, j \in S : contacts[i].primary /\ contacts[j].primary => i = j
    BY <1>3, <1>5, <2>1, <2>2
  <2>5. \A i, j \in T : contacts[i].primary /\ contacts[j].primary => i = j
    BY <1>3, <1>5, <2>1, <2>2
  <2> QED
    BY <2>3, <2>4, <2>5
<1>7. \A j \in ContactIds : table[j] # NoRow =>
          /\ contacts[j] # NoRow /\ table[j].value = contacts[j].value
          /\ \/ /\ j \in S /\ Twin(m, j) = {} /\ table[j].party = t
                /\ table[j].primary =>
                       contacts[j].primary /\ ActivePrimary(contacts, t) = {}
             \/ /\ j \in T /\ table[j].party = t
                /\ table[j].primary =>
                       \/ contacts[j].primary
                       \/ /\ ActivePrimary(contacts, t) \subseteq {j}
                          /\ \E q \in S : contacts[q].primary /\ j \in Twin(m, q)
             \/ j \notin S \cup T /\ table[j] = contacts[j]
  <2> HIDE DEF m
  <2>1. m = Merging(s, t)
    BY DEF m
  <2> QED
    BY <2>1, FreshContacts
<1>8. \A j \in ContactIds : contacts[j] # NoRow =>
          (j \in S <=> contacts[j].party = s) /\ (j \in T <=> contacts[j].party = t)
  BY PartyRows DEF Of
<1> HIDE DEF m, table, S, T
<1>9. ASSUME NEW i \in ContactIds, NEW j \in ContactIds, i # j, table[i] # NoRow,
             table[j] # NoRow, table[i].party = table[j].party
      PROVE  table[i].value # table[j].value /\ OnePrimary(table[i], table[j])
  <2>1. CASE i \in S \cup T /\ j \in S \cup T
    <3>1. table[i].value # table[j].value
      <4>1. contacts[i].party = contacts[j].party => contacts[i].value # contacts[j].value
        BY <1>5, <1>7, <1>9
      <4>2. CASE i \in S /\ j \in S
        BY <1>3, <1>7, <1>9, <4>1, <4>2
      <4>3. CASE i \in T /\ j \in T
        BY <1>3, <1>7, <1>9, <4>1, <4>3
      <4>4. CASE i \in S /\ j \in T
        BY <1>3, <1>4, <1>7, <1>9, <4>4
      <4>5. CASE i \in T /\ j \in S
        BY <1>3, <1>4, <1>7, <1>9, <4>5
      <4> QED
        BY <2>1, <4>2, <4>3, <4>4, <4>5
    <3>2. ~(table[i].primary /\ table[j].primary)
      <4> SUFFICES ASSUME table[i].primary, table[j].primary PROVE FALSE
        OBVIOUS
      <4>0. S \cap T = {}
        BY <1>3
      <4>1. CASE i \in S /\ j \in S
        BY <1>6, <1>7, <1>9, <4>0, <4>1
      <4>2. CASE i \in S /\ j \in T
        BY <1>4, <1>6, <1>7, <1>9, <4>0, <4>2
      <4>3. CASE i \in T /\ j \in S
        BY <1>4, <1>6, <1>7, <1>9, <4>0, <4>3
      <4>4. CASE i \in T /\ j \in T
        <5>1. CASE contacts[i].primary \/ contacts[j].primary
          BY <1>6, <1>7, <1>9, <4>0, <4>4, <5>1
        <5>2. CASE ~contacts[i].primary /\ ~contacts[j].primary
          <6>1. PICK p, q \in S : /\ contacts[p].primary /\ contacts[q].primary
                                  /\ i \in Twin(m, p) /\ j \in Twin(m, q)
            BY <1>7, <1>9, <4>0, <4>4, <5>2
          <6>2. p = q /\ contacts[i].value = contacts[j].value
            BY <1>4, <1>6, <6>1
          <6> QED
            BY <1>3, <1>5, <1>9, <4>4, <6>2
        <5> QED
          BY <5>1, <5>2
      <4> QED
        BY <2>1, <4>1, <4>2, <4>3, <4>4
    <3> QED
      BY <3>1, <3>2 DEF OnePrimary
  <2>2. CASE i \notin S \cup T \/ j \notin S \cup T
    <3>1. table[i] = contacts[i] /\ table[j] = contacts[j]
      BY <1>7, <1>8, <1>9, <2>2
    <3> QED
      BY <1>5, <1>9, <3>1
  <2> QED
    BY <2>1, <2>2
<1>10. ContactsFit(table)
  BY <1>2, <1>9 DEF ContactsFit, Pairwise
<1> QED
  BY <1>10 DEF table, m

\* A place that comes to the target gives way to its primary one.
LEMMA PlacesMergeFits ==
    ASSUME TypeOK, RowsStand, NEW s \in PartyIds, NEW t \in PartyIds, s # t
    PROVE  PlacesFit(_merge_addresses_and_sources(Merging(s, t)))
<1> DEFINE m == Merging(s, t)
           table == _merge_addresses_and_sources(m)
           taken(i) == \E j \in ActivePrimary(places,
           t) : places[j].table = places[i].table
           S == Of(places, s)
<1>1. m.target = t /\ DOMAIN m.places = S
  BY FreshReading
<1>2. table = [i \in PlaceIds |->
                  IF i \notin S THEN places[i]
                  ELSE [places[i] EXCEPT !.party = t, !.primary = @ /\ ~taken(i)]]
  BY <1>1 DEF _merge_addresses_and_sources
<1>3. /\ S \subseteq PlaceIds
      /\ \A i \in S : places[i] # NoRow /\ places[i].party = s /\ places[i] \in PlaceRow
      /\ \A i \in PlaceIds \ S : places[i] # NoRow => places[i].party # s
  BY PartyRows DEF Of
<1>4. \A i, j \in PlaceIds :
          /\ places[i] # NoRow /\ places[j] # NoRow /\ i # j
          /\ places[i].party = places[j].party /\ places[i].table = places[j].table
          => OnePrimary(places[i], places[j])
  BY PartyRows DEF RowsStand, PlacesFit, Pairwise
<1>5. \A i, j \in PlaceIds :
          /\ places[j] # NoRow /\ places[j].party = t /\ places[j].table = places[i].table
          /\ places[j].primary /\ places[j].active
          => taken(i)
  BY PartyRows DEF ActivePrimary, Of
<1> HIDE DEF m, table, S, taken
<1>6. DOMAIN table = PlaceIds
  BY <1>2
<1>7. \A i \in S : /\ table[i].party = t /\ table[i].table = places[i].table
                   /\ table[i].active = places[i].active
                   /\ table[i].primary => places[i].primary /\ ~taken(i)
  BY <1>2, <1>3 DEF PlaceRow
<1>8. \A i \in PlaceIds \ S : table[i] = places[i]
  BY <1>2
<1>9. ASSUME NEW i \in PlaceIds, NEW j \in PlaceIds, i # j, table[i] # NoRow,
             table[j] # NoRow, table[i].party = table[j].party,
             table[i].table = table[j].table
      PROVE  OnePrimary(table[i], table[j])
  <2>1. CASE i \in S /\ j \in S
    <3>1. OnePrimary(places[i], places[j])
      BY <1>3, <1>4, <1>7, <1>9, <2>1
    <3> QED
      BY <1>7, <2>1, <3>1 DEF OnePrimary
  <2>2. CASE i \in S /\ j \notin S
    BY <1>5, <1>7, <1>8, <1>9, <2>2 DEF OnePrimary
  <2>3. CASE i \notin S /\ j \in S
    BY <1>5, <1>7, <1>8, <1>9, <2>3 DEF OnePrimary
  <2>4. CASE i \notin S /\ j \notin S
    BY <1>4, <1>8, <1>9, <2>4
  <2> QED
    BY <2>1, <2>2, <2>3, <2>4
<1>10. PlacesFit(table)
  BY <1>6, <1>9 DEF PlacesFit, Pairwise
<1> QED
  BY <1>10 DEF table, m

\* Two current affiliations with the same ends would have been combined.
LEMMA AffiliationsMergeFits ==
    ASSUME TypeOK, RowsStand, NEW s \in PartyIds, NEW t \in PartyIds, s # t,
           s \in Organisations <=> t \in Organisations
    PROVE  AffiliationsFit(_merge_affiliations(Merging(s, t)))
<1> DEFINE m == Merging(s, t)
           table == _merge_affiliations(m)
           S == AffiliationsOf(s)
<1>1. /\ m.source = s /\ m.target = t /\ DOMAIN m.affiliations = S
      /\ \A i \in S : m.affiliations[i] = affiliations[i]
  BY FreshReading
<1>2. DOMAIN table = AffiliationIds
  BY DEF _merge_affiliations
<1>3. /\ S \subseteq AffiliationIds
      /\ \A i \in S : /\ affiliations[i] # NoRow
                      /\ s \in {affiliations[i].person, affiliations[i].organisation}
      /\ \A i \in AffiliationIds : affiliations[i] # NoRow =>
             /\ affiliations[i] \in AffiliationRow
             /\ affiliations[i].person \in People
             /\ affiliations[i].organisation \in Organisations
  BY PartyRows DEF AffiliationsOf
<1>4. \A i, j \in AffiliationIds :
          /\ affiliations[i] # NoRow /\ affiliations[j] # NoRow /\ i # j
          /\ affiliations[i].current /\ affiliations[j].current
          => \/ affiliations[i].person # affiliations[j].person
             \/ affiliations[i].organisation # affiliations[j].organisation
  BY PartyRows DEF RowsStand, AffiliationsFit, Pairwise
<1>5. \A i \in AffiliationIds : table[i] # NoRow =>
          /\ affiliations[i] # NoRow /\ table[i].current = affiliations[i].current
          /\ \/ /\ i \in S /\ Existing(m, i) = {}
                /\ \/ /\ s \in People /\ affiliations[i].person = s
                      /\ table[i].person = t
                      /\ table[i].organisation = affiliations[i].organisation
                   \/ /\ s \notin People /\ affiliations[i].organisation = s
                      /\ table[i].organisation = t
                      /\ table[i].person = affiliations[i].person
             \/ /\ i \notin S /\ table[i].person = affiliations[i].person
                /\ table[i].organisation = affiliations[i].organisation
  <2> SUFFICES ASSUME NEW i \in AffiliationIds, table[i] # NoRow
               PROVE
          /\ affiliations[i] # NoRow /\ table[i].current = affiliations[i].current
          /\ \/ /\ i \in S /\ Existing(m, i) = {}
                /\ \/ /\ s \in People /\ affiliations[i].person = s
                      /\ table[i].person = t
                      /\ table[i].organisation = affiliations[i].organisation
                   \/ /\ s \notin People /\ affiliations[i].organisation = s
                      /\ table[i].organisation = t
                      /\ table[i].person = affiliations[i].person
             \/ /\ i \notin S /\ table[i].person = affiliations[i].person
                /\ table[i].organisation = affiliations[i].organisation
    OBVIOUS
  <2>1. CASE i \in S
    <3>1. Existing(m, i) = {}
      BY <1>1, <2>1 DEF _merge_affiliations
    <3>2. table[i] = IF s \in People THEN [affiliations[i] EXCEPT !.person = t]
                     ELSE [affiliations[i] EXCEPT !.organisation = t]
      BY <1>1, <2>1, <3>1 DEF _merge_affiliations
    <3>3. affiliations[i] # NoRow /\ affiliations[i] \in AffiliationRow
      BY <1>3, <2>1
    <3>4. \/ s \in People /\ affiliations[i].person = s
          \/ s \notin People /\ affiliations[i].organisation = s
      BY <1>3, <2>1 DEF People
    <3> HIDE DEF table
    <3> QED
      BY <2>1, <3>1, <3>2, <3>3, <3>4 DEF AffiliationRow
  <2>2. CASE i \notin S
    <3> DEFINE into == {k \in DOMAIN m.affiliations : i \in Existing(m, k)}
    <3>1. CASE into = {}
      <4>1. table[i] = affiliations[i]
        BY <1>1, <2>2, <3>1 DEF _merge_affiliations
      <4>2. affiliations[i] # NoRow
        BY <4>1
      <4> HIDE DEF table
      <4> QED
        BY <2>2, <4>1, <4>2
    <3>2. CASE into # {}
      <4> DEFINE flag == \E k \in into : m.affiliations[k].primary_contact
      <4>1. table[i] = [affiliations[i] EXCEPT !.primary_contact = @ \/ flag]
        BY <1>1, <2>2, <3>2 DEF _merge_affiliations
      <4>2. affiliations[i] # NoRow /\ affiliations[i] \in AffiliationRow
        BY <1>3, <3>2 DEF Existing, AffiliationsOf
      <4> HIDE DEF table, flag, into
      <4> QED
        BY <2>2, <4>1, <4>2 DEF AffiliationRow
    <3> QED
      BY <3>1, <3>2
  <2> QED
    BY <2>1, <2>2
\* An affiliation of the target with the same other end is where it goes.
<1>6. \A i \in S, j \in AffiliationIds :
          /\ affiliations[j] # NoRow /\ affiliations[i].current /\ affiliations[j].current
          /\ \/ /\ s \in People /\ affiliations[j].person = t
                /\ affiliations[j].organisation = affiliations[i].organisation
             \/ /\ s \notin People /\ affiliations[j].organisation = t
                /\ affiliations[j].person = affiliations[i].person
          => j \in Existing(m, i)
  BY <1>1 DEF Existing, AffiliationsOf, Far
<1> HIDE DEF m, table, S
<1>7. ASSUME NEW i \in AffiliationIds, NEW j \in AffiliationIds, i # j,
             table[i] # NoRow, table[j] # NoRow, table[i].current, table[j].current,
             table[i].person = table[j].person,
             table[i].organisation = table[j].organisation
      PROVE  FALSE
  <2>0. /\ affiliations[i] # NoRow /\ affiliations[j] # NoRow
        /\ affiliations[i].current /\ affiliations[j].current
    BY <1>5, <1>7
  <2>1. CASE i \in S /\ j \in S
    BY <1>4, <1>5, <1>7, <2>0, <2>1
  <2>2. CASE i \in S /\ j \notin S
    BY <1>5, <1>6, <1>7, <2>0, <2>2
  <2>3. CASE i \notin S /\ j \in S
    BY <1>5, <1>6, <1>7, <2>0, <2>3
  <2>4. CASE i \notin S /\ j \notin S
    BY <1>4, <1>5, <1>7, <2>0, <2>4
  <2> QED
    BY <2>1, <2>2, <2>3, <2>4
<1>8. AffiliationsFit(table)
  BY <1>2, <1>7 DEF AffiliationsFit, Pairwise
<1> QED
  BY <1>8 DEF table, m

\* The unique constraints accept what a merge of two parties would write now, in
\* every reachable state (merge_parties, services.py).
THEOREM MergesFit == Spec => []MergeFits
<1>1. PartiesInvariant => MergeFits
  <2> SUFFICES ASSUME PartiesInvariant, NEW s \in PartyIds, NEW t \in PartyIds, s # t,
                      _validate_merge_parties(s, t),
                      PrimaryIsActive(s), PrimaryIsActive(t)
               PROVE  RowsFit(Merging(s, t))
    BY DEF MergeFits
  <2>0. TypeOK /\ RowsStand
    BY DEF PartiesInvariant
  <2>1. ~Vanished(Merging(s, t))
    BY FreshReading DEF Vanished, Of, AffiliationsOf
  <2>2. ContactsFit(_merge_contact_methods(Merging(s, t)))
    BY <2>0, ContactsMergeFits
  <2>3. PlacesFit(_merge_addresses_and_sources(Merging(s, t)))
    BY <2>0, PlacesMergeFits
  <2>4. AffiliationsFit(_merge_affiliations(Merging(s, t)))
    BY <2>0, AffiliationsMergeFits DEF _validate_merge_parties
  <2> QED
    BY <2>1, <2>2, <2>3, <2>4 DEF RowsFit
<1> QED
  BY <1>1, PartiesInvariance, PTL

\* The target has every active role of the two.
LEMMA MergeKeepsRoles ==
    ASSUME TypeOK, NEW m, m.op = "MERGING", RequestOK(m), MergeHolds(m),
           roles' = _merge_role_records(m)
    PROVE  RolesKept(m)
<1>1. m.source \in PartyIds /\ m.target \in PartyIds /\ m.source # m.target
  BY DEF RequestOK, MergeHolds
<1>2. DOMAIN roles = PartyIds
  BY DEF TypeOK, RoleTables
<1>3. roles'[m.target] = [r \in Roles |->
          CASE "ACTIVE" \in {roles[m.source][r], roles[m.target][r]} -> "ACTIVE"
            [] {roles[m.source][r], roles[m.target][r]} = {"NONE"} -> "NONE"
            [] OTHER -> "INACTIVE"]
  BY <1>1, <1>2 DEF _merge_role_records
<1>4. ASSUME NEW r \in Roles, "ACTIVE" \in {roles[m.source][r], roles[m.target][r]}
      PROVE  roles'[m.target][r] = "ACTIVE"
  <2>1. {roles[m.source][r], roles[m.target][r]} # {"NONE"}
    BY <1>4
  <2> QED
    BY <1>3, <1>4, <2>1
<1> QED
  BY <1>4 DEF RolesKept

\* Whether contact j of the target is primary once contact i of the source is combined
\* with it.
Combined(m, i, j) ==
    \/ contacts[j].primary
    \/ m.contacts[i].primary /\ ActivePrimary(contacts, m.target) \subseteq {j}

MovedRow(m, i) ==
    [contacts[i] EXCEPT !.party = m.target,
                        !.primary = /\ m.contacts[i].primary
                                    /\ ActivePrimary(contacts, m.target) = {}]

CombinedRow(m, i, j) ==
    [contacts[j] EXCEPT !.verified = @ \/ m.contacts[i].verified,
                        !.active = @ \/ m.contacts[i].active \/ Combined(m, i, j),
                        !.primary = Combined(m, i, j)]

\* A contact of the source that the target does not have is moved; one it has is
\* combined with the target's.
LEMMA MergedInto ==
    ASSUME TypeOK, NEW m, m.op = "MERGING", RequestOK(m), MergeHolds(m), ~Vanished(m)
    PROVE  /\ \A i \in DOMAIN m.contacts : Twin(m, i) = {} =>
                  /\ contacts[i] \in ContactRow
                  /\ _merge_contact_methods(m)[i] =
                         MovedRow(m, i)
           /\ \A i \in DOMAIN m.contacts : \A j \in Twin(m, i) :
                  /\ contacts[j] \in ContactRow /\ j \in ContactIds
                  /\ contacts[j].party = m.target
                  /\ contacts[j].value = m.contacts[i].value
                  /\ _merge_contact_methods(m)[j] =
                        CombinedRow(m, i, j)
           /\ \A j \in Of(contacts, m.target) :
                  (\A i \in DOMAIN m.contacts : j \notin Twin(m, i)) =>
                      _merge_contact_methods(m)[j] = contacts[j]
<1>0. /\ DOMAIN m.contacts \subseteq ContactIds
      /\ \A i \in DOMAIN m.contacts : contacts[i] # NoRow => contacts[i].party # m.target
      /\ \A i \in DOMAIN m.contacts : \A j \in DOMAIN m.contacts \ {i} :
             m.contacts[i].value # m.contacts[j].value
  BY DEF RequestOK, MergeHolds
<1>1. ASSUME NEW i \in DOMAIN m.contacts, Twin(m, i) = {}
      PROVE  /\ contacts[i] \in ContactRow
             /\ _merge_contact_methods(m)[i] =
                    MovedRow(m, i)
  <2>1. contacts[i] \in ContactRow
    BY <1>0, <1>1, PartyRows DEF Vanished
  <2> QED
    BY <1>0, <1>1, <2>1 DEF _merge_contact_methods, MovedRow
<1>2. \A j \in Of(contacts, m.target) :
          /\ j \in ContactIds /\ j \notin DOMAIN m.contacts
          /\ contacts[j] \in ContactRow /\ contacts[j].party = m.target
  BY <1>0, PartyRows DEF Of
<1>3. ASSUME NEW i \in DOMAIN m.contacts, NEW j \in Twin(m, i)
      PROVE  /\ contacts[j].value = m.contacts[i].value
             /\ _merge_contact_methods(m)[j] =
                        CombinedRow(m, i, j)
  <2> DEFINE into == {k \in DOMAIN m.contacts : j \in Twin(m, k)}
  <2>1. j \in Of(contacts, m.target) /\ contacts[j].value = m.contacts[i].value
    BY DEF Twin
  <2>2. into = {i}
    BY <1>0 DEF Twin
  <2>3. (CHOOSE k \in into : TRUE) = i
    BY <2>2
  <2>4. _merge_contact_methods(m)[j] =
            CombinedRow(m, CHOOSE k \in into : TRUE, j)
    BY <1>2, <2>1, <2>2 DEF _merge_contact_methods, Combined, CombinedRow
  <2> HIDE DEF into
  <2> QED
    BY <2>1, <2>3, <2>4
<1>4. ASSUME NEW j \in Of(contacts, m.target),
             \A i \in DOMAIN m.contacts : j \notin Twin(m, i)
      PROVE  _merge_contact_methods(m)[j] = contacts[j]
  BY <1>2, <1>4 DEF _merge_contact_methods
<1>5. \A i \in DOMAIN m.contacts : Twin(m, i) \subseteq Of(contacts, m.target)
  BY DEF Twin
<1> QED
  BY <1>1, <1>2, <1>3, <1>4, <1>5

\* The target has every contact of the two, and a primary one if one of them had.
LEMMA MergeKeepsContacts ==
    ASSUME TypeOK, NEW m, m.op = "MERGING", RequestOK(m), MergeHolds(m), ~Vanished(m),
           contacts' = _merge_contact_methods(m)
    PROVE  ContactsKept(m)
<1> DEFINE T == Of(contacts, m.target)
           unchanged == {i \in DOMAIN m.contacts : contacts[i] = m.contacts[i]}
           AP == ActivePrimary(contacts, m.target)
<1>0. /\ DOMAIN m.contacts \subseteq ContactIds
      /\ \A i \in DOMAIN m.contacts : m.contacts[i] \in ContactRow
      /\ \A j \in T : /\ j \in ContactIds /\ contacts[j] \in ContactRow
                      /\ contacts[j].party = m.target /\ contacts[j] # NoRow
      /\ \A i \in DOMAIN m.contacts : Twin(m, i) \subseteq T
      /\ NoRow \notin ContactRow
  BY PartyRows, PartiesConstants DEF RequestOK, Of, Twin
<1>1. \A i \in DOMAIN m.contacts : Twin(m, i) = {} =>
          /\ contacts[i] \in ContactRow
          /\ contacts'[i] = MovedRow(m, i)
  BY MergedInto
<1>2. \A i \in DOMAIN m.contacts : \A j \in Twin(m, i) :
          /\ contacts[j].value = m.contacts[i].value
          /\ contacts'[j] = CombinedRow(m, i, j)
  <2>1. \A i \in DOMAIN m.contacts : \A j \in Twin(m, i) :
            /\ contacts[j].value = m.contacts[i].value
            /\ _merge_contact_methods(m)[j] = CombinedRow(m, i, j)
    BY MergedInto
  <2> QED
    BY <2>1
<1>3. \A j \in T :
          (\A i \in DOMAIN m.contacts : j \notin Twin(m, i)) => contacts'[j] = contacts[j]
  <2>1. \A j \in T : (\A i \in DOMAIN m.contacts : j \notin Twin(m, i)) =>
            _merge_contact_methods(m)[j] = contacts[j]
    BY MergedInto
  <2> QED
    BY <2>1
<1>4. \A j \in ContactIds :
          /\ contacts'[j] # NoRow /\ contacts'[j].party = m.target
          /\ contacts'[j].primary /\ contacts'[j].active
          => ActivePrimary(contacts', m.target) # {}
  <2>1. DOMAIN contacts' = ContactIds
    BY DEF _merge_contact_methods
  <2> QED
    BY <2>1 DEF ActivePrimary, Of
<1>5. AP = {} \/ \E k \in T : contacts[k].primary /\ contacts[k].active
  BY DEF ActivePrimary
<1>6. \A k \in T : contacts[k].primary /\ contacts[k].active => k \in AP
  BY DEF ActivePrimary
<1> HIDE DEF T, AP
\* What the rows become, without the records.
<1>7. \A i \in DOMAIN m.contacts : Twin(m, i) = {} =>
          /\ contacts'[i] # NoRow /\ contacts'[i].party = m.target
          /\ contacts'[i].value = contacts[i].value
          /\ contacts'[i].verified = contacts[i].verified
          /\ contacts'[i].active = contacts[i].active
          /\ contacts'[i].primary = (m.contacts[i].primary /\ AP = {})
  <2> SUFFICES ASSUME NEW i \in DOMAIN m.contacts, Twin(m, i) = {}
               PROVE  /\ contacts'[i] # NoRow /\ contacts'[i].party = m.target
                      /\ contacts'[i].value = contacts[i].value
                      /\ contacts'[i].verified = contacts[i].verified
                      /\ contacts'[i].active = contacts[i].active
                      /\ contacts'[i].primary = (m.contacts[i].primary /\ AP = {})
    OBVIOUS
  <2> DEFINE flag == m.contacts[i].primary /\ AP = {}
  <2>1. flag \in BOOLEAN /\ contacts[i] \in ContactRow
        /\ contacts'[i] = [contacts[i] EXCEPT !.party = m.target, !.primary = flag]
    BY <1>0, <1>1 DEF ContactRow, MovedRow, AP
  <2>2. m.target \in PartyIds
    BY DEF RequestOK
  <2> HIDE DEF flag
  <2>3. contacts'[i] \in ContactRow
    BY <2>1, <2>2 DEF ContactRow
  <2>4. /\ contacts'[i].party = m.target
        /\ contacts'[i].value = contacts[i].value
        /\ contacts'[i].verified = contacts[i].verified
        /\ contacts'[i].active = contacts[i].active
        /\ contacts'[i].primary = flag
    BY <2>1 DEF ContactRow
  <2> QED
    BY <1>0, <2>3, <2>4 DEF flag
<1>8. \A i \in DOMAIN m.contacts : \A j \in Twin(m, i) :
          /\ contacts'[j] # NoRow /\ contacts'[j].party = m.target
          /\ contacts'[j].value = contacts[j].value
          /\ contacts[j].verified \/ m.contacts[i].verified => contacts'[j].verified
          /\ contacts[j].active \/ m.contacts[i].active => contacts'[j].active
          /\ Combined(m, i, j) => contacts'[j].primary /\ contacts'[j].active
  <2> SUFFICES ASSUME NEW i \in DOMAIN m.contacts, NEW j \in Twin(m, i)
               PROVE  /\ contacts'[j] # NoRow /\ contacts'[j].party = m.target
                      /\ contacts'[j].value = contacts[j].value
                      /\ contacts[j].verified \/ m.contacts[i].verified
                             => contacts'[j].verified
                      /\ contacts[j].active \/ m.contacts[i].active => contacts'[j].active
                      /\ Combined(m, i, j) => contacts'[j].primary /\ contacts'[j].active
    OBVIOUS
  <2> DEFINE flag == Combined(m, i, j)
  <2>1. /\ flag \in BOOLEAN /\ contacts[j] \in ContactRow /\ contacts[j].party = m.target
        /\ m.contacts[i].verified \in BOOLEAN /\ m.contacts[i].active \in BOOLEAN
        /\ contacts'[j] = [contacts[j] EXCEPT
                              !.verified = @ \/ m.contacts[i].verified,
                              !.active = @ \/ m.contacts[i].active \/ flag,
                              !.primary = flag]
    BY <1>0, <1>2 DEF ContactRow, Combined, CombinedRow
  <2> HIDE DEF flag
  <2>2. contacts'[j] \in ContactRow
    BY <2>1 DEF ContactRow
  <2>3. /\ contacts'[j].party = m.target
        /\ contacts'[j].value = contacts[j].value
        /\ contacts'[j].verified = (contacts[j].verified \/ m.contacts[i].verified)
        /\ contacts'[j].active = (contacts[j].active \/ m.contacts[i].active \/ flag)
        /\ contacts'[j].primary = flag
    BY <2>1 DEF ContactRow
  <2> QED
    BY <1>0, <2>2, <2>3 DEF flag
<1>9. ASSUME NEW i \in unchanged PROVE KeptAs(m, contacts[i])
  <2>1. CASE Twin(m, i) = {}
    BY <1>0, <1>7, <2>1 DEF KeptAs
  <2>2. ASSUME NEW j \in Twin(m, i) PROVE KeptAs(m, contacts[i])
    <3>1. /\ i \in DOMAIN m.contacts /\ contacts[i] = m.contacts[i] /\ j \in ContactIds
          /\ contacts[j].value = contacts[i].value
      BY <1>0, <1>2, <2>2
    <3>2. /\ contacts'[j] # NoRow /\ contacts'[j].party = m.target
          /\ contacts'[j].value = contacts[i].value
          /\ contacts[i].verified => contacts'[j].verified
          /\ contacts[i].active => contacts'[j].active
      BY <1>8, <2>2, <3>1
    <3> QED
      BY <3>1, <3>2 DEF KeptAs
  <2> QED
    BY <2>1, <2>2
<1>10. ASSUME NEW j \in T PROVE KeptAs(m, contacts[j])
  <2>1. CASE \A i \in DOMAIN m.contacts : j \notin Twin(m, i)
    BY <1>0, <1>3, <2>1 DEF KeptAs
  <2>2. ASSUME NEW i \in DOMAIN m.contacts, j \in Twin(m, i) PROVE KeptAs(m, contacts[j])
    BY <1>0, <1>8, <2>2 DEF KeptAs
  <2> QED
    BY <2>1, <2>2
<1>11. ASSUME NEW j \in T, contacts[j].primary, contacts[j].active
       PROVE  ActivePrimary(contacts', m.target) # {}
  <2>1. CASE \A i \in DOMAIN m.contacts : j \notin Twin(m, i)
    BY <1>0, <1>3, <1>4, <1>11, <2>1
  <2>2. ASSUME NEW i \in DOMAIN m.contacts, j \in Twin(m, i)
        PROVE  ActivePrimary(contacts', m.target) # {}
    BY <1>0, <1>4, <1>8, <1>11, <2>2 DEF Combined
  <2> QED
    BY <2>1, <2>2
<1>12. ASSUME NEW i \in unchanged, contacts[i].primary, contacts[i].active
       PROVE  ActivePrimary(contacts', m.target) # {}
  <2>1. CASE AP # {}
    BY <1>5, <1>11, <2>1
  <2>2. CASE AP = {} /\ Twin(m, i) = {}
    BY <1>0, <1>4, <1>7, <1>12, <2>2
  <2>3. ASSUME AP = {}, NEW j \in Twin(m, i) PROVE ActivePrimary(contacts', m.target) # {}
    <3>1. Combined(m, i, j)
      BY <1>12, <2>3 DEF Combined, AP
    <3> QED
      BY <1>0, <1>4, <1>8, <2>3, <3>1
  <2> QED
    BY <2>1, <2>2, <2>3
<1> QED
  BY <1>9, <1>10, <1>11, <1>12 DEF ContactsKept, T

\* The target has every affiliation of the source, or one that is as good.
LEMMA MergeKeepsAffiliations ==
    ASSUME TypeOK, NEW m, m.op = "MERGING", RequestOK(m), MergeHolds(m), ~Vanished(m),
           affiliations' = _merge_affiliations(m)
    PROVE  AffiliationsKept(m)
<1>0. /\ DOMAIN m.affiliations \subseteq AffiliationIds /\ m.target \in PartyIds
      /\ m.source \in PartyIds
      /\ m.source \in Organisations <=> m.target \in Organisations
      /\ \A i \in DOMAIN m.affiliations :
             /\ m.affiliations[i] \in AffiliationRow
             /\ Near(m, m.affiliations[i]) = m.source
             /\ affiliations[i] # NoRow =>
                  m.target \notin {affiliations[i].person, affiliations[i].organisation}
      /\ NoRow \notin AffiliationRow
  BY PartiesConstants DEF RequestOK, MergeHolds
<1> SUFFICES ASSUME NEW i \in DOMAIN m.affiliations, affiliations[i] = m.affiliations[i]
             PROVE  \E j \in AffiliationIds :
                /\ affiliations'[j] # NoRow
                /\ Near(m, affiliations'[j]) = m.target
                /\ Far(m, affiliations'[j]) = Far(m, m.affiliations[i])
                /\ affiliations'[j].current = m.affiliations[i].current
                /\ m.affiliations[i].primary_contact => affiliations'[j].primary_contact
  BY DEF AffiliationsKept
<1>1. CASE Existing(m, i) = {}
  <2>1. affiliations'[i] = IF m.source \in People
                           THEN [affiliations[i] EXCEPT !.person = m.target]
                           ELSE [affiliations[i] EXCEPT !.organisation = m.target]
    BY <1>0, <1>1 DEF _merge_affiliations
  <2>2. affiliations[i] \in AffiliationRow
    BY <1>0
  <2>3. affiliations'[i] \in AffiliationRow
    <3>1. CASE m.source \in People
      BY <1>0, <2>1, <2>2, <3>1 DEF AffiliationRow, People
    <3>2. CASE m.source \notin People
      BY <1>0, <2>1, <2>2, <3>2 DEF AffiliationRow, People
    <3> QED
      BY <3>1, <3>2
  <2>4. /\ Near(m, affiliations'[i]) = m.target
        /\ Far(m, affiliations'[i]) = Far(m, affiliations[i])
        /\ affiliations'[i].current = affiliations[i].current
        /\ affiliations'[i].primary_contact = affiliations[i].primary_contact
    BY <2>1, <2>2 DEF AffiliationRow, Near, Far
  <2> QED
    BY <1>0, <2>3, <2>4
<1>2. ASSUME NEW j \in Existing(m, i)
      PROVE  \E k \in AffiliationIds :
                /\ affiliations'[k] # NoRow
                /\ Near(m, affiliations'[k]) = m.target
                /\ Far(m, affiliations'[k]) = Far(m, m.affiliations[i])
                /\ affiliations'[k].current = m.affiliations[i].current
                /\ m.affiliations[i].primary_contact => affiliations'[k].primary_contact
  <2> DEFINE into == {k \in DOMAIN m.affiliations : j \in Existing(m, k)}
             flag == \E k \in into : m.affiliations[k].primary_contact
  <2>1. /\ j \in AffiliationIds /\ affiliations[j] # NoRow
        /\ m.target \in {affiliations[j].person, affiliations[j].organisation}
        /\ m.affiliations[i].current /\ affiliations[j].current
        /\ Far(m, affiliations[j]) = Far(m, m.affiliations[i])
    BY DEF Existing, AffiliationsOf
  <2>2. j \notin DOMAIN m.affiliations
    BY <1>0, <2>1
  <2>3. i \in into
    OBVIOUS
  <2>4. affiliations'[j] = [affiliations[j] EXCEPT !.primary_contact = @ \/ flag]
    BY <2>1, <2>2, <2>3 DEF _merge_affiliations
  <2>5. m.affiliations[i].primary_contact => flag
    BY <2>3
  <2>6. /\ affiliations[j] \in AffiliationRow /\ affiliations[j].person \in People
        /\ affiliations[j].organisation \in Organisations
    BY <2>1, PartyRows
  <2> HIDE DEF into, flag
  <2>7. /\ affiliations'[j] \in AffiliationRow
        /\ affiliations'[j].person = affiliations[j].person
        /\ affiliations'[j].organisation = affiliations[j].organisation
        /\ affiliations'[j].current = affiliations[j].current
        /\ flag => affiliations'[j].primary_contact
    BY <2>4, <2>6 DEF AffiliationRow
  <2>8. Near(m, affiliations'[j]) = m.target
        /\ Far(m, affiliations'[j]) = Far(m, m.affiliations[i])
    BY <1>0, <2>1, <2>6, <2>7 DEF Near, Far, People
  <2>9. affiliations'[j].current = m.affiliations[i].current
    BY <1>0, <2>1, <2>7 DEF AffiliationRow
  <2> QED
    BY <1>0, <2>1, <2>5, <2>7, <2>8, <2>9
<1> QED
  BY <1>1, <1>2

\* Only the merge itself ends a merge in progress and adds a merge record.
LEMMA OnlyMergesCommit ==
    ASSUME PartiesInvariant, Next, NEW c \in Clerks, Committed(c)
    PROVE  /\ RowsFit(request[c]) /\ roles' = _merge_role_records(request[c])
           /\ contacts' = _merge_contact_methods(request[c])
           /\ affiliations' = _merge_affiliations(request[c])
<1>1. DOMAIN request = Clerks
  BY DEF PartiesInvariant, TypeOK
<1>2. merges' # merges /\ request[c].op = "MERGING" /\ request'[c] # request[c]
  BY DEF Committed, Idle
<1>3. ~PartyStep
  BY <1>2 DEF PartyStep, change_party_status, set_party_archive_state, delete_unused_party
<1>4. ~RowStep
  BY <1>2 DEF RowStep, create_contact, delete_contact, delete_affiliation
<1>5. \A d \in Clerks : ~Refused(d) /\ \A r : ~Read(d, r)
  BY <1>2 DEF Read, Refused
<1>6. ASSUME NEW d \in Clerks
      PROVE  ~PatchStep(d) /\ ~CreateStep(d) /\ ~ContactStep(d) /\ ~AffiliationStep(d)
             /\ ~BusinessStep(d)
  <2>1. ~PatchStep(d)
    BY <1>2, <1>5 DEF PatchStep, get_party, PatchParty, PatchRoles, PatchRefused,
     update_party
  <2>2. ~CreateStep(d)
    BY <1>2, <1>5 DEF CreateStep, check_new_party, create_party
  <2>3. ~ContactStep(d)
    BY <1>2, <1>5 DEF ContactStep, get_contact, save_contact
  <2>4. ~AffiliationStep(d)
    BY <1>2, <1>5 DEF AffiliationStep, get_affiliation, save_affiliation
  <2>5. ~BusinessStep(d)
    BY <1>2, <1>5 DEF BusinessStep, validate_party_for_new_business, start_business
  <2> QED
    BY <2>1, <2>2, <2>3, <2>4, <2>5
<1>7. PICK d \in Clerks : MergeStep(d)
  BY <1>3, <1>4, <1>6 DEF Next
<1>8. merge_parties(d) /\ ~Refused(d)
  BY <1>2, <1>5, <1>7 DEF MergeStep, merge, lock_parties
<1>9. Done(d)
  BY <1>8 DEF merge_parties
<1>10. d = c
  BY <1>1, <1>2, <1>9 DEF Done
<1> QED
  BY <1>8, <1>10 DEF merge_parties

\* A merge loses nothing of either party (merge_parties, services.py).
THEOREM MergesLoseNothing == Spec => MergeLosesNothing
<1>1. ASSUME PartiesInvariant, [Next]_vars
      PROVE  [\A c \in Clerks : Committed(c) =>
                  /\ RolesKept(request[c])
                  /\ ContactsKept(request[c])
                  /\ AffiliationsKept(request[c])]_vars
  <2> SUFFICES ASSUME Next, NEW c \in Clerks, Committed(c)
               PROVE  /\ RolesKept(request[c])
                      /\ ContactsKept(request[c])
                      /\ AffiliationsKept(request[c])
    BY <1>1
  <2>1. TypeOK /\ RequestOK(request[c]) /\ MergeHolds(request[c])
        /\ request[c].op = "MERGING"
    BY <1>1 DEF PartiesInvariant, TypeOK, MergesHold, Committed
  <2>2. /\ RowsFit(request[c]) /\ roles' = _merge_role_records(request[c])
        /\ contacts' = _merge_contact_methods(request[c])
        /\ affiliations' = _merge_affiliations(request[c])
    BY <1>1, OnlyMergesCommit
  <2>3. ~Vanished(request[c])
    BY <2>2 DEF RowsFit
  <2>4. RolesKept(request[c])
    BY <2>1, <2>2, MergeKeepsRoles
  <2>5. ContactsKept(request[c])
    BY <2>1, <2>2, <2>3, MergeKeepsContacts
  <2>6. AffiliationsKept(request[c])
    BY <2>1, <2>2, <2>3, MergeKeepsAffiliations
  <2> QED
    BY <2>4, <2>5, <2>6
<1> QED
  BY <1>1, PartiesInvariance, PTL DEF Spec, MergeLosesNothing

-----------------------------------------------------------------------------
(* Sessions.                                                               *)

USE SessionsAssumption

\* What a request in progress is, by what it does.
LEMMA Requests ==
    ASSUME SessionsTypeOK, NEW s \in Servers
    PROVE  /\ attending[s].op \in {"REQUEST", "CREATE"} => attending[s] \in Requesting
           /\ attending[s].op \in {"SEND", "WITHDRAW", "SPEND"} => attending[s] \in Sending
           /\ attending[s].op \in {"OPEN", "CONFIRM"} => attending[s] \in Reading
           /\ attending[s].op = "EDIT" => attending[s] \in Editing
           /\ attending[s].op = "LOGOUT" => attending[s] \in LoggingOut
  BY DEF SessionsTypeOK, Attending, NotAttending, Requesting, Sending, Reading, Editing,
     LoggingOut

\* A request that continues as one of the requests keeps their type.
LEMMA Continues ==
    ASSUME SessionsTypeOK, NEW s \in Servers, NEW r \in Attending, Attend(s, r)
    PROVE  /\ attending' \in [Servers -> Attending]
           /\ attending'[s] = r
           /\ \A t \in Servers \ {s} : attending'[t] = attending[t]
  BY DEF SessionsTypeOK, Attend

\* The pair of one request has been checked.
Checked(s) ==
    /\ attending[s].access.type = "access" /\ attending[s].refresh.type = "refresh"
    /\ \E u \in Holders :
           <<u, attending[s].access>> \in issued /\ <<u, attending[s].refresh>> \in issued

LEMMA PairsChecked ==
    PairsAreChecked <=> \A s \in Servers : attending[s].op = "LOGOUT" => Checked(s)
  BY DEF PairsAreChecked, Checked

LEMMA PairsStayChecked ==
    ASSUME PairsAreChecked, issued \subseteq issued',
           \A s \in Servers : attending'[s].op = "LOGOUT" =>
               attending'[s] = attending[s] \/ Checked(s)'
    PROVE  PairsAreChecked'
<1>1. ASSUME NEW s \in Servers, attending'[s].op = "LOGOUT" PROVE Checked(s)'
  <2>1. CASE attending'[s] = attending[s]
    <3>1. Checked(s)
      BY <1>1, <2>1, PairsChecked
    <3> QED
      BY <2>1, <3>1 DEF Checked
  <2> QED
    BY <1>1, <2>1
<1>2. \A s \in Servers : attending'[s].op = "LOGOUT" => Checked(s)'
  BY <1>1
<1> QED
  BY <1>2 DEF PairsAreChecked, Checked

LEMMA SessionsStart == SessionsInit => SessionsInvariant
  BY DEF SessionsInit, SessionsInvariant, SessionsTypeOK, OneHolder, PairsAreChecked,
     RevokedWereIssued, LogoutIsWhole, UserRow, Attending, NotAttending

-----------------------------------------------------------------------------
(* Resets leave the tokens alone.                                          *)

\* Every step of a reset keeps the types.
LEMMA ResetsType == SessionsTypeOK /\ ResetsNext => SessionsTypeOK'
<1> SUFFICES ASSUME SessionsTypeOK, ResetsNext PROVE SessionsTypeOK'
  OBVIOUS
<1>1. ASSUME NEW c \in Codes, code_expires(c) PROVE SessionsTypeOK'
  BY <1>1, Requests, Continues DEF SessionsTypeOK, Attending, code_expires, Expired,
     PasswordResetCode
<1>2. ASSUME NEW s \in Servers, NEW u \in Holders, ForgotPassword(s, u) PROVE SessionsTypeOK'
  BY <1>2, Requests, Continues DEF SessionsTypeOK, Attending, ForgotPassword, Requesting
<1>3. ASSUME NEW s \in Servers, NEW u \in Holders, edit_user(s, u) PROVE SessionsTypeOK'
  BY <1>3, Requests, Continues DEF SessionsTypeOK, Attending, edit_user, Editing
<1>4. ASSUME NEW s \in Servers, delete_unused_codes(s) PROVE SessionsTypeOK'
  BY <1>4, Requests, Continues DEF SessionsTypeOK, Attending, delete_unused_codes,
     Requesting
<1>5. ASSUME NEW s \in Servers, NEW c \in Codes, create_password_reset_code(s, c)
      PROVE  SessionsTypeOK'
  BY <1>5, Requests, Continues DEF SessionsTypeOK, Attending,
     create_password_reset_code, Requesting, Sending, PasswordResetCode
<1>6. ASSUME NEW s \in Servers, send_password_reset_email(s) PROVE SessionsTypeOK'
  <2>1. attending[s] \in Sending
    BY <1>6, Requests DEF send_password_reset_email
  <2>2. PICK r \in {NotAttending, [op |-> "WITHDRAW", code |-> attending[s].code]} :
            Attend(s, r)
    BY <1>6 DEF send_password_reset_email
  <2>3. r \in Attending
    BY <2>1, <2>2 DEF Attending, Sending, NotAttending
  <2>4. attending' \in [Servers -> Attending]
    BY <2>2, <2>3, Continues
  <2>5. mailed' \subseteq Codes
    BY <1>6, <2>1 DEF send_password_reset_email, SessionsTypeOK, Sending
  <2> QED
    BY <1>6, <2>4, <2>5 DEF send_password_reset_email, SessionsTypeOK
<1>7. ASSUME NEW s \in Servers, withdraw_code(s) PROVE SessionsTypeOK'
  BY <1>7, Requests, Continues DEF SessionsTypeOK, Attending, withdraw_code, Sending,
     NotAttending
<1>8. ASSUME NEW s \in Servers, NEW c \in Codes, NEW op \in {"OPEN", "CONFIRM"},
             get_valid_password_reset_code(s, c, op) PROVE SessionsTypeOK'
  BY <1>8, Requests, Continues DEF SessionsTypeOK, Attending,
     get_valid_password_reset_code, Valid, Reading
<1>9. ASSUME NEW s \in Servers, save_opened_at(s) PROVE SessionsTypeOK'
  BY <1>9, Requests, Continues DEF SessionsTypeOK, Attending, save_opened_at, Reading,
     Opened, PasswordResetCode, NotAttending
<1>10. ASSUME NEW s \in Servers, save_password(s) PROVE SessionsTypeOK'
  BY <1>10, Requests, Continues DEF SessionsTypeOK, Attending, save_password, Reading,
     Sending, UserRow, PasswordResetCode
<1>11. ASSUME NEW s \in Servers, save_used_at(s) PROVE SessionsTypeOK'
  BY <1>11, Requests, Continues DEF SessionsTypeOK, Attending, save_used_at, Sending,
     Used, PasswordResetCode, NotAttending
<1>12. ASSUME NEW s \in Servers, save_user(s) PROVE SessionsTypeOK'
  BY <1>12, Requests, Continues DEF SessionsTypeOK, Attending, save_user, Editing,
     NotAttending
<1>13. ASSUME NEW s \in Servers, server_ends(s) PROVE SessionsTypeOK'
  BY <1>13, Requests, Continues DEF SessionsTypeOK, Attending, server_ends, NotAttending
<1> QED
  BY <1>1, <1>2, <1>3, <1>4, <1>5, <1>6, <1>7, <1>8, <1>9, <1>10, <1>11, <1>12, <1>13
     DEF ResetsNext, handle_default_password_login, PasswordResetVerify,
     PasswordResetConfirm

\* The tokens stay as they are, and nobody begins or continues a logout.
LEMMA Undisturbed ==
    ASSUME SessionsInvariant, UNCHANGED <<issued, blacklist>>,
           \A s \in Servers : attending'[s].op = "LOGOUT" => attending'[s] = attending[s]
    PROVE  OneHolder' /\ PairsAreChecked' /\ RevokedWereIssued' /\ LogoutIsWhole'
<1> USE DEF SessionsInvariant
<1>1. OneHolder'
  BY DEF OneHolder
<1>2. PairsAreChecked'
  BY PairsStayChecked
<1>3. RevokedWereIssued'
  BY DEF RevokedWereIssued
<1>4. LogoutIsWhole'
  BY DEF LogoutIsWhole
<1> QED
  BY <1>1, <1>2, <1>3, <1>4

LEMMA ResetsKeepTokens ==
    ASSUME SessionsInvariant, ResetsNext
    PROVE  OneHolder' /\ PairsAreChecked' /\ RevokedWereIssued' /\ LogoutIsWhole'
<1> SUFFICES
        /\ UNCHANGED <<issued, blacklist>>
        /\ \A s \in Servers : attending'[s].op = "LOGOUT" => attending'[s] = attending[s]
  BY Undisturbed
<1>1. UNCHANGED <<issued, blacklist>>
  BY DEF ResetsNext, code_expires, ForgotPassword, handle_default_password_login,
     edit_user, create_password_reset_code, PasswordResetVerify, PasswordResetConfirm,
     get_valid_password_reset_code, delete_unused_codes, send_password_reset_email,
     withdraw_code, save_opened_at, save_password, save_used_at, save_user, server_ends
<1>2. SessionsTypeOK
  BY DEF SessionsInvariant
<1>3. ASSUME NEW c \in Codes, code_expires(c) PROVE UNCHANGED attending
  BY <1>3 DEF code_expires
<1>4. ASSUME NEW s \in Servers, NEW c \in Codes,
             \/ create_password_reset_code(s, c)
             \/ PasswordResetVerify(s, c) \/ PasswordResetConfirm(s, c)
      PROVE  \E r \in Attending : Attend(s, r) /\ r.op # "LOGOUT"
  BY <1>2, <1>4 DEF create_password_reset_code, PasswordResetVerify,
     PasswordResetConfirm, get_valid_password_reset_code, Valid, Attending, Sending,
     Reading, SessionsTypeOK
<1>5. ASSUME NEW s \in Servers, NEW u \in Holders,
             ForgotPassword(s, u) \/ handle_default_password_login(s, u) \/ edit_user(s,
             u)
      PROVE  \E r \in Attending : Attend(s, r) /\ r.op # "LOGOUT"
  BY <1>2, <1>5 DEF ForgotPassword, handle_default_password_login, edit_user, Attending,
     Requesting, Editing, SessionsTypeOK
<1>6. ASSUME NEW s \in Servers,
             \/ delete_unused_codes(s) \/ send_password_reset_email(s) \/ withdraw_code(s)
             \/ save_opened_at(s) \/ save_password(s) \/ save_used_at(s) \/ save_user(s)
             \/ server_ends(s)
      PROVE  \E r \in Attending : Attend(s, r) /\ r.op # "LOGOUT"
  BY <1>2, <1>6, Requests DEF delete_unused_codes, send_password_reset_email,
     withdraw_code, save_opened_at, save_password, save_used_at, save_user, server_ends,
     Attending, NotAttending, Requesting, Sending, Reading
<1>7. ASSUME NEW s \in Servers, NEW r \in Attending, Attend(s, r), r.op # "LOGOUT"
      PROVE  \A t \in Servers : attending'[t].op = "LOGOUT" => attending'[t] = attending[t]
  BY <1>2, <1>7, Continues
<1> QED
  BY <1>1, <1>3, <1>4, <1>5, <1>6, <1>7 DEF ResetsNext

-----------------------------------------------------------------------------
(* Tokens.                                                                 *)

\* A login issues the first two tokens of its own.
LEMMA LoginKeeps ==
    ASSUME SessionsInvariant, NEW u \in Holders, NEW i \in Logins, HolanTokenObtainPair(u, i)
    PROVE  SessionsInvariant'
<1> USE DEF SessionsInvariant, HolanTokenObtainPair, Token
<1>1. SessionsTypeOK'
  BY DEF SessionsTypeOK, Tokens
<1>2. OneHolder'
  BY DEF OneHolder
<1>3. PairsAreChecked'
  BY DEF PairsAreChecked
<1>4. RevokedWereIssued'
  BY DEF RevokedWereIssued
<1>5. LogoutIsWhole'
  <2>1. ASSUME NEW x \in issued', x[2] \in blacklist PROVE x \in issued
    <3>1. x \in issued \/ x[2].login = i
      BY <2>1
    <3>2. PICK v \in Holders : <<v, x[2]>> \in issued
      BY <2>1 DEF RevokedWereIssued
    <3>3. <<v, x[2]>>[2].login # i
      BY <3>2
    <3> QED
      BY <3>1, <3>3
  <2> QED
    BY <2>1 DEF LogoutIsWhole
<1> QED
  BY <1>1, <1>2, <1>3, <1>4, <1>5

\* A renewal has the user of its refresh token.
LEMMA RefreshKeeps ==
    ASSUME SessionsInvariant, NEW i \in Logins, NEW n \in 1 .. Renewals, TokenRefresh(i, n)
    PROVE  SessionsInvariant'
<1> USE DEF SessionsInvariant
<1>1. PICK u \in Holders :
          /\ <<u, Token("refresh", i, 0)>> \in issued
          /\ issued' = issued \cup {<<u, Token("access", i, n)>>}
  BY DEF TokenRefresh
<1>2. UNCHANGED <<credentials, reset_codes, generated, mailed, blacklist, attending>>
  BY DEF TokenRefresh
<1> USE DEF Token
<1>3. SessionsTypeOK'
  BY <1>1, <1>2 DEF SessionsTypeOK, Tokens
<1>4. OneHolder'
  BY <1>1, <1>2 DEF OneHolder
<1>5. PairsAreChecked'
  BY <1>1, <1>2 DEF PairsAreChecked
<1>6. RevokedWereIssued'
  BY <1>1, <1>2 DEF RevokedWereIssued
<1>7. LogoutIsWhole'
  <2>1. ASSUME NEW x \in issued', x[2] \in blacklist PROVE x \in issued
    <3>1. CASE x = <<u, Token("access", i, n)>>
      <4>1. PICK v \in Holders : <<v, x[2]>> \in issued
        BY <1>2, <2>1 DEF RevokedWereIssued
      <4>2. v = u
        BY <1>1, <3>1, <4>1 DEF OneHolder
      <4> QED
        BY <3>1, <4>1, <4>2
    <3> QED
      BY <1>1, <2>1, <3>1
  <2> QED
    BY <1>1, <1>2, <2>1 DEF LogoutIsWhole
<1> QED
  BY <1>3, <1>4, <1>5, <1>6, <1>7

\* A logout has two tokens of one user, and nothing of it counts before its end.
LEMMA LogoutKeeps ==
    ASSUME SessionsInvariant, NEW s \in Servers, NEW access \in Tokens, NEW refresh \in Tokens,
           Logout(s, access, refresh)
    PROVE  SessionsInvariant'
<1> DEFINE r == [op |-> "LOGOUT", access |-> access, refresh |-> refresh, inserted |-> {}]
<1>1. r \in Attending /\ Attend(s, r)
  BY DEF Logout, Attending, LoggingOut
<1>2. /\ attending' \in [Servers -> Attending] /\ attending'[s] = r
      /\ \A t \in Servers \ {s} : attending'[t] = attending[t]
  BY <1>1, Continues DEF SessionsInvariant
<1> USE DEF SessionsInvariant, Logout
<1>3. SessionsTypeOK'
  BY <1>2 DEF SessionsTypeOK
<1>4. PairsAreChecked'
  <2>1. Checked(s)'
    BY <1>2 DEF Checked
  <2> QED
    BY <1>2, <2>1, PairsStayChecked
<1>5. OneHolder' /\ RevokedWereIssued' /\ LogoutIsWhole'
  BY DEF OneHolder, RevokedWereIssued, LogoutIsWhole
<1> QED
  BY <1>3, <1>4, <1>5

LEMMA BlacklistKeeps ==
    ASSUME SessionsInvariant, NEW s \in Servers, NEW token \in Tokens, _blacklist_token(s, token)
    PROVE  SessionsInvariant'
<1>1. attending[s] \in LoggingOut
  BY Requests DEF SessionsInvariant, _blacklist_token
<1>2. Inserting(s, token) \in Attending /\ Attend(s, Inserting(s, token))
  BY <1>1 DEF Inserting, Attending, LoggingOut, _blacklist_token
<1>3. /\ attending' \in [Servers -> Attending] /\ attending'[s] = Inserting(s, token)
      /\ \A t \in Servers \ {s} : attending'[t] = attending[t]
  BY <1>2, Continues DEF SessionsInvariant
<1> USE DEF SessionsInvariant, _blacklist_token
<1>4. SessionsTypeOK'
  BY <1>3 DEF SessionsTypeOK
<1>5. PairsAreChecked'
  <2>1. Checked(s)
    BY PairsChecked
  <2>2. Checked(s)'
    BY <1>3, <2>1 DEF Checked, Inserting
  <2> QED
    BY <1>3, <2>2, PairsStayChecked
<1>6. OneHolder' /\ RevokedWereIssued' /\ LogoutIsWhole'
  BY DEF OneHolder, RevokedWereIssued, LogoutIsWhole
<1> QED
  BY <1>4, <1>5, <1>6

\* Both rows count at once.
LEMMA RevokeKeeps ==
    ASSUME SessionsInvariant, NEW s \in Servers, revoke_token_pair(s)
    PROVE  SessionsInvariant'
<1>1. attending[s] \in LoggingOut
  BY Requests DEF SessionsInvariant, revoke_token_pair
<1> DEFINE access == attending[s].access
           refresh == attending[s].refresh
<1>2. /\ access \in Tokens /\ refresh \in Tokens
      /\ access.type = "access" /\ refresh.type = "refresh"
      /\ blacklist' = blacklist \cup {access, refresh}
  BY <1>1 DEF LoggingOut, SessionsInvariant, PairsAreChecked, revoke_token_pair
<1>3. PICK u \in Holders : <<u, access>> \in issued /\ <<u, refresh>> \in issued
  BY DEF SessionsInvariant, PairsAreChecked, revoke_token_pair
<1>4. /\ attending' \in [Servers -> Attending] /\ attending'[s] = NotAttending
      /\ \A t \in Servers \ {s} : attending'[t] = attending[t]
  BY Continues DEF SessionsInvariant, revoke_token_pair, Attending
<1>5. UNCHANGED <<credentials, reset_codes, generated, mailed, issued>>
  BY DEF revoke_token_pair
<1> HIDE DEF access, refresh
<1> USE DEF SessionsInvariant
<1>6. SessionsTypeOK'
  BY <1>2, <1>4, <1>5 DEF SessionsTypeOK
<1>7. OneHolder'
  BY <1>5 DEF OneHolder
<1>10. PairsAreChecked'
  BY <1>4, <1>5, PairsStayChecked DEF NotAttending
<1>8. RevokedWereIssued'
  BY <1>2, <1>3, <1>5 DEF RevokedWereIssued
<1>9. LogoutIsWhole'
  BY <1>2, <1>3, <1>5 DEF LogoutIsWhole, OneHolder, SessionsTypeOK
<1> QED
  BY <1>6, <1>7, <1>8, <1>9, <1>10

LEMMA SessionsStep == SessionsInvariant /\ [SessionsNext]_sessionVars => SessionsInvariant'
<1> SUFFICES ASSUME SessionsInvariant, [SessionsNext]_sessionVars PROVE SessionsInvariant'
  OBVIOUS
<1>1. CASE ResetsNext
  BY <1>1, ResetsType, ResetsKeepTokens DEF SessionsInvariant
<1>2. ASSUME NEW s \in Servers, server_ends(s) PROVE SessionsInvariant'
  <2>1. ResetsNext
    BY <1>2 DEF ResetsNext
  <2> QED
    BY <2>1, <1>1
<1>3. CASE TokensNext
  BY <1>2, <1>3, LoginKeeps, RefreshKeeps, LogoutKeeps, BlacklistKeeps, RevokeKeeps
     DEF TokensNext
<1>4. CASE UNCHANGED sessionVars
  BY <1>4 DEF sessionVars, SessionsInvariant, SessionsTypeOK, OneHolder, PairsAreChecked,
     RevokedWereIssued, LogoutIsWhole
<1> QED
  BY <1>1, <1>3, <1>4 DEF SessionsNext

\* The tokens of a login have one user, and a logout works on two of one user.
THEOREM SessionsInvariance == SessionsSpec => []SessionsInvariant
  BY SessionsStart, SessionsStep, PTL DEF SessionsSpec

\* Of the two tokens of a logout none or both are revoked, whenever it ends.
THEOREM SessionsLogout == SessionsSpec => []LogoutIsWhole
<1>1. SessionsInvariant => LogoutIsWhole
  BY DEF SessionsInvariant
<1> QED
  BY <1>1, SessionsInvariance, PTL

-----------------------------------------------------------------------------
(* Codes.                                                                  *)

\* A code that has ended stays ended.
EndedCodesStay == \A c \in generated : ~Valid(reset_codes[c]) => ~Valid(reset_codes'[c])

\* Each statement that writes codes, about the rows of now.
LEMMA CodesStep == SessionsInvariant /\ [SessionsNext]_sessionVars => EndedCodesStay
<1> SUFFICES ASSUME SessionsInvariant, [SessionsNext]_sessionVars PROVE EndedCodesStay
  OBVIOUS
<1> USE DEF EndedCodesStay, Valid
<1>1. generated \subseteq Codes /\ reset_codes \in [Codes -> PasswordResetCode \cup {NoCodeRow}]
  BY DEF SessionsInvariant, SessionsTypeOK
<1>2. ASSUME NEW c \in Codes, code_expires(c) PROVE EndedCodesStay
  BY <1>1, <1>2 DEF code_expires, Expired
<1>3. ASSUME NEW s \in Servers, delete_unused_codes(s) PROVE EndedCodesStay
  BY <1>1, <1>3 DEF delete_unused_codes
<1>4. ASSUME NEW s \in Servers, NEW c \in Codes, create_password_reset_code(s, c)
      PROVE  EndedCodesStay
  BY <1>1, <1>4 DEF create_password_reset_code
<1>5. ASSUME NEW s \in Servers, withdraw_code(s) PROVE EndedCodesStay
  BY <1>1, <1>5 DEF withdraw_code
<1>6. ASSUME NEW s \in Servers, save_opened_at(s) PROVE EndedCodesStay
  BY <1>1, <1>6 DEF save_opened_at, Opened
<1>7. ASSUME NEW s \in Servers, save_used_at(s) PROVE EndedCodesStay
  BY <1>1, <1>7 DEF save_used_at, Used
<1>8. ASSUME UNCHANGED reset_codes PROVE EndedCodesStay
  BY <1>8
<1>9. CASE ResetsNext
  BY <1>9, <1>2, <1>3, <1>4, <1>5, <1>6, <1>7, <1>8 DEF ResetsNext, ForgotPassword,
     handle_default_password_login, edit_user, PasswordResetVerify,
     PasswordResetConfirm, get_valid_password_reset_code, send_password_reset_email,
     save_password, save_user, server_ends
<1>10. CASE TokensNext
  BY <1>10, <1>8 DEF TokensNext, HolanTokenObtainPair, TokenRefresh, Logout,
     _blacklist_token, revoke_token_pair, server_ends
<1>11. CASE UNCHANGED sessionVars
  BY <1>8, <1>11 DEF sessionVars
<1> QED
  BY <1>9, <1>10, <1>11 DEF SessionsNext

\* No request that read a code before it ended makes it valid again.
THEOREM SessionsCodes == SessionsSpec => SpentStaysSpent
<1>1. EndedCodesStay =>
          \A c \in generated : ~Valid(reset_codes[c]) => ~Valid(reset_codes[c])'
  BY DEF EndedCodesStay, Valid
<1> QED
  BY <1>1, CodesStep, SessionsInvariance, PTL DEF SessionsSpec, SpentStaysSpent

==============================================================================
