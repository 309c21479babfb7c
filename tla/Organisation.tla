------------------------------ MODULE Organisation ------------------------------
(***************************************************************************)
(* Who sees and who manages tasks: the staff profiles, their reporting     *)
(* hierarchy and the leaders of departments (accounts), the rules of       *)
(* tasks/services/access.py, and the requests of the tasks API that those  *)
(* rules guard.  TaskLifecycle models the statuses of tasks.               *)
(*                                                                         *)
(* An update of a profile reads the row, validates the request against the *)
(* hierarchy as it is, and saves the whole row without a lock, so that     *)
(* updates overlap.                                                        *)
(***************************************************************************)
EXTENDS Integers, Sequences, FiniteSets

CONSTANTS
    Staff,       \* staff profiles, with their users
    Departments,
    RoleSets,    \* sets of permissions a user can be given
    FirstProfile,\* the profiles at the start
    Administrators, \* updates of profiles in progress at a time
    MaxChanges,  \* bounds on the changes in accounts, on batches and on comments
    MaxBatches,
    MaxComments,
    NoOne

ProfileRow == [department : Departments, reports_to : Staff \cup {NoOne},
               active : BOOLEAN, role : RoleSets]

\* A circle is a set of staff whose managers are all in it.
WithoutCircles(profiles) ==
    \A circle \in SUBSET Staff \ {{}} :
        \E p \in circle : profiles[p].reports_to \notin circle

ASSUME OrganisationAssumption ==
    /\ MaxChanges \in Nat /\ MaxBatches \in Nat /\ MaxComments \in Nat
    /\ IsFiniteSet(Staff) /\ NoOne \notin Staff \cup Departments
    /\ FirstProfile \in [Staff -> ProfileRow] /\ WithoutCircles(FirstProfile)

VARIABLES
    profile,  \* StaffProfile and its user
    leaders,  \* the active rows of DepartmentLeadership
    updating, \* what each clerk is doing
    raced,    \* a row has been saved that was read before another save
    changes,  \* how many changes there have been
    batches,  \* TaskBatch
    duties,   \* Task
    remarks   \* TaskComment

organisationVars == <<profile, leaders, updating, raced, changes, batches, duties, remarks>>

BatchRow == [creator : Staff, type : {"PERSONAL", "USERS", "DEPARTMENT"},
             source : Departments \cup {NoOne}]
DutyRow == [batch : 1..MaxBatches, assigned_to : Staff, department : Departments,
            archived : BOOLEAN]
RemarkRow == [id : 1..MaxComments, task : (1..MaxBatches) \X Staff, author : Staff,
              edited : BOOLEAN, removed : BOOLEAN]
LeaderRow == Departments \X Staff
NotUpdating == [staff |-> NoOne]
Updating == [staff : Staff, row : ProfileRow, read : ProfileRow, stale : BOOLEAN]

OrganisationTypeOK ==
    /\ profile \in [Staff -> ProfileRow] /\ leaders \subseteq LeaderRow
    /\ updating \in [Administrators -> Updating \cup {NotUpdating}]
    /\ batches \in Seq(BatchRow) /\ Len(batches) <= MaxBatches
    /\ duties \subseteq DutyRow /\ remarks \subseteq RemarkRow /\ IsFiniteSet(remarks)
    /\ raced \in BOOLEAN /\ changes \in 0 .. MaxChanges

-----------------------------------------------------------------------------
(* Access.                                                                 *)

has_any_permission(u, permissions) ==
    profile[u].active /\ profile[u].role \cap permissions # {}

\* A mutation of DEPARTMENT_VIEW_PERMISSIONS: managing does not include viewing.
ViewPermissionOnly == {"view_department_task"}

DEPARTMENT_VIEW_PERMISSIONS == {"view_department_task", "manage_department_task"}
DEPARTMENT_ASSIGN_PERMISSIONS == {"assign_department_task", "manage_department_task"}

can_view_all_tasks(u) == has_any_permission(u, {"view_all_task", "manage_all_task"})
can_assign_across_organisation(u) ==
    has_any_permission(u, {"assign_all_task", "manage_all_task"})
can_manage_all_tasks(u) == has_any_permission(u, {"manage_all_task"})
can_view_department_tasks(u) == has_any_permission(u, DEPARTMENT_VIEW_PERMISSIONS)
can_assign_department_tasks(u) == has_any_permission(u, DEPARTMENT_ASSIGN_PERMISSIONS)
can_manage_department_tasks(u) == has_any_permission(u, {"manage_department_task"})

\* Terms of leadership that have begun and have not ended, whoever holds them.
get_managed_departments(u) == {d \in Departments : <<d, u>> \in leaders}

\* Level by level, until a level has nobody new.
get_reporting_descendants(u) ==
    LET reports(managers) == {p \in Staff : profile[p].reports_to \in managers}
        below[n \in 1..Cardinality(Staff)] ==
            IF n = 1 THEN reports({u}) ELSE below[n-1] \cup reports(below[n-1])
    IN  below[Cardinality(Staff)]

get_management_scope(u) ==
    get_reporting_descendants(u)
        \cup {p \in Staff : profile[p].department \in get_managed_departments(u)}

can_assign_to_department(u, d) ==
    \/ can_assign_across_organisation(u)
    \/ can_assign_department_tasks(u) /\ d \in get_managed_departments(u)

can_assign_to_user(u, target) ==
    /\ profile[target].active
    /\ \/ can_assign_across_organisation(u)
       \/ /\ has_any_permission(u, {"assign_task"})
          /\ \/ profile[target].department \in get_managed_departments(u)
             \/ target \in get_reporting_descendants(u)

visible_tasks_for(u) ==
    {t \in duties :
        \/ can_view_all_tasks(u)
        \/ t.assigned_to = u
        \/ batches[t.batch].creator = u
        \/ /\ can_view_department_tasks(u)
           /\ \/ t.assigned_to \in get_management_scope(u)
              \/ t.department \in get_managed_departments(u)}

visible_batches_for(u) ==
    {b \in DOMAIN batches :
        batches[b].creator = u \/ \E t \in visible_tasks_for(u) : t.batch = b}

\* The creator of a batch is asked no more than for a permission to assign.
can_manage_task(u, t) ==
    \/ can_manage_all_tasks(u)
    \/ /\ batches[t.batch].creator = u
       /\ has_any_permission(u, {"assign_task", "assign_department_task"})
    \/ /\ batches[t.batch].creator # u
       /\ can_manage_department_tasks(u)
       /\ t.assigned_to \in get_management_scope(u)

can_manage_batch(u, b) ==
    \/ can_manage_all_tasks(u)
    \/ /\ batches[b].creator = u
       /\ \/ has_any_permission(u, {"assign_task", "assign_department_task"})
          \/ batches[b].type = "PERSONAL"
    \/ /\ batches[b].creator # u
       /\ can_manage_department_tasks(u)
       /\ \/ batches[b].source \in get_managed_departments(u)
          \/ \E t \in duties : t.batch = b /\ t.assigned_to \in get_management_scope(u)

can_update_task_status(u, t) ==
    \/ t.assigned_to = u
    \/ can_manage_all_tasks(u)
    \/ can_manage_department_tasks(u) /\ t.assigned_to \in get_management_scope(u)

can_cancel_task(u, t) ==
    \/ batches[t.batch].type = "PERSONAL" /\ t.assigned_to = u
    \/ can_manage_task(u, t)

can_archive_task(u, t) == t.assigned_to = u \/ can_manage_task(u, t)

can_comment_on_task(u, t) == t \in visible_tasks_for(u) /\ ~t.archived

TaskOf(c) == CHOOSE t \in duties : <<t.batch, t.assigned_to>> = c.task

can_edit_task_comment(u, c) ==
    ~c.removed /\ c.author = u /\ can_comment_on_task(u, TaskOf(c))

can_remove_task_comment(u, c) ==
    /\ ~c.removed
    /\ \/ /\ \/ c.author = u
             \/ has_any_permission(u, {"moderate_taskcomment"})
          /\ TaskOf(c) \in visible_tasks_for(u)
       \/ /\ c.author # u
          /\ ~has_any_permission(u, {"moderate_taskcomment"})
          /\ can_manage_task(u, TaskOf(c))

\* The rows a request on one task can find; archived is a parameter of it.
task_queryset(u, action, archived) ==
    {t \in visible_tasks_for(u) : t.archived = (action = "restore" \/ archived)}

IsActiveStaff(u) == profile[u].active

-----------------------------------------------------------------------------
(* Staff profiles and department leaders.                                  *)

\* The manager, his manager, and so on.
ChainOf(manager) ==
    LET chain[n \in 0..Cardinality(Staff)] ==
            IF n = 0 THEN manager
            ELSE IF chain[n-1] = NoOne THEN NoOne ELSE profile[chain[n-1]].reports_to
    IN  chain

\* A mutation of validate: the walk stops at the manager.
ValidateManagerOnly(p, manager) == p # manager

\* The walk up from the manager meets neither the profile nor a circle.
validate(p, manager) ==
    LET chain == ChainOf(manager) IN
    /\ chain[Cardinality(Staff)] = NoOne
    /\ \A n \in DOMAIN chain : chain[n] # p

\* PATCH: one field of the row, which is read with all its others.
update_profile(k, p, row) ==
    /\ updating[k] = NotUpdating /\ changes < MaxChanges
    /\ changes' = changes + 1
    /\ validate(p, row.reports_to)
    /\ row.reports_to \notin {profile[p].reports_to, NoOne} => profile[row.reports_to].active
    /\ updating' = [updating EXCEPT ![k] =
           [staff |-> p, row |-> row, read |-> profile[p], stale |-> FALSE]]
    /\ UNCHANGED <<profile, leaders, raced, batches, duties, remarks>>

\* All fields of the profile are written, those of its user only when they change.
save_profile(k) ==
    LET r == updating[k] IN
    /\ r # NotUpdating
    /\ profile' = [profile EXCEPT ![r.staff] =
           [department |-> r.row.department,
            reports_to |-> r.row.reports_to,
            active |-> IF r.row.active = r.read.active THEN @.active ELSE r.row.active,
            role |-> IF r.row.role = r.read.role THEN @.role ELSE r.row.role]]
    /\ raced' = (raced \/ r.stale)
    /\ updating' = [d \in Administrators |->
           IF d = k \/ updating[d] = NotUpdating THEN NotUpdating
           ELSE [updating[d] EXCEPT !.stale = TRUE]]
    /\ UNCHANGED <<leaders, changes, batches, duties, remarks>>

appoint_leader(d, p) ==
    /\ changes < MaxChanges /\ changes' = changes + 1
    /\ profile[p].active
    /\ <<d, p>> \notin leaders
    /\ leaders' = leaders \cup {<<d, p>>}
    /\ UNCHANGED <<profile, updating, raced, batches, duties, remarks>>

end_leadership(d, p) ==
    /\ changes < MaxChanges /\ changes' = changes + 1
    /\ <<d, p>> \in leaders
    /\ leaders' = leaders \ {<<d, p>>}
    /\ UNCHANGED <<profile, updating, raced, batches, duties, remarks>>

-----------------------------------------------------------------------------
(* Requests of the tasks API.                                              *)

\* One task for each recipient, with the department he is in now.
create_task_assignment(u, type, source, recipients) ==
    /\ IsActiveStaff(u) /\ Len(batches) < MaxBatches
    /\ recipients # {}
    /\ batches' = Append(batches, [creator |-> u, type |-> type, source |-> source])
    /\ duties' = duties \cup
           {[batch |-> Len(batches) + 1, assigned_to |-> p,
             department |-> profile[p].department, archived |-> FALSE] : p \in recipients}
    /\ UNCHANGED <<profile, leaders, updating, raced, changes, remarks>>

create_personal(u) == create_task_assignment(u, "PERSONAL", NoOne, {u})

create_for_users(u, recipients) ==
    /\ \A p \in recipients : can_assign_to_user(u, p)
    /\ \/ can_assign_across_organisation(u)
       \/ has_any_permission(u, {"assign_task", "assign_department_task",
                                 "manage_department_task"})
    /\ create_task_assignment(u, "USERS", NoOne, recipients)

create_for_department(u, d, include_assigner) ==
    /\ can_assign_to_department(u, d)
    /\ create_task_assignment(u, "DEPARTMENT", d,
           {p \in Staff : /\ profile[p].active /\ profile[p].department = d
                          /\ include_assigner \/ p # u})

Archive(t, archived) ==
    /\ duties' = (duties \ {t}) \cup {[t EXCEPT !.archived = archived]}
    /\ UNCHANGED <<profile, leaders, updating, raced, changes, batches, remarks>>

archive_task(u, t) ==
    /\ IsActiveStaff(u)
    /\ t \in task_queryset(u, "archive", FALSE)
    /\ can_archive_task(u, t)
    /\ Archive(t, TRUE)

restore_task(u, t) ==
    /\ IsActiveStaff(u)
    /\ t \in task_queryset(u, "restore", FALSE)
    /\ can_archive_task(u, t)
    /\ Archive(t, FALSE)

add_task_comment(u, t) ==
    /\ IsActiveStaff(u) /\ Cardinality(remarks) < MaxComments
    /\ t \in task_queryset(u, "comments", FALSE)
    /\ can_comment_on_task(u, t)
    /\ remarks' = remarks \cup
           {[id |-> Cardinality(remarks) + 1, task |-> <<t.batch, t.assigned_to>>,
             author |-> u, edited |-> FALSE, removed |-> FALSE]}
    /\ UNCHANGED <<profile, leaders, updating, raced, changes, batches, duties>>

edit_task_comment(u, c) ==
    /\ IsActiveStaff(u)
    /\ \E archived \in BOOLEAN : TaskOf(c) \in task_queryset(u, "update_comment", archived)
    /\ can_edit_task_comment(u, c)
    /\ remarks' = (remarks \ {c}) \cup {[c EXCEPT !.edited = TRUE]}
    /\ UNCHANGED <<profile, leaders, updating, raced, changes, batches, duties>>

remove_task_comment(u, c) ==
    /\ IsActiveStaff(u)
    /\ \E archived \in BOOLEAN : TaskOf(c) \in task_queryset(u, "remove_comment", archived)
    /\ can_remove_task_comment(u, c)
    /\ remarks' = (remarks \ {c}) \cup {[c EXCEPT !.removed = TRUE]}
    /\ UNCHANGED <<profile, leaders, updating, raced, changes, batches, duties>>

-----------------------------------------------------------------------------

\* The rows that differ from that of p in one field.
RowsNear(p) ==
    {[profile[p] EXCEPT !.department = d] : d \in Departments}
        \cup {[profile[p] EXCEPT !.reports_to = m] : m \in Staff \cup {NoOne}}
        \cup {[profile[p] EXCEPT !.active = b] : b \in BOOLEAN}
        \cup {[profile[p] EXCEPT !.role = r] : r \in RoleSets}

OrganisationInit ==
    /\ profile = FirstProfile
    /\ leaders = {} /\ updating = [k \in Administrators |-> NotUpdating]
    /\ raced = FALSE /\ changes = 0
    /\ batches = <<>> /\ duties = {} /\ remarks = {}

OrganisationNext ==
    \/ \E k \in Administrators :
           \/ \E p \in Staff : \E row \in RowsNear(p) : update_profile(k, p, row)
           \/ save_profile(k)
    \/ \E d \in Departments, p \in Staff : appoint_leader(d, p) \/ end_leadership(d, p)
    \/ \E u \in Staff :
           \/ create_personal(u)
           \/ \E recipients \in SUBSET Staff : create_for_users(u, recipients)
           \/ \E d \in Departments, b \in BOOLEAN : create_for_department(u, d, b)
           \/ \E t \in duties : archive_task(u, t) \/ restore_task(u, t) \/ add_task_comment(u, t)
           \/ \E c \in remarks : edit_task_comment(u, c) \/ remove_task_comment(u, c)

OrganisationSpec == OrganisationInit /\ [][OrganisationNext]_organisationVars

-----------------------------------------------------------------------------
(* Properties.                                                             *)

\* The endpoints look a row up among those the user sees before the service asks
\* whether he may change it (tasks/views/tasks.py:203): however staff have moved,
\* been promoted or replaced since a task was assigned, whoever the service lets
\* change a task, a batch or a comment also finds it.
ManagersFindTasks ==
    \A u \in {p \in Staff : IsActiveStaff(p)} :
        /\ \A t \in duties :
              \/ can_update_task_status(u, t) \/ can_cancel_task(u, t)
              \/ can_archive_task(u, t) \/ can_manage_task(u, t)
              => t \in visible_tasks_for(u)
        /\ \A b \in DOMAIN batches : can_manage_batch(u, b) => b \in visible_batches_for(u)
        /\ \A c \in remarks :
              can_edit_task_comment(u, c) \/ can_remove_task_comment(u, c)
              => TaskOf(c) \in visible_tasks_for(u)

\* "This reporting relationship would create a circular hierarchy"
\* (accounts/serializers.py:738): nobody reports to himself, directly or through
\* others, unless a profile was saved that had been read before another save.
CirclesNeedRaces ==
    ~raced => \A p \in Staff : p \notin get_reporting_descendants(p)

(* Why managers find tasks: every batch has a task, those of a department's batch *)
(* are of the department, and a comment is on a task that is there.               *)

BatchesHaveDuties ==
    \A b \in DOMAIN batches :
        \E t \in duties :
            t.batch = b /\ (batches[b].source # NoOne => t.department = batches[b].source)

RemarksHaveDuties ==
    \A c \in remarks : \E t \in duties : <<t.batch, t.assigned_to>> = c.task

\* No task is of a batch to come.
DutiesHaveBatches == \A t \in duties : t.batch \in DOMAIN batches

(* Why circles need races: without a save in between, what was validated is still *)
(* valid when it is saved.                                                        *)

NoCircles == ~raced => WithoutCircles(profile)

ValidatedStaysValid ==
    \A k \in Administrators, p \in Staff, manager \in Staff \cup {NoOne} :
        /\ updating[k] # NotUpdating /\ ~updating[k].stale
        /\ updating[k].staff = p /\ updating[k].row.reports_to = manager
        => validate(p, manager)

OrganisationInvariant ==
    /\ OrganisationTypeOK /\ BatchesHaveDuties /\ RemarksHaveDuties /\ DutiesHaveBatches
    /\ NoCircles /\ ValidatedStaysValid

=============================================================================
