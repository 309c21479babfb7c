--------------------------- MODULE MCTaskLifecycle ---------------------------
(***************************************************************************)
(* Small tables for TaskLifecycle: one batch of two tasks, the first of    *)
(* which has reminders.  Only personal tasks, alone in their batch, may    *)
(* have reminders, and only shared ones have siblings; the table has both  *)
(* at once and so every behaviour of either.                               *)
(***************************************************************************)
EXTENDS TaskLifecycle, TLC

CONSTANTS b1

OneBatch == {b1}
BatchOfEach == [k \in Tasks |-> b1]
TaskOfEach == [r \in Reminders |-> CHOOSE k \in Tasks : TRUE]
Symmetric == Permutations(Txns)
=============================================================================
