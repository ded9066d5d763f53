----------------------------- MODULE TaskQueries -----------------------------
(***************************************************************************)
(* The queries on capture_tasks: task_repo.py.  Newest first is greatest    *)
(* id first, the order of requested_at.                                     *)
(***************************************************************************)
EXTENDS TaskTable

CountTasks(tasks, status) == Cardinality(TasksWith(tasks, {status}))

NewestOf(ids, limit) ==
    {t \in ids : Cardinality({u \in ids : u > t}) < limit}

\* The limit is clamped to 1 .. 500.
ListTasks(tasks, limit, statuses) ==
    NewestOf(TasksWith(tasks, statuses), IF limit < 1 THEN 1 ELSE limit)
=============================================================================
