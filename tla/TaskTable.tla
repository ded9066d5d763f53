------------------------------ MODULE TaskTable ------------------------------
(***************************************************************************)
(* The capture_tasks table: task_repo.py.  A row is a record; an id whose   *)
(* row is "absent" has not been inserted.  The uuid of a task is abstracted *)
(* to its rank in requested_at order: the oldest queued task is the one     *)
(* with the least id.  requested_at is read before the transaction starts,  *)
(* so rows need not be inserted in that order: a new row takes any free id. *)
(* Each operator is one SQLite transaction.                                 *)
(***************************************************************************)
EXTENDS Inventory

CONSTANT MaxTasks   \* bound on the number of rows a behaviour inserts

ASSUME MaxTasksAssumption == MaxTasks \in Nat

TaskIds == 1 .. MaxTasks

Active   == {"queued", "running"}
Terminal == {"completed", "failed", "cancelled"}
Statuses == {"absent"} \cup Active \cup Terminal

\* result_json keeps the hosts captured (ok) and the hosts that failed (bad);
\* a NULL result is the empty one.
Rows == [status: Statuses, hosts: SUBSET Hosts, cancel: BOOLEAN,
         ok: SUBSET Hosts, bad: SUBSET Hosts, error: BOOLEAN]

NoRow == [status |-> "absent", hosts |-> {}, cancel |-> FALSE,
          ok |-> {}, bad |-> {}, error |-> FALSE]

TasksWith(tasks, statuses) == { t \in TaskIds : tasks[t].status \in statuses }

CreateTask(tasks, t, hosts) ==
    [tasks EXCEPT ![t] = [NoRow EXCEPT !.status = "queued", !.hosts = hosts]]

\* ORDER BY requested_at ASC LIMIT 1 among the queued rows.
IsOldestQueued(tasks, t) ==
    LET queued == TasksWith(tasks, {"queued"}) IN
    /\ t \in queued
    /\ \A u \in queued : t <= u

SetStatus(tasks, t, status) == [tasks EXCEPT ![t].status = status]

\* update_task with a result: the row is overwritten whatever its status is.
Conclude(tasks, t, status, ok, bad) ==
    [tasks EXCEPT ![t].status = status, ![t].ok = ok, ![t].bad = bad]

\* update_task with an error message alone; the error column is never cleared.
FailWithError(tasks, t) ==
    [tasks EXCEPT ![t].status = "failed", ![t].error = TRUE]

\* Mutant of RequestCancel: the WHERE clause on the status is missing.
RequestCancelUnguarded(tasks, t) == [tasks EXCEPT ![t].cancel = TRUE]

\* update_task with an error message and a result.
ConcludeWithError(tasks, t, ok, bad) ==
    [tasks EXCEPT ![t].status = "failed", ![t].error = TRUE, ![t].ok = ok, ![t].bad = bad]

\* UPDATE ... WHERE status IN (queued, running): nothing happens to other rows.
RequestCancel(tasks, t) ==
    [tasks EXCEPT ![t].cancel = @ \/ tasks[t].status \in Active]

\* Mutant of RecoverRunning: the error is recorded, the status is not set.
RecoverErrorOnly(tasks) ==
    [t \in TaskIds |-> [tasks[t] EXCEPT !.error = @ \/ tasks[t].status = "running"]]

\* UPDATE ... WHERE status = running: every running row of the database,
\* whichever process is running it.
RecoverRunning(tasks) ==
    [t \in TaskIds |->
        IF tasks[t].status = "running"
        THEN [tasks[t] EXCEPT !.status = "failed", !.error = TRUE]
        ELSE tasks[t]]
=============================================================================
