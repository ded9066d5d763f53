# NW-Diff v2: TLA+ models, checks and proofs

NW-Diff v2 is a FastAPI service that captures command outputs of network devices
over SSH in the background, stores them as files, and shows the differences between
two captures (`origin` and `dest`) of each host. This directory models the capture
pipeline around one SQLite database, which is where most actors meet, the files it
writes and what reads them, the clients that follow a task, the rendering of a
difference, the command profiles, and the scripts that decide a cutover.

Paths below are relative to `src/src/nw_diff_v2/` unless they start with `docs/` or `scripts/`.

## 1. Inventory of the system

| Component | State it keeps | Operations | Interacts with | Hard behaviour | Correct when |
|---|---|---|---|---|---|
| Host locks (`infra/repositories/lock_repo.py`, `domain/services/lock_service.py`) | table `host_locks(host, acquired_at)`; no owner column | `try_lock_hosts`, `release_hosts`, `cleanup_stale_locks`, `list_locks` | requests, workers, start-up, operators | expiry under a live task, release by name, all-or-nothing with rollback | a host in use is locked by exactly one owner; locks do not leak |
| Task table (`infra/repositories/task_repo.py`) | table `capture_tasks` | `create_task`, `claim_next_queued_task`, `update_task`, `request_cancel`, `recover_orphaned_running_tasks`, queries | requests, workers, start-up, UI | concurrent claims, unconditional `update_task`, recovery against live tasks | a task runs once, ends, and stays as it ended |
| Capture requests (`domain/services/capture_queue_service.py`, `api/capture.py`, `api/tasks.py`) | none outside the tables | validate, lock, (lock again), insert, log, undo | both tables, `hosts.csv` | five steps, a crash or an exception between any two | the hosts of a queued task are reserved |
| Task execution (`domain/services/capture_service.py`, `task_worker.py`, `worker.py`) | current task, host, partial result | claim, host loop, cancel, fail, finish, release | tables, devices, artifacts, task log | races with cancel, recovery, expiry; exceptions in and out of the `try` | result agrees with status; locks given back on every path |
| Start-up (`main.py`, `worker.py`) | progress of recovery | clean up, recover, release, start workers | both tables | crash during recovery, several processes | orphans end, nothing else is touched |
| System endpoints (`api/system.py`, `domain/services/system_service.py`) | none | lock clean-up and release, readiness, status | tables | list-then-delete | counters and thresholds agree with the tables |
| Task log and its stream (`infra/storage/task_logs.py`, `api/tasks.py:173`) | one append-only file per task | append, stream with `Last-Event-ID` | workers, browser | end of file read before the status; the row may be written again after it was told | no line lost or sent twice; what is told stays true |
| Artifacts (`infra/storage/files.py`) | one file per base, host and command | overwrite, list, read | workers, diff, export, compare | overwrite in place during a read, name collisions | a host recorded as captured is on file; no torn or marked text passes for the output |
| Host summary and diff (`host_diff_service.py`, `diff_service.py`, `diff_renderers.py`) | none | status, inline and side-by-side diff, context windows | artifacts, task table | reads during a capture, boundaries, empty outputs | endpoints agree, no line is lost or misnumbered, what is collapsed is marked |
| Compare, export (`compare_service.py`, `export_service.py`) | none | read artifacts, archive | artifacts | partial captures | same status as the detail |
| Command profiles (`command_profiles.py`) | three tables per process, override file | validate and replace at start, look up | execution | edits between starts, rejected files, in-place replacement | fails closed, never mixes two files |
| Browser UI (`static/index.js`) | timers, event source | poll, stream, retry | task API | answers out of order, two captures at once | polling ends, no timer is lost, the panel is right, a console that is connected learns an end |
| Release and cutover scripts (`scripts/*v2*`) | JSON files in the artifact directory | smoke check, contract diff, readiness and lock checks, deployment check, decision, message | system API | steps that fail, files left by an earlier attempt | a GO rests on this attempt's reports |
| Authentication, configuration, deployment | constants | stateless checks | all | - | - |

The hazards of this code, each at its line and with the property that watches it, are in
`PROJECT.json`.

## 2. Plan

Order of work, the most important behaviour first.

1. *(done)* `Inventory`, `HostLocks`, `TaskTable`: the data each transaction works on.
   `CaptureSystem`: requests, workers, processes, operators and clock over them.
   `CaptureSystemProofs`: theorems.
2. *(done)* `CaptureContract`, the abstract specification (exclusive hosts, one run,
   one end), and `CaptureRefinement`, by which TLC
   shows, and `CaptureRefinementProofs` proves, that `CaptureSystem` implements it in the safe deployment.
3. *(done)* `TaskStream`, `CapturePolling`, `TaskClients`: the clients that follow a task.
4. *(done)* `HostArtifacts` with `DiffStatus`: overwrites by a capture against the readers.
5. *(done)* `ContextWindow`, `SideBySide`, `InlineDiff`, `DiffViews`: the rendering.
6. *(done)* `TaskQueries`, `Cutover`, `SystemProbes`, `CutoverPipeline`, `CommandProfiles`.
7. *(done)* Proofs beyond the core: no leaked locks, the bound on late captures, agreement of result and
   status, the refinement of step 2, `TaskClientsProofs`, `HostArtifactsProofs`, `SystemProbesProofs`,
   `CutoverPipelineProofs`.
8. *(done)* Proofs of what the rendering and the profiles compute, for every text and every list: `DiffViewsProofs`,
   `CommandProfilesProofs`.

No module uses a RECURSIVE operator.

## 3. Modules and how they correspond to the code

| Module | Models |
|---|---|
| `Inventory` | the configured hosts and the validation of a request (`queue_capture_request`, first half) |
| `HostLocks` | the table `host_locks`; one operator per transaction of `lock_repo.py` |
| `TaskTable` | the table `capture_tasks`; one operator per transaction of `task_repo.py` |
| `CaptureSystem` | everything that runs those transactions, the properties, and for each property a mutated definition that must break it |
| `CaptureContract` | what the pipeline promises: tickets that hold hosts, tasks that begin, visit, end and give back |
| `CaptureRefinement` | the mapping of the pipeline's state to the contract's, and `ImplementsContract` |
| `MCCaptureSystem` | `CaptureSystem` with that mapping and the symmetry set for TLC |
| `TaskStream` | one task's log file and row, every write of its worker to either, the generator of `GET /tasks/{id}/stream`, the live console of the page and a subscriber that resumes |
| `CapturePolling` | the capture panel of `static/index.js`: POST, timers, polls, answers in any order |
| `TaskClients` | the two of them under their fairness; a behaviour has one of the two |
| `DiffStatus` | read results, markers included, and the status each endpoint gives a pair of outputs |
| `HostArtifacts` | the files of one host, a capture that overwrites them, a report that reads them |
| `ContextWindow` | which rows stay on screen in context mode, and the omission marks (both views) |
| `SideBySide`, `InlineDiff`, `DiffViews` | the two renderings of a diff, and the choice between them |
| `Comparison` | `HostArtifacts` and `DiffViews` for TLC; a behaviour has one of the two |
| `TaskQueries` | the read-only queries on `capture_tasks` |
| `Cutover` | the JSON reports, the checks on them and the decision |
| `SystemProbes` | readiness report and lock listing, read from a running `CaptureSystem` |
| `CutoverPipeline` | `run-v2-preflight.sh` and the CI suite, step by step, over the files they leave |
| `CommandProfiles` | validation and replacement of the command tables at each start |
| `Operations` | `CutoverPipeline` and `CommandProfiles` for TLC; a behaviour has one of the two |
| `CaptureSystemProofs` | any deployment: types, one worker per task, one late session, result and status; the safe deployment: reservation, exclusion, stable terminal rows, no leaked locks |
| `CaptureRefinementProofs` | the safe deployment implements the contract, and the contract gives exclusive hosts |
| `TaskClientsProofs` | the stream and the panel |
| `HostArtifactsProofs` | the files, the captures that write them and the report that reads them |
| `SystemProbesProofs` | what a readiness report and a lock listing say of a running system |
| `CutoverPipelineProofs` | an announced GO rests on its own attempt's readiness report and contract diff |
| `DiffViewsProofs` | no view loses, misnumbers or silently collapses a line |
| `CommandProfilesProofs` | only validated commands are sent, in the order of the present file's list for the model |

**Grain.** One action is one SQLite transaction, or one device session with the writing of
its outputs, together with the log lines around it. Every transaction of the code is
`BEGIN IMMEDIATE` or one statement, so it is atomic; between two transactions every other
actor may move, and so may a crash.

**Data.** A host is its rank in sorted order (tasks process hosts in that order). A lock row
is its age in ticks of the clock, stopped one past the timeout, where every comparison of the
code already has its final value. A task is its rank in `requested_at` order. The code reads
`requested_at` before the transaction, so rows may be inserted out of order: a new row takes any
free rank. A row keeps status, hosts, cancel flag, the hosts its result lists as captured and as
failed, and whether an error was recorded. Mode and base of a task are left out: no step after
the insert depends on them.

**Requests** (`client`). `Submit` and `Retry` are validation; a request answered with 400
or 409 changes nothing. `TryLock`, `Relock` (the second attempt under `skip_locked`),
`InsertTask`, `Launch` (the log line), and `RequestFault` with `Undo` for the `except` clause.

**Workers** (`worker`). `Claim`, `LoadInventory`, `FailMissing`, `Start`, `NextHost` (cancel check),
`CaptureHost` (a session ends, well or with a recorded failure), `CaptureRaises` (any
other exception), `MarkCancelled`, `Finish`, `HandleException`, `Release`. The locations in
`InTry` are those inside the `try` of `run_capture_task`: an exception there is caught
(`CaughtFault`), elsewhere it ends the thread or the standalone process (`EscapingFault`), and one
that is raised by the handler still passes the `finally` clause (`ReleaseAndDie`).

**Processes** (`proc`). `Boot`, `Recover`, `ReleaseRecovered` (one transaction per task),
`StartWorkers`. `Crash` may come at any of these points and at any other. A graceful stop waits
two seconds for the threads and then ends the process wherever they are, so it is a crash too.

**Environment.** Operators (`AdminCleanup`, `AdminList`, `AdminDelete`; one release request at a
time), the inventory file (edited to a member of `Inventories`, never when that is empty), the clock.

**Parameters.** `SkipLocked`, `AdminRelease`, `IoFaults`, `Standalone` choose the deployment.
`MaxTasks`, `MaxCrashes` and the guard `Room` (a request is accepted only while a row is free
for it) bound the behaviours. `Prompt` is an assumption about time, stated as a guard of
`Tick`: a lock in use, by a request, a queued or running task or a recovery, does not
get older than `host_lock_timeout_seconds`. It includes the time a process is down. The code
neither renews locks nor limits how long a task waits or runs, so this is the operator's
obligation, and the run `expiry` shows what happens without it. The code reads `now` just before
it waits for the database's write lock; that wait is part of the tick's granularity.

History in `CaptureSystem`: `lateDone` collects the hosts a task finished after its cancel was requested. It
influences nothing.

**The contract and its mapping.** A ticket of `CaptureContract` is a request or a task. A request holds the
hosts it locked until the row is inserted; a task holds its hosts from then on until they are released, its
status is the row's, its sessions are those of the worker that has it, and the hosts it visited are the result of the row
together with the worker's part of the result that is not written yet. A crash maps to `Interrupt`, the recovery that follows
to `AbortAll` and `GiveBack`; expiry and lock clean-up are stutters, because under `Prompt` they
never touch a lock in use. Log lines and the reading of the inventory are stutters too.

**Log stream** (`TaskStream`). A line is its position. Each `append_task_log` and each `update_task` of the worker is an action of its own, in the
order of the code: the lines of the host loop (`LogCapture`), the terminal update and the line behind it (`Finish`, `LogEnd`), the `except` clause
(`LogFailure`, `MarkFailed`), the line of the `finally` clause (`LogReleased`), and the short path for hosts that are no longer configured. Any of them
may raise (`Raise`), and `RaisedTo` says where that leads: a line that fails behind a terminal update brings the worker to the `except` clause, which writes `failed` over the
row. No update looks at the row, so a worker also overwrites what the start-up recovery of the other process wrote (`Restart`). The generator reads the backlog,
follows the file, and looks at the status only at the end of the file. A connection may be lost after every event. There are two clients. The
page's live console opens a new `EventSource` on an empty view (`StartConsole`); its `onerror` closes it for good (`ConsoleError`), so the page never
resumes by itself. A subscriber sends `Last-Event-ID`, which the endpoint supports and the page does not use (`Connect`).

**Panel** (`CapturePolling`). `setInterval` sends polls whether or not earlier ones were answered. A poll reads
the row when it is answered and acts when the answer arrives; the two are different actions, and both happen
in any order. A task moves through its statuses on its own (`Work`) and keeps its end; that a row may change after it is the subject of `TaskStream`.

**Artifacts** (`HostArtifacts`). Captures of one host come one after the other, which is what
`SameHostExclusion` establishes. All commands are sent before anything is written (`Fetch`), then each file is
opened, which truncates it (`Truncate`), and filled (`Fill`). A report reads the running rows, lists the keys of
both bases, and for each key reads two texts and two timestamps: each is a step. A read of a file that is being
filled returns nothing or a part of it. Of a text that begins with `[UNAVAILABLE: ...]` the status is what the marker says, whatever that is: a file that is there may
read as `not_found`, and one marked `available` is compared like any other. `Colliding` are commands whose names `_sanitize` maps to one file.

**Rendering.** `diff_match_patch` and `difflib` are outside the repository: `InlineDiff` considers every list of
segments and `SideBySide` every list of opcodes that is right for the two texts, so the results do not depend on which of them
the libraries prefer. A row carries both numbers and both texts; style and markup inside a line
are left out.

**Readiness, cutover.** `SystemProbes` puts the two transactions of `build_readiness`, and of
`build_locks_payload`, between the steps of `CaptureSystem`. `CutoverPipeline` draws the
service and the repository anew for each attempt and keeps the files: a file is missing, malformed (`curl` truncates what it
fails to fill) or holds a report of some attempt.

**Profiles.** An editor changes one entry of the file at a time, at any moment; a process reads it only
when it starts. Keys, alias sources and destinations are validated like the lists. Which of two keys that are one model wins depends on their order in the file, so either may.

## 4. Runs

The runs of `CaptureSystem` use two hosts: a shared host and another one are what it takes
for partial overlap of requests, for a partial result, and for a host loop with a next host.

| Run | Instance | Question | Result |
|---|---|---|---|
| `one_process` | 2 worker threads, 2 requests, 2 tasks, `skip_locked`, timeout 1, 1 crash, `Prompt`; symmetric requests and workers | `SameHostExclusion`, `Reservation`, `NoLeakedLocks`, `TerminalStable`: do the ownerless lock rows act as owned ones; `ImplementsContract`: does the pipeline keep the contract | holds |
| `faults_and_operators` | API with 1 worker and 1 standalone worker, 1 task, 1 crash, operators, an edited inventory and failing I/O | `TypeOK`, `OneWorkerPerTask`, `LateCaptureBound`, `ResultMatchesStatus`: what survives recovery of live tasks, faults and operators | holds |
| `progress` | 1 worker, 1 request, 2 tasks, 1 crash, timeout 1, fairness | `EveryTaskEnds`; `HostsComeFree`: even a lock leaked by a crash goes | holds |
| `expiry` | no `Prompt`, no crash | `SameHostExclusion`, as `docs/SPEC.md:48` promises it | violated |
| `second_process` | API and standalone worker, no fault | `RecoverySparesLiveTasks`: only orphans are recovered (`docs/V2_RUNBOOK.md:126`) | violated |
| `launch_fault` | one failing log write | `QueuedHoldLocks`: a queued task's hosts are reserved | violated |
| `readiness` | 1 worker, 1 request, 2 tasks, 1 crash, one report | `GoMeansQuiet`: a GO on the two reads means that nothing was reserved; `OneOwnerListed` | holds |
| `task_clients` | stream: 2 lines of the host loop and up to 3 after them, tail 0 or 1, 2 connections, 1 crash in either process, failing writes; panel: 2 captures, 3 polls in flight | `InSequence`, `StatusIsFinal`, `LateResumeIsWhole`, `ClientIsTold`; `OneTimer`, `PanelIsRight`, `PollingEnds` | holds |
| `comparison` | files: 2 captures of one host, a profile of 1 command and one of 2 that share a file, a text and one that is marked `available`, 1 crash, storage faults; views: outputs of up to 3 lines over 2 texts, diffs of up to 3 segments of 3 characters, context 0 to 2 | `OkHostIsOnFile`, `TornHasCause`, `TimestampNotOlder`, `NotCapturedIsTrue`, `IdenticalIsTrue`; `SidesAreWhole`, `ContextIsKept`, `CollapseIsVisible`, `ChangesBeginOnScreen` | holds |
| `operations` | cutover: 2 attempts, counters 0 or 1, any conditions; profiles: two keys of one model and one that is refused, lists of up to 2 commands of which one is refused, any edits | `GoOnOwnReports`; `FailClosed`, `ReplacedEntirely` | holds |
| `empty_outputs` | 2 captures, empty outputs, no fault | `EqualIsIdentical`, as the docstring of `compute_diff_status` states it | violated |
| `deploy_gate` | 1 attempt | `GoPassedDeployGate`, as `docs/V2_CUTOVER_CHECKLIST.md:22` lists it | violated |

`TaskClients`, `Comparison` and `Operations` put two state machines that share no variable side by side: a behaviour has one of them, so nothing is lost by checking both in one run.

**Why these bounds.** Exclusion is about pairs: two workers, two requests, two tasks on one
host. The inventory is edited in `faults_and_operators` only: with `Inventories = {{1}}` the runs `one_process` and `progress` hold as well, but
take twice as long, and `NoLeakCorrect` and `RefinementCorrect` cover the edits for any inventories. Two tasks let one be leaked, recovered or retried while another takes its
hosts. One crash reaches every point of start-up and every point of a request or a task, and a
lock leaked by it is then met by the second task. Timeout 1 gives locks that are fresh, at the
limit and stale, which is all the comparison distinguishes. Two connections let a client be cut off and resume, or a console be
started again. Five lines are a tail that is cut off, a backlog and what is written behind the end. Two captures of a host are an older and a newer one, in one base or in both; a report
spans at most both. Three lines and three segments give a change at either end, two changes with a gap between them, and
context that overlaps or is cut off; nested opcodes occur in every replaced block. Two attempts are one
that leaves files and one that finds them. Every property is broken by the mutated definition that
`PROJECT.json` pairs it with, under the same configuration, so each bound is large enough to see it fail.

**Fairness.** `FairSpec` of `CaptureSystem`: weak fairness of each request handler's and worker's own steps (threads are
scheduled; a device session ends, because netmiko's `send_command` is given a read timeout), of
start-up (`Restart=always` in the units under `docs/deploy/`), and of the clock. Users, operators,
crashes and edits of the inventory are not assumed to happen. No I/O fault is assumed in the
liveness run: an exception outside the `try` ends a worker thread that nothing restarts, so
`EveryTaskEnds` does not survive it.
`FairSpec` of `TaskClients`: the worker takes its next step unless that raises, the server drives the generator, a process that ended is
restarted, and the browser reports a connection that was lost. Nobody is assumed to connect again: the page closes its `EventSource` on the first
error, and a subscriber owes nothing. So `ClientIsTold` promises that a live console which is connected shows an end or an error, not that it is told the status. For the
panel, timers fire, polls are answered and answers or failures arrive (an HTTP request ends one way or the other). The user is not assumed to click.

**The five disagreements.**
`expiry`: a lock taken at request time is deleted by any later request once it is older than the
timeout, whether its task is queued, running or dead; the second request then reserves the
same host, and two sessions are open.
`second_process`: `recover_orphaned_running_tasks` takes every running row. The API and a
standalone worker are documented to share a database, and whichever starts second fails the
other's task. The worker goes on, overwrites the status when it finishes, and by then its
hosts have been unlocked.
`launch_fault`: `_create_queued_task` releases the hosts when the log line after the committed
insert fails, and the row stays in the queue.
`empty_outputs`: `diff_main` gives no segment for two empty texts. `compute_diff_status` asks for exactly one equal segment and says
`changes detected`, although its docstring promises `identical` where there is no difference; `compute_diff`, for the inline views, says
`identical`. The summary and the detail of one host disagree, and so do the two views of `/diff` and `/compare`.
`deploy_gate`: the checklist lists a deployment report that says `ok` as a gate. `evaluate-v2-cutover.py` skips the gate when the file is missing, and
the CI suite evaluates also when the step that writes it failed, was not reached, or left the report of an earlier attempt: GO is announced with exit code 0.

**What the properties had to exempt.** These are limits of the code, each visible as a condition of a property that
would not hold without it.
- `LateResumeIsWhole` speaks of a client that connects once the log is complete. A client that followed the task may be sent the
  status before the lines written between its last read and the terminal update, and gets the lines written after it only if it connects again.
- `OkHostIsOnFile` promises the output of one of the commands that share a file: the later one overwrites the earlier, although
  the result lists the host as captured.
- `StatusIsFinal` lets a row change after its status was told in two cases: `completed` becomes `failed` when the log line behind the terminal update
  could not be written, and what start-up recovery called `failed` becomes what a worker that is still alive makes of it.
- `ClientIsTold` leaves out a task that is stranded: an exception outside the `try` block has ended its worker, the row stays `running`, and a console
  that follows it waits.
- `IdenticalIsTrue` is about files that were not written again since they were read. Its converse, `EqualIsIdentical`, is the run `empty_outputs`.
- `ChangesBeginOnScreen` is about the line where a change begins: its HTML tag opens there only, so in context mode the
  other lines of a change that spans several are collapsed.
- `GoOnOwnReports` speaks of the deployment report for the preflight only; what the CI suite does with it is the run `deploy_gate`.
- `PanelIsRight` exempts a polling during which a poll failed, was overtaken or answered for an earlier capture.
- `GoMeansQuiet` needs the locks to be read last and no locked host to be allowed.
- `OneOwnerListed` says who may be named for a host, not that the lock listed with it is his: when the named task ends and another one locks the host
  between the two reads, the second lock is listed with the first task.
Two more were met and are in no property. The latest task of a host is found with `LIKE`, where an underscore in a name matches any
character. The answer of `POST /system/locks/release` lists as released what was locked when it looked, which the tasks may
have released themselves before it deletes (`docs/V2_RUNBOOK.md:51` says "actually removed").

Deadlock is checked in every run of `CaptureSystem`; as a cancel request is possible whenever a task exists, and does nothing
to an ended one, it says little: progress is what the liveness run is for. It is not checked where the modelled program stops: a page
that has been rendered, a cutover whose attempts are used up, a browser page after its last answer.

## 5. Proofs

Checked by TLAPS, for any sets of hosts, clients, workers, processes and commands, any number of tasks, captures,
attempts and crashes, texts of any length, any timeout and any limits, under the named assumptions of the modules and
what each statement assumes. Every inductive invariant below was first checked by TLC, as an invariant of the run of its
module.

**Any deployment** (`CaptureSystemProofs`): several processes on one database, crashes, faults, operators, edited inventories.

- `TypeCorrect`: types.
- `OneWorkerCorrect`: a task is in the hands of one worker at most. The property is not
  inductive: two workers could be given one task if a row went back to the queue. `OneWorkerInv`
  adds that the row of a worker's task has left the queue, and needs that no step re-queues
  a row (`RowsPersistStep`) and that only `Claim` hands a task over (`OnlyClaimHandsOver`).
- `LateCaptureCorrect`: a cancel is answered late by one session at most. `LateInv` adds that a task with a late host
  has its cancel recorded and no session open; a session opens only in `NextHost`, which reads the flag (`SessionsOpen`), and no step
  takes a cancel back (`RowsPersist`).
- `ResultCorrect`: `result_json` agrees with the status. Every row is overwritten unconditionally, and a second process fails rows
  that a worker is still running, so the argument cannot use the status. `TallyInv` is about the worker: what it captured, what
  failed and what is left make up the hosts of its row, which no step changes (`RowStays`), so whatever it writes whenever it writes fits. It also
  needs that no task is without hosts (`TargetsStep`, `RowHostsStep`): otherwise "captured none" and "failed none" would be the same.

**The safe deployment** (`SafeRegime`: one process, `Prompt` or no timeout, no forced release, no failing I/O; crashes, restarts,
cancels, retries and inventory edits are allowed). Each of the four conditions is needed: `expiry`, `second_process`
and `launch_fault` drop one of them each, and a forced release ends a reservation by design.

- `ReservationCorrect`, `HostsStayReserved`, `ExclusionCorrect`, `TerminalCorrect`: the lock rows act as owned ones, no host is captured by
  two workers, no ended row is written again (`CaptureSystemProofs`).
- `NoLeakCorrect`: without a crash every lock has an owner that will release it. Locks are added by `Acquire` only, to the request's
  reservation (`LocksAdded`), and whoever stops holding a task or a reservation is in the step that passes it on
  or deletes its locks (`HoldersKept`, `ReservingKept`).
- `RefinementCorrect`: every behaviour implements `CaptureContract` under the mapping of `CaptureRefinement`. `RefinementInv` puts the invariants above
  together and adds `ResultPlace`: the result of a task is with its worker until the task ends and in its row from then on, so what
  the contract says was visited is never lost or counted twice. Each step is matched with a step of the contract or none:
  `WorkerSteps`, `RequestSteps`, `CancelSteps`, `ProcessSteps`; `SameView` and `WorkerView` say which tickets a step can touch.
  It assumes that no request handler is a number (`TicketsAssumption`), which only keeps the two kinds of tickets apart.
- `PromiseKept`: `ContractExclusive`, proved of the contract's own behaviours (`Exclusive` needs types beside it and nothing else), is carried
  over to the pipeline.
- `GoIsQuiet`, `OwnersCorrect` (`SystemProbesProofs`): the reports only read (`ProbesAreReaders`), so the theorems above hold under them.
  `NoLockMeansQuiet` says of a report that is complete that it saw no lock only if nothing was reserved then: as a reservation is
  in the lock table (`Reservation`), an empty table is quiet (`EmptyTableIsQuiet`). With `MaxLocked = 0`, that is what a GO needs,
  whatever the other limits are. The owners of a host are running rows, which have no host in common
  (`OneRunningTask`), and a listed row stays begun. `Hosts` is assumed to be finite, so that there is a number of locked hosts.

*The argument for the reservation.* The lock rows have no owner, so the invariant names one: a request
between lock and insert, a queued or running row, the task a worker still holds after its terminal
update, and a recovered task that is not unlocked yet (`HolderTasks`, `Reserving`).
`Reservation` says that what they count as theirs is locked by rows that are not stale and that no two
count the same host. Only three kinds of step matter. Taking a lock adds a reservation on hosts that were
not locked, hence in nobody's reservation (`ReservationAcquire`). Inserting a task passes the
request's reservation on (`ReservationInsert`). Every other step gives nobody a reservation (`ShrinksStep`),
and whoever unlocks hosts gives up the reservation of exactly those
(`ReservationOtherStep`). For the last, one must know that a releasing worker's row is terminal and that a recovered row is
failed, so that the holder really leaves: that is `WorkerRows`, and `QuietWhenDown`, which says that while the
process recovers no worker is left to write the rows it has just failed. Exclusion follows,
because two workers have different tasks and a worker's host is one of its task's. Terminal rows are
stable because a worker only writes its own row and that row is still running.

**The clients** (`TaskClientsProofs`).

- `InSequenceCorrect`, `StatusFinalCorrect`, `LateResumeCorrect`. `StreamInv`: the client holds a run of consecutive lines of the file
  (`ReceivedIsARun`); the generator goes on where the client is and counts the position right, through backlog and following
  (`GeneratorContinues`); and of a log that was complete when the connection was opened it has sent, or will still send, the end (`SettledIsSent`).
  `StatusIsFinal` compares what was told with the row, both of which may have been overtaken, so it is not inductive. `EndsAreKept` adds where the worker is
  when either of them is an end: one it wrote itself lies behind it, and the only way from there to another update is the `except` clause, which leaves `raised` behind
  (`EndsAreKeptByWriters`); one it did not write is recovery's, which leaves `recovered` behind if the worker was alive (`ProcessesStep`).
- `OneTimerCorrect`, `PanelCorrect`. `PageInv`: a poll is of an accepted task and what it read of an end is the row's (`PollsAreOfTasks`); in a
  polling that nothing disturbed no answer behind an end is anything but an end (`AnswersInOrder`), and no timer is left because an
  answer showed the end (`StoppedByAnEnd`).

**The files** (`HostArtifactsProofs`): `OkHostCorrect`, `TornCorrect`, `TimestampCorrect`, `NotCapturedCorrect`, `IdenticalCorrect`.
`ArtifactInv` is about two actors. `CaptureInv`: the running capture is the latest (`RunIsLatest`), a file is from some turn of a capture and is torn only while or because that capture did
not finish (`FilesHaveCause`), and the commands a capture has opened are on file, no older (`WrittenIsThere`). `ReportInv`: what was read is no newer than the file
and its time, and is what is on file until that is written again (`ReadIsOfFile`), and a capture that started before the report and
is open was seen running (`RunningIsSeen`). What joins them is that a step only adds to the files and to the history (`FilesGrow`,
`HistoryKept`), so each half need not know what the other does (`ReportKept`). Time is ordered by capture, then by turn, then by completeness
(`MtimeGrows`), which needs the number of commands: `Commands` is assumed to be finite, as every profile is. `IdenticalCorrect` joins the two halves: a file that was not touched since
it was read is the text that was read (`ReadIsOfFile`), and every endpoint that says identical compared the two texts as they are: no other branch is counted
as identical, whatever a marker names (`IdenticalTexts`), and texts that differ have a segment that is not equal (`DifferentIsNotIdentical`).

**The cutover** (`CutoverPipelineProofs`): `GoCorrect`. `PipelineInv` follows the two orders of steps at once. `Place` numbers the steps, and `OwnFiles` says that while every
step succeeded, the files of the steps that lie behind (the CI suite's deployment report apart) are of this attempt and say what held; `DeployIsDated` speaks of the one report that
may be left over. Leaving a step with success puts exactly that step behind (`PassedStep`), and no file is written after the decision (`StepOrder`).

**The rendering** (`DiffViewsProofs`): `TablesAreWhole`, `ContextStays`, `CollapseIsMarked`, `ChangesAreSeen`, for all texts, all opcodes and segments
the libraries may give, and every context.

- *The table.* `SidesAreWhole` alone is not inductive: it says nothing of the counters that will number the next rows, nor of how far a nested
  matcher may go. `TableInv` adds that the two counters kept by hand are one ahead of what the opcodes cover, that a nested matcher stays within its block,
  and that every row has a number. `BlockAdded` is the step of all opcodes: a block whose rows carry the next lines of each side extends a table that
  carries the lines before them (`CarriesMore`); `EqualKeeps`, `DeleteKeeps`, `InsertKeeps` and `ReplaceKeeps` show that the rows of each opcode do.
- *The page.* `ContextPage` is about any rows that are all different, so both views use it: what `ApplyContext` puts on screen is in order, holds exactly what is near enough to
  a change, and has a mark exactly where a row is missing (`KeptRowsInOrder`, `GapsForm`). Rows of the table differ because each
  has a number of its own (`RowsDiffer`), lines of the inline view because they carry theirs. `TableShown` ties the page to the table it was made of.
- *The inline text.* A change begins on the line its opening tag is on: the breaks before the tag in the HTML are the breaks in the earlier segments
  (`BreaksCounted`), because a tag is not a break and `diff_prettyHtml` keeps the breaks of a segment (`HtmlBreaks`). So the tagged line is the one the user
  looks for (`ChangeBegins`), and `ContextPage` keeps it.

`Omitted` is assumed to be no row and no line, and the bounds to be numbers (`SideBySideAssumption`, `InlineDiffAssumption`).

**The profiles** (`CommandProfilesProofs`): `OnlyValidated`, `OneSource`. `Deduped` says what `DedupeKeepOrder` keeps of a list of any length: its commands, each once, where
the list first has it (`InOrderOf`). `Inv` is about the file and the process apart: the file's lists are lists (`FileInv`), and the lists of a process that is up are `Sendable` (`ActiveInv`), whatever
was done to the file since it read them. `OneSource` is about the step in which a process comes up: every list it takes is one that the present file has for that model
(`ParsedSendable`), its aliases are the file's, and a model without a list gets the default. It assumes that `MaxCommands` is a number; keys and commands are any sets, the model names those of the module.

*Induction over data.* The library's induction theorems cannot be instantiated here, so the induction is stated over sets of
numbers (`SetInduction`: a set that has 0 and every successor has all numbers), from the well-foundedness of `<`. With it, the function inside `FlattenSeq` and the
one inside `FoldLeft` are shown to exist and their values to follow step by step (`FlattenExists`, `FoldExists`).

*Only model-checked:*
- `EveryTaskEnds`, `HostsComeFree`, `ClientIsTold`, `PollingEnds`: liveness, which is outside this prover's reach, as `ENABLED` is.
- The properties expected to be violated: `SameHostExclusion` outside the safe deployment, `RecoverySparesLiveTasks`, `QueuedHoldLocks`, `EqualIsIdentical`,
  `GoPassedDeployGate`. A counterexample is a single behaviour, and TLC shows it.

## 6. Not modelled

- Authentication and configuration: a stateless check before each handler, and constants read once.
- Certificates, `nginx`, container files and start scripts: no behaviour of their own beyond restarting a process.
- HTML, CSS, templates, highlighting inside a line, and the panels of the page that fetch once and render.
- The log endpoint, its filters, log redaction and formatting; sorting and filtering of the host summary and the layout of exports.
- `get_latest_task_for_host`, worker status, health and the task list and detail: one read of one snapshot each.
- What is inside an API contract: `diff-v2-contract.py` compares two dictionaries, and the model has the outcome as a flag.
- Which lines of `hosts.csv` are well-formed (the model starts from the set of accepted hosts), and YAML syntax.
- Two hosts whose names `_sanitize` makes one: `HostArtifacts` has one host, whose commands may share files.
- The mode and base of a task in `CaptureSystem`; `HostArtifacts` has the base.
