---------------------------- MODULE CaptureSystem ----------------------------
(***************************************************************************)
(* The capture pipeline of NW-Diff v2: HTTP request threads that reserve    *)
(* hosts and queue tasks, worker loops (threads of the API process, or      *)
(* standalone worker processes) that claim and run them, process crash,     *)
(* start-up recovery, and the operator's lock endpoints, all meeting in     *)
(* the two tables of one SQLite database.                                   *)
(* One action is one transaction, or one device session, together with the  *)
(* task-log lines written around it.                                        *)
(***************************************************************************)
EXTENDS HostLocks, TaskTable

CONSTANTS
    Api,            \* the API process
    ApiWorkers,     \* its embedded worker threads (task_worker_threads)
    Standalone,     \* standalone worker processes, each its own single loop
    Clients,        \* concurrent POST /captures and POST /retry handlers
    SkipLocked,     \* batch_conflict_policy = "skip_locked"
    AdminRelease,   \* operators use the lock cleanup and release endpoints
    IoFaults,       \* SQLite, task-log and hosts.csv accesses may raise
    Prompt,         \* timing assumption: no reservation in use outlives LockTimeout
    MaxCrashes,     \* bound on process crashes
    Inventories     \* the contents hosts.csv may be edited to

ASSUME DeploymentAssumption ==
    /\ Api \notin ApiWorkers \cup Standalone
    /\ ApiWorkers \cap Standalone = {}
    /\ {SkipLocked, AdminRelease, IoFaults, Prompt} \subseteq BOOLEAN
    /\ MaxCrashes \in Nat
    /\ Inventories \subseteq SUBSET Hosts

Workers == ApiWorkers \cup Standalone
Procs   == {Api} \cup Standalone

\* A standalone worker is a process of its own.
ProcOf(w) == IF w \in ApiWorkers THEN Api ELSE w

VARIABLES
    hostLocks,   \* table host_locks
    tasks,       \* table capture_tasks
    inventory,   \* hosts.csv
    proc,        \* where each process is in its start-up
    recovered,   \* tasks a starting process has failed and not yet unlocked
    worker,      \* local state of each worker loop
    client,      \* local state of each request handler
    admin,       \* hosts a lock-release request listed and is about to delete
    crashes,     \* crashes so far
    lateDone     \* history: hosts a task finished after its cancel was requested

vars == <<hostLocks, tasks, inventory, proc, recovered, worker, client, admin,
          crashes, lateDone>>

procVars == <<inventory, proc, recovered, crashes>>

-----------------------------------------------------------------------------
NoTask == 0
NoHost == 0

ProcStates == {"down", "cleaned", "releasing", "up"}

\* A worker in one of these is inside the try block of run_capture_task.
InTry     == {"loop", "capture", "cancelling"}
WorkerPcs == InTry \cup {"dead", "poll", "claimed", "missing", "start",
                         "except", "release", "unwind"}

WorkerStates == [pc: WorkerPcs, task: TaskIds \cup {NoTask}, todo: SUBSET Hosts,
                 host: Hosts \cup {NoHost}, ok: SUBSET Hosts, bad: SUBSET Hosts]

IdleWorker == [pc |-> "poll", task |-> NoTask, todo |-> {}, host |-> NoHost,
               ok |-> {}, bad |-> {}]
DeadWorker == [IdleWorker EXCEPT !.pc = "dead"]

ClientStates == [pc: {"idle", "lock", "relock", "create", "launch", "undo"},
                 mode: Modes, target: SUBSET Hosts]
IdleClient == [pc |-> "idle", mode |-> "single", target |-> {}]

Init ==
    /\ hostLocks = NoLocks
    /\ tasks = [t \in TaskIds |-> NoRow]
    /\ inventory = Hosts
    /\ proc = [p \in Procs |-> "down"]
    /\ recovered = [p \in Procs |-> {}]
    /\ worker = [w \in Workers |-> DeadWorker]
    /\ client = [c \in Clients |-> IdleClient]
    /\ admin = {}
    /\ crashes = 0
    /\ lateDone = [t \in TaskIds |-> {}]

ApiUp == proc[Api] = "up"

\* The tasks whose hosts are reserved: queued or running rows, the tasks in the
\* hands of a worker, and those a starting process still has to unlock.
HolderTasks ==
    TasksWith(tasks, Active)
        \cup {t \in TaskIds : \E w \in Workers : worker[w].task = t}
        \cup (UNION {recovered[p] : p \in Procs})

\* A request that holds locks and has not inserted its task yet.
Reserving(c) == client[c].pc = "create"

ReservedHosts ==
    (UNION {tasks[t].hosts : t \in HolderTasks})
        \cup (UNION {client[c].target : c \in {d \in Clients : Reserving(d)}})

\* Bound: a request is accepted only while the table has room for its task.
Room ==
    Cardinality({c \in Clients : client[c].pc \in {"lock", "relock", "create"}})
        < Cardinality(TasksWith(tasks, {"absent"}))
-----------------------------------------------------------------------------
(* Capture requests: queue_capture_request and queue_retry_request.         *)

SetClient(c, pc) == client' = [client EXCEPT ![c].pc = pc]
EndRequest(c)    == client' = [client EXCEPT ![c] = IdleClient]

\* Load the inventory and validate; a request answered with 400 changes nothing.
Submit(c, mode, requested) ==
    /\ ApiUp
    /\ Room
    /\ client[c].pc = "idle"
    /\ ValidRequest(mode, requested, inventory)
    /\ client' = [client EXCEPT ![c] =
           [pc |-> "lock", mode |-> mode,
            target |-> TargetHosts(mode, requested, inventory)]]
    /\ UNCHANGED <<hostLocks, tasks, worker, admin, lateDone, procVars>>

\* Retry of a task that is no longer queued or running.
Retry(c, t) ==
    /\ ApiUp
    /\ Room
    /\ client[c].pc = "idle"
    /\ tasks[t].status \in Terminal
    /\ tasks[t].hosts \subseteq inventory
    /\ client' = [client EXCEPT ![c] =
           [pc |-> "lock", mode |-> "retry", target |-> tasks[t].hosts]]
    /\ UNCHANGED <<hostLocks, tasks, worker, admin, lateDone, procVars>>

Acquire(c) ==
    /\ Conflicts(hostLocks, client[c].target) = {}
    /\ hostLocks' = LockHosts(hostLocks, client[c].target)
    /\ SetClient(c, "create")

\* First attempt; a batch under skip_locked goes on with the free hosts.
TryLock(c) ==
    LET conflicts == Conflicts(hostLocks, client[c].target)
        rest      == client[c].target \ conflicts
        skip      == client[c].mode = "batch" /\ SkipLocked /\ rest # {}
    IN
    /\ client[c].pc = "lock"
    /\ \/ Acquire(c)
       \/ /\ conflicts # {} /\ skip
          /\ client' = [client EXCEPT ![c].pc = "relock", ![c].target = rest]
          /\ UNCHANGED hostLocks
       \/ /\ conflicts # {} /\ ~skip
          /\ EndRequest(c)
          /\ UNCHANGED hostLocks
    /\ UNCHANGED <<tasks, worker, admin, lateDone, procVars>>

\* Mutant of Relock: the result of the second try_lock_hosts is ignored.
RelockUnchecked(c) ==
    /\ client[c].pc = "relock"
    /\ hostLocks' = LockHosts(hostLocks, client[c].target)
    /\ SetClient(c, "create")
    /\ UNCHANGED <<tasks, worker, admin, lateDone, procVars>>

\* Second and last attempt, all or nothing.
Relock(c) ==
    /\ client[c].pc = "relock"
    /\ \/ Acquire(c)
       \/ /\ Conflicts(hostLocks, client[c].target) # {}
          /\ EndRequest(c)
          /\ UNCHANGED hostLocks
    /\ UNCHANGED <<tasks, worker, admin, lateDone, procVars>>

InsertTask(c) ==
    /\ client[c].pc = "create"
    /\ \E t \in TaskIds :
          /\ tasks[t].status = "absent"
          /\ tasks' = CreateTask(tasks, t, client[c].target)
    /\ SetClient(c, "launch")
    /\ UNCHANGED <<hostLocks, worker, admin, lateDone, procVars>>

\* launch_capture_task only writes a log line; then the request is answered.
Launch(c) ==
    /\ client[c].pc = "launch"
    /\ EndRequest(c)
    /\ UNCHANGED <<hostLocks, tasks, worker, admin, lateDone, procVars>>

\* try_lock_hosts raises, or create_task or the log write of launch_capture_task.
RequestFault(c) ==
    /\ IoFaults
    /\ \/ client[c].pc \in {"lock", "relock"} /\ EndRequest(c)
       \/ client[c].pc \in {"create", "launch"} /\ SetClient(c, "undo")
    /\ UNCHANGED <<hostLocks, tasks, worker, admin, lateDone, procVars>>

\* The except clause of _create_queued_task; its own DELETE may raise too.
Undo(c) ==
    /\ client[c].pc = "undo"
    /\ \/ hostLocks' = ReleaseHosts(hostLocks, client[c].target)
       \/ UNCHANGED hostLocks
    /\ EndRequest(c)
    /\ UNCHANGED <<tasks, worker, admin, lateDone, procVars>>

\* POST /tasks/{id}/cancel: one UPDATE, no other state.
Cancel(t) ==
    /\ ApiUp
    /\ tasks[t].status # "absent"
    /\ tasks' = RequestCancel(tasks, t)
    /\ UNCHANGED <<hostLocks, worker, client, admin, lateDone, procVars>>
-----------------------------------------------------------------------------
(* Workers: process_one_queued_task and run_capture_task.                   *)

SetWorker(w, pc) == worker' = [worker EXCEPT ![w].pc = pc]
Row(w) == tasks[worker[w].task]

\* Mutant of Claim: the row is read but left queued until the task starts.
ClaimWithoutUpdate(w) ==
    /\ worker[w].pc = "poll"
    /\ \E t \in TaskIds :
          /\ IsOldestQueued(tasks, t)
          /\ worker' = [worker EXCEPT ![w] =
                 [IdleWorker EXCEPT !.pc = "claimed", !.task = t]]
    /\ UNCHANGED <<hostLocks, tasks, client, admin, lateDone, procVars>>

\* The oldest queued row is read and set to running in one transaction.
Claim(w) ==
    /\ worker[w].pc = "poll"
    /\ \E t \in TaskIds :
          /\ IsOldestQueued(tasks, t)
          /\ tasks' = SetStatus(tasks, t, "running")
          /\ worker' = [worker EXCEPT ![w] =
                 [IdleWorker EXCEPT !.pc = "claimed", !.task = t]]
    /\ UNCHANGED <<hostLocks, client, admin, lateDone, procVars>>

\* The inventory is read again: a host may be gone since the request.
LoadInventory(w) ==
    /\ worker[w].pc = "claimed"
    /\ SetWorker(w, IF Row(w).hosts \subseteq inventory THEN "start" ELSE "missing")
    /\ UNCHANGED <<hostLocks, tasks, client, admin, lateDone, procVars>>

FailMissing(w) ==
    /\ worker[w].pc = "missing"
    /\ tasks' = FailWithError(tasks, worker[w].task)
    /\ SetWorker(w, "release")
    /\ UNCHANGED <<hostLocks, client, admin, lateDone, procVars>>

\* The status is set to running a second time, unconditionally.
Start(w) ==
    /\ worker[w].pc = "start"
    /\ tasks' = SetStatus(tasks, worker[w].task, "running")
    /\ worker' = [worker EXCEPT ![w].pc = "loop", ![w].todo = Row(w).hosts]
    /\ UNCHANGED <<hostLocks, client, admin, lateDone, procVars>>

\* Mutant of NextHost: the cancel flag is read before the first host only.
NextHostCheckingOnce(w) ==
    /\ worker[w].pc = "loop"
    /\ \E h \in worker[w].todo :
          /\ \A g \in worker[w].todo : h <= g
          /\ worker' = [worker EXCEPT
                 ![w].pc = IF Row(w).cancel /\ worker[w].todo = Row(w).hosts
                           THEN "cancelling" ELSE "capture",
                 ![w].host = h]
    /\ UNCHANGED <<hostLocks, tasks, client, admin, lateDone, procVars>>

\* Top of the host loop: the cancel flag is read before each device session.
NextHost(w) ==
    /\ worker[w].pc = "loop"
    /\ \E h \in worker[w].todo :
          /\ \A g \in worker[w].todo : h <= g
          /\ worker' = [worker EXCEPT
                 ![w].pc = IF Row(w).cancel THEN "cancelling" ELSE "capture",
                 ![w].host = h]
    /\ UNCHANGED <<hostLocks, tasks, client, admin, lateDone, procVars>>

MarkCancelled(w) ==
    /\ worker[w].pc = "cancelling"
    /\ tasks' = Conclude(tasks, worker[w].task, "cancelled", worker[w].ok, worker[w].bad)
    /\ SetWorker(w, "release")
    /\ UNCHANGED <<hostLocks, client, admin, lateDone, procVars>>

\* The device session and the writing of its outputs end; DeviceCaptureError and
\* ArtifactStorageError fail the host, not the task.
CaptureHost(w) ==
    LET h == worker[w].host IN
    /\ worker[w].pc = "capture"
    /\ \E good \in BOOLEAN :
          worker' = [worker EXCEPT
              ![w].pc = "loop",
              ![w].todo = @ \ {h},
              ![w].host = NoHost,
              ![w].ok  = IF good THEN @ \cup {h} ELSE @,
              ![w].bad = IF good THEN @ ELSE @ \cup {h}]
    /\ lateDone' = [lateDone EXCEPT ![worker[w].task] =
                       IF Row(w).cancel THEN @ \cup {h} ELSE @]
    /\ UNCHANGED <<hostLocks, tasks, client, admin, procVars>>

\* Any other exception of the session or of the writing fails the whole task; so
\* does one raised by the log line that follows the recording of the host.
CaptureRaises(w) ==
    /\ worker[w].pc = "capture"
    /\ \/ SetWorker(w, "except")
       \/ /\ IoFaults
          /\ worker' = [worker EXCEPT ![w].pc = "except", ![w].ok = @ \cup {worker[w].host}]
    /\ UNCHANGED <<hostLocks, tasks, client, admin, lateDone, procVars>>

\* Mutant of FinalStatus: one failed host fails the task.
FinalStatusStrict(ok, bad) == IF bad # {} THEN "failed" ELSE "completed"

\* Mutant of FinalStatus: a status CaptureTaskStatus does not have.
FinalStatusPartial(ok, bad) ==
    IF bad = {} THEN "completed" ELSE IF ok = {} THEN "failed" ELSE "partial"

FinalStatus(ok, bad) == IF bad # {} /\ ok = {} THEN "failed" ELSE "completed"

\* The log line after the update is still inside the try block.
Finish(w) ==
    /\ worker[w].pc = "loop"
    /\ worker[w].todo = {}
    /\ tasks' = Conclude(tasks, worker[w].task,
                         FinalStatus(worker[w].ok, worker[w].bad),
                         worker[w].ok, worker[w].bad)
    /\ \/ SetWorker(w, "release")
       \/ IoFaults /\ SetWorker(w, "except")
    /\ UNCHANGED <<hostLocks, client, admin, lateDone, procVars>>

\* except Exception: record the error with the partial result.
HandleException(w) ==
    /\ worker[w].pc = "except"
    /\ tasks' = ConcludeWithError(tasks, worker[w].task, worker[w].ok, worker[w].bad)
    /\ SetWorker(w, "release")
    /\ UNCHANGED <<hostLocks, client, admin, lateDone, procVars>>

\* Mutant of Release: only the hosts that were reached are released.
ReleaseReached(w) ==
    /\ worker[w].pc = "release"
    /\ hostLocks' = ReleaseHosts(hostLocks, worker[w].ok \cup worker[w].bad)
    /\ worker' = [worker EXCEPT ![w] = IdleWorker]
    /\ UNCHANGED <<tasks, client, admin, lateDone, procVars>>

\* release_hosts by host name, then back to polling.
Release(w) ==
    /\ worker[w].pc = "release"
    /\ hostLocks' = ReleaseHosts(hostLocks, Row(w).hosts)
    /\ worker' = [worker EXCEPT ![w] = IdleWorker]
    /\ UNCHANGED <<tasks, client, admin, lateDone, procVars>>
-----------------------------------------------------------------------------
(* Processes: crash, start-up recovery, and what an escaping exception does. *)

\* Everything process p kept in memory is gone; the tables stay.
LoseProcess(p) ==
    /\ proc' = [proc EXCEPT ![p] = "down"]
    /\ recovered' = [recovered EXCEPT ![p] = {}]
    /\ worker' = [w \in Workers |-> IF ProcOf(w) = p THEN DeadWorker ELSE worker[w]]
    /\ IF p = Api
       THEN client' = [c \in Clients |-> IdleClient] /\ admin' = {}
       ELSE UNCHANGED <<client, admin>>

Crash(p) ==
    /\ crashes < MaxCrashes
    /\ proc[p] # "down"
    /\ crashes' = crashes + 1
    /\ LoseProcess(p)
    /\ UNCHANGED <<hostLocks, tasks, inventory, lateDone>>

\* An exception leaves process_one_queued_task: a thread of the API process ends
\* and nothing starts it again, a standalone worker process exits.
Die(w) ==
    IF w \in ApiWorkers
    THEN /\ worker' = [worker EXCEPT ![w] = DeadWorker]
         /\ UNCHANGED <<proc, recovered, client, admin>>
    ELSE LoseProcess(w)

\* An access outside the try block raises.
EscapingFault(w) ==
    /\ IoFaults
    /\ worker[w].pc \in {"poll", "claimed", "missing", "start", "release", "unwind"}
    /\ Die(w)
    /\ UNCHANGED <<hostLocks, tasks, inventory, crashes, lateDone>>

\* An access inside the try block raises; so may those of the handler, and then
\* the exception unwinds through the finally clause.
CaughtFault(w) ==
    /\ IoFaults
    /\ \/ worker[w].pc \in InTry \ {"capture"} /\ SetWorker(w, "except")
       \/ worker[w].pc = "except" /\ SetWorker(w, "unwind")
    /\ UNCHANGED <<hostLocks, tasks, client, admin, lateDone, procVars>>

\* The locks are released while an exception is on its way out, or the log line
\* after the release raises.
ReleaseAndDie(w) ==
    /\ IoFaults
    /\ worker[w].pc \in {"release", "unwind"}
    /\ hostLocks' = ReleaseHosts(hostLocks, Row(w).hosts)
    /\ Die(w)
    /\ UNCHANGED <<tasks, inventory, crashes, lateDone>>

\* Start-up, before any worker or request of the process runs.
Boot(p) ==
    /\ proc[p] = "down"
    /\ hostLocks' = CleanupStale(hostLocks)
    /\ proc' = [proc EXCEPT ![p] = "cleaned"]
    /\ UNCHANGED <<tasks, inventory, recovered, worker, client, admin, crashes, lateDone>>

Recover(p) ==
    /\ proc[p] = "cleaned"
    /\ recovered' = [recovered EXCEPT ![p] = TasksWith(tasks, {"running"})]
    /\ tasks' = RecoverRunning(tasks)
    /\ proc' = [proc EXCEPT ![p] = "releasing"]
    /\ UNCHANGED <<hostLocks, inventory, worker, client, admin, crashes, lateDone>>

ReleaseRecovered(p, t) ==
    /\ t \in recovered[p]
    /\ hostLocks' = ReleaseHosts(hostLocks, tasks[t].hosts)
    /\ recovered' = [recovered EXCEPT ![p] = @ \ {t}]
    /\ UNCHANGED <<tasks, inventory, proc, worker, client, admin, crashes, lateDone>>

StartWorkers(p) ==
    /\ proc[p] = "releasing"
    /\ recovered[p] = {}
    /\ proc' = [proc EXCEPT ![p] = "up"]
    /\ worker' = [w \in Workers |-> IF ProcOf(w) = p THEN IdleWorker ELSE worker[w]]
    /\ UNCHANGED <<hostLocks, tasks, inventory, recovered, client, admin, crashes, lateDone>>
-----------------------------------------------------------------------------
(* The environment: operators, the inventory file, the clock.               *)

\* POST /system/locks/cleanup
AdminCleanup ==
    /\ AdminRelease /\ ApiUp
    /\ hostLocks' = CleanupStale(hostLocks)
    /\ UNCHANGED <<tasks, worker, client, admin, lateDone, procVars>>

\* POST /system/locks/release lists the rows first ...
AdminList(hosts) ==
    /\ AdminRelease /\ ApiUp
    /\ admin = {}
    /\ admin' = hosts \cap LockedHosts(hostLocks)
    /\ UNCHANGED <<hostLocks, tasks, worker, client, lateDone, procVars>>

\* ... and deletes those it saw in a second transaction.
AdminDelete ==
    /\ admin # {}
    /\ hostLocks' = ReleaseHosts(hostLocks, admin)
    /\ admin' = {}
    /\ UNCHANGED <<tasks, worker, client, lateDone, procVars>>

EditInventory ==
    /\ inventory' \in Inventories
    /\ UNCHANGED <<hostLocks, tasks, proc, recovered, worker, client, admin, crashes, lateDone>>

Tick ==
    /\ LockTimeout > 0
    /\ Prompt => ReservedHosts \cap StaleHosts(AgeLocks(hostLocks)) = {}
    /\ hostLocks' = AgeLocks(hostLocks)
    /\ UNCHANGED <<tasks, worker, client, admin, lateDone, procVars>>
-----------------------------------------------------------------------------
RequestStep(c) ==
    TryLock(c) \/ Relock(c) \/ InsertTask(c) \/ Launch(c) \/ Undo(c)

WorkerStep(w) ==
    \/ Claim(w) \/ LoadInventory(w) \/ FailMissing(w) \/ Start(w) \/ NextHost(w)
    \/ MarkCancelled(w) \/ CaptureHost(w) \/ CaptureRaises(w) \/ Finish(w)
    \/ HandleException(w) \/ Release(w)

FaultStep(w) == EscapingFault(w) \/ CaughtFault(w) \/ ReleaseAndDie(w)

StartStep(p) ==
    \/ Boot(p) \/ Recover(p) \/ StartWorkers(p)
    \/ \E t \in TaskIds : ReleaseRecovered(p, t)

Next ==
    \/ \E c \in Clients :
          \/ RequestStep(c) \/ RequestFault(c)
          \/ \E mode \in {"single", "batch"}, requested \in SUBSET Hosts :
                Submit(c, mode, requested)
          \/ \E t \in TaskIds : Retry(c, t)
    \/ \E t \in TaskIds : Cancel(t)
    \/ \E w \in Workers : WorkerStep(w) \/ FaultStep(w)
    \/ \E p \in Procs : StartStep(p) \/ Crash(p)
    \/ AdminCleanup \/ AdminDelete \/ \E hosts \in SUBSET Hosts : AdminList(hosts)
    \/ EditInventory
    \/ Tick

Spec == Init /\ [][Next]_vars

\* Threads are scheduled, device sessions end (read_timeout), a process is
\* restarted (Restart=always) and time passes; users, operators and crashes owe
\* nothing.
FairSpec ==
    /\ Spec
    /\ \A c \in Clients : WF_vars(RequestStep(c))
    /\ \A w \in Workers : WF_vars(WorkerStep(w))
    /\ \A p \in Procs : WF_vars(StartStep(p))
    /\ WF_vars(Tick)
-----------------------------------------------------------------------------
(* Safety.                                                                  *)

\* Every variable keeps its type; a worker has a task unless it is idle, and a
\* host while it has a session.
TypeOK ==
    /\ hostLocks \in LockTables
    /\ tasks \in [TaskIds -> Rows]
    /\ inventory \in SUBSET Hosts
    /\ proc \in [Procs -> ProcStates]
    /\ recovered \in [Procs -> SUBSET TaskIds]
    /\ worker \in [Workers -> WorkerStates]
    /\ \A w \in Workers :
          /\ worker[w].task = NoTask <=> worker[w].pc \in {"dead", "poll"}
          /\ worker[w].pc = "capture" => worker[w].host \in Hosts
    /\ client \in [Clients -> ClientStates]
    /\ admin \in SUBSET Hosts
    /\ crashes \in 0 .. MaxCrashes
    /\ lateDone \in [TaskIds -> SUBSET Hosts]

\* Host-level locking: no two workers have a session to the same host open
\* (try_lock_hosts is the only thing that keeps run_capture_task apart).
SameHostExclusion ==
    \A v, w \in Workers :
        v # w /\ worker[v].pc = "capture" /\ worker[w].pc = "capture"
            => worker[v].host # worker[w].host

\* Whatever a request or a task counts as its own is locked, the lock has not
\* expired, and no two of them count the same host: from the lock of
\* queue_capture_request to the release of run_capture_task or of start-up
\* recovery, the ownerless rows of host_locks have one owner each.
Reservation ==
    /\ ReservedHosts \subseteq LockedHosts(CleanupStale(hostLocks))
    /\ \A t, u \in HolderTasks : t # u => tasks[t].hosts \cap tasks[u].hosts = {}
    /\ \A c \in Clients : Reserving(c) =>
           /\ \A t \in HolderTasks : client[c].target \cap tasks[t].hosts = {}
           /\ \A d \in Clients : Reserving(d) /\ c # d =>
                  client[c].target \cap client[d].target = {}

\* Without a crash no lock is left behind: every locked host belongs to a
\* request, a live task or a worker that will release it.
NoLeakedLocks == crashes = 0 => LockedHosts(hostLocks) \subseteq ReservedHosts

\* A task is run by one worker at a time and only once: claim_next_queued_task
\* gives a row to one caller, and no row ever goes back to the queue.
OneWorkerPerTask ==
    \A v, w \in Workers :
        v # w /\ worker[v].task = worker[w].task => worker[v].task = NoTask

\* Cancellation is answered late by at most the session that was already past
\* the flag check: at most one host of a task finishes after the cancel request.
LateCaptureBound == \A t \in TaskIds : Cardinality(lateDone[t]) <= 1

\* What result_json lists agrees with the status, whatever crashes, recoveries
\* and other processes did to the row: a completed task reached all its hosts and
\* captured one; a cancelled one was asked to stop and left a host out; one that
\* failed without an error message failed on every host.
ResultMatchesStatus ==
    \A t \in TaskIds :
        LET row == tasks[t] IN
        /\ row.ok \cap row.bad = {}
        /\ row.status = "completed" => row.ok # {} /\ row.ok \cup row.bad = row.hosts
        /\ row.status = "cancelled" => row.cancel /\ row.ok \cup row.bad # row.hosts
        /\ row.status = "failed" /\ ~row.error => row.bad = row.hosts /\ row.ok = {}

\* A queued task's hosts are locked from the moment it can be claimed
\* (_create_queued_task is only called with its hosts reserved).
QueuedHoldLocks ==
    \A t \in TasksWith(tasks, {"queued"}) : tasks[t].hosts \subseteq LockedHosts(hostLocks)

\* A row that reached a terminal status never changes again: update_task
\* overwrites unconditionally, so only the callers' discipline ensures it.
TerminalStable ==
    [][\A t \in TasksWith(tasks, Terminal) : tasks'[t] = tasks[t]]_vars

\* Start-up recovery fails orphans only, never a task some worker is running
\* (recover_orphaned_running_tasks takes every running row).
RecoverySparesLiveTasks ==
    [][\A p \in Procs : \A t \in recovered'[p] \ recovered[p] :
          \A w \in Workers : worker[w].task # t]_vars
\* The deployment the host locks are sound in: one process, every reservation
\* given up before it expires, no operator forcing locks, no failing file or
\* database access.  Crashes, restarts, cancels and retries are all allowed.
SafeRegime ==
    /\ Standalone = {}
    /\ Prompt \/ LockTimeout = 0
    /\ ~AdminRelease
    /\ ~IoFaults

\* What else holds in that deployment, and makes Reservation inductive: the
\* status of a row agrees with where its worker is ...
WorkerRows ==
    \A w \in Workers :
        /\ worker[w].pc # "unwind"
        /\ worker[w].pc = "release" => Row(w).status \in Terminal
        /\ worker[w].pc \notin {"dead", "poll", "release"} => Row(w).status = "running"
        /\ worker[w].pc \in InTry => worker[w].todo \subseteq Row(w).hosts
        /\ worker[w].pc = "capture" => worker[w].host \in Row(w).hosts

\* ... and nothing runs while the process is down or recovering.
QuietWhenDown ==
    /\ admin = {}
    /\ \A c \in Clients : client[c].pc # "undo"
    /\ ~ApiUp => /\ \A w \in Workers : worker[w].pc = "dead"
                 /\ \A c \in Clients : client[c].pc = "idle"
    /\ \A p \in Procs :
          /\ recovered[p] # {} => proc[p] = "releasing"
          /\ \A t \in recovered[p] : tasks[t].status = "failed"
-----------------------------------------------------------------------------
(* Liveness, under FairSpec.                                                *)

\* A task that was queued ends, crashes and restarts in between included.
EveryTaskEnds ==
    \A t \in TaskIds :
        tasks[t].status \in Active ~> tasks[t].status \in Terminal

\* No host stays blocked for ever: again and again a request for it would find
\* no conflict, because its lock was released or has expired.
HostsComeFree == \A h \in Hosts : []<>(Conflicts(hostLocks, {h}) = {})
=============================================================================
