------------------------- MODULE CaptureSystemProofs -------------------------
(***************************************************************************)
(* Theorems about CaptureSystem, for any hosts, tasks, workers, clients and *)
(* processes: in every deployment first, then, from the reservation of the  *)
(* hosts on, in the deployment of SafeRegime.                               *)
(***************************************************************************)
EXTENDS CaptureSystem, FiniteSetTheorems, TLAPS

-----------------------------------------------------------------------------
(* The tables: every transaction keeps their types.                         *)

\* Releasing hosts leaves a lock table.
LEMMA ReleaseHostsType ==
    ASSUME NEW locks \in LockTables, NEW hosts
    PROVE  ReleaseHosts(locks, hosts) \in LockTables
<1> DEFINE dom == DOMAIN locks \ hosts
<1>1. /\ dom \in SUBSET Hosts
      /\ \A h \in dom : locks[h] \in Ages
  BY DEF LockTables
<1>2. [h \in dom |-> locks[h]] \in [dom -> Ages]
  BY <1>1
<1> QED
  BY <1>1, <1>2 DEF LockTables, ReleaseHosts

\* So does the clean-up of stale rows.
LEMMA CleanupStaleType ==
    ASSUME NEW locks \in LockTables
    PROVE  CleanupStale(locks) \in LockTables
BY ReleaseHostsType DEF CleanupStale

\* Taking locks gives a lock table in which exactly the wanted hosts are added
\* to those that were not stale.
LEMMA LockHostsType ==
    ASSUME NEW locks \in LockTables, NEW hosts \in SUBSET Hosts
    PROVE  LockHosts(locks, hosts) \in LockTables
<1>1. CleanupStale(locks) \in LockTables
  BY CleanupStaleType
<1> DEFINE kept == CleanupStale(locks)
           dom  == DOMAIN kept \cup hosts
<1>2. /\ dom \in SUBSET Hosts
      /\ \A h \in DOMAIN kept : kept[h] \in Ages
  BY <1>1 DEF LockTables
<1>3. 0 \in Ages
  BY LockTimeoutAssumption DEF Ages
<1>4. [h \in dom |-> IF h \in hosts THEN 0 ELSE kept[h]] \in [dom -> Ages]
  BY <1>2, <1>3
<1> QED
  BY <1>2, <1>4 DEF LockHosts, LockTables

\* Ages stop one past the timeout.
LEMMA AgeLocksType ==
    ASSUME NEW locks \in LockTables
    PROVE  AgeLocks(locks) \in LockTables
<1>1. /\ DOMAIN locks \in SUBSET Hosts
      /\ \A h \in DOMAIN locks : locks[h] \in Ages
  BY DEF LockTables
<1>2. AgeLocks(locks) \in [DOMAIN locks -> Ages]
  BY <1>1, LockTimeoutAssumption DEF AgeLocks, Ages
<1> QED
  BY <1>1, <1>2 DEF LockTables

\* The initial table.
LEMMA NoLocksType == NoLocks \in LockTables
<1>1. NoLocks \in [{} -> Ages]
  BY DEF NoLocks
<1> QED
  BY <1>1 DEF LockTables
-----------------------------------------------------------------------------
\* A row by its columns.
RowOf(status, hosts, cancel, ok, bad, error) ==
    [status |-> status, hosts |-> hosts, cancel |-> cancel, ok |-> ok, bad |-> bad,
     error |-> error]

\* The updates of the columns of a row.
WithStatus(row, s)               == [row EXCEPT !.status = s]
WithCancel(row, c)               == [row EXCEPT !.cancel = c]
WithResult(row, s, o, b)         == [row EXCEPT !.status = s, !.ok = o, !.bad = b]
WithError(row, s, e)             == [row EXCEPT !.status = s, !.error = e]
WithErrorResult(row, s, e, o, b) == [row EXCEPT !.status = s, !.error = e, !.ok = o, !.bad = b]

\* An update of several columns is one update after the other.
LEMMA ColumnByColumn ==
    ASSUME NEW old, NEW s, NEW o, NEW b, NEW e
    PROVE  /\ [old EXCEPT !.status = s, !.ok = o, !.bad = b]
                = [[[old EXCEPT !.status = s] EXCEPT !.ok = o] EXCEPT !.bad = b]
           /\ [old EXCEPT !.status = s, !.error = e]
                = [[old EXCEPT !.status = s] EXCEPT !.error = e]
           /\ [old EXCEPT !.status = s, !.error = e, !.ok = o, !.bad = b]
                = [[[[old EXCEPT !.status = s] EXCEPT !.error = e] EXCEPT !.ok = o]
                      EXCEPT !.bad = b]
BY SMT

\* A row with one of its columns written.
LEMMA ColumnEdits ==
    ASSUME NEW old \in Rows, NEW s, NEW c
    PROVE  /\ WithStatus(old, s)
                 = RowOf(s, old.hosts, old.cancel, old.ok, old.bad, old.error)
           /\ WithCancel(old, c)
                 = RowOf(old.status, old.hosts, c, old.ok, old.bad, old.error)
BY DEF Rows, RowOf, WithStatus, WithCancel

\* A row with several of its columns written, column by column.
LEMMA RowEdits ==
    ASSUME NEW old \in Rows, NEW s, NEW o, NEW b, NEW e
    PROVE  /\ WithResult(old, s, o, b)
                 = RowOf(s, old.hosts, old.cancel, o, b, old.error)
           /\ WithError(old, s, e)
                 = RowOf(s, old.hosts, old.cancel, old.ok, old.bad, e)
           /\ WithErrorResult(old, s, e, o, b)
                 = RowOf(s, old.hosts, old.cancel, o, b, e)
<1> DEFINE r1 == WithStatus(old, s)
           r2 == [r1 EXCEPT !.ok = o]
           r3 == [r2 EXCEPT !.bad = b]
           r4 == [r1 EXCEPT !.error = e]
           r5 == [r4 EXCEPT !.ok = o]
           r6 == [r5 EXCEPT !.bad = b]
<1>1. /\ WithResult(old, s, o, b) = r3
      /\ WithError(old, s, e) = r4
      /\ WithErrorResult(old, s, e, o, b) = r6
  BY ColumnByColumn DEF WithStatus, WithResult, WithError, WithErrorResult
<1>2. r1 = RowOf(s, old.hosts, old.cancel, old.ok, old.bad, old.error)
  BY ColumnEdits
<1> HIDE DEF r1
<1>3. r2 = RowOf(s, old.hosts, old.cancel, o, old.bad, old.error)
  BY <1>2 DEF RowOf
<1>4. r4 = RowOf(s, old.hosts, old.cancel, old.ok, old.bad, e)
  BY <1>2 DEF RowOf
<1> HIDE DEF r2, r4
<1>5. r3 = RowOf(s, old.hosts, old.cancel, o, b, old.error)
  BY <1>3 DEF RowOf
<1>6. r5 = RowOf(s, old.hosts, old.cancel, o, old.bad, e)
  BY <1>4 DEF RowOf
<1> HIDE DEF r3, r5
<1>7. r6 = RowOf(s, old.hosts, old.cancel, o, b, e)
  BY <1>6 DEF RowOf
<1> QED
  BY <1>1, <1>4, <1>5, <1>7, Zenon

\* update_task with a result, as the whole row it leaves in the table.
LEMMA ConcludeForm ==
    ASSUME NEW table \in [TaskIds -> Rows], NEW t \in TaskIds, NEW s, NEW ok, NEW bad
    PROVE  Conclude(table, t, s, ok, bad) = [table EXCEPT ![t] =
               RowOf(s, table[t].hosts, table[t].cancel, ok, bad, table[t].error)]
<1>1. WithResult(table[t], s, ok, bad)
        = RowOf(s, table[t].hosts, table[t].cancel, ok, bad, table[t].error)
  BY RowEdits
<1>2. Conclude(table, t, s, ok, bad) = [table EXCEPT ![t] = WithResult(table[t], s, ok, bad)]
  BY DEF Conclude, WithResult
<1> QED
  BY <1>1, <1>2

\* What update_task with a result writes into the row, and that it writes no
\* other row.
LEMMA ResultWritten ==
    ASSUME NEW table \in [TaskIds -> Rows], NEW t \in TaskIds, NEW status, NEW ok, NEW bad,
           NEW new, new = Conclude(table, t, status, ok, bad)
    PROVE  /\ new[t].status = status /\ new[t].error = table[t].error
           /\ new[t].ok = ok /\ new[t].bad = bad
           /\ new[t].hosts = table[t].hosts /\ new[t].cancel = table[t].cancel
           /\ \A u \in TaskIds \ {t} : new[u] = table[u]
BY DEF Conclude, Rows

\* The same for update_task with an error message.
LEMMA ErrorWritten ==
    ASSUME NEW table \in [TaskIds -> Rows], NEW t \in TaskIds,
           NEW new, new = FailWithError(table, t)
    PROVE  /\ new[t].status = "failed" /\ new[t].error
           /\ new[t].ok = table[t].ok /\ new[t].bad = table[t].bad
           /\ new[t].hosts = table[t].hosts /\ new[t].cancel = table[t].cancel
           /\ \A u \in TaskIds \ {t} : new[u] = table[u]
BY DEF FailWithError, Rows

\* The same for update_task with both.
LEMMA ErrorResultWritten ==
    ASSUME NEW table \in [TaskIds -> Rows], NEW t \in TaskIds, NEW ok, NEW bad,
           NEW new, new = ConcludeWithError(table, t, ok, bad)
    PROVE  /\ new[t].status = "failed" /\ new[t].error
           /\ new[t].ok = ok /\ new[t].bad = bad
           /\ new[t].hosts = table[t].hosts /\ new[t].cancel = table[t].cancel
           /\ \A u \in TaskIds \ {t} : new[u] = table[u]
BY DEF ConcludeWithError, Rows

\* Recovery keeps the rows of the table well-formed.
LEMMA RecoverType ==
    ASSUME NEW table \in [TaskIds -> Rows]
    PROVE  RecoverRunning(table) \in [TaskIds -> Rows]
<1> DEFINE yes == TRUE
           New(u) == IF table[u].status = "running"
                     THEN WithError(table[u], "failed", yes)
                     ELSE table[u]
<1>1. RecoverRunning(table) = [u \in TaskIds |-> New(u)]
  BY DEF RecoverRunning, WithError
<1>2. yes \in BOOLEAN /\ "failed" \in Statuses
  BY DEF Statuses, Terminal
<1> HIDE DEF yes
<1>3. ASSUME NEW u \in TaskIds PROVE New(u) \in Rows
  <2> DEFINE old == table[u]
  <2>1. old \in Rows
    OBVIOUS
  <2> HIDE DEF old
  <2>2. WithError(old, "failed", yes)
          = RowOf("failed", old.hosts, old.cancel, old.ok, old.bad, yes)
    BY <2>1, RowEdits
  <2>3. WithError(old, "failed", yes) \in Rows
    BY <1>2, <2>1, <2>2 DEF Rows, RowOf
  <2> QED
    BY <2>1, <2>3 DEF old
<1> HIDE DEF New
<1> QED
  BY <1>1, <1>3

\* Every transaction on the task table keeps its rows well-formed.
LEMMA TaskTableType ==
    ASSUME NEW table \in [TaskIds -> Rows], NEW t \in TaskIds,
           NEW status \in Statuses,
           NEW hosts \in SUBSET Hosts, NEW ok \in SUBSET Hosts, NEW bad \in SUBSET Hosts
    PROVE  /\ CreateTask(table, t, hosts) \in [TaskIds -> Rows]
           /\ SetStatus(table, t, status) \in [TaskIds -> Rows]
           /\ Conclude(table, t, status, ok, bad) \in [TaskIds -> Rows]
           /\ FailWithError(table, t) \in [TaskIds -> Rows]
           /\ ConcludeWithError(table, t, ok, bad) \in [TaskIds -> Rows]
           /\ RequestCancel(table, t) \in [TaskIds -> Rows]
           /\ RecoverRunning(table) \in [TaskIds -> Rows]
<1> {"queued", "failed"} \subseteq Statuses
  BY DEF Statuses, Active, Terminal
<1>1. CreateTask(table, t, hosts) \in [TaskIds -> Rows]
  BY DEF CreateTask, Rows, NoRow
<1> DEFINE old == table[t]
           yes == TRUE
<1>2. old \in Rows /\ yes \in BOOLEAN
  OBVIOUS
<1>3. /\ SetStatus(table, t, status) = [table EXCEPT ![t] = WithStatus(old, status)]
      /\ Conclude(table, t, status, ok, bad)
            = [table EXCEPT ![t] = WithResult(old, status, ok, bad)]
      /\ FailWithError(table, t) = [table EXCEPT ![t] = WithError(old, "failed", yes)]
      /\ ConcludeWithError(table, t, ok, bad)
            = [table EXCEPT ![t] = WithErrorResult(old, "failed", yes, ok, bad)]
  BY DEF SetStatus, Conclude, FailWithError, ConcludeWithError,
         WithStatus, WithResult, WithError, WithErrorResult
<1> HIDE DEF old, yes
<1>4. WithStatus(old, status) \in Rows
  <2>1. WithStatus(old, status)
          = RowOf(status, old.hosts, old.cancel, old.ok, old.bad, old.error)
    BY <1>2, ColumnEdits
  <2> QED
    BY <1>2, <2>1 DEF Rows, RowOf
<1>5. WithResult(old, status, ok, bad) \in Rows
  <2>1. WithResult(old, status, ok, bad)
          = RowOf(status, old.hosts, old.cancel, ok, bad, old.error)
    BY <1>2, RowEdits
  <2> QED
    BY <1>2, <2>1 DEF Rows, RowOf
<1>6. WithError(old, "failed", yes) \in Rows
  <2>1. WithError(old, "failed", yes)
          = RowOf("failed", old.hosts, old.cancel, old.ok, old.bad, yes)
    BY <1>2, RowEdits
  <2> QED
    BY <1>2, <2>1 DEF Rows, RowOf
<1>7. WithErrorResult(old, "failed", yes, ok, bad) \in Rows
  <2>1. WithErrorResult(old, "failed", yes, ok, bad)
          = RowOf("failed", old.hosts, old.cancel, ok, bad, yes)
    BY <1>2, RowEdits
  <2> QED
    BY <1>2, <2>1 DEF Rows, RowOf
<1>8. RequestCancel(table, t) \in [TaskIds -> Rows]
  <2> DEFINE c == old.cancel \/ old.status \in Active
  <2>1. c \in BOOLEAN
    OBVIOUS
  <2>2. RequestCancel(table, t) = [table EXCEPT ![t] = WithCancel(old, c)]
    BY DEF RequestCancel, WithCancel, old
  <2> HIDE DEF c
  <2>3. WithCancel(old, c) = RowOf(old.status, old.hosts, c, old.ok, old.bad, old.error)
    BY <1>2, ColumnEdits
  <2>4. WithCancel(old, c) \in Rows
    BY <1>2, <2>1, <2>3 DEF Rows, RowOf
  <2> QED
    BY <2>2, <2>4
<1>9. \A row \in Rows : [table EXCEPT ![t] = row] \in [TaskIds -> Rows]
  OBVIOUS
<1>10. /\ SetStatus(table, t, status) \in [TaskIds -> Rows]
       /\ Conclude(table, t, status, ok, bad) \in [TaskIds -> Rows]
  BY <1>3, <1>4, <1>5, <1>9, Zenon
<1>11. /\ FailWithError(table, t) \in [TaskIds -> Rows]
       /\ ConcludeWithError(table, t, ok, bad) \in [TaskIds -> Rows]
  BY <1>3, <1>6, <1>7, <1>9, Zenon
<1> QED
  BY <1>1, <1>8, <1>10, <1>11, RecoverType, Zenon
-----------------------------------------------------------------------------
\* Type correctness of the initial states.
LEMMA InitType == Init => TypeOK
BY NoLocksType, HostsAssumption, DeploymentAssumption, MaxTasksAssumption
DEF Init, TypeOK, Rows, NoRow, Statuses, ProcStates, WorkerStates, WorkerPcs, InTry,
    DeadWorker, IdleWorker, ClientStates, IdleClient, Modes, NoTask, NoHost

\* A worker loop that (re)starts or ends is in a well-formed state.
LEMMA WorkerType ==
    /\ IdleWorker \in WorkerStates /\ IdleWorker.pc = "poll" /\ IdleWorker.task = NoTask
    /\ DeadWorker \in WorkerStates /\ DeadWorker.pc = "dead" /\ DeadWorker.task = NoTask
    /\ IdleClient \in ClientStates
BY DEF WorkerStates, WorkerPcs, InTry, DeadWorker, IdleWorker, ClientStates,
    IdleClient, Modes, NoTask, NoHost

\* A process that goes down leaves well-typed local states behind.
LEMMA LoseProcessType ==
    ASSUME TypeOK, NEW p \in Procs, LoseProcess(p)
    PROVE  /\ proc' \in [Procs -> ProcStates]
           /\ recovered' \in [Procs -> SUBSET TaskIds]
           /\ worker' \in [Workers -> WorkerStates]
           /\ \A w \in Workers :
                 /\ worker'[w].task = NoTask <=> worker'[w].pc \in {"dead", "poll"}
                 /\ worker'[w].pc = "capture" => worker'[w].host \in Hosts
           /\ client' \in [Clients -> ClientStates]
           /\ admin' \in SUBSET Hosts
BY WorkerType DEF TypeOK, LoseProcess, ProcStates

\* Nor does a worker loop that an exception ends.
LEMMA DieType ==
    ASSUME TypeOK, NEW w \in Workers, Die(w)
    PROVE  /\ proc' \in [Procs -> ProcStates]
           /\ recovered' \in [Procs -> SUBSET TaskIds]
           /\ worker' \in [Workers -> WorkerStates]
           /\ \A v \in Workers :
                 /\ worker'[v].task = NoTask <=> worker'[v].pc \in {"dead", "poll"}
                 /\ worker'[v].pc = "capture" => worker'[v].host \in Hosts
           /\ client' \in [Clients -> ClientStates]
           /\ admin' \in SUBSET Hosts
<1>1. CASE w \in ApiWorkers
  BY <1>1, WorkerType DEF Die, TypeOK
<1>2. CASE w \notin ApiWorkers
  BY <1>2, LoseProcessType DEF Die, Workers, Procs
<1> QED
  BY <1>1, <1>2

\* A request handler moves on with a target of hosts, or ends.
LEMMA ClientWrites ==
    ASSUME client \in [Clients -> ClientStates], NEW c \in Clients
    PROVE  /\ client[c].target \in SUBSET Hosts
           /\ \A pc \in {"lock", "relock", "create", "launch", "undo"} :
                 SetClient(c, pc) => client' \in [Clients -> ClientStates]
           /\ \A target \in SUBSET Hosts :
                 client' = [client EXCEPT ![c].pc = "relock", ![c].target = target]
                     => client' \in [Clients -> ClientStates]
           /\ EndRequest(c) => client' \in [Clients -> ClientStates]
<1>1. client[c] \in ClientStates /\ client[c].target \in SUBSET Hosts
  BY DEF ClientStates
<1>2. ASSUME NEW pc \in {"lock", "relock", "create", "launch", "undo"},
             NEW target \in SUBSET Hosts
      PROVE  [pc |-> pc, mode |-> client[c].mode, target |-> target] \in ClientStates
  BY <1>1 DEF ClientStates
<1>3. ASSUME NEW pc \in {"lock", "relock", "create", "launch", "undo"}, SetClient(c, pc)
      PROVE  client' \in [Clients -> ClientStates]
  <2> DEFINE old == client[c]
  <2>1. client' = [client EXCEPT ![c] = [old EXCEPT !.pc = pc]]
    BY <1>3 DEF SetClient
  <2>2. old \in ClientStates
    BY <1>1
  <2> HIDE DEF old
  <2>3. [old EXCEPT !.pc = pc] = [pc |-> pc, mode |-> old.mode, target |-> old.target]
    BY <2>2 DEF ClientStates
  <2>4. [old EXCEPT !.pc = pc] \in ClientStates
    BY <1>1, <1>2, <2>3 DEF old
  <2> QED
    BY <2>1, <2>4
<1>4. ASSUME NEW target \in SUBSET Hosts,
             client' = [client EXCEPT ![c].pc = "relock", ![c].target = target]
      PROVE  client' \in [Clients -> ClientStates]
  <2> DEFINE old  == client[c]
             next == [[old EXCEPT !.pc = "relock"] EXCEPT !.target = target]
             step == [pc |-> "relock", mode |-> old.mode, target |-> old.target]
  <2>1. client' = [client EXCEPT ![c] = next]
    BY <1>4
  <2>2. old \in ClientStates
    BY <1>1
  <2> HIDE DEF old
  <2>3. [old EXCEPT !.pc = "relock"] = step
    BY <2>2 DEF ClientStates
  <2>4. [step EXCEPT !.target = target]
          = [pc |-> "relock", mode |-> old.mode, target |-> target]
    OBVIOUS
  <2>5. next = [pc |-> "relock", mode |-> old.mode, target |-> target]
    BY <2>3, <2>4
  <2>6. next \in ClientStates
    BY <1>2, <2>5 DEF old
  <2> HIDE DEF next
  <2> QED
    BY <2>1, <2>6
<1>5. EndRequest(c) => client' \in [Clients -> ClientStates]
  BY WorkerType DEF EndRequest
<1> QED
  BY <1>1, <1>3, <1>4, <1>5

\* A step of a request handler or of an operator's request keeps the types.
LEMMA RequestType ==
    ASSUME TypeOK, NEW c \in Clients,
           \/ RequestStep(c) \/ RequestFault(c)
           \/ \E mode \in {"single", "batch"}, requested \in SUBSET Hosts :
                  Submit(c, mode, requested)
           \/ \E t \in TaskIds : Retry(c, t)
    PROVE  TypeOK'
<1> USE DEF TypeOK, procVars
<1>1. CASE TryLock(c)
  <2>1. client[c].target \in SUBSET Hosts
    BY ClientWrites
  <2> DEFINE rest == client[c].target \ Conflicts(hostLocks, client[c].target)
  <2>2. client' \in [Clients -> ClientStates]
    <3>1. \/ SetClient(c, "create") \/ EndRequest(c)
          \/ client' = [client EXCEPT ![c].pc = "relock", ![c].target = rest]
      BY <1>1 DEF TryLock, Acquire
    <3>2. rest \in SUBSET Hosts
      BY <2>1
    <3> HIDE DEF rest
    <3> QED
      BY <3>1, <3>2, ClientWrites, Zenon
  <2>3. hostLocks' \in LockTables
    BY <1>1, <2>1, LockHostsType DEF TryLock, Acquire
  <2> QED
    BY <1>1, <2>2, <2>3 DEF TryLock
<1>2. CASE Relock(c)
  <2>1. client[c].target \in SUBSET Hosts
    BY ClientWrites
  <2>2. client' \in [Clients -> ClientStates]
    BY <1>2, ClientWrites DEF Relock, Acquire
  <2>3. hostLocks' \in LockTables
    BY <1>2, <2>1, LockHostsType DEF Relock, Acquire
  <2> QED
    BY <1>2, <2>2, <2>3 DEF Relock
<1>3. CASE InsertTask(c)
  <2>1. client[c].target \in SUBSET Hosts
    BY DEF ClientStates
  <2>2. PICK t \in TaskIds : tasks' = CreateTask(tasks, t, client[c].target)
    BY <1>3 DEF InsertTask
  <2>3. tasks' \in [TaskIds -> Rows]
    <3>1. "absent" \in Statuses
      BY DEF Statuses
    <3> QED
      BY <2>1, <2>2, <3>1, TaskTableType
  <2> QED
    BY <1>3, <2>3 DEF InsertTask, SetClient, ClientStates
<1>4. CASE Launch(c)
  BY <1>4, WorkerType DEF Launch, EndRequest
<1>5. CASE Undo(c)
  BY <1>5, ReleaseHostsType, WorkerType DEF Undo, EndRequest
<1>6. CASE RequestFault(c)
  <2>1. client' \in [Clients -> ClientStates]
    BY <1>6, ClientWrites DEF RequestFault
  <2> QED
    BY <1>6, <2>1 DEF RequestFault
<1>7. ASSUME NEW mode \in {"single", "batch"}, NEW requested \in SUBSET Hosts,
             Submit(c, mode, requested)
      PROVE  TypeOK'
  BY <1>7 DEF Submit, TargetHosts, ClientStates, Modes
<1>8. ASSUME NEW t \in TaskIds, Retry(c, t)
      PROVE  TypeOK'
  BY <1>8 DEF Retry, ClientStates, Modes, Rows
<1> QED
  BY <1>1, <1>2, <1>3, <1>4, <1>5, <1>6, <1>7, <1>8 DEF RequestStep

\* A step of a worker, exceptions included, keeps the types.
LEMMA WorkerStepType ==
    ASSUME TypeOK, NEW w \in Workers, WorkerStep(w) \/ FaultStep(w)
    PROVE  TypeOK'
<1> USE DEF TypeOK, procVars
<1> DEFINE t == worker[w].task
<1>1. /\ worker[w] \in WorkerStates
      /\ worker[w].ok \in SUBSET Hosts
      /\ worker[w].bad \in SUBSET Hosts
      /\ worker[w].pc \notin {"dead", "poll"} => t \in TaskIds
  BY DEF WorkerStates
<1>2. {"running", "failed", "cancelled", "completed"} \subseteq Statuses
  BY DEF Statuses, Active, Terminal
<1>3. ASSUME t \in TaskIds
      PROVE  /\ SetStatus(tasks, t, "running") \in [TaskIds -> Rows]
             /\ FailWithError(tasks, t) \in [TaskIds -> Rows]
             /\ ConcludeWithError(tasks, t, worker[w].ok, worker[w].bad) \in [TaskIds -> Rows]
             /\ \A status \in Statuses :
                   Conclude(tasks, t, status, worker[w].ok, worker[w].bad) \in [TaskIds -> Rows]
  BY <1>1, <1>2, <1>3, TaskTableType
<1>4. \A pc \in WorkerPcs \ {"dead", "poll"} :
         worker[w].pc \notin {"dead", "poll"} /\ pc # "capture" /\ SetWorker(w, pc) =>
            /\ worker' \in [Workers -> WorkerStates]
            /\ \A v \in Workers :
                  /\ worker'[v].task = NoTask <=> worker'[v].pc \in {"dead", "poll"}
                  /\ worker'[v].pc = "capture" => worker'[v].host \in Hosts
  BY DEF SetWorker, WorkerStates
<1>5. CASE Claim(w)
  <2>1. PICK u \in TaskIds :
           /\ tasks' = SetStatus(tasks, u, "running")
           /\ worker' = [worker EXCEPT ![w] =
                            [IdleWorker EXCEPT !.pc = "claimed", !.task = u]]
    BY <1>5 DEF Claim
  <2>2. tasks' \in [TaskIds -> Rows]
    <3>1. "running" \in Statuses
      BY DEF Statuses, Active
    <3> QED
      BY <2>1, <3>1, TaskTableType
  <2> DEFINE claimed == [IdleWorker EXCEPT !.pc = "claimed", !.task = u]
  <2>3. claimed.pc = "claimed" /\ claimed.task = u /\ claimed \in WorkerStates
    BY DEF IdleWorker, WorkerStates, WorkerPcs, NoHost
  <2>4. u # NoTask
    BY MaxTasksAssumption DEF TaskIds, NoTask
  <2> HIDE DEF claimed
  <2> QED
    <3>1. worker' = [worker EXCEPT ![w] = claimed]
      BY <2>1 DEF claimed
    <3>2. /\ worker' \in [Workers -> WorkerStates]
          /\ \A v \in Workers :
                /\ worker'[v].task = NoTask <=> worker'[v].pc \in {"dead", "poll"}
                /\ worker'[v].pc = "capture" => worker'[v].host \in Hosts
      BY <3>1, <2>3, <2>4
    <3> QED
      BY <1>5, <2>2, <3>2 DEF Claim
<1>6. CASE LoadInventory(w)
  BY <1>6, <1>4 DEF LoadInventory, WorkerPcs, InTry
<1>7. CASE FailMissing(w)
  BY <1>7, <1>1, <1>3, <1>4 DEF FailMissing, WorkerPcs, InTry
<1>8. CASE Start(w)
  <2>1. t \in TaskIds /\ Row(w).hosts \in SUBSET Hosts
    BY <1>8, <1>1 DEF Start, Row, Rows
  <2> QED
    BY <1>8, <1>1, <1>3, <2>1 DEF Start, WorkerStates, WorkerPcs, InTry
<1>9. CASE NextHost(w)
  <2>1. PICK h \in worker[w].todo :
           worker' = [worker EXCEPT
               ![w].pc = IF Row(w).cancel THEN "cancelling" ELSE "capture", ![w].host = h]
    BY <1>9 DEF NextHost
  <2>2. h \in Hosts
    BY <1>1 DEF WorkerStates
  <2> DEFINE pc == IF Row(w).cancel THEN "cancelling" ELSE "capture"
  <2>3. worker' \in [Workers -> WorkerStates]
    <3>1. pc \in WorkerPcs
      BY DEF WorkerPcs, InTry
    <3> HIDE DEF pc
    <3> DEFINE next == [worker[w] EXCEPT !.pc = pc, !.host = h]
    <3>2. next \in WorkerStates
      BY <1>1, <2>2, <3>1 DEF WorkerStates
    <3>3. worker' = [worker EXCEPT ![w] = next]
      BY <2>1 DEF pc
    <3> HIDE DEF next
    <3> QED
      BY <3>2, <3>3
  <2>4. \A v \in Workers :
           /\ worker'[v].task = NoTask <=> worker'[v].pc \in {"dead", "poll"}
           /\ worker'[v].pc = "capture" => worker'[v].host \in Hosts
    BY <1>9, <2>1, <2>2 DEF NextHost, WorkerStates
  <2> QED
    BY <1>9, <2>3, <2>4 DEF NextHost
<1>10. CASE MarkCancelled(w)
  BY <1>10, <1>1, <1>2, <1>3, <1>4 DEF MarkCancelled, WorkerPcs, InTry
<1>11. CASE CaptureHost(w)
  <2>1. worker[w].host \in Hosts /\ t \in TaskIds
    BY <1>11, <1>1 DEF CaptureHost
  <2>2. lateDone' \in [TaskIds -> SUBSET Hosts]
    BY <1>11, <2>1 DEF CaptureHost
  <2>3. PICK good \in BOOLEAN : worker' =
            [worker EXCEPT
               ![w].pc = "loop", ![w].todo = @ \ {worker[w].host}, ![w].host = NoHost,
               ![w].ok  = IF good THEN @ \cup {worker[w].host} ELSE @,
               ![w].bad = IF good THEN @ ELSE @ \cup {worker[w].host}]
    BY <1>11 DEF CaptureHost
  <2> DEFINE h == worker[w].host
             left == [worker[w] EXCEPT
                        !.pc = "loop", !.todo = @ \ {h}, !.host = NoHost,
                        !.ok  = IF good THEN @ \cup {h} ELSE @,
                        !.bad = IF good THEN @ ELSE @ \cup {h}]
  <2>4. left \in WorkerStates /\ left.pc = "loop" /\ left.task = t
    BY <2>1, <1>1 DEF WorkerStates, WorkerPcs, InTry
  <2>5. worker' = [worker EXCEPT ![w] = left]
    BY <2>3
  <2> HIDE DEF left
  <2>6. /\ worker' \in [Workers -> WorkerStates]
        /\ \A v \in Workers :
              /\ worker'[v].task = NoTask <=> worker'[v].pc \in {"dead", "poll"}
              /\ worker'[v].pc = "capture" => worker'[v].host \in Hosts
    BY <1>11, <2>4, <2>5 DEF CaptureHost
  <2> QED
    BY <1>11, <2>2, <2>6 DEF CaptureHost
<1>12. CASE CaptureRaises(w)
  <2> DEFINE failed == [worker[w] EXCEPT !.pc = "except", !.ok = @ \cup {worker[w].host}]
  <2>1. worker[w].host \in Hosts
    BY <1>12 DEF CaptureRaises
  <2>2. failed \in WorkerStates /\ failed.pc = "except" /\ failed.task = t
    BY <1>1, <2>1 DEF WorkerStates, WorkerPcs
  <2>3. SetWorker(w, "except") \/ worker' = [worker EXCEPT ![w] = failed]
    BY <1>12 DEF CaptureRaises
  <2> HIDE DEF failed
  <2>4. /\ worker' \in [Workers -> WorkerStates]
        /\ \A v \in Workers :
              /\ worker'[v].task = NoTask <=> worker'[v].pc \in {"dead", "poll"}
              /\ worker'[v].pc = "capture" => worker'[v].host \in Hosts
    BY <1>4, <1>12, <2>2, <2>3 DEF CaptureRaises, WorkerPcs
  <2> QED
    BY <1>12, <2>4 DEF CaptureRaises
<1>13. CASE Finish(w)
  BY <1>13, <1>1, <1>2, <1>3, <1>4 DEF Finish, FinalStatus, WorkerPcs, InTry
<1>14. CASE HandleException(w)
  BY <1>14, <1>1, <1>2, <1>3, <1>4 DEF HandleException, WorkerPcs, InTry
<1>15. CASE Release(w)
  BY <1>15, ReleaseHostsType, WorkerType DEF Release
<1>16. CASE EscapingFault(w)
  BY <1>16, DieType DEF EscapingFault
<1>17. CASE CaughtFault(w)
  BY <1>17, <1>4 DEF CaughtFault, WorkerPcs, InTry
<1>18. CASE ReleaseAndDie(w)
  BY <1>18, ReleaseHostsType, DieType DEF ReleaseAndDie
<1> QED
  BY <1>5, <1>6, <1>7, <1>8, <1>9, <1>10, <1>11, <1>12, <1>13, <1>14, <1>15,
     <1>16, <1>17, <1>18 DEF WorkerStep, FaultStep

\* A step of a process or of its surroundings keeps the types.
LEMMA EnvironmentType ==
    ASSUME TypeOK,
           \/ \E p \in Procs : StartStep(p) \/ Crash(p)
           \/ \E t \in TaskIds : Cancel(t)
           \/ AdminCleanup \/ AdminDelete \/ \E hosts \in SUBSET Hosts : AdminList(hosts)
           \/ EditInventory \/ Tick
    PROVE  TypeOK'
<1> USE DEF TypeOK, procVars
<1>1. ASSUME NEW p \in Procs, Boot(p) PROVE TypeOK'
  BY <1>1, CleanupStaleType DEF Boot, ProcStates
<1>2. ASSUME NEW p \in Procs, Recover(p) PROVE TypeOK'
  <2>1. tasks' \in [TaskIds -> Rows]
    <3>1. tasks' = RecoverRunning(tasks)
      BY <1>2 DEF Recover
    <3> QED
      BY <3>1, RecoverType
  <2> QED
    BY <1>2, <2>1 DEF Recover, ProcStates, TasksWith
<1>3. ASSUME NEW p \in Procs, StartWorkers(p) PROVE TypeOK'
  BY <1>3, WorkerType DEF StartWorkers, ProcStates
<1>4. ASSUME NEW p \in Procs, NEW t \in TaskIds, ReleaseRecovered(p, t) PROVE TypeOK'
  BY <1>4, ReleaseHostsType DEF ReleaseRecovered
<1>5. ASSUME NEW p \in Procs, Crash(p) PROVE TypeOK'
  BY <1>5, LoseProcessType, DeploymentAssumption DEF Crash
<1>6. ASSUME NEW t \in TaskIds, Cancel(t) PROVE TypeOK'
  <2>1. "absent" \in Statuses /\ {} \in SUBSET Hosts
    BY DEF Statuses
  <2>2. tasks' \in [TaskIds -> Rows]
    BY <1>6, <2>1, TaskTableType DEF Cancel
  <2> QED
    BY <1>6, <2>2 DEF Cancel
<1>7. CASE AdminCleanup
  BY <1>7, CleanupStaleType DEF AdminCleanup
<1>8. CASE AdminDelete
  BY <1>8, ReleaseHostsType DEF AdminDelete
<1>9. ASSUME NEW hosts \in SUBSET Hosts, AdminList(hosts) PROVE TypeOK'
  BY <1>9 DEF AdminList
<1>10. CASE EditInventory
  BY <1>10, DeploymentAssumption DEF EditInventory
<1>11. CASE Tick
  BY <1>11, AgeLocksType DEF Tick
<1> QED
  BY <1>1, <1>2, <1>3, <1>4, <1>5, <1>6, <1>7, <1>8, <1>9, <1>10, <1>11 DEF StartStep

\* Every step keeps the types.
LEMMA NextType == TypeOK /\ [Next]_vars => TypeOK'
<1> SUFFICES ASSUME TypeOK, [Next]_vars PROVE TypeOK'
  OBVIOUS
<1>1. CASE UNCHANGED vars
  BY <1>1 DEF vars, TypeOK
<1>2. CASE Next
  BY <1>2, RequestType, WorkerStepType, EnvironmentType DEF Next
<1> QED
  BY <1>1, <1>2

\* Every table and local variable keeps its type in every deployment, whatever
\* crashes, faults and operators do.
THEOREM TypeCorrect == Spec => []TypeOK
BY InitType, NextType, PTL DEF Spec
-----------------------------------------------------------------------------
(* A task is run once.                                                      *)

Begun(t) == tasks[t].status \notin {"absent", "queued"}

\* What no transaction undoes in a row that exists.
RowsPersist ==
    \A t \in TaskIds :
        /\ Begun(t) => Begun(t)'
        /\ tasks[t].status # "absent" =>
              /\ tasks'[t].status # "absent"
              /\ tasks'[t].hosts = tasks[t].hosts
              /\ tasks[t].cancel => tasks'[t].cancel

\* A worker keeps its task, or gives it up.
NoNewTask == \A v \in Workers : worker'[v].task \in {worker[v].task, NoTask}

\* The steps that write the task table.
LEMMA TableWriters ==
    ASSUME [Next]_vars
    PROVE  \/ UNCHANGED tasks
           \/ \E c \in Clients : InsertTask(c)
           \/ \E t \in TaskIds : Cancel(t)
           \/ \E w \in Workers : \/ Claim(w) \/ FailMissing(w) \/ Start(w)
                                 \/ MarkCancelled(w) \/ Finish(w) \/ HandleException(w)
           \/ \E p \in Procs : Recover(p)
BY DEF vars, Next, RequestStep, RequestFault, Submit, Retry, TryLock, Relock, Launch,
    Undo, WorkerStep, LoadInventory, NextHost, CaptureHost, CaptureRaises, Release,
    FaultStep, EscapingFault, CaughtFault, ReleaseAndDie, StartStep, Boot,
    StartWorkers, ReleaseRecovered, Crash, AdminCleanup, AdminDelete, AdminList,
    EditInventory, Tick

\* Rows are never deleted or re-queued, and no step changes their hosts or takes
\* a cancel request back.
LEMMA RowsPersistStep == TypeOK /\ [Next]_vars => RowsPersist
<1> SUFFICES ASSUME TypeOK, [Next]_vars PROVE RowsPersist
  OBVIOUS
<1> USE DEF RowsPersist, Begun
<1>1. CASE UNCHANGED tasks
  BY <1>1
<1>2. ASSUME NEW c \in Clients, InsertTask(c) PROVE RowsPersist
  BY <1>2 DEF InsertTask, CreateTask, TypeOK
<1>3. ASSUME NEW t \in TaskIds, Cancel(t) PROVE RowsPersist
  BY <1>3 DEF Cancel, RequestCancel, TypeOK, Rows
<1>4. ASSUME NEW w \in Workers, Claim(w) PROVE RowsPersist
  BY <1>4 DEF Claim, SetStatus, IsOldestQueued, TasksWith, TypeOK, Rows
<1>5. ASSUME NEW w \in Workers, FailMissing(w) PROVE RowsPersist
  BY <1>5 DEF FailMissing, FailWithError, TypeOK, Rows
<1>6. ASSUME NEW w \in Workers, Start(w) PROVE RowsPersist
  BY <1>6 DEF Start, SetStatus, TypeOK, Rows
<1>7. ASSUME NEW w \in Workers, MarkCancelled(w) PROVE RowsPersist
  BY <1>7 DEF MarkCancelled, Conclude, TypeOK, Rows
<1>8. ASSUME NEW w \in Workers, Finish(w) PROVE RowsPersist
  <2>1. PICK status \in Terminal :
           tasks' = Conclude(tasks, worker[w].task, status, worker[w].ok, worker[w].bad)
    BY <1>8 DEF Finish, FinalStatus, Terminal
  <2>2. status \notin {"absent", "queued"}
    BY DEF Terminal
  <2> QED
    BY <2>1, <2>2 DEF Conclude, TypeOK, Rows
<1>9. ASSUME NEW w \in Workers, HandleException(w) PROVE RowsPersist
  <2>1. /\ worker[w].task \in TaskIds
        /\ tasks' = ConcludeWithError(tasks, worker[w].task, worker[w].ok, worker[w].bad)
    BY <1>9 DEF HandleException, TypeOK, WorkerStates
  <2>2. \A u \in TaskIds :
           /\ tasks'[u].status = tasks[u].status \/ tasks'[u].status = "failed"
           /\ tasks'[u].hosts = tasks[u].hosts /\ tasks'[u].cancel = tasks[u].cancel
    BY <2>1, ErrorResultWritten DEF TypeOK
  <2> QED
    BY <2>2
<1>10. ASSUME NEW p \in Procs, Recover(p) PROVE RowsPersist
  BY <1>10 DEF Recover, RecoverRunning, TypeOK, Rows
<1> QED
  BY <1>1, <1>2, <1>3, <1>4, <1>5, <1>6, <1>7, <1>8, <1>9, <1>10, TableWriters

\* Only Claim hands a task to a worker.
LEMMA OnlyClaimHandsOver ==
    TypeOK /\ [Next]_vars => NoNewTask \/ \E w \in Workers : Claim(w)
<1> SUFFICES ASSUME TypeOK, [Next]_vars, \A w \in Workers : ~Claim(w)
             PROVE  NoNewTask
  OBVIOUS
<1> USE DEF NoNewTask
<1>1. CASE UNCHANGED worker
  BY <1>1
<1>2. ASSUME NEW w \in Workers, WorkerStep(w) PROVE NoNewTask
  <2>1. \/ \E pc \in WorkerPcs : SetWorker(w, pc)
        \/ NextHost(w) \/ Start(w) \/ CaptureHost(w) \/ CaptureRaises(w) \/ Release(w)
    BY <1>2 DEF WorkerStep, LoadInventory, FailMissing, MarkCancelled, Finish,
        HandleException, WorkerPcs, InTry
  <2>2. ASSUME NEW pc \in WorkerPcs, SetWorker(w, pc) PROVE NoNewTask
    BY <2>2 DEF SetWorker, TypeOK, WorkerStates
  <2>3. CASE NextHost(w) \/ Start(w)
    BY <2>3 DEF NextHost, Start, TypeOK, WorkerStates
  <2>4. CASE CaptureHost(w)
    BY <2>4 DEF CaptureHost, TypeOK, WorkerStates
  <2>5. CASE Release(w)
    BY <2>5, WorkerType DEF Release, TypeOK, WorkerStates
  <2>6. CASE CaptureRaises(w)
    BY <2>6 DEF CaptureRaises, SetWorker, TypeOK, WorkerStates
  <2> QED
    BY <2>1, <2>2, <2>3, <2>4, <2>5, <2>6
<1>3. ASSUME NEW p \in Procs, LoseProcess(p) PROVE NoNewTask
  BY <1>3, WorkerType DEF LoseProcess
<1>4. ASSUME NEW w \in Workers, FaultStep(w) PROVE NoNewTask
  <2>1. CASE CaughtFault(w)
    BY <2>1 DEF CaughtFault, SetWorker, TypeOK, WorkerStates
  <2>2. CASE Die(w)
    BY <2>2, <1>3, WorkerType DEF Die, Workers, Procs, TypeOK
  <2> QED
    BY <1>4, <2>1, <2>2 DEF FaultStep, EscapingFault, ReleaseAndDie
<1>5. ASSUME NEW p \in Procs, StartWorkers(p) PROVE NoNewTask
  BY <1>5, WorkerType DEF StartWorkers
<1>6. \/ UNCHANGED worker
      \/ \E w \in Workers : WorkerStep(w) \/ FaultStep(w)
      \/ \E p \in Procs : LoseProcess(p) \/ StartWorkers(p)
  BY DEF vars, Next, RequestStep, RequestFault, Submit, Retry, TryLock, Relock,
      InsertTask, Launch, Undo, Cancel, StartStep, Boot, Recover, ReleaseRecovered,
      Crash, AdminCleanup, AdminDelete, AdminList, EditInventory, Tick
<1> QED
  BY <1>1, <1>2, <1>3, <1>4, <1>5, <1>6

\* The strengthening: the task of a worker has left the queue, so that no second
\* worker can claim it.
OneWorkerInv ==
    /\ OneWorkerPerTask
    /\ \A w \in Workers : worker[w].task # NoTask => Begun(worker[w].task)

\* Every step keeps a task in the hands of one worker: a claim takes a queued row,
\* and a row is never queued again.
LEMMA OneWorkerStep == TypeOK /\ OneWorkerInv /\ [Next]_vars => OneWorkerInv'
<1> SUFFICES ASSUME TypeOK, OneWorkerInv, [Next]_vars PROVE OneWorkerInv'
  OBVIOUS
<1>1. RowsPersist
  BY RowsPersistStep
<1>2. \A w \in Workers : worker[w].task \in TaskIds \cup {NoTask}
  BY DEF TypeOK, WorkerStates
<1>3. CASE NoNewTask
  BY <1>1, <1>2, <1>3 DEF NoNewTask, RowsPersist, OneWorkerInv, OneWorkerPerTask, Begun
<1>4. ASSUME NEW w \in Workers, Claim(w) PROVE OneWorkerInv'
  <2>1. PICK t \in TaskIds :
           /\ tasks[t].status = "queued"
           /\ tasks' = SetStatus(tasks, t, "running")
           /\ worker' = [worker EXCEPT ![w] =
                            [IdleWorker EXCEPT !.pc = "claimed", !.task = t]]
    BY <1>4 DEF Claim, IsOldestQueued, TasksWith
  <2>2. /\ worker'[w].task = t
        /\ \A v \in Workers \ {w} : worker'[v] = worker[v]
        /\ Begun(t)'
    BY <2>1 DEF TypeOK, IdleWorker, SetStatus, Begun, Rows
  <2>3. \A v \in Workers : worker[v].task # t
    BY <2>1, MaxTasksAssumption DEF OneWorkerInv, Begun, TaskIds, NoTask
  <2> QED
    BY <1>1, <1>2, <2>2, <2>3 DEF OneWorkerInv, OneWorkerPerTask, RowsPersist, Begun
<1> QED
  BY <1>3, <1>4, OnlyClaimHandsOver

\* The strengthened invariant holds in any deployment.
THEOREM OneWorkerInvariant == Spec => []OneWorkerInv
<1>1. Init => OneWorkerInv
  BY WorkerType DEF Init, OneWorkerInv, OneWorkerPerTask
<1> QED
  BY <1>1, OneWorkerStep, TypeCorrect, PTL DEF Spec

\* No task is ever run by two workers, in any deployment: two processes polling
\* one database included.
THEOREM OneWorkerCorrect == Spec => []OneWorkerPerTask
<1>1. OneWorkerInv => OneWorkerPerTask
  BY DEF OneWorkerInv
<1> QED
  BY <1>1, OneWorkerInvariant, PTL
-----------------------------------------------------------------------------
(* What every step leaves alone.                                            *)

\* A step of a worker, or a fault that ends none, leaves the other workers and
\* their rows alone.
LEMMA OthersUndisturbed ==
    ASSUME TypeOK, OneWorkerInv, NEW w \in Workers,
           WorkerStep(w) \/ CaughtFault(w), NEW v \in Workers, v # w
    PROVE  /\ worker'[v] = worker[v]
           /\ worker[v].task # NoTask => tasks'[worker[v].task] = tasks[worker[v].task]
<1>1. worker[v].task # NoTask =>
         worker[v].task # worker[w].task /\ tasks[worker[v].task].status # "queued"
  BY DEF OneWorkerInv, OneWorkerPerTask, Begun
<1>2. worker'[v] = worker[v]
  BY DEF WorkerStep, Claim, LoadInventory, FailMissing, Start, NextHost, MarkCancelled,
      CaptureHost, CaptureRaises, Finish, HandleException, Release, CaughtFault,
      SetWorker, TypeOK
<1>3. worker[v].task # NoTask => tasks'[worker[v].task] = tasks[worker[v].task]
  BY <1>1 DEF WorkerStep, Claim, LoadInventory, FailMissing, Start, NextHost, MarkCancelled,
      CaptureHost, CaptureRaises, Finish, HandleException, Release, CaughtFault, TypeOK,
      WorkerStates, SetStatus, FailWithError, Conclude, ConcludeWithError, IsOldestQueued, TasksWith
<1> QED
  BY <1>2, <1>3


\* A worker loop changes by a step of its own, or ends or starts over.
LEMMA WorkerWriters ==
    ASSUME TypeOK, [Next]_vars
    PROVE  \/ \E w \in Workers : WorkerStep(w) \/ CaughtFault(w)
           \/ \A v \in Workers : worker'[v] \in {worker[v], IdleWorker, DeadWorker}
<1> DEFINE Lost == \A v \in Workers : worker'[v] \in {worker[v], IdleWorker, DeadWorker}
<1>1. CASE UNCHANGED worker
  BY <1>1
<1>2. ASSUME NEW p \in Procs, LoseProcess(p) \/ StartWorkers(p) PROVE Lost
  BY <1>2 DEF LoseProcess, StartWorkers
<1>3. ASSUME NEW w \in Workers, Die(w) PROVE Lost
  BY <1>2, <1>3 DEF Die, Workers, Procs, TypeOK
<1>4. \/ UNCHANGED worker
      \/ \E w \in Workers : WorkerStep(w) \/ CaughtFault(w) \/ Die(w)
      \/ \E p \in Procs : LoseProcess(p) \/ StartWorkers(p)
  BY DEF vars, Next, FaultStep, EscapingFault, ReleaseAndDie, RequestStep, RequestFault,
      Submit, Retry, TryLock, Relock, InsertTask, Launch, Undo, Cancel, StartStep, Boot,
      Recover, ReleaseRecovered, Crash, AdminCleanup, AdminDelete, AdminList,
      EditInventory, Tick
<1> QED
  BY <1>1, <1>2, <1>3, <1>4

\* The row of a worker that does not act stays its row, with the same hosts, and
\* a cancel request on it stays too.
LEMMA RowStays ==
    ASSUME TypeOK, OneWorkerInv, [Next]_vars, NEW v \in Workers, worker[v].task # NoTask,
           worker'[v].task = worker[v].task
    PROVE  /\ Row(v)'.hosts = Row(v).hosts
           /\ Row(v).cancel => Row(v)'.cancel
<1>1. worker[v].task \in TaskIds /\ tasks[worker[v].task].status # "absent"
  BY DEF TypeOK, WorkerStates, OneWorkerInv, Begun
<1> QED
  BY <1>1, RowsPersistStep DEF RowsPersist, Row
-----------------------------------------------------------------------------
(* A cancel request is answered late by one session at most.                *)

\* A task that has finished a host since its cancel was requested has no session
\* open any more, and as the request stays none is opened.
LateInv ==
    \A t \in TaskIds : lateDone[t] # {} =>
        /\ \E h \in Hosts : lateDone[t] = {h}
        /\ tasks[t].status # "absent" /\ tasks[t].cancel
        /\ \A w \in Workers : worker[w].task = t => worker[w].pc # "capture"

\* Only NextHost opens a session, and only without a cancel request.
LEMMA SessionsOpen ==
    ASSUME TypeOK, [Next]_vars, NEW v \in Workers, worker'[v].pc = "capture"
    PROVE  \/ worker'[v] = worker[v]
           \/ NextHost(v) /\ ~Row(v).cancel /\ worker'[v].task = worker[v].task
<1>1. CASE \A u \in Workers : worker'[u] \in {worker[u], IdleWorker, DeadWorker}
  BY <1>1, WorkerType
<1>2. ASSUME NEW w \in Workers, WorkerStep(w) \/ CaughtFault(w), v # w
      PROVE  worker'[v] = worker[v]
  BY <1>2 DEF WorkerStep, Claim, LoadInventory, FailMissing, Start, NextHost, MarkCancelled,
      CaptureHost, CaptureRaises, Finish, HandleException, Release, CaughtFault,
      SetWorker, TypeOK
<1>3. CASE WorkerStep(v) \/ CaughtFault(v)
  <2>1. CASE NextHost(v)
    <3>1. /\ worker'[v].pc = IF Row(v).cancel THEN "cancelling" ELSE "capture"
          /\ worker'[v].task = worker[v].task
      BY <2>1 DEF NextHost, TypeOK, WorkerStates
    <3> QED
      BY <2>1, <3>1
  <2>2. CASE \E pc \in WorkerPcs \ {"capture"} : SetWorker(v, pc)
    <3>1. PICK pc \in WorkerPcs \ {"capture"} : SetWorker(v, pc)
      BY <2>2
    <3>2. worker'[v].pc = pc
      BY <3>1 DEF SetWorker, TypeOK, WorkerStates
    <3> QED
      BY <3>1, <3>2
  <2>3. CASE Claim(v) \/ Release(v)
    <3>1. CASE Claim(v)
      <4>1. PICK t \in TaskIds : worker' = [worker EXCEPT ![v] =
                                     [IdleWorker EXCEPT !.pc = "claimed", !.task = t]]
        BY <3>1 DEF Claim
      <4>2. worker'[v].pc = "claimed"
        BY <4>1 DEF TypeOK, IdleWorker
      <4> QED
        BY <4>2
    <3>2. CASE Release(v)
      BY <3>2, WorkerType DEF Release, TypeOK
    <3> QED
      BY <2>3, <3>1, <3>2
  <2>4. CASE Start(v) \/ CaptureHost(v) \/ CaptureRaises(v)
    <3>1. worker'[v].pc \in {"loop", "except"}
      <4>1. CASE Start(v)
        BY <4>1 DEF Start, TypeOK, WorkerStates
      <4>2. CASE CaptureHost(v)
        BY <4>2 DEF CaptureHost, TypeOK, WorkerStates
      <4>3. CASE CaptureRaises(v)
        BY <4>3 DEF CaptureRaises, SetWorker, TypeOK, WorkerStates
      <4> QED
        BY <2>4, <4>1, <4>2, <4>3
    <3> QED
      BY <3>1
  <2>5. NextHost(v) \/ Claim(v) \/ Release(v) \/ Start(v) \/ CaptureHost(v) \/ CaptureRaises(v)
           \/ \E pc \in WorkerPcs \ {"capture"} : SetWorker(v, pc)
    BY <1>3 DEF WorkerStep, LoadInventory, FailMissing, MarkCancelled, Finish,
        HandleException, CaughtFault, WorkerPcs, InTry
  <2> QED
    BY <2>1, <2>2, <2>3, <2>4, <2>5
<1> QED
  BY <1>1, <1>2, <1>3, WorkerWriters

\* Every step keeps the sessions closed to a task that has finished a host late.
LEMMA LateStep == TypeOK /\ OneWorkerInv /\ LateInv /\ [Next]_vars => LateInv'
<1> SUFFICES ASSUME TypeOK, OneWorkerInv, LateInv, [Next]_vars,
                    NEW t \in TaskIds, lateDone'[t] # {}
             PROVE  /\ \E h \in Hosts : lateDone'[t] = {h}
                    /\ tasks'[t].status # "absent" /\ tasks'[t].cancel
                    /\ \A w \in Workers : worker'[w].task = t => worker'[w].pc # "capture"
  BY DEF LateInv
<1>1. RowsPersist
  BY RowsPersistStep
<1>2. CASE lateDone'[t] = lateDone[t]
  <2>1. \A w \in Workers : worker[w].task = t => worker[w].pc # "capture"
    BY <1>2 DEF LateInv
  <2>2. tasks[t].status # "absent" /\ tasks[t].cancel
    BY <1>2 DEF LateInv
  <2>3. ASSUME NEW w \in Workers, worker'[w].task = t PROVE worker'[w].pc # "capture"
    BY <2>1, <2>2, <2>3, SessionsOpen DEF Row
  <2> QED
    BY <1>1, <1>2, <2>2, <2>3 DEF LateInv, RowsPersist
<1>3. ASSUME NEW w \in Workers, CaptureHost(w), lateDone'[t] # lateDone[t]
      PROVE  /\ \E h \in Hosts : lateDone'[t] = {h}
             /\ tasks'[t].status # "absent" /\ tasks'[t].cancel
             /\ \A v \in Workers : worker'[v].task = t => worker'[v].pc # "capture"
  <2> DEFINE h == worker[w].host
  <2>1. worker[w].task = t /\ Row(w).cancel /\ lateDone'[t] = lateDone[t] \cup {h}
    BY <1>3 DEF CaptureHost, TypeOK
  <2>2. worker[w].pc = "capture" /\ h \in Hosts /\ t # NoTask
    BY <1>3, MaxTasksAssumption DEF CaptureHost, TypeOK, TaskIds, NoTask
  <2>3. lateDone[t] = {}
    BY <2>1, <2>2 DEF LateInv
  <2>4. tasks[t].status # "absent" /\ tasks[t].cancel
    BY <2>1, <2>2 DEF OneWorkerInv, Begun, Row
  <2>5. worker'[w].pc = "loop"
    BY <1>3 DEF CaptureHost, TypeOK, WorkerStates
  <2>6. ASSUME NEW v \in Workers, worker'[v].task = t, v # w
        PROVE  worker'[v].pc # "capture"
    <3>1. worker'[v] = worker[v]
      BY <1>3, <2>6, OthersUndisturbed DEF WorkerStep
    <3> QED
      BY <2>1, <2>2, <2>6, <3>1 DEF OneWorkerInv, OneWorkerPerTask
  <2> QED
    BY <1>1, <2>1, <2>2, <2>3, <2>4, <2>5, <2>6 DEF RowsPersist
<1>4. UNCHANGED lateDone \/ \E w \in Workers : CaptureHost(w)
  BY DEF vars, Next, FaultStep, EscapingFault, ReleaseAndDie, CaughtFault, RequestStep,
      RequestFault, Submit, Retry, TryLock, Relock, InsertTask, Launch, Undo, Cancel,
      WorkerStep, Claim, LoadInventory, FailMissing, Start, NextHost, MarkCancelled,
      CaptureRaises, Finish, HandleException, Release, StartStep, Boot, Recover,
      StartWorkers, ReleaseRecovered, Crash, AdminCleanup, AdminDelete, AdminList,
      EditInventory, Tick
<1> QED
  BY <1>2, <1>3, <1>4

\* The cancel flag is read before each session and stays once it is set, so at
\* most the session that was open at the request ends after it, in every
\* deployment.
THEOREM LateCaptureCorrect == Spec => []LateCaptureBound
<1>1. Init => LateInv
  BY DEF Init, LateInv
<1>2. TypeOK /\ LateInv => LateCaptureBound
  <2> SUFFICES ASSUME TypeOK, LateInv, NEW t \in TaskIds
               PROVE  Cardinality(lateDone[t]) <= 1
    BY DEF LateCaptureBound
  <2>1. lateDone[t] = {} \/ \E h \in Hosts : lateDone[t] = {h}
    BY DEF LateInv
  <2>2. Cardinality(lateDone[t]) \in {0, 1}
    BY <2>1, FS_EmptySet, FS_Singleton
  <2> QED
    BY <2>2
<1> QED
  BY <1>1, <1>2, LateStep, OneWorkerInvariant, TypeCorrect, PTL DEF Spec
-----------------------------------------------------------------------------
(* The result of a task agrees with its status.                             *)

RowResult(row) ==
    /\ row.ok \cap row.bad = {}
    /\ row.status = "completed" => row.ok # {} /\ row.ok \cup row.bad = row.hosts
    /\ row.status = "cancelled" => row.cancel /\ row.ok \cup row.bad # row.hosts
    /\ row.status = "failed" /\ ~row.error => row.bad = row.hosts /\ row.ok = {}

\* What a worker has captured and what it has left to do make up the hosts of its
\* row, and a worker that is about to cancel has a host left.
Tallied(w) ==
    LET run == worker[w] IN
    /\ run.ok \cap run.bad = {}
    /\ run.pc \in {"claimed", "missing", "start"} => run.ok = {} /\ run.bad = {}
    /\ run.pc \in InTry =>
          /\ run.ok \cup run.bad \subseteq Row(w).hosts
          /\ run.todo = Row(w).hosts \ (run.ok \cup run.bad)
    /\ run.pc \in {"capture", "cancelling"} => run.host \in run.todo
    /\ run.pc = "cancelling" => Row(w).cancel

\* The strengthening of ResultMatchesStatus.  No task is without hosts: that is
\* why one that captured none of them failed.
TallyInv ==
    /\ \A c \in Clients : client[c].pc \in {"lock", "relock", "create"} => client[c].target # {}
    /\ \A t \in TaskIds : tasks[t].status # "absent" => tasks[t].hosts # {}
    /\ \A w \in Workers : Tallied(w)
    /\ \A t \in TaskIds : RowResult(tasks[t])

\* A request that goes for locks names a host.
LEMMA TargetsStep ==
    ASSUME TypeOK, TallyInv, [Next]_vars
    PROVE  \A c \in Clients : client'[c].pc \in {"lock", "relock", "create"} => client'[c].target # {}
<1> DEFINE Named == \A c \in Clients :
              client'[c].pc \in {"lock", "relock", "create"} => client'[c].target # {}
<1> USE DEF TypeOK, ClientStates
<1>1. CASE UNCHANGED client
  BY <1>1 DEF TallyInv
<1>2. ASSUME NEW c \in Clients, TryLock(c) \/ Relock(c) PROVE Named
  <2>1. ASSUME NEW d \in Clients, d # c PROVE client'[d] = client[d]
    BY <1>2, <2>1 DEF TryLock, Relock, Acquire, SetClient, EndRequest
  <2>2. client'[c].pc \in {"lock", "relock", "create"} => client'[c].target # {}
    BY <1>2 DEF TryLock, Relock, Acquire, SetClient, EndRequest, IdleClient, TallyInv
  <2> QED
    BY <2>1, <2>2 DEF TallyInv
<1>3. ASSUME NEW c \in Clients, InsertTask(c) \/ Launch(c) \/ Undo(c) \/ RequestFault(c) PROVE Named
  BY <1>3 DEF InsertTask, Launch, Undo, RequestFault, SetClient, EndRequest, IdleClient, TallyInv
<1>4. ASSUME NEW c \in Clients, NEW mode \in {"single", "batch"}, NEW requested \in SUBSET Hosts,
             Submit(c, mode, requested)
      PROVE  Named
  BY <1>4 DEF Submit, ValidRequest, TallyInv
<1>5. ASSUME NEW c \in Clients, NEW t \in TaskIds, Retry(c, t) PROVE Named
  BY <1>5 DEF Retry, Terminal, TallyInv
<1>6. ASSUME NEW p \in Procs, LoseProcess(p) PROVE Named
  BY <1>6 DEF LoseProcess, IdleClient, TallyInv
<1>7. ASSUME NEW w \in Workers, Die(w) PROVE Named
  BY <1>1, <1>6, <1>7 DEF Die, Workers, Procs
<1>8. \/ UNCHANGED client
      \/ \E c \in Clients :
            \/ TryLock(c) \/ Relock(c) \/ InsertTask(c) \/ Launch(c) \/ Undo(c) \/ RequestFault(c)
            \/ \E mode \in {"single", "batch"}, requested \in SUBSET Hosts :
                   Submit(c, mode, requested)
            \/ \E t \in TaskIds : Retry(c, t)
      \/ \E p \in Procs : LoseProcess(p)
      \/ \E w \in Workers : Die(w)
  BY DEF vars, Next, FaultStep, EscapingFault, ReleaseAndDie, CaughtFault, RequestStep,
      Cancel, WorkerStep, Claim, LoadInventory, FailMissing, Start, NextHost, MarkCancelled,
      CaptureHost, CaptureRaises, Finish, HandleException, Release, StartStep, Boot, Recover,
      StartWorkers, ReleaseRecovered, Crash, AdminCleanup, AdminDelete, AdminList,
      EditInventory, Tick
<1> QED
  BY <1>1, <1>2, <1>3, <1>4, <1>5, <1>6, <1>7, <1>8

\* So does a row.
LEMMA RowHostsStep ==
    ASSUME TypeOK, OneWorkerInv, TallyInv, [Next]_vars
    PROVE  \A t \in TaskIds : tasks'[t].status # "absent" => tasks'[t].hosts # {}
<1>1. ASSUME NEW c \in Clients, InsertTask(c), NEW t \in TaskIds, tasks'[t].status # "absent"
      PROVE  tasks'[t].hosts # {}
  BY <1>1 DEF InsertTask, CreateTask, NoRow, TypeOK, TallyInv
<1>2. ASSUME NEW t \in TaskIds, tasks[t].status = "absent", tasks'[t].status # "absent"
      PROVE  \E c \in Clients : InsertTask(c)
  <2> SUFFICES ASSUME \A c \in Clients : ~InsertTask(c) PROVE FALSE
    OBVIOUS
  <2> USE <1>2 DEF TypeOK, Rows
  <2>1. ~ UNCHANGED tasks
    OBVIOUS
  <2>2. ASSUME NEW u \in TaskIds, Cancel(u) PROVE FALSE
    BY <2>2 DEF Cancel, RequestCancel
  <2>3. ASSUME NEW w \in Workers, Claim(w) PROVE FALSE
    BY <2>3 DEF Claim, IsOldestQueued, TasksWith, SetStatus
  <2>4. ASSUME NEW w \in Workers,
               \/ FailMissing(w) \/ Start(w) \/ MarkCancelled(w) \/ Finish(w) \/ HandleException(w)
        PROVE  FALSE
    <3>1. worker[w].task # t
      BY <2>4 DEF FailMissing, Start, MarkCancelled, Finish, HandleException, OneWorkerInv,
          Begun, WorkerStates, InTry
    <3>2. tasks'[t] = tasks[t]
      BY <2>4, <3>1 DEF FailMissing, Start, MarkCancelled, Finish, HandleException, SetStatus,
          FailWithError, Conclude, ConcludeWithError
    <3> QED
      BY <3>2
  <2>5. ASSUME NEW p \in Procs, Recover(p) PROVE FALSE
    BY <2>5 DEF Recover, RecoverRunning
  <2> QED
    BY <2>1, <2>2, <2>3, <2>4, <2>5, TableWriters
<1>3. RowsPersist
  BY RowsPersistStep
<1> QED
  BY <1>1, <1>2, <1>3 DEF RowsPersist, TallyInv

\* The tally of a worker is right after its own step.
LEMMA TallyOwnStep ==
    ASSUME TypeOK, OneWorkerInv, TallyInv, [Next]_vars,
           NEW w \in Workers, WorkerStep(w) \/ CaughtFault(w)
    PROVE  Tallied(w)'
<1> DEFINE run == worker[w]
<1>1. Tallied(w) /\ run \in WorkerStates
  BY DEF TallyInv, TypeOK
<1>2. run.pc \notin {"dead", "poll"} /\ worker'[w].task = run.task =>
         /\ Row(w)'.hosts = Row(w).hosts
         /\ Row(w).cancel => Row(w)'.cancel
  BY RowStays DEF TypeOK
<1> USE DEF Tallied, InTry
<1>3. ASSUME NEW pc \in {"missing", "start", "except", "unwind", "release"}, SetWorker(w, pc),
             pc \in {"missing", "start"} => run.pc = "claimed"
      PROVE  Tallied(w)'
  <2>1. worker'[w] = [run EXCEPT !.pc = pc]
    BY <1>3 DEF SetWorker, TypeOK
  <2>2. worker'[w].pc = pc /\ worker'[w].ok = run.ok /\ worker'[w].bad = run.bad
    BY <2>1, <1>1 DEF WorkerStates
  <2> QED
    BY <1>1, <1>3, <2>2
<1>4. CASE Claim(w) \/ Release(w)
  <2>1. \/ worker'[w] = IdleWorker
        \/ \E u \in TaskIds : worker'[w] = [IdleWorker EXCEPT !.pc = "claimed", !.task = u]
    BY <1>4 DEF Claim, Release, TypeOK
  <2>2. worker'[w].ok = {} /\ worker'[w].bad = {} /\ worker'[w].pc \in {"claimed", "poll"}
    <3>1. CASE worker'[w] = IdleWorker
      BY <3>1 DEF IdleWorker
    <3>2. ASSUME NEW u \in TaskIds, worker'[w] = [IdleWorker EXCEPT !.pc = "claimed", !.task = u]
          PROVE  worker'[w].ok = {} /\ worker'[w].bad = {} /\ worker'[w].pc \in {"claimed", "poll"}
      BY <3>2 DEF IdleWorker
    <3> QED
      BY <2>1, <3>1, <3>2
  <2> QED
    BY <2>2
<1>5. CASE Start(w)
  <2>1. /\ worker'[w].pc = "loop" /\ worker'[w].todo = Row(w).hosts
        /\ worker'[w].ok = run.ok /\ worker'[w].bad = run.bad /\ worker'[w].task = run.task
    BY <1>5, <1>1 DEF Start, TypeOK, WorkerStates
  <2> QED
    BY <1>1, <1>2, <1>5, <2>1 DEF Start
<1>6. CASE NextHost(w)
  <2>1. PICK h \in run.todo :
           worker' = [worker EXCEPT
               ![w].pc = IF Row(w).cancel THEN "cancelling" ELSE "capture", ![w].host = h]
    BY <1>6 DEF NextHost
  <2>2. /\ worker'[w].pc = IF Row(w).cancel THEN "cancelling" ELSE "capture"
        /\ worker'[w].host = h /\ worker'[w].todo = run.todo
        /\ worker'[w].ok = run.ok /\ worker'[w].bad = run.bad /\ worker'[w].task = run.task
    BY <1>1, <2>1 DEF TypeOK, WorkerStates
  <2> QED
    BY <1>1, <1>2, <1>6, <2>2 DEF NextHost
<1>7. CASE CaptureHost(w)
  <2> DEFINE h == run.host
  <2>1. PICK good \in BOOLEAN :
           worker' = [worker EXCEPT
               ![w].pc = "loop", ![w].todo = @ \ {h}, ![w].host = NoHost,
               ![w].ok  = IF good THEN @ \cup {h} ELSE @,
               ![w].bad = IF good THEN @ ELSE @ \cup {h}]
    BY <1>7 DEF CaptureHost
  <2>2. /\ worker'[w].pc = "loop" /\ worker'[w].task = run.task
        /\ worker'[w].todo = run.todo \ {h}
        /\ worker'[w].ok = IF good THEN run.ok \cup {h} ELSE run.ok
        /\ worker'[w].bad = IF good THEN run.bad ELSE run.bad \cup {h}
    BY <1>1, <2>1 DEF TypeOK, WorkerStates
  <2>3. h \in run.todo /\ run.pc = "capture"
    BY <1>1, <1>7 DEF CaptureHost
  <2> QED
    BY <1>1, <1>2, <2>2, <2>3
<1>8. CASE CaptureRaises(w)
  <2>1. CASE SetWorker(w, "except")
    BY <1>3, <2>1
  <2>2. CASE worker' = [worker EXCEPT ![w].pc = "except", ![w].ok = @ \cup {worker[w].host}]
    <3>1. /\ worker'[w].pc = "except" /\ worker'[w].bad = run.bad
          /\ worker'[w].ok = run.ok \cup {run.host}
      BY <1>1, <2>2 DEF TypeOK, WorkerStates
    <3> QED
      BY <1>1, <1>8, <3>1 DEF CaptureRaises
  <2> QED
    BY <1>8, <2>1, <2>2 DEF CaptureRaises
<1>9. CASE \/ LoadInventory(w) \/ FailMissing(w) \/ MarkCancelled(w) \/ Finish(w)
           \/ HandleException(w) \/ CaughtFault(w)
  <2>1. \E pc \in {"missing", "start", "except", "unwind", "release"} :
           SetWorker(w, pc) /\ (pc \in {"missing", "start"} => run.pc = "claimed")
    BY <1>9 DEF LoadInventory, FailMissing, MarkCancelled, Finish, HandleException, CaughtFault
  <2> QED
    BY <1>3, <2>1
<1> QED
  BY <1>4, <1>5, <1>6, <1>7, <1>8, <1>9 DEF WorkerStep

\* Every step keeps the tally of every worker: its own steps move one host from
\* what is left to what is done, and the steps of others leave its row in place.
LEMMA TallyStep ==
    ASSUME TypeOK, OneWorkerInv, TallyInv, [Next]_vars
    PROVE  \A w \in Workers : Tallied(w)'
<1> SUFFICES ASSUME NEW v \in Workers PROVE Tallied(v)'
  OBVIOUS
<1>1. CASE worker'[v] = worker[v]
  BY <1>1, RowStays DEF TallyInv, Tallied, TypeOK, InTry
<1>2. CASE worker'[v] \in {IdleWorker, DeadWorker}
  BY <1>2 DEF Tallied, IdleWorker, DeadWorker, InTry
<1>3. ASSUME NEW w \in Workers, WorkerStep(w) \/ CaughtFault(w) PROVE Tallied(v)'
  BY <1>1, <1>3, TallyOwnStep, OthersUndisturbed
<1> QED
  BY <1>1, <1>2, <1>3, WorkerWriters

\* Whoever writes a row, what it says about the result stays right: a worker
\* writes its tally, recovery and the handlers of exceptions record an error.
LEMMA RowResultStep ==
    ASSUME TypeOK, OneWorkerInv, TallyInv, [Next]_vars
    PROVE  \A t \in TaskIds : RowResult(tasks'[t])
<1> DEFINE Right == \A t \in TaskIds : RowResult(tasks'[t])
<1>1. /\ tasks \in [TaskIds -> Rows]
      /\ \A t \in TaskIds : RowResult(tasks[t])
  BY DEF TypeOK, TallyInv
<1>0. tasks \in [TaskIds -> Rows]
  BY <1>1
<1> USE DEF RowResult
<1>2. CASE UNCHANGED tasks
  BY <1>1, <1>2
<1>3. ASSUME NEW c \in Clients, InsertTask(c) PROVE Right
  BY <1>1, <1>3 DEF InsertTask, CreateTask, NoRow
<1>4. ASSUME NEW u \in TaskIds, Cancel(u) PROVE Right
  <2>1. \A t \in TaskIds :
           /\ tasks'[t].status = tasks[t].status /\ tasks'[t].error = tasks[t].error
           /\ tasks'[t].ok = tasks[t].ok /\ tasks'[t].bad = tasks[t].bad
           /\ tasks'[t].hosts = tasks[t].hosts
           /\ tasks[t].cancel => tasks'[t].cancel
    BY <1>1, <1>4 DEF Cancel, RequestCancel, Rows
  <2> QED
    BY <1>1, <2>1
<1>5. ASSUME NEW t \in TaskIds, tasks' = SetStatus(tasks, t, "running") PROVE Right
  BY <1>1, <1>5 DEF SetStatus, Rows
<1>6. ASSUME NEW w \in Workers, worker[w].pc \notin {"dead", "poll"}
      PROVE  /\ worker[w].task \in TaskIds
             /\ Row(w).hosts # {}
             /\ Tallied(w)
  BY <1>6 DEF TypeOK, WorkerStates, OneWorkerInv, Begun, TallyInv, Row
<1>7. ASSUME NEW w \in Workers, FailMissing(w) PROVE Right
  <2>1. worker[w].task \in TaskIds /\ tasks' = FailWithError(tasks, worker[w].task)
    BY <1>6, <1>7 DEF FailMissing
  <2> QED
    BY <1>1, <2>1, ErrorWritten
<1>8. ASSUME NEW w \in Workers, Claim(w) \/ Start(w) PROVE Right
  BY <1>5, <1>6, <1>8 DEF Claim, Start
<1>9. ASSUME NEW w \in Workers, MarkCancelled(w) PROVE Right
  <2> DEFINE t   == worker[w].task
             ok  == worker[w].ok
             bad == worker[w].bad
  <2>1. /\ t \in TaskIds /\ tasks[t].cancel
        /\ ok \cap bad = {} /\ ok \cup bad # tasks[t].hosts
        /\ tasks' = Conclude(tasks, t, "cancelled", ok, bad)
    BY <1>6, <1>9 DEF MarkCancelled, Tallied, Row, InTry
  <2> HIDE DEF t, ok, bad
  <2> DEFINE row == RowOf("cancelled", tasks[t].hosts, tasks[t].cancel, ok, bad,
                          tasks[t].error)
  <2>2. tasks' = [tasks EXCEPT ![t] = row]
    <3>1. /\ t \in TaskIds
          /\ tasks' = Conclude(tasks, t, "cancelled", ok, bad)
      BY <2>1
    <3> QED
      BY <1>0, <3>1, ConcludeForm, Zenon
  <2>3. RowResult(row)
    BY <2>1 DEF RowOf
  <2> HIDE DEF row, RowResult
  <2> QED
    BY <1>0, <1>1, <2>1, <2>2, <2>3
<1>10. ASSUME NEW w \in Workers, Finish(w) PROVE Right
  <2>1. /\ worker[w].ok \cup worker[w].bad = Row(w).hosts
        /\ worker[w].ok \cap worker[w].bad = {}
        /\ worker[w].task \in TaskIds /\ Row(w).hosts # {}
    BY <1>6, <1>10 DEF Finish, Tallied, InTry
  <2> DEFINE status == FinalStatus(worker[w].ok, worker[w].bad)
  <2>2. /\ status = "failed" => worker[w].bad = Row(w).hosts /\ worker[w].ok = {}
        /\ status # "failed" => status = "completed" /\ worker[w].ok # {}
    BY <2>1 DEF FinalStatus
  <2>3. tasks' = Conclude(tasks, worker[w].task, status, worker[w].ok, worker[w].bad)
    BY <1>10 DEF Finish
  <2> HIDE DEF status
  <2> DEFINE t == worker[w].task
  <2>4. /\ tasks'[t].status = status
        /\ tasks'[t].ok = worker[w].ok /\ tasks'[t].bad = worker[w].bad
        /\ tasks'[t].hosts = tasks[t].hosts
        /\ \A u \in TaskIds \ {t} : tasks'[u] = tasks[u]
    BY <1>0, <2>1, <2>3, ResultWritten
  <2>5. RowResult(tasks'[t])
    BY <2>1, <2>2, <2>4 DEF Row
  <2> HIDE DEF RowResult, t
  <2> QED
    BY <1>1, <2>4, <2>5
<1>11. ASSUME NEW w \in Workers, HandleException(w) PROVE Right
  <2>1. /\ worker[w].task \in TaskIds
        /\ worker[w].ok \cap worker[w].bad = {}
        /\ tasks' = ConcludeWithError(tasks, worker[w].task, worker[w].ok, worker[w].bad)
    BY <1>6, <1>11 DEF HandleException, Tallied
  <2> DEFINE t == worker[w].task
  <2>2. /\ tasks'[t].status = "failed" /\ tasks'[t].error
        /\ tasks'[t].ok = worker[w].ok /\ tasks'[t].bad = worker[w].bad
        /\ \A u \in TaskIds \ {t} : tasks'[u] = tasks[u]
    BY <1>1, <2>1, ErrorResultWritten
  <2>3. RowResult(tasks'[t])
    BY <2>1, <2>2
  <2> HIDE DEF t
  <2> QED
    BY <1>1, <2>2, <2>3
<1>12. ASSUME NEW p \in Procs, Recover(p) PROVE Right
  <2>1. \A t \in TaskIds : \/ tasks'[t] = tasks[t]
                           \/ /\ tasks'[t].status = "failed" /\ tasks'[t].error
                              /\ tasks'[t].ok = tasks[t].ok /\ tasks'[t].bad = tasks[t].bad
    BY <1>1, <1>12 DEF Recover, RecoverRunning, Rows
  <2> QED
    BY <1>1, <2>1
<1> QED
  BY <1>2, <1>3, <1>4, <1>7, <1>8, <1>9, <1>10, <1>11, <1>12, TableWriters

\* The strengthened invariant holds in any deployment.
THEOREM TallyInvariant == Spec => []TallyInv
<1>1. Init => TallyInv
  BY DEF Init, TallyInv, Tallied, RowResult, IdleClient, NoRow, DeadWorker, IdleWorker, InTry
<1>2. TypeOK /\ OneWorkerInv /\ TallyInv /\ [Next]_vars => TallyInv'
  BY TargetsStep, RowHostsStep, TallyStep, RowResultStep DEF TallyInv
<1> QED
  BY <1>1, <1>2, OneWorkerInvariant, TypeCorrect, PTL DEF Spec

\* What result_json lists agrees with the status in every deployment, whatever
\* crashes, recoveries, faults and other processes did to the row.
THEOREM ResultCorrect == Spec => []ResultMatchesStatus
<1>1. TallyInv => ResultMatchesStatus
  BY DEF TallyInv, ResultMatchesStatus, RowResult
<1> QED
  BY <1>1, TallyInvariant, PTL

-----------------------------------------------------------------------------
(* Worker and process discipline.                                           *)

\* With no standalone worker, the API process runs every worker.
LEMMA OneProcess ==
    ASSUME SafeRegime
    PROVE  Workers = ApiWorkers /\ Procs = {Api} /\ \A w \in Workers : ProcOf(w) = Api
BY DEF SafeRegime, Workers, Procs, ProcOf

\* The rows of the workers follow them through a worker's own step.
LEMMA WorkerRowsWorkerStep ==
    ASSUME SafeRegime, TypeOK, OneWorkerInv, WorkerRows, NEW w \in Workers, WorkerStep(w)
    PROVE  WorkerRows'
<1> DEFINE t == worker[w].task
           Good(v) == /\ worker[v].pc # "unwind"
                      /\ worker[v].pc = "release" => Row(v).status \in Terminal
                      /\ worker[v].pc \notin {"dead", "poll", "release"} =>
                            Row(v).status = "running"
                      /\ worker[v].pc \in InTry => worker[v].todo \subseteq Row(v).hosts
                      /\ worker[v].pc = "capture" => worker[v].host \in Row(v).hosts
<1>1. \A v \in Workers : Good(v)
  BY DEF WorkerRows
<1>2. ASSUME NEW v \in Workers, v # w PROVE Good(v)'
  BY <1>1, <1>2, OthersUndisturbed DEF TypeOK, Row, InTry
<1> SUFFICES Good(w)'
  BY <1>2 DEF WorkerRows
<1>3. worker[w].pc \notin {"dead", "poll"} => t \in TaskIds
  BY DEF TypeOK, WorkerStates
<1>4. tasks \in [TaskIds -> Rows] /\ worker \in [Workers -> WorkerStates]
  BY DEF TypeOK
<1>5. CASE Claim(w)
  <2>1. PICK u \in TaskIds :
           /\ tasks' = SetStatus(tasks, u, "running")
           /\ worker' = [worker EXCEPT ![w] =
                            [IdleWorker EXCEPT !.pc = "claimed", !.task = u]]
    BY <1>5 DEF Claim
  <2> QED
    BY <2>1, <1>4 DEF Row, SetStatus, Rows, IdleWorker, InTry
<1>6. CASE LoadInventory(w)
  BY <1>1, <1>3, <1>4, <1>6 DEF LoadInventory, SetWorker, Row, InTry, WorkerStates
<1>7. CASE FailMissing(w)
  BY <1>3, <1>4, <1>7 DEF FailMissing, SetWorker, FailWithError, Row, InTry, WorkerStates,
      Rows, Terminal
<1>8. CASE Start(w)
  BY <1>3, <1>4, <1>8 DEF Start, SetStatus, Row, InTry, WorkerStates, Rows
<1>9. CASE NextHost(w)
  <2>1. PICK h \in worker[w].todo :
           worker' = [worker EXCEPT
               ![w].pc = IF Row(w).cancel THEN "cancelling" ELSE "capture", ![w].host = h]
    BY <1>9 DEF NextHost
  <2>2. /\ worker'[w].pc \in {"cancelling", "capture"}
        /\ worker'[w].todo = worker[w].todo /\ worker'[w].host = h
        /\ worker'[w].task = worker[w].task
    BY <2>1, <1>4 DEF WorkerStates
  <2> QED
    BY <1>1, <1>9, <2>2 DEF NextHost, Row, InTry
<1>10. CASE MarkCancelled(w)
  BY <1>3, <1>4, <1>10 DEF MarkCancelled, SetWorker, Conclude, Row, InTry, WorkerStates,
      Rows, Terminal
<1>11. CASE CaptureHost(w)
  <2>1. /\ worker'[w].pc = "loop" /\ worker'[w].task = worker[w].task
        /\ worker'[w].todo = worker[w].todo \ {worker[w].host}
    BY <1>4, <1>11 DEF CaptureHost, WorkerStates
  <2> QED
    BY <1>1, <1>11, <2>1 DEF CaptureHost, Row, InTry
<1>12. CASE CaptureRaises(w)
  BY <1>1, <1>4, <1>12 DEF SafeRegime, CaptureRaises, SetWorker, Row, InTry, WorkerStates
<1>13. CASE Finish(w)
  <2>1. PICK status \in Terminal :
           tasks' = Conclude(tasks, worker[w].task, status, worker[w].ok, worker[w].bad)
    BY <1>13 DEF Finish, FinalStatus, Terminal
  <2>2. SetWorker(w, "release")
    BY <1>13 DEF Finish, SafeRegime
  <2>3. tasks'[t].status = status /\ worker'[w].pc = "release" /\ worker'[w].task = t
    BY <1>3, <1>4, <1>13, <2>1, <2>2 DEF Finish, Conclude, SetWorker, WorkerStates, Rows
  <2> QED
    BY <2>3 DEF Row, InTry
<1>14. CASE HandleException(w)
  <2>1. tasks'[t].status = "failed" /\ worker'[w].pc = "release" /\ worker'[w].task = t
    BY <1>3, <1>4, <1>14
    DEF HandleException, ConcludeWithError, SetWorker, WorkerStates, Rows
  <2> QED
    BY <2>1 DEF Row, InTry, Terminal
<1>15. CASE Release(w)
  BY <1>4, <1>15, WorkerType DEF Release, InTry
<1> QED
  BY <1>5, <1>6, <1>7, <1>8, <1>9, <1>10, <1>11, <1>12, <1>13, <1>14, <1>15 DEF WorkerStep

\* Steps that are not a worker's leave the rows of the workers as they are, or
\* leave no worker.
LEMMA WorkerRowsStep ==
    SafeRegime /\ TypeOK /\ OneWorkerInv /\ WorkerRows /\ QuietWhenDown /\ [Next]_vars
        => WorkerRows'
<1> SUFFICES ASSUME SafeRegime, TypeOK, OneWorkerInv, WorkerRows, QuietWhenDown, [Next]_vars
             PROVE  WorkerRows'
  OBVIOUS
<1>1. ASSUME NEW w \in Workers, WorkerStep(w) PROVE WorkerRows'
  BY <1>1, WorkerRowsWorkerStep
<1>2. CASE /\ UNCHANGED worker
           /\ \A w \in Workers : worker[w].task # NoTask =>
                 /\ tasks'[worker[w].task].status = tasks[worker[w].task].status
                 /\ tasks'[worker[w].task].hosts = tasks[worker[w].task].hosts
  BY <1>2 DEF WorkerRows, Row, TypeOK, InTry
<1>3. CASE \A w \in Workers : worker'[w] \in {IdleWorker, DeadWorker}
  BY <1>3, WorkerType DEF WorkerRows, InTry
<1>4. ASSUME NEW c \in Clients, InsertTask(c) PROVE WorkerRows'
  <2>1. PICK t \in TaskIds : tasks[t].status = "absent"
                             /\ tasks' = CreateTask(tasks, t, client[c].target)
    BY <1>4 DEF InsertTask
  <2>2. \A w \in Workers : worker[w].task # NoTask => worker[w].task # t
    BY <2>1 DEF OneWorkerInv, Begun
  <2> QED
    BY <1>2, <1>4, <2>1, <2>2 DEF InsertTask, CreateTask, TypeOK, WorkerStates
<1>5. ASSUME NEW t \in TaskIds, Cancel(t) PROVE WorkerRows'
  <2>1. \A u \in TaskIds : tasks'[u].status = tasks[u].status /\ tasks'[u].hosts = tasks[u].hosts
    BY <1>5 DEF Cancel, RequestCancel, TypeOK, Rows
  <2> QED
    BY <1>2, <1>5, <2>1 DEF Cancel, TypeOK, WorkerStates
<1>6. ASSUME NEW p \in Procs, Recover(p) PROVE WorkerRows'
  BY <1>2, <1>6, OneProcess DEF Recover, QuietWhenDown, ApiUp, TypeOK
<1>7. ASSUME NEW p \in Procs, LoseProcess(p) \/ StartWorkers(p) PROVE WorkerRows'
  BY <1>3, <1>7, OneProcess DEF LoseProcess, StartWorkers
<1>8. CASE UNCHANGED <<worker, tasks>>
  BY <1>2, <1>8
<1>9. \/ UNCHANGED <<worker, tasks>>
      \/ \E w \in Workers : WorkerStep(w)
      \/ \E c \in Clients : InsertTask(c)
      \/ \E t \in TaskIds : Cancel(t)
      \/ \E p \in Procs : Recover(p) \/ LoseProcess(p) \/ StartWorkers(p)
  BY DEF SafeRegime, vars, Next, RequestStep, RequestFault, Submit, Retry, TryLock, Relock,
      Launch, Undo, FaultStep, EscapingFault, CaughtFault, ReleaseAndDie, StartStep, Boot,
      ReleaseRecovered, Crash, AdminCleanup, AdminDelete, AdminList, EditInventory, Tick
<1> QED
  BY <1>1, <1>4, <1>5, <1>6, <1>7, <1>8, <1>9

\* While the process is down or recovering it neither serves requests nor runs
\* tasks, and what it recovered stays failed.
LEMMA QuietStep ==
    SafeRegime /\ TypeOK /\ OneWorkerInv /\ WorkerRows /\ QuietWhenDown /\ [Next]_vars
        => QuietWhenDown'
<1> SUFFICES ASSUME SafeRegime, TypeOK, OneWorkerInv, WorkerRows, QuietWhenDown, [Next]_vars
             PROVE  QuietWhenDown'
  OBVIOUS
<1> USE DEF QuietWhenDown, ApiUp
<1>1. ASSUME NEW c \in Clients, RequestStep(c) PROVE QuietWhenDown'
  <2>1. proc[Api] = "up" /\ recovered[Api] = {}
    BY <1>1, OneProcess
    DEF RequestStep, TryLock, Relock, InsertTask, Launch, Undo, TypeOK
  <2>2. UNCHANGED <<proc, recovered, admin>>
    BY <1>1 DEF RequestStep, TryLock, Relock, InsertTask, Launch, Undo, procVars
  <2>3. \A d \in Clients : client'[d].pc # "undo"
    BY <1>1, WorkerType DEF RequestStep, TryLock, Relock, InsertTask, Launch, Undo, Acquire,
        SetClient, EndRequest, TypeOK, ClientStates, IdleClient
  <2> QED
    BY <2>1, <2>2, <2>3, OneProcess
<1>2. ASSUME NEW c \in Clients,
             \/ \E mode \in {"single", "batch"}, requested \in SUBSET Hosts :
                    Submit(c, mode, requested)
             \/ \E t \in TaskIds : Retry(c, t)
      PROVE  QuietWhenDown'
  BY <1>2, OneProcess DEF Submit, Retry, procVars, TypeOK, ClientStates
<1>3. ASSUME NEW t \in TaskIds, Cancel(t) PROVE QuietWhenDown'
  BY <1>3, OneProcess DEF Cancel, procVars
<1>4. ASSUME NEW w \in Workers, WorkerStep(w) PROVE QuietWhenDown'
  <2>1. proc[Api] = "up" /\ recovered[Api] = {}
    BY <1>4, OneProcess
    DEF WorkerStep, Claim, LoadInventory, FailMissing, Start, NextHost, MarkCancelled,
        CaptureHost, CaptureRaises, Finish, HandleException, Release
  <2>2. UNCHANGED <<proc, recovered, admin, client>>
    BY <1>4 DEF WorkerStep, Claim, LoadInventory, FailMissing, Start, NextHost,
        MarkCancelled, CaptureHost, CaptureRaises, Finish, HandleException, Release, procVars
  <2> QED
    BY <2>1, <2>2, OneProcess
<1>5. ASSUME NEW p \in Procs, LoseProcess(p) PROVE QuietWhenDown'
  BY <1>5, WorkerType, OneProcess DEF LoseProcess, TypeOK, IdleClient
<1>6. ASSUME NEW p \in Procs, Boot(p) PROVE QuietWhenDown'
  BY <1>6, OneProcess DEF Boot, TypeOK
<1>7. ASSUME NEW p \in Procs, Recover(p) PROVE QuietWhenDown'
  <2>1. p = Api /\ recovered' = [recovered EXCEPT ![p] = TasksWith(tasks, {"running"})]
    BY <1>7, OneProcess DEF Recover
  <2>2. \A t \in TasksWith(tasks, {"running"}) : tasks'[t].status = "failed"
    <3>1. \A t \in TaskIds : tasks[t] \in Rows
      BY DEF TypeOK
    <3>2. \A t \in TaskIds : tasks[t].status = "running" =>
             tasks'[t] = [tasks[t] EXCEPT !.status = "failed", !.error = TRUE]
      BY <1>7 DEF Recover, RecoverRunning
    <3> QED
      BY <3>1, <3>2 DEF TasksWith, Rows
  <2> QED
    BY <1>7, <2>1, <2>2, OneProcess DEF Recover, TypeOK
<1>8. ASSUME NEW p \in Procs, StartWorkers(p) PROVE QuietWhenDown'
  BY <1>8, OneProcess DEF StartWorkers, TypeOK
<1>9. ASSUME NEW p \in Procs, NEW t \in TaskIds, ReleaseRecovered(p, t) PROVE QuietWhenDown'
  BY <1>9, OneProcess DEF ReleaseRecovered, TypeOK
<1>10. CASE UNCHANGED <<tasks, proc, recovered, worker, client, admin>>
  BY <1>10
<1>11. \/ UNCHANGED <<tasks, proc, recovered, worker, client, admin>>
       \/ \E c \in Clients :
             \/ RequestStep(c)
             \/ \E mode \in {"single", "batch"}, requested \in SUBSET Hosts :
                    Submit(c, mode, requested)
             \/ \E t \in TaskIds : Retry(c, t)
       \/ \E t \in TaskIds : Cancel(t)
       \/ \E w \in Workers : WorkerStep(w)
       \/ \E p \in Procs : \/ LoseProcess(p) \/ Boot(p) \/ Recover(p) \/ StartWorkers(p)
                           \/ \E t \in TaskIds : ReleaseRecovered(p, t)
  BY DEF SafeRegime, vars, procVars, Next, RequestFault, FaultStep, EscapingFault,
      CaughtFault, ReleaseAndDie, StartStep, Crash, AdminCleanup, AdminDelete, AdminList,
      EditInventory, Tick
<1> QED
  BY <1>1, <1>2, <1>3, <1>4, <1>5, <1>6, <1>7, <1>8, <1>9, <1>10, <1>11
-----------------------------------------------------------------------------
(* The lock table: which hosts are locked by a row that has not expired.    *)

Fresh(locks) == LockedHosts(CleanupStale(locks))

\* Cleaning up removes exactly the stale rows.
LEMMA FreshHosts ==
    ASSUME NEW locks
    PROVE  /\ Fresh(locks) = DOMAIN locks \ StaleHosts(locks)
           /\ \A h \in Fresh(locks) : CleanupStale(locks)[h] = locks[h]
BY DEF Fresh, LockedHosts, CleanupStale, ReleaseHosts

\* A second clean-up removes nothing.
LEMMA FreshCleanup ==
    ASSUME NEW locks
    PROVE  Fresh(CleanupStale(locks)) = Fresh(locks)
BY FreshHosts DEF Fresh, LockedHosts, StaleHosts

\* A release takes away the named hosts and no other.
LEMMA FreshRelease ==
    ASSUME NEW locks, NEW hosts
    PROVE  Fresh(ReleaseHosts(locks, hosts)) = Fresh(locks) \ hosts
BY FreshHosts DEF ReleaseHosts, StaleHosts

\* try_lock_hosts adds the wanted hosts and loses none that is not stale.
LEMMA FreshLock ==
    ASSUME NEW locks, NEW hosts
    PROVE  Fresh(LockHosts(locks, hosts)) = Fresh(locks) \cup hosts
<1>1. DOMAIN LockHosts(locks, hosts) = Fresh(locks) \cup hosts
  BY DEF LockHosts, Fresh, LockedHosts
<1>2. \A h \in Fresh(locks) \cup hosts :
         LockHosts(locks, hosts)[h] = IF h \in hosts THEN 0 ELSE locks[h]
  BY FreshHosts DEF LockHosts, Fresh, LockedHosts
<1>3. StaleHosts(LockHosts(locks, hosts)) = {}
  BY <1>1, <1>2, FreshHosts, LockTimeoutAssumption DEF StaleHosts
<1> QED
  BY <1>1, <1>3, FreshHosts
-----------------------------------------------------------------------------
(* The reservation is exclusive.                                            *)

\* Nobody gets a reservation, some may give theirs up.
Shrinks ==
    /\ HolderTasks' \subseteq HolderTasks
    /\ \A t \in HolderTasks' : tasks'[t].hosts = tasks[t].hosts
    /\ \A c \in Clients : Reserving(c)' =>
          Reserving(c) /\ client'[c].target = client[c].target

\* Steps that take no lock and insert no task give nobody a reservation.
LEMMA ShrinksStep ==
    ASSUME SafeRegime, TypeOK, OneWorkerInv, WorkerRows, QuietWhenDown, [Next]_vars,
           \A c \in Clients : ~TryLock(c) /\ ~Relock(c) /\ ~InsertTask(c)
    PROVE  Shrinks
<1> DEFINE Held(t) == \E w \in Workers : worker[w].task = t
<1>1. TypeOK'
  BY NextType
<1>2. \A t \in TaskIds : tasks'[t].status \in Active => tasks[t].status \in Active
  <2> DEFINE NoneActivated ==
                \A t \in TaskIds : tasks'[t].status \in Active => tasks[t].status \in Active
  <2>1. CASE UNCHANGED tasks
    BY <2>1
  <2>2. ASSUME NEW t \in TaskIds, Cancel(t) PROVE NoneActivated
    BY <2>2 DEF Cancel, RequestCancel, TypeOK, Rows
  <2>3. ASSUME NEW w \in Workers, Claim(w) PROVE NoneActivated
    BY <2>3 DEF Claim, SetStatus, IsOldestQueued, TasksWith, TypeOK, Rows, Active
  <2>4. ASSUME NEW w \in Workers, Start(w) PROVE NoneActivated
    BY <2>4 DEF Start, SetStatus, WorkerRows, Row, TypeOK, Rows, Active
  <2>5. ASSUME NEW w \in Workers, FailMissing(w) PROVE NoneActivated
    BY <2>5 DEF FailMissing, FailWithError, TypeOK, Rows, Active
  <2>6. ASSUME NEW w \in Workers, MarkCancelled(w) PROVE NoneActivated
    BY <2>6 DEF MarkCancelled, Conclude, TypeOK, Rows, Active
  <2>7. ASSUME NEW w \in Workers, Finish(w) PROVE NoneActivated
    <3>1. PICK status \in Terminal :
             tasks' = Conclude(tasks, worker[w].task, status, worker[w].ok, worker[w].bad)
      BY <2>7 DEF Finish, FinalStatus, Terminal
    <3>2. status \notin Active
      BY DEF Terminal, Active
    <3> QED
      BY <3>1, <3>2 DEF Conclude, TypeOK, Rows
  <2>8. ASSUME NEW w \in Workers, HandleException(w) PROVE NoneActivated
    BY <2>8 DEF HandleException, ConcludeWithError, TypeOK, Rows, Active
  <2>9. ASSUME NEW p \in Procs, Recover(p) PROVE NoneActivated
    BY <2>9 DEF Recover, RecoverRunning, TypeOK, Rows, Active
  <2> QED
    BY <2>1, <2>2, <2>3, <2>4, <2>5, <2>6, <2>7, <2>8, <2>9, TableWriters
<1>3. \A t \in TaskIds : Held(t)' => Held(t) \/ tasks[t].status \in Active
  <2>1. CASE NoNewTask
    BY <2>1, MaxTasksAssumption DEF NoNewTask, TaskIds, NoTask
  <2>2. ASSUME NEW w \in Workers, Claim(w)
        PROVE  \A t \in TaskIds : Held(t)' => Held(t) \/ tasks[t].status \in Active
    <3>1. PICK u \in TaskIds :
             /\ tasks[u].status = "queued"
             /\ worker' = [worker EXCEPT ![w] =
                              [IdleWorker EXCEPT !.pc = "claimed", !.task = u]]
      BY <2>2 DEF Claim, IsOldestQueued, TasksWith
    <3>2. \A v \in Workers : worker'[v].task \in {worker[v].task, u}
      BY <3>1 DEF TypeOK, IdleWorker
    <3> QED
      BY <3>1, <3>2 DEF Active
  <2> QED
    BY <2>1, <2>2, OnlyClaimHandsOver
<1>4. \A p \in Procs : \A t \in recovered'[p] :
         t \in recovered[p] \/ tasks[t].status \in Active
  <2>1. CASE UNCHANGED recovered
    BY <2>1
  <2>2. ASSUME NEW p \in Procs, Recover(p)
        PROVE  recovered' = [recovered EXCEPT ![p] = TasksWith(tasks, {"running"})]
    BY <2>2 DEF Recover
  <2>3. ASSUME NEW p \in Procs, LoseProcess(p)
        PROVE  recovered' = [recovered EXCEPT ![p] = {}]
    BY <2>3 DEF LoseProcess
  <2>4. ASSUME NEW p \in Procs, NEW t \in TaskIds, ReleaseRecovered(p, t)
        PROVE  recovered' = [recovered EXCEPT ![p] = @ \ {t}]
    BY <2>4 DEF ReleaseRecovered
  <2>5. \/ UNCHANGED recovered
        \/ \E p \in Procs : Recover(p) \/ LoseProcess(p)
        \/ \E p \in Procs, t \in TaskIds : ReleaseRecovered(p, t)
    BY ZenonT(30) DEF SafeRegime, vars, procVars, Next, RequestStep, RequestFault, Submit, Retry,
        TryLock, Relock, InsertTask, Launch, Undo, Cancel, WorkerStep, Claim,
        LoadInventory, FailMissing, Start, NextHost, MarkCancelled, CaptureHost,
        CaptureRaises, Finish, HandleException, Release, FaultStep, EscapingFault,
        CaughtFault, ReleaseAndDie, StartStep, Boot, StartWorkers, Crash, AdminCleanup,
        AdminDelete, AdminList, EditInventory, Tick
  <2> QED
    BY <2>1, <2>2, <2>3, <2>4, <2>5 DEF TasksWith, Active, TypeOK
<1>5. HolderTasks' \subseteq HolderTasks
  <2> SUFFICES ASSUME NEW t \in HolderTasks' PROVE t \in HolderTasks
    OBVIOUS
  <2>1. t \in TaskIds
    BY <1>1 DEF HolderTasks, TasksWith, TypeOK
  <2>2. \/ tasks'[t].status \in Active \/ Held(t)' \/ \E p \in Procs : t \in recovered'[p]
    BY DEF HolderTasks, TasksWith
  <2>3. \/ tasks[t].status \in Active \/ Held(t) \/ \E p \in Procs : t \in recovered[p]
    BY <1>2, <1>3, <1>4, <2>1, <2>2
  <2> QED
    BY <2>1, <2>3 DEF HolderTasks, TasksWith
<1>6. \A t \in HolderTasks : tasks[t].status # "absent"
  BY DEF HolderTasks, TasksWith, Active, OneWorkerInv, Begun, QuietWhenDown, TaskIds, NoTask
<1>7. \A t \in HolderTasks' : tasks'[t].hosts = tasks[t].hosts
  BY <1>5, <1>6, RowsPersistStep DEF RowsPersist, HolderTasks, TasksWith, TypeOK
<1>8. \A c \in Clients : Reserving(c)' =>
         Reserving(c) /\ client'[c].target = client[c].target
  <2>1. CASE UNCHANGED client
    BY <2>1 DEF Reserving
  <2>2. ASSUME NEW c \in Clients, NEW d \in Clients, Reserving(d)',
               \/ \E mode \in {"single", "batch"}, requested \in SUBSET Hosts :
                      Submit(c, mode, requested)
               \/ \E t \in TaskIds : Retry(c, t)
               \/ Launch(c) \/ Undo(c)
        PROVE  Reserving(d) /\ client'[d].target = client[d].target
    <3>1. client'[c].pc # "create"
      BY <2>2 DEF Submit, Retry, Launch, Undo, EndRequest, IdleClient, TypeOK
    <3>2. c # d => client'[d] = client[d]
      BY <2>2 DEF Submit, Retry, Launch, Undo, EndRequest, TypeOK
    <3> QED
      BY <2>2, <3>1, <3>2 DEF Reserving
  <2>3. ASSUME NEW p \in Procs, LoseProcess(p), NEW d \in Clients, Reserving(d)'
        PROVE  Reserving(d) /\ client'[d].target = client[d].target
    BY <2>3 DEF LoseProcess, IdleClient, Reserving
  <2>4. \/ UNCHANGED client
        \/ \E c \in Clients :
              \/ \E mode \in {"single", "batch"}, requested \in SUBSET Hosts :
                     Submit(c, mode, requested)
              \/ \E t \in TaskIds : Retry(c, t)
              \/ Launch(c) \/ Undo(c)
        \/ \E p \in Procs : LoseProcess(p)
    BY DEF SafeRegime, vars, Next, RequestStep, RequestFault, Cancel, WorkerStep, Claim,
        LoadInventory, FailMissing, Start, NextHost, MarkCancelled, CaptureHost,
        CaptureRaises, Finish, HandleException, Release, FaultStep, EscapingFault,
        CaughtFault, ReleaseAndDie, StartStep, Boot, Recover, ReleaseRecovered,
        StartWorkers, Crash, AdminCleanup, AdminDelete, AdminList, EditInventory, Tick
  <2> QED
    BY <2>1, <2>2, <2>3, <2>4
<1> QED
  BY <1>5, <1>7, <1>8 DEF Shrinks

\* Who reserves a host, before and after a step.
LEMMA ReservedMember ==
    /\ \A h : h \in ReservedHosts <=>
          \/ \E t \in HolderTasks : h \in tasks[t].hosts
          \/ \E c \in Clients : Reserving(c) /\ h \in client[c].target
    /\ \A h : h \in ReservedHosts' <=>
          \/ \E t \in HolderTasks' : h \in tasks'[t].hosts
          \/ \E c \in Clients : Reserving(c)' /\ h \in client'[c].target
<1>1. ASSUME NEW h
      PROVE  h \in ReservedHosts <=>
                \/ \E t \in HolderTasks : h \in tasks[t].hosts
                \/ \E c \in Clients : Reserving(c) /\ h \in client[c].target
  BY Zenon DEF ReservedHosts
<1>2. ASSUME NEW h
      PROVE  h \in ReservedHosts' <=>
                \/ \E t \in HolderTasks' : h \in tasks'[t].hosts
                \/ \E c \in Clients : Reserving(c)' /\ h \in client'[c].target
  BY Zenon DEF ReservedHosts
<1> QED
  BY <1>1, <1>2

\* When nobody gains a reservation and the reserved hosts stay locked, the
\* reservation stays exclusive.
LEMMA ShrinkKeepsReservation ==
    ASSUME Reservation, Shrinks, ReservedHosts' \subseteq Fresh(hostLocks')
    PROVE  Reservation'
BY DEF Reservation, Shrinks, Fresh

\* Giving reservations up never adds a reserved host.
LEMMA ShrinkReserved ==
    ASSUME Shrinks
    PROVE  ReservedHosts' \subseteq ReservedHosts
BY DEF ReservedHosts, Shrinks

\* A holder that leaves takes its hosts with it.
LEMMA LeaverUnreserves ==
    ASSUME Reservation, Shrinks, NEW t \in HolderTasks, t \notin HolderTasks',
           UNCHANGED client
    PROVE  ReservedHosts' \cap tasks[t].hosts = {}
<1>1. \A u \in HolderTasks' : tasks'[u].hosts \cap tasks[t].hosts = {}
  BY DEF Reservation, Shrinks
<1>2. \A c \in Clients : Reserving(c)' => client'[c].target \cap tasks[t].hosts = {}
  BY DEF Reservation, Reserving
<1> QED
  BY <1>1, <1>2, ReservedMember

\* Steps that take no lock and insert no task keep the reservation.
LEMMA ReservationOtherStep ==
    ASSUME SafeRegime, TypeOK, OneWorkerInv, WorkerRows, QuietWhenDown, Reservation,
           [Next]_vars, QuietWhenDown', OneWorkerInv',
           \A c \in Clients : ~TryLock(c) /\ ~Relock(c) /\ ~InsertTask(c)
    PROVE  Reservation'
<1>1. Shrinks
  BY ShrinksStep
<1>2. ReservedHosts' \subseteq ReservedHosts
  BY <1>1, ShrinkReserved
<1>3. ReservedHosts \subseteq Fresh(hostLocks)
  BY DEF Reservation, Fresh
<1> SUFFICES ReservedHosts' \subseteq Fresh(hostLocks')
  BY <1>1, ShrinkKeepsReservation
<1>4. CASE UNCHANGED hostLocks
  BY <1>2, <1>3, <1>4
<1>5. CASE hostLocks' = CleanupStale(hostLocks)
  BY <1>2, <1>3, <1>5, FreshCleanup
<1>6. CASE Tick
  <2>1. ReservedHosts \cap StaleHosts(AgeLocks(hostLocks)) = {}
    BY <1>6, LockTimeoutAssumption DEF Tick, SafeRegime
  <2>2. ReservedHosts \subseteq DOMAIN AgeLocks(hostLocks)
    BY <1>3, FreshHosts DEF AgeLocks
  <2> QED
    BY <1>2, <1>6, <2>1, <2>2, FreshHosts DEF Tick
<1>7. ASSUME NEW w \in Workers, Release(w)
      PROVE  ReservedHosts' \subseteq Fresh(hostLocks')
  <2> DEFINE t == worker[w].task
  <2>1. /\ t \in TaskIds /\ t # NoTask
        /\ tasks[t].status \in Terminal
        /\ t \in HolderTasks
    BY <1>7 DEF Release, TypeOK, WorkerStates, WorkerRows, Row, HolderTasks
  <2>2. \A v \in Workers : worker'[v].task # t
    BY <1>7, <2>1, WorkerType DEF Release, TypeOK, OneWorkerInv, OneWorkerPerTask
  <2>3. \A p \in Procs : recovered'[p] = {}
    BY <1>7, OneProcess DEF Release, QuietWhenDown, ApiUp, procVars
  <2>4. t \notin HolderTasks'
    BY <1>7, <2>1, <2>2, <2>3 DEF HolderTasks, TasksWith, Release, Active, Terminal
  <2>5. ReservedHosts' \cap tasks[t].hosts = {}
    BY <1>1, <1>7, <2>1, <2>4, LeaverUnreserves DEF Release
  <2> QED
    BY <1>2, <1>3, <1>7, <2>5, FreshRelease DEF Release, Row
<1>8. ASSUME NEW p \in Procs, NEW t \in TaskIds, ReleaseRecovered(p, t)
      PROVE  ReservedHosts' \subseteq Fresh(hostLocks')
  <2>1. p = Api /\ proc[Api] = "releasing" /\ tasks[t].status = "failed" /\ t \in HolderTasks
    BY <1>8, OneProcess DEF ReleaseRecovered, QuietWhenDown, HolderTasks
  <2>2. \A v \in Workers : worker'[v].task = NoTask
    BY <1>8, <2>1 DEF ReleaseRecovered, QuietWhenDown, ApiUp, TypeOK
  <2>3. \A q \in Procs : t \notin recovered'[q]
    BY <1>8, <2>1, OneProcess DEF ReleaseRecovered, TypeOK
  <2>4. t \notin HolderTasks'
    BY <1>8, <2>1, <2>2, <2>3, MaxTasksAssumption
    DEF HolderTasks, TasksWith, ReleaseRecovered, Active, TaskIds, NoTask
  <2>5. ReservedHosts' \cap tasks[t].hosts = {}
    BY <1>1, <1>8, <2>1, <2>4, LeaverUnreserves DEF ReleaseRecovered
  <2> QED
    BY <1>2, <1>3, <1>8, <2>5, FreshRelease DEF ReleaseRecovered
<1>9. \/ UNCHANGED hostLocks
      \/ hostLocks' = CleanupStale(hostLocks)
      \/ Tick
      \/ \E w \in Workers : Release(w)
      \/ \E p \in Procs, t \in TaskIds : ReleaseRecovered(p, t)
  BY DEF SafeRegime, QuietWhenDown, vars, Next, RequestStep, RequestFault, Submit, Retry,
      Launch, Undo, Cancel, WorkerStep, Claim, LoadInventory, FailMissing, Start, NextHost,
      MarkCancelled, CaptureHost, CaptureRaises, Finish, HandleException, FaultStep,
      EscapingFault, CaughtFault, ReleaseAndDie, StartStep, Boot, Recover, StartWorkers,
      Crash, AdminCleanup, AdminDelete, AdminList, EditInventory
<1> QED
  BY <1>4, <1>5, <1>6, <1>7, <1>8, <1>9

\* A request that gets its locks reserves hosts nobody else had.
LEMMA ReservationAcquire ==
    ASSUME SafeRegime, TypeOK, Reservation, NEW c \in Clients, client[c].pc # "create",
           Acquire(c), UNCHANGED <<tasks, worker, recovered>>
    PROVE  Reservation'
<1> DEFINE target == client[c].target
<1>1. client' = [client EXCEPT ![c].pc = "create"]
  BY DEF Acquire, SetClient
<1>2. /\ client'[c].pc = "create" /\ client'[c].target = target
      /\ \A d \in Clients \ {c} : client'[d] = client[d]
  BY <1>1 DEF TypeOK, ClientStates
<1>3. ReservedHosts \cap target = {}
  BY DEF Acquire, Conflicts, Reservation, LockedHosts
<1>4. HolderTasks' = HolderTasks
  BY DEF HolderTasks, TasksWith
<1>5. ReservedHosts' = ReservedHosts \cup target
  BY <1>2, <1>4, ReservedMember DEF Reserving
<1>6. ReservedHosts' \subseteq Fresh(hostLocks')
  BY <1>5, FreshLock DEF Acquire, Reservation, Fresh
<1>7. \A t \in HolderTasks : target \cap tasks[t].hosts = {}
  BY <1>3, ReservedMember
<1>8. \A d \in Clients : Reserving(d) => target \cap client[d].target = {}
  BY <1>3, ReservedMember
<1> QED
  BY <1>2, <1>4, <1>6, <1>7, <1>8 DEF Reservation, Reserving, Fresh

\* Inserting a task passes the request's reservation on to it.
LEMMA ReservationInsert ==
    ASSUME SafeRegime, TypeOK, OneWorkerInv, QuietWhenDown, Reservation,
           NEW c \in Clients, InsertTask(c)
    PROVE  Reservation'
<1> DEFINE target == client[c].target
<1>1. PICK t \in TaskIds : tasks[t].status = "absent" /\ tasks' = CreateTask(tasks, t, target)
  BY DEF InsertTask
<1>2. /\ tasks'[t].status = "queued" /\ tasks'[t].hosts = target
      /\ \A u \in TaskIds \ {t} : tasks'[u] = tasks[u]
  BY <1>1 DEF CreateTask, NoRow, TypeOK
<1>3. /\ Reserving(c) /\ ~Reserving(c)'
      /\ \A d \in Clients \ {c} : client'[d] = client[d]
  BY DEF InsertTask, SetClient, TypeOK, ClientStates, Reserving
<1>4. HolderTasks' = HolderTasks \cup {t}
  BY <1>2 DEF InsertTask, procVars, HolderTasks, TasksWith, Active
<1>5. t \notin HolderTasks
  BY <1>1, MaxTasksAssumption
  DEF HolderTasks, TasksWith, Active, OneWorkerInv, Begun, QuietWhenDown, TaskIds, NoTask
<1>6. \A u \in HolderTasks : u \in TaskIds
  BY DEF HolderTasks, TasksWith, TypeOK
<1>7. ReservedHosts' \subseteq ReservedHosts
  BY <1>2, <1>3, <1>4, <1>5, <1>6, ReservedMember DEF Reserving
<1> QED
  BY <1>2, <1>3, <1>4, <1>5, <1>6, <1>7 DEF Reservation, Reserving, InsertTask

\* Every step keeps the reservation: the hosts that requests, tasks and a recovery
\* hold are locked, and no two of them hold the same host.
LEMMA ReservationStep ==
    ASSUME SafeRegime, TypeOK, OneWorkerInv, WorkerRows, QuietWhenDown, Reservation,
           [Next]_vars
    PROVE  Reservation'
<1>1. ASSUME NEW c \in Clients, InsertTask(c) PROVE Reservation'
  BY <1>1, ReservationInsert
<1>2. ASSUME NEW c \in Clients, TryLock(c) \/ Relock(c), Acquire(c) PROVE Reservation'
  BY <1>2, ReservationAcquire DEF TryLock, Relock, procVars
<1>3. ASSUME NEW c \in Clients, TryLock(c) \/ Relock(c), ~Acquire(c) PROVE Reservation'
  <2>1. \A d \in Clients : client'[d].pc = "create" => client'[d] = client[d]
    BY <1>3 DEF TryLock, Relock, EndRequest, IdleClient, TypeOK, ClientStates
  <2> QED
    BY <1>3, <2>1
    DEF TryLock, Relock, procVars, Reservation, HolderTasks, TasksWith, ReservedHosts, Reserving
<1> QED
  BY <1>1, <1>2, <1>3, ReservationOtherStep, QuietStep, OneWorkerStep
-----------------------------------------------------------------------------
SafeInv == Reservation /\ WorkerRows /\ QuietWhenDown

\* From the first start on, whatever requests, cancels, retries, crashes and
\* restarts happen: a host that a request or a task counts as its own is locked,
\* and counted so by no other.
THEOREM ReservationCorrect == ASSUME SafeRegime PROVE Spec => []SafeInv
<1>1. Init => SafeInv
  <2> SUFFICES ASSUME Init PROVE SafeInv
    OBVIOUS
  <2>1. HolderTasks = {}
    BY WorkerType, MaxTasksAssumption DEF Init, HolderTasks, TasksWith, NoRow, Active, NoTask, TaskIds
  <2>2. \A c \in Clients : client[c].pc = "idle"
    BY DEF Init, IdleClient
  <2>3. ReservedHosts = {}
    BY <2>1, <2>2 DEF ReservedHosts, Reserving
  <2>4. Reservation
    BY <2>1, <2>2, <2>3 DEF Reservation, Reserving
  <2>5. WorkerRows
    BY WorkerType DEF Init, WorkerRows, InTry
  <2>6. QuietWhenDown
    BY <2>2, WorkerType DEF Init, QuietWhenDown
  <2> QED
    BY <2>4, <2>5, <2>6 DEF SafeInv
<1>2. TypeOK /\ OneWorkerInv /\ SafeInv /\ [Next]_vars => SafeInv'
  BY ReservationStep, WorkerRowsStep, QuietStep DEF SafeInv
<1>3. Spec => []OneWorkerInv
  BY OneWorkerInvariant
<1> QED
  BY <1>1, <1>2, <1>3, TypeCorrect, PTL DEF Spec

\* The part of SafeInv that queue_capture_request and run_capture_task rely on.
COROLLARY HostsStayReserved == ASSUME SafeRegime PROVE Spec => []Reservation
<1>1. SafeInv => Reservation
  BY DEF SafeInv
<1> QED
  BY <1>1, ReservationCorrect, PTL

\* Host-level locking prevents concurrent captures of one host.
THEOREM ExclusionCorrect == ASSUME SafeRegime PROVE Spec => []SameHostExclusion
<1>1. TypeOK /\ OneWorkerInv /\ SafeInv => SameHostExclusion
  <2> SUFFICES ASSUME TypeOK, OneWorkerInv, SafeInv,
                      NEW v \in Workers, NEW w \in Workers, v # w,
                      worker[v].pc = "capture", worker[w].pc = "capture"
               PROVE  worker[v].host # worker[w].host
    BY DEF SameHostExclusion
  <2>1. worker[v].task # NoTask /\ worker[w].task # NoTask
    BY DEF TypeOK
  <2>2. worker[v].task # worker[w].task
    BY <2>1 DEF OneWorkerInv, OneWorkerPerTask
  <2>3. worker[v].task \in HolderTasks /\ worker[w].task \in HolderTasks
    BY <2>1 DEF HolderTasks, TypeOK, WorkerStates
  <2>4. tasks[worker[v].task].hosts \cap tasks[worker[w].task].hosts = {}
    BY <2>2, <2>3 DEF SafeInv, Reservation
  <2>5. /\ worker[v].host \in tasks[worker[v].task].hosts
        /\ worker[w].host \in tasks[worker[w].task].hosts
    BY DEF SafeInv, WorkerRows, Row
  <2> QED
    BY <2>4, <2>5
<1> QED
  BY <1>1, OneWorkerInvariant, ReservationCorrect, TypeCorrect, PTL

\* update_task overwrites whatever status it finds, and still no row that reached
\* a terminal status changes: a worker writes its own row only, which is running.
THEOREM TerminalCorrect == ASSUME SafeRegime PROVE Spec => TerminalStable
<1> DEFINE Stable == \A t \in TasksWith(tasks, Terminal) : tasks'[t] = tasks[t]
<1>1. ASSUME TypeOK, OneWorkerInv, SafeInv, [Next]_vars PROVE Stable
  <2>1. \A t \in TasksWith(tasks, Terminal) :
           t \in TaskIds /\ tasks[t].status \in Terminal /\ tasks[t].status \notin Active
                /\ tasks[t].status # "absent"
    BY DEF TasksWith, Terminal, Active
  <2> USE <1>1 DEF TypeOK
  <2>2. CASE UNCHANGED tasks
    BY <2>2
  <2>3. ASSUME NEW c \in Clients, InsertTask(c) PROVE Stable
    BY <2>1, <2>3 DEF InsertTask, CreateTask
  <2>4. ASSUME NEW t \in TaskIds, Cancel(t) PROVE Stable
    <3>1. tasks[t] \in Rows
      OBVIOUS
    <3>2. tasks[t].status \notin Active => tasks' = tasks
      BY <2>4, <3>1 DEF Cancel, RequestCancel, Rows
    <3> QED
      BY <2>1, <2>4, <3>2 DEF Cancel, RequestCancel
  <2>5. ASSUME NEW w \in Workers, Claim(w) PROVE Stable
    BY <2>1, <2>5 DEF Claim, SetStatus, IsOldestQueued, TasksWith, Active
  <2>6. ASSUME NEW w \in Workers,
               worker[w].pc \in {"missing", "start", "cancelling", "loop", "except"}
        PROVE  worker[w].task \in TaskIds /\ tasks[worker[w].task].status = "running"
    BY <2>6 DEF SafeInv, WorkerRows, Row, WorkerStates
  <2>7. ASSUME NEW w \in Workers,
               FailMissing(w) \/ Start(w) \/ MarkCancelled(w) \/ Finish(w) \/ HandleException(w)
        PROVE  Stable
    <3>1. \A t \in TaskIds : t # worker[w].task => tasks'[t] = tasks[t]
      BY <2>7 DEF FailMissing, Start, MarkCancelled, Finish, HandleException,
          FailWithError, SetStatus, Conclude, ConcludeWithError
    <3>2. tasks[worker[w].task].status = "running"
      BY <2>6, <2>7 DEF FailMissing, Start, MarkCancelled, Finish, HandleException
    <3> QED
      BY <2>1, <3>1, <3>2 DEF Active
  <2>8. ASSUME NEW p \in Procs, Recover(p) PROVE Stable
    BY <2>1, <2>8 DEF Recover, RecoverRunning, Active
  <2> QED
    BY <2>2, <2>3, <2>4, <2>5, <2>7, <2>8, <1>1, TableWriters
<1>2. TypeOK /\ OneWorkerInv /\ SafeInv /\ [Next]_vars => [Stable]_vars
  BY <1>1
<1> QED
  BY <1>2, OneWorkerInvariant, ReservationCorrect, TypeCorrect, PTL DEF Spec, TerminalStable
-----------------------------------------------------------------------------
(* No lock is left behind without a crash.                                  *)

\* A task in somebody's hands stays in somebody's hands until its hosts are
\* released, unless the process crashes.
LEMMA HoldersKept ==
    ASSUME SafeRegime, TypeOK, OneWorkerInv, SafeInv, [Next]_vars,
           \A p \in Procs : ~Crash(p), NEW t \in HolderTasks
    PROVE  \/ t \in HolderTasks'
           \/ \E w \in Workers : Release(w) /\ worker[w].task = t
           \/ \E p \in Procs : ReleaseRecovered(p, t)
<1> USE DEF TypeOK
<1>1. t \in TaskIds /\ t # NoTask
  BY MaxTasksAssumption DEF HolderTasks, TasksWith, TaskIds, NoTask
<1>2. ASSUME NEW w \in Workers, worker[w].task = t
      PROVE  worker'[w].task = t \/ Release(w)
  <2>1. worker[w].pc \notin {"dead", "poll"}
    BY <1>1, <1>2
  <2>2. ASSUME NEW p \in Procs, StartWorkers(p) PROVE FALSE
    BY <2>1, <2>2, OneProcess DEF StartWorkers, SafeInv, QuietWhenDown, ApiUp
  <2>3. ASSUME NEW v \in Workers, WorkerStep(v), ~Release(w) PROVE worker'[w].task = t
    <3>1. CASE v # w
      BY <1>2, <2>3, <3>1, OthersUndisturbed
    <3>2. CASE \E pc \in WorkerPcs : SetWorker(w, pc)
      BY <1>2, <3>2 DEF SetWorker, WorkerStates
    <3>3. CASE NextHost(w) \/ Start(w) \/ CaptureRaises(w)
      BY <1>2, <3>3 DEF NextHost, Start, CaptureRaises, SetWorker, WorkerStates
    <3>4. CASE CaptureHost(w)
      BY <1>2, <3>4 DEF CaptureHost, WorkerStates
    <3> QED
      BY <2>1, <2>3, <3>1, <3>2, <3>3, <3>4
      DEF WorkerStep, Claim, LoadInventory, FailMissing, MarkCancelled, Finish,
          HandleException, WorkerPcs, InTry
  <2>4. \/ UNCHANGED worker
        \/ \E v \in Workers : WorkerStep(v)
        \/ \E p \in Procs : StartWorkers(p)
    BY DEF SafeRegime, vars, Next, RequestStep, RequestFault, Submit, Retry, TryLock, Relock,
        InsertTask, Launch, Undo, Cancel, FaultStep, EscapingFault, CaughtFault,
        ReleaseAndDie, StartStep, Boot, Recover, ReleaseRecovered, AdminCleanup,
        AdminDelete, AdminList, EditInventory, Tick
  <2> QED
    BY <1>2, <2>2, <2>3, <2>4
<1>3. ASSUME NEW p \in Procs, t \in recovered[p]
      PROVE  t \in recovered'[p] \/ ReleaseRecovered(p, t)
  <2>1. ASSUME NEW q \in Procs, Recover(q) PROVE FALSE
    BY <1>3, <2>1, OneProcess DEF Recover, SafeInv, QuietWhenDown
  <2>2. ASSUME NEW q \in Procs, NEW u \in TaskIds, ReleaseRecovered(q, u),
               ~ReleaseRecovered(p, t)
        PROVE  t \in recovered'[p]
    BY <1>3, <2>2 DEF ReleaseRecovered
  <2>3. \/ UNCHANGED recovered
        \/ \E q \in Procs : Recover(q) \/ \E u \in TaskIds : ReleaseRecovered(q, u)
    BY DEF SafeRegime, vars, procVars, Next, RequestStep, RequestFault, Submit, Retry,
        TryLock, Relock, InsertTask, Launch, Undo, Cancel, WorkerStep, Claim, LoadInventory,
        FailMissing, Start, NextHost, MarkCancelled, CaptureHost, CaptureRaises, Finish,
        HandleException, Release, FaultStep, EscapingFault, CaughtFault, ReleaseAndDie,
        StartStep, Boot, StartWorkers, AdminCleanup, AdminDelete, AdminList, EditInventory,
        Tick
  <2> QED
    BY <1>3, <2>1, <2>2, <2>3
<1>4. ASSUME tasks[t].status \in Active PROVE t \in HolderTasks'
  <2> DEFINE Kept == t \in HolderTasks'
  <2>1. CASE tasks'[t].status \in Active
    BY <1>1, <2>1 DEF HolderTasks, TasksWith
  <2>2. CASE \E w \in Workers : worker'[w].task = t
    BY <1>1, <2>2 DEF HolderTasks
  <2>3. ASSUME NEW c \in Clients, InsertTask(c) PROVE Kept
    BY <1>1, <1>4, <2>1, <2>3 DEF InsertTask, CreateTask, Active
  <2>4. ASSUME NEW u \in TaskIds, Cancel(u) PROVE Kept
    BY <1>1, <1>4, <2>1, <2>4 DEF Cancel, RequestCancel, Rows
  <2>5. ASSUME NEW w \in Workers, Claim(w) \/ Start(w) PROVE Kept
    <3>1. PICK u \in TaskIds : tasks' = SetStatus(tasks, u, "running")
      BY <2>5 DEF Claim, Start, WorkerStates
    <3>2. tasks'[t].status \in {tasks[t].status, "running"}
      BY <1>1, <3>1 DEF SetStatus, Rows
    <3> QED
      BY <1>4, <2>1, <3>2 DEF Active
  <2>6. ASSUME NEW w \in Workers,
               FailMissing(w) \/ MarkCancelled(w) \/ Finish(w) \/ HandleException(w)
        PROVE  Kept
    <3>1. CASE worker[w].task = t
      <4>1. worker'[w].task = t
        BY <2>6, <3>1, <1>2 DEF FailMissing, MarkCancelled, Finish, HandleException, Release
      <4> QED
        BY <2>2, <4>1
    <3>2. CASE worker[w].task # t
      <4>1. tasks'[t] = tasks[t]
        BY <1>1, <2>6, <3>2 DEF FailMissing, MarkCancelled, Finish, HandleException,
            FailWithError, Conclude, ConcludeWithError
      <4> QED
        BY <1>4, <2>1, <4>1
    <3> QED
      BY <3>1, <3>2
  <2>7. ASSUME NEW p \in Procs, Recover(p) PROVE Kept
    <3>1. CASE tasks[t].status = "running"
      BY <1>1, <2>7, <3>1 DEF Recover, TasksWith, HolderTasks
    <3>2. CASE tasks[t].status # "running"
      BY <1>1, <1>4, <2>1, <2>7, <3>2 DEF Recover, RecoverRunning
    <3> QED
      BY <3>1, <3>2
  <2> QED
    BY <1>4, <2>1, <2>3, <2>4, <2>5, <2>6, <2>7, TableWriters
<1> QED
  BY <1>1, <1>2, <1>3, <1>4 DEF HolderTasks, TasksWith

\* Only a request that finds no conflict adds a lock, and only for its hosts.
LEMMA LocksAdded ==
    ASSUME [Next]_vars
    PROVE  \/ LockedHosts(hostLocks') \subseteq LockedHosts(hostLocks)
           \/ \E c \in Clients :
                 /\ TryLock(c) \/ Relock(c)
                 /\ Acquire(c)
                 /\ LockedHosts(hostLocks')
                        \subseteq LockedHosts(hostLocks) \cup client[c].target
<1> DEFINE Fewer == LockedHosts(hostLocks') \subseteq LockedHosts(hostLocks)
<1>1. CASE UNCHANGED hostLocks
  BY <1>1
<1>2. ASSUME NEW hosts, hostLocks' = ReleaseHosts(hostLocks, hosts) PROVE Fewer
  BY <1>2 DEF ReleaseHosts, LockedHosts
<1>3. CASE Tick
  BY <1>3 DEF Tick, AgeLocks, LockedHosts
<1>4. ASSUME NEW c \in Clients, Acquire(c)
      PROVE  LockedHosts(hostLocks') \subseteq LockedHosts(hostLocks) \cup client[c].target
  BY <1>4, FreshHosts DEF Acquire, LockHosts, LockedHosts, Fresh
<1>5. \/ UNCHANGED hostLocks
      \/ \E hosts : hostLocks' = ReleaseHosts(hostLocks, hosts)
      \/ Tick
      \/ \E c \in Clients : (TryLock(c) \/ Relock(c)) /\ Acquire(c)
  BY DEF vars, Next, RequestStep, RequestFault, Submit, Retry, TryLock, Relock,
      InsertTask, Launch, Undo, Cancel, WorkerStep, Claim, LoadInventory, FailMissing, Start,
      NextHost, MarkCancelled, CaptureHost, CaptureRaises, Finish, HandleException, Release,
      FaultStep, EscapingFault, CaughtFault, ReleaseAndDie, StartStep, Boot, Recover,
      StartWorkers, ReleaseRecovered, Crash, AdminCleanup, AdminDelete, AdminList,
      EditInventory, CleanupStale
<1> QED
  BY <1>1, <1>2, <1>3, <1>4, <1>5

\* A request keeps its reservation until it hands it to the task it inserts.
LEMMA ReservingKept ==
    ASSUME SafeRegime, TypeOK, [Next]_vars, \A p \in Procs : ~Crash(p),
           NEW c \in Clients, Reserving(c)
    PROVE  \/ Reserving(c)' /\ client'[c].target = client[c].target
           \/ InsertTask(c)
<1> DEFINE Kept == Reserving(c)' /\ client'[c].target = client[c].target
<1> USE DEF Reserving
<1>1. CASE client'[c] = client[c]
  BY <1>1
<1>2. ASSUME NEW d \in Clients,
             \/ RequestStep(d)
             \/ \E mode \in {"single", "batch"}, requested \in SUBSET Hosts :
                    Submit(d, mode, requested)
             \/ \E t \in TaskIds : Retry(d, t)
      PROVE  client'[c] = client[c] \/ InsertTask(c)
  BY <1>2 DEF RequestStep, TryLock, Relock, Acquire, InsertTask, Launch, Undo, Submit, Retry,
      SetClient, EndRequest, TypeOK
<1>3. \/ UNCHANGED client
      \/ \E d \in Clients :
            \/ RequestStep(d)
            \/ \E mode \in {"single", "batch"}, requested \in SUBSET Hosts :
                   Submit(d, mode, requested)
            \/ \E t \in TaskIds : Retry(d, t)
  BY DEF SafeRegime, vars, Next, RequestFault, Cancel, WorkerStep, Claim, LoadInventory,
      FailMissing, Start, NextHost, MarkCancelled, CaptureHost, CaptureRaises, Finish,
      HandleException, Release, FaultStep, EscapingFault, CaughtFault, ReleaseAndDie,
      StartStep, Boot, Recover, StartWorkers, ReleaseRecovered, AdminCleanup, AdminDelete,
      AdminList, EditInventory, Tick
<1> QED
  BY <1>1, <1>2, <1>3

\* Every step of an installation that has not crashed keeps every lock in use.
LEMMA NoLeakStep ==
    ASSUME SafeRegime, TypeOK, OneWorkerInv, SafeInv, NoLeakedLocks, [Next]_vars
    PROVE  NoLeakedLocks'
<1> SUFFICES ASSUME crashes' = 0, NEW h \in LockedHosts(hostLocks')
             PROVE  h \in ReservedHosts'
  BY DEF NoLeakedLocks
<1>1. crashes = 0 /\ \A p \in Procs : ~Crash(p)
  <2>1. crashes \in Nat
    BY DeploymentAssumption DEF TypeOK
  <2>2. \/ UNCHANGED crashes
        \/ \E p \in Procs : Crash(p)
    BY ZenonT(30) DEF vars, procVars, Next, RequestStep, RequestFault, Submit, Retry, TryLock, Relock,
      InsertTask, Launch, Undo, Cancel, WorkerStep, Claim, LoadInventory, FailMissing, Start,
      NextHost, MarkCancelled, CaptureHost, CaptureRaises, Finish, HandleException, Release,
      FaultStep, EscapingFault, CaughtFault, ReleaseAndDie, StartStep, Boot, Recover,
      StartWorkers, ReleaseRecovered, AdminCleanup, AdminDelete, AdminList, EditInventory, Tick
  <2>3. \A p \in Procs : Crash(p) => crashes' # 0
    BY <2>1 DEF Crash
  <2> QED
    BY <2>2, <2>3
<1>2. ASSUME NEW t \in HolderTasks, h \in tasks[t].hosts PROVE h \in ReservedHosts'
  <2>1. CASE t \in HolderTasks'
    <3>1. t \in TaskIds /\ tasks[t].status # "absent"
      BY SMTT(30), MaxTasksAssumption
      DEF HolderTasks, TasksWith, Active, OneWorkerInv, Begun, SafeInv, QuietWhenDown, TypeOK,
          TaskIds, NoTask
    <3>2. tasks'[t].hosts = tasks[t].hosts
      BY <3>1, RowsPersistStep DEF RowsPersist
    <3> QED
      BY <1>2, <2>1, <3>2, ReservedMember
  <2>2. ASSUME NEW w \in Workers, Release(w), worker[w].task = t PROVE FALSE
    BY <1>2, <2>2 DEF Release, Row, ReleaseHosts, LockedHosts
  <2>3. ASSUME NEW p \in Procs, ReleaseRecovered(p, t) PROVE FALSE
    BY <1>2, <2>3 DEF ReleaseRecovered, ReleaseHosts, LockedHosts
  <2> QED
    BY <1>1, <2>1, <2>2, <2>3, HoldersKept
<1>3. ASSUME NEW c \in Clients, Reserving(c), h \in client[c].target PROVE h \in ReservedHosts'
  <2>1. CASE Reserving(c)' /\ client'[c].target = client[c].target
    BY <1>3, <2>1, ReservedMember
  <2>2. CASE InsertTask(c)
    <3>1. PICK t \in TaskIds : tasks' = CreateTask(tasks, t, client[c].target)
      BY <2>2 DEF InsertTask
    <3>2. tasks'[t].status = "queued" /\ tasks'[t].hosts = client[c].target
      BY <3>1 DEF CreateTask, NoRow, TypeOK
    <3>3. t \in HolderTasks'
      BY <3>2 DEF HolderTasks, TasksWith, Active
    <3> QED
      BY <1>3, <3>2, <3>3, ReservedMember
  <2> QED
    BY <1>1, <1>3, <2>1, <2>2, ReservingKept
<1>4. ASSUME NEW c \in Clients, Acquire(c), h \in client[c].target PROVE h \in ReservedHosts'
  <2>1. Reserving(c)' /\ client'[c].target = client[c].target
    BY <1>4 DEF Acquire, SetClient, Reserving, TypeOK, ClientStates
  <2> QED
    BY <1>4, <2>1, ReservedMember
<1>5. h \in LockedHosts(hostLocks) => h \in ReservedHosts
  BY <1>1 DEF NoLeakedLocks
<1> QED
  BY <1>2, <1>3, <1>4, <1>5, LocksAdded, ReservedMember

\* Every lock has somebody who will release it, as long as the process does not
\* crash: no path through a request, a task or its cancellation forgets one.
THEOREM NoLeakCorrect == ASSUME SafeRegime PROVE Spec => []NoLeakedLocks
<1>1. Init => NoLeakedLocks
  BY DEF Init, NoLeakedLocks, NoLocks, LockedHosts
<1>2. TypeOK /\ OneWorkerInv /\ SafeInv /\ NoLeakedLocks /\ [Next]_vars => NoLeakedLocks'
  BY NoLeakStep
<1> QED
  BY <1>1, <1>2, OneWorkerInvariant, ReservationCorrect, TypeCorrect, PTL DEF Spec
=============================================================================
