-------------------------- MODULE SystemProbesProofs --------------------------
(***************************************************************************)
(* What an operator may conclude from a report read of a running system, in *)
(* two transactions between which the system goes on.  The reports do not   *)
(* disturb the system, so its own theorems hold of it while it is read.     *)
(***************************************************************************)
EXTENDS SystemProbes, CaptureSystemProofs, FiniteSetTheorems

-----------------------------------------------------------------------------
(* The system under the reports.                                            *)

\* Reading changes nothing: whatever CaptureSystem guarantees holds under the
\* readiness report and the lock listing too.
LEMMA ProbesAreReaders == ProbeSpec => Spec
<1>1. ProbeInit => Init
  BY DEF ProbeInit
<1>2. [ProbeNext]_allVars => [Next]_vars
  <2>1. SystemStep => Next
    BY DEF SystemStep
  <2>2. ReadCounts \/ ReadLocks \/ ReadOwners \/ ListLocks => UNCHANGED vars
    BY DEF ReadCounts, ReadLocks, ReadOwners, ListLocks
  <2>3. UNCHANGED allVars => UNCHANGED vars
    BY DEF allVars
  <2> QED
    BY <2>1, <2>2, <2>3 DEF ProbeNext
<1> QED
  BY <1>1, <1>2, PTL DEF ProbeSpec, Spec

-----------------------------------------------------------------------------
(* The reports.                                                             *)

\* The two reports keep their types; the locks are located after the tasks are
\* counted only.
ProbeTypeOK ==
    /\ report \in [counted: BOOLEAN, located: BOOLEAN, busy: BOOLEAN,
                   queued: Nat, running: Nat, failed: Nat, locked: Nat]
    /\ report.located => report.counted
    /\ listing \in [pc: {"idle", "owners", "done"}, owners: [Hosts -> SUBSET TaskIds],
                    locks: LockTables]

\* The rows of a status are finitely many.
LEMMA CountType ==
    ASSUME NEW table, NEW status
    PROVE  CountTasks(table, status) \in Nat
<1>1. IsFiniteSet(TaskIds)
  BY FS_Interval, MaxTasksAssumption DEF TaskIds
<1>2. IsFiniteSet(TasksWith(table, {status}))
  BY <1>1, FS_Subset DEF TasksWith
<1> QED
  BY <1>2, FS_CardinalityType DEF CountTasks

\* So are the locked hosts, there being finitely many hosts.
LEMMA LockedFinite ==
    ASSUME IsFiniteSet(Hosts), TypeOK
    PROVE  IsFiniteSet(LockedHosts(hostLocks)) /\ Cardinality(LockedHosts(hostLocks)) \in Nat
<1>1. LockedHosts(hostLocks) \in SUBSET Hosts
  BY DEF TypeOK, LockTables, LockedHosts
<1> QED
  BY <1>1, FS_Subset, FS_CardinalityType

\* What list_tasks returns for the running rows are running rows.
LEMMA OwnersAreRunning ==
    \A h \in Hosts :
        RunningOwners[h]
            \subseteq {t \in TaskIds : tasks[t].status = "running" /\ h \in tasks[t].hosts}
BY DEF RunningOwners, ListTasks, NewestOf, TasksWith

\* Before the first read both reports are empty.
LEMMA ProbeTypeInit == TypeOK /\ ProbeInit => ProbeTypeOK
<1> SUFFICES ASSUME TypeOK, ProbeInit PROVE ProbeTypeOK
  OBVIOUS
<1>1. NoLocks \in LockTables
  BY DEF ProbeInit, Init, TypeOK
<1> QED
  BY <1>1 DEF ProbeInit, ProbeTypeOK, NoReport, NoListing

\* Reads fill the reports in with values of their types.
LEMMA ProbeTypeStep ==
    ASSUME IsFiniteSet(Hosts), TypeOK, ProbeTypeOK, [ProbeNext]_allVars
    PROVE  ProbeTypeOK'
<1> USE DEF ProbeTypeOK
<1>1. NoLocks \in LockTables
  BY NoLocksType
<1>2. CASE SystemStep
  BY <1>1, <1>2 DEF SystemStep, NoReport, NoListing
<1>3. CASE ReadCounts
  <2>1. report' = [counted |-> TRUE, located |-> report.located, busy |-> Busy,
                   queued |-> CountTasks(tasks, "queued"),
                   running |-> CountTasks(tasks, "running"),
                   failed |-> CountTasks(tasks, "failed"), locked |-> report.locked]
    BY <1>3 DEF ReadCounts
  <2>2. Busy \in BOOLEAN
    BY DEF Busy
  <2>3. \A status : CountTasks(tasks, status) \in Nat
    BY CountType
  <2>4. report.located \in BOOLEAN /\ report.locked \in Nat
    OBVIOUS
  <2>5. report' \in [counted: BOOLEAN, located: BOOLEAN, busy: BOOLEAN,
                     queued: Nat, running: Nat, failed: Nat, locked: Nat]
    BY <2>1, <2>2, <2>3, <2>4
  <2> QED
    BY <1>3, <2>1, <2>5 DEF ReadCounts
<1>4. CASE ReadLocks
  BY <1>4, LockedFinite DEF ReadLocks, Busy
<1>5. CASE ReadOwners
  <2>1. RunningOwners \in [Hosts -> SUBSET TaskIds]
    BY OwnersAreRunning DEF RunningOwners
  <2> QED
    BY <1>5, <2>1 DEF ReadOwners
<1>6. CASE ListLocks
  BY <1>6 DEF ListLocks, TypeOK
<1>7. CASE UNCHANGED allVars
  BY <1>7 DEF allVars, probeVars
<1> QED
  BY <1>2, <1>3, <1>4, <1>5, <1>6, <1>7 DEF ProbeNext

\* The reports keep their types in every deployment.
THEOREM ProbeTypeCorrect == ASSUME IsFiniteSet(Hosts) PROVE ProbeSpec => []ProbeTypeOK
<1>1. TypeOK /\ ProbeInit => ProbeTypeOK
  BY ProbeTypeInit
<1>2. TypeOK /\ ProbeTypeOK /\ [ProbeNext]_allVars => ProbeTypeOK'
  BY ProbeTypeStep
<1> QED
  BY <1>1, <1>2, ProbesAreReaders, TypeCorrect, PTL DEF ProbeSpec

-----------------------------------------------------------------------------
(* The readiness report.                                                    *)

\* What is missing in GoMeansQuiet to be inductive: the claim is about the number
\* of locked hosts, whatever the limits of the cutover tool are.
NoLockMeansQuiet == report.located /\ report.locked = 0 => ~report.busy

\* An empty lock table means that nothing is reserved.
LEMMA EmptyTableIsQuiet ==
    ASSUME IsFiniteSet(Hosts), TypeOK, Reservation,
           Cardinality(LockedHosts(hostLocks)) = 0
    PROVE  ~Busy
<1>1. LockedHosts(hostLocks) = {}
  BY LockedFinite, FS_EmptySet
<1>2. LockedHosts(CleanupStale(hostLocks)) \subseteq LockedHosts(hostLocks)
  BY DEF LockedHosts, CleanupStale, ReleaseHosts
<1> QED
  BY <1>1, <1>2 DEF Reservation, Busy

\* Whether something is reserved is noted in the very transaction that counts the
\* locks, and the tasks are counted before.
LEMMA NoLockMeansQuietStep ==
    ASSUME IsFiniteSet(Hosts), TypeOK, Reservation, ProbeTypeOK, NoLockMeansQuiet,
           [ProbeNext]_allVars
    PROVE  NoLockMeansQuiet'
<1> USE DEF ProbeTypeOK, NoLockMeansQuiet
<1>1. CASE report' \in {report, NoReport}
  BY <1>1 DEF NoReport
<1>2. CASE ReadCounts
  <2>1. ~report.located /\ report'.located = report.located
    BY <1>2 DEF ReadCounts
  <2> QED
    BY <2>1
<1>3. CASE ReadLocks
  <2>1. report'.busy = Busy /\ report'.locked = Cardinality(LockedHosts(hostLocks))
    BY <1>3 DEF ReadLocks
  <2> QED
    BY <2>1, EmptyTableIsQuiet
<1>4. report' \in {report, NoReport} \/ ReadCounts \/ ReadLocks
  BY DEF ProbeNext, allVars, probeVars, SystemStep, ReadOwners, ListLocks
<1> QED
  BY <1>1, <1>2, <1>3, <1>4

\* A GO taken on a readiness report, with no locked host allowed, was completed
\* while no request and no task had a host reserved, although the report was read
\* in two transactions and the tool lets tasks run (build_readiness reads the
\* locks last, and a reservation is visible in them from its first moment).
THEOREM GoIsQuiet ==
    ASSUME SafeRegime, IsFiniteSet(Hosts), MaxLocked = 0
    PROVE  ProbeSpec => []GoMeansQuiet
<1>1. ProbeInit => NoLockMeansQuiet
  BY DEF ProbeInit, NoReport, NoLockMeansQuiet
<1>2. TypeOK /\ SafeInv /\ ProbeTypeOK /\ NoLockMeansQuiet /\ [ProbeNext]_allVars
          => NoLockMeansQuiet'
  BY NoLockMeansQuietStep DEF SafeInv
<1>3. ProbeTypeOK /\ NoLockMeansQuiet => GoMeansQuiet
  <2> SUFFICES ASSUME ProbeTypeOK, NoLockMeansQuiet, report.located, ReportGo
               PROVE  ~report.busy
    BY DEF GoMeansQuiet
  <2>1. report.locked <= MaxLocked
    BY DEF ReportGo, Go, WithinLimits, BuildReadiness
  <2> QED
    BY <2>1 DEF ProbeTypeOK, NoLockMeansQuiet
<1>4. Spec => []TypeOK /\ []SafeInv
  BY TypeCorrect, ReservationCorrect, PTL
<1>5. ProbeSpec => []ProbeTypeOK
  BY ProbeTypeCorrect
<1> QED
  BY <1>1, <1>2, <1>3, <1>4, <1>5, ProbesAreReaders, PTL DEF ProbeSpec

-----------------------------------------------------------------------------
(* The lock listing.                                                        *)

\* Two running tasks never share a host.
LEMMA OneRunningTask ==
    ASSUME Reservation, NEW h \in Hosts
    PROVE  Cardinality(RunningOwners[h]) <= 1
<1> DEFINE owners == RunningOwners[h]
<1>1. \A t \in owners : t \in HolderTasks /\ h \in tasks[t].hosts
  BY OwnersAreRunning DEF HolderTasks, TasksWith, Active
<1>2. \A t, u \in owners : t = u
  BY <1>1 DEF Reservation
<1>3. CASE owners = {}
  BY <1>3, FS_EmptySet
<1>4. ASSUME NEW t \in owners PROVE Cardinality(owners) <= 1
  <2>1. owners = {t}
    BY <1>2, <1>4
  <2>2. Cardinality({t}) = 1
    BY FS_Singleton
  <2> HIDE DEF owners
  <2> QED
    BY <2>1, <2>2
<1> QED
  BY <1>3, <1>4

\* Once listed, an owner keeps its hosts and never goes back to the queue.
LEMMA OneOwnerStep ==
    ASSUME SafeRegime, TypeOK, Reservation, ProbeTypeOK, OneOwnerListed,
           [ProbeNext]_allVars
    PROVE  OneOwnerListed'
<1> USE DEF ProbeTypeOK
<1>1. CASE ReadOwners
  <2>1. listing'.owners = RunningOwners /\ tasks' = tasks
    BY <1>1 DEF ReadOwners, vars
  <2> QED
    BY <2>1, OneRunningTask, OwnersAreRunning DEF OneOwnerListed
<1>2. CASE listing'.owners = NoListing.owners
  BY <1>2, FS_EmptySet DEF OneOwnerListed, NoListing
<1>3. CASE listing'.owners = listing.owners
  <2>1. [Next]_vars
    BY DEF ProbeNext, allVars, SystemStep, ReadCounts, ReadLocks, ReadOwners, ListLocks
  <2>2. \A t \in TaskIds : tasks[t].status \in {"running"} \cup Terminal =>
           /\ tasks'[t].status \in {"running"} \cup Terminal
           /\ tasks'[t].hosts = tasks[t].hosts
    BY <2>1, RowsPersistStep, NextType DEF RowsPersist, Begun, TypeOK, Rows, Statuses, Active, Terminal
  <2> QED
    BY <1>3, <2>2 DEF OneOwnerListed
<1>4. listing'.owners \in {listing.owners, NoListing.owners} \/ ReadOwners
  BY DEF ProbeNext, allVars, probeVars, SystemStep, ReadCounts, ReadLocks, ListLocks
<1> QED
  BY <1>1, <1>2, <1>3, <1>4

\* The lock listing never names two tasks for a host, and whom it names has run
\* the host: build_locks_payload joins tables that have no owner column by host
\* name, and the running rows it joins hold disjoint hosts.
THEOREM OwnersCorrect ==
    ASSUME SafeRegime, IsFiniteSet(Hosts)
    PROVE  ProbeSpec => []OneOwnerListed
<1>1. ProbeInit => OneOwnerListed
  BY FS_EmptySet DEF ProbeInit, NoListing, OneOwnerListed
<1>2. TypeOK /\ SafeInv /\ ProbeTypeOK /\ OneOwnerListed /\ [ProbeNext]_allVars
          => OneOwnerListed'
  BY OneOwnerStep DEF SafeInv
<1>3. Spec => []TypeOK /\ []SafeInv
  BY TypeCorrect, ReservationCorrect, PTL
<1>4. ProbeSpec => []ProbeTypeOK
  BY ProbeTypeCorrect
<1> QED
  BY <1>1, <1>2, <1>3, <1>4, ProbesAreReaders, PTL DEF ProbeSpec
=============================================================================
