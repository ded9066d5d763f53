------------------------------ MODULE HostLocks ------------------------------
(***************************************************************************)
(* The host_locks table: lock_repo.py and its facade lock_service.py.       *)
(* The table is a function from the locked hosts (the primary key) to the   *)
(* age of the row, counted in ticks and stopped one past the timeout, where *)
(* every comparison the code makes has the same result.  A row carries no   *)
(* owner: whoever names a host may delete its row.                          *)
(* Each operator is one SQLite transaction.                                 *)
(***************************************************************************)
EXTENDS Inventory

CONSTANT LockTimeout   \* host_lock_timeout_seconds in ticks; 0: locks never expire

ASSUME LockTimeoutAssumption == LockTimeout \in Nat

Ages == 0 .. LockTimeout + 1

LockTables == UNION { [S -> Ages] : S \in SUBSET Hosts }

NoLocks == [h \in {} |-> 0]

LockedHosts(locks) == DOMAIN locks

\* DELETE FROM host_locks WHERE host IN hosts
ReleaseHosts(locks, hosts) ==
    [h \in DOMAIN locks \ hosts |-> locks[h]]

\* Mutant of StaleHosts: the test that the timeout is set is inverted.
StaleHostsInverted(locks) ==
    { h \in DOMAIN locks : LockTimeout = 0 /\ locks[h] > LockTimeout }

\* acquired_at < now - timeout, a strict comparison, and only with a timeout.
StaleHosts(locks) ==
    { h \in DOMAIN locks : LockTimeout > 0 /\ locks[h] > LockTimeout }

CleanupStale(locks) == ReleaseHosts(locks, StaleHosts(locks))

\* Mutant of Conflicts: a request fails only when all its hosts are locked.
ConflictsIfAllLocked(locks, hosts) ==
    IF hosts \subseteq DOMAIN CleanupStale(locks) THEN hosts ELSE {}

\* The hosts that make try_lock_hosts fail.  On a conflict the transaction is
\* rolled back, so even the stale rows it deleted come back.
Conflicts(locks, hosts) == hosts \cap DOMAIN CleanupStale(locks)

\* The table after try_lock_hosts found no conflict.
LockHosts(locks, hosts) ==
    LET kept == CleanupStale(locks) IN
    [h \in DOMAIN kept \cup hosts |-> IF h \in hosts THEN 0 ELSE kept[h]]

\* One tick of the wall clock that acquired_at is compared with.
AgeLocks(locks) ==
    [h \in DOMAIN locks |-> IF locks[h] > LockTimeout THEN locks[h] ELSE locks[h] + 1]
=============================================================================
