----------------------------- MODULE SystemProbes -----------------------------
(***************************************************************************)
(* What operators read of a running CaptureSystem: GET /system/readiness,    *)
(* with the cutover decision taken on it, and GET /system/locks.  A report  *)
(* reads the two tables in two transactions, and the system goes on between *)
(* them.  A behaviour has one of the two reports (a bound: they do not      *)
(* affect each other).                                                      *)
(***************************************************************************)
EXTENDS CaptureSystem, TaskQueries, Cutover

CONSTANT ListLimit   \* rows the lock listing asks list_tasks for

VARIABLES
    report,    \* the readiness report being built
    listing    \* the lock listing being built

probeVars == <<report, listing>>
allVars   == <<vars, probeVars>>

NoReport  == [counted |-> FALSE, located |-> FALSE, busy |-> FALSE,
              queued |-> 0, running |-> 0, failed |-> 0, locked |-> 0]
NoListing == [pc |-> "idle", owners |-> [h \in Hosts |-> {}], locks |-> NoLocks]

ProbeInit == Init /\ report = NoReport /\ listing = NoListing

\* History: some request, task or worker has a host reserved.
Busy == ReservedHosts # {}

\* First transaction of build_readiness, count_tasks_by_status.
ReadCounts ==
    /\ ApiUp
    /\ ~report.counted
    /\ listing = NoListing
    /\ report' = [report EXCEPT
           !.counted = TRUE, !.busy = Busy,
           !.queued = CountTasks(tasks, "queued"),
           !.running = CountTasks(tasks, "running"),
           !.failed = CountTasks(tasks, "failed")]
    /\ UNCHANGED <<vars, listing>>

\* Mutant of ReadLocks: the locks may be read before the tasks are counted.
ReadLocksAnyTime ==
    /\ ApiUp
    /\ ~report.located
    /\ listing = NoListing
    /\ report' = [report EXCEPT
           !.located = TRUE, !.busy = Busy, !.locked = Cardinality(LockedHosts(hostLocks))]
    /\ UNCHANGED <<vars, listing>>

\* Second one, list_locks.
ReadLocks ==
    /\ ApiUp
    /\ report.counted /\ ~report.located
    /\ report' = [report EXCEPT
           !.located = TRUE, !.busy = Busy, !.locked = Cardinality(LockedHosts(hostLocks))]
    /\ UNCHANGED <<vars, listing>>

\* Mutant of RunningOwners: the filter on the status is missing.
RunningOwnersOfAll ==
    [h \in Hosts |-> {t \in ListTasks(tasks, ListLimit, Active \cup Terminal) : h \in tasks[t].hosts}]

\* _running_task_host_owners
RunningOwners ==
    [h \in Hosts |-> {t \in ListTasks(tasks, ListLimit, {"running"}) : h \in tasks[t].hosts}]

ReadOwners ==
    /\ ApiUp
    /\ listing.pc = "idle"
    /\ report = NoReport
    /\ listing' = [listing EXCEPT !.pc = "owners", !.owners = RunningOwners]
    /\ UNCHANGED <<vars, report>>

ListLocks ==
    /\ ApiUp
    /\ listing.pc = "owners"
    /\ listing' = [listing EXCEPT !.pc = "done", !.locks = hostLocks]
    /\ UNCHANGED <<vars, report>>

\* A request that has not been answered ends with the process.
SystemStep ==
    /\ Next
    /\ report' = IF ApiUp' \/ report.located THEN report ELSE NoReport
    /\ listing' = IF ApiUp' \/ listing.pc = "done" THEN listing ELSE NoListing

ProbeNext == SystemStep \/ ReadCounts \/ ReadLocks \/ ReadOwners \/ ListLocks

ProbeSpec == ProbeInit /\ [][ProbeNext]_allVars
-----------------------------------------------------------------------------
(* Properties                                                               *)

\* The cutover decision on this report, the other gates being open.
ReportGo ==
    Go(BuildReadiness(report, TRUE, 1), [has_diff |-> FALSE], Missing)

\* A report on which evaluate-v2-cutover.py says GO, no locked host allowed, was
\* completed while nothing was reserved, queued or running, although the tool
\* allows running tasks: it hangs on the locks being read last and on every
\* reservation being visible in them (build_readiness).
GoMeansQuiet ==
    report.counted /\ report.located /\ ReportGo => ~report.busy

\* The lock listing names one owner for a host at most, and it is a task that is
\* running the host or has ended (build_locks_payload).
OneOwnerListed ==
    \A h \in Hosts :
        /\ Cardinality(listing.owners[h]) <= 1
        /\ \A t \in listing.owners[h] :
              h \in tasks[t].hosts /\ tasks[t].status \in {"running"} \cup Terminal
=============================================================================
