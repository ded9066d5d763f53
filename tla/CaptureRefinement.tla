-------------------------- MODULE CaptureRefinement --------------------------
(***************************************************************************)
(* CaptureSystem, in the deployment SafeRegime describes, implements        *)
(* CaptureContract: the ownerless rows of host_locks, the task rows and the *)
(* local state of handlers and workers together are the contract's tickets. *)
(***************************************************************************)
EXTENDS CaptureSystem

\* A request handler is no task.
ASSUME TicketsAssumption == Clients \cap TaskIds = {}

\* A worker that has task t, if any: its partial result is not in the row yet.
WorkersOn(t) == {w \in Workers : worker[w].task = t}

Holding(t) ==
    \/ tasks[t].status \in Active
    \/ WorkersOn(t) # {}
    \/ \E p \in Procs : t \in recovered[p]

HeldHosts(x) ==
    IF x \in Clients
    THEN IF Reserving(x) THEN client[x].target ELSE {}
    ELSE IF Holding(x) THEN tasks[x].hosts ELSE {}

OpenSessions(t) == {worker[w].host : w \in {v \in WorkersOn(t) : worker[v].pc = "capture"}}

\* Released hosts are no longer held, and a host between the recording of its
\* failure and the next one counts as visited.
VisitedHosts(t) ==
    tasks[t].ok \cup tasks[t].bad \cup UNION {worker[w].ok \cup worker[w].bad : w \in WorkersOn(t)}

\* The variables of the contract.
held     == [x \in Clients \cup TaskIds |-> HeldHosts(x)]
phase    == [t \in TaskIds |-> tasks[t].status]
asked    == {t \in TaskIds : tasks[t].cancel}
visiting == [t \in TaskIds |-> OpenSessions(t)]
visited  == [t \in TaskIds |-> VisitedHosts(t)]

Contract == INSTANCE CaptureContract WITH Requests <- Clients, Tasks <- TaskIds

\* Every behaviour of the pipeline, crashes, restarts, retries and cancels
\* included, is one the contract allows: run_capture_task, the queue, the locks
\* and start-up recovery together keep the promise of exclusive hosts, one run
\* and one end.
ImplementsContract == Contract!Spec
=============================================================================
