--------------------------- MODULE CaptureContract ---------------------------
(***************************************************************************)
(* What the capture pipeline promises, without its tables, locks, workers   *)
(* and processes: a request gets hosts nobody else has, its task inherits   *)
(* them, visits them one at a time while it runs, ends once and gives the   *)
(* hosts back.  A ticket is a request or a task: whoever may hold hosts.    *)
(***************************************************************************)
EXTENDS FiniteSets

CONSTANTS Requests, Tasks, Hosts

Tickets == Requests \cup Tasks

VARIABLES
    held,      \* the hosts each ticket holds
    phase,     \* the status of each task
    asked,     \* tasks whose cancellation was requested
    visiting,  \* the hosts each task has a device session open to
    visited    \* the hosts each task is done with

vars == <<held, phase, asked, visiting, visited>>

Alive    == {"queued", "running"}
Outcomes == {"completed", "failed", "cancelled"}

Init ==
    /\ held = [x \in Tickets |-> {}]
    /\ phase = [t \in Tasks |-> "absent"]
    /\ asked = {}
    /\ visiting = [t \in Tasks |-> {}]
    /\ visited = [t \in Tasks |-> {}]

Reserve(r, hosts) ==
    /\ held[r] = {} /\ hosts # {}
    /\ held'[r] = hosts
    /\ \A x \in Tickets : held[x] \cap hosts = {}
    /\ held' = [held EXCEPT ![r] = hosts]
    /\ UNCHANGED <<phase, asked, visiting, visited>>

Accept(r, t) ==
    /\ held[r] # {}
    /\ phase[t] = "absent"
    /\ held' = [held EXCEPT ![r] = {}, ![t] = held[r]]
    /\ phase' = [phase EXCEPT ![t] = "queued"]
    /\ UNCHANGED <<asked, visiting, visited>>

Ask(t) ==
    /\ phase[t] \in Alive
    /\ asked' = asked \cup {t}
    /\ UNCHANGED <<held, phase, visiting, visited>>

Begin(t) ==
    /\ phase[t] = "queued"
    /\ phase' = [phase EXCEPT ![t] = "running"]
    /\ UNCHANGED <<held, asked, visiting, visited>>

\* A task that was asked to stop opens no further session.
Visit(t, h) ==
    /\ phase[t] = "running" /\ t \notin asked
    /\ visiting[t] = {}
    /\ h \in held[t] \ visited[t]
    /\ visiting' = [visiting EXCEPT ![t] = {h}]
    /\ UNCHANGED <<held, phase, asked, visited>>

\* The session ends; one that raised leaves its host unvisited.
Leave(t, done) ==
    /\ visiting[t] # {}
    /\ visiting' = [visiting EXCEPT ![t] = {}]
    /\ visited' = [visited EXCEPT ![t] = IF done THEN @ \cup visiting[t] ELSE @]
    /\ UNCHANGED <<held, phase, asked>>

\* Only a task that visited all its hosts is completed, only one that was asked
\* to stop is cancelled.
End(t, outcome) ==
    /\ phase[t] = "running" /\ visiting[t] = {}
    /\ outcome = "completed" => visited[t] = held[t]
    /\ outcome = "cancelled" => t \in asked
    /\ phase' = [phase EXCEPT ![t] = outcome]
    /\ UNCHANGED <<held, asked, visiting, visited>>

GiveBack(t) ==
    /\ phase[t] \in Outcomes
    /\ held' = [held EXCEPT ![t] = {}]
    /\ UNCHANGED <<phase, asked, visiting, visited>>

\* A failure ends all sessions and forgets the requests and the progress of the
\* running tasks; an ended task may lose what it held, a live one never does.
Interrupt ==
    /\ visiting' = [t \in Tasks |-> {}]
    /\ visited' = [t \in Tasks |-> IF phase[t] \in Alive THEN {} ELSE visited[t]]
    /\ \E lost \in SUBSET {t \in Tasks : phase[t] \in Outcomes} :
          held' = [x \in Tickets |-> IF x \in Requests \cup lost THEN {} ELSE held[x]]
    /\ UNCHANGED <<phase, asked>>

\* Afterwards the tasks that were running are ended together.
AbortAll ==
    /\ \A t \in Tasks : visiting[t] = {}
    /\ phase' = [t \in Tasks |-> IF phase[t] = "running" THEN "failed" ELSE phase[t]]
    /\ UNCHANGED <<held, asked, visiting, visited>>

\* Most steps of the pipeline change nothing of this; named to be tried first.
Idle == UNCHANGED vars

Next ==
    \/ Idle
    \/ \E r \in Requests, hosts \in SUBSET Hosts : Reserve(r, hosts)
    \/ \E r \in Requests, t \in Tasks : Accept(r, t)
    \/ \E t \in Tasks :
          \/ Ask(t) \/ Begin(t) \/ GiveBack(t)
          \/ \E h \in Hosts : Visit(t, h)
          \/ \E done \in BOOLEAN : Leave(t, done)
          \/ \E outcome \in Outcomes : End(t, outcome)
    \/ Interrupt
    \/ AbortAll

Spec == Init /\ [][Next]_vars
-----------------------------------------------------------------------------
\* What the contract comes to: no two tickets hold one host, and a session is open
\* only to a host of a running task, so no host is ever visited twice at once
\* (try_lock_hosts, run_capture_task).
Exclusive ==
    /\ \A x, y \in Tickets : x # y => held[x] \cap held[y] = {}
    /\ \A t \in Tasks : visiting[t] # {} =>
           phase[t] = "running" /\ visiting[t] \subseteq held[t]
=============================================================================
