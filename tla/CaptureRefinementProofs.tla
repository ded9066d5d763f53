----------------------- MODULE CaptureRefinementProofs -----------------------
(***************************************************************************)
(* In the deployment of SafeRegime, CaptureSystem implements                *)
(* CaptureContract: every step of the pipeline is one step of the contract, *)
(* or none.  The contract keeps hosts exclusive, so the pipeline does.      *)
(***************************************************************************)
EXTENDS CaptureRefinement, CaptureSystemProofs

-----------------------------------------------------------------------------
(* Where the result of a task is kept: with its worker until the task ends, *)
(* then in its row.                                                         *)

ResultPlace ==
    /\ \A t \in TaskIds : tasks[t].status \notin Terminal => tasks[t].ok = {} /\ tasks[t].bad = {}
    /\ \A t \in TaskIds : tasks[t].status = "absent" => ~tasks[t].cancel
    /\ \A w \in Workers : worker[w].pc = "release" =>
          Row(w).ok = worker[w].ok /\ Row(w).bad = worker[w].bad

\* The invariant the step simulation rests on.
RefinementInv == TypeOK /\ OneWorkerInv /\ TallyInv /\ SafeInv /\ ResultPlace

\* A worker's own step leaves the row of another worker alone, and its own row as
\* the three conjuncts say.
LEMMA ResultPlaceWorker ==
    ASSUME SafeRegime, RefinementInv, NEW w \in Workers, WorkerStep(w)
    PROVE  ResultPlace'
<1> DEFINE t == worker[w].task
           Placed(row) == /\ row.status \notin Terminal => row.ok = {} /\ row.bad = {}
                          /\ row.status = "absent" => ~row.cancel
<1> USE DEF RefinementInv
<1>1. /\ \A u \in TaskIds : Placed(tasks[u])
      /\ tasks \in [TaskIds -> Rows] /\ worker \in [Workers -> WorkerStates]
      /\ worker[w].pc \notin {"dead", "poll"} => t \in TaskIds /\ tasks[t].status # "absent"
  BY DEF ResultPlace, TypeOK, WorkerStates, OneWorkerInv, Begun
<1>2. ASSUME NEW v \in Workers, v # w, worker'[v].pc = "release"
      PROVE  Row(v)'.ok = worker'[v].ok /\ Row(v)'.bad = worker'[v].bad
  BY <1>2, OthersUndisturbed DEF ResultPlace, Row, TypeOK
<1> SUFFICES /\ \A u \in TaskIds : Placed(tasks'[u])
             /\ worker'[w].pc = "release" =>
                   Row(w)'.ok = worker'[w].ok /\ Row(w)'.bad = worker'[w].bad
  BY <1>2 DEF ResultPlace
<1>3. ASSUME NEW u \in TaskIds, tasks' = SetStatus(tasks, u, "running"),
             tasks[u].status \in {"queued", "running"}
      PROVE  \A x \in TaskIds : Placed(tasks'[x])
  BY <1>1, <1>3 DEF SetStatus, Rows, Terminal
<1>4. CASE Claim(w)
  <2>1. PICK u \in TaskIds :
           /\ tasks[u].status = "queued"
           /\ tasks' = SetStatus(tasks, u, "running")
           /\ worker' = [worker EXCEPT ![w] =
                            [IdleWorker EXCEPT !.pc = "claimed", !.task = u]]
    BY <1>4 DEF Claim, IsOldestQueued, TasksWith
  <2>2. worker'[w].pc = "claimed"
    BY <1>1, <2>1 DEF IdleWorker
  <2> QED
    BY <1>3, <2>1, <2>2
<1>5. CASE Start(w)
  <2>1. /\ tasks' = SetStatus(tasks, t, "running")
        /\ tasks[t].status = "running" /\ t \in TaskIds
    BY <1>1, <1>5 DEF Start, SafeInv, WorkerRows, Row
  <2>2. worker'[w].pc = "loop"
    BY <1>1, <1>5 DEF Start, WorkerStates
  <2> QED
    BY <1>3, <2>1, <2>2
<1>6. CASE LoadInventory(w) \/ NextHost(w) \/ CaptureHost(w) \/ CaptureRaises(w)
  <2>1. UNCHANGED tasks
    BY <1>6 DEF LoadInventory, NextHost, CaptureHost, CaptureRaises
  <2>2. worker'[w].pc # "release"
    <3>1. CASE LoadInventory(w)
      BY <1>1, <3>1 DEF LoadInventory, SetWorker, WorkerStates
    <3>2. CASE NextHost(w)
      BY <1>1, <3>2 DEF NextHost, WorkerStates
    <3>3. CASE CaptureHost(w)
      BY <1>1, <3>3 DEF CaptureHost, WorkerStates
    <3>4. CASE CaptureRaises(w)
      BY <1>1, <3>4 DEF CaptureRaises, SetWorker, WorkerStates
    <3> QED
      BY <1>6, <3>1, <3>2, <3>3, <3>4
  <2> QED
    BY <1>1, <2>1, <2>2
<1>7. ASSUME SetWorker(w, "release"), t \in TaskIds, tasks[t].status # "absent",
             \A u \in TaskIds \ {t} : tasks'[u] = tasks[u],
             tasks'[t].status \in Terminal,
             tasks'[t].ok = worker[w].ok, tasks'[t].bad = worker[w].bad
      PROVE  /\ \A u \in TaskIds : Placed(tasks'[u])
             /\ Row(w)'.ok = worker'[w].ok /\ Row(w)'.bad = worker'[w].bad
  <2>1. Placed(tasks'[t])
    BY <1>7 DEF Terminal
  <2>2. worker'[w].task = t /\ worker'[w].ok = worker[w].ok /\ worker'[w].bad = worker[w].bad
    BY <1>1, <1>7 DEF SetWorker, WorkerStates
  <2> HIDE DEF Placed
  <2> QED
    BY <1>1, <1>7, <2>1, <2>2 DEF Row
<1>8. CASE FailMissing(w)
  <2>1. /\ t \in TaskIds /\ SetWorker(w, "release")
        /\ tasks' = FailWithError(tasks, t) /\ tasks[t].status = "running"
        /\ worker[w].ok = {} /\ worker[w].bad = {}
    BY <1>1, <1>8 DEF FailMissing, TallyInv, Tallied, SafeInv, WorkerRows, Row
  <2>2. /\ tasks'[t].status = "failed"
        /\ tasks'[t].ok = tasks[t].ok /\ tasks'[t].bad = tasks[t].bad
        /\ \A u \in TaskIds \ {t} : tasks'[u] = tasks[u]
    BY <1>1, <2>1 DEF FailWithError, Rows
  <2>3. tasks[t].ok = {} /\ tasks[t].bad = {}
    BY <1>1, <2>1 DEF Terminal
  <2> QED
    BY <1>7, <2>1, <2>2, <2>3 DEF Terminal
<1>9. CASE MarkCancelled(w) \/ Finish(w)
  <2>1. PICK status \in Terminal :
           tasks' = Conclude(tasks, t, status, worker[w].ok, worker[w].bad)
    BY <1>9 DEF MarkCancelled, Finish, FinalStatus, Terminal
  <2>2. t \in TaskIds /\ tasks[t].status # "absent" /\ SetWorker(w, "release")
    BY <1>1, <1>9 DEF MarkCancelled, Finish, SafeRegime
  <2>3. /\ tasks'[t].status = status
        /\ tasks'[t].ok = worker[w].ok /\ tasks'[t].bad = worker[w].bad
        /\ \A u \in TaskIds \ {t} : tasks'[u] = tasks[u]
    BY <1>1, <2>1, <2>2 DEF Conclude, Rows
  <2> QED
    BY <1>7, <2>1, <2>2, <2>3
<1>10. CASE HandleException(w)
  <2>1. /\ t \in TaskIds /\ tasks[t].status # "absent" /\ SetWorker(w, "release")
        /\ tasks' = ConcludeWithError(tasks, t, worker[w].ok, worker[w].bad)
    BY <1>1, <1>10 DEF HandleException
  <2>2. /\ tasks'[t].status = "failed"
        /\ tasks'[t].ok = worker[w].ok /\ tasks'[t].bad = worker[w].bad
        /\ \A u \in TaskIds \ {t} : tasks'[u] = tasks[u]
    BY <1>1, <2>1 DEF ConcludeWithError, Rows
  <2> QED
    BY <1>7, <2>1, <2>2 DEF Terminal
<1>11. CASE Release(w)
  BY <1>1, <1>11, WorkerType DEF Release
<1> QED
  BY <1>4, <1>5, <1>6, <1>8, <1>9, <1>10, <1>11 DEF WorkerStep

\* The result is written with the end of the task: only the steps of a worker
\* that ends one, Recover and the handlers of exceptions touch it.
LEMMA ResultPlaceStep ==
    ASSUME SafeRegime, RefinementInv, [Next]_vars
    PROVE  ResultPlace'
<1> USE DEF RefinementInv
<1>1. ASSUME NEW w \in Workers, WorkerStep(w) PROVE ResultPlace'
  BY <1>1, ResultPlaceWorker
<1>2. CASE /\ \A w \in Workers : worker'[w] = worker[w] \/ worker'[w].pc # "release"
           /\ \A t \in TaskIds : \/ tasks'[t] = tasks[t]
                                 \/ tasks[t].status = "absent" /\ tasks'[t].ok = {}
                                       /\ tasks'[t].bad = {} /\ ~tasks'[t].cancel
                                 \/ /\ tasks[t].status # "absent" /\ tasks'[t].status # "absent"
                                    /\ tasks'[t].ok = tasks[t].ok
                                    /\ tasks'[t].bad = tasks[t].bad
                                    /\ tasks'[t].status \notin Terminal =>
                                          tasks[t].status \notin Terminal
  <2>1. \A t \in TaskIds : /\ tasks'[t].status \notin Terminal => tasks'[t].ok = {} /\ tasks'[t].bad = {}
                           /\ tasks'[t].status = "absent" => ~tasks'[t].cancel
    BY <1>2 DEF ResultPlace, Terminal
  <2>2. ASSUME NEW w \in Workers, worker'[w].pc = "release"
        PROVE  Row(w)'.ok = worker'[w].ok /\ Row(w)'.bad = worker'[w].bad
    <3>1. worker'[w] = worker[w] /\ worker[w].task \in TaskIds
      BY <1>2, <2>2 DEF TypeOK, WorkerStates
    <3>2. tasks[worker[w].task].status # "absent"
      BY <2>2, <3>1 DEF TypeOK, OneWorkerInv, Begun
    <3> QED
      BY <1>2, <2>2, <3>1, <3>2 DEF ResultPlace, Row
  <2> QED
    BY <2>1, <2>2 DEF ResultPlace
<1>3. CASE UNCHANGED tasks /\ \A w \in Workers : worker'[w] \in {worker[w], IdleWorker, DeadWorker}
  BY <1>2, <1>3, WorkerType
<1>4. ASSUME NEW c \in Clients, InsertTask(c) PROVE ResultPlace'
  <2>1. PICK t \in TaskIds : tasks[t].status = "absent"
                             /\ tasks' = CreateTask(tasks, t, client[c].target)
    BY <1>4 DEF InsertTask
  <2>2. /\ tasks'[t].ok = {} /\ tasks'[t].bad = {} /\ ~tasks'[t].cancel
        /\ \A u \in TaskIds \ {t} : tasks'[u] = tasks[u]
    BY <2>1 DEF CreateTask, NoRow, TypeOK
  <2> QED
    BY <1>2, <1>4, <2>1, <2>2 DEF InsertTask
<1>5. ASSUME NEW t \in TaskIds, Cancel(t) PROVE ResultPlace'
  <2>1. \A u \in TaskIds : /\ tasks'[u].status = tasks[u].status
                           /\ tasks'[u].ok = tasks[u].ok /\ tasks'[u].bad = tasks[u].bad
                           /\ u # t => tasks'[u] = tasks[u]
    BY <1>5 DEF Cancel, RequestCancel, TypeOK, Rows
  <2> QED
    BY <1>2, <1>5, <2>1 DEF Cancel
<1>6. ASSUME NEW p \in Procs, Recover(p) PROVE ResultPlace'
  <2>1. \A u \in TaskIds : \/ tasks'[u] = tasks[u]
                           \/ /\ tasks[u].status = "running" /\ tasks'[u].status = "failed"
                              /\ tasks'[u].ok = tasks[u].ok /\ tasks'[u].bad = tasks[u].bad
    BY <1>6 DEF Recover, RecoverRunning, TypeOK, Rows
  <2> QED
    BY <1>2, <1>6, <2>1 DEF Recover, Terminal
<1>7. \/ UNCHANGED tasks
      \/ \E c \in Clients : InsertTask(c)
      \/ \E t \in TaskIds : Cancel(t)
      \/ \E w \in Workers : WorkerStep(w)
      \/ \E p \in Procs : Recover(p)
  BY TableWriters DEF WorkerStep
<1>8. ASSUME UNCHANGED tasks PROVE ResultPlace'
  <2>1. ASSUME NEW w \in Workers, CaughtFault(w) PROVE FALSE
    BY <2>1 DEF CaughtFault, SafeRegime
  <2> QED
    BY <1>1, <1>3, <1>8, <2>1, WorkerWriters
<1> QED
  BY <1>1, <1>4, <1>5, <1>6, <1>7, <1>8

\* All of it is an invariant in that deployment.
THEOREM RefinementInvariant == ASSUME SafeRegime PROVE Spec => []RefinementInv
<1>1. Init => ResultPlace
  BY WorkerType DEF Init, ResultPlace, NoRow
<1>2. TypeOK /\ OneWorkerInv /\ TallyInv /\ SafeInv /\ ResultPlace /\ [Next]_vars => ResultPlace'
  BY ResultPlaceStep DEF RefinementInv
<1>3. Spec => []ResultPlace
  BY <1>1, <1>2, TypeCorrect, OneWorkerInvariant, TallyInvariant, ReservationCorrect, PTL DEF Spec
<1> QED
  BY <1>3, TypeCorrect, OneWorkerInvariant, TallyInvariant, ReservationCorrect, PTL
     DEF RefinementInv
-----------------------------------------------------------------------------
(* The mapping, as the steps see it.                                        *)

\* Steps that leave the requests, the rows, the workers and start-up recovery as
\* they are do nothing to the contract.
LEMMA SameView ==
    ASSUME UNCHANGED <<client, tasks, worker, recovered>>
    PROVE  Contract!Idle
BY DEF Contract!Idle, Contract!vars, held, phase, asked, visiting, visited, HeldHosts,
    Holding, WorkersOn, OpenSessions, VisitedHosts, Reserving

\* A step of a worker with its task t moves t only.
LEMMA WorkerView ==
    ASSUME SafeRegime, RefinementInv, NEW w \in Workers, WorkerStep(w), NEW t \in TaskIds,
           worker[w].task \in {t, NoTask}, worker'[w].task \in {t, NoTask},
           \A u \in TaskIds \ {t} : tasks'[u] = tasks[u]
    PROVE  /\ held' = [held EXCEPT ![t] = HeldHosts(t)']
           /\ phase' = [phase EXCEPT ![t] = tasks'[t].status]
           /\ visiting' = [visiting EXCEPT ![t] = OpenSessions(t)']
           /\ visited' = [visited EXCEPT ![t] = VisitedHosts(t)']
           /\ tasks'[t].cancel = tasks[t].cancel => asked' = asked
<1> USE DEF RefinementInv
<1>1. \A v \in Workers : v # w => worker'[v] = worker[v]
  BY OthersUndisturbed
<1>2. UNCHANGED <<client, recovered>>
  BY DEF WorkerStep, Claim, LoadInventory, FailMissing, Start, NextHost, MarkCancelled,
      CaptureHost, CaptureRaises, Finish, HandleException, Release, procVars
<1>3. ASSUME NEW u \in TaskIds, u # t
      PROVE  /\ HeldHosts(u)' = HeldHosts(u)
             /\ OpenSessions(u)' = OpenSessions(u)
             /\ VisitedHosts(u)' = VisitedHosts(u)
  <2>1. tasks'[u] = tasks[u]
    BY <1>3
  <2>2. worker[w].task # u /\ worker'[w].task # u
    BY <1>3, MaxTasksAssumption DEF TaskIds, NoTask
  <2>3. WorkersOn(u)' = WorkersOn(u)
    BY <1>1, <2>2 DEF WorkersOn
  <2>4. \A v \in WorkersOn(u) : worker'[v] = worker[v]
    BY <1>1, <2>2 DEF WorkersOn
  <2>5. HeldHosts(u)' = HeldHosts(u)
    BY <1>2, <2>1, <2>3 DEF HeldHosts, Holding, Reserving
  <2>6. OpenSessions(u)' = OpenSessions(u)
    BY <2>3, <2>4 DEF OpenSessions
  <2>7. VisitedHosts(u)' = VisitedHosts(u)
    BY <2>1, <2>3, <2>4 DEF VisitedHosts
  <2> QED
    BY <2>5, <2>6, <2>7
<1>4. \A c \in Clients : HeldHosts(c)' = HeldHosts(c)
  BY <1>2 DEF HeldHosts, Reserving
<1>5. held' = [held EXCEPT ![t] = HeldHosts(t)']
  <2>1. \A x \in Clients \cup TaskIds : x # t => HeldHosts(x)' = HeldHosts(x)
    BY <1>3, <1>4
  <2> QED
    BY <2>1 DEF held
<1>6. phase' = [phase EXCEPT ![t] = tasks'[t].status]
  BY DEF phase
<1>7. visiting' = [visiting EXCEPT ![t] = OpenSessions(t)']
  BY <1>3 DEF visiting
<1>8. visited' = [visited EXCEPT ![t] = VisitedHosts(t)']
  BY <1>3 DEF visited
<1>9. tasks'[t].cancel = tasks[t].cancel => asked' = asked
  BY DEF asked
<1> QED
  BY <1>5, <1>6, <1>7, <1>8, <1>9

\* The session a worker has open, and the hosts its task is done with.
Session(w) == IF worker[w].pc = "capture" THEN {worker[w].host} ELSE {}
Reached(w) == Row(w).ok \cup Row(w).bad \cup worker[w].ok \cup worker[w].bad

\* What the contract says of the task of a worker ...
OwnView ==
    \A w \in Workers : worker[w].task # NoTask =>
        /\ worker[w].task \in TaskIds /\ worker[w].task \notin Clients
        /\ HeldHosts(worker[w].task) = Row(w).hosts
        /\ OpenSessions(worker[w].task) = Session(w)
        /\ VisitedHosts(worker[w].task) = Reached(w)

\* ... is what the worker and its row say, as no other worker has the task ...
LEMMA OwnTask == TypeOK /\ OneWorkerInv => OwnView
<1> SUFFICES ASSUME TypeOK, OneWorkerInv, NEW w \in Workers, worker[w].task # NoTask
             PROVE  LET t == worker[w].task IN
                    /\ t \in TaskIds /\ t \notin Clients
                    /\ HeldHosts(t) = Row(w).hosts
                    /\ OpenSessions(t) = Session(w)
                    /\ VisitedHosts(t) = Reached(w)
  BY DEF OwnView
<1> DEFINE t == worker[w].task
<1>1. t \in TaskIds /\ t \notin Clients
  BY TicketsAssumption DEF TypeOK, WorkerStates
<1>2. WorkersOn(t) = {w}
  BY DEF WorkersOn, OneWorkerInv, OneWorkerPerTask
<1>3. HeldHosts(t) = Row(w).hosts
  BY <1>1, <1>2 DEF HeldHosts, Holding, Row
<1>4. OpenSessions(t) = Session(w)
  BY <1>2 DEF OpenSessions, Session
<1>5. VisitedHosts(t) = Reached(w)
  BY <1>2 DEF VisitedHosts, Reached, Row
<1> QED
  BY <1>1, <1>3, <1>4, <1>5

\* ... before and after a step.
LEMMA OwnTaskNext == (TypeOK /\ OneWorkerInv => OwnView)'
BY OwnTask, PTL

\* The invariant of the refinement holds after every step.
LEMMA InvariantNext ==
    ASSUME SafeRegime, RefinementInv, [Next]_vars
    PROVE  RefinementInv'
<1>1. TypeOK'
  BY NextType DEF RefinementInv
<1>2. OneWorkerInv'
  BY OneWorkerStep DEF RefinementInv
<1>3. TallyInv'
  BY TargetsStep, RowHostsStep, TallyStep, RowResultStep DEF RefinementInv, TallyInv
<1>4. SafeInv'
  BY ReservationStep, WorkerRowsStep, QuietStep DEF RefinementInv, SafeInv
<1>5. ResultPlace'
  BY ResultPlaceStep
<1> QED
  BY <1>1, <1>2, <1>3, <1>4, <1>5 DEF RefinementInv
-----------------------------------------------------------------------------
(* A worker's steps.                                                        *)

\* A worker begins the task it claims, visits a host and leaves it, ends the task
\* and gives back its hosts; the contract sees none of its other steps.
LEMMA WorkerSteps ==
    ASSUME SafeRegime, RefinementInv, [Next]_vars, NEW w \in Workers, WorkerStep(w)
    PROVE  Contract!Next
<1> DEFINE t == worker[w].task
           run == worker[w]
<1> USE DEF RefinementInv
<1>1. /\ tasks \in [TaskIds -> Rows] /\ worker \in [Workers -> WorkerStates]
      /\ run.pc \notin {"dead", "poll"} => t \in TaskIds /\ t # NoTask
      /\ OwnView /\ OwnView'
  BY OwnTask, OwnTaskNext, InvariantNext DEF TypeOK, WorkerStates
\* A step in which the worker keeps its task and that task's row its cancel flag:
\* the contract sees the status, the session and the hosts reached.
<1>2. ASSUME run.pc \notin {"dead", "poll"}, worker'[w].task = t,
             \A u \in TaskIds \ {t} : tasks'[u] = tasks[u],
             tasks'[t].cancel = tasks[t].cancel
      PROVE  /\ UNCHANGED <<held, asked>>
             /\ phase' = [phase EXCEPT ![t] = tasks'[t].status]
             /\ visiting' = [visiting EXCEPT ![t] = Session(w)']
             /\ visited' = [visited EXCEPT ![t] = Reached(w)']
             /\ phase[t] = Row(w).status /\ held[t] = Row(w).hosts
             /\ t \in asked <=> Row(w).cancel
             /\ visiting[t] = Session(w) /\ visited[t] = Reached(w)
  <2>1. /\ held' = [held EXCEPT ![t] = HeldHosts(t)']
        /\ phase' = [phase EXCEPT ![t] = tasks'[t].status]
        /\ visiting' = [visiting EXCEPT ![t] = OpenSessions(t)']
        /\ visited' = [visited EXCEPT ![t] = VisitedHosts(t)']
        /\ asked' = asked
    BY <1>1, <1>2, WorkerView
  <2>2. /\ HeldHosts(t) = Row(w).hosts /\ OpenSessions(t) = Session(w)
        /\ VisitedHosts(t) = Reached(w)
    BY <1>1, <1>2 DEF OwnView
  <2>3. /\ HeldHosts(t)' = Row(w)'.hosts /\ OpenSessions(t)' = Session(w)'
        /\ VisitedHosts(t)' = Reached(w)'
    BY <1>1, <1>2 DEF OwnView
  <2>4. Row(w)'.hosts = Row(w).hosts
    BY <1>1, <1>2, RowStays
  <2>5. held' = held
    BY <1>1, <1>2, <2>1, <2>2, <2>3, <2>4 DEF held
  <2> QED
    BY <1>1, <1>2, <2>1, <2>2, <2>3, <2>5 DEF held, phase, asked, visiting, visited, Row
\* When it also does nothing the contract sees.
<1>3. ASSUME run.pc \notin {"dead", "poll"}, worker'[w].task = t, tasks' = tasks,
             Session(w)' = Session(w), Reached(w)' = Reached(w)
      PROVE  Contract!Next
  BY <1>1, <1>2, <1>3
  DEF Contract!Next, Contract!Idle, Contract!vars, held, phase, visiting, visited, Row
<1>4. CASE LoadInventory(w)
  <2>1. /\ worker'[w].task = t /\ worker'[w].ok = run.ok /\ worker'[w].bad = run.bad
        /\ worker'[w].pc # "capture" /\ run.pc = "claimed" /\ tasks' = tasks
    BY <1>1, <1>4 DEF LoadInventory, SetWorker, WorkerStates
  <2> QED
    BY <1>3, <2>1 DEF Session, Reached, Row
<1>5. CASE Start(w)
  <2>1. /\ worker'[w].task = t /\ worker'[w].ok = run.ok /\ worker'[w].bad = run.bad
        /\ worker'[w].pc # "capture" /\ run.pc = "start"
    BY <1>1, <1>5 DEF Start, WorkerStates
  <2>2. tasks[t].status = "running" /\ t \in TaskIds
    BY <1>1, <2>1 DEF SafeInv, WorkerRows, Row
  <2>3. tasks' = tasks
    BY <1>1, <1>5, <2>2 DEF Start, SetStatus, Rows
  <2> QED
    BY <1>3, <2>1, <2>3 DEF Session, Reached, Row
<1>6. CASE NextHost(w)
  <2>1. PICK h \in run.todo :
           worker' = [worker EXCEPT
               ![w].pc = IF Row(w).cancel THEN "cancelling" ELSE "capture", ![w].host = h]
    BY <1>6 DEF NextHost
  <2>2. /\ worker'[w].pc = IF Row(w).cancel THEN "cancelling" ELSE "capture"
        /\ worker'[w].host = h
        /\ worker'[w].ok = run.ok /\ worker'[w].bad = run.bad /\ worker'[w].task = t
    BY <1>1, <2>1 DEF WorkerStates
  <2>3. run.pc = "loop" /\ tasks' = tasks
    BY <1>6 DEF NextHost
  <2>4. CASE Row(w).cancel
    BY <1>3, <2>2, <2>3, <2>4 DEF Session, Reached, Row
  <2>5. CASE ~Row(w).cancel
    <3>1. Session(w)' = {h} /\ Session(w) = {} /\ Reached(w)' = Reached(w)
      BY <2>2, <2>3, <2>5 DEF Session, Reached, Row
    <3>2. /\ Row(w).status = "running" /\ h \in Hosts
          /\ h \in Row(w).hosts \ Reached(w)
      <4>1. Row(w).status = "running"
        BY <2>3 DEF SafeInv, WorkerRows
      <4>2. Row(w).ok = {} /\ Row(w).bad = {}
        BY <1>1, <2>3, <4>1 DEF ResultPlace, Row, Terminal
      <4>3. h \in Row(w).hosts \ (run.ok \cup run.bad)
        BY <2>1, <2>3 DEF TallyInv, Tallied, InTry
      <4>4. h \in Hosts
        BY <1>1, <2>1 DEF WorkerStates
      <4> QED
        BY <4>1, <4>2, <4>3, <4>4 DEF Reached
    <3>3. Contract!Visit(t, h)
      BY <1>1, <1>2, <2>2, <2>3, <2>5, <3>1, <3>2
      DEF Contract!Visit, phase, visited, Row
    <3> QED
      BY <1>1, <2>3, <3>2, <3>3 DEF Contract!Next
  <2> QED
    BY <2>4, <2>5
<1>7. CASE CaptureHost(w)
  <2>1. PICK good \in BOOLEAN :
           worker' = [worker EXCEPT
               ![w].pc = "loop", ![w].todo = @ \ {run.host}, ![w].host = NoHost,
               ![w].ok  = IF good THEN @ \cup {run.host} ELSE @,
               ![w].bad = IF good THEN @ ELSE @ \cup {run.host}]
    BY <1>7 DEF CaptureHost
  <2>2. /\ worker'[w].pc = "loop" /\ worker'[w].task = t
        /\ worker'[w].ok = IF good THEN run.ok \cup {run.host} ELSE run.ok
        /\ worker'[w].bad = IF good THEN run.bad ELSE run.bad \cup {run.host}
    BY <1>1, <2>1 DEF WorkerStates
  <2>3. run.pc = "capture" /\ tasks' = tasks
    BY <1>7 DEF CaptureHost
  <2>4. Session(w)' = {} /\ Session(w) # {} /\ Reached(w)' = Reached(w) \cup Session(w)
    BY <2>2, <2>3 DEF Session, Reached, Row
  <2>5. Contract!Leave(t, TRUE)
    BY <1>1, <1>2, <2>2, <2>3, <2>4 DEF Contract!Leave, phase
  <2> QED
    BY <1>1, <2>3, <2>5 DEF Contract!Next
<1>8. CASE CaptureRaises(w)
  <2>1. SetWorker(w, "except") /\ run.pc = "capture" /\ tasks' = tasks
    BY <1>8 DEF CaptureRaises, SafeRegime
  <2>2. /\ worker'[w].pc = "except" /\ worker'[w].task = t
        /\ worker'[w].ok = run.ok /\ worker'[w].bad = run.bad
    BY <1>1, <2>1 DEF SetWorker, WorkerStates
  <2>3. Session(w)' = {} /\ Session(w) # {} /\ Reached(w)' = Reached(w)
    BY <2>1, <2>2 DEF Session, Reached, Row
  <2>4. Contract!Leave(t, FALSE)
    BY ZenonT(30), <1>1, <1>2, <2>1, <2>2, <2>3 DEF Contract!Leave, phase, visited
  <2> QED
    BY <1>1, <2>1, <2>4 DEF Contract!Next
\* A step that ends the task.
<1>9. ASSUME NEW outcome \in Terminal, SetWorker(w, "release"),
             run.pc \in WorkerPcs \ {"dead", "poll", "capture", "release"},
             \A u \in TaskIds \ {t} : tasks'[u] = tasks[u],
             tasks'[t].status = outcome, tasks'[t].cancel = tasks[t].cancel,
             tasks'[t].ok \cup tasks'[t].bad = run.ok \cup run.bad,
             outcome = "completed" => run.ok \cup run.bad = Row(w).hosts,
             outcome = "cancelled" => Row(w).cancel
      PROVE  Contract!Next
  <2>1. /\ worker'[w].pc = "release" /\ worker'[w].task = t
        /\ worker'[w].ok = run.ok /\ worker'[w].bad = run.bad
    BY <1>1, <1>9 DEF SetWorker, WorkerStates
  <2>2. Row(w).status = "running"
    BY <1>9 DEF SafeInv, WorkerRows
  <2>3. Row(w).ok = {} /\ Row(w).bad = {}
    BY <1>1, <1>9, <2>2 DEF ResultPlace, Row, Terminal
  <2>4. /\ Session(w)' = {} /\ Session(w) = {}
        /\ Reached(w)' = run.ok \cup run.bad /\ Reached(w) = run.ok \cup run.bad
    BY <1>9, <2>1, <2>3 DEF Session, Reached, Row
  <2>5. Contract!End(t, outcome)
    <3>1. /\ UNCHANGED <<held, asked>> /\ phase' = [phase EXCEPT ![t] = outcome]
          /\ visiting' = [visiting EXCEPT ![t] = {}]
          /\ visited' = [visited EXCEPT ![t] = run.ok \cup run.bad]
          /\ phase[t] = "running" /\ held[t] = Row(w).hosts
          /\ t \in asked <=> Row(w).cancel
          /\ visiting[t] = {} /\ visited[t] = run.ok \cup run.bad
      BY <1>2, <1>9, <2>1, <2>2, <2>4
    <3>2. UNCHANGED <<visiting, visited>>
      BY <3>1 DEF visiting, visited
    <3> QED
      BY <1>9, <3>1, <3>2 DEF Contract!End
  <2> QED
    BY <1>1, <1>9, <2>5 DEF Contract!Next, Contract!Outcomes, Terminal
<1>10. CASE FailMissing(w)
  <2>1. /\ t \in TaskIds /\ SetWorker(w, "release") /\ run.pc = "missing"
        /\ tasks' = FailWithError(tasks, t)
        /\ run.ok = {} /\ run.bad = {} /\ tasks[t].status = "running"
    BY <1>1, <1>10 DEF FailMissing, TallyInv, Tallied, SafeInv, WorkerRows, Row
  <2>2. /\ tasks'[t].status = "failed" /\ tasks'[t].cancel = tasks[t].cancel
        /\ tasks'[t].ok = tasks[t].ok /\ tasks'[t].bad = tasks[t].bad
        /\ \A u \in TaskIds \ {t} : tasks'[u] = tasks[u]
    BY <1>1, <2>1 DEF FailWithError, Rows
  <2>3. tasks[t].ok = {} /\ tasks[t].bad = {}
    BY <1>1, <2>1 DEF ResultPlace, Terminal
  <2> QED
    BY <1>9, <2>1, <2>2, <2>3 DEF Terminal, WorkerPcs
<1>11. CASE MarkCancelled(w)
  <2>1. /\ t \in TaskIds /\ SetWorker(w, "release") /\ run.pc = "cancelling"
        /\ tasks' = Conclude(tasks, t, "cancelled", run.ok, run.bad)
        /\ Row(w).cancel
    BY <1>1, <1>11 DEF MarkCancelled, TallyInv, Tallied
  <2>2. /\ tasks'[t].status = "cancelled" /\ tasks'[t].cancel = tasks[t].cancel
        /\ tasks'[t].ok = run.ok /\ tasks'[t].bad = run.bad
        /\ \A u \in TaskIds \ {t} : tasks'[u] = tasks[u]
    BY <1>1, <2>1 DEF Conclude, Rows
  <2> QED
    BY <1>9, <2>1, <2>2 DEF Terminal, WorkerPcs, InTry
<1>12. CASE Finish(w)
  <2> DEFINE status == FinalStatus(run.ok, run.bad)
  <2>1. /\ t \in TaskIds /\ SetWorker(w, "release") /\ run.pc = "loop"
        /\ tasks' = Conclude(tasks, t, status, run.ok, run.bad)
        /\ run.ok \cup run.bad = Row(w).hosts
    BY <1>1, <1>12 DEF Finish, SafeRegime, TallyInv, Tallied, InTry
  <2>2. status \in Terminal /\ status # "cancelled"
    BY DEF FinalStatus, Terminal
  <2> HIDE DEF status
  <2>3. /\ tasks'[t].status = status /\ tasks'[t].cancel = tasks[t].cancel
        /\ tasks'[t].ok = run.ok /\ tasks'[t].bad = run.bad
        /\ \A u \in TaskIds \ {t} : tasks'[u] = tasks[u]
    BY <1>1, <2>1 DEF Conclude, Rows
  <2> QED
    BY <1>9, <2>1, <2>2, <2>3 DEF WorkerPcs, InTry
<1>13. CASE HandleException(w)
  <2>1. /\ t \in TaskIds /\ SetWorker(w, "release") /\ run.pc = "except"
        /\ tasks' = ConcludeWithError(tasks, t, run.ok, run.bad)
    BY <1>1, <1>13 DEF HandleException
  <2>2. /\ tasks'[t].status = "failed" /\ tasks'[t].cancel = tasks[t].cancel
        /\ tasks'[t].ok = run.ok /\ tasks'[t].bad = run.bad
        /\ \A u \in TaskIds \ {t} : tasks'[u] = tasks[u]
    BY <1>1, <2>1 DEF ConcludeWithError, Rows
  <2> QED
    BY <1>9, <2>1, <2>2 DEF Terminal, WorkerPcs
<1>14. CASE Claim(w)
  <2>1. PICK u \in TaskIds :
           /\ tasks[u].status = "queued"
           /\ tasks' = SetStatus(tasks, u, "running")
           /\ worker' = [worker EXCEPT ![w] =
                            [IdleWorker EXCEPT !.pc = "claimed", !.task = u]]
    BY <1>14 DEF Claim, IsOldestQueued, TasksWith
  <2>2. /\ worker'[w].pc = "claimed" /\ worker'[w].task = u
        /\ worker'[w].ok = {} /\ worker'[w].bad = {} /\ run.task = NoTask
    BY <1>1, <1>14, <2>1 DEF IdleWorker, Claim, TypeOK
  <2>3. /\ tasks'[u].status = "running" /\ tasks'[u].cancel = tasks[u].cancel
        /\ tasks'[u].hosts = tasks[u].hosts
        /\ tasks'[u].ok = tasks[u].ok /\ tasks'[u].bad = tasks[u].bad
        /\ \A x \in TaskIds \ {u} : tasks'[x] = tasks[x]
    BY <1>1, <2>1 DEF SetStatus, Rows
  <2>4. WorkersOn(u) = {} /\ u # NoTask /\ u \notin Clients
    BY <2>1, TicketsAssumption, MaxTasksAssumption
    DEF WorkersOn, OneWorkerInv, Begun, TaskIds, NoTask
  <2>5. /\ HeldHosts(u) = tasks[u].hosts /\ OpenSessions(u) = {}
        /\ VisitedHosts(u) = tasks[u].ok \cup tasks[u].bad
    BY <2>1, <2>4 DEF HeldHosts, Holding, OpenSessions, VisitedHosts, Active
  <2>6. /\ HeldHosts(u)' = tasks'[u].hosts /\ OpenSessions(u)' = {}
        /\ VisitedHosts(u)' = tasks'[u].ok \cup tasks'[u].bad
    BY <1>1, <2>2, <2>4 DEF OwnView, Session, Reached, Row
  <2>7. /\ held' = [held EXCEPT ![u] = HeldHosts(u)']
        /\ phase' = [phase EXCEPT ![u] = tasks'[u].status]
        /\ visiting' = [visiting EXCEPT ![u] = OpenSessions(u)']
        /\ visited' = [visited EXCEPT ![u] = VisitedHosts(u)']
        /\ asked' = asked
    BY <2>2, <2>3, WorkerView
  <2>8. UNCHANGED <<held, visiting, visited>>
    <3>1. held[u] = HeldHosts(u)' /\ visiting[u] = OpenSessions(u)' /\ visited[u] = VisitedHosts(u)'
      BY <2>3, <2>5, <2>6 DEF held, visiting, visited
    <3> QED
      BY <2>7, <3>1 DEF held, visiting, visited
  <2>9. Contract!Begin(u)
    BY <2>1, <2>3, <2>7, <2>8 DEF Contract!Begin, phase
  <2> QED
    BY <2>9 DEF Contract!Next
<1>15. CASE Release(w)
  <2>1. /\ run.pc = "release" /\ t \in TaskIds /\ t # NoTask /\ tasks' = tasks
        /\ worker'[w].task = NoTask
    BY <1>1, <1>15, WorkerType DEF Release
  <2>2. PICK u \in TaskIds : u = t
    BY <2>1
  <2>3. /\ tasks[u].status \in Terminal
        /\ tasks[u].ok = run.ok /\ tasks[u].bad = run.bad
    BY <2>1, <2>2 DEF SafeInv, WorkerRows, ResultPlace, Row
  <2>4. OpenSessions(u) = {} /\ VisitedHosts(u) = tasks[u].ok \cup tasks[u].bad /\ u \notin Clients
    BY <1>1, <2>1, <2>2, <2>3 DEF OwnView, Session, Reached, Row
  <2>5. WorkersOn(u)' = {}
    <3>1. ASSUME NEW v \in Workers PROVE worker'[v].task # u
      BY <2>1, <2>2, OthersUndisturbed DEF OneWorkerInv, OneWorkerPerTask
    <3> QED
      BY <3>1 DEF WorkersOn
  <2>6. \A p \in Procs : recovered'[p] = {}
    BY <1>15, OneProcess DEF Release, SafeInv, QuietWhenDown, ApiUp, procVars
  <2>7. /\ HeldHosts(u)' = {} /\ OpenSessions(u)' = {}
        /\ VisitedHosts(u)' = tasks[u].ok \cup tasks[u].bad
    <3>1. tasks'[u].status \notin Active
      BY <2>1, <2>3 DEF Terminal, Active
    <3>2. ~Holding(u)'
      BY <2>5, <2>6, <3>1 DEF Holding
    <3> QED
      BY <2>1, <2>4, <2>5, <3>2 DEF HeldHosts, OpenSessions, VisitedHosts
  <2>8. /\ held' = [held EXCEPT ![u] = HeldHosts(u)']
        /\ phase' = [phase EXCEPT ![u] = tasks'[u].status]
        /\ visiting' = [visiting EXCEPT ![u] = OpenSessions(u)']
        /\ visited' = [visited EXCEPT ![u] = VisitedHosts(u)']
        /\ asked' = asked
    BY <2>1, <2>2, WorkerView
  <2>9. UNCHANGED <<phase, visiting, visited>>
    <3>1. /\ phase[u] = tasks'[u].status
          /\ visiting[u] = OpenSessions(u)' /\ visited[u] = VisitedHosts(u)'
      BY <2>1, <2>4, <2>7 DEF phase, visiting, visited
    <3> QED
      BY <2>8, <3>1 DEF phase, visiting, visited
  <2>10. Contract!GiveBack(u)
    BY <2>3, <2>7, <2>8, <2>9 DEF Contract!GiveBack, Contract!Outcomes, phase, Terminal
  <2> QED
    BY <2>10 DEF Contract!Next
<1> QED
  BY <1>4, <1>5, <1>6, <1>7, <1>8, <1>10, <1>11, <1>12, <1>13, <1>14, <1>15 DEF WorkerStep
-----------------------------------------------------------------------------
(* The steps of the requests.                                               *)

\* What a ticket holds in the contract is reserved in the pipeline.
LEMMA HeldIsReserved ==
    \A x \in Clients \cup TaskIds : HeldHosts(x) \subseteq ReservedHosts
<1> SUFFICES ASSUME NEW x \in Clients \cup TaskIds, NEW h \in HeldHosts(x)
             PROVE  h \in ReservedHosts
  OBVIOUS
<1>1. CASE x \in Clients
  BY <1>1, ReservedMember DEF HeldHosts
<1>2. CASE x \notin Clients
  <2>1. x \in HolderTasks /\ h \in tasks[x].hosts
    BY <1>2 DEF HeldHosts, Holding, HolderTasks, TasksWith, WorkersOn
  <2> QED
    BY <2>1, ReservedMember
<1> QED
  BY <1>1, <1>2

\* A request handler reserves when it takes the locks and is accepted when it
\* inserts the task; the contract sees none of its other steps.
LEMMA RequestSteps ==
    ASSUME SafeRegime, RefinementInv, [Next]_vars, NEW c \in Clients,
           \/ RequestStep(c)
           \/ \E mode \in {"single", "batch"}, requested \in SUBSET Hosts :
                  Submit(c, mode, requested)
           \/ \E t \in TaskIds : Retry(c, t)
    PROVE  Contract!Next
<1> USE DEF RefinementInv
<1>1. client \in [Clients -> ClientStates] /\ c \notin TaskIds
  BY TicketsAssumption DEF TypeOK
\* A step in which no request begins or ends its reservation.
<1>2. ASSUME UNCHANGED <<tasks, worker, recovered>>, client[c].pc # "create",
             client'[c].pc # "create", \A d \in Clients \ {c} : client'[d] = client[d]
      PROVE  Contract!Next
  <2>1. \A x \in Clients : HeldHosts(x)' = HeldHosts(x)
    BY <1>2 DEF HeldHosts, Reserving
  <2>2. \A x \in TaskIds : HeldHosts(x)' = HeldHosts(x)
    BY <1>2, TicketsAssumption DEF HeldHosts, Holding, WorkersOn
  <2>3. held' = held
    BY <2>1, <2>2 DEF held
  <2>4. UNCHANGED <<phase, asked, visiting, visited>>
    BY <1>2 DEF phase, asked, visiting, visited, OpenSessions, VisitedHosts, WorkersOn
  <2> QED
    BY <2>3, <2>4 DEF Contract!Next, Contract!Idle, Contract!vars
<1>3. ASSUME TryLock(c) \/ Relock(c), Acquire(c) PROVE Contract!Next
  <2> DEFINE target == client[c].target
  <2>1. /\ UNCHANGED <<tasks, worker, recovered>>
        /\ client[c].pc \in {"lock", "relock"}
        /\ client'[c].pc = "create" /\ client'[c].target = target
        /\ \A d \in Clients \ {c} : client'[d] = client[d]
    BY <1>1, <1>3 DEF TryLock, Relock, Acquire, SetClient, procVars, ClientStates
  <2>2. target # {} /\ target \in SUBSET Hosts
    BY <1>1, <2>1 DEF TallyInv, ClientStates
  <2>3. ReservedHosts \cap target = {}
    BY <1>3 DEF Acquire, Conflicts, SafeInv, Reservation, LockedHosts
  <2>4. \A x \in Clients \cup TaskIds : held[x] \cap target = {}
    BY <2>3, HeldIsReserved DEF held
  <2>5. held[c] = {}
    BY <2>1 DEF held, HeldHosts, Reserving
  <2>6. HeldHosts(c)' = target
    BY <2>1 DEF HeldHosts, Reserving
  <2>7. \A x \in Clients \cup TaskIds : x # c => HeldHosts(x)' = HeldHosts(x)
    BY <2>1 DEF HeldHosts, Reserving, Holding, WorkersOn
  <2>8. held' = [held EXCEPT ![c] = target] /\ held'[c] = target
    BY <2>6, <2>7 DEF held
  <2>9. UNCHANGED <<phase, asked, visiting, visited>>
    BY <2>1 DEF phase, asked, visiting, visited, OpenSessions, VisitedHosts, WorkersOn
  <2> HIDE DEF target
  <2>10. Contract!Reserve(c, target)
    BY <2>2, <2>4, <2>5, <2>8, <2>9 DEF Contract!Reserve, Contract!Tickets
  <2> QED
    BY <2>2, <2>10 DEF Contract!Next
<1>4. CASE InsertTask(c)
  <2> DEFINE target == client[c].target
  <2>1. PICK t \in TaskIds : tasks[t].status = "absent" /\ tasks' = CreateTask(tasks, t, target)
    BY <1>4 DEF InsertTask
  <2>2. /\ UNCHANGED <<worker, recovered>>
        /\ client[c].pc = "create" /\ client'[c].pc = "launch"
        /\ \A d \in Clients \ {c} : client'[d] = client[d]
    BY <1>1, <1>4 DEF InsertTask, SetClient, procVars, ClientStates
  <2>3. /\ tasks'[t].status = "queued" /\ tasks'[t].hosts = target /\ ~tasks'[t].cancel
        /\ tasks'[t].ok = {} /\ tasks'[t].bad = {}
        /\ \A u \in TaskIds \ {t} : tasks'[u] = tasks[u]
    BY <2>1 DEF CreateTask, NoRow, TypeOK
  <2>4. tasks[t].ok = {} /\ tasks[t].bad = {} /\ ~tasks[t].cancel
    BY <2>1 DEF ResultPlace, Terminal
  <2>5. WorkersOn(t) = {} /\ WorkersOn(t)' = {} /\ t # c /\ t \notin Clients
    BY <2>1, <2>2, TicketsAssumption, MaxTasksAssumption
    DEF WorkersOn, OneWorkerInv, Begun, TaskIds, NoTask
  <2>6. HeldHosts(c) = target /\ HeldHosts(c)' = {} /\ HeldHosts(t)' = target
    BY <2>2, <2>3, <2>5 DEF HeldHosts, Reserving, Holding, Active
  <2>7. \A x \in Clients \cup TaskIds : x \notin {c, t} => HeldHosts(x)' = HeldHosts(x)
    BY <2>2, <2>3 DEF HeldHosts, Reserving, Holding, WorkersOn
  <2>8. held[c] = target /\ held' = [held EXCEPT ![c] = {}, ![t] = held[c]]
    BY <2>5, <2>6, <2>7 DEF held
  <2>9. phase[t] = "absent" /\ phase' = [phase EXCEPT ![t] = "queued"]
    BY <2>1, <2>3 DEF phase
  <2>10. asked' = asked
    BY <2>3, <2>4 DEF asked
  <2>11. \A u \in TaskIds : WorkersOn(u)' = WorkersOn(u)
    BY <2>2 DEF WorkersOn
  <2>12. UNCHANGED <<visiting, visited>>
    <3>1. \A u \in TaskIds : tasks'[u].ok = tasks[u].ok /\ tasks'[u].bad = tasks[u].bad
      BY <2>3, <2>4
    <3>2. visiting' = visiting
      BY <2>2, <2>11 DEF visiting, OpenSessions
    <3>3. visited' = visited
      BY <2>2, <2>11, <3>1 DEF visited, VisitedHosts
    <3> QED
      BY <3>2, <3>3
  <2>13. target # {}
    BY <2>2 DEF TallyInv
  <2> HIDE DEF target
  <2>14. Contract!Accept(c, t)
    BY <2>8, <2>9, <2>10, <2>12, <2>13 DEF Contract!Accept
  <2> QED
    BY <2>14 DEF Contract!Next
<1>5. CASE (TryLock(c) \/ Relock(c)) /\ ~Acquire(c)
  <2>1. UNCHANGED <<tasks, worker, recovered>>
    BY <1>5 DEF TryLock, Relock, procVars
  <2>2. /\ client[c].pc # "create" /\ client'[c].pc # "create"
        /\ \A d \in Clients \ {c} : client'[d] = client[d]
    BY <1>1, <1>5 DEF TryLock, Relock, EndRequest, IdleClient, ClientStates
  <2> QED
    BY <1>2, <2>1, <2>2
<1>6. CASE Launch(c) \/ Undo(c)
  <2>1. UNCHANGED <<tasks, worker, recovered>>
    BY <1>6 DEF Launch, Undo, procVars
  <2>2. /\ client[c].pc # "create" /\ client'[c].pc # "create"
        /\ \A d \in Clients \ {c} : client'[d] = client[d]
    BY <1>1, <1>6 DEF Launch, Undo, EndRequest, IdleClient, ClientStates
  <2> QED
    BY <1>2, <2>1, <2>2
<1>7. CASE \/ \E mode \in {"single", "batch"}, requested \in SUBSET Hosts :
                  Submit(c, mode, requested)
           \/ \E t \in TaskIds : Retry(c, t)
  <2>1. UNCHANGED <<tasks, worker, recovered>>
    BY <1>7 DEF Submit, Retry, procVars
  <2>2. /\ client[c].pc # "create" /\ client'[c].pc # "create"
        /\ \A d \in Clients \ {c} : client'[d] = client[d]
    BY <1>1, <1>7 DEF Submit, Retry, ClientStates
  <2> QED
    BY <1>2, <2>1, <2>2
<1> QED
  BY <1>3, <1>4, <1>5, <1>6, <1>7 DEF RequestStep
-----------------------------------------------------------------------------
(* The steps of the processes, and of cancellation.                         *)

\* A task nobody works on has no session open, and its row tells what it reached.
LEMMA UnattendedView ==
    /\ \A t \in TaskIds : WorkersOn(t) = {} =>
          OpenSessions(t) = {} /\ VisitedHosts(t) = tasks[t].ok \cup tasks[t].bad
    /\ \A t \in TaskIds : WorkersOn(t)' = {} =>
          OpenSessions(t)' = {} /\ VisitedHosts(t)' = tasks'[t].ok \cup tasks'[t].bad
BY DEF OpenSessions, VisitedHosts

\* A cancel of an active task asks the contract, any other stutters.
LEMMA CancelSteps ==
    ASSUME RefinementInv, NEW t \in TaskIds, Cancel(t)
    PROVE  Contract!Next
<1>1. /\ tasks \in [TaskIds -> Rows]
      /\ tasks' = RequestCancel(tasks, t)
      /\ UNCHANGED <<client, worker, recovered>>
  BY DEF RefinementInv, TypeOK, Cancel, procVars
<1>2. /\ tasks'[t].cancel <=> (tasks[t].cancel \/ tasks[t].status \in Active)
      /\ \A u \in TaskIds :
            /\ tasks'[u].status = tasks[u].status /\ tasks'[u].hosts = tasks[u].hosts
            /\ tasks'[u].ok = tasks[u].ok /\ tasks'[u].bad = tasks[u].bad
            /\ u # t => tasks'[u] = tasks[u]
  BY <1>1 DEF RequestCancel, Rows
<1>3. UNCHANGED <<phase, visiting, visited>>
  BY <1>1, <1>2 DEF phase, visiting, visited, OpenSessions, VisitedHosts, WorkersOn
<1>4. held' = held
  <2>1. \A x \in Clients \cup TaskIds : HeldHosts(x)' = HeldHosts(x)
    BY <1>1, <1>2 DEF HeldHosts, Reserving, Holding, WorkersOn
  <2> QED
    BY <2>1 DEF held
<1>5. CASE tasks[t].status \in Active
  <2>1. asked' = asked \cup {t}
    BY <1>2, <1>5 DEF asked
  <2>2. Contract!Ask(t)
    BY <1>3, <1>4, <1>5, <2>1 DEF Contract!Ask, Contract!Alive, phase, Active
  <2> QED
    BY <2>2 DEF Contract!Next
<1>6. CASE tasks[t].status \notin Active
  <2>1. asked' = asked
    BY <1>2, <1>6 DEF asked
  <2> QED
    BY <1>3, <1>4, <2>1 DEF Contract!Next, Contract!Idle, Contract!vars
<1> QED
  BY <1>5, <1>6

\* The life of the process: recovery aborts every running task, gives back the
\* hosts of each, and a crash interrupts; booting and starting workers is not seen.
LEMMA ProcessSteps ==
    ASSUME SafeRegime, RefinementInv, NEW p \in Procs, StartStep(p) \/ Crash(p)
    PROVE  Contract!Next
<1> USE DEF RefinementInv
<1>1. /\ p = Api /\ Procs = {Api} /\ tasks \in [TaskIds -> Rows]
      /\ \A w \in Workers : ProcOf(w) = Api
  BY OneProcess DEF TypeOK
<1>2. CASE Boot(p)
  BY <1>2, SameView DEF Boot, Contract!Next
<1>3. ASSUME proc[Api] # "up"
      PROVE  /\ \A w \in Workers : worker[w].task = NoTask /\ worker[w].pc = "dead"
             /\ \A t \in TaskIds : WorkersOn(t) = {}
  <2>1. \A w \in Workers : worker[w].task = NoTask /\ worker[w].pc = "dead"
    BY <1>3 DEF SafeInv, QuietWhenDown, ApiUp, TypeOK
  <2> QED
    BY <2>1, MaxTasksAssumption DEF WorkersOn, TaskIds, NoTask
<1>4. CASE StartWorkers(p)
  <2>1. \A t \in TaskIds : WorkersOn(t) = {}
    BY <1>1, <1>3, <1>4 DEF StartWorkers
  <2>2. \A t \in TaskIds : WorkersOn(t)' = {}
    BY <1>1, <1>4, WorkerType, MaxTasksAssumption DEF StartWorkers, WorkersOn, TaskIds, NoTask
  <2>3. UNCHANGED <<tasks, client, recovered>>
    BY <1>4 DEF StartWorkers
  <2>4. \A x \in Clients \cup TaskIds : HeldHosts(x)' = HeldHosts(x)
    BY <2>1, <2>2, <2>3 DEF HeldHosts, Reserving, Holding
  <2>5. UNCHANGED <<held, phase, asked, visiting, visited>>
    BY <2>1, <2>2, <2>3, <2>4, UnattendedView DEF held, phase, asked, visiting, visited
  <2> QED
    BY <2>5 DEF Contract!Next, Contract!Idle, Contract!vars
<1>5. CASE Recover(p)
  <2>1. /\ recovered' = [recovered EXCEPT ![Api] = TasksWith(tasks, {"running"})]
        /\ recovered[Api] = {}
        /\ UNCHANGED <<client, worker>>
    BY <1>1, <1>5 DEF Recover, SafeInv, QuietWhenDown
  <2>2. \A t \in TaskIds : WorkersOn(t) = {} /\ WorkersOn(t)' = {}
    BY <1>1, <1>3, <1>5, <2>1 DEF Recover, WorkersOn
  <2>3. \A t \in TaskIds :
           /\ tasks'[t].status = IF tasks[t].status = "running" THEN "failed" ELSE tasks[t].status
           /\ tasks'[t].ok = tasks[t].ok /\ tasks'[t].bad = tasks[t].bad
           /\ tasks'[t].hosts = tasks[t].hosts /\ tasks'[t].cancel = tasks[t].cancel
    BY <1>1, <1>5 DEF Recover, RecoverRunning, Rows
  <2>4. \A t \in TaskIds : Holding(t)' <=> Holding(t)
    <3>1. \A t \in TaskIds : t \in recovered'[Api] <=> tasks[t].status = "running"
      BY <1>1, <2>1 DEF TypeOK, TasksWith
    <3> QED
      BY <1>1, <2>1, <2>2, <2>3, <3>1 DEF Holding, Active
  <2>5. \A x \in Clients \cup TaskIds : HeldHosts(x)' = HeldHosts(x)
    BY <2>1, <2>3, <2>4 DEF HeldHosts, Reserving
  <2>6. UNCHANGED <<held, asked, visiting, visited>>
    <3>1. held' = held
      BY <2>5 DEF held
    <3>2. asked' = asked
      BY <2>3 DEF asked
    <3>3. visiting' = visiting /\ visited' = visited
      BY <2>2, <2>3, UnattendedView DEF visiting, visited
    <3> QED
      BY <3>1, <3>2, <3>3
  <2>7. \A t \in TaskIds : visiting[t] = {}
    BY <2>2, UnattendedView DEF visiting
  <2>8. phase' = [t \in TaskIds |-> IF phase[t] = "running" THEN "failed" ELSE phase[t]]
    BY <2>3 DEF phase
  <2> QED
    BY <2>6, <2>7, <2>8 DEF Contract!Next, Contract!AbortAll
<1>6. ASSUME NEW t \in TaskIds, ReleaseRecovered(p, t) PROVE Contract!Next
  <2>1. /\ recovered' = [recovered EXCEPT ![Api] = @ \ {t}] /\ t \in recovered[Api]
        /\ UNCHANGED <<client, worker, tasks>>
    BY <1>1, <1>6 DEF ReleaseRecovered
  <2>2. proc[Api] = "releasing" /\ tasks[t].status = "failed"
    BY <1>1, <2>1 DEF SafeInv, QuietWhenDown
  <2>3. \A u \in TaskIds : WorkersOn(u) = {} /\ WorkersOn(u)' = {}
    BY <1>3, <2>1, <2>2 DEF WorkersOn
  <2>4. \A u \in TaskIds : u \in recovered'[Api] <=> u \in recovered[Api] /\ u # t
    BY <1>1, <2>1 DEF TypeOK
  <2>5. HeldHosts(t)' = {}
    BY <1>1, <2>1, <2>2, <2>3, <2>4, TicketsAssumption DEF HeldHosts, Holding, Active
  <2>6. \A x \in Clients \cup TaskIds : x # t => HeldHosts(x)' = HeldHosts(x)
    BY <1>1, <2>1, <2>3, <2>4 DEF HeldHosts, Reserving, Holding
  <2>7. held' = [held EXCEPT ![t] = {}]
    BY <2>5, <2>6 DEF held
  <2>8. UNCHANGED <<phase, asked, visiting, visited>>
    BY <2>1 DEF phase, asked, visiting, visited, OpenSessions, VisitedHosts, WorkersOn
  <2>9. Contract!GiveBack(t)
    BY <2>2, <2>7, <2>8 DEF Contract!GiveBack, Contract!Outcomes, phase
  <2> QED
    BY <2>9 DEF Contract!Next
<1>7. CASE Crash(p)
  <2>1. /\ tasks' = tasks
        /\ \A c \in Clients : client'[c].pc = "idle"
        /\ recovered'[Api] = {}
        /\ \A t \in TaskIds : WorkersOn(t)' = {}
    <3>1. \A w \in Workers : worker'[w] = DeadWorker
      BY <1>1, <1>7 DEF Crash, LoseProcess
    <3>2. \A t \in TaskIds : WorkersOn(t)' = {}
      BY <3>1, WorkerType, MaxTasksAssumption DEF WorkersOn, TaskIds, NoTask
    <3> QED
      BY <1>1, <1>7, <3>2 DEF Crash, LoseProcess, IdleClient, TypeOK
  <2>2. visiting' = [t \in TaskIds |-> {}]
    BY <2>1, UnattendedView DEF visiting
\* The result of a task that ended is in its row, that of any other is lost.
  <2>3. ASSUME NEW t \in TaskIds
        PROVE  VisitedHosts(t)' = IF tasks[t].status \in Active THEN {} ELSE VisitedHosts(t)
    <3>1. VisitedHosts(t)' = tasks[t].ok \cup tasks[t].bad
      BY <2>1, UnattendedView
    <3>2. CASE tasks[t].status \in Active
      BY <3>1, <3>2 DEF ResultPlace, Active, Terminal
    <3>3. CASE tasks[t].status \notin Active
      <4>1. CASE WorkersOn(t) = {}
        BY <3>1, <3>3, <4>1, UnattendedView
      <4>2. ASSUME NEW w \in Workers, worker[w].task = t
            PROVE  VisitedHosts(t) = tasks[t].ok \cup tasks[t].bad
        <5>1. t # NoTask /\ worker[w].pc \notin {"dead", "poll"}
          BY <4>2, MaxTasksAssumption DEF TypeOK, TaskIds, NoTask
        <5>2. worker[w].pc = "release"
          BY <3>3, <4>2, <5>1 DEF SafeInv, WorkerRows, Row, Active
        <5>3. VisitedHosts(t) = Reached(w)
          BY <4>2, <5>1, OwnTask DEF OwnView
        <5> QED
          BY <4>2, <5>2, <5>3 DEF ResultPlace, Reached, Row
      <4> QED
        BY <3>1, <3>3, <4>1, <4>2 DEF WorkersOn
    <3> QED
      BY <3>2, <3>3
  <2>4. visited' = [t \in TaskIds |-> IF phase[t] \in Active THEN {} ELSE visited[t]]
    BY <2>3 DEF visited, phase
  <2> DEFINE lost == {t \in TaskIds : phase[t] \in Terminal}
  <2>5. ASSUME NEW x \in Clients \cup TaskIds
        PROVE  HeldHosts(x)' = IF x \in Clients \cup lost THEN {} ELSE HeldHosts(x)
    <3>1. CASE x \in Clients
      BY <2>1, <3>1 DEF HeldHosts, Reserving
    <3>2. CASE x \in TaskIds /\ x \notin Clients
      <4>1. Holding(x)' <=> tasks[x].status \in Active
        BY <1>1, <2>1, <3>2 DEF Holding
      <4>2. tasks[x].status \notin Active \cup Terminal => ~Holding(x)
        <5> SUFFICES ASSUME tasks[x].status \notin Active \cup Terminal PROVE ~Holding(x)
          OBVIOUS
        <5>1. tasks[x].status = "absent"
          BY <1>1, <3>2 DEF Rows, Statuses
        <5>2. \A w \in Workers : worker[w].task # x
          BY <3>2, <5>1, MaxTasksAssumption DEF OneWorkerInv, Begun, TaskIds, NoTask
        <5>3. \A q \in Procs : x \notin recovered[q]
          BY <5>1 DEF SafeInv, QuietWhenDown
        <5> QED
          BY <5>2, <5>3 DEF Holding, WorkersOn
      <4>3. x \in lost <=> tasks[x].status \in Terminal
        BY <3>2 DEF phase
      <4>4. Active \cap Terminal = {}
        BY DEF Active, Terminal
      <4> HIDE DEF lost
      <4> QED
        BY <2>1, <3>2, <4>1, <4>2, <4>3, <4>4 DEF HeldHosts, Holding
    <3> QED
      BY <3>1, <3>2
  <2>6. held' = [x \in Clients \cup TaskIds |-> IF x \in Clients \cup lost THEN {} ELSE held[x]]
    <3> HIDE DEF lost
    <3> QED
      BY <2>5 DEF held
  <2>7. UNCHANGED <<phase, asked>>
    BY <2>1 DEF phase, asked
  <2>8. lost \in SUBSET {t \in TaskIds : phase[t] \in Contract!Outcomes}
    BY DEF Contract!Outcomes, Terminal
  <2> HIDE DEF lost
  <2>9. Contract!Interrupt
    BY <2>2, <2>4, <2>6, <2>7, <2>8
    DEF Contract!Interrupt, Contract!Tickets, Contract!Alive, Active
  <2> QED
    BY <2>9 DEF Contract!Next
<1> QED
  BY <1>2, <1>4, <1>5, <1>6, <1>7 DEF StartStep
-----------------------------------------------------------------------------
\* The pipeline implements the contract, in every instance of that deployment:
\* whatever requests, retries, cancels, crashes and restarts do, a user sees
\* exclusive hosts, one run and one end.
THEOREM RefinementCorrect == ASSUME SafeRegime PROVE Spec => ImplementsContract
<1>1. Init => Contract!Init
  <2> SUFFICES ASSUME Init PROVE Contract!Init
    OBVIOUS
  <2>1. /\ \A t \in TaskIds : WorkersOn(t) = {}
        /\ \A t \in TaskIds : tasks[t] = NoRow
        /\ \A c \in Clients : client[c].pc = "idle"
        /\ \A p \in Procs : recovered[p] = {}
    BY WorkerType, MaxTasksAssumption DEF Init, WorkersOn, TaskIds, NoTask, IdleClient
  <2>2. \A x \in Clients \cup TaskIds : HeldHosts(x) = {}
    BY <2>1 DEF HeldHosts, Reserving, Holding, NoRow, Active
  <2>3. \A t \in TaskIds : OpenSessions(t) = {} /\ VisitedHosts(t) = {}
    BY <2>1, UnattendedView DEF NoRow
  <2> QED
    BY <2>1, <2>2, <2>3
    DEF Contract!Init, Contract!Tickets, held, phase, asked, visiting, visited, NoRow
<1>2. ASSUME RefinementInv, [Next]_vars PROVE Contract!Next
  <2>1. CASE UNCHANGED <<client, tasks, worker, recovered>>
    BY <2>1, SameView DEF Contract!Next
  <2>2. ASSUME NEW c \in Clients,
               \/ RequestStep(c)
               \/ \E mode \in {"single", "batch"}, requested \in SUBSET Hosts :
                      Submit(c, mode, requested)
               \/ \E t \in TaskIds : Retry(c, t)
        PROVE  Contract!Next
    BY <1>2, <2>2, RequestSteps
  <2>3. ASSUME NEW t \in TaskIds, Cancel(t) PROVE Contract!Next
    BY <1>2, <2>3, CancelSteps
  <2>4. ASSUME NEW w \in Workers, WorkerStep(w) PROVE Contract!Next
    BY <1>2, <2>4, WorkerSteps
  <2>5. ASSUME NEW p \in Procs, StartStep(p) \/ Crash(p) PROVE Contract!Next
    BY <1>2, <2>5, ProcessSteps
  <2>6. \/ UNCHANGED <<client, tasks, worker, recovered>>
        \/ \E c \in Clients :
              \/ RequestStep(c)
              \/ \E mode \in {"single", "batch"}, requested \in SUBSET Hosts :
                     Submit(c, mode, requested)
              \/ \E t \in TaskIds : Retry(c, t)
        \/ \E t \in TaskIds : Cancel(t)
        \/ \E w \in Workers : WorkerStep(w)
        \/ \E p \in Procs : StartStep(p) \/ Crash(p)
    BY <1>2 DEF SafeRegime, vars, procVars, Next, RequestFault, FaultStep, EscapingFault,
        CaughtFault, ReleaseAndDie, AdminCleanup, AdminDelete, AdminList, EditInventory, Tick
  <2> QED
    BY <2>1, <2>2, <2>3, <2>4, <2>5, <2>6
<1>3. RefinementInv /\ [Next]_vars => [Contract!Next]_(Contract!vars)
  BY <1>2
<1> QED
  BY <1>1, <1>3, RefinementInvariant, PTL DEF Spec, ImplementsContract, Contract!Spec

-----------------------------------------------------------------------------
(* The contract keeps hosts exclusive, and so does whatever implements it.  *)

ContractShape ==
    /\ held \in [Contract!Tickets -> SUBSET Hosts]
    /\ phase \in [TaskIds -> {"absent"} \cup Contract!Alive \cup Contract!Outcomes]
    /\ visiting \in [TaskIds -> SUBSET Hosts]

ExclusiveInv == ContractShape /\ Contract!Exclusive

\* Initially nobody holds a host, visits one or is alive.
LEMMA ExclusiveInit == Contract!Init => ExclusiveInv
  BY DEF Contract!Init, ExclusiveInv, ContractShape, Contract!Exclusive, Contract!Tickets,
      Contract!Alive, Contract!Outcomes

\* One step per action: hosts change hands only in Reserve, from nobody, and in
\* Accept, from the request that had them.
LEMMA ExclusiveStep ==
  ASSUME ExclusiveInv, [Contract!Next]_(Contract!vars)
  PROVE  ExclusiveInv'
<1> USE DEF ExclusiveInv, ContractShape, Contract!Exclusive, Contract!Tickets, Contract!Alive,
        Contract!Outcomes
<1>1. CASE UNCHANGED Contract!vars
  BY <1>1 DEF Contract!vars
<1>2. ASSUME NEW r \in Clients, NEW hosts \in SUBSET Hosts, Contract!Reserve(r, hosts)
      PROVE ExclusiveInv'
  <2>1. ContractShape' BY <1>2 DEF Contract!Reserve
  <2>2. Contract!Exclusive' BY <1>2 DEF Contract!Reserve
  <2> QED BY <2>1, <2>2
<1>3. ASSUME NEW r \in Clients, NEW t \in TaskIds, Contract!Accept(r, t)
      PROVE ExclusiveInv'
  <2>1. ContractShape' BY <1>3, TicketsAssumption DEF Contract!Accept
  <2>2. Contract!Exclusive' BY <1>3, TicketsAssumption DEF Contract!Accept
  <2> QED BY <2>1, <2>2
<1>4. ASSUME NEW t \in TaskIds, Contract!Ask(t) PROVE ExclusiveInv'
  BY <1>4 DEF Contract!Ask
<1>5. ASSUME NEW t \in TaskIds, Contract!Begin(t) PROVE ExclusiveInv'
  BY <1>5 DEF Contract!Begin
<1>6. ASSUME NEW t \in TaskIds, Contract!GiveBack(t) PROVE ExclusiveInv'
  BY <1>6 DEF Contract!GiveBack
<1>7. ASSUME NEW t \in TaskIds, NEW h \in Hosts, Contract!Visit(t, h) PROVE ExclusiveInv'
  BY <1>7 DEF Contract!Visit
<1>8. ASSUME NEW t \in TaskIds, NEW done \in BOOLEAN, Contract!Leave(t, done) PROVE ExclusiveInv'
  BY <1>8 DEF Contract!Leave
<1>9. ASSUME NEW t \in TaskIds, NEW outcome \in Contract!Outcomes, Contract!End(t, outcome)
      PROVE ExclusiveInv'
  BY <1>9 DEF Contract!End
<1>10. CASE Contract!Interrupt
  <2>1. PICK lost \in SUBSET {t \in TaskIds : phase[t] \in Contract!Outcomes} :
            held' = [x \in Contract!Tickets |-> IF x \in Clients \cup lost THEN {} ELSE held[x]]
    BY <1>10 DEF Contract!Interrupt
  <2>2. ContractShape' BY <1>10, <2>1 DEF Contract!Interrupt
  <2>3. Contract!Exclusive' BY <1>10, <2>1 DEF Contract!Interrupt
  <2> QED BY <2>2, <2>3
<1>11. CASE Contract!AbortAll
  <2>1. ContractShape' BY <1>11 DEF Contract!AbortAll
  <2>2. Contract!Exclusive' BY <1>11 DEF Contract!AbortAll
  <2> QED BY <2>1, <2>2
<1>12. CASE Contract!Next
  BY <1>1, <1>2, <1>3, <1>4, <1>5, <1>6, <1>7, <1>8, <1>9, <1>10, <1>11, <1>12
      DEF Contract!Next, Contract!Idle
<1> QED
  BY <1>1, <1>12

\* No host is held by two tickets, and no session is open to a host of a task
\* that does not run (try_lock_hosts, run_capture_task).
THEOREM ContractExclusive == Contract!Spec => []Contract!Exclusive
<1>1. ExclusiveInv => Contract!Exclusive
  BY DEF ExclusiveInv
<1>2. ExclusiveInv /\ [Contract!Next]_(Contract!vars) => ExclusiveInv'
  BY ExclusiveStep
<1> QED
  BY <1>1, <1>2, ExclusiveInit, PTL DEF Contract!Spec
\* So what is proved of the contract holds of the pipeline: no two of the requests
\* and tasks hold one host, and a session is open only to a host of a running task.
COROLLARY PromiseKept == ASSUME SafeRegime PROVE Spec => []Contract!Exclusive
  BY RefinementCorrect, ContractExclusive, PTL DEF ImplementsContract
=============================================================================
