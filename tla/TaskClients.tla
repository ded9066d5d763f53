----------------------------- MODULE TaskClients -----------------------------
(***************************************************************************)
(* The two clients that follow a task: the log stream and the capture panel *)
(* of the page.  They share no state, so a behaviour has one of them and    *)
(* the other one does nothing.                                              *)
(***************************************************************************)
EXTENDS TaskStream, CapturePolling

VARIABLE follows   \* which of the two this behaviour is about

allVars == <<streamVars, pageVars, follows>>

Streaming == follows = "stream" /\ UNCHANGED <<pageVars, follows>>
Polling   == follows = "panel" /\ UNCHANGED <<streamVars, follows>>

Init ==
    /\ StreamInit /\ PageInit
    /\ follows \in {"stream", "panel"}
    /\ follows = "panel" => client = "console"

Next ==
    \/ Streaming /\ StreamNext
    \/ Polling /\ PageNext

Spec == Init /\ [][Next]_allVars

\* The worker goes on, the server drives the generator, a process is restarted and
\* the browser notices that a connection is lost.  Nobody has to connect again:
\* the page does not, and a subscriber owes nothing.
StreamFairness ==
    /\ WF_allVars(Streaming /\ WorkerGoesOn)
    /\ WF_allVars(Streaming /\ Generator)
    /\ WF_allVars(Streaming /\ \E p \in Procs : Restart(p))
    /\ WF_allVars(Streaming /\ ConsoleError)

\* Tasks end (CaptureSystem, EveryTaskEnds), timers fire, polls are answered and
\* their answers, or failures, arrive.
PanelFairness ==
    /\ WF_allVars(Polling /\ Work)
    /\ WF_allVars(Polling /\ PollAgain)
    /\ WF_allVars(Polling /\ Answer)
    /\ WF_allVars(Polling /\ (Receive \/ Fail))

FairSpec == Spec /\ StreamFairness /\ PanelFairness
-----------------------------------------------------------------------------
(* Liveness properties; the invariants are in the two modules.              *)

\* An exception outside the try block, or a second one in the except clause, has
\* ended the thread and left the row running.
Stranded == worker.pc = "gone" /\ status = "running"

\* Unless the task is stranded for good, a live console that is connected shows in
\* the end how the task ended, or that the stream failed or was stopped: it does
\* not wait for ever, whatever crashes, is restarted or writes over the row
\* (task_stream, startLiveConsole).
ClientIsTold ==
    \/ <>[]Stranded
    \/ (follows = "stream" /\ client = "console" /\ stream # Closed) ~> told # "none"

\* Polling comes to an end, whichever way the task ends and in whatever order the
\* answers arrive (pollCaptureStatus).
PollingEnds == <>[](intervals = {})
=============================================================================
