---------------------------- MODULE CapturePolling ----------------------------
(***************************************************************************)
(* The capture panel of the browser page: static/index.js posts a capture,  *)
(* then polls the task every 1.2 s with setInterval, which does not wait    *)
(* for the answer of the poll before.  Polls are answered, and their        *)
(* answers arrive, in any order.                                            *)
(***************************************************************************)
EXTENDS Integers, SequencesExt

CONSTANTS
    MaxTasks,    \* bound on the captures the user starts; a task is its number
    MaxFlight    \* bound on the polls in flight

ASSUME PollingAssumption == {MaxTasks, MaxFlight} \subseteq Nat

TaskIds == 1 .. MaxTasks
NoTask  == 0

VARIABLES
    server,      \* status of each task row
    posts,       \* captures whose POST is not answered yet
    polls,       \* the polls in flight, oldest first, with the status they read
    intervals,   \* tasks for which a setInterval timer is alive
    timer,       \* captureStatusTimer: the one that can be cleared
    panel,       \* the task and the status on show
    current,     \* history: the task whose polling began last
    disturbed    \* history: since then a poll failed, was overtaken or was for
                 \* an older task

pageVars == <<server, posts, polls, intervals, timer, panel, current, disturbed>>

Ended == {"completed", "failed", "cancelled"}   \* in capture_tasks

PageInit ==
    /\ server = [t \in TaskIds |-> "absent"]
    /\ posts = {} /\ polls = <<>>
    /\ intervals = {} /\ timer = NoTask
    /\ panel = [task |-> NoTask, status |-> "ready"]
    /\ current = NoTask /\ disturbed = FALSE

Show(task, status) == panel' = [task |-> task, status |-> status]
SendPoll(t) == polls' = Append(polls, [task |-> t, read |-> "nothing"])

\* captureSingle, captureAll up to the POST; another one may be under way.
Click ==
    /\ \E t \in TaskIds :
          /\ server[t] = "absent" /\ t \notin posts
          /\ \A u \in TaskIds : u < t => server[u] # "absent" \/ u \in posts
          /\ posts' = posts \cup {t}
    /\ Show(NoTask, "starting")
    /\ UNCHANGED <<server, polls, intervals, timer, current, disturbed>>

\* The request is refused or lost; a polling that was going on is left alone.
Refused ==
    /\ \E t \in posts :
          /\ posts' = posts \ {t}
          /\ server' = [server EXCEPT ![t] = "refused"]
    /\ Show(NoTask, "not started")
    /\ UNCHANGED <<polls, intervals, timer, current, disturbed>>

\* Mutant of ClearTimer: a timer that is replaced is forgotten, not cleared.
ClearTimerForgets == intervals

\* stopCaptureStatusPolling clears the timer it knows of.
ClearTimer == intervals \ {timer}

\* startCaptureStatusPolling: the timer of an earlier task is cleared, the first
\* poll is sent at once.
Accepted ==
    /\ Len(polls) < MaxFlight
    /\ \E t \in posts :
          /\ posts' = posts \ {t}
          /\ server' = [server EXCEPT ![t] = "queued"]
          /\ intervals' = ClearTimer \cup {t}
          /\ timer' = t /\ current' = t
          /\ Show(t, "queued")
          /\ SendPoll(t)
    /\ disturbed' = FALSE

\* A timer fires.
PollAgain ==
    /\ Len(polls) < MaxFlight
    /\ \E t \in intervals : SendPoll(t)
    /\ UNCHANGED <<server, posts, intervals, timer, panel, current, disturbed>>

\* GET /tasks/{id} reads the row.
Answer ==
    /\ \E i \in DOMAIN polls :
          /\ polls[i].read = "nothing"
          /\ polls' = [polls EXCEPT ![i].read = server[polls[i].task]]
          /\ disturbed' = (disturbed \/ \E j \in 1 .. i - 1 : polls[j].read = "nothing")
    /\ UNCHANGED <<server, posts, intervals, timer, panel, current>>

\* Mutant of TerminalShown: a task that has left the queue counts as ended.
TerminalShownEarly == {"running", "completed", "failed", "cancelled"}

\* Mutant of TerminalShown: a cancelled task does not count.
TerminalShownForgetsCancelled == {"completed", "failed"}

\* isTerminalTaskStatus
TerminalShown == {"completed", "failed", "cancelled"}

StopPolling == intervals' = ClearTimer /\ timer' = NoTask

\* pollCaptureStatus after its await: whatever the timer is for now, a terminal
\* status stops it.
Receive ==
    /\ \E i \in DOMAIN polls :
          /\ polls[i].read # "nothing"
          /\ Show(polls[i].task, polls[i].read)
          /\ polls' = RemoveAt(polls, i)
          /\ IF polls[i].read \in TerminalShown
             THEN StopPolling ELSE UNCHANGED <<intervals, timer>>
          /\ disturbed' = (disturbed \/ i # 1 \/ polls[i].task # current)
    /\ UNCHANGED <<server, posts, current>>

\* The request of a poll fails: an error is shown, and polling stops for good.
Fail ==
    /\ \E i \in DOMAIN polls :
          /\ Show(polls[i].task, "error")
          /\ polls' = RemoveAt(polls, i)
    /\ disturbed' = TRUE
    /\ StopPolling
    /\ UNCHANGED <<server, posts, current>>

\* The task proceeds.
Work ==
    /\ \E t \in TaskIds :
          \/ server[t] = "queued" /\ server' = [server EXCEPT ![t] = "running"]
          \/ /\ server[t] = "running"
             /\ \E status \in Ended : server' = [server EXCEPT ![t] = status]
    /\ UNCHANGED <<posts, polls, intervals, timer, panel, current, disturbed>>

Network == Answer \/ Receive \/ Fail

PageNext == Click \/ Refused \/ Accepted \/ PollAgain \/ Network \/ Work

PageSpec == PageInit /\ [][PageNext]_pageVars
-----------------------------------------------------------------------------
(* Properties                                                               *)

\* No timer is out of reach of stopCaptureStatusPolling, however the answers of
\* several captures interleave: a page never polls two tasks for ever
\* (startCaptureStatusPolling).
OneTimer == intervals \subseteq {timer}

\* When nothing is under way any more, the panel shows the end of the capture
\* that was started last, provided that since it was started no poll failed, none
\* was overtaken by a later one and no answer for an earlier task arrived; any of
\* the three may leave another task, or another status, on show (pollCaptureStatus).
PanelIsRight ==
    posts = {} /\ polls = <<>> /\ intervals = {} /\ ~disturbed =>
        \/ panel.status \in {"ready", "not started"}
        \/ panel = [task |-> current, status |-> server[current]] /\ panel.status \in Ended
=============================================================================
