------------------------------ MODULE TaskStream ------------------------------
(***************************************************************************)
(* The log file of one task, the worker that appends to it and writes the   *)
(* row, the generator behind GET /tasks/{id}/stream that follows the file,  *)
(* and a client: the live console of the page, which gives up when the      *)
(* connection is lost, or a subscriber that resumes with Last-Event-ID.     *)
(* A line is its position in the file.  What the generator yields is        *)
(* received at once: a connection may be lost after every event, and then   *)
(* the generator and whatever it had read ahead are gone.                   *)
(***************************************************************************)
EXTENDS Integers, Sequences

CONSTANTS
    MaxLines,    \* bound on the file while lines of the capture loop are added
    Tails,       \* values of tail_lines a client asks for, clamped by the handler
    MaxOpens,    \* bound on the connections a client makes
    MaxCrashes   \* bound on process crashes

ASSUME StreamAssumption ==
    /\ {MaxLines, MaxOpens, MaxCrashes} \subseteq Nat
    /\ Tails \subseteq 0 .. 500

VARIABLES
    logged,    \* number of lines in the file
    status,    \* the status of the task row
    launching, \* launch_capture_task has its line still to write
    worker,    \* where the task's worker is, and in which process
    up,        \* the processes that are running
    excuses,   \* history: what makes an end that was written provisional
    client,    \* who follows the task
    stream,    \* the generator of the open connection
    received,  \* history: the events since the first line, each an id and a line
    tail,      \* tail_lines of the client's URL
    told,      \* how the following ended for the client, "none" before
    settled,   \* history: the log was complete when the connection was opened
    budget     \* connections and crashes that may still happen

streamVars == <<logged, status, launching, worker, up, excuses, client, stream,
                received, tail, told, settled, budget>>

fileVars   == <<logged, status, launching, worker, up, excuses>>
clientVars == <<client, received, tail, told, settled>>

Procs    == {"api", "worker"}   \* both run worker threads, the API streams
Terminal == {"completed", "failed", "cancelled"}
NoId     == -1

WorkerPcs == {"none", "claimed", "missing", "started", "run", "ended", "handler",
              "fail", "finally", "gone"}
Live == WorkerPcs \ {"none", "gone"}

Streams == [pc: {"closed", "open", "backlog", "follow", "check"},
            pos: Nat, upto: Nat, next: Nat]
Closed  == [pc |-> "closed", pos |-> 0, upto |-> 0, next |-> 0]

StreamInit ==
    /\ logged = 0 /\ status = "queued" /\ launching = TRUE
    /\ worker = [pc |-> "none", proc |-> "api"]
    /\ up = Procs /\ excuses = {}
    /\ client \in {"console", "subscriber"}
    /\ stream = Closed
    /\ received = <<>>
    /\ tail \in Tails
    /\ told = "none"
    /\ settled = FALSE
    /\ budget = [opens |-> MaxOpens, crashes |-> MaxCrashes]

\* The id a subscriber sends back, NoId before the first line.
LastId == IF received = <<>> THEN NoId ELSE received[Len(received)].id
-----------------------------------------------------------------------------
(* The request and the worker, one write to the file or to the row at a time. *)

\* The row is committed before the line of launch_capture_task is written; that
\* write may fail.
Launch ==
    /\ launching /\ "api" \in up
    /\ launching' = FALSE
    /\ logged' \in {logged, logged + 1}
    /\ UNCHANGED <<status, worker, up, excuses, stream, clientVars, budget>>

Claim(p) ==
    /\ p \in up /\ status = "queued"
    /\ status' = "running"
    /\ worker' = [pc |-> "claimed", proc |-> p]
    /\ UNCHANGED <<logged, launching, up, excuses, stream, clientVars, budget>>

Goes(from, to) == worker.pc = from /\ worker' = [worker EXCEPT !.pc = to]

\* append_task_log
WriteLine(from, to) ==
    /\ Goes(from, to)
    /\ logged' = logged + 1
    /\ UNCHANGED <<status, launching, up, excuses, stream, clientVars, budget>>

\* update_task, whatever the row says
WriteStatus(from, to, new) ==
    /\ Goes(from, to)
    /\ status' = new
    /\ UNCHANGED <<logged, launching, up, excuses, stream, clientVars, budget>>

\* Hosts that are no longer configured: one line, and no line after the update.
LogMissing  == WriteLine("claimed", "missing")
MarkMissing == WriteStatus("missing", "gone", "failed")

LogStarted  == WriteLine("claimed", "started")
MarkRunning == WriteStatus("started", "run", "running")

\* The lines of the host loop, the one that announces a cancellation included.
LogCapture == logged < MaxLines /\ WriteLine("run", "run")

\* Mutant of MarkCancelled: the return is missing, and the loop goes on.
MarkCancelledGoesOn == WriteStatus("run", "run", "cancelled")

\* A cancel request was seen; the return runs the finally clause.
MarkCancelled == WriteStatus("run", "finally", "cancelled")

Finish == \E new \in {"completed", "failed"} : WriteStatus("run", "ended", new)
LogEnd == WriteLine("ended", "finally")

\* The except clause, and the line after the release of the locks.
LogFailure  == WriteLine("handler", "fail")
MarkFailed  == WriteStatus("fail", "finally", "failed")
LogReleased == WriteLine("finally", "gone")

\* Where an exception leads from each place: outside the try block it ends the
\* worker thread.
RaisedTo ==
    [claimed |-> "gone", missing |-> "gone", started |-> "gone", run |-> "handler",
     ended |-> "handler", handler |-> "finally", fail |-> "finally", finally |-> "gone"]

\* A write raises; from "ended" on, the row already says how the task ended.
Raise ==
    /\ worker.pc \in Live
    /\ worker' = [worker EXCEPT !.pc = RaisedTo[worker.pc]]
    /\ excuses' = IF worker.pc = "ended" THEN excuses \cup {"raised"} ELSE excuses
    /\ UNCHANGED <<logged, status, launching, up, stream, clientVars, budget>>
-----------------------------------------------------------------------------
(* The clients.                                                             *)

Opened == [Closed EXCEPT !.pc = "open"]

\* What the handler finds: the log is complete if nobody will write to it.
OpenStream ==
    /\ budget.opens > 0
    /\ budget' = [budget EXCEPT !.opens = @ - 1]
    /\ settled' = (status \in Terminal /\ worker.pc \notin Live /\ ~launching)

\* A subscriber connects, or resumes with the id of its last event.
Connect ==
    /\ client = "subscriber"
    /\ "api" \in up /\ stream = Closed
    /\ OpenStream
    /\ stream' = Opened
    /\ told' = "none"
    /\ UNCHANGED <<fileVars, client, received, tail>>

\* startLiveConsole: a new EventSource, without an id, on an empty view; an open
\* one is closed first.  A connection that is refused is an error.
StartConsole ==
    /\ client = "console"
    /\ OpenStream
    /\ received' = <<>>
    /\ tail' \in Tails
    /\ IF "api" \in up
       THEN stream' = Opened /\ told' = "none"
       ELSE stream' = Closed /\ told' = "error"
    /\ UNCHANGED <<fileVars, client>>

\* selectTask closes the stream and empties the view when the task it was to show
\* cannot be read.
StopConsole ==
    /\ client = "console" /\ stream # Closed
    /\ stream' = Closed /\ told' = "stopped"
    /\ received' = <<>>
    /\ UNCHANGED <<fileVars, client, tail, settled, budget>>

\* onerror: the console shows the error and closes the EventSource for good.
ConsoleError ==
    /\ client = "console"
    /\ stream = Closed /\ told = "none" /\ budget.opens < MaxOpens
    /\ told' = "error"
    /\ UNCHANGED <<fileVars, client, received, tail, settled, stream, budget>>
-----------------------------------------------------------------------------
(* The generator.                                                           *)

\* Mutant of StartIndex: the last line that was received is sent again.
StartIndexInclusive(lines) ==
    IF LastId # NoId THEN IF LastId < lines THEN LastId ELSE lines
    ELSE IF tail > 0 /\ tail < lines THEN lines - tail ELSE 0

\* The first line to send: after Last-Event-ID, else the last tail_lines lines.
StartIndex(lines) ==
    IF LastId # NoId THEN IF LastId + 1 < lines THEN LastId + 1 ELSE lines
    ELSE IF tail > 0 /\ tail < lines THEN lines - tail ELSE 0

\* Mutant of ReadBacklog: a task that has ended is answered with its status at
\* once.
ReadBacklogShort ==
    /\ stream.pc = "open"
    /\ stream' = IF status \in Terminal
                 THEN [pc |-> "check", pos |-> 0, upto |-> 0, next |-> logged]
                 ELSE [pc |-> "backlog", pos |-> StartIndex(logged),
                       upto |-> logged, next |-> logged]
    /\ UNCHANGED <<fileVars, clientVars, budget>>

\* readlines: everything there is; following continues with that many as the id.
ReadBacklog ==
    /\ stream.pc = "open"
    /\ stream' = [pc |-> "backlog", pos |-> StartIndex(logged), upto |-> logged,
                  next |-> logged]
    /\ UNCHANGED <<fileVars, clientVars, budget>>

Emit(id, line) == received' = Append(received, [id |-> id, line |-> line])

SendBacklog ==
    /\ stream.pc = "backlog"
    /\ IF stream.pos < stream.upto
       THEN /\ Emit(stream.pos, stream.pos)
            /\ stream' = [stream EXCEPT !.pos = @ + 1]
       ELSE /\ stream' = [stream EXCEPT !.pc = "follow"]
            /\ UNCHANGED received
    /\ UNCHANGED <<fileVars, client, tail, told, settled, budget>>

\* readline: the next line, or the end of the file and then the status.
Follow ==
    /\ stream.pc = "follow"
    /\ IF stream.pos < logged
       THEN /\ Emit(stream.next, stream.pos)
            /\ stream' = [stream EXCEPT !.pos = @ + 1, !.next = @ + 1]
       ELSE /\ stream' = [stream EXCEPT !.pc = "check"]
            /\ UNCHANGED received
    /\ UNCHANGED <<fileVars, client, tail, told, settled, budget>>

\* Mutant of CheckStatus: only success and failure are taken for an end.
CheckStatusForgetsCancelled ==
    /\ stream.pc = "check"
    /\ IF status \in {"completed", "failed"}
       THEN stream' = Closed /\ told' = status
       ELSE stream' = [stream EXCEPT !.pc = "follow"] /\ UNCHANGED told
    /\ UNCHANGED <<fileVars, client, received, tail, settled, budget>>

\* A terminal status is sent and ends the stream; otherwise sleep and go on.
CheckStatus ==
    /\ stream.pc = "check"
    /\ IF status \in Terminal
       THEN stream' = Closed /\ told' = status
       ELSE stream' = [stream EXCEPT !.pc = "follow"] /\ UNCHANGED told
    /\ UNCHANGED <<fileVars, client, received, tail, settled, budget>>
-----------------------------------------------------------------------------
(* The environment: lost connections, crashes and restarts.                 *)

Drop ==
    /\ stream # Closed
    /\ stream' = Closed
    /\ UNCHANGED <<fileVars, clientVars, budget>>

\* The file keeps the lines that were written; the threads of the process are
\* gone, the API's streams and requests with it.
Crash(p) ==
    /\ p \in up /\ budget.crashes > 0
    /\ up' = up \ {p}
    /\ worker' = IF worker.pc \in Live /\ worker.proc = p
                 THEN [worker EXCEPT !.pc = "gone"] ELSE worker
    /\ launching' = (launching /\ p # "api")
    /\ stream' = IF p = "api" THEN Closed ELSE stream
    /\ budget' = [budget EXCEPT !.crashes = @ - 1]
    /\ UNCHANGED <<logged, status, excuses, clientVars>>

\* Start-up recovery fails a running row without a line in its log, also when its
\* worker lives in the other process.
Restart(p) ==
    /\ p \in Procs \ up
    /\ up' = up \cup {p}
    /\ IF status = "running"
       THEN /\ status' = "failed"
            /\ excuses' = IF worker.pc \in Live THEN excuses \cup {"recovered"} ELSE excuses
       ELSE UNCHANGED <<status, excuses>>
    /\ UNCHANGED <<logged, launching, worker, stream, clientVars, budget>>
-----------------------------------------------------------------------------
\* The steps a worker that no exception reaches takes on its way to the end.
WorkerGoesOn ==
    \/ \E p \in Procs : Claim(p)
    \/ LogMissing \/ MarkMissing \/ LogStarted \/ MarkRunning
    \/ MarkCancelled \/ Finish \/ LogEnd
    \/ LogFailure \/ MarkFailed \/ LogReleased

Writers   == Launch \/ WorkerGoesOn \/ LogCapture \/ Raise
Generator == ReadBacklog \/ SendBacklog \/ Follow \/ CheckStatus
Client    == Connect \/ StartConsole \/ StopConsole \/ ConsoleError
Processes == Drop \/ \E p \in Procs : Crash(p) \/ Restart(p)

StreamNext == Writers \/ Client \/ Generator \/ Processes

StreamSpec == StreamInit /\ [][StreamNext]_streamVars
-----------------------------------------------------------------------------
(* Properties.                                                              *)

\* Resume with Last-Event-ID: over any number of lost connections and restarts,
\* every event carries the position of its line as its id, and the ids are
\* consecutive: no line is missing in the middle, none is sent twice.  Without a
\* tail the first line is the first of the file.
InSequence ==
    /\ \A i \in DOMAIN received :
          /\ received[i].id = received[i].line
          /\ i > 1 => received[i].id = received[i - 1].id + 1
    /\ received # <<>> /\ tail = 0 => received[1].id = 0

\* The status event is an end, and the end the row keeps, with two exceptions: a
\* "completed" may become "failed" when the log line behind it could not be
\* written, and a "failed" may become anything when start-up recovery wrote it
\* while the worker was alive.  A client told "cancelled" was told the truth
\* (task_stream, and run_capture_task, whose updates have no guard).
StatusIsFinal ==
    told \notin {"none", "error", "stopped"} =>
        \/ told = status /\ status \in Terminal
        \/ told = "completed" /\ status = "failed" /\ "raised" \in excuses
        \/ told = "failed" /\ "recovered" \in excuses

\* A client that connects, or resumes, once the log is complete is sent all that
\* it does not have yet before the status event.
LateResumeIsWhole ==
    settled /\ told \in Terminal /\ logged > 0 => LastId = logged - 1
=============================================================================
