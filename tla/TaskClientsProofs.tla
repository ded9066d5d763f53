-------------------------- MODULE TaskClientsProofs --------------------------
(***************************************************************************)
(* Theorems about the two clients that follow a task, for any number of     *)
(* lines, tail lengths, lost connections, crashes, captures and polls.      *)
(***************************************************************************)
EXTENDS TaskClients, SequenceTheorems, TLAPS

-----------------------------------------------------------------------------
(* The log stream: what is always true of the file, of the events and of the *)
(* generator.                                                               *)

Events == [id: Nat, line: Nat]

StreamTypeOK ==
    /\ logged \in Nat
    /\ worker \in [pc: WorkerPcs, proc: Procs]
    /\ stream \in Streams
    /\ received \in Seq(Events)
    /\ tail \in Nat
    /\ settled \in BOOLEAN

\* The client holds a run of consecutive lines of the file.
ReceivedIsARun ==
    /\ \A i \in 1 .. Len(received) :
          /\ received[i].id = received[i].line
          /\ received[i].id < logged
          /\ i > 1 => received[i].id = received[i - 1].id + 1
    /\ received # <<>> /\ tail = 0 => received[1].id = 0

\* The generator goes on where the client is, and its id is the position.
GeneratorContinues ==
    stream.pc \in {"backlog", "follow", "check"} =>
        /\ stream.pos <= logged
        /\ IF stream.pc = "backlog"
           THEN stream.pos <= stream.upto /\ stream.upto = stream.next /\ stream.upto <= logged
           ELSE stream.pos = stream.next
        /\ received # <<>> => stream.pos = LastId + 1
        /\ received = <<>> /\ tail = 0 => stream.pos = 0

\* A complete log stays complete, and a generator that was opened on one sends
\* its end.
SettledIsSent ==
    settled =>
        /\ status \in Terminal /\ worker.pc \notin Live /\ ~launching
        /\ stream.pc = "backlog" =>
              stream.upto = logged /\ (received = <<>> /\ logged > 0 => stream.pos < logged)
        /\ stream.pc \in {"follow", "check"} => (received = <<>> => logged = 0)
        /\ stream.pc = "check" => stream.pos = logged
        /\ told \in Terminal /\ logged > 0 => LastId = logged - 1

\* A client that was told the status has no connection.
ToldIsClosed == told # "none" => stream.pc = "closed"

\* Where the worker is once it has written an end itself.
Past == {"ended", "handler", "fail", "finally", "gone"}

\* Nobody writes over an end that is in the row, or that a client was told, but
\* the except clause and a worker that was alive when recovery failed its row.
EndsAreKept ==
    /\ worker.pc = "none" => status = "queued"
    /\ "completed" \in {status, told} =>
          /\ worker.pc \in Past
          /\ worker.pc \in {"handler", "fail"} => "raised" \in excuses
    /\ "cancelled" \in {status, told} => worker.pc \in {"finally", "gone"}
    /\ "failed" \in {status, told} => worker.pc \in Past \/ "recovered" \in excuses

StreamInv ==
    /\ StreamTypeOK /\ ReceivedIsARun /\ GeneratorContinues
    /\ SettledIsSent /\ ToldIsClosed /\ EndsAreKept /\ StatusIsFinal

\* Initially the stream is closed and nothing was sent.
LEMMA StreamInvInit == StreamInit => StreamInv
<1> SUFFICES ASSUME StreamInit PROVE StreamInv
  OBVIOUS
<1>0. Closed \in Streams /\ <<>> \in Seq(Events) /\ Len(<<>>) = 0
  BY DEF Streams, Closed
<1>1. StreamTypeOK
  <2>1. tail \in Nat
    BY StreamAssumption DEF StreamInit
  <2> QED
    BY <1>0, <2>1 DEF StreamInit, StreamTypeOK, WorkerPcs, Procs
<1> QED
  BY <1>0, <1>1 DEF StreamInit, StreamInv, ReceivedIsARun, GeneratorContinues, SettledIsSent,
     ToldIsClosed, EndsAreKept, StatusIsFinal, Closed, Terminal

\* An event is the client's last one afterwards, and those before it are kept.
LEMMA Emitted ==
    ASSUME StreamTypeOK, NEW id \in Nat, NEW line \in Nat, Emit(id, line)
    PROVE  /\ received' \in Seq(Events) /\ received' # <<>>
           /\ Len(received') = Len(received) + 1
           /\ \A i \in 1 .. Len(received) : received'[i] = received[i]
           /\ received'[Len(received) + 1] = [id |-> id, line |-> line]
           /\ LastId' = id
<1>1. [id |-> id, line |-> line] \in Events
  BY DEF Events
<1>2. /\ received' \in Seq(Events)
      /\ Len(received') = Len(received) + 1
      /\ \A i \in 1 .. Len(received) : received'[i] = received[i]
      /\ received'[Len(received) + 1] = [id |-> id, line |-> line]
  BY <1>1 DEF Emit, StreamTypeOK
<1>3. received' # <<>>
  BY <1>2 DEF StreamTypeOK
<1> QED
  BY <1>2, <1>3 DEF LastId

\* The client's last id is that of the last event it holds, a line of the file.
LEMMA LastIdIsALine ==
    ASSUME StreamTypeOK, ReceivedIsARun
    PROVE  IF received = <<>> THEN LastId = NoId
           ELSE /\ LastId \in Nat /\ LastId < logged
                /\ Len(received) \in 1 .. Len(received)
                /\ LastId = received[Len(received)].id
<1>1. CASE received = <<>>
  BY <1>1 DEF LastId
<1>2. CASE received # <<>>
  <2>1. Len(received) \in 1 .. Len(received)
    BY <1>2 DEF StreamTypeOK
  <2>2. received[Len(received)] \in Events
    BY <2>1 DEF StreamTypeOK
  <2> QED
    BY <1>2, <2>1, <2>2 DEF LastId, ReceivedIsARun, Events
<1> QED
  BY <1>1, <1>2

\* A line that continues the client's run keeps it one.
LEMMA RunGoesOn ==
    ASSUME StreamTypeOK, ReceivedIsARun, NEW line \in Nat, Emit(line, line),
           line < logged, logged' = logged, tail' = tail,
           received # <<>> => line = LastId + 1,
           received = <<>> /\ tail = 0 => line = 0
    PROVE  ReceivedIsARun'
<1> DEFINE n == Len(received)
<1>1. /\ received' # <<>> /\ Len(received') = n + 1 /\ n \in Nat
      /\ \A i \in 1 .. n : received'[i] = received[i]
      /\ received'[n + 1] = [id |-> line, line |-> line]
  BY Emitted DEF StreamTypeOK
<1>2. IF received = <<>> THEN n = 0 ELSE n \in 1 .. n /\ line = received[n].id + 1
  BY LastIdIsALine
<1>3. ASSUME NEW i \in 1 .. n + 1
      PROVE  /\ received'[i].id = received'[i].line
             /\ received'[i].id < logged
             /\ i > 1 => received'[i].id = received'[i - 1].id + 1
  <2>1. CASE i = n + 1
    BY <1>1, <1>2, <2>1
  <2>2. CASE i \in 1 .. n
    <3>1. received'[i] = received[i] /\ (i > 1 => received'[i - 1] = received[i - 1])
      BY <1>1, <2>2
    <3> QED
      BY <3>1, <2>2 DEF ReceivedIsARun
  <2> QED
    BY <1>1, <2>1, <2>2
<1>4. received'[1].id = 0 \/ tail # 0
  <2>1. CASE received = <<>>
    BY <2>1, <1>1, <1>2
  <2>2. CASE received # <<>>
    BY <2>2, <1>1, <1>2 DEF ReceivedIsARun
  <2> QED
    BY <2>1, <2>2
<1> QED
  BY <1>1, <1>3, <1>4 DEF ReceivedIsARun

\* What the generator does keeps the invariant.
LEMMA GeneratorStep ==
    ASSUME StreamInv, Generator
    PROVE  StreamInv'
<1> USE DEF StreamInv
<1>0. /\ logged \in Nat /\ tail \in Nat
      /\ stream = [pc |-> stream.pc, pos |-> stream.pos, upto |-> stream.upto,
                   next |-> stream.next]
      /\ stream.pos \in Nat /\ stream.upto \in Nat /\ stream.next \in Nat
  BY DEF StreamTypeOK, Streams
<1>l. IF received = <<>> THEN LastId = NoId
      ELSE LastId \in Nat /\ LastId < logged
  BY LastIdIsALine
<1>1. CASE ReadBacklog
  <2> USE <1>1 DEF ReadBacklog, fileVars, clientVars
  <2> DEFINE start == StartIndex(logged)
  <2>1. /\ start \in Nat /\ start <= logged
        /\ received # <<>> => start = LastId + 1
        /\ received = <<>> /\ tail = 0 => start = 0
        /\ received = <<>> /\ logged > 0 => start < logged
    BY <1>0, <1>l DEF StartIndex, NoId
  <2>2. stream' = [pc |-> "backlog", pos |-> start, upto |-> logged, next |-> logged]
    OBVIOUS
  <2>3. LastId' = LastId
    BY DEF LastId
  <2> HIDE DEF start
  <2>4. StreamTypeOK'
    BY <1>0, <2>1, <2>2 DEF StreamTypeOK, Streams
  <2>5. ReceivedIsARun'
    BY DEF ReceivedIsARun
  <2>6. GeneratorContinues'
    BY <1>0, <2>1, <2>2, <2>3 DEF GeneratorContinues
  <2>7. told = "none" \/ ~settled
    BY DEF SettledIsSent, ToldIsClosed
  <2>8. SettledIsSent' /\ ToldIsClosed' /\ EndsAreKept' /\ StatusIsFinal'
    BY <2>1, <2>2, <2>3, <2>7 DEF SettledIsSent, ToldIsClosed, EndsAreKept, StatusIsFinal
  <2> QED
    BY <2>4, <2>5, <2>6, <2>8
<1>2. CASE SendBacklog /\ stream.pos < stream.upto
  <2> USE <1>2 DEF SendBacklog, fileVars
  <2>1. /\ Emit(stream.pos, stream.pos)
        /\ stream' = [stream EXCEPT !.pos = @ + 1]
        /\ stream'.pc = "backlog" /\ stream'.pos = stream.pos + 1
        /\ stream'.upto = stream.upto /\ stream'.next = stream.next
    BY <1>0
  <2>2. stream.pos < logged
    BY <1>0 DEF GeneratorContinues
  <2>3. ReceivedIsARun'
    BY <1>0, <2>1, <2>2, RunGoesOn DEF GeneratorContinues
  <2>4. /\ received' \in Seq(Events) /\ received' # <<>> /\ LastId' = stream.pos
    BY <1>0, <2>1, Emitted
  <2>5. StreamTypeOK'
    <3>1. stream' \in Streams
      BY <1>0, <2>1 DEF StreamTypeOK, Streams
    <3>2. UNCHANGED <<logged, worker, status, tail, settled>>
      OBVIOUS
    <3> QED
      BY <2>4, <3>1, <3>2 DEF StreamTypeOK
  <2>6. GeneratorContinues'
    BY <1>0, <2>1, <2>4 DEF GeneratorContinues
  <2>7. SettledIsSent' /\ ToldIsClosed' /\ EndsAreKept' /\ StatusIsFinal'
    BY <2>1, <2>4 DEF SettledIsSent, ToldIsClosed, EndsAreKept, StatusIsFinal, Terminal
  <2> QED
    BY <2>3, <2>5, <2>6, <2>7
<1>3. CASE SendBacklog /\ ~(stream.pos < stream.upto)
  <2> USE <1>3 DEF SendBacklog, fileVars
  <2>1. /\ stream' = [stream EXCEPT !.pc = "follow"] /\ received' = received
        /\ stream'.pc = "follow" /\ stream'.pos = stream.pos /\ stream'.next = stream.next
    BY <1>0
  <2>2. LastId' = LastId
    BY <2>1 DEF LastId
  <2>3. StreamTypeOK' /\ ReceivedIsARun'
    BY <1>0, <2>1 DEF StreamTypeOK, Streams, ReceivedIsARun
  <2>4. stream.pos = stream.upto
    BY <1>0 DEF GeneratorContinues
  <2>5. GeneratorContinues'
    BY <1>0, <2>1, <2>2, <2>4 DEF GeneratorContinues
  <2>6. SettledIsSent' /\ ToldIsClosed' /\ EndsAreKept' /\ StatusIsFinal'
    BY <1>0, <2>1, <2>2, <2>4 DEF SettledIsSent, ToldIsClosed, EndsAreKept, StatusIsFinal
  <2> QED
    BY <2>3, <2>5, <2>6
<1>4. CASE Follow /\ stream.pos < logged
  <2> USE <1>4 DEF Follow, fileVars
  <2>1. /\ stream.pos = stream.next
        /\ Emit(stream.pos, stream.pos)
        /\ stream' = [stream EXCEPT !.pos = @ + 1, !.next = @ + 1]
        /\ stream' = [pc |-> "follow", pos |-> stream.pos + 1, upto |-> stream.upto,
                      next |-> stream.pos + 1]
        /\ stream'.pc = "follow" /\ stream'.pos = stream.pos + 1
        /\ stream'.next = stream.pos + 1
    BY <1>0 DEF GeneratorContinues
  <2>3. ReceivedIsARun'
    BY <1>0, <2>1, RunGoesOn DEF GeneratorContinues
  <2>4. /\ received' \in Seq(Events) /\ received' # <<>> /\ LastId' = stream.pos
    BY <1>0, <2>1, Emitted
  <2>5. StreamTypeOK'
    <3>1. stream' \in Streams
      BY <1>0, <2>1 DEF StreamTypeOK, Streams
    <3>2. UNCHANGED <<logged, worker, status, tail, settled>>
      OBVIOUS
    <3> QED
      BY <2>4, <3>1, <3>2 DEF StreamTypeOK
  <2>6. GeneratorContinues'
    BY <1>0, <2>1, <2>4 DEF GeneratorContinues
  <2>7. SettledIsSent' /\ ToldIsClosed' /\ EndsAreKept' /\ StatusIsFinal'
    BY <2>1, <2>4 DEF SettledIsSent, ToldIsClosed, EndsAreKept, StatusIsFinal, Terminal
  <2> QED
    BY <2>3, <2>5, <2>6, <2>7
<1>5. CASE Follow /\ ~(stream.pos < logged)
  <2> USE <1>5 DEF Follow, fileVars
  <2>1. /\ stream' = [stream EXCEPT !.pc = "check"] /\ received' = received
        /\ stream'.pc = "check" /\ stream'.pos = stream.pos /\ stream'.next = stream.next
    BY <1>0
  <2>2. LastId' = LastId
    BY <2>1 DEF LastId
  <2>3. StreamTypeOK' /\ ReceivedIsARun'
    BY <1>0, <2>1 DEF StreamTypeOK, Streams, ReceivedIsARun
  <2>4. GeneratorContinues' /\ stream.pos = logged
    BY <1>0, <2>1, <2>2 DEF GeneratorContinues
  <2>5. SettledIsSent' /\ ToldIsClosed' /\ EndsAreKept' /\ StatusIsFinal'
    BY <2>1, <2>2, <2>4 DEF SettledIsSent, ToldIsClosed, EndsAreKept, StatusIsFinal
  <2> QED
    BY <2>3, <2>4, <2>5
<1>6. CASE CheckStatus
  <2> USE <1>6 DEF CheckStatus, fileVars
  <2>2. LastId' = LastId
    BY DEF LastId
  <2>3. Closed \in Streams /\ [stream EXCEPT !.pc = "follow"] \in Streams
    BY <1>0 DEF Streams, Closed
  <2>4. StreamTypeOK' /\ ReceivedIsARun'
    BY <2>3 DEF StreamTypeOK, ReceivedIsARun
  <2>5. CASE status \in Terminal
    <3>1. stream' = Closed /\ stream'.pc = "closed" /\ told' = status
      BY <2>5 DEF Closed
    <3>2. settled /\ logged > 0 => LastId = logged - 1
      BY <1>0, <1>l DEF SettledIsSent, GeneratorContinues
    <3> QED
      BY <2>2, <2>4, <2>5, <3>1, <3>2
         DEF GeneratorContinues, SettledIsSent, ToldIsClosed, EndsAreKept, StatusIsFinal,
             Terminal
  <2>6. CASE status \notin Terminal
    <3>1. /\ stream' = [stream EXCEPT !.pc = "follow"] /\ told' = told
          /\ stream'.pc = "follow" /\ stream'.pos = stream.pos /\ stream'.next = stream.next
      BY <1>0, <2>6
    <3> QED
      BY <1>0, <2>2, <2>4, <2>6, <3>1
         DEF GeneratorContinues, SettledIsSent, ToldIsClosed, EndsAreKept, StatusIsFinal,
             Terminal
  <2> QED
    BY <2>5, <2>6
<1> QED
  BY <1>1, <1>2, <1>3, <1>4, <1>5, <1>6 DEF Generator

\* What the writers of the row and of the file leave alone, and how they write.
LEMMA WritersFrame ==
    ASSUME StreamInv, Writers
    PROVE  /\ UNCHANGED <<up, stream, client, received, tail, told, settled, budget>>
           /\ logged' \in Nat /\ logged' >= logged
           /\ worker' \in [pc: WorkerPcs, proc: Procs]
           /\ LastId' = LastId
           /\ settled => UNCHANGED <<logged, status, launching, worker>>
<1> USE DEF StreamInv
<1>0. logged \in Nat /\ worker \in [pc: WorkerPcs, proc: Procs]
  BY DEF StreamTypeOK
<1>s. settled => /\ status \in Terminal /\ worker.pc \notin Live /\ ~launching
                 /\ status # "queued"
  BY DEF SettledIsSent, Terminal
<1> USE DEF clientVars
<1>1. CASE Launch
  <2>1. /\ UNCHANGED <<status, worker, up, stream, client, received, tail, told, settled, budget>>
        /\ launching /\ logged' \in {logged, logged + 1}
    BY <1>1 DEF Launch
  <2>2. ~settled
    BY <1>s, <2>1
  <2>3. logged' \in Nat /\ logged' >= logged
    BY <1>0, <2>1
  <2>4. LastId' = LastId /\ worker' = worker
    BY <2>1 DEF LastId
  <2> QED
    BY <1>0, <2>1, <2>2, <2>3, <2>4, Zenon
<1>2. CASE \E p \in Procs : Claim(p)
  BY <1>0, <1>2, <1>s DEF Claim, LastId, WorkerPcs
<1>3. ASSUME NEW from \in Live, NEW to \in WorkerPcs, WriteLine(from, to)
      PROVE  /\ UNCHANGED <<up, stream, client, received, tail, told, settled, budget>>
             /\ logged' \in Nat /\ logged' >= logged
             /\ worker' \in [pc: WorkerPcs, proc: Procs]
             /\ LastId' = LastId
             /\ ~settled
  BY <1>0, <1>3, <1>s DEF WriteLine, Goes, LastId
<1>4. ASSUME NEW from \in Live, NEW to \in WorkerPcs, NEW new, WriteStatus(from, to, new)
      PROVE  /\ UNCHANGED <<up, stream, client, received, tail, told, settled, budget>>
             /\ logged' \in Nat /\ logged' >= logged
             /\ worker' \in [pc: WorkerPcs, proc: Procs]
             /\ LastId' = LastId
             /\ ~settled
  BY <1>0, <1>4, <1>s DEF WriteStatus, Goes, LastId
<1>5. CASE Raise
  <2>1. \A pc \in Live : RaisedTo[pc] \in WorkerPcs
    BY DEF RaisedTo, Live, WorkerPcs
  <2> QED
    BY <1>0, <1>5, <1>s, <2>1 DEF Raise, LastId
<1>6. CASE WorkerGoesOn /\ ~\E p \in Procs : Claim(p)
  <2> USE DEF Live, WorkerPcs
  <2>1. CASE LogMissing \/ LogStarted \/ LogEnd \/ LogFailure \/ LogReleased
    BY <2>1, <1>3 DEF LogMissing, LogStarted, LogEnd, LogFailure, LogReleased
  <2>2. CASE MarkMissing \/ MarkRunning \/ MarkCancelled \/ Finish \/ MarkFailed
    BY <2>2, <1>4 DEF MarkMissing, MarkRunning, MarkCancelled, Finish, MarkFailed
  <2> QED
    BY <2>1, <2>2, <1>6 DEF WorkerGoesOn
<1>7. CASE LogCapture
  BY <1>7, <1>3 DEF LogCapture, Live, WorkerPcs
<1> QED
  BY <1>1, <1>2, <1>5, <1>6, <1>7 DEF Writers

\* The ends are kept by every step of the request and of the worker.
LEMMA EndsAreKeptByWriters ==
    ASSUME StreamInv, Writers
    PROVE  EndsAreKept' /\ StatusIsFinal'
<1> USE DEF StreamInv
<1>0. worker \in [pc: WorkerPcs, proc: Procs] /\ told' = told
  BY WritersFrame DEF StreamTypeOK
<1> USE DEF EndsAreKept, StatusIsFinal, Past, Terminal
<1>1. CASE Launch
  BY <1>0, <1>1 DEF Launch
<1>2. CASE \E p \in Procs : Claim(p)
  <2>1. status = "queued" /\ status' = "running" /\ worker'.pc = "claimed" /\ excuses' = excuses
    BY <1>2 DEF Claim
  <2> QED
    BY <1>0, <2>1
<1>3. ASSUME NEW from, NEW to, WriteLine(from, to)
      PROVE  worker.pc = from /\ worker'.pc = to /\ UNCHANGED <<status, excuses>>
  BY <1>0, <1>3 DEF WriteLine, Goes
<1>4. ASSUME NEW from, NEW to, NEW new, WriteStatus(from, to, new)
      PROVE  worker.pc = from /\ worker'.pc = to /\ status' = new /\ excuses' = excuses
  BY <1>0, <1>4 DEF WriteStatus, Goes
<1>5. CASE LogMissing \/ LogStarted \/ LogCapture \/ LogEnd \/ LogFailure \/ LogReleased
  <2>1. /\ UNCHANGED <<status, excuses>>
        /\ <<worker.pc, worker'.pc>> \in
              {<<"claimed", "missing">>, <<"claimed", "started">>, <<"run", "run">>,
               <<"ended", "finally">>, <<"handler", "fail">>, <<"finally", "gone">>}
    BY <1>3, <1>5 DEF LogMissing, LogStarted, LogCapture, LogEnd, LogFailure, LogReleased
  <2> QED
    BY <1>0, <2>1
<1>6. CASE MarkMissing
  <2>1. worker.pc = "missing" /\ worker'.pc = "gone" /\ status' = "failed" /\ excuses' = excuses
    BY <1>4, <1>6 DEF MarkMissing
  <2> QED
    BY <1>0, <2>1
<1>7. CASE MarkRunning
  <2>1. worker.pc = "started" /\ worker'.pc = "run" /\ status' = "running" /\ excuses' = excuses
    BY <1>4, <1>7 DEF MarkRunning
  <2> QED
    BY <1>0, <2>1
<1>8. CASE MarkCancelled
  <2>1. /\ worker.pc = "run" /\ worker'.pc = "finally"
        /\ status' = "cancelled" /\ excuses' = excuses
    BY <1>4, <1>8 DEF MarkCancelled
  <2> QED
    BY <1>0, <2>1
<1>9. CASE Finish
  <2>1. /\ worker.pc = "run" /\ worker'.pc = "ended"
        /\ status' \in {"completed", "failed"} /\ excuses' = excuses
    BY <1>4, <1>9 DEF Finish
  <2> QED
    BY <1>0, <2>1
<1>10. CASE MarkFailed
  <2>1. worker.pc = "fail" /\ worker'.pc = "finally" /\ status' = "failed" /\ excuses' = excuses
    BY <1>4, <1>10 DEF MarkFailed
  <2> QED
    BY <1>0, <2>1
<1>11. CASE Raise
  <2>1. /\ status' = status /\ excuses \subseteq excuses'
        /\ worker.pc = "ended" => "raised" \in excuses'
        /\ worker.pc \in Live /\ worker'.pc = RaisedTo[worker.pc]
    BY <1>0, <1>11 DEF Raise
  <2>2. <<worker.pc, worker'.pc>> \in
            {<<"claimed", "gone">>, <<"missing", "gone">>, <<"started", "gone">>,
             <<"run", "handler">>, <<"ended", "handler">>, <<"handler", "finally">>,
             <<"fail", "finally">>, <<"finally", "gone">>}
    BY <1>0, <2>1 DEF RaisedTo, Live, WorkerPcs
  <2> QED
    BY <1>0, <2>1, <2>2
<1> QED
  BY <1>1, <1>2, <1>5, <1>6, <1>7, <1>8, <1>9, <1>10, <1>11 DEF Writers, WorkerGoesOn

\* So the writers keep the invariant; they never write to a log that was settled.
LEMMA WritersStep ==
    ASSUME StreamInv, Writers
    PROVE  StreamInv'
<1> USE DEF StreamInv
<1>0. logged \in Nat /\ stream \in Streams /\ stream.pos \in Nat /\ stream.upto \in Nat
  BY DEF StreamTypeOK, Streams
<1>1. /\ UNCHANGED <<up, stream, client, received, tail, told, settled, budget>>
      /\ logged' \in Nat /\ logged' >= logged
      /\ worker' \in [pc: WorkerPcs, proc: Procs]
      /\ LastId' = LastId
      /\ settled => UNCHANGED <<logged, status, launching, worker>>
  BY WritersFrame
<1>2. StreamTypeOK'
  BY <1>1 DEF StreamTypeOK
<1>3. ReceivedIsARun'
  <2>1. \A i \in 1 .. Len(received) : received[i].id \in Nat
    <3> TAKE i \in 1 .. Len(received)
    <3>1. received[i] \in Events
      BY ElementOfSeq DEF StreamTypeOK
    <3> QED
      BY <3>1 DEF Events
  <2> QED
    BY <2>1, <1>0, <1>1 DEF ReceivedIsARun
<1>4. GeneratorContinues'
  BY <1>0, <1>1 DEF GeneratorContinues
<1>5. SettledIsSent' /\ ToldIsClosed'
  BY <1>1 DEF SettledIsSent, ToldIsClosed
<1> QED
  BY <1>2, <1>3, <1>4, <1>5, EndsAreKeptByWriters

\* The clients write nothing that lasts: what they receive begins anew, or goes on.
LEMMA ClientStep ==
    ASSUME StreamInv, Client
    PROVE  StreamInv'
<1> USE DEF StreamInv, fileVars
<1>0. Opened \in Streams /\ Closed \in Streams /\ Opened.pc = "open" /\ Closed.pc = "closed"
  BY DEF Opened, Closed, Streams
<1>1. /\ UNCHANGED <<logged, status, launching, worker, up, excuses>>
      /\ stream' \in {stream, Opened, Closed}
      /\ stream' = Opened => told' = "none"
      /\ stream'.pc \notin {"backlog", "follow", "check"}
      /\ told' \in {"none", "error", "stopped"}
      /\ told' # "none" => stream'.pc = "closed"
  BY <1>0 DEF Client, Connect, StartConsole, StopConsole, ConsoleError
<1>2. \/ received' = received /\ tail' = tail
      \/ received' = <<>> /\ tail' \in Nat
  <2>1. tail \in Nat /\ Tails \subseteq Nat
    BY StreamAssumption DEF StreamTypeOK
  <2> QED
    BY <2>1 DEF Client, Connect, StartConsole, StopConsole, ConsoleError
<1>3. settled' \in BOOLEAN
      /\ (settled' => status \in Terminal /\ worker.pc \notin Live /\ ~launching)
  <2>1. \/ settled' = settled
        \/ settled' = (status \in Terminal /\ worker.pc \notin Live /\ ~launching)
    BY DEF Client, Connect, StartConsole, StopConsole, ConsoleError, OpenStream
  <2>2. CASE settled' = settled
    BY <2>2 DEF StreamTypeOK, SettledIsSent
  <2>3. CASE settled' = (status \in Terminal /\ worker.pc \notin Live /\ ~launching)
    BY <2>3
  <2> QED
    BY <2>1, <2>2, <2>3
<1>4. <<>> \in Seq(Events) /\ Len(<<>>) = 0
  OBVIOUS
<1>5. StreamTypeOK'
  BY <1>0, <1>1, <1>2, <1>3, <1>4 DEF StreamTypeOK
<1>6. ReceivedIsARun'
  BY <1>1, <1>2, <1>4 DEF ReceivedIsARun
<1>7. GeneratorContinues' /\ SettledIsSent' /\ ToldIsClosed'
  BY <1>1, <1>3 DEF GeneratorContinues, SettledIsSent, ToldIsClosed, Terminal
<1>8. EndsAreKept' /\ StatusIsFinal'
  BY <1>1 DEF EndsAreKept, StatusIsFinal
<1> QED
  BY <1>5, <1>6, <1>7, <1>8

\* So do lost connections, crashes and restarts.
LEMMA ProcessesStep ==
    ASSUME StreamInv, Processes
    PROVE  StreamInv'
<1> USE DEF StreamInv, clientVars, fileVars
<1>0. Closed \in Streams /\ Closed.pc = "closed"
  BY DEF Closed, Streams
<1>1. /\ UNCHANGED <<logged, received, tail, told, settled>>
      /\ stream' \in {stream, Closed} /\ LastId' = LastId
  BY DEF Processes, Drop, Crash, Restart, LastId
<1>2. /\ worker' = worker \/ (worker.pc \in Live /\ worker' = [worker EXCEPT !.pc = "gone"])
      /\ launching' => launching
  <2>1. CASE Drop
    <3>1. worker' = worker /\ launching' = launching
      BY <2>1 DEF Drop
    <3> QED
      BY <3>1
  <2>2. CASE \E p \in Procs : Crash(p)
    <3>1. PICK p \in Procs : Crash(p)
      BY <2>2
    <3>2. /\ launching' = (launching /\ p # "api")
          /\ worker' = IF worker.pc \in Live /\ worker.proc = p
                       THEN [worker EXCEPT !.pc = "gone"] ELSE worker
      BY <3>1 DEF Crash
    <3>3. launching' => launching
      BY <3>2, Zenon
    <3>4. worker' = worker \/ (worker.pc \in Live /\ worker' = [worker EXCEPT !.pc = "gone"])
      BY <3>2
    <3> QED
      BY <3>3, <3>4
  <2>3. CASE \E p \in Procs : Restart(p)
    <3>1. worker' = worker /\ launching' = launching
      BY <2>3 DEF Restart
    <3> QED
      BY <3>1
  <2> QED
    BY <2>1, <2>2, <2>3 DEF Processes
<1>3. \/ status' = status /\ excuses' = excuses
      \/ /\ status = "running" /\ status' = "failed" /\ worker' = worker
         /\ excuses' = IF worker.pc \in Live THEN excuses \cup {"recovered"} ELSE excuses
  BY DEF Processes, Drop, Crash, Restart
<1>5. /\ worker' \in [pc: WorkerPcs, proc: Procs]
      /\ worker'.pc = worker.pc \/ (worker.pc \in Live /\ worker'.pc = "gone")
  BY <1>2 DEF StreamTypeOK, WorkerPcs
<1>6. StreamTypeOK'
  BY <1>0, <1>1, <1>5 DEF StreamTypeOK
<1>7. ReceivedIsARun' /\ GeneratorContinues'
  BY <1>0, <1>1 DEF ReceivedIsARun, GeneratorContinues
<1>8. SettledIsSent' /\ ToldIsClosed'
  <2>1. settled => status # "running" /\ (status' = status) /\ worker'.pc = worker.pc /\ ~launching'
    BY <1>2, <1>3, <1>5 DEF SettledIsSent, Terminal
  <2> QED
    BY <1>0, <1>1, <2>1 DEF SettledIsSent, ToldIsClosed
<1>9. EndsAreKept' /\ StatusIsFinal'
  <2>1. CASE status' = status /\ excuses' = excuses
    BY <1>1, <1>5, <2>1 DEF EndsAreKept, StatusIsFinal, Past, Live
  <2>2. CASE /\ status = "running" /\ status' = "failed" /\ worker' = worker
             /\ excuses' = IF worker.pc \in Live THEN excuses \cup {"recovered"} ELSE excuses
    <3>1. worker.pc \in Live \/ worker.pc = "gone"
      BY <2>2 DEF EndsAreKept, StreamTypeOK, WorkerPcs, Live
    <3> QED
      BY <1>1, <2>2, <3>1 DEF EndsAreKept, StatusIsFinal, Past, Live, Terminal
  <2> QED
    BY <1>3, <2>1, <2>2
<1> QED
  BY <1>6, <1>7, <1>8, <1>9

\* The invariant holds in every behaviour of the two clients.
THEOREM StreamInvariant == Spec => []StreamInv
<1>1. Init => StreamInv
  BY StreamInvInit DEF Init
<1>2. ASSUME StreamInv, [Next]_allVars
      PROVE  StreamInv'
  <2>1. CASE StreamNext
    BY <2>1, <1>2, WritersStep, GeneratorStep, ClientStep, ProcessesStep DEF StreamNext
  <2>2. CASE UNCHANGED streamVars
    <3>1. /\ UNCHANGED <<logged, status, launching, worker, excuses>>
          /\ UNCHANGED <<stream, received, tail, told, settled>> /\ LastId' = LastId
      BY <2>2 DEF streamVars, LastId
    <3>2. StreamTypeOK' /\ ReceivedIsARun' /\ GeneratorContinues'
      BY <3>1, <1>2 DEF StreamInv, StreamTypeOK, ReceivedIsARun, GeneratorContinues
    <3>3. SettledIsSent' /\ ToldIsClosed' /\ EndsAreKept' /\ StatusIsFinal'
      BY <3>1, <1>2 DEF StreamInv, SettledIsSent, ToldIsClosed, EndsAreKept, StatusIsFinal
    <3> QED
      BY <3>2, <3>3 DEF StreamInv
  <2> QED
    BY <2>1, <2>2, <1>2 DEF Next, Streaming, Polling, allVars
<1> QED
  BY <1>1, <1>2, PTL DEF Spec

\* Resume with Last-Event-ID: over any number of lost connections and restarts
\* the client holds consecutive lines, each under its own position (task_stream).
THEOREM InSequenceCorrect == Spec => []InSequence
<1>1. StreamInv => InSequence
  BY DEF StreamInv, StreamTypeOK, ReceivedIsARun, InSequence
<1> QED
  BY <1>1, StreamInvariant, PTL

\* The status a client was told is the one the row keeps, unless the line behind a
\* "completed" could not be written or recovery failed a row whose worker was
\* alive; "cancelled" is always kept (task_stream, run_capture_task).
THEOREM StatusFinalCorrect == Spec => []StatusIsFinal
<1>1. StreamInv => StatusIsFinal
  BY DEF StreamInv
<1> QED
  BY <1>1, StreamInvariant, PTL

\* A client that connects or resumes once the log is complete is sent the rest of
\* it before the status event (task_stream).
THEOREM LateResumeCorrect == Spec => []LateResumeIsWhole
<1>1. StreamInv => LateResumeIsWhole
  BY DEF StreamInv, SettledIsSent, LateResumeIsWhole
<1> QED
  BY <1>1, StreamInvariant, PTL

-----------------------------------------------------------------------------
(* The capture panel.                                                       *)

RowStates == {"absent", "refused", "queued", "running"} \cup Ended
Polls == [task: TaskIds, read: {"nothing"} \cup RowStates]

PageTypeOK ==
    /\ server \in [TaskIds -> RowStates]
    /\ posts \in SUBSET TaskIds
    /\ polls \in Seq(Polls)
    /\ intervals \in SUBSET TaskIds
    /\ timer \in TaskIds \cup {NoTask}
    /\ current \in TaskIds \cup {NoTask}
    /\ disturbed \in BOOLEAN

\* A task is polled once it is accepted, the last one by the one timer, and an
\* end that was read is the end of the row.
PollsAreOfTasks ==
    /\ \A t \in posts : server[t] = "absent"
    /\ current # NoTask => server[current] \notin {"absent", "refused"}
    /\ intervals \subseteq {timer} \cap {current}
    /\ \A i \in 1 .. Len(polls) :
          /\ server[polls[i].task] \notin {"absent", "refused"}
          /\ polls[i].read \in Ended => server[polls[i].task] = polls[i].read

\* Unless something is disturbed, the polls of the last task were answered in
\* their order: none after one that read an end reads anything but an end.
AnswersInOrder ==
    ~disturbed => \A i, j \in 1 .. Len(polls) :
        i < j /\ polls[j].task = current /\ polls[j].read # "nothing" =>
            /\ polls[i].read # "nothing"
            /\ polls[i].task = current /\ polls[i].read \in Ended => polls[j].read \in Ended

\* Unless something is disturbed, polling ends because an answer showed the end.
StoppedByAnEnd ==
    ~disturbed =>
        IF current = NoTask
        THEN polls = <<>> /\ intervals = {} /\ panel.status \in {"ready", "starting", "not started"}
        ELSE intervals = {} =>
                /\ server[current] \in Ended
                /\ \A i \in 1 .. Len(polls) :
                      polls[i].task = current => polls[i].read \in {"nothing"} \cup Ended
                /\ \/ panel.status \in {"starting", "not started"}
                   \/ panel = [task |-> current, status |-> server[current]]

\* "starting" is on show only while a POST is not answered.
StartingHasPost == panel.status = "starting" => posts # {}

PageInv ==
    /\ PageTypeOK /\ PollsAreOfTasks /\ AnswersInOrder /\ StoppedByAnEnd /\ StartingHasPost

\* A sequence without one element is the rest of it, in order.
LEMMA RemoveAtOfSeq ==
    ASSUME NEW S, NEW s \in Seq(S), NEW i \in 1 .. Len(s)
    PROVE  /\ RemoveAt(s, i) \in Seq(S)
           /\ Len(RemoveAt(s, i)) = Len(s) - 1
           /\ \A j \in 1 .. Len(s) - 1 :
                 RemoveAt(s, i)[j] = IF j < i THEN s[j] ELSE s[j + 1]
<1> DEFINE before == SubSeq(s, 1, i - 1)
           after  == SubSeq(s, i + 1, Len(s))
<1>0. Len(s) \in Nat /\ i \in Int /\ \A j \in 1 .. Len(s) : s[j] \in S
  BY LenProperties, ElementOfSeq
<1>1. /\ before \in Seq(S) /\ Len(before) = i - 1
      /\ \A j \in 1 .. i - 1 : before[j] = s[j]
  BY <1>0, SubSeqProperties
<1>2. /\ after \in Seq(S) /\ Len(after) = Len(s) - i
      /\ \A j \in 1 .. Len(s) - i : after[j] = s[j + i]
  BY <1>0, SubSeqProperties
<1>3. RemoveAt(s, i) = before \o after
  BY DEF RemoveAt
<1> HIDE DEF before, after
<1>4. /\ before \o after \in Seq(S)
      /\ Len(before \o after) = Len(before) + Len(after)
      /\ \A j \in 1 .. Len(before) + Len(after) :
            (before \o after)[j] = IF j <= Len(before) THEN before[j] ELSE after[j - Len(before)]
  BY <1>1, <1>2, ConcatProperties
<1>5. Len(before) + Len(after) = Len(s) - 1
  BY <1>0, <1>1, <1>2
<1>6. ASSUME NEW j \in 1 .. Len(s) - 1
      PROVE  RemoveAt(s, i)[j] = IF j < i THEN s[j] ELSE s[j + 1]
  <2>1. RemoveAt(s, i)[j] = IF j <= i - 1 THEN before[j] ELSE after[j - (i - 1)]
    BY <1>1, <1>3, <1>4, <1>5
  <2>2. CASE j < i
    <3>1. j \in 1 .. i - 1 /\ j <= i - 1
      BY <1>0, <2>2
    <3> QED
      BY <1>1, <2>1, <2>2, <3>1
  <2>3. CASE ~(j < i)
    <3>1. j - (i - 1) \in 1 .. Len(s) - i /\ ~(j <= i - 1)
      BY <1>0, <2>3
    <3>2. after[j - (i - 1)] = s[j - (i - 1) + i] /\ j - (i - 1) + i = j + 1
      BY <1>0, <1>2, <3>1
    <3> QED
      BY <2>1, <2>3, <3>1, <3>2
  <2> QED
    BY <2>2, <2>3
<1> QED
  BY <1>3, <1>4, <1>5, <1>6

\* A poll is appended behind the others.
LEMMA PollSent ==
    ASSUME PageTypeOK, NEW t \in TaskIds, SendPoll(t)
    PROVE  /\ polls' \in Seq(Polls) /\ polls' # <<>>
           /\ Len(polls') = Len(polls) + 1 /\ Len(polls) \in Nat
           /\ \A i \in 1 .. Len(polls) : polls'[i] = polls[i]
           /\ polls'[Len(polls) + 1] = [task |-> t, read |-> "nothing"]
<1>1. [task |-> t, read |-> "nothing"] \in Polls
  BY DEF Polls
<1> QED
  BY <1>1, AppendProperties, LenProperties DEF PageTypeOK, SendPoll

\* The statuses are different ones.
LEMMA Constants ==
    /\ TaskIds \subseteq Nat /\ NoTask \notin TaskIds
    /\ "nothing" \notin RowStates /\ Ended \subseteq RowStates
    /\ \A s \in {"absent", "refused", "queued", "running"} : s \notin Ended
    /\ TerminalShown = Ended
BY PollingAssumption DEF TaskIds, NoTask, RowStates, Ended, TerminalShown

\* The one timer is the one that is cleared.
LEMMA NothingIsLeft ==
    ASSUME PageInv
    PROVE  ClearTimer = {}
BY DEF PageInv, PollsAreOfTasks, ClearTimer

\* Initially the page is ready and no task exists.
LEMMA PageInvInit == PageInit => PageInv
<1> SUFFICES ASSUME PageInit PROVE PageInv
  OBVIOUS
<1>0. <<>> \in Seq(Polls) /\ Len(<<>>) = 0 /\ TaskIds \cap {NoTask} = {}
  BY Constants
<1>1. PageTypeOK
  BY <1>0 DEF PageInit, PageTypeOK, RowStates
<1> QED
  BY <1>0, <1>1 DEF PageInit, PageInv, PollsAreOfTasks, AnswersInOrder, StoppedByAnEnd,
     StartingHasPost

\* A poll in the sequence.
LEMMA PollAt ==
    ASSUME PageTypeOK, NEW i \in 1 .. Len(polls)
    PROVE  /\ polls[i] \in Polls
           /\ polls[i].task \in TaskIds
           /\ polls[i].read \in {"nothing"} \cup RowStates
<1>1. polls[i] \in Polls
  BY ElementOfSeq DEF PageTypeOK
<1> QED
  BY <1>1 DEF Polls

\* The user's clicks and refused requests leave the polling alone.
LEMMA PostStep ==
    ASSUME PageInv, Click \/ Refused
    PROVE  PageInv'
<1> USE DEF PageInv, Show
<1>1. UNCHANGED <<polls, intervals, timer, current, disturbed>>
  BY DEF Click, Refused
<1>2. PICK t \in TaskIds : server[t] = "absent" /\ \A u \in TaskIds \ {t} : server'[u] = server[u]
  BY DEF Click, Refused, PageTypeOK, PollsAreOfTasks
<1>3. /\ PageTypeOK'
      /\ \A u \in posts' : server'[u] = "absent"
      /\ panel'.status \in {"starting", "not started"}
      /\ panel'.status = "starting" => posts' # {}
  <2>1. CASE Click
    BY <1>1, <2>1 DEF Click, PageTypeOK, PollsAreOfTasks
  <2>2. CASE Refused
    BY ZenonT(30), <1>1, <2>2 DEF Refused, PageTypeOK, RowStates, PollsAreOfTasks
  <2> QED
    BY <2>1, <2>2
<1>4. \A u \in TaskIds : server[u] \notin {"absent", "refused"} => server'[u] = server[u]
  BY <1>2
<1>5. current \in TaskIds \cup {NoTask}
  BY DEF PageTypeOK
<1>6. PollsAreOfTasks'
  BY <1>1, <1>3, <1>4, <1>5, PollAt DEF PollsAreOfTasks
<1>7. AnswersInOrder'
  BY <1>1 DEF AnswersInOrder
<1>8. StoppedByAnEnd'
  BY <1>1, <1>3, <1>4, <1>5 DEF StoppedByAnEnd, PollsAreOfTasks
<1> QED
  BY <1>3, <1>6, <1>7, <1>8 DEF StartingHasPost

\* An accepted capture has the only timer and the only poll of its task.
LEMMA AcceptedStep ==
    ASSUME PageInv, Accepted
    PROVE  PageInv'
<1> USE DEF PageInv
<1>1. PICK t \in posts :
          /\ posts' = posts \ {t}
          /\ server' = [server EXCEPT ![t] = "queued"]
          /\ intervals' = ClearTimer \cup {t}
          /\ timer' = t /\ current' = t
          /\ Show(t, "queued")
          /\ SendPoll(t)
  BY DEF Accepted
<1>2. /\ intervals' = {t} /\ t \in TaskIds /\ t # NoTask /\ server[t] = "absent"
      /\ server' \in [TaskIds -> RowStates] /\ server'[t] = "queued"
      /\ \A u \in TaskIds \ {t} : server'[u] = server[u]
  BY <1>1, NothingIsLeft, Constants DEF PageTypeOK, PollsAreOfTasks, RowStates
<1>3. /\ polls' \in Seq(Polls) /\ polls' # <<>>
      /\ Len(polls') = Len(polls) + 1 /\ Len(polls) \in Nat
      /\ \A i \in 1 .. Len(polls) : polls'[i] = polls[i]
      /\ polls'[Len(polls) + 1] = [task |-> t, read |-> "nothing"]
  BY <1>1, <1>2, PollSent
<1>4. disturbed' = FALSE
  BY DEF Accepted
<1>5. PageTypeOK'
  BY <1>1, <1>2, <1>3, <1>4 DEF PageTypeOK
<1>6. \A i \in 1 .. Len(polls) : polls[i].task \in TaskIds \ {t}
  BY <1>2, PollAt DEF PollsAreOfTasks
<1>7. PollsAreOfTasks'
  <2>1. /\ \A u \in posts' : server'[u] = "absent"
        /\ current' # NoTask => server'[current'] \notin {"absent", "refused"}
        /\ intervals' \subseteq {timer'} \cap {current'}
    BY <1>1, <1>2 DEF PollsAreOfTasks, PageTypeOK
  <2>2. ASSUME NEW i \in 1 .. Len(polls')
        PROVE  /\ server'[polls'[i].task] \notin {"absent", "refused"}
               /\ polls'[i].read \in Ended => server'[polls'[i].task] = polls'[i].read
    <3>1. CASE i = Len(polls) + 1
      BY <3>1, <1>2, <1>3, Constants
    <3>2. CASE i \in 1 .. Len(polls)
      BY <3>2, <1>2, <1>3, <1>6 DEF PollsAreOfTasks
    <3> QED
      BY <3>1, <3>2, <1>3
  <2> QED
    BY <2>1, <2>2 DEF PollsAreOfTasks
<1>8. AnswersInOrder'
  <2>1. \A i \in 1 .. Len(polls') : polls'[i].task = t => i = Len(polls) + 1
    BY <1>3, <1>6
  <2> QED
    BY <1>1, <1>3, <2>1 DEF AnswersInOrder
<1>9. StoppedByAnEnd' /\ StartingHasPost'
  BY <1>1, <1>2 DEF StoppedByAnEnd, StartingHasPost, Show
<1> QED
  BY <1>5, <1>7, <1>8, <1>9

\* A timer that fires adds a poll of the last task.
LEMMA PollAgainStep ==
    ASSUME PageInv, PollAgain
    PROVE  PageInv'
<1> USE DEF PageInv
<1>1. PICK t \in intervals : SendPoll(t)
  BY DEF PollAgain
<1>2. UNCHANGED <<server, posts, intervals, timer, panel, current, disturbed>>
  BY DEF PollAgain
<1>3. t = current /\ t \in TaskIds /\ t # NoTask
  BY Constants DEF PageTypeOK, PollsAreOfTasks
<1>4. /\ polls' \in Seq(Polls) /\ polls' # <<>>
      /\ Len(polls') = Len(polls) + 1 /\ Len(polls) \in Nat
      /\ \A i \in 1 .. Len(polls) : polls'[i] = polls[i]
      /\ polls'[Len(polls) + 1] = [task |-> t, read |-> "nothing"]
  BY <1>1, <1>3, PollSent
<1>5. PageTypeOK'
  BY <1>2, <1>4 DEF PageTypeOK
<1>6. PollsAreOfTasks'
  BY <1>2, <1>3, <1>4, Constants DEF PollsAreOfTasks
<1>7. AnswersInOrder'
  BY <1>2, <1>4 DEF AnswersInOrder
<1>8. StoppedByAnEnd' /\ StartingHasPost'
  BY <1>2, <1>3 DEF StoppedByAnEnd, StartingHasPost
<1> QED
  BY <1>5, <1>6, <1>7, <1>8

\* An answer reads the row; one out of order is a disturbance.
LEMMA AnswerStep ==
    ASSUME PageInv, Answer
    PROVE  PageInv'
<1> USE DEF PageInv
<1>1. PICK i \in 1 .. Len(polls) :
          /\ polls[i].read = "nothing"
          /\ polls' = [polls EXCEPT ![i].read = server[polls[i].task]]
          /\ disturbed' = (disturbed \/ \E j \in 1 .. i - 1 : polls[j].read = "nothing")
  BY LenProperties DEF Answer, PageTypeOK
<1>2. UNCHANGED <<server, posts, intervals, timer, panel, current>>
  BY DEF Answer
<1> DEFINE answered == [polls[i] EXCEPT !.read = server[polls[i].task]]
<1>3. /\ polls[i].task \in TaskIds /\ answered \in Polls
      /\ answered.task = polls[i].task /\ answered.read = server[polls[i].task]
  BY PollAt DEF PageTypeOK, Polls
<1>4. polls' = [polls EXCEPT ![i] = answered]
  BY <1>1
<1> HIDE DEF answered
<1>5. /\ polls' \in Seq(Polls) /\ Len(polls') = Len(polls)
      /\ \A j \in 1 .. Len(polls) : polls'[j] = IF j = i THEN answered ELSE polls[j]
  BY <1>3, <1>4, ExceptSeq DEF PageTypeOK
<1>6. PageTypeOK'
  BY <1>1, <1>2, <1>5 DEF PageTypeOK
<1>7. PollsAreOfTasks'
  BY <1>2, <1>3, <1>5 DEF PollsAreOfTasks
<1>8. AnswersInOrder'
  <2> SUFFICES ASSUME ~disturbed',
                      NEW h \in 1 .. Len(polls), NEW j \in 1 .. Len(polls), h < j,
                      polls'[j].task = current, polls'[j].read # "nothing"
               PROVE  /\ polls'[h].read # "nothing"
                      /\ polls'[h].task = current /\ polls'[h].read \in Ended
                            => polls'[j].read \in Ended
    BY <1>2, <1>5 DEF AnswersInOrder
  <2>1. ~disturbed /\ \A g \in 1 .. i - 1 : polls[g].read # "nothing"
    BY <1>1
  <2>2. answered.read # "nothing"
    BY <1>3, Constants DEF PageTypeOK
  <2>3. CASE j = i
    <3>1. h \in 1 .. i - 1 /\ polls'[h] = polls[h] /\ polls'[j] = answered
      BY <2>3, <1>5
    <3> QED
      BY <3>1, <2>1, <1>3 DEF PollsAreOfTasks
  <2>4. CASE h = i
    <3>1. polls'[j] = polls[j] /\ polls[j].read = "nothing"
      BY <2>1, <2>4, <1>1, <1>5 DEF AnswersInOrder
    <3> QED
      BY <3>1
  <2>5. CASE h # i /\ j # i
    BY <2>1, <2>5, <1>5 DEF AnswersInOrder
  <2> QED
    BY <2>3, <2>4, <2>5
<1>9. StoppedByAnEnd'
  <2> SUFFICES ASSUME ~disturbed'
               PROVE  /\ current # NoTask
                      /\ intervals = {} =>
                            /\ server[current] \in Ended
                            /\ \A j \in 1 .. Len(polls') :
                                  polls'[j].task = current =>
                                      polls'[j].read \in {"nothing"} \cup Ended
                            /\ \/ panel.status \in {"starting", "not started"}
                               \/ panel = [task |-> current, status |-> server[current]]
    BY <1>2 DEF StoppedByAnEnd
  <2>0. Len(<<>>) = 0
    OBVIOUS
  <2>1. ~disturbed /\ polls # <<>>
    <3>1. ~disturbed
      BY <1>1
    <3>2. polls # <<>>
      BY <2>0
    <3> QED
      BY <3>1, <3>2
  <2>2. current # NoTask
    BY <2>1 DEF StoppedByAnEnd
  <2>3. ASSUME intervals = {}, NEW j \in 1 .. Len(polls'), polls'[j].task = current
        PROVE  polls'[j].read \in {"nothing"} \cup Ended
    BY <2>1, <2>2, <2>3, <1>3, <1>5 DEF StoppedByAnEnd
  <2> QED
    BY <2>1, <2>2, <2>3 DEF StoppedByAnEnd
<1>10. StartingHasPost'
  BY <1>2 DEF StartingHasPost
<1> QED
  BY <1>6, <1>7, <1>8, <1>9, <1>10

\* An answer that arrives is shown, and stops the polling when it is an end.
LEMMA ReceiveStep ==
    ASSUME PageInv, Receive
    PROVE  PageInv'
<1> USE DEF PageInv
<1>1. PICK i \in 1 .. Len(polls) :
          /\ polls[i].read # "nothing"
          /\ Show(polls[i].task, polls[i].read)
          /\ polls' = RemoveAt(polls, i)
          /\ IF polls[i].read \in TerminalShown
             THEN StopPolling ELSE UNCHANGED <<intervals, timer>>
          /\ disturbed' = (disturbed \/ i # 1 \/ polls[i].task # current)
  BY LenProperties DEF Receive, PageTypeOK
<1>2. UNCHANGED <<server, posts, current>>
  BY DEF Receive
<1>3. /\ polls' \in Seq(Polls) /\ Len(polls') = Len(polls) - 1 /\ Len(polls) \in Nat
      /\ \A j \in 1 .. Len(polls) - 1 : polls'[j] = IF j < i THEN polls[j] ELSE polls[j + 1]
  BY <1>1, RemoveAtOfSeq, LenProperties DEF PageTypeOK
<1>4. IF polls[i].read \in Ended THEN intervals' = {} /\ timer' = NoTask
      ELSE UNCHANGED <<intervals, timer>>
  BY <1>1, NothingIsLeft, Constants DEF StopPolling
<1>5. PageTypeOK'
  BY <1>1, <1>2, <1>3, <1>4 DEF PageTypeOK
<1>6. PollsAreOfTasks'
  BY <1>2, <1>3, <1>4 DEF PollsAreOfTasks
<1>7. AnswersInOrder'
  <2> SUFFICES ASSUME ~disturbed',
                      NEW h \in 1 .. Len(polls'), NEW j \in 1 .. Len(polls'), h < j,
                      polls'[j].task = current, polls'[j].read # "nothing"
               PROVE  /\ polls'[h].read # "nothing"
                      /\ polls'[h].task = current /\ polls'[h].read \in Ended
                            => polls'[j].read \in Ended
    BY <1>2 DEF AnswersInOrder
  <2>1. ~disturbed /\ i = 1
    BY <1>1
  <2>2. /\ h + 1 \in 1 .. Len(polls) /\ j + 1 \in 1 .. Len(polls) /\ h + 1 < j + 1
        /\ polls'[h] = polls[h + 1] /\ polls'[j] = polls[j + 1]
    BY <1>3, <2>1
  <2> QED
    BY <2>1, <2>2 DEF AnswersInOrder
<1>8. panel' = [task |-> polls[i].task, status |-> polls[i].read]
  BY <1>1 DEF Show
<1>9. StoppedByAnEnd'
  <2> SUFFICES ASSUME ~disturbed'
               PROVE  IF current = NoTask
                      THEN FALSE
                      ELSE intervals' = {} =>
                              /\ server[current] \in Ended
                              /\ \A j \in 1 .. Len(polls') :
                                    polls'[j].task = current =>
                                        polls'[j].read \in {"nothing"} \cup Ended
                              /\ panel' = [task |-> current, status |-> server[current]]
    BY <1>2 DEF StoppedByAnEnd
  <2>1. ~disturbed /\ i = 1 /\ polls[i].task = current
    BY <1>1
  <2>2. current \in TaskIds /\ current # NoTask
    BY <2>1, PollAt, Constants
  <2>3. ASSUME intervals' = {}
        PROVE  polls[i].read \in Ended
    BY <1>1, <1>4, <2>1, <2>2, <2>3 DEF StoppedByAnEnd
  <2>4. polls[i].read \in Ended => server[current] = polls[i].read
    BY <2>1 DEF PollsAreOfTasks
  <2>5. ASSUME polls[i].read \in Ended,
               NEW j \in 1 .. Len(polls'), polls'[j].task = current
        PROVE  polls'[j].read \in {"nothing"} \cup Ended
    <3>1. polls'[j] = polls[j + 1] /\ j + 1 \in 1 .. Len(polls) /\ i < j + 1
      BY <1>3, <2>1
    <3> QED
      BY <3>1, <2>1, <2>5 DEF AnswersInOrder
  <2> QED
    BY <1>8, <2>1, <2>2, <2>3, <2>4, <2>5
<1>10. StartingHasPost'
  <2>1. polls[i].read \in RowStates
    BY <1>1, PollAt
  <2> QED
    BY <1>8, <2>1 DEF StartingHasPost, RowStates, Ended
<1> QED
  BY <1>5, <1>6, <1>7, <1>9, <1>10

\* A poll that fails stops the polling; that is a disturbance.
LEMMA FailStep ==
    ASSUME PageInv, Fail
    PROVE  PageInv'
<1> USE DEF PageInv
<1>1. PICK i \in 1 .. Len(polls) :
          /\ Show(polls[i].task, "error")
          /\ polls' = RemoveAt(polls, i)
  BY LenProperties DEF Fail, PageTypeOK
<1>2. UNCHANGED <<server, posts, current>> /\ disturbed' = TRUE
  BY DEF Fail
<1>3. /\ polls' \in Seq(Polls) /\ Len(polls') = Len(polls) - 1 /\ Len(polls) \in Nat
      /\ \A j \in 1 .. Len(polls) - 1 : polls'[j] = IF j < i THEN polls[j] ELSE polls[j + 1]
  BY <1>1, RemoveAtOfSeq, LenProperties DEF PageTypeOK
<1>4. intervals' = {} /\ timer' = NoTask
  BY NothingIsLeft DEF Fail, StopPolling
<1>5. PageTypeOK'
  BY <1>2, <1>3, <1>4 DEF PageTypeOK
<1>6. PollsAreOfTasks'
  BY <1>2, <1>3, <1>4 DEF PollsAreOfTasks
<1>7. AnswersInOrder' /\ StoppedByAnEnd' /\ StartingHasPost'
  BY <1>1, <1>2 DEF AnswersInOrder, StoppedByAnEnd, StartingHasPost, Show
<1> QED
  BY <1>5, <1>6, <1>7

\* A row that has ended is not written again.
LEMMA WorkStep ==
    ASSUME PageInv, Work
    PROVE  PageInv'
<1> USE DEF PageInv
<1>1. UNCHANGED <<posts, polls, intervals, timer, panel, current, disturbed>>
  BY DEF Work
<1>2. /\ server' \in [TaskIds -> RowStates]
      /\ \A t \in TaskIds :
            /\ server[t] \in Ended \cup {"absent"} => server'[t] = server[t]
            /\ server[t] \notin {"absent", "refused"} => server'[t] \notin {"absent", "refused"}
  BY DEF Work, PageTypeOK, RowStates, Ended
<1>3. PageTypeOK'
  BY <1>1, <1>2 DEF PageTypeOK
<1>4. PollsAreOfTasks'
  BY <1>1, <1>2, PollAt DEF PollsAreOfTasks, PageTypeOK
<1>5. AnswersInOrder' /\ StartingHasPost'
  BY <1>1 DEF AnswersInOrder, StartingHasPost
<1>6. StoppedByAnEnd'
  BY <1>1, <1>2 DEF StoppedByAnEnd, PageTypeOK
<1> QED
  BY <1>3, <1>4, <1>5, <1>6

\* The invariant holds in every behaviour of the two clients.
THEOREM PageInvariant == Spec => []PageInv
<1>1. Init => PageInv
  BY PageInvInit DEF Init
<1>2. ASSUME PageInv, [Next]_allVars
      PROVE  PageInv'
  <2>1. CASE PageNext
    BY <2>1, <1>2, PostStep, AcceptedStep, PollAgainStep, AnswerStep, ReceiveStep, FailStep,
       WorkStep DEF PageNext, Network
  <2>2. CASE UNCHANGED pageVars
    BY <2>2, <1>2 DEF pageVars, PageInv, PageTypeOK, PollsAreOfTasks, AnswersInOrder,
       StoppedByAnEnd, StartingHasPost
  <2> QED
    BY <2>1, <2>2, <1>2 DEF Next, Streaming, Polling, allVars
<1> QED
  BY <1>1, <1>2, PTL DEF Spec

\* However the answers of several captures interleave, no timer is out of reach of
\* stopCaptureStatusPolling.
THEOREM OneTimerCorrect == Spec => []OneTimer
<1>1. PageInv => OneTimer
  BY DEF PageInv, PollsAreOfTasks, OneTimer
<1> QED
  BY <1>1, PageInvariant, PTL

\* Undisturbed, the panel ends on the end of the capture that was started last
\* (pollCaptureStatus).
THEOREM PanelCorrect == Spec => []PanelIsRight
<1>1. PageInv => PanelIsRight
  <2> SUFFICES ASSUME PageInv, posts = {}, polls = <<>>, intervals = {}, ~disturbed
               PROVE  \/ panel.status \in {"ready", "not started"}
                      \/ /\ panel = [task |-> current, status |-> server[current]]
                         /\ panel.status \in Ended
    BY DEF PanelIsRight
  <2>1. panel.status # "starting"
    BY DEF PageInv, StartingHasPost
  <2>2. \/ panel.status \in {"ready", "starting", "not started"}
        \/ /\ panel = [task |-> current, status |-> server[current]]
           /\ server[current] \in Ended
    BY DEF PageInv, StoppedByAnEnd
  <2>3. panel = [task |-> current, status |-> server[current]]
            => panel.status = server[current]
    OBVIOUS
  <2>4. CASE panel = [task |-> current, status |-> server[current]] /\ server[current] \in Ended
    BY <2>3, <2>4, Zenon
  <2> QED
    BY <2>1, <2>2, <2>4
<1> QED
  BY <1>1, PageInvariant, PTL
=============================================================================
