---------------------------- MODULE HostArtifacts ----------------------------
(***************************************************************************)
(* The artifact files of one host: captures that overwrite them in place,   *)
(* command by command, and a report (detail, summary, diff or export) that  *)
(* lists and reads them meanwhile.  Captures of one host do not overlap     *)
(* (CaptureSystem, SameHostExclusion), so there is one at a time.           *)
(* Opening a file for writing truncates it; that, the writing, and each     *)
(* read are actions.  A crash of the process ends all of them.              *)
(***************************************************************************)
EXTENDS DiffStatus, FiniteSets

CONSTANTS
    Profiles,      \* the command lists, as sets, a profile may have over time
    Colliding,     \* commands that _sanitize maps to one file name
    Texts,         \* what a device may answer, without a marker
    Markers,       \* statuses that an answer may name in an UNAVAILABLE marker
    MaxCaptures,   \* bound on the captures of the host
    MaxCrashes,    \* bound on crashes
    StorageFaults  \* files may fail to be written or read

Commands == UNION Profiles

ASSUME ArtifactAssumption ==
    /\ Colliding \subseteq Commands /\ IsFiniteSet(Commands)
    /\ {MaxCaptures, MaxCrashes} \subseteq Nat
    /\ StorageFaults \in BOOLEAN

Outputs == {Plain(body) : body \in Texts} \cup {MarkedAs(status) : status \in Markers}

\* What may be on file while an output is being written: nothing, or a part of it,
\* which may begin with a part of a marker.
Parts == {Empty, Plain("part")} \cup {MarkedAs(status) : status \in Markers}

Bases    == {"origin", "dest"}
Captures == 1 .. MaxCaptures

\* _sanitize: a key is named after one of the commands that map to it.
KeyOf(c) == IF c \in Colliding THEN CHOOSE k \in Colliding : TRUE ELSE c
Keys     == {KeyOf(c) : c \in Commands}

VARIABLES
    files,    \* the file of each base and key
    run,      \* the capture task that is running for the host
    capture,  \* history: base, commands and outcome of each capture
    reader,   \* the report in progress
    crashes

vars == <<files, run, capture, reader, crashes>>

NoFile == [by |-> 0, turn |-> 0, command |-> "none", whole |-> TRUE, text |-> Empty]
Exists(f) == f.by # 0

\* The file system's timestamp: a capture truncates a file, then fills it, for
\* each of its commands that has the key in turn.
Mtime(f) ==
    IF Exists(f)
    THEN 2 * (f.by * (1 + Cardinality(Commands)) + f.turn) + (IF f.whole THEN 1 ELSE 0)
    ELSE 0

\* pc: the row is running unless "idle"; "orphan" after a crash.
IdleRun    == [pc |-> "idle", by |-> 0, todo |-> {}, command |-> "none"]
IdleReader == [pc |-> "idle", running |-> {}, since |-> 0, keys |-> {}, key |-> "none",
               origin |-> NotFound, dest |-> NotFound,
               read |-> [b \in Bases |-> 0], mtime |-> [b \in Bases |-> 0]]
NoCapture  == [base |-> "origin", commands |-> {}, outcome |-> "none"]

Init ==
    /\ files = [b \in Bases |-> [k \in Keys |-> NoFile]]
    /\ run = IdleRun
    /\ capture = [v \in Captures |-> NoCapture]
    /\ reader = IdleReader
    /\ crashes = 0
-----------------------------------------------------------------------------
(* A capture of the host.                                                   *)

\* A task that has the host is claimed; the commands are those of the profile
\* that is loaded now (none at all is possible).
Start ==
    /\ run.pc = "idle"
    /\ \E v \in Captures, b \in Bases, commands \in Profiles :
          /\ capture[v].outcome = "none"
          /\ \A u \in Captures : u < v => capture[u].outcome # "none"
          /\ capture' = [capture EXCEPT ![v] =
                 [base |-> b, commands |-> commands, outcome |-> "open"]]
          /\ run' = [IdleRun EXCEPT !.pc = "fetch", !.by = v]
    /\ UNCHANGED <<files, reader, crashes>>

Outcome(outcome) == capture' = [capture EXCEPT ![run.by].outcome = outcome]

\* All commands are sent before anything is written; a failure writes nothing.
Fetch ==
    /\ run.pc = "fetch"
    /\ \/ /\ run' = [run EXCEPT !.pc = "write", !.todo = capture[run.by].commands]
          /\ UNCHANGED capture
       \/ /\ Outcome("failed")
          /\ run' = [run EXCEPT !.pc = "done"]
    /\ UNCHANGED <<files, reader, crashes>>

\* write_text opens the file, which empties it.
Truncate ==
    /\ run.pc = "write"
    /\ \E c \in run.todo :
          /\ files' = [files EXCEPT ![capture[run.by].base][KeyOf(c)] =
                 [by |-> run.by, turn |-> IF @.by = run.by THEN @.turn + 1 ELSE 1,
                  command |-> c, whole |-> FALSE, text |-> Empty]]
          /\ run' = [run EXCEPT !.pc = "fill", !.command = c]
    /\ UNCHANGED <<capture, reader, crashes>>

Fill ==
    /\ run.pc = "fill"
    /\ \E text \in Outputs :
          files' = [files EXCEPT ![capture[run.by].base][KeyOf(run.command)] =
              [@ EXCEPT !.by = run.by, !.command = run.command, !.whole = TRUE, !.text = text]]
    /\ run' = [run EXCEPT !.pc = "write", !.todo = @ \ {run.command}, !.command = "none"]
    /\ UNCHANGED <<capture, reader, crashes>>

\* Mutant of StorageFault: the failed command is skipped and the host goes on.
StorageFaultIgnored ==
    /\ StorageFaults
    /\ run.pc = "fill"
    /\ run' = [run EXCEPT !.pc = "write", !.todo = @ \ {run.command}, !.command = "none"]
    /\ UNCHANGED <<files, capture, reader, crashes>>

\* ArtifactStorageError: the host is recorded as failed, and the files that were
\* already overwritten stay so.
StorageFault ==
    /\ StorageFaults
    /\ run.pc \in {"write", "fill"} /\ run.todo # {}
    /\ Outcome("failed")
    /\ run' = [run EXCEPT !.pc = "done", !.todo = {}, !.command = "none"]
    /\ UNCHANGED <<files, reader, crashes>>

\* Mutant of RecordOk: the host is recorded before the last file is written.
RecordOkEarly ==
    /\ run.pc = "write" /\ Cardinality(run.todo) <= 1
    /\ Outcome("ok")
    /\ run' = [run EXCEPT !.pc = "done", !.todo = {}]
    /\ UNCHANGED <<files, reader, crashes>>

RecordOk ==
    /\ run.pc = "write" /\ run.todo = {}
    /\ Outcome("ok")
    /\ run' = [run EXCEPT !.pc = "done"]
    /\ UNCHANGED <<files, reader, crashes>>

\* The rest of the task, other hosts included, and the terminal update.
EndTask ==
    /\ run.pc = "done"
    /\ run' = IdleRun
    /\ UNCHANGED <<files, capture, reader, crashes>>

Crash ==
    /\ crashes < MaxCrashes
    /\ crashes' = crashes + 1
    /\ IF run.pc \in {"idle", "orphan"}
       THEN UNCHANGED <<run, capture>>
       ELSE /\ run' = [IdleRun EXCEPT !.pc = "orphan", !.by = run.by]
            /\ IF capture[run.by].outcome = "open" THEN Outcome("lost") ELSE UNCHANGED capture
    /\ reader' = IdleReader
    /\ UNCHANGED files

\* Start-up fails the running row; no file is looked at.
Recover ==
    /\ run.pc = "orphan"
    /\ run' = IdleRun
    /\ UNCHANGED <<files, capture, reader, crashes>>
-----------------------------------------------------------------------------
(* A report over the files.                                                 *)

Started == {v \in Captures : capture[v].outcome # "none"}

\* Mutant of ReadRunning: running captures of dest are not looked for.
ReadRunningOrigin ==
    /\ reader.pc = "idle"
    /\ reader' = [reader EXCEPT !.pc = "list origin",
                      !.running = IF run.pc = "idle" THEN {}
                                  ELSE {capture[run.by].base} \cap {"origin"},
                      !.since = Cardinality(Started)]
    /\ UNCHANGED <<files, run, capture, crashes>>

\* The summary begins with the running rows, to tell a missing file from one
\* that is on its way.
ReadRunning ==
    /\ reader.pc = "idle"
    /\ reader' = [reader EXCEPT !.pc = "list origin",
                      !.running = IF run.pc = "idle" THEN {} ELSE {capture[run.by].base},
                      !.since = Cardinality(Started)]
    /\ UNCHANGED <<files, run, capture, crashes>>

\* list_command_keys of one base, then of the other.
ListKeys(b, pc, next) ==
    /\ reader.pc = pc
    /\ reader' = [reader EXCEPT !.pc = next,
                      !.keys = @ \cup {k \in Keys : Exists(files[b][k])}]
    /\ UNCHANGED <<files, run, capture, crashes>>

ListOrigin == ListKeys("origin", "list origin", "list dest")
ListDest   == ListKeys("dest", "list dest", "keys")

\* The next key of the listing, in a fixed order; with none left the report is returned.
NextKey ==
    /\ reader.pc \in {"keys", "row"}
    /\ IF reader.keys = {}
       THEN reader' = IdleReader
       ELSE LET k == CHOOSE first \in reader.keys : TRUE IN
            reader' = [IdleReader EXCEPT !.pc = "read origin", !.key = k,
                          !.running = reader.running, !.since = reader.since,
                          !.keys = reader.keys \ {k}]
    /\ UNCHANGED <<files, run, capture, crashes>>

\* read_output_by_key: a file that is being written gives a part of its text.
ReadResults(f) ==
    IF ~Exists(f) THEN {NotFound}
    ELSE {ReadOf(text) : text \in IF f.whole THEN {f.text} ELSE Parts}
             \cup (IF StorageFaults THEN {Unread} ELSE {})

ReadOrigin ==
    /\ reader.pc = "read origin"
    /\ \E result \in ReadResults(files["origin"][reader.key]) :
          reader' = [reader EXCEPT !.pc = "read dest", !.origin = result,
                        !.read["origin"] = Mtime(files["origin"][reader.key])]
    /\ UNCHANGED <<files, run, capture, crashes>>

ReadDest ==
    /\ reader.pc = "read dest"
    /\ \E result \in ReadResults(files["dest"][reader.key]) :
          reader' = [reader EXCEPT !.pc = "stat", !.dest = result,
                        !.read["dest"] = Mtime(files["dest"][reader.key])]
    /\ UNCHANGED <<files, run, capture, crashes>>

\* Mutant of StatFiles: both timestamps are those of the origin file.
StatFilesOrigin ==
    /\ reader.pc = "stat"
    /\ reader' = [reader EXCEPT !.pc = "row",
                      !.mtime = [b \in Bases |-> Mtime(files["origin"][reader.key])]]
    /\ UNCHANGED <<files, run, capture, crashes>>

\* The timestamps are taken after the texts.
StatFiles ==
    /\ reader.pc = "stat"
    /\ reader' = [reader EXCEPT !.pc = "row",
                      !.mtime = [b \in Bases |-> Mtime(files[b][reader.key])]]
    /\ UNCHANGED <<files, run, capture, crashes>>

\* captured, running or not_captured, for a row of the summary.
CaptureStatusEntry(b) ==
    IF reader.mtime[b] # 0 THEN "captured"
    ELSE IF b \in reader.running THEN "running"
    ELSE "not_captured"
-----------------------------------------------------------------------------
CaptureStep ==
    Start \/ Fetch \/ Truncate \/ Fill \/ StorageFault \/ RecordOk \/ EndTask \/ Recover
ReportStep ==
    \/ ReadRunning \/ ListOrigin \/ ListDest \/ NextKey
    \/ ReadOrigin \/ ReadDest \/ StatFiles

Next == CaptureStep \/ ReportStep \/ Crash

Spec == Init /\ [][Next]_vars
-----------------------------------------------------------------------------
(* Properties.                                                              *)

\* The latest capture of a base that touched its files.
Latest(b) ==
    LET touched == {files[b][k].by : k \in Keys} IN
    CHOOSE v \in touched : \A u \in touched : u <= v

\* The result of a task can be trusted: when a host is recorded as captured, the
\* file of each of its commands is there, complete, and the output of that
\* command in that capture, until a later capture of the base writes.  Of two
\* commands of one capture that share a file, the output of one is there.
OkHostIsOnFile ==
    \A v \in Captures :
        LET cap == capture[v] IN
        cap.outcome = "ok" /\ Latest(cap.base) <= v =>
            \A c \in cap.commands :
                LET f == files[cap.base][KeyOf(c)] IN
                /\ f.by = v /\ f.whole
                /\ f.command \in {d \in cap.commands : KeyOf(d) = KeyOf(c)}

\* A truncated file that nobody is writing was left by a capture whose host is
\* not recorded as captured.
TornHasCause ==
    \A b \in Bases, k \in Keys :
        LET f == files[b][k] IN
        Exists(f) /\ ~f.whole =>
            \/ run.pc = "fill" /\ run.by = f.by /\ KeyOf(run.command) = k
            \/ capture[f.by].outcome \in {"failed", "lost"}

AtRow == reader.pc = "row"

\* The reported timestamp is never older than the text that was compared.
TimestampNotOlder ==
    AtRow => \A b \in Bases : reader.mtime[b] >= reader.read[b]

\* A row says "not_captured" of a command only if every capture that has it on
\* record began after the report: one that was running then is seen as running,
\* one that had ended has left its file.
NotCapturedIsTrue ==
    AtRow => \A b \in Bases : CaptureStatusEntry(b) = "not_captured" =>
        \A v \in Captures :
            /\ capture[v].outcome = "ok" /\ capture[v].base = b
            /\ reader.key \in {KeyOf(c) : c \in capture[v].commands}
            => v > reader.since

\* The file of a base has not been written since the report read it.
Untouched(b) ==
    LET f == files[b][reader.key] IN Exists(f) /\ f.whole /\ Mtime(f) = reader.read[b]

\* No endpoint counts a pair as identical whose files, if neither was touched since,
\* hold different outputs: not of a torn read, nor of a marker that names a status,
\* nor of two outputs that begin alike (compute_diff, compute_diff_status).
IdenticalIsTrue ==
    /\ AtRow /\ \A b \in Bases : Untouched(b)
    /\ "identical" \in Categories(reader.origin, reader.dest)
    => files["origin"][reader.key].text = files["dest"][reader.key].text

\* The converse, which the docstring of compute_diff_status states: two outputs that
\* were read, and have no difference, are identical for every endpoint.  Two empty
\* outputs have no segment at all.
EqualIsIdentical ==
    /\ AtRow /\ \A b \in Bases : Untouched(b)
    /\ Both(reader.origin, reader.dest, "available")
    /\ files["origin"][reader.key].text = files["dest"][reader.key].text
    => Categories(reader.origin, reader.dest) = {"identical"}
=============================================================================
