------------------------- MODULE HostArtifactsProofs -------------------------
(***************************************************************************)
(* Theorems about HostArtifacts and DiffStatus, for any profiles, outputs,  *)
(* number of captures and number of crashes.                                *)
(***************************************************************************)
EXTENDS HostArtifacts, FiniteSetTheorems, WellFoundedInduction, TLAPS

-----------------------------------------------------------------------------
(* The inductive invariant: types.                                          *)

Bodies   == Outputs \cup Parts
Outcomes == {"none", "open", "ok", "failed", "lost"}
Files    == [by: {0} \cup Captures, turn: Nat, command: Commands \cup {"none"},
             whole: BOOLEAN, text: Bodies]
Runs     == [pc: {"idle", "fetch", "write", "fill", "done", "orphan"},
             by: {0} \cup Captures, todo: SUBSET Commands, command: Commands \cup {"none"}]
Statuses == {"available", "error", "not_found"} \cup Markers
Results  == [status: Statuses, text: Bodies]
Readers  == [pc: {"idle", "list origin", "list dest", "keys", "read origin", "read dest",
                  "stat", "row"},
             running: SUBSET Bases, since: Nat, keys: SUBSET Keys, key: Keys \cup {"none"},
             origin: Results, dest: Results,
             read: [Bases -> Nat], mtime: [Bases -> Nat]]

ArtifactTypeOK ==
    /\ files \in [Bases -> [Keys -> Files]]
    /\ run \in Runs
    /\ capture \in [Captures -> [base: Bases, commands: SUBSET Commands, outcome: Outcomes]]
    /\ reader \in Readers

(* The capture that runs, and those before it.                              *)

Active == {"fetch", "write", "fill"}

\* Captures start in order; the one that runs is the latest, and it alone is open.
RunIsLatest ==
    /\ \A u, v \in Captures :
          u < v /\ capture[v].outcome # "none" => capture[u].outcome # "none"
    /\ run.pc # "idle" =>
          /\ run.by \in Captures /\ capture[run.by].outcome # "none"
          /\ \A v \in Captures : v > run.by => capture[v].outcome = "none"
    /\ \A v \in Captures : capture[v].outcome = "open" => run.by = v /\ run.pc \in Active
    /\ run.pc \in Active => capture[run.by].outcome = "open"
    /\ run.todo \subseteq (IF run.pc \in {"write", "fill"} THEN capture[run.by].commands ELSE {})
    /\ run.pc = "fill" =>
          run.command \in run.todo
          /\ files[capture[run.by].base][KeyOf(run.command)].by = run.by
          /\ ~files[capture[run.by].base][KeyOf(run.command)].whole

\* The commands whose file the capture that runs has opened.
Opened ==
    CASE run.pc = "write" -> capture[run.by].commands \ run.todo
      [] run.pc = "fill"  -> capture[run.by].commands \ (run.todo \ {run.command})
      [] OTHER            -> {}

\* A file was written by a capture of its base, for one of its commands; it is
\* whole unless it is being filled or its capture did not end well.
FileHasCause(b, k) ==
    LET f == files[b][k] IN
    Exists(f) =>
        /\ capture[f.by].outcome # "none" /\ capture[f.by].base = b
        /\ f.command \in capture[f.by].commands /\ KeyOf(f.command) = k
        /\ f.turn \in 1 .. Cardinality(Commands)
        /\ run.pc \in Active /\ f.by = run.by => f.turn <= Cardinality(Opened)
        /\ ~f.whole =>
              \/ run.pc = "fill" /\ run.by = f.by /\ KeyOf(run.command) = k
              \/ capture[f.by].outcome \in {"failed", "lost"}
FilesHaveCause == \A b \in Bases, k \in Keys : FileHasCause(b, k)

\* The files of the commands that a capture has opened, all of them once it is
\* recorded as ok, are no older than it.
WrittenIsThere ==
    /\ \A v \in Captures : capture[v].outcome = "ok" =>
          \A c \in capture[v].commands : files[capture[v].base][KeyOf(c)].by >= v
    /\ \A c \in Opened : files[capture[run.by].base][KeyOf(c)].by = run.by

(* The report.                                                              *)

\* The key that is read is one of the host's.
KeyIsRead == reader.pc \in {"read origin", "read dest", "stat", "row"} => reader.key \in Keys

\* The bases that have been read, and what was read of each.
HaveRead  == CASE reader.pc = "read dest"       -> {"origin"}
               [] reader.pc \in {"stat", "row"} -> Bases
               [] OTHER                         -> {}
Result(b) == IF b = "origin" THEN reader.origin ELSE reader.dest

\* What was read is no newer than the file, and then than the time reported; while
\* the file is not touched it is what is on file.
ReadIsOfFile ==
    /\ \A b \in HaveRead :
          /\ reader.read[b] <= Mtime(files[b][reader.key])
          /\ Untouched(b) =>
                \/ Result(b).status = "error"
                \/ Result(b).text = files[b][reader.key].text
    /\ reader.pc = "row" => \A b \in Bases : reader.read[b] <= reader.mtime[b]

\* The captures that had started before the report are those of the first numbers;
\* one that is still open was seen running.
RunningIsSeen ==
    /\ \A v \in Captures : v <= reader.since =>
          /\ capture[v].outcome # "none"
          /\ capture[v].outcome = "open" => capture[v].base \in reader.running
    /\ reader.pc = "row" =>
          \A v \in Captures : v <= reader.since /\ capture[v].outcome = "ok" =>
              \/ capture[v].base \in reader.running
              \/ reader.mtime[capture[v].base] # 0
              \/ reader.key \notin {KeyOf(c) : c \in capture[v].commands}

CaptureInv == RunIsLatest /\ FilesHaveCause /\ WrittenIsThere
ReportInv  == KeyIsRead /\ ReadIsOfFile /\ RunningIsSeen
ArtifactInv == ArtifactTypeOK /\ CaptureInv /\ ReportInv

\* What a step may do to the files and to the history: a file that changes gets a
\* later time; a capture keeps its base and commands, and
\* ends once.
FilesGrow ==
    \A b \in Bases, k \in Keys :
        \/ files'[b][k] = files[b][k]
        \/ Mtime(files[b][k]) < Mtime(files'[b][k])

HistoryKept ==
    \A v \in Captures : capture[v].outcome # "none" =>
        /\ capture'[v].base = capture[v].base /\ capture'[v].commands = capture[v].commands
        /\ capture'[v].outcome # "none"
        /\ capture'[v].outcome = "open" => capture[v].outcome = "open"
        /\ capture'[v].outcome = "ok" => capture[v].outcome \in {"open", "ok"}

-----------------------------------------------------------------------------
(* Keys and times.                                                          *)

\* A command has a key.
LEMMA KeysOfCommands == \A c \in Commands : KeyOf(c) \in Keys
BY DEF Keys

\* Every set of commands is finite, with no more elements than there are commands.
LEMMA CommandSets ==
    ASSUME NEW S \in SUBSET Commands
    PROVE  /\ IsFiniteSet(S) /\ Cardinality(S) \in Nat
           /\ Cardinality(Commands) \in Nat /\ Cardinality(S) <= Cardinality(Commands)
BY ArtifactAssumption, FS_Subset, FS_CardinalityType

\* A file that a later capture writes, or the same one in a later turn, or that is
\* filled in its turn, is newer: turns stop at the number of commands.
LEMMA MtimeGrows ==
    ASSUME NEW f \in Files, NEW g \in Files,
           f.by # 0 => f.turn <= Cardinality(Commands),
           f.by # 0 =>
               \/ g.by > f.by /\ g.turn > 0
               \/ g.by = f.by /\ g.turn > f.turn
               \/ g.by = f.by /\ g.turn = f.turn /\ ~f.whole /\ g.whole,
           g.by # 0 /\ g.turn > 0
    PROVE  Mtime(f) < Mtime(g)
<1> DEFINE n == 1 + Cardinality(Commands)
           m(h) == 2 * (h.by * n + h.turn) + (IF h.whole THEN 1 ELSE 0)
<1>1. n \in Nat /\ n > 0 /\ Captures \subseteq Nat
  BY CommandSets, ArtifactAssumption DEF Captures
<1>2. /\ f.by \in Nat /\ g.by \in Nat /\ f.turn \in Nat /\ g.turn \in Nat
      /\ f.by # 0 => f.turn < n
  BY <1>1, CommandSets, ArtifactAssumption DEF Files, Captures
<1>3. f.by * n \in Nat /\ g.by * n \in Nat
  BY <1>1, <1>2
<1>4. CASE f.by = 0
  <2>1. Mtime(f) = 0
    BY <1>4 DEF Mtime, Exists
  <2>2. Mtime(g) = m(g)
    BY DEF Mtime, Exists
  <2> QED
    BY <1>2, <1>3, <2>1, <2>2
<1>5. CASE f.by # 0
  <2>1. g.by # 0 /\ Mtime(f) = m(f) /\ Mtime(g) = m(g)
    BY <1>2, <1>5 DEF Mtime, Exists
  <2>2. CASE g.by > f.by /\ g.turn > 0
    <3>1. g.by * n >= (f.by + 1) * n
      <4>1. PICK d \in Nat : g.by = (f.by + 1) + d
        <5>1. g.by - (f.by + 1) \in Nat
          BY <1>2, <2>2
        <5> QED
          BY <1>2, <5>1
      <4>2. g.by * n = (f.by + 1) * n + d * n /\ d * n \in Nat
        BY <1>1, <1>2, <4>1
      <4> QED
        BY <1>1, <1>2, <1>3, <4>2
    <3>2. (f.by + 1) * n = f.by * n + n
      BY <1>1, <1>2
    <3> HIDE DEF n
    <3>3. g.by * n + g.turn > f.by * n + f.turn
      BY <1>1, <1>2, <1>3, <1>5, <2>2, <3>1, <3>2
    <3> QED
      BY <1>2, <1>3, <2>1, <3>3
  <2>3. CASE g.by = f.by /\ g.turn > f.turn
    BY <1>2, <1>3, <2>1, <2>3
  <2>4. CASE g.by = f.by /\ g.turn = f.turn /\ ~f.whole /\ g.whole
    BY <1>2, <1>3, <2>1, <2>4
  <2> QED
    BY <1>5, <2>2, <2>3, <2>4
<1> QED
  BY <1>4, <1>5

\* The files of the host are files.
LEMMA FileAt ==
    ASSUME ArtifactTypeOK, NEW b \in Bases, NEW k \in Keys
    PROVE  files[b][k] \in Files
BY DEF ArtifactTypeOK

\* The time of a file that is there is not 0.
LEMMA MtimeOfFile ==
    ASSUME NEW f \in Files
    PROVE  /\ Mtime(f) \in Nat
           /\ Exists(f) => Mtime(f) # 0
<1> DEFINE n == 1 + Cardinality(Commands)
<1>1. n \in Nat /\ n > 0 /\ f.by \in Nat /\ f.turn \in Nat
  BY CommandSets, ArtifactAssumption DEF Files, Captures
<1>2. f.by * n \in Nat
  BY <1>1
<1>3. f.by # 0 => f.by * n > 0
  BY <1>1
<1> HIDE DEF n
<1>4. CASE Exists(f)
  <2>1. Mtime(f) = 2 * (f.by * n + f.turn) + (IF f.whole THEN 1 ELSE 0)
    BY <1>4 DEF Mtime, n
  <2> QED
    BY <1>1, <1>2, <1>3, <1>4, <2>1 DEF Exists
<1>5. CASE ~Exists(f)
  BY <1>5 DEF Mtime
<1> QED
  BY <1>4, <1>5
-----------------------------------------------------------------------------
(* A step of the capture, or none, leaves the report right.                 *)

\* While files only grow and captures only end, what a report relies on holds.
LEMMA ReportKept ==
    ASSUME ArtifactTypeOK, ArtifactTypeOK', ReportInv, reader' = reader, FilesGrow, HistoryKept
    PROVE  ReportInv'
<1> USE DEF ReportInv
<1>1. /\ {"origin", "dest"} = Bases
      /\ reader.keys \subseteq Keys
      /\ \A b \in Bases : reader.read[b] \in Nat /\ reader.mtime[b] \in Nat
  BY DEF ArtifactTypeOK, Readers, Bases
<1>2. KeyIsRead' /\ HaveRead' = HaveRead /\ HaveRead \subseteq Bases
  BY <1>1 DEF KeyIsRead, HaveRead
<1>3. ReadIsOfFile'
  <2> SUFFICES ASSUME NEW b \in HaveRead
               PROVE  /\ reader.read[b] <= Mtime(files'[b][reader.key])
                      /\ Untouched(b)' =>
                            \/ Result(b).status = "error"
                            \/ Result(b).text = files'[b][reader.key].text
    BY <1>2 DEF ReadIsOfFile, Result
  <2> DEFINE f == files[b][reader.key]
             g == files'[b][reader.key]
  <2>1. reader.key \in Keys /\ b \in Bases
    BY <1>2 DEF HaveRead, KeyIsRead
  <2>2. reader.read[b] \in Nat /\ Mtime(f) \in Nat /\ Mtime(g) \in Nat
    BY <1>1, <2>1, MtimeOfFile DEF ArtifactTypeOK
  <2>3. /\ reader.read[b] <= Mtime(f)
        /\ Exists(f) /\ f.whole /\ Mtime(f) = reader.read[b] =>
              Result(b).status = "error" \/ Result(b).text = f.text
    BY DEF ReadIsOfFile, Untouched
  <2>4. CASE g = f
    BY <2>3, <2>4 DEF Untouched
  <2>5. CASE Mtime(f) < Mtime(g)
    <3> HIDE DEF f, g
    <3>1. reader.read[b] <= Mtime(g) /\ Mtime(g) # reader.read[b]
      BY <2>2, <2>3, <2>5
    <3> QED
      BY <3>1 DEF Untouched, g
  <2> QED
    BY <2>1, <2>4, <2>5 DEF FilesGrow
<1>4. RunningIsSeen'
  BY DEF RunningIsSeen, HistoryKept
<1> QED
  BY <1>2, <1>3, <1>4

-----------------------------------------------------------------------------
(* The steps of a capture.                                                  *)

\* What a step of the capture has to keep: the types and the invariant of the
\* captures, with files that grow and a history that is kept.
Kept == ArtifactTypeOK' /\ CaptureInv' /\ FilesGrow /\ HistoryKept

\* Recording an outcome changes that of the running capture only.
LEMMA OutcomeSet ==
    ASSUME ArtifactTypeOK, run.by \in Captures, NEW outcome \in Outcomes, Outcome(outcome)
    PROVE  /\ capture' \in [Captures -> [base: Bases, commands: SUBSET Commands, outcome: Outcomes]]
           /\ \A v \in Captures :
                 /\ capture'[v].base = capture[v].base
                 /\ capture'[v].commands = capture[v].commands
                 /\ capture'[v].outcome = IF v = run.by THEN outcome ELSE capture[v].outcome
<1> DEFINE Caps == [base: Bases, commands: SUBSET Commands, outcome: Outcomes]
           cap  == [capture[run.by] EXCEPT !.outcome = outcome]
<1>1. capture \in [Captures -> Caps] /\ capture[run.by] \in Caps
  BY DEF ArtifactTypeOK
<1>2. cap \in Caps /\ cap.base = capture[run.by].base /\ cap.outcome = outcome
      /\ cap.commands = capture[run.by].commands
  BY <1>1
<1>3. capture' = [capture EXCEPT ![run.by] = cap]
  BY DEF Outcome
<1> HIDE DEF cap, Caps
<1>4. \A v \in Captures : capture'[v] = IF v = run.by THEN cap ELSE capture[v]
  BY <1>1, <1>3
<1>5. capture' \in [Captures -> Caps]
  BY <1>1, <1>2, <1>3
<1> QED
  BY <1>2, <1>4, <1>5 DEF Caps

\* Files that stay as they are grow.
LEMMA SameFiles ==
    ASSUME files' = files
    PROVE  FilesGrow
BY DEF FilesGrow

\* What is known of the capture that runs.
LEMMA RunningCapture ==
    ASSUME ArtifactTypeOK, RunIsLatest, run.pc # "idle"
    PROVE  /\ run.by \in Captures /\ run.by \in Nat /\ run.by # 0
           /\ capture[run.by].base \in Bases
           /\ capture[run.by].commands \in SUBSET Commands
           /\ capture[run.by].outcome \in Outcomes
           /\ run.todo \subseteq Commands
           /\ \A v \in Captures : capture[v].outcome # "none" => v <= run.by
<1>1. run.by \in Captures
  BY DEF RunIsLatest
<1>2. Captures \subseteq Nat /\ 0 \notin Captures
  BY ArtifactAssumption DEF Captures
<1>3. \A v \in Captures : capture[v].outcome # "none" => v <= run.by
  <2> TAKE v \in Captures
  <2>1. v > run.by => capture[v].outcome = "none"
    BY DEF RunIsLatest
  <2>2. v \in Nat /\ run.by \in Nat
    BY <1>1, <1>2
  <2> QED
    BY <2>1, <2>2
<1> QED
  BY <1>1, <1>2, <1>3 DEF ArtifactTypeOK, Runs

\* A new capture: nothing is written by it yet.
LEMMA StartStep ==
    ASSUME ArtifactTypeOK, CaptureInv, Start
    PROVE  Kept
<1> USE DEF CaptureInv
<1>1. PICK v \in Captures, b \in Bases, commands \in Profiles :
          /\ capture[v].outcome = "none"
          /\ \A u \in Captures : u < v => capture[u].outcome # "none"
          /\ capture' = [capture EXCEPT ![v] =
                 [base |-> b, commands |-> commands, outcome |-> "open"]]
          /\ run' = [IdleRun EXCEPT !.pc = "fetch", !.by = v]
  BY DEF Start
<1>2. files' = files /\ reader' = reader /\ run.pc = "idle"
  BY DEF Start
<1>3. /\ run'.pc = "fetch" /\ run'.by = v /\ run'.todo = {}
      /\ run' \in Runs
  BY <1>1 DEF IdleRun, Runs
<1>4. commands \in SUBSET Commands
  BY DEF Commands
<1>5. /\ capture' \in [Captures -> [base: Bases, commands: SUBSET Commands, outcome: Outcomes]]
      /\ capture'[v].outcome = "open"
      /\ \A u \in Captures \ {v} : capture'[u] = capture[u]
  BY <1>1, <1>4 DEF ArtifactTypeOK, Outcomes
<1>6. ArtifactTypeOK'
  BY <1>2, <1>3, <1>5 DEF ArtifactTypeOK
<1>7. Captures \subseteq Nat /\ 0 \notin Captures
  BY ArtifactAssumption DEF Captures
<1>8. \A u \in Captures : u > v => capture[u].outcome = "none"
  BY <1>1, <1>7 DEF RunIsLatest
<1>9. RunIsLatest'
  <2>1. \A u, w \in Captures : u < w /\ capture'[w].outcome # "none" => capture'[u].outcome # "none"
    BY <1>1, <1>5, <1>7, <1>8 DEF RunIsLatest
  <2>2. \A u \in Captures : capture[u].outcome # "open"
    BY <1>2 DEF RunIsLatest, Active
  <2> QED
    BY <1>3, <1>5, <1>7, <1>8, <2>1, <2>2 DEF RunIsLatest, Active
<1>10. Opened' = {}
  BY <1>3 DEF Opened
<1>11. FilesHaveCause'
  <2> SUFFICES ASSUME NEW a \in Bases, NEW k \in Keys, Exists(files[a][k])
               PROVE  FileHasCause(a, k)'
    BY <1>2 DEF FilesHaveCause, FileHasCause
  <2> DEFINE f == files[a][k]
  <2>1. f.by \in Captures /\ f.by # v
    BY <1>1, FileAt DEF Files, Exists, FilesHaveCause, FileHasCause
  <2>2. ~f.whole => capture[f.by].outcome \in {"failed", "lost"}
    BY <1>2 DEF FilesHaveCause, FileHasCause
  <2> QED
    BY <1>2, <1>3, <1>5, <2>1, <2>2 DEF FilesHaveCause, FileHasCause
<1>12. WrittenIsThere'
  BY <1>2, <1>5, <1>10 DEF WrittenIsThere
<1>13. HistoryKept
  BY <1>1, <1>5 DEF HistoryKept
<1> QED
  BY <1>2, <1>6, <1>9, <1>11, <1>12, <1>13, SameFiles DEF Kept

\* A capture that ends: as ok only when it has written everything, and then no file
\* of its is torn.
LEMMA CaptureEnds ==
    ASSUME ArtifactTypeOK, CaptureInv, files' = files, run.pc # "idle",
           run' \in Runs, run'.pc \in {"idle", "done", "orphan"}, run'.todo = {},
           run'.pc # "idle" => run'.by = run.by,
           NEW outcome \in {"ok", "failed", "lost"},
           outcome = "ok" => run.pc = "write" /\ run.todo = {},
           capture' \in [Captures -> [base: Bases, commands: SUBSET Commands, outcome: Outcomes]],
           \A v \in Captures :
              /\ capture'[v].base = capture[v].base
              /\ capture'[v].commands = capture[v].commands
              /\ capture'[v].outcome = IF capture[v].outcome = "open" THEN outcome
                                       ELSE capture[v].outcome,
           reader' = reader \/ reader' = IdleReader, reader' \in Readers
    PROVE  Kept
<1> USE DEF CaptureInv
<1>1. ArtifactTypeOK'
  BY DEF ArtifactTypeOK
<1>2. /\ run.by \in Captures
      /\ \A v \in Captures : capture[v].outcome = "open" => run.by = v /\ run.pc \in Active
  BY DEF RunIsLatest
<1>3. \A v \in Captures :
         /\ capture'[v].outcome # "open"
         /\ capture'[v].outcome = "none" <=> capture[v].outcome = "none"
  OBVIOUS
<1>4. RunIsLatest'
  <2>1. \A u, v \in Captures :
           u < v /\ capture'[v].outcome # "none" => capture'[u].outcome # "none"
    BY <1>3 DEF RunIsLatest
  <2>2. run'.pc # "idle" =>
           /\ run'.by \in Captures /\ capture'[run'.by].outcome # "none"
           /\ \A v \in Captures : v > run'.by => capture'[v].outcome = "none"
    BY <1>2, <1>3 DEF RunIsLatest
  <2> QED
    BY <1>3, <2>1, <2>2 DEF RunIsLatest, Active
<1>5. Opened' = {} /\ run'.pc \notin Active /\ run'.pc # "fill"
  BY DEF Opened, Active
<1>6. FilesHaveCause'
  <2> SUFFICES ASSUME NEW b \in Bases, NEW k \in Keys, Exists(files[b][k])
               PROVE  FileHasCause(b, k)'
    BY DEF FilesHaveCause, FileHasCause
  <2> DEFINE f == files[b][k]
  <2>1. f.by \in Captures
    BY FileAt DEF Files, Exists
  <2>2. FileHasCause(b, k)
    BY DEF FilesHaveCause
  <2>3. ~f.whole => capture'[f.by].outcome \in {"failed", "lost"}
    BY <1>2, <2>1, <2>2 DEF FileHasCause, RunIsLatest, Active
  <2> QED
    BY <1>3, <1>5, <2>1, <2>2, <2>3 DEF FileHasCause
<1>7. WrittenIsThere'
  <2>1. ASSUME NEW v \in Captures, capture'[v].outcome = "ok", NEW c \in capture[v].commands
        PROVE  files[capture[v].base][KeyOf(c)].by >= v
    <3>1. CASE capture[v].outcome = "ok"
      BY <3>1 DEF WrittenIsThere
    <3>2. CASE capture[v].outcome = "open"
      <4>1. v = run.by /\ run.pc = "write" /\ run.todo = {}
        BY <1>2, <2>1, <3>2
      <4>2. c \in Opened
        BY <4>1, <2>1 DEF Opened
      <4> QED
        BY <4>1, <4>2, ArtifactAssumption DEF WrittenIsThere, Captures
    <3> QED
      BY <2>1, <3>1, <3>2
  <2> QED
    BY <1>5, <2>1 DEF WrittenIsThere
<1>8. HistoryKept
  BY DEF HistoryKept
<1> QED
  BY <1>1, <1>4, <1>6, <1>7, <1>8, SameFiles DEF Kept

\* Every step that ends a capture, or goes on without one, keeps what it has to.
LEMMA EndSteps ==
    ASSUME ArtifactTypeOK, CaptureInv,
           \/ run.pc = "fetch" /\ Fetch /\ run'.pc = "done"
           \/ StorageFault \/ RecordOk \/ EndTask \/ Recover
           \/ Crash /\ run.pc \notin {"idle", "orphan"}
    PROVE  Kept
<1> USE DEF CaptureInv
<1>1. reader' \in Readers /\ (reader' = reader \/ reader' = IdleReader)
  <2>1. IdleReader \in Readers
    BY DEF IdleReader, Readers, Results, Statuses, Bodies, Parts, NotFound, Bases
  <2> QED
    BY <2>1 DEF Fetch, StorageFault, RecordOk, EndTask, Recover, Crash, ArtifactTypeOK
<1>2. run \in Runs /\ IdleRun \in Runs /\ IdleRun.pc = "idle" /\ IdleRun.todo = {}
  BY DEF ArtifactTypeOK, IdleRun, Runs
<1>3. files' = files
  BY DEF Fetch, StorageFault, RecordOk, EndTask, Recover, Crash
<1>4. run.pc # "idle"
  BY DEF StorageFault, RecordOk, EndTask, Recover
<1>5. /\ run.by \in Captures
      /\ \A v \in Captures : capture[v].outcome = "open" => run.by = v /\ run.pc \in Active
      /\ run.pc \in Active => capture[run.by].outcome = "open"
  BY <1>4 DEF RunIsLatest
<1>6. CASE EndTask \/ Recover
  <2>1. run' = IdleRun /\ capture' = capture /\ run.pc \notin Active
    BY <1>6 DEF EndTask, Recover, Active
  <2> QED
    BY <1>1, <1>2, <1>3, <1>4, <1>5, <2>1, CaptureEnds DEF ArtifactTypeOK
<1>7. ASSUME NEW outcome \in {"ok", "failed", "lost"}, Outcome(outcome), run.pc \in Active
      PROVE  /\ capture' \in [Captures -> [base: Bases, commands: SUBSET Commands, outcome: Outcomes]]
             /\ \A v \in Captures :
                   /\ capture'[v].base = capture[v].base
                   /\ capture'[v].commands = capture[v].commands
                   /\ capture'[v].outcome = IF capture[v].outcome = "open" THEN outcome
                                            ELSE capture[v].outcome
  BY <1>5, <1>7, OutcomeSet DEF Outcomes
<1>8. CASE run.pc = "fetch" /\ Fetch /\ run'.pc = "done"
  <2>1. Outcome("failed") /\ run' = [run EXCEPT !.pc = "done"]
    BY <1>2, <1>8 DEF Fetch, Runs
  <2>2. run' \in Runs /\ run'.by = run.by /\ run'.todo = {} /\ run'.pc = "done"
    BY <1>2, <1>8, <2>1 DEF Runs, RunIsLatest
  <2> QED
    BY <1>1, <1>3, <1>4, <1>7, <1>8, <2>1, <2>2, CaptureEnds DEF Active
<1>9. CASE StorageFault
  <2>1. Outcome("failed") /\ run.pc \in Active
    BY <1>9 DEF StorageFault, Active
  <2>2. run' \in Runs /\ run'.by = run.by /\ run'.todo = {} /\ run'.pc = "done"
    BY <1>2, <1>9 DEF StorageFault, Runs
  <2> QED
    BY <1>1, <1>3, <1>4, <1>7, <2>1, <2>2, CaptureEnds
<1>10. CASE RecordOk
  <2>1. Outcome("ok") /\ run.pc = "write" /\ run.todo = {}
    BY <1>10 DEF RecordOk
  <2>2. run' \in Runs /\ run'.by = run.by /\ run'.todo = {} /\ run'.pc = "done"
    BY <1>2, <1>10, <2>1 DEF RecordOk, Runs
  <2> QED
    BY <1>1, <1>3, <1>4, <1>7, <2>1, <2>2, CaptureEnds DEF Active
<1>11. CASE Crash /\ run.pc \notin {"idle", "orphan"}
  <2>1. /\ run' = [IdleRun EXCEPT !.pc = "orphan", !.by = run.by]
        /\ IF capture[run.by].outcome = "open" THEN Outcome("lost") ELSE UNCHANGED capture
    BY <1>11 DEF Crash
  <2>2. run' \in Runs /\ run'.by = run.by /\ run'.todo = {} /\ run'.pc = "orphan"
    BY <1>2, <2>1 DEF Runs, IdleRun, ArtifactTypeOK
  <2>3. CASE capture[run.by].outcome = "open"
    BY <1>1, <1>3, <1>4, <1>5, <1>7, <2>1, <2>2, <2>3, CaptureEnds
  <2>4. CASE capture[run.by].outcome # "open"
    <3>1. capture' = capture /\ \A v \in Captures : capture[v].outcome # "open"
      BY <1>5, <2>1, <2>4
    <3> QED
      BY <1>1, <1>3, <1>4, <2>2, <3>1, CaptureEnds DEF ArtifactTypeOK
  <2> QED
    BY <2>3, <2>4
<1> QED
  BY <1>6, <1>8, <1>9, <1>10, <1>11

\* Everything was fetched: nothing is opened yet.
LEMMA FetchStep ==
    ASSUME ArtifactTypeOK, CaptureInv, Fetch, run'.pc # "done"
    PROVE  Kept
<1> USE DEF CaptureInv
<1>1. /\ run.pc = "fetch"
      /\ run' = [run EXCEPT !.pc = "write", !.todo = capture[run.by].commands]
      /\ UNCHANGED <<capture, files, reader>>
  <2>1. [run EXCEPT !.pc = "done"].pc = "done"
    BY DEF ArtifactTypeOK, Runs
  <2> QED
    BY <2>1 DEF Fetch
<1>2. /\ run.by \in Captures /\ capture[run.by].commands \in SUBSET Commands
      /\ capture[run.by].outcome = "open"
  BY <1>1, RunningCapture DEF RunIsLatest, Active
<1>3. /\ run' \in Runs /\ run'.pc = "write" /\ run'.by = run.by
      /\ run'.todo = capture[run.by].commands
  BY <1>1, <1>2 DEF ArtifactTypeOK, Runs
<1>4. Opened = {} /\ Opened' = {} /\ Cardinality(Opened) = 0
  BY <1>1, <1>3, FS_EmptySet DEF Opened
<1>5. ArtifactTypeOK' /\ HistoryKept
  BY <1>1, <1>3 DEF ArtifactTypeOK, HistoryKept
<1>6. RunIsLatest'
  BY <1>1, <1>2, <1>3 DEF RunIsLatest, Active
<1>7. FilesHaveCause'
  <2> SUFFICES ASSUME NEW b \in Bases, NEW k \in Keys, Exists(files[b][k])
               PROVE  FileHasCause(b, k)'
    BY <1>1 DEF FilesHaveCause, FileHasCause
  <2> DEFINE f == files[b][k]
  <2>1. FileHasCause(b, k)
    BY DEF FilesHaveCause
  <2>2. f.by # run.by
    BY <1>1, <1>4, <2>1, CommandSets DEF FileHasCause, Active
  <2> QED
    BY <1>1, <1>3, <2>1, <2>2 DEF FileHasCause
<1>8. WrittenIsThere'
  BY <1>1, <1>4 DEF WrittenIsThere
<1> QED
  BY <1>1, <1>5, <1>6, <1>7, <1>8, SameFiles DEF Kept

\* Captures are numbered from 1.
LEMMA CaptureNumbers == Captures \subseteq Nat
  BY ArtifactAssumption DEF Captures

\* The turn of a file that a capture has just written, between the number of the
\* files it has opened and the number of the commands.
LEMMA TurnInRange ==
    ASSUME NEW turn, NEW opened \in Nat, NEW all \in Nat, turn \in 1 .. opened, opened <= all
    PROVE  turn \in Nat /\ turn > 0 /\ turn <= opened /\ turn \in 1 .. all
OBVIOUS

\* A number is at most itself.
LEMMA AtMostItself == \A n \in Nat : n <= n
OBVIOUS

\* A turn that was in the range stays in it as more files are opened.
LEMMA TurnStays ==
    ASSUME NEW turn \in Nat, NEW before \in Nat, NEW after \in Nat,
           turn <= before, before <= after
    PROVE  turn <= after
OBVIOUS

\* The three ways in which a file that capture v writes follows the one it replaces.
LEMMA Follows ==
    ASSUME NEW v \in Nat, NEW old, NEW new, old.by \in Nat, old.by <= v,
           new.by = v, new.turn \in Nat, new.turn > 0,
           \/ old.by = v /\ new.turn > old.turn
           \/ old.by = v /\ new.turn = old.turn /\ ~old.whole /\ new.whole
           \/ old.by # v
    PROVE  \/ new.by > old.by /\ new.turn > 0
           \/ new.by = old.by /\ new.turn > old.turn
           \/ new.by = old.by /\ new.turn = old.turn /\ ~old.whole /\ new.whole
<1>1. old.by # v => v > old.by
  OBVIOUS
<1> QED
  BY <1>1, Zenon

\* Writing one file of the running capture: the file is that capture's, its turn
\* and its completeness grow, and the commands that are done are opened.
LEMMA FileWritten ==
    ASSUME ArtifactTypeOK, CaptureInv, run.pc \in {"write", "fill"},
           reader' = reader, capture' = capture,
           run' \in Runs, run'.pc \in {"write", "fill"}, run'.by = run.by,
           run'.todo \subseteq run.todo,
           NEW c \in run.todo, NEW new \in Files,
           run'.pc = "fill" => run'.command = c /\ c \in run'.todo /\ ~new.whole,
           files' = [files EXCEPT ![capture[run.by].base][KeyOf(c)] = new],
           new.by = run.by, new.command = c,
           LET old == files[capture[run.by].base][KeyOf(c)] IN
              \/ old.by = run.by /\ new.turn > old.turn
              \/ old.by = run.by /\ new.turn = old.turn /\ ~old.whole /\ new.whole
              \/ old.by # run.by,
           new.turn \in 1 .. Cardinality(Opened)',
           Opened' = Opened \cup {c},
           new.whole \/ run'.pc = "fill",
           run.pc = "fill" => run.command = c
    PROVE  Kept
<1> USE DEF CaptureInv
<1> DEFINE base == capture[run.by].base
           key  == KeyOf(c)
           old  == files[base][key]
<1>1. /\ run.by \in Captures /\ run.by \in Nat /\ run.by # 0
      /\ base \in Bases /\ capture[run.by].commands \in SUBSET Commands
      /\ run.todo \subseteq capture[run.by].commands
      /\ capture[run.by].outcome = "open"
      /\ \A v \in Captures : capture[v].outcome # "none" => v <= run.by
  BY RunningCapture DEF RunIsLatest, Active
<1>2. c \in Commands /\ key \in Keys /\ c \in capture[run.by].commands
  BY <1>1, KeysOfCommands
<1>3. /\ files'[base][key] = new
      /\ \A b \in Bases, k \in Keys :
            b # base \/ k # key => files'[b][k] = files[b][k]
  BY <1>1, <1>2 DEF ArtifactTypeOK
<1>4. files' \in [Bases -> [Keys -> Files]]
  BY <1>1, <1>2 DEF ArtifactTypeOK
<1>5. ArtifactTypeOK'
  BY <1>4 DEF ArtifactTypeOK
<1> HIDE DEF base, key, old
<1>6. Opened \in SUBSET Commands /\ Opened' \in SUBSET Commands
  BY <1>1, <1>2 DEF Opened
<1>7. /\ Cardinality(Opened)' = Cardinality(Opened')
      /\ Cardinality(Opened) \in Nat /\ Cardinality(Opened') \in Nat
      /\ Cardinality(Opened) <= Cardinality(Opened')
      /\ Cardinality(Opened') <= Cardinality(Commands) /\ Cardinality(Commands) \in Nat
      /\ new.turn \in Nat /\ new.turn > 0 /\ new.turn <= Cardinality(Opened')
      /\ new.turn \in 1 .. Cardinality(Commands)
  <2>1. /\ Cardinality(Opened)' = Cardinality(Opened')
        /\ Cardinality(Opened) \in Nat /\ Cardinality(Opened') \in Nat
        /\ Cardinality(Opened) <= Cardinality(Opened')
        /\ Cardinality(Opened') <= Cardinality(Commands) /\ Cardinality(Commands) \in Nat
    BY <1>6, CommandSets, FS_Subset
  <2>2. new.turn \in 1 .. Cardinality(Opened')
    BY <2>1, Zenon
  <2> QED
    BY <2>1, <2>2, TurnInRange, Zenon
<1>8. RunIsLatest'
  <2>1. run'.pc = "fill" => files'[base][key].by = run.by /\ ~files'[base][key].whole
    BY <1>1, <1>2, <1>3
  <2>2. run'.todo \subseteq capture[run.by].commands
    BY <1>1
  <2> QED
    BY <1>1, <2>1, <2>2 DEF RunIsLatest, Active, base, key
<1>9. FilesHaveCause'
  <2> SUFFICES ASSUME NEW b \in Bases, NEW k \in Keys, Exists(files'[b][k])
               PROVE  FileHasCause(b, k)'
    BY DEF FilesHaveCause, FileHasCause
  <2>1. CASE b = base /\ k = key
    <3> HIDE DEF CaptureInv
    <3>1. files'[b][k] = new
      BY <1>3, <2>1
    <3>2. run'.pc = "fill" => run'.command = c
      OBVIOUS
    <3> QED
      BY <1>1, <1>2, <1>7, <2>1, <3>1, <3>2 DEF FileHasCause, base, key
  <2>2. CASE b # base \/ k # key
    <3> DEFINE f == files[b][k]
    <3>1. files'[b][k] = f /\ Exists(f) /\ f.by \in Captures /\ f.turn \in Nat
      <4>1. files'[b][k] = f
        BY <1>3, <2>2
      <4>2. f \in Files /\ f.by # 0
        BY <4>1, FileAt DEF Exists
      <4> QED
        BY <4>1, <4>2 DEF Exists, Files
    <3>2. FileHasCause(b, k)
      BY DEF FilesHaveCause
    <3> HIDE DEF CaptureInv
    <3>3. f.by = run.by => f.turn <= Cardinality(Opened')
      <4>1. f.by = run.by => f.turn <= Cardinality(Opened)
        BY <3>1, <3>2 DEF FileHasCause, Active
      <4> QED
        BY <1>7, <3>1, <4>1, TurnStays, Zenon
    <3>4. ~f.whole => capture[f.by].outcome \in {"failed", "lost"}
      BY <1>1, <2>2, <3>1, <3>2 DEF FileHasCause, base, key
    <3> QED
      BY <1>7, <3>1, <3>2, <3>3, <3>4 DEF FileHasCause
  <2> QED
    BY <2>1, <2>2
<1>10. WrittenIsThere'
  <2>1. ASSUME NEW v \in Captures, capture[v].outcome = "ok", NEW d \in capture[v].commands
        PROVE  files'[capture[v].base][KeyOf(d)].by >= v
    <3> HIDE DEF CaptureInv
    <3>1. capture[v].base \in Bases /\ KeyOf(d) \in Keys /\ v \in Nat
      BY KeysOfCommands, CaptureNumbers DEF ArtifactTypeOK
    <3>2. files[capture[v].base][KeyOf(d)].by >= v /\ v <= run.by
      BY <1>1, <2>1 DEF CaptureInv, WrittenIsThere
    <3>3. \/ files'[capture[v].base][KeyOf(d)] = new
          \/ files'[capture[v].base][KeyOf(d)] = files[capture[v].base][KeyOf(d)]
      BY <1>3, <3>1, Zenon
    <3> QED
      BY <1>1, <3>1, <3>2, <3>3
  <2>2. ASSUME NEW d \in Opened'
        PROVE  files'[base][KeyOf(d)].by = run.by
    <3>1. KeyOf(d) \in Keys
      BY <1>6, KeysOfCommands
    <3>2. d = c \/ files[base][KeyOf(d)].by = run.by
      BY DEF WrittenIsThere, base
    <3> QED
      BY <1>1, <1>2, <1>3, <3>1, <3>2 DEF key
  <2> QED
    BY <2>1, <2>2 DEF WrittenIsThere, base
<1>11. FilesGrow
  <2> SUFFICES ASSUME NEW b \in Bases, NEW k \in Keys
               PROVE  \/ files'[b][k] = files[b][k]
                      \/ Mtime(files[b][k]) < Mtime(files'[b][k])
    BY DEF FilesGrow
  <2>1. CASE b = base /\ k = key
    <3>1. files[b][k] = old /\ old \in Files /\ files'[b][k] = new
      BY <1>3, <2>1, FileAt DEF old
    <3>2. old.by # 0 => /\ old.turn <= Cardinality(Commands)
                        /\ old.by \in Captures /\ old.by <= run.by
      <4> SUFFICES ASSUME old.by # 0
                   PROVE  /\ old.turn <= Cardinality(Commands)
                          /\ old.by \in Captures /\ old.by <= run.by
        OBVIOUS
      <4>1. old.by \in Captures /\ old.turn \in Nat
        BY <3>1 DEF Files
      <4>2. old.turn \in 1 .. Cardinality(Commands) /\ capture[old.by].outcome # "none"
        BY <3>1 DEF FilesHaveCause, FileHasCause, Exists
      <4>3. old.by <= run.by
        BY <1>1, <4>1, <4>2, Zenon
      <4>4. old.turn <= Cardinality(Commands)
        BY <1>7, <4>2, AtMostItself, TurnInRange, Zenon
      <4> QED
        BY <4>1, <4>3, <4>4, Zenon
    <3> HIDE DEF CaptureInv
    <3>3. old.by # 0 =>
             \/ new.by > old.by /\ new.turn > 0
             \/ new.by = old.by /\ new.turn > old.turn
             \/ new.by = old.by /\ new.turn = old.turn /\ ~old.whole /\ new.whole
      <4>1. \/ old.by = run.by /\ new.turn > old.turn
            \/ old.by = run.by /\ new.turn = old.turn /\ ~old.whole /\ new.whole
            \/ old.by # run.by
        BY Zenon DEF old, base, key
      <4>2. old.by # 0 => old.by \in Nat
        BY <3>2, CaptureNumbers, Zenon
      <4> QED
        BY <1>1, <1>7, <3>2, <4>1, <4>2, Follows, Zenon
    <3>4. Mtime(old) < Mtime(new)
      BY <1>1, <1>7, <3>1, <3>2, <3>3, MtimeGrows
    <3> QED
      BY <3>1, <3>4
  <2>2. CASE b # base \/ k # key
    BY <1>3, <2>2, Zenon
  <2> QED
    BY <2>1, <2>2
<1>12. HistoryKept
  BY DEF HistoryKept
<1> QED
  BY <1>5, <1>8, <1>9, <1>10, <1>11, <1>12 DEF Kept

\* Opening a file for a command: one more is opened, in a turn of its own.
LEMMA TruncateStep ==
    ASSUME ArtifactTypeOK, CaptureInv, Truncate
    PROVE  Kept
<1> DEFINE base == capture[run.by].base
<1>1. PICK c \in run.todo :
          /\ files' = [files EXCEPT ![base][KeyOf(c)] =
                 [by |-> run.by, turn |-> IF @.by = run.by THEN @.turn + 1 ELSE 1,
                  command |-> c, whole |-> FALSE, text |-> Empty]]
          /\ run' = [run EXCEPT !.pc = "fill", !.command = c]
  BY DEF Truncate
<1> DEFINE old == files[base][KeyOf(c)]
           new == [by |-> run.by, turn |-> IF old.by = run.by THEN old.turn + 1 ELSE 1,
                   command |-> c, whole |-> FALSE, text |-> Empty]
<1>2. run.pc = "write" /\ UNCHANGED <<capture, reader>>
  BY DEF Truncate
<1>3. /\ run.by \in Captures /\ base \in Bases /\ c \in Commands /\ KeyOf(c) \in Keys
      /\ run.by # 0 /\ run.todo \subseteq Commands
      /\ capture[run.by].commands \in SUBSET Commands /\ c \in capture[run.by].commands
  BY <1>1, <1>2, RunningCapture, KeysOfCommands DEF CaptureInv, RunIsLatest
<1>4. files' = [files EXCEPT ![base][KeyOf(c)] = new]
  BY <1>1, <1>3 DEF ArtifactTypeOK
<1>5. old \in Files
  BY <1>3, FileAt
<1>6. /\ run' \in Runs /\ run'.pc = "fill" /\ run'.by = run.by
      /\ run'.todo = run.todo /\ run'.command = c
  BY <1>1, <1>3 DEF ArtifactTypeOK, Runs
<1>7. /\ Opened = capture[run.by].commands \ run.todo
      /\ Opened' = Opened \cup {c} /\ c \notin Opened
      /\ Opened \in SUBSET Commands /\ Opened' \in SUBSET Commands
  BY <1>1, <1>2, <1>3, <1>6 DEF Opened
<1>8. /\ Cardinality(Opened) \in Nat
      /\ Cardinality(Opened)' = Cardinality(Opened) + 1
  BY <1>7, CommandSets, FS_AddElement
<1>9. new.turn \in 1 .. Cardinality(Opened)' /\ new.turn \in Nat
  <2>1. CASE old.by = run.by
    <3>1. old.turn \in 1 .. Cardinality(Commands) /\ old.turn <= Cardinality(Opened)
      BY <1>2, <1>3, <2>1 DEF CaptureInv, FilesHaveCause, FileHasCause, Exists, Active
    <3>2. Cardinality(Commands) \in Nat
      BY <1>7, CommandSets
    <3> QED
      BY <1>8, <2>1, <3>1, <3>2
  <2>2. CASE old.by # run.by
    BY <1>8, <2>2
  <2> QED
    BY <2>1, <2>2
<1>10. new \in Files
  BY <1>3, <1>9 DEF Files, Bodies, Parts
<1>11. /\ new.by = run.by /\ new.command = c /\ ~new.whole
       /\ \/ old.by = run.by /\ new.turn > old.turn
          \/ old.by # run.by
  BY <1>5 DEF Files
<1> HIDE DEF new, base, old
<1> QED
  BY <1>1, <1>2, <1>4, <1>6, <1>7, <1>9, <1>10, <1>11, FileWritten DEF base, old

\* Filling the file that was opened: it becomes whole, in the same turn.
LEMMA FillStep ==
    ASSUME ArtifactTypeOK, CaptureInv, Fill
    PROVE  Kept
<1> DEFINE base == capture[run.by].base
           c    == run.command
           old  == files[base][KeyOf(c)]
<1>1. PICK text \in Outputs :
          files' = [files EXCEPT ![base][KeyOf(c)] =
              [@ EXCEPT !.by = run.by, !.command = c, !.whole = TRUE, !.text = text]]
  BY DEF Fill
<1> DEFINE new == [old EXCEPT !.by = run.by, !.command = c, !.whole = TRUE, !.text = text]
<1>2. /\ run.pc = "fill" /\ UNCHANGED <<capture, reader>>
      /\ run' = [run EXCEPT !.pc = "write", !.todo = @ \ {run.command}, !.command = "none"]
  BY DEF Fill
<1>3. /\ run.by \in Captures /\ base \in Bases /\ c \in run.todo
      /\ c \in Commands /\ KeyOf(c) \in Keys
      /\ run.by # 0 /\ run.todo \subseteq Commands
      /\ capture[run.by].commands \in SUBSET Commands /\ c \in capture[run.by].commands
      /\ old.by = run.by /\ ~old.whole
  BY <1>2, RunningCapture, KeysOfCommands DEF CaptureInv, RunIsLatest
<1>4. files' = [files EXCEPT ![base][KeyOf(c)] = new]
  BY <1>1, <1>3 DEF ArtifactTypeOK
<1>5. old \in Files
  BY <1>3, FileAt
<1>6. /\ run' \in Runs /\ run'.pc = "write" /\ run'.by = run.by
      /\ run'.todo = run.todo \ {c}
  BY <1>2, <1>3 DEF ArtifactTypeOK, Runs
<1>7. /\ Opened' = Opened /\ c \in Opened /\ Opened \in SUBSET Commands
  BY <1>2, <1>3, <1>6 DEF Opened
<1>8. /\ new \in Files /\ new.by = run.by /\ new.command = c /\ new.whole
      /\ new.turn = old.turn /\ ~old.whole
  BY <1>3, <1>5 DEF Files, Bodies, Parts
<1>9. new.turn \in 1 .. Cardinality(Opened)'
  <2>1. old.turn \in 1 .. Cardinality(Commands) /\ old.turn <= Cardinality(Opened)
    BY <1>2, <1>3 DEF CaptureInv, FilesHaveCause, FileHasCause, Exists, Active
  <2>2. Cardinality(Commands) \in Nat /\ Cardinality(Opened) \in Nat
    BY <1>7, CommandSets
  <2> QED
    BY <1>7, <1>8, <2>1, <2>2
<1>10. Opened' = Opened \cup {c}
  BY <1>7
<1> HIDE DEF new, base, c, old
<1> QED
  BY <1>2, <1>3, <1>4, <1>6, <1>8, <1>9, <1>10, FileWritten DEF base, c, old
-----------------------------------------------------------------------------
(* The steps of the report.                                                 *)

\* A capture number that is not larger than the count of started captures is that
\* of one of them: they are the first ones.
LEMMA StartedIsFirst ==
    ASSUME RunIsLatest, NEW v \in Captures, v <= Cardinality(Started)
    PROVE  capture[v].outcome # "none"
<1>1. Captures \subseteq Nat /\ v \in Nat \ {0} /\ MaxCaptures \in Nat
  BY ArtifactAssumption DEF Captures
<1> SUFFICES ASSUME capture[v].outcome = "none" PROVE FALSE
  OBVIOUS
<1>2. Started \subseteq 1 .. (v - 1)
  <2> SUFFICES ASSUME NEW u \in Captures, capture[u].outcome # "none"
               PROVE  u < v
    BY <1>1 DEF Started, Captures
  <2>1. u \in Nat /\ u # v /\ ~(v < u)
    BY <1>1 DEF RunIsLatest
  <2> QED
    BY <1>1, <2>1
<1>3. Cardinality(1 .. (v - 1)) = v - 1 /\ IsFiniteSet(1 .. (v - 1))
  BY <1>1, FS_Interval
<1>4. Cardinality(Started) \in Nat /\ Cardinality(Started) <= v - 1
  BY <1>2, <1>3, FS_Subset, FS_CardinalityType
<1> QED
  BY <1>1, <1>4

\* The number of started captures is a number.
LEMMA StartedType == Cardinality(Started) \in Nat
<1>1. IsFiniteSet(Captures)
  BY FS_Interval, ArtifactAssumption DEF Captures
<1> QED
  BY <1>1, FS_Subset, FS_CardinalityType DEF Started

\* What is read of a whole file is its text, unless the read fails.
LEMMA ReadIsAResult ==
    ASSUME NEW f \in Files, NEW result \in ReadResults(f)
    PROVE  /\ result \in Results
           /\ Exists(f) /\ f.whole => result.status = "error" \/ result.text = f.text
<1>1. \A text \in Bodies : ReadOf(text) \in Results /\ ReadOf(text).text = text
  <2> TAKE text \in Bodies
  <2>1. text.marker = "none" \/ text.marker \in Markers
    BY DEF Bodies, Outputs, Parts, Empty, Plain, MarkedAs, Text
  <2> QED
    BY <2>1 DEF ReadOf, Results, Statuses
<1>2. NotFound \in Results /\ Unread \in Results /\ Unread.status = "error"
  BY DEF NotFound, Unread, Results, Statuses, Bodies, Parts
<1>3. f.text \in Bodies /\ Parts \subseteq Bodies
  BY DEF Files, Bodies
<1> QED
  BY <1>1, <1>2, <1>3 DEF ReadResults

\* The report reads, and keeps what was said of it.
LEMMA ReportSteps ==
    ASSUME ArtifactTypeOK, CaptureInv, ReportInv, ReportStep
    PROVE  ArtifactTypeOK' /\ ReportInv'
<1> USE DEF ReportInv
<1>1. UNCHANGED <<files, run, capture>>
  BY DEF ReportStep, ReadRunning, ListOrigin, ListDest, ListKeys, NextKey, ReadOrigin, ReadDest,
     StatFiles
<1>2. /\ reader \in Readers /\ reader.since \in Nat /\ Bases = {"origin", "dest"}
      /\ reader.keys \subseteq Keys
  BY DEF ArtifactTypeOK, Readers, Bases
<1>3. SUFFICES reader' \in Readers /\ ReportInv'
  BY <1>1 DEF ArtifactTypeOK
<1>4. CASE ReadRunning
  <2> DEFINE seen == IF run.pc = "idle" THEN {} ELSE {capture[run.by].base}
  <2>1. reader' = [reader EXCEPT !.pc = "list origin", !.running = seen,
                       !.since = Cardinality(Started)]
    BY <1>4 DEF ReadRunning
  <2>2. seen \in SUBSET Bases
    BY RunningCapture DEF CaptureInv
  <2> HIDE DEF seen
  <2>3. /\ reader' \in Readers /\ reader'.pc = "list origin" /\ reader'.running = seen
        /\ reader'.since = Cardinality(Started) /\ reader'.keys = reader.keys
    BY <1>2, <2>1, <2>2, StartedType DEF Readers
  <2>4. \A v \in Captures : v <= Cardinality(Started) =>
           capture[v].outcome # "none" /\ (capture[v].outcome = "open" => capture[v].base \in seen)
    BY StartedIsFirst DEF CaptureInv, RunIsLatest, seen, Active
  <2> QED
    BY <1>1, <2>3, <2>4 DEF KeyIsRead, HaveRead, ReadIsOfFile, RunningIsSeen
<1>5. CASE ListOrigin \/ ListDest
  <2>1. PICK b \in Bases, next \in {"list dest", "keys"} :
            reader' = [reader EXCEPT !.pc = next,
                           !.keys = @ \cup {k \in Keys : Exists(files[b][k])}]
    BY <1>2, <1>5 DEF ListOrigin, ListDest, ListKeys
  <2>2. /\ reader' \in Readers /\ reader'.pc \in {"list dest", "keys"}
        /\ reader'.running = reader.running /\ reader'.since = reader.since
        /\ reader'.keys = reader.keys \cup {k \in Keys : Exists(files[b][k])}
    BY <1>2, <2>1 DEF Readers
  <2> QED
    BY <1>1, <2>2 DEF KeyIsRead, HaveRead, ReadIsOfFile, RunningIsSeen
<1>6. CASE NextKey /\ reader.keys = {}
  <2>1. reader' = IdleReader
    BY <1>6 DEF NextKey
  <2>2. /\ IdleReader \in Readers /\ IdleReader.pc = "idle" /\ IdleReader.keys = {}
        /\ IdleReader.since = 0
    BY DEF IdleReader, Readers, Results, Statuses, Bodies, Parts, NotFound, Bases
  <2>3. \A v \in Captures : ~(v <= 0)
    BY ArtifactAssumption DEF Captures
  <2> QED
    BY <1>1, <2>1, <2>2, <2>3 DEF KeyIsRead, HaveRead, ReadIsOfFile, RunningIsSeen
<1>7. CASE NextKey /\ reader.keys # {}
  <2> DEFINE k == CHOOSE first \in reader.keys : TRUE
  <2>1. reader' = [IdleReader EXCEPT !.pc = "read origin", !.key = k,
                       !.running = reader.running, !.since = reader.since,
                       !.keys = reader.keys \ {k}]
    BY <1>7 DEF NextKey
  <2>2. k \in reader.keys
    BY <1>7
  <2> HIDE DEF k
  <2>3. /\ reader' \in Readers /\ reader'.pc = "read origin" /\ reader'.key = k
        /\ reader'.running = reader.running /\ reader'.since = reader.since
        /\ reader'.keys = reader.keys \ {k}
    <3>1. reader' = [pc |-> "read origin", running |-> reader.running, since |-> reader.since,
                     keys |-> reader.keys \ {k}, key |-> k, origin |-> NotFound,
                     dest |-> NotFound, read |-> [b \in Bases |-> 0],
                     mtime |-> [b \in Bases |-> 0]]
      BY <2>1 DEF IdleReader
    <3>2. NotFound \in Results /\ [b \in Bases |-> 0] \in [Bases -> Nat]
      BY DEF Results, NotFound, Statuses, Bodies, Parts
    <3> QED
      BY <1>2, <2>2, <3>1, <3>2 DEF Readers
  <2> QED
    BY <1>1, <1>2, <2>2, <2>3 DEF KeyIsRead, HaveRead, ReadIsOfFile, RunningIsSeen
<1>8. CASE ReadOrigin
  <2> DEFINE f == files["origin"][reader.key]
  <2>1. PICK result \in ReadResults(f) :
            reader' = [reader EXCEPT !.pc = "read dest", !.origin = result,
                           !.read["origin"] = Mtime(f)]
    BY <1>8 DEF ReadOrigin
  <2>2. reader.pc = "read origin" /\ reader.key \in Keys
    BY <1>8 DEF ReadOrigin, KeyIsRead
  <2>3. f \in Files /\ Mtime(f) \in Nat
    BY <1>2, <2>2, FileAt, MtimeOfFile
  <2>4. result \in Results /\ (Exists(f) /\ f.whole => result.status = "error" \/ result.text = f.text)
    BY <2>3, ReadIsAResult
  <2> HIDE DEF f
  <2>5. /\ reader' \in Readers /\ reader'.pc = "read dest" /\ reader'.key = reader.key
        /\ reader'.running = reader.running /\ reader'.since = reader.since
        /\ reader'.keys = reader.keys /\ reader'.origin = result
        /\ reader'.read["origin"] = Mtime(f)
    BY <1>2, <2>1, <2>3, <2>4 DEF Readers
  <2>6. KeyIsRead' /\ HaveRead' = {"origin"}
    BY <2>2, <2>5 DEF KeyIsRead, HaveRead
  <2>7. ReadIsOfFile'
    <3>1. files'["origin"][reader'.key] = f
      BY <1>1, <2>5 DEF f
    <3>2. reader'.read["origin"] <= Mtime(f)
      <4> QED
        BY <2>3, <2>5, AtMostItself, Zenon
    <3>3. Exists(f) /\ f.whole => Result("origin")'.status = "error" \/ Result("origin")'.text = f.text
      BY <2>4, <2>5 DEF Result
    <3> QED
      BY <2>5, <2>6, <3>1, <3>2, <3>3 DEF ReadIsOfFile, Untouched
  <2>8. RunningIsSeen'
    BY <1>1, <2>5 DEF RunningIsSeen
  <2> QED
    BY <2>5, <2>6, <2>7, <2>8
<1>9. CASE ReadDest
  <2> DEFINE f == files["dest"][reader.key]
  <2>1. PICK result \in ReadResults(f) :
            reader' = [reader EXCEPT !.pc = "stat", !.dest = result,
                           !.read["dest"] = Mtime(f)]
    BY <1>9 DEF ReadDest
  <2>2. reader.pc = "read dest" /\ reader.key \in Keys
    BY <1>9 DEF ReadDest, KeyIsRead
  <2>3. f \in Files /\ Mtime(f) \in Nat
    BY <1>2, <2>2, FileAt, MtimeOfFile
  <2>4. result \in Results /\ (Exists(f) /\ f.whole => result.status = "error" \/ result.text = f.text)
    BY <2>3, ReadIsAResult
  <2> HIDE DEF f
  <2>5. /\ reader' \in Readers /\ reader'.pc = "stat" /\ reader'.key = reader.key
        /\ reader'.running = reader.running /\ reader'.since = reader.since
        /\ reader'.keys = reader.keys /\ reader'.origin = reader.origin
        /\ reader'.dest = result
        /\ reader'.read["dest"] = Mtime(f) /\ reader'.read["origin"] = reader.read["origin"]
    BY <1>2, <2>1, <2>3, <2>4 DEF Readers
  <2>6. KeyIsRead' /\ HaveRead' = {"origin", "dest"} /\ "origin" \in HaveRead
    BY <1>2, <1>9, <2>2, <2>5 DEF KeyIsRead, HaveRead, ReadDest
  <2>7. ReadIsOfFile'
    <3>1. files'["dest"][reader'.key] = f /\ reader'.read["dest"] <= Mtime(f)
      BY <1>1, <2>3, <2>5, AtMostItself DEF f
    <3>2. Exists(f) /\ f.whole => Result("dest")'.status = "error" \/ Result("dest")'.text = f.text
      BY <2>4, <2>5 DEF Result
    <3>3. /\ reader'.read["origin"] <= Mtime(files'["origin"][reader'.key])
          /\ Untouched("origin")' =>
                \/ Result("origin")'.status = "error"
                \/ Result("origin")'.text = files'["origin"][reader'.key].text
      BY <1>1, <2>5, <2>6 DEF ReadIsOfFile, Untouched, Result
    <3> QED
      BY <2>5, <2>6, <3>1, <3>2, <3>3 DEF ReadIsOfFile, Untouched
  <2>8. RunningIsSeen'
    BY <1>1, <2>5 DEF RunningIsSeen
  <2> QED
    BY <2>5, <2>6, <2>7, <2>8
<1>10. CASE StatFiles
  <2> DEFINE times == [b \in Bases |-> Mtime(files[b][reader.key])]
  <2>1. reader' = [reader EXCEPT !.pc = "row", !.mtime = times]
    BY <1>10 DEF StatFiles
  <2>2. reader.pc = "stat" /\ reader.key \in Keys
    BY <1>10 DEF StatFiles, KeyIsRead
  <2>3. \A b \in Bases : files[b][reader.key] \in Files /\ times[b] = Mtime(files[b][reader.key])
    BY <2>2, FileAt
  <2>4. times \in [Bases -> Nat]
    BY <2>2, FileAt, MtimeOfFile
  <2> HIDE DEF times
  <2>5. /\ reader' \in Readers /\ reader'.pc = "row" /\ reader'.key = reader.key
        /\ reader'.running = reader.running /\ reader'.since = reader.since
        /\ reader'.keys = reader.keys /\ reader'.origin = reader.origin
        /\ reader'.dest = reader.dest /\ reader'.read = reader.read
        /\ reader'.mtime = times
    BY <1>2, <2>1, <2>4 DEF Readers
  <2>6. KeyIsRead' /\ HaveRead' = Bases /\ HaveRead = Bases
    BY <2>2, <2>5 DEF KeyIsRead, HaveRead
  <2>7. ReadIsOfFile'
    <3>1. \A b \in Bases : reader.read[b] <= times[b]
      BY <2>3, <2>6 DEF ReadIsOfFile
    <3>2. \A b \in Bases :
             /\ reader'.read[b] <= Mtime(files'[b][reader'.key])
             /\ Untouched(b)' =>
                   \/ Result(b)'.status = "error"
                   \/ Result(b)'.text = files'[b][reader'.key].text
      BY <1>1, <2>5, <2>6 DEF ReadIsOfFile, Untouched, Result
    <3> QED
      BY <2>5, <2>6, <3>1, <3>2 DEF ReadIsOfFile
  <2>8. ASSUME NEW v \in Captures, capture[v].outcome = "ok", NEW c \in capture[v].commands,
               KeyOf(c) = reader.key
        PROVE  times[capture[v].base] # 0
    <3>1. files[capture[v].base][reader.key].by >= v /\ capture[v].base \in Bases
      BY <2>8 DEF CaptureInv, WrittenIsThere, ArtifactTypeOK
    <3>2. Exists(files[capture[v].base][reader.key])
      BY <3>1, ArtifactAssumption DEF Exists, Captures
    <3> QED
      BY <2>3, <3>1, <3>2, MtimeOfFile
  <2>9. RunningIsSeen'
    BY <1>1, <2>5, <2>8 DEF RunningIsSeen
  <2> QED
    BY <2>5, <2>6, <2>7, <2>9
<1> QED
  BY <1>4, <1>5, <1>6, <1>7, <1>8, <1>9, <1>10 DEF ReportStep

-----------------------------------------------------------------------------
(* The invariant.                                                           *)

\* Initially there is no file, no capture and no report.
LEMMA ArtifactInit == Init => ArtifactInv
<1> SUFFICES ASSUME Init PROVE ArtifactInv
  OBVIOUS
<1>1. NoFile \in Files /\ ~Exists(NoFile)
  BY DEF NoFile, Files, Bodies, Parts, Exists
<1>2. IdleRun \in Runs /\ IdleRun.pc = "idle" /\ IdleRun.todo = {}
  BY DEF IdleRun, Runs
<1>3. /\ IdleReader \in Readers /\ IdleReader.pc = "idle" /\ IdleReader.keys = {}
      /\ IdleReader.since = 0
  BY DEF IdleReader, Readers, Results, Statuses, Bodies, Parts, NotFound, Bases
<1>4. /\ NoCapture \in [base: Bases, commands: SUBSET Commands, outcome: Outcomes]
      /\ NoCapture.outcome = "none"
  BY DEF NoCapture, Bases, Outcomes
<1>5. ArtifactTypeOK
  BY <1>1, <1>2, <1>3, <1>4 DEF Init, ArtifactTypeOK
<1>6. RunIsLatest
  BY <1>2, <1>4 DEF Init, RunIsLatest, Active
<1>7. Opened = {}
  BY <1>2 DEF Init, Opened
<1>8. FilesHaveCause
  BY <1>1 DEF Init, FilesHaveCause, FileHasCause
<1>9. WrittenIsThere
  BY <1>4, <1>7 DEF Init, WrittenIsThere
<1>10. \A v \in Captures : ~(v <= 0)
  BY ArtifactAssumption DEF Captures
<1>11. ReportInv
  BY <1>3, <1>10 DEF Init, ReportInv, KeyIsRead, HaveRead, ReadIsOfFile, RunningIsSeen
<1> QED
  BY <1>5, <1>6, <1>8, <1>9, <1>11 DEF ArtifactInv, CaptureInv

\* A crash ends the report, and the capture unless there is none.
LEMMA CrashStep ==
    ASSUME ArtifactInv, Crash
    PROVE  ArtifactInv'
<1> USE DEF ArtifactInv
<1>1. /\ reader' = IdleReader /\ IdleReader \in Readers /\ IdleReader.pc = "idle"
      /\ IdleReader.keys = {} /\ IdleReader.since = 0
  BY DEF Crash, IdleReader, Readers, Results, Statuses, Bodies, Parts, NotFound, Bases
<1>2. \A v \in Captures : ~(v <= 0)
  BY ArtifactAssumption DEF Captures
<1>3. ReportInv'
  BY <1>1, <1>2 DEF ReportInv, KeyIsRead, HaveRead, ReadIsOfFile, RunningIsSeen
<1>4. CASE run.pc \in {"idle", "orphan"}
  <2>1. UNCHANGED <<files, run, capture>>
    BY <1>4 DEF Crash
  <2>2. Opened' = Opened
    BY <2>1 DEF Opened
  <2>3. ArtifactTypeOK'
    BY <1>1, <2>1 DEF ArtifactTypeOK
  <2>4. RunIsLatest'
    BY <2>1 DEF CaptureInv, RunIsLatest
  <2>5. FilesHaveCause'
    BY <2>1, <2>2 DEF CaptureInv, FilesHaveCause, FileHasCause
  <2>6. WrittenIsThere'
    BY <2>1, <2>2 DEF CaptureInv, WrittenIsThere
  <2> QED
    BY <1>3, <2>3, <2>4, <2>5, <2>6 DEF CaptureInv
<1>5. CASE run.pc \notin {"idle", "orphan"}
  BY <1>3, <1>5, EndSteps DEF Kept
<1> QED
  BY <1>4, <1>5

\* Every step keeps the invariant.
LEMMA ArtifactStep ==
    ASSUME ArtifactInv, [Next]_vars
    PROVE  ArtifactInv'
<1> USE DEF ArtifactInv
<1>1. CASE CaptureStep
  <2>1. Kept
    BY <1>1, StartStep, FetchStep, TruncateStep, FillStep, EndSteps DEF CaptureStep, Fetch
  <2>2. reader' = reader
    BY <1>1 DEF CaptureStep, Start, Fetch, Truncate, Fill, StorageFault, RecordOk, EndTask, Recover
  <2> QED
    BY <2>1, <2>2, ReportKept DEF Kept
<1>2. CASE ReportStep
  <2>1. UNCHANGED <<files, run, capture>>
    BY <1>2 DEF ReportStep, ReadRunning, ListOrigin, ListDest, ListKeys, NextKey, ReadOrigin,
       ReadDest, StatFiles
  <2>2. Opened' = Opened
    BY <2>1 DEF Opened
  <2>3. CaptureInv'
    BY <2>1, <2>2 DEF CaptureInv, RunIsLatest, FilesHaveCause, FileHasCause, WrittenIsThere
  <2> QED
    BY <1>2, <2>3, ReportSteps
<1>3. CASE Crash
  BY <1>3, CrashStep
<1>4. CASE UNCHANGED vars
  <2>1. UNCHANGED <<files, run, capture, reader>>
    BY <1>4 DEF vars
  <2>2. Opened' = Opened
    BY <2>1 DEF Opened
  <2>3. ArtifactTypeOK' /\ CaptureInv'
    BY <2>1, <2>2 DEF ArtifactTypeOK, CaptureInv, RunIsLatest, FilesHaveCause, FileHasCause,
       WrittenIsThere
  <2>4. ReportInv'
    <3>1. KeyIsRead' /\ HaveRead' = HaveRead
      BY <2>1 DEF ReportInv, KeyIsRead, HaveRead
    <3>2. ReadIsOfFile'
      BY <2>1, <3>1 DEF ReportInv, ReadIsOfFile, Untouched, Result
    <3>3. RunningIsSeen'
      BY <2>1 DEF ReportInv, RunningIsSeen
    <3> QED
      BY <3>1, <3>2, <3>3 DEF ReportInv
  <2> QED
    BY <2>3, <2>4
<1> QED
  BY <1>1, <1>2, <1>3, <1>4 DEF Next

\* The invariant holds in every behaviour.
THEOREM ArtifactInvariant == Spec => []ArtifactInv
BY ArtifactInit, ArtifactStep, PTL DEF Spec

\* No file is reported older than the text that was compared: its time is taken
\* after the read (_diff_payload_for_command).
THEOREM TimestampCorrect == Spec => []TimestampNotOlder
<1>1. ArtifactInv => TimestampNotOlder
  <2> SUFFICES ASSUME ArtifactInv, AtRow, NEW b \in Bases
               PROVE  reader.mtime[b] >= reader.read[b]
    BY DEF TimestampNotOlder
  <2>1. reader.mtime[b] \in Nat /\ reader.read[b] \in Nat
    BY DEF ArtifactInv, ArtifactTypeOK, Readers
  <2>2. reader.read[b] <= reader.mtime[b]
    BY DEF ArtifactInv, ReportInv, ReadIsOfFile, AtRow
  <2> QED
    BY <2>1, <2>2
<1> QED
  BY <1>1, ArtifactInvariant, PTL

\* A torn file that nobody is writing was left by a capture that did not end well.
THEOREM TornCorrect == Spec => []TornHasCause
<1>1. ArtifactInv => TornHasCause
  BY DEF ArtifactInv, CaptureInv, FilesHaveCause, FileHasCause, TornHasCause
<1> QED
  BY <1>1, ArtifactInvariant, PTL

\* A row says "not_captured" only of what was captured after the report began
\* (_running_host_base_pairs, _capture_status_entry).
THEOREM NotCapturedCorrect == Spec => []NotCapturedIsTrue
<1>1. ArtifactInv => NotCapturedIsTrue
  <2> SUFFICES ASSUME ArtifactInv, AtRow, NEW b \in Bases,
                      CaptureStatusEntry(b) = "not_captured",
                      NEW v \in Captures, capture[v].outcome = "ok", capture[v].base = b,
                      reader.key \in {KeyOf(c) : c \in capture[v].commands}
               PROVE  v > reader.since
    BY DEF NotCapturedIsTrue
  <2>1. reader.mtime[b] = 0 /\ b \notin reader.running
    BY DEF CaptureStatusEntry
  <2>2. ~(v <= reader.since)
    BY <2>1 DEF ArtifactInv, ReportInv, RunningIsSeen, AtRow
  <2>3. v \in Nat /\ reader.since \in Nat
    <3>1. v \in Nat
      BY ArtifactAssumption DEF Captures
    <3>2. reader.since \in Nat
      BY DEF ArtifactInv, ArtifactTypeOK, Readers
    <3> QED
      BY <3>1, <3>2
  <2> QED
    BY <2>2, <2>3
<1> QED
  BY <1>1, ArtifactInvariant, PTL

\* A set of numbers with a bound has a largest one.
LEMMA LargestExists ==
    ASSUME NEW n \in Nat, NEW T \in SUBSET (0 .. n), T # {}
    PROVE  \E v \in T : \A u \in T : u <= v
<1> DEFINE U == {x \in 0 .. n : n - x \in T}
<1>1. U \subseteq Nat /\ U # {}
  <2>1. PICK v \in T : TRUE
    OBVIOUS
  <2>2. n - v \in U
    BY <2>1
  <2>3. U \subseteq Nat
    OBVIOUS
  <2> QED
    BY <2>2, <2>3
<1> HIDE DEF U
<1>2. PICK x \in U : \A y \in U : ~(<<y, x>> \in OpToRel(<, Nat))
  BY <1>1, NatLessThanWellFounded, WFMin
<1>3. \A y \in U : ~(y < x)
  BY <1>1, <1>2 DEF OpToRel
<1>4. n - x \in T /\ x \in 0 .. n
  BY <1>2 DEF U
<1>5. ASSUME NEW u \in T
      PROVE  u <= n - x
  <2>1. n - u \in U
    BY DEF U
  <2> QED
    BY <1>3, <1>4, <2>1
<1> QED
  BY <1>4, <1>5

\* A host that is recorded as captured has the whole output of each of its commands
\* on file, until a later capture of the base writes (run_capture_task).
THEOREM OkHostCorrect == Spec => []OkHostIsOnFile
<1>1. ArtifactInv => OkHostIsOnFile
  <2> SUFFICES ASSUME ArtifactInv,
                      NEW v \in Captures, capture[v].outcome = "ok",
                      Latest(capture[v].base) <= v,
                      NEW c \in capture[v].commands
               PROVE  LET f == files[capture[v].base][KeyOf(c)] IN
                      /\ f.by = v /\ f.whole
                      /\ f.command \in {d \in capture[v].commands : KeyOf(d) = KeyOf(c)}
    BY DEF OkHostIsOnFile
  <2> DEFINE base == capture[v].base
             f    == files[base][KeyOf(c)]
             touched == {files[base][k].by : k \in Keys}
  <2>1. base \in Bases /\ c \in Commands /\ KeyOf(c) \in Keys
    BY KeysOfCommands DEF ArtifactInv, ArtifactTypeOK
  <2>2. touched \in SUBSET (0 .. MaxCaptures) /\ f.by \in touched /\ MaxCaptures \in Nat
    BY <2>1, FileAt, ArtifactAssumption DEF ArtifactInv, Files, Captures
  <2>3. \E w \in touched : \A u \in touched : u <= w
    BY <2>2, LargestExists
  <2>4. Latest(base) \in touched /\ \A u \in touched : u <= Latest(base)
    BY <2>3 DEF Latest
  <2>5. f.by >= v
    BY DEF ArtifactInv, CaptureInv, WrittenIsThere
  <2>6. f.by = v
    <3>1. v \in Nat
      BY ArtifactAssumption DEF Captures
    <3>2. f.by \in Nat /\ Latest(base) \in Nat
      BY <2>2, <2>4
    <3>3. f.by <= Latest(base) /\ Latest(base) <= v
      BY <2>2, <2>4
    <3> HIDE DEF f, base
    <3> QED
      BY <2>5, <3>1, <3>2, <3>3
  <2>7. Exists(f)
    BY <2>6, ArtifactAssumption DEF Exists, Captures
  <2>8. FileHasCause(base, KeyOf(c))
    BY <2>1 DEF ArtifactInv, CaptureInv, FilesHaveCause
  <2>9. ~(run.pc = "fill" /\ run.by = v)
    BY DEF ArtifactInv, CaptureInv, RunIsLatest, Active
  <2> QED
    BY <2>6, <2>7, <2>8, <2>9 DEF FileHasCause
<1> QED
  BY <1>1, ArtifactInvariant, PTL

-----------------------------------------------------------------------------
(* The verdict on a pair of outputs (DiffStatus).                           *)

\* Texts that differ are not identical, for neither of the two computations.
LEMMA DifferentIsNotIdentical ==
    ASSUME NEW o, NEW d, o # d
    PROVE  ComputeDiffStatus(o, d) # "identical" /\ ComputeDiff(o, d) # "identical"
<1>1. Segments(o, d) \in {<<1>>, <<-1>>, <<0, -1, 1>>}
  BY DEF Segments
<1>2. CASE Segments(o, d) = <<1>>
  BY <1>2 DEF ComputeDiffStatus, ComputeDiff
<1>3. CASE Segments(o, d) = <<-1>>
  BY <1>3 DEF ComputeDiffStatus, ComputeDiff
<1>4. CASE Segments(o, d) = <<0, -1, 1>>
  <2>1. Len(<<0, -1, 1>>) = 3 /\ 2 \in DOMAIN <<0, -1, 1>> /\ <<0, -1, 1>>[2] = -1
    OBVIOUS
  <2> QED
    BY <1>4, <2>1 DEF ComputeDiffStatus, ComputeDiff
<1> QED
  BY <1>1, <1>2, <1>3, <1>4

\* A pair that some endpoint counts as identical was read, and its texts are equal.
LEMMA IdenticalTexts ==
    ASSUME NEW o, NEW d, "identical" \in Categories(o, d)
    PROVE  Both(o, d, "available") /\ o.text = d.text
<1>1. PICK s \in {DetailStatus(o, d), SummaryStatus(o, d), ExportStatus(o, d)}
                     \cup {DiffHostStatus(o, d, view) : view \in Views}
                     \cup (IF Both(o, d, "available")
                           THEN {CompareStatus(o.text, d.text, view) : view \in Views} ELSE {}) :
          ResultCategory(s) = "identical"
  BY DEF Categories
<1>2. s = "identical"
  BY <1>1 DEF ResultCategory
<1>3. CASE ~Both(o, d, "available")
  <2>1. PartialStatus(o, d) # "identical"
    BY DEF PartialStatus
  <2> QED
    BY <1>1, <1>2, <1>3, <2>1 DEF DetailStatus, SummaryStatus, ExportStatus, DiffHostStatus
<1>4. CASE Both(o, d, "available")
  <2>1. s \in {ComputeDiffStatus(o.text, d.text), ComputeDiff(o.text, d.text)}
    BY <1>1, <1>4 DEF DetailStatus, SummaryStatus, ExportStatus, DiffHostStatus, CompareStatus
  <2> QED
    BY <1>2, <1>4, <2>1, DifferentIsNotIdentical
<1> QED
  BY <1>3, <1>4

\* Whatever is captured meanwhile, no endpoint counts files as identical that hold
\* different outputs and were not touched since they were read
\* (read_output_by_key, compute_diff, compute_diff_status).
THEOREM IdenticalCorrect == Spec => []IdenticalIsTrue
<1>1. ArtifactInv => IdenticalIsTrue
  <2> SUFFICES ASSUME ArtifactInv, AtRow, \A b \in Bases : Untouched(b),
                      "identical" \in Categories(reader.origin, reader.dest)
               PROVE  files["origin"][reader.key].text = files["dest"][reader.key].text
    BY DEF IdenticalIsTrue
  <2>1. Both(reader.origin, reader.dest, "available") /\ reader.origin.text = reader.dest.text
    BY IdenticalTexts
  <2>2. \A b \in Bases :
           Result(b).status = "error" \/ Result(b).text = files[b][reader.key].text
    BY DEF ArtifactInv, ReportInv, ReadIsOfFile, HaveRead, AtRow
  <2> QED
    BY <2>1, <2>2 DEF Result, Both, Bases
<1> QED
  BY <1>1, ArtifactInvariant, PTL
=============================================================================
