------------------------------- MODULE Cutover -------------------------------
(***************************************************************************)
(* The JSON files of a cutover and the tools that read them: the readiness  *)
(* report of the service, the checks of scripts/check-v2-*.py and the       *)
(* decision of scripts/evaluate-v2-cutover.py.  A file is missing, is       *)
(* malformed (a download that failed leaves it empty) or holds a payload;   *)
(* "by" names the attempt that produced the payload.                        *)
(***************************************************************************)
EXTENDS Naturals

CONSTANTS
    ReadyQueued, ReadyRunning, ReadyLocked,           \* readiness_max_* of the service
    MaxQueued, MaxRunning, MaxFailed, MaxLocked       \* V2_CUTOVER_MAX_* of the tool

ASSUME CutoverAssumption ==
    {ReadyQueued, ReadyRunning, ReadyLocked,
     MaxQueued, MaxRunning, MaxFailed, MaxLocked} \subseteq Nat

Missing   == [state |-> "missing"]
Malformed == [state |-> "malformed"]
Holds(file) == file.state = "holds"

\* GET /system/readiness: failed tasks are reported but not tested.
BuildReadiness(counts, contractOk, by) ==
    [state |-> "holds", by |-> by, counts |-> counts,
     status |-> IF /\ contractOk
                   /\ counts.queued <= ReadyQueued
                   /\ counts.running <= ReadyRunning
                   /\ counts.locked <= ReadyLocked
                THEN "ok" ELSE "degraded"]

\* Exit code of check-v2-readiness.py; a malformed file is an exception.
ReadinessExit(readiness, allowMissing) ==
    IF readiness = Missing THEN IF allowMissing THEN 0 ELSE 1
    ELSE IF Holds(readiness) /\ readiness.status = "ok" THEN 0 ELSE 1

\* Exit code of check-v2-locks.py with the default limit, never reached here.
LocksExit(locks, allowMissing) ==
    IF locks = Missing THEN IF allowMissing THEN 0 ELSE 1
    ELSE IF Holds(locks) /\ locks.stale = 0 THEN 0 ELSE 1

WithinLimits(counts) ==
    /\ counts.queued <= MaxQueued
    /\ counts.running <= MaxRunning
    /\ counts.failed <= MaxFailed
    /\ counts.locked <= MaxLocked

\* evaluate-v2-cutover.py.  The deployment file counts only if it is there.
Go(readiness, contractDiff, deploy) ==
    /\ readiness.status = "ok"
    /\ ~contractDiff.has_diff
    /\ Holds(deploy) => deploy.status = "ok"
    /\ WithinLimits(readiness.counts)

\* What the tool writes: nothing if a file it opens is malformed, a NO-GO if a
\* required one is missing.
Evaluation(readiness, contractDiff, deploy, by) ==
    IF Malformed \in {readiness, contractDiff} THEN Malformed
    ELSE IF Missing \in {readiness, contractDiff}
         THEN [state |-> "holds", by |-> by, go |-> FALSE, missing |-> TRUE]
    ELSE IF deploy = Malformed THEN Malformed
    ELSE [state |-> "holds", by |-> by, missing |-> FALSE,
          go |-> Go(readiness, contractDiff, deploy)]

EvaluationExit(evaluation, allowMissing, allowNoGo) ==
    IF evaluation = Malformed THEN 1
    ELSE IF evaluation.missing THEN IF allowMissing THEN 0 ELSE 1
    ELSE IF evaluation.go \/ allowNoGo THEN 0 ELSE 1

\* The decision line of render-v2-cutover-message.py.
Message(evaluation) ==
    [state |-> "holds",
     decision |-> IF Holds(evaluation) /\ evaluation.go THEN "GO" ELSE "NO-GO"]
=============================================================================
