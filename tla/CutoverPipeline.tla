--------------------------- MODULE CutoverPipeline ---------------------------
(***************************************************************************)
(* The two ways a cutover is decided: run-v2-preflight.sh, which stops at   *)
(* the first step that fails, and run-v2-ci-contract-suite.sh with its      *)
(* post-checks, which goes on and adds up the exit codes.  Both leave their *)
(* files in the artifact directory, where the next attempt finds them.      *)
(***************************************************************************)
EXTENDS Cutover, FiniteSets

CONSTANTS
    MaxAttempts,   \* bound on attempts
    MaxCount       \* bound on each counter of the service

ASSUME PipelineAssumption == {MaxAttempts, MaxCount} \subseteq Nat

Pipelines == {"preflight", "ci"}

VARIABLES
    attempt, pipeline, step,
    rc,         \* 0 while every step so far succeeded
    now,        \* the service and the repository during this attempt
    candidate,  \* v2_contract_current.json
    contractDiff, readiness, locks, deploy, evaluation, message

files == <<candidate, contractDiff, readiness, locks, deploy, evaluation, message>>
vars  == <<attempt, pipeline, step, rc, now, files>>

Conditions ==
    [drift: BOOLEAN, contractOk: BOOLEAN, deployOk: BOOLEAN, stale: 0 .. 1,
     queued: 0 .. MaxCount, running: 0 .. MaxCount, failed: 0 .. MaxCount,
     locked: 0 .. MaxCount]

Init ==
    /\ attempt = 0 /\ rc = 0
    /\ pipeline = "preflight" /\ step = "ended"
    /\ now \in Conditions
    /\ candidate = Missing /\ contractDiff = Missing /\ readiness = Missing
    /\ locks = Missing /\ deploy = Missing /\ evaluation = Missing
    /\ message = Missing

FirstStep(p) == IF p = "preflight" THEN "smoke" ELSE "deploy"

Begin ==
    /\ step = "ended"
    /\ attempt < MaxAttempts
    /\ attempt' = attempt + 1
    /\ pipeline' \in Pipelines
    /\ step' = FirstStep(pipeline')
    /\ now' \in Conditions
    /\ rc' = 0
    /\ UNCHANGED files

\* What follows each step; both end with the message.
After(s) ==
    CASE pipeline = "preflight" ->
           (CASE s = "smoke"     -> "generate"
              [] s = "generate"  -> "diff"
              [] s = "diff"      -> "readiness"
              [] s = "readiness" -> "locks"
              [] s = "locks"     -> "deploy"
              [] s = "deploy"    -> "evaluate"
              [] s = "evaluate"  -> "render"
              [] s = "render"    -> "ended")
      [] pipeline = "ci" ->
           (CASE s = "deploy"    -> "generate"
              [] s = "generate"  -> "diff"
              [] s = "diff"      -> "smoke"
              [] s = "smoke"     -> "readiness"
              [] s = "readiness" -> "locks"
              [] s = "locks"     -> "evaluate"
              [] s = "evaluate"  -> "render"
              [] s = "render"    -> "ended")

\* Mutant of Leave: the exit code of the smoke check is not added up.
LeaveSmokeUnchecked(s, code) ==
    /\ step = s
    /\ rc' = IF code = 0 \/ s = "smoke" THEN rc ELSE 1
    /\ step' = IF code # 0 /\ pipeline = "preflight" THEN "ended" ELSE After(s)
    /\ UNCHANGED <<attempt, pipeline, now>>

\* set -e stops the preflight; the suite keeps each exit code for the end.
Leave(s, code) ==
    /\ step = s
    /\ rc' = IF code = 0 THEN rc ELSE 1
    /\ step' = IF code # 0 /\ pipeline = "preflight" THEN "ended" ELSE After(s)
    /\ UNCHANGED <<attempt, pipeline, now>>

Counts == [queued |-> now.queued, running |-> now.running, failed |-> now.failed,
           locked |-> now.locked]

\* check-v2-contract.sh starts the service and downloads its reports; curl
\* truncates the file it then fails to fill.
Smoke ==
    LET report == BuildReadiness(Counts, now.contractOk, attempt)
        listing == [state |-> "holds", by |-> attempt, stale |-> now.stale]
        passed == LocksExit(listing, FALSE) = 0 /\ report.status = "ok" /\ now.contractOk
    IN
    /\ \/ Leave("smoke", 1) /\ UNCHANGED <<readiness, locks>>
       \/ Leave("smoke", 1) /\ readiness' = Malformed /\ UNCHANGED locks
       \/ Leave("smoke", 1) /\ readiness' = report /\ locks' = Malformed
       \/ Leave("smoke", IF passed THEN 0 ELSE 1) /\ readiness' = report /\ locks' = listing
    /\ UNCHANGED <<candidate, contractDiff, deploy, evaluation, message>>

\* generate-v2-contract.py imports the application, which may fail.
Generate ==
    /\ \/ Leave("generate", 1) /\ UNCHANGED candidate
       \/ /\ Leave("generate", 0)
          /\ candidate' = [state |-> "holds", by |-> attempt, drift |-> now.drift]
    /\ UNCHANGED <<contractDiff, readiness, locks, deploy, evaluation, message>>

\* diff-v2-contract.py; the suite runs it again with --fail-on-diff.
Diff ==
    /\ \/ /\ Holds(candidate)
          /\ contractDiff' = [state |-> "holds", by |-> candidate.by, has_diff |-> candidate.drift]
          /\ Leave("diff", IF pipeline = "ci" /\ candidate.drift THEN 1 ELSE 0)
       \/ ~Holds(candidate) /\ Leave("diff", 1) /\ UNCHANGED contractDiff
    /\ UNCHANGED <<candidate, readiness, locks, deploy, evaluation, message>>

\* validate-deploy-templates.sh.  In CI it is a step of its own, and the suite
\* runs whether it failed, or was never reached (if: always()).
ValidateDeploy ==
    /\ \/ /\ deploy' = [state |-> "holds", by |-> attempt,
                        status |-> IF now.deployOk THEN "ok" ELSE "failed"]
          /\ Leave("deploy", IF pipeline = "ci" \/ now.deployOk THEN 0 ELSE 1)
       \/ pipeline = "ci" /\ Leave("deploy", 0) /\ UNCHANGED deploy
    /\ UNCHANGED <<candidate, contractDiff, readiness, locks, evaluation, message>>

Lenient == pipeline = "ci"   \* --allow-missing

CheckReadiness == Leave("readiness", ReadinessExit(readiness, Lenient)) /\ UNCHANGED files
CheckLocks     == Leave("locks", LocksExit(locks, Lenient)) /\ UNCHANGED files

\* An exception leaves the evaluation of an earlier attempt in its place.
Evaluate ==
    LET result == Evaluation(readiness, contractDiff, deploy, attempt) IN
    /\ Leave("evaluate", EvaluationExit(result, Lenient, FALSE))
    /\ evaluation' = IF result = Malformed THEN evaluation ELSE result
    /\ UNCHANGED <<candidate, contractDiff, readiness, locks, deploy, message>>

Render ==
    /\ Leave("render", IF Holds(evaluation) \/ Lenient THEN 0 ELSE 1)
    /\ message' = Message(evaluation)
    /\ UNCHANGED <<candidate, contractDiff, readiness, locks, deploy, evaluation>>

Next ==
    \/ Begin
    \/ Smoke \/ Generate \/ Diff \/ ValidateDeploy \/ CheckReadiness \/ CheckLocks
    \/ Evaluate \/ Render

Spec == Init /\ [][Next]_vars
-----------------------------------------------------------------------------
(* Properties                                                               *)

Announced == step = "ended" /\ attempt > 0 /\ rc = 0 /\ Holds(message) /\ message.decision = "GO"

\* An attempt that exits with 0 and announces GO decided on its own readiness report
\* and contract diff, none left over from an earlier attempt, and what they say holds
\* of the service and the repository as they were in this attempt.  Of the deploy
\* report that is so for the preflight only (Leave, Evaluation).
GoOnOwnReports ==
    Announced =>
        /\ \A file \in {readiness, contractDiff, evaluation} : Holds(file) /\ file.by = attempt
        /\ ~now.drift /\ now.contractOk /\ WithinLimits(Counts)
        /\ pipeline = "preflight" => Holds(deploy) /\ deploy.by = attempt /\ now.deployOk

\* The gate of the checklist: the deploy report says ok of this attempt, whichever
\* pipeline announces GO.
GoPassedDeployGate ==
    Announced => Holds(deploy) /\ deploy.by = attempt /\ now.deployOk
=============================================================================
