------------------------- MODULE CutoverPipelineProofs -------------------------
(***************************************************************************)
(* A GO is decided on the readiness report and the contract diff of the     *)
(* attempt that announces it, and by preflight on its deploy report too,    *)
(* for any number of attempts, any limits and any counters, although every  *)
(* file of an earlier attempt is still there when a step fails.             *)
(***************************************************************************)
EXTENDS CutoverPipeline, TLAPS

-----------------------------------------------------------------------------
(* Types.                                                                   *)

Steps == {"smoke", "generate", "diff", "readiness", "locks", "deploy",
          "evaluate", "render", "ended"}

CountsType    == [queued: Nat, running: Nat, failed: Nat, locked: Nat]
Candidates    == [state: {"holds"}, by: Nat, drift: BOOLEAN]
ContractDiffs == [state: {"holds"}, by: Nat, has_diff: BOOLEAN]
Readinesses   == [state: {"holds"}, by: Nat, counts: CountsType, status: {"ok", "degraded"}]
Listings      == [state: {"holds"}, by: Nat, stale: {0, 1}]
Deployments   == [state: {"holds"}, by: Nat, status: {"ok", "failed"}]
Evaluations   == [state: {"holds"}, by: Nat, go: BOOLEAN, missing: BOOLEAN]
Messages      == [state: {"holds"}, decision: {"GO", "NO-GO"}]

\* Each file is missing, was truncated by a download, or holds its own kind of
\* payload; only what curl downloads is ever malformed.
PipelineTypeOK ==
    /\ attempt \in Nat
    /\ pipeline \in Pipelines
    /\ step \in Steps
    /\ rc \in {0, 1}
    /\ now \in Conditions
    /\ candidate \in {Missing} \cup Candidates
    /\ contractDiff \in {Missing} \cup ContractDiffs
    /\ readiness \in {Missing, Malformed} \cup Readinesses
    /\ locks \in {Missing, Malformed} \cup Listings
    /\ deploy \in {Missing} \cup Deployments
    /\ evaluation \in {Missing} \cup Evaluations
    /\ message \in {Missing} \cup Messages

\* The counters of the service are numbers.
LEMMA CountsAreNumbers == ASSUME now \in Conditions PROVE Counts \in CountsType
BY PipelineAssumption DEF Counts, CountsType, Conditions

\* What build_readiness answers.
LEMMA ReadinessType ==
    ASSUME NEW counts \in CountsType, NEW ok \in BOOLEAN, NEW by \in Nat
    PROVE  BuildReadiness(counts, ok, by) \in Readinesses
BY DEF BuildReadiness, Readinesses

\* What evaluate-v2-cutover.py returns, or that it raised.
LEMMA EvaluationType ==
    ASSUME PipelineTypeOK
    PROVE  Evaluation(readiness, contractDiff, deploy, attempt) \in {Malformed} \cup Evaluations
<1>1. attempt \in Nat
  BY DEF PipelineTypeOK
<1>2. Go(readiness, contractDiff, deploy) \in BOOLEAN
  BY DEF Go
<1> QED
  BY <1>1, <1>2 DEF Evaluation, Evaluations

\* A step is left for the next one of its pipeline, or for the end.
LEMMA LeaveType ==
    ASSUME PipelineTypeOK, NEW s \in Steps \ {"ended"}, NEW code, Leave(s, code)
    PROVE  /\ step' \in Steps /\ rc' \in {0, 1}
           /\ UNCHANGED <<attempt, pipeline, now>>
<1>1. After(s) \in Steps
  BY DEF PipelineTypeOK, Pipelines, After, Steps
<1> QED
  BY <1>1 DEF PipelineTypeOK, Leave, Steps

\* There are no files before the first attempt.
LEMMA PipelineTypeInit == Init => PipelineTypeOK
BY DEF Init, PipelineTypeOK, Pipelines, Steps

\* Every step writes its files in their types, or leaves them.
LEMMA PipelineTypeStep == PipelineTypeOK /\ [Next]_vars => PipelineTypeOK'
<1> SUFFICES ASSUME PipelineTypeOK, [Next]_vars PROVE PipelineTypeOK'
  OBVIOUS
<1>0. attempt \in Nat /\ now \in Conditions /\ Counts \in CountsType
  BY CountsAreNumbers DEF PipelineTypeOK
<1>1. CASE Begin
  <2>1. FirstStep(pipeline') \in Steps
    BY DEF FirstStep, Steps
  <2> QED
    BY <1>1, <2>1 DEF Begin, files, PipelineTypeOK
<1>2. CASE Smoke
  <2> DEFINE report == BuildReadiness(Counts, now.contractOk, attempt)
             listing == [state |-> "holds", by |-> attempt, stale |-> now.stale]
  <2>1. report \in Readinesses
    BY <1>0, ReadinessType DEF Conditions
  <2>2. listing \in Listings
    BY <1>0 DEF Listings, Conditions
  <2>3. \E code : Leave("smoke", code)
    BY <1>2 DEF Smoke
  <2>4. /\ readiness' \in {readiness, Malformed, report}
        /\ locks' \in {locks, Malformed, listing}
        /\ UNCHANGED <<candidate, contractDiff, deploy, evaluation, message>>
    BY <1>2 DEF Smoke
  <2> HIDE DEF report, listing
  <2> QED
    BY <2>1, <2>2, <2>3, <2>4, LeaveType DEF PipelineTypeOK, Steps
<1>3. CASE Generate
  <2>1. [state |-> "holds", by |-> attempt, drift |-> now.drift] \in Candidates
    BY <1>0 DEF Candidates, Conditions
  <2>2. \E code : Leave("generate", code)
    BY <1>3 DEF Generate
  <2> QED
    BY <1>3, <2>1, <2>2, LeaveType DEF Generate, PipelineTypeOK, Steps
<1>4. CASE Diff
  <2>1. Holds(candidate) =>
           [state |-> "holds", by |-> candidate.by, has_diff |-> candidate.drift] \in ContractDiffs
    BY DEF PipelineTypeOK, Holds, Missing, Candidates, ContractDiffs
  <2>2. \E code : Leave("diff", code)
    BY <1>4 DEF Diff
  <2> QED
    BY <1>4, <2>1, <2>2, LeaveType DEF Diff, PipelineTypeOK, Steps
<1>5. CASE ValidateDeploy
  <2>1. [state |-> "holds", by |-> attempt, status |-> IF now.deployOk THEN "ok" ELSE "failed"]
            \in Deployments
    BY <1>0 DEF Deployments
  <2>2. \E code : Leave("deploy", code)
    BY <1>5 DEF ValidateDeploy
  <2> QED
    BY <1>5, <2>1, <2>2, LeaveType DEF ValidateDeploy, PipelineTypeOK, Steps
<1>6. CASE CheckReadiness
  BY <1>6, LeaveType DEF CheckReadiness, files, PipelineTypeOK, Steps
<1>7. CASE CheckLocks
  BY <1>7, LeaveType DEF CheckLocks, files, PipelineTypeOK, Steps
<1>8. CASE Evaluate
  BY <1>8, EvaluationType, LeaveType DEF Evaluate, PipelineTypeOK, Steps
<1>9. CASE Render
  <2>1. Message(evaluation) \in Messages
    BY DEF Message, Messages
  <2> QED
    BY <1>9, <2>1, LeaveType DEF Render, PipelineTypeOK, Steps
<1>10. CASE UNCHANGED vars
  BY <1>10 DEF vars, files, PipelineTypeOK
<1> QED
  BY <1>1, <1>2, <1>3, <1>4, <1>5, <1>6, <1>7, <1>8, <1>9, <1>10 DEF Next

-----------------------------------------------------------------------------
(* The order of the steps.                                                  *)

\* The place of each step in the preflight and in the suite.
Place == [preflight |-> [smoke |-> 1, generate |-> 2, diff |-> 3, readiness |-> 4,
                         locks |-> 5, deploy |-> 6, evaluate |-> 7, render |-> 8,
                         ended |-> 9],
          ci        |-> [deploy |-> 1, generate |-> 2, diff |-> 3, smoke |-> 4,
                         readiness |-> 5, locks |-> 6, evaluate |-> 7, render |-> 8,
                         ended |-> 9]]

\* Step s of this attempt lies behind.
Passed(s) == Place[pipeline][s] < Place[pipeline][step]

\* Both pipelines evaluate last, on files that are not written again, and compare
\* the contract they have just generated.
LEMMA StepOrder ==
    ASSUME PipelineTypeOK
    PROVE  /\ ~Passed(step)
           /\ step = "diff" => Passed("generate")
           /\ step = "evaluate" \/ Passed("evaluate") =>
                 /\ \A s \in {"smoke", "generate", "diff", "deploy"} : Passed(s)
           /\ step = "render" \/ Passed("render") => Passed("evaluate")
           /\ step = "ended" => Passed("render")
<1>1. CASE pipeline = "preflight"
  BY <1>1 DEF PipelineTypeOK, Steps, Place, Passed
<1>2. CASE pipeline = "ci"
  BY <1>2 DEF PipelineTypeOK, Steps, Place, Passed
<1> QED
  BY <1>1, <1>2 DEF PipelineTypeOK, Pipelines

\* Leaving a step with success puts exactly that step behind.
LEMMA PassedStep ==
    ASSUME PipelineTypeOK, NEW s \in Steps \ {"ended"}, NEW code, Leave(s, code), rc' = 0
    PROVE  /\ step = s /\ rc = 0 /\ code = 0
           /\ UNCHANGED <<attempt, pipeline, now>>
           /\ \A u \in Steps \ {"ended"} : Passed(u)' <=> Passed(u) \/ u = s
<1>1. /\ step = s /\ rc = 0 /\ code = 0 /\ UNCHANGED <<attempt, pipeline, now>>
      /\ step' = After(s)
  BY DEF Leave
<1>2. CASE pipeline = "preflight"
  BY <1>1, <1>2 DEF Steps, Place, Passed, After
<1>3. CASE pipeline = "ci"
  BY <1>1, <1>3 DEF Steps, Place, Passed, After
<1> QED
  BY <1>1, <1>2, <1>3 DEF PipelineTypeOK, Pipelines

-----------------------------------------------------------------------------
(* The files of an attempt.                                                 *)

\* While every step of an attempt succeeded, the file of each step that lies
\* behind was written by it, and says what held of the service and the repository.
OwnFiles ==
    rc = 0 /\ attempt > 0 =>
        /\ Passed("smoke") =>
              /\ readiness = BuildReadiness(Counts, TRUE, attempt)
              /\ now.contractOk
        /\ Passed("generate") =>
              candidate = [state |-> "holds", by |-> attempt, drift |-> now.drift]
        /\ Passed("diff") =>
              contractDiff = [state |-> "holds", by |-> attempt, has_diff |-> now.drift]
        /\ Passed("deploy") /\ pipeline = "preflight" =>
              Holds(deploy) /\ deploy.by = attempt
        /\ Passed("evaluate") =>
              /\ Holds(evaluation)
              /\ evaluation = Evaluation(readiness, contractDiff, deploy, attempt)
        /\ Passed("render") => message = Message(evaluation)

\* No deployment report is from a later attempt, and one of this attempt tells
\* what the check found: the suite may go on without it, so it is not in OwnFiles.
DeployIsDated ==
    Holds(deploy) =>
        /\ deploy.by <= attempt
        /\ deploy.by = attempt => (deploy.status = "ok" <=> now.deployOk)

PipelineInv == PipelineTypeOK /\ OwnFiles /\ DeployIsDated

\* Only validate-deploy-templates.sh writes the report, and a new attempt makes
\* every report an older one.
LEMMA DeployIsDatedStep ==
    ASSUME PipelineTypeOK, DeployIsDated, [Next]_vars
    PROVE  DeployIsDated'
<1> USE DEF DeployIsDated
<1>1. attempt \in Nat /\ (Holds(deploy) => deploy.by \in Nat)
  BY DEF PipelineTypeOK, Holds, Missing, Deployments
<1>2. CASE Begin
  <2>1. attempt' = attempt + 1 /\ deploy' = deploy
    BY <1>2 DEF Begin, files
  <2> QED
    BY <1>1, <2>1 DEF Holds
<1>3. CASE ValidateDeploy
  <2>1. attempt' = attempt /\ now' = now
    BY <1>3 DEF ValidateDeploy, Leave
  <2>2. \/ deploy' = deploy
        \/ deploy' = [state |-> "holds", by |-> attempt,
                      status |-> IF now.deployOk THEN "ok" ELSE "failed"]
    BY <1>3 DEF ValidateDeploy
  <2> QED
    BY <1>1, <2>1, <2>2 DEF Holds
<1>4. CASE UNCHANGED <<attempt, now, deploy>>
  BY <1>4 DEF Holds
<1> QED
  BY <1>2, <1>3, <1>4
  DEF Next, vars, files, Smoke, Generate, Diff, CheckReadiness, CheckLocks, Evaluate, Render, Leave

\* A step that succeeds wrote its file, and no file of a step behind is written
\* again before the end.
LEMMA OwnFilesStep ==
    ASSUME PipelineTypeOK, OwnFiles, [Next]_vars
    PROVE  OwnFiles'
<1> SUFFICES ASSUME rc' = 0, attempt' > 0 PROVE OwnFiles'
  BY DEF OwnFiles
<1> DEFINE Same(s) == Passed(s)' <=> Passed(s)
           Others(s) == \A u \in Steps \ {"ended", s} : Same(u)
<1>1. CASE Begin
  <2>1. step' = FirstStep(pipeline') /\ pipeline' \in Pipelines
    BY <1>1 DEF Begin
  <2>2. \A s \in Steps : ~Passed(s)'
    BY <2>1 DEF FirstStep, Pipelines, Steps, Place, Passed
  <2> QED
    BY <2>2 DEF OwnFiles, Steps
<1>2. CASE Smoke
  <2> DEFINE report == BuildReadiness(Counts, now.contractOk, attempt)
             listing == [state |-> "holds", by |-> attempt, stale |-> now.stale]
             passed == LocksExit(listing, FALSE) = 0 /\ report.status = "ok" /\ now.contractOk
  <2>1. PICK code \in {0, 1} :
           Leave("smoke", code) /\ (code = 0 => readiness' = report /\ passed)
    <3>1. \/ Leave("smoke", 1)
          \/ Leave("smoke", IF passed THEN 0 ELSE 1) /\ readiness' = report
      BY <1>2 DEF Smoke
    <3> HIDE DEF report, passed
    <3> QED
      BY <3>1
  <2>2. /\ step = "smoke" /\ rc = 0 /\ code = 0 /\ UNCHANGED <<attempt, pipeline, now>>
        /\ Others("smoke")
    BY <2>1, PassedStep DEF Steps
  <2>3. ~Passed("smoke") /\ ~Passed("evaluate") /\ ~Passed("render")
    BY <2>2, StepOrder
  <2>4. UNCHANGED <<candidate, contractDiff, deploy, evaluation, message>>
    BY <1>2 DEF Smoke
  <2>5. now.contractOk = TRUE /\ Counts' = Counts
    BY <2>1, <2>2 DEF PipelineTypeOK, Conditions, Counts
  <2> QED
    BY <2>1, <2>2, <2>3, <2>4, <2>5 DEF OwnFiles, Steps
<1>3. CASE Generate
  <2>1. \/ Leave("generate", 1)
        \/ /\ Leave("generate", 0)
           /\ candidate' = [state |-> "holds", by |-> attempt, drift |-> now.drift]
    BY <1>3 DEF Generate
  <2>2. /\ step = "generate" /\ rc = 0 /\ UNCHANGED <<attempt, pipeline, now>>
        /\ candidate' = [state |-> "holds", by |-> attempt, drift |-> now.drift]
        /\ Others("generate")
    BY <2>1, PassedStep DEF Steps
  <2>3. ~Passed("evaluate") /\ ~Passed("render")
    BY <2>2, StepOrder
  <2>4. UNCHANGED <<contractDiff, readiness, deploy, evaluation, message>> /\ Counts' = Counts
    BY <1>3, <2>2 DEF Generate, Counts
  <2> QED
    BY <2>2, <2>3, <2>4 DEF OwnFiles, Steps
<1>4. CASE Diff
  <2>1. PICK code \in {0, 1} :
           /\ Leave("diff", code)
           /\ code = 0 => contractDiff' = [state |-> "holds", by |-> candidate.by,
                                           has_diff |-> candidate.drift]
    BY <1>4 DEF Diff
  <2>2. /\ step = "diff" /\ rc = 0 /\ code = 0 /\ UNCHANGED <<attempt, pipeline, now>>
        /\ Others("diff")
    BY <2>1, PassedStep DEF Steps
  <2>3. Passed("generate") /\ ~Passed("evaluate") /\ ~Passed("render")
    BY <2>2, StepOrder
  <2>4. candidate = [state |-> "holds", by |-> attempt, drift |-> now.drift]
    BY <2>2, <2>3 DEF OwnFiles
  <2>5. contractDiff' = [state |-> "holds", by |-> attempt, has_diff |-> now.drift]
    BY <2>1, <2>2, <2>4
  <2>6. UNCHANGED <<candidate, readiness, deploy, evaluation, message>> /\ Counts' = Counts
    BY <1>4, <2>2 DEF Diff, Counts
  <2> QED
    BY <2>2, <2>3, <2>4, <2>5, <2>6 DEF OwnFiles, Steps
<1>5. CASE ValidateDeploy
  <2>1. PICK code \in {0, 1} :
           /\ Leave("deploy", code)
           /\ pipeline = "preflight" => deploy'.state = "holds" /\ deploy'.by = attempt
    BY <1>5 DEF ValidateDeploy, Pipelines
  <2>2. /\ step = "deploy" /\ rc = 0 /\ UNCHANGED <<attempt, pipeline, now>>
        /\ Others("deploy")
    BY <2>1, PassedStep DEF Steps
  <2>3. ~Passed("evaluate") /\ ~Passed("render")
    BY <2>2, StepOrder
  <2>4. UNCHANGED <<candidate, contractDiff, readiness, evaluation, message>> /\ Counts' = Counts
    BY <1>5, <2>2 DEF ValidateDeploy, Counts
  <2> QED
    BY <2>1, <2>2, <2>3, <2>4 DEF OwnFiles, Steps, Holds
<1>6. CASE CheckReadiness \/ CheckLocks
  <2>1. PICK s \in {"readiness", "locks"}, code \in {0, 1} : Leave(s, code)
    BY <1>6 DEF CheckReadiness, CheckLocks, ReadinessExit, LocksExit
  <2>2. rc = 0 /\ UNCHANGED <<attempt, pipeline, now>> /\ Others(s)
    BY <2>1, PassedStep DEF Steps
  <2>3. UNCHANGED files /\ Counts' = Counts
    BY <1>6, <2>2 DEF CheckReadiness, CheckLocks, Counts
  <2> QED
    BY <2>2, <2>3 DEF OwnFiles, Steps, files
<1>7. CASE Evaluate
  <2> DEFINE result == Evaluation(readiness, contractDiff, deploy, attempt)
  <2>1. PICK code \in {0, 1} :
           code = EvaluationExit(result, Lenient, FALSE) /\ Leave("evaluate", code)
    BY <1>7 DEF Evaluate, EvaluationExit
  <2>2. /\ step = "evaluate" /\ rc = 0 /\ UNCHANGED <<attempt, pipeline, now>>
        /\ code = 0 /\ Others("evaluate")
    BY <2>1, PassedStep DEF Steps
  <2>3. result # Malformed /\ result \in Evaluations
    BY <2>1, <2>2, EvaluationType DEF EvaluationExit
  <2>4. evaluation' = result /\ Holds(result)
    BY <1>7, <2>3 DEF Evaluate, Evaluations, Holds
  <2>5. ~Passed("render")
    BY <2>2, StepOrder
  <2>6. UNCHANGED <<candidate, contractDiff, readiness, deploy, message>> /\ Counts' = Counts
    BY <1>7, <2>2 DEF Evaluate, Counts
  <2>7. Holds(evaluation)' /\ evaluation' = Evaluation(readiness, contractDiff, deploy, attempt)'
    BY <2>2, <2>4, <2>6 DEF Holds
  <2> HIDE DEF result
  <2> QED
    BY <2>2, <2>5, <2>6, <2>7 DEF OwnFiles, Steps
<1>8. CASE Render
  <2>1. PICK code \in {0, 1} : Leave("render", code)
    BY <1>8 DEF Render
  <2>2. rc = 0 /\ UNCHANGED <<attempt, pipeline, now>> /\ Others("render")
    BY <2>1, PassedStep DEF Steps
  <2>3. /\ message' = Message(evaluation) /\ Counts' = Counts
        /\ UNCHANGED <<candidate, contractDiff, readiness, locks, deploy, evaluation>>
    BY <1>8, <2>2 DEF Render, Counts
  <2> QED
    BY <2>2, <2>3 DEF OwnFiles, Steps
<1>9. CASE UNCHANGED vars
  BY <1>9 DEF vars, files, OwnFiles, Passed, Counts
<1> QED
  BY <1>1, <1>2, <1>3, <1>4, <1>5, <1>6, <1>7, <1>8, <1>9 DEF Next

\* The inductive invariant of both pipelines.
THEOREM PipelineInvariant == Spec => []PipelineInv
<1>1. Init => PipelineInv
  BY PipelineTypeInit DEF Init, PipelineInv, OwnFiles, DeployIsDated, Holds, Missing
<1>2. PipelineInv /\ [Next]_vars => PipelineInv'
  BY PipelineTypeStep, OwnFilesStep, DeployIsDatedStep DEF PipelineInv
<1> QED
  BY <1>1, <1>2, PTL DEF Spec

\* Whoever reads GO from an attempt that exits with 0 reads a verdict on the readiness
\* report and the contract diff of that attempt, and in the preflight on its deploy
\* report too, whatever earlier attempts left behind and wherever they failed
\* (run-v2-preflight.sh, run-v2-ci-contract-suite.sh, evaluate-v2-cutover.py).
THEOREM GoCorrect == Spec => []GoOnOwnReports
<1>1. PipelineInv => GoOnOwnReports
  <2> SUFFICES ASSUME PipelineInv, Announced PROVE GoOnOwnReports
    BY DEF GoOnOwnReports
  <2> USE DEF PipelineInv
  <2>1. step = "ended" /\ attempt > 0 /\ rc = 0 /\ message.decision = "GO"
    BY DEF Announced
  <2>2. \A s \in {"smoke", "generate", "diff", "deploy", "evaluate", "render"} : Passed(s)
    BY <2>1, StepOrder
  <2>3. /\ readiness = BuildReadiness(Counts, TRUE, attempt) /\ now.contractOk
        /\ contractDiff = [state |-> "holds", by |-> attempt, has_diff |-> now.drift]
        /\ pipeline = "preflight" => Holds(deploy) /\ deploy.by = attempt
        /\ evaluation = Evaluation(readiness, contractDiff, deploy, attempt)
        /\ Holds(evaluation)
        /\ message = Message(evaluation)
    BY <2>1, <2>2 DEF OwnFiles
  <2>4. evaluation.go
    BY <2>1, <2>3 DEF Message
  <2>5. /\ Holds(readiness) /\ readiness.by = attempt /\ readiness.counts = Counts
        /\ Holds(contractDiff) /\ contractDiff.by = attempt
        /\ contractDiff.has_diff = now.drift
    BY <2>3 DEF BuildReadiness, Holds
  <2>6. evaluation.by = attempt /\ Go(readiness, contractDiff, deploy)
    BY <2>3, <2>4, <2>5 DEF Evaluation, Holds, Malformed, Missing
  <2>7. /\ ~now.drift /\ WithinLimits(Counts)
        /\ Holds(deploy) => deploy.status = "ok"
    BY <2>5, <2>6 DEF Go
  <2>8. pipeline = "preflight" => now.deployOk
    BY <2>3, <2>7 DEF DeployIsDated
  <2> QED
    BY <2>3, <2>5, <2>6, <2>7, <2>8 DEF GoOnOwnReports
<1> QED
  BY <1>1, PipelineInvariant, PTL
=============================================================================
