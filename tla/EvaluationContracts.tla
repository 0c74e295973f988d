------------------------ MODULE EvaluationContracts ------------------------
(***************************************************************************)
(* The documents of the evaluation (evaluation_runtime.py) and what is      *)
(* derived from them: the eligibility of the candidate for promotion and    *)
(* the four phases of the evaluation plan (evaluation_plan_runtime.py).     *)
(*                                                                          *)
(* "fixed" stands for the fields whose value the validator fixes outright:  *)
(* schema, owner, ids, the rules of the plan policy.                        *)
(***************************************************************************)
EXTENDS Integers, FiniteSets

CONSTANTS Layers,        \* evaluation layers and suites
          Repositories   \* base repositories

\* The execution flags a document may carry; which of them a validator looks
\* at is said with the document.
Flags == {"report-generation", "report-write", "model", "promptfoo", "dspy",
          "promotion", "training", "weights-modified", "comparison", "decision",
          "decision-recording", "publish", "suite", "plan"}

Checkpoints == {"not-created", "created"}

Subject == [base : Repositories, checkpoint : Checkpoints, available : BOOLEAN]

Policy == [fixed : BOOLEAN, layers : SUBSET Layers, candidate : Subject,
           calibrated : BOOLEAN, checkpointAvailable : BOOLEAN, promotion : BOOLEAN]

Suites == [fixed : BOOLEAN, suites : SUBSET Layers, thresholds : SUBSET Layers,
           enabled : SUBSET Layers, on : SUBSET Flags]

Baseline == [fixed : BOOLEAN, promotable : BOOLEAN, results : BOOLEAN]

Candidate == [fixed : BOOLEAN, subject : Subject, verified : BOOLEAN,
              results : BOOLEAN, weightsModified : BOOLEAN]

\* The report, regression and promotion-decision contracts.
DecisionContract == [fixed : BOOLEAN, done : BOOLEAN, numbers : BOOLEAN,
                     automatic : BOOLEAN, on : SUBSET Flags]

PlanPolicy == [fixed : BOOLEAN, on : SUBSET Flags]

Member == [fixed : BOOLEAN]

EvaluationNames == {"policy", "suites", "baseline", "candidate", "report",
                    "regression", "decision", "dany"}

-----------------------------------------------------------------------------
\* What the runtime accepts

ReportFlags == {"report-generation", "report-write", "model", "promptfoo", "dspy",
                "promotion", "training", "weights-modified"}

RegressionFlags == {"comparison", "model", "promptfoo", "dspy", "report-write",
                    "promotion", "training", "weights-modified"}

DecisionFlags == {"decision", "decision-recording", "promotion", "publish", "model",
                  "promptfoo", "dspy", "training", "weights-modified"}

SuiteFlags == {"suite", "model", "promptfoo", "dspy", "report-write", "promotion",
               "training", "weights-modified"}

PlanFlags == Flags \ {"decision"}

\* A report is not produced and its scores not fabricated.
ValidReport(d) == d.fixed /\ d.on \cap ReportFlags = {} /\ ~d.done /\ ~d.automatic

\* No comparison is computed, no threshold calibrated or given a number.
ValidRegression(d) == d.fixed /\ d.on \cap RegressionFlags = {} /\ ~d.done /\ ~d.numbers

\* No decision is taken, none is taken automatically.
ValidDecision(d) == d.fixed /\ d.on \cap DecisionFlags = {} /\ ~d.done /\ ~d.automatic

ValidSuites(d) ==
    /\ d.fixed /\ d.thresholds = {} /\ d.enabled = {}
    /\ d.on \cap SuiteFlags = {}

\* Documents that were read one after another are compared with each other.
Agree(docs) ==
    /\ docs.candidate.subject = docs.policy.candidate
    /\ docs.suites.suites = docs.policy.layers

ValidPolicy(d) == d.fixed /\ ~d.calibrated /\ ~d.checkpointAvailable

ValidEvaluation(docs) ==
    /\ docs.dany.fixed
    /\ ValidPolicy(docs.policy)
    /\ ValidSuites(docs.suites)
    /\ docs.baseline.fixed /\ ~docs.baseline.promotable
    /\ docs.candidate.fixed /\ ~docs.candidate.weightsModified
    /\ ValidReport(docs.report)
    /\ ValidRegression(docs.regression)
    /\ ValidDecision(docs.decision)
    /\ Agree(docs)

ValidPlanPolicy(d) == d.fixed /\ d.on \cap PlanFlags = {}

-----------------------------------------------------------------------------
\* What it derives

Blocker(name, holds) == IF holds THEN {} ELSE {name}

CandidateBlockers(candidate) ==
    Blocker("candidate-checkpoint-not-created", candidate.subject.checkpoint = "created")
        \cup Blocker("candidate-checkpoint-unverified", candidate.verified)
        \cup Blocker("candidate-unavailable", candidate.subject.available)
        \cup Blocker("candidate-not-evaluated", candidate.results)

PromotionEligibility(docs) ==
    CandidateBlockers(docs.candidate)
        \cup Blocker("thresholds-not-calibrated", docs.policy.calibrated)
        \cup Blocker("promotion-execution-disabled", docs.policy.promotion)

RunBlockers(suites) ==
    Blocker("suite-execution-disabled", "suite" \in suites.on)
        \cup Blocker("model-execution-disabled", "model" \in suites.on)
        \cup Blocker("promptfoo-invocation-disabled", "promptfoo" \in suites.on)
        \cup Blocker("report-write-disabled", "report-write" \in suites.on)

\* The baseline is ready to be evaluated once it has been evaluated.
BaselinePlan(docs) ==
    Blocker("baseline-not-evaluated", docs.baseline.results) \cup RunBlockers(docs.suites)

CandidatePlan(docs) == CandidateBlockers(docs.candidate) \cup RunBlockers(docs.suites)

\* What the runtime says of the contracts is constant: no comparison is ever
\* available, nothing is enabled.
ComparisonBlockers(docs) ==
    {"regression-comparison-unavailable"}
        \cup Blocker("thresholds-not-calibrated", docs.regression.numbers)

RegressionPlan(docs) ==
    Blocker("baseline-evaluation-report-unavailable", docs.baseline.results)
        \cup Blocker("candidate-evaluation-report-unavailable", docs.candidate.results)
        \cup ComparisonBlockers(docs)
        \cup {"comparison-execution-disabled"}

PromotionPlan(docs) ==
    CandidateBlockers(docs.candidate)
        \cup ComparisonBlockers(docs)
        \cup {"decision-recording-disabled", "promotion-execution-disabled"}

Phases(docs) ==
    [baseline |-> BaselinePlan(docs), candidate |-> CandidatePlan(docs),
     regression |-> RegressionPlan(docs), promotion |-> PromotionPlan(docs)]

ReadyPhases(docs) == {p \in DOMAIN Phases(docs) : Phases(docs)[p] = {}}

=============================================================================
