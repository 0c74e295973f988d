-------------------------- MODULE MCReadinessGates --------------------------
(***************************************************************************)
(* ReadinessGates on a small instance: the released documents, and for each *)
(* the ways of writing it that could matter, among them one that claims     *)
(* whatever would open the gate behind it.                                  *)
(***************************************************************************)
EXTENDS ReadinessGates, TLC

CONSTANTS data, bad, recipe, recipe2, layer, layer2, repo, tool, write, c1, c2

Poor == [d \in Dimensions |-> 0]
Rich == [d \in Dimensions |-> 1]

MCCatalogue ==
    {[id |-> data, format |-> "sft", integrity |-> TRUE],
     [id |-> bad, format |-> "sft", integrity |-> TRUE]}

MCMachines == {Rich}

\* Reports write nothing that the gate reads, nor the gate what they read: the
\* processes are there for the one or for the other.
Reporters ==
    (c1 :> {"model", "evaluation", "agent"}) @@ (c2 :> {})
Materializers ==
    (c1 :> {"materialize"}) @@ (c2 :> {"request", "materialize"})

MCWorkloads == {Reporters, Materializers}

Symmetry == Permutations(Ids)

\* The released contract, and one of the day the base has been prepared.
Released ==
    [fixed |-> TRUE, on |-> {}, required |-> Policies, torch |-> FALSE, audit |-> Poor,
     base |-> [selected |-> TRUE, pinned |-> TRUE, weights |-> "not-downloaded",
               checkpoint |-> "not-created", path |-> FALSE]]
Prepared ==
    [Released EXCEPT !.base = [@ EXCEPT !.weights = "downloaded",
                                        !.checkpoint = "litgpt-ready", !.path = TRUE]]

Hardware(r) ==
    [fixed |-> TRUE,
     profiles |-> [p \in Profiles |->
        [candidate |-> p # "current-cpu-blocked", recipe |-> r,
         needs |-> IF p = "current-cpu-blocked" THEN Poor ELSE Rich]]]

Subject0 == [base |-> repo, checkpoint |-> "not-created", available |-> FALSE]
Subject1 == [Subject0 EXCEPT !.checkpoint = "created", !.available = TRUE]

Policy0 == [fixed |-> TRUE, layers |-> {layer}, candidate |-> Subject0,
            calibrated |-> FALSE, checkpointAvailable |-> FALSE, promotion |-> FALSE]
Suites0 == [fixed |-> TRUE, suites |-> {layer}, thresholds |-> {}, enabled |-> {},
            on |-> {}]
Candidate0 == [fixed |-> TRUE, subject |-> Subject0, verified |-> TRUE,
               results |-> TRUE, weightsModified |-> FALSE]
Baseline0 == [fixed |-> TRUE, promotable |-> FALSE, results |-> TRUE]
Tools0 == [deny |-> TRUE, effect |-> [t \in Tools |-> write]]
Budget0 == [fixed |-> TRUE, required |-> Budgets, defaults |-> {}]
Sources0 == [complete |-> TRUE, known |-> {write}, guarded |-> {write}]
Decision0 == [fixed |-> TRUE, done |-> FALSE, numbers |-> FALSE, automatic |-> FALSE,
              on |-> {}]
Agent0 == [fixed |-> TRUE, roles |-> Roles, disabled |-> TRUE, rules |-> AuthorityRules,
           on |-> {}]
Envelope0 == [fixed |-> TRUE, slice |-> 1, on |-> {}]

MCShipped ==
    [n \in Names |->
        CASE n = "contract" -> Released
          [] n = "profiles" -> Hardware(recipe)
          [] n = "plan-policy" -> [fixed |-> TRUE, on |-> {}]
          [] n = "preflight" -> [data |-> TRUE, backend |-> TRUE]
          [] n = "policy" -> Policy0
          [] n = "suites" -> Suites0
          [] n = "baseline" -> Baseline0
          [] n = "candidate" -> Candidate0
          [] n \in {"report", "regression", "decision"} -> Decision0
          [] n = "dany" -> [fixed |-> TRUE]
          [] n = "agent" -> Agent0
          [] n = "tools" -> Tools0
          [] n = "approval" -> [rules |-> ApprovalRules]
          [] n = "budget" -> Budget0
          [] n = "envelope" -> Envelope0
          [] n = "sources" -> Sources0]

\* Every document can be written in a way that helps to open a gate, or in one
\* that keeps it shut, so that what is read of one and then of another may never
\* have been on the disk together.
Policy1 == [Policy0 EXCEPT !.candidate = Subject1, !.promotion = TRUE]

MCVariants ==
    [n \in Names |->
        CASE n = "contract" -> {Released, Prepared, [Prepared EXCEPT !.on = {"training"}]}
          [] n = "profiles" -> {Hardware(recipe), Hardware(recipe2)}
          [] n = "plan-policy" -> {[fixed |-> TRUE, on |-> {}], [fixed |-> TRUE, on |-> PlanFlags]}
          [] n = "preflight" -> {[data |-> TRUE, backend |-> TRUE], [data |-> FALSE, backend |-> TRUE]}
          [] n = "policy" -> {Policy0, Policy1, [Policy1 EXCEPT !.calibrated = TRUE]}
          [] n = "suites" -> {Suites0, [Suites0 EXCEPT !.on = SuiteFlags]}
          [] n = "baseline" -> {Baseline0, [Baseline0 EXCEPT !.results = FALSE]}
          [] n = "candidate" -> {Candidate0, [Candidate0 EXCEPT !.subject = Subject1]}
          [] n \in {"report", "regression", "decision"} ->
                {Decision0, [Decision0 EXCEPT !.on = Flags]}
          [] n = "dany" -> {[fixed |-> TRUE]}
          [] n = "agent" -> {Agent0, [Agent0 EXCEPT !.on = AgentFlags]}
          [] n = "tools" -> {Tools0, [Tools0 EXCEPT !.deny = FALSE]}
          [] n = "approval" -> {[rules |-> ApprovalRules], [rules |-> {}]}
          [] n = "budget" -> {Budget0, [Budget0 EXCEPT !.required = {}]}
          [] n = "envelope" -> {Envelope0, [Envelope0 EXCEPT !.on = AgentFlags]}
          [] n = "sources" -> {Sources0, [Sources0 EXCEPT !.complete = FALSE]}]

=============================================================================
