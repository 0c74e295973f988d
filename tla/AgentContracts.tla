--------------------------- MODULE AgentContracts ---------------------------
(***************************************************************************)
(* The contracts of the agent (agent_runtime.py): what the inspection of    *)
(* five documents and of the runtime's source files reports of authority,   *)
(* budgets and readiness. The source files count as one more document: the  *)
(* inspector parses them each time it is asked.                             *)
(***************************************************************************)
EXTENDS Integers, FiniteSets

CONSTANTS Tools,      \* registered tools
          Effects     \* effects a tool may declare

Roles == {"coordinator", "planner", "executor", "tool_coordinator", "authorization"}

AgentFlags == {"agent-runtime", "agent-loop", "goal-decomposition",
               "task-execution", "tool-execution", "other"}

\* What Cyber's approvals and the agent's authority must be.
AuthorityRules == {"deny-by-default", "cyber-required", "no-approve-all", "no-self-approval"}
ApprovalRules == {"single-use", "bind-tool", "bind-arguments", "no-values-stored"}

Budgets == {"maximum_iterations", "maximum_tool_calls", "wall_clock_limit_seconds",
            "maximum_consecutive_failures"}

AgentPolicy == [fixed : BOOLEAN, roles : SUBSET Roles, disabled : BOOLEAN,
                rules : SUBSET AuthorityRules, on : SUBSET AgentFlags]

BudgetPolicy == [fixed : BOOLEAN, required : SUBSET Budgets, defaults : SUBSET Budgets]

EnvelopePolicy == [fixed : BOOLEAN, slice : Nat, on : SUBSET AgentFlags]

ApprovalPolicy == [rules : SUBSET ApprovalRules]

\* The registry names the effect of each tool, and what happens to the rest.
ToolsRegistry == [deny : BOOLEAN, effect : [Tools -> Effects]]

\* task_planner.EFFECTS: the effects known, and which of them need approval.
Sources == [complete : BOOLEAN, known : SUBSET Effects, guarded : SUBSET Effects]

AgentNames == {"agent", "tools", "approval", "budget", "envelope"}

-----------------------------------------------------------------------------

ValidBudget(d) == d.fixed /\ d.required = Budgets /\ d.defaults = {}

\* One completed step in a slice, by the executor that exists.
ValidEnvelope(d) == d.fixed /\ d.slice = 1 /\ d.on = {}

\* The registry and the approval policy are read but not validated.
ValidAgent(docs) ==
    /\ docs.agent.fixed
    /\ docs.agent.roles = Roles
    /\ docs.agent.on = {}
    /\ ValidBudget(docs.budget)
    /\ ValidEnvelope(docs.envelope)

\* A tool whose effect is not known to the planner is said to need approval.
Authority(docs, sources) ==
    [t \in Tools |->
        LET effect == docs.tools.effect[t]
        IN [known |-> effect \in sources.known,
            approval |-> effect \in sources.known => effect \in sources.guarded]]

AuthorityBlockers(docs, sources) ==
    (IF docs.tools.deny THEN {} ELSE {<<"registry", "deny-by-default">>})
        \cup {<<"agent", r>> : r \in AuthorityRules \ docs.agent.rules}
        \cup {<<"approvals", r>> : r \in ApprovalRules \ docs.approval.rules}
        \cup (IF \E t \in Tools : ~Authority(docs, sources)[t].known
              THEN {<<"tools", "unknown-effects">>} ELSE {})

AgentExecutionBlockers(policy) == (AgentFlags \ {"other"}) \ policy.on

AgentPhases(docs, sources) ==
    [contract   |-> IF docs.agent.disabled THEN {} ELSE {"unexpected-policy-state"},
     sources    |-> IF sources.complete THEN {} ELSE {"runtime-dependencies-incomplete"},
     authority  |-> AuthorityBlockers(docs, sources),
     budgets    |-> {},
     execution  |-> AgentExecutionBlockers(docs.agent)]

AgentReady(docs, sources) ==
    \A p \in DOMAIN AgentPhases(docs, sources) : AgentPhases(docs, sources)[p] = {}

=============================================================================
