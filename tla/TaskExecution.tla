---------------------------- MODULE TaskExecution ----------------------------
(***************************************************************************)
(* TaskExecutor (task_executor.py) carrying out one persisted plan through  *)
(* the ToolCoordinator (tools_runtime.py), under approvals of Cyber.        *)
(*                                                                          *)
(* An executor is a process or worker that runs execute(plan_id, ...). It   *)
(* loads the plan once, works on its own copy and overwrites the stored     *)
(* payload at every checkpoint; no lock, lease or version ties it to the    *)
(* row. A crash loses the copy, the session scopes and whatever was not     *)
(* checkpointed; the tool's effect is not undone.                           *)
(*                                                                          *)
(* Approvals are the tokens of ApprovalToken, which the approval store      *)
(* implements (Approvals!ImplementsToken).                                  *)
(***************************************************************************)
EXTENDS Integers, Sequences, FiniteSets

CONSTANTS
    Order,        \* the steps of the plan, as the plan lists them
    DependsOn,    \* [Steps -> SUBSET Steps], acyclic (PlanValidator)
    Effect,       \* [Steps -> {"low", "guarded", "grant", "scoped"}]: guarded and
                  \* grant need an approval, grant opens a scope to the session,
                  \* scoped reads inside that scope
    Executors,
    Ids,          \* approval identifiers
    NoId,         \* approval_id = None
    Limits,       \* values of maximum_steps, 0 for None
    MaxRuns,      \* bound of the model: calls of execute
    MaxCrashes    \* bound of the model

Steps == {Order[k] : k \in DOMAIN Order}

ASSUME TaskAssumption ==
    /\ Order \in Seq(Steps) /\ Len(Order) > 0
    /\ \A j, k \in DOMAIN Order : Order[j] = Order[k] => j = k
    /\ DependsOn \in [Steps -> SUBSET Steps]
    /\ Effect \in [Steps -> {"low", "guarded", "grant", "scoped"}]
    /\ NoId \notin Ids
    /\ Limits \subseteq Nat /\ MaxRuns \in Nat /\ MaxCrashes \in Nat

VARIABLES
    store,        \* the task_plans row: plan state and step states
    exec,         \* [Executors -> locals of execute]
    token,        \* the approvals
    granted,      \* executors whose session holds the scope of "scoped" steps
    runs,         \* calls of execute so far
    crashes,      \* crashes so far
    effects,      \* history: times the tool of a step took effect
    sensitive,    \* history: those of them that needed an approval
    paidBy,       \* history: the approvals spent for them
    succeeded     \* history: steps whose tool has returned a result

history == <<effects, sensitive, paidBy, succeeded>>
bounds == <<runs, crashes>>
vars == <<store, exec, token, granted, bounds, history>>

\* The store binds tool, effect and arguments: a step fixes all three.
Calls == Steps

Cyber == INSTANCE ApprovalToken

PlanStates == {"ready", "awaiting_approval", "running", "completed", "failed"}
StepStates == {"planned", "running", "awaiting_approval", "completed",
               "failed", "cancelled"}
Plan == [state : PlanStates, steps : [Steps -> StepStates]]

Idle == [pc |-> "idle"]
Run == [pc : {"loaded", "scan", "invoke", "check", "execute", "asked",
              "done", "raised", "limit"},
        mem : Plan, pos : 1..Len(Order) + 1, progress : BOOLEAN,
        pending : BOOLEAN, done : 0..Len(Order), limit : Limits,
        known : SUBSET Ids, paid : Ids \cup {NoId}]

TypeOK ==
    /\ store \in Plan
    /\ exec \in [Executors -> Run \cup {Idle}]
    /\ Cyber!TokenTypeOK
    /\ granted \in SUBSET Executors
    /\ runs \in 0..MaxRuns /\ crashes \in 0..MaxCrashes
    /\ effects \in [Steps -> Nat] /\ sensitive \in [Steps -> Nat]
    /\ paidBy \in [Steps -> SUBSET Ids] /\ succeeded \in SUBSET Steps

-----------------------------------------------------------------------------
\* Plans

Stated(plan, s) == [plan EXCEPT !.state = s]
Marked(plan, step, s) == [plan EXCEPT !.steps[step] = s]

AllCompleted(plan) == \A s \in Steps : plan.steps[s] = "completed"

FailedStep(plan, s) == plan.steps[s] \in {"failed", "cancelled"}

\* A step that ends the plan as soon as the loop meets it.
Doomed(plan, s) ==
    \/ FailedStep(plan, s)
    \/ \E d \in DependsOn[s] : FailedStep(plan, d)

\* Mutants of Skipped: completed steps are not skipped; dependencies are not
\* awaited.
SkippedOnlyIfBlocked(plan, s) ==
    ~Doomed(plan, s) /\ \E d \in DependsOn[s] : plan.steps[d] # "completed"
SkippedOnlyIfCompleted(plan, s) == plan.steps[s] = "completed"

\* A step the loop passes over: done, or waiting for its dependencies.
Skipped(plan, s) ==
    \/ plan.steps[s] = "completed"
    \/ ~Doomed(plan, s) /\ \E d \in DependsOn[s] : plan.steps[d] # "completed"

\* execute refuses a finished plan before it touches it.
Runnable(plan) == plan.state \notin {"completed", "failed"}

-----------------------------------------------------------------------------
\* execute: one run of one executor

At(e, place) == exec[e].pc = place
Goto(e, run) == exec' = [exec EXCEPT ![e] = run]
Here(e) == Order[exec[e].pos]

\* _persist: the whole payload replaces the stored one.
Persist(plan) == store' = plan

Load(e, limit) ==
    /\ exec[e] = Idle
    /\ runs < MaxRuns
    /\ Runnable(store)
    /\ Goto(e, [pc |-> "loaded", mem |-> store, pos |-> 1, progress |-> FALSE,
                pending |-> FALSE, done |-> 0, limit |-> limit, paid |-> NoId,
                known |-> {i \in Ids : token[i] # Cyber!Unissued}])
    /\ runs' = runs + 1
    /\ UNCHANGED <<store, token, granted, crashes, history>>

Begin(e) ==
    /\ At(e, "loaded")
    /\ LET plan == Stated(exec[e].mem, "running") IN
         /\ Goto(e, [exec[e] EXCEPT !.mem = plan, !.pc = "scan"])
         /\ Persist(plan)
    /\ UNCHANGED <<token, granted, bounds, history>>

\* The steps the loop still has to stop at in this pass.
Stops(run) == {k \in run.pos..Len(Order) : ~Skipped(run.mem, Order[k])}

\* Mutant of Started: the step is recorded as done before its tool runs.
StartedAsCompleted(plan, s) == Marked(plan, s, "completed")

Started(plan, s) == Marked(plan, s, "running")

\* Passing over blocked steps, the loop stops at a step that can run, and
\* checkpoints it as running; a doomed step would end the plan.
Visit(e) ==
    /\ At(e, "scan")
    /\ Stops(exec[e]) # {}
    /\ LET k == CHOOSE j \in Stops(exec[e]) : \A l \in Stops(exec[e]) : j <= l
           s == Order[k]
           plan == exec[e].mem
           cancelled == IF FailedStep(plan, s) THEN plan ELSE Marked(plan, s, "cancelled")
       IN  IF Doomed(plan, s)
           THEN /\ Persist(Stated(cancelled, "failed"))
                /\ Goto(e, Idle)
           ELSE /\ Persist(Started(plan, s))
                /\ Goto(e, [exec[e] EXCEPT !.mem = Started(plan, s), !.pos = k,
                                           !.pending = TRUE, !.pc = "invoke"])
    /\ UNCHANGED <<token, granted, bounds, history>>

PendingExists(run) ==
    \/ run.pending
    \/ \E k \in run.pos..Len(Order) : run.mem.steps[Order[k]] # "completed"

\* Mutant of NewPass: the flags of the previous pass are kept.
NewPassKeepsFlags(run) == [run EXCEPT !.pos = 1]

NewPass(run) == [run EXCEPT !.pos = 1, !.progress = FALSE, !.pending = FALSE]

\* No step is left to visit: the plan is complete, or another pass is due, or
\* nothing can run ("No executable step was found").
EndPass(e) ==
    /\ At(e, "scan")
    /\ Stops(exec[e]) = {}
    /\ IF PendingExists(exec[e]) /\ exec[e].progress
       THEN /\ Goto(e, NewPass(exec[e]))
            /\ UNCHANGED store
       ELSE /\ Goto(e, Idle)
            /\ Persist(Stated(exec[e].mem,
                 IF PendingExists(exec[e]) THEN "failed" ELSE "completed"))
    /\ UNCHANGED <<token, granted, bounds, history>>

-----------------------------------------------------------------------------
\* ToolCoordinator.invoke, called by execute

Guarded(s) == Effect[s] \in {"guarded", "grant"}

\* _effective_effect: a scope that is not granted to the session is unknown,
\* and the call raises before it looks at its approval.
Resolved(e, s) == Effect[s] = "scoped" => e \in granted

Unresolved(e) ==
    /\ At(e, "invoke")
    /\ ~Resolved(e, Here(e))
    /\ Goto(e, [exec[e] EXCEPT !.pc = "raised"])
    /\ UNCHANGED <<store, token, granted, bounds, history>>

\* The approval the caller bound to the step is consumed first. A rejected
\* one (ApprovalError) makes execute invoke the tool again without it.
Consume(e) ==
    /\ At(e, "invoke")
    /\ Resolved(e, Here(e))
    /\ \E i \in exec[e].known \cup {NoId} :
         IF i # NoId /\ Cyber!Spendable(i, Here(e))
         THEN /\ Cyber!Spend(i, Here(e))
              /\ Goto(e, [exec[e] EXCEPT !.pc = "check", !.paid = i])
         ELSE /\ Goto(e, [exec[e] EXCEPT !.pc = "check", !.paid = NoId])
              /\ UNCHANGED token
    /\ UNCHANGED <<store, granted, bounds, history>>

\* Mutant of Allowed: no approval is asked for.
AllowedWithoutApproval(e) == TRUE

\* CyberPolicy.check
Allowed(e) ==
    \/ ~Guarded(Here(e))
    \/ exec[e].paid # NoId

Clear(e) ==
    /\ At(e, "check")
    /\ Allowed(e)
    /\ Goto(e, [exec[e] EXCEPT !.pc = "execute"])
    /\ UNCHANGED <<store, token, granted, bounds, history>>

\* The tool is not run: a fresh approval is requested for it.
Ask(e) ==
    /\ At(e, "check")
    /\ ~Allowed(e)
    /\ \E i \in Ids : Cyber!Issue(i, Here(e))
    /\ Goto(e, [exec[e] EXCEPT !.pc = "asked"])
    /\ UNCHANGED <<store, granted, bounds, history>>

CountEffect(e) ==
    LET s == Here(e) IN
    /\ effects' = [effects EXCEPT ![s] = @ + 1]
    /\ IF Guarded(s)
       THEN /\ sensitive' = [sensitive EXCEPT ![s] = @ + 1]
            /\ paidBy' = [paidBy EXCEPT ![s] = @ \cup ({exec[e].paid} \ {NoId})]
       ELSE UNCHANGED <<sensitive, paidBy>>

ToolSucceeds(e) ==
    /\ At(e, "execute")
    /\ CountEffect(e)
    /\ succeeded' = succeeded \cup {Here(e)}
    /\ granted' = IF Effect[Here(e)] = "grant" THEN granted \cup {e} ELSE granted
    /\ Goto(e, [exec[e] EXCEPT !.pc = "done"])
    /\ UNCHANGED <<store, token, bounds>>

\* A tool that raises may have acted on the world before it did.
ToolRaises(e) ==
    /\ At(e, "execute")
    /\ CountEffect(e) \/ UNCHANGED <<effects, sensitive, paidBy>>
    /\ Goto(e, [exec[e] EXCEPT !.pc = "raised"])
    /\ UNCHANGED <<store, token, granted, bounds, succeeded>>

-----------------------------------------------------------------------------
\* execute: what it does with the response

Waiting(plan, s) ==
    Stated(Marked(plan, s, "awaiting_approval"), "awaiting_approval")

Await(e) ==
    /\ At(e, "asked")
    /\ Persist(Waiting(exec[e].mem, Here(e)))
    /\ Goto(e, Idle)
    /\ UNCHANGED <<token, granted, bounds, history>>

Fail(e) ==
    /\ At(e, "raised")
    /\ Persist(Stated(Marked(exec[e].mem, Here(e), "failed"), "failed"))
    /\ Goto(e, Idle)
    /\ UNCHANGED <<token, granted, bounds, history>>

Complete(e) ==
    /\ At(e, "done")
    /\ LET plan == Marked(exec[e].mem, Here(e), "completed")
           done == exec[e].done + 1
           limited == exec[e].limit # 0 /\ done >= exec[e].limit
       IN  /\ Persist(plan)
           /\ Goto(e, [exec[e] EXCEPT !.mem = plan, !.done = done, !.progress = TRUE,
                                      !.paid = NoId, !.pos = @ + 1,
                                      !.pc = IF limited THEN "limit" ELSE "scan"])
    /\ UNCHANGED <<token, granted, bounds, history>>

\* Mutant of Paused: the plan is stored as the caller is told, "paused".
PausedByName(plan) == Stated(plan, "paused")

Paused(plan) == Stated(plan, "ready")

Pause(e) ==
    /\ At(e, "limit")
    /\ Persist(Paused(exec[e].mem))
    /\ Goto(e, Idle)
    /\ UNCHANGED <<token, granted, bounds, history>>

-----------------------------------------------------------------------------
\* The environment

\* The process ends between two runs: its session scopes end with it.
Exit(e) ==
    /\ exec[e] = Idle
    /\ e \in granted
    /\ granted' = granted \ {e}
    /\ UNCHANGED <<store, exec, token, bounds, history>>

\* The process ends in the middle of a run.
Crash(e) ==
    /\ exec[e] # Idle
    /\ crashes < MaxCrashes
    /\ crashes' = crashes + 1
    /\ Goto(e, Idle)
    /\ granted' = granted \ {e}
    /\ UNCHANGED <<store, token, runs, history>>

UserDecides ==
    /\ \E i \in Ids :
         \/ \E verdict \in {"approved", "denied"} : Cyber!Decide(i, verdict)
         \/ Cyber!Lapse(i)
    /\ UNCHANGED <<store, exec, granted, bounds, history>>

Init ==
    /\ store = [state |-> IF \A s \in Steps : Effect[s] \in {"low", "scoped"}
                          THEN "ready" ELSE "awaiting_approval",
                steps |-> [s \in Steps |-> "planned"]]
    /\ exec = [e \in Executors |-> Idle]
    /\ Cyber!TokenInit
    /\ granted = {}
    /\ runs = 0 /\ crashes = 0
    /\ effects = [s \in Steps |-> 0] /\ sensitive = [s \in Steps |-> 0]
    /\ paidBy = [s \in Steps |-> {}] /\ succeeded = {}

ExecutorStep(e) ==
    \/ Begin(e) \/ Visit(e) \/ EndPass(e)
    \/ Unresolved(e) \/ Consume(e) \/ Clear(e) \/ Ask(e)
    \/ ToolSucceeds(e) \/ ToolRaises(e)
    \/ Await(e) \/ Fail(e) \/ Complete(e) \/ Pause(e)

Next ==
    \/ \E e \in Executors :
         \/ \E limit \in Limits : Load(e, limit)
         \/ ExecutorStep(e)
         \/ Exit(e) \/ Crash(e)
    \/ UserDecides

Spec == Init /\ [][Next]_vars

\* execute is a plain loop on its own thread: once called it keeps running.
FairSpec == Spec /\ \A e \in Executors : WF_vars(ExecutorStep(e))

-----------------------------------------------------------------------------
\* Properties

\* Every effect that needed an authorisation was paid for by an approval of
\* its own, issued for that step and consumed: no crash and resume lets one
\* approval authorise two effects.
EveryEffectPaid ==
    /\ \A s \in Steps :
         /\ sensitive[s] = Cardinality(paidBy[s])
         /\ \A i \in paidBy[s] :
              token[i].status = "consumed" /\ token[i].call = s
    /\ \A s, t \in Steps : s # t => paidBy[s] \cap paidBy[t] = {}

\* No tool acts before every step it depends on has returned a result, in any
\* run of the plan.
DependenciesFirst ==
    \A s \in Steps : effects[s] > 0 => DependsOn[s] \subseteq succeeded

\* The stored plan never claims more than happened: a completed step did
\* return a result, and a plan is completed only when all its steps are.
CompletionHonest ==
    /\ \A s \in Steps : store.steps[s] = "completed" => s \in succeeded
    /\ store.state = "completed" => AllCompleted(store)

\* With one executor a tool acts a second time only after a crash took the
\* record of the first.
RepeatNeedsCrash == \A s \in Steps : effects[s] <= 1 + crashes

\* Every call of execute returns (or its process dies).
RunEnds == \A e \in Executors : exec[e] # Idle ~> exec[e] = Idle

=============================================================================
