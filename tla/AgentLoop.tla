------------------------------ MODULE AgentLoop ------------------------------
(***************************************************************************)
(* AgentLoopRuntime (agent_loop_runtime.py): one agent run that advances a  *)
(* plan one step at a time, verifies what each step returned and replaces   *)
(* the plan by a repair plan when a step fails or does not verify.          *)
(*                                                                          *)
(* continue_run loads the stored run once and then works on its own copy,   *)
(* which it writes back as a whole at its checkpoints. pause and cancel     *)
(* come from another caller and read, change and write the whole run too.   *)
(* The orchestrator's slice (execute with maximum_steps = 1) is one step    *)
(* here, with the outcomes TaskExecution allows; plans are chains of        *)
(* NSteps steps.                                                            *)
(***************************************************************************)
EXTENDS Integers, FiniteSets

CONSTANTS
    NSteps,            \* steps of a plan
    MaxIterations,     \* budget of the run: maximum_iterations
    MaxToolCalls,      \* budget of the run: maximum_tool_calls
    MaxFailures,       \* budget of the run: maximum_consecutive_failures
    MaxPlans,          \* bound of the model: one plan per possible repair
    MaxControls,       \* bound of the model: calls of pause and cancel
    MaxRaises,         \* bound of the model: plans the orchestrator cannot make
    MaxCrashes,        \* bound of the model
    ForegroundControl  \* TRUE: pause and cancel never overlap continue_run

ASSUME AgentAssumption ==
    /\ NSteps \in Nat \ {0} /\ MaxIterations \in Nat \ {0}
    /\ MaxToolCalls \in Nat \ {0} /\ MaxFailures \in Nat \ {0}
    /\ MaxPlans \in Nat /\ MaxPlans > MaxIterations
    /\ MaxControls \in Nat /\ MaxRaises \in Nat /\ MaxCrashes \in Nat
    /\ ForegroundControl \in BOOLEAN

VARIABLES
    run,        \* the agent_runs row
    plans,      \* the plans made for it so far
    loop,       \* locals of continue_run
    control,    \* locals of pause or cancel
    used,       \* how much of each bound is used
    toolRuns    \* history: tools the slices have called

vars == <<run, plans, loop, control, used, toolRuns>>

Open == {"ready", "running", "paused", "awaiting_approval"}
Final == {"completed", "failed", "cancelled"}

Observation == [plan : 1..MaxPlans, step : 1..NSteps, verified : BOOLEAN]

Run == [state : Open \cup Final, plan : 1..MaxPlans,
        iterations : 0..MaxIterations, calls : 0..MaxToolCalls,
        failures : 0..MaxFailures, repairs : Nat, timeUp : BOOLEAN,
        observed : SUBSET Observation]

\* good: what the verifier will find in the result of each step.
Plan == [state : {"ready", "awaiting_approval", "failed", "completed"},
         done : 0..NSteps, good : [1..NSteps -> BOOLEAN]]

Idle == [pc |-> "idle"]
Results == {"none", "awaiting_approval", "failed", "paused", "completed"}
Looping == [pc : {"top", "respond", "repair", "finally", "finish"},
            mem : Run, before : 0..NSteps, result : Results]
Controlling == [pc : {"write"}, kind : {"paused", "cancelled"}, mem : Run]

TypeOK ==
    /\ run \in Run
    /\ \E n \in 1..MaxPlans : plans \in [1..n -> Plan]
    /\ loop \in Looping \cup {Idle}
    /\ control \in Controlling \cup {Idle}
    /\ used \in [controls : 0..MaxControls, raises : 0..MaxRaises,
                 crashes : 0..MaxCrashes]
    /\ toolRuns \in Nat

NewPlan == [state |-> "ready", done |-> 0, good |-> [k \in 1..NSteps |-> FALSE]]

NewRun == [state |-> "ready", plan |-> 1, iterations |-> 0, calls |-> 0,
           failures |-> 0, repairs |-> 0, timeUp |-> FALSE, observed |-> {}]

-----------------------------------------------------------------------------
\* Budget

\* Mutant of Exhausted: the number of tool calls is not looked at.
ExhaustedWithoutCalls(r) ==
    r.iterations >= MaxIterations \/ r.timeUp \/ r.failures >= MaxFailures

Exhausted(r) ==
    \/ r.iterations >= MaxIterations
    \/ r.calls >= MaxToolCalls
    \/ r.timeUp
    \/ r.failures >= MaxFailures

\* _budget_exhausted names the first exhausted dimension, and the loop gives
\* a failure up only when that name is maximum_consecutive_failures.
FailureBudgetNamed(r) ==
    /\ r.failures >= MaxFailures
    /\ r.iterations < MaxIterations
    /\ r.calls < MaxToolCalls
    /\ ~r.timeUp

-----------------------------------------------------------------------------
\* continue_run

At(place) == loop # Idle /\ loop.pc = place
Save(r) == run' = r
Return == loop' = Idle
Goto(place, r) == loop' = [loop EXCEPT !.pc = place, !.mem = r]

Resumable(r) == r.state \in Open

\* The copy is marked running; the stored run is not, until the first save.
Continue ==
    /\ loop = Idle
    /\ ForegroundControl => control = Idle
    /\ Resumable(run)
    /\ loop' = [pc |-> "top", mem |-> [run EXCEPT !.state = "running"],
                before |-> 0, result |-> "none"]
    /\ UNCHANGED <<run, plans, control, used, toolRuns>>

\* The caller's cancel_check answers true.
CancelSeen ==
    /\ At("top")
    /\ Save([loop.mem EXCEPT !.state = "cancelled"])
    /\ Return
    /\ UNCHANGED <<plans, control, used, toolRuns>>

\* The time spent so far is added up at the top of the loop.
Timed(r) == {[r EXCEPT !.timeUp = up] : up \in {r.timeUp, TRUE}}

BudgetSpent ==
    /\ At("top")
    /\ \E r \in Timed(loop.mem) :
         /\ Exhausted(r)
         /\ Save([r EXCEPT !.state = "paused"])
    /\ Return
    /\ UNCHANGED <<plans, control, used, toolRuns>>

\* What one slice may answer and make of the plan.
Outcomes(p) ==
    IF p.state = "completed" \/ p.done = NSteps
    THEN {[result |-> "completed", plan |-> [p EXCEPT !.state = "completed"]]}
    ELSE {[result |-> "awaiting_approval",
           plan |-> [p EXCEPT !.state = "awaiting_approval"]],
          [result |-> "failed", plan |-> [p EXCEPT !.state = "failed"]]}
         \cup {[result |-> "paused",
                plan |-> [p EXCEPT !.state = "ready", !.done = @ + 1,
                                   !.good[p.done + 1] = good]] : good \in BOOLEAN}

Called(result) == result # "completed"

Slice ==
    /\ At("top")
    /\ ~Exhausted(loop.mem)
    /\ LET p == plans[loop.mem.plan] IN
         /\ p.state # "failed"
         /\ \E out \in Outcomes(p) :
              /\ plans' = [plans EXCEPT ![loop.mem.plan] = out.plan]
              /\ loop' = [loop EXCEPT !.pc = "respond", !.before = p.done,
                                      !.result = out.result]
              /\ toolRuns' = IF Called(out.result) THEN toolRuns + 1 ELSE toolRuns
    /\ UNCHANGED <<run, control, used>>

\* The executor refuses a failed plan: the exception leaves the loop.
SliceRefused ==
    /\ At("top")
    /\ ~Exhausted(loop.mem)
    /\ plans[loop.mem.plan].state = "failed"
    /\ Goto("finally", loop.mem)
    /\ UNCHANGED <<run, plans, control, used, toolRuns>>

Counted(r, result) ==
    [r EXCEPT !.iterations = @ + 1,
              !.calls = IF Called(result) THEN @ + 1 ELSE @]

AwaitApproval ==
    /\ At("respond")
    /\ loop.result = "awaiting_approval"
    /\ Save([Counted(loop.mem, loop.result) EXCEPT !.state = "awaiting_approval"])
    /\ Return
    /\ UNCHANGED <<plans, control, used, toolRuns>>

\* After a failure: give up, or make a repair plan.
GiveUpOrRepair(r) ==
    IF FailureBudgetNamed(r)
    THEN Save([r EXCEPT !.state = "failed"]) /\ Return
    ELSE Goto("repair", r) /\ UNCHANGED run

SliceFailed ==
    /\ At("respond")
    /\ loop.result = "failed"
    /\ GiveUpOrRepair([Counted(loop.mem, loop.result) EXCEPT !.failures = @ + 1])
    /\ UNCHANGED <<plans, control, used, toolRuns>>

NewlyCompleted == loop.before + 1..plans[loop.mem.plan].done

\* Mutant of Verified: a result is taken at its word.
VerifiedAlways(p, k) == TRUE

\* _verify_step
Verified(p, k) == p.good[k]

Observed(r) ==
    [r EXCEPT !.observed = @ \cup
       {[plan |-> r.plan, step |-> k, verified |-> Verified(plans[r.plan], k)] :
          k \in NewlyCompleted}]

AllVerified(p) == \A k \in NewlyCompleted : Verified(p, k)

VerificationFailed ==
    /\ At("respond")
    /\ loop.result \in {"paused", "completed"}
    /\ ~AllVerified(plans[loop.mem.plan])
    /\ GiveUpOrRepair([Observed(Counted(loop.mem, loop.result))
                         EXCEPT !.failures = @ + 1])
    /\ UNCHANGED <<plans, control, used, toolRuns>>

\* A slice that verified is checkpointed; the answer "completed" ends the run.
Checkpoint ==
    /\ At("respond")
    /\ loop.result \in {"paused", "completed"}
    /\ AllVerified(plans[loop.mem.plan])
    /\ LET counted == Observed(Counted(loop.mem, loop.result))
           seen == IF NewlyCompleted = {} THEN counted
                   ELSE [counted EXCEPT !.failures = 0]
       IN  IF loop.result = "completed"
           THEN Save([seen EXCEPT !.state = "completed"]) /\ Return
           ELSE Save(seen) /\ Goto("top", seen)
    /\ UNCHANGED <<plans, control, used, toolRuns>>

PlanCount == CHOOSE n \in 0..MaxPlans : DOMAIN plans = 1..n

\* Mutant of Repaired: the counters start again.
RepairedAfresh(r, child) == [r EXCEPT !.plan = child, !.failures = 0,
                                      !.calls = 0, !.iterations = 0]

Repaired(r, child) == [r EXCEPT !.repairs = @ + 1, !.plan = child]

\* _repair and the save that follows; a crash between the two only leaves a
\* plan that no run names.
Repair ==
    /\ At("repair")
    /\ PlanCount < MaxPlans
    /\ LET child == PlanCount + 1
           r == Repaired(loop.mem, child)
       IN  /\ plans' = [k \in 1..child |-> IF k = child THEN NewPlan ELSE plans[k]]
           /\ Save(r)
           /\ Goto("top", r)
    /\ UNCHANGED <<control, used, toolRuns>>

\* create_plan raises (the model's answer is no valid plan) before any save.
RepairRaises ==
    /\ At("repair")
    /\ used.raises < MaxRaises
    /\ used' = [used EXCEPT !.raises = @ + 1]
    /\ Goto("finally", loop.mem)
    /\ UNCHANGED <<run, plans, control, toolRuns>>

\* The finally clause matters only when an exception left the loop: it reads
\* the stored run again and adds the time to it if it says running.
FinallyRead ==
    /\ At("finally")
    /\ IF run.state = "running"
       THEN \E r \in Timed(run) : Goto("finish", r)
       ELSE Return
    /\ UNCHANGED <<run, plans, control, used, toolRuns>>

FinallySave ==
    /\ At("finish")
    /\ Save(loop.mem)
    /\ Return
    /\ UNCHANGED <<plans, control, used, toolRuns>>

-----------------------------------------------------------------------------
\* pause and cancel, and crashes

\* The states pause and cancel leave as they are.
Settled(kind) == IF kind = "paused" THEN Final ELSE {"completed"}

ControlRead(kind) ==
    /\ control = Idle
    /\ used.controls < MaxControls
    /\ ForegroundControl => loop = Idle
    /\ run.state \notin Settled(kind)
    /\ control' = [pc |-> "write", kind |-> kind, mem |-> run]
    /\ used' = [used EXCEPT !.controls = @ + 1]
    /\ UNCHANGED <<run, plans, loop, toolRuns>>

ControlWrite ==
    /\ control # Idle
    /\ Save([control.mem EXCEPT !.state = control.kind])
    /\ control' = Idle
    /\ UNCHANGED <<plans, loop, used, toolRuns>>

Crash ==
    /\ loop # Idle
    /\ used.crashes < MaxCrashes
    /\ used' = [used EXCEPT !.crashes = @ + 1]
    /\ Return
    /\ UNCHANGED <<run, plans, control, toolRuns>>

Init ==
    /\ run = NewRun
    /\ plans = [k \in 1..1 |-> NewPlan]
    /\ loop = Idle
    /\ control = Idle
    /\ used = [controls |-> 0, raises |-> 0, crashes |-> 0]
    /\ toolRuns = 0

LoopStep ==
    \/ CancelSeen \/ BudgetSpent \/ Slice \/ SliceRefused
    \/ AwaitApproval \/ SliceFailed \/ VerificationFailed \/ Checkpoint
    \/ Repair \/ RepairRaises \/ FinallyRead \/ FinallySave

Next ==
    \/ Continue
    \/ LoopStep
    \/ \E kind \in {"paused", "cancelled"} : ControlRead(kind)
    \/ ControlWrite
    \/ Crash

Spec == Init /\ [][Next]_vars

\* continue_run runs on its caller's thread and never waits for the user.
FairSpec == Spec /\ WF_vars(LoopStep)

-----------------------------------------------------------------------------
\* Properties

\* Calls of continue_run that did not get to their next checkpoint.
Interruptions == used.crashes + used.raises

\* "verify_after_each_step", "failed_verification_is_not_success": every step
\* of a completed plan was observed, verified and good, but for one at most
\* for each interruption.
EveryStepVerified ==
    run.state = "completed" =>
        Cardinality({k \in 1..NSteps :
            \/ ~plans[run.plan].good[k]
            \/ [plan |-> run.plan, step |-> k, verified |-> TRUE] \notin run.observed})
          <= Interruptions

\* However the run is interrupted, its slices call no more tools than its
\* budget, plus at most one for each call that a crash or an exception took
\* from the counters.
BudgetHolds == toolRuns <= MaxToolCalls + Interruptions

\* continue_run always returns, at the latest when its budget is spent.
LoopEnds == loop # Idle ~> loop = Idle

=============================================================================
