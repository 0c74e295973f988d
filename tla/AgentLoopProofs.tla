--------------------------- MODULE AgentLoopProofs ---------------------------
(***************************************************************************)
(* Theorems about AgentLoop, for plans of any length, any budgets, and any  *)
(* number of crashes, exceptions and calls of pause and cancel.             *)
(*                                                                          *)
(* The loop counts on its own copy and saves at its checkpoints, so the     *)
(* budget is about what is stored: a tool that was called and not counted   *)
(* there yet is the one of the slice in progress (Unsaved), and a call that *)
(* ends before it is saved is an interruption. The same holds for the       *)
(* steps of the plan that were not observed (Gap). Both need what the model *)
(* calls ForegroundControl: a pause or a cancel that overlaps the loop      *)
(* writes an old copy of the run, counters included.                        *)
(***************************************************************************)
EXTENDS AgentLoop, FiniteSetTheorems, TLAPS

-----------------------------------------------------------------------------
\* Types

Planned(r) == r.plan \in DOMAIN plans

\* A slice is only run within the budget, and its answer not yet counted.
WithinBudget(r) ==
    r.iterations < MaxIterations /\ r.calls < MaxToolCalls /\ r.failures < MaxFailures

TypeInv ==
    /\ TypeOK
    /\ Planned(run)
    /\ loop # Idle => Planned(loop.mem)
    /\ control # Idle => Planned(control.mem)
    /\ At("respond") => WithinBudget(loop.mem)

-----------------------------------------------------------------------------
\* Budget and verification

\* The steps among the first n that are not good, or not observed as verified.
Missing(good, plan, observed, n) ==
    {k \in 1..n : \/ ~good[k]
                  \/ [plan |-> plan, step |-> k, verified |-> TRUE] \notin observed}

Gap(r, n) == Missing(plans[r.plan].good, r.plan, r.observed, n)

Done(r) == plans[r.plan].done

\* The slice in progress, not saved yet.
Unsaved == IF At("respond") \/ At("repair") THEN 1 ELSE 0

\* The copy of the loop and the stored run say the same.
InStep(r) == r.plan = run.plan /\ r.calls = run.calls /\ r.observed = run.observed

GivenUp(r) == r.state \in {"failed", "cancelled"}

PlansSound == \A n \in DOMAIN plans : plans[n].state = "completed" => plans[n].done = NSteps

CallOf(result) == IF Called(result) THEN 1 ELSE 0

\* The slice has answered: its call and its step are all that is not saved.
AnswerSound ==
    /\ toolRuns <= run.calls + Interruptions + CallOf(loop.result)
    /\ Done(run) \in loop.before..loop.before + 1
    /\ loop.result # "paused" => Done(run) = loop.before
    /\ loop.result = "completed" => Done(run) = NSteps
    /\ Cardinality(Gap(run, loop.before)) <= Interruptions

RepairSound ==
    /\ loop.mem.plan = run.plan
    /\ loop.mem.calls \in {run.calls, run.calls + 1}
    /\ toolRuns <= loop.mem.calls + Interruptions

LoopSound ==
    loop # Idle =>
      /\ run.state \in Open /\ loop.mem.state = "running"
      /\ loop.pc \in {"top", "respond", "finish"} => InStep(loop.mem)
      /\ loop.pc = "respond" => AnswerSound
      /\ loop.pc = "repair" => RepairSound

ControlSound ==
    control # Idle =>
      loop = Idle /\ control.mem = run /\ run.state \notin Settled(control.kind)

BudgetInv == toolRuns <= run.calls + Interruptions + Unsaved

GapInv ==
    /\ ~GivenUp(run) => Cardinality(Gap(run, Done(run))) <= Interruptions + Unsaved
    /\ run.state = "completed" => Done(run) = NSteps

IInv ==
    /\ TypeInv
    /\ PlansSound /\ LoopSound /\ ControlSound /\ BudgetInv /\ GapInv

USE AgentAssumption

-----------------------------------------------------------------------------
\* Runs and plans

LEMMA PlansType ==
    ASSUME TypeOK
    PROVE  \E n \in 1..MaxPlans :
             plans \in [1..n -> Plan] /\ DOMAIN plans = 1..n /\ PlanCount = n
<1>1. PICK n \in 1..MaxPlans : plans \in [1..n -> Plan]
  BY DEF TypeOK
<1>2. DOMAIN plans = 1..n /\ n \in 0..MaxPlans
  BY <1>1
<1>3. ASSUME NEW m \in 0..MaxPlans, 1..n = 1..m
      PROVE  m = n
  <2>1. n \in 1..m /\ (m \in 1..n \/ m = 0)
    BY <1>3
  <2>. QED
    BY <2>1
<1>4. PlanCount = n
  BY <1>2, <1>3 DEF PlanCount
<1>. QED
  BY <1>1, <1>2, <1>4

LEMMA LoopType ==
    ASSUME TypeInv, loop # Idle
    PROVE  /\ loop \in Looping /\ loop.mem \in Run /\ Planned(loop.mem)
           /\ loop.mem.plan \in 1..MaxPlans /\ plans[loop.mem.plan] \in Plan
<1>1. loop \in Looping /\ Planned(loop.mem)
  BY DEF TypeInv, TypeOK
<1>2. PICK n \in 1..MaxPlans : plans \in [1..n -> Plan] /\ DOMAIN plans = 1..n
  BY PlansType DEF TypeInv
<1>. QED
  BY <1>1, <1>2 DEF Looping, Planned, Run

\* A run marked with another state, or timed.
LEMMA Restated ==
    ASSUME NEW r \in Run, NEW s \in Open \cup Final
    PROVE  LET m == [r EXCEPT !.state = s] IN
           /\ m \in Run /\ m.state = s /\ m.plan = r.plan /\ m.calls = r.calls
           /\ m.observed = r.observed /\ m.iterations = r.iterations
           /\ m.failures = r.failures
  BY DEF Run

LEMMA TimedRun ==
    ASSUME NEW r \in Run, NEW m \in Timed(r)
    PROVE  /\ m \in Run /\ m.state = r.state /\ m.plan = r.plan /\ m.calls = r.calls
           /\ m.observed = r.observed
<1>1. PICK up \in {r.timeUp, TRUE} : m = [r EXCEPT !.timeUp = up]
  BY DEF Timed
<1>2. up \in BOOLEAN
  BY <1>1 DEF Run
<1>. QED
  BY <1>1, <1>2 DEF Run

LEMMA CountedRun ==
    ASSUME NEW r \in Run, r.iterations < MaxIterations, r.calls < MaxToolCalls, NEW result
    PROVE  LET m == Counted(r, result) IN
           /\ m \in Run /\ m.plan = r.plan /\ m.state = r.state /\ m.observed = r.observed
           /\ m.calls = r.calls + CallOf(result)
           /\ m.failures = r.failures
<1> DEFINE i == r.iterations + 1
           c == r.calls + CallOf(result)
<1>1. i \in 0..MaxIterations /\ c \in 0..MaxToolCalls
  BY DEF Run, CallOf
<1>2. Counted(r, result) = [r EXCEPT !.iterations = i, !.calls = c]
  <2>1. c = IF Called(result) THEN r.calls + 1 ELSE r.calls
    <3>1. r.calls \in Nat
      BY DEF Run
    <3>2. CASE Called(result)
      BY <3>2 DEF CallOf
    <3>3. CASE ~Called(result)
      BY <3>1, <3>3 DEF CallOf
    <3>. QED
      BY <3>2, <3>3
  <2>. QED
    BY <2>1 DEF Counted
<1> HIDE DEF i, c
<1>3. LET m == [r EXCEPT !.iterations = i, !.calls = c] IN
      /\ m \in Run /\ m.plan = r.plan /\ m.state = r.state /\ m.observed = r.observed
      /\ m.calls = c /\ m.failures = r.failures
  BY <1>1 DEF Run
<1>. QED
  BY <1>2, <1>3 DEF c

LEMMA FailedRun ==
    ASSUME NEW r \in Run, r.failures < MaxFailures
    PROVE  LET m == [r EXCEPT !.failures = @ + 1] IN
           /\ m \in Run /\ m.plan = r.plan /\ m.state = r.state
           /\ m.observed = r.observed /\ m.calls = r.calls
<1>1. r.failures + 1 \in 0..MaxFailures
  BY DEF Run
<1>. QED
  BY <1>1 DEF Run

\* What the loop observes of the slice that has answered.
LEMMA ObservedRun ==
    ASSUME TypeInv, loop # Idle, NEW r \in Run, r.plan = loop.mem.plan
    PROVE  /\ Observed(r) \in Run /\ Observed(r).plan = r.plan
           /\ Observed(r).state = r.state /\ Observed(r).calls = r.calls
           /\ Observed(r).failures = r.failures
           /\ r.observed \subseteq Observed(r).observed
           /\ \A k \in NewlyCompleted : Verified(plans[r.plan], k) =>
                [plan |-> r.plan, step |-> k, verified |-> TRUE] \in Observed(r).observed
<1> DEFINE new == {[plan |-> r.plan, step |-> k, verified |-> Verified(plans[r.plan], k)] :
                      k \in NewlyCompleted}
           seen == r.observed \cup new
<1>1. loop \in Looping /\ plans[r.plan] \in Plan /\ r.plan \in 1..MaxPlans
  BY LoopType
<1>2. loop.before \in 0..NSteps /\ plans[loop.mem.plan].done \in 0..NSteps
  BY <1>1 DEF Looping, Plan
<1>3. NewlyCompleted \subseteq 1..NSteps
  BY <1>2 DEF NewlyCompleted
<1>4. \A k \in NewlyCompleted : Verified(plans[r.plan], k) \in BOOLEAN
  BY <1>1, <1>3 DEF Verified, Plan
<1>5. \A k \in NewlyCompleted :
        [plan |-> r.plan, step |-> k, verified |-> Verified(plans[r.plan], k)] \in Observation
  BY <1>1, <1>3, <1>4 DEF Observation
<1>6. seen \in SUBSET Observation
  BY <1>5 DEF Run
<1>7. Observed(r) = [r EXCEPT !.observed = seen]
  BY DEF Observed, Run
<1>8. \A k \in NewlyCompleted : Verified(plans[r.plan], k) =>
        [plan |-> r.plan, step |-> k, verified |-> TRUE] \in seen
  <2>1. \A k \in NewlyCompleted : Verified(plans[r.plan], k) => Verified(plans[r.plan], k) = TRUE
    BY <1>4
  <2>. QED
    BY <2>1
<1> HIDE DEF seen
<1>9. LET m == [r EXCEPT !.observed = seen] IN
      /\ m \in Run /\ m.plan = r.plan /\ m.state = r.state /\ m.calls = r.calls
      /\ m.failures = r.failures /\ m.observed = seen
  BY <1>6 DEF Run
<1>. QED
  BY <1>7, <1>8, <1>9 DEF seen

-----------------------------------------------------------------------------
\* Type correctness, action by action

Used == [controls : 0..MaxControls, raises : 0..MaxRaises, crashes : 0..MaxCrashes]

\* The actions that leave the plans alone and do not await the slice's answer.
LEMMA TypeStep ==
    ASSUME TypeInv, UNCHANGED plans,
           run' \in Run, run'.plan \in DOMAIN plans,
           \/ loop' = Idle
           \/ /\ loop' \in Looping /\ loop'.mem.plan \in DOMAIN plans
              /\ loop'.pc # "respond",
           \/ control' \in {Idle, control}
           \/ control' \in Controlling /\ control'.mem.plan \in DOMAIN plans,
           used' \in Used, toolRuns' \in Nat
    PROVE  TypeInv'
<1>1. \E n \in 1..MaxPlans : plans' \in [1..n -> Plan]
  BY DEF TypeInv, TypeOK
<1>2. control' \in Controlling \cup {Idle} /\ (control' # Idle => Planned(control.mem)')
  BY DEF TypeInv, TypeOK, Planned
<1>3. /\ loop' \in Looping \cup {Idle}
      /\ loop' # Idle => Planned(loop.mem)'
      /\ ~(loop' # Idle /\ loop'.pc = "respond")
  BY DEF Planned
<1>4. TypeOK'
  BY <1>1, <1>2, <1>3 DEF TypeOK, Used
<1>. QED
  BY <1>2, <1>3, <1>4 DEF TypeInv, Planned, At

LEMMA TypeOfGoto ==
    ASSUME TypeInv, loop # Idle, NEW r \in Run, r.plan \in DOMAIN plans,
           NEW place \in {"top", "repair", "finally", "finish"}, Goto(place, r)
    PROVE  /\ loop' \in Looping /\ loop'.mem = r /\ loop'.pc = place
           /\ loop'.before = loop.before /\ loop'.result = loop.result
<1>1. loop \in Looping
  BY LoopType
<1>. QED
  BY <1>1 DEF Goto, Looping

LEMMA CurrentTypes ==
    ASSUME TypeInv
    PROVE  /\ run \in Run /\ run.plan \in DOMAIN plans
           /\ control \in Controlling \cup {Idle} /\ used \in Used /\ toolRuns \in Nat
  BY DEF TypeInv, TypeOK, Planned, Used

LEMMA TypeContinue ==
    ASSUME TypeInv, Continue
    PROVE  TypeInv'
<1> DEFINE m == [run EXCEPT !.state = "running"]
<1>1. run \in Run /\ run.plan \in DOMAIN plans /\ used \in Used /\ toolRuns \in Nat
  BY CurrentTypes
<1>2. m \in Run /\ m.plan = run.plan
  BY <1>1, Restated DEF Open
<1>3. loop' = [pc |-> "top", mem |-> m, before |-> 0, result |-> "none"]
  BY DEF Continue
<1> HIDE DEF m
<1>4. loop' \in Looping /\ loop'.mem = m /\ loop'.pc = "top"
  BY <1>2, <1>3 DEF Looping, Results
<1>. QED
  BY <1>1, <1>2, <1>4, TypeStep DEF Continue

\* A run saved as the loop returns.
LEMMA TypeSaveReturn ==
    ASSUME TypeInv, NEW r \in Run, r.plan \in DOMAIN plans, Save(r), Return,
           UNCHANGED <<plans, control, used, toolRuns>>
    PROVE  TypeInv'
<1>1. used \in Used /\ toolRuns \in Nat
  BY CurrentTypes
<1>. QED
  BY <1>1, TypeStep DEF Save, Return

LEMMA TypeCancelSeen ==
    ASSUME TypeInv, CancelSeen
    PROVE  TypeInv'
<1>1. loop # Idle /\ loop.mem \in Run /\ loop.mem.plan \in DOMAIN plans
  BY LoopType DEF CancelSeen, At, Planned
<1>2. PICK r \in Run : r = [loop.mem EXCEPT !.state = "cancelled"]
  BY <1>1, Restated DEF Final
<1>3. r.plan \in DOMAIN plans
  BY <1>1, <1>2, Restated DEF Final
<1>. QED
  BY <1>2, <1>3, TypeSaveReturn DEF CancelSeen

LEMMA TypeBudgetSpent ==
    ASSUME TypeInv, BudgetSpent
    PROVE  TypeInv'
<1>1. loop # Idle /\ loop.mem \in Run /\ loop.mem.plan \in DOMAIN plans
  BY LoopType DEF BudgetSpent, At, Planned
<1>2. PICK m \in Timed(loop.mem) : Save([m EXCEPT !.state = "paused"])
  BY DEF BudgetSpent
<1>3. m \in Run /\ m.plan = loop.mem.plan
  BY <1>1, TimedRun
<1>4. PICK r \in Run : r = [m EXCEPT !.state = "paused"]
  BY <1>3, Restated DEF Open
<1>5. r.plan \in DOMAIN plans
  BY <1>1, <1>3, <1>4, Restated DEF Open
<1>. QED
  BY <1>2, <1>4, <1>5, TypeSaveReturn DEF BudgetSpent

\* What a slice may make of a plan that has not failed.
LEMMA OutcomesType ==
    ASSUME NEW p \in Plan, NEW out \in Outcomes(p)
    PROVE  /\ out.plan \in Plan /\ out.result \in Results
           /\ p.done <= out.plan.done /\ out.plan.done <= p.done + 1
           /\ \A k \in 1..p.done : out.plan.good[k] = p.good[k]
           /\ out.result # "paused" => out.plan.done = p.done
           /\ out.plan.state = "completed" => out.result = "completed"
           /\ out.result = "completed" => p.state = "completed" \/ p.done = NSteps
<1>1. p.done \in 0..NSteps /\ p.good \in [1..NSteps -> BOOLEAN]
  BY DEF Plan
<1>2. CASE p.state = "completed" \/ p.done = NSteps
  <2>1. out = [result |-> "completed", plan |-> [p EXCEPT !.state = "completed"]]
    BY <1>2 DEF Outcomes
  <2>. QED
    BY <1>1, <1>2, <2>1 DEF Plan, Results
<1>3. CASE ~(p.state = "completed" \/ p.done = NSteps)
  <2>1. \/ out = [result |-> "awaiting_approval",
                  plan |-> [p EXCEPT !.state = "awaiting_approval"]]
        \/ out = [result |-> "failed", plan |-> [p EXCEPT !.state = "failed"]]
        \/ \E good \in BOOLEAN :
             out = [result |-> "paused",
                    plan |-> [p EXCEPT !.state = "ready", !.done = @ + 1,
                                       !.good[p.done + 1] = good]]
    BY <1>3 DEF Outcomes
  <2>2. CASE \/ out = [result |-> "awaiting_approval",
                       plan |-> [p EXCEPT !.state = "awaiting_approval"]]
             \/ out = [result |-> "failed", plan |-> [p EXCEPT !.state = "failed"]]
    BY <1>1, <2>2 DEF Plan, Results
  <2>3. CASE \E good \in BOOLEAN :
               out = [result |-> "paused",
                      plan |-> [p EXCEPT !.state = "ready", !.done = @ + 1,
                                         !.good[p.done + 1] = good]]
    <3>1. PICK good \in BOOLEAN :
            out = [result |-> "paused",
                   plan |-> [p EXCEPT !.state = "ready", !.done = p.done + 1,
                                      !.good = [p.good EXCEPT ![p.done + 1] = good]]]
      BY <2>3
    <3>2. p.done + 1 \in 1..NSteps /\ p.done + 1 \in 0..NSteps
      BY <1>1, <1>3
    <3>3. PICK g \in [1..NSteps -> BOOLEAN] :
            /\ g = [p.good EXCEPT ![p.done + 1] = good]
            /\ \A k \in 1..p.done : g[k] = p.good[k]
      <4> DEFINE g == [p.good EXCEPT ![p.done + 1] = good]
      <4>1. g \in [1..NSteps -> BOOLEAN]
        BY <1>1
      <4>2. \A k \in 1..p.done : k \in 1..NSteps /\ k # p.done + 1
        BY <1>1
      <4>3. \A k \in 1..p.done : g[k] = p.good[k]
        BY <1>1, <4>2
      <4>. QED
        BY <4>1, <4>3
    <3>4. out = [result |-> "paused",
                 plan |-> [p EXCEPT !.state = "ready", !.done = p.done + 1, !.good = g]]
      BY <3>1, <3>3
    <3>5. /\ out.result = "paused" /\ out.plan \in Plan /\ out.plan.done = p.done + 1
          /\ out.plan.good = g /\ out.plan.state = "ready"
      BY <3>2, <3>4 DEF Plan
    <3>. QED
      BY <1>1, <3>3, <3>5 DEF Results
  <2>. QED
    BY <2>1, <2>2, <2>3
<1>. QED
  BY <1>2, <1>3

LEMMA SliceShape ==
    ASSUME TypeInv, Slice
    PROVE  \E p, out :
             /\ p \in Plan /\ out \in Outcomes(p)
             /\ p = plans[loop.mem.plan] /\ p.state # "failed"
             /\ plans' = [plans EXCEPT ![loop.mem.plan] = out.plan]
             /\ DOMAIN plans' = DOMAIN plans /\ plans'[loop.mem.plan] = out.plan
             /\ out.plan \in Plan /\ out.result \in Results
             /\ loop' \in Looping /\ loop'.mem = loop.mem /\ loop'.pc = "respond"
             /\ loop'.before = p.done /\ loop'.result = out.result
             /\ toolRuns' = toolRuns + CallOf(out.result)
<1>1. loop # Idle /\ At("top")
  BY DEF Slice, At
<1>2. /\ loop \in Looping /\ loop.mem \in Run /\ loop.mem.plan \in DOMAIN plans
      /\ plans[loop.mem.plan] \in Plan
  BY <1>1, LoopType DEF Planned
<1>3. PICK p \in Plan : p = plans[loop.mem.plan] /\ p.state # "failed"
  BY <1>2 DEF Slice
<1>4. PICK out \in Outcomes(p) :
        /\ plans' = [plans EXCEPT ![loop.mem.plan] = out.plan]
        /\ loop' = [loop EXCEPT !.pc = "respond", !.before = p.done, !.result = out.result]
        /\ toolRuns' = IF Called(out.result) THEN toolRuns + 1 ELSE toolRuns
  BY <1>3 DEF Slice
<1>5. out.plan \in Plan /\ out.result \in Results
  BY <1>3, OutcomesType
<1>6. p.done \in 0..NSteps
  BY <1>3 DEF Plan
<1>7. /\ loop' \in Looping /\ loop'.mem = loop.mem /\ loop'.pc = "respond"
      /\ loop'.before = p.done /\ loop'.result = out.result
  BY <1>2, <1>4, <1>5, <1>6 DEF Looping
<1>8. DOMAIN plans' = DOMAIN plans /\ plans'[loop.mem.plan] = out.plan
  BY <1>2, <1>4
<1>9. toolRuns' = toolRuns + CallOf(out.result)
  <2>1. toolRuns \in Nat
    BY CurrentTypes
  <2>2. CASE Called(out.result)
    BY <1>4, <2>2 DEF CallOf
  <2>3. CASE ~Called(out.result)
    BY <1>4, <2>1, <2>3 DEF CallOf
  <2>. QED
    BY <2>2, <2>3
<1>. QED
  BY <1>3, <1>4, <1>5, <1>7, <1>8, <1>9

LEMMA TypeSlice ==
    ASSUME TypeInv, Slice
    PROVE  TypeInv'
<1>1. PICK p, out :
        /\ p \in Plan /\ out \in Outcomes(p)
        /\ plans' = [plans EXCEPT ![loop.mem.plan] = out.plan]
        /\ DOMAIN plans' = DOMAIN plans /\ out.plan \in Plan
        /\ loop' \in Looping /\ loop'.mem = loop.mem /\ loop'.pc = "respond"
        /\ toolRuns' = toolRuns + CallOf(out.result)
  BY SliceShape
<1>2. loop # Idle /\ ~Exhausted(loop.mem) /\ UNCHANGED <<run, control, used>>
  BY DEF Slice, At
<1>3. loop.mem \in Run /\ loop.mem.plan \in DOMAIN plans
  BY <1>2, LoopType DEF Planned
<1>4. WithinBudget(loop.mem)
  BY <1>2, <1>3 DEF Exhausted, WithinBudget, Run
<1>5. \E n \in 1..MaxPlans : plans' \in [1..n -> Plan]
  <2>1. PICK n \in 1..MaxPlans : plans \in [1..n -> Plan]
    BY DEF TypeInv, TypeOK
  <2>. QED
    BY <1>1, <2>1
<1>6. toolRuns' \in Nat
  <2>1. toolRuns \in Nat
    BY CurrentTypes
  <2>. QED
    BY <1>1, <2>1 DEF CallOf
<1>7. TypeOK'
  BY <1>1, <1>2, <1>5, <1>6 DEF TypeInv, TypeOK
<1>8. Planned(run)' /\ Planned(loop.mem)' /\ (control' # Idle => Planned(control.mem)')
  BY <1>1, <1>2, <1>3 DEF TypeInv, Planned
<1>9. WithinBudget(loop.mem)'
  BY <1>1, <1>4 DEF WithinBudget
<1>. QED
  BY <1>7, <1>8, <1>9 DEF TypeInv

LEMMA TypeSliceRefused ==
    ASSUME TypeInv, SliceRefused
    PROVE  TypeInv'
<1>1. loop # Idle /\ loop.mem \in Run /\ loop.mem.plan \in DOMAIN plans
  BY LoopType DEF SliceRefused, At, Planned
<1>2. loop' \in Looping /\ loop'.mem = loop.mem /\ loop'.pc = "finally"
  BY <1>1, TypeOfGoto DEF SliceRefused
<1>. QED
  BY <1>1, <1>2, CurrentTypes, TypeStep DEF SliceRefused

\* The copy of the loop once the slice is counted.
LEMMA RespondTypes ==
    ASSUME TypeInv, At("respond")
    PROVE  \E m \in Run :
             /\ m = Counted(loop.mem, loop.result)
             /\ loop # Idle /\ m.plan = loop.mem.plan /\ m.plan \in DOMAIN plans
             /\ m.state = loop.mem.state /\ m.observed = loop.mem.observed
             /\ m.calls = loop.mem.calls + CallOf(loop.result)
             /\ m.failures < MaxFailures
<1>1. loop # Idle /\ loop.mem \in Run /\ loop.mem.plan \in DOMAIN plans
  BY LoopType DEF At, Planned
<1>2. WithinBudget(loop.mem)
  BY DEF TypeInv
<1>3. PICK m : m = Counted(loop.mem, loop.result)
  OBVIOUS
<1>. QED
  BY <1>1, <1>2, <1>3, CountedRun DEF WithinBudget

LEMMA TypeAwaitApproval ==
    ASSUME TypeInv, AwaitApproval
    PROVE  TypeInv'
<1>1. PICK m \in Run : m = Counted(loop.mem, loop.result) /\ m.plan \in DOMAIN plans
  BY RespondTypes DEF AwaitApproval
<1>2. PICK r : r = [m EXCEPT !.state = "awaiting_approval"]
  OBVIOUS
<1>3. r \in Run /\ r.plan = m.plan
  BY <1>2, Restated DEF Open
<1>. QED
  BY <1>1, <1>2, <1>3, TypeSaveReturn DEF AwaitApproval

LEMMA TypeGiveUpOrRepair ==
    ASSUME TypeInv, loop # Idle, NEW r \in Run, r.plan \in DOMAIN plans,
           GiveUpOrRepair(r), UNCHANGED <<plans, control, used, toolRuns>>
    PROVE  TypeInv'
<1>1. CASE FailureBudgetNamed(r)
  <2>1. PICK m : m = [r EXCEPT !.state = "failed"]
    OBVIOUS
  <2>2. m \in Run /\ m.plan = r.plan
    BY <2>1, Restated DEF Final
  <2>. QED
    BY <1>1, <2>1, <2>2, TypeSaveReturn DEF GiveUpOrRepair
<1>2. CASE ~FailureBudgetNamed(r)
  <2>1. Goto("repair", r) /\ UNCHANGED run
    BY <1>2 DEF GiveUpOrRepair
  <2>2. loop' \in Looping /\ loop'.mem = r /\ loop'.pc = "repair"
    BY <2>1, TypeOfGoto
  <2>. QED
    BY <2>1, <2>2, CurrentTypes, TypeStep
<1>. QED
  BY <1>1, <1>2

LEMMA TypeSliceFailed ==
    ASSUME TypeInv, SliceFailed
    PROVE  TypeInv'
<1>1. PICK m \in Run :
        /\ m = Counted(loop.mem, loop.result) /\ loop # Idle
        /\ m.plan \in DOMAIN plans /\ m.failures < MaxFailures
  BY RespondTypes DEF SliceFailed
<1>2. PICK r : r = [m EXCEPT !.failures = @ + 1]
  OBVIOUS
<1>3. r \in Run /\ r.plan = m.plan
  BY <1>1, <1>2, FailedRun
<1>. QED
  BY <1>1, <1>2, <1>3, TypeGiveUpOrRepair DEF SliceFailed

LEMMA TypeVerificationFailed ==
    ASSUME TypeInv, VerificationFailed
    PROVE  TypeInv'
<1>1. PICK m \in Run :
        /\ m = Counted(loop.mem, loop.result) /\ loop # Idle
        /\ m.plan = loop.mem.plan /\ m.plan \in DOMAIN plans /\ m.failures < MaxFailures
  BY RespondTypes DEF VerificationFailed
<1>2. PICK o \in Run : o = Observed(m) /\ o.plan = m.plan /\ o.failures = m.failures
  BY <1>1, ObservedRun
<1>3. PICK r : r = [o EXCEPT !.failures = @ + 1]
  OBVIOUS
<1>4. r \in Run /\ r.plan = m.plan
  BY <1>1, <1>2, <1>3, FailedRun
<1>. QED
  BY <1>1, <1>2, <1>3, <1>4, TypeGiveUpOrRepair DEF VerificationFailed

\* What a checkpoint saves: the copy, counted, observed and with its failures
\* taken back when a step was completed.
LEMMA CheckpointShape ==
    ASSUME TypeInv, Checkpoint
    PROVE  \E s \in Run :
             /\ s.plan = loop.mem.plan /\ s.plan \in DOMAIN plans
             /\ s.state = loop.mem.state
             /\ s.calls = loop.mem.calls + CallOf(loop.result)
             /\ loop.mem.observed \subseteq s.observed
             /\ \A k \in NewlyCompleted :
                  /\ plans[s.plan].good[k]
                  /\ [plan |-> s.plan, step |-> k, verified |-> TRUE] \in s.observed
             /\ IF loop.result = "completed"
                THEN Save([s EXCEPT !.state = "completed"]) /\ Return
                ELSE Save(s) /\ Goto("top", s)
<1>1. PICK m \in Run :
        /\ m = Counted(loop.mem, loop.result) /\ loop # Idle
        /\ m.plan = loop.mem.plan /\ m.plan \in DOMAIN plans
        /\ m.state = loop.mem.state /\ m.observed = loop.mem.observed
        /\ m.calls = loop.mem.calls + CallOf(loop.result)
  BY RespondTypes DEF Checkpoint
<1>2. PICK o \in Run :
        /\ o = Observed(m) /\ o.plan = m.plan /\ o.state = m.state
        /\ o.calls = m.calls /\ m.observed \subseteq o.observed
        /\ \A k \in NewlyCompleted : Verified(plans[m.plan], k) =>
             [plan |-> m.plan, step |-> k, verified |-> TRUE] \in o.observed
  BY <1>1, ObservedRun
<1>3. \A k \in NewlyCompleted : Verified(plans[m.plan], k)
  BY <1>1 DEF Checkpoint, AllVerified
<1>4. PICK s : s = IF NewlyCompleted = {} THEN o ELSE [o EXCEPT !.failures = 0]
  OBVIOUS
<1>5. /\ s \in Run /\ s.plan = o.plan /\ s.state = o.state /\ s.calls = o.calls
      /\ s.observed = o.observed
  <2>1. 0 \in 0..MaxFailures
    OBVIOUS
  <2>. QED
    BY <1>4, <2>1 DEF Run
<1>6. IF loop.result = "completed"
      THEN Save([s EXCEPT !.state = "completed"]) /\ Return
      ELSE Save(s) /\ Goto("top", s)
  BY <1>1, <1>2, <1>4 DEF Checkpoint
<1>7. \A k \in NewlyCompleted :
        /\ plans[s.plan].good[k]
        /\ [plan |-> s.plan, step |-> k, verified |-> TRUE] \in s.observed
  BY <1>1, <1>2, <1>3, <1>5 DEF Verified
<1>. QED
  BY <1>1, <1>2, <1>5, <1>6, <1>7

LEMMA TypeCheckpoint ==
    ASSUME TypeInv, Checkpoint
    PROVE  TypeInv'
<1>1. PICK s \in Run :
        /\ s.plan \in DOMAIN plans
        /\ IF loop.result = "completed"
           THEN Save([s EXCEPT !.state = "completed"]) /\ Return
           ELSE Save(s) /\ Goto("top", s)
  BY CheckpointShape
<1>2. loop # Idle
  BY DEF Checkpoint, At
<1>3. CASE loop.result = "completed"
  <2>1. PICK r : r = [s EXCEPT !.state = "completed"]
    OBVIOUS
  <2>2. r \in Run /\ r.plan = s.plan
    BY <2>1, Restated DEF Final
  <2>. QED
    BY <1>1, <1>3, <2>1, <2>2, TypeSaveReturn DEF Checkpoint
<1>4. CASE loop.result # "completed"
  <2>1. Save(s) /\ Goto("top", s)
    BY <1>1, <1>4
  <2>2. loop' \in Looping /\ loop'.mem = s /\ loop'.pc = "top"
    BY <1>1, <1>2, <2>1, TypeOfGoto
  <2>. QED
    BY <1>1, <2>1, <2>2, CurrentTypes, TypeStep DEF Save, Checkpoint
<1>. QED
  BY <1>3, <1>4

LEMMA RepairShape ==
    ASSUME TypeInv, Repair
    PROVE  \E child \in 1..MaxPlans, r \in Run :
             /\ DOMAIN plans = 1..child - 1 /\ DOMAIN plans' = 1..child
             /\ plans' \in [1..child -> Plan] /\ plans'[child] = NewPlan
             /\ \A k \in 1..child - 1 : plans'[k] = plans[k]
             /\ r.plan = child /\ r.calls = loop.mem.calls
             /\ r.observed = loop.mem.observed /\ r.state = loop.mem.state
             /\ run' = r /\ loop' \in Looping /\ loop'.mem = r /\ loop'.pc = "top"
<1>1. loop # Idle /\ loop \in Looping /\ loop.mem \in Run
  BY LoopType DEF Repair, At
<1>2. PICK n \in 1..MaxPlans :
        plans \in [1..n -> Plan] /\ DOMAIN plans = 1..n /\ PlanCount = n
  BY PlansType DEF TypeInv
<1>3. PICK child \in 1..MaxPlans : child = n + 1 /\ child = PlanCount + 1
  BY <1>2 DEF Repair
<1>4. PICK r : r = Repaired(loop.mem, child)
  OBVIOUS
<1>5. /\ r \in Run /\ r.plan = child /\ r.calls = loop.mem.calls
      /\ r.observed = loop.mem.observed /\ r.state = loop.mem.state
  <2>1. PICK more \in Nat : more = loop.mem.repairs + 1
    BY <1>1 DEF Run
  <2>2. r = [loop.mem EXCEPT !.repairs = more, !.plan = child]
    BY <1>4, <2>1 DEF Repaired
  <2>. QED
    BY <1>1, <2>2 DEF Run
<1>6. /\ plans' = [k \in 1..child |-> IF k = child THEN NewPlan ELSE plans[k]]
      /\ Save(r) /\ Goto("top", r)
  BY <1>3, <1>4 DEF Repair
<1>7. NewPlan \in Plan
  BY DEF NewPlan, Plan
<1>8. \A k \in 1..child : k = child \/ k \in 1..n
  BY <1>3
<1>9. plans' \in [1..child -> Plan]
  BY <1>2, <1>6, <1>7, <1>8
<1>10. plans'[child] = NewPlan /\ \A k \in 1..child - 1 : plans'[k] = plans[k]
  BY <1>3, <1>6
<1>11. DOMAIN plans = 1..child - 1 /\ DOMAIN plans' = 1..child
  BY <1>2, <1>3, <1>6
<1>12. loop' \in Looping /\ loop'.mem = r /\ loop'.pc = "top"
  BY <1>1, <1>5, <1>6 DEF Looping, Goto
<1>. QED
  BY <1>5, <1>6, <1>9, <1>10, <1>11, <1>12 DEF Save

LEMMA TypeRepair ==
    ASSUME TypeInv, Repair
    PROVE  TypeInv'
<1>1. PICK child \in 1..MaxPlans, r \in Run :
        /\ DOMAIN plans = 1..child - 1 /\ DOMAIN plans' = 1..child
        /\ plans' \in [1..child -> Plan] /\ r.plan = child
        /\ run' = r /\ loop' \in Looping /\ loop'.mem = r /\ loop'.pc = "top"
  BY RepairShape
<1>2. DOMAIN plans \subseteq DOMAIN plans'
  BY <1>1
<1>3. UNCHANGED <<control, used, toolRuns>>
  BY DEF Repair
<1>4. TypeOK'
  BY <1>1, <1>3 DEF TypeInv, TypeOK
<1>5. Planned(run)' /\ Planned(loop.mem)' /\ (control' # Idle => Planned(control.mem)')
  BY <1>1, <1>2, <1>3 DEF TypeInv, Planned
<1>. QED
  BY <1>1, <1>4, <1>5 DEF TypeInv, At

LEMMA TypeRepairRaises ==
    ASSUME TypeInv, RepairRaises
    PROVE  TypeInv'
<1>1. loop # Idle /\ loop.mem \in Run /\ loop.mem.plan \in DOMAIN plans
  BY LoopType DEF RepairRaises, At, Planned
<1>2. loop' \in Looping /\ loop'.mem = loop.mem /\ loop'.pc = "finally"
  BY <1>1, TypeOfGoto DEF RepairRaises
<1>3. used' \in Used
  BY CurrentTypes DEF RepairRaises, Used
<1>. QED
  BY <1>1, <1>2, <1>3, CurrentTypes, TypeStep DEF RepairRaises

LEMMA TypeFinallyRead ==
    ASSUME TypeInv, FinallyRead
    PROVE  TypeInv'
<1>1. loop # Idle
  BY DEF FinallyRead, At
<1>2. CASE run.state = "running"
  <2>1. PICK r \in Timed(run) : Goto("finish", r)
    BY <1>2 DEF FinallyRead
  <2>2. r \in Run /\ r.plan \in DOMAIN plans
    BY <2>1, CurrentTypes, TimedRun
  <2>3. loop' \in Looping /\ loop'.mem = r /\ loop'.pc = "finish"
    BY <1>1, <2>1, <2>2, TypeOfGoto
  <2>. QED
    BY <2>2, <2>3, CurrentTypes, TypeStep DEF FinallyRead
<1>3. CASE run.state # "running"
  BY <1>3, CurrentTypes, TypeStep DEF FinallyRead, Return
<1>. QED
  BY <1>2, <1>3

LEMMA TypeFinallySave ==
    ASSUME TypeInv, FinallySave
    PROVE  TypeInv'
<1>1. loop.mem \in Run /\ loop.mem.plan \in DOMAIN plans
  BY LoopType DEF FinallySave, At, Planned
<1>. QED
  BY <1>1, TypeSaveReturn DEF FinallySave

\* A copy of the run is all that pause and cancel take.
LEMMA TypeControlRead ==
    ASSUME TypeInv, NEW kind \in {"paused", "cancelled"}, ControlRead(kind)
    PROVE  TypeInv'
<1>1. control' \in Controlling /\ control'.mem = run
  BY CurrentTypes DEF ControlRead, Controlling
<1>2. used' \in Used
  BY CurrentTypes DEF ControlRead, Used
<1>3. control' # Idle => Planned(control.mem)'
  BY <1>1, CurrentTypes DEF ControlRead, Planned
<1>. QED
  BY <1>1, <1>2, <1>3 DEF TypeInv, TypeOK, Used, ControlRead, Planned, At, WithinBudget

LEMMA TypeControlWrite ==
    ASSUME TypeInv, ControlWrite
    PROVE  TypeInv'
<1>1. /\ control \in Controlling /\ control.mem \in Run /\ control.mem.plan \in DOMAIN plans
      /\ control.kind \in Open \cup Final
  BY DEF TypeInv, TypeOK, ControlWrite, Controlling, Planned, Open, Final
<1>2. run' \in Run /\ run'.plan = control.mem.plan
  BY <1>1, Restated DEF ControlWrite, Save
<1>3. Planned(run)' /\ (loop' # Idle => Planned(loop.mem)')
  BY <1>1, <1>2 DEF TypeInv, ControlWrite, Planned
<1>4. TypeOK'
  BY <1>2 DEF TypeInv, TypeOK, ControlWrite
<1>. QED
  BY <1>3, <1>4 DEF TypeInv, ControlWrite, At, WithinBudget

LEMMA TypeCrash ==
    ASSUME TypeInv, Crash
    PROVE  TypeInv'
<1>1. used' \in Used
  BY CurrentTypes DEF Crash, Used
<1>. QED
  BY <1>1, CurrentTypes, TypeStep DEF Crash, Return

LEMMA TypeInit ==
    ASSUME Init
    PROVE  TypeInv
<1>1. NewRun \in Run /\ NewRun.plan = 1
  BY DEF NewRun, Run, Open
<1>2. NewPlan \in Plan
  BY DEF NewPlan, Plan
<1>3. plans \in [1..1 -> Plan] /\ DOMAIN plans = 1..1 /\ 1 \in 1..MaxPlans /\ 1 \in 1..1
  BY <1>2 DEF Init
<1>4. used \in Used
  BY DEF Init, Used
<1>5. TypeOK
  BY <1>1, <1>3, <1>4 DEF Init, TypeOK, Used
<1>. QED
  BY <1>1, <1>3, <1>5 DEF Init, TypeInv, Planned, At

LEMMA TypeNext ==
    ASSUME TypeInv, [Next]_vars
    PROVE  TypeInv'
<1>1. CASE UNCHANGED vars
  BY <1>1 DEF vars, TypeInv, TypeOK, Planned, At, WithinBudget
<1>2. CASE Continue
  BY <1>2, TypeContinue
<1>3. CASE LoopStep
  BY <1>3, TypeCancelSeen, TypeBudgetSpent, TypeSlice, TypeSliceRefused,
     TypeAwaitApproval, TypeSliceFailed, TypeVerificationFailed, TypeCheckpoint,
     TypeRepair, TypeRepairRaises, TypeFinallyRead, TypeFinallySave DEF LoopStep
<1>4. CASE \E kind \in {"paused", "cancelled"} : ControlRead(kind)
  BY <1>4, TypeControlRead
<1>5. CASE ControlWrite
  BY <1>5, TypeControlWrite
<1>6. CASE Crash
  BY <1>6, TypeCrash
<1>. QED
  BY <1>1, <1>2, <1>3, <1>4, <1>5, <1>6 DEF Next

\* Every value the run, its plans, the copy of the loop and the copies of pause
\* and cancel hold is one of its type: no counter of the stored run passes its
\* budget, in whatever order continue_run, pause and cancel write it back.
THEOREM TypeCorrect == Spec => []TypeOK
<1>1. Init => TypeInv
  BY TypeInit
<1>2. TypeInv /\ [Next]_vars => TypeInv'
  BY TypeNext
<1>3. TypeInv => TypeOK
  BY DEF TypeInv
<1>. QED
  BY <1>1, <1>2, <1>3, PTL DEF Spec

-----------------------------------------------------------------------------
\* Steps without a proof

LEMMA MissingFinite ==
    ASSUME NEW good, NEW plan, NEW observed, NEW n \in Nat
    PROVE  /\ IsFiniteSet(Missing(good, plan, observed, n))
           /\ Cardinality(Missing(good, plan, observed, n)) \in Nat
<1>1. IsFiniteSet(1..n)
  BY FS_Interval
<1>2. Missing(good, plan, observed, n) \subseteq 1..n
  BY DEF Missing
<1>. QED
  BY <1>1, <1>2, FS_Subset, FS_CardinalityType

LEMMA MissingNone ==
    ASSUME NEW good, NEW plan, NEW observed
    PROVE  Cardinality(Missing(good, plan, observed, 0)) = 0
<1>1. Missing(good, plan, observed, 0) = {}
  BY DEF Missing
<1>. QED
  BY <1>1, FS_EmptySet

\* Steps that were observed to be good are missing no longer.
LEMMA MissingShrinks ==
    ASSUME NEW plan, NEW good, NEW seen, NEW n \in Nat,
           NEW goodAfter, NEW seenAfter, NEW m \in Nat,
           \A k \in 1..m : k \in 1..n =>
             /\ good[k] => goodAfter[k]
             /\ [plan |-> plan, step |-> k, verified |-> TRUE] \in seen =>
                  [plan |-> plan, step |-> k, verified |-> TRUE] \in seenAfter,
           \A k \in 1..m : k \notin 1..n =>
             goodAfter[k] /\ [plan |-> plan, step |-> k, verified |-> TRUE] \in seenAfter
    PROVE  Cardinality(Missing(goodAfter, plan, seenAfter, m))
             <= Cardinality(Missing(good, plan, seen, n))
<1>1. Missing(goodAfter, plan, seenAfter, m) \subseteq Missing(good, plan, seen, n)
  BY DEF Missing
<1>. QED
  BY <1>1, MissingFinite, FS_Subset

\* One step more is at most one more to miss.
LEMMA MissingGrows ==
    ASSUME NEW good, NEW plan, NEW observed, NEW n \in Nat, NEW m \in n..n + 1
    PROVE  Cardinality(Missing(good, plan, observed, m))
             <= Cardinality(Missing(good, plan, observed, n)) + 1
<1> DEFINE A == Missing(good, plan, observed, n)
           B == Missing(good, plan, observed, m)
<1>1. /\ IsFiniteSet(A) /\ Cardinality(A) \in Nat
      /\ IsFiniteSet(B) /\ Cardinality(B) \in Nat
  BY MissingFinite
<1>2. B \subseteq A \cup {m}
  <2>1. \A k \in 1..m : k \in 1..n \/ k = m
    OBVIOUS
  <2>. QED
    BY <2>1 DEF Missing
<1> HIDE DEF A, B
<1>3. IsFiniteSet(A \cup {m}) /\ Cardinality(A \cup {m}) <= Cardinality(A) + 1
  <2>1. /\ IsFiniteSet(A \cup {m})
        /\ Cardinality(A \cup {m}) = IF m \in A THEN Cardinality(A) ELSE Cardinality(A) + 1
    BY <1>1, FS_AddElement
  <2>. QED
    BY <1>1, <2>1
<1>4. Cardinality(B) <= Cardinality(A \cup {m}) /\ Cardinality(A \cup {m}) \in Nat
  BY <1>2, <1>3, FS_Subset, FS_CardinalityType
<1>. QED
  BY <1>1, <1>3, <1>4 DEF A, B

-----------------------------------------------------------------------------
\* Budget and verification, action by action

LEMMA Numbers ==
    ASSUME TypeInv
    PROVE  /\ toolRuns \in Nat /\ Interruptions \in Nat /\ run.calls \in Nat
           /\ run.calls <= MaxToolCalls
           /\ Unsaved \in {0, 1} /\ Done(run) \in 0..NSteps
           /\ \A n \in Nat : Cardinality(Gap(run, n)) \in Nat
<1>1. PICK n \in 1..MaxPlans : plans \in [1..n -> Plan] /\ DOMAIN plans = 1..n
  BY PlansType DEF TypeInv
<1>2. run \in Run /\ plans[run.plan] \in Plan /\ used \in Used /\ toolRuns \in Nat
  BY <1>1, CurrentTypes
<1>3. Interruptions \in Nat
  BY <1>2 DEF Used, Interruptions
<1>4. \A k \in Nat : Cardinality(Gap(run, k)) \in Nat
  BY MissingFinite DEF Gap
<1>5. Unsaved \in {0, 1}
  BY DEF Unsaved
<1>6. run.calls \in Nat /\ run.calls <= MaxToolCalls /\ Done(run) \in 0..NSteps
  BY <1>2 DEF Run, Plan, Done
<1>. QED
  BY <1>2, <1>3, <1>4, <1>5, <1>6

\* The steps that keep the plans and what the stored run counts and observes:
\* what was not saved is still not saved, or an interruption.
LEMMA KeepStep ==
    ASSUME IInv, TypeInv', UNCHANGED <<plans, toolRuns>>,
           run'.plan = run.plan, run'.calls = run.calls, run'.observed = run.observed,
           ~GivenUp(run') => ~GivenUp(run),
           run'.state = "completed" => run.state = "completed",
           Interruptions + Unsaved <= Interruptions' + Unsaved'
    PROVE  PlansSound' /\ BudgetInv' /\ GapInv'
<1>1. PlansSound'
  BY DEF IInv, PlansSound
<1>2. /\ toolRuns \in Nat /\ Interruptions \in Nat /\ run.calls \in Nat /\ Unsaved \in Nat
      /\ Cardinality(Gap(run, Done(run))) \in Nat
  <2>1. Done(run) \in Nat /\ Unsaved \in Nat
    BY Numbers DEF IInv
  <2>. QED
    BY <2>1, Numbers DEF IInv
<1>3. Interruptions' \in Nat /\ Unsaved' \in Nat
  <2>1. used' \in Used
    BY DEF TypeInv, TypeOK, Used
  <2>. QED
    BY <2>1 DEF Used, Interruptions, Unsaved
<1>4. PICK c \in Nat, d \in Nat : c = Interruptions' /\ d = Unsaved'
  BY <1>3
<1>5. Interruptions + Unsaved <= c + d
  BY <1>4
<1>6. BudgetInv'
  <2>1. toolRuns <= run.calls + Interruptions + Unsaved
    BY DEF IInv, BudgetInv
  <2>2. toolRuns <= run.calls + c + d
    BY <1>2, <1>5, <2>1
  <2>. QED
    BY <1>4, <2>2 DEF BudgetInv
<1>7. Done(run)' = Done(run)
  BY DEF Done
<1>8. Gap(run, Done(run))' = Gap(run, Done(run))
  BY <1>7 DEF Gap
<1>9. GapInv'
  <2>1. ASSUME ~GivenUp(run')
        PROVE  Cardinality(Gap(run, Done(run))) <= Interruptions' + Unsaved'
    <3>1. Cardinality(Gap(run, Done(run))) <= Interruptions + Unsaved
      BY <2>1 DEF IInv, GapInv
    <3>2. Cardinality(Gap(run, Done(run))) <= c + d
      BY <1>2, <1>5, <3>1
    <3>. QED
      BY <1>4, <3>2
  <2>2. run'.state = "completed" => Done(run) = NSteps
    BY DEF IInv, GapInv
  <2>. QED
    BY <1>7, <1>8, <2>1, <2>2 DEF GapInv, GivenUp
<1>. QED
  BY <1>1, <1>6, <1>9

\* While the loop runs, neither pause nor cancel does.
LEMMA SoundReturn ==
    ASSUME IInv, TypeInv', loop # Idle, Return, UNCHANGED control,
           PlansSound', BudgetInv', GapInv'
    PROVE  IInv'
<1>1. loop' = Idle /\ control' = Idle
  BY DEF IInv, ControlSound, Return
<1>2. LoopSound' /\ ControlSound'
  BY <1>1 DEF LoopSound, ControlSound
<1>. QED
  BY <1>2 DEF IInv

LEMMA SoundContinue ==
    ASSUME ForegroundControl, IInv, TypeInv', Continue
    PROVE  IInv'
<1> DEFINE m == [run EXCEPT !.state = "running"]
<1>1. /\ loop = Idle /\ control = Idle /\ run.state \in Open
      /\ UNCHANGED <<run, plans, control, used, toolRuns>>
  BY DEF Continue, Resumable
<1>2. /\ m.state = "running" /\ m.plan = run.plan /\ m.calls = run.calls
      /\ m.observed = run.observed
  BY CurrentTypes, Restated DEF IInv, Open
<1>3. loop' = [pc |-> "top", mem |-> m, before |-> 0, result |-> "none"]
  BY DEF Continue
<1> HIDE DEF m
<1>4. loop'.pc = "top" /\ loop'.mem = m
  BY <1>3
<1>5. Interruptions' = Interruptions /\ Unsaved = 0 /\ Unsaved' = 0
  BY <1>1, <1>4 DEF Interruptions, Unsaved, At
<1>6. Interruptions + Unsaved <= Interruptions' + Unsaved'
  BY <1>5, Numbers DEF IInv
<1>7. PlansSound' /\ BudgetInv' /\ GapInv'
  BY <1>1, <1>6, KeepStep
<1>8. LoopSound'
  BY <1>1, <1>2, <1>4 DEF LoopSound, InStep
<1>9. ControlSound'
  BY <1>1 DEF ControlSound
<1>. QED
  BY <1>7, <1>8, <1>9 DEF IInv

\* A run saved at the top of the loop or at its end, and the loop left.
LEMMA SoundSaveReturn ==
    ASSUME IInv, TypeInv', At("top") \/ At("finish"), NEW r, Save(r), Return,
           UNCHANGED <<plans, control, used, toolRuns>>,
           r.plan = loop.mem.plan, r.calls = loop.mem.calls,
           r.observed = loop.mem.observed, r.state # "completed"
    PROVE  IInv'
<1>1. loop # Idle /\ loop.pc \in {"top", "finish"} /\ run' = r
  BY DEF At, Save
<1>2. InStep(loop.mem) /\ run.state \in Open
  BY <1>1 DEF IInv, LoopSound
<1>3. Interruptions' = Interruptions /\ Unsaved = 0 /\ Unsaved' = 0
  BY <1>1 DEF Interruptions, Unsaved, At, Return
<1>4. Interruptions + Unsaved <= Interruptions' + Unsaved'
  BY <1>3, Numbers DEF IInv
<1>5. ~GivenUp(run)
  BY <1>2 DEF GivenUp, Open
<1>6. PlansSound' /\ BudgetInv' /\ GapInv'
  BY <1>1, <1>2, <1>4, <1>5, KeepStep DEF InStep
<1>. QED
  BY <1>1, <1>6, SoundReturn

LEMMA SoundCancelSeen ==
    ASSUME IInv, TypeInv', CancelSeen
    PROVE  IInv'
<1>1. loop.mem \in Run
  BY LoopType DEF CancelSeen, At, IInv
<1>2. PICK r : r = [loop.mem EXCEPT !.state = "cancelled"]
  OBVIOUS
<1>3. /\ r.plan = loop.mem.plan /\ r.calls = loop.mem.calls
      /\ r.observed = loop.mem.observed /\ r.state = "cancelled"
  BY <1>1, <1>2, Restated DEF Final
<1>. QED
  BY <1>2, <1>3, SoundSaveReturn DEF CancelSeen

LEMMA SoundBudgetSpent ==
    ASSUME IInv, TypeInv', BudgetSpent
    PROVE  IInv'
<1>1. loop.mem \in Run
  BY LoopType DEF BudgetSpent, At, IInv
<1>2. PICK m \in Timed(loop.mem) : Save([m EXCEPT !.state = "paused"])
  BY DEF BudgetSpent
<1>3. PICK r : r = [m EXCEPT !.state = "paused"]
  OBVIOUS
<1>4. /\ r.plan = loop.mem.plan /\ r.calls = loop.mem.calls
      /\ r.observed = loop.mem.observed /\ r.state = "paused"
  <2>1. /\ m \in Run /\ m.plan = loop.mem.plan /\ m.calls = loop.mem.calls
        /\ m.observed = loop.mem.observed
    BY <1>1, TimedRun
  <2>. QED
    BY <1>3, <2>1, Restated DEF Open
<1>. QED
  BY <1>2, <1>3, <1>4, SoundSaveReturn DEF BudgetSpent

LEMMA SoundFinallySave ==
    ASSUME IInv, TypeInv', FinallySave
    PROVE  IInv'
<1>1. loop.mem.state = "running"
  BY DEF IInv, LoopSound, FinallySave, At
<1>. QED
  BY <1>1, SoundSaveReturn DEF FinallySave

\* An exception on its way out of the loop.
LEMMA SoundLeaving ==
    ASSUME IInv, TypeInv', loop # Idle, NEW r \in Run, r.plan \in DOMAIN plans,
           NEW place \in {"finally", "finish"}, Goto(place, r), r.state = "running",
           place = "finish" => InStep(r),
           UNCHANGED <<run, plans, control, toolRuns>>,
           Interruptions + Unsaved <= Interruptions'
    PROVE  IInv'
<1>1. loop'.mem = r /\ loop'.pc = place /\ TypeInv
  BY TypeOfGoto DEF IInv
<1>2. Unsaved' = 0
  BY <1>1 DEF Unsaved, At
<1>3. Interruptions + Unsaved <= Interruptions' + Unsaved'
  <2>1. Interruptions' \in Nat
    BY DEF TypeInv, TypeOK, Interruptions
  <2>. QED
    BY <1>2, <2>1
<1>4. PlansSound' /\ BudgetInv' /\ GapInv'
  BY <1>3, KeepStep
<1>5. run.state \in Open /\ control = Idle
  BY DEF IInv, LoopSound, ControlSound
<1>6. LoopSound'
  BY <1>1, <1>5 DEF LoopSound, InStep
<1>7. ControlSound'
  BY <1>5 DEF ControlSound
<1>. QED
  BY <1>4, <1>6, <1>7 DEF IInv

LEMMA SoundSliceRefused ==
    ASSUME IInv, TypeInv', SliceRefused
    PROVE  IInv'
<1>1. loop # Idle /\ loop.pc = "top" /\ loop.mem \in Run /\ loop.mem.plan \in DOMAIN plans
  BY LoopType DEF SliceRefused, At, IInv, Planned
<1>2. loop.mem.state = "running"
  BY <1>1 DEF IInv, LoopSound
<1>3. Interruptions' = Interruptions /\ Unsaved = 0
  BY <1>1 DEF SliceRefused, Interruptions, Unsaved, At
<1>4. Interruptions + Unsaved <= Interruptions'
  BY <1>3, Numbers DEF IInv
<1>. QED
  BY <1>1, <1>2, <1>4, SoundLeaving DEF SliceRefused

LEMMA SoundRepairRaises ==
    ASSUME IInv, TypeInv', RepairRaises
    PROVE  IInv'
<1>1. loop # Idle /\ loop.mem \in Run /\ loop.mem.plan \in DOMAIN plans
  BY LoopType DEF RepairRaises, At, IInv, Planned
<1>2. loop.mem.state = "running"
  BY <1>1 DEF IInv, LoopSound
<1>3. Interruptions + Unsaved <= Interruptions'
  <2>1. used \in Used /\ used'.raises = used.raises + 1 /\ used'.crashes = used.crashes
    BY CurrentTypes DEF IInv, RepairRaises, Used
  <2>2. Unsaved \in {0, 1}
    BY DEF Unsaved
  <2>3. Interruptions \in Nat /\ Interruptions' = Interruptions + 1
    BY <2>1 DEF Interruptions, Used
  <2>. QED
    BY <2>2, <2>3
<1>. QED
  BY <1>1, <1>2, <1>3, SoundLeaving DEF RepairRaises

LEMMA SoundFinallyRead ==
    ASSUME IInv, TypeInv', FinallyRead
    PROVE  IInv'
<1>1. loop # Idle /\ loop.pc = "finally" /\ UNCHANGED <<run, plans, control, used, toolRuns>>
  BY DEF FinallyRead, At
<1>2. Interruptions' = Interruptions /\ Unsaved = 0
  BY <1>1 DEF Interruptions, Unsaved, At
<1>3. Interruptions + Unsaved <= Interruptions'
  BY <1>2, Numbers DEF IInv
<1>4. CASE run.state = "running"
  <2>1. PICK r \in Timed(run) : Goto("finish", r)
    BY <1>4 DEF FinallyRead
  <2>2. r \in Run /\ r.plan \in DOMAIN plans /\ r.state = "running" /\ InStep(r)
    BY <1>4, <2>1, CurrentTypes, TimedRun DEF InStep, IInv
  <2>. QED
    BY <1>1, <1>3, <2>1, <2>2, SoundLeaving
<1>5. CASE run.state # "running"
  <2>1. Return
    BY <1>5 DEF FinallyRead
  <2>2. Unsaved' = 0
    BY <2>1 DEF Return, Unsaved, At
  <2>3. Interruptions + Unsaved <= Interruptions' + Unsaved'
    BY <1>2, <2>2, Numbers DEF IInv
  <2>4. PlansSound' /\ BudgetInv' /\ GapInv'
    BY <1>1, <2>3, KeepStep
  <2>. QED
    BY <1>1, <2>1, <2>4, SoundReturn
<1>. QED
  BY <1>4, <1>5

\* A crash takes at most the slice in progress, and is an interruption.
LEMMA SoundCrash ==
    ASSUME IInv, TypeInv', Crash
    PROVE  IInv'
<1>1. Interruptions + Unsaved <= Interruptions' + Unsaved'
  <2>1. used \in Used /\ used'.crashes = used.crashes + 1 /\ used'.raises = used.raises
    BY CurrentTypes DEF IInv, Crash, Used
  <2>2. Unsaved \in {0, 1} /\ Unsaved' = 0
    BY DEF Unsaved, Crash, Return, At
  <2>3. Interruptions \in Nat /\ Interruptions' = Interruptions + 1
    BY <2>1 DEF Interruptions, Used
  <2>. QED
    BY <2>2, <2>3
<1>2. PlansSound' /\ BudgetInv' /\ GapInv'
  BY <1>1, KeepStep DEF Crash
<1>. QED
  BY <1>2, SoundReturn DEF Crash

LEMMA SoundControlRead ==
    ASSUME ForegroundControl, IInv, TypeInv', NEW kind \in {"paused", "cancelled"},
           ControlRead(kind)
    PROVE  IInv'
<1>1. loop = Idle /\ UNCHANGED <<run, plans, loop, toolRuns>>
  BY DEF ControlRead
<1>2. Interruptions' = Interruptions /\ Unsaved' = Unsaved
  <2>1. used'.crashes = used.crashes /\ used'.raises = used.raises
    BY CurrentTypes DEF IInv, ControlRead, Used
  <2>. QED
    BY <1>1, <2>1 DEF Interruptions, Unsaved, At
<1>3. Interruptions + Unsaved <= Interruptions' + Unsaved'
  BY <1>2, Numbers DEF IInv
<1>4. PlansSound' /\ BudgetInv' /\ GapInv'
  BY <1>1, <1>3, KeepStep
<1>5. LoopSound' /\ ControlSound'
  BY <1>1 DEF LoopSound, ControlSound, ControlRead, Settled
<1>. QED
  BY <1>4, <1>5 DEF IInv

LEMMA SoundControlWrite ==
    ASSUME IInv, TypeInv', ControlWrite
    PROVE  IInv'
<1>1. /\ control # Idle /\ control \in Controlling /\ loop = Idle
      /\ control.mem = run /\ run.state \notin Settled(control.kind)
  BY DEF ControlWrite, IInv, TypeInv, TypeOK, ControlSound
<1>2. control.kind \in {"paused", "cancelled"} /\ control.mem \in Run
  BY <1>1 DEF Controlling
<1>3. /\ run'.state = control.kind /\ run'.plan = run.plan /\ run'.calls = run.calls
      /\ run'.observed = run.observed
  BY <1>1, <1>2, Restated DEF ControlWrite, Save, Open, Final
<1>4. ~GivenUp(run') => ~GivenUp(run)
  BY <1>1, <1>2, <1>3 DEF GivenUp, Settled, Final
<1>5. Interruptions' = Interruptions /\ Unsaved' = Unsaved
  BY DEF ControlWrite, Interruptions, Unsaved, At
<1>6. Interruptions + Unsaved <= Interruptions' + Unsaved'
  BY <1>5, Numbers DEF IInv
<1>7. PlansSound' /\ BudgetInv' /\ GapInv'
  BY <1>2, <1>3, <1>4, <1>6, KeepStep DEF ControlWrite
<1>8. LoopSound' /\ ControlSound'
  BY <1>1 DEF LoopSound, ControlSound, ControlWrite
<1>. QED
  BY <1>7, <1>8 DEF IInv

\* The answer of a slice, as LoopSound has it.
LEMMA Answered ==
    ASSUME IInv, At("respond")
    PROVE  /\ loop # Idle /\ loop \in Looping /\ InStep(loop.mem) /\ AnswerSound
           /\ loop.mem \in Run /\ run.state \in Open /\ loop.mem.state = "running"
           /\ Unsaved = 1 /\ control = Idle
<1>1. loop # Idle /\ loop.pc = "respond"
  BY DEF At
<1>2. loop \in Looping /\ loop.mem \in Run
  BY <1>1, LoopType DEF IInv
<1>3. /\ InStep(loop.mem) /\ AnswerSound
      /\ run.state \in Open /\ loop.mem.state = "running"
  BY <1>1 DEF IInv, LoopSound
<1>4. control = Idle
  BY <1>1 DEF IInv, ControlSound
<1>. QED
  BY <1>1, <1>2, <1>3, <1>4 DEF Unsaved

LEMMA CallOfType ==
    ASSUME NEW result
    PROVE  CallOf(result) \in Nat /\ CallOf(result) <= 1
           /\ (result # "completed" => CallOf(result) = 1)
  BY DEF CallOf, Called

\* A run saved as a slice has been counted, and the loop left.
LEMMA SoundCountedReturn ==
    ASSUME IInv, TypeInv', At("respond"), NEW r, Save(r), Return,
           UNCHANGED <<plans, control, used, toolRuns>>,
           r.plan = loop.mem.plan, r.calls = loop.mem.calls + CallOf(loop.result),
           r.state # "completed",
           \/ GivenUp(r)
           \/ r.observed = loop.mem.observed /\ Done(run) = loop.before
    PROVE  IInv'
<1>1. loop # Idle /\ InStep(loop.mem) /\ AnswerSound /\ run' = r
  BY Answered DEF Save
<1>2. Interruptions' = Interruptions /\ Unsaved' = 0
  BY DEF Interruptions, Unsaved, At, Return
<1>3. /\ toolRuns \in Nat /\ Interruptions \in Nat /\ run.calls \in Nat
      /\ CallOf(loop.result) \in Nat
  BY Numbers, CallOfType DEF IInv
<1>4. BudgetInv'
  <2>1. toolRuns <= run.calls + CallOf(loop.result) + Interruptions
    BY <1>1, <1>3 DEF AnswerSound
  <2>2. run'.calls = run.calls + CallOf(loop.result)
    BY <1>1 DEF InStep
  <2>. QED
    BY <1>2, <1>3, <2>1, <2>2 DEF BudgetInv
<1>5. GapInv'
  <2>1. CASE GivenUp(r)
    BY <1>1, <2>1 DEF GapInv, GivenUp
  <2>2. CASE r.observed = loop.mem.observed /\ Done(run) = loop.before
    <3>1. Done(run') = loop.before /\ Gap(run', Done(run')) = Gap(run, loop.before)
      BY <1>1, <2>2 DEF InStep, Done, Gap
    <3>2. Done(run)' = loop.before /\ Gap(run, Done(run))' = Gap(run, loop.before)
      BY <3>1 DEF Done, Gap
    <3>3. Cardinality(Gap(run, loop.before)) <= Interruptions
      BY <1>1 DEF AnswerSound
    <3>. QED
      BY <1>1, <1>2, <1>3, <3>2, <3>3 DEF GapInv
  <2>. QED
    BY <2>1, <2>2
<1>6. PlansSound'
  BY DEF IInv, PlansSound
<1>. QED
  BY <1>1, <1>4, <1>5, <1>6, SoundReturn

LEMMA SoundAwaitApproval ==
    ASSUME IInv, TypeInv', AwaitApproval
    PROVE  IInv'
<1>1. PICK m \in Run :
        /\ m = Counted(loop.mem, loop.result) /\ m.plan = loop.mem.plan
        /\ m.observed = loop.mem.observed
        /\ m.calls = loop.mem.calls + CallOf(loop.result)
  BY RespondTypes DEF AwaitApproval, IInv
<1>2. PICK r : r = [m EXCEPT !.state = "awaiting_approval"]
  OBVIOUS
<1>3. /\ r.plan = loop.mem.plan /\ r.calls = m.calls /\ r.observed = m.observed
      /\ r.state = "awaiting_approval"
  BY <1>1, <1>2, Restated DEF Open
<1>4. Done(run) = loop.before
  BY Answered DEF AwaitApproval, AnswerSound
<1>. QED
  BY <1>1, <1>2, <1>3, <1>4, SoundCountedReturn DEF AwaitApproval

LEMMA SoundGiveUpOrRepair ==
    ASSUME IInv, TypeInv', At("respond"), NEW r \in Run, GiveUpOrRepair(r),
           r.plan \in DOMAIN plans,
           UNCHANGED <<plans, control, used, toolRuns>>,
           r.plan = loop.mem.plan, r.calls = loop.mem.calls + CallOf(loop.result),
           r.state = loop.mem.state
    PROVE  IInv'
<1>1. /\ loop # Idle /\ InStep(loop.mem) /\ AnswerSound /\ run.state \in Open
      /\ loop.mem.state = "running" /\ Unsaved = 1 /\ control = Idle
  BY Answered
<1>2. CASE FailureBudgetNamed(r)
  <2>1. PICK f : f = [r EXCEPT !.state = "failed"]
    OBVIOUS
  <2>2. f.plan = r.plan /\ f.calls = r.calls /\ f.state = "failed"
    BY <2>1, Restated DEF Final
  <2>3. Save(f) /\ Return
    BY <1>2, <2>1 DEF GiveUpOrRepair
  <2>4. GivenUp(f) /\ f.state # "completed"
    BY <2>2 DEF GivenUp
  <2>. QED
    BY <2>2, <2>3, <2>4, SoundCountedReturn
<1>3. CASE ~FailureBudgetNamed(r)
  <2>1. Goto("repair", r) /\ UNCHANGED run
    BY <1>3 DEF GiveUpOrRepair
  <2>2. loop' \in Looping /\ loop'.mem = r /\ loop'.pc = "repair"
    BY <1>1, <2>1, TypeOfGoto DEF IInv
  <2>3. Interruptions' = Interruptions /\ Unsaved' = Unsaved
    <3>1. loop' # Idle
      BY <2>2 DEF Idle
    <3>. QED
      BY <1>1, <2>2, <3>1 DEF Interruptions, Unsaved, At
  <2>4. Interruptions + Unsaved <= Interruptions' + Unsaved'
    BY <2>3, Numbers DEF IInv
  <2>5. PlansSound' /\ BudgetInv' /\ GapInv'
    BY <2>1, <2>4, KeepStep
  <2>6. /\ r.plan = run.plan /\ r.calls \in {run.calls, run.calls + 1}
        /\ toolRuns <= r.calls + Interruptions
    <3>1. r.plan = run.plan /\ r.calls = run.calls + CallOf(loop.result)
      BY <1>1 DEF InStep
    <3>2. /\ toolRuns \in Nat /\ Interruptions \in Nat /\ run.calls \in Nat
          /\ CallOf(loop.result) \in {0, 1}
      BY Numbers, CallOfType DEF IInv, CallOf
    <3>3. toolRuns <= run.calls + Interruptions + CallOf(loop.result)
      BY <1>1 DEF AnswerSound
    <3>. QED
      BY <3>1, <3>2, <3>3
  <2>7. RepairSound'
    BY <2>1, <2>2, <2>3, <2>6 DEF RepairSound
  <2>8. LoopSound'
    BY <1>1, <2>1, <2>2, <2>7 DEF LoopSound
  <2>9. ControlSound'
    BY <1>1 DEF ControlSound
  <2>. QED
    BY <2>5, <2>8, <2>9 DEF IInv
<1>. QED
  BY <1>2, <1>3

LEMMA SoundSliceFailed ==
    ASSUME IInv, TypeInv', SliceFailed
    PROVE  IInv'
<1>1. PICK m \in Run :
        /\ m = Counted(loop.mem, loop.result) /\ m.plan = loop.mem.plan
        /\ m.plan \in DOMAIN plans /\ m.state = loop.mem.state
        /\ m.calls = loop.mem.calls + CallOf(loop.result) /\ m.failures < MaxFailures
  BY RespondTypes DEF SliceFailed, IInv
<1>2. PICK r : r = [m EXCEPT !.failures = @ + 1]
  OBVIOUS
<1>3. r \in Run /\ r.plan = m.plan /\ r.state = m.state /\ r.calls = m.calls
  BY <1>1, <1>2, FailedRun
<1>. QED
  BY <1>1, <1>2, <1>3, SoundGiveUpOrRepair DEF SliceFailed

LEMMA SoundVerificationFailed ==
    ASSUME IInv, TypeInv', VerificationFailed
    PROVE  IInv'
<1>1. PICK m \in Run :
        /\ m = Counted(loop.mem, loop.result) /\ loop # Idle /\ m.plan = loop.mem.plan
        /\ m.plan \in DOMAIN plans /\ m.state = loop.mem.state
        /\ m.calls = loop.mem.calls + CallOf(loop.result) /\ m.failures < MaxFailures
  BY RespondTypes DEF VerificationFailed, IInv
<1>2. PICK o \in Run :
        /\ o = Observed(m) /\ o.plan = m.plan /\ o.state = m.state
        /\ o.calls = m.calls /\ o.failures = m.failures
  BY <1>1, ObservedRun DEF IInv
<1>3. PICK r : r = [o EXCEPT !.failures = @ + 1]
  OBVIOUS
<1>4. r \in Run /\ r.plan = m.plan /\ r.state = m.state /\ r.calls = m.calls
  BY <1>1, <1>2, <1>3, FailedRun
<1>. QED
  BY <1>1, <1>2, <1>3, <1>4, SoundGiveUpOrRepair DEF VerificationFailed

LEMMA SoundSlice ==
    ASSUME IInv, TypeInv', Slice
    PROVE  IInv'
<1>1. PICK p, out :
        /\ p \in Plan /\ out \in Outcomes(p)
        /\ p = plans[loop.mem.plan] /\ p.state # "failed"
        /\ plans' = [plans EXCEPT ![loop.mem.plan] = out.plan]
        /\ DOMAIN plans' = DOMAIN plans /\ plans'[loop.mem.plan] = out.plan
        /\ out.plan \in Plan /\ out.result \in Results
        /\ loop' \in Looping /\ loop'.mem = loop.mem /\ loop'.pc = "respond"
        /\ loop'.before = p.done /\ loop'.result = out.result
        /\ toolRuns' = toolRuns + CallOf(out.result)
  BY SliceShape DEF IInv
<1>2. /\ loop # Idle /\ InStep(loop.mem) /\ run.state \in Open
      /\ loop.mem.state = "running" /\ control = Idle /\ Unsaved = 0
      /\ UNCHANGED <<run, control, used>>
  BY DEF Slice, At, IInv, LoopSound, ControlSound, Unsaved
<1>3. plans[run.plan] = p /\ plans'[run.plan] = out.plan /\ loop.mem.plan = run.plan
  BY <1>1, <1>2 DEF InStep
<1>4. /\ p.done \in 0..NSteps /\ out.plan.done \in p.done..p.done + 1
      /\ out.plan.done \in 0..NSteps
      /\ \A k \in 1..p.done : out.plan.good[k] = p.good[k]
      /\ out.result # "paused" => out.plan.done = p.done
      /\ out.plan.state = "completed" => out.result = "completed"
      /\ out.result = "completed" => p.state = "completed" \/ p.done = NSteps
  BY <1>1, OutcomesType DEF Plan
<1>5. p.state = "completed" => p.done = NSteps
  BY <1>3, CurrentTypes DEF IInv, PlansSound
<1>6. PlansSound'
  <2>1. \A n \in DOMAIN plans' : n # run.plan => plans'[n] = plans[n]
    BY <1>1, <1>3
  <2>2. out.plan.state = "completed" => out.plan.done = NSteps
    BY <1>4, <1>5
  <2>. QED
    BY <1>1, <1>3, <2>1, <2>2 DEF IInv, PlansSound
<1>7. Interruptions' = Interruptions /\ Unsaved' = 1
  <2>1. loop' # Idle
    BY <1>1 DEF Idle
  <2>. QED
    BY <1>1, <1>2, <2>1 DEF Interruptions, Unsaved, At
<1>8. /\ toolRuns \in Nat /\ Interruptions \in Nat /\ run.calls \in Nat
      /\ CallOf(out.result) \in Nat /\ CallOf(out.result) <= 1
  BY Numbers, CallOfType DEF IInv
<1>9. toolRuns' <= run.calls + Interruptions + CallOf(out.result)
  <2>1. toolRuns <= run.calls + Interruptions
    BY <1>2, <1>8 DEF IInv, BudgetInv
  <2>. QED
    BY <1>1, <1>8, <2>1
<1>10. Cardinality(Missing(p.good, run.plan, run.observed, p.done)) <= Interruptions
  <2>1. ~GivenUp(run)
    BY <1>2 DEF GivenUp, Open
  <2>2. Cardinality(Gap(run, Done(run))) <= Interruptions + 0
    BY <1>2, <2>1 DEF IInv, GapInv
  <2>. QED
    BY <1>3, <1>8, <2>2 DEF Gap, Done
<1>11. Missing(out.plan.good, run.plan, run.observed, p.done)
         = Missing(p.good, run.plan, run.observed, p.done)
  BY <1>4 DEF Missing
<1>12. Done(run)' = out.plan.done
       /\ \A n : Gap(run, n)' = Missing(out.plan.good, run.plan, run.observed, n)
  BY <1>2, <1>3 DEF Done, Gap
<1>13. AnswerSound'
  <2>1. toolRuns' <= run.calls + Interruptions + CallOf(out.result)
    BY <1>9
  <2>2. out.result = "completed" => out.plan.done = NSteps
    BY <1>4, <1>5
  <2>3. Gap(run, loop.before)' = Missing(p.good, run.plan, run.observed, p.done)
    BY <1>1, <1>2, <1>3, <1>11 DEF Gap
  <2>. QED
    BY <1>1, <1>2, <1>4, <1>7, <1>10, <1>12, <2>1, <2>2, <2>3 DEF AnswerSound
<1>14. LoopSound'
  BY <1>1, <1>2, <1>13 DEF LoopSound, InStep
<1>15. BudgetInv'
  BY <1>1, <1>2, <1>7, <1>8, <1>9 DEF BudgetInv
<1>16. GapInv'
  <2>1. Cardinality(Missing(out.plan.good, run.plan, run.observed, out.plan.done))
          <= Interruptions + 1
    <3>1. Cardinality(Missing(out.plan.good, run.plan, run.observed, out.plan.done))
            <= Cardinality(Missing(out.plan.good, run.plan, run.observed, p.done)) + 1
      BY <1>4, MissingGrows
    <3>2. /\ Cardinality(Missing(out.plan.good, run.plan, run.observed, p.done)) \in Nat
          /\ Cardinality(Missing(out.plan.good, run.plan, run.observed, out.plan.done)) \in Nat
      BY <1>4, MissingFinite
    <3>. QED
      BY <1>8, <1>10, <1>11, <3>1, <3>2
  <2>2. Gap(run, Done(run))' = Missing(out.plan.good, run.plan, run.observed, out.plan.done)
    BY <1>2, <1>3 DEF Gap, Done
  <2>3. run.state # "completed"
    BY <1>2 DEF Open
  <2>. QED
    BY <1>2, <1>7, <2>1, <2>2, <2>3 DEF GapInv
<1>17. ControlSound'
  BY <1>2 DEF ControlSound
<1>. QED
  BY <1>6, <1>14, <1>15, <1>16, <1>17 DEF IInv

LEMMA SoundCheckpoint ==
    ASSUME IInv, TypeInv', Checkpoint
    PROVE  IInv'
<1>1. PICK s \in Run :
        /\ s.plan = loop.mem.plan /\ s.plan \in DOMAIN plans
        /\ s.state = loop.mem.state
        /\ s.calls = loop.mem.calls + CallOf(loop.result)
        /\ loop.mem.observed \subseteq s.observed
        /\ \A k \in NewlyCompleted :
             /\ plans[s.plan].good[k]
             /\ [plan |-> s.plan, step |-> k, verified |-> TRUE] \in s.observed
        /\ IF loop.result = "completed"
           THEN Save([s EXCEPT !.state = "completed"]) /\ Return
           ELSE Save(s) /\ Goto("top", s)
  BY CheckpointShape DEF IInv
<1>2. /\ loop # Idle /\ InStep(loop.mem) /\ AnswerSound /\ run.state \in Open
      /\ loop.mem.state = "running" /\ control = Idle /\ loop \in Looping
      /\ UNCHANGED <<plans, control, used, toolRuns>>
  BY Answered DEF Checkpoint
<1>3. /\ run'.plan = s.plan /\ run'.calls = s.calls /\ run'.observed = s.observed
      /\ run'.state = IF loop.result = "completed" THEN "completed" ELSE "running"
  <2>1. CASE loop.result = "completed"
    <3>1. run' = [s EXCEPT !.state = "completed"]
      BY <1>1, <2>1 DEF Save
    <3>. QED
      BY <2>1, <3>1, Restated DEF Final
  <2>2. CASE loop.result # "completed"
    BY <1>1, <1>2, <2>2 DEF Save
  <2>. QED
    BY <2>1, <2>2
<1>4. Interruptions' = Interruptions /\ Unsaved' = 0
  <2>1. loop' = Idle \/ loop'.pc = "top"
    BY <1>1, <1>2, TypeOfGoto DEF Return, IInv
  <2>. QED
    BY <1>2, <2>1 DEF Interruptions, Unsaved, At
<1>5. /\ toolRuns \in Nat /\ Interruptions \in Nat /\ run.calls \in Nat
      /\ CallOf(loop.result) \in Nat
  BY Numbers, CallOfType DEF IInv
<1>6. s.plan = run.plan /\ s.calls = run.calls + CallOf(loop.result)
  BY <1>1, <1>2 DEF InStep
<1>7. PlansSound'
  BY <1>2 DEF IInv, PlansSound
<1>8. BudgetInv'
  <2>1. toolRuns <= run.calls + Interruptions + CallOf(loop.result)
    BY <1>2 DEF AnswerSound
  <2>2. toolRuns <= s.calls + Interruptions
    BY <1>5, <1>6, <2>1
  <2>. QED
    BY <1>2, <1>3, <1>4, <1>5, <2>2 DEF BudgetInv, Run
<1>9. Done(run)' = Done(run)
  BY <1>2, <1>3, <1>6 DEF Done
<1>10. GapInv'
  <2>1. loop.before \in 0..NSteps /\ Done(run) \in loop.before..loop.before + 1
        /\ Cardinality(Gap(run, loop.before)) <= Interruptions
    BY <1>2 DEF AnswerSound, Looping
  <2>2. NewlyCompleted = loop.before + 1..Done(run)
    BY <1>1, <1>6 DEF NewlyCompleted, Done
  <2>3. Cardinality(Missing(plans[run.plan].good, run.plan, s.observed, Done(run)))
          <= Cardinality(Missing(plans[run.plan].good, run.plan, run.observed, loop.before))
    <3>1. \A k \in 1..Done(run) : k \notin 1..loop.before => k \in NewlyCompleted
      BY <2>1, <2>2
    <3>2. run.observed \subseteq s.observed
      BY <1>1, <1>2 DEF InStep
    <3>3. \A k \in 1..Done(run) : k \notin 1..loop.before =>
            /\ plans[run.plan].good[k]
            /\ [plan |-> run.plan, step |-> k, verified |-> TRUE] \in s.observed
      BY <1>1, <1>6, <3>1
    <3>4. Done(run) \in Nat /\ loop.before \in Nat
      BY <2>1
    <3>. QED
      BY <3>2, <3>3, <3>4, MissingShrinks
  <2>4. Gap(run, Done(run))'
          = Missing(plans[run.plan].good, run.plan, s.observed, Done(run))
    BY <1>2, <1>3, <1>6, <1>9 DEF Gap
  <2>5. Cardinality(Gap(run, Done(run)))' <= Interruptions
    <3>1. /\ Cardinality(Gap(run, loop.before)) \in Nat
          /\ Cardinality(Missing(plans[run.plan].good, run.plan, s.observed, Done(run))) \in Nat
      BY <2>1, MissingFinite DEF Gap
    <3>2. Cardinality(Missing(plans[run.plan].good, run.plan, s.observed, Done(run)))
            <= Cardinality(Gap(run, loop.before))
      BY <2>3 DEF Gap
    <3>3. Cardinality(Missing(plans[run.plan].good, run.plan, s.observed, Done(run)))
            <= Interruptions
      BY <1>5, <2>1, <3>1, <3>2
    <3>. QED
      BY <2>4, <3>3
  <2>6. run'.state = "completed" => Done(run) = NSteps
    BY <1>2, <1>3 DEF AnswerSound
  <2>. QED
    BY <1>4, <1>5, <1>9, <2>5, <2>6 DEF GapInv
<1>11. CASE loop.result = "completed"
  <2>1. Return
    BY <1>1, <1>11
  <2>. QED
    BY <1>2, <1>7, <1>8, <1>10, <2>1, SoundReturn
<1>12. CASE loop.result # "completed"
  <2>1. Goto("top", s) /\ run'.state = "running"
    BY <1>1, <1>3, <1>12
  <2>2. loop'.mem = s /\ loop'.pc = "top"
    BY <1>1, <1>2, <2>1, TypeOfGoto DEF IInv
  <2>3. LoopSound'
    BY <1>1, <1>2, <1>3, <2>1, <2>2 DEF LoopSound, InStep, Open
  <2>4. ControlSound'
    BY <1>2 DEF ControlSound
  <2>. QED
    BY <1>7, <1>8, <1>10, <2>3, <2>4 DEF IInv
<1>. QED
  BY <1>11, <1>12

\* The repair plan has no step done yet, so there is none to miss.
LEMMA SoundRepair ==
    ASSUME IInv, TypeInv', Repair
    PROVE  IInv'
<1>1. PICK child \in 1..MaxPlans, r \in Run :
        /\ DOMAIN plans = 1..child - 1 /\ DOMAIN plans' = 1..child
        /\ plans' \in [1..child -> Plan] /\ plans'[child] = NewPlan
        /\ \A k \in 1..child - 1 : plans'[k] = plans[k]
        /\ r.plan = child /\ r.calls = loop.mem.calls
        /\ r.observed = loop.mem.observed /\ r.state = loop.mem.state
        /\ run' = r /\ loop' \in Looping /\ loop'.mem = r /\ loop'.pc = "top"
  BY RepairShape DEF IInv
<1>2. /\ loop # Idle /\ loop.pc = "repair" /\ loop.mem.state = "running" /\ RepairSound
      /\ control = Idle /\ UNCHANGED <<control, used, toolRuns>>
  BY DEF Repair, At, IInv, LoopSound, ControlSound
<1>3. Interruptions' = Interruptions /\ Unsaved' = 0
  BY <1>1, <1>2 DEF Interruptions, Unsaved, At
<1>4. NewPlan.state = "ready" /\ NewPlan.done = 0
  BY DEF NewPlan
<1>5. PlansSound'
  <2>1. \A n \in 1..child : n = child \/ n \in 1..child - 1
    OBVIOUS
  <2>. QED
    BY <1>1, <1>4, <2>1 DEF IInv, PlansSound
<1>6. BudgetInv'
  <2>1. toolRuns \in Nat /\ Interruptions \in Nat /\ r.calls \in Nat
    BY Numbers DEF IInv, Run
  <2>2. toolRuns <= r.calls + Interruptions
    BY <1>1, <1>2 DEF RepairSound
  <2>. QED
    BY <1>1, <1>2, <1>3, <2>1, <2>2 DEF BudgetInv
<1>7. GapInv'
  <2>1. Done(run)' = 0 /\ Gap(run, Done(run))' = Missing(NewPlan.good, child, r.observed, 0)
    BY <1>1, <1>4 DEF Done, Gap
  <2>2. Cardinality(Gap(run, Done(run)))' = 0
    BY <2>1, MissingNone
  <2>3. Interruptions \in Nat
    BY Numbers DEF IInv
  <2>4. run'.state # "completed"
    BY <1>1, <1>2
  <2>. QED
    BY <1>3, <2>2, <2>3, <2>4 DEF GapInv
<1>8. LoopSound'
  BY <1>1, <1>2 DEF LoopSound, InStep, Open
<1>9. ControlSound'
  BY <1>2 DEF ControlSound
<1>. QED
  BY <1>5, <1>6, <1>7, <1>8, <1>9 DEF IInv

LEMMA SoundInit ==
    ASSUME Init
    PROVE  IInv
<1>1. TypeInv
  BY TypeInit
<1>2. Done(run) = 0 /\ run.calls = 0 /\ run.state = "ready"
  BY DEF Init, Done, NewRun, NewPlan
<1>3. Interruptions = 0 /\ Unsaved = 0 /\ toolRuns = 0
  BY DEF Init, Interruptions, Unsaved, At
<1>4. Cardinality(Gap(run, Done(run))) = 0
  BY <1>2, MissingNone DEF Gap
<1>5. PlansSound
  BY DEF Init, PlansSound, NewPlan
<1>6. BudgetInv /\ GapInv
  BY <1>2, <1>3, <1>4 DEF BudgetInv, GapInv
<1>7. LoopSound /\ ControlSound
  BY DEF Init, LoopSound, ControlSound
<1>. QED
  BY <1>1, <1>5, <1>6, <1>7 DEF IInv

LEMMA SoundNext ==
    ASSUME ForegroundControl, IInv, [Next]_vars
    PROVE  IInv'
<1>1. TypeInv'
  BY TypeNext DEF IInv
<1>2. CASE UNCHANGED vars
  <2>1. Interruptions' = Interruptions /\ Unsaved' = Unsaved
    BY <1>2 DEF vars, Interruptions, Unsaved, At
  <2>2. Interruptions + Unsaved <= Interruptions' + Unsaved'
    BY <2>1, Numbers DEF IInv
  <2>3. PlansSound' /\ BudgetInv' /\ GapInv'
    BY <1>1, <1>2, <2>2, KeepStep DEF vars
  <2>4. LoopSound'
    BY <1>2 DEF IInv, LoopSound, AnswerSound, RepairSound, InStep, Interruptions, Done, Gap, vars
  <2>5. ControlSound'
    BY <1>2 DEF IInv, ControlSound, vars
  <2>. QED
    BY <1>1, <2>3, <2>4, <2>5 DEF IInv
<1>3. CASE Continue
  BY <1>1, <1>3, SoundContinue
<1>4. CASE LoopStep
  BY <1>1, <1>4, SoundCancelSeen, SoundBudgetSpent, SoundSlice, SoundSliceRefused,
     SoundAwaitApproval, SoundSliceFailed, SoundVerificationFailed, SoundCheckpoint,
     SoundRepair, SoundRepairRaises, SoundFinallyRead, SoundFinallySave DEF LoopStep
<1>5. CASE \E kind \in {"paused", "cancelled"} : ControlRead(kind)
  BY <1>1, <1>5, SoundControlRead
<1>6. CASE ControlWrite
  BY <1>1, <1>6, SoundControlWrite
<1>7. CASE Crash
  BY <1>1, <1>7, SoundCrash
<1>. QED
  BY <1>2, <1>3, <1>4, <1>5, <1>6, <1>7 DEF Next

\* In the middle of a slice the budget it was run within still has room.
LEMMA BudgetFromInv ==
    ASSUME IInv
    PROVE  BudgetHolds
<1>1. /\ toolRuns \in Nat /\ Interruptions \in Nat /\ run.calls \in Nat
      /\ run.calls <= MaxToolCalls
  BY Numbers DEF IInv
<1>2. CASE At("respond")
  <2>1. run.calls < MaxToolCalls
    BY <1>2, Answered DEF IInv, TypeInv, WithinBudget, InStep
  <2>2. toolRuns <= run.calls + Interruptions + 1
    BY <1>2, Answered DEF IInv, BudgetInv
  <2>. QED
    BY <1>1, <2>1, <2>2 DEF BudgetHolds
<1>3. CASE At("repair")
  <2>1. toolRuns <= loop.mem.calls + Interruptions
    BY <1>3 DEF IInv, LoopSound, RepairSound, At
  <2>2. loop.mem.calls \in Nat /\ loop.mem.calls <= MaxToolCalls
    BY <1>3, LoopType DEF IInv, At, Run
  <2>. QED
    BY <1>1, <2>1, <2>2 DEF BudgetHolds
<1>4. CASE ~(At("respond") \/ At("repair"))
  <2>1. toolRuns <= run.calls + Interruptions
    BY <1>1, <1>4 DEF IInv, BudgetInv, Unsaved
  <2>. QED
    BY <1>1, <2>1 DEF BudgetHolds
<1>. QED
  BY <1>2, <1>3, <1>4

LEMMA VerifiedFromInv ==
    ASSUME IInv
    PROVE  EveryStepVerified
<1> SUFFICES ASSUME run.state = "completed"
             PROVE  EveryStepVerified
  BY DEF EveryStepVerified
<1>1. loop = Idle
  BY DEF IInv, LoopSound, Open
<1>2. Unsaved = 0 /\ ~GivenUp(run) /\ Done(run) = NSteps
  BY <1>1 DEF Unsaved, At, GivenUp, IInv, GapInv
<1>3. Cardinality(Gap(run, NSteps)) <= Interruptions
  BY <1>2, Numbers DEF IInv, GapInv
<1>. QED
  BY <1>3 DEF EveryStepVerified, Gap, Missing

\* The tools an agent run calls stay within its tool-call budget, but for one
\* call at most for each crash or exception that kept continue_run from its
\* next checkpoint: whatever the plans, their repairs and the restarts are.
THEOREM BudgetIsKept ==
    ASSUME ForegroundControl
    PROVE  Spec => []BudgetHolds
<1>1. Init => IInv
  BY SoundInit
<1>2. IInv /\ [Next]_vars => IInv'
  BY SoundNext
<1>3. IInv => BudgetHolds
  BY BudgetFromInv
<1>. QED
  BY <1>1, <1>2, <1>3, PTL DEF Spec

\* A run is stored as completed only when every step of its current plan was
\* observed, verified and good, but for one step at most for each interruption.
THEOREM CompletionIsVerified ==
    ASSUME ForegroundControl
    PROVE  Spec => []EveryStepVerified
<1>1. Init => IInv
  BY SoundInit
<1>2. IInv /\ [Next]_vars => IInv'
  BY SoundNext
<1>3. IInv => EveryStepVerified
  BY VerifiedFromInv
<1>. QED
  BY <1>1, <1>2, <1>3, PTL DEF Spec

-----------------------------------------------------------------------------
\* What is stored of a run never goes back

Later(r, q) ==
    /\ r.plan <= q.plan /\ r.repairs <= q.repairs
    /\ r.iterations <= q.iterations /\ r.calls <= q.calls
    /\ r.timeUp => q.timeUp
    /\ r.observed \subseteq q.observed

OutcomeStays(r, q) ==
    /\ r.state = "completed" => q = r
    /\ r.state = "cancelled" => q.state = "cancelled"
    /\ r.state = "failed" => q.state \in {"failed", "cancelled"}

\* The copy of the loop is never behind the stored run.
LoopAhead == loop # Idle => Later(run, loop.mem)

LEMMA LaterTransitive ==
    ASSUME NEW r \in Run, NEW q \in Run, NEW s \in Run, Later(r, q), Later(q, s)
    PROVE  Later(r, s)
  BY DEF Later, Run

LEMMA LaterSelf ==
    ASSUME NEW r \in Run
    PROVE  Later(r, r)
  BY DEF Later, Run

\* Each change the loop makes to its copy.
LEMMA RestatedLater ==
    ASSUME NEW r \in Run, NEW s \in Open \cup Final
    PROVE  LET m == [r EXCEPT !.state = s] IN m \in Run /\ m.state = s /\ Later(r, m)
  BY DEF Run, Later

LEMMA TimedLater ==
    ASSUME NEW r \in Run, NEW m \in Timed(r)
    PROVE  m \in Run /\ Later(r, m)
<1>1. PICK up \in {r.timeUp, TRUE} : m = [r EXCEPT !.timeUp = up]
  BY DEF Timed
<1>2. up \in BOOLEAN
  BY <1>1 DEF Run
<1>3. m \in Run /\ m = [r EXCEPT !.timeUp = up] /\ (r.timeUp => up)
  BY <1>1, <1>2 DEF Run
<1>. QED
  BY <1>2, <1>3 DEF Run, Later

LEMMA CountedLater ==
    ASSUME NEW r \in Run, r.iterations < MaxIterations, r.calls < MaxToolCalls, NEW result
    PROVE  Counted(r, result) \in Run /\ Later(r, Counted(r, result))
<1> DEFINE m == Counted(r, result)
           c == IF Called(result) THEN r.calls + 1 ELSE r.calls
<1>1. m \in Run
  BY CountedRun
<1>2. m = [r EXCEPT !.iterations = r.iterations + 1, !.calls = c]
  BY DEF Counted
<1>3. c \in Nat /\ r.calls <= c
  BY DEF Run
<1> HIDE DEF c
<1>4. /\ m.iterations = r.iterations + 1 /\ m.calls = c /\ m.plan = r.plan
      /\ m.repairs = r.repairs /\ m.timeUp = r.timeUp /\ m.observed = r.observed
  BY <1>2 DEF Run
<1> HIDE DEF m
<1>5. Later(r, m)
  BY <1>3, <1>4 DEF Run, Later
<1>. QED
  BY <1>1, <1>5 DEF m

LEMMA FailedLater ==
    ASSUME NEW r \in Run, NEW n \in 0..MaxFailures
    PROVE  LET m == [r EXCEPT !.failures = n] IN m \in Run /\ Later(r, m)
  BY DEF Run, Later

LEMMA ObservedLater ==
    ASSUME TypeInv, loop # Idle, NEW r \in Run, r.plan = loop.mem.plan
    PROVE  Observed(r) \in Run /\ Later(r, Observed(r))
<1> DEFINE m == Observed(r)
<1>1. m \in Run /\ r.observed \subseteq m.observed
  BY ObservedRun
<1>2. PICK seen : m = [r EXCEPT !.observed = seen]
  BY DEF Observed
<1>3. /\ m.plan = r.plan /\ m.repairs = r.repairs /\ m.iterations = r.iterations
      /\ m.calls = r.calls /\ m.timeUp = r.timeUp
  BY <1>2 DEF Run
<1> HIDE DEF m
<1>4. Later(r, m)
  BY <1>1, <1>3 DEF Run, Later
<1>. QED
  BY <1>1, <1>4 DEF m

\* What the loop makes of its copy when a slice has answered.
LEMMA RespondLater ==
    ASSUME TypeInv, At("respond")
    PROVE  \E m \in Run, o \in Run :
             /\ m = Counted(loop.mem, loop.result) /\ Later(loop.mem, m)
             /\ o = Observed(m) /\ Later(loop.mem, o)
             /\ m.failures < MaxFailures /\ o.failures < MaxFailures
             /\ loop # Idle /\ loop.mem \in Run
<1>1. loop # Idle /\ loop.mem \in Run /\ WithinBudget(loop.mem)
  BY LoopType DEF At, TypeInv
<1>2. PICK m : m = Counted(loop.mem, loop.result)
  OBVIOUS
<1>3. m \in Run /\ Later(loop.mem, m) /\ m.plan = loop.mem.plan /\ m.failures < MaxFailures
  BY <1>1, <1>2, CountedLater, CountedRun DEF WithinBudget
<1>4. PICK o : o = Observed(m)
  OBVIOUS
<1>5. o \in Run /\ Later(m, o) /\ o.failures = m.failures
  BY <1>1, <1>3, <1>4, ObservedLater, ObservedRun
<1>6. Later(loop.mem, o)
  BY <1>1, <1>3, <1>5, LaterTransitive
<1>. QED
  BY <1>1, <1>2, <1>3, <1>4, <1>5, <1>6

\* A step of the loop, which only an open run has: it stores something later
\* than its copy, or nothing, and its copy is then not behind.
LEMMA LoopAdvances ==
    ASSUME IInv, LoopAhead, loop # Idle, NEW r \in Run, Later(loop.mem, r),
           run' \in {run, r}, loop' = Idle \/ loop'.mem = r
    PROVE  LoopAhead' /\ Later(run, run') /\ OutcomeStays(run, run')
<1>1. run \in Run /\ loop.mem \in Run /\ run.state \in Open
  BY LoopType DEF IInv, TypeInv, TypeOK, LoopSound
<1>2. Later(run, r)
  BY <1>1, LaterTransitive DEF LoopAhead
<1>3. Later(run, run') /\ Later(run', r)
  BY <1>1, <1>2, LaterSelf
<1>4. OutcomeStays(run, run')
  BY <1>1 DEF OutcomeStays, Open
<1>. QED
  BY <1>3, <1>4 DEF LoopAhead

LEMMA GiveUpAdvances ==
    ASSUME IInv, LoopAhead, loop # Idle, NEW r \in Run, Later(loop.mem, r), GiveUpOrRepair(r)
    PROVE  LoopAhead' /\ Later(run, run') /\ OutcomeStays(run, run')
<1>0. loop.mem \in Run /\ loop \in Looping
  BY LoopType DEF IInv
<1>1. CASE FailureBudgetNamed(r)
  <2>1. PICK m : m = [r EXCEPT !.state = "failed"]
    OBVIOUS
  <2>2. m \in Run /\ Later(r, m)
    BY <2>1, RestatedLater DEF Final
  <2>3. Later(loop.mem, m)
    BY <1>0, <2>2, LaterTransitive
  <2>. QED
    BY <1>1, <2>1, <2>2, <2>3, LoopAdvances DEF GiveUpOrRepair, Save, Return
<1>2. CASE ~FailureBudgetNamed(r)
  <2>1. run' = run /\ loop'.mem = r
    BY <1>0, <1>2 DEF GiveUpOrRepair, Goto, Looping
  <2>. QED
    BY <2>1, LoopAdvances
<1>. QED
  BY <1>1, <1>2

LEMMA RespondAdvances ==
    ASSUME IInv, LoopAhead,
           AwaitApproval \/ SliceFailed \/ VerificationFailed \/ Checkpoint
    PROVE  LoopAhead' /\ Later(run, run') /\ OutcomeStays(run, run')
<1>1. At("respond")
  BY DEF AwaitApproval, SliceFailed, VerificationFailed, Checkpoint
<1>2. PICK m \in Run, o \in Run :
        /\ m = Counted(loop.mem, loop.result) /\ Later(loop.mem, m)
        /\ o = Observed(m) /\ Later(loop.mem, o)
        /\ m.failures < MaxFailures /\ o.failures < MaxFailures
        /\ loop # Idle /\ loop.mem \in Run
  BY <1>1, RespondLater DEF IInv
<1>3. loop \in Looping
  BY <1>2, LoopType DEF IInv
<1>4. CASE AwaitApproval
  <2>1. PICK r : r = [m EXCEPT !.state = "awaiting_approval"]
    OBVIOUS
  <2>2. r \in Run /\ Later(m, r)
    BY <2>1, RestatedLater DEF Open
  <2>3. Later(loop.mem, r)
    BY <1>2, <2>2, LaterTransitive
  <2>. QED
    BY <1>2, <1>4, <2>1, <2>2, <2>3, LoopAdvances DEF AwaitApproval, Save, Return
<1>5. CASE SliceFailed \/ VerificationFailed
  <2>1. PICK b \in {m, o} : GiveUpOrRepair([b EXCEPT !.failures = @ + 1])
    BY <1>2, <1>5 DEF SliceFailed, VerificationFailed
  <2>2. PICK n : n = b.failures + 1
    OBVIOUS
  <2>3. n \in 0..MaxFailures
    BY <1>2, <2>1, <2>2 DEF Run
  <2>4. PICK r : r = [b EXCEPT !.failures = n]
    OBVIOUS
  <2>5. r \in Run /\ Later(b, r)
    BY <1>2, <2>1, <2>3, <2>4, FailedLater
  <2>6. Later(loop.mem, r)
    BY <1>2, <2>1, <2>5, LaterTransitive
  <2>7. GiveUpOrRepair(r)
    BY <2>1, <2>2, <2>4
  <2>. QED
    BY <1>2, <2>5, <2>6, <2>7, GiveUpAdvances
<1>6. CASE Checkpoint
  <2>1. PICK s : s = IF NewlyCompleted = {} THEN o ELSE [o EXCEPT !.failures = 0]
    OBVIOUS
  <2>2. s \in Run /\ Later(o, s)
    BY <2>1, LaterSelf, FailedLater
  <2>3. Later(loop.mem, s)
    BY <1>2, <2>2, LaterTransitive
  <2>4. IF loop.result = "completed"
        THEN Save([s EXCEPT !.state = "completed"]) /\ Return
        ELSE Save(s) /\ Goto("top", s)
    BY <1>2, <1>6, <2>1 DEF Checkpoint
  <2>5. CASE loop.result = "completed"
    <3>1. PICK r : r = [s EXCEPT !.state = "completed"]
      OBVIOUS
    <3>2. r \in Run /\ Later(s, r)
      BY <2>2, <3>1, RestatedLater DEF Final
    <3>3. Later(loop.mem, r)
      BY <1>2, <2>2, <2>3, <3>2, LaterTransitive
    <3>. QED
      BY <1>2, <2>4, <2>5, <3>1, <3>2, <3>3, LoopAdvances DEF Save, Return
  <2>6. CASE loop.result # "completed"
    <3>1. run' = s /\ loop'.mem = s
      BY <1>3, <2>4, <2>6 DEF Save, Goto, Looping
    <3>. QED
      BY <1>2, <2>2, <2>3, <3>1, LoopAdvances
  <2>. QED
    BY <2>5, <2>6
<1>. QED
  BY <1>4, <1>5, <1>6

LEMMA RepairAdvances ==
    ASSUME IInv, LoopAhead, Repair
    PROVE  LoopAhead' /\ Later(run, run') /\ OutcomeStays(run, run')
<1>1. loop # Idle /\ loop.mem \in Run /\ loop \in Looping /\ loop.mem.plan \in DOMAIN plans
  BY LoopType DEF Repair, At, IInv, Planned
<1>2. PICK n \in 1..MaxPlans : DOMAIN plans = 1..n /\ PlanCount = n
  BY PlansType DEF IInv, TypeInv
<1>3. PICK child \in 1..MaxPlans : child = PlanCount + 1
  BY <1>2 DEF Repair
<1>4. PICK r : r = Repaired(loop.mem, child)
  OBVIOUS
<1>5. r \in Run /\ Later(loop.mem, r)
  <2>1. PICK more \in Nat : more = loop.mem.repairs + 1
    BY <1>1 DEF Run
  <2>2. r = [loop.mem EXCEPT !.repairs = more, !.plan = child]
    BY <1>4, <2>1 DEF Repaired
  <2>3. loop.mem.plan <= child /\ loop.mem.repairs <= more
    BY <1>1, <1>2, <1>3, <2>1 DEF Run
  <2>4. /\ r \in Run /\ r.plan = child /\ r.repairs = more
        /\ r.iterations = loop.mem.iterations /\ r.calls = loop.mem.calls
        /\ r.timeUp = loop.mem.timeUp /\ r.observed = loop.mem.observed
    BY <1>1, <2>2 DEF Run
  <2>. QED
    BY <1>1, <2>3, <2>4 DEF Later, Run
<1>6. Save(r) /\ Goto("top", r)
  BY <1>3, <1>4 DEF Repair
<1>7. run' = r /\ loop'.mem = r
  BY <1>1, <1>6 DEF Save, Goto, Looping
<1>. QED
  BY <1>1, <1>5, <1>7, LoopAdvances

\* The other steps of the loop save its copy, restated or timed, or nothing.
LEMMA QuietAdvances ==
    ASSUME IInv, LoopAhead,
           \/ CancelSeen \/ BudgetSpent \/ Slice \/ SliceRefused
           \/ RepairRaises \/ FinallyRead \/ FinallySave
    PROVE  LoopAhead' /\ Later(run, run') /\ OutcomeStays(run, run')
<1>1. loop # Idle
  BY DEF CancelSeen, BudgetSpent, Slice, SliceRefused, RepairRaises, FinallyRead,
     FinallySave, At
<1>2. loop.mem \in Run /\ loop \in Looping /\ run \in Run /\ run.state \in Open
  BY <1>1, LoopType DEF IInv, TypeInv, TypeOK, LoopSound
<1>3. CASE CancelSeen
  <2>1. PICK r : r = [loop.mem EXCEPT !.state = "cancelled"]
    OBVIOUS
  <2>2. r \in Run /\ Later(loop.mem, r)
    BY <1>2, <2>1, RestatedLater DEF Final
  <2>. QED
    BY <1>1, <1>3, <2>1, <2>2, LoopAdvances DEF CancelSeen, Save, Return
<1>4. CASE BudgetSpent
  <2>1. PICK t \in Timed(loop.mem) : Save([t EXCEPT !.state = "paused"])
    BY <1>4 DEF BudgetSpent
  <2>2. PICK r : r = [t EXCEPT !.state = "paused"]
    OBVIOUS
  <2>3. t \in Run /\ Later(loop.mem, t)
    BY <1>2, <2>1, TimedLater
  <2>4. r \in Run /\ Later(t, r)
    BY <2>2, <2>3, RestatedLater DEF Open
  <2>5. Later(loop.mem, r)
    BY <1>2, <2>3, <2>4, LaterTransitive
  <2>. QED
    BY <1>1, <1>4, <2>1, <2>2, <2>4, <2>5, LoopAdvances DEF BudgetSpent, Save, Return
<1>5. CASE Slice \/ SliceRefused \/ RepairRaises
  <2>1. UNCHANGED run /\ loop'.mem = loop.mem
    <3>1. CASE Slice
      <4>1. PICK out : loop' = [loop EXCEPT !.pc = "respond",
                                    !.before = plans[loop.mem.plan].done, !.result = out]
        BY <3>1 DEF Slice
      <4>. QED
        BY <1>2, <3>1, <4>1 DEF Slice, Looping
    <3>2. CASE SliceRefused \/ RepairRaises
      BY <1>2, <3>2 DEF SliceRefused, RepairRaises, Goto, Looping
    <3>. QED
      BY <1>5, <3>1, <3>2
  <2>. QED
    BY <1>1, <1>2, <2>1, LaterSelf, LoopAdvances
<1>6. CASE FinallyRead
  <2>1. UNCHANGED run /\ (loop' = Idle \/ \E r \in Timed(run) : loop'.mem = r)
    BY <1>2, <1>6 DEF FinallyRead, Goto, Return, Looping
  <2>. QED
    BY <1>2, <2>1, TimedLater, LaterSelf DEF LoopAhead, OutcomeStays
<1>7. CASE FinallySave
  BY <1>1, <1>2, <1>7, LaterSelf, LoopAdvances DEF FinallySave, Save, Return
<1>. QED
  BY <1>3, <1>4, <1>5, <1>6, <1>7

LEMMA NextAdvances ==
    ASSUME ForegroundControl, IInv, LoopAhead, [Next]_vars
    PROVE  LoopAhead' /\ Later(run, run') /\ OutcomeStays(run, run')
<1>0. run \in Run
  BY DEF IInv, TypeInv, TypeOK
<1>1. CASE Continue
  <2>1. PICK r : r = [run EXCEPT !.state = "running"]
    OBVIOUS
  <2>2. r \in Run /\ Later(run, r)
    BY <1>0, <2>1, RestatedLater DEF Open
  <2>3. loop'.mem = r /\ UNCHANGED run
    BY <1>1, <2>1 DEF Continue
  <2>. QED
    BY <1>0, <2>2, <2>3, LaterSelf DEF LoopAhead, OutcomeStays
<1>2. CASE LoopStep
  BY <1>2, RespondAdvances, RepairAdvances, QuietAdvances DEF LoopStep
<1>3. CASE ControlWrite
  <2>1. /\ loop = Idle /\ control.mem = run /\ run.state \notin Settled(control.kind)
        /\ control.kind \in {"paused", "cancelled"}
    BY <1>3 DEF ControlWrite, IInv, ControlSound, TypeInv, TypeOK, Controlling
  <2>2. UNCHANGED loop
    BY <1>3 DEF ControlWrite
  <2>3. PICK s : s = control.kind
    OBVIOUS
  <2>4. run' = [run EXCEPT !.state = s]
    BY <1>3, <2>1, <2>3 DEF ControlWrite, Save
  <2>5. run'.state = s /\ Later(run, run')
    <3>1. s \in Open \cup Final
      BY <2>1, <2>3 DEF Open, Final
    <3>2. PICK r : r = [run EXCEPT !.state = s]
      OBVIOUS
    <3>3. r.state = s /\ Later(run, r)
      BY <1>0, <3>1, <3>2, RestatedLater
    <3>. QED
      BY <2>4, <3>2, <3>3
  <2>6. OutcomeStays(run, run')
    BY <2>1, <2>3, <2>5 DEF OutcomeStays, Settled, Final
  <2>. QED
    BY <2>1, <2>2, <2>5, <2>6 DEF LoopAhead
<1>4. CASE \/ \E kind \in {"paused", "cancelled"} : ControlRead(kind)
           \/ Crash \/ UNCHANGED vars
  <2>1. UNCHANGED run /\ (loop' = loop \/ loop' = Idle)
    BY <1>4 DEF ControlRead, Crash, Return, vars
  <2>. QED
    BY <1>0, <2>1, LaterSelf DEF LoopAhead, OutcomeStays
<1>. QED
  BY <1>1, <1>2, <1>3, <1>4 DEF Next

\* As long as pause and cancel do not overlap continue_run, what is stored of
\* a run never goes back: no iteration, tool call, repair or observation that
\* was stored is lost by a crash, an exception or a later save of an older
\* copy, a completed run is never touched again, a cancelled one stays so, and
\* a failed one can only be cancelled. (TLC refutes it when they overlap.)
THEOREM RunAdvances ==
    ASSUME ForegroundControl
    PROVE  Spec => [][Later(run, run') /\ OutcomeStays(run, run')]_run
<1>1. Init => IInv /\ LoopAhead
  BY SoundInit DEF Init, LoopAhead
<1>2. IInv /\ LoopAhead /\ [Next]_vars =>
        /\ IInv' /\ LoopAhead'
        /\ [Later(run, run') /\ OutcomeStays(run, run')]_run
  BY SoundNext, NextAdvances
<1>. QED
  BY <1>1, <1>2, PTL DEF Spec

=============================================================================
