------------------------- MODULE TaskExecutionProofs -------------------------
(***************************************************************************)
(* Theorems about TaskExecution, for any plan, any number of executors that *)
(* run it side by side, any approvals, and any number of runs and crashes.  *)
(*                                                                          *)
(* The executors overwrite each other's plan at every checkpoint, so the    *)
(* argument never relates one copy to another. Each copy is honest by       *)
(* itself (RunSound), about results, which nobody takes back; and an        *)
(* approval that was consumed belongs to the one run that holds it (Paying),*)
(* until an effect is written down for it.                                  *)
(***************************************************************************)
EXTENDS TaskExecution, FiniteSetTheorems, WellFoundedInduction, TLAPS

CompletedIn(plan) == {k \in 1..Len(Order) : plan.steps[Order[k]] = "completed"}

\* A plan says only of steps that returned a result that they are completed.
Honest(plan, results) ==
    /\ \A s \in Steps : plan.steps[s] = "completed" => s \in results
    /\ plan.state = "completed" => AllCompleted(plan)

\* The loop has stopped at a step and is not done with it.
Stopped == {"invoke", "check", "execute", "asked", "done", "raised"}

\* What a run relies on.
RunSound(run, results) ==
    /\ \A s \in Steps : run.mem.steps[s] = "completed" => s \in results
    /\ run.pc # "loaded" => run.mem.state = "running"
    /\ run.pc \in {"loaded", "scan"} /\ ~run.pending =>
            \A k \in 1..Len(Order) : k < run.pos => k \in CompletedIn(run.mem)
    /\ run.done <= Cardinality(CompletedIn(run.mem))
    /\ run.pc \in Stopped =>
            /\ run.pending /\ run.pos \in 1..Len(Order)
            /\ run.mem.steps[Order[run.pos]] = "running"
            /\ DependsOn[Order[run.pos]] \subseteq results
    /\ run.pc = "execute" /\ Guarded(Order[run.pos]) => run.paid # NoId
    /\ run.pc = "done" => Order[run.pos] \in results

\* A run that holds an approval whose effect is still to come.
Paying(run) == run.pc \in {"check", "execute"} /\ run.paid # NoId

PaymentSound(run) ==
    /\ token[run.paid].status = "consumed"
    /\ token[run.paid].call = Order[run.pos]
    /\ \A s \in Steps : run.paid \notin paidBy[s]

RunsSound == \A e \in Executors : exec[e] # Idle => RunSound(exec[e], succeeded)

PaymentsSound ==
    /\ \A e \in Executors : Paying(exec[e]) => PaymentSound(exec[e])
    /\ \A d, e \in Executors :
            d # e /\ Paying(exec[d]) /\ Paying(exec[e]) => exec[d].paid # exec[e].paid

IInv ==
    /\ TypeOK
    /\ Honest(store, succeeded)
    /\ RunsSound
    /\ PaymentsSound
    /\ \A s \in Steps : IsFiniteSet(paidBy[s])
    /\ EveryEffectPaid
    /\ DependenciesFirst

-----------------------------------------------------------------------------
\* With one executor

\* The step has acted, as far as the run in progress or the stored plan knows.
ActedIn(plan, s) == plan.steps[s] \in {"completed", "failed"}

ActedOf(run, stored, s) ==
    IF run = Idle THEN ActedIn(stored, s)
    ELSE \/ ActedIn(run.mem, s)
         \/ run.pc \in {"done", "raised"} /\ s = Order[run.pos]

Acted(e, s) == ActedOf(exec[e], store, s)

RepeatsExplained(e) ==
    \A s \in Steps : effects[s] <= crashes + (IF Acted(e, s) THEN 1 ELSE 0)

USE TaskAssumption

-----------------------------------------------------------------------------
\* Plans and positions

LEMMA Positions ==
    /\ Len(Order) \in Nat \ {0}
    /\ \A k \in 1..Len(Order) :
            Order[k] \in Steps /\ k \in 1..Len(Order) + 1 /\ k + 1 \in 1..Len(Order) + 1
    /\ \A s \in Steps : \E k \in 1..Len(Order) : s = Order[k]
  BY DEF Steps

LEMMA Least ==
    ASSUME NEW S, S \subseteq Nat, S # {}
    PROVE  \E x \in S : \A y \in S : x <= y
<1> DEFINE R == OpToRel(<, Nat)
<1>1. IsWellFoundedOn(R, Nat)
  BY NatLessThanWellFounded
<1>2. \A x, y \in Nat : <<y, x>> \in R <=> y < x
  BY DEF OpToRel
<1> HIDE DEF R
<1>3. PICK x \in S : \A y \in S : ~ (<<y, x>> \in R)
  BY <1>1, WFMin
<1>4. \A y \in S : ~ (y < x)
  BY <1>2, <1>3
<1>. QED
  BY <1>4

LEMMA MarkedPlan ==
    ASSUME NEW plan \in Plan, NEW s \in Steps, NEW v \in StepStates
    PROVE  /\ Marked(plan, s, v) \in Plan
           /\ Marked(plan, s, v).state = plan.state
           /\ Marked(plan, s, v).steps[s] = v
           /\ \A t \in Steps \ {s} : Marked(plan, s, v).steps[t] = plan.steps[t]
<1>1. Marked(plan, s, v) = [state |-> plan.state, steps |-> [plan.steps EXCEPT ![s] = v]]
  BY DEF Plan, Marked
<1>. QED
  BY <1>1 DEF Plan

LEMMA StatedPlan ==
    ASSUME NEW plan \in Plan, NEW v \in PlanStates
    PROVE  /\ Stated(plan, v) \in Plan
           /\ Stated(plan, v).state = v
           /\ Stated(plan, v).steps = plan.steps
  BY DEF Plan, Stated

LEMMA CompletedFinite ==
    ASSUME NEW plan
    PROVE  /\ IsFiniteSet(CompletedIn(plan))
           /\ Cardinality(CompletedIn(plan)) \in 0..Len(Order)
<1>1. IsFiniteSet(1..Len(Order)) /\ Cardinality(1..Len(Order)) = Len(Order)
  BY Positions, FS_Interval
<1>2. CompletedIn(plan) \subseteq 1..Len(Order)
  BY DEF CompletedIn
<1>. QED
  BY <1>1, <1>2, FS_Subset, FS_CardinalityType

\* Marking a step that was not completed takes nothing away, and completing
\* it adds one.
LEMMA CompletedGrows ==
    ASSUME NEW plan \in Plan, NEW k \in 1..Len(Order), NEW v \in StepStates,
           plan.steps[Order[k]] # "completed"
    PROVE  /\ v # "completed" =>
                CompletedIn(Marked(plan, Order[k], v)) = CompletedIn(plan)
           /\ v = "completed" =>
                /\ CompletedIn(Marked(plan, Order[k], v)) = CompletedIn(plan) \cup {k}
                /\ Cardinality(CompletedIn(Marked(plan, Order[k], v)))
                      = Cardinality(CompletedIn(plan)) + 1
<1> DEFINE marked == Marked(plan, Order[k], v)
<1>1. Order[k] \in Steps /\ \A j \in 1..Len(Order) : Order[j] \in Steps
  BY Positions
<1>2. \A j \in 1..Len(Order) \ {k} : Order[j] # Order[k]
  OBVIOUS
<1>3. marked.steps[Order[k]] = v
      /\ \A j \in 1..Len(Order) \ {k} : marked.steps[Order[j]] = plan.steps[Order[j]]
  BY <1>1, <1>2, MarkedPlan
<1> HIDE DEF marked
<1>4. CompletedIn(marked) =
        IF v = "completed" THEN CompletedIn(plan) \cup {k} ELSE CompletedIn(plan)
  BY <1>3 DEF CompletedIn
<1>5. k \notin CompletedIn(plan)
  BY DEF CompletedIn
<1>. QED
  BY <1>4, <1>5, CompletedFinite, FS_AddElement DEF marked

LEMMA RunType ==
    ASSUME IInv, NEW e \in Executors, exec[e] # Idle
    PROVE  /\ exec[e] \in Run /\ exec[e].mem \in Plan
           /\ RunSound(exec[e], succeeded)
           /\ exec[e].pc \in Stopped =>
                exec[e].pos \in 1..Len(Order) /\ Here(e) = Order[exec[e].pos] /\ Here(e) \in Steps
<1>1. exec[e] \in Run
  BY DEF IInv, TypeOK
<1>2. RunSound(exec[e], succeeded)
  BY DEF IInv, RunsSound
<1>. QED
  BY <1>1, <1>2, Positions DEF Run, RunSound, Here

-----------------------------------------------------------------------------
\* Steps that neither spend nor act

LEMMA QuietStep ==
    ASSUME IInv, NEW e \in Executors, NEW r \in Run \cup {Idle},
           exec' = [exec EXCEPT ![e] = r],
           r # Idle => RunSound(r, succeeded),
           Paying(r) =>
                Paying(exec[e]) /\ r.paid = exec[e].paid /\ r.pos = exec[e].pos,
           store' \in Plan, Honest(store', succeeded),
           granted' \subseteq Executors, runs' \in 0..MaxRuns, crashes' \in 0..MaxCrashes,
           UNCHANGED <<token, history>>
    PROVE  IInv'
<1>0. exec \in [Executors -> Run \cup {Idle}]
  BY DEF IInv, TypeOK
<1>1. exec'[e] = r /\ \A d \in Executors \ {e} : exec'[d] = exec[d]
  BY <1>0
<1>2. TypeOK'
  BY <1>0 DEF IInv, TypeOK, history, Cyber!TokenTypeOK
<1>3. RunsSound'
  BY <1>1 DEF IInv, RunsSound, history
<1>4. PaymentsSound'
  BY <1>1 DEF IInv, PaymentsSound, PaymentSound, history
<1>. QED
  BY <1>2, <1>3, <1>4 DEF IInv, EveryEffectPaid, DependenciesFirst, history

LEMMA LoadStep ==
    ASSUME IInv, NEW e \in Executors, NEW limit \in Limits, Load(e, limit)
    PROVE  IInv'
<1> DEFINE r == [pc |-> "loaded", mem |-> store, pos |-> 1, progress |-> FALSE,
                 pending |-> FALSE, done |-> 0, limit |-> limit, paid |-> NoId,
                 known |-> {i \in Ids : token[i] # Cyber!Unissued}]
<1>1. exec' = [exec EXCEPT ![e] = r] /\ runs' = runs + 1 /\ runs < MaxRuns
      /\ UNCHANGED <<store, token, granted, crashes, history>>
  BY DEF Load, Goto
<1>2. store \in Plan /\ Honest(store, succeeded) /\ runs \in 0..MaxRuns
      /\ crashes \in 0..MaxCrashes /\ granted \subseteq Executors
  BY DEF IInv, TypeOK
<1>3. r \in Run
  BY <1>2, Positions DEF Run
<1>4. RunSound(r, succeeded)
  BY <1>2, CompletedFinite DEF RunSound, Honest, Stopped
<1>5. ~Paying(r)
  BY DEF Paying
<1> HIDE DEF r
<1>6. runs' \in 0..MaxRuns
  BY <1>1, <1>2
<1>. QED
  BY <1>1, <1>2, <1>3, <1>4, <1>5, <1>6, QuietStep

\* What a run that goes on may count on.
LEMMA Unchanged ==
    ASSUME IInv, UNCHANGED bounds
    PROVE  /\ runs' \in 0..MaxRuns /\ crashes' \in 0..MaxCrashes
           /\ granted \subseteq Executors /\ store \in Plan /\ Honest(store, succeeded)
  BY DEF IInv, TypeOK, bounds

LEMMA BeginStep ==
    ASSUME IInv, NEW e \in Executors, Begin(e)
    PROVE  IInv'
<1> DEFINE plan == Stated(exec[e].mem, "running")
           r == [exec[e] EXCEPT !.mem = plan, !.pc = "scan"]
<1>1. exec[e].pc = "loaded" /\ exec[e] # Idle
  BY DEF Begin, At, Idle
<1>2. exec' = [exec EXCEPT ![e] = r] /\ store' = plan
      /\ UNCHANGED <<token, granted, bounds, history>>
  BY DEF Begin, Goto, Persist
<1>3. exec[e] \in Run /\ exec[e].mem \in Plan /\ RunSound(exec[e], succeeded)
  BY <1>1, RunType
<1>4. plan \in Plan /\ plan.state = "running" /\ plan.steps = exec[e].mem.steps
  BY <1>3, StatedPlan DEF PlanStates
<1> HIDE DEF plan
<1>5. /\ r \in Run /\ r.mem = plan /\ r.pc = "scan" /\ r.pos = exec[e].pos
      /\ r.pending = exec[e].pending /\ r.done = exec[e].done
  BY <1>3, <1>4 DEF Run
<1> HIDE DEF r
<1>6. RunSound(r, succeeded)
  BY <1>1, <1>3, <1>4, <1>5 DEF RunSound, Stopped, CompletedIn
<1>7. Honest(plan, succeeded) /\ ~Paying(r)
  BY <1>3, <1>4, <1>5 DEF Honest, RunSound, Paying
<1>. QED
  BY <1>2, <1>4, <1>5, <1>6, <1>7, QuietStep, Unchanged

LEMMA VisitStep ==
    ASSUME IInv, NEW e \in Executors, Visit(e)
    PROVE  IInv'
<1> DEFINE k == CHOOSE j \in Stops(exec[e]) : \A l \in Stops(exec[e]) : j <= l
           s == Order[k]
           plan == exec[e].mem
           cancelled == IF FailedStep(plan, s) THEN plan ELSE Marked(plan, s, "cancelled")
           r == [exec[e] EXCEPT !.mem = Started(plan, s), !.pos = k,
                                !.pending = TRUE, !.pc = "invoke"]
<1>1. exec[e].pc = "scan" /\ exec[e] # Idle /\ Stops(exec[e]) # {}
  BY DEF Visit, At, Idle
<1>2. exec[e] \in Run /\ plan \in Plan /\ RunSound(exec[e], succeeded)
  BY <1>1, RunType
<1>3. \/ /\ Doomed(plan, s)
         /\ store' = Stated(cancelled, "failed") /\ exec' = [exec EXCEPT ![e] = Idle]
      \/ /\ ~Doomed(plan, s)
         /\ store' = Started(plan, s) /\ exec' = [exec EXCEPT ![e] = r]
  BY DEF Visit, Goto, Persist
<1>4. UNCHANGED <<token, granted, bounds, history>>
  BY DEF Visit
<1>5. k \in Stops(exec[e])
  <2>1. Stops(exec[e]) \subseteq Nat
    BY <1>2 DEF Stops, Run
  <2>2. \E j \in Stops(exec[e]) : \A l \in Stops(exec[e]) : j <= l
    BY <1>1, <2>1, Least
  <2>. QED
    BY <2>2
<1> HIDE DEF k
<1>6. k \in 1..Len(Order) /\ s \in Steps /\ ~Skipped(plan, s)
  BY <1>2, <1>5, Positions DEF Stops, Run
<1>7. plan.steps[s] # "completed"
  BY <1>6 DEF Skipped
<1>8. /\ plan.state = "running"
      /\ \A t \in Steps : plan.steps[t] = "completed" => t \in succeeded
      /\ exec[e].done <= Cardinality(CompletedIn(plan))
  BY <1>1, <1>2 DEF RunSound
<1> HIDE DEF s, plan
<1>9. CASE Doomed(plan, s)
  <2>1. cancelled \in Plan
        /\ \A t \in Steps : cancelled.steps[t] = "completed" => plan.steps[t] = "completed"
    <3>1. /\ Marked(plan, s, "cancelled") \in Plan
          /\ Marked(plan, s, "cancelled").steps[s] = "cancelled"
          /\ \A t \in Steps \ {s} :
                Marked(plan, s, "cancelled").steps[t] = plan.steps[t]
      BY <1>2, <1>6, MarkedPlan DEF StepStates
    <3>. QED
      BY <1>2, <3>1
  <2> HIDE DEF cancelled
  <2>2. Stated(cancelled, "failed") \in Plan /\ Honest(Stated(cancelled, "failed"), succeeded)
    BY <1>8, <2>1, StatedPlan DEF PlanStates, Honest
  <2>. QED
    BY <1>3, <1>4, <1>9, <2>2, QuietStep, Unchanged DEF Paying, Idle
<1>10. CASE ~Doomed(plan, s)
  <2> DEFINE started == Started(plan, s)
  <2>1. /\ started \in Plan /\ started.state = plan.state /\ started.steps[s] = "running"
        /\ \A t \in Steps \ {s} : started.steps[t] = plan.steps[t]
    BY <1>2, <1>6, MarkedPlan DEF StepStates, Started
  <2>2. CompletedIn(started) = CompletedIn(plan)
    BY <1>2, <1>6, <1>7, CompletedGrows DEF StepStates, Started, s
  <2> HIDE DEF started
  <2>3. /\ r \in Run /\ r.mem = started /\ r.pc = "invoke" /\ r.pos = k
        /\ r.pending = TRUE /\ r.done = exec[e].done
    BY <1>2, <1>6, <2>1, Positions DEF Run, started
  <2> HIDE DEF r
  <2>4. DependsOn[s] \subseteq succeeded
    <3>1. \A d \in DependsOn[s] : d \in Steps /\ plan.steps[d] = "completed"
      BY <1>6, <1>10 DEF Skipped
    <3>. QED
      BY <1>8, <3>1
  <2>5. \A t \in Steps : started.steps[t] = "completed" => t \in succeeded
    BY <1>8, <2>1
  <2>6. started.state = "running"
    BY <1>8, <2>1
  <2>7. RunSound(r, succeeded)
    BY <1>6, <1>8, <2>1, <2>2, <2>3, <2>4, <2>5, <2>6 DEF RunSound, Stopped, s
  <2>8. Honest(started, succeeded) /\ ~Paying(r)
    BY <2>3, <2>5, <2>6 DEF Honest, Paying
  <2>. QED
    BY <1>3, <1>4, <1>10, <2>1, <2>3, <2>7, <2>8, QuietStep, Unchanged DEF started
<1>. QED
  BY <1>9, <1>10

LEMMA NewPassOf ==
    ASSUME NEW run \in Run
    PROVE  /\ NewPass(run) \in Run /\ NewPass(run).mem = run.mem
           /\ NewPass(run).pc = run.pc /\ NewPass(run).pos = 1
           /\ NewPass(run).done = run.done
<1>1. 1 \in 1..Len(Order) + 1
  BY Positions
<1>. QED
  BY <1>1 DEF Run, NewPass

LEMMA EndPassStep ==
    ASSUME IInv, NEW e \in Executors, EndPass(e)
    PROVE  IInv'
<1> DEFINE run == exec[e]
           r == NewPass(run)
           s == IF PendingExists(run) THEN "failed" ELSE "completed"
           plan == Stated(run.mem, s)
<1>1. run.pc = "scan" /\ run # Idle
  BY DEF EndPass, At, Idle
<1>2. run \in Run /\ run.mem \in Plan /\ RunSound(run, succeeded)
  BY <1>1, RunType
<1>3. \/ exec' = [exec EXCEPT ![e] = r] /\ UNCHANGED store
      \/ exec' = [exec EXCEPT ![e] = Idle] /\ store' = plan
  BY DEF EndPass, Goto, Persist
<1>4. UNCHANGED <<token, granted, bounds, history>>
  BY DEF EndPass
<1>5. CASE exec' = [exec EXCEPT ![e] = r] /\ UNCHANGED store
  <2>1. /\ r \in Run /\ r.mem = run.mem /\ r.pc = "scan" /\ r.pos = 1
        /\ r.done = run.done
    BY <1>1, <1>2, NewPassOf
  <2> HIDE DEF r
  <2>2. RunSound(r, succeeded) /\ ~Paying(r)
    BY <1>1, <1>2, <2>1 DEF RunSound, Stopped, Paying
  <2>. QED
    BY <1>4, <1>5, <2>1, <2>2, QuietStep, Unchanged
<1>6. CASE exec' = [exec EXCEPT ![e] = Idle] /\ store' = plan
  <2>1. plan \in Plan /\ plan.state = s /\ plan.steps = run.mem.steps
    BY <1>2, StatedPlan DEF PlanStates
  <2>2. ASSUME ~PendingExists(run) PROVE AllCompleted(run.mem)
    <3>1. \A k \in 1..Len(Order) : run.mem.steps[Order[k]] = "completed"
      <4> TAKE k \in 1..Len(Order)
      <4>1. CASE k < run.pos
        BY <1>1, <1>2, <2>2, <4>1 DEF RunSound, PendingExists, CompletedIn
      <4>2. CASE ~(k < run.pos)
        <5>1. k \in run.pos..Len(Order)
          BY <1>2, <4>2, Positions DEF Run
        <5>. QED
          BY <2>2, <5>1 DEF PendingExists
      <4>. QED
        BY <4>1, <4>2
    <3> SUFFICES ASSUME NEW t \in Steps PROVE run.mem.steps[t] = "completed"
      BY DEF AllCompleted
    <3>2. PICK k \in 1..Len(Order) : t = Order[k]
      BY Positions
    <3>. QED
      BY <3>1, <3>2
  <2>3. Honest(plan, succeeded)
    BY <1>2, <2>1, <2>2 DEF Honest, RunSound, AllCompleted
  <2> HIDE DEF plan
  <2>. QED
    BY <1>4, <1>6, <2>1, <2>3, QuietStep, Unchanged DEF Paying, Idle
<1>. QED
  BY <1>3, <1>5, <1>6

\* Only the place changes, and nothing is written.
LEMMA MoveStep ==
    ASSUME IInv, NEW e \in Executors, exec[e].pc \in {"invoke", "check", "execute"},
           NEW pc \in {"execute", "raised"},
           pc = "execute" => exec[e].pc = "check" /\ Allowed(e),
           exec' = [exec EXCEPT ![e] = [exec[e] EXCEPT !.pc = pc]],
           UNCHANGED <<store, token, granted, bounds, history>>
    PROVE  IInv'
<1> DEFINE r == [exec[e] EXCEPT !.pc = pc]
<1>1. exec[e] # Idle
  BY DEF Idle
<1>2. exec[e] \in Run /\ RunSound(exec[e], succeeded)
      /\ exec[e].pc \in Stopped /\ Here(e) = Order[exec[e].pos]
  BY <1>1, RunType DEF Stopped
<1>3. /\ r \in Run /\ r.mem = exec[e].mem /\ r.pc = pc /\ r.pos = exec[e].pos
      /\ r.done = exec[e].done /\ r.paid = exec[e].paid /\ r.pending = exec[e].pending
  BY <1>2 DEF Run
<1> HIDE DEF r
<1>4. RunSound(r, succeeded)
  BY <1>2, <1>3 DEF RunSound, Stopped, Allowed
<1>5. Paying(r) => Paying(exec[e])
  BY <1>3 DEF Paying
<1>. QED
  BY <1>3, <1>4, <1>5, QuietStep, Unchanged DEF r

LEMMA UnresolvedStep ==
    ASSUME IInv, NEW e \in Executors, Unresolved(e)
    PROVE  IInv'
  BY MoveStep DEF Unresolved, At, Goto

LEMMA ClearStep ==
    ASSUME IInv, NEW e \in Executors, Clear(e)
    PROVE  IInv'
  BY MoveStep DEF Clear, At, Goto

\* A run that ends with an honest plan stored, or with none.
LEMMA EndStep ==
    ASSUME IInv, NEW e \in Executors, exec' = [exec EXCEPT ![e] = Idle],
           store' \in Plan, Honest(store', succeeded), granted' \subseteq Executors,
           runs' \in 0..MaxRuns, crashes' \in 0..MaxCrashes,
           UNCHANGED <<token, history>>
    PROVE  IInv'
<1>1. ~Paying(Idle)
  BY DEF Paying, Idle
<1>. QED
  BY <1>1, QuietStep

LEMMA AwaitStep ==
    ASSUME IInv, NEW e \in Executors, Await(e)
    PROVE  IInv'
<1> DEFINE mem == exec[e].mem
           marked == Marked(mem, Here(e), "awaiting_approval")
           plan == Stated(marked, "awaiting_approval")
<1>1. exec[e].pc = "asked" /\ exec[e] # Idle
  BY DEF Await, At, Idle
<1>2. mem \in Plan /\ RunSound(exec[e], succeeded) /\ Here(e) \in Steps
  BY <1>1, RunType DEF Stopped
<1>3. exec' = [exec EXCEPT ![e] = Idle] /\ store' = plan
      /\ UNCHANGED <<token, granted, bounds, history>>
  BY DEF Await, Goto, Persist, Waiting
<1>4. \A t \in Steps : mem.steps[t] = "completed" => t \in succeeded
  BY <1>2 DEF RunSound
<1> HIDE DEF mem
<1>5. /\ marked \in Plan /\ marked.steps[Here(e)] = "awaiting_approval"
      /\ \A t \in Steps \ {Here(e)} : marked.steps[t] = mem.steps[t]
  BY <1>2, MarkedPlan DEF StepStates
<1> HIDE DEF marked
<1>6. plan \in Plan /\ Honest(plan, succeeded)
  BY <1>4, <1>5, StatedPlan DEF PlanStates, Honest
<1>. QED
  BY <1>3, <1>6, EndStep, Unchanged

LEMMA FailStep ==
    ASSUME IInv, NEW e \in Executors, Fail(e)
    PROVE  IInv'
<1> DEFINE mem == exec[e].mem
           marked == Marked(mem, Here(e), "failed")
           plan == Stated(marked, "failed")
<1>1. exec[e].pc = "raised" /\ exec[e] # Idle
  BY DEF Fail, At, Idle
<1>2. mem \in Plan /\ RunSound(exec[e], succeeded) /\ Here(e) \in Steps
  BY <1>1, RunType DEF Stopped
<1>3. exec' = [exec EXCEPT ![e] = Idle] /\ store' = plan
      /\ UNCHANGED <<token, granted, bounds, history>>
  BY DEF Fail, Goto, Persist
<1>4. \A t \in Steps : mem.steps[t] = "completed" => t \in succeeded
  BY <1>2 DEF RunSound
<1> HIDE DEF mem
<1>5. /\ marked \in Plan /\ marked.steps[Here(e)] = "failed"
      /\ \A t \in Steps \ {Here(e)} : marked.steps[t] = mem.steps[t]
  BY <1>2, MarkedPlan DEF StepStates
<1> HIDE DEF marked
<1>6. plan \in Plan /\ Honest(plan, succeeded)
  BY <1>4, <1>5, StatedPlan DEF PlanStates, Honest
<1>. QED
  BY <1>3, <1>6, EndStep, Unchanged

LEMMA PauseStep ==
    ASSUME IInv, NEW e \in Executors, Pause(e)
    PROVE  IInv'
<1>1. exec[e].pc = "limit" /\ exec[e] # Idle
  BY DEF Pause, At, Idle
<1>2. exec[e].mem \in Plan /\ RunSound(exec[e], succeeded)
  BY <1>1, RunType
<1>3. exec' = [exec EXCEPT ![e] = Idle] /\ store' = Stated(exec[e].mem, "ready")
      /\ UNCHANGED <<token, granted, bounds, history>>
  BY DEF Pause, Goto, Persist, Paused
<1>4. Stated(exec[e].mem, "ready") \in Plan /\ Honest(Stated(exec[e].mem, "ready"), succeeded)
  BY <1>2, StatedPlan DEF PlanStates, Honest, RunSound
<1>. QED
  BY <1>3, <1>4, EndStep, Unchanged

LEMMA OneMore ==
    ASSUME NEW n \in Nat, NEW a \in Nat, NEW b \in 0..n, NEW d \in Nat,
           d <= a, b = a + 1
    PROVE  d + 1 \in 0..n /\ d + 1 <= b
  OBVIOUS

LEMMA CompleteStep ==
    ASSUME IInv, NEW e \in Executors, Complete(e)
    PROVE  IInv'
<1> DEFINE k == exec[e].pos
           mem == exec[e].mem
           plan == Marked(mem, Here(e), "completed")
           done == exec[e].done + 1
           pc == IF exec[e].limit # 0 /\ done >= exec[e].limit THEN "limit" ELSE "scan"
           r == [exec[e] EXCEPT !.mem = plan, !.done = done, !.progress = TRUE,
                                !.paid = NoId, !.pos = k + 1, !.pc = pc]
<1>1. exec[e].pc = "done" /\ exec[e] # Idle
  BY DEF Complete, At, Idle
<1>2. exec[e] \in Run /\ mem \in Plan /\ RunSound(exec[e], succeeded)
      /\ k \in 1..Len(Order) /\ Here(e) = Order[k] /\ Here(e) \in Steps
  BY <1>1, RunType DEF Stopped
<1>3. exec' = [exec EXCEPT ![e] = r] /\ store' = plan
      /\ UNCHANGED <<token, granted, bounds, history>>
  BY DEF Complete, Goto, Persist
<1>4. /\ mem.steps[Order[k]] = "running" /\ mem.state = "running"
      /\ Order[k] \in succeeded
      /\ \A t \in Steps : mem.steps[t] = "completed" => t \in succeeded
      /\ exec[e].done <= Cardinality(CompletedIn(mem))
  BY <1>1, <1>2 DEF RunSound, Stopped
<1> HIDE DEF mem
<1>5. /\ plan \in Plan /\ plan.state = "running"
      /\ \A t \in Steps : plan.steps[t] = "completed" => t \in succeeded
  <2>1. /\ plan \in Plan /\ plan.state = mem.state
        /\ \A t \in Steps \ {Here(e)} : plan.steps[t] = mem.steps[t]
    <3>1. "completed" \in StepStates /\ mem \in Plan /\ Here(e) \in Steps
      BY <1>2 DEF StepStates
    <3>. QED
      BY <3>1, MarkedPlan
  <2> HIDE DEF plan
  <2>. QED
    BY <1>2, <1>4, <2>1
<1>6. Cardinality(CompletedIn(plan)) = Cardinality(CompletedIn(mem)) + 1
  BY <1>2, <1>4, CompletedGrows DEF StepStates
<1> HIDE DEF plan
<1>7. done \in 0..Len(Order) /\ done <= Cardinality(CompletedIn(plan))
  <2>1. exec[e].done \in Nat
    BY <1>2, Positions DEF Run
  <2>2. Cardinality(CompletedIn(plan)) \in 0..Len(Order)
        /\ Cardinality(CompletedIn(mem)) \in Nat
    BY CompletedFinite, Positions
  <2>3. exec[e].done <= Cardinality(CompletedIn(mem))
    BY <1>4
  <2> HIDE DEF plan
  <2>4. Len(Order) \in Nat
    BY Positions
  <2>. QED
    BY <1>6, <2>1, <2>2, <2>3, <2>4, OneMore
<1>8. pc \in {"limit", "scan"} /\ k + 1 \in 1..Len(Order) + 1
  BY <1>2, Positions
<1> HIDE DEF done, pc, k
<1>9. /\ r \in Run /\ r.mem = plan /\ r.pc = pc /\ r.pos = k + 1 /\ r.done = done
      /\ r.paid = NoId /\ r.pending = exec[e].pending
  BY <1>2, <1>5, <1>7, <1>8 DEF Run
<1> HIDE DEF r
<1>10. RunSound(r, succeeded) /\ ~Paying(r)
  BY <1>1, <1>2, <1>5, <1>7, <1>8, <1>9 DEF RunSound, Stopped, Paying
<1>11. Honest(plan, succeeded)
  BY <1>5 DEF Honest
<1>. QED
  BY <1>3, <1>5, <1>9, <1>10, <1>11, QuietStep, Unchanged DEF r, plan, done, pc, k, mem

LEMMA LeaveSteps ==
    ASSUME IInv, NEW e \in Executors, Exit(e) \/ Crash(e)
    PROVE  IInv'
<1>1. /\ store \in Plan /\ Honest(store, succeeded) /\ granted \subseteq Executors
      /\ runs \in 0..MaxRuns /\ crashes \in 0..MaxCrashes
      /\ exec \in [Executors -> Run \cup {Idle}]
  BY DEF IInv, TypeOK
<1>2. exec' = [exec EXCEPT ![e] = Idle] /\ granted' \subseteq Executors
      /\ runs' = runs /\ crashes' \in 0..MaxCrashes /\ UNCHANGED <<store, token, history>>
  <2>1. CASE Exit(e)
    BY <1>1, <2>1 DEF Exit, bounds
  <2>2. CASE Crash(e)
    BY <1>1, <2>2 DEF Crash, Goto
  <2>. QED
    BY <2>1, <2>2
<1>. QED
  BY <1>1, <1>2, EndStep

-----------------------------------------------------------------------------
\* Steps that change an approval

\* An approval that is not consumed pays for nothing yet, so nothing that is
\* paid for hangs on it.
LEMMA UnspentIsFree ==
    ASSUME IInv, NEW i \in Ids, token[i].status # "consumed"
    PROVE  /\ \A s \in Steps : i \notin paidBy[s]
           /\ \A e \in Executors : Paying(exec[e]) => exec[e].paid # i
  BY DEF IInv, EveryEffectPaid, PaymentsSound, PaymentSound

LEMMA PaidAreIds ==
    ASSUME IInv
    PROVE  /\ \A s \in Steps : paidBy[s] \subseteq Ids
           /\ \A e \in Executors : Paying(exec[e]) => exec[e].paid \in Ids
<1>1. \A e \in Executors : Paying(exec[e]) => exec[e] \in Run
  BY DEF IInv, TypeOK, Paying, Idle
<1>. QED
  BY <1>1 DEF IInv, TypeOK, Paying, Run

\* The approvals change for one that is not consumed.
LEMMA TokenStep ==
    ASSUME IInv, NEW i \in Ids, token[i].status # "consumed",
           token' \in [Ids -> Cyber!Token \cup {Cyber!Unissued}],
           \A j \in Ids \ {i} : token'[j] = token[j],
           UNCHANGED history
    PROVE  /\ Cyber!TokenTypeOK'
           /\ EveryEffectPaid'
           /\ \A e \in Executors : Paying(exec[e]) => token'[exec[e].paid] = token[exec[e].paid]
<1>1. \A e \in Executors : Paying(exec[e]) => token'[exec[e].paid] = token[exec[e].paid]
  BY UnspentIsFree, PaidAreIds
<1>2. \A s \in Steps : \A j \in paidBy[s] : token'[j] = token[j]
  BY UnspentIsFree, PaidAreIds
<1>3. EveryEffectPaid'
  BY <1>2 DEF IInv, EveryEffectPaid, history
<1>. QED
  BY <1>1, <1>3 DEF Cyber!TokenTypeOK

LEMMA TokenChanged ==
    ASSUME token \in [Ids -> Cyber!Token \cup {Cyber!Unissued}],
           NEW i \in Ids, token[i].status \in {"pending", "approved"},
           NEW v \in {"approved", "denied", "expired", "consumed"}, Cyber!SetStatus(i, v)
    PROVE  /\ token' \in [Ids -> Cyber!Token \cup {Cyber!Unissued}]
           /\ token'[i].status = v /\ token'[i].call = token[i].call
           /\ \A j \in Ids \ {i} : token'[j] = token[j]
<1>1. token[i] \in Cyber!Token
  BY DEF Cyber!Unissued
<1>2. token' = [token EXCEPT ![i] = [token[i] EXCEPT !.status = v]]
  BY DEF Cyber!SetStatus
<1>3. /\ [token[i] EXCEPT !.status = v] \in Cyber!Token
      /\ [token[i] EXCEPT !.status = v].status = v
      /\ [token[i] EXCEPT !.status = v].call = token[i].call
  BY <1>1 DEF Cyber!Token
<1>. QED
  BY <1>2, <1>3

LEMMA ConsumeStep ==
    ASSUME IInv, NEW e \in Executors, Consume(e)
    PROVE  IInv'
<1>1. exec[e].pc = "invoke" /\ exec[e] # Idle
  BY DEF Consume, At, Idle
<1>2. exec[e] \in Run /\ RunSound(exec[e], succeeded)
      /\ exec[e].pos \in 1..Len(Order) /\ Here(e) = Order[exec[e].pos] /\ Here(e) \in Steps
  BY <1>1, RunType DEF Stopped
<1>3. UNCHANGED <<store, granted, bounds, history>>
  BY DEF Consume
<1>4. PICK i \in exec[e].known \cup {NoId} :
        IF i # NoId /\ Cyber!Spendable(i, Here(e))
        THEN /\ Cyber!Spend(i, Here(e))
             /\ exec' = [exec EXCEPT ![e] = [exec[e] EXCEPT !.pc = "check", !.paid = i]]
        ELSE /\ exec' = [exec EXCEPT ![e] = [exec[e] EXCEPT !.pc = "check", !.paid = NoId]]
             /\ UNCHANGED token
  BY DEF Consume, Goto
<1> DEFINE p == IF i # NoId /\ Cyber!Spendable(i, Here(e)) THEN i ELSE NoId
           r == [exec[e] EXCEPT !.pc = "check", !.paid = p]
<1>5. i \in Ids \cup {NoId} /\ p \in Ids \cup {NoId} /\ exec' = [exec EXCEPT ![e] = r]
  BY <1>2, <1>4 DEF Run
<1> HIDE DEF p
<1>6. /\ r \in Run /\ r.mem = exec[e].mem /\ r.pc = "check" /\ r.pos = exec[e].pos
      /\ r.done = exec[e].done /\ r.paid = p /\ r.pending = exec[e].pending
  BY <1>2, <1>5 DEF Run
<1> HIDE DEF r
<1>7. RunSound(r, succeeded)
  BY <1>1, <1>2, <1>6 DEF RunSound, Stopped
<1>8. CASE ~(i # NoId /\ Cyber!Spendable(i, Here(e)))
  <2>1. ~Paying(r) /\ UNCHANGED token
    BY <1>4, <1>6, <1>8 DEF Paying, p
  <2>. QED
    BY <1>3, <1>5, <1>6, <1>7, <2>1, QuietStep, Unchanged
<1>9. CASE i # NoId /\ Cyber!Spendable(i, Here(e))
  <2>1. i \in Ids /\ p = i /\ Cyber!SetStatus(i, "consumed")
        /\ token[i].status = "approved" /\ token[i].call = Here(e)
    BY <1>4, <1>5, <1>9 DEF Cyber!Spend, Cyber!Spendable, p
  <2>2. token \in [Ids -> Cyber!Token \cup {Cyber!Unissued}]
        /\ exec \in [Executors -> Run \cup {Idle}]
    BY DEF IInv, TypeOK, Cyber!TokenTypeOK
  <2>3. /\ token' \in [Ids -> Cyber!Token \cup {Cyber!Unissued}]
        /\ token'[i].status = "consumed" /\ token'[i].call = token[i].call
        /\ \A j \in Ids \ {i} : token'[j] = token[j]
    BY <2>1, <2>2, TokenChanged
  <2>4. Cyber!TokenTypeOK' /\ EveryEffectPaid'
        /\ \A d \in Executors : Paying(exec[d]) => token'[exec[d].paid] = token[exec[d].paid]
    BY <1>3, <2>1, <2>3, TokenStep
  <2>5. exec'[e] = r /\ \A d \in Executors \ {e} : exec'[d] = exec[d]
    BY <1>5, <2>2
  <2>6. TypeOK'
    BY <1>3, <1>5, <1>6, <2>2, <2>4 DEF IInv, TypeOK, bounds, history
  <2>7. RunsSound'
    BY <1>3, <1>7, <2>5 DEF IInv, RunsSound, history
  <2>8. PaymentSound(exec[e])' /\ exec'[e].paid = i
    BY <1>2, <1>3, <1>6, <2>1, <2>3, <2>5, UnspentIsFree DEF PaymentSound, history
  <2>9. \A d \in Executors \ {e} : Paying(exec[d]) =>
            exec[d].paid # i /\ PaymentSound(exec[d])'
    BY <1>3, <1>6, <2>1, <2>4, <2>5, UnspentIsFree
    DEF IInv, PaymentsSound, PaymentSound, history
  <2>10. PaymentsSound'
    <3>1. \A d \in Executors : Paying(exec'[d]) => PaymentSound(exec[d])'
      BY <2>5, <2>8, <2>9
    <3>2. ASSUME NEW d \in Executors, NEW f \in Executors, d # f,
                 Paying(exec'[d]), Paying(exec'[f])
          PROVE  exec'[d].paid # exec'[f].paid
      <4>1. CASE d # e /\ f # e
        BY <2>5, <3>2, <4>1 DEF IInv, PaymentsSound
      <4>. QED
        BY <2>5, <2>8, <2>9, <3>2, <4>1
    <3>. QED
      BY <3>1, <3>2 DEF PaymentsSound
  <2>. QED
    BY <1>3, <2>4, <2>6, <2>7, <2>10 DEF IInv, DependenciesFirst, history
<1>. QED
  BY <1>8, <1>9

LEMMA PaymentsKept ==
    ASSUME IInv, NEW i \in Ids, token[i].status # "consumed",
           token' \in [Ids -> Cyber!Token \cup {Cyber!Unissued}],
           \A j \in Ids \ {i} : token'[j] = token[j],
           UNCHANGED history,
           \A e \in Executors : Paying(exec'[e]) =>
                Paying(exec[e]) /\ exec'[e].paid = exec[e].paid /\ exec'[e].pos = exec[e].pos
    PROVE  PaymentsSound'
<1>1. \A e \in Executors : Paying(exec[e]) => token'[exec[e].paid] = token[exec[e].paid]
  BY TokenStep
<1>2. \A e \in Executors : Paying(exec'[e]) => PaymentSound(exec[e])'
  BY <1>1 DEF IInv, PaymentsSound, PaymentSound, history
<1>3. \A d, e \in Executors :
        d # e /\ Paying(exec'[d]) /\ Paying(exec'[e]) => exec'[d].paid # exec'[e].paid
  BY DEF IInv, PaymentsSound
<1>. QED
  BY <1>2, <1>3 DEF PaymentsSound

LEMMA AskStep ==
    ASSUME IInv, NEW e \in Executors, Ask(e)
    PROVE  IInv'
<1> DEFINE r == [exec[e] EXCEPT !.pc = "asked"]
<1>1. exec[e].pc = "check" /\ exec[e] # Idle
  BY DEF Ask, At, Idle
<1>2. exec[e] \in Run /\ RunSound(exec[e], succeeded) /\ Here(e) \in Steps
  BY <1>1, RunType DEF Stopped
<1>3. PICK i \in Ids : Cyber!Issue(i, Here(e))
  BY DEF Ask
<1>4. exec' = [exec EXCEPT ![e] = r] /\ UNCHANGED <<store, granted, bounds, history>>
  BY DEF Ask, Goto
<1>5. /\ r \in Run /\ r.mem = exec[e].mem /\ r.pc = "asked" /\ r.pos = exec[e].pos
      /\ r.done = exec[e].done /\ r.pending = exec[e].pending
  BY <1>2 DEF Run
<1> HIDE DEF r
<1>6. RunSound(r, succeeded) /\ ~Paying(r)
  BY <1>1, <1>2, <1>5 DEF RunSound, Stopped, Paying
<1>7. token \in [Ids -> Cyber!Token \cup {Cyber!Unissued}]
      /\ exec \in [Executors -> Run \cup {Idle}]
  BY DEF IInv, TypeOK, Cyber!TokenTypeOK
<1>8. /\ token[i].status # "consumed"
      /\ token' \in [Ids -> Cyber!Token \cup {Cyber!Unissued}]
      /\ \A j \in Ids \ {i} : token'[j] = token[j]
  BY <1>2, <1>3, <1>7 DEF Cyber!Issue, Cyber!Token, Cyber!Unissued, Calls
<1>9. exec'[e] = r /\ \A d \in Executors \ {e} : exec'[d] = exec[d]
  BY <1>4, <1>7
<1>10. Cyber!TokenTypeOK' /\ EveryEffectPaid'
  BY <1>4, <1>8, TokenStep
<1>11. PaymentsSound'
  BY <1>4, <1>6, <1>8, <1>9, PaymentsKept
<1>12. TypeOK'
  BY <1>4, <1>5, <1>7, <1>10 DEF IInv, TypeOK, bounds, history
<1>13. RunsSound'
  BY <1>4, <1>6, <1>9 DEF IInv, RunsSound, history
<1>. QED
  BY <1>4, <1>10, <1>11, <1>12, <1>13 DEF IInv, DependenciesFirst, history

LEMMA UserDecidesStep ==
    ASSUME IInv, UserDecides
    PROVE  IInv'
<1>1. PICK i \in Ids :
        \/ \E verdict \in {"approved", "denied"} : Cyber!Decide(i, verdict)
        \/ Cyber!Lapse(i)
  BY DEF UserDecides
<1>2. UNCHANGED <<store, exec, granted, bounds, history>>
  BY DEF UserDecides
<1>3. token[i].status \in {"pending", "approved"}
      /\ \E v \in {"approved", "denied", "expired", "consumed"} : Cyber!SetStatus(i, v)
  BY <1>1 DEF Cyber!Decide, Cyber!Lapse
<1>4. token \in [Ids -> Cyber!Token \cup {Cyber!Unissued}]
  BY DEF IInv, TypeOK, Cyber!TokenTypeOK
<1>5. /\ token[i].status # "consumed"
      /\ token' \in [Ids -> Cyber!Token \cup {Cyber!Unissued}]
      /\ \A j \in Ids \ {i} : token'[j] = token[j]
  BY <1>3, <1>4, TokenChanged
<1>6. Cyber!TokenTypeOK' /\ EveryEffectPaid'
  BY <1>2, <1>5, TokenStep
<1>7. PaymentsSound'
  BY <1>2, <1>5, PaymentsKept
<1>. QED
  BY <1>2, <1>6, <1>7 DEF IInv, TypeOK, RunsSound, DependenciesFirst, bounds, history

-----------------------------------------------------------------------------
\* Steps that act

\* What an effect costs: the approval of the run that acts, and no other.
LEMMA EffectCounted ==
    ASSUME IInv, NEW e \in Executors, exec[e].pc = "execute", CountEffect(e)
    PROVE  /\ effects' \in [Steps -> Nat] /\ sensitive' \in [Steps -> Nat]
           /\ \A s \in Steps \ {Here(e)} : effects'[s] = effects[s]
           /\ effects'[Here(e)] = effects[Here(e)] + 1
           /\ paidBy' \in [Steps -> SUBSET Ids]
           /\ \A s \in Steps : IsFiniteSet(paidBy'[s])
           /\ \A s \in Steps : paidBy'[s] \subseteq paidBy[s] \cup {exec[e].paid}
           /\ UNCHANGED token => EveryEffectPaid'
<1> DEFINE s == Here(e)
           p == exec[e].paid
<1>1. exec[e] \in Run /\ RunSound(exec[e], succeeded) /\ s \in Steps
      /\ Here(e) = Order[exec[e].pos]
  BY RunType DEF Stopped, Idle
<1>2. /\ effects \in [Steps -> Nat] /\ sensitive \in [Steps -> Nat]
      /\ paidBy \in [Steps -> SUBSET Ids]
      /\ \A t \in Steps : IsFiniteSet(paidBy[t]) /\ sensitive[t] = Cardinality(paidBy[t])
      /\ \A t \in Steps : \A j \in paidBy[t] :
            token[j].status = "consumed" /\ token[j].call = t
      /\ \A t, u \in Steps : t # u => paidBy[t] \cap paidBy[u] = {}
  BY DEF IInv, TypeOK, EveryEffectPaid
<1>3. effects' = [effects EXCEPT ![s] = @ + 1]
  BY DEF CountEffect
<1>4. /\ effects' \in [Steps -> Nat] /\ effects'[s] = effects[s] + 1
      /\ \A t \in Steps \ {s} : effects'[t] = effects[t]
  BY <1>1, <1>2, <1>3
<1>5. CASE ~Guarded(s)
  <2>1. UNCHANGED <<sensitive, paidBy>>
    BY <1>5 DEF CountEffect
  <2>2. UNCHANGED token => EveryEffectPaid'
    BY <2>1 DEF IInv, EveryEffectPaid
  <2> HIDE DEF s, p
  <2>3. \A t \in Steps : IsFiniteSet(paidBy'[t]) /\ paidBy'[t] \subseteq paidBy[t] \cup {p}
    BY <1>2, <2>1
  <2>4. sensitive' \in [Steps -> Nat] /\ paidBy' \in [Steps -> SUBSET Ids]
    BY <1>2, <2>1
  <2>. QED
    BY <1>4, <2>2, <2>3, <2>4 DEF s, p
<1>6. CASE Guarded(s)
  <2>1. sensitive' = [sensitive EXCEPT ![s] = sensitive[s] + 1]
        /\ paidBy' = [paidBy EXCEPT ![s] = paidBy[s] \cup ({p} \ {NoId})]
    BY <1>6 DEF CountEffect
  <2>2. p # NoId /\ p \in Ids
    BY <1>1, <1>6 DEF RunSound, Run
  <2>3. Paying(exec[e]) /\ PaymentSound(exec[e])
    BY <2>2 DEF IInv, PaymentsSound, Paying
  <2>4. token[p].status = "consumed" /\ token[p].call = s
        /\ \A t \in Steps : p \notin paidBy[t]
    BY <1>1, <2>3 DEF PaymentSound
  <2> HIDE DEF s, p
  <2>5. paidBy'[s] = paidBy[s] \cup {p} /\ \A t \in Steps \ {s} : paidBy'[t] = paidBy[t]
    BY <1>1, <1>2, <2>1, <2>2
  <2>6. sensitive'[s] = sensitive[s] + 1 /\ \A t \in Steps \ {s} : sensitive'[t] = sensitive[t]
    BY <1>1, <1>2, <2>1
  <2>7. sensitive' \in [Steps -> Nat] /\ paidBy' \in [Steps -> SUBSET Ids]
    BY <1>1, <1>2, <2>1, <2>2
  <2>8. IsFiniteSet(paidBy'[s]) /\ Cardinality(paidBy'[s]) = Cardinality(paidBy[s]) + 1
    <3>1. IsFiniteSet(paidBy[s]) /\ p \notin paidBy[s]
      BY <1>1, <1>2, <2>4 DEF s
    <3>2. /\ IsFiniteSet(paidBy[s] \cup {p})
          /\ Cardinality(paidBy[s] \cup {p}) = Cardinality(paidBy[s]) + 1
      BY <3>1, FS_AddElement
    <3>. QED
      BY <2>5, <3>2
  <2>9. \A t \in Steps : IsFiniteSet(paidBy'[t]) /\ sensitive'[t] = Cardinality(paidBy'[t])
    BY <1>1, <1>2, <2>5, <2>6, <2>8
  <2>10. \A t \in Steps : \A j \in paidBy'[t] :
            token[j].status = "consumed" /\ token[j].call = t
    <3> TAKE t \in Steps
    <3> TAKE j \in paidBy'[t]
    <3>1. j \in paidBy[t] \/ (t = s /\ j = p)
      BY <2>5
    <3>. QED
      BY <1>2, <2>4, <3>1
  <2>11. \A t, u \in Steps : t # u => paidBy'[t] \cap paidBy'[u] = {}
    <3>1. ASSUME NEW t \in Steps, NEW u \in Steps, t # u,
                 NEW j, j \in paidBy'[t], j \in paidBy'[u]
          PROVE  FALSE
      <4>1. (j \in paidBy[t] \/ (t = s /\ j = p)) /\ (j \in paidBy[u] \/ (u = s /\ j = p))
        BY <2>5, <3>1
      <4>. QED
        BY <1>2, <2>4, <3>1, <4>1
    <3>. QED
      BY <3>1
  <2>12. \A t \in Steps : paidBy'[t] \subseteq paidBy[t] \cup {p}
    BY <2>5
  <2>13. UNCHANGED token => EveryEffectPaid'
    BY <2>9, <2>10, <2>11 DEF EveryEffectPaid
  <2>. QED
    BY <1>4, <2>7, <2>9, <2>12, <2>13 DEF s, p
<1>. QED
  BY <1>5, <1>6

LEMMA ActStep ==
    ASSUME IInv, NEW e \in Executors, exec[e].pc = "execute", CountEffect(e),
           NEW pc \in {"done", "raised"},
           exec' = [exec EXCEPT ![e] = [exec[e] EXCEPT !.pc = pc]],
           succeeded \subseteq succeeded', succeeded' \subseteq Steps,
           pc = "done" => Here(e) \in succeeded',
           granted' \subseteq Executors, UNCHANGED <<store, token, bounds>>
    PROVE  IInv'
<1> DEFINE r == [exec[e] EXCEPT !.pc = pc]
<1>1. exec[e] \in Run /\ RunSound(exec[e], succeeded) /\ Here(e) \in Steps
      /\ Here(e) = Order[exec[e].pos] /\ exec \in [Executors -> Run \cup {Idle}]
  BY RunType DEF Stopped, Idle, IInv, TypeOK
<1>2. /\ r \in Run /\ r.mem = exec[e].mem /\ r.pc = pc /\ r.pos = exec[e].pos
      /\ r.done = exec[e].done /\ r.pending = exec[e].pending
  BY <1>1 DEF Run
<1> HIDE DEF r
<1>3. RunSound(r, succeeded') /\ ~Paying(r)
  BY <1>1, <1>2 DEF RunSound, Stopped, Paying
<1>4. exec'[e] = r /\ \A d \in Executors \ {e} : exec'[d] = exec[d]
  BY <1>1 DEF r
<1>5. /\ effects' \in [Steps -> Nat] /\ sensitive' \in [Steps -> Nat]
      /\ \A s \in Steps \ {Here(e)} : effects'[s] = effects[s]
      /\ paidBy' \in [Steps -> SUBSET Ids]
      /\ \A s \in Steps : IsFiniteSet(paidBy'[s])
      /\ \A s \in Steps : paidBy'[s] \subseteq paidBy[s] \cup {exec[e].paid}
      /\ EveryEffectPaid'
  BY EffectCounted
<1>6. TypeOK'
  <2>1. exec' \in [Executors -> Run \cup {Idle}]
    BY <1>1, <1>2 DEF r
  <2>. QED
    BY <1>5, <2>1 DEF IInv, TypeOK, Cyber!TokenTypeOK, bounds
<1>7. Honest(store', succeeded')
  BY DEF IInv, Honest
<1>8. RunsSound'
  <2>1. ASSUME NEW d \in Executors \ {e}, exec[d] # Idle
        PROVE  RunSound(exec[d], succeeded')
    BY <2>1 DEF IInv, RunsSound, RunSound
  <2>. QED
    BY <1>3, <1>4, <2>1 DEF RunsSound
<1>9. PaymentsSound'
  <2>1. ASSUME NEW d \in Executors, Paying(exec'[d])
        PROVE  /\ d # e /\ exec'[d] = exec[d] /\ Paying(exec[d])
               /\ exec[d].paid # NoId
               /\ \A s \in Steps : exec[d].paid \notin paidBy[s]
    BY <1>3, <1>4, <2>1 DEF IInv, PaymentsSound, PaymentSound, Paying
  <2>2. ASSUME NEW d \in Executors, Paying(exec'[d])
        PROVE  exec[d].paid # exec[e].paid
    BY <2>1, <2>2 DEF IInv, PaymentsSound, Paying
  <2>3. ASSUME NEW d \in Executors, Paying(exec'[d])
        PROVE  PaymentSound(exec[d])'
    <3>1. exec'[d] = exec[d] /\ PaymentSound(exec[d])
      BY <2>1, <2>3 DEF IInv, PaymentsSound
    <3>2. \A s \in Steps : exec[d].paid \notin paidBy'[s]
      BY <1>5, <2>1, <2>2, <2>3
    <3>. QED
      BY <3>1, <3>2 DEF PaymentSound
  <2>. QED
    BY <2>1, <2>3 DEF IInv, PaymentsSound
<1>10. DependenciesFirst'
  <2>1. DependsOn[Here(e)] \subseteq succeeded
    BY <1>1 DEF RunSound, Stopped
  <2>. QED
    BY <1>5, <2>1 DEF IInv, DependenciesFirst
<1>. QED
  BY <1>5, <1>6, <1>7, <1>8, <1>9, <1>10 DEF IInv

LEMMA ToolSucceedsStep ==
    ASSUME IInv, NEW e \in Executors, ToolSucceeds(e)
    PROVE  IInv'
<1>1. exec[e].pc = "execute" /\ CountEffect(e) /\ UNCHANGED <<store, token, bounds>>
      /\ exec' = [exec EXCEPT ![e] = [exec[e] EXCEPT !.pc = "done"]]
      /\ succeeded' = succeeded \cup {Here(e)}
  BY DEF ToolSucceeds, At, Goto
<1>2. Here(e) \in Steps /\ granted \subseteq Executors /\ succeeded \subseteq Steps
  BY <1>1, RunType DEF Stopped, Idle, IInv, TypeOK
<1>3. granted' \subseteq Executors
  BY <1>2 DEF ToolSucceeds
<1>. QED
  BY <1>1, <1>2, <1>3, ActStep

LEMMA ToolRaisesStep ==
    ASSUME IInv, NEW e \in Executors, ToolRaises(e)
    PROVE  IInv'
<1>1. exec[e].pc = "execute" /\ UNCHANGED <<store, token, granted, bounds, succeeded>>
      /\ exec' = [exec EXCEPT ![e] = [exec[e] EXCEPT !.pc = "raised"]]
  BY DEF ToolRaises, At, Goto
<1>2. succeeded \subseteq Steps /\ granted \subseteq Executors
  BY DEF IInv, TypeOK
<1>3. CASE CountEffect(e)
  BY <1>1, <1>2, <1>3, ActStep
<1>4. CASE UNCHANGED <<effects, sensitive, paidBy>>
  BY <1>1, <1>4, MoveStep DEF history
<1>. QED
  BY <1>3, <1>4 DEF ToolRaises

-----------------------------------------------------------------------------

LEMMA InitIInv == Init => IInv
<1> SUFFICES ASSUME Init PROVE IInv
  OBVIOUS
<1>1. TypeOK
  BY DEF Init, TypeOK, Plan, PlanStates, StepStates, Cyber!TokenInit, Cyber!TokenTypeOK
<1>2. Honest(store, succeeded)
  BY DEF Init, Honest
<1>3. RunsSound /\ PaymentsSound
  BY DEF Init, RunsSound, PaymentsSound, Paying, Idle
<1>4. \A s \in Steps : paidBy[s] = {} /\ IsFiniteSet(paidBy[s]) /\ Cardinality(paidBy[s]) = 0
  BY FS_EmptySet DEF Init
<1>5. EveryEffectPaid
  BY <1>4 DEF Init, EveryEffectPaid
<1>6. DependenciesFirst
  BY DEF Init, DependenciesFirst
<1>. QED
  BY <1>1, <1>2, <1>3, <1>4, <1>5, <1>6 DEF IInv

LEMMA StutterStep ==
    ASSUME IInv, UNCHANGED vars
    PROVE  IInv'
<1>. USE DEF IInv, vars, bounds, history
<1>1. TypeOK'
  BY DEF TypeOK, Cyber!TokenTypeOK
<1>2. RunsSound' /\ PaymentsSound'
  BY DEF RunsSound, PaymentsSound, PaymentSound
<1>. QED
  BY <1>1, <1>2 DEF EveryEffectPaid, DependenciesFirst

LEMMA NextIInv == IInv /\ [Next]_vars => IInv'
<1> SUFFICES ASSUME IInv, [Next]_vars PROVE IInv'
  OBVIOUS
<1>1. ASSUME NEW e \in Executors, ExecutorStep(e) PROVE IInv'
  BY <1>1, BeginStep, VisitStep, EndPassStep, UnresolvedStep, ConsumeStep, ClearStep,
     AskStep, ToolSucceedsStep, ToolRaisesStep, AwaitStep, FailStep, CompleteStep,
     PauseStep DEF ExecutorStep
<1>2. ASSUME NEW e \in Executors,
             \/ \E limit \in Limits : Load(e, limit)
             \/ Exit(e) \/ Crash(e)
      PROVE  IInv'
  BY <1>2, LoadStep, LeaveSteps
<1>. QED
  BY <1>1, <1>2, UserDecidesStep, StutterStep DEF Next

LEMMA Invariance == Spec => []IInv
<1>. QED
  BY InitIInv, NextIInv, PTL DEF Spec

-----------------------------------------------------------------------------

\* The row, the runs, the approvals and the ledger of effects keep their types
\* through every interleaving of executors, crashes and decisions of the user.
THEOREM TypeCorrect == Spec => []TypeOK
<1>1. IInv => TypeOK
  BY DEF IInv
<1>. QED
  BY <1>1, Invariance, PTL

\* Each guarded effect has an approval of its own, issued for that step and
\* consumed by the store, however many executors run the plan and however
\* often they crash between the spending and the effect.
THEOREM EffectsArePaid == Spec => []EveryEffectPaid
<1>1. IInv => EveryEffectPaid
  BY DEF IInv
<1>. QED
  BY <1>1, Invariance, PTL

\* A tool acts only when the tools of every step it depends on have returned,
\* in this run or an earlier one, in this executor or another.
THEOREM DependenciesActFirst == Spec => []DependenciesFirst
<1>1. IInv => DependenciesFirst
  BY DEF IInv
<1>. QED
  BY <1>1, Invariance, PTL

\* Executors overwrite each other's row, which may lose completed steps but
\* never claims one that did not return, nor a plan whose steps are not all
\* completed.
THEOREM CompletionIsHonest == Spec => []CompletionHonest
<1>1. IInv => CompletionHonest
  BY DEF IInv, Honest, CompletionHonest
<1>. QED
  BY <1>1, Invariance, PTL

-----------------------------------------------------------------------------
\* One executor: a step that has acted is left alone, unless the record is lost

LEMMA RepeatsKept ==
    ASSUME IInv, NEW e \in Executors, RepeatsExplained(e), UNCHANGED effects,
           \/ UNCHANGED crashes /\ \A s \in Steps : Acted(e, s) => Acted(e, s)'
           \/ crashes' = crashes + 1
    PROVE  RepeatsExplained(e)'
<1>1. effects \in [Steps -> Nat] /\ crashes \in Nat
  BY TaskAssumption DEF IInv, TypeOK
<1>2. ASSUME NEW s \in Steps
      PROVE  effects[s] <= crashes' + (IF Acted(e, s)' THEN 1 ELSE 0)
  <2>1. effects[s] <= crashes + (IF Acted(e, s) THEN 1 ELSE 0) /\ effects[s] \in Nat
    BY <1>1 DEF RepeatsExplained
  <2>2. CASE crashes' = crashes + 1
    BY <1>1, <2>1, <2>2
  <2>3. CASE UNCHANGED crashes /\ (Acted(e, s) => Acted(e, s)')
    BY <1>1, <2>1, <2>3
  <2>. QED
    BY <2>2, <2>3
<1>. QED
  BY <1>2 DEF RepeatsExplained

\* The steps a plan in progress or a stored one records, after a step that
\* changes the plan for one of them only.
LEMMA RecordKept ==
    ASSUME NEW e \in Executors, NEW plan,
           \/ exec'[e] # Idle /\ exec'[e].mem = plan
           \/ exec'[e] = Idle /\ store' = plan,
           \A s \in Steps : Acted(e, s) => ActedIn(plan, s)
    PROVE  \A s \in Steps : Acted(e, s) => Acted(e, s)'
<1>1. ASSUME NEW s \in Steps, ActedIn(plan, s)
      PROVE  Acted(e, s)'
  BY <1>1 DEF Acted, ActedOf, ActedIn
<1>. QED
  BY <1>1

LEMMA VisitRepeats ==
    ASSUME IInv, NEW e \in Executors, Visit(e)
    PROVE  \A s \in Steps : Acted(e, s) => Acted(e, s)'
<1> DEFINE k == CHOOSE j \in Stops(exec[e]) : \A l \in Stops(exec[e]) : j <= l
           s == Order[k]
           plan == exec[e].mem
           cancelled == IF FailedStep(plan, s) THEN plan ELSE Marked(plan, s, "cancelled")
           r == [exec[e] EXCEPT !.mem = Started(plan, s), !.pos = k,
                                !.pending = TRUE, !.pc = "invoke"]
<1>1. exec[e].pc = "scan" /\ exec[e] # Idle /\ Stops(exec[e]) # {}
  BY DEF Visit, At, Idle
<1>2. exec[e] \in Run /\ plan \in Plan /\ exec \in [Executors -> Run \cup {Idle}]
  BY <1>1, RunType DEF IInv, TypeOK
<1>3. \/ /\ Doomed(plan, s)
         /\ store' = Stated(cancelled, "failed") /\ exec' = [exec EXCEPT ![e] = Idle]
      \/ /\ ~Doomed(plan, s)
         /\ store' = Started(plan, s) /\ exec' = [exec EXCEPT ![e] = r]
  BY DEF Visit, Goto, Persist
<1>4. k \in Stops(exec[e])
  <2>1. Stops(exec[e]) \subseteq Nat
    BY <1>2 DEF Stops, Run
  <2>2. \E j \in Stops(exec[e]) : \A l \in Stops(exec[e]) : j <= l
    BY <1>1, <2>1, Least
  <2>. QED
    BY <2>2
<1> HIDE DEF k
<1>5. k \in 1..Len(Order) /\ s \in Steps /\ ~Skipped(plan, s)
  BY <1>2, <1>4, Positions DEF Stops, Run
<1>6. plan.steps[s] # "completed"
  BY <1>5 DEF Skipped
<1>7. \A t \in Steps : Acted(e, t) => ActedIn(plan, t)
  BY <1>1 DEF Acted, ActedOf
<1> HIDE DEF s, plan
<1>8. CASE Doomed(plan, s)
  <2> DEFINE marked == Marked(plan, s, "cancelled")
             failed == Stated(cancelled, "failed")
  <2>1. marked \in Plan /\ \A t \in Steps \ {s} : marked.steps[t] = plan.steps[t]
    BY <1>2, <1>5, MarkedPlan DEF StepStates
  <2>2. cancelled \in Plan /\ (FailedStep(plan, s) => cancelled = plan)
        /\ (~FailedStep(plan, s) => cancelled = marked)
    BY <1>2, <2>1
  <2> HIDE DEF cancelled, marked
  <2>3. failed.steps = cancelled.steps
    BY <2>2, StatedPlan DEF PlanStates
  <2> HIDE DEF failed
  <2>4. \A t \in Steps : ActedIn(plan, t) => ActedIn(failed, t)
    BY <1>6, <2>1, <2>2, <2>3 DEF ActedIn, FailedStep
  <2>. QED
    BY <1>2, <1>3, <1>7, <1>8, <2>4, RecordKept DEF failed
<1>9. CASE ~Doomed(plan, s)
  <2> DEFINE started == Started(plan, s)
  <2>1. \A t \in Steps \ {s} : started.steps[t] = plan.steps[t]
    BY <1>2, <1>5, MarkedPlan DEF StepStates, Started
  <2>2. r.mem = started /\ r # Idle
    BY <1>2 DEF Run, Idle
  <2> HIDE DEF started, r
  <2>3. \A t \in Steps : ActedIn(plan, t) => ActedIn(started, t)
    BY <1>6, <1>9, <2>1 DEF ActedIn, Doomed, FailedStep
  <2>. QED
    BY <1>2, <1>3, <1>7, <1>9, <2>2, <2>3, RecordKept DEF started
<1>. QED
  BY <1>8, <1>9

\* The run moves on, and its plan keeps its steps.
LEMMA MoveRepeats ==
    ASSUME IInv, NEW e \in Executors,
           Begin(e) \/ Unresolved(e) \/ Consume(e) \/ Clear(e) \/ Ask(e)
    PROVE  \A s \in Steps : Acted(e, s) => Acted(e, s)'
<1>1. exec[e].pc \in {"loaded", "invoke", "check"} /\ exec[e] # Idle
  <2>1. exec[e].pc \in {"loaded", "invoke", "check"}
    BY DEF Begin, Unresolved, Consume, Clear, Ask, At
  <2>. QED
    BY <2>1 DEF Idle
<1>2. exec[e] \in Run /\ exec[e].mem \in Plan /\ exec \in [Executors -> Run \cup {Idle}]
  BY <1>1, RunType DEF IInv, TypeOK
<1>3. exec'[e] # Idle /\ exec'[e].mem.steps = exec[e].mem.steps
  <2>1. CASE Begin(e)
    <3> DEFINE plan == Stated(exec[e].mem, "running")
    <3>1. plan.steps = exec[e].mem.steps
      BY <1>2, StatedPlan DEF PlanStates
    <3> HIDE DEF plan
    <3>2. exec'[e] = [exec[e] EXCEPT !.mem = plan, !.pc = "scan"]
      BY <1>2, <2>1 DEF Begin, Goto, plan
    <3>. QED
      BY <1>2, <3>1, <3>2 DEF Run, Idle
  <2>2. CASE Unresolved(e) \/ Clear(e) \/ Ask(e)
    <3>1. \E pc \in {"raised", "execute", "asked"} : exec'[e] = [exec[e] EXCEPT !.pc = pc]
      BY <1>2, <2>2 DEF Unresolved, Clear, Ask, Goto
    <3>. QED
      BY <1>2, <3>1 DEF Run, Idle
  <2>3. CASE Consume(e)
    <3>1. \E p \in exec[e].known \cup {NoId} :
            exec'[e] = [exec[e] EXCEPT !.pc = "check", !.paid = p]
      BY <1>2, <2>3 DEF Consume, Goto
    <3>. QED
      BY <1>2, <3>1 DEF Run, Idle
  <2>. QED
    BY <2>1, <2>2, <2>3
<1>. QED
  BY <1>1, <1>3 DEF Acted, ActedOf, ActedIn

LEMMA LoadRepeats ==
    ASSUME IInv, NEW e \in Executors, NEW limit \in Limits, Load(e, limit)
    PROVE  \A s \in Steps : Acted(e, s) => Acted(e, s)'
<1>1. exec[e] = Idle /\ exec'[e] # Idle /\ exec'[e].mem = store
  BY DEF IInv, TypeOK, Load, Goto, Idle
<1>. QED
  BY <1>1, RecordKept DEF Acted, ActedOf

LEMMA EndPassRepeats ==
    ASSUME IInv, NEW e \in Executors, EndPass(e) \/ Pause(e)
    PROVE  \A s \in Steps : Acted(e, s) => Acted(e, s)'
<1>1. exec[e].pc \in {"scan", "limit"} /\ exec[e] # Idle
  BY DEF EndPass, Pause, At, Idle
<1>2. exec[e] \in Run /\ exec[e].mem \in Plan /\ exec \in [Executors -> Run \cup {Idle}]
  BY <1>1, RunType DEF IInv, TypeOK
<1>3. \/ exec'[e] = NewPass(exec[e])
      \/ \E v \in PlanStates : exec'[e] = Idle /\ store' = Stated(exec[e].mem, v)
  BY <1>2 DEF EndPass, Pause, Paused, Goto, Persist, PlanStates
<1>4. CASE exec'[e] = NewPass(exec[e])
  BY <1>1, <1>2, <1>4, NewPassOf DEF Acted, ActedOf, ActedIn, Idle
<1>5. ASSUME NEW v \in PlanStates, exec'[e] = Idle, store' = Stated(exec[e].mem, v)
      PROVE  \A s \in Steps : Acted(e, s) => Acted(e, s)'
  <2>1. store'.steps = exec[e].mem.steps
    BY <1>2, <1>5, StatedPlan
  <2>. QED
    BY <1>1, <1>5, <2>1 DEF Acted, ActedOf, ActedIn
<1>. QED
  BY <1>3, <1>4, <1>5

\* The outcome of the step is written into the plan.
LEMMA OutcomeRepeats ==
    ASSUME IInv, NEW e \in Executors, Await(e) \/ Fail(e) \/ Complete(e)
    PROVE  \A s \in Steps : Acted(e, s) => Acted(e, s)'
<1> DEFINE step == Here(e)
           mem == exec[e].mem
           v == IF exec[e].pc = "asked" THEN "awaiting_approval"
                ELSE IF exec[e].pc = "raised" THEN "failed" ELSE "completed"
           marked == Marked(mem, step, v)
<1>1. exec[e].pc \in {"asked", "raised", "done"} /\ exec[e] # Idle
  BY DEF Await, Fail, Complete, At, Idle
<1>2. exec[e] \in Run /\ mem \in Plan /\ exec \in [Executors -> Run \cup {Idle}]
      /\ step \in Steps /\ step = Order[exec[e].pos] /\ mem.steps[step] = "running"
  BY <1>1, RunType DEF IInv, TypeOK, Stopped, RunSound
<1>3. /\ marked \in Plan /\ marked.steps[step] = v
      /\ \A t \in Steps \ {step} : marked.steps[t] = mem.steps[t]
  <2>1. v \in StepStates
    BY DEF StepStates
  <2>. QED
    BY <1>2, <2>1, MarkedPlan
<1>4. \E plan : /\ plan.steps = marked.steps
                /\ \/ exec'[e] # Idle /\ exec'[e].mem = plan
                   \/ exec'[e] = Idle /\ store' = plan
  <2>1. CASE Await(e)
    <3>1. exec'[e] = Idle /\ store' = Stated(marked, "awaiting_approval")
      BY <1>2, <2>1 DEF Await, At, Goto, Persist, Waiting
    <3> HIDE DEF marked
    <3>2. store'.steps = marked.steps
      BY <1>3, <3>1, StatedPlan DEF PlanStates
    <3>. QED
      BY <3>1, <3>2
  <2>2. CASE Fail(e)
    <3>1. exec'[e] = Idle /\ store' = Stated(marked, "failed")
      BY <1>2, <2>2 DEF Fail, At, Goto, Persist
    <3> HIDE DEF marked
    <3>2. store'.steps = marked.steps
      BY <1>3, <3>1, StatedPlan DEF PlanStates
    <3>. QED
      BY <3>1, <3>2
  <2>3. CASE Complete(e)
    <3>1. marked = Marked(exec[e].mem, Here(e), "completed")
      BY <2>3 DEF Complete, At
    <3> HIDE DEF marked
    <3>2. \E done, pc : exec'[e] = [exec[e] EXCEPT !.mem = marked, !.done = done,
              !.progress = TRUE, !.paid = NoId, !.pos = @ + 1, !.pc = pc]
              /\ pc \in {"limit", "scan"}
      BY <1>2, <2>3, <3>1 DEF Complete, Goto
    <3>3. exec'[e].mem = marked /\ exec'[e].pc \in {"limit", "scan"}
      BY <1>2, <3>2 DEF Run
    <3>. QED
      BY <3>3 DEF Idle
  <2>. QED
    BY <2>1, <2>2, <2>3
<1> HIDE DEF marked
<1>5. PICK plan : /\ plan.steps = marked.steps
                  /\ \/ exec'[e] # Idle /\ exec'[e].mem = plan
                     \/ exec'[e] = Idle /\ store' = plan
  BY <1>4
<1>6. \A t \in Steps : Acted(e, t) => ActedIn(plan, t)
  BY <1>1, <1>2, <1>3, <1>5 DEF Acted, ActedOf, ActedIn
<1> HIDE DEF step, mem, v
<1>. QED
  BY <1>5, <1>6, RecordKept

\* The step acts for the first time in this run: it was not recorded before.
LEMMA ActRepeats ==
    ASSUME IInv, NEW e \in Executors, RepeatsExplained(e),
           ToolSucceeds(e) \/ ToolRaises(e)
    PROVE  RepeatsExplained(e)'
<1>1. exec[e].pc = "execute" /\ exec[e] # Idle
  BY DEF ToolSucceeds, ToolRaises, At, Idle
<1>2. exec[e] \in Run /\ RunSound(exec[e], succeeded) /\ Here(e) \in Steps
      /\ Here(e) = Order[exec[e].pos] /\ exec \in [Executors -> Run \cup {Idle}]
  BY <1>1, RunType DEF IInv, TypeOK, Stopped
<1>3. effects \in [Steps -> Nat] /\ crashes \in Nat
  BY DEF IInv, TypeOK
<1>4. PICK pc \in {"done", "raised"} : exec'[e] = [exec[e] EXCEPT !.pc = pc]
  BY <1>2 DEF ToolSucceeds, ToolRaises, Goto
<1>5. /\ exec'[e].mem = exec[e].mem /\ exec'[e].pos = exec[e].pos
      /\ exec'[e].pc \in {"done", "raised"} /\ exec'[e] # Idle
  BY <1>2, <1>4 DEF Run, Idle
<1> DEFINE before(s) == ActedOf(exec[e], store, s)
           after(s) == ActedOf(exec'[e], store', s)
<1>6. \A s \in Steps : /\ before(s) => after(s)
                       /\ s = Here(e) => ~before(s) /\ after(s)
  <2>1. exec[e].mem.steps[Here(e)] = "running"
    BY <1>1, <1>2 DEF RunSound, Stopped
  <2>2. \A s \in Steps : before(s) <=> ActedIn(exec[e].mem, s)
    BY <1>1 DEF ActedOf
  <2>3. \A s \in Steps : after(s) <=> ActedIn(exec[e].mem, s) \/ s = Here(e)
    BY <1>2, <1>5 DEF ActedOf
  <2>. QED
    BY <2>1, <2>2, <2>3 DEF ActedIn
<1> HIDE DEF before, after
<1>7. UNCHANGED crashes
  BY DEF ToolSucceeds, ToolRaises, bounds
<1>8. CASE CountEffect(e)
  <2>1. effects'[Here(e)] = effects[Here(e)] + 1
        /\ \A s \in Steps \ {Here(e)} : effects'[s] = effects[s]
    BY <1>1, <1>8, EffectCounted
  <2>2. ASSUME NEW s \in Steps
        PROVE  effects'[s] <= crashes' + (IF after(s) THEN 1 ELSE 0)
    <3>1. effects[s] <= crashes + (IF before(s) THEN 1 ELSE 0) /\ effects[s] \in Nat
      BY <1>3 DEF RepeatsExplained, Acted, before
    <3>2. CASE s = Here(e)
      <4>1. ~before(s) /\ after(s)
        BY <1>6, <3>2
      <4>2. effects'[s] = effects[s] + 1
        BY <2>1, <3>2
      <4>. QED
        BY <1>3, <1>7, <3>1, <4>1, <4>2
    <3>3. CASE s # Here(e)
      <4>1. before(s) => after(s)
        BY <1>6
      <4>2. effects'[s] = effects[s]
        BY <2>1, <3>3
      <4>. QED
        BY <1>3, <1>7, <3>1, <4>1, <4>2
    <3>. QED
      BY <3>2, <3>3
  <2>. QED
    BY <2>2 DEF RepeatsExplained, Acted, ActedOf, after
<1>9. CASE UNCHANGED effects
  <2>1. \A s \in Steps : Acted(e, s) => Acted(e, s)'
    BY <1>6 DEF Acted, ActedOf, before, after
  <2>. QED
    BY <1>7, <1>9, <2>1, RepeatsKept
<1>. QED
  BY <1>8, <1>9 DEF ToolSucceeds, ToolRaises

LEMMA InitRepeats ==
    ASSUME Init, NEW e \in Executors
    PROVE  RepeatsExplained(e)
  BY DEF Init, RepeatsExplained, Acted, ActedOf, ActedIn

LEMMA NextRepeats ==
    ASSUME NEW CONSTANT e, Executors = {e}, IInv, RepeatsExplained(e), [Next]_vars
    PROVE  RepeatsExplained(e)'
<1>1. CASE \/ Begin(e) \/ Visit(e) \/ EndPass(e) \/ Unresolved(e) \/ Consume(e)
           \/ Clear(e) \/ Ask(e) \/ Await(e) \/ Fail(e) \/ Complete(e) \/ Pause(e)
           \/ \E limit \in Limits : Load(e, limit)
  <2>1. UNCHANGED <<effects, crashes>>
    BY <1>1 DEF Begin, Visit, EndPass, Unresolved, Consume, Clear, Ask, Await, Fail,
                Complete, Pause, Load, bounds, history
  <2>2. \A s \in Steps : Acted(e, s) => Acted(e, s)'
    BY <1>1, MoveRepeats, VisitRepeats, EndPassRepeats, OutcomeRepeats, LoadRepeats
  <2>. QED
    BY <2>1, <2>2, RepeatsKept
<1>2. CASE ToolSucceeds(e) \/ ToolRaises(e)
  BY <1>2, ActRepeats
<1>3. CASE Crash(e)
  BY <1>3, RepeatsKept DEF Crash, history
<1>4. CASE Exit(e) \/ UserDecides \/ UNCHANGED vars
  <2>1. UNCHANGED <<exec, store, effects, crashes>>
    BY <1>4 DEF Exit, UserDecides, vars, bounds, history
  <2>2. \A s \in Steps : Acted(e, s) => Acted(e, s)'
    BY <2>1 DEF Acted, ActedOf, ActedIn
  <2>. QED
    BY <2>1, <2>2, RepeatsKept
<1>. QED
  BY <1>1, <1>2, <1>3, <1>4 DEF Next, ExecutorStep

\* With a single executor, a tool acts a second time on the same step only
\* after a crash lost the record of the first: execute never goes back to a
\* step that it, or the plan it loaded, knows to have acted. Two executors
\* that load the same row need no crash, hence the assumption.
THEOREM RepeatsNeedCrashes ==
    ASSUME NEW CONSTANT e, Executors = {e}
    PROVE  Spec => []RepeatNeedsCrash
<1>1. Init => RepeatsExplained(e)
  BY InitRepeats
<1>2. IInv /\ RepeatsExplained(e) /\ [Next]_vars => RepeatsExplained(e)'
  BY NextRepeats
<1>3. IInv /\ RepeatsExplained(e) => RepeatNeedsCrash
  <2> SUFFICES ASSUME IInv, RepeatsExplained(e), NEW s \in Steps
               PROVE  effects[s] <= 1 + crashes
    BY DEF RepeatNeedsCrash
  <2>1. effects[s] \in Nat /\ crashes \in Nat
    BY DEF IInv, TypeOK
  <2>. QED
    BY <2>1 DEF RepeatsExplained
<1>. QED
  BY <1>1, <1>2, <1>3, Invariance, PTL DEF Spec

-----------------------------------------------------------------------------
\* The approvals

\* Whatever a step does to the approvals, the approval store promises it.
LEMMA TokenSteps ==
    ASSUME IInv, [Next]_vars
    PROVE  [Cyber!TokenNext]_token
<1>1. ASSUME NEW e \in Executors, Consume(e)
      PROVE  [Cyber!TokenNext]_token
  <2>1. exec[e].pc = "invoke" /\ exec[e] # Idle
    BY <1>1 DEF Consume, At, Idle
  <2>2. Here(e) \in Calls /\ exec[e].known \subseteq Ids
    BY <2>1, RunType DEF Stopped, Calls, Run
  <2>3. PICK i \in exec[e].known \cup {NoId} :
            IF i # NoId /\ Cyber!Spendable(i, Here(e))
            THEN Cyber!Spend(i, Here(e)) ELSE UNCHANGED token
    BY <1>1 DEF Consume
  <2>4. CASE i # NoId /\ Cyber!Spendable(i, Here(e))
    <3>1. i \in Ids /\ Cyber!Spend(i, Here(e))
      BY <2>2, <2>3, <2>4
    <3>. QED
      BY <2>2, <3>1 DEF Cyber!TokenNext
  <2>. QED
    BY <2>3, <2>4
<1>2. ASSUME NEW e \in Executors, Ask(e)
      PROVE  [Cyber!TokenNext]_token
  <2>1. exec[e].pc = "check" /\ exec[e] # Idle
    BY <1>2 DEF Ask, At, Idle
  <2>2. Here(e) \in Calls
    BY <2>1, RunType DEF Stopped, Calls
  <2>3. PICK i \in Ids : Cyber!Issue(i, Here(e))
    BY <1>2 DEF Ask
  <2>. QED
    BY <2>2, <2>3 DEF Cyber!TokenNext
<1>3. CASE UserDecides
  <2>1. PICK i \in Ids : \/ \E verdict \in {"approved", "denied"} : Cyber!Decide(i, verdict)
                         \/ Cyber!Lapse(i)
    BY <1>3 DEF UserDecides
  <2>. QED
    BY <2>1 DEF Cyber!TokenNext
<1>4. ASSUME NEW e \in Executors,
             \/ \E limit \in Limits : Load(e, limit)
             \/ Begin(e) \/ Visit(e) \/ EndPass(e) \/ Unresolved(e) \/ Clear(e)
             \/ ToolSucceeds(e) \/ ToolRaises(e)
             \/ Await(e) \/ Fail(e) \/ Complete(e) \/ Pause(e)
             \/ Exit(e) \/ Crash(e)
      PROVE  UNCHANGED token
  BY <1>4 DEF Load, Begin, Visit, EndPass, Unresolved, Clear, ToolSucceeds, ToolRaises,
     Await, Fail, Complete, Pause, Exit, Crash
<1>5. CASE UNCHANGED vars
  BY <1>5 DEF vars
<1>. QED
  <2>1. CASE Next
    <3>1. CASE \E e \in Executors : (\E limit \in Limits : Load(e, limit))
                                    \/ ExecutorStep(e) \/ Exit(e) \/ Crash(e)
      <4>1. PICK e \in Executors : (\E limit \in Limits : Load(e, limit))
                                   \/ ExecutorStep(e) \/ Exit(e) \/ Crash(e)
        BY <3>1
      <4>. QED
        BY <1>1, <1>2, <1>4, <4>1 DEF ExecutorStep
    <3>. QED
      BY <1>3, <2>1, <3>1 DEF Next
  <2>. QED
    BY <1>5, <2>1

\* The executor asks for, spends and lets lapse its approvals only in ways the
\* approval store promises (ApprovalToken, which Approvals implements): an
\* approval is issued for one step, decided once and spent at most once, by a
\* call for that step, whatever executors race, crash or start again.
THEOREM TasksUseTokens == Spec => Cyber!TokenSpec
<1>1. Init => Cyber!TokenInit
  BY DEF Init
<1>2. IInv /\ [Next]_vars => [Cyber!TokenNext]_token
  BY TokenSteps
<1>. QED
  BY <1>1, <1>2, Invariance, PTL DEF Spec, Cyber!TokenSpec

-----------------------------------------------------------------------------
\* With one executor, the stored plan only moves forward

KeepsCompleted(old, new) ==
    \A s \in Steps : old.steps[s] = "completed" => new.steps[s] = "completed"

Forward(old, new) ==
    /\ KeepsCompleted(old, new)
    /\ ~Runnable(old) => new = old

\* The copy a run works on is not behind the row, and the row is not finished.
RowFollows(e) ==
    exec[e] # Idle => Runnable(store) /\ KeepsCompleted(store, exec[e].mem)

LEMMA MarkedKeeps ==
    ASSUME NEW plan \in Plan, NEW s \in Steps, NEW v \in StepStates,
           plan.steps[s] # "completed" \/ v = "completed"
    PROVE  LET marked == Marked(plan, s, v) IN
           marked \in Plan /\ marked.state = plan.state /\ KeepsCompleted(plan, marked)
<1>1. PICK marked : marked = Marked(plan, s, v)
  OBVIOUS
<1>2. /\ marked \in Plan /\ marked.state = plan.state /\ marked.steps[s] = v
      /\ \A t \in Steps \ {s} : marked.steps[t] = plan.steps[t]
  BY <1>1, MarkedPlan
<1>3. KeepsCompleted(plan, marked)
  BY <1>2 DEF KeepsCompleted
<1>. QED
  BY <1>1, <1>2, <1>3

\* A run writes the row, with all its copy has completed.
LEMMA WriteForward ==
    ASSUME NEW e \in Executors, RowFollows(e), exec[e] # Idle, NEW plan,
           KeepsCompleted(exec[e].mem, plan), store' = plan,
           exec'[e] = Idle \/ (exec'[e].mem = plan /\ Runnable(plan))
    PROVE  RowFollows(e)' /\ Forward(store, store')
  BY DEF RowFollows, Forward, KeepsCompleted

\* Or it leaves the row alone.
LEMMA LeaveForward ==
    ASSUME NEW e \in Executors, RowFollows(e), UNCHANGED store,
           \/ exec'[e] = Idle
           \/ exec[e] # Idle /\ exec'[e].mem = exec[e].mem
    PROVE  RowFollows(e)' /\ Forward(store, store')
  BY DEF RowFollows, Forward, KeepsCompleted

LEMMA MoveForward ==
    ASSUME IInv, NEW e \in Executors, RowFollows(e),
           \/ Unresolved(e) \/ Consume(e) \/ Clear(e) \/ Ask(e)
           \/ ToolSucceeds(e) \/ ToolRaises(e)
    PROVE  RowFollows(e)' /\ Forward(store, store')
<1>1. exec[e].pc \in {"invoke", "check", "execute"} /\ exec[e] # Idle
  <2>1. exec[e].pc \in {"invoke", "check", "execute"}
    BY DEF Unresolved, Consume, Clear, Ask, ToolSucceeds, ToolRaises, At
  <2>. QED
    BY <2>1 DEF Idle
<1>2. exec[e] \in Run /\ exec \in [Executors -> Run \cup {Idle}]
  BY <1>1, RunType DEF IInv, TypeOK
<1>3. exec'[e].mem = exec[e].mem
  <2>1. CASE Consume(e)
    <3>1. \E p \in exec[e].known \cup {NoId} :
            exec'[e] = [exec[e] EXCEPT !.pc = "check", !.paid = p]
      BY <1>2, <2>1 DEF Consume, Goto
    <3>. QED
      BY <1>2, <3>1 DEF Run
  <2>2. CASE Unresolved(e) \/ Clear(e) \/ Ask(e) \/ ToolSucceeds(e) \/ ToolRaises(e)
    <3>1. \E pc \in {"raised", "execute", "asked", "done"} :
            exec'[e] = [exec[e] EXCEPT !.pc = pc]
      BY <1>2, <2>2 DEF Unresolved, Clear, Ask, ToolSucceeds, ToolRaises, Goto
    <3>. QED
      BY <1>2, <3>1 DEF Run
  <2>. QED
    BY <2>1, <2>2
<1>4. UNCHANGED store
  BY DEF Unresolved, Consume, Clear, Ask, ToolSucceeds, ToolRaises
<1>. QED
  BY <1>1, <1>3, <1>4, LeaveForward

LEMMA BeginForward ==
    ASSUME IInv, NEW e \in Executors, RowFollows(e), Begin(e)
    PROVE  RowFollows(e)' /\ Forward(store, store')
<1>1. exec[e] # Idle
  BY DEF Begin, At, Idle
<1>2. exec[e] \in Run /\ exec[e].mem \in Plan /\ exec \in [Executors -> Run \cup {Idle}]
  BY <1>1, RunType DEF IInv, TypeOK
<1>3. PICK plan : plan = Stated(exec[e].mem, "running")
  OBVIOUS
<1>4. plan.state = "running" /\ plan.steps = exec[e].mem.steps
  BY <1>2, <1>3, StatedPlan DEF PlanStates
<1>5. store' = plan /\ exec'[e] = [exec[e] EXCEPT !.mem = plan, !.pc = "scan"]
  BY <1>2, <1>3 DEF Begin, Goto, Persist
<1>6. exec'[e].mem = plan
  BY <1>2, <1>5 DEF Run
<1>7. KeepsCompleted(exec[e].mem, plan) /\ Runnable(plan)
  BY <1>4 DEF KeepsCompleted, Runnable
<1>. QED
  BY <1>1, <1>5, <1>6, <1>7, WriteForward

\* The steps the loop meets and marks were not completed.
LEMMA VisitForward ==
    ASSUME IInv, NEW e \in Executors, RowFollows(e), Visit(e)
    PROVE  RowFollows(e)' /\ Forward(store, store')
<1> DEFINE run == exec[e]
           k == CHOOSE j \in Stops(run) : \A l \in Stops(run) : j <= l
           s == Order[k]
           mem == run.mem
           cancelled == IF FailedStep(mem, s) THEN mem ELSE Marked(mem, s, "cancelled")
<1>1. run.pc = "scan" /\ run # Idle
  BY DEF Visit, At, Idle
<1>2. run \in Run /\ mem \in Plan /\ RunSound(run, succeeded)
      /\ exec \in [Executors -> Run \cup {Idle}]
  BY <1>1, RunType DEF IInv, TypeOK
<1>3. k \in Stops(run)
  <2>1. Stops(run) # {}
    BY DEF Visit
  <2>2. Stops(run) \subseteq Nat
    BY <1>2 DEF Stops, Run
  <2>3. \E j \in Stops(run) : \A l \in Stops(run) : j <= l
    BY <2>1, <2>2, Least
  <2>. QED
    BY <2>3
<1>4. k \in 1..Len(Order) /\ ~Skipped(mem, s)
  BY <1>2, <1>3, Positions DEF Stops, Run
<1> HIDE DEF k
<1>5. s \in Steps /\ mem.steps[s] # "completed" /\ mem.state = "running"
  BY <1>1, <1>2, <1>4, Positions DEF Skipped, RunSound
<1>6. CASE Doomed(mem, s)
  <2>1. exec'[e] = Idle /\ store' = Stated(cancelled, "failed")
    BY <1>2, <1>6 DEF Visit, Goto, Persist, k
  <2>2. cancelled \in Plan /\ KeepsCompleted(mem, cancelled)
    <3>1. "cancelled" \in StepStates /\ KeepsCompleted(mem, mem)
      BY DEF StepStates, KeepsCompleted
    <3> HIDE DEF s, mem
    <3>. QED
      BY <1>2, <1>5, <3>1, MarkedKeeps
  <2> HIDE DEF cancelled
  <2>3. store'.steps = cancelled.steps
    BY <2>1, <2>2, StatedPlan DEF PlanStates
  <2>4. KeepsCompleted(mem, store')
    BY <2>2, <2>3 DEF KeepsCompleted
  <2>. QED
    BY <1>1, <2>1, <2>4, WriteForward
<1>7. CASE ~Doomed(mem, s)
  <2>1. PICK plan : plan = Started(mem, s)
    OBVIOUS
  <2>2. plan.state = "running" /\ KeepsCompleted(mem, plan)
    <3>1. "running" \in StepStates /\ plan = Marked(mem, s, "running")
      BY <2>1 DEF Started, StepStates
    <3> HIDE DEF s, mem
    <3>. QED
      BY <1>2, <1>5, <3>1, MarkedKeeps
  <2>3. store' = plan /\ exec'[e] = [run EXCEPT !.mem = plan, !.pos = k,
                                                !.pending = TRUE, !.pc = "invoke"]
    BY <1>2, <1>7, <2>1 DEF Visit, Goto, Persist, k
  <2>4. exec'[e].mem = plan
    BY <1>2, <2>3 DEF Run
  <2>. QED
    BY <1>1, <2>2, <2>3, <2>4, WriteForward DEF Runnable
<1>. QED
  BY <1>6, <1>7

LEMMA EndPassForward ==
    ASSUME IInv, NEW e \in Executors, RowFollows(e), EndPass(e) \/ Pause(e)
    PROVE  RowFollows(e)' /\ Forward(store, store')
<1>1. exec[e].pc \in {"scan", "limit"} /\ exec[e] # Idle
  BY DEF EndPass, Pause, At, Idle
<1>2. exec[e] \in Run /\ exec[e].mem \in Plan /\ exec \in [Executors -> Run \cup {Idle}]
  BY <1>1, RunType DEF IInv, TypeOK
<1>3. \/ exec'[e] = NewPass(exec[e]) /\ UNCHANGED store
      \/ \E v \in PlanStates : exec'[e] = Idle /\ store' = Stated(exec[e].mem, v)
  BY <1>2 DEF EndPass, Pause, Paused, Goto, Persist, PlanStates
<1>4. CASE exec'[e] = NewPass(exec[e]) /\ UNCHANGED store
  BY <1>1, <1>2, <1>4, NewPassOf, LeaveForward
<1>5. ASSUME NEW v \in PlanStates, exec'[e] = Idle, store' = Stated(exec[e].mem, v)
      PROVE  RowFollows(e)' /\ Forward(store, store')
  <2>1. store'.steps = exec[e].mem.steps
    BY <1>2, <1>5, StatedPlan
  <2>. QED
    BY <1>1, <1>5, <2>1, WriteForward DEF KeepsCompleted
<1>. QED
  BY <1>3, <1>4, <1>5

\* The outcome is written for a step that was running.
LEMMA OutcomeForward ==
    ASSUME IInv, NEW e \in Executors, RowFollows(e), Await(e) \/ Fail(e) \/ Complete(e)
    PROVE  RowFollows(e)' /\ Forward(store, store')
<1> DEFINE step == Here(e)
           mem == exec[e].mem
<1>1. exec[e].pc \in {"asked", "raised", "done"} /\ exec[e] # Idle
  BY DEF Await, Fail, Complete, At, Idle
<1>2. exec[e] \in Run /\ mem \in Plan /\ exec \in [Executors -> Run \cup {Idle}]
      /\ step \in Steps /\ mem.steps[step] = "running" /\ mem.state = "running"
  BY <1>1, RunType DEF IInv, TypeOK, Stopped, RunSound
<1>3. ASSUME NEW v \in StepStates, NEW t \in PlanStates,
             store' = Stated(Marked(mem, step, v), t), exec'[e] = Idle
      PROVE  RowFollows(e)' /\ Forward(store, store')
  <2>1. PICK marked : marked = Marked(mem, step, v)
    OBVIOUS
  <2>2. marked \in Plan /\ KeepsCompleted(mem, marked)
    <3> HIDE DEF step, mem
    <3>. QED
      BY <1>2, <2>1, MarkedKeeps
  <2>3. store'.steps = marked.steps
    BY <1>3, <2>1, <2>2, StatedPlan
  <2>4. KeepsCompleted(mem, store')
    BY <2>2, <2>3 DEF KeepsCompleted
  <2>. QED
    BY <1>1, <1>3, <2>4, WriteForward
<1>4. CASE Await(e)
  BY <1>2, <1>3, <1>4 DEF Await, Goto, Persist, Waiting, StepStates, PlanStates
<1>5. CASE Fail(e)
  BY <1>2, <1>3, <1>5 DEF Fail, Goto, Persist, StepStates, PlanStates
<1>6. CASE Complete(e)
  <2>1. PICK plan : plan = Marked(mem, step, "completed")
    OBVIOUS
  <2>2. plan.state = "running" /\ KeepsCompleted(mem, plan)
    <3>1. "completed" \in StepStates
      BY DEF StepStates
    <3> HIDE DEF step, mem
    <3>. QED
      BY <1>2, <2>1, <3>1, MarkedKeeps
  <2>3. store' = plan
    BY <1>6, <2>1 DEF Complete, Persist
  <2>4. PICK done, pc : exec'[e] = [exec[e] EXCEPT !.mem = plan, !.done = done,
            !.progress = TRUE, !.paid = NoId, !.pos = @ + 1, !.pc = pc]
    BY <1>2, <1>6, <2>1 DEF Complete, Goto
  <2>5. exec'[e].mem = plan
    BY <1>2, <2>4 DEF Run
  <2>. QED
    BY <1>1, <2>2, <2>3, <2>5, WriteForward DEF Runnable
<1>. QED
  BY <1>4, <1>5, <1>6

LEMMA NextForward ==
    ASSUME NEW CONSTANT e, Executors = {e}, IInv, RowFollows(e), [Next]_vars
    PROVE  RowFollows(e)' /\ Forward(store, store')
<1>1. CASE \E limit \in Limits : Load(e, limit)
  <2>1. exec'[e].mem = store /\ Runnable(store) /\ UNCHANGED store
    BY <1>1 DEF IInv, TypeOK, Load, Goto
  <2>. QED
    BY <2>1 DEF RowFollows, Forward, KeepsCompleted
<1>2. CASE ExecutorStep(e)
  BY <1>2, MoveForward, BeginForward, VisitForward, EndPassForward, OutcomeForward
     DEF ExecutorStep
<1>3. CASE Crash(e)
  <2>1. exec'[e] = Idle /\ UNCHANGED store
    BY <1>3 DEF IInv, TypeOK, Crash, Goto
  <2>. QED
    BY <2>1, LeaveForward
<1>4. CASE Exit(e) \/ UserDecides \/ UNCHANGED vars
  <2>1. UNCHANGED <<exec, store>>
    BY <1>4 DEF Exit, UserDecides, vars
  <2>. QED
    BY <2>1 DEF RowFollows, Forward, KeepsCompleted
<1>. QED
  BY <1>1, <1>2, <1>3, <1>4 DEF Next

\* With a single executor, the row of a plan only moves forward, through any
\* crashes and resumes: a step that is stored as completed stays so, and a
\* plan that is stored as completed or failed never changes again. Two
\* executors that overwrite each other's row refute it, as TLC shows.
THEOREM StoredPlanGoesForward ==
    ASSUME NEW CONSTANT e, Executors = {e}
    PROVE  Spec => [][Forward(store, store')]_store
<1>1. Init => RowFollows(e)
  BY DEF Init, RowFollows
<1>2. IInv /\ RowFollows(e) /\ [Next]_vars => RowFollows(e)' /\ [Forward(store, store')]_store
  BY NextForward
<1>. QED
  BY <1>1, <1>2, Invariance, PTL DEF Spec

=============================================================================
