------------------------ MODULE ReadinessGatesProofs ------------------------
(***************************************************************************)
(* Theorems about ReadinessGates, for whatever people write into the        *)
(* documents, any number of processes, edits, crashes and failed writes.    *)
(*                                                                          *)
(* The inductive invariant says of a call in progress what its next steps   *)
(* rely on: the documents it has read are those its operation needs, the    *)
(* contract among them is a valid one, what it reports has been accepted,   *)
(* a manifest is written only under a spent approval for its run, and a     *)
(* spent approval without one had its own write cut off.                    *)
(***************************************************************************)
EXTENDS ReadinessGates, SequenceTheorems, TLAPS

\* A call that reads, or reports what it has read.
Reader(k) ==
    /\ k = [op |-> k.op, at |-> k.at, left |-> k.left, got |-> k.got, about |-> k.about]
    /\ k.at \in {"read", "report"}
    /\ k.left \in Seq(Names)
    /\ "contract" \in DOMAIN k.got => ValidContract(k.got["contract"])
    /\ k.op = "request" => k.about \in Requests
    /\ k.op = "materialize" => k.about \in Materializations
    /\ k.at = "report" =>
        k.op \in {"model", "evaluation", "agent"} /\ Acceptable(k.op, k.got)

\* A plan that may be written.
PlanInHand(k) ==
    /\ k \in Locals \ {Idle}
    /\ ValidContract(k.plan.run.contract)
    /\ k.plan.run.dataset \notin Disliked
    /\ ~Ready(k.plan)

\* A call that has one, and its approval once it writes.
Writer(k) ==
    /\ PlanInHand(k)
    /\ k.at = "write" =>
        token[k.token] = [status |-> "consumed",
                          call |-> [tool |-> "dry-run", args |-> k.plan.run]]

CallsInFlight == \A c \in Clients : call[c] = Idle \/ Reader(call[c]) \/ Writer(call[c])

ManifestsBlocked == \A r \in DOMAIN manifests : ~Ready(manifests[r].plan)

IInv ==
    /\ TypeOK
    /\ CallsInFlight
    /\ ManifestAsApproved
    /\ ManifestsBlocked
    /\ SpendsAreHonoured

USE GatesAssumption

-----------------------------------------------------------------------------
\* The validators hold the gates shut

\* A contract that model_contract.py accepts has training switched off.
LEMMA TrainingIsOff ==
    ASSUME NEW contract, ValidContract(contract)
    PROVE  "training" \notin contract.on
  BY DEF ValidContract, Forbidden, Execution

\* Whatever hardware is reported, a plan made of a valid contract is blocked.
LEMMA PlanIsBlocked ==
    ASSUME NEW docs, NEW about, ValidContract(docs.contract)
    PROVE  ~Ready(PlanFor(docs, about))
  BY TrainingIsOff DEF Ready, PlanFor, PlanOf, ExecutionBlockers

\* The same flag blocks the model runtime.
LEMMA ModelIsBlocked ==
    ASSUME NEW docs, ValidContract(docs.contract)
    PROVE  ModelBlockers(docs.contract, docs.preflight) # {}
  BY TrainingIsOff DEF ModelBlockers

\* What the evaluation runtime accepts opens no phase of the evaluation plan
\* and makes no candidate fit for promotion.
LEMMA EvaluationIsBlocked ==
    ASSUME NEW docs, ValidEvaluation(docs)
    PROVE  ReadyPhases(docs) = {} /\ PromotionEligibility(docs) # {}
<1>1. "suite" \notin docs.suites.on
  BY DEF ValidEvaluation, ValidSuites, SuiteFlags
<1>2. RunBlockers(docs.suites) # {}
  BY <1>1 DEF RunBlockers, Blocker
<1>3. BaselinePlan(docs) # {} /\ CandidatePlan(docs) # {}
  BY <1>2 DEF BaselinePlan, CandidatePlan
<1>4. RegressionPlan(docs) # {} /\ PromotionPlan(docs) # {}
  BY DEF RegressionPlan, PromotionPlan
<1>5. ReadyPhases(docs) = {}
  BY <1>3, <1>4 DEF ReadyPhases, Phases
<1>6. PromotionEligibility(docs) # {}
  BY DEF ValidEvaluation, ValidPolicy, PromotionEligibility, Blocker
<1>. QED
  BY <1>5, <1>6

\* What the agent's inspector accepts leaves every execution flag off, and
\* each of them blocks.
LEMMA AgentIsBlocked ==
    ASSUME NEW docs, ValidAgent(docs)
    PROVE  ~AgentReady(docs, docs.sources)
<1>1. AgentExecutionBlockers(docs.agent) # {}
  BY DEF ValidAgent, AgentExecutionBlockers, AgentFlags
<1>2. AgentPhases(docs, docs.sources)["execution"] # {}
      /\ "execution" \in DOMAIN AgentPhases(docs, docs.sources)
  BY <1>1 DEF AgentPhases
<1>. QED
  BY <1>2 DEF AgentReady

-----------------------------------------------------------------------------
\* Types

\* What a call has to read are names of documents.
LEMMA ReadsNames == \A op \in Ops : Reads(op) \in Seq(Names)
<1> USE DEF Names, EvaluationNames, AgentNames
<1>1. Reads("evaluation") \in Seq(Names)
  BY DEF Reads
<1>2. Reads("agent") \in Seq(Names)
  BY DEF Reads
<1>3. Reads("model") \in Seq(Names)
  BY DEF Reads
<1>4. /\ \A op \in {"request", "materialize"} : Reads(op) = <<"contract", "profiles">>
      /\ <<"contract", "profiles">> \in Seq(Names)
  BY DEF Reads
<1>. QED
  BY <1>1, <1>2, <1>3, <1>4 DEF Ops

\* A call of the gate reads the contract and the profiles.
LEMMA GateReads ==
    ASSUME NEW op \in {"request", "materialize"}
    PROVE  {Reads(op)[i] : i \in DOMAIN Reads(op)} = {"contract", "profiles"}
<1>1. Reads(op) = <<"contract", "profiles">>
  BY DEF Reads
<1>2. DOMAIN <<"contract", "profiles">> = {1, 2}
  OBVIOUS
<1>. QED
  BY <1>1, <1>2

\* Reading takes a name from what is left.
LEMMA HeadAndTail ==
    ASSUME NEW S, NEW s \in Seq(S), s # <<>>
    PROVE  /\ Head(s) \in S /\ Tail(s) \in Seq(S)
           /\ {s[i] : i \in DOMAIN s} = {Head(s)} \cup {Tail(s)[i] : i \in DOMAIN Tail(s)}
<1>1. Len(s) \in Nat /\ Len(s) > 0 /\ DOMAIN s = 1..Len(s)
  BY EmptySeq, LenProperties
<1>2. /\ Head(s) = s[1] /\ Head(s) \in S /\ Tail(s) \in Seq(S)
      /\ DOMAIN Tail(s) = 1..(Len(s) - 1)
      /\ \A i \in 1..(Len(s) - 1) : Tail(s)[i] = s[i + 1]
  BY <1>1
<1>3. \A i \in 1..Len(s) : i = 1 \/ i - 1 \in 1..(Len(s) - 1)
  BY <1>1
<1>4. {s[i] : i \in DOMAIN s} \subseteq {Head(s)} \cup {Tail(s)[i] : i \in DOMAIN Tail(s)}
  <2> SUFFICES ASSUME NEW i \in 1..Len(s), i # 1
               PROVE  \E j \in DOMAIN Tail(s) : s[i] = Tail(s)[j]
    BY <1>1, <1>2
  <2>. WITNESS i - 1 \in DOMAIN Tail(s)
  <2>. QED
    BY <1>1, <1>2, <1>3
<1>5. {Head(s)} \cup {Tail(s)[i] : i \in DOMAIN Tail(s)} \subseteq {s[i] : i \in DOMAIN s}
  BY <1>1, <1>2
<1>. QED
  BY <1>2, <1>4, <1>5

\* A plan made of documents that people wrote has its type.
LEMMA PlanTyped ==
    ASSUME NEW docs, docs.contract \in Variants["contract"],
           docs.profiles \in Variants["profiles"],
           NEW about, about.dataset \in Catalogue, about.profile \in Asked
    PROVE  /\ PlanFor(docs, about) \in Plan
           /\ PlanFor(docs, about).run.contract = docs.contract
           /\ PlanFor(docs, about).run.dataset = about.dataset.id
<1> DEFINE profile == docs.profiles.profiles[about.profile]
<1>1. profile.recipe \in Recipes
  BY DEF ProfilesDocument, Profile
<1>2. about.dataset.id \in Datasets
  BY DEF Compiled
<1>3. Identity(docs.contract, about.dataset, about.profile, profile) \in Run
  BY <1>1, <1>2 DEF Identity, Run
<1>4. \A observed : HardwareBlockers(profile, observed) \cup BaseBlockers(docs.contract.base)
                        \cup ExecutionBlockers(docs.contract)
            \subseteq Dimensions \cup
                {"base-weights-not-downloaded", "base-checkpoint-not-ready",
                 "training-execution-disabled", "training-policy-missing"}
  BY DEF HardwareBlockers, BaseBlockers, ExecutionBlockers
<1>. QED
  BY <1>3, <1>4 DEF PlanFor, PlanOf, Plan, Identity

-----------------------------------------------------------------------------
\* The invariant

LEMMA InitIInv == Init => IInv
<1> SUFFICES ASSUME Init PROVE IInv
  OBVIOUS
<1>1. TypeOK
  BY DEF Init, TypeOK, Cyber!TokenTypeOK, Cyber!Token, Cyber!Unissued, Locals
<1>2. CallsInFlight /\ ManifestAsApproved /\ ManifestsBlocked
  BY DEF Init, CallsInFlight, ManifestAsApproved, ManifestsBlocked
<1>3. SpendsAreHonoured
  BY DEF Init, SpendsAreHonoured, Cyber!Unissued
<1>. QED
  BY <1>1, <1>2, <1>3 DEF IInv

\* A call that reads or reports is a reader, one with a plan a writer.
LEMMA ReaderHere ==
    ASSUME IInv, NEW c \in Clients, call[c] # Idle, call[c].at \in {"read", "report"}
    PROVE  Reader(call[c]) /\ ReaderTyped(c, call[c])
<1>1. call[c] \notin Locals
  BY DEF Locals
<1>2. ~Writer(call[c])
  BY <1>1 DEF Writer, PlanInHand
<1>. QED
  BY <1>1, <1>2 DEF IInv, TypeOK, CallsInFlight

LEMMA WriterHere ==
    ASSUME IInv, NEW c \in Clients, call[c].op = "materialize",
           call[c].at \in {"consume", "write"}
    PROVE  Writer(call[c])
<1>1. call[c] # Idle
  BY DEF Idle
<1>2. ~Reader(call[c])
  BY DEF Reader
<1>. QED
  BY <1>1, <1>2 DEF IInv, CallsInFlight

\* A call that no step touches keeps its type.
LEMMA TypeStays ==
    ASSUME NEW d \in Clients, call'[d] = call[d], tasks' = tasks,
           call[d] \in Locals \/ ReaderTyped(d, call[d])
    PROVE  call'[d] \in Locals \/ ReaderTyped(d, call[d])'
<1>1. CASE call[d] \in Locals
  BY <1>1
<1>2. CASE ReaderTyped(d, call[d])
  BY <1>2 DEF ReaderTyped
<1>. QED
  BY <1>1, <1>2

\* What a step may do to a call without writing a manifest or spending.
Quiet(d) ==
    \/ call'[d] = call[d]
    \/ /\ \/ call'[d] = Idle
          \/ Reader(call'[d]) /\ ReaderTyped(d, call'[d])
          \/ PlanInHand(call'[d]) /\ call'[d].at = "consume"
       /\ call[d].op = "materialize" /\ call[d].at = "write" => call[d].token \in cut'

\* Such a step keeps the invariant.
LEMMA QuietStep ==
    ASSUME IInv,
           UNCHANGED manifests,
           DOMAIN disk' = Names, \A n \in Names : disk'[n] \in Variants[n],
           edits' \in 0..MaxEdits, tasks' = tasks,
           cut' \subseteq Ids, cut \subseteq cut',
           Cyber!TokenTypeOK',
           \A t \in Ids : token[t].status = "consumed" \/ token'[t].status = "consumed"
                => token'[t] = token[t],
           DOMAIN call' = Clients,
           \A d \in Clients : Quiet(d)
    PROVE  IInv'
<1> USE DEF IInv
<1>1. TypeOK'
  <2>1. \A d \in Clients : call'[d] \in Locals \/ ReaderTyped(d, call'[d])
    BY DEF Quiet, TypeOK, Locals, PlanInHand
  <2>2. \A d \in Clients : call'[d] \in Locals \/ ReaderTyped(d, call[d])'
    BY <2>1 DEF ReaderTyped
  <2>. QED
    BY <2>2 DEF TypeOK
<1>2. CallsInFlight'
  <2> SUFFICES ASSUME NEW d \in Clients
               PROVE  call'[d] = Idle \/ Reader(call'[d]) \/ Writer(call[d])'
    BY DEF CallsInFlight
  <2>1. CASE Writer(call[d]) /\ call'[d] = call[d]
    <3>1. call[d].token \in Ids
      BY <2>1 DEF Writer, PlanInHand, Locals
    <3>. QED
      BY <2>1, <3>1 DEF Writer
  <2>2. CASE PlanInHand(call'[d]) /\ call'[d].at = "consume"
    BY <2>2 DEF Writer
  <2>. QED
    BY <2>1, <2>2 DEF Quiet, CallsInFlight
<1>3. ManifestAsApproved' /\ ManifestsBlocked'
  <2>1. \A r \in DOMAIN manifests : token'[manifests[r].by] = token[manifests[r].by]
    BY DEF ManifestAsApproved, TypeOK
  <2>. QED
    BY <2>1 DEF ManifestAsApproved, ManifestsBlocked
<1>4. SpendsAreHonoured'
  <2> SUFFICES ASSUME NEW t \in Ids, token'[t].status = "consumed", t \notin cut'
               PROVE  \/ token'[t].call.args \in DOMAIN manifests
                      \/ \E c \in Clients : /\ Writing(c)' /\ call'[c].at = "write"
                                            /\ call'[c].token = t
    BY DEF SpendsAreHonoured
  <2>1. token'[t] = token[t] /\ t \notin cut
    BY DEF TypeOK
  <2>2. CASE token[t].call.args \in DOMAIN manifests
    BY <2>1, <2>2
  <2>3. ASSUME NEW c \in Clients, Writing(c), call[c].at = "write", call[c].token = t
        PROVE  /\ Writing(c)' /\ call'[c].at = "write"
               /\ call'[c].token = t
    BY <2>3 DEF Quiet, Writing
  <2>. QED
    BY <2>1, <2>2, <2>3 DEF SpendsAreHonoured
<1>. QED
  BY <1>1, <1>2, <1>3, <1>4

-----------------------------------------------------------------------------
\* Every step keeps it

\* A call begins with all it has to read before it.
LEMMA BeginStep ==
    ASSUME IInv, NEW c \in Clients, NEW op \in Ops, NEW about, Begin(c, op, about),
           op = "request" => about \in Requests,
           op = "materialize" => about \in Materializations
    PROVE  IInv'
<1> DEFINE k == [op |-> op, at |-> "read", left |-> Reads(op), got |-> <<>>,
                 about |-> about]
<1>1. call' = [call EXCEPT ![c] = k] /\ op \in tasks[c] /\ call[c] = Idle
  BY DEF Begin
<1>2. DOMAIN k.got = {}
  OBVIOUS
<1>3. Reader(k) /\ ReaderTyped(c, k)
  BY <1>1, <1>2, ReadsNames DEF Reader, ReaderTyped
<1>4. \A d \in Clients : Quiet(d)
  BY <1>1, <1>3 DEF IInv, TypeOK, Quiet, Idle
<1>. QED
  BY <1>1, <1>4, QuietStep DEF Begin, IInv, TypeOK, Cyber!TokenTypeOK

\* A reader that has taken one more document.
After(k, left, got) ==
    [op |-> k.op, at |-> "read", left |-> left, got |-> got, about |-> k.about]

\* It is a reader still.
LEMMA AfterReader ==
    ASSUME NEW k, Reader(k), k.at = "read",
           NEW left \in Seq(Names), NEW got,
           "contract" \in DOMAIN got => ValidContract(got["contract"])
    PROVE  Reader(After(k, left, got))
  BY DEF Reader, After

LEMMA AfterTyped ==
    ASSUME NEW c, NEW k, ReaderTyped(c, k), NEW n, NEW left, NEW got,
           DOMAIN got = DOMAIN k.got \cup {n},
           {k.left[i] : i \in DOMAIN k.left} = {n} \cup {left[i] : i \in DOMAIN left},
           \A m \in DOMAIN got : got[m] \in Variants[m]
    PROVE  ReaderTyped(c, After(k, left, got))
<1> DEFINE a == After(k, left, got)
<1>1. a.op = k.op /\ a.at = "read" /\ a.left = left /\ a.got = got
  BY DEF After
<1> HIDE DEF a
<1>2. DOMAIN a.got \cup {a.left[i] : i \in DOMAIN a.left}
        = DOMAIN k.got \cup {k.left[i] : i \in DOMAIN k.left}
  BY <1>1
<1>3. ReaderTyped(c, a)
  BY <1>1, <1>2 DEF ReaderTyped
<1>. QED
  BY <1>3 DEF a

\* A document that has been read is one that somebody wrote, and a contract
\* that is not valid ends the call.
LEMMA ReadStep ==
    ASSUME IInv, NEW c \in Clients, Read(c)
    PROVE  IInv'
<1> DEFINE n == Head(call[c].left)
           left == Tail(call[c].left)
           got == [m \in DOMAIN call[c].got \cup {n} |->
                        IF m = n THEN disk[n] ELSE call[c].got[m]]
<1>1. Reader(call[c]) /\ ReaderTyped(c, call[c]) /\ call[c].at = "read"
  BY ReaderHere DEF Read
<1>2. /\ n \in Names /\ left \in Seq(Names)
      /\ {call[c].left[i] : i \in DOMAIN call[c].left} = {n} \cup {left[i] : i \in DOMAIN left}
  <2>1. call[c].left \in Seq(Names) /\ call[c].left # <<>>
    BY <1>1 DEF Reader, Read
  <2>. QED
    BY <2>1, HeadAndTail
<1>3. /\ DOMAIN got = DOMAIN call[c].got \cup {n}
      /\ \A m \in DOMAIN got : got[m] \in Variants[m]
      /\ n # "contract" \/ ValidContract(disk[n])
            => ("contract" \in DOMAIN got => ValidContract(got["contract"]))
  BY <1>1, <1>2 DEF Reader, ReaderTyped, IInv, TypeOK
<1>4. /\ call' = [call EXCEPT ![c] =
                    IF n = "contract" /\ ~ValidContract(disk[n]) THEN Idle
                    ELSE After(call[c], left, got)]
      /\ UNCHANGED <<disk, token, manifests, edits, cut, tasks>>
  BY DEF Read, Gained, After
<1> HIDE DEF n, left, got
<1>5. CASE n = "contract" /\ ~ValidContract(disk[n])
  <2>1. call' = [call EXCEPT ![c] = Idle]
    BY <1>4, <1>5
  <2>2. DOMAIN call' = Clients /\ \A d \in Clients : Quiet(d)
    BY <1>1, <2>1 DEF IInv, TypeOK, Quiet
  <2>. QED
    BY <1>4, <2>2, QuietStep DEF IInv, TypeOK, Cyber!TokenTypeOK
<1>6. CASE ~(n = "contract" /\ ~ValidContract(disk[n]))
  <2>1. call' = [call EXCEPT ![c] = After(call[c], left, got)]
    BY <1>4, <1>6
  <2>2. Reader(After(call[c], left, got))
    BY <1>1, <1>2, <1>3, <1>6, AfterReader
  <2>3. ReaderTyped(c, After(call[c], left, got))
    BY <1>1, <1>2, <1>3, AfterTyped
  <2>4. DOMAIN call' = Clients /\ \A d \in Clients : Quiet(d)
    BY <1>1, <2>1, <2>2, <2>3 DEF IInv, TypeOK, Quiet
  <2>. QED
    BY <1>4, <2>4, QuietStep DEF IInv, TypeOK, Cyber!TokenTypeOK
<1>. QED
  BY <1>5, <1>6

\* What is reported has been accepted.
LEMMA InspectStep ==
    ASSUME IInv, NEW c \in Clients, Inspect(c) \/ Report(c)
    PROVE  IInv'
<1>1. Reader(call[c]) /\ ReaderTyped(c, call[c])
  BY ReaderHere DEF Inspect, Report, HasRead, Idle
<1>2. \/ call' = [call EXCEPT ![c] = Idle]
      \/ /\ call' = [call EXCEPT ![c] = [call[c] EXCEPT !.at = "report"]]
         /\ call[c].op \in {"model", "evaluation", "agent"}
         /\ Acceptable(call[c].op, call[c].got)
  BY DEF Inspect, Report, HasRead
<1> DEFINE k == [op |-> call[c].op, at |-> "report", left |-> call[c].left,
                 got |-> call[c].got, about |-> call[c].about]
<1>3. [call[c] EXCEPT !.at = "report"] = k
  BY <1>1 DEF Reader
<1>4. ASSUME call[c].op \in {"model", "evaluation", "agent"},
             Acceptable(call[c].op, call[c].got)
      PROVE  Reader(k) /\ ReaderTyped(c, k)
  <2>1. /\ k.op = call[c].op /\ k.at = "report" /\ k.left = call[c].left
        /\ k.got = call[c].got /\ k.about = call[c].about
    OBVIOUS
  <2>2. Reader(k)
    BY <1>1, <1>4, <2>1 DEF Reader
  <2>. QED
    BY <1>1, <2>1, <2>2 DEF ReaderTyped
<1>5. \A d \in Clients : Quiet(d)
  BY <1>1, <1>2, <1>3, <1>4 DEF IInv, TypeOK, Quiet, Reader
<1>. QED
  BY <1>2, <1>5, QuietStep DEF Inspect, Report, IInv, TypeOK, Cyber!TokenTypeOK

\* A plan made of what a call of the gate has read, and accepted by Dany.
LEMMA GatePlan ==
    ASSUME IInv, NEW c \in Clients, HasRead(c, {"request"}) \/ HasRead(c, {"materialize"}),
           Accepted(call[c].got, call[c].about),
           NEW plan, plan = PlanFor(call[c].got, call[c].about)
    PROVE  /\ plan \in Plan /\ ~Ready(plan)
           /\ ValidContract(plan.run.contract)
           /\ plan.run.dataset \notin Disliked
<1> DEFINE docs == call[c].got
           about == call[c].about
<1>1. Reader(call[c]) /\ ReaderTyped(c, call[c]) /\ call[c].op \in {"request", "materialize"}
  BY ReaderHere DEF HasRead, Idle
<1>2. DOMAIN docs = {"contract", "profiles"}
  <2>1. {call[c].left[i] : i \in DOMAIN call[c].left} = {}
    BY DEF HasRead
  <2>. QED
    BY <1>1, <2>1, GateReads DEF ReaderTyped
<1>3. docs.contract \in Variants["contract"] /\ docs.profiles \in Variants["profiles"]
  BY <1>1, <1>2 DEF ReaderTyped
<1>4. about.dataset \in Catalogue /\ about.profile \in Asked
  BY <1>1 DEF Reader, Requests, Materializations
<1>5. ValidContract(docs.contract)
  BY <1>1, <1>2 DEF Reader
<1>. QED
  BY <1>3, <1>4, <1>5, PlanTyped, PlanIsBlocked DEF Accepted

LEMMA RequestStep ==
    ASSUME IInv, NEW c \in Clients, NEW t \in Ids, RequestDryRun(c, t)
    PROVE  IInv'
<1> DEFINE plan == PlanFor(call[c].got, call[c].about)
<1>1. /\ call' = [call EXCEPT ![c] = Idle]
      /\ call[c].op = "request" /\ UNCHANGED <<disk, manifests, edits, cut, tasks>>
  BY DEF RequestDryRun, HasRead
<1>2. \/ UNCHANGED token
      \/ /\ Accepted(call[c].got, call[c].about)
         /\ Cyber!Issue(t, [tool |-> "dry-run", args |-> plan.run])
  BY DEF RequestDryRun, ApprovalArguments
<1>3. /\ Cyber!TokenTypeOK'
      /\ \A i \in Ids : token[i].status = "consumed" \/ token'[i].status = "consumed"
            => token'[i] = token[i]
  <2>1. Cyber!TokenTypeOK
    BY DEF IInv, TypeOK
  <2>2. CASE UNCHANGED token
    BY <2>1, <2>2 DEF Cyber!TokenTypeOK
  <2>3. CASE /\ Accepted(call[c].got, call[c].about)
             /\ Cyber!Issue(t, [tool |-> "dry-run", args |-> plan.run])
    <3>1. plan.run \in Run
      <4>1. plan \in Plan
        BY <2>3, GatePlan DEF RequestDryRun
      <4>. QED
        BY <4>1 DEF Plan
    <3>2. [tool |-> "dry-run", args |-> plan.run] \in Calls
      BY <3>1 DEF Calls
    <3>. QED
      BY <2>1, <2>3, <3>2 DEF Cyber!TokenTypeOK, Cyber!Token, Cyber!Issue, Cyber!Unissued
  <2>. QED
    BY <1>2, <2>2, <2>3
<1>4. \A d \in Clients : Quiet(d)
  BY <1>1 DEF IInv, TypeOK, Quiet
<1>. QED
  BY <1>1, <1>3, <1>4, QuietStep DEF IInv, TypeOK

\* The second review: what goes on has a plan in hand.
LEMMA ReviewStep ==
    ASSUME IInv, NEW c \in Clients, ReviewAgain(c)
    PROVE  IInv'
<1> DEFINE plan == PlanFor(call[c].got, call[c].about)
           k == [op |-> "materialize", at |-> "consume", plan |-> plan,
                 token |-> call[c].about.token]
<1>1. Reader(call[c]) /\ call[c].op = "materialize" /\ call[c].at = "read"
  BY ReaderHere DEF ReviewAgain, HasRead, Idle
<1>2. call[c].about.token \in Ids
  BY <1>1 DEF Reader, Materializations
<1>3. \/ call' = [call EXCEPT ![c] = Idle]
      \/ call' = [call EXCEPT ![c] = k] /\ Accepted(call[c].got, call[c].about)
  BY DEF ReviewAgain
<1>4. ASSUME Accepted(call[c].got, call[c].about)
      PROVE  PlanInHand(k)
  <2>1. /\ plan \in Plan /\ ~Ready(plan)
        /\ ValidContract(plan.run.contract) /\ plan.run.dataset \notin Disliked
    BY <1>4, GatePlan DEF ReviewAgain
  <2> HIDE DEF plan
  <2>. QED
    BY <1>2, <2>1 DEF PlanInHand, Locals, Idle
<1>5. \A d \in Clients : Quiet(d)
  <2> HIDE DEF plan
  <2>. QED
    BY <1>1, <1>3, <1>4 DEF IInv, TypeOK, Quiet
<1>. QED
  BY <1>3, <1>5, QuietStep DEF ReviewAgain, IInv, TypeOK, Cyber!TokenTypeOK

\* An approval is spent by the call whose plan it binds; a refusal leaves all
\* as it was.
LEMMA ConsumeStep ==
    ASSUME IInv, NEW c \in Clients, Consume(c)
    PROVE  IInv'
<1> DEFINE k == call[c]
           bound == [tool |-> "dry-run", args |-> k.plan.run]
           spent == [status |-> "consumed", call |-> bound]
<1>1. /\ PlanInHand(k) /\ k.op = "materialize" /\ k.at = "consume"
      /\ k.token \in Ids /\ k.plan \in Plan
  BY WriterHere DEF Consume, Writer, PlanInHand, Locals, Idle
<1>2. Cyber!TokenTypeOK
  BY DEF IInv, TypeOK
<1>3. CASE UNCHANGED token /\ call' = [call EXCEPT ![c] = Idle]
  <2>1. \A d \in Clients : Quiet(d)
    BY <1>1, <1>3 DEF IInv, TypeOK, Quiet
  <2>. QED
    BY <1>3, <2>1, QuietStep DEF Consume, IInv, TypeOK, Cyber!TokenTypeOK
<1>4. CASE /\ Cyber!Spend(k.token, bound)
           /\ call' = [call EXCEPT ![c].at = "write"]
  <2>1. /\ token[k.token].status = "approved" /\ token[k.token].call = bound
        /\ token[k.token] \in Cyber!Token
    BY <1>1, <1>2, <1>4 DEF Cyber!Spend, Cyber!Spendable, Cyber!TokenTypeOK, Cyber!Unissued
  <2>2. token' = [token EXCEPT ![k.token] = spent]
    <3>1. [token[k.token] EXCEPT !.status = "consumed"] = spent
      <4> HIDE DEF k, bound
      <4>. QED
        BY <2>1 DEF Cyber!Token
    <3> HIDE DEF k, bound, spent
    <3>. QED
      BY <1>4, <3>1 DEF Cyber!Spend, Cyber!SetStatus
  <2>3. bound \in Calls /\ spent \in Cyber!Token
    BY <2>1 DEF Cyber!Token
  <2>4. Cyber!TokenTypeOK'
    BY <1>2, <2>2, <2>3 DEF Cyber!TokenTypeOK
  <2>5. /\ call' = [call EXCEPT ![c] = [op |-> "materialize", at |-> "write",
                                        plan |-> k.plan, token |-> k.token]]
        /\ UNCHANGED <<disk, manifests, edits, cut, tasks>>
    <3>1. [k EXCEPT !.at = "write"] = [op |-> "materialize", at |-> "write",
                                       plan |-> k.plan, token |-> k.token]
      BY <1>1 DEF PlanInHand, Locals
    <3>2. call' = [call EXCEPT ![c] = [k EXCEPT !.at = "write"]]
      BY <1>4
    <3>. QED
      BY <3>1, <3>2 DEF Consume
  <2>6. /\ DOMAIN call' = Clients /\ \A d \in Clients \ {c} : call'[d] = call[d]
        /\ call'[c] = [op |-> "materialize", at |-> "write", plan |-> k.plan,
                       token |-> k.token]
    BY <2>5 DEF IInv, TypeOK
  <2>7. \A i \in Ids \ {k.token} : token'[i] = token[i]
    BY <1>2, <2>2 DEF Cyber!TokenTypeOK
  <2>8. token'[k.token] = spent
    BY <1>1, <1>2, <2>2 DEF Cyber!TokenTypeOK
  <2>9. TypeOK'
    <3>1. call'[c] \in Locals
      BY <1>1, <2>6 DEF Locals
    <3>2. \A d \in Clients \ {c} : call'[d] \in Locals \/ ReaderTyped(d, call[d])'
      BY <2>5, <2>6, TypeStays DEF IInv, TypeOK
    <3>. QED
      BY <2>4, <2>5, <2>6, <3>1, <3>2 DEF IInv, TypeOK
  <2>10. Writer(call[c])'
    BY <1>1, <2>6, <2>8 DEF Writer, PlanInHand, Locals, Idle
  <2>11. CallsInFlight'
    <3> SUFFICES ASSUME NEW d \in Clients \ {c}, Writer(call[d])
                 PROVE  Writer(call[d])'
      BY <2>6, <2>10 DEF IInv, CallsInFlight
    <3>1. call[d].token \in Ids
      BY DEF Writer, PlanInHand, Locals
    <3>2. call[d].at = "write" => call[d].token # k.token
      BY <2>1 DEF Writer
    <3>. QED
      BY <2>6, <2>7, <3>1, <3>2 DEF Writer
  <2>12. ManifestAsApproved' /\ ManifestsBlocked'
    <3>1. \A r \in DOMAIN manifests : token'[manifests[r].by] = token[manifests[r].by]
      BY <2>1, <2>7 DEF IInv, ManifestAsApproved, TypeOK
    <3>. QED
      BY <2>5, <3>1 DEF IInv, ManifestAsApproved, ManifestsBlocked
  <2>13. SpendsAreHonoured'
    <3> SUFFICES ASSUME NEW t \in Ids, token'[t].status = "consumed", t \notin cut,
                        token[t].call.args \notin DOMAIN manifests, t # k.token
                 PROVE  \E d \in Clients : /\ Writing(d)' /\ call'[d].at = "write"
                                          /\ call'[d].token = t
      BY <2>5, <2>6, <2>7 DEF SpendsAreHonoured, Writing
    <3>1. PICK d \in Clients : Writing(d) /\ call[d].at = "write" /\ call[d].token = t
      BY <2>7 DEF IInv, SpendsAreHonoured
    <3>2. d # c
      BY <1>1, <3>1
    <3>. QED
      BY <2>6, <3>1, <3>2 DEF Writing
  <2>. QED
    BY <2>9, <2>11, <2>12, <2>13 DEF IInv
<1>. QED
  BY <1>3, <1>4 DEF Consume, ApprovalArguments

\* A manifest is written by a call that holds a plan and its spent approval.
LEMMA WriteStep ==
    ASSUME IInv, NEW c \in Clients, WriteManifest(c)
    PROVE  IInv'
<1> DEFINE k == call[c]
           m == [plan |-> k.plan, by |-> k.token]
<1>1. /\ k.op = "materialize" /\ k.at = "write" /\ PlanInHand(k)
      /\ k.token \in Ids /\ k.plan \in Plan
      /\ token[k.token] = [status |-> "consumed",
                           call |-> [tool |-> "dry-run", args |-> k.plan.run]]
  BY WriterHere DEF WriteManifest, Writer, PlanInHand, Locals, Idle
<1>2. /\ DOMAIN manifests' = DOMAIN manifests \cup {k.plan.run}
      /\ manifests'[k.plan.run] = m
      /\ \A r \in DOMAIN manifests \ {k.plan.run} : manifests'[r] = manifests[r]
      /\ call' = [call EXCEPT ![c] = Idle]
      /\ UNCHANGED <<disk, token, edits, cut, tasks>>
  BY DEF WriteManifest
<1>3. /\ DOMAIN call' = Clients /\ call'[c] = Idle
      /\ \A d \in Clients \ {c} : call'[d] = call[d]
  BY <1>2 DEF IInv, TypeOK
<1>4. TypeOK'
  <2>1. \A r \in DOMAIN manifests' : manifests'[r].plan \in Plan /\ manifests'[r].by \in Ids
    BY <1>1, <1>2 DEF IInv, TypeOK
  <2>2. \A d \in Clients : call'[d] \in Locals \/ ReaderTyped(d, call[d])'
    BY <1>2, <1>3, TypeStays DEF IInv, TypeOK, Locals
  <2>. QED
    BY <1>2, <1>3, <2>1, <2>2 DEF IInv, TypeOK, Cyber!TokenTypeOK
<1>5. CallsInFlight'
  BY <1>2, <1>3 DEF IInv, CallsInFlight, Writer
<1>6. ManifestAsApproved' /\ ManifestsBlocked'
  <2> SUFFICES ASSUME NEW r \in DOMAIN manifests'
               PROVE  /\ manifests'[r].plan.run = r
                      /\ token[manifests'[r].by].status = "consumed"
                      /\ token[manifests'[r].by].call = [tool |-> "dry-run", args |-> r]
                      /\ ValidContract(r.contract)
                      /\ r.dataset \notin Disliked
                      /\ ~Ready(manifests'[r].plan)
    BY <1>2 DEF ManifestAsApproved, ManifestsBlocked
  <2>1. CASE r = k.plan.run
    BY <1>1, <1>2, <2>1 DEF PlanInHand
  <2>2. CASE r # k.plan.run
    BY <1>2, <2>2 DEF IInv, ManifestAsApproved, ManifestsBlocked
  <2>. QED
    BY <2>1, <2>2
<1>7. SpendsAreHonoured'
  <2> SUFFICES ASSUME NEW t \in Ids, token[t].status = "consumed", t \notin cut,
                      token[t].call.args \notin DOMAIN manifests'
               PROVE  \E d \in Clients : /\ Writing(d)' /\ call'[d].at = "write"
                                        /\ call'[d].token = t
    BY <1>2 DEF SpendsAreHonoured
  <2>1. PICK d \in Clients : Writing(d) /\ call[d].at = "write" /\ call[d].token = t
    BY <1>2 DEF IInv, SpendsAreHonoured
  <2>2. d # c
    BY <1>1, <1>2, <2>1
  <2>. QED
    BY <1>3, <2>1, <2>2 DEF Writing
<1>. QED
  BY <1>4, <1>5, <1>6, <1>7 DEF IInv

\* A write that fails leaves its approval among those whose write was cut off.
LEMMA WriteFailsStep ==
    ASSUME IInv, NEW c \in Clients, WriteFails(c)
    PROVE  IInv'
<1>1. Writer(call[c]) /\ call[c].token \in Ids
  BY WriterHere DEF WriteFails, Writer, PlanInHand, Locals, Idle
<1>2. \A d \in Clients : Quiet(d)
  BY DEF WriteFails, IInv, TypeOK, Quiet
<1>. QED
  BY <1>1, <1>2, QuietStep DEF WriteFails, IInv, TypeOK, Cyber!TokenTypeOK

\* What happens around the calls: edits, decisions, crashes.
LEMMA EnvironmentStep ==
    ASSUME IInv,
           \/ \E n \in Watched : \E document \in Variants[n] : Edit(n, document)
           \/ \E t \in Ids : Decide(t)
           \/ \E c \in Clients : Crash(c)
           \/ UNCHANGED vars
    PROVE  IInv'
<1>1. ASSUME NEW n \in Watched, NEW document \in Variants[n], Edit(n, document)
      PROVE  IInv'
  <2>1. DOMAIN disk' = Names /\ \A m \in Names : disk'[m] \in Variants[m]
    BY <1>1 DEF Edit, IInv, TypeOK
  <2>2. \A d \in Clients : Quiet(d)
    BY <1>1 DEF Edit, Quiet
  <2>. QED
    BY <1>1, <2>1, <2>2, QuietStep DEF Edit, IInv, TypeOK, Cyber!TokenTypeOK
<1>2. ASSUME NEW t \in Ids, Decide(t)
      PROVE  IInv'
  <2>1. PICK s \in {"approved", "expired"} :
          /\ token' = [token EXCEPT ![t] = [@ EXCEPT !.status = s]]
          /\ token[t].status \in {"pending", "approved"}
    BY <1>2 DEF Decide, Cyber!Decide, Cyber!Lapse, Cyber!SetStatus
  <2>2. Cyber!TokenTypeOK
    BY DEF IInv, TypeOK
  <2>3. token[t] \in Cyber!Token
    BY <2>1, <2>2 DEF Cyber!TokenTypeOK, Cyber!Unissued
  <2>4. [token[t] EXCEPT !.status = s] \in Cyber!Token
        /\ [token[t] EXCEPT !.status = s].status = s
    BY <2>3 DEF Cyber!Token
  <2>5. /\ Cyber!TokenTypeOK'
        /\ \A i \in Ids : token[i].status = "consumed" \/ token'[i].status = "consumed"
             => token'[i] = token[i]
    BY <2>1, <2>2, <2>4 DEF Cyber!TokenTypeOK
  <2>6. \A d \in Clients : Quiet(d)
    BY <1>2 DEF Decide, Quiet
  <2>. QED
    BY <1>2, <2>5, <2>6, QuietStep DEF Decide, IInv, TypeOK
<1>3. ASSUME NEW c \in Clients, Crash(c)
      PROVE  IInv'
  <2>1. \A d \in Clients : Quiet(d)
    BY <1>3 DEF Crash, IInv, TypeOK, Quiet
  <2>2. call[c].at = "write" => call[c].token \in Ids
    <3>1. ASSUME call[c].at = "write"
          PROVE  call[c] \in Locals \ {Idle}
      BY <1>3, <3>1 DEF Crash, IInv, CallsInFlight, Reader, Writer, PlanInHand
    <3>. QED
      BY <3>1 DEF Locals
  <2>3. cut \subseteq cut' /\ cut' \subseteq Ids
    BY <1>3, <2>2 DEF Crash, IInv, TypeOK
  <2>. QED
    BY <1>3, <2>1, <2>3, QuietStep DEF Crash, IInv, TypeOK, Cyber!TokenTypeOK
<1>4. CASE UNCHANGED vars
  <2>1. \A d \in Clients : Quiet(d)
    BY <1>4 DEF vars, Quiet
  <2>. QED
    BY <1>4, <2>1, QuietStep DEF vars, IInv, TypeOK, Cyber!TokenTypeOK
<1>. QED
  BY <1>1, <1>2, <1>3, <1>4

LEMMA NextIInv == IInv /\ [Next]_vars => IInv'
<1> SUFFICES ASSUME IInv, [Next]_vars
             PROVE  IInv'
  OBVIOUS
<1>1. ASSUME NEW c \in Clients, Start(c)
      PROVE  IInv'
  <2>1. CASE \E op \in {"model", "evaluation", "agent"} : Begin(c, op, "documents")
    BY <2>1, BeginStep DEF Ops
  <2>2. CASE \E r \in Requests : Begin(c, "request", r)
    BY <2>2, BeginStep DEF Ops
  <2>3. CASE \E m \in Materializations :
                m.token \in Approved /\ Begin(c, "materialize", m)
    BY <2>3, BeginStep DEF Ops
  <2>. QED
    BY <1>1, <2>1, <2>2, <2>3 DEF Start
<1>2. ASSUME NEW c \in Clients,
             \/ Read(c) \/ Inspect(c) \/ Report(c)
             \/ \E t \in Ids : RequestDryRun(c, t)
             \/ ReviewAgain(c) \/ Consume(c)
             \/ WriteManifest(c) \/ WriteFails(c)
      PROVE  IInv'
  BY <1>2, ReadStep, InspectStep, RequestStep, ReviewStep, ConsumeStep,
     WriteStep, WriteFailsStep
<1>. QED
  BY <1>1, <1>2, EnvironmentStep DEF Next

-----------------------------------------------------------------------------
\* Theorems

\* The inductive invariant holds in every reachable state.
THEOREM GatesInvariance == Spec => []IInv
  BY InitIInv, NextIInv, PTL DEF Spec

\* Every variable keeps its type, whatever is written into the documents.
THEOREM GatesTypeCorrect == Spec => []TypeOK
<1>1. IInv => TypeOK
  BY DEF IInv
<1>. QED
  BY <1>1, GatesInvariance, PTL

\* No reported phase, candidate, model, agent or plan is ever ready, and no
\* manifest is of one: for any documents that people may write.
THEOREM GatesStayShut == Spec => []NothingReady
<1>1. IInv => NothingReady
  <2> SUFFICES ASSUME IInv PROVE NothingReady
    OBVIOUS
  <2>1. ASSUME NEW c \in Clients, call[c].at = "report", call[c].op # "idle"
        PROVE  Reader(call[c])
    BY <2>1, ReaderHere DEF Idle
  <2>2. ASSUME NEW c \in Clients, Writing(c)
        PROVE  ~Ready(call[c].plan)
    BY <2>2, WriterHere DEF Writing, Writer, PlanInHand
  <2>3. ASSUME NEW c \in Clients, Reporting(c, "evaluation")
        PROVE  ReadyPhases(call[c].got) = {} /\ PromotionEligibility(call[c].got) # {}
    BY <2>1, <2>3, EvaluationIsBlocked DEF Reporting, Reader, Acceptable
  <2>4. ASSUME NEW c \in Clients, Reporting(c, "model")
        PROVE  ModelBlockers(call[c].got.contract, call[c].got.preflight) # {}
    BY <2>1, <2>4, ModelIsBlocked DEF Reporting, Reader, Acceptable
  <2>5. ASSUME NEW c \in Clients, Reporting(c, "agent")
        PROVE  ~AgentReady(call[c].got, call[c].got.sources)
    BY <2>1, <2>5, AgentIsBlocked DEF Reporting, Reader, Acceptable
  <2>. QED
    BY <2>2, <2>3, <2>4, <2>5 DEF NothingReady, IInv, ManifestsBlocked
<1>. QED
  BY <1>1, GatesInvariance, PTL

\* A manifest is the one the user approved, and its approval is spent.
THEOREM ManifestsApproved == Spec => []ManifestAsApproved
<1>1. IInv => ManifestAsApproved
  BY DEF IInv
<1>. QED
  BY <1>1, GatesInvariance, PTL

\* A spent approval has its manifest or is about to, unless the write that it
\* was spent for is the one that an error or a crash cut off: the gate refuses
\* nothing after it has consumed, whatever changes in between.
THEOREM SpendsHonoured == Spec => []SpendsAreHonoured
<1>1. IInv => SpendsAreHonoured
  BY DEF IInv
<1>. QED
  BY <1>1, GatesInvariance, PTL

-----------------------------------------------------------------------------
\* The approvals

\* Whatever a step does to the approvals, the approval store promises it.
LEMMA TokenSteps ==
    ASSUME IInv, [Next]_vars
    PROVE  [Cyber!TokenNext]_token
<1>1. ASSUME NEW c \in Clients, NEW t \in Ids, RequestDryRun(c, t)
      PROVE  [Cyber!TokenNext]_token
  <2> DEFINE plan == PlanFor(call[c].got, call[c].about)
  <2>1. CASE Accepted(call[c].got, call[c].about)
    <3>1. plan \in Plan
      BY <1>1, <2>1, GatePlan DEF RequestDryRun
    <3>2. [tool |-> "dry-run", args |-> plan.run] \in Calls
      BY <3>1 DEF Plan, Calls
    <3>3. Cyber!Issue(t, [tool |-> "dry-run", args |-> plan.run])
      BY <1>1, <2>1 DEF RequestDryRun, ApprovalArguments
    <3>. QED
      BY <3>2, <3>3 DEF Cyber!TokenNext
  <2>. QED
    BY <1>1, <2>1 DEF RequestDryRun
<1>2. ASSUME NEW c \in Clients, Consume(c)
      PROVE  [Cyber!TokenNext]_token
  <2> DEFINE bound == [tool |-> "dry-run", args |-> call[c].plan.run]
  <2>1. call[c].token \in Ids /\ call[c].plan \in Plan
    BY <1>2, WriterHere DEF Consume, Writer, PlanInHand, Locals, Idle
  <2>2. bound \in Calls
    BY <2>1 DEF Plan, Calls
  <2>3. Cyber!Spend(call[c].token, bound) \/ UNCHANGED token
    BY <1>2 DEF Consume, ApprovalArguments
  <2>. QED
    BY <2>1, <2>2, <2>3 DEF Cyber!TokenNext
<1>3. ASSUME NEW t \in Ids, Decide(t)
      PROVE  Cyber!TokenNext
  BY <1>3 DEF Decide, Cyber!TokenNext
<1>4. ASSUME NEW c \in Clients,
             \/ Start(c) \/ Read(c) \/ Inspect(c) \/ Report(c)
             \/ ReviewAgain(c) \/ WriteManifest(c) \/ WriteFails(c) \/ Crash(c)
      PROVE  UNCHANGED token
  BY <1>4 DEF Start, Begin, Read, Inspect, Report, ReviewAgain,
            WriteManifest, WriteFails, Crash
<1>5. CASE \/ \E n \in Watched : \E document \in Variants[n] : Edit(n, document)
           \/ UNCHANGED vars
  BY <1>5 DEF Edit, vars
<1>. QED
  BY <1>1, <1>2, <1>3, <1>4, <1>5 DEF Next

\* The gate asks for and spends approvals only in ways the approval store
\* promises (ApprovalToken, which Approvals implements): one is issued for one
\* run, and spent at most once and for that run, though documents change and
\* processes crash between the request and the write.
THEOREM GatesUseTokens == Spec => Cyber!TokenSpec
<1>1. Init => Cyber!TokenInit
  BY DEF Init, Cyber!TokenInit
<1>2. IInv /\ [Next]_vars => [Cyber!TokenNext]_token
  BY TokenSteps
<1>. QED
  BY <1>1, <1>2, GatesInvariance, PTL DEF Spec, Cyber!TokenSpec

=============================================================================
