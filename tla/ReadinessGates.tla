--------------------------- MODULE ReadinessGates ---------------------------
(***************************************************************************)
(* The gates that stand before training, evaluation and autonomous agents.  *)
(* Their documents are files that people edit at any time; each call reads  *)
(* the ones it needs one after another, validates what it got, and reports. *)
(*                                                                          *)
(* One call writes: the dry-run manifest (training_execution_gate.py), with *)
(* an approval bound to the plan. The calls of two processes interleave     *)
(* between any two reads and around the write, edits fall anywhere, and the *)
(* write may fail, or its process crash, once the approval is spent.        *)
(***************************************************************************)
EXTENDS TrainingRunPlanner, EvaluationContracts, AgentContracts, Sequences

CONSTANTS
    Shipped,       \* [Names -> the document as it was released]
    Variants,      \* [Names -> the documents that people may write]
    Catalogue,     \* compiled datasets as the catalogue showed them to callers
    Asked,         \* profiles that callers name
    Machines,      \* hardware that callers report
    Unreported,    \* a caller that reports none
    Workloads,     \* what the processes may be there for: [Clients -> what each calls]
    Disliked,      \* datasets whose plans Dany rejects
    Clients,
    Ids,           \* approval identifiers
    MaxEdits       \* bound of the model

Names == EvaluationNames \cup AgentNames
            \cup {"contract", "profiles", "preflight", "plan-policy", "sources"}

Ops == {"model", "evaluation", "agent", "request", "materialize"}

ASSUME GatesAssumption ==
    /\ DOMAIN Variants = Names
    /\ DOMAIN Shipped = Names
    /\ \A n \in Names : Shipped[n] \in Variants[n]
    /\ Variants["contract"] \subseteq Contract
    /\ Variants["profiles"] \subseteq ProfilesDocument
    /\ Workloads \subseteq [Clients -> SUBSET Ops]
    /\ Catalogue \subseteq Compiled /\ Asked \subseteq Profiles
    /\ Machines \subseteq [Dimensions -> Nat] /\ Unreported \notin Machines
    /\ MaxEdits \in Nat

VARIABLES
    disk,          \* the documents
    token,         \* the approvals
    manifests,     \* [run -> manifest], the files under the gate's root
    tasks,         \* what the processes are there for, one of the Workloads
    call,          \* [Clients -> locals of the call in progress]
    edits,
    cut            \* for observation: approvals whose write was cut off, by an
                   \* error of the file system or the end of the process

vars == <<disk, token, manifests, tasks, call, edits, cut>>

Run == [contract : Variants["contract"], dataset : Datasets, profile : Profiles,
        recipe : Recipes]

Calls == [tool : {"dry-run"}, args : Run]

Cyber == INSTANCE ApprovalToken

Idle == [op |-> "idle"]

-----------------------------------------------------------------------------
\* Documents

\* In the order of the constructors.
Reads(op) ==
    CASE op = "evaluation" ->
            <<"plan-policy", "policy", "suites", "baseline", "candidate",
              "report", "regression", "decision", "dany">>
      [] op = "agent" -> <<"agent", "tools", "approval", "budget", "envelope", "sources">>
      [] op = "model" -> <<"contract", "preflight">>
      [] op \in {"request", "materialize"} -> <<"contract", "profiles">>

\* An edit of a document that nobody reads, or one that changes nothing, is left
\* out.
Watched ==
    UNION {{Reads(op)[i] : i \in DOMAIN Reads(op)} : op \in UNION {tasks[c] : c \in Clients}}

Edit(n, document) ==
    /\ edits < MaxEdits
    /\ document # disk[n]
    /\ disk' = [disk EXCEPT ![n] = document]
    /\ edits' = edits + 1
    /\ UNCHANGED <<token, manifests, call, cut, tasks>>

\* What a caller of the gate names: a compiled dataset as the catalogue showed
\* it, a profile, its hardware, and the approval when it materializes. The
\* hardware is no part of what is approved.
Requests == [dataset : Catalogue, profile : Asked, hardware : {Unreported}]

Materializations == [dataset : Catalogue, profile : Asked,
                     hardware : Machines \cup {Unreported}, token : Ids]

Begin(c, op, about) ==
    /\ call[c] = Idle
    /\ op \in tasks[c]
    /\ call' = [call EXCEPT ![c] = [op |-> op, at |-> "read", left |-> Reads(op),
                                    got |-> <<>>, about |-> about]]
    /\ UNCHANGED <<disk, token, manifests, edits, cut, tasks>>

\* A call that has read document n, and got d.
Gained(k, n, d) ==
    [op |-> k.op, at |-> "read", left |-> Tail(k.left), about |-> k.about,
     got |-> [m \in DOMAIN k.got \cup {n} |-> IF m = n THEN d ELSE k.got[m]]]

\* A contract is validated as soon as it is read.
Read(c) ==
    /\ call[c] # Idle /\ call[c].at = "read"
    /\ call[c].left # <<>>
    /\ LET n == Head(call[c].left)
       IN call' = [call EXCEPT ![c] =
                    IF n = "contract" /\ ~ValidContract(disk[n]) THEN Idle
                    ELSE Gained(call[c], n, disk[n])]
    /\ UNCHANGED <<disk, token, manifests, edits, cut, tasks>>

HasRead(c, ops) == call[c].op \in ops /\ call[c].at = "read" /\ call[c].left = <<>>

Acceptable(op, docs) ==
    CASE op = "agent" -> ValidAgent(docs)
      [] op = "evaluation" -> ValidEvaluation(docs) /\ ValidPlanPolicy(docs["plan-policy"])
      [] op = "model" -> ValidContract(docs.contract)

\* The inspection of the model, the evaluation or the agent. A runtime that
\* rejects a document raises, and nothing is reported.
Inspect(c) ==
    /\ HasRead(c, {"model", "evaluation", "agent"})
    /\ LET valid == Acceptable(call[c].op, call[c].got)
       IN call' = [call EXCEPT ![c] = IF valid THEN [@ EXCEPT !.at = "report"] ELSE Idle]
    /\ UNCHANGED <<disk, token, manifests, edits, cut, tasks>>

Report(c) ==
    /\ call[c] # Idle /\ call[c].at = "report"
    /\ call' = [call EXCEPT ![c] = Idle]
    /\ UNCHANGED <<disk, token, manifests, edits, cut, tasks>>

-----------------------------------------------------------------------------
\* The training execution gate

PlanFor(docs, about) ==
    LET profile == docs.profiles.profiles[about.profile]
        observed == IF about.hardware = Unreported THEN CurrentHardware(docs.contract)
                    ELSE about.hardware
    IN PlanOf(docs.contract, about.dataset, about.profile, profile, observed)

\* Dany reads the plan; the reviewer's verdict is a function of its text.
Accepted(docs, about) ==
    /\ docs.profiles.fixed
    /\ Plannable(about.dataset, docs.profiles.profiles[about.profile])
    /\ about.dataset.id \notin Disliked

\* Mutants of ApprovalArguments: bound to the dataset, the rest as it was; to
\* the whole plan, its blockers included.
ApprovalArgumentsLoose(plan) ==
    [plan.run EXCEPT !.contract = CHOOSE d \in Variants["contract"] : TRUE]

ApprovalArgumentsWhole(plan) == plan

ApprovalArguments(plan) == plan.run

RequestDryRun(c, t) ==
    /\ HasRead(c, {"request"})
    /\ LET docs == call[c].got
       IN IF Accepted(docs, call[c].about)
          THEN Cyber!Issue(t, [tool |-> "dry-run",
                               args |-> ApprovalArguments(PlanFor(docs, call[c].about))])
          ELSE UNCHANGED token
    /\ call' = [call EXCEPT ![c] = Idle]
    /\ UNCHANGED <<disk, manifests, edits, cut, tasks>>

\* The plan is reviewed again, and its manifest must not be there yet.
ReviewAgain(c) ==
    /\ HasRead(c, {"materialize"})
    /\ LET docs == call[c].got
           about == call[c].about
       IN call' = [call EXCEPT ![c] =
                    IF ~Accepted(docs, about) THEN Idle
                    ELSE LET plan == PlanFor(docs, about)
                         IN IF plan.run \in DOMAIN manifests THEN Idle
                            ELSE [op |-> "materialize", at |-> "consume",
                                  plan |-> plan, token |-> about.token]]
    /\ UNCHANGED <<disk, token, manifests, edits, cut, tasks>>

Consume(c) ==
    /\ call[c].op = "materialize" /\ call[c].at = "consume"
    /\ LET bound == [tool |-> "dry-run", args |-> ApprovalArguments(call[c].plan)]
       IN \/ /\ Cyber!Spend(call[c].token, bound)
             /\ call' = [call EXCEPT ![c].at = "write"]
          \/ /\ ~Cyber!Spendable(call[c].token, bound)
             /\ call' = [call EXCEPT ![c] = Idle]
             /\ UNCHANGED token
    /\ UNCHANGED <<disk, manifests, edits, cut, tasks>>

\* Mutant of WriteManifest: the test for an older manifest comes after the
\* approval is spent, and a failed contract stops the write.
WriteManifestLate(c) ==
    /\ call[c].op = "materialize" /\ call[c].at = "write"
    /\ IF ValidContract(disk["contract"])
       THEN LET plan == call[c].plan
            IN manifests' = [r \in DOMAIN manifests \cup {plan.run} |->
                                IF r = plan.run THEN [plan |-> plan, by |-> call[c].token]
                                ELSE manifests[r]]
       ELSE UNCHANGED manifests
    /\ call' = [call EXCEPT ![c] = Idle]
    /\ UNCHANGED <<disk, token, edits, cut, tasks>>

\* A temporary file of the call's own is renamed over the manifest, which may
\* have come into being since it was looked for. What is read back is whole.
WriteManifest(c) ==
    /\ call[c].op = "materialize" /\ call[c].at = "write"
    /\ LET plan == call[c].plan
       IN manifests' = [r \in DOMAIN manifests \cup {plan.run} |->
                            IF r = plan.run THEN [plan |-> plan, by |-> call[c].token]
                            ELSE manifests[r]]
    /\ call' = [call EXCEPT ![c] = Idle]
    /\ UNCHANGED <<disk, token, edits, cut, tasks>>

\* The directory, the temporary file or the rename fails: the call raises, its
\* process lives on, and the approval stays spent.
WriteFails(c) ==
    /\ call[c].op = "materialize" /\ call[c].at = "write"
    /\ cut' = cut \cup {call[c].token}
    /\ call' = [call EXCEPT ![c] = Idle]
    /\ UNCHANGED <<disk, token, manifests, edits, tasks>>

\* A refusal and a lapse are told apart by nobody here.
Decide(t) ==
    /\ Cyber!Decide(t, "approved") \/ Cyber!Lapse(t)
    /\ UNCHANGED <<disk, manifests, call, edits, cut, tasks>>

\* The process may end at any point; its call is lost.
Crash(c) ==
    /\ call[c] # Idle
    /\ cut' = IF call[c].at = "write" THEN cut \cup {call[c].token} ELSE cut
    /\ call' = [call EXCEPT ![c] = Idle]
    /\ UNCHANGED <<disk, token, manifests, edits, tasks>>

-----------------------------------------------------------------------------

Init ==
    /\ disk = Shipped
    /\ token = [t \in Ids |-> Cyber!Unissued]
    /\ manifests = <<>>
    /\ tasks \in Workloads
    /\ call = [c \in Clients |-> Idle]
    /\ edits = 0 /\ cut = {}

\* A call with an approval that is not approved yet ends where it is consumed,
\* having done nothing, and is left out.
Approved == {t \in Ids : token[t].status = "approved"}

Start(c) ==
    \/ \E op \in {"model", "evaluation", "agent"} : Begin(c, op, "documents")
    \/ \E r \in Requests : Begin(c, "request", r)
    \/ \E m \in Materializations : m.token \in Approved /\ Begin(c, "materialize", m)

Next ==
    \/ \E n \in Watched : \E document \in Variants[n] : Edit(n, document)
    \/ \E c \in Clients :
        \/ Start(c) \/ Read(c) \/ Inspect(c) \/ Report(c)
        \/ \E t \in Ids : RequestDryRun(c, t)
        \/ ReviewAgain(c) \/ Consume(c)
        \/ WriteManifest(c) \/ WriteFails(c)
        \/ Crash(c)
    \/ \E t \in Ids : Decide(t)

Spec == Init /\ [][Next]_vars

-----------------------------------------------------------------------------
\* Types

Plan == [run : Run, blockers : SUBSET (Dimensions \cup
            {"base-weights-not-downloaded", "base-checkpoint-not-ready",
             "training-execution-disabled", "training-policy-missing"})]

Locals ==
    {Idle}
    \cup [op : {"materialize"}, at : {"consume", "write"}, plan : Plan, token : Ids]

\* A call that reads has read some of what it must and has the rest left, and
\* each document it got somebody wrote.
ReaderTyped(c, k) ==
    /\ k.op \in tasks[c] /\ k.at \in {"read", "report"}
    /\ \A n \in DOMAIN k.got : k.got[n] \in Variants[n]
    /\ DOMAIN k.got \cup {k.left[i] : i \in DOMAIN k.left}
            = {Reads(k.op)[i] : i \in DOMAIN Reads(k.op)}

\* Every variable has its type.
TypeOK ==
    /\ DOMAIN disk = Names /\ \A n \in Names : disk[n] \in Variants[n]
    /\ Cyber!TokenTypeOK
    /\ \A r \in DOMAIN manifests : manifests[r].plan \in Plan /\ manifests[r].by \in Ids
    /\ DOMAIN call = Clients
    /\ \A c \in Clients : call[c] \in Locals \/ ReaderTyped(c, call[c])
    /\ edits \in 0..MaxEdits
    /\ cut \subseteq Ids
    /\ tasks \in Workloads

-----------------------------------------------------------------------------
\* Safety

Writing(c) == call[c].op = "materialize" /\ call[c].at \in {"consume", "write"}

Reporting(c, op) == call[c].op = op /\ call[c].at = "report"

\* No gate opens: whatever people write into the documents, and however old
\* and new ones mix in what a call has read, a call that gets past the
\* validators reports no phase of the evaluation ready, no candidate fit for
\* promotion, no model and no agent ready to run, and no training plan without a
\* blocker; nor is there one in a manifest. The validators and the readiness
\* rules are in different modules, and each must hold the other's flags shut.
NothingReady ==
    /\ \A c \in Clients :
        /\ Reporting(c, "evaluation") =>
            /\ ReadyPhases(call[c].got) = {}
            /\ PromotionEligibility(call[c].got) # {}
        /\ Reporting(c, "model") =>
            ModelBlockers(call[c].got.contract, call[c].got.preflight) # {}
        /\ Reporting(c, "agent") => ~AgentReady(call[c].got, call[c].got.sources)
        /\ Writing(c) => ~Ready(call[c].plan)
    /\ \A r \in DOMAIN manifests : ~Ready(manifests[r].plan)

\* A manifest on disk is the one the user approved: its approval is spent, and
\* it bound the run, which is the contract, dataset, profile and recipe of the
\* plan in it, though documents changed and processes read them at other
\* times; the contract was a valid one, and Dany accepts the plan.
ManifestAsApproved ==
    \A r \in DOMAIN manifests :
        LET m == manifests[r]
        IN /\ m.plan.run = r
           /\ token[m.by].status = "consumed"
           /\ token[m.by].call = [tool |-> "dry-run", args |-> r]
           /\ ValidContract(r.contract)
           /\ r.dataset \notin Disliked

\* A spent approval has its manifest, or the manifest is being written, or the
\* very write it was spent for was cut off by an error or a crash: the gate
\* makes every refusal of its own (the review, the contract, the older manifest)
\* before it consumes, and what changes between that and the write, an edit or
\* another call for the same run, makes it refuse nothing. The exporter and the
\* compiler do refuse after they have consumed.
SpendsAreHonoured ==
    \A t \in Ids : token[t].status = "consumed" =>
        \/ t \in cut
        \/ token[t].call.args \in DOMAIN manifests
        \/ \E c \in Clients : /\ Writing(c) /\ call[c].at = "write"
                              /\ call[c].token = t

=============================================================================
