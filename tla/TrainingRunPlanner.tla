------------------------- MODULE TrainingRunPlanner -------------------------
(***************************************************************************)
(* The model contract (model_contract.py), the run planner                  *)
(* (training_run_planner.py) and the blockers of the model                  *)
(* (model_runtime.py): functions of documents, hardware and a compiled      *)
(* dataset. Nothing here is read or written; ReadinessGates does that.      *)
(*                                                                          *)
(* A document is a record of what its validator and its readers tell apart. *)
(* The values that a validator fixes outright are one field, "fixed".       *)
(***************************************************************************)
EXTENDS Integers, FiniteSets

CONSTANTS Datasets,    \* compiled datasets, by id and content hash
          Recipes      \* hyperparameters of a profile

Execution == {"stage12", "training", "automatic-training", "automatic-checkpoint",
              "automatic-merge", "automatic-promotion", "automatic-export"}

\* Flags of other sections that must be off as well.
Guarded == {"weights-download", "inference-is-rachel-model",
            "inference-is-training-base", "full-finetune", "phase-1",
            "local-weight-training"}

Policies == {"cyber", "dany"}

\* What a machine has and a profile requires; the two flags count 0 or 1.
Dimensions == {"nvidia_cuda", "torch_cuda", "vram_gb", "ram_gb", "free_disk_gb"}

Base == [selected   : BOOLEAN,
         pinned     : BOOLEAN,      \* repository, license, LitGPT commit, ...
         weights    : {"not-downloaded", "downloaded", "other"},
         checkpoint : {"not-created", "litgpt-ready", "other"},
         path       : BOOLEAN]      \* a training checkpoint is named

Contract == [fixed     : BOOLEAN,
             base      : Base,
             on        : SUBSET (Execution \cup Guarded),
             required  : SUBSET Policies,
             torch     : BOOLEAN,             \* the audit of the machine
             audit     : [Dimensions -> Nat]]

ValidBase(base) ==
    IF ~base.selected THEN ~base.path
    ELSE /\ base.pinned
         /\ base.weights \in {"not-downloaded", "downloaded"}
         /\ base.checkpoint \in {"not-created", "litgpt-ready"}
         /\ base.weights = "not-downloaded" => ~base.path
         /\ base.checkpoint = "litgpt-ready" => base.path

\* The download of weights is looked at in a selected base only.
Forbidden(base) ==
    Execution \cup (IF base.selected THEN Guarded ELSE Guarded \ {"weights-download"})

\* Mutant of ValidContract: the execution policy is left to the planner.
ValidContractSections(contract) ==
    /\ contract.fixed
    /\ ValidBase(contract.base)
    /\ contract.on \cap (Forbidden(contract.base) \ Execution) = {}
    /\ contract.required = Policies

ValidContract(contract) ==
    /\ contract.fixed
    /\ ValidBase(contract.base)
    /\ contract.on \cap Forbidden(contract.base) = {}
    /\ contract.required = Policies

-----------------------------------------------------------------------------
\* Hardware

Profile == [candidate : BOOLEAN, needs : [Dimensions -> Nat], recipe : Recipes]

Profiles == {"current-cpu-blocked", "lora-minimum", "lora-recommended"}

ProfilesDocument == [fixed : BOOLEAN, profiles : [Profiles -> Profile]]

\* The audit says nothing of video memory, which counts as none.
CurrentHardware(contract) == [contract.audit EXCEPT !["vram_gb"] = 0]

HardwareBlockers(profile, observed) ==
    {d \in Dimensions : observed[d] < profile.needs[d]}

-----------------------------------------------------------------------------
\* Plans

\* What the caller read from the catalogue; "integrity" is as old as that.
Compiled == [id : Datasets, format : {"sft", "preference"}, integrity : BOOLEAN]

ValidDataset(dataset) == dataset.format = "sft" /\ dataset.integrity

BaseBlockers(base) ==
    (IF base.weights = "downloaded" THEN {} ELSE {"base-weights-not-downloaded"})
        \cup (IF base.checkpoint = "litgpt-ready" /\ base.path THEN {}
              ELSE {"base-checkpoint-not-ready"})

ExecutionBlockers(contract) ==
    (IF "training" \in contract.on THEN {} ELSE {"training-execution-disabled"})
        \cup {"training-policy-missing" : p \in Policies \ contract.required}

Plannable(dataset, profile) == ValidDataset(dataset) /\ profile.candidate

\* The hash of these is the run's id. Neither the hardware nor what the
\* profile requires is part of it.
Identity(contract, dataset, name, profile) ==
    [contract |-> contract, dataset |-> dataset.id, profile |-> name,
     recipe |-> profile.recipe]

PlanOf(contract, dataset, name, profile, observed) ==
    [run      |-> Identity(contract, dataset, name, profile),
     blockers |-> HardwareBlockers(profile, observed)
                    \cup BaseBlockers(contract.base)
                    \cup ExecutionBlockers(contract)]

Ready(plan) == plan.blockers = {}

\* What the preflight finds: whether a compiled dataset can be read, and
\* whether the source tree of the training backend is there.
Preflight == [data : BOOLEAN, backend : BOOLEAN]

\* The blockers of the model runtime.
ModelBlockers(contract, preflight) ==
    (IF contract.base.selected THEN BaseBlockers(contract.base)
     ELSE {"base-model-unselected"})
        \cup (IF preflight.data THEN {} ELSE {"training-data-unavailable"})
        \cup (IF preflight.backend THEN {} ELSE {"training-backend-unavailable"})
        \cup (IF contract.torch THEN {} ELSE {"ml-stack-not-provisioned"})
        \cup (IF "local-weight-training" \in contract.on THEN {}
              ELSE {"current-hardware-weight-training-blocked"})
        \cup (IF "training" \in contract.on THEN {} ELSE {"training-execution-disabled"})

=============================================================================
