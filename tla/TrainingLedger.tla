--------------------------- MODULE TrainingLedger ---------------------------
(***************************************************************************)
(* What the training pipeline promises of its registries, without files,    *)
(* processes, approvals or time: versions are only added, under a number no *)
(* other version of the type has; a version is promoted once and never      *)
(* demoted; only promoted versions are exported, only exports compiled; and *)
(* nothing is ever taken back or changed.                                   *)
(***************************************************************************)

CONSTANTS Version,      \* what a version can be: records with type, number, items
          Export        \* what an export can be: records with version, percent

VARIABLES versions, exports, compiled

entries == <<versions, exports, compiled>>

Fresh(v) ==
    /\ v.items # {}
    /\ \A w \in DOMAIN versions :
        w.type = v.type => w.number # v.number /\ w.items # v.items

Add(v) ==
    /\ Fresh(v)
    /\ versions' = [w \in DOMAIN versions \cup {v} |->
                        IF w = v THEN "candidate" ELSE versions[w]]
    /\ UNCHANGED <<exports, compiled>>

Promote(v) ==
    /\ v \in DOMAIN versions /\ versions[v] = "candidate"
    /\ versions' = [versions EXCEPT ![v] = "approved-for-export"]
    /\ UNCHANGED <<exports, compiled>>

AddExport(x) ==
    /\ x \notin exports
    /\ x.version \in DOMAIN versions
    /\ versions[x.version] = "approved-for-export"
    /\ exports' = exports \cup {x}
    /\ UNCHANGED <<versions, compiled>>

AddCompiled(x) ==
    /\ x \in exports \ compiled
    /\ compiled' = compiled \cup {x}
    /\ UNCHANGED <<versions, exports>>

LedgerInit == versions = <<>> /\ exports = {} /\ compiled = {}

\* The entry a step adds or promotes is found in the next state.
LedgerNext ==
    \/ \E v \in DOMAIN versions' : Add(v) \/ Promote(v)
    \/ \E x \in exports' : AddExport(x)
    \/ \E x \in compiled' : AddCompiled(x)

LedgerSpec == LedgerInit /\ [][LedgerNext]_entries

=============================================================================
