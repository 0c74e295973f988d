-------------------------- MODULE TrainingPipeline --------------------------
(***************************************************************************)
(* From a chat to a compiled training set: vault, curation, dataset factory,*)
(* review, export and compilation composed. Clients interleave between any  *)
(* two steps and may crash there; the user reviews answers and decides      *)
(* approvals meanwhile.                                                     *)
(***************************************************************************)
EXTENDS LearningVault, DatasetCompiler

Init ==
    /\ exps = [e \in Exps |-> NotCaptured]
    /\ feedback = <<>>
    /\ versions = <<>> /\ versionDirs = {}
    /\ exports = {} /\ exportDirs = {}
    /\ compiled = {} /\ compiledDirs = {}
    /\ token = [t \in Ids |-> Cyber!Unissued]
    /\ call = [c \in Clients |-> Idle]
    /\ crashes = 0

Next ==
    \/ VaultNext \/ FactoryNext \/ ExportNext \/ CompilerNext
    \/ \E t \in Ids : Decide(t)
    \/ \E c \in Clients : Crash(c)

Spec == Init /\ [][Next]_vars

-----------------------------------------------------------------------------
\* Types

Todo == Seq([type : Types, items : SUBSET Item])

Locals ==
    {Idle}
    \cup [op : {"collect"}, at : {"feedback"}, seen : [Exps -> Experience \cup {NotCaptured}]]
    \cup [op : {"collect"}, at : {"collected"}, todo : Todo]
    \cup [op : {"create"}, at : {"look", "number"}, todo : Todo]
    \cup [op : {"create"}, at : {"publish", "register"}, todo : Todo, about : Version]
    \cup [op : {"approve"}, at : {"consume", "transition"}, about : Version, token : Ids]
    \cup [op : {"export", "compile"}, at : {"consume", "place", "publish", "register"},
          about : Export, token : Ids]

\* Every variable has its type (the tables of the vault and the registries).
TypeOK ==
    /\ exps \in [Exps -> Experience \cup {NotCaptured}]
    /\ feedback \in Seq(Feedback)
    /\ \A v \in DOMAIN versions :
        v \in Version /\ versions[v] \in {"candidate", "approved-for-export"}
    /\ versionDirs \subseteq Version
    /\ exports \cup exportDirs \cup compiled \cup compiledDirs \subseteq Export
    /\ Cyber!TokenTypeOK
    /\ call \in [Clients -> Locals]
    /\ crashes \in 0..MaxCrashes

-----------------------------------------------------------------------------
\* Safety

Consumed(tool, args) ==
    \E t \in Ids : token[t].status = "consumed" /\ token[t].call = [tool |-> tool, args |-> args]

\* Nothing is trained on without its papers: a compiled set comes of a
\* registered export of a promoted version, the user has spent one approval
\* for each of the three steps, Dany accepts every text in it, and every
\* answer in it passed her gate in the vault and was accepted or corrected
\* by the user when it was collected.
CompiledHasProvenance ==
    \A x \in compiled :
        LET v == x.version
        IN /\ x \in exports
           /\ v \in DOMAIN versions /\ versions[v] = "approved-for-export"
           /\ Consumed("approve", v) /\ Consumed("export", x) /\ Consumed("compile", x)
           /\ DanyAccepts(v)
           /\ \A i \in v.items : i.type = "conversation" =>
                /\ exps[i.exp].quality = "passed"
                /\ i.review \in {"user_accepted", "user_corrected"}

\* The global deduplication of the curator: an item, payload and provenance,
\* is in one version at most, whatever was curated, repeated or interrupted
\* before. (One curator: two pass the test of the registry side by side.)
NoItemTwice ==
    \A v, w \in DOMAIN versions : v # w => v.items \cap w.items = {}

\* Whatever is registered keeps its files, through crashes of the curator and
\* of the operator at any step and with both at work: versions, exports and
\* compiled sets, so that the preflight never degrades. It holds while one
\* process curates and one promotes, exports and compiles (see
\* ExportsKeepFiles for two).
RegisteredKeepFiles ==
    /\ DOMAIN versions \subseteq versionDirs
    /\ exports \subseteq exportDirs
    /\ PipelineReady

\* Training and evaluation rows of a compiled set never overlap, together are
\* the whole version, and there is always something to train on.
SplitIsSound ==
    \A x \in compiled :
        /\ TrainRows(x) # {}
        /\ TrainRows(x) \cap EvalRows(x) = {}
        /\ x.percent > 0 /\ Cardinality(x.version.items) > 1 => EvalRows(x) # {}
        /\ Cardinality(TrainRows(x) \cup EvalRows(x)) = Cardinality(x.version.items)

\* "export criado torna-se imutavel" (dataset_export.py:36): a registered
\* export keeps its files. Two calls for one plan refute it: the loser's
\* rename fails and its handler removes the winner's directory.
ExportsKeepFiles == exports \subseteq exportDirs

\* The registries behave as the ledger promises, whatever happens to files,
\* processes and approvals.
Ledger == INSTANCE TrainingLedger
ImplementsLedger == Ledger!LedgerSpec

=============================================================================
