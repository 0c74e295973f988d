---------------------------- MODULE TrainingState ----------------------------
(***************************************************************************)
(* What the modules of the training pipeline share: the Learning Vault, the *)
(* three registries with the directories beside them, the approvals, and    *)
(* the locals of the processes that work on them.                           *)
(*                                                                          *)
(* A directory and its registry row are written by separate steps (a rename,*)
(* then a transaction), and each SQLite connection is a transaction of its  *)
(* own. A client is one call at a time: a thread of the resident server     *)
(* (two of them), a command-line process, a script that curates.            *)
(***************************************************************************)
EXTENDS Integers, Sequences, FiniteSets

CONSTANTS
    Exps,          \* experience identifiers
    Corrections,   \* texts users correct answers with
    Answer,        \* the recorded answer of an experience
    Poor,          \* texts that Dany rejects when she reads them in a dataset
    Percents,      \* eval_percent values callers ask for
    Clients,
    Curators,      \* the clients that curate
    Operators,     \* the clients that promote, export and compile
    Ids,           \* approval identifiers
    Limit,         \* rows of feedback that one collect reads
    MaxFeedback,   \* bound of the model: rows of learning_feedback
    MaxCrashes     \* bound of the model

ASSUME TrainingAssumption ==
    /\ IsFiniteSet(Exps)
    /\ Curators \cup Operators \subseteq Clients
    /\ Answer \notin Corrections
    /\ Poor \subseteq Corrections \cup {Answer}
    /\ Percents \subseteq 0..50
    /\ Limit \in Nat \ {0} /\ MaxFeedback \in Nat /\ MaxCrashes \in Nat

VARIABLES
    exps,          \* Vault: the experiences table
    feedback,      \* Vault: learning_feedback, oldest first
    versions,      \* dataset registry: version -> state
    versionDirs,   \* version directories under the factory's root
    exports,       \* export registry: the ids registered
    exportDirs,
    compiled,      \* compiler registry: the exports compiled
    compiledDirs,
    token,         \* the approvals
    call,          \* [Clients -> locals of the call in progress]
    crashes

vault == <<exps, feedback>>
factory == <<versions, versionDirs>>
released == <<exports, exportDirs>>
compilation == <<compiled, compiledDirs>>
vars == <<vault, factory, released, compilation, token, call, crashes>>

Texts == Corrections \cup {Answer}
Types == {"conversation", "preference"}
Verdicts == {"accepted", "rejected", "corrected"}
Reviews == {"unreviewed", "user_accepted", "user_rejected", "user_corrected"}

Experience == [quality : {"none", "failed", "passed"}, review : Reviews]
NotCaptured == [quality |-> "absent", review |-> "unreviewed"]
Feedback == [exp : Exps, verdict : Verdicts, text : Texts]

\* What the content hash of an item covers: payload and provenance. The
\* review state is part of the provenance of a conversation, the feedback row
\* of that of a preference.
Item == [type : Types, exp : Exps, text : Texts, review : Reviews, row : Nat]

\* An id is made of type, number and content hash.
Version == [type : Types, number : Nat, items : SUBSET Item]

\* An export id is the hash of source version, percent and split seed; the
\* export fixes the training format, so it also names what is compiled of it.
Export == [version : Version, percent : Percents]

Idle == [op |-> "idle"]

\* The store binds tool, effect and arguments: the tool fixes the effect.
Calls == [tool : {"approve"}, args : Version]
            \cup [tool : {"export", "compile"}, args : Export]

Cyber == INSTANCE ApprovalToken

-----------------------------------------------------------------------------

\* Ids are drawn at random: nobody holds one before it is issued. A call with
\* one that the user has not approved yet ends where it is consumed, having
\* done nothing, and is left out; one bound to another call, or void by the
\* time it is consumed, is not.
Approved == {t \in Ids : token[t].status = "approved"}

\* The row a client waits in, and where it goes next.
At(c, op, at) == call[c].op = op /\ call[c].at = at
Goto(c, at) == call' = [call EXCEPT ![c].at = at]
Start(c, locals) == call[c] = Idle /\ call' = [call EXCEPT ![c] = locals]
Finish(c) == call' = [call EXCEPT ![c] = Idle]

\* Every service checks its token with the same call of the store; a token
\* that is not spendable raises and ends the call.
Consume(c, op, next) ==
    /\ At(c, op, "consume")
    /\ LET t == call[c].token
           bound == [tool |-> op, args |-> call[c].about]
       IN \/ Cyber!Spend(t, bound) /\ Goto(c, next)
          \/ /\ ~Cyber!Spendable(t, bound)
             /\ Finish(c)
             /\ UNCHANGED token

\* A process dies: its directories and its transactions stay, its locals go.
Crash(c) ==
    /\ call[c] # Idle
    /\ crashes < MaxCrashes
    /\ crashes' = crashes + 1
    /\ Finish(c)
    /\ UNCHANGED <<vault, factory, released, compilation, token>>

\* The user approves a card, or it becomes void: a refusal and a lapse are
\* told apart by nobody here.
Decide(t) ==
    /\ Cyber!Decide(t, "approved") \/ Cyber!Lapse(t)
    /\ UNCHANGED <<vault, factory, released, compilation, call, crashes>>

=============================================================================
