--------------------------- MODULE DatasetCompiler ---------------------------
(***************************************************************************)
(* The compilation of an export into a training format: the service with    *)
(* its approval (training_dataset_runtime.py) and the compiler              *)
(* (training_dataset_compiler.py), which follows the same protocol as the   *)
(* exporter: source read and verified, directory renamed, row inserted.     *)
(***************************************************************************)
EXTENDS DatasetExport

\* The type decides; a caller may only name the format it decides on.
FormatOf(type) ==
    CASE type = "conversation" -> "sft"
      [] type = "preference" -> "preference"

\* What a row becomes: a conversation its messages, a preference its prompt,
\* chosen and rejected answers, each with the binding to its source item.
CompileRow(x, item) == [format |-> FormatOf(x.version.type), source |-> item]

TrainRows(x) == {CompileRow(x, i) : i \in TrainItems(x)}
EvalRows(x) == {CompileRow(x, i) : i \in EvalItems(x)}

SourceReadable(x) == ExportVerified(x)

RequestCompile(t, x) ==
    /\ SourceReadable(x)
    /\ Cyber!Issue(t, [tool |-> "compile", args |-> x])
    /\ UNCHANGED <<vault, factory, released, compilation, call, crashes>>

BeginCompile(c, t, x) ==
    /\ SourceReadable(x)
    /\ Start(c, [op |-> "compile", at |-> "consume", about |-> x, token |-> t])
    /\ UNCHANGED <<vault, factory, released, compilation, token, crashes>>

ConsumeCompile(c) ==
    /\ Consume(c, "compile", "place")
    /\ UNCHANGED <<vault, factory, released, compilation, crashes>>

\* The source is verified anew, after the approval is spent.
PlaceCompiled(c) ==
    /\ At(c, "compile", "place")
    /\ LET x == call[c].about
       IN IF ~SourceReadable(x) \/ x \in compiled \/ x \in compiledDirs
          THEN Finish(c) ELSE Goto(c, "publish")
    /\ UNCHANGED <<vault, factory, released, compilation, token, crashes>>

PublishCompiled(c) ==
    /\ At(c, "compile", "publish")
    /\ LET x == call[c].about
       IN IF x \in compiledDirs
          THEN compiledDirs' = compiledDirs \ {x} /\ Finish(c)
          ELSE compiledDirs' = compiledDirs \cup {x} /\ Goto(c, "register")
    /\ UNCHANGED <<vault, factory, released, compiled, token, crashes>>

RegisterCompiled(c) ==
    /\ At(c, "compile", "register")
    /\ LET x == call[c].about
       IN IF x \in compiled
          THEN compiledDirs' = compiledDirs \ {x} /\ UNCHANGED compiled
          ELSE compiled' = compiled \cup {x} /\ UNCHANGED compiledDirs
    /\ Finish(c)
    /\ UNCHANGED <<vault, factory, released, token, crashes>>

CompilerNext ==
    \/ \E t \in Ids, x \in exports : RequestCompile(t, x)
    \/ \E c \in Operators, t \in Approved, x \in exports : BeginCompile(c, t, x)
    \/ \E c \in Clients :
        \/ ConsumeCompile(c) \/ PlaceCompiled(c)
        \/ PublishCompiled(c) \/ RegisterCompiled(c)

-----------------------------------------------------------------------------
\* The preflight's catalogue (training_preflight_runtime.py), read only

CompiledVerified(x) == x \in compiled /\ x \in compiledDirs

\* One compiled dataset that fails its check degrades the whole pipeline.
PipelineReady == \A x \in compiled : CompiledVerified(x)

=============================================================================
