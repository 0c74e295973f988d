---------------------------- MODULE DatasetExport ----------------------------
(***************************************************************************)
(* The local export of an approved version: the service with its own        *)
(* approval (learning_export_runtime.py) and the exporter (dataset_export.py)*)
(*                                                                          *)
(* The id of an export is the hash of its plan, so two calls for the same   *)
(* plan aim at the same directory. The look at the registry and the test of *)
(* the directory come before the rename, unguarded by any lock.             *)
(***************************************************************************)
EXTENDS DatasetFactory

\* Python's round(): halves go to the even neighbour.
RoundHalfEven(n, d) ==
    LET q == n \div d
        twice == 2 * (n % d)
    IN IF twice > d \/ (twice = d /\ q % 2 = 1) THEN q + 1 ELSE q

\* Mutant of EvalCount: without the bounds, a small set may lose its training
\* part or its evaluation part.
EvalCountUnbounded(count, percent) ==
    IF count < 2 \/ percent = 0 THEN 0 ELSE RoundHalfEven(count * percent, 100)

EvalCount(count, percent) ==
    IF count < 2 \/ percent = 0 THEN 0
    ELSE LET desired == RoundHalfEven(count * percent, 100)
             most == count - 1
         IN IF desired < 1 THEN 1 ELSE IF desired > most THEN most ELSE desired

\* The items of lowest rank evaluate. The rank is a hash of item and seed: a
\* fixed choice, the same for every call.
EvalItems(x) ==
    LET items == x.version.items
        n == EvalCount(Cardinality(items), x.percent)
    IN CHOOSE s \in SUBSET items : Cardinality(s) = n

TrainItems(x) == x.version.items \ EvalItems(x)

\* Mutant of Exportable: any version whose files verify is exported.
ExportableVerified(v) == Verified(v)

\* _source of the service, and again _validate_source of the exporter.
Exportable(v) ==
    /\ v \in DOMAIN versions
    /\ versions[v] = "approved-for-export"
    /\ Verified(v)
    /\ v.items # {}

RequestExport(t, x) ==
    /\ Exportable(x.version)
    /\ Cyber!Issue(t, [tool |-> "export", args |-> x])
    /\ UNCHANGED <<vault, factory, released, compilation, call, crashes>>

BeginExport(c, t, x) ==
    /\ Exportable(x.version)
    /\ Start(c, [op |-> "export", at |-> "consume", about |-> x, token |-> t])
    /\ UNCHANGED <<vault, factory, released, compilation, token, crashes>>

ConsumeExport(c) ==
    /\ Consume(c, "export", "place")
    /\ UNCHANGED <<vault, factory, released, compilation, crashes>>

\* Raises before anything is written, with the approval already spent.
PlaceExport(c) ==
    /\ At(c, "export", "place")
    /\ LET x == call[c].about
       IN IF x \in exports \/ x \in exportDirs THEN Finish(c) ELSE Goto(c, "publish")
    /\ UNCHANGED <<vault, factory, released, compilation, token, crashes>>

PublishExport(c) ==
    /\ At(c, "export", "publish")
    /\ LET x == call[c].about
       IN IF x \in exportDirs
          THEN exportDirs' = exportDirs \ {x} /\ Finish(c)
          ELSE exportDirs' = exportDirs \cup {x} /\ Goto(c, "register")
    /\ UNCHANGED <<vault, factory, exports, compilation, token, crashes>>

RegisterExport(c) ==
    /\ At(c, "export", "register")
    /\ LET x == call[c].about
       IN IF x \in exports
          THEN exportDirs' = exportDirs \ {x} /\ UNCHANGED exports
          ELSE exports' = exports \cup {x} /\ UNCHANGED exportDirs
    /\ Finish(c)
    /\ UNCHANGED <<vault, factory, compilation, token, crashes>>

\* verify_export: the files are there and hash to what the row says.
ExportVerified(x) == x \in exports /\ x \in exportDirs

ExportNext ==
    \/ \E t \in Ids, v \in DOMAIN versions, p \in Percents :
        RequestExport(t, [version |-> v, percent |-> p])
    \/ \E c \in Operators, t \in Approved, v \in DOMAIN versions, p \in Percents :
        BeginExport(c, t, [version |-> v, percent |-> p])
    \/ \E c \in Clients :
        ConsumeExport(c) \/ PlaceExport(c) \/ PublishExport(c) \/ RegisterExport(c)

=============================================================================
