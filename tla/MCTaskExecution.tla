--------------------------- MODULE MCTaskExecution ---------------------------
(***************************************************************************)
(* A plan of three steps listed out of dependency order, so that a run      *)
(* takes more than one pass: "edit" needs an approval and waits for         *)
(* "grant"; "grant" needs one too and opens a scope to the session; "read"  *)
(* of that scope waits for "grant" and fails in a session without it.       *)
(***************************************************************************)
EXTENDS TaskExecution, TLC

MCOrder == <<"edit", "grant", "read">>
MCDependsOn == [s \in {"edit", "grant", "read"} |->
                  IF s = "grant" THEN {} ELSE {"grant"}]
MCEffect == [s \in {"edit", "grant", "read"} |->
               CASE s = "edit" -> "guarded" [] s = "grant" -> "grant"
                 [] s = "read" -> "scoped"]

=============================================================================
