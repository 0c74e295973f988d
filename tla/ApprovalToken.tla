---------------------------- MODULE ApprovalToken ----------------------------
(***************************************************************************)
(* What the approval store of Cyber promises, without clocks, rows or       *)
(* connections: an approval is issued for one call, is decided once, may    *)
(* lapse, and is spent at most once, by the call it was issued for.         *)
(*                                                                          *)
(* A call is the triple the store binds: tool, effect, arguments digest.    *)
(* Approvals (the SQLite store with its read, stamp and write steps) is     *)
(* shown to implement this module; TaskExecution builds on it.              *)
(***************************************************************************)

CONSTANTS Ids,    \* approval identifiers
          Calls   \* the calls an approval can be bound to

VARIABLE token    \* [Ids -> what is known of the approval]

Unissued == [status |-> "none"]

Token == [status : {"pending", "approved", "denied", "expired", "consumed"},
          call   : Calls]

TokenTypeOK == token \in [Ids -> Token \cup {Unissued}]

-----------------------------------------------------------------------------

SetStatus(i, s) == token' = [token EXCEPT ![i] = [@ EXCEPT !.status = s]]

Issue(i, c) ==
    /\ token[i] = Unissued
    /\ token' = [token EXCEPT ![i] = [status |-> "pending", call |-> c]]

Decide(i, verdict) ==
    /\ token[i].status = "pending"
    /\ SetStatus(i, verdict)

\* The deadline is noticed by a decision or by an attempt to spend.
Lapse(i) ==
    /\ token[i].status \in {"pending", "approved"}
    /\ SetStatus(i, "expired")

\* The guards of a successful consume, apart from its clock.
Spendable(i, c) ==
    /\ token[i].status = "approved"
    /\ token[i].call = c

Spend(i, c) ==
    /\ Spendable(i, c)
    /\ SetStatus(i, "consumed")

-----------------------------------------------------------------------------

TokenInit == token = [i \in Ids |-> Unissued]

TokenNext ==
    \E i \in Ids :
        \/ \E c \in Calls : Issue(i, c) \/ Spend(i, c)
        \/ \E verdict \in {"approved", "denied"} : Decide(i, verdict)
        \/ Lapse(i)

TokenSpec == TokenInit /\ [][TokenNext]_token

=============================================================================
