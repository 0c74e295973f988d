----------------------------- MODULE MCApprovals -----------------------------
(***************************************************************************)
(* Approvals with one approval, racing deciders and racing consumers.       *)
(* Approvals never share state, so one row carries every interleaving.      *)
(***************************************************************************)
EXTENDS Approvals, TLC

Symmetry == Permutations(Deciders) \cup Permutations(Consumers)

=============================================================================
