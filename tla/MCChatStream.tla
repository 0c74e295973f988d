----------------------------- MODULE MCChatStream -----------------------------
(***************************************************************************)
(* ChatStream with a request that has one candidate and one the router can  *)
(* fall back for. With one thread they queue and the second inherits its    *)
(* route; with two they also run side by side.                              *)
(***************************************************************************)
EXTENDS ChatStream, TLC

MCCandidates == [r \in Requests |-> IF r = "plain" THEN <<"local">>
                                    ELSE <<"cloud", "local">>]

Symmetry == Permutations(Workers)

=============================================================================
