-------------------------- MODULE MCAssistedActions --------------------------
(***************************************************************************)
(* AssistedActions with one text the rules recognise and one they do not.   *)
(***************************************************************************)
EXTENDS AssistedActions, TLC

CONSTANTS generate, remember, look, ruled, free

MCDeterministic == ruled :> generate

=============================================================================
