-------------------------- MODULE MCBrowserSessions --------------------------
(***************************************************************************)
(* BrowserSessions with room for two sessions and three identifiers, so     *)
(* that sessions are evicted both by age and by number.                     *)
(***************************************************************************)
EXTENDS BrowserSessions, TLC

Symmetry == Permutations(Ids) \cup Permutations(Callers)

=============================================================================
