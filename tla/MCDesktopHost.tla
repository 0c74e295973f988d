---------------------------- MODULE MCDesktopHost ----------------------------
(***************************************************************************)
(* DesktopHost with a pool of one thread, so that requests queue, and       *)
(* enough requests for one to respawn a backend while another still waits.  *)
(***************************************************************************)
EXTENDS DesktopHost, TLC

Symmetry == Permutations(Requests)

=============================================================================
