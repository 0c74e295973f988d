------------------------- MODULE MCTrainingPipeline -------------------------
(***************************************************************************)
(* TrainingPipeline on small instances.                                     *)
(***************************************************************************)
EXTENDS TrainingPipeline, TLC

Symmetry == Permutations(Ids)

=============================================================================
