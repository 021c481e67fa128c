---------------------------- MODULE MCEpochRound ----------------------------
(* EpochRound on small instances: sets of model values and the symmetry of  *)
(* processes and submissions that only differ in their name.                *)
EXTENDS EpochRound, TLC

MCSymmetry == Permutations(Submissions) \cup Permutations(Operators)
                \cup Permutations(Invocations) \cup Permutations(Workers)

=============================================================================
