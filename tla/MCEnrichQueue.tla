---------------------------- MODULE MCEnrichQueue ----------------------------
(* Small instances of EnrichQueue for TLC.                                  *)
EXTENDS EnrichQueue, TLC

Symmetry == Permutations(Workers)
==============================================================================
