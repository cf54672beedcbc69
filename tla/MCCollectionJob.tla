--------------------------- MODULE MCCollectionJob ---------------------------
(* Constants of CollectionJob for TLC.                                      *)
EXTENDS CollectionJob, TLC

\* POIs are only compared with each other.
Symmetry == Permutations(Pois)
=============================================================================
