--------------------------- MODULE MCProfileStore ---------------------------
(* ProfileStore with interchangeable profiles and downloads.               *)
EXTENDS ProfileStore, TLC

StoreSymmetry == Permutations(Profiles) \cup Permutations(Downloads)
=============================================================================
