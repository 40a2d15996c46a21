---------------------------- MODULE MCServiceTun ----------------------------
(* ServiceTun with two profiles, which are interchangeable.                 *)
EXTENDS ServiceTun, TLC

ProfileSymmetry == Permutations(Profiles)
=============================================================================
