------------------------------ MODULE MCRelease ------------------------------
(* Two versions and two reviewers, a few edits, builds, gates and tags around  *)
(* the runs of `create` and `approve`.                                         *)
EXTENDS Release, TLC

MCVersions == 1 .. 2
Symmetry == Permutations(Reviewers)
=============================================================================
