---------------------------- MODULE MCResumeStore ----------------------------
(* Symmetry for the run of ResumeStore.                                     *)
EXTENDS ResumeStore, TLC

Symmetry ==
    Permutations(Requests) \cup Permutations(Users) \cup Permutations(Objects)
=============================================================================
