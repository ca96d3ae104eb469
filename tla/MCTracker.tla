------------------------------ MODULE MCTracker ------------------------------
(* Symmetry for the runs of Tracker.                                        *)
EXTENDS Tracker, TLC

Symmetry == Permutations(Requests) \cup Permutations(Users) \cup Permutations(Keys)
=============================================================================
