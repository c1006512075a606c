----------------------------- MODULE MCLibrary -----------------------------
(* Instances of Library for TLC.                                           *)
EXTENDS Library, TLC

OneBookEach == [m \in Members |-> 1]

Symmetry == Permutations(Requests) \cup Permutations(Members) \cup Permutations(Loans)
              \cup Permutations(Copies)
=============================================================================
