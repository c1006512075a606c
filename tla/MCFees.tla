------------------------------- MODULE MCFees -------------------------------
(* Instances of Fees for TLC.                                              *)
EXTENDS Fees, TLC

Symmetry == Permutations(Requests) \cup Permutations(Payments) \cup Permutations(Invoices)
==============================================================================
