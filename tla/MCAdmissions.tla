---------------------------- MODULE MCAdmissions ----------------------------
(* Instances of Admissions for TLC.                                        *)
EXTENDS Admissions, TLC

Symmetry == Permutations(Requests) \cup Permutations(Clerks) \cup Permutations(Payments)
              \cup Permutations(Invoices) \cup Permutations(Students)
              \cup Permutations(Applications)
=============================================================================
