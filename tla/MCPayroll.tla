----------------------------- MODULE MCPayroll -----------------------------
(* Instances of Payroll for TLC.                                           *)
EXTENDS Payroll, TLC

\* Within the first month, across its end, and with the last day before the first.
SomeLeave == {<<2, 2>>, <<2, 3>>, <<3, 1>>}

FirstMonth == {<<1, 2>>}

\* One day's absence leaves some of it, two days' would take more than it is.
SmallPay == {[basic |-> 100, allowances |-> 0, deductions |-> 95]}

Symmetry == Permutations(Requests) \cup Permutations(Leaves)
=============================================================================
