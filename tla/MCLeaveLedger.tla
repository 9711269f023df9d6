---------------------------- MODULE MCLeaveLedger ----------------------------
(* Small instance of LeaveLedger: two handlers over two employees'          *)
(* allocations of one type, of 14 days or none.                             *)
EXTENDS LeaveLedger, TLC

HandlerSymmetry == Permutations(Handlers)
EmployeeSymmetry == Permutations(Employees)
Symmetry == HandlerSymmetry \cup EmployeeSymmetry
MCTotals == {0, 1400}
MCAmounts == {-100}
=============================================================================
