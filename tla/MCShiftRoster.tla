--------------------------- MODULE MCShiftRoster ---------------------------
EXTENDS ShiftRoster
Symmetry == Permutations(Employees) \cup Permutations(Calls)
            \cup Permutations(Swaps)
=============================================================================
