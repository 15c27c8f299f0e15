------------------------ MODULE MCPerformanceResults ------------------------
EXTENDS PerformanceResults
Symmetry == Permutations(Employees) \cup Permutations(Requests) \cup Permutations(Sessions)
=============================================================================
