--------------------------- MODULE MCAttendance ---------------------------
(* Calls are interchangeable, and so are corrections.                     *)
EXTENDS Attendance, TLC

CONSTANTS d1, d2, c1, c2, r1, r2

MCSymmetry == Permutations({r1, r2}) \cup Permutations({c1, c2})
=============================================================================
