------------------------------- MODULE Absent -------------------------------
(* NULL: of a column, a field or a result that is not there.               *)
CONSTANT None
=============================================================================
