------------------------------ MODULE Nothing -------------------------------
(* The None of the Python code and the NULL of its tables, one value for all modules. *)
CONSTANT None
=============================================================================
