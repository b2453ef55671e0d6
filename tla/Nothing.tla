------------------------------- MODULE Nothing --------------------------------
(* The one constant the models of the checks and the jobs share: a value that *)
(* is none of theirs.                                                         *)
CONSTANT None
===============================================================================
