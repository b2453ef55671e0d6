----------------------------- MODULE MCJobRunner ------------------------------
(* A small instance of JobRunner for TLC: the ages of locks and runs. *)
EXTENDS JobRunner

One == [k \in Kinds |-> 1]
===============================================================================
