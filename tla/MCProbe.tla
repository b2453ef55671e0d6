------------------------------- MODULE MCProbe --------------------------------
(* Small instances of Probe for TLC: where a stop may hit. *)
EXTENDS Probe, TLC

Symmetry == Permutations(Keys)
\* Everywhere but in the three windows.
SafeSteps == Steps \ (EnrolWindow \cup MetaWindow \cup SwapWindow)
\* Everywhere but in the middle of a certificate's renewal.
NotSwapping == Steps \ SwapWindow
\* Also in the middle of a renewal.
SwapCut == SafeSteps \cup SwapWindow
===============================================================================
