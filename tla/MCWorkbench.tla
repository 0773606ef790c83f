---------------------------- MODULE MCWorkbench ----------------------------
(* Workbench for TLC: panels and jobs are interchangeable.                  *)
EXTENDS Workbench, TLC

Symmetry == Permutations(Panel) \cup Permutations(Slot)
=============================================================================
