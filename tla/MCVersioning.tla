----------------------------- MODULE MCVersioning -----------------------------
(* The directories are interchangeable.                                       *)
EXTENDS Versioning, TLC

SlotSymmetry == Permutations(Slot)
=============================================================================
