---------------------------- MODULE MCSelectLimits ----------------------------
(* Instances of SelectLimits for TLC: two kinds of resources. *)
EXTENDS SelectLimits, TLC

CONSTANTS cpu, gpu

Symmetry == Permutations(Dims)
=============================================================================
