----------------------------- MODULE MCScheduling -----------------------------
(***************************************************************************)
(* Instances of Scheduling for TLC: two Containers that together just fit  *)
(* on the Node.                                                            *)
(***************************************************************************)
EXTENDS Scheduling, TLC

CONSTANTS c1, c2, n1

MCLimit     == c1 :> 1 @@ c2 :> 2
MCCapacity  == n1 :> 3

\* Bound of the safety run, whose properties end once rows and events are disturbed.
UntilDisturbed == ~disturbed

Symmetry    == Permutations(Processes)
=============================================================================
