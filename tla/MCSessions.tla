------------------------------ MODULE MCSessions ------------------------------
(* Instances of Sessions for TLC: the user who may be banned, and another one. *)
EXTENDS Sessions

CONSTANTS u1, u2
=============================================================================
