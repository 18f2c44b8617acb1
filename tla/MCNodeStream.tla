----------------------------- MODULE MCNodeStream -----------------------------
(* Instances of NodeStream for TLC: one server, and two servers. *)
EXTENDS NodeStream, TLC

CONSTANTS s1, s2, c1, c2, c3

MCAtOne == [c \in Calls |-> s1]
MCAtTwo == [c \in Calls |-> IF c = c2 THEN s2 ELSE s1]
=============================================================================
