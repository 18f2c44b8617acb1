------------------------------- MODULE MCQueries -------------------------------
(* Instances of Queries for TLC: the rows and the users are interchangeable. *)
EXTENDS Queries, TLC

CONSTANTS r1, r2, r3, u1, u2

\* Nothing is said of a list that rows have left.
NotShrunk == ~shrunk

Symmetry == Permutations(Rows) \cup Permutations(Users)
=============================================================================
