-------------------------- MODULE MCQueryStatements --------------------------
(***************************************************************************)
(* The instance of QueryStatements for TLC: calls are interchangeable.     *)
(***************************************************************************)
EXTENDS QueryStatements, TLC

CallSymmetry == Permutations(Calls)
=============================================================================
