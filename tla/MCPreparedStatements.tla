------------------------ MODULE MCPreparedStatements ------------------------
(***************************************************************************)
(* PreparedStatements for TLC: the cached statements are interchangeable,  *)
(* and so are the SQL texts.  Only invariants are checked under this       *)
(* symmetry.                                                               *)
(***************************************************************************)
EXTENDS PreparedStatements, TLC

Symmetry == Permutations(Stmts \ Uncached) \cup Permutations(Sqls)
=============================================================================
