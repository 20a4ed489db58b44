------------------------------ MODULE MCFilesys ------------------------------
(***************************************************************************)
(* An instance of Filesys for TLC: what may happen beside creating,        *)
(* opening, closing and removing is one of three programs.                 *)
(***************************************************************************)
EXTENDS Filesys, TLC

CONSTANTS a, b, long, h1, h2

Symm == Permutations({a, b}) \cup Permutations({h1, h2})
mcPrograms ==
  { [does |-> {"seek", "write"}, sizes |-> {3}],
    [does |-> {"deny", "write"}, sizes |-> {1}],
    [does |-> {"crash"}, sizes |-> {0, 3}] }
==============================================================================
