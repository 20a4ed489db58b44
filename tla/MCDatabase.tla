----------------------------- MODULE MCDatabase -----------------------------
(***************************************************************************)
(* Instances of Database for TLC.                                          *)
(***************************************************************************)
EXTENDS Database

MCMove(n, x, y) == [amount |-> n, account1 |-> x, account2 |-> y]
MCMoves == {MCMove(1, 1, 2), MCMove(2, 2, 1)}

\* A constraint: the n-th request moves the amount n.
AmountIsCid ==
  \A r \in Replicas : \A c \in requestsTo[r] : c.op.amount = c.cid
=============================================================================
