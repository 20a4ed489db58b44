------------------------------- MODULE MCSynod -------------------------------
(***************************************************************************)
(* Instances of Synod for TLC.                                             *)
(***************************************************************************)
EXTENDS Synod, TLC

CONSTANTS a1, a2, a3, c1, c2

MCAcceptors3 == {a1, a2, a3}
MCAcceptors2 == {a1, a2}
MCCommands == {c1, c2}
MCSymmetry == Permutations(MCAcceptors3) \cup Permutations(MCCommands)
MCSymmetry3 == Permutations(MCAcceptors3)
=============================================================================
