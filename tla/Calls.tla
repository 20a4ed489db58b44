------------------------------- MODULE Calls -------------------------------
(***************************************************************************)
(* One call of a function that keeps no state: a behaviour makes the call  *)
(* and has its answer.                                                     *)
(***************************************************************************)
EXTENDS Integers, Sequences

VARIABLES
  fn,       \* the function that is called
  arg,      \* its arguments
  answer    \* <<>>, then the answer in a sequence of its own

callVars == <<fn, arg, answer>>

\* The call of one of the functions of a module answers v.
Answers(fns, v) == answer = <<>> /\ fn \in fns /\ answer' = <<v>> /\ UNCHANGED <<fn, arg>>
=============================================================================
