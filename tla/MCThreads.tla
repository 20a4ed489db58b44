------------------------------ MODULE MCThreads ------------------------------
(***************************************************************************)
(* An instance of Threads for TLC: what two threads beside the initial one *)
(* call, and for how long they sleep, is one of three programs.            *)
(***************************************************************************)
EXTENDS Threads

CONSTANTS main, idle_t, t1, t2, l1, c1

mcOthers == {t1, t2}
mcLocks == {l1}
mcConds == {c1}
mcLockOf == [c \in {c1} |-> l1]
mcPrograms ==
  { [calls |-> {"sleep"}, ticks |-> {1}, creates |-> 2],
    [calls |-> {"sleep"}, ticks |-> {1, 2}, creates |-> 0],
    [calls |-> {"lock", "cond", "sleep", "yield", "exit"}, ticks |-> {0, 1}, creates |-> 1] }
==============================================================================
