---------------------------- MODULE StateMachine ----------------------------
(***************************************************************************)
(* What the replicas promise to clients: one history of requests, each in  *)
(* it at most once, that only grows at its end, and replicas that perform  *)
(* it from the beginning without leaving anything out.                     *)
(***************************************************************************)
EXTENDS Naturals, Sequences, SequencesExt

CONSTANTS Replicas, Commands

VARIABLES
  requested,   \* the requests of clients
  history,     \* the requests in the order in which they take effect
  executed     \* executed[r]: what replica r has performed

machineVars == <<requested, history, executed>>

MachineInit ==
  /\ requested = {}
  /\ history = <<>>
  /\ executed = [r \in Replicas |-> <<>>]

MachineRequest ==
  /\ requested \subseteq requested'
  /\ UNCHANGED <<history, executed>>

\* Requests take effect; several do when the slot between them is filled.
MachineOrder ==
  /\ IsStrictPrefix(history, history')
  /\ IsInjective(history')
  /\ ToSet(history') \subseteq requested
  /\ UNCHANGED <<requested, executed>>

MachinePerform(r) ==
  /\ Len(executed[r]) < Len(history)
  /\ executed' = [executed EXCEPT
                    ![r] = Append(@, history[Len(executed[r]) + 1])]
  /\ UNCHANGED <<requested, history>>

MachineNext ==
  \/ MachineRequest
  \/ MachineOrder
  \/ \E r \in Replicas : MachinePerform(r)

MachineSpec == MachineInit /\ [][MachineNext]_machineVars
=============================================================================
