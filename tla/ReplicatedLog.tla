---------------------------- MODULE ReplicatedLog ----------------------------
(***************************************************************************)
(* What the consensus core promises to the replicas: a log with at most    *)
(* one command per slot, each proposed for that slot, and replicas that    *)
(* learn only what is in the log.  Entries never change.                   *)
(***************************************************************************)
CONSTANTS Replicas, Slots, Commands

VARIABLES
  proposed,   \* the <<slot, command>> pairs proposed so far
  chosen,     \* the <<slot, command>> pairs in the log
  learned     \* learned[r]: the pairs replica r has been told of

logVars == <<proposed, chosen, learned>>

LogInit ==
  /\ proposed = {}
  /\ chosen = {}
  /\ learned = [r \in Replicas |-> {}]

LogPropose(s, c) ==
  /\ proposed' = proposed \cup {<<s, c>>}
  /\ UNCHANGED <<chosen, learned>>

LogChoose(s, c) ==
  /\ <<s, c>> \in proposed
  /\ \A e \in chosen : e[1] # s
  /\ chosen' = chosen \cup {<<s, c>>}
  /\ UNCHANGED <<proposed, learned>>

LogLearn(r, s, c) ==
  /\ <<s, c>> \in chosen
  /\ learned' = [learned EXCEPT ![r] = @ \cup {<<s, c>>}]
  /\ UNCHANGED <<proposed, chosen>>

LogNext ==
  \E s \in Slots, c \in Commands :
    \/ LogPropose(s, c)
    \/ LogChoose(s, c)
    \/ \E r \in Replicas : LogLearn(r, s, c)

LogSpec == LogInit /\ [][LogNext]_logVars
=============================================================================
