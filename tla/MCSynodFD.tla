------------------------------ MODULE MCSynodFD ------------------------------
(***************************************************************************)
(* Instances of SynodFD for TLC.                                           *)
(***************************************************************************)
EXTENDS SynodFD, TLC

CONSTANTS a1, a2, c1, c2

MCAcceptors2 == {a1, a2}
MCCommands == {c1, c2}

-----------------------------------------------------------------------------
(***************************************************************************)
(* A constraint that keeps the search for a violation of Agreement short:  *)
(* it only cuts behaviours off, so what is found is a behaviour of FDSpec. *)
(* Leader 1 gets the requests for slots 1 and 2 and becomes active; leader *)
(* 2 comes in between, and both end up with proposals for slot 3.          *)
(***************************************************************************)
B(v, l) == BallotNumber(v, l)

\* Who proposes what, and in which order.
RequestsInOrder ==
  /\ proposed \subseteq {<<1, c1>>, <<2, c1>>, <<3, c1>>, <<3, c2>>}
  /\ \A s \in 2..3 : (\E p \in proposed : p[1] = s) => <<s - 1, c1>> \in proposed
  /\ \A s \in 2..3 : <<s, c1>> \in proposals[1] => <<s - 1, c1>> \in proposals[1]
  /\ <<3, c2>> \notin proposals[1] /\ proposals[2] \subseteq {<<3, c2>>}
  /\ <<2, c1>> \in proposals[1] \/ \A a \in Acceptors : accBallot[a] = bottom
  /\ (\E p \in proposed : p[1] = 3) => ballotNum[1] = B(3, 1)

\* Acceptor a2 is behind a1, and slots 1 and 2 stay undecided.
AcceptorsInOrder ==
  /\ less_or_equal(accBallot[a2], accBallot[a1])
  /\ \A a \in Acceptors : \A pv \in accepted[a] : pv.slot_num = 3
  /\ \A m \in msgs : m.type = "p2b" =>
       LET pv == m.commander.pvalue
       IN  pv.slot_num = 3 \/ pv.ballot_num = B(0, 1)
  /\ \A a \in Acceptors : accBallot[a] = B(0, 2) => <<2, c1>> \in proposals[1]
  /\ decisions = [r \in Replicas |-> {}]

\* The detectors get no answer in time, and who preempts whom.
DetectorsInOrder ==
  /\ \A f \in Leaders : fd[f].ballot_num # bottom =>
       requests[f][fd[f].ballot_num.leader] > 0
  /\ \A f \in Leaders, b \in BallotsOrBottom : answers[f][b] = 0
  /\ preemptedBy[1] \in {nil, B(0, 2), B(2, 2)}
  /\ preemptedBy[2] \in {nil, B(1, 1)}

Schedule == RequestsInOrder /\ AcceptorsInOrder /\ DetectorsInOrder
=============================================================================
