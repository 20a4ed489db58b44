------------------------------- MODULE SynodFD -------------------------------
(***************************************************************************)
(* The consensus core in the operation modes :simplified_liveness and      *)
(* :full_liveness.  A preempted leader does not start a new ballot: it     *)
(* tells its failure detector (failure_detector.ex,                        *)
(* simple_failure_detector.ex), which pings the leader of the greatest     *)
(* ballot it has heard of until that leader fails to answer in time, and   *)
(* then tells its own leader to start a ballot above that one.             *)
(*                                                                         *)
(* Time is abstracted: a detector that waits for an answer may time out at *)
(* any moment, which is what a slow scheduler or network makes of any      *)
(* finite timeout.  The two modes differ in the length of the timeout      *)
(* only, so both take these steps; the messages that only carry timeouts   *)
(* (PROPOSAL_CHOSEN, and the timeout field of STILL_ALIVE) are left out.   *)
(***************************************************************************)
EXTENDS Synod

CONSTANT nil   \* Elixir's nil

ASSUME NilAssumption == nil \notin BallotsOrBottom

VARIABLES
  preemptedBy,   \* preemptedBy[l]: preempted_by of leader l, or nil
  fd,            \* fd[l]: the failure detector of leader l
  notes,         \* PING and PREEMPT messages between a leader and its detector
  requests,      \* requests[f][l]: number of RESPONSE_REQUESTED sent by the
                 \*   detector of f that leader l has not handled
  answers        \* answers[f][b]: number of STILL_ALIVE with ballot b that the
                 \*   detector of f has not handled

fdVars == <<preemptedBy, fd, notes, requests, answers>>
allVars == <<vars, fdVars>>

\* "next" waits for a PING, "ping" for an answer.  A detector that has heard of
\* the bottom ballot only sends to the pid 0, which raises: it is then "dead".
Detectors == [state : {"next", "ping", "dead"}, ballot_num : BallotsOrBottom]

Ping == [type : {"PING"}, of : Leaders, ballot_num : BallotsOrBottom,
         from : Ballots \cup Commanders]
Preempt == [type : {"PREEMPT"}, of : Leaders, ballot_num : Ballots]

\* The types of the detectors' state and of the messages they exchange with
\* leaders; no detector or leader handles a message that was not sent to it.
FDTypeOK ==
  /\ TypeOK
  /\ preemptedBy \in [Leaders -> BallotsOrBottom \cup {nil}]
  /\ fd \in [Leaders -> Detectors]
  /\ notes \subseteq Ping \cup Preempt
  /\ requests \in [Leaders -> [Leaders -> Nat]]
  /\ answers \in [Leaders -> [BallotsOrBottom -> Nat]]
-----------------------------------------------------------------------------
(***************************************************************************)
(* Failure detector of leader f.                                           *)
(***************************************************************************)

update_ballot_number_always(own, b) == b   \* mutant

update_ballot_number_if_greater(own, b) ==
  IF greater_than(b, own) THEN b ELSE own

\* ping/1: send a request to the leader of ballot b and wait for the answer.
PingLeader(f, b) ==
  /\ fd' = [fd EXCEPT ![f] = [state |-> IF b = bottom THEN "dead" ELSE "ping",
                              ballot_num |-> b]]
  /\ requests' = IF b = bottom THEN requests
                 ELSE [requests EXCEPT ![f][b.leader] = @ + 1]

\* {:PING, b} in next/1.
FDPing(m) ==
  LET f == m.of
  IN  /\ m.type = "PING"
      /\ fd[f].state = "next"
      /\ PingLeader(f, update_ballot_number_if_greater(fd[f].ballot_num,
                                                       m.ballot_num))
      /\ notes' = notes \ {m}
      /\ UNCHANGED <<vars, preemptedBy, answers>>

\* {:STILL_ALIVE, b, timeout} in ping/1: ping again, after a sleep.
FDStillAlive(f, b) ==
  /\ fd[f].state = "ping"
  /\ answers[f][b] > 0
  /\ answers' = [answers EXCEPT ![f][b] = @ - 1]
  /\ PingLeader(f, update_ballot_number_if_greater(fd[f].ballot_num, b))
  /\ UNCHANGED <<vars, preemptedBy, notes>>

\* The `after' clause of ping/1: no answer arrived within the timeout.
FDTimeout(f) ==
  /\ fd[f].state = "ping"
  /\ fd' = [fd EXCEPT ![f].state = "next"]
  /\ notes' = notes \cup {[type |-> "PREEMPT", of |-> f,
                           ballot_num |-> fd[f].ballot_num]}
  /\ UNCHANGED <<vars, preemptedBy, requests, answers>>
-----------------------------------------------------------------------------
(***************************************************************************)
(* The leader's handlers that differ from, or add to, those of Synod.      *)
(***************************************************************************)

\* {:ADOPTED, b, pvalues} also forgets who preempted the leader.
LeaderAdoptedFD(m) ==
  /\ LeaderAdopted(m)
  /\ preemptedBy' = IF equal(m.ballot_num, ballotNum[m.to])
                    THEN [preemptedBy EXCEPT ![m.to] = nil] ELSE preemptedBy
  /\ UNCHANGED <<fd, notes, requests, answers>>

\* {:PREEMPTED, b}: whatever b is, pass it to the detector, remember it and
\* deactivate.  A message to a dead detector vanishes.
LeaderPreemptedFD(m) ==
  LET l == m.to
      ping == [type |-> "PING", of |-> l, ballot_num |-> m.ballot_num,
               from |-> m.from]
  IN  /\ m.type = "PREEMPTED"
      /\ msgs' = msgs \ {m}
      /\ notes' = IF fd[l].state = "dead" THEN notes ELSE notes \cup {ping}
      /\ preemptedBy' = [preemptedBy EXCEPT ![l] = m.ballot_num]
      /\ active' = [active EXCEPT ![l] = FALSE]
      /\ UNCHANGED <<acceptorVars, ballotNum, proposals, scouts, commanders,
                     replicaVars, fd, requests, answers>>

\* {:PREEMPT, b}: ignored unless b is above the leader's own ballot.  The leader
\* takes the next ballot; its active flag stays what it was.
LeaderPreempt(m) ==
  LET l == m.of
  IN  /\ m.type = "PREEMPT"
      /\ notes' = notes \ {m}
      /\ \/ /\ less_or_equal(m.ballot_num, ballotNum[l])
            /\ UNCHANGED <<ballotNum, scouts, msgs>>
         \/ /\ ~less_or_equal(m.ballot_num, ballotNum[l])
            /\ NewBallot(l, m.ballot_num.value)
            /\ msgs' = msgs \cup P1as(BallotNumber(m.ballot_num.value + 1, l))
      /\ UNCHANGED <<acceptorVars, active, proposals, commanders, replicaVars,
                     preemptedBy, fd, requests, answers>>

\* {:RESPONSE_REQUESTED, requestor}: an active leader reports its own ballot, a
\* preempted one the ballot that preempted it, any other stays silent.
LeaderResponseRequested(l, f) ==
  LET Answer(b) == IF fd[f].state = "dead" THEN answers
                   ELSE [answers EXCEPT ![f][b] = @ + 1]
  IN  /\ requests[f][l] > 0
      /\ requests' = [requests EXCEPT ![f][l] = @ - 1]
      /\ \/ /\ active[l]
            /\ answers' = Answer(ballotNum[l])
         \/ /\ ~active[l] /\ preemptedBy[l] # nil
            /\ answers' = Answer(preemptedBy[l])
         \/ /\ ~active[l] /\ preemptedBy[l] = nil
            /\ answers' = answers
      /\ UNCHANGED <<vars, preemptedBy, fd, notes>>
-----------------------------------------------------------------------------
FDInit ==
  /\ Init
  /\ preemptedBy = [l \in Leaders |-> nil]
  /\ fd = [l \in Leaders |-> [state |-> "next", ballot_num |-> bottom]]
  /\ notes = {}
  /\ requests = [f \in Leaders |-> [l \in Leaders |-> 0]]
  /\ answers = [f \in Leaders |-> [b \in BallotsOrBottom |-> 0]]

\* The steps of Synod that no operation mode changes.
SharedStep ==
  /\ \/ \E m \in msgs : \/ AcceptorP1a(m)
                        \/ AcceptorP2a(m)
                        \/ ScoutP1b(m)
                        \/ CommanderP2b(m)
                        \/ LeaderPropose(m)
                        \/ ReplicaDecision(m)
     \/ \E s \in Slots, c \in Commands : ReplicaPropose(s, c)
  /\ UNCHANGED fdVars

FDNext ==
  \/ SharedStep
  \/ \E m \in msgs : LeaderAdoptedFD(m) \/ LeaderPreemptedFD(m)
  \/ \E m \in notes : FDPing(m) \/ LeaderPreempt(m)
  \/ \E f \in Leaders : FDTimeout(f)
  \/ \E f \in Leaders, b \in BallotsOrBottom : FDStillAlive(f, b)
  \/ \E f, l \in Leaders : LeaderResponseRequested(l, f)

FDSpec == FDInit /\ [][FDNext]_allVars
-----------------------------------------------------------------------------
\* The ballots that an acceptor has adopted, or that a message, a leader or a
\* detector knows from one.
HeardOf ==
  {accBallot[a] : a \in Acceptors}
    \cup {m.ballot_num : m \in {m \in msgs :
              m.type \in {"p1a", "p1b", "p2b", "ADOPTED", "PREEMPTED"}}}
    \cup {preemptedBy[l] : l \in {l \in Leaders : preemptedBy[l] # nil}}
    \cup {fd[f].ballot_num : f \in Leaders}
    \cup {m.ballot_num : m \in notes}
    \cup {b \in BallotsOrBottom : \E f \in Leaders : answers[f][b] > 0}

\* A leader that takes over on PREEMPT (leader.ex:216-227) outbids a ballot that
\* is really in use: whatever ballot goes round between acceptors, leaders and
\* detectors, the leader it names has reached it.
KnownBallotsReached ==
  /\ FDTypeOK
  /\ \A b \in HeardOf : b = bottom \/ b.value <= ballotNum[b.leader].value

\* Neither a leader, nor an acceptor, nor a detector ever falls back to a lesser
\* ballot, although detectors are told of ballots in any order.
BallotsOnlyGrow ==
  [][/\ \A l \in Leaders : less_or_equal(ballotNum[l], ballotNum'[l])
     /\ \A a \in Acceptors : less_or_equal(accBallot[a], accBallot'[a])
     /\ \A f \in Leaders :
          less_or_equal(fd[f].ballot_num, fd'[f].ballot_num)]_allVars
=============================================================================
