---------------------------- MODULE SynodFDProofs ----------------------------
(***************************************************************************)
(* Type correctness of SynodFD and its ballots: whatever ballot goes round *)
(* between acceptors, leaders and failure detectors, the leader it names   *)
(* has reached it, and nobody falls back to a lesser one.                  *)
(***************************************************************************)
EXTENDS SynodFD, SynodProofs

\* A leader owns its ballot, and a detector waits only for a leader.
OwnBallots == \A l \in Leaders : ballotNum[l].leader = l
PingsLeader == \A f \in Leaders : fd[f].state = "ping" => fd[f].ballot_num \in Ballots
HeardReached == \A b \in HeardOf : b = bottom \/ b.value <= ballotNum[b.leader].value

FDInv == FDTypeOK /\ OwnBallots /\ PingsLeader /\ HeardReached
-----------------------------------------------------------------------------
(***************************************************************************)
(* The steps that SynodFD shares with Synod.                               *)
(***************************************************************************)
CoreStep == SharedStep \/ \E m \in msgs : LeaderAdoptedFD(m)

LEMMA CoreStepIsNext ==
  ASSUME CoreStep
  PROVE  Next /\ UNCHANGED <<fd, notes, requests, answers>>
BY DEF CoreStep, SharedStep, LeaderAdoptedFD, fdVars, Next, CommonNext

\* A core step leaves the leaders' ballots alone.
LEMMA CoreStepKeepsBallots ==
  ASSUME CoreStep
  PROVE  UNCHANGED ballotNum
BY DEF CoreStep, SharedStep, LeaderAdoptedFD, LeaderAdopted, LeaderPropose,
       AcceptorP1a, AcceptorP2a, ScoutP1b, CommanderP2b, ReplicaDecision,
       ReplicaPropose, leaderVars

\* A core step forgets who preempted a leader, and remembers nobody new.
LEMMA CoreStepForgets ==
  ASSUME FDTypeOK, CoreStep, NEW l \in Leaders
  PROVE  preemptedBy'[l] = preemptedBy[l] \/ preemptedBy'[l] = nil
<1>1. CASE UNCHANGED preemptedBy
  BY <1>1
<1>2. ASSUME NEW m \in msgs, LeaderAdoptedFD(m)
      PROVE  preemptedBy'[l] = preemptedBy[l] \/ preemptedBy'[l] = nil
  BY <1>2 DEF LeaderAdoptedFD, FDTypeOK
<1> QED
  BY <1>1, <1>2 DEF CoreStep, SharedStep, fdVars

LEMMA CoreStepTypes ==
  ASSUME FDTypeOK, CoreStep
  PROVE  FDTypeOK'
<1>1. TypeOK'
  BY CoreStepIsNext, NextType DEF FDTypeOK
<1>2. preemptedBy' \in [Leaders -> BallotsOrBottom \cup {nil}]
  <2>1. ASSUME NEW m \in msgs, LeaderAdoptedFD(m)
        PROVE  preemptedBy' \in [Leaders -> BallotsOrBottom \cup {nil}]
    BY <2>1 DEF LeaderAdoptedFD, FDTypeOK
  <2> QED
    BY <2>1 DEF CoreStep, SharedStep, fdVars, FDTypeOK
<1> QED
  BY <1>1, <1>2, CoreStepIsNext DEF FDTypeOK
-----------------------------------------------------------------------------
(***************************************************************************)
(* The steps of detectors and of leaders with detectors.                   *)
(***************************************************************************)

\* A leader takes a ballot above the one its detector reports.
LEMMA PreemptBallot ==
  ASSUME FDTypeOK, NEW m \in notes, m.type = "PREEMPT",
         ~less_or_equal(m.ballot_num, ballotNum[m.of]),
         m.ballot_num.value + 1 <= MaxBallot
  PROVE  /\ m.of \in Leaders
         /\ BallotNumber(m.ballot_num.value + 1, m.of) \in Ballots
         /\ BallotNumber(m.ballot_num.value + 1, m.of).leader = m.of
         /\ ballotNum[m.of].value < BallotNumber(m.ballot_num.value + 1, m.of).value
<1>1. m.of \in Leaders /\ m.ballot_num \in Ballots
  BY DEF FDTypeOK, Ping, Preempt
<1>2. /\ m.ballot_num \in Proper /\ m.ballot_num.value \in 0..MaxBallot
      /\ ballotNum[m.of] \in Proper
  BY <1>1, BallotFields DEF FDTypeOK, TypeOK
<1>3. ballotNum[m.of].value <= m.ballot_num.value
  BY <1>2, LessOrEqualCases, ProperFields
<1>4. m.ballot_num.value + 1 \in 0..MaxBallot /\ ballotNum[m.of].value \in Nat
  BY <1>2, MaxBallotAssumption, ProperFields
<1> QED
  BY <1>1, <1>2, <1>3, <1>4, BallotFields

\* The effect of a PREEMPT that is not ignored, and of one that is.
LEMMA PreemptEffect ==
  ASSUME FDTypeOK, NEW m \in notes, LeaderPreempt(m)
  PROVE  \/ UNCHANGED <<ballotNum, scouts, msgs>>
         \/ \E l \in Leaders, b \in Ballots :
              /\ b.leader = l /\ ballotNum[l].value < b.value
              /\ ballotNum' = [ballotNum EXCEPT ![l] = b]
              /\ scouts' = scouts \cup {new_scout(b)}
              /\ msgs' = msgs \cup P1as(b)
<1> DEFINE b == BallotNumber(m.ballot_num.value + 1, m.of)
<1>1. CASE less_or_equal(m.ballot_num, ballotNum[m.of])
  BY <1>1 DEF LeaderPreempt
<1>2. CASE ~less_or_equal(m.ballot_num, ballotNum[m.of])
  <2>1. /\ m.type = "PREEMPT" /\ m.ballot_num.value + 1 <= MaxBallot
        /\ ballotNum' = [ballotNum EXCEPT ![m.of] = b]
        /\ scouts' = scouts \cup {new_scout(b)}
        /\ msgs' = msgs \cup P1as(b)
    BY <1>2 DEF LeaderPreempt, NewBallot
  <2>2. /\ m.of \in Leaders /\ b \in Ballots /\ b.leader = m.of
        /\ ballotNum[m.of].value < b.value
    BY <1>2, <2>1, PreemptBallot
  <2> HIDE DEF b
  <2> QED
    BY <2>1, <2>2
<1> QED
  BY <1>1, <1>2

LEMMA LeaderPreemptTypes ==
  ASSUME FDTypeOK, NEW m \in notes, LeaderPreempt(m)
  PROVE  FDTypeOK'
<1>1. /\ UNCHANGED <<acceptorVars, active, proposals, commanders, replicaVars,
                     preemptedBy, fd, requests, answers>>
      /\ notes' = notes \ {m}
  BY DEF LeaderPreempt
<1>2. CASE UNCHANGED <<ballotNum, scouts, msgs>>
  BY <1>1, <1>2 DEF FDTypeOK, TypeOK, acceptorVars, replicaVars
<1>3. ASSUME NEW l \in Leaders, NEW b \in Ballots,
             ballotNum' = [ballotNum EXCEPT ![l] = b],
             scouts' = scouts \cup {new_scout(b)}, msgs' = msgs \cup P1as(b)
      PROVE  FDTypeOK'
  <2>1. P1as(b) \subseteq P1a /\ new_scout(b) \in Scouts
    BY SpawnTypes
  <2>2. msgs' \subseteq Messages /\ scouts' \subseteq Scouts
    BY <1>3, <2>1 DEF FDTypeOK, TypeOK, Messages
  <2>3. ballotNum' \in [Leaders -> Ballots]
    BY <1>3 DEF FDTypeOK, TypeOK
  <2> QED
    BY <1>1, <2>2, <2>3 DEF FDTypeOK, TypeOK, acceptorVars, replicaVars
<1> QED
  BY <1>2, <1>3, PreemptEffect

LEMMA LeaderPreemptedTypes ==
  ASSUME FDTypeOK, NEW m \in msgs, LeaderPreemptedFD(m)
  PROVE  FDTypeOK' /\ m.to \in Leaders /\ m.ballot_num \in BallotsOrBottom
<1> DEFINE ping == [type |-> "PING", of |-> m.to, ballot_num |-> m.ballot_num,
                    from |-> m.from]
<1>1. m \in Preempted
  BY MessageFields DEF LeaderPreemptedFD, FDTypeOK, TypeOK
<1>2. ping \in Ping /\ m.to \in Leaders /\ m.ballot_num \in BallotsOrBottom
  BY <1>1 DEF Preempted, Ping
<1>3. notes' \subseteq Ping \cup Preempt
  BY <1>2 DEF LeaderPreemptedFD, FDTypeOK
<1>4. TypeOK'
  BY <1>2 DEF LeaderPreemptedFD, FDTypeOK, TypeOK, acceptorVars, replicaVars
<1>5. preemptedBy' \in [Leaders -> BallotsOrBottom \cup {nil}]
  BY <1>2 DEF LeaderPreemptedFD, FDTypeOK
<1> QED
  BY <1>2, <1>3, <1>4, <1>5 DEF LeaderPreemptedFD, FDTypeOK

LEMMA SameVarsTypes ==
  ASSUME TypeOK, UNCHANGED vars
  PROVE  TypeOK'
BY NextType

\* What a detector does when it pings the leader of ballot b.
LEMMA PingLeaderTypes ==
  ASSUME FDTypeOK, NEW f \in Leaders, NEW b \in BallotsOrBottom, PingLeader(f, b)
  PROVE  /\ fd' \in [Leaders -> Detectors]
         /\ requests' \in [Leaders -> [Leaders -> Nat]]
         /\ fd'[f].ballot_num = b
         /\ fd'[f].state = "ping" => b \in Ballots
         /\ \A g \in Leaders : g # f => fd'[g] = fd[g]
<1> DEFINE next == [state |-> IF b = bottom THEN "dead" ELSE "ping",
                    ballot_num |-> b]
<1>1. next \in Detectors /\ next.ballot_num = b
  BY DEF Detectors
<1>2. fd' = [fd EXCEPT ![f] = next]
  BY DEF PingLeader
<1>3. b # bottom => b \in Ballots /\ b.leader \in Leaders
  BY BallotFields DEF BallotsOrBottom
<1>4. next.state = "ping" => b \in Ballots
  BY <1>3
<1>5. requests' \in [Leaders -> [Leaders -> Nat]]
  <2>1. CASE b = bottom
    BY <2>1 DEF PingLeader, FDTypeOK
  <2>2. CASE b # bottom
    BY <1>3, <2>2 DEF PingLeader, FDTypeOK
  <2> QED
    BY <2>1, <2>2
<1> HIDE DEF next
<1> QED
  BY <1>1, <1>2, <1>4, <1>5 DEF FDTypeOK

LEMMA GreaterBallot ==
  ASSUME NEW b1 \in BallotsOrBottom, NEW b2 \in BallotsOrBottom
  PROVE  /\ update_ballot_number_if_greater(b1, b2) \in {b1, b2}
         /\ less_or_equal(b1, update_ballot_number_if_greater(b1, b2))
<1>1. b1 \in AllBallots /\ b2 \in AllBallots
  BY BallotFields
<1> QED
  BY <1>1, GreaterIsNotLessOrEqual, LessOrEqualTotal
     DEF update_ballot_number_if_greater

\* How a detector's step changes the ballot it holds: it stays, or it becomes
\* the greater one of a PING or a STILL_ALIVE.
DetectorStep(f) ==
  \/ \E m \in notes : m.of = f /\ FDPing(m)
  \/ \E b \in BallotsOrBottom : FDStillAlive(f, b)
  \/ FDTimeout(f)

LEMMA DetectorStepTypes ==
  ASSUME FDTypeOK, PingsLeader, NEW f \in Leaders, DetectorStep(f)
  PROVE  /\ FDTypeOK' /\ PingsLeader' /\ UNCHANGED <<vars, preemptedBy>>
         /\ \A g \in Leaders :
              /\ less_or_equal(fd[g].ballot_num, fd'[g].ballot_num)
              /\ \/ fd'[g].ballot_num = fd[g].ballot_num
                 \/ \E m \in notes : fd'[g].ballot_num = m.ballot_num
                 \/ \E b \in BallotsOrBottom :
                      answers[g][b] > 0 /\ fd'[g].ballot_num = b
         /\ \A m \in notes' : \/ m \in notes
                              \/ m.ballot_num = fd[f].ballot_num
         /\ \A g \in Leaders, b \in BallotsOrBottom :
              answers'[g][b] > 0 => answers[g][b] > 0
<1>1. \A g \in Leaders :
        fd[g].ballot_num \in BallotsOrBottom /\ fd[g].ballot_num \in AllBallots
  BY BallotFields DEF FDTypeOK, Detectors
<1>2. \A g \in Leaders : less_or_equal(fd[g].ballot_num, fd[g].ballot_num)
  BY <1>1, LessOrEqualTotal
<1>3. ASSUME NEW m \in notes, m.of = f, FDPing(m)
      PROVE  /\ FDTypeOK' /\ PingsLeader' /\ UNCHANGED <<vars, preemptedBy, answers>>
             /\ notes' \subseteq notes
             /\ \A g \in Leaders :
                  /\ less_or_equal(fd[g].ballot_num, fd'[g].ballot_num)
                  /\ fd'[g].ballot_num \in {fd[g].ballot_num, m.ballot_num}
  <2>1. m.ballot_num \in BallotsOrBottom
    BY BallotFields DEF FDTypeOK, Ping, Preempt
  <2>2. PICK b \in BallotsOrBottom :
          /\ b = update_ballot_number_if_greater(fd[f].ballot_num, m.ballot_num)
          /\ b \in {fd[f].ballot_num, m.ballot_num}
          /\ less_or_equal(fd[f].ballot_num, b)
    BY <1>1, <2>1, GreaterBallot
  <2>3. /\ PingLeader(f, b) /\ notes' = notes \ {m}
        /\ UNCHANGED <<vars, preemptedBy, answers>>
    BY <1>3, <2>2 DEF FDPing
  <2>4. FDTypeOK' /\ PingsLeader'
    BY <2>3, PingLeaderTypes, SameVarsTypes DEF FDTypeOK, PingsLeader
  <2> QED
    BY <1>2, <2>2, <2>3, <2>4, PingLeaderTypes
<1>4. ASSUME NEW b0 \in BallotsOrBottom, FDStillAlive(f, b0)
      PROVE  /\ FDTypeOK' /\ PingsLeader' /\ UNCHANGED <<vars, preemptedBy, notes>>
             /\ answers[f][b0] > 0
             /\ \A g \in Leaders :
                  /\ less_or_equal(fd[g].ballot_num, fd'[g].ballot_num)
                  /\ \/ fd'[g].ballot_num = fd[g].ballot_num
                     \/ g = f /\ fd'[g].ballot_num = b0
             /\ \A g \in Leaders, b \in BallotsOrBottom :
                  answers'[g][b] > 0 => answers[g][b] > 0
  <2>1. PICK b \in BallotsOrBottom :
          /\ b = update_ballot_number_if_greater(fd[f].ballot_num, b0)
          /\ b \in {fd[f].ballot_num, b0}
          /\ less_or_equal(fd[f].ballot_num, b)
    BY <1>1, GreaterBallot
  <2>2. /\ PingLeader(f, b) /\ answers[f][b0] > 0
        /\ answers' = [answers EXCEPT ![f][b0] = @ - 1]
        /\ UNCHANGED <<vars, preemptedBy, notes>>
    BY <1>4, <2>1 DEF FDStillAlive
  <2>3. /\ answers' \in [Leaders -> [BallotsOrBottom -> Nat]]
        /\ \A g \in Leaders, b1 \in BallotsOrBottom :
             answers'[g][b1] > 0 => answers[g][b1] > 0
    BY <2>2 DEF FDTypeOK
  <2>4. FDTypeOK' /\ PingsLeader'
    BY <2>2, <2>3, PingLeaderTypes, SameVarsTypes DEF FDTypeOK, PingsLeader
  <2> QED
    BY <1>2, <2>1, <2>2, <2>3, <2>4, PingLeaderTypes
<1>5. ASSUME FDTimeout(f)
      PROVE  /\ FDTypeOK' /\ PingsLeader'
             /\ UNCHANGED <<vars, preemptedBy, answers>>
             /\ \A g \in Leaders : fd'[g].ballot_num = fd[g].ballot_num
             /\ \A m \in notes' : m \in notes \/ m.ballot_num = fd[f].ballot_num
  <2> DEFINE preempt == [type |-> "PREEMPT", of |-> f,
                         ballot_num |-> fd[f].ballot_num]
             timeout == [fd[f] EXCEPT !.state = "next"]
  <2>1. /\ fd[f].state = "ping" /\ fd' = [fd EXCEPT ![f] = timeout]
        /\ notes' = notes \cup {preempt}
        /\ UNCHANGED <<vars, preemptedBy, requests, answers>>
    BY <1>5 DEF FDTimeout
  <2>2. preempt \in Preempt /\ preempt.ballot_num = fd[f].ballot_num
    BY <2>1 DEF PingsLeader, Preempt
  <2>3. /\ timeout \in Detectors /\ timeout.state = "next"
        /\ timeout.ballot_num = fd[f].ballot_num
    BY DEF FDTypeOK, Detectors
  <2> HIDE DEF preempt, timeout
  <2>4. fd' \in [Leaders -> Detectors] /\ PingsLeader'
    BY <2>1, <2>3 DEF FDTypeOK, PingsLeader
  <2> QED
    BY <2>1, <2>2, <2>3, <2>4, SameVarsTypes DEF FDTypeOK
<1> QED
  BY <1>2, <1>3, <1>4, <1>5 DEF DetectorStep

\* The effect of an answer: at most one more, with the leader's own ballot or the
\* ballot that preempted it.
LEMMA ResponseEffect ==
  ASSUME FDTypeOK, NEW f \in Leaders, NEW l \in Leaders,
         LeaderResponseRequested(l, f)
  PROVE  /\ FDTypeOK' /\ UNCHANGED <<vars, preemptedBy, fd, notes>>
         /\ \A g \in Leaders, b \in BallotsOrBottom :
              answers'[g][b] > 0 =>
                \/ answers[g][b] > 0
                \/ b = ballotNum[l]
                \/ preemptedBy[l] # nil /\ b = preemptedBy[l]
<1>1. /\ requests[f][l] > 0 /\ requests' = [requests EXCEPT ![f][l] = @ - 1]
      /\ UNCHANGED <<vars, preemptedBy, fd, notes>>
  BY DEF LeaderResponseRequested
<1>2. requests' \in [Leaders -> [Leaders -> Nat]]
  BY <1>1 DEF FDTypeOK
<1>3. \/ answers' = answers
      \/ \E b \in BallotsOrBottom :
           /\ answers' = [answers EXCEPT ![f][b] = @ + 1]
           /\ b = ballotNum[l] \/ (preemptedBy[l] # nil /\ b = preemptedBy[l])
  <2>1. ballotNum[l] \in BallotsOrBottom
    BY BallotFields DEF FDTypeOK, TypeOK
  <2>2. preemptedBy[l] # nil => preemptedBy[l] \in BallotsOrBottom
    BY DEF FDTypeOK
  <2> QED
    BY <2>1, <2>2 DEF LeaderResponseRequested
<1>4. /\ answers' \in [Leaders -> [BallotsOrBottom -> Nat]]
      /\ \A g \in Leaders, b \in BallotsOrBottom :
              answers'[g][b] > 0 =>
                \/ answers[g][b] > 0
                \/ b = ballotNum[l]
                \/ preemptedBy[l] # nil /\ b = preemptedBy[l]
  <2>1. CASE answers' = answers
    BY <2>1 DEF FDTypeOK
  <2>2. ASSUME NEW b1 \in BallotsOrBottom,
               answers' = [answers EXCEPT ![f][b1] = @ + 1]
        PROVE  /\ answers' \in [Leaders -> [BallotsOrBottom -> Nat]]
               /\ \A g \in Leaders, b \in BallotsOrBottom :
                    b # b1 => answers'[g][b] = answers[g][b]
    BY <2>2 DEF FDTypeOK
  <2> QED
    BY <1>3, <2>1, <2>2
<1> QED
  BY <1>1, <1>2, <1>4, SameVarsTypes DEF FDTypeOK
-----------------------------------------------------------------------------
(***************************************************************************)
(* The ballots that have been heard of.                                    *)
(***************************************************************************)
BallotMessages == {"p1a", "p1b", "p2b", "ADOPTED", "PREEMPTED"}

\* HeardOf, member by member.
LEMMA HeardOfMembers ==
  /\ \A b : b \in HeardOf <=>
       \/ \E a \in Acceptors : b = accBallot[a]
       \/ \E m \in msgs : m.type \in BallotMessages /\ b = m.ballot_num
       \/ \E l \in Leaders : preemptedBy[l] # nil /\ b = preemptedBy[l]
       \/ \E f \in Leaders : b = fd[f].ballot_num
       \/ \E m \in notes : b = m.ballot_num
       \/ b \in BallotsOrBottom /\ \E f \in Leaders : answers[f][b] > 0
  /\ \A b : b \in HeardOf' <=>
       \/ \E a \in Acceptors : b = accBallot'[a]
       \/ \E m \in msgs' : m.type \in BallotMessages /\ b = m.ballot_num
       \/ \E l \in Leaders : preemptedBy'[l] # nil /\ b = preemptedBy'[l]
       \/ \E f \in Leaders : b = fd'[f].ballot_num
       \/ \E m \in notes' : b = m.ballot_num
       \/ b \in BallotsOrBottom /\ \E f \in Leaders : answers'[f][b] > 0
BY DEF HeardOf, BallotMessages

LEMMA HeardOfType ==
  ASSUME FDTypeOK
  PROVE  HeardOf \subseteq BallotsOrBottom
<1> SUFFICES ASSUME NEW b \in HeardOf PROVE b \in BallotsOrBottom
  OBVIOUS
<1>1. CASE \E m \in msgs : m.type \in BallotMessages /\ b = m.ballot_num
  <2>1. PICK m \in Messages : m.type \in BallotMessages /\ b = m.ballot_num
    BY <1>1 DEF FDTypeOK, TypeOK
  <2>2. \/ m \in P1a \/ m \in P1b \/ m \in P2b \/ m \in Adopted
        \/ m \in Preempted
    BY <2>1, MessageFields DEF BallotMessages
  <2> QED
    BY <2>1, <2>2, BallotFields DEF P1a, P1b, P2b, Adopted, Preempted
<1>2. CASE \E m \in notes : b = m.ballot_num
  BY <1>2, BallotFields DEF FDTypeOK, Ping, Preempt
<1>3. CASE \/ \E a \in Acceptors : b = accBallot[a]
           \/ \E l \in Leaders : preemptedBy[l] # nil /\ b = preemptedBy[l]
           \/ \E f \in Leaders : b = fd[f].ballot_num
  BY <1>3 DEF FDTypeOK, TypeOK, Detectors
<1> QED
  BY <1>1, <1>2, <1>3, HeardOfMembers

\* An acceptor adopts a ballot it was sent, and answers with one it holds.
LEMMA AcceptorHears ==
  ASSUME FDTypeOK, NEW m \in msgs, AcceptorP1a(m) \/ AcceptorP2a(m)
  PROVE  /\ \A a \in Acceptors : accBallot'[a] \in HeardOf
         /\ \A x \in msgs' : x \in msgs \/ x.ballot_num \in HeardOf
<1>1. CASE AcceptorP1a(m)
  <2>1. m.type = "p1a" /\ m.to \in Acceptors
    BY <1>1, MessageFields DEF AcceptorP1a, FDTypeOK, TypeOK, P1a
  <2>2. /\ \A a \in Acceptors : accBallot[a] \in HeardOf
        /\ m.ballot_num \in HeardOf
    BY <2>1, HeardOfMembers DEF BallotMessages
  <2>3. \A a \in Acceptors : accBallot'[a] \in {accBallot[a], m.ballot_num}
    BY <1>1, <2>1 DEF AcceptorP1a, FDTypeOK, TypeOK
  <2>4. \A x \in msgs' : \/ x \in msgs
                         \/ x.ballot_num \in {accBallot[m.to], m.ballot_num}
    BY <1>1 DEF AcceptorP1a
  <2> QED
    BY <2>1, <2>2, <2>3, <2>4
<1>2. CASE AcceptorP2a(m)
  <2>1. m.to \in Acceptors
    BY <1>2, MessageFields DEF AcceptorP2a, FDTypeOK, TypeOK, P2a
  <2>2. \A x \in msgs' : x \in msgs \/ x.ballot_num = accBallot[m.to]
    BY <1>2 DEF AcceptorP2a
  <2> QED
    BY <1>2, <2>1, <2>2, HeardOfMembers DEF AcceptorP2a
<1> QED
  BY <1>1, <1>2

\* A scout or a commander passes on the ballot of the answer it got.
LEMMA ScoutHears ==
  ASSUME FDTypeOK, NEW m \in msgs, ScoutP1b(m)
  PROVE  \A x \in msgs' : x \in msgs \/ x.ballot_num \in HeardOf
<1>1. m.ballot_num \in HeardOf /\ m.ballot_num \in AllBallots
  <2>1. m.type = "p1b"
    BY DEF ScoutP1b
  <2>2. m.ballot_num \in HeardOf
    BY <2>1, HeardOfMembers DEF BallotMessages
  <2> QED
    BY <2>2, HeardOfType, BallotFields
<1>2. PICK sc \in scouts : ScoutPreempted(sc, m) \/ ScoutResponse(sc, m)
  BY DEF ScoutP1b
<1>3. CASE ScoutPreempted(sc, m)
  BY <1>1, <1>3 DEF ScoutPreempted
<1>4. CASE ScoutResponse(sc, m)
  <2>1. sc.ballot_num \in AllBallots
    BY BallotFields DEF FDTypeOK, TypeOK, Scouts
  <2>2. sc.ballot_num = m.ballot_num
    BY <1>1, <1>4, <2>1, EqualIsEquality DEF ScoutResponse
  <2> QED
    BY <1>1, <1>4, <2>2 DEF ScoutResponse
<1> QED
  BY <1>2, <1>3, <1>4

LEMMA CommanderHears ==
  ASSUME FDTypeOK, NEW m \in msgs, CommanderP2b(m)
  PROVE  \A x \in msgs' : \/ x \in msgs \/ x.type = "DECISION"
                          \/ x.ballot_num \in HeardOf
<1>1. m.type = "p2b"
  BY DEF CommanderP2b
<1>2. m.ballot_num \in HeardOf
  BY <1>1, HeardOfMembers DEF BallotMessages
<1> QED
  BY <1>2 DEF CommanderP2b, CommanderPreempted, CommanderResponse

LEMMA CoreStepHears ==
  ASSUME FDTypeOK, CoreStep, NEW b \in HeardOf'
  PROVE  b \in HeardOf
<1>1. ASSUME NEW m \in msgs, \/ LeaderPropose(m) \/ LeaderAdopted(m)
                             \/ ReplicaDecision(m)
      PROVE  /\ UNCHANGED accBallot
             /\ \A x \in msgs' : x \in msgs \/ x.type = "p2a"
  BY <1>1 DEF LeaderPropose, LeaderAdopted, ReplicaDecision, P2as, acceptorVars
<1>2. ASSUME NEW s \in Slots, NEW c \in Commands, ReplicaPropose(s, c)
      PROVE  /\ UNCHANGED accBallot
             /\ \A x \in msgs' : x \in msgs \/ x.type = "PROPOSE"
  BY <1>2 DEF ReplicaPropose, acceptorVars
<1>3. ASSUME NEW m \in msgs, ScoutP1b(m) \/ CommanderP2b(m)
      PROVE  UNCHANGED accBallot
  BY <1>3 DEF ScoutP1b, CommanderP2b, acceptorVars
<1>4. \A x \in msgs' : \/ x \in msgs \/ x.type \in {"p2a", "PROPOSE", "DECISION"}
                       \/ x.ballot_num \in HeardOf
  BY <1>1, <1>2, AcceptorHears, ScoutHears, CommanderHears
     DEF CoreStep, SharedStep, LeaderAdoptedFD
<1>5. \A a \in Acceptors : accBallot'[a] \in HeardOf
  <2>1. CASE UNCHANGED accBallot
    BY <2>1, HeardOfMembers
  <2> QED
    BY <1>1, <1>2, <1>3, <2>1, AcceptorHears
       DEF CoreStep, SharedStep, LeaderAdoptedFD
<1>6. \A l \in Leaders : preemptedBy'[l] = preemptedBy[l] \/ preemptedBy'[l] = nil
  BY CoreStepForgets
<1>7. \A m \in msgs : m.type \in BallotMessages => m.ballot_num \in HeardOf
  BY HeardOfMembers
<1>8. UNCHANGED <<fd, notes, answers>>
  BY CoreStepIsNext
<1>9. CASE \E m \in msgs' : m.type \in BallotMessages /\ b = m.ballot_num
  BY <1>4, <1>7, <1>9 DEF BallotMessages
<1>10. CASE ~\E m \in msgs' : m.type \in BallotMessages /\ b = m.ballot_num
  BY <1>5, <1>6, <1>8, <1>10, HeardOfMembers
<1> QED
  BY <1>9, <1>10

\* In every other step, a ballot that is heard of for the first time is one that
\* a leader holds.
LEMMA LeaderPreemptedHears ==
  ASSUME FDTypeOK, NEW m \in msgs, LeaderPreemptedFD(m), NEW b \in HeardOf'
  PROVE  b \in HeardOf
<1>1. m.type = "PREEMPTED" /\ m.ballot_num \in HeardOf
  BY HeardOfMembers DEF LeaderPreemptedFD, BallotMessages
<1>2. /\ UNCHANGED <<accBallot, fd, answers>> /\ msgs' \subseteq msgs
      /\ \A x \in notes' : x \in notes \/ x.ballot_num = m.ballot_num
  BY DEF LeaderPreemptedFD, acceptorVars
<1>3. \A l \in Leaders : \/ preemptedBy'[l] = preemptedBy[l]
                         \/ preemptedBy'[l] = m.ballot_num
  BY DEF LeaderPreemptedFD, FDTypeOK
<1> QED
  BY <1>1, <1>2, <1>3, HeardOfMembers

LEMMA LeaderPreemptHears ==
  ASSUME FDTypeOK, NEW m \in notes, LeaderPreempt(m), NEW b \in HeardOf'
  PROVE  b \in HeardOf \/ \E l \in Leaders : b = ballotNum'[l]
<1>1. /\ UNCHANGED <<accBallot, preemptedBy, fd, answers>>
      /\ notes' \subseteq notes
  BY DEF LeaderPreempt, acceptorVars
<1>2. \A x \in msgs' : x \in msgs \/ \E l \in Leaders : x.ballot_num = ballotNum'[l]
  <2>1. CASE UNCHANGED msgs
    BY <2>1
  <2>2. ASSUME NEW l \in Leaders, NEW b1 \in Ballots,
               ballotNum' = [ballotNum EXCEPT ![l] = b1],
               msgs' = msgs \cup P1as(b1)
        PROVE  \A x \in msgs' : x \in msgs \/ x.ballot_num = ballotNum'[l]
    BY <2>2 DEF P1as, FDTypeOK, TypeOK
  <2> QED
    BY <2>1, <2>2, PreemptEffect
<1> QED
  BY <1>1, <1>2, HeardOfMembers

LEMMA DetectorStepHears ==
  ASSUME FDTypeOK, PingsLeader, NEW f \in Leaders, DetectorStep(f),
         NEW b \in HeardOf'
  PROVE  b \in HeardOf
<1>1. UNCHANGED <<accBallot, msgs, preemptedBy>>
  BY DetectorStepTypes DEF vars, acceptorVars
<1>2. /\ \A g \in Leaders :
           \/ fd'[g].ballot_num = fd[g].ballot_num
           \/ \E m \in notes : fd'[g].ballot_num = m.ballot_num
           \/ \E b1 \in BallotsOrBottom :
                answers[g][b1] > 0 /\ fd'[g].ballot_num = b1
      /\ \A m \in notes' : m \in notes \/ m.ballot_num = fd[f].ballot_num
      /\ \A g \in Leaders, b1 \in BallotsOrBottom :
           answers'[g][b1] > 0 => answers[g][b1] > 0
  BY DetectorStepTypes
<1> QED
  BY <1>1, <1>2, HeardOfMembers

LEMMA ResponseHears ==
  ASSUME FDTypeOK, NEW f \in Leaders, NEW l \in Leaders,
         LeaderResponseRequested(l, f), NEW b \in HeardOf'
  PROVE  b \in HeardOf \/ b = ballotNum'[l]
<1>1. UNCHANGED <<accBallot, ballotNum, msgs, preemptedBy, fd, notes>>
  BY ResponseEffect DEF vars, acceptorVars, leaderVars
<1> QED
  BY <1>1, ResponseEffect, HeardOfMembers
-----------------------------------------------------------------------------
(***************************************************************************)
(* The invariant, and that ballots only grow.                              *)
(***************************************************************************)

\* What a step does to the leaders' ballots.
BallotsGrowFD ==
  \A l \in Leaders : \/ ballotNum'[l] = ballotNum[l]
                     \/ /\ ballotNum[l].value < ballotNum'[l].value
                        /\ ballotNum'[l].leader = l

LEMMA PreemptGrows ==
  ASSUME FDTypeOK, NEW m \in notes, LeaderPreempt(m)
  PROVE  BallotsGrowFD
<1>1. CASE UNCHANGED ballotNum
  BY <1>1 DEF BallotsGrowFD
<1>2. ASSUME NEW l \in Leaders, NEW b \in Ballots,
             b.leader = l, ballotNum[l].value < b.value,
             ballotNum' = [ballotNum EXCEPT ![l] = b]
      PROVE  BallotsGrowFD
  BY <1>2 DEF BallotsGrowFD, FDTypeOK, TypeOK
<1> QED
  BY <1>1, <1>2, PreemptEffect

\* The four kinds of steps.
LEMMA StepKinds ==
  ASSUME FDTypeOK, FDNext
  PROVE  \/ CoreStep
         \/ \E m \in msgs : LeaderPreemptedFD(m)
         \/ \E m \in notes : LeaderPreempt(m)
         \/ \E f \in Leaders : DetectorStep(f)
         \/ \E f, l \in Leaders : LeaderResponseRequested(l, f)
<1>1. \A m \in notes : m.of \in Leaders
  BY DEF FDTypeOK, Ping, Preempt
<1> QED
  BY <1>1 DEF FDNext, CoreStep, DetectorStep

LEMMA StepFacts ==
  ASSUME FDTypeOK, PingsLeader, FDNext
  PROVE  /\ FDTypeOK' /\ PingsLeader' /\ BallotsGrowFD
         /\ \A b \in HeardOf' : b \in HeardOf \/ \E l \in Leaders : b = ballotNum'[l]
<1>1. CASE CoreStep
  <2>1. FDTypeOK' /\ UNCHANGED <<ballotNum, fd>>
    BY <1>1, CoreStepTypes, CoreStepIsNext, CoreStepKeepsBallots
  <2> QED
    BY <1>1, <2>1, CoreStepHears DEF PingsLeader, BallotsGrowFD
<1>2. ASSUME NEW m \in msgs, LeaderPreemptedFD(m)
      PROVE  /\ FDTypeOK' /\ PingsLeader' /\ BallotsGrowFD
             /\ \A b \in HeardOf' : b \in HeardOf
  <2>1. FDTypeOK' /\ UNCHANGED <<ballotNum, fd>>
    BY <1>2, LeaderPreemptedTypes DEF LeaderPreemptedFD
  <2> QED
    BY <1>2, <2>1, LeaderPreemptedHears DEF PingsLeader, BallotsGrowFD
<1>3. ASSUME NEW m \in notes, LeaderPreempt(m)
      PROVE  /\ FDTypeOK' /\ PingsLeader' /\ BallotsGrowFD
             /\ \A b \in HeardOf' :
                  b \in HeardOf \/ \E l \in Leaders : b = ballotNum'[l]
  <2>1. FDTypeOK' /\ BallotsGrowFD /\ UNCHANGED fd
    BY <1>3, LeaderPreemptTypes, PreemptGrows DEF LeaderPreempt
  <2> QED
    BY <1>3, <2>1, LeaderPreemptHears DEF PingsLeader
<1>4. ASSUME NEW f \in Leaders, DetectorStep(f)
      PROVE  /\ FDTypeOK' /\ PingsLeader' /\ BallotsGrowFD
             /\ \A b \in HeardOf' : b \in HeardOf
  <2>1. FDTypeOK' /\ PingsLeader' /\ UNCHANGED ballotNum
    BY <1>4, DetectorStepTypes DEF vars, leaderVars
  <2> QED
    BY <1>4, <2>1, DetectorStepHears DEF BallotsGrowFD
<1>5. ASSUME NEW f \in Leaders, NEW l \in Leaders, LeaderResponseRequested(l, f)
      PROVE  /\ FDTypeOK' /\ PingsLeader' /\ BallotsGrowFD
             /\ \A b \in HeardOf' : b \in HeardOf \/ b = ballotNum'[l]
  <2>1. FDTypeOK' /\ UNCHANGED <<ballotNum, fd>>
    BY <1>5, ResponseEffect DEF vars, leaderVars
  <2> QED
    BY <1>5, <2>1, ResponseHears DEF PingsLeader, BallotsGrowFD
<1> QED
  BY <1>1, <1>2, <1>3, <1>4, <1>5, StepKinds

LEMMA InitFDInv == FDInit => FDInv
<1> SUFFICES ASSUME FDInit PROVE FDInv
  OBVIOUS
<1>1. TypeOK
  BY InitType DEF FDInit
<1>2. FDTypeOK
  BY <1>1 DEF FDInit, FDTypeOK, Detectors, BallotsOrBottom
<1>3. \A l \in Leaders : /\ ballotNum[l] = BallotNumber(0, l)
                         /\ BallotNumber(0, l).leader = l
                         /\ BallotNumber(0, l).value = 0
  <2>1. 0 \in 0..MaxBallot
    BY MaxBallotAssumption
  <2> QED
    BY <2>1, BallotFields DEF FDInit, Init
<1>4. \A b \in HeardOf : b = bottom \/ \E l \in Leaders : b = BallotNumber(0, l)
  <2>1. \A m \in msgs : \E l \in Leaders : m.ballot_num = BallotNumber(0, l)
    BY DEF FDInit, Init, P1as
  <2> QED
    BY <2>1, HeardOfMembers DEF FDInit, Init
<1>5. HeardReached
  BY <1>3, <1>4 DEF HeardReached
<1> QED
  BY <1>2, <1>3, <1>5 DEF FDInv, OwnBallots, PingsLeader, FDInit

LEMMA NextFDInv == FDInv /\ FDNext => FDInv'
<1> SUFFICES ASSUME FDInv, FDNext PROVE FDInv'
  OBVIOUS
<1>1. /\ FDTypeOK' /\ PingsLeader' /\ BallotsGrowFD
      /\ \A b \in HeardOf' : b \in HeardOf \/ \E l \in Leaders : b = ballotNum'[l]
  BY StepFacts DEF FDInv
<1>2. OwnBallots'
  BY <1>1 DEF FDInv, OwnBallots, BallotsGrowFD
<1>3. \A l \in Leaders : /\ ballotNum[l].value \in Nat /\ ballotNum'[l].value \in Nat
                         /\ ballotNum[l].value <= ballotNum'[l].value
  <2>1. \A l \in Leaders : ballotNum[l] \in Proper /\ ballotNum'[l] \in Proper
    BY <1>1, BallotFields DEF FDInv, FDTypeOK, TypeOK
  <2> QED
    BY <1>1, <2>1, ProperFields DEF BallotsGrowFD
<1>4. ASSUME NEW b \in HeardOf', b # bottom
      PROVE  b.value <= ballotNum'[b.leader].value
  <2>1. CASE b \in HeardOf
    <3>1. /\ b.value \in Nat /\ b.leader \in Leaders
      BY <1>4, <2>1, HeardOfType, BallotFields, ProperFields
         DEF FDInv, BallotsOrBottom
    <3>2. b.value <= ballotNum[b.leader].value
      BY <1>4, <2>1 DEF FDInv, HeardReached
    <3> QED
      BY <1>3, <3>1, <3>2
  <2>2. ASSUME NEW l \in Leaders, b = ballotNum'[l]
        PROVE  b.value <= ballotNum'[b.leader].value
    BY <1>2, <1>3, <2>2 DEF OwnBallots
  <2> QED
    BY <1>1, <2>1, <2>2
<1> QED
  BY <1>1, <1>2, <1>4 DEF FDInv, HeardReached

LEMMA StutterFDInv == FDInv /\ UNCHANGED allVars => FDInv'
<1> SUFFICES ASSUME FDInv, UNCHANGED allVars PROVE FDInv'
  OBVIOUS
<1>1. UNCHANGED vars /\ UNCHANGED fdVars
  BY DEF allVars
<1>2. TypeOK'
  BY <1>1, SameVarsTypes DEF FDInv, FDTypeOK
<1>3. FDTypeOK'
  BY <1>1, <1>2 DEF FDInv, FDTypeOK, fdVars
<1>4. /\ UNCHANGED <<ballotNum, accBallot, msgs>>
      /\ UNCHANGED <<preemptedBy, fd, notes, requests, answers>>
  BY <1>1 DEF vars, acceptorVars, leaderVars, fdVars
<1> QED
  BY <1>3, <1>4 DEF FDInv, OwnBallots, PingsLeader, HeardReached, HeardOf

\* FDInv holds in every reachable state of the modes with failure detectors.
THEOREM FDInvariance == FDSpec => []FDInv
BY InitFDInv, NextFDInv, StutterFDInv, PTL DEF FDSpec

\* A leader that takes over on PREEMPT (leader.ex:216-227) outbids a ballot that
\* is really in use.
THEOREM KnownBallotsReachedHolds == FDSpec => []KnownBallotsReached
<1>1. FDInv => KnownBallotsReached
  BY DEF FDInv, HeardReached, KnownBallotsReached
<1> QED
  BY <1>1, FDInvariance, PTL

\* A greater value makes a greater ballot.
LEMMA GreaterValue ==
  ASSUME NEW b1 \in Ballots, NEW b2 \in Ballots,
         b1 = b2 \/ b1.value < b2.value
  PROVE  less_or_equal(b1, b2)
<1>1. b1 \in Proper /\ b2 \in Proper /\ b1 \in AllBallots
  BY BallotFields
<1> QED
  BY <1>1, LessOrEqualCases, LessOrEqualTotal

LEMMA AcceptorBallotsGrow ==
  ASSUME FDTypeOK, FDNext, NEW a \in Acceptors
  PROVE  less_or_equal(accBallot[a], accBallot'[a])
<1>1. accBallot[a] \in AllBallots
  BY BallotFields DEF FDTypeOK, TypeOK
<1>2. CASE UNCHANGED accBallot
  BY <1>1, <1>2, LessOrEqualTotal
<1>3. CASE CoreStep
  BY <1>3, CoreStepIsNext, StepAcceptorsGrow DEF FDTypeOK, AcceptorsGrow
<1>4. CoreStep \/ UNCHANGED accBallot
  BY StepKinds DEF DetectorStep, LeaderPreemptedFD, LeaderPreempt, FDPing,
     FDStillAlive, FDTimeout, LeaderResponseRequested, acceptorVars, vars
<1> QED
  BY <1>2, <1>3, <1>4

LEMMA DetectorBallotsGrow ==
  ASSUME FDTypeOK, PingsLeader, FDNext, NEW f \in Leaders
  PROVE  less_or_equal(fd[f].ballot_num, fd'[f].ballot_num)
<1>1. fd[f].ballot_num \in AllBallots
  BY BallotFields DEF FDTypeOK, Detectors
<1>2. CASE UNCHANGED fd
  BY <1>1, <1>2, LessOrEqualTotal
<1>3. ASSUME NEW g \in Leaders, DetectorStep(g)
      PROVE  less_or_equal(fd[f].ballot_num, fd'[f].ballot_num)
  BY <1>3, DetectorStepTypes
<1>4. UNCHANGED fd \/ \E g \in Leaders : DetectorStep(g)
  BY StepKinds, CoreStepIsNext DEF LeaderPreemptedFD, LeaderPreempt,
     LeaderResponseRequested
<1> QED
  BY <1>2, <1>3, <1>4

\* No step of the modes with failure detectors lowers the ballot of a leader, of
\* an acceptor or of a detector.
THEOREM BallotsOnlyGrowHolds == FDSpec => BallotsOnlyGrow
<1> DEFINE Grow ==
      /\ \A l \in Leaders : less_or_equal(ballotNum[l], ballotNum'[l])
      /\ \A a \in Acceptors : less_or_equal(accBallot[a], accBallot'[a])
      /\ \A f \in Leaders : less_or_equal(fd[f].ballot_num, fd'[f].ballot_num)
<1>1. FDInv /\ FDNext => Grow
  <2> SUFFICES ASSUME FDInv, FDNext PROVE Grow
    OBVIOUS
  <2>1. FDTypeOK /\ FDTypeOK' /\ PingsLeader /\ BallotsGrowFD
    BY StepFacts DEF FDInv
  <2>2. \A l \in Leaders : less_or_equal(ballotNum[l], ballotNum'[l])
    BY <2>1, GreaterValue DEF BallotsGrowFD, FDTypeOK, TypeOK
  <2> QED
    BY <2>1, <2>2, AcceptorBallotsGrow, DetectorBallotsGrow
<1>2. FDInv /\ [FDNext]_allVars => [Grow]_allVars
  BY <1>1
<1> QED
  BY <1>2, FDInvariance, PTL DEF FDSpec, BallotsOnlyGrow
=============================================================================
