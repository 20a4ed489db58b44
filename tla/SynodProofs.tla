----------------------------- MODULE SynodProofs -----------------------------
(***************************************************************************)
(* Agreement of Synod, for any number of leaders, acceptors and replicas   *)
(* and any bound on the ballots: Inv of Synod is inductive.                *)
(*                                                                         *)
(* First come type correctness, what the operators of Synod return, and    *)
(* what its single steps do: the lemmas that the invariance proof rests    *)
(* on.  The last part shows that Synod implements ReplicatedLog.           *)
(***************************************************************************)
EXTENDS Synod, FiniteSetTheorems, WellFoundedInduction, TLAPS

(***************************************************************************)
(* compare/2 is a total order on ballot numbers with bottom() below all,   *)
(* and a bounded set of ballot numbers has a greatest element.             *)
(***************************************************************************)
Proper == [value : Nat, leader : Nat, is_bottom : {FALSE}]
AllBallots == Proper \cup {bottom}

\* compare/2 by cases of the bottom flags, lexicographic otherwise.
LEMMA CompareCases ==
  /\ \A b1, b2 \in Proper : compare(b1, b2) =
       IF b1.value < b2.value THEN "lt"
       ELSE IF b1.value > b2.value THEN "gt"
       ELSE IF b1.leader < b2.leader THEN "lt"
       ELSE IF b1.leader > b2.leader THEN "gt"
       ELSE "eq"
  /\ \A b \in Proper : compare(bottom, b) = "lt" /\ compare(b, bottom) = "gt"
  /\ compare(bottom, bottom) = "eq"
<1>1. \A b \in Proper : b.is_bottom = FALSE
  BY DEF Proper
<1>2. bottom.is_bottom = TRUE
  BY DEF bottom
<1>3. ASSUME NEW b1 \in Proper, NEW b2 \in Proper
      PROVE  compare(b1, b2) =
               IF b1.value < b2.value THEN "lt"
               ELSE IF b1.value > b2.value THEN "gt"
               ELSE IF b1.leader < b2.leader THEN "lt"
               ELSE IF b1.leader > b2.leader THEN "gt"
               ELSE "eq"
  BY <1>1 DEF compare
<1>4. ASSUME NEW b \in Proper
      PROVE  compare(bottom, b) = "lt" /\ compare(b, bottom) = "gt"
  BY <1>1, <1>2 DEF compare
<1>5. compare(bottom, bottom) = "eq"
  BY <1>2 DEF compare
<1> QED
  BY <1>3, <1>4, <1>5

\* Ballot numbers are equal when their value and leader are.
LEMMA ProperEquality ==
  ASSUME NEW b1 \in Proper, NEW b2 \in Proper,
         b1.value = b2.value, b1.leader = b2.leader
  PROVE  b1 = b2
<1>1. \A b \in Proper :
        b = [value |-> b.value, leader |-> b.leader, is_bottom |-> b.is_bottom]
  BY DEF Proper
<1>2. b1.is_bottom = b2.is_bottom
  BY DEF Proper
<1> QED
  BY <1>1, <1>2

\* The fields of a ballot number that is not bottom.
LEMMA ProperFields ==
  /\ \A b \in Proper : b.value \in Nat /\ b.leader \in Nat
  /\ bottom \notin Proper
<1>1. \A b \in Proper : b.is_bottom = FALSE
  BY DEF Proper
<1>2. bottom.is_bottom = TRUE
  BY DEF bottom
<1> QED
  BY <1>1, <1>2 DEF Proper

\* less_or_equal?/2 without compare/2: lexicographic, bottom first.
LEMMA LessOrEqualCases ==
  /\ \A b1, b2 \in Proper :
       less_or_equal(b1, b2) <=>
         \/ b1.value < b2.value
         \/ b1.value = b2.value /\ b1.leader <= b2.leader
  /\ \A b \in Proper : less_or_equal(bottom, b) /\ ~less_or_equal(b, bottom)
  /\ less_or_equal(bottom, bottom)
<1>1. ASSUME NEW b1 \in Proper, NEW b2 \in Proper
      PROVE  less_or_equal(b1, b2) <=>
               \/ b1.value < b2.value
               \/ b1.value = b2.value /\ b1.leader <= b2.leader
  BY CompareCases, ProperFields DEF less_or_equal
<1> QED
  BY <1>1, CompareCases DEF less_or_equal

\* equal?/2 is equality of ballot numbers.
LEMMA EqualIsEquality ==
  ASSUME NEW b1 \in AllBallots, NEW b2 \in AllBallots
  PROVE  equal(b1, b2) <=> b1 = b2
<1>1. CASE b1 \in Proper /\ b2 \in Proper
  BY <1>1, CompareCases, ProperFields, ProperEquality DEF equal
<1>2. CASE b1 = bottom \/ b2 = bottom
  BY <1>2, CompareCases, ProperFields DEF equal, AllBallots
<1> QED
  BY <1>1, <1>2 DEF AllBallots

\* greater_than?/2 and less_or_equal?/2 are complementary.
LEMMA GreaterIsNotLessOrEqual ==
  \A b1, b2 : greater_than(b1, b2) <=> ~less_or_equal(b1, b2)
BY DEF greater_than, less_or_equal

\* less_or_equal?/2 is reflexive and total.
LEMMA LessOrEqualTotal ==
  ASSUME NEW b1 \in AllBallots, NEW b2 \in AllBallots
  PROVE  /\ less_or_equal(b1, b1)
         /\ less_or_equal(b1, b2) \/ less_or_equal(b2, b1)
BY LessOrEqualCases, ProperFields DEF AllBallots

\* less_or_equal?/2 is antisymmetric.
LEMMA LessOrEqualAntisymmetric ==
  ASSUME NEW b1 \in AllBallots, NEW b2 \in AllBallots,
         less_or_equal(b1, b2), less_or_equal(b2, b1)
  PROVE  b1 = b2
BY LessOrEqualCases, ProperFields, ProperEquality DEF AllBallots

\* less_or_equal?/2 is transitive.
LEMMA LessOrEqualTransitive ==
  ASSUME NEW b1 \in AllBallots, NEW b2 \in AllBallots, NEW b3 \in AllBallots,
         less_or_equal(b1, b2), less_or_equal(b2, b3)
  PROVE  less_or_equal(b1, b3)
BY LessOrEqualCases, ProperFields DEF AllBallots

\* A nonempty set of naturals below a bound has a greatest element.
LEMMA BoundedNaturalsHaveMax ==
  \A N \in Nat : \A S \in SUBSET (0..N) :
    S # {} => \E m \in S : \A n \in S : n <= m
<1> SUFFICES ASSUME NEW N \in Nat, NEW S \in SUBSET (0..N), S # {}
             PROVE  \E m \in S : \A n \in S : n <= m
  OBVIOUS
<1> DEFINE D == {N - n : n \in S}
<1>1. D \subseteq Nat /\ D # {}
  <2>1. \A n \in S : n \in 0..N
    OBVIOUS
  <2>2. \A n \in S : N - n \in Nat
    BY <2>1
  <2>3. PICK n \in S : TRUE
    OBVIOUS
  <2> QED
    BY <2>2, <2>3
<1>2. PICK d \in D : \A e \in D : <<e, d>> \notin OpToRel(<, Nat)
  BY <1>1, NatLessThanWellFounded, WFMin
<1>3. PICK m \in S : d = N - m
  OBVIOUS
<1>4. ASSUME NEW n \in S PROVE n <= m
  <2>1. ~ (N - n < d)
    BY <1>1, <1>2 DEF OpToRel
  <2> QED
    BY <1>3, <2>1
<1> QED
  BY <1>4

\* A nonempty set of ballots with bounded values and leaders has a greatest
\* element: the maximum that pmax looks for exists.
LEMMA BoundedBallotsHaveMax ==
  ASSUME NEW V \in Nat, NEW L \in Nat, NEW S \in SUBSET Proper, S # {},
         \A b \in S : b.value \in 0..V /\ b.leader \in 0..L
  PROVE  \E m \in S : \A b \in S : less_or_equal(b, m)
<1> DEFINE Values == {b.value : b \in S}
<1>1. Values \in SUBSET (0..V) /\ Values # {}
  OBVIOUS
<1>2. PICK v \in Values : \A w \in Values : w <= v
  <2> HIDE DEF Values
  <2> QED
    BY <1>1, BoundedNaturalsHaveMax, Zenon
<1> DEFINE LeadersAtTop == {b.leader : b \in {b \in S : b.value = v}}
<1>3. LeadersAtTop \in SUBSET (0..L) /\ LeadersAtTop # {}
  OBVIOUS
<1>4. PICK l \in LeadersAtTop : \A k \in LeadersAtTop : k <= l
  <2> HIDE DEF LeadersAtTop
  <2> QED
    BY <1>3, BoundedNaturalsHaveMax, Zenon
<1>5. PICK m \in S : m.value = v /\ m.leader = l
  OBVIOUS
<1>6. ASSUME NEW b \in S PROVE less_or_equal(b, m)
  <2>1. b.value <= m.value
    BY <1>2, <1>5
  <2>2. b.value = m.value => b.leader <= m.leader
    BY <1>4, <1>5
  <2>3. b.value < m.value \/ b.value = m.value
    BY <2>1, ProperFields
  <2> QED
    BY <2>2, <2>3, LessOrEqualCases
<1> QED
  BY <1>6
-----------------------------------------------------------------------------

\* A ballot of the model is a proper ballot number of one of the leaders.
LEMMA BallotFields ==
  /\ \A b \in Ballots : /\ b \in Proper
                        /\ b.value \in 0..MaxBallot
                        /\ b.leader \in Leaders
  /\ \A v \in 0..MaxBallot, l \in Leaders :
       /\ BallotNumber(v, l) \in Ballots
       /\ BallotNumber(v, l).value = v
       /\ BallotNumber(v, l).leader = l
  /\ Ballots \subseteq AllBallots /\ BallotsOrBottom \subseteq AllBallots
  /\ Ballots \subseteq BallotsOrBottom
<1>1. ASSUME NEW b \in Ballots
      PROVE  b \in Proper /\ b.value \in 0..MaxBallot /\ b.leader \in Leaders
  <2>1. PICK v \in 0..MaxBallot, l \in Leaders :
          b = [value |-> v, leader |-> l, is_bottom |-> FALSE]
    BY DEF Ballots, BallotNumber
  <2> QED
    BY <2>1, NumLeadersAssumption, MaxBallotAssumption DEF Proper, Leaders
<1>2. ASSUME NEW v \in 0..MaxBallot, NEW l \in Leaders
      PROVE  /\ BallotNumber(v, l) \in Ballots
             /\ BallotNumber(v, l).value = v
             /\ BallotNumber(v, l).leader = l
  <2>1. BallotNumber(v, l) \in Ballots
    BY DEF Ballots
  <2> QED
    BY <2>1 DEF BallotNumber
<1> QED
  BY <1>1, <1>2 DEF AllBallots, BallotsOrBottom

\* The fields of a pvalue.
LEMMA PValueFields ==
  /\ \A b \in Ballots, s \in Slots, c \in Commands :
       /\ PValue(b, s, c) \in PValues
       /\ PValue(b, s, c).ballot_num = b
       /\ PValue(b, s, c).slot_num = s
       /\ PValue(b, s, c).command = c
  /\ \A pv \in PValues :
       /\ pv.ballot_num \in Ballots /\ pv.slot_num \in Slots
       /\ pv.command \in Commands
       /\ pv = PValue(pv.ballot_num, pv.slot_num, pv.command)
BY DEF PValue, PValues

\* Every kind of message has the fields its handler reads.
LEMMA MessageFields ==
  ASSUME NEW m \in Messages
  PROVE  /\ m.type = "p1a" => m \in P1a
         /\ m.type = "p1b" => m \in P1b
         /\ m.type = "p2a" => m \in P2a
         /\ m.type = "p2b" => m \in P2b
         /\ m.type = "PROPOSE" => m \in Propose
         /\ m.type = "ADOPTED" => m \in Adopted
         /\ m.type = "PREEMPTED" => m \in Preempted
         /\ m.type = "DECISION" => m \in Decision
BY DEF Messages, P1a, P1b, P2a, P2b, Propose, Adopted, Preempted, Decision

\* What is sent when scouts and commanders start.
LEMMA SpawnTypes ==
  /\ \A b \in Ballots : P1as(b) \subseteq P1a /\ new_scout(b) \in Scouts
  /\ \A C \in SUBSET Commanders :
       /\ P2as(C) \subseteq P2a
       /\ new_commanders(C)
            \subseteq [id : Commanders, waitfor : SUBSET Acceptors]
BY DEF P1as, P1a, new_scout, Scouts, P2as, P2a, new_commanders

\* pmax and update_proposals return slots with commands.
LEMMA ProposalTypes ==
  /\ \A pvs \in SUBSET PValues : pmax(pvs) \in SUBSET Proposals
  /\ \A own, max \in SUBSET Proposals :
       update_proposals(own, max) \in SUBSET Proposals
<1>1. ASSUME NEW pvs \in SUBSET PValues PROVE pmax(pvs) \in SUBSET Proposals
  BY PValueFields DEF pmax, Proposals
<1> QED
  BY <1>1 DEF update_proposals

LEMMA CommanderForType ==
  \A b \in Ballots, p \in Proposals, o \in Origins :
    CommanderFor(b, p, o) \in Commanders
BY PValueFields DEF CommanderFor, Commanders, Proposals
-----------------------------------------------------------------------------
LEMMA InitType == Init => TypeOK
<1> SUFFICES ASSUME Init PROVE TypeOK
  OBVIOUS
<1>1. \A l \in Leaders : BallotNumber(0, l) \in Ballots
  BY BallotFields, MaxBallotAssumption
<1>2. /\ ballotNum \in [Leaders -> Ballots]
      /\ scouts \subseteq Scouts
      /\ msgs \subseteq Messages
  BY <1>1, SpawnTypes DEF Init, Messages
<1> QED
  BY <1>2 DEF Init, TypeOK, BallotsOrBottom

LEMMA AcceptorP1aType ==
  ASSUME TypeOK, NEW m \in msgs, AcceptorP1a(m)
  PROVE  TypeOK'
<1>1. m \in P1a
  BY MessageFields DEF AcceptorP1a, TypeOK
<1>2. m.to \in Acceptors /\ m.ballot_num \in Ballots
  BY <1>1 DEF P1a
<1> DEFINE b == IF greater_than(m.ballot_num, accBallot[m.to])
                THEN m.ballot_num ELSE accBallot[m.to]
           reply == [type |-> "p1b", from |-> m.to, scout |-> m.ballot_num,
                     ballot_num |-> b, accepted |-> accepted[m.to]]
<1>3. b \in BallotsOrBottom
  BY <1>2, BallotFields DEF TypeOK
<1>4. reply \in P1b
  BY <1>2, <1>3 DEF P1b, TypeOK
<1>5. msgs' \subseteq Messages
  BY <1>4 DEF AcceptorP1a, TypeOK, Messages
<1>6. accBallot' \in [Acceptors -> BallotsOrBottom]
  BY <1>3 DEF AcceptorP1a, TypeOK
<1> QED
  BY <1>5, <1>6 DEF AcceptorP1a, TypeOK, leaderVars, replicaVars

LEMMA AcceptorP2aType ==
  ASSUME TypeOK, NEW m \in msgs, AcceptorP2a(m)
  PROVE  TypeOK'
<1>1. m \in P2a
  BY MessageFields DEF AcceptorP2a, TypeOK
<1>2. /\ m.to \in Acceptors /\ m.commander \in Commanders
      /\ m.commander.pvalue \in PValues
  BY <1>1 DEF P2a, Commanders
<1> DEFINE reply == [type |-> "p2b", from |-> m.to, commander |-> m.commander,
                     ballot_num |-> accBallot[m.to]]
<1>3. reply \in P2b
  BY <1>2 DEF P2b, TypeOK
<1>4. msgs' \subseteq Messages
  BY <1>3 DEF AcceptorP2a, TypeOK, Messages
<1>5. accepted' \in [Acceptors -> SUBSET PValues]
  BY <1>2 DEF AcceptorP2a, TypeOK
<1> QED
  BY <1>4, <1>5 DEF AcceptorP2a, TypeOK, leaderVars, replicaVars

LEMMA ScoutP1bType ==
  ASSUME TypeOK, NEW m \in msgs, ScoutP1b(m)
  PROVE  TypeOK'
<1>1. m \in P1b
  BY MessageFields DEF ScoutP1b, TypeOK
<1>2. PICK sc \in scouts : /\ sc.ballot_num = m.scout
                           /\ ScoutPreempted(sc, m) \/ ScoutResponse(sc, m)
  BY DEF ScoutP1b
<1>3. sc \in Scouts /\ sc.ballot_num \in Ballots
      /\ sc.ballot_num.leader \in Leaders
  BY BallotFields DEF TypeOK, Scouts
<1>4. scouts' \subseteq Scouts /\ msgs' \subseteq Messages
  <2>1. CASE ScoutPreempted(sc, m)
    <3>1. [type |-> "PREEMPTED", to |-> sc.ballot_num.leader,
           ballot_num |-> m.ballot_num, from |-> sc.ballot_num] \in Preempted
      BY <1>1, <1>3 DEF P1b, Preempted
    <3> QED
      BY <2>1, <3>1 DEF ScoutPreempted, TypeOK, Messages
  <2>2. CASE ScoutResponse(sc, m)
    <3> DEFINE waitfor == sc.waitfor \ {m.from}
               pvalues == sc.pvalues \cup m.accepted
    <3>1. waitfor \in SUBSET Acceptors /\ pvalues \in SUBSET PValues
      BY <1>1, <1>3 DEF P1b, Scouts
    <3>2. [ballot_num |-> sc.ballot_num, waitfor |-> waitfor,
           pvalues |-> pvalues] \in Scouts
      BY <1>3, <3>1 DEF Scouts
    <3>3. [type |-> "ADOPTED", to |-> sc.ballot_num.leader,
           ballot_num |-> sc.ballot_num, pvalues |-> pvalues] \in Adopted
      BY <1>3, <3>1 DEF Adopted
    <3>4. Adopted \subseteq Messages
      BY DEF Messages
    <3> QED
      BY <2>2, <3>2, <3>3, <3>4 DEF ScoutResponse, TypeOK
  <2> QED
    BY <1>2, <2>1, <2>2
<1> QED
  BY <1>4 DEF ScoutP1b, TypeOK, acceptorVars, leaderVars, replicaVars

LEMMA CommanderP2bType ==
  ASSUME TypeOK, NEW m \in msgs, CommanderP2b(m)
  PROVE  TypeOK'
<1>1. m \in P2b
  BY MessageFields DEF CommanderP2b, TypeOK
<1>2. PICK k \in commanders :
        /\ k.id = m.commander
        /\ CommanderPreempted(k, m) \/ CommanderResponse(k, m)
  BY DEF CommanderP2b
<1>3. /\ k.id \in Commanders /\ k.waitfor \in SUBSET Acceptors
      /\ k.id.pvalue \in PValues
  BY DEF TypeOK, Commanders
<1>4. /\ k.id.pvalue.ballot_num.leader \in Leaders
      /\ k.id.pvalue.slot_num \in Slots /\ k.id.pvalue.command \in Commands
  BY <1>3, PValueFields, BallotFields
<1>5. /\ commanders' \subseteq [id : Commanders, waitfor : SUBSET Acceptors]
      /\ msgs' \subseteq Messages
  <2>1. CASE CommanderPreempted(k, m)
    <3>1. [type |-> "PREEMPTED", to |-> k.id.pvalue.ballot_num.leader,
           ballot_num |-> m.ballot_num, from |-> k.id] \in Preempted
      BY <1>1, <1>3, <1>4 DEF P2b, Preempted
    <3> QED
      BY <2>1, <3>1 DEF CommanderPreempted, TypeOK, Messages
  <2>2. CASE CommanderResponse(k, m)
    <3>1. [id |-> k.id, waitfor |-> k.waitfor \ {m.from}]
            \in [id : Commanders, waitfor : SUBSET Acceptors]
      BY <1>3
    <3>2. {[type |-> "DECISION", to |-> r, slot |-> k.id.pvalue.slot_num,
            command |-> k.id.pvalue.command] : r \in Replicas} \subseteq Decision
      BY <1>4 DEF Decision
    <3> QED
      BY <2>2, <3>1, <3>2 DEF CommanderResponse, TypeOK, Messages
  <2> QED
    BY <1>2, <2>1, <2>2
<1> QED
  BY <1>5 DEF CommanderP2b, TypeOK, acceptorVars, leaderVars, replicaVars

LEMMA LeaderProposeType ==
  ASSUME TypeOK, NEW m \in msgs, LeaderPropose(m)
  PROVE  TypeOK'
<1> DEFINE p == <<m.slot, m.command>>
           C == IF active[m.to]
                THEN {CommanderFor(ballotNum[m.to], p, "PROPOSE")} ELSE {}
<1>1. m \in Propose
  BY MessageFields DEF LeaderPropose, TypeOK
<1>2. m.to \in Leaders /\ p \in Proposals
  BY <1>1 DEF Propose, Proposals
<1>3. C \in SUBSET Commanders
  BY <1>2, CommanderForType DEF TypeOK, Origins
<1>4. /\ P2as(C) \subseteq P2a
      /\ new_commanders(C)
           \subseteq [id : Commanders, waitfor : SUBSET Acceptors]
  BY <1>3, SpawnTypes
<1>5. /\ proposals' \in [Leaders -> SUBSET Proposals]
      /\ commanders' \subseteq [id : Commanders, waitfor : SUBSET Acceptors]
      /\ msgs' \subseteq Messages
  <2>1. CASE exists_proposal_for(m.to, m.slot)
    BY <2>1 DEF LeaderPropose, TypeOK
  <2>2. CASE ~exists_proposal_for(m.to, m.slot)
    <3> HIDE DEF C, p
    <3>1. /\ proposals' = [proposals EXCEPT ![m.to] = @ \cup {p}]
          /\ commanders' = commanders \cup new_commanders(C)
          /\ msgs' = (msgs \ {m}) \cup P2as(C)
      BY <2>2 DEF LeaderPropose, C, p
    <3> QED
      BY <3>1, <1>2, <1>4 DEF TypeOK, Messages
  <2> QED
    BY <2>1, <2>2
<1> QED
  BY <1>5 DEF LeaderPropose, TypeOK, acceptorVars, replicaVars

LEMMA LeaderAdoptedType ==
  ASSUME TypeOK, NEW m \in msgs, LeaderAdopted(m)
  PROVE  TypeOK'
<1> DEFINE ps == update_proposals(proposals[m.to], pmax(m.pvalues))
           C == {CommanderFor(m.ballot_num, p, "ADOPTED") : p \in ps}
<1>1. m \in Adopted
  BY MessageFields DEF LeaderAdopted, TypeOK
<1>2. /\ m.to \in Leaders /\ m.ballot_num \in Ballots
      /\ m.pvalues \in SUBSET PValues
  BY <1>1 DEF Adopted
<1>3. ps \in SUBSET Proposals
  BY <1>2, ProposalTypes DEF TypeOK
<1>4. C \in SUBSET Commanders
  <2> HIDE DEF ps
  <2> QED
    BY <1>2, <1>3, CommanderForType DEF Origins
<1>5. /\ P2as(C) \subseteq P2a
      /\ new_commanders(C)
           \subseteq [id : Commanders, waitfor : SUBSET Acceptors]
  <2> HIDE DEF C
  <2> QED
    BY <1>4, SpawnTypes
<1>6. /\ proposals' \in [Leaders -> SUBSET Proposals]
      /\ active' \in [Leaders -> BOOLEAN]
      /\ commanders' \subseteq [id : Commanders, waitfor : SUBSET Acceptors]
      /\ msgs' \subseteq Messages
  <2>1. CASE ~equal(m.ballot_num, ballotNum[m.to])
    BY <2>1 DEF LeaderAdopted, TypeOK
  <2>2. CASE equal(m.ballot_num, ballotNum[m.to])
    <3> HIDE DEF C, ps
    <3>1. /\ active' = [active EXCEPT ![m.to] = TRUE]
          /\ proposals' = [proposals EXCEPT ![m.to] = ps]
          /\ commanders' = commanders \cup new_commanders(C)
          /\ msgs' = (msgs \ {m}) \cup P2as(C)
      BY <2>2 DEF LeaderAdopted, C, ps
    <3> QED
      BY <3>1, <1>2, <1>3, <1>5 DEF TypeOK, Messages
  <2> QED
    BY <2>1, <2>2
<1> QED
  BY <1>6 DEF LeaderAdopted, TypeOK, acceptorVars, replicaVars

\* A ballot above the leader's own is one with a larger or equal value, so the
\* next ballot is the leader's, within the bound and above its current one.
LEMMA NextBallot ==
  ASSUME TypeOK, NEW m \in msgs, m.type = "PREEMPTED",
         ~less_or_equal(m.ballot_num, ballotNum[m.to]),
         m.ballot_num.value + 1 <= MaxBallot
  PROVE  /\ m.to \in Leaders
         /\ BallotNumber(m.ballot_num.value + 1, m.to) \in Ballots
         /\ ballotNum[m.to].value < m.ballot_num.value + 1
         /\ BallotNumber(m.ballot_num.value + 1, m.to).value
              = m.ballot_num.value + 1
         /\ BallotNumber(m.ballot_num.value + 1, m.to).leader = m.to
<1>1. m.to \in Leaders /\ m.ballot_num \in BallotsOrBottom
  BY MessageFields DEF TypeOK, Preempted
<1>2. ballotNum[m.to] \in Ballots
  BY <1>1 DEF TypeOK
<1>3. ballotNum[m.to] \in Proper
  BY <1>2, BallotFields
<1>4. m.ballot_num # bottom
  BY <1>3, LessOrEqualCases
<1>5. m.ballot_num \in Ballots
  BY <1>1, <1>4 DEF BallotsOrBottom
<1>6. m.ballot_num \in Proper /\ m.ballot_num.value \in 0..MaxBallot
  BY <1>5, BallotFields
<1>7. ballotNum[m.to].value <= m.ballot_num.value
  BY <1>3, <1>6, LessOrEqualCases, ProperFields
<1>8. m.ballot_num.value + 1 \in 0..MaxBallot
  BY <1>6, MaxBallotAssumption
<1>9. ballotNum[m.to].value \in Nat
  BY <1>3, ProperFields
<1> QED
  BY <1>1, <1>6, <1>7, <1>8, <1>9, BallotFields

LEMMA LeaderPreemptedType ==
  ASSUME TypeOK, NEW m \in msgs, LeaderPreempted(m)
  PROVE  TypeOK'
<1> DEFINE b == BallotNumber(m.ballot_num.value + 1, m.to)
<1>1. CASE less_or_equal(m.ballot_num, ballotNum[m.to])
  <2>1. UNCHANGED <<ballotNum, active, scouts>> /\ msgs' = msgs \ {m}
    BY <1>1 DEF LeaderPreempted
  <2> QED
    BY <2>1 DEF LeaderPreempted, TypeOK, acceptorVars, replicaVars
<1>2. CASE ~less_or_equal(m.ballot_num, ballotNum[m.to])
  <2>1. /\ m.ballot_num.value + 1 <= MaxBallot
        /\ ballotNum' = [ballotNum EXCEPT ![m.to] = b]
        /\ scouts' = scouts \cup {new_scout(b)}
        /\ active' = [active EXCEPT ![m.to] = FALSE]
        /\ msgs' = (msgs \ {m}) \cup P1as(b)
    BY <1>2 DEF LeaderPreempted, NewBallot
  <2>2. m.to \in Leaders /\ b \in Ballots
    BY <1>2, <2>1, NextBallot DEF LeaderPreempted
  <2> HIDE DEF b
  <2>3. P1as(b) \subseteq P1a /\ new_scout(b) \in Scouts
    BY <2>2, SpawnTypes
  <2> QED
    BY <2>1, <2>2, <2>3
       DEF LeaderPreempted, TypeOK, Messages, acceptorVars, replicaVars
<1> QED
  BY <1>1, <1>2

LEMMA ReplicaType ==
  ASSUME TypeOK,
         \/ \E s \in Slots, c \in Commands : ReplicaPropose(s, c)
         \/ \E m \in msgs : ReplicaDecision(m)
  PROVE  TypeOK'
<1>1. ASSUME NEW s \in Slots, NEW c \in Commands, ReplicaPropose(s, c)
      PROVE  TypeOK'
  <2>1. {[type |-> "PROPOSE", to |-> l, slot |-> s, command |-> c] :
           l \in Leaders} \subseteq Propose
    BY DEF Propose
  <2> QED
    BY <1>1, <2>1
       DEF ReplicaPropose, TypeOK, Messages, Proposals, acceptorVars, leaderVars
<1>2. ASSUME NEW m \in msgs, ReplicaDecision(m)
      PROVE  TypeOK'
  <2>1. m \in Decision
    BY <1>2, MessageFields DEF ReplicaDecision, TypeOK
  <2>2. m.to \in Replicas /\ <<m.slot, m.command>> \in Proposals
    BY <2>1 DEF Decision, Proposals
  <2> QED
    BY <1>2, <2>2 DEF ReplicaDecision, TypeOK, acceptorVars, leaderVars
<1> QED
  BY <1>1, <1>2

LEMMA NextType == TypeOK /\ [Next]_vars => TypeOK'
<1> SUFFICES ASSUME TypeOK, [Next]_vars PROVE TypeOK'
  OBVIOUS
<1>1. CASE Next
  BY <1>1, AcceptorP1aType, AcceptorP2aType, ScoutP1bType, CommanderP2bType,
     LeaderProposeType, LeaderAdoptedType, LeaderPreemptedType, ReplicaType
     DEF Next, CommonNext
<1>2. CASE UNCHANGED vars
  BY <1>2 DEF vars, acceptorVars, leaderVars, replicaVars, TypeOK
<1> QED
  BY <1>1, <1>2

\* Type correctness: every handler keeps every process and mailbox in the
\* states and messages the handlers of the others expect.
THEOREM TypeCorrect == Spec => []TypeOK
BY InitType, NextType, PTL DEF Spec
-----------------------------------------------------------------------------
\* less_than is the strict part of the order.
LEMMA LessThan ==
  ASSUME NEW b1 \in AllBallots, NEW b2 \in AllBallots
  PROVE  /\ less_than(b1, b2) <=> less_or_equal(b1, b2) /\ b1 # b2
         /\ less_than(b1, b2) <=> ~less_or_equal(b2, b1)
         /\ less_or_equal(b1, b2) <=> less_than(b1, b2) \/ b1 = b2
BY LessOrEqualTotal, LessOrEqualAntisymmetric DEF less_than

\* Strict and weak comparisons compose.
LEMMA LessThanTransitive ==
  ASSUME NEW b1 \in AllBallots, NEW b2 \in AllBallots, NEW b3 \in AllBallots
  PROVE  /\ less_than(b1, b2) /\ less_or_equal(b2, b3) => less_than(b1, b3)
         /\ less_or_equal(b1, b2) /\ less_than(b2, b3) => less_than(b1, b3)
BY LessOrEqualTransitive DEF less_than

\* Two majorities of acceptors share an acceptor, whatever the parity of
\* their number.
LEMMA QuorumsIntersect ==
  ASSUME NEW Q1 \in Quorums, NEW Q2 \in Quorums
  PROVE  \E a \in Q1 : a \in Q2
<1> DEFINE W1 == Acceptors \ Q1
           W2 == Acceptors \ Q2
<1>1. IsFiniteSet(Acceptors) /\ IsFiniteSet(W1) /\ IsFiniteSet(W2)
  BY AcceptorsAssumption, FS_Subset
<1>2. /\ Cardinality(Acceptors) \in Nat
      /\ Cardinality(W1) \in Nat /\ Cardinality(W2) \in Nat
  BY <1>1, FS_CardinalityType
<1>3. /\ Cardinality(W1) < (Cardinality(Acceptors) + 1) \div 2
      /\ Cardinality(W2) < (Cardinality(Acceptors) + 1) \div 2
  BY DEF Quorums, majority_responded
<1>4. Cardinality(W1) + Cardinality(W2) < Cardinality(Acceptors)
  <2> HIDE DEF W1, W2
  <2> QED
    BY <1>2, <1>3
<1>5. Cardinality(W1 \cup W2) <= Cardinality(W1) + Cardinality(W2)
  <2>1. /\ Cardinality(W1 \cup W2)
             = Cardinality(W1) + Cardinality(W2) - Cardinality(W1 \cap W2)
        /\ IsFiniteSet(W1 \cup W2)
    BY <1>1, FS_Union
  <2>2. Cardinality(W1 \cap W2) \in Nat
    BY <1>1, FS_Subset, FS_CardinalityType
  <2> HIDE DEF W1, W2
  <2> QED
    BY <1>2, <2>1, <2>2
<1>6. W1 \cup W2 # Acceptors
  <2>1. Cardinality(W1 \cup W2) \in Nat
    BY <1>1, FS_Union, FS_CardinalityType
  <2>2. Cardinality(W1 \cup W2) < Cardinality(Acceptors)
    <3> HIDE DEF W1, W2
    <3> QED
      BY <1>2, <1>4, <1>5, <2>1
  <2>3. Cardinality(W1 \cup W2) # Cardinality(Acceptors)
    BY <1>2, <2>1, <2>2
  <2> QED
    BY <2>3
<1>7. W1 \cup W2 \subseteq Acceptors
  OBVIOUS
<1> QED
  BY <1>6, <1>7 DEF Quorums

\* A quorum is a nonempty set of acceptors.
LEMMA QuorumMembers ==
  ASSUME NEW Q \in Quorums
  PROVE  Q \subseteq Acceptors /\ Q # {}
BY QuorumsIntersect DEF Quorums

\* When a majority of acceptors is no longer waited for, the others form a
\* quorum.
LEMMA RespondersAreQuorum ==
  ASSUME NEW W \in SUBSET Acceptors, majority_responded(W)
  PROVE  Acceptors \ W \in Quorums
<1>1. Acceptors \ (Acceptors \ W) = W
  OBVIOUS
<1> QED
  BY <1>1 DEF Quorums
-----------------------------------------------------------------------------
(***************************************************************************)
(* What one step may do to the acceptors, and what is stable under it.     *)
(***************************************************************************)

\* Acceptor ballots only grow, and what is accepted is accepted for good and
\* under the ballot the acceptor holds.
AcceptorsGrow ==
  \A a \in Acceptors :
    /\ less_or_equal(accBallot[a], accBallot'[a])
    /\ accepted[a] \subseteq accepted'[a]
    /\ \A pv \in accepted'[a] :
         pv \in accepted[a] \/ pv.ballot_num = accBallot[a]

LEMMA SameAcceptors ==
  ASSUME TypeOK, UNCHANGED acceptorVars
  PROVE  AcceptorsGrow
<1>1. ASSUME NEW a \in Acceptors
      PROVE  less_or_equal(accBallot[a], accBallot[a])
  BY BallotFields, LessOrEqualTotal DEF TypeOK
<1> QED
  BY <1>1 DEF AcceptorsGrow, acceptorVars

LEMMA StepAcceptorsGrow ==
  ASSUME TypeOK, Next
  PROVE  AcceptorsGrow
<1>1. ASSUME NEW m \in msgs, AcceptorP1a(m)
      PROVE  AcceptorsGrow
  <2>1. m.to \in Acceptors /\ m.ballot_num \in Ballots
    BY <1>1, MessageFields DEF AcceptorP1a, TypeOK, P1a
  <2>2. ASSUME NEW a \in Acceptors
        PROVE  less_or_equal(accBallot[a], accBallot'[a])
    <3>1. accBallot[a] \in AllBallots /\ m.ballot_num \in AllBallots
      BY <2>1, BallotFields DEF TypeOK
    <3>2. less_or_equal(accBallot[a], accBallot[a])
      BY <3>1, LessOrEqualTotal
    <3>3. greater_than(m.ballot_num, accBallot[a])
            => less_or_equal(accBallot[a], m.ballot_num)
      BY <3>1, GreaterIsNotLessOrEqual, LessOrEqualTotal
    <3>4. \/ accBallot'[a] = accBallot[a]
          \/ accBallot'[a] = m.ballot_num
             /\ greater_than(m.ballot_num, accBallot[a])
      BY <1>1, <2>1 DEF AcceptorP1a, TypeOK
    <3> QED
      BY <3>2, <3>3, <3>4
  <2> QED
    BY <1>1, <2>2 DEF AcceptorP1a, AcceptorsGrow
<1>2. ASSUME NEW m \in msgs, AcceptorP2a(m)
      PROVE  AcceptorsGrow
  <2>1. m.to \in Acceptors /\ m.commander.pvalue \in PValues
    BY <1>2, MessageFields DEF AcceptorP2a, TypeOK, P2a, Commanders
  <2>2. ASSUME NEW a \in Acceptors
        PROVE  less_or_equal(accBallot[a], accBallot'[a])
    <3>1. accBallot[a] \in AllBallots
      BY BallotFields DEF TypeOK
    <3> QED
      BY <1>2, <3>1, LessOrEqualTotal DEF AcceptorP2a
  <2>3. equal(m.commander.pvalue.ballot_num, accBallot[m.to])
          <=> m.commander.pvalue.ballot_num = accBallot[m.to]
    <3>1. /\ m.commander.pvalue.ballot_num \in AllBallots
          /\ accBallot[m.to] \in AllBallots
      BY <2>1, PValueFields, BallotFields DEF TypeOK
    <3> QED
      BY <3>1, EqualIsEquality
  <2> QED
    BY <1>2, <2>1, <2>2, <2>3 DEF AcceptorP2a, AcceptorsGrow, TypeOK
<1>3. CASE UNCHANGED acceptorVars
  BY <1>3, SameAcceptors
<1>4. \/ \E m \in msgs : AcceptorP1a(m) \/ AcceptorP2a(m)
      \/ UNCHANGED acceptorVars
  BY DEF Next, CommonNext, ScoutP1b, CommanderP2b, LeaderPropose,
         LeaderAdopted, LeaderPreempted, ReplicaDecision, ReplicaPropose
<1> QED
  BY <1>1, <1>2, <1>3, <1>4

LEMMA SafeAtStable ==
  ASSUME TypeOK, TypeOK', AcceptorsGrow,
         NEW b \in Ballots, NEW s \in Slots, NEW c \in Commands,
         SafeAt(b, s, c)
  PROVE  SafeAt(b, s, c)'
<1> SUFFICES ASSUME NEW b1 \in Ballots, less_than(b1, b)
             PROVE  \E Q \in Quorums : \A a \in Q :
                      \/ PValue(b1, s, c) \in accepted'[a]
                      \/ /\ less_than(b1, accBallot'[a])
                         /\ \A c1 \in Commands :
                              PValue(b1, s, c1) \notin accepted'[a]
  BY DEF SafeAt
<1>1. PICK Q \in Quorums : \A a \in Q :
        \/ PValue(b1, s, c) \in accepted[a]
        \/ /\ less_than(b1, accBallot[a])
           /\ \A c1 \in Commands : PValue(b1, s, c1) \notin accepted[a]
  BY DEF SafeAt
<1>2. ASSUME NEW a \in Q
      PROVE  \/ PValue(b1, s, c) \in accepted'[a]
             \/ /\ less_than(b1, accBallot'[a])
                /\ \A c1 \in Commands : PValue(b1, s, c1) \notin accepted'[a]
  <2>1. a \in Acceptors
    BY QuorumMembers
  <2>2. CASE PValue(b1, s, c) \in accepted[a]
    BY <2>1, <2>2 DEF AcceptorsGrow
  <2>3. CASE /\ less_than(b1, accBallot[a])
             /\ \A c1 \in Commands : PValue(b1, s, c1) \notin accepted[a]
    <3>1. /\ b1 \in AllBallots
          /\ accBallot[a] \in AllBallots /\ accBallot'[a] \in AllBallots
      BY <2>1, BallotFields DEF TypeOK
    <3>2. less_than(b1, accBallot'[a])
      BY <2>1, <2>3, <3>1, LessThanTransitive DEF AcceptorsGrow
    <3>3. b1 # accBallot[a]
      BY <2>3, <3>1, LessThan
    <3> QED
      BY <2>1, <2>3, <3>2, <3>3, PValueFields DEF AcceptorsGrow
  <2> QED
    BY <1>1, <2>2, <2>3
<1> QED
  BY <1>2

LEMMA ReportedStable ==
  ASSUME TypeOK, TypeOK', AcceptorsGrow, NEW a \in Acceptors, NEW b \in Ballots,
         NEW pvs \in SUBSET PValues, Reported(a, b, pvs)
  PROVE  Reported(a, b, pvs)'
<1>1. /\ b \in AllBallots
      /\ accBallot[a] \in AllBallots /\ accBallot'[a] \in AllBallots
  BY BallotFields DEF TypeOK
<1>2. less_or_equal(b, accBallot'[a])
  BY <1>1, LessOrEqualTransitive DEF AcceptorsGrow, Reported
<1>3. ASSUME NEW pv \in accepted'[a], less_than(pv.ballot_num, b)
      PROVE  pv \in pvs
  <2>1. pv.ballot_num # accBallot[a]
    BY <1>1, <1>3, LessThan DEF Reported
  <2> QED
    BY <1>3, <2>1 DEF AcceptorsGrow, Reported
<1> QED
  BY <1>2, <1>3 DEF Reported

LEMMA CollectedStable ==
  ASSUME AcceptorsGrow, NEW b, NEW pvs, Collected(b, pvs)
  PROVE  Collected(b, pvs)'
BY DEF AcceptorsGrow, Collected

LEMMA ChosenStable ==
  ASSUME AcceptorsGrow, NEW pv, ChosenPValue(pv)
  PROVE  ChosenPValue(pv)'
BY QuorumMembers DEF AcceptorsGrow, ChosenPValue
-----------------------------------------------------------------------------
(***************************************************************************)
(* Which handler puts which message, scout or commander into the system.   *)
(***************************************************************************)

LEMMA NewMessages ==
  ASSUME Next, NEW x \in msgs', x \notin msgs
  PROVE  /\ x.type = "p1b" => \E m \in msgs : AcceptorP1a(m)
         /\ x.type = "p2b" => \E m \in msgs : AcceptorP2a(m)
         /\ x.type = "ADOPTED" => \E m \in msgs : ScoutP1b(m)
         /\ x.type = "DECISION" => \E m \in msgs : CommanderP2b(m)
         /\ x.type = "PROPOSE" =>
              \E s \in Slots, c \in Commands : ReplicaPropose(s, c)
<1>1. ASSUME NEW m \in msgs, AcceptorP1a(m) PROVE x.type = "p1b"
  BY <1>1 DEF AcceptorP1a
<1>2. ASSUME NEW m \in msgs, AcceptorP2a(m) PROVE x.type = "p2b"
  BY <1>2 DEF AcceptorP2a
<1>3. ASSUME NEW m \in msgs, ScoutP1b(m)
      PROVE  x.type \in {"PREEMPTED", "ADOPTED"}
  BY <1>3 DEF ScoutP1b, ScoutPreempted, ScoutResponse
<1>4. ASSUME NEW m \in msgs, CommanderP2b(m)
      PROVE  x.type \in {"PREEMPTED", "DECISION"}
  BY <1>4 DEF CommanderP2b, CommanderPreempted, CommanderResponse
<1>5. ASSUME NEW m \in msgs, LeaderPropose(m) PROVE x.type = "p2a"
  BY <1>5 DEF LeaderPropose, P2as
<1>6. ASSUME NEW m \in msgs, LeaderAdopted(m) PROVE x.type = "p2a"
  BY <1>6 DEF LeaderAdopted, P2as
<1>7. ASSUME NEW m \in msgs, LeaderPreempted(m) PROVE x.type = "p1a"
  BY <1>7 DEF LeaderPreempted, P1as
<1>8. ASSUME NEW m \in msgs, ReplicaDecision(m) PROVE FALSE
  BY <1>8 DEF ReplicaDecision
<1>9. ASSUME NEW s \in Slots, NEW c \in Commands, ReplicaPropose(s, c)
      PROVE  x.type = "PROPOSE"
  BY <1>9 DEF ReplicaPropose
<1> QED
  BY <1>1, <1>2, <1>3, <1>4, <1>5, <1>6, <1>7, <1>8, <1>9 DEF Next, CommonNext

\* The scouts change when one handles a p1b and when a leader is preempted.
LEMMA NewScouts ==
  ASSUME Next
  PROVE  \/ UNCHANGED scouts
         \/ \E m \in msgs : ScoutP1b(m) \/ LeaderPreempted(m)
BY DEF Next, CommonNext, AcceptorP1a, AcceptorP2a, CommanderP2b, LeaderPropose,
       LeaderAdopted, ReplicaPropose, ReplicaDecision

\* The commanders change when one handles a p2b and when a leader spawns some.
LEMMA NewCommanders ==
  ASSUME Next
  PROVE  \/ UNCHANGED commanders
         \/ \E m \in msgs : \/ CommanderP2b(m)
                            \/ LeaderPropose(m)
                            \/ LeaderAdopted(m)
BY DEF Next, CommonNext, AcceptorP1a, AcceptorP2a, ScoutP1b, LeaderPreempted,
       ReplicaPropose, ReplicaDecision

\* A leader changes in its own three handlers only.
LEMMA NewLeaders ==
  ASSUME Next
  PROVE  \/ UNCHANGED leaderVars
         \/ \E m \in msgs : \/ LeaderPropose(m)
                            \/ LeaderAdopted(m)
                            \/ LeaderPreempted(m)
BY DEF Next, CommonNext, AcceptorP1a, AcceptorP2a, ScoutP1b, CommanderP2b,
       ReplicaPropose, ReplicaDecision

\* The pvalues in use, member by member.
LEMMA InUseMembers ==
  /\ \A pv : pv \in InUse <=>
       \/ \E k \in commanders : pv = k.id.pvalue
       \/ \E m \in msgs : m.type = "p2a" /\ pv = m.commander.pvalue
       \/ \E a \in Acceptors : pv \in accepted[a]
  /\ \A pv : pv \in InUse' <=>
       \/ \E k \in commanders' : pv = k.id.pvalue
       \/ \E m \in msgs' : m.type = "p2a" /\ pv = m.commander.pvalue
       \/ \E a \in Acceptors : pv \in accepted'[a]
BY DEF InUse

LEMMA InUseType ==
  TypeOK => InUse \subseteq PValues
<1> SUFFICES ASSUME TypeOK, NEW pv \in InUse PROVE pv \in PValues
  OBVIOUS
<1>1. CASE \E k \in commanders : pv = k.id.pvalue
  BY <1>1 DEF TypeOK, Commanders
<1>2. CASE \E m \in msgs : m.type = "p2a" /\ pv = m.commander.pvalue
  BY <1>2, MessageFields DEF TypeOK, P2a, Commanders
<1>3. CASE \E a \in Acceptors : pv \in accepted[a]
  BY <1>3 DEF TypeOK
<1> QED
  BY <1>1, <1>2, <1>3, InUseMembers

LEMMA InUseTypePrime ==
  (TypeOK => InUse \subseteq PValues)'
BY InUseType, PTL

\* A pvalue comes into use only when a leader spawns a commander for it.
SpawnedByPropose(pv) ==
  \E m \in msgs :
    /\ LeaderPropose(m)
    /\ active[m.to] /\ ~exists_proposal_for(m.to, m.slot)
    /\ pv = PValue(ballotNum[m.to], m.slot, m.command)

SpawnedByAdopted(pv) ==
  \E m \in msgs :
    /\ LeaderAdopted(m)
    /\ equal(m.ballot_num, ballotNum[m.to])
    /\ \E p \in update_proposals(proposals[m.to], pmax(m.pvalues)) :
         pv = PValue(m.ballot_num, p[1], p[2])

LEMMA NewInUse ==
  ASSUME TypeOK, Next, NEW pv \in InUse', pv \notin InUse
  PROVE  SpawnedByPropose(pv) \/ SpawnedByAdopted(pv)
<1>1. ASSUME NEW m \in msgs, AcceptorP1a(m) PROVE FALSE
  BY <1>1, InUseMembers DEF AcceptorP1a
<1>2. ASSUME NEW m \in msgs, AcceptorP2a(m) PROVE FALSE
  <2>1. m.to \in Acceptors
    BY <1>2, MessageFields DEF AcceptorP2a, TypeOK, P2a
  <2>2. \A a \in Acceptors : \A q \in accepted'[a] :
          q \in accepted[a] \/ q = m.commander.pvalue
    BY <1>2, <2>1 DEF AcceptorP2a, TypeOK
  <2> QED
    BY <1>2, <2>2, InUseMembers DEF AcceptorP2a
<1>3. ASSUME NEW m \in msgs, ScoutP1b(m) PROVE FALSE
  BY <1>3, InUseMembers
     DEF ScoutP1b, ScoutPreempted, ScoutResponse, acceptorVars
<1>4. ASSUME NEW m \in msgs, CommanderP2b(m) PROVE FALSE
  <2>1. \A k \in commanders' : \E k1 \in commanders : k.id = k1.id
    BY <1>4 DEF CommanderP2b, CommanderPreempted, CommanderResponse
  <2>2. \A x \in msgs' : x.type = "p2a" => x \in msgs
    BY <1>4 DEF CommanderP2b, CommanderPreempted, CommanderResponse
  <2> QED
    BY <1>4, <2>1, <2>2, InUseMembers DEF CommanderP2b, acceptorVars
<1>5. ASSUME NEW m \in msgs, LeaderPropose(m) PROVE SpawnedByPropose(pv)
  <2> DEFINE p == <<m.slot, m.command>>
             C == IF active[m.to]
                  THEN {CommanderFor(ballotNum[m.to], p, "PROPOSE")} ELSE {}
  <2>1. CASE exists_proposal_for(m.to, m.slot)
    BY <1>5, <2>1, InUseMembers DEF LeaderPropose, acceptorVars
  <2>2. CASE ~exists_proposal_for(m.to, m.slot)
    <3>1. /\ commanders' = commanders \cup new_commanders(C)
          /\ msgs' = (msgs \ {m}) \cup P2as(C)
          /\ UNCHANGED accepted
      BY <1>5, <2>2 DEF LeaderPropose, acceptorVars
    <3>2. \E id \in C : pv = id.pvalue
      <4> HIDE DEF C
      <4> QED
        BY <3>1, InUseMembers DEF new_commanders, P2as
    <3> QED
      BY <1>5, <2>2, <3>2 DEF SpawnedByPropose, CommanderFor
  <2> QED
    BY <2>1, <2>2
<1>6. ASSUME NEW m \in msgs, LeaderAdopted(m) PROVE SpawnedByAdopted(pv)
  <2> DEFINE ps == update_proposals(proposals[m.to], pmax(m.pvalues))
             C == {CommanderFor(m.ballot_num, p, "ADOPTED") : p \in ps}
  <2>1. CASE ~equal(m.ballot_num, ballotNum[m.to])
    BY <1>6, <2>1, InUseMembers DEF LeaderAdopted, acceptorVars
  <2>2. CASE equal(m.ballot_num, ballotNum[m.to])
    <3>1. /\ commanders' = commanders \cup new_commanders(C)
          /\ msgs' = (msgs \ {m}) \cup P2as(C)
          /\ UNCHANGED accepted
      BY <1>6, <2>2 DEF LeaderAdopted, acceptorVars
    <3>2. \E id \in C : pv = id.pvalue
      <4> HIDE DEF C
      <4> QED
        BY <3>1, InUseMembers DEF new_commanders, P2as
    <3> QED
      BY <1>6, <2>2, <3>2 DEF SpawnedByAdopted, CommanderFor
  <2> QED
    BY <2>1, <2>2
<1>7. ASSUME NEW m \in msgs, LeaderPreempted(m) PROVE FALSE
  BY <1>7, InUseMembers DEF LeaderPreempted, P1as, acceptorVars
<1>8. ASSUME NEW m \in msgs, ReplicaDecision(m) PROVE FALSE
  BY <1>8, InUseMembers DEF ReplicaDecision, acceptorVars
<1>9. ASSUME NEW s \in Slots, NEW c \in Commands, ReplicaPropose(s, c)
      PROVE  FALSE
  BY <1>9, InUseMembers DEF ReplicaPropose, acceptorVars
<1> QED
  BY <1>1, <1>2, <1>3, <1>4, <1>5, <1>6, <1>7, <1>8, <1>9 DEF Next, CommonNext
-----------------------------------------------------------------------------
(***************************************************************************)
(* The parts of Inv about acceptors and about what scouts and commanders   *)
(* have heard from them.                                                   *)
(***************************************************************************)

LEMMA AcceptorInvStep ==
  ASSUME TypeOK, TypeOK', AcceptorsGrow, AcceptorInv
  PROVE  AcceptorInv'
<1> SUFFICES ASSUME NEW a \in Acceptors, NEW pv \in accepted'[a]
             PROVE  less_or_equal(pv.ballot_num, accBallot'[a])
  BY DEF AcceptorInv
<1>1. /\ accBallot[a] \in AllBallots /\ accBallot'[a] \in AllBallots
      /\ pv.ballot_num \in AllBallots
  BY BallotFields, PValueFields DEF TypeOK
<1> QED
  BY <1>1, LessOrEqualTransitive DEF AcceptorsGrow, AcceptorInv

LEMMA P1bInvStep ==
  ASSUME TypeOK, TypeOK', Next, AcceptorsGrow, AcceptorInv', P1bInv
  PROVE  P1bInv'
<1> SUFFICES ASSUME NEW x \in msgs', x.type = "p1b",
                    equal(x.ballot_num, x.scout)
             PROVE  /\ Reported(x.from, x.scout, x.accepted)'
                    /\ Collected(x.scout, x.accepted)'
  BY DEF P1bInv
<1>1. /\ x.from \in Acceptors /\ x.scout \in Ballots
      /\ x.ballot_num \in BallotsOrBottom /\ x.accepted \in SUBSET PValues
  BY MessageFields DEF TypeOK, P1b
<1>2. CASE x \in msgs
  BY <1>1, <1>2, ReportedStable, CollectedStable DEF P1bInv
<1>3. CASE x \notin msgs
  <2>1. PICK m \in msgs : AcceptorP1a(m)
    BY <1>3, NewMessages
  <2>2. m.to \in Acceptors /\ m.ballot_num \in Ballots
    BY <2>1, MessageFields DEF AcceptorP1a, TypeOK, P1a
  <2>3. /\ x.from = m.to /\ x.scout = m.ballot_num
        /\ x.ballot_num = accBallot'[m.to]
        /\ x.accepted = accepted[m.to] /\ accepted' = accepted
    BY <1>3, <2>1, <2>2 DEF AcceptorP1a, TypeOK
  <2>4. accBallot'[m.to] = x.scout
    BY <1>1, <2>3, BallotFields, EqualIsEquality
  <2>5. less_or_equal(x.scout, accBallot'[m.to])
    BY <1>1, <2>4, BallotFields, LessOrEqualTotal
  <2> QED
    BY <2>2, <2>3, <2>4, <2>5 DEF Reported, Collected, AcceptorInv
<1> QED
  BY <1>2, <1>3

LEMMA P2bInvStep ==
  ASSUME TypeOK, TypeOK', Next, AcceptorsGrow, P2bInv
  PROVE  P2bInv'
<1> SUFFICES ASSUME NEW x \in msgs', x.type = "p2b",
                    equal(x.ballot_num, x.commander.pvalue.ballot_num)
             PROVE  x.commander.pvalue \in accepted'[x.from]
  BY DEF P2bInv
<1>1. x.from \in Acceptors
  BY MessageFields DEF TypeOK, P2b
<1>2. CASE x \in msgs
  BY <1>1, <1>2 DEF P2bInv, AcceptorsGrow
<1>3. CASE x \notin msgs
  <2>1. PICK m \in msgs : AcceptorP2a(m)
    BY <1>3, NewMessages
  <2>2. m.to \in Acceptors /\ m.commander.pvalue \in PValues
    BY <2>1, MessageFields DEF AcceptorP2a, TypeOK, P2a, Commanders
  <2>3. /\ x.from = m.to /\ x.commander = m.commander
        /\ x.ballot_num = accBallot[m.to]
    BY <1>3, <2>1 DEF AcceptorP2a
  <2>4. x.commander.pvalue.ballot_num = accBallot[m.to]
    BY <2>2, <2>3, PValueFields, BallotFields, EqualIsEquality DEF TypeOK
  <2>5. equal(m.commander.pvalue.ballot_num, accBallot[m.to])
    BY <2>2, <2>3, <2>4, PValueFields, BallotFields, EqualIsEquality
  <2> QED
    BY <2>1, <2>2, <2>3, <2>5 DEF AcceptorP2a, TypeOK
<1> QED
  BY <1>2, <1>3

\* What a scout's answer adds keeps what the scout knows correct.
LEMMA ScoutResponseFacts ==
  ASSUME TypeOK, P1bInv, ScoutInv, NEW m \in msgs, m.type = "p1b",
         NEW sc \in scouts, sc.ballot_num = m.scout, ScoutResponse(sc, m)
  PROVE  /\ sc.ballot_num \in Ballots
         /\ sc.waitfor \ {m.from} \in SUBSET Acceptors
         /\ sc.pvalues \cup m.accepted \in SUBSET PValues
         /\ \A a \in Acceptors \ (sc.waitfor \ {m.from}) :
              Reported(a, sc.ballot_num, sc.pvalues \cup m.accepted)
         /\ Collected(sc.ballot_num, sc.pvalues \cup m.accepted)
<1>1. /\ m.from \in Acceptors /\ m.scout \in Ballots
      /\ m.ballot_num \in BallotsOrBottom /\ m.accepted \in SUBSET PValues
  BY MessageFields DEF TypeOK, P1b
<1>2. /\ sc.waitfor \in SUBSET Acceptors /\ sc.pvalues \in SUBSET PValues
  BY DEF TypeOK, Scouts
<1>3. equal(m.ballot_num, m.scout)
  BY DEF ScoutResponse
<1>4. Reported(m.from, m.scout, m.accepted) /\ Collected(m.scout, m.accepted)
  BY <1>3 DEF P1bInv
<1>5. /\ \A a \in Acceptors \ sc.waitfor :
           Reported(a, sc.ballot_num, sc.pvalues)
      /\ Collected(sc.ballot_num, sc.pvalues)
  BY DEF ScoutInv
<1> QED
  BY <1>1, <1>2, <1>4, <1>5 DEF Reported, Collected

LEMMA ScoutInvStep ==
  ASSUME TypeOK, TypeOK', Next, AcceptorsGrow, P1bInv, ScoutInv
  PROVE  ScoutInv'
<1> SUFFICES ASSUME NEW sc \in scouts'
             PROVE  /\ \A a \in Acceptors \ sc.waitfor :
                         Reported(a, sc.ballot_num, sc.pvalues)'
                    /\ Collected(sc.ballot_num, sc.pvalues)'
  BY DEF ScoutInv
<1>1. CASE sc \in scouts
  <2>1. sc.ballot_num \in Ballots /\ sc.pvalues \in SUBSET PValues
    BY <1>1 DEF TypeOK, Scouts
  <2> QED
    BY <1>1, <2>1, ReportedStable, CollectedStable DEF ScoutInv
<1>2. CASE sc \notin scouts
  <2>1. ASSUME NEW m \in msgs, ScoutP1b(m)
        PROVE  /\ \A a \in Acceptors \ sc.waitfor :
                    Reported(a, sc.ballot_num, sc.pvalues)'
               /\ Collected(sc.ballot_num, sc.pvalues)'
    <3>1. PICK sc1 \in scouts :
            /\ sc1.ballot_num = m.scout
            /\ ScoutPreempted(sc1, m) \/ ScoutResponse(sc1, m)
      BY <2>1 DEF ScoutP1b
    <3>2. ScoutResponse(sc1, m)
      BY <1>2, <3>1 DEF ScoutPreempted
    <3>3. /\ sc.ballot_num = sc1.ballot_num
          /\ sc.waitfor = sc1.waitfor \ {m.from}
          /\ sc.pvalues = sc1.pvalues \cup m.accepted
      BY <1>2, <3>2 DEF ScoutResponse
    <3>4. m.type = "p1b" /\ UNCHANGED acceptorVars
      BY <2>1 DEF ScoutP1b
    <3>5. /\ \A a \in Acceptors \ sc.waitfor :
               Reported(a, sc.ballot_num, sc.pvalues)
          /\ Collected(sc.ballot_num, sc.pvalues)
      BY <3>1, <3>2, <3>3, <3>4, ScoutResponseFacts
    <3> QED
      BY <3>4, <3>5 DEF Reported, Collected, acceptorVars
  <2>2. ASSUME NEW m \in msgs, LeaderPreempted(m)
        PROVE  /\ \A a \in Acceptors \ sc.waitfor :
                    Reported(a, sc.ballot_num, sc.pvalues)'
               /\ Collected(sc.ballot_num, sc.pvalues)'
    <3>1. sc.waitfor = Acceptors /\ sc.pvalues = {}
      BY <1>2, <2>2 DEF LeaderPreempted, NewBallot, new_scout
    <3> QED
      BY <3>1 DEF Collected
  <2> QED
    BY <1>2, <2>1, <2>2, NewScouts
<1> QED
  BY <1>1, <1>2

LEMMA AdoptedInvStep ==
  ASSUME TypeOK, TypeOK', Next, AcceptorsGrow, P1bInv, ScoutInv, AdoptedInv
  PROVE  AdoptedInv'
<1> SUFFICES ASSUME NEW x \in msgs', x.type = "ADOPTED"
             PROVE  /\ \E Q \in Quorums : \A a \in Q :
                         Reported(a, x.ballot_num, x.pvalues)'
                    /\ Collected(x.ballot_num, x.pvalues)'
                    /\ x.to = x.ballot_num.leader
  BY DEF AdoptedInv
<1>1. CASE x \in msgs
  <2>1. x.ballot_num \in Ballots /\ x.pvalues \in SUBSET PValues
    BY <1>1, MessageFields DEF TypeOK, Adopted
  <2> QED
    BY <1>1, <2>1, ReportedStable, CollectedStable, QuorumMembers
       DEF AdoptedInv
<1>2. CASE x \notin msgs
  <2>1. PICK m \in msgs : ScoutP1b(m)
    BY <1>2, NewMessages
  <2>2. PICK sc \in scouts :
          /\ sc.ballot_num = m.scout
          /\ ScoutPreempted(sc, m) \/ ScoutResponse(sc, m)
    BY <2>1 DEF ScoutP1b
  <2>3. ScoutResponse(sc, m) /\ majority_responded(sc.waitfor \ {m.from})
    BY <1>2, <2>2 DEF ScoutPreempted, ScoutResponse
  <2>4. /\ x.to = sc.ballot_num.leader /\ x.ballot_num = sc.ballot_num
        /\ x.pvalues = sc.pvalues \cup m.accepted
    BY <1>2, <2>3 DEF ScoutResponse
  <2>5. m.type = "p1b" /\ UNCHANGED acceptorVars
    BY <2>1 DEF ScoutP1b
  <2>6. /\ sc.waitfor \ {m.from} \in SUBSET Acceptors
        /\ \A a \in Acceptors \ (sc.waitfor \ {m.from}) :
             Reported(a, x.ballot_num, x.pvalues)
        /\ Collected(x.ballot_num, x.pvalues)
    BY <2>2, <2>3, <2>4, <2>5, ScoutResponseFacts
  <2>7. Acceptors \ (sc.waitfor \ {m.from}) \in Quorums
    BY <2>3, <2>6, RespondersAreQuorum
  <2> QED
    BY <2>4, <2>5, <2>6, <2>7 DEF Reported, Collected, acceptorVars
<1> QED
  BY <1>1, <1>2

LEMMA CommanderInvStep ==
  ASSUME TypeOK, TypeOK', Next, AcceptorsGrow, P2bInv, CommanderInv
  PROVE  CommanderInv'
<1> SUFFICES ASSUME NEW k \in commanders', NEW a \in Acceptors \ k.waitfor
             PROVE  k.id.pvalue \in accepted'[a]
  BY DEF CommanderInv
<1>1. CASE k \in commanders
  BY <1>1 DEF CommanderInv, AcceptorsGrow
<1>2. CASE k \notin commanders
  <2>1. ASSUME NEW m \in msgs, CommanderP2b(m)
        PROVE  k.id.pvalue \in accepted'[a]
    <3>1. PICK k1 \in commanders :
            /\ k1.id = m.commander
            /\ CommanderPreempted(k1, m) \/ CommanderResponse(k1, m)
      BY <2>1 DEF CommanderP2b
    <3>2. CommanderResponse(k1, m)
      BY <1>2, <3>1 DEF CommanderPreempted
    <3>3. /\ k.id = k1.id /\ k.waitfor = k1.waitfor \ {m.from}
          /\ equal(m.ballot_num, m.commander.pvalue.ballot_num)
      BY <1>2, <3>1, <3>2 DEF CommanderResponse
    <3>4. m.type = "p2b" /\ UNCHANGED accepted
      BY <2>1 DEF CommanderP2b, acceptorVars
    <3> QED
      BY <3>1, <3>3, <3>4 DEF P2bInv, CommanderInv
  <2>2. ASSUME NEW m \in msgs, LeaderPropose(m) \/ LeaderAdopted(m)
        PROVE  k.waitfor = Acceptors
    BY <1>2, <2>2 DEF LeaderPropose, LeaderAdopted, new_commanders
  <2> QED
    BY <1>2, <2>1, <2>2, NewCommanders
<1> QED
  BY <1>1, <1>2
-----------------------------------------------------------------------------
(***************************************************************************)
(* The parts of Inv about who owns a ballot and in which phase it is.      *)
(***************************************************************************)

\* A leader that takes a new ballot takes a greater one and is inactive.
BallotsGrow ==
  \A l \in Leaders :
    /\ ballotNum[l].value <= ballotNum'[l].value
    /\ \/ ballotNum'[l] = ballotNum[l]
       \/ ballotNum[l].value < ballotNum'[l].value /\ ~active'[l]

\* The effect of a PREEMPTED message that is not ignored.
LEMMA PreemptedEffect ==
  ASSUME TypeOK, NEW m \in msgs, LeaderPreempted(m),
         ~less_or_equal(m.ballot_num, ballotNum[m.to])
  PROVE  \E l \in Leaders, b \in Ballots :
           /\ b.leader = l /\ ballotNum[l].value < b.value
           /\ ballotNum' = [ballotNum EXCEPT ![l] = b]
           /\ active' = [active EXCEPT ![l] = FALSE]
           /\ scouts' = scouts \cup {new_scout(b)}
           /\ msgs' = (msgs \ {m}) \cup P1as(b)
<1> DEFINE b == BallotNumber(m.ballot_num.value + 1, m.to)
<1>1. /\ m.type = "PREEMPTED" /\ m.ballot_num.value + 1 <= MaxBallot
      /\ ballotNum' = [ballotNum EXCEPT ![m.to] = b]
      /\ active' = [active EXCEPT ![m.to] = FALSE]
      /\ scouts' = scouts \cup {new_scout(b)}
      /\ msgs' = (msgs \ {m}) \cup P1as(b)
  BY DEF LeaderPreempted, NewBallot
<1>2. /\ m.to \in Leaders /\ b \in Ballots /\ b.leader = m.to
      /\ ballotNum[m.to].value < b.value
  BY <1>1, NextBallot
<1> HIDE DEF b
<1> QED
  BY <1>1, <1>2

LEMMA StepBallotsGrow ==
  ASSUME TypeOK, Next
  PROVE  BallotsGrow
<1>1. \A l \in Leaders : ballotNum[l].value \in Nat
  BY BallotFields, ProperFields DEF TypeOK
<1>2. CASE UNCHANGED ballotNum
  BY <1>1, <1>2 DEF BallotsGrow
<1>3. ASSUME NEW m \in msgs, LeaderPreempted(m),
             ~less_or_equal(m.ballot_num, ballotNum[m.to])
      PROVE  BallotsGrow
  <2>1. PICK l \in Leaders, b \in Ballots :
          /\ ballotNum[l].value < b.value
          /\ ballotNum' = [ballotNum EXCEPT ![l] = b]
          /\ active' = [active EXCEPT ![l] = FALSE]
    BY <1>3, PreemptedEffect
  <2>2. b.value \in Nat
    BY BallotFields, ProperFields
  <2> QED
    BY <1>1, <2>1, <2>2 DEF BallotsGrow, TypeOK
<1>4. \/ UNCHANGED ballotNum
      \/ \E m \in msgs : /\ LeaderPreempted(m)
                         /\ ~less_or_equal(m.ballot_num, ballotNum[m.to])
  <2>1. ASSUME NEW m \in msgs, LeaderPreempted(m),
               less_or_equal(m.ballot_num, ballotNum[m.to])
        PROVE  UNCHANGED ballotNum
    BY <2>1 DEF LeaderPreempted
  <2>2. ASSUME NEW m \in msgs, LeaderPropose(m) \/ LeaderAdopted(m)
        PROVE  UNCHANGED ballotNum
    BY <2>2 DEF LeaderPropose, LeaderAdopted
  <2> QED
    BY <2>1, <2>2, NewLeaders DEF leaderVars
<1> QED
  BY <1>2, <1>3, <1>4

LEMMA ReachedStable ==
  ASSUME TypeOK, TypeOK', BallotsGrow, NEW b \in Ballots, Reached(b)
  PROVE  Reached(b)'
<1>1. /\ b.leader \in Leaders /\ b.value \in Nat
      /\ ballotNum[b.leader].value \in Nat
      /\ ballotNum'[b.leader].value \in Nat
  BY BallotFields, ProperFields DEF TypeOK
<1> QED
  BY <1>1 DEF BallotsGrow, Reached

\* A leader has reached its own ballot.
LEMMA OwnReached ==
  ASSUME TypeOK, NEW l \in Leaders, ballotNum[l].leader = l
  PROVE  Reached(ballotNum[l])
<1>1. ballotNum[l].value \in Nat
  BY BallotFields, ProperFields DEF TypeOK
<1> QED
  BY <1>1 DEF Reached

\* The scouts after a step: none appears but in the place of one of the same
\* ballot, or with the ballot a preempted leader takes.
LEMMA ScoutBallots ==
  ASSUME TypeOK, Next, NEW sc \in scouts', sc \notin scouts
  PROVE  \/ \E m \in msgs, sc1 \in scouts :
              /\ ScoutP1b(m)
              /\ sc.ballot_num = sc1.ballot_num
              /\ scouts' = (scouts \ {sc1}) \cup {sc}
              /\ msgs' = msgs \ {m}
         \/ \E m \in msgs :
              /\ LeaderPreempted(m)
              /\ ~less_or_equal(m.ballot_num, ballotNum[m.to])
<1>1. ASSUME NEW m \in msgs, ScoutP1b(m)
      PROVE  \E sc1 \in scouts :
               /\ sc.ballot_num = sc1.ballot_num
               /\ scouts' = (scouts \ {sc1}) \cup {sc}
               /\ msgs' = msgs \ {m}
  <2>1. PICK sc1 \in scouts : ScoutPreempted(sc1, m) \/ ScoutResponse(sc1, m)
    BY <1>1 DEF ScoutP1b
  <2>2. /\ ScoutResponse(sc1, m)
        /\ ~majority_responded(sc1.waitfor \ {m.from})
    BY <2>1 DEF ScoutPreempted, ScoutResponse
  <2> DEFINE next == [ballot_num |-> sc1.ballot_num,
                      waitfor |-> sc1.waitfor \ {m.from},
                      pvalues |-> sc1.pvalues \cup m.accepted]
  <2>3. /\ scouts' = (scouts \ {sc1}) \cup {next}
        /\ msgs' = msgs \ {m}
    BY <2>2 DEF ScoutResponse
  <2>4. next.ballot_num = sc1.ballot_num
    OBVIOUS
  <2> HIDE DEF next
  <2>5. sc = next
    BY <2>3
  <2> QED
    BY <2>3, <2>4, <2>5
<1>2. ASSUME NEW m \in msgs, LeaderPreempted(m)
      PROVE  ~less_or_equal(m.ballot_num, ballotNum[m.to])
  BY <1>2 DEF LeaderPreempted
<1> QED
  BY <1>1, <1>2, NewScouts

\* An ADOPTED message appears when the scout of its ballot exits.
LEMMA AdoptedBallots ==
  ASSUME TypeOK, Next, NEW x \in msgs', x \notin msgs, x.type = "ADOPTED"
  PROVE  \E m \in msgs, sc \in scouts :
           /\ ScoutP1b(m)
           /\ x.ballot_num = sc.ballot_num
           /\ scouts' = scouts \ {sc}
           /\ \A y \in msgs' : y \in msgs \/ y = x
<1>1. PICK m \in msgs : ScoutP1b(m)
  BY NewMessages
<1>2. PICK sc \in scouts : ScoutPreempted(sc, m) \/ ScoutResponse(sc, m)
  BY <1>1 DEF ScoutP1b
<1>3. ScoutResponse(sc, m) /\ majority_responded(sc.waitfor \ {m.from})
  BY <1>2 DEF ScoutPreempted, ScoutResponse
<1> DEFINE adopted == [type |-> "ADOPTED", to |-> sc.ballot_num.leader,
                       ballot_num |-> sc.ballot_num,
                       pvalues |-> sc.pvalues \cup m.accepted]
<1>4. /\ scouts' = scouts \ {sc}
      /\ msgs' = (msgs \ ScoutMailbox(sc.ballot_num)) \cup {adopted}
  BY <1>3 DEF ScoutResponse
<1>5. adopted.ballot_num = sc.ballot_num
  OBVIOUS
<1> HIDE DEF adopted
<1>6. x = adopted
  BY <1>4
<1> QED
  BY <1>1, <1>4, <1>5, <1>6

LEMMA BallotInvStep ==
  ASSUME TypeOK, TypeOK', Next, BallotsGrow, BallotInv
  PROVE  BallotInv'
<1>1. ASSUME NEW l \in Leaders PROVE ballotNum'[l].leader = l
  <2>1. CASE UNCHANGED ballotNum
    BY <2>1 DEF BallotInv
  <2>2. ASSUME NEW m \in msgs, LeaderPreempted(m) PROVE ballotNum'[l].leader = l
    <3>1. CASE less_or_equal(m.ballot_num, ballotNum[m.to])
      BY <2>2, <3>1 DEF LeaderPreempted, BallotInv
    <3>2. CASE ~less_or_equal(m.ballot_num, ballotNum[m.to])
      BY <2>2, <3>2, PreemptedEffect DEF BallotInv, TypeOK
    <3> QED
      BY <3>1, <3>2
  <2>3. UNCHANGED ballotNum \/ \E m \in msgs : LeaderPreempted(m)
    BY NewLeaders DEF leaderVars, LeaderPropose, LeaderAdopted
  <2> QED
    BY <2>1, <2>2, <2>3
<1>2. ASSUME NEW sc \in scouts' PROVE Reached(sc.ballot_num)'
  <2>1. sc.ballot_num \in Ballots
    BY DEF TypeOK, Scouts
  <2>2. CASE sc \in scouts
    BY <2>1, <2>2, ReachedStable DEF BallotInv
  <2>3. CASE sc \notin scouts
    <3>1. ASSUME NEW sc1 \in scouts, sc.ballot_num = sc1.ballot_num
          PROVE  Reached(sc.ballot_num)'
      BY <2>1, <3>1, ReachedStable DEF BallotInv
    <3>2. ASSUME NEW m \in msgs, LeaderPreempted(m),
                 ~less_or_equal(m.ballot_num, ballotNum[m.to])
          PROVE  Reached(sc.ballot_num)'
      <4>1. PICK l \in Leaders, b \in Ballots :
              /\ b.leader = l
              /\ ballotNum' = [ballotNum EXCEPT ![l] = b]
              /\ scouts' = scouts \cup {new_scout(b)}
        BY <3>2, PreemptedEffect
      <4>2. sc.ballot_num = b
        BY <2>3, <4>1 DEF new_scout
      <4>3. b.value \in Nat /\ ballotNum'[l] = b
        BY <4>1, BallotFields, ProperFields DEF TypeOK
      <4> QED
        BY <4>1, <4>2, <4>3 DEF Reached
    <3> QED
      BY <2>3, <3>1, <3>2, ScoutBallots
  <2> QED
    BY <2>2, <2>3
<1>3. ASSUME NEW x \in msgs', x.type = "ADOPTED"
      PROVE  Reached(x.ballot_num)'
  <2>1. x.ballot_num \in Ballots
    BY <1>3, MessageFields DEF TypeOK, Adopted
  <2>2. Reached(x.ballot_num)
    BY <1>3, AdoptedBallots DEF BallotInv
  <2> QED
    BY <2>1, <2>2, ReachedStable
<1>4. ASSUME NEW pv \in InUse' PROVE Reached(pv.ballot_num)'
  <2>1. CASE pv \in InUse
    BY <2>1, InUseType, PValueFields, ReachedStable DEF BallotInv
  <2>2. CASE pv \notin InUse
    <3>1. ASSUME NEW m \in msgs, m.to \in Leaders,
                 pv.ballot_num = ballotNum[m.to]
          PROVE  Reached(pv.ballot_num)'
      BY <3>1, OwnReached, ReachedStable DEF BallotInv, TypeOK
    <3>2. CASE SpawnedByPropose(pv)
      <4>1. PICK m \in msgs : /\ m.type = "PROPOSE"
                              /\ pv = PValue(ballotNum[m.to], m.slot, m.command)
        BY <3>2 DEF SpawnedByPropose, LeaderPropose
      <4>2. m.to \in Leaders
        BY <4>1, MessageFields DEF TypeOK, Propose
      <4> QED
        BY <3>1, <4>1, <4>2 DEF PValue
    <3>3. CASE SpawnedByAdopted(pv)
      <4>1. PICK m \in msgs : /\ m.type = "ADOPTED"
                              /\ equal(m.ballot_num, ballotNum[m.to])
                              /\ pv.ballot_num = m.ballot_num
        BY <3>3 DEF SpawnedByAdopted, LeaderAdopted, PValue
      <4>2. m.to \in Leaders /\ m.ballot_num \in Ballots
        BY <4>1, MessageFields DEF TypeOK, Adopted
      <4>3. m.ballot_num = ballotNum[m.to]
        BY <4>1, <4>2, BallotFields, EqualIsEquality DEF TypeOK
      <4> QED
        BY <3>1, <4>1, <4>2, <4>3
    <3> QED
      BY <2>2, <3>2, <3>3, NewInUse
  <2> QED
    BY <2>1, <2>2
<1> QED
  BY <1>1, <1>2, <1>3, <1>4 DEF BallotInv
-----------------------------------------------------------------------------
\* A leader takes ballot b in this step: it is above its ballot before the
\* step, and the leader is inactive afterwards.
TakesBallot(b) ==
  \E l \in Leaders :
    /\ b.leader = l /\ ballotNum[l].value < b.value
    /\ ballotNum'[l] = b /\ ~active'[l]

\* Nobody has used the ballot that a leader takes.
LEMMA TakenBallotIsNew ==
  ASSUME TypeOK, NEW b \in Ballots, TakesBallot(b)
  PROVE  ~Reached(b)
<1>1. b.leader \in Leaders /\ b.value \in Nat
  BY BallotFields, ProperFields
<1>2. ballotNum[b.leader].value \in Nat
  BY <1>1, BallotFields, ProperFields DEF TypeOK
<1> QED
  BY <1>1, <1>2 DEF TakesBallot, Reached

LEMMA TakesBallotStep ==
  ASSUME TypeOK, NEW m \in msgs, LeaderPreempted(m),
         ~less_or_equal(m.ballot_num, ballotNum[m.to])
  PROVE  \E b \in Ballots :
           /\ TakesBallot(b)
           /\ scouts' = scouts \cup {new_scout(b)}
           /\ \A x \in msgs' : x.type = "ADOPTED" => x \in msgs
<1>1. PICK l \in Leaders, b \in Ballots :
        /\ b.leader = l /\ ballotNum[l].value < b.value
        /\ ballotNum' = [ballotNum EXCEPT ![l] = b]
        /\ active' = [active EXCEPT ![l] = FALSE]
        /\ scouts' = scouts \cup {new_scout(b)}
        /\ msgs' = (msgs \ {m}) \cup P1as(b)
  BY PreemptedEffect
<1>2. TakesBallot(b)
  BY <1>1 DEF TakesBallot, TypeOK
<1>3. \A x \in msgs' : x.type = "ADOPTED" => x \in msgs
  BY <1>1 DEF P1as
<1> QED
  BY <1>1, <1>2, <1>3

\* A ballot is in phase 1 after a step when it was before, or when its leader
\* has just taken it.
LEMMA Phase1Step ==
  ASSUME TypeOK, Next, NEW b \in Ballots, InPhase1(b)'
  PROVE  InPhase1(b) \/ TakesBallot(b)
<1>1. ASSUME NEW sc \in scouts', sc.ballot_num = b
      PROVE  InPhase1(b) \/ TakesBallot(b)
  <2>1. CASE sc \in scouts
    BY <1>1, <2>1 DEF InPhase1
  <2>2. CASE sc \notin scouts
    <3>1. ASSUME NEW sc1 \in scouts, sc.ballot_num = sc1.ballot_num
          PROVE  InPhase1(b)
      BY <1>1, <3>1 DEF InPhase1
    <3>2. ASSUME NEW m \in msgs, LeaderPreempted(m),
                 ~less_or_equal(m.ballot_num, ballotNum[m.to])
          PROVE  TakesBallot(b)
      BY <1>1, <2>2, <3>2, TakesBallotStep DEF new_scout
    <3> QED
      BY <2>2, <3>1, <3>2, ScoutBallots
  <2> QED
    BY <2>1, <2>2
<1>2. ASSUME NEW x \in msgs', x.type = "ADOPTED", x.ballot_num = b
      PROVE  InPhase1(b)
  BY <1>2, AdoptedBallots DEF InPhase1
<1> QED
  BY <1>1, <1>2 DEF InPhase1

\* Handling ADOPTED ends phase 1 of its ballot.
LEMMA AdoptedEndsPhase1 ==
  ASSUME PhaseInv, NEW m \in msgs, LeaderAdopted(m)
  PROVE  ~InPhase1(m.ballot_num)' /\ InPhase1(m.ballot_num)
<1>1. m.type = "ADOPTED" /\ scouts' = scouts
  BY DEF LeaderAdopted
<1>2. \A x \in msgs' : x.type = "ADOPTED" => x \in msgs /\ x # m
  BY <1>1 DEF LeaderAdopted, P2as
<1> QED
  BY <1>1, <1>2 DEF PhaseInv, InPhase1

\* A leader becomes active when it handles the ADOPTED of its ballot.
LEMMA Activation ==
  ASSUME TypeOK, Next, NEW l \in Leaders, active'[l]
  PROVE  active[l] \/ \E m \in msgs : /\ LeaderAdopted(m) /\ m.to = l
                                      /\ m.ballot_num = ballotNum[l]
<1>1. CASE UNCHANGED active
  BY <1>1
<1>2. ASSUME NEW m \in msgs, LeaderAdopted(m)
      PROVE  active[l] \/ (m.to = l /\ m.ballot_num = ballotNum[l])
  <2>1. m.to \in Leaders /\ m.ballot_num \in Ballots
    BY <1>2, MessageFields DEF LeaderAdopted, TypeOK, Adopted
  <2>2. equal(m.ballot_num, ballotNum[m.to])
          <=> m.ballot_num = ballotNum[m.to]
    BY <2>1, BallotFields, EqualIsEquality DEF TypeOK
  <2>3. \/ UNCHANGED active
        \/ /\ equal(m.ballot_num, ballotNum[m.to])
           /\ active' = [active EXCEPT ![m.to] = TRUE]
    BY <1>2 DEF LeaderAdopted
  <2> QED
    BY <2>1, <2>2, <2>3 DEF TypeOK
<1>3. ASSUME NEW m \in msgs, LeaderPreempted(m) PROVE active[l]
  <2>1. UNCHANGED active \/ active' = [active EXCEPT ![m.to] = FALSE]
    BY <1>3 DEF LeaderPreempted
  <2> QED
    BY <2>1 DEF TypeOK
<1>4. \/ UNCHANGED active
      \/ \E m \in msgs : LeaderAdopted(m) \/ LeaderPreempted(m)
  BY NewLeaders DEF leaderVars, LeaderPropose
<1> QED
  BY <1>1, <1>2, <1>3, <1>4

\* A new pvalue carries the ballot of the leader that spawns its commander,
\* which the leader keeps in that step.
LEMMA SpawnBallot ==
  ASSUME TypeOK, NEW pv, SpawnedByPropose(pv) \/ SpawnedByAdopted(pv)
  PROVE  /\ UNCHANGED <<ballotNum, acceptorVars>>
         /\ \E l \in Leaders : pv.ballot_num = ballotNum[l]
<1>1. CASE SpawnedByPropose(pv)
  <2>1. PICK m \in msgs : /\ LeaderPropose(m)
                          /\ pv = PValue(ballotNum[m.to], m.slot, m.command)
    BY <1>1 DEF SpawnedByPropose
  <2>2. m.to \in Leaders
    BY <2>1, MessageFields DEF LeaderPropose, TypeOK, Propose
  <2> QED
    BY <2>1, <2>2 DEF LeaderPropose, PValue
<1>2. CASE SpawnedByAdopted(pv)
  <2>1. PICK m \in msgs : /\ LeaderAdopted(m)
                          /\ equal(m.ballot_num, ballotNum[m.to])
                          /\ pv.ballot_num = m.ballot_num
    BY <1>2 DEF SpawnedByAdopted, PValue
  <2>2. m.to \in Leaders /\ m.ballot_num \in Ballots
    BY <2>1, MessageFields DEF LeaderAdopted, TypeOK, Adopted
  <2>3. m.ballot_num = ballotNum[m.to]
    BY <2>1, <2>2, BallotFields, EqualIsEquality DEF TypeOK
  <2> QED
    BY <2>1, <2>2, <2>3 DEF LeaderAdopted
<1> QED
  BY <1>1, <1>2

\* A pvalue in use after a step has a ballot that was reached before it.
LEMMA InUseReached ==
  ASSUME TypeOK, Next, BallotInv, NEW pv \in InUse'
  PROVE  pv.ballot_num \in Ballots /\ Reached(pv.ballot_num)
<1>1. CASE pv \in InUse
  BY <1>1, InUseType, PValueFields DEF BallotInv
<1>2. CASE pv \notin InUse
  BY <1>2, NewInUse, SpawnBallot, OwnReached DEF BallotInv, TypeOK
<1> QED
  BY <1>1, <1>2

LEMMA PhaseInvStep ==
  ASSUME TypeOK, TypeOK', Next, BallotsGrow, BallotInv, BallotInv', PhaseInv
  PROVE  PhaseInv'
<1>1. ASSUME NEW s1 \in scouts', NEW s2 \in scouts',
             s1.ballot_num = s2.ballot_num, s1 \notin scouts
      PROVE  s1 = s2
  <2>1. ASSUME NEW m \in msgs, NEW sc1 \in scouts,
               s1.ballot_num = sc1.ballot_num,
               scouts' = (scouts \ {sc1}) \cup {s1}
        PROVE  s1 = s2
    BY <1>1, <2>1 DEF PhaseInv
  <2>2. ASSUME NEW m \in msgs, LeaderPreempted(m),
               ~less_or_equal(m.ballot_num, ballotNum[m.to])
        PROVE  s1 = s2
    <3>1. PICK b \in Ballots :
            TakesBallot(b) /\ scouts' = scouts \cup {new_scout(b)}
      BY <2>2, TakesBallotStep
    <3>2. s1 = new_scout(b) /\ s1.ballot_num = b
      BY <1>1, <3>1 DEF new_scout
    <3>3. s2 \notin scouts
      BY <1>1, <3>1, <3>2, TakenBallotIsNew DEF BallotInv
    <3> QED
      BY <3>1, <3>2, <3>3
  <2> QED
    BY <1>1, <2>1, <2>2, ScoutBallots
<1>2. ASSUME NEW s1 \in scouts', NEW s2 \in scouts',
             s1.ballot_num = s2.ballot_num
      PROVE  s1 = s2
  BY <1>1, <1>2 DEF PhaseInv
<1>3. ASSUME NEW m1 \in msgs', NEW m2 \in msgs', m1.type = "ADOPTED",
             m2.type = "ADOPTED", m1.ballot_num = m2.ballot_num, m1 \notin msgs
      PROVE  m1 = m2
  <2>1. PICK sc \in scouts : /\ m1.ballot_num = sc.ballot_num
                             /\ \A y \in msgs' : y \in msgs \/ y = m1
    BY <1>3, AdoptedBallots
  <2> QED
    BY <1>3, <2>1 DEF PhaseInv
<1>4. ASSUME NEW m1 \in msgs', NEW m2 \in msgs', m1.type = "ADOPTED",
             m2.type = "ADOPTED", m1.ballot_num = m2.ballot_num
      PROVE  m1 = m2
  BY <1>3, <1>4 DEF PhaseInv
<1>5. ASSUME NEW sc \in scouts', NEW x \in msgs', x.type = "ADOPTED",
             sc.ballot_num = x.ballot_num
      PROVE  FALSE
  <2>1. CASE x \notin msgs
    <3>1. PICK sc1 \in scouts : /\ x.ballot_num = sc1.ballot_num
                                /\ scouts' = scouts \ {sc1}
      BY <1>5, <2>1, AdoptedBallots
    <3> QED
      BY <1>5, <3>1 DEF PhaseInv
  <2>2. CASE x \in msgs /\ sc \in scouts
    BY <1>5, <2>2 DEF PhaseInv
  <2>3. CASE x \in msgs /\ sc \notin scouts
    <3>1. ASSUME NEW sc1 \in scouts, sc.ballot_num = sc1.ballot_num
          PROVE  FALSE
      BY <1>5, <2>3, <3>1 DEF PhaseInv
    <3>2. ASSUME NEW m \in msgs, LeaderPreempted(m),
                 ~less_or_equal(m.ballot_num, ballotNum[m.to])
          PROVE  FALSE
      <4>1. PICK b \in Ballots :
              TakesBallot(b) /\ scouts' = scouts \cup {new_scout(b)}
        BY <3>2, TakesBallotStep
      <4>2. sc.ballot_num = b
        BY <2>3, <4>1 DEF new_scout
      <4> QED
        BY <1>5, <2>3, <4>1, <4>2, TakenBallotIsNew DEF BallotInv
    <3> QED
      BY <2>3, <3>1, <3>2, ScoutBallots
  <2> QED
    BY <2>1, <2>2, <2>3
<1>6. ASSUME NEW l \in Leaders, active'[l], InPhase1(ballotNum[l])'
      PROVE  FALSE
  <2>1. PICK b \in Ballots : b = ballotNum'[l] /\ b.leader = l
    BY DEF TypeOK, BallotInv
  <2>2. InPhase1(b)'
    BY <1>6, <2>1 DEF InPhase1
  <2>3. InPhase1(b)
    BY <1>6, <2>1, <2>2, Phase1Step DEF TakesBallot
  <2>4. b = ballotNum[l]
    BY <1>6, <2>1 DEF BallotsGrow
  <2>5. CASE active[l]
    BY <2>3, <2>4, <2>5 DEF PhaseInv
  <2>6. ASSUME NEW m \in msgs, LeaderAdopted(m), m.ballot_num = ballotNum[l]
        PROVE  FALSE
    <3>1. m.ballot_num = b
      BY <2>4, <2>6
    <3>2. ~InPhase1(m.ballot_num)'
      BY <2>6, AdoptedEndsPhase1
    <3> QED
      BY <2>2, <3>1, <3>2 DEF InPhase1
  <2> QED
    BY <1>6, <2>5, <2>6, Activation
<1>7. ASSUME NEW pv \in InUse', InPhase1(pv.ballot_num)'
      PROVE  FALSE
  <2>1. pv.ballot_num \in Ballots /\ Reached(pv.ballot_num)
    BY InUseReached
  <2>2. InPhase1(pv.ballot_num)
    BY <1>7, <2>1, Phase1Step, TakenBallotIsNew
  <2>3. CASE pv \in InUse
    BY <2>2, <2>3 DEF PhaseInv
  <2>4. CASE SpawnedByPropose(pv)
    <3>1. PICK m \in msgs : /\ LeaderPropose(m) /\ active[m.to]
                            /\ pv = PValue(ballotNum[m.to], m.slot, m.command)
      BY <2>4 DEF SpawnedByPropose
    <3>2. m.to \in Leaders
      BY <3>1, MessageFields DEF LeaderPropose, TypeOK, Propose
    <3> QED
      BY <2>2, <3>1, <3>2 DEF PhaseInv, PValue
  <2>5. CASE SpawnedByAdopted(pv)
    <3>1. PICK m \in msgs : LeaderAdopted(m) /\ pv.ballot_num = m.ballot_num
      BY <2>5 DEF SpawnedByAdopted, PValue
    <3> QED
      BY <1>7, <3>1, AdoptedEndsPhase1
  <2> QED
    BY <2>3, <2>4, <2>5, NewInUse
<1> QED
  BY <1>2, <1>4, <1>5, <1>6, <1>7 DEF PhaseInv
-----------------------------------------------------------------------------
(***************************************************************************)
(* What a leader learns in phase 1.                                        *)
(***************************************************************************)

\* pmax has a proposal for every slot that was reported.
LEMMA PmaxHasEntry ==
  ASSUME NEW pvs \in SUBSET PValues, NEW pv \in pvs
  PROVE  \E p \in pmax(pvs) : p[1] = pv.slot_num
<1> DEFINE same == {q \in pvs : q.slot_num = pv.slot_num}
           S == {q.ballot_num : q \in same}
<1>1. S # {} /\ S \subseteq Ballots
  BY PValueFields
<1>2. /\ S \in SUBSET Proper
      /\ \A b \in S : b.value \in 0..MaxBallot /\ b.leader \in 0..NumLeaders
  <2>1. \A b \in Ballots : b.leader \in 0..NumLeaders
    BY BallotFields, NumLeadersAssumption DEF Leaders
  <2> QED
    BY <1>1, <2>1, BallotFields
<1>3. PICK b \in S : \A b1 \in S : less_or_equal(b1, b)
  <2> HIDE DEF S
  <2> QED
    BY <1>1, <1>2, BoundedBallotsHaveMax, MaxBallotAssumption,
       NumLeadersAssumption
<1>4. PICK q \in same : q.ballot_num = b
  OBVIOUS
<1>5. <<q.slot_num, q.command>> \in pmax(pvs)
  BY <1>3, <1>4 DEF pmax
<1> QED
  BY <1>4, <1>5

\* pmax has at most one proposal per slot, when ballots have one command each.
LEMMA PmaxFunctional ==
  ASSUME NEW pvs \in SUBSET PValues, pvs \subseteq InUse, OneCommandPerBallot,
         NEW p \in pmax(pvs), NEW q \in pmax(pvs), p[1] = q[1]
  PROVE  p = q
<1>1. PICK v \in pvs :
        /\ p = <<v.slot_num, v.command>>
        /\ \A w \in pvs : w.slot_num = v.slot_num
                            => less_or_equal(w.ballot_num, v.ballot_num)
  BY DEF pmax
<1>2. PICK w \in pvs :
        /\ q = <<w.slot_num, w.command>>
        /\ \A v1 \in pvs : v1.slot_num = w.slot_num
                             => less_or_equal(v1.ballot_num, w.ballot_num)
  BY DEF pmax
<1>3. v.slot_num = w.slot_num
  BY <1>1, <1>2
<1>4. v.ballot_num = w.ballot_num
  <2>1. v.ballot_num \in AllBallots /\ w.ballot_num \in AllBallots
    BY PValueFields, BallotFields
  <2>2. /\ less_or_equal(v.ballot_num, w.ballot_num)
        /\ less_or_equal(w.ballot_num, v.ballot_num)
    BY <1>1, <1>2, <1>3
  <2> QED
    BY <2>1, <2>2, LessOrEqualAntisymmetric
<1> QED
  BY <1>1, <1>2, <1>3, <1>4 DEF OneCommandPerBallot

\* What was collected is in use.
LEMMA CollectedInUse ==
  ASSUME NEW b, NEW pvs, Collected(b, pvs)
  PROVE  pvs \subseteq InUse
BY DEF Collected, InUse

\* Phase 1 makes a ballot safe: for a slot nobody reported, any command is, and
\* for any other slot the command reported with the greatest ballot.
LEMMA AdoptedIsSafe ==
  ASSUME TypeOK, AdoptedInv, SafetyInv, NEW m \in msgs, m.type = "ADOPTED",
         NEW s \in Slots, NEW c \in Commands,
         \/ \A pv \in m.pvalues : pv.slot_num # s
         \/ <<s, c>> \in pmax(m.pvalues)
  PROVE  SafeAt(m.ballot_num, s, c)
<1>1. m.ballot_num \in Ballots /\ m.pvalues \in SUBSET PValues
  BY MessageFields DEF TypeOK, Adopted
<1>2. PICK Q \in Quorums : \A a \in Q : Reported(a, m.ballot_num, m.pvalues)
  BY DEF AdoptedInv
<1>3. Collected(m.ballot_num, m.pvalues)
  BY DEF AdoptedInv
<1> SUFFICES ASSUME NEW b1 \in Ballots, less_than(b1, m.ballot_num)
             PROVE  \E Q1 \in Quorums : \A a \in Q1 :
                      \/ PValue(b1, s, c) \in accepted[a]
                      \/ /\ less_than(b1, accBallot[a])
                         /\ \A c1 \in Commands :
                              PValue(b1, s, c1) \notin accepted[a]
  BY DEF SafeAt
<1>4. ASSUME NEW a \in Q PROVE less_than(b1, accBallot[a])
  <2>1. /\ b1 \in AllBallots /\ m.ballot_num \in AllBallots
        /\ accBallot[a] \in AllBallots
    BY <1>1, QuorumMembers, BallotFields DEF TypeOK
  <2> QED
    BY <1>2, <2>1, LessThanTransitive DEF Reported
<1>5. ASSUME NEW a \in Q, NEW c1 \in Commands,
             PValue(b1, s, c1) \in accepted[a]
      PROVE  PValue(b1, s, c1) \in m.pvalues
  BY <1>2, <1>5, PValueFields DEF Reported
<1>6. CASE \A pv \in m.pvalues : pv.slot_num # s
  BY <1>4, <1>5, <1>6, PValueFields
<1>7. CASE <<s, c>> \in pmax(m.pvalues)
  <2>1. PICK pv \in m.pvalues :
          /\ pv.slot_num = s /\ pv.command = c
          /\ \A pv1 \in m.pvalues : pv1.slot_num = s
               => less_or_equal(pv1.ballot_num, pv.ballot_num)
    BY <1>7 DEF pmax
  <2>2. /\ pv \in InUse /\ pv \in PValues
        /\ pv = PValue(pv.ballot_num, s, c) /\ pv.ballot_num \in Ballots
    BY <1>1, <1>3, <2>1, CollectedInUse, PValueFields
  <2>3. CASE less_than(b1, pv.ballot_num)
    BY <2>1, <2>2, <2>3 DEF SafetyInv, SafeAt
  <2>4. CASE b1 = pv.ballot_num
    <3>1. ASSUME NEW a \in Q, NEW c1 \in Commands,
                 PValue(b1, s, c1) \in accepted[a]
          PROVE  c1 = c
      <4>1. PValue(b1, s, c1) \in InUse
        BY <1>1, <1>3, <1>5, <3>1, CollectedInUse
      <4> QED
        BY <2>1, <2>2, <2>4, <4>1, PValueFields
           DEF SafetyInv, OneCommandPerBallot
    <3> QED
      BY <1>4, <3>1
  <2>5. CASE less_than(pv.ballot_num, b1)
    <3>1. ASSUME NEW a \in Q, NEW c1 \in Commands,
                 PValue(b1, s, c1) \in accepted[a]
          PROVE  FALSE
      <4>1. less_or_equal(b1, pv.ballot_num)
        BY <1>5, <2>1, <3>1, PValueFields
      <4> QED
        BY <2>5, <4>1 DEF less_than
    <3> QED
      BY <1>4, <3>1
  <2>6. b1 \in AllBallots /\ pv.ballot_num \in AllBallots
    BY <2>2, BallotFields
  <2> QED
    BY <2>3, <2>4, <2>5, <2>6, LessThan
<1> QED
  BY <1>6, <1>7
-----------------------------------------------------------------------------
(***************************************************************************)
(* The parts of Inv about what leaders propose.                            *)
(***************************************************************************)

\* How the proposals of one leader may change.
Proposes(l) ==
  \E m \in msgs :
    /\ LeaderPropose(m) /\ m.to = l /\ m.slot \in Slots
    /\ ~exists_proposal_for(l, m.slot)
    /\ proposals'[l] = proposals[l] \cup {<<m.slot, m.command>>}

Adopts(l) ==
  \E m \in msgs :
    /\ LeaderAdopted(m) /\ m.to = l /\ m.ballot_num = ballotNum[l]
    /\ proposals'[l] = update_proposals(proposals[l], pmax(m.pvalues))

LEMMA ProposalsStep ==
  ASSUME TypeOK, Next, NEW l \in Leaders
  PROVE  proposals'[l] = proposals[l] \/ Proposes(l) \/ Adopts(l)
<1>1. CASE UNCHANGED proposals
  BY <1>1
<1>2. ASSUME NEW m \in msgs, LeaderPropose(m), m.to = l
      PROVE  proposals'[l] = proposals[l] \/ Proposes(l)
  <2>1. m.slot \in Slots
    BY <1>2, MessageFields DEF LeaderPropose, TypeOK, Propose
  <2> QED
    BY <1>2, <2>1 DEF LeaderPropose, Proposes, TypeOK
<1>3. ASSUME NEW m \in msgs, LeaderAdopted(m), m.to = l
      PROVE  proposals'[l] = proposals[l] \/ Adopts(l)
  <2>1. m.ballot_num \in Ballots
    BY <1>3, MessageFields DEF LeaderAdopted, TypeOK, Adopted
  <2>2. equal(m.ballot_num, ballotNum[l]) => m.ballot_num = ballotNum[l]
    BY <2>1, BallotFields, EqualIsEquality DEF TypeOK
  <2> QED
    BY <1>3, <2>2 DEF LeaderAdopted, Adopts, TypeOK
<1>4. ASSUME NEW m \in msgs, LeaderPropose(m) \/ LeaderAdopted(m), m.to # l
      PROVE  proposals'[l] = proposals[l]
  BY <1>4 DEF LeaderPropose, LeaderAdopted, TypeOK
<1>5. \/ UNCHANGED proposals
      \/ \E m \in msgs : LeaderPropose(m) \/ LeaderAdopted(m)
  BY NewLeaders DEF leaderVars, LeaderPreempted
<1> QED
  BY <1>1, <1>2, <1>3, <1>4, <1>5

\* The proposals a leader adopts: one per slot, and safe at its ballot.
LEMMA AdoptedFacts ==
  ASSUME TypeOK, AdoptedInv, NEW m \in msgs, m.type = "ADOPTED"
  PROVE  /\ m.to \in Leaders /\ m.ballot_num \in Ballots
         /\ m.pvalues \in SUBSET PValues /\ m.pvalues \subseteq InUse
<1>1. Collected(m.ballot_num, m.pvalues)
  BY DEF AdoptedInv
<1> QED
  BY <1>1, MessageFields, CollectedInUse DEF TypeOK, Adopted

LEMMA ProposalsFunctional ==
  ASSUME TypeOK, Next, AdoptedInv, OneCommandPerBallot, NEW l \in Leaders,
         \A p, q \in proposals[l] : p[1] = q[1] => p = q
  PROVE  \A p, q \in proposals'[l] : p[1] = q[1] => p = q
<1>1. CASE proposals'[l] = proposals[l]
  BY <1>1
<1>2. CASE Proposes(l)
  BY <1>2 DEF Proposes, exists_proposal_for
<1>3. CASE Adopts(l)
  <2>1. PICK m \in msgs :
          /\ m.type = "ADOPTED"
          /\ proposals'[l] = update_proposals(proposals[l], pmax(m.pvalues))
    BY <1>3 DEF Adopts, LeaderAdopted
  <2>2. \A p, q \in pmax(m.pvalues) : p[1] = q[1] => p = q
    BY <2>1, AdoptedFacts, PmaxFunctional
  <2> QED
    BY <2>1, <2>2 DEF update_proposals
<1> QED
  BY <1>1, <1>2, <1>3, ProposalsStep

LEMMA CommandersCarryProposals ==
  ASSUME TypeOK, TypeOK', Next, BallotsGrow, BallotInv, BallotInv', PhaseInv,
         ProposalInv, NEW pv \in InUse', NEW l \in Leaders,
         pv.ballot_num = ballotNum'[l]
  PROVE  <<pv.slot_num, pv.command>> \in proposals'[l]
<1>1. pv.ballot_num \in Ballots /\ Reached(pv.ballot_num)
  BY InUseReached
<1>2. ballotNum'[l] = ballotNum[l]
  <2>1. /\ pv.ballot_num.leader = l /\ pv.ballot_num.value \in Nat
        /\ ballotNum[l].value \in Nat
    BY <1>1, BallotFields, ProperFields DEF BallotInv, TypeOK
  <2>2. pv.ballot_num.value <= ballotNum[l].value
    BY <1>1, <2>1 DEF Reached
  <2> QED
    BY <2>1, <2>2 DEF BallotsGrow
<1>3. CASE pv \in InUse
  <2>1. <<pv.slot_num, pv.command>> \in proposals[l]
    BY <1>2, <1>3 DEF ProposalInv
  <2>2. CASE Adopts(l)
    BY <1>2, <1>3, <2>2, AdoptedEndsPhase1 DEF Adopts, PhaseInv
  <2> QED
    BY <2>1, <2>2, ProposalsStep DEF Proposes
<1>4. CASE SpawnedByPropose(pv)
  <2>1. PICK m \in msgs :
          /\ LeaderPropose(m) /\ ~exists_proposal_for(m.to, m.slot)
          /\ pv = PValue(ballotNum[m.to], m.slot, m.command)
    BY <1>4 DEF SpawnedByPropose
  <2>2. m.to \in Leaders
    BY <2>1, MessageFields DEF LeaderPropose, TypeOK, Propose
  <2>3. m.to = l
    BY <1>2, <2>1, <2>2 DEF PValue, BallotInv
  <2>4. proposals' = [proposals EXCEPT ![l] = @ \cup {<<m.slot, m.command>>}]
    BY <2>1, <2>3 DEF LeaderPropose
  <2> QED
    BY <2>1, <2>4 DEF PValue, TypeOK
<1>5. CASE SpawnedByAdopted(pv)
  <2>1. PICK m \in msgs :
          /\ LeaderAdopted(m) /\ equal(m.ballot_num, ballotNum[m.to])
          /\ \E p \in update_proposals(proposals[m.to], pmax(m.pvalues)) :
               pv = PValue(m.ballot_num, p[1], p[2])
    BY <1>5 DEF SpawnedByAdopted
  <2>2. /\ m.to \in Leaders /\ m.ballot_num \in Ballots
        /\ m.pvalues \in SUBSET PValues
    BY <2>1, MessageFields DEF LeaderAdopted, TypeOK, Adopted
  <2>3. m.ballot_num = ballotNum[m.to]
    BY <2>1, <2>2, BallotFields, EqualIsEquality DEF TypeOK
  <2>4. m.to = l
    BY <1>2, <2>1, <2>2, <2>3 DEF PValue, BallotInv
  <2>5. proposals'[l] = update_proposals(proposals[l], pmax(m.pvalues))
    BY <2>1, <2>4 DEF LeaderAdopted, TypeOK
  <2>6. update_proposals(proposals[l], pmax(m.pvalues)) \in SUBSET Proposals
    BY <2>2, ProposalTypes DEF TypeOK
  <2> QED
    BY <2>1, <2>4, <2>5, <2>6 DEF PValue, Proposals
<1> QED
  BY <1>3, <1>4, <1>5, NewInUse

\* A leader that adopts may propose anything in the slots it knows no proposal
\* for afterwards.
LEMMA FreeSlotsAreSafe ==
  ASSUME TypeOK, TypeOK', Next, AcceptorsGrow, BallotsGrow, AdoptedInv,
         ProposalInv, SafetyInv,
         NEW l \in Leaders, active'[l], NEW s \in Slots, NEW c \in Commands
  PROVE  exists_proposal_for(l, s)' \/ SafeAt(ballotNum[l], s, c)'
<1>1. PICK b \in Ballots : b = ballotNum[l]
  BY DEF TypeOK
<1>2. ballotNum'[l] = b
  BY <1>1 DEF BallotsGrow
<1>3. SafeAt(b, s, c)' => SafeAt(ballotNum[l], s, c)'
  BY <1>2 DEF SafeAt
<1>4. CASE Adopts(l)
  <2>1. PICK m \in msgs :
          /\ m.type = "ADOPTED" /\ m.ballot_num = b
          /\ proposals'[l] = update_proposals(proposals[l], pmax(m.pvalues))
    BY <1>1, <1>4 DEF Adopts, LeaderAdopted
  <2>2. CASE \A pv \in m.pvalues : pv.slot_num # s
    BY <1>3, <2>1, <2>2, AdoptedIsSafe, SafeAtStable
  <2>3. CASE \E pv \in m.pvalues : pv.slot_num = s
    <3>1. \E p \in pmax(m.pvalues) : p[1] = s
      BY <2>1, <2>3, AdoptedFacts, PmaxHasEntry
    <3>2. exists_proposal_for(l, s)'
      BY <2>1, <3>1 DEF exists_proposal_for, update_proposals
    <3> QED
      BY <3>2
  <2> QED
    BY <2>2, <2>3
<1>5. CASE ~Adopts(l)
  <2>1. active[l]
    <3>1. ASSUME NEW m \in msgs, LeaderAdopted(m), m.to = l,
                 m.ballot_num = ballotNum[l]
          PROVE  Adopts(l)
      <4>1. equal(m.ballot_num, ballotNum[l])
        BY <1>1, <3>1, BallotFields, EqualIsEquality
      <4> QED
        BY <3>1, <4>1 DEF LeaderAdopted, Adopts, TypeOK
    <3> QED
      BY <1>5, <3>1, Activation
  <2>2. exists_proposal_for(l, s) \/ SafeAt(b, s, c)
    BY <1>1, <2>1 DEF ProposalInv
  <2>3. exists_proposal_for(l, s) => exists_proposal_for(l, s)'
    BY <1>5, ProposalsStep DEF Proposes, exists_proposal_for
  <2> QED
    BY <1>3, <2>2, <2>3, SafeAtStable
<1> QED
  BY <1>4, <1>5

LEMMA ProposalInvStep ==
  ASSUME TypeOK, TypeOK', Next, AcceptorsGrow, BallotsGrow, BallotInv,
         BallotInv', PhaseInv, AdoptedInv, ProposalInv, SafetyInv
  PROVE  ProposalInv'
<1>1. \A l \in Leaders : \A p, q \in proposals'[l] : p[1] = q[1] => p = q
  BY ProposalsFunctional DEF ProposalInv, SafetyInv
<1>2. \A pv \in InUse' : \A l \in Leaders :
        pv.ballot_num = ballotNum'[l]
          => <<pv.slot_num, pv.command>> \in proposals'[l]
  BY CommandersCarryProposals
<1>3. \A l \in Leaders : active'[l] =>
        \A s \in Slots, c \in Commands :
          exists_proposal_for(l, s)' \/ SafeAt(ballotNum[l], s, c)'
  BY FreeSlotsAreSafe
<1> QED
  BY <1>1, <1>2, <1>3 DEF ProposalInv

LEMMA SafetyInvStep ==
  ASSUME TypeOK, TypeOK', Next, AcceptorsGrow, BallotInv, BallotInv',
         AdoptedInv, ProposalInv, ProposalInv', SafetyInv
  PROVE  SafetyInv'
<1>1. ASSUME NEW p \in InUse', NEW q \in InUse', p \notin InUse,
             p.ballot_num = q.ballot_num, p.slot_num = q.slot_num
      PROVE  p.command = q.command
  <2>1. PICK l \in Leaders : p.ballot_num = ballotNum'[l]
    BY <1>1, NewInUse, SpawnBallot
  <2>2. /\ <<p.slot_num, p.command>> \in proposals'[l]
        /\ <<q.slot_num, q.command>> \in proposals'[l]
    BY <1>1, <2>1 DEF ProposalInv
  <2>3. <<p.slot_num, p.command>> = <<q.slot_num, q.command>>
    BY <1>1, <2>2 DEF ProposalInv
  <2> QED
    BY <2>3
<1>2. OneCommandPerBallot'
  BY <1>1 DEF OneCommandPerBallot, SafetyInv
<1>3. ASSUME NEW pv \in InUse'
      PROVE  SafeAt(pv.ballot_num, pv.slot_num, pv.command)'
  <2>1. /\ pv.ballot_num \in Ballots /\ pv.slot_num \in Slots
        /\ pv.command \in Commands
    <3>1. InUse' \subseteq PValues
      BY InUseTypePrime
    <3> QED
      BY <1>3, <3>1, PValueFields
  <2>2. CASE pv \in InUse
    BY <2>1, <2>2, SafeAtStable DEF SafetyInv
  <2>3. CASE SpawnedByPropose(pv)
    <3>1. PICK m \in msgs :
            /\ LeaderPropose(m) /\ active[m.to]
            /\ ~exists_proposal_for(m.to, m.slot)
            /\ pv = PValue(ballotNum[m.to], m.slot, m.command)
      BY <2>3 DEF SpawnedByPropose
    <3>2. m.to \in Leaders /\ m.slot \in Slots /\ m.command \in Commands
      BY <3>1, MessageFields DEF LeaderPropose, TypeOK, Propose
    <3>3. SafeAt(ballotNum[m.to], m.slot, m.command)
      BY <3>1, <3>2 DEF ProposalInv
    <3>4. SafeAt(pv.ballot_num, pv.slot_num, pv.command)
      BY <3>1, <3>3 DEF PValue
    <3> QED
      BY <2>1, <3>4, SafeAtStable
  <2>4. CASE SpawnedByAdopted(pv)
    <3>1. PICK m \in msgs :
            /\ LeaderAdopted(m)
            /\ \E p \in update_proposals(proposals[m.to], pmax(m.pvalues)) :
                 pv = PValue(m.ballot_num, p[1], p[2])
      BY <2>4 DEF SpawnedByAdopted
    <3>2. m.type = "ADOPTED"
      BY <3>1 DEF LeaderAdopted
    <3>3. /\ m.to \in Leaders /\ m.ballot_num \in Ballots
          /\ m.pvalues \in SUBSET PValues
      BY <3>2, AdoptedFacts
    <3>4. PICK p \in update_proposals(proposals[m.to], pmax(m.pvalues)) :
            pv = PValue(m.ballot_num, p[1], p[2])
      BY <3>1
    <3>5. p \in Proposals
      BY <3>3, ProposalTypes DEF TypeOK
    <3>6. /\ pv.ballot_num = m.ballot_num /\ pv.slot_num = p[1]
          /\ pv.command = p[2] /\ p = <<p[1], p[2]>>
      BY <3>4, <3>5 DEF PValue, Proposals
    <3>7. \/ p \in pmax(m.pvalues)
          \/ \A v \in m.pvalues : v.slot_num # p[1]
      BY <3>3, <3>4, PmaxHasEntry DEF update_proposals
    <3>8. SafeAt(m.ballot_num, p[1], p[2])
      BY <2>1, <3>2, <3>6, <3>7, AdoptedIsSafe
    <3>9. SafeAt(pv.ballot_num, pv.slot_num, pv.command)
      BY <3>6, <3>8
    <3> QED
      BY <2>1, <3>9, SafeAtStable
  <2> QED
    BY <1>3, <2>2, <2>3, <2>4, NewInUse
<1> QED
  BY <1>2, <1>3 DEF SafetyInv
-----------------------------------------------------------------------------
(***************************************************************************)
(* Where proposals and decisions come from.                                *)
(***************************************************************************)

LEMMA ProposedGrows ==
  ASSUME Next PROVE proposed \subseteq proposed'
BY DEF Next, CommonNext, AcceptorP1a, AcceptorP2a, ScoutP1b, CommanderP2b,
       LeaderPropose, LeaderAdopted, LeaderPreempted, ReplicaDecision,
       ReplicaPropose, replicaVars

LEMMA PmaxIsProposed ==
  ASSUME TypeOK, AdoptedInv, ValidityInv, NEW m \in msgs, m.type = "ADOPTED"
  PROVE  pmax(m.pvalues) \subseteq proposed
BY AdoptedFacts DEF pmax, ValidityInv

LEMMA ValidityInvStep ==
  ASSUME TypeOK, TypeOK', Next, AdoptedInv, ValidityInv
  PROVE  ValidityInv'
<1>1. ASSUME NEW x \in msgs', x.type = "PROPOSE"
      PROVE  <<x.slot, x.command>> \in proposed'
  <2>1. CASE x \in msgs
    BY <1>1, <2>1, ProposedGrows DEF ValidityInv
  <2>2. CASE x \notin msgs
    <3>1. PICK s \in Slots, c \in Commands : ReplicaPropose(s, c)
      BY <1>1, <2>2, NewMessages
    <3> QED
      BY <1>1, <2>2, <3>1 DEF ReplicaPropose
  <2> QED
    BY <2>1, <2>2
<1>2. ASSUME NEW l \in Leaders
      PROVE  proposals'[l] \subseteq proposed'
  <2>1. CASE Proposes(l)
    BY <2>1, ProposedGrows DEF Proposes, LeaderPropose, ValidityInv
  <2>2. CASE Adopts(l)
    <3>1. PICK m \in msgs :
            /\ m.type = "ADOPTED"
            /\ proposals'[l] = update_proposals(proposals[l], pmax(m.pvalues))
      BY <2>2 DEF Adopts, LeaderAdopted
    <3> QED
      BY <3>1, ProposedGrows, PmaxIsProposed DEF update_proposals, ValidityInv
  <2> QED
    BY <2>1, <2>2, ProposalsStep, ProposedGrows DEF ValidityInv
<1>3. ASSUME NEW pv \in InUse'
      PROVE  <<pv.slot_num, pv.command>> \in proposed'
  <2>1. CASE pv \in InUse
    BY <2>1, ProposedGrows DEF ValidityInv
  <2>2. CASE SpawnedByPropose(pv)
    BY <2>2, ProposedGrows
       DEF SpawnedByPropose, LeaderPropose, ValidityInv, PValue
  <2>3. CASE SpawnedByAdopted(pv)
    <3>1. PICK m \in msgs :
            /\ m.type = "ADOPTED"
            /\ \E p \in update_proposals(proposals[m.to], pmax(m.pvalues)) :
                 pv = PValue(m.ballot_num, p[1], p[2])
      BY <2>3 DEF SpawnedByAdopted, LeaderAdopted
    <3>2. m.to \in Leaders /\ m.pvalues \in SUBSET PValues
      BY <3>1, AdoptedFacts
    <3>3. PICK p \in update_proposals(proposals[m.to], pmax(m.pvalues)) :
            pv = PValue(m.ballot_num, p[1], p[2])
      BY <3>1
    <3>4. p \in Proposals /\ p \in proposed
      BY <3>1, <3>2, ProposalTypes, PmaxIsProposed
         DEF update_proposals, ValidityInv, TypeOK
    <3> QED
      BY <3>3, <3>4, ProposedGrows DEF PValue, Proposals
  <2> QED
    BY <2>1, <2>2, <2>3, NewInUse
<1> QED
  BY <1>1, <1>2, <1>3 DEF ValidityInv

\* A decision is new in a step when a commander gets its majority.
LEMMA NewDecision ==
  ASSUME TypeOK, Next, NEW d \in Decided', d \notin Decided
  PROVE  \E m \in msgs, k \in commanders :
           /\ CommanderP2b(m) /\ k.id = m.commander
           /\ equal(m.ballot_num, k.id.pvalue.ballot_num)
           /\ majority_responded(k.waitfor \ {m.from})
           /\ d = <<k.id.pvalue.slot_num, k.id.pvalue.command>>
<1>1. ASSUME NEW x \in msgs', x.type = "DECISION", x \notin msgs,
             d = <<x.slot, x.command>>
      PROVE  \E m \in msgs, k \in commanders :
               /\ CommanderP2b(m) /\ k.id = m.commander
               /\ equal(m.ballot_num, k.id.pvalue.ballot_num)
               /\ majority_responded(k.waitfor \ {m.from})
               /\ d = <<k.id.pvalue.slot_num, k.id.pvalue.command>>
  <2>1. PICK m \in msgs : CommanderP2b(m)
    BY <1>1, NewMessages
  <2>2. PICK k \in commanders :
          /\ k.id = m.commander
          /\ CommanderPreempted(k, m) \/ CommanderResponse(k, m)
    BY <2>1 DEF CommanderP2b
  <2>3. /\ CommanderResponse(k, m)
        /\ majority_responded(k.waitfor \ {m.from})
    BY <1>1, <2>2 DEF CommanderPreempted, CommanderResponse
  <2>4. d = <<k.id.pvalue.slot_num, k.id.pvalue.command>>
    BY <1>1, <2>3 DEF CommanderResponse
  <2> QED
    BY <2>1, <2>2, <2>3, <2>4 DEF CommanderResponse
<1>2. ASSUME NEW r \in Replicas, d \in decisions'[r], d \notin decisions[r]
      PROVE  FALSE
  <2>1. PICK m \in msgs : ReplicaDecision(m)
    BY <1>2 DEF Next, CommonNext, AcceptorP1a, AcceptorP2a, ScoutP1b,
       CommanderP2b, LeaderPropose, LeaderAdopted, LeaderPreempted,
       ReplicaPropose, replicaVars
  <2>2. d = <<m.slot, m.command>> /\ m.type = "DECISION"
    BY <1>2, <2>1 DEF ReplicaDecision, TypeOK
  <2> QED
    BY <2>1, <2>2 DEF Decided
<1> QED
  BY <1>1, <1>2 DEF Decided

LEMMA DecisionsChosenStep ==
  ASSUME TypeOK, Next, AcceptorsGrow, P2bInv, CommanderInv, DecisionsChosen
  PROVE  DecisionsChosen'
<1> SUFFICES ASSUME NEW d \in Decided'
             PROVE  \E b \in Ballots : ChosenPValue(PValue(b, d[1], d[2]))'
  BY DEF DecisionsChosen
<1>1. CASE d \in Decided
  BY <1>1, ChosenStable DEF DecisionsChosen
<1>2. CASE d \notin Decided
  <2>1. PICK m \in msgs, k \in commanders :
          /\ CommanderP2b(m) /\ k.id = m.commander
          /\ equal(m.ballot_num, k.id.pvalue.ballot_num)
          /\ majority_responded(k.waitfor \ {m.from})
          /\ d = <<k.id.pvalue.slot_num, k.id.pvalue.command>>
    BY <1>2, NewDecision
  <2>2. k.id.pvalue \in PValues /\ k.waitfor \in SUBSET Acceptors
    BY DEF TypeOK, Commanders
  <2>3. k.id.pvalue \in accepted[m.from]
    BY <2>1 DEF CommanderP2b, P2bInv
  <2>4. \A a \in Acceptors \ (k.waitfor \ {m.from}) :
          k.id.pvalue \in accepted[a]
    BY <2>3 DEF CommanderInv
  <2>5. Acceptors \ (k.waitfor \ {m.from}) \in Quorums
    BY <2>1, <2>2, RespondersAreQuorum
  <2>6. ChosenPValue(k.id.pvalue)'
    BY <2>4, <2>5, ChosenStable DEF ChosenPValue
  <2>7. /\ k.id.pvalue.ballot_num \in Ballots
        /\ PValue(k.id.pvalue.ballot_num, d[1], d[2]) = k.id.pvalue
    BY <2>1, <2>2, PValueFields
  <2> QED
    BY <2>6, <2>7
<1> QED
  BY <1>1, <1>2
-----------------------------------------------------------------------------
(***************************************************************************)
(* Inv is inductive.                                                       *)
(***************************************************************************)

LEMMA InitInv == Init => Inv
<1> SUFFICES ASSUME Init PROVE Inv
  OBVIOUS
<1>1. TypeOK
  BY InitType
<1>2. /\ \A sc \in scouts : \E l \in Leaders : sc = new_scout(BallotNumber(0, l))
      /\ \A m \in msgs : m.type = "p1a"
      /\ InUse = {}
  BY DEF Init, P1as, InUse
<1>3. AcceptorInv /\ P1bInv /\ P2bInv /\ AdoptedInv /\ CommanderInv
  BY <1>2 DEF Init, AcceptorInv, P1bInv, P2bInv, AdoptedInv, CommanderInv
<1>4. ScoutInv
  BY <1>2 DEF ScoutInv, Collected, new_scout
<1>5. \A l \in Leaders : /\ BallotNumber(0, l).leader = l
                         /\ BallotNumber(0, l).value = 0
  BY BallotFields, MaxBallotAssumption
<1>6. BallotInv
  <2>1. \A l \in Leaders : ballotNum[l].leader = l
    BY <1>5 DEF Init
  <2>2. ASSUME NEW sc \in scouts PROVE Reached(sc.ballot_num)
    <3>1. PICK l \in Leaders : sc = new_scout(BallotNumber(0, l))
      BY <1>2
    <3>2. sc.ballot_num = BallotNumber(0, l) /\ ballotNum[l] = BallotNumber(0, l)
      BY <3>1 DEF Init, new_scout
    <3> QED
      BY <1>5, <3>2 DEF Reached
  <2> QED
    BY <1>2, <2>1, <2>2 DEF BallotInv
<1>7. PhaseInv
  <2>1. \A s1, s2 \in scouts : s1.ballot_num = s2.ballot_num => s1 = s2
    BY <1>2, <1>5 DEF new_scout
  <2>2. \A l \in Leaders : ~active[l]
    BY DEF Init
  <2> QED
    BY <1>2, <2>1, <2>2 DEF PhaseInv
<1>8. ProposalInv /\ SafetyInv /\ ValidityInv
  BY <1>2 DEF Init, ProposalInv, SafetyInv, OneCommandPerBallot, ValidityInv
<1>9. DecisionsChosen
  BY <1>2 DEF Init, DecisionsChosen, Decided
<1> QED
  BY <1>1, <1>3, <1>4, <1>6, <1>7, <1>8, <1>9 DEF Inv

LEMMA NextInv == Inv /\ Next => Inv'
<1> SUFFICES ASSUME Inv, Next PROVE Inv'
  OBVIOUS
<1>1. TypeOK /\ TypeOK'
  BY NextType DEF Inv
<1>2. AcceptorsGrow /\ BallotsGrow
  BY <1>1, StepAcceptorsGrow, StepBallotsGrow
<1>3. AcceptorInv' /\ P1bInv' /\ P2bInv'
  BY <1>1, <1>2, AcceptorInvStep, P1bInvStep, P2bInvStep DEF Inv
<1>4. ScoutInv' /\ AdoptedInv' /\ CommanderInv'
  BY <1>1, <1>2, ScoutInvStep, AdoptedInvStep, CommanderInvStep DEF Inv
<1>5. BallotInv' /\ PhaseInv'
  BY <1>1, <1>2, BallotInvStep, PhaseInvStep DEF Inv
<1>6. ProposalInv' /\ SafetyInv'
  BY <1>1, <1>2, <1>5, ProposalInvStep, SafetyInvStep DEF Inv
<1>7. ValidityInv' /\ DecisionsChosen'
  BY <1>1, <1>2, ValidityInvStep, DecisionsChosenStep DEF Inv
<1> QED
  BY <1>1, <1>3, <1>4, <1>5, <1>6, <1>7 DEF Inv

LEMMA StutterInv == Inv /\ UNCHANGED vars => Inv'
<1> SUFFICES ASSUME Inv, UNCHANGED vars PROVE Inv'
  OBVIOUS
<1> USE DEF vars, acceptorVars, leaderVars, replicaVars
<1>1. TypeOK'
  BY NextType DEF Inv
<1>2. AcceptorInv' /\ P1bInv' /\ P2bInv'
  BY DEF Inv, AcceptorInv, P1bInv, P2bInv, Reported, Collected
<1>3. ScoutInv' /\ AdoptedInv' /\ CommanderInv'
  BY DEF Inv, ScoutInv, AdoptedInv, CommanderInv, Reported, Collected
<1>4. InUse' = InUse /\ Decided' = Decided
  BY DEF InUse, Decided
<1>5. BallotInv' /\ PhaseInv'
  BY <1>4 DEF Inv, BallotInv, Reached, PhaseInv, InPhase1
<1>6. ProposalInv' /\ SafetyInv'
  BY <1>4 DEF Inv, ProposalInv, SafetyInv, OneCommandPerBallot, SafeAt,
              exists_proposal_for
<1>7. ValidityInv' /\ DecisionsChosen'
  BY <1>4 DEF Inv, ValidityInv, DecisionsChosen, ChosenPValue
<1> QED
  BY <1>1, <1>2, <1>3, <1>5, <1>6, <1>7 DEF Inv

\* Inv holds in every reachable state of the acceptors, scouts, commanders and
\* leaders (acceptor.ex, scout.ex, commander.ex, leader.ex).
THEOREM Invariance == Spec => []Inv
BY InitInv, NextInv, StutterInv, PTL DEF Spec
-----------------------------------------------------------------------------
(***************************************************************************)
(* What follows from Inv.                                                  *)
(***************************************************************************)

\* Two pvalues of one slot that are both chosen carry the same command,
\* whatever their ballots: the one with the lesser ballot made every other
\* command impossible at the greater one.
LEMMA ChosenAgree ==
  ASSUME TypeOK, SafetyInv, NEW p \in PValues, NEW q \in PValues,
         ChosenPValue(p), ChosenPValue(q), p.slot_num = q.slot_num
  PROVE  p.command = q.command
<1>1. p \in InUse /\ q \in InUse
  BY QuorumMembers DEF ChosenPValue, InUse
<1>2. ASSUME NEW v \in PValues, NEW w \in PValues,
             ChosenPValue(v), w \in InUse, v.slot_num = w.slot_num,
             less_than(v.ballot_num, w.ballot_num)
      PROVE  v.command = w.command
  <2>1. PICK Q1 \in Quorums : \A a \in Q1 : v \in accepted[a]
    BY <1>2 DEF ChosenPValue
  <2>2. v.ballot_num \in Ballots /\ v.command \in Commands
    BY PValueFields
  <2>3. v = PValue(v.ballot_num, w.slot_num, v.command)
    BY <1>2, PValueFields
  <2>4. SafeAt(w.ballot_num, w.slot_num, w.command)
    BY <1>2 DEF SafetyInv
  <2>5. PICK Q2 \in Quorums : \A a \in Q2 :
          \/ PValue(v.ballot_num, w.slot_num, w.command) \in accepted[a]
          \/ \A c1 \in Commands :
               PValue(v.ballot_num, w.slot_num, c1) \notin accepted[a]
    BY <1>2, <2>2, <2>4 DEF SafeAt
  <2>6. PICK a \in Q1 : a \in Q2
    BY QuorumsIntersect
  <2>7. /\ v \in accepted[a] /\ a \in Acceptors
        /\ PValue(v.ballot_num, w.slot_num, w.command) \in accepted[a]
    BY <2>1, <2>2, <2>3, <2>5, <2>6, QuorumMembers
  <2>8. v \in InUse /\ PValue(v.ballot_num, w.slot_num, w.command) \in InUse
    BY <2>7 DEF InUse
  <2>9. w.slot_num \in Slots /\ w.command \in Commands
    BY PValueFields
  <2> QED
    BY <1>2, <2>2, <2>8, <2>9, PValueFields DEF SafetyInv, OneCommandPerBallot
<1>3. CASE p.ballot_num = q.ballot_num
  BY <1>1, <1>3 DEF SafetyInv, OneCommandPerBallot
<1>4. \/ less_than(p.ballot_num, q.ballot_num)
      \/ less_than(q.ballot_num, p.ballot_num)
      \/ p.ballot_num = q.ballot_num
  <2>1. p.ballot_num \in AllBallots /\ q.ballot_num \in AllBallots
    BY PValueFields, BallotFields
  <2> QED
    BY <2>1, LessThan
<1> QED
  BY <1>1, <1>2, <1>3, <1>4

\* The same, in the state after a step.
LEMMA ChosenAgreePrime ==
  (TypeOK /\ SafetyInv =>
     \A b1, b2 \in Ballots, s \in Slots, c1, c2 \in Commands :
       ChosenPValue(PValue(b1, s, c1)) /\ ChosenPValue(PValue(b2, s, c2))
         => c1 = c2)'
<1>1. TypeOK /\ SafetyInv =>
        \A b1, b2 \in Ballots, s \in Slots, c1, c2 \in Commands :
          ChosenPValue(PValue(b1, s, c1)) /\ ChosenPValue(PValue(b2, s, c2))
            => c1 = c2
  BY ChosenAgree, PValueFields
<1> QED
  BY <1>1, PTL

LEMMA DecidedIsChosen ==
  ASSUME TypeOK, DecisionsChosen, NEW d \in Decided
  PROVE  /\ d \in Proposals
         /\ \E pv \in PValues : /\ ChosenPValue(pv)
                                /\ pv.slot_num = d[1] /\ pv.command = d[2]
<1>1. d \in Proposals
  BY MessageFields DEF Decided, TypeOK, Decision, Proposals
<1>2. PICK b \in Ballots : ChosenPValue(PValue(b, d[1], d[2]))
  BY DEF DecisionsChosen
<1> QED
  BY <1>1, <1>2, PValueFields DEF Proposals

LEMMA InvAgreement == Inv => Agreement
BY DecidedIsChosen, ChosenAgree DEF Inv, Agreement

LEMMA InvValidity == Inv => Validity
<1> SUFFICES ASSUME Inv, NEW d \in Decided PROVE d \in proposed
  BY DEF Validity
<1>1. PICK pv \in PValues :
        ChosenPValue(pv) /\ pv.slot_num = d[1] /\ pv.command = d[2]
  BY DecidedIsChosen DEF Inv
<1>2. pv \in InUse /\ d \in Proposals
  BY <1>1, QuorumMembers, DecidedIsChosen DEF Inv, ChosenPValue, InUse
<1> QED
  BY <1>1, <1>2 DEF Inv, ValidityInv, Proposals

\* No slot is ever given two commands (replica.ex:121, "Error: Multiple
\* decisions for slot", is unreachable) in the modes :no_liveness and
\* :partial_liveness.
THEOREM AgreementHolds == Spec => []Agreement
BY Invariance, InvAgreement, PTL

\* Only what a replica proposed for a slot is decided in it.
THEOREM ValidityHolds == Spec => []Validity
BY Invariance, InvValidity, PTL

\* Every DECISION is backed by a quorum that accepted the pvalue under a single
\* ballot (commander.ex, {:p2b, a, b}).
THEOREM DecisionsAreChosen == Spec => []DecisionsChosen
<1>1. Inv => DecisionsChosen
  BY DEF Inv
<1> QED
  BY <1>1, Invariance, PTL

\* The handlers of PROPOSE and ADOPTED (leader.ex) never spawn commanders for
\* two commands under one ballot and slot.
THEOREM OneCommandPerBallotHolds == Spec => []OneCommandPerBallot
<1>1. Inv => OneCommandPerBallot
  BY DEF Inv, SafetyInv
<1> QED
  BY <1>1, Invariance, PTL
-----------------------------------------------------------------------------
(***************************************************************************)
(* What an active leader knows.                                            *)
(***************************************************************************)

\* Acceptor a has adopted b, and leader l has a proposal for every slot in
\* which a accepted anything below b.
Covered(a, b, l) ==
  /\ less_or_equal(b, accBallot[a])
  /\ \A pv \in accepted[a] :
       less_than(pv.ballot_num, b) => exists_proposal_for(l, pv.slot_num)

\* The strengthening of ActiveLeaderIsSafe: a quorum is behind the ballot of an
\* active leader, and all the leader proposes is safe at that ballot.
LeaderIsSafe(l) ==
  /\ \E Q \in Quorums : \A a \in Q : Covered(a, ballotNum[l], l)
  /\ \A p \in proposals[l] : SafeAt(ballotNum[l], p[1], p[2])

ActiveInv == \A l \in Leaders : active[l] => LeaderIsSafe(l)

\* A leader that handles the ADOPTED of its ballot takes over a proposal for
\* every slot that the quorum behind it reported.
LEMMA AdoptingLeaderIsSafe ==
  ASSUME TypeOK, TypeOK', AcceptorsGrow, BallotsGrow, AdoptedInv, SafetyInv,
         NEW l \in Leaders, active'[l], Adopts(l)
  PROVE  LeaderIsSafe(l)'
<1>1. PICK b \in Ballots : b = ballotNum[l] /\ b = ballotNum'[l]
  BY DEF TypeOK, BallotsGrow
<1>2. PICK m \in msgs :
        /\ m.type = "ADOPTED" /\ m.ballot_num = b
        /\ proposals'[l] = update_proposals(proposals[l], pmax(m.pvalues))
  BY <1>1 DEF Adopts, LeaderAdopted
<1>3. m.pvalues \in SUBSET PValues
  BY <1>2, AdoptedFacts
<1>4. PICK Q \in Quorums : \A a \in Q : Reported(a, b, m.pvalues)
  BY <1>2 DEF AdoptedInv
<1>5. ASSUME NEW a \in Q PROVE Covered(a, ballotNum[l], l)'
  <2>1. Reported(a, b, m.pvalues)'
    BY <1>3, <1>4, QuorumMembers, ReportedStable
  <2>2. ASSUME NEW pv \in m.pvalues
        PROVE  exists_proposal_for(l, pv.slot_num)'
    <3>1. \E p \in pmax(m.pvalues) : p[1] = pv.slot_num
      BY <1>3, PmaxHasEntry
    <3> QED
      BY <1>2, <3>1 DEF exists_proposal_for, update_proposals
  <2> QED
    BY <1>1, <2>1, <2>2 DEF Covered, Reported, exists_proposal_for
<1>6. ASSUME NEW p \in proposals'[l] PROVE SafeAt(ballotNum[l], p[1], p[2])'
  <2>1. p[1] \in Slots /\ p[2] \in Commands /\ p = <<p[1], p[2]>>
    BY DEF TypeOK, Proposals
  <2>2. p \in pmax(m.pvalues) \/ \A v \in m.pvalues : v.slot_num # p[1]
    BY <1>2, <1>3, PmaxHasEntry DEF update_proposals
  <2>3. SafeAt(b, p[1], p[2])
    BY <1>2, <2>1, <2>2, AdoptedIsSafe
  <2>4. SafeAt(b, p[1], p[2])'
    BY <2>1, <2>3, SafeAtStable
  <2> QED
    BY <1>1, <2>4 DEF SafeAt
<1> QED
  BY <1>5, <1>6 DEF LeaderIsSafe

\* A leader that stays active keeps its quorum and its proposals, and adds a
\* proposal only to a slot in which anything is safe.
LEMMA StayingLeaderIsSafe ==
  ASSUME TypeOK, TypeOK', Next, AcceptorsGrow, BallotsGrow, ProposalInv,
         NEW l \in Leaders, active[l], active'[l], ~Adopts(l), LeaderIsSafe(l)
  PROVE  LeaderIsSafe(l)'
<1>1. PICK b \in Ballots : b = ballotNum[l] /\ b = ballotNum'[l]
  BY DEF TypeOK, BallotsGrow
<1>2. PICK Q \in Quorums : \A a \in Q : Covered(a, b, l)
  BY <1>1 DEF LeaderIsSafe
<1>3. \/ proposals'[l] = proposals[l]
      \/ \E m \in msgs :
           /\ LeaderPropose(m) /\ m.to = l /\ m.slot \in Slots
           /\ ~exists_proposal_for(l, m.slot)
           /\ proposals'[l] = proposals[l] \cup {<<m.slot, m.command>>}
  BY ProposalsStep DEF Proposes
<1>4. ASSUME NEW a \in Q PROVE Covered(a, ballotNum[l], l)'
  <2>1. a \in Acceptors
    BY QuorumMembers
  <2>2. /\ b \in AllBallots
        /\ accBallot[a] \in AllBallots /\ accBallot'[a] \in AllBallots
    BY <2>1, BallotFields DEF TypeOK
  <2>3. less_or_equal(b, accBallot'[a])
    BY <1>2, <2>1, <2>2, LessOrEqualTransitive DEF AcceptorsGrow, Covered
  <2>4. ASSUME NEW pv \in accepted'[a], less_than(pv.ballot_num, b)
        PROVE  exists_proposal_for(l, pv.slot_num)'
    <3>1. pv.ballot_num # accBallot[a]
      BY <1>2, <2>2, <2>4, LessThan DEF Covered
    <3>2. exists_proposal_for(l, pv.slot_num)
      BY <1>2, <2>1, <2>4, <3>1 DEF AcceptorsGrow, Covered
    <3> QED
      BY <1>3, <3>2 DEF exists_proposal_for
  <2> QED
    BY <1>1, <2>3, <2>4 DEF Covered, exists_proposal_for
<1>5. ASSUME NEW p \in proposals'[l] PROVE SafeAt(ballotNum[l], p[1], p[2])'
  <2>1. p[1] \in Slots /\ p[2] \in Commands
    BY DEF TypeOK, Proposals
  <2>2. ASSUME p \in proposals[l] PROVE SafeAt(ballotNum[l], p[1], p[2])
    BY <2>2 DEF LeaderIsSafe
  <2>3. ASSUME p \notin proposals[l] PROVE SafeAt(ballotNum[l], p[1], p[2])
    <3>1. PICK m \in msgs :
            ~exists_proposal_for(l, m.slot) /\ p = <<m.slot, m.command>>
      BY <1>3, <2>3
    <3>2. ~exists_proposal_for(l, p[1])
      BY <3>1
    <3> QED
      BY <2>1, <3>2 DEF ProposalInv
  <2>4. SafeAt(b, p[1], p[2])
    BY <1>1, <2>2, <2>3 DEF SafeAt
  <2>5. SafeAt(b, p[1], p[2])'
    BY <2>1, <2>4, SafeAtStable
  <2> QED
    BY <1>1, <2>5 DEF SafeAt
<1> QED
  BY <1>4, <1>5 DEF LeaderIsSafe

LEMMA ActiveInvStep == Inv /\ ActiveInv /\ Next => ActiveInv'
<1> SUFFICES ASSUME Inv, ActiveInv, Next, NEW l \in Leaders, active'[l]
             PROVE  LeaderIsSafe(l)'
  BY DEF ActiveInv
<1>1. TypeOK /\ TypeOK'
  BY NextType DEF Inv
<1>2. AcceptorsGrow /\ BallotsGrow
  BY <1>1, StepAcceptorsGrow, StepBallotsGrow
<1>3. CASE Adopts(l)
  BY <1>1, <1>2, <1>3, AdoptingLeaderIsSafe DEF Inv
<1>4. CASE ~Adopts(l)
  <2>1. ASSUME NEW m \in msgs, LeaderAdopted(m), m.to = l,
               m.ballot_num = ballotNum[l]
        PROVE  Adopts(l)
    <3>1. equal(m.ballot_num, ballotNum[l])
      BY <1>1, <2>1, BallotFields, EqualIsEquality DEF TypeOK
    <3> QED
      BY <1>1, <2>1, <3>1 DEF LeaderAdopted, Adopts, TypeOK
  <2>2. active[l]
    BY <1>1, <1>4, <2>1, Activation
  <2> QED
    BY <1>1, <1>2, <1>4, <2>2, StayingLeaderIsSafe DEF Inv, ActiveInv
<1> QED
  BY <1>3, <1>4

LEMMA StutterActiveInv == ActiveInv /\ UNCHANGED vars => ActiveInv'
BY DEF vars, acceptorVars, leaderVars, ActiveInv, LeaderIsSafe, Covered, SafeAt,
       exists_proposal_for

\* What a quorum accepted at or below the ballot of a safe leader is among the
\* proposals of the leader.
LEMMA ChosenIsProposed ==
  ASSUME Inv, NEW l \in Leaders, LeaderIsSafe(l), NEW pv \in PValues,
         ChosenPValue(pv), less_or_equal(pv.ballot_num, ballotNum[l])
  PROVE  <<pv.slot_num, pv.command>> \in proposals[l]
<1>1. PICK Q1 \in Quorums : \A a \in Q1 : pv \in accepted[a]
  BY DEF ChosenPValue
<1>2. /\ pv.ballot_num \in Ballots /\ pv.slot_num \in Slots
      /\ pv.command \in Commands
      /\ pv = PValue(pv.ballot_num, pv.slot_num, pv.command)
  BY PValueFields
<1>3. CASE pv.ballot_num = ballotNum[l]
  <2>1. pv \in InUse
    BY <1>1, QuorumMembers DEF InUse
  <2> QED
    BY <1>3, <2>1 DEF Inv, ProposalInv
<1>4. CASE less_than(pv.ballot_num, ballotNum[l])
  <2>1. PICK Q \in Quorums : \A a \in Q : Covered(a, ballotNum[l], l)
    BY DEF LeaderIsSafe
  <2>2. exists_proposal_for(l, pv.slot_num)
    BY <1>1, <1>4, <2>1, QuorumsIntersect DEF Covered
  <2>3. PICK p \in proposals[l] : p[1] = pv.slot_num
    BY <2>2 DEF exists_proposal_for
  <2>4. p[2] \in Commands /\ p = <<p[1], p[2]>>
    BY DEF Inv, TypeOK, Proposals
  <2>5. SafeAt(ballotNum[l], pv.slot_num, p[2])
    BY <2>3 DEF LeaderIsSafe
  <2>6. PICK Q2 \in Quorums : \A a \in Q2 :
          \/ PValue(pv.ballot_num, pv.slot_num, p[2]) \in accepted[a]
          \/ \A c1 \in Commands :
               PValue(pv.ballot_num, pv.slot_num, c1) \notin accepted[a]
    BY <1>2, <1>4, <2>5 DEF SafeAt
  <2>7. PICK a \in Q1 : a \in Q2
    BY QuorumsIntersect
  <2>8. /\ a \in Acceptors /\ pv \in accepted[a]
        /\ PValue(pv.ballot_num, pv.slot_num, p[2]) \in accepted[a]
    BY <1>1, <1>2, <2>6, <2>7, QuorumMembers
  <2>9. pv \in InUse /\ PValue(pv.ballot_num, pv.slot_num, p[2]) \in InUse
    BY <2>8 DEF InUse
  <2>10. p[2] = pv.command
    BY <1>2, <2>4, <2>9, PValueFields DEF Inv, SafetyInv, OneCommandPerBallot
  <2> QED
    BY <2>3, <2>4, <2>10
<1>5. pv.ballot_num = ballotNum[l] \/ less_than(pv.ballot_num, ballotNum[l])
  <2>1. pv.ballot_num \in AllBallots /\ ballotNum[l] \in AllBallots
    BY <1>2, BallotFields DEF Inv, TypeOK
  <2> QED
    BY <2>1, LessThan
<1> QED
  BY <1>3, <1>4, <1>5

LEMMA ActiveInvSuffices == Inv /\ ActiveInv => ActiveLeaderIsSafe
<1> SUFFICES ASSUME Inv, NEW l \in Leaders, LeaderIsSafe(l)
             PROVE  /\ \E Q \in Quorums : \A a \in Q :
                         less_or_equal(ballotNum[l], accBallot[a])
                    /\ \A pv \in UNION {accepted[a] : a \in Acceptors} :
                         ChosenPValue(pv)
                           /\ less_or_equal(pv.ballot_num, ballotNum[l])
                             => <<pv.slot_num, pv.command>> \in proposals[l]
  BY DEF ActiveInv, ActiveLeaderIsSafe
<1>1. UNION {accepted[a] : a \in Acceptors} \subseteq PValues
  BY DEF Inv, TypeOK
<1> QED
  BY <1>1, ChosenIsProposed DEF LeaderIsSafe, Covered

\* The ballot of an active leader was adopted by a quorum, and whatever a quorum
\* accepted at or below it is among the leader's proposals (leader.ex, the
\* handlers of PROPOSE, ADOPTED and PREEMPTED).
THEOREM ActiveLeaderIsSafeHolds == Spec => []ActiveLeaderIsSafe
<1>1. Init => ActiveInv
  BY DEF Init, ActiveInv
<1>2. Inv /\ ActiveInv /\ [Next]_vars => ActiveInv'
  BY ActiveInvStep, StutterActiveInv
<1> QED
  BY <1>1, <1>2, Invariance, ActiveInvSuffices, PTL DEF Spec
-----------------------------------------------------------------------------
LEMMA ChosenMembers ==
  /\ \A p : p \in Chosen <=>
       p \in Proposals /\ \E b \in Ballots : ChosenPValue(PValue(b, p[1], p[2]))
  /\ \A p : p \in Chosen' <=>
       p \in Proposals /\ \E b \in Ballots : ChosenPValue(PValue(b, p[1], p[2]))'
BY DEF Chosen

\* A chosen entry is what some chosen pvalue carries.
LEMMA ChosenEntry ==
  ASSUME NEW p \in Chosen
  PROVE  /\ p = <<p[1], p[2]>> /\ p[1] \in Slots /\ p[2] \in Commands
         /\ \E pv \in PValues : /\ ChosenPValue(pv)
                                /\ pv.slot_num = p[1] /\ pv.command = p[2]
BY ChosenMembers, PValueFields DEF Proposals

LEMMA ChosenUnchanged ==
  ASSUME UNCHANGED accepted
  PROVE  UNCHANGED Chosen
BY DEF Chosen, ChosenPValue

LEMMA InitRefinement == Init => Log!LogInit
<1> SUFFICES ASSUME Init PROVE Log!LogInit
  OBVIOUS
<1>1. Chosen = {}
  BY ChosenMembers, QuorumMembers DEF Init, ChosenPValue
<1> QED
  BY <1>1 DEF Init, Log!LogInit

\* The step in which an acceptor completes a quorum chooses the entry.
LEMMA AcceptRefinement ==
  ASSUME Inv, Inv', Next, NEW m \in msgs, AcceptorP2a(m)
  PROVE  Log!LogNext \/ UNCHANGED <<proposed, Chosen, decisions>>
<1> DEFINE pv == m.commander.pvalue
           e == <<pv.slot_num, pv.command>>
<1>1. /\ m.to \in Acceptors /\ pv \in PValues /\ m.type = "p2a"
      /\ UNCHANGED <<proposed, decisions>>
  BY MessageFields
     DEF Inv, AcceptorP2a, TypeOK, P2a, Commanders, replicaVars
<1>2. pv.slot_num \in Slots /\ pv.command \in Commands
  BY <1>1, PValueFields
<1>3. Chosen \subseteq Chosen'
  BY StepAcceptorsGrow, ChosenStable, ChosenMembers DEF Inv
<1>4. ASSUME NEW p \in Chosen', p \notin Chosen
      PROVE  p = e
  <2>1. PICK b \in Ballots : ChosenPValue(PValue(b, p[1], p[2]))'
    BY ChosenMembers
  <2>2. p \in Proposals /\ ~ChosenPValue(PValue(b, p[1], p[2]))
    BY <1>4, ChosenMembers
  <2>3. PICK a \in Acceptors : /\ PValue(b, p[1], p[2]) \in accepted'[a]
                               /\ PValue(b, p[1], p[2]) \notin accepted[a]
    BY <2>1, <2>2, QuorumMembers DEF ChosenPValue
  <2>4. PValue(b, p[1], p[2]) = pv
    BY <1>1, <2>3 DEF AcceptorP2a, Inv, TypeOK
  <2> QED
    BY <2>2, <2>4 DEF Proposals, PValue
<1>5. CASE Chosen' = Chosen
  BY <1>1, <1>5
<1>6. CASE Chosen' # Chosen
  <2>1. e \in Chosen' /\ e \notin Chosen /\ Chosen' = Chosen \cup {e}
    <3> HIDE DEF e
    <3> QED
      BY <1>3, <1>4, <1>6
  <2>2. e \in proposed
    BY <1>1 DEF Inv, ValidityInv, InUse
  <2>3. ASSUME NEW p \in Chosen, p[1] = pv.slot_num
        PROVE  FALSE
    <3>1. p \in Chosen' /\ p[2] \in Commands /\ p = <<p[1], p[2]>>
      BY <1>3, ChosenEntry
    <3>2. PICK b1 \in Ballots : ChosenPValue(PValue(b1, p[1], p[2]))'
      BY <3>1, ChosenMembers
    <3>3. PICK b2 \in Ballots : ChosenPValue(PValue(b2, pv.slot_num, pv.command))'
      BY <2>1, ChosenMembers
    <3>4. p[2] = pv.command
      BY <1>2, <2>3, <3>1, <3>2, <3>3, ChosenAgreePrime DEF Inv
    <3> QED
      BY <2>1, <2>3, <3>1, <3>4
  <2>4. Log!LogChoose(pv.slot_num, pv.command)
    BY <1>1, <2>1, <2>2, <2>3 DEF Log!LogChoose
  <2> QED
    BY <1>2, <2>4 DEF Log!LogNext
<1> QED
  BY <1>5, <1>6

\* A replica that handles DECISION learns a chosen entry.
LEMMA LearnRefinement ==
  ASSUME Inv, NEW m \in msgs, ReplicaDecision(m)
  PROVE  Log!LogNext
<1>1. m.to \in Replicas /\ m.slot \in Slots /\ m.command \in Commands
  BY MessageFields DEF Inv, ReplicaDecision, TypeOK, Decision
<1>2. <<m.slot, m.command>> \in Decided
  BY DEF ReplicaDecision, Decided
<1>3. <<m.slot, m.command>> \in Chosen
  BY <1>1, <1>2, ChosenMembers DEF Inv, DecisionsChosen, Proposals
<1>4. UNCHANGED <<proposed, Chosen>>
  BY ChosenUnchanged DEF ReplicaDecision, acceptorVars
<1>5. Log!LogLearn(m.to, m.slot, m.command)
  BY <1>3, <1>4 DEF ReplicaDecision, Log!LogLearn
<1> QED
  BY <1>1, <1>5 DEF Log!LogNext

LEMMA ProposeRefinement ==
  ASSUME NEW s \in Slots, NEW c \in Commands, ReplicaPropose(s, c)
  PROVE  Log!LogNext
<1>1. Log!LogPropose(s, c)
  BY ChosenUnchanged DEF ReplicaPropose, acceptorVars, Log!LogPropose
<1> QED
  BY <1>1 DEF Log!LogNext

LEMMA StepRefinement ==
  Inv /\ Inv' /\ [Next]_vars => [Log!LogNext]_(Log!logVars)
<1> SUFFICES ASSUME Inv, Inv', [Next]_vars
             PROVE  Log!LogNext \/ UNCHANGED <<proposed, Chosen, decisions>>
  BY DEF Log!logVars
<1>1. CASE UNCHANGED <<accepted, proposed, decisions>>
  BY <1>1, ChosenUnchanged
<1>2. ASSUME NEW m \in msgs, Next, AcceptorP2a(m)
      PROVE  Log!LogNext \/ UNCHANGED <<proposed, Chosen, decisions>>
  BY <1>2, AcceptRefinement
<1>3. \/ UNCHANGED <<accepted, proposed, decisions>>
      \/ Next /\ \E m \in msgs : AcceptorP2a(m)
      \/ \E m \in msgs : ReplicaDecision(m)
      \/ \E s \in Slots, c \in Commands : ReplicaPropose(s, c)
  BY DEF Next, CommonNext, AcceptorP1a, ScoutP1b, CommanderP2b, LeaderPropose,
         LeaderAdopted, LeaderPreempted, vars, acceptorVars, replicaVars
<1> QED
  BY <1>1, <1>2, <1>3, LearnRefinement, ProposeRefinement

\* The consensus core implements the abstract log: what a quorum has accepted
\* for a slot is never replaced, and replicas learn nothing else.
THEOREM Refinement == Spec => ImplementsLog
<1>1. Init => Log!LogInit
  BY InitRefinement
<1>2. Inv /\ Inv' /\ [Next]_vars => [Log!LogNext]_(Log!logVars)
  BY StepRefinement
<1> QED
  BY <1>1, <1>2, Invariance, PTL DEF Spec, ImplementsLog, Log!LogSpec
==============================================================================
