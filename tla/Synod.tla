-------------------------------- MODULE Synod --------------------------------
(***************************************************************************)
(* The consensus core of the Multi-Paxos implementation under              *)
(* consensus/lib: acceptors (acceptor.ex), leaders (leader.ex) and the     *)
(* scouts (scout.ex) and commanders (commander.ex) that leaders spawn.     *)
(* Replicas appear only as the senders of PROPOSE and the receivers of     *)
(* DECISION.                                                               *)
(*                                                                         *)
(* Next is the system in the operation modes :no_liveness and              *)
(* :partial_liveness, in which a preempted leader itself starts the next   *)
(* ballot.  The two modes differ by a random sleep inside one handler, in  *)
(* which the leader reads no message: with time abstracted they take the   *)
(* same steps.  SynodFD adds the two modes with failure detectors.         *)
(*                                                                         *)
(* `msgs' is the set of messages sent and not yet handled, over all the    *)
(* mailboxes.  A handler removes the message it handles.  The runtime      *)
(* orders messages only between two given processes; in this protocol a    *)
(* pair of processes exchanges at most one message of each kind per        *)
(* direction, except for PROPOSE, whose order no handler depends on, so    *)
(* every order of delivery is allowed.  Messages to a process that has     *)
(* exited vanish.  A crashed server takes no further step, which every     *)
(* safety property already covers: a behaviour may stop any process.       *)
(***************************************************************************)
EXTENDS Integers, FiniteSets

CONSTANTS
  NumLeaders,   \* number of leaders, one per server
  Acceptors,    \* the acceptor processes, one per server
  Replicas,     \* the replica processes, one per server
  Slots,        \* the slots of the replicated log under consideration
  Commands,     \* the client commands
  MaxBallot     \* bound on the value of a ballot number

ASSUME NumLeadersAssumption == NumLeaders \in Nat \ {0}
ASSUME AcceptorsAssumption == IsFiniteSet(Acceptors) /\ Acceptors # {}
ASSUME MaxBallotAssumption == MaxBallot \in Nat
-----------------------------------------------------------------------------
(***************************************************************************)
(* Ballot numbers (ballot_number.ex).  A ballot number is a struct with a  *)
(* value, the pid of the leader that owns it and a flag that marks the     *)
(* bottom element.  Pids are totally ordered by the runtime; a leader is   *)
(* named here by the rank of its pid in that order, a positive natural.    *)
(***************************************************************************)
BallotNumber(v, l) == [value |-> v, leader |-> l, is_bottom |-> FALSE]

\* BallotNumber.bottom(): only the flag is set, value and leader keep their
\* defaults, so bottom().leader is 0, which is no pid.
bottom == [value |-> 0, leader |-> 0, is_bottom |-> TRUE]

\* The `cond' of compare/2, top to bottom.
compare(b1, b2) ==
  CASE b1.is_bottom /\ b2.is_bottom -> "eq"
    [] b1.is_bottom /\ ~b2.is_bottom -> "lt"
    [] ~b1.is_bottom /\ b2.is_bottom -> "gt"
    [] ~b1.is_bottom /\ ~b2.is_bottom ->
         IF b1.value < b2.value THEN "lt"
         ELSE IF b1.value > b2.value THEN "gt"
         ELSE IF b1.leader < b2.leader THEN "lt"
         ELSE IF b1.leader > b2.leader THEN "gt"
         ELSE "eq"

equal(b1, b2)         == compare(b1, b2) = "eq"
greater_than(b1, b2)  == compare(b1, b2) = "gt"
less_or_equal(b1, b2) == compare(b1, b2) # "gt"
-----------------------------------------------------------------------------

Leaders == 1..NumLeaders
Ballots == {BallotNumber(v, l) : v \in 0..MaxBallot, l \in Leaders}
BallotsOrBottom == Ballots \cup {bottom}

PValues == [ballot_num : Ballots, slot_num : Slots, command : Commands]
PValue(b, s, c) == [ballot_num |-> b, slot_num |-> s, command |-> c]
Proposals == Slots \X Commands

\* The name of a commander stands for its pid.  A leader spawns commanders in
\* two handlers, and at most one per ballot and slot in each of them.
Origins == {"PROPOSE", "ADOPTED"}
Commanders == [pvalue : PValues, origin : Origins]

\* A scout is named by its ballot number: no two scouts share one.
Scouts == [ballot_num : Ballots, waitfor : SUBSET Acceptors,
           pvalues : SUBSET PValues]

VARIABLES
  accBallot,    \* accBallot[a]: ballot_num of acceptor a
  accepted,     \* accepted[a]: the pvalues a has accepted
  ballotNum,    \* ballotNum[l]: ballot_num of leader l
  active,       \* active[l]: the active flag of leader l
  proposals,    \* proposals[l]: the <<slot, command>> pairs leader l knows
  scouts,       \* the scouts that are running, with their state
  commanders,   \* the commanders that are running, with their state
  msgs,         \* the messages sent and not yet handled
  proposed,     \* the <<slot, command>> pairs some replica has proposed
  decisions     \* decisions[r]: the decisions replica r has received

acceptorVars == <<accBallot, accepted>>
leaderVars   == <<ballotNum, active, proposals>>
replicaVars  == <<proposed, decisions>>
vars == <<acceptorVars, leaderVars, scouts, commanders, msgs, replicaVars>>

P1a == [type : {"p1a"}, to : Acceptors, ballot_num : Ballots]
P1b == [type : {"p1b"}, from : Acceptors, scout : Ballots,
        ballot_num : BallotsOrBottom, accepted : SUBSET PValues]
P2a == [type : {"p2a"}, to : Acceptors, commander : Commanders]
P2b == [type : {"p2b"}, from : Acceptors, commander : Commanders,
        ballot_num : BallotsOrBottom]
Propose == [type : {"PROPOSE"}, to : Leaders, slot : Slots, command : Commands]
Adopted == [type : {"ADOPTED"}, to : Leaders, ballot_num : Ballots,
            pvalues : SUBSET PValues]
Preempted == [type : {"PREEMPTED"}, to : Leaders, ballot_num : BallotsOrBottom,
              from : Ballots \cup Commanders]
Decision == [type : {"DECISION"}, to : Replicas, slot : Slots,
             command : Commands]

Messages == P1a \cup P1b \cup P2a \cup P2b \cup Propose \cup Adopted
              \cup Preempted \cup Decision

\* The types of the acceptors', leaders', scouts', commanders' and replicas'
\* state and of every message between them.
TypeOK ==
  /\ accBallot \in [Acceptors -> BallotsOrBottom]
  /\ accepted \in [Acceptors -> SUBSET PValues]
  /\ ballotNum \in [Leaders -> Ballots]
  /\ active \in [Leaders -> BOOLEAN]
  /\ proposals \in [Leaders -> SUBSET Proposals]
  /\ scouts \subseteq Scouts
  /\ commanders \subseteq [id : Commanders, waitfor : SUBSET Acceptors]
  /\ msgs \subseteq Messages
  /\ proposed \subseteq Proposals
  /\ decisions \in [Replicas -> SUBSET Proposals]
-----------------------------------------------------------------------------
\* majority_responded? and majority_accepted?: fewer than div(n + 1, 2) of the
\* n acceptors are still waited for.
majority_responded(waitfor) ==
  Cardinality(waitfor) < (Cardinality(Acceptors) + 1) \div 2

\* The messages a new scout or commander sends, one to each acceptor.
P1as(b) == {[type |-> "p1a", to |-> a, ballot_num |-> b] : a \in Acceptors}
P2as(C) == {[type |-> "p2a", to |-> a, commander |-> id] :
              a \in Acceptors, id \in C}

\* Mutant: commanders that start without acceptors to wait for.
new_hasty_commanders(C) == {[id |-> i, waitfor |-> {}] : i \in C}

new_scout(b) == [ballot_num |-> b, waitfor |-> Acceptors, pvalues |-> {}]
new_commanders(C) == {[id |-> i, waitfor |-> Acceptors] : i \in C}

\* The messages that vanish when the scout of ballot b, or commander id, exits.
ScoutMailbox(b) == {m \in msgs : m.type = "p1b" /\ m.scout = b}
CommanderMailbox(id) == {m \in msgs : m.type = "p2b" /\ m.commander = id}
-----------------------------------------------------------------------------
(***************************************************************************)
(* Acceptor.                                                               *)
(***************************************************************************)

\* {:p1a, l, b}: adopt a greater ballot, then report the ballot and everything
\* accepted so far to the scout.
AcceptorP1a(m) ==
  LET a == m.to
      b == IF greater_than(m.ballot_num, accBallot[a])
           THEN m.ballot_num ELSE accBallot[a]
      reply == [type |-> "p1b", from |-> a, scout |-> m.ballot_num,
                ballot_num |-> b, accepted |-> accepted[a]]
  IN  /\ m.type = "p1a"
      /\ accBallot' = [accBallot EXCEPT ![a] = b]
      /\ msgs' = (msgs \ {m}) \cup
                   {reply : s \in {s \in scouts : s.ballot_num = m.ballot_num}}
      /\ UNCHANGED <<accepted, leaderVars, scouts, commanders, replicaVars>>

\* {:p2a, l, pvalue}: report the current ballot to the commander, and accept
\* the pvalue when its ballot is exactly the current one.
AcceptorP2a(m) ==
  LET a == m.to
      pv == m.commander.pvalue
      reply == [type |-> "p2b", from |-> a, commander |-> m.commander,
                ballot_num |-> accBallot[a]]
  IN  /\ m.type = "p2a"
      /\ accepted' = [accepted EXCEPT ![a] =
                        IF equal(pv.ballot_num, accBallot[a])
                        THEN @ \cup {pv} ELSE @]
      /\ msgs' = (msgs \ {m}) \cup
                   {reply : k \in {k \in commanders : k.id = m.commander}}
      /\ UNCHANGED <<accBallot, leaderVars, scouts, commanders, replicaVars>>
-----------------------------------------------------------------------------
(***************************************************************************)
(* Scout.                                                                  *)
(***************************************************************************)

\* The acceptor reports another ballot: tell the leader and exit.
ScoutPreempted(sc, m) ==
  /\ ~equal(m.ballot_num, sc.ballot_num)
  /\ scouts' = scouts \ {sc}
  /\ msgs' = (msgs \ ScoutMailbox(sc.ballot_num)) \cup
               {[type |-> "PREEMPTED", to |-> sc.ballot_num.leader,
                 ballot_num |-> m.ballot_num, from |-> sc.ballot_num]}

\* The acceptor has adopted the scout's ballot: collect what it accepted, and
\* with a majority report to the leader and exit.
ScoutResponse(sc, m) ==
  LET waitfor == sc.waitfor \ {m.from}
      pvalues == sc.pvalues \cup m.accepted
  IN  /\ equal(m.ballot_num, sc.ballot_num)
      /\ \/ /\ ~majority_responded(waitfor)
            /\ scouts' = (scouts \ {sc}) \cup
                           {[ballot_num |-> sc.ballot_num,
                             waitfor |-> waitfor, pvalues |-> pvalues]}
            /\ msgs' = msgs \ {m}
         \/ /\ majority_responded(waitfor)
            /\ scouts' = scouts \ {sc}
            /\ msgs' = (msgs \ ScoutMailbox(sc.ballot_num)) \cup
                         {[type |-> "ADOPTED", to |-> sc.ballot_num.leader,
                           ballot_num |-> sc.ballot_num, pvalues |-> pvalues]}

\* {:p1b, a, b, r}.
ScoutP1b(m) ==
  /\ m.type = "p1b"
  /\ \E sc \in scouts :
       /\ sc.ballot_num = m.scout
       /\ ScoutPreempted(sc, m) \/ ScoutResponse(sc, m)
  /\ UNCHANGED <<acceptorVars, leaderVars, commanders, replicaVars>>
-----------------------------------------------------------------------------
(***************************************************************************)
(* Commander.                                                              *)
(***************************************************************************)

\* The acceptor reports another ballot, which need not be a greater one: tell
\* the leader and exit.
CommanderPreempted(k, m) ==
  /\ ~equal(m.ballot_num, k.id.pvalue.ballot_num)
  /\ commanders' = commanders \ {k}
  /\ msgs' = (msgs \ CommanderMailbox(k.id)) \cup
               {[type |-> "PREEMPTED", to |-> k.id.pvalue.ballot_num.leader,
                 ballot_num |-> m.ballot_num, from |-> k.id]}

\* The acceptor has accepted: with a majority tell every replica and exit.
CommanderResponse(k, m) ==
  LET waitfor == k.waitfor \ {m.from}
      pv == k.id.pvalue
  IN  /\ equal(m.ballot_num, pv.ballot_num)
      /\ \/ /\ ~majority_responded(waitfor)
            /\ commanders' = (commanders \ {k}) \cup
                               {[id |-> k.id, waitfor |-> waitfor]}
            /\ msgs' = msgs \ {m}
         \/ /\ majority_responded(waitfor)
            /\ commanders' = commanders \ {k}
            /\ msgs' = (msgs \ CommanderMailbox(k.id)) \cup
                         {[type |-> "DECISION", to |-> r, slot |-> pv.slot_num,
                           command |-> pv.command] : r \in Replicas}

\* {:p2b, a, b}.
CommanderP2b(m) ==
  /\ m.type = "p2b"
  /\ \E k \in commanders :
       /\ k.id = m.commander
       /\ CommanderPreempted(k, m) \/ CommanderResponse(k, m)
  /\ UNCHANGED <<acceptorVars, leaderVars, scouts, replicaVars>>
-----------------------------------------------------------------------------
(***************************************************************************)
(* Leader.                                                                 *)
(***************************************************************************)

exist_proposals_for(l, s) ==   \* mutant: off by one
  Cardinality({p \in proposals[l] : p[1] = s}) > 1

exists_proposal_for(l, s) == \E p \in proposals[l] : p[1] = s

\* The proposals of the pvalues that have the greatest ballot of their slot.
pmax(pvalues) ==
  {<<pv.slot_num, pv.command>> : pv \in
     {pv \in pvalues : \A pv1 \in pvalues :
        pv1.slot_num = pv.slot_num
          => less_or_equal(pv1.ballot_num, pv.ballot_num)}}

update_missing(own, max) ==   \* mutant: the leader's own proposals win
  own \cup {p \in max : ~\E q \in own : q[1] = p[1]}

\* The reported proposals replace the leader's own for the same slots.
update_proposals(own, max) ==
  max \cup {p \in own : ~\E q \in max : q[1] = p[1]}

CommanderFor(b, p, origin) ==
  [pvalue |-> PValue(b, p[1], p[2]), origin |-> origin]

\* {:PROPOSE, s, c}: the first proposal for a slot is kept; an active leader
\* spawns a commander for it under its current ballot.
LeaderPropose(m) ==
  LET l == m.to
      p == <<m.slot, m.command>>
      C == IF active[l] THEN {CommanderFor(ballotNum[l], p, "PROPOSE")} ELSE {}
  IN  /\ m.type = "PROPOSE"
      /\ \/ /\ exists_proposal_for(l, m.slot)
            /\ msgs' = msgs \ {m}
            /\ UNCHANGED <<proposals, commanders>>
         \/ /\ ~exists_proposal_for(l, m.slot)
            /\ proposals' = [proposals EXCEPT ![l] = @ \cup {p}]
            /\ commanders' = commanders \cup new_commanders(C)
            /\ msgs' = (msgs \ {m}) \cup P2as(C)
      /\ UNCHANGED <<acceptorVars, ballotNum, active, scouts, replicaVars>>

\* {:ADOPTED, b, pvalues}: ignored unless b is the current ballot.  The leader
\* takes over what the acceptors reported, spawns a commander for every
\* proposal it now has and becomes active.
LeaderAdopted(m) ==
  LET l == m.to
      ps == update_proposals(proposals[l], pmax(m.pvalues))
      C == {CommanderFor(m.ballot_num, p, "ADOPTED") : p \in ps}
  IN  /\ m.type = "ADOPTED"
      /\ \/ /\ ~equal(m.ballot_num, ballotNum[l])
            /\ msgs' = msgs \ {m}
            /\ UNCHANGED <<active, proposals, commanders>>
         \/ /\ equal(m.ballot_num, ballotNum[l])
            /\ active' = [active EXCEPT ![l] = TRUE]
            /\ proposals' = [proposals EXCEPT ![l] = ps]
            /\ commanders' = commanders \cup new_commanders(C)
            /\ msgs' = (msgs \ {m}) \cup P2as(C)
      /\ UNCHANGED <<acceptorVars, ballotNum, scouts, replicaVars>>

NewBallotForgotten(l, v) ==   \* mutant: the leader keeps its old ballot
  LET b == BallotNumber(v + 1, l)
  IN  /\ v + 1 <= MaxBallot
      /\ ballotNum' = ballotNum
      /\ scouts' = scouts \cup {new_scout(b)}

\* Leader l takes the ballot above value v and spawns its scout.  The bound
\* MaxBallot stops the leader instead of letting its ballot grow.
NewBallot(l, v) ==
  LET b == BallotNumber(v + 1, l)
  IN  /\ v + 1 <= MaxBallot
      /\ ballotNum' = [ballotNum EXCEPT ![l] = b]
      /\ scouts' = scouts \cup {new_scout(b)}

\* {:PREEMPTED, b} in the modes :no_liveness and :partial_liveness: ignored
\* unless b is above the leader's own ballot.
LeaderPreempted(m) ==
  LET l == m.to
  IN  /\ m.type = "PREEMPTED"
      /\ \/ /\ less_or_equal(m.ballot_num, ballotNum[l])
            /\ msgs' = msgs \ {m}
            /\ UNCHANGED <<ballotNum, active, scouts>>
         \/ /\ ~less_or_equal(m.ballot_num, ballotNum[l])
            /\ NewBallot(l, m.ballot_num.value)
            /\ active' = [active EXCEPT ![l] = FALSE]
            /\ msgs' = (msgs \ {m})
                         \cup P1as(BallotNumber(m.ballot_num.value + 1, l))
      /\ UNCHANGED <<acceptorVars, proposals, commanders, replicaVars>>
-----------------------------------------------------------------------------
(***************************************************************************)
(* Replicas, seen from the leaders.                                        *)
(***************************************************************************)

\* A replica sends PROPOSE for one of its requests to all leaders.  A second
\* replica may propose the same pair: leaders ignore a repeated proposal, so
\* one sending stands for all of them.
ReplicaPropose(s, c) ==
  /\ <<s, c>> \notin proposed
  /\ proposed' = proposed \cup {<<s, c>>}
  /\ msgs' = msgs \cup {[type |-> "PROPOSE", to |-> l, slot |-> s,
                         command |-> c] : l \in Leaders}
  /\ UNCHANGED <<acceptorVars, leaderVars, scouts, commanders, decisions>>

\* {:DECISION, s, c}.
ReplicaDecision(m) ==
  /\ m.type = "DECISION"
  /\ decisions' = [decisions EXCEPT ![m.to] = @ \cup {<<m.slot, m.command>>}]
  /\ msgs' = msgs \ {m}
  /\ UNCHANGED <<acceptorVars, leaderVars, scouts, commanders, proposed>>
-----------------------------------------------------------------------------
\* Leader.start: every leader spawns the scout of its first ballot.
Init ==
  /\ accBallot = [a \in Acceptors |-> bottom]
  /\ accepted = [a \in Acceptors |-> {}]
  /\ ballotNum = [l \in Leaders |-> BallotNumber(0, l)]
  /\ active = [l \in Leaders |-> FALSE]
  /\ proposals = [l \in Leaders |-> {}]
  /\ scouts = {new_scout(BallotNumber(0, l)) : l \in Leaders}
  /\ commanders = {}
  /\ msgs = UNION {P1as(BallotNumber(0, l)) : l \in Leaders}
  /\ proposed = {}
  /\ decisions = [r \in Replicas |-> {}]

\* The steps shared by all the operation modes.
CommonNext ==
  \/ \E m \in msgs : \/ AcceptorP1a(m)
                     \/ AcceptorP2a(m)
                     \/ ScoutP1b(m)
                     \/ CommanderP2b(m)
                     \/ LeaderPropose(m)
                     \/ LeaderAdopted(m)
                     \/ ReplicaDecision(m)
  \/ \E s \in Slots, c \in Commands : ReplicaPropose(s, c)

Next == CommonNext \/ \E m \in msgs : LeaderPreempted(m)

Spec == Init /\ [][Next]_vars
-----------------------------------------------------------------------------
(***************************************************************************)
(* What the protocol promises.                                             *)
(***************************************************************************)

\* A set of acceptors whose answers a scout or a commander takes as a majority.
Quorums == {Q \in SUBSET Acceptors : majority_responded(Acceptors \ Q)}

\* A quorum of acceptors has accepted pv.
ChosenPValue(pv) == \E Q \in Quorums : \A a \in Q : pv \in accepted[a]

\* The decisions sent to or received by replicas.
Decided ==
  (UNION {decisions[r] : r \in Replicas}) \cup
    {<<m.slot, m.command>> : m \in {m \in msgs : m.type = "DECISION"}}

\* Agreement (replica.ex:121, "Error: Multiple decisions for slot"): no two
\* decisions, whoever sent or received them, give one slot two commands.
Agreement == \A d, e \in Decided : d[1] = e[1] => d[2] = e[2]

\* Validity: only a command that a replica proposed for a slot is decided in it.
Validity == Decided \subseteq proposed

\* Every decision was accepted by a quorum under one and the same ballot, even
\* though the commander that announced it counted answers one by one.
DecisionsChosen ==
  \A d \in Decided : \E b \in Ballots : ChosenPValue(PValue(b, d[1], d[2]))

\* The pvalues that some commander was spawned for, as far as they can still be
\* or already are accepted.
InUse ==
  {k.id.pvalue : k \in commanders}
    \cup {m.commander.pvalue : m \in {m \in msgs : m.type = "p2a"}}
    \cup UNION {accepted[a] : a \in Acceptors}

\* Under one ballot a leader asks acceptors to accept at most one command per
\* slot, across the two handlers that spawn commanders.
OneCommandPerBallot ==
  \A p, q \in InUse :
    p.ballot_num = q.ballot_num /\ p.slot_num = q.slot_num
      => p.command = q.command

\* An active leader's ballot was adopted by a quorum, and what a quorum
\* accepted below it is among its proposals: no PROPOSE it receives while active
\* can compete with a command that is already chosen.
ActiveLeaderIsSafe ==
  \A l \in Leaders : active[l] =>
    /\ \E Q \in Quorums : \A a \in Q : less_or_equal(ballotNum[l], accBallot[a])
    /\ \A pv \in UNION {accepted[a] : a \in Acceptors} :
         ChosenPValue(pv) /\ less_or_equal(pv.ballot_num, ballotNum[l])
           => <<pv.slot_num, pv.command>> \in proposals[l]

\* Every request that was proposed is decided in the end: when nothing is left
\* to do, no replica still waits for a slot it proposed for.
NoSlotForgotten ==
  msgs = {} /\ scouts = {} /\ commanders = {} =>
    \A p \in proposed, r \in Replicas : \E d \in decisions[r] : d[1] = p[1]
-----------------------------------------------------------------------------
(***************************************************************************)
(* The inductive invariant from which Agreement follows.                   *)
(***************************************************************************)
less_than(b1, b2) == ~less_or_equal(b2, b1)

\* Leader b.leader has reached ballot b.
Reached(b) == b.value <= ballotNum[b.leader].value

\* A majority can still not be, or become, an obstacle to <<s, c>> at ballot b:
\* below b, some quorum has in every ballot accepted c or will accept nothing.
SafeAt(b, s, c) ==
  \A b1 \in Ballots : less_than(b1, b) =>
    \E Q \in Quorums : \A a \in Q :
      \/ PValue(b1, s, c) \in accepted[a]
      \/ /\ less_than(b1, accBallot[a])
         /\ \A c1 \in Commands : PValue(b1, s, c1) \notin accepted[a]

\* Acceptor a has adopted b, and all it accepted below b is in pvalues.
Reported(a, b, pvalues) ==
  /\ less_or_equal(b, accBallot[a])
  /\ \A pv \in accepted[a] : less_than(pv.ballot_num, b) => pv \in pvalues

\* What a scout of ballot b may have collected.
Collected(b, pvalues) ==
  /\ pvalues \subseteq UNION {accepted[a] : a \in Acceptors}
  /\ \A pv \in pvalues : less_or_equal(pv.ballot_num, b)

AcceptorInv ==
  \A a \in Acceptors : \A pv \in accepted[a] :
    less_or_equal(pv.ballot_num, accBallot[a])

P1bInv ==
  \A m \in msgs : m.type = "p1b" /\ equal(m.ballot_num, m.scout) =>
    Reported(m.from, m.scout, m.accepted) /\ Collected(m.scout, m.accepted)

P2bInv ==
  \A m \in msgs :
    m.type = "p2b" /\ equal(m.ballot_num, m.commander.pvalue.ballot_num) =>
      m.commander.pvalue \in accepted[m.from]

ScoutInv ==
  \A sc \in scouts :
    /\ \A a \in Acceptors \ sc.waitfor :
         Reported(a, sc.ballot_num, sc.pvalues)
    /\ Collected(sc.ballot_num, sc.pvalues)

AdoptedInv ==
  \A m \in msgs : m.type = "ADOPTED" =>
    /\ \E Q \in Quorums : \A a \in Q : Reported(a, m.ballot_num, m.pvalues)
    /\ Collected(m.ballot_num, m.pvalues)
    /\ m.to = m.ballot_num.leader

CommanderInv ==
  \A k \in commanders : \A a \in Acceptors \ k.waitfor :
    k.id.pvalue \in accepted[a]

\* A leader owns its ballots, and nobody is ahead of it with one of them.
BallotInv ==
  /\ \A l \in Leaders : ballotNum[l].leader = l
  /\ \A sc \in scouts : Reached(sc.ballot_num)
  /\ \A m \in msgs : m.type = "ADOPTED" => Reached(m.ballot_num)
  /\ \A pv \in InUse : Reached(pv.ballot_num)

\* Phase 1 of a ballot: a scout runs or its result is on the way.
InPhase1(b) ==
  \/ \E sc \in scouts : sc.ballot_num = b
  \/ \E m \in msgs : m.type = "ADOPTED" /\ m.ballot_num = b

\* Phase 1 runs once per ballot, and phase 2 only after it.
PhaseInv ==
  /\ \A s1, s2 \in scouts : s1.ballot_num = s2.ballot_num => s1 = s2
  /\ \A m1, m2 \in msgs :
       m1.type = "ADOPTED" /\ m2.type = "ADOPTED"
         /\ m1.ballot_num = m2.ballot_num => m1 = m2
  /\ \A sc \in scouts, m \in msgs :
       m.type = "ADOPTED" => sc.ballot_num # m.ballot_num
  /\ \A l \in Leaders : active[l] => ~InPhase1(ballotNum[l])
  /\ \A pv \in InUse : ~InPhase1(pv.ballot_num)

\* A leader has one proposal per slot, it is the one its commanders carry, and
\* an active leader may propose anything in the slots it has none for.
ProposalInv ==
  /\ \A l \in Leaders : \A p, q \in proposals[l] : p[1] = q[1] => p = q
  /\ \A pv \in InUse : \A l \in Leaders :
       pv.ballot_num = ballotNum[l]
         => <<pv.slot_num, pv.command>> \in proposals[l]
  /\ \A l \in Leaders : active[l] =>
       \A s \in Slots, c \in Commands :
         exists_proposal_for(l, s) \/ SafeAt(ballotNum[l], s, c)

SafetyInv ==
  /\ OneCommandPerBallot
  /\ \A pv \in InUse : SafeAt(pv.ballot_num, pv.slot_num, pv.command)

\* Everything that is proposed to acceptors, or decided, was proposed.
ValidityInv ==
  /\ \A m \in msgs : m.type = "PROPOSE" => <<m.slot, m.command>> \in proposed
  /\ \A l \in Leaders : proposals[l] \subseteq proposed
  /\ \A pv \in InUse : <<pv.slot_num, pv.command>> \in proposed

\* The inductive invariant: what the messages and processes of the core say about
\* each other at any moment (acceptor.ex, scout.ex, commander.ex, leader.ex).
Inv ==
  /\ TypeOK
  /\ AcceptorInv /\ P1bInv /\ P2bInv /\ ScoutInv /\ AdoptedInv /\ CommanderInv
  /\ BallotInv /\ PhaseInv /\ ProposalInv /\ SafetyInv
  /\ ValidityInv /\ DecisionsChosen
-----------------------------------------------------------------------------
(***************************************************************************)
(* Refinement: a command enters the log when the last acceptor of some     *)
(* quorum accepts it, before any process knows.                            *)
(***************************************************************************)
Chosen == {p \in Proposals :
             \E b \in Ballots : ChosenPValue(PValue(b, p[1], p[2]))}

Log == INSTANCE ReplicatedLog WITH chosen <- Chosen, learned <- decisions

\* Synod implements the log (leader.ex, scout.ex, commander.ex, acceptor.ex
\* together): what is chosen is never replaced, whatever ballots compete.
ImplementsLog == Log!LogSpec
=============================================================================
