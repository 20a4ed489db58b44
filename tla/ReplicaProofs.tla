---------------------------- MODULE ReplicaProofs ----------------------------
(***************************************************************************)
(* Type correctness and safety of Replica, its refinement of StateMachine, *)
(* and, in the last part, the databases and the monitor of Database: for   *)
(* any number of servers, clients, requests and accounts, any window and   *)
(* any bound on the slots.                                                 *)
(***************************************************************************)
EXTENDS Database, FiniteSetTheorems, WellFoundedInduction, TLAPS

\* The log has one command per slot, and replicas know only what is in it.
LogInv ==
  /\ \A d, e \in chosen : d[1] = e[1] => d = e
  /\ \A r \in Replicas : decisions[r] \subseteq chosen

\* All slots below slot_out are decided, and the commands decided in them are
\* exactly the performed ones.
PerformInv ==
  \A r \in Replicas :
    /\ \A s \in Slots : s < slot_out[r] => \E d \in decisions[r] : d[1] = s
    /\ \A d \in decisions[r] : d[1] < slot_out[r] => Performed(r, d[2])
    /\ \A i \in 1..Len(executed[r]) :
         \E d \in decisions[r] : d[1] < slot_out[r] /\ d[2] = executed[r][i]

\* The proposals of a replica are for different slots between slot_out and
\* slot_in.
OwnProposalsInv ==
  \A r \in Replicas :
    /\ \A p \in proposals[r] : slot_out[r] <= p[1] /\ p[1] < slot_in[r]
    /\ \A p, q \in proposals[r] : p[1] = q[1] => p = q

IInv ==
  /\ TypeOK /\ LogInv /\ PerformInv /\ OwnProposalsInv
  /\ PerformedOnce /\ NoReplicaExits

USE NumServersAssumption, QuorumAssumption, WindowSizeAssumption,
    BoundsAssumption
-----------------------------------------------------------------------------
LEMMA TypeInit == Init => TypeOK
<1> SUFFICES ASSUME Init PROVE TypeOK
  OBVIOUS
<1> QED
  BY DEF Init, TypeOK, Log!LogInit, Replicas, Slots

LEMMA TypeStep == TypeOK /\ [Next]_vars => TypeOK'
<1> SUFFICES ASSUME TypeOK, [Next]_vars PROVE TypeOK'
  OBVIOUS
<1> USE DEF TypeOK
<1>1. ASSUME NEW k \in Clients, NEW move \in Moves, ClientRequest(k, move)
      PROVE  TypeOK'
  <2>1. [client |-> k, cid |-> seqnum[k] + 1, op |-> move] \in Commands
    BY <1>1 DEF ClientRequest, Commands
  <2> QED
    BY <1>1, <2>1 DEF ClientRequest, receive_replies, replicaVars, loopVars
<1>2. ASSUME NEW s \in Slots, NEW c \in Commands, Decide(s, c)
      PROVE  TypeOK'
  BY <1>2 DEF Decide, Log!LogChoose, clientVars, loopVars
<1>3. ASSUME NEW r \in Replicas, NEW c \in Commands, ReplicaRequest(r, c)
      PROVE  TypeOK'
  BY <1>3 DEF ReplicaRequest
<1>4. ASSUME NEW r \in Replicas, NEW s \in Slots, NEW c \in Commands,
             ReplicaDecision(r, s, c)
      PROVE  TypeOK'
  BY <1>4 DEF ReplicaDecision, Log!LogLearn, clientVars, loopVars
<1>5. ASSUME NEW r \in Replicas, NEW c \in Commands, ReplicaPerform(r, c)
      PROVE  TypeOK'
  <2>1. slot_out[r] \in Slots
    BY <1>5 DEF ReplicaPerform
  <2>2. requests_to_repeat(r, c) \subseteq Commands
    BY <1>5 DEF requests_to_repeat, get_proposals_for_slot
  <2>3. c.client \in Clients
    BY DEF Commands
  <2>4. /\ pc' \in [Replicas -> {"next", "pending", "propose", "exited"}]
        /\ slot_out' \in [Replicas -> 1 .. MaxSlot + 1]
        /\ slot_in' \in [Replicas -> Nat \ {0}]
        /\ \A q \in Replicas : slot_in'[q] <= slot_out'[q] + WindowSize
    BY <1>5, <2>1 DEF ReplicaPerform, Slots
  <2>5. replies' \in [Clients -> SUBSET
          [type : {"CLIENT_RESPONSE"}, from : Replicas, command : Commands]]
    BY <1>5, <2>3 DEF ReplicaPerform, Reply
  <2>6. executed' \in [Replicas -> Seq(Commands)]
    BY <1>5 DEF ReplicaPerform
  <2> QED
    BY <1>5, <2>2, <2>4, <2>5, <2>6 DEF ReplicaPerform
<1>6. ASSUME NEW r \in Replicas, ReplicaCaughtUp(r) PROVE TypeOK'
  BY <1>6 DEF ReplicaCaughtUp, clientVars, loopVars
<1>7. ASSUME NEW r \in Replicas, ReplicaWait(r) PROVE TypeOK'
  BY <1>7 DEF ReplicaWait, clientVars, loopVars
<1>8. ASSUME NEW r \in Replicas, ReplicaSkipSlot(r) PROVE TypeOK'
  BY <1>8 DEF ReplicaSkipSlot, increment_slot_in,
              outside_current_config_window, clientVars
<1>9. ASSUME NEW r \in Replicas, NEW c \in Commands, ReplicaPropose(r, c)
      PROVE  TypeOK'
  <2>1. <<slot_in[r], c>> \in Slots \X Commands
    BY <1>9 DEF ReplicaPropose, Slots
  <2> QED
    BY <1>9, <2>1 DEF ReplicaPropose, increment_slot_in, Log!LogPropose,
                      outside_current_config_window, clientVars
<1>10. CASE UNCHANGED vars
  BY <1>10 DEF vars, clientVars, replicaVars, loopVars
<1> QED
  BY <1>1, <1>2, <1>3, <1>4, <1>5, <1>6, <1>7, <1>8, <1>9, <1>10
     DEF Next, ReplicaLoop

\* The state and the mailboxes of clients and replicas are well typed, and no
\* replica proposes beyond its window (replica.ex:108-110).
THEOREM ReplicaTypeCorrect == Spec => []TypeOK
<1> QED
  BY TypeInit, TypeStep, PTL DEF Spec
-----------------------------------------------------------------------------
LEMMA InvInit == Init => IInv
<1> SUFFICES ASSUME Init PROVE IInv
  OBVIOUS
<1>1. TypeOK
  BY TypeInit
<1> QED
  BY <1>1 DEF Init, IInv, Log!LogInit, LogInv, PerformInv, OwnProposalsInv,
              PerformedOnce, NoReplicaExits, Slots

\* The log is written by the leaders only, one command per slot.
LEMMA LogStep == TypeOK /\ LogInv /\ [Next]_vars => LogInv'
<1> SUFFICES ASSUME TypeOK, LogInv, [Next]_vars PROVE LogInv'
  OBVIOUS
<1> USE DEF LogInv
<1>1. ASSUME NEW s \in Slots, NEW c \in Commands, Decide(s, c)
      PROVE  LogInv'
  BY <1>1 DEF Decide, Log!LogChoose
<1>2. ASSUME NEW r \in Replicas, NEW s \in Slots, NEW c \in Commands,
             ReplicaDecision(r, s, c)
      PROVE  LogInv'
  BY <1>2 DEF ReplicaDecision, Log!LogLearn, TypeOK
<1>3. CASE UNCHANGED <<chosen, decisions>>
  BY <1>3
<1> QED
  BY <1>1, <1>2, <1>3 DEF Next, ReplicaLoop, ClientRequest, ReplicaRequest,
       ReplicaPerform, ReplicaCaughtUp, ReplicaWait, ReplicaSkipSlot,
       ReplicaPropose, Log!LogPropose, vars, replicaVars

\* With one command per slot, a slot that a replica knows to be decided counts
\* as decided in slot_in_already_decided?.
LEMMA DecidedOnce ==
  ASSUME TypeOK, LogInv, NEW r \in Replicas,
         NEW d \in decisions[r], d[1] = slot_in[r]
  PROVE  slot_in_already_decided(r)
<1>1. {e \in decisions[r] : e[1] = slot_in[r]} = {d}
  BY DEF LogInv
<1> QED
  BY <1>1, FS_Singleton DEF slot_in_already_decided

\* A replica has at most one proposal for the slot it performs, so that it
\* never gives up.
LEMMA OwnProposal ==
  ASSUME TypeOK, OwnProposalsInv, NEW r \in Replicas
  PROVE  ~(Cardinality(get_proposals_for_slot(r, slot_out[r])) > 1)
<1> DEFINE own == get_proposals_for_slot(r, slot_out[r])
<1>1. CASE own = {}
  BY <1>1, FS_EmptySet
<1>2. CASE own # {}
  <2>1. PICK p \in own : TRUE
    BY <1>2
  <2>2. own = {p}
    BY <2>1 DEF OwnProposalsInv, get_proposals_for_slot
  <2> QED
    BY <2>2, FS_Singleton
<1> QED
  BY <1>1, <1>2

\* What ReplicaPerform does to what replica r has performed.
LEMMA PerformEffect ==
  ASSUME TypeOK, OwnProposalsInv, PerformInv,
         NEW r \in Replicas, NEW c \in Commands, ReplicaPerform(r, c)
  PROVE  /\ slot_out[r] \in Slots /\ <<slot_out[r], c>> \in decisions[r]
         /\ slot_out' = [slot_out EXCEPT ![r] = slot_out[r] + 1]
         /\ pc' = pc /\ decisions' = decisions
         /\ \/ /\ ~Performed(r, c)
               /\ executed' = [executed EXCEPT ![r] = Append(executed[r], c)]
            \/ Performed(r, c) /\ executed' = executed
<1>1. ~(Cardinality(get_proposals_for_slot(r, slot_out[r])) > 1)
  BY OwnProposal
<1>2. /\ slot_out[r] \in Slots /\ <<slot_out[r], c>> \in decisions[r]
      /\ slot_out' = [slot_out EXCEPT ![r] = slot_out[r] + 1]
      /\ decisions' = decisions
  BY DEF ReplicaPerform, TypeOK
<1>3. pc' = pc
  BY <1>1 DEF ReplicaPerform, TypeOK
<1>4. already_processed(r, c) <=> Performed(r, c)
  <2>1. ASSUME already_processed(r, c) PROVE Performed(r, c)
    <3>1. PICK s \in Slots : s < slot_out[r] /\ <<s, c>> \in decisions[r]
      BY <2>1 DEF already_processed
    <3> QED
      BY <3>1 DEF PerformInv
  <2>2. ASSUME Performed(r, c) PROVE already_processed(r, c)
    <3>1. PICK i \in 1..Len(executed[r]) : executed[r][i] = c
      BY <2>2 DEF Performed
    <3>2. PICK d \in decisions[r] : d[1] < slot_out[r] /\ d[2] = c
      BY <3>1 DEF PerformInv
    <3>3. d[1] \in Slots /\ d = <<d[1], c>>
      BY <3>2 DEF TypeOK
    <3> QED
      BY <3>2, <3>3 DEF already_processed
  <2> QED
    BY <2>1, <2>2
<1>5. \/ /\ ~Performed(r, c)
         /\ executed' = [executed EXCEPT ![r] = Append(executed[r], c)]
      \/ Performed(r, c) /\ executed' = executed
  BY <1>1, <1>4 DEF ReplicaPerform, TypeOK
<1> QED
  BY <1>2, <1>3, <1>5

\* Appending a new element to a sequence.
Distinct(e) == \A i, j \in 1..Len(e) : e[i] = e[j] => i = j

LEMMA AppendEntries ==
  ASSUME NEW S, NEW e \in Seq(S), NEW c \in S, NEW i \in 1..Len(Append(e, c))
  PROVE  \/ i \in 1..Len(e) /\ Append(e, c)[i] = e[i]
         \/ i = Len(e) + 1 /\ Append(e, c)[i] = c
OBVIOUS

LEMMA AppendFresh ==
  ASSUME NEW S, NEW e \in Seq(S), NEW c \in S, Distinct(e),
         ~ \E i \in 1..Len(e) : e[i] = c
  PROVE  Distinct(Append(e, c))
<1> SUFFICES ASSUME NEW i \in 1..Len(Append(e, c)),
                    NEW j \in 1..Len(Append(e, c)),
                    Append(e, c)[i] = Append(e, c)[j]
             PROVE  i = j
  BY DEF Distinct
<1>1. \/ i \in 1..Len(e) /\ Append(e, c)[i] = e[i]
      \/ i = Len(e) + 1 /\ Append(e, c)[i] = c
  BY AppendEntries
<1>2. \/ j \in 1..Len(e) /\ Append(e, c)[j] = e[j]
      \/ j = Len(e) + 1 /\ Append(e, c)[j] = c
  BY AppendEntries
<1> QED
  BY <1>1, <1>2 DEF Distinct

\* Performed commands stay performed.
LEMMA PerformedGrows ==
  ASSUME TypeOK, NEW r \in Replicas, NEW q \in Replicas, NEW c \in Commands,
         NEW e, Performed(q, e),
         executed' = [executed EXCEPT ![r] = Append(executed[r], c)]
  PROVE  Performed(q, e)'
<1>1. executed[q] \in Seq(Commands)
  BY DEF TypeOK
<1> QED
  BY <1>1 DEF Performed, TypeOK

\* A replica has performed the command of the slot it passes, and what it had
\* performed before.
LEMMA PerformKeeps ==
  ASSUME TypeOK, OwnProposalsInv, PerformInv,
         NEW r \in Replicas, NEW c \in Commands, ReplicaPerform(r, c),
         NEW q \in Replicas, NEW e
  PROVE  Performed(r, c)' /\ (Performed(q, e) => Performed(q, e)')
<1>1. CASE executed' = [executed EXCEPT ![r] = Append(executed[r], c)]
  <2>1. executed'[r] = Append(executed[r], c) /\ executed[r] \in Seq(Commands)
    BY <1>1 DEF TypeOK
  <2>2. /\ Len(executed[r]) + 1 \in 1..Len(executed'[r])
        /\ executed'[r][Len(executed[r]) + 1] = c
    BY <2>1
  <2>3. Performed(r, c)'
    BY <2>2 DEF Performed
  <2> QED
    BY <1>1, <2>3, PerformedGrows
<1>2. CASE Performed(r, c) /\ executed' = executed
  BY <1>2 DEF Performed
<1> QED
  BY <1>1, <1>2, PerformEffect
-----------------------------------------------------------------------------
\* A repeated decision for a performed slot brings the same command again, and a
\* performed command is not performed once more.
LEMMA PerformStep ==
  TypeOK /\ LogInv /\ PerformInv /\ OwnProposalsInv /\ PerformedOnce
      /\ [Next]_vars
    => PerformInv' /\ PerformedOnce'
<1> SUFFICES ASSUME TypeOK, LogInv, PerformInv, OwnProposalsInv, PerformedOnce,
                    [Next]_vars
             PROVE  PerformInv' /\ PerformedOnce'
  OBVIOUS
<1>1. ASSUME NEW r \in Replicas, NEW s \in Slots, NEW c \in Commands,
             ReplicaDecision(r, s, c)
      PROVE  PerformInv' /\ PerformedOnce'
  <2>1. /\ slot_out' = slot_out /\ executed' = executed
        /\ decisions' = [decisions EXCEPT ![r] = @ \cup {<<s, c>>}]
        /\ <<s, c>> \in chosen
    BY <1>1 DEF ReplicaDecision, Log!LogLearn, loopVars
  <2>2. s < slot_out[r] => Performed(r, c)
    <3> SUFFICES ASSUME s < slot_out[r] PROVE Performed(r, c)
      OBVIOUS
    <3>1. PICK d \in decisions[r] : d[1] = s
      BY DEF PerformInv
    <3>2. d = <<s, c>>
      BY <2>1, <3>1 DEF LogInv
    <3> QED
      BY <3>1, <3>2 DEF PerformInv
  <2>3. PerformInv'
    <3> SUFFICES ASSUME NEW q \in Replicas
                 PROVE
          /\ \A t \in Slots : t < slot_out[q] => \E d \in decisions'[q] : d[1] = t
          /\ \A d \in decisions'[q] : d[1] < slot_out[q] => Performed(q, d[2])
          /\ \A i \in 1..Len(executed[q]) :
               \E d \in decisions'[q] :
                 d[1] < slot_out[q] /\ d[2] = executed[q][i]
      BY <2>1 DEF PerformInv, Performed
    <3>1. decisions[q] \subseteq decisions'[q]
      BY <2>1 DEF TypeOK
    <3>2. \A d \in decisions'[q] : d \in decisions[q] \/ (q = r /\ d = <<s, c>>)
      BY <2>1 DEF TypeOK
    <3> QED
      BY <2>2, <3>1, <3>2 DEF PerformInv
  <2> QED
    BY <2>1, <2>3 DEF PerformedOnce
<1>2. ASSUME NEW r \in Replicas, NEW c \in Commands, ReplicaPerform(r, c)
      PROVE  PerformInv' /\ PerformedOnce'
  <2>1. /\ slot_out[r] \in Slots /\ <<slot_out[r], c>> \in decisions[r]
        /\ slot_out' = [slot_out EXCEPT ![r] = slot_out[r] + 1]
        /\ decisions' = decisions
    BY <1>2, PerformEffect
  <2>2. \/ /\ ~Performed(r, c)
           /\ executed' = [executed EXCEPT ![r] = Append(executed[r], c)]
        \/ Performed(r, c) /\ executed' = executed
    BY <1>2, PerformEffect
  <2>3. Performed(r, c)'
    BY <1>2, PerformKeeps
  <2>4. ASSUME NEW q \in Replicas, NEW e, Performed(q, e)
        PROVE  Performed(q, e)'
    BY <1>2, <2>4, PerformKeeps
  <2>5. ASSUME NEW q \in Replicas, NEW i \in 1..Len(executed'[q])
        PROVE  \/ i \in 1..Len(executed[q]) /\ executed'[q][i] = executed[q][i]
               \/ q = r /\ executed'[q][i] = c
    <3>1. CASE executed'[q] = executed[q]
      BY <3>1
    <3>2. CASE q = r /\ executed'[q] = Append(executed[r], c)
      BY <3>2, AppendEntries DEF TypeOK
    <3>3. executed'[q] = executed[q]
            \/ (q = r /\ executed'[q] = Append(executed[r], c))
      BY <2>2 DEF TypeOK
    <3> QED
      BY <3>1, <3>2, <3>3
  <2>6. PerformInv'
    <3> SUFFICES ASSUME NEW q \in Replicas
                 PROVE
          /\ \A t \in Slots : t < slot_out'[q] => \E d \in decisions[q] : d[1] = t
          /\ \A d \in decisions[q] : d[1] < slot_out'[q] => Performed(q, d[2])'
          /\ \A i \in 1..Len(executed'[q]) :
               \E d \in decisions[q] :
                 d[1] < slot_out'[q] /\ d[2] = executed'[q][i]
      BY <2>1 DEF PerformInv, Performed
    <3>1. /\ slot_out[q] \in Nat /\ slot_out'[q] \in Nat
          /\ slot_out[q] <= slot_out'[q]
          /\ slot_out'[q] = IF q = r THEN slot_out[q] + 1 ELSE slot_out[q]
      BY <2>1 DEF TypeOK
    <3>2. \A d \in decisions[q] : d[1] \in Nat /\ d = <<d[1], d[2]>>
      BY DEF TypeOK, Slots
    <3>3. ASSUME NEW t \in Slots, t < slot_out'[q]
          PROVE  \E d \in decisions[q] : d[1] = t
      <4>1. t \in Nat
        BY DEF Slots
      <4>2. CASE t < slot_out[q]
        BY <4>2 DEF PerformInv
      <4>3. CASE q = r /\ t = slot_out[r]
        BY <2>1, <4>3
      <4> QED
        BY <3>1, <3>3, <4>1, <4>2, <4>3
    <3>4. ASSUME NEW d \in decisions[q], d[1] < slot_out'[q]
          PROVE  Performed(q, d[2])'
      <4>1. CASE d[1] < slot_out[q]
        <5>1. Performed(q, d[2])
          BY <4>1 DEF PerformInv
        <5> QED
          BY <5>1, <2>4
      <4>2. CASE q = r /\ d[1] = slot_out[r]
        <5>1. d = <<slot_out[r], c>>
          BY <2>1, <4>2 DEF LogInv
        <5>2. d[2] = c
          BY <5>1
        <5> QED
          BY <2>3, <4>2, <5>2
      <4> QED
        BY <3>1, <3>2, <3>4, <4>1, <4>2
    <3>5. ASSUME NEW i \in 1..Len(executed'[q])
          PROVE  \E d \in decisions[q] :
                   d[1] < slot_out'[q] /\ d[2] = executed'[q][i]
      <4>1. CASE i \in 1..Len(executed[q]) /\ executed'[q][i] = executed[q][i]
        <5>1. PICK d \in decisions[q] :
                d[1] < slot_out[q] /\ d[2] = executed[q][i]
          BY <4>1 DEF PerformInv
        <5> QED
          BY <3>1, <3>2, <4>1, <5>1
      <4>2. CASE q = r /\ executed'[q][i] = c
        BY <2>1, <3>1, <4>2
      <4> QED
        BY <2>5, <4>1, <4>2
    <3> QED
      BY <3>3, <3>4, <3>5
  <2>7. PerformedOnce'
    <3> SUFFICES ASSUME NEW q \in Replicas
                 PROVE  Distinct(executed'[q])
      BY DEF PerformedOnce, Distinct
    <3>1. Distinct(executed[q])
      BY DEF PerformedOnce, Distinct
    <3>2. CASE executed'[q] = executed[q]
      BY <3>1, <3>2
    <3>3. CASE q = r /\ ~Performed(r, c) /\ executed'[q] = Append(executed[r], c)
      <4>1. executed[q] \in Seq(Commands)
        BY DEF TypeOK
      <4>2. ~ \E i \in 1..Len(executed[q]) : executed[q][i] = c
        BY <3>3 DEF Performed
      <4>3. Distinct(Append(executed[q], c))
        BY <3>1, <4>1, <4>2, AppendFresh
      <4> QED
        BY <3>3, <4>3
    <3> QED
      BY <2>2, <3>2, <3>3 DEF TypeOK
  <2> QED
    BY <2>6, <2>7
<1>3. CASE UNCHANGED <<slot_out, decisions, executed>>
  <2>1. slot_out' = slot_out /\ decisions' = decisions /\ executed' = executed
    BY <1>3
  <2>2. PerformInv'
    BY <2>1 DEF PerformInv, Performed
  <2>3. PerformedOnce'
    BY <2>1 DEF PerformedOnce
  <2> QED
    BY <2>2, <2>3
<1> QED
  BY <1>1, <1>2, <1>3 DEF Next, ReplicaLoop, ClientRequest, ReplicaRequest,
       Decide, Log!LogChoose, ReplicaCaughtUp, ReplicaWait, ReplicaSkipSlot,
       ReplicaPropose, Log!LogPropose, vars, replicaVars, loopVars
-----------------------------------------------------------------------------
\* A replica that proposes for a slot has not performed it: slot_in may lag
\* behind slot_out, but then propose passes over the slot.
LEMMA ProposeAhead ==
  ASSUME TypeOK, LogInv, PerformInv, NEW r \in Replicas, NEW c \in Commands,
         ReplicaPropose(r, c)
  PROVE  slot_out[r] <= slot_in[r]
<1> SUFFICES ASSUME slot_in[r] < slot_out[r] PROVE FALSE
  BY DEF TypeOK
<1>1. slot_in[r] \in Slots
  BY DEF TypeOK, ReplicaPropose, Slots
<1>2. PICK d \in decisions[r] : d[1] = slot_in[r]
  BY <1>1 DEF PerformInv
<1> QED
  BY <1>2, DecidedOnce DEF ReplicaPropose

\* A replica has one proposal per slot, and none for a slot it has performed.
LEMMA OwnProposalsStep ==
  TypeOK /\ LogInv /\ PerformInv /\ OwnProposalsInv /\ [Next]_vars
    => OwnProposalsInv'
<1> SUFFICES ASSUME TypeOK, LogInv, PerformInv, OwnProposalsInv, [Next]_vars
             PROVE  OwnProposalsInv'
  OBVIOUS
<1>1. ASSUME NEW r \in Replicas, NEW c \in Commands, ReplicaPropose(r, c)
      PROVE  OwnProposalsInv'
  <2>1. /\ slot_out' = slot_out
        /\ slot_in' = [slot_in EXCEPT ![r] = slot_in[r] + 1]
        /\ proposals' =
             [proposals EXCEPT ![r] = proposals[r] \cup {<<slot_in[r], c>>}]
    BY <1>1 DEF ReplicaPropose, increment_slot_in
  <2>2. slot_out[r] <= slot_in[r]
    BY <1>1, ProposeAhead
  <2> SUFFICES ASSUME NEW q \in Replicas
               PROVE
        /\ \A p \in proposals'[q] : slot_out[q] <= p[1] /\ p[1] < slot_in'[q]
        /\ \A p, o \in proposals'[q] : p[1] = o[1] => p = o
    BY <2>1 DEF OwnProposalsInv
  <2>3. CASE q # r
    BY <2>1, <2>3 DEF OwnProposalsInv, TypeOK
  <2>4. CASE q = r
    <3>1. proposals'[q] = proposals[q] \cup {<<slot_in[q], c>>}
      BY <2>1, <2>4 DEF TypeOK
    <3>2. slot_in'[q] = slot_in[q] + 1
      BY <2>1, <2>4 DEF ReplicaPropose, TypeOK
    <3>3. slot_in[q] \in Nat /\ \A p \in proposals[q] : p[1] \in Nat
      BY DEF TypeOK, Slots
    <3> QED
      BY <2>2, <2>4, <3>1, <3>2, <3>3 DEF OwnProposalsInv
  <2> QED
    BY <2>3, <2>4
<1>2. ASSUME NEW r \in Replicas, ReplicaSkipSlot(r)
      PROVE  OwnProposalsInv'
  <2>1. /\ slot_out' = slot_out /\ proposals' = proposals
        /\ slot_in' = [slot_in EXCEPT ![r] = slot_in[r] + 1]
    BY <1>2 DEF ReplicaSkipSlot, increment_slot_in
  <2>2. \A q \in Replicas :
          /\ slot_in'[q] = slot_in[q] \/ slot_in'[q] = slot_in[q] + 1
          /\ slot_in[q] \in Nat
          /\ \A p \in proposals[q] : p[1] \in Nat
    BY <2>1 DEF TypeOK, Slots
  <2> QED
    BY <2>1, <2>2 DEF OwnProposalsInv
<1>3. ASSUME NEW r \in Replicas, NEW c \in Commands, ReplicaPerform(r, c)
      PROVE  OwnProposalsInv'
  <2>1. slot_in' = slot_in /\ slot_out' = [slot_out EXCEPT ![r] = slot_out[r] + 1]
    BY <1>3 DEF ReplicaPerform
  <2>2. proposals' = [proposals EXCEPT
                        ![r] = {p \in proposals[r] : p[1] # slot_out[r]}]
    BY <1>3 DEF ReplicaPerform, get_proposals_for_slot, TypeOK
  <2> SUFFICES ASSUME NEW q \in Replicas
               PROVE
        /\ \A p \in proposals'[q] : slot_out'[q] <= p[1] /\ p[1] < slot_in[q]
        /\ \A p, o \in proposals'[q] : p[1] = o[1] => p = o
    BY <2>1 DEF OwnProposalsInv
  <2>3. CASE q # r
    BY <2>1, <2>2, <2>3 DEF OwnProposalsInv, TypeOK
  <2>4. CASE q = r
    <3>1. /\ proposals'[q] = {p \in proposals[q] : p[1] # slot_out[q]}
          /\ slot_out'[q] = slot_out[q] + 1
      BY <2>1, <2>2, <2>4 DEF TypeOK
    <3>2. slot_out[q] \in Nat /\ \A p \in proposals[q] : p[1] \in Nat
      BY DEF TypeOK, Slots
    <3> QED
      BY <3>1, <3>2 DEF OwnProposalsInv
  <2> QED
    BY <2>3, <2>4
<1>4. CASE UNCHANGED loopVars
  BY <1>4 DEF OwnProposalsInv, loopVars
<1>5. CASE UNCHANGED <<slot_in, slot_out, proposals>>
  BY <1>5 DEF OwnProposalsInv
<1> QED
  BY <1>1, <1>2, <1>3, <1>4, <1>5 DEF Next, ReplicaLoop, ClientRequest,
       ReplicaRequest, Decide, ReplicaDecision, ReplicaCaughtUp, ReplicaWait,
       vars, replicaVars, loopVars

LEMMA ExitStep ==
  TypeOK /\ PerformInv /\ OwnProposalsInv /\ NoReplicaExits /\ [Next]_vars
    => NoReplicaExits'
<1> SUFFICES ASSUME TypeOK, PerformInv, OwnProposalsInv, NoReplicaExits,
                    [Next]_vars
             PROVE  NoReplicaExits'
  OBVIOUS
<1> USE DEF NoReplicaExits
<1>1. ASSUME NEW r \in Replicas, NEW c \in Commands, ReplicaPerform(r, c)
      PROVE  NoReplicaExits'
  BY <1>1, PerformEffect
<1>2. ASSUME NEW r \in Replicas, NEW f \in {"next", "pending", "propose"},
             pc' = [pc EXCEPT ![r] = f]
      PROVE  NoReplicaExits'
  BY <1>2 DEF TypeOK
<1>3. CASE UNCHANGED pc
  BY <1>3
<1> QED
  BY <1>1, <1>2, <1>3 DEF Next, ReplicaLoop, ClientRequest, ReplicaRequest,
       Decide, ReplicaDecision, ReplicaCaughtUp, ReplicaWait, ReplicaSkipSlot,
       ReplicaPropose, vars, replicaVars

LEMMA InvNext == IInv /\ [Next]_vars => IInv'
BY TypeStep, LogStep, PerformStep, OwnProposalsStep, ExitStep DEF IInv

LEMMA InvHolds == Spec => []IInv
<1> QED
  BY InvInit, InvNext, PTL DEF Spec

\* No replica performs a command twice (already_processed?, replica.ex:163).
THEOREM PerformedOnceHolds == Spec => []PerformedOnce
<1>1. IInv => PerformedOnce
  BY DEF IInv
<1> QED
  BY <1>1, InvHolds, PTL

\* No replica gives up: it never has two proposals of its own for one slot
\* (replica.ex:196-201).
THEOREM NoReplicaExitsHolds == Spec => []NoReplicaExits
<1>1. IInv => NoReplicaExits
  BY DEF IInv
<1> QED
  BY <1>1, InvHolds, PTL
-----------------------------------------------------------------------------
\* The requests a replica holds, one by one.
LEMMA HeldElements ==
  ASSUME NEW r \in Replicas, NEW c
  PROVE  c \in Held(r) <=>
           \/ c \in requestsTo[r] \/ c \in requests[r]
           \/ \E p \in proposals[r] : p[1] >= slot_out[r] /\ p[2] = c
           \/ Performed(r, c)
BY DEF Held, Performed

LEMMA HeldElementsNext ==
  ASSUME NEW r \in Replicas, NEW c
  PROVE  c \in Held(r)' <=>
           \/ c \in requestsTo'[r] \/ c \in requests'[r]
           \/ \E p \in proposals'[r] : p[1] >= slot_out'[r] /\ p[2] = c
           \/ Performed(r, c)'
BY DEF Held, Performed

LEMMA HeldStep ==
  IInv /\ [Next]_vars => \A r \in Replicas : Held(r) \subseteq Held(r)'
<1> SUFFICES ASSUME IInv, [Next]_vars, NEW q \in Replicas, NEW e \in Held(q)
             PROVE  e \in Held(q)'
  OBVIOUS
<1> USE DEF IInv
<1>1. \/ e \in requestsTo[q] \/ e \in requests[q]
      \/ \E p \in proposals[q] : p[1] >= slot_out[q] /\ p[2] = e
      \/ Performed(q, e)
  BY HeldElements
<1> DEFINE After == \/ e \in requestsTo'[q] \/ e \in requests'[q]
                    \/ \E p \in proposals'[q] : p[1] >= slot_out'[q] /\ p[2] = e
                    \/ Performed(q, e)'
<1> SUFFICES After
  BY HeldElementsNext
<1>2. ASSUME executed' = executed, Performed(q, e) PROVE Performed(q, e)'
  BY <1>2 DEF Performed
<1>3. ASSUME NEW k \in Clients, NEW move \in Moves, ClientRequest(k, move)
      PROVE  After
  BY <1>1, <1>2, <1>3 DEF ClientRequest, replicaVars, loopVars
<1>4. ASSUME NEW r \in Replicas, NEW c \in Commands, ReplicaRequest(r, c)
      PROVE  After
  BY <1>1, <1>2, <1>4 DEF ReplicaRequest, TypeOK
<1>5. ASSUME NEW r \in Replicas, NEW c \in Commands, ReplicaPropose(r, c)
      PROVE  After
  <2>1. /\ slot_out' = slot_out /\ requestsTo' = requestsTo
        /\ executed' = executed
        /\ requests' = [requests EXCEPT ![r] = requests[r] \ {c}]
        /\ proposals' =
             [proposals EXCEPT ![r] = proposals[r] \cup {<<slot_in[r], c>>}]
    BY <1>5 DEF ReplicaPropose, clientVars
  <2>2. slot_out[r] <= slot_in[r] /\ slot_out[r] \in Nat /\ slot_in[r] \in Nat
    BY <1>5, ProposeAhead DEF TypeOK
  <2>3. \/ e \in requests'[q]
        \/ e \notin requests[q]
        \/ q = r /\ e = c
    BY <2>1 DEF TypeOK
  <2>4. proposals[q] \subseteq proposals'[q]
    BY <2>1 DEF TypeOK
  <2>5. q = r => <<slot_in[r], c>> \in proposals'[q]
    BY <2>1 DEF TypeOK
  <2> QED
    BY <1>1, <1>2, <2>1, <2>2, <2>3, <2>4, <2>5
<1>6. ASSUME NEW r \in Replicas, NEW c \in Commands, ReplicaPerform(r, c)
      PROVE  After
  <2>1. /\ requestsTo' = requestsTo
        /\ requests' =
             [requests EXCEPT ![r] = requests[r] \cup requests_to_repeat(r, c)]
        /\ proposals' = [proposals EXCEPT
             ![r] = proposals[r] \ get_proposals_for_slot(r, slot_out[r])]
        /\ slot_out' = [slot_out EXCEPT ![r] = slot_out[r] + 1]
    BY <1>6 DEF ReplicaPerform
  <2>2. Performed(r, c)' /\ (Performed(q, e) => Performed(q, e)')
    BY <1>6, PerformKeeps
  <2>3. CASE e \in requestsTo[q] \/ e \in requests[q] \/ Performed(q, e)
    BY <2>1, <2>2, <2>3 DEF TypeOK
  <2>4. ASSUME NEW p \in proposals[q], p[1] >= slot_out[q], p[2] = e
        PROVE  After
    <3>1. CASE q # r
      BY <2>1, <2>4, <3>1 DEF TypeOK
    <3>2. CASE q = r /\ p[1] = slot_out[r]
      <4>1. e = c \/ e \in requests_to_repeat(r, c)
        BY <2>4, <3>2 DEF requests_to_repeat, get_proposals_for_slot
      <4> QED
        BY <2>1, <2>2, <3>2, <4>1 DEF TypeOK
    <3>3. CASE q = r /\ p[1] # slot_out[r]
      <4>1. p \in proposals'[q]
        BY <2>1, <3>3 DEF get_proposals_for_slot, TypeOK
      <4>2. p[1] \in Nat /\ slot_out[q] \in Nat /\ slot_out'[q] = slot_out[q] + 1
        BY <2>1, <3>3 DEF TypeOK, Slots
      <4> QED
        BY <2>4, <3>3, <4>1, <4>2
    <3> QED
      BY <3>1, <3>2, <3>3
  <2> QED
    BY <1>1, <2>3, <2>4
<1>7. CASE UNCHANGED <<requestsTo, requests, proposals, slot_out, executed>>
  BY <1>1, <1>2, <1>7
<1> QED
  BY <1>3, <1>4, <1>5, <1>6, <1>7 DEF Next, ReplicaLoop, Decide,
       ReplicaDecision, ReplicaCaughtUp, ReplicaWait, ReplicaSkipSlot, vars,
       clientVars, replicaVars, loopVars

\* No replica loses a request, not even one whose slot went to another command.
THEOREM NoRequestLostHolds == Spec => NoRequestLost
<1>1. IInv /\ [Next]_vars
        => [\A r \in Replicas : Held(r) \subseteq Held(r)']_vars
  BY HeldStep
<1> QED
  BY <1>1, InvHolds, PTL DEF Spec, NoRequestLost

-----------------------------------------------------------------------------
(***************************************************************************)
(* The history.  The definitions below are those of Replica with the log   *)
(* and the function as parameters, so that the lemmas apply to the log     *)
(* before a step and after it.                                             *)
(***************************************************************************)
EntryIn(L, s) == {e[2] : e \in {e \in L : e[1] = s}}

\* What slot s makes of the history of the slots below it.
Extended(L, s, before) ==
  IF \E t \in 1..s : EntryIn(L, t) = {} THEN before
  ELSE before \o SetToSeq(EntryIn(L, s) \ ToSet(before))

IsHistory(L, n, h) ==
  h = [s \in 0..n |-> IF s = 0 THEN <<>> ELSE Extended(L, s, h[s - 1])]

HistoryOf(L) == CHOOSE h : IsHistory(L, MaxSlot, h)

LEMMA HistoryIs == HistoryUpTo = HistoryOf(chosen)
BY DEF HistoryUpTo, HistoryOf, IsHistory, Extended, CommandIn, EntryIn

LEMMA HistoryIsNext == HistoryUpTo' = HistoryOf(chosen')
BY DEF HistoryUpTo, HistoryOf, IsHistory, Extended, CommandIn, EntryIn

\* A nonempty set of numbers has a least one.
LEMMA LeastNumber ==
  ASSUME NEW S \in SUBSET Nat, NEW e \in S
  PROVE  \E m \in S : \A k \in S : m <= k
<1> DEFINE R == OpToRel(<, Nat)
<1>1. IsWellFoundedOn(R, Nat)
  BY NatLessThanWellFounded
<1> HIDE DEF R
<1>2. \E m \in S : \A k \in S : ~(<<k, m>> \in R)
  BY <1>1, WFMin
<1>3. \A k, m \in Nat : <<k, m>> \in R <=> k < m
  BY DEF R, OpToRel
<1>4. PICK m \in S : \A k \in S : ~(<<k, m>> \in R)
  BY <1>2
<1>5. \A k \in S : ~(k < m) /\ k \in Nat /\ m \in Nat
  BY <1>3, <1>4
<1>6. \A k \in S : m <= k
  BY <1>5
<1> QED
  BY <1>6

\* The recursion defines a function.
LEMMA HistoryExists ==
  ASSUME NEW L, NEW n \in Nat
  PROVE  \E h : IsHistory(L, n, h)
<1> DEFINE S == {k \in Nat : \A h : ~IsHistory(L, k, h)}
<1> SUFFICES ASSUME n \in S PROVE FALSE
  OBVIOUS
<1>1. S \in SUBSET Nat
  OBVIOUS
<1>2. PICK m \in S : \A k \in S : m <= k
  BY <1>1, LeastNumber
<1>3. m \in Nat /\ \A h : ~IsHistory(L, m, h)
  OBVIOUS
<1> HIDE DEF S
<1>4. m # 0
  <2> DEFINE f == [s \in 0..0 |-> <<>>]
  <2>1. IsHistory(L, 0, f)
    BY DEF IsHistory
  <2> QED
    BY <1>3, <2>1
<1>5. m - 1 \in Nat /\ ~(m <= m - 1)
  BY <1>3, <1>4
<1>6. PICK g : IsHistory(L, m - 1, g)
  BY <1>2, <1>5 DEF S
<1> DEFINE x == Extended(L, m, g[m - 1])
           f == [s \in 0..m |-> IF s = m THEN x ELSE g[s]]
<1> HIDE DEF x
<1>7. ASSUME NEW s \in 0..m
      PROVE  f[s] = IF s = 0 THEN <<>> ELSE Extended(L, s, f[s - 1])
  <2>1. CASE s = m
    <3>1. f[s] = x /\ f[s - 1] = g[s - 1] /\ s # 0
      BY <1>3, <1>4, <1>5, <2>1
    <3> QED
      BY <2>1, <3>1 DEF x
  <2>2. CASE s # m
    <3>1. s \in 0..m - 1 /\ f[s] = g[s] /\ (s # 0 => f[s - 1] = g[s - 1])
      BY <1>3, <1>5, <2>2
    <3>2. g[s] = IF s = 0 THEN <<>> ELSE Extended(L, s, g[s - 1])
      BY <1>6, <3>1 DEF IsHistory
    <3> QED
      BY <3>1, <3>2
  <2> QED
    BY <2>1, <2>2
<1>8. IsHistory(L, m, f)
  <2> DEFINE b == [s \in 0..m |-> IF s = 0 THEN <<>> ELSE Extended(L, s, f[s - 1])]
  <2>1. \A s \in 0..m : f[s] = b[s]
    BY <1>7
  <2>2. f = b
    BY <2>1
  <2> QED
    BY <2>2 DEF IsHistory
<1> QED
  BY <1>3, <1>8

\* The recursion, unfolded once.
LEMMA HistoryUnfolds ==
  ASSUME NEW L
  PROVE  /\ HistoryOf(L)[0] = <<>>
         /\ \A s \in Slots :
              HistoryOf(L)[s] = Extended(L, s, HistoryOf(L)[s - 1])
<1>1. \E h : IsHistory(L, MaxSlot, h)
  BY HistoryExists
<1>2. IsHistory(L, MaxSlot, HistoryOf(L))
  BY <1>1 DEF HistoryOf
<1> DEFINE H == HistoryOf(L)
<1> HIDE DEF H
<1>3. H = [s \in 0..MaxSlot |-> IF s = 0 THEN <<>> ELSE Extended(L, s, H[s - 1])]
  BY <1>2 DEF H, IsHistory
<1>4. \A s \in 0..MaxSlot : H[s] = IF s = 0 THEN <<>> ELSE Extended(L, s, H[s - 1])
  BY <1>3
<1>5. 0 \in 0..MaxSlot /\ \A s \in Slots : s \in 0..MaxSlot /\ s # 0
  BY DEF Slots
<1>6. H[0] = <<>> /\ \A s \in Slots : H[s] = Extended(L, s, H[s - 1])
  BY <1>4, <1>5
<1> QED
  BY <1>6 DEF H

-----------------------------------------------------------------------------
(***************************************************************************)
(* What the slots of a log with one command per slot make of the history.  *)
(***************************************************************************)
OneEach(L) ==
  /\ L \subseteq Slots \X Commands
  /\ \A d, e \in L : d[1] = e[1] => d = e

\* Slot s and all slots below it are decided.
Closed(L, s) == \A t \in 1..s : \E e \in L : e[1] = t

Occurs(c, h) == \E i \in 1..Len(h) : h[i] = c

\* h and what may follow.
Before(h, g) == Len(h) <= Len(g) /\ \A i \in 1..Len(h) : h[i] = g[i]

LEMMA SeqOfOne ==
  ASSUME NEW c
  PROVE  SetToSeq({c}) = <<c>>
<1>1. Cardinality({c}) = 1
  BY FS_Singleton
<1> DEFINE f == <<c>>
<1>2. f \in [1..1 -> {c}] /\ IsInjective(f)
  BY DEF IsInjective
<1>3. \A g \in [1..1 -> {c}] : g = f
  OBVIOUS
<1> QED
  BY <1>1, <1>2, <1>3 DEF SetToSeq

LEMMA SeqOfNone == SetToSeq({}) = <<>>
<1>1. Cardinality({}) = 0
  BY FS_EmptySet
<1>2. <<>> \in [1..0 -> {}] /\ IsInjective(<<>>)
  BY DEF IsInjective
<1>3. \A g \in [1..0 -> {}] : g = <<>>
  OBVIOUS
<1> QED
  BY <1>1, <1>2, <1>3 DEF SetToSeq

\* A slot above an open one does nothing.
LEMMA OpenSlot ==
  ASSUME NEW L, NEW s \in Slots, NEW h, ~Closed(L, s)
  PROVE  Extended(L, s, h) = h
<1>1. PICK t \in 1..s : \A e \in L : e[1] # t
  BY DEF Closed
<1>2. EntryIn(L, t) = {}
  BY <1>1 DEF EntryIn
<1> QED
  BY <1>2 DEF Extended

\* Otherwise its command takes effect, unless it did before.
LEMMA ClosedSlot ==
  ASSUME NEW L, OneEach(L), NEW h \in Seq(Commands), NEW e \in L,
         Closed(L, e[1])
  PROVE  Extended(L, e[1], h)
           = IF Occurs(e[2], h) THEN h ELSE Append(h, e[2])
<1> DEFINE s == e[1]
           c == e[2]
<1>1. EntryIn(L, s) = {c}
  BY DEF OneEach, EntryIn
<1>2. \A t \in 1..s : EntryIn(L, t) # {}
  BY DEF Closed, EntryIn
<1>3. Extended(L, s, h) = h \o SetToSeq({c} \ ToSet(h))
  BY <1>1, <1>2 DEF Extended
<1>4. c \in ToSet(h) <=> Occurs(c, h)
  BY DEF ToSet, Occurs
<1>5. CASE Occurs(c, h)
  <2>1. {c} \ ToSet(h) = {}
    BY <1>4, <1>5
  <2>2. h \o <<>> = h
    OBVIOUS
  <2> QED
    BY <1>3, <1>5, <2>1, <2>2, SeqOfNone
<1>6. CASE ~Occurs(c, h)
  <2>1. {c} \ ToSet(h) = {c}
    BY <1>4, <1>6
  <2>2. c \in Commands
    BY DEF OneEach
  <2>3. h \o <<c>> = Append(h, c)
    BY <2>2
  <2> QED
    BY <1>3, <1>6, <2>1, <2>3, SeqOfOne
<1> QED
  BY <1>5, <1>6

-----------------------------------------------------------------------------
\* No request is in the history twice, and each is in the log.
SoundHistory(L, h) ==
  /\ h \in Seq(Commands) /\ Distinct(h)
  /\ \A c : Occurs(c, h) => \E e \in L : e[2] = c

LEMMA SoundStep ==
  ASSUME NEW L, OneEach(L), NEW s \in Slots, NEW h, SoundHistory(L, h)
  PROVE  SoundHistory(L, Extended(L, s, h))
<1>1. CASE Closed(L, s)
  <2>1. s \in 1..s
    BY DEF Slots
  <2>2. PICK e \in L : e[1] = s
    BY <1>1, <2>1 DEF Closed
  <2> DEFINE c == e[2]
  <2>3. c \in Commands /\ h \in Seq(Commands)
    BY DEF OneEach, SoundHistory
  <2>4. Extended(L, s, h) = IF Occurs(c, h) THEN h ELSE Append(h, c)
    BY <1>1, <2>2, <2>3, ClosedSlot
  <2>5. CASE Occurs(c, h)
    BY <2>4, <2>5
  <2>6. CASE ~Occurs(c, h)
    <3>1. Append(h, c) \in Seq(Commands)
      BY <2>3
    <3>2. Distinct(Append(h, c))
      BY <2>3, <2>6, AppendFresh DEF SoundHistory, Occurs
    <3>3. ASSUME NEW d, Occurs(d, Append(h, c))
          PROVE  \E o \in L : o[2] = d
      <4>1. PICK i \in 1..Len(Append(h, c)) : Append(h, c)[i] = d
        BY <3>3 DEF Occurs
      <4>2. \/ i \in 1..Len(h) /\ Append(h, c)[i] = h[i]
            \/ i = Len(h) + 1 /\ Append(h, c)[i] = c
        BY <2>3, AppendEntries
      <4>3. Occurs(d, h) \/ d = c
        BY <4>1, <4>2 DEF Occurs
      <4> QED
        BY <4>3 DEF SoundHistory
    <3>4. SoundHistory(L, Append(h, c))
      BY <3>1, <3>2, <3>3 DEF SoundHistory
    <3> QED
      BY <2>4, <2>6, <3>4
  <2> QED
    BY <2>5, <2>6
<1>2. CASE ~Closed(L, s)
  BY <1>2, OpenSlot
<1> QED
  BY <1>1, <1>2

LEMMA HistorySound ==
  ASSUME NEW L, OneEach(L), NEW n \in 0..MaxSlot
  PROVE  SoundHistory(L, HistoryOf(L)[n])
<1> DEFINE H == HistoryOf(L)
<1>0. H[0] = <<>> /\ \A s \in Slots : H[s] = Extended(L, s, H[s - 1])
  BY HistoryUnfolds
<1> HIDE DEF H
<1> DEFINE S == {k \in 0..MaxSlot : ~SoundHistory(L, H[k])}
<1> SUFFICES ASSUME n \in S PROVE FALSE
  BY DEF H
<1>1. S \in SUBSET Nat
  OBVIOUS
<1>2. PICK m \in S : \A k \in S : m <= k
  BY <1>1, LeastNumber
<1>3. m \in 0..MaxSlot /\ ~SoundHistory(L, H[m])
  OBVIOUS
<1> HIDE DEF S
<1>4. m # 0
  <2>1. SoundHistory(L, <<>>)
    BY DEF SoundHistory, Distinct, Occurs
  <2> QED
    BY <1>0, <1>3, <2>1
<1>5. m \in Slots /\ m - 1 \in 0..MaxSlot /\ ~(m <= m - 1)
  BY <1>3, <1>4 DEF Slots
<1>6. SoundHistory(L, H[m - 1])
  BY <1>2, <1>5 DEF S
<1>7. SoundHistory(L, Extended(L, m, H[m - 1]))
  BY <1>5, <1>6, SoundStep
<1> QED
  BY <1>0, <1>3, <1>5, <1>7

\* One slot adds at the end.
LEMMA BeforeStep ==
  ASSUME NEW L, OneEach(L), NEW s \in Slots, NEW h, SoundHistory(L, h)
  PROVE  Before(h, Extended(L, s, h))
<1>0. h \in Seq(Commands) /\ Len(h) \in Nat
  BY DEF SoundHistory
<1>1. CASE Closed(L, s)
  <2>1. s \in 1..s
    BY DEF Slots
  <2>2. PICK e \in L : e[1] = s
    BY <1>1, <2>1 DEF Closed
  <2>3. e[2] \in Commands
    BY DEF OneEach
  <2>4. Extended(L, s, h) = IF Occurs(e[2], h) THEN h ELSE Append(h, e[2])
    BY <1>0, <1>1, <2>2, ClosedSlot
  <2>5. Before(h, h) /\ Before(h, Append(h, e[2]))
    BY <1>0, <2>3 DEF Before
  <2> QED
    BY <2>4, <2>5
<1>2. CASE ~Closed(L, s)
  BY <1>0, <1>2, OpenSlot DEF Before
<1> QED
  BY <1>1, <1>2

LEMMA BeforeTransitive ==
  ASSUME NEW f, NEW g, NEW h, Len(f) \in Nat, Len(g) \in Nat, Len(h) \in Nat,
         Before(f, g), Before(g, h)
  PROVE  Before(f, h)
BY DEF Before

\* The history of some slots is the beginning of the history of more slots.
LEMMA HistoryBefore ==
  ASSUME NEW L, OneEach(L), NEW n \in 0..MaxSlot, NEW top \in n..MaxSlot
  PROVE  Before(HistoryOf(L)[n], HistoryOf(L)[top])
<1> DEFINE H == HistoryOf(L)
<1>0. H[0] = <<>> /\ \A s \in Slots : H[s] = Extended(L, s, H[s - 1])
  BY HistoryUnfolds
<1>s. \A k \in 0..MaxSlot : SoundHistory(L, H[k])
  BY HistorySound
<1> HIDE DEF H
<1>l. \A k \in 0..MaxSlot : Len(H[k]) \in Nat
  BY <1>s DEF SoundHistory
<1> DEFINE S == {k \in n..MaxSlot : ~Before(H[n], H[k])}
<1> SUFFICES ASSUME top \in S PROVE FALSE
  BY DEF H
<1>1. S \in SUBSET Nat
  OBVIOUS
<1>2. PICK m \in S : \A k \in S : m <= k
  BY <1>1, LeastNumber
<1>3. m \in n..MaxSlot /\ ~Before(H[n], H[m])
  OBVIOUS
<1> HIDE DEF S
<1>4. m # n
  BY <1>3, <1>l DEF Before
<1>5. m \in Slots /\ m - 1 \in n..MaxSlot /\ m - 1 \in 0..MaxSlot /\ ~(m <= m - 1) /\ m \in 0..MaxSlot
  BY <1>3, <1>4 DEF Slots
<1>6. Before(H[n], H[m - 1])
  BY <1>2, <1>5 DEF S
<1>7. Before(H[m - 1], H[m])
  BY <1>0, <1>5, <1>s, BeforeStep
<1>8. Before(H[n], H[m])
  BY <1>5, <1>6, <1>7, <1>l, BeforeTransitive
<1> QED
  BY <1>3, <1>8

-----------------------------------------------------------------------------
\* A decision changes nothing below an open slot and adds to the end.
LEMMA LogGrowsStep ==
  ASSUME NEW L, NEW M, L \subseteq M, OneEach(L), OneEach(M),
         NEW s \in Slots, NEW h, NEW g,
         SoundHistory(L, h), SoundHistory(M, g), Before(h, g),
         Closed(L, s) => g = h
  PROVE  /\ Before(Extended(L, s, h), Extended(M, s, g))
         /\ Closed(L, s) => Extended(M, s, g) = Extended(L, s, h)
<1>0. /\ Len(g) \in Nat /\ Len(h) \in Nat
      /\ SoundHistory(L, Extended(L, s, h)) /\ SoundHistory(M, Extended(M, s, g))
  BY SoundStep DEF SoundHistory
<1>l. Len(Extended(L, s, h)) \in Nat /\ Len(Extended(M, s, g)) \in Nat
  BY <1>0 DEF SoundHistory
<1>1. CASE Closed(L, s)
  <2>1. s \in 1..s
    BY DEF Slots
  <2>2. PICK e \in L : e[1] = s
    BY <1>1, <2>1 DEF Closed
  <2>3. e \in M /\ Closed(M, s) /\ h \in Seq(Commands)
    BY <1>1, <2>2 DEF Closed, SoundHistory
  <2>4. Extended(L, s, h) = IF Occurs(e[2], h) THEN h ELSE Append(h, e[2])
    BY <1>1, <2>2, <2>3, ClosedSlot
  <2>5. Extended(M, s, h) = IF Occurs(e[2], h) THEN h ELSE Append(h, e[2])
    BY <2>2, <2>3, ClosedSlot
  <2>6. Extended(M, s, g) = Extended(L, s, h)
    BY <1>1, <2>4, <2>5
  <2> QED
    BY <1>l, <2>6 DEF Before
<1>2. CASE ~Closed(L, s)
  <2>1. Extended(L, s, h) = h
    BY <1>2, OpenSlot
  <2>2. Before(g, Extended(M, s, g))
    BY BeforeStep
  <2>3. Before(h, Extended(M, s, g))
    BY <1>0, <1>l, <2>2, BeforeTransitive
  <2> QED
    BY <1>2, <2>1, <2>3
<1> QED
  BY <1>1, <1>2

LEMMA LogGrows ==
  ASSUME NEW L, NEW M, L \subseteq M, OneEach(L), OneEach(M),
         NEW n \in 0..MaxSlot
  PROVE  /\ Before(HistoryOf(L)[n], HistoryOf(M)[n])
         /\ Closed(L, n) => HistoryOf(M)[n] = HistoryOf(L)[n]
<1> DEFINE H == HistoryOf(L)
           G == HistoryOf(M)
           Follows(k) == /\ Before(H[k], G[k])
                         /\ Closed(L, k) => G[k] = H[k]
<1>0. /\ H[0] = <<>> /\ \A s \in Slots : H[s] = Extended(L, s, H[s - 1])
      /\ G[0] = <<>> /\ \A s \in Slots : G[s] = Extended(M, s, G[s - 1])
  BY HistoryUnfolds
<1>s. \A k \in 0..MaxSlot : SoundHistory(L, H[k]) /\ SoundHistory(M, G[k])
  BY HistorySound
<1> HIDE DEF H, G
<1> DEFINE S == {k \in 0..MaxSlot : ~Follows(k)}
<1> SUFFICES ASSUME n \in S PROVE FALSE
  BY DEF H, G
<1>1. S \in SUBSET Nat
  OBVIOUS
<1>2. PICK m \in S : \A k \in S : m <= k
  BY <1>1, LeastNumber
<1>3. m \in 0..MaxSlot /\ ~Follows(m)
  OBVIOUS
<1> HIDE DEF S
<1>4. m # 0
  BY <1>0, <1>3 DEF Before
<1>5. m \in Slots /\ m - 1 \in 0..MaxSlot /\ ~(m <= m - 1)
  BY <1>3, <1>4 DEF Slots
<1>6. Follows(m - 1)
  BY <1>2, <1>5 DEF S
<1>7. Closed(L, m) => Closed(L, m - 1)
  BY <1>5 DEF Closed
<1>8. /\ Before(Extended(L, m, H[m - 1]), Extended(M, m, G[m - 1]))
      /\ Closed(L, m) => Extended(M, m, G[m - 1]) = Extended(L, m, H[m - 1])
  BY <1>5, <1>6, <1>7, <1>s, LogGrowsStep
<1>9. Follows(m)
  BY <1>0, <1>5, <1>8
<1> QED
  BY <1>3, <1>9

\* Beginnings, in the words of StateMachine.
LEMMA BeforeIsPrefix ==
  ASSUME NEW h \in Seq(Commands), NEW g \in Seq(Commands), Before(h, g)
  PROVE  IsPrefix(h, g)
<1>1. Len(h) <= Len(g) /\ Len(h) \in Nat /\ Len(g) \in Nat
  BY DEF Before
<1>2. SubSeq(h, 1, Len(h)) = h
  OBVIOUS
<1>3. SubSeq(g, 1, Len(h)) = h
  <2> DEFINE f == SubSeq(g, 1, Len(h))
  <2>1. f \in Seq(Commands) /\ Len(f) = Len(h) /\ \A i \in 1..Len(h) : f[i] = g[i]
    BY <1>1
  <2>2. \A i \in 1..Len(h) : f[i] = h[i]
    BY <2>1 DEF Before
  <2> HIDE DEF f
  <2>3. f = h
    BY <2>1, <2>2
  <2> QED
    BY <2>3 DEF f
<1> QED
  BY <1>1, <1>2, <1>3 DEF IsPrefix

-----------------------------------------------------------------------------
(***************************************************************************)
(* Clients and replicas implement the abstract state machine.              *)
(***************************************************************************)

\* Only proposals are decided, and a replica has performed the history of the
\* slots below slot_out.
HistoryInv ==
  /\ chosen \subseteq proposed
  /\ \A r \in Replicas : executed[r] = HistoryOf(chosen)[slot_out[r] - 1]

LEMMA LogIsOneEach == IInv => OneEach(chosen)
BY DEF IInv, TypeOK, LogInv, OneEach

LEMMA LogIsOneEachNext == IInv' => OneEach(chosen')
BY DEF IInv, TypeOK, LogInv, OneEach

\* Every slot below slot_out is decided.
LEMMA PerformedSlots ==
  ASSUME IInv, NEW r \in Replicas
  PROVE  slot_out[r] - 1 \in 0..MaxSlot /\ Closed(chosen, slot_out[r] - 1)
<1>1. slot_out[r] \in 1..MaxSlot + 1 /\ decisions[r] \subseteq chosen
  BY DEF IInv, TypeOK, LogInv
<1>2. ASSUME NEW t \in 1..slot_out[r] - 1 PROVE \E e \in chosen : e[1] = t
  <2>1. t \in Slots /\ t < slot_out[r]
    BY <1>1 DEF Slots
  <2>2. PICK d \in decisions[r] : d[1] = t
    BY <2>1 DEF IInv, PerformInv
  <2> QED
    BY <1>1, <2>2
<1> QED
  BY <1>1, <1>2 DEF Closed

\* A replica performs the next entry of the history, or nothing when the slot
\* repeats a command.
LEMMA PerformHistory ==
  ASSUME IInv, HistoryInv, NEW r \in Replicas, NEW c \in Commands,
         ReplicaPerform(r, c)
  PROVE  /\ slot_out[r] \in Slots
         /\ HistoryOf(chosen)[slot_out[r]]
              = IF Performed(r, c) THEN executed[r] ELSE Append(executed[r], c)
<1>1. slot_out[r] \in Slots /\ <<slot_out[r], c>> \in decisions[r]
  BY PerformEffect DEF IInv
<1>2. <<slot_out[r], c>> \in chosen /\ executed[r] \in Seq(Commands)
  BY <1>1 DEF IInv, LogInv, TypeOK
<1>3. Closed(chosen, slot_out[r])
  <2>1. Closed(chosen, slot_out[r] - 1)
    BY PerformedSlots
  <2>2. \A t \in 1..slot_out[r] : t = slot_out[r] \/ t \in 1..slot_out[r] - 1
    BY <1>1 DEF Slots
  <2> QED
    BY <1>2, <2>1, <2>2 DEF Closed
<1>4. HistoryOf(chosen)[slot_out[r]]
        = Extended(chosen, slot_out[r], HistoryOf(chosen)[slot_out[r] - 1])
  BY <1>1, HistoryUnfolds
<1>5. HistoryOf(chosen)[slot_out[r] - 1] = executed[r]
  BY DEF HistoryInv
<1> DEFINE e == <<slot_out[r], c>>
<1>6. e \in chosen /\ e[1] = slot_out[r] /\ e[2] = c
  BY <1>2
<1> HIDE DEF e
<1>7. Extended(chosen, e[1], executed[r])
        = IF Occurs(e[2], executed[r]) THEN executed[r]
          ELSE Append(executed[r], e[2])
  BY <1>2, <1>3, <1>6, ClosedSlot, LogIsOneEach
<1>8. Occurs(c, executed[r]) <=> Performed(r, c)
  BY DEF Occurs, Performed
<1> QED
  BY <1>1, <1>4, <1>5, <1>6, <1>7, <1>8

LEMMA HistoryInit == Init => HistoryInv
<1> SUFFICES ASSUME Init PROVE HistoryInv
  OBVIOUS
<1>1. HistoryOf({})[0] = <<>>
  BY HistoryUnfolds
<1>2. /\ chosen = {} /\ slot_out = [r \in Replicas |-> 1]
      /\ executed = [r \in Replicas |-> <<>>]
  BY DEF Init, Log!LogInit
<1>3. 1 - 1 = 0
  OBVIOUS
<1> QED
  BY <1>1, <1>2, <1>3 DEF HistoryInv

LEMMA HistoryStep == IInv /\ IInv' /\ HistoryInv /\ [Next]_vars => HistoryInv'
<1> SUFFICES ASSUME IInv, IInv', HistoryInv, [Next]_vars PROVE HistoryInv'
  OBVIOUS
<1>1. ASSUME NEW s \in Slots, NEW c \in Commands, Decide(s, c)
      PROVE  HistoryInv'
  <2>1. /\ chosen' = chosen \cup {<<s, c>>} /\ proposed' = proposed
        /\ <<s, c>> \in proposed
        /\ executed' = executed /\ slot_out' = slot_out
    BY <1>1 DEF Decide, Log!LogChoose, loopVars
  <2>2. chosen' \subseteq proposed'
    BY <2>1 DEF HistoryInv
  <2>3. PICK M : M = chosen'
    OBVIOUS
  <2>4. OneEach(chosen) /\ OneEach(M) /\ chosen \subseteq M
    BY <2>1, <2>3, LogIsOneEach, LogIsOneEachNext
  <2>5. ASSUME NEW r \in Replicas
        PROVE  executed[r] = HistoryOf(M)[slot_out[r] - 1]
    <3>1. slot_out[r] - 1 \in 0..MaxSlot /\ Closed(chosen, slot_out[r] - 1)
      BY PerformedSlots
    <3>2. HistoryOf(M)[slot_out[r] - 1] = HistoryOf(chosen)[slot_out[r] - 1]
      BY <2>4, <3>1, LogGrows
    <3> QED
      BY <3>2 DEF HistoryInv
  <2> QED
    BY <2>1, <2>2, <2>3, <2>5 DEF HistoryInv
<1>2. ASSUME NEW r \in Replicas, NEW c \in Commands, ReplicaPerform(r, c)
      PROVE  HistoryInv'
  <2>1. /\ slot_out' = [slot_out EXCEPT ![r] = slot_out[r] + 1]
        /\ \/ /\ ~Performed(r, c)
              /\ executed' = [executed EXCEPT ![r] = Append(executed[r], c)]
           \/ Performed(r, c) /\ executed' = executed
    BY <1>2, PerformEffect DEF IInv
  <2>2. chosen' = chosen /\ proposed' = proposed
    BY <1>2 DEF ReplicaPerform
  <2>3. HistoryOf(chosen)[slot_out[r]]
          = IF Performed(r, c) THEN executed[r] ELSE Append(executed[r], c)
    BY <1>2, PerformHistory
  <2>4. ASSUME NEW q \in Replicas
        PROVE  executed'[q] = HistoryOf(chosen)[slot_out'[q] - 1]
    <3>1. slot_out[q] \in Nat /\ executed[q] = HistoryOf(chosen)[slot_out[q] - 1]
      BY DEF IInv, TypeOK, HistoryInv
    <3>2. CASE q # r
      <4>1. executed'[q] = executed[q] /\ slot_out'[q] = slot_out[q]
        BY <2>1, <3>2 DEF IInv, TypeOK
      <4> QED
        BY <3>1, <4>1
    <3>3. CASE q = r
      <4>1. slot_out'[q] = slot_out[r] + 1
        BY <2>1, <3>3 DEF IInv, TypeOK
      <4>2. slot_out'[q] - 1 = slot_out[r]
        BY <3>1, <3>3, <4>1
      <4>3. executed'[q] = IF Performed(r, c) THEN executed[r]
                           ELSE Append(executed[r], c)
        BY <2>1, <3>3 DEF IInv, TypeOK
      <4> QED
        BY <2>3, <4>2, <4>3
    <3> QED
      BY <3>2, <3>3
  <2> QED
    BY <2>2, <2>4 DEF HistoryInv
<1>3. CASE /\ chosen' = chosen /\ proposed \subseteq proposed'
           /\ executed' = executed /\ slot_out' = slot_out
  BY <1>3 DEF HistoryInv
<1> QED
  BY <1>1, <1>2, <1>3 DEF Next, ReplicaLoop, ClientRequest, ReplicaRequest,
       ReplicaDecision, Log!LogLearn, ReplicaCaughtUp, ReplicaWait,
       ReplicaSkipSlot, ReplicaPropose, Log!LogPropose, vars, replicaVars,
       loopVars

LEMMA HistoryInvHolds == Spec => [](IInv /\ HistoryInv)
<1>1. Init => IInv /\ HistoryInv
  BY InvInit, HistoryInit
<1>2. IInv /\ HistoryInv /\ [Next]_vars => (IInv /\ HistoryInv)'
  BY InvNext, HistoryStep
<1> QED
  BY <1>1, <1>2, PTL DEF Spec

-----------------------------------------------------------------------------
\* The requests that clients have sent, one by one.
LEMMA RequestedElements ==
  ASSUME TypeOK, NEW c
  PROVE  c \in Requested <=>
           \/ \E r \in Replicas :
                \/ c \in requestsTo[r] \/ c \in requests[r]
                \/ \E p \in proposals[r] : p[2] = c
                \/ Performed(r, c)
           \/ \E e \in proposed : e[2] = c
<1> DEFINE Of(S) == {e[2] : e \in S}
           At(r) == requestsTo[r] \cup requests[r] \cup Of(proposals[r])
                      \cup ToSet(executed[r])
           All == UNION {At(r) : r \in Replicas}
<1>1. \A r \in Replicas : executed[r] \in Seq(Commands)
  BY DEF TypeOK
<1>2. \A r \in Replicas : c \in ToSet(executed[r]) <=> Performed(r, c)
  BY <1>1 DEF ToSet, Performed
<1>3. \A S : c \in Of(S) <=> \E e \in S : e[2] = c
  OBVIOUS
<1>4. Requested = All \cup Of(proposed)
  BY DEF Requested
<1> HIDE DEF Of
<1>5. ASSUME NEW r \in Replicas
      PROVE  c \in At(r) <=>
               \/ c \in requestsTo[r] \/ c \in requests[r]
               \/ \E p \in proposals[r] : p[2] = c
               \/ Performed(r, c)
  BY <1>2, <1>3
<1> HIDE DEF At
<1>6. c \in All <=> \E r \in Replicas : c \in At(r)
  OBVIOUS
<1> HIDE DEF All
<1>7. c \in Requested <=> c \in All \/ c \in Of(proposed)
  BY <1>4
<1> QED
  BY <1>3, <1>5, <1>6, <1>7

LEMMA RequestedElementsNext ==
  ASSUME TypeOK', NEW c
  PROVE  c \in Requested' <=>
           \/ \E r \in Replicas :
                \/ c \in requestsTo'[r] \/ c \in requests'[r]
                \/ \E p \in proposals'[r] : p[2] = c
                \/ Performed(r, c)'
           \/ \E e \in proposed' : e[2] = c
<1> DEFINE Of(S) == {e[2] : e \in S}
           At(r) == requestsTo'[r] \cup requests'[r] \cup Of(proposals'[r])
                      \cup ToSet(executed'[r])
           All == UNION {At(r) : r \in Replicas}
<1>1. \A r \in Replicas : executed'[r] \in Seq(Commands)
  BY DEF TypeOK
<1>2. \A r \in Replicas : c \in ToSet(executed'[r]) <=> Performed(r, c)'
  BY <1>1 DEF ToSet, Performed
<1>3. \A S : c \in Of(S) <=> \E e \in S : e[2] = c
  OBVIOUS
<1>4. Requested' = All \cup Of(proposed')
  BY DEF Requested, ToSet
<1> HIDE DEF Of
<1>5. ASSUME NEW r \in Replicas
      PROVE  c \in At(r) <=>
               \/ c \in requestsTo'[r] \/ c \in requests'[r]
               \/ \E p \in proposals'[r] : p[2] = c
               \/ Performed(r, c)'
  BY <1>2, <1>3
<1> HIDE DEF At
<1>6. c \in All <=> \E r \in Replicas : c \in At(r)
  OBVIOUS
<1> HIDE DEF All
<1>7. c \in Requested' <=> c \in All \/ c \in Of(proposed')
  BY <1>4
<1> QED
  BY <1>3, <1>5, <1>6, <1>7

\* Requests are never taken back.
LEMMA RequestedGrows ==
  ASSUME IInv, IInv', [Next]_vars
  PROVE  Requested \subseteq Requested'
<1> SUFFICES ASSUME NEW e \in Requested PROVE e \in Requested'
  OBVIOUS
<1> USE DEF IInv
<1>1. \/ \E q \in Replicas :
            \/ e \in requestsTo[q] \/ e \in requests[q]
            \/ \E p \in proposals[q] : p[2] = e
            \/ Performed(q, e)
      \/ \E o \in proposed : o[2] = e
  BY RequestedElements
<1> DEFINE After == \/ \E q \in Replicas :
                         \/ e \in requestsTo'[q] \/ e \in requests'[q]
                         \/ \E p \in proposals'[q] : p[2] = e
                         \/ Performed(q, e)'
                    \/ \E o \in proposed' : o[2] = e
<1> SUFFICES After
  BY RequestedElementsNext
<1>2. ASSUME executed' = executed, NEW q \in Replicas, Performed(q, e)
      PROVE  Performed(q, e)'
  BY <1>2 DEF Performed
<1>3. ASSUME NEW k \in Clients, NEW move \in Moves, ClientRequest(k, move)
      PROVE  After
  <2>1. /\ requests' = requests /\ proposals' = proposals
        /\ executed' = executed /\ proposed' = proposed
    BY <1>3 DEF ClientRequest, replicaVars, loopVars
  <2>2. \A q \in Replicas : requestsTo[q] \subseteq requestsTo'[q]
    BY <1>3 DEF ClientRequest
  <2> QED
    BY <1>1, <1>2, <2>1, <2>2
<1>4. ASSUME NEW r \in Replicas, NEW c \in Commands, ReplicaRequest(r, c)
      PROVE  After
  <2>1. /\ proposals' = proposals /\ executed' = executed /\ proposed' = proposed
    BY <1>4 DEF ReplicaRequest
  <2>2. \A q \in Replicas : /\ requests[q] \subseteq requests'[q]
                            /\ requestsTo[q] \subseteq requestsTo'[q] \cup requests'[q]
    BY <1>4 DEF ReplicaRequest, TypeOK
  <2> QED
    BY <1>1, <1>2, <2>1, <2>2
<1>5. ASSUME NEW r \in Replicas, NEW c \in Commands, ReplicaPropose(r, c)
      PROVE  After
  <2>1. /\ requestsTo' = requestsTo /\ executed' = executed
        /\ requests' = [requests EXCEPT ![r] = requests[r] \ {c}]
        /\ proposals' =
             [proposals EXCEPT ![r] = proposals[r] \cup {<<slot_in[r], c>>}]
        /\ proposed' = proposed \cup {<<slot_in[r], c>>}
    BY <1>5 DEF ReplicaPropose, clientVars, Log!LogPropose
  <2>2. <<slot_in[r], c>> \in proposed' /\ <<slot_in[r], c>>[2] = c
    BY <2>1
  <2>3. \A q \in Replicas : /\ proposals[q] \subseteq proposals'[q]
                            /\ requests[q] \subseteq requests'[q] \cup {c}
    BY <2>1 DEF TypeOK
  <2>4. proposed \subseteq proposed'
    BY <2>1
  <2>5. CASE e = c
    BY <2>2, <2>5
  <2>6. CASE e # c
    BY <1>1, <1>2, <2>1, <2>3, <2>4, <2>6
  <2> QED
    BY <2>5, <2>6
<1>6. ASSUME NEW r \in Replicas, NEW c \in Commands, ReplicaPerform(r, c)
      PROVE  After
  <2>1. /\ requestsTo' = requestsTo /\ proposed' = proposed
        /\ requests' =
             [requests EXCEPT ![r] = requests[r] \cup requests_to_repeat(r, c)]
        /\ proposals' = [proposals EXCEPT
             ![r] = proposals[r] \ get_proposals_for_slot(r, slot_out[r])]
    BY <1>6 DEF ReplicaPerform
  <2>2. Performed(r, c)'
    BY <1>6, PerformKeeps
  <2>3. \A q \in Replicas : Performed(q, e) => Performed(q, e)'
    BY <1>6, PerformKeeps
  <2>4. \A q \in Replicas : requests[q] \subseteq requests'[q]
    BY <2>1 DEF TypeOK
  <2>5. ASSUME NEW q \in Replicas, NEW p \in proposals[q], p[2] = e
        PROVE  After
    <3>1. CASE p \in proposals'[q]
      BY <2>5, <3>1
    <3>2. CASE p \notin proposals'[q]
      <4>1. q = r /\ p \in get_proposals_for_slot(r, slot_out[r])
        BY <2>1, <3>2 DEF TypeOK
      <4>2. e = c \/ e \in requests_to_repeat(r, c)
        BY <2>5, <4>1 DEF requests_to_repeat
      <4>3. requests_to_repeat(r, c) \subseteq requests'[r]
        BY <2>1 DEF TypeOK
      <4> QED
        BY <2>2, <4>2, <4>3
    <3> QED
      BY <3>1, <3>2
  <2> QED
    BY <1>1, <2>1, <2>3, <2>4, <2>5
<1>7. CASE UNCHANGED <<requestsTo, requests, proposals, executed, proposed>>
  BY <1>1, <1>2, <1>7
<1> QED
  BY <1>3, <1>4, <1>5, <1>6, <1>7 DEF Next, ReplicaLoop, Decide,
       ReplicaDecision, ReplicaCaughtUp, ReplicaWait, ReplicaSkipSlot, vars,
       Log!LogChoose, Log!LogLearn, clientVars, replicaVars, loopVars

\* What is decided and what is performed was requested.
LEMMA ChosenRequested ==
  ASSUME IInv, NEW e \in proposed
  PROVE  e[2] \in Requested
BY RequestedElements DEF IInv

\* Performing a command that was decided requests nothing new.
LEMMA PerformRequests ==
  ASSUME IInv, IInv', HistoryInv, NEW r \in Replicas, NEW c \in Commands,
         ReplicaPerform(r, c)
  PROVE  Requested' \subseteq Requested
<1> SUFFICES ASSUME NEW e \in Requested' PROVE e \in Requested
  OBVIOUS
<1> USE DEF IInv
<1>1. /\ requestsTo' = requestsTo /\ proposed' = proposed
      /\ requests' =
           [requests EXCEPT ![r] = requests[r] \cup requests_to_repeat(r, c)]
      /\ proposals' = [proposals EXCEPT
           ![r] = proposals[r] \ get_proposals_for_slot(r, slot_out[r])]
  BY DEF ReplicaPerform
<1>2. c \in Requested
  <2>1. <<slot_out[r], c>> \in proposed
    BY PerformEffect DEF LogInv, HistoryInv
  <2>2. <<slot_out[r], c>>[2] \in Requested
    BY <2>1, ChosenRequested
  <2> QED
    BY <2>2
<1>3. ASSUME NEW q \in Replicas, Performed(q, e)'
      PROVE  e \in Requested
  <2>1. \/ /\ ~Performed(r, c)
           /\ executed' = [executed EXCEPT ![r] = Append(executed[r], c)]
        \/ Performed(r, c) /\ executed' = executed
    BY PerformEffect
  <2>2. Performed(q, e) \/ e = c
    <3>1. CASE executed'[q] = executed[q]
      BY <1>3, <3>1 DEF Performed
    <3>2. CASE q = r /\ executed'[q] = Append(executed[r], c)
      <4>1. PICK i \in 1..Len(executed'[q]) : executed'[q][i] = e
        BY <1>3 DEF Performed
      <4>2. executed[r] \in Seq(Commands)
        BY DEF TypeOK
      <4>3. \/ i \in 1..Len(executed[r]) /\ executed'[q][i] = executed[r][i]
            \/ i = Len(executed[r]) + 1 /\ executed'[q][i] = c
        BY <3>2, <4>1, <4>2, AppendEntries
      <4> QED
        BY <3>2, <4>1, <4>3 DEF Performed
    <3> QED
      BY <2>1, <3>1, <3>2 DEF TypeOK
  <2> QED
    BY <1>2, <2>2, RequestedElements
<1>4. ASSUME NEW q \in Replicas, NEW p \in proposals'[q], p[2] = e
      PROVE  e \in Requested
  <2>1. p \in proposals[q]
    BY <1>1 DEF TypeOK
  <2> QED
    BY <1>4, <2>1, RequestedElements
<1>5. ASSUME NEW q \in Replicas, e \in requests'[q]
      PROVE  e \in Requested
  <2>1. e \in requests[q] \/ (q = r /\ e \in requests_to_repeat(r, c))
    BY <1>1, <1>5 DEF TypeOK
  <2>2. CASE e \in requests[q]
    BY <2>2, RequestedElements
  <2>3. CASE e \in requests_to_repeat(r, c)
    <3>1. PICK p \in proposals[r] : p[2] = e
      BY <2>3 DEF requests_to_repeat, get_proposals_for_slot
    <3> QED
      BY <3>1, RequestedElements
  <2> QED
    BY <2>1, <2>2, <2>3
<1>6. ASSUME NEW q \in Replicas, e \in requestsTo'[q]
      PROVE  e \in Requested
  BY <1>1, <1>6, RequestedElements
<1>7. ASSUME NEW o \in proposed', o[2] = e
      PROVE  e \in Requested
  BY <1>1, <1>7, RequestedElements
<1>8. \/ \E q \in Replicas :
            \/ e \in requestsTo'[q] \/ e \in requests'[q]
            \/ \E p \in proposals'[q] : p[2] = e
            \/ Performed(q, e)'
      \/ \E o \in proposed' : o[2] = e
  BY RequestedElementsNext
<1> QED
  BY <1>3, <1>4, <1>5, <1>6, <1>7, <1>8

-----------------------------------------------------------------------------
LEMMA MachineInitial == Init => Machine!MachineInit
<1> SUFFICES ASSUME Init PROVE Machine!MachineInit
  OBVIOUS
<1>1. /\ chosen = {} /\ proposed = {}
      /\ executed = [r \in Replicas |-> <<>>]
      /\ requestsTo = [r \in Replicas |-> {}]
      /\ requests = [r \in Replicas |-> {}]
      /\ proposals = [r \in Replicas |-> {}]
  BY DEF Init, Log!LogInit
<1>2. Requested = {}
  <2>1. ASSUME NEW c, c \in Requested PROVE FALSE
    <3>1. \A r \in Replicas : ~Performed(r, c)
      BY <1>1 DEF Performed
    <3> QED
      BY <1>1, <2>1, <3>1, TypeInit, RequestedElements
  <2> QED
    BY <2>1
<1>3. HistoryUpTo[MaxSlot] = <<>>
  <2>1. OneEach({})
    BY DEF OneEach
  <2>2. MaxSlot \in 0..MaxSlot
    OBVIOUS
  <2>3. SoundHistory({}, HistoryOf({})[MaxSlot])
    BY <2>1, <2>2, HistorySound
  <2> DEFINE h == HistoryOf({})[MaxSlot]
  <2> HIDE DEF h
  <2>4. h \in Seq(Commands) /\ \A i \in 1..Len(h) : FALSE
    BY <2>3 DEF SoundHistory, Occurs, h
  <2>5. h = <<>>
    BY <2>4
  <2> QED
    BY <1>1, <2>5, HistoryIs DEF h
<1> QED
  BY <1>1, <1>2, <1>3 DEF Machine!MachineInit

\* A decision puts requests at the end of the history, or leaves it.
LEMMA MachineDecides ==
  ASSUME IInv, IInv', HistoryInv, NEW s \in Slots, NEW c \in Commands,
         Decide(s, c)
  PROVE  HistoryUpTo'[MaxSlot] # HistoryUpTo[MaxSlot] => Machine!MachineOrder
<1> SUFFICES ASSUME HistoryUpTo'[MaxSlot] # HistoryUpTo[MaxSlot]
             PROVE  Machine!MachineOrder
  OBVIOUS
<1>1. /\ chosen' = chosen \cup {<<s, c>>} /\ proposed' = proposed
      /\ <<s, c>> \in proposed /\ executed' = executed
      /\ requestsTo' = requestsTo /\ requests' = requests
      /\ proposals' = proposals
  BY DEF Decide, Log!LogChoose, loopVars, clientVars
<1>2. PICK M : M = chosen'
  OBVIOUS
<1>3. OneEach(chosen) /\ OneEach(M) /\ chosen \subseteq M
  BY <1>1, <1>2, LogIsOneEach, LogIsOneEachNext
<1>4. PICK h : h = HistoryUpTo[MaxSlot]
  OBVIOUS
<1>5. PICK g : g = HistoryUpTo'[MaxSlot]
  OBVIOUS
<1>6. h = HistoryOf(chosen)[MaxSlot] /\ g = HistoryOf(M)[MaxSlot]
  BY <1>2, <1>4, <1>5, HistoryIs, HistoryIsNext
<1>7. MaxSlot \in 0..MaxSlot
  OBVIOUS
<1>8. SoundHistory(chosen, h) /\ SoundHistory(M, g) /\ Before(h, g)
  BY <1>3, <1>6, <1>7, HistorySound, LogGrows
<1>9. IsStrictPrefix(h, g)
  <2>1. h \in Seq(Commands) /\ g \in Seq(Commands)
    BY <1>8 DEF SoundHistory
  <2> QED
    BY <1>4, <1>5, <1>8, <2>1, BeforeIsPrefix DEF IsStrictPrefix
<1>10. IsInjective(g)
  <2>1. DOMAIN g = 1..Len(g)
    BY <1>8 DEF SoundHistory
  <2> QED
    BY <1>8, <2>1 DEF SoundHistory, Distinct, IsInjective
<1>11. ToSet(g) \subseteq Requested
  <2> SUFFICES ASSUME NEW i \in DOMAIN g PROVE g[i] \in Requested
    BY DEF ToSet
  <2>1. i \in 1..Len(g)
    BY <1>8 DEF SoundHistory
  <2>2. PICK e \in M : e[2] = g[i]
    BY <1>8, <2>1 DEF SoundHistory, Occurs
  <2>3. e \in proposed
    BY <1>1, <1>2, <2>2 DEF HistoryInv
  <2> QED
    BY <2>2, <2>3, ChosenRequested
<1>12. Requested' = Requested
  BY <1>1 DEF Requested
<1>13. Machine!IsStrictPrefix(h, g)
  BY <1>9 DEF IsStrictPrefix, IsPrefix, Machine!IsStrictPrefix, Machine!IsPrefix
<1>14. Machine!IsInjective(g) /\ Machine!ToSet(g) \subseteq Requested
  BY <1>10, <1>11 DEF IsInjective, ToSet, Machine!IsInjective, Machine!ToSet
<1> QED
  BY <1>1, <1>4, <1>5, <1>12, <1>13, <1>14 DEF Machine!MachineOrder

\* A replica performs the next request of the history, or nothing.
LEMMA MachinePerforms ==
  ASSUME IInv, IInv', HistoryInv, NEW r \in Replicas, NEW c \in Commands,
         ReplicaPerform(r, c), [Next]_vars
  PROVE  /\ HistoryUpTo' = HistoryUpTo /\ Requested' = Requested
         /\ executed' = executed \/ Machine!MachinePerform(r)
<1>1. chosen' = chosen
  BY DEF ReplicaPerform
<1>2. HistoryUpTo' = HistoryUpTo
  BY <1>1, HistoryIs, HistoryIsNext
<1>3. Requested' = Requested
  BY RequestedGrows, PerformRequests
<1>4. CASE Performed(r, c) /\ executed' = executed
  BY <1>2, <1>3, <1>4
<1>5. CASE /\ ~Performed(r, c)
           /\ executed' = [executed EXCEPT ![r] = Append(executed[r], c)]
  <2>1. PICK h : h = HistoryUpTo[MaxSlot]
    OBVIOUS
  <2>2. slot_out[r] \in Slots /\ HistoryOf(chosen)[slot_out[r]] = Append(executed[r], c)
    BY <1>5, PerformHistory
  <2>3. slot_out[r] \in 0..MaxSlot /\ MaxSlot \in slot_out[r]..MaxSlot
    BY <2>2 DEF Slots
  <2>4. Before(Append(executed[r], c), h)
    BY <2>1, <2>2, <2>3, HistoryIs, HistoryBefore, LogIsOneEach
  <2>5. SoundHistory(chosen, h)
    <3>1. MaxSlot \in 0..MaxSlot
      OBVIOUS
    <3> QED
      BY <2>1, <3>1, HistoryIs, HistorySound, LogIsOneEach
  <2>6. executed[r] \in Seq(Commands) /\ Len(h) \in Nat
    BY <2>5 DEF IInv, TypeOK, SoundHistory
  <2>7. /\ Len(Append(executed[r], c)) = Len(executed[r]) + 1
        /\ Append(executed[r], c)[Len(executed[r]) + 1] = c
        /\ Len(executed[r]) \in Nat
    BY <2>6
  <2>8. Len(executed[r]) < Len(h) /\ h[Len(executed[r]) + 1] = c
    BY <2>4, <2>6, <2>7 DEF Before
  <2>9. executed' = [executed EXCEPT
                       ![r] = Append(@, h[Len(executed[r]) + 1])]
    BY <1>5, <2>8
  <2>10. Machine!MachinePerform(r)
    BY <1>2, <1>3, <2>1, <2>8, <2>9 DEF Machine!MachinePerform
  <2> QED
    BY <1>2, <1>3, <2>10
<1> QED
  BY <1>4, <1>5, PerformEffect DEF IInv

LEMMA MachineStep ==
  IInv /\ IInv' /\ HistoryInv /\ [Next]_vars
    => [Machine!MachineNext]_(Machine!machineVars)
<1> SUFFICES ASSUME IInv, IInv', HistoryInv, [Next]_vars
             PROVE  \/ Machine!MachineNext
                    \/ /\ Requested' = Requested
                       /\ HistoryUpTo'[MaxSlot] = HistoryUpTo[MaxSlot]
                       /\ executed' = executed
  BY DEF Machine!machineVars
<1>1. Requested \subseteq Requested'
  BY RequestedGrows
<1>2. CASE chosen' = chosen /\ executed' = executed
  <2>1. HistoryUpTo' = HistoryUpTo
    BY <1>2, HistoryIs, HistoryIsNext
  <2>2. Machine!MachineRequest
    BY <1>1, <1>2, <2>1 DEF Machine!MachineRequest
  <2> QED
    BY <2>2 DEF Machine!MachineNext
<1>3. ASSUME NEW s \in Slots, NEW c \in Commands, Decide(s, c)
      PROVE  \/ Machine!MachineNext
             \/ /\ Requested' = Requested
                /\ HistoryUpTo'[MaxSlot] = HistoryUpTo[MaxSlot]
                /\ executed' = executed
  <2>1. executed' = executed /\ Requested' = Requested
    BY <1>3 DEF Decide, Log!LogChoose, clientVars, loopVars, Requested
  <2> QED
    BY <1>3, <2>1, MachineDecides DEF Machine!MachineNext
<1>4. ASSUME NEW r \in Replicas, NEW c \in Commands, ReplicaPerform(r, c)
      PROVE  \/ Machine!MachineNext
             \/ /\ Requested' = Requested
                /\ HistoryUpTo'[MaxSlot] = HistoryUpTo[MaxSlot]
                /\ executed' = executed
  <2>1. /\ HistoryUpTo' = HistoryUpTo /\ Requested' = Requested
        /\ executed' = executed \/ Machine!MachinePerform(r)
    BY <1>4, MachinePerforms
  <2> QED
    BY <2>1 DEF Machine!MachineNext
<1> QED
  BY <1>2, <1>3, <1>4 DEF Next, ReplicaLoop, ClientRequest, ReplicaRequest,
       ReplicaDecision, Log!LogLearn, ReplicaCaughtUp, ReplicaWait,
       ReplicaSkipSlot, ReplicaPropose, Log!LogPropose, vars, replicaVars,
       loopVars

\* Every replica performs one and the same history of requests, in which a
\* request takes effect at most once and which only grows at its end: clients
\* and replicas implement StateMachine (replica.ex:150-190 and client.ex).
THEOREM ReplicasImplementMachine == Spec => ImplementsMachine
<1>1. Init => Machine!MachineInit
  BY MachineInitial
<1>2. IInv /\ IInv' /\ HistoryInv /\ [Next]_vars
        => [Machine!MachineNext]_(Machine!machineVars)
  BY MachineStep
<1>3. Spec => [](IInv /\ HistoryInv)
  BY HistoryInvHolds
<1> QED
  BY <1>1, <1>2, <1>3, PTL DEF Spec, ImplementsMachine, Machine!MachineSpec
-----------------------------------------------------------------------------
(***************************************************************************)
(* The replicas perform the same commands in the same order, and so the    *)
(* monitor never halts and the databases agree.                            *)
(***************************************************************************)
\* A replica performs commands in the order of the first slots they were
\* decided in.
OrderInv ==
  \A r \in Replicas : \A i, j \in 1..Len(executed[r]) :
    i < j => \A d \in decisions[r] :
               d[2] = executed[r][j] =>
                 \E e \in decisions[r] : e[2] = executed[r][i] /\ e[1] < d[1]

SamePrefix(e, f) == Len(e) <= Len(f) /\ \A i \in 1..Len(e) : e[i] = f[i]

\* Of two replicas the one that is ahead has performed what the other one has,
\* first and in the same order.
PrefixInv ==
  \A r, q \in Replicas :
    slot_out[r] <= slot_out[q] => SamePrefix(executed[r], executed[q])

-----------------------------------------------------------------------------
\* The steps that touch what the order of performed commands depends on.
LEMMA LogSteps ==
  ASSUME IInv, [Next]_vars
  PROVE  \/ \E r \in Replicas, s \in Slots, c \in Commands :
              /\ <<s, c>> \in chosen
              /\ decisions' = [decisions EXCEPT ![r] = @ \cup {<<s, c>>}]
              /\ UNCHANGED <<slot_out, executed>>
         \/ \E r \in Replicas, c \in Commands : ReplicaPerform(r, c)
         \/ UNCHANGED <<slot_out, decisions, executed>>
<1>1. ASSUME NEW r \in Replicas, NEW s \in Slots, NEW c \in Commands,
             ReplicaDecision(r, s, c)
      PROVE  /\ <<s, c>> \in chosen
             /\ decisions' = [decisions EXCEPT ![r] = @ \cup {<<s, c>>}]
             /\ UNCHANGED <<slot_out, executed>>
  BY <1>1 DEF ReplicaDecision, Log!LogLearn, loopVars
<1> QED
  BY <1>1 DEF Next, ReplicaLoop, ClientRequest, ReplicaRequest,
       Decide, Log!LogChoose, ReplicaCaughtUp, ReplicaWait, ReplicaSkipSlot,
       ReplicaPropose, Log!LogPropose, vars, replicaVars, loopVars

\* The entries of executed after a step of ReplicaPerform.
LEMMA ExecutedEntries ==
  ASSUME TypeOK, OwnProposalsInv, PerformInv,
         NEW r \in Replicas, NEW c \in Commands, ReplicaPerform(r, c),
         NEW q \in Replicas
  PROVE  \/ executed'[q] = executed[q]
         \/ /\ q = r /\ ~Performed(r, c)
            /\ Len(executed'[q]) = Len(executed[q]) + 1
            /\ executed'[q][Len(executed[q]) + 1] = c
            /\ \A i \in 1..Len(executed[q]) : executed'[q][i] = executed[q][i]
<1>1. executed[q] \in Seq(Commands)
  BY DEF TypeOK
<1>2. CASE executed' = executed
  BY <1>2
<1>3. CASE /\ ~Performed(r, c)
           /\ executed' = [executed EXCEPT ![r] = Append(executed[r], c)]
  <2>1. CASE q # r
    BY <1>3, <2>1 DEF TypeOK
  <2>2. CASE q = r
    <3>1. executed'[q] = Append(executed[q], c)
      BY <1>3, <2>2 DEF TypeOK
    <3> QED
      BY <1>1, <1>3, <2>2, <3>1
  <2> QED
    BY <2>1, <2>2
<1> QED
  BY <1>2, <1>3, PerformEffect

LEMMA OrderStep == IInv /\ OrderInv /\ [Next]_vars => OrderInv'
<1> SUFFICES ASSUME IInv, OrderInv, [Next]_vars PROVE OrderInv'
  OBVIOUS
<1> USE DEF IInv
<1>1. ASSUME NEW r \in Replicas, NEW s \in Slots, NEW c \in Commands,
             <<s, c>> \in chosen,
             decisions' = [decisions EXCEPT ![r] = @ \cup {<<s, c>>}],
             UNCHANGED <<slot_out, executed>>
      PROVE  OrderInv'
  <2> SUFFICES ASSUME NEW q \in Replicas,
                      NEW i \in 1..Len(executed[q]), NEW j \in 1..Len(executed[q]),
                      i < j, NEW d \in decisions'[q], d[2] = executed[q][j]
               PROVE  \E e \in decisions'[q] : e[2] = executed[q][i] /\ e[1] < d[1]
    BY <1>1 DEF OrderInv
  <2>1. decisions[q] \subseteq decisions'[q]
    BY <1>1 DEF TypeOK
  <2>2. CASE d \in decisions[q]
    BY <2>1, <2>2 DEF OrderInv
  <2>3. CASE q = r /\ d = <<s, c>> /\ s < slot_out[q]
    <3>1. PICK e \in decisions[q] : e[1] = s
      BY <2>3 DEF PerformInv
    <3>2. e = d
      BY <1>1, <2>3, <3>1 DEF LogInv
    <3> QED
      BY <2>2, <3>2
  <2>4. CASE q = r /\ d = <<s, c>> /\ ~(s < slot_out[q])
    <3>1. PICK e \in decisions[q] : e[1] < slot_out[q] /\ e[2] = executed[q][i]
      BY DEF PerformInv
    <3>2. e[1] \in Nat /\ s \in Nat /\ slot_out[q] \in Nat
      BY DEF TypeOK, Slots
    <3>3. e[1] < d[1]
      BY <2>4, <3>1, <3>2
    <3> QED
      BY <2>1, <3>1, <3>3
  <2>5. d \in decisions[q] \/ (q = r /\ d = <<s, c>>)
    BY <1>1 DEF TypeOK
  <2> QED
    BY <2>2, <2>3, <2>4, <2>5
<1>2. ASSUME NEW r \in Replicas, NEW c \in Commands, ReplicaPerform(r, c)
      PROVE  OrderInv'
  <2>1. slot_out[r] \in Slots /\ decisions' = decisions
    BY <1>2, PerformEffect
  <2> SUFFICES ASSUME NEW q \in Replicas,
                      NEW i \in 1..Len(executed'[q]), NEW j \in 1..Len(executed'[q]),
                      i < j, NEW d \in decisions[q], d[2] = executed'[q][j]
               PROVE  \E e \in decisions[q] : e[2] = executed'[q][i] /\ e[1] < d[1]
    BY <2>1 DEF OrderInv
  <2>2. CASE executed'[q] = executed[q]
    BY <2>2 DEF OrderInv
  <2>3. CASE /\ q = r /\ ~Performed(r, c)
             /\ Len(executed'[q]) = Len(executed[q]) + 1
             /\ executed'[q][Len(executed[q]) + 1] = c
             /\ \A k \in 1..Len(executed[q]) : executed'[q][k] = executed[q][k]
    <3>1. Len(executed[q]) \in Nat
      BY DEF TypeOK
    <3>2. i \in 1..Len(executed[q]) /\ executed'[q][i] = executed[q][i]
      BY <2>3, <3>1
    <3>3. CASE j \in 1..Len(executed[q])
      BY <2>3, <3>2, <3>3 DEF OrderInv
    <3>4. CASE j = Len(executed[q]) + 1
      <4>1. d[2] = c
        BY <2>3, <3>4
      <4>2. ~(d[1] < slot_out[q])
        BY <2>3, <4>1 DEF PerformInv
      <4>3. PICK e \in decisions[q] : e[1] < slot_out[q] /\ e[2] = executed[q][i]
        BY <3>2 DEF PerformInv
      <4>4. e[1] \in Nat /\ d[1] \in Nat /\ slot_out[q] \in Nat
        <5>1. decisions[q] \subseteq Slots \X Commands /\ slot_out[q] \in 1 .. MaxSlot + 1
          BY DEF TypeOK
        <5>2. e[1] \in Slots /\ d[1] \in Slots
          BY <4>3, <5>1
        <5> QED
          BY <5>1, <5>2 DEF Slots
      <4> QED
        BY <3>2, <4>2, <4>3, <4>4
    <3> QED
      BY <2>3, <3>1, <3>3, <3>4
  <2> QED
    BY <1>2, <2>2, <2>3, ExecutedEntries
<1>3. CASE UNCHANGED <<slot_out, decisions, executed>>
  <2>1. decisions' = decisions /\ executed' = executed
    BY <1>3
  <2> QED
    BY <2>1 DEF OrderInv
<1> QED
  BY <1>1, <1>2, <1>3, LogSteps

\* A replica that performs a slot another one has performed before performs the
\* command that the other one performed next.
LEMMA NextPerformed ==
  ASSUME IInv, OrderInv, PrefixInv,
         NEW r \in Replicas, NEW q \in Replicas, NEW c \in Commands,
         slot_out[r] \in Slots, <<slot_out[r], c>> \in decisions[r],
         ~Performed(r, c), slot_out[r] < slot_out[q]
  PROVE  /\ Len(executed[r]) < Len(executed[q])
         /\ executed[q][Len(executed[r]) + 1] = c
<1> USE DEF IInv
<1> DEFINE n == Len(executed[r])
<1>1. n \in Nat /\ Len(executed[q]) \in Nat
  BY DEF TypeOK
<1>2. slot_out[r] \in Nat /\ slot_out[q] \in Nat
  BY DEF TypeOK
<1>3. SamePrefix(executed[r], executed[q])
  BY <1>2 DEF PrefixInv
<1>4. <<slot_out[r], c>> \in decisions[q]
  <2>1. PICK d \in decisions[q] : d[1] = slot_out[r]
    BY DEF PerformInv
  <2>2. d = <<slot_out[r], c>>
    BY <2>1 DEF LogInv
  <2> QED
    BY <2>2
<1>5. PICK k \in 1..Len(executed[q]) : executed[q][k] = c
  BY <1>4 DEF PerformInv, Performed
<1>6. k > n
  <2> SUFFICES ASSUME k <= n PROVE FALSE
    BY <1>1
  <2>1. executed[r][k] = c
    BY <1>1, <1>3, <1>5 DEF SamePrefix
  <2> QED
    BY <1>1, <2>1 DEF Performed
<1>7. k = n + 1
  <2> SUFFICES ASSUME n + 1 < k PROVE FALSE
    BY <1>1, <1>6
  <2> DEFINE b == executed[q][n + 1]
  <2>1. n + 1 \in 1..Len(executed[q])
    BY <1>1
  <2>2. PICK e \in decisions[q] : e[2] = b /\ e[1] < slot_out[r]
    BY <1>4, <1>5, <2>1 DEF OrderInv
  <2>3. e[1] \in Slots
    BY DEF TypeOK
  <2>4. PICK f \in decisions[r] : f[1] = e[1]
    BY <2>2, <2>3 DEF PerformInv
  <2>5. f = e
    BY <2>4 DEF LogInv
  <2>6. PICK i \in 1..n : executed[r][i] = b
    BY <2>2, <2>4, <2>5 DEF PerformInv, Performed
  <2>7. i \in 1..Len(executed[q]) /\ executed[q][i] = b
    BY <1>1, <1>3, <2>6 DEF SamePrefix
  <2>8. i = n + 1
    BY <2>1, <2>7 DEF PerformedOnce
  <2> QED
    BY <1>1, <2>6, <2>8
<1> QED
  BY <1>1, <1>5, <1>7

\* Of two sequences without repetitions the longer one has more entries.
LEMMA SameEntries ==
  ASSUME NEW e, NEW f, Len(e) \in Nat, Len(f) \in Nat,
         SamePrefix(e, f), Distinct(f),
         \A i \in 1..Len(f) : \E k \in 1..Len(e) : e[k] = f[i]
  PROVE  SamePrefix(f, e)
<1>1. Len(f) <= Len(e)
  <2> SUFFICES ASSUME Len(e) + 1 <= Len(f) PROVE FALSE
    OBVIOUS
  <2>1. PICK k \in 1..Len(e) : e[k] = f[Len(e) + 1]
    OBVIOUS
  <2>2. k \in 1..Len(f) /\ f[k] = f[Len(e) + 1]
    BY <2>1 DEF SamePrefix
  <2> QED
    BY <2>2 DEF Distinct
<1> QED
  BY <1>1 DEF SamePrefix

\* A replica that is not behind has performed whatever another one has.
AheadPerformed ==
  \A p, q \in Replicas :
    slot_out[p] <= slot_out[q] =>
      \A i \in 1..Len(executed[p]) :
        \E k \in 1..Len(executed[q]) : executed[q][k] = executed[p][i]

LEMMA AheadPerformedHolds == IInv => AheadPerformed
<1> SUFFICES ASSUME IInv, NEW p \in Replicas, NEW q \in Replicas,
                    slot_out[p] <= slot_out[q], NEW i \in 1..Len(executed[p])
             PROVE  \E k \in 1..Len(executed[q]) : executed[q][k] = executed[p][i]
  BY DEF AheadPerformed
<1> USE DEF IInv
<1>1. PICK d \in decisions[p] : d[1] < slot_out[p] /\ d[2] = executed[p][i]
  BY DEF PerformInv
<1>2. d[1] \in Slots /\ d[1] \in Nat /\ slot_out[p] \in Nat /\ slot_out[q] \in Nat
  BY DEF TypeOK, Slots
<1>3. d[1] < slot_out[q]
  BY <1>1, <1>2
<1>4. PICK e \in decisions[q] : e[1] = d[1]
  BY <1>2, <1>3 DEF PerformInv
<1>5. e = d
  BY <1>4 DEF LogInv
<1> QED
  BY <1>1, <1>3, <1>4, <1>5 DEF PerformInv, Performed

LEMMA PrefixStep ==
  IInv /\ OrderInv /\ PrefixInv /\ [Next]_vars => PrefixInv'
<1> SUFFICES ASSUME IInv, OrderInv, PrefixInv, [Next]_vars PROVE PrefixInv'
  OBVIOUS
<1> USE DEF IInv
<1>1. ASSUME NEW r \in Replicas, NEW c \in Commands, ReplicaPerform(r, c)
      PROVE  PrefixInv'
  <2>1. /\ slot_out[r] \in Slots /\ <<slot_out[r], c>> \in decisions[r]
        /\ slot_out' = [slot_out EXCEPT ![r] = slot_out[r] + 1]
    BY <1>1, PerformEffect
  <2>2. IInv'
    BY InvNext
  <2>3. ASSUME NEW q \in Replicas
        PROVE  /\ Len(executed[q]) \in Nat /\ Len(executed'[q]) \in Nat
               /\ slot_out[q] \in Nat /\ slot_out'[q] \in Nat
               /\ slot_out'[q] = IF q = r THEN slot_out[q] + 1 ELSE slot_out[q]
               /\ q # r => executed'[q] = executed[q]
    <3>1. executed[q] \in Seq(Commands) /\ executed'[q] \in Seq(Commands)
      BY <2>2 DEF TypeOK
    <3>2. slot_out[q] \in Nat /\ slot_out'[q] \in Nat
      BY <2>2 DEF TypeOK
    <3>3. slot_out'[q] = IF q = r THEN slot_out[q] + 1 ELSE slot_out[q]
      BY <2>1 DEF TypeOK
    <3>4. q # r => executed'[q] = executed[q]
      BY <1>1, ExecutedEntries
    <3> QED
      BY <3>1, <3>2, <3>3, <3>4
  <2>4. ASSUME NEW q \in Replicas, q # r, slot_out[r] < slot_out[q]
        PROVE  SamePrefix(executed'[r], executed'[q])
    <3>1. SamePrefix(executed[r], executed[q]) /\ executed'[q] = executed[q]
      BY <2>3, <2>4 DEF PrefixInv
    <3>2. CASE executed'[r] = executed[r]
      BY <3>1, <3>2
    <3>3. CASE /\ ~Performed(r, c)
               /\ Len(executed'[r]) = Len(executed[r]) + 1
               /\ executed'[r][Len(executed[r]) + 1] = c
               /\ \A i \in 1..Len(executed[r]) : executed'[r][i] = executed[r][i]
      <4>1. /\ Len(executed[r]) < Len(executed[q])
            /\ executed[q][Len(executed[r]) + 1] = c
        BY <2>1, <2>4, <3>3, NextPerformed
      <4> QED
        BY <2>3, <3>1, <3>3, <4>1 DEF SamePrefix
    <3> QED
      BY <1>1, <3>2, <3>3, ExecutedEntries
  <2>5. ASSUME NEW q \in Replicas, q # r, slot_out[q] <= slot_out[r]
        PROVE  SamePrefix(executed'[q], executed'[r])
    <3>1. SamePrefix(executed[q], executed[r]) /\ executed'[q] = executed[q]
      BY <2>3, <2>5 DEF PrefixInv
    <3>2. /\ Len(executed[r]) <= Len(executed'[r])
          /\ \A i \in 1..Len(executed[r]) : executed'[r][i] = executed[r][i]
      BY <1>1, <2>3, ExecutedEntries
    <3> QED
      BY <2>3, <3>1, <3>2 DEF SamePrefix
  <2> SUFFICES ASSUME NEW p \in Replicas, NEW q \in Replicas,
                      slot_out'[p] <= slot_out'[q]
               PROVE  SamePrefix(executed'[p], executed'[q])
    BY DEF PrefixInv, SamePrefix
  <2>6. CASE p = q
    BY <2>3, <2>6 DEF SamePrefix
  <2>7. CASE p = r /\ q # r
    BY <2>3, <2>4, <2>7
  <2>8. CASE p # r /\ q # r
    BY <2>3, <2>8 DEF PrefixInv
  <2>9. CASE p # r /\ q = r /\ slot_out[p] <= slot_out[r]
    BY <2>5, <2>9
  <2>10. CASE p # r /\ q = r /\ slot_out[r] < slot_out[p]
    <3>1. SamePrefix(executed'[r], executed'[p])
      BY <2>4, <2>10
    <3>2. Distinct(executed'[p])
      BY <2>2 DEF PerformedOnce, Distinct
    <3>3. \A i \in 1..Len(executed'[p]) :
            \E k \in 1..Len(executed'[r]) : executed'[r][k] = executed'[p][i]
      <4>1. (slot_out[p] <= slot_out[r])'
        BY <2>10
      <4>2. AheadPerformed'
        BY <2>2, AheadPerformedHolds, PTL
      <4> QED
        BY <4>1, <4>2 DEF AheadPerformed
    <3> QED
      BY <2>3, <2>10, <3>1, <3>2, <3>3, SameEntries
  <2> QED
    BY <2>3, <2>6, <2>7, <2>8, <2>9, <2>10
<1>2. CASE UNCHANGED <<slot_out, executed>>
  BY <1>2 DEF PrefixInv, SamePrefix
<1> QED
  BY <1>1, <1>2, LogSteps

LEMMA OrderInit == Init => OrderInv /\ PrefixInv
BY DEF Init, OrderInv, PrefixInv, SamePrefix

LEMMA OrderInvariant == Spec => [](IInv /\ OrderInv /\ PrefixInv)
<1> QED
  BY OrderInit, InvInit, InvNext, OrderStep, PrefixStep, PTL DEF Spec

\* Any two replicas perform the same commands in the same order
\* (process_pending_decisions and perform, replica.ex), whatever order the
\* decisions reach them in.
PerformedAlike ==
  \A r, q \in Replicas :
    SamePrefix(executed[r], executed[q]) \/ SamePrefix(executed[q], executed[r])

\* Of two replicas one has always performed a prefix of what the other has.
THEOREM PerformedAlikeHolds == Spec => []PerformedAlike
<1>1. TypeOK /\ PrefixInv => PerformedAlike
  <2> SUFFICES ASSUME TypeOK, PrefixInv, NEW r \in Replicas, NEW q \in Replicas
               PROVE  SamePrefix(executed[r], executed[q])
                        \/ SamePrefix(executed[q], executed[r])
    BY DEF PerformedAlike
  <2>1. slot_out[r] <= slot_out[q] \/ slot_out[q] <= slot_out[r]
    BY DEF TypeOK
  <2> QED
    BY <2>1 DEF PrefixInv
<1> QED
  BY <1>1, OrderInvariant, PTL DEF IInv
-----------------------------------------------------------------------------
(***************************************************************************)
(* The databases and the monitor.                                          *)
(***************************************************************************)

Reports == [seqnum : Nat, op : Moves]

\* The types, with the sequences as wholes.
DBTypes ==
  /\ dbSeqnum \in [Replicas -> Nat]
  /\ balances \in [Replicas -> [Accounts -> Int]]
  /\ dbMoves \in [Replicas -> Seq(Reports)]
  /\ done \in [Replicas -> Nat]
  /\ log \in Seq(Moves)
  /\ halted \in BOOLEAN

\* A database executes what its replica has performed; what it has executed and
\* the monitor has not seen is in the monitor's mailbox.
ReportInv ==
  \A r \in Replicas :
    /\ dbSeqnum[r] <= Len(executed[r])
    /\ done[r] + Len(dbMoves[r]) = dbSeqnum[r]
    /\ \A i \in 1..Len(dbMoves[r]) :
         dbMoves[r][i] = [seqnum |-> done[r] + i, op |-> executed[r][done[r] + i].op]

\* op is the n-th transaction of some replica.
Transaction(n, op) ==
  \E q \in Replicas : n <= Len(executed[q]) /\ op = executed[q][n].op

\* The monitor has the transactions that some replica performed, in order, and
\* has not found an error.
MonitorInv ==
  /\ \A r \in Replicas : done[r] <= Len(log)
  /\ \A n \in 1..Len(log) : Transaction(n, log[n])
  /\ ~halted

\* All databases go through the same balances: history[n] is what the first n
\* transactions leave.
History(length, history) ==
  /\ history \in [0..length -> [Accounts -> Int]]
  /\ \A n \in 1..length :
       \E op : Transaction(n, op) /\ history[n] = apply_move(history[n - 1], op)
  /\ \A r \in Replicas :
       dbSeqnum[r] <= length /\ balances[r] = history[dbSeqnum[r]]

BalancesInv == \E length \in Nat : \E history : History(length, history)

DBInv == /\ IInv /\ OrderInv /\ PrefixInv
         /\ DBTypes /\ ReportInv /\ MonitorInv /\ BalancesInv
-----------------------------------------------------------------------------
\* The n-th transaction is the same one for all replicas.
LEMMA OneTransaction ==
  ASSUME TypeOK, PrefixInv, NEW n \in Nat \ {0}, NEW op, NEW r \in Replicas,
         Transaction(n, op), n <= Len(executed[r])
  PROVE  op = executed[r][n].op
<1>1. PICK q \in Replicas : n <= Len(executed[q]) /\ op = executed[q][n].op
  BY DEF Transaction
<1>2. /\ slot_out[r] <= slot_out[q] \/ slot_out[q] <= slot_out[r]
      /\ Len(executed[r]) \in Nat /\ Len(executed[q]) \in Nat
  BY DEF TypeOK
<1>3. n \in 1..Len(executed[r]) /\ n \in 1..Len(executed[q])
  BY <1>1, <1>2
<1>4. executed[q][n] = executed[r][n]
  BY <1>2, <1>3 DEF PrefixInv, SamePrefix
<1> QED
  BY <1>1, <1>4

\* What a replica has performed is an initial part of what it will have
\* performed.
LEMMA ExecutedGrows ==
  ASSUME IInv, [Next]_vars, NEW q \in Replicas
  PROVE  SamePrefix(executed[q], executed'[q])
<1> USE DEF IInv
<1>1. Len(executed[q]) \in Nat
  BY DEF TypeOK
<1>2. ASSUME NEW r \in Replicas, NEW c \in Commands, ReplicaPerform(r, c)
      PROVE  SamePrefix(executed[q], executed'[q])
  BY <1>1, <1>2, ExecutedEntries DEF SamePrefix
<1>3. CASE executed' = executed
  BY <1>1, <1>3 DEF SamePrefix
<1> QED
  BY <1>2, <1>3, LogSteps

LEMMA TransactionStays ==
  ASSUME IInv, [Next]_vars, NEW n \in Nat \ {0}, NEW op, Transaction(n, op)
  PROVE  Transaction(n, op)'
<1>1. PICK q \in Replicas : n <= Len(executed[q]) /\ op = executed[q][n].op
  BY DEF Transaction
<1>2. SamePrefix(executed[q], executed'[q])
  BY ExecutedGrows
<1>3. Len(executed[q]) \in Nat /\ Len(executed'[q]) \in Nat
  <2>1. TypeOK'
    BY TypeStep DEF IInv
  <2> QED
    BY <2>1 DEF IInv, TypeOK
<1>4. n <= Len(executed'[q]) /\ executed'[q][n] = executed[q][n]
  BY <1>1, <1>2, <1>3 DEF SamePrefix
<1> QED
  BY <1>1, <1>4 DEF Transaction

LEMMA CommandMoves ==
  ASSUME TypeOK, NEW r \in Replicas, NEW n \in 1..Len(executed[r])
  PROVE  executed[r][n].op \in Moves
<1>1. executed[r] \in Seq(Commands)
  BY DEF TypeOK
<1>2. executed[r][n] \in Commands
  BY <1>1
<1> QED
  BY <1>2 DEF Commands

\* A transaction takes balances to balances.
LEMMA MoveBalances ==
  ASSUME NEW b \in [Accounts -> Int], NEW op \in Moves
  PROVE  apply_move(b, op) \in [Accounts -> Int]
<1>1. /\ op.amount \in Int
      /\ op.account1 \in Accounts /\ op.account2 \in Accounts
  <2>1. op \in [amount : Nat, account1 : Accounts, account2 : Accounts]
    BY MovesAssumption
  <2> QED
    BY <2>1
<1> QED
  BY <1>1 DEF apply_move

LEMMA DBInvInit == DBInit => DBInv
<1> SUFFICES ASSUME DBInit PROVE DBInv
  OBVIOUS
<1> USE DEF DBInit
<1>1. IInv /\ OrderInv /\ PrefixInv
  BY InvInit, OrderInit
<1>2. \A r \in Replicas : executed[r] = <<>>
  BY DEF Init
<1>3. DBTypes
  <2>1. dbMoves \in [Replicas -> Seq(Reports)] /\ log \in Seq(Moves)
    OBVIOUS
  <2>2. balances \in [Replicas -> [Accounts -> Int]]
    OBVIOUS
  <2>3. dbSeqnum \in [Replicas -> Nat] /\ done \in [Replicas -> Nat]
    OBVIOUS
  <2> QED
    BY <2>1, <2>2, <2>3 DEF DBTypes
<1>4. ReportInv
  BY <1>2 DEF ReportInv
<1>5. MonitorInv
  BY DEF MonitorInv
<1>6. BalancesInv
  <2> DEFINE h == [n \in 0..0 |-> [a \in Accounts |-> 0]]
  <2>1. h \in [0..0 -> [Accounts -> Int]]
    OBVIOUS
  <2>2. \A r \in Replicas : dbSeqnum[r] <= 0 /\ balances[r] = h[dbSeqnum[r]]
    OBVIOUS
  <2>3. History(0, h)
    BY <2>1, <2>2 DEF History
  <2> QED
    BY <2>3 DEF BalancesInv
<1> QED
  BY <1>1, <1>3, <1>4, <1>5, <1>6 DEF DBInv

\* A step of the replicas.
LEMMA ReplicasStep ==
  DBInv /\ [Next]_vars /\ UNCHANGED <<dbVars, dbMoves, monitorVars>> => DBInv'
<1> SUFFICES ASSUME DBInv, [Next]_vars, UNCHANGED <<dbVars, dbMoves, monitorVars>>
             PROVE  DBInv'
  OBVIOUS
<1> USE DEF dbVars, monitorVars
<1>1. IInv /\ OrderInv /\ PrefixInv
  BY DEF DBInv
<1>2. IInv' /\ OrderInv' /\ PrefixInv'
  BY <1>1, InvNext, OrderStep, PrefixStep
<1>3. DBTypes'
  BY DEF DBInv, DBTypes
<1>4. \A q \in Replicas : Len(executed[q]) \in Nat /\ Len(executed'[q]) \in Nat
  BY <1>1, <1>2 DEF IInv, TypeOK
<1>5. ReportInv'
  <2> SUFFICES ASSUME NEW r \in Replicas
               PROVE
         /\ dbSeqnum[r] <= Len(executed'[r])
         /\ done[r] + Len(dbMoves[r]) = dbSeqnum[r]
         /\ \A i \in 1..Len(dbMoves[r]) :
              dbMoves[r][i] =
                [seqnum |-> done[r] + i, op |-> executed'[r][done[r] + i].op]
    BY DEF ReportInv
  <2>1. SamePrefix(executed[r], executed'[r])
    BY <1>1, ExecutedGrows
  <2>2. dbSeqnum[r] \in Nat /\ done[r] \in Nat /\ Len(dbMoves[r]) \in Nat
    BY DEF DBInv, DBTypes
  <2>3. /\ dbSeqnum[r] <= Len(executed[r])
        /\ done[r] + Len(dbMoves[r]) = dbSeqnum[r]
        /\ \A i \in 1..Len(dbMoves[r]) :
             dbMoves[r][i] =
               [seqnum |-> done[r] + i, op |-> executed[r][done[r] + i].op]
    BY DEF DBInv, ReportInv
  <2>4. \A i \in 1..Len(dbMoves[r]) : done[r] + i \in 1..Len(executed[r])
    BY <1>4, <2>2, <2>3
  <2>5. /\ Len(executed[r]) <= Len(executed'[r])
        /\ \A i \in 1..Len(executed[r]) : executed[r][i] = executed'[r][i]
    BY <2>1 DEF SamePrefix
  <2>6. \A i \in 1..Len(dbMoves[r]) :
          executed[r][done[r] + i] = executed'[r][done[r] + i]
    BY <2>4, <2>5
  <2>7. dbSeqnum[r] <= Len(executed'[r])
    BY <1>4, <2>2, <2>3, <2>5
  <2> QED
    BY <2>3, <2>6, <2>7
<1>6. MonitorInv'
  <2>1. \A n \in 1..Len(log) : Transaction(n, log[n])'
    <3>1. \A n \in 1..Len(log) : n \in Nat \ {0} /\ Transaction(n, log[n])
      BY DEF DBInv, MonitorInv
    <3> QED
      BY <1>1, <3>1, TransactionStays
  <2> QED
    BY <2>1 DEF DBInv, MonitorInv
<1>7. BalancesInv'
  <2>1a. PICK length \in Nat : \E h : History(length, h)
    BY DEF DBInv, BalancesInv
  <2>1. PICK h : History(length, h)
    BY <2>1a
  <2>2. \A n \in 1..length :
          \E op : Transaction(n, op)' /\ h[n] = apply_move(h[n - 1], op)
    <3> SUFFICES ASSUME NEW n \in 1..length
                 PROVE  \E op : Transaction(n, op)' /\ h[n] = apply_move(h[n - 1], op)
      OBVIOUS
    <3>1. PICK op : Transaction(n, op) /\ h[n] = apply_move(h[n - 1], op)
      BY <2>1 DEF History
    <3>2. Transaction(n, op)'
      BY <1>1, <3>1, TransactionStays
    <3> QED
      BY <3>1, <3>2
  <2>3. History(length, h)'
    BY <2>1, <2>2 DEF History
  <2> QED
    BY <2>3 DEF BalancesInv
<1> QED
  BY <1>2, <1>3, <1>5, <1>6, <1>7 DEF DBInv

\* The next transaction leaves what it left any database that came first.
LEMMA ExecuteBalances ==
  ASSUME DBInv, NEW r \in Replicas, DatabaseExecute(r)
  PROVE  BalancesInv'
<1> USE DEF DBInv
<1>1a. PICK m \in Nat : m = dbSeqnum[r] + 1
  BY DEF DBTypes
<1>1. PICK op, b :
        /\ m = dbSeqnum[r] + 1
        /\ op = executed[r][m].op
        /\ b = apply_move(balances[r], op)
  BY <1>1a
<1>2. /\ m <= Len(executed[r]) /\ executed' = executed
      /\ balances' = [balances EXCEPT ![r] = b]
      /\ dbSeqnum' = [dbSeqnum EXCEPT ![r] = m]
  BY <1>1 DEF DatabaseExecute, vars, replicaVars
<1>3. /\ m \in 1..Len(executed[r]) /\ m \in Nat \ {0}
      /\ m - 1 = dbSeqnum[r] /\ dbSeqnum[r] \in Nat
  <2>1. Len(executed[r]) \in Nat
    BY DEF IInv, TypeOK
  <2>2. dbSeqnum[r] \in Nat
    BY DEF DBTypes
  <2> QED
    BY <1>1, <1>2, <2>1, <2>2
<1>4. balances[r] \in [Accounts -> Int] /\ op \in Moves
  BY <1>1, <1>3, CommandMoves DEF DBTypes, IInv
<1>5. b \in [Accounts -> Int]
  BY <1>1, <1>4, MoveBalances
<1>6. Transaction(m, op)'
  BY <1>1, <1>2 DEF Transaction
<1>7a. PICK length \in Nat : \E h : History(length, h)
  BY DEF BalancesInv
<1>7. PICK h : History(length, h)
  BY <1>7a
<1>8. /\ h \in [0..length -> [Accounts -> Int]]
      /\ dbSeqnum[r] <= length /\ balances[r] = h[m - 1]
      /\ \A n \in 1..length :
           \E o : Transaction(n, o)' /\ h[n] = apply_move(h[n - 1], o)
      /\ \A q \in Replicas : dbSeqnum[q] <= length /\ balances[q] = h[dbSeqnum[q]]
  <2>1. \A n, o : Transaction(n, o) => Transaction(n, o)'
    BY <1>2 DEF Transaction
  <2> QED
    BY <1>3, <1>7, <2>1 DEF History
<1>9. \A q \in Replicas :
        /\ dbSeqnum[q] \in Nat
        /\ dbSeqnum'[q] = IF q = r THEN m ELSE dbSeqnum[q]
        /\ balances'[q] = IF q = r THEN b ELSE balances[q]
  BY <1>2 DEF DBTypes
<1>10. CASE m <= length
  <2>1. m \in 1..length
    BY <1>3, <1>10
  <2>2. PICK o : Transaction(m, o) /\ h[m] = apply_move(h[m - 1], o)
    BY <1>7, <2>1 DEF History
  <2>3. o = op
    BY <1>1, <1>2, <1>3, <2>2, OneTransaction DEF IInv
  <2>4. h[m] = b
    BY <1>1, <1>8, <2>2, <2>3
  <2>5. \A q \in Replicas :
          dbSeqnum'[q] <= length /\ balances'[q] = h[dbSeqnum'[q]]
    BY <1>8, <1>9, <1>10, <2>4
  <2>6. History(length, h)'
    BY <1>8, <2>5 DEF History
  <2> QED
    BY <2>6 DEF BalancesInv
<1>11. CASE ~(m <= length)
  <2> DEFINE g == [n \in 0..m |-> IF n = m THEN b ELSE h[n]]
  <2>1. length = m - 1
    BY <1>3, <1>8, <1>11
  <2>2. g \in [0..m -> [Accounts -> Int]]
    BY <1>3, <1>5, <1>8, <2>1
  <2>3. ASSUME NEW n \in 1..m
        PROVE  \E o : Transaction(n, o)' /\ g[n] = apply_move(g[n - 1], o)
    <3>1. CASE n = m
      <4>1. g[n] = b /\ g[n - 1] = balances[r]
        BY <1>3, <1>8, <2>1, <3>1
      <4>2. g[n] = apply_move(g[n - 1], op)
        BY <1>1, <4>1
      <4> QED
        BY <1>6, <3>1, <4>2
    <3>2. CASE n # m
      <4>1. n \in 1..length
        BY <1>3, <2>1, <3>2
      <4>2. g[n] = h[n] /\ g[n - 1] = h[n - 1]
        BY <1>3, <2>1, <4>1
      <4>3. PICK o : Transaction(n, o)' /\ h[n] = apply_move(h[n - 1], o)
        BY <1>8, <4>1
      <4> QED
        BY <4>2, <4>3
    <3> QED
      BY <3>1, <3>2
  <2>4. \A q \in Replicas : dbSeqnum'[q] <= m /\ balances'[q] = g[dbSeqnum'[q]]
    BY <1>3, <1>8, <1>9, <2>1
  <2> HIDE DEF g
  <2>5. History(m, g)'
    BY <2>2, <2>3, <2>4 DEF History
  <2> QED
    BY <2>5 DEF BalancesInv
<1> QED
  BY <1>10, <1>11

LEMMA DBTyping ==
  ASSUME TypeOK, DBTypes
  PROVE  \A q \in Replicas :
           /\ dbSeqnum[q] \in Nat /\ done[q] \in Nat
           /\ dbMoves[q] \in Seq(Reports)
           /\ Len(dbMoves[q]) \in Nat /\ Len(executed[q]) \in Nat
<1>1. \A q \in Replicas : executed[q] \in Seq(Commands)
  BY DEF TypeOK
<1>2. \A q \in Replicas : dbMoves[q] \in Seq(Reports)
  BY DEF DBTypes
<1> QED
  BY <1>1, <1>2 DEF DBTypes

LEMMA ExecuteStep ==
  ASSUME DBInv, NEW r \in Replicas, DatabaseExecute(r)
  PROVE  DBInv'
<1> USE DEF DBInv
<1>1a. PICK m \in Nat : m = dbSeqnum[r] + 1
  BY DEF DBTypes
<1>1. PICK op : m = dbSeqnum[r] + 1 /\ op = executed[r][m].op
  BY <1>1a
<1>2. /\ m <= Len(executed[r])
      /\ balances' = [balances EXCEPT ![r] = apply_move(balances[r], op)]
      /\ dbSeqnum' = [dbSeqnum EXCEPT ![r] = m]
      /\ dbMoves' = [dbMoves EXCEPT
                       ![r] = Append(dbMoves[r], [seqnum |-> m, op |-> op])]
      /\ UNCHANGED <<vars, done, log, halted>>
  BY <1>1 DEF DatabaseExecute, monitorVars
<1>3. IInv' /\ OrderInv' /\ PrefixInv'
  <2>1. UNCHANGED vars
    BY <1>2
  <2> QED
    BY <2>1, InvNext, OrderStep, PrefixStep
<1>4. executed' = executed
  BY <1>2 DEF vars, replicaVars
<1>5. \A q \in Replicas :
        /\ dbSeqnum[q] \in Nat /\ done[q] \in Nat
        /\ dbMoves[q] \in Seq(Reports)
        /\ Len(dbMoves[q]) \in Nat /\ Len(executed[q]) \in Nat
  BY DBTyping DEF IInv
<1>6. op \in Moves /\ balances[r] \in [Accounts -> Int]
  <2>1. m \in 1..Len(executed[r])
    BY <1>1, <1>2, <1>5
  <2> QED
    BY <1>1, <2>1, CommandMoves DEF DBTypes, IInv
<1>7. apply_move(balances[r], op) \in [Accounts -> Int]
  BY <1>6, MoveBalances
<1>8. DBTypes'
  <2>1. dbSeqnum' \in [Replicas -> Nat] /\ balances' \in [Replicas -> [Accounts -> Int]]
    BY <1>2, <1>7 DEF DBTypes
  <2>2. dbMoves' \in [Replicas -> Seq(Reports)]
    <3>1. Append(dbMoves[r], [seqnum |-> m, op |-> op]) \in Seq(Reports)
      <4>1. [seqnum |-> m, op |-> op] \in Reports
        BY <1>6 DEF Reports
      <4> QED
        BY <1>5, <4>1
    <3> QED
      BY <1>2, <3>1 DEF DBTypes
  <2> QED
    BY <1>2, <2>1, <2>2 DEF DBTypes
<1>9. ReportInv'
  <2> SUFFICES ASSUME NEW q \in Replicas
               PROVE
         /\ dbSeqnum'[q] <= Len(executed[q])
         /\ done[q] + Len(dbMoves'[q]) = dbSeqnum'[q]
         /\ \A i \in 1..Len(dbMoves'[q]) :
              dbMoves'[q][i] =
                [seqnum |-> done[q] + i, op |-> executed[q][done[q] + i].op]
    BY <1>2, <1>4 DEF ReportInv
  <2>1. /\ dbSeqnum[q] <= Len(executed[q])
        /\ done[q] + Len(dbMoves[q]) = dbSeqnum[q]
        /\ \A i \in 1..Len(dbMoves[q]) :
             dbMoves[q][i] =
               [seqnum |-> done[q] + i, op |-> executed[q][done[q] + i].op]
    BY DEF ReportInv
  <2>2. CASE q # r
    BY <1>2, <2>1, <2>2 DEF DBTypes
  <2>3. CASE q = r
    <3> DEFINE e == [seqnum |-> m, op |-> op]
    <3>1. dbSeqnum'[q] = m /\ dbMoves'[q] = Append(dbMoves[q], e)
      BY <1>2, <2>3 DEF DBTypes
    <3>2. /\ Len(dbMoves'[q]) = Len(dbMoves[q]) + 1
          /\ dbMoves'[q][Len(dbMoves[q]) + 1] = e
          /\ \A i \in 1..Len(dbMoves[q]) : dbMoves'[q][i] = dbMoves[q][i]
      BY <1>5, <1>6, <3>1
    <3>3. m = done[q] + (Len(dbMoves[q]) + 1)
      BY <1>1, <1>5, <2>1, <2>3
    <3>4. ASSUME NEW i \in 1..Len(dbMoves'[q])
          PROVE  dbMoves'[q][i] =
                   [seqnum |-> done[q] + i, op |-> executed[q][done[q] + i].op]
      <4>1. CASE i \in 1..Len(dbMoves[q])
        BY <2>1, <3>2, <4>1
      <4>2. CASE i = Len(dbMoves[q]) + 1
        BY <1>1, <2>3, <3>2, <3>3, <4>2
      <4> QED
        BY <1>5, <3>2, <4>1, <4>2
    <3> QED
      BY <1>2, <1>5, <2>1, <2>3, <3>1, <3>2, <3>3, <3>4
  <2> QED
    BY <2>2, <2>3
<1>10. MonitorInv'
  BY <1>2, <1>4 DEF MonitorInv, Transaction
<1> QED
  BY <1>3, <1>8, <1>9, <1>10, ExecuteBalances

\* The report of a database is the transaction that any other database reports
\* under the same number.
LEMMA MonitorStep ==
  ASSUME DBInv, NEW r \in Replicas, MonitorMove(r)
  PROVE  DBInv'
<1> USE DEF DBInv
<1>1. /\ dbMoves[r] # <<>>
      /\ dbMoves' = [dbMoves EXCEPT ![r] = Tail(@)]
      /\ UNCHANGED <<vars, dbSeqnum, balances>>
  BY DEF MonitorMove, dbVars
<1>2. IInv' /\ OrderInv' /\ PrefixInv'
  <2>1. UNCHANGED vars
    BY <1>1
  <2> QED
    BY <2>1, InvNext, OrderStep, PrefixStep
<1>3. executed' = executed
  BY <1>1 DEF vars, replicaVars
<1>4. \A q \in Replicas :
        /\ dbSeqnum[q] \in Nat /\ done[q] \in Nat
        /\ dbMoves[q] \in Seq(Reports)
        /\ Len(dbMoves[q]) \in Nat /\ Len(executed[q]) \in Nat
  BY DBTyping DEF IInv
<1>5a. PICK n \in Nat \ {0} : n = done[r] + 1
  BY <1>4
<1>5. PICK op : n = done[r] + 1 /\ op = executed[r][n].op
  BY <1>5a
<1>6. Len(dbMoves[r]) > 0
  BY <1>1, <1>4
<1> DEFINE m == Head(dbMoves[r])
<1>7. m.seqnum = n /\ m.op = op
  <2>1. m = [seqnum |-> n, op |-> op]
    BY <1>4, <1>5, <1>6 DEF ReportInv
  <2> QED
    BY <2>1
<1>8. n <= dbSeqnum[r] /\ n \in 1..Len(executed[r])
  BY <1>4, <1>5, <1>6 DEF ReportInv
<1>9. op \in Moves
  BY <1>5, <1>8, CommandMoves DEF IInv
<1>10. Transaction(n, op)
  BY <1>5, <1>8 DEF Transaction
<1>11. /\ log' = IF n \in DOMAIN log THEN log ELSE Append(log, op)
       /\ done' = [done EXCEPT ![r] = n]
  BY <1>7 DEF MonitorMove
<1>12. log \in Seq(Moves) /\ DOMAIN log = 1..Len(log) /\ Len(log) \in Nat
  BY DEF DBTypes
<1>13. done[r] <= Len(log)
  BY DEF MonitorInv
<1>14. \/ n \in 1..Len(log) /\ log' = log
       \/ n = Len(log) + 1 /\ log' = Append(log, op)
  <2>1. done[r] \in Nat
    BY <1>4
  <2>2. n \in 1..Len(log) \/ n = Len(log) + 1
    BY <1>5, <1>12, <1>13, <2>1
  <2>3. n = Len(log) + 1 => n \notin DOMAIN log
    BY <1>12
  <2> QED
    BY <1>11, <1>12, <2>2, <2>3
<1>15. halted' = FALSE
  <2>1. n \in 1..Len(log) => log[n] = op
    <3> SUFFICES ASSUME n \in 1..Len(log) PROVE log[n] = op
      OBVIOUS
    <3>1. Transaction(n, log[n])
      BY DEF MonitorInv
    <3>2. n <= Len(executed[r])
      BY <1>8
    <3>3. log[n] = executed[r][n].op
      BY <3>1, <3>2, OneTransaction DEF IInv
    <3> QED
      BY <1>5, <3>3
  <2>2. ~(n # done[r] + 1) /\ ~(n \in DOMAIN log /\ log[n] # op) /\ ~halted
    BY <1>5, <1>12, <2>1 DEF MonitorInv
  <2>3. halted' = (halted \/ n # done[r] + 1 \/ (n \in DOMAIN log /\ log[n] # op))
    BY <1>7, Zenon DEF MonitorMove
  <2> QED
    BY <2>2, <2>3
<1>16. /\ Len(log) <= Len(log') /\ n <= Len(log') /\ log' \in Seq(Moves)
       /\ \A i \in 1..Len(log') :
            \/ i \in 1..Len(log) /\ log'[i] = log[i]
            \/ i = n /\ log'[i] = op
  <2>1. CASE n \in 1..Len(log) /\ log' = log
    <3>1. Len(log') = Len(log) /\ n <= Len(log)
      BY <1>12, <2>1
    <3> QED
      BY <1>12, <2>1, <3>1
  <2>2. CASE n = Len(log) + 1 /\ log' = Append(log, op)
    <3>1. \A i \in 1..Len(Append(log, op)) :
            \/ i \in 1..Len(log) /\ Append(log, op)[i] = log[i]
            \/ i = Len(log) + 1 /\ Append(log, op)[i] = op
      BY <1>9, <1>12, AppendEntries
    <3>2. Len(log') = Len(log) + 1 /\ log' \in Seq(Moves)
      BY <1>9, <1>12, <2>2
    <3> QED
      BY <1>12, <2>2, <3>1, <3>2
  <2> QED
    BY <1>14, <2>1, <2>2
<1>17. MonitorInv'
  <2>1. \A q \in Replicas : done'[q] <= Len(log')
    BY <1>4, <1>11, <1>12, <1>16 DEF MonitorInv, DBTypes
  <2>2. \A i \in 1..Len(log') : Transaction(i, log'[i])
    BY <1>10, <1>16 DEF MonitorInv
  <2> QED
    BY <1>3, <1>15, <2>1, <2>2 DEF MonitorInv, Transaction
<1>18. DBTypes'
  <2>1. Tail(dbMoves[r]) \in Seq(Reports)
    <3>1. dbMoves[r] \in Seq(Reports) /\ dbMoves[r] # <<>>
      BY <1>1, <1>4
    <3> QED
      BY <3>1
  <2>2. halted' \in BOOLEAN
    BY <1>15
  <2> QED
    BY <1>1, <1>11, <1>16, <2>1, <2>2 DEF DBTypes
<1>19. ReportInv'
  <2> SUFFICES ASSUME NEW q \in Replicas
               PROVE
         /\ dbSeqnum[q] <= Len(executed[q])
         /\ done'[q] + Len(dbMoves'[q]) = dbSeqnum[q]
         /\ \A i \in 1..Len(dbMoves'[q]) :
              dbMoves'[q][i] =
                [seqnum |-> done'[q] + i, op |-> executed[q][done'[q] + i].op]
    BY <1>1, <1>3 DEF ReportInv
  <2>1. /\ dbSeqnum[q] <= Len(executed[q])
        /\ done[q] + Len(dbMoves[q]) = dbSeqnum[q]
        /\ \A i \in 1..Len(dbMoves[q]) :
             dbMoves[q][i] =
               [seqnum |-> done[q] + i, op |-> executed[q][done[q] + i].op]
    BY DEF ReportInv
  <2>2. CASE q # r
    BY <1>1, <1>11, <2>1, <2>2 DEF DBTypes
  <2>3. CASE q = r
    <3>1. dbMoves'[q] = Tail(dbMoves[q]) /\ done'[q] = done[q] + 1
      BY <1>1, <1>5, <1>11, <2>3 DEF DBTypes
    <3>2. /\ Len(dbMoves'[q]) = Len(dbMoves[q]) - 1
          /\ \A i \in 1..Len(dbMoves'[q]) : dbMoves'[q][i] = dbMoves[q][i + 1]
      BY <1>4, <1>6, <2>3, <3>1
    <3>3. ASSUME NEW i \in 1..Len(dbMoves'[q])
          PROVE  dbMoves'[q][i] =
                   [seqnum |-> done'[q] + i, op |-> executed[q][done'[q] + i].op]
      <4>1. i + 1 \in 1..Len(dbMoves[q]) /\ done[q] + (i + 1) = done'[q] + i
        <5>1. Len(dbMoves[q]) \in Nat /\ done[q] \in Nat /\ i \in Nat
          BY <1>4
        <5> QED
          BY <3>1, <3>2, <5>1
      <4> QED
        BY <2>1, <3>2, <4>1
    <3>4. done'[q] + Len(dbMoves'[q]) = dbSeqnum[q]
      <4>1. Len(dbMoves[q]) \in Nat /\ done[q] \in Nat /\ dbSeqnum[q] \in Nat
        BY <1>4
      <4> QED
        BY <2>1, <3>1, <3>2, <4>1
    <3> QED
      BY <2>1, <3>3, <3>4
  <2> QED
    BY <2>2, <2>3
<1>20. BalancesInv'
  <2>1a. PICK length \in Nat : \E h : History(length, h)
    BY DEF BalancesInv
  <2>1. PICK h : History(length, h)
    BY <2>1a
  <2>2. History(length, h)'
    BY <1>1, <1>3, <2>1 DEF History, Transaction
  <2> QED
    BY <2>2 DEF BalancesInv
<1> QED
  BY <1>2, <1>17, <1>18, <1>19, <1>20

LEMMA DBInvNext == DBInv /\ [DBNext]_allVars => DBInv'
<1> SUFFICES ASSUME DBInv, [DBNext]_allVars PROVE DBInv'
  OBVIOUS
<1>1. CASE UNCHANGED allVars
  <2>1. [Next]_vars /\ UNCHANGED <<dbVars, dbMoves, monitorVars>>
    BY <1>1 DEF allVars
  <2> QED
    BY <2>1, ReplicasStep
<1> QED
  BY <1>1, ReplicasStep, ExecuteStep, MonitorStep DEF DBNext

LEMMA DBInvariant == DBSpec => []DBInv
<1> QED
  BY DBInvInit, DBInvNext, PTL DEF DBSpec

\* Every replica that runs with a database is a replica of Replica.
LEMMA DBImplementsReplicas == DBSpec => Spec
<1>1. [DBNext]_allVars => [Next]_vars
  BY DEF DBNext, allVars, DatabaseExecute, MonitorMove
<1> QED
  BY <1>1, PTL DEF DBSpec, DBInit, Spec

\* The monitor never finds two databases that report different transactions
\* under one number, nor a report out of order (monitor.ex:133-149).
THEOREM MonitorNeverHaltsHolds == DBSpec => []MonitorNeverHalts
<1>1. DBInv => MonitorNeverHalts
  BY DEF DBInv, MonitorInv, MonitorNeverHalts
<1> QED
  BY <1>1, DBInvariant, PTL

\* Databases that have executed equally many transactions have the same
\* balances (database.ex).
THEOREM DatabasesAgreeHolds == DBSpec => []DatabasesAgree
<1>1. DBInv => DatabasesAgree
  <2> SUFFICES ASSUME DBInv PROVE DatabasesAgree
    OBVIOUS
  <2>1. DBTypeOK
    <3>1. \A r \in Replicas : \A i \in 1..Len(dbMoves[r]) : dbMoves[r][i] \in Reports
      BY DEF DBInv, DBTypes
    <3>2. \A i \in 1..Len(log) : log[i] \in Moves
      BY DEF DBInv, DBTypes
    <3> QED
      BY <3>1, <3>2 DEF DBInv, DBTypes, DBTypeOK, Reports
  <2>2a. PICK length \in Nat : \E h : History(length, h)
    BY DEF DBInv, BalancesInv
  <2>2. PICK h : History(length, h)
    BY <2>2a
  <2>3. \A r, q \in Replicas : dbSeqnum[r] = dbSeqnum[q] => balances[r] = balances[q]
    BY <2>2 DEF History
  <2> QED
    BY <2>1, <2>3 DEF DatabasesAgree
<1> QED
  BY <1>1, DBInvariant, PTL
=============================================================================
