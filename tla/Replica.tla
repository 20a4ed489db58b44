------------------------------- MODULE Replica -------------------------------
(***************************************************************************)
(* The replicas (consensus/lib/replica.ex) and the clients (client.ex), on *)
(* top of the abstract log of ReplicatedLog, which the consensus core      *)
(* implements (see Synod).  A replica proposes the requests of its clients *)
(* for slots of the log, at most WindowSize slots ahead of the next one to *)
(* perform, and performs the decided commands in slot order.               *)
(*                                                                         *)
(* A replica is one process.  Each handler ends in a loop that calls       *)
(* itself: process_pending_decisions, then propose.  `pc' says which of    *)
(* them runs; one step of the model is one iteration, and a replica reads  *)
(* no message before it is back in "next".  `if c, do: self |> next' does  *)
(* not fall through: next never returns.                                   *)
(*                                                                         *)
(* A DECISION may arrive at any time after its slot was decided, in any    *)
(* order, and several times: each leader's commander for the slot sends    *)
(* one.  No client sends a reconfiguration command (replica.ex:127), so    *)
(* try_to_reconfigure and isreconfig? never do anything and are left out.  *)
(***************************************************************************)
EXTENDS Integers, Sequences, FiniteSets, SequencesExt

CONSTANTS
  NumServers,   \* n_servers: number of replicas
  Clients,      \* the client processes
  Moves,        \* the transactions a client may draw
  MaxRequests,  \* max_requests: requests per client
  Quorum,       \* the number of replicas a client sends a request to
  WindowSize,   \* window_size
  MaxSlot,      \* bound on the slots that are proposed for
  Correct       \* the replicas on servers that do not crash

ASSUME NumServersAssumption == NumServers \in Nat \ {0}
ASSUME QuorumAssumption == Quorum \in 1..NumServers
ASSUME WindowSizeAssumption == WindowSize \in Nat \ {0}
ASSUME BoundsAssumption == MaxRequests \in Nat /\ MaxSlot \in Nat

\* list_to_map numbers the replicas from 0.
Replicas == 0 .. NumServers - 1
Slots == 1..MaxSlot

ASSUME CorrectAssumption == Correct \subseteq Replicas

\* {client, cid, op}: the transaction id in op repeats client and cid.
Commands == [client : Clients, cid : 1..MaxRequests, op : Moves]

VARIABLES
  seqnum,      \* seqnum[k]: requests client k has sent
  requestsTo,  \* requestsTo[r]: CLIENT_REQUESTs that r has not handled
  replies,     \* replies[k]: the messages in the mailbox of client k
  proposed,    \* the <<slot, command>> pairs sent to the leaders
  chosen,      \* the <<slot, command>> pairs the leaders have decided
  pc,          \* pc[r]: the function replica r is in
  slot_in,     \* slot_in[r]: the next slot to propose for
  slot_out,    \* slot_out[r]: the next slot to perform
  requests,    \* requests[r]: commands to propose
  proposals,   \* proposals[r]: the <<slot, command>> pairs not yet performed
  decisions,   \* decisions[r]: the decisions received
  executed     \* executed[r]: the EXECUTE messages sent to the database

clientVars == <<seqnum, requestsTo, replies>>
loopVars == <<slot_in, slot_out, requests, proposals>>
replicaVars == <<pc, loopVars, decisions, executed>>
vars == <<clientVars, proposed, chosen, replicaVars>>

Log == INSTANCE ReplicatedLog WITH learned <- decisions

Reply(t, r, c) == [type |-> t, from |-> r, command |-> c]

\* The types of the clients' and replicas' state and mailboxes; a replica never
\* proposes beyond the window.
TypeOK ==
  /\ seqnum \in [Clients -> 0..MaxRequests]
  /\ requestsTo \in [Replicas -> SUBSET Commands]
  /\ replies \in [Clients -> SUBSET
       [type : {"CLIENT_RESPONSE"}, from : Replicas, command : Commands]]
  /\ proposed \subseteq Slots \X Commands
  /\ chosen \subseteq Slots \X Commands
  /\ pc \in [Replicas -> {"next", "pending", "propose", "exited"}]
  /\ slot_out \in [Replicas -> 1 .. MaxSlot + 1]
  /\ slot_in \in [Replicas -> Nat \ {0}]
  /\ \A r \in Replicas : slot_in[r] <= slot_out[r] + WindowSize
  /\ requests \in [Replicas -> SUBSET Commands]
  /\ proposals \in [Replicas -> SUBSET (Slots \X Commands)]
  /\ decisions \in [Replicas -> SUBSET (Slots \X Commands)]
  /\ executed \in [Replicas -> Seq(Commands)]
-----------------------------------------------------------------------------
(***************************************************************************)
(* Clients.                                                                *)
(***************************************************************************)

\* The replicas that get request number n of a client.
Targets(n) == {(n + i) % NumServers : i \in 1..Quorum}

\* receive_replies drops the messages of type CLIENT_REPLY from the mailbox.
receive_replies(mailbox) == {m \in mailbox : m.type # "CLIENT_REPLY"}

\* One round of next/1: send the next request, then drain the replies.  After
\* max_requests, or on a timer, the client sleeps forever; it may stop here at
\* any time.
ClientRequest(k, move) ==
  LET n == seqnum[k] + 1
      c == [client |-> k, cid |-> n, op |-> move]
  IN  /\ n <= MaxRequests
      /\ seqnum' = [seqnum EXCEPT ![k] = n]
      /\ requestsTo' = [r \in Replicas |-> IF r \in Targets(n)
                                           THEN requestsTo[r] \cup {c}
                                           ELSE requestsTo[r]]
      /\ replies' = [replies EXCEPT ![k] = receive_replies(@)]
      /\ UNCHANGED <<proposed, chosen, replicaVars>>
-----------------------------------------------------------------------------
(***************************************************************************)
(* Replica r.                                                              *)
(***************************************************************************)

\* {:CLIENT_REQUEST, c}.
ReplicaRequest(r, c) ==
  /\ pc[r] = "next"
  /\ c \in requestsTo[r]
  /\ requestsTo' = [requestsTo EXCEPT ![r] = @ \ {c}]
  /\ requests' = [requests EXCEPT ![r] = @ \cup {c}]
  /\ pc' = [pc EXCEPT ![r] = "propose"]
  /\ UNCHANGED <<seqnum, replies, proposed, chosen, slot_in, slot_out,
                 proposals, decisions, executed>>

\* {:DECISION, s, c}.
ReplicaDecision(r, s, c) ==
  /\ pc[r] = "next"
  /\ Log!LogLearn(r, s, c)
  /\ pc' = [pc EXCEPT ![r] = "pending"]
  /\ UNCHANGED <<clientVars, loopVars, executed>>

\* Mutants of already_processed?: only the previous slot, or any other slot,
\* is looked at.
processed_just_before(r, c) == <<slot_out[r] - 1, c>> \in decisions[r]
processed_anywhere(r, c) ==
  \E s \in Slots : s # slot_out[r] /\ <<s, c>> \in decisions[r]

\* The command was decided in an earlier slot as well.
already_processed(r, c) ==
  \E s \in Slots : s < slot_out[r] /\ <<s, c>> \in decisions[r]

get_proposals_for_slot(r, s) == {p \in proposals[r] : p[1] = s}

requests_forgotten(r, c) == {}   \* mutant: what lost its slot is dropped

\* The replica's own proposal for the slot lost: propose its command again.
requests_to_repeat(r, c) ==
  {p[2] : p \in get_proposals_for_slot(r, slot_out[r])} \ {c}

\* process_pending_decisions with a decision c for slot_out, and perform: an
\* EXECUTE to the database and a CLIENT_RESPONSE to the client, unless the
\* command was performed before.  With two proposals for the slot the replica
\* exits and sends nothing; its own state no longer matters then.
ReplicaPerform(r, c) ==
  LET own == get_proposals_for_slot(r, slot_out[r])
      exits == Cardinality(own) > 1
      fresh == ~exits /\ ~already_processed(r, c)
  IN  /\ pc[r] = "pending"
      /\ <<slot_out[r], c>> \in decisions[r]
      /\ pc' = [pc EXCEPT ![r] = IF exits THEN "exited" ELSE @]
      /\ proposals' = [proposals EXCEPT ![r] = @ \ own]
      /\ requests' = [requests EXCEPT ![r] = @ \cup requests_to_repeat(r, c)]
      /\ executed' = [executed EXCEPT ![r] = IF fresh THEN Append(@, c) ELSE @]
      /\ replies' = [replies EXCEPT ![c.client] =
                       IF fresh THEN @ \cup {Reply("CLIENT_RESPONSE", r, c)}
                       ELSE @]
      /\ slot_out' = [slot_out EXCEPT ![r] = @ + 1]
      /\ UNCHANGED <<seqnum, requestsTo, proposed, chosen, slot_in, decisions>>

\* process_pending_decisions without one: go on to propose.
ReplicaCaughtUp(r) ==
  /\ pc[r] = "pending"
  /\ \A d \in decisions[r] : d[1] # slot_out[r]
  /\ pc' = [pc EXCEPT ![r] = "propose"]
  /\ UNCHANGED <<clientVars, proposed, chosen, loopVars, decisions, executed>>

keep_slot_in(r) == slot_in   \* mutant: the same slot is proposed for again

increment_slot_in(r) == [slot_in EXCEPT ![r] = @ + 1]

outside_current_config_window(r) == slot_in[r] >= slot_out[r] + WindowSize

slot_in_already_decided(r) ==
  Cardinality({d \in decisions[r] : d[1] = slot_in[r]}) = 1

\* The early return of propose: wait for the next message.
ReplicaWait(r) ==
  /\ pc[r] = "propose"
  /\ outside_current_config_window(r) \/ requests[r] = {}
  /\ pc' = [pc EXCEPT ![r] = "next"]
  /\ UNCHANGED <<clientVars, proposed, chosen, loopVars, decisions, executed>>

\* propose passes over a slot that it knows to be decided.
ReplicaSkipSlot(r) ==
  /\ pc[r] = "propose"
  /\ ~outside_current_config_window(r) /\ requests[r] # {}
  /\ slot_in_already_decided(r)
  /\ slot_in' = increment_slot_in(r)
  /\ UNCHANGED <<clientVars, proposed, chosen, pc, slot_out, requests,
                 proposals, decisions, executed>>

\* propose sends some request to the leaders, for slot_in.  The code takes the
\* first one in the runtime's order of a set.
ReplicaPropose(r, c) ==
  /\ pc[r] = "propose"
  /\ ~outside_current_config_window(r) /\ c \in requests[r]
  /\ ~slot_in_already_decided(r)
  /\ slot_in[r] <= MaxSlot
  /\ Log!LogPropose(slot_in[r], c)
  /\ requests' = [requests EXCEPT ![r] = @ \ {c}]
  /\ proposals' = [proposals EXCEPT ![r] = @ \cup {<<slot_in[r], c>>}]
  /\ slot_in' = increment_slot_in(r)
  /\ UNCHANGED <<clientVars, pc, slot_out, executed>>
-----------------------------------------------------------------------------
\* The leaders decide one of the proposals for slot s.
Decide(s, c) ==
  /\ Log!LogChoose(s, c)
  /\ UNCHANGED <<clientVars, pc, loopVars, executed>>

Init ==
  /\ Log!LogInit
  /\ seqnum = [k \in Clients |-> 0]
  /\ requestsTo = [r \in Replicas |-> {}]
  /\ replies = [k \in Clients |-> {}]
  /\ pc = [r \in Replicas |-> "next"]
  /\ slot_in = [r \in Replicas |-> 1]
  /\ slot_out = [r \in Replicas |-> 1]
  /\ requests = [r \in Replicas |-> {}]
  /\ proposals = [r \in Replicas |-> {}]
  /\ executed = [r \in Replicas |-> <<>>]

\* The loops of replica r, which need no message.
ReplicaLoop(r) ==
  \/ \E c \in Commands : ReplicaPerform(r, c)
  \/ ReplicaCaughtUp(r)
  \/ ReplicaWait(r)
  \/ ReplicaSkipSlot(r)
  \/ \E c \in Commands : ReplicaPropose(r, c)

Next ==
  \/ \E k \in Clients, move \in Moves : ClientRequest(k, move)
  \/ \E s \in Slots, c \in Commands : Decide(s, c)
  \/ \E r \in Replicas, c \in Commands : ReplicaRequest(r, c)
  \/ \E r \in Replicas, s \in Slots, c \in Commands : ReplicaDecision(r, s, c)
  \/ \E r \in Replicas : ReplicaLoop(r)

Spec == Init /\ [][Next]_vars

\* A server that does not crash runs its replica, which takes messages in the
\* order in which they arrived: none waits forever, even while the leaders keep
\* repeating old decisions.  The leaders decide every slot that is proposed for.
FairSpec ==
  /\ Spec
  /\ WF_vars(\E s \in Slots, c \in Commands : Decide(s, c))
  /\ \A r \in Correct :
       /\ WF_vars(ReplicaLoop(r))
       /\ SF_vars(\E c \in Commands : ReplicaRequest(r, c))
       /\ SF_vars(\E s \in Slots, c \in Commands :
                    <<s, c>> \notin decisions[r] /\ ReplicaDecision(r, s, c))
-----------------------------------------------------------------------------
(***************************************************************************)
(* What clients and servers rely on.                                       *)
(***************************************************************************)

\* A command is performed at most once by each replica, although several
\* replicas propose it and it may be decided in several slots.
PerformedOnce ==
  \A r \in Replicas : \A i, j \in 1..Len(executed[r]) :
    executed[r][i] = executed[r][j] => i = j

\* No replica ever gives up: the error of replica.ex:196-201, two proposals of
\* its own for one slot, cannot occur.
NoReplicaExits == \A r \in Replicas : pc[r] # "exited"

\* The requests replica r is still responsible for, or has performed.
Held(r) ==
  requestsTo[r] \cup requests[r]
    \cup {p[2] : p \in {p \in proposals[r] : p[1] >= slot_out[r]}}
    \cup {executed[r][i] : i \in 1..Len(executed[r])}

\* A replica never loses a request: when the slot it proposed a request for is
\* decided with another command, the request goes back to those to propose.
NoRequestLost == [][\A r \in Replicas : Held(r) \subseteq Held(r)']_vars

Performed(r, c) == \E i \in 1..Len(executed[r]) : executed[r][i] = c

\* A server that does not crash performs every request that reaches it, and every
\* request that any server performed, wherever the other servers stop.
EveryRequestPerformed ==
  \A q \in Correct, c \in Commands :
    c \in requestsTo[q] \/ (\E r \in Replicas : Performed(r, c))
      ~> Performed(q, c)
-----------------------------------------------------------------------------
(***************************************************************************)
(* Clients and replicas implement the abstract state machine: a request    *)
(* takes effect when it is decided in a slot below which all slots are     *)
(* decided, unless it already did in a lower slot.                         *)
(***************************************************************************)
CommandIn(s) == {e[2] : e \in {e \in chosen : e[1] = s}}

\* The effect of the slots up to s: once a slot is open, none above it counts.
HistoryUpTo[s \in 0..MaxSlot] ==
  IF s = 0 THEN <<>>
  ELSE LET before == HistoryUpTo[s - 1]
       IN  IF \E t \in 1..s : CommandIn(t) = {} THEN before
           ELSE before \o SetToSeq(CommandIn(s) \ ToSet(before))

\* The requests clients have sent.
Requested ==
  (UNION {requestsTo[r] \cup requests[r] \cup {p[2] : p \in proposals[r]}
            \cup ToSet(executed[r]) : r \in Replicas})
    \cup {e[2] : e \in proposed}

Machine == INSTANCE StateMachine WITH requested <- Requested,
                                      history <- HistoryUpTo[MaxSlot]

\* Every replica performs one and the same history, in which a client's request
\* takes effect at most once (replica.ex and client.ex together).
ImplementsMachine == Machine!MachineSpec
=============================================================================
