------------------------------ MODULE Database ------------------------------
(***************************************************************************)
(* The databases (consensus/lib/database.ex), one per server, and the part *)
(* of the monitor (monitor.ex) that compares what they do.  A replica      *)
(* sends EXECUTE to the database of its server, which applies the          *)
(* transaction and reports it to the monitor.  Messages from one process   *)
(* to another arrive in the order in which they were sent, so that the     *)
(* mailbox of database r is what r's replica has sent, `executed[r]', from *)
(* the first message the database has not handled.                         *)
(*                                                                         *)
(* The monitor is one process and takes the reports of several databases   *)
(* in any order.  Its counters and prints are left out.                    *)
(***************************************************************************)
EXTENDS Replica

CONSTANT Accounts   \* the bank accounts, 1..n_accounts

\* {:MOVE, amount, account1, account2, id}.
ASSUME MovesAssumption ==
  Moves \subseteq [amount : Nat, account1 : Accounts, account2 : Accounts]

VARIABLES
  dbSeqnum,   \* dbSeqnum[r]: the number of transactions executed
  balances,   \* balances[r]: the accounts, all 0 at first
  dbMoves,    \* dbMoves[r]: DB_MOVEs of database r not handled by the monitor
  done,       \* done[r]: the last DB_MOVE of database r that was handled
  log,        \* log[n]: the n-th transaction, as first reported
  halted      \* the monitor has found an error and stops its node

dbVars == <<dbSeqnum, balances>>
monitorVars == <<done, log, halted>>
allVars == <<vars, dbVars, dbMoves, monitorVars>>

\* The types of the databases' and the monitor's state and messages.
DBTypeOK ==
  /\ dbSeqnum \in [Replicas -> Nat]
  /\ balances \in [Replicas -> [Accounts -> Int]]
  /\ \A r \in Replicas : \A i \in 1..Len(dbMoves[r]) :
       dbMoves[r][i] \in [seqnum : Nat, op : Moves]
  /\ done \in [Replicas -> Nat]
  /\ \A i \in 1..Len(log) : log[i] \in Moves
  /\ halted \in BOOLEAN
-----------------------------------------------------------------------------
\* The balances after a transaction.  Both new balances are computed from the
\* old ones; with one account on both sides the second replaces the first.
apply_move(b, op) ==
  [[b EXCEPT ![op.account1] = b[op.account1] + op.amount]
     EXCEPT ![op.account2] = b[op.account2] - op.amount]

\* {:EXECUTE, transaction}.
DatabaseExecute(r) ==
  LET n == dbSeqnum[r] + 1
      op == executed[r][n].op
  IN  /\ n <= Len(executed[r])
      /\ balances' = [balances EXCEPT ![r] = apply_move(@, op)]
      /\ dbSeqnum' = [dbSeqnum EXCEPT ![r] = n]
      /\ dbMoves' = [dbMoves EXCEPT ![r] = Append(@, [seqnum |-> n, op |-> op])]
      /\ UNCHANGED <<vars, monitorVars>>

\* {:DB_MOVE, db, seqnum, transaction}: the reports of a database must come one
\* by one, and the first report of a transaction is the reference for all other
\* databases.  node_halt only asks the node to stop, so the handler goes on.
MonitorMove(r) ==
  LET m == Head(dbMoves[r])
      known == m.seqnum \in DOMAIN log
  IN  /\ dbMoves[r] # <<>>
      /\ halted' = (\/ halted
                    \/ m.seqnum # done[r] + 1
                    \/ known /\ log[m.seqnum] # m.op)
      /\ log' = IF known THEN log ELSE Append(log, m.op)
      /\ done' = [done EXCEPT ![r] = m.seqnum]
      /\ dbMoves' = [dbMoves EXCEPT ![r] = Tail(@)]
      /\ UNCHANGED <<vars, dbVars>>
-----------------------------------------------------------------------------
DBInit ==
  /\ Init
  /\ dbSeqnum = [r \in Replicas |-> 0]
  /\ balances = [r \in Replicas |-> [a \in Accounts |-> 0]]
  /\ dbMoves = [r \in Replicas |-> <<>>]
  /\ done = [r \in Replicas |-> 0]
  /\ log = <<>>
  /\ halted = FALSE

DBNext ==
  \/ Next /\ UNCHANGED <<dbVars, dbMoves, monitorVars>>
  \/ \E r \in Replicas : DatabaseExecute(r)
  \/ \E r \in Replicas : MonitorMove(r)

DBSpec == DBInit /\ [][DBNext]_allVars
-----------------------------------------------------------------------------
\* The monitor never finds a database that reports another transaction than the
\* one first reported under the same number (monitor.ex:133-149).
MonitorNeverHalts == ~halted

\* Two databases that have executed equally many transactions have the same
\* balances, whatever order requests and decisions took to their replicas.
DatabasesAgree ==
  /\ DBTypeOK
  /\ \A r, q \in Replicas : dbSeqnum[r] = dbSeqnum[q] => balances[r] = balances[q]
=============================================================================
