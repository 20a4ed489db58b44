---------------------------- MODULE DeviceProofs ----------------------------
(***************************************************************************)
(* The serial port loses no character and prints no line into another,     *)
(* for any threads and any size of the queues; and what threads read from  *)
(* and write to the disks is in the sector they asked for, for any disks,  *)
(* partitions and threads.  The time that is read off the clock is the     *)
(* time at one moment.                                                     *)
(***************************************************************************)
EXTENDS Serial, Ide, Terminal, Clock, SequenceTheorems, WellFoundedInduction, TLAPS

(***************************************************************************)
(* The queues of intq.c are rings.                                         *)
(***************************************************************************)
Positions == 0 .. INTQ_BUFSIZE - 1
Waiters == Writers \cup Readers \cup {NULL}
QueueFields == [buf : [Positions -> Chars \cup {NULL}], head : Positions, tail : Positions,
                not_full : Waiters, not_empty : Waiters, lock : Waiters,
                queue : Seq(Writers \cup Readers)]
\* What is between tail and head are characters.
Queues == {q \in QueueFields : contents(q) \in Seq(Chars)}

PortInv ==
  /\ txq \in Queues /\ rxq \in Queues
  /\ at \in [Writers \cup Readers -> Places]
  /\ thr \in Chars \cup {NULL} /\ rbr \in Chars \cup {NULL}
  /\ unsent = (IF thr = NULL THEN <<>> ELSE <<thr>>) \o contents(txq)
  /\ unread = contents(rxq)

\* The depth counts the calls but the outermost one of the thread that has the console.
ConsoleInv ==
  /\ inside \in [Writers -> Nat]
  /\ console_lock \in Writers \cup {NULL}
  /\ \A t \in Writers : inside[t] > 0 => console_lock = t
  /\ console_lock_depth = IF console_lock = NULL THEN 0 ELSE inside[console_lock] - 1
  /\ console_lock_depth \in Nat

(***************************************************************************)
(* The channel.                                                            *)
(***************************************************************************)
Busy == {"select", "registers", "issue", "wait", "poll", "transfer", "unlock"}
Requests == [op : Ops, part : Partitions, sector : Nat]
Asked(t) == partition_sector(t)

\* What the controller and the semaphore are like while the thread that has the channel is at
\* the given place.
AtRest == status = "idle" /\ command = NONE /\ completion_wait = 0
Doing(op, t) == command = [op |-> op, sector |-> Asked(t)]
Completing(ready) ==
  \/ ready = "data" /\ status = "busy" /\ ~intrq /\ completion_wait = 0
  \/ status = ready /\ intrq /\ completion_wait = 0
  \/ status = ready /\ ~intrq /\ completion_wait = 1
Stage(t) ==
  LET op == request[t].op IN
  CASE pc[t] = "select" -> AtRest /\ (intrq => ~expecting_interrupt)
    [] pc[t] = "registers" -> AtRest /\ ~intrq /\ selected = Asked(t)[1]
    [] pc[t] = "issue" -> AtRest /\ ~intrq /\ <<selected, lba>> = Asked(t)
    [] pc[t] = "wait" /\ op = "read" ->
         expecting_interrupt /\ Doing("read", t) /\ Completing("data")
    [] pc[t] = "poll" /\ op = "read" ->
         expecting_interrupt /\ Doing("read", t) /\ status = "data" /\ ~intrq /\ completion_wait = 0
    [] pc[t] = "transfer" /\ op = "read" ->
         expecting_interrupt /\ Doing("read", t) /\ status = "data" /\ ~intrq /\ completion_wait = 0
    [] pc[t] = "poll" /\ op = "write" ->
         /\ expecting_interrupt /\ Doing("write", t) /\ status \in {"busy", "data"}
         /\ ~intrq /\ completion_wait = 0
    [] pc[t] = "transfer" /\ op = "write" ->
         expecting_interrupt /\ Doing("write", t) /\ status = "data" /\ ~intrq /\ completion_wait = 0
    [] pc[t] = "wait" /\ op = "write" ->
         /\ expecting_interrupt
         /\ \/ Doing("store", t) /\ status = "busy" /\ ~intrq /\ completion_wait = 0
            \/ /\ command = NONE /\ media[Asked(t)] = t /\ status = "idle"
               /\ (intrq /\ completion_wait = 0) \/ (~intrq /\ completion_wait = 1)
    [] pc[t] = "unlock" ->
         /\ expecting_interrupt /\ AtRest /\ ~intrq
         /\ IF op = "read" THEN result[t] = media[Asked(t)] ELSE media[Asked(t)] = t
    [] OTHER -> FALSE

ChannelTyped ==
  /\ IdeTypeOK /\ ~damaged
  /\ intrq \in BOOLEAN /\ expecting_interrupt \in BOOLEAN
  /\ result \in [DiskUsers -> DiskUsers \cup {NONE}]
  /\ request \in [DiskUsers -> Requests \cup {NONE}]
  /\ \A t \in DiskUsers : pc[t] # "idle" =>
       request[t] \in Requests /\ request[t].sector < request[t].part.size
  /\ pc \in [DiskUsers -> Busy \cup {"idle", "lock"}]

ChannelInv ==
  /\ ChannelTyped
  /\ \A t \in DiskUsers : pc[t] \in Busy <=> chan_lock = t
  /\ chan_lock = NONE => AtRest /\ (intrq => ~expecting_interrupt)
  /\ \A t \in DiskUsers : chan_lock = t => Stage(t)

(***************************************************************************)
(* The partitions.                                                         *)
(***************************************************************************)
Tables == Seq(Entries)
Frames == [sector : Nat, primary : Nat, table : Tables, i : Nat \ {0}]

TablesInv ==
  /\ disk \in Layouts
  /\ stack \in Seq(Frames)
  /\ \A p \in found : p.start \in Nat /\ p.size \in Nat
  /\ PartitionsOnDisk

(***************************************************************************)
(* The keyboard and the screen.                                            *)
(***************************************************************************)
\* What an ordinary key stands for while the given keys are held.
StandsFor(key, keys, caps) ==
  LET Held(S) == S \cap keys # {}
      plain == CASE key = 30 -> IF Held({LShift, RShift}) # caps THEN 65 ELSE 97
                 [] key = 2 -> IF Held({LShift, RShift}) THEN 33 ELSE 49
                 [] key = 26 -> IF Held({LShift, RShift}) THEN 123 ELSE 91
                 [] key = 83 -> 127
                 [] key = 28 -> 13
      control == Held({LCtrl, RCtrl})
      low == IF control /\ key = 30 THEN 1
             ELSE IF control /\ key = 26 /\ ~Held({LShift, RShift}) THEN 27
             ELSE plain
  IN  IF Held({LAlt, RAlt}) THEN low + 128 ELSE low

KbdInv ==
  /\ shifts = held \cap ShiftKeys
  /\ caps_lock \in BOOLEAN
  /\ TypedRight

Lines == [Columns -> {" ", "a", "b"}]
Above(lines) == IF Len(lines) > ROW_CNT THEN Len(lines) - ROW_CNT ELSE 0

ScreenInv ==
  /\ fb \in [Rows -> Lines]
  /\ paper \in Seq(Lines) /\ paper # <<>>
  /\ cx \in Columns /\ cy \in Rows
  /\ ScreenShowsPaper

-----------------------------------------------------------------------------
\* Positions in the ring without the remainder.
Following(pos) == IF pos = INTQ_BUFSIZE - 1 THEN 0 ELSE pos + 1
Filled(q) == IF q.head >= q.tail THEN q.head - q.tail ELSE q.head - q.tail + INTQ_BUFSIZE
Place(q, i) ==
  IF q.tail + i - 1 < INTQ_BUFSIZE THEN q.tail + i - 1 ELSE q.tail + i - 1 - INTQ_BUFSIZE

LEMMA Remainder ==
  ASSUME NEW x \in Int
  PROVE  /\ 0 <= x /\ x < INTQ_BUFSIZE => x % INTQ_BUFSIZE = x
         /\ INTQ_BUFSIZE <= x /\ x < 2 * INTQ_BUFSIZE => x % INTQ_BUFSIZE = x - INTQ_BUFSIZE
         /\ -INTQ_BUFSIZE <= x /\ x < 0 => x % INTQ_BUFSIZE = x + INTQ_BUFSIZE
<1>1. ASSUME 0 <= x, x < INTQ_BUFSIZE PROVE x % INTQ_BUFSIZE = x
  BY BufferAssumption, <1>1
<1>2. ASSUME INTQ_BUFSIZE <= x, x < 2 * INTQ_BUFSIZE PROVE x % INTQ_BUFSIZE = x - INTQ_BUFSIZE
  BY BufferAssumption, <1>2
<1>3. ASSUME -INTQ_BUFSIZE <= x, x < 0 PROVE x % INTQ_BUFSIZE = x + INTQ_BUFSIZE
  BY BufferAssumption, <1>3
<1> QED
  BY <1>1, <1>2, <1>3

LEMMA NextIs ==
  ASSUME NEW pos \in Positions
  PROVE  next(pos) = Following(pos) /\ next(pos) \in Positions
<1>1. pos + 1 \in Int
  BY DEF Positions
<1>2. next(pos) = Following(pos)
  BY BufferAssumption, <1>1, Remainder DEF next, Following, Positions
<1> QED
  BY BufferAssumption, <1>2 DEF Following, Positions

LEMMA ContentsAre ==
  ASSUME NEW q \in QueueFields
  PROVE  /\ Filled(q) \in Nat /\ Filled(q) < INTQ_BUFSIZE
         /\ contents(q) = [i \in 1 .. Filled(q) |-> q.buf[Place(q, i)]]
         /\ \A i \in 1 .. Filled(q) : Place(q, i) \in Positions
<1>1. q.head \in Positions /\ q.tail \in Positions
  BY DEF QueueFields
<1>2. Filled(q) \in Nat /\ Filled(q) < INTQ_BUFSIZE
  BY BufferAssumption, <1>1 DEF Positions, Filled
<1>3. (q.head - q.tail) % INTQ_BUFSIZE = Filled(q)
  <2>1. q.head - q.tail \in Int
    BY <1>1 DEF Positions
  <2> QED
    BY BufferAssumption, <1>1, <2>1, Remainder DEF Positions, Filled
<1>4. ASSUME NEW i \in 1 .. Filled(q)
      PROVE  (q.tail + i - 1) % INTQ_BUFSIZE = Place(q, i) /\ Place(q, i) \in Positions
  <2>1. q.tail + i - 1 \in Int /\ 0 <= q.tail + i - 1 /\ q.tail + i - 1 < 2 * INTQ_BUFSIZE
    BY BufferAssumption, <1>1, <1>2 DEF Positions
  <2>2. (q.tail + i - 1) % INTQ_BUFSIZE = Place(q, i)
    BY BufferAssumption, <1>1, <2>1, Remainder DEF Positions, Place
  <2> QED
    BY BufferAssumption, <1>1, <1>2, <2>1, <2>2 DEF Positions, Place
<1> QED
  BY <1>2, <1>3, <1>4 DEF contents

LEMMA ContentsSeq ==
  ASSUME NEW q \in QueueFields
  PROVE  contents(q) \in Seq(Chars \cup {NULL}) /\ Len(contents(q)) = Filled(q)
<1>1. \A i \in 1 .. Filled(q) : q.buf[Place(q, i)] \in Chars \cup {NULL}
  BY ContentsAre DEF QueueFields
<1> QED
  BY <1>1, ContentsAre

LEMMA EmptyFull ==
  ASSUME NEW q \in QueueFields
  PROVE  /\ intq_empty(q) <=> Filled(q) = 0
         /\ intq_full(q) <=> Filled(q) = INTQ_BUFSIZE - 1
<1>1. q.head \in Positions /\ q.tail \in Positions /\ next(q.head) = Following(q.head)
  BY NextIs DEF QueueFields
<1> QED
  BY BufferAssumption, <1>1 DEF Positions, Filled, Following, intq_empty, intq_full

LEMMA ByItem ==
  ASSUME NEW S, NEW s \in Seq(S), NEW n \in Nat, Len(s) = n
  PROVE  s = [i \in 1 .. n |-> s[i]]
  OBVIOUS

\* A byte is put in behind the others.
LEMMA PutContents ==
  ASSUME NEW q \in QueueFields, NEW r \in QueueFields, NEW c, ~intq_full(q),
         r.tail = q.tail, r.head = next(q.head), r.buf = [q.buf EXCEPT ![q.head] = c]
  PROVE  contents(r) = Append(contents(q), c)
<1>1. /\ q.head \in Positions /\ q.tail \in Positions /\ q.buf \in [Positions -> Chars \cup {NULL}]
      /\ r.head = Following(q.head)
  BY NextIs DEF QueueFields
<1>2. Filled(q) < INTQ_BUFSIZE - 1 /\ Filled(q) \in Nat
  BY BufferAssumption, EmptyFull, ContentsAre
<1>3. Filled(r) = Filled(q) + 1
  BY BufferAssumption, <1>1, <1>2 DEF Positions, Filled, Following
<1>4. \A i \in 1 .. Filled(q) : Place(r, i) = Place(q, i) /\ Place(q, i) # q.head
  BY BufferAssumption, <1>1 DEF Positions, Filled, Place
<1>5. Place(r, Filled(q) + 1) = q.head
  BY BufferAssumption, <1>1 DEF Positions, Filled, Place
<1>6. /\ \A i \in 1 .. Filled(q) : r.buf[Place(r, i)] = q.buf[Place(q, i)]
      /\ r.buf[Place(r, Filled(q) + 1)] = c
  BY <1>1, <1>4, <1>5, ContentsAre
<1>7. contents(r) = [i \in 1 .. Filled(q) + 1 |-> r.buf[Place(r, i)]]
  BY <1>3, ContentsAre
<1>8. contents(q) = [i \in 1 .. Filled(q) |-> q.buf[Place(q, i)]]
  BY ContentsAre
<1>9. contents(q) \in Seq(Chars \cup {NULL}) /\ Len(contents(q)) = Filled(q)
  BY ContentsSeq
<1>10. /\ \A i \in 1 .. Filled(q) : Append(contents(q), c)[i] = q.buf[Place(q, i)]
       /\ Append(contents(q), c)[Filled(q) + 1] = c
  BY <1>2, <1>8, <1>9
<1>11. ASSUME NEW i \in 1 .. Filled(q) + 1
       PROVE  r.buf[Place(r, i)] = Append(contents(q), c)[i]
  <2>1. CASE i <= Filled(q)
    <3>1. i \in 1 .. Filled(q)
      BY <1>2, <2>1
    <3> QED
      BY <1>6, <1>10, <2>1, <3>1
  <2>2. CASE i = Filled(q) + 1
    BY <1>6, <1>10, <2>2
  <2>3. i <= Filled(q) \/ i = Filled(q) + 1
    BY <1>2
  <2> QED
    BY <2>1, <2>2, <2>3
<1>12. Append(contents(q), c) = [i \in 1 .. Filled(q) + 1 |-> Append(contents(q), c)[i]]
  <2> DEFINE A == Append(contents(q), c)
  <2>1. A \in Seq(Chars \cup {NULL, c}) /\ Len(A) = Filled(q) + 1 /\ Filled(q) + 1 \in Nat
    BY <1>2, <1>9
  <2> HIDE DEF A
  <2>2. A = [i \in 1 .. Filled(q) + 1 |-> A[i]]
    BY <2>1, ByItem
  <2> QED
    BY <2>2 DEF A
<1> QED
  BY <1>7, <1>11, <1>12

\* The first byte is taken.
LEMMA GetContents ==
  ASSUME NEW q \in QueueFields, NEW r \in QueueFields, ~intq_empty(q),
         r.head = q.head, r.tail = next(q.tail), r.buf = [q.buf EXCEPT ![q.tail] = NULL]
  PROVE  /\ contents(q) # <<>> /\ Head(contents(q)) = q.buf[q.tail]
         /\ contents(r) = Tail(contents(q))
<1>1. /\ q.head \in Positions /\ q.tail \in Positions /\ q.buf \in [Positions -> Chars \cup {NULL}]
      /\ r.tail = Following(q.tail)
  BY NextIs DEF QueueFields
<1>2. Filled(q) > 0 /\ Filled(q) \in Nat
  BY EmptyFull, ContentsAre
<1>3. Filled(r) = Filled(q) - 1
  <2>1. CASE q.tail = INTQ_BUFSIZE - 1
    BY BufferAssumption, <1>1, <1>2, <2>1 DEF Positions, Filled, Following
  <2>2. CASE q.tail # INTQ_BUFSIZE - 1
    BY BufferAssumption, <1>1, <1>2, <2>2 DEF Positions, Filled, Following
  <2> QED
    BY <2>1, <2>2
<1>4. ASSUME NEW i \in 1 .. Filled(q) - 1
      PROVE  Place(r, i) = Place(q, i + 1) /\ Place(q, i + 1) # q.tail
  <2>1. Filled(q) < INTQ_BUFSIZE
    BY ContentsAre
  <2>2. Place(r, i) = Place(q, i + 1)
    <3>1. i \in Int /\ 1 <= i /\ i < INTQ_BUFSIZE - 1
      BY BufferAssumption, <1>2, <2>1
    <3>2. CASE q.tail = INTQ_BUFSIZE - 1
      BY BufferAssumption, <1>1, <3>1, <3>2 DEF Positions, Place, Following
    <3>3. CASE q.tail # INTQ_BUFSIZE - 1
      BY BufferAssumption, <1>1, <3>1, <3>3 DEF Positions, Place, Following
    <3> QED
      BY <3>2, <3>3
  <2>3. Place(q, i + 1) # q.tail
    BY BufferAssumption, <1>1, <1>2, <2>1 DEF Positions, Place
  <2> QED
    BY <2>2, <2>3
<1>5. Place(q, 1) = q.tail
  BY BufferAssumption, <1>1 DEF Positions, Place
<1>6. \A i \in 1 .. Filled(q) - 1 : r.buf[Place(r, i)] = q.buf[Place(q, i + 1)]
  <2> TAKE i \in 1 .. Filled(q) - 1
  <2>1. i + 1 \in 1 .. Filled(q)
    BY <1>2
  <2>2. Place(q, i + 1) \in Positions
    BY <2>1, ContentsAre
  <2> QED
    BY <1>1, <1>4, <2>2
<1>7. contents(r) = [i \in 1 .. Filled(q) - 1 |-> r.buf[Place(r, i)]]
  BY <1>3, ContentsAre
<1>8. contents(q) = [i \in 1 .. Filled(q) |-> q.buf[Place(q, i)]]
  BY ContentsAre
<1>9. contents(q) \in Seq(Chars \cup {NULL}) /\ Len(contents(q)) = Filled(q)
  BY ContentsSeq
<1>10. contents(q) # <<>> /\ Head(contents(q)) = q.buf[q.tail]
  BY <1>2, <1>5, <1>8, <1>9
<1>11. /\ Tail(contents(q)) \in Seq(Chars \cup {NULL}) /\ Len(Tail(contents(q))) = Filled(q) - 1
       /\ \A i \in 1 .. Filled(q) - 1 : Tail(contents(q))[i] = q.buf[Place(q, i + 1)]
  BY <1>2, <1>8, <1>9, <1>10
<1>12. Tail(contents(q)) = [i \in 1 .. Filled(q) - 1 |-> Tail(contents(q))[i]]
  <2> DEFINE A == Tail(contents(q))
  <2>1. A \in Seq(Chars \cup {NULL}) /\ Len(A) = Filled(q) - 1 /\ Filled(q) - 1 \in Nat
    BY <1>2, <1>11
  <2> HIDE DEF A
  <2>2. A = [i \in 1 .. Filled(q) - 1 |-> A[i]]
    BY <2>1, ByItem
  <2> QED
    BY <2>2 DEF A
<1> QED
  BY <1>6, <1>7, <1>10, <1>11, <1>12

LEMMA EmptyContents ==
  ASSUME NEW q \in QueueFields, q.tail = q.head
  PROVE  contents(q) = <<>>
<1>1. Filled(q) = 0
  BY EmptyFull DEF intq_empty
<1> QED
  BY <1>1, ContentsSeq

-----------------------------------------------------------------------------
(***************************************************************************)
(* The operations of intq.c on a queue and the places of the threads.      *)
(***************************************************************************)
Users == Writers \cup Readers
PlaceOf == [Users -> Places]

LEMMA SameContents ==
  ASSUME NEW q, NEW r, r.buf = q.buf, r.head = q.head, r.tail = q.tail
  PROVE  contents(r) = contents(q)
  BY DEF contents

LEMMA Signals ==
  ASSUME NEW a \in PlaceOf, NEW w \in Waiters
  PROVE  signal(a, w) \in PlaceOf
  BY DEF signal, PlaceOf, Users, Waiters, Places

LEMMA PutQueue ==
  ASSUME NEW q \in Queues, NEW a \in PlaceOf, NEW c \in Chars, ~intq_full(q)
  PROVE  /\ intq_putc(q, a, c)[1] \in Queues /\ intq_putc(q, a, c)[2] \in PlaceOf
         /\ contents(intq_putc(q, a, c)[1]) = Append(contents(q), c)
<1> DEFINE r == [q EXCEPT !.buf[q.head] = c, !.head = next(@), !.not_empty = NULL]
<1>1. q \in QueueFields /\ contents(q) \in Seq(Chars)
  BY DEF Queues
<1>2. next(q.head) \in Positions /\ q.head \in Positions
  BY <1>1, NextIs DEF QueueFields
<1>3. r \in QueueFields
  BY <1>1, <1>2 DEF QueueFields, Waiters
<1>4. r.tail = q.tail /\ r.head = next(q.head) /\ r.buf = [q.buf EXCEPT ![q.head] = c]
  BY <1>1 DEF QueueFields
<1>5. intq_putc(q, a, c) = <<r, signal(a, q.not_empty)>>
  BY DEF intq_putc
<1> HIDE DEF r
<1>6. contents(r) = Append(contents(q), c)
  BY <1>1, <1>3, <1>4, PutContents
<1>7. r \in Queues
  BY <1>1, <1>3, <1>6 DEF Queues
<1>8. signal(a, q.not_empty) \in PlaceOf
  BY <1>1, Signals DEF QueueFields
<1> QED
  BY <1>5, <1>6, <1>7, <1>8

LEMMA GetQueue ==
  ASSUME NEW q \in Queues, NEW a \in PlaceOf, ~intq_empty(q)
  PROVE  /\ intq_getc(q, a)[1] \in Queues /\ intq_getc(q, a)[2] \in PlaceOf
         /\ contents(q) # <<>> /\ Head(contents(q)) = intq_front(q) /\ intq_front(q) \in Chars
         /\ contents(intq_getc(q, a)[1]) = Tail(contents(q))
<1> DEFINE r == [q EXCEPT !.buf[q.tail] = NULL, !.tail = next(@), !.not_full = NULL]
<1>1. q \in QueueFields /\ contents(q) \in Seq(Chars)
  BY DEF Queues
<1>2. next(q.tail) \in Positions /\ q.tail \in Positions
  BY <1>1, NextIs DEF QueueFields
<1>3. r \in QueueFields
  BY <1>1, <1>2 DEF QueueFields, Waiters
<1>4. r.head = q.head /\ r.tail = next(q.tail) /\ r.buf = [q.buf EXCEPT ![q.tail] = NULL]
  BY <1>1 DEF QueueFields
<1>5. intq_getc(q, a) = <<r, signal(a, q.not_full)>>
  BY DEF intq_getc
<1> HIDE DEF r
<1>6. /\ contents(q) # <<>> /\ Head(contents(q)) = q.buf[q.tail]
      /\ contents(r) = Tail(contents(q))
  BY <1>1, <1>3, <1>4, GetContents
<1>7. r \in Queues /\ q.buf[q.tail] \in Chars
  BY <1>1, <1>3, <1>6 DEF Queues
<1>8. signal(a, q.not_full) \in PlaceOf
  BY <1>1, Signals DEF QueueFields
<1> QED
  BY <1>5, <1>6, <1>7, <1>8 DEF intq_front

\* A thread that waits leaves the characters alone; so does one that gives the lock back.
LEMMA WaitQueue ==
  ASSUME NEW q \in Queues, NEW a \in PlaceOf, NEW t \in Users,
         NEW waiter \in {"not_full", "not_empty"}
  PROVE  /\ lock_and_wait(q, a, t, waiter)[1] \in Queues
         /\ lock_and_wait(q, a, t, waiter)[2] \in PlaceOf
         /\ contents(lock_and_wait(q, a, t, waiter)[1]) = contents(q)
<1>1. q \in QueueFields /\ contents(q) \in Seq(Chars)
  BY DEF Queues
<1>2. /\ [a EXCEPT ![t] = "wait"] \in PlaceOf /\ [a EXCEPT ![t] = "lock"] \in PlaceOf
  BY DEF PlaceOf, Places
<1>3. CASE q.lock = NULL
  <2> DEFINE r == [q EXCEPT !.lock = t, ![waiter] = t]
  <2>1. r \in QueueFields /\ r.buf = q.buf /\ r.head = q.head /\ r.tail = q.tail
    <3>1. CASE waiter = "not_full"
      BY <1>1, <3>1 DEF QueueFields, Waiters, Users
    <3>2. CASE waiter = "not_empty"
      BY <1>1, <3>2 DEF QueueFields, Waiters, Users
    <3> QED
      BY <3>1, <3>2
  <2>2. lock_and_wait(q, a, t, waiter) = <<r, [a EXCEPT ![t] = "wait"]>>
    BY <1>3 DEF lock_and_wait, wait
  <2> HIDE DEF r
  <2>3. contents(r) = contents(q)
    BY <2>1, SameContents
  <2> QED
    BY <1>1, <1>2, <2>1, <2>2, <2>3 DEF Queues
<1>4. CASE q.lock # NULL
  <2> DEFINE r == [q EXCEPT !.queue = Append(@, t)]
  <2>1. Append(q.queue, t) \in Seq(Writers \cup Readers)
    BY <1>1 DEF QueueFields, Users
  <2>2. r \in QueueFields /\ r.buf = q.buf /\ r.head = q.head /\ r.tail = q.tail
    BY <1>1, <2>1 DEF QueueFields
  <2>3. lock_and_wait(q, a, t, waiter) = <<r, [a EXCEPT ![t] = "lock"]>>
    BY <1>4 DEF lock_and_wait
  <2> HIDE DEF r
  <2>4. contents(r) = contents(q)
    BY <2>2, SameContents
  <2> QED
    BY <1>1, <1>2, <2>2, <2>3, <2>4 DEF Queues
<1> QED
  BY <1>3, <1>4

LEMMA ReleaseQueue ==
  ASSUME NEW q \in Queues, NEW a \in PlaceOf, NEW t \in Users, NEW place \in Places
  PROVE  /\ lock_release(q, a, t, place)[1] \in Queues
         /\ lock_release(q, a, t, place)[2] \in PlaceOf
         /\ contents(lock_release(q, a, t, place)[1]) = contents(q)
<1> DEFINE rest == IF q.queue = <<>> THEN q.queue ELSE Tail(q.queue)
           r == [q EXCEPT !.lock = NULL, !.queue = IF @ = <<>> THEN @ ELSE Tail(@)]
           b == [u \in DOMAIN a |-> CASE u = t -> place
                   [] u # t /\ q.queue # <<>> /\ u = q.queue[1] -> "lock_ready"
                   [] OTHER -> a[u]]
<1>1. q \in QueueFields /\ contents(q) \in Seq(Chars)
  BY DEF Queues
<1>2. rest \in Seq(Writers \cup Readers)
  BY <1>1 DEF QueueFields
<1>3. r \in QueueFields /\ r.buf = q.buf /\ r.head = q.head /\ r.tail = q.tail
  <2>1. r = [q EXCEPT !.lock = NULL, !.queue = rest]
    BY <1>1 DEF QueueFields
  <2> HIDE DEF rest, r
  <2> QED
    BY <1>1, <1>2, <2>1 DEF QueueFields, Waiters
<1>4. b \in PlaceOf
  <2>1. \A u \in Users : a[u] \in Places
    BY DEF PlaceOf
  <2>2. "lock_ready" \in Places
    BY DEF Places
  <2> QED
    BY <2>1, <2>2 DEF PlaceOf
<1>5. lock_release(q, a, t, place) = <<r, b>>
  BY DEF lock_release
<1> HIDE DEF r, b
<1>6. contents(r) = contents(q)
  BY <1>3, SameContents
<1> QED
  BY <1>1, <1>3, <1>4, <1>5, <1>6 DEF Queues

-----------------------------------------------------------------------------
(***************************************************************************)
(* Every step of the port and of the threads that use it.                  *)
(***************************************************************************)
Wire(c) == IF c = NULL THEN <<>> ELSE <<c>>

LEMMA Wires ==
  ASSUME NEW S, NEW c \in Seq(S), NEW x \in S, NEW w \in S
  PROVE  /\ <<>> \o c = c /\ SubSeq(c, 1, Len(c)) = c
         /\ <<w>> \o Append(c, x) = Append(<<w>> \o c, x)
         /\ Tail(<<w>> \o c) = c /\ SubSeq(<<w>> \o c, 2, Len(<<w>> \o c)) = c
         /\ c # <<>> => <<Head(c)>> \o Tail(c) = c
         /\ c # <<>> => <<Head(c)>> \o Append(Tail(c), x) = Append(c, x)
  OBVIOUS

\* Full and empty queues are told by their contents.
LEMMA ByContents ==
  ASSUME NEW q \in Queues
  PROVE  /\ intq_empty(q) <=> contents(q) = <<>>
         /\ intq_full(q) <=> Len(contents(q)) = INTQ_BUFSIZE - 1
<1>1. q \in QueueFields /\ contents(q) \in Seq(Chars)
  BY DEF Queues
<1>2. Len(contents(q)) = Filled(q)
  BY <1>1, ContentsSeq
<1> QED
  BY <1>1, <1>2, EmptyFull

\* What PortInv says of the next state, from its parts.
LEMMA PortParts ==
  ASSUME txq' \in Queues, rxq' \in Queues, at' \in PlaceOf,
         thr' \in Chars \cup {NULL}, rbr' \in Chars \cup {NULL},
         unsent' = Wire(thr') \o contents(txq'), unread' = contents(rxq')
  PROVE  PortInv'
  BY DEF PortInv, PlaceOf, Users, Wire

LEMMA PortFacts ==
  ASSUME PortInv
  PROVE  /\ txq \in Queues /\ rxq \in Queues /\ at \in PlaceOf
         /\ contents(txq) \in Seq(Chars) /\ contents(rxq) \in Seq(Chars)
         /\ thr \in Chars \cup {NULL} /\ rbr \in Chars \cup {NULL}
         /\ unsent = Wire(thr) \o contents(txq) /\ unread = contents(rxq)
  BY DEF PortInv, PlaceOf, Users, Wire, Queues

LEMMA NullIsNoChar == NULL \notin Chars
  BY NullAssumption DEF Chars

LEMMA WireAppends ==
  ASSUME NEW w \in Chars \cup {NULL}, NEW c \in Seq(Chars), NEW x \in Chars
  PROVE  Wire(w) \o Append(c, x) = Append(Wire(w) \o c, x)
<1>1. CASE w = NULL
  BY <1>1, Wires DEF Wire
<1>2. CASE w \in Chars
  BY <1>2, Wires, NullIsNoChar DEF Wire
<1> QED
  BY <1>1, <1>2

LEMMA AcceptKeeps ==
  ASSUME PortInv, NEW t \in Writers, NEW q \in Queues, NEW a \in PlaceOf,
         contents(q) = contents(txq), ~intq_full(txq), Accept(t, q, a),
         rxq' = rxq, thr' = thr, rbr' = rbr, unread' = unread
  PROVE  PortInv'
<1> DEFINE b == [a EXCEPT ![t] = "print"]
           r == intq_putc(q, b, t)
<1>1. b \in PlaceOf /\ t \in Chars
  BY DEF PlaceOf, Users, Places, Chars
<1>2. ~intq_full(q)
  BY ByContents, PortFacts
<1>3. txq' = r[1] /\ at' = r[2] /\ unsent' = Append(unsent, t)
  BY DEF Accept
<1> HIDE DEF b
<1>4. r[1] \in Queues /\ r[2] \in PlaceOf /\ contents(r[1]) = Append(contents(q), t)
  BY <1>1, <1>2, PutQueue
<1> HIDE DEF r
<1>5. unsent' = Wire(thr) \o Append(contents(txq), t)
  <2>1. Wire(thr) \o Append(contents(txq), t) = Append(Wire(thr) \o contents(txq), t)
    BY <1>1, PortFacts, WireAppends
  <2> QED
    BY <1>3, <2>1, PortFacts
<1> QED
  BY <1>3, <1>4, <1>5, PortFacts, PortParts

LEMMA PutcKeeps ==
  ASSUME PortInv, NEW t \in Writers, Putc(t)
  PROVE  PortInv'
<1>1. rxq' = rxq /\ thr' = thr /\ rbr' = rbr /\ unread' = unread
  BY DEF Putc
<1>2. CASE ~intq_full(txq) /\ Accept(t, txq, at)
  BY <1>1, <1>2, PortFacts, AcceptKeeps
<1>3. CASE TxWaits(lock_and_wait(txq, at, t, "not_full")) /\ unsent' = unsent
  <2> DEFINE r == lock_and_wait(txq, at, t, "not_full")
  <2>1. r[1] \in Queues /\ r[2] \in PlaceOf /\ contents(r[1]) = contents(txq)
    BY PortFacts, WaitQueue DEF Users
  <2>2. txq' = r[1] /\ at' = r[2]
    BY <1>3 DEF TxWaits
  <2> HIDE DEF r
  <2> QED
    BY <1>1, <1>3, <2>1, <2>2, PortFacts, PortParts
<1> QED
  BY <1>2, <1>3 DEF Putc

LEMMA PutcWokenKeeps ==
  ASSUME PortInv, NEW t \in Writers, PutcWoken(t)
  PROVE  PortInv'
<1> DEFINE r == lock_release(txq, at, t, "print")
<1>1. rxq' = rxq /\ thr' = thr /\ rbr' = rbr /\ unread' = unread
  BY DEF PutcWoken
<1>2. r[1] \in Queues /\ r[2] \in PlaceOf /\ contents(r[1]) = contents(txq)
  BY PortFacts, ReleaseQueue DEF Users, Places
<1>3. \/ ~intq_full(txq) /\ Accept(t, r[1], r[2])
      \/ TxWaits(lock_and_wait(r[1], r[2], t, "not_full")) /\ unsent' = unsent
  BY DEF PutcWoken
<1> HIDE DEF r
<1>4. CASE ~intq_full(txq) /\ Accept(t, r[1], r[2])
  BY <1>1, <1>2, <1>4, AcceptKeeps
<1>5. CASE TxWaits(lock_and_wait(r[1], r[2], t, "not_full")) /\ unsent' = unsent
  <2> DEFINE s == lock_and_wait(r[1], r[2], t, "not_full")
  <2>1. s[1] \in Queues /\ s[2] \in PlaceOf /\ contents(s[1]) = contents(r[1])
    BY <1>2, WaitQueue DEF Users
  <2>2. txq' = s[1] /\ at' = s[2]
    BY <1>5 DEF TxWaits
  <2> HIDE DEF s
  <2> QED
    BY <1>1, <1>2, <1>5, <2>1, <2>2, PortFacts, PortParts
<1> QED
  BY <1>3, <1>4, <1>5

\* With the queue full, the first character goes to the wire, and the new one comes last.
LEMMA PutcOffKeeps ==
  ASSUME PortInv, PutcOff
  PROVE  PortInv'
<1>1. rxq' = rxq /\ rbr' = rbr /\ unread' = unread /\ "interrupt" \in Chars
  BY DEF PutcOff, Chars
<1>2. CASE ~intq_full(txq)
  <2> DEFINE p == intq_putc(txq, at, "interrupt")
  <2>1. txq' = p[1] /\ at' = p[2] /\ thr' = thr /\ unsent' = Append(unsent, "interrupt")
    BY <1>2 DEF PutcOff
  <2>2. p[1] \in Queues /\ p[2] \in PlaceOf /\ contents(p[1]) = Append(contents(txq), "interrupt")
    BY <1>1, <1>2, PortFacts, PutQueue
  <2> HIDE DEF p
  <2>3. unsent' = Wire(thr) \o Append(contents(txq), "interrupt")
    BY <1>1, <2>1, PortFacts, WireAppends
  <2> QED
    BY <1>1, <2>1, <2>2, <2>3, PortFacts, PortParts
<1>3. CASE intq_full(txq)
  <2> DEFINE g == intq_getc(txq, at)
             p == intq_putc(g[1], g[2], "interrupt")
             c == contents(txq)
  <2>1. /\ txq' = p[1] /\ at' = p[2] /\ thr' = intq_front(txq)
        /\ unsent' = Append(Behind(unsent, on_wire), "interrupt")
    BY <1>3 DEF PutcOff
  <2>2. c \in Seq(Chars) /\ Len(c) = INTQ_BUFSIZE - 1
    BY <1>3, PortFacts, ByContents
  <2>3. c # <<>> /\ ~intq_empty(txq)
    BY BufferAssumption, <2>2, PortFacts, ByContents
  <2> HIDE DEF p, c
  <2>4. /\ g[1] \in Queues /\ g[2] \in PlaceOf /\ Head(c) = intq_front(txq)
        /\ intq_front(txq) \in Chars /\ contents(g[1]) = Tail(c)
    BY <2>3, PortFacts, GetQueue DEF c
  <2> HIDE DEF g
  <2>5. ~intq_full(g[1])
    <3>1. Len(Tail(c)) # INTQ_BUFSIZE - 1
      BY <2>2, <2>3
    <3>2. intq_full(g[1]) <=> Len(contents(g[1])) = INTQ_BUFSIZE - 1
      BY <2>4, ByContents
    <3> QED
      BY <2>4, <3>1, <3>2
  <2>6. p[1] \in Queues /\ p[2] \in PlaceOf /\ contents(p[1]) = Append(Tail(c), "interrupt")
    BY <1>1, <2>4, <2>5, PutQueue DEF p
  <2>7. Behind(unsent, on_wire) = c
    <3>1. CASE thr = NULL
      BY <2>2, <3>1, PortFacts, Wires DEF Behind, on_wire, Wire, c
    <3>2. CASE thr \in Chars
      BY <2>2, <3>2, PortFacts, Wires, NullIsNoChar DEF Behind, on_wire, Wire, c
    <3> QED
      BY <3>1, <3>2, PortFacts
  <2>8. <<Head(c)>> \o Append(Tail(c), "interrupt") = Append(c, "interrupt")
    BY <1>1, <2>2, <2>3, Wires
  <2>9. Wire(thr') = <<Head(c)>>
    BY <2>1, <2>4, NullIsNoChar DEF Wire
  <2> QED
    BY <1>1, <2>1, <2>4, <2>6, <2>7, <2>8, <2>9, PortFacts, PortParts
<1> QED
  BY <1>2, <1>3

LEMMA FlushKeeps ==
  ASSUME PortInv, Flush
  PROVE  PortInv'
<1> DEFINE r == [txq EXCEPT !.buf = intq_init.buf, !.tail = txq.head, !.not_full = NULL]
<1>1. /\ rxq' = rxq /\ rbr' = rbr /\ unread' = unread /\ txq' = r /\ unsent' = <<thr'>>
      /\ at' = signal(at, txq.not_full) /\ thr' = contents(txq)[Len(contents(txq))]
      /\ ~intq_empty(txq)
  BY DEF Flush
<1>2. txq \in QueueFields
  BY PortFacts DEF Queues
<1>3. intq_init.buf \in [Positions -> Chars \cup {NULL}]
  BY DEF intq_init, Positions
<1>4. r \in QueueFields /\ r.tail = r.head
  BY <1>2, <1>3 DEF QueueFields, Waiters
<1> HIDE DEF r
<1>5. contents(r) = <<>>
  BY <1>4, EmptyContents
<1>6. r \in Queues
  BY <1>4, <1>5 DEF Queues
<1>7. at' \in PlaceOf
  BY <1>1, <1>2, PortFacts, Signals DEF QueueFields
<1>8. thr' \in Chars
  <2>1. contents(txq) # <<>> /\ contents(txq) \in Seq(Chars)
    BY <1>1, PortFacts, ByContents
  <2> QED
    BY <1>1, <2>1
<1>9. unsent' = Wire(thr') \o <<>>
  BY <1>1, <1>8, NullIsNoChar DEF Wire
<1> QED
  BY <1>1, <1>5, <1>6, <1>7, <1>8, <1>9, PortFacts, PortParts

\* A full interrupt handler: it may take a character in and send one out.
LEMMA SerialInterruptKeeps ==
  ASSUME PortInv, SerialInterrupt
  PROVE  PortInv'
<1> DEFINE receives == rbr # NULL /\ ~intq_full(rxq)
           sends == thr = NULL /\ ~intq_empty(txq)
           r == IF receives THEN intq_putc(rxq, at, rbr) ELSE <<rxq, at>>
           s == IF sends THEN intq_getc(txq, r[2]) ELSE <<txq, r[2]>>
<1>1. /\ rxq' = r[1] /\ txq' = s[1] /\ at' = s[2] /\ unsent' = unsent
      /\ rbr' = IF receives THEN NULL ELSE rbr
      /\ unread' = IF receives THEN Append(unread, rbr) ELSE unread
      /\ thr' = IF sends THEN intq_front(txq) ELSE thr
  BY DEF SerialInterrupt
<1>2. r[1] \in Queues /\ r[2] \in PlaceOf /\ unread' = contents(r[1])
  <2>1. CASE receives
    BY <1>1, <2>1, PortFacts, PutQueue
  <2>2. CASE ~receives
    BY <1>1, <2>2, PortFacts
  <2> QED
    BY <2>1, <2>2
<1>3. /\ s[1] \in Queues /\ s[2] \in PlaceOf /\ thr' \in Chars \cup {NULL}
      /\ unsent' = Wire(thr') \o contents(s[1])
  <2> HIDE DEF r
  <2>1. CASE sends
    <3>1. /\ s[1] \in Queues /\ s[2] \in PlaceOf /\ contents(txq) # <<>>
          /\ Head(contents(txq)) = intq_front(txq) /\ intq_front(txq) \in Chars
          /\ contents(s[1]) = Tail(contents(txq))
      BY <1>2, <2>1, PortFacts, GetQueue
    <3>2. thr' = Head(contents(txq)) /\ thr' \in Chars
      BY <1>1, <2>1, <3>1
    <3>3. contents(txq) \in Seq(Chars) /\ unsent = <<>> \o contents(txq)
      BY <2>1, PortFacts DEF Wire
    <3>4. unsent = <<thr'>> \o Tail(contents(txq))
      BY <3>1, <3>2, <3>3, Wires
    <3> QED
      BY <1>1, <3>1, <3>2, <3>4, NullIsNoChar DEF Wire
  <2>2. CASE ~sends
    BY <1>1, <1>2, <2>2, PortFacts
  <2> QED
    BY <2>1, <2>2
<1>4. rbr' \in Chars \cup {NULL}
  BY <1>1, PortFacts
<1> HIDE DEF r, s
<1> QED
  BY <1>1, <1>2, <1>3, <1>4, PortParts

LEMMA TransmitKeeps ==
  ASSUME PortInv, Transmit
  PROVE  PortInv'
<1>1. /\ txq' = txq /\ rxq' = rxq /\ at' = at /\ rbr' = rbr /\ unread' = unread
      /\ thr' = NULL /\ thr \in Chars /\ unsent' = Tail(unsent)
  BY PortFacts DEF Transmit
<1>2. unsent' = contents(txq) /\ contents(txq) \in Seq(Chars)
  BY <1>1, PortFacts, Wires, NullIsNoChar DEF Wire
<1>3. unsent' = Wire(thr') \o contents(txq)
  BY <1>1, <1>2, Wires DEF Wire
<1> QED
  BY <1>1, <1>3, PortFacts, PortParts

LEMMA ReceiveKeeps ==
  ASSUME PortInv, Receive
  PROVE  PortInv'
<1>1. /\ txq' = txq /\ rxq' = rxq /\ at' = at /\ thr' = thr /\ rbr' \in Chars
      /\ unsent' = unsent /\ unread' = unread
  BY DEF Receive, Chars
<1> QED
  BY <1>1, PortFacts, PortParts

LEMMA KeyInKeeps ==
  ASSUME PortInv, KeyIn
  PROVE  PortInv'
<1> DEFINE r == intq_putc(rxq, at, "key")
<1>1. /\ txq' = txq /\ thr' = thr /\ rbr' = rbr /\ unsent' = unsent
      /\ rxq' = r[1] /\ at' = r[2] /\ unread' = Append(unread, "key")
      /\ ~intq_full(rxq) /\ "key" \in Chars
  BY DEF KeyIn, Chars
<1>2. r[1] \in Queues /\ r[2] \in PlaceOf /\ contents(r[1]) = Append(contents(rxq), "key")
  BY <1>1, PortFacts, PutQueue
<1> HIDE DEF r
<1> QED
  BY <1>1, <1>2, PortFacts, PortParts

LEMMA TakesKeeps ==
  ASSUME PortInv, NEW t \in Readers, NEW q \in Queues, NEW a \in PlaceOf,
         contents(q) = contents(rxq), ~intq_empty(rxq), Takes(t, q, a),
         txq' = txq, thr' = thr, rbr' = rbr, unsent' = unsent
  PROVE  PortInv'
<1> DEFINE b == [a EXCEPT ![t] = "idle"]
           r == intq_getc(q, b)
<1>1. b \in PlaceOf
  BY DEF PlaceOf, Users, Places
<1>2. ~intq_empty(q)
  BY ByContents, PortFacts
<1>3. rxq' = r[1] /\ at' = r[2] /\ unread' = Tail(unread)
  BY DEF Takes
<1> HIDE DEF b
<1>4. r[1] \in Queues /\ r[2] \in PlaceOf /\ contents(r[1]) = Tail(contents(q))
  BY <1>1, <1>2, GetQueue
<1> HIDE DEF r
<1> QED
  BY <1>3, <1>4, PortFacts, PortParts

\* A reader that waits, from wherever it comes.
LEMMA ReaderWaits ==
  ASSUME PortInv, NEW t \in Readers, NEW q \in Queues, NEW a \in PlaceOf,
         contents(q) = contents(rxq), RxWaits(lock_and_wait(q, a, t, "not_empty")),
         txq' = txq, thr' = thr, rbr' = rbr, unsent' = unsent, unread' = unread
  PROVE  PortInv'
<1> DEFINE r == lock_and_wait(q, a, t, "not_empty")
<1>1. r[1] \in Queues /\ r[2] \in PlaceOf /\ contents(r[1]) = contents(q)
  BY WaitQueue DEF Users
<1>2. rxq' = r[1] /\ at' = r[2]
  BY DEF RxWaits
<1> HIDE DEF r
<1> QED
  BY <1>1, <1>2, PortFacts, PortParts

LEMMA GetcKeeps ==
  ASSUME PortInv, NEW t \in Readers, Getc(t)
  PROVE  PortInv'
<1>1. txq' = txq /\ thr' = thr /\ rbr' = rbr /\ unsent' = unsent
  BY DEF Getc
<1>2. CASE ~intq_empty(rxq) /\ Takes(t, rxq, at)
  BY <1>1, <1>2, PortFacts, TakesKeeps
<1>3. CASE RxWaits(lock_and_wait(rxq, at, t, "not_empty")) /\ unread' = unread
  BY <1>1, <1>3, PortFacts, ReaderWaits
<1> QED
  BY <1>2, <1>3 DEF Getc

LEMMA GetcWokenKeeps ==
  ASSUME PortInv, NEW t \in Readers, GetcWoken(t)
  PROVE  PortInv'
<1> DEFINE r == lock_release(rxq, at, t, "read")
<1>1. txq' = txq /\ thr' = thr /\ rbr' = rbr /\ unsent' = unsent
  BY DEF GetcWoken
<1>2. r[1] \in Queues /\ r[2] \in PlaceOf /\ contents(r[1]) = contents(rxq)
  BY PortFacts, ReleaseQueue DEF Users, Places
<1>3. \/ ~intq_empty(rxq) /\ Takes(t, r[1], r[2])
      \/ RxWaits(lock_and_wait(r[1], r[2], t, "not_empty")) /\ unread' = unread
  BY DEF GetcWoken
<1> HIDE DEF r
<1>4. CASE ~intq_empty(rxq) /\ Takes(t, r[1], r[2])
  BY <1>1, <1>2, <1>4, TakesKeeps
<1>5. CASE RxWaits(lock_and_wait(r[1], r[2], t, "not_empty")) /\ unread' = unread
  BY <1>1, <1>2, <1>5, ReaderWaits
<1> QED
  BY <1>3, <1>4, <1>5

LEMMA GetcLockedKeeps ==
  ASSUME PortInv, NEW t \in Readers, GetcLocked(t)
  PROVE  PortInv'
<1>1. txq' = txq /\ thr' = thr /\ rbr' = rbr /\ unsent' = unsent /\ unread' = unread
  BY DEF GetcLocked, portVars
<1>2. CASE RxWaits(lock_and_wait(rxq, at, t, "not_empty"))
  BY <1>1, <1>2, PortFacts, ReaderWaits
<1>3. CASE rxq' = rxq /\ at' = at
  BY <1>1, <1>3, PortFacts, PortParts
<1> QED
  BY <1>2, <1>3 DEF GetcLocked

\* The console's lock only moves threads.
LEMMA ConsoleMoves ==
  ASSUME PortInv, NEW t \in Writers, acquire_console(t) \/ release_console(t)
  PROVE  PortInv'
<1>1. /\ txq' = txq /\ rxq' = rxq /\ thr' = thr /\ rbr' = rbr /\ unsent' = unsent
      /\ unread' = unread
  BY DEF acquire_console, release_console, portVars
<1>2. at' \in PlaceOf
  <2>1. t \in Users /\ at \in PlaceOf /\ {"idle", "print", "console", "console_ready"} \subseteq Places
    BY PortFacts DEF Users, Places
  <2>2. CASE acquire_console(t)
    BY <2>1, <2>2 DEF acquire_console, PlaceOf
  <2>3. CASE release_console(t)
    <3>1. CASE at' = at
      BY <2>1, <3>1
    <3>2. CASE Unlock(t)
      BY <2>1, <3>2 DEF Unlock, PlaceOf
    <3> QED
      BY <2>3, <3>1, <3>2 DEF release_console
  <2> QED
    BY <2>2, <2>3
<1> QED
  BY <1>1, <1>2, PortFacts, PortParts

LEMMA PortInductive == PortInv /\ [SerialNext]_serialVars => PortInv'
<1> SUFFICES ASSUME PortInv, [SerialNext]_serialVars
             PROVE  PortInv'
  OBVIOUS
<1>1. CASE UNCHANGED serialVars
  BY <1>1, PortFacts, PortParts DEF serialVars, portVars
<1>2. ASSUME NEW t \in Writers, WriterStep(t)
      PROVE  PortInv'
  BY <1>2, PutcKeeps, PutcWokenKeeps, ConsoleMoves DEF WriterStep
<1>3. ASSUME NEW t \in Readers, ReaderStep(t)
      PROVE  PortInv'
  BY <1>3, GetcKeeps, GetcWokenKeeps, GetcLockedKeeps DEF ReaderStep
<1> QED
  BY <1>1, <1>2, <1>3, PutcOffKeeps, FlushKeeps, SerialInterruptKeeps, TransmitKeeps,
     ReceiveKeeps, KeyInKeeps
  DEF SerialNext

LEMMA PortInitial == SerialInit => PortInv
<1> SUFFICES ASSUME SerialInit
             PROVE  PortInv
  OBVIOUS
<1>1. intq_init \in QueueFields /\ intq_init.tail = intq_init.head
  BY BufferAssumption DEF intq_init, QueueFields, Positions, Waiters
<1>2. contents(intq_init) = <<>>
  BY <1>1, EmptyContents
<1>3. intq_init \in Queues
  BY <1>1, <1>2 DEF Queues
<1> QED
  BY <1>2, <1>3 DEF SerialInit, PortInv, Places
-----------------------------------------------------------------------------
(***************************************************************************)
(* The console lock.                                                       *)
(***************************************************************************)
LEMMA ConsoleInductive == ConsoleInv /\ [SerialNext]_serialVars => ConsoleInv'
<1> SUFFICES ASSUME ConsoleInv, [SerialNext]_serialVars
             PROVE  ConsoleInv'
  OBVIOUS
<1>1. NULL \notin Writers
  BY NullAssumption
<1>2. ASSUME UNCHANGED consoleVars
      PROVE  ConsoleInv'
  BY <1>2 DEF ConsoleInv, consoleVars
<1>3. ASSUME NEW t \in Writers, acquire_console(t)
      PROVE  ConsoleInv'
  <2>1. CASE console_lock = t
    BY <1>1, <1>3, <2>1 DEF acquire_console, ConsoleInv
  <2>2. CASE console_lock = NULL
    BY <1>1, <1>3, <2>2 DEF acquire_console, ConsoleInv
  <2>3. CASE console_lock \notin {t, NULL}
    BY <1>1, <1>3, <2>3 DEF acquire_console, ConsoleInv
  <2> QED
    BY <2>1, <2>2, <2>3
<1>4. ASSUME NEW t \in Writers, release_console(t)
      PROVE  ConsoleInv'
  <2>1. console_lock = t /\ console_lock_depth = inside[t] - 1 /\ inside[t] \in Nat
    BY <1>1, <1>4 DEF release_console, ConsoleInv
  <2>2. CASE console_lock_depth > 0
    BY <1>1, <1>4, <2>1, <2>2 DEF release_console, ConsoleInv
  <2>3. CASE console_lock_depth = 0
    BY <1>1, <1>4, <2>1, <2>3 DEF release_console, Unlock, ConsoleInv
  <2> QED
    BY <2>1, <2>2, <2>3 DEF ConsoleInv
<1>5. ASSUME NEW t \in Writers, Putc(t) \/ PutcWoken(t)
      PROVE  UNCHANGED consoleVars
  BY <1>5 DEF Putc, PutcWoken
<1>6. ASSUME NEW t \in Readers, ReaderStep(t)
      PROVE  UNCHANGED consoleVars
  BY <1>6 DEF ReaderStep, Getc, GetcWoken, GetcLocked
<1>7. ASSUME PutcOff \/ Flush \/ SerialInterrupt \/ Transmit \/ Receive \/ KeyIn
      PROVE  UNCHANGED consoleVars
  BY <1>7 DEF PutcOff, Flush, SerialInterrupt, Transmit, Receive, KeyIn
<1>8. CASE UNCHANGED serialVars
  BY <1>2, <1>8 DEF serialVars
<1> QED
  BY <1>2, <1>3, <1>4, <1>5, <1>6, <1>7, <1>8 DEF SerialNext, WriterStep

LEMMA ConsoleInitial == SerialInit => ConsoleInv
  BY DEF SerialInit, ConsoleInv

LEMMA SerialInvariant == SerialSpec => [](PortInv /\ ConsoleInv)
<1>1. SerialInit => PortInv /\ ConsoleInv
  BY PortInitial, ConsoleInitial
<1>2. PortInv /\ ConsoleInv /\ [SerialNext]_serialVars => (PortInv /\ ConsoleInv)'
  BY PortInductive, ConsoleInductive
<1> QED
  BY <1>1, <1>2, PTL DEF SerialSpec

\* What is printed is sent in the order in which it was printed, by interrupts or by polling,
\* and keys are read in the order in which they came, for any number of threads and any size of
\* the queues (serial.c, input.c, intq.c).
THEOREM CharsInOrderHolds == SerialSpec => []CharsInOrder
<1>1. PortInv /\ ConsoleInv => CharsInOrder
  <2> SUFFICES ASSUME PortInv, ConsoleInv
               PROVE  CharsInOrder
    OBVIOUS
  <2>1. DOMAIN at = Writers \cup Readers
    BY DEF PortInv
  <2>2. ASSUME NEW q \in {txq, rxq}
        PROVE  /\ q.head \in 0 .. INTQ_BUFSIZE - 1 /\ q.tail \in 0 .. INTQ_BUFSIZE - 1
               /\ q.buf \in [0 .. INTQ_BUFSIZE - 1 -> Chars \cup {NULL}]
               /\ {q.not_full, q.not_empty, q.lock} \subseteq DOMAIN at \cup {NULL}
    BY <2>1 DEF PortInv, Queues, QueueFields, Positions, Waiters
  <2>3. SerialTypeOK
    BY <2>2 DEF PortInv, ConsoleInv, SerialTypeOK
  <2> QED
    BY <2>3 DEF PortInv, CharsInOrder
<1> QED
  BY <1>1, SerialInvariant, PTL

\* Two threads' output is not mixed, whatever calls of printf and putbuf are nested in each other
\* (console.c).
THEOREM LinesWholeHolds == SerialSpec => []LinesWhole
<1>1. ConsoleInv => LinesWhole
  BY DEF ConsoleInv, LinesWhole
<1> QED
  BY <1>1, SerialInvariant, PTL

-----------------------------------------------------------------------------
(***************************************************************************)
(* The channel of the disks.                                               *)
(***************************************************************************)
\* The sector that is asked for is one of the disk.
LEMMA AskedIsSector ==
  ASSUME ChannelTyped, NEW t \in DiskUsers, pc[t] # "idle"
  PROVE  /\ request[t] \in Requests /\ request[t].op \in Ops /\ Asked(t) \in AllSectors
         /\ Asked(t) = <<request[t].part.disk, request[t].part.start + request[t].sector>>
         /\ request[t].part.disk \in Disks
         /\ request[t].part.start + request[t].sector \in DiskSectors
<1> DEFINE p == request[t].part
           s == request[t].sector
<1>1. request[t] \in Requests /\ s < p.size
  BY DEF ChannelTyped
<1>2. p \in Partitions /\ s \in Nat /\ request[t].op \in Ops
  BY <1>1 DEF Requests
<1> HIDE DEF p, s
<1>3. p.disk \in Disks /\ p.start \in Nat /\ p.size \in Nat
      /\ p.start .. p.start + p.size - 1 \subseteq DiskSectors
  BY DiskAssumption, <1>2
<1>4. p.start + s \in p.start .. p.start + p.size - 1
  BY <1>1, <1>2, <1>3 DEF p, s
<1>5. Asked(t) = <<p.disk, p.start + s>>
  BY DEF Asked, partition_sector, p, s
<1> QED
  BY <1>1, <1>2, <1>3, <1>4, <1>5 DEF AllSectors, p, s

\* The thread that has the channel is the only one under way.
LEMMA Holder ==
  ASSUME ChannelInv, NEW t \in DiskUsers, pc[t] \in Busy
  PROVE  /\ chan_lock = t /\ Stage(t) /\ ChannelTyped
         /\ pc[t] # "idle"
         /\ \A u \in DiskUsers \ {t} : pc[u] \notin Busy
  BY DEF ChannelInv, Busy

\* A step of the holder, or of the controller while somebody holds the channel.
LEMMA HolderKeeps ==
  ASSUME ChannelInv, NEW t \in DiskUsers, chan_lock = t, chan_lock' = t,
         ChannelTyped', pc'[t] \in Busy, \A u \in DiskUsers \ {t} : pc'[u] = pc[u], Stage(t)'
  PROVE  ChannelInv'
<1>1. \A u \in DiskUsers : pc'[u] \in Busy <=> chan_lock' = u
  BY DEF ChannelInv
<1> QED
  BY NoneAssumption, <1>1 DEF ChannelInv

\* The types, when neither the requests nor the sectors change.
LEMMA TypedStep ==
  ASSUME ChannelTyped, NEW t \in DiskUsers, NEW to \in Busy, pc[t] \in Busy, Moves(t, to),
         request' = request, media' = media, selected' \in Disks, lba' \in DiskSectors,
         status' \in {"idle", "busy", "data"}, intrq' \in BOOLEAN, expecting_interrupt' \in BOOLEAN,
         completion_wait' \in 0 .. 1, chan_lock' = chan_lock,
         result' \in [DiskUsers -> DiskUsers \cup {NONE}], damaged' = FALSE
  PROVE  /\ ChannelTyped' /\ pc'[t] = to /\ \A u \in DiskUsers \ {t} : pc'[u] = pc[u]
         /\ Asked(t)' = Asked(t)
<1>1. /\ pc' = [pc EXCEPT ![t] = to] /\ pc \in [DiskUsers -> Busy \cup {"idle", "lock"}]
      /\ Busy \subseteq Where /\ pc[t] # "idle"
  BY DEF Moves, ChannelTyped, Busy, Where
<1>2. /\ pc' \in [DiskUsers -> Busy \cup {"idle", "lock"}] /\ pc'[t] = to
      /\ \A u \in DiskUsers \ {t} : pc'[u] = pc[u]
  BY <1>1
<1>3. pc' \in [DiskUsers -> Where]
  BY <1>1, <1>2 DEF Where
<1>4. IdeTypeOK'
  BY <1>3 DEF ChannelTyped, IdeTypeOK
<1>5. \A u \in DiskUsers : pc'[u] # "idle" => pc[u] # "idle"
  BY <1>1, <1>2
<1>6. Asked(t)' = Asked(t)
  BY DEF Asked, partition_sector
<1> QED
  BY <1>2, <1>4, <1>5, <1>6 DEF ChannelTyped

LEMMA TypedParts ==
  ASSUME ChannelTyped
  PROVE  /\ media \in [AllSectors -> DiskUsers \cup {NONE}] /\ selected \in Disks
         /\ lba \in DiskSectors /\ status \in {"idle", "busy", "data"}
         /\ intrq \in BOOLEAN /\ expecting_interrupt \in BOOLEAN /\ completion_wait \in 0 .. 1
         /\ result \in [DiskUsers -> DiskUsers \cup {NONE}] /\ damaged = FALSE
         /\ chan_lock \in DiskUsers \cup {NONE}
  BY DEF ChannelTyped, IdeTypeOK

LEMMA SelectDeviceKeeps ==
  ASSUME ChannelInv, NEW t \in DiskUsers, SelectDevice(t)
  PROVE  ChannelInv'
<1>1. pc[t] = "select" /\ pc[t] \in Busy /\ "registers" \in Busy
  BY DEF SelectDevice, Busy
<1>2. chan_lock = t /\ Stage(t) /\ ChannelTyped /\ pc[t] # "idle"
  BY <1>1, Holder
<1>3. /\ request[t].op \in Ops /\ Asked(t) \in AllSectors
      /\ Asked(t) = <<request[t].part.disk, request[t].part.start + request[t].sector>>
      /\ request[t].part.disk \in Disks
      /\ request[t].part.start + request[t].sector \in DiskSectors
  BY <1>2, AskedIsSector
<1>4. AtRest
  BY <1>1, <1>2 DEF Stage
<1>5. /\ selected' = request[t].part.disk /\ intrq' = FALSE /\ Moves(t, "registers")
      /\ UNCHANGED <<media, lba, status, command, chan_lock, expecting_interrupt,
                     completion_wait, request, result, damaged>>
  BY DEF SelectDevice, driverVars
<1>6. /\ ChannelTyped' /\ pc'[t] = "registers" /\ \A u \in DiskUsers \ {t} : pc'[u] = pc[u]
      /\ Asked(t)' = Asked(t)
  BY <1>1, <1>2, <1>3, <1>4, <1>5, TypedParts, TypedStep
<1>7. Stage(t)'
  BY <1>3, <1>4, <1>5, <1>6 DEF Stage, AtRest
<1> QED
  BY <1>1, <1>2, <1>5, <1>6, <1>7, HolderKeeps

LEMMA SelectSectorKeeps ==
  ASSUME ChannelInv, NEW t \in DiskUsers, SelectSector(t)
  PROVE  ChannelInv'
<1>1. pc[t] = "registers" /\ pc[t] \in Busy /\ "issue" \in Busy
  BY DEF SelectSector, Busy
<1>2. chan_lock = t /\ Stage(t) /\ ChannelTyped /\ pc[t] # "idle"
  BY <1>1, Holder
<1>3. /\ request[t].op \in Ops /\ Asked(t) \in AllSectors
      /\ Asked(t) = <<request[t].part.disk, request[t].part.start + request[t].sector>>
      /\ request[t].part.disk \in Disks
      /\ request[t].part.start + request[t].sector \in DiskSectors
  BY <1>2, AskedIsSector
<1>4. AtRest /\ ~intrq /\ selected = Asked(t)[1]
  BY <1>1, <1>2 DEF Stage
<1>5. /\ lba' = request[t].part.start + request[t].sector /\ Moves(t, "issue")
      /\ UNCHANGED <<media, selected, status, command, intrq, chan_lock, expecting_interrupt,
                     completion_wait, request, result, damaged>>
  BY DEF SelectSector, driverVars, partition_sector
<1>6. /\ ChannelTyped' /\ pc'[t] = "issue" /\ \A u \in DiskUsers \ {t} : pc'[u] = pc[u]
      /\ Asked(t)' = Asked(t)
  BY <1>1, <1>2, <1>3, <1>4, <1>5, TypedParts, TypedStep
<1>7. Stage(t)'
  BY <1>3, <1>4, <1>5, <1>6 DEF Stage, AtRest
<1> QED
  BY <1>1, <1>2, <1>5, <1>6, <1>7, HolderKeeps

LEMMA IssueKeeps ==
  ASSUME ChannelInv, NEW t \in DiskUsers, Issue(t)
  PROVE  ChannelInv'
<1>1. pc[t] = "issue" /\ pc[t] \in Busy /\ after_issue(t) \in Busy
  BY DEF Issue, Busy, after_issue
<1>2. chan_lock = t /\ Stage(t) /\ ChannelTyped /\ pc[t] # "idle"
  BY <1>1, Holder
<1>3. /\ request[t].op \in Ops /\ Asked(t) \in AllSectors
      /\ Asked(t) = <<request[t].part.disk, request[t].part.start + request[t].sector>>
      /\ request[t].part.disk \in Disks
      /\ request[t].part.start + request[t].sector \in DiskSectors
  BY <1>2, AskedIsSector
<1>4. AtRest /\ ~intrq /\ <<selected, lba>> = Asked(t)
  BY <1>1, <1>2 DEF Stage
<1>5. /\ expecting_interrupt' = TRUE /\ status' = "busy" /\ Moves(t, after_issue(t))
      /\ command' = [op |-> request[t].op, sector |-> <<selected, lba>>]
      /\ UNCHANGED <<media, selected, lba, intrq, chan_lock, completion_wait, request, result,
                     damaged>>
  BY DEF Issue
<1>6. /\ ChannelTyped' /\ pc'[t] = after_issue(t) /\ \A u \in DiskUsers \ {t} : pc'[u] = pc[u]
      /\ Asked(t)' = Asked(t)
  BY <1>1, <1>2, <1>3, <1>4, <1>5, TypedParts, TypedStep
<1>7. Stage(t)'
  BY <1>3, <1>4, <1>5, <1>6 DEF Stage, AtRest, after_issue, Ops, Doing, Completing
<1> QED
  BY <1>1, <1>2, <1>5, <1>6, <1>7, HolderKeeps

LEMMA CompletedKeeps ==
  ASSUME ChannelInv, NEW t \in DiskUsers, Completed(t)
  PROVE  ChannelInv'
<1>1. pc[t] = "wait" /\ pc[t] \in Busy /\ (IF request[t].op = "read" THEN "poll" ELSE "unlock") \in Busy
  BY DEF Completed, Busy
<1>2. chan_lock = t /\ Stage(t) /\ ChannelTyped /\ pc[t] # "idle"
  BY <1>1, Holder
<1>3. request[t].op \in Ops /\ Asked(t) \in AllSectors
  BY <1>2, AskedIsSector
<1>4. /\ expecting_interrupt /\ completion_wait = 1 /\ ~intrq
      /\ \/ request[t].op = "read" /\ Doing("read", t) /\ status = "data"
         \/ /\ request[t].op = "write" /\ command = NONE /\ status = "idle"
            /\ media[Asked(t)] = t
  BY <1>1, <1>2, <1>3 DEF Stage, Ops, Completing, Completed
<1>5. /\ completion_wait' = 0 /\ Moves(t, IF request[t].op = "read" THEN "poll" ELSE "unlock")
      /\ UNCHANGED <<media, selected, lba, status, command, intrq, chan_lock,
                     expecting_interrupt, request, result, damaged>>
  BY <1>1, <1>3, <1>4 DEF Completed, chanVars
<1>6. /\ ChannelTyped' /\ pc'[t] = (IF request[t].op = "read" THEN "poll" ELSE "unlock") /\ \A u \in DiskUsers \ {t} : pc'[u] = pc[u]
      /\ Asked(t)' = Asked(t)
  BY <1>1, <1>2, <1>3, <1>4, <1>5, TypedParts, TypedStep
<1>7. Stage(t)'
  BY <1>3, <1>4, <1>5, <1>6 DEF Stage, AtRest, Ops, Doing
<1> QED
  BY <1>1, <1>2, <1>5, <1>6, <1>7, HolderKeeps

LEMMA NotBusyKeeps ==
  ASSUME ChannelInv, NEW t \in DiskUsers, NotBusy(t)
  PROVE  ChannelInv'
<1>1. pc[t] = "poll" /\ pc[t] \in Busy /\ "transfer" \in Busy
  BY DEF NotBusy, Busy
<1>2. chan_lock = t /\ Stage(t) /\ ChannelTyped /\ pc[t] # "idle"
  BY <1>1, Holder
<1>3. request[t].op \in Ops /\ Asked(t) \in AllSectors
  BY <1>2, AskedIsSector
<1>4. /\ expecting_interrupt /\ completion_wait = 0 /\ ~intrq /\ status = "data"
      /\ Doing(request[t].op, t)
  BY <1>1, <1>2, <1>3 DEF Stage, Ops, NotBusy
<1>5. /\ damaged' = FALSE /\ Moves(t, "transfer")
      /\ UNCHANGED <<media, selected, lba, status, command, intrq, chan_lock,
                     expecting_interrupt, completion_wait, request, result>>
  BY <1>1, <1>3, <1>4 DEF NotBusy, chanVars, driverVars
<1>6. /\ ChannelTyped' /\ pc'[t] = "transfer" /\ \A u \in DiskUsers \ {t} : pc'[u] = pc[u]
      /\ Asked(t)' = Asked(t)
  BY <1>1, <1>2, <1>3, <1>4, <1>5, TypedParts, TypedStep
<1>7. Stage(t)'
  BY <1>3, <1>4, <1>5, <1>6 DEF Stage, Ops, Doing
<1> QED
  BY <1>1, <1>2, <1>5, <1>6, <1>7, HolderKeeps

LEMMA InputSectorKeeps ==
  ASSUME ChannelInv, NEW t \in DiskUsers, InputSector(t)
  PROVE  ChannelInv'
<1>1. pc[t] = "transfer" /\ pc[t] \in Busy /\ "unlock" \in Busy
  BY DEF InputSector, Busy
<1>2. chan_lock = t /\ Stage(t) /\ ChannelTyped /\ pc[t] # "idle"
  BY <1>1, Holder
<1>3. request[t].op \in Ops /\ Asked(t) \in AllSectors
  BY <1>2, AskedIsSector
<1>4. /\ request[t].op = "read" /\ expecting_interrupt /\ completion_wait = 0 /\ ~intrq
      /\ command.sector = Asked(t)
  BY <1>1, <1>2, <1>3 DEF Stage, InputSector, Doing
<1>5. /\ result' = [result EXCEPT ![t] = media[Asked(t)]] /\ Moves(t, "unlock")
      /\ status' = "idle" /\ command' = NONE
      /\ UNCHANGED <<media, selected, lba, intrq, chan_lock, expecting_interrupt,
                     completion_wait, request, damaged>>
  BY <1>1, <1>3, <1>4 DEF InputSector, driverVars
<1>6. /\ ChannelTyped' /\ pc'[t] = "unlock" /\ \A u \in DiskUsers \ {t} : pc'[u] = pc[u]
      /\ Asked(t)' = Asked(t)
  BY <1>1, <1>2, <1>3, <1>4, <1>5, TypedParts, TypedStep
<1>7. Stage(t)'
  BY <1>2, <1>3, <1>4, <1>5, <1>6, TypedParts DEF Stage, AtRest
<1> QED
  BY <1>1, <1>2, <1>5, <1>6, <1>7, HolderKeeps

LEMMA OutputSectorKeeps ==
  ASSUME ChannelInv, NEW t \in DiskUsers, OutputSector(t)
  PROVE  ChannelInv'
<1>1. pc[t] = "transfer" /\ pc[t] \in Busy /\ "wait" \in Busy
  BY DEF OutputSector, Busy
<1>2. chan_lock = t /\ Stage(t) /\ ChannelTyped /\ pc[t] # "idle"
  BY <1>1, Holder
<1>3. request[t].op \in Ops /\ Asked(t) \in AllSectors
  BY <1>2, AskedIsSector
<1>4. /\ request[t].op = "write" /\ expecting_interrupt /\ completion_wait = 0 /\ ~intrq
      /\ command = [op |-> "write", sector |-> Asked(t)]
  BY <1>1, <1>2, <1>3 DEF Stage, OutputSector, Doing
<1>5. /\ status' = "busy" /\ command' = [op |-> "store", sector |-> Asked(t)] /\ Moves(t, "wait")
      /\ UNCHANGED <<media, selected, lba, intrq, chan_lock, expecting_interrupt,
                     completion_wait, request, result, damaged>>
  BY <1>1, <1>3, <1>4 DEF OutputSector, driverVars, written
<1>6. /\ ChannelTyped' /\ pc'[t] = "wait" /\ \A u \in DiskUsers \ {t} : pc'[u] = pc[u]
      /\ Asked(t)' = Asked(t)
  BY <1>1, <1>2, <1>3, <1>4, <1>5, TypedParts, TypedStep
<1>7. Stage(t)'
  BY <1>3, <1>4, <1>5, <1>6 DEF Stage, Doing
<1> QED
  BY <1>1, <1>2, <1>5, <1>6, <1>7, HolderKeeps

\* The thread gives the channel back as it found it.
LEMMA FinishKeeps ==
  ASSUME ChannelInv, NEW t \in DiskUsers, Finish(t)
  PROVE  ChannelInv'
<1>1. pc[t] = "unlock" /\ pc[t] \in Busy
  BY DEF Finish, Busy
<1>2. chan_lock = t /\ Stage(t) /\ ChannelTyped /\ \A u \in DiskUsers \ {t} : pc[u] \notin Busy
  BY <1>1, Holder
<1>3. AtRest /\ ~intrq
  BY <1>1, <1>2 DEF Stage
<1>4. /\ chan_lock' = NONE /\ request' = [request EXCEPT ![t] = NONE]
      /\ result' = [result EXCEPT ![t] = NONE] /\ pc' = [pc EXCEPT ![t] = "idle"]
      /\ UNCHANGED <<media, selected, lba, status, command, intrq, expecting_interrupt,
                     completion_wait, damaged>>
  BY DEF Finish, Moves, chanVars
<1>5. /\ pc' \in [DiskUsers -> Busy \cup {"idle", "lock"}] /\ pc'[t] = "idle"
      /\ \A u \in DiskUsers \ {t} : pc'[u] = pc[u] /\ request'[u] = request[u]
  BY <1>2, <1>4 DEF ChannelTyped
<1>6. /\ request' \in [DiskUsers -> Requests \cup {NONE}]
      /\ result' \in [DiskUsers -> DiskUsers \cup {NONE}]
  BY <1>2, <1>4 DEF ChannelTyped
<1>7. ChannelTyped'
  <2>1. IdeTypeOK'
    BY <1>2, <1>4, <1>5, TypedParts DEF IdeTypeOK, Busy, Where
  <2>2. ASSUME NEW u \in DiskUsers, pc'[u] # "idle"
        PROVE  request'[u] \in Requests /\ request'[u].sector < request'[u].part.size
    BY <1>2, <1>5, <2>2 DEF ChannelTyped
  <2> QED
    BY <1>2, <1>4, <1>5, <1>6, <2>1, <2>2, TypedParts DEF ChannelTyped
<1>8. \A u \in DiskUsers : pc'[u] \notin Busy
  BY <1>2, <1>5 DEF Busy
<1>9. AtRest' /\ ~intrq'
  BY <1>3, <1>4 DEF AtRest
<1>10. \A u \in DiskUsers : chan_lock' # u
  BY NoneAssumption, <1>4
<1> QED
  BY <1>4, <1>7, <1>8, <1>9, <1>10 DEF ChannelInv

LEMMA AcquireKeeps ==
  ASSUME ChannelInv, NEW t \in DiskUsers, Acquire(t)
  PROVE  ChannelInv'
<1>1. /\ pc[t] = "lock" /\ chan_lock = NONE /\ chan_lock' = t
      /\ pc' = [pc EXCEPT ![t] = "select"]
      /\ UNCHANGED <<media, selected, lba, status, command, intrq, expecting_interrupt,
                     completion_wait, request, result, damaged>>
  BY DEF Acquire, Moves, chanVars
<1>2. ChannelTyped /\ AtRest /\ (intrq => ~expecting_interrupt)
  BY <1>1 DEF ChannelInv
<1>3. \A u \in DiskUsers : pc[u] \notin Busy
  BY NoneAssumption, <1>1 DEF ChannelInv
<1>4. /\ pc' \in [DiskUsers -> Busy \cup {"idle", "lock"}] /\ pc'[t] = "select"
      /\ \A u \in DiskUsers \ {t} : pc'[u] = pc[u]
  BY <1>1, <1>2 DEF ChannelTyped, Busy
<1>5. ChannelTyped'
  <2>1. IdeTypeOK'
    BY <1>1, <1>2, <1>4, TypedParts DEF IdeTypeOK, Busy, Where
  <2>2. \A u \in DiskUsers : pc'[u] # "idle" => pc[u] # "idle"
    BY <1>1, <1>4
  <2> QED
    BY <1>1, <1>2, <1>4, <2>1, <2>2 DEF ChannelTyped
<1>6. \A u \in DiskUsers : pc'[u] \in Busy <=> chan_lock' = u
  BY <1>1, <1>3, <1>4 DEF Busy
<1>7. Stage(t)'
  BY <1>1, <1>2, <1>4 DEF Stage, AtRest
<1> QED
  BY NoneAssumption, <1>1, <1>5, <1>6, <1>7 DEF ChannelInv

LEMMA RequestKeeps ==
  ASSUME ChannelInv, NEW t \in DiskUsers, NEW op \in Ops, NEW p \in Partitions,
         NEW s \in 0 .. p.size - 1, Request(t, op, p, s)
  PROVE  ChannelInv'
<1> DEFINE asks == [op |-> op, part |-> p, sector |-> s]
<1>1. /\ pc[t] = "idle" /\ pc' = [pc EXCEPT ![t] = "lock"]
      /\ request' = [request EXCEPT ![t] = asks]
      /\ UNCHANGED <<media, selected, lba, status, command, intrq, chan_lock,
                     expecting_interrupt, completion_wait, result>>
  BY DEF Request, Moves, chanVars, driverVars
<1>2. p.size \in Nat
  BY DiskAssumption
<1>3. damaged' = FALSE /\ asks \in Requests /\ asks.sector < asks.part.size
  <2>1. s \in Nat /\ s < p.size
    BY <1>2
  <2>2. damaged' = FALSE
    <3>1. (s >= p.size) = FALSE
      BY <1>2
    <3>2. damaged' = (s >= p.size)
      BY DEF Request
    <3> QED
      BY <3>1, <3>2
  <2>3. asks \in Requests /\ asks.sector < asks.part.size
    BY <2>1 DEF Requests
  <2> QED
    BY <2>2, <2>3
<1> HIDE DEF asks
<1>4. ChannelTyped
  BY DEF ChannelInv
<1>5. /\ pc' \in [DiskUsers -> Busy \cup {"idle", "lock"}] /\ pc'[t] = "lock"
      /\ request' \in [DiskUsers -> Requests \cup {NONE}] /\ request'[t] = asks
      /\ \A u \in DiskUsers \ {t} : pc'[u] = pc[u] /\ request'[u] = request[u]
  BY <1>1, <1>3, <1>4 DEF ChannelTyped
<1>6. ChannelTyped'
  <2>1. IdeTypeOK'
    BY <1>1, <1>4, <1>5, TypedParts DEF IdeTypeOK, Busy, Where
  <2>2. ASSUME NEW u \in DiskUsers, pc'[u] # "idle"
        PROVE  request'[u] \in Requests /\ request'[u].sector < request'[u].part.size
    BY <1>3, <1>4, <1>5, <2>2 DEF ChannelTyped
  <2> QED
    BY <1>1, <1>3, <1>4, <1>5, <2>1, <2>2, TypedParts DEF ChannelTyped
<1>7. \A u \in DiskUsers : pc'[u] \in Busy <=> pc[u] \in Busy
  BY <1>1, <1>5 DEF Busy
<1>8. ASSUME NEW u \in DiskUsers, chan_lock' = u
      PROVE  Stage(u)'
  <2>1. Stage(u) /\ pc[u] \in Busy
    BY <1>1, <1>8 DEF ChannelInv
  <2>2. u # t
    BY <1>1, <2>1 DEF Busy
  <2>3. pc'[u] = pc[u] /\ request'[u] = request[u] /\ Asked(u)' = Asked(u)
    BY <1>5, <2>2 DEF Asked, partition_sector
  <2> QED
    BY <1>1, <2>1, <2>3 DEF Stage, AtRest, Doing, Completing
<1>9. chan_lock = NONE => AtRest /\ (intrq => ~expecting_interrupt)
  BY DEF ChannelInv
<1>10. chan_lock' = NONE => AtRest' /\ (intrq' => ~expecting_interrupt')
  BY <1>1, <1>9 DEF AtRest
<1>11. \A u \in DiskUsers : pc'[u] \in Busy <=> chan_lock' = u
  BY <1>1, <1>7 DEF ChannelInv
<1> QED
  BY <1>6, <1>8, <1>10, <1>11 DEF ChannelInv

\* A step of the controller, which moves no thread.
LEMMA HardwareTyped ==
  ASSUME ChannelTyped, media' \in [AllSectors -> DiskUsers \cup {NONE}],
         status' \in {"idle", "busy", "data"}, intrq' \in BOOLEAN, completion_wait' \in 0 .. 1,
         UNCHANGED <<selected, lba, chan_lock, expecting_interrupt, request, pc, result, damaged>>
  PROVE  ChannelTyped' /\ \A t \in DiskUsers : Asked(t)' = Asked(t)
<1>1. IdeTypeOK'
  BY DEF ChannelTyped, IdeTypeOK
<1>2. \A t \in DiskUsers : Asked(t)' = Asked(t)
  BY DEF Asked, partition_sector
<1> QED
  BY <1>1, <1>2 DEF ChannelTyped

LEMMA HardwareKeeps ==
  ASSUME ChannelInv, ChannelTyped', pc' = pc, chan_lock' = chan_lock,
         NEW t \in DiskUsers, chan_lock = t, Stage(t)'
  PROVE  ChannelInv'
<1>1. \A u \in DiskUsers : pc'[u] \in Busy <=> chan_lock' = u
  BY DEF ChannelInv
<1> QED
  BY NoneAssumption, <1>1 DEF ChannelInv

\* The controller is at work only when a thread has the channel.
LEMMA AtWork ==
  ASSUME ChannelInv, status = "busy"
  PROVE  /\ ChannelTyped /\ chan_lock \in DiskUsers
         /\ \E t \in DiskUsers : chan_lock = t /\ Stage(t) /\ pc[t] \in Busy
<1>1. ChannelTyped
  BY DEF ChannelInv
<1>2. chan_lock # NONE
  BY DEF ChannelInv, AtRest
<1> QED
  BY <1>1, <1>2, TypedParts DEF ChannelInv

LEMMA DataReadyKeeps ==
  ASSUME ChannelInv, DataReady
  PROVE  ChannelInv'
<1>1. /\ status = "busy" /\ command.op \in Ops /\ status' = "data"
      /\ intrq' = (command.op = "read")
      /\ UNCHANGED <<media, selected, lba, command, chan_lock, expecting_interrupt,
                     completion_wait, request, pc, result, damaged>>
  BY DEF DataReady, driverVars
<1>2. PICK t \in DiskUsers : chan_lock = t /\ Stage(t) /\ pc[t] \in Busy
  BY <1>1, AtWork
<1>3. ChannelTyped /\ pc[t] # "idle"
  BY <1>2 DEF ChannelInv, Busy
<1>4. request[t].op \in Ops
  BY <1>3, AskedIsSector
<1>5. /\ expecting_interrupt /\ Doing(request[t].op, t) /\ ~intrq /\ completion_wait = 0
      /\ \/ pc[t] = "wait" /\ request[t].op = "read"
         \/ pc[t] = "poll" /\ request[t].op = "write"
  <2>1. status = "busy" /\ status # "idle" /\ status # "data" /\ command.op # "store"
    BY <1>1 DEF Ops
  <2>2. ~Doing("store", t)
    BY <2>1 DEF Doing
  <2> QED
    BY <1>2, <1>4, <2>1, <2>2 DEF Stage, AtRest, Completing, Ops, Busy
<1>6. ChannelTyped' /\ Asked(t)' = Asked(t)
  BY <1>1, <1>3, TypedParts, HardwareTyped
<1>7. intrq' = (request[t].op = "read")
  BY <1>1, <1>5 DEF Doing
<1>8. Stage(t)'
  <2>1. CASE request[t].op = "read"
    BY <1>1, <1>5, <1>6, <1>7, <2>1 DEF Stage, Completing, Doing
  <2>2. CASE request[t].op = "write"
    BY <1>1, <1>5, <1>6, <1>7, <2>2 DEF Stage, Doing
  <2> QED
    BY <1>4, <2>1, <2>2 DEF Ops
<1> QED
  BY <1>1, <1>2, <1>6, <1>8, HardwareKeeps

LEMMA StoredKeeps ==
  ASSUME ChannelInv, Stored
  PROVE  ChannelInv'
<1>1. /\ status = "busy" /\ command.op = "store" /\ status' = "idle" /\ command' = NONE
      /\ intrq' = TRUE
      /\ UNCHANGED <<selected, lba, chan_lock, expecting_interrupt, completion_wait,
                     request, pc, result, damaged>>
  BY DEF Stored, driverVars
<1>2. PICK t \in DiskUsers : chan_lock = t /\ media' = [media EXCEPT ![command.sector] = t]
  BY DEF Stored
<1>3. Stage(t) /\ pc[t] \in Busy /\ ChannelTyped /\ pc[t] # "idle"
  BY <1>2 DEF ChannelInv, Busy
<1>4. request[t].op \in Ops /\ Asked(t) \in AllSectors
  BY <1>3, AskedIsSector
<1>5. /\ pc[t] = "wait" /\ request[t].op = "write" /\ expecting_interrupt /\ completion_wait = 0
      /\ command.sector = Asked(t)
  <2>1. status = "busy" /\ status # "idle" /\ status # "data" /\ ~Doing("read", t) /\ ~Doing("write", t)
    BY <1>1 DEF Doing
  <2>2. Doing("store", t) => command.sector = Asked(t)
    BY DEF Doing
  <2> QED
    BY <1>3, <1>4, <2>1, <2>2 DEF Stage, AtRest, Completing, Ops, Busy
<1>6. media' \in [AllSectors -> DiskUsers \cup {NONE}] /\ media'[Asked(t)] = t
  BY <1>2, <1>3, <1>4, <1>5, TypedParts
<1>7. ChannelTyped' /\ Asked(t)' = Asked(t)
  BY <1>1, <1>3, <1>6, TypedParts, HardwareTyped
<1>8. Stage(t)'
  BY <1>1, <1>5, <1>6, <1>7 DEF Stage
<1> QED
  BY <1>1, <1>2, <1>7, <1>8, HardwareKeeps

LEMMA ResetInterruptKeeps ==
  ASSUME ChannelInv, ResetInterrupt
  PROVE  ChannelInv'
<1>1. /\ ~expecting_interrupt /\ chan_lock = NONE /\ intrq' = TRUE
      /\ UNCHANGED <<media, selected, lba, status, command, chan_lock, expecting_interrupt,
                     completion_wait, request, pc, result, damaged>>
  BY DEF ResetInterrupt, driverVars
<1>2. ChannelTyped /\ AtRest
  BY <1>1 DEF ChannelInv
<1>3. ChannelTyped'
  BY <1>1, <1>2, TypedParts, HardwareTyped
<1>4. AtRest' /\ (intrq' => ~expecting_interrupt')
  BY <1>1, <1>2 DEF AtRest
<1>5. \A u \in DiskUsers : (pc'[u] \in Busy <=> chan_lock' = u) /\ chan_lock' # u
  BY NoneAssumption, <1>1 DEF ChannelInv
<1> QED
  BY <1>3, <1>4, <1>5 DEF ChannelInv

LEMMA InterruptKeeps ==
  ASSUME ChannelInv, interrupt_handler
  PROVE  ChannelInv'
<1>1. /\ intrq /\ intrq' = FALSE
      /\ completion_wait' = IF expecting_interrupt THEN completion_wait + 1 ELSE completion_wait
      /\ UNCHANGED <<media, selected, lba, status, command, chan_lock, expecting_interrupt,
                     request, pc, result, damaged>>
  BY DEF interrupt_handler
<1>2. ChannelTyped
  BY DEF ChannelInv
<1>3. CASE chan_lock = NONE
  <2>1. AtRest /\ ~expecting_interrupt /\ completion_wait' = completion_wait
    BY <1>1, <1>3 DEF ChannelInv
  <2>2. ChannelTyped'
    BY <1>1, <1>2, <2>1, TypedParts, HardwareTyped
  <2>3. AtRest' /\ ~expecting_interrupt'
    BY <1>1, <2>1 DEF AtRest
  <2>4. \A u \in DiskUsers : (pc'[u] \in Busy <=> chan_lock' = u) /\ chan_lock' # u
    BY NoneAssumption, <1>1, <1>3 DEF ChannelInv
  <2> QED
    BY <2>2, <2>3, <2>4 DEF ChannelInv
<1>4. ASSUME NEW t \in DiskUsers, chan_lock = t
      PROVE  ChannelInv'
  <2>1. Stage(t) /\ pc[t] \in Busy /\ pc[t] # "idle"
    BY <1>4 DEF ChannelInv, Busy
  <2>2. request[t].op \in Ops
    BY <1>2, <2>1, AskedIsSector
  <2>3. CASE pc[t] = "select"
    <3>1. AtRest /\ ~expecting_interrupt /\ completion_wait' = completion_wait
      BY <1>1, <2>1, <2>3 DEF Stage
    <3>2. ChannelTyped'
      BY <1>1, <1>2, <3>1, TypedParts, HardwareTyped
    <3>3. Stage(t)'
      BY <1>1, <2>3, <3>1 DEF Stage, AtRest
    <3> QED
      BY <1>1, <1>4, <3>2, <3>3, HardwareKeeps
  <2>4. CASE pc[t] # "select"
    <3>1. /\ pc[t] = "wait" /\ expecting_interrupt /\ completion_wait = 0
          /\ \/ request[t].op = "read" /\ Doing("read", t) /\ status = "data"
             \/ /\ request[t].op = "write" /\ command = NONE /\ media[Asked(t)] = t
                /\ status = "idle"
      BY <1>1, <2>1, <2>2, <2>4 DEF Stage, AtRest, Completing, Ops
    <3>2. completion_wait' = 1 /\ completion_wait' \in 0 .. 1 /\ media' = media /\ intrq' = FALSE
      BY <1>1, <3>1
    <3>3. ChannelTyped' /\ Asked(t)' = Asked(t)
      BY <1>1, <1>2, <3>2, TypedParts, HardwareTyped
    <3>4. Stage(t)'
      BY <1>1, <3>1, <3>2, <3>3 DEF Stage, Completing, Doing
    <3> QED
      BY <1>1, <1>4, <3>3, <3>4, HardwareKeeps
  <2> QED
    BY <2>3, <2>4
<1> QED
  BY <1>2, <1>3, <1>4, TypedParts

LEMMA ChannelInductive == ChannelInv /\ [IdeNext]_ideVars => ChannelInv'
<1> SUFFICES ASSUME ChannelInv, [IdeNext]_ideVars
             PROVE  ChannelInv'
  OBVIOUS
<1>1. CASE UNCHANGED ideVars
  <2>1. /\ UNCHANGED <<media, selected, lba, status, command, intrq, chan_lock,
                       expecting_interrupt, completion_wait, request, pc, result, damaged>>
        /\ ChannelTyped
    BY <1>1 DEF ideVars, chanVars, driverVars, ChannelInv
  <2>2. ChannelTyped' /\ \A t \in DiskUsers : Asked(t)' = Asked(t)
    BY <2>1, TypedParts, HardwareTyped
  <2>3. \A t \in DiskUsers : chan_lock' = t => Stage(t)'
    BY <2>1, <2>2 DEF ChannelInv, Stage, AtRest, Doing, Completing
  <2>4. chan_lock' = NONE => AtRest' /\ (intrq' => ~expecting_interrupt')
    BY <2>1 DEF ChannelInv, AtRest
  <2>5. \A t \in DiskUsers : pc'[t] \in Busy <=> chan_lock' = t
    BY <2>1 DEF ChannelInv
  <2> QED
    BY <2>2, <2>3, <2>4, <2>5 DEF ChannelInv
<1>2. ASSUME NEW t \in DiskUsers, Steps(t)
      PROVE  ChannelInv'
  BY <1>2, AcquireKeeps, SelectDeviceKeeps, SelectSectorKeeps, IssueKeeps, CompletedKeeps,
     NotBusyKeeps, InputSectorKeeps, OutputSectorKeeps, FinishKeeps
  DEF Steps
<1>3. ASSUME NEW t \in DiskUsers, NEW op \in Ops, NEW p \in Partitions,
             NEW s \in 0 .. p.size - 1, Request(t, op, p, s)
      PROVE  ChannelInv'
  BY <1>3, RequestKeeps
<1> QED
  BY <1>1, <1>2, <1>3, DataReadyKeeps, StoredKeeps, InterruptKeeps, ResetInterruptKeeps
  DEF IdeNext, Hardware

LEMMA ChannelInitial == IdeInit => ChannelInv
<1> SUFFICES ASSUME IdeInit
             PROVE  ChannelInv
  OBVIOUS
<1>1. ChannelTyped
  <2>1. IdeTypeOK
    BY DiskAssumption DEF IdeInit, IdeTypeOK, Disks, AllSectors, Where
  <2> QED
    BY <2>1 DEF IdeInit, ChannelTyped
<1>2. AtRest /\ ~intrq /\ chan_lock = NONE
  BY DEF IdeInit, AtRest
<1>3. \A t \in DiskUsers : pc[t] \notin Busy /\ chan_lock # t
  BY NoneAssumption DEF IdeInit, Busy
<1> QED
  BY <1>1, <1>2, <1>3 DEF ChannelInv

-----------------------------------------------------------------------------
(***************************************************************************)
(* The scan for partitions.                                                *)
(***************************************************************************)
\* Sums of sector numbers wrap at WORD; one that has not wrapped is the sum.
LEMMA WrappedSum ==
  ASSUME NEW a \in 0 .. WORD - 1, NEW b \in 0 .. WORD - 1
  PROVE  /\ (a + b) % WORD \in 0 .. WORD - 1
         /\ (a + b) % WORD >= a => (a + b) % WORD = a + b
<1>1. a + b \in Int /\ 0 <= a + b /\ a + b < 2 * WORD
  BY LayoutAssumption
<1>2. CASE a + b < WORD
  <2>1. (a + b) % WORD = a + b
    BY LayoutAssumption, <1>1, <1>2
  <2> QED
    BY LayoutAssumption, <1>1, <1>2, <2>1
<1>3. CASE a + b >= WORD
  <2>1. (a + b) % WORD = a + b - WORD
    BY LayoutAssumption, <1>1, <1>3
  <2> QED
    BY LayoutAssumption, <1>1, <1>3, <2>1
<1> QED
  BY LayoutAssumption, <1>2, <1>3

LEMMA FrameIs ==
  ASSUME disk \in Layouts, NEW sector \in Nat, NEW primary \in Nat
  PROVE  frame(sector, primary) \in Frames
<1>1. <<>> \in Tables
  BY DEF Tables
<1>2. table_read(sector) \in Tables
  BY LayoutAssumption, <1>1 DEF table_read, Tables
<1> QED
  BY <1>1, <1>2 DEF frame, Frames

\* The call on top of the stack, and the entry of its table that it looks at.
LEMMA TopOfStack ==
  ASSUME TablesInv, stack # <<>>
  PROVE  /\ top \in Frames /\ Len(stack) \in Nat \ {0}
         /\ next_entry \in Seq(Frames) /\ below \in Seq(Frames)
         /\ top.i <= Len(top.table) => entry \in Entries
<1>1. stack \in Seq(Frames) /\ Len(stack) \in Nat \ {0}
  BY DEF TablesInv
<1>2. top \in Frames
  BY <1>1 DEF top
<1>3. top.table \in Seq(Entries) /\ top.i \in Nat \ {0}
  BY <1>2 DEF Frames, Tables
<1>4. top.i <= Len(top.table) => entry \in Entries
  BY <1>3 DEF entry
<1>5. below \in Seq(Frames)
  BY <1>1 DEF below
<1>6. next_entry \in Seq(Frames)
  <2> DEFINE f == [top EXCEPT !.i = @ + 1]
  <2>1. f \in Frames
    BY <1>2 DEF Frames
  <2>2. next_entry = [stack EXCEPT ![Len(stack)] = f]
    BY <1>1 DEF next_entry, top
  <2> HIDE DEF f
  <2> QED
    BY <1>1, <2>1, <2>2
<1> QED
  BY <1>1, <1>2, <1>4, <1>5, <1>6

LEMMA TablesInductive == TablesInv /\ [PartitionNext]_partitionVars => TablesInv'
<1> SUFFICES ASSUME TablesInv, [PartitionNext]_partitionVars
             PROVE  TablesInv'
  OBVIOUS
<1>1. CASE UNCHANGED partitionVars
  BY <1>1 DEF TablesInv, partitionVars, PartitionsOnDisk
<1>2. CASE PartitionNext
  <2>1. stack # <<>> /\ disk' = disk
    BY <1>2 DEF PartitionNext
  <2>2. ASSUME stack' \in Seq(Frames), found' = found
        PROVE  TablesInv'
    BY <2>1, <2>2 DEF TablesInv, PartitionsOnDisk
  <2>3. /\ top \in Frames /\ Len(stack) \in Nat \ {0}
        /\ next_entry \in Seq(Frames) /\ below \in Seq(Frames)
        /\ top.i <= Len(top.table) => entry \in Entries
    BY <2>1, TopOfStack
  <2>4. top.sector \in Nat /\ top.primary \in Nat /\ disk \in Layouts
    BY <2>3 DEF Frames, TablesInv
  <2>5. CASE Recurse
    <3>1. entry \in Entries /\ found' = found
      BY <2>3, <2>5 DEF Recurse
    <3>2. CASE stack' = stack
      BY <2>2, <3>1, <3>2 DEF TablesInv
    <3>3. CASE stack' = Append(next_entry,
               IF top.sector = 0 THEN frame(entry.offset, entry.offset)
               ELSE frame((entry.offset + top.primary) % WORD, top.primary))
      <4>1. entry.offset \in Nat /\ (entry.offset + top.primary) % WORD \in Nat
        BY LayoutAssumption, <2>4, <3>1 DEF Entries
      <4>2. /\ frame(entry.offset, entry.offset) \in Frames
            /\ frame((entry.offset + top.primary) % WORD, top.primary) \in Frames
        BY <2>4, <4>1, FrameIs
      <4>3. stack' \in Seq(Frames)
        BY <2>3, <3>3, <4>2
      <4> QED
        BY <2>2, <3>1, <4>3
    <3> QED
      BY <2>5, <3>2, <3>3 DEF Recurse
  <2>6. CASE Data
    <3> DEFINE start == (entry.offset + top.sector) % WORD
               size == entry.size
    <3>1. /\ found' = IF fits(start, size) THEN found \cup {[start |-> start, size |-> size]}
                                           ELSE found
          /\ stack' = next_entry /\ entry \in Entries
      BY <2>3, <2>6 DEF Data
    <3>2. start \in 0 .. WORD - 1 /\ size \in 0 .. WORD - 1
      <4>1. entry.offset + top.sector \in Nat /\ size \in 0 .. WORD - 1
        BY <2>4, <3>1 DEF Entries
      <4> QED
        BY LayoutAssumption, <4>1
    <3>3. disk.size \in 0 .. WORD - 1
      BY LayoutAssumption, <2>4
    <3> HIDE DEF start, size
    <3>4. fits(start, size) => start + size <= disk.size
      <4>1. ASSUME fits(start, size)
            PROVE  (start + size) % WORD = start + size
        BY <3>2, <4>1, WrappedSum DEF fits
      <4> QED
        BY <4>1 DEF fits
    <3>5. CASE fits(start, size)
      <4>1. found' = found \cup {[start |-> start, size |-> size]}
        BY <3>1, <3>5
      <4>2. \A p \in found : p.start \in Nat /\ p.size \in Nat /\ p.start + p.size <= disk.size
        BY DEF TablesInv, PartitionsOnDisk
      <4>3. \A p \in found' : p.start \in Nat /\ p.size \in Nat /\ p.start + p.size <= disk.size
        BY <3>2, <3>4, <3>5, <4>1, <4>2
      <4> QED
        BY <2>1, <2>3, <2>4, <3>1, <4>3 DEF TablesInv, PartitionsOnDisk
    <3>6. CASE ~fits(start, size)
      BY <2>2, <2>3, <3>1, <3>6
    <3> QED
      BY <3>5, <3>6
  <2>7. CASE Skip
    BY <2>2, <2>3, <2>7 DEF Skip
  <2>8. CASE Return
    BY <2>2, <2>3, <2>8 DEF Return
  <2> QED
    BY <1>2, <2>5, <2>6, <2>7, <2>8 DEF PartitionNext
<1> QED
  BY <1>1, <1>2

LEMMA TablesInitial == PartitionInit => TablesInv
<1> SUFFICES ASSUME PartitionInit
             PROVE  TablesInv
  OBVIOUS
<1>1. disk \in Layouts /\ stack = <<frame(0, 0)>> /\ found = {}
  BY DEF PartitionInit
<1>2. frame(0, 0) \in Frames
  BY <1>1, FrameIs
<1> QED
  BY <1>1, <1>2 DEF TablesInv, PartitionsOnDisk

\* A thread reads the sector it asked for and finds its own data in the sector it wrote, and the
\* completion of one command is never taken for that of another (ide.c); a partition lies on its
\* disk, whatever numbers the tables hold (partition.c).  For any disks, partitions, tables and
\* number of threads.
THEOREM DisksRightHolds == DiskSpec => []DisksRight
<1>1. IdeInit /\ PartitionInit => ChannelInv /\ TablesInv
  BY ChannelInitial, TablesInitial
<1>2. ChannelInv /\ TablesInv /\ [IdeNext]_ideVars /\ [PartitionNext]_partitionVars
        => (ChannelInv /\ TablesInv)'
  BY ChannelInductive, TablesInductive
<1>3. ChannelInv /\ TablesInv => DisksRight
  <2> SUFFICES ASSUME ChannelInv, TablesInv
               PROVE  DisksRight
    OBVIOUS
  <2>1. RightSector
    <3> SUFFICES ASSUME NEW t \in DiskUsers, pc[t] = "unlock"
                 PROVE  IF request[t].op = "read" THEN result[t] = media[Asked(t)]
                        ELSE media[Asked(t)] = t
      BY DEF RightSector, Asked, partition_sector
    <3>1. Stage(t)
      BY Holder DEF Busy
    <3> QED
      BY <3>1 DEF Stage
  <2>2. ChannelAtRest
    <3>1. IdeTypeOK /\ ~damaged
      BY DEF ChannelInv, ChannelTyped
    <3>2. chan_lock = NONE => command = NONE /\ status = "idle" /\ completion_wait = 0
      BY DEF ChannelInv, AtRest
    <3>3. ASSUME NEW t \in DiskUsers, pc[t] \in {"select", "registers", "issue"}
          PROVE  command = NONE /\ completion_wait = 0
      <4>1. Stage(t)
        BY <3>3, Holder DEF Busy
      <4> QED
        BY <3>3, <4>1 DEF Stage, AtRest
    <3> QED
      BY <3>1, <3>2, <3>3 DEF ChannelAtRest
  <2> QED
    BY <2>1, <2>2 DEF TablesInv, DisksRight
<1> QED
  BY <1>1, <1>2, <1>3, PTL DEF DiskSpec

-----------------------------------------------------------------------------
(***************************************************************************)
(* The keyboard.                                                           *)
(***************************************************************************)
LEMMA CharacterIs ==
  ASSUME shifts = held \cap ShiftKeys, caps_lock \in BOOLEAN, NEW code \in OrdinaryKeys
  PROVE  character(code) = StandsFor(code, held, caps_lock)
<1> DEFINE S == {LShift, RShift} \cap held # {}
           A == {LAlt, RAlt} \cap held # {}
           C == {LCtrl, RCtrl} \cap held # {}
           c == map_key(code, shift)
           l == IF ctrl /\ c \in 64..95 THEN c - 64
                ELSE IF shift = caps_lock THEN tolower(c) ELSE c
           plain == CASE code = 30 -> IF S # caps_lock THEN 65 ELSE 97
                      [] code = 2 -> IF S THEN 33 ELSE 49
                      [] code = 26 -> IF S THEN 123 ELSE 91
                      [] code = 83 -> 127
                      [] code = 28 -> 13
           low == IF C /\ code = 30 THEN 1 ELSE IF C /\ code = 26 /\ ~S THEN 27 ELSE plain
<1>1. (shift <=> S) /\ (alt <=> A) /\ (ctrl <=> C) /\ S \in BOOLEAN
  BY DEF shift, alt, ctrl, ShiftKeys
<1>2. character(code) = (IF alt THEN l + 128 ELSE l) % 256
  BY DEF character
<1>3. StandsFor(code, held, caps_lock) = IF A THEN low + 128 ELSE low
  BY DEF StandsFor
<1> HIDE DEF S, A, C
<1>4. c = CASE code = 30 -> 65 [] code = 2 -> (IF S THEN 33 ELSE 49)
            [] code = 26 -> (IF S THEN 123 ELSE 91) [] code = 83 -> 127 [] code = 28 -> 13
  BY <1>1 DEF map_key, invariant_keymap, shifted_keymap, unshifted_keymap, OrdinaryKeys
<1> HIDE DEF c
<1>5. l = low /\ low \in 0 .. 127
  <2>1. CASE code = 30
    <3>1. c = 65 /\ tolower(c) = 97 /\ c \in 64 .. 95
      BY <1>4, <2>1 DEF tolower
    <3>2. CASE C
      BY <1>1, <2>1, <3>1, <3>2
    <3>3. CASE ~C
      <4>1. l = IF shift = caps_lock THEN 97 ELSE 65
        BY <1>1, <3>1, <3>3
      <4>2. low = IF S # caps_lock THEN 65 ELSE 97
        BY <2>1, <3>3
      <4>3. (shift = caps_lock) <=> ~(S # caps_lock)
        <5>1. CASE caps_lock = TRUE
          BY <1>1, <5>1
        <5>2. CASE caps_lock = FALSE
          <6>1. (shift = FALSE) <=> ~S
            BY <1>1
          <6>2. (S # FALSE) <=> S
            BY <1>1
          <6> QED
            BY <5>2, <6>1, <6>2
        <5> QED
          BY <5>1, <5>2
      <4>4. l = low /\ (low = 65 \/ low = 97)
        BY <4>1, <4>2, <4>3
      <4> HIDE DEF l, low
      <4> QED
        BY <4>4
    <3> QED
      BY <3>2, <3>3
  <2>2. CASE code = 2
    BY <1>1, <1>4, <2>2 DEF tolower
  <2>3. CASE code = 26
    BY <1>1, <1>4, <2>3 DEF tolower
  <2>4. CASE code = 83
    BY <1>1, <1>4, <2>4 DEF tolower
  <2>5. CASE code = 28
    BY <1>1, <1>4, <2>5 DEF tolower
  <2> QED
    BY <2>1, <2>2, <2>3, <2>4, <2>5 DEF OrdinaryKeys
<1> HIDE DEF l, low
<1> QED
  BY <1>1, <1>2, <1>3, <1>5

LEMMA TypedIs == TypedRight <=> (typed # NoChar => typed[2] = StandsFor(typed[1], typed[3], typed[4]))
  BY DEF TypedRight, StandsFor

LEMMA KbdInductive == KbdInv /\ [KbdNext]_kbdVars => KbdInv'
<1> SUFFICES ASSUME KbdInv, [KbdNext]_kbdVars
             PROVE  KbdInv'
  OBVIOUS
<1>1. CASE UNCHANGED kbdVars
  BY <1>1 DEF KbdInv, kbdVars, TypedRight
<1>2. ASSUME NEW k \in Keyboards, Pressed(k)
      PROVE  KbdInv'
  <2>1. shifts' = held' \cap ShiftKeys
    BY <1>2 DEF Pressed, KbdInv
  <2>2. caps_lock' \in BOOLEAN
    BY <1>2 DEF Pressed, KbdInv
  <2>3. typed' # NoChar =>
          k \in OrdinaryKeys /\ typed' = <<k, character(k), held, caps_lock>>
    BY <1>2 DEF Pressed
  <2>4. TypedRight'
    <3>1. typed' # NoChar => typed'[2] = StandsFor(typed'[1], typed'[3], typed'[4])
      BY <2>3, CharacterIs DEF KbdInv
    <3> QED
      BY <3>1 DEF TypedRight, StandsFor
  <2> QED
    BY <2>1, <2>2, <2>4 DEF KbdInv
<1>3. ASSUME NEW k \in Keyboards, Released(k)
      PROVE  KbdInv'
  BY <1>3 DEF Released, released_keys, KbdInv, TypedRight
<1> QED
  BY <1>1, <1>2, <1>3 DEF KbdNext
-----------------------------------------------------------------------------
(***************************************************************************)
(* The screen.                                                             *)
(***************************************************************************)
\* What ScreenShowsPaper says, given the number of lines that have scrolled off.
LEMMA ShowsPaper ==
  ScreenShowsPaper <=>
    /\ cx \in Columns /\ cy = Len(paper) - Above(paper) - 1
    /\ cursor = cx + COL_CNT * cy
    /\ \A y \in Rows : fb[y] = IF Above(paper) + y + 1 <= Len(paper) THEN paper[Above(paper) + y + 1]
                               ELSE blank
  BY DEF ScreenShowsPaper, Above

LEMMA NewlineKeeps ==
  ASSUME ScreenInv, NEW screen \in [Rows -> Lines], \A y \in Rows \ {cy} : screen[y] = fb[y],
         newline(screen), move_cursor
  PROVE  ScreenInv'
<1> DEFINE n == Len(paper)
           a == Above(paper)
<1>1. /\ fb \in [Rows -> Lines] /\ paper \in Seq(Lines) /\ n \in Nat \ {0}
      /\ cx \in Columns /\ cy \in Rows /\ cy = n - a - 1
      /\ \A y \in Rows : fb[y] = IF a + y + 1 <= n THEN paper[a + y + 1] ELSE blank
  BY ShowsPaper DEF ScreenInv
<1>2. blank \in Lines
  BY DEF blank, Lines
<1>3. paper' = Append([paper EXCEPT ![n] = screen[cy]], blank)
  BY DEF newline
<1>4. /\ paper' \in Seq(Lines) /\ Len(paper') = n + 1 /\ paper'[n + 1] = blank
      /\ paper'[n] = screen[cy] /\ \A i \in 1 .. n - 1 : paper'[i] = paper[i]
  <2> DEFINE q == [paper EXCEPT ![n] = screen[cy]]
  <2>1. screen[cy] \in Lines
    BY <1>1
  <2>2. q \in Seq(Lines) /\ Len(q) = n /\ q[n] = screen[cy] /\ \A i \in 1 .. n - 1 : q[i] = paper[i]
    BY <1>1, <2>1
  <2>3. paper' = Append(q, blank)
    BY <1>3
  <2> HIDE DEF q, n
  <2> QED
    BY <1>1, <1>2, <2>2, <2>3
<1>5. cx' = 0 /\ cx' \in Columns /\ cursor' = cx' + COL_CNT * cy'
  BY ScreenAssumption DEF newline, move_cursor, Columns
<1>6. paper' # <<>>
  BY <1>1, <1>4
<1>7. a \in Nat /\ (n > ROW_CNT => a = n - ROW_CNT) /\ (n <= ROW_CNT => a = 0)
  BY ScreenAssumption, <1>1 DEF Above
<1> HIDE DEF n, a
<1>8. CASE cy + 1 >= ROW_CNT
  <2>1. cy' = ROW_CNT - 1 /\ fb' = scrolled(screen)
    BY ScreenAssumption, <1>1, <1>8 DEF newline, Rows
  <2>2. a = n - ROW_CNT /\ n >= ROW_CNT /\ a \in Nat
    <3>1. cy \in Int /\ cy + 1 = ROW_CNT /\ n \in Int /\ n = cy + a + 1
      BY ScreenAssumption, <1>1, <1>8, <1>7 DEF Rows
    <3> QED
      BY <1>7, <3>1
  <2>3. Above(paper') = a + 1
    BY ScreenAssumption, <1>1, <1>4, <2>2 DEF Above
  <2>4. fb' \in [Rows -> Lines]
    BY <1>2, <2>1 DEF scrolled, Rows
  <2>5. ASSUME NEW y \in Rows
        PROVE  a + 1 + y + 1 <= n + 1 /\ fb'[y] = paper'[a + 1 + y + 1]
    <3>1. CASE y = ROW_CNT - 1
      <4>1. fb'[y] = blank /\ a + 1 + y + 1 = n + 1
        BY ScreenAssumption, <1>1, <2>1, <2>2, <3>1 DEF scrolled
      <4> QED
        BY <1>1, <1>4, <4>1
    <3>2. CASE y # ROW_CNT - 1
      <4>1. y + 1 \in Rows /\ y \in Nat
        BY ScreenAssumption, <3>2 DEF Rows
      <4>2. fb'[y] = screen[y + 1]
        BY <2>1, <3>2 DEF scrolled
      <4>3. CASE y + 1 = cy
        <5>1. a + 1 + y + 1 = n
          BY <1>1, <2>2, <4>3, <4>1
        <5> QED
          BY <1>1, <1>4, <4>2, <4>3, <5>1
      <4>4. CASE y + 1 # cy
        <5>1. screen[y + 1] = fb[y + 1]
          BY <4>1, <4>4
        <5>2. a + 1 + y + 1 \in 1 .. n - 1 /\ a + (y + 1) + 1 = a + 1 + y + 1
          <6>1. cy = ROW_CNT - 1 /\ y + 1 <= ROW_CNT - 1 /\ a \in Nat /\ n = a + ROW_CNT
            BY ScreenAssumption, <1>1, <2>2, <4>1 DEF Rows
          <6>2. y + 1 <= ROW_CNT - 2
            BY ScreenAssumption, <4>1, <4>4, <6>1
          <6> QED
            BY ScreenAssumption, <1>1, <4>1, <6>1, <6>2
        <5>3. fb[y + 1] = paper[a + (y + 1) + 1]
          BY <1>1, <4>1, <5>2
        <5>4. a + 1 + y + 1 <= n + 1
          BY <1>1, <5>2
        <5> QED
          BY <1>4, <4>2, <5>1, <5>2, <5>3, <5>4
      <4> QED
        BY <4>3, <4>4
    <3> QED
      BY <3>1, <3>2
  <2>6. cy' = Len(paper') - Above(paper') - 1
    BY ScreenAssumption, <1>1, <1>4, <2>1, <2>2, <2>3
  <2>7. ScreenShowsPaper'
    BY <1>4, <1>5, <2>3, <2>5, <2>6 DEF ScreenShowsPaper, Above
  <2>8. cy' \in Rows
    BY ScreenAssumption, <2>1 DEF Rows
  <2> QED
    BY <1>4, <1>5, <1>6, <2>4, <2>7, <2>8 DEF ScreenInv
<1>9. CASE cy + 1 < ROW_CNT
  <2>1. cy' = cy + 1 /\ fb' = screen
    BY ScreenAssumption, <1>1, <1>9 DEF newline, Rows
  <2>2. a = 0 /\ n = cy + 1
    <3>1. cy \in Int /\ cy + 1 < ROW_CNT /\ n \in Int /\ n = cy + a + 1
      BY <1>1, <1>9, <1>7 DEF Rows
    <3> QED
      BY ScreenAssumption, <1>7, <3>1
  <2>3. Above(paper') = 0
    BY ScreenAssumption, <1>1, <1>4, <1>9, <2>2 DEF Above
  <2>4. ASSUME NEW y \in Rows
        PROVE  fb'[y] = IF 0 + y + 1 <= n + 1 THEN paper'[0 + y + 1] ELSE blank
    <3>1. y \in Nat /\ cy \in Nat
      BY <1>1 DEF Rows
    <3>2. CASE y = cy
      BY <1>1, <1>4, <2>1, <2>2, <3>1, <3>2
    <3>3. CASE y # cy
      <4>1. fb'[y] = IF 0 + y + 1 <= n THEN paper[0 + y + 1] ELSE blank
        BY <1>1, <2>1, <2>2, <3>3
      <4>2. CASE y + 1 < n
        <5>1. y + 1 \in 1 .. n - 1
          BY <1>1, <3>1, <4>2
        <5> QED
          BY <1>1, <1>4, <3>1, <4>1, <4>2, <5>1
      <4>3. CASE y + 1 > n
        BY <1>1, <1>4, <3>1, <4>1, <4>3
      <4> QED
        BY <1>1, <2>2, <3>1, <3>3, <4>2, <4>3
    <3> QED
      BY <3>2, <3>3
  <2>5. cy' = Len(paper') - Above(paper') - 1 /\ cy' \in Rows
    BY ScreenAssumption, <1>1, <1>4, <1>9, <2>1, <2>2, <2>3 DEF Rows
  <2>6. ScreenShowsPaper'
    BY <1>4, <1>5, <2>3, <2>4, <2>5 DEF ScreenShowsPaper, Above
  <2> QED
    BY <1>4, <1>5, <1>6, <2>1, <2>5, <2>6 DEF ScreenInv
<1> QED
  BY ScreenAssumption, <1>1, <1>8, <1>9 DEF Rows

\* The cursor moves on, or the line ends.
LEMMA AdvanceKeeps ==
  ASSUME ScreenInv, NEW screen \in [Rows -> Lines], \A y \in Rows \ {cy} : screen[y] = fb[y],
         NEW x \in Nat, Advance(x, screen), move_cursor
  PROVE  ScreenInv'
<1>1. CASE past_end(x)
  BY <1>1, NewlineKeeps DEF Advance
<1>2. CASE ~past_end(x)
  <2> DEFINE n == Len(paper)
             a == Above(paper)
  <2>1. /\ fb \in [Rows -> Lines] /\ paper \in Seq(Lines) /\ n \in Nat \ {0}
        /\ cy \in Rows /\ cy = n - a - 1 /\ a \in Nat
        /\ \A y \in Rows : fb[y] = IF a + y + 1 <= n THEN paper[a + y + 1] ELSE blank
    BY ScreenAssumption, ShowsPaper DEF ScreenInv, Above
  <2>2. cx' = x /\ cy' = cy /\ fb' = screen /\ paper' = [paper EXCEPT ![n] = screen[cy]]
    BY <1>2 DEF Advance
  <2>3. cx' \in Columns /\ cursor' = cx' + COL_CNT * cy'
    BY ScreenAssumption, <1>2, <2>2 DEF past_end, Columns, move_cursor
  <2>4. screen[cy] \in Lines
    BY <2>1
  <2>5. /\ paper' \in Seq(Lines) /\ Len(paper') = n /\ paper'[n] = screen[cy]
        /\ \A i \in 1 .. n : i # n => paper'[i] = paper[i]
    BY <2>1, <2>2, <2>4
  <2> HIDE DEF n
  <2>6. Above(paper') = a
    BY <2>5 DEF Above, n
  <2> HIDE DEF a
  <2>7. ASSUME NEW y \in Rows
        PROVE  fb'[y] = IF a + y + 1 <= n THEN paper'[a + y + 1] ELSE blank
    <3>1. y \in Nat /\ cy \in Nat
      BY <2>1 DEF Rows
    <3>2. CASE y = cy
      <4>1. a + y + 1 = n
        BY <2>1, <3>1, <3>2
      <4> QED
        BY <2>1, <2>2, <2>5, <3>2, <4>1
    <3>3. CASE y # cy
      <4>1. fb'[y] = IF a + y + 1 <= n THEN paper[a + y + 1] ELSE blank
        BY <2>1, <2>2, <3>3
      <4>2. a + y + 1 # n /\ (a + y + 1 <= n => a + y + 1 \in 1 .. n)
        BY <2>1, <3>1, <3>3
      <4> QED
        BY <2>5, <4>1, <4>2
    <3> QED
      BY <3>2, <3>3
  <2>8. paper' # <<>>
    BY <2>1, <2>5
  <2>9. ScreenShowsPaper'
    BY <2>1, <2>2, <2>3, <2>5, <2>6, <2>7 DEF ScreenShowsPaper, Above
  <2> QED
    BY <2>1, <2>2, <2>3, <2>5, <2>8, <2>9 DEF ScreenInv
<1> QED
  BY <1>1, <1>2

\* Only the cursor's column changes.
LEMMA ColumnKeeps ==
  ASSUME ScreenInv, UNCHANGED <<fb, cy, paper>>, cx' \in Columns, move_cursor
  PROVE  ScreenInv'
  BY DEF ScreenInv, ScreenShowsPaper, move_cursor

LEMMA ScreenInductive == ScreenInv /\ [VgaNext]_vgaVars => ScreenInv'
<1> SUFFICES ASSUME ScreenInv, [VgaNext]_vgaVars
             PROVE  ScreenInv'
  OBVIOUS
<1>1. CASE UNCHANGED vgaVars
  BY <1>1 DEF ScreenInv, ScreenShowsPaper, vgaVars
<1>2. CASE VgaNext
  <2>1. move_cursor /\ fb \in [Rows -> Lines] /\ cx \in Columns /\ cy \in Rows
    BY <1>2 DEF VgaNext, ScreenInv
  <2>2. ASSUME NEW c \in {"a", "b"}, PutChar(c)
        PROVE  ScreenInv'
    <3> DEFINE screen == [fb EXCEPT ![cy][cx] = c]
    <3>1. screen \in [Rows -> Lines]
      BY <2>1 DEF Lines
    <3>2. \A y \in Rows \ {cy} : screen[y] = fb[y]
      BY <2>1
    <3>3. Advance(cx + 1, screen)
      BY <2>2 DEF PutChar
    <3>4. cx + 1 \in Nat
      BY <2>1 DEF Columns
    <3> HIDE DEF screen
    <3> QED
      BY <2>1, <3>1, <3>2, <3>3, <3>4, AdvanceKeeps
  <2>3. CASE PutTab
    <3> DEFINE x == ((cx + 1 + TAB - 1) \div TAB) * TAB
    <3>1. x \in Nat
      <4>1. cx + 1 + TAB - 1 \in Nat
        BY ScreenAssumption, <2>1 DEF Columns
      <4>2. (cx + 1 + TAB - 1) \div TAB \in Nat
        BY ScreenAssumption, <4>1
      <4> QED
        BY ScreenAssumption, <4>2
    <3>2. Advance(x, fb)
      BY <2>3 DEF PutTab
    <3> HIDE DEF x
    <3> QED
      BY <2>1, <3>1, <3>2, AdvanceKeeps
  <2>4. CASE PutNewline
    BY <2>1, <2>4, NewlineKeeps DEF PutNewline
  <2>5. CASE PutBackspace
    <3>1. cx' \in Columns
      BY ScreenAssumption, <2>1, <2>5 DEF PutBackspace, Columns
    <3> QED
      BY <2>1, <2>5, <3>1, ColumnKeeps DEF PutBackspace
  <2>6. CASE PutReturn
    <3>1. cx' \in Columns
      BY ScreenAssumption, <2>6 DEF PutReturn, Columns
    <3> QED
      BY <2>1, <2>6, <3>1, ColumnKeeps DEF PutReturn
  <2>7. CASE PutFormFeed
    <3>1. fb' = [y \in Rows |-> blank] /\ cx' = 0 /\ cy' = 0 /\ paper' = <<blank>>
      BY <2>7 DEF PutFormFeed
    <3>2. blank \in Lines /\ cx' \in Columns /\ cy' \in Rows
      <4>1. blank \in Lines
        BY DEF blank, Lines
      <4> QED
        BY ScreenAssumption, <3>1, <4>1 DEF Columns, Rows
    <3>3. Len(paper') = 1 /\ paper'[1] = blank /\ paper' \in Seq(Lines) /\ paper' # <<>>
      BY <3>1, <3>2
    <3>4. ScreenShowsPaper'
      BY ScreenAssumption, <2>1, <3>1, <3>2, <3>3 DEF ScreenShowsPaper, move_cursor, Rows
    <3> QED
      BY <3>1, <3>2, <3>3, <3>4 DEF ScreenInv
  <2>8. CASE PutBell
    BY <2>1, <2>8, ColumnKeeps DEF PutBell
  <2> QED
    BY <1>2, <2>2, <2>3, <2>4, <2>5, <2>6, <2>7, <2>8 DEF VgaNext
<1> QED
  BY <1>1, <1>2

LEMMA TerminalInitial == KbdInit /\ VgaInit => KbdInv /\ ScreenInv
<1> SUFFICES ASSUME KbdInit, VgaInit
             PROVE  KbdInv /\ ScreenInv
  OBVIOUS
<1>1. KbdInv
  BY DEF KbdInit, KbdInv, TypedRight
<1>2. ScreenInv
  <2>1. fb = [y \in Rows |-> blank] /\ cx = 0 /\ cy = 0 /\ cursor = 0 /\ paper = <<blank>>
    BY DEF VgaInit
  <2>2. blank \in Lines /\ cx \in Columns /\ cy \in Rows
    <3>1. blank \in Lines
      BY DEF blank, Lines
    <3> QED
      BY ScreenAssumption, <2>1, <3>1 DEF Columns, Rows
  <2>3. Len(paper) = 1 /\ paper[1] = blank /\ paper \in Seq(Lines) /\ paper # <<>>
    BY <2>1, <2>2
  <2>4. ScreenShowsPaper
    BY ScreenAssumption, <2>1, <2>2, <2>3 DEF ScreenShowsPaper, Rows
  <2> QED
    BY <2>1, <2>2, <2>3, <2>4 DEF ScreenInv
<1> QED
  BY <1>1, <1>2

\* A key gives the character that the keys held with it stand for (kbd.c); and the screen shows the
\* last lines that were printed, whole and in order, with the cursor where printing goes on
\* (vga.c).  For any keyboard, any sequence of keys and characters, and any size of the screen.
THEOREM TerminalRightHolds == TerminalSpec => []TerminalRight
<1>1. KbdInit /\ VgaInit => KbdInv /\ ScreenInv
  BY TerminalInitial
<1>2. KbdInv /\ ScreenInv /\ [KbdNext]_kbdVars /\ [VgaNext]_vgaVars => (KbdInv /\ ScreenInv)'
  BY KbdInductive, ScreenInductive
<1>3. KbdInv /\ ScreenInv => TerminalRight
  BY DEF KbdInv, ScreenInv, TerminalRight
<1> QED
  BY <1>1, <1>2, <1>3, PTL DEF TerminalSpec
-----------------------------------------------------------------------------
(***************************************************************************)
(* The real-time clock.                                                    *)
(***************************************************************************)
\* What register k shows at time t, as rtc_get_time reads it.
Shown(t, k) == bcd_to_bin(register(t, k))
AllShown == {Shown(t, k) : t \in Nat, k \in DOMAIN Radix}

\* What has been read was shown since the pass began, the seconds as it began.
ReadInPass ==
  /\ \A k \in DOMAIN reading : \E t \in began .. moment : reading[k] = Shown(t, k)
  /\ reading # <<>> => reading[1] = Shown(began, 1)
  /\ stable => \A k \in DOMAIN Radix : reading[k] = Shown(began, k)

\* That holds unless some read of the pass was made in the middle of an update.
ClockInv ==
  /\ moment \in Nat /\ began \in Nat /\ began <= moment /\ moment <= began + PassTicks
  /\ updating \in BOOLEAN /\ (updating => moment + 1 <= began + PassTicks)
  /\ reading \in Seq(AllShown) /\ Len(reading) <= Len(Radix)
  /\ stable => Len(reading) = Len(Radix)
  /\ ~midway => ReadInPass

\* The function that is defined recursively exists.
LEMMA LastsExists ==
  \E f : f = [k \in 1 .. Len(Radix) |-> IF k = 1 THEN 1 ELSE f[k - 1] * Radix[k - 1]]
<1> DEFINE Turn(f, k) == IF k = 1 THEN 1 ELSE f[k - 1] * Radix[k - 1]
           Can(m) == \E f : f = [k \in 1 .. m |-> Turn(f, k)]
           Bad == {m \in Nat : ~Can(m)}
<1>1. ASSUME Bad # {} PROVE FALSE
  <2> DEFINE R == OpToRel(<, Nat)
  <2>1. IsWellFoundedOn(R, Nat)
    BY NatLessThanWellFounded
  <2>2. \A k, m \in Nat : <<k, m>> \in R <=> k < m
    BY DEF OpToRel
  <2> HIDE DEF R, Can
  <2>3. PICK m \in Bad : \A k \in Bad : ~(<<k, m>> \in R)
    <3>1. Bad \in SUBSET Nat
      OBVIOUS
    <3> HIDE DEF Bad
    <3> QED
      BY <1>1, <2>1, <3>1, WFMin
  <2>4. m \in Nat /\ ~Can(m) /\ \A k \in Nat : k < m => Can(k)
    BY <2>2, <2>3
  <2> USE DEF Can
  <2>5. CASE m = 0
    <3>1. [k \in 1 .. 0 |-> 0] = [k \in 1 .. 0 |-> Turn([j \in 1 .. 0 |-> 0], k)]
      OBVIOUS
    <3> QED
      BY <2>4, <2>5, <3>1
  <2>6. CASE m # 0
    <3>0. Can(m - 1)
      <4> HIDE DEF Can
      <4> QED
        BY <2>4, <2>6
    <3>1. PICK g : g = [k \in 1 .. m - 1 |-> Turn(g, k)]
      BY <3>0
    <3> DEFINE f == [k \in 1 .. m |-> IF k = m THEN Turn(g, m) ELSE g[k]]
    <3>2. ASSUME NEW k \in 1 .. m PROVE f[k] = Turn(f, k)
      <4>1. k # 1 => k - 1 \in 1 .. m - 1 /\ k - 1 \in 1 .. m /\ k - 1 # m
        BY <2>4
      <4>2. Turn(f, k) = Turn(g, k)
        BY <4>1
      <4>3. k # m => k \in 1 .. m - 1
        BY <2>4
      <4>4. k # m => g[k] = Turn(g, k)
        BY <3>1, <4>3
      <4> HIDE DEF Turn
      <4> QED
        BY <4>2, <4>4
    <3>3. f = [k \in 1 .. m |-> Turn(f, k)]
      BY <3>2
    <3> HIDE DEF f, Turn
    <3> QED
      BY <2>4, <3>3
  <2> QED
    BY <2>5, <2>6
<1>2. Len(Radix) \in Nat
  BY ClockAssumption
<1> QED
  BY <1>1, <1>2

LEMMA SecondsLast == 1 \in DOMAIN Radix /\ Radix[1] \in Nat \ {0} /\ lasts[1] = 1
<1>1. 1 \in DOMAIN Radix /\ Radix[1] \in Nat \ {0} /\ 1 \in 1 .. Len(Radix)
  BY ClockAssumption
<1> DEFINE Is(f) == f = [k \in 1 .. Len(Radix) |-> IF k = 1 THEN 1 ELSE f[k - 1] * Radix[k - 1]]
<1>2. \E f : Is(f)
  BY LastsExists
<1>3. lasts = CHOOSE f : Is(f)
  BY DEF lasts
<1>4. Is(lasts)
  <2> HIDE DEF Is
  <2> QED
    BY <1>2, <1>3
<1> QED
  BY <1>1, <1>4

\* The seconds are the same before they have turned round only while no time passes.
LEMMA SecondTurns ==
  ASSUME NEW s \in Nat, NEW t \in Nat, s <= t, t <= s + PassTicks, Shown(s, 1) = Shown(t, 1)
  PROVE  s = t
<1> DEFINE R == Radix[1]
<1>1. R \in Nat \ {0} /\ PassTicks \in Nat /\ PassTicks < R /\ lasts[1] = 1
  BY SecondsLast, ClockAssumption
<1>2. ASSUME NEW x \in Nat PROVE bcd_to_bin(bcd(x)) = x
  <2> DEFINE a == x \div 10
             b == x % 10
  <2>1. a \in Nat /\ b \in 0 .. 9 /\ x = a * 10 + b
    OBVIOUS
  <2> HIDE DEF a, b
  <2>2. (a * 16 + b) % 16 = b /\ (a * 16 + b) \div 16 = a
    BY <2>1
  <2> QED
    BY <2>1, <2>2 DEF bcd_to_bin, bcd, a, b
<1>3. ASSUME NEW x \in Nat PROVE Shown(x, 1) = x % R
  <2>1. x \div lasts[1] = x
    BY <1>1
  <2>2. x % R \in Nat
    BY <1>1
  <2> HIDE DEF R
  <2> QED
    BY <1>2, <2>1, <2>2 DEF Shown, register, R
<1>4. s % R = t % R
  BY <1>3
<1> HIDE DEF R
<1> DEFINE i == s \div R
           j == t \div R
<1>5. i \in Nat /\ j \in Nat /\ s = R * i + (s % R) /\ t = R * j + (t % R)
  BY <1>1
<1> HIDE DEF i, j
<1>6. t - s = R * j - R * i
  BY <1>1, <1>4, <1>5
<1>7. t - s < R
  BY <1>1
<1>8. j <= i
  <2> SUFFICES ASSUME j >= i + 1 PROVE FALSE
    BY <1>5
  <2>1. PICK k \in Nat : j = i + 1 + k
    <3>1. j - (i + 1) \in Nat /\ j = i + 1 + (j - (i + 1))
      BY <1>5
    <3> QED
      BY <3>1
  <2>2. R * j = R * i + R + R * k /\ R * k \in Nat /\ R * i \in Nat
    BY <1>1, <1>5, <2>1
  <2> QED
    BY <1>1, <1>6, <1>7, <2>2
<1>9. i <= j
  <2> SUFFICES ASSUME i >= j + 1 PROVE FALSE
    BY <1>5
  <2>1. PICK k \in Nat : i = j + 1 + k
    <3>1. i - (j + 1) \in Nat /\ i = j + 1 + (i - (j + 1))
      BY <1>5
    <3> QED
      BY <3>1
  <2>2. R * i = R * j + R + R * k /\ R * k \in Nat /\ R * j \in Nat
    BY <1>1, <1>5, <2>1
  <2> QED
    BY <1>1, <1>6, <2>2
<1> QED
  BY <1>4, <1>5, <1>8, <1>9

LEMMA ClockStarts == RtcInit => ClockInv
<1>1. PassTicks \in Nat /\ LastMoment \in Nat /\ Len(Radix) \in Nat \ {0} /\ DOMAIN Radix = 1 .. Len(Radix)
  BY ClockAssumption
<1> SUFFICES ASSUME RtcInit PROVE ClockInv
  OBVIOUS
<1>2. /\ updating = FALSE /\ reading = <<>> /\ stable = FALSE
      /\ moment \in Nat /\ began = moment
  BY <1>1 DEF RtcInit
<1>3. began <= moment /\ moment <= began + PassTicks /\ Len(reading) <= Len(Radix) /\ reading \in Seq(AllShown)
  BY <1>1, <1>2
<1>4. ReadInPass
  BY <1>2 DEF ReadInPass
<1> QED
  BY <1>2, <1>3, <1>4 DEF ClockInv

\* What a register shows was shown at some time, at this moment when no update is in progress.
LEMMA ShowingNow ==
  ASSUME ClockInv, NEW k \in DOMAIN Radix, NEW byte \in Showing(k)
  PROVE  bcd_to_bin(byte) \in AllShown /\ (~updating => bcd_to_bin(byte) = Shown(moment, k))
<1>1. PICK t \in moment .. (IF updating THEN moment + 1 ELSE moment) : byte = register(t, k)
  BY DEF Showing
<1>2. moment \in Nat /\ t \in Nat /\ (~updating => t = moment)
  BY <1>1 DEF ClockInv
<1>3. bcd_to_bin(byte) = Shown(t, k)
  BY <1>1 DEF Shown
<1> QED
  BY <1>2, <1>3 DEF AllShown

LEMMA ClockStep == ClockInv /\ [RtcNext]_rtcVars => ClockInv'
<1> SUFFICES ASSUME ClockInv, [RtcNext]_rtcVars PROVE ClockInv'
  OBVIOUS
<1>0. /\ updating \in BOOLEAN /\ (updating => moment + 1 <= began + PassTicks)
      /\ stable => Len(reading) = Len(Radix)
  BY DEF ClockInv
<1>1. PassTicks \in Nat /\ LastMoment \in Nat /\ Len(Radix) \in Nat \ {0} /\ DOMAIN Radix = 1 .. Len(Radix)
  BY ClockAssumption
<1>2. /\ moment \in Nat /\ began \in Nat /\ began <= moment /\ moment <= began + PassTicks
      /\ reading \in Seq(AllShown) /\ Len(reading) <= Len(Radix)
      /\ Len(reading) \in Nat /\ DOMAIN reading = 1 .. Len(reading)
  BY DEF ClockInv
<1>3. CASE StartUpdate
  <2>1. /\ updating' = TRUE /\ moment + 1 <= began + PassTicks /\ moment' = moment /\ began' = began
        /\ reading' = reading /\ stable' = stable /\ midway' = midway
    <3>1. /\ updating' = TRUE /\ moment < began + PassTicks /\ moment' = moment /\ began' = began
          /\ reading' = reading /\ stable' = stable /\ midway' = midway
      BY <1>3 DEF StartUpdate
    <3>2. moment < began + PassTicks
      BY <3>1
    <3>3. moment + 1 <= began + PassTicks
      BY <1>1, <1>2, <3>2
    <3> QED
      BY <3>1, <3>3
  <2>2. ReadInPass' = ReadInPass
    BY <2>1 DEF ReadInPass
  <2> QED
    BY <1>0, <1>2, <2>1, <2>2 DEF ClockInv
<1>4. CASE EndUpdate
  <2>1. /\ updating' = FALSE /\ moment' = moment + 1 /\ moment' <= began + PassTicks
        /\ began' = began /\ reading' = reading /\ stable' = stable /\ midway' = midway
    <3>1. /\ updating /\ updating' = FALSE /\ moment' = moment + 1
          /\ began' = began /\ reading' = reading /\ stable' = stable /\ midway' = midway
      BY <1>4 DEF EndUpdate
    <3> QED
      BY <1>0, <3>1
  <2>2. \A t \in began .. moment : t \in began' .. moment'
    BY <1>2, <2>1
  <2>3. ~midway => ReadInPass'
    BY <2>1, <2>2 DEF ClockInv, ReadInPass
  <2>4. moment' \in Nat /\ began' \in Nat /\ began' <= moment'
    BY <1>2, <2>1
  <2> QED
    BY <1>0, <1>2, <2>1, <2>3, <2>4 DEF ClockInv
<1>5. CASE cmos_read
  <2> DEFINE n == Len(reading) + 1
  <2>0. PICK byte \in Showing(n) : reading' = Append(reading, bcd_to_bin(byte))
    BY <1>5 DEF cmos_read
  <2> DEFINE x == bcd_to_bin(byte)
  <2>1. /\ reading' = Append(reading, x) /\ moment' = moment /\ updating' = updating
        /\ stable' = stable /\ ~stable /\ midway' = (midway \/ updating)
        /\ began' = (IF n = 1 THEN moment ELSE began) /\ n <= Len(Radix)
    BY <1>1, <1>2, <1>5, <2>0 DEF cmos_read
  <2>2. n \in DOMAIN Radix
    <3>1. n \in Nat \ {0} /\ n <= Len(Radix)
      BY <1>2, <2>1
    <3> HIDE DEF n
    <3> QED
      BY <1>1, <3>1
  <2> HIDE DEF n
  <2>3. x \in AllShown /\ (~updating => x = Shown(moment, n))
    BY <2>0, <2>2, ShowingNow
  <2> HIDE DEF x
  <2>4. /\ reading' \in Seq(AllShown) /\ Len(reading') = n /\ reading'[n] = x
        /\ \A k \in 1 .. Len(reading) : reading'[k] = reading[k] /\ k \in DOMAIN reading
        /\ DOMAIN reading' = 1 .. n /\ reading' # <<>>
    BY <1>2, <2>1, <2>3 DEF n
  <2>5. /\ began' \in Nat /\ began' <= moment' /\ moment' <= began' + PassTicks
        /\ updating' => moment' + 1 <= began' + PassTicks
        /\ n # 1 => began' = began /\ reading # <<>> /\ 1 \in DOMAIN reading
        /\ n = 1 => Len(reading) = 0 /\ began' = moment
    <3>1. n = Len(reading) + 1
      BY DEF n
    <3>2. moment' = moment /\ (updating' => updating) /\ began' = (IF n = 1 THEN moment ELSE began)
      BY <2>1
    <3>3. updating => PassTicks >= 1
      <4>1. CASE moment + 1 <= began + PassTicks
        BY <1>1, <1>2, <4>1
      <4> QED
        BY <1>0, <4>1
    <3>4. CASE n = 1
      <4>1. moment' = moment /\ began' = moment /\ Len(reading) = 0
        BY <1>2, <3>1, <3>2, <3>4
      <4>2. moment <= moment + PassTicks /\ (PassTicks >= 1 => moment + 1 <= moment + PassTicks)
        BY <1>1, <1>2
      <4>3. updating' => moment + 1 <= moment + PassTicks
        BY <3>2, <3>3, <4>2
      <4> QED
        BY <1>2, <3>4, <4>1, <4>2, <4>3
    <3>5. CASE n # 1
      <4>1. Len(reading) >= 1
        BY <1>2, <3>1, <3>5
      <4> QED
        BY <1>0, <1>2, <3>2, <3>5, <4>1
    <3> QED
      BY <3>4, <3>5
  <2>6. ASSUME ~midway' PROVE ReadInPass'
    <3>1. ReadInPass /\ x = Shown(moment, n)
      BY <1>0, <2>1, <2>3, <2>6 DEF ClockInv
    <3>2. ASSUME NEW k \in DOMAIN reading' PROVE \E t \in began' .. moment' : reading'[k] = Shown(t, k)
      <4>1. CASE k = n
        <5>1. moment \in began' .. moment' /\ reading'[k] = Shown(moment, k)
          BY <1>2, <2>1, <2>4, <2>5, <3>1, <4>1
        <5> QED
          BY <5>1
      <4>2. CASE k # n
        <5>1. k \in DOMAIN reading /\ reading'[k] = reading[k] /\ n # 1
          BY <1>2, <2>4, <3>2, <4>2 DEF n
        <5> QED
          BY <2>1, <2>5, <3>1, <5>1 DEF ReadInPass
      <4> QED
        BY <4>1, <4>2
    <3>3. reading'[1] = Shown(began', 1)
      <4>1. CASE n = 1
        BY <2>4, <2>5, <3>1, <4>1
      <4>2. CASE n # 1
        BY <1>2, <2>4, <2>5, <3>1, <4>2 DEF ReadInPass
      <4> QED
        BY <4>1, <4>2
    <3> QED
      BY <2>1, <3>2, <3>3 DEF ReadInPass
  <2> QED
    BY <1>0, <1>2, <2>1, <2>4, <2>5, <2>6 DEF ClockInv
<1>6. CASE rtc_get_time
  <2>0. PICK byte \in Showing(1) :
          IF same_second(bcd_to_bin(byte))
          THEN stable' = TRUE /\ midway' = (midway \/ updating) /\ UNCHANGED <<reading, began>>
          ELSE reading' = <<>> /\ began' = moment /\ midway' = FALSE /\ UNCHANGED stable
    BY <1>6 DEF rtc_get_time
  <2>1. ~stable /\ Len(reading) = Len(Radix) /\ moment' = moment /\ updating' = updating
    BY <1>6 DEF rtc_get_time
  <2>2. CASE same_second(bcd_to_bin(byte))
    <3>1. /\ stable' = TRUE /\ reading' = reading /\ began' = began /\ midway' = (midway \/ updating)
      BY <2>0, <2>2
    <3>2. ASSUME ~midway' PROVE ReadInPass'
      <4>1. ReadInPass /\ ~updating
        BY <1>0, <3>1, <3>2 DEF ClockInv
      <4>2. reading[1] = Shown(moment, 1)
        BY <2>0, <2>2, <4>1, SecondsLast, ShowingNow DEF same_second
      <4>3. reading # <<>> /\ reading[1] = Shown(began, 1)
        BY <1>1, <2>1, <4>1 DEF ReadInPass
      <4>4. began = moment
        BY <1>2, <4>2, <4>3, SecondTurns
      <4>5. \A k \in DOMAIN Radix : reading[k] = Shown(began, k)
        BY <1>1, <1>2, <2>1, <4>1, <4>4 DEF ReadInPass
      <4> QED
        BY <2>1, <3>1, <4>1, <4>5 DEF ReadInPass
    <3> QED
      BY <1>0, <1>2, <2>1, <3>1, <3>2 DEF ClockInv
  <2>3. CASE ~same_second(bcd_to_bin(byte))
    <3>1. stable' = stable /\ reading' = <<>> /\ began' = moment /\ midway' = FALSE
      BY <2>0, <2>3
    <3>2. ReadInPass'
      BY <2>1, <3>1 DEF ReadInPass
    <3>3. began' \in Nat /\ began' <= moment' /\ moment' <= began' + PassTicks
      BY <1>1, <1>2, <2>1, <3>1
    <3>5. ASSUME updating' PROVE moment' + 1 <= began' + PassTicks
      <4>1. moment + 1 <= began + PassTicks /\ moment' = moment /\ began' = moment
        BY <1>0, <2>1, <3>1, <3>5
      <4> QED
        BY <1>1, <1>2, <4>1
    <3>4. reading' \in Seq(AllShown) /\ Len(reading') = 0
      BY <3>1
    <3> QED
      BY <1>0, <1>1, <1>2, <2>1, <3>1, <3>2, <3>3, <3>4, <3>5 DEF ClockInv
  <2> QED
    BY <2>2, <2>3
<1>7. CASE UNCHANGED rtcVars
  BY <1>7 DEF rtcVars, ClockInv, ReadInPass
<1> QED
  BY <1>3, <1>4, <1>5, <1>6, <1>7 DEF RtcNext

\* What rtc_get_time reads is what the clock showed at one moment, although the clock
\* runs on between its reads (rtc.c), unless one of them is made in the middle of an
\* update; for any registers of which the fastest turns more slowly than they are read.
THEOREM ReadingIsAMomentHolds == RtcSpec => []ReadingIsAMoment
<1>1. ClockInv => ReadingIsAMoment
  <2> SUFFICES ASSUME ClockInv, stable, ~midway
               PROVE  \E t \in began .. moment : reading = Registers(t)
    BY DEF ReadingIsAMoment
  <2>1. DOMAIN reading = DOMAIN Radix /\ \A k \in DOMAIN Radix : reading[k] = Shown(began, k)
    BY ClockAssumption DEF ClockInv, ReadInPass
  <2>2. began \in began .. moment
    BY DEF ClockInv
  <2>3. reading = [k \in DOMAIN reading |-> reading[k]]
    BY DEF ClockInv
  <2>4. reading = Registers(began)
    BY <2>1, <2>3 DEF Shown, Registers
  <2> QED
    BY <2>2, <2>4
<1>2. RtcSpec => []ClockInv
  BY ClockStarts, ClockStep, PTL DEF RtcSpec
<1> QED
  BY <1>1, <1>2, PTL
=============================================================================
