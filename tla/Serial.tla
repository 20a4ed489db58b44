------------------------------- MODULE Serial -------------------------------
(***************************************************************************)
(* The character devices of Pintos: the console lock (lib/kernel/console.c), *)
(* the serial port (devices/serial.c) and the input buffer (input.c), with *)
(* the interrupt queues between threads and interrupt handlers (intq.c).   *)
(*                                                                         *)
(* What a thread does with interrupts off is one step, up to where it      *)
(* blocks; at[t] says where thread t is.  A character is the thread or the *)
(* device it comes from.  The port is in QUEUE mode.                       *)
(***************************************************************************)
EXTENDS Integers, Sequences, FiniteSets

CONSTANTS
  Writers,       \* threads that print
  Readers,       \* threads that read keys
  INTQ_BUFSIZE,
  Loads,         \* a bound: how many characters are printed, how many come in
  NULL

ASSUME BufferAssumption == INTQ_BUFSIZE \in Nat /\ INTQ_BUFSIZE >= 2
ASSUME NullAssumption == NULL \notin Writers \cup Readers \cup {"interrupt", "serial", "key"}

VARIABLES
  txq, rxq,      \* the queue of serial.c and that of input.c
  ier,           \* the interrupts that the port may raise
  thr, rbr,      \* its registers: a character, or NULL
  at,            \* where each thread is
  console_lock,  \* its holder, and the threads that wait for it
  console_queue,
  console_lock_depth,
  inside,        \* inside[t]: printf and putbuf calls thread t has entered
  unsent,        \* the characters accepted and not on the wire yet
  unread,        \* the keys accepted and not read yet
  out, in,       \* characters still to come, each way
  intq_failed    \* an ASSERT failed

portVars == <<ier, thr, rbr>>
consoleVars == <<console_lock, console_queue, console_lock_depth, inside>>
serialVars == <<txq, rxq, portVars, at, consoleVars, unsent, unread, out, in,
                intq_failed>>

Places == {"idle", "console", "console_ready", "print", "read", "lock",
           "lock_ready", "wait", "woken"}
Chars == Writers \cup {"interrupt", "serial", "key"}
-----------------------------------------------------------------------------
(***************************************************************************)
(* intq.c.  A queue and the places of the threads go together: <<q, a>>.   *)
(***************************************************************************)

next(pos) == (pos + 1) % INTQ_BUFSIZE

intq_empty(q) == q.head = q.tail
intq_full(q) == next(q.head) = q.tail

signal(a, waiter) == IF waiter = NULL THEN a ELSE [a EXCEPT ![waiter] = "woken"]

\* intq_getc and intq_putc of a queue that is not empty, or not full.  A place
\* that is not in use is NULL.
intq_front(q) == q.buf[q.tail]
intq_getc(q, a) ==
  << [q EXCEPT !.buf[q.tail] = NULL, !.tail = next(@), !.not_full = NULL], signal(a, q.not_full) >>
intq_putc(q, a, byte) ==
  << [q EXCEPT !.buf[q.head] = byte, !.head = next(@), !.not_empty = NULL],
     signal(a, q.not_empty) >>

\* wait, with the queue's lock.
wait(q, a, t, waiter) ==
  << [q EXCEPT !.lock = t, ![waiter] = t], [a EXCEPT ![t] = "wait"] >>

\* lock_acquire and wait of a thread that finds the queue empty, or full.
lock_and_wait(q, a, t, waiter) ==
  IF q.lock = NULL THEN wait(q, a, t, waiter)
  ELSE << [q EXCEPT !.queue = Append(@, t)], [a EXCEPT ![t] = "lock"] >>

\* lock_release by thread t, which goes on.
lock_release(q, a, t, place) ==
  << [q EXCEPT !.lock = NULL,
               !.queue = IF @ = <<>> THEN @ ELSE Tail(@)],
     [u \in DOMAIN a |-> CASE u = t -> place
                           [] u # t /\ q.queue # <<>> /\ u = q.queue[1] -> "lock_ready"
                           [] OTHER -> a[u]] >>

TxWaits(r) == txq' = r[1] /\ at' = r[2]
RxWaits(r) == rxq' = r[1] /\ at' = r[2]

contents(q) ==
  [i \in 1 .. (q.head - q.tail) % INTQ_BUFSIZE |-> q.buf[(q.tail + i - 1) % INTQ_BUFSIZE]]

intq_init ==
  [buf |-> [i \in 0 .. INTQ_BUFSIZE - 1 |-> NULL], head |-> 0, tail |-> 0,
   not_full |-> NULL, not_empty |-> NULL, lock |-> NULL, queue |-> <<>>]
-----------------------------------------------------------------------------
(***************************************************************************)
(* serial.c.                                                               *)
(***************************************************************************)

\* write_ier: the interrupts enabled when the queues are as given.
write_ier(tx, rx) ==
  {i \in {"XMIT", "RECV"} : IF i = "XMIT" THEN ~intq_empty(tx) ELSE ~intq_full(rx)}

\* putc_poll waits for THR to be empty: what it held is on the wire then.
on_wire == IF thr = NULL THEN 0 ELSE 1
Behind(chars, n) == SubSeq(chars, n + 1, Len(chars))

\* serial_putc by a thread that has interrupts on.
Accept(t, tx, a) ==
  LET r == intq_putc(tx, [a EXCEPT ![t] = "print"], t)
  IN  /\ txq' = r[1] /\ at' = r[2]
      /\ ier' = write_ier(r[1], rxq)
      /\ unsent' = Append(unsent, t)

Putc(t) ==
  /\ at[t] = "print" /\ out > 0
  /\ out' = out - 1
  /\ \/ ~intq_full(txq) /\ Accept(t, txq, at)
     \/ /\ intq_full(txq)
        /\ TxWaits(lock_and_wait(txq, at, t, "not_full"))
        /\ UNCHANGED <<ier, unsent>>
  /\ UNCHANGED <<rxq, thr, rbr, consoleVars, unread, in, intq_failed>>

\* The thread that waited in intq_putc gives the lock back and looks again.
PutcWoken(t) ==
  LET r == lock_release(txq, at, t, "print")
  IN  /\ t \in Writers /\ at[t] = "woken"
      /\ \/ ~intq_full(txq) /\ Accept(t, r[1], r[2])
         \/ /\ intq_full(txq)
            /\ TxWaits(lock_and_wait(r[1], r[2], t, "not_full"))
            /\ UNCHANGED <<ier, unsent>>
      /\ UNCHANGED <<rxq, thr, rbr, consoleVars, unread, out, in, intq_failed>>

\* Mutant: the new character is the one that is polled out.
PutcOffDirect ==
  /\ out > 0 /\ out' = out - 1
  /\ IF intq_full(txq)
     THEN /\ thr' = "interrupt"
          /\ unsent' = Append(Behind(unsent, on_wire), "interrupt")
          /\ UNCHANGED <<txq, at, ier>>
     ELSE LET p == intq_putc(txq, at, "interrupt")
          IN  /\ txq' = p[1] /\ at' = p[2]
              /\ ier' = write_ier(p[1], rxq)
              /\ unsent' = Append(unsent, "interrupt")
              /\ UNCHANGED thr
  /\ UNCHANGED <<rxq, rbr, consoleVars, unread, in, intq_failed>>

\* serial_putc with interrupts off, as from an interrupt handler: when the queue
\* is full its first character is polled out.
PutcOff ==
  LET full == intq_full(txq)
      g == IF full THEN intq_getc(txq, at) ELSE <<txq, at>>
      p == intq_putc(g[1], g[2], "interrupt")
  IN  /\ out > 0 /\ out' = out - 1
      /\ txq' = p[1] /\ at' = p[2]
      /\ ier' = write_ier(p[1], rxq)
      /\ thr' = IF full THEN intq_front(txq) ELSE thr
      /\ unsent' = Append(IF full THEN Behind(unsent, on_wire) ELSE unsent, "interrupt")
      /\ UNCHANGED <<rxq, rbr, consoleVars, unread, in, intq_failed>>

\* serial_flush: all but the last character are on the wire when it returns.
Flush ==
  /\ ~intq_empty(txq)
  /\ txq' = [txq EXCEPT !.buf = intq_init.buf, !.tail = txq.head, !.not_full = NULL]
  /\ at' = signal(at, txq.not_full)
  /\ thr' = contents(txq)[Len(contents(txq))]
  /\ unsent' = <<thr'>>
  /\ UNCHANGED <<rxq, ier, rbr, consoleVars, unread, out, in, intq_failed>>

\* serial_interrupt.
SerialInterrupt ==
  LET receives == rbr # NULL /\ ~intq_full(rxq)
      sends == thr = NULL /\ ~intq_empty(txq)
      r == IF receives THEN intq_putc(rxq, at, rbr) ELSE <<rxq, at>>
      s == IF sends THEN intq_getc(txq, r[2]) ELSE <<txq, r[2]>>
  IN  /\ \/ "RECV" \in ier /\ rbr # NULL
         \/ "XMIT" \in ier /\ thr = NULL
      /\ rxq' = r[1] /\ txq' = s[1] /\ at' = s[2]
      /\ rbr' = IF receives THEN NULL ELSE rbr
      /\ unread' = IF receives THEN Append(unread, rbr) ELSE unread
      /\ thr' = IF sends THEN intq_front(txq) ELSE thr
      /\ ier' = write_ier(s[1], r[1])
      /\ UNCHANGED <<consoleVars, unsent, out, in, intq_failed>>

\* The port sends the character in THR, or receives one; a character that is
\* not fetched in time is overwritten.
Transmit ==
  /\ thr # NULL
  /\ thr' = NULL
  /\ unsent' = Tail(unsent)
  /\ UNCHANGED <<txq, rxq, ier, rbr, at, consoleVars, unread, out, in, intq_failed>>

Receive ==
  /\ in > 0 /\ in' = in - 1
  /\ rbr' = "serial"
  /\ UNCHANGED <<txq, rxq, ier, thr, at, consoleVars, unsent, unread, out, intq_failed>>
-----------------------------------------------------------------------------
(***************************************************************************)
(* input.c.                                                                *)
(***************************************************************************)

\* input_putc by keyboard_interrupt, when the buffer is not full.
KeyIn ==
  LET r == intq_putc(rxq, at, "key")
  IN  /\ in > 0 /\ in' = in - 1
      /\ ~intq_full(rxq)
      /\ rxq' = r[1] /\ at' = r[2]
      /\ unread' = Append(unread, "key")
      /\ ier' = write_ier(txq, r[1])
      /\ UNCHANGED <<txq, thr, rbr, consoleVars, unsent, out, intq_failed>>

\* Thread t takes the first key; serial_notify.
Takes(t, rx, a) ==
  LET r == intq_getc(rx, [a EXCEPT ![t] = "idle"])
  IN  /\ rxq' = r[1] /\ at' = r[2]
      /\ unread' = Tail(unread)
      /\ ier' = write_ier(txq, r[1])

\* input_getc until the thread has its key or has to wait.
Getc(t) ==
  /\ at[t] = "idle"
  /\ \/ ~intq_empty(rxq) /\ Takes(t, rxq, at)
     \/ /\ intq_empty(rxq)
        /\ RxWaits(lock_and_wait(rxq, at, t, "not_empty"))
        /\ UNCHANGED <<ier, unread>>
  /\ UNCHANGED <<txq, thr, rbr, consoleVars, unsent, out, in, intq_failed>>

GetcWoken(t) ==
  LET r == lock_release(rxq, at, t, "read")
  IN  /\ at[t] = "woken"
      /\ \/ ~intq_empty(rxq) /\ Takes(t, r[1], r[2])
         \/ /\ intq_empty(rxq)
            /\ RxWaits(lock_and_wait(r[1], r[2], t, "not_empty"))
            /\ UNCHANGED <<ier, unread>>
      /\ UNCHANGED <<txq, thr, rbr, consoleVars, unsent, out, in, intq_failed>>

\* A reader that waited for the queue's lock tries to take it, and waits without
\* looking at the queue again: wait() asserts that it is still empty.
GetcLocked(t) ==
  /\ at[t] = "lock_ready"
  /\ \/ /\ rxq.lock # NULL \/ intq_empty(rxq)
        /\ RxWaits(lock_and_wait(rxq, at, t, "not_empty"))
        /\ UNCHANGED intq_failed
     \/ /\ rxq.lock = NULL /\ ~intq_empty(rxq)
        /\ intq_failed' = TRUE
        /\ UNCHANGED <<rxq, at>>
  /\ UNCHANGED <<txq, portVars, consoleVars, unsent, unread, out, in>>
-----------------------------------------------------------------------------
(***************************************************************************)
(* console.c.                                                              *)
(***************************************************************************)

\* acquire_console, also again by the thread that has the console.
acquire_console(t) ==
  /\ \/ at[t] \in {"idle", "console_ready"} /\ console_lock # t
     \/ at[t] = "print" /\ inside[t] < 2
  /\ \/ /\ console_lock = t
        /\ console_lock_depth' = console_lock_depth + 1
        /\ inside' = [inside EXCEPT ![t] = @ + 1]
        /\ UNCHANGED <<at, console_lock, console_queue>>
     \/ /\ console_lock = NULL
        /\ console_lock' = t
        /\ at' = [at EXCEPT ![t] = "print"]
        /\ inside' = [inside EXCEPT ![t] = @ + 1]
        /\ UNCHANGED <<console_queue, console_lock_depth>>
     \/ /\ console_lock \notin {t, NULL}
        /\ console_queue' = Append(console_queue, t)
        /\ at' = [at EXCEPT ![t] = "console"]
        /\ UNCHANGED <<console_lock, console_lock_depth, inside>>
  /\ out > 0
  /\ UNCHANGED <<txq, rxq, portVars, unsent, unread, out, in, intq_failed>>

Unlock(t) ==
  /\ console_lock' = NULL
  /\ console_queue' = IF console_queue = <<>> THEN <<>> ELSE Tail(console_queue)
  /\ at' = [u \in DOMAIN at |->
              CASE u = t -> IF inside[t] = 1 THEN "idle" ELSE "print"
                [] u # t /\ console_queue # <<>> /\ u = console_queue[1] -> "console_ready"
                [] OTHER -> at[u]]

\* Mutant: the depth does not count.
release_console_always(t) ==
  /\ at[t] = "print" /\ inside[t] > 0
  /\ inside' = [inside EXCEPT ![t] = @ - 1]
  /\ Unlock(t)
  /\ UNCHANGED <<console_lock_depth, txq, rxq, portVars, unsent, unread, out, in,
                 intq_failed>>

release_console(t) ==
  /\ at[t] = "print" /\ inside[t] > 0
  /\ inside' = [inside EXCEPT ![t] = @ - 1]
  /\ \/ /\ console_lock_depth > 0
        /\ console_lock_depth' = console_lock_depth - 1
        /\ UNCHANGED <<at, console_lock, console_queue>>
     \/ /\ console_lock_depth = 0
        /\ Unlock(t)
        /\ UNCHANGED console_lock_depth
  /\ UNCHANGED <<txq, rxq, portVars, unsent, unread, out, in, intq_failed>>
-----------------------------------------------------------------------------
SerialInit ==
  /\ txq = intq_init /\ rxq = intq_init
  /\ ier = write_ier(intq_init, intq_init)
  /\ thr = NULL /\ rbr = NULL
  /\ at = [t \in Writers \cup Readers |-> "idle"]
  /\ console_lock = NULL /\ console_queue = <<>> /\ console_lock_depth = 0
  /\ inside = [t \in Writers |-> 0]
  /\ unsent = <<>> /\ unread = <<>>
  /\ \E load \in Loads : out = load[1] /\ in = load[2]
  /\ intq_failed = FALSE

WriterStep(t) == Putc(t) \/ PutcWoken(t) \/ acquire_console(t) \/ release_console(t)
ReaderStep(t) == Getc(t) \/ GetcWoken(t) \/ GetcLocked(t)

SerialNext ==
  /\ ~intq_failed
  /\ \/ \E t \in Writers : WriterStep(t)
     \/ \E t \in Readers : ReaderStep(t)
     \/ PutcOff \/ Flush \/ SerialInterrupt \/ Transmit \/ Receive \/ KeyIn

SerialSpec == SerialInit /\ [][SerialNext]_serialVars

\* The port works on, its interrupts are taken, and threads that can run do;
\* nobody has to print or to read.
SerialFairness ==
  /\ WF_serialVars(~intq_failed /\ Transmit)
  /\ WF_serialVars(~intq_failed /\ SerialInterrupt)
  /\ \A t \in Writers :
       /\ WF_serialVars(~intq_failed /\ (PutcWoken(t) \/ release_console(t)))
       /\ WF_serialVars(~intq_failed /\ at[t] = "console_ready" /\ acquire_console(t))
  /\ \A t \in Readers : WF_serialVars(~intq_failed /\ (GetcWoken(t) \/ GetcLocked(t)))
-----------------------------------------------------------------------------
\* The types of the queues, the registers and the threads' places.
SerialTypeOK ==
  /\ \A q \in {txq, rxq} :
       /\ q.head \in 0 .. INTQ_BUFSIZE - 1
       /\ q.tail \in 0 .. INTQ_BUFSIZE - 1
       /\ q.buf \in [0 .. INTQ_BUFSIZE - 1 -> Chars \cup {NULL}]
       /\ {q.not_full, q.not_empty, q.lock} \subseteq DOMAIN at \cup {NULL}
  /\ at \in [Writers \cup Readers -> Places]
  /\ {thr, rbr} \subseteq Chars \cup {NULL}
  /\ console_lock \in Writers \cup {NULL}
  /\ console_lock_depth \in Nat

\* What is printed reaches the wire in the order in which it was printed, by
\* interrupts or by polling, and keys are read in the order in which they came
\* in: nothing is lost in the queues, and nothing comes twice.
CharsInOrder ==
  /\ SerialTypeOK
  /\ unsent = (IF thr = NULL THEN <<>> ELSE <<thr>>) \o contents(txq)
  /\ unread = contents(rxq)

\* The output of two threads is not mixed, also when printf is called within
\* printf (the backtrace in console.c:34-53).
LinesWhole ==
  \A t \in Writers : inside[t] > 0 => console_lock = t

\* Everything printed is sent in the end; a thread that waits to print gets on;
\* and nobody is left waiting for a key while there are keys.
CharsServed ==
  /\ []<>(unsent = <<>> \/ intq_failed)
  /\ \A t \in Writers : at[t] = "wait" ~> (at[t] # "wait" \/ intq_failed)
  /\ \A t \in Readers :
       (at[t] \in {"wait", "lock"} /\ ~intq_empty(rxq))
         ~> (at[t] = "idle" \/ intq_empty(rxq) \/ intq_failed)
=============================================================================
