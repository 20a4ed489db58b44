------------------------------- MODULE Threads -------------------------------
(***************************************************************************)
(* The threads of Pintos: threads/thread.c and synch.c, the sleeping       *)
(* threads of devices/timer.c, and the external interrupts of interrupt.c  *)
(* as far as they preempt a thread.                                        *)
(*                                                                         *)
(* There is one processor.  What a thread does with interrupts disabled is *)
(* one step, up to the switch to another thread; between two steps with    *)
(* interrupts enabled the timer may interrupt.  `call[t]' lists the steps  *)
(* that thread t still has to take in the kernel function it has called;   *)
(* when it is empty, t runs code of its own and may call any function.     *)
(*                                                                         *)
(* Time is relative: due[t] counts the ticks until t is to wake up.        *)
(***************************************************************************)
EXTENDS Integers, Sequences, FiniteSets, Functions

CONSTANTS
  Main,         \* initial_thread
  Idle,         \* the thread that runs idle()
  Others,       \* the pages that palloc has for further threads
  Locks,        \* locks of the kernel's users
  Conds,        \* their condition variables
  LockOf,       \* LockOf[c]: the lock that protects condition c
  Durations,    \* the arguments of timer_sleep
  TimeSlice,    \* TIME_SLICE
  Programs,     \* what the threads may do: the kernel functions they call, the
                \* arguments of timer_sleep, how often they create a thread
  NULL

Threads == {Main, Idle} \cup Others
tid_lock == "tid_lock"
AllLocks == Locks \cup {tid_lock}
sleeping_list_sema == "sleeping_list_sema"
idle_started == "idle_started"

\* Every thread has at most one semaphore on its stack: that of timer_sleep or
\* that of cond_wait.
Semas == AllLocks \cup {sleeping_list_sema, idle_started} \cup Threads

ASSUME ThreadsAssumption ==
  Main # Idle /\ Main \notin Others /\ Idle \notin Others /\ NULL \notin Threads

\* A semaphore of a thread's stack is no lock, and no lock is one of the others.
ASSUME SemasAssumption ==
  /\ Threads \cap (AllLocks \cup {sleeping_list_sema, idle_started}) = {}
  /\ Locks \cap {tid_lock, sleeping_list_sema, idle_started} = {}

ASSUME CondsAssumption == LockOf \in [Conds -> Locks]
ASSUME TimerAssumption == Durations \subseteq Nat /\ TimeSlice \in Nat \ {0}
ASSUME ProgramsAssumption ==
  Programs \subseteq [calls : SUBSET {"lock", "cond", "sleep", "yield", "exit"},
                     ticks : SUBSET Durations, creates : Nat]

VARIABLES
  status,        \* status[t]; "FREE" is a page of no thread
  ready_list,    \* threads that are ready to run
  current,       \* the running thread
  intr,          \* the interrupt level
  idle_thread,   \* the idle thread, once it has run
  thread_ticks,  \* ticks in the current time slice
  call,          \* call[t]: the rest of the kernel function t is in
  value,         \* value[s] of semaphore s
  waiters,       \* waiters[s]: the threads waiting for s
  holder,        \* holder[l] of lock l
  cond,          \* cond[c]: the waiters of condition c
  sleeping_thread_list,
  due,           \* due[t]: ticks until sleep_end_time_in_ticks of t
  created,       \* threads created so far
  program,       \* what the threads of this behaviour do; it never changes
  failed         \* an ASSERT failed: the kernel panics

schedVars == <<status, ready_list, current, intr, thread_ticks>>
syncVars == <<value, waiters, holder, cond>>
sleepVars == <<sleeping_thread_list, due>>
kernelVars == <<schedVars, idle_thread, call, syncVars, sleepVars, created, failed>>
vars == <<kernelVars, program>>

TypeOK ==
  /\ status \in [Threads -> {"FREE", "RUNNING", "READY", "BLOCKED", "DYING"}]
  /\ ready_list \in Seq(Threads)
  /\ current \in Threads
  /\ intr \in {"ON", "OFF"}
  /\ idle_thread \in {NULL, Idle}
  /\ thread_ticks \in 0 .. TimeSlice - 1
  /\ value \in [Semas -> 0..1]     \* all of them are binary
  /\ waiters \in [Semas -> Seq(Threads)]
  /\ holder \in [AllLocks -> Threads \cup {NULL}]
  /\ cond \in [Conds -> Seq(Threads)]
  /\ sleeping_thread_list \in Seq(Threads)
  /\ due \in [Threads -> Nat]
  /\ created \in 0..program.creates
  /\ program \in Programs
  /\ failed \in BOOLEAN
-----------------------------------------------------------------------------
(***************************************************************************)
(* The scheduler.                                                          *)
(***************************************************************************)

first(list) == IF list = <<>> THEN <<>> ELSE <<Head(list)>>
rest(list) == SubSeq(list, 2, Len(list))

next_thread_to_run(ready) == IF ready = <<>> THEN idle_thread ELSE Head(ready)

\* schedule() and thread_schedule_tail(), when the statuses and the ready list
\* are as given: interrupts are off until the next thread turns them on, and a
\* dying thread is freed by the one that follows it.
schedule(stat, ready) ==
  LET next == next_thread_to_run(ready)
  IN  IF next = NULL
      THEN failed' = TRUE /\ UNCHANGED schedVars
      ELSE /\ current' = next
           /\ status' = [t \in Threads |->
                IF t = next THEN "RUNNING"
                ELSE IF t = current /\ stat[t] = "DYING" /\ t # Main THEN "FREE"
                ELSE stat[t]]
           /\ ready_list' = IF ready = <<>> THEN ready ELSE Tail(ready)
           /\ thread_ticks' = 0
           /\ intr' = "OFF"
           /\ UNCHANGED failed

thread_block(t) == schedule([status EXCEPT ![t] = "BLOCKED"], ready_list)

\* Mutant: a yield that puts the idle thread on the run queue too.
thread_yield_idle(t, stat, ready) ==
  schedule([stat EXCEPT ![t] = "READY"], Append(ready, t))

\* thread_yield(), also on return from an interrupt, given the ready list.
thread_yield(t, stat, ready) ==
  schedule([stat EXCEPT ![t] = "READY"],
           IF t # idle_thread THEN Append(ready, t) ELSE ready)

\* thread_unblock() of the threads of a sequence.
unblock(stat, us) ==
  [t \in Threads |-> IF t \in Range(us) THEN "READY" ELSE stat[t]]
unblock_fails(us) == \E t \in Range(us) : status[t] # "BLOCKED"

\* Thread t is about to take step <<op, arg>> of the kernel function it is in.
At(t, op, arg) ==
  t = current /\ ~failed /\ call[t] # <<>> /\ Head(call[t]) = <<op, arg>>
Done(t) == call' = [call EXCEPT ![t] = Tail(@)]

\* intr_enable, and the return from an interrupt, after a switch to t.
IntrEnable(t) ==
  /\ At(t, "intr_enable", 0)
  /\ intr' = "ON"
  /\ Done(t)
  /\ UNCHANGED <<status, ready_list, current, thread_ticks, idle_thread,
                 syncVars, sleepVars, created, failed>>

ThreadYield(t) ==
  /\ At(t, "yield", 0)
  /\ call' = [call EXCEPT ![t] = << <<"intr_enable", 0>> >> \o Tail(@)]
  /\ thread_yield(t, status, ready_list)
  /\ UNCHANGED <<idle_thread, syncVars, sleepVars, created>>

ThreadExit(t) ==
  /\ At(t, "exit", 0)
  /\ schedule([status EXCEPT ![t] = "DYING"], ready_list)
  /\ Done(t)
  /\ UNCHANGED <<idle_thread, syncVars, sleepVars, created>>

\* idle(): its first step, and its loop.
IdleStarts ==
  /\ At(Idle, "idle", 0)
  /\ idle_thread' = Idle
  /\ Done(Idle)
  /\ UNCHANGED <<schedVars, syncVars, sleepVars, created, failed>>

IdleBlocks ==
  /\ At(Idle, "block", 0)
  /\ call' = [call EXCEPT ![Idle] = << <<"intr_enable", 0>>, <<"hlt", 0>> >>]
  /\ thread_block(Idle)
  /\ UNCHANGED <<idle_thread, syncVars, sleepVars, created>>
-----------------------------------------------------------------------------
(***************************************************************************)
(* Semaphores, locks and condition variables.                              *)
(***************************************************************************)

\* sema_down; a thread that was woken up is back at the loop's condition.
SemaDown(t, s) ==
  /\ At(t, "sema_down", s)
  /\ \/ /\ value[s] > 0
        /\ value' = [value EXCEPT ![s] = @ - 1]
        /\ intr' = "ON"
        /\ Done(t)
        /\ UNCHANGED <<status, ready_list, current, thread_ticks, waiters, failed>>
     \/ /\ value[s] = 0
        /\ waiters' = [waiters EXCEPT ![s] = Append(@, t)]
        /\ thread_block(t)
        /\ UNCHANGED <<value, call>>
  /\ UNCHANGED <<idle_thread, holder, cond, sleepVars, created>>

\* sema_up: the first waiter becomes ready, and competes with everyone else.
SemaUp(t, s) ==
  LET woken == first(waiters[s])
  IN  /\ At(t, "sema_up", s)
      /\ value' = [value EXCEPT ![s] = @ + 1]
      /\ waiters' = [waiters EXCEPT ![s] = rest(@)]
      /\ status' = unblock(status, woken)
      /\ ready_list' = ready_list \o woken
      /\ failed' = unblock_fails(woken)
      /\ Done(t)
      /\ UNCHANGED <<current, intr, thread_ticks, idle_thread, holder, cond,
                     sleepVars, created>>

\* lock_acquire after its sema_down, and lock_release before its sema_up.
LockTaken(t, l) ==
  /\ At(t, "taken", l)
  /\ holder' = [holder EXCEPT ![l] = t]
  /\ Done(t)
  /\ UNCHANGED <<schedVars, idle_thread, value, waiters, cond, sleepVars,
                 created, failed>>

LockDropped(t, l) ==
  /\ At(t, "dropped", l)
  /\ failed' = (holder[l] # t)
  /\ holder' = [holder EXCEPT ![l] = NULL]
  /\ Done(t)
  /\ UNCHANGED <<schedVars, idle_thread, value, waiters, cond, sleepVars,
                 created>>

lock_acquire(l) == << <<"sema_down", l>>, <<"taken", l>> >>
lock_release(l) == << <<"dropped", l>>, <<"sema_up", l>> >>

\* cond_wait until it has queued up.
CondQueue(t, c) ==
  /\ At(t, "cond_queue", c)
  /\ value' = [value EXCEPT ![t] = 0]
  /\ waiters' = [waiters EXCEPT ![t] = <<>>]
  /\ cond' = [cond EXCEPT ![c] = Append(@, t)]
  /\ Done(t)
  /\ UNCHANGED <<schedVars, idle_thread, holder, sleepVars, created, failed>>

cond_wait(t, c) ==
  << <<"cond_queue", c>> >> \o lock_release(LockOf[c])
    \o << <<"sema_down", t>> >> \o lock_acquire(LockOf[c])

\* Mutant: a waiter that does not block on its semaphore yet is not upped.
CondSignalBlocked(t, c) ==
  /\ At(t, "cond_signal", c)
  /\ failed' = (holder[LockOf[c]] # t)
  /\ cond' = [cond EXCEPT ![c] = rest(@)]
  /\ call' = [call EXCEPT ![t] =
                (IF cond[c] = <<>> \/ waiters[cond[c][1]] = <<>> THEN <<>>
                 ELSE << <<"sema_up", cond[c][1]>> >>) \o Tail(@)]
  /\ UNCHANGED <<schedVars, idle_thread, value, waiters, holder, sleepVars,
                 created>>

\* cond_signal takes one waiter off the list and ups its semaphore.
CondSignal(t, c) ==
  /\ At(t, "cond_signal", c)
  /\ failed' = (holder[LockOf[c]] # t)
  /\ cond' = [cond EXCEPT ![c] = rest(@)]
  /\ call' = [call EXCEPT ![t] =
                (IF cond[c] = <<>> THEN <<>> ELSE << <<"sema_up", cond[c][1]>> >>)
                  \o Tail(@)]
  /\ UNCHANGED <<schedVars, idle_thread, value, waiters, holder, sleepVars,
                 created>>

\* cond_broadcast signals until no one waits.
CondBroadcast(t, c) ==
  /\ At(t, "cond_broadcast", c)
  /\ call' = [call EXCEPT ![t] = IF cond[c] = <<>> THEN Tail(@)
                                 ELSE << <<"cond_signal", c>> >> \o @]
  /\ UNCHANGED <<schedVars, idle_thread, syncVars, sleepVars, created, failed>>
-----------------------------------------------------------------------------
(***************************************************************************)
(* timer_sleep and the timer interrupt.                                    *)
(***************************************************************************)

\* timer_sleep reads the clock first: start.
ReadTicks(t, n) ==
  /\ At(t, "timer_ticks", n)
  /\ due' = [due EXCEPT ![t] = n]
  /\ Done(t)
  /\ UNCHANGED <<schedVars, idle_thread, syncVars, sleeping_thread_list,
                 created, failed>>

\* list_insert_ordered: before the first thread that is to sleep longer.
list_insert_ordered(list, t) ==
  LET earlier == {i \in DOMAIN list : \A j \in 1..i : ~(due[t] < due[list[j]])}
      n == Cardinality(earlier)
  IN  SubSeq(list, 1, n) \o <<t>> \o SubSeq(list, n + 1, Len(list))

InsertSleeper(t) ==
  /\ At(t, "sleep", 0)
  /\ value' = [value EXCEPT ![t] = 0]
  /\ waiters' = [waiters EXCEPT ![t] = <<>>]
  /\ sleeping_thread_list' = list_insert_ordered(sleeping_thread_list, t)
  /\ Done(t)
  /\ UNCHANGED <<schedVars, idle_thread, holder, cond, due, created, failed>>

\* Mutant: the list is given back only after the sleep.
timer_sleep_holding(t, n) ==
  << <<"timer_ticks", n>>, <<"sema_down", sleeping_list_sema>>, <<"sleep", 0>>,
     <<"sema_down", t>>, <<"sema_up", sleeping_list_sema>> >>

timer_sleep(t, n) ==
  << <<"timer_ticks", n>>, <<"sema_down", sleeping_list_sema>>,
     <<"sleep", 0>>, <<"sema_up", sleeping_list_sema>>,
     <<"sema_down", t>> >>

\* Mutant: one tick early.
try_to_wake_up_early(left) ==
  LET list == sleeping_thread_list
      n == Cardinality({i \in DOMAIN list : \A j \in 1..i : left[list[j]] <= 1})
  IN  IF value[sleeping_list_sema] > 0 THEN SubSeq(list, 1, n) ELSE <<>>

\* try_to_wake_up_threads: the sleepers at the front of the list whose time has
\* come, left[t] ticks being left to t; none when a thread works on the list.
try_to_wake_up_threads(left) ==
  LET list == sleeping_thread_list
      n == Cardinality({i \in DOMAIN list : \A j \in 1..i : left[list[j]] <= 0})
  IN  IF value[sleeping_list_sema] > 0 THEN SubSeq(list, 1, n) ELSE <<>>

\* list_remove of the sleepers that were woken up.
remaining(woken) ==
  SubSeq(sleeping_thread_list, Len(woken) + 1, Len(sleeping_thread_list))

\* sema_up of each sleeper, and sema_up of sleeping_list_sema, which wakes up a
\* thread that waits for the list.
upped(woken) == Range(woken) \cup
  (IF value[sleeping_list_sema] > 0 THEN {sleeping_list_sema} ELSE {})
unblocked_sleepers(woken) ==
  LET upto[n \in 0..Len(woken)] ==
        IF n = 0 THEN <<>> ELSE upto[n - 1] \o first(waiters[woken[n]])
  IN  upto[Len(woken)]
unblocked(woken) ==
  unblocked_sleepers(woken)
    \o (IF value[sleeping_list_sema] > 0 THEN first(waiters[sleeping_list_sema])
                                         ELSE <<>>)

\* thread_tick asks for a yield when the time slice is used up.
yield_on_return == thread_ticks + 1 >= TimeSlice

\* The idle thread goes on after its hlt.
resumed(t) == IF call[t] = << <<"hlt", 0>> >> THEN << <<"block", 0>> >> ELSE call[t]

\* intr_handler: the timer interrupt comes in, timer_interrupt runs, and the
\* interrupted thread yields on return if its time slice is over.
TimerInterrupt ==
  LET left == [t \in Threads |-> IF due[t] > 0 THEN due[t] - 1 ELSE 0]
      woken == try_to_wake_up_threads(left)
      us == unblocked(woken)
      stat == unblock(status, us)
  IN  /\ intr = "ON" /\ ~failed
      /\ due' = left
      /\ sleeping_thread_list' = remaining(woken)
      /\ value' = [s \in Semas |->
                     IF s \in Range(woken) THEN value[s] + 1 ELSE value[s]]
      /\ waiters' = [s \in Semas |-> IF s \in upped(woken) THEN rest(waiters[s])
                                                           ELSE waiters[s]]
      /\ \/ /\ unblock_fails(us)
            /\ failed' = TRUE
            /\ UNCHANGED <<schedVars, call>>
         \/ /\ ~unblock_fails(us) /\ yield_on_return
            /\ call' = [call EXCEPT ![current] = << <<"intr_enable", 0>> >> \o resumed(current)]
            /\ thread_yield(current, stat, ready_list \o us)
         \/ /\ ~unblock_fails(us) /\ ~yield_on_return
            /\ thread_ticks' = thread_ticks + 1
            /\ status' = stat
            /\ ready_list' = ready_list \o us
            /\ call' = [call EXCEPT ![current] = resumed(current)]
            /\ UNCHANGED <<current, intr, failed>>
      /\ UNCHANGED <<idle_thread, holder, cond, created>>
-----------------------------------------------------------------------------
(***************************************************************************)
(* thread_create, and what threads call.                                   *)
(***************************************************************************)

\* palloc_get_page and init_thread; then a tid, then thread_unblock.
InitThread(t, u) ==
  /\ At(t, "init_thread", u)
  /\ IF status[u] = "FREE"
     THEN /\ status' = [status EXCEPT ![u] = "BLOCKED"]
          /\ call' = [call EXCEPT
               ![t] = lock_acquire(tid_lock) \o lock_release(tid_lock)
                        \o << <<"thread_unblock", u>> >> \o Tail(@),
               ![u] = << <<"intr_enable", 0>> >>]
     ELSE Done(t) /\ UNCHANGED status     \* TID_ERROR
  /\ UNCHANGED <<ready_list, current, intr, thread_ticks, idle_thread, syncVars,
                 sleepVars, created, failed>>

ThreadUnblock(t, u) ==
  /\ At(t, "thread_unblock", u)
  /\ status' = unblock(status, <<u>>)
  /\ ready_list' = Append(ready_list, u)
  /\ failed' = unblock_fails(<<u>>)
  /\ Done(t)
  /\ UNCHANGED <<current, intr, thread_ticks, idle_thread, syncVars, sleepVars,
                 created>>

Holds(t) == {l \in AllLocks : holder[l] = t}

\* A thread calls steps of a kernel function; it may do so when it is in none.
Calls(t, steps) ==
  /\ t = current /\ t # Idle /\ intr = "ON" /\ ~failed
  /\ call[t] = <<>>
  /\ call' = [call EXCEPT ![t] = steps]
  /\ UNCHANGED <<schedVars, idle_thread, syncVars, sleepVars, failed>>

Call(t) ==
  \/ /\ \/ /\ "lock" \in program.calls
           /\ \/ \E l \in Locks \ Holds(t) : Calls(t, lock_acquire(l))
              \/ \E l \in Locks \cap Holds(t) : Calls(t, lock_release(l))
        \/ /\ "cond" \in program.calls
           /\ \E c \in Conds :
                /\ LockOf[c] \in Holds(t)
                /\ \/ Calls(t, << <<"cond_signal", c>> >>)
                   \/ Calls(t, << <<"cond_broadcast", c>> >>)
                   \/ Calls(t, cond_wait(t, c))
        \/ /\ "sleep" \in program.calls
           /\ \E n \in program.ticks : Calls(t, timer_sleep(t, n))
        \/ "yield" \in program.calls /\ Calls(t, << <<"yield", 0>> >>)
        \/ "exit" \in program.calls /\ Holds(t) = {} /\ Calls(t, << <<"exit", 0>> >>)
     /\ UNCHANGED created
  \/ /\ created < program.creates
     /\ \E u \in Others : Calls(t, << <<"init_thread", u>> >>)
     /\ created' = created + 1

\* Mutant: the lock is taken whether it is free or not.
LockTryAcquireAlways(t, l) ==
  /\ t = current /\ t # Idle /\ intr = "ON" /\ ~failed
  /\ call[t] = <<>> /\ l \notin Holds(t) /\ "lock" \in program.calls
  /\ value' = [value EXCEPT ![l] = 0]
  /\ call' = [call EXCEPT ![t] = << <<"taken", l>> >>]
  /\ UNCHANGED <<schedVars, idle_thread, waiters, holder, cond, sleepVars,
                 created, failed>>

\* lock_try_acquire of a lock that is free; otherwise it does nothing.
LockTryAcquire(t, l) ==
  /\ t = current /\ t # Idle /\ intr = "ON" /\ ~failed
  /\ call[t] = <<>> /\ l \notin Holds(t) /\ "lock" \in program.calls
  /\ value[l] > 0
  /\ value' = [value EXCEPT ![l] = @ - 1]
  /\ call' = [call EXCEPT ![t] = << <<"taken", l>> >>]
  /\ UNCHANGED <<schedVars, idle_thread, waiters, holder, cond, sleepVars,
                 created, failed>>

\* The steps of the kernel function that thread t is in.
CallStep(t) ==
  \/ ThreadYield(t) \/ ThreadExit(t)
  \/ t = Idle /\ (IdleStarts \/ IdleBlocks)
  \/ \E s \in Semas : SemaDown(t, s) \/ SemaUp(t, s)
  \/ \E l \in AllLocks : LockTaken(t, l) \/ LockDropped(t, l)
  \/ \E c \in Conds : CondQueue(t, c) \/ CondSignal(t, c) \/ CondBroadcast(t, c)
  \/ \E n \in Durations : ReadTicks(t, n)
  \/ InsertSleeper(t)
  \/ \E u \in Others : InitThread(t, u) \/ ThreadUnblock(t, u)

\* thread_init and thread_start, up to the point where interrupts are on: main
\* waits for the idle thread, which is ready.
Init ==
  /\ status = [t \in Threads |-> CASE t = Main -> "RUNNING"
                                   [] t = Idle -> "READY"
                                   [] OTHER -> "FREE"]
  /\ ready_list = <<Idle>>
  /\ current = Main
  /\ intr = "ON"
  /\ idle_thread = NULL
  /\ thread_ticks = 0
  /\ call = [t \in Threads |->
       CASE t = Main -> << <<"sema_down", idle_started>> >>
         [] t = Idle -> << <<"intr_enable", 0>>, <<"idle", 0>>,
                           <<"sema_up", idle_started>>, <<"block", 0>> >>
         [] OTHER -> <<>>]
  /\ value = [s \in Semas |-> IF s \in AllLocks \cup {sleeping_list_sema}
                              THEN 1 ELSE 0]
  /\ waiters = [s \in Semas |-> <<>>]
  /\ holder = [l \in AllLocks |-> NULL]
  /\ cond = [c \in Conds |-> <<>>]
  /\ sleeping_thread_list = <<>>
  /\ due = [t \in Threads |-> 0]
  /\ created = 0
  /\ program \in Programs
  /\ failed = FALSE

Next ==
  /\ UNCHANGED program
  /\ \/ \E t \in Threads : IntrEnable(t) \/ CallStep(t) \/ Call(t)
     \/ \E t \in Threads, l \in Locks : LockTryAcquire(t, l)
     \/ TimerInterrupt

Spec == Init /\ [][Next]_vars

\* Interrupts come back on, the clock ticks, and a thread that is scheduled over
\* and over gets its next step done: a step is a few instructions, a time slice
\* is TIME_SLICE ticks of ten milliseconds.
Fairness ==
  /\ WF_kernelVars(\E t \in Threads : IntrEnable(t))
  /\ \A t \in Threads : SF_kernelVars(CallStep(t))
  /\ SF_kernelVars(TimerInterrupt)
FairSpec == Spec /\ Fairness
-----------------------------------------------------------------------------
Occurrences(list, t) == Cardinality({i \in DOMAIN list : list[i] = t})

\* thread.h:78-82: a thread's list element is on the run queue or on the list of
\* one semaphore, according to its status, and on one of them only; the idle
\* thread is on no list, and neither is the page of a thread that has exited.
ElemInOneList ==
  \A t \in Threads :
    /\ Occurrences(ready_list, t)
         = IF status[t] = "READY" /\ t # idle_thread THEN 1 ELSE 0
    /\ \/ \A s \in Semas : Occurrences(waiters[s], t) = 0
       \/ /\ status[t] = "BLOCKED"
          /\ \E s \in Semas : /\ Occurrences(waiters[s], t) = 1
                              /\ \A r \in Semas \ {s} : Occurrences(waiters[r], t) = 0
    /\ status[t] \in {"FREE", "DYING"} =>
         /\ Occurrences(sleeping_thread_list, t) = 0
         /\ \A c \in Conds : Occurrences(cond[c], t) = 0

\* The step of its kernel function that t takes next, once interrupts are on.
IsAt(t, step) ==
  \/ call[t] # <<>> /\ Head(call[t]) = step
  \/ Len(call[t]) > 1 /\ Head(call[t]) = <<"intr_enable", 0>> /\ call[t][2] = step

\* No ASSERT of thread.c and synch.c fails: a thread that is unblocked is
\* blocked, and a lock is released by the thread that holds it.
NoPanic == ~failed

\* A lock is owned by at most one thread at a time, counted from the moment its
\* semaphore is down to the moment it is up again, whatever interrupts between.
LockExclusion ==
  \A l \in AllLocks :
    LET InFlight(t) == IsAt(t, <<"taken", l>>) \/ IsAt(t, <<"sema_up", l>>)
    IN  value[l] + Cardinality({t \in Threads : holder[l] = t \/ InFlight(t)}) = 1

\* A thread that waits in timer_sleep or cond_wait is still on the list its
\* waker looks at, or has already been woken: no wake-up is lost.
NoLostWakeup ==
  \A t \in Threads :
    IsAt(t, <<"sema_down", t>>) =>
      \/ value[t] = 1
      \/ Occurrences(sleeping_thread_list, t) = 1
      \/ \E c \in Conds : Occurrences(cond[c], t) = 1
      \/ \E u \in Threads : <<"sema_up", t>> \in {call[u][i] : i \in DOMAIN call[u]}

\* try_to_wake_up_threads stops at the first thread that sleeps longer, which
\* is right as long as the list stays sorted.
SleepersSorted ==
  \A i, j \in DOMAIN sleeping_thread_list :
    i < j => due[sleeping_thread_list[i]] <= due[sleeping_thread_list[j]]

\* A thread leaves the sleeping list once its time has come, not before; and
\* after a tick that finds the list unused nobody is overdue on it.
WakeupsOnTime ==
  [][/\ \A t \in Threads :
          (Occurrences(sleeping_thread_list, t) = 1
             /\ Occurrences(sleeping_thread_list', t) = 0) => due'[t] <= 0
     /\ (TimerInterrupt /\ value[sleeping_list_sema] = 1) =>
          \A t \in Threads : Occurrences(sleeping_thread_list', t) = 1 => due'[t] > 0
    ]_vars

\* A thread that is ready runs eventually: the run queue is first in, first
\* out, and the time slice ends.
ReadyRuns == \A t \in Threads \ {Idle} : status[t] = "READY" ~> status[t] = "RUNNING"

\* Whoever calls timer_sleep returns from it.
SleepersReturn == \A t \in Threads \ {Idle} : Occurrences(sleeping_thread_list, t) = 1 ~> call[t] = <<>>
\* The lists of the scheduler and of the sleepers are as every function of thread.c, synch.c and
\* timer.c takes them to be.
ListsSound == TypeOK /\ NoPanic /\ ElemInOneList /\ SleepersSorted

\* No thread starves: neither on the run queue nor in timer_sleep (thread.c, timer.c).
EveryThreadRuns == ReadyRuns /\ SleepersReturn
=============================================================================
