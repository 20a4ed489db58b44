---------------------------- MODULE ThreadsProofs ----------------------------
(***************************************************************************)
(* The threads, locks and lists of Pintos, for any number of threads,      *)
(* locks and condition variables, any programs and any time slice.         *)
(***************************************************************************)
EXTENDS Threads, SequenceTheorems, FiniteSetTheorems, WellFoundedInduction, TLAPS

ie == <<"intr_enable", 0>>

Steps ==
  ({"yield", "exit", "idle", "block", "hlt", "sleep"} \X {0})
    \cup ({"sema_down", "sema_up"} \X Semas)
    \cup ({"taken", "dropped"} \X AllLocks)
    \cup ({"cond_queue", "cond_signal", "cond_broadcast"} \X Conds)
    \cup ({"timer_ticks"} \X Durations)
    \cup ({"init_thread", "thread_unblock"} \X Others)

BodyOf(c) == IF c # <<>> /\ Head(c) = ie THEN Tail(c) ELSE c

\* What is left of the kernel function that t is in, once interrupts are on.
Body(t) == BodyOf(call[t])

Before(b, i, x) == \E j \in 1..i-1 : b[j] = x

(***************************************************************************)
(* Which steps follow one another in the kernel functions.                 *)
(***************************************************************************)
LockShape(b) ==
  \A l \in AllLocks : \A i \in 1..Len(b) :
    /\ b[i] = <<"sema_down", l>> =>
         /\ i < Len(b) /\ b[i + 1] = <<"taken", l>>
         /\ ~Before(b, i, <<"taken", l>>)
    /\ b[i] = <<"taken", l>> => i = 1 \/ b[i - 1] = <<"sema_down", l>>
    /\ b[i] = <<"dropped", l>> => i < Len(b) /\ b[i + 1] = <<"sema_up", l>>
    /\ b[i] = <<"sema_up", l>> => i = 1 \/ b[i - 1] = <<"dropped", l>>
    /\ b[i] = <<"taken", tid_lock>> => i < Len(b) /\ b[i + 1] = <<"dropped", tid_lock>>

\* timer_sleep and cond_wait wait only after they have queued up.
SleepShape(t, b) ==
  \A i \in 1..Len(b) :
    /\ b[i] = <<"sema_down", sleeping_list_sema>> =>
         i < Len(b) /\ b[i + 1] = <<"sleep", 0>>
    /\ b[i] = <<"sleep", 0>> =>
         /\ i = 1 \/ b[i - 1] = <<"sema_down", sleeping_list_sema>>
         /\ i + 2 <= Len(b)
         /\ b[i + 1] = <<"sema_up", sleeping_list_sema>>
         /\ b[i + 2] = <<"sema_down", t>>
    /\ b[i] = <<"sema_up", sleeping_list_sema>> => i = 1 \/ b[i - 1] = <<"sleep", 0>>
    /\ \A c \in Conds :
         b[i] = <<"cond_queue", c>> =>
           /\ i + 3 <= Len(b) /\ b[i + 1] = <<"dropped", LockOf[c]>>
           /\ b[i + 2] = <<"sema_up", LockOf[c]>> /\ b[i + 3] = <<"sema_down", t>>
    /\ \A n \in Durations :
         b[i] = <<"timer_ticks", n>> =>
           i < Len(b) /\ b[i + 1] = <<"sema_down", sleeping_list_sema>>
    /\ \A u \in Others : b[i] = <<"thread_unblock", u>> => i = Len(b)

\* A thread waits on its own semaphore only, and ups that of another one right
\* away.
StackShape(t, b) ==
  \A i \in 1..Len(b), s \in Threads :
    /\ b[i] = <<"sema_down", s>> =>
         s = t /\ \A j \in 1..Len(b) : b[j] = <<"sema_down", s>> => j = i
    /\ b[i] = <<"sema_up", s>> => i = 1

\* The steps of functions that are short.
FormShape(t, b) ==
  /\ \A i \in 1..Len(b) :
       /\ b[i] = <<"exit", 0>> => Len(b) = 1
       /\ b[i] = <<"yield", 0>> => Len(b) = 1
       /\ \A u \in Others : b[i] = <<"init_thread", u>> => Len(b) = 1
       /\ b[i] = <<"sema_down", idle_started>> => t = Main /\ Len(b) = 1
       /\ \A c \in Conds :
            /\ b[i] = <<"cond_signal", c>> =>
                 \/ b = << <<"cond_signal", c>> >>
                 \/ b = << <<"cond_signal", c>>, <<"cond_broadcast", c>> >>
            /\ b[i] = <<"cond_broadcast", c>> =>
                 \/ b = << <<"cond_broadcast", c>> >>
                 \/ b = << <<"cond_signal", c>>, <<"cond_broadcast", c>> >>
                 \/ \E w \in Threads : b = << <<"sema_up", w>>, <<"cond_broadcast", c>> >>
       /\ t # Idle => b[i] \notin { <<"idle", 0>>, <<"block", 0>>, <<"hlt", 0>>,
                                    <<"sema_up", idle_started>> }
  /\ t = Idle => b \in
       { << <<"idle", 0>>, <<"sema_up", idle_started>>, <<"block", 0>> >>,
         << <<"sema_up", idle_started>>, <<"block", 0>> >>,
         << <<"block", 0>> >>, << <<"hlt", 0>> >> }

Shape(t, b) ==
  /\ b \in Seq(Steps) /\ LockShape(b) /\ SleepShape(t, b) /\ StackShape(t, b)
  /\ FormShape(t, b)

LEMMA TailEntries ==
  ASSUME NEW S, NEW b \in Seq(S), b # <<>>
  PROVE  /\ Tail(b) \in Seq(S) /\ Len(Tail(b)) = Len(b) - 1 /\ Len(b) \in Nat \ {0}
         /\ \A i \in 1..Len(b) - 1 : Tail(b)[i] = b[i + 1]
OBVIOUS

LEMMA TailTwo == \A x, y : Tail(<<x, y>>) = <<y>> /\ Len(<<x, y>>) = 2
OBVIOUS

LEMMA TailThree == \A x, y, z : Tail(<<x, y, z>>) = <<y, z>>
OBVIOUS

LEMMA LockShapeTail ==
  ASSUME NEW b \in Seq(Steps), b # <<>>, LockShape(b)
  PROVE  LockShape(Tail(b))
<1> DEFINE d == Tail(b)
<1>1. /\ Len(d) = Len(b) - 1 /\ Len(b) \in Nat \ {0}
      /\ \A i \in 1..Len(b) - 1 : d[i] = b[i + 1]
  BY TailEntries
<1> SUFFICES ASSUME NEW l \in AllLocks, NEW i \in 1..Len(d)
             PROVE
    /\ d[i] = <<"sema_down", l>> =>
         /\ i < Len(d) /\ d[i + 1] = <<"taken", l>>
         /\ ~Before(d, i, <<"taken", l>>)
    /\ d[i] = <<"taken", l>> => i = 1 \/ d[i - 1] = <<"sema_down", l>>
    /\ d[i] = <<"dropped", l>> => i < Len(d) /\ d[i + 1] = <<"sema_up", l>>
    /\ d[i] = <<"sema_up", l>> => i = 1 \/ d[i - 1] = <<"dropped", l>>
    /\ d[i] = <<"taken", tid_lock>> => i < Len(d) /\ d[i + 1] = <<"dropped", tid_lock>>
  BY DEF LockShape
<1> HIDE DEF d
<1>2. i + 1 \in 1..Len(b) /\ d[i] = b[i + 1]
  BY <1>1
<1>3. i < Len(d) => d[i + 1] = b[i + 2]
  BY <1>1
<1>4. i > 1 => d[i - 1] = b[i]
  BY <1>1
<1>5. \A x : Before(d, i, x) => Before(b, i + 1, x)
  BY <1>1 DEF Before
<1>6. /\ b[i + 1] = <<"sema_down", l>> =>
           /\ i + 1 < Len(b) /\ b[i + 2] = <<"taken", l>>
           /\ ~Before(b, i + 1, <<"taken", l>>)
      /\ b[i + 1] = <<"taken", l>> => b[i] = <<"sema_down", l>>
      /\ b[i + 1] = <<"dropped", l>> => i + 1 < Len(b) /\ b[i + 2] = <<"sema_up", l>>
      /\ b[i + 1] = <<"sema_up", l>> => b[i] = <<"dropped", l>>
      /\ b[i + 1] = <<"taken", tid_lock>> =>
           i + 1 < Len(b) /\ b[i + 2] = <<"dropped", tid_lock>>
  <2>1. i + 1 # 1 /\ (i + 1) - 1 = i /\ (i + 1) + 1 = i + 2
    BY <1>1
  <2> QED
    BY <1>2, <2>1 DEF LockShape
<1> QED
  BY <1>1, <1>2, <1>3, <1>4, <1>5, <1>6

LEMMA SleepShapeTail ==
  ASSUME NEW t \in Threads, NEW b \in Seq(Steps), b # <<>>, SleepShape(t, b)
  PROVE  SleepShape(t, Tail(b))
<1> DEFINE d == Tail(b)
<1>1. /\ Len(d) = Len(b) - 1 /\ Len(b) \in Nat \ {0}
      /\ \A i \in 1..Len(b) - 1 : d[i] = b[i + 1]
  BY TailEntries
<1> SUFFICES ASSUME NEW i \in 1..Len(d)
             PROVE
    /\ d[i] = <<"sema_down", sleeping_list_sema>> =>
         i < Len(d) /\ d[i + 1] = <<"sleep", 0>>
    /\ d[i] = <<"sleep", 0>> =>
         /\ i = 1 \/ d[i - 1] = <<"sema_down", sleeping_list_sema>>
         /\ i + 2 <= Len(d)
         /\ d[i + 1] = <<"sema_up", sleeping_list_sema>>
         /\ d[i + 2] = <<"sema_down", t>>
    /\ d[i] = <<"sema_up", sleeping_list_sema>> => i = 1 \/ d[i - 1] = <<"sleep", 0>>
    /\ \A c \in Conds :
         d[i] = <<"cond_queue", c>> =>
           /\ i + 3 <= Len(d) /\ d[i + 1] = <<"dropped", LockOf[c]>>
           /\ d[i + 2] = <<"sema_up", LockOf[c]>> /\ d[i + 3] = <<"sema_down", t>>
    /\ \A n \in Durations :
         d[i] = <<"timer_ticks", n>> =>
           i < Len(d) /\ d[i + 1] = <<"sema_down", sleeping_list_sema>>
    /\ \A u \in Others : d[i] = <<"thread_unblock", u>> => i = Len(d)
  BY DEF SleepShape
<1> HIDE DEF d
<1> DEFINE k == i + 1
<1>2. k \in 1..Len(b) /\ d[i] = b[k] /\ k # 1 /\ k - 1 = i /\ i \in Nat
  BY <1>1
<1>3. /\ k < Len(b) => d[i + 1] = b[k + 1] /\ i < Len(d)
      /\ k + 2 <= Len(b) => d[i + 2] = b[k + 2] /\ i + 2 <= Len(d)
      /\ k + 3 <= Len(b) => d[i + 3] = b[k + 3] /\ i + 3 <= Len(d)
      /\ k + 2 <= Len(b) => k < Len(b)
      /\ k + 3 <= Len(b) => k + 2 <= Len(b)
  BY <1>1
<1>4. i # 1 => d[i - 1] = b[k - 1]
  BY <1>1
<1> HIDE DEF k
<1>5. /\ d[i] = <<"sema_down", sleeping_list_sema>> =>
           i < Len(d) /\ d[i + 1] = <<"sleep", 0>>
      /\ d[i] = <<"sleep", 0>> =>
           /\ i = 1 \/ d[i - 1] = <<"sema_down", sleeping_list_sema>>
           /\ i + 2 <= Len(d)
           /\ d[i + 1] = <<"sema_up", sleeping_list_sema>>
           /\ d[i + 2] = <<"sema_down", t>>
      /\ d[i] = <<"sema_up", sleeping_list_sema>> => i = 1 \/ d[i - 1] = <<"sleep", 0>>
  BY <1>2, <1>3, <1>4 DEF SleepShape
<1>6. ASSUME NEW c \in Conds, d[i] = <<"cond_queue", c>>
      PROVE  /\ i + 3 <= Len(d) /\ d[i + 1] = <<"dropped", LockOf[c]>>
             /\ d[i + 2] = <<"sema_up", LockOf[c]>> /\ d[i + 3] = <<"sema_down", t>>
  BY <1>2, <1>3, <1>6 DEF SleepShape
<1>7. ASSUME NEW n \in Durations, d[i] = <<"timer_ticks", n>>
      PROVE  i < Len(d) /\ d[i + 1] = <<"sema_down", sleeping_list_sema>>
  BY <1>2, <1>3, <1>7 DEF SleepShape
<1>8. ASSUME NEW u \in Others, d[i] = <<"thread_unblock", u>>
      PROVE  i = Len(d)
  <2>1. k = Len(b)
    BY <1>2, <1>8 DEF SleepShape
  <2> QED
    BY <1>1, <1>2, <2>1
<1> QED
  BY <1>5, <1>6, <1>7, <1>8

LEMMA StackShapeTail ==
  ASSUME NEW t \in Threads, NEW b \in Seq(Steps), b # <<>>, StackShape(t, b)
  PROVE  StackShape(t, Tail(b))
<1> DEFINE d == Tail(b)
<1>1. /\ Len(d) = Len(b) - 1 /\ Len(b) \in Nat \ {0}
      /\ \A i \in 1..Len(b) - 1 : d[i] = b[i + 1]
  BY TailEntries
<1> SUFFICES ASSUME NEW i \in 1..Len(d), NEW s \in Threads
             PROVE
    /\ d[i] = <<"sema_down", s>> =>
         s = t /\ \A j \in 1..Len(d) : d[j] = <<"sema_down", s>> => j = i
    /\ d[i] = <<"sema_up", s>> => i = 1
  BY DEF StackShape
<1> HIDE DEF d
<1>2. i + 1 \in 1..Len(b) /\ d[i] = b[i + 1] /\ i + 1 # 1
  BY <1>1
<1>3. ASSUME d[i] = <<"sema_down", s>>, NEW j \in 1..Len(d), d[j] = <<"sema_down", s>>
      PROVE  j = i
  <2>1. j + 1 \in 1..Len(b) /\ b[j + 1] = <<"sema_down", s>>
    BY <1>1, <1>3
  <2>2. j + 1 = i + 1
    BY <1>2, <1>3, <2>1 DEF StackShape
  <2> QED
    BY <1>1, <2>2
<1> QED
  BY <1>2, <1>3 DEF StackShape

LEMMA FormShapeTail ==
  ASSUME NEW t \in Threads, NEW b \in Seq(Steps), b # <<>>, FormShape(t, b),
         Tail(b) # <<>> \/ t # Idle
  PROVE  FormShape(t, Tail(b))
<1> DEFINE d == Tail(b)
<1>1. /\ Len(d) = Len(b) - 1 /\ Len(b) \in Nat \ {0}
      /\ \A i \in 1..Len(b) - 1 : d[i] = b[i + 1]
  BY TailEntries
<1>2. ASSUME NEW i \in 1..Len(d)
      PROVE
       /\ d[i] = <<"exit", 0>> => Len(d) = 1
       /\ d[i] = <<"yield", 0>> => Len(d) = 1
       /\ \A u \in Others : d[i] = <<"init_thread", u>> => Len(d) = 1
       /\ d[i] = <<"sema_down", idle_started>> => t = Main /\ Len(d) = 1
       /\ t # Idle => d[i] \notin { <<"idle", 0>>, <<"block", 0>>, <<"hlt", 0>>,
                                    <<"sema_up", idle_started>> }
  <2>1. i + 1 \in 1..Len(b) /\ d[i] = b[i + 1] /\ Len(b) # 1
    BY <1>1
  <2> QED
    BY <2>1 DEF FormShape
<1>3. ASSUME NEW i \in 1..Len(d), NEW c \in Conds
      PROVE
            /\ d[i] = <<"cond_signal", c>> =>
                 \/ d = << <<"cond_signal", c>> >>
                 \/ d = << <<"cond_signal", c>>, <<"cond_broadcast", c>> >>
            /\ d[i] = <<"cond_broadcast", c>> =>
                 \/ d = << <<"cond_broadcast", c>> >>
                 \/ d = << <<"cond_signal", c>>, <<"cond_broadcast", c>> >>
                 \/ \E w \in Threads : d = << <<"sema_up", w>>, <<"cond_broadcast", c>> >>
  <2>1. i + 1 \in 1..Len(b) /\ d[i] = b[i + 1] /\ Len(b) # 1
    BY <1>1
  <2>2. ASSUME d[i] = <<"cond_signal", c>>
        PROVE  FALSE
    <3>1. \/ b = << <<"cond_signal", c>> >>
          \/ b = << <<"cond_signal", c>>, <<"cond_broadcast", c>> >>
      BY <2>1, <2>2 DEF FormShape
    <3>2. b = << <<"cond_signal", c>>, <<"cond_broadcast", c>> >>
      BY <2>1, <3>1
    <3>3. i = 1 /\ b[2] = <<"cond_broadcast", c>>
      BY <1>1, <3>2
    <3> QED
      BY <2>1, <2>2, <3>3
  <2>3. ASSUME d[i] = <<"cond_broadcast", c>>
        PROVE  d = << <<"cond_broadcast", c>> >>
    <3>1. \/ b = << <<"cond_broadcast", c>> >>
          \/ b = << <<"cond_signal", c>>, <<"cond_broadcast", c>> >>
          \/ \E w \in Threads : b = << <<"sema_up", w>>, <<"cond_broadcast", c>> >>
      BY <2>1, <2>3 DEF FormShape
    <3>2. CASE b = << <<"cond_broadcast", c>> >>
      BY <2>1, <3>2
    <3>3. CASE b = << <<"cond_signal", c>>, <<"cond_broadcast", c>> >>
      BY <3>3, TailTwo
    <3>4. ASSUME NEW w \in Threads, b = << <<"sema_up", w>>, <<"cond_broadcast", c>> >>
          PROVE  d = << <<"cond_broadcast", c>> >>
      BY <3>4, TailTwo
    <3> QED
      BY <3>1, <3>2, <3>3, <3>4
  <2> QED
    BY <2>2, <2>3
<1>4. t = Idle => d \in
       { << <<"idle", 0>>, <<"sema_up", idle_started>>, <<"block", 0>> >>,
         << <<"sema_up", idle_started>>, <<"block", 0>> >>,
         << <<"block", 0>> >>, << <<"hlt", 0>> >> }
  <2> SUFFICES ASSUME t = Idle
               PROVE  \/ d = << <<"sema_up", idle_started>>, <<"block", 0>> >>
                      \/ d = << <<"block", 0>> >>
    OBVIOUS
  <2>1. b \in
       { << <<"idle", 0>>, <<"sema_up", idle_started>>, <<"block", 0>> >>,
         << <<"sema_up", idle_started>>, <<"block", 0>> >>,
         << <<"block", 0>> >>, << <<"hlt", 0>> >> }
    BY DEF FormShape
  <2>2. CASE b = << <<"idle", 0>>, <<"sema_up", idle_started>>, <<"block", 0>> >>
    BY <2>2, TailThree
  <2>3. CASE b = << <<"sema_up", idle_started>>, <<"block", 0>> >>
    BY <2>3, TailTwo
  <2>4. CASE Len(b) = 1
    <3>1. d \in Seq(Steps) /\ Len(d) = 0
      BY <2>4, TailEntries
    <3>2. d = <<>>
      BY <3>1, EmptySeq
    <3> QED
      BY <3>2
  <2>5. \/ b = << <<"idle", 0>>, <<"sema_up", idle_started>>, <<"block", 0>> >>
        \/ b = << <<"sema_up", idle_started>>, <<"block", 0>> >>
        \/ Len(b) = 1
    BY <2>1
  <2> QED
    BY <2>2, <2>3, <2>4, <2>5
<1> HIDE DEF d
<1>5. FormShape(t, d)
  BY <1>2, <1>3, <1>4 DEF FormShape
<1> QED
  BY <1>5 DEF d

LEMMA ShapeTail ==
  ASSUME NEW t \in Threads, NEW b, Shape(t, b), b # <<>>, Tail(b) # <<>> \/ t # Idle
  PROVE  Shape(t, Tail(b))
BY TailEntries, LockShapeTail, SleepShapeTail, StackShapeTail,
   FormShapeTail DEF Shape

LEMMA BodyOfPlain ==
  ASSUME NEW b \in Seq(Steps)
  PROVE  BodyOf(b) = b /\ BodyOf(<<ie>> \o b) = b
<1>1. b # <<>> => Head(b) # ie
  <2> SUFFICES ASSUME b # <<>> PROVE Head(b) # ie
    OBVIOUS
  <2>1. Head(b) \in Steps
    OBVIOUS
  <2> QED
    BY <2>1 DEF Steps, ie
<1>2. <<ie>> \o b # <<>> /\ Head(<<ie>> \o b) = ie /\ Tail(<<ie>> \o b) = b
  OBVIOUS
<1> QED
  BY <1>1, <1>2 DEF BodyOf

LEMMA LockAcquireShape ==
  ASSUME NEW t \in Threads \ {Idle}, NEW l \in Locks
  PROVE  Shape(t, lock_acquire(l))
<1> DEFINE b == lock_acquire(l)
<1>1. b \in Seq(Steps) /\ Len(b) = 2 /\ b[1] = <<"sema_down", l>> /\ b[2] = <<"taken", l>>
  BY DEF lock_acquire, Steps, Semas, AllLocks
<1>2. l \notin Threads /\ l # tid_lock /\ l # sleeping_list_sema /\ l # idle_started
  BY SemasAssumption DEF AllLocks
<1> HIDE DEF b
<1>3. LockShape(b)
  BY <1>1, <1>2 DEF LockShape, Before
<1>4. SleepShape(t, b)
  BY <1>1, <1>2 DEF SleepShape
<1>5. StackShape(t, b)
  BY <1>1, <1>2 DEF StackShape
<1>6. FormShape(t, b)
  BY <1>1, <1>2 DEF FormShape
<1> QED
  BY <1>1, <1>3, <1>4, <1>5, <1>6 DEF Shape, b

LEMMA LockReleaseShape ==
  ASSUME NEW t \in Threads \ {Idle}, NEW l \in Locks
  PROVE  Shape(t, lock_release(l))
<1> DEFINE b == lock_release(l)
<1>1. b \in Seq(Steps) /\ Len(b) = 2 /\ b[1] = <<"dropped", l>> /\ b[2] = <<"sema_up", l>>
  BY DEF lock_release, Steps, Semas, AllLocks
<1>2. l \notin Threads /\ l # tid_lock /\ l # sleeping_list_sema /\ l # idle_started
  BY SemasAssumption DEF AllLocks
<1> HIDE DEF b
<1>3. LockShape(b)
  BY <1>1, <1>2 DEF LockShape, Before
<1>4. SleepShape(t, b)
  BY <1>1, <1>2 DEF SleepShape
<1>5. StackShape(t, b)
  BY <1>1, <1>2 DEF StackShape
<1>6. FormShape(t, b)
  BY <1>1, <1>2 DEF FormShape
<1> QED
  BY <1>1, <1>3, <1>4, <1>5, <1>6 DEF Shape, b

LEMMA CondWaitShape ==
  ASSUME NEW t \in Threads \ {Idle}, NEW c \in Conds
  PROVE  Shape(t, cond_wait(t, c))
<1> DEFINE b == cond_wait(t, c)
           l == LockOf[c]
<1>0. l \in Locks
  BY CondsAssumption
<1> HIDE DEF l
<1>2. /\ b \in Seq(Steps) /\ Len(b) = 6
      /\ b[1] = <<"cond_queue", c>> /\ b[2] = <<"dropped", l>>
      /\ b[3] = <<"sema_up", l>> /\ b[4] = <<"sema_down", t>>
      /\ b[5] = <<"sema_down", l>> /\ b[6] = <<"taken", l>>
  BY <1>0 DEF cond_wait, lock_acquire, lock_release, l, Steps, Semas, AllLocks
<1>3. /\ l \notin Threads /\ l # tid_lock /\ l # sleeping_list_sema /\ l # idle_started
      /\ t \notin AllLocks /\ t # sleeping_list_sema /\ t # idle_started
  BY <1>0, SemasAssumption DEF AllLocks
<1> HIDE DEF b
<1>4. LockShape(b)
  BY <1>2, <1>3 DEF LockShape, Before
<1>5. SleepShape(t, b)
  BY <1>2, <1>3 DEF SleepShape, l
<1>6. StackShape(t, b)
  BY <1>2, <1>3 DEF StackShape
<1>7. FormShape(t, b)
  BY <1>2, <1>3 DEF FormShape
<1> QED
  BY <1>2, <1>4, <1>5, <1>6, <1>7 DEF Shape, b

LEMMA TimerSleepShape ==
  ASSUME NEW t \in Threads \ {Idle}, NEW n \in Durations
  PROVE  Shape(t, timer_sleep(t, n))
<1> DEFINE b == timer_sleep(t, n)
<1>2. /\ b \in Seq(Steps) /\ Len(b) = 5
      /\ b[1] = <<"timer_ticks", n>> /\ b[2] = <<"sema_down", sleeping_list_sema>>
      /\ b[3] = <<"sleep", 0>> /\ b[4] = <<"sema_up", sleeping_list_sema>>
      /\ b[5] = <<"sema_down", t>>
  BY DEF timer_sleep, Steps, Semas, AllLocks
<1>3. /\ t \notin AllLocks /\ t # sleeping_list_sema /\ t # idle_started
      /\ sleeping_list_sema \notin AllLocks /\ sleeping_list_sema \notin Threads
      /\ sleeping_list_sema # idle_started
  BY SemasAssumption DEF AllLocks, sleeping_list_sema, tid_lock, idle_started
<1> HIDE DEF b
<1>4. LockShape(b)
  BY <1>2, <1>3 DEF LockShape
<1>5. SleepShape(t, b)
  BY <1>2, <1>3 DEF SleepShape
<1>6. StackShape(t, b)
  BY <1>2, <1>3 DEF StackShape
<1>7. FormShape(t, b)
  BY <1>2, <1>3 DEF FormShape
<1> QED
  BY <1>2, <1>4, <1>5, <1>6, <1>7 DEF Shape, b

\* thread_create, once it has a page for the thread.
creating(u) == lock_acquire(tid_lock) \o lock_release(tid_lock)
                 \o << <<"thread_unblock", u>> >>

LEMMA CreatingShape ==
  ASSUME NEW t \in Threads \ {Idle}, NEW u \in Others
  PROVE  Shape(t, creating(u))
<1> DEFINE b == creating(u)
<1>2. /\ b \in Seq(Steps) /\ Len(b) = 5
      /\ b[1] = <<"sema_down", tid_lock>> /\ b[2] = <<"taken", tid_lock>>
      /\ b[3] = <<"dropped", tid_lock>> /\ b[4] = <<"sema_up", tid_lock>>
      /\ b[5] = <<"thread_unblock", u>>
  BY DEF creating, lock_acquire, lock_release, Steps, Semas, AllLocks
<1>3. tid_lock \notin Threads /\ tid_lock # sleeping_list_sema /\ tid_lock # idle_started
  BY SemasAssumption DEF AllLocks, tid_lock, sleeping_list_sema, idle_started
<1> HIDE DEF b
<1>4. LockShape(b)
  BY <1>2, <1>3 DEF LockShape, Before
<1>5. SleepShape(t, b)
  BY <1>2, <1>3 DEF SleepShape
<1>6. StackShape(t, b)
  BY <1>2, <1>3 DEF StackShape
<1>7. FormShape(t, b)
  BY <1>2, <1>3 DEF FormShape
<1> QED
  BY <1>2, <1>4, <1>5, <1>6, <1>7 DEF Shape, b

\* The kernel functions of one step.
LEMMA StepShape ==
  ASSUME NEW t \in Threads \ {Idle},
         NEW x \in ({"yield", "exit"} \X {0}) \cup ({"taken"} \X Locks)
                     \cup ({"cond_signal", "cond_broadcast"} \X Conds)
                     \cup ({"init_thread"} \X Others)
  PROVE  Shape(t, <<x>>)
<1> DEFINE b == <<x>>
<1>1. b \in Seq(Steps) /\ Len(b) = 1 /\ b[1] = x
  BY DEF Steps, AllLocks
<1>2. x[1] \notin {"sema_down", "sema_up", "dropped", "sleep", "cond_queue", "idle",
                   "block", "hlt"}
      /\ x # <<"taken", tid_lock>>
  BY SemasAssumption
<1> HIDE DEF b
<1>4. LockShape(b)
  BY <1>1, <1>2 DEF LockShape
<1>5. SleepShape(t, b)
  BY <1>1, <1>2 DEF SleepShape
<1>6. StackShape(t, b)
  BY <1>1, <1>2 DEF StackShape
<1>7. FormShape(t, b)
  <2>1. \A c \in Conds : x = <<"cond_signal", c>> \/ x = <<"cond_broadcast", c>> => b = <<x>>
    BY DEF b
  <2> QED
    BY <1>1, <1>2, <2>1 DEF FormShape
<1> QED
  BY <1>1, <1>4, <1>5, <1>6, <1>7 DEF Shape, b

(***************************************************************************)
(* What a thread holds, by the steps it has left: h is the holder of each  *)
(* lock, b what is left of the kernel function of t.                       *)
(***************************************************************************)
AcquireHolding(h, t, b) ==
  \A l \in AllLocks : \A i \in 1..Len(b) :
    /\ b[i] = <<"sema_down", l>> => h[l] # t \/ Before(b, i, <<"dropped", l>>)
    /\ b[i] = <<"dropped", l>> =>
         \/ i > 1 /\ b[i - 1] = <<"taken", l>>
         \/ h[l] = t /\ ~Before(b, i, <<"dropped", l>>)
    /\ b[i] = <<"sema_up", l>> /\ i = 1 => h[l] # t

CondHolding(h, t, b) ==
  \A c \in Conds : \A i \in 1..Len(b) :
    b[i] \in { <<"cond_queue", c>>, <<"cond_signal", c>>, <<"cond_broadcast", c>> } =>
      h[LockOf[c]] = t /\ ~Before(b, i, <<"dropped", LockOf[c]>>)

\* tid_lock is held by thread_create only.
TidHolding(h, t, b) ==
  h[tid_lock] = t => \E i \in 1..Len(b) : b[i] = <<"dropped", tid_lock>>

Holding(h, t, b) ==
  AcquireHolding(h, t, b) /\ CondHolding(h, t, b) /\ TidHolding(h, t, b)

LEMMA BeforeTail ==
  ASSUME NEW b \in Seq(Steps), b # <<>>, NEW i \in 1..Len(Tail(b)), NEW x
  PROVE  /\ Before(Tail(b), i, x) => Before(b, i + 1, x)
         /\ Before(b, i + 1, x) /\ b[1] # x => Before(Tail(b), i, x)
<1> DEFINE d == Tail(b)
<1>1. /\ Len(d) = Len(b) - 1 /\ Len(b) \in Nat \ {0}
      /\ \A j \in 1..Len(b) - 1 : d[j] = b[j + 1]
  BY TailEntries
<1> HIDE DEF d
<1>2. i \in 1..Len(d)
  BY DEF d
<1>3. Before(d, i, x) => Before(b, i + 1, x)
  BY <1>1, <1>2 DEF Before
<1>4. ASSUME Before(b, i + 1, x), b[1] # x
      PROVE  Before(d, i, x)
  <2>1. PICK j \in 1..(i + 1) - 1 : b[j] = x
    BY <1>4 DEF Before
  <2>2. j # 1 /\ j - 1 \in 1..i - 1 /\ d[j - 1] = b[j]
    BY <1>1, <1>2, <1>4, <2>1
  <2> QED
    BY <2>1, <2>2 DEF Before
<1> QED
  BY <1>3, <1>4 DEF d

\* A step that neither takes nor drops a lock.
LEMMA HoldingTail ==
  ASSUME NEW h, NEW t \in Threads, NEW b, Shape(t, b), b # <<>>, Holding(h, t, b),
         \A l \in AllLocks : b[1] # <<"taken", l>> /\ b[1] # <<"dropped", l>>
  PROVE  Holding(h, t, Tail(b))
<1> DEFINE d == Tail(b)
<1>1. /\ b \in Seq(Steps) /\ d \in Seq(Steps)
      /\ Len(d) = Len(b) - 1 /\ Len(b) \in Nat \ {0}
      /\ \A i \in 1..Len(b) - 1 : d[i] = b[i + 1]
  BY TailEntries DEF Shape
<1>2. \A i, x : i \in 1..Len(d) =>
        /\ Before(d, i, x) => Before(b, i + 1, x)
        /\ Before(b, i + 1, x) /\ b[1] # x => Before(d, i, x)
  BY <1>1, BeforeTail
<1>3. LockShape(b) /\ AcquireHolding(h, t, b) /\ CondHolding(h, t, b) /\ TidHolding(h, t, b)
  BY DEF Shape, Holding
<1> HIDE DEF d
<1>4. AcquireHolding(h, t, d)
  <2> SUFFICES ASSUME NEW l \in AllLocks, NEW i \in 1..Len(d)
               PROVE
    /\ d[i] = <<"sema_down", l>> => h[l] # t \/ Before(d, i, <<"dropped", l>>)
    /\ d[i] = <<"dropped", l>> =>
         \/ i > 1 /\ d[i - 1] = <<"taken", l>>
         \/ h[l] = t /\ ~Before(d, i, <<"dropped", l>>)
    /\ d[i] = <<"sema_up", l>> /\ i = 1 => h[l] # t
    BY DEF AcquireHolding
  <2>1. i + 1 \in 1..Len(b) /\ d[i] = b[i + 1] /\ i + 1 # 1 /\ (i + 1) - 1 = i
    BY <1>1
  <2>2. i > 1 => d[i - 1] = b[i]
    BY <1>1
  <2>3. i = 1 \/ i > 1
    BY <1>1
  <2>4. b[1] # <<"taken", l>> /\ b[1] # <<"dropped", l>>
    OBVIOUS
  <2>5. d[i] = <<"sema_down", l>> => h[l] # t \/ Before(d, i, <<"dropped", l>>)
    BY <1>2, <1>3, <2>1, <2>4 DEF AcquireHolding
  <2>6. ASSUME d[i] = <<"dropped", l>>
        PROVE  \/ i > 1 /\ d[i - 1] = <<"taken", l>>
               \/ h[l] = t /\ ~Before(d, i, <<"dropped", l>>)
    <3>1. b[i] = <<"taken", l>> \/ (h[l] = t /\ ~Before(b, i + 1, <<"dropped", l>>))
      BY <1>3, <2>1, <2>6 DEF AcquireHolding
    <3>2. b[i] = <<"taken", l>> => i > 1
      BY <2>3, <2>4
    <3> QED
      BY <1>2, <2>2, <3>1, <3>2
  <2>7. ASSUME d[i] = <<"sema_up", l>>, i = 1
        PROVE  FALSE
    <3>1. b[i] = <<"dropped", l>>
      BY <1>3, <2>1, <2>7 DEF LockShape
    <3> QED
      BY <2>4, <2>7, <3>1
  <2> QED
    BY <2>5, <2>6, <2>7
<1>5. CondHolding(h, t, d)
  <2> SUFFICES ASSUME NEW c \in Conds, NEW i \in 1..Len(d),
                      d[i] \in { <<"cond_queue", c>>, <<"cond_signal", c>>,
                                 <<"cond_broadcast", c>> }
               PROVE  h[LockOf[c]] = t /\ ~Before(d, i, <<"dropped", LockOf[c]>>)
    BY DEF CondHolding
  <2>1. i + 1 \in 1..Len(b) /\ d[i] = b[i + 1]
    BY <1>1
  <2>2. h[LockOf[c]] = t /\ ~Before(b, i + 1, <<"dropped", LockOf[c]>>)
    BY <1>3, <2>1 DEF CondHolding
  <2> QED
    BY <1>2, <2>2
<1>6. TidHolding(h, t, d)
  <2> SUFFICES ASSUME h[tid_lock] = t
               PROVE  \E i \in 1..Len(d) : d[i] = <<"dropped", tid_lock>>
    BY DEF TidHolding
  <2>1. PICK i \in 1..Len(b) : b[i] = <<"dropped", tid_lock>>
    BY <1>3 DEF TidHolding
  <2>2. i # 1
    BY <2>1 DEF AllLocks
  <2>3. i - 1 \in 1..Len(d) /\ d[i - 1] = b[i]
    BY <1>1, <2>2
  <2> QED
    BY <2>1, <2>3
<1> QED
  BY <1>4, <1>5, <1>6 DEF Holding, d

LEMMA HoldingTaken ==
  ASSUME NEW h \in [AllLocks -> Threads \cup {NULL}], NEW t \in Threads,
         NEW b, Shape(t, b), b # <<>>, Holding(h, t, b),
         NEW l \in AllLocks, b[1] = <<"taken", l>>
  PROVE  Holding([h EXCEPT ![l] = t], t, Tail(b))
<1> DEFINE d == Tail(b)
           g == [h EXCEPT ![l] = t]
<1>1. /\ b \in Seq(Steps) /\ d \in Seq(Steps)
      /\ Len(d) = Len(b) - 1 /\ Len(b) \in Nat \ {0}
      /\ \A i \in 1..Len(b) - 1 : d[i] = b[i + 1]
  BY TailEntries DEF Shape
<1>2. \A i, x : i \in 1..Len(d) =>
        /\ Before(d, i, x) => Before(b, i + 1, x)
        /\ Before(b, i + 1, x) /\ b[1] # x => Before(d, i, x)
  BY <1>1, BeforeTail
<1>3. LockShape(b) /\ AcquireHolding(h, t, b) /\ CondHolding(h, t, b) /\ TidHolding(h, t, b)
  BY DEF Shape, Holding
<1>4. \A m \in AllLocks : m # l => g[m] = h[m]
  OBVIOUS
<1>5. g[l] = t
  OBVIOUS
<1> HIDE DEF d, g
<1>6. AcquireHolding(g, t, d)
  <2> SUFFICES ASSUME NEW m \in AllLocks, NEW i \in 1..Len(d)
               PROVE
    /\ d[i] = <<"sema_down", m>> => g[m] # t \/ Before(d, i, <<"dropped", m>>)
    /\ d[i] = <<"dropped", m>> =>
         \/ i > 1 /\ d[i - 1] = <<"taken", m>>
         \/ g[m] = t /\ ~Before(d, i, <<"dropped", m>>)
    /\ d[i] = <<"sema_up", m>> /\ i = 1 => g[m] # t
    BY DEF AcquireHolding
  <2>1. i + 1 \in 1..Len(b) /\ d[i] = b[i + 1] /\ i + 1 # 1 /\ (i + 1) - 1 = i
    BY <1>1
  <2>2. i > 1 => d[i - 1] = b[i]
    BY <1>1
  <2>3. i = 1 \/ i > 1
    BY <1>1
  <2>4. b[1] # <<"dropped", m>> /\ (m # l => b[1] # <<"taken", m>>)
    OBVIOUS
  <2>5. ASSUME d[i] = <<"sema_down", m>>
        PROVE  g[m] # t \/ Before(d, i, <<"dropped", m>>)
    <3>1. ~Before(b, i + 1, <<"taken", m>>)
      BY <1>3, <2>1, <2>5 DEF LockShape
    <3>2. m # l
      BY <1>1, <2>1, <3>1 DEF Before
    <3> QED
      BY <1>2, <1>3, <1>4, <2>1, <2>4, <2>5, <3>2 DEF AcquireHolding
  <2>6. ASSUME d[i] = <<"dropped", m>>
        PROVE  \/ i > 1 /\ d[i - 1] = <<"taken", m>>
               \/ g[m] = t /\ ~Before(d, i, <<"dropped", m>>)
    <3>1. b[i] = <<"taken", m>> \/ (h[m] = t /\ ~Before(b, i + 1, <<"dropped", m>>))
      BY <1>3, <2>1, <2>6 DEF AcquireHolding
    <3>2. CASE i = 1 /\ m = l
      BY <1>5, <3>2 DEF Before
    <3>3. CASE i = 1 /\ m # l
      BY <1>2, <1>4, <2>4, <3>1, <3>3
    <3>4. CASE i > 1
      BY <1>2, <1>4, <1>5, <2>2, <3>1, <3>4
    <3> QED
      BY <2>3, <3>2, <3>3, <3>4
  <2>7. ASSUME d[i] = <<"sema_up", m>>, i = 1
        PROVE  FALSE
    <3>1. b[i] = <<"dropped", m>>
      BY <1>3, <2>1, <2>7 DEF LockShape
    <3> QED
      BY <2>4, <2>7, <3>1
  <2> QED
    BY <2>5, <2>6, <2>7
<1>7. CondHolding(g, t, d)
  <2> SUFFICES ASSUME NEW c \in Conds, NEW i \in 1..Len(d),
                      d[i] \in { <<"cond_queue", c>>, <<"cond_signal", c>>,
                                 <<"cond_broadcast", c>> }
               PROVE  g[LockOf[c]] = t /\ ~Before(d, i, <<"dropped", LockOf[c]>>)
    BY DEF CondHolding
  <2>1. i + 1 \in 1..Len(b) /\ d[i] = b[i + 1]
    BY <1>1
  <2>2. h[LockOf[c]] = t /\ ~Before(b, i + 1, <<"dropped", LockOf[c]>>)
    BY <1>3, <2>1 DEF CondHolding
  <2>3. LockOf[c] \in AllLocks
    BY CondsAssumption DEF AllLocks
  <2> QED
    BY <1>2, <1>4, <1>5, <2>2, <2>3
<1>8. TidHolding(g, t, d)
  <2> SUFFICES ASSUME g[tid_lock] = t
               PROVE  \E i \in 1..Len(d) : d[i] = <<"dropped", tid_lock>>
    BY DEF TidHolding
  <2>0. tid_lock \in AllLocks
    BY DEF AllLocks
  <2>1. CASE l = tid_lock
    <3>1. 1 < Len(b) /\ b[2] = <<"dropped", tid_lock>>
      <4>1. 1 \in 1..Len(b) /\ 1 + 1 = 2 /\ b[1] = <<"taken", tid_lock>>
        BY <1>1, <2>1
      <4> QED
        BY <1>3, <2>0, <4>1 DEF LockShape
    <3> QED
      BY <1>1, <3>1
  <2>2. CASE l # tid_lock
    <3>1. PICK i \in 1..Len(b) : b[i] = <<"dropped", tid_lock>>
      BY <1>3, <1>4, <2>0, <2>2 DEF TidHolding
    <3>2. i # 1
      BY <3>1
    <3>3. i - 1 \in 1..Len(d) /\ d[i - 1] = b[i]
      BY <1>1, <3>2
    <3> QED
      BY <3>1, <3>3
  <2> QED
    BY <2>1, <2>2
<1> QED
  BY <1>6, <1>7, <1>8 DEF Holding, d, g

LEMMA HoldingDropped ==
  ASSUME NEW h \in [AllLocks -> Threads \cup {NULL}], NEW t \in Threads,
         NEW b, Shape(t, b), b # <<>>, Holding(h, t, b),
         NEW l \in AllLocks, b[1] = <<"dropped", l>>
  PROVE  Holding([h EXCEPT ![l] = NULL], t, Tail(b))
<1> DEFINE d == Tail(b)
           g == [h EXCEPT ![l] = NULL]
<1>1. /\ b \in Seq(Steps) /\ d \in Seq(Steps)
      /\ Len(d) = Len(b) - 1 /\ Len(b) \in Nat \ {0}
      /\ \A i \in 1..Len(b) - 1 : d[i] = b[i + 1]
  BY TailEntries DEF Shape
<1>2. \A i, x : i \in 1..Len(d) =>
        /\ Before(d, i, x) => Before(b, i + 1, x)
        /\ Before(b, i + 1, x) /\ b[1] # x => Before(d, i, x)
  BY <1>1, BeforeTail
<1>3. LockShape(b) /\ AcquireHolding(h, t, b) /\ CondHolding(h, t, b) /\ TidHolding(h, t, b)
  BY DEF Shape, Holding
<1>4. \A m \in AllLocks : m # l => g[m] = h[m]
  OBVIOUS
<1>5. g[l] # t
  BY ThreadsAssumption
<1> HIDE DEF d, g
<1>6. AcquireHolding(g, t, d)
  <2> SUFFICES ASSUME NEW m \in AllLocks, NEW i \in 1..Len(d)
               PROVE
    /\ d[i] = <<"sema_down", m>> => g[m] # t \/ Before(d, i, <<"dropped", m>>)
    /\ d[i] = <<"dropped", m>> =>
         \/ i > 1 /\ d[i - 1] = <<"taken", m>>
         \/ g[m] = t /\ ~Before(d, i, <<"dropped", m>>)
    /\ d[i] = <<"sema_up", m>> /\ i = 1 => g[m] # t
    BY DEF AcquireHolding
  <2>1. i + 1 \in 1..Len(b) /\ d[i] = b[i + 1] /\ i + 1 # 1 /\ (i + 1) - 1 = i
    BY <1>1
  <2>2. i > 1 => d[i - 1] = b[i]
    BY <1>1
  <2>3. i = 1 \/ i > 1
    BY <1>1
  <2>4. b[1] # <<"taken", m>> /\ (m # l => b[1] # <<"dropped", m>>)
    OBVIOUS
  <2>5. ASSUME d[i] = <<"sema_down", m>>, m # l
        PROVE  g[m] # t \/ Before(d, i, <<"dropped", m>>)
    BY <1>2, <1>3, <1>4, <2>1, <2>4, <2>5 DEF AcquireHolding
  <2>6. ASSUME d[i] = <<"dropped", m>>
        PROVE  \/ i > 1 /\ d[i - 1] = <<"taken", m>>
               \/ g[m] = t /\ ~Before(d, i, <<"dropped", m>>)
    <3>1. b[i] = <<"taken", m>> \/ (h[m] = t /\ ~Before(b, i + 1, <<"dropped", m>>))
      BY <1>3, <2>1, <2>6 DEF AcquireHolding
    <3>2. m = l => Before(b, i + 1, <<"dropped", m>>)
      BY <1>1, <2>1 DEF Before
    <3>3. b[i] = <<"taken", m>> => i > 1
      BY <2>3, <2>4
    <3> QED
      BY <1>2, <1>4, <2>2, <3>1, <3>2, <3>3
  <2>7. ASSUME d[i] = <<"sema_up", m>>, i = 1
        PROVE  g[m] # t
    <3>1. b[i] = <<"dropped", m>>
      BY <1>3, <2>1, <2>7 DEF LockShape
    <3> QED
      BY <1>5, <2>4, <2>7, <3>1
  <2> QED
    BY <1>5, <2>5, <2>6, <2>7
<1>7. CondHolding(g, t, d)
  <2> SUFFICES ASSUME NEW c \in Conds, NEW i \in 1..Len(d),
                      d[i] \in { <<"cond_queue", c>>, <<"cond_signal", c>>,
                                 <<"cond_broadcast", c>> }
               PROVE  g[LockOf[c]] = t /\ ~Before(d, i, <<"dropped", LockOf[c]>>)
    BY DEF CondHolding
  <2>1. i + 1 \in 1..Len(b) /\ d[i] = b[i + 1] /\ 1 \in 1..i + 1 - 1
    BY <1>1
  <2>2. h[LockOf[c]] = t /\ ~Before(b, i + 1, <<"dropped", LockOf[c]>>)
    BY <1>3, <2>1 DEF CondHolding
  <2>3. LockOf[c] \in AllLocks
    BY CondsAssumption DEF AllLocks
  <2>4. LockOf[c] # l
    BY <2>1, <2>2 DEF Before
  <2> QED
    BY <1>2, <1>4, <2>2, <2>3, <2>4
<1>8. TidHolding(g, t, d)
  <2> SUFFICES ASSUME g[tid_lock] = t
               PROVE  \E i \in 1..Len(d) : d[i] = <<"dropped", tid_lock>>
    BY DEF TidHolding
  <2>0. tid_lock \in AllLocks /\ tid_lock # l
    BY <1>5 DEF AllLocks
  <2>1. PICK i \in 1..Len(b) : b[i] = <<"dropped", tid_lock>>
    BY <1>3, <1>4, <2>0 DEF TidHolding
  <2>2. i # 1
    BY <2>0, <2>1
  <2>3. i - 1 \in 1..Len(d) /\ d[i - 1] = b[i]
    BY <1>1, <2>2
  <2> QED
    BY <2>1, <2>3
<1> QED
  BY <1>6, <1>7, <1>8 DEF Holding, d, g

\* What t holds is the same for g.
LEMMA HoldingSame ==
  ASSUME NEW h, NEW g, NEW t \in Threads, NEW b, Holding(h, t, b),
         \A l \in AllLocks : g[l] = t <=> h[l] = t
  PROVE  Holding(g, t, b)
<1>1. \A c \in Conds : LockOf[c] \in AllLocks
  BY CondsAssumption DEF AllLocks
<1>2. AcquireHolding(g, t, b)
  BY DEF Holding, AcquireHolding
<1>3. CondHolding(g, t, b)
  BY <1>1 DEF Holding, CondHolding
<1>4. TidHolding(g, t, b)
  BY DEF Holding, TidHolding, AllLocks
<1> QED
  BY <1>2, <1>3, <1>4 DEF Holding

LEMMA NothingHolding ==
  ASSUME NEW h, NEW t \in Threads
  PROVE  Holding(h, t, <<>>) <=> h[tid_lock] # t
BY DEF Holding, AcquireHolding, CondHolding, TidHolding

LEMMA CallHolding ==
  ASSUME NEW h, NEW t \in Threads, h[tid_lock] # t
  PROVE  /\ \A l \in Locks : h[l] # t => Holding(h, t, lock_acquire(l))
         /\ \A l \in Locks : h[l] = t => Holding(h, t, lock_release(l))
         /\ \A c \in Conds : h[LockOf[c]] = t =>
              /\ Holding(h, t, << <<"cond_signal", c>> >>)
              /\ Holding(h, t, << <<"cond_broadcast", c>> >>)
              /\ Holding(h, t, << <<"cond_signal", c>>, <<"cond_broadcast", c>> >>)
         /\ \A x \in ({"yield", "exit"} \X {0}) \cup ({"taken"} \X AllLocks)
                       \cup ({"init_thread"} \X Others) : Holding(h, t, <<x>>)
<1>1. ASSUME NEW l \in Locks, h[l] # t
      PROVE  Holding(h, t, lock_acquire(l))
  <2> DEFINE b == lock_acquire(l)
  <2>1. Len(b) = 2 /\ b[1] = <<"sema_down", l>> /\ b[2] = <<"taken", l>>
    BY DEF lock_acquire
  <2> HIDE DEF b
  <2>2. Holding(h, t, b)
    BY <1>1, <2>1 DEF Holding, AcquireHolding, CondHolding, TidHolding
  <2> QED
    BY <2>2 DEF b
<1>2. ASSUME NEW l \in Locks, h[l] = t
      PROVE  Holding(h, t, lock_release(l))
  <2> DEFINE b == lock_release(l)
  <2>1. Len(b) = 2 /\ b[1] = <<"dropped", l>> /\ b[2] = <<"sema_up", l>>
    BY DEF lock_release
  <2> HIDE DEF b
  <2>2. Holding(h, t, b)
    BY <1>2, <2>1 DEF Holding, AcquireHolding, CondHolding, TidHolding, Before
  <2> QED
    BY <2>2 DEF b
<1>3. ASSUME NEW c \in Conds, h[LockOf[c]] = t,
             NEW x \in { <<"cond_signal", c>>, <<"cond_broadcast", c>> }
      PROVE  Holding(h, t, <<x>>)
  <2> DEFINE b == <<x>>
  <2>1. Len(b) = 1 /\ b[1] = x
    OBVIOUS
  <2> HIDE DEF b
  <2>2. Holding(h, t, b)
    BY <1>3, <2>1 DEF Holding, AcquireHolding, CondHolding, TidHolding, Before
  <2> QED
    BY <2>2 DEF b
<1>4. ASSUME NEW c \in Conds, h[LockOf[c]] = t
      PROVE  Holding(h, t, << <<"cond_signal", c>>, <<"cond_broadcast", c>> >>)
  <2> DEFINE b == << <<"cond_signal", c>>, <<"cond_broadcast", c>> >>
  <2>1. Len(b) = 2 /\ b[1] = <<"cond_signal", c>> /\ b[2] = <<"cond_broadcast", c>>
    OBVIOUS
  <2> HIDE DEF b
  <2>2. Holding(h, t, b)
    BY <1>4, <2>1 DEF Holding, AcquireHolding, CondHolding, TidHolding, Before
  <2> QED
    BY <2>2 DEF b
<1>5. ASSUME NEW x \in ({"yield", "exit"} \X {0}) \cup ({"taken"} \X AllLocks)
                         \cup ({"init_thread"} \X Others)
      PROVE  Holding(h, t, <<x>>)
  <2> DEFINE b == <<x>>
  <2>1. Len(b) = 1 /\ b[1] = x
    OBVIOUS
  <2> HIDE DEF b
  <2>2. Holding(h, t, b)
    BY <2>1 DEF Holding, AcquireHolding, CondHolding, TidHolding, Before
  <2> QED
    BY <2>2 DEF b
<1> QED
  BY <1>1, <1>2, <1>3, <1>4, <1>5

LEMMA CondWaitHolding ==
  ASSUME NEW h, NEW t \in Threads, h[tid_lock] # t, NEW c \in Conds, h[LockOf[c]] = t
  PROVE  Holding(h, t, cond_wait(t, c))
<1> DEFINE b == cond_wait(t, c)
           l == LockOf[c]
<1>0. l \in Locks /\ l \in AllLocks /\ l \notin Threads /\ t \notin AllLocks
  BY CondsAssumption, SemasAssumption DEF AllLocks
<1> HIDE DEF l
<1>1. /\ Len(b) = 6
      /\ b[1] = <<"cond_queue", c>> /\ b[2] = <<"dropped", l>>
      /\ b[3] = <<"sema_up", l>> /\ b[4] = <<"sema_down", t>>
      /\ b[5] = <<"sema_down", l>> /\ b[6] = <<"taken", l>>
  <2>1. b \in Seq(Steps)
    BY <1>0 DEF cond_wait, lock_acquire, lock_release, l, Steps, Semas, AllLocks
  <2> QED
    BY <1>0 DEF cond_wait, lock_acquire, lock_release, l, Steps, Semas, AllLocks
<1> HIDE DEF b
<1>2. h[l] = t
  BY DEF l
<1>3. AcquireHolding(h, t, b)
  BY <1>0, <1>1, <1>2 DEF AcquireHolding, Before
<1>4. CondHolding(h, t, b)
  BY <1>1, <1>2 DEF CondHolding, Before, l
<1>5. TidHolding(h, t, b)
  BY DEF TidHolding
<1> QED
  BY <1>3, <1>4, <1>5 DEF Holding, b

LEMMA TimerSleepHolding ==
  ASSUME NEW h, NEW t \in Threads, h[tid_lock] # t, NEW n \in Durations
  PROVE  Holding(h, t, timer_sleep(t, n))
<1> DEFINE b == timer_sleep(t, n)
<1>1. /\ Len(b) = 5
      /\ b[1] = <<"timer_ticks", n>> /\ b[2] = <<"sema_down", sleeping_list_sema>>
      /\ b[3] = <<"sleep", 0>> /\ b[4] = <<"sema_up", sleeping_list_sema>>
      /\ b[5] = <<"sema_down", t>>
  BY DEF timer_sleep
<1>2. t \notin AllLocks /\ sleeping_list_sema \notin AllLocks
  BY SemasAssumption DEF AllLocks, sleeping_list_sema, tid_lock
<1> HIDE DEF b
<1>3. Holding(h, t, b)
  BY <1>1, <1>2 DEF Holding, AcquireHolding, CondHolding, TidHolding
<1> QED
  BY <1>3 DEF b

LEMMA CreatingHolding ==
  ASSUME NEW h, NEW t \in Threads, h[tid_lock] # t, NEW u \in Others
  PROVE  Holding(h, t, creating(u))
<1> DEFINE b == creating(u)
<1>1. /\ Len(b) = 5
      /\ b[1] = <<"sema_down", tid_lock>> /\ b[2] = <<"taken", tid_lock>>
      /\ b[3] = <<"dropped", tid_lock>> /\ b[4] = <<"sema_up", tid_lock>>
      /\ b[5] = <<"thread_unblock", u>>
  <2>1. b \in Seq(Steps)
    BY DEF creating, lock_acquire, lock_release, Steps, Semas, AllLocks
  <2> QED
    BY DEF creating, lock_acquire, lock_release, Steps, Semas, AllLocks
<1> HIDE DEF b
<1>2. Holding(h, t, b)
  BY <1>1 DEF Holding, AcquireHolding, CondHolding, TidHolding
<1> QED
  BY <1>2 DEF b

LEMMA ConcatTwo ==
  ASSUME NEW S, NEW x \in S, NEW y \in S
  PROVE  <<x>> \o <<y>> = <<x, y>>
<1> DEFINE d == <<x>> \o <<y>>
           e == <<x, y>>
<1>1. d \in Seq(S) /\ Len(d) = 2 /\ d[1] = x /\ d[2] = y
  OBVIOUS
<1>2. e \in Seq(S) /\ Len(e) = 2 /\ e[1] = x /\ e[2] = y
  OBVIOUS
<1> HIDE DEF d, e
<1>3. \A i \in 1..Len(d) : d[i] = e[i]
  BY <1>1, <1>2
<1>4. d = e
  BY <1>1, <1>2, <1>3, SeqEqual
<1> QED
  BY <1>4 DEF d, e

\* cond_signal has found a waiter.
LEMMA SignalBody ==
  ASSUME NEW t \in Threads \ {Idle}, NEW b, Shape(t, b), b # <<>>,
         NEW c \in Conds, b[1] = <<"cond_signal", c>>,
         NEW w \in Threads, NEW h, Holding(h, t, b)
  PROVE  /\ Shape(t, << <<"sema_up", w>> >> \o Tail(b))
         /\ Holding(h, t, << <<"sema_up", w>> >> \o Tail(b))
<1>0. w \notin AllLocks /\ w # sleeping_list_sema /\ w # idle_started
  BY SemasAssumption
<1>1. \/ b = << <<"cond_signal", c>> >>
      \/ b = << <<"cond_signal", c>>, <<"cond_broadcast", c>> >>
  BY TailEntries DEF Shape, FormShape
<1>2. CASE b = << <<"cond_signal", c>> >>
  <2>1. << <<"sema_up", w>> >> \o Tail(b) = << <<"sema_up", w>> >>
    BY <1>2
  <2> DEFINE d == << <<"sema_up", w>> >>
  <2>2. d \in Seq(Steps) /\ Len(d) = 1 /\ d[1] = <<"sema_up", w>>
    BY DEF Steps, Semas
  <2>3. \A l \in AllLocks : \A i \in 1..Len(b) : b[i] # <<"dropped", l>>
    BY <1>2
  <2>4. h[tid_lock] # t
    BY <2>3 DEF Holding, TidHolding, AllLocks
  <2> HIDE DEF d
  <2>5. Shape(t, d)
    BY <1>0, <2>2 DEF Shape, LockShape, SleepShape, StackShape, FormShape
  <2>6. Holding(h, t, d)
    BY <1>0, <2>2, <2>4 DEF Holding, AcquireHolding, CondHolding, TidHolding
  <2> QED
    BY <2>1, <2>5, <2>6 DEF d
<1>3. CASE b = << <<"cond_signal", c>>, <<"cond_broadcast", c>> >>
  <2>0. Tail(b) = << <<"cond_broadcast", c>> >>
    BY <1>3, TailTwo
  <2> DEFINE d == << <<"sema_up", w>>, <<"cond_broadcast", c>> >>
  <2>1. << <<"sema_up", w>> >> \o Tail(b) = d
    <3>1. <<"sema_up", w>> \in Steps /\ <<"cond_broadcast", c>> \in Steps
      BY DEF Steps, Semas
    <3> QED
      BY <2>0, <3>1, ConcatTwo
  <2>2. d \in Seq(Steps) /\ Len(d) = 2 /\ d[1] = <<"sema_up", w>>
        /\ d[2] = <<"cond_broadcast", c>>
    BY DEF Steps, Semas
  <2>3. \A l \in AllLocks : \A i \in 1..Len(b) : b[i] # <<"dropped", l>>
    BY <1>3
  <2>4. h[tid_lock] # t
    BY <2>3 DEF Holding, TidHolding, AllLocks
  <2>5. h[LockOf[c]] = t
    <3>1. 1 \in 1..Len(b)
      BY <1>3
    <3> QED
      BY <3>1 DEF Holding, CondHolding
  <2>6. FormShape(t, d)
    <3>1. \A e \in Conds : <<"cond_broadcast", c>> = <<"cond_broadcast", e>> => e = c
      OBVIOUS
    <3>2. \A i \in 1..Len(d) : i = 1 \/ i = 2
      BY <2>2
    <3> HIDE DEF d
    <3> QED
      BY <1>0, <2>2, <3>1, <3>2 DEF FormShape, d
  <2> HIDE DEF d
  <2>7. LockShape(d)
    BY <1>0, <2>2 DEF LockShape
  <2>8. SleepShape(t, d)
    BY <1>0, <2>2 DEF SleepShape
  <2>9. StackShape(t, d)
    BY <1>0, <2>2 DEF StackShape
  <2>10. Holding(h, t, d)
    BY <1>0, <2>2, <2>4, <2>5 DEF Holding, AcquireHolding, CondHolding, TidHolding, Before
  <2> QED
    BY <2>1, <2>2, <2>6, <2>7, <2>8, <2>9, <2>10 DEF d, Shape
<1> QED
  BY <1>1, <1>2, <1>3

LEMMA BroadcastBody ==
  ASSUME NEW t \in Threads \ {Idle}, NEW b, Shape(t, b), b # <<>>,
         NEW c \in Conds, b[1] = <<"cond_broadcast", c>>, NEW h, Holding(h, t, b)
  PROVE  /\ Shape(t, << <<"cond_signal", c>> >> \o b)
         /\ Holding(h, t, << <<"cond_signal", c>> >> \o b)
<1>1. b = << <<"cond_broadcast", c>> >>
  <2>1. \/ b = << <<"cond_broadcast", c>> >>
        \/ b = << <<"cond_signal", c>>, <<"cond_broadcast", c>> >>
        \/ \E w \in Threads : b = << <<"sema_up", w>>, <<"cond_broadcast", c>> >>
    BY TailEntries DEF Shape, FormShape
  <2> QED
    BY <2>1
<1> DEFINE d == << <<"cond_signal", c>>, <<"cond_broadcast", c>> >>
<1>2. << <<"cond_signal", c>> >> \o b = d
  <2>1. <<"cond_signal", c>> \in Steps /\ <<"cond_broadcast", c>> \in Steps
    BY DEF Steps
  <2> QED
    BY <1>1, <2>1, ConcatTwo
<1>3. Holding(h, t, d)
  <2>1. \A l \in AllLocks : \A i \in 1..Len(b) : b[i] # <<"dropped", l>>
    BY <1>1
  <2>2. h[tid_lock] # t
    BY <2>1 DEF Holding, TidHolding, AllLocks
  <2>3. h[LockOf[c]] = t
    <3>1. 1 \in 1..Len(b)
      BY <1>1
    <3> QED
      BY <3>1 DEF Holding, CondHolding
  <2> QED
    BY <2>2, <2>3, CallHolding
<1>4. d \in Seq(Steps) /\ Len(d) = 2 /\ d[1] = <<"cond_signal", c>>
      /\ d[2] = <<"cond_broadcast", c>>
  BY DEF Steps
<1>5. FormShape(t, d)
  <2>1. \A e \in Conds : /\ <<"cond_broadcast", c>> = <<"cond_broadcast", e>> => e = c
                         /\ <<"cond_signal", c>> = <<"cond_signal", e>> => e = c
    OBVIOUS
  <2>2. \A i \in 1..Len(d) : i = 1 \/ i = 2
    BY <1>4
  <2> HIDE DEF d
  <2> QED
    BY <1>4, <2>1, <2>2 DEF FormShape, d
<1> HIDE DEF d
<1>6. LockShape(d)
  BY <1>4 DEF LockShape
<1>7. SleepShape(t, d)
  BY <1>4 DEF SleepShape
<1>8. StackShape(t, d)
  BY <1>4 DEF StackShape
<1> QED
  BY <1>2, <1>3, <1>4, <1>5, <1>6, <1>7, <1>8 DEF Shape

(***************************************************************************)
(* The state: what every thread has left to do, and who owns what.         *)
(***************************************************************************)
bodies == [t \in Threads |-> Body(t)]

Types ==
  /\ status \in [Threads -> {"FREE", "RUNNING", "READY", "BLOCKED", "DYING"}]
  /\ ready_list \in Seq(Threads)
  /\ current \in Threads
  /\ intr \in {"ON", "OFF"}
  /\ idle_thread \in {NULL, Idle}
  /\ thread_ticks \in 0 .. TimeSlice - 1
  /\ call \in [Threads -> Seq(Steps \cup {ie})]
  /\ value \in [Semas -> Nat]
  /\ waiters \in [Semas -> Seq(Threads)]
  /\ holder \in [AllLocks -> Threads \cup {NULL}]
  /\ cond \in [Conds -> Seq(Threads)]
  /\ sleeping_thread_list \in Seq(Threads)
  /\ due \in [Threads -> Nat]
  /\ program \in Programs
  /\ created \in 0..program.creates
  /\ failed \in BOOLEAN

CallsInv == \A t \in Threads : Shape(t, bodies[t]) /\ Holding(holder, t, bodies[t])

\* Interrupts are on only in a thread that has come back from schedule().
IntrInv == intr = "ON" /\ ~failed => call[current] = bodies[current]

\* A page without a thread has nothing left to do.
FreeInv ==
  \A t \in Threads : status[t] = "FREE" => t # current /\ t \in Others /\ call[t] = <<>>

InSection(b, s) ==
  /\ b # <<>>
  /\ \/ b[1] = <<"taken", s>>
     \/ b[1] = <<"sema_up", s>>
     \/ s = sleeping_list_sema /\ b[1] = <<"sleep", 0>>

Owns(t, s) == (s \in AllLocks /\ holder[s] = t) \/ InSection(bodies[t], s)

Guarded == AllLocks \cup {sleeping_list_sema}

\* The semaphore of a lock, and that of the sleeping list, is down exactly
\* while one thread owns it.
Owned(s) ==
  \/ value[s] = 1 /\ \A t \in Threads : ~Owns(t, s)
  \/ value[s] = 0 /\ \E t \in Threads : Owns(t, s) /\ \A v \in Threads : Owns(v, s) => v = t

Excl == \A s \in Guarded : Owned(s)

CoreInv == Types /\ CallsInv /\ IntrInv /\ FreeInv /\ Excl

LEMMA EmptyShape ==
  ASSUME NEW t \in Threads \ {Idle}
  PROVE  Shape(t, <<>>)
<1> DEFINE b == <<>>
<1>1. b \in Seq(Steps) /\ Len(b) = 0
  OBVIOUS
<1>2. LockShape(b) /\ SleepShape(t, b) /\ StackShape(t, b) /\ FormShape(t, b)
  BY <1>1 DEF LockShape, SleepShape, StackShape, FormShape
<1> QED
  BY <1>1, <1>2 DEF Shape

\* A thread that takes a step has enabled interrupts before.
LEMMA AtBody ==
  ASSUME Types, NEW t \in Threads, NEW op, NEW arg, At(t, op, arg), op # "intr_enable"
  PROVE  /\ bodies[t] = call[t] /\ bodies[t] # <<>> /\ bodies[t][1] = <<op, arg>>
         /\ t = current
<1>1. call[t] \in Seq(Steps \cup {ie}) /\ call[t] # <<>> /\ Head(call[t]) = <<op, arg>>
  BY DEF At, Types
<1>2. <<op, arg>> # ie
  BY DEF ie
<1>3. bodies[t] = call[t]
  BY <1>1, <1>2 DEF bodies, Body, BodyOf
<1> QED
  BY <1>1, <1>3 DEF At

LEMMA BodySteps ==
  ASSUME CallsInv, NEW t \in Threads
  PROVE  bodies[t] \in Seq(Steps) /\ bodies \in [Threads -> Seq(Steps)]
BY DEF CallsInv, Shape, bodies

\* The body of a thread whose remaining steps become b, interrupts first or not.
LEMMA BodyStep ==
  ASSUME Types, NEW t \in Threads, NEW b \in Seq(Steps),
         \/ call' = [call EXCEPT ![t] = b]
         \/ call' = [call EXCEPT ![t] = <<ie>> \o b]
  PROVE  bodies' = [bodies EXCEPT ![t] = b]
<1>1. BodyOf(b) = b /\ BodyOf(<<ie>> \o b) = b
  BY BodyOfPlain
<1>2. BodyOf(call'[t]) = b
  BY <1>1 DEF Types
<1>3. \A v \in Threads : v # t => call'[v] = call[v]
  BY DEF Types
<1> QED
  BY <1>2, <1>3 DEF bodies, Body

LEMMA BodyPopped ==
  ASSUME Types, CallsInv, NEW t \in Threads, bodies[t] = call[t], bodies[t] # <<>>, Done(t)
  PROVE  bodies' = [bodies EXCEPT ![t] = Tail(bodies[t])]
<1>1. Tail(call[t]) \in Seq(Steps) /\ Tail(call[t]) = Tail(bodies[t])
  BY BodySteps, TailEntries
<1>2. call' = [call EXCEPT ![t] = Tail(call[t])]
  BY DEF Done, Types
<1> QED
  BY <1>1, <1>2, BodyStep

LEMMA BodySame ==
  ASSUME UNCHANGED call
  PROVE  bodies' = bodies
BY DEF bodies, Body

LEMMA CallsKept ==
  ASSUME CallsInv, NEW t \in Threads, NEW d, bodies' = [bodies EXCEPT ![t] = d],
         Shape(t, d), Holding(holder', t, d),
         \A v \in Threads \ {t}, l \in AllLocks : holder'[l] = v <=> holder[l] = v
  PROVE  CallsInv'
<1> SUFFICES ASSUME NEW v \in Threads
             PROVE  Shape(v, bodies'[v]) /\ Holding(holder', v, bodies'[v])
  BY DEF CallsInv
<1>0. bodies \in [Threads -> Seq(Steps)]
  BY BodySteps
<1>1. CASE v = t
  BY <1>0, <1>1
<1>2. CASE v # t
  <2>1. bodies'[v] = bodies[v] /\ Shape(v, bodies[v]) /\ Holding(holder, v, bodies[v])
    BY <1>0, <1>2 DEF CallsInv
  <2>2. Holding(holder', v, bodies[v])
    BY <1>2, <2>1, HoldingSame
  <2> QED
    BY <2>1, <2>2
<1> QED
  BY <1>1, <1>2

\* A step of t that neither takes nor drops a lock.
LEMMA CallsPopped ==
  ASSUME CallsInv, NEW t \in Threads, bodies[t] # <<>>,
         bodies' = [bodies EXCEPT ![t] = Tail(bodies[t])], holder' = holder,
         \A l \in AllLocks : bodies[t][1] # <<"taken", l>> /\ bodies[t][1] # <<"dropped", l>>,
         t # Idle \/ Tail(bodies[t]) # <<>>
  PROVE  CallsInv'
<1>1. Shape(t, bodies[t]) /\ Holding(holder, t, bodies[t])
  BY DEF CallsInv
<1>2. Shape(t, Tail(bodies[t]))
  BY <1>1, ShapeTail
<1>3. Holding(holder', t, Tail(bodies[t]))
  BY <1>1, HoldingTail
<1> QED
  BY <1>2, <1>3, CallsKept

(***************************************************************************)
(* Which steps lie between the down and the up of a semaphore.             *)
(***************************************************************************)
LEMMA SectionTail ==
  ASSUME NEW t \in Threads, NEW b, Shape(t, b), b # <<>>, NEW s \in Guarded
  PROVE  /\ InSection(Tail(b), s) =>
              \/ b[1] = <<"sema_down", s>> \/ b[1] = <<"dropped", s>>
              \/ s = sleeping_list_sema /\ b[1] = <<"sleep", 0>>
         /\ b[1] = <<"sema_down", s>> => InSection(Tail(b), s)
         /\ b[1] = <<"dropped", s>> => InSection(Tail(b), s)
         /\ s = sleeping_list_sema /\ b[1] = <<"sleep", 0>> => InSection(Tail(b), s)
<1> DEFINE d == Tail(b)
<1>1. /\ b \in Seq(Steps) /\ d \in Seq(Steps)
      /\ Len(d) = Len(b) - 1 /\ Len(b) \in Nat \ {0}
      /\ \A i \in 1..Len(b) - 1 : d[i] = b[i + 1]
  BY TailEntries DEF Shape
<1>2. LockShape(b) /\ SleepShape(t, b)
  BY DEF Shape
<1> HIDE DEF d
<1>3. d # <<>> <=> Len(b) > 1
  BY <1>1, EmptySeq
<1>4. Len(b) > 1 => d[1] = b[2] /\ 2 \in 1..Len(b) /\ d[1] \in Steps
  BY <1>1
<1>5. 1 \in 1..Len(b)
  BY <1>1
<1>6. 1 + 1 = 2 /\ 2 - 1 = 1 /\ 2 # 1 /\ 1 + 2 = 3 /\ \A k \in Nat : 1 < k <=> k > 1
  OBVIOUS
<1>7. s \in AllLocks \/ s = sleeping_list_sema
  BY DEF Guarded
<1>8. sleeping_list_sema \notin AllLocks
  BY SemasAssumption DEF AllLocks, tid_lock, sleeping_list_sema
<1>9. ASSUME InSection(d, s)
      PROVE  \/ b[1] = <<"sema_down", s>> \/ b[1] = <<"dropped", s>>
             \/ s = sleeping_list_sema /\ b[1] = <<"sleep", 0>>
  <2>1. /\ Len(b) > 1 /\ d[1] = b[2] /\ 2 \in 1..Len(b)
        /\ \/ b[2] = <<"taken", s>>
           \/ b[2] = <<"sema_up", s>>
           \/ s = sleeping_list_sema /\ b[2] = <<"sleep", 0>>
    BY <1>3, <1>4, <1>9 DEF InSection
  <2>2. CASE s \in AllLocks
    BY <1>2, <1>6, <1>8, <2>1, <2>2 DEF LockShape
  <2>3. CASE s = sleeping_list_sema
    <3>1. b[2] # <<"taken", s>>
      BY <1>4, <1>8, <2>1, <2>3 DEF Steps
    <3> QED
      BY <1>2, <1>6, <2>1, <2>3, <3>1 DEF SleepShape
  <2> QED
    BY <1>7, <2>2, <2>3
<1>10. ASSUME b[1] = <<"sema_down", s>>
       PROVE  InSection(d, s)
  <2>1. CASE s \in AllLocks
    <3>1. 1 < Len(b) /\ b[1 + 1] = <<"taken", s>>
      BY <1>2, <1>5, <1>10, <2>1 DEF LockShape
    <3> QED
      BY <1>1, <1>3, <1>4, <1>6, <3>1 DEF InSection
  <2>2. CASE s = sleeping_list_sema
    <3>1. 1 < Len(b) /\ b[1 + 1] = <<"sleep", 0>>
      BY <1>2, <1>5, <1>10, <2>2 DEF SleepShape
    <3> QED
      BY <1>1, <1>3, <1>4, <1>6, <2>2, <3>1 DEF InSection
  <2> QED
    BY <1>7, <2>1, <2>2
<1>11. ASSUME b[1] = <<"dropped", s>>
       PROVE  InSection(d, s)
  <2>1. s \in AllLocks
    BY <1>1, <1>5, <1>11 DEF Steps
  <2>2. 1 < Len(b) /\ b[1 + 1] = <<"sema_up", s>>
    BY <1>2, <1>5, <1>11, <2>1 DEF LockShape
  <2> QED
    BY <1>1, <1>3, <1>4, <1>6, <2>2 DEF InSection
<1>12. ASSUME s = sleeping_list_sema, b[1] = <<"sleep", 0>>
       PROVE  InSection(d, s)
  <2>1. 1 + 2 <= Len(b) /\ b[1 + 1] = <<"sema_up", s>>
    BY <1>2, <1>5, <1>12 DEF SleepShape
  <2> QED
    BY <1>1, <1>3, <1>4, <1>6, <2>1 DEF InSection
<1> QED
  BY <1>9, <1>10, <1>11, <1>12 DEF d

\* Nothing changes about who owns what.
LEMMA ExclSame ==
  ASSUME Excl, \A s \in Guarded : value'[s] = value[s],
         \A s \in Guarded, v \in Threads : Owns(v, s)' <=> Owns(v, s)
  PROVE  Excl'
<1>1. ASSUME NEW s \in Guarded
      PROVE  Owned(s)'
  BY <1>1 DEF Excl, Owned
<1> QED
  BY <1>1 DEF Excl

\* t takes a step outside of every section, or is given steps to take there.
LEMMA ExclOutside ==
  ASSUME Excl, CallsInv, \A s \in Guarded : value'[s] = value[s], holder' = holder,
         NEW t \in Threads, NEW d, bodies' = [bodies EXCEPT ![t] = d],
         \A s \in Guarded : InSection(d, s) <=> InSection(bodies[t], s)
  PROVE  Excl'
<1>1. bodies \in [Threads -> Seq(Steps)]
  BY BodySteps
<1>2. ASSUME NEW s \in Guarded, NEW v \in Threads
      PROVE  Owns(v, s)' <=> Owns(v, s)
  <2>1. CASE v = t
    <3>1. bodies'[v] = d
      BY <1>1, <2>1
    <3> QED
      BY <2>1, <3>1 DEF Owns
  <2>2. CASE v # t
    <3>1. bodies'[v] = bodies[v]
      BY <1>1, <2>2
    <3> QED
      BY <3>1 DEF Owns
  <2> QED
    BY <2>1, <2>2
<1> QED
  BY <1>2, ExclSame

(***************************************************************************)
(* What the steps have in common.                                          *)
(***************************************************************************)
Statuses == {"FREE", "RUNNING", "READY", "BLOCKED", "DYING"}

LEMMA ScheduleStep ==
  ASSUME Types, NEW stat \in [Threads -> Statuses], NEW ready \in Seq(Threads),
         schedule(stat, ready)
  PROVE  /\ status' \in [Threads -> Statuses]
         /\ ready_list' \in Seq(Threads)
         /\ current' \in Threads /\ intr' \in {"ON", "OFF"}
         /\ thread_ticks' \in 0 .. TimeSlice - 1 /\ failed' \in BOOLEAN
         /\ ~failed' => intr' = "OFF"
         /\ \/ UNCHANGED <<status, current>>
            \/ \A v \in Threads : status'[v] = "FREE" =>
                 /\ v # current'
                 /\ \/ stat[v] = "FREE"
                    \/ v = current /\ stat[v] = "DYING" /\ v # Main
<1> DEFINE next == next_thread_to_run(ready)
<1>1. CASE next = NULL
  <2>1. failed' = TRUE /\ UNCHANGED schedVars
    BY <1>1 DEF schedule
  <2> QED
    BY <2>1 DEF schedVars, Types, Statuses
<1>2. CASE next # NULL
  <2>1. /\ current' = next
        /\ status' = [t \in Threads |->
             IF t = next THEN "RUNNING"
             ELSE IF t = current /\ stat[t] = "DYING" /\ t # Main THEN "FREE"
             ELSE stat[t]]
        /\ ready_list' = IF ready = <<>> THEN ready ELSE Tail(ready)
        /\ thread_ticks' = 0 /\ intr' = "OFF" /\ UNCHANGED failed
    BY <1>2 DEF schedule
  <2>2. next \in Threads
    <3>1. CASE ready = <<>>
      BY <1>2, <3>1 DEF next_thread_to_run, Types, Threads
    <3>2. CASE ready # <<>>
      BY <3>2 DEF next_thread_to_run
    <3> QED
      BY <3>1, <3>2
  <2>3. ready # <<>> => Tail(ready) \in Seq(Threads)
    OBVIOUS
  <2>4. thread_ticks' \in 0 .. TimeSlice - 1
    BY <2>1, TimerAssumption
  <2> HIDE DEF next
  <2>5. status' \in [Threads -> Statuses]
    BY <2>1 DEF Statuses
  <2>6. \A v \in Threads : status'[v] = "FREE" =>
          /\ v # current'
          /\ \/ stat[v] = "FREE"
             \/ v = current /\ stat[v] = "DYING" /\ v # Main
    <3> TAKE v \in Threads
    <3>1. status'[v] = IF v = next THEN "RUNNING"
                       ELSE IF v = current /\ stat[v] = "DYING" /\ v # Main THEN "FREE"
                       ELSE stat[v]
      BY <2>1
    <3>2. v = next => status'[v] = "RUNNING"
      BY <3>1
    <3>3. v # next /\ ~(v = current /\ stat[v] = "DYING" /\ v # Main) =>
            status'[v] = stat[v]
      BY <3>1
    <3> QED
      BY <2>1, <3>2, <3>3
  <2> QED
    BY <2>1, <2>2, <2>3, <2>4, <2>5, <2>6 DEF Types
<1> QED
  BY <1>1, <1>2

\* The idle thread has always something left to do.
LEMMA IdleBody ==
  ASSUME CallsInv
  PROVE  /\ bodies[Idle] # <<>>
         /\ bodies[Idle][1] \in { <<"idle", 0>>, <<"sema_up", idle_started>>,
                                  <<"block", 0>>, <<"hlt", 0>> }
         /\ bodies[Idle][1] \notin { <<"block", 0>>, <<"hlt", 0>> } => Tail(bodies[Idle]) # <<>>
         /\ bodies[Idle][1] = <<"hlt", 0>> => bodies[Idle] = << <<"hlt", 0>> >>
<1>1. bodies[Idle] \in
       { << <<"idle", 0>>, <<"sema_up", idle_started>>, <<"block", 0>> >>,
         << <<"sema_up", idle_started>>, <<"block", 0>> >>,
         << <<"block", 0>> >>, << <<"hlt", 0>> >> }
  BY DEF CallsInv, Shape, FormShape, Threads
<1>2. CASE bodies[Idle] = << <<"idle", 0>>, <<"sema_up", idle_started>>, <<"block", 0>> >>
  BY <1>2, TailThree
<1>3. CASE bodies[Idle] = << <<"sema_up", idle_started>>, <<"block", 0>> >>
  BY <1>3, TailTwo
<1>4. CASE bodies[Idle] = << <<"block", 0>> >>
  BY <1>4
<1>5. CASE bodies[Idle] = << <<"hlt", 0>> >>
  BY <1>5
<1> QED
  BY <1>1, <1>2, <1>3, <1>4, <1>5

LEMMA IdleShape ==
  /\ Shape(Idle, << <<"block", 0>> >>) /\ Shape(Idle, << <<"hlt", 0>> >>)
  /\ \A h : h[tid_lock] # Idle =>
       /\ Holding(h, Idle, << <<"block", 0>> >>) /\ Holding(h, Idle, << <<"hlt", 0>> >>)
<1>1. ASSUME NEW x \in { <<"block", 0>>, <<"hlt", 0>> }
      PROVE  /\ Shape(Idle, <<x>>)
             /\ \A h : h[tid_lock] # Idle => Holding(h, Idle, <<x>>)
  <2> DEFINE b == <<x>>
  <2>1. b \in Seq(Steps) /\ Len(b) = 1 /\ b[1] = x
    BY DEF Steps
  <2>2. FormShape(Idle, b)
    <3>1. b = << <<"block", 0>> >> \/ b = << <<"hlt", 0>> >>
      OBVIOUS
    <3> HIDE DEF b
    <3> QED
      BY <2>1, <3>1 DEF FormShape
  <2> HIDE DEF b
  <2>3. LockShape(b) /\ SleepShape(Idle, b) /\ StackShape(Idle, b)
    BY <2>1 DEF LockShape, SleepShape, StackShape
  <2>4. \A h : h[tid_lock] # Idle => Holding(h, Idle, b)
    BY <2>1 DEF Holding, AcquireHolding, CondHolding, TidHolding
  <2> QED
    BY <2>1, <2>2, <2>3, <2>4 DEF Shape, b
<1> QED
  BY <1>1

\* No lock is the idle thread's.
LEMMA IdleHolds ==
  ASSUME CallsInv
  PROVE  holder[tid_lock] # Idle
<1>1. bodies[Idle] \in
       { << <<"idle", 0>>, <<"sema_up", idle_started>>, <<"block", 0>> >>,
         << <<"sema_up", idle_started>>, <<"block", 0>> >>,
         << <<"block", 0>> >>, << <<"hlt", 0>> >> }
  BY DEF CallsInv, Shape, FormShape, Threads
<1>2. \A i \in 1..Len(bodies[Idle]) : bodies[Idle][i] # <<"dropped", tid_lock>>
  BY <1>1
<1> QED
  BY <1>2 DEF CallsInv, Holding, TidHolding, Threads

LEMMA DoneCalls ==
  ASSUME Types, CallsInv, NEW t \in Threads, NEW op, NEW arg, At(t, op, arg), Done(t),
         op \notin {"intr_enable", "taken", "dropped", "block", "hlt"}, holder' = holder
  PROVE  CallsInv' /\ bodies' = [bodies EXCEPT ![t] = Tail(bodies[t])]
<1>1. bodies[t] = call[t] /\ bodies[t] # <<>> /\ bodies[t][1] = <<op, arg>>
  BY AtBody
<1>2. bodies' = [bodies EXCEPT ![t] = Tail(bodies[t])]
  BY <1>1, BodyPopped
<1>3. t # Idle \/ Tail(bodies[t]) # <<>>
  BY <1>1, IdleBody
<1>4. \A l \in AllLocks : bodies[t][1] # <<"taken", l>> /\ bodies[t][1] # <<"dropped", l>>
  BY <1>1
<1>5. CallsInv'
  BY <1>1, <1>2, <1>3, <1>4, CallsPopped
<1> QED
  BY <1>2, <1>5

LEMMA DoneExcl ==
  ASSUME Types, CallsInv, Excl, NEW t \in Threads, NEW op, NEW arg, At(t, op, arg), Done(t),
         \/ op \notin {"intr_enable", "taken", "dropped", "sema_down", "sema_up", "sleep",
                       "block", "hlt"}
         \/ op \in {"sema_down", "sema_up"} /\ arg \notin Guarded,
         holder' = holder, \A s \in Guarded : value'[s] = value[s]
  PROVE  Excl'
<1>1. bodies[t] = call[t] /\ bodies[t] # <<>> /\ bodies[t][1] = <<op, arg>>
  BY AtBody
<1>2. bodies' = [bodies EXCEPT ![t] = Tail(bodies[t])]
  BY <1>1, BodyPopped
<1>3. Shape(t, bodies[t])
  BY DEF CallsInv
<1>4. ASSUME NEW s \in Guarded
      PROVE  ~InSection(bodies[t], s) /\ ~InSection(Tail(bodies[t]), s)
  <2>1. /\ bodies[t][1] # <<"sema_down", s>> /\ bodies[t][1] # <<"dropped", s>>
        /\ bodies[t][1] # <<"sleep", 0>> /\ bodies[t][1] # <<"taken", s>>
        /\ bodies[t][1] # <<"sema_up", s>>
    BY <1>1
  <2> QED
    BY <1>1, <1>3, <2>1, SectionTail DEF InSection
<1> QED
  BY <1>2, <1>4, ExclOutside

LEMMA DoneIntr ==
  ASSUME Types, CallsInv, NEW t \in Threads, NEW op, NEW arg, At(t, op, arg), Done(t),
         op # "intr_enable", current' = current
  PROVE  IntrInv'
<1>1. bodies[t] = call[t] /\ bodies[t] # <<>> /\ t = current
  BY AtBody
<1>2. bodies' = [bodies EXCEPT ![t] = Tail(bodies[t])]
  BY <1>1, BodyPopped
<1>3. bodies'[t] = Tail(call[t])
  BY <1>1, <1>2, BodySteps
<1>4. call'[t] = Tail(call[t])
  BY DEF Done, Types
<1> QED
  BY <1>1, <1>3, <1>4 DEF IntrInv

LEMMA FreeKept ==
  ASSUME Types, FreeInv, current' = current, \A v \in Threads \ {current} : call'[v] = call[v],
         \A v \in Threads : status'[v] = "FREE" => status[v] = "FREE"
  PROVE  FreeInv'
BY DEF FreeInv

LEMMA DoneFree ==
  ASSUME Types, FreeInv, NEW t \in Threads, t = current, Done(t), current' = current,
         \A v \in Threads : status'[v] = "FREE" => status[v] = "FREE"
  PROVE  FreeInv'
<1>1. \A v \in Threads \ {current} : call'[v] = call[v]
  BY DEF Done, Types
<1> QED
  BY <1>1, FreeKept

LEMMA DoneTypes ==
  ASSUME Types, CallsInv, NEW t \in Threads, call[t] # <<>>, Done(t)
  PROVE  call' \in [Threads -> Seq(Steps \cup {ie})]
<1>1. Tail(call[t]) \in Seq(Steps \cup {ie})
  BY DEF Types
<1> QED
  BY <1>1 DEF Done, Types

LEMMA SubTypes ==
  /\ Seq(Steps) \subseteq Seq(Steps \cup {ie})
  /\ \A b \in Seq(Steps) : <<ie>> \o b \in Seq(Steps \cup {ie})
<1>1. ASSUME NEW b \in Seq(Steps)
      PROVE  b \in Seq(Steps \cup {ie})
  <2>1. b \in [1..Len(b) -> Steps \cup {ie}]
    OBVIOUS
  <2>2. Len(b) \in Nat
    OBVIOUS
  <2> QED
    BY <2>1, <2>2, SeqDef
<1>2. ASSUME NEW b \in Seq(Steps)
      PROVE  <<ie>> \o b \in Seq(Steps \cup {ie})
  <2>1. <<ie>> \in Seq(Steps \cup {ie}) /\ b \in Seq(Steps \cup {ie})
    BY <1>1
  <2> QED
    BY <2>1
<1> QED
  BY <1>1, <1>2

(***************************************************************************)
(* CoreInv is inductive: one lemma per action.                             *)
(***************************************************************************)
LEMMA IntrEnableCore ==
  ASSUME CoreInv, UNCHANGED program, NEW t \in Threads, IntrEnable(t)
  PROVE  CoreInv' /\ bodies' = bodies
<1> USE DEF CoreInv
<1>0. UNCHANGED <<status, ready_list, current, thread_ticks, idle_thread, value, waiters,
                  holder, cond, sleeping_thread_list, due, created, failed, program>>
      /\ intr' = "ON"
  BY DEF IntrEnable, syncVars, sleepVars
<1>1. call[t] # <<>> /\ Head(call[t]) = ie /\ t = current /\ Done(t)
  BY DEF IntrEnable, At, ie
<1>2. bodies[t] = Tail(call[t]) /\ bodies[t] \in Seq(Steps)
  BY <1>1, BodySteps DEF bodies, Body, BodyOf
<1>3. call' = [call EXCEPT ![t] = bodies[t]]
  BY <1>1, <1>2 DEF Done, Types
<1>4. bodies' = bodies
  <2>1. bodies' = [bodies EXCEPT ![t] = bodies[t]]
    BY <1>2, <1>3, BodyStep
  <2> QED
    BY <2>1, BodySteps
<1>5. Types'
  <2>1. call' \in [Threads -> Seq(Steps \cup {ie})]
    BY <1>1, DoneTypes
  <2> QED
    BY <1>0, <2>1 DEF Types
<1>6. CallsInv'
  BY <1>0, <1>4 DEF CallsInv
<1>7. IntrInv'
  BY <1>0, <1>1, <1>3, <1>4 DEF IntrInv, Types
<1>8. FreeInv'
  BY <1>0, <1>1, DoneFree
<1>9. Excl'
  <2>1. \A s \in Guarded, v \in Threads : Owns(v, s)' <=> Owns(v, s)
    BY <1>0, <1>4 DEF Owns
  <2> QED
    BY <1>0, <2>1, ExclSame
<1> QED
  BY <1>4, <1>5, <1>6, <1>7, <1>8, <1>9

\* A thread that gives up the processor for a while.
LEMMA ThreadYieldCore ==
  ASSUME CoreInv, UNCHANGED program, NEW t \in Threads, ThreadYield(t)
  PROVE  CoreInv' /\ bodies' = [bodies EXCEPT ![t] = Tail(bodies[t])]
<1> USE DEF CoreInv
<1>0. UNCHANGED <<idle_thread, value, waiters, holder, cond, sleeping_thread_list, due,
                  created, program>>
  BY DEF ThreadYield, syncVars, sleepVars
<1>1. bodies[t] = call[t] /\ bodies[t] # <<>> /\ bodies[t][1] = <<"yield", 0>> /\ t = current
  BY AtBody DEF ThreadYield
<1> DEFINE d == Tail(bodies[t])
           stat == [status EXCEPT ![t] = "READY"]
           ready == IF t # idle_thread THEN Append(ready_list, t) ELSE ready_list
<1>2. d \in Seq(Steps)
  BY <1>1, BodySteps, TailEntries
<1>3. call' = [call EXCEPT ![t] = <<ie>> \o d]
  BY <1>1 DEF ThreadYield, Types, ie
<1>4. bodies' = [bodies EXCEPT ![t] = d]
  BY <1>2, <1>3, BodyStep
<1>5. stat \in [Threads -> Statuses] /\ ready \in Seq(Threads) /\ schedule(stat, ready)
  BY DEF ThreadYield, thread_yield, Types, Statuses
<1>6. /\ status' \in [Threads -> Statuses] /\ ready_list' \in Seq(Threads)
      /\ current' \in Threads /\ intr' \in {"ON", "OFF"}
      /\ thread_ticks' \in 0 .. TimeSlice - 1 /\ failed' \in BOOLEAN
      /\ ~failed' => intr' = "OFF"
      /\ \/ UNCHANGED <<status, current>>
         \/ \A v \in Threads : status'[v] = "FREE" =>
              /\ v # current'
              /\ \/ stat[v] = "FREE"
                 \/ v = current /\ stat[v] = "DYING" /\ v # Main
  BY <1>5, ScheduleStep
<1> HIDE DEF ready
<1>7. Types'
  <2>1. call' \in [Threads -> Seq(Steps \cup {ie})]
    BY <1>2, <1>3, SubTypes DEF Types
  <2> QED
    BY <1>0, <1>6, <2>1 DEF Types, Statuses
<1>8. CallsInv'
  <2>1. t # Idle
    BY <1>1, IdleBody
  <2>2. \A l \in AllLocks : bodies[t][1] # <<"taken", l>> /\ bodies[t][1] # <<"dropped", l>>
    BY <1>1
  <2> QED
    BY <1>0, <1>1, <1>4, <2>1, <2>2, CallsPopped
<1>9. IntrInv'
  BY <1>6 DEF IntrInv
<1>10. FreeInv'
  <2>1. \A v \in Threads : v # t => call'[v] = call[v]
    BY <1>3 DEF Types
  <2>2. status[t] # "FREE"
    BY <1>1 DEF FreeInv
  <2>3. \A v \in Threads : stat[v] = "FREE" => status[v] = "FREE" /\ v # t
    BY DEF Types
  <2>4. stat[t] = "READY"
    BY DEF Types
  <2> HIDE DEF stat
  <2> QED
    BY <1>1, <1>6, <2>1, <2>2, <2>3, <2>4 DEF FreeInv
<1>11. Excl'
  <2>1. Shape(t, bodies[t])
    BY DEF CallsInv
  <2>2. \A s \in Guarded : ~InSection(bodies[t], s) /\ ~InSection(d, s)
    BY <1>1, <2>1, SectionTail DEF InSection
  <2> HIDE DEF d
  <2> QED
    BY <1>0, <1>4, <2>2, ExclOutside
<1> QED
  BY <1>4, <1>7, <1>8, <1>9, <1>10, <1>11

LEMMA ScheduleFree ==
  ASSUME Types, FreeInv, NEW stat \in [Threads -> Statuses],
         \/ UNCHANGED <<status, current>>
         \/ \A v \in Threads : status'[v] = "FREE" =>
              /\ v # current'
              /\ \/ stat[v] = "FREE"
                 \/ v = current /\ stat[v] = "DYING" /\ v # Main,
         \A v \in Threads \ {current} : call'[v] = call[v],
         \A v \in Threads : stat[v] = "FREE" => status[v] = "FREE",
         stat[current] = "DYING" => current # Idle /\ call'[current] = <<>>
  PROVE  FreeInv'
<1> SUFFICES ASSUME NEW v \in Threads, status'[v] = "FREE"
             PROVE  v # current' /\ v \in Others /\ call'[v] = <<>>
  BY DEF FreeInv
<1>1. CASE UNCHANGED <<status, current>>
  BY <1>1 DEF FreeInv
<1>2. CASE /\ v # current'
           /\ \/ stat[v] = "FREE"
              \/ v = current /\ stat[v] = "DYING" /\ v # Main
  <2>1. CASE stat[v] = "FREE"
    BY <1>2, <2>1 DEF FreeInv
  <2>2. CASE v = current /\ stat[v] = "DYING" /\ v # Main
    BY <1>2, <2>2 DEF Threads
  <2> QED
    BY <1>2, <2>1, <2>2
<1> QED
  BY <1>1, <1>2

\* A step that is no concern of any lock and leaves the processor where it is.
LEMMA DoneCore ==
  ASSUME CoreInv, NEW t \in Threads, NEW op, NEW arg, At(t, op, arg), Done(t),
         op \notin {"intr_enable", "taken", "dropped", "sleep", "block", "hlt"},
         op \in {"sema_down", "sema_up"} => arg \notin Guarded,
         UNCHANGED <<holder, current>>, \A s \in Guarded : value'[s] = value[s],
         \A v \in Threads : status'[v] = "FREE" => status[v] = "FREE"
  PROVE  /\ call' \in [Threads -> Seq(Steps \cup {ie})]
         /\ CallsInv' /\ IntrInv' /\ FreeInv' /\ Excl'
         /\ bodies' = [bodies EXCEPT ![t] = Tail(bodies[t])]
<1> USE DEF CoreInv
<1>1. t = current /\ call[t] # <<>>
  BY DEF At
<1>2. CallsInv' /\ bodies' = [bodies EXCEPT ![t] = Tail(bodies[t])]
  BY DoneCalls
<1>3. Excl'
  <2>1. CASE op \in {"sema_down", "sema_up"}
    BY <2>1, DoneExcl
  <2>2. CASE op \notin {"sema_down", "sema_up"}
    BY <2>2, DoneExcl
  <2> QED
    BY <2>1, <2>2
<1>4. IntrInv'
  BY DoneIntr
<1>5. FreeInv'
  BY <1>1, DoneFree
<1>6. call' \in [Threads -> Seq(Steps \cup {ie})]
  BY <1>1, DoneTypes
<1> QED
  BY <1>2, <1>3, <1>4, <1>5, <1>6

LEMMA ThreadExitCore ==
  ASSUME CoreInv, UNCHANGED program, NEW t \in Threads, ThreadExit(t)
  PROVE  CoreInv' /\ bodies' = [bodies EXCEPT ![t] = <<>>]
<1> USE DEF CoreInv
<1>0. UNCHANGED <<idle_thread, value, waiters, holder, cond, sleeping_thread_list, due,
                  created, program>>
  BY DEF ThreadExit, syncVars, sleepVars
<1>1. bodies[t] = call[t] /\ bodies[t] # <<>> /\ bodies[t][1] = <<"exit", 0>> /\ t = current
  BY AtBody DEF ThreadExit
<1> DEFINE stat == [status EXCEPT ![t] = "DYING"]
<1>2. Tail(bodies[t]) = <<>>
  <2>1. 1 \in 1..Len(bodies[t]) /\ bodies[t] \in Seq(Steps)
    BY <1>1, BodySteps, TailEntries
  <2>2. Len(bodies[t]) = 1
    BY <1>1, <2>1 DEF CallsInv, Shape, FormShape
  <2>3. Tail(bodies[t]) \in Seq(Steps) /\ Len(Tail(bodies[t])) = 0
    BY <1>1, <2>1, <2>2, TailEntries
  <2> QED
    BY <2>3, EmptySeq
<1>3. call' = [call EXCEPT ![t] = <<>>] /\ t # Idle /\ Done(t)
  <2>1. t # Idle
    BY <1>1, IdleBody
  <2>2. Done(t)
    BY DEF ThreadExit
  <2>3. Tail(call[t]) = <<>>
    BY <1>1, <1>2
  <2> QED
    BY <2>1, <2>2, <2>3 DEF Done, Types
<1>4. bodies' = [bodies EXCEPT ![t] = <<>>]
  BY <1>1, <1>2, <1>3, BodyPopped
<1>5. stat \in [Threads -> Statuses] /\ schedule(stat, ready_list)
  BY DEF ThreadExit, Types, Statuses
<1>6. /\ status' \in [Threads -> Statuses] /\ ready_list' \in Seq(Threads)
      /\ current' \in Threads /\ intr' \in {"ON", "OFF"}
      /\ thread_ticks' \in 0 .. TimeSlice - 1 /\ failed' \in BOOLEAN
      /\ ~failed' => intr' = "OFF"
      /\ \/ UNCHANGED <<status, current>>
         \/ \A v \in Threads : status'[v] = "FREE" =>
              /\ v # current'
              /\ \/ stat[v] = "FREE"
                 \/ v = current /\ stat[v] = "DYING" /\ v # Main
  BY <1>5, ScheduleStep DEF Types
<1>7. Types'
  <2>1. call' \in [Threads -> Seq(Steps \cup {ie})]
    BY <1>1, <1>3, DoneTypes
  <2> QED
    BY <1>0, <1>6, <2>1 DEF Types, Statuses
<1>8. CallsInv'
  <2>2. \A l \in AllLocks : bodies[t][1] # <<"taken", l>> /\ bodies[t][1] # <<"dropped", l>>
    BY <1>1
  <2> QED
    BY <1>0, <1>1, <1>2, <1>3, <1>4, <2>2, CallsPopped
<1>9. IntrInv'
  BY <1>6 DEF IntrInv
<1>10. FreeInv'
  <2>1. \A v \in Threads \ {current} : call'[v] = call[v]
    BY <1>1, <1>3 DEF Types
  <2>2. call'[current] = <<>>
    BY <1>1, <1>3 DEF Types
  <2>3. \A v \in Threads : stat[v] = "FREE" => status[v] = "FREE"
    BY DEF Types
  <2> HIDE DEF stat
  <2> QED
    BY <1>1, <1>3, <1>5, <1>6, <2>1, <2>2, <2>3, ScheduleFree
<1>11. Excl'
  <2>1. Shape(t, bodies[t])
    BY DEF CallsInv
  <2>2. \A s \in Guarded : ~InSection(bodies[t], s) /\ ~InSection(<<>>, s)
    BY <1>1, <2>1 DEF InSection
  <2> QED
    BY <1>0, <1>4, <2>2, ExclOutside
<1> QED
  BY <1>4, <1>7, <1>8, <1>9, <1>10, <1>11

LEMMA IdleStartsCore ==
  ASSUME CoreInv, UNCHANGED program, IdleStarts
  PROVE  CoreInv' /\ bodies' = [bodies EXCEPT ![Idle] = Tail(bodies[Idle])]
<1> USE DEF CoreInv
<1>0. /\ UNCHANGED <<status, ready_list, current, intr, thread_ticks, value, waiters,
                     holder, cond, sleeping_thread_list, due, created, failed, program>>
      /\ idle_thread' = Idle /\ At(Idle, "idle", 0) /\ Done(Idle)
  BY DEF IdleStarts, syncVars, sleepVars, schedVars
<1>1. Idle \in Threads
  BY DEF Threads
<1>2. /\ call' \in [Threads -> Seq(Steps \cup {ie})]
      /\ CallsInv' /\ IntrInv' /\ FreeInv' /\ Excl'
      /\ bodies' = [bodies EXCEPT ![Idle] = Tail(bodies[Idle])]
  BY <1>0, <1>1, DoneCore
<1>3. Types'
  BY <1>0, <1>2 DEF Types
<1> QED
  BY <1>2, <1>3

LEMMA IdleBlocksCore ==
  ASSUME CoreInv, UNCHANGED program, IdleBlocks
  PROVE  CoreInv' /\ bodies' = [bodies EXCEPT ![Idle] = << <<"hlt", 0>> >>]
<1> USE DEF CoreInv
<1> DEFINE t == Idle
           d == << <<"hlt", 0>> >>
           stat == [status EXCEPT ![t] = "BLOCKED"]
<1>0. UNCHANGED <<idle_thread, value, waiters, holder, cond, sleeping_thread_list, due,
                  created, program>>
  BY DEF IdleBlocks, syncVars, sleepVars
<1>00. t \in Threads
  BY DEF Threads
<1>1. bodies[t] = call[t] /\ bodies[t] # <<>> /\ bodies[t][1] = <<"block", 0>> /\ t = current
  BY <1>00, AtBody DEF IdleBlocks
<1>2. d \in Seq(Steps)
  BY DEF Steps
<1>3. call' = [call EXCEPT ![t] = <<ie>> \o d]
  <2>1. <<ie>> \o << <<"hlt", 0>> >> = << ie, <<"hlt", 0>> >>
    <3>1. ie \in Steps \cup {ie} /\ <<"hlt", 0>> \in Steps \cup {ie}
      BY DEF Steps
    <3> QED
      BY <3>1, ConcatTwo
  <2> QED
    BY <2>1 DEF IdleBlocks, ie
<1>4. bodies' = [bodies EXCEPT ![t] = d]
  BY <1>00, <1>2, <1>3, BodyStep
<1>5. stat \in [Threads -> Statuses] /\ schedule(stat, ready_list)
  BY DEF IdleBlocks, thread_block, Types, Statuses
<1>6. /\ status' \in [Threads -> Statuses] /\ ready_list' \in Seq(Threads)
      /\ current' \in Threads /\ intr' \in {"ON", "OFF"}
      /\ thread_ticks' \in 0 .. TimeSlice - 1 /\ failed' \in BOOLEAN
      /\ ~failed' => intr' = "OFF"
      /\ \/ UNCHANGED <<status, current>>
         \/ \A v \in Threads : status'[v] = "FREE" =>
              /\ v # current'
              /\ \/ stat[v] = "FREE"
                 \/ v = current /\ stat[v] = "DYING" /\ v # Main
  BY <1>5, ScheduleStep DEF Types
<1>7. Types'
  <2>1. call' \in [Threads -> Seq(Steps \cup {ie})]
    BY <1>00, <1>2, <1>3, SubTypes DEF Types
  <2> QED
    BY <1>0, <1>6, <2>1 DEF Types, Statuses
<1>8. CallsInv'
  <2>1. Shape(t, d) /\ Holding(holder', t, d)
    BY <1>0, IdleShape, IdleHolds
  <2> HIDE DEF d
  <2> QED
    BY <1>0, <1>00, <1>4, <2>1, CallsKept
<1>9. IntrInv'
  BY <1>6 DEF IntrInv
<1>10. FreeInv'
  <2>1. \A v \in Threads \ {current} : call'[v] = call[v]
    BY <1>1, <1>3 DEF Types
  <2>3. \A v \in Threads : stat[v] = "FREE" => status[v] = "FREE"
    BY DEF Types
  <2>4. stat[current] # "DYING"
    BY <1>00, <1>1 DEF Types
  <2> HIDE DEF stat
  <2> QED
    BY <1>5, <1>6, <2>1, <2>3, <2>4, ScheduleFree
<1>11. Excl'
  <2>2. \A s \in Guarded : ~InSection(bodies[t], s) /\ ~InSection(d, s)
    BY <1>1 DEF InSection
  <2> HIDE DEF d
  <2> QED
    BY <1>0, <1>00, <1>4, <2>2, ExclOutside
<1> QED
  BY <1>4, <1>7, <1>8, <1>9, <1>10, <1>11

\* sema_down: the semaphore is taken.
LEMMA SemaTakenCore ==
  ASSUME CoreInv, UNCHANGED program, NEW t \in Threads, NEW s \in Semas,
         At(t, "sema_down", s), value[s] > 0, value' = [value EXCEPT ![s] = @ - 1],
         intr' = "ON", Done(t),
         UNCHANGED <<status, ready_list, current, thread_ticks, waiters, failed,
                     idle_thread, holder, cond, sleepVars, created>>
  PROVE  CoreInv' /\ bodies' = [bodies EXCEPT ![t] = Tail(bodies[t])]
<1> USE DEF CoreInv
<1>0. UNCHANGED <<sleeping_thread_list, due>>
  BY DEF sleepVars
<1>1. /\ bodies[t] = call[t] /\ bodies[t] # <<>> /\ bodies[t][1] = <<"sema_down", s>>
      /\ t = current
  BY AtBody
<1>2. CallsInv' /\ bodies' = [bodies EXCEPT ![t] = Tail(bodies[t])]
  BY DoneCalls
<1>3. Types'
  <2>1. call' \in [Threads -> Seq(Steps \cup {ie})]
    BY <1>1, DoneTypes
  <2>2. value' \in [Semas -> Nat]
    BY DEF Types
  <2> QED
    BY <1>0, <2>1, <2>2 DEF Types
<1>4. IntrInv'
  BY DoneIntr
<1>5. FreeInv'
  BY <1>1, DoneFree
<1>6. Excl'
  <2>1. CASE s \notin Guarded
    <3>1. \A r \in Guarded : value'[r] = value[r]
      BY <2>1 DEF Types
    <3> QED
      BY <2>1, <3>1, DoneExcl
  <2>2. CASE s \in Guarded
    <3>0. bodies \in [Threads -> Seq(Steps)] /\ Shape(t, bodies[t])
      BY BodySteps DEF CallsInv
    <3> DEFINE d == Tail(bodies[t])
    <3>1. \A r \in Guarded : ~InSection(bodies[t], r) /\ (InSection(d, r) <=> r = s)
      <4> TAKE r \in Guarded
      <4>1. ~InSection(bodies[t], r)
        BY <1>1 DEF InSection
      <4>2. InSection(d, r) => r = s
        BY <1>1, <3>0, SectionTail
      <4>3. InSection(d, s)
        BY <1>1, <2>2, <3>0, SectionTail
      <4> QED
        BY <4>1, <4>2, <4>3
    <3> HIDE DEF d
    <3>2. bodies'[t] = d /\ \A v \in Threads \ {t} : bodies'[v] = bodies[v]
      BY <1>2, <3>0 DEF d
    <3>3. value[s] = 1 /\ \A v \in Threads : ~Owns(v, s)
      BY <2>2 DEF Excl, Owned
    <3>4. value'[s] = 0 /\ \A r \in Guarded \ {s} : value'[r] = value[r]
      <4>1. s \in Semas /\ value' = [value EXCEPT ![s] = value[s] - 1]
        OBVIOUS
      <4> QED
        BY <3>3, <4>1 DEF Types
    <3>5. Owned(s)'
      <4>1. Owns(t, s)'
        BY <2>2, <3>1, <3>2 DEF Owns
      <4>2. \A v \in Threads : Owns(v, s)' => v = t
        BY <3>2, <3>3 DEF Owns
      <4> QED
        BY <3>4, <4>1, <4>2 DEF Owned
    <3>6. ASSUME NEW r \in Guarded, r # s
          PROVE  Owned(r)'
      <4>1. \A v \in Threads : Owns(v, r)' <=> Owns(v, r)
        BY <3>1, <3>2, <3>6 DEF Owns
      <4>2. Owned(r)
        BY DEF Excl
      <4> QED
        BY <3>4, <3>6, <4>1, <4>2 DEF Owned
    <3> QED
      BY <3>5, <3>6 DEF Excl
  <2> QED
    BY <2>1, <2>2
<1> QED
  BY <1>2, <1>3, <1>4, <1>5, <1>6

\* sema_down: the thread waits.
LEMMA SemaWaitsCore ==
  ASSUME CoreInv, UNCHANGED program, NEW t \in Threads, NEW s \in Semas,
         At(t, "sema_down", s), waiters' = [waiters EXCEPT ![s] = Append(@, t)],
         thread_block(t),
         UNCHANGED <<value, call, idle_thread, holder, cond, sleepVars, created>>
  PROVE  CoreInv' /\ bodies' = bodies
<1> USE DEF CoreInv
<1>0. UNCHANGED <<sleeping_thread_list, due>>
  BY DEF sleepVars
<1>1. t = current
  BY AtBody
<1>2. bodies' = bodies
  BY BodySame
<1> DEFINE stat == [status EXCEPT ![t] = "BLOCKED"]
<1>5. stat \in [Threads -> Statuses] /\ schedule(stat, ready_list)
  BY DEF thread_block, Types, Statuses
<1>6. /\ status' \in [Threads -> Statuses] /\ ready_list' \in Seq(Threads)
      /\ current' \in Threads /\ intr' \in {"ON", "OFF"}
      /\ thread_ticks' \in 0 .. TimeSlice - 1 /\ failed' \in BOOLEAN
      /\ ~failed' => intr' = "OFF"
      /\ \/ UNCHANGED <<status, current>>
         \/ \A v \in Threads : status'[v] = "FREE" =>
              /\ v # current'
              /\ \/ stat[v] = "FREE"
                 \/ v = current /\ stat[v] = "DYING" /\ v # Main
  BY <1>5, ScheduleStep DEF Types
<1>7. Types'
  <2>1. waiters' \in [Semas -> Seq(Threads)]
    <3>1. Append(waiters[s], t) \in Seq(Threads)
      BY DEF Types
    <3> QED
      BY <3>1 DEF Types
  <2> QED
    BY <1>0, <1>6, <2>1 DEF Types, Statuses
<1>8. CallsInv'
  BY <1>2 DEF CallsInv
<1>9. IntrInv'
  BY <1>6 DEF IntrInv
<1>10. FreeInv'
  <2>3. \A v \in Threads : stat[v] = "FREE" => status[v] = "FREE"
    BY DEF Types
  <2>4. stat[current] # "DYING"
    BY <1>1 DEF Types
  <2> HIDE DEF stat
  <2> QED
    BY <1>5, <1>6, <2>3, <2>4, ScheduleFree
<1>11. Excl'
  <2>1. \A r \in Guarded, v \in Threads : Owns(v, r)' <=> Owns(v, r)
    BY <1>2 DEF Owns
  <2> QED
    BY <2>1, ExclSame
<1> QED
  BY <1>2, <1>7, <1>8, <1>9, <1>10, <1>11

LEMMA SequenceRest ==
  ASSUME NEW S, NEW list \in Seq(S)
  PROVE  first(list) \in Seq(S) /\ rest(list) \in Seq(S)
BY DEF first, rest

LEMMA SemaUpCore ==
  ASSUME CoreInv, UNCHANGED program, NEW t \in Threads, NEW s \in Semas, SemaUp(t, s)
  PROVE  CoreInv' /\ bodies' = [bodies EXCEPT ![t] = Tail(bodies[t])]
<1> USE DEF CoreInv
<1> DEFINE woken == first(waiters[s])
<1>0. /\ At(t, "sema_up", s) /\ value' = [value EXCEPT ![s] = @ + 1]
      /\ waiters' = [waiters EXCEPT ![s] = rest(@)] /\ status' = unblock(status, woken)
      /\ ready_list' = ready_list \o woken /\ failed' = unblock_fails(woken) /\ Done(t)
      /\ UNCHANGED <<current, intr, thread_ticks, idle_thread, holder, cond,
                     sleeping_thread_list, due, created>>
  BY DEF SemaUp, sleepVars
<1>1. /\ bodies[t] = call[t] /\ bodies[t] # <<>> /\ bodies[t][1] = <<"sema_up", s>>
      /\ t = current
  BY <1>0, AtBody
<1>2. CallsInv' /\ bodies' = [bodies EXCEPT ![t] = Tail(bodies[t])]
  BY <1>0, DoneCalls
<1>3. Types'
  <2>1. call' \in [Threads -> Seq(Steps \cup {ie})]
    BY <1>0, <1>1, DoneTypes
  <2>2. value' \in [Semas -> Nat]
    BY <1>0 DEF Types
  <2>3. woken \in Seq(Threads) /\ rest(waiters[s]) \in Seq(Threads)
    BY SequenceRest DEF Types
  <2>4. waiters' \in [Semas -> Seq(Threads)]
    BY <1>0, <2>3 DEF Types
  <2>5. status' \in [Threads -> Statuses]
    BY <1>0 DEF unblock, Types, Statuses
  <2>6. ready_list' \in Seq(Threads)
    BY <1>0, <2>3 DEF Types
  <2>7. failed' \in BOOLEAN
    BY <1>0 DEF unblock_fails
  <2> HIDE DEF woken
  <2> QED
    BY <1>0, <2>1, <2>2, <2>4, <2>5, <2>6, <2>7 DEF Types, Statuses
<1>4. IntrInv'
  BY <1>0, DoneIntr
<1>5. FreeInv'
  <2>1. \A v \in Threads : status'[v] = "FREE" => status[v] = "FREE"
    BY <1>0 DEF unblock
  <2> QED
    BY <1>0, <1>1, <2>1, DoneFree
<1>6. Excl'
  <2>1. CASE s \notin Guarded
    <3>1. \A r \in Guarded : value'[r] = value[r]
      BY <1>0, <2>1 DEF Types
    <3> QED
      BY <1>0, <2>1, <3>1, DoneExcl
  <2>2. CASE s \in Guarded
    <3>0. bodies \in [Threads -> Seq(Steps)] /\ Shape(t, bodies[t])
          /\ Holding(holder, t, bodies[t])
      BY BodySteps DEF CallsInv
    <3> DEFINE d == Tail(bodies[t])
    <3>1. \A r \in Guarded : ~InSection(d, r) /\ (InSection(bodies[t], r) <=> r = s)
      <4> TAKE r \in Guarded
      <4>1. InSection(bodies[t], r) => r = s
        BY <1>1 DEF InSection
      <4>2. ~InSection(d, r)
        BY <1>1, <3>0, SectionTail
      <4>3. InSection(bodies[t], s)
        BY <1>1 DEF InSection
      <4> QED
        BY <4>1, <4>2, <4>3
    <3> HIDE DEF d
    <3>2. bodies'[t] = d /\ \A v \in Threads \ {t} : bodies'[v] = bodies[v]
      BY <1>2, <3>0 DEF d
    <3>3. value[s] = 0 /\ \A v \in Threads : Owns(v, s) => v = t
      <4>1. Owns(t, s)
        BY <2>2, <3>1 DEF Owns
      <4> QED
        BY <2>2, <4>1 DEF Excl, Owned
    <3>4. value'[s] = 1 /\ \A r \in Guarded \ {s} : value'[r] = value[r]
      <4>1. s \in Semas /\ value' = [value EXCEPT ![s] = value[s] + 1]
        BY <1>0
      <4> QED
        BY <3>3, <4>1 DEF Types
    <3>5. Owned(s)'
      <4>0. s \in AllLocks => holder[s] # t
        <5>1. 1 \in 1..Len(bodies[t])
          BY <1>1, <3>0, TailEntries
        <5> QED
          BY <1>1, <3>0, <5>1 DEF Holding, AcquireHolding
      <4>1. ~Owns(t, s)'
        BY <1>0, <2>2, <3>1, <3>2, <4>0 DEF Owns
      <4>2. \A v \in Threads : v # t => ~Owns(v, s)'
        BY <1>0, <3>2, <3>3 DEF Owns
      <4> QED
        BY <3>4, <4>1, <4>2 DEF Owned
    <3>6. ASSUME NEW r \in Guarded, r # s
          PROVE  Owned(r)'
      <4>1. \A v \in Threads : Owns(v, r)' <=> Owns(v, r)
        BY <1>0, <3>1, <3>2, <3>6 DEF Owns
      <4>2. Owned(r)
        BY DEF Excl
      <4> QED
        BY <3>4, <3>6, <4>1, <4>2 DEF Owned
    <3> QED
      BY <3>5, <3>6 DEF Excl
  <2> QED
    BY <2>1, <2>2
<1> QED
  BY <1>2, <1>3, <1>4, <1>5, <1>6

LEMMA SemaDownCore ==
  ASSUME CoreInv, UNCHANGED program, NEW t \in Threads, NEW s \in Semas, SemaDown(t, s)
  PROVE  /\ CoreInv'
         /\ bodies' = bodies \/ bodies' = [bodies EXCEPT ![t] = Tail(bodies[t])]
<1>1. At(t, "sema_down", s) /\ UNCHANGED <<idle_thread, holder, cond, sleepVars, created>>
  BY DEF SemaDown
<1>2. CASE /\ value[s] > 0
           /\ value' = [value EXCEPT ![s] = @ - 1]
           /\ intr' = "ON"
           /\ Done(t)
           /\ UNCHANGED <<status, ready_list, current, thread_ticks, waiters, failed>>
  BY <1>1, <1>2, SemaTakenCore
<1>3. CASE /\ value[s] = 0
           /\ waiters' = [waiters EXCEPT ![s] = Append(@, t)]
           /\ thread_block(t)
           /\ UNCHANGED <<value, call>>
  BY <1>1, <1>3, SemaWaitsCore
<1> QED
  BY <1>2, <1>3 DEF SemaDown

LEMMA LockTakenCore ==
  ASSUME CoreInv, UNCHANGED program, NEW t \in Threads, NEW l \in AllLocks, LockTaken(t, l)
  PROVE  CoreInv' /\ bodies' = [bodies EXCEPT ![t] = Tail(bodies[t])]
<1> USE DEF CoreInv
<1>0. /\ At(t, "taken", l) /\ holder' = [holder EXCEPT ![l] = t] /\ Done(t)
      /\ UNCHANGED <<status, ready_list, current, intr, thread_ticks, idle_thread, value,
                     waiters, cond, sleeping_thread_list, due, created, failed>>
  BY DEF LockTaken, schedVars, sleepVars
<1>1. /\ bodies[t] = call[t] /\ bodies[t] # <<>> /\ bodies[t][1] = <<"taken", l>>
      /\ t = current
  BY <1>0, AtBody
<1> DEFINE d == Tail(bodies[t])
<1>2. bodies' = [bodies EXCEPT ![t] = d]
  BY <1>0, <1>1, BodyPopped
<1>3. bodies \in [Threads -> Seq(Steps)] /\ Shape(t, bodies[t]) /\ Holding(holder, t, bodies[t])
      /\ holder \in [AllLocks -> Threads \cup {NULL}]
  BY BodySteps DEF CallsInv, Types
<1>4. Owns(t, l) /\ l \in Guarded
  BY <1>1 DEF Owns, InSection, Guarded
<1>5. \A v \in Threads \ {t} : holder[l] # v
  BY <1>4 DEF Excl, Owned, Owns
<1>6. Types'
  <2>1. call' \in [Threads -> Seq(Steps \cup {ie})]
    BY <1>0, <1>1, DoneTypes
  <2>2. holder' \in [AllLocks -> Threads \cup {NULL}]
    BY <1>0, <1>3
  <2> QED
    BY <1>0, <2>1, <2>2 DEF Types
<1>7. CallsInv'
  <2>1. Shape(t, d)
    BY <1>1, <1>3, IdleBody, ShapeTail
  <2>2. Holding(holder', t, d)
    BY <1>0, <1>1, <1>3, HoldingTaken
  <2>3. \A v \in Threads \ {t}, m \in AllLocks : holder'[m] = v <=> holder[m] = v
    BY <1>0, <1>3, <1>5
  <2> HIDE DEF d
  <2> QED
    BY <1>2, <2>1, <2>2, <2>3, CallsKept
<1>8. IntrInv'
  BY <1>0, DoneIntr
<1>9. FreeInv'
  BY <1>0, <1>1, DoneFree
<1>10. Excl'
  <2>1. \A r \in Guarded : ~InSection(d, r) /\ (InSection(bodies[t], r) <=> r = l)
    <3> TAKE r \in Guarded
    <3>1. InSection(bodies[t], r) <=> r = l
      BY <1>1 DEF InSection
    <3>2. ~InSection(d, r)
      BY <1>1, <1>3, SectionTail
    <3> QED
      BY <3>1, <3>2
  <2> HIDE DEF d
  <2>2. bodies'[t] = d /\ \A v \in Threads \ {t} : bodies'[v] = bodies[v]
    BY <1>2, <1>3
  <2>3. holder'[l] = t /\ \A m \in AllLocks \ {l} : holder'[m] = holder[m]
    BY <1>0, <1>3
  <2>4. ASSUME NEW r \in Guarded, NEW v \in Threads
        PROVE  Owns(v, r)' <=> Owns(v, r)
    <3>1. CASE v = t
      BY <1>4, <2>1, <2>2, <2>3, <3>1 DEF Owns
    <3>2. CASE v # t
      BY <1>5, <2>2, <2>3, <3>2 DEF Owns
    <3> QED
      BY <3>1, <3>2
  <2> QED
    BY <1>0, <2>4, ExclSame
<1> QED
  BY <1>2, <1>6, <1>7, <1>8, <1>9, <1>10

\* The ASSERT of lock_release holds.
LEMMA LockDroppedCore ==
  ASSUME CoreInv, UNCHANGED program, NEW t \in Threads, NEW l \in AllLocks, LockDropped(t, l)
  PROVE  /\ CoreInv' /\ bodies' = [bodies EXCEPT ![t] = Tail(bodies[t])]
         /\ holder[l] = t
<1> USE DEF CoreInv
<1>0. /\ At(t, "dropped", l) /\ failed' = (holder[l] # t)
      /\ holder' = [holder EXCEPT ![l] = NULL] /\ Done(t)
      /\ UNCHANGED <<status, ready_list, current, intr, thread_ticks, idle_thread, value,
                     waiters, cond, sleeping_thread_list, due, created>>
  BY DEF LockDropped, schedVars, sleepVars
<1>1. /\ bodies[t] = call[t] /\ bodies[t] # <<>> /\ bodies[t][1] = <<"dropped", l>>
      /\ t = current
  BY <1>0, AtBody
<1> DEFINE d == Tail(bodies[t])
<1>2. bodies' = [bodies EXCEPT ![t] = d]
  BY <1>0, <1>1, BodyPopped
<1>3. bodies \in [Threads -> Seq(Steps)] /\ Shape(t, bodies[t]) /\ Holding(holder, t, bodies[t])
      /\ holder \in [AllLocks -> Threads \cup {NULL}]
  BY BodySteps DEF CallsInv, Types
<1>4. holder[l] = t
  <2>1. 1 \in 1..Len(bodies[t]) /\ ~(1 > 1)
    BY <1>1, <1>3, TailEntries
  <2> QED
    BY <1>1, <1>3, <2>1 DEF Holding, AcquireHolding
<1>5. NULL \notin Threads
  BY ThreadsAssumption
<1>6. Types'
  <2>1. call' \in [Threads -> Seq(Steps \cup {ie})]
    BY <1>0, <1>1, DoneTypes
  <2>2. holder' \in [AllLocks -> Threads \cup {NULL}]
    BY <1>0, <1>3
  <2>3. failed' \in BOOLEAN
    BY <1>0
  <2> QED
    BY <1>0, <2>1, <2>2, <2>3 DEF Types
<1>7. CallsInv'
  <2>1. Shape(t, d)
    BY <1>1, <1>3, IdleBody, ShapeTail
  <2>2. Holding(holder', t, d)
    BY <1>0, <1>1, <1>3, HoldingDropped
  <2>3. \A v \in Threads \ {t}, m \in AllLocks : holder'[m] = v <=> holder[m] = v
    BY <1>0, <1>3, <1>4, <1>5
  <2> HIDE DEF d
  <2> QED
    BY <1>2, <2>1, <2>2, <2>3, CallsKept
<1>8. IntrInv'
  BY <1>0, DoneIntr
<1>9. FreeInv'
  BY <1>0, <1>1, DoneFree
<1>10. Excl'
  <2>1. \A r \in Guarded : ~InSection(bodies[t], r) /\ (InSection(d, r) <=> r = l)
    <3> TAKE r \in Guarded
    <3>1. ~InSection(bodies[t], r)
      BY <1>1 DEF InSection
    <3>2. InSection(d, r) => r = l
      BY <1>1, <1>3, SectionTail
    <3>3. l \in Guarded
      BY DEF Guarded
    <3>4. InSection(d, l)
      BY <1>1, <1>3, <3>3, SectionTail
    <3> QED
      BY <3>1, <3>2, <3>4
  <2> HIDE DEF d
  <2>2. bodies'[t] = d /\ \A v \in Threads \ {t} : bodies'[v] = bodies[v]
    BY <1>2, <1>3
  <2>3. holder'[l] = NULL /\ \A m \in AllLocks \ {l} : holder'[m] = holder[m]
    BY <1>0, <1>3
  <2>4. ASSUME NEW r \in Guarded, NEW v \in Threads
        PROVE  Owns(v, r)' <=> Owns(v, r)
    <3>1. CASE v = t
      BY <1>4, <2>1, <2>2, <2>3, <3>1 DEF Owns
    <3>2. CASE v # t
      BY <1>4, <1>5, <2>2, <2>3, <3>2 DEF Owns
    <3> QED
      BY <3>1, <3>2
  <2> QED
    BY <1>0, <2>4, ExclSame
<1> QED
  BY <1>2, <1>4, <1>6, <1>7, <1>8, <1>9, <1>10

LEMMA ThreadNotGuarded ==
  ASSUME NEW t \in Threads
  PROVE  t \notin Guarded /\ t \in Semas /\ t \notin AllLocks
BY SemasAssumption DEF Guarded, Semas

LEMMA CondQueueCore ==
  ASSUME CoreInv, UNCHANGED program, NEW t \in Threads, NEW c \in Conds, CondQueue(t, c)
  PROVE  CoreInv' /\ bodies' = [bodies EXCEPT ![t] = Tail(bodies[t])]
<1> USE DEF CoreInv
<1>0. /\ At(t, "cond_queue", c) /\ value' = [value EXCEPT ![t] = 0]
      /\ waiters' = [waiters EXCEPT ![t] = <<>>]
      /\ cond' = [cond EXCEPT ![c] = Append(@, t)] /\ Done(t)
      /\ UNCHANGED <<status, ready_list, current, intr, thread_ticks, idle_thread, holder,
                     sleeping_thread_list, due, created, failed>>
  BY DEF CondQueue, schedVars, sleepVars
<1>1. \A r \in Guarded : value'[r] = value[r]
  BY <1>0, ThreadNotGuarded DEF Types
<1>2. /\ call' \in [Threads -> Seq(Steps \cup {ie})]
      /\ CallsInv' /\ IntrInv' /\ FreeInv' /\ Excl'
      /\ bodies' = [bodies EXCEPT ![t] = Tail(bodies[t])]
  BY <1>0, <1>1, DoneCore
<1>3. Types'
  <2>1. value' \in [Semas -> Nat] /\ waiters' \in [Semas -> Seq(Threads)]
    <3>1. <<>> \in Seq(Threads)
      OBVIOUS
    <3> QED
      BY <1>0, <3>1 DEF Types
  <2>2. cond' \in [Conds -> Seq(Threads)]
    <3>1. Append(cond[c], t) \in Seq(Threads)
      BY DEF Types
    <3> QED
      BY <1>0, <3>1 DEF Types
  <2> QED
    BY <1>0, <1>2, <2>1, <2>2 DEF Types
<1> QED
  BY <1>2, <1>3

SignalledBody(t, c) ==
  (IF cond[c] = <<>> THEN <<>> ELSE << <<"sema_up", cond[c][1]>> >>) \o Tail(bodies[t])

LEMMA CondSignalCore ==
  ASSUME CoreInv, UNCHANGED program, NEW t \in Threads, NEW c \in Conds, CondSignal(t, c)
  PROVE  /\ CoreInv' /\ bodies' = [bodies EXCEPT ![t] = SignalledBody(t, c)]
         /\ holder[LockOf[c]] = t
<1> USE DEF CoreInv
<1>0. /\ At(t, "cond_signal", c) /\ failed' = (holder[LockOf[c]] # t)
      /\ cond' = [cond EXCEPT ![c] = rest(@)]
      /\ UNCHANGED <<status, ready_list, current, intr, thread_ticks, idle_thread, value,
                     waiters, holder, sleeping_thread_list, due, created>>
  BY DEF CondSignal, schedVars, sleepVars
<1>1. /\ bodies[t] = call[t] /\ bodies[t] # <<>> /\ bodies[t][1] = <<"cond_signal", c>>
      /\ t = current
  BY <1>0, AtBody
<1> DEFINE d == SignalledBody(t, c)
<1>2. t # Idle /\ Shape(t, bodies[t]) /\ Holding(holder, t, bodies[t]) /\ cond[c] \in Seq(Threads)
      /\ bodies[t] \in Seq(Steps)
  BY <1>1, IdleBody, BodySteps DEF CallsInv, Types
<1>3. holder[LockOf[c]] = t
  <2>1. 1 \in 1..Len(bodies[t])
    BY <1>1, <1>2, TailEntries
  <2> QED
    BY <1>1, <1>2, <2>1 DEF Holding, CondHolding
<1>4. Shape(t, d) /\ Holding(holder, t, d)
  <2>1. CASE cond[c] = <<>>
    <3>1. d = Tail(bodies[t])
      BY <1>1, <1>2, <2>1, TailEntries DEF SignalledBody
    <3>2. \A l \in AllLocks : bodies[t][1] # <<"taken", l>> /\ bodies[t][1] # <<"dropped", l>>
      BY <1>1
    <3> QED
      BY <1>1, <1>2, <3>1, <3>2, ShapeTail, HoldingTail
  <2>2. CASE cond[c] # <<>>
    <3>1. cond[c][1] \in Threads
      BY <1>2, <2>2
    <3> QED
      BY <1>1, <1>2, <2>2, <3>1, SignalBody DEF SignalledBody
  <2> QED
    BY <2>1, <2>2
<1>5. d \in Seq(Steps)
  BY <1>4 DEF Shape
<1>6. call' = [call EXCEPT ![t] = d]
  BY <1>1 DEF CondSignal, SignalledBody, Types
<1>7. \A s \in Guarded : ~InSection(bodies[t], s) /\ ~InSection(d, s)
  <2> TAKE s \in Guarded
  <2>1. ~InSection(bodies[t], s)
    BY <1>1 DEF InSection
  <2>2. CASE cond[c] = <<>>
    <3>1. d = Tail(bodies[t])
      BY <1>1, <1>2, <2>2, TailEntries DEF SignalledBody
    <3> QED
      BY <1>1, <1>2, <2>1, <3>1, SectionTail
  <2>3. CASE cond[c] # <<>>
    <3>1. cond[c][1] \in Threads
      BY <1>2, <2>3
    <3>2. d[1] = <<"sema_up", cond[c][1]>>
      BY <1>1, <1>2, <2>3, TailEntries DEF SignalledBody
    <3> QED
      BY <2>1, <3>1, <3>2, ThreadNotGuarded DEF InSection
  <2> QED
    BY <2>2, <2>3
<1> HIDE DEF d
<1>8. bodies' = [bodies EXCEPT ![t] = d]
  BY <1>5, <1>6, BodyStep
<1>9. Types'
  <2>1. call' \in [Threads -> Seq(Steps \cup {ie})]
    BY <1>5, <1>6, SubTypes DEF Types
  <2>2. cond' \in [Conds -> Seq(Threads)]
    BY <1>0, <1>2, SequenceRest DEF Types
  <2>3. failed' \in BOOLEAN
    BY <1>0
  <2> QED
    BY <1>0, <2>1, <2>2, <2>3 DEF Types
<1>10. CallsInv'
  BY <1>0, <1>4, <1>8, CallsKept
<1>11. IntrInv'
  BY <1>0, <1>1, <1>6, <1>8, BodySteps DEF IntrInv, Types
<1>12. FreeInv'
  BY <1>0, <1>1, <1>6, FreeKept DEF Types
<1>13. Excl'
  BY <1>0, <1>7, <1>8, ExclOutside
<1> QED
  BY <1>3, <1>8, <1>9, <1>10, <1>11, <1>12, <1>13 DEF d

BroadcastBodyOf(t, c) ==
  IF cond[c] = <<>> THEN Tail(bodies[t]) ELSE << <<"cond_signal", c>> >> \o bodies[t]

LEMMA CondBroadcastCore ==
  ASSUME CoreInv, UNCHANGED program, NEW t \in Threads, NEW c \in Conds, CondBroadcast(t, c)
  PROVE  CoreInv' /\ bodies' = [bodies EXCEPT ![t] = BroadcastBodyOf(t, c)]
<1> USE DEF CoreInv
<1>0. /\ At(t, "cond_broadcast", c)
      /\ UNCHANGED <<status, ready_list, current, intr, thread_ticks, idle_thread, value, cond,
                     waiters, holder, sleeping_thread_list, due, created, failed>>
  BY DEF CondBroadcast, schedVars, syncVars, sleepVars
<1>1. /\ bodies[t] = call[t] /\ bodies[t] # <<>> /\ bodies[t][1] = <<"cond_broadcast", c>>
      /\ t = current
  BY <1>0, AtBody
<1> DEFINE d == BroadcastBodyOf(t, c)
<1>2. t # Idle /\ Shape(t, bodies[t]) /\ Holding(holder, t, bodies[t])
      /\ bodies[t] \in Seq(Steps)
  BY <1>1, IdleBody, BodySteps DEF CallsInv
<1>4. Shape(t, d) /\ Holding(holder, t, d)
  <2>1. CASE cond[c] = <<>>
    <3>2. \A l \in AllLocks : bodies[t][1] # <<"taken", l>> /\ bodies[t][1] # <<"dropped", l>>
      BY <1>1
    <3> QED
      BY <1>1, <1>2, <2>1, <3>2, ShapeTail, HoldingTail DEF BroadcastBodyOf
  <2>2. CASE cond[c] # <<>>
    BY <1>1, <1>2, <2>2, BroadcastBody DEF BroadcastBodyOf
  <2> QED
    BY <2>1, <2>2
<1>5. d \in Seq(Steps)
  BY <1>4 DEF Shape
<1>6. call' = [call EXCEPT ![t] = d]
  BY <1>1 DEF CondBroadcast, BroadcastBodyOf, Types
<1>7. \A s \in Guarded : ~InSection(bodies[t], s) /\ ~InSection(d, s)
  <2> TAKE s \in Guarded
  <2>1. ~InSection(bodies[t], s)
    BY <1>1 DEF InSection
  <2>2. CASE cond[c] = <<>>
    BY <1>1, <1>2, <2>1, <2>2, SectionTail DEF BroadcastBodyOf
  <2>3. CASE cond[c] # <<>>
    <3>2. d[1] = <<"cond_signal", c>>
      BY <1>2, <2>3 DEF BroadcastBodyOf
    <3> QED
      BY <2>1, <3>2 DEF InSection
  <2> QED
    BY <2>2, <2>3
<1> HIDE DEF d
<1>8. bodies' = [bodies EXCEPT ![t] = d]
  BY <1>5, <1>6, BodyStep
<1>9. Types'
  <2>1. call' \in [Threads -> Seq(Steps \cup {ie})]
    BY <1>5, <1>6, SubTypes DEF Types
  <2> QED
    BY <1>0, <2>1 DEF Types
<1>10. CallsInv'
  BY <1>0, <1>4, <1>8, CallsKept
<1>11. IntrInv'
  BY <1>0, <1>1, <1>6, <1>8, BodySteps DEF IntrInv, Types
<1>12. FreeInv'
  BY <1>0, <1>1, <1>6, FreeKept DEF Types
<1>13. Excl'
  BY <1>0, <1>7, <1>8, ExclOutside
<1> QED
  BY <1>8, <1>9, <1>10, <1>11, <1>12, <1>13 DEF d

(***************************************************************************)
(* The sleeping list.                                                      *)
(***************************************************************************)
LEMMA LeastNat ==
  ASSUME NEW S \in SUBSET Nat, NEW e \in S
  PROVE  \E m \in S : \A k \in S : m <= k
<1> DEFINE R == OpToRel(<, Nat)
<1>1. IsWellFoundedOn(R, Nat)
  BY NatLessThanWellFounded
<1> HIDE DEF R
<1>2. \E m \in S : \A k \in S : ~(<<k, m>> \in R)
  BY <1>1, WFMin
<1>3. \A k, m \in Nat : <<k, m>> \in R <=> k < m
  BY DEF R, OpToRel
<1>4. PICK m \in S : \A k \in S : ~(<<k, m>> \in R)
  BY <1>2
<1>5. \A k \in S : ~(k < m) /\ k \in Nat /\ m \in Nat
  BY <1>3, <1>4
<1>6. \A k \in S : m <= k
  BY <1>5
<1> QED
  BY <1>6

\* The entries before the first one that fails a test.
LEMMA FrontSet ==
  ASSUME NEW n \in Nat, NEW E \in SUBSET (1..n),
         \A i \in E : \A j \in 1..i : j \in E
  PROVE  Cardinality(E) \in 0..n /\ E = 1..Cardinality(E)
<1> DEFINE S == {k \in 1..n + 1 : k \notin E}
<1>1. n + 1 \in S /\ S \in SUBSET Nat
  OBVIOUS
<1> HIDE DEF S
<1>2. PICK m \in S : \A k \in S : m <= k
  BY <1>1, LeastNat
<1>3. m \in 1..n + 1 /\ m \notin E /\ \A k \in 1..n + 1 : k < m => k \in E
  BY <1>1, <1>2 DEF S
<1>4. E = 1..m - 1
  <2>1. ASSUME NEW i \in E PROVE i \in 1..m - 1
    BY <1>3
  <2>2. ASSUME NEW i \in 1..m - 1 PROVE i \in E
    BY <1>3
  <2> QED
    BY <2>1, <2>2
<1>5. Cardinality(1..m - 1) = m - 1
  <2>1. m - 1 \in Int /\ 1 \in Int /\ ~(1 > m - 1 /\ m - 1 # 0)
    BY <1>3
  <2>2. Cardinality(1..m - 1) = IF 1 > m - 1 THEN 0 ELSE (m - 1) - 1 + 1
    BY <2>1, FS_Interval
  <2> QED
    BY <1>3, <2>2
<1> QED
  BY <1>3, <1>4, <1>5

LEMMA SubSeqFrom ==
  ASSUME NEW S, NEW list \in Seq(S), NEW n \in 0..Len(list)
  PROVE  /\ SubSeq(list, n + 1, Len(list)) \in Seq(S)
         /\ Len(SubSeq(list, n + 1, Len(list))) = Len(list) - n
         /\ \A i \in 1..Len(list) - n : SubSeq(list, n + 1, Len(list))[i] = list[i + n]
<1>1. Len(list) \in Nat
  OBVIOUS
<1>2. PICK k : k = Len(list)
  OBVIOUS
<1>3. k \in Nat /\ n \in 0..k
  BY <1>1, <1>2
<1>4. n + 1 \in Int /\ k \in Int /\ \A i \in n + 1..k : list[i] \in S
  BY <1>2, <1>3
<1>5. PICK z : z = SubSeq(list, n + 1, k)
  OBVIOUS
<1>6. /\ z \in Seq(S)
      /\ Len(z) = IF n + 1 <= k THEN k - (n + 1) + 1 ELSE 0
      /\ \A i \in 1..k - (n + 1) + 1 : z[i] = list[(n + 1) + i - 1]
  BY <1>4, <1>5, SubSeqProperties
<1>7. /\ (IF n + 1 <= k THEN k - (n + 1) + 1 ELSE 0) = k - n
      /\ \A i \in 1..k - n : i \in 1..k - (n + 1) + 1 /\ (n + 1) + i - 1 = i + n
  BY <1>3
<1>8. Len(z) = k - n /\ \A i \in 1..k - n : z[i] = list[i + n]
  BY <1>6, <1>7
<1> QED
  BY <1>2, <1>5, <1>6, <1>8

\* new is list with x put after its first n entries.
Inserted(list, x, n, new) ==
  /\ new = SubSeq(list, 1, n) \o <<x>> \o SubSeq(list, n + 1, Len(list))
  /\ Len(new) = Len(list) + 1
  /\ \A i \in 1..n : new[i] = list[i]
  /\ new[n + 1] = x
  /\ \A i \in n + 1..Len(list) : new[i + 1] = list[i]

LEMMA InsertAt ==
  ASSUME NEW S, NEW list \in Seq(S), NEW x \in S, NEW n \in 0..Len(list)
  PROVE  \E new \in Seq(S) : Inserted(list, x, n, new)
<1>1. PICK k : k = Len(list)
  OBVIOUS
<1>2. k \in Nat /\ n \in 0..k /\ n \in Nat
  BY <1>1
<1>3. PICK a : a = SubSeq(list, 1, n)
  OBVIOUS
<1>4. PICK z : z = SubSeq(list, n + 1, k)
  OBVIOUS
<1>5. a \in Seq(S) /\ Len(a) = n /\ \A i \in 1..n : a[i] = list[i]
  BY <1>1, <1>2, <1>3
<1>6. z \in Seq(S) /\ Len(z) = k - n /\ \A i \in 1..k - n : z[i] = list[i + n]
  BY <1>1, <1>4, SubSeqFrom
<1>7. PICK y : y = a \o <<x>>
  OBVIOUS
<1>8. y \in Seq(S) /\ Len(y) = n + 1 /\ y[n + 1] = x /\ \A i \in 1..n : y[i] = list[i]
  BY <1>2, <1>5, <1>7
<1>9. PICK new : new = y \o z
  OBVIOUS
<1>10. /\ new \in Seq(S) /\ Len(new) = Len(y) + Len(z)
       /\ \A i \in 1..Len(y) + Len(z) :
            new[i] = IF i <= Len(y) THEN y[i] ELSE z[i - Len(y)]
  BY <1>6, <1>8, <1>9, ConcatProperties
<1>11. (n + 1) + (k - n) = k + 1
  BY <1>2
<1>12. \A i \in 1..k + 1 : new[i] = IF i <= n + 1 THEN y[i] ELSE z[i - (n + 1)]
  BY <1>6, <1>8, <1>10, <1>11
<1>13. Len(new) = k + 1
  BY <1>6, <1>8, <1>10, <1>11
<1>14. \A i \in 1..n : new[i] = list[i]
  BY <1>2, <1>8, <1>12
<1>15. new[n + 1] = x
  BY <1>2, <1>8, <1>12
<1>16. ASSUME NEW i \in n + 1..k
       PROVE  new[i + 1] = list[i]
  <2>1. i + 1 \in 1..k + 1 /\ ~(i + 1 <= n + 1) /\ (i + 1) - (n + 1) = i - n
        /\ i - n \in 1..k - n /\ (i - n) + n = i
    BY <1>2
  <2>2. new[i + 1] = z[i - n]
    BY <1>12, <2>1
  <2> QED
    BY <1>6, <2>1, <2>2
<1>17. new = SubSeq(list, 1, n) \o <<x>> \o SubSeq(list, n + 1, Len(list))
  BY <1>1, <1>3, <1>4, <1>7, <1>9
<1> QED
  BY <1>1, <1>10, <1>13, <1>14, <1>15, <1>16, <1>17 DEF Inserted

\* list_insert_ordered: where the new entry goes.
LEMMA InsertedList ==
  ASSUME NEW list \in Seq(Threads), NEW t \in Threads
  PROVE  \E n \in 0..Len(list), new \in Seq(Threads) :
           /\ list_insert_ordered(list, t) = new /\ Inserted(list, t, n, new)
           /\ \A i \in 1..n : ~(due[t] < due[list[i]])
           /\ n < Len(list) => due[t] < due[list[n + 1]]
<1> DEFINE E == {i \in DOMAIN list : \A j \in 1..i : ~(due[t] < due[list[j]])}
           n == Cardinality(E)
<1>1. Len(list) \in Nat /\ DOMAIN list = 1..Len(list)
  OBVIOUS
<1>2. E \in SUBSET (1..Len(list)) /\ \A i \in E : \A j \in 1..i : j \in E
  BY <1>1
<1>3. n \in 0..Len(list) /\ E = 1..n
  <2> HIDE DEF E
  <2> QED
    BY <1>1, <1>2, FrontSet
<1>8. \A i \in 1..Len(list) : i \in E <=> \A j \in 1..i : ~(due[t] < due[list[j]])
  BY <1>1
<1>6. list_insert_ordered(list, t)
        = SubSeq(list, 1, n) \o <<t>> \o SubSeq(list, n + 1, Len(list))
  BY DEF list_insert_ordered
<1> HIDE DEF E, n
<1>4. n < Len(list) => due[t] < due[list[n + 1]]
  <2> SUFFICES ASSUME n < Len(list) PROVE due[t] < due[list[n + 1]]
    OBVIOUS
  <2>1. n + 1 \notin E /\ n + 1 \in 1..Len(list)
    BY <1>1, <1>3
  <2>2. PICK j \in 1..n + 1 : due[t] < due[list[j]]
    BY <1>8, <2>1
  <2>3. j \notin E
    BY <1>1, <1>3, <1>8, <2>1, <2>2
  <2>4. j = n + 1
    BY <1>3, <2>2, <2>3
  <2> QED
    BY <2>2, <2>4
<1>5. \A i \in 1..n : ~(due[t] < due[list[i]])
  BY <1>1, <1>3, <1>8
<1>7. PICK new \in Seq(Threads) : Inserted(list, t, n, new)
  BY <1>3, InsertAt
<1>9. list_insert_ordered(list, t) = new
  BY <1>6, <1>7 DEF Inserted
<1> QED
  BY <1>3, <1>4, <1>5, <1>7, <1>9

LEMMA ReadTicksCore ==
  ASSUME CoreInv, UNCHANGED program, NEW t \in Threads, NEW n \in Durations, ReadTicks(t, n)
  PROVE  CoreInv' /\ bodies' = [bodies EXCEPT ![t] = Tail(bodies[t])]
<1> USE DEF CoreInv
<1>0. /\ At(t, "timer_ticks", n) /\ due' = [due EXCEPT ![t] = n] /\ Done(t)
      /\ UNCHANGED <<status, ready_list, current, intr, thread_ticks, idle_thread, holder, value,
                     waiters, cond, sleeping_thread_list, created, failed>>
  BY DEF ReadTicks, schedVars, syncVars
<1>2. /\ call' \in [Threads -> Seq(Steps \cup {ie})]
      /\ CallsInv' /\ IntrInv' /\ FreeInv' /\ Excl'
      /\ bodies' = [bodies EXCEPT ![t] = Tail(bodies[t])]
  BY <1>0, DoneCore
<1>3. due' \in [Threads -> Nat]
  BY <1>0, TimerAssumption DEF Types
<1>4. Types'
  BY <1>0, <1>2, <1>3 DEF Types
<1> QED
  BY <1>2, <1>4

LEMMA InsertSleeperCore ==
  ASSUME CoreInv, UNCHANGED program, NEW t \in Threads, InsertSleeper(t)
  PROVE  CoreInv' /\ bodies' = [bodies EXCEPT ![t] = Tail(bodies[t])]
<1> USE DEF CoreInv
<1>0. /\ At(t, "sleep", 0) /\ value' = [value EXCEPT ![t] = 0]
      /\ waiters' = [waiters EXCEPT ![t] = <<>>]
      /\ sleeping_thread_list' = list_insert_ordered(sleeping_thread_list, t) /\ Done(t)
      /\ UNCHANGED <<status, ready_list, current, intr, thread_ticks, idle_thread, holder,
                     cond, due, created, failed>>
  BY DEF InsertSleeper, schedVars
<1>1. /\ bodies[t] = call[t] /\ bodies[t] # <<>> /\ bodies[t][1] = <<"sleep", 0>>
      /\ t = current
  BY <1>0, AtBody
<1>2. CallsInv' /\ bodies' = [bodies EXCEPT ![t] = Tail(bodies[t])]
  BY <1>0, DoneCalls
<1>3. Types'
  <2>1. call' \in [Threads -> Seq(Steps \cup {ie})]
    BY <1>0, <1>1, DoneTypes
  <2>2. value' \in [Semas -> Nat] /\ waiters' \in [Semas -> Seq(Threads)]
    <3>1. <<>> \in Seq(Threads)
      OBVIOUS
    <3> QED
      BY <1>0, <3>1 DEF Types
  <2>3. sleeping_thread_list' \in Seq(Threads)
    BY <1>0, InsertedList DEF Types
  <2> QED
    BY <1>0, <2>1, <2>2, <2>3 DEF Types
<1>4. IntrInv'
  BY <1>0, DoneIntr
<1>5. FreeInv'
  BY <1>0, <1>1, DoneFree
<1>6. Excl'
  <2>0. Shape(t, bodies[t])
    BY DEF CallsInv
  <2>1. \A r \in Guarded : value'[r] = value[r]
    BY <1>0, ThreadNotGuarded DEF Types
  <2>2. \A r \in Guarded : InSection(Tail(bodies[t]), r) <=> InSection(bodies[t], r)
    <3> TAKE r \in Guarded
    <3>1. InSection(bodies[t], r) <=> r = sleeping_list_sema
      BY <1>1 DEF InSection
    <3>2. InSection(Tail(bodies[t]), r) <=> r = sleeping_list_sema
      BY <1>1, <2>0, SectionTail
    <3> QED
      BY <3>1, <3>2
  <2> QED
    BY <1>0, <1>2, <2>1, <2>2, ExclOutside
<1> QED
  BY <1>2, <1>3, <1>4, <1>5, <1>6

(***************************************************************************)
(* The threads that the semaphores of woken sleepers make ready.           *)
(***************************************************************************)
UpTo(woken, f) ==
  f = [n \in 0..Len(woken) |->
         IF n = 0 THEN <<>> ELSE f[n - 1] \o first(waiters[woken[n]])]

\* The same for the first m of the threads.
UpToAll(woken, m, f) ==
  /\ f \in [0..m -> Seq(Threads)]
  /\ f[0] = <<>>
  /\ \A n \in 1..m : f[n] = f[n - 1] \o first(waiters[woken[n]])

LEMMA UpToExists ==
  ASSUME Types, NEW woken \in Seq(Threads)
  PROVE  \A m \in 0..Len(woken) : \E f : UpToAll(woken, m, f)
<1> DEFINE S == {m \in 0..Len(woken) : \A f : ~UpToAll(woken, m, f)}
<1> SUFFICES ASSUME NEW e \in S PROVE FALSE
  OBVIOUS
<1>1. Len(woken) \in Nat /\ S \in SUBSET Nat
  OBVIOUS
<1>2. PICK m \in S : \A k \in S : m <= k
  BY <1>1, LeastNat
<1>3. m \in 0..Len(woken) /\ \A f : ~UpToAll(woken, m, f)
  OBVIOUS
<1> HIDE DEF S
<1>4. CASE m = 0
  <2> DEFINE f == [n \in 0..0 |-> <<>>]
  <2>1. UpToAll(woken, 0, f)
    <3>1. <<>> \in Seq(Threads)
      OBVIOUS
    <3> QED
      BY <3>1 DEF UpToAll
  <2> QED
    BY <1>3, <1>4, <2>1
<1>5. CASE m # 0
  <2>1. m - 1 \in 0..Len(woken) /\ ~(m <= m - 1) /\ m \in 1..Len(woken)
    BY <1>1, <1>3, <1>5
  <2>2. m - 1 \notin S
    BY <1>2, <2>1
  <2>3. PICK g : UpToAll(woken, m - 1, g)
    BY <2>1, <2>2 DEF S
  <2> DEFINE x == g[m - 1] \o first(waiters[woken[m]])
             f == [n \in 0..m |-> IF n = m THEN x ELSE g[n]]
  <2>4. x \in Seq(Threads)
    <3>1. woken[m] \in Threads /\ woken[m] \in Semas
      BY <2>1 DEF Semas
    <3>2. first(waiters[woken[m]]) \in Seq(Threads)
      BY <3>1, SequenceRest DEF Types
    <3>3. g[m - 1] \in Seq(Threads)
      BY <1>3, <2>1, <2>3 DEF UpToAll
    <3> QED
      BY <3>2, <3>3
  <2> HIDE DEF x
  <2>5. f \in [0..m -> Seq(Threads)] /\ f[m] = x /\ \A n \in 0..m - 1 : f[n] = g[n]
    BY <1>1, <1>3, <2>1, <2>3, <2>4 DEF UpToAll
  <2> HIDE DEF f
  <2>6. f[0] = <<>>
    BY <1>3, <2>1, <2>3, <2>5 DEF UpToAll
  <2>7. ASSUME NEW n \in 1..m
        PROVE  f[n] = f[n - 1] \o first(waiters[woken[n]])
    <3>1. CASE n = m
      <4>1. f[m - 1] = g[m - 1]
        BY <1>3, <2>1, <2>5
      <4> QED
        BY <2>5, <3>1, <4>1 DEF x
    <3>2. CASE n # m
      <4>1. n \in 1..m - 1 /\ n \in 0..m - 1 /\ n - 1 \in 0..m - 1
        BY <1>3, <3>2
      <4> QED
        BY <2>3, <2>5, <4>1 DEF UpToAll
    <3> QED
      BY <3>1, <3>2
  <2>8. UpToAll(woken, m, f)
    BY <2>5, <2>6, <2>7 DEF UpToAll
  <2> QED
    BY <1>3, <2>8
<1> QED
  BY <1>4, <1>5

LEMMA UnblockedSleepers ==
  ASSUME Types, NEW woken \in Seq(Threads)
  PROVE  \E f : UpToAll(woken, Len(woken), f) /\ unblocked_sleepers(woken) = f[Len(woken)]
<1>0. Len(woken) \in Nat
  OBVIOUS
<1>1. PICK g : UpToAll(woken, Len(woken), g)
  BY <1>0, UpToExists
<1>2. UpTo(woken, g)
  BY <1>0, <1>1 DEF UpTo, UpToAll
<1> DEFINE F == CHOOSE f : UpTo(woken, f)
<1>3. unblocked_sleepers(woken) = F[Len(woken)]
  BY DEF unblocked_sleepers, UpTo
<1>4. UpTo(woken, F)
  BY <1>2
<1> HIDE DEF F
<1>5. F[0] = <<>> /\ \A n \in 1..Len(woken) : F[n] = F[n - 1] \o first(waiters[woken[n]])
  BY <1>0, <1>4 DEF UpTo
<1>6. DOMAIN F = 0..Len(woken) /\ F = [n \in 0..Len(woken) |-> F[n]]
  BY <1>4 DEF UpTo
<1>7. \A n \in 0..Len(woken) : F[n] = g[n]
  <2> DEFINE S == {n \in 0..Len(woken) : F[n] # g[n]}
  <2> SUFFICES ASSUME NEW e \in S PROVE FALSE
    OBVIOUS
  <2>1. S \in SUBSET Nat
    BY <1>0
  <2>2. PICK m \in S : \A k \in S : m <= k
    BY <2>1, LeastNat
  <2>3. m \in 0..Len(woken) /\ F[m] # g[m]
    OBVIOUS
  <2> HIDE DEF S
  <2>4. m # 0
    BY <1>1, <1>5, <2>3 DEF UpToAll
  <2>5. m \in 1..Len(woken) /\ m - 1 \in 0..Len(woken) /\ ~(m <= m - 1)
    BY <1>0, <2>3, <2>4
  <2>6. F[m - 1] = g[m - 1]
    BY <2>2, <2>5 DEF S
  <2> QED
    BY <1>1, <1>5, <2>3, <2>5, <2>6 DEF UpToAll
<1>8. F = g
  BY <1>1, <1>6, <1>7 DEF UpToAll
<1> QED
  BY <1>1, <1>3, <1>8

\* try_to_wake_up_threads wakes the first n sleepers.
LEMMA WokenFront ==
  ASSUME Types, NEW left \in [Threads -> Nat]
  PROVE  \E n \in 0..Len(sleeping_thread_list) :
           /\ try_to_wake_up_threads(left) = SubSeq(sleeping_thread_list, 1, n)
           /\ \A i \in 1..n : left[sleeping_thread_list[i]] <= 0
           /\ value[sleeping_list_sema] > 0 /\ n < Len(sleeping_thread_list) =>
                left[sleeping_thread_list[n + 1]] > 0
           /\ ~(value[sleeping_list_sema] > 0) => n = 0
<1> DEFINE list == sleeping_thread_list
           E == {i \in DOMAIN list : \A j \in 1..i : left[list[j]] <= 0}
           n == Cardinality(E)
<1>0. list \in Seq(Threads)
  BY DEF Types
<1>1. Len(list) \in Nat /\ DOMAIN list = 1..Len(list) /\ \A i \in 1..Len(list) : list[i] \in Threads
  BY <1>0
<1>2. E \in SUBSET (1..Len(list)) /\ \A i \in E : \A j \in 1..i : j \in E
  BY <1>1
<1>3. n \in 0..Len(list) /\ E = 1..n
  <2> HIDE DEF E
  <2> QED
    BY <1>1, <1>2, FrontSet
<1>4. \A i \in 1..Len(list) : i \in E <=> \A j \in 1..i : left[list[j]] <= 0
  BY <1>1
<1>5. try_to_wake_up_threads(left)
        = IF value[sleeping_list_sema] > 0 THEN SubSeq(list, 1, n) ELSE <<>>
  BY DEF try_to_wake_up_threads
<1> HIDE DEF E, n
<1>6. \A i \in 1..n : left[list[i]] <= 0
  BY <1>1, <1>3, <1>4
<1>7. ASSUME n < Len(list)
      PROVE  left[list[n + 1]] > 0
  <2>1. n + 1 \notin E /\ n + 1 \in 1..Len(list)
    BY <1>1, <1>3, <1>7
  <2>2. PICK j \in 1..n + 1 : ~(left[list[j]] <= 0)
    BY <1>4, <2>1
  <2>3. j \notin E
    BY <1>1, <1>3, <1>4, <2>1, <2>2
  <2>4. j = n + 1
    BY <1>3, <2>2, <2>3
  <2>5. left[list[n + 1]] \in Nat
    BY <1>1, <2>1
  <2> QED
    BY <2>2, <2>4, <2>5
<1>8. CASE value[sleeping_list_sema] > 0
  BY <1>3, <1>5, <1>6, <1>7, <1>8
<1>9. CASE ~(value[sleeping_list_sema] > 0)
  <2>1. SubSeq(list, 1, 0) = <<>>
    BY SubSeqEmpty
  <2>2. 0 \in 0..Len(list) /\ \A i \in 1..0 : left[list[i]] <= 0
    BY <1>1
  <2> QED
    BY <1>5, <1>9, <2>1, <2>2
<1> QED
  BY <1>8, <1>9

LEMMA FrontOf ==
  ASSUME NEW S, NEW list \in Seq(S), NEW n \in 0..Len(list)
  PROVE  /\ SubSeq(list, 1, n) \in Seq(S) /\ Len(SubSeq(list, 1, n)) = n
         /\ \A i \in 1..n : SubSeq(list, 1, n)[i] = list[i]
OBVIOUS

LEMMA RangeOf ==
  ASSUME NEW S, NEW list \in Seq(S)
  PROVE  Range(list) \subseteq S /\ Range(list) = {list[i] : i \in 1..Len(list)}
BY DEF Range

LEMMA InitThreadCore ==
  ASSUME CoreInv, UNCHANGED program, NEW t \in Threads, NEW u \in Others, InitThread(t, u)
  PROVE  /\ CoreInv'
         /\ \/ /\ status[u] = "FREE" /\ u # t /\ status' = [status EXCEPT ![u] = "BLOCKED"]
               /\ call[u] = <<>> /\ call'[u] = <<ie>>
               /\ bodies' = [bodies EXCEPT ![t] = creating(u)]
            \/ UNCHANGED status /\ bodies' = [bodies EXCEPT ![t] = <<>>]
<1> USE DEF CoreInv
<1>0. /\ At(t, "init_thread", u)
      /\ UNCHANGED <<ready_list, current, intr, thread_ticks, idle_thread, value, waiters,
                     holder, cond, sleeping_thread_list, due, created, failed>>
  BY DEF InitThread, syncVars, sleepVars
<1>1. /\ bodies[t] = call[t] /\ bodies[t] # <<>> /\ bodies[t][1] = <<"init_thread", u>>
      /\ t = current
  BY <1>0, AtBody
<1>2. /\ t # Idle /\ u \in Threads /\ Shape(t, bodies[t]) /\ Holding(holder, t, bodies[t])
      /\ bodies \in [Threads -> Seq(Steps)]
  <2>1. t # Idle
    BY <1>1, IdleBody
  <2>2. u \in Threads
    BY DEF Threads
  <2> QED
    BY <2>1, <2>2, BodySteps DEF CallsInv
<1>3. Tail(bodies[t]) = <<>>
  <2>1. 1 \in 1..Len(bodies[t]) /\ bodies[t] \in Seq(Steps)
    BY <1>1, <1>2, TailEntries
  <2>2. Len(bodies[t]) = 1
    BY <1>1, <1>2, <2>1 DEF Shape, FormShape
  <2>3. Tail(bodies[t]) \in Seq(Steps) /\ Len(Tail(bodies[t])) = 0
    BY <1>1, <2>1, <2>2, TailEntries
  <2> QED
    BY <2>3, EmptySeq
<1>4. CASE status[u] = "FREE"
  <2>0. status' = [status EXCEPT ![u] = "BLOCKED"]
        /\ call' = [call EXCEPT
               ![t] = lock_acquire(tid_lock) \o lock_release(tid_lock)
                        \o << <<"thread_unblock", u>> >> \o Tail(@),
               ![u] = << <<"intr_enable", 0>> >>]
    BY <1>4 DEF InitThread
  <2>1. u # t /\ call[u] = <<>>
    BY <1>1, <1>2, <1>4 DEF FreeInv
  <2>2. creating(u) \in Seq(Steps) /\ Shape(t, creating(u))
    BY <1>2, CreatingShape DEF Shape
  <2>3. creating(u) \o <<>> = creating(u)
    BY <2>2, ConcatEmptySeq
  <2>4. call'[t] = creating(u) /\ call'[u] = <<ie>> /\ call' \in [Threads -> Seq(Steps \cup {ie})]
        /\ \A v \in Threads \ {t, u} : call'[v] = call[v]
    <3>1. call' = [call EXCEPT ![t] = creating(u), ![u] = <<ie>>]
      BY <1>1, <1>2, <1>3, <2>0, <2>1, <2>3 DEF creating, ie, Types
    <3>2. creating(u) \in Seq(Steps \cup {ie}) /\ <<ie>> \in Seq(Steps \cup {ie})
      BY <2>2, SubTypes
    <3> QED
      BY <1>2, <2>1, <3>1, <3>2 DEF Types
  <2>5. BodyOf(creating(u)) = creating(u) /\ BodyOf(<<ie>>) = <<>> /\ BodyOf(<<>>) = <<>>
    <3>1. <<>> \in Seq(Steps) /\ <<ie>> \o <<>> = <<ie>>
      OBVIOUS
    <3> QED
      BY <2>2, <3>1, BodyOfPlain
  <2>6. bodies' = [bodies EXCEPT ![t] = creating(u)]
    <3>1. \A v \in Threads : bodies'[v] = [bodies EXCEPT ![t] = creating(u)][v]
      <4> TAKE v \in Threads
      <4>1. CASE v = t
        BY <1>2, <2>4, <2>5, <4>1 DEF bodies, Body
      <4>2. CASE v = u
        BY <1>2, <2>1, <2>4, <2>5, <4>2 DEF bodies, Body
      <4>3. CASE v \notin {t, u}
        BY <1>2, <2>4, <4>3 DEF bodies, Body
      <4> QED
        BY <4>1, <4>2, <4>3
    <3> QED
      BY <1>2, <3>1 DEF bodies
  <2>7. Types'
    <3>1. status' \in [Threads -> Statuses]
      BY <2>0 DEF Types, Statuses
    <3> QED
      BY <1>0, <2>4, <3>1 DEF Types, Statuses
  <2>8. CallsInv'
    <3>1. holder[tid_lock] # t
      <4>1. \A i \in 1..Len(bodies[t]) : bodies[t][i] # <<"dropped", tid_lock>>
        <5>1. 1 \in 1..Len(bodies[t]) /\ bodies[t] \in Seq(Steps)
          BY <1>1, <1>2, TailEntries
        <5>2. Len(bodies[t]) = 1
          BY <1>1, <1>2, <5>1 DEF Shape, FormShape
        <5> QED
          BY <1>1, <5>2
      <4> QED
        BY <1>2, <4>1 DEF Holding, TidHolding
    <3>2. Holding(holder', t, creating(u))
      BY <1>0, <3>1, CreatingHolding
    <3> QED
      BY <1>0, <2>2, <2>6, <3>2, CallsKept
  <2>9. IntrInv'
    BY <1>0, <1>1, <1>2, <2>4, <2>6 DEF IntrInv
  <2>10. FreeInv'
    <3> SUFFICES ASSUME NEW v \in Threads, status'[v] = "FREE"
                 PROVE  v # current' /\ v \in Others /\ call'[v] = <<>>
      BY DEF FreeInv
    <3>1. v # u /\ status[v] = "FREE"
      BY <1>2, <2>0 DEF Types
    <3> QED
      BY <1>0, <1>1, <2>4, <3>1 DEF FreeInv
  <2>11. Excl'
    <3>1. \A s \in Guarded : ~InSection(bodies[t], s) /\ ~InSection(creating(u), s)
      <4> TAKE s \in Guarded
      <4>1. creating(u)[1] = <<"sema_down", tid_lock>>
        BY <2>2 DEF creating, lock_acquire, lock_release, Steps, Semas, AllLocks
      <4> QED
        BY <1>1, <4>1 DEF InSection
    <3> QED
      BY <1>0, <2>6, <3>1, ExclOutside
  <2> QED
    BY <1>4, <2>0, <2>1, <2>4, <2>6, <2>7, <2>8, <2>9, <2>10, <2>11
<1>5. CASE status[u] # "FREE"
  <2>1. Done(t) /\ UNCHANGED status
    BY <1>5 DEF InitThread
  <2>2. /\ call' \in [Threads -> Seq(Steps \cup {ie})]
        /\ CallsInv' /\ IntrInv' /\ FreeInv' /\ Excl'
        /\ bodies' = [bodies EXCEPT ![t] = Tail(bodies[t])]
    BY <1>0, <2>1, DoneCore
  <2>3. Types'
    BY <1>0, <2>1, <2>2 DEF Types
  <2> QED
    BY <1>3, <2>1, <2>2, <2>3
<1> QED
  BY <1>4, <1>5

LEMMA ThreadUnblockCore ==
  ASSUME CoreInv, UNCHANGED program, NEW t \in Threads, NEW u \in Others, ThreadUnblock(t, u)
  PROVE  CoreInv' /\ bodies' = [bodies EXCEPT ![t] = Tail(bodies[t])]
<1> USE DEF CoreInv
<1>0. /\ At(t, "thread_unblock", u) /\ status' = unblock(status, <<u>>)
      /\ ready_list' = Append(ready_list, u) /\ failed' = unblock_fails(<<u>>) /\ Done(t)
      /\ UNCHANGED <<current, intr, thread_ticks, idle_thread, value, waiters, holder, cond,
                     sleeping_thread_list, due, created>>
  BY DEF ThreadUnblock, syncVars, sleepVars
<1>1. \A v \in Threads : status'[v] = "FREE" => status[v] = "FREE"
  BY <1>0 DEF unblock
<1>2. /\ call' \in [Threads -> Seq(Steps \cup {ie})]
      /\ CallsInv' /\ IntrInv' /\ FreeInv' /\ Excl'
      /\ bodies' = [bodies EXCEPT ![t] = Tail(bodies[t])]
  BY <1>0, <1>1, DoneCore
<1>3. Types'
  <2>1. status' \in [Threads -> Statuses]
    BY <1>0 DEF unblock, Types, Statuses
  <2>2. u \in Threads
    BY DEF Threads
  <2>3. ready_list' \in Seq(Threads)
    BY <1>0, <2>2 DEF Types
  <2>4. failed' \in BOOLEAN
    BY <1>0 DEF unblock_fails
  <2> QED
    BY <1>0, <1>2, <2>1, <2>3, <2>4 DEF Types, Statuses
<1> QED
  BY <1>2, <1>3

\* The kernel functions a thread may call.
IsCall(t, b) ==
  \/ \E l \in Locks : b = lock_acquire(l) /\ holder[l] # t
  \/ \E l \in Locks : b = lock_release(l) /\ holder[l] = t
  \/ \E c \in Conds : /\ holder[LockOf[c]] = t
                      /\ \/ b = << <<"cond_signal", c>> >>
                         \/ b = << <<"cond_broadcast", c>> >>
                         \/ b = cond_wait(t, c)
  \/ \E n \in Durations : b = timer_sleep(t, n)
  \/ b = << <<"yield", 0>> >>
  \/ b = << <<"exit", 0>> >>
  \/ \E u \in Others : b = << <<"init_thread", u>> >>

LEMMA CallIs ==
  ASSUME Types, NEW t \in Threads, Call(t)
  PROVE  \E b : IsCall(t, b) /\ Calls(t, b) /\ created' \in 0..program.creates
<1>1. /\ program.ticks \subseteq Durations /\ program.creates \in Nat
      /\ created \in Nat /\ created <= program.creates
  BY ProgramsAssumption DEF Types
<1>2. CASE \E l \in Locks \ Holds(t) : Calls(t, lock_acquire(l)) /\ UNCHANGED created
  BY <1>1, <1>2 DEF IsCall, Holds, AllLocks
<1>3. CASE \E l \in Locks \cap Holds(t) : Calls(t, lock_release(l)) /\ UNCHANGED created
  BY <1>1, <1>3 DEF IsCall, Holds, AllLocks
<1>4. CASE \E c \in Conds :
                /\ LockOf[c] \in Holds(t)
                /\ \/ Calls(t, << <<"cond_signal", c>> >>)
                   \/ Calls(t, << <<"cond_broadcast", c>> >>)
                   \/ Calls(t, cond_wait(t, c))
                /\ UNCHANGED created
  BY <1>1, <1>4 DEF IsCall, Holds
<1>5. CASE \E n \in program.ticks : Calls(t, timer_sleep(t, n)) /\ UNCHANGED created
  BY <1>1, <1>5 DEF IsCall
<1>6. CASE Calls(t, << <<"yield", 0>> >>) /\ UNCHANGED created
  BY <1>1, <1>6 DEF IsCall
<1>7. CASE Calls(t, << <<"exit", 0>> >>) /\ UNCHANGED created
  BY <1>1, <1>7 DEF IsCall
<1>8. CASE /\ created < program.creates
           /\ \E u \in Others : Calls(t, << <<"init_thread", u>> >>)
           /\ created' = created + 1
  <2>1. created' \in 0..program.creates
    BY <1>1, <1>8
  <2>2. PICK u \in Others : Calls(t, << <<"init_thread", u>> >>)
    BY <1>8
  <2>3. IsCall(t, << <<"init_thread", u>> >>)
    BY DEF IsCall
  <2> QED
    BY <2>1, <2>2, <2>3
<1> QED
  BY <1>2, <1>3, <1>4, <1>5, <1>6, <1>7, <1>8 DEF Call

LEMMA IsCallShape ==
  ASSUME NEW t \in Threads \ {Idle}, NEW b, IsCall(t, b), holder[tid_lock] # t
  PROVE  /\ Shape(t, b) /\ Holding(holder, t, b)
         /\ b # <<>> /\ b[1][1] \in {"sema_down", "dropped", "cond_signal", "cond_broadcast",
                                     "cond_queue", "timer_ticks", "yield", "exit", "init_thread"}
<1>1. ASSUME NEW l \in Locks, b = lock_acquire(l), holder[l] # t
      PROVE  Shape(t, b) /\ Holding(holder, t, b) /\ b # <<>> /\ b[1][1] = "sema_down"
  BY <1>1, LockAcquireShape, CallHolding DEF lock_acquire
<1>2. ASSUME NEW l \in Locks, b = lock_release(l), holder[l] = t
      PROVE  Shape(t, b) /\ Holding(holder, t, b) /\ b # <<>> /\ b[1][1] = "dropped"
  BY <1>2, LockReleaseShape, CallHolding DEF lock_release
<1>3. ASSUME NEW c \in Conds, holder[LockOf[c]] = t, b = << <<"cond_signal", c>> >>
      PROVE  Shape(t, b) /\ Holding(holder, t, b) /\ b # <<>> /\ b[1][1] = "cond_signal"
  BY <1>3, StepShape, CallHolding
<1>4. ASSUME NEW c \in Conds, holder[LockOf[c]] = t, b = << <<"cond_broadcast", c>> >>
      PROVE  Shape(t, b) /\ Holding(holder, t, b) /\ b # <<>> /\ b[1][1] = "cond_broadcast"
  BY <1>4, StepShape, CallHolding
<1>5. ASSUME NEW c \in Conds, holder[LockOf[c]] = t, b = cond_wait(t, c)
      PROVE  Shape(t, b) /\ Holding(holder, t, b) /\ b # <<>> /\ b[1][1] = "cond_queue"
  <2>1. LockOf[c] \in Locks
    BY CondsAssumption
  <2>2. b \in Seq(Steps) /\ b # <<>> /\ b[1] = <<"cond_queue", c>>
    BY <1>5, <2>1 DEF cond_wait, lock_acquire, lock_release, Steps, Semas, AllLocks
  <2> QED
    BY <1>5, <2>2, CondWaitShape, CondWaitHolding
<1>6. ASSUME NEW n \in Durations, b = timer_sleep(t, n)
      PROVE  Shape(t, b) /\ Holding(holder, t, b) /\ b # <<>> /\ b[1][1] = "timer_ticks"
  <2>1. b # <<>> /\ b[1][1] = "timer_ticks"
    BY <1>6 DEF timer_sleep
  <2> QED
    BY <1>6, <2>1, TimerSleepShape, TimerSleepHolding
<1>7. ASSUME NEW x \in ({"yield", "exit"} \X {0}) \cup ({"init_thread"} \X Others), b = <<x>>
      PROVE  Shape(t, b) /\ Holding(holder, t, b) /\ b # <<>>
             /\ b[1][1] \in {"yield", "exit", "init_thread"}
  BY <1>7, StepShape, CallHolding
<1> QED
  BY <1>1, <1>2, <1>3, <1>4, <1>5, <1>6, <1>7 DEF IsCall

\* The body of t becomes b while the lock of nobody changes hands.
LEMMA NewBodyCore ==
  ASSUME CoreInv, NEW t \in Threads \ {Idle}, t = current, NEW b,
         call' = [call EXCEPT ![t] = b], Shape(t, b), Holding(holder, t, b),
         UNCHANGED <<status, ready_list, current, intr, thread_ticks, idle_thread,
                     waiters, holder, cond, sleeping_thread_list, due, failed, program>>,
         created' \in 0..program.creates, value' \in [Semas -> Nat]
  PROVE  /\ Types' /\ CallsInv' /\ IntrInv' /\ FreeInv'
         /\ bodies' = [bodies EXCEPT ![t] = b]
<1> USE DEF CoreInv
<1>1. b \in Seq(Steps) /\ b \in Seq(Steps \cup {ie})
  BY SubTypes DEF Shape
<1>2. bodies' = [bodies EXCEPT ![t] = b]
  BY <1>1, BodyStep
<1>3. Types'
  <2>1. call' \in [Threads -> Seq(Steps \cup {ie})]
    BY <1>1 DEF Types
  <2> QED
    BY <2>1 DEF Types
<1>4. CallsInv'
  BY <1>2, CallsKept
<1>5. IntrInv'
  BY <1>2, BodySteps DEF IntrInv, Types
<1>6. FreeInv'
  BY FreeKept DEF Types
<1> QED
  BY <1>2, <1>3, <1>4, <1>5, <1>6

LEMMA CallCore ==
  ASSUME CoreInv, UNCHANGED program, NEW t \in Threads, Call(t)
  PROVE  /\ CoreInv' /\ t = current /\ t # Idle /\ bodies[t] = <<>> /\ call[t] = <<>>
         /\ \E b : IsCall(t, b) /\ call' = [call EXCEPT ![t] = b]
                     /\ bodies' = [bodies EXCEPT ![t] = b]
<1> USE DEF CoreInv
<1>1. PICK b : IsCall(t, b) /\ Calls(t, b) /\ created' \in 0..program.creates
  BY CallIs
<1>2. /\ t = current /\ t # Idle /\ call[t] = <<>> /\ call' = [call EXCEPT ![t] = b]
      /\ UNCHANGED <<status, ready_list, current, intr, thread_ticks, idle_thread, value,
                     waiters, holder, cond, sleeping_thread_list, due, failed>>
  BY <1>1 DEF Calls, schedVars, syncVars, sleepVars
<1>3. bodies[t] = <<>>
  BY <1>2 DEF bodies, Body, BodyOf
<1>4. Holding(holder, t, <<>>)
  BY <1>3 DEF CallsInv
<1>5. holder[tid_lock] # t
  BY <1>4, NothingHolding
<1>6. /\ Shape(t, b) /\ Holding(holder, t, b)
      /\ b # <<>> /\ b[1][1] \in {"sema_down", "dropped", "cond_signal", "cond_broadcast",
                                  "cond_queue", "timer_ticks", "yield", "exit", "init_thread"}
  BY <1>1, <1>2, <1>5, IsCallShape
<1>7. /\ Types' /\ CallsInv' /\ IntrInv' /\ FreeInv'
      /\ bodies' = [bodies EXCEPT ![t] = b]
  <2>1. value' \in [Semas -> Nat]
    BY <1>2 DEF Types
  <2> QED
    BY <1>1, <1>2, <1>6, <2>1, NewBodyCore
<1>8. Excl'
  <2>1. \A s \in Guarded : ~InSection(bodies[t], s) /\ ~InSection(b, s)
    <3> TAKE s \in Guarded
    <3>1. b[1] # <<"taken", s>> /\ b[1] # <<"sema_up", s>> /\ b[1] # <<"sleep", 0>>
      BY <1>6
    <3> QED
      BY <1>3, <3>1 DEF InSection
  <2> QED
    BY <1>2, <1>7, <2>1, ExclOutside
<1> QED
  BY <1>1, <1>2, <1>3, <1>7, <1>8

LEMMA LockTryAcquireCore ==
  ASSUME CoreInv, UNCHANGED program, NEW t \in Threads, NEW l \in Locks, LockTryAcquire(t, l)
  PROVE  /\ CoreInv' /\ t = current /\ t # Idle /\ bodies[t] = <<>> /\ call[t] = <<>>
         /\ call' = [call EXCEPT ![t] = << <<"taken", l>> >>]
         /\ bodies' = [bodies EXCEPT ![t] = << <<"taken", l>> >>]
<1> USE DEF CoreInv
<1> DEFINE b == << <<"taken", l>> >>
<1>2. /\ t = current /\ t # Idle /\ call[t] = <<>> /\ call' = [call EXCEPT ![t] = b]
      /\ value[l] > 0 /\ value' = [value EXCEPT ![l] = @ - 1]
      /\ UNCHANGED <<status, ready_list, current, intr, thread_ticks, idle_thread,
                     waiters, holder, cond, sleeping_thread_list, due, failed, created>>
  BY DEF LockTryAcquire, schedVars, sleepVars
<1>3. bodies[t] = <<>> /\ l \in Guarded /\ l \in Semas /\ l \in AllLocks
  BY <1>2 DEF bodies, Body, BodyOf, Guarded, Semas, AllLocks
<1>4. Holding(holder, t, <<>>)
  BY <1>3 DEF CallsInv
<1>5. holder[tid_lock] # t
  BY <1>4, NothingHolding
<1>6. Shape(t, b) /\ Holding(holder, t, b)
  BY <1>2, <1>3, <1>5, StepShape, CallHolding
<1>7. value[l] = 1 /\ \A v \in Threads : ~Owns(v, l)
  BY <1>2, <1>3 DEF Excl, Owned
<1>8. value' \in [Semas -> Nat] /\ value'[l] = 0 /\ \A r \in Guarded \ {l} : value'[r] = value[r]
  BY <1>2, <1>3, <1>7 DEF Types
<1>9. /\ Types' /\ CallsInv' /\ IntrInv' /\ FreeInv'
      /\ bodies' = [bodies EXCEPT ![t] = b]
  <2>1. created' \in 0..program.creates
    BY <1>2 DEF Types
  <2> HIDE DEF b
  <2> QED
    BY <1>2, <1>6, <1>8, <2>1, NewBodyCore
<1>10. Excl'
  <2>1. \A r \in Guarded : ~InSection(bodies[t], r) /\ (InSection(b, r) <=> r = l)
    BY <1>3 DEF InSection
  <2> HIDE DEF b
  <2>2. bodies'[t] = b /\ \A v \in Threads \ {t} : bodies'[v] = bodies[v]
    BY <1>9, BodySteps
  <2>3. Owned(l)'
    <3>1. Owns(t, l)'
      BY <1>3, <2>1, <2>2 DEF Owns
    <3>2. \A v \in Threads : Owns(v, l)' => v = t
      BY <1>2, <1>7, <2>2 DEF Owns
    <3> QED
      BY <1>8, <3>1, <3>2 DEF Owned
  <2>4. ASSUME NEW r \in Guarded, r # l
        PROVE  Owned(r)'
    <3>1. \A v \in Threads : Owns(v, r)' <=> Owns(v, r)
      BY <1>2, <2>1, <2>2, <2>4 DEF Owns
    <3>2. Owned(r)
      BY DEF Excl
    <3> QED
      BY <1>8, <2>4, <3>1, <3>2 DEF Owned
  <2> QED
    BY <2>3, <2>4 DEF Excl
<1> QED
  BY <1>2, <1>3, <1>9, <1>10

\* timer_interrupt: time goes by, sleepers wake up, and the interrupted thread
\* may have to yield.
TimerEffect(left, woken, us, b) ==
  /\ left = [t \in Threads |-> IF due[t] > 0 THEN due[t] - 1 ELSE 0]
  /\ left \in [Threads -> Nat] /\ due' = left
  /\ woken = try_to_wake_up_threads(left) /\ woken \in Seq(Threads)
  /\ us = unblocked(woken) /\ us \in Seq(Threads)
  /\ sleeping_thread_list' = remaining(woken)
  /\ value' = [s \in Semas |-> IF s \in Range(woken) THEN value[s] + 1 ELSE value[s]]
  /\ waiters' = [s \in Semas |-> IF s \in upped(woken) THEN rest(waiters[s]) ELSE waiters[s]]
  /\ b = resumed(current) /\ b \in Seq(Steps)
  /\ b = bodies[current] \/ (current = Idle /\ bodies[Idle] = << <<"hlt", 0>> >>
                               /\ b = << <<"block", 0>> >>)
  /\ UNCHANGED <<idle_thread, holder, cond, created>>
  /\ intr = "ON" /\ ~failed /\ bodies[current] = call[current]
  /\ \/ /\ unblock_fails(us) /\ failed' = TRUE
        /\ UNCHANGED <<status, ready_list, current, intr, thread_ticks, call>>
     \/ /\ ~unblock_fails(us)
        /\ call' = [call EXCEPT ![current] = <<ie>> \o b]
        /\ thread_yield(current, unblock(status, us), ready_list \o us)
     \/ /\ ~unblock_fails(us) /\ thread_ticks + 1 < TimeSlice
        /\ thread_ticks' = thread_ticks + 1
        /\ status' = unblock(status, us) /\ ready_list' = ready_list \o us
        /\ call' = [call EXCEPT ![current] = b]
        /\ UNCHANGED <<current, intr, failed>>

LEMMA TimerIs ==
  ASSUME CoreInv, TimerInterrupt
  PROVE  \E left, woken, us, b : TimerEffect(left, woken, us, b)
<1> USE DEF CoreInv
<1> DEFINE left == [t \in Threads |-> IF due[t] > 0 THEN due[t] - 1 ELSE 0]
           woken == try_to_wake_up_threads(left)
           us == unblocked(woken)
           b == resumed(current)
<1>1. left \in [Threads -> Nat]
  BY DEF Types
<1>2. woken \in Seq(Threads)
  <2> HIDE DEF left
  <2>1. PICK n \in 0..Len(sleeping_thread_list) : woken = SubSeq(sleeping_thread_list, 1, n)
    BY <1>1, WokenFront
  <2> HIDE DEF woken
  <2> QED
    BY <2>1, FrontOf DEF Types
<1> HIDE DEF left, woken
<1>3. us \in Seq(Threads)
  <2>1. unblocked_sleepers(woken) \in Seq(Threads)
    <3>1. PICK f : UpToAll(woken, Len(woken), f) /\ unblocked_sleepers(woken) = f[Len(woken)]
      BY <1>2, UnblockedSleepers
    <3>2. Len(woken) \in 0..Len(woken)
      BY <1>2
    <3> QED
      BY <3>1, <3>2 DEF UpToAll
  <2>2. first(waiters[sleeping_list_sema]) \in Seq(Threads) /\ <<>> \in Seq(Threads)
    BY SequenceRest DEF Types, Semas
  <2> QED
    BY <2>1, <2>2 DEF unblocked
<1>4. intr = "ON" /\ ~failed
  BY DEF TimerInterrupt
<1>5. bodies[current] = call[current] /\ bodies[current] \in Seq(Steps) /\ current \in Threads
  BY <1>4, BodySteps DEF IntrInv, Types
<1>6. /\ b \in Seq(Steps)
      /\ b = bodies[current] \/ (current = Idle /\ bodies[Idle] = << <<"hlt", 0>> >>
                                  /\ b = << <<"block", 0>> >>)
  <2>1. CASE call[current] = << <<"hlt", 0>> >>
    <3>1. b = << <<"block", 0>> >> /\ b \in Seq(Steps)
      BY <2>1 DEF resumed, Steps
    <3>2. current = Idle
      <4>1. 1 \in 1..Len(bodies[current]) /\ bodies[current][1] = <<"hlt", 0>>
        BY <1>5, <2>1
      <4> QED
        BY <1>5, <4>1 DEF CallsInv, Shape, FormShape
    <3> QED
      BY <1>5, <2>1, <3>1, <3>2
  <2>2. CASE call[current] # << <<"hlt", 0>> >>
    BY <1>5, <2>2 DEF resumed
  <2> QED
    BY <2>1, <2>2
<1> HIDE DEF us, b
<1>7. /\ due' = left
      /\ sleeping_thread_list' = remaining(woken)
      /\ value' = [s \in Semas |-> IF s \in Range(woken) THEN value[s] + 1 ELSE value[s]]
      /\ waiters' = [s \in Semas |-> IF s \in upped(woken) THEN rest(waiters[s])
                                                           ELSE waiters[s]]
      /\ UNCHANGED <<idle_thread, holder, cond, created>>
  BY DEF TimerInterrupt, left, woken
<1>8. \/ /\ unblock_fails(us) /\ failed' = TRUE
         /\ UNCHANGED <<status, ready_list, current, intr, thread_ticks, call>>
      \/ /\ ~unblock_fails(us)
         /\ call' = [call EXCEPT ![current] = <<ie>> \o b]
         /\ thread_yield(current, unblock(status, us), ready_list \o us)
      \/ /\ ~unblock_fails(us) /\ ~yield_on_return
         /\ thread_ticks' = thread_ticks + 1
         /\ status' = unblock(status, us) /\ ready_list' = ready_list \o us
         /\ call' = [call EXCEPT ![current] = b]
         /\ UNCHANGED <<current, intr, failed>>
  BY DEF TimerInterrupt, left, woken, us, b, ie, schedVars
<1>9. ~yield_on_return => thread_ticks + 1 < TimeSlice
  BY TimerAssumption DEF Types, yield_on_return
<1>10. left = [t \in Threads |-> IF due[t] > 0 THEN due[t] - 1 ELSE 0]
       /\ woken = try_to_wake_up_threads(left) /\ us = unblocked(woken) /\ b = resumed(current)
  BY DEF left, woken, us, b
<1>11. TimerEffect(left, woken, us, b)
  BY <1>1, <1>2, <1>3, <1>4, <1>5, <1>6, <1>7, <1>8, <1>9, <1>10 DEF TimerEffect
<1> QED
  BY <1>11

LEMMA TimerCore ==
  ASSUME CoreInv, UNCHANGED program,
         NEW left, NEW woken, NEW us, NEW b, TimerEffect(left, woken, us, b)
  PROVE  /\ CoreInv'
         /\ bodies' = bodies \/ bodies' = [bodies EXCEPT ![current] = b]
<1> USE DEF CoreInv
<1>1. /\ left \in [Threads -> Nat] /\ woken \in Seq(Threads) /\ us \in Seq(Threads)
      /\ b \in Seq(Steps) /\ bodies[current] = call[current] /\ current \in Threads
      /\ bodies \in [Threads -> Seq(Steps)]
      /\ UNCHANGED <<idle_thread, holder, cond, created, program>>
  BY BodySteps DEF TimerEffect, Types
<1> DEFINE stat == unblock(status, us)
           ready == IF current # idle_thread THEN Append(ready_list \o us, current)
                                             ELSE ready_list \o us
           stat2 == [stat EXCEPT ![current] = "READY"]
<1>2. /\ stat \in [Threads -> Statuses] /\ stat2 \in [Threads -> Statuses]
      /\ \A v \in Threads : stat[v] = "FREE" => status[v] = "FREE"
      /\ \A v \in Threads : stat2[v] = "FREE" => status[v] = "FREE"
      /\ stat2[current] = "READY"
  BY <1>1 DEF unblock, Types, Statuses
<1>3. ready_list \o us \in Seq(Threads) /\ ready \in Seq(Threads)
  <2>1. ready_list \o us \in Seq(Threads)
    BY <1>1 DEF Types
  <2> QED
    BY <1>1, <2>1
<1> HIDE DEF stat, ready, stat2
<1>4. /\ due' \in [Threads -> Nat] /\ value' \in [Semas -> Nat]
      /\ waiters' \in [Semas -> Seq(Threads)] /\ sleeping_thread_list' \in Seq(Threads)
  <2>1. due' \in [Threads -> Nat]
    BY <1>1 DEF TimerEffect
  <2>2. value' \in [Semas -> Nat]
    BY DEF TimerEffect, Types
  <2>3. waiters' \in [Semas -> Seq(Threads)]
    <3>1. \A s \in Semas : waiters[s] \in Seq(Threads) /\ rest(waiters[s]) \in Seq(Threads)
      BY SequenceRest DEF Types
    <3> QED
      BY <3>1 DEF TimerEffect
  <2>4. sleeping_thread_list' \in Seq(Threads)
    <3>1. sleeping_thread_list \in Seq(Threads) /\ Len(woken) \in Nat
      BY <1>1 DEF Types
    <3> QED
      BY <3>1 DEF TimerEffect, remaining
  <2> QED
    BY <2>1, <2>2, <2>3, <2>4
<1>5. \A r \in Guarded : value'[r] = value[r]
  <2>1. \A r \in Guarded : r \notin Range(woken) /\ r \in Semas
    BY <1>1, RangeOf, ThreadNotGuarded DEF Guarded, Semas
  <2> QED
    BY <2>1 DEF TimerEffect
<1>6. CASE /\ unblock_fails(us) /\ failed' = TRUE
           /\ UNCHANGED <<status, ready_list, current, intr, thread_ticks, call>>
  <2>1. bodies' = bodies
    BY <1>6, BodySame
  <2>2. Types'
    BY <1>1, <1>4, <1>6 DEF Types
  <2>3. CallsInv'
    BY <1>1, <2>1 DEF CallsInv
  <2>4. IntrInv' /\ FreeInv'
    BY <1>6 DEF IntrInv, FreeInv
  <2>5. Excl'
    <3>1. \A r \in Guarded, v \in Threads : Owns(v, r)' <=> Owns(v, r)
      BY <1>1, <2>1 DEF Owns
    <3> QED
      BY <1>5, <3>1, ExclSame
  <2> QED
    BY <2>1, <2>2, <2>3, <2>4, <2>5
<1>7. ASSUME bodies' = [bodies EXCEPT ![current] = b]
      PROVE  CallsInv' /\ Excl'
  <2>1. b = bodies[current] \/ (current = Idle /\ bodies[Idle] = << <<"hlt", 0>> >>
                                  /\ b = << <<"block", 0>> >>)
    BY DEF TimerEffect
  <2>2. Shape(current, b) /\ Holding(holder', current, b)
    <3>1. CASE b = bodies[current]
      BY <1>1, <3>1 DEF CallsInv
    <3>2. CASE current = Idle /\ b = << <<"block", 0>> >>
      BY <1>1, <3>2, IdleShape, IdleHolds
    <3> QED
      BY <2>1, <3>1, <3>2
  <2>3. \A s \in Guarded : InSection(b, s) <=> InSection(bodies[current], s)
    BY <2>1 DEF InSection
  <2>4. CallsInv'
    BY <1>1, <1>7, <2>2, CallsKept
  <2> QED
    BY <1>1, <1>5, <1>7, <2>3, <2>4, ExclOutside
<1>8. CASE /\ call' = [call EXCEPT ![current] = <<ie>> \o b]
           /\ thread_yield(current, unblock(status, us), ready_list \o us)
  <2>1. bodies' = [bodies EXCEPT ![current] = b]
    BY <1>1, <1>8, BodyStep
  <2>2. schedule(stat2, ready)
    BY <1>8 DEF thread_yield, stat, stat2, ready
  <2>3. /\ status' \in [Threads -> Statuses] /\ ready_list' \in Seq(Threads)
        /\ current' \in Threads /\ intr' \in {"ON", "OFF"}
        /\ thread_ticks' \in 0 .. TimeSlice - 1 /\ failed' \in BOOLEAN
        /\ ~failed' => intr' = "OFF"
        /\ \/ UNCHANGED <<status, current>>
           \/ \A v \in Threads : status'[v] = "FREE" =>
                /\ v # current'
                /\ \/ stat2[v] = "FREE"
                   \/ v = current /\ stat2[v] = "DYING" /\ v # Main
    BY <1>2, <1>3, <2>2, ScheduleStep
  <2>4. call' \in [Threads -> Seq(Steps \cup {ie})] /\ \A v \in Threads \ {current} : call'[v] = call[v]
    BY <1>1, <1>8, SubTypes DEF Types
  <2>5. Types'
    BY <1>1, <1>4, <2>3, <2>4 DEF Types, Statuses
  <2>6. IntrInv'
    BY <2>3 DEF IntrInv
  <2>7. FreeInv'
    BY <1>2, <2>3, <2>4, ScheduleFree
  <2> QED
    BY <1>7, <2>1, <2>5, <2>6, <2>7
<1>9. CASE /\ thread_ticks + 1 < TimeSlice
           /\ thread_ticks' = thread_ticks + 1
           /\ status' = unblock(status, us) /\ ready_list' = ready_list \o us
           /\ call' = [call EXCEPT ![current] = b]
           /\ UNCHANGED <<current, intr, failed>>
  <2>1. bodies' = [bodies EXCEPT ![current] = b]
    BY <1>1, <1>9, BodyStep
  <2>2. call' \in [Threads -> Seq(Steps \cup {ie})] /\ \A v \in Threads \ {current} : call'[v] = call[v]
        /\ call'[current] = b
    BY <1>1, <1>9, SubTypes DEF Types
  <2>3. thread_ticks' \in 0 .. TimeSlice - 1
    BY <1>9, TimerAssumption DEF Types
  <2>4. status' \in [Threads -> Statuses]
    BY <1>2, <1>9 DEF stat
  <2>5. Types'
    BY <1>1, <1>3, <1>4, <1>9, <2>2, <2>3, <2>4 DEF Types, Statuses
  <2>6. IntrInv'
    BY <1>1, <1>9, <2>1, <2>2 DEF IntrInv
  <2>7. FreeInv'
    BY <1>2, <1>9, <2>2, FreeKept DEF stat
  <2> QED
    BY <1>7, <2>1, <2>5, <2>6, <2>7
<1> QED
  <2>1. bodies' = bodies \/ bodies' = [bodies EXCEPT ![current] = b]
    <3>1. CASE UNCHANGED call
      BY <3>1, BodySame
    <3>2. CASE \/ call' = [call EXCEPT ![current] = <<ie>> \o b]
               \/ call' = [call EXCEPT ![current] = b]
      BY <1>1, <3>2, BodyStep
    <3> QED
      BY <3>1, <3>2 DEF TimerEffect
  <2> QED
    BY <1>6, <1>8, <1>9, <2>1 DEF TimerEffect

LEMMA CoreInvInit == Init => CoreInv
<1> SUFFICES ASSUME Init PROVE CoreInv
  OBVIOUS
<1> DEFINE idle == << <<"idle", 0>>, <<"sema_up", idle_started>>, <<"block", 0>> >>
           main == << <<"sema_down", idle_started>> >>
<1>1. /\ Main \in Threads /\ Idle \in Threads /\ Main # Idle
      /\ idle \in Seq(Steps) /\ main \in Seq(Steps) /\ <<>> \in Seq(Steps)
      /\ main # <<>>
  BY ThreadsAssumption DEF Threads, Steps, Semas
<1>2. /\ call[Main] = main /\ call[Idle] = <<ie>> \o idle
      /\ \A t \in Threads : t # Main /\ t # Idle => call[t] = <<>>
      /\ call = [t \in Threads |-> IF t = Main THEN main
                                   ELSE IF t = Idle THEN <<ie>> \o idle ELSE <<>>]
  <2>1. << <<"intr_enable", 0>>, <<"idle", 0>>, <<"sema_up", idle_started>>,
           <<"block", 0>> >> = <<ie>> \o idle
    BY DEF ie
  <2> QED
    BY <1>1, <2>1 DEF Init
<1>3. /\ bodies[Main] = main /\ bodies[Idle] = idle
      /\ \A t \in Threads : t # Main /\ t # Idle => bodies[t] = <<>>
  <2> HIDE DEF main, idle
  <2>1. BodyOf(main) = main /\ BodyOf(<<ie>> \o idle) = idle /\ BodyOf(<<>>) = <<>>
    BY <1>1, BodyOfPlain
  <2> QED
    BY <1>1, <1>2, <2>1 DEF bodies, Body
<1>4. Types
  <2>1. call \in [Threads -> Seq(Steps \cup {ie})]
    <3>1. /\ main \in Seq(Steps \cup {ie}) /\ <<ie>> \o idle \in Seq(Steps \cup {ie})
          /\ <<>> \in Seq(Steps \cup {ie})
      BY <1>1, SubTypes
    <3> HIDE DEF main, idle
    <3> QED
      BY <1>2, <3>1
  <2>2. status \in [Threads -> {"FREE", "RUNNING", "READY", "BLOCKED", "DYING"}]
    <3>1. status = [t \in Threads |-> IF t = Main THEN "RUNNING"
                                      ELSE IF t = Idle THEN "READY" ELSE "FREE"]
      BY <1>1 DEF Init
    <3> QED
      BY <3>1
  <2>3. /\ ready_list \in Seq(Threads) /\ current \in Threads /\ intr \in {"ON", "OFF"}
        /\ idle_thread \in {NULL, Idle} /\ thread_ticks \in 0 .. TimeSlice - 1
        /\ failed \in BOOLEAN /\ sleeping_thread_list \in Seq(Threads)
    <3>1. failed \in BOOLEAN /\ idle_thread \in {NULL, Idle} /\ intr \in {"ON", "OFF"}
      BY DEF Init
    <3>2. ready_list \in Seq(Threads) /\ sleeping_thread_list \in Seq(Threads)
      BY <1>1 DEF Init
    <3>3. current \in Threads /\ thread_ticks \in 0 .. TimeSlice - 1
      BY <1>1, TimerAssumption DEF Init
    <3> QED
      BY <3>1, <3>2, <3>3
  <2>4. /\ value \in [Semas -> Nat] /\ waiters \in [Semas -> Seq(Threads)]
        /\ holder \in [AllLocks -> Threads \cup {NULL}] /\ cond \in [Conds -> Seq(Threads)]
        /\ due \in [Threads -> Nat]
    <3>1. <<>> \in Seq(Threads)
      OBVIOUS
    <3> QED
      BY <3>1 DEF Init
  <2>5. program \in Programs /\ created \in 0..program.creates
    BY ProgramsAssumption DEF Init
  <2> QED
    BY <2>1, <2>2, <2>3, <2>4, <2>5 DEF Types
<1>5. CallsInv
  <2> SUFFICES ASSUME NEW t \in Threads
               PROVE  Shape(t, bodies[t]) /\ Holding(holder, t, bodies[t])
    BY DEF CallsInv
  <2>0. \A l \in AllLocks, v \in Threads : holder[l] # v
    BY ThreadsAssumption DEF Init
  <2>1. CASE t = Main
    <3>1. Len(main) = 1 /\ main[1] = <<"sema_down", idle_started>>
      OBVIOUS
    <3>2. idle_started \notin AllLocks /\ idle_started \notin Threads
          /\ idle_started # sleeping_list_sema
      BY SemasAssumption DEF AllLocks, tid_lock, idle_started, sleeping_list_sema
    <3> HIDE DEF main
    <3>3. LockShape(main) /\ SleepShape(t, main)
      BY <3>1, <3>2 DEF LockShape, SleepShape
    <3>4. StackShape(t, main) /\ FormShape(t, main)
      BY <1>1, <2>1, <3>1, <3>2 DEF StackShape, FormShape
    <3>5. Holding(holder, t, main)
      <4>1. tid_lock \in AllLocks
        BY DEF AllLocks
      <4> QED
        BY <2>0, <3>1, <3>2, <4>1 DEF Holding, AcquireHolding, CondHolding, TidHolding
    <3> QED
      BY <1>1, <1>3, <2>1, <3>3, <3>4, <3>5 DEF Shape
  <2>2. CASE t = Idle
    <3>1. /\ Len(idle) = 3 /\ idle[1] = <<"idle", 0>>
          /\ idle[2] = <<"sema_up", idle_started>> /\ idle[3] = <<"block", 0>>
      OBVIOUS
    <3>2. idle_started \notin AllLocks /\ idle_started \notin Threads
          /\ idle_started # sleeping_list_sema
      BY SemasAssumption DEF AllLocks, tid_lock, idle_started, sleeping_list_sema
    <3>3. FormShape(t, idle)
      <4>1. \E x : x = idle
        OBVIOUS
      <4>2. PICK x : x = idle
        BY <4>1
      <4>3. /\ Len(x) = 3 /\ x[1] = <<"idle", 0>>
            /\ x[2] = <<"sema_up", idle_started>> /\ x[3] = <<"block", 0>>
        BY <3>1, <4>2
      <4>4. x \in
       { << <<"idle", 0>>, <<"sema_up", idle_started>>, <<"block", 0>> >>,
         << <<"sema_up", idle_started>>, <<"block", 0>> >>,
         << <<"block", 0>> >>, << <<"hlt", 0>> >> }
        BY <4>2
      <4> HIDE DEF idle
      <4>5. FormShape(t, x)
        BY <2>2, <4>3, <4>4 DEF FormShape
      <4> QED
        BY <4>2, <4>5
    <3> HIDE DEF idle
    <3>4. LockShape(idle) /\ SleepShape(t, idle)
      BY <3>1, <3>2 DEF LockShape, SleepShape
    <3>5. StackShape(t, idle)
      BY <3>1, <3>2 DEF StackShape
    <3>6. Holding(holder, t, idle)
      <4>1. tid_lock \in AllLocks
        BY DEF AllLocks
      <4> QED
        BY <2>0, <3>1, <3>2, <4>1 DEF Holding, AcquireHolding, CondHolding, TidHolding
    <3> QED
      BY <1>1, <1>3, <2>2, <3>3, <3>4, <3>5, <3>6 DEF Shape
  <2>3. CASE t # Main /\ t # Idle
    <3>1. holder[tid_lock] # t
      BY <2>0 DEF AllLocks
    <3> QED
      BY <1>3, <2>3, <3>1, EmptyShape, NothingHolding
  <2> QED
    BY <2>1, <2>2, <2>3
<1>6. IntrInv
  BY <1>2, <1>3 DEF Init, IntrInv
<1>7. FreeInv
  <2>1. \A t \in Threads : status[t] = "FREE" => t # Main /\ t # Idle
    BY <1>1 DEF Init
  <2> QED
    BY <1>2, <2>1 DEF FreeInv, Threads, Init
<1>8. Excl
  <2> SUFFICES ASSUME NEW s \in Guarded PROVE Owned(s)
    BY DEF Excl
  <2>1. value[s] = 1
    BY DEF Init, Guarded, Semas
  <2>2. ASSUME NEW t \in Threads, s \in AllLocks PROVE holder[s] # t
    BY <2>2, ThreadsAssumption DEF Init
  <2>3. s # idle_started
    BY SemasAssumption DEF Guarded, AllLocks, tid_lock, idle_started, sleeping_list_sema
  <2>4. ASSUME NEW t \in Threads PROVE ~InSection(bodies[t], s)
    BY <1>3, <2>3 DEF InSection
  <2> QED
    BY <2>1, <2>2, <2>4 DEF Owned, Owns
<1> QED
  BY <1>4, <1>5, <1>6, <1>7, <1>8 DEF CoreInv

LEMMA CoreInvNext == CoreInv /\ [Next]_vars => CoreInv'
<1> SUFFICES ASSUME CoreInv, [Next]_vars PROVE CoreInv'
  OBVIOUS
<1>1. CASE UNCHANGED vars
  <2>1. UNCHANGED <<status, ready_list, current, intr, idle_thread, thread_ticks, call, value,
                    waiters, holder, cond, sleeping_thread_list, due, created, program, failed>>
    BY <1>1 DEF vars, kernelVars, schedVars, syncVars, sleepVars
  <2>2. bodies' = bodies
    BY <2>1, BodySame
  <2>3. Types' /\ CallsInv' /\ IntrInv' /\ FreeInv'
    BY <2>1, <2>2 DEF CoreInv, Types, CallsInv, IntrInv, FreeInv
  <2>4. Excl'
    <3>1. \A s \in Guarded, v \in Threads : Owns(v, s)' <=> Owns(v, s)
      BY <2>1, <2>2 DEF Owns
    <3> QED
      BY <2>1, <3>1, ExclSame DEF CoreInv
  <2> QED
    BY <2>3, <2>4 DEF CoreInv
<1>2. CASE Next
  <2>0. UNCHANGED program
    BY <1>2 DEF Next
  <2>1. ASSUME NEW t \in Threads, IntrEnable(t) PROVE CoreInv'
    BY <2>0, <2>1, IntrEnableCore
  <2>2. ASSUME NEW t \in Threads, ThreadYield(t) PROVE CoreInv'
    BY <2>0, <2>2, ThreadYieldCore
  <2>3. ASSUME NEW t \in Threads, ThreadExit(t) PROVE CoreInv'
    BY <2>0, <2>3, ThreadExitCore
  <2>4. CASE IdleStarts
    BY <2>0, <2>4, IdleStartsCore
  <2>5. CASE IdleBlocks
    BY <2>0, <2>5, IdleBlocksCore
  <2>6. ASSUME NEW t \in Threads, NEW s \in Semas, SemaDown(t, s) PROVE CoreInv'
    BY <2>0, <2>6, SemaDownCore
  <2>7. ASSUME NEW t \in Threads, NEW s \in Semas, SemaUp(t, s) PROVE CoreInv'
    BY <2>0, <2>7, SemaUpCore
  <2>8. ASSUME NEW t \in Threads, NEW l \in AllLocks, LockTaken(t, l) PROVE CoreInv'
    BY <2>0, <2>8, LockTakenCore
  <2>9. ASSUME NEW t \in Threads, NEW l \in AllLocks, LockDropped(t, l) PROVE CoreInv'
    BY <2>0, <2>9, LockDroppedCore
  <2>10. ASSUME NEW t \in Threads, NEW c \in Conds, CondQueue(t, c) PROVE CoreInv'
    BY <2>0, <2>10, CondQueueCore
  <2>11. ASSUME NEW t \in Threads, NEW c \in Conds, CondSignal(t, c) PROVE CoreInv'
    BY <2>0, <2>11, CondSignalCore
  <2>12. ASSUME NEW t \in Threads, NEW c \in Conds, CondBroadcast(t, c) PROVE CoreInv'
    BY <2>0, <2>12, CondBroadcastCore
  <2>13. ASSUME NEW t \in Threads, NEW n \in Durations, ReadTicks(t, n) PROVE CoreInv'
    BY <2>0, <2>13, ReadTicksCore
  <2>14. ASSUME NEW t \in Threads, InsertSleeper(t) PROVE CoreInv'
    BY <2>0, <2>14, InsertSleeperCore
  <2>15. ASSUME NEW t \in Threads, NEW u \in Others, InitThread(t, u) PROVE CoreInv'
    BY <2>0, <2>15, InitThreadCore
  <2>16. ASSUME NEW t \in Threads, NEW u \in Others, ThreadUnblock(t, u) PROVE CoreInv'
    BY <2>0, <2>16, ThreadUnblockCore
  <2>17. ASSUME NEW t \in Threads, Call(t) PROVE CoreInv'
    BY <2>0, <2>17, CallCore
  <2>18. ASSUME NEW t \in Threads, NEW l \in Locks, LockTryAcquire(t, l) PROVE CoreInv'
    BY <2>0, <2>18, LockTryAcquireCore
  <2>19. CASE TimerInterrupt
    <3>1. PICK left, woken, us, b : TimerEffect(left, woken, us, b)
      BY <2>19, TimerIs
    <3> QED
      BY <2>0, <3>1, TimerCore
  <2>20. ASSUME NEW t \in Threads, CallStep(t) PROVE CoreInv'
    BY <2>2, <2>3, <2>4, <2>5, <2>6, <2>7, <2>8, <2>9, <2>10, <2>11, <2>12, <2>13, <2>14,
       <2>15, <2>16, <2>20 DEF CallStep
  <2> QED
    BY <1>2, <2>1, <2>17, <2>18, <2>19, <2>20 DEF Next
<1> QED
  BY <1>1, <1>2

LEMMA CoreInvariant == Spec => []CoreInv
BY CoreInvInit, CoreInvNext, PTL DEF Spec

\* The step that a thread takes next, once interrupts are on.
LEMMA IsAtBody ==
  ASSUME CoreInv, NEW t \in Threads, NEW op, NEW arg, op # "intr_enable"
  PROVE  IsAt(t, <<op, arg>>) <=> bodies[t] # <<>> /\ bodies[t][1] = <<op, arg>>
<1>1. call[t] \in Seq(Steps \cup {ie}) /\ <<op, arg>> # ie
  BY DEF CoreInv, Types, ie
<1>2. CASE call[t] = <<>>
  BY <1>2 DEF IsAt, bodies, Body, BodyOf
<1>3. CASE call[t] # <<>> /\ Head(call[t]) # ie
  <2>1. bodies[t] = call[t]
    BY <1>3 DEF bodies, Body, BodyOf
  <2> QED
    BY <1>1, <1>3, <2>1 DEF IsAt, ie
<1>4. CASE call[t] # <<>> /\ Head(call[t]) = ie
  <2>1. bodies[t] = Tail(call[t])
    BY <1>4 DEF bodies, Body, BodyOf
  <2>2. /\ Len(call[t]) \in Nat \ {0} /\ Len(bodies[t]) = Len(call[t]) - 1
        /\ bodies[t] \in Seq(Steps \cup {ie})
        /\ \A i \in 1..Len(call[t]) - 1 : bodies[t][i] = call[t][i + 1]
    BY <1>1, <1>4, <2>1, TailEntries
  <2>3. bodies[t] # <<>> <=> Len(call[t]) > 1
    BY <2>2, EmptySeq
  <2>4. Len(call[t]) > 1 => bodies[t][1] = call[t][2]
    BY <2>2
  <2>5. Head(call[t]) = <<"intr_enable", 0>> /\ Head(call[t]) # <<op, arg>>
    BY <1>1, <1>4 DEF ie
  <2> QED
    BY <2>3, <2>4, <2>5, <1>4 DEF IsAt
<1> QED
  BY <1>2, <1>3, <1>4

LEMMA CoreLockExclusion == CoreInv => LockExclusion
<1> SUFFICES ASSUME CoreInv, NEW l \in AllLocks
             PROVE  value[l] + Cardinality({t \in Threads : holder[l] = t \/
                      (IsAt(t, <<"taken", l>>) \/ IsAt(t, <<"sema_up", l>>))}) = 1
  BY DEF LockExclusion
<1> DEFINE S == {t \in Threads : holder[l] = t \/
                      (IsAt(t, <<"taken", l>>) \/ IsAt(t, <<"sema_up", l>>))}
<1>1. ASSUME NEW t \in Threads, NEW op, op # "intr_enable"
      PROVE  IsAt(t, <<op, l>>) <=> bodies[t] # <<>> /\ bodies[t][1] = <<op, l>>
  BY <1>1, IsAtBody
<1>2. \A t \in Threads : Owns(t, l) <=> t \in S
  <2>1. l # sleeping_list_sema
    BY SemasAssumption DEF AllLocks, tid_lock, sleeping_list_sema
  <2>2. ASSUME NEW t \in Threads PROVE Owns(t, l) <=> t \in S
    <3>1. IsAt(t, <<"taken", l>>) <=> bodies[t] # <<>> /\ bodies[t][1] = <<"taken", l>>
      BY <1>1
    <3>2. IsAt(t, <<"sema_up", l>>) <=> bodies[t] # <<>> /\ bodies[t][1] = <<"sema_up", l>>
      BY <1>1
    <3> QED
      BY <2>1, <3>1, <3>2 DEF Owns, InSection
  <2> QED
    BY <2>2
<1>3. Owned(l)
  BY DEF CoreInv, Excl, Guarded
<1> HIDE DEF S
<1>4. S \subseteq Threads
  BY DEF S
<1>5. CASE value[l] = 1 /\ \A t \in Threads : ~Owns(t, l)
  <2>1. S = {}
    BY <1>2, <1>4, <1>5
  <2> QED
    BY <1>5, <2>1, FS_EmptySet DEF S
<1>6. CASE value[l] = 0 /\ \E t \in Threads : Owns(t, l) /\ \A v \in Threads : Owns(v, l) => v = t
  <2>1. PICK t \in Threads : Owns(t, l) /\ \A v \in Threads : Owns(v, l) => v = t
    BY <1>6
  <2>2. S = {t}
    BY <1>2, <1>4, <2>1
  <2>3. Cardinality(S) = 1
    BY <2>2, FS_Singleton
  <2> QED
    BY <1>6, <2>3 DEF S
<1> QED
  BY <1>3, <1>5, <1>6 DEF Owned

\* A lock is owned by at most one thread at a time, from the moment its
\* semaphore is down to the moment it is up again, whatever interrupts between:
\* lock_acquire, lock_try_acquire and lock_release of synch.c.
THEOREM LockExclusionHolds == Spec => []LockExclusion
BY CoreInvariant, CoreLockExclusion, PTL


(***************************************************************************)
(* No wake-up is lost: a thread that waits in timer_sleep or cond_wait has *)
(* exactly one waker, from when it has queued up until it goes on, and a   *)
(* thread that does not wait has none.                                     *)
(***************************************************************************)
Occurs(list, x) == \E i \in 1..Len(list) : list[i] = x
Once(list) == \A i, j \in 1..Len(list) : list[i] = list[j] => i = j

\* b goes through sema_down of the semaphore on the stack of t, which has queued
\* up by now.
Waiting(t, b) ==
  \E i \in 1..Len(b) :
    /\ b[i] = <<"sema_down", t>> /\ ~Before(b, i, <<"sleep", 0>>)
    /\ \A c \in Conds : ~Before(b, i, <<"cond_queue", c>>)

Upping(b, s) == b # <<>> /\ b[1] = <<"sema_up", s>>

\* Who is to wake up t: its semaphore is up, the timer finds it on the list of
\* the sleepers, a signal finds it on a condition, or thread u is about to up it.
Wakes(w, t) ==
  \/ w = <<"value", 0>> /\ value[t] = 1
  \/ w = <<"sleeping", 0>> /\ Occurs(sleeping_thread_list, t)
  \/ \E c \in Conds : w = <<"cond", c>> /\ Occurs(cond[c], t)
  \/ \E u \in Threads : w = <<"up", u>> /\ Upping(bodies[u], t)

WakeOf(t) ==
  /\ value[t] \in {0, 1}
  /\ Waiting(t, bodies[t]) => \E w : Wakes(w, t) /\ \A y : Wakes(y, t) => y = w
  /\ ~Waiting(t, bodies[t]) => \A w : ~Wakes(w, t)

QueueInv ==
  /\ \A t \in Threads : WakeOf(t)
  /\ Once(sleeping_thread_list)
  /\ \A c \in Conds : Once(cond[c])

LEMMA AppendOccurs ==
  ASSUME NEW S, NEW list \in Seq(S), NEW x \in S
  PROVE  /\ \A y : Occurs(Append(list, x), y) <=> Occurs(list, y) \/ y = x
         /\ Once(list) /\ ~Occurs(list, x) => Once(Append(list, x))
<1>1. PICK new : new = Append(list, x)
  OBVIOUS
<1>2. PICK k : k = Len(list)
  OBVIOUS
<1>3. k \in Nat /\ Len(new) = k + 1 /\ new[k + 1] = x /\ \A i \in 1..k : new[i] = list[i]
  BY <1>1, <1>2
<1>4. \A y : Occurs(new, y) <=> Occurs(list, y) \/ y = x
  <2> TAKE y
  <2>1. ASSUME NEW i \in 1..k + 1, new[i] = y
        PROVE  (\E j \in 1..k : list[j] = y) \/ y = x
    <3>1. i \in 1..k \/ i = k + 1
      BY <1>3
    <3> QED
      BY <1>3, <2>1, <3>1
  <2>2. ASSUME NEW j \in 1..k, list[j] = y
        PROVE  \E i \in 1..k + 1 : new[i] = y
    <3>1. j \in 1..k + 1 /\ new[j] = y
      BY <1>3, <2>2
    <3> QED
      BY <3>1
  <2>3. k + 1 \in 1..k + 1
    BY <1>3
  <2> QED
    BY <1>2, <1>3, <2>1, <2>2, <2>3 DEF Occurs
<1>5. ASSUME Once(list), ~Occurs(list, x)
      PROVE  Once(new)
  <2> SUFFICES ASSUME NEW i \in 1..k + 1, NEW j \in 1..k + 1, new[i] = new[j]
               PROVE  i = j
    BY <1>3 DEF Once
  <2>1. \A m \in 1..k : list[m] # x
    BY <1>2, <1>5 DEF Occurs
  <2>2. i \in 1..k /\ j \in 1..k => i = j
    BY <1>2, <1>3, <1>5 DEF Once
  <2>3. i \in 1..k <=> j \in 1..k
    BY <1>3, <2>1
  <2> QED
    BY <1>3, <2>2, <2>3
<1> QED
  BY <1>1, <1>4, <1>5

LEMMA SuffixOccurs ==
  ASSUME NEW S, NEW list \in Seq(S), NEW n \in 0..Len(list), Once(list)
  PROVE  /\ Once(SubSeq(list, n + 1, Len(list)))
         /\ \A y : Occurs(SubSeq(list, n + 1, Len(list)), y)
                     <=> Occurs(list, y) /\ ~Occurs(SubSeq(list, 1, n), y)
         /\ \A y : Occurs(SubSeq(list, 1, n), y) => Occurs(list, y)
<1>1. PICK k : k = Len(list)
  OBVIOUS
<1>2. PICK a : a = SubSeq(list, 1, n)
  OBVIOUS
<1>3. PICK z : z = SubSeq(list, n + 1, k)
  OBVIOUS
<1>4. k \in Nat /\ n \in 0..k /\ Len(a) = n /\ \A i \in 1..n : a[i] = list[i]
  BY <1>1, <1>2, FrontOf
<1>5. Len(z) = k - n /\ \A i \in 1..k - n : z[i] = list[i + n]
  BY <1>1, <1>3, SubSeqFrom
<1>6. \A i, j \in 1..k : list[i] = list[j] => i = j
  BY <1>1 DEF Once
<1>7. Once(z)
  <2> SUFFICES ASSUME NEW i \in 1..k - n, NEW j \in 1..k - n, z[i] = z[j]
               PROVE  i = j
    BY <1>5 DEF Once
  <2>1. i + n \in 1..k /\ j + n \in 1..k /\ list[i + n] = list[j + n]
    BY <1>4, <1>5
  <2>2. i + n = j + n
    BY <1>6, <2>1
  <2> QED
    BY <1>4, <2>2
<1>8. ASSUME NEW y
      PROVE  /\ Occurs(z, y) <=> Occurs(list, y) /\ ~Occurs(a, y)
             /\ Occurs(a, y) => Occurs(list, y)
  <2>1. ASSUME NEW i \in 1..k - n, z[i] = y
        PROVE  Occurs(list, y) /\ ~Occurs(a, y)
    <3>1. i + n \in 1..k /\ list[i + n] = y
      BY <1>4, <1>5, <2>1
    <3>2. \A j \in 1..n : j \in 1..k /\ j # i + n
      BY <1>4
    <3>3. \A j \in 1..n : a[j] # y
      BY <1>4, <1>6, <3>1, <3>2
    <3> QED
      BY <1>1, <1>4, <3>1, <3>3 DEF Occurs
  <2>2. ASSUME NEW i \in 1..k, list[i] = y, ~Occurs(a, y)
        PROVE  Occurs(z, y)
    <3>1. i \notin 1..n
      BY <1>4, <2>2 DEF Occurs
    <3>2. i - n \in 1..k - n /\ (i - n) + n = i
      BY <1>4, <3>1
    <3> QED
      BY <1>5, <2>2, <3>2 DEF Occurs
  <2>3. ASSUME NEW i \in 1..n, a[i] = y
        PROVE  Occurs(list, y)
    <3>1. i \in 1..k /\ list[i] = y
      BY <1>4, <2>3
    <3> QED
      BY <1>1, <3>1 DEF Occurs
  <2>4. Occurs(z, y) => \E i \in 1..k - n : z[i] = y
    BY <1>5 DEF Occurs
  <2>5. Occurs(list, y) => \E i \in 1..k : list[i] = y
    BY <1>1 DEF Occurs
  <2>6. Occurs(a, y) => \E i \in 1..n : a[i] = y
    BY <1>4 DEF Occurs
  <2> QED
    BY <2>1, <2>2, <2>3, <2>4, <2>5, <2>6
<1> QED
  BY <1>1, <1>2, <1>3, <1>7, <1>8

LEMMA InsertedOccurs ==
  ASSUME NEW S, NEW list \in Seq(S), NEW x \in S, NEW n \in 0..Len(list), NEW new,
         Inserted(list, x, n, new)
  PROVE  /\ \A y : Occurs(new, y) <=> Occurs(list, y) \/ y = x
         /\ Once(list) /\ ~Occurs(list, x) => Once(new)
<1>1. PICK k : k = Len(list)
  OBVIOUS
<1>2. /\ k \in Nat /\ n \in 0..k /\ Len(new) = k + 1 /\ new[n + 1] = x
      /\ \A i \in 1..n : new[i] = list[i]
      /\ \A i \in n + 1..k : new[i + 1] = list[i]
  <2>1. Len(list) \in Nat
    OBVIOUS
  <2>2. /\ Len(new) = Len(list) + 1 /\ new[n + 1] = x
        /\ \A i \in 1..n : new[i] = list[i]
        /\ \A i \in n + 1..Len(list) : new[i + 1] = list[i]
    BY DEF Inserted
  <2> QED
    BY <1>1, <2>1, <2>2
\* Where an entry of the new list comes from.
<1>3. ASSUME NEW i \in 1..k + 1
      PROVE  \/ i = n + 1 /\ new[i] = x
             \/ i \in 1..n /\ i \in 1..k /\ new[i] = list[i]
             \/ i \in n + 2..k + 1 /\ i - 1 \in 1..k /\ new[i] = list[i - 1]
  <2>1. CASE i = n + 1
    BY <1>2, <2>1
  <2>2. CASE i \in 1..n
    <3>1. i \in 1..k
      BY <1>2, <2>2
    <3> QED
      BY <1>2, <2>2, <3>1
  <2>3. CASE i \in n + 2..k + 1
    <3>1. i - 1 \in n + 1..k /\ i - 1 \in 1..k /\ (i - 1) + 1 = i
      BY <1>2, <2>3
    <3>2. new[i] = list[i - 1]
      BY <1>2, <3>1
    <3> QED
      BY <2>3, <3>1, <3>2
  <2> QED
    BY <1>2, <2>1, <2>2, <2>3
<1>4. \A y : Occurs(new, y) <=> Occurs(list, y) \/ y = x
  <2> TAKE y
  <2>1. ASSUME NEW i \in 1..k + 1, new[i] = y
        PROVE  (\E j \in 1..k : list[j] = y) \/ y = x
    BY <1>3, <2>1
  <2>2. ASSUME NEW j \in 1..k, list[j] = y
        PROVE  \E i \in 1..k + 1 : new[i] = y
    <3>1. CASE j \in 1..n
      <4>1. j \in 1..k + 1
        BY <1>2
      <4> QED
        BY <1>2, <2>2, <3>1, <4>1
    <3>2. CASE j \in n + 1..k
      <4>1. j + 1 \in 1..k + 1
        BY <1>2
      <4> QED
        BY <1>2, <2>2, <3>2, <4>1
    <3> QED
      BY <1>2, <3>1, <3>2
  <2>3. n + 1 \in 1..k + 1
    BY <1>2
  <2> QED
    BY <1>1, <1>2, <2>1, <2>2, <2>3 DEF Occurs
<1>5. ASSUME Once(list), ~Occurs(list, x)
      PROVE  Once(new)
  <2> SUFFICES ASSUME NEW i \in 1..k + 1, NEW j \in 1..k + 1, new[i] = new[j]
               PROVE  i = j
    BY <1>2 DEF Once
  <2>1. \A m \in 1..k : list[m] # x
    BY <1>1, <1>5 DEF Occurs
  <2>2. \A l, m \in 1..k : list[l] = list[m] => l = m
    BY <1>1, <1>5 DEF Once
  <2>3. \/ i = n + 1 /\ new[i] = x
        \/ i \in 1..n /\ i \in 1..k /\ new[i] = list[i]
        \/ i \in n + 2..k + 1 /\ i - 1 \in 1..k /\ new[i] = list[i - 1]
    BY <1>3
  <2>4. \/ j = n + 1 /\ new[j] = x
        \/ j \in 1..n /\ j \in 1..k /\ new[j] = list[j]
        \/ j \in n + 2..k + 1 /\ j - 1 \in 1..k /\ new[j] = list[j - 1]
    BY <1>3
  <2>5. i = n + 1 <=> j = n + 1
    BY <2>1, <2>3, <2>4
  <2>6. i \in 1..n /\ j \in 1..n => i = j
    BY <1>2, <2>2, <2>3, <2>4
  <2>7. i \in n + 2..k + 1 /\ j \in n + 2..k + 1 => i = j
    <3> SUFFICES ASSUME i \in n + 2..k + 1, j \in n + 2..k + 1 PROVE i = j
      OBVIOUS
    <3>1. i \notin 1..n /\ j \notin 1..n /\ i # n + 1 /\ j # n + 1
      BY <1>2
    <3>2. i - 1 = j - 1
      BY <2>2, <2>3, <2>4, <3>1
    <3> QED
      BY <1>2, <3>2
  <2>8. ~(i \in 1..n /\ j \in n + 2..k + 1) /\ ~(j \in 1..n /\ i \in n + 2..k + 1)
    <3>1. ASSUME i \in 1..n, j \in n + 2..k + 1 PROVE FALSE
      <4>1. i # n + 1 /\ j # n + 1 /\ i \notin n + 2..k + 1 /\ j \notin 1..n /\ i # j - 1
        BY <1>2, <3>1
      <4> QED
        BY <2>2, <2>3, <2>4, <4>1
    <3>2. ASSUME j \in 1..n, i \in n + 2..k + 1 PROVE FALSE
      <4>1. i # n + 1 /\ j # n + 1 /\ j \notin n + 2..k + 1 /\ i \notin 1..n /\ j # i - 1
        BY <1>2, <3>2
      <4> QED
        BY <2>2, <2>3, <2>4, <4>1
    <3> QED
      BY <3>1, <3>2
  <2> QED
    BY <2>3, <2>4, <2>5, <2>6, <2>7, <2>8
<1> QED
  BY <1>4, <1>5

\* Taking a step of the body.
LEMMA WaitingTail ==
  ASSUME NEW t \in Threads, NEW b, Shape(t, b), b # <<>>
  PROVE  /\ b[1] = <<"sema_down", t>> => Waiting(t, b) /\ ~Waiting(t, Tail(b))
         /\ (b[1] = <<"sleep", 0>> \/ \E c \in Conds : b[1] = <<"cond_queue", c>>)
              => ~Waiting(t, b) /\ Waiting(t, Tail(b))
         /\ (b[1] # <<"sema_down", t>> /\ b[1] # <<"sleep", 0>>
               /\ \A c \in Conds : b[1] # <<"cond_queue", c>>)
              => (Waiting(t, b) <=> Waiting(t, Tail(b)))
<1> DEFINE d == Tail(b)
           Q == {<<"sleep", 0>>} \cup {<<"cond_queue", c>> : c \in Conds}
<1>0. b \in Seq(Steps) /\ SleepShape(t, b) /\ StackShape(t, b)
  BY DEF Shape
<1>1. /\ Len(d) = Len(b) - 1 /\ Len(b) \in Nat \ {0}
      /\ \A i \in 1..Len(b) - 1 : d[i] = b[i + 1]
  BY <1>0, TailEntries
<1>2. ASSUME NEW v \in Seq(Steps)
      PROVE  Waiting(t, v) <=> \E i \in 1..Len(v) : v[i] = <<"sema_down", t>>
                                 /\ \A q \in Q : ~Before(v, i, q)
  BY DEF Waiting
<1>3. d \in Seq(Steps)
  BY <1>0, TailEntries
<1>4. \A i \in 1..Len(d), q \in Q : /\ Before(d, i, q) => Before(b, i + 1, q)
                                   /\ Before(b, i + 1, q) /\ b[1] # q => Before(d, i, q)
  BY <1>0, BeforeTail
<1>5. b[1] \in Q => \A i \in 2..Len(b) : Before(b, i, b[1])
  BY <1>1 DEF Before
<1>6. \A i, j \in 1..Len(b) : b[i] = <<"sema_down", t>> /\ b[j] = <<"sema_down", t>> => i = j
  BY <1>0 DEF StackShape
<1>7. <<"sema_down", t>> \notin Q
  OBVIOUS
<1> HIDE DEF d
<1>8. ASSUME b[1] = <<"sema_down", t>>
      PROVE  Waiting(t, b) /\ ~Waiting(t, d)
  <2>1. 1 \in 1..Len(b) /\ \A q \in Q : ~Before(b, 1, q)
    BY <1>1 DEF Before
  <2>2. \A i \in 1..Len(d) : i + 1 \in 1..Len(b) /\ i + 1 # 1 /\ d[i] = b[i + 1]
    BY <1>1
  <2>3. \A i \in 1..Len(d) : d[i] # <<"sema_down", t>>
    BY <1>6, <1>8, <2>1, <2>2
  <2> QED
    BY <1>0, <1>2, <1>3, <1>8, <2>1, <2>3
<1>9. ASSUME b[1] \in Q
      PROVE  ~Waiting(t, b) /\ Waiting(t, d)
  <2>1. ~Waiting(t, b)
    <3>1. \A i \in 1..Len(b) : i = 1 \/ i \in 2..Len(b)
      BY <1>1
    <3> QED
      BY <1>0, <1>2, <1>5, <1>7, <1>9, <3>1
  <2>2. CASE b[1] = <<"sleep", 0>>
    <3>1. 1 \in 1..Len(b)
      BY <1>1
    <3>2. Len(b) >= 3 /\ b[2] = <<"sema_up", sleeping_list_sema>> /\ b[3] = <<"sema_down", t>>
      BY <1>0, <1>1, <2>2, <3>1 DEF SleepShape
    <3>3. 2 \in 1..Len(d) /\ d[2] = <<"sema_down", t>> /\ d[1] = <<"sema_up", sleeping_list_sema>>
      BY <1>1, <3>2
    <3>4. \A q \in Q : ~Before(d, 2, q)
      BY <3>3 DEF Before
    <3> QED
      BY <1>2, <1>3, <2>1, <3>3, <3>4
  <2>3. CASE \E c \in Conds : b[1] = <<"cond_queue", c>>
    <3>0. PICK c \in Conds : b[1] = <<"cond_queue", c>>
      BY <2>3
    <3>1. 1 \in 1..Len(b)
      BY <1>1
    <3>2. /\ Len(b) >= 4 /\ b[2] = <<"dropped", LockOf[c]>> /\ b[3] = <<"sema_up", LockOf[c]>>
          /\ b[4] = <<"sema_down", t>>
      BY <1>0, <1>1, <3>0, <3>1 DEF SleepShape
    <3>3. /\ 3 \in 1..Len(d) /\ d[3] = <<"sema_down", t>> /\ d[1] = <<"dropped", LockOf[c]>>
          /\ d[2] = <<"sema_up", LockOf[c]>>
      BY <1>1, <3>2
    <3>4. \A q \in Q : ~Before(d, 3, q)
      <4>1. \A j \in 1..3 - 1 : j = 1 \/ j = 2
        OBVIOUS
      <4> QED
        BY <3>3, <4>1 DEF Before
    <3> QED
      BY <1>2, <1>3, <2>1, <3>3, <3>4
  <2> QED
    BY <1>9, <2>2, <2>3
<1>10. ASSUME b[1] # <<"sema_down", t>>, b[1] \notin Q
       PROVE  Waiting(t, b) <=> Waiting(t, d)
  <2>1. ASSUME NEW i \in 1..Len(b), b[i] = <<"sema_down", t>>, \A q \in Q : ~Before(b, i, q)
        PROVE  Waiting(t, d)
    <3>0. PICK j : j = i - 1
      OBVIOUS
    <3>1. j \in 1..Len(d) /\ d[j] = b[i] /\ j + 1 = i
      BY <1>1, <1>10, <2>1, <3>0
    <3>2. ASSUME NEW q \in Q, Before(d, j, q)
          PROVE  Before(b, i, q)
      <4>1. PICK m \in 1..j - 1 : d[m] = q
        BY <3>2 DEF Before
      <4>2. m + 1 \in 1..i - 1 /\ b[m + 1] = q
        BY <1>1, <3>1, <4>1
      <4> QED
        BY <4>2 DEF Before
    <3>3. \A q \in Q : ~Before(d, j, q)
      BY <2>1, <3>2
    <3> QED
      BY <1>2, <1>3, <2>1, <3>1, <3>3
  <2>2. ASSUME NEW i \in 1..Len(d), d[i] = <<"sema_down", t>>, \A q \in Q : ~Before(d, i, q)
        PROVE  Waiting(t, b)
    <3>1. i + 1 \in 1..Len(b) /\ b[i + 1] = <<"sema_down", t>>
      BY <1>1, <2>2
    <3>2. \A q \in Q : ~Before(b, i + 1, q)
      BY <1>4, <1>10, <2>2
    <3> QED
      BY <1>0, <1>2, <3>1, <3>2
  <2> QED
    BY <1>0, <1>2, <1>3, <2>1, <2>2
<1>11. (b[1] = <<"sleep", 0>> \/ \E c \in Conds : b[1] = <<"cond_queue", c>>) <=> b[1] \in Q
  OBVIOUS
<1> HIDE DEF Q
<1> QED
  BY <1>8, <1>9, <1>10, <1>11 DEF d

LEMMA UppingTail ==
  ASSUME NEW t \in Threads, NEW b, Shape(t, b), b # <<>>, NEW s \in Threads
  PROVE  ~Upping(Tail(b), s)
<1> SUFFICES ASSUME Tail(b) # <<>>, Tail(b)[1] = <<"sema_up", s>> PROVE FALSE
  BY DEF Upping
<1>0. b \in Seq(Steps)
  BY DEF Shape
<1>1. /\ Tail(b) \in Seq(Steps) /\ Len(Tail(b)) = Len(b) - 1 /\ Len(b) \in Nat \ {0}
      /\ \A i \in 1..Len(b) - 1 : Tail(b)[i] = b[i + 1]
  BY <1>0, TailEntries
<1>2. Len(Tail(b)) # 0
  BY <1>1, EmptySeq
<1>3. 2 \in 1..Len(b) /\ b[2] = <<"sema_up", s>>
  BY <1>1, <1>2
<1> QED
  BY <1>3 DEF Shape, StackShape


\* A step of t that wakes up no one and queues no one.
LEMMA QueueStep ==
  ASSUME QueueInv, bodies \in [Threads -> Seq(Steps)], NEW t \in Threads, NEW d,
         bodies' = [bodies EXCEPT ![t] = d],
         Waiting(t, d) <=> Waiting(t, bodies[t]),
         \A x \in Threads : ~Upping(bodies[t], x) /\ ~Upping(d, x),
         \A x \in Threads : value'[x] = value[x], UNCHANGED <<cond, sleeping_thread_list>>
  PROVE  QueueInv'
<1>1. bodies'[t] = d /\ \A x \in Threads : x # t => bodies'[x] = bodies[x]
  OBVIOUS
<1>2. \A x \in Threads : Waiting(x, bodies'[x]) <=> Waiting(x, bodies[x])
  BY <1>1
<1>3. \A u, x \in Threads : Upping(bodies'[u], x) <=> Upping(bodies[u], x)
  BY <1>1
<1>4. ASSUME NEW x \in Threads, NEW w
      PROVE  Wakes(w, x)' <=> Wakes(w, x)
  BY <1>3 DEF Wakes
<1>5. ASSUME NEW x \in Threads
      PROVE  WakeOf(x)'
  <2>1. WakeOf(x)
    BY DEF QueueInv
  <2>2. \A w : Wakes(w, x)' <=> Wakes(w, x)
    BY <1>4
  <2> QED
    BY <1>2, <2>1, <2>2 DEF WakeOf
<1> QED
  BY <1>5 DEF QueueInv

LEMMA QueueSame ==
  ASSUME QueueInv, bodies' = bodies, \A x \in Threads : value'[x] = value[x],
         UNCHANGED <<cond, sleeping_thread_list>>
  PROVE  QueueInv'
<1>1. ASSUME NEW x \in Threads
      PROVE  WakeOf(x)'
  <2>1. WakeOf(x)
    BY DEF QueueInv
  <2>2. \A w : Wakes(w, x)' <=> Wakes(w, x)
    BY DEF Wakes
  <2> QED
    BY <2>1, <2>2 DEF WakeOf
<1> QED
  BY <1>1 DEF QueueInv

\* A step that concerns no semaphore on a stack.
Plain(x) ==
  /\ x[1] \notin {"sleep", "cond_queue"}
  /\ x[1] \in {"sema_up", "sema_down"} => x[2] \notin Threads

LEMMA QueuePopped ==
  ASSUME QueueInv, CallsInv, NEW t \in Threads, bodies[t] # <<>>,
         bodies' = [bodies EXCEPT ![t] = Tail(bodies[t])], Plain(bodies[t][1]),
         \A x \in Threads : value'[x] = value[x], UNCHANGED <<cond, sleeping_thread_list>>
  PROVE  QueueInv'
<1>1. Shape(t, bodies[t]) /\ bodies \in [Threads -> Seq(Steps)]
  BY BodySteps DEF CallsInv
<1>2. Waiting(t, Tail(bodies[t])) <=> Waiting(t, bodies[t])
  <2>1. /\ bodies[t][1] # <<"sleep", 0>> /\ \A c \in Conds : bodies[t][1] # <<"cond_queue", c>>
        /\ bodies[t][1] # <<"sema_down", t>>
    BY DEF Plain
  <2> QED
    BY <1>1, <2>1, WaitingTail
<1>3. \A x \in Threads : ~Upping(bodies[t], x) /\ ~Upping(Tail(bodies[t]), x)
  <2>1. \A x \in Threads : bodies[t][1] # <<"sema_up", x>>
    BY DEF Plain
  <2> QED
    BY <1>1, <2>1, UppingTail DEF Upping
<1> QED
  BY <1>1, <1>2, <1>3, QueueStep

LEMMA EmptyQueue ==
  ASSUME NEW t \in Threads, NEW b, \A i \in 1..Len(b) : b[i] # <<"sema_down", t>>,
         b # <<>> => b[1][1] # "sema_up"
  PROVE  ~Waiting(t, b) /\ \A x \in Threads : ~Upping(b, x)
<1>1. ~Waiting(t, b)
  BY DEF Waiting
<1>2. \A x \in Threads : ~Upping(b, x)
  BY DEF Upping
<1> QED
  BY <1>1, <1>2

LEMMA YieldQueue ==
  ASSUME CoreInv, QueueInv, UNCHANGED program, NEW t \in Threads, ThreadYield(t)
  PROVE  QueueInv'
<1>1. bodies[t] # <<>> /\ bodies[t][1] = <<"yield", 0>>
  BY AtBody DEF ThreadYield, CoreInv
<1>2. bodies' = [bodies EXCEPT ![t] = Tail(bodies[t])]
  BY ThreadYieldCore
<1>3. UNCHANGED <<value, cond, sleeping_thread_list>>
  BY DEF ThreadYield, syncVars, sleepVars
<1>4. CallsInv /\ Plain(bodies[t][1])
  BY <1>1 DEF Plain, CoreInv
<1> QED
  BY <1>1, <1>2, <1>3, <1>4, QueuePopped

LEMMA ExitQueue ==
  ASSUME CoreInv, QueueInv, UNCHANGED program, NEW t \in Threads, ThreadExit(t)
  PROVE  QueueInv'
<1>1. bodies[t] = call[t] /\ bodies[t] # <<>> /\ bodies[t][1] = <<"exit", 0>> /\ Done(t)
  BY AtBody DEF ThreadExit, CoreInv
<1>2. bodies' = [bodies EXCEPT ![t] = Tail(bodies[t])]
  BY <1>1, BodyPopped DEF CoreInv
<1>3. UNCHANGED <<value, cond, sleeping_thread_list>>
  BY DEF ThreadExit, syncVars, sleepVars
<1>4. CallsInv /\ Plain(bodies[t][1])
  BY <1>1 DEF Plain, CoreInv
<1> QED
  BY <1>1, <1>2, <1>3, <1>4, QueuePopped

LEMMA IdleStartsQueue ==
  ASSUME CoreInv, QueueInv, UNCHANGED program, IdleStarts
  PROVE  QueueInv'
<1>0. Idle \in Threads
  BY DEF Threads
<1>1. bodies[Idle] # <<>> /\ bodies[Idle][1] = <<"idle", 0>>
  BY <1>0, AtBody DEF IdleStarts, CoreInv
<1>2. bodies' = [bodies EXCEPT ![Idle] = Tail(bodies[Idle])]
  BY IdleStartsCore
<1>3. UNCHANGED <<value, cond, sleeping_thread_list>>
  BY DEF IdleStarts, syncVars, sleepVars
<1>4. CallsInv /\ Plain(bodies[Idle][1])
  BY <1>1 DEF Plain, CoreInv
<1> QED
  BY <1>0, <1>1, <1>2, <1>3, <1>4, QueuePopped

\* The idle thread waits for nothing and wakes up no one.
LEMMA IdleQueue ==
  ASSUME NEW b, b \in { << <<"block", 0>> >>, << <<"hlt", 0>> >> }
  PROVE  ~Waiting(Idle, b) /\ \A x \in Threads : ~Upping(b, x)
<1>0. Idle \in Threads
  BY DEF Threads
<1>1. Len(b) = 1 /\ (b[1] = <<"block", 0>> \/ b[1] = <<"hlt", 0>>)
  OBVIOUS
<1>2. \A i \in 1..Len(b) : b[i] # <<"sema_down", Idle>>
  BY <1>1
<1> QED
  BY <1>0, <1>1, <1>2, EmptyQueue

LEMMA IdleBlocksQueue ==
  ASSUME CoreInv, QueueInv, UNCHANGED program, IdleBlocks
  PROVE  QueueInv'
<1>0. Idle \in Threads
  BY DEF Threads
<1>1. bodies[Idle] = << <<"block", 0>> >>
  <2>1. bodies[Idle][1] = <<"block", 0>>
    BY <1>0, AtBody DEF IdleBlocks, CoreInv
  <2>2. bodies[Idle] \in
       { << <<"idle", 0>>, <<"sema_up", idle_started>>, <<"block", 0>> >>,
         << <<"sema_up", idle_started>>, <<"block", 0>> >>,
         << <<"block", 0>> >>, << <<"hlt", 0>> >> }
    BY <1>0 DEF CoreInv, CallsInv, Shape, FormShape
  <2> QED
    BY <2>1, <2>2
<1> DEFINE d == << <<"hlt", 0>> >>
<1>2. bodies' = [bodies EXCEPT ![Idle] = d]
  BY IdleBlocksCore
<1>3. UNCHANGED <<value, cond, sleeping_thread_list>>
  BY DEF IdleBlocks, syncVars, sleepVars
<1>4. /\ ~Waiting(Idle, d) /\ ~Waiting(Idle, bodies[Idle])
      /\ \A x \in Threads : ~Upping(bodies[Idle], x) /\ ~Upping(d, x)
  BY <1>1, IdleQueue
<1>5. bodies \in [Threads -> Seq(Steps)]
  BY <1>0, BodySteps DEF CoreInv
<1> HIDE DEF d
<1> QED
  BY <1>0, <1>2, <1>3, <1>4, <1>5, QueueStep


\* sema_down: a thread that waits on its own semaphore goes on.
LEMMA SemaTakenQueue ==
  ASSUME CoreInv, QueueInv, NEW t \in Threads, NEW s \in Semas,
         At(t, "sema_down", s), value[s] > 0, value' = [value EXCEPT ![s] = @ - 1],
         bodies' = [bodies EXCEPT ![t] = Tail(bodies[t])], UNCHANGED <<cond, sleeping_thread_list>>
  PROVE  QueueInv'
<1>1. bodies[t] # <<>> /\ bodies[t][1] = <<"sema_down", s>>
  BY AtBody DEF CoreInv
<1>2. Shape(t, bodies[t]) /\ bodies \in [Threads -> Seq(Steps)] /\ Len(bodies[t]) \in Nat \ {0}
  <2>1. bodies \in [Threads -> Seq(Steps)]
    BY BodySteps DEF CoreInv
  <2>2. Len(bodies[t]) \in Nat \ {0}
    BY <1>1, <2>1, TailEntries
  <2> QED
    BY <2>1, <2>2 DEF CoreInv, CallsInv
<1>3. value \in [Semas -> Nat] /\ Threads \subseteq Semas
  BY DEF CoreInv, Types, Semas
<1>4. CASE s \notin Threads
  <2>1. \A x \in Threads : value'[x] = value[x]
    BY <1>3, <1>4
  <2>2. CallsInv /\ Plain(bodies[t][1])
    BY <1>1, <1>4 DEF Plain, CoreInv
  <2> QED
    BY <1>1, <2>1, <2>2, QueuePopped
<1>5. CASE s \in Threads
  <2>0. s = t
    <3>1. 1 \in 1..Len(bodies[t])
      BY <1>2
    <3> QED
      BY <1>1, <1>2, <1>5, <3>1 DEF Shape, StackShape
  <2>1. bodies'[t] = Tail(bodies[t]) /\ \A x \in Threads : x # t => bodies'[x] = bodies[x]
    BY <1>2
  <2>2. Waiting(t, bodies[t]) /\ ~Waiting(t, bodies'[t])
    BY <1>1, <1>2, <2>0, <2>1, WaitingTail
  <2>3. \A u, x \in Threads : Upping(bodies'[u], x) <=> Upping(bodies[u], x)
    <3>1. \A x \in Threads : ~Upping(bodies'[t], x) /\ ~Upping(bodies[t], x)
      <4>1. \A x \in Threads : ~Upping(Tail(bodies[t]), x)
        BY <1>1, <1>2, UppingTail
      <4>2. \A x \in Threads : ~Upping(bodies[t], x)
        BY <1>1 DEF Upping
      <4> QED
        BY <2>1, <4>1, <4>2
    <3> QED
      BY <2>1, <3>1
  <2>4. value[t] = 1 /\ value'[t] = 0 /\ \A x \in Threads : x # t => value'[x] = value[x]
    <3>1. value[t] \in {0, 1}
      BY DEF QueueInv, WakeOf
    <3> QED
      BY <1>3, <2>0, <3>1
  <2>5. ASSUME NEW x \in Threads, x # t
        PROVE  WakeOf(x)'
    <3>1. \A w : Wakes(w, x)' <=> Wakes(w, x)
      BY <2>3, <2>4, <2>5 DEF Wakes
    <3>2. WakeOf(x)
      BY DEF QueueInv
    <3> QED
      BY <2>1, <2>4, <2>5, <3>1, <3>2 DEF WakeOf
  <2>6. WakeOf(t)'
    <3>1. \A y : Wakes(y, t) => y = <<"value", 0>>
      <4>1. Wakes(<<"value", 0>>, t)
        BY <2>4 DEF Wakes
      <4> QED
        BY <2>2, <4>1 DEF QueueInv, WakeOf
    <3>2. ASSUME NEW w, Wakes(w, t)' PROVE FALSE
      <4>1. Wakes(w, t) /\ w # <<"value", 0>>
        BY <2>3, <2>4, <3>2 DEF Wakes
      <4> QED
        BY <3>1, <4>1
    <3> QED
      BY <2>2, <2>4, <3>2 DEF WakeOf
  <2> QED
    BY <2>5, <2>6 DEF QueueInv
<1> QED
  BY <1>4, <1>5

LEMMA SemaDownQueue ==
  ASSUME CoreInv, QueueInv, UNCHANGED program, NEW t \in Threads, NEW s \in Semas, SemaDown(t, s)
  PROVE  QueueInv'
<1>1. At(t, "sema_down", s) /\ UNCHANGED <<cond, sleeping_thread_list>>
  BY DEF SemaDown, sleepVars
<1>2. CASE value[s] > 0 /\ value' = [value EXCEPT ![s] = @ - 1] /\ Done(t)
  <2>1. bodies[t] = call[t] /\ bodies[t] # <<>>
    BY <1>1, AtBody DEF CoreInv
  <2>2. bodies' = [bodies EXCEPT ![t] = Tail(bodies[t])]
    BY <1>2, <2>1, BodyPopped DEF CoreInv
  <2> QED
    BY <1>1, <1>2, <2>2, SemaTakenQueue
<1>3. CASE UNCHANGED <<value, call>>
  BY <1>1, <1>3, BodySame, QueueSame
<1> QED
  BY <1>2, <1>3 DEF SemaDown

\* sema_up: the waker of a thread becomes the value of its semaphore.
LEMMA SemaUpQueue ==
  ASSUME CoreInv, QueueInv, UNCHANGED program, NEW t \in Threads, NEW s \in Semas, SemaUp(t, s)
  PROVE  QueueInv'
<1>0. /\ At(t, "sema_up", s) /\ value' = [value EXCEPT ![s] = @ + 1]
      /\ UNCHANGED <<cond, sleeping_thread_list>>
  BY DEF SemaUp, sleepVars
<1>1. bodies[t] # <<>> /\ bodies[t][1] = <<"sema_up", s>>
  BY <1>0, AtBody DEF CoreInv
<1>2. /\ Shape(t, bodies[t]) /\ bodies \in [Threads -> Seq(Steps)]
      /\ bodies' = [bodies EXCEPT ![t] = Tail(bodies[t])]
  BY BodySteps, SemaUpCore DEF CoreInv, CallsInv
<1>3. value \in [Semas -> Nat] /\ Threads \subseteq Semas
  BY DEF CoreInv, Types, Semas
<1>4. CASE s \notin Threads
  <2>1. \A x \in Threads : value'[x] = value[x]
    BY <1>0, <1>3, <1>4
  <2>2. CallsInv /\ Plain(bodies[t][1])
    BY <1>1, <1>4 DEF Plain, CoreInv
  <2> QED
    BY <1>0, <1>1, <1>2, <2>1, <2>2, QueuePopped
<1>5. CASE s \in Threads
  <2>1. bodies'[t] = Tail(bodies[t]) /\ \A x \in Threads : x # t => bodies'[x] = bodies[x]
    BY <1>2
  <2>2. \A x \in Threads : Waiting(x, bodies'[x]) <=> Waiting(x, bodies[x])
    <3>1. Waiting(t, bodies'[t]) <=> Waiting(t, bodies[t])
      BY <1>1, <1>2, <2>1, WaitingTail
    <3> QED
      BY <2>1, <3>1
  <2>3. \A u, x \in Threads : Upping(bodies'[u], x) <=> Upping(bodies[u], x) /\ u # t
    <3>1. \A x \in Threads : ~Upping(bodies'[t], x)
      BY <1>1, <1>2, <2>1, UppingTail
    <3> QED
      BY <2>1, <3>1
  <2>4. \A x \in Threads : Upping(bodies[t], x) <=> x = s
    BY <1>1 DEF Upping
  <2>5. ASSUME NEW x \in Threads, x # s
        PROVE  WakeOf(x)'
    <3>0. value'[x] = value[x]
      BY <1>0, <1>3, <2>5
    <3>1. \A u \in Threads : Upping(bodies'[u], x) <=> Upping(bodies[u], x)
      BY <2>3, <2>4, <2>5
    <3>2. \A w : Wakes(w, x)' <=> Wakes(w, x)
      BY <1>0, <3>0, <3>1 DEF Wakes
    <3>3. WakeOf(x)
      BY DEF QueueInv
    <3> QED
      BY <2>2, <3>0, <3>2, <3>3 DEF WakeOf
  <2>6. WakeOf(s)'
    <3>1. Wakes(<<"up", t>>, s)
      BY <1>5, <2>4 DEF Wakes
    <3>2. Waiting(s, bodies[s]) /\ \A y : Wakes(y, s) => y = <<"up", t>>
      BY <1>5, <3>1 DEF QueueInv, WakeOf
    <3>3. value[s] = 0
      <4>1. value[s] \in {0, 1}
        BY <1>5 DEF QueueInv, WakeOf
      <4>2. value[s] = 1 => Wakes(<<"value", 0>>, s)
        BY DEF Wakes
      <4> QED
        BY <3>2, <4>1, <4>2
    <3>4. value'[s] = 1
      BY <1>0, <1>3, <3>3
    <3>5. Wakes(<<"value", 0>>, s)'
      BY <3>4 DEF Wakes
    <3>6. ASSUME NEW y, Wakes(y, s)' PROVE y = <<"value", 0>>
      <4>1. CASE y # <<"value", 0>>
        <5>1. y # <<"up", t>>
          BY <1>5, <2>3, <3>6 DEF Wakes
        <5>2. Wakes(y, s)
          BY <1>0, <1>5, <2>3, <3>6, <4>1 DEF Wakes
        <5> QED
          BY <3>2, <5>1, <5>2
      <4> QED
        BY <4>1
    <3>7. \E w : Wakes(w, s)' /\ \A y : Wakes(y, s)' => y = w
      BY <3>5, <3>6
    <3>8. Waiting(s, bodies'[s])
      BY <1>5, <2>2, <3>2
    <3> QED
      BY <3>4, <3>7, <3>8 DEF WakeOf
  <2> QED
    BY <1>0, <2>5, <2>6 DEF QueueInv
<1> QED
  BY <1>4, <1>5

LEMMA LockQueue ==
  ASSUME CoreInv, QueueInv, UNCHANGED program, NEW t \in Threads, NEW l \in AllLocks,
         LockTaken(t, l) \/ LockDropped(t, l)
  PROVE  QueueInv'
<1>1. bodies[t] # <<>> /\ (bodies[t][1] = <<"taken", l>> \/ bodies[t][1] = <<"dropped", l>>)
  BY AtBody DEF LockTaken, LockDropped, CoreInv
<1>2. bodies' = [bodies EXCEPT ![t] = Tail(bodies[t])]
  BY LockTakenCore, LockDroppedCore
<1>3. UNCHANGED <<value, cond, sleeping_thread_list>>
  BY DEF LockTaken, LockDropped, sleepVars
<1>4. CallsInv /\ Plain(bodies[t][1])
  BY <1>1 DEF Plain, CoreInv
<1> QED
  BY <1>1, <1>2, <1>3, <1>4, QueuePopped

LEMMA ReadTicksQueue ==
  ASSUME CoreInv, QueueInv, UNCHANGED program, NEW t \in Threads, NEW n \in Durations,
         ReadTicks(t, n)
  PROVE  QueueInv'
<1>1. bodies[t] # <<>> /\ bodies[t][1] = <<"timer_ticks", n>>
  BY AtBody DEF ReadTicks, CoreInv
<1>2. bodies' = [bodies EXCEPT ![t] = Tail(bodies[t])]
  BY ReadTicksCore
<1>3. UNCHANGED <<value, cond, sleeping_thread_list>>
  BY DEF ReadTicks, syncVars
<1>4. CallsInv /\ Plain(bodies[t][1])
  BY <1>1 DEF Plain, CoreInv
<1> QED
  BY <1>1, <1>2, <1>3, <1>4, QueuePopped

LEMMA ThreadUnblockQueue ==
  ASSUME CoreInv, QueueInv, UNCHANGED program, NEW t \in Threads, NEW u \in Others,
         ThreadUnblock(t, u)
  PROVE  QueueInv'
<1>1. bodies[t] # <<>> /\ bodies[t][1] = <<"thread_unblock", u>>
  BY AtBody DEF ThreadUnblock, CoreInv
<1>2. bodies' = [bodies EXCEPT ![t] = Tail(bodies[t])]
  BY ThreadUnblockCore
<1>3. UNCHANGED <<value, cond, sleeping_thread_list>>
  BY DEF ThreadUnblock, syncVars, sleepVars
<1>4. CallsInv /\ Plain(bodies[t][1])
  BY <1>1 DEF Plain, CoreInv
<1> QED
  BY <1>1, <1>2, <1>3, <1>4, QueuePopped

\* A thread that queues up has no waker yet, and one from then on: w.
LEMMA NewWaker ==
  ASSUME CoreInv, QueueInv, NEW t \in Threads, bodies[t] # <<>>,
         bodies[t][1] = <<"sleep", 0>> \/ \E c \in Conds : bodies[t][1] = <<"cond_queue", c>>,
         bodies' = [bodies EXCEPT ![t] = Tail(bodies[t])],
         value' = [value EXCEPT ![t] = 0], NEW w, Wakes(w, t)',
         \A x \in Threads : Occurs(sleeping_thread_list', x)
           <=> Occurs(sleeping_thread_list, x) \/ (x = t /\ w = <<"sleeping", 0>>),
         \A c \in Conds, x \in Threads : Occurs(cond'[c], x)
           <=> Occurs(cond[c], x) \/ (x = t /\ w = <<"cond", c>>),
         Once(sleeping_thread_list'), \A c \in Conds : Once(cond'[c])
  PROVE  QueueInv'
<1>1. Shape(t, bodies[t]) /\ bodies \in [Threads -> Seq(Steps)]
      /\ value \in [Semas -> Nat] /\ Threads \subseteq Semas
  BY BodySteps DEF CoreInv, CallsInv, Types, Semas
<1>2. bodies'[t] = Tail(bodies[t]) /\ \A x \in Threads : x # t => bodies'[x] = bodies[x]
  BY <1>1
<1>3. ~Waiting(t, bodies[t]) /\ Waiting(t, bodies'[t])
  BY <1>1, <1>2, WaitingTail
<1>4. \A u, x \in Threads : Upping(bodies'[u], x) <=> Upping(bodies[u], x)
  <2>1. \A x \in Threads : ~Upping(bodies'[t], x) /\ ~Upping(bodies[t], x)
    <3>1. \A x \in Threads : ~Upping(bodies'[t], x)
      BY <1>1, <1>2, UppingTail
    <3>2. \A x \in Threads : ~Upping(bodies[t], x)
      BY DEF Upping
    <3> QED
      BY <3>1, <3>2
  <2> QED
    BY <1>2, <2>1
<1>5. value'[t] = 0 /\ \A x \in Threads : x # t => value'[x] = value[x]
  BY <1>1
<1>6. ASSUME NEW x \in Threads, x # t
      PROVE  WakeOf(x)'
  <2>1. \A y : Wakes(y, x)' <=> Wakes(y, x)
    BY <1>4, <1>5, <1>6 DEF Wakes
  <2>2. WakeOf(x)
    BY DEF QueueInv
  <2> QED
    BY <1>2, <1>5, <1>6, <2>1, <2>2 DEF WakeOf
<1>7. WakeOf(t)'
  <2>1. \A y : ~Wakes(y, t)
    BY <1>3 DEF QueueInv, WakeOf
  <2>2. ASSUME NEW y, Wakes(y, t)' PROVE y = w
    <3>1. ASSUME y # w PROVE Wakes(y, t)
      BY <1>4, <1>5, <2>2, <3>1 DEF Wakes
    <3> QED
      BY <2>1, <3>1
  <2>3. \E z : Wakes(z, t)' /\ \A y : Wakes(y, t)' => y = z
    BY <2>2
  <2> QED
    BY <1>3, <1>5, <2>3 DEF WakeOf
<1> QED
  BY <1>6, <1>7 DEF QueueInv

LEMMA CondQueueQueue ==
  ASSUME CoreInv, QueueInv, UNCHANGED program, NEW t \in Threads, NEW c \in Conds,
         CondQueue(t, c)
  PROVE  QueueInv'
<1>0. /\ At(t, "cond_queue", c) /\ value' = [value EXCEPT ![t] = 0]
      /\ cond' = [cond EXCEPT ![c] = Append(cond[c], t)] /\ UNCHANGED sleeping_thread_list
  BY DEF CondQueue, sleepVars
<1>1. bodies[t] # <<>> /\ bodies[t][1] = <<"cond_queue", c>>
  BY <1>0, AtBody DEF CoreInv
<1>2. bodies' = [bodies EXCEPT ![t] = Tail(bodies[t])]
  BY CondQueueCore
<1>3. cond \in [Conds -> Seq(Threads)] /\ Shape(t, bodies[t])
  BY DEF CoreInv, CallsInv, Types
<1>4. cond'[c] = Append(cond[c], t) /\ \A d \in Conds : d # c => cond'[d] = cond[d]
  BY <1>0, <1>3
<1>5. ~Occurs(cond[c], t)
  <2>1. ~Waiting(t, bodies[t])
    BY <1>1, <1>3, WaitingTail
  <2>2. ~Wakes(<<"cond", c>>, t)
    BY <2>1 DEF QueueInv, WakeOf
  <2> QED
    BY <2>2 DEF Wakes
<1>6. /\ \A x : Occurs(cond'[c], x) <=> Occurs(cond[c], x) \/ x = t
      /\ Once(cond'[c])
  BY <1>3, <1>4, <1>5, AppendOccurs DEF QueueInv
<1> DEFINE w == <<"cond", c>>
<1>7. Wakes(w, t)'
  BY <1>6 DEF Wakes
<1>8. \A x \in Threads : Occurs(sleeping_thread_list', x)
           <=> Occurs(sleeping_thread_list, x) \/ (x = t /\ w = <<"sleeping", 0>>)
  BY <1>0
<1>9. \A d \in Conds, x \in Threads : Occurs(cond'[d], x)
           <=> Occurs(cond[d], x) \/ (x = t /\ w = <<"cond", d>>)
  BY <1>4, <1>6
<1>10. Once(sleeping_thread_list') /\ \A d \in Conds : Once(cond'[d])
  BY <1>0, <1>4, <1>6 DEF QueueInv
<1>11. w = <<"cond", c>>
  OBVIOUS
<1> HIDE DEF w
<1> QED
  BY <1>0, <1>1, <1>2, <1>7, <1>8, <1>9, <1>10, NewWaker

LEMMA InsertSleeperQueue ==
  ASSUME CoreInv, QueueInv, UNCHANGED program, NEW t \in Threads, InsertSleeper(t)
  PROVE  QueueInv'
<1>0. /\ At(t, "sleep", 0) /\ value' = [value EXCEPT ![t] = 0]
      /\ sleeping_thread_list' = list_insert_ordered(sleeping_thread_list, t) /\ UNCHANGED cond
  BY DEF InsertSleeper
<1>1. bodies[t] # <<>> /\ bodies[t][1] = <<"sleep", 0>>
  BY <1>0, AtBody DEF CoreInv
<1>2. bodies' = [bodies EXCEPT ![t] = Tail(bodies[t])]
  BY InsertSleeperCore
<1>3. sleeping_thread_list \in Seq(Threads) /\ Shape(t, bodies[t])
  BY DEF CoreInv, CallsInv, Types
<1>4. ~Occurs(sleeping_thread_list, t)
  <2>1. ~Waiting(t, bodies[t])
    BY <1>1, <1>3, WaitingTail
  <2>2. ~Wakes(<<"sleeping", 0>>, t)
    BY <2>1 DEF QueueInv, WakeOf
  <2> QED
    BY <2>2 DEF Wakes
<1>5. PICK n \in 0..Len(sleeping_thread_list) :
        Inserted(sleeping_thread_list, t, n, sleeping_thread_list')
  BY <1>0, <1>3, InsertedList
<1>6. /\ \A x : Occurs(sleeping_thread_list', x) <=> Occurs(sleeping_thread_list, x) \/ x = t
      /\ Once(sleeping_thread_list')
  BY <1>3, <1>4, <1>5, InsertedOccurs DEF QueueInv
<1> DEFINE w == <<"sleeping", 0>>
<1>7. Wakes(w, t)'
  BY <1>6 DEF Wakes
<1>8. \A x \in Threads : Occurs(sleeping_thread_list', x)
           <=> Occurs(sleeping_thread_list, x) \/ (x = t /\ w = <<"sleeping", 0>>)
  BY <1>6
<1>9. \A d \in Conds, x \in Threads : Occurs(cond'[d], x)
           <=> Occurs(cond[d], x) \/ (x = t /\ w = <<"cond", d>>)
  BY <1>0
<1>10. Once(sleeping_thread_list') /\ \A d \in Conds : Once(cond'[d])
  BY <1>0, <1>6 DEF QueueInv
<1> HIDE DEF w
<1> QED
  BY <1>0, <1>1, <1>2, <1>7, <1>8, <1>9, <1>10, NewWaker


LEMMA RestOccurs ==
  ASSUME NEW S, NEW list \in Seq(S), list # <<>>, Once(list)
  PROVE  /\ Once(rest(list))
         /\ \A y : Occurs(rest(list), y) <=> Occurs(list, y) /\ y # list[1]
<1>1. Len(list) \in Nat \ {0} /\ 1 \in 0..Len(list)
  BY EmptySeq
<1>2. PICK z : z = rest(list)
  OBVIOUS
<1>3. z = SubSeq(list, 1 + 1, Len(list))
  BY <1>2 DEF rest
<1>4. \A y : Occurs(SubSeq(list, 1, 1), y) <=> y = list[1]
  <2>1. Len(SubSeq(list, 1, 1)) = 1 /\ SubSeq(list, 1, 1)[1] = list[1]
    BY <1>1, FrontOf
  <2> QED
    BY <2>1 DEF Occurs
<1>5. Once(z) /\ \A y : Occurs(z, y) <=> Occurs(list, y) /\ ~Occurs(SubSeq(list, 1, 1), y)
  BY <1>1, <1>3, SuffixOccurs
<1> QED
  BY <1>2, <1>4, <1>5

LEMMA Pushed ==
  ASSUME NEW S, NEW x \in S, NEW b \in Seq(S)
  PROVE  /\ <<x>> \o b \in Seq(S) /\ <<x>> \o b # <<>>
         /\ (<<x>> \o b)[1] = x /\ Tail(<<x>> \o b) = b
<1>1. /\ <<x>> \o b \in Seq(S) /\ <<x>> \o b # <<>>
      /\ (<<x>> \o b)[1] = x /\ Len(<<x>> \o b) = Len(b) + 1
      /\ \A i \in 1..Len(b) : (<<x>> \o b)[i + 1] = b[i]
  OBVIOUS
<1>2. PICK d : d = <<x>> \o b
  OBVIOUS
<1>3. PICK e : e = Tail(d)
  OBVIOUS
<1>4. e \in Seq(S) /\ Len(e) = Len(d) - 1 /\ \A i \in 1..Len(d) - 1 : e[i] = d[i + 1]
  BY <1>1, <1>2, <1>3, TailEntries
<1>5. Len(e) = Len(b) /\ \A i \in 1..Len(e) : e[i] = b[i]
  BY <1>1, <1>2, <1>4
<1>6. e = b
  BY <1>4, <1>5, SeqEqual
<1> QED
  BY <1>1, <1>2, <1>3, <1>6

LEMMA CondSignalQueue ==
  ASSUME CoreInv, QueueInv, UNCHANGED program, NEW t \in Threads, NEW c \in Conds,
         CondSignal(t, c)
  PROVE  QueueInv'
<1>0. /\ At(t, "cond_signal", c) /\ cond' = [cond EXCEPT ![c] = rest(cond[c])]
      /\ UNCHANGED <<value, sleeping_thread_list>>
  BY DEF CondSignal, sleepVars
<1>1. bodies[t] # <<>> /\ bodies[t][1] = <<"cond_signal", c>>
  BY <1>0, AtBody DEF CoreInv
<1>2. /\ bodies' = [bodies EXCEPT ![t] = SignalledBody(t, c)] /\ CoreInv'
      /\ bodies \in [Threads -> Seq(Steps)] /\ Shape(t, bodies[t])
      /\ cond \in [Conds -> Seq(Threads)]
  BY CondSignalCore, BodySteps DEF CoreInv, CallsInv, Types
<1>3. Tail(bodies[t]) \in Seq(Steps)
  BY <1>1, <1>2, TailEntries
<1>4. CASE cond[c] = <<>>
  <2>1. SignalledBody(t, c) = Tail(bodies[t])
    BY <1>3, <1>4 DEF SignalledBody
  <2>2. rest(cond[c]) = cond[c]
    BY <1>4 DEF rest
  <2>3. cond' = cond
    BY <1>0, <1>2, <2>2
  <2>4. CallsInv /\ Plain(bodies[t][1])
    BY <1>1 DEF Plain, CoreInv
  <2> QED
    BY <1>0, <1>1, <1>2, <2>1, <2>3, <2>4, QueuePopped
<1>5. CASE cond[c] # <<>>
  <2>0. PICK v : v = cond[c][1]
    OBVIOUS
  <2>1. v \in Threads /\ Occurs(cond[c], v)
    <3>1. cond[c] \in Seq(Threads) /\ Len(cond[c]) \in Nat \ {0}
      BY <1>2, <1>5, EmptySeq
    <3> QED
      BY <2>0, <3>1 DEF Occurs
  <2>2. PICK d : d = SignalledBody(t, c)
    OBVIOUS
  <2>3. d # <<>> /\ d[1] = <<"sema_up", v>> /\ Tail(d) = Tail(bodies[t])
    <3>1. <<"sema_up", v>> \in Steps
      BY <2>1 DEF Steps, Semas
    <3>2. d = << <<"sema_up", v>> >> \o Tail(bodies[t])
      BY <1>5, <2>0, <2>2 DEF SignalledBody
    <3> QED
      BY <1>3, <3>1, <3>2, Pushed
  <2>4. bodies'[t] = d /\ \A x \in Threads : x # t => bodies'[x] = bodies[x]
    BY <1>2, <2>2
  <2>5. \A x \in Threads : Waiting(x, bodies'[x]) <=> Waiting(x, bodies[x])
    <3>1. Waiting(t, bodies[t]) <=> Waiting(t, Tail(bodies[t]))
      BY <1>1, <1>2, WaitingTail
    <3>2. Shape(t, d)
      BY <1>2, <2>4 DEF CoreInv, CallsInv
    <3>3. Waiting(t, d) <=> Waiting(t, Tail(d))
      BY <2>3, <3>2, WaitingTail
    <3> QED
      BY <2>3, <2>4, <3>1, <3>3
  <2>6. \A u, x \in Threads : Upping(bodies'[u], x) <=> Upping(bodies[u], x) \/ (u = t /\ x = v)
    <3>1. \A x \in Threads : ~Upping(bodies[t], x) /\ (Upping(d, x) <=> x = v)
      BY <1>1, <2>3 DEF Upping
    <3> QED
      BY <2>4, <3>1
  <2>7. /\ cond'[c] = rest(cond[c]) /\ \A e \in Conds : e # c => cond'[e] = cond[e]
        /\ Once(cond'[c]) /\ \A y : Occurs(cond'[c], y) <=> Occurs(cond[c], y) /\ y # v
    <3>1. cond'[c] = rest(cond[c]) /\ \A e \in Conds : e # c => cond'[e] = cond[e]
      BY <1>0, <1>2
    <3>2. cond[c] \in Seq(Threads) /\ Once(cond[c])
      BY <1>2 DEF QueueInv
    <3>3. Once(rest(cond[c])) /\ \A y : Occurs(rest(cond[c]), y)
                                         <=> Occurs(cond[c], y) /\ y # cond[c][1]
      BY <1>5, <3>2, RestOccurs
    <3> QED
      BY <2>0, <3>1, <3>3
  <2>8. ASSUME NEW x \in Threads, x # v
        PROVE  WakeOf(x)'
    <3>1. \A u \in Threads : Upping(bodies'[u], x) <=> Upping(bodies[u], x)
      BY <2>6, <2>8
    <3>2. \A e \in Conds : Occurs(cond'[e], x) <=> Occurs(cond[e], x)
      BY <2>7, <2>8
    <3>3. \A w : Wakes(w, x)' <=> Wakes(w, x)
      BY <1>0, <3>1, <3>2 DEF Wakes
    <3>4. WakeOf(x)
      BY DEF QueueInv
    <3> QED
      BY <1>0, <2>5, <3>3, <3>4 DEF WakeOf
  <2>9. WakeOf(v)'
    <3>1. Wakes(<<"cond", c>>, v)
      BY <2>1 DEF Wakes
    <3>2. Waiting(v, bodies[v]) /\ \A y : Wakes(y, v) => y = <<"cond", c>>
      BY <2>1, <3>1 DEF QueueInv, WakeOf
    <3>3. Wakes(<<"up", t>>, v)'
      BY <2>1, <2>6 DEF Wakes
    <3>4. ASSUME NEW y, Wakes(y, v)' PROVE y = <<"up", t>>
      <4>1. CASE y # <<"up", t>>
        <5>1. y # <<"cond", c>>
          BY <2>7, <3>4 DEF Wakes
        <5>2. \A e \in Conds : Occurs(cond'[e], v) => Occurs(cond[e], v)
          BY <2>7
        <5>3. Wakes(y, v)
          BY <1>0, <2>1, <2>6, <3>4, <4>1, <5>2 DEF Wakes
        <5> QED
          BY <3>2, <5>1, <5>3
      <4> QED
        BY <4>1
    <3>5. \E w : Wakes(w, v)' /\ \A y : Wakes(y, v)' => y = w
      BY <3>3, <3>4
    <3>6. Waiting(v, bodies'[v])
      BY <2>1, <2>5, <3>2
    <3>7. value'[v] \in {0, 1}
      BY <1>0, <2>1 DEF QueueInv, WakeOf
    <3> QED
      BY <3>5, <3>6, <3>7 DEF WakeOf
  <2>10. \A e \in Conds : Once(cond'[e])
    BY <2>7 DEF QueueInv
  <2> QED
    BY <1>0, <2>8, <2>9, <2>10 DEF QueueInv
<1> QED
  BY <1>4, <1>5

LEMMA CondBroadcastQueue ==
  ASSUME CoreInv, QueueInv, UNCHANGED program, NEW t \in Threads, NEW c \in Conds,
         CondBroadcast(t, c)
  PROVE  QueueInv'
<1>0. At(t, "cond_broadcast", c) /\ UNCHANGED <<value, cond, sleeping_thread_list>>
  BY DEF CondBroadcast, syncVars, sleepVars
<1>1. bodies[t] # <<>> /\ bodies[t][1] = <<"cond_broadcast", c>>
  BY <1>0, AtBody DEF CoreInv
<1>2. /\ bodies' = [bodies EXCEPT ![t] = BroadcastBodyOf(t, c)] /\ CoreInv'
      /\ bodies \in [Threads -> Seq(Steps)] /\ Shape(t, bodies[t])
  BY CondBroadcastCore, BodySteps DEF CoreInv, CallsInv
<1>3. CASE cond[c] = <<>>
  <2>1. BroadcastBodyOf(t, c) = Tail(bodies[t])
    BY <1>3 DEF BroadcastBodyOf
  <2>2. CallsInv /\ Plain(bodies[t][1])
    BY <1>1 DEF Plain, CoreInv
  <2> QED
    BY <1>0, <1>1, <1>2, <2>1, <2>2, QueuePopped
<1>4. CASE cond[c] # <<>>
  <2>1. PICK d : d = BroadcastBodyOf(t, c)
    OBVIOUS
  <2>2. d # <<>> /\ d[1] = <<"cond_signal", c>> /\ Tail(d) = bodies[t]
    <3>1. <<"cond_signal", c>> \in Steps
      BY DEF Steps
    <3>2. bodies[t] \in Seq(Steps) /\ d = << <<"cond_signal", c>> >> \o bodies[t]
      BY <1>2, <1>4, <2>1 DEF BroadcastBodyOf
    <3> QED
      BY <3>1, <3>2, Pushed
  <2>3. Shape(t, d)
    BY <1>2, <2>1 DEF CoreInv, CallsInv
  <2>4. Waiting(t, d) <=> Waiting(t, bodies[t])
    <3>1. /\ d[1] # <<"sema_down", t>> /\ d[1] # <<"sleep", 0>>
          /\ \A e \in Conds : d[1] # <<"cond_queue", e>>
      BY <2>2
    <3>2. Waiting(t, d) <=> Waiting(t, Tail(d))
      BY <2>2, <2>3, <3>1, WaitingTail
    <3> QED
      BY <2>2, <3>2
  <2>5. \A x \in Threads : ~Upping(bodies[t], x) /\ ~Upping(d, x)
    BY <1>1, <2>2 DEF Upping
  <2> QED
    BY <1>0, <1>2, <2>1, <2>4, <2>5, QueueStep
<1> QED
  BY <1>3, <1>4

LEMMA InitThreadQueue ==
  ASSUME CoreInv, QueueInv, UNCHANGED program, NEW t \in Threads, NEW u \in Others,
         InitThread(t, u)
  PROVE  QueueInv'
<1>0. At(t, "init_thread", u) /\ UNCHANGED <<value, cond, sleeping_thread_list>>
  BY DEF InitThread, syncVars, sleepVars
<1>1. /\ bodies[t] # <<>> /\ bodies[t][1] = <<"init_thread", u>>
      /\ bodies \in [Threads -> Seq(Steps)] /\ FormShape(t, bodies[t])
  BY <1>0, AtBody, BodySteps DEF CoreInv, CallsInv, Shape
<1>2. ~Waiting(t, bodies[t]) /\ \A x \in Threads : ~Upping(bodies[t], x)
  <2>1. 1 \in 1..Len(bodies[t])
    BY <1>1, TailEntries
  <2>2. Len(bodies[t]) = 1
    BY <1>1, <2>1 DEF FormShape
  <2>3. \A i \in 1..Len(bodies[t]) : bodies[t][i] # <<"sema_down", t>>
    BY <1>1, <2>2
  <2>4. bodies[t][1][1] # "sema_up"
    BY <1>1
  <2> QED
    BY <2>3, <2>4, EmptyQueue
<1>3. ~Waiting(t, creating(u)) /\ \A x \in Threads : ~Upping(creating(u), x)
  <2>1. t # tid_lock
    BY SemasAssumption DEF AllLocks
  <2>2. /\ Len(creating(u)) = 5 /\ creating(u)[1] = <<"sema_down", tid_lock>>
        /\ creating(u)[2] = <<"taken", tid_lock>> /\ creating(u)[3] = <<"dropped", tid_lock>>
        /\ creating(u)[4] = <<"sema_up", tid_lock>> /\ creating(u)[5] = <<"thread_unblock", u>>
    BY DEF creating, lock_acquire, lock_release
  <2>3. \A i \in 1..Len(creating(u)) : creating(u)[i] # <<"sema_down", t>>
    BY <2>1, <2>2
  <2>4. creating(u)[1][1] # "sema_up"
    BY <2>2
  <2> QED
    BY <2>3, <2>4, EmptyQueue
<1>4. ~Waiting(t, <<>>) /\ \A x \in Threads : ~Upping(<<>>, x)
  BY EmptyQueue
<1>5. \/ bodies' = [bodies EXCEPT ![t] = creating(u)]
      \/ bodies' = [bodies EXCEPT ![t] = <<>>]
  BY InitThreadCore
<1> QED
  BY <1>0, <1>1, <1>2, <1>3, <1>4, <1>5, QueueStep

LEMMA IsCallQueue ==
  ASSUME NEW t \in Threads, NEW b, IsCall(t, b)
  PROVE  ~Waiting(t, b) /\ \A x \in Threads : ~Upping(b, x)
<1>0. t \notin Locks /\ t # sleeping_list_sema /\ (\A c \in Conds : LockOf[c] \in Locks)
  BY SemasAssumption, CondsAssumption DEF AllLocks
<1>1. ASSUME NEW l \in Locks, b = lock_acquire(l) \/ b = lock_release(l)
      PROVE  ~Waiting(t, b) /\ \A x \in Threads : ~Upping(b, x)
  <2>1. \A i \in 1..Len(b) : b[i] # <<"sema_down", t>>
    BY <1>0, <1>1 DEF lock_acquire, lock_release
  <2>2. b[1][1] # "sema_up"
    BY <1>1 DEF lock_acquire, lock_release
  <2> QED
    BY <2>1, <2>2, EmptyQueue
<1>2. ASSUME NEW y, b = <<y>>, y[1] \in {"cond_signal", "cond_broadcast", "yield", "exit",
                                         "init_thread"}
      PROVE  ~Waiting(t, b) /\ \A x \in Threads : ~Upping(b, x)
  <2>1. \A i \in 1..Len(b) : b[i] # <<"sema_down", t>>
    BY <1>2
  <2>2. b[1][1] # "sema_up"
    BY <1>2
  <2> QED
    BY <2>1, <2>2, EmptyQueue
<1>3. ASSUME NEW c \in Conds, b = cond_wait(t, c)
      PROVE  ~Waiting(t, b) /\ \A x \in Threads : ~Upping(b, x)
  <2>1. /\ Len(b) = 6 /\ b[1] = <<"cond_queue", c>>
    BY <1>3 DEF cond_wait, lock_acquire, lock_release
  <2>2. \A i \in 1..Len(b) : i = 1 \/ Before(b, i, <<"cond_queue", c>>)
    BY <2>1 DEF Before
  <2> QED
    BY <2>1, <2>2 DEF Waiting, Upping
<1>4. ASSUME NEW n \in Durations, b = timer_sleep(t, n)
      PROVE  ~Waiting(t, b) /\ \A x \in Threads : ~Upping(b, x)
  <2>1. /\ Len(b) = 5 /\ b[1] = <<"timer_ticks", n>>
        /\ b[2] = <<"sema_down", sleeping_list_sema>> /\ b[3] = <<"sleep", 0>>
    BY <1>4 DEF timer_sleep
  <2>2. \A i \in 1..Len(b) : i = 1 \/ i = 2 \/ i = 3 \/ Before(b, i, <<"sleep", 0>>)
    BY <2>1 DEF Before
  <2>3. \A i \in 1..Len(b) : b[i] = <<"sema_down", t>> => Before(b, i, <<"sleep", 0>>)
    BY <1>0, <2>1, <2>2
  <2> QED
    BY <2>1, <2>3 DEF Waiting, Upping
<1>5. ASSUME NEW c \in Conds, b = << <<"cond_signal", c>> >> \/ b = << <<"cond_broadcast", c>> >>
      PROVE  ~Waiting(t, b) /\ \A x \in Threads : ~Upping(b, x)
  BY <1>2, <1>5
<1>6. ASSUME b = << <<"yield", 0>> >> \/ b = << <<"exit", 0>> >>
      PROVE  ~Waiting(t, b) /\ \A x \in Threads : ~Upping(b, x)
  BY <1>2, <1>6
<1>7. ASSUME NEW u \in Others, b = << <<"init_thread", u>> >>
      PROVE  ~Waiting(t, b) /\ \A x \in Threads : ~Upping(b, x)
  BY <1>2, <1>7
<1> QED
  BY <1>1, <1>3, <1>4, <1>5, <1>6, <1>7 DEF IsCall

LEMMA CallQueue ==
  ASSUME CoreInv, QueueInv, UNCHANGED program, NEW t \in Threads, Call(t)
  PROVE  QueueInv'
<1>1. PICK b : IsCall(t, b) /\ bodies' = [bodies EXCEPT ![t] = b]
  BY CallCore
<1>2. bodies[t] = <<>> /\ bodies \in [Threads -> Seq(Steps)]
  BY CallCore, BodySteps DEF CoreInv
<1>3. UNCHANGED <<value, cond, sleeping_thread_list>>
  BY DEF Call, Calls, syncVars, sleepVars
<1>4. ~Waiting(t, b) /\ \A x \in Threads : ~Upping(b, x)
  BY <1>1, IsCallQueue
<1>5. ~Waiting(t, bodies[t]) /\ \A x \in Threads : ~Upping(bodies[t], x)
  BY <1>2, EmptyQueue
<1> QED
  BY <1>1, <1>2, <1>3, <1>4, <1>5, QueueStep

LEMMA LockTryAcquireQueue ==
  ASSUME CoreInv, QueueInv, UNCHANGED program, NEW t \in Threads, NEW l \in Locks,
         LockTryAcquire(t, l)
  PROVE  QueueInv'
<1> DEFINE b == << <<"taken", l>> >>
<1>1. bodies' = [bodies EXCEPT ![t] = b]
  BY LockTryAcquireCore
<1>2. bodies[t] = <<>> /\ bodies \in [Threads -> Seq(Steps)]
  BY LockTryAcquireCore, BodySteps DEF CoreInv
<1>3. UNCHANGED <<cond, sleeping_thread_list>> /\ \A x \in Threads : value'[x] = value[x]
  <2>1. l \notin Threads /\ Threads \subseteq Semas
    BY SemasAssumption DEF AllLocks, Semas
  <2> QED
    BY <2>1 DEF LockTryAcquire, sleepVars, CoreInv, Types
<1>4. ~Waiting(t, b) /\ \A x \in Threads : ~Upping(b, x)
  <2>1. \A i \in 1..Len(b) : b[i] # <<"sema_down", t>>
    OBVIOUS
  <2>2. b[1] = <<"taken", l>>
    OBVIOUS
  <2> QED
    BY <2>1, <2>2, EmptyQueue
<1>5. ~Waiting(t, bodies[t]) /\ \A x \in Threads : ~Upping(bodies[t], x)
  BY <1>2, EmptyQueue
<1> HIDE DEF b
<1> QED
  BY <1>1, <1>2, <1>3, <1>4, <1>5, QueueStep

\* The timer wakes up sleepers: the list was their waker, now their value is.
LEMMA TimerQueue ==
  ASSUME CoreInv, QueueInv, UNCHANGED program, TimerInterrupt
  PROVE  QueueInv'
<1>0. PICK left, woken, us, b : TimerEffect(left, woken, us, b)
  BY TimerIs
<1>1. /\ left \in [Threads -> Nat] /\ woken = try_to_wake_up_threads(left)
      /\ sleeping_thread_list' = remaining(woken) /\ UNCHANGED cond
      /\ value' = [s \in Semas |-> IF s \in Range(woken) THEN value[s] + 1 ELSE value[s]]
      /\ b = bodies[current] \/ (current = Idle /\ bodies[Idle] = << <<"hlt", 0>> >>
                                   /\ b = << <<"block", 0>> >>)
  BY <1>0 DEF TimerEffect
<1>2. /\ bodies' = bodies \/ bodies' = [bodies EXCEPT ![current] = b]
      /\ bodies \in [Threads -> Seq(Steps)] /\ current \in Threads
      /\ sleeping_thread_list \in Seq(Threads)
      /\ value \in [Semas -> Nat] /\ Threads \subseteq Semas
  BY <1>0, TimerCore, BodySteps DEF CoreInv, Types, Semas
<1>3. /\ \A x \in Threads : Waiting(x, bodies'[x]) <=> Waiting(x, bodies[x])
      /\ \A u, x \in Threads : Upping(bodies'[u], x) <=> Upping(bodies[u], x)
  <2>1. CASE bodies' = bodies
    BY <2>1
  <2>2. CASE bodies' = [bodies EXCEPT ![current] = b]
    <3>1. bodies'[current] = b /\ \A x \in Threads : x # current => bodies'[x] = bodies[x]
      BY <1>2, <2>2
    <3>2. CASE b = bodies[current]
      BY <3>1, <3>2
    <3>3. CASE current = Idle /\ bodies[Idle] = << <<"hlt", 0>> >> /\ b = << <<"block", 0>> >>
      <4>1. /\ ~Waiting(current, b) /\ ~Waiting(current, bodies[current])
            /\ \A x \in Threads : ~Upping(b, x) /\ ~Upping(bodies[current], x)
        BY <3>3, IdleQueue
      <4> QED
        BY <3>1, <4>1
    <3> QED
      BY <1>1, <3>2, <3>3
  <2> QED
    BY <1>2, <2>1, <2>2
<1>4. /\ Once(sleeping_thread_list')
      /\ \A x \in Threads : x \in Range(woken) => Occurs(sleeping_thread_list, x)
      /\ \A x \in Threads : Occurs(sleeping_thread_list', x)
           <=> Occurs(sleeping_thread_list, x) /\ x \notin Range(woken)
  <2>1. PICK n \in 0..Len(sleeping_thread_list) : woken = SubSeq(sleeping_thread_list, 1, n)
    BY <1>1, WokenFront DEF CoreInv
  <2>2. woken \in Seq(Threads) /\ Len(woken) = n
    BY <1>2, <2>1, FrontOf
  <2>3. sleeping_thread_list' = SubSeq(sleeping_thread_list, n + 1, Len(sleeping_thread_list))
    BY <1>1, <2>2 DEF remaining
  <2>4. \A x : x \in Range(woken) <=> Occurs(woken, x)
    BY <2>2, RangeOf DEF Occurs
  <2>5. Once(sleeping_thread_list)
    BY DEF QueueInv
  <2> QED
    BY <1>2, <2>1, <2>3, <2>4, <2>5, SuffixOccurs
<1>5. ASSUME NEW x \in Threads, x \notin Range(woken)
      PROVE  WakeOf(x)'
  <2>1. value'[x] = value[x]
    BY <1>1, <1>2, <1>5
  <2>2. \A w : Wakes(w, x)' <=> Wakes(w, x)
    BY <1>1, <1>3, <1>4, <1>5, <2>1 DEF Wakes
  <2>3. WakeOf(x)
    BY DEF QueueInv
  <2> QED
    BY <1>3, <2>1, <2>2, <2>3 DEF WakeOf
<1>6. ASSUME NEW x \in Threads, x \in Range(woken)
      PROVE  WakeOf(x)'
  <2>1. Wakes(<<"sleeping", 0>>, x)
    BY <1>4, <1>6 DEF Wakes
  <2>2. Waiting(x, bodies[x]) /\ \A y : Wakes(y, x) => y = <<"sleeping", 0>>
    BY <2>1 DEF QueueInv, WakeOf
  <2>3. value[x] = 0
    <3>1. value[x] \in {0, 1}
      BY DEF QueueInv, WakeOf
    <3>2. value[x] = 1 => Wakes(<<"value", 0>>, x)
      BY DEF Wakes
    <3> QED
      BY <2>2, <3>1, <3>2
  <2>4. value'[x] = 1
    BY <1>1, <1>2, <1>6, <2>3
  <2>5. Wakes(<<"value", 0>>, x)'
    BY <2>4 DEF Wakes
  <2>6. ASSUME NEW y, Wakes(y, x)' PROVE y = <<"value", 0>>
    <3>1. CASE y # <<"value", 0>>
      <4>1. y # <<"sleeping", 0>>
        BY <1>4, <1>6, <2>6 DEF Wakes
      <4>2. Wakes(y, x)
        BY <1>1, <1>3, <2>6, <3>1, <4>1 DEF Wakes
      <4> QED
        BY <2>2, <4>1, <4>2
    <3> QED
      BY <3>1
  <2>7. \E w : Wakes(w, x)' /\ \A y : Wakes(y, x)' => y = w
    BY <2>5, <2>6
  <2>8. Waiting(x, bodies'[x])
    BY <1>3, <2>2
  <2> QED
    BY <2>4, <2>7, <2>8 DEF WakeOf
<1> QED
  BY <1>1, <1>4, <1>5, <1>6 DEF QueueInv


LEMMA QueueInvInit == Init => QueueInv
<1> SUFFICES ASSUME Init PROVE QueueInv
  OBVIOUS
<1>1. /\ \A c \in Conds : cond[c] = <<>>
      /\ sleeping_thread_list = <<>>
      /\ value = [s \in Semas |-> IF s \in AllLocks \cup {sleeping_list_sema} THEN 1 ELSE 0]
      /\ call = [t \in Threads |->
           CASE t = Main -> << <<"sema_down", idle_started>> >>
             [] t = Idle -> << ie, <<"idle", 0>>, <<"sema_up", idle_started>>, <<"block", 0>> >>
             [] OTHER -> <<>>]
  BY DEF Init, ie
<1>2. ASSUME NEW t \in Threads
      PROVE  bodies[t] = CASE t = Main -> << <<"sema_down", idle_started>> >>
             [] t = Idle -> << <<"idle", 0>>, <<"sema_up", idle_started>>, <<"block", 0>> >>
             [] OTHER -> <<>>
  <2>1. CASE t = Main
    <3>1. call[t] = << <<"sema_down", idle_started>> >>
      BY <1>1, <2>1, ThreadsAssumption
    <3>2. bodies[t] = call[t]
      BY <3>1 DEF bodies, Body, BodyOf, ie
    <3> QED
      BY <2>1, <3>1, <3>2, ThreadsAssumption
  <2>2. CASE t = Idle
    <3>1. call[t] = << ie, <<"idle", 0>>, <<"sema_up", idle_started>>, <<"block", 0>> >>
      BY <1>1, <2>2, ThreadsAssumption
    <3>2. /\ call[t] # <<>> /\ Head(call[t]) = ie
          /\ Tail(call[t]) = << <<"idle", 0>>, <<"sema_up", idle_started>>, <<"block", 0>> >>
      BY <3>1
    <3>3. bodies[t] = Tail(call[t])
      BY <3>2 DEF bodies, Body, BodyOf
    <3> QED
      BY <2>2, <3>2, <3>3, ThreadsAssumption
  <2>3. CASE t # Main /\ t # Idle
    <3>1. call[t] = <<>>
      BY <1>1, <2>3
    <3> QED
      BY <2>3, <3>1 DEF bodies, Body, BodyOf
  <2> QED
    BY <2>1, <2>2, <2>3
<1>3. ASSUME NEW t \in Threads
      PROVE  ~Waiting(t, bodies[t]) /\ \A x \in Threads : ~Upping(bodies[t], x)
  <2>0. t # idle_started
    BY SemasAssumption
  <2>1. CASE t = Main
    <3>1. bodies[t] = << <<"sema_down", idle_started>> >>
      BY <1>2, <2>1, ThreadsAssumption
    <3>2. \A i \in 1..Len(bodies[t]) : bodies[t][i] # <<"sema_down", t>>
      BY <2>0, <3>1
    <3> QED
      BY <3>1, <3>2, EmptyQueue
  <2>2. CASE t = Idle
    <3>1. bodies[t] = << <<"idle", 0>>, <<"sema_up", idle_started>>, <<"block", 0>> >>
      BY <1>2, <2>2, ThreadsAssumption
    <3>2. \A i \in 1..Len(bodies[t]) : bodies[t][i] # <<"sema_down", t>>
      BY <3>1
    <3> QED
      BY <3>1, <3>2, EmptyQueue
  <2>3. CASE t # Main /\ t # Idle
    <3>1. bodies[t] = <<>>
      BY <1>2, <2>3
    <3> QED
      BY <3>1, EmptyQueue
  <2> QED
    BY <2>1, <2>2, <2>3
<1>4. ASSUME NEW t \in Threads
      PROVE  value[t] = 0
  BY <1>1, ThreadNotGuarded DEF Guarded
<1>5. (\A x : ~Occurs(<<>>, x)) /\ Once(<<>>)
  BY DEF Occurs, Once
<1>6. \A t \in Threads : \A w : ~Wakes(w, t)
  BY <1>1, <1>3, <1>4, <1>5 DEF Wakes
<1> QED
  BY <1>1, <1>3, <1>4, <1>5, <1>6 DEF QueueInv, WakeOf

LEMMA QueueInvNext == CoreInv /\ QueueInv /\ [Next]_vars => QueueInv'
<1> SUFFICES ASSUME CoreInv, QueueInv, [Next]_vars PROVE QueueInv'
  OBVIOUS
<1>1. CASE UNCHANGED vars
  <2>1. UNCHANGED <<call, value, cond, sleeping_thread_list>>
    BY <1>1 DEF vars, kernelVars, syncVars, sleepVars
  <2> QED
    BY <2>1, BodySame, QueueSame
<1>2. CASE Next
  <2>0. UNCHANGED program
    BY <1>2 DEF Next
  <2>1. ASSUME NEW t \in Threads, IntrEnable(t) PROVE QueueInv'
    <3>1. bodies' = bodies
      BY <2>0, <2>1, IntrEnableCore
    <3>2. UNCHANGED <<value, cond, sleeping_thread_list>>
      BY <2>1 DEF IntrEnable, syncVars, sleepVars
    <3> QED
      BY <3>1, <3>2, QueueSame
  <2>2. ASSUME NEW t \in Threads, ThreadYield(t) PROVE QueueInv'
    BY <2>0, <2>2, YieldQueue
  <2>3. ASSUME NEW t \in Threads, ThreadExit(t) PROVE QueueInv'
    BY <2>0, <2>3, ExitQueue
  <2>4. CASE IdleStarts
    BY <2>0, <2>4, IdleStartsQueue
  <2>5. CASE IdleBlocks
    BY <2>0, <2>5, IdleBlocksQueue
  <2>6. ASSUME NEW t \in Threads, NEW s \in Semas, SemaDown(t, s) PROVE QueueInv'
    BY <2>0, <2>6, SemaDownQueue
  <2>7. ASSUME NEW t \in Threads, NEW s \in Semas, SemaUp(t, s) PROVE QueueInv'
    BY <2>0, <2>7, SemaUpQueue
  <2>8. ASSUME NEW t \in Threads, NEW l \in AllLocks, LockTaken(t, l) PROVE QueueInv'
    BY <2>0, <2>8, LockQueue
  <2>9. ASSUME NEW t \in Threads, NEW l \in AllLocks, LockDropped(t, l) PROVE QueueInv'
    BY <2>0, <2>9, LockQueue
  <2>10. ASSUME NEW t \in Threads, NEW c \in Conds, CondQueue(t, c) PROVE QueueInv'
    BY <2>0, <2>10, CondQueueQueue
  <2>11. ASSUME NEW t \in Threads, NEW c \in Conds, CondSignal(t, c) PROVE QueueInv'
    BY <2>0, <2>11, CondSignalQueue
  <2>12. ASSUME NEW t \in Threads, NEW c \in Conds, CondBroadcast(t, c) PROVE QueueInv'
    BY <2>0, <2>12, CondBroadcastQueue
  <2>13. ASSUME NEW t \in Threads, NEW n \in Durations, ReadTicks(t, n) PROVE QueueInv'
    BY <2>0, <2>13, ReadTicksQueue
  <2>14. ASSUME NEW t \in Threads, InsertSleeper(t) PROVE QueueInv'
    BY <2>0, <2>14, InsertSleeperQueue
  <2>15. ASSUME NEW t \in Threads, NEW u \in Others, InitThread(t, u) PROVE QueueInv'
    BY <2>0, <2>15, InitThreadQueue
  <2>16. ASSUME NEW t \in Threads, NEW u \in Others, ThreadUnblock(t, u) PROVE QueueInv'
    BY <2>0, <2>16, ThreadUnblockQueue
  <2>17. ASSUME NEW t \in Threads, Call(t) PROVE QueueInv'
    BY <2>0, <2>17, CallQueue
  <2>18. ASSUME NEW t \in Threads, NEW l \in Locks, LockTryAcquire(t, l) PROVE QueueInv'
    BY <2>0, <2>18, LockTryAcquireQueue
  <2>19. CASE TimerInterrupt
    BY <2>0, <2>19, TimerQueue
  <2>20. ASSUME NEW t \in Threads, CallStep(t) PROVE QueueInv'
    BY <2>2, <2>3, <2>4, <2>5, <2>6, <2>7, <2>8, <2>9, <2>10, <2>11, <2>12, <2>13, <2>14,
       <2>15, <2>16, <2>20 DEF CallStep
  <2> QED
    BY <1>2, <2>1, <2>17, <2>18, <2>19, <2>20 DEF Next
<1> QED
  BY <1>1, <1>2

LEMMA QueueInvariant == Spec => []QueueInv
BY CoreInvariant, QueueInvInit, QueueInvNext, PTL DEF Spec

LEMMA OccursOnce ==
  ASSUME NEW S, NEW list \in Seq(S), NEW x
  PROVE  /\ Occurs(list, x) /\ Once(list) => Occurrences(list, x) = 1
         /\ ~Occurs(list, x) => Occurrences(list, x) = 0
<1> DEFINE E == {i \in DOMAIN list : list[i] = x}
<1>1. DOMAIN list = 1..Len(list)
  OBVIOUS
<1>2. Occurrences(list, x) = Cardinality(E)
  BY DEF Occurrences
<1>3. ASSUME Occurs(list, x), Once(list)
      PROVE  Cardinality(E) = 1
  <2>1. PICK i \in 1..Len(list) : list[i] = x
    BY <1>3 DEF Occurs
  <2>2. \A j \in 1..Len(list) : list[j] = x => j = i
    BY <1>3, <2>1 DEF Once
  <2>3. E = {i}
    BY <1>1, <2>1, <2>2
  <2> HIDE DEF E
  <2> QED
    BY <2>3, FS_Singleton
<1>4. ASSUME ~Occurs(list, x)
      PROVE  Cardinality(E) = 0
  <2>1. E = {}
    BY <1>1, <1>4 DEF Occurs
  <2> HIDE DEF E
  <2> QED
    BY <2>1, FS_EmptySet
<1> HIDE DEF E
<1> QED
  BY <1>2, <1>3, <1>4

LEMMA QueueNoLostWakeup == CoreInv /\ QueueInv => NoLostWakeup
<1> SUFFICES ASSUME CoreInv, QueueInv, NEW t \in Threads, IsAt(t, <<"sema_down", t>>)
             PROVE
      \/ value[t] = 1
      \/ Occurrences(sleeping_thread_list, t) = 1
      \/ \E c \in Conds : Occurrences(cond[c], t) = 1
      \/ \E u \in Threads : <<"sema_up", t>> \in {call[u][i] : i \in DOMAIN call[u]}
  BY DEF NoLostWakeup
<1>1. bodies[t] # <<>> /\ bodies[t][1] = <<"sema_down", t>> /\ Shape(t, bodies[t])
  BY IsAtBody DEF CoreInv, CallsInv
<1>2. Waiting(t, bodies[t])
  BY <1>1, WaitingTail
<1>3. PICK w : Wakes(w, t)
  BY <1>2 DEF QueueInv, WakeOf
<1>4. /\ sleeping_thread_list \in Seq(Threads) /\ cond \in [Conds -> Seq(Threads)]
      /\ call \in [Threads -> Seq(Steps \cup {ie})]
  BY DEF CoreInv, Types
<1>5. ASSUME Occurs(sleeping_thread_list, t)
      PROVE  Occurrences(sleeping_thread_list, t) = 1
  BY <1>4, <1>5, OccursOnce DEF QueueInv
<1>6. ASSUME NEW c \in Conds, Occurs(cond[c], t)
      PROVE  Occurrences(cond[c], t) = 1
  <2>1. cond[c] \in Seq(Threads) /\ Once(cond[c])
    BY <1>4 DEF QueueInv
  <2> QED
    BY <1>6, <2>1, OccursOnce
<1>7. ASSUME NEW u \in Threads, Upping(bodies[u], t)
      PROVE  <<"sema_up", t>> \in {call[u][i] : i \in DOMAIN call[u]}
  <2>1. bodies[u] # <<>> /\ bodies[u][1] = <<"sema_up", t>>
    BY <1>7 DEF Upping
  <2>2. call[u] \in Seq(Steps \cup {ie}) /\ DOMAIN call[u] = 1..Len(call[u])
    BY <1>4
  <2>3. bodies[u] = call[u] \/ (call[u] # <<>> /\ bodies[u] = Tail(call[u]))
    BY DEF bodies, Body, BodyOf
  <2>4. CASE bodies[u] = call[u]
    <3>1. 1 \in 1..Len(call[u])
      BY <2>1, <2>2, <2>4, TailEntries
    <3> QED
      BY <2>1, <2>2, <2>4, <3>1
  <2>5. CASE call[u] # <<>> /\ bodies[u] = Tail(call[u])
    <3>1. /\ Len(bodies[u]) = Len(call[u]) - 1 /\ Len(call[u]) \in Nat \ {0}
          /\ bodies[u] \in Seq(Steps \cup {ie})
          /\ \A i \in 1..Len(call[u]) - 1 : bodies[u][i] = call[u][i + 1]
      BY <2>2, <2>5, TailEntries
    <3>2. Len(bodies[u]) # 0
      BY <2>1, <3>1, EmptySeq
    <3>3. 2 \in 1..Len(call[u]) /\ call[u][2] = <<"sema_up", t>>
      BY <2>1, <3>1, <3>2
    <3> QED
      BY <2>2, <3>3
  <2> QED
    BY <2>3, <2>4, <2>5
<1> QED
  BY <1>3, <1>5, <1>6, <1>7 DEF Wakes

\* A thread that waits in timer_sleep or cond_wait is on the list its waker
\* looks at, or its semaphore is up or about to be upped: timer.c, synch.c.
THEOREM NoLostWakeupHolds == Spec => []NoLostWakeup
BY CoreInvariant, QueueInvariant, QueueNoLostWakeup, PTL


(***************************************************************************)
(* The sleeping list is sorted by the ticks that are left to its threads,  *)
(* and what try_to_wake_up_threads takes off it is what is due.            *)
(***************************************************************************)

\* A thread that is about to read the clock has not queued up yet.
LEMMA TicksWaiting ==
  ASSUME NEW t \in Threads, NEW b, Shape(t, b), b # <<>>, NEW n \in Durations,
         b[1] = <<"timer_ticks", n>>
  PROVE  ~Waiting(t, b)
<1>0. b \in Seq(Steps) /\ SleepShape(t, b) /\ t # sleeping_list_sema
  BY SemasAssumption DEF Shape
<1>1. Len(b) \in Nat \ {0}
  BY <1>0, TailEntries
<1>2. 1 < Len(b) /\ b[2] = <<"sema_down", sleeping_list_sema>>
  BY <1>0, <1>1 DEF SleepShape
<1>3. 2 < Len(b) /\ b[3] = <<"sleep", 0>>
  <2>1. 2 \in 1..Len(b)
    BY <1>1, <1>2
  <2> QED
    BY <1>0, <1>2, <2>1 DEF SleepShape
<1> SUFFICES ASSUME NEW i \in 1..Len(b), b[i] = <<"sema_down", t>>
             PROVE  Before(b, i, <<"sleep", 0>>)
  BY DEF Waiting
<1>4. i # 1 /\ i # 2 /\ i # 3
  BY <1>0, <1>2, <1>3
<1>5. 3 \in 1..i - 1
  BY <1>1, <1>4
<1> QED
  BY <1>3, <1>5 DEF Before

\* due is not decreasing along list.
Sorted(list, d) == \A i, j \in 1..Len(list) : i < j => d[list[i]] <= d[list[j]]

LEMMA SortedIs ==
  ASSUME NEW list \in Seq(Threads), NEW d
  PROVE  Sorted(list, d) <=>
           \A i, j \in DOMAIN list : i < j => d[list[i]] <= d[list[j]]
<1>1. DOMAIN list = 1..Len(list)
  OBVIOUS
<1> QED
  BY <1>1 DEF Sorted

\* list_insert_ordered keeps the list sorted.
LEMMA InsertedSorted ==
  ASSUME NEW list \in Seq(Threads), NEW d \in [Threads -> Nat], NEW t \in Threads,
         NEW n \in 0..Len(list), NEW new, Inserted(list, t, n, new), Sorted(list, d),
         \A i \in 1..n : ~(d[t] < d[list[i]]), n < Len(list) => d[t] < d[list[n + 1]]
  PROVE  Sorted(new, d)
<1>1. PICK k : k = Len(list)
  OBVIOUS
<1>2. /\ k \in Nat /\ n \in 0..k /\ Len(new) = k + 1 /\ new[n + 1] = t
      /\ \A i \in 1..n : new[i] = list[i]
      /\ \A i \in n + 1..k : new[i + 1] = list[i]
  <2>1. Len(list) \in Nat
    OBVIOUS
  <2>2. /\ Len(new) = Len(list) + 1 /\ new[n + 1] = t
        /\ \A i \in 1..n : new[i] = list[i]
        /\ \A i \in n + 1..Len(list) : new[i + 1] = list[i]
    BY DEF Inserted
  <2> QED
    BY <1>1, <2>1, <2>2
<1>3. /\ \A i \in 1..k : list[i] \in Threads /\ d[list[i]] \in Nat
      /\ d[t] \in Nat
  BY <1>1
<1>4. \A i, j \in 1..k : i < j => d[list[i]] <= d[list[j]]
  BY <1>1 DEF Sorted
<1>5. \A i \in 1..n : d[list[i]] <= d[t]
  <2> TAKE i \in 1..n
  <2>1. i \in 1..k
    BY <1>2
  <2>2. d[list[i]] \in Nat /\ ~(d[t] < d[list[i]])
    BY <1>3, <2>1
  <2> QED
    BY <1>3, <2>2
<1>6. \A j \in n + 1..k : d[t] <= d[list[j]]
  <2> TAKE j \in n + 1..k
  <2>1. n + 1 \in 1..k /\ j \in 1..k /\ n < k
    BY <1>2
  <2>2. d[t] < d[list[n + 1]]
    BY <1>1, <2>1
  <2>3. d[list[n + 1]] <= d[list[j]]
    <3>1. n + 1 < j \/ j = n + 1
      BY <1>2
    <3>2. d[list[n + 1]] \in Nat
      BY <1>3, <2>1
    <3> QED
      BY <1>4, <2>1, <3>1, <3>2
  <2>4. d[list[n + 1]] \in Nat /\ d[list[j]] \in Nat
    BY <1>3, <2>1
  <2> QED
    BY <1>3, <2>2, <2>3, <2>4
<1> SUFFICES ASSUME NEW i \in 1..k + 1, NEW j \in 1..k + 1, i < j
             PROVE  d[new[i]] <= d[new[j]]
  BY <1>2 DEF Sorted
<1>7. CASE j \in 1..n
  <2>1. i \in 1..n /\ i \in 1..k /\ j \in 1..k
    BY <1>2, <1>7
  <2> QED
    BY <1>2, <1>4, <1>7, <2>1
<1>8. CASE j = n + 1
  <2>1. i \in 1..n
    BY <1>2, <1>8
  <2> QED
    BY <1>2, <1>5, <1>8, <2>1
<1>9. CASE j \in n + 2..k + 1
  <2>1. j - 1 \in n + 1..k /\ j - 1 \in 1..k /\ (j - 1) + 1 = j
    BY <1>2, <1>9
  <2>2. new[j] = list[j - 1]
    BY <1>2, <2>1
  <2>3. CASE i \in 1..n
    <3>1. i \in 1..k /\ i < j - 1
      BY <1>2, <2>1, <2>3
    <3> QED
      BY <1>2, <1>4, <2>1, <2>2, <2>3, <3>1
  <2>4. CASE i = n + 1
    BY <1>2, <1>6, <2>1, <2>2, <2>4
  <2>5. CASE i \in n + 2..k + 1
    <3>1. i - 1 \in n + 1..k /\ i - 1 \in 1..k /\ (i - 1) + 1 = i /\ i - 1 < j - 1
      BY <1>2, <2>1, <2>5
    <3>2. new[i] = list[i - 1]
      BY <1>2, <3>1
    <3> QED
      BY <1>4, <2>1, <2>2, <3>1, <3>2
  <2> QED
    BY <1>2, <2>3, <2>4, <2>5
<1> QED
  BY <1>2, <1>7, <1>8, <1>9

\* What is left of a sorted list when time has gone by.
LEMMA SuffixSorted ==
  ASSUME NEW list \in Seq(Threads), NEW d \in [Threads -> Nat], NEW e \in [Threads -> Nat],
         NEW n \in 0..Len(list), Sorted(list, d),
         \A t, u \in Threads : d[t] <= d[u] => e[t] <= e[u]
  PROVE  Sorted(SubSeq(list, n + 1, Len(list)), e)
<1>1. PICK k : k = Len(list)
  OBVIOUS
<1>2. PICK z : z = SubSeq(list, n + 1, k)
  OBVIOUS
<1>3. k \in Nat /\ n \in 0..k /\ Len(z) = k - n /\ \A i \in 1..k - n : z[i] = list[i + n]
  <2>1. Len(list) \in Nat
    OBVIOUS
  <2>2. Len(z) = k - n /\ \A i \in 1..k - n : z[i] = list[i + n]
    BY <1>1, <1>2, SubSeqFrom
  <2> QED
    BY <1>1, <2>1, <2>2
<1>4. \A i, j \in 1..k : i < j => d[list[i]] <= d[list[j]]
  BY <1>1 DEF Sorted
<1>5. \A i \in 1..k : list[i] \in Threads
  BY <1>1
<1>6. ASSUME NEW i \in 1..k - n, NEW j \in 1..k - n, i < j
      PROVE  e[z[i]] <= e[z[j]]
  <2>1. i + n \in 1..k /\ j + n \in 1..k /\ i + n < j + n
    BY <1>3, <1>6
  <2>2. e[list[i + n]] <= e[list[j + n]]
    BY <1>4, <1>5, <2>1
  <2> QED
    BY <1>3, <2>2
<1>7. Sorted(z, e)
  BY <1>3, <1>6 DEF Sorted
<1> QED
  BY <1>1, <1>2, <1>7


LEMMA ReadTicksSorted ==
  ASSUME CoreInv, QueueInv, SleepersSorted, NEW t \in Threads, NEW n \in Durations,
         ReadTicks(t, n)
  PROVE  SleepersSorted'
<1>0. At(t, "timer_ticks", n) /\ due' = [due EXCEPT ![t] = n] /\ UNCHANGED sleeping_thread_list
  BY DEF ReadTicks
<1>1. bodies[t] # <<>> /\ bodies[t][1] = <<"timer_ticks", n>> /\ Shape(t, bodies[t])
  BY <1>0, AtBody DEF CoreInv, CallsInv
<1>2. ~Waiting(t, bodies[t])
  BY <1>1, TicksWaiting
<1>3. ~Occurs(sleeping_thread_list, t)
  <2>1. ~Wakes(<<"sleeping", 0>>, t)
    BY <1>2 DEF QueueInv, WakeOf
  <2> QED
    BY <2>1 DEF Wakes
<1>4. sleeping_thread_list \in Seq(Threads) /\ due \in [Threads -> Nat]
  BY DEF CoreInv, Types
<1>5. ASSUME NEW i \in 1..Len(sleeping_thread_list)
      PROVE  due'[sleeping_thread_list[i]] = due[sleeping_thread_list[i]]
  <2>1. sleeping_thread_list[i] \in Threads /\ sleeping_thread_list[i] # t
    BY <1>3, <1>4 DEF Occurs
  <2> QED
    BY <1>0, <1>4, <2>1
<1>6. Sorted(sleeping_thread_list, due)
  BY <1>4, SortedIs DEF SleepersSorted
<1>7. Sorted(sleeping_thread_list, due)'
  BY <1>0, <1>5, <1>6 DEF Sorted
<1>8. (sleeping_thread_list \in Seq(Threads))'
  BY <1>0, <1>4
<1> QED
  BY <1>7, <1>8, SortedIs DEF SleepersSorted

LEMMA InsertSleeperSorted ==
  ASSUME CoreInv, SleepersSorted, NEW t \in Threads, InsertSleeper(t)
  PROVE  /\ SleepersSorted'
         /\ \A x \in Threads : Occurs(sleeping_thread_list, x) => Occurs(sleeping_thread_list', x)
<1>0. /\ sleeping_thread_list' = list_insert_ordered(sleeping_thread_list, t)
      /\ UNCHANGED due
  BY DEF InsertSleeper
<1>1. sleeping_thread_list \in Seq(Threads) /\ due \in [Threads -> Nat]
  BY DEF CoreInv, Types
<1>2. PICK n \in 0..Len(sleeping_thread_list), new \in Seq(Threads) :
           /\ list_insert_ordered(sleeping_thread_list, t) = new
           /\ Inserted(sleeping_thread_list, t, n, new)
           /\ \A i \in 1..n : ~(due[t] < due[sleeping_thread_list[i]])
           /\ n < Len(sleeping_thread_list) => due[t] < due[sleeping_thread_list[n + 1]]
  BY <1>1, InsertedList
<1>3. Sorted(sleeping_thread_list, due)
  BY <1>1, SortedIs DEF SleepersSorted
<1>4. Sorted(new, due)
  BY <1>1, <1>2, <1>3, InsertedSorted
<1>5. (sleeping_thread_list \in Seq(Threads))' /\ Sorted(sleeping_thread_list, due)'
  BY <1>0, <1>2, <1>4
<1>6. SleepersSorted'
  BY <1>5, SortedIs DEF SleepersSorted
<1>7. \A x \in Threads : Occurs(sleeping_thread_list, x) => Occurs(new, x)
  BY <1>1, <1>2, InsertedOccurs
<1> QED
  BY <1>0, <1>2, <1>6, <1>7

\* The timer takes the first threads off the list: those whose time has come,
\* and all of them if nobody works on the list.
LEMMA TimerSorted ==
  ASSUME CoreInv, QueueInv, SleepersSorted, TimerInterrupt
  PROVE  /\ SleepersSorted'
         /\ \A t \in Threads : Occurs(sleeping_thread_list, t)
              /\ ~Occurs(sleeping_thread_list', t) => due'[t] <= 0
         /\ value[sleeping_list_sema] = 1 =>
              \A t \in Threads : Occurs(sleeping_thread_list', t) => due'[t] > 0
<1>0. PICK left, woken, us, b : TimerEffect(left, woken, us, b)
  BY TimerIs
<1>1. /\ left \in [Threads -> Nat] /\ woken = try_to_wake_up_threads(left)
      /\ left = [t \in Threads |-> IF due[t] > 0 THEN due[t] - 1 ELSE 0]
      /\ sleeping_thread_list' = remaining(woken) /\ due' = left
  BY <1>0 DEF TimerEffect
<1>2. PICK list : list = sleeping_thread_list
  OBVIOUS
<1>3. PICK k : k = Len(list)
  OBVIOUS
<1>4. /\ list \in Seq(Threads) /\ due \in [Threads -> Nat] /\ k \in Nat
      /\ \A i \in 1..k : list[i] \in Threads
      /\ Once(list) /\ Sorted(list, due)
  <2>1. sleeping_thread_list \in Seq(Threads) /\ due \in [Threads -> Nat]
    BY DEF CoreInv, Types
  <2>2. Sorted(sleeping_thread_list, due)
    BY <2>1, SortedIs DEF SleepersSorted
  <2> QED
    BY <1>2, <1>3, <2>1, <2>2 DEF QueueInv
<1>5. PICK n \in 0..k :
        /\ woken = SubSeq(list, 1, n)
        /\ \A i \in 1..n : left[list[i]] <= 0
        /\ value[sleeping_list_sema] > 0 /\ n < k => left[list[n + 1]] > 0
  BY <1>1, <1>2, <1>3, WokenFront DEF CoreInv
<1>6. Len(woken) = n /\ \A i \in 1..n : woken[i] = list[i]
  BY <1>3, <1>4, <1>5, FrontOf
<1>7. sleeping_thread_list' = SubSeq(list, n + 1, k)
  BY <1>1, <1>2, <1>3, <1>6 DEF remaining
<1>8. PICK z : z = SubSeq(list, n + 1, k)
  OBVIOUS
<1>9. z \in Seq(Threads) /\ Len(z) = k - n /\ \A i \in 1..k - n : z[i] = list[i + n]
  BY <1>3, <1>4, <1>8, SubSeqFrom
<1>10. \A t, u \in Threads : due[t] <= due[u] => left[t] <= left[u]
  <2> TAKE t, u \in Threads
  <2>1. due[t] \in Nat /\ due[u] \in Nat
    BY <1>4
  <2>2. /\ left[t] = IF due[t] > 0 THEN due[t] - 1 ELSE 0
        /\ left[u] = IF due[u] > 0 THEN due[u] - 1 ELSE 0
    BY <1>1
  <2> QED
    BY <2>1, <2>2
<1>11. Sorted(z, left)
  BY <1>1, <1>3, <1>4, <1>8, <1>10, SuffixSorted
<1>12. SleepersSorted'
  <2>1. (sleeping_thread_list \in Seq(Threads))' /\ Sorted(sleeping_thread_list, due)'
    BY <1>1, <1>7, <1>8, <1>9, <1>11
  <2> QED
    BY <2>1, SortedIs DEF SleepersSorted
<1>13. ASSUME NEW t \in Threads, Occurs(list, t), ~Occurs(z, t)
       PROVE  left[t] <= 0
  <2>1. Occurs(woken, t)
    BY <1>3, <1>4, <1>5, <1>8, <1>13, SuffixOccurs
  <2>2. PICK i \in 1..n : woken[i] = t
    BY <1>6, <2>1 DEF Occurs
  <2> QED
    BY <1>5, <1>6, <2>2
<1>14. ASSUME value[sleeping_list_sema] = 1, NEW t \in Threads, Occurs(z, t)
       PROVE  left[t] > 0
  <2>1. PICK i \in 1..k - n : z[i] = t
    BY <1>9, <1>14 DEF Occurs
  <2>2. n < k /\ 1 \in 1..k - n /\ n + 1 \in 1..k /\ 1 + n = n + 1
    BY <1>4, <2>1
  <2>3. left[list[n + 1]] > 0
    BY <1>5, <1>14, <2>2
  <2>4. z[1] = list[n + 1]
    BY <1>9, <2>2
  <2>5. left[z[1]] <= left[z[i]] \/ i = 1
    <3>1. 1 < i \/ i = 1
      BY <1>4, <2>1
    <3> QED
      BY <1>9, <1>11, <2>2, <3>1 DEF Sorted
  <2>6. left[t] \in Nat /\ left[list[n + 1]] \in Nat
    BY <1>1, <1>4, <2>2
  <2> QED
    BY <2>1, <2>3, <2>4, <2>5, <2>6
<1> QED
  BY <1>1, <1>2, <1>7, <1>8, <1>12, <1>13, <1>14


\* What a step of WakeupsOnTime is.
OnTime ==
  /\ \A t \in Threads :
       (Occurrences(sleeping_thread_list, t) = 1
          /\ Occurrences(sleeping_thread_list', t) = 0) => due'[t] <= 0
  /\ (TimerInterrupt /\ value[sleeping_list_sema] = 1) =>
       \A t \in Threads : Occurrences(sleeping_thread_list', t) = 1 => due'[t] > 0

\* The steps that work on the sleeping list.
LEMMA SleepersSteps ==
  ASSUME [Next]_vars
  PROVE  \/ UNCHANGED <<sleeping_thread_list, due>>
         \/ TimerInterrupt
         \/ \E t \in Threads : InsertSleeper(t)
         \/ \E t \in Threads, n \in Durations : ReadTicks(t, n)
<1>1. CASE UNCHANGED vars
  BY <1>1 DEF vars, kernelVars, sleepVars
<1>2. CASE Next
  <2>1. ASSUME NEW t \in Threads,
               \/ IntrEnable(t) \/ ThreadYield(t) \/ ThreadExit(t) \/ IdleStarts \/ IdleBlocks
               \/ \E s \in Semas : SemaDown(t, s) \/ SemaUp(t, s)
               \/ \E l \in AllLocks : LockTaken(t, l) \/ LockDropped(t, l)
        PROVE  UNCHANGED <<sleeping_thread_list, due>>
    BY <2>1 DEF IntrEnable, ThreadYield, ThreadExit, IdleStarts, IdleBlocks, SemaDown, SemaUp,
                LockTaken, LockDropped, sleepVars
  <2>2. ASSUME NEW t \in Threads,
               \/ \E c \in Conds : CondQueue(t, c) \/ CondSignal(t, c) \/ CondBroadcast(t, c)
               \/ \E u \in Others : InitThread(t, u) \/ ThreadUnblock(t, u)
               \/ \E l \in Locks : LockTryAcquire(t, l)
        PROVE  UNCHANGED <<sleeping_thread_list, due>>
    BY <2>2 DEF CondQueue, CondSignal, CondBroadcast, InitThread, ThreadUnblock, LockTryAcquire,
                sleepVars
  <2>3. ASSUME NEW t \in Threads, Call(t)
        PROVE  UNCHANGED <<sleeping_thread_list, due>>
    BY <2>3 DEF Call, Calls, sleepVars
  <2>4. ASSUME NEW t \in Threads, CallStep(t)
        PROVE  \/ UNCHANGED <<sleeping_thread_list, due>>
               \/ InsertSleeper(t)
               \/ \E n \in Durations : ReadTicks(t, n)
    BY <2>1, <2>2, <2>4 DEF CallStep
  <2> QED
    BY <1>2, <2>1, <2>2, <2>3, <2>4 DEF Next
<1> QED
  BY <1>1, <1>2

LEMMA SortedNext ==
  CoreInv /\ QueueInv /\ SleepersSorted /\ [Next]_vars => SleepersSorted' /\ OnTime
<1> SUFFICES ASSUME CoreInv, QueueInv, SleepersSorted, [Next]_vars
             PROVE  SleepersSorted' /\ OnTime
  OBVIOUS
<1>1. /\ sleeping_thread_list \in Seq(Threads) /\ sleeping_thread_list' \in Seq(Threads)
      /\ Once(sleeping_thread_list) /\ Once(sleeping_thread_list')
  <2>1. CoreInv' /\ QueueInv'
    BY CoreInvNext, QueueInvNext
  <2> QED
    BY <2>1 DEF CoreInv, Types, QueueInv
<1>2. ASSUME NEW t \in Threads
      PROVE  /\ Occurrences(sleeping_thread_list, t) = 1 <=> Occurs(sleeping_thread_list, t)
             /\ Occurrences(sleeping_thread_list', t) = 1 <=> Occurs(sleeping_thread_list', t)
             /\ Occurrences(sleeping_thread_list', t) = 0 <=> ~Occurs(sleeping_thread_list', t)
  BY <1>1, OccursOnce
<1>3. ASSUME TimerInterrupt
      PROVE  SleepersSorted' /\ OnTime
  <2>1. /\ SleepersSorted'
        /\ \A t \in Threads : Occurs(sleeping_thread_list, t)
             /\ ~Occurs(sleeping_thread_list', t) => due'[t] <= 0
        /\ value[sleeping_list_sema] = 1 =>
             \A t \in Threads : Occurs(sleeping_thread_list', t) => due'[t] > 0
    BY <1>3, TimerSorted
  <2> QED
    BY <1>2, <2>1 DEF OnTime
<1>4. ASSUME ~TimerInterrupt,
             \A x \in Threads : Occurs(sleeping_thread_list, x) => Occurs(sleeping_thread_list', x)
      PROVE  OnTime
  BY <1>2, <1>4 DEF OnTime
<1>5. ASSUME UNCHANGED <<sleeping_thread_list, due>>
      PROVE  SleepersSorted'
  BY <1>5 DEF SleepersSorted
<1>6. ASSUME NEW t \in Threads, InsertSleeper(t)
      PROVE  /\ SleepersSorted'
             /\ \A x \in Threads :
                  Occurs(sleeping_thread_list, x) => Occurs(sleeping_thread_list', x)
  BY <1>6, InsertSleeperSorted
<1>7. ASSUME NEW t \in Threads, NEW n \in Durations, ReadTicks(t, n)
      PROVE  SleepersSorted' /\ UNCHANGED sleeping_thread_list
  <2>1. UNCHANGED sleeping_thread_list
    BY <1>7 DEF ReadTicks
  <2> QED
    BY <1>7, <2>1, ReadTicksSorted
<1> QED
  BY <1>3, <1>4, <1>5, <1>6, <1>7, SleepersSteps

LEMMA SortedInit == Init => SleepersSorted
<1> SUFFICES ASSUME Init PROVE SleepersSorted
  OBVIOUS
<1>1. sleeping_thread_list = <<>>
  BY DEF Init
<1> QED
  BY <1>1 DEF SleepersSorted

LEMMA SortedInvariant == Spec => []SleepersSorted
BY CoreInvariant, QueueInvariant, SortedInit, SortedNext, PTL DEF Spec

\* A thread leaves the sleeping list once its time has come, not before, and
\* after a tick that finds the list unused nobody is overdue on it: timer.c.
THEOREM WakeupsOnTimeHolds == Spec => WakeupsOnTime
<1>1. CoreInv /\ QueueInv /\ SleepersSorted /\ [Next]_vars => [OnTime]_vars
  BY SortedNext
<1>2. Spec => [][OnTime]_vars
  BY <1>1, CoreInvariant, QueueInvariant, SortedInvariant, PTL DEF Spec
<1> QED
  BY <1>2 DEF WakeupsOnTime, OnTime


(***************************************************************************)
(* The lists of the scheduler: who is ready, who waits for a semaphore,    *)
(* and whom thread_create is about to make ready.                          *)
(***************************************************************************)
Pending(b, u) == \E i \in 1..Len(b) : b[i] = <<"thread_unblock", u>>

ReadyOf(stat, ready, idle) ==
  /\ Once(ready)
  /\ \A t \in Threads : Occurs(ready, t) <=> stat[t] = "READY" /\ t # idle

WaitersOf(stat, c, w) ==
  \A s \in Semas :
    /\ Once(w[s])
    /\ \A t \in Threads : Occurs(w[s], t) =>
         t # Idle /\ stat[t] = "BLOCKED" /\ c[t] # <<>> /\ c[t][1] = <<"sema_down", s>>

\* A new thread is blocked until its creator, and no one else, unblocks it.
FreshOf(stat, c, bs) ==
  \A v \in Threads, u \in Others : Pending(bs[v], u) =>
    /\ stat[u] = "BLOCKED" /\ c[u] = <<ie>>
    /\ \A w \in Threads : Pending(bs[w], u) => w = v

\* The page of initial_thread is not freed.
DyingOf(stat, bs) == \A t \in Threads : stat[t] = "DYING" => t = Main /\ bs[t] = <<>>

\* The idle thread runs before anyone can find the run queue empty.
IdleOf(stat, idle, b, n) ==
  /\ idle = NULL <=> b[1] = <<"idle", 0>>
  /\ idle = NULL => stat[Idle] \in {"READY", "RUNNING"}
  /\ n \in {0, 1}
  /\ b[1] \in { <<"idle", 0>>, <<"sema_up", idle_started>> } => n = 0

ListsInv ==
  /\ ~failed
  /\ \A t \in Threads : status[t] = "RUNNING" <=> t = current
  /\ ReadyOf(status, ready_list, idle_thread)
  /\ WaitersOf(status, call, waiters)
  /\ FreshOf(status, call, bodies)
  /\ DyingOf(status, bodies)
  /\ IdleOf(status, idle_thread, bodies[Idle], value[idle_started])

LEMMA TailOccurs ==
  ASSUME NEW S, NEW list \in Seq(S), list # <<>>, Once(list)
  PROVE  /\ Once(Tail(list))
         /\ \A y : Occurs(Tail(list), y) <=> Occurs(list, y) /\ y # Head(list)
<1>1. Tail(list) = rest(list) /\ Head(list) = list[1]
  BY DEF rest
<1> QED
  BY <1>1, RestOccurs

\* schedule() picks the first ready thread, or the idle thread.
LEMMA Switch ==
  ASSUME Types, ~failed, NEW stat \in [Threads -> Statuses], NEW ready \in Seq(Threads),
         schedule(stat, ready), UNCHANGED idle_thread,
         \A t \in Threads : stat[t] # "RUNNING",
         ReadyOf(stat, ready, idle_thread), WaitersOf(stat, call', waiters'),
         FreshOf(stat, call', bodies'), IdleOf(stat, idle_thread, bodies'[Idle], value'[idle_started]),
         \A t \in Threads : stat[t] = "DYING" => bodies'[t] = <<>> /\ (t = Main \/ t = current)
  PROVE  ListsInv'
<1> DEFINE next == next_thread_to_run(ready)
<1>1. next # NULL /\ next \in Threads
  <2>1. CASE ready = <<>>
    <3>1. \A t \in Threads : ~Occurs(ready, t)
      BY <2>1 DEF Occurs
    <3>2. idle_thread # NULL
      <4>1. ASSUME idle_thread = NULL PROVE FALSE
        <5>1. stat[Idle] = "READY" /\ Idle \in Threads /\ Idle # NULL
          BY <4>1, ThreadsAssumption DEF IdleOf, Threads
        <5> QED
          BY <3>1, <4>1, <5>1 DEF ReadyOf
      <4> QED
        BY <4>1
    <3> QED
      BY <2>1, <3>2, ThreadsAssumption DEF next_thread_to_run, Types, Threads
  <2>2. CASE ready # <<>>
    <3>1. Head(ready) \in Threads
      BY <2>2
    <3> QED
      BY <2>2, <3>1, ThreadsAssumption DEF next_thread_to_run
  <2> QED
    BY <2>1, <2>2
<1>2. /\ current' = next
      /\ status' = [t \in Threads |->
           IF t = next THEN "RUNNING"
           ELSE IF t = current /\ stat[t] = "DYING" /\ t # Main THEN "FREE"
           ELSE stat[t]]
      /\ ready_list' = IF ready = <<>> THEN ready ELSE Tail(ready)
      /\ failed' = failed
  BY <1>1 DEF schedule
<1>3. next = Idle \/ (ready # <<>> /\ next = Head(ready))
  BY <1>1 DEF next_thread_to_run, Types
<1>4. ready # <<>> => next = Head(ready) /\ stat[next] = "READY"
  <2> SUFFICES ASSUME ready # <<>> PROVE next = Head(ready) /\ stat[next] = "READY"
    OBVIOUS
  <2>1. next = Head(ready)
    BY DEF next_thread_to_run
  <2>2. Occurs(ready, Head(ready))
    <3>1. Len(ready) \in Nat \ {0} /\ Head(ready) = ready[1]
      BY EmptySeq
    <3>2. 1 \in 1..Len(ready)
      BY <3>1
    <3> QED
      BY <3>1, <3>2 DEF Occurs
  <2> QED
    BY <1>1, <2>1, <2>2 DEF ReadyOf
<1>5. ready = <<>> => next = idle_thread
  BY DEF next_thread_to_run
<1> HIDE DEF next
<1>6. /\ status'[next] = "RUNNING"
      /\ \A t \in Threads : t # next /\ stat[t] # "DYING" => status'[t] = stat[t]
      /\ \A t \in Threads : t # next /\ stat[t] = "DYING" => status'[t] \in {"DYING", "FREE"}
      /\ \A t \in Threads : status'[t] = "DYING" => stat[t] = "DYING" /\ (t = Main \/ t # current)
  <2>1. \A t \in Threads : t # next => status'[t] =
           IF t = current /\ stat[t] = "DYING" /\ t # Main THEN "FREE" ELSE stat[t]
    BY <1>2
  <2>2. status'[next] = "RUNNING"
    BY <1>1, <1>2
  <2> QED
    BY <2>1, <2>2
<1>7. ~failed'
  BY <1>2
<1>8. \A t \in Threads : status'[t] = "RUNNING" <=> t = current'
  BY <1>2, <1>6
<1>9. ReadyOf(status', ready_list', idle_thread')
  <2>1. \A t \in Threads : status'[t] = "READY" <=> stat[t] = "READY" /\ t # next
    BY <1>6
  <2>2. CASE ready = <<>>
    <3>1. ready_list' = ready
      BY <1>2, <2>2
    <3>2. \A t \in Threads : ~Occurs(ready, t)
      BY <2>2 DEF Occurs
    <3> QED
      BY <2>1, <3>1, <3>2 DEF ReadyOf
  <2>3. CASE ready # <<>>
    <3>1. ready_list' = Tail(ready) /\ next = Head(ready)
      BY <1>2, <1>4, <2>3
    <3>2. Once(ready)
      BY DEF ReadyOf
    <3>3. Once(Tail(ready)) /\ \A y : Occurs(Tail(ready), y) <=> Occurs(ready, y) /\ y # Head(ready)
      BY <2>3, <3>2, TailOccurs
    <3> QED
      BY <2>1, <3>1, <3>3 DEF ReadyOf
  <2> QED
    BY <2>2, <2>3
<1>10. \A t \in Threads : stat[t] = "BLOCKED" /\ t # Idle => status'[t] = "BLOCKED"
  BY <1>3, <1>4, <1>6
<1>11. WaitersOf(status', call', waiters')
  BY <1>10 DEF WaitersOf
<1>12. FreshOf(status', call', bodies')
  <2>1. \A u \in Others : u \in Threads /\ u # Idle
    BY ThreadsAssumption DEF Threads
  <2> QED
    BY <1>10, <2>1 DEF FreshOf
<1>13. DyingOf(status', bodies')
  BY <1>6 DEF DyingOf
<1>14. IdleOf(status', idle_thread', bodies'[Idle], value'[idle_started])
  <2>1. idle_thread = NULL => status'[Idle] \in {"READY", "RUNNING"}
    <3>1. Idle \in Threads
      BY DEF Threads
    <3>2. idle_thread = NULL => stat[Idle] = "READY"
      BY <3>1 DEF IdleOf
    <3> QED
      BY <1>6, <3>1, <3>2
  <2> QED
    BY <2>1 DEF IdleOf
<1> QED
  BY <1>7, <1>8, <1>9, <1>11, <1>12, <1>13, <1>14 DEF ListsInv

\* The running thread goes to the end of the run queue, unless it is idle.
LEMMA YieldedStatus ==
  ASSUME Types, NEW stat \in [Threads -> Statuses], NEW ready \in Seq(Threads),
         \A t \in Threads : stat[t] = "RUNNING" <=> t = current,
         ReadyOf(stat, ready, idle_thread)
  PROVE  /\ ReadyOf([stat EXCEPT ![current] = "READY"],
                    IF current # idle_thread THEN Append(ready, current) ELSE ready, idle_thread)
         /\ \A t \in Threads : [stat EXCEPT ![current] = "READY"][t] # "RUNNING"
<1>1. PICK now : now = [stat EXCEPT ![current] = "READY"]
  OBVIOUS
<1>2. current \in Threads /\ now[current] = "READY" /\ \A t \in Threads : t # current => now[t] = stat[t]
  BY <1>1 DEF Types
<1>3. ~Occurs(ready, current)
  <2>1. stat[current] = "RUNNING"
    BY <1>2
  <2> QED
    BY <1>2, <2>1 DEF ReadyOf
<1>4. CASE current # idle_thread
  <2>1. PICK new : new = Append(ready, current)
    OBVIOUS
  <2>2. Once(new) /\ \A y : Occurs(new, y) <=> Occurs(ready, y) \/ y = current
    BY <1>2, <1>3, <2>1, AppendOccurs DEF ReadyOf
  <2>3. ReadyOf(now, new, idle_thread)
    BY <1>2, <1>4, <2>2 DEF ReadyOf
  <2> QED
    BY <1>1, <1>2, <1>4, <2>1, <2>3
<1>5. CASE current = idle_thread
  <2>1. ReadyOf(now, ready, idle_thread)
    BY <1>2, <1>3, <1>5 DEF ReadyOf
  <2> QED
    BY <1>1, <1>2, <1>5, <2>1
<1> QED
  BY <1>4, <1>5

\* The running thread blocks or exits.
LEMMA ParkedStatus ==
  ASSUME ListsInv, Types, NEW x \in {"BLOCKED", "DYING"}
  PROVE  /\ ReadyOf([status EXCEPT ![current] = x], ready_list, idle_thread)
         /\ \A t \in Threads : [status EXCEPT ![current] = x][t] # "RUNNING"
         /\ [status EXCEPT ![current] = x] \in [Threads -> Statuses]
<1>1. PICK now : now = [status EXCEPT ![current] = x]
  OBVIOUS
<1>2. /\ current \in Threads /\ now[current] = x
      /\ \A t \in Threads : t # current => now[t] = status[t]
      /\ now \in [Threads -> Statuses]
  BY <1>1 DEF Types, Statuses
<1>3. status[current] = "RUNNING" /\ \A t \in Threads : t # current => status[t] # "RUNNING"
  BY <1>2 DEF ListsInv
<1>4. ReadyOf(now, ready_list, idle_thread)
  BY <1>2, <1>3 DEF ListsInv, ReadyOf
<1> QED
  BY <1>1, <1>2, <1>3, <1>4

LEMMA WaitersKept ==
  ASSUME NEW stat, NEW c, NEW w, NEW stat2, NEW c2, NEW w2, WaitersOf(stat, c, w),
         \A v \in Threads : stat[v] = "BLOCKED" => stat2[v] = "BLOCKED" /\ c2[v] = c[v],
         \A s \in Semas : w2[s] = w[s] \/ w2[s] = <<>>
  PROVE  WaitersOf(stat2, c2, w2)
<1>1. Once(<<>>) /\ \A t : ~Occurs(<<>>, t)
  BY DEF Once, Occurs
<1> SUFFICES ASSUME NEW s \in Semas
             PROVE  /\ Once(w2[s])
                    /\ \A t \in Threads : Occurs(w2[s], t) =>
                         /\ t # Idle /\ stat2[t] = "BLOCKED" /\ c2[t] # <<>>
                         /\ c2[t][1] = <<"sema_down", s>>
  BY DEF WaitersOf
<1>2. CASE w2[s] = w[s]
  BY <1>2 DEF WaitersOf
<1>3. CASE w2[s] = <<>>
  BY <1>1, <1>3
<1> QED
  BY <1>2, <1>3

LEMMA FreshKept ==
  ASSUME NEW stat, NEW c, NEW bs, NEW stat2, NEW c2, NEW bs2, FreshOf(stat, c, bs),
         \A u \in Others : stat[u] = "BLOCKED" /\ c[u] = <<ie>> =>
           stat2[u] = "BLOCKED" /\ c2[u] = c[u],
         \A v \in Threads, u \in Others : Pending(bs2[v], u) => Pending(bs[v], u)
  PROVE  FreshOf(stat2, c2, bs2)
BY DEF FreshOf

LEMMA PendingTail ==
  ASSUME NEW t \in Threads, NEW b, Shape(t, b), b # <<>>, NEW u \in Others
  PROVE  /\ Pending(Tail(b), u) => Pending(b, u)
         /\ b[1][1] = "thread_unblock" => ~Pending(Tail(b), u)
<1>1. /\ b \in Seq(Steps) /\ SleepShape(t, b)
      /\ Len(Tail(b)) = Len(b) - 1 /\ Len(b) \in Nat \ {0}
      /\ \A i \in 1..Len(b) - 1 : Tail(b)[i] = b[i + 1]
  BY TailEntries DEF Shape
<1>2. PICK d : d = Tail(b)
  OBVIOUS
<1>3. Len(d) = Len(b) - 1 /\ \A i \in 1..Len(b) - 1 : d[i] = b[i + 1]
  BY <1>1, <1>2
<1>4. ASSUME Pending(d, u) PROVE Pending(b, u)
  <2>1. PICK i \in 1..Len(d) : d[i] = <<"thread_unblock", u>>
    BY <1>4 DEF Pending
  <2>2. i + 1 \in 1..Len(b) /\ b[i + 1] = <<"thread_unblock", u>>
    BY <1>1, <1>3, <2>1
  <2> QED
    BY <2>2 DEF Pending
<1>5. ASSUME b[1][1] = "thread_unblock" PROVE ~Pending(d, u)
  <2>1. 1 \in 1..Len(b) /\ b[1] \in Steps
    BY <1>1
  <2>2. PICK x \in Others : b[1] = <<"thread_unblock", x>>
    BY <1>5, <2>1 DEF Steps
  <2>3. Len(b) = 1
    BY <1>1, <2>1, <2>2 DEF SleepShape
  <2>4. Len(d) = 0
    BY <1>1, <1>3, <2>3
  <2> QED
    BY <2>4 DEF Pending
<1> QED
  BY <1>2, <1>4, <1>5


\* A step of t that changes neither the scheduler's lists nor the idle thread.
LEMMA BodyLists ==
  ASSUME CoreInv, ListsInv, NEW t \in Threads, t = current, NEW d,
         bodies' = [bodies EXCEPT ![t] = d], \A v \in Threads \ {t} : call'[v] = call[v],
         UNCHANGED <<status, ready_list, current, idle_thread>>, ~failed',
         \A s \in Semas : waiters'[s] = waiters[s] \/ waiters'[s] = <<>>,
         \A u \in Others : Pending(d, u) => Pending(bodies[t], u),
         IdleOf(status, idle_thread, bodies'[Idle], value'[idle_started])
  PROVE  ListsInv'
<1>1. bodies \in [Threads -> Seq(Steps)] /\ Types
  BY BodySteps DEF CoreInv
<1>2. bodies'[t] = d /\ \A v \in Threads : v # t => bodies'[v] = bodies[v] /\ call'[v] = call[v]
  BY <1>1
<1>3. status[t] = "RUNNING" /\ \A v \in Threads : status[v] # "RUNNING" => v # t
  BY DEF ListsInv
<1>4. WaitersOf(status, call', waiters')
  <2>1. \A v \in Threads : status[v] = "BLOCKED" => status[v] = "BLOCKED" /\ call'[v] = call[v]
    BY <1>2, <1>3
  <2> QED
    BY <2>1, WaitersKept DEF ListsInv
<1>5. FreshOf(status, call', bodies')
  <2>1. \A u \in Others : status[u] = "BLOCKED" /\ call[u] = <<ie>> =>
          status[u] = "BLOCKED" /\ call'[u] = call[u]
    BY <1>2, <1>3 DEF Threads
  <2>2. \A v \in Threads, u \in Others : Pending(bodies'[v], u) => Pending(bodies[v], u)
    BY <1>2
  <2>3. FreshOf(status, call, bodies)
    BY DEF ListsInv
  <2> QED
    BY <2>1, <2>2, <2>3 DEF FreshOf
<1>6. DyingOf(status, bodies')
  BY <1>2, <1>3 DEF ListsInv, DyingOf
<1> QED
  BY <1>4, <1>5, <1>6 DEF ListsInv

LEMMA IdleKept ==
  ASSUME CoreInv, ListsInv, NEW t \in Threads, t # Idle, NEW d,
         bodies' = [bodies EXCEPT ![t] = d], value'[idle_started] \in {0, value[idle_started]}
  PROVE  IdleOf(status, idle_thread, bodies'[Idle], value'[idle_started])
<1>1. bodies \in [Threads -> Seq(Steps)] /\ Idle \in Threads
  BY BodySteps DEF CoreInv, Threads
<1>2. bodies'[Idle] = bodies[Idle]
  BY <1>1
<1> QED
  BY <1>2 DEF ListsInv, IdleOf

LEMMA PoppedLists ==
  ASSUME CoreInv, ListsInv, NEW t \in Threads, NEW op, NEW arg, At(t, op, arg), Done(t),
         op \notin {"intr_enable", "idle", "sema_up", "block", "hlt"},
         UNCHANGED <<status, ready_list, current, idle_thread>>, ~failed',
         \A s \in Semas : waiters'[s] = waiters[s] \/ waiters'[s] = <<>>,
         value'[idle_started] \in {0, value[idle_started]}
  PROVE  ListsInv'
<1>1. /\ bodies[t] = call[t] /\ bodies[t] # <<>> /\ bodies[t][1] = <<op, arg>> /\ t = current
      /\ bodies' = [bodies EXCEPT ![t] = Tail(bodies[t])] /\ Shape(t, bodies[t])
  BY AtBody, BodyPopped DEF CoreInv, CallsInv
<1>2. t # Idle
  BY <1>1, IdleBody DEF CoreInv
<1>3. \A u \in Others : Pending(Tail(bodies[t]), u) => Pending(bodies[t], u)
  BY <1>1, PendingTail
<1>4. \A v \in Threads \ {t} : call'[v] = call[v]
  BY DEF Done, CoreInv, Types
<1>5. IdleOf(status, idle_thread, bodies'[Idle], value'[idle_started])
  BY <1>1, <1>2, IdleKept
<1> QED
  BY <1>1, <1>3, <1>4, <1>5, BodyLists

LEMMA IntrEnableLists ==
  ASSUME CoreInv, ListsInv, UNCHANGED program, NEW t \in Threads, IntrEnable(t)
  PROVE  ListsInv'
<1>1. /\ At(t, "intr_enable", 0) /\ Done(t) /\ t = current
      /\ UNCHANGED <<status, ready_list, current, idle_thread, failed, value, waiters>>
  BY DEF IntrEnable, syncVars, At
<1>2. bodies' = bodies /\ bodies \in [Threads -> Seq(Steps)] /\ Idle \in Threads
  BY IntrEnableCore, BodySteps DEF CoreInv, Threads
<1>3. bodies' = [bodies EXCEPT ![t] = bodies[t]]
  BY <1>2
<1>4. \A v \in Threads \ {t} : call'[v] = call[v]
  BY <1>1 DEF Done, CoreInv, Types
<1>5. IdleOf(status, idle_thread, bodies'[Idle], value'[idle_started]) /\ ~failed'
  BY <1>1, <1>2 DEF ListsInv
<1> QED
  BY <1>1, <1>3, <1>4, <1>5, BodyLists

LEMMA IdleStartsLists ==
  ASSUME CoreInv, ListsInv, UNCHANGED program, IdleStarts
  PROVE  ListsInv'
<1>0. /\ At(Idle, "idle", 0) /\ idle_thread' = Idle /\ Done(Idle)
      /\ UNCHANGED <<status, ready_list, current, failed, value, waiters>> /\ Idle \in Threads
  BY DEF IdleStarts, schedVars, syncVars, Threads
<1>1. /\ bodies[Idle] # <<>> /\ bodies[Idle][1] = <<"idle", 0>> /\ Idle = current
      /\ bodies' = [bodies EXCEPT ![Idle] = Tail(bodies[Idle])] /\ Shape(Idle, bodies[Idle])
  BY <1>0, AtBody, IdleStartsCore DEF CoreInv, CallsInv
<1>2. bodies \in [Threads -> Seq(Steps)]
  BY <1>0, BodySteps DEF CoreInv
<1>3. bodies'[Idle] = << <<"sema_up", idle_started>>, <<"block", 0>> >>
  <2>1. bodies[Idle] \in
       { << <<"idle", 0>>, <<"sema_up", idle_started>>, <<"block", 0>> >>,
         << <<"sema_up", idle_started>>, <<"block", 0>> >>,
         << <<"block", 0>> >>, << <<"hlt", 0>> >> }
    BY <1>1 DEF Shape, FormShape
  <2>2. bodies[Idle] = << <<"idle", 0>>, <<"sema_up", idle_started>>, <<"block", 0>> >>
    BY <1>1, <2>1
  <2> QED
    BY <1>0, <1>1, <1>2, <2>2, TailThree
<1>4. status[Idle] = "RUNNING" /\ \A v \in Threads : status[v] # "RUNNING" => v # Idle
  BY <1>0, <1>1 DEF ListsInv
<1>5. \A v \in Threads : v # Idle => bodies'[v] = bodies[v] /\ call'[v] = call[v]
  BY <1>0, <1>1, <1>2 DEF Done, CoreInv, Types
<1>6. ReadyOf(status, ready_list, Idle)
  <2>1. ~Occurs(ready_list, Idle)
    BY <1>0, <1>4 DEF ListsInv, ReadyOf
  <2>2. idle_thread \in {NULL, Idle} /\ \A v \in Threads : v # NULL
    BY ThreadsAssumption DEF CoreInv, Types
  <2> QED
    BY <1>4, <2>1, <2>2 DEF ListsInv, ReadyOf
<1>7. WaitersOf(status, call', waiters)
  <2>1. \A v \in Threads : status[v] = "BLOCKED" => status[v] = "BLOCKED" /\ call'[v] = call[v]
    BY <1>4, <1>5
  <2> QED
    BY <2>1, WaitersKept DEF ListsInv
<1>8. FreshOf(status, call', bodies')
  <2>1. \A u \in Others : status[u] = "BLOCKED" /\ call[u] = <<ie>> =>
          status[u] = "BLOCKED" /\ call'[u] = call[u]
    BY <1>4, <1>5 DEF Threads
  <2>2. \A u \in Others : Pending(Tail(bodies[Idle]), u) => Pending(bodies[Idle], u)
    BY <1>0, <1>1, PendingTail
  <2>3. \A v \in Threads, u \in Others : Pending(bodies'[v], u) => Pending(bodies[v], u)
    BY <1>0, <1>1, <1>2, <1>5, <2>2
  <2> QED
    BY <2>1, <2>3, FreshKept DEF ListsInv
<1>9. DyingOf(status, bodies')
  BY <1>4, <1>5 DEF ListsInv, DyingOf
<1>10. IdleOf(status, Idle, bodies'[Idle], value[idle_started])
  <2>1. value[idle_started] = 0
    BY <1>1 DEF ListsInv, IdleOf
  <2>2. bodies'[Idle][1] # <<"idle", 0>> /\ Idle # NULL
    BY <1>0, <1>3, ThreadsAssumption
  <2> QED
    BY <2>1, <2>2 DEF IdleOf
<1> QED
  BY <1>0, <1>6, <1>7, <1>8, <1>9, <1>10 DEF ListsInv


\* What the steps of the semaphores, locks and conditions keep.
LEMMA SemaTakenLists ==
  ASSUME CoreInv, ListsInv, NEW t \in Threads, NEW s \in Semas,
         At(t, "sema_down", s), value[s] > 0, value' = [value EXCEPT ![s] = @ - 1], Done(t),
         UNCHANGED <<status, ready_list, current, waiters, failed, idle_thread>>
  PROVE  ListsInv'
<1>1. value'[idle_started] \in {0, value[idle_started]}
  <2>1. value[idle_started] \in {0, 1} /\ idle_started \in Semas
    BY DEF ListsInv, IdleOf, Semas
  <2>2. value'[idle_started] = IF s = idle_started THEN value[idle_started] - 1
                               ELSE value[idle_started]
    BY <2>1 DEF CoreInv, Types
  <2> QED
    BY <2>1, <2>2
<1>2. ~failed'
  BY DEF ListsInv
<1> QED
  BY <1>1, <1>2, PoppedLists

LEMMA LockLists ==
  ASSUME CoreInv, ListsInv, UNCHANGED program, NEW t \in Threads, NEW l \in AllLocks,
         LockTaken(t, l) \/ LockDropped(t, l)
  PROVE  ListsInv'
<1>1. CASE LockTaken(t, l)
  <2>1. /\ At(t, "taken", l) /\ Done(t)
        /\ UNCHANGED <<status, ready_list, current, idle_thread, failed, value, waiters>>
    BY <1>1 DEF LockTaken, schedVars
  <2>2. ~failed' /\ value'[idle_started] \in {0, value[idle_started]}
    BY <2>1 DEF ListsInv
  <2> QED
    BY <2>1, <2>2, PoppedLists
<1>2. CASE LockDropped(t, l)
  <2>1. /\ At(t, "dropped", l) /\ Done(t) /\ failed' = (holder[l] # t)
        /\ UNCHANGED <<status, ready_list, current, idle_thread, value, waiters>>
    BY <1>2 DEF LockDropped, schedVars
  <2>2. holder[l] = t
    BY <1>2, LockDroppedCore
  <2>3. ~failed' /\ value'[idle_started] \in {0, value[idle_started]}
    BY <2>1, <2>2
  <2> QED
    BY <2>1, <2>3, PoppedLists
<1> QED
  BY <1>1, <1>2

\* A semaphore on the stack is initialised before it is waited for.
LEMMA StackSemaLists ==
  ASSUME CoreInv, ListsInv, NEW t \in Threads, NEW op, NEW arg, At(t, op, arg), Done(t),
         op \in {"cond_queue", "sleep"},
         UNCHANGED <<status, ready_list, current, idle_thread, failed>>,
         value' = [value EXCEPT ![t] = 0], waiters' = [waiters EXCEPT ![t] = <<>>]
  PROVE  ListsInv'
<1>1. t # idle_started /\ idle_started \in Semas
  BY SemasAssumption DEF Semas
<1>2. value'[idle_started] = value[idle_started] /\ ~failed'
  BY <1>1 DEF CoreInv, Types, ListsInv
<1>3. \A s \in Semas : waiters'[s] = waiters[s] \/ waiters'[s] = <<>>
  BY DEF CoreInv, Types
<1> QED
  BY <1>2, <1>3, PoppedLists

LEMMA CondQueueLists ==
  ASSUME CoreInv, ListsInv, NEW t \in Threads, NEW c \in Conds, CondQueue(t, c)
  PROVE  ListsInv'
<1>1. /\ At(t, "cond_queue", c) /\ Done(t)
      /\ UNCHANGED <<status, ready_list, current, idle_thread, failed>>
      /\ value' = [value EXCEPT ![t] = 0] /\ waiters' = [waiters EXCEPT ![t] = <<>>]
  BY DEF CondQueue, schedVars
<1> QED
  BY <1>1, StackSemaLists

LEMMA InsertSleeperLists ==
  ASSUME CoreInv, ListsInv, NEW t \in Threads, InsertSleeper(t)
  PROVE  ListsInv'
<1>1. /\ At(t, "sleep", 0) /\ Done(t)
      /\ UNCHANGED <<status, ready_list, current, idle_thread, failed>>
      /\ value' = [value EXCEPT ![t] = 0] /\ waiters' = [waiters EXCEPT ![t] = <<>>]
  BY DEF InsertSleeper, schedVars
<1> QED
  BY <1>1, StackSemaLists

LEMMA ReadTicksLists ==
  ASSUME CoreInv, ListsInv, NEW t \in Threads, NEW n \in Durations, ReadTicks(t, n)
  PROVE  ListsInv'
<1>1. /\ At(t, "timer_ticks", n) /\ Done(t)
      /\ UNCHANGED <<status, ready_list, current, idle_thread, failed, value, waiters>>
  BY DEF ReadTicks, schedVars, syncVars
<1>2. ~failed' /\ value'[idle_started] \in {0, value[idle_started]}
  BY <1>1 DEF ListsInv
<1> QED
  BY <1>1, <1>2, PoppedLists

\* A signal adds a sema_up to the rest of the function.
LEMMA PushedPending ==
  ASSUME NEW x \in Steps, NEW b \in Seq(Steps), NEW u, x[1] # "thread_unblock",
         Pending(<<x>> \o b, u)
  PROVE  Pending(b, u)
<1>1. PICK d : d = <<x>> \o b
  OBVIOUS
<1>2. d \in Seq(Steps) /\ d # <<>> /\ d[1] = x /\ Tail(d) = b
  BY <1>1, Pushed
<1>3. Len(b) = Len(d) - 1 /\ Len(d) \in Nat \ {0} /\ \A i \in 1..Len(d) - 1 : b[i] = d[i + 1]
  BY <1>2, TailEntries
<1>4. PICK i \in 1..Len(d) : d[i] = <<"thread_unblock", u>>
  BY <1>1 DEF Pending
<1>5. i # 1
  BY <1>2, <1>4
<1>6. i - 1 \in 1..Len(d) - 1 /\ (i - 1) + 1 = i
  BY <1>3, <1>5
<1>7. b[i - 1] = <<"thread_unblock", u>>
  BY <1>3, <1>4, <1>6
<1> QED
  BY <1>3, <1>6, <1>7 DEF Pending

LEMMA CondSignalLists ==
  ASSUME CoreInv, ListsInv, UNCHANGED program, NEW t \in Threads, NEW c \in Conds,
         CondSignal(t, c)
  PROVE  ListsInv'
<1>0. /\ At(t, "cond_signal", c) /\ failed' = (holder[LockOf[c]] # t)
      /\ UNCHANGED <<status, ready_list, current, idle_thread, value, waiters>>
  BY DEF CondSignal, schedVars
<1>1. bodies[t] # <<>> /\ bodies[t][1] = <<"cond_signal", c>> /\ t = current
  BY <1>0, AtBody DEF CoreInv
<1>2. /\ bodies' = [bodies EXCEPT ![t] = SignalledBody(t, c)] /\ holder[LockOf[c]] = t
      /\ bodies \in [Threads -> Seq(Steps)] /\ Shape(t, bodies[t])
      /\ cond \in [Conds -> Seq(Threads)]
  BY CondSignalCore, BodySteps DEF CoreInv, CallsInv, Types
<1>3. t # Idle
  BY <1>1, IdleBody DEF CoreInv
<1>4. Tail(bodies[t]) \in Seq(Steps)
  BY <1>1, <1>2, TailEntries
<1>5. \A u \in Others : Pending(SignalledBody(t, c), u) => Pending(bodies[t], u)
  <2> SUFFICES ASSUME NEW u \in Others, Pending(SignalledBody(t, c), u)
               PROVE  Pending(Tail(bodies[t]), u)
    BY <1>1, <1>2, PendingTail
  <2>1. CASE cond[c] = <<>>
    <3>1. SignalledBody(t, c) = Tail(bodies[t])
      BY <1>4, <2>1 DEF SignalledBody
    <3> QED
      BY <3>1
  <2>2. CASE cond[c] # <<>>
    <3>0. PICK x : x = <<"sema_up", cond[c][1]>>
      OBVIOUS
    <3>1. x \in Steps /\ x[1] # "thread_unblock"
      <4>1. cond[c] \in Seq(Threads) /\ Len(cond[c]) \in Nat \ {0}
        BY <1>2, <2>2, EmptySeq
      <4>2. cond[c][1] \in Threads
        BY <4>1
      <4> QED
        BY <3>0, <4>2 DEF Steps, Semas
    <3>2. Pending(<<x>> \o Tail(bodies[t]), u)
      BY <2>2, <3>0 DEF SignalledBody
    <3> QED
      BY <1>4, <3>1, <3>2, PushedPending
  <2> QED
    BY <2>1, <2>2
<1>6. IdleOf(status, idle_thread, bodies'[Idle], value'[idle_started])
  BY <1>0, <1>2, <1>3, IdleKept
<1>7. ~failed' /\ \A v \in Threads \ {t} : call'[v] = call[v]
  BY <1>0, <1>2 DEF CondSignal, CoreInv, Types
<1> QED
  BY <1>0, <1>1, <1>2, <1>5, <1>6, <1>7, BodyLists

LEMMA CondBroadcastLists ==
  ASSUME CoreInv, ListsInv, UNCHANGED program, NEW t \in Threads, NEW c \in Conds,
         CondBroadcast(t, c)
  PROVE  ListsInv'
<1>0. /\ At(t, "cond_broadcast", c)
      /\ UNCHANGED <<status, ready_list, current, idle_thread, failed, value, waiters>>
  BY DEF CondBroadcast, schedVars, syncVars
<1>1. bodies[t] # <<>> /\ bodies[t][1] = <<"cond_broadcast", c>> /\ t = current
  BY <1>0, AtBody DEF CoreInv
<1>2. /\ bodies' = [bodies EXCEPT ![t] = BroadcastBodyOf(t, c)]
      /\ bodies \in [Threads -> Seq(Steps)] /\ Shape(t, bodies[t])
  BY CondBroadcastCore, BodySteps DEF CoreInv, CallsInv
<1>3. t # Idle
  BY <1>1, IdleBody DEF CoreInv
<1>5. \A u \in Others : Pending(BroadcastBodyOf(t, c), u) => Pending(bodies[t], u)
  <2> SUFFICES ASSUME NEW u \in Others, Pending(BroadcastBodyOf(t, c), u)
               PROVE  Pending(bodies[t], u)
    OBVIOUS
  <2>1. CASE cond[c] = <<>>
    <3>1. Pending(Tail(bodies[t]), u)
      BY <2>1 DEF BroadcastBodyOf
    <3> QED
      BY <1>1, <1>2, <3>1, PendingTail
  <2>2. CASE cond[c] # <<>>
    <3>0. PICK x : x = <<"cond_signal", c>>
      OBVIOUS
    <3>1. x \in Steps /\ x[1] # "thread_unblock"
      BY <3>0 DEF Steps
    <3>2. Pending(<<x>> \o bodies[t], u) /\ bodies[t] \in Seq(Steps)
      BY <1>2, <2>2, <3>0 DEF BroadcastBodyOf
    <3> QED
      BY <3>1, <3>2, PushedPending
  <2> QED
    BY <2>1, <2>2
<1>6. IdleOf(status, idle_thread, bodies'[Idle], value'[idle_started])
  BY <1>0, <1>2, <1>3, IdleKept
<1>7. ~failed' /\ \A v \in Threads \ {t} : call'[v] = call[v]
  BY <1>0 DEF CondBroadcast, CoreInv, Types, ListsInv
<1> QED
  BY <1>0, <1>1, <1>2, <1>5, <1>6, <1>7, BodyLists


\* No function starts with a thread to unblock in it: thread_create adds it.
LEMMA IsCallPending ==
  ASSUME NEW t \in Threads, NEW b, IsCall(t, b), NEW u
  PROVE  ~Pending(b, u)
<1>1. ASSUME NEW l \in Locks, b = lock_acquire(l) \/ b = lock_release(l)
      PROVE  ~Pending(b, u)
  BY <1>1 DEF lock_acquire, lock_release, Pending
<1>2. ASSUME NEW y, b = <<y>>, y[1] # "thread_unblock"
      PROVE  ~Pending(b, u)
  BY <1>2 DEF Pending
<1>3. ASSUME NEW c \in Conds, b = cond_wait(t, c)
      PROVE  ~Pending(b, u)
  <2>1. PICK l : l = LockOf[c]
    OBVIOUS
  <2>2. /\ Len(b) = 6 /\ b[1] = <<"cond_queue", c>> /\ b[2] = <<"dropped", l>>
        /\ b[3] = <<"sema_up", l>> /\ b[4] = <<"sema_down", t>>
        /\ b[5] = <<"sema_down", l>> /\ b[6] = <<"taken", l>>
    BY <1>3, <2>1 DEF cond_wait, lock_acquire, lock_release
  <2>3. \A i \in 1..6 : i = 1 \/ i = 2 \/ i = 3 \/ i = 4 \/ i = 5 \/ i = 6
    OBVIOUS
  <2>4. \A i \in 1..Len(b) : b[i][1] # "thread_unblock"
    BY <2>2, <2>3
  <2> QED
    BY <2>4 DEF Pending
<1>4. ASSUME NEW n \in Durations, b = timer_sleep(t, n)
      PROVE  ~Pending(b, u)
  BY <1>4 DEF timer_sleep, Pending
<1>5. ASSUME NEW c \in Conds, b = << <<"cond_signal", c>> >> \/ b = << <<"cond_broadcast", c>> >>
      PROVE  ~Pending(b, u)
  BY <1>2, <1>5
<1>6. ASSUME b = << <<"yield", 0>> >> \/ b = << <<"exit", 0>> >>
      PROVE  ~Pending(b, u)
  BY <1>2, <1>6
<1>7. ASSUME NEW v \in Others, b = << <<"init_thread", v>> >>
      PROVE  ~Pending(b, u)
  BY <1>2, <1>7
<1> QED
  BY <1>1, <1>3, <1>4, <1>5, <1>6, <1>7 DEF IsCall

LEMMA CallLists ==
  ASSUME CoreInv, ListsInv, UNCHANGED program, NEW t \in Threads, Call(t)
  PROVE  ListsInv'
<1>1. PICK b : /\ IsCall(t, b) /\ call' = [call EXCEPT ![t] = b]
               /\ bodies' = [bodies EXCEPT ![t] = b]
  BY CallCore
<1>2. t = current /\ t # Idle
  BY CallCore
<1>3. UNCHANGED <<status, ready_list, current, idle_thread, failed, value, waiters>>
  BY DEF Call, Calls, schedVars, syncVars
<1>4. \A u \in Others : Pending(b, u) => Pending(bodies[t], u)
  BY <1>1, IsCallPending
<1>5. IdleOf(status, idle_thread, bodies'[Idle], value'[idle_started])
  BY <1>1, <1>2, <1>3, IdleKept
<1>6. ~failed' /\ \A v \in Threads \ {t} : call'[v] = call[v]
  BY <1>1, <1>3 DEF ListsInv, CoreInv, Types
<1> QED
  BY <1>1, <1>2, <1>3, <1>4, <1>5, <1>6, BodyLists

LEMMA LockTryAcquireLists ==
  ASSUME CoreInv, ListsInv, UNCHANGED program, NEW t \in Threads, NEW l \in Locks,
         LockTryAcquire(t, l)
  PROVE  ListsInv'
<1>1. PICK b : b = << <<"taken", l>> >>
  OBVIOUS
<1>2. t = current /\ t # Idle /\ bodies' = [bodies EXCEPT ![t] = b]
      /\ call' = [call EXCEPT ![t] = b]
  BY <1>1, LockTryAcquireCore
<1>3. /\ UNCHANGED <<status, ready_list, current, idle_thread, failed, waiters>>
      /\ value' = [value EXCEPT ![l] = @ - 1]
  BY DEF LockTryAcquire, schedVars
<1>4. \A u \in Others : ~Pending(b, u)
  BY <1>1 DEF Pending
<1>5. value'[idle_started] = value[idle_started]
  <2>1. l # idle_started
    BY SemasAssumption
  <2> QED
    BY <1>3, <2>1 DEF CoreInv, Types, Semas
<1>6. IdleOf(status, idle_thread, bodies'[Idle], value'[idle_started])
  BY <1>2, <1>5, IdleKept
<1>7. ~failed' /\ \A v \in Threads \ {t} : call'[v] = call[v]
  BY <1>2, <1>3 DEF ListsInv, CoreInv, Types
<1> QED
  BY <1>2, <1>3, <1>4, <1>6, <1>7, BodyLists

LEMMA CreatingPending ==
  ASSUME NEW u, NEW x
  PROVE  Pending(creating(u), x) <=> x = u
<1>2. PICK d : d = creating(u)
  OBVIOUS
<1>3. /\ Len(d) = 5 /\ d[5] = <<"thread_unblock", u>>
      /\ \A i \in 1..4 : d[i][1] # "thread_unblock"
  <2>1. /\ Len(creating(u)) = 5 /\ creating(u)[1] = <<"sema_down", tid_lock>>
        /\ creating(u)[2] = <<"taken", tid_lock>> /\ creating(u)[3] = <<"dropped", tid_lock>>
        /\ creating(u)[4] = <<"sema_up", tid_lock>> /\ creating(u)[5] = <<"thread_unblock", u>>
    BY DEF creating, lock_acquire, lock_release
  <2>2. \A i \in 1..4 : i = 1 \/ i = 2 \/ i = 3 \/ i = 4
    OBVIOUS
  <2> QED
    BY <1>2, <2>1, <2>2
<1>4. \A i \in 1..5 : i = 5 \/ i \in 1..4
  OBVIOUS
<1>5. \A i \in 1..Len(d) : d[i] = <<"thread_unblock", x>> => i = 5
  BY <1>3, <1>4
<1>6. 5 \in 1..Len(d)
  BY <1>3
<1> QED
  BY <1>2, <1>3, <1>5, <1>6 DEF Pending

\* The new thread is blocked, and its creator alone is to unblock it.
LEMMA InitThreadLists ==
  ASSUME CoreInv, ListsInv, UNCHANGED program, NEW t \in Threads, NEW u \in Others,
         InitThread(t, u)
  PROVE  ListsInv'
<1>0. /\ At(t, "init_thread", u) /\ u \in Threads /\ u # Idle
      /\ UNCHANGED <<ready_list, current, idle_thread, failed, value, waiters>>
  BY ThreadsAssumption DEF InitThread, syncVars, Threads
<1>1. bodies[t] # <<>> /\ bodies[t][1] = <<"init_thread", u>> /\ t = current
  BY <1>0, AtBody DEF CoreInv
<1>2. t # Idle /\ bodies \in [Threads -> Seq(Steps)]
  BY <1>1, IdleBody, BodySteps DEF CoreInv
<1>3. ~failed' /\ value'[idle_started] \in {0, value[idle_started]}
  BY <1>0 DEF ListsInv
<1>4. CASE status[u] # "FREE"
  <2>1. Done(t) /\ UNCHANGED status
    BY <1>4 DEF InitThread
  <2> QED
    BY <1>0, <1>3, <2>1, PoppedLists
<1>5. CASE status[u] = "FREE"
  <2>1. /\ u # t /\ status' = [status EXCEPT ![u] = "BLOCKED"]
        /\ call[u] = <<>> /\ call'[u] = <<ie>>
        /\ bodies' = [bodies EXCEPT ![t] = creating(u)]
    <3>1. status'[u] = "BLOCKED"
      BY <1>0, <1>5 DEF InitThread, CoreInv, Types
    <3> QED
      BY <1>5, <3>1, InitThreadCore
  <2>2. status'[u] = "BLOCKED" /\ \A v \in Threads : v # u => status'[v] = status[v]
    BY <1>0, <2>1 DEF CoreInv, Types
  <2>3. \A v \in Threads : v # u /\ v # t => call'[v] = call[v]
    BY <1>5 DEF InitThread, CoreInv, Types
  <2>4. bodies'[t] = creating(u) /\ \A v \in Threads : v # t => bodies'[v] = bodies[v]
    BY <1>2, <2>1
  <2>5. status[t] = "RUNNING"
    BY <1>1 DEF ListsInv
  <2>6. \A v \in Threads : ~Pending(bodies[v], u)
    BY <1>5 DEF ListsInv, FreshOf
  <2>7. ReadyOf(status', ready_list, idle_thread)
    <3>1. ReadyOf(status, ready_list, idle_thread)
      BY DEF ListsInv
    <3> QED
      BY <1>0, <1>5, <2>2, <3>1 DEF ReadyOf
  <2>8. WaitersOf(status', call', waiters)
    <3>1. \A v \in Threads : status[v] = "BLOCKED" => status'[v] = "BLOCKED" /\ call'[v] = call[v]
      BY <1>5, <2>2, <2>3, <2>5
    <3> QED
      BY <3>1, WaitersKept DEF ListsInv
  <2>9. FreshOf(status', call', bodies')
    <3>1. \A v \in Threads, x \in Others : Pending(bodies'[v], x) =>
             (v = t /\ x = u) \/ (v # t /\ x # u /\ Pending(bodies[v], x))
      BY <2>4, <2>6, CreatingPending
    <3>2. \A x \in Others : x # u /\ status[x] = "BLOCKED" =>
             status'[x] = "BLOCKED" /\ call'[x] = call[x]
      BY <2>2, <2>3, <2>5 DEF Threads
    <3>3. FreshOf(status, call, bodies)
      BY DEF ListsInv
    <3> QED
      BY <2>1, <2>2, <3>1, <3>2, <3>3 DEF FreshOf
  <2>10. DyingOf(status', bodies')
    <3>1. \A v \in Threads : status'[v] = "DYING" => v # u /\ v # t /\ status[v] = "DYING"
      BY <2>2, <2>5
    <3> QED
      BY <2>4, <3>1 DEF ListsInv, DyingOf
  <2>11. IdleOf(status', idle_thread, bodies'[Idle], value'[idle_started])
    <3>1. IdleOf(status, idle_thread, bodies'[Idle], value'[idle_started])
      BY <1>2, <1>3, <2>1, IdleKept
    <3>2. status'[Idle] = status[Idle]
      BY <1>0, <2>2 DEF Threads
    <3> QED
      BY <3>1, <3>2 DEF IdleOf
  <2>12. \A v \in Threads : status'[v] = "RUNNING" <=> v = current
    BY <1>1, <1>5, <2>1, <2>2 DEF ListsInv
  <2> QED
    BY <1>0, <1>3, <2>7, <2>8, <2>9, <2>10, <2>11, <2>12 DEF ListsInv
<1> QED
  BY <1>4, <1>5


(***************************************************************************)
(* Threads become ready: thread_unblock, sema_up and the timer.            *)
(***************************************************************************)
LEMMA ConcatOccurs ==
  ASSUME NEW S, NEW a \in Seq(S), NEW b \in Seq(S)
  PROVE  /\ a \o b \in Seq(S)
         /\ \A y : Occurs(a \o b, y) <=> Occurs(a, y) \/ Occurs(b, y)
         /\ Once(a) /\ Once(b) /\ (\A y : ~(Occurs(a, y) /\ Occurs(b, y))) => Once(a \o b)
<1>1. PICK n : n = Len(a)
  OBVIOUS
<1>2. PICK m : m = Len(b)
  OBVIOUS
<1>3. PICK d : d = a \o b
  OBVIOUS
<1>4. /\ n \in Nat /\ m \in Nat /\ d \in Seq(S) /\ Len(d) = n + m
      /\ \A i \in 1..n : d[i] = a[i]
      /\ \A i \in 1..m : d[n + i] = b[i]
  <2>1. n \in Nat /\ m \in Nat
    BY <1>1, <1>2
  <2>2. d \in Seq(S) /\ Len(d) = n + m
    BY <1>1, <1>2, <1>3
  <2>3. \A i \in 1..n : d[i] = a[i]
    BY <1>1, <1>2, <1>3, <2>1
  <2>4. \A i \in 1..m : d[n + i] = b[i]
    BY <1>1, <1>2, <1>3, <2>1
  <2> QED
    BY <2>1, <2>2, <2>3, <2>4
<1>5. \A i \in 1..Len(d) : i \in 1..n \/ (i - n \in 1..m /\ d[i] = b[i - n])
  <2> SUFFICES ASSUME NEW i \in 1..Len(d), i \notin 1..n
               PROVE  i - n \in 1..m /\ d[i] = b[i - n]
    OBVIOUS
  <2>1. i - n \in 1..m /\ n + (i - n) = i
    BY <1>4
  <2> QED
    BY <1>4, <2>1
<1>6. ASSUME NEW y PROVE Occurs(d, y) <=> Occurs(a, y) \/ Occurs(b, y)
  <2>1. ASSUME Occurs(d, y) PROVE Occurs(a, y) \/ Occurs(b, y)
    <3>1. PICK i \in 1..Len(d) : d[i] = y
      BY <2>1 DEF Occurs
    <3> QED
      BY <1>1, <1>2, <1>4, <1>5, <3>1 DEF Occurs
  <2>2. ASSUME Occurs(a, y) PROVE Occurs(d, y)
    <3>1. PICK i \in 1..n : a[i] = y
      BY <1>1, <2>2 DEF Occurs
    <3>2. i \in 1..Len(d) /\ d[i] = y
      BY <1>4, <3>1
    <3> QED
      BY <3>2 DEF Occurs
  <2>3. ASSUME Occurs(b, y) PROVE Occurs(d, y)
    <3>1. PICK i \in 1..m : b[i] = y
      BY <1>2, <2>3 DEF Occurs
    <3>2. n + i \in 1..Len(d)
      BY <1>4, <3>1
    <3>3. d[n + i] = y
      BY <1>4, <3>1
    <3> QED
      BY <3>2, <3>3 DEF Occurs
  <2> QED
    BY <2>1, <2>2, <2>3
<1>7. ASSUME Once(a), Once(b), \A y : ~(Occurs(a, y) /\ Occurs(b, y))
      PROVE  Once(d)
  <2> SUFFICES ASSUME NEW i \in 1..Len(d), NEW j \in 1..Len(d), d[i] = d[j]
               PROVE  i = j
    BY DEF Once
  <2>1. CASE i \in 1..n /\ j \in 1..n
    <3>1. a[i] = a[j]
      BY <1>4, <2>1
    <3> QED
      BY <1>1, <1>7, <2>1, <3>1 DEF Once
  <2>2. CASE i \notin 1..n /\ j \notin 1..n
    <3>1. i - n \in 1..m /\ j - n \in 1..m /\ b[i - n] = b[j - n]
      BY <1>5, <2>2
    <3>2. i - n = j - n
      BY <1>2, <1>7, <3>1 DEF Once
    <3> QED
      BY <1>4, <3>2
  <2>3. ASSUME NEW p \in 1..Len(d), NEW q \in 1..Len(d), d[p] = d[q], p \in 1..n, q \notin 1..n
        PROVE  FALSE
    <3>1. Occurs(a, d[p])
      BY <1>1, <1>4, <2>3 DEF Occurs
    <3>2. Occurs(b, d[q])
      BY <1>2, <1>5, <2>3 DEF Occurs
    <3> QED
      BY <1>7, <2>3, <3>1, <3>2
  <2> QED
    BY <2>1, <2>2, <2>3
<1> QED
  BY <1>3, <1>4, <1>6, <1>7

LEMMA RestAny ==
  ASSUME NEW S, NEW list \in Seq(S), Once(list)
  PROVE  /\ Once(rest(list)) /\ Once(first(list))
         /\ \A y : Occurs(rest(list), y) <=> Occurs(list, y) /\ ~Occurs(first(list), y)
         /\ \A y : Occurs(first(list), y) => Occurs(list, y)
         /\ \A x, y : Occurs(first(list), x) /\ Occurs(first(list), y) => x = y
<1>1. CASE list = <<>>
  <2>1. rest(list) = <<>> /\ first(list) = <<>>
    BY <1>1 DEF rest, first
  <2>2. Once(<<>>) /\ \A y : ~Occurs(<<>>, y)
    BY DEF Once, Occurs
  <2> QED
    BY <1>1, <2>1, <2>2
<1>2. CASE list # <<>>
  <2>1. first(list) = <<list[1]>>
    BY <1>2 DEF first
  <2>2. \A z : Once(<<z>>) /\ \A y : Occurs(<<z>>, y) <=> y = z
    <3> TAKE z
    <3>1. PICK d : d = <<z>>
      OBVIOUS
    <3>2. Len(d) = 1 /\ d[1] = z /\ 1..1 = {1}
      BY <3>1
    <3> QED
      BY <3>1, <3>2 DEF Once, Occurs
  <2>3. Once(first(list)) /\ \A y : Occurs(first(list), y) <=> y = list[1]
    BY <2>1, <2>2
  <2>4. Once(rest(list)) /\ \A y : Occurs(rest(list), y) <=> Occurs(list, y) /\ y # list[1]
    BY <1>2, RestOccurs
  <2>5. Occurs(list, list[1])
    BY <1>2, EmptySeq DEF Occurs
  <2> QED
    BY <2>3, <2>4, <2>5
<1> QED
  BY <1>1, <1>2

\* The threads of us have become ready.
ReadiedBy(us, c, w, bs) ==
  /\ ~unblock_fails(us)
  /\ ready_list \o us \in Seq(Threads) /\ unblock(status, us) \in [Threads -> Statuses]
  /\ ReadyOf(unblock(status, us), ready_list \o us, idle_thread)
  /\ WaitersOf(unblock(status, us), c, w)
  /\ FreshOf(unblock(status, us), c, bs)
  /\ \A t \in Threads : unblock(status, us)[t] = "RUNNING" <=> t = current
  /\ \A t \in Threads : unblock(status, us)[t] = "DYING" <=> status[t] = "DYING"
  /\ unblock(status, us)[Idle] = status[Idle]

\* Blocked threads that no semaphore and no creator holds any more.
LEMMA Readied ==
  ASSUME Types, ListsInv, NEW us \in Seq(Threads), Once(us), NEW c, NEW w, NEW bs,
         WaitersOf(status, c, w), FreshOf(status, c, bs),
         \A x \in Threads : Occurs(us, x) =>
           /\ status[x] = "BLOCKED" /\ x # Idle
           /\ \A s \in Semas : ~Occurs(w[s], x)
           /\ x \in Others => \A v \in Threads : ~Pending(bs[v], x)
  PROVE  ReadiedBy(us, c, w, bs)
<1>1. \A x : x \in Range(us) <=> Occurs(us, x)
  <2>1. Range(us) = {us[i] : i \in 1..Len(us)}
    BY RangeOf
  <2> QED
    BY <2>1 DEF Occurs
<1>2. \A x : Occurs(us, x) => x \in Threads
  BY DEF Occurs
<1>3. ~unblock_fails(us)
  BY <1>1, <1>2 DEF unblock_fails
<1>4. PICK stat : stat = unblock(status, us)
  OBVIOUS
<1>5. \A t \in Threads : stat[t] = IF Occurs(us, t) THEN "READY" ELSE status[t]
  BY <1>1, <1>4 DEF unblock
<1>6. stat \in [Threads -> Statuses]
  BY <1>4 DEF unblock, Types, Statuses
<1>7. PICK ready : ready = ready_list \o us
  OBVIOUS
<1>8. ready_list \in Seq(Threads) /\ Once(ready_list) /\ idle_thread \in {NULL, Idle}
      /\ \A t \in Threads : Occurs(ready_list, t) <=> status[t] = "READY" /\ t # idle_thread
  BY DEF Types, ListsInv, ReadyOf
<1>9. /\ ready \in Seq(Threads) /\ Once(ready)
      /\ \A y : Occurs(ready, y) <=> Occurs(ready_list, y) \/ Occurs(us, y)
  <2>1. \A y : ~(Occurs(ready_list, y) /\ Occurs(us, y))
    BY <1>2, <1>8
  <2> QED
    BY <1>7, <1>8, <2>1, ConcatOccurs
<1>10. ReadyOf(stat, ready, idle_thread)
  <2>1. \A t \in Threads : Occurs(us, t) => t # idle_thread
    BY <1>8, ThreadsAssumption
  <2> QED
    BY <1>5, <1>8, <1>9, <2>1 DEF ReadyOf
<1>11. WaitersOf(stat, c, w)
  BY <1>5 DEF WaitersOf
<1>12. FreshOf(stat, c, bs)
  <2>1. Others \subseteq Threads
    BY DEF Threads
  <2> QED
    BY <1>5, <2>1 DEF FreshOf
<1>13. \A t \in Threads : stat[t] = "RUNNING" <=> t = current
  BY <1>5 DEF ListsInv
<1>14. (\A t \in Threads : stat[t] = "DYING" <=> status[t] = "DYING") /\ stat[Idle] = status[Idle]
  BY <1>5 DEF Threads
<1> QED
  BY <1>3, <1>4, <1>6, <1>7, <1>9, <1>10, <1>11, <1>12, <1>13, <1>14 DEF ReadiedBy

LEMMA ThreadUnblockLists ==
  ASSUME CoreInv, ListsInv, UNCHANGED program, NEW t \in Threads, NEW u \in Others,
         ThreadUnblock(t, u)
  PROVE  ListsInv'
<1>0. /\ At(t, "thread_unblock", u) /\ Done(t) /\ u \in Threads /\ u # Idle
      /\ status' = unblock(status, <<u>>) /\ ready_list' = Append(ready_list, u)
      /\ failed' = unblock_fails(<<u>>)
      /\ UNCHANGED <<current, idle_thread, value, waiters>>
  BY ThreadsAssumption DEF ThreadUnblock, syncVars, Threads
<1>1. /\ bodies[t] # <<>> /\ bodies[t][1] = <<"thread_unblock", u>> /\ t = current
      /\ bodies' = [bodies EXCEPT ![t] = Tail(bodies[t])] /\ bodies \in [Threads -> Seq(Steps)]
  BY <1>0, AtBody, ThreadUnblockCore, BodySteps DEF CoreInv, CallsInv
<1>2. t # Idle
  BY <1>1, IdleBody DEF CoreInv
<1>3. bodies'[t] = Tail(bodies[t]) /\ \A v \in Threads : v # t => bodies'[v] = bodies[v]
  BY <1>1
<1>4. \A x \in Others : ~Pending(Tail(bodies[t]), x)
  <2>1. Shape(t, bodies[t])
    BY DEF CoreInv, CallsInv
  <2>2. bodies[t][1][1] = "thread_unblock"
    BY <1>1
  <2> QED
    BY <1>1, <2>1, <2>2, PendingTail
<1>5. Pending(bodies[t], u)
  <2>1. 1 \in 1..Len(bodies[t])
    BY <1>1, EmptySeq
  <2> QED
    BY <1>1, <2>1 DEF Pending
<1>6. /\ status[u] = "BLOCKED" /\ call[u] = <<ie>>
      /\ \A v \in Threads : Pending(bodies[v], u) => v = t
  BY <1>5 DEF ListsInv, FreshOf
<1>7. status[t] = "RUNNING"
  BY <1>1 DEF ListsInv
<1>8. \A v \in Threads : v # t => call'[v] = call[v]
  BY <1>0 DEF Done, CoreInv, Types
<1>9. WaitersOf(status, call', waiters)
  <2>1. \A v \in Threads : status[v] = "BLOCKED" => status[v] = "BLOCKED" /\ call'[v] = call[v]
    BY <1>7, <1>8
  <2> QED
    BY <2>1, WaitersKept DEF ListsInv
<1>10. FreshOf(status, call', bodies')
  <2>1. \A x \in Others : status[x] = "BLOCKED" /\ call[x] = <<ie>> =>
           status[x] = "BLOCKED" /\ call'[x] = call[x]
    BY <1>7, <1>8 DEF Threads
  <2>2. \A v \in Threads, x \in Others : Pending(bodies'[v], x) => Pending(bodies[v], x)
    BY <1>3, <1>4
  <2>3. FreshOf(status, call, bodies)
    BY DEF ListsInv
  <2> QED
    BY <2>1, <2>2, <2>3 DEF FreshOf
<1>11. PICK us : us = <<u>>
  OBVIOUS
<1>12. us \in Seq(Threads) /\ Once(us) /\ \A x : Occurs(us, x) => x = u
  <2>1. Len(us) = 1 /\ us[1] = u /\ 1..1 = {1} /\ us \in Seq(Threads)
    BY <1>0, <1>11
  <2> QED
    BY <2>1 DEF Once, Occurs
<1>13. /\ \A s \in Semas : ~Occurs(waiters[s], u)
       /\ \A v \in Threads : ~Pending(bodies'[v], u)
  <2>1. ASSUME NEW s \in Semas, Occurs(waiters[s], u) PROVE FALSE
    <3>1. call[u][1] = <<"sema_down", s>>
      BY <1>0, <2>1 DEF ListsInv, WaitersOf
    <3>2. call[u][1] = ie
      BY <1>6
    <3> QED
      BY <3>1, <3>2 DEF ie
  <2>2. \A v \in Threads : ~Pending(bodies'[v], u)
    BY <1>3, <1>4, <1>6
  <2> QED
    BY <2>1, <2>2
<1>14. \A x \in Threads : Occurs(us, x) =>
           /\ status[x] = "BLOCKED" /\ x # Idle
           /\ \A s \in Semas : ~Occurs(waiters[s], x)
           /\ x \in Others => \A v \in Threads : ~Pending(bodies'[v], x)
  BY <1>0, <1>6, <1>12, <1>13
<1>15. Types
  BY DEF CoreInv
<1>16. /\ ~unblock_fails(us)
       /\ ReadyOf(unblock(status, us), ready_list \o us, idle_thread)
       /\ WaitersOf(unblock(status, us), call', waiters)
       /\ FreshOf(unblock(status, us), call', bodies')
       /\ \A v \in Threads : unblock(status, us)[v] = "RUNNING" <=> v = current
       /\ \A v \in Threads : unblock(status, us)[v] = "DYING" <=> status[v] = "DYING"
       /\ unblock(status, us)[Idle] = status[Idle]
  <2>1. ReadiedBy(us, call', waiters, bodies')
    BY <1>9, <1>10, <1>12, <1>14, <1>15, Readied
  <2> QED
    BY <2>1 DEF ReadiedBy
<1>17. ready_list' = ready_list \o us /\ status' = unblock(status, us) /\ ~failed'
  <2>1. Append(ready_list, u) = ready_list \o us
    BY <1>0, <1>11, <1>15, AppendProperties DEF Types
  <2> QED
    BY <1>0, <1>11, <1>16, <2>1
<1>18. DyingOf(status', bodies')
  <2>1. \A v \in Threads : status'[v] = "DYING" => v # t /\ status[v] = "DYING"
    BY <1>7, <1>16, <1>17
  <2> QED
    BY <1>3, <2>1 DEF ListsInv, DyingOf
<1>19. IdleOf(status', idle_thread, bodies'[Idle], value'[idle_started])
  <2>1. value'[idle_started] \in {0, value[idle_started]}
    BY <1>0
  <2>2. IdleOf(status, idle_thread, bodies'[Idle], value'[idle_started])
    BY <1>1, <1>2, <2>1, IdleKept
  <2>3. status'[Idle] = status[Idle]
    BY <1>16, <1>17
  <2> QED
    BY <2>2, <2>3 DEF IdleOf
<1> QED
  BY <1>0, <1>16, <1>17, <1>18, <1>19 DEF ListsInv


\* The threads of us are the first waiters of semaphores in U.
UppedBy(us, U, w) ==
  /\ us \in Seq(Threads) /\ Once(us)
  /\ U \in SUBSET Semas
  /\ \A s \in Semas : w[s] = IF s \in U THEN rest(waiters[s]) ELSE waiters[s]
  /\ \A x \in Threads : Occurs(us, x) => \E s \in U : Occurs(first(waiters[s]), x)

LEMMA Upped ==
  ASSUME Types, ListsInv, NEW us, NEW U, NEW w, UppedBy(us, U, w), NEW c, NEW bs,
         WaitersOf(status, c, waiters), FreshOf(status, c, bs)
  PROVE  ReadiedBy(us, c, w, bs)
<1>0. /\ us \in Seq(Threads) /\ Once(us)
      /\ U \in SUBSET Semas
      /\ \A s \in Semas : w[s] = IF s \in U THEN rest(waiters[s]) ELSE waiters[s]
      /\ \A x \in Threads : Occurs(us, x) => \E s \in U : Occurs(first(waiters[s]), x)
  BY DEF UppedBy
<1>1. \A s \in Semas : waiters[s] \in Seq(Threads) /\ Once(waiters[s])
  BY DEF Types, WaitersOf
<1>2. \A s \in Semas :
        /\ Once(rest(waiters[s]))
        /\ \A y : Occurs(rest(waiters[s]), y) <=>
                    Occurs(waiters[s], y) /\ ~Occurs(first(waiters[s]), y)
        /\ \A y : Occurs(first(waiters[s]), y) => Occurs(waiters[s], y)
  BY <1>1, RestAny
<1>3. \A s \in Semas : Once(w[s]) /\ \A y : Occurs(w[s], y) => Occurs(waiters[s], y)
  BY <1>0, <1>1, <1>2
<1>4. WaitersOf(status, c, w)
  BY <1>3 DEF WaitersOf
<1>5. ASSUME NEW x \in Threads, Occurs(us, x)
      PROVE  /\ status[x] = "BLOCKED" /\ x # Idle
             /\ \A s \in Semas : ~Occurs(w[s], x)
             /\ x \in Others => \A v \in Threads : ~Pending(bs[v], x)
  <2>1. PICK r \in U : Occurs(first(waiters[r]), x)
    BY <1>0, <1>5
  <2>2. r \in Semas /\ Occurs(waiters[r], x)
    BY <1>0, <1>2, <2>1
  <2>3. status[x] = "BLOCKED" /\ x # Idle /\ c[x][1] = <<"sema_down", r>>
    BY <2>2 DEF WaitersOf
  <2>4. ASSUME NEW s \in Semas, Occurs(w[s], x) PROVE FALSE
    <3>1. c[x][1] = <<"sema_down", s>>
      BY <1>3, <2>4 DEF WaitersOf
    <3>2. s = r
      BY <2>3, <3>1
    <3>3. w[r] = rest(waiters[r])
      BY <1>0, <2>1, <2>2
    <3> QED
      BY <1>2, <2>1, <2>2, <2>4, <3>2, <3>3
  <2>5. ASSUME x \in Others, NEW v \in Threads, Pending(bs[v], x) PROVE FALSE
    <3>1. c[x] = <<ie>>
      BY <2>5 DEF FreshOf
    <3>2. c[x][1] = ie
      BY <3>1
    <3> QED
      BY <2>3, <3>2 DEF ie
  <2> QED
    BY <2>3, <2>4, <2>5
<1> QED
  BY <1>0, <1>4, <1>5, Readied

\* A step of t at its function's next step, which keeps who waits for what.
LEMMA PoppedKept ==
  ASSUME CoreInv, ListsInv, NEW t \in Threads, t = current, NEW d,
         bodies' = [bodies EXCEPT ![t] = d], \A v \in Threads \ {t} : call'[v] = call[v],
         \A u \in Others : Pending(d, u) => Pending(bodies[t], u)
  PROVE  WaitersOf(status, call', waiters) /\ FreshOf(status, call', bodies')
<1>1. bodies \in [Threads -> Seq(Steps)]
  BY BodySteps DEF CoreInv
<1>2. bodies'[t] = d /\ \A v \in Threads : v # t => bodies'[v] = bodies[v] /\ call'[v] = call[v]
  BY <1>1
<1>3. status[t] = "RUNNING" /\ \A v \in Threads : status[v] # "RUNNING" => v # t
  BY DEF ListsInv
<1>4. WaitersOf(status, call', waiters)
  <2>1. \A v \in Threads : status[v] = "BLOCKED" => status[v] = "BLOCKED" /\ call'[v] = call[v]
    BY <1>2, <1>3
  <2> QED
    BY <2>1, WaitersKept DEF ListsInv
<1>5. FreshOf(status, call', bodies')
  <2>1. \A u \in Others : status[u] = "BLOCKED" /\ call[u] = <<ie>> =>
          status[u] = "BLOCKED" /\ call'[u] = call[u]
    BY <1>2, <1>3 DEF Threads
  <2>2. \A v \in Threads, u \in Others : Pending(bodies'[v], u) => Pending(bodies[v], u)
    BY <1>2
  <2>3. FreshOf(status, call, bodies)
    BY DEF ListsInv
  <2> QED
    BY <2>1, <2>2, <2>3 DEF FreshOf
<1> QED
  BY <1>4, <1>5

LEMMA SemaUpLists ==
  ASSUME CoreInv, ListsInv, UNCHANGED program, NEW t \in Threads, NEW s \in Semas, SemaUp(t, s)
  PROVE  ListsInv'
<1>0. PICK us : us = first(waiters[s])
  OBVIOUS
<1>1. /\ At(t, "sema_up", s) /\ Done(t) /\ value' = [value EXCEPT ![s] = @ + 1]
      /\ waiters' = [waiters EXCEPT ![s] = rest(waiters[s])]
      /\ status' = unblock(status, us) /\ ready_list' = ready_list \o us
      /\ failed' = unblock_fails(us)
      /\ UNCHANGED <<current, idle_thread>>
  BY <1>0 DEF SemaUp
<1>2. /\ bodies[t] # <<>> /\ bodies[t][1] = <<"sema_up", s>> /\ t = current
      /\ bodies' = [bodies EXCEPT ![t] = Tail(bodies[t])] /\ bodies \in [Threads -> Seq(Steps)]
      /\ Shape(t, bodies[t]) /\ Types
  BY <1>1, AtBody, SemaUpCore, BodySteps DEF CoreInv, CallsInv
<1>3. bodies'[t] = Tail(bodies[t]) /\ \A v \in Threads : v # t => bodies'[v] = bodies[v]
  BY <1>2
<1>4. \A v \in Threads \ {t} : call'[v] = call[v]
  BY <1>1, <1>2 DEF Done, Types
<1>5. \A u \in Others : Pending(Tail(bodies[t]), u) => Pending(bodies[t], u)
  BY <1>2, PendingTail
<1>6. WaitersOf(status, call', waiters) /\ FreshOf(status, call', bodies')
  BY <1>2, <1>4, <1>5, PoppedKept
<1>7. us \in Seq(Threads) /\ Once(us)
  <2>1. waiters[s] \in Seq(Threads) /\ Once(waiters[s])
    BY <1>2, <1>6 DEF Types, WaitersOf
  <2> QED
    BY <1>0, <2>1, RestAny, SequenceRest
<1>8. PICK U : U = {s}
  OBVIOUS
<1>9. UppedBy(us, U, waiters')
  <2>1. \A r \in Semas : waiters'[r] = IF r = s THEN rest(waiters[r]) ELSE waiters[r]
    BY <1>1, <1>2 DEF Types
  <2> QED
    BY <1>0, <1>7, <1>8, <2>1 DEF UppedBy
<1>10. /\ ~unblock_fails(us)
       /\ ReadyOf(unblock(status, us), ready_list \o us, idle_thread)
       /\ WaitersOf(unblock(status, us), call', waiters')
       /\ FreshOf(unblock(status, us), call', bodies')
       /\ \A v \in Threads : unblock(status, us)[v] = "RUNNING" <=> v = current
       /\ \A v \in Threads : unblock(status, us)[v] = "DYING" <=> status[v] = "DYING"
       /\ unblock(status, us)[Idle] = status[Idle]
  <2>1. ReadiedBy(us, call', waiters', bodies')
    BY <1>2, <1>6, <1>9, Upped
  <2> QED
    BY <2>1 DEF ReadiedBy
<1>11. status[t] = "RUNNING"
  BY <1>2 DEF ListsInv
<1>12. DyingOf(status', bodies')
  <2>1. \A v \in Threads : status'[v] = "DYING" => v # t /\ status[v] = "DYING"
    BY <1>1, <1>10, <1>11
  <2> QED
    BY <1>3, <2>1 DEF ListsInv, DyingOf
<1>13. IdleOf(status', idle_thread, bodies'[Idle], value'[idle_started])
  <2>0. status'[Idle] = status[Idle] /\ idle_started \in Semas
    BY <1>1, <1>10 DEF Semas
  <2>1. CASE t = Idle
    <3>1. bodies[Idle] \in
         { << <<"idle", 0>>, <<"sema_up", idle_started>>, <<"block", 0>> >>,
           << <<"sema_up", idle_started>>, <<"block", 0>> >>,
           << <<"block", 0>> >>, << <<"hlt", 0>> >> }
      BY <1>2, <2>1 DEF Shape, FormShape
    <3>2. bodies[Idle] = << <<"sema_up", idle_started>>, <<"block", 0>> >>
      BY <1>2, <2>1, <3>1
    <3>3. bodies'[Idle] = << <<"block", 0>> >> /\ s = idle_started
      BY <1>2, <1>3, <2>1, <3>2, TailTwo
    <3>4. bodies'[Idle][1] \notin { <<"idle", 0>>, <<"sema_up", idle_started>> }
      BY <3>3
    <3>5. bodies[Idle][1] = <<"sema_up", idle_started>>
      BY <3>2
    <3>6. value[idle_started] = 0 /\ idle_thread # NULL
      BY <3>5 DEF ListsInv, IdleOf
    <3>7. value'[idle_started] = 1
      BY <1>1, <1>2, <2>0, <3>3, <3>6 DEF Types
    <3> QED
      BY <3>4, <3>6, <3>7 DEF IdleOf
  <2>2. CASE t # Idle
    <3>1. s # idle_started
      <4>1. 1 \in 1..Len(bodies[t])
        BY <1>2, EmptySeq
      <4>2. bodies[t][1] # <<"sema_up", idle_started>>
        BY <1>2, <2>2, <4>1 DEF Shape, FormShape
      <4> QED
        BY <1>2, <4>2
    <3>2. value'[idle_started] = value[idle_started]
      BY <1>1, <1>2, <2>0, <3>1 DEF Types
    <3>3. value'[idle_started] \in {0, value[idle_started]}
      BY <3>2
    <3>4. IdleOf(status, idle_thread, bodies'[Idle], value'[idle_started])
      BY <1>2, <2>2, <3>3, IdleKept
    <3> QED
      BY <2>0, <3>4 DEF IdleOf
  <2> QED
    BY <2>1, <2>2
<1> QED
  BY <1>1, <1>10, <1>12, <1>13 DEF ListsInv


\* The first k sleepers that the timer wakes up make ready whoever waits for
\* their semaphores, each once.
UpToFrom(woken, g, k) ==
  /\ Once(g)
  /\ \A x : Occurs(g, x) => \E j \in 1..k : Occurs(first(waiters[woken[j]]), x)

LEMMA UpToStep ==
  ASSUME Types, WaitersOf(status, call, waiters), NEW woken \in Seq(Threads), Once(woken),
         NEW k \in Nat, k + 1 <= Len(woken), NEW g \in Seq(Threads), UpToFrom(woken, g, k)
  PROVE  UpToFrom(woken, g \o first(waiters[woken[k + 1]]), k + 1)
<1>1. PICK s : s = woken[k + 1]
  OBVIOUS
<1>2. k + 1 \in 1..Len(woken) /\ \A j \in 1..k : j \in 1..Len(woken) /\ j # k + 1
  OBVIOUS
<1>3. s \in Semas /\ \A j \in 1..Len(woken) : woken[j] \in Semas
  BY <1>1, <1>2 DEF Semas
<1>4. \A r \in Semas :
        /\ waiters[r] \in Seq(Threads) /\ Once(waiters[r])
        /\ \A x \in Threads : Occurs(waiters[r], x) => call[x][1] = <<"sema_down", r>>
  BY DEF Types, WaitersOf
<1>5. PICK h : h = first(waiters[s])
  OBVIOUS
<1>6. h \in Seq(Threads) /\ Once(h)
  BY <1>3, <1>4, <1>5, RestAny, SequenceRest
<1>7. \A r \in Semas : \A y : Occurs(first(waiters[r]), y) => y \in Threads /\ Occurs(waiters[r], y)
  <2> SUFFICES ASSUME NEW r \in Semas, NEW y, Occurs(first(waiters[r]), y)
               PROVE  y \in Threads /\ Occurs(waiters[r], y)
    OBVIOUS
  <2>1. Occurs(waiters[r], y)
    BY <1>4, RestAny
  <2>2. \A i \in 1..Len(waiters[r]) : waiters[r][i] \in Threads
    BY <1>4
  <2> QED
    BY <2>1, <2>2 DEF Occurs
<1>8. \A y : ~(Occurs(g, y) /\ Occurs(h, y))
  <2> SUFFICES ASSUME NEW y, Occurs(g, y), Occurs(h, y) PROVE FALSE
    OBVIOUS
  <2>1. PICK j \in 1..k : Occurs(first(waiters[woken[j]]), y)
    BY DEF UpToFrom
  <2>2. PICK r : r = woken[j]
    OBVIOUS
  <2>3. r \in Semas /\ y \in Threads /\ Occurs(waiters[r], y) /\ Occurs(waiters[s], y)
    BY <1>2, <1>3, <1>5, <1>7, <2>1, <2>2
  <2>4. call[y][1] = <<"sema_down", r>> /\ call[y][1] = <<"sema_down", s>>
    BY <1>3, <1>4, <2>3
  <2>5. woken[j] = woken[k + 1]
    BY <1>1, <2>2, <2>4
  <2> QED
    BY <1>2, <2>5 DEF Once
<1>9. /\ Once(g \o h)
      /\ \A y : Occurs(g \o h, y) <=> Occurs(g, y) \/ Occurs(h, y)
  <2>1. Once(g)
    BY DEF UpToFrom
  <2> QED
    BY <1>6, <1>8, <2>1, ConcatOccurs
<1>10. ASSUME NEW x, Occurs(g \o h, x)
       PROVE  \E j \in 1..k + 1 : Occurs(first(waiters[woken[j]]), x)
  <2>1. CASE Occurs(g, x)
    <3>1. PICK j \in 1..k : Occurs(first(waiters[woken[j]]), x)
      BY <2>1 DEF UpToFrom
    <3>2. j \in 1..k + 1
      OBVIOUS
    <3> QED
      BY <3>1, <3>2
  <2>2. CASE Occurs(h, x)
    <3>1. k + 1 \in 1..k + 1
      OBVIOUS
    <3> QED
      BY <1>1, <1>5, <2>2, <3>1
  <2> QED
    BY <1>9, <1>10, <2>1, <2>2
<1> QED
  BY <1>1, <1>5, <1>9, <1>10 DEF UpToFrom

LEMMA UpToFromAll ==
  ASSUME Types, WaitersOf(status, call, waiters), NEW woken \in Seq(Threads), Once(woken),
         NEW f, UpToAll(woken, Len(woken), f)
  PROVE  UpToFrom(woken, f[Len(woken)], Len(woken))
<1>1. PICK m : m = Len(woken)
  OBVIOUS
<1>2. /\ m \in Nat /\ f \in [0..m -> Seq(Threads)] /\ f[0] = <<>>
      /\ \A n \in 1..m : f[n] = f[n - 1] \o first(waiters[woken[n]])
  BY <1>1 DEF UpToAll
<1> SUFFICES ASSUME \E k \in 0..m : ~UpToFrom(woken, f[k], k) PROVE FALSE
  <2>1. m \in 0..m
    BY <1>2
  <2> QED
    BY <1>1, <2>1
<1>3. PICK S : S = {k \in 0..m : ~UpToFrom(woken, f[k], k)}
  OBVIOUS
<1>4. PICK e : e \in S
  BY <1>3
<1>5. S \in SUBSET Nat
  BY <1>2, <1>3
<1>6. PICK k \in S : \A j \in S : k <= j
  BY <1>4, <1>5, LeastNat
<1>7. k \in 0..m /\ ~UpToFrom(woken, f[k], k)
  BY <1>3, <1>6
<1>8. k # 0
  <2>1. UpToFrom(woken, <<>>, 0)
    BY DEF UpToFrom, Once, Occurs
  <2> QED
    BY <1>2, <1>7, <2>1
<1>9. k - 1 \in 0..m /\ k - 1 \in Nat /\ (k - 1) + 1 = k /\ k \in 1..m /\ k <= m /\ ~(k <= k - 1)
  BY <1>2, <1>7, <1>8
<1>10. UpToFrom(woken, f[k - 1], k - 1)
  BY <1>3, <1>6, <1>9
<1>11. f[k - 1] \in Seq(Threads) /\ f[k] = f[k - 1] \o first(waiters[woken[k]])
  BY <1>2, <1>9
<1>12. PICK p : p = k - 1
  OBVIOUS
<1>13. p \in Nat /\ p + 1 = k /\ p + 1 <= Len(woken) /\ UpToFrom(woken, f[p], p)
       /\ f[p] \in Seq(Threads)
  BY <1>1, <1>9, <1>10, <1>11, <1>12
<1>14. UpToFrom(woken, f[p] \o first(waiters[woken[p + 1]]), p + 1)
  BY <1>13, UpToStep
<1> QED
  BY <1>7, <1>11, <1>12, <1>13, <1>14

\* The threads that a timer interrupt makes ready.
LEMMA TimerUpped ==
  ASSUME CoreInv, QueueInv, ListsInv, NEW left, NEW woken, NEW us, NEW b,
         TimerEffect(left, woken, us, b)
  PROVE  UppedBy(us, upped(woken) \cap Semas, waiters')
<1>0. /\ Types /\ WaitersOf(status, call, waiters) /\ Once(sleeping_thread_list)
      /\ left \in [Threads -> Nat] /\ woken = try_to_wake_up_threads(left)
      /\ woken \in Seq(Threads) /\ us = unblocked(woken) /\ us \in Seq(Threads)
      /\ waiters' = [s \in Semas |-> IF s \in upped(woken) THEN rest(waiters[s]) ELSE waiters[s]]
  BY DEF CoreInv, ListsInv, QueueInv, TimerEffect
<1>1. PICK n \in 0..Len(sleeping_thread_list) :
        /\ woken = SubSeq(sleeping_thread_list, 1, n)
        /\ ~(value[sleeping_list_sema] > 0) => n = 0
  BY <1>0, WokenFront
<1>2. sleeping_thread_list \in Seq(Threads) /\ Len(woken) = n
      /\ \A i \in 1..n : woken[i] = sleeping_thread_list[i]
  BY <1>0, <1>1, FrontOf DEF Types
<1>3. Once(woken)
  <2>1. \A i \in 1..n : i \in 1..Len(sleeping_thread_list)
    BY <1>2
  <2> SUFFICES ASSUME NEW i \in 1..Len(woken), NEW j \in 1..Len(woken), woken[i] = woken[j]
               PROVE  i = j
    BY DEF Once
  <2>2. i \in 1..n /\ j \in 1..n
    BY <1>2
  <2>3. sleeping_thread_list[i] = sleeping_thread_list[j]
    BY <1>2, <2>2
  <2> QED
    BY <1>0, <2>1, <2>2, <2>3 DEF Once
<1>4. PICK f : UpToAll(woken, Len(woken), f) /\ unblocked_sleepers(woken) = f[Len(woken)]
  BY <1>0, UnblockedSleepers
<1>5. PICK g : g = unblocked_sleepers(woken)
  OBVIOUS
<1>6. g \in Seq(Threads) /\ UpToFrom(woken, g, Len(woken))
  <2>1. UpToFrom(woken, f[Len(woken)], Len(woken))
    BY <1>0, <1>3, <1>4, UpToFromAll
  <2>2. f[Len(woken)] \in Seq(Threads)
    <3>1. Len(woken) \in 0..Len(woken)
      BY <1>0
    <3> QED
      BY <1>4, <3>1 DEF UpToAll
  <2> QED
    BY <1>4, <1>5, <2>1, <2>2
<1>7. \A r \in Semas : waiters[r] \in Seq(Threads) /\ Once(waiters[r])
  BY <1>0 DEF Types, WaitersOf
<1>8. Range(woken) = {woken[i] : i \in 1..Len(woken)} /\ Range(woken) \subseteq Threads
  BY <1>0, RangeOf
<1>9. sleeping_list_sema \in Semas /\ sleeping_list_sema \notin Threads /\ Threads \subseteq Semas
  BY SemasAssumption DEF Semas
<1>10. \A s \in Semas : waiters'[s] = IF s \in upped(woken) \cap Semas THEN rest(waiters[s])
                                      ELSE waiters[s]
  BY <1>0
<1>11. \A x : Occurs(g, x) => \E s \in upped(woken) \cap Semas : Occurs(first(waiters[s]), x)
  <2> SUFFICES ASSUME NEW x, Occurs(g, x)
               PROVE  \E s \in upped(woken) \cap Semas : Occurs(first(waiters[s]), x)
    OBVIOUS
  <2>1. PICK j \in 1..Len(woken) : Occurs(first(waiters[woken[j]]), x)
    BY <1>6 DEF UpToFrom
  <2>2. woken[j] \in upped(woken) \cap Semas
    BY <1>8, <1>9 DEF upped
  <2> QED
    BY <2>1, <2>2
<1>12. CASE ~(value[sleeping_list_sema] > 0)
  <2>1. us = g \o <<>>
    BY <1>0, <1>5, <1>12 DEF unblocked
  <2>2. us = g
    BY <1>6, <2>1
  <2> QED
    BY <1>0, <1>6, <1>10, <1>11, <2>2 DEF UppedBy, UpToFrom
<1>13. CASE value[sleeping_list_sema] > 0
  <2>1. PICK h : h = first(waiters[sleeping_list_sema])
    OBVIOUS
  <2>2. us = g \o h
    BY <1>0, <1>5, <1>13, <2>1 DEF unblocked
  <2>3. h \in Seq(Threads) /\ Once(h)
        /\ \A y : Occurs(h, y) => Occurs(waiters[sleeping_list_sema], y)
    BY <1>7, <1>9, <2>1, RestAny, SequenceRest
  <2>4. sleeping_list_sema \in upped(woken) \cap Semas
    BY <1>9, <1>13 DEF upped
  <2>5. \A y : ~(Occurs(g, y) /\ Occurs(h, y))
    <3> SUFFICES ASSUME NEW y, Occurs(g, y), Occurs(h, y) PROVE FALSE
      OBVIOUS
    <3>1. PICK j \in 1..Len(woken) : Occurs(first(waiters[woken[j]]), y)
      BY <1>6 DEF UpToFrom
    <3>2. PICK r : r = woken[j]
      OBVIOUS
    <3>3. r \in Threads
      BY <1>0, <3>2
    <3>4. Occurs(waiters[r], y) /\ Occurs(waiters[sleeping_list_sema], y)
      BY <1>7, <1>9, <2>3, <3>1, <3>2, <3>3, RestAny
    <3>5. y \in Threads
      BY <1>6 DEF Occurs
    <3>6. call[y][1] = <<"sema_down", r>> /\ call[y][1] = <<"sema_down", sleeping_list_sema>>
      BY <1>0, <1>9, <3>3, <3>4, <3>5 DEF WaitersOf
    <3> QED
      BY <1>9, <3>3, <3>6
  <2>6. Once(us) /\ \A y : Occurs(us, y) <=> Occurs(g, y) \/ Occurs(h, y)
    <3>1. Once(g)
      BY <1>6 DEF UpToFrom
    <3> QED
      BY <1>6, <2>2, <2>3, <2>5, <3>1, ConcatOccurs
  <2>7. \A x \in Threads : Occurs(us, x) =>
          \E s \in upped(woken) \cap Semas : Occurs(first(waiters[s]), x)
    BY <1>11, <2>1, <2>4, <2>6
  <2> QED
    BY <1>0, <1>10, <2>6, <2>7 DEF UppedBy
<1> QED
  BY <1>12, <1>13


(***************************************************************************)
(* The running thread gives the processor up.                              *)
(***************************************************************************)
LEMMA SwitchFrom ==
  ASSUME CoreInv, ListsInv, NEW base \in [Threads -> Statuses], base[current] = "RUNNING",
         \A v \in Threads : base[v] = "DYING" <=> status[v] = "DYING",
         NEW x \in {"READY", "BLOCKED", "DYING"}, NEW stat, stat = [base EXCEPT ![current] = x],
         NEW ready \in Seq(Threads), schedule(stat, ready), UNCHANGED idle_thread,
         \A v \in Threads : stat[v] # "RUNNING",
         ReadyOf(stat, ready, idle_thread), WaitersOf(stat, call', waiters'),
         FreshOf(base, call', bodies'),
         NEW d, bodies' = [bodies EXCEPT ![current] = d], x = "DYING" => d = <<>>,
         IdleOf(stat, idle_thread, bodies'[Idle], value'[idle_started])
  PROVE  ListsInv'
<1>1. Types /\ current \in Threads /\ bodies \in [Threads -> Seq(Steps)] /\ ~failed
  BY BodySteps DEF CoreInv, Types, ListsInv
<1>2. /\ stat[current] = x /\ \A v \in Threads : v # current => stat[v] = base[v]
      /\ stat \in [Threads -> Statuses]
  BY <1>1 DEF Statuses
<1>3. bodies'[current] = d /\ \A v \in Threads : v # current => bodies'[v] = bodies[v]
  BY <1>1
<1>4. FreshOf(stat, call', bodies')
  <2>1. \A u \in Others : base[u] = "BLOCKED" => stat[u] = "BLOCKED"
    BY <1>2 DEF Threads
  <2> QED
    BY <2>1 DEF FreshOf
<1>5. \A v \in Threads : stat[v] = "DYING" => bodies'[v] = <<>> /\ (v = Main \/ v = current)
  <2> SUFFICES ASSUME NEW v \in Threads, stat[v] = "DYING", v # current
               PROVE  bodies'[v] = <<>> /\ v = Main
    BY <1>2, <1>3
  <2>1. status[v] = "DYING"
    BY <1>2
  <2> QED
    BY <1>3, <2>1 DEF ListsInv, DyingOf
<1> QED
  BY <1>1, <1>2, <1>4, <1>5, Switch

LEMMA ThreadYieldLists ==
  ASSUME CoreInv, ListsInv, UNCHANGED program, NEW t \in Threads, ThreadYield(t)
  PROVE  ListsInv'
<1>1. /\ At(t, "yield", 0) /\ call' = [call EXCEPT ![t] = <<ie>> \o Tail(@)]
      /\ thread_yield(t, status, ready_list)
      /\ UNCHANGED <<idle_thread, value, waiters>>
  BY DEF ThreadYield, syncVars, ie
<1>2. /\ bodies[t] # <<>> /\ bodies[t][1] = <<"yield", 0>> /\ t = current
      /\ bodies' = [bodies EXCEPT ![t] = Tail(bodies[t])] /\ Shape(t, bodies[t]) /\ Types
  BY <1>1, AtBody, ThreadYieldCore DEF CoreInv, CallsInv
<1>3. t # Idle
  BY <1>2, IdleBody DEF CoreInv
<1>4. \A v \in Threads \ {t} : call'[v] = call[v]
  BY <1>1, <1>2 DEF Types
<1>5. \A u \in Others : Pending(Tail(bodies[t]), u) => Pending(bodies[t], u)
  BY <1>2, PendingTail
<1>6. WaitersOf(status, call', waiters) /\ FreshOf(status, call', bodies')
  BY <1>2, <1>4, <1>5, PoppedKept
<1>7. PICK stat : stat = [status EXCEPT ![t] = "READY"]
  OBVIOUS
<1>8. PICK ready : ready = IF t # idle_thread THEN Append(ready_list, t) ELSE ready_list
  OBVIOUS
<1>9. /\ status \in [Threads -> Statuses] /\ ready_list \in Seq(Threads) /\ ready \in Seq(Threads)
      /\ status[current] = "RUNNING"
  BY <1>2, <1>8 DEF Types, Statuses, ListsInv
<1>10. ReadyOf(stat, ready, idle_thread) /\ \A v \in Threads : stat[v] # "RUNNING"
  <2>1. (\A v \in Threads : status[v] = "RUNNING" <=> v = current)
        /\ ReadyOf(status, ready_list, idle_thread)
    BY DEF ListsInv
  <2> QED
    BY <1>2, <1>7, <1>8, <1>9, <2>1, YieldedStatus
<1>11. stat[t] = "READY" /\ \A v \in Threads : v # t => stat[v] = status[v]
  BY <1>7, <1>9
<1>12. WaitersOf(stat, call', waiters')
  <2>1. \A v \in Threads : status[v] = "BLOCKED" => stat[v] = "BLOCKED"
    BY <1>2, <1>9, <1>11
  <2> QED
    BY <1>1, <1>6, <2>1 DEF WaitersOf
<1>13. IdleOf(stat, idle_thread, bodies'[Idle], value'[idle_started])
  <2>1. value'[idle_started] \in {0, value[idle_started]}
    BY <1>1
  <2>2. IdleOf(status, idle_thread, bodies'[Idle], value'[idle_started])
    BY <1>2, <1>3, <2>1, IdleKept
  <2>3. stat[Idle] = status[Idle]
    BY <1>3, <1>11 DEF Threads
  <2> QED
    BY <2>2, <2>3 DEF IdleOf
<1>14. schedule(stat, ready)
  BY <1>1, <1>7, <1>8 DEF thread_yield
<1>15. stat = [status EXCEPT ![current] = "READY"]
       /\ bodies' = [bodies EXCEPT ![current] = Tail(bodies[t])]
  BY <1>2, <1>7
<1> QED
  BY <1>1, <1>6, <1>9, <1>10, <1>12, <1>13, <1>14, <1>15, SwitchFrom

LEMMA ThreadExitLists ==
  ASSUME CoreInv, ListsInv, UNCHANGED program, NEW t \in Threads, ThreadExit(t)
  PROVE  ListsInv'
<1>1. /\ At(t, "exit", 0) /\ Done(t) /\ schedule([status EXCEPT ![t] = "DYING"], ready_list)
      /\ UNCHANGED <<idle_thread, value, waiters>>
  BY DEF ThreadExit, syncVars
<1>2. /\ bodies[t] # <<>> /\ bodies[t][1] = <<"exit", 0>> /\ t = current
      /\ bodies' = [bodies EXCEPT ![t] = <<>>] /\ Types
  BY <1>1, AtBody, ThreadExitCore DEF CoreInv, CallsInv
<1>3. t # Idle
  BY <1>2, IdleBody DEF CoreInv
<1>4. \A v \in Threads \ {t} : call'[v] = call[v]
  BY <1>1, <1>2 DEF Done, Types
<1>5. \A u \in Others : ~Pending(<<>>, u)
  BY DEF Pending
<1>6. WaitersOf(status, call', waiters) /\ FreshOf(status, call', bodies')
  BY <1>2, <1>4, <1>5, PoppedKept
<1>7. PICK stat : stat = [status EXCEPT ![t] = "DYING"]
  OBVIOUS
<1>8. /\ status \in [Threads -> Statuses] /\ ready_list \in Seq(Threads)
      /\ status[current] = "RUNNING"
  BY <1>2 DEF Types, Statuses, ListsInv
<1>9. ReadyOf(stat, ready_list, idle_thread) /\ \A v \in Threads : stat[v] # "RUNNING"
  <2>1. "DYING" \in {"BLOCKED", "DYING"}
    OBVIOUS
  <2> QED
    BY <1>2, <1>7, <2>1, ParkedStatus
<1>10. stat[t] = "DYING" /\ \A v \in Threads : v # t => stat[v] = status[v]
  BY <1>7, <1>8
<1>11. WaitersOf(stat, call', waiters')
  <2>1. \A v \in Threads : status[v] = "BLOCKED" => stat[v] = "BLOCKED"
    BY <1>2, <1>8, <1>10
  <2> QED
    BY <1>1, <1>6, <2>1 DEF WaitersOf
<1>12. IdleOf(stat, idle_thread, bodies'[Idle], value'[idle_started])
  <2>1. value'[idle_started] \in {0, value[idle_started]}
    BY <1>1
  <2>2. IdleOf(status, idle_thread, bodies'[Idle], value'[idle_started])
    BY <1>2, <1>3, <2>1, IdleKept
  <2>3. stat[Idle] = status[Idle]
    BY <1>3, <1>10 DEF Threads
  <2> QED
    BY <2>2, <2>3 DEF IdleOf
<1>13. stat = [status EXCEPT ![current] = "DYING"]
       /\ bodies' = [bodies EXCEPT ![current] = <<>>] /\ schedule(stat, ready_list)
  BY <1>1, <1>2, <1>7
<1> QED
  BY <1>1, <1>6, <1>8, <1>9, <1>11, <1>12, <1>13, SwitchFrom

\* The idle thread blocks without waiting for anything.
LEMMA IdleBlocksLists ==
  ASSUME CoreInv, ListsInv, UNCHANGED program, IdleBlocks
  PROVE  ListsInv'
<1>1. /\ At(Idle, "block", 0) /\ call' = [call EXCEPT ![Idle] = << ie, <<"hlt", 0>> >>]
      /\ schedule([status EXCEPT ![Idle] = "BLOCKED"], ready_list)
      /\ UNCHANGED <<idle_thread, value, waiters>> /\ Idle \in Threads
  BY DEF IdleBlocks, syncVars, thread_block, ie, Threads
<1>2. PICK d : d = << <<"hlt", 0>> >>
  OBVIOUS
<1>3. /\ bodies[Idle] # <<>> /\ bodies[Idle][1] = <<"block", 0>> /\ Idle = current
      /\ bodies' = [bodies EXCEPT ![Idle] = d] /\ Types /\ bodies \in [Threads -> Seq(Steps)]
  BY <1>1, <1>2, AtBody, IdleBlocksCore, BodySteps DEF CoreInv, CallsInv
<1>4. \A v \in Threads \ {Idle} : call'[v] = call[v]
  BY <1>1, <1>3 DEF Types
<1>5. \A u \in Others : ~Pending(d, u)
  BY <1>2 DEF Pending
<1>6. WaitersOf(status, call', waiters) /\ FreshOf(status, call', bodies')
  BY <1>1, <1>3, <1>4, <1>5, PoppedKept
<1>7. PICK stat : stat = [status EXCEPT ![Idle] = "BLOCKED"]
  OBVIOUS
<1>8. /\ status \in [Threads -> Statuses] /\ ready_list \in Seq(Threads)
      /\ status[current] = "RUNNING"
  BY <1>1, <1>3 DEF Types, Statuses, ListsInv
<1>9. ReadyOf(stat, ready_list, idle_thread) /\ \A v \in Threads : stat[v] # "RUNNING"
  <2>1. "BLOCKED" \in {"BLOCKED", "DYING"}
    OBVIOUS
  <2> QED
    BY <1>3, <1>7, <2>1, ParkedStatus
<1>10. stat[Idle] = "BLOCKED" /\ \A v \in Threads : v # Idle => stat[v] = status[v]
  BY <1>1, <1>7, <1>8
<1>11. WaitersOf(stat, call', waiters')
  <2>1. \A v \in Threads : status[v] = "BLOCKED" => stat[v] = "BLOCKED"
    BY <1>10
  <2> QED
    BY <1>1, <1>6, <2>1 DEF WaitersOf
<1>12. IdleOf(stat, idle_thread, bodies'[Idle], value'[idle_started])
  <2>1. bodies'[Idle] = d /\ d[1] = <<"hlt", 0>>
    BY <1>1, <1>2, <1>3
  <2>2. idle_thread # NULL /\ value[idle_started] \in {0, 1}
    BY <1>3 DEF ListsInv, IdleOf
  <2>3. value'[idle_started] = value[idle_started]
    BY <1>1
  <2> QED
    BY <2>1, <2>2, <2>3 DEF IdleOf
<1>13. stat = [status EXCEPT ![current] = "BLOCKED"]
       /\ bodies' = [bodies EXCEPT ![current] = d] /\ schedule(stat, ready_list)
  BY <1>1, <1>3, <1>7
<1> QED
  BY <1>1, <1>6, <1>8, <1>9, <1>11, <1>12, <1>13, SwitchFrom

\* The running thread waits for a semaphore: it was on the list of none.
LEMMA SemaWaitsLists ==
  ASSUME CoreInv, ListsInv, UNCHANGED program, NEW t \in Threads, NEW s \in Semas,
         At(t, "sema_down", s), waiters' = [waiters EXCEPT ![s] = Append(@, t)],
         thread_block(t),
         UNCHANGED <<value, call, idle_thread, holder, cond, sleepVars, created>>
  PROVE  ListsInv'
<1>1. /\ bodies[t] # <<>> /\ bodies[t][1] = <<"sema_down", s>> /\ t = current /\ bodies[t] = call[t]
      /\ Types /\ bodies \in [Threads -> Seq(Steps)] /\ bodies' = bodies
  BY AtBody, SemaWaitsCore, BodySteps DEF CoreInv, CallsInv
<1>2. t # Idle
  BY <1>1, IdleBody DEF CoreInv
<1>3. bodies' = [bodies EXCEPT ![current] = bodies[t]]
  BY <1>1
<1>4. PICK stat : stat = [status EXCEPT ![t] = "BLOCKED"]
  OBVIOUS
<1>5. /\ status \in [Threads -> Statuses] /\ ready_list \in Seq(Threads)
      /\ status[current] = "RUNNING"
  BY <1>1 DEF Types, Statuses, ListsInv
<1>6. ReadyOf(stat, ready_list, idle_thread) /\ \A v \in Threads : stat[v] # "RUNNING"
  <2>1. "BLOCKED" \in {"BLOCKED", "DYING"}
    OBVIOUS
  <2> QED
    BY <1>1, <1>4, <2>1, ParkedStatus
<1>7. stat[t] = "BLOCKED" /\ \A v \in Threads : v # t => stat[v] = status[v]
  BY <1>4, <1>5
<1>8. FreshOf(status, call', bodies')
  BY <1>1 DEF ListsInv, FreshOf
<1>9. WaitersOf(stat, call', waiters')
  <2>1. WaitersOf(status, call, waiters)
    BY DEF ListsInv
  <2>2. \A r \in Semas : ~Occurs(waiters[r], t)
    BY <1>1, <1>5, <2>1 DEF WaitersOf
  <2>3. waiters[s] \in Seq(Threads) /\ waiters'[s] = Append(waiters[s], t)
        /\ \A r \in Semas : r # s => waiters'[r] = waiters[r]
    BY <1>1 DEF Types
  <2>4. Once(waiters[s])
    BY <2>1 DEF WaitersOf
  <2>5. Once(waiters'[s]) /\ \A y : Occurs(waiters'[s], y) <=> Occurs(waiters[s], y) \/ y = t
    BY <2>2, <2>3, <2>4, AppendOccurs
  <2>6. call'[t] # <<>> /\ call'[t][1] = <<"sema_down", s>>
    BY <1>1
  <2>7. \A v \in Threads : status[v] = "BLOCKED" => stat[v] = "BLOCKED"
    BY <1>7
  <2> SUFFICES ASSUME NEW r \in Semas
               PROVE  /\ Once(waiters'[r])
                      /\ \A v \in Threads : Occurs(waiters'[r], v) =>
                           /\ v # Idle /\ stat[v] = "BLOCKED" /\ call'[v] # <<>>
                           /\ call'[v][1] = <<"sema_down", r>>
    BY DEF WaitersOf
  <2>8. CASE r # s
    BY <2>1, <2>3, <2>7, <2>8 DEF WaitersOf
  <2>9. CASE r = s
    <3>1. ASSUME NEW v \in Threads, Occurs(waiters'[s], v)
          PROVE  /\ v # Idle /\ stat[v] = "BLOCKED" /\ call'[v] # <<>>
                 /\ call'[v][1] = <<"sema_down", s>>
      <4>1. CASE v = t
        BY <1>2, <1>7, <2>6, <4>1
      <4>2. CASE v # t
        BY <2>1, <2>5, <2>7, <3>1, <4>2 DEF WaitersOf
      <4> QED
        BY <4>1, <4>2
    <3> QED
      BY <2>5, <2>9, <3>1
  <2> QED
    BY <2>8, <2>9
<1>10. IdleOf(stat, idle_thread, bodies'[Idle], value'[idle_started])
  <2>1. stat[Idle] = status[Idle]
    BY <1>2, <1>7 DEF Threads
  <2> QED
    BY <1>1, <2>1 DEF ListsInv, IdleOf
<1>11. stat = [status EXCEPT ![current] = "BLOCKED"] /\ schedule(stat, ready_list)
  BY <1>1, <1>4 DEF thread_block
<1> QED
  BY <1>3, <1>5, <1>6, <1>8, <1>9, <1>10, <1>11, SwitchFrom


LEMMA SemaDownLists ==
  ASSUME CoreInv, ListsInv, UNCHANGED program, NEW t \in Threads, NEW s \in Semas, SemaDown(t, s)
  PROVE  ListsInv'
<1>1. /\ At(t, "sema_down", s)
      /\ UNCHANGED <<idle_thread, holder, cond, sleepVars, created>>
  BY DEF SemaDown
<1>2. CASE /\ value[s] > 0 /\ value' = [value EXCEPT ![s] = @ - 1] /\ intr' = "ON" /\ Done(t)
           /\ UNCHANGED <<status, ready_list, current, thread_ticks, waiters, failed>>
  BY <1>1, <1>2, SemaTakenLists
<1>3. CASE /\ waiters' = [waiters EXCEPT ![s] = Append(@, t)] /\ thread_block(t)
           /\ UNCHANGED <<value, call>>
  BY <1>1, <1>3, SemaWaitsLists
<1> QED
  BY <1>2, <1>3 DEF SemaDown

\* The timer makes threads ready, and the running thread yields if its time
\* slice is over.
LEMMA TimerLists ==
  ASSUME CoreInv, QueueInv, ListsInv, UNCHANGED program, TimerInterrupt
  PROVE  ListsInv'
<1>1. PICK left, woken, us, b : TimerEffect(left, woken, us, b)
  BY TimerIs
<1>2. UppedBy(us, upped(woken) \cap Semas, waiters')
  BY <1>1, TimerUpped
<1>3. Types /\ current \in Threads /\ bodies \in [Threads -> Seq(Steps)] /\ CallsInv
      /\ WaitersOf(status, call, waiters) /\ FreshOf(status, call, bodies)
      /\ status[current] = "RUNNING" /\ Idle \in Threads
  BY BodySteps DEF CoreInv, Types, ListsInv, Threads
<1>4. ~unblock_fails(us)
  <2>1. ReadiedBy(us, call, waiters', bodies)
    BY <1>2, <1>3, Upped
  <2> QED
    BY <2>1 DEF ReadiedBy
<1>5. /\ b \in Seq(Steps)
      /\ b = bodies[current] \/ (current = Idle /\ bodies[Idle] = << <<"hlt", 0>> >>
                                   /\ b = << <<"block", 0>> >>)
      /\ call' = [call EXCEPT ![current] = b] \/ call' = [call EXCEPT ![current] = <<ie>> \o b]
      /\ woken \in Seq(Threads) /\ ~failed /\ UNCHANGED idle_thread
  BY <1>1, <1>4 DEF TimerEffect
<1>6. bodies' = [bodies EXCEPT ![current] = b]
  BY <1>3, <1>5, BodyStep
<1>7. /\ bodies'[current] = b /\ \A v \in Threads : v # current => bodies'[v] = bodies[v]
      /\ \A v \in Threads \ {current} : call'[v] = call[v]
  BY <1>3, <1>5, <1>6 DEF Types
<1>8. \A u \in Others : Pending(b, u) => Pending(bodies[current], u)
  <2>1. \A u \in Others : ~Pending(<< <<"block", 0>> >>, u)
    BY DEF Pending
  <2> QED
    BY <1>5, <2>1
<1>9. WaitersOf(status, call', waiters) /\ FreshOf(status, call', bodies')
  BY <1>3, <1>6, <1>7, <1>8, PoppedKept
<1>10. PICK base : base = unblock(status, us)
  OBVIOUS
<1>11. PICK queue : queue = ready_list \o us
  OBVIOUS
<1>12. /\ queue \in Seq(Threads) /\ base \in [Threads -> Statuses]
       /\ ReadyOf(base, queue, idle_thread) /\ WaitersOf(base, call', waiters')
       /\ FreshOf(base, call', bodies')
       /\ \A v \in Threads : base[v] = "RUNNING" <=> v = current
       /\ \A v \in Threads : base[v] = "DYING" <=> status[v] = "DYING"
       /\ base[Idle] = status[Idle]
  <2>1. ReadiedBy(us, call', waiters', bodies')
    BY <1>2, <1>3, <1>9, Upped
  <2> QED
    BY <1>10, <1>11, <2>1 DEF ReadiedBy
<1>13. value'[idle_started] = value[idle_started]
  <2>1. idle_started \notin Range(woken)
    <3>1. Range(woken) \subseteq Threads
      BY <1>5, RangeOf
    <3> QED
      BY <3>1, SemasAssumption
  <2>2. idle_started \in Semas
    BY DEF Semas
  <2> QED
    BY <1>1, <2>1, <2>2 DEF TimerEffect
<1>14. IdleOf(base, idle_thread, bodies'[Idle], value'[idle_started])
  <2>0. IdleOf(status, idle_thread, bodies[Idle], value[idle_started])
    BY DEF ListsInv
  <2>1. CASE current # Idle \/ b = bodies[current]
    <3>1. bodies'[Idle] = bodies[Idle]
      BY <1>3, <1>7, <2>1
    <3> QED
      BY <1>12, <1>13, <2>0, <3>1 DEF IdleOf
  <2>2. CASE current = Idle /\ b # bodies[current]
    <3>1. bodies[Idle] = << <<"hlt", 0>> >> /\ bodies'[Idle] = << <<"block", 0>> >>
      BY <1>5, <1>7, <2>2
    <3>2. bodies[Idle][1] = <<"hlt", 0>> /\ bodies'[Idle][1] = <<"block", 0>>
      BY <3>1
    <3>3. idle_thread # NULL /\ value[idle_started] \in {0, 1}
      BY <2>0, <3>2 DEF IdleOf
    <3> QED
      BY <1>13, <3>2, <3>3 DEF IdleOf
  <2> QED
    BY <2>1, <2>2
<1>15. CASE /\ thread_yield(current, unblock(status, us), ready_list \o us)
  <2>1. PICK stat : stat = [base EXCEPT ![current] = "READY"]
    OBVIOUS
  <2>2. PICK ready : ready = IF current # idle_thread THEN Append(queue, current) ELSE queue
    OBVIOUS
  <2>3. schedule(stat, ready) /\ ready \in Seq(Threads)
    <3>1. schedule(stat, ready)
      BY <1>10, <1>11, <1>15, <2>1, <2>2 DEF thread_yield
    <3>2. ready \in Seq(Threads)
      BY <1>3, <1>12, <2>2
    <3> QED
      BY <3>1, <3>2
  <2>4. ReadyOf(stat, ready, idle_thread) /\ \A v \in Threads : stat[v] # "RUNNING"
    BY <1>3, <1>12, <2>1, <2>2, YieldedStatus
  <2>5. stat[current] = "READY" /\ \A v \in Threads : v # current => stat[v] = base[v]
    BY <1>3, <1>12, <2>1
  <2>6. WaitersOf(stat, call', waiters')
    <3>1. \A v \in Threads : base[v] = "BLOCKED" => stat[v] = "BLOCKED"
      BY <1>3, <1>12, <2>5
    <3> QED
      BY <1>12, <3>1 DEF WaitersOf
  <2>7. IdleOf(stat, idle_thread, bodies'[Idle], value'[idle_started])
    <3>1. stat[Idle] = base[Idle] \/ stat[Idle] = "READY"
      BY <1>3, <2>5
    <3> QED
      BY <1>14, <3>1 DEF IdleOf
  <2>8. base[current] = "RUNNING"
    BY <1>3, <1>12
  <2> QED
    BY <1>5, <1>6, <1>12, <2>1, <2>3, <2>4, <2>6, <2>7, <2>8, SwitchFrom
<1>16. CASE /\ status' = unblock(status, us) /\ ready_list' = ready_list \o us
            /\ UNCHANGED <<current, intr, failed>>
  <2>1. status' = base /\ ready_list' = queue /\ current' = current /\ ~failed'
        /\ idle_thread' = idle_thread
    BY <1>5, <1>10, <1>11, <1>16
  <2>2. DyingOf(status', bodies')
    <3>1. \A v \in Threads : status'[v] = "DYING" => v # current /\ status[v] = "DYING"
      BY <1>3, <1>12, <2>1
    <3> QED
      BY <1>7, <3>1 DEF ListsInv, DyingOf
  <2> QED
    BY <1>12, <1>14, <2>1, <2>2 DEF ListsInv
<1> QED
  BY <1>1, <1>4, <1>15, <1>16 DEF TimerEffect

LEMMA ListsInvNext == CoreInv /\ QueueInv /\ ListsInv /\ [Next]_vars => ListsInv'
<1> SUFFICES ASSUME CoreInv, QueueInv, ListsInv, [Next]_vars PROVE ListsInv'
  OBVIOUS
<1>1. CASE UNCHANGED vars
  <2>1. UNCHANGED <<status, ready_list, current, idle_thread, call, value, waiters, failed>>
    BY <1>1 DEF vars, kernelVars, schedVars, syncVars
  <2>2. bodies' = bodies
    BY <2>1, BodySame
  <2> QED
    BY <2>1, <2>2 DEF ListsInv
<1>2. CASE Next
  <2>0. UNCHANGED program
    BY <1>2 DEF Next
  <2>1. ASSUME NEW t \in Threads, IntrEnable(t) PROVE ListsInv'
    BY <2>0, <2>1, IntrEnableLists
  <2>2. ASSUME NEW t \in Threads, ThreadYield(t) PROVE ListsInv'
    BY <2>0, <2>2, ThreadYieldLists
  <2>3. ASSUME NEW t \in Threads, ThreadExit(t) PROVE ListsInv'
    BY <2>0, <2>3, ThreadExitLists
  <2>4. CASE IdleStarts
    BY <2>0, <2>4, IdleStartsLists
  <2>5. CASE IdleBlocks
    BY <2>0, <2>5, IdleBlocksLists
  <2>6. ASSUME NEW t \in Threads, NEW s \in Semas, SemaDown(t, s) PROVE ListsInv'
    BY <2>0, <2>6, SemaDownLists
  <2>7. ASSUME NEW t \in Threads, NEW s \in Semas, SemaUp(t, s) PROVE ListsInv'
    BY <2>0, <2>7, SemaUpLists
  <2>8. ASSUME NEW t \in Threads, NEW l \in AllLocks, LockTaken(t, l) PROVE ListsInv'
    BY <2>0, <2>8, LockLists
  <2>9. ASSUME NEW t \in Threads, NEW l \in AllLocks, LockDropped(t, l) PROVE ListsInv'
    BY <2>0, <2>9, LockLists
  <2>10. ASSUME NEW t \in Threads, NEW c \in Conds, CondQueue(t, c) PROVE ListsInv'
    BY <2>10, CondQueueLists
  <2>11. ASSUME NEW t \in Threads, NEW c \in Conds, CondSignal(t, c) PROVE ListsInv'
    BY <2>0, <2>11, CondSignalLists
  <2>12. ASSUME NEW t \in Threads, NEW c \in Conds, CondBroadcast(t, c) PROVE ListsInv'
    BY <2>0, <2>12, CondBroadcastLists
  <2>13. ASSUME NEW t \in Threads, NEW n \in Durations, ReadTicks(t, n) PROVE ListsInv'
    BY <2>13, ReadTicksLists
  <2>14. ASSUME NEW t \in Threads, InsertSleeper(t) PROVE ListsInv'
    BY <2>14, InsertSleeperLists
  <2>15. ASSUME NEW t \in Threads, NEW u \in Others, InitThread(t, u) PROVE ListsInv'
    BY <2>0, <2>15, InitThreadLists
  <2>16. ASSUME NEW t \in Threads, NEW u \in Others, ThreadUnblock(t, u) PROVE ListsInv'
    BY <2>0, <2>16, ThreadUnblockLists
  <2>17. ASSUME NEW t \in Threads, Call(t) PROVE ListsInv'
    BY <2>0, <2>17, CallLists
  <2>18. ASSUME NEW t \in Threads, NEW l \in Locks, LockTryAcquire(t, l) PROVE ListsInv'
    BY <2>0, <2>18, LockTryAcquireLists
  <2>19. CASE TimerInterrupt
    BY <2>0, <2>19, TimerLists
  <2>20. ASSUME NEW t \in Threads, CallStep(t) PROVE ListsInv'
    BY <2>2, <2>3, <2>4, <2>5, <2>6, <2>7, <2>8, <2>9, <2>10, <2>11, <2>12, <2>13, <2>14,
       <2>15, <2>16, <2>20 DEF CallStep
  <2> QED
    BY <1>2, <2>1, <2>17, <2>18, <2>19, <2>20 DEF Next
<1> QED
  BY <1>1, <1>2

LEMMA ListsInvInit == Init => ListsInv
<1> SUFFICES ASSUME Init PROVE ListsInv
  OBVIOUS
<1> DEFINE idle == << <<"idle", 0>>, <<"sema_up", idle_started>>, <<"block", 0>> >>
           main == << <<"sema_down", idle_started>> >>
<1>1. /\ Main \in Threads /\ Idle \in Threads /\ Main # Idle
      /\ idle \in Seq(Steps) /\ main \in Seq(Steps) /\ <<>> \in Seq(Steps) /\ main # <<>>
  BY ThreadsAssumption DEF Threads, Steps, Semas
<1>2. /\ call[Main] = main /\ call[Idle] = <<ie>> \o idle
      /\ \A t \in Threads : t # Main /\ t # Idle => call[t] = <<>>
  <2>1. << <<"intr_enable", 0>>, <<"idle", 0>>, <<"sema_up", idle_started>>,
           <<"block", 0>> >> = <<ie>> \o idle
    BY DEF ie
  <2> QED
    BY <1>1, <2>1 DEF Init
<1>3. /\ bodies[Main] = main /\ bodies[Idle] = idle
      /\ \A t \in Threads : t # Main /\ t # Idle => bodies[t] = <<>>
  <2> HIDE DEF main, idle
  <2>1. BodyOf(main) = main /\ BodyOf(<<ie>> \o idle) = idle /\ BodyOf(<<>>) = <<>>
    BY <1>1, BodyOfPlain
  <2> QED
    BY <1>1, <1>2, <2>1 DEF bodies, Body
<1>4. /\ status[Main] = "RUNNING" /\ status[Idle] = "READY"
      /\ \A t \in Threads : t # Main /\ t # Idle => status[t] = "FREE"
  BY <1>1 DEF Init
<1>5. \A t \in Threads : status[t] = "RUNNING" <=> t = current
  BY <1>1, <1>4 DEF Init
<1>6. ReadyOf(status, ready_list, idle_thread)
  <2>1. ready_list = <<Idle>> /\ idle_thread = NULL /\ Idle # NULL
    BY <1>1, ThreadsAssumption DEF Init
  <2>2. Len(ready_list) = 1 /\ ready_list[1] = Idle /\ 1..1 = {1}
    BY <2>1
  <2> QED
    BY <1>4, <2>1, <2>2 DEF ReadyOf, Once, Occurs
<1>7. WaitersOf(status, call, waiters)
  <2>1. \A s \in Semas : waiters[s] = <<>>
    BY DEF Init
  <2>2. Once(<<>>) /\ \A x : ~Occurs(<<>>, x)
    BY DEF Once, Occurs
  <2> QED
    BY <2>1, <2>2 DEF WaitersOf
<1>8. FreshOf(status, call, bodies)
  <2>1. \A u : ~Pending(main, u) /\ ~Pending(idle, u) /\ ~Pending(<<>>, u)
    BY DEF Pending
  <2>2. \A t \in Threads : \A u : ~Pending(bodies[t], u)
    <3> HIDE DEF main, idle
    <3> QED
      BY <1>3, <2>1
  <2> QED
    BY <2>2 DEF FreshOf
<1>9. DyingOf(status, bodies)
  BY <1>4 DEF DyingOf
<1>10. IdleOf(status, idle_thread, bodies[Idle], value[idle_started])
  <2>1. idle_thread = NULL /\ bodies[Idle][1] = <<"idle", 0>>
    BY <1>3 DEF Init
  <2>2. idle_started \in Semas /\ idle_started \notin AllLocks \cup {sleeping_list_sema}
    BY SemasAssumption DEF Semas, AllLocks, tid_lock, idle_started, sleeping_list_sema
  <2>3. value[idle_started] = 0
    BY <2>2 DEF Init
  <2> QED
    BY <1>4, <2>1, <2>3 DEF IdleOf
<1>11. ~failed
  BY DEF Init
<1> QED
  BY <1>5, <1>6, <1>7, <1>8, <1>9, <1>10, <1>11 DEF ListsInv

LEMMA ListsInvariant == Spec => []ListsInv
BY CoreInvariant, QueueInvariant, ListsInvInit, ListsInvNext, PTL DEF Spec

LEMMA ListsAreSound == CoreInv /\ QueueInv /\ SleepersSorted /\ ListsInv => ListsSound
<1> SUFFICES ASSUME CoreInv, QueueInv, SleepersSorted, ListsInv PROVE ListsSound
  OBVIOUS
<1>1. Types /\ CallsInv /\ ReadyOf(status, ready_list, idle_thread)
      /\ WaitersOf(status, call, waiters) /\ DyingOf(status, bodies) /\ ~failed
  BY DEF CoreInv, ListsInv
<1>2. TypeOK
  <2>1. \A s \in Semas : value[s] \in 0..1
    <3>1. ASSUME NEW s \in Threads PROVE value[s] \in 0..1
      BY DEF QueueInv, WakeOf
    <3>2. ASSUME NEW s \in Guarded PROVE value[s] \in 0..1
      BY DEF CoreInv, Excl, Owned
    <3>3. value[idle_started] \in 0..1
      BY DEF ListsInv, IdleOf
    <3> QED
      BY <3>1, <3>2, <3>3 DEF Semas, Guarded
  <2>2. value \in [Semas -> 0..1]
    BY <1>1, <2>1 DEF Types
  <2> QED
    BY <1>1, <2>2 DEF Types, TypeOK
<1>3. ASSUME NEW t \in Threads
      PROVE  /\ Occurrences(ready_list, t)
                  = IF status[t] = "READY" /\ t # idle_thread THEN 1 ELSE 0
             /\ \/ \A s \in Semas : Occurrences(waiters[s], t) = 0
                \/ /\ status[t] = "BLOCKED"
                   /\ \E s \in Semas : /\ Occurrences(waiters[s], t) = 1
                                       /\ \A r \in Semas \ {s} : Occurrences(waiters[r], t) = 0
             /\ status[t] \in {"FREE", "DYING"} =>
                  /\ Occurrences(sleeping_thread_list, t) = 0
                  /\ \A c \in Conds : Occurrences(cond[c], t) = 0
  <2>1. Occurrences(ready_list, t) = IF status[t] = "READY" /\ t # idle_thread THEN 1 ELSE 0
    <3>1. ready_list \in Seq(Threads) /\ Once(ready_list)
          /\ (Occurs(ready_list, t) <=> status[t] = "READY" /\ t # idle_thread)
      BY <1>1 DEF Types, ReadyOf
    <3> QED
      BY <3>1, OccursOnce
  <2>2. \A s \in Semas : waiters[s] \in Seq(Threads) /\ Once(waiters[s])
    BY <1>1 DEF Types, WaitersOf
  <2>3. \A s \in Semas : /\ Occurs(waiters[s], t) => Occurrences(waiters[s], t) = 1
                         /\ ~Occurs(waiters[s], t) => Occurrences(waiters[s], t) = 0
    BY <2>2, OccursOnce
  <2>4. \/ \A s \in Semas : Occurrences(waiters[s], t) = 0
        \/ /\ status[t] = "BLOCKED"
           /\ \E s \in Semas : /\ Occurrences(waiters[s], t) = 1
                               /\ \A r \in Semas \ {s} : Occurrences(waiters[r], t) = 0
    <3>1. CASE \A s \in Semas : ~Occurs(waiters[s], t)
      BY <2>3, <3>1
    <3>2. CASE \E s \in Semas : Occurs(waiters[s], t)
      <4>1. PICK s \in Semas : Occurs(waiters[s], t)
        BY <3>2
      <4>2. status[t] = "BLOCKED" /\ call[t][1] = <<"sema_down", s>>
        BY <1>1, <4>1 DEF WaitersOf
      <4>3. ASSUME NEW r \in Semas \ {s} PROVE ~Occurs(waiters[r], t)
        <5>1. Occurs(waiters[r], t) => call[t][1] = <<"sema_down", r>>
          BY <1>1 DEF WaitersOf
        <5> QED
          BY <4>2, <5>1
      <4> QED
        BY <2>3, <4>1, <4>2, <4>3
    <3> QED
      BY <3>1, <3>2
  <2>5. ASSUME status[t] \in {"FREE", "DYING"}
        PROVE  /\ Occurrences(sleeping_thread_list, t) = 0
               /\ \A c \in Conds : Occurrences(cond[c], t) = 0
    <3>1. bodies[t] = <<>>
      <4>1. CASE status[t] = "FREE"
        <5>1. call[t] = <<>>
          BY <4>1 DEF CoreInv, FreeInv
        <5> QED
          BY <5>1 DEF bodies, Body, BodyOf
      <4>2. CASE status[t] = "DYING"
        BY <1>1, <4>2 DEF DyingOf
      <4> QED
        BY <2>5, <4>1, <4>2
    <3>2. ~Waiting(t, bodies[t])
      BY <3>1, EmptyQueue
    <3>3. \A w : ~Wakes(w, t)
      BY <3>2 DEF QueueInv, WakeOf
    <3>4. ~Occurs(sleeping_thread_list, t)
      BY <3>3 DEF Wakes
    <3>5. \A c \in Conds : ~Occurs(cond[c], t)
      BY <3>3 DEF Wakes
    <3>6. sleeping_thread_list \in Seq(Threads) /\ \A c \in Conds : cond[c] \in Seq(Threads)
      BY <1>1 DEF Types
    <3> QED
      BY <3>4, <3>5, <3>6, OccursOnce
  <2> QED
    BY <2>1, <2>4, <2>5
<1>4. ElemInOneList
  BY <1>3 DEF ElemInOneList
<1> QED
  BY <1>1, <1>2, <1>4 DEF ListsSound, NoPanic

\* Every thread is on the list that its status says and on no other, the
\* sleepers are sorted, every semaphore is binary, and no ASSERT of thread.c
\* and synch.c fails.
THEOREM ListsSoundHolds == Spec => []ListsSound
BY CoreInvariant, QueueInvariant, SortedInvariant, ListsInvariant, ListsAreSound, PTL
=============================================================================
