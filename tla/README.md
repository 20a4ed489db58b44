# A verification of the concurrent and systems code in this repository

The repository is a collection of course projects.  Three of them have a core
of their own that is worth a specification, and this project models them in
TLA+, checks the models with TLC and proves the most important results with
TLAPS:

* **consensus**, `src/Year3/distributed-algorithms/consensus/lib`: an Elixir
  implementation of Multi-Paxos ("Paxos made moderately complex") with four
  modes of dealing with competing leaders;
* **Pintos**, `src/Year2/Pintos_Project/pintos_task0_sk4520/src`: an operating
  system kernel in C, with a sleeping list written for the course;
* **ARM**, `src/Year1/ARM_Assembler_Emulator_Project/arm11_48/src`: an
  assembler and an emulator for a subset of the ARM instructions, in C.

File names below are relative to these directories.

## 1. Inventory

### Consensus

| part | state | operations | talks to |
|---|---|---|---|
| `acceptor.ex` | `ballot_num`, `accepted` | `:p1a`, `:p2a` | scouts, commanders |
| `scout.ex` | `waitfor`, `pvalues`, one ballot | start, `:p1b`; exits with `:ADOPTED` or `:PREEMPTED` | acceptors, its leader |
| `commander.ex` | `waitfor`, one pvalue | start, `:p2b`; exits with `:DECISION` or `:PREEMPTED` | acceptors, replicas, its leader |
| `leader.ex` | `ballot_num`, `active`, `proposals`, `preempted_by`, `timeout` | `:PROPOSE`, `:ADOPTED`, `:PREEMPTED`, `:PREEMPT`, `:RESPONSE_REQUESTED`, `:PROPOSAL_CHOSEN` | spawns scouts, commanders and a detector |
| `failure_detector.ex`, `simple_failure_detector.ex` | `ballot_num`, `timeout` | `:PING`, `:STILL_ALIVE`, timeout | its leader, the preempting leader |
| `ballot_number.ex`, `pvalue.ex` | none | comparisons | everybody |
| `replica.ex` | `slot_in`, `slot_out`, `requests`, `proposals`, `decisions` | `:CLIENT_REQUEST`, `:DECISION`, the propose and perform loops | clients, leaders, database |
| `database.ex` | `balances`, `seqnum` | `:EXECUTE` | replica, monitor |
| `client.ex` | `seqnum` | send a request, drain replies | replicas |
| `monitor.ex` | logs and counters | `:DB_MOVE` and counters | everybody |
| `server.ex`, `multipaxos.ex` | none | spawn, bind, crash after a time | everybody |
| `configuration.ex`, `helper.ex`, `debug.ex` | none | parameters, printing | |

What is hard here: every process handles one message at a time, but scouts and
commanders of several ballots of several leaders run at once and read the
acceptors' state answer by answer; messages of different processes are not
ordered; a leader's decision to become active or to give up is taken from
reports that are old when they arrive; detectors mix timeouts with late
answers; servers crash without their scouts and commanders.

What makes each part correct: acceptors never go back to a lesser ballot and
accept only under the ballot they hold; a scout reports what a majority
accepted; a commander announces only what a majority accepted under its own
ballot; a leader proposes one command per ballot and slot, and only one that
cannot compete with a chosen one; detectors outbid the ballot in use;
replicas perform the decided commands in slot order, each once, and never lose
a request.

### Pintos

| part | state | what is hard | what makes it correct |
|---|---|---|---|
| `threads/thread.c`, `synch.c`, `devices/timer.c` | run queue, waiters, locks, sleepers | the timer interrupts between any two steps with interrupts on; one list element per thread for all lists | a thread is on one list; locks exclude; no wake-up is lost, early or late |
| `filesys/*.c` | free map, inodes, entries, open files | removing what is open, failures half way, loss of power between block writes | no sector has two owners; the names are those that were created |
| `devices/serial.c`, `intq.c`, `input.c`, `lib/kernel/console.c` | two queues, a port, a recursive lock | threads and interrupts share the queues; polling when interrupts are off | nothing is lost, doubled or overtaken; nobody waits for ever |
| `devices/ide.c`, `block.c`, `partition.c` | a channel with two disks | late and unexpected completion interrupts; numbers from the disk that wrap around | each thread reads and writes the sector it asked for |
| `devices/kbd.c`, `vga.c` | modifiers; frame buffer and cursor | long sequences of keys, scrolling | what is typed and shown is what was pressed and printed |
| `threads/palloc.c`, `lib/kernel/bitmap.c` | a bitmap | freeing takes no lock while others scan | no page is handed out twice or lost |
| `threads/malloc.c` | descriptors, arenas, free lists | an arena is given back while its blocks are on a list | blocks stay apart and keep their contents |
| `userprog/*.c` | page directories, CR3, TLB, TSS | the timer switches at every step of exit; stale translations | a process reaches its own pages only |
| `lib/kernel/list.c`, `hash.c` | links, buckets | links rewired by hand; no memory for new buckets | they are sequences and sets |
| `lib/*.c` | none | boundaries of widths and sizes | each function does what its comment says |
| `lib/ustar.c`, `filesys/fsutil.c` | the scratch disk | two boots share a disk | what is put in can be taken out |
| `devices/rtc.c`, `pit.c`, `timer.c` | registers | the clock runs on while it is read | a time that is returned was the time |

### ARM

The assembler makes two passes over the lines (`symbol_table` of labels, then
one word per instruction, then the constants that loads appended); the emulator
runs a pipeline of three stages over 64 KB.  Hard are the numbers both sides
must agree on: field positions, signed branch offsets relative to a program
counter two instructions ahead, rotated constants, flags, and when a pipeline
is refilled.  Together they are correct if a program does what its lines say.

### What is left out

Earlier versions of the consensus program, lab exercises, the payment network
stub, the stablecoin backend, the splay-tree benchmark, user programs and tests
of Pintos, and the Java, Haskell, Prolog, WACC, notebook and front-end code.
PROJECT.json lists every part with the reason.

## 2. Modules and how they correspond to the code

| module | what it is |
|---|---|
| `Synod` | the comparisons of `ballot_number.ex`; acceptors, scouts, commanders and leaders in the modes `:no_liveness` and `:partial_liveness`; replicas only as senders of `:PROPOSE` and receivers of `:DECISION`; the inductive invariant |
| `SynodFD` | the same with failure detectors: the modes `:simplified_liveness` and `:full_liveness` |
| `ReplicatedLog` | abstract: a log with one command per slot, which `Synod` implements |
| `Replica` | clients and replicas, on top of `ReplicatedLog` |
| `StateMachine` | abstract: one history of requests that all replicas perform; the mapping under which `Replica` implements it is in `Replica` |
| `Database` | `Replica` with the databases and the monitor's `:DB_MOVE` check |
| `SynodProofs`, `SynodFDProofs`, `ReplicaProofs` | proofs, see section 5; those about `Database` are in `ReplicaProofs` |
| `Threads`, `ThreadsProofs` | `thread.c`, `synch.c`, the sleeping list of `timer.c`, preemption, and proofs about them |
| `Filesys`, `FileStore`, `FilesysProofs` | the file system on a disk; abstract: names and files; proofs about it |
| `Serial`, `Ide`, `Terminal`, `DeviceProofs` | the devices, and proofs about them and about `Clock` |
| `Palloc` | the page allocator, bit by bit |
| `Malloc`, `Heap` | the block allocator; abstract: blocks with contents |
| `UserMemory`, `Loader` | processes, page tables and TLB; the loader of executables byte by byte |
| `MemoryProofs` | proofs about `Palloc`, `Malloc` and `UserMemory` |
| `Lists`, `Deques`; `Hash`, `HashSet`; `ContainerProofs` | the containers pointer by pointer and bucket by bucket; abstract: sequences, a set; proofs about `Lists`, `Hash` and `Archive` |
| `Calls`, `CLibrary` | calls of functions without state; `string.c`, `stdlib.c`, `arithmetic.c`, `stdio.c` |
| `Archive`, `Clock` | archives of files across boots; the real-time clock, the interval timer, the delays of `timer.c` |
| `Assembler`, `Emulator`, `ArmSource` | the two tools, and the meaning of a program that they implement together |
| `MCSynod`, `MCSynodFD`, `MCDatabase`, `MCThreads`, `MCFilesys`, `MCDevices`, `MCLibrary` | instances for TLC |

### Consensus

The layers meet in `ReplicatedLog`.  Below it, `Synod` is shown to choose at
most one command per slot and to tell replicas only what is chosen.  Above it,
`Replica` uses exactly the log's actions (`LogPropose`, `LogChoose`,
`LogLearn`) and nothing else of the core.

*Processes and messages.*  A handler is one action: it takes one message, reads
and writes the state of its own process and sends messages.  Since it receives
before it sends, no other process can tell whether it is interrupted.  In
`Synod` messages are a set from which any may be taken next.  That is what the
runtime promises for messages of different senders, and no two processes
exchange two messages of one kind in one direction except `:PROPOSE`, whose
order no handler depends on.  A pid that has exited swallows messages
(`ScoutMailbox`, `CommanderMailbox`).  Where order is promised and matters - a
replica and its database, a database and the monitor - the model has a queue.

*Leaders, scouts, commanders.*  Pids of leaders are numbers in the order of the
pids; a scout is named by its ballot, a commander by its pvalue and the handler
that spawned it, which is unique because a leader spawns at most one per ballot
and slot in each of the two handlers.  The sets `scouts` and `commanders` are
the processes that run.  The modes `:no_liveness` and `:partial_liveness`
differ by a sleep within one handler and are the same model.

*Detectors.*  Both detectors are one: they differ in how long they wait, and
time is abstracted to a timeout that may fire whenever a detector waits.
Requests and answers are counted, so that late answers are still there when the
next ping starts.  A ping to the leader of the bottom ballot, the integer 0,
raises in `send`; the detector is then "dead".

*Replicas.*  One step is one iteration of `process_pending_decisions` or
`propose`; `pc` keeps a replica in these loops until it waits for a message.
Which request `get_next_request` takes is left open.  `proposed` is what was
sent to leaders, `chosen` the log; a `:DECISION` may arrive any number of times
once its slot is in the log.

*Crashes.*  A crashed server is one whose processes take no more steps.  No
specification here obliges a process to take a step unless it says so, so every
safety property covers crashes at any point.  Liveness assumes fairness only
for the servers in `Correct`.

### Pintos

*What a step is.*  There is one processor.  What runs with interrupts off is
one step, up to where the thread blocks; between two steps with interrupts on
any interrupt may come.  In `Threads`, `call[t]` lists the steps that thread t
still has to take in the kernel function it called; in `Serial`, `Ide` and
`UserMemory` a program counter says the same.  `Ide` goes down to single
accesses of the registers, `Palloc` to single bits.  Time is relative:
`due[t]` counts the ticks until a thread is to wake up, so that the number of
ticks needs no bound.

*The file system* takes no lock, so its callers must not overlap, and a
function runs to its end.  Its block writes are left in `todo` in the order of
the code; a crash may come between any two of them and leaves only the disk.
`FileStore` speaks of files that have a name or are open; the mapping finds
them on the disk and in memory.

*Containers, heap.*  Callers hold a lock or have interrupts off, and a call is
one step (`realloc`, which holds no lock between allocating, copying and
freeing, is three).  The mapping walks the list forwards; that it reads the
same backwards is an invariant.

*Functions without state* are operators.  A behaviour of `Calls` makes one call
with some arguments and has its answer, and the property compares the answer
with what the comment in the code promises, stated in another way than the code
computes it.  Words are W bits wide with W small, buffers and fields are short.

*Hardware* is modelled from how the code uses it, and marked external: the
UART, the disk controller, paging, the real-time clock.  An update of that
clock takes two steps, between which each register shows what it did before or
what it will show after; `midway` remembers that something was read then.

### ARM

`Assembler` gives four bytes for every instruction; `Emulator` decodes them
turn by turn.  `ArmSource` gives every line its meaning, knowing neither words
nor a pipeline.  `ImplementsSource` says that each turn of the emulator is what
the line says from which the instruction was assembled: it covers encoding and
decoding, the branch offsets of the two passes and the refilling of the
pipeline at once.  What the tools do wrong (section 4) is kept out by what the
programs may contain: one label; no condition that fails at the target of a
branch; offsets below 256; one large constant with a non-zero low byte;
comparisons of small numbers; `asr` of numbers that are not negative; `ror` of
`r0` only; no use of `r13` to `r15`; memory that is zero outside the program.
Numbers have `BITS` = 12 bits.

## 3. What the runs check

Deadlock is not checked: every instance comes to rest when all requests are
done, a bound is reached, an answer is there or a kernel has panicked.
Symmetry is used only where no liveness property is checked, for acceptors,
commands, names and handles; leaders are ordered and are never permuted.

| run | instance | what it shows |
|---|---|---|
| `synod_ballots` | 2 leaders, 2 acceptors, 2 commands, 1 slot, ballot values 0..1 | `Agreement`, `DecisionsChosen`, `OneCommandPerBallot`, `ActiveLeaderIsSafe`, `ImplementsLog` while leaders preempt each other through four ballots |
| `synod_majority` | 3 acceptors, 1 ballot per leader | the inductive invariant `Inv` of the proofs, type correctness and agreement included, when two majorities share one acceptor |
| `synod_forgotten` | 3 acceptors, 1 command | violation of `NoSlotForgotten`, section 4 |
| `fd_ballots` | 2 leaders with detectors | `KnownBallotsReached`: every ballot that goes round was reached by the leader it names, so that a takeover outbids a ballot in use; `BallotsOnlyGrow` |
| `fd_agreement` | 2 leaders with detectors | violation of `Agreement`, section 4 |
| `replica_machine` | 2 replicas, 2 requests to both, window 2, one server may stop anywhere | `PerformedOnce`, `NoReplicaExits`, `NoRequestLost`, `ImplementsMachine`; `EveryRequestPerformed`: the other server performs what it got, and what any server performed |
| `db_agree` | 2 servers with databases, 2 different transactions | `MonitorNeverHalts`, `DatabasesAgree` |
| `threads` | main, idle and two threads, a lock and a condition; three programs | `ListsSound`, `LockExclusion`, `NoLostWakeup`, `WakeupsOnTime`, `EveryThreadRuns` |
| `filesys` | 8 sectors, 2 names and one that is too long, 2 open files; three programs | `FilesWhole`, `CrashSafe`, `CountsRight`, `ImplementsStore` |
| `devices` | one device at a time: 2 writers and 2 readers with queues of 2 characters; 2 threads on 2 disks with 3 partitions; 11 keys; a screen of 3 by 2; partition tables with words of 3 bits | `CharsInOrder`, `LinesWhole`, `DisksRight`, `TerminalRight`, `DevicesServe` |
| `library` | one part at a time, see below | `LinksWhole`, `LibraryRight`, `ArchiveHolds`, `ReadingIsAMoment`, `PoolRight`, `HeapConsistent`, `MemoryProtected`, `ImplementsDeques`, `ImplementsHashSet`, `ImplementsHeap`, `ImplementsSource` |
| `arm_loop02` | one test program of the repository | violation of `LabelsWhereWritten`, section 4 |

`devices` and `library` put parts side by side that share nothing: a variable
that never changes says which of them a behaviour is about.  A property that is
a conjunction names one thing a reader may rely on: `ListsSound` is the type
invariant, no failed assertion, one list per thread and the order of sleepers;
`FilesWhole` the type invariant, no panic, no shared sector and the bytes that
are read; `DisksRight` the sector that was asked for, the channel at rest
between commands, and partitions within their disks; `DevicesServe` that what
is printed is sent, who waits for a key gets one and who waits for a disk gets
it; `LibraryRight` one conjunct for each file of functions; `CrashSafe` that
names on the disk have files of their own and, if the searches of `dir_add` end
(section 5), that they are distinct.

**Why these bounds are enough to be interesting.**  Two leaders with two
ballots each are the least in which a leader is preempted, comes back above and
meets what it proposed before; two acceptors make every scout see everything,
so that the remaining risk is order, and three make quorums overlap in one
acceptor.  `fd_agreement` uses a constraint that fixes who hears of which
request; constraints only cut behaviours off.  Two replicas with the same two
requests and a window of two are the least in which a replica loses a slot,
proposes again, and finds its request decided twice.  Three threads that run
and a time slice of two ticks let a thread be preempted between any two steps
while another holds the lock it wants and a third sleeps; a thread exits and its
page may be used again.  Of the eight sectors four are left for files of one to three sectors, so that
space runs out; files have up to three bytes in sectors of two.  Queues of two
characters are full, empty and wrapped around.  Three pages for two threads
that ask for one or two leave groups that are too small; an arena holds one or
two blocks, so that it empties in the middle of calls.  Two processes that
load up to three pages share two frames and eight pages of the kernel, so that
loading fails at every step.
Four elements in two lists, two with equal keys, exercise stability and every
range; of the elements that are on no list, at most one has been on one before
and still has its links (a constraint, `FewRemoved`; every function that inserts
an element sets both of them).  Five elements and a table that starts with one bucket grow and shrink
several times.  Strings and memory have up to five bytes of two or three
values, double words two words of four bits, and the library run calls printf
with every pair of flags.  The 3189 assembly programs hold every instruction
with every form of operand, every test with every branch, and a loop.

**Bounds in the models.**  `MaxBallot` bounds ballot values: a leader that would
exceed it stops with its `:PREEMPTED` unhandled, which cuts behaviours off but
adds none.  `MaxSlot` bounds the slots in `Replica`; every decided slot uses up
one pair of a replica and a request it received, so `MaxSlot` = servers x
requests is never reached.  `MaxRequests` is the program's own parameter
`max_requests`.  `Loads` bounds the characters printed and received, `MaxLines`
the lines printed, `MaxStack` the nesting of partition tables, `LastMoment` the
time a clock is watched; `Programs` of `Threads` and `Filesys` say which calls
a behaviour may make.

**Fairness.**  `FairSpec` of `Replica` assumes that a correct replica runs its
loops (weak fairness), that it takes messages from its mailbox in order of
arrival, so that each is taken eventually even if old decisions keep coming
(strong fairness of taking some request, and of taking some new decision), and
that the leaders decide every slot that is proposed for.  The last one is about
the core, and is an assumption of the layer: `synod_forgotten` shows that the
core does not guarantee it, and `configuration.ex:133` says so of two leaders
that compete.  No fairness is assumed for clients or crashed servers.
`FairSpec` of `Threads` assumes that interrupts come on again after a call,
that the clock ticks, and that a thread that is scheduled over and over gets its
next step done: a step is a few instructions and a time slice is 40 ms.  That a
thread is scheduled at all is not assumed but checked.  The devices assume that
the port and the disks finish what they are asked for, that pending interrupts
are taken, and that threads that can run do; nobody has to print or read.

**Mutants.**  Each checked property is violated when one definition is changed
the way a plausible bug would change it: the operators marked "mutant" in the
modules, listed in PROJECT.json.

## 4. Findings

Three runs show a disagreement between the code and what the repository says:

* `fd_agreement`: in the modes with detectors a leader that handles `:PREEMPT`
  while active (`leader.ex:216-227` does not deactivate) proposes under a ballot
  nobody has adopted; two commands are decided in one slot.
* `synod_forgotten`: an acceptor that gets `:p2a` before `:p1a` reports a lower
  ballot; the commander exits, the leader ignores the report, nobody retries.
  The system rests with an undecided slot that no replica gets past.
* `arm_loop02`: the first pass of the assembler counts a label as an
  instruction (`assemble.c:67`), so that only a label before which no other
  stands has its right address.  In the test program `loop02.s` the inner loop
  then misses its subtraction and never ends, while `loop02.out` expects it to.

Three comments of the C code promise more than the code does.  The modules state
them, with no run of their own; as invariants of `MCLibrary.cfg` TLC refutes
each:

* `CountLegal` (`Clock`): "A count of 1 is illegal in mode 2, so we force it to
  2" (`pit.c:68-69`), but for frequencies from about 795454 Hz to `PIT_HZ` the
  count is 1 (`pit.c:75`); only what is above `PIT_HZ` is forced to 2.  Nobody
  asks for such frequencies (`timer.c:62`, `speaker.c:24`).  Of them
  `LibraryRight` says only that the count is the nearest.
* `MemmoveReturnsDst` (`CLibrary`): "Returns DST" (`string.c:22`), but the loop
  that copies upwards moves `dst`, and that is returned.  The one caller in the
  kernel, `vga.c:142`, does not use it.
* `ReadingIsATime` (`Clock`): `rtc_get_time` reads "until it is stable [...], in
  case we start our initial read in the middle of an update" (`rtc.c:55-57`), but
  it compares only the seconds and never asks whether an update is in progress
  (`RTCSA_UIP`).  A reading that begins after the seconds and before the minutes
  have changed is taken for stable.  This rests on the assumption that a
  register shows its old or its new value meanwhile.

The models have more of the code's behaviours that look unintended.  They are in
the models as they are in the code, or, where this is said, kept out by a
precondition that the module states:

* consensus: `:PREEMPTED` is passed to the detector without comparing ballots
  (`leader.ex:205-211`), so a leader can ping itself; a commander refused by an
  acceptor without a ballot makes its leader's detector send to the integer 0,
  which raises; replicas send `:CLIENT_RESPONSE` and clients discard
  `:CLIENT_REPLY` (`client.ex:73`); a transaction from an account to itself
  loses its amount (`database.ex:36`), in all databases alike.
* Pintos kernel: a second reader that waits for the keyboard queue fails an
  assertion of `intq.c`, which the specification of `Serial` ends in;
  `partition.c` follows a chain of extended partitions although it reads sector
  0 each time; `load_segment` frees a page that the page table still has when a
  file turns out short (`process.c:422`, `freed_in_use`); of overlapping
  segments the first decides whether a page is writable; `fsutil_append` writes
  both blocks of the end marker to one sector and copies bytes behind the end
  of a file from its buffer; `rtc.c` counts days of the current month and leap
  years wrongly (left out of `Clock`); `timer_calibrate` tests every lower bit
  with the highest bit alone, so that together they may be too many.
* Pintos library: the 64-bit remainder is cut to 32 bits (`arithmetic.c:125`,
  `RemainderWhole` in `CLibrary` states what its comment says; `LibraryRight` speaks
  of remainders that fit); `printf` of `"%0*d"` with a negative width fills
  both sides (`PaddedTwice`); `strrchr` never finds the null character, and
  `strnlen` reads one byte too far.
* ARM: `isBranch` is not reset when a condition fails; the N flag is taken
  from bit 30; carry is computed after the destination is overwritten; `asr`
  shifts in zeros; multiplications never clear Z; `appended_memory_ptr` never moves on and `num_appended`
  starts without a value, so that a second large constant replaces the first;
  blank lines stop the assembler; labels are compared by prefix.

## 5. What is proved

For any number of leaders, any finite nonempty set of acceptors, any replicas,
slots and commands, and any ballot bound (`NumLeadersAssumption`,
`AcceptorsAssumption`, `MaxBallotAssumption`); for `Replica`, any number of
servers, any clients, moves, quorum and window, and any bound on requests and
slots (`NumServersAssumption`, `QuorumAssumption`, `WindowSizeAssumption`,
`BoundsAssumption`); for `SynodFD` the same as for `Synod`, and a `nil` that is
no ballot (`NilAssumption`); for `Palloc`, any threads, any pool with at least one page
and any sizes but 0, for which `palloc_get_multiple` returns at once
(`PageCntAssumption`, `CountsAssumption`, `NobodyAssumption`); for `Database` the
same as for `Replica`, and any moves of natural amounts (`MovesAssumption`); for `Threads`, any
number of threads besides main and idle, any locks and condition variables, any
programs, durations and time slice (`ThreadsAssumption`, `SemasAssumption`:
a thread's semaphore is not a lock; `CondsAssumption`, `TimerAssumption`,
`ProgramsAssumption`); for `UserMemory`, any processes, any frames and user
pages, which are numbers, any kernel pool and any sequences of such pages as
executables (`UserMemoryAssumption`, `PageNumbersAssumption`,
`ExecutedAssumption`), and a `NoEntry` that is none of the things that it
stands for the lack of (`NoEntryAssumption`); for `Malloc`, any callers, any pool,
any sizes but 0, pages that have room for two arena headers, and a `NIL` that is
neither an address nor an arena nor a call (`HeapAssumption`); for `Lists`, any
finite set of elements and lists and any keys, which are numbers
(`ListsAssumption`); for `Hash`, any elements, of which equal ones have equal hashes,
hashes that are natural numbers, a least number of buckets that is a power of 2 and
any load of them but 0 (`HashAssumption`); for `Archive`, a scratch device and
fields of a header of any size but 0 (an octal field has room for a digit and its
end), any files whose names have no NUL inside, and numbers that the fields have
room for: the lengths of the files, and the largest sum of a header's octets
(`ArchiveAssumption`; in the code 11 and 7 octal digits, and 512 times 255); for the devices, any threads,
queues of at least two places, of which `intq.c` leaves one free
(`BufferAssumption`, `NullAssumption`), any disks and partitions within them
(`DiskAssumption`, `NoneAssumption`), any partition tables and any word
(`LayoutAssumption`), any keyboard, and a screen of any size but 0
(`ScreenAssumption`), and a clock whose fastest register does not turn round while
the registers are read once, six reads in a minute, and shows the old or the new
values during an update (`ClockAssumption` and `Showing`); for `Filesys`, a disk of at least the four sectors that
formatting takes, sectors of any size but 0, any names, a root directory of any
size, any finite set of open files, any programs and any set of allocations that
fail, and a `NULL` that is neither an inode nor a file (`FilesysAssumption`):

| theorem | module | statement |
|---|---|---|
| `TypeCorrect` | `SynodProofs` | `Spec => []TypeOK` |
| `Invariance` | `SynodProofs` | `Spec => []Inv` |
| `AgreementHolds`, `ValidityHolds`, `DecisionsAreChosen`, `OneCommandPerBallotHolds`, `ActiveLeaderIsSafeHolds` | `SynodProofs` | the safety properties |
| `Refinement` | `SynodProofs` | `Spec => ImplementsLog` |
| `ReplicaTypeCorrect` | `ReplicaProofs` | `Spec => []TypeOK` of `Replica` |
| `PerformedOnceHolds`, `NoReplicaExitsHolds`, `NoRequestLostHolds` | `ReplicaProofs` | the safety properties of `Replica` |
| `ReplicasImplementMachine` | `ReplicaProofs` | `Spec => ImplementsMachine`: clients and replicas implement `StateMachine` |
| `FDInvariance`, `KnownBallotsReachedHolds`, `BallotsOnlyGrowHolds` | `SynodFDProofs` | `FDSpec => []FDInv`, `FDSpec => []KnownBallotsReached`, `FDSpec => BallotsOnlyGrow` |
| `MonitorNeverHaltsHolds`, `DatabasesAgreeHolds` | `ReplicaProofs` | the safety properties of `Database` |
| `PerformedAlikeHolds` | `ReplicaProofs` | of two replicas one has performed a prefix of what the other has |
| `LockExclusionHolds`, `NoLostWakeupHolds`, `ListsSoundHolds` | `ThreadsProofs` | the safety properties of `Threads`, with its type invariant |
| `WakeupsOnTimeHolds` | `ThreadsProofs` | `Spec => WakeupsOnTime`: no sleeper wakes early or is passed over |
| `PoolRightHolds` | `MemoryProofs` | `PallocSpec => []PoolRight` |
| `MemoryProtectedHolds` | `MemoryProofs` | `UserSpec => []MemoryProtected` |
| `HeapConsistentHolds` | `MemoryProofs` | `MallocSpec => []HeapConsistent` |
| `ImplementsHeapHolds` | `MemoryProofs` | `CallocExact => (MallocSpec => ImplementsHeap)`: the allocator implements `Heap` |
| `LinksWholeHolds` | `ContainerProofs` | `ListsSpec => []LinksWhole` |
| `ImplementsHashSetHolds` | `ContainerProofs` | `HashSpec => ImplementsHashSet`: the hash table implements `HashSet` |
| `ArchiveHoldsHolds` | `ContainerProofs` | `ArchiveSpec => []ArchiveHolds` |
| `CharsInOrderHolds`, `LinesWholeHolds` | `DeviceProofs` | `SerialSpec => []CharsInOrder`, `SerialSpec => []LinesWhole` |
| `DisksRightHolds` | `DeviceProofs` | `DiskSpec => []DisksRight` |
| `TerminalRightHolds` | `DeviceProofs` | `TerminalSpec => []TerminalRight` |
| `ReadingIsAMomentHolds` | `DeviceProofs` | `RtcSpec => []ReadingIsAMoment` |
| `FilesWholeHolds`, `CrashSafeHolds`, `CountsRightHolds` | `FilesysProofs` | the safety properties of `Filesys` |
| `ImplementsStoreHolds` | `FilesysProofs` | `LookupsEnd => (Spec => ImplementsStore)`: the disk implements `FileStore` |

`Agreement` alone says nothing about undelivered messages, so it is not
inductive.  `Inv` (in `Synod`) adds, in this order:

1. what answers mean (`AcceptorInv`, `P1bInv`, `P2bInv`, `ScoutInv`,
   `AdoptedInv`, `CommanderInv`): an acceptor accepts nothing above its ballot;
   one that answered a scout has adopted the scout's ballot, and all it has
   accepted below it was reported (`Reported`); what a scout collected was
   accepted and is not above its ballot (`Collected`); an acceptor a commander
   no longer waits for has accepted its pvalue;
2. who may use a ballot (`BallotInv`, `PhaseInv`): only its leader, which has
   reached it; phase 1 runs once per ballot, and nothing is proposed under a
   ballot while its phase 1 runs;
3. `ProposalInv`: what commanders carry under a leader's current ballot are its
   proposals, one per slot, and an active leader may propose anything in the
   slots it has none for;
4. `SafetyInv`: every pvalue in use is `SafeAt` its ballot: for each lower
   ballot some quorum has each accepted the same command under it, or moved
   past it without accepting;
5. `ValidityInv`: what is proposed to acceptors was proposed by a replica.

The step that carries the weight is `AdoptedIsSafe`: the `pmax` of what a
quorum reported is safe at the scout's ballot, because two quorums intersect
(`Quorums` is defined by the code's `div(n + 1, 2)` count, and the intersection
is derived from it) and a finite set of ballots has a maximum
(`BoundedBallotsHaveMax`).  The last part of `SynodProofs` then maps `chosen` to
what a quorum has accepted: only `AcceptorP2a` can make a pvalue chosen, it
makes at most one command chosen per slot, and nothing is ever un-chosen.

`ActiveLeaderIsSafe` does not follow from `Inv`, which has forgotten the quorum
that made a leader active once its ADOPTED is handled.  `ActiveInv` (in
`SynodProofs`) keeps it: some quorum has adopted an active leader's ballot, the
leader has a proposal for every slot in which that quorum accepted anything
below it (`Covered`), and each of its proposals is `SafeAt` its ballot.  A slot
in which a command is chosen is therefore never free, and the proposal in it
can only be the chosen one.

With failure detectors `Agreement` is false (section 4), but the ballots that
go round are sound.  `FDInv` (in `SynodFDProofs`) says that every ballot an
acceptor, a message, a leader or a detector knows was reached by the leader it
names; its induction needs that a leader owns its ballot (`OwnBallots`), for it
answers a detector with it, and that a detector which waits has pinged a
leader (`PingsLeader`), for the ballot it then reports is outbid.  A step brings
up no ballot but one it was told or one its leader has just taken.

The invariant of `Replica` (`IInv` in `ReplicaProofs`) ties three pieces of a
replica's state together, because none of its safety properties follows from
one of them alone:

1. `LogInv`: decisions come from the log, so a repeated decision never brings a
   second command for a slot;
2. `PerformInv`: all slots below `slot_out` are decided, and their commands are
   exactly the performed ones.  So `already_processed?` tells the truth, which
   gives `PerformedOnce`;
3. `OwnProposalsInv`: a replica's proposals are for different slots from
   `slot_out` up to `slot_in`.  `slot_in` may lag behind `slot_out`; it is
   `PerformInv` that shows that `propose` then passes over the slot
   (`ProposeAhead`).  This gives `NoReplicaExits`, and `NoRequestLost`: a
   proposal leaves the replica only when its slot is performed.

That the replicas implement `StateMachine` needs one more invariant
(`HistoryInv`): a replica has performed exactly the history of the slots below
`slot_out`.  The history is a recursive function of the log.  It is unfolded
once (`HistoryUnfolds`), and one slot at a time it is shown that no command is
in it twice (`HistorySound`), that the history of fewer slots is a beginning of
that of more (`HistoryBefore`), and that a decision changes nothing below an
open slot and otherwise only adds at the end (`LogGrows`).  A decision is then a
`MachineOrder` step or none, performing a slot a `MachinePerform` step or none
when the slot repeats a command (`PerformHistory`), and every other step at most
adds requests (`RequestedGrows`).

The invariant of `Palloc` (`IInv` in `MemoryProofs`) says whose hands a page is
in (`HandsInv`), and that what a thread has found clear stays clear until it
marks it (`ClearInv`).  The latter needs the lock (`LockInv`): only its holder
sets bits.  Freeing without the lock only clears bits, which cannot hurt a
thread that looks for clear ones; `SearchInv` adds that a group is passed over
only because of a page that was not free when the search began, hence
`NoFalseShortage`.

`MemoryProtected` needs to know where a process stands in its life.  `DirInv`:
it has a page directory from `pagedir_create` to the end of `pagedir_destroy`,
and `t->pagedir` says so until `process_exit` resets it.  `CpuInv`: CR3 has the
running process's directory or the base one, so a directory that is being
destroyed is not active, whatever switch came before.  `FrameInv`: what is in
use in the user pool is what the page tables have and the one frame that `load`
has in hand (`Holds`); a frame is somebody's alone.  `TlbInv`: every translation
is one of the active page table, and is dirty only if the entry is, which is
what the invalidation after `pagedir_set_dirty` and `pagedir_clear_page` is for.
`FaultInv`: interrupts are off from a fault until CR2 has been read.  The
invariant (`UInv`) holds until `load_segment` frees a frame that is mapped
(section 4 and `freed_in_use`).

`HeapConsistent` forgets what a heap is.  `HeapRight` adds where blocks may be
(`BlockOf`: a place in an arena that is there), that the pages of an arena are
used and no other arena's (`ArenasRight`: a big block has several), and that
what is on a list is a block of the list's size (`ListsRight`).  The blocks of
an arena are then those on the list of its descriptor and those in hand, and
its count is the number of the former (`CountOf`).  In hand (`BlocksInHand`) are
the callers' blocks and the new block of every `realloc` under way.  Each
function has a lemma for what it does to such a heap: `MallocGives`, whether it
takes a block, opens an arena or takes pages, and `FreeGives`, whether it puts a
block back, gives back an arena after taking all its blocks off the list
(`ArenaDropped`), or gives back a big block.  Blocks in hand then lie apart
(`InHandApart`: in one arena they are multiples of the size apart, otherwise on
different pages) and in the pool.

`ImplementsHeapHolds` adds that a block has room for what was asked for
(`RoomInv`) and that a block that `realloc` has filled has the contents of the
old one (`ContentsInv`).  Only the last step of `realloc` is seen: until then
the caller has the old block.  The hypothesis `CallocExact` is about the
arguments of `calloc`, whose test of the product (`malloc.c:166`) does not
recognise every product that wraps round (4 times 6 in words of four bits is 8,
which is less than neither); every call in the kernel is `calloc (1, n)`, for
which it holds.

A list that reads the same both ways can still be cut apart by the next call,
so `LinksWhole` is not inductive, and the links alone do not say on which list
an element is.  `ChainsInv` (in `ContainerProofs`) says that owners and ranks can be
given to the nodes: only the ends of a list lack one of their links, and a link
of a node with an owner leads to a node of the same owner and of a higher rank,
or a lower one backwards, which links back (`Chained`).  An element on no list
has no owner, and nothing is said of its links: `list_remove` leaves those of
the removed element as they are, and the loop of `timer.c:153-160` goes on from
there.  Every rewiring has a lemma that
gives the new owners and ranks: `list_insert`, `list_remove` and `list_splice`,
whose elements are in one piece (what `nodes_after` meets lies behind on the
same list), and which leave the ranks of other lists alone.  `list_reverse` is
followed turn by turn: up to the element where the loop is, the two links are
swapped.  The merge only ever splices an element of the second run before one of the
first, and keeps everything else of the list in its order, so
that the sort, which is built from it, ends in chains however the keys compare.  A loop is a
recursive function of `Loop`, which makes as many turns as there are nodes and
stays where it ends; that the walks arrive at the other end in so many is shown
from the ranks, which grow at every turn.  Two walks along chains from the two
ends then meet the same elements (`ReadsBack`).

`HashSet` keeps its elements without an order, so the proof of
`ImplementsHashSetHolds` is about where they are.  In a sound table
(`TableRight`) every element is in the bucket its hash says and no two of a
bucket are equal; then no two of the table are (`OneOfEach`), since equal
elements have equal hashes, and a search of one bucket finds whatever there is
(`Found`).  Insertion and removal keep a table sound (`InsertRight`,
`RemoveRight`).  A rehash takes the elements one by one (`ElemsRight`: each once) and
inserts them into empty buckets; after k of them the new table is sound and has
the first k (`MovedRight`).  `HashInv` adds that `elem_cnt` is the number of
elements, that there is a power of 2 of buckets, so that the mask of
`find_bucket` is the remainder that the model takes, and that a running
iteration has met exactly what lies before its place (`Met`): the next one is
new, and none is left at the end.

`ArchiveHolds` compares what was appended with what a walk over the whole device
meets, so it needs to know where every file is.  `Placed` gives the sector at
which each begins; the next one begins behind its data, none before its number,
and all end where the marker is and where the next append goes (`ArchiveInv`,
which says nothing of an archive that an append has run out of space in).  An append leaves the sectors
before its own alone (`PlacedMore`); a walk of as many rounds as the device has
sectors, and one, has met the first k files after k of them and then the marker
(`MeetsFile`, `WalkIs`).  What is left is that a header reads back as it was made
(`HeaderReads`): an octal field gives the number that was written to it
(`FieldReads`), the checksum does not depend on its own field and fits there
(`ChksumSame`, `ChksumFits`), and a name that has been stripped of its dangerous
prefixes is not changed by stripping it again (`StripRight`).

`Database` adds to the invariant of `Replica` that replicas perform the same commands in the same
order, which no invariant of one replica says.  A command is performed at the
first slot it was decided in (`OrderInv`), so a replica that is not behind
another has performed what the other has, first and in the same order
(`PrefixInv`); hence there is an n-th transaction, whoever performed it.
`ReportInv` accounts for the way of a transaction from replica to database to
monitor, and `MonitorInv` then has nothing left to find.  `BalancesInv` says
that there is one history of balances that every database is somewhere on.
That execution leads to the same balances is an induction over the number of
transactions; it is done by extending the history whenever the database that
is furthest ahead executes one more.

The proofs about `Threads` look at `bodies[t]`, what is left of the kernel
function that t is in, not counting an `intr_enable` that comes first.  Four
invariants build on one another:

1. `CoreInv`: `CallsInv` says which steps may follow one another (`Shape`: a
   `sema_down` of a lock is followed by `taken`, `dropped` by `sema_up`, a wait
   in `timer_sleep` comes after its `sleep`, and so on) and which locks a thread
   must hold to be there (`Holding`).  A thread owns a lock from `taken` up to
   and including the `sema_up` of its release (`Owns`); `Excl` says that the
   semaphore is down exactly while there is one owner.  `sleeping_list_sema` is a
   lock in all but name and is part of it.  This gives `LockExclusion`.
2. `QueueInv`: a thread that has queued up to wait has exactly one waker: its
   semaphore is up, or it is on the sleeping list, or on the list of one
   condition, or one thread is about to up its semaphore (`Wakes`); a thread
   that does not wait has none.  That there is one only is what makes the
   invariant inductive: two would raise the semaphore to 2, and the second
   wake-up would be left over for a later wait.  This gives `NoLostWakeup`, and
   that no list has a thread twice.
3. `SleepersSorted` is inductive once a thread that reads the clock
   (`ReadTicks`) is known not to be on the list already, which is `QueueInv`.
   A tick subtracts one from all that are not yet due, which keeps the order,
   and the sleepers that are due are then an initial part of the list: hence
   `WakeupsOnTime`.
4. `ListsInv`: exactly the running thread is `RUNNING`; the run queue has the
   ready threads but the idle one; who is on the list of a semaphore is blocked
   in its `sema_down`; a new thread is blocked until its creator, and no one
   else, unblocks it (`FreshOf`); the idle thread is ready or runs until it has
   set `idle_thread` (`IdleOf`).  The last is why `schedule` always finds a
   thread, and the two before it why the threads that a semaphore or the timer
   makes ready are blocked and are not made ready twice (`Readied`, `Upped`):
   the `ASSERT`s hold.  This gives `ListsSound`.

The devices are four independent proofs:

1. A queue of `intq.c` is a ring; `contents` reads it off.  That a byte put in
   comes last and the byte taken was first, also where the ring wraps around,
   is arithmetic modulo the size (`PutContents`, `GetContents`).  `PortInv` then
   follows a character from `intq_putc` over the queue and THR to the wire,
   whichever of the interrupt, `serial_putc` with a full queue and
   `serial_flush` sends it.  `ConsoleInv` adds the count of nested calls that
   `console_lock_depth` must be.
2. `ChannelInv` says, place by place in the driver (`Stage`), what the thread
   that has the channel, the controller and the semaphore are at together: at
   most one completion is under way, as an interrupt that is pending or as a
   semaphore that is up, and it is that of the holder's command.  So the
   semaphore is 0 again when the channel is given back.  An interrupt after a
   reset counts for nothing, since `expecting_interrupt` is set only after the
   status register has been read (`select_device_wait`).  For partitions
   (`TablesInv`), a sum of sector numbers that did not wrap around is the sum.
3. The set of modifiers is what is held of them (`KbdInv`), and the rows of the
   screen are the last lines of the sheet, across scrolling (`ScreenInv`).
4. `ClockInv`: what has been read of the clock was shown since the pass began,
   and the seconds when it began.  Seconds that are the same at the end show that
   no time has passed (`SecondTurns`), so that all registers show one moment.  It
   says so only while nothing was read in the middle of an update (`midway`):
   without that, the property is `ReadingIsATime`, which is false (section 4).

The file system's invariant (`IInv` in `FilesysProofs`) is about the disk as
it will be.  `DiskRight` says what a sound disk is: the four sectors of the file
system in their places, every name an inode with sectors of its own that the
free map has.  It must hold of the disk now and after each of the writes under
way (`Passes`): hence the first part of `CrashSafe`.  The order of the code's writes is what makes
it so, for every function one lemma: the map before the inode before the entry
(`InodeWrites`, `DirWritten`), the entry before the map (`TwoMaps`, `Releases`).
What memory says, the open inodes and the free map, is true of the disk that the
writes end in (`MemoryAgrees`).  It is not enough to speak of the disk now, on
which the sectors of a removed file may still be in use.  A removed inode in
memory has no name and its sectors stay in use, so a name that is created again
gets others.  `CountsRight` is inductive with this, and decides when `released`
gives the sectors back: once, as nobody else has the file open.
`ReadsBytes` takes the loop of `inode_read_at` for what it returns, by the least
number of bytes left for which it would be wrong; `LoopExists` shows that the
recursive function that models a loop exists.

`ImplementsStoreHolds` reads the store off a disk: `RootOf` its names and
`ContentOf` the bytes of the inodes that are named or open.  A sequence of block
writes follows the store (`Follows`) when each write, made on the disk the ones
before it leave, is one step of it or none, and the disk stays one that
represents a store at all (`SInv`: names occur once, and the sectors of a file
hold data).  There is a lemma for every function that writes, and one write in
each is the step: the directory's sector in `dir_add` and `dir_remove`, a
sector of data in `inode_write_at`, the first map of a release
for the store to forget the bytes.  A power failure forgets what is open and
leaves the names.  The hypothesis `LookupsEnd` says that the
two searches of `dir_add` do not end for lack of memory.  It is necessary:
`inode_read_at` returns 0 when it finds no memory for its bounce buffer, which
`lookup` and the loop of `dir_add` take for the end of the directory
(`directory.c:101`, `:166`), so that a name is given twice or an entry in use is
overwritten; with `Failures = {"lookup"}` or `{"slot"}` TLC finds either.
`CrashSafe` states under `LookupsEnd` that no name is on the disk twice, and the
proof takes it from `SInv` (`NamesApart`); everything else in the safety
theorems holds without it.

**Only model-checked:** `LibraryRight`, and the refinements
`ImplementsDeques` and `ImplementsSource`.  That the two links of a
list agree is proved; that each function of `list.c` does to the elements what
its comment says (a stable sort, say) is not.
**Out of the prover's reach:** liveness under fairness (`EveryThreadRuns`,
`DevicesServe`, `EveryRequestPerformed`), ENABLED, and operators that are
RECURSIVE or built from `SelectSeq` (the C library, the assembler).  Where a
proof needs induction over numbers it takes the least counterexample
(`LeastNat`, `LeastNumber`, from the well-foundedness of the natural numbers);
the existence of the functions that `unblocked_sleepers` and `HistoryUpTo`
define recursively is shown this way (`UpToExists`, `HistoryExists`).

## 6. What is not modelled

* The timeout arithmetic of `:full_liveness` (`leader.ex:30-70`,
  `:PROPOSAL_CHOSEN`), which affects time only.
* Reconfiguration commands: a skeleton that no client triggers.
* The monitor's counters, printing, configuration, start-up of the consensus
  program.  Nothing but waiting for `:BIND` happens before the initial states.
* Liveness of the core and of the detectors.  Two leaders that preempt each
  other for ever need ballots without a bound, and whether a detector is kept
  waiting depends on time, which the model has not.
* Pintos: priorities, which this version stores and never reads; start-up,
  shutdown, identification of disks and the assembly files; `process_wait`,
  which is a stub; system calls, of which there is one that ends the process;
  the user programs and tests.
* ARM: taking the text of a line to pieces, and the print-out at the end.
* The other programs of the repository; PROJECT.json gives a reason for each.

## 7. Plan

1. The refinement of `Deques`, function by function, on top of `ChainsInv`.
2. The timeout arithmetic of `:full_liveness`: bounds and monotonicity.
3. The flooding and spanning-tree exercises of `lab2`, with an abstract
   specification of the tree they build.
