-------------------------------- MODULE Ide --------------------------------
(***************************************************************************)
(* The disks of Pintos: one channel of devices/ide.c with its two devices, *)
(* under the block devices of block.c and the partitions of partition.c.   *)
(* Threads read and write sectors; the controller works on by itself and   *)
(* interrupts.  A sector is named <<disk, number>>; what it holds is the   *)
(* thread that wrote it last.                                              *)
(*                                                                         *)
(* Interrupts are on, so every access to a register is a step of its own,  *)
(* except where no interrupt and no other thread can make a difference.    *)
(* The lock and the semaphore are those of Threads, as they look from      *)
(* outside.                                                                *)
(*                                                                         *)
(* Last, the scan for partitions (partition.c).  read_partition_table      *)
(* calls itself for an extended partition; `stack' holds the calls that    *)
(* have not returned.  Sector numbers are unsigned and wrap at WORD.       *)
(***************************************************************************)
EXTENDS Integers, Sequences, FiniteSets

CONSTANTS
  DiskUsers,     \* threads
  DiskSectors,   \* sectors of a disk
  Partitions,    \* block devices: [disk, start, size], disk 0 or 1
  NONE

Disks == {0, 1}
AllSectors == Disks \X DiskSectors

ASSUME DiskAssumption ==
  /\ DiskSectors \subseteq Nat /\ 0 \in DiskSectors
  /\ \A p \in Partitions :
       /\ p.disk \in Disks /\ p.start \in Nat /\ p.size \in Nat
       /\ p.start .. p.start + p.size - 1 \subseteq DiskSectors
ASSUME NoneAssumption == NONE \notin DiskUsers

VARIABLES
  media,                \* media[s]: the contents of sector s
  selected,             \* the selected device
  lba,                  \* the sector in the sector registers, of either device
  status,               \* "idle", "busy" (BSY) or "data" (DRQ)
  command,              \* the command under way: NONE or [op, sector]
  intrq,                \* the controller asserts its interrupt
  chan_lock,            \* the holder of the channel's lock
  expecting_interrupt,
  completion_wait,      \* value of the semaphore
  request,              \* request[t]: what t asks for: NONE or [op, part, sector]
  pc,                   \* pc[t]: where t is
  result,               \* result[t]: what t has read
  damaged               \* an access past the end of a device: the kernel panics

chanVars == <<selected, lba, status, command, intrq>>
driverVars == <<chan_lock, expecting_interrupt, completion_wait>>
ideVars == <<media, chanVars, driverVars, request, pc, result, damaged>>

Ops == {"read", "write"}
Where == {"idle", "lock", "select", "registers", "issue", "wait", "poll",
          "transfer", "acknowledged", "unlock"}
-----------------------------------------------------------------------------
\* partition_read and partition_write: the sector of the disk.
partition_sector(t) ==
  <<request[t].part.disk, request[t].part.start + request[t].sector>>

Moves(t, to) == pc' = [pc EXCEPT ![t] = to]

\* block_read or block_write, as far as check_sector.
Request(t, op, part, s) ==
  /\ pc[t] = "idle"
  /\ request' = [request EXCEPT ![t] = [op |-> op, part |-> part, sector |-> s]]
  /\ damaged' = (s >= part.size)
  /\ Moves(t, "lock")
  /\ UNCHANGED <<media, chanVars, driverVars, result>>

\* ide_read and ide_write: lock_acquire.
Acquire(t) ==
  /\ pc[t] = "lock" /\ chan_lock = NONE
  /\ chan_lock' = t
  /\ Moves(t, "select")
  /\ UNCHANGED <<media, chanVars, expecting_interrupt, completion_wait, request,
                 result, damaged>>

\* Mutant: the status register is not read.
SelectDeviceBlind(t) ==
  /\ pc[t] = "select" /\ status = "idle"
  /\ selected' = request[t].part.disk
  /\ Moves(t, "registers")
  /\ UNCHANGED <<media, lba, status, command, intrq, driverVars, request, result, damaged>>

\* select_device_wait: wait_until_idle reads the status register, which clears a
\* pending interrupt.
SelectDevice(t) ==
  /\ pc[t] = "select" /\ status = "idle"
  /\ selected' = request[t].part.disk
  /\ intrq' = FALSE
  /\ Moves(t, "registers")
  /\ UNCHANGED <<media, lba, status, command, driverVars, request, result, damaged>>

\* select_sector, the rest.
SelectSector(t) ==
  /\ pc[t] = "registers"
  /\ lba' = partition_sector(t)[2]
  /\ Moves(t, "issue")
  /\ UNCHANGED <<media, selected, status, command, intrq, driverVars, request,
                 result, damaged>>

\* Mutant: a write waits for the interrupt first, too.
after_issue_swapped(t) == "wait"

\* A read waits for the interrupt first; a write transfers its data first.
after_issue(t) == IF request[t].op = "read" THEN "wait" ELSE "poll"

\* issue_pio_command.
Issue(t) ==
  /\ pc[t] = "issue"
  /\ expecting_interrupt' = TRUE
  /\ status' = "busy"
  /\ command' = [op |-> request[t].op, sector |-> <<selected, lba>>]
  /\ Moves(t, after_issue(t))
  /\ UNCHANGED <<media, selected, lba, intrq, chan_lock, completion_wait, request,
                 result, damaged>>

\* sema_down(completion_wait).
Completed(t) ==
  /\ pc[t] = "wait" /\ completion_wait > 0
  /\ completion_wait' = completion_wait - 1
  /\ Moves(t, IF request[t].op = "read" THEN "poll" ELSE "unlock")
  /\ UNCHANGED <<media, chanVars, chan_lock, expecting_interrupt, request, result,
                 damaged>>

\* wait_while_busy ends; without DRQ the kernel would panic.
NotBusy(t) ==
  /\ pc[t] = "poll" /\ status # "busy"
  /\ damaged' = (status # "data")
  /\ Moves(t, "transfer")
  /\ UNCHANGED <<media, chanVars, driverVars, request, result>>

\* input_sector.
InputSector(t) ==
  /\ pc[t] = "transfer" /\ request[t].op = "read"
  /\ result' = [result EXCEPT ![t] = media[command.sector]]
  /\ status' = "idle" /\ command' = NONE
  /\ Moves(t, "unlock")
  /\ UNCHANGED <<media, selected, lba, intrq, driverVars, request, damaged>>

written == "wait"

\* output_sector; the disk is busy with it after that.
OutputSector(t) ==
  /\ pc[t] = "transfer" /\ request[t].op = "write"
  /\ status' = "busy" /\ command' = [command EXCEPT !.op = "store"]
  /\ Moves(t, written)
  /\ UNCHANGED <<media, selected, lba, intrq, driverVars, request, result, damaged>>

\* lock_release, and the function returns.
Finish(t) ==
  /\ pc[t] = "unlock"
  /\ chan_lock' = NONE
  /\ request' = [request EXCEPT ![t] = NONE]
  /\ result' = [result EXCEPT ![t] = NONE]
  /\ Moves(t, "idle")
  /\ UNCHANGED <<media, chanVars, expecting_interrupt, completion_wait, damaged>>
-----------------------------------------------------------------------------
\* The controller has the data of a read, or is ready for that of a write, or
\* has stored it.
DataReady ==
  /\ status = "busy" /\ command.op \in Ops
  /\ status' = "data"
  /\ intrq' = (command.op = "read")
  /\ UNCHANGED <<media, selected, lba, command, driverVars, request, pc, result,
                 damaged>>

Stored ==
  /\ status = "busy" /\ command.op = "store"
  /\ \E t \in DiskUsers :
       chan_lock = t /\ media' = [media EXCEPT ![command.sector] = t]
  /\ status' = "idle" /\ command' = NONE
  /\ intrq' = TRUE
  /\ UNCHANGED <<selected, lba, driverVars, request, pc, result, damaged>>

\* After its reset, and before the first command, a device may interrupt.
ResetInterrupt ==
  /\ ~expecting_interrupt /\ ~intrq /\ chan_lock = NONE
  /\ intrq' = TRUE
  /\ UNCHANGED <<media, selected, lba, status, command, driverVars, request, pc,
                 result, damaged>>

\* interrupt_handler; an interrupt comes once, acknowledged or not.
interrupt_handler ==
  /\ intrq
  /\ intrq' = FALSE
  /\ completion_wait' = IF expecting_interrupt THEN completion_wait + 1
                                               ELSE completion_wait
  /\ UNCHANGED <<media, selected, lba, status, command, chan_lock,
                 expecting_interrupt, request, pc, result, damaged>>
-----------------------------------------------------------------------------
IdeInit ==
  /\ media = [s \in AllSectors |-> NONE]
  /\ selected = 0 /\ lba = 0 /\ status = "idle" /\ command = NONE
  /\ intrq = FALSE
  /\ chan_lock = NONE /\ expecting_interrupt = FALSE /\ completion_wait = 0
  /\ request = [t \in DiskUsers |-> NONE]
  /\ pc = [t \in DiskUsers |-> "idle"]
  /\ result = [t \in DiskUsers |-> NONE]
  /\ damaged = FALSE

Steps(t) == \/ Acquire(t) \/ SelectDevice(t) \/ SelectSector(t) \/ Issue(t)
            \/ Completed(t) \/ NotBusy(t) \/ InputSector(t) \/ OutputSector(t)
            \/ Finish(t)
Hardware == DataReady \/ Stored \/ interrupt_handler

IdeNext ==
  /\ ~damaged
  /\ \/ \E t \in DiskUsers :
          \/ Steps(t)
          \/ \E op \in Ops, p \in Partitions : \E s \in 0 .. p.size - 1 :
               Request(t, op, p, s)
     \/ Hardware \/ ResetInterrupt

\* The controller finishes what it is asked for, and threads run.
IdeFairness ==
  /\ WF_ideVars(~damaged /\ Hardware)
  /\ \A t \in DiskUsers : WF_ideVars(~damaged /\ Steps(t) /\ chan_lock = t)
-----------------------------------------------------------------------------
\* The types of the controller's, the driver's and the threads' state.
IdeTypeOK ==
  /\ media \in [AllSectors -> DiskUsers \cup {NONE}]
  /\ selected \in Disks /\ lba \in DiskSectors
  /\ status \in {"idle", "busy", "data"}
  /\ chan_lock \in DiskUsers \cup {NONE}
  /\ completion_wait \in 0..1
  /\ pc \in [DiskUsers -> Where]

\* A thread reads what the sector it asked for holds, although others select
\* devices and sectors all the time; and a write is on the disk when it returns
\* (block.c:121-122), in the sector that was asked for.
RightSector ==
  \A t \in DiskUsers : pc[t] = "unlock" =>
    LET s == <<request[t].part.disk, request[t].part.start + request[t].sector>>
    IN  IF request[t].op = "read" THEN result[t] = media[s] ELSE media[s] = t

\* The completion of one command is never taken for that of another: whoever
\* gets the channel finds it at rest and the semaphore at 0, and a disk that is
\* not busy has data to transfer, or the driver would panic.
ChannelAtRest ==
  /\ IdeTypeOK
  /\ ~damaged
  /\ chan_lock = NONE => command = NONE /\ status = "idle" /\ completion_wait = 0
  /\ \A t \in DiskUsers : pc[t] \in {"select", "registers", "issue"} =>
       command = NONE /\ completion_wait = 0

\* Whoever has the channel gives it back.
ChannelReleased == \A t \in DiskUsers : chan_lock = t ~> (chan_lock # t \/ damaged)
-----------------------------------------------------------------------------
CONSTANTS
  WORD,         \* 2^32
  Layouts,      \* disks: [size, table], table[s]: the partition table in s or NoTable
  MaxStack,     \* calls that the kernel stack has room for
  NoTable

\* A table is a sequence of entries.
Kinds == {"empty", "extended", "data"}
Entries == [kind : Kinds, offset : 0 .. WORD - 1, size : 0 .. WORD - 1]

ASSUME LayoutAssumption ==
  /\ WORD \in Nat \ {0}
  /\ \A d \in Layouts :
       /\ d.size \in 0 .. WORD - 1
       /\ d.table[0] # NoTable => d.table[0] \in Seq(Entries)

VARIABLES
  disk,         \* the disk that is scanned; it never changes
  stack,        \* the calls under way: [sector, primary, table, i]
  found,        \* found_partition's partitions: [start, size]
  overflow      \* the kernel stack has overflowed

partitionVars == <<disk, stack, found, overflow>>

top == stack[Len(stack)]
below == SubSeq(stack, 1, Len(stack) - 1)
entry == top.table[top.i]
next_entry == [stack EXCEPT ![Len(stack)].i = @ + 1]

\* The table that a call works on: the code always reads sector 0.
table_read(sector) == IF disk.table[0] = NoTable THEN <<>> ELSE disk.table[0]

\* read_partition_table until the table is in memory; past the end of the disk,
\* or without a signature, it returns at once.
frame(sector, primary) ==
  [sector |-> sector, primary |-> primary, i |-> 1,
   table |-> IF sector >= disk.size THEN <<>> ELSE table_read(sector)]

\* The recursive call.
Recurse ==
  /\ top.i <= Len(top.table) /\ entry.kind = "extended" /\ entry.size # 0
  /\ IF Len(stack) = MaxStack THEN overflow' = TRUE /\ UNCHANGED stack
     ELSE /\ stack' = Append(next_entry,
               IF top.sector = 0 THEN frame(entry.offset, entry.offset)
               ELSE frame((entry.offset + top.primary) % WORD, top.primary))
          /\ UNCHANGED overflow
  /\ UNCHANGED found

\* found_partition registers what starts and ends on the disk.
fits(start, size) ==
  /\ start < disk.size
  /\ (start + size) % WORD >= start
  /\ (start + size) % WORD <= disk.size

Data ==
  LET start == (entry.offset + top.sector) % WORD
  IN  /\ top.i <= Len(top.table) /\ entry.kind = "data" /\ entry.size # 0
      /\ found' = IF fits(start, entry.size)
                  THEN found \cup {[start |-> start, size |-> entry.size]} ELSE found
      /\ stack' = next_entry
      /\ UNCHANGED overflow

Skip ==
  /\ top.i <= Len(top.table) /\ (entry.kind = "empty" \/ entry.size = 0)
  /\ stack' = next_entry
  /\ UNCHANGED <<found, overflow>>

Return ==
  /\ top.i > Len(top.table)
  /\ stack' = below
  /\ UNCHANGED <<found, overflow>>

PartitionInit ==
  /\ disk \in Layouts
  /\ stack = <<frame(0, 0)>>
  /\ found = {}
  /\ overflow = FALSE

PartitionNext ==
  /\ stack # <<>> /\ ~overflow
  /\ Recurse \/ Data \/ Skip \/ Return
  /\ UNCHANGED disk

\* The disks at work and the scan, side by side.
DiskSpec ==
  /\ IdeInit /\ [][IdeNext]_ideVars
  /\ PartitionInit /\ [][PartitionNext]_partitionVars
-----------------------------------------------------------------------------
\* Every partition that is registered lies on the disk, also when the numbers in
\* the table wrap around.
PartitionsOnDisk == \A p \in found : p.start + p.size <= disk.size

\* What is read from a disk, written to it or found on it is where it belongs (ide.c, block.c,
\* partition.c).
DisksRight == RightSector /\ ChannelAtRest /\ PartitionsOnDisk
=============================================================================
