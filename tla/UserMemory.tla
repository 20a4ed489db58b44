----------------------------- MODULE UserMemory -----------------------------
(***************************************************************************)
(* User processes and their page tables (userprog/process.c, pagedir.c,    *)
(* exception.c, tss.c).  Processes are loaded, run, fault and exit, one at *)
(* a time on one CPU, and a timer interrupt may come before every step.    *)
(* The CPU keeps translations in its TLB until CR3 is loaded.              *)
(*                                                                         *)
(* A program is the sequence of pages that load_segment fills; frames are  *)
(* the pages of the user pool, and of the kernel pool only the number of   *)
(* free pages matters.                                                     *)
(***************************************************************************)
EXTENDS Integers, Sequences, FiniteSets, FiniteSetsExt

CONSTANTS
  Procs,
  Frames,
  KernelPages,   \* free pages of the kernel pool
  UserPages,     \* user pages, by number
  StackPage,     \* the page below PHYS_BASE
  Executed,      \* what there is to run: sequences of [upage, writable, short]
  NoEntry

ASSUME UserMemoryAssumption == StackPage \in UserPages /\ KernelPages \in Nat
ASSUME PageNumbersAssumption == Frames \subseteq Nat /\ UserPages \subseteq Nat
ASSUME ExecutedAssumption ==
  Executed \subseteq Seq([upage : UserPages, writable : BOOLEAN, short : BOOLEAN])

\* The entries of a page table, those of the TLB, and page directories.
Entries == [frame : Frames, p : BOOLEAN, w : BOOLEAN, d : BOOLEAN]
Translations == [frame : Frames, d : BOOLEAN]
PageDirs == [tables : SUBSET {"low", "top"}, pte : [UserPages -> Entries \cup {NoEntry}]]

ASSUME NoEntryAssumption ==
  /\ NoEntry \notin Frames \cup UserPages \cup Entries \cup Translations
  /\ NoEntry \notin PageDirs /\ "init" \notin Procs

VARIABLES
  user_pool,     \* the frames that are in use
  kernel_free,
  running,       \* the running process, or "init" for the initial thread
  intr_off,
  cr3,           \* whose page directory is active, or "init": init_page_dir
  tlb,           \* the CPU's translations
  esp0,          \* whose kernel stack the TSS names
  cr2,           \* the address of the last page fault, until it has been read
  proc,          \* of each process: where it is, its program, how far it is loaded,
                 \* the frame it works on, and whether t->pagedir is set; the page
                 \* that it touched when it faulted, and what page_fault reports
  page_dir,      \* the page directories: page tables and entries
  written,       \* ghost: the pages written since their dirty bit was last cleared
  freed_in_use   \* a frame has been freed that a page table has: anything may happen then

poolVars == <<user_pool, kernel_free>>
cpuVars == <<running, intr_off, cr3, tlb, esp0, cr2>>
userVars == <<poolVars, cpuVars, proc, page_dir, written, freed_in_use>>

no_tlb == [u \in UserPages |-> NoEntry]
no_dir == [tables |-> {}, pte |-> [u \in UserPages |-> NoEntry]]
page_table(u) == IF u = StackPage THEN "top" ELSE "low"

new_proc(at, prog) == [at |-> at, prog |-> prog, next |-> 1, kpage |-> NoEntry,
                       pagedir |-> FALSE, touched |-> NoEntry, reported |-> NoEntry]

\* The running process p, at place `at'.
Runs(p, at) == running = p /\ proc[p].at = at
Goes_to(p, at) == proc' = [proc EXCEPT ![p].at = at]
-----------------------------------------------------------------------------
\* pagedir_activate, whose[p] says whether p has a page directory.
pagedir_activate(p, has) ==
  /\ cr3' = IF has THEN p ELSE "init"
  /\ tlb' = no_tlb

\* invalidate_pagedir, or nothing when the directory is not active.
invalidated(p) == IF cr3 = p THEN no_tlb ELSE tlb

present(p, u) == page_dir[p].pte[u] # NoEntry /\ page_dir[p].pte[u].p

\* process_execute, by the initial thread: a copy of the file name and a thread.
process_execute(p, prog) ==
  /\ running = "init" /\ proc[p].at = "none"
  /\ kernel_free >= 2
  /\ kernel_free' = kernel_free - 2
  /\ proc' = [proc EXCEPT ![p] = new_proc("create", prog)]
  /\ UNCHANGED <<user_pool, cpuVars, page_dir, written, freed_in_use>>

\* A switch of threads: process_activate.
Switch(p) ==
  /\ ~intr_off /\ running # p
  /\ p # "init" => proc[p].at \notin {"none", "gone"}
  /\ running' = p
  /\ pagedir_activate(p, p # "init" /\ proc[p].pagedir)
  /\ esp0' = p
  /\ IF running # "init" /\ proc[running].at = "dying"
     THEN /\ kernel_free' = kernel_free + 1
          /\ Goes_to(running, "gone")
     ELSE UNCHANGED <<kernel_free, proc>>
  /\ p # "init" => proc[p].at # "dying"
  /\ UNCHANGED <<user_pool, intr_off, cr2, page_dir, written, freed_in_use>>

\* load fails: the copy of the name is freed, and the thread exits.
load_fails(p, pool) ==
  /\ user_pool' = pool
  /\ kernel_free' = kernel_free + 1
  /\ Goes_to(p, "exit")

\* pagedir_create and process_activate.
Create(p) ==
  /\ Runs(p, "create")
  /\ \/ /\ kernel_free > 0
        /\ kernel_free' = kernel_free - 1
        /\ page_dir' = [page_dir EXCEPT ![p] = no_dir]
        /\ proc' = [proc EXCEPT ![p].at = "activate", ![p].pagedir = TRUE]
        /\ UNCHANGED user_pool
     \/ /\ kernel_free = 0
        /\ load_fails(p, user_pool)
        /\ UNCHANGED page_dir
  /\ UNCHANGED <<cpuVars, written, freed_in_use>>

Activate(p) ==
  /\ Runs(p, "activate")
  /\ pagedir_activate(p, TRUE)
  /\ esp0' = p
  /\ Goes_to(p, "page")
  /\ UNCHANGED <<poolVars, running, intr_off, cr2, page_dir, written, freed_in_use>>

\* There is no such file, it is no executable, or the next segment is not valid.
Reject(p) ==
  /\ Runs(p, "page")
  /\ load_fails(p, user_pool)
  /\ UNCHANGED <<cpuVars, page_dir, written, freed_in_use>>

\* The page that is loaded next: setup_stack comes last.
loads(p) == proc[p].next <= Len(proc[p].prog)
upage(p) == IF loads(p) THEN proc[p].prog[proc[p].next].upage ELSE StackPage
writable(p) == IF loads(p) THEN proc[p].prog[proc[p].next].writable ELSE TRUE

\* load_segment, or setup_stack: the frame that a page has, or a new one; there
\* may be none.
GetFrame(p) ==
  LET mapped == loads(p) /\ present(p, upage(p))
  IN  /\ Runs(p, "page")
      /\ \/ /\ mapped
            /\ proc' = [proc EXCEPT ![p].kpage = page_dir[p].pte[upage(p)].frame, ![p].at = "read"]
            /\ UNCHANGED poolVars
         \/ /\ ~mapped
            /\ user_pool # Frames
            /\ LET f == Min(Frames \ user_pool) IN
                 /\ user_pool' = user_pool \cup {f}
                 /\ proc' = [proc EXCEPT ![p].kpage = f, ![p].at = "install"]
            /\ UNCHANGED kernel_free
         \/ /\ ~mapped /\ user_pool = Frames
            /\ load_fails(p, user_pool)
      /\ UNCHANGED <<cpuVars, page_dir, written, freed_in_use>>

\* install_page: pagedir_set_page, with a new page table if there is none.
Install(p) ==
  LET u == upage(p)
      new == page_table(u) \notin page_dir[p].tables
      entry == [frame |-> proc[p].kpage, p |-> TRUE, w |-> writable(p), d |-> FALSE]
  IN  /\ Runs(p, "install")
      /\ \/ /\ ~present(p, u) /\ (new => kernel_free > 0)
            /\ kernel_free' = IF new THEN kernel_free - 1 ELSE kernel_free
            /\ page_dir' = [page_dir EXCEPT ![p].tables = @ \cup {page_table(u)},
                                            ![p].pte[u] = entry]
            /\ IF loads(p) THEN Goes_to(p, "read")
               ELSE proc' = [proc EXCEPT ![p].at = "loaded", ![p].kpage = NoEntry, ![p].prog = <<>>,
                                         ![p].next = 1]
            /\ written' = written \ {<<p, u>>}
            /\ UNCHANGED user_pool
         \/ /\ present(p, u) \/ (new /\ kernel_free = 0)
            /\ load_fails(p, user_pool \ {proc[p].kpage})
            /\ UNCHANGED <<page_dir, written>>
      /\ UNCHANGED <<cpuVars, freed_in_use>>

\* file_read into the page: when the file is too short, the frame is freed,
\* although it is in the page table.
ReadPage(p) ==
  LET short == proc[p].prog[proc[p].next].short
  IN  /\ Runs(p, "read")
      /\ \/ /\ ~short
            /\ proc' = [proc EXCEPT ![p].next = @ + 1, ![p].kpage = NoEntry, ![p].at = "page"]
            /\ UNCHANGED <<poolVars, freed_in_use>>
         \/ /\ short
            /\ freed_in_use' = TRUE
            /\ load_fails(p, user_pool \ {proc[p].kpage})
      /\ UNCHANGED <<cpuVars, page_dir, written>>

\* start_process frees the name and jumps to user code.
Start(p) ==
  /\ Runs(p, "loaded")
  /\ kernel_free' = kernel_free + 1
  /\ Goes_to(p, "user")
  /\ UNCHANGED <<user_pool, cpuVars, page_dir, written, freed_in_use>>
-----------------------------------------------------------------------------
\* The program reads or writes page u: by the TLB, or by the page tables.
Access(p, u, write) ==
  LET e == page_dir[p].pte[u]
      hit == tlb[u] # NoEntry /\ (write => tlb[u].d)
  IN  /\ Runs(p, "user")
      /\ \/ hit /\ UNCHANGED <<tlb, page_dir>>
         \/ /\ ~hit /\ cr3 = p /\ present(p, u) /\ (write => e.w)
            /\ page_dir' = [page_dir EXCEPT ![p].pte[u].d = @ \/ write]
            /\ tlb' = [tlb EXCEPT ![u] = [frame |-> e.frame, d |-> e.d \/ write]]
      /\ written' = IF write THEN written \cup {<<p, u>>} ELSE written
      /\ UNCHANGED <<poolVars, running, intr_off, cr3, esp0, cr2, proc, freed_in_use>>

\* The gate of exception 14 turns interrupts off (exception_init).
gate_off == TRUE

\* A page fault; interrupts are off until page_fault has read CR2.
Fault(p, u, write) ==
  /\ Runs(p, "user")
  /\ present(p, u) => write /\ ~page_dir[p].pte[u].w
  /\ cr2' = u
  /\ intr_off' = gate_off
  /\ proc' = [proc EXCEPT ![p].touched = u, ![p].at = "fault"]
  /\ UNCHANGED <<poolVars, running, cr3, tlb, esp0, page_dir, written, freed_in_use>>

\* page_fault as far as intr_enable.
page_fault(p) ==
  /\ Runs(p, "fault")
  /\ proc' = [proc EXCEPT ![p].reported = cr2, ![p].at = "exit"]
  /\ intr_off' = FALSE /\ cr2' = NoEntry
  /\ UNCHANGED <<poolVars, running, cr3, tlb, esp0, page_dir, written, freed_in_use>>

\* Another exception, or any system call: kill or syscall_handler.
kill(p) ==
  /\ Runs(p, "user")
  /\ Goes_to(p, "exit")
  /\ UNCHANGED <<poolVars, cpuVars, page_dir, written, freed_in_use>>

\* Mutant: the base page directory is activated first.
ExitSwapped(p) ==
  /\ Runs(p, "exit")
  /\ pagedir_activate(p, FALSE)
  /\ proc' = [proc EXCEPT ![p].at = "destroy"]
  /\ UNCHANGED <<poolVars, running, intr_off, esp0, cr2, page_dir, written, freed_in_use>>

\* process_exit: cur->pagedir = NULL, then pagedir_activate (NULL).
Exit(p) ==
  /\ Runs(p, "exit")
  /\ proc' = [proc EXCEPT ![p] =
                new_proc(IF proc[p].pagedir THEN "exit_activate" ELSE "dying", <<>>)]
  /\ UNCHANGED <<poolVars, cpuVars, page_dir, written, freed_in_use>>

ExitActivate(p) ==
  /\ Runs(p, "exit_activate")
  /\ pagedir_activate(p, FALSE)
  /\ Goes_to(p, "destroy")
  /\ UNCHANGED <<poolVars, running, intr_off, esp0, cr2, page_dir, written, freed_in_use>>

\* pagedir_destroy: one page at a time, then the tables and the directory.
Destroy(p) ==
  LET mapped == {u \in UserPages : present(p, u)}
      u == Min(mapped)
      f == page_dir[p].pte[u].frame
  IN  /\ Runs(p, "destroy")
      /\ \/ /\ mapped # {}
            /\ user_pool' = user_pool \ {f}
            /\ page_dir' = [page_dir EXCEPT ![p].pte[u] = NoEntry]
            /\ written' = written \ {<<p, u>>}
            /\ UNCHANGED <<kernel_free, proc>>
         \/ /\ mapped = {}
            /\ kernel_free' = kernel_free + Cardinality(page_dir[p].tables) + 1
            /\ page_dir' = [page_dir EXCEPT ![p] = NoEntry]
            /\ Goes_to(p, "dying")
            /\ UNCHANGED <<user_pool, written>>
      /\ UNCHANGED <<cpuVars, freed_in_use>>
-----------------------------------------------------------------------------
(***************************************************************************)
(* The operations of pagedir.c for virtual memory, which nothing calls     *)
(* yet: the kernel may use them on the pages of any process.               *)
(***************************************************************************)

\* pagedir_set_dirty (pd, u, false).
ClearDirty(p, u) ==
  /\ page_dir[p] # NoEntry /\ page_dir[p].pte[u] # NoEntry
  /\ page_dir' = [page_dir EXCEPT ![p].pte[u].d = FALSE]
  /\ tlb' = invalidated(p)
  /\ written' = written \ {<<p, u>>}
  /\ UNCHANGED <<poolVars, running, intr_off, cr3, esp0, cr2, proc, freed_in_use>>

\* pagedir_clear_page; the frame is used for something else then.
Evict(p, u) ==
  /\ proc[p].at = "user" /\ present(p, u)
  /\ page_dir' = [page_dir EXCEPT ![p].pte[u].p = FALSE]
  /\ tlb' = invalidated(p)
  /\ user_pool' = user_pool \ {page_dir[p].pte[u].frame}
  /\ written' = written \ {<<p, u>>}
  /\ UNCHANGED <<kernel_free, running, intr_off, cr3, esp0, cr2, proc, freed_in_use>>

UserInit ==
  /\ user_pool = {} /\ kernel_free = KernelPages
  /\ running = "init" /\ intr_off = FALSE /\ cr3 = "init" /\ tlb = no_tlb
  /\ esp0 = "init" /\ cr2 = NoEntry
  /\ proc = [p \in Procs |-> new_proc("none", <<>>)]
  /\ page_dir = [p \in Procs |-> NoEntry]
  /\ written = {}
  /\ freed_in_use = FALSE

ProcessStep(p) ==
  \/ Create(p) \/ Activate(p) \/ Reject(p) \/ GetFrame(p) \/ Install(p) \/ ReadPage(p) \/ Start(p)
  \/ page_fault(p) \/ kill(p) \/ Exit(p) \/ ExitActivate(p) \/ Destroy(p)

UserNext ==
  /\ ~freed_in_use
  /\ \/ \E p \in Procs :
          \/ \E prog \in Executed : process_execute(p, prog)
          \/ ProcessStep(p)
          \/ \E u \in UserPages, write \in BOOLEAN : Access(p, u, write) \/ Fault(p, u, write)
          \/ ~intr_off /\ \E u \in UserPages : ClearDirty(p, u) \/ Evict(p, u)
     \/ \E p \in Procs \cup {"init"} : Switch(p)

UserSpec == UserInit /\ [][UserNext]_userVars
-----------------------------------------------------------------------------
Mapped(p) ==
  IF page_dir[p] = NoEntry THEN {}
  ELSE {page_dir[p].pte[u].frame : u \in {v \in UserPages : present(p, v)}}
InHand(p) == IF proc[p].at = "install" THEN {proc[p].kpage} ELSE {}

\* A frame belongs to one page of one process, and is in use exactly as long.
FramesOwned ==
  /\ \A p \in Procs : page_dir[p] # NoEntry =>
       \A u, v \in UserPages : present(p, u) /\ present(p, v) /\ u # v =>
         page_dir[p].pte[u].frame # page_dir[p].pte[v].frame
  /\ \A p, q \in Procs : p # q => (Mapped(p) \cup InHand(p)) \cap (Mapped(q) \cup InHand(q)) = {}
  /\ user_pool = UNION {Mapped(p) \cup InHand(p) : p \in Procs}

\* The CPU never goes by page tables that have been freed, nor by a translation
\* that the page tables do not have any more; a page that was written to is
\* marked dirty.
TranslationsLive ==
  /\ cr3 # "init" => page_dir[cr3] # NoEntry /\ proc[cr3].at # "destroy"
  /\ \A u \in UserPages : tlb[u] # NoEntry =>
       /\ cr3 # "init" /\ present(cr3, u)
       /\ page_dir[cr3].pte[u].frame = tlb[u].frame
  /\ \A p \in Procs : page_dir[p] # NoEntry =>
       \A u \in UserPages : present(p, u) /\ <<p, u>> \in written => page_dir[p].pte[u].d

\* User code runs in its own address space, and what interrupts it finds the
\* kernel stack of that process; the fault that is reported is the process's own.
OwnSpace ==
  /\ \A p \in Procs : Runs(p, "user") => cr3 = p /\ esp0 = p
  /\ \A p \in Procs : proc[p].reported # NoEntry => proc[p].reported = proc[p].touched

\* All of this together, as long as no frame in use has been freed: load_segment does that when
\* an executable is shorter than its headers say.
MemoryProtected == ~freed_in_use => FramesOwned /\ TranslationsLive /\ OwnSpace
=============================================================================
