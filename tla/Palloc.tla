------------------------------- MODULE Palloc -------------------------------
(***************************************************************************)
(* The page allocator of Pintos (threads/palloc.c) on its bitmap           *)
(* (lib/kernel/bitmap.c).  A scan holds the pool's lock, but pages are     *)
(* freed without it: one bit is tested, set or reset per step.             *)
(***************************************************************************)
EXTENDS Integers, FiniteSets

CONSTANTS
  Allocators,   \* threads
  page_cnt,     \* pages in the pool
  Counts,       \* how many pages a thread may ask for
  NOBODY

ASSUME PageCntAssumption == page_cnt \in Nat \ {0}
ASSUME CountsAssumption == Counts \subseteq Nat \ {0}
ASSUME NobodyAssumption == NOBODY \notin Allocators

VARIABLES
  used_map,     \* the bits
  pool_lock,
  palloc_pc,    \* "idle", "scan", "mark", "null" or "free"
  group,        \* the group [start, cnt] a thread looks at
  bit,          \* the bit of it that is next
  held,         \* held[t]: the groups that t has been given
  free_before   \* the pages that were free when the scan began

pallocVars == <<used_map, pool_lock, palloc_pc, group, bit, held, free_before>>

Pages == 0 .. page_cnt - 1
PagesOf(g) == g.start .. g.start + g.cnt - 1
Goes(t, to) == palloc_pc' = [palloc_pc EXCEPT ![t] = to]

\* Thread t is done with its group, or goes on with the next bit of it.
nothing == [start |-> 0, cnt |-> 1]
NextBit(t, last) ==
  /\ group' = IF last THEN [group EXCEPT ![t] = nothing] ELSE group
  /\ bit' = [bit EXCEPT ![t] = IF last THEN 0 ELSE @ + 1]
  /\ free_before' = IF last THEN [free_before EXCEPT ![t] = {}] ELSE free_before
-----------------------------------------------------------------------------
\* Mutant: lock_acquire is forgotten.
lock_not_taken(t) == pool_lock' = pool_lock

lock_taken(t) == pool_lock = NOBODY /\ pool_lock' = t

\* palloc_get_multiple.
Get(t, n) ==
  /\ palloc_pc[t] = "idle"
  /\ lock_taken(t)
  /\ group' = [group EXCEPT ![t] = [start |-> 0, cnt |-> n]]
  /\ bit' = [bit EXCEPT ![t] = 0]
  /\ free_before' = [free_before EXCEPT ![t] = {i \in Pages : ~used_map[i]}]
  /\ Goes(t, "scan")
  /\ UNCHANGED <<used_map, held>>

\* bitmap_scan and bitmap_contains: the next bit is tested, or there is no group.
Scan(t) ==
  LET g == group[t]   past == g.start > page_cnt - g.cnt
      used == used_map[g.start + bit[t]]   last == bit[t] = g.cnt - 1
  IN  /\ palloc_pc[t] = "scan"
      /\ \/ /\ past
            /\ pool_lock' = NOBODY
            /\ Goes(t, "null")
            /\ UNCHANGED <<group, bit>>
         \/ /\ ~past /\ used
            /\ group' = [group EXCEPT ![t].start = @ + 1]
            /\ bit' = [bit EXCEPT ![t] = 0]
            /\ UNCHANGED <<palloc_pc, pool_lock>>
         \/ /\ ~past /\ ~used
            /\ bit' = [bit EXCEPT ![t] = IF last THEN 0 ELSE @ + 1]
            /\ Goes(t, IF last THEN "mark" ELSE "scan")
            /\ UNCHANGED <<group, pool_lock>>
      /\ UNCHANGED <<used_map, held, free_before>>

\* bitmap_set_multiple and bitmap_mark; the lock is released, and the group is t's.
Mark(t) ==
  LET g == group[t]   last == bit[t] = g.cnt - 1
  IN  /\ palloc_pc[t] = "mark"
      /\ used_map' = [used_map EXCEPT ![g.start + bit[t]] = TRUE]
      /\ NextBit(t, last)
      /\ Goes(t, IF last THEN "idle" ELSE "mark")
      /\ held' = IF last THEN [held EXCEPT ![t] = @ \cup {g}] ELSE held
      /\ pool_lock' = IF last THEN NOBODY ELSE pool_lock

\* palloc_get_multiple returns NULL.
GetsNothing(t) ==
  /\ palloc_pc[t] = "null"
  /\ Goes(t, "idle")
  /\ NextBit(t, TRUE)
  /\ UNCHANGED <<used_map, pool_lock, held>>

\* palloc_free_multiple: no lock is taken.
Free(t, g) ==
  /\ palloc_pc[t] = "idle" /\ g \in held[t]
  /\ held' = [held EXCEPT ![t] = @ \ {g}]
  /\ group' = [group EXCEPT ![t] = g]
  /\ bit' = [bit EXCEPT ![t] = 0]
  /\ Goes(t, "free")
  /\ UNCHANGED <<used_map, pool_lock, free_before>>

\* bitmap_reset.
Reset(t) ==
  LET g == group[t]   last == bit[t] = g.cnt - 1
  IN  /\ palloc_pc[t] = "free"
      /\ used_map' = [used_map EXCEPT ![g.start + bit[t]] = FALSE]
      /\ NextBit(t, last)
      /\ Goes(t, IF last THEN "idle" ELSE "free")
      /\ UNCHANGED <<pool_lock, held>>

PallocInit ==
  /\ used_map = [i \in Pages |-> FALSE]
  /\ pool_lock = NOBODY
  /\ palloc_pc = [t \in Allocators |-> "idle"]
  /\ group = [t \in Allocators |-> nothing]
  /\ bit = [t \in Allocators |-> 0]
  /\ held = [t \in Allocators |-> {}]
  /\ free_before = [t \in Allocators |-> {}]

PallocNext ==
  \E t \in Allocators :
    \/ \E n \in Counts : Get(t, n)
    \/ \E g \in held[t] : Free(t, g)
    \/ Scan(t) \/ Mark(t) \/ GetsNothing(t) \/ Reset(t)

PallocSpec == PallocInit /\ [][PallocNext]_pallocVars
-----------------------------------------------------------------------------
\* The pages that are taken: those held, those a thread has marked so far, and
\* those it has not yet given back.
Marked(t) ==
  CASE palloc_pc[t] = "mark" -> group[t].start .. group[t].start + bit[t] - 1
    [] palloc_pc[t] = "free" -> group[t].start + bit[t] .. group[t].start + group[t].cnt - 1
    [] OTHER -> {}

\* The pages that thread t counts on: all of the group it is about to mark, too.
Claimed(t) ==
  Marked(t) \cup (UNION {PagesOf(g) : g \in held[t]})
    \cup (IF palloc_pc[t] = "mark" THEN PagesOf(group[t]) ELSE {})

\* No page is handed out twice, none is lost, and the groups that one thread
\* holds are apart, although pages are freed while others scan.
PagesExclusive ==
  /\ \A t, u \in Allocators : t # u => Claimed(t) \cap Claimed(u) = {}
  /\ \A t \in Allocators : \A g, h \in held[t] : g # h => PagesOf(g) \cap PagesOf(h) = {}
  /\ {i \in Pages : used_map[i]}
       = UNION {Marked(t) \cup UNION {PagesOf(g) : g \in held[t]} : t \in Allocators}

\* A thread gets no pages only if there was no such group when it began to look.
NoFalseShortage ==
  \A t \in Allocators : palloc_pc[t] = "null" =>
    ~ \E i \in Pages : i + group[t].cnt <= page_cnt
                        /\ i .. i + group[t].cnt - 1 \subseteq free_before[t]

\* What the threads may count on.
PoolRight == PagesExclusive /\ NoFalseShortage
=============================================================================
