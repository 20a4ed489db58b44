---------------------------- MODULE MemoryProofs ----------------------------
(***************************************************************************)
(* The page allocator keeps pages apart for any pool, any threads and any  *)
(* sizes of groups; user processes keep their frames apart for any number  *)
(* of processes, frames and pages, and any executables; the heap keeps the      *)
(* promise of malloc.h for any sizes and any callers.                      *)
(*                                                                         *)
(* A page of the pool is in the hands of a thread that has marked it, that *)
(* has been given it, or that has not yet given it back (Has).  The bits   *)
(* of the map say exactly which pages are in somebody's hands.  That a     *)
(* thread may set the bits of a group which it found clear some steps ago  *)
(* is due to the lock, since only its holder sets bits: whoever frees      *)
(* pages without it only makes the search miss a group, never hit one that *)
(* is taken.                                                               *)
(*                                                                         *)
(* A frame is a process's own while the page table has it or load is about *)
(* to install it (Holds).  That the CPU only goes by page tables that      *)
(* exist is due to the order in process_exit: t->pagedir is reset before   *)
(* the base page directory is activated, and both before the tables go.    *)
(*                                                                         *)
(* A block of the heap is free, and once on the list of its descriptor, or *)
(* in hand: a caller's, or the new block of a realloc under way.  Arenas   *)
(* never share a page (HeapRight), so blocks in hand lie apart, and what   *)
(* realloc's caller sees is the old block until the new one holds the same *)
(* contents (PromiseInv).                                                  *)
(***************************************************************************)
EXTENDS Palloc, UserMemory, Malloc, FiniteSetTheorems, SequenceTheorems, WellFoundedInduction, TLAPS

Groups == [start : Nat, cnt : Nat \ {0}]
Has(t, i) == i \in Marked(t) \/ \E g \in held[t] : i \in PagesOf(g)

PallocTypeOK ==
  /\ used_map \in [Pages -> BOOLEAN]
  /\ pool_lock \in Allocators \cup {NOBODY}
  /\ palloc_pc \in [Allocators -> {"idle", "scan", "mark", "null", "free"}]
  /\ group \in [Allocators -> Groups]
  /\ bit \in [Allocators -> Nat]
  /\ held \in [Allocators -> SUBSET {g \in Groups : g.start + g.cnt <= page_cnt}]
  /\ free_before \in [Allocators -> SUBSET Pages]

\* Who searches or marks holds the lock.
LockInv == \A t \in Allocators : palloc_pc[t] \in {"scan", "mark"} => pool_lock = t

\* A thread is at a bit of its group, which is in the pool once it has been found.
BitInv ==
  \A t \in Allocators :
    /\ palloc_pc[t] \in {"scan", "mark", "free"} => bit[t] < group[t].cnt
    /\ palloc_pc[t] \in {"mark", "free"} => group[t].start + group[t].cnt <= page_cnt

\* What was found clear is clear until it is marked.
ClearInv ==
  \A t \in Allocators : \A i \in Pages :
    /\ palloc_pc[t] = "scan" /\ i \in group[t].start .. group[t].start + bit[t] - 1 => ~used_map[i]
    /\ palloc_pc[t] = "mark" /\ i \in group[t].start + bit[t] .. group[t].start + group[t].cnt - 1
         => ~used_map[i]

\* A page is in the hands of one thread, as part of one group; the map says which ones are.
HandsInv ==
  /\ \A t, u \in Allocators : t # u => \A i \in Pages : ~(Has(t, i) /\ Has(u, i))
  /\ \A t \in Allocators : \A g, h \in held[t] : g # h => PagesOf(g) \cap PagesOf(h) = {}
  /\ \A t \in Allocators : \A g \in held[t] : PagesOf(g) \cap Marked(t) = {}
  /\ \A i \in Pages : used_map[i] <=> \E t \in Allocators : Has(t, i)

\* Every group before the one that is looked at has a page that was not free.
SearchInv ==
  \A t \in Allocators :
    /\ palloc_pc[t] = "scan" => \A i \in free_before[t] : ~used_map[i]
    /\ palloc_pc[t] \in {"scan", "null"} =>
         \A i \in Pages : i < group[t].start => ~(i .. i + group[t].cnt - 1 \subseteq free_before[t])
    /\ palloc_pc[t] = "null" => group[t].start > page_cnt - group[t].cnt

IInv == PallocTypeOK /\ LockInv /\ BitInv /\ ClearInv /\ HandsInv /\ SearchInv
-----------------------------------------------------------------------------
USE PageCntAssumption, CountsAssumption, NobodyAssumption

LEMMA Initially == PallocInit => IInv
<1> SUFFICES ASSUME PallocInit PROVE IInv
  OBVIOUS
<1> USE DEF PallocInit
<1>1. PallocTypeOK
  BY DEF PallocTypeOK, Groups, nothing, Pages
<1>2. LockInv /\ BitInv /\ ClearInv /\ SearchInv
  BY DEF LockInv, BitInv, ClearInv, SearchInv
<1>3. \A t \in Allocators : Marked(t) = {} /\ held[t] = {}
  BY DEF Marked
<1>4. HandsInv
  BY <1>3 DEF HandsInv, Has, Pages
<1> QED
  BY <1>1, <1>2, <1>4 DEF IInv

\* What a step of another thread leaves alone.
LEMMA OthersKeep ==
  ASSUME NEW u \in Allocators,
         palloc_pc'[u] = palloc_pc[u], group'[u] = group[u], bit'[u] = bit[u], held'[u] = held[u]
  PROVE  Marked(u)' = Marked(u) /\ \A i : Has(u, i)' = Has(u, i)
<1>1. Marked(u)' = Marked(u)
  BY DEF Marked
<1> QED
  BY <1>1 DEF Has, PagesOf

\* HandsInv after a step that changes nobody's pages.
LEMMA SameHands ==
  ASSUME HandsInv, UNCHANGED <<used_map, held>>, \A u \in Allocators : Marked(u)' = Marked(u)
  PROVE  HandsInv'
<1>1. \A u \in Allocators, i \in Pages : Has(u, i)' = Has(u, i)
  BY DEF Has
<1> QED
  BY <1>1 DEF HandsInv, Pages, PagesOf

LEMMA GetKeeps ==
  ASSUME IInv, NEW t \in Allocators, NEW n \in Counts, Get(t, n)
  PROVE  IInv'
<1> USE DEF Get, Goes, lock_taken
<1>0. PallocTypeOK /\ LockInv /\ BitInv /\ ClearInv /\ HandsInv /\ SearchInv
  BY DEF IInv
<1>a. \A u \in Allocators : u # t => palloc_pc'[u] = palloc_pc[u] /\ group'[u] = group[u] /\ bit'[u] = bit[u]
                                      /\ held'[u] = held[u] /\ free_before'[u] = free_before[u]
  BY <1>0 DEF PallocTypeOK
<1>b. /\ palloc_pc'[t] = "scan" /\ bit'[t] = 0 /\ group'[t] = [start |-> 0, cnt |-> n]
      /\ free_before'[t] = {i \in Pages : ~used_map[i]} /\ n \in Nat \ {0}
  BY <1>0 DEF PallocTypeOK
<1>c. \A u \in Allocators : palloc_pc[u] \notin {"scan", "mark"}
  BY <1>0 DEF LockInv
<1>1. PallocTypeOK'
  <2>1. [start |-> 0, cnt |-> n] \in Groups
    BY DEF Groups
  <2> QED
    BY <1>0, <2>1 DEF PallocTypeOK, Pages
<1>2. LockInv'
  BY <1>a, <1>c DEF LockInv
<1>3. BitInv'
  BY <1>0, <1>a, <1>b DEF BitInv
<1>4. ClearInv'
  BY <1>0, <1>a, <1>b DEF ClearInv, Pages
<1>5. HandsInv'
  <2>1. \A u \in Allocators : Marked(u)' = Marked(u)
    BY <1>a, <1>b, OthersKeep DEF Marked
  <2> QED
    BY <1>0, <2>1, SameHands
<1>6. SearchInv'
  BY <1>0, <1>a, <1>b DEF SearchInv, Pages
<1> QED
  BY <1>1, <1>2, <1>3, <1>4, <1>5, <1>6 DEF IInv

LEMMA ScanKeeps ==
  ASSUME IInv, NEW t \in Allocators, Scan(t)
  PROVE  IInv'
<1> DEFINE g == group[t]
<1>0. PallocTypeOK /\ LockInv /\ BitInv /\ ClearInv /\ HandsInv /\ SearchInv
  BY DEF IInv
<1>t. /\ g \in Groups /\ g.start \in Nat /\ g.cnt \in Nat \ {0} /\ bit[t] \in Nat
      /\ palloc_pc[t] = "scan" /\ bit[t] < g.cnt /\ pool_lock = t
  BY <1>0 DEF PallocTypeOK, Groups, Scan, BitInv, LockInv
<1>a. \A u \in Allocators : u # t => palloc_pc'[u] = palloc_pc[u] /\ group'[u] = group[u] /\ bit'[u] = bit[u]
                                      /\ held'[u] = held[u] /\ free_before'[u] = free_before[u]
  BY <1>0 DEF PallocTypeOK, Scan, Goes
<1>b. UNCHANGED <<used_map, held, free_before>>
  BY DEF Scan
<1>c. \A u \in Allocators : u # t => palloc_pc[u] \notin {"scan", "mark"}
  BY <1>0, <1>t DEF LockInv
\* What the three alternatives leave t with.
<1>d. CASE g.start > page_cnt - g.cnt
  <2>1. palloc_pc'[t] = "null" /\ group'[t] = g /\ bit'[t] = bit[t] /\ pool_lock' = NOBODY
    BY <1>d, <1>0 DEF Scan, Goes, PallocTypeOK
  <2>2. PallocTypeOK'
    BY <1>d, <1>0 DEF Scan, Goes, PallocTypeOK, Pages
  <2>3. LockInv' /\ BitInv'
    BY <2>1, <1>0, <1>a, <1>c DEF LockInv, BitInv
  <2>4. ClearInv'
    BY <2>1, <1>0, <1>a, <1>b DEF ClearInv, Pages
  <2>5. HandsInv'
    <3>1. \A u \in Allocators : Marked(u)' = Marked(u)
      BY <1>a, <1>t, <2>1, OthersKeep DEF Marked
    <3> QED
      BY <1>0, <1>b, <3>1, SameHands
  <2>6. SearchInv'
    BY <1>d, <2>1, <1>0, <1>a, <1>b, <1>t DEF SearchInv, Pages
  <2> QED
    BY <2>2, <2>3, <2>4, <2>5, <2>6 DEF IInv
<1>e. CASE ~(g.start > page_cnt - g.cnt) /\ used_map[g.start + bit[t]]
  <2>s. /\ group' = [group EXCEPT ![t].start = @ + 1] /\ bit' = [bit EXCEPT ![t] = 0]
        /\ UNCHANGED <<palloc_pc, pool_lock>>
    BY <1>e DEF Scan
  <2>1. palloc_pc'[t] = "scan" /\ bit'[t] = 0 /\ pool_lock' = t
    BY <2>s, <1>0, <1>t DEF PallocTypeOK
  <2>r. group'[t] = [g EXCEPT !.start = @ + 1] /\ DOMAIN group' = Allocators
    BY <2>s, <1>0 DEF PallocTypeOK
  <2>g. group'[t] \in Groups /\ group'[t].start = g.start + 1 /\ group'[t].cnt = g.cnt
    BY <2>r, <1>t DEF Groups
  <2>2. PallocTypeOK'
    <3>1. group' = [group EXCEPT ![t] = group'[t]]
      BY <2>s, <1>0 DEF PallocTypeOK
    <3>2. group' \in [Allocators -> Groups]
      BY <3>1, <2>g, <1>0 DEF PallocTypeOK
    <3>3. bit' \in [Allocators -> Nat]
      BY <2>s, <1>0 DEF PallocTypeOK
    <3> QED
      BY <3>2, <3>3, <2>s, <1>b, <1>0 DEF PallocTypeOK, Pages
  <2>3. LockInv' /\ BitInv'
    BY <2>1, <2>g, <1>0, <1>t, <1>a, <1>c DEF LockInv, BitInv
  <2>4. ClearInv'
    BY <2>1, <2>g, <1>0, <1>t, <1>a, <1>b DEF ClearInv, Pages
  <2>5. HandsInv'
    <3>1. \A u \in Allocators : Marked(u)' = Marked(u)
      BY <1>a, <1>t, <2>1, OthersKeep DEF Marked
    <3> QED
      BY <1>0, <1>b, <3>1, SameHands
  <2>6. SearchInv'
    <3>1. g.start + bit[t] \notin free_before[t]
      BY <1>e, <1>0, <1>t DEF SearchInv
    <3>2. ~(g.start .. g.start + g.cnt - 1 \subseteq free_before[t])
      BY <3>1, <1>t
    <3>3. \A i \in Pages : i < g.start + 1 => ~(i .. i + g.cnt - 1 \subseteq free_before[t])
      BY <3>2, <1>0, <1>t DEF SearchInv, Pages
    <3> QED
      BY <3>3, <2>1, <2>g, <1>0, <1>t, <1>a, <1>b DEF SearchInv, Pages
  <2> QED
    BY <2>2, <2>3, <2>4, <2>5, <2>6 DEF IInv
<1>f. CASE ~(g.start > page_cnt - g.cnt) /\ ~used_map[g.start + bit[t]]
  <2>1. /\ group'[t] = g /\ pool_lock' = t
        /\ bit[t] = g.cnt - 1 => palloc_pc'[t] = "mark" /\ bit'[t] = 0
        /\ bit[t] # g.cnt - 1 => palloc_pc'[t] = "scan" /\ bit'[t] = bit[t] + 1
    BY <1>f, <1>0, <1>t DEF Scan, Goes, PallocTypeOK
  <2>2. PallocTypeOK'
    <3>1. /\ group' = group /\ pool_lock' = pool_lock
          /\ palloc_pc' = [palloc_pc EXCEPT ![t] = IF bit[t] = g.cnt - 1 THEN "mark" ELSE "scan"]
          /\ bit' = [bit EXCEPT ![t] = IF bit[t] = g.cnt - 1 THEN 0 ELSE @ + 1]
      BY <1>f DEF Scan, Goes
    <3>2. bit' \in [Allocators -> Nat]
      BY <3>1, <1>t, <1>0 DEF PallocTypeOK
    <3> QED
      BY <3>1, <3>2, <1>b, <1>0 DEF PallocTypeOK, Pages
  <2>3. LockInv' /\ BitInv'
    BY <1>f, <2>1, <1>0, <1>t, <1>a, <1>c DEF LockInv, BitInv
  <2>4. ClearInv'
    <3>1. \A i \in Pages : i \in g.start .. g.start + bit[t] => ~used_map[i]
      BY <1>f, <1>0, <1>t DEF ClearInv, Pages
    <3> QED
      BY <3>1, <1>f, <2>1, <1>0, <1>t, <1>a, <1>b DEF ClearInv, Pages
  <2>5. HandsInv'
    <3>1. Marked(t) = {} /\ Marked(t)' = {}
      BY <1>t, <2>1 DEF Marked
    <3>2. \A u \in Allocators : Marked(u)' = Marked(u)
      BY <1>a, <3>1, OthersKeep
    <3> QED
      BY <1>0, <1>b, <3>2, SameHands
  <2>6. SearchInv'
    BY <2>1, <1>0, <1>t, <1>a, <1>b DEF SearchInv, Pages
  <2> QED
    BY <2>2, <2>3, <2>4, <2>5, <2>6 DEF IInv
<1> QED
  BY <1>d, <1>e, <1>f

LEMMA GetsNothingKeeps ==
  ASSUME IInv, NEW t \in Allocators, GetsNothing(t)
  PROVE  IInv'
<1> USE DEF GetsNothing, Goes, NextBit, nothing
<1>0. PallocTypeOK /\ LockInv /\ BitInv /\ ClearInv /\ HandsInv /\ SearchInv
  BY DEF IInv
<1>a. \A u \in Allocators : u # t => palloc_pc'[u] = palloc_pc[u] /\ group'[u] = group[u] /\ bit'[u] = bit[u]
                                      /\ held'[u] = held[u] /\ free_before'[u] = free_before[u]
  BY <1>0 DEF PallocTypeOK
<1>b. palloc_pc[t] = "null" /\ palloc_pc'[t] = "idle" /\ UNCHANGED <<used_map, pool_lock, held>>
  BY <1>0 DEF PallocTypeOK
<1>1. PallocTypeOK'
  <2>1. nothing \in Groups
    BY DEF Groups
  <2> QED
    BY <1>0, <2>1 DEF PallocTypeOK, Pages
<1>2. LockInv' /\ BitInv'
  BY <1>0, <1>a, <1>b DEF LockInv, BitInv
<1>3. ClearInv' /\ SearchInv'
  BY <1>0, <1>a, <1>b DEF ClearInv, SearchInv, Pages
<1>4. HandsInv'
  <2>1. \A u \in Allocators : Marked(u)' = Marked(u)
    BY <1>a, <1>b, OthersKeep DEF Marked
  <2> QED
    BY <1>0, <1>b, <2>1, SameHands
<1> QED
  BY <1>1, <1>2, <1>3, <1>4 DEF IInv

\* The page whose bit is set was in nobody's hands, and is in t's from now on.
LEMMA MarkKeeps ==
  ASSUME IInv, NEW t \in Allocators, Mark(t)
  PROVE  IInv'
<1> DEFINE g == group[t]
           p == g.start + bit[t]
           last == bit[t] = g.cnt - 1
<1>0. PallocTypeOK /\ LockInv /\ BitInv /\ ClearInv /\ HandsInv /\ SearchInv
  BY DEF IInv
<1>t. /\ g \in Groups /\ g.start \in Nat /\ g.cnt \in Nat \ {0} /\ bit[t] \in Nat
      /\ palloc_pc[t] = "mark" /\ bit[t] < g.cnt /\ g.start + g.cnt <= page_cnt /\ pool_lock = t
  BY <1>0 DEF PallocTypeOK, Groups, Mark, BitInv, LockInv
<1>p. p \in Pages /\ ~used_map[p] /\ \A u \in Allocators : ~Has(u, p)
  <2>1. p \in Pages /\ p \in g.start + bit[t] .. g.start + g.cnt - 1
    BY <1>t DEF Pages
  <2> QED
    BY <2>1, <1>0, <1>t DEF ClearInv, HandsInv
<1>a. \A u \in Allocators : u # t => palloc_pc'[u] = palloc_pc[u] /\ group'[u] = group[u] /\ bit'[u] = bit[u]
                                      /\ held'[u] = held[u] /\ free_before'[u] = free_before[u]
  BY <1>0 DEF PallocTypeOK, Mark, Goes, NextBit
<1>c. \A u \in Allocators : u # t => palloc_pc[u] \notin {"scan", "mark"}
  BY <1>0, <1>t DEF LockInv
<1>u. used_map' = [used_map EXCEPT ![p] = TRUE]
  BY DEF Mark
<1>l. last => /\ palloc_pc' = [palloc_pc EXCEPT ![t] = "idle"] /\ group' = [group EXCEPT ![t] = nothing]
              /\ bit' = [bit EXCEPT ![t] = 0] /\ free_before' = [free_before EXCEPT ![t] = {}]
              /\ held' = [held EXCEPT ![t] = @ \cup {g}] /\ pool_lock' = NOBODY
  BY DEF Mark, Goes, NextBit
<1>n. ~last => /\ palloc_pc' = [palloc_pc EXCEPT ![t] = "mark"] /\ group' = group
               /\ bit' = [bit EXCEPT ![t] = @ + 1] /\ UNCHANGED <<free_before, held, pool_lock>>
  BY DEF Mark, Goes, NextBit
<1>1. PallocTypeOK'
  <2>1. nothing \in Groups
    BY DEF Groups, nothing
  <2>2. used_map' \in [Pages -> BOOLEAN]
    BY <1>0, <1>u DEF PallocTypeOK
  <2>3. held' \in [Allocators -> SUBSET {h \in Groups : h.start + h.cnt <= page_cnt}]
    BY <1>0, <1>l, <1>n, <1>t DEF PallocTypeOK
  <2>4. /\ pool_lock' \in Allocators \cup {NOBODY}
        /\ palloc_pc' \in [Allocators -> {"idle", "scan", "mark", "null", "free"}]
        /\ group' \in [Allocators -> Groups] /\ bit' \in [Allocators -> Nat]
        /\ free_before' \in [Allocators -> SUBSET Pages]
    <3>1. CASE last
      BY <3>1, <2>1, <1>0, <1>l DEF PallocTypeOK
    <3>2. CASE ~last
      BY <3>2, <1>0, <1>n DEF PallocTypeOK
    <3> QED
      BY <3>1, <3>2
  <2> QED
    BY <2>2, <2>3, <2>4 DEF PallocTypeOK, Pages
<1>m. /\ last => palloc_pc'[t] = "idle" /\ held'[t] = held[t] \cup {g}
      /\ ~last => palloc_pc'[t] = "mark" /\ group'[t] = g /\ bit'[t] = bit[t] + 1 /\ held'[t] = held[t]
                   /\ pool_lock' = t
  BY <1>0, <1>t, <1>l, <1>n DEF PallocTypeOK
<1>2. LockInv' /\ BitInv'
  BY <1>0, <1>t, <1>a, <1>c, <1>m DEF LockInv, BitInv
<1>3. ClearInv'
  <2>1. \A i \in Pages : i # p => used_map'[i] = used_map[i]
    BY <1>0, <1>u DEF PallocTypeOK
  <2>2. \A i \in Pages : i \in g.start + (bit[t] + 1) .. g.start + g.cnt - 1 => ~used_map'[i]
    BY <2>1, <1>0, <1>t DEF ClearInv, Pages
  <2> QED
    BY <2>2, <1>a, <1>c, <1>m DEF ClearInv, Pages
<1>4. HandsInv'
  <2>1. Marked(t) = g.start .. p - 1 /\ PagesOf(g) = g.start .. g.start + g.cnt - 1
    BY <1>t DEF Marked, PagesOf
  <2>2. /\ last => Marked(t)' = {} /\ PagesOf(g) = Marked(t) \cup {p}
        /\ ~last => Marked(t)' = Marked(t) \cup {p}
    <3>1. CASE last
      <4>1. Marked(t)' = {}
        BY <3>1, <1>m DEF Marked
      <4>2. p = g.start + g.cnt - 1
        BY <3>1, <1>t
      <4>3. g.start .. g.start + g.cnt - 1 = g.start .. p - 1 \cup {p}
        BY <4>2, <1>t
      <4> QED
        BY <3>1, <4>1, <4>3, <2>1
    <3>2. CASE ~last
      <4>1. Marked(t)' = g.start .. g.start + (bit[t] + 1) - 1
        BY <3>2, <1>m DEF Marked
      <4>2. g.start .. g.start + (bit[t] + 1) - 1 = g.start .. p - 1 \cup {p}
        BY <1>t
      <4> QED
        BY <3>2, <4>1, <4>2, <2>1
    <3> QED
      BY <3>1, <3>2
  <2>3. \A i \in Pages : Has(t, i)' <=> Has(t, i) \/ i = p
    BY <2>2, <1>m DEF Has, PagesOf
  <2>4. \A u \in Allocators : u # t => Marked(u)' = Marked(u) /\ \A i : Has(u, i)' = Has(u, i)
    BY <1>a, OthersKeep
  <2>5. \A h \in held[t] : PagesOf(h) \cap (Marked(t) \cup {p}) = {}
    <3>1. \A h \in held[t] : p \notin PagesOf(h)
      BY <1>p DEF Has
    <3> QED
      BY <3>1, <1>0 DEF HandsInv
  <2>6. \A u, v \in Allocators : u # v => \A i \in Pages : ~(Has(u, i)' /\ Has(v, i)')
    BY <2>3, <2>4, <1>p, <1>0 DEF HandsInv
  <2>7. \A u \in Allocators : \A h, k \in held'[u] : h # k => PagesOf(h) \cap PagesOf(k) = {}
    <3>1. \A h, k \in held'[t] : h # k => PagesOf(h) \cap PagesOf(k) = {}
      BY <2>2, <2>5, <1>m, <1>0 DEF HandsInv
    <3> QED
      BY <3>1, <1>a, <1>0 DEF HandsInv
  <2>8. \A u \in Allocators : \A h \in held'[u] : PagesOf(h) \cap Marked(u)' = {}
    <3>1. \A h \in held'[t] : PagesOf(h) \cap Marked(t)' = {}
      BY <2>2, <2>5, <1>m
    <3> QED
      BY <3>1, <2>4, <1>a, <1>0 DEF HandsInv
  <2>9. \A i \in Pages : used_map'[i] <=> \E u \in Allocators : Has(u, i)'
    <3>1. \A i \in Pages : used_map'[i] <=> (used_map[i] \/ i = p)
      BY <1>0, <1>u, <1>p DEF PallocTypeOK
    <3> QED
      BY <3>1, <2>3, <2>4, <1>0 DEF HandsInv
  <2> QED
    BY <2>6, <2>7, <2>8, <2>9 DEF HandsInv, PagesOf, Pages
<1>5. SearchInv'
  BY <1>0, <1>a, <1>c, <1>m DEF SearchInv, Pages
<1> QED
  BY <1>1, <1>2, <1>3, <1>4, <1>5 DEF IInv

\* The pages of the group are in t's hands as before, now to be given back one by one.
LEMMA FreeKeeps ==
  ASSUME IInv, NEW t \in Allocators, NEW g \in held[t], Free(t, g)
  PROVE  IInv'
<1> USE DEF Free, Goes
<1>0. PallocTypeOK /\ LockInv /\ BitInv /\ ClearInv /\ HandsInv /\ SearchInv
  BY DEF IInv
<1>t. /\ g \in Groups /\ g.start \in Nat /\ g.cnt \in Nat \ {0} /\ g.start + g.cnt <= page_cnt
      /\ palloc_pc[t] = "idle"
  BY <1>0 DEF PallocTypeOK, Groups
<1>a. \A u \in Allocators : u # t => palloc_pc'[u] = palloc_pc[u] /\ group'[u] = group[u] /\ bit'[u] = bit[u]
                                      /\ held'[u] = held[u] /\ free_before'[u] = free_before[u]
  BY <1>0 DEF PallocTypeOK
<1>b. /\ palloc_pc'[t] = "free" /\ group'[t] = g /\ bit'[t] = 0 /\ held'[t] = held[t] \ {g}
      /\ UNCHANGED <<used_map, pool_lock, free_before>>
  BY <1>0 DEF PallocTypeOK
<1>1. PallocTypeOK'
  BY <1>0, <1>t DEF PallocTypeOK, Pages
<1>2. LockInv' /\ BitInv'
  BY <1>0, <1>t, <1>a, <1>b DEF LockInv, BitInv
<1>3. ClearInv' /\ SearchInv'
  BY <1>0, <1>a, <1>b DEF ClearInv, SearchInv, Pages
<1>4. HandsInv'
  <2>1. Marked(t) = {}
    BY <1>t DEF Marked
  <2>2. Marked(t)' = PagesOf(g)
    <3>1. Marked(t)' = g.start + 0 .. g.start + g.cnt - 1
      BY <1>b DEF Marked
    <3> QED
      BY <3>1, <1>t DEF PagesOf
  <2>3. \A i \in Pages : Has(t, i)' <=> Has(t, i)
    BY <2>1, <2>2, <1>b DEF Has, PagesOf
  <2>4. \A u \in Allocators : u # t => Marked(u)' = Marked(u) /\ \A i : Has(u, i)' = Has(u, i)
    BY <1>a, OthersKeep
  <2>5. \A u, v \in Allocators : u # v => \A i \in Pages : ~(Has(u, i)' /\ Has(v, i)')
    BY <2>3, <2>4, <1>0 DEF HandsInv
  <2>6. \A u \in Allocators : \A h, k \in held'[u] : h # k => PagesOf(h) \cap PagesOf(k) = {}
    BY <1>a, <1>b, <1>0 DEF HandsInv
  <2>7. \A u \in Allocators : \A h \in held'[u] : PagesOf(h) \cap Marked(u)' = {}
    <3>1. \A h \in held'[t] : PagesOf(h) \cap Marked(t)' = {}
      BY <2>2, <1>b, <1>0 DEF HandsInv
    <3> QED
      BY <3>1, <2>4, <1>a, <1>0 DEF HandsInv
  <2>8. \A i \in Pages : used_map'[i] <=> \E u \in Allocators : Has(u, i)'
    BY <2>3, <2>4, <1>b, <1>0 DEF HandsInv
  <2> QED
    BY <2>5, <2>6, <2>7, <2>8 DEF HandsInv, PagesOf, Pages
<1> QED
  BY <1>1, <1>2, <1>3, <1>4 DEF IInv

\* The page whose bit is reset was in t's hands, and is in nobody's from now on.
LEMMA ResetKeeps ==
  ASSUME IInv, NEW t \in Allocators, Reset(t)
  PROVE  IInv'
<1> DEFINE g == group[t]
           p == g.start + bit[t]
           last == bit[t] = g.cnt - 1
<1>0. PallocTypeOK /\ LockInv /\ BitInv /\ ClearInv /\ HandsInv /\ SearchInv
  BY DEF IInv
<1>t. /\ g \in Groups /\ g.start \in Nat /\ g.cnt \in Nat \ {0} /\ bit[t] \in Nat
      /\ palloc_pc[t] = "free" /\ bit[t] < g.cnt /\ g.start + g.cnt <= page_cnt
  BY <1>0 DEF PallocTypeOK, Groups, Reset, BitInv
<1>a. \A u \in Allocators : u # t => palloc_pc'[u] = palloc_pc[u] /\ group'[u] = group[u] /\ bit'[u] = bit[u]
                                      /\ held'[u] = held[u] /\ free_before'[u] = free_before[u]
  BY <1>0 DEF PallocTypeOK, Reset, Goes, NextBit
<1>u. used_map' = [used_map EXCEPT ![p] = FALSE] /\ UNCHANGED <<pool_lock, held>>
  BY DEF Reset
<1>l. last => /\ palloc_pc' = [palloc_pc EXCEPT ![t] = "idle"] /\ group' = [group EXCEPT ![t] = nothing]
              /\ bit' = [bit EXCEPT ![t] = 0] /\ free_before' = [free_before EXCEPT ![t] = {}]
  BY DEF Reset, Goes, NextBit
<1>n. ~last => /\ palloc_pc' = [palloc_pc EXCEPT ![t] = "free"] /\ group' = group
               /\ bit' = [bit EXCEPT ![t] = @ + 1] /\ UNCHANGED free_before
  BY DEF Reset, Goes, NextBit
<1>p. p \in Pages /\ p \in Marked(t) /\ Marked(t) = p .. g.start + g.cnt - 1
  BY <1>t DEF Pages, Marked
<1>m. /\ last => palloc_pc'[t] = "idle"
      /\ ~last => palloc_pc'[t] = "free" /\ group'[t] = g /\ bit'[t] = bit[t] + 1
  BY <1>0, <1>l, <1>n DEF PallocTypeOK
<1>w. /\ ~used_map'[p] /\ \A i \in Pages : i # p => used_map'[i] = used_map[i]
      /\ \A i \in Pages : used_map'[i] => used_map[i]
  BY <1>0, <1>u, <1>p DEF PallocTypeOK
<1>1. PallocTypeOK'
  <2>1. nothing \in Groups
    BY DEF Groups, nothing
  <2>2. used_map' \in [Pages -> BOOLEAN]
    BY <1>0, <1>u DEF PallocTypeOK
  <2>3. /\ palloc_pc' \in [Allocators -> {"idle", "scan", "mark", "null", "free"}]
        /\ group' \in [Allocators -> Groups] /\ bit' \in [Allocators -> Nat]
        /\ free_before' \in [Allocators -> SUBSET Pages]
    <3>1. CASE last
      BY <3>1, <2>1, <1>0, <1>l DEF PallocTypeOK
    <3>2. CASE ~last
      BY <3>2, <1>0, <1>n DEF PallocTypeOK
    <3> QED
      BY <3>1, <3>2
  <2> QED
    BY <2>2, <2>3, <1>u, <1>0 DEF PallocTypeOK, Pages
<1>2. LockInv' /\ BitInv'
  <2>1. LockInv'
    BY <1>0, <1>a, <1>m, <1>u DEF LockInv
  <2>2. BitInv'
    BY <1>0, <1>t, <1>a, <1>m DEF BitInv
  <2> QED
    BY <2>1, <2>2
<1>3. ClearInv' /\ SearchInv'
  <2>1. ClearInv'
    BY <1>0, <1>a, <1>m, <1>w DEF ClearInv, Pages
  <2>2. \A u \in Allocators : free_before[u] \subseteq Pages
    BY <1>0 DEF PallocTypeOK
  <2>3. SearchInv'
    BY <1>0, <1>a, <1>m, <1>w, <2>2 DEF SearchInv, Pages
  <2> QED
    BY <2>1, <2>3
<1>4. HandsInv'
  <2>1. Marked(t)' = Marked(t) \ {p}
    <3>1. CASE last
      <4>1. Marked(t)' = {}
        BY <3>1, <1>m DEF Marked
      <4>2. p .. g.start + g.cnt - 1 = {p}
        BY <3>1, <1>t
      <4> QED
        BY <4>1, <4>2, <1>p
    <3>2. CASE ~last
      <4>1. Marked(t)' = g.start + (bit[t] + 1) .. g.start + g.cnt - 1
        BY <3>2, <1>m DEF Marked
      <4>2. g.start + (bit[t] + 1) .. g.start + g.cnt - 1 = (p .. g.start + g.cnt - 1) \ {p}
        BY <1>t
      <4> QED
        BY <4>1, <4>2, <1>p
    <3> QED
      BY <3>1, <3>2
  <2>2. \A h \in held[t] : p \notin PagesOf(h)
    BY <1>p, <1>0 DEF HandsInv
  <2>3. Has(t, p) /\ \A i \in Pages : Has(t, i)' <=> Has(t, i) /\ i # p
    BY <2>1, <2>2, <1>p, <1>u DEF Has, PagesOf
  <2>4. \A u \in Allocators : u # t => Marked(u)' = Marked(u) /\ \A i : Has(u, i)' = Has(u, i)
    BY <1>a, OthersKeep
  <2>5. \A u, v \in Allocators : u # v => \A i \in Pages : ~(Has(u, i)' /\ Has(v, i)')
    BY <2>3, <2>4, <1>0 DEF HandsInv
  <2>6. \A u \in Allocators : \A h, k \in held'[u] : h # k => PagesOf(h) \cap PagesOf(k) = {}
    BY <1>u, <1>0 DEF HandsInv
  <2>7. \A u \in Allocators : \A h \in held'[u] : PagesOf(h) \cap Marked(u)' = {}
    <3>1. \A u \in Allocators : Marked(u)' \subseteq Marked(u)
      BY <2>1, <2>4
    <3> QED
      BY <3>1, <1>u, <1>0 DEF HandsInv
  <2>8. \A i \in Pages : used_map'[i] <=> \E u \in Allocators : Has(u, i)'
    <3>1. \A u \in Allocators : u # t => ~Has(u, p)
      BY <2>3, <1>p, <1>0 DEF HandsInv
    <3> QED
      BY <3>1, <2>3, <2>4, <1>w, <1>0 DEF HandsInv
  <2> QED
    BY <2>5, <2>6, <2>7, <2>8 DEF HandsInv, PagesOf, Pages
<1> QED
  BY <1>1, <1>2, <1>3, <1>4 DEF IInv

LEMMA StepKeeps == IInv /\ [PallocNext]_pallocVars => IInv'
<1> SUFFICES ASSUME IInv, [PallocNext]_pallocVars PROVE IInv'
  OBVIOUS
<1>1. CASE PallocNext
  BY <1>1, GetKeeps, FreeKeeps, ScanKeeps, MarkKeeps, GetsNothingKeeps, ResetKeeps DEF PallocNext
<1>2. CASE UNCHANGED pallocVars
  BY <1>2 DEF pallocVars, IInv, PallocTypeOK, LockInv, BitInv, ClearInv, HandsInv, SearchInv, Has, Marked,
              PagesOf, Pages
<1> QED
  BY <1>1, <1>2
-----------------------------------------------------------------------------
\* A page that a thread counts on is in its hands, or it is one that the thread is
\* about to mark: then it is in nobody's, and nobody else is about to mark any.
LEMMA IInvPagesExclusive == IInv => PagesExclusive
<1> SUFFICES ASSUME IInv PROVE PagesExclusive
  OBVIOUS
<1>0. PallocTypeOK /\ LockInv /\ BitInv /\ ClearInv /\ HandsInv
  BY DEF IInv
<1>t. \A t \in Allocators : group[t] \in Groups /\ bit[t] \in Nat /\ group[t].start \in Nat /\ group[t].cnt \in Nat
  BY <1>0 DEF PallocTypeOK, Groups
<1>1. \A t \in Allocators : \A i \in Marked(t) : i \in Pages
  <2> SUFFICES ASSUME NEW t \in Allocators, NEW i \in Marked(t) PROVE i \in Pages
    OBVIOUS
  <2>1. palloc_pc[t] \in {"mark", "free"}
    BY DEF Marked
  <2>2. bit[t] < group[t].cnt /\ group[t].start + group[t].cnt <= page_cnt
    BY <2>1, <1>0 DEF BitInv
  <2>3. CASE palloc_pc[t] = "mark"
    BY <2>2, <2>3, <1>t DEF Marked, Pages
  <2>4. CASE palloc_pc[t] = "free"
    BY <2>2, <2>4, <1>t DEF Marked, Pages
  <2> QED
    BY <2>1, <2>3, <2>4
<1>2. \A t \in Allocators : \A h \in held[t] : \A i \in PagesOf(h) : i \in Pages
  BY <1>0 DEF PallocTypeOK, Groups, PagesOf, Pages
<1>3. \A t \in Allocators : \A i : i \in Marked(t) \cup UNION {PagesOf(h) : h \in held[t]} <=> Has(t, i)
  BY DEF Has
<1>4. \A t \in Allocators : \A i : Has(t, i) => i \in Pages
  BY <1>1, <1>2 DEF Has
<1>5. \A t \in Allocators : palloc_pc[t] = "mark" =>
        \A i \in PagesOf(group[t]) : i \in Pages /\ (Has(t, i) \/ ~used_map[i])
  <2> SUFFICES ASSUME NEW t \in Allocators, palloc_pc[t] = "mark", NEW i \in PagesOf(group[t])
               PROVE  i \in Pages /\ (Has(t, i) \/ ~used_map[i])
    OBVIOUS
  <2>1. bit[t] < group[t].cnt /\ group[t].start + group[t].cnt <= page_cnt
    BY <1>0 DEF BitInv
  <2>2. i \in Pages
    BY <2>1, <1>t DEF PagesOf, Pages
  <2>3. CASE i < group[t].start + bit[t]
    <3>1. i \in Marked(t)
      BY <2>3, <1>t DEF PagesOf, Marked
    <3> QED
      BY <3>1, <2>2 DEF Has
  <2>4. CASE ~(i < group[t].start + bit[t])
    <3>1. i \in group[t].start + bit[t] .. group[t].start + group[t].cnt - 1
      BY <2>4, <2>2, <1>t DEF PagesOf, Pages
    <3> QED
      BY <3>1, <2>2, <1>0 DEF ClearInv
  <2> QED
    BY <2>3, <2>4
\* What a thread claims is in its hands, or it marks and the page is clear.
<1>6. \A t \in Allocators : \A i : i \in Claimed(t) =>
        i \in Pages /\ (Has(t, i) \/ (palloc_pc[t] = "mark" /\ ~used_map[i]))
  <2> SUFFICES ASSUME NEW t \in Allocators, NEW i, i \in Claimed(t)
               PROVE  i \in Pages /\ (Has(t, i) \/ (palloc_pc[t] = "mark" /\ ~used_map[i]))
    OBVIOUS
  <2>1. i \in Marked(t) \cup UNION {PagesOf(h) : h \in held[t]} \/ (palloc_pc[t] = "mark" /\ i \in PagesOf(group[t]))
    BY DEF Claimed
  <2> QED
    BY <2>1, <1>3, <1>4, <1>5
<1>7. \A t, u \in Allocators : t # u => Claimed(t) \cap Claimed(u) = {}
  <2> SUFFICES ASSUME NEW t \in Allocators, NEW u \in Allocators, t # u, NEW i, i \in Claimed(t), i \in Claimed(u)
               PROVE  FALSE
    OBVIOUS
  <2>1. ~(palloc_pc[t] = "mark" /\ palloc_pc[u] = "mark")
    BY <1>0 DEF LockInv
  <2>2. i \in Pages /\ (Has(t, i) => used_map[i]) /\ (Has(u, i) => used_map[i]) /\ ~(Has(t, i) /\ Has(u, i))
    BY <1>6, <1>0 DEF HandsInv
  <2> QED
    BY <2>1, <2>2, <1>6
<1>8. {i \in Pages : used_map[i]} = UNION {Marked(t) \cup UNION {PagesOf(h) : h \in held[t]} : t \in Allocators}
  <2>1. \A i \in Pages : used_map[i] <=> \E t \in Allocators : Has(t, i)
    BY <1>0 DEF HandsInv
  <2>2. \A i : i \in UNION {Marked(t) \cup UNION {PagesOf(h) : h \in held[t]} : t \in Allocators}
                 <=> \E t \in Allocators : Has(t, i)
    BY <1>3
  <2> QED
    BY <2>1, <2>2, <1>4
<1> QED
  BY <1>7, <1>8, <1>0 DEF PagesExclusive, HandsInv

\* Where a group would have been, the search has looked, and found a page that was taken.
LEMMA IInvNoFalseShortage == IInv => NoFalseShortage
<1> SUFFICES ASSUME IInv, NEW t \in Allocators, palloc_pc[t] = "null", NEW i \in Pages,
                    i + group[t].cnt <= page_cnt, i .. i + group[t].cnt - 1 \subseteq free_before[t]
             PROVE  FALSE
  BY DEF NoFalseShortage
<1>1. PallocTypeOK /\ SearchInv
  BY DEF IInv
<1>2. group[t].start \in Nat /\ group[t].cnt \in Nat
  BY <1>1 DEF PallocTypeOK, Groups
<1>3. group[t].start > page_cnt - group[t].cnt
  BY <1>1 DEF SearchInv
<1>4. i < group[t].start
  BY <1>2, <1>3 DEF Pages
<1> QED
  BY <1>1, <1>4 DEF SearchInv

\* No page is ever given to two threads, or twice to one, none is lost, and a thread is
\* told that there is no room only if there was none when it began to look, although
\* pages are freed without the lock (palloc_get_multiple, palloc_free_multiple).
THEOREM PoolRightHolds == PallocSpec => []PoolRight
<1>1. IInv => PoolRight
  BY IInvPagesExclusive, IInvNoFalseShortage DEF PoolRight
<1> QED
  BY Initially, StepKeeps, <1>1, PTL DEF PallocSpec
-----------------------------------------------------------------------------
(***************************************************************************)
(* User processes.                                                         *)
(***************************************************************************)

ProcPlaces == {"none", "create", "activate", "page", "install", "read", "loaded", "user", "fault",
               "exit", "exit_activate", "destroy", "dying", "gone"}
LoadPage == [upage : UserPages, writable : BOOLEAN, short : BOOLEAN]
Programs == Seq(LoadPage)
ProcRecords ==
  [at : ProcPlaces, prog : Programs,
   next : Nat \ {0}, kpage : Frames \cup {NoEntry}, pagedir : BOOLEAN,
   touched : UserPages \cup {NoEntry}, reported : UserPages \cup {NoEntry}]

UserTypeOK ==
  /\ user_pool \subseteq Frames
  /\ {running, cr3, esp0} \subseteq Procs \cup {"init"}
  /\ intr_off \in BOOLEAN /\ freed_in_use \in BOOLEAN
  /\ tlb \in [UserPages -> Translations \cup {NoEntry}]
  /\ cr2 \in UserPages \cup {NoEntry}
  /\ proc \in [Procs -> ProcRecords]
  /\ page_dir \in [Procs -> PageDirs \cup {NoEntry}]
  /\ written \subseteq Procs \X UserPages

\* A process has a page directory from pagedir_create to pagedir_destroy, and t->pagedir says so
\* until process_exit.
DirInv ==
  \A p \in Procs :
    /\ proc[p].at \in {"activate", "page", "install", "read", "loaded", "user", "fault"} => proc[p].pagedir
    /\ proc[p].pagedir =>
         proc[p].at \in {"activate", "page", "install", "read", "loaded", "user", "fault", "exit"}
    /\ page_dir[p] # NoEntry <=> proc[p].pagedir \/ proc[p].at \in {"exit_activate", "destroy"}

\* The CPU is in the address space of the running process, once that is set up and until it is left.
CpuInv ==
  /\ esp0 = running /\ cr3 \in {"init", running}
  /\ cr3 = "init" => tlb = no_tlb
  /\ running # "init" =>
       /\ proc[running].at \notin {"none", "gone"}
       /\ proc[running].pagedir /\ proc[running].at # "activate" => cr3 = running
       /\ cr3 # "init" => proc[running].pagedir \/ proc[running].at = "exit_activate"

\* Nothing comes between a fault and the reading of CR2.
FaultInv ==
  \A p \in Procs :
    /\ proc[p].at = "fault" => intr_off /\ running = p /\ cr2 = proc[p].touched
    /\ proc[p].reported # NoEntry => proc[p].at = "exit" /\ proc[p].reported = proc[p].touched

Maps(d, u) == d # NoEntry /\ d.pte[u] # NoEntry /\ d.pte[u].p
FrameOf(d, u) == d.pte[u].frame
\* Frame f belongs to a process with page directory d and state s.
Holds(d, s, f) ==
  \/ \E u \in UserPages : Maps(d, u) /\ FrameOf(d, u) = f
  \/ s.at = "install" /\ s.kpage = f

\* The frames of one process are all different.
OwnFrames(d, s) ==
  /\ \A u, v \in UserPages : Maps(d, u) /\ Maps(d, v) /\ u # v => FrameOf(d, u) # FrameOf(d, v)
  /\ s.at = "install" =>
       /\ s.kpage \in Frames
       /\ \A u \in UserPages : Maps(d, u) => FrameOf(d, u) # s.kpage

\* No two processes have the same frame, and the frames in use are those that somebody has.
FrameInv ==
  /\ \A p \in Procs : OwnFrames(page_dir[p], proc[p])
  /\ \A p, q \in Procs : p # q => \A f \in Frames :
       ~(Holds(page_dir[p], proc[p], f) /\ Holds(page_dir[q], proc[q], f))
  /\ \A f \in Frames : f \in user_pool <=> \E p \in Procs : Holds(page_dir[p], proc[p], f)

\* A translation is one that the page table has; a page written to is marked dirty.
TlbInv ==
  /\ \A u \in UserPages : tlb[u] # NoEntry =>
       /\ cr3 # "init" /\ Maps(page_dir[cr3], u)
       /\ FrameOf(page_dir[cr3], u) = tlb[u].frame
       /\ tlb[u].d => page_dir[cr3].pte[u].d
  /\ \A p \in Procs : \A u \in UserPages :
       Maps(page_dir[p], u) /\ <<p, u>> \in written => page_dir[p].pte[u].d

UCore == UserTypeOK /\ DirInv /\ CpuInv /\ FaultInv /\ FrameInv /\ TlbInv
UInv == ~freed_in_use => UCore

-----------------------------------------------------------------------------
USE UserMemoryAssumption, PageNumbersAssumption, NoEntryAssumption

\* Min, of FiniteSetsExt, does find a least page.
LEMMA LeastPage ==
  ASSUME NEW S \in SUBSET Nat, S # {}
  PROVE  Min(S) \in S
<1>0. PICK e \in S : TRUE
  OBVIOUS
<1> DEFINE R == OpToRel(<, Nat)
<1>1. IsWellFoundedOn(R, Nat)
  BY NatLessThanWellFounded
<1> HIDE DEF R
<1>2. \E m \in S : \A k \in S : ~(<<k, m>> \in R)
  BY <1>0, <1>1, WFMin
<1>3. \A k, m \in Nat : <<k, m>> \in R <=> k < m
  BY DEF R, OpToRel
<1>4. PICK m \in S : \A k \in S : ~(<<k, m>> \in R)
  BY <1>2
<1>5. \A k \in S : ~(k < m) /\ k \in Nat /\ m \in Nat
  BY <1>3, <1>4
<1>6. \A k \in S : m <= k
  BY <1>5
<1> QED
  BY <1>6 DEF Min

\* palloc_get_page finds a free frame when there is one.
LEMMA FreeFrame ==
  ASSUME user_pool \subseteq Frames, user_pool # Frames
  PROVE  Min(Frames \ user_pool) \in Frames \ user_pool
<1> DEFINE S == Frames \ user_pool
<1>1. S \in SUBSET Nat /\ S # {}
  OBVIOUS
<1> HIDE DEF S
<1>2. Min(S) \in S
  BY <1>1, LeastPage
<1> QED
  BY <1>2 DEF S

\* A page that has an entry, and what the entry is.
LEMMA EntryOf ==
  ASSUME UserTypeOK, NEW p \in Procs, NEW u \in UserPages, page_dir[p] # NoEntry
  PROVE  /\ page_dir[p] \in PageDirs
         /\ page_dir[p].pte[u] # NoEntry => page_dir[p].pte[u] \in Entries
         /\ present(p, u) <=> Maps(page_dir[p], u)
BY DEF UserTypeOK, PageDirs, present, Maps

\* n is d with entry u set to e.
SetIn(n, d, u, e) ==
  /\ n \in PageDirs
  /\ \A v \in UserPages : n.pte[v] = IF v = u THEN e ELSE d.pte[v]

LEMMA AccessDirs ==
  ASSUME UCore, NEW p \in Procs, NEW u \in UserPages, NEW write \in BOOLEAN, Access(p, u, write)
  PROVE  \/ /\ page_dir' = page_dir /\ tlb' = tlb
            /\ tlb[u] # NoEntry /\ (write => tlb[u].d)
         \/ /\ cr3 = p /\ Maps(page_dir[p], u) /\ page_dir[p].pte[u] \in Entries
            /\ \E e \in Entries : \E n :
                 /\ e.frame = page_dir[p].pte[u].frame /\ e.p
                 /\ e.d <=> page_dir[p].pte[u].d \/ write
                 /\ SetIn(n, page_dir[p], u, e)
                 /\ page_dir' = [page_dir EXCEPT ![p] = n]
                 /\ \E t \in Translations : /\ t.frame = e.frame /\ (t.d <=> e.d)
                                            /\ tlb' = [tlb EXCEPT ![u] = t]
<1>1. proc[p].at = "user" /\ page_dir[p] # NoEntry
  BY DEF Access, Runs, UCore, DirInv
<1>2. CASE tlb[u] # NoEntry /\ (write => tlb[u].d) /\ UNCHANGED <<tlb, page_dir>>
  BY <1>2
<1>3. CASE /\ cr3 = p /\ present(p, u)
           /\ page_dir' = [page_dir EXCEPT ![p].pte[u].d = @ \/ write]
           /\ tlb' = [tlb EXCEPT ![u] = [frame |-> page_dir[p].pte[u].frame,
                                         d |-> page_dir[p].pte[u].d \/ write]]
  <2>1. /\ page_dir[p] \in PageDirs /\ Maps(page_dir[p], u)
        /\ page_dir[p].pte[u] \in Entries /\ page_dir[p].pte[u].p
    BY <1>1, <1>3, EntryOf DEF UCore, Maps
  <2> DEFINE o == page_dir[p].pte[u]
             b == o.d \/ write
             e == [o EXCEPT !.d = b]
             n == [page_dir[p] EXCEPT !.pte[u] = e]
             t == [frame |-> o.frame, d |-> b]
  <2>2. e \in Entries /\ e.frame = o.frame /\ e.p /\ (e.d <=> b)
    BY <2>1 DEF Entries
  <2>3. SetIn(n, page_dir[p], u, e)
    BY <2>1, <2>2 DEF SetIn, PageDirs
  <2>4. page_dir' = [page_dir EXCEPT ![p] = n]
    BY <1>3, <2>1 DEF UCore, UserTypeOK, PageDirs
  <2>5. t \in Translations /\ t.frame = e.frame /\ (t.d <=> e.d) /\ tlb' = [tlb EXCEPT ![u] = t]
    BY <1>3, <2>1, <2>2 DEF Translations, Entries
  <2> HIDE DEF e, n, t
  <2> QED
    BY <1>3, <2>1, <2>2, <2>3, <2>4, <2>5
<1> QED
  BY <1>2, <1>3 DEF Access

LEMMA ClearDirtyDirs ==
  ASSUME UCore, NEW p \in Procs, NEW u \in UserPages, ClearDirty(p, u)
  PROVE  /\ page_dir[p] # NoEntry /\ page_dir[p].pte[u] \in Entries
         /\ \E e \in Entries : \E n :
              /\ e.frame = page_dir[p].pte[u].frame /\ (e.p <=> page_dir[p].pte[u].p)
              /\ SetIn(n, page_dir[p], u, e)
              /\ page_dir' = [page_dir EXCEPT ![p] = n]
<1>1. page_dir[p] # NoEntry /\ page_dir[p] \in PageDirs /\ page_dir[p].pte[u] \in Entries
  BY EntryOf DEF ClearDirty, UCore
<1> DEFINE o == page_dir[p].pte[u]
           e == [o EXCEPT !.d = FALSE]
           n == [page_dir[p] EXCEPT !.pte[u] = e]
<1>2. e \in Entries /\ e.frame = o.frame /\ (e.p <=> o.p)
  BY <1>1 DEF Entries
<1>3. SetIn(n, page_dir[p], u, e)
  BY <1>1, <1>2 DEF SetIn, PageDirs
<1>4. page_dir' = [page_dir EXCEPT ![p] = n]
  BY <1>1 DEF ClearDirty, UCore, UserTypeOK, PageDirs
<1> HIDE DEF e, n
<1> QED
  BY <1>1, <1>2, <1>3, <1>4

LEMMA EvictDirs ==
  ASSUME UCore, NEW p \in Procs, NEW u \in UserPages, Evict(p, u)
  PROVE  /\ page_dir[p] # NoEntry /\ Maps(page_dir[p], u)
         /\ \E e \in Entries : \E n :
              /\ ~e.p
              /\ SetIn(n, page_dir[p], u, e)
              /\ page_dir' = [page_dir EXCEPT ![p] = n]
<1>1. page_dir[p] # NoEntry
  BY DEF Evict, UCore, DirInv
<1>2. page_dir[p] \in PageDirs /\ page_dir[p].pte[u] \in Entries /\ Maps(page_dir[p], u)
  BY <1>1, EntryOf DEF Evict, UCore, Maps
<1> DEFINE o == page_dir[p].pte[u]
           e == [o EXCEPT !.p = FALSE]
           n == [page_dir[p] EXCEPT !.pte[u] = e]
<1>3. e \in Entries /\ ~e.p
  BY <1>2 DEF Entries
<1>4. SetIn(n, page_dir[p], u, e)
  BY <1>2, <1>3 DEF SetIn, PageDirs
<1>5. page_dir' = [page_dir EXCEPT ![p] = n]
  BY <1>2 DEF Evict, UCore, UserTypeOK, PageDirs
<1> HIDE DEF e, n
<1> QED
  BY <1>1, <1>2, <1>3, <1>4, <1>5

\* One page goes, or there is none left and the directory goes.
LEMMA DestroyDirs ==
  ASSUME UCore, NEW p \in Procs, Destroy(p)
  PROVE  /\ page_dir[p] # NoEntry
         /\ \/ \E u \in UserPages : \E n :
                 /\ Maps(page_dir[p], u)
                 /\ SetIn(n, page_dir[p], u, NoEntry)
                 /\ page_dir' = [page_dir EXCEPT ![p] = n]
                 /\ user_pool' = user_pool \ {FrameOf(page_dir[p], u)}
                 /\ written' = written \ {<<p, u>>} /\ proc' = proc
            \/ /\ \A u \in UserPages : ~Maps(page_dir[p], u)
               /\ page_dir' = [page_dir EXCEPT ![p] = NoEntry]
               /\ user_pool' = user_pool /\ written' = written
               /\ proc' = [proc EXCEPT ![p].at = "dying"]
<1>1. page_dir[p] # NoEntry
  BY DEF Destroy, Runs, UCore, DirInv
<1>2. page_dir[p] \in PageDirs /\ \A u \in UserPages : present(p, u) <=> Maps(page_dir[p], u)
  BY <1>1, EntryOf DEF UCore
<1> DEFINE mapped == {u \in UserPages : present(p, u)}
           m == Min(mapped)
<1>3. CASE /\ mapped # {}
           /\ user_pool' = user_pool \ {page_dir[p].pte[m].frame}
           /\ page_dir' = [page_dir EXCEPT ![p].pte[m] = NoEntry]
           /\ written' = written \ {<<p, m>>}
           /\ proc' = proc
  <2>1. mapped \in SUBSET Nat
    OBVIOUS
  <2>2. m \in mapped
    BY <1>3, <2>1, LeastPage
  <2>3. PICK u \in UserPages : u = m /\ present(p, u)
    BY <2>2
  <2> HIDE DEF m, mapped
  <2> DEFINE n == [page_dir[p] EXCEPT !.pte[u] = NoEntry]
  <2>4. SetIn(n, page_dir[p], u, NoEntry)
    BY <1>2 DEF SetIn, PageDirs
  <2>5. page_dir' = [page_dir EXCEPT ![p] = n]
    BY <1>2, <1>3, <2>3 DEF UCore, UserTypeOK, PageDirs
  <2>6. Maps(page_dir[p], u) /\ user_pool' = user_pool \ {FrameOf(page_dir[p], u)}
    BY <1>2, <1>3, <2>3 DEF FrameOf
  <2> HIDE DEF n
  <2> QED
    BY <1>1, <1>3, <2>3, <2>4, <2>5, <2>6
<1>4. CASE /\ mapped = {}
           /\ page_dir' = [page_dir EXCEPT ![p] = NoEntry]
           /\ proc' = [proc EXCEPT ![p].at = "dying"]
           /\ user_pool' = user_pool /\ written' = written
  <2>1. \A u \in UserPages : ~Maps(page_dir[p], u)
    BY <1>2, <1>4
  <2> HIDE DEF m, mapped
  <2> QED
    BY <1>1, <1>4, <2>1
<1> QED
  BY <1>3, <1>4 DEF Destroy, Goes_to

\* The page that load works on.
LEMMA LoadedPage ==
  ASSUME UCore, NEW p \in Procs
  PROVE  upage(p) \in UserPages /\ writable(p) \in BOOLEAN
<1>1. CASE loads(p)
  <2>1. proc[p].prog \in Programs /\ proc[p].next \in Nat \ {0}
    BY DEF UCore, UserTypeOK, ProcRecords
  <2>2. proc[p].prog[proc[p].next] \in LoadPage
    BY <1>1, <2>1 DEF Programs, loads
  <2> QED
    BY <1>1, <2>2 DEF upage, writable, LoadPage
<1>2. CASE ~loads(p)
  BY <1>2 DEF upage, writable
<1> QED
  BY <1>1, <1>2

\* install_page puts the frame into the page table, or the load fails.
LEMMA InstallDirs ==
  ASSUME UCore, NEW p \in Procs, Install(p)
  PROVE  /\ page_dir[p] # NoEntry
         /\ \/ \E u \in UserPages, e \in Entries : \E n :
                 /\ ~Maps(page_dir[p], u)
                 /\ e.p /\ e.frame = proc[p].kpage /\ ~e.d
                 /\ SetIn(n, page_dir[p], u, e)
                 /\ page_dir' = [page_dir EXCEPT ![p] = n]
                 /\ user_pool' = user_pool /\ written' = written \ {<<p, u>>}
                 /\ \/ proc' = [proc EXCEPT ![p].at = "read"]
                    \/ proc' = [proc EXCEPT ![p].at = "loaded", ![p].kpage = NoEntry,
                                            ![p].prog = <<>>, ![p].next = 1]
            \/ /\ page_dir' = page_dir /\ written' = written
               /\ user_pool' = user_pool \ {proc[p].kpage}
               /\ proc' = [proc EXCEPT ![p].at = "exit"]
<1>0. proc[p].at = "install"
  BY DEF Install, Runs
<1>1. page_dir[p] # NoEntry
  BY <1>0 DEF UCore, DirInv
<1>2. page_dir[p] \in PageDirs
  BY <1>1, EntryOf DEF UCore
<1>3. PICK u \in UserPages : u = upage(p)
  BY LoadedPage
<1>4. PICK w \in BOOLEAN : w = writable(p)
  BY LoadedPage
<1>5. PICK t \in {"low", "top"} : t = page_table(u)
  BY DEF page_table
<1>6. proc[p].kpage \in Frames
  BY <1>0 DEF UCore, FrameInv, OwnFrames
<1> DEFINE e == [frame |-> proc[p].kpage, p |-> TRUE, w |-> w, d |-> FALSE]
           n == [page_dir[p] EXCEPT !.tables = @ \cup {t}, !.pte[u] = e]
<1>7. CASE /\ ~present(p, u)
           /\ page_dir' = [page_dir EXCEPT ![p].tables = @ \cup {t}, ![p].pte[u] = e]
           /\ \/ proc' = [proc EXCEPT ![p].at = "read"]
              \/ proc' = [proc EXCEPT ![p].at = "loaded", ![p].kpage = NoEntry,
                                      ![p].prog = <<>>, ![p].next = 1]
           /\ written' = written \ {<<p, u>>} /\ user_pool' = user_pool
  <2>1. e \in Entries /\ e.p /\ e.frame = proc[p].kpage /\ ~e.d
    BY <1>6 DEF Entries
  <2>2. SetIn(n, page_dir[p], u, e)
    BY <1>2, <2>1 DEF SetIn, PageDirs
  <2>3. page_dir' = [page_dir EXCEPT ![p] = n]
    BY <1>2, <1>7 DEF UCore, UserTypeOK, PageDirs
  <2>4. ~Maps(page_dir[p], u)
    BY <1>1, <1>7, EntryOf DEF UCore
  <2> HIDE DEF e, n
  <2> QED
    BY <1>1, <1>7, <2>1, <2>2, <2>3, <2>4
<1>8. CASE /\ user_pool' = user_pool \ {proc[p].kpage}
           /\ proc' = [proc EXCEPT ![p].at = "exit"]
           /\ page_dir' = page_dir /\ written' = written
  BY <1>1, <1>8
<1> QED
  BY <1>3, <1>4, <1>5, <1>7, <1>8 DEF Install, Goes_to, load_fails

\* How the record of a process changes.
LEMMA ProcChange ==
  ASSUME NEW s \in ProcRecords, NEW at \in ProcPlaces
  PROVE  /\ [s EXCEPT !.at = at] \in ProcRecords
         /\ [s EXCEPT !.at = at, !.pagedir = TRUE] \in ProcRecords
         /\ [s EXCEPT !.at = at, !.kpage = NoEntry, !.prog = <<>>, !.next = 1] \in ProcRecords
         /\ [s EXCEPT !.next = @ + 1, !.kpage = NoEntry, !.at = at] \in ProcRecords
         /\ \A f \in Frames : [s EXCEPT !.kpage = f, !.at = at] \in ProcRecords
         /\ \A u \in UserPages : [s EXCEPT !.touched = u, !.at = at] \in ProcRecords
         /\ \A u \in UserPages \cup {NoEntry} : [s EXCEPT !.reported = u, !.at = at] \in ProcRecords
         /\ new_proc(at, <<>>) \in ProcRecords
         /\ \A prog \in Programs : new_proc(at, prog) \in ProcRecords
<1>1. <<>> \in Programs
  BY DEF Programs
<1>2. /\ [s EXCEPT !.at = at] \in ProcRecords
      /\ [s EXCEPT !.at = at, !.pagedir = TRUE] \in ProcRecords
  BY DEF ProcRecords
<1> DEFINE Later == Nat \ {0}
<1>a. 1 \in Later /\ (s.next \in Later => s.next + 1 \in Later)
  OBVIOUS
<1>b. ProcRecords = [at : ProcPlaces, prog : Programs, next : Later, kpage : Frames \cup {NoEntry},
                     pagedir : BOOLEAN, touched : UserPages \cup {NoEntry},
                     reported : UserPages \cup {NoEntry}]
  BY DEF ProcRecords
<1> HIDE DEF Later
<1>3. [s EXCEPT !.at = at, !.kpage = NoEntry, !.prog = <<>>, !.next = 1] \in ProcRecords
  BY <1>1, <1>a, <1>b
<1>4. [s EXCEPT !.next = @ + 1, !.kpage = NoEntry, !.at = at] \in ProcRecords
  BY <1>a, <1>b
<1>5. \A f \in Frames : [s EXCEPT !.kpage = f, !.at = at] \in ProcRecords
  BY DEF ProcRecords
<1>6. \A u \in UserPages : [s EXCEPT !.touched = u, !.at = at] \in ProcRecords
  BY DEF ProcRecords
<1>7. \A u \in UserPages \cup {NoEntry} : [s EXCEPT !.reported = u, !.at = at] \in ProcRecords
  BY DEF ProcRecords
<1>8. \A prog \in Programs : new_proc(at, prog) \in ProcRecords
  BY DEF ProcRecords, new_proc
<1> QED
  BY <1>1, <1>2, <1>3, <1>4, <1>5, <1>6, <1>7, <1>8

LEMMA ProcTyped ==
  ASSUME UserTypeOK, NEW p \in Procs, NEW s \in ProcRecords, proc' = [proc EXCEPT ![p] = s]
  PROVE  proc' \in [Procs -> ProcRecords]
BY DEF UserTypeOK

\* The types of what a step writes.
LEMMA GoesTo ==
  ASSUME UserTypeOK, NEW p \in Procs, NEW at \in ProcPlaces, Goes_to(p, at)
  PROVE  proc' \in [Procs -> ProcRecords]
<1> DEFINE s == [proc[p] EXCEPT !.at = at]
<1>1. s \in ProcRecords
  BY ProcChange DEF UserTypeOK
<1>2. proc' = [proc EXCEPT ![p] = s]
  BY DEF Goes_to
<1> HIDE DEF s
<1> QED
  BY <1>1, <1>2, ProcTyped

-----------------------------------------------------------------------------
LEMMA UserTypeStep ==
  ASSUME UCore, UserNext, ~freed_in_use', ExecutedAssumption
  PROVE  UserTypeOK'
<1> USE DEF UserTypeOK
<1>0. UserTypeOK
  BY DEF UCore
<1>1. ASSUME NEW p \in Procs, NEW prog \in Executed, process_execute(p, prog)
      PROVE  UserTypeOK'
  <2>1. prog \in Programs
    BY ExecutedAssumption DEF Programs, LoadPage
  <2>2. new_proc("create", prog) \in ProcRecords
    BY <1>0, <2>1, ProcChange DEF ProcPlaces
  <2>3. proc' \in [Procs -> ProcRecords]
    BY <1>0, <1>1, <2>2, ProcTyped DEF process_execute
  <2> QED
    BY <1>0, <1>1, <2>3 DEF process_execute, cpuVars
<1>2. ASSUME NEW p \in Procs, Create(p) PROVE UserTypeOK'
  <2>1. no_dir \in PageDirs
    BY DEF no_dir, PageDirs
  <2>2. page_dir' \in [Procs -> PageDirs \cup {NoEntry}]
    BY <1>0, <1>2, <2>1 DEF Create, load_fails
  <2>3. CASE proc' = [proc EXCEPT ![p].at = "activate", ![p].pagedir = TRUE]
    <3> DEFINE s == [proc[p] EXCEPT !.at = "activate", !.pagedir = TRUE]
    <3>1. s \in ProcRecords
      BY <1>0, ProcChange DEF ProcPlaces
    <3>2. proc' = [proc EXCEPT ![p] = s]
      BY <2>3
    <3> HIDE DEF s
    <3>3. proc' \in [Procs -> ProcRecords]
      BY <1>0, <3>1, <3>2, ProcTyped
    <3> QED
      BY <1>0, <1>2, <2>2, <3>3 DEF Create, load_fails, cpuVars
  <2>4. CASE load_fails(p, user_pool)
    <3>1. proc' \in [Procs -> ProcRecords]
      BY <1>0, <2>4, GoesTo DEF load_fails, ProcPlaces
    <3> QED
      BY <1>0, <1>2, <2>2, <2>4, <3>1 DEF Create, load_fails, cpuVars
  <2> QED
    BY <1>2, <2>3, <2>4 DEF Create
<1>3. ASSUME NEW p \in Procs, Activate(p) PROVE UserTypeOK'
  <2>1. proc' \in [Procs -> ProcRecords]
    BY <1>0, <1>3, GoesTo DEF Activate, ProcPlaces
  <2> QED
    BY <1>0, <1>3, <2>1 DEF Activate, pagedir_activate, no_tlb, poolVars
<1>4. ASSUME NEW p \in Procs, Reject(p) PROVE UserTypeOK'
  <2>1. proc' \in [Procs -> ProcRecords]
    BY <1>0, <1>4, GoesTo DEF Reject, load_fails, ProcPlaces
  <2> QED
    BY <1>0, <1>4, <2>1 DEF Reject, load_fails, cpuVars
<1>5. ASSUME NEW p \in Procs, GetFrame(p) PROVE UserTypeOK'
  <2>1. CASE /\ present(p, upage(p))
             /\ proc' = [proc EXCEPT ![p].kpage = page_dir[p].pte[upage(p)].frame, ![p].at = "read"]
             /\ user_pool' = user_pool
    <3>1. page_dir[p].pte[upage(p)] \in Entries
      <4>1. page_dir[p] # NoEntry
        BY <1>5 DEF GetFrame, Runs, UCore, DirInv
      <4> QED
        BY <2>1, <4>1, LoadedPage, EntryOf DEF present, UCore
    <3>2. PICK f \in Frames : f = page_dir[p].pte[upage(p)].frame
      BY <3>1 DEF Entries
    <3> DEFINE s == [proc[p] EXCEPT !.kpage = f, !.at = "read"]
    <3>3. s \in ProcRecords
      BY <1>0, ProcChange DEF ProcPlaces
    <3>4. proc' = [proc EXCEPT ![p] = s]
      BY <2>1, <3>2
    <3> HIDE DEF s
    <3>5. proc' \in [Procs -> ProcRecords]
      BY <1>0, <3>3, <3>4, ProcTyped
    <3> QED
      BY <1>0, <1>5, <2>1, <3>5 DEF GetFrame, cpuVars
  <2>2. CASE /\ user_pool # Frames
             /\ user_pool' = user_pool \cup {Min(Frames \ user_pool)}
             /\ proc' = [proc EXCEPT ![p].kpage = Min(Frames \ user_pool), ![p].at = "install"]
    <3>1. PICK f \in Frames \ user_pool : f = Min(Frames \ user_pool)
      BY <1>0, <2>2, FreeFrame
    <3> DEFINE s == [proc[p] EXCEPT !.kpage = f, !.at = "install"]
    <3>2. s \in ProcRecords
      BY <1>0, ProcChange DEF ProcPlaces
    <3>3. proc' = [proc EXCEPT ![p] = s]
      BY <2>2, <3>1
    <3> HIDE DEF s
    <3>4. proc' \in [Procs -> ProcRecords]
      BY <1>0, <3>2, <3>3, ProcTyped
    <3> QED
      BY <1>0, <1>5, <2>2, <3>1, <3>4 DEF GetFrame, cpuVars
  <2>3. CASE load_fails(p, user_pool)
    <3>1. proc' \in [Procs -> ProcRecords]
      BY <1>0, <2>3, GoesTo DEF load_fails, ProcPlaces
    <3> QED
      BY <1>0, <1>5, <2>3, <3>1 DEF GetFrame, load_fails, cpuVars
  <2> QED
    BY <1>5, <2>1, <2>2, <2>3 DEF GetFrame, poolVars
<1>6. ASSUME NEW p \in Procs, Install(p) PROVE UserTypeOK'
  <2>1. UNCHANGED <<running, cr3, esp0, intr_off, freed_in_use, tlb, cr2>>
    BY <1>6 DEF Install, cpuVars
  <2>2. ASSUME NEW n \in PageDirs, page_dir' = [page_dir EXCEPT ![p] = n]
        PROVE  page_dir' \in [Procs -> PageDirs \cup {NoEntry}]
    BY <1>0, <2>2
  <2>3. page_dir' \in [Procs -> PageDirs \cup {NoEntry}]
    <3>1. page_dir' = page_dir \/ \E n \in PageDirs : page_dir' = [page_dir EXCEPT ![p] = n]
      BY <1>6, InstallDirs DEF SetIn
    <3> QED
      BY <1>0, <2>2, <3>1
  <2>4. proc' \in [Procs -> ProcRecords]
    <3>1. CASE Goes_to(p, "read") \/ Goes_to(p, "exit")
      BY <1>0, <3>1, GoesTo DEF ProcPlaces
    <3>2. CASE proc' = [proc EXCEPT ![p].at = "loaded", ![p].kpage = NoEntry,
                                    ![p].prog = <<>>, ![p].next = 1]
      <4> DEFINE s == [proc[p] EXCEPT !.at = "loaded", !.kpage = NoEntry, !.prog = <<>>, !.next = 1]
      <4>1. s \in ProcRecords
        BY <1>0, ProcChange DEF ProcPlaces
      <4>2. proc' = [proc EXCEPT ![p] = s]
        BY <3>2
      <4> HIDE DEF s
      <4> QED
        BY <1>0, <4>1, <4>2, ProcTyped
    <3> QED
      BY <1>6, <3>1, <3>2, InstallDirs DEF Goes_to
  <2>5. written' \subseteq written /\ user_pool' \subseteq user_pool
    BY <1>6, InstallDirs
  <2> QED
    BY <1>0, <2>1, <2>3, <2>4, <2>5
<1>7. ASSUME NEW p \in Procs, ReadPage(p) PROVE UserTypeOK'
  <2>1. /\ proc' = [proc EXCEPT ![p].next = @ + 1, ![p].kpage = NoEntry, ![p].at = "page"]
        /\ user_pool' = user_pool
    BY <1>7 DEF ReadPage, poolVars
  <2>2. proc' \in [Procs -> ProcRecords]
    <3> DEFINE s == [proc[p] EXCEPT !.next = @ + 1, !.kpage = NoEntry, !.at = "page"]
    <3>1. s \in ProcRecords
      BY <1>0, ProcChange DEF ProcPlaces
    <3>2. proc' = [proc EXCEPT ![p] = s]
      BY <2>1
    <3> HIDE DEF s
    <3> QED
      BY <1>0, <3>1, <3>2, ProcTyped
  <2> QED
    BY <1>0, <1>7, <2>1, <2>2 DEF ReadPage, cpuVars
<1>8. ASSUME NEW p \in Procs, Start(p) PROVE UserTypeOK'
  <2>1. proc' \in [Procs -> ProcRecords]
    BY <1>0, <1>8, GoesTo DEF Start, ProcPlaces
  <2> QED
    BY <1>0, <1>8, <2>1 DEF Start, cpuVars
<1>9. ASSUME NEW p \in Procs, NEW u \in UserPages, NEW write \in BOOLEAN, Access(p, u, write)
      PROVE  UserTypeOK'
  <2>1. /\ UNCHANGED <<user_pool, running, cr3, esp0, intr_off, freed_in_use, cr2, proc>>
        /\ written' = IF write THEN written \cup {<<p, u>>} ELSE written
    BY <1>9 DEF Access, poolVars
  <2>2. page_dir' \in [Procs -> PageDirs \cup {NoEntry}]
    BY <1>0, <1>9, AccessDirs DEF SetIn
  <2>3. tlb' \in [UserPages -> Translations \cup {NoEntry}]
    BY <1>0, <1>9, AccessDirs
  <2> QED
    BY <1>0, <2>1, <2>2, <2>3
<1>10. ASSUME NEW p \in Procs, NEW u \in UserPages, NEW write \in BOOLEAN, Fault(p, u, write)
       PROVE  UserTypeOK'
  <2>1. proc' \in [Procs -> ProcRecords]
    <3> DEFINE s == [proc[p] EXCEPT !.touched = u, !.at = "fault"]
    <3>1. s \in ProcRecords
      BY <1>0, ProcChange DEF ProcPlaces
    <3>2. proc' = [proc EXCEPT ![p] = s]
      BY <1>10 DEF Fault
    <3> HIDE DEF s
    <3> QED
      BY <1>0, <3>1, <3>2, ProcTyped
  <2> QED
    BY <1>0, <1>10, <2>1 DEF Fault, poolVars, gate_off
<1>11. ASSUME NEW p \in Procs, page_fault(p) PROVE UserTypeOK'
  <2>1. proc' \in [Procs -> ProcRecords]
    <3> DEFINE s == [proc[p] EXCEPT !.reported = cr2, !.at = "exit"]
    <3>1. s \in ProcRecords
      BY <1>0, ProcChange DEF ProcPlaces
    <3>2. proc' = [proc EXCEPT ![p] = s]
      BY <1>11 DEF page_fault
    <3> HIDE DEF s
    <3> QED
      BY <1>0, <3>1, <3>2, ProcTyped
  <2> QED
    BY <1>0, <1>11, <2>1 DEF page_fault, poolVars
<1>12. ASSUME NEW p \in Procs, kill(p) PROVE UserTypeOK'
  <2>1. proc' \in [Procs -> ProcRecords]
    BY <1>0, <1>12, GoesTo DEF kill, ProcPlaces
  <2> QED
    BY <1>0, <1>12, <2>1 DEF kill, poolVars, cpuVars
<1>13. ASSUME NEW p \in Procs, Exit(p) PROVE UserTypeOK'
  <2>1. PICK at \in ProcPlaces : at = IF proc[p].pagedir THEN "exit_activate" ELSE "dying"
    BY DEF ProcPlaces
  <2> DEFINE s == new_proc(at, <<>>)
  <2>2. s \in ProcRecords /\ proc' = [proc EXCEPT ![p] = s]
    BY <1>0, <1>13, <2>1, ProcChange DEF Exit
  <2> HIDE DEF s
  <2>3. proc' \in [Procs -> ProcRecords]
    BY <1>0, <2>2, ProcTyped
  <2> QED
    BY <1>0, <1>13, <2>3 DEF Exit, poolVars, cpuVars
<1>14. ASSUME NEW p \in Procs, ExitActivate(p) PROVE UserTypeOK'
  <2>1. proc' \in [Procs -> ProcRecords]
    BY <1>0, <1>14, GoesTo DEF ExitActivate, ProcPlaces
  <2> QED
    BY <1>0, <1>14, <2>1 DEF ExitActivate, pagedir_activate, no_tlb, poolVars
<1>15. ASSUME NEW p \in Procs, Destroy(p) PROVE UserTypeOK'
  <2>1. UNCHANGED <<running, cr3, esp0, intr_off, freed_in_use, tlb, cr2>>
    BY <1>15 DEF Destroy, cpuVars
  <2>2. page_dir' \in [Procs -> PageDirs \cup {NoEntry}]
    BY <1>0, <1>15, DestroyDirs DEF SetIn
  <2>3. proc' \in [Procs -> ProcRecords]
    BY <1>0, <1>15, DestroyDirs, GoesTo DEF Goes_to, ProcPlaces
  <2>4. written' \subseteq written /\ user_pool' \subseteq user_pool
    BY <1>15, DestroyDirs
  <2> QED
    BY <1>0, <2>1, <2>2, <2>3, <2>4
<1>16. ASSUME NEW p \in Procs, NEW u \in UserPages, ClearDirty(p, u) PROVE UserTypeOK'
  <2>1. page_dir' \in [Procs -> PageDirs \cup {NoEntry}]
    BY <1>0, <1>16, ClearDirtyDirs DEF SetIn
  <2> QED
    BY <1>0, <1>16, <2>1 DEF ClearDirty, invalidated, no_tlb, poolVars
<1>17. ASSUME NEW p \in Procs, NEW u \in UserPages, Evict(p, u) PROVE UserTypeOK'
  <2>1. page_dir' \in [Procs -> PageDirs \cup {NoEntry}]
    BY <1>0, <1>17, EvictDirs DEF SetIn
  <2> QED
    BY <1>0, <1>17, <2>1 DEF Evict, invalidated, no_tlb
<1>18. ASSUME NEW p \in Procs \cup {"init"}, Switch(p) PROVE UserTypeOK'
  <2>1. proc' \in [Procs -> ProcRecords]
    BY <1>0, <1>18, GoesTo DEF Switch, ProcPlaces
  <2> QED
    BY <1>0, <1>18, <2>1 DEF Switch, pagedir_activate, no_tlb
<1> QED
  BY <1>1, <1>2, <1>3, <1>4, <1>5, <1>6, <1>7, <1>8, <1>9, <1>10, <1>11, <1>12, <1>13, <1>14,
     <1>15, <1>16, <1>17, <1>18 DEF UserNext, ProcessStep

-----------------------------------------------------------------------------
\* What a step does to the processes: p moves, the others stay.

\* p is at another place now, and has the same page directory; the others are where they were.
Stays(q) == proc'[q] = proc[q]
Others(p) == \A q \in Procs : q # p => Stays(q)
MovesOn(p, at) ==
  /\ proc'[p].at = at /\ proc'[p].pagedir = proc[p].pagedir
  /\ proc'[p].touched = proc[p].touched /\ proc'[p].reported = proc[p].reported
  /\ Others(p)
StartsOver(p, at) ==
  /\ proc'[p].at = at /\ ~proc'[p].pagedir
  /\ proc'[p].touched = NoEntry /\ proc'[p].reported = NoEntry
  /\ Others(p)

LEMMA MovedTo ==
  ASSUME UserTypeOK, NEW p \in Procs, NEW at, Goes_to(p, at)
  PROVE  MovesOn(p, at)
BY DEF UserTypeOK, Goes_to, MovesOn, Others, Stays, ProcRecords

LEMMA ExecuteMoves ==
  ASSUME UserTypeOK, NEW p \in Procs, NEW prog, process_execute(p, prog)
  PROVE  StartsOver(p, "create")
BY DEF UserTypeOK, process_execute, new_proc, StartsOver, Others, Stays

LEMMA CreateMoves ==
  ASSUME UserTypeOK, NEW p \in Procs, Create(p)
  PROVE  \/ MovesOn(p, "exit") /\ page_dir' = page_dir
         \/ /\ proc'[p].at = "activate" /\ proc'[p].pagedir
            /\ proc'[p].touched = proc[p].touched /\ proc'[p].reported = proc[p].reported
            /\ Others(p)
            /\ page_dir' = [page_dir EXCEPT ![p] = no_dir]
<1>1. CASE proc' = [proc EXCEPT ![p].at = "activate", ![p].pagedir = TRUE]
           /\ page_dir' = [page_dir EXCEPT ![p] = no_dir]
  BY <1>1 DEF UserTypeOK, Others, Stays, ProcRecords
<1>2. CASE Goes_to(p, "exit") /\ page_dir' = page_dir
  BY <1>2, MovedTo
<1> QED
  BY <1>1, <1>2 DEF Create, load_fails

LEMMA GetFrameMoves ==
  ASSUME UserTypeOK, NEW p \in Procs, GetFrame(p)
  PROVE  \/ MovesOn(p, "read") /\ user_pool' = user_pool
         \/ MovesOn(p, "exit") /\ user_pool' = user_pool
         \/ /\ MovesOn(p, "install")
            /\ \E f \in Frames \ user_pool : proc'[p].kpage = f /\ user_pool' = user_pool \cup {f}
<1>1. ASSUME NEW f, proc' = [proc EXCEPT ![p].kpage = f, ![p].at = "read"]
      PROVE  MovesOn(p, "read")
  BY <1>1 DEF UserTypeOK, MovesOn, Others, Stays, ProcRecords
<1>2. ASSUME NEW f, proc' = [proc EXCEPT ![p].kpage = f, ![p].at = "install"]
      PROVE  MovesOn(p, "install") /\ proc'[p].kpage = f
  BY <1>2 DEF UserTypeOK, MovesOn, Others, Stays, ProcRecords
<1>3. CASE /\ proc' = [proc EXCEPT ![p].kpage = page_dir[p].pte[upage(p)].frame, ![p].at = "read"]
           /\ user_pool' = user_pool
  BY <1>1, <1>3
<1>4. CASE /\ user_pool # Frames /\ user_pool' = user_pool \cup {Min(Frames \ user_pool)}
           /\ proc' = [proc EXCEPT ![p].kpage = Min(Frames \ user_pool), ![p].at = "install"]
  <2>1. PICK f \in Frames \ user_pool : f = Min(Frames \ user_pool)
    BY <1>4, FreeFrame DEF UserTypeOK
  <2> QED
    BY <1>2, <1>4, <2>1
<1>5. CASE Goes_to(p, "exit") /\ user_pool' = user_pool
  BY <1>5, MovedTo
<1> QED
  BY <1>3, <1>4, <1>5 DEF GetFrame, load_fails, poolVars

LEMMA LoadedMoves ==
  ASSUME UserTypeOK, NEW p \in Procs,
         proc' = [proc EXCEPT ![p].at = "loaded", ![p].kpage = NoEntry, ![p].prog = <<>>,
                              ![p].next = 1]
  PROVE  MovesOn(p, "loaded")
BY DEF UserTypeOK, MovesOn, Others, Stays, ProcRecords

LEMMA ReadMoves ==
  ASSUME UserTypeOK, NEW p \in Procs, ReadPage(p), ~freed_in_use'
  PROVE  MovesOn(p, "page") /\ user_pool' = user_pool
<1>1. /\ proc' = [proc EXCEPT ![p].next = @ + 1, ![p].kpage = NoEntry, ![p].at = "page"]
      /\ user_pool' = user_pool
  BY DEF ReadPage, poolVars
<1> QED
  BY <1>1 DEF UserTypeOK, MovesOn, Others, Stays, ProcRecords

LEMMA FaultMoves ==
  ASSUME UserTypeOK, NEW p \in Procs, NEW u \in UserPages, NEW write, Fault(p, u, write)
  PROVE  /\ proc'[p].at = "fault" /\ proc'[p].pagedir = proc[p].pagedir
         /\ proc'[p].touched = u /\ proc'[p].reported = proc[p].reported
         /\ Others(p)
BY DEF UserTypeOK, Fault, Others, Stays, ProcRecords

LEMMA page_faultMoves ==
  ASSUME UserTypeOK, NEW p \in Procs, page_fault(p)
  PROVE  /\ proc'[p].at = "exit" /\ proc'[p].pagedir = proc[p].pagedir
         /\ proc'[p].touched = proc[p].touched /\ proc'[p].reported = cr2
         /\ Others(p)
BY DEF UserTypeOK, page_fault, Others, Stays, ProcRecords

LEMMA ExitMoves ==
  ASSUME UserTypeOK, NEW p \in Procs, Exit(p)
  PROVE  StartsOver(p, IF proc[p].pagedir THEN "exit_activate" ELSE "dying")
BY DEF UserTypeOK, Exit, new_proc, StartsOver, Others, Stays

-----------------------------------------------------------------------------
\* What a step may do with the frames.

SameFrames(q) ==
  /\ OwnFrames(page_dir[q], proc[q]) => OwnFrames(page_dir'[q], proc'[q])
  /\ \A f \in Frames : Holds(page_dir'[q], proc'[q], f) <=> Holds(page_dir[q], proc[q], f)

LEMMA FramesSame ==
  ASSUME FrameInv, user_pool' = user_pool, \A q \in Procs : SameFrames(q)
  PROVE  FrameInv'
BY DEF FrameInv, SameFrames

\* A process gets a frame that was free.
LEMMA FramesGot ==
  ASSUME FrameInv, NEW p \in Procs, NEW f \in Frames \ user_pool, user_pool' = user_pool \cup {f},
         \A q \in Procs : q # p => SameFrames(q),
         OwnFrames(page_dir'[p], proc'[p]),
         \A g \in Frames :
           Holds(page_dir'[p], proc'[p], g) <=> Holds(page_dir[p], proc[p], g) \/ g = f
  PROVE  FrameInv'
<1>1. \A q \in Procs : ~Holds(page_dir[q], proc[q], f)
  BY DEF FrameInv
<1>2. \A q \in Procs : OwnFrames(page_dir'[q], proc'[q])
  BY DEF FrameInv, SameFrames
<1>3. \A q, r \in Procs : q # r => \A g \in Frames :
        ~(Holds(page_dir'[q], proc'[q], g) /\ Holds(page_dir'[r], proc'[r], g))
  BY <1>1 DEF FrameInv, SameFrames
<1>4. \A g \in Frames : g \in user_pool' <=> \E q \in Procs : Holds(page_dir'[q], proc'[q], g)
  BY <1>1 DEF FrameInv, SameFrames
<1> QED
  BY <1>2, <1>3, <1>4 DEF FrameInv

\* A process loses a frame that it had.
LEMMA FramesLost ==
  ASSUME FrameInv, NEW p \in Procs, NEW f \in Frames, user_pool' = user_pool \ {f},
         Holds(page_dir[p], proc[p], f),
         \A q \in Procs : q # p => SameFrames(q),
         OwnFrames(page_dir'[p], proc'[p]),
         \A g \in Frames :
           Holds(page_dir'[p], proc'[p], g) <=> Holds(page_dir[p], proc[p], g) /\ g # f
  PROVE  FrameInv'
<1>1. \A q \in Procs : q # p => ~Holds(page_dir[q], proc[q], f)
  BY DEF FrameInv
<1>2. \A q \in Procs : OwnFrames(page_dir'[q], proc'[q])
  BY DEF FrameInv, SameFrames
<1>3. \A q, r \in Procs : q # r => \A g \in Frames :
        ~(Holds(page_dir'[q], proc'[q], g) /\ Holds(page_dir'[r], proc'[r], g))
  BY DEF FrameInv, SameFrames
<1>4. \A g \in Frames : g \in user_pool' <=> \E q \in Procs : Holds(page_dir'[q], proc'[q], g)
  BY <1>1 DEF FrameInv, SameFrames
<1> QED
  BY <1>2, <1>3, <1>4 DEF FrameInv

\* A process whose page table has the same frames, and that is not about to install one.
LEMMA SameMaps ==
  ASSUME NEW q \in Procs,
         \A u \in UserPages : Maps(page_dir'[q], u) <=> Maps(page_dir[q], u),
         \A u \in UserPages : Maps(page_dir[q], u) => FrameOf(page_dir'[q], u) = FrameOf(page_dir[q], u),
         Stays(q) \/ (proc[q].at # "install" /\ proc'[q].at # "install")
  PROVE  SameFrames(q)
<1>1. OwnFrames(page_dir[q], proc[q]) => OwnFrames(page_dir'[q], proc'[q])
  BY DEF OwnFrames, Stays
<1>2. \A f \in Frames : Holds(page_dir'[q], proc'[q], f) <=> Holds(page_dir[q], proc[q], f)
  BY DEF Holds, Stays
<1> QED
  BY <1>1, <1>2 DEF SameFrames

LEMMA SameDirs ==
  ASSUME NEW q \in Procs, page_dir'[q] = page_dir[q],
         Stays(q) \/ (proc[q].at # "install" /\ proc'[q].at # "install")
  PROVE  SameFrames(q)
BY SameMaps

\* No process but p is touched, nor what p has.
LEMMA FramesKept ==
  ASSUME FrameInv, user_pool' = user_pool, page_dir' = page_dir, NEW p \in Procs, Others(p),
         proc[p].at # "install" /\ proc'[p].at # "install"
  PROVE  FrameInv'
<1>1. \A q \in Procs : SameFrames(q)
  BY SameDirs DEF Others
<1> QED
  BY <1>1, FramesSame

-----------------------------------------------------------------------------
\* One step at a time.

UKept == DirInv /\ CpuInv /\ FaultInv /\ FrameInv /\ TlbInv

\* The process goes on, or gives up, and nothing else changes.
LEMMA QuietKeeps ==
  ASSUME UCore, NEW p \in Procs, running = p,
         proc[p].at \in {"create", "page", "read", "loaded", "user"}, NEW at, MovesOn(p, at),
         proc[p].at # "create" => at \in {"page", "read", "loaded", "user", "exit"},
         proc[p].at = "create" => at = "exit",
         user_pool' = user_pool, UNCHANGED cpuVars, page_dir' = page_dir, written' = written
  PROVE  UKept'
<1> USE DEF UCore, cpuVars
<1>1. DirInv'
  BY DEF DirInv, MovesOn, Others, Stays
<1>2. CpuInv'
  BY DEF CpuInv, DirInv, MovesOn, Others, Stays
<1>3. FaultInv'
  BY DEF FaultInv, MovesOn, Others, Stays
<1>4. FrameInv'
  BY FramesKept DEF MovesOn
<1>5. TlbInv'
  BY DEF TlbInv
<1> QED
  BY <1>1, <1>2, <1>3, <1>4, <1>5 DEF UKept

LEMMA ExecuteKeeps ==
  ASSUME UCore, NEW p \in Procs, NEW prog, process_execute(p, prog)
  PROVE  UKept'
<1> USE DEF UCore, cpuVars
<1>0. /\ running = "init" /\ proc[p].at = "none" /\ StartsOver(p, "create")
      /\ user_pool' = user_pool /\ UNCHANGED cpuVars /\ page_dir' = page_dir /\ written' = written
  BY ExecuteMoves DEF process_execute
<1>1. DirInv'
  BY <1>0 DEF DirInv, StartsOver, Others, Stays
<1>2. CpuInv'
  BY <1>0 DEF CpuInv, DirInv, StartsOver, Others, Stays
<1>3. FaultInv'
  BY <1>0 DEF FaultInv, StartsOver, Others, Stays
<1>4. FrameInv'
  BY <1>0, FramesKept DEF StartsOver
<1>5. TlbInv'
  BY <1>0 DEF TlbInv
<1> QED
  BY <1>1, <1>2, <1>3, <1>4, <1>5 DEF UKept

LEMMA NoMaps ==
  \A u \in UserPages : ~Maps(no_dir, u) /\ ~Maps(NoEntry, u)
BY DEF Maps, no_dir

LEMMA CreateKeeps ==
  ASSUME UCore, NEW p \in Procs, Create(p)
  PROVE  UKept'
<1> USE DEF UCore, cpuVars
<1>0. /\ running = p /\ proc[p].at = "create"
      /\ user_pool' = user_pool /\ UNCHANGED cpuVars /\ written' = written
  BY DEF Create, Runs, load_fails
<1>1. CASE MovesOn(p, "exit") /\ page_dir' = page_dir
  BY <1>0, <1>1, QuietKeeps
<1>2. CASE /\ proc'[p].at = "activate" /\ proc'[p].pagedir
           /\ proc'[p].touched = proc[p].touched /\ proc'[p].reported = proc[p].reported
           /\ Others(p)
           /\ page_dir' = [page_dir EXCEPT ![p] = no_dir]
  <2>0. page_dir[p] = NoEntry /\ cr3 = "init" /\ tlb = no_tlb
    BY <1>0 DEF DirInv, CpuInv
  <2>1. /\ \A q \in Procs : q # p => page_dir'[q] = page_dir[q]
        /\ page_dir'[p] = no_dir /\ no_dir # NoEntry
    <3>1. no_dir \in PageDirs
      BY DEF no_dir, PageDirs
    <3> QED
      BY <1>2, <3>1 DEF UserTypeOK
  <2>2. DirInv'
    BY <1>0, <1>2, <2>1 DEF DirInv, Others, Stays
  <2>3. CpuInv'
    BY <1>0, <1>2, <2>0 DEF CpuInv, DirInv, Others, Stays
  <2>4. FaultInv'
    BY <1>0, <1>2 DEF FaultInv, Others, Stays
  <2>5. FrameInv'
    <3>1. SameFrames(p)
      BY <1>0, <1>2, <2>0, <2>1, NoMaps, SameMaps
    <3>2. \A q \in Procs : SameFrames(q)
      BY <1>2, <2>1, <3>1, SameDirs DEF Others
    <3> QED
      BY <1>0, <3>2, FramesSame
  <2>6. TlbInv'
    <3>1. \A u \in UserPages : tlb'[u] = NoEntry
      BY <1>0, <2>0 DEF no_tlb
    <3>2. \A q \in Procs : \A u \in UserPages :
             (Maps(page_dir'[q], u) /\ <<q, u>> \in written' => page_dir'[q].pte[u].d)
      BY <1>0, <2>1, NoMaps DEF TlbInv
    <3> QED
      BY <3>1, <3>2 DEF TlbInv
  <2> QED
    BY <2>2, <2>3, <2>4, <2>5, <2>6 DEF UKept
<1> QED
  BY <1>1, <1>2, CreateMoves

LEMMA ActivateKeeps ==
  ASSUME UCore, NEW p \in Procs, Activate(p)
  PROVE  UKept'
<1> USE DEF UCore
<1>0. /\ running = p /\ proc[p].at = "activate" /\ MovesOn(p, "page")
      /\ cr3' = p /\ tlb' = no_tlb /\ esp0' = p /\ UNCHANGED <<running, intr_off, cr2>>
      /\ user_pool' = user_pool /\ page_dir' = page_dir /\ written' = written
  BY MovedTo DEF Activate, Runs, pagedir_activate, poolVars
<1>1. DirInv'
  BY <1>0 DEF DirInv, MovesOn, Others, Stays
<1>2. CpuInv'
  BY <1>0 DEF CpuInv, DirInv, MovesOn, Others, Stays
<1>3. FaultInv'
  BY <1>0 DEF FaultInv, MovesOn, Others, Stays
<1>4. FrameInv'
  BY <1>0, FramesKept DEF MovesOn
<1>5. TlbInv'
  BY <1>0 DEF TlbInv, no_tlb
<1> QED
  BY <1>1, <1>2, <1>3, <1>4, <1>5 DEF UKept

LEMMA GetFrameKeeps ==
  ASSUME UCore, NEW p \in Procs, GetFrame(p)
  PROVE  UKept'
<1> USE DEF UCore, cpuVars
<1>0. /\ running = p /\ proc[p].at = "page"
      /\ UNCHANGED cpuVars /\ page_dir' = page_dir /\ written' = written
  BY DEF GetFrame, Runs
<1>1. CASE (MovesOn(p, "read") \/ MovesOn(p, "exit")) /\ user_pool' = user_pool
  BY <1>0, <1>1, QuietKeeps
<1>2. CASE /\ MovesOn(p, "install")
           /\ \E f \in Frames \ user_pool : proc'[p].kpage = f /\ user_pool' = user_pool \cup {f}
  <2>1. DirInv'
    BY <1>0, <1>2 DEF DirInv, MovesOn, Others, Stays
  <2>2. CpuInv'
    BY <1>0, <1>2 DEF CpuInv, DirInv, MovesOn, Others, Stays
  <2>3. FaultInv'
    BY <1>0, <1>2 DEF FaultInv, MovesOn, Others, Stays
  <2>4. PICK f \in Frames \ user_pool : proc'[p].kpage = f /\ user_pool' = user_pool \cup {f}
    BY <1>2
  <2>5. \A u \in UserPages : Maps(page_dir[p], u) => FrameOf(page_dir[p], u) # f
    <3>1. ~Holds(page_dir[p], proc[p], f)
      BY DEF FrameInv
    <3> QED
      BY <3>1 DEF Holds
  <2>6. OwnFrames(page_dir'[p], proc'[p])
    BY <1>0, <1>2, <2>4, <2>5 DEF FrameInv, OwnFrames, MovesOn
  <2>7. \A g \in Frames :
           Holds(page_dir'[p], proc'[p], g) <=> Holds(page_dir[p], proc[p], g) \/ g = f
    BY <1>0, <1>2, <2>4 DEF Holds, MovesOn
  <2>8. \A q \in Procs : q # p => SameFrames(q)
    BY <1>0, <1>2, SameDirs DEF MovesOn, Others
  <2>9. FrameInv'
    BY <2>4, <2>6, <2>7, <2>8, FramesGot
  <2>10. TlbInv'
    BY <1>0 DEF TlbInv
  <2> QED
    BY <2>1, <2>2, <2>3, <2>9, <2>10 DEF UKept
<1> QED
  BY <1>1, <1>2, GetFrameMoves

LEMMA InstallKeeps ==
  ASSUME UCore, NEW p \in Procs, Install(p)
  PROVE  UKept'
<1> USE DEF UCore, cpuVars
<1>0. /\ running = p /\ proc[p].at = "install" /\ UNCHANGED cpuVars /\ proc[p].kpage \in Frames
      /\ page_dir[p] # NoEntry
  BY InstallDirs DEF Install, Runs, FrameInv, OwnFrames
<1> DEFINE f == proc[p].kpage
<1>1. ASSUME NEW at \in {"read", "loaded", "exit"}, MovesOn(p, at),
             \A q \in Procs : page_dir'[q] # NoEntry <=> page_dir[q] # NoEntry
      PROVE  DirInv' /\ CpuInv' /\ FaultInv'
  <2>1. DirInv'
    BY <1>0, <1>1 DEF DirInv, MovesOn, Others, Stays
  <2>2. CpuInv'
    BY <1>0, <1>1 DEF CpuInv, DirInv, MovesOn, Others, Stays
  <2>3. FaultInv'
    BY <1>0, <1>1 DEF FaultInv, MovesOn, Others, Stays
  <2> QED
    BY <2>1, <2>2, <2>3
<1>2. ASSUME NEW u \in UserPages, NEW e \in Entries, NEW n,
             ~Maps(page_dir[p], u), e.p, e.frame = f, ~e.d,
             SetIn(n, page_dir[p], u, e), page_dir' = [page_dir EXCEPT ![p] = n],
             user_pool' = user_pool, written' = written \ {<<p, u>>},
             NEW at \in {"read", "loaded"}, MovesOn(p, at)
      PROVE  UKept'
  <2>0. e # NoEntry
    BY NoEntryAssumption
  <2>1. /\ \A q \in Procs : q # p => page_dir'[q] = page_dir[q]
        /\ page_dir'[p] # NoEntry /\ page_dir'[p].pte[u] = e
        /\ \A v \in UserPages : v # u => page_dir'[p].pte[v] = page_dir[p].pte[v]
        /\ \A v \in UserPages : v # u => (Maps(page_dir'[p], v) <=> Maps(page_dir[p], v))
        /\ Maps(page_dir'[p], u)
    <3>1. /\ page_dir[p] # NoEntry /\ UserTypeOK
          /\ SetIn(n, page_dir[p], u, e) /\ page_dir' = [page_dir EXCEPT ![p] = n]
      BY <1>0, <1>2
    <3> HIDE DEF UCore
    <3>2. /\ \A q \in Procs : q # p => page_dir'[q] = page_dir[q]
          /\ page_dir'[p] # NoEntry /\ page_dir'[p].pte[u] = e
          /\ \A v \in UserPages : v # u => page_dir'[p].pte[v] = page_dir[p].pte[v]
          /\ \A v \in UserPages : v # u => (Maps(page_dir'[p], v) <=> Maps(page_dir[p], v))
      BY <3>1 DEF UserTypeOK, SetIn, Maps
    <3>3. Maps(page_dir'[p], u)
      BY <1>2, <2>0, <3>2 DEF Maps
    <3> QED
      BY <3>2, <3>3
  <2>2. /\ FrameOf(page_dir'[p], u) = f
        /\ \A v \in UserPages : v # u => FrameOf(page_dir'[p], v) = FrameOf(page_dir[p], v)
    BY <1>2, <2>1 DEF FrameOf
  <2>3. DirInv' /\ CpuInv' /\ FaultInv'
    BY <1>0, <1>1, <1>2, <2>1
  <2>4. SameFrames(p)
    <3>1. OwnFrames(page_dir'[p], proc'[p])
      BY <1>0, <1>2, <2>1, <2>2 DEF FrameInv, OwnFrames, MovesOn
    <3>2. \A g \in Frames : Holds(page_dir'[p], proc'[p], g) <=> Holds(page_dir[p], proc[p], g)
      BY <1>0, <1>2, <2>1, <2>2 DEF Holds, MovesOn
    <3> QED
      BY <3>1, <3>2 DEF SameFrames
  <2>5. \A q \in Procs : SameFrames(q)
    BY <1>2, <2>1, <2>4, SameDirs DEF MovesOn, Others
  <2>6. FrameInv'
    BY <1>2, <2>5, FramesSame
  <2>7. \A v \in UserPages : tlb'[v] # NoEntry =>
           /\ cr3' # "init" /\ Maps(page_dir'[cr3'], v)
           /\ FrameOf(page_dir'[cr3'], v) = tlb'[v].frame
           /\ tlb'[v].d => page_dir'[cr3'].pte[v].d
    BY <1>0, <1>2, <2>1, <2>2 DEF TlbInv, CpuInv
  <2>8. \A q \in Procs : \A v \in UserPages :
           Maps(page_dir'[q], v) /\ <<q, v>> \in written' => page_dir'[q].pte[v].d
    BY <1>2, <2>1 DEF TlbInv
  <2>9. TlbInv'
    BY <2>7, <2>8 DEF TlbInv
  <2> QED
    BY <2>3, <2>6, <2>9 DEF UKept
<1>3. CASE /\ page_dir' = page_dir /\ written' = written
           /\ user_pool' = user_pool \ {f}
           /\ MovesOn(p, "exit")
  <2>1. DirInv' /\ CpuInv' /\ FaultInv'
    BY <1>1, <1>3
  <2>2. \A q \in Procs : q # p => SameFrames(q)
    BY <1>3, SameDirs DEF MovesOn, Others
  <2>3. OwnFrames(page_dir'[p], proc'[p])
    BY <1>0, <1>3 DEF FrameInv, OwnFrames, MovesOn
  <2>4. Holds(page_dir[p], proc[p], f)
    BY <1>0 DEF Holds
  <2>5. \A g \in Frames :
           Holds(page_dir'[p], proc'[p], g) <=> Holds(page_dir[p], proc[p], g) /\ g # f
    BY <1>0, <1>3 DEF Holds, MovesOn, FrameInv, OwnFrames
  <2> HIDE DEF f
  <2>6. FrameInv'
    <3>1. f \in Frames
      BY <1>0 DEF f
    <3> QED
      BY <1>3, <2>2, <2>3, <2>4, <2>5, <3>1, FramesLost
  <2>7. TlbInv'
    BY <1>0, <1>3 DEF TlbInv
  <2> QED
    BY <2>1, <2>6, <2>7 DEF UKept
<1>4. /\ Goes_to(p, "read") => MovesOn(p, "read")
      /\ Goes_to(p, "exit") => MovesOn(p, "exit")
      /\ proc' = [proc EXCEPT ![p].at = "loaded", ![p].kpage = NoEntry, ![p].prog = <<>>,
                              ![p].next = 1] => MovesOn(p, "loaded")
  BY MovedTo, LoadedMoves
<1>5. CASE \E u \in UserPages, e \in Entries : \E n :
             /\ ~Maps(page_dir[p], u)
             /\ e.p /\ e.frame = f /\ ~e.d
             /\ SetIn(n, page_dir[p], u, e)
             /\ page_dir' = [page_dir EXCEPT ![p] = n]
             /\ user_pool' = user_pool /\ written' = written \ {<<p, u>>}
             /\ MovesOn(p, "read") \/ MovesOn(p, "loaded")
  BY <1>2, <1>5
<1> QED
  BY <1>3, <1>4, <1>5, InstallDirs DEF Goes_to

\* The steps that only take the process further.
LEMMA GoingKeeps ==
  ASSUME UCore, NEW p \in Procs, ~freed_in_use',
         Reject(p) \/ ReadPage(p) \/ Start(p) \/ kill(p)
  PROVE  UKept'
<1> USE DEF UCore
<1>1. CASE Reject(p)
  BY <1>1, MovedTo, QuietKeeps DEF Reject, load_fails, Runs
<1>2. CASE ReadPage(p)
  BY <1>2, ReadMoves, QuietKeeps DEF ReadPage, Runs
<1>3. CASE Start(p)
  BY <1>3, MovedTo, QuietKeeps DEF Start, Runs
<1>4. CASE kill(p)
  BY <1>4, MovedTo, QuietKeeps DEF kill, Runs, poolVars
<1> QED
  BY <1>1, <1>2, <1>3, <1>4

LEMMA AccessKeeps ==
  ASSUME UCore, NEW p \in Procs, NEW u \in UserPages, NEW write \in BOOLEAN, Access(p, u, write)
  PROVE  UKept'
<1> USE DEF UCore
<1>0. /\ running = p /\ proc[p].at = "user" /\ proc[p].pagedir /\ page_dir[p] # NoEntry /\ cr3 = p
      /\ UNCHANGED <<user_pool, running, intr_off, cr3, esp0, cr2, proc>>
      /\ written' = IF write THEN written \cup {<<p, u>>} ELSE written
  BY DEF Access, Runs, poolVars, DirInv, CpuInv
<1>1. CASE page_dir' = page_dir /\ tlb' = tlb /\ tlb[u] # NoEntry /\ (write => tlb[u].d)
  <2>1. DirInv' /\ CpuInv' /\ FaultInv'
    BY <1>0, <1>1 DEF DirInv, CpuInv, FaultInv
  <2>2. FrameInv'
    BY <1>0, <1>1 DEF FrameInv
  <2>3. TlbInv'
    BY <1>0, <1>1 DEF TlbInv
  <2> QED
    BY <2>1, <2>2, <2>3 DEF UKept
<1>2. ASSUME Maps(page_dir[p], u), page_dir[p].pte[u] \in Entries, NEW e \in Entries, NEW n,
             e.frame = page_dir[p].pte[u].frame, e.p, e.d <=> page_dir[p].pte[u].d \/ write,
             SetIn(n, page_dir[p], u, e), page_dir' = [page_dir EXCEPT ![p] = n],
             NEW t \in Translations, t.frame = e.frame, t.d <=> e.d,
             tlb' = [tlb EXCEPT ![u] = t]
      PROVE  UKept'
  <2>0. e # NoEntry
    BY NoEntryAssumption
  <2>1. /\ \A q \in Procs : q # p => page_dir'[q] = page_dir[q]
        /\ page_dir'[p] # NoEntry /\ page_dir'[p].pte[u] = e
        /\ \A v \in UserPages : v # u => page_dir'[p].pte[v] = page_dir[p].pte[v]
        /\ \A v \in UserPages : v # u => (Maps(page_dir'[p], v) <=> Maps(page_dir[p], v))
        /\ Maps(page_dir'[p], u)
    <3>1. /\ page_dir[p] # NoEntry /\ UserTypeOK
          /\ SetIn(n, page_dir[p], u, e) /\ page_dir' = [page_dir EXCEPT ![p] = n]
      BY <1>0, <1>2
    <3> HIDE DEF UCore
    <3>2. /\ \A q \in Procs : q # p => page_dir'[q] = page_dir[q]
          /\ page_dir'[p] # NoEntry /\ page_dir'[p].pte[u] = e
          /\ \A v \in UserPages : v # u => page_dir'[p].pte[v] = page_dir[p].pte[v]
          /\ \A v \in UserPages : v # u => (Maps(page_dir'[p], v) <=> Maps(page_dir[p], v))
      BY <3>1 DEF UserTypeOK, SetIn, Maps
    <3>3. Maps(page_dir'[p], u)
      BY <1>2, <2>0, <3>2 DEF Maps
    <3> QED
      BY <3>2, <3>3
  <2>2. \A v \in UserPages : FrameOf(page_dir'[p], v) = FrameOf(page_dir[p], v)
    BY <1>2, <2>1 DEF FrameOf
  <2>3. DirInv' /\ CpuInv' /\ FaultInv'
    BY <1>0, <2>1 DEF DirInv, CpuInv, FaultInv
  <2>4. FrameInv'
    <3>1. SameFrames(p)
      BY <1>0, <1>2, <2>1, <2>2, SameMaps DEF Stays
    <3>2. \A q \in Procs : SameFrames(q)
      BY <1>0, <2>1, <3>1, SameDirs DEF Stays
    <3> QED
      BY <1>0, <3>2, FramesSame
  <2>5. \A v \in UserPages : IF v = u THEN tlb'[v] = t ELSE tlb'[v] = tlb[v]
    BY <1>2 DEF UserTypeOK
  <2>6. \A v \in UserPages : tlb'[v] # NoEntry =>
           /\ cr3' # "init" /\ Maps(page_dir'[cr3'], v)
           /\ FrameOf(page_dir'[cr3'], v) = tlb'[v].frame
           /\ tlb'[v].d => page_dir'[cr3'].pte[v].d
    <3>1. cr3' = p /\ p # "init"
      BY <1>0, NoEntryAssumption
    <3>2. tlb'[u].frame = FrameOf(page_dir'[p], u) /\ (tlb'[u].d => page_dir'[p].pte[u].d)
      BY <1>2, <2>1, <2>5 DEF FrameOf
    <3>3. ASSUME NEW v \in UserPages, v # u, tlb'[v] # NoEntry
          PROVE  /\ Maps(page_dir'[p], v) /\ FrameOf(page_dir'[p], v) = tlb'[v].frame
                 /\ tlb'[v].d => page_dir'[p].pte[v].d
      BY <1>0, <2>1, <2>2, <2>5, <3>3 DEF TlbInv
    <3> QED
      BY <2>1, <3>1, <3>2, <3>3
  <2>7. \A q \in Procs : \A v \in UserPages :
           Maps(page_dir'[q], v) /\ <<q, v>> \in written' => page_dir'[q].pte[v].d
    BY <1>0, <1>2, <2>1 DEF TlbInv
  <2>8. TlbInv'
    BY <2>6, <2>7 DEF TlbInv
  <2> QED
    BY <2>3, <2>4, <2>8 DEF UKept
<1> QED
  BY <1>1, <1>2, AccessDirs

LEMMA FaultKeeps ==
  ASSUME UCore, NEW p \in Procs, NEW u \in UserPages, NEW write \in BOOLEAN, Fault(p, u, write)
  PROVE  UKept'
<1> USE DEF UCore
<1>0. /\ running = p /\ proc[p].at = "user" /\ cr2' = u /\ intr_off'
      /\ UNCHANGED <<user_pool, running, cr3, tlb, esp0, page_dir, written>>
      /\ proc'[p].at = "fault" /\ proc'[p].pagedir = proc[p].pagedir
      /\ proc'[p].touched = u /\ proc'[p].reported = proc[p].reported
      /\ Others(p)
  BY FaultMoves DEF Fault, Runs, poolVars, gate_off
<1>1. DirInv'
  BY <1>0 DEF DirInv, Others, Stays
<1>2. CpuInv'
  BY <1>0 DEF CpuInv, Others, Stays
<1>3. FaultInv'
  BY <1>0 DEF FaultInv, Others, Stays
<1>4. FrameInv'
  BY <1>0, FramesKept
<1>5. TlbInv'
  BY <1>0 DEF TlbInv
<1> QED
  BY <1>1, <1>2, <1>3, <1>4, <1>5 DEF UKept

LEMMA page_faultKeeps ==
  ASSUME UCore, NEW p \in Procs, page_fault(p)
  PROVE  UKept'
<1> USE DEF UCore
<1>0. /\ running = p /\ proc[p].at = "fault"
      /\ UNCHANGED <<user_pool, running, cr3, tlb, esp0, page_dir, written>>
      /\ proc'[p].at = "exit" /\ proc'[p].pagedir = proc[p].pagedir
      /\ proc'[p].touched = proc[p].touched /\ proc'[p].reported = cr2
      /\ Others(p)
  BY page_faultMoves DEF page_fault, Runs, poolVars
<1>1. DirInv'
  BY <1>0 DEF DirInv, Others, Stays
<1>2. CpuInv'
  BY <1>0 DEF CpuInv, Others, Stays
<1>3. FaultInv'
  BY <1>0 DEF FaultInv, Others, Stays
<1>4. FrameInv'
  BY <1>0, FramesKept
<1>5. TlbInv'
  BY <1>0 DEF TlbInv
<1> QED
  BY <1>1, <1>2, <1>3, <1>4, <1>5 DEF UKept

LEMMA ExitKeeps ==
  ASSUME UCore, NEW p \in Procs, Exit(p)
  PROVE  UKept'
<1> USE DEF UCore, cpuVars
<1>0. /\ running = p /\ proc[p].at = "exit"
      /\ StartsOver(p, IF proc[p].pagedir THEN "exit_activate" ELSE "dying")
      /\ UNCHANGED cpuVars /\ user_pool' = user_pool /\ page_dir' = page_dir /\ written' = written
  BY ExitMoves DEF Exit, Runs, poolVars
<1>1. DirInv'
  BY <1>0 DEF DirInv, StartsOver, Others, Stays
<1>2. CpuInv'
  BY <1>0 DEF CpuInv, StartsOver, Others, Stays
<1>3. FaultInv'
  BY <1>0 DEF FaultInv, StartsOver, Others, Stays
<1>4. FrameInv'
  BY <1>0, FramesKept DEF StartsOver
<1>5. TlbInv'
  BY <1>0 DEF TlbInv
<1> QED
  BY <1>1, <1>2, <1>3, <1>4, <1>5 DEF UKept

LEMMA ExitActivateKeeps ==
  ASSUME UCore, NEW p \in Procs, ExitActivate(p)
  PROVE  UKept'
<1> USE DEF UCore
<1>0. /\ running = p /\ proc[p].at = "exit_activate" /\ MovesOn(p, "destroy")
      /\ cr3' = "init" /\ tlb' = no_tlb /\ UNCHANGED <<running, intr_off, esp0, cr2>>
      /\ user_pool' = user_pool /\ page_dir' = page_dir /\ written' = written
  BY MovedTo DEF ExitActivate, Runs, pagedir_activate, poolVars
<1>1. DirInv'
  BY <1>0 DEF DirInv, MovesOn, Others, Stays
<1>2. CpuInv'
  BY <1>0 DEF CpuInv, DirInv, MovesOn, Others, Stays
<1>3. FaultInv'
  BY <1>0 DEF FaultInv, MovesOn, Others, Stays
<1>4. FrameInv'
  BY <1>0, FramesKept DEF MovesOn
<1>5. TlbInv'
  BY <1>0 DEF TlbInv, no_tlb
<1> QED
  BY <1>1, <1>2, <1>3, <1>4, <1>5 DEF UKept

LEMMA DestroyKeeps ==
  ASSUME UCore, NEW p \in Procs, Destroy(p)
  PROVE  UKept'
<1> USE DEF UCore, cpuVars
<1>0. /\ running = p /\ proc[p].at = "destroy" /\ UNCHANGED cpuVars
      /\ page_dir[p] # NoEntry /\ ~proc[p].pagedir /\ cr3 = "init" /\ tlb = no_tlb
  BY DestroyDirs DEF Destroy, Runs, DirInv, CpuInv
<1>1. \A v \in UserPages : tlb'[v] = NoEntry
  BY <1>0 DEF no_tlb
<1>2. ASSUME NEW u \in UserPages, NEW n, Maps(page_dir[p], u),
             SetIn(n, page_dir[p], u, NoEntry), page_dir' = [page_dir EXCEPT ![p] = n],
             user_pool' = user_pool \ {FrameOf(page_dir[p], u)},
             written' = written \ {<<p, u>>}, proc' = proc
      PROVE  UKept'
  <2>1. /\ \A q \in Procs : q # p => page_dir'[q] = page_dir[q]
        /\ page_dir'[p] # NoEntry
        /\ \A v \in UserPages : v # u => page_dir'[p].pte[v] = page_dir[p].pte[v]
        /\ \A v \in UserPages : v # u => (Maps(page_dir'[p], v) <=> Maps(page_dir[p], v))
        /\ ~Maps(page_dir'[p], u)
    BY <1>0, <1>2 DEF UserTypeOK, SetIn, Maps
  <2>2. DirInv' /\ CpuInv' /\ FaultInv'
    BY <1>0, <1>2, <2>1 DEF DirInv, CpuInv, FaultInv
  <2>3. PICK f \in Frames : f = FrameOf(page_dir[p], u)
    BY <1>0, <1>2 DEF UserTypeOK, PageDirs, Entries, Maps, FrameOf
  <2>4. FrameInv'
    <3>1. \A v \in UserPages : v # u => FrameOf(page_dir'[p], v) = FrameOf(page_dir[p], v)
      BY <2>1 DEF FrameOf
    <3>2. \A q \in Procs : q # p => SameFrames(q)
      BY <1>2, <2>1, SameDirs DEF Stays
    <3>3. OwnFrames(page_dir'[p], proc'[p])
      BY <1>0, <1>2, <2>1, <3>1 DEF FrameInv, OwnFrames
    <3>4. Holds(page_dir[p], proc[p], f)
      BY <1>2, <2>3 DEF Holds
    <3>5. \A g \in Frames :
             Holds(page_dir'[p], proc'[p], g) <=> Holds(page_dir[p], proc[p], g) /\ g # f
      BY <1>0, <1>2, <2>1, <2>3, <3>1 DEF Holds, FrameInv, OwnFrames
    <3>6. user_pool' = user_pool \ {f}
      BY <1>2, <2>3
    <3> QED
      BY <3>2, <3>3, <3>4, <3>5, <3>6, FramesLost
  <2>5. TlbInv'
    <3>1. \A q \in Procs : \A v \in UserPages :
             Maps(page_dir'[q], v) /\ <<q, v>> \in written' => page_dir'[q].pte[v].d
      BY <1>2, <2>1 DEF TlbInv
    <3> QED
      BY <1>1, <3>1 DEF TlbInv
  <2> QED
    BY <2>2, <2>4, <2>5 DEF UKept
<1>3. CASE /\ \A u \in UserPages : ~Maps(page_dir[p], u)
           /\ page_dir' = [page_dir EXCEPT ![p] = NoEntry]
           /\ user_pool' = user_pool /\ written' = written
           /\ MovesOn(p, "dying")
  <2>1. /\ \A q \in Procs : q # p => page_dir'[q] = page_dir[q]
        /\ page_dir'[p] = NoEntry
    BY <1>3 DEF UserTypeOK
  <2>2. DirInv'
    BY <1>0, <1>3, <2>1 DEF DirInv, MovesOn, Others, Stays
  <2>3. CpuInv'
    BY <1>0, <1>3 DEF CpuInv, MovesOn, Others, Stays
  <2>4. FaultInv'
    BY <1>0, <1>3 DEF FaultInv, MovesOn, Others, Stays
  <2>5. FrameInv'
    <3>1. SameFrames(p)
      BY <1>0, <1>3, <2>1, NoMaps, SameMaps DEF MovesOn
    <3>2. \A q \in Procs : SameFrames(q)
      BY <1>3, <2>1, <3>1, SameDirs DEF MovesOn, Others
    <3> QED
      BY <1>3, <3>2, FramesSame
  <2>6. TlbInv'
    <3>1. \A q \in Procs : \A v \in UserPages :
             Maps(page_dir'[q], v) /\ <<q, v>> \in written' => page_dir'[q].pte[v].d
      BY <1>3, <2>1, NoMaps DEF TlbInv
    <3> QED
      BY <1>1, <3>1 DEF TlbInv
  <2> QED
    BY <2>2, <2>3, <2>4, <2>5, <2>6 DEF UKept
<1>4. Goes_to(p, "dying") => MovesOn(p, "dying")
  BY MovedTo
<1>5. CASE \E u \in UserPages : \E n :
             /\ Maps(page_dir[p], u)
             /\ SetIn(n, page_dir[p], u, NoEntry)
             /\ page_dir' = [page_dir EXCEPT ![p] = n]
             /\ user_pool' = user_pool \ {FrameOf(page_dir[p], u)}
             /\ written' = written \ {<<p, u>>} /\ proc' = proc
  BY <1>2, <1>5
<1> QED
  BY <1>3, <1>4, <1>5, DestroyDirs DEF Goes_to

LEMMA ClearDirtyKeeps ==
  ASSUME UCore, NEW p \in Procs, NEW u \in UserPages, ClearDirty(p, u)
  PROVE  UKept'
<1> USE DEF UCore
<1>0. /\ page_dir[p] # NoEntry /\ page_dir[p].pte[u] \in Entries
      /\ UNCHANGED <<user_pool, running, intr_off, cr3, esp0, cr2, proc>>
      /\ tlb' = invalidated(p) /\ written' = written \ {<<p, u>>}
  BY ClearDirtyDirs DEF ClearDirty, poolVars
<1>1. PICK e \in Entries : \E n :
        /\ e.frame = page_dir[p].pte[u].frame /\ (e.p <=> page_dir[p].pte[u].p)
        /\ SetIn(n, page_dir[p], u, e)
        /\ page_dir' = [page_dir EXCEPT ![p] = n]
  BY ClearDirtyDirs
<1>2. e # NoEntry /\ page_dir[p].pte[u] # NoEntry
  BY <1>0, NoEntryAssumption
<1>3. /\ \A q \in Procs : q # p => page_dir'[q] = page_dir[q]
      /\ page_dir'[p] # NoEntry /\ page_dir'[p].pte[u] = e
      /\ \A v \in UserPages : v # u => page_dir'[p].pte[v] = page_dir[p].pte[v]
  BY <1>0, <1>1 DEF UserTypeOK, SetIn
<1>4. \A v \in UserPages : /\ Maps(page_dir'[p], v) <=> Maps(page_dir[p], v)
                           /\ FrameOf(page_dir'[p], v) = FrameOf(page_dir[p], v)
  BY <1>0, <1>1, <1>2, <1>3 DEF Maps, FrameOf
<1>5. DirInv' /\ FaultInv'
  BY <1>0, <1>3 DEF DirInv, FaultInv
<1>6. CpuInv'
  BY <1>0 DEF CpuInv, invalidated
<1>7. FrameInv'
  <2>1. SameFrames(p)
    BY <1>0, <1>4, SameMaps DEF Stays
  <2>2. \A q \in Procs : SameFrames(q)
    BY <1>0, <1>3, <2>1, SameDirs DEF Stays
  <2> QED
    BY <1>0, <2>2, FramesSame
<1>8. \A v \in UserPages : tlb'[v] # NoEntry =>
        /\ cr3' # "init" /\ Maps(page_dir'[cr3'], v)
        /\ FrameOf(page_dir'[cr3'], v) = tlb'[v].frame
        /\ tlb'[v].d => page_dir'[cr3'].pte[v].d
  <2>1. CASE cr3 = p
    BY <1>0, <2>1 DEF invalidated, no_tlb
  <2>2. CASE cr3 # p
    BY <1>0, <1>3, <2>2 DEF invalidated, TlbInv, UserTypeOK
  <2> QED
    BY <2>1, <2>2
<1>9. \A q \in Procs : \A v \in UserPages :
        Maps(page_dir'[q], v) /\ <<q, v>> \in written' => page_dir'[q].pte[v].d
  BY <1>0, <1>3, <1>4 DEF TlbInv
<1>10. TlbInv'
  BY <1>8, <1>9 DEF TlbInv
<1> QED
  BY <1>5, <1>6, <1>7, <1>10 DEF UKept

LEMMA EvictKeeps ==
  ASSUME UCore, NEW p \in Procs, NEW u \in UserPages, Evict(p, u)
  PROVE  UKept'
<1> USE DEF UCore
<1>0. /\ page_dir[p] # NoEntry /\ Maps(page_dir[p], u) /\ proc[p].at = "user"
      /\ UNCHANGED <<running, intr_off, cr3, esp0, cr2, proc>>
      /\ tlb' = invalidated(p) /\ written' = written \ {<<p, u>>}
      /\ user_pool' = user_pool \ {FrameOf(page_dir[p], u)}
  BY EvictDirs DEF Evict, FrameOf
<1>1. PICK e \in Entries : \E n :
        /\ ~e.p
        /\ SetIn(n, page_dir[p], u, e)
        /\ page_dir' = [page_dir EXCEPT ![p] = n]
  BY EvictDirs
<1>2. /\ \A q \in Procs : q # p => page_dir'[q] = page_dir[q]
      /\ page_dir'[p] # NoEntry /\ page_dir'[p].pte[u] = e
      /\ \A v \in UserPages : v # u => page_dir'[p].pte[v] = page_dir[p].pte[v]
  BY <1>0, <1>1 DEF UserTypeOK, SetIn
<1>3. /\ \A v \in UserPages : v # u => (Maps(page_dir'[p], v) <=> Maps(page_dir[p], v))
      /\ \A v \in UserPages : v # u => FrameOf(page_dir'[p], v) = FrameOf(page_dir[p], v)
      /\ ~Maps(page_dir'[p], u)
  BY <1>0, <1>1, <1>2 DEF Maps, FrameOf
<1>4. DirInv' /\ FaultInv'
  BY <1>0, <1>2 DEF DirInv, FaultInv
<1>5. CpuInv'
  BY <1>0 DEF CpuInv, invalidated
<1>6. PICK f \in Frames : f = FrameOf(page_dir[p], u)
  <2>1. page_dir[p].pte[u] \in Entries
    BY <1>0, EntryOf DEF Maps
  <2> QED
    BY <2>1 DEF Entries, FrameOf
<1>7. FrameInv'
  <2>1. \A q \in Procs : q # p => SameFrames(q)
    BY <1>0, <1>2, SameDirs DEF Stays
  <2>2. OwnFrames(page_dir'[p], proc'[p])
    BY <1>0, <1>3 DEF FrameInv, OwnFrames
  <2>3. Holds(page_dir[p], proc[p], f)
    BY <1>0, <1>6 DEF Holds
  <2>4. \A g \in Frames :
           Holds(page_dir'[p], proc'[p], g) <=> Holds(page_dir[p], proc[p], g) /\ g # f
    BY <1>0, <1>3, <1>6 DEF Holds, FrameInv, OwnFrames
  <2>5. user_pool' = user_pool \ {f}
    BY <1>0, <1>6
  <2> QED
    BY <2>1, <2>2, <2>3, <2>4, <2>5, FramesLost
<1>8. \A v \in UserPages : tlb'[v] # NoEntry =>
        /\ cr3' # "init" /\ Maps(page_dir'[cr3'], v)
        /\ FrameOf(page_dir'[cr3'], v) = tlb'[v].frame
        /\ tlb'[v].d => page_dir'[cr3'].pte[v].d
  <2>1. CASE cr3 = p
    BY <1>0, <2>1 DEF invalidated, no_tlb
  <2>2. CASE cr3 # p
    BY <1>0, <1>2, <2>2 DEF invalidated, TlbInv, UserTypeOK
  <2> QED
    BY <2>1, <2>2
<1>9. \A q \in Procs : \A v \in UserPages :
        Maps(page_dir'[q], v) /\ <<q, v>> \in written' => page_dir'[q].pte[v].d
  BY <1>0, <1>2, <1>3 DEF TlbInv
<1>10. TlbInv'
  BY <1>8, <1>9 DEF TlbInv
<1> QED
  BY <1>4, <1>5, <1>7, <1>10 DEF UKept

LEMMA SwitchKeeps ==
  ASSUME UCore, NEW p \in Procs \cup {"init"}, Switch(p)
  PROVE  UKept'
<1> USE DEF UCore
<1>0. /\ ~intr_off /\ intr_off' = intr_off /\ running # p /\ running' = p /\ esp0' = p
      /\ p # "init" => proc[p].at \notin {"none", "gone", "dying"}
      /\ cr3' = IF p # "init" /\ proc[p].pagedir THEN p ELSE "init"
      /\ tlb' = no_tlb
      /\ user_pool' = user_pool /\ page_dir' = page_dir /\ written' = written
  BY DEF Switch, pagedir_activate
<1>1. \A q \in Procs :
        \/ Stays(q)
        \/ /\ q = running /\ proc[q].at = "dying" /\ proc'[q].at = "gone"
           /\ proc'[q].pagedir = proc[q].pagedir /\ proc'[q].reported = proc[q].reported
           /\ proc'[q].touched = proc[q].touched
  <2>1. CASE running # "init" /\ proc[running].at = "dying" /\ Goes_to(running, "gone")
    <3>1. running \in Procs
      BY <2>1 DEF UserTypeOK
    <3> QED
      BY <2>1, <3>1, MovedTo DEF MovesOn, Others
  <2>2. CASE proc' = proc
    BY <2>2 DEF Stays
  <2> QED
    BY <2>1, <2>2 DEF Switch
<1>2. DirInv'
  BY <1>0, <1>1 DEF DirInv, Stays
<1>3. CpuInv'
  <2>1. p # "init" => Stays(p)
    BY <1>0, <1>1
  <2> QED
    BY <1>0, <2>1 DEF CpuInv, Stays
<1>4. FaultInv'
  BY <1>0, <1>1 DEF FaultInv, Stays
<1>5. FrameInv'
  <2>1. \A q \in Procs : SameFrames(q)
    BY <1>0, <1>1, SameDirs
  <2> QED
    BY <1>0, <2>1, FramesSame
<1>6. TlbInv'
  BY <1>0 DEF TlbInv, no_tlb
<1> QED
  BY <1>2, <1>3, <1>4, <1>5, <1>6 DEF UKept

-----------------------------------------------------------------------------
\* The invariant holds at first, and every step keeps it.
LEMMA UserInvInit ==
  ASSUME UserInit
  PROVE  UInv
<1> USE DEF UserInit
<1>1. UserTypeOK
  <2>1. proc \in [Procs -> ProcRecords]
    <3>1. <<>> \in Programs
      BY DEF Programs
    <3>2. new_proc("none", <<>>) \in ProcRecords
      BY <3>1 DEF new_proc, ProcRecords, ProcPlaces
    <3> QED
      BY <3>2
  <2> QED
    BY <2>1 DEF UserTypeOK, no_tlb
<1>2. \A p \in Procs : /\ proc[p].at = "none" /\ ~proc[p].pagedir /\ proc[p].reported = NoEntry
                       /\ page_dir[p] = NoEntry
  BY DEF new_proc
<1>3. DirInv /\ CpuInv /\ FaultInv
  BY <1>2 DEF DirInv, CpuInv, FaultInv
<1>4. FrameInv
  BY <1>2 DEF FrameInv, OwnFrames, Holds, Maps
<1>5. TlbInv
  BY <1>2 DEF TlbInv, Maps, no_tlb
<1> QED
  BY <1>1, <1>3, <1>4, <1>5 DEF UInv, UCore

LEMMA UserInvStep ==
  ASSUME UInv, UserNext, ExecutedAssumption
  PROVE  UInv'
<1>1. SUFFICES ASSUME ~freed_in_use'
               PROVE  UCore'
  BY DEF UInv
<1>2. UCore
  BY DEF UInv, UserNext
<1>3. UserTypeOK'
  BY <1>1, <1>2, UserTypeStep
<1>4. UKept'
  <2>1. ASSUME NEW p \in Procs, ProcessStep(p)
        PROVE  UKept'
    BY <1>1, <1>2, <2>1, CreateKeeps, ActivateKeeps, GetFrameKeeps, InstallKeeps, GoingKeeps,
       page_faultKeeps, ExitKeeps, ExitActivateKeeps, DestroyKeeps DEF ProcessStep
  <2>2. ASSUME NEW p \in Procs, NEW prog \in Executed, process_execute(p, prog)
        PROVE  UKept'
    BY <1>2, <2>2, ExecuteKeeps
  <2>3. ASSUME NEW p \in Procs, NEW u \in UserPages, NEW write \in BOOLEAN,
               Access(p, u, write) \/ Fault(p, u, write)
        PROVE  UKept'
    BY <1>2, <2>3, AccessKeeps, FaultKeeps
  <2>4. ASSUME NEW p \in Procs, NEW u \in UserPages, ClearDirty(p, u) \/ Evict(p, u)
        PROVE  UKept'
    BY <1>2, <2>4, ClearDirtyKeeps, EvictKeeps
  <2>5. ASSUME NEW p \in Procs \cup {"init"}, Switch(p)
        PROVE  UKept'
    BY <1>2, <2>5, SwitchKeeps
  <2> QED
    BY <2>1, <2>2, <2>3, <2>4, <2>5 DEF UserNext
<1> QED
  BY <1>3, <1>4 DEF UCore, UKept

LEMMA UserInvStutter ==
  ASSUME UInv, UNCHANGED userVars
  PROVE  UInv'
BY DEF UInv, UCore, userVars, poolVars, cpuVars, UserTypeOK, DirInv, CpuInv, FaultInv, FrameInv,
       TlbInv, Maps, FrameOf, Holds, OwnFrames

\* What the invariant says of the frames, the translations and the processes.
LEMMA UserInvProtects ==
  ASSUME UInv
  PROVE  MemoryProtected
<1>1. SUFFICES ASSUME UCore
               PROVE  FramesOwned /\ TranslationsLive /\ OwnSpace
  BY DEF MemoryProtected, UInv
<1> USE <1>1 DEF UCore
<1>2. \A p \in Procs : \A u \in UserPages :
        page_dir[p] # NoEntry => (present(p, u) <=> Maps(page_dir[p], u))
  BY EntryOf
<1>3. \A p \in Procs : \A f : f \in Mapped(p) \cup InHand(p) <=> Holds(page_dir[p], proc[p], f)
  <2> TAKE p \in Procs
  <2>1. \A f : f \in Mapped(p) <=> \E u \in UserPages : Maps(page_dir[p], u) /\ FrameOf(page_dir[p], u) = f
    <3>1. CASE page_dir[p] = NoEntry
      BY <3>1 DEF Mapped, Maps
    <3>2. CASE page_dir[p] # NoEntry
      BY <1>2, <3>2 DEF Mapped, FrameOf
    <3> QED
      BY <3>1, <3>2
  <2>2. \A f : f \in InHand(p) <=> proc[p].at = "install" /\ proc[p].kpage = f
    BY DEF InHand
  <2> QED
    BY <2>1, <2>2 DEF Holds
<1>4. \A p \in Procs : \A f : Holds(page_dir[p], proc[p], f) => f \in Frames
  BY DEF UserTypeOK, PageDirs, Entries, Holds, Maps, FrameOf, FrameInv, OwnFrames
<1>5. FramesOwned
  <2>1. \A p \in Procs : page_dir[p] # NoEntry =>
          \A u, v \in UserPages : present(p, u) /\ present(p, v) /\ u # v =>
            page_dir[p].pte[u].frame # page_dir[p].pte[v].frame
    BY <1>2 DEF FrameInv, OwnFrames, FrameOf
  <2>2. \A p, q \in Procs : p # q =>
          (Mapped(p) \cup InHand(p)) \cap (Mapped(q) \cup InHand(q)) = {}
    BY <1>3, <1>4 DEF FrameInv
  <2> DEFINE Theirs(p) == Mapped(p) \cup InHand(p)
  <2>3. \A p \in Procs : \A f : f \in Theirs(p) <=> Holds(page_dir[p], proc[p], f)
    BY <1>3
  <2> HIDE DEF Theirs
  <2>4. user_pool = UNION {Theirs(p) : p \in Procs}
    <3>1. \A f : f \in user_pool <=> \E p \in Procs : Holds(page_dir[p], proc[p], f)
      BY <1>4 DEF FrameInv, UserTypeOK
    <3>2. \A f : f \in user_pool <=> \E p \in Procs : f \in Theirs(p)
      BY <2>3, <3>1
    <3> QED
      BY <3>2
  <2> QED
    BY <2>1, <2>2, <2>4 DEF FramesOwned, Theirs
<1>6. TranslationsLive
  <2>1. cr3 # "init" => page_dir[cr3] # NoEntry /\ proc[cr3].at # "destroy"
    BY DEF CpuInv, DirInv, UserTypeOK
  <2>2. \A u \in UserPages : tlb[u] # NoEntry =>
          cr3 # "init" /\ present(cr3, u) /\ page_dir[cr3].pte[u].frame = tlb[u].frame
    BY <1>2, <2>1 DEF TlbInv, UserTypeOK, FrameOf
  <2>3. \A p \in Procs : page_dir[p] # NoEntry =>
          \A u \in UserPages : present(p, u) /\ <<p, u>> \in written => page_dir[p].pte[u].d
    BY <1>2 DEF TlbInv
  <2> QED
    BY <2>1, <2>2, <2>3 DEF TranslationsLive
<1>7. OwnSpace
  BY DEF OwnSpace, Runs, CpuInv, DirInv, FaultInv
<1> QED
  BY <1>5, <1>6, <1>7

\* Whatever is executed and wherever the timer interrupts it: processes keep their frames apart,
\* the CPU goes by no page table and no translation that is gone, and user code runs in its own
\* address space, as long as load_segment has freed no frame that a page table has.
THEOREM MemoryProtectedHolds ==
  UserSpec => []MemoryProtected
<1>1. UserInit => UInv
  BY UserInvInit
<1>2. UInv /\ [UserNext]_userVars => UInv'
  BY UserInvStep, UserInvStutter, ExecutedAssumption
<1>3. UInv => MemoryProtected
  BY UserInvProtects
<1> QED
  BY <1>1, <1>2, <1>3, PTL DEF UserSpec
-----------------------------------------------------------------------------
(***************************************************************************)
(* The heap.  An arena is a page of blocks of one size, or one big block   *)
(* of several pages.                                                       *)
(***************************************************************************)
ArenaBlocks(p, d) == {arena_to_block(p, d, i) : i \in 0 .. blocks_per_arena(d) - 1}
Arenas == [desc : BlockSizes \cup {0}, free_cnt : Nat]
PagesOfArena(h, p) ==
  IF h.arena[p].desc = 0 THEN p .. p + h.arena[p].free_cnt - 1 ELSE {p}

\* The bytes that the block at b has.
Room(h, b) ==
  LET a == h.arena[block_to_arena(b)]
  IN  IF a.desc = 0 THEN a.free_cnt * PGSIZE - HEADER ELSE a.desc

HeapTypeOK(h) ==
  h \in [used : SUBSET PoolRange, arena : [PoolRange -> {NIL} \cup Arenas],
         free_list : [BlockSizes -> Seq(Nat)]]

\* An arena has its pages for itself.
ArenasRight(h) ==
  \A p \in PoolRange : h.arena[p] # NIL =>
    /\ PagesOfArena(h, p) \subseteq h.used
    /\ h.arena[p].desc = 0 => h.arena[p].free_cnt > 0
    /\ \A q \in PoolRange : h.arena[q] # NIL /\ q # p =>
         PagesOfArena(h, p) \cap PagesOfArena(h, q) = {}

\* b is a block of the arena at its page.
BlockOf(h, b) ==
  /\ b \in Nat
  /\ block_to_arena(b) \in PoolRange
  /\ h.arena[block_to_arena(b)] # NIL
  /\ IF h.arena[block_to_arena(b)].desc = 0
     THEN b = block_to_arena(b) * PGSIZE + HEADER
     ELSE b \in ArenaBlocks(block_to_arena(b), h.arena[block_to_arena(b)].desc)

\* A free list has blocks of its size, each once.
ListsRight(h) ==
  \A d \in BlockSizes :
    /\ IsInjective(h.free_list[d])
    /\ \A b \in Range(h.free_list[d]) : BlockOf(h, b) /\ h.arena[block_to_arena(b)].desc = d

\* The blocks of an arena are free or in hand (U).
CountOf(h, U, p) ==
  LET d == h.arena[p].desc
  IN  /\ h.arena[p].free_cnt = Cardinality(ArenaBlocks(p, d) \cap Range(h.free_list[d]))
      /\ ArenaBlocks(p, d) \ Range(h.free_list[d]) = ArenaBlocks(p, d) \cap U
IsSmall(h, p) == h.arena[p] # NIL /\ h.arena[p].desc # 0

HeapSound(h, U) ==
  /\ HeapTypeOK(h)
  /\ ArenasRight(h)
  /\ ListsRight(h)
  /\ \A b \in U : BlockOf(h, b)
  /\ \A p \in PoolRange : IsSmall(h, p) => CountOf(h, U, p)

\* Between two calls no arena is all free.
HeapRight(h, U) ==
  /\ HeapSound(h, U)
  /\ \A p \in PoolRange : IsSmall(h, p) => h.arena[p].free_cnt < blocks_per_arena(h.arena[p].desc)
-----------------------------------------------------------------------------
\* Numbers: products keep the order.
LEMMA TimesMono ==
  ASSUME NEW a \in Nat, NEW b \in Nat, NEW c \in Nat, a <= b
  PROVE  a * c <= b * c /\ a * c \in Nat
OBVIOUS

\* A quotient in natural numbers.
LEMMA DivIs ==
  ASSUME NEW a \in Nat, NEW n \in Nat \ {0}
  PROVE  a \div n \in Nat /\ (a \div n) * n <= a /\ a < (a \div n) * n + n
OBVIOUS

LEMMA DivUnique ==
  ASSUME NEW a \in Nat, NEW n \in Nat \ {0}, NEW p \in Nat, p * n <= a, a < p * n + n
  PROVE  a \div n = p
<1>1. a \div n \in Nat /\ (a \div n) * n <= a /\ a < (a \div n) * n + n
  BY DivIs
<1> DEFINE q == a \div n
<1>2. q \in Nat /\ q * n <= a /\ a < q * n + n
  BY <1>1
<1> HIDE DEF q
<1>3. ~(q < p)
  <2> SUFFICES ASSUME q < p PROVE FALSE
    OBVIOUS
  <2>1. q + 1 \in Nat /\ q + 1 <= p
    BY <1>2
  <2>2. (q + 1) * n <= p * n
    BY <2>1, TimesMono
  <2>3. (q + 1) * n = q * n + n
    BY <1>2
  <2> QED
    BY <1>2, <2>2, <2>3
<1>4. ~(p < q)
  <2> SUFFICES ASSUME p < q PROVE FALSE
    OBVIOUS
  <2>1. p + 1 \in Nat /\ p + 1 <= q
    BY <1>2
  <2>2. (p + 1) * n <= q * n
    BY <1>2, <2>1, TimesMono
  <2>3. (p + 1) * n = p * n + n
    OBVIOUS
  <2> QED
    BY <1>2, <2>2, <2>3
<1>5. q = p
  BY <1>2, <1>3, <1>4
<1> QED
  BY <1>5 DEF q

\* A descriptor's blocks fit into a page behind the header, at least one.
LEMMA SizesFit ==
  ASSUME NEW d \in BlockSizes
  PROVE  /\ d \in Nat \ {0} /\ blocks_per_arena(d) \in Nat \ {0}
         /\ blocks_per_arena(d) * d + HEADER <= PGSIZE
<1>1. d \in Nat \ {0} /\ 2 * d < PGSIZE /\ PGSIZE \in Nat /\ HEADER \in Nat /\ 2 * HEADER <= PGSIZE
  BY HeapAssumption DEF BlockSizes
<1>2. PGSIZE - HEADER \in Nat /\ d <= PGSIZE - HEADER
  BY <1>1
<1> DEFINE m == blocks_per_arena(d)
<1>3. m \in Nat /\ m * d <= PGSIZE - HEADER /\ PGSIZE - HEADER < m * d + d
  BY <1>1, <1>2, DivIs DEF blocks_per_arena
<1> HIDE DEF m
<1>4. m # 0
  <2> SUFFICES ASSUME m = 0 PROVE FALSE
    OBVIOUS
  <2>1. m * d = 0
    BY <1>1
  <2> QED
    BY <1>1, <1>2, <1>3, <2>1
<1>5. m \in Nat \ {0} /\ m * d + HEADER <= PGSIZE
  BY <1>1, <1>3, <1>4
<1> QED
  BY <1>1, <1>5 DEF m

\* The i-th block lies in its page.
LEMMA BlockPlace ==
  ASSUME NEW d \in BlockSizes, NEW p \in Nat, NEW i \in 0 .. blocks_per_arena(d) - 1
  PROVE  LET b == arena_to_block(p, d, i)
         IN  /\ b \in Nat /\ block_to_arena(b) = p
             /\ p * PGSIZE + HEADER <= b /\ b + d <= p * PGSIZE + PGSIZE
<1> DEFINE m == blocks_per_arena(d)
           x == i * d
           y == p * PGSIZE
           b == arena_to_block(p, d, i)
<1>1. d \in Nat \ {0} /\ m \in Nat \ {0} /\ m * d + HEADER <= PGSIZE
  BY SizesFit
<1>2. PGSIZE \in Nat \ {0} /\ HEADER \in Nat
  BY HeapAssumption
<1>3. i \in Nat /\ i + 1 \in Nat /\ i + 1 <= m
  BY <1>1
<1>4. (i + 1) * d <= m * d /\ (i + 1) * d = i * d + d /\ x \in Nat
  BY <1>1, <1>3, TimesMono
<1>5. y \in Nat
  BY <1>2
<1>6. b = y + HEADER + x
  BY DEF arena_to_block
<1> HIDE DEF m, x, y, b
<1>7. x + d <= m * d
  BY <1>4 DEF x
<1>8. m * d \in Nat
  BY <1>1
<1>9. b \in Nat /\ y + HEADER <= b /\ b + d <= y + PGSIZE /\ b < y + PGSIZE
  BY <1>1, <1>2, <1>4, <1>5, <1>6, <1>7, <1>8
<1>10. b \div PGSIZE = p
  <2>1. p * PGSIZE <= b /\ b < p * PGSIZE + PGSIZE
    BY <1>2, <1>5, <1>9 DEF y
  <2> QED
    BY <1>2, <1>9, <2>1, DivUnique
<1> QED
  BY <1>9, <1>10 DEF b, y, block_to_arena

\* Two blocks of an arena are apart.
LEMMA BlocksApart ==
  ASSUME NEW d \in BlockSizes, NEW p \in Nat,
         NEW i \in 0 .. blocks_per_arena(d) - 1, NEW j \in 0 .. blocks_per_arena(d) - 1, i < j
  PROVE  arena_to_block(p, d, i) + d <= arena_to_block(p, d, j)
<1>1. d \in Nat \ {0} /\ blocks_per_arena(d) \in Nat \ {0}
  BY SizesFit
<1>2. i + 1 \in Nat /\ j \in Nat /\ i + 1 <= j /\ i \in Nat
  BY <1>1
<1>3. (i + 1) * d <= j * d
  BY <1>1, <1>2, TimesMono
<1>4. (i + 1) * d = i * d + d
  BY <1>1, <1>2
<1> DEFINE x == i * d
           y == j * d
           z == p * PGSIZE
<1>5. x \in Nat /\ y \in Nat /\ z \in Nat /\ HEADER \in Nat
  BY <1>1, <1>2, HeapAssumption
<1>6. arena_to_block(p, d, i) = z + HEADER + x /\ arena_to_block(p, d, j) = z + HEADER + y
  BY DEF arena_to_block
<1>7. x + d <= y
  BY <1>3, <1>4
<1> HIDE DEF x, y, z
<1> QED
  BY <1>1, <1>5, <1>6, <1>7

\* The free list of a new arena.
LEMMA ArenaBlocksAre ==
  ASSUME NEW d \in BlockSizes, NEW p \in Nat
  PROVE  /\ arena_blocks(p, d) \in Seq(Nat)
         /\ Len(arena_blocks(p, d)) = blocks_per_arena(d)
         /\ IsInjective(arena_blocks(p, d))
         /\ Range(arena_blocks(p, d)) = ArenaBlocks(p, d)
         /\ IsFiniteSet(ArenaBlocks(p, d)) /\ Cardinality(ArenaBlocks(p, d)) = blocks_per_arena(d)
         /\ \A b \in ArenaBlocks(p, d) :
              /\ b \in Nat /\ block_to_arena(b) = p
              /\ p * PGSIZE + HEADER <= b /\ b + d <= p * PGSIZE + PGSIZE
<1> DEFINE m == blocks_per_arena(d)
           f == arena_blocks(p, d)
           S == ArenaBlocks(p, d)
           at(i) == arena_to_block(p, d, i)
<1>1. d \in Nat \ {0} /\ m \in Nat \ {0}
  BY SizesFit
<1>2. \A i \in 0 .. m - 1 :
        /\ at(i) \in Nat /\ block_to_arena(at(i)) = p
        /\ p * PGSIZE + HEADER <= at(i) /\ at(i) + d <= p * PGSIZE + PGSIZE
  BY BlockPlace
<1>3. \A i, j \in 0 .. m - 1 : i < j => at(i) + d <= at(j)
  BY BlocksApart
<1>4. f = [i \in 1 .. m |-> at(i - 1)] /\ S = {at(i) : i \in 0 .. m - 1}
  BY DEF arena_blocks, ArenaBlocks
<1> HIDE DEF m, f, S, at
<1>5. f \in Seq(Nat) /\ Len(f) = m
  <2>1. f \in [1 .. m -> Nat]
    BY <1>1, <1>2, <1>4
  <2> QED
    BY <1>1, <2>1, SeqDef, LenProperties
<1>6. \A i, j \in 1 .. m : f[i] = f[j] => i = j
  <2> SUFFICES ASSUME NEW i \in 1 .. m, NEW j \in 1 .. m, i < j PROVE f[i] # f[j]
    BY <1>1
  <2>1. f[i] = at(i - 1) /\ f[j] = at(j - 1) /\ i - 1 \in 0 .. m - 1 /\ j - 1 \in 0 .. m - 1 /\ i - 1 < j - 1
    BY <1>1, <1>4
  <2> QED
    BY <1>1, <1>2, <1>3, <2>1
<1>7. Range(f) = S
  <2>1. Range(f) = {at(i - 1) : i \in 1 .. m}
    BY <1>4 DEF Range
  <2>2. \A i \in 0 .. m - 1 : i + 1 \in 1 .. m /\ (i + 1) - 1 = i
    BY <1>1
  <2>3. \A i \in 1 .. m : i - 1 \in 0 .. m - 1
    BY <1>1
  <2>4. ASSUME NEW x \in S PROVE x \in Range(f)
    <3>1. PICK i \in 0 .. m - 1 : x = at(i)
      BY <1>4
    <3>2. i + 1 \in 1 .. m /\ at((i + 1) - 1) = x
      BY <2>2, <3>1
    <3> QED
      BY <2>1, <3>2
  <2>5. ASSUME NEW x \in Range(f) PROVE x \in S
    <3>1. PICK i \in 1 .. m : x = at(i - 1)
      BY <2>1
    <3> QED
      BY <1>4, <2>3, <3>1
  <2> QED
    BY <2>4, <2>5
<1>8. DOMAIN f = 1 .. m
  BY <1>4
<1>9. IsInjective(f)
  BY <1>6, <1>8 DEF IsInjective
<1>10. IsFiniteSet(S) /\ Cardinality(S) = m
  <2>1. f \in [1 .. m -> S] /\ \A b \in S : \E i \in 1 .. m : f[i] = b
    BY <1>4, <1>7, <1>8 DEF Range
  <2>2. f \in Bijection(1 .. m, S)
    BY <1>6, <2>1 DEF Bijection, Injection, Surjection, IsInjective
  <2>3. ExistsBijection(1 .. m, S)
    BY <2>2 DEF ExistsBijection
  <2> QED
    BY <1>1, <2>3, FS_CountingElements, FS_NatBijection
<1>11. \A b \in S : /\ b \in Nat /\ block_to_arena(b) = p
                    /\ p * PGSIZE + HEADER <= b /\ b + d <= p * PGSIZE + PGSIZE
  BY <1>2, <1>4
<1> QED
  BY <1>5, <1>7, <1>9, <1>10, <1>11 DEF f, m, S

\* How many elements of K are not above i.
Rank(K, i) == Cardinality({j \in K : j <= i})

LEMMA Ranks ==
  ASSUME NEW K \in SUBSET Nat, IsFiniteSet(K)
  PROVE  /\ \A i \in K : Rank(K, i) \in 1 .. Cardinality(K)
         /\ \A i, j \in K : i < j => Rank(K, i) < Rank(K, j)
         /\ \A k \in 1 .. Cardinality(K) : \E i \in K : Rank(K, i) = k
<1> DEFINE n == Cardinality(K)
           Low(i) == {j \in K : j <= i}
           f == [i \in K |-> Rank(K, i)]
<1>1. n \in Nat
  BY FS_CardinalityType
<1>2. \A i \in K : IsFiniteSet(Low(i)) /\ Rank(K, i) = Cardinality(Low(i)) /\ Rank(K, i) <= n
  <2> SUFFICES ASSUME NEW i \in K PROVE IsFiniteSet(Low(i)) /\ Cardinality(Low(i)) <= n
    BY DEF Rank
  <2>1. Low(i) \in SUBSET K
    OBVIOUS
  <2> QED
    BY <2>1, FS_Subset
<1>3. \A i \in K : Rank(K, i) \in 1 .. n
  <2> SUFFICES ASSUME NEW i \in K PROVE Rank(K, i) \in 1 .. n
    OBVIOUS
  <2>1. i \in Low(i)
    OBVIOUS
  <2>2. Cardinality(Low(i)) \in Nat /\ Cardinality(Low(i)) # 0
    BY <1>2, <2>1, FS_CardinalityType, FS_EmptySet
  <2> QED
    BY <1>1, <1>2, <2>2
<1>4. \A i, j \in K : i < j => Rank(K, i) < Rank(K, j)
  <2> SUFFICES ASSUME NEW i \in K, NEW j \in K, i < j PROVE Cardinality(Low(i)) < Cardinality(Low(j))
    BY <1>2
  <2>0. i \in Nat /\ j \in Nat /\ \A k \in K : k \in Nat
    OBVIOUS
  <2>1. Low(i) \in SUBSET Low(j) /\ j \in Low(j) /\ j \notin Low(i)
    <3>1. \A k \in K : k <= i => k <= j
      BY <2>0
    <3>2. j <= j /\ ~(j <= i)
      BY <2>0
    <3> QED
      BY <3>1, <3>2
  <2>2. Cardinality(Low(i)) <= Cardinality(Low(j)) /\ Cardinality(Low(i)) # Cardinality(Low(j))
    BY <1>2, <2>1, FS_Subset
  <2>3. Cardinality(Low(i)) \in Nat /\ Cardinality(Low(j)) \in Nat
    BY <1>2, FS_CardinalityType
  <2> QED
    BY <2>2, <2>3
<1>5. \A k \in 1 .. n : \E i \in K : Rank(K, i) = k
  <2>1. f \in [K -> 1 .. n]
    BY <1>3
  <2>2. \A i, j \in K : f[i] = f[j] => i = j
    <3> SUFFICES ASSUME NEW i \in K, NEW j \in K, i # j PROVE f[i] # f[j]
      OBVIOUS
    <3>1. i < j \/ j < i
      OBVIOUS
    <3>2. Rank(K, i) \in Nat /\ Rank(K, j) \in Nat
      BY <1>3
    <3> QED
      BY <1>4, <3>1, <3>2
  <2>3. f \in Injection(K, 1 .. n)
    BY <2>1, <2>2 DEF Injection, IsInjective
  <2>4. IsFiniteSet(1 .. n) /\ Cardinality(1 .. n) = n
    BY <1>1, FS_Interval
  <2>5. f \in Surjection(K, 1 .. n)
    BY <2>3, <2>4, FS_Injection
  <2> QED
    BY <2>5 DEF Surjection
<1> QED
  BY <1>3, <1>4, <1>5

\* What is left of a free list when the blocks of an arena are taken out.
LEMMA DroppedIs ==
  ASSUME NEW d \in BlockSizes, NEW p \in Nat, NEW list \in Seq(Nat), IsInjective(list)
  PROVE  /\ dropped(list, p, d) \in Seq(Nat)
         /\ IsInjective(dropped(list, p, d))
         /\ Range(dropped(list, p, d)) = Range(list) \ ArenaBlocks(p, d)
<1> DEFINE K == {i \in DOMAIN list : list[i] \notin ArenaBlocks(p, d)}
           n == Cardinality(K)
           nth(k) == CHOOSE i \in K : Rank(K, i) = k
           g == dropped(list, p, d)
<1>1. g = [k \in 1 .. n |-> list[nth(k)]]
  <2>1. Range(arena_blocks(p, d)) = ArenaBlocks(p, d)
    BY ArenaBlocksAre
  <2> QED
    BY <2>1 DEF dropped, Rank
<1>2. DOMAIN list = 1 .. Len(list) /\ Len(list) \in Nat /\ \A i \in DOMAIN list : list[i] \in Nat
  BY LenProperties, ElementOfSeq
<1>3. K \in SUBSET Nat /\ IsFiniteSet(K) /\ n \in Nat
  <2>1. IsFiniteSet(DOMAIN list)
    BY <1>2, FS_Interval
  <2>2. K \in SUBSET (DOMAIN list)
    OBVIOUS
  <2>3. IsFiniteSet(K)
    BY <2>1, <2>2, FS_Subset
  <2> QED
    BY <1>2, <2>3, FS_CardinalityType
<1>4. K \subseteq DOMAIN list /\ \A i \in DOMAIN list : i \in K <=> list[i] \notin ArenaBlocks(p, d)
  OBVIOUS
<1> HIDE DEF K, n, g
<1>5. /\ \A i \in K : Rank(K, i) \in 1 .. n
      /\ \A i, j \in K : i < j => Rank(K, i) < Rank(K, j)
      /\ \A k \in 1 .. n : \E i \in K : Rank(K, i) = k
  BY <1>3, Ranks DEF n
<1>6. \A k \in 1 .. n : nth(k) \in K /\ Rank(K, nth(k)) = k
  BY <1>5
<1>7. \A i \in K : Rank(K, i) \in 1 .. n /\ nth(Rank(K, i)) = i
  <2> SUFFICES ASSUME NEW i \in K PROVE nth(Rank(K, i)) = i
    BY <1>5
  <2> DEFINE j == nth(Rank(K, i))
  <2>1. j \in K /\ Rank(K, j) = Rank(K, i) /\ Rank(K, i) \in Nat
    BY <1>5, <1>6
  <2> HIDE DEF j
  <2>2. i \in Nat /\ j \in Nat
    BY <1>3, <2>1
  <2>3. ~(i < j) /\ ~(j < i)
    BY <1>5, <2>1
  <2> QED
    BY <2>2, <2>3 DEF j
<1> HIDE DEF nth
<1>8. \A k \in 1 .. n : g[k] = list[nth(k)] /\ nth(k) \in DOMAIN list
  BY <1>1, <1>4, <1>6
<1>9. g \in Seq(Nat) /\ DOMAIN g = 1 .. n
  <2>1. g \in [1 .. n -> Nat]
    BY <1>1, <1>2, <1>8
  <2> QED
    BY <1>3, <2>1, SeqDef
<1>10. IsInjective(g)
  <2> SUFFICES ASSUME NEW k \in 1 .. n, NEW l \in 1 .. n, g[k] = g[l] PROVE k = l
    BY <1>9 DEF IsInjective
  <2>1. nth(k) = nth(l)
    BY <1>8 DEF IsInjective
  <2> QED
    BY <1>6, <2>1
<1>11. Range(g) \subseteq Range(list) \ ArenaBlocks(p, d)
  BY <1>4, <1>6, <1>8, <1>9 DEF Range
<1>12. ASSUME NEW b \in Range(list), b \notin ArenaBlocks(p, d) PROVE b \in Range(g)
  <2>1. PICK i \in DOMAIN list : list[i] = b
    BY DEF Range
  <2>2. i \in K
    BY <1>4, <1>12, <2>1
  <2>3. Rank(K, i) \in DOMAIN g /\ g[Rank(K, i)] = b
    BY <1>7, <1>8, <1>9, <2>1, <2>2
  <2> QED
    BY <2>3 DEF Range
<1> QED
  BY <1>9, <1>10, <1>11, <1>12 DEF g

\* Numbers of pages and bytes.
LEMMA PageNumbers ==
  /\ PGSIZE \in Nat \ {0} /\ HEADER \in Nat \ {0} /\ HEADER < PGSIZE /\ PoolPages \in Nat
  /\ PoolRange \subseteq Nat
  /\ 0 \notin BlockSizes
  /\ \A p \in Nat : /\ p * PGSIZE \in Nat
                    /\ p * PGSIZE + HEADER \in Nat
                    /\ block_to_arena(p * PGSIZE + HEADER) = p
<1>1. PGSIZE \in Nat \ {0} /\ HEADER \in Nat \ {0} /\ HEADER < PGSIZE /\ PoolPages \in Nat
  BY HeapAssumption
<1>2. ASSUME NEW p \in Nat
      PROVE  /\ p * PGSIZE \in Nat /\ p * PGSIZE + HEADER \in Nat
             /\ block_to_arena(p * PGSIZE + HEADER) = p
  <2> DEFINE y == p * PGSIZE
  <2>1. y \in Nat
    BY <1>1
  <2>2. y + HEADER \in Nat /\ y <= y + HEADER /\ y + HEADER < y + PGSIZE
    BY <1>1, <2>1
  <2>3. (y + HEADER) \div PGSIZE = p
    BY <1>1, <2>2, DivUnique
  <2> QED
    BY <2>1, <2>2, <2>3 DEF block_to_arena
<1>3. PoolRange \subseteq Nat
  BY <1>1 DEF PoolRange
<1>4. 0 \notin BlockSizes
  BY DEF BlockSizes
<1> QED
  BY <1>1, <1>2, <1>3, <1>4

\* A group of pages that is found is free.
LEMMA FirstPages ==
  ASSUME NEW h, NEW n \in Nat, first_pages(h, n) # NIL
  PROVE  /\ first_pages(h, n) \in PoolRange /\ first_pages(h, n) + n <= PoolPages
         /\ first_pages(h, n) .. first_pages(h, n) + n - 1 \cap h.used = {}
<1> DEFINE starts == {p \in PoolRange : p + n <= PoolPages /\ p .. p + n - 1 \cap h.used = {}}
<1>1. starts # {} /\ first_pages(h, n) = Min(starts)
  BY DEF first_pages
<1>2. starts \in SUBSET Nat
  BY PageNumbers
<1>3. first_pages(h, n) \in starts
  BY <1>1, <1>2, LeastPage
<1> QED
  BY <1>3

\* The descriptor for a size has blocks of that size at least.
LEMMA DescFor ==
  ASSUME NEW size \in Nat
  PROVE  desc_for(size) = 0 \/ (desc_for(size) \in BlockSizes /\ size <= desc_for(size))
<1> DEFINE fit == {d \in BlockSizes : d >= size}
<1>1. CASE fit = {}
  BY <1>1 DEF desc_for
<1>2. CASE fit # {}
  <2>1. fit \in SUBSET Nat
    BY SizesFit
  <2>2. Min(fit) \in fit
    BY <1>2, <2>1, LeastPage
  <2>3. desc_for(size) = Min(fit)
    BY <1>2 DEF desc_for
  <2>4. Min(fit) \in Nat
    BY <2>1, <2>2
  <2> QED
    BY <2>2, <2>3, <2>4
<1> QED
  BY <1>1, <1>2

\* A big block has room for what is asked for.
LEMMA BigPages ==
  ASSUME NEW size \in Nat \ {0}
  PROVE  big_pages(size) \in Nat \ {0} /\ size <= big_pages(size) * PGSIZE - HEADER
<1>1. PGSIZE \in Nat \ {0} /\ HEADER \in Nat \ {0}
  BY PageNumbers
<1> DEFINE x == size + HEADER
           q == big_pages(size)
           z == q * PGSIZE
<1>2. x \in Nat \ {0} /\ x + PGSIZE - 1 \in Nat
  BY <1>1
<1>3. q = (x + PGSIZE - 1) \div PGSIZE
  BY DEF big_pages, DIV_ROUND_UP
<1>4. q \in Nat /\ x + PGSIZE - 1 < z + PGSIZE
  BY <1>1, <1>2, <1>3, DivIs
<1>5. z \in Nat
  BY <1>1, <1>4
<1>6. q = 0 => z = 0
  BY <1>1
<1> HIDE DEF z, q
<1>7. x <= z
  BY <1>1, <1>2, <1>4, <1>5
<1>8. q # 0 /\ size <= z - HEADER
  BY <1>1, <1>2, <1>5, <1>6, <1>7
<1> QED
  BY <1>4, <1>8 DEF z, q
-----------------------------------------------------------------------------
\* Lists without repetition.
LEMMA ConcatOnce ==
  ASSUME NEW s \in Seq(Nat), NEW t \in Seq(Nat), IsInjective(s), IsInjective(t),
         Range(s) \cap Range(t) = {}
  PROVE  /\ s \o t \in Seq(Nat) /\ IsInjective(s \o t)
         /\ Range(s \o t) = Range(s) \cup Range(t)
<1> DEFINE r == s \o t
           m == Len(s)
           n == Len(t)
<1>1. /\ r \in Seq(Nat) /\ m \in Nat /\ n \in Nat
      /\ DOMAIN s = 1 .. m /\ DOMAIN t = 1 .. n /\ DOMAIN r = 1 .. m + n
      /\ \A i \in 1 .. m + n : r[i] = IF i <= m THEN s[i] ELSE t[i - m]
  BY ConcatProperties, LenProperties
<1> HIDE DEF r, m, n
<1>2. \A i \in 1 .. m : i \in 1 .. m + n /\ r[i] = s[i]
  BY <1>1
<1>3. \A i \in 1 .. n : m + i \in 1 .. m + n /\ r[m + i] = t[i]
  <2> SUFFICES ASSUME NEW i \in 1 .. n PROVE m + i \in 1 .. m + n /\ r[m + i] = t[i]
    OBVIOUS
  <2>1. m + i \in 1 .. m + n /\ ~(m + i <= m) /\ (m + i) - m = i
    BY <1>1
  <2> QED
    BY <1>1, <2>1
<1>4. \A i \in 1 .. m + n : i \in 1 .. m \/ i - m \in 1 .. n
  BY <1>1
<1>5. \A i \in 1 .. m + n : \/ i \in 1 .. m /\ r[i] = s[i]
                            \/ i - m \in 1 .. n /\ r[i] = t[i - m] /\ i \notin 1 .. m
  BY <1>1, <1>4
<1>6. Range(r) = Range(s) \cup Range(t)
  <2>1. Range(s) \cup Range(t) \subseteq Range(r)
    <3>1. \A i \in 1 .. m + n : r[i] \in Range(r)
      BY <1>1 DEF Range
    <3>2. \A i \in 1 .. m : s[i] \in Range(r)
      BY <1>2, <3>1
    <3>3. \A i \in 1 .. n : t[i] \in Range(r)
      BY <1>3, <3>1
    <3>4. Range(s) = {s[i] : i \in 1 .. m} /\ Range(t) = {t[i] : i \in 1 .. n}
      BY <1>1 DEF Range
    <3> QED
      BY <3>2, <3>3, <3>4
  <2>2. \A i \in 1 .. m : s[i] \in Range(s)
    BY <1>1 DEF Range
  <2>3. \A i \in 1 .. n : t[i] \in Range(t)
    BY <1>1 DEF Range
  <2>4. \A i \in 1 .. m + n : r[i] \in Range(s) \cup Range(t)
    BY <1>5, <2>2, <2>3
  <2>5. Range(r) = {r[i] : i \in 1 .. m + n}
    BY <1>1 DEF Range
  <2> QED
    BY <2>1, <2>4, <2>5
<1>7. IsInjective(r)
  <2> SUFFICES ASSUME NEW i \in 1 .. m + n, NEW j \in 1 .. m + n, r[i] = r[j] PROVE i = j
    BY <1>1 DEF IsInjective
  <2>1. CASE i \in 1 .. m /\ j \in 1 .. m
    <3>1. s[i] = s[j]
      BY <1>2, <2>1
    <3> QED
      BY <1>1, <2>1, <3>1 DEF IsInjective
  <2>2. CASE i \notin 1 .. m /\ j \notin 1 .. m
    <3>1. i - m \in 1 .. n /\ j - m \in 1 .. n /\ t[i - m] = t[j - m]
      BY <1>5, <2>2
    <3>2. i - m = j - m
      BY <1>1, <3>1 DEF IsInjective
    <3> QED
      BY <1>1, <3>2
  <2>3. ASSUME NEW x \in 1 .. m + n, NEW y \in 1 .. m + n, x \in 1 .. m, y \notin 1 .. m
        PROVE r[x] # r[y]
    <3>1. r[x] \in Range(s)
      BY <1>1, <1>2, <2>3 DEF Range
    <3>2. r[y] \in Range(t)
      BY <1>1, <1>5, <2>3 DEF Range
    <3> QED
      BY <3>1, <3>2
  <2> QED
    BY <2>1, <2>2, <2>3
<1> QED
  BY <1>1, <1>6, <1>7 DEF r

LEMMA ConsOnce ==
  ASSUME NEW s \in Seq(Nat), IsInjective(s), NEW b \in Nat, b \notin Range(s)
  PROVE  /\ <<b>> \o s \in Seq(Nat) /\ IsInjective(<<b>> \o s)
         /\ Range(<<b>> \o s) = Range(s) \cup {b}
<1>1. <<b>> \in Seq(Nat) /\ IsInjective(<<b>>) /\ Range(<<b>>) = {b}
  <2>1. DOMAIN <<b>> = {1} /\ <<b>>[1] = b
    OBVIOUS
  <2> QED
    BY <2>1 DEF IsInjective, Range
<1>2. Range(<<b>>) \cap Range(s) = {}
  BY <1>1
<1>3. /\ <<b>> \o s \in Seq(Nat) /\ IsInjective(<<b>> \o s)
      /\ Range(<<b>> \o s) = Range(<<b>>) \cup Range(s)
  BY <1>1, <1>2, ConcatOnce
<1>4. Range(<<b>>) \cup Range(s) = Range(s) \cup {b}
  BY <1>1
<1> QED
  BY <1>3, <1>4

LEMMA TailOnce ==
  ASSUME NEW s \in Seq(Nat), IsInjective(s), s # <<>>
  PROVE  /\ Head(s) \in Range(s)
         /\ Tail(s) \in Seq(Nat) /\ IsInjective(Tail(s))
         /\ Range(Tail(s)) = Range(s) \ {Head(s)}
<1> DEFINE t == Tail(s)
           n == Len(s)
<1>1. /\ n \in Nat \ {0} /\ DOMAIN s = 1 .. n /\ Head(s) = s[1]
      /\ t \in Seq(Nat) /\ Len(t) = n - 1 /\ \A i \in 1 .. n - 1 : t[i] = s[i + 1]
  BY LenProperties, EmptySeq, HeadTailProperties
<1>2. DOMAIN t = 1 .. n - 1
  BY <1>1, LenProperties
<1> HIDE DEF t, n
<1>3. \A i \in 1 .. n - 1 : i + 1 \in 1 .. n /\ i + 1 # 1
  BY <1>1
<1>4. \A i \in 1 .. n : i # 1 => i - 1 \in 1 .. n - 1 /\ t[i - 1] = s[i]
  <2> SUFFICES ASSUME NEW i \in 1 .. n, i # 1 PROVE i - 1 \in 1 .. n - 1 /\ t[i - 1] = s[i]
    OBVIOUS
  <2>1. i - 1 \in 1 .. n - 1 /\ (i - 1) + 1 = i
    BY <1>1
  <2> QED
    BY <1>1, <2>1
<1>5. 1 \in 1 .. n
  BY <1>1
<1>6. \A i, j \in 1 .. n : s[i] = s[j] => i = j
  BY <1>1 DEF IsInjective
<1>7. IsInjective(t)
  <2> SUFFICES ASSUME NEW i \in 1 .. n - 1, NEW j \in 1 .. n - 1, t[i] = t[j] PROVE i = j
    BY <1>2 DEF IsInjective
  <2>1. i + 1 = j + 1
    BY <1>1, <1>3, <1>6
  <2> QED
    BY <1>1, <2>1
<1>8. Range(t) \subseteq Range(s) \ {s[1]}
  <2> SUFFICES ASSUME NEW i \in 1 .. n - 1 PROVE t[i] \in Range(s) /\ t[i] # s[1]
    BY <1>2 DEF Range
  <2>1. t[i] = s[i + 1] /\ i + 1 \in 1 .. n /\ 1 \in 1 .. n /\ i + 1 # 1
    BY <1>1
  <2>2. t[i] \in Range(s)
    BY <1>1, <1>3, <1>5, <2>1 DEF Range
  <2> QED
    BY <1>1, <1>6, <2>1, <2>2
<1>9. Range(s) \ {s[1]} \subseteq Range(t)
  <2> SUFFICES ASSUME NEW i \in 1 .. n, s[i] # s[1] PROVE s[i] \in Range(t)
    BY <1>1 DEF Range
  <2>1. i - 1 \in 1 .. n - 1 /\ t[i - 1] = s[i]
    BY <1>4
  <2> QED
    BY <1>2, <2>1 DEF Range
<1>10. Head(s) \in Range(s)
  BY <1>1, <1>5 DEF Range
<1> QED
  BY <1>1, <1>7, <1>8, <1>9, <1>10 DEF t
-----------------------------------------------------------------------------
\* A block depends on the arena at its page.
LEMMA SameArena ==
  ASSUME NEW h, NEW g, NEW b,
         g.arena[block_to_arena(b)] = h.arena[block_to_arena(b)]
  PROVE  (BlockOf(g, b) <=> BlockOf(h, b)) /\ Room(g, b) = Room(h, b)
BY DEF BlockOf, Room

\* An arena is where its blocks are.
LEMMA ArenaOfBlock ==
  ASSUME NEW h, HeapTypeOK(h), NEW p \in PoolRange, h.arena[p] # NIL,
         NEW b \in ArenaBlocks(p, h.arena[p].desc), h.arena[p].desc # 0
  PROVE  b \in Nat /\ block_to_arena(b) = p /\ BlockOf(h, b)
<1>1. h.arena[p].desc \in BlockSizes /\ p \in Nat
  BY PageNumbers DEF HeapTypeOK, Arenas
<1>2. b \in Nat /\ block_to_arena(b) = p
  BY <1>1, ArenaBlocksAre
<1> QED
  BY <1>2 DEF BlockOf

LEMMA HeapFields ==
  ASSUME NEW h, HeapTypeOK(h)
  PROVE  /\ h.used \in SUBSET PoolRange
         /\ h.arena \in [PoolRange -> {NIL} \cup Arenas]
         /\ h.free_list \in [BlockSizes -> Seq(Nat)]
         /\ NIL \notin Arenas
         /\ \A p \in PoolRange : h.arena[p] # NIL =>
              /\ h.arena[p].desc \in BlockSizes \cup {0} /\ h.arena[p].free_cnt \in Nat
              /\ IsSmall(h, p) => h.arena[p].desc \in BlockSizes
<1>1. \A d \in BlockSizes : d \in Nat
  BY SizesFit
<1>2. Arenas \subseteq [desc : Nat, free_cnt : Nat]
  BY <1>1 DEF Arenas
<1>3. NIL \notin Arenas
  BY <1>2, HeapAssumption
<1> QED
  BY <1>3 DEF HeapTypeOK, Arenas, IsSmall

\* Pages that were free become an arena.
LEMMA ArenaAdded ==
  ASSUME NEW h, HeapTypeOK(h), ArenasRight(h), NEW g, HeapTypeOK(g),
         NEW p \in PoolRange, NEW a \in Arenas, g.arena = [h.arena EXCEPT ![p] = a],
         a.desc = 0 => a.free_cnt > 0,
         PagesOfArena(g, p) \cap h.used = {}, g.used = h.used \cup PagesOfArena(g, p)
  PROVE  /\ h.arena[p] = NIL /\ ArenasRight(g)
         /\ \A b : BlockOf(h, b) =>
              block_to_arena(b) # p /\ BlockOf(g, b) /\ Room(g, b) = Room(h, b)
<1>1. \A q \in PoolRange : h.arena[q] # NIL => q \in PagesOfArena(h, q)
  <2> SUFFICES ASSUME NEW q \in PoolRange, h.arena[q] # NIL PROVE q \in PagesOfArena(h, q)
    OBVIOUS
  <2>1. q \in Nat /\ h.arena[q].free_cnt \in Nat /\ (h.arena[q].desc = 0 => h.arena[q].free_cnt > 0)
    BY HeapFields, PageNumbers DEF ArenasRight
  <2> QED
    BY <2>1 DEF PagesOfArena
<1>2. g.arena[p] = a /\ a # NIL /\ \A q \in PoolRange : q # p => g.arena[q] = h.arena[q]
  BY HeapFields
<1>3. p \in PagesOfArena(g, p)
  <2>1. p \in Nat /\ a.free_cnt \in Nat
    BY PageNumbers DEF Arenas
  <2> QED
    BY <1>2, <2>1 DEF PagesOfArena
<1>4. h.arena[p] = NIL
  BY <1>1, <1>3 DEF ArenasRight
<1>5. \A q \in PoolRange : q # p => PagesOfArena(g, q) = PagesOfArena(h, q)
  BY <1>2 DEF PagesOfArena
<1>6. ArenasRight(g)
  <2> SUFFICES ASSUME NEW q \in PoolRange, g.arena[q] # NIL
               PROVE  /\ PagesOfArena(g, q) \subseteq g.used
                      /\ g.arena[q].desc = 0 => g.arena[q].free_cnt > 0
                      /\ \A r \in PoolRange : g.arena[r] # NIL /\ r # q =>
                           PagesOfArena(g, q) \cap PagesOfArena(g, r) = {}
    BY DEF ArenasRight
  <2>1. CASE q = p
    <3>1. \A r \in PoolRange : g.arena[r] # NIL /\ r # p => PagesOfArena(g, r) \subseteq h.used
      BY <1>2, <1>5 DEF ArenasRight
    <3> QED
      BY <1>2, <2>1, <3>1
  <2>2. CASE q # p
    <3>1. h.arena[q] # NIL /\ PagesOfArena(g, q) = PagesOfArena(h, q) /\ g.arena[q] = h.arena[q]
      BY <1>2, <1>5, <2>2
    <3>2. PagesOfArena(h, q) \subseteq h.used /\ (h.arena[q].desc = 0 => h.arena[q].free_cnt > 0)
      BY <3>1 DEF ArenasRight
    <3>3. ASSUME NEW r \in PoolRange, g.arena[r] # NIL, r # q
          PROVE  PagesOfArena(g, q) \cap PagesOfArena(g, r) = {}
      <4>1. CASE r = p
        BY <3>1, <3>2, <4>1
      <4>2. CASE r # p
        <5>1. h.arena[r] # NIL /\ PagesOfArena(g, r) = PagesOfArena(h, r)
          BY <1>2, <1>5, <3>3, <4>2
        <5> QED
          BY <3>1, <3>3, <5>1 DEF ArenasRight
      <4> QED
        BY <4>1, <4>2
    <3> QED
      BY <3>1, <3>2, <3>3
  <2> QED
    BY <2>1, <2>2
<1>7. ASSUME NEW b, BlockOf(h, b)
      PROVE  block_to_arena(b) # p /\ BlockOf(g, b) /\ Room(g, b) = Room(h, b)
  <2>1. block_to_arena(b) \in PoolRange /\ h.arena[block_to_arena(b)] # NIL
    BY <1>7 DEF BlockOf
  <2>2. block_to_arena(b) # p
    BY <1>4, <2>1
  <2>3. g.arena[block_to_arena(b)] = h.arena[block_to_arena(b)]
    BY <1>2, <2>1, <2>2
  <2> QED
    BY <1>7, <2>2, <2>3, SameArena
<1> QED
  BY <1>4, <1>6, <1>7

\* Counts depend on an arena, on which of its blocks are free and which in hand.
LEMMA SameCount ==
  ASSUME NEW h, NEW g, NEW U, NEW V, NEW p, g.arena[p] = h.arena[p],
         LET B == ArenaBlocks(p, h.arena[p].desc)
             d == h.arena[p].desc
         IN  /\ B \cap Range(g.free_list[d]) = B \cap Range(h.free_list[d])
             /\ B \cap V = B \cap U,
         CountOf(h, U, p)
  PROVE  CountOf(g, V, p)
<1> DEFINE d == h.arena[p].desc
           B == ArenaBlocks(p, d)
           x == Range(g.free_list[d])
           y == Range(h.free_list[d])
<1>1. B \cap x = B \cap y /\ B \cap V = B \cap U
  OBVIOUS
<1>2. h.arena[p].free_cnt = Cardinality(B \cap y) /\ B \ y = B \cap U
  BY DEF CountOf
<1> HIDE DEF B, x, y
<1>3. h.arena[p].free_cnt = Cardinality(B \cap x) /\ B \ x = B \cap V
  BY <1>1, <1>2
<1> QED
  BY <1>3 DEF CountOf, B, x, y
-----------------------------------------------------------------------------
LEMMA SameDesc ==
  ASSUME NEW h, NEW g, NEW b,
         LET p == block_to_arena(b)
         IN  /\ h.arena[p] # NIL /\ g.arena[p] # NIL
             /\ h.arena[p].desc # 0 /\ g.arena[p].desc = h.arena[p].desc
  PROVE  (BlockOf(g, b) <=> BlockOf(h, b)) /\ Room(g, b) = Room(h, b)
BY DEF BlockOf, Room

\* What a small arena's blocks and counts are.
LEMMA SmallArena ==
  ASSUME NEW h, NEW U, HeapSound(h, U), NEW p \in PoolRange, IsSmall(h, p)
  PROVE  LET d == h.arena[p].desc
             B == ArenaBlocks(p, d)
             F == Range(h.free_list[d])
         IN  /\ d \in BlockSizes /\ p \in Nat
             /\ IsFiniteSet(B) /\ IsFiniteSet(B \cap F)
             /\ Cardinality(B) = blocks_per_arena(d) /\ blocks_per_arena(d) \in Nat
             /\ h.arena[p].free_cnt = Cardinality(B \cap F) /\ h.arena[p].free_cnt \in Nat
             /\ Cardinality(B \cap F) <= blocks_per_arena(d)
             /\ B \ F = B \cap U
             /\ \A b \in B : b \in Nat /\ block_to_arena(b) = p
             /\ \A b : BlockOf(h, b) /\ block_to_arena(b) = p => b \in B
<1> DEFINE d == h.arena[p].desc
           B == ArenaBlocks(p, d)
           F == Range(h.free_list[d])
<1>1. d \in BlockSizes /\ p \in Nat /\ d # 0
  BY HeapFields, PageNumbers DEF HeapSound, IsSmall
<1>2. IsFiniteSet(B) /\ Cardinality(B) = blocks_per_arena(d) /\ \A b \in B : b \in Nat /\ block_to_arena(b) = p
  BY <1>1, ArenaBlocksAre
<1>3. IsFiniteSet(B \cap F) /\ Cardinality(B \cap F) <= Cardinality(B)
  <2>1. B \cap F \in SUBSET B
    OBVIOUS
  <2> QED
    BY <1>2, <2>1, FS_Subset
<1>4. h.arena[p].free_cnt = Cardinality(B \cap F) /\ B \ F = B \cap U
  BY DEF HeapSound, CountOf
<1>5. \A b : BlockOf(h, b) /\ block_to_arena(b) = p => b \in B
  BY <1>1 DEF BlockOf
<1>6. Cardinality(B \cap F) \in Nat /\ blocks_per_arena(d) \in Nat
  BY <1>1, <1>3, FS_CardinalityType, SizesFit
<1> QED
  BY <1>1, <1>2, <1>3, <1>4, <1>5, <1>6

\* A big block is an arena of its own.
BigGives(h, U, size, g, b) ==
  /\ HeapSound(g, U \cup {b}) /\ b \in Nat /\ b \notin U /\ size <= Room(g, b)
  /\ \A c \in U : Room(g, c) = Room(h, c)
  /\ \A p \in PoolRange : IsSmall(g, p) => IsSmall(h, p) /\ g.arena[p] = h.arena[p]

LEMMA BigBlockSound ==
  ASSUME NEW h, NEW U, HeapSound(h, U), NEW size \in Nat \ {0}, big_block(h, size)[2] # NIL
  PROVE  BigGives(h, U, size, big_block(h, size)[1], big_block(h, size)[2])
<1> DEFINE n == big_pages(size)
           p == first_pages(h, n)
           a == [desc |-> 0, free_cnt |-> n]
           g == [h EXCEPT !.used = @ \cup p .. p + n - 1, !.arena[p] = a]
           b == p * PGSIZE + HEADER
<1>1. n \in Nat \ {0} /\ size <= n * PGSIZE - HEADER
  BY BigPages
<1>2. p # NIL /\ big_block(h, size) = <<g, b>>
  BY DEF big_block
<1>3. p \in PoolRange /\ p + n <= PoolPages /\ p .. p + n - 1 \cap h.used = {} /\ p \in Nat /\ PoolPages \in Nat
  BY <1>1, <1>2, FirstPages, PageNumbers
<1>4. /\ h.used \in SUBSET PoolRange /\ h.arena \in [PoolRange -> {NIL} \cup Arenas]
      /\ h.free_list \in [BlockSizes -> Seq(Nat)] /\ HeapTypeOK(h) /\ ArenasRight(h)
  BY HeapFields DEF HeapSound
<1>5. a \in Arenas /\ a.desc = 0 /\ a.free_cnt = n
  BY <1>1 DEF Arenas
<1> HIDE DEF a, n, p
<1>6. /\ g.used = h.used \cup p .. p + n - 1 /\ g.free_list = h.free_list
      /\ g.arena = [h.arena EXCEPT ![p] = a]
      /\ HeapTypeOK(g) <=> /\ g.used \in SUBSET PoolRange
                           /\ g.arena \in [PoolRange -> {NIL} \cup Arenas]
                           /\ g.free_list \in [BlockSizes -> Seq(Nat)]
  BY <1>4 DEF HeapTypeOK
<1> HIDE DEF g
<1>7. p .. p + n - 1 \subseteq PoolRange
  <2> SUFFICES ASSUME NEW i \in p .. p + n - 1 PROVE i \in PoolRange
    OBVIOUS
  <2>1. i \in Nat /\ i <= PoolPages - 1
    BY <1>1, <1>3
  <2> QED
    BY <1>3, <2>1 DEF PoolRange
<1>8. HeapTypeOK(g)
  <2>1. g.used \in SUBSET PoolRange
    BY <1>4, <1>6, <1>7
  <2>2. g.arena \in [PoolRange -> {NIL} \cup Arenas]
    BY <1>4, <1>5, <1>6
  <2> QED
    BY <1>4, <1>6, <2>1, <2>2
<1>9. g.arena[p] = a /\ PagesOfArena(g, p) = p .. p + n - 1
  BY <1>3, <1>4, <1>5, <1>6 DEF PagesOfArena
<1>10. /\ h.arena[p] = NIL /\ ArenasRight(g)
       /\ \A c : BlockOf(h, c) => block_to_arena(c) # p /\ BlockOf(g, c) /\ Room(g, c) = Room(h, c)
  <2>1. a.desc = 0 => a.free_cnt > 0
    BY <1>1, <1>5
  <2>2. g.used = h.used \cup PagesOfArena(g, p) /\ PagesOfArena(g, p) \cap h.used = {}
    BY <1>3, <1>6, <1>9
  <2>3. g.arena = [h.arena EXCEPT ![p] = a]
    BY <1>6
  <2> QED
    BY <1>3, <1>4, <1>5, <1>8, <2>1, <2>2, <2>3, ArenaAdded
<1>11. b \in Nat /\ block_to_arena(b) = p
  BY <1>3, PageNumbers
<1>12. BlockOf(g, b) /\ Room(g, b) = n * PGSIZE - HEADER
  <2>1. a # NIL
    BY <1>4, <1>5, HeapFields
  <2> QED
    BY <1>3, <1>5, <1>9, <1>11, <2>1 DEF BlockOf, Room
<1> HIDE DEF b
<1>13. \A c \in U : BlockOf(h, c)
  BY DEF HeapSound
<1>14. b \notin U
  BY <1>10, <1>11, <1>13
<1>15. \A q \in PoolRange : IsSmall(g, q) => q # p /\ IsSmall(h, q) /\ g.arena[q] = h.arena[q]
  <2> SUFFICES ASSUME NEW q \in PoolRange, IsSmall(g, q)
               PROVE  q # p /\ IsSmall(h, q) /\ g.arena[q] = h.arena[q]
    OBVIOUS
  <2>1. q # p
    BY <1>5, <1>9 DEF IsSmall
  <2>2. g.arena[q] = h.arena[q]
    BY <1>4, <1>6, <2>1
  <2> QED
    BY <2>1, <2>2 DEF IsSmall
<1>16. ListsRight(g)
  <2> SUFFICES ASSUME NEW d \in BlockSizes
               PROVE  /\ IsInjective(h.free_list[d])
                      /\ \A c \in Range(h.free_list[d]) : BlockOf(g, c) /\ g.arena[block_to_arena(c)].desc = d
    BY <1>6 DEF ListsRight
  <2>1. /\ IsInjective(h.free_list[d])
        /\ \A c \in Range(h.free_list[d]) : BlockOf(h, c) /\ h.arena[block_to_arena(c)].desc = d
    BY DEF HeapSound, ListsRight
  <2>2. ASSUME NEW c \in Range(h.free_list[d])
        PROVE  BlockOf(g, c) /\ g.arena[block_to_arena(c)].desc = d
    <3>1. BlockOf(g, c) /\ block_to_arena(c) # p /\ block_to_arena(c) \in PoolRange
      BY <1>10, <2>1 DEF BlockOf
    <3>2. g.arena[block_to_arena(c)] = h.arena[block_to_arena(c)]
      BY <1>4, <1>6, <3>1
    <3> QED
      BY <2>1, <3>1, <3>2
  <2> QED
    BY <2>1, <2>2
<1>17. ASSUME NEW q \in PoolRange, IsSmall(g, q) PROVE CountOf(g, U \cup {b}, q)
  <2>1. q # p /\ IsSmall(h, q) /\ g.arena[q] = h.arena[q] /\ CountOf(h, U, q)
    BY <1>15, <1>17 DEF HeapSound
  <2>2. \A c \in ArenaBlocks(q, h.arena[q].desc) : block_to_arena(c) = q
    BY <2>1, SmallArena
  <2>3. ArenaBlocks(q, h.arena[q].desc) \cap (U \cup {b}) = ArenaBlocks(q, h.arena[q].desc) \cap U
    BY <1>11, <2>1, <2>2
  <2> QED
    BY <1>6, <2>1, <2>3, SameCount
<1>18. \A c \in U \cup {b} : BlockOf(g, c)
  BY <1>10, <1>12, <1>13
<1>19. HeapSound(g, U \cup {b})
  BY <1>8, <1>10, <1>16, <1>17, <1>18 DEF HeapSound
<1>20. BigGives(h, U, size, g, b)
  BY <1>1, <1>10, <1>11, <1>12, <1>13, <1>14, <1>15, <1>19 DEF BigGives
<1> QED
  BY <1>2, <1>20

\* A page becomes an arena of free blocks.
LEMMA NewArenaSound ==
  ASSUME NEW h, NEW U, HeapSound(h, U), NEW d \in BlockSizes, first_pages(h, 1) # NIL
  PROVE  LET p == first_pages(h, 1)
             g == new_arena(h, d, p)
         IN  /\ HeapSound(g, U) /\ g.free_list[d] # <<>>
             /\ \A c : BlockOf(h, c) => BlockOf(g, c) /\ Room(g, c) = Room(h, c)
             /\ p \in PoolRange /\ \A q \in PoolRange : q # p => g.arena[q] = h.arena[q]
             /\ h.free_list[d] = <<>> => \A b \in Range(g.free_list[d]) : block_to_arena(b) = p
<1> DEFINE p == first_pages(h, 1)
           a == [desc |-> d, free_cnt |-> blocks_per_arena(d)]
           B == ArenaBlocks(p, d)
           g == new_arena(h, d, p)
<1>1. d \in Nat \ {0} /\ blocks_per_arena(d) \in Nat \ {0}
  BY SizesFit
<1>2. p \in PoolRange /\ p \in Nat /\ p \notin h.used
  <2>1. p \in PoolRange /\ p .. p + 1 - 1 \cap h.used = {}
    BY FirstPages
  <2>2. p \in Nat
    BY <2>1, PageNumbers
  <2>3. p \in p .. p + 1 - 1
    BY <2>2
  <2> QED
    BY <2>1, <2>2, <2>3
<1>3. /\ arena_blocks(p, d) \in Seq(Nat) /\ Len(arena_blocks(p, d)) = blocks_per_arena(d)
      /\ IsInjective(arena_blocks(p, d)) /\ Range(arena_blocks(p, d)) = B
      /\ IsFiniteSet(B) /\ Cardinality(B) = blocks_per_arena(d)
      /\ \A b \in B : b \in Nat /\ block_to_arena(b) = p
  BY <1>2, ArenaBlocksAre
<1>4. /\ h.used \in SUBSET PoolRange /\ h.arena \in [PoolRange -> {NIL} \cup Arenas]
      /\ h.free_list \in [BlockSizes -> Seq(Nat)] /\ HeapTypeOK(h) /\ ArenasRight(h) /\ NIL \notin Arenas
  BY HeapFields DEF HeapSound
<1>5. a \in Arenas /\ a.desc = d /\ a.free_cnt = blocks_per_arena(d)
  BY <1>1 DEF Arenas
<1> HIDE DEF p
<1>6. /\ g.used = h.used \cup {p} /\ g.arena = [h.arena EXCEPT ![p] = a]
      /\ g.free_list = [h.free_list EXCEPT ![d] = @ \o arena_blocks(p, d)]
      /\ HeapTypeOK(g) <=> /\ g.used \in SUBSET PoolRange
                           /\ g.arena \in [PoolRange -> {NIL} \cup Arenas]
                           /\ g.free_list \in [BlockSizes -> Seq(Nat)]
  BY <1>4 DEF HeapTypeOK, new_arena
<1> HIDE DEF g, B, a
<1>7. \A c \in Range(h.free_list[d]) : BlockOf(h, c) /\ h.arena[block_to_arena(c)].desc = d
  BY DEF HeapSound, ListsRight
<1>8. h.arena[p] = NIL
  <2> SUFFICES ASSUME h.arena[p] # NIL PROVE FALSE
    OBVIOUS
  <2>1. PagesOfArena(h, p) \subseteq h.used /\ (h.arena[p].desc = 0 => h.arena[p].free_cnt > 0)
    BY <1>2, <1>4 DEF ArenasRight
  <2>2. h.arena[p].free_cnt \in Nat
    BY <1>2, <1>4, HeapFields
  <2>3. p \in PagesOfArena(h, p)
    BY <1>2, <2>1, <2>2 DEF PagesOfArena
  <2> QED
    BY <1>2, <2>1, <2>3
<1>9. \A c : BlockOf(h, c) => block_to_arena(c) # p /\ block_to_arena(c) \in PoolRange
  BY <1>8 DEF BlockOf
<1>10. h.free_list[d] \in Seq(Nat) /\ IsInjective(h.free_list[d]) /\ Range(h.free_list[d]) \cap B = {}
  <2>1. Range(h.free_list[d]) \cap B = {}
    BY <1>3, <1>7, <1>9
  <2>2. IsInjective(h.free_list[d])
    BY DEF HeapSound, ListsRight
  <2> QED
    BY <1>4, <2>1, <2>2
<1>11. /\ g.free_list[d] \in Seq(Nat) /\ IsInjective(g.free_list[d])
       /\ Range(g.free_list[d]) = Range(h.free_list[d]) \cup B
  <2>1. g.free_list[d] = h.free_list[d] \o arena_blocks(p, d)
    BY <1>4, <1>6
  <2> QED
    BY <1>3, <1>10, <2>1, ConcatOnce
<1>12. \A e \in BlockSizes : e # d => g.free_list[e] = h.free_list[e]
  BY <1>4, <1>6
<1>13. HeapTypeOK(g)
  <2>1. g.free_list \in [BlockSizes -> Seq(Nat)]
    BY <1>4, <1>6, <1>11
  <2>2. g.arena \in [PoolRange -> {NIL} \cup Arenas]
    <3>1. [h.arena EXCEPT ![p] = a] \in [PoolRange -> {NIL} \cup Arenas]
      BY <1>4, <1>5
    <3> QED
      BY <1>6, <3>1
  <2>3. g.used \in SUBSET PoolRange
    BY <1>2, <1>4, <1>6
  <2> QED
    BY <1>6, <2>1, <2>2, <2>3
<1>14. g.arena[p] = a /\ PagesOfArena(g, p) = {p}
  <2>1. g.arena[p] = a
    BY <1>2, <1>4, <1>6
  <2> QED
    BY <1>1, <1>5, <2>1 DEF PagesOfArena
<1>15. /\ ArenasRight(g)
       /\ \A c : BlockOf(h, c) => block_to_arena(c) # p /\ BlockOf(g, c) /\ Room(g, c) = Room(h, c)
  <2>1. PagesOfArena(g, p) \cap h.used = {} /\ g.used = h.used \cup PagesOfArena(g, p)
    BY <1>2, <1>6, <1>14
  <2>2. a.desc = 0 => a.free_cnt > 0
    BY <1>1, <1>5
  <2>3. g.arena = [h.arena EXCEPT ![p] = a]
    BY <1>6
  <2> QED
    BY <1>2, <1>4, <1>5, <1>13, <2>1, <2>2, <2>3, ArenaAdded
<1>16. \A q \in PoolRange : q # p => g.arena[q] = h.arena[q]
  BY <1>4, <1>6
<1>17. \A c \in B : BlockOf(g, c) /\ g.arena[block_to_arena(c)].desc = d
  <2>1. a # NIL
    BY <1>4, <1>5
  <2> QED
    BY <1>1, <1>2, <1>3, <1>5, <1>14, <2>1 DEF BlockOf, B
<1>18. ListsRight(g)
  <2> SUFFICES ASSUME NEW e \in BlockSizes
               PROVE  /\ IsInjective(g.free_list[e])
                      /\ \A c \in Range(g.free_list[e]) : BlockOf(g, c) /\ g.arena[block_to_arena(c)].desc = e
    BY DEF ListsRight
  <2>1. /\ IsInjective(h.free_list[e])
        /\ \A c \in Range(h.free_list[e]) : BlockOf(h, c) /\ h.arena[block_to_arena(c)].desc = e
    BY DEF HeapSound, ListsRight
  <2>2. \A c \in Range(h.free_list[e]) : BlockOf(g, c) /\ g.arena[block_to_arena(c)].desc = e
    BY <1>9, <1>15, <1>16, <2>1
  <2>3. CASE e = d
    BY <1>11, <1>17, <2>2, <2>3
  <2>4. CASE e # d
    BY <1>12, <2>1, <2>2, <2>4
  <2> QED
    BY <2>3, <2>4
<1>19. \A c \in U : BlockOf(h, c)
  BY DEF HeapSound
<1>20. ASSUME NEW q \in PoolRange, IsSmall(g, q) PROVE CountOf(g, U, q)
  <2>1. CASE q = p
    <3>1. B \cap Range(g.free_list[d]) = B /\ B \ Range(g.free_list[d]) = {}
      BY <1>11
    <3>2. B \cap U = {}
      BY <1>3, <1>9, <1>19
    <3> QED
      BY <1>3, <1>5, <1>14, <2>1, <3>1, <3>2 DEF CountOf, B
  <2>2. CASE q # p
    <3>1. IsSmall(h, q) /\ g.arena[q] = h.arena[q] /\ CountOf(h, U, q)
      BY <1>16, <1>20, <2>2 DEF HeapSound, IsSmall
    <3> DEFINE e == h.arena[q].desc
               C == ArenaBlocks(q, e)
    <3>2. e \in BlockSizes /\ \A c \in C : block_to_arena(c) = q
      BY <3>1, SmallArena
    <3>3. C \cap B = {}
      BY <1>3, <2>2, <3>2
    <3> HIDE DEF C
    <3>4. C \cap Range(g.free_list[e]) = C \cap Range(h.free_list[e])
      BY <1>11, <1>12, <3>2, <3>3
    <3> QED
      BY <3>1, <3>4, SameCount DEF C
  <2> QED
    BY <2>1, <2>2
<1>21. HeapSound(g, U)
  BY <1>13, <1>15, <1>18, <1>19, <1>20 DEF HeapSound
<1>22. g.free_list[d] # <<>>
  <2>1. B # {}
    BY <1>1, <1>3, FS_EmptySet
  <2>2. Range(<<>>) = {}
    BY DEF Range
  <2> QED
    BY <1>11, <2>1, <2>2
<1>23. h.free_list[d] = <<>> => \A b \in Range(g.free_list[d]) : block_to_arena(b) = p
  <2>1. h.free_list[d] = <<>> => Range(h.free_list[d]) = {}
    BY DEF Range
  <2> QED
    BY <1>3, <1>11, <2>1
<1> QED
  BY <1>2, <1>15, <1>16, <1>21, <1>22, <1>23 DEF p, g

\* The first free block goes to the caller.
LEMMA HeadTaken ==
  ASSUME NEW h, NEW U, HeapSound(h, U), NEW d \in BlockSizes, h.free_list[d] # <<>>
  PROVE  LET b == Head(h.free_list[d])
             p == block_to_arena(b)
             g == [h EXCEPT !.free_list[d] = Tail(@), !.arena[p].free_cnt = @ - 1]
         IN  /\ HeapSound(g, U \cup {b}) /\ b \in Nat /\ b \notin U /\ Room(g, b) = d
             /\ b \in Range(h.free_list[d]) /\ p \in PoolRange
             /\ \A c : BlockOf(h, c) => BlockOf(g, c) /\ Room(g, c) = Room(h, c)
             /\ \A q \in PoolRange : q # p => g.arena[q] = h.arena[q]
             /\ g.arena[p].desc = d /\ g.arena[p].free_cnt < blocks_per_arena(d)
<1> DEFINE b == Head(h.free_list[d])
           p == block_to_arena(b)
           F == Range(h.free_list[d])
           B == ArenaBlocks(p, d)
           g == [h EXCEPT !.free_list[d] = Tail(@), !.arena[p].free_cnt = @ - 1]
<1>1. /\ h.used \in SUBSET PoolRange /\ h.arena \in [PoolRange -> {NIL} \cup Arenas]
      /\ h.free_list \in [BlockSizes -> Seq(Nat)] /\ HeapTypeOK(h) /\ ArenasRight(h) /\ NIL \notin Arenas
  BY HeapFields DEF HeapSound
<1>2. h.free_list[d] \in Seq(Nat) /\ IsInjective(h.free_list[d])
      /\ \A c \in F : BlockOf(h, c) /\ h.arena[block_to_arena(c)].desc = d
  BY <1>1 DEF HeapSound, ListsRight
<1>3. /\ b \in F /\ Tail(h.free_list[d]) \in Seq(Nat) /\ IsInjective(Tail(h.free_list[d]))
      /\ Range(Tail(h.free_list[d])) = F \ {b}
  BY <1>2, TailOnce
<1> HIDE DEF b
<1>4. d # 0 /\ d \in Nat
  BY SizesFit
<1>5. BlockOf(h, b) /\ p \in PoolRange /\ h.arena[p] # NIL /\ h.arena[p].desc = d /\ b \in Nat /\ IsSmall(h, p)
  BY <1>2, <1>3, <1>4 DEF BlockOf, IsSmall
<1>6. /\ IsFiniteSet(B \cap F) /\ Cardinality(B) = blocks_per_arena(d) /\ blocks_per_arena(d) \in Nat
      /\ h.arena[p].free_cnt = Cardinality(B \cap F) /\ h.arena[p].free_cnt \in Nat
      /\ Cardinality(B \cap F) <= blocks_per_arena(d) /\ B \ F = B \cap U
      /\ (\A c \in B : c \in Nat /\ block_to_arena(c) = p) /\ b \in B
  <2> HIDE DEF p
  <2>1. p \in PoolRange /\ IsSmall(h, p) /\ h.arena[p].desc = d
    BY <1>5
  <2>2. /\ IsFiniteSet(B \cap F) /\ Cardinality(B) = blocks_per_arena(d) /\ blocks_per_arena(d) \in Nat
        /\ h.arena[p].free_cnt = Cardinality(B \cap F) /\ h.arena[p].free_cnt \in Nat
        /\ Cardinality(B \cap F) <= blocks_per_arena(d) /\ B \ F = B \cap U
        /\ \A c \in B : c \in Nat /\ block_to_arena(c) = p
    BY <2>1, SmallArena
  <2>3. b \in B
    <3>1. BlockOf(h, b) /\ block_to_arena(b) = p
      BY <1>5 DEF p
    <3> QED
      BY <2>1, <3>1, SmallArena
  <2> QED
    BY <2>2, <2>3
<1> DEFINE a == [desc |-> d, free_cnt |-> h.arena[p].free_cnt - 1]
<1>7. h.arena[p] = [desc |-> d, free_cnt |-> h.arena[p].free_cnt]
  <2>1. h.arena[p] \in Arenas
    BY <1>1, <1>5
  <2> QED
    BY <1>5, <2>1 DEF Arenas
<1> HIDE DEF p, F, B
<1>8. /\ g.used = h.used /\ g.arena = [h.arena EXCEPT ![p].free_cnt = @ - 1]
      /\ g.free_list = [h.free_list EXCEPT ![d] = Tail(@)]
      /\ HeapTypeOK(g) <=> /\ g.used \in SUBSET PoolRange
                           /\ g.arena \in [PoolRange -> {NIL} \cup Arenas]
                           /\ g.free_list \in [BlockSizes -> Seq(Nat)]
  BY <1>1 DEF HeapTypeOK
<1> HIDE DEF g
<1>9. g.arena[p].desc = d /\ g.arena[p].free_cnt = h.arena[p].free_cnt - 1 /\ g.arena[p] = a
  <2>1. g.arena[p] = [h.arena[p] EXCEPT !.free_cnt = @ - 1]
    BY <1>1, <1>5, <1>8
  <2> QED
    BY <1>7, <2>1
<1>10. \A q \in PoolRange : q # p => g.arena[q] = h.arena[q]
  BY <1>1, <1>8
<1>11. /\ Cardinality((B \cap F) \ {b}) = Cardinality(B \cap F) - 1 /\ IsFiniteSet((B \cap F) \ {b})
       /\ Cardinality((B \cap F) \ {b}) \in Nat
  <2>1. b \in B \cap F
    BY <1>3, <1>6
  <2>2. IsFiniteSet((B \cap F) \ {b}) /\ Cardinality((B \cap F) \ {b}) = Cardinality(B \cap F) - 1
    BY <1>6, <2>1, FS_RemoveElement
  <2> QED
    BY <2>2, FS_CardinalityType
<1>12. a.free_cnt = Cardinality((B \cap F) \ {b}) /\ a \in Arenas /\ a # NIL /\ a.free_cnt < blocks_per_arena(d)
  <2>1. a.free_cnt = Cardinality((B \cap F) \ {b}) /\ a.free_cnt \in Nat /\ a.free_cnt < blocks_per_arena(d)
    BY <1>6, <1>11
  <2>2. a \in Arenas
    BY <2>1 DEF Arenas
  <2> QED
    BY <1>1, <2>1, <2>2
<1> HIDE DEF a
<1>13. /\ g.free_list[d] = Tail(h.free_list[d]) /\ Range(g.free_list[d]) = F \ {b}
       /\ \A e \in BlockSizes : e # d => g.free_list[e] = h.free_list[e]
  BY <1>1, <1>3, <1>8
<1>14. HeapTypeOK(g)
  <2>1. \A q \in PoolRange : g.arena[q] \in {NIL} \cup Arenas
    BY <1>1, <1>9, <1>10, <1>12
  <2>2. g.arena \in [PoolRange -> {NIL} \cup Arenas]
    BY <1>1, <1>8, <2>1
  <2>3. \A e \in BlockSizes : g.free_list[e] \in Seq(Nat)
    BY <1>1, <1>3, <1>13
  <2>4. g.free_list \in [BlockSizes -> Seq(Nat)]
    BY <1>1, <1>8, <2>3
  <2> QED
    BY <1>1, <1>8, <2>2, <2>4
<1>15. \A q \in PoolRange : /\ g.arena[q] # NIL <=> h.arena[q] # NIL
                            /\ h.arena[q] # NIL => g.arena[q].desc = h.arena[q].desc
                            /\ PagesOfArena(g, q) = PagesOfArena(h, q)
  <2> SUFFICES ASSUME NEW q \in PoolRange
               PROVE  /\ g.arena[q] # NIL <=> h.arena[q] # NIL
                      /\ h.arena[q] # NIL => g.arena[q].desc = h.arena[q].desc
                      /\ PagesOfArena(g, q) = PagesOfArena(h, q)
    OBVIOUS
  <2>1. CASE q = p
    BY <1>4, <1>5, <1>9, <1>12, <2>1 DEF PagesOfArena
  <2>2. CASE q # p
    BY <1>10, <2>2 DEF PagesOfArena
  <2> QED
    BY <2>1, <2>2
<1>16. ArenasRight(g)
  <2>1. \A q \in PoolRange : g.arena[q] # NIL =>
          PagesOfArena(g, q) \subseteq g.used /\ (g.arena[q].desc = 0 => g.arena[q].free_cnt > 0)
    BY <1>1, <1>4, <1>8, <1>9, <1>10, <1>15 DEF ArenasRight
  <2>2. \A q, r \in PoolRange : g.arena[q] # NIL /\ g.arena[r] # NIL /\ r # q =>
          PagesOfArena(g, q) \cap PagesOfArena(g, r) = {}
    BY <1>1, <1>15 DEF ArenasRight
  <2> QED
    BY <2>1, <2>2 DEF ArenasRight
<1>17. \A c : BlockOf(h, c) => BlockOf(g, c) /\ Room(g, c) = Room(h, c)
  <2> SUFFICES ASSUME NEW c, BlockOf(h, c) PROVE BlockOf(g, c) /\ Room(g, c) = Room(h, c)
    OBVIOUS
  <2>1. block_to_arena(c) \in PoolRange /\ h.arena[block_to_arena(c)] # NIL
    BY DEF BlockOf
  <2>2. CASE block_to_arena(c) = p
    <3>1. g.arena[p] # NIL /\ h.arena[p] # NIL /\ h.arena[p].desc # 0 /\ g.arena[p].desc = h.arena[p].desc
      BY <1>4, <1>5, <1>9, <1>12
    <3> QED
      BY <2>2, <3>1, SameDesc
  <2>3. CASE block_to_arena(c) # p
    BY <1>10, <2>1, <2>3, SameArena
  <2> QED
    BY <2>2, <2>3
<1>18. ListsRight(g)
  <2> SUFFICES ASSUME NEW e \in BlockSizes
               PROVE  /\ IsInjective(g.free_list[e])
                      /\ \A c \in Range(g.free_list[e]) : BlockOf(g, c) /\ g.arena[block_to_arena(c)].desc = e
    BY DEF ListsRight
  <2>1. /\ IsInjective(h.free_list[e])
        /\ \A c \in Range(h.free_list[e]) : BlockOf(h, c) /\ h.arena[block_to_arena(c)].desc = e
    BY DEF HeapSound, ListsRight
  <2>2. \A c \in Range(h.free_list[e]) : BlockOf(g, c) /\ g.arena[block_to_arena(c)].desc = e
    BY <1>15, <1>17, <2>1 DEF BlockOf
  <2>3. CASE e = d
    BY <1>3, <1>13, <2>2, <2>3 DEF F
  <2>4. CASE e # d
    BY <1>13, <2>1, <2>2, <2>4
  <2> QED
    BY <2>3, <2>4
<1>19. \A c \in U \cup {b} : BlockOf(g, c)
  BY <1>5, <1>17 DEF HeapSound
<1>20. ASSUME NEW q \in PoolRange, IsSmall(g, q) PROVE CountOf(g, U \cup {b}, q)
  <2>1. CASE q = p
    <3>1. B \cap Range(g.free_list[d]) = (B \cap F) \ {b} /\ B \ Range(g.free_list[d]) = B \cap (U \cup {b})
      BY <1>3, <1>6, <1>13
    <3> QED
      BY <1>9, <1>12, <2>1, <3>1 DEF CountOf, B
  <2>2. CASE q # p
    <3>1. IsSmall(h, q) /\ g.arena[q] = h.arena[q] /\ CountOf(h, U, q)
      BY <1>10, <1>20, <2>2 DEF HeapSound, IsSmall
    <3> DEFINE e == h.arena[q].desc
               C == ArenaBlocks(q, e)
    <3>2. e \in BlockSizes /\ \A c \in C : block_to_arena(c) = q
      BY <3>1, SmallArena
    <3>3. b \notin C
      BY <2>2, <3>2 DEF p
    <3> HIDE DEF C
    <3>4. C \cap Range(g.free_list[e]) = C \cap Range(h.free_list[e]) /\ C \cap (U \cup {b}) = C \cap U
      BY <1>13, <3>2, <3>3 DEF F
    <3> QED
      BY <3>1, <3>4, SameCount DEF C
  <2> QED
    BY <2>1, <2>2
<1>21. HeapSound(g, U \cup {b})
  BY <1>14, <1>16, <1>18, <1>19, <1>20 DEF HeapSound
<1>22. b \notin U
  BY <1>3, <1>6
<1>23. Room(g, b) = d
  BY <1>4, <1>9 DEF Room, p
<1>24. g.arena[p].free_cnt < blocks_per_arena(d)
  BY <1>9, <1>12
<1> QED
  BY <1>3, <1>5, <1>9, <1>10, <1>17, <1>21, <1>22, <1>23, <1>24 DEF b, p, g, F

\* What malloc promises about the heap g after it and the block b.
HeapGives(h, U, size, g, b) ==
  /\ HeapRight(g, U \cup {b}) /\ b \in Nat /\ b \notin U /\ size <= Room(g, b)
  /\ \A c \in U : Room(g, c) = Room(h, c)

LEMMA MallocGives ==
  ASSUME NEW h, NEW U, HeapRight(h, U), NEW size \in Nat \ {0}, malloc(h, size)[2] # NIL
  PROVE  HeapGives(h, U, size, malloc(h, size)[1], malloc(h, size)[2])
<1> DEFINE d == desc_for(size)
<1>0. HeapSound(h, U) /\ \A c \in U : BlockOf(h, c)
  BY DEF HeapRight, HeapSound
<1>1. CASE d = 0
  <2> DEFINE g == big_block(h, size)[1]
             b == big_block(h, size)[2]
  <2>1. malloc(h, size) = big_block(h, size)
    BY <1>1 DEF malloc
  <2>2. /\ HeapSound(g, U \cup {b}) /\ b \in Nat /\ b \notin U /\ size <= Room(g, b)
        /\ \A c \in U : Room(g, c) = Room(h, c)
        /\ \A p \in PoolRange : IsSmall(g, p) => IsSmall(h, p) /\ g.arena[p] = h.arena[p]
    <3>1. HeapSound(h, U) /\ big_block(h, size)[2] # NIL
      BY <1>0, <2>1
    <3>2. BigGives(h, U, size, g, b)
      BY <3>1, BigBlockSound
    <3> HIDE DEF g, b
    <3> QED
      BY <3>2 DEF BigGives
  <2> HIDE DEF g, b
  <2>3. HeapRight(g, U \cup {b})
    BY <2>2 DEF HeapRight
  <2>4. HeapGives(h, U, size, g, b)
    BY <2>2, <2>3 DEF HeapGives
  <2> QED
    BY <2>1, <2>4 DEF g, b
<1>2. CASE d # 0
  <2>1. d \in BlockSizes /\ size <= d /\ d \in Nat
    BY <1>2, DescFor, SizesFit
  <2> DEFINE page == first_pages(h, 1)
             k == IF h.free_list[d] # <<>> THEN h ELSE new_arena(h, d, page)
             b == Head(k.free_list[d])
             p == block_to_arena(b)
             g == [k EXCEPT !.free_list[d] = Tail(@), !.arena[p].free_cnt = @ - 1]
  <2>2. malloc(h, size) = small_block(h, d)
    BY <1>2 DEF malloc
  <2>3. (h.free_list[d] # <<>> \/ page # NIL) /\ small_block(h, d) = <<g, b>>
    <3>1. ~(h.free_list[d] = <<>> /\ page = NIL)
      BY <2>2 DEF small_block
    <3> QED
      BY <3>1 DEF small_block
  <2>4. /\ HeapSound(k, U) /\ k.free_list[d] # <<>>
        /\ \A c : BlockOf(h, c) => BlockOf(k, c) /\ Room(k, c) = Room(h, c)
        /\ \A q \in PoolRange : q # p => k.arena[q] = h.arena[q]
    <3>1. CASE h.free_list[d] # <<>>
      BY <1>0, <3>1
    <3>2. CASE h.free_list[d] = <<>>
      <4>1. k = new_arena(h, d, page) /\ page # NIL
        BY <2>3, <3>2
      <4> HIDE DEF k, page
      <4>2. /\ HeapSound(k, U) /\ k.free_list[d] # <<>>
            /\ \A c : BlockOf(h, c) => BlockOf(k, c) /\ Room(k, c) = Room(h, c)
            /\ \A q \in PoolRange : q # page => k.arena[q] = h.arena[q]
            /\ \A c \in Range(k.free_list[d]) : block_to_arena(c) = page
        BY <1>0, <2>1, <3>2, <4>1, NewArenaSound DEF page
      <4>3. b \in Range(k.free_list[d])
        BY <2>1, <4>2, HeadTaken
      <4> QED
        BY <4>2, <4>3
    <3> QED
      BY <3>1, <3>2
  <2> HIDE DEF k
  <2>5. /\ HeapSound(g, U \cup {b}) /\ b \in Nat /\ b \notin U /\ Room(g, b) = d
        /\ b \in Range(k.free_list[d]) /\ p \in PoolRange
        /\ \A c : BlockOf(k, c) => BlockOf(g, c) /\ Room(g, c) = Room(k, c)
        /\ \A q \in PoolRange : q # p => g.arena[q] = k.arena[q]
        /\ g.arena[p].desc = d /\ g.arena[p].free_cnt < blocks_per_arena(d)
    <3>1. HeapSound(k, U) /\ d \in BlockSizes /\ k.free_list[d] # <<>>
      BY <2>1, <2>4
    <3> HIDE DEF d
    <3> QED
      BY <3>1, HeadTaken
  <2> HIDE DEF g, b
  <2>6. \A q \in PoolRange : IsSmall(g, q) => g.arena[q].free_cnt < blocks_per_arena(g.arena[q].desc)
    <3> SUFFICES ASSUME NEW q \in PoolRange, IsSmall(g, q)
                 PROVE  g.arena[q].free_cnt < blocks_per_arena(g.arena[q].desc)
      OBVIOUS
    <3>1. CASE q = p
      BY <2>5, <3>1
    <3>2. CASE q # p
      <4>1. g.arena[q] = h.arena[q]
        BY <2>4, <2>5, <3>2
      <4> QED
        BY <4>1 DEF HeapRight, IsSmall
    <3> QED
      BY <3>1, <3>2
  <2>7. HeapRight(g, U \cup {b})
    BY <2>5, <2>6 DEF HeapRight
  <2>8. \A c \in U : Room(g, c) = Room(h, c)
    BY <1>0, <2>4, <2>5
  <2>9. HeapGives(h, U, size, g, b)
    BY <2>1, <2>5, <2>7, <2>8 DEF HeapGives
  <2> QED
    BY <2>2, <2>3, <2>9
<1> QED
  BY <1>1, <1>2
-----------------------------------------------------------------------------
\* A block goes back on its list.
LEMMA BlockPutBack ==
  ASSUME NEW h, NEW U, HeapSound(h, U), NEW b \in U, h.arena[block_to_arena(b)].desc # 0
  PROVE  LET p == block_to_arena(b)
             d == h.arena[p].desc
             g == [h EXCEPT !.arena[p].free_cnt = @ + 1, !.free_list[d] = <<b>> \o @]
         IN  /\ HeapSound(g, U \ {b})
             /\ p \in PoolRange /\ d \in BlockSizes
             /\ h.free_list[d] \in Seq(Nat)
             /\ h.arena[p].free_cnt \in Nat /\ g.arena[p].free_cnt = h.arena[p].free_cnt + 1
             /\ g.arena[p] # NIL /\ g.arena[p].desc = d
             /\ \A q \in PoolRange : q # p => g.arena[q] = h.arena[q]
             /\ \A c \in U : Room(g, c) = Room(h, c)
             /\ g.used = h.used /\ g.free_list = [h.free_list EXCEPT ![d] = <<b>> \o @]
             /\ h.arena[p] \in Arenas /\ h.arena \in [PoolRange -> {NIL} \cup Arenas]
<1> DEFINE p == block_to_arena(b)
           d == h.arena[p].desc
           F == Range(h.free_list[d])
           B == ArenaBlocks(p, d)
           g == [h EXCEPT !.arena[p].free_cnt = @ + 1, !.free_list[d] = <<b>> \o @]
           a == [desc |-> d, free_cnt |-> h.arena[p].free_cnt + 1]
<1>1. /\ h.used \in SUBSET PoolRange /\ h.arena \in [PoolRange -> {NIL} \cup Arenas]
      /\ h.free_list \in [BlockSizes -> Seq(Nat)] /\ HeapTypeOK(h) /\ ArenasRight(h) /\ NIL \notin Arenas
  BY HeapFields DEF HeapSound
<1>2. BlockOf(h, b) /\ p \in PoolRange /\ h.arena[p] # NIL /\ b \in Nat /\ d # 0 /\ IsSmall(h, p)
  BY DEF HeapSound, BlockOf, IsSmall
<1>3. /\ IsFiniteSet(B \cap F) /\ Cardinality(B) = blocks_per_arena(d) /\ d \in BlockSizes
      /\ h.arena[p].free_cnt = Cardinality(B \cap F) /\ h.arena[p].free_cnt \in Nat
      /\ B \ F = B \cap U
      /\ (\A c \in B : c \in Nat /\ block_to_arena(c) = p) /\ b \in B
  BY <1>2, SmallArena
<1>4. b \notin F
  BY <1>3
<1>5. h.arena[p] \in Arenas /\ h.arena[p] = [desc |-> d, free_cnt |-> h.arena[p].free_cnt]
  <2>1. h.arena[p] \in Arenas
    BY <1>1, <1>2
  <2> QED
    BY <2>1 DEF Arenas
<1> HIDE DEF p, F, B, d
<1>6. h.free_list[d] \in Seq(Nat) /\ IsInjective(h.free_list[d])
  BY <1>1, <1>3 DEF HeapSound, ListsRight
<1>7. /\ <<b>> \o h.free_list[d] \in Seq(Nat) /\ IsInjective(<<b>> \o h.free_list[d])
      /\ Range(<<b>> \o h.free_list[d]) = F \cup {b}
  BY <1>2, <1>4, <1>6, ConsOnce DEF F
<1>8. /\ g.used = h.used /\ g.arena = [h.arena EXCEPT ![p].free_cnt = @ + 1]
      /\ g.free_list = [h.free_list EXCEPT ![d] = <<b>> \o @]
      /\ HeapTypeOK(g) <=> /\ g.used \in SUBSET PoolRange
                           /\ g.arena \in [PoolRange -> {NIL} \cup Arenas]
                           /\ g.free_list \in [BlockSizes -> Seq(Nat)]
  BY <1>1 DEF HeapTypeOK
<1> HIDE DEF g
<1>9. g.arena[p].desc = d /\ g.arena[p].free_cnt = h.arena[p].free_cnt + 1 /\ g.arena[p] = a
  <2>1. g.arena[p] = [h.arena[p] EXCEPT !.free_cnt = @ + 1]
    BY <1>1, <1>2, <1>8
  <2> QED
    BY <1>5, <2>1
<1>10. \A q \in PoolRange : q # p => g.arena[q] = h.arena[q]
  BY <1>1, <1>8
<1>11. Cardinality((B \cap F) \cup {b}) = Cardinality(B \cap F) + 1
  <2>1. b \notin B \cap F
    BY <1>4
  <2> QED
    BY <1>3, <2>1, FS_AddElement
<1>12. a.free_cnt = Cardinality((B \cap F) \cup {b}) /\ a \in Arenas /\ a # NIL
  <2>1. a.free_cnt = Cardinality((B \cap F) \cup {b}) /\ a.free_cnt \in Nat
    BY <1>3, <1>11
  <2>2. a \in Arenas
    BY <1>3, <2>1 DEF Arenas
  <2> QED
    BY <1>1, <2>1, <2>2
<1> HIDE DEF a
<1>13. /\ g.free_list[d] = <<b>> \o h.free_list[d] /\ Range(g.free_list[d]) = F \cup {b}
       /\ \A e \in BlockSizes : e # d => g.free_list[e] = h.free_list[e]
  BY <1>1, <1>3, <1>7, <1>8
<1>14. HeapTypeOK(g)
  <2>1. \A q \in PoolRange : g.arena[q] \in {NIL} \cup Arenas
    BY <1>1, <1>9, <1>10, <1>12
  <2>2. g.arena \in [PoolRange -> {NIL} \cup Arenas]
    BY <1>1, <1>8, <2>1
  <2>3. \A e \in BlockSizes : g.free_list[e] \in Seq(Nat)
    BY <1>1, <1>7, <1>13
  <2>4. g.free_list \in [BlockSizes -> Seq(Nat)]
    BY <1>1, <1>8, <2>3
  <2> QED
    BY <1>1, <1>8, <2>2, <2>4
<1>15. \A q \in PoolRange : /\ g.arena[q] # NIL <=> h.arena[q] # NIL
                            /\ h.arena[q] # NIL => g.arena[q].desc = h.arena[q].desc
                            /\ PagesOfArena(g, q) = PagesOfArena(h, q)
  <2> SUFFICES ASSUME NEW q \in PoolRange
               PROVE  /\ g.arena[q] # NIL <=> h.arena[q] # NIL
                      /\ h.arena[q] # NIL => g.arena[q].desc = h.arena[q].desc
                      /\ PagesOfArena(g, q) = PagesOfArena(h, q)
    OBVIOUS
  <2>1. CASE q = p
    BY <1>2, <1>9, <1>12, <2>1 DEF PagesOfArena, d
  <2>2. CASE q # p
    BY <1>10, <2>2 DEF PagesOfArena
  <2> QED
    BY <2>1, <2>2
<1>16. ArenasRight(g)
  <2>1. \A q \in PoolRange : g.arena[q] # NIL =>
          PagesOfArena(g, q) \subseteq g.used /\ (g.arena[q].desc = 0 => g.arena[q].free_cnt > 0)
    BY <1>1, <1>2, <1>8, <1>9, <1>10, <1>15 DEF ArenasRight
  <2>2. \A q, r \in PoolRange : g.arena[q] # NIL /\ g.arena[r] # NIL /\ r # q =>
          PagesOfArena(g, q) \cap PagesOfArena(g, r) = {}
    BY <1>1, <1>15 DEF ArenasRight
  <2> QED
    BY <2>1, <2>2 DEF ArenasRight
<1>17. \A c : BlockOf(h, c) => BlockOf(g, c) /\ Room(g, c) = Room(h, c)
  <2> SUFFICES ASSUME NEW c, BlockOf(h, c) PROVE BlockOf(g, c) /\ Room(g, c) = Room(h, c)
    OBVIOUS
  <2>1. block_to_arena(c) \in PoolRange /\ h.arena[block_to_arena(c)] # NIL
    BY DEF BlockOf
  <2>2. CASE block_to_arena(c) = p
    <3>1. g.arena[p] # NIL /\ h.arena[p] # NIL /\ h.arena[p].desc # 0 /\ g.arena[p].desc = h.arena[p].desc
      BY <1>2, <1>9, <1>12 DEF d
    <3> QED
      BY <2>2, <3>1, SameDesc
  <2>3. CASE block_to_arena(c) # p
    BY <1>10, <2>1, <2>3, SameArena
  <2> QED
    BY <2>2, <2>3
<1>18. ListsRight(g)
  <2> SUFFICES ASSUME NEW e \in BlockSizes
               PROVE  /\ IsInjective(g.free_list[e])
                      /\ \A c \in Range(g.free_list[e]) : BlockOf(g, c) /\ g.arena[block_to_arena(c)].desc = e
    BY DEF ListsRight
  <2>1. /\ IsInjective(h.free_list[e])
        /\ \A c \in Range(h.free_list[e]) : BlockOf(h, c) /\ h.arena[block_to_arena(c)].desc = e
    BY DEF HeapSound, ListsRight
  <2>2. \A c \in Range(h.free_list[e]) : BlockOf(g, c) /\ g.arena[block_to_arena(c)].desc = e
    BY <1>15, <1>17, <2>1 DEF BlockOf
  <2>3. CASE e = d
    <3>1. BlockOf(g, b) /\ g.arena[block_to_arena(b)].desc = d
      BY <1>2, <1>9, <1>17 DEF p
    <3> QED
      BY <1>7, <1>13, <2>2, <2>3, <3>1 DEF F
  <2>4. CASE e # d
    BY <1>13, <2>1, <2>2, <2>4
  <2> QED
    BY <2>3, <2>4
<1>19. \A c \in U : BlockOf(g, c) /\ Room(g, c) = Room(h, c)
  BY <1>17 DEF HeapSound
<1>20. ASSUME NEW q \in PoolRange, IsSmall(g, q) PROVE CountOf(g, U \ {b}, q)
  <2>1. CASE q = p
    <3>1. B \cap Range(g.free_list[d]) = (B \cap F) \cup {b} /\ B \ Range(g.free_list[d]) = B \cap (U \ {b})
      BY <1>3, <1>13
    <3> QED
      BY <1>9, <1>12, <2>1, <3>1 DEF CountOf, B
  <2>2. CASE q # p
    <3>1. IsSmall(h, q) /\ g.arena[q] = h.arena[q] /\ CountOf(h, U, q)
      BY <1>10, <1>20, <2>2 DEF HeapSound, IsSmall
    <3> DEFINE e == h.arena[q].desc
               C == ArenaBlocks(q, e)
    <3>2. e \in BlockSizes /\ \A c \in C : block_to_arena(c) = q
      BY <3>1, SmallArena
    <3>3. b \notin C
      BY <2>2, <3>2 DEF p
    <3> HIDE DEF C
    <3>4. C \cap Range(g.free_list[e]) = C \cap Range(h.free_list[e]) /\ C \cap (U \ {b}) = C \cap U
      BY <1>13, <3>2, <3>3 DEF F
    <3> QED
      BY <3>1, <3>4, SameCount DEF C
  <2> QED
    BY <2>1, <2>2
<1>21. HeapSound(g, U \ {b})
  BY <1>14, <1>16, <1>18, <1>19, <1>20 DEF HeapSound
<1> QED
  BY <1>1, <1>2, <1>3, <1>5, <1>6, <1>8, <1>9, <1>10, <1>12, <1>19, <1>21 DEF p, d, g

\* An arena gives its pages back.
LEMMA ArenaRemoved ==
  ASSUME NEW h, HeapTypeOK(h), ArenasRight(h), NEW g, NEW p \in PoolRange, h.arena[p] # NIL,
         g.arena = [h.arena EXCEPT ![p] = NIL], g.used = h.used \ PagesOfArena(h, p)
  PROVE  /\ ArenasRight(g)
         /\ \A q \in PoolRange : q # p => g.arena[q] = h.arena[q]
         /\ g.arena \in [PoolRange -> {NIL} \cup Arenas] /\ g.used \in SUBSET PoolRange
         /\ g.arena[p] = NIL
         /\ \A b : BlockOf(h, b) /\ block_to_arena(b) # p => BlockOf(g, b) /\ Room(g, b) = Room(h, b)
<1>1. /\ h.used \in SUBSET PoolRange /\ h.arena \in [PoolRange -> {NIL} \cup Arenas] /\ NIL \notin Arenas
  BY HeapFields
<1>2. g.arena[p] = NIL /\ \A q \in PoolRange : q # p => g.arena[q] = h.arena[q]
  BY <1>1
<1>3. \A q \in PoolRange : g.arena[q] # NIL =>
        q # p /\ h.arena[q] # NIL /\ g.arena[q] = h.arena[q] /\ PagesOfArena(g, q) = PagesOfArena(h, q)
  BY <1>2 DEF PagesOfArena
<1>4. ArenasRight(g)
  <2>1. \A q \in PoolRange : g.arena[q] # NIL =>
          PagesOfArena(g, q) \subseteq g.used /\ (g.arena[q].desc = 0 => g.arena[q].free_cnt > 0)
    <3> SUFFICES ASSUME NEW q \in PoolRange, g.arena[q] # NIL
                 PROVE  PagesOfArena(g, q) \subseteq g.used /\ (g.arena[q].desc = 0 => g.arena[q].free_cnt > 0)
      OBVIOUS
    <3>1. q # p /\ h.arena[q] # NIL /\ g.arena[q] = h.arena[q] /\ PagesOfArena(g, q) = PagesOfArena(h, q)
      BY <1>3
    <3>2. PagesOfArena(h, q) \subseteq h.used /\ (h.arena[q].desc = 0 => h.arena[q].free_cnt > 0)
      BY <3>1 DEF ArenasRight
    <3>3. PagesOfArena(h, q) \cap PagesOfArena(h, p) = {}
      BY <3>1 DEF ArenasRight
    <3> QED
      BY <3>1, <3>2, <3>3
  <2>2. \A q, r \in PoolRange : g.arena[q] # NIL /\ g.arena[r] # NIL /\ r # q =>
          PagesOfArena(g, q) \cap PagesOfArena(g, r) = {}
    BY <1>3 DEF ArenasRight
  <2> QED
    BY <2>1, <2>2 DEF ArenasRight
<1>5. ASSUME NEW b, BlockOf(h, b), block_to_arena(b) # p PROVE BlockOf(g, b) /\ Room(g, b) = Room(h, b)
  <2>1. block_to_arena(b) \in PoolRange
    BY <1>5 DEF BlockOf
  <2> QED
    BY <1>2, <1>5, <2>1, SameArena
<1>6. g.arena \in [PoolRange -> {NIL} \cup Arenas] /\ g.used \in SUBSET PoolRange
  BY <1>1
<1> QED
  BY <1>2, <1>4, <1>5, <1>6

\* g is h without the arena at p, whose blocks are taken off their list.
Drops(h, g, p) ==
  /\ HeapTypeOK(g)
  /\ g.used = h.used \ {p} /\ g.arena = [h.arena EXCEPT ![p] = NIL]
  /\ g.free_list = [h.free_list EXCEPT ![h.arena[p].desc] = dropped(@, p, h.arena[p].desc)]
\* g is h without the big block at p.
DropsBig(h, g, p) ==
  /\ h.arena[p].desc = 0
  /\ HeapTypeOK(g)
  /\ g.used = h.used \ PagesOfArena(h, p) /\ g.arena = [h.arena EXCEPT ![p] = NIL]
  /\ g.free_list = h.free_list

\* An arena all of whose blocks are free takes them off the list and goes.
LEMMA ArenaDropped ==
  ASSUME NEW h, NEW U, HeapSound(h, U), NEW p \in PoolRange, IsSmall(h, p),
         h.arena[p].free_cnt >= blocks_per_arena(h.arena[p].desc),
         NEW g, Drops(h, g, p)
  PROVE  /\ HeapSound(g, U) /\ g.arena[p] = NIL
         /\ \A q \in PoolRange : q # p => g.arena[q] = h.arena[q]
         /\ \A c \in U : Room(g, c) = Room(h, c)
<1>0. /\ HeapTypeOK(g)
      /\ g.used = h.used \ {p} /\ g.arena = [h.arena EXCEPT ![p] = NIL]
      /\ g.free_list = [h.free_list EXCEPT ![h.arena[p].desc] = dropped(@, p, h.arena[p].desc)]
  BY DEF Drops
<1> DEFINE d == h.arena[p].desc
           F == Range(h.free_list[d])
           B == ArenaBlocks(p, d)
<1>1. /\ h.free_list \in [BlockSizes -> Seq(Nat)] /\ HeapTypeOK(h) /\ ArenasRight(h) /\ NIL \notin Arenas
  BY HeapFields DEF HeapSound
<1>2. /\ d \in BlockSizes /\ p \in Nat /\ IsFiniteSet(B) /\ Cardinality(B) = blocks_per_arena(d)
      /\ blocks_per_arena(d) \in Nat
      /\ h.arena[p].free_cnt = Cardinality(B \cap F) /\ h.arena[p].free_cnt \in Nat
      /\ Cardinality(B \cap F) <= blocks_per_arena(d)
      /\ B \ F = B \cap U
      /\ \A b \in B : b \in Nat /\ block_to_arena(b) = p
      /\ \A b : BlockOf(h, b) /\ block_to_arena(b) = p => b \in B
  BY SmallArena
<1>3. B \cap F = B
  <2>1. Cardinality(B \cap F) = Cardinality(B)
    BY <1>2
  <2>2. B \cap F \in SUBSET B
    OBVIOUS
  <2> QED
    BY <1>2, <2>1, <2>2, FS_Subset
<1>4. B \cap U = {}
  BY <1>2, <1>3
<1>5. h.arena[p] # NIL /\ PagesOfArena(h, p) = {p}
  BY DEF IsSmall, PagesOfArena
<1>6. /\ h.free_list[d] \in Seq(Nat) /\ IsInjective(h.free_list[d])
      /\ \A c \in F : BlockOf(h, c)
  BY <1>1, <1>2 DEF HeapSound, ListsRight
<1> HIDE DEF d, F, B
<1>7. g.free_list[d] = dropped(h.free_list[d], p, d) /\ \A e \in BlockSizes : e # d => g.free_list[e] = h.free_list[e]
  BY <1>0, <1>1, <1>2 DEF d
<1>8. /\ IsInjective(g.free_list[d]) /\ Range(g.free_list[d]) = F \ B
  BY <1>2, <1>6, <1>7, DroppedIs DEF F, B
<1>9. /\ ArenasRight(g)
      /\ \A q \in PoolRange : q # p => g.arena[q] = h.arena[q]
      /\ g.arena[p] = NIL
      /\ \A b : BlockOf(h, b) /\ block_to_arena(b) # p => BlockOf(g, b) /\ Room(g, b) = Room(h, b)
  <2>1. g.used = h.used \ PagesOfArena(h, p) /\ g.arena = [h.arena EXCEPT ![p] = NIL]
    BY <1>0, <1>5
  <2> QED
    BY <1>1, <1>5, <2>1, ArenaRemoved
<1>10. \A c \in U : BlockOf(h, c) /\ block_to_arena(c) # p
  BY <1>2, <1>4 DEF HeapSound
<1>11. ListsRight(g)
  <2> SUFFICES ASSUME NEW e \in BlockSizes
               PROVE  /\ IsInjective(g.free_list[e])
                      /\ \A c \in Range(g.free_list[e]) : BlockOf(g, c) /\ g.arena[block_to_arena(c)].desc = e
    BY DEF ListsRight
  <2>1. /\ IsInjective(h.free_list[e])
        /\ \A c \in Range(h.free_list[e]) : BlockOf(h, c) /\ h.arena[block_to_arena(c)].desc = e
    BY DEF HeapSound, ListsRight
  <2>2. ASSUME NEW c \in Range(h.free_list[e]), block_to_arena(c) # p
        PROVE  BlockOf(g, c) /\ g.arena[block_to_arena(c)].desc = e
    <3>1. block_to_arena(c) \in PoolRange
      BY <2>1 DEF BlockOf
    <3> QED
      BY <1>9, <2>1, <2>2, <3>1
  <2>3. CASE e = d
    <3>1. \A c \in Range(g.free_list[d]) : c \in F /\ block_to_arena(c) # p
      BY <1>2, <1>6, <1>8
    <3> QED
      BY <1>8, <2>2, <2>3, <3>1 DEF F
  <2>4. CASE e # d
    <3>1. \A c \in Range(h.free_list[e]) : block_to_arena(c) # p
      BY <2>1, <2>4 DEF d
    <3> QED
      BY <1>7, <2>1, <2>2, <2>4, <3>1
  <2> QED
    BY <2>3, <2>4
<1>12. ASSUME NEW q \in PoolRange, IsSmall(g, q) PROVE CountOf(g, U, q)
  <2>1. q # p
    BY <1>9, <1>12 DEF IsSmall
  <2>2. IsSmall(h, q) /\ g.arena[q] = h.arena[q] /\ CountOf(h, U, q)
    BY <1>9, <1>12, <2>1 DEF HeapSound, IsSmall
  <2> DEFINE e == h.arena[q].desc
             C == ArenaBlocks(q, e)
  <2>3. e \in BlockSizes /\ \A c \in C : block_to_arena(c) = q
    BY <2>2, SmallArena
  <2>4. C \cap B = {}
    BY <1>2, <2>1, <2>3
  <2> HIDE DEF C
  <2>5. C \cap Range(g.free_list[e]) = C \cap Range(h.free_list[e])
    BY <1>7, <1>8, <2>3, <2>4 DEF F
  <2> QED
    BY <2>2, <2>5, SameCount DEF C
<1>13. \A c \in U : BlockOf(g, c) /\ Room(g, c) = Room(h, c)
  BY <1>9, <1>10
<1>14. HeapSound(g, U)
  BY <1>0, <1>9, <1>11, <1>12, <1>13 DEF HeapSound
<1> QED
  BY <1>9, <1>13, <1>14

\* What is left of h when only V stays in hand.
Keeps(h, g, V) ==
  /\ HeapSound(g, V)
  /\ \A q \in PoolRange : IsSmall(g, q) => IsSmall(h, q) /\ g.arena[q] = h.arena[q]
  /\ \A c \in V : Room(g, c) = Room(h, c)

\* A big block goes, with its pages.
LEMMA BigBlockFreed ==
  ASSUME NEW h, NEW U, HeapSound(h, U), NEW b \in U, NEW g, DropsBig(h, g, block_to_arena(b))
  PROVE  Keeps(h, g, U \ {b})
<1> DEFINE p == block_to_arena(b)
<1>0. /\ HeapTypeOK(g) /\ h.arena[p].desc = 0
      /\ g.used = h.used \ PagesOfArena(h, p) /\ g.arena = [h.arena EXCEPT ![p] = NIL]
      /\ g.free_list = h.free_list
  BY DEF DropsBig
<1>1. /\ HeapTypeOK(h) /\ ArenasRight(h) /\ NIL \notin Arenas
  BY HeapFields DEF HeapSound
<1>2. p \in PoolRange /\ h.arena[p] # NIL /\ b = p * PGSIZE + HEADER
  BY <1>0 DEF HeapSound, BlockOf
<1>3. /\ ArenasRight(g)
      /\ \A q \in PoolRange : q # p => g.arena[q] = h.arena[q]
      /\ g.arena[p] = NIL
      /\ \A c : BlockOf(h, c) /\ block_to_arena(c) # p => BlockOf(g, c) /\ Room(g, c) = Room(h, c)
  BY <1>0, <1>1, <1>2, ArenaRemoved
<1>4. \A c \in U \ {b} : BlockOf(h, c) /\ block_to_arena(c) # p
  <2> SUFFICES ASSUME NEW c \in U \ {b}, block_to_arena(c) = p PROVE FALSE
    BY DEF HeapSound
  <2>1. BlockOf(h, c)
    BY DEF HeapSound
  <2>2. c = p * PGSIZE + HEADER
    BY <1>0, <2>1 DEF BlockOf
  <2> QED
    BY <1>2, <2>2
<1>5. \A c \in U \ {b} : BlockOf(g, c) /\ Room(g, c) = Room(h, c)
  BY <1>3, <1>4
<1>6. ASSUME NEW q \in PoolRange, IsSmall(g, q) PROVE q # p /\ IsSmall(h, q) /\ g.arena[q] = h.arena[q]
  <2>1. q # p
    BY <1>0, <1>3, <1>6 DEF IsSmall
  <2> QED
    BY <1>3, <1>6, <2>1 DEF IsSmall
<1> HIDE DEF p
<1>7. ListsRight(g)
  <2> SUFFICES ASSUME NEW e \in BlockSizes
               PROVE  /\ IsInjective(h.free_list[e])
                      /\ \A c \in Range(h.free_list[e]) : BlockOf(g, c) /\ g.arena[block_to_arena(c)].desc = e
    BY <1>0 DEF ListsRight
  <2>1. /\ IsInjective(h.free_list[e])
        /\ \A c \in Range(h.free_list[e]) : BlockOf(h, c) /\ h.arena[block_to_arena(c)].desc = e
    BY DEF HeapSound, ListsRight
  <2>2. \A c \in Range(h.free_list[e]) : block_to_arena(c) # p /\ block_to_arena(c) \in PoolRange
    BY <1>0, <2>1, PageNumbers DEF BlockOf, p
  <2> QED
    BY <1>3, <2>1, <2>2
<1>8. ASSUME NEW q \in PoolRange, IsSmall(g, q) PROVE CountOf(g, U \ {b}, q)
  <2>1. q # p /\ IsSmall(h, q) /\ g.arena[q] = h.arena[q] /\ CountOf(h, U, q)
    BY <1>6, <1>8 DEF HeapSound
  <2> DEFINE C == ArenaBlocks(q, h.arena[q].desc)
  <2>2. \A c \in C : block_to_arena(c) = q
    BY <2>1, SmallArena
  <2>3. C \cap (U \ {b}) = C \cap U
    BY <2>1, <2>2 DEF p
  <2> QED
    BY <1>0, <2>1, <2>3, SameCount
<1>9. HeapSound(g, U \ {b})
  BY <1>0, <1>3, <1>5, <1>7, <1>8 DEF HeapSound
<1> QED
  BY <1>5, <1>6, <1>9 DEF Keeps

\* What free promises.
LEMMA FreeGives ==
  ASSUME NEW h, NEW U, HeapRight(h, U), NEW b \in U
  PROVE  /\ HeapRight(free(h, b), U \ {b})
         /\ \A c \in U \ {b} : Room(free(h, b), c) = Room(h, c)
<1> DEFINE p == block_to_arena(b)
           d == h.arena[p].desc
           n == h.arena[p].free_cnt
           list == <<b>> \o h.free_list[d]
           g == free(h, b)
<1>1. HeapSound(h, U) /\ \A q \in PoolRange : IsSmall(h, q) => h.arena[q].free_cnt < blocks_per_arena(h.arena[q].desc)
  BY DEF HeapRight
<1>2. /\ h.used \in SUBSET PoolRange /\ h.arena \in [PoolRange -> {NIL} \cup Arenas]
      /\ h.free_list \in [BlockSizes -> Seq(Nat)] /\ HeapTypeOK(h) /\ ArenasRight(h) /\ NIL \notin Arenas
  BY <1>1, HeapFields DEF HeapSound
<1>3. p \in PoolRange /\ h.arena[p] # NIL /\ n \in Nat
  <2>1. p \in PoolRange /\ h.arena[p] # NIL
    BY <1>1 DEF HeapSound, BlockOf
  <2> QED
    BY <1>2, <2>1, HeapFields
<1>4. CASE d = 0
  <2>1. g = [h EXCEPT !.used = @ \ (p .. p + n - 1), !.arena[p] = NIL]
    BY <1>4 DEF free
  <2> HIDE DEF g
  <2>2. /\ g.used = h.used \ (p .. p + n - 1) /\ g.arena = [h.arena EXCEPT ![p] = NIL]
        /\ g.free_list = h.free_list
        /\ HeapTypeOK(g) <=> /\ g.used \in SUBSET PoolRange
                             /\ g.arena \in [PoolRange -> {NIL} \cup Arenas]
                             /\ g.free_list \in [BlockSizes -> Seq(Nat)]
    BY <1>2, <2>1 DEF HeapTypeOK
  <2>3. PagesOfArena(h, p) = p .. p + n - 1
    BY <1>4 DEF PagesOfArena
  <2>4. HeapTypeOK(g)
    BY <1>2, <2>2
  <2>5. /\ HeapSound(g, U \ {b})
        /\ \A q \in PoolRange : IsSmall(g, q) => IsSmall(h, q) /\ g.arena[q] = h.arena[q]
        /\ \A c \in U \ {b} : Room(g, c) = Room(h, c)
    <3>1. DropsBig(h, g, p)
      BY <1>4, <2>2, <2>3, <2>4 DEF DropsBig
    <3>2. HeapSound(h, U) /\ DropsBig(h, g, block_to_arena(b))
      BY <1>1, <3>1
    <3> HIDE DEF p, d, n, list
    <3>3. Keeps(h, g, U \ {b})
      BY <3>2, BigBlockFreed
    <3> QED
      BY <3>3 DEF Keeps
  <2> QED
    BY <1>1, <2>5 DEF HeapRight, g
<1>5. CASE d # 0
  <2> DEFINE k == [h EXCEPT !.arena[p].free_cnt = @ + 1, !.free_list[d] = <<b>> \o @]
  <2>1. /\ HeapSound(k, U \ {b})
        /\ p \in PoolRange /\ d \in BlockSizes
        /\ h.free_list[d] \in Seq(Nat)
        /\ h.arena[p].free_cnt \in Nat /\ k.arena[p].free_cnt = h.arena[p].free_cnt + 1
        /\ k.arena[p] # NIL /\ k.arena[p].desc = d
        /\ \A q \in PoolRange : q # p => k.arena[q] = h.arena[q]
        /\ \A c \in U : Room(k, c) = Room(h, c)
        /\ k.used = h.used /\ k.free_list = [h.free_list EXCEPT ![d] = <<b>> \o @]
        /\ h.arena[p] \in Arenas /\ h.arena \in [PoolRange -> {NIL} \cup Arenas]
    BY <1>1, <1>5, BlockPutBack
  <2>2. blocks_per_arena(d) \in Nat
    BY <2>1, SizesFit
  <2>3. CASE n + 1 >= blocks_per_arena(d)
    <3>1. g = [h EXCEPT !.used = @ \ {p}, !.arena[p] = NIL, !.free_list[d] = dropped(list, p, d)]
      BY <1>5, <2>3 DEF free
    <3>2. HeapTypeOK(k) /\ k.arena \in [PoolRange -> {NIL} \cup Arenas] /\ k.free_list \in [BlockSizes -> Seq(Nat)]
      BY <2>1, HeapFields DEF HeapSound
    <3>3. k.arena = [h.arena EXCEPT ![p].free_cnt = @ + 1]
      BY <1>2 DEF HeapTypeOK
    <3> HIDE DEF g, k
    <3>4. /\ g.used = h.used \ {p} /\ g.arena = [h.arena EXCEPT ![p] = NIL]
          /\ g.free_list = [h.free_list EXCEPT ![d] = dropped(list, p, d)]
          /\ HeapTypeOK(g) <=> /\ g.used \in SUBSET PoolRange
                               /\ g.arena \in [PoolRange -> {NIL} \cup Arenas]
                               /\ g.free_list \in [BlockSizes -> Seq(Nat)]
      BY <1>2, <3>1 DEF HeapTypeOK
    <3>5. IsSmall(k, p) /\ k.arena[p].free_cnt >= blocks_per_arena(k.arena[p].desc)
      BY <1>5, <2>1, <2>3 DEF IsSmall
    <3>6. k.free_list[d] = list /\ list \in Seq(Nat) /\ IsInjective(list)
      <4>1. k.free_list[d] = list
        BY <1>2, <2>1
      <4>2. IsInjective(k.free_list[d])
        BY <2>1 DEF HeapSound, ListsRight
      <4> HIDE DEF list
      <4> QED
        BY <2>1, <3>2, <4>1, <4>2
    <3>7. g.free_list = [k.free_list EXCEPT ![d] = dropped(@, p, d)]
      <4>1. [k.free_list EXCEPT ![d] = dropped(@, p, d)] = [k.free_list EXCEPT ![d] = dropped(list, p, d)]
        BY <3>6
      <4> HIDE DEF list
      <4>2. [k.free_list EXCEPT ![d] = dropped(list, p, d)] = [h.free_list EXCEPT ![d] = dropped(list, p, d)]
        BY <1>2, <2>1
      <4> QED
        BY <3>4, <4>1, <4>2
    <3>8. g.arena = [k.arena EXCEPT ![p] = NIL]
      BY <1>2, <3>3, <3>4
    <3>9. HeapTypeOK(g)
      <4>1. dropped(list, p, d) \in Seq(Nat)
        BY <1>3, <2>1, <3>6, DroppedIs, PageNumbers
      <4> HIDE DEF list
      <4>2. g.free_list \in [BlockSizes -> Seq(Nat)]
        BY <1>2, <3>4, <4>1
      <4> QED
        BY <1>2, <3>4, <4>2
    <3>10. /\ HeapSound(g, U \ {b}) /\ g.arena[p] = NIL
           /\ \A q \in PoolRange : q # p => g.arena[q] = k.arena[q]
           /\ \A c \in U \ {b} : Room(g, c) = Room(k, c)
      <4>1. g.used = k.used \ {p} /\ g.arena = [k.arena EXCEPT ![p] = NIL]
        BY <2>1, <3>4, <3>8
      <4>2. g.free_list = [k.free_list EXCEPT ![k.arena[p].desc] = dropped(@, p, k.arena[p].desc)]
        BY <2>1, <3>7
      <4>3. HeapSound(k, U \ {b}) /\ p \in PoolRange /\ Drops(k, g, p)
        BY <2>1, <3>9, <4>1, <4>2 DEF Drops
      <4> HIDE DEF p, d
      <4> QED
        BY <3>5, <4>3, ArenaDropped
    <3>11. \A q \in PoolRange : IsSmall(g, q) => IsSmall(h, q) /\ g.arena[q] = h.arena[q]
      <4> SUFFICES ASSUME NEW q \in PoolRange, IsSmall(g, q) PROVE IsSmall(h, q) /\ g.arena[q] = h.arena[q]
        OBVIOUS
      <4>1. q # p
        BY <3>10 DEF IsSmall
      <4>2. g.arena[q] = h.arena[q]
        BY <2>1, <3>10, <4>1
      <4> QED
        BY <4>2 DEF IsSmall
    <3> QED
      BY <1>1, <2>1, <3>10, <3>11 DEF HeapRight, g
  <2>4. CASE ~(n + 1 >= blocks_per_arena(d))
    <3>1. g = [h EXCEPT !.arena[p].free_cnt = @ + 1, !.free_list[d] = list]
      BY <1>5, <2>4 DEF free
    <3>2. g = k
      BY <3>1
    <3> HIDE DEF g, k
    <3>3. ASSUME NEW q \in PoolRange, IsSmall(k, q) PROVE k.arena[q].free_cnt < blocks_per_arena(k.arena[q].desc)
      <4>1. CASE q = p
        BY <1>3, <2>1, <2>2, <2>4, <4>1
      <4>2. CASE q # p
        <5>1. k.arena[q] = h.arena[q] /\ IsSmall(h, q)
          BY <2>1, <3>3, <4>2 DEF IsSmall
        <5> QED
          BY <1>1, <5>1
      <4> QED
        BY <4>1, <4>2
    <3> QED
      BY <2>1, <3>2, <3>3 DEF HeapRight, g
  <2> QED
    BY <2>3, <2>4
<1> QED
  BY <1>4, <1>5

\* The pages that a block is in.
LEMMA BlockSpan ==
  ASSUME NEW h, HeapTypeOK(h), ArenasRight(h), NEW b, BlockOf(h, b)
  PROVE  \E n \in Nat \ {0} :
           LET p == block_to_arena(b)
           IN  /\ PagesOfArena(h, p) = p .. p + n - 1 /\ p + n <= PoolPages
               /\ Room(h, b) \in Int
               /\ p * PGSIZE <= b /\ b + Room(h, b) <= (p + n) * PGSIZE
<1> DEFINE p == block_to_arena(b)
           d == h.arena[p].desc
           m == h.arena[p].free_cnt
<1>1. /\ p \in PoolRange /\ p \in Nat /\ b \in Nat /\ h.arena[p] # NIL
      /\ PGSIZE \in Nat \ {0} /\ HEADER \in Nat /\ PoolPages \in Nat
  BY PageNumbers DEF BlockOf
<1>2. d \in BlockSizes \cup {0} /\ m \in Nat /\ PagesOfArena(h, p) \subseteq PoolRange /\ (d = 0 => m > 0)
  <2>1. d \in BlockSizes \cup {0} /\ m \in Nat /\ h.used \subseteq PoolRange
    BY <1>1, HeapFields
  <2> QED
    BY <1>1, <2>1 DEF ArenasRight
<1>3. CASE d = 0
  <2>1. PagesOfArena(h, p) = p .. p + m - 1 /\ m \in Nat \ {0}
    BY <1>2, <1>3 DEF PagesOfArena
  <2>2. p + m - 1 \in PoolRange
    <3>1. p + m - 1 \in p .. p + m - 1
      BY <1>1, <2>1
    <3> QED
      BY <1>2, <2>1, <3>1
  <2>3. b = p * PGSIZE + HEADER /\ Room(h, b) = m * PGSIZE - HEADER
    BY <1>3 DEF BlockOf, Room
  <2>4. (p + m) * PGSIZE = p * PGSIZE + m * PGSIZE
    BY <1>1, <2>1
  <2> DEFINE x == p * PGSIZE
             y == m * PGSIZE
  <2>5. x \in Nat /\ y \in Nat
    BY <1>1, <2>1
  <2> HIDE DEF x, y
  <2>6. b = x + HEADER /\ Room(h, b) = y - HEADER /\ (p + m) * PGSIZE = x + y
    BY <2>3, <2>4 DEF x, y
  <2>7. Room(h, b) \in Int /\ x <= b /\ b + Room(h, b) <= (p + m) * PGSIZE
    BY <1>1, <2>5, <2>6
  <2>8. p + m <= PoolPages
    BY <1>1, <2>1, <2>2 DEF PoolRange
  <2> QED
    BY <2>1, <2>7, <2>8 DEF x
<1>4. CASE d # 0
  <2>1. d \in BlockSizes /\ b \in ArenaBlocks(p, d)
    BY <1>2, <1>4 DEF BlockOf
  <2>2. p * PGSIZE + HEADER <= b /\ b + d <= p * PGSIZE + PGSIZE
    BY <1>1, <2>1, ArenaBlocksAre
  <2>3. Room(h, b) = d /\ d \in Nat
    BY <1>4, <2>1, SizesFit DEF Room
  <2>4. (p + 1) * PGSIZE = p * PGSIZE + PGSIZE /\ p * PGSIZE \in Nat
    BY <1>1
  <2>5. PagesOfArena(h, p) = p .. p + 1 - 1
    BY <1>1, <1>4 DEF PagesOfArena
  <2>6. p + 1 <= PoolPages
    BY <1>1 DEF PoolRange
  <2>7. p * PGSIZE <= b /\ b + Room(h, b) <= (p + 1) * PGSIZE /\ Room(h, b) \in Int
    BY <1>1, <2>2, <2>3, <2>4
  <2> QED
    BY <2>5, <2>6, <2>7
<1> QED
  BY <1>3, <1>4

\* Blocks in hand are apart from each other.
LEMMA InHandApart ==
  ASSUME NEW h, NEW U, HeapSound(h, U), NEW b \in U, NEW c \in U, b # c
  PROVE  b + Room(h, b) <= c \/ c + Room(h, c) <= b
<1> DEFINE Lower(x, y) == block_to_arena(x) < block_to_arena(y) => x + Room(h, x) <= y
<1>1. HeapTypeOK(h) /\ ArenasRight(h) /\ BlockOf(h, b) /\ BlockOf(h, c)
  BY DEF HeapSound
<1>2. ASSUME NEW x, NEW y, BlockOf(h, x), BlockOf(h, y), block_to_arena(x) < block_to_arena(y)
      PROVE  x + Room(h, x) <= y
  <2> DEFINE p == block_to_arena(x)
             q == block_to_arena(y)
  <2>1. /\ p \in PoolRange /\ q \in PoolRange /\ p \in Nat /\ q \in Nat /\ x \in Nat /\ y \in Nat
        /\ h.arena[p] # NIL /\ h.arena[q] # NIL /\ PGSIZE \in Nat
    BY <1>2, PageNumbers DEF BlockOf
  <2>2. PICK n \in Nat \ {0} :
               /\ PagesOfArena(h, p) = p .. p + n - 1 /\ p + n <= PoolPages
               /\ Room(h, x) \in Int
               /\ p * PGSIZE <= x /\ x + Room(h, x) <= (p + n) * PGSIZE
    BY <1>1, <1>2, BlockSpan
  <2>3. PICK m \in Nat \ {0} :
               /\ PagesOfArena(h, q) = q .. q + m - 1
               /\ q * PGSIZE <= y
    BY <1>1, <1>2, BlockSpan
  <2>4. q \in PagesOfArena(h, q)
    BY <2>1, <2>3
  <2>5. q \notin PagesOfArena(h, p)
    <3>1. p # q
      BY <1>2, <2>1
    <3> QED
      BY <1>1, <2>1, <2>4, <3>1 DEF ArenasRight
  <2>6. p + n <= q /\ p + n \in Nat
    <3>1. p < q
      BY <1>2
    <3> HIDE DEF p, q
    <3> QED
      BY <2>1, <2>2, <2>5, <3>1
  <2>7. (p + n) * PGSIZE <= q * PGSIZE /\ (p + n) * PGSIZE \in Nat /\ q * PGSIZE \in Nat
    BY <2>1, <2>6, TimesMono
  <2> DEFINE u == (p + n) * PGSIZE
             v == q * PGSIZE
  <2>8. u <= v /\ u \in Nat /\ v \in Nat /\ x + Room(h, x) <= u /\ v <= y
    BY <2>2, <2>3, <2>7
  <2> HIDE DEF u, v
  <2> QED
    BY <2>1, <2>2, <2>8
<1> DEFINE p == block_to_arena(b)
           q == block_to_arena(c)
<1>3. p \in Nat /\ q \in Nat /\ p \in PoolRange
  BY <1>1, PageNumbers DEF BlockOf
<1>4. CASE p < q
  BY <1>1, <1>2, <1>4
<1>5. CASE q < p
  BY <1>1, <1>2, <1>5
<1>6. CASE p = q
  <2> DEFINE d == h.arena[p].desc
  <2>1. d # 0
    BY <1>1, <1>6 DEF BlockOf
  <2>2. d \in BlockSizes /\ b \in ArenaBlocks(p, d) /\ c \in ArenaBlocks(p, d)
    <3>1. d \in BlockSizes
      BY <1>1, <2>1, HeapFields DEF BlockOf
    <3> QED
      BY <1>1, <1>6, <2>1, <3>1 DEF BlockOf
  <2>3. Room(h, b) = d /\ Room(h, c) = d
    BY <1>6, <2>1 DEF Room
  <2>4. PICK i \in 0 .. blocks_per_arena(d) - 1 : b = arena_to_block(p, d, i)
    BY <2>2 DEF ArenaBlocks
  <2>5. PICK j \in 0 .. blocks_per_arena(d) - 1 : c = arena_to_block(p, d, j)
    BY <2>2 DEF ArenaBlocks
  <2>6. i # j /\ i \in Int /\ j \in Int
    BY <2>4, <2>5
  <2>7. i < j \/ j < i
    BY <2>6
  <2> HIDE DEF p, d
  <2> QED
    BY <1>3, <2>2, <2>3, <2>4, <2>5, <2>7, BlocksApart
<1> QED
  BY <1>3, <1>4, <1>5, <1>6
-----------------------------------------------------------------------------
(***************************************************************************)
(* The heap and its callers.                                               *)
(***************************************************************************)
BlocksInHand == DOMAIN live \cup Pending
Resizes == [old : Nat, new : Nat, size : MallocSizes]

MallocInv ==
  /\ HeapRight(heap, BlocksInHand)
  /\ resizing \in [Callers -> {NIL} \cup Resizes]
  /\ \A t \in Callers : resizing[t] # NIL =>
       /\ resizing[t].old \in DOMAIN live /\ resizing[t].new \notin DOMAIN live
       /\ \A u \in Callers : resizing[u] # NIL /\ u # t =>
            resizing[u].old # resizing[t].old /\ resizing[u].new # resizing[t].new

LEMMA ResizesAre ==
  /\ NIL \notin Resizes
  /\ \A n \in MallocSizes : n \in Nat \ {0}
  /\ \A p \in CallocPairs : p[1] \in Nat \ {0} /\ p[2] \in Nat \ {0}
BY HeapAssumption DEF Resizes

\* A block that is asked for comes into hand.
LEMMA MallocKeeps ==
  ASSUME MallocInv, NEW size \in Nat \ {0}, malloc(heap, size)[2] # NIL
  PROVE  LET g == malloc(heap, size)[1]
             b == malloc(heap, size)[2]
         IN  /\ HeapRight(g, BlocksInHand \cup {b}) /\ b \in Nat /\ b \notin BlocksInHand
             /\ size <= Room(g, b) /\ \A c \in BlocksInHand : Room(g, c) = Room(heap, c)
<1>1. HeapRight(heap, BlocksInHand)
  BY DEF MallocInv
<1>2. HeapGives(heap, BlocksInHand, size, malloc(heap, size)[1], malloc(heap, size)[2])
  BY <1>1, MallocGives
<1> QED
  BY <1>2 DEF HeapGives

\* malloc and calloc.
LEMMA ObtainKeeps ==
  ASSUME MallocInv, NEW size \in Nat \ {0}, NEW n, malloc(heap, size)[2] # NIL,
         heap' = malloc(heap, size)[1],
         LET r == malloc(heap, size)
         IN  live' = [b \in DOMAIN live \cup {r[2]} |-> IF b = r[2] THEN n ELSE live[b]],
         UNCHANGED resizing
  PROVE  MallocInv' /\ BlocksInHand' = BlocksInHand \cup {malloc(heap, size)[2]}
<1> DEFINE c == malloc(heap, size)[2]
<1>1. HeapRight(heap', BlocksInHand \cup {c}) /\ c \notin BlocksInHand
  BY MallocKeeps
<1>2. DOMAIN live' = DOMAIN live \cup {c}
  OBVIOUS
<1> HIDE DEF c
<1>3. Pending' = Pending
  BY DEF Pending
<1>4. BlocksInHand' = BlocksInHand \cup {c}
  BY <1>2, <1>3 DEF BlocksInHand
<1>5. \A t \in Callers : resizing[t] # NIL => resizing[t].new \in Pending
  BY DEF Pending
<1>6. MallocInv'
  BY <1>1, <1>2, <1>4, <1>5 DEF MallocInv, BlocksInHand
<1> QED
  BY <1>4, <1>6 DEF c

LEMMA FreeBlockKeeps ==
  ASSUME MallocInv, NEW b \in DOMAIN live, FreeBlock(b)
  PROVE  MallocInv' /\ BlocksInHand' = BlocksInHand \ {b}
<1>1. /\ \A u \in Callers : resizing[u] # NIL => resizing[u].old # b
      /\ heap' = free(heap, b) /\ DOMAIN live' = DOMAIN live \ {b} /\ resizing' = resizing
  BY DEF FreeBlock, Usable, Restrict
<1>2. b \in BlocksInHand /\ HeapRight(heap, BlocksInHand)
  BY DEF BlocksInHand, MallocInv
<1>3. b \notin Pending /\ Pending' = Pending
  BY <1>1 DEF Pending, MallocInv
<1>4. BlocksInHand' = BlocksInHand \ {b}
  BY <1>1, <1>3 DEF BlocksInHand
<1>5. HeapRight(heap', BlocksInHand')
  BY <1>1, <1>2, <1>4, FreeGives
<1>6. MallocInv'
  BY <1>1, <1>5 DEF MallocInv
<1> QED
  BY <1>4, <1>6

LEMMA ReallocKeeps ==
  ASSUME MallocInv, NEW t \in Callers, NEW b \in DOMAIN live, NEW size \in MallocSizes, Realloc(t, b, size)
  PROVE  MallocInv' /\ BlocksInHand' = BlocksInHand \cup {malloc(heap, size)[2]} /\ malloc(heap, size)[2] \notin BlocksInHand
<1> DEFINE c == malloc(heap, size)[2]
           j == [old |-> b, new |-> c, size |-> size]
<1>1. /\ resizing[t] = NIL /\ (\A u \in Callers : resizing[u] # NIL => resizing[u].old # b)
      /\ c # NIL /\ heap' = malloc(heap, size)[1] /\ live' = live
      /\ resizing' = [resizing EXCEPT ![t] = j]
  BY DEF Realloc, Usable
<1>2. HeapRight(heap', BlocksInHand \cup {c}) /\ c \in Nat /\ c \notin BlocksInHand
  BY <1>1, ResizesAre, MallocKeeps
<1>3. resizing \in [Callers -> {NIL} \cup Resizes]
  BY DEF MallocInv
<1>4. b \in Nat
  BY DEF MallocInv, HeapRight, HeapSound, BlockOf, BlocksInHand
<1>5. j \in Resizes /\ j # NIL /\ j.old = b /\ j.new = c
  <2>1. j \in Resizes
    BY <1>2, <1>4 DEF Resizes
  <2> QED
    BY <2>1, ResizesAre
<1> HIDE DEF c, j
<1>6. resizing'[t] = j /\ \A u \in Callers : u # t => resizing'[u] = resizing[u]
  BY <1>1, <1>3
<1>7. Pending' = Pending \cup {c}
  <2>1. {u \in Callers : resizing'[u] # NIL} = {u \in Callers : resizing[u] # NIL} \cup {t}
    BY <1>1, <1>5, <1>6
  <2>2. t \notin {u \in Callers : resizing[u] # NIL}
    BY <1>1
  <2> QED
    BY <1>5, <1>6, <2>1, <2>2 DEF Pending
<1>8. BlocksInHand' = BlocksInHand \cup {c}
  BY <1>1, <1>7 DEF BlocksInHand
<1>9. resizing' \in [Callers -> {NIL} \cup Resizes]
  BY <1>1, <1>3, <1>5
<1>10. \A u \in Callers : resizing[u] # NIL => resizing[u].new \in BlocksInHand
  BY DEF Pending, BlocksInHand
<1>11. ASSUME NEW u \in Callers, resizing'[u] # NIL
       PROVE  /\ resizing'[u].old \in DOMAIN live' /\ resizing'[u].new \notin DOMAIN live'
              /\ \A v \in Callers : resizing'[v] # NIL /\ v # u =>
                   resizing'[v].old # resizing'[u].old /\ resizing'[v].new # resizing'[u].new
  <2>1. CASE u = t
    <3>1. c \notin DOMAIN live
      BY <1>2 DEF BlocksInHand
    <3> QED
      BY <1>1, <1>2, <1>5, <1>6, <1>10, <2>1, <3>1
  <2>2. CASE u # t
    BY <1>1, <1>2, <1>5, <1>6, <1>10, <1>11, <2>2 DEF MallocInv
  <2> QED
    BY <2>1, <2>2
<1>12. MallocInv'
  BY <1>2, <1>8, <1>9, <1>11 DEF MallocInv
<1> QED
  BY <1>2, <1>8, <1>12 DEF c

LEMMA MovedKeeps ==
  ASSUME MallocInv, NEW t \in Callers, Moved(t)
  PROVE  MallocInv' /\ BlocksInHand' = BlocksInHand \ {resizing[t].old} /\ resizing[t].old # resizing[t].new
<1> DEFINE j == resizing[t]
<1>1. /\ j # NIL /\ heap' = free(heap, j.old)
      /\ DOMAIN live' = (DOMAIN live \ {j.old}) \cup {j.new}
      /\ resizing' = [resizing EXCEPT ![t] = NIL]
  BY DEF Moved
<1>2. resizing \in [Callers -> {NIL} \cup Resizes] /\ j.old \in DOMAIN live /\ j.new \notin DOMAIN live
  BY <1>1 DEF MallocInv
<1>3. resizing'[t] = NIL /\ \A u \in Callers : u # t => resizing'[u] = resizing[u]
  BY <1>1, <1>2
<1>4. \A u \in Callers : resizing[u] # NIL /\ u # t =>
        /\ resizing[u].new # j.new /\ resizing[u].old # j.old
        /\ resizing[u].new \notin DOMAIN live /\ resizing[u].old \in DOMAIN live
  BY <1>1 DEF MallocInv
<1>5. j.new \in Pending /\ j.old \notin Pending
  <2>1. j.new \in Pending
    BY <1>1 DEF Pending
  <2>2. j.old \notin Pending
    BY <1>1, <1>2, <1>4 DEF Pending
  <2> QED
    BY <2>1, <2>2
<1> HIDE DEF j
<1>6. Pending' = Pending \ {j.new}
  <2>1. {u \in Callers : resizing'[u] # NIL} = {u \in Callers : resizing[u] # NIL} \ {t}
    BY <1>3
  <2>2. Pending' = {resizing[u].new : u \in {v \in Callers : resizing[v] # NIL} \ {t}}
    BY <1>3, <2>1 DEF Pending
  <2>3. Pending = {resizing[u].new : u \in {v \in Callers : resizing[v] # NIL} \ {t}} \cup {j.new}
    BY <1>1 DEF Pending, j
  <2>4. j.new \notin {resizing[u].new : u \in {v \in Callers : resizing[v] # NIL} \ {t}}
    BY <1>4
  <2> QED
    BY <2>2, <2>3, <2>4
<1>7. BlocksInHand' = BlocksInHand \ {j.old}
  BY <1>1, <1>2, <1>5, <1>6 DEF BlocksInHand
<1>8. HeapRight(heap', BlocksInHand')
  <2>1. j.old \in BlocksInHand /\ HeapRight(heap, BlocksInHand)
    BY <1>2 DEF BlocksInHand, MallocInv
  <2> QED
    BY <1>1, <1>7, <2>1, FreeGives
<1>9. resizing' \in [Callers -> {NIL} \cup Resizes]
  BY <1>1, <1>2
<1>10. ASSUME NEW u \in Callers, resizing'[u] # NIL
       PROVE  /\ resizing'[u].old \in DOMAIN live' /\ resizing'[u].new \notin DOMAIN live'
              /\ \A v \in Callers : resizing'[v] # NIL /\ v # u =>
                   resizing'[v].old # resizing'[u].old /\ resizing'[v].new # resizing'[u].new
  <2>1. u # t /\ resizing'[u] = resizing[u] /\ resizing[u] # NIL
    BY <1>3, <1>10
  <2>2. resizing'[u].old \in DOMAIN live' /\ resizing'[u].new \notin DOMAIN live'
    BY <1>1, <1>4, <2>1
  <2>3. ASSUME NEW v \in Callers, resizing'[v] # NIL, v # u
        PROVE  resizing'[v].old # resizing'[u].old /\ resizing'[v].new # resizing'[u].new
    <3>1. v # t /\ resizing'[v] = resizing[v]
      BY <1>3, <2>3
    <3> QED
      BY <2>1, <2>3, <3>1 DEF MallocInv
  <2> QED
    BY <2>2, <2>3
<1>11. MallocInv'
  BY <1>8, <1>9, <1>10 DEF MallocInv
<1> QED
  BY <1>2, <1>7, <1>11 DEF j

LEMMA CallocSize ==
  ASSUME NEW p \in CallocPairs, (p[1] * p[2]) % SIZE_WORD >= p[1]
  PROVE  (p[1] * p[2]) % SIZE_WORD \in Nat \ {0}
<1> DEFINE x == p[1] * p[2]
<1>1. p[1] \in Nat \ {0} /\ p[2] \in Nat \ {0} /\ SIZE_WORD \in Nat \ {0}
  BY ResizesAre, HeapAssumption
<1>2. x \in Nat
  BY <1>1
<1> HIDE DEF x
<1>3. x % SIZE_WORD \in Nat
  BY <1>1, <1>2
<1> QED
  BY <1>1, <1>3 DEF x

LEMMA MallocInitRight == MallocInit => MallocInv
<1> SUFFICES ASSUME MallocInit PROVE MallocInv
  OBVIOUS
<1>1. /\ heap = [used |-> {}, arena |-> [p \in PoolRange |-> NIL], free_list |-> [d \in BlockSizes |-> <<>>]]
      /\ DOMAIN live = {} /\ resizing = [t \in Callers |-> NIL]
  BY DEF MallocInit
<1>2. BlocksInHand = {}
  BY <1>1 DEF BlocksInHand, Pending
<1>3. HeapTypeOK(heap)
  <2>1. <<>> \in Seq(Nat)
    OBVIOUS
  <2> QED
    BY <1>1, <2>1 DEF HeapTypeOK
<1>4. IsInjective(<<>>) /\ Range(<<>>) = {}
  BY DEF IsInjective, Range
<1>5. (\A p \in PoolRange : heap.arena[p] = NIL) /\ (\A d \in BlockSizes : heap.free_list[d] = <<>>)
  BY <1>1
<1>6. HeapRight(heap, BlocksInHand)
  BY <1>2, <1>3, <1>4, <1>5 DEF HeapRight, HeapSound, ArenasRight, ListsRight, IsSmall
<1> QED
  BY <1>1, <1>6 DEF MallocInv

LEMMA MallocStepKeeps == MallocInv /\ [MallocNext]_mallocVars => MallocInv'
<1> SUFFICES ASSUME MallocInv, [MallocNext]_mallocVars PROVE MallocInv'
  OBVIOUS
<1>1. ASSUME NEW n \in MallocSizes, Malloc(n) PROVE MallocInv'
  BY <1>1, ResizesAre, ObtainKeeps DEF Malloc
<1>2. ASSUME NEW p \in CallocPairs, Calloc(p[1], p[2]) PROVE MallocInv'
  <2> DEFINE size == (p[1] * p[2]) % SIZE_WORD
  <2>1. size \in Nat \ {0}
    BY <1>2, CallocSize DEF Calloc
  <2>2. /\ malloc(heap, size)[2] # NIL /\ heap' = malloc(heap, size)[1] /\ UNCHANGED resizing
        /\ live' = [b \in DOMAIN live \cup {malloc(heap, size)[2]} |->
                      IF b = malloc(heap, size)[2] THEN p[1] * p[2] ELSE live[b]]
    BY <1>2 DEF Calloc
  <2> HIDE DEF size
  <2> QED
    BY <2>1, <2>2, ObtainKeeps
<1>3. ASSUME NEW b \in DOMAIN live, FreeBlock(b) PROVE MallocInv'
  BY <1>3, FreeBlockKeeps
<1>4. ASSUME UNCHANGED <<heap, live, resizing>> PROVE MallocInv'
  <2>1. BlocksInHand' = BlocksInHand
    BY <1>4 DEF BlocksInHand, Pending
  <2> QED
    BY <1>4, <2>1 DEF MallocInv
<1>5. ASSUME NEW b \in DOMAIN live, NEW v \in Contents, Write(b, v) PROVE MallocInv'
  BY <1>4, <1>5 DEF Write
<1>6. ASSUME NEW t \in Callers, NEW b \in DOMAIN live, NEW n \in MallocSizes, Realloc(t, b, n) PROVE MallocInv'
  BY <1>6, ReallocKeeps
<1>7. ASSUME NEW t \in Callers, Copy(t) PROVE MallocInv'
  BY <1>4, <1>7 DEF Copy
<1>8. ASSUME NEW t \in Callers, Moved(t) PROVE MallocInv'
  BY <1>8, MovedKeeps
<1>9. CASE UNCHANGED mallocVars
  BY <1>4, <1>9 DEF mallocVars
<1> QED
  BY <1>1, <1>2, <1>3, <1>5, <1>6, <1>7, <1>8, <1>9 DEF MallocNext

LEMMA HeapIsConsistent == MallocInv => HeapConsistent
<1> SUFFICES ASSUME MallocInv PROVE HeapConsistent
  OBVIOUS
<1>1. /\ HeapSound(heap, BlocksInHand) /\ HeapTypeOK(heap) /\ ArenasRight(heap)
      /\ \A p \in PoolRange : IsSmall(heap, p) => heap.arena[p].free_cnt < blocks_per_arena(heap.arena[p].desc)
  BY DEF MallocInv, HeapRight, HeapSound
<1>2. \A d \in BlockSizes :
        /\ IsInjective(heap.free_list[d])
        /\ \A b \in Range(heap.free_list[d]) : BlockOf(heap, b) /\ heap.arena[block_to_arena(b)].desc = d
  BY <1>1 DEF HeapSound, ListsRight
<1>3. ASSUME NEW d \in BlockSizes, NEW b \in Range(heap.free_list[d])
      PROVE  b \notin BlocksInHand /\ heap.arena[block_to_arena(b)] # NIL
  <2> DEFINE p == block_to_arena(b)
  <2>1. BlockOf(heap, b) /\ heap.arena[p].desc = d /\ p \in PoolRange /\ heap.arena[p] # NIL /\ d # 0
    BY <1>2, SizesFit DEF BlockOf
  <2>2. IsSmall(heap, p)
    BY <2>1 DEF IsSmall
  <2>3. CountOf(heap, BlocksInHand, p)
    BY <1>1, <2>1, <2>2 DEF HeapSound
  <2>4. ArenaBlocks(p, d) \ Range(heap.free_list[d]) = ArenaBlocks(p, d) \cap BlocksInHand
    BY <2>1, <2>3 DEF CountOf
  <2>5. block_to_arena(b) = p
    OBVIOUS
  <2> HIDE DEF p
  <2>6. \A c : BlockOf(heap, c) /\ block_to_arena(c) = p => c \in ArenaBlocks(p, heap.arena[p].desc)
    BY <1>1, <2>1, <2>2, SmallArena
  <2>7. b \in ArenaBlocks(p, d)
    BY <2>1, <2>5, <2>6
  <2>8. b \notin BlocksInHand
    BY <2>4, <2>7
  <2>9. heap.arena[block_to_arena(b)] # NIL
    BY <2>1, <2>5
  <2> QED
    BY <2>8, <2>9
<1>4. OnLists \cap (DOMAIN live \cup Pending) = {} /\ \A b \in OnLists : heap.arena[block_to_arena(b)] # NIL
  BY <1>3 DEF OnLists, BlocksInHand
<1>5. ASSUME NEW p \in PoolRange, heap.arena[p] # NIL
      PROVE  LET d == heap.arena[p].desc
                 blocks == Range(arena_blocks(p, d))
             IN  /\ p \in heap.used
                 /\ d # 0 =>
                      /\ heap.arena[p].free_cnt = Cardinality(blocks \cap Range(heap.free_list[d]))
                      /\ blocks \ Range(heap.free_list[d]) = blocks \cap (DOMAIN live \cup Pending)
                      /\ heap.arena[p].free_cnt < blocks_per_arena(d)
  <2> DEFINE d == heap.arena[p].desc
             blocks == Range(arena_blocks(p, d))
  <2>1. p \in heap.used
    <3>1. p \in Nat /\ heap.arena[p].free_cnt \in Nat /\ (d = 0 => heap.arena[p].free_cnt > 0)
      BY <1>1, <1>5, HeapFields, PageNumbers DEF ArenasRight
    <3>2. p \in PagesOfArena(heap, p)
      BY <3>1 DEF PagesOfArena
    <3> QED
      BY <1>1, <1>5, <3>2 DEF ArenasRight
  <2>2. ASSUME d # 0
        PROVE  /\ heap.arena[p].free_cnt = Cardinality(blocks \cap Range(heap.free_list[d]))
               /\ blocks \ Range(heap.free_list[d]) = blocks \cap (DOMAIN live \cup Pending)
               /\ heap.arena[p].free_cnt < blocks_per_arena(d)
    <3>1. IsSmall(heap, p)
      BY <1>5, <2>2 DEF IsSmall
    <3>2. d \in BlockSizes /\ p \in Nat
      BY <1>1, <3>1, SmallArena
    <3>3. blocks = ArenaBlocks(p, d)
      BY <3>2, ArenaBlocksAre
    <3>4. CountOf(heap, BlocksInHand, p)
      BY <1>1, <3>1 DEF HeapSound
    <3> QED
      BY <1>1, <3>1, <3>3, <3>4 DEF CountOf, BlocksInHand
  <2> QED
    BY <2>1, <2>2
<1> QED
  BY <1>2, <1>4, <1>5 DEF HeapConsistent

\* Whatever is asked for and given back, in any order and by any number of callers
\* in the middle of realloc: the free lists of malloc.c have the free blocks of the
\* arenas that exist, each once, and every arena counts its own.
THEOREM HeapConsistentHolds == MallocSpec => []HeapConsistent
<1>1. MallocSpec => []MallocInv
  BY MallocInitRight, MallocStepKeeps, PTL DEF MallocSpec
<1> QED
  BY <1>1, HeapIsConsistent, PTL
-----------------------------------------------------------------------------
(***************************************************************************)
(* What malloc.h promises.                                                 *)
(***************************************************************************)
HeapValues == Contents \cup {Garbage, Zeros}
HeapSizes == MallocSizes \cup {p[1] * p[2] : p \in CallocPairs}

\* A block has room for what its caller asked for.
RoomInv ==
  /\ \A b \in DOMAIN live : live[b] \in Nat /\ live[b] <= Room(heap, b)
  /\ \A t \in Callers : resizing[t] # NIL => resizing[t].size <= Room(heap, resizing[t].new)

\* The contents of a block that realloc has copied are those of the old one.
ContentsInv ==
  /\ DOMAIN live \subseteq DOMAIN payload /\ DOMAIN payload \subseteq BlocksInHand
  /\ \A b \in DOMAIN payload : payload[b] \in HeapValues
  /\ \A t \in Callers : resizing[t] # NIL /\ resizing[t].new \in DOMAIN payload =>
       payload[resizing[t].new] = payload[resizing[t].old]

PromiseInv == MallocInv /\ RoomInv /\ ContentsInv

\* What calloc takes for a product that fits in a word does fit.
CallocExact ==
  \A p \in CallocPairs :
    LET size == (p[1] * p[2]) % SIZE_WORD
    IN  size >= p[1] /\ size >= p[2] => size = p[1] * p[2]

\* A block that a caller gets lies in the pool and apart from those in hand.
PlacedIn(bs, a, n) ==
  /\ a \in Bytes /\ a .. a + n - 1 \subseteq Bytes
  /\ \A b \in DOMAIN bs : a + n <= b \/ b + bs[b].size <= a

LEMMA InPool ==
  ASSUME NEW h, NEW U, HeapSound(h, U), NEW a \in U, NEW n \in Nat \ {0}, n <= Room(h, a)
  PROVE  a \in Bytes /\ a .. a + n - 1 \subseteq Bytes
<1> DEFINE p == block_to_arena(a)
<1>1. HeapTypeOK(h) /\ ArenasRight(h) /\ BlockOf(h, a)
  BY DEF HeapSound
<1>2. p \in Nat /\ a \in Nat /\ PGSIZE \in Nat /\ PoolPages \in Nat
  BY <1>1, PageNumbers DEF BlockOf
<1>3. PICK m \in Nat \ {0} : /\ p + m <= PoolPages
                             /\ Room(h, a) \in Int
                             /\ a + Room(h, a) <= (p + m) * PGSIZE
  BY <1>1, BlockSpan
<1>4. (p + m) * PGSIZE <= PoolPages * PGSIZE /\ (p + m) * PGSIZE \in Nat /\ PoolPages * PGSIZE \in Nat
  <2>1. p + m \in Nat
    BY <1>2
  <2> QED
    BY <1>2, <1>3, <2>1, TimesMono
<1> DEFINE x == (p + m) * PGSIZE
           y == PoolPages * PGSIZE
<1>5. x <= y /\ x \in Nat /\ y \in Nat /\ a + Room(h, a) <= x
  BY <1>3, <1>4
<1>6. Bytes = 0 .. y - 1
  BY DEF Bytes
<1> HIDE DEF x, y, p
<1>7. a + n <= y
  BY <1>2, <1>3, <1>5
<1> QED
  BY <1>2, <1>5, <1>6, <1>7

LEMMA HandedIs ==
  /\ DOMAIN Handed = DOMAIN live
  /\ \A b \in DOMAIN live : Handed[b] = [size |-> live[b], value |-> payload[b]]
                            /\ Handed[b].size = live[b] /\ Handed[b].value = payload[b]
BY DEF Handed

\* malloc and calloc: one step of the promise.
LEMMA Obtained ==
  ASSUME PromiseInv, NEW size \in Nat \ {0}, NEW v \in HeapValues, malloc(heap, size)[2] # NIL,
         heap' = malloc(heap, size)[1],
         LET r == malloc(heap, size)
         IN  /\ live' = [b \in DOMAIN live \cup {r[2]} |-> IF b = r[2] THEN size ELSE live[b]]
             /\ Stored(r[2], v),
         UNCHANGED resizing
  PROVE  LET c == malloc(heap, size)[2]
         IN  /\ PromiseInv' /\ PlacedIn(Handed, c, size)
             /\ Handed' = [b \in DOMAIN Handed \cup {c} |->
                             IF b = c THEN [size |-> size, value |-> v] ELSE Handed[b]]
<1> DEFINE c == malloc(heap, size)[2]
<1>1. MallocInv /\ RoomInv /\ ContentsInv
  BY DEF PromiseInv
<1>2. MallocInv' /\ BlocksInHand' = BlocksInHand \cup {c}
  BY <1>1, ObtainKeeps
<1>3. /\ HeapRight(heap', BlocksInHand \cup {c}) /\ c \in Nat /\ c \notin BlocksInHand
      /\ size <= Room(heap', c) /\ \A b \in BlocksInHand : Room(heap', b) = Room(heap, b)
  BY <1>1, MallocKeeps
<1>4. /\ live' = [b \in DOMAIN live \cup {c} |-> IF b = c THEN size ELSE live[b]]
      /\ payload' = [b \in DOMAIN payload \cup {c} |-> IF b = c THEN v ELSE payload[b]]
      /\ resizing' = resizing
  BY DEF Stored
<1> HIDE DEF c
<1>5. /\ DOMAIN live' = DOMAIN live \cup {c} /\ live'[c] = size
      /\ \A b \in DOMAIN live : b # c /\ live'[b] = live[b] /\ b \in BlocksInHand
      /\ DOMAIN payload' = DOMAIN payload \cup {c} /\ payload'[c] = v
      /\ \A b \in DOMAIN payload : b # c /\ payload'[b] = payload[b]
  BY <1>1, <1>3, <1>4 DEF BlocksInHand, ContentsInv
<1>6. \A t \in Callers : resizing[t] # NIL =>
        /\ resizing[t].new \in BlocksInHand /\ resizing[t].old \in DOMAIN payload
        /\ resizing[t].new # c /\ resizing[t].old # c
  BY <1>1, <1>3 DEF BlocksInHand, Pending, MallocInv, ContentsInv
<1>7. RoomInv'
  BY <1>1, <1>3, <1>4, <1>5, <1>6 DEF RoomInv
<1>8. ContentsInv'
  BY <1>1, <1>2, <1>4, <1>5, <1>6 DEF ContentsInv
<1>9. HeapSound(heap', BlocksInHand \cup {c})
  BY <1>3 DEF HeapRight
<1>10. PlacedIn(Handed, c, size)
  <2>1. c \in Bytes /\ c .. c + size - 1 \subseteq Bytes
    BY <1>3, <1>9, InPool
  <2>2. ASSUME NEW b \in DOMAIN Handed PROVE c + size <= b \/ b + Handed[b].size <= c
    <3>1. b \in DOMAIN live /\ Handed[b].size = live[b] /\ live[b] \in Nat /\ live[b] <= Room(heap, b)
      BY <1>1, HandedIs DEF RoomInv
    <3>2. b # c /\ b \in BlocksInHand /\ Room(heap', b) = Room(heap, b)
      BY <1>3, <1>5, <3>1
    <3>3. c + Room(heap', c) <= b \/ b + Room(heap', b) <= c
      BY <1>9, <3>2, InHandApart
    <3>4. Room(heap', c) \in Int /\ Room(heap', b) \in Int /\ b \in Nat
      BY <1>9, <3>2, BlockSpan DEF HeapSound, BlockOf
    <3> QED
      BY <1>3, <3>1, <3>2, <3>3, <3>4
  <2> QED
    BY <2>1, <2>2 DEF PlacedIn
<1>11. Handed' = [b \in DOMAIN Handed \cup {c} |->
                    IF b = c THEN [size |-> size, value |-> v] ELSE Handed[b]]
  <2>1. Handed' = [b \in DOMAIN live' |-> [size |-> live'[b], value |-> payload'[b]]]
    BY DEF Handed
  <2>2. \A b \in DOMAIN live : b \in DOMAIN payload
    BY <1>1 DEF ContentsInv
  <2> QED
    BY <1>5, <2>1, <2>2, HandedIs
<1> QED
  BY <1>2, <1>7, <1>8, <1>10, <1>11 DEF PromiseInv, c

\* free: one step of the promise.
LEMMA Released ==
  ASSUME PromiseInv, NEW b \in DOMAIN live, FreeBlock(b)
  PROVE  PromiseInv' /\ Handed' = Restrict(Handed, DOMAIN Handed \ {b})
<1>1. MallocInv /\ RoomInv /\ ContentsInv
  BY DEF PromiseInv
<1>2. MallocInv' /\ BlocksInHand' = BlocksInHand \ {b}
  BY <1>1, FreeBlockKeeps
<1>3. /\ \A u \in Callers : resizing[u] # NIL => resizing[u].old # b
      /\ heap' = free(heap, b) /\ resizing' = resizing
      /\ live' = [c \in DOMAIN live \ {b} |-> live[c]]
      /\ payload' = [c \in DOMAIN payload \ {b} |-> payload[c]]
  BY DEF FreeBlock, Usable, Restrict
<1>4. \A c \in BlocksInHand \ {b} : Room(heap', c) = Room(heap, c)
  <2>1. b \in BlocksInHand /\ HeapRight(heap, BlocksInHand)
    BY <1>1 DEF BlocksInHand, MallocInv
  <2>2. \A c \in BlocksInHand \ {b} : Room(free(heap, b), c) = Room(heap, c)
    BY <2>1, FreeGives
  <2> QED
    BY <1>3, <2>2
<1>5. \A t \in Callers : resizing[t] # NIL =>
        resizing[t].new \in BlocksInHand /\ resizing[t].new # b /\ resizing[t].old # b /\ resizing[t].old \in DOMAIN payload
  BY <1>1, <1>3 DEF BlocksInHand, Pending, MallocInv, ContentsInv
<1>6. \A c \in DOMAIN live : c \in BlocksInHand
  BY DEF BlocksInHand
<1>7. RoomInv'
  BY <1>1, <1>3, <1>4, <1>5, <1>6 DEF RoomInv
<1>8. ContentsInv'
  BY <1>1, <1>2, <1>3, <1>5 DEF ContentsInv
<1>9. Handed' = Restrict(Handed, DOMAIN Handed \ {b})
  <2>1. Handed' = [c \in DOMAIN live' |-> [size |-> live'[c], value |-> payload'[c]]]
    BY DEF Handed
  <2>2. \A c \in DOMAIN live : c \in DOMAIN payload
    BY <1>1 DEF ContentsInv
  <2> QED
    BY <1>3, <2>1, <2>2, HandedIs DEF Restrict
<1> QED
  BY <1>2, <1>7, <1>8, <1>9 DEF PromiseInv

\* realloc gets its new block: the promise does not see it.
LEMMA Reallocated ==
  ASSUME PromiseInv, NEW t \in Callers, NEW b \in DOMAIN live, NEW size \in MallocSizes, Realloc(t, b, size)
  PROVE  PromiseInv' /\ Handed' = Handed
<1> DEFINE c == malloc(heap, size)[2]
<1>1. MallocInv /\ RoomInv /\ ContentsInv
  BY DEF PromiseInv
<1>2. MallocInv' /\ BlocksInHand' = BlocksInHand \cup {c} /\ c \notin BlocksInHand
  BY <1>1, ReallocKeeps
<1>3. /\ c # NIL /\ heap' = malloc(heap, size)[1] /\ live' = live /\ payload' = payload
      /\ resizing' = [resizing EXCEPT ![t] = [old |-> b, new |-> c, size |-> size]]
  BY DEF Realloc
<1>4. size <= Room(heap', c) /\ \A x \in BlocksInHand : Room(heap', x) = Room(heap, x)
  BY <1>1, <1>3, ResizesAre, MallocKeeps
<1> HIDE DEF c
<1>5. resizing \in [Callers -> {NIL} \cup Resizes]
  BY <1>1 DEF MallocInv
<1>6. /\ resizing'[t].new = c /\ resizing'[t].size = size
      /\ \A u \in Callers : u # t => resizing'[u] = resizing[u]
  BY <1>3, <1>5
<1>7. \A u \in Callers : resizing[u] # NIL => resizing[u].new \in BlocksInHand
  BY DEF BlocksInHand, Pending
<1>8. RoomInv'
  <2>1. \A x \in DOMAIN live' : live'[x] \in Nat /\ live'[x] <= Room(heap', x)
    BY <1>1, <1>3, <1>4 DEF RoomInv, BlocksInHand
  <2>2. ASSUME NEW u \in Callers, resizing'[u] # NIL PROVE resizing'[u].size <= Room(heap', resizing'[u].new)
    BY <1>1, <1>4, <1>6, <1>7, <2>2 DEF RoomInv
  <2> QED
    BY <2>1, <2>2 DEF RoomInv
<1>9. ContentsInv'
  <2>1. ASSUME NEW u \in Callers, resizing'[u] # NIL, resizing'[u].new \in DOMAIN payload
        PROVE  payload[resizing'[u].new] = payload[resizing'[u].old]
    <3>1. u # t
      BY <1>1, <1>2, <1>6, <2>1 DEF ContentsInv
    <3> QED
      BY <1>1, <1>6, <2>1, <3>1 DEF ContentsInv
  <2> QED
    BY <1>1, <1>2, <1>3, <2>1 DEF ContentsInv
<1>10. Handed' = Handed
  BY <1>3 DEF Handed
<1> QED
  BY <1>2, <1>8, <1>9, <1>10 DEF PromiseInv

\* Writing to blocks changes neither heap nor callers.
LEMMA StoredKeeps ==
  ASSUME PromiseInv, NEW b \in BlocksInHand, NEW v \in HeapValues, Stored(b, v), UNCHANGED <<heap, live, resizing>>,
         \A t \in Callers : resizing[t] # NIL =>
           /\ resizing[t].old # b
           /\ resizing[t].new = b => v = payload[resizing[t].old]
  PROVE  PromiseInv'
<1>1. MallocInv /\ RoomInv /\ ContentsInv
  BY DEF PromiseInv
<1>2. BlocksInHand' = BlocksInHand /\ MallocInv' /\ RoomInv'
  <2>1. BlocksInHand' = BlocksInHand
    BY DEF BlocksInHand, Pending
  <2> QED
    BY <1>1, <2>1 DEF MallocInv, RoomInv
<1>3. payload' = [x \in DOMAIN payload \cup {b} |-> IF x = b THEN v ELSE payload[x]] /\ resizing' = resizing /\ live' = live
  BY DEF Stored
<1>4. \A t \in Callers : resizing[t] # NIL => resizing[t].old \in DOMAIN payload
  BY <1>1 DEF MallocInv, ContentsInv
<1>5. ASSUME NEW t \in Callers, resizing[t] # NIL, resizing[t].new \in DOMAIN payload'
      PROVE  payload'[resizing[t].new] = payload'[resizing[t].old]
  <2>1. payload'[resizing[t].old] = payload[resizing[t].old]
    BY <1>3, <1>4, <1>5
  <2>2. CASE resizing[t].new = b
    BY <1>3, <1>5, <2>1, <2>2
  <2>3. CASE resizing[t].new # b
    BY <1>1, <1>3, <1>5, <2>1, <2>3 DEF ContentsInv
  <2> QED
    BY <2>2, <2>3
<1>6. ContentsInv'
  BY <1>1, <1>2, <1>3, <1>5 DEF ContentsInv
<1> QED
  BY <1>2, <1>6 DEF PromiseInv

\* A caller writes: one step of the promise.
LEMMA Written ==
  ASSUME PromiseInv, NEW b \in DOMAIN live, NEW v \in Contents, Write(b, v)
  PROVE  PromiseInv' /\ Handed' = [Handed EXCEPT ![b].value = v]
<1>1. /\ \A u \in Callers : resizing[u] # NIL => resizing[u].old # b /\ resizing[u].new # b
      /\ Stored(b, v) /\ heap' = heap /\ live' = live /\ resizing' = resizing
  BY DEF Write, Usable, PromiseInv, MallocInv
<1>2. PromiseInv'
  BY <1>1, StoredKeeps DEF BlocksInHand, HeapValues
<1>3. \A c \in DOMAIN live : payload'[c] = IF c = b THEN v ELSE payload[c]
  BY <1>1 DEF Stored, PromiseInv, ContentsInv
<1>4. Handed' = [c \in DOMAIN live |-> [size |-> live[c], value |-> IF c = b THEN v ELSE payload[c]]]
  BY <1>1, <1>3 DEF Handed
<1>5. [Handed EXCEPT ![b].value = v]
        = [c \in DOMAIN live |-> [size |-> live[c], value |-> IF c = b THEN v ELSE payload[c]]]
  <2> DEFINE r == [size |-> live[b], value |-> payload[b]]
             s == [r EXCEPT !.value = v]
             G == [Handed EXCEPT ![b].value = v]
  <2>1. s = [size |-> live[b], value |-> v]
    OBVIOUS
  <2>2. Handed[b] = r /\ DOMAIN Handed = DOMAIN live
    BY DEF Handed
  <2>3. G = [c \in DOMAIN Handed |-> IF c = b THEN [Handed[b] EXCEPT !.value = v] ELSE Handed[c]]
    OBVIOUS
  <2>4. G = [c \in DOMAIN Handed |-> IF c = b THEN s ELSE Handed[c]]
    BY <2>2, <2>3
  <2> HIDE DEF r, s, G
  <2>5. \A c \in DOMAIN live : c # b => Handed[c] = [size |-> live[c], value |-> payload[c]]
    BY DEF Handed
  <2>6. G = [c \in DOMAIN live |-> [size |-> live[c], value |-> IF c = b THEN v ELSE payload[c]]]
    BY <2>1, <2>2, <2>4, <2>5
  <2> QED
    BY <2>6 DEF G
<1> QED
  BY <1>2, <1>4, <1>5

\* realloc copies: the promise does not see it.
LEMMA Copied ==
  ASSUME PromiseInv, NEW t \in Callers, Copy(t)
  PROVE  PromiseInv' /\ Handed' = Handed
<1> DEFINE j == resizing[t]
<1>1. /\ j # NIL /\ j.new \notin DOMAIN payload /\ Stored(j.new, payload[j.old])
      /\ heap' = heap /\ live' = live /\ resizing' = resizing
  BY DEF Copy
<1>2. /\ j.old \in DOMAIN live /\ j.new \notin DOMAIN live /\ j.new \in BlocksInHand
      /\ payload[j.old] \in HeapValues
      /\ \A u \in Callers : resizing[u] # NIL =>
           resizing[u].old # j.new /\ (resizing[u].new = j.new => u = t)
  BY <1>1 DEF PromiseInv, MallocInv, ContentsInv, BlocksInHand, Pending
<1>3. PromiseInv'
  <2> DEFINE b == j.new
             v == payload[j.old]
  <2>1. \A u \in Callers : resizing[u] # NIL =>
          /\ resizing[u].old # b
          /\ resizing[u].new = b => v = payload[resizing[u].old]
    BY <1>2
  <2>2. b \in BlocksInHand /\ v \in HeapValues /\ Stored(b, v) /\ UNCHANGED <<heap, live, resizing>>
    BY <1>1, <1>2
  <2> HIDE DEF b, v
  <2> QED
    BY <2>1, <2>2, StoredKeeps
<1>4. \A c \in DOMAIN live : payload'[c] = payload[c]
  BY <1>1, <1>2 DEF Stored, PromiseInv, ContentsInv
<1>5. Handed' = Handed
  BY <1>1, <1>4 DEF Handed
<1> QED
  BY <1>3, <1>5

\* realloc returns: one step of the promise.
LEMMA Resized ==
  ASSUME PromiseInv, NEW t \in Callers, Moved(t)
  PROVE  LET j == resizing[t]
         IN  /\ PromiseInv' /\ PlacedIn(Handed, j.new, j.size)
             /\ j.old \in DOMAIN Handed /\ j.size \in MallocSizes
             /\ Handed' = [b \in (DOMAIN Handed \ {j.old}) \cup {j.new} |->
                             IF b = j.new THEN [size |-> j.size, value |-> Handed[j.old].value] ELSE Handed[b]]
<1> DEFINE j == resizing[t]
<1>1. MallocInv /\ RoomInv /\ ContentsInv
  BY DEF PromiseInv
<1>2. MallocInv' /\ BlocksInHand' = BlocksInHand \ {j.old}
  BY <1>1, MovedKeeps
<1>3. /\ j # NIL /\ j.new \in DOMAIN payload /\ heap' = free(heap, j.old)
      /\ live' = [b \in (DOMAIN live \ {j.old}) \cup {j.new} |-> IF b = j.new THEN j.size ELSE live[b]]
      /\ payload' = [b \in DOMAIN payload \ {j.old} |-> payload[b]]
      /\ resizing' = [resizing EXCEPT ![t] = NIL]
  BY DEF Moved, Restrict
<1>4. /\ resizing \in [Callers -> {NIL} \cup Resizes] /\ j \in Resizes
      /\ j.old \in DOMAIN live /\ j.new \notin DOMAIN live /\ j.old # j.new
      /\ payload[j.new] = payload[j.old] /\ j.size <= Room(heap, j.new)
  BY <1>1, <1>3 DEF MallocInv, RoomInv, ContentsInv
<1>5. j.size \in MallocSizes /\ j.size \in Nat \ {0} /\ j.new \in Nat
  BY <1>4, ResizesAre DEF Resizes
<1>6. resizing'[t] = NIL /\ \A u \in Callers : u # t => resizing'[u] = resizing[u]
  BY <1>3, <1>4
<1>7. j.new \in BlocksInHand /\ j.old \in BlocksInHand
  BY <1>3, <1>4 DEF BlocksInHand, Pending
<1>8. \A c \in BlocksInHand \ {j.old} : Room(heap', c) = Room(heap, c)
  BY <1>1, <1>3, <1>7, FreeGives DEF MallocInv
<1>9. \A u \in Callers : resizing[u] # NIL /\ u # t =>
        /\ resizing[u].new # j.new /\ resizing[u].old # j.old /\ resizing[u].new # j.old
        /\ resizing[u].new \in BlocksInHand /\ resizing[u].old \in DOMAIN live
  BY <1>1, <1>3, <1>4 DEF MallocInv, BlocksInHand, Pending
<1> HIDE DEF j
<1>10. /\ DOMAIN live' = (DOMAIN live \ {j.old}) \cup {j.new} /\ live'[j.new] = j.size
       /\ \A c \in DOMAIN live \ {j.old} : live'[c] = live[c] /\ c \in BlocksInHand /\ c # j.new
       /\ DOMAIN payload' = DOMAIN payload \ {j.old}
       /\ \A c \in DOMAIN payload \ {j.old} : payload'[c] = payload[c]
  BY <1>3, <1>4 DEF BlocksInHand
<1>11. RoomInv'
  <2>1. ASSUME NEW c \in DOMAIN live' PROVE live'[c] \in Nat /\ live'[c] <= Room(heap', c)
    <3>1. CASE c = j.new
      BY <1>4, <1>5, <1>7, <1>8, <1>10, <3>1
    <3>2. CASE c # j.new
      BY <1>1, <1>8, <1>10, <3>2 DEF RoomInv
    <3> QED
      BY <3>1, <3>2
  <2>2. ASSUME NEW u \in Callers, resizing'[u] # NIL PROVE resizing'[u].size <= Room(heap', resizing'[u].new)
    <3>1. u # t /\ resizing'[u] = resizing[u] /\ resizing[u].new \in BlocksInHand \ {j.old}
      BY <1>6, <1>9, <2>2
    <3> QED
      BY <1>1, <1>8, <2>2, <3>1 DEF RoomInv
  <2> QED
    BY <2>1, <2>2 DEF RoomInv
<1>12. ContentsInv'
  <2>1. DOMAIN live' \subseteq DOMAIN payload'
    BY <1>1, <1>3, <1>4, <1>10 DEF ContentsInv
  <2>2. DOMAIN payload' \subseteq BlocksInHand' /\ \A b \in DOMAIN payload' : payload'[b] \in HeapValues
    BY <1>1, <1>2, <1>10 DEF ContentsInv, j
  <2>3. ASSUME NEW u \in Callers, resizing'[u] # NIL, resizing'[u].new \in DOMAIN payload'
        PROVE  payload'[resizing'[u].new] = payload'[resizing'[u].old]
    <3>1. u # t /\ resizing'[u] = resizing[u] /\ resizing[u].old \in DOMAIN live /\ resizing[u].old # j.old
      BY <1>6, <1>9, <2>3
    <3>2. resizing[u].old \in DOMAIN payload
      BY <1>1, <3>1 DEF ContentsInv
    <3>3. payload[resizing[u].new] = payload[resizing[u].old]
      BY <1>1, <1>10, <2>3, <3>1 DEF ContentsInv
    <3> QED
      BY <1>10, <2>3, <3>1, <3>2, <3>3
  <2> QED
    BY <2>1, <2>2, <2>3 DEF ContentsInv
<1>13. PlacedIn(Handed, j.new, j.size)
  <2>0. HeapSound(heap, BlocksInHand)
    BY <1>1 DEF MallocInv, HeapRight
  <2>1. j.new \in Bytes /\ j.new .. j.new + j.size - 1 \subseteq Bytes
    BY <1>4, <1>5, <1>7, <2>0, InPool
  <2>2. ASSUME NEW b \in DOMAIN Handed PROVE j.new + j.size <= b \/ b + Handed[b].size <= j.new
    <3>1. b \in DOMAIN live /\ Handed[b].size = live[b] /\ live[b] \in Nat /\ live[b] <= Room(heap, b)
      BY <1>1, HandedIs DEF RoomInv
    <3>2. b # j.new /\ b \in BlocksInHand
      BY <1>4, <3>1 DEF BlocksInHand
    <3>3. j.new + Room(heap, j.new) <= b \/ b + Room(heap, b) <= j.new
      BY <1>7, <2>0, <3>2, InHandApart
    <3>4. Room(heap, j.new) \in Int /\ Room(heap, b) \in Int /\ b \in Nat
      BY <1>7, <2>0, <3>2, BlockSpan DEF HeapSound, BlockOf
    <3> QED
      BY <1>4, <1>5, <3>1, <3>3, <3>4
  <2> QED
    BY <2>1, <2>2 DEF PlacedIn
<1>14. Handed' = [b \in (DOMAIN Handed \ {j.old}) \cup {j.new} |->
                    IF b = j.new THEN [size |-> j.size, value |-> Handed[j.old].value] ELSE Handed[b]]
  <2>1. Handed' = [b \in DOMAIN live' |-> [size |-> live'[b], value |-> payload'[b]]]
    BY DEF Handed
  <2>2. payload'[j.new] = payload[j.old] /\ Handed[j.old].value = payload[j.old]
    BY <1>3, <1>4, <1>10, HandedIs
  <2>3. \A b \in DOMAIN live : b \in DOMAIN payload
    BY <1>1 DEF ContentsInv
  <2> QED
    BY <1>10, <2>1, <2>2, <2>3, HandedIs
<1> QED
  BY <1>2, <1>4, <1>5, <1>11, <1>12, <1>13, <1>14, HandedIs DEF PromiseInv, j
-----------------------------------------------------------------------------
\* What a caller gets is what the promise calls an Obtains.
LEMMA Obtains ==
  ASSUME NEW a, NEW n, NEW v, NEW bs, PlacedIn(Handed, a, n), DOMAIN bs \subseteq DOMAIN Handed,
         Handed' = [b \in DOMAIN bs \cup {a} |-> IF b = a THEN [size |-> n, value |-> v] ELSE bs[b]]
  PROVE  a \in Bytes \cap DOMAIN Handed' /\ Promised!Obtains(a, n, v, bs)
<1>1. Promised!Apart(a, n, Handed)
  BY DEF PlacedIn, Promised!Apart
<1> QED
  BY <1>1 DEF PlacedIn, Promised!Obtains

LEMMA MallocPromised ==
  ASSUME PromiseInv, NEW n \in MallocSizes, Malloc(n)
  PROVE  PromiseInv' /\ Promised!Next
<1> DEFINE c == malloc(heap, n)[2]
<1>1. n \in Nat \ {0} /\ n \in HeapSizes /\ Garbage \in HeapValues
  BY ResizesAre DEF HeapSizes, HeapValues
<1>2. /\ PromiseInv' /\ PlacedIn(Handed, c, n)
      /\ Handed' = [b \in DOMAIN Handed \cup {c} |->
                      IF b = c THEN [size |-> n, value |-> Garbage] ELSE Handed[b]]
  BY <1>1, Obtained DEF Malloc
<1> HIDE DEF c
<1>3. c \in Bytes \cap DOMAIN Handed' /\ Promised!Obtains(c, n, Garbage, Handed)
  BY <1>2, Obtains
<1>4. Promised!Obtain(c, n)
  BY <1>1, <1>3 DEF Promised!Obtain, HeapValues
<1> QED
  BY <1>1, <1>2, <1>3, <1>4 DEF Promised!Next, HeapSizes

LEMMA CallocPromised ==
  ASSUME CallocExact, PromiseInv, NEW p \in CallocPairs, Calloc(p[1], p[2])
  PROVE  PromiseInv' /\ Promised!Next
<1> DEFINE n == (p[1] * p[2]) % SIZE_WORD
           c == malloc(heap, n)[2]
<1>1. n \in Nat \ {0} /\ n = p[1] * p[2]
  BY CallocSize DEF Calloc, CallocExact
<1>2. n \in HeapSizes /\ Zeros \in HeapValues
  BY <1>1 DEF HeapSizes, HeapValues
<1>3. /\ malloc(heap, n)[2] # NIL /\ heap' = malloc(heap, n)[1]
      /\ live' = [b \in DOMAIN live \cup {c} |-> IF b = c THEN n ELSE live[b]]
      /\ Stored(c, Zeros) /\ UNCHANGED resizing
  BY <1>1 DEF Calloc
<1> HIDE DEF n
<1>4. /\ PromiseInv' /\ PlacedIn(Handed, c, n)
      /\ Handed' = [b \in DOMAIN Handed \cup {c} |->
                      IF b = c THEN [size |-> n, value |-> Zeros] ELSE Handed[b]]
  BY <1>1, <1>2, <1>3, Obtained
<1> HIDE DEF c
<1>5. c \in Bytes \cap DOMAIN Handed' /\ Promised!Obtains(c, n, Zeros, Handed)
  BY <1>4, Obtains
<1>6. Promised!ObtainZeroed(c, n)
  BY <1>5 DEF Promised!ObtainZeroed
<1> QED
  BY <1>2, <1>4, <1>5, <1>6 DEF Promised!Next, HeapSizes

LEMMA BlockPromised ==
  ASSUME PromiseInv, NEW b \in DOMAIN live, FreeBlock(b) \/ \E v \in Contents : Write(b, v)
  PROVE  PromiseInv' /\ Promised!Next
<1>1. b \in DOMAIN Handed
  BY HandedIs
<1>2. CASE FreeBlock(b)
  <2>1. PromiseInv' /\ Handed' = Restrict(Handed, DOMAIN Handed \ {b})
    BY <1>2, Released
  <2> QED
    BY <1>1, <2>1 DEF Promised!Next, Promised!Release, Restrict, Promised!Restrict
<1>3. ASSUME NEW v \in Contents, Write(b, v) PROVE PromiseInv' /\ Promised!Next
  <2>1. PromiseInv' /\ Handed' = [Handed EXCEPT ![b].value = v]
    BY <1>3, Written
  <2> QED
    BY <1>1, <2>1 DEF Promised!Next, Promised!Store
<1> QED
  BY <1>2, <1>3

LEMMA MovedPromised ==
  ASSUME PromiseInv, NEW t \in Callers, Moved(t)
  PROVE  PromiseInv' /\ Promised!Next
<1> DEFINE j == resizing[t]
           bs == Restrict(Handed, DOMAIN Handed \ {j.old})
           v == Handed[j.old].value
<1>1. /\ PromiseInv' /\ PlacedIn(Handed, j.new, j.size)
      /\ j.old \in DOMAIN Handed /\ j.size \in MallocSizes
      /\ Handed' = [b \in (DOMAIN Handed \ {j.old}) \cup {j.new} |->
                      IF b = j.new THEN [size |-> j.size, value |-> v] ELSE Handed[b]]
  BY Resized
<1> HIDE DEF j
<1>2. /\ DOMAIN bs = DOMAIN Handed \ {j.old} /\ DOMAIN bs \subseteq DOMAIN Handed
      /\ \A b \in DOMAIN bs : bs[b] = Handed[b]
  BY DEF Restrict
<1> HIDE DEF bs, v
<1>3. Handed' = [b \in DOMAIN bs \cup {j.new} |->
                   IF b = j.new THEN [size |-> j.size, value |-> v] ELSE bs[b]]
  BY <1>1, <1>2
<1>4. j.new \in Bytes \cap DOMAIN Handed' /\ Promised!Obtains(j.new, j.size, v, bs)
  BY <1>1, <1>2, <1>3, Obtains
<1>5. Promised!Resize(j.old, j.new, j.size)
  BY <1>1, <1>4 DEF Promised!Resize, bs, v, Restrict, Promised!Restrict
<1> QED
  BY <1>1, <1>4, <1>5 DEF Promised!Next, HeapSizes

LEMMA MallocInitPromised == MallocInit => PromiseInv /\ Promised!Init
<1> SUFFICES ASSUME MallocInit PROVE PromiseInv /\ Promised!Init
  OBVIOUS
<1>1. MallocInv
  BY MallocInitRight
<1>2. /\ live = [b \in {} |-> 0] /\ payload = [b \in {} |-> Zeros]
      /\ \A t \in Callers : resizing[t] = NIL
  BY DEF MallocInit
<1>3. RoomInv /\ ContentsInv
  BY <1>2 DEF RoomInv, ContentsInv
<1>4. DOMAIN live = {}
  BY <1>2
<1>5. Handed = [a \in {} |-> Zeros]
  BY <1>4 DEF Handed
<1> QED
  BY <1>1, <1>3, <1>5 DEF PromiseInv, Promised!Init

LEMMA MallocStepPromised ==
  CallocExact /\ PromiseInv /\ [MallocNext]_mallocVars => PromiseInv' /\ [Promised!Next]_Handed
<1> SUFFICES ASSUME CallocExact, PromiseInv, [MallocNext]_mallocVars
             PROVE  PromiseInv' /\ (Promised!Next \/ Handed' = Handed)
  OBVIOUS
<1>1. CASE \E n \in MallocSizes : Malloc(n)
  BY <1>1, MallocPromised
<1>2. CASE \E p \in CallocPairs : Calloc(p[1], p[2])
  BY <1>2, CallocPromised
<1>3. CASE \E b \in DOMAIN live : FreeBlock(b) \/ \E v \in Contents : Write(b, v)
  BY <1>3, BlockPromised
<1>4. ASSUME NEW t \in Callers,
             \/ \E b \in DOMAIN live, n \in MallocSizes : Realloc(t, b, n)
             \/ Copy(t) \/ Moved(t)
      PROVE  PromiseInv' /\ (Promised!Next \/ Handed' = Handed)
  <2>1. CASE \E b \in DOMAIN live, n \in MallocSizes : Realloc(t, b, n)
    BY <2>1, Reallocated
  <2>2. CASE Copy(t)
    BY <2>2, Copied
  <2>3. CASE Moved(t)
    BY <2>3, MovedPromised
  <2> QED
    BY <1>4, <2>1, <2>2, <2>3
<1>5. CASE UNCHANGED mallocVars
  <2>1. BlocksInHand' = BlocksInHand /\ Handed' = Handed
    BY <1>5 DEF mallocVars, BlocksInHand, Pending, Handed
  <2>2. MallocInv' /\ RoomInv' /\ ContentsInv'
    BY <1>5, <2>1 DEF mallocVars, PromiseInv, MallocInv, RoomInv, ContentsInv
  <2> QED
    BY <2>1, <2>2 DEF PromiseInv
<1> QED
  BY <1>1, <1>2, <1>3, <1>4, <1>5 DEF MallocNext

\* malloc, calloc, realloc and free keep the promise of malloc.h (malloc.c): the
\* blocks of callers lie apart, in the pool, and keep what is written to them
\* through every interleaving of a realloc's steps with other calls.  calloc's test
\* of the product (malloc.c:166) misses products that wrap round to something not
\* smaller than a factor; the kernel only calls calloc (1, size), which is exact.
THEOREM ImplementsHeapHolds == CallocExact => (MallocSpec => ImplementsHeap)
<1> SUFFICES ASSUME CallocExact PROVE MallocSpec => ImplementsHeap
  OBVIOUS
<1>1. MallocInit => PromiseInv /\ Promised!Init
  BY MallocInitPromised
<1>2. PromiseInv /\ [MallocNext]_mallocVars => PromiseInv' /\ [Promised!Next]_Handed
  BY MallocStepPromised
<1> QED
  BY <1>1, <1>2, PTL DEF MallocSpec, ImplementsHeap, Promised!Spec
=============================================================================
