------------------------------- MODULE Malloc -------------------------------
(***************************************************************************)
(* The kernel's heap (threads/malloc.c).  Blocks of one size come from the *)
(* arenas of one descriptor, whose lock makes malloc and free one step     *)
(* each; realloc is several.  An address is a number of bytes from the     *)
(* beginning of the page pool, a descriptor is its block size, and the     *)
(* contents of a block are one value.                                      *)
(***************************************************************************)
EXTENDS Integers, FiniteSets, FiniteSetsExt, Sequences, Functions

CONSTANTS
  Callers,       \* threads that call realloc
  PGSIZE,        \* bytes in a page
  HEADER,        \* bytes of struct arena
  MIN_BLOCK,     \* the smallest block size: 16
  PoolPages,     \* pages that palloc has
  MallocSizes,   \* sizes that are asked for
  CallocPairs,   \* arguments of calloc
  SIZE_WORD,     \* 2^32
  Contents,      \* what callers write to their blocks
  NIL

ASSUME HeapAssumption ==
  /\ {PGSIZE, HEADER, MIN_BLOCK, PoolPages, SIZE_WORD} \subseteq Nat \ {0}
  /\ 2 * HEADER <= PGSIZE
  /\ MallocSizes \subseteq Nat \ {0}
  /\ CallocPairs \subseteq (Nat \ {0}) \X (Nat \ {0})
  /\ NIL \notin Nat
  /\ NIL \notin [desc : Nat, free_cnt : Nat]
  /\ NIL \notin [old : Nat, new : Nat, size : MallocSizes]

VARIABLES
  heap,     \* used pages, the arenas in them, free_list of each descriptor
  live,     \* live[b]: the size that the caller of block b asked for
  payload,   \* payload[b]: the contents of the block at b
  resizing  \* resizing[t]: the realloc that t is in: [old, new, size] or NIL

mallocVars == <<heap, live, payload, resizing>>

Garbage == "garbage"
Zeros == "zeros"
PoolRange == 0 .. PoolPages - 1
Bytes == 0 .. PoolPages * PGSIZE - 1

\* malloc_init: block sizes double while below half a page.
BlockSizes == {n \in 1 .. PGSIZE : /\ 2 * n < PGSIZE
                                   /\ \E k \in 0 .. 10 : n = MIN_BLOCK * 2 ^ k}
blocks_per_arena(d) == (PGSIZE - HEADER) \div d

\* The smallest descriptor for size bytes, or 0 for a big block.
desc_for(size) ==
  LET fit == {d \in BlockSizes : d >= size} IN IF fit = {} THEN 0 ELSE Min(fit)

DIV_ROUND_UP(n, step) == (n + step - 1) \div step

\* palloc_get_multiple: the first group of n free pages, or NIL.
first_pages(h, n) ==
  LET starts == {p \in PoolRange : p + n <= PoolPages /\ p .. p + n - 1 \cap h.used = {}}
  IN  IF starts = {} THEN NIL ELSE Min(starts)

arena_to_block(page, d, i) == page * PGSIZE + HEADER + i * d
arena_blocks(page, d) ==
  [i \in 1 .. blocks_per_arena(d) |-> arena_to_block(page, d, i - 1)]
block_to_arena(b) == b \div PGSIZE

\* Mutant: no room for the arena's header.
big_pages_bare(size) == DIV_ROUND_UP(size, PGSIZE)

\* The pages of a big block.
big_pages(size) == DIV_ROUND_UP(size + HEADER, PGSIZE)

\* malloc: the heap after it and the block, or NIL.
big_block(h, size) ==
  LET n == big_pages(size)
      page == first_pages(h, n)
  IN  IF page = NIL THEN <<h, NIL>>
      ELSE << [h EXCEPT !.used = @ \cup page .. page + n - 1,
                        !.arena[page] = [desc |-> 0, free_cnt |-> n]],
              page * PGSIZE + HEADER >>

new_arena(h, d, page) ==
  [h EXCEPT !.used = @ \cup {page},
            !.arena[page] = [desc |-> d, free_cnt |-> blocks_per_arena(d)],
            !.free_list[d] = @ \o arena_blocks(page, d)]

small_block(h, d) ==
  LET page == first_pages(h, 1)
      g == IF h.free_list[d] # <<>> THEN h ELSE new_arena(h, d, page)
      b == Head(g.free_list[d])
  IN  IF h.free_list[d] = <<>> /\ page = NIL THEN <<h, NIL>>
      ELSE << [g EXCEPT !.free_list[d] = Tail(@), !.arena[block_to_arena(b)].free_cnt = @ - 1], b >>

malloc(h, size) ==
  LET d == desc_for(size) IN IF d = 0 THEN big_block(h, size) ELSE small_block(h, d)

\* Mutant: the blocks of an arena that is given back stay on the free list.
dropped_keeps(list, page, d) == list

\* The free list without the blocks of an arena: the k-th block that stays is k-th.
dropped(list, page, d) ==
  LET stay == {i \in DOMAIN list : list[i] \notin Range(arena_blocks(page, d))}
      nth(k) == CHOOSE i \in stay : Cardinality({j \in stay : j <= i}) = k
  IN  [k \in 1 .. Cardinality(stay) |-> list[nth(k)]]

\* free: the heap after it.
free(h, b) ==
  LET page == block_to_arena(b)
      a == h.arena[page]
      list == <<b>> \o h.free_list[a.desc]
  IN  IF a.desc = 0
      THEN [h EXCEPT !.used = @ \ (page .. page + a.free_cnt - 1), !.arena[page] = NIL]
      ELSE IF a.free_cnt + 1 >= blocks_per_arena(a.desc)
      THEN [h EXCEPT !.used = @ \ {page}, !.arena[page] = NIL,
                     !.free_list[a.desc] = dropped(list, page, a.desc)]
      ELSE [h EXCEPT !.arena[page].free_cnt = @ + 1, !.free_list[a.desc] = list]

Stored(b, v) == payload' = [x \in DOMAIN payload \cup {b} |-> IF x = b THEN v ELSE payload[x]]
Usable(b) == b \in DOMAIN live /\ \A u \in Callers : resizing[u] # NIL => resizing[u].old # b
-----------------------------------------------------------------------------
\* A block that malloc returns holds whatever was there.
Malloc(size) ==
  LET r == malloc(heap, size)
  IN  /\ r[2] # NIL
      /\ heap' = r[1]
      /\ live' = [b \in DOMAIN live \cup {r[2]} |-> IF b = r[2] THEN size ELSE live[b]]
      /\ Stored(r[2], Garbage)
      /\ UNCHANGED resizing

\* calloc, of a product that fits in size_t as far as it can tell.
Calloc(n, m) ==
  LET size == (n * m) % SIZE_WORD
      r == malloc(heap, size)
  IN  /\ size >= n /\ size >= m
      /\ r[2] # NIL
      /\ heap' = r[1]
      /\ live' = [b \in DOMAIN live \cup {r[2]} |-> IF b = r[2] THEN n * m ELSE live[b]]
      /\ Stored(r[2], Zeros)
      /\ UNCHANGED resizing

FreeBlock(b) ==
  /\ Usable(b)
  /\ heap' = free(heap, b)
  /\ live' = Restrict(live, DOMAIN live \ {b})
  /\ payload' = Restrict(payload, DOMAIN payload \ {b})
  /\ UNCHANGED resizing

\* realloc until malloc has returned a block.
Realloc(t, b, size) ==
  LET r == malloc(heap, size)
  IN  /\ resizing[t] = NIL /\ Usable(b)
      /\ r[2] # NIL
      /\ heap' = r[1]
      /\ resizing' = [resizing EXCEPT ![t] = [old |-> b, new |-> r[2], size |-> size]]
      /\ UNCHANGED <<live, payload>>

\* memcpy of as much as both blocks hold.
Copy(t) ==
  LET j == resizing[t]
  IN  /\ j # NIL /\ j.new \notin DOMAIN payload
      /\ Stored(j.new, payload[j.old])
      /\ UNCHANGED <<heap, live, resizing>>

\* The old block is freed and realloc returns.
Moved(t) ==
  LET j == resizing[t]
  IN  /\ j # NIL /\ j.new \in DOMAIN payload
      /\ heap' = free(heap, j.old)
      /\ live' = [b \in (DOMAIN live \ {j.old}) \cup {j.new} |-> IF b = j.new THEN j.size ELSE live[b]]
      /\ payload' = Restrict(payload, DOMAIN payload \ {j.old})
      /\ resizing' = [resizing EXCEPT ![t] = NIL]

\* A caller writes to a block of its own.
Write(b, v) ==
  /\ Usable(b)
  /\ Stored(b, v)
  /\ UNCHANGED <<heap, live, resizing>>

MallocInit ==
  /\ heap = [used |-> {}, arena |-> [p \in PoolRange |-> NIL],
             free_list |-> [d \in BlockSizes |-> <<>>]]
  /\ live = [b \in {} |-> 0]
  /\ payload = [b \in {} |-> Zeros]
  /\ resizing = [t \in Callers |-> NIL]

MallocNext ==
  \/ \E n \in MallocSizes : Malloc(n)
  \/ \E p \in CallocPairs : Calloc(p[1], p[2])
  \/ \E b \in DOMAIN live : FreeBlock(b) \/ \E v \in Contents : Write(b, v)
  \/ \E t \in Callers : \/ \E b \in DOMAIN live, n \in MallocSizes : Realloc(t, b, n)
                       \/ Copy(t) \/ Moved(t)

MallocSpec == MallocInit /\ [][MallocNext]_mallocVars
-----------------------------------------------------------------------------
Pending == {resizing[t].new : t \in {u \in Callers : resizing[u] # NIL}}
OnLists == UNION {Range(heap.free_list[d]) : d \in BlockSizes}

\* Every arena counts its free blocks, they are on the list of its descriptor
\* once, none of them is in use, and a page with no block in use has been given
\* back.
HeapConsistent ==
  /\ OnLists \cap (DOMAIN live \cup Pending) = {}
  /\ \A d \in BlockSizes : IsInjective(heap.free_list[d])
  /\ \A p \in PoolRange : heap.arena[p] # NIL =>
       LET d == heap.arena[p].desc
           blocks == Range(arena_blocks(p, d))
       IN  /\ p \in heap.used
           /\ d # 0 =>
                /\ heap.arena[p].free_cnt = Cardinality(blocks \cap Range(heap.free_list[d]))
                /\ blocks \ Range(heap.free_list[d]) = blocks \cap (DOMAIN live \cup Pending)
                /\ heap.arena[p].free_cnt < blocks_per_arena(d)
  /\ \A b \in OnLists : heap.arena[block_to_arena(b)] # NIL

\* The blocks that callers have.
Handed == [b \in DOMAIN live |-> [size |-> live[b], value |-> payload[b]]]

\* The heap gives what malloc.h promises, while realloc copies, blocks are freed
\* into the list that others take from, and pages come and go.
Promised == INSTANCE Heap WITH
  Addresses <- Bytes, Sizes <- MallocSizes \cup {p[1] * p[2] : p \in CallocPairs},
  Values <- Contents \cup {Garbage, Zeros}, Zero <- Zeros,
  blocks <- Handed
ImplementsHeap == Promised!Spec
=============================================================================
