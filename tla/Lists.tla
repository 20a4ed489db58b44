------------------------------- MODULE Lists -------------------------------
(***************************************************************************)
(* The doubly linked lists of Pintos (lib/kernel/list.c), pointer by       *)
(* pointer: a list has a head and a tail element, and the elements point   *)
(* to each other.  Every call is one step: its callers hold a lock or have *)
(* interrupts off.  The pointers that list_remove leaves in the removed    *)
(* element are cleared, since nobody may follow them.                      *)
(***************************************************************************)
EXTENDS Integers, Sequences, FiniteSets

CONSTANTS
  ListElems,    \* elements
  ListNames,    \* lists
  Key(_),       \* what `less' compares
  NULL

VARIABLES next, prev,   \* the two links of every element
          called        \* the call that has just returned: function, arguments, answer

listVars == <<next, prev, called>>

head(l) == <<"head", l>>
tail(l) == <<"tail", l>>
Nodes == ListElems \union {head(l) : l \in ListNames} \union {tail(l) : l \in ListNames}
less(a, b) == Key(a) < Key(b)

ASSUME ListsAssumption ==
  /\ IsFiniteSet(Nodes) /\ NULL \notin Nodes /\ NULL \notin ListNames
  /\ \A l \in ListNames : head(l) \notin ListElems /\ tail(l) \notin ListElems
  /\ \A e \in ListElems : Key(e) \in Int

\* The links as one value, so that functions may be applied one after another.
Links == [n |-> next, p |-> prev]
Pointers == Nodes \union {NULL}
LinkMaps == [n : [Nodes -> Pointers], p : [Nodes -> Pointers]]

\* A loop is at x first, then at turn[x] and so on; where it ends it stays.  Bound: no loop
\* takes more turns than there are nodes.
Loop(turn, x) ==
  LET at[k \in 0 .. Cardinality(Nodes)] == IF k = 0 THEN x ELSE turn[at[k - 1]]
  IN  at[Cardinality(Nodes)]
ListReturn(m, c) == called' = c /\ next' = m.n /\ prev' = m.p

is_interior(m, e) == m.p[e] # NULL /\ m.n[e] # NULL
is_tail(m, e) == m.p[e] # NULL /\ m.n[e] = NULL
list_begin(m, l) == m.n[head(l)]
list_empty(m, l) == list_begin(m, l) = tail(l)
-----------------------------------------------------------------------------
list_insert(m, before, elem) ==
  LET prior == m.p[before]
  IN  [n |-> [m.n EXCEPT ![elem] = before, ![prior] = elem],
       p |-> [m.p EXCEPT ![elem] = prior, ![before] = elem]]

\* `last' is exclusive: the elements from first to l move.
list_splice(m, before, first, last) ==
  IF first = last THEN m
  ELSE LET l == m.p[last]
           cut == [n |-> [m.n EXCEPT ![m.p[first]] = m.n[l]],
                   p |-> [m.p EXCEPT ![m.n[l]] = m.p[first]]]
           prior == cut.p[before]
       IN  [n |-> [cut.n EXCEPT ![l] = before, ![prior] = first],
            p |-> [cut.p EXCEPT ![first] = prior, ![before] = l]]

\* Mutant: the successor is not told.
list_remove_half(m, e) == [m EXCEPT !.n[m.p[e]] = m.n[e]]

\* The removed element keeps its links: list_remove reads one of them afterwards, and so does
\* unblock_sleeping_threads (devices/timer.c).
list_remove(m, e) ==
  [n |-> [m.n EXCEPT ![m.p[e]] = m.n[e]], p |-> [m.p EXCEPT ![m.n[e]] = m.p[e]]]

\* The loop swaps the links of every element; then the ends change places.
list_reverse(m, l) ==
  LET swap == [s \in [m : LinkMaps, e : Pointers] |->
                 IF s.e = tail(l) THEN s
                 ELSE [m |-> [n |-> [s.m.n EXCEPT ![s.e] = s.m.p[s.e]],
                              p |-> [s.m.p EXCEPT ![s.e] = s.m.n[s.e]]],
                       e |-> s.m.n[s.e]]]
      k == Loop(swap, [m |-> m, e |-> list_begin(m, l)]).m
      front == k.p[tail(l)]   back == k.n[head(l)]
  IN  IF list_empty(m, l) THEN m
      ELSE [n |-> [k.n EXCEPT ![head(l)] = front, ![back] = k.p[front]],
            p |-> [k.p EXCEPT ![tail(l)] = back, ![front] = k.n[back]]]
-----------------------------------------------------------------------------
find_end_of_run(m, a, b) ==
  Loop([e \in Pointers |-> IF e # b /\ ~less(e, m.p[e]) THEN m.n[e] ELSE e], m.n[a])

MergeStates == [m : LinkMaps, a0 : Pointers, a1b0 : Pointers]

\* Mutant: an equal element of the second run goes first.
inplace_merge_eager(m, a0, a1b0, b1) ==
  Loop([s \in MergeStates |->
          IF s.a0 = s.a1b0 \/ s.a1b0 = b1 THEN s
          ELSE IF less(s.a0, s.a1b0) THEN [s EXCEPT !.a0 = s.m.n[s.a0]]
          ELSE [m |-> list_splice(s.m, s.a0, s.a1b0, s.m.n[s.a1b0]), a0 |-> s.a0, a1b0 |-> s.m.n[s.a1b0]]],
       [m |-> m, a0 |-> a0, a1b0 |-> a1b0]).m

inplace_merge(m, a0, a1b0, b1) ==
  Loop([s \in MergeStates |->
          IF s.a0 = s.a1b0 \/ s.a1b0 = b1 THEN s
          ELSE IF ~less(s.a1b0, s.a0) THEN [s EXCEPT !.a0 = s.m.n[s.a0]]
          ELSE [m |-> list_splice(s.m, s.a0, s.a1b0, s.m.n[s.a1b0]), a0 |-> s.a0, a1b0 |-> s.m.n[s.a1b0]]],
       [m |-> m, a0 |-> a0, a1b0 |-> a1b0]).m

\* One pass over list l: pairs of runs are merged; the runs are counted.
pass(m, l) ==
  Loop([s \in [m : LinkMaps, a0 : Pointers, runs : Nat] |->
          LET a1b0 == find_end_of_run(s.m, s.a0, tail(l))
              b1 == find_end_of_run(s.m, a1b0, tail(l))
          IN  IF s.a0 = tail(l) THEN s
              ELSE IF a1b0 = tail(l) THEN [m |-> s.m, a0 |-> tail(l), runs |-> s.runs + 1]
              ELSE [m |-> inplace_merge(s.m, s.a0, a1b0, b1), a0 |-> b1, runs |-> s.runs + 1]],
       [m |-> m, a0 |-> list_begin(m, l), runs |-> 0])

list_sort(m, l) ==
  Loop([s \in [m : LinkMaps, a0 : Pointers, runs : Nat] |-> IF s.runs > 1 THEN pass(s.m, l) ELSE s],
       pass(m, l)).m

ordered_before(m, l, e) ==
  Loop([x \in Pointers |-> IF x = tail(l) \/ less(e, x) THEN x ELSE m.n[x]], list_begin(m, l))

is_sorted(m, a, b) == IF a = b THEN TRUE ELSE find_end_of_run(m, a, b) = b

unique(m, l, d) ==
  Loop([s \in [m : LinkMaps, elem : Pointers] |->
          LET x == s.m.n[s.elem]   without == list_remove(s.m, x)
          IN  IF x = tail(l) THEN s
              ELSE IF less(s.elem, x) \/ less(x, s.elem) THEN [s EXCEPT !.elem = x]
              ELSE [s EXCEPT !.m = IF d \in ListNames THEN list_insert(without, tail(d), x) ELSE without]],
       [m |-> m, elem |-> list_begin(m, l)]).m

\* `beats' is whether the next element replaces the best so far.
extreme(m, l, max) ==
  LET beats(e, best) == IF max THEN less(best, e) ELSE less(e, best)
      first == list_begin(m, l)
  IN  IF list_empty(m, l) THEN tail(l)
      ELSE Loop([s \in [best : Pointers, e : Pointers] |->
                   IF s.e = tail(l) THEN s
                   ELSE [best |-> IF beats(s.e, s.best) THEN s.e ELSE s.best, e |-> m.n[s.e]]],
                [best |-> first, e |-> m.n[first]]).best

list_size(m, l) ==
  Loop([s \in [cnt : Nat, e : Pointers] |->
          IF s.e = tail(l) THEN s ELSE [cnt |-> s.cnt + 1, e |-> m.n[s.e]]],
       [cnt |-> 0, e |-> list_begin(m, l)]).cnt
-----------------------------------------------------------------------------
\* What is behind x on its list.
nodes_after(m, x) ==
  Loop([s \in [e : Pointers, met : SUBSET Nodes] |->
          IF m.n[s.e] = NULL THEN s ELSE [e |-> m.n[s.e], met |-> s.met \union {m.n[s.e]}]],
       [e |-> x, met |-> {}]).met
OnList(l) == nodes_after(Links, head(l))
Loose(e) == \A l \in ListNames : e \notin OnList(l)

\* list_insert, list_push_front and list_push_back.
ListInsert(l, before, e) ==
  /\ before \in OnList(l) /\ Loose(e)
  /\ ListReturn(list_insert(Links, before, e), <<"list_insert", l, before, e>>)

ListRemove(l, e) ==
  /\ e \in OnList(l) \ {tail(l)}
  /\ ListReturn(list_remove(Links, e), <<"list_remove", l, e, next[e]>>)

PopFront(l) ==
  LET front == next[head(l)]
  IN  ~list_empty(Links, l) /\ ListReturn(list_remove(Links, front), <<"list_pop_front", l, front>>)

PopBack(l) ==
  LET back == prev[tail(l)]
  IN  ~list_empty(Links, l) /\ ListReturn(list_remove(Links, back), <<"list_pop_back", l, back>>)

\* `before' is not among the elements that move.
ListSplice(l, before, from, first, last) ==
  LET after(x) == {x} \union nodes_after(Links, x)
  IN  /\ before \in OnList(l) /\ first \in OnList(from) /\ last \in after(first)
      /\ before \in after(first) => before \in after(last)
      /\ ListReturn(list_splice(Links, before, first, last), <<"list_splice", l, before, from, first, last>>)

ListReverse(l) == ListReturn(list_reverse(Links, l), <<"list_reverse", l>>)

ListSort(l) == ListReturn(list_sort(Links, l), <<"list_sort", l>>)

ListInsertOrdered(l, e) ==
  /\ is_sorted(Links, list_begin(Links, l), tail(l)) /\ Loose(e)
  /\ ListReturn(list_insert(Links, ordered_before(Links, l, e), e),
            <<"list_insert_ordered", l, e>>)

\* The duplicates go to list d, or to none when d is NULL.
ListUnique(l, d) ==
  /\ d # l
  /\ ListReturn(IF list_empty(Links, l) THEN Links ELSE unique(Links, l, d),
            <<"list_unique", l, d>>)

ListMax(l) == ListReturn(Links, <<"list_max", l, extreme(Links, l, TRUE)>>)

ListMin(l) == ListReturn(Links, <<"list_min", l, extreme(Links, l, FALSE)>>)

ListSize(l) == ListReturn(Links, <<"list_size", l, list_size(Links, l)>>)

\* The caller goes on; `called' is forgotten, so that every call is made from every list once.
GoOn == called # <<"none">> /\ called' = <<"none">> /\ UNCHANGED <<next, prev>>
-----------------------------------------------------------------------------
ListsInit ==
  /\ next = [x \in Nodes |-> IF \E l \in ListNames : x = head(l) THEN tail(x[2]) ELSE NULL]
  /\ prev = [x \in Nodes |-> IF \E l \in ListNames : x = tail(l) THEN head(x[2]) ELSE NULL]
  /\ called = <<"none">>

ListsNext ==
  \/ GoOn
  \/ /\ called = <<"none">>
     /\ \E l \in ListNames :
          \/ \E before \in OnList(l), e \in ListElems : ListInsert(l, before, e)
          \/ \E e \in ListElems : ListRemove(l, e) \/ ListInsertOrdered(l, e)
          \/ \E from \in ListNames : \E before \in OnList(l), first, last \in OnList(from) :
               ListSplice(l, before, from, first, last)
          \/ \E d \in ListNames \union {NULL} : ListUnique(l, d)
          \/ PopFront(l) \/ PopBack(l) \/ ListReverse(l) \/ ListSort(l)
          \/ ListMax(l) \/ ListMin(l) \/ ListSize(l)

ListsSpec == ListsInit /\ [][ListsNext]_listVars
-----------------------------------------------------------------------------
\* The elements that a walk along one of the links meets from x on.
walk(link, x) ==
  Loop([s \in [e : Pointers, met : Seq(Nodes)] |->
          LET y == link[s.e]
          IN  IF y = NULL \/ link[y] = NULL THEN s ELSE [e |-> y, met |-> Append(s.met, y)]],
       [e |-> x, met |-> <<>>]).met

forward == [l \in ListNames |-> walk(next, head(l))]
backward == [l \in ListNames |-> walk(prev, tail(l))]

\* A list read backwards is the list read forwards in reverse, whatever calls were made on
\* it: no function leaves one of the two links of an element, of a neighbour or of a header
\* behind (list.c, the diagrams at the top).
LinksWhole ==
  \A l \in ListNames :
    LET n == Len(forward[l])
    IN  Len(backward[l]) = n /\ \A i \in 1 .. n : backward[l][i] = forward[l][n + 1 - i]

\* Every function of list.c does to the sequence of elements what its comment says, and
\* returns what it says: the sort is stable, unique keeps the first of equals, max and min
\* find the earliest, splice moves a range.
Deque == INSTANCE Deques WITH lists <- forward
ImplementsDeques == Deque!DequesSpec
=============================================================================
