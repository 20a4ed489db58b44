------------------------------- MODULE Deques -------------------------------
(***************************************************************************)
(* What lib/kernel/list.h promises: a list is a sequence of elements, and  *)
(* each function has the effect and the answer its comment states.         *)
(***************************************************************************)
LOCAL INSTANCE Integers
LOCAL INSTANCE Sequences
LOCAL INSTANCE SequencesExt

CONSTANTS ListElems, ListNames, Key(_)

VARIABLES
  lists,   \* the sequence in each list
  called   \* the call that has just returned: the function, its arguments, its answer

Tail_(l) == <<"tail", l>>
Less(a, b) == Key(a) < Key(b)
InLists == UNION {ToSet(lists[l]) : l \in ListNames}

\* A position in list l: the index of an element of it, or that of its tail.
Positions(l) == ToSet(lists[l]) \union {Tail_(l)}
At(s, l, pos) == IF pos = Tail_(l) THEN Len(s) + 1 ELSE IndexFirstSubSeq(<<pos>>, s)
Put(s, i, elems) == SubSeq(s, 1, i - 1) \o elems \o SubSeq(s, i, Len(s))
Becomes(l, s) == lists' = [lists EXCEPT ![l] = s]

Insert(l, pos, e) ==
  /\ pos \in Positions(l) /\ e \notin InLists
  /\ Becomes(l, Put(lists[l], At(lists[l], l, pos), <<e>>))

\* What followed the element is returned.
Delete(l, e, follower) ==
  /\ e \in ToSet(lists[l])
  /\ Becomes(l, SelectSeq(lists[l], LAMBDA x : x # e))
  /\ follower = IF e = Last(lists[l]) THEN Tail_(l) ELSE lists[l][At(lists[l], l, e) + 1]

PopFirst(l, e) == lists[l] # <<>> /\ e = Head(lists[l]) /\ Becomes(l, Tail(lists[l]))

PopLast(l, e) == lists[l] # <<>> /\ e = Last(lists[l]) /\ Becomes(l, Front(lists[l]))

\* The elements from first to just before last go, in their order, before pos.
Splice(to, pos, from, first, last) ==
  LET i == At(lists[from], from, first)   j == At(lists[from], from, last)
      moved == SubSeq(lists[from], i, j - 1)
      rest == [lists EXCEPT ![from] = SubSeq(@, 1, i - 1) \o SubSeq(@, j, Len(@))]
  IN  /\ pos \in Positions(to) /\ {first, last} \subseteq Positions(from)
      /\ i <= j /\ pos \notin ToSet(moved)
      /\ lists' = [rest EXCEPT ![to] = Put(@, At(@, to, pos), moved)]

Sorted(s) == \A i, j \in DOMAIN s : i < j => ~Less(s[j], s[i])
Equal(a, b) == ~Less(a, b) /\ ~Less(b, a)
Stable(s, t) == \A i, j \in DOMAIN s : i < j /\ Equal(s[i], s[j]) =>
                  IndexFirstSubSeq(<<s[i]>>, t) < IndexFirstSubSeq(<<s[j]>>, t)

\* Sorted, with the same elements, and equal elements keep their order.
SortList(l) ==
  LET t == lists'[l]
  IN  /\ Becomes(l, t)
      /\ ToSet(t) = ToSet(lists[l]) /\ Len(t) = Len(lists[l])
      /\ Sorted(t) /\ Stable(lists[l], t)

\* An element goes after every element that is not greater than it.
InsertOrdered(l, e) ==
  /\ Sorted(lists[l]) /\ e \notin InLists
  /\ Becomes(l, Put(lists[l], Len(SelectSeq(lists[l], LAMBDA x : ~Less(e, x))) + 1, <<e>>))

\* Of adjacent equal elements the first one stays; the others go to d, if it is a list.
Unique(l, d) ==
  LET s == lists[l]
      first(i) == IF i = 1 THEN TRUE ELSE ~Equal(s[i - 1], s[i])
      part(P(_)) == LET idx == SelectSeq([i \in DOMAIN s |-> i], P) IN [k \in DOMAIN idx |-> s[idx[k]]]
      repeats == part(LAMBDA i : ~first(i))
  IN  lists' = [k \in ListNames |-> CASE k = l -> part(first)
                                      [] k = d -> lists[d] \o repeats
                                      [] OTHER -> lists[k]]

\* The earliest of the extreme elements, the tail of an empty list.
Extreme(l, beats(_, _), e) ==
  LET s == lists[l]   i == At(s, l, e)
  IN  /\ UNCHANGED lists
      /\ e \in Positions(l) /\ (e = Tail_(l) => s = <<>>)
      /\ \A j \in DOMAIN s : ~beats(s[j], e) /\ (j < i => beats(e, s[j]))

DequesInit == lists = [l \in ListNames |-> <<>>] /\ called = <<"none">>

\* A call that returns; called' names the function, then its arguments, then its answer.
DequesCall ==
  LET c == called'
  IN  CASE c[1] = "list_insert" -> Insert(c[2], c[3], c[4])
        [] c[1] = "list_remove" -> Delete(c[2], c[3], c[4])
        [] c[1] = "list_pop_front" -> PopFirst(c[2], c[3])
        [] c[1] = "list_pop_back" -> PopLast(c[2], c[3])
        [] c[1] = "list_splice" -> Splice(c[2], c[3], c[4], c[5], c[6])
        [] c[1] = "list_reverse" -> Becomes(c[2], Reverse(lists[c[2]]))
        [] c[1] = "list_sort" -> SortList(c[2])
        [] c[1] = "list_insert_ordered" -> InsertOrdered(c[2], c[3])
        [] c[1] = "list_unique" -> Unique(c[2], c[3])
        [] c[1] = "list_max" -> Extreme(c[2], LAMBDA a, b : Less(b, a), c[3])
        [] c[1] = "list_min" -> Extreme(c[2], LAMBDA a, b : Less(a, b), c[3])
        [] c[1] = "list_size" -> c[3] = Len(lists[c[2]]) /\ UNCHANGED lists
        [] c[1] = "none" -> UNCHANGED lists

DequesSpec == DequesInit /\ [][DequesCall]_<<lists, called>>
=============================================================================
