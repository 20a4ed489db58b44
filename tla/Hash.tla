-------------------------------- MODULE Hash --------------------------------
(***************************************************************************)
(* The hash tables of Pintos (lib/kernel/hash.c): chained buckets whose    *)
(* number follows the number of elements, as far as memory lasts.  Every   *)
(* call is one step.  hash_bytes is left to the constant HashOf.           *)
(***************************************************************************)
EXTENDS Integers, Sequences, FiniteSets

CONSTANTS
  HashElems,              \* elements
  HKey(_),                \* what `less' compares
  HashOf(_),              \* what `hash' returns; equal elements have equal hashes
  MIN_BUCKETS,            \* 4 in the code
  BEST_ELEMS_PER_BUCKET,
  NOELEM

is_power_of_2(n) == \E k \in 0 .. n : n = 2 ^ k

ASSUME HashAssumption ==
  /\ \A x, y \in HashElems : HKey(x) = HKey(y) => HashOf(x) = HashOf(y)
  /\ \A x \in HashElems : HashOf(x) \in Nat
  /\ MIN_BUCKETS \in Nat \ {0} /\ is_power_of_2(MIN_BUCKETS)
  /\ BEST_ELEMS_PER_BUCKET \in Nat \ {0}
  /\ NOELEM \notin HashElems

VARIABLES
  buckets,    \* buckets[i + 1]: the elements in bucket i
  elem_cnt,
  cursor,     \* the iterator: its bucket and its place there, or <<>>
  visited,    \* what it has met
  returned    \* the call that has just returned: function, arguments, answer

hashVars == <<buckets, elem_cnt, cursor, visited, returned>>

Tables == Seq(Seq(HashElems))

\* turn[k][s] for k from 1 to n, beginning with s = x.
Fold(turn, x, n) ==
  LET at[k \in 0 .. n] == IF k = 0 THEN x ELSE turn[k][at[k - 1]]
  IN  at[n]

\* The mask `bucket_cnt - 1', of a power of 2.
find_bucket(b, e) == (HashOf(e) % Len(b)) + 1
find_elem(b, e) ==
  LET bucket == b[find_bucket(b, e)]
      equal == {i \in DOMAIN bucket : HKey(bucket[i]) = HKey(e)}
  IN  IF equal = {} THEN NOELEM ELSE bucket[CHOOSE i \in equal : \A j \in equal : i <= j]

insert_elem(b, e) == [b EXCEPT ![find_bucket(b, e)] = <<e>> \o @]

Without(s, e) ==
  LET i == CHOOSE i \in DOMAIN s : s[i] = e IN SubSeq(s, 1, i - 1) \o SubSeq(s, i + 1, Len(s))
remove_elem(b, e) == [b EXCEPT ![find_bucket(b, e)] = Without(@, e)]

\* The elements, bucket by bucket.
Elems(b) == Fold([i \in DOMAIN b |-> [s \in Seq(HashElems) |-> s \o b[i]]], <<>>, Len(b))
InTable(b) == UNION {{b[i][k] : k \in DOMAIN b[i]} : i \in DOMAIN b}
-----------------------------------------------------------------------------
\* What is left of n when its lowest bits are turned off until one is left.
power_of_2_below(n) ==
  CHOOSE p \in 1 .. n : is_power_of_2(p) /\ \A q \in p + 1 .. n : ~is_power_of_2(q)

bucket_cnt(cnt) ==
  LET ideal == cnt \div BEST_ELEMS_PER_BUCKET
  IN  power_of_2_below(IF ideal < MIN_BUCKETS THEN MIN_BUCKETS ELSE ideal)

\* Mutant: the buckets are copied as they are, as by realloc.
rehash_copied(b, cnt) ==
  {b, [i \in 1 .. bucket_cnt(cnt) |-> IF i \in DOMAIN b THEN b[i] ELSE <<>>]}

\* The elements move, in order, to the front of their new buckets; or malloc fails and they stay.
rehash(b, cnt) ==
  LET fresh == [i \in 1 .. bucket_cnt(cnt) |-> <<>>]
      es == Elems(b)
      moved == Fold([k \in DOMAIN es |-> [t \in Tables |-> insert_elem(t, es[k])]], fresh, Len(es))
  IN  IF bucket_cnt(cnt) = Len(b) THEN {b} ELSE {b, moved}

HashReturn(c) == returned = <<"none">> /\ returned' = c
Changed(b, cnt) ==
  buckets' \in rehash(b, cnt) /\ elem_cnt' = cnt /\ cursor' = <<>> /\ visited' = {}
Unchanged == UNCHANGED <<buckets, elem_cnt, cursor, visited>>
-----------------------------------------------------------------------------
HashInsert(e) ==
  LET old == find_elem(buckets, e)
  IN  /\ HashReturn(<<"hash_insert", e, old>>)
      /\ IF old = NOELEM THEN Changed(insert_elem(buckets, e), elem_cnt + 1) ELSE Changed(buckets, elem_cnt)

HashReplace(e) ==
  LET old == find_elem(buckets, e)
  IN  /\ HashReturn(<<"hash_replace", e, old>>)
      /\ IF old = NOELEM THEN Changed(insert_elem(buckets, e), elem_cnt + 1)
         ELSE Changed(insert_elem(remove_elem(buckets, old), e), elem_cnt)

HashDelete(e) ==
  LET old == find_elem(buckets, e)
  IN  /\ HashReturn(<<"hash_delete", e, old>>)
      /\ IF old = NOELEM THEN cursor' = <<>> /\ visited' = {} /\ UNCHANGED <<buckets, elem_cnt>>
         ELSE Changed(remove_elem(buckets, old), elem_cnt - 1)

HashFind(e) == HashReturn(<<"hash_find", e, find_elem(buckets, e)>>) /\ Unchanged

\* hash_size and hash_empty.
HashSize == HashReturn(<<"hash_size", elem_cnt>>) /\ Unchanged

\* With a destructor, which is called for every element; the buckets stay as many.
HashClear ==
  /\ HashReturn(<<"hash_clear", Elems(buckets)>>)
  /\ buckets' = [i \in DOMAIN buckets |-> <<>>]
  /\ elem_cnt' = 0 /\ cursor' = <<>> /\ visited' = {}

HashApply == HashReturn(<<"hash_apply", Elems(buckets)>>) /\ Unchanged

HashFirst ==
  /\ HashReturn(<<"hash_first">>)
  /\ cursor' = [bucket |-> 1, at |-> 0] /\ visited' = {}
  /\ UNCHANGED <<buckets, elem_cnt>>

\* The next element of the bucket, or the first one of the next bucket that has one.
HashNext ==
  LET here == cursor.at < Len(buckets[cursor.bucket])
      later == {i \in DOMAIN buckets : i > cursor.bucket /\ buckets[i] # <<>>}
      to == IF here THEN [cursor EXCEPT !.at = @ + 1]
            ELSE [bucket |-> CHOOSE i \in later : \A j \in later : i <= j, at |-> 1]
  IN  /\ cursor # <<>>
      /\ IF ~here /\ later = {}
         THEN HashReturn(<<"hash_next", NOELEM>>) /\ cursor' = <<>> /\ visited' = {}
         ELSE /\ HashReturn(<<"hash_next", buckets[to.bucket][to.at]>>)
              /\ cursor' = to /\ visited' = visited \union {buckets[to.bucket][to.at]}
      /\ UNCHANGED <<buckets, elem_cnt>>

\* The caller goes on; `returned' is forgotten.
HashGoOn == returned # <<"none">> /\ returned' = <<"none">> /\ Unchanged
-----------------------------------------------------------------------------
HashInit ==
  /\ buckets = [i \in 1 .. MIN_BUCKETS |-> <<>>]
  /\ elem_cnt = 0 /\ cursor = <<>> /\ visited = {} /\ returned = <<"none">>

HashStep ==
  \/ \E e \in HashElems : HashInsert(e) \/ HashReplace(e) \/ HashDelete(e) \/ HashFind(e)
  \/ HashSize \/ HashClear \/ HashApply \/ HashFirst \/ HashNext \/ HashGoOn

HashSpec == HashInit /\ [][HashStep]_hashVars
-----------------------------------------------------------------------------
\* A table is a set without equal elements, whatever is inserted, replaced and deleted and
\* however often it grows, shrinks or cannot get memory to; its count is that of the set; and
\* an iteration, the action of hash_apply and the destructor of hash_clear meet every element
\* once (hash.c, the comments of the functions; hash.h).
Table == INSTANCE HashSet WITH members <- InTable(buckets),
                               met <- IF cursor = <<>> THEN <<>> ELSE <<visited>>
ImplementsHashSet == Table!HashSetSpec
=============================================================================
