------------------------------ MODULE HashSet ------------------------------
(***************************************************************************)
(* What lib/kernel/hash.h promises: a set of elements of which no two are  *)
(* equal, and iterations that meet every one of them once.                 *)
(***************************************************************************)
EXTENDS FiniteSets, SequencesExt

CONSTANTS HashElems, HKey(_), NOELEM

VARIABLES
  members,    \* the elements in the table
  met,        \* those that the running iteration has met, or <<>> when none runs
  returned    \* the call that has just returned: function, arguments, answer

Equals(e) == {x \in members : HKey(x) = HKey(e)}
Answer(S) == IF S = {} THEN NOELEM ELSE CHOOSE x \in S : TRUE

\* A call that may change the table invalidates the iterators.
Modify(S) == members' = S /\ met' = <<>>
Keep == UNCHANGED <<members, met>>

HashSetInit == members = {} /\ met = <<>> /\ returned = <<"none">>

HashSetCall ==
  LET c == returned'
  IN  CASE c[1] = "hash_insert" ->
             /\ Modify(IF Equals(c[2]) = {} THEN members \union {c[2]} ELSE members)
             /\ c[3] = Answer(Equals(c[2]))
        [] c[1] = "hash_replace" ->
             Modify((members \ Equals(c[2])) \union {c[2]}) /\ c[3] = Answer(Equals(c[2]))
        [] c[1] = "hash_delete" -> Modify(members \ Equals(c[2])) /\ c[3] = Answer(Equals(c[2]))
        [] c[1] = "hash_find" -> Keep /\ c[3] = Answer(Equals(c[2]))
        [] c[1] = "hash_size" -> Keep /\ c[2] = Cardinality(members)
        \* the destructor, or the action, is called for every element, once
        [] c[1] = "hash_clear" -> Modify({}) /\ ToSet(c[2]) = members /\ IsInjective(c[2])
        [] c[1] = "hash_apply" -> Keep /\ ToSet(c[2]) = members /\ IsInjective(c[2])
        [] c[1] = "hash_first" -> members' = members /\ met' = <<{}>>
        [] c[1] = "hash_next" ->
             /\ met # <<>> /\ members' = members
             /\ IF met[1] = members THEN c[2] = NOELEM /\ met' = <<>>
                ELSE c[2] \in members \ met[1] /\ met' = <<met[1] \union {c[2]}>>
        [] c[1] = "none" -> Keep

HashSetSpec == HashSetInit /\ [][HashSetCall]_<<members, met, returned>>
=============================================================================
