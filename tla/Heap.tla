-------------------------------- MODULE Heap --------------------------------
(***************************************************************************)
(* What threads/malloc.h promises: blocks of at least the size asked for,  *)
(* apart from each other and from everything else, that keep what is       *)
(* written to them, also when they are resized.  Any call may fail.        *)
(***************************************************************************)
EXTENDS Integers, Functions

CONSTANTS Addresses, Sizes, Values, Zero

VARIABLE blocks   \* blocks[a] = [size, value], for the blocks in use

Apart(a, n, bs) ==
  \A b \in DOMAIN bs : a + n <= b \/ b + bs[b].size <= a

Obtains(a, n, v, bs) ==
  /\ a .. a + n - 1 \subseteq Addresses
  /\ Apart(a, n, blocks)
  /\ blocks' = [b \in DOMAIN bs \cup {a} |-> IF b = a THEN [size |-> n, value |-> v] ELSE bs[b]]

Obtain(a, n) == \E v \in Values : Obtains(a, n, v, blocks)
ObtainZeroed(a, n) == Obtains(a, n, Zero, blocks)

Release(b) ==
  b \in DOMAIN blocks /\ blocks' = Restrict(blocks, DOMAIN blocks \ {b})

Resize(b, a, n) ==
  b \in DOMAIN blocks /\ Obtains(a, n, blocks[b].value, Restrict(blocks, DOMAIN blocks \ {b}))

Store(b, v) ==
  b \in DOMAIN blocks /\ blocks' = [blocks EXCEPT ![b].value = v]

Init == blocks = [a \in {} |-> Zero]

Next ==
  \/ \E a \in Addresses \cap DOMAIN blocks', n \in Sizes :
       \/ Obtain(a, n) \/ ObtainZeroed(a, n)
       \/ \E b \in DOMAIN blocks : Resize(b, a, n)
  \/ \E b \in DOMAIN blocks : Release(b) \/ \E v \in Values : Store(b, v)

Spec == Init /\ [][Next]_blocks
=============================================================================
