------------------------------ MODULE FileStore ------------------------------
(***************************************************************************)
(* What the file system promises: a root directory of names, each standing *)
(* for a file; a file has a length that never changes and lives as long as *)
(* it has a name or somebody has it open.  A crash may happen at any time. *)
(***************************************************************************)
EXTENDS Integers, Sequences, Functions

CONSTANTS Names, Ids, Bytes, Lengths

VARIABLES
  root,     \* root[n]: the file that name n stands for
  content   \* content[f]: the bytes of file f

vars == <<root, content>>

Without(f, S) == Restrict(f, DOMAIN f \ S)
With(f, x, y) == [z \in DOMAIN f \cup {x} |-> IF z = x THEN y ELSE f[z]]

Named == Range(root)

Init == root = <<>> /\ content = <<>>

\* A new file is empty of data: all its bytes are zero.
Create ==
  \E n \in Names \ DOMAIN root, f \in Ids \ DOMAIN content, len \in Lengths :
    /\ root' = With(root, n, f)
    /\ content' = With(content, f, [i \in 1..len |-> 0])

\* A write sets some bytes in a row, of one file, and never changes its length.
Write ==
  \E f \in DOMAIN content, b \in Bytes : \E lo, hi \in DOMAIN content[f] :
    /\ content' = [content EXCEPT ![f] =
                     [i \in DOMAIN @ |-> IF i \in lo..hi THEN b ELSE @[i]]]
    /\ UNCHANGED root

\* A name is removed; its file may live on.
Remove ==
  \E n \in DOMAIN root :
    /\ root' = Without(root, {n})
    /\ content' \in {content, Without(content, {root[n]})}

\* Files without a name disappear, one when it is closed, all in a crash.
Forget ==
  \E S \in SUBSET (DOMAIN content \ Named) :
    /\ content' = Without(content, S)
    /\ UNCHANGED root

Next == Create \/ Write \/ Remove \/ Forget
Spec == Init /\ [][Next]_vars
=============================================================================
