-------------------------- MODULE ContainerProofs --------------------------
(***************************************************************************)
(* Whatever calls are made on the lists and the hash tables of Pintos, and *)
(* in whatever order: the two links of every element of a list agree, and  *)
(* a hash table is the set that hash.h promises.  An archive holds the     *)
(* files that were appended to it.                                         *)
(***************************************************************************)
EXTENDS Lists, Hash, Archive, SequencesExt, FiniteSetTheorems, SequenceTheorems, WellFoundedInduction, TLAPS

(***************************************************************************)
(* The chains: every node on a list has an owner, the list, and a rank     *)
(* that grows along `next'; following a link back leads to where it came   *)
(* from.  A node without an owner may have any links: those of an element  *)
(* that was removed lead to where it was.                                  *)
(***************************************************************************)
Owners == ListNames \cup {NULL}

\* What the links of a node that is on a list say, given the owners and the ranks.
LinksAt(m, own, pos, x) ==
  own[x] # NULL =>
    /\ (m.n[x] = NULL <=> x = tail(own[x])) /\ (m.p[x] = NULL <=> x = head(own[x]))
    /\ m.n[x] # NULL => m.p[m.n[x]] = x /\ own[m.n[x]] = own[x] /\ pos[x] < pos[m.n[x]]
    /\ m.p[x] # NULL => m.n[m.p[x]] = x /\ own[m.p[x]] = own[x]

Chained(m, own, pos) ==
  /\ m \in LinkMaps /\ own \in [Nodes -> Owners] /\ pos \in [Nodes -> Nat]
  /\ \A l \in ListNames : own[head(l)] = l /\ own[tail(l)] = l
  /\ \A x \in Nodes : LinksAt(m, own, pos, x)

ChainsInv ==
  /\ next \in [Nodes -> Pointers] /\ prev \in [Nodes -> Pointers]
  /\ \E own, pos : Chained(Links, own, pos)

\* Ranks are compared on one list.
Together(own, x, y) == own[x] # NULL /\ own[x] = own[y]
-----------------------------------------------------------------------------
LEMMA LeastNumber ==
  ASSUME NEW S \in SUBSET Nat, S # {}
  PROVE  \E n \in S : \A k \in S : n <= k
<1> DEFINE R == OpToRel(<, Nat)
<1>1. IsWellFoundedOn(R, Nat)
  BY NatLessThanWellFounded
<1>2. \A k, m \in Nat : <<k, m>> \in R <=> k < m
  BY DEF OpToRel
<1> HIDE DEF R
<1>3. PICK m \in S : \A k \in S : ~(<<k, m>> \in R)
  BY <1>1, WFMin
<1>4. \A k \in S : ~(k < m) /\ k \in Nat /\ m \in Nat
  BY <1>2, <1>3
<1>5. \A k \in S : m <= k
  BY <1>4
<1> QED
  BY <1>5

LEMMA Ends ==
  /\ \A l \in ListNames : head(l) \in Nodes /\ tail(l) \in Nodes /\ l # NULL /\ head(l) # NULL /\ tail(l) # NULL
  /\ \A e \in ListElems : e \in Nodes /\ \A l \in ListNames : e # head(l) /\ e # tail(l)
  /\ \A k, l : (head(k) = head(l) => k = l) /\ (tail(k) = tail(l) => k = l) /\ head(k) # tail(l)
  /\ NULL \notin Nodes /\ Nodes \subseteq Pointers
  /\ IsFiniteSet(Nodes) /\ Cardinality(Nodes) \in Nat
<1>1. IsFiniteSet(Nodes) /\ Cardinality(Nodes) \in Nat
  BY ListsAssumption, FS_CardinalityType
<1>2. \A k, l : (head(k) = head(l) => k = l) /\ (tail(k) = tail(l) => k = l) /\ head(k) # tail(l)
  BY DEF head, tail
<1> QED
  BY ListsAssumption, <1>1, <1>2 DEF Nodes, Pointers

(***************************************************************************)
(* Loops.                                                                  *)
(***************************************************************************)
\* f is the function of the first n turns.
Turns(f, turn, x, n) == f = [k \in 0 .. n |-> IF k = 0 THEN x ELSE turn[f[k - 1]]]

\* The function that is defined recursively exists.
LEMMA LoopExists ==
  ASSUME NEW turn, NEW x, NEW n \in Nat
  PROVE  \E f : Turns(f, turn, x, n)
<1> DEFINE Turn(f, k) == IF k = 0 THEN x ELSE turn[f[k - 1]]
           Can(m) == \E f : f = [k \in 0 .. m |-> Turn(f, k)]
           Bad == {m \in Nat : ~Can(m)}
<1>1. ASSUME Bad # {} PROVE FALSE
  <2>1. PICK m \in Bad : \A k \in Bad : m <= k
    <3>1. Bad \in SUBSET Nat
      OBVIOUS
    <3> HIDE DEF Bad
    <3> QED
      BY <1>1, <3>1, LeastNumber
  <2>2. m \in Nat /\ ~Can(m) /\ \A k \in Nat : k < m => Can(k)
    <3> HIDE DEF Can
    <3> QED
      BY <2>1
  <2>3. CASE m = 0
    <3>1. [k \in 0 .. 0 |-> x] = [k \in 0 .. 0 |-> Turn([j \in 0 .. 0 |-> x], k)]
      OBVIOUS
    <3> QED
      BY <2>2, <2>3, <3>1
  <2>4. CASE m # 0
    <3>1. Can(m - 1)
      <4> HIDE DEF Can
      <4> QED
        BY <2>2, <2>4
    <3>2. PICK g : g = [k \in 0 .. m - 1 |-> Turn(g, k)]
      BY <3>1
    <3> DEFINE f == [k \in 0 .. m |-> IF k = m THEN Turn(g, m) ELSE g[k]]
    <3>3. ASSUME NEW k \in 0 .. m PROVE f[k] = Turn(f, k)
      <4>1. k # 0 => k - 1 \in 0 .. m - 1 /\ k - 1 \in 0 .. m /\ k - 1 # m
        BY <2>2
      <4>2. Turn(f, k) = Turn(g, k)
        BY <4>1
      <4>3. k # m => k \in 0 .. m - 1
        BY <2>2
      <4>4. k # m => g[k] = Turn(g, k)
        BY <3>2, <4>3
      <4> HIDE DEF Turn
      <4> QED
        BY <4>2, <4>4
    <3>4. f = [k \in 0 .. m |-> Turn(f, k)]
      BY <3>3
    <3> HIDE DEF f, Turn
    <3> QED
      BY <2>2, <3>4
  <2> QED
    BY <2>3, <2>4
<1> QED
  BY <1>1 DEF Turns

\* The turns of a loop.
LEMMA LoopTurns ==
  ASSUME NEW turn, NEW x
  PROVE  \E at : /\ at[0] = x /\ Loop(turn, x) = at[Cardinality(Nodes)]
                 /\ \A k \in 1 .. Cardinality(Nodes) : at[k] = turn[at[k - 1]]
<1> DEFINE n == Cardinality(Nodes)
           at == CHOOSE f : Turns(f, turn, x, n)
<1>1. n \in Nat
  BY Ends
<1>2. \E f : Turns(f, turn, x, n)
  BY <1>1, LoopExists
<1>3. Turns(at, turn, x, n)
  BY <1>2
<1>4. Loop(turn, x) = at[n]
  BY DEF Loop, Turns
<1> HIDE DEF at
<1>5. at[0] = x /\ \A k \in 1 .. n : at[k] = turn[at[k - 1]]
  BY <1>1, <1>3 DEF Turns
<1> QED
  BY <1>4, <1>5

\* What every turn keeps is kept by the loop.
LEMMA LoopKeeps ==
  ASSUME NEW turn, NEW x, NEW I, x \in I, \A s \in I : turn[s] \in I
  PROVE  Loop(turn, x) \in I
<1> DEFINE n == Cardinality(Nodes)
<1>1. n \in Nat
  BY Ends
<1>2. PICK at : at[0] = x /\ Loop(turn, x) = at[n] /\ \A k \in 1 .. n : at[k] = turn[at[k - 1]]
  BY LoopTurns
<1> HIDE DEF n
<1> DEFINE Out == {k \in 0 .. n : at[k] \notin I}
<1>3. ASSUME Out # {} PROVE FALSE
  <2>1. Out \in SUBSET Nat
    OBVIOUS
  <2>2. PICK k \in Out : \A j \in Out : k <= j
    <3> HIDE DEF Out
    <3> QED
      BY <1>3, <2>1, LeastNumber
  <2>3. k # 0 /\ k - 1 \in 0 .. n /\ k - 1 \notin Out /\ k \in 1 .. n
    BY <1>1, <1>2, <2>2
  <2> QED
    BY <1>2, <2>2, <2>3
<1> QED
  BY <1>1, <1>2, <1>3

\* A loop that comes closer to its end with every turn gets there.
LEMMA LoopEnds ==
  ASSUME NEW turn, NEW x, NEW I, x \in I, \A s \in I : turn[s] \in I,
         NEW left, \A s \in I : left[s] \in Nat /\ left[s] <= Cardinality(Nodes),
         \A s \in I : turn[s] = s \/ left[turn[s]] < left[s]
  PROVE  /\ Loop(turn, x) \in I
         /\ turn[Loop(turn, x)] = Loop(turn, x)
<1> DEFINE n == Cardinality(Nodes)
<1>1. n \in Nat
  BY Ends
<1>2. PICK at : at[0] = x /\ Loop(turn, x) = at[n] /\ \A k \in 1 .. n : at[k] = turn[at[k - 1]]
  BY LoopTurns
<1>3. \A s \in I : left[s] <= n
  OBVIOUS
<1> HIDE DEF n
<1> DEFINE Good(k) == at[k] \in I /\ (turn[at[k]] = at[k] \/ left[at[k]] + k <= n)
           Out == {k \in 0 .. n : ~Good(k)}
<1>4. ASSUME Out # {} PROVE FALSE
  <2>1. Out \in SUBSET Nat
    OBVIOUS
  <2>2. PICK k \in Out : \A j \in Out : k <= j
    <3> HIDE DEF Out
    <3> QED
      BY <1>4, <2>1, LeastNumber
  <2>3. Good(0)
    BY <1>1, <1>2, <1>3
  <2>4. k # 0 /\ k - 1 \in 0 .. n /\ Good(k - 1) /\ k \in 1 .. n /\ k \in Nat
    <3> HIDE DEF Good
    <3> QED
      BY <1>1, <2>2, <2>3
  <2>5. at[k] = turn[at[k - 1]] /\ at[k - 1] \in I /\ at[k] \in I
    BY <1>2, <2>4
  <2>6. turn[at[k - 1]] = at[k - 1] => Good(k)
    BY <2>5
  <2>7. left[at[k - 1]] + (k - 1) <= n => Good(k)
    <3> HAVE left[at[k - 1]] + (k - 1) <= n
    <3>1. left[at[k]] \in Nat /\ left[at[k - 1]] \in Nat
      BY <2>5
    <3>2. left[at[k]] < left[at[k - 1]] \/ turn[at[k - 1]] = at[k - 1]
      BY <2>5
    <3>3. left[at[k]] < left[at[k - 1]] => left[at[k]] + k <= n
      BY <1>1, <2>4, <3>1
    <3> QED
      BY <2>5, <2>6, <3>2, <3>3
  <2> QED
    BY <2>2, <2>4, <2>6, <2>7
<1>5. Good(n)
  BY <1>1, <1>4
<1>6. turn[at[n]] = at[n] \/ left[turn[at[n]]] < left[at[n]]
  BY <1>5
<1>7. left[at[n]] <= 0 => turn[at[n]] = at[n]
  <2>1. left[at[n]] \in Nat /\ left[turn[at[n]]] \in Nat
    BY <1>5
  <2> QED
    BY <1>6, <2>1
<1>8. left[at[n]] + n <= n => left[at[n]] <= 0
  BY <1>1, <1>5
<1> QED
  BY <1>2, <1>5, <1>7, <1>8

(***************************************************************************)
(* The order of a chain.                                                   *)
(***************************************************************************)
LEMMA LinkFacts ==
  ASSUME NEW m, NEW own, NEW pos, Chained(m, own, pos), NEW x \in Nodes
  PROVE  /\ pos[x] \in Nat /\ own[x] \in Owners /\ m.n[x] \in Pointers /\ m.p[x] \in Pointers
         /\ own[x] # NULL => /\ own[x] \in ListNames
                             /\ (m.n[x] = NULL <=> x = tail(own[x])) /\ (m.p[x] = NULL <=> x = head(own[x]))
         /\ own[x] # NULL /\ m.n[x] # NULL =>
              /\ m.n[x] \in Nodes /\ m.p[m.n[x]] = x /\ own[m.n[x]] # NULL
              /\ own[m.n[x]] = own[x] /\ pos[x] < pos[m.n[x]]
         /\ own[x] # NULL /\ m.p[x] # NULL =>
              /\ m.p[x] \in Nodes /\ m.n[m.p[x]] = x /\ own[m.p[x]] # NULL
              /\ own[m.p[x]] = own[x] /\ pos[m.p[x]] < pos[x]
<1>1. /\ m.n \in [Nodes -> Pointers] /\ m.p \in [Nodes -> Pointers]
      /\ own \in [Nodes -> Owners] /\ pos \in [Nodes -> Nat]
      /\ \A y \in Nodes : LinksAt(m, own, pos, y)
  BY DEF Chained, LinkMaps
<1>2. /\ pos[x] \in Nat /\ own[x] \in Owners /\ m.n[x] \in Pointers /\ m.p[x] \in Pointers
  BY <1>1
<1>3. LinksAt(m, own, pos, x)
  BY <1>1
<1>4. ASSUME own[x] # NULL, m.n[x] # NULL
      PROVE  /\ m.n[x] \in Nodes /\ m.p[m.n[x]] = x /\ own[m.n[x]] # NULL
             /\ own[m.n[x]] = own[x] /\ pos[x] < pos[m.n[x]]
  BY <1>2, <1>3, <1>4 DEF LinksAt, Pointers
<1>5. ASSUME own[x] # NULL, m.p[x] # NULL
      PROVE  /\ m.p[x] \in Nodes /\ m.n[m.p[x]] = x /\ own[m.p[x]] # NULL
             /\ own[m.p[x]] = own[x] /\ pos[m.p[x]] < pos[x]
  <2>1. m.p[x] \in Nodes /\ m.n[m.p[x]] = x /\ own[m.p[x]] = own[x]
    BY <1>2, <1>3, <1>5 DEF LinksAt, Pointers
  <2>2. LinksAt(m, own, pos, m.p[x]) /\ m.n[m.p[x]] # NULL
    BY <1>1, <2>1, Ends
  <2> QED
    BY <1>5, <2>1, <2>2 DEF LinksAt
<1> QED
  BY <1>2, <1>3, <1>4, <1>5 DEF LinksAt, Owners

\* The header has the least rank on its list.
LEMMA HeadFirst ==
  ASSUME NEW m, NEW own, NEW pos, Chained(m, own, pos), NEW x \in Nodes, own[x] # NULL, x # head(own[x])
  PROVE  pos[head(own[x])] < pos[x]
<1> DEFINE h == head(own[x])
           Low == {y \in Nodes : own[y] = own[x] /\ y # h /\ pos[y] <= pos[h]}
           Ranks == {pos[y] : y \in Low}
<1>1. h \in Nodes /\ own[x] \in ListNames /\ pos[h] \in Nat /\ pos[x] \in Nat
  BY Ends, LinkFacts
<1>2. ASSUME Low # {} PROVE FALSE
  <2>1. Ranks # {} /\ Ranks \in SUBSET Nat
    BY <1>2, LinkFacts
  <2>2. PICK y \in Low : \A z \in Low : pos[y] <= pos[z]
    <3>1. PICK r \in Ranks : \A q \in Ranks : r <= q
      <4> HIDE DEF Ranks
      <4> QED
        BY <2>1, LeastNumber
    <3> QED
      BY <3>1
  <2>3. /\ y \in Nodes /\ own[y] = own[x] /\ y # h /\ pos[y] <= pos[h] /\ pos[y] \in Nat
        /\ m.p[y] # NULL /\ m.p[y] \in Nodes /\ own[m.p[y]] = own[x] /\ pos[m.p[y]] < pos[y] /\ pos[m.p[y]] \in Nat
    <3>1. y \in Nodes /\ own[y] = own[x] /\ y # h /\ pos[y] <= pos[h]
      BY <2>2
    <3>2. m.p[y] # NULL
      BY <3>1, LinkFacts
    <3>3. m.p[y] \in Nodes /\ own[m.p[y]] = own[x] /\ pos[m.p[y]] < pos[y] /\ pos[y] \in Nat
      BY <3>1, <3>2, LinkFacts
    <3> QED
      BY <3>1, <3>2, <3>3, LinkFacts
  <2>4. m.p[y] \in Low
    BY <1>1, <2>3
  <2> QED
    BY <2>2, <2>3, <2>4
<1> QED
  BY <1>1, <1>2

\* On one list different nodes have different ranks, and nothing lies between a node and the next.
LEMMA NoGap ==
  ASSUME NEW m, NEW own, NEW pos, Chained(m, own, pos), NEW x \in Nodes, NEW y \in Nodes, Together(own, x, y)
  PROVE  /\ pos[x] = pos[y] => x = y
         /\ pos[x] < pos[y] => m.n[x] # NULL /\ pos[m.n[x]] <= pos[y]
<1> DEFINE Bad(a, b) == Together(own, a, b) /\ pos[a] <= pos[b] /\ a # b /\ (m.n[a] = NULL \/ pos[m.n[a]] > pos[b])
           Sums == {pos[w[1]] + pos[w[2]] : w \in {v \in Nodes \X Nodes : Bad(v[1], v[2])}}
<1>1. \A z \in Nodes : pos[z] \in Nat
  BY LinkFacts
<1>2. ASSUME NEW a \in Nodes, NEW b \in Nodes, Bad(a, b) PROVE FALSE
  <2>1. pos[a] + pos[b] \in Sums /\ Sums \in SUBSET Nat
    <3>1. <<a, b>> \in {v \in Nodes \X Nodes : Bad(v[1], v[2])}
      BY <1>2
    <3> HIDE DEF Bad
    <3> QED
      BY <1>1, <3>1
  <2>2. PICK least \in Sums : \A k \in Sums : least <= k
    <3> HIDE DEF Sums
    <3> QED
      BY <2>1, LeastNumber
  <2>3. PICK c \in Nodes, d \in Nodes : Bad(c, d) /\ \A e, f \in Nodes : Bad(e, f) => pos[c] + pos[d] <= pos[e] + pos[f]
    <3>1. PICK w \in Nodes \X Nodes : Bad(w[1], w[2]) /\ least = pos[w[1]] + pos[w[2]]
      BY <2>2
    <3>2. ASSUME NEW e \in Nodes, NEW f \in Nodes, Bad(e, f) PROVE least <= pos[e] + pos[f]
      <4>1. <<e, f>> \in {v \in Nodes \X Nodes : Bad(v[1], v[2])}
        BY <3>2
      <4> HIDE DEF Bad
      <4> QED
        BY <2>2, <4>1
    <3> HIDE DEF Bad, Sums
    <3> QED
      BY <3>1, <3>2
  <2> DEFINE k == own[c]
  <2>4. /\ own[c] # NULL /\ own[d] = own[c] /\ pos[c] <= pos[d] /\ c # d /\ pos[c] \in Nat /\ pos[d] \in Nat
        /\ m.n[c] # NULL => pos[m.n[c]] > pos[d]
    BY <1>1, <2>3 DEF Together
  <2>5. d # head(own[d])
    BY <2>4, HeadFirst
  <2>6. /\ m.p[d] \in Nodes /\ m.n[m.p[d]] = d /\ own[m.p[d]] = own[d] /\ pos[m.p[d]] < pos[d] /\ pos[m.p[d]] \in Nat
    <3>1. m.p[d] # NULL
      BY <2>4, <2>5, LinkFacts
    <3> QED
      BY <1>1, <2>4, <3>1, LinkFacts
  <2>7. ~Bad(c, m.p[d]) /\ ~Bad(m.p[d], c)
    <3>1. pos[c] + pos[m.p[d]] < pos[c] + pos[d] /\ pos[m.p[d]] + pos[c] < pos[c] + pos[d]
      BY <2>4, <2>6
    <3> HIDE DEF Bad
    <3> QED
      BY <1>1, <2>3, <2>4, <2>6, <3>1
  <2>8. pos[m.p[d]] < pos[c] /\ pos[c] = pos[d]
    <3>1. c = m.p[d] => FALSE
      <4> HAVE c = m.p[d]
      <4>1. m.n[c] = d /\ d # NULL
        BY <2>6, Ends
      <4> QED
        BY <2>4, <4>1
    <3>2. ASSUME pos[c] <= pos[m.p[d]] PROVE FALSE
      <4>1. m.n[c] # NULL /\ ~(pos[m.n[c]] > pos[m.p[d]])
        BY <2>4, <2>6, <2>7, <3>1, <3>2 DEF Together
      <4>2. pos[m.n[c]] \in Nat
        BY <1>1, <2>4, <4>1, LinkFacts
      <4> QED
        BY <2>4, <2>6, <4>1, <4>2
    <3>3. pos[m.p[d]] < pos[c]
      BY <2>4, <2>6, <3>2
    <3>4. ~(pos[d] > pos[c])
      BY <2>4, <2>6, <2>7, <3>1, <3>3 DEF Together
    <3> QED
      BY <2>4, <3>3, <3>4
  <2>9. c # head(own[c])
    BY <2>4, <2>8, <2>5, HeadFirst
  <2>10. /\ m.p[c] \in Nodes /\ m.n[m.p[c]] = c /\ own[m.p[c]] = own[c] /\ pos[m.p[c]] < pos[c] /\ pos[m.p[c]] \in Nat
    <3>1. m.p[c] # NULL
      BY <2>4, <2>9, LinkFacts
    <3> QED
      BY <1>1, <2>4, <3>1, LinkFacts
  <2>11. ~Bad(m.p[c], m.p[d]) /\ ~Bad(m.p[d], m.p[c])
    <3>1. pos[m.p[c]] + pos[m.p[d]] < pos[c] + pos[d] /\ pos[m.p[d]] + pos[m.p[c]] < pos[c] + pos[d]
      BY <2>4, <2>6, <2>10
    <3> HIDE DEF Bad
    <3> QED
      BY <1>1, <2>3, <2>4, <2>6, <2>10, <3>1
  <2>12. m.p[c] # m.p[d]
    BY <2>4, <2>6, <2>10
  <2>13. pos[m.p[c]] <= pos[m.p[d]] => FALSE
    BY <2>4, <2>6, <2>8, <2>10, <2>11, <2>12 DEF Together
  <2>14. pos[m.p[d]] <= pos[m.p[c]] => FALSE
    BY <2>4, <2>6, <2>8, <2>10, <2>11, <2>12 DEF Together
  <2> QED
    BY <2>6, <2>10, <2>13, <2>14
<1>3. ~Bad(x, y) /\ ~Bad(y, x)
  BY <1>2
<1>4. pos[x] < pos[y] => m.n[x] # NULL /\ pos[m.n[x]] <= pos[y]
  <2> HAVE pos[x] < pos[y]
  <2>1. m.n[x] # NULL /\ ~(pos[m.n[x]] > pos[y])
    BY <1>1, <1>3 DEF Together
  <2> QED
    BY <1>1, <2>1, LinkFacts DEF Together
<1>5. ASSUME pos[x] = pos[y], x # y PROVE FALSE
  <2>1. m.n[x] # NULL /\ ~(pos[m.n[x]] > pos[y])
    BY <1>1, <1>3, <1>5 DEF Together
  <2>2. pos[m.n[x]] > pos[x] /\ pos[m.n[x]] \in Nat
    BY <1>1, <2>1, LinkFacts DEF Together
  <2> QED
    BY <1>1, <1>5, <2>1, <2>2
<1> QED
  BY <1>4, <1>5

LEMMA NoGapBack ==
  ASSUME NEW m, NEW own, NEW pos, Chained(m, own, pos), NEW x \in Nodes, NEW y \in Nodes, Together(own, x, y),
         pos[x] < pos[y]
  PROVE  m.p[y] # NULL /\ pos[x] <= pos[m.p[y]]
<1>1. pos[x] \in Nat /\ pos[y] \in Nat /\ own[y] # NULL /\ own[x] = own[y]
  BY LinkFacts DEF Together
<1>2. y # head(own[y])
  <2>1. x = head(own[x]) \/ pos[head(own[x])] < pos[x]
    BY <1>1, HeadFirst
  <2>2. pos[head(own[x])] \in Nat
    BY <1>1, LinkFacts, Ends
  <2> QED
    BY <1>1, <2>1, <2>2
<1>3. m.p[y] # NULL /\ m.p[y] \in Nodes /\ m.n[m.p[y]] = y /\ own[m.p[y]] = own[y] /\ pos[m.p[y]] \in Nat
  BY <1>1, <1>2, LinkFacts
<1>4. ASSUME pos[m.p[y]] < pos[x] PROVE FALSE
  <2>1. Together(own, m.p[y], x)
    BY <1>1, <1>3 DEF Together
  <2>2. pos[y] <= pos[x]
    BY <1>3, <1>4, <2>1, NoGap
  <2> QED
    BY <1>1, <2>2
<1> QED
  BY <1>1, <1>3, <1>4

\* The tail has the greatest rank on its list.
LEMMA TailLast ==
  ASSUME NEW m, NEW own, NEW pos, Chained(m, own, pos), NEW x \in Nodes, own[x] # NULL
  PROVE  x = tail(own[x]) \/ pos[x] < pos[tail(own[x])]
<1> DEFINE t == tail(own[x])
<1>1. own[x] \in ListNames /\ t \in Nodes /\ own[t] = own[x] /\ pos[x] \in Nat /\ pos[t] \in Nat
  BY LinkFacts, Ends DEF Chained
<1>2. m.n[t] = NULL
  BY <1>1, LinkFacts
<1>3. Together(own, x, t) /\ Together(own, t, x)
  BY <1>1 DEF Together
<1> HIDE DEF t
<1>4. ~(pos[t] < pos[x])
  BY <1>1, <1>2, <1>3, NoGap
<1>5. pos[t] = pos[x] => x = t
  BY <1>1, <1>3, NoGap
<1> QED
  BY <1>1, <1>4, <1>5 DEF t

\* The nodes behind x, and before x, on its list.
Behind(own, pos, x) == {y \in Nodes : own[y] = own[x] /\ pos[x] < pos[y]}
Ahead(own, pos, x) == {y \in Nodes : own[y] = own[x] /\ pos[y] < pos[x]}

LEMMA Smaller ==
  ASSUME NEW S \in SUBSET Nodes, NEW T \in SUBSET S
  PROVE  /\ Cardinality(S) \in Nat /\ Cardinality(S) <= Cardinality(Nodes)
         /\ T # S => Cardinality(T) < Cardinality(S)
<1>1. IsFiniteSet(S) /\ Cardinality(S) \in Nat /\ Cardinality(S) <= Cardinality(Nodes)
  BY Ends, FS_Subset, FS_CardinalityType
<1>2. IsFiniteSet(T) /\ Cardinality(T) \in Nat /\ Cardinality(T) <= Cardinality(S)
  BY <1>1, FS_Subset, FS_CardinalityType
<1>3. Cardinality(T) = Cardinality(S) => T = S
  BY <1>1, FS_Subset
<1> QED
  BY <1>1, <1>2, <1>3

LEMMA StepsLeft ==
  ASSUME NEW m, NEW own, NEW pos, Chained(m, own, pos), NEW x \in Nodes
  PROVE  /\ Cardinality(Behind(own, pos, x)) \in Nat /\ Cardinality(Behind(own, pos, x)) <= Cardinality(Nodes)
         /\ Cardinality(Ahead(own, pos, x)) \in Nat /\ Cardinality(Ahead(own, pos, x)) <= Cardinality(Nodes)
         /\ own[x] # NULL /\ m.n[x] # NULL => Cardinality(Behind(own, pos, m.n[x])) < Cardinality(Behind(own, pos, x))
         /\ own[x] # NULL /\ m.p[x] # NULL => Cardinality(Ahead(own, pos, m.p[x])) < Cardinality(Ahead(own, pos, x))
<1>1. Behind(own, pos, x) \in SUBSET Nodes /\ Ahead(own, pos, x) \in SUBSET Nodes
  BY DEF Behind, Ahead
<1>2. ASSUME own[x] # NULL, m.n[x] # NULL
      PROVE  Behind(own, pos, m.n[x]) \in SUBSET Behind(own, pos, x) /\ Behind(own, pos, m.n[x]) # Behind(own, pos, x)
  <2>1. /\ m.n[x] \in Nodes /\ own[m.n[x]] = own[x] /\ pos[x] < pos[m.n[x]]
        /\ \A y \in Nodes : pos[y] \in Nat
    BY <1>2, LinkFacts
  <2>2. m.n[x] \in Behind(own, pos, x) /\ m.n[x] \notin Behind(own, pos, m.n[x])
    BY <2>1 DEF Behind
  <2>3. ASSUME NEW y \in Behind(own, pos, m.n[x]) PROVE y \in Behind(own, pos, x)
    BY <2>1 DEF Behind
  <2> QED
    BY <2>2, <2>3
<1>3. ASSUME own[x] # NULL, m.p[x] # NULL
      PROVE  Ahead(own, pos, m.p[x]) \in SUBSET Ahead(own, pos, x) /\ Ahead(own, pos, m.p[x]) # Ahead(own, pos, x)
  <2>1. /\ m.p[x] \in Nodes /\ own[m.p[x]] = own[x] /\ pos[m.p[x]] < pos[x]
        /\ \A y \in Nodes : pos[y] \in Nat
    BY <1>3, LinkFacts
  <2>2. m.p[x] \in Ahead(own, pos, x) /\ m.p[x] \notin Ahead(own, pos, m.p[x])
    BY <2>1 DEF Ahead
  <2>3. ASSUME NEW y \in Ahead(own, pos, m.p[x]) PROVE y \in Ahead(own, pos, x)
    BY <2>1 DEF Ahead
  <2> QED
    BY <2>2, <2>3
<1> QED
  BY <1>1, <1>2, <1>3, Smaller

\* What is behind a node is what the walk along `next' meets.
LEMMA NodesAfter ==
  ASSUME NEW m, NEW own, NEW pos, Chained(m, own, pos), NEW x \in Nodes, own[x] # NULL
  PROVE  nodes_after(m, x) = Behind(own, pos, x)
<1> DEFINE S == [e : Pointers, met : SUBSET Nodes]
           turn == [s \in S |-> IF m.n[s.e] = NULL THEN s ELSE [e |-> m.n[s.e], met |-> s.met \union {m.n[s.e]}]]
           start == [e |-> x, met |-> {}]
           Met(e) == {y \in Behind(own, pos, x) : pos[y] <= pos[e]}
           I == {s \in S : s.e \in Nodes /\ own[s.e] = own[x] /\ pos[x] <= pos[s.e] /\ s.met = Met(s.e)}
           left == [s \in I |-> Cardinality(Behind(own, pos, s.e))]
<1>0. \A y \in Nodes : pos[y] \in Nat
  BY LinkFacts
<1>1. start \in I
  <2>1. Met(x) = {}
    BY <1>0 DEF Behind
  <2> QED
    BY <1>0, <2>1, Ends
<1>2. ASSUME NEW s \in I
      PROVE  /\ turn[s] \in I /\ (turn[s] = s \/ left[turn[s]] < left[s])
             /\ left[s] \in Nat /\ left[s] <= Cardinality(Nodes) /\ (turn[s] = s => m.n[s.e] = NULL)
  <2> DEFINE y == m.n[s.e]
  <2>1. s \in S /\ s.e \in Nodes /\ own[s.e] = own[x] /\ pos[x] <= pos[s.e] /\ s.met = Met(s.e)
    OBVIOUS
  <2>2. left[s] = Cardinality(Behind(own, pos, s.e))
    OBVIOUS
  <2>3. left[s] \in Nat /\ left[s] <= Cardinality(Nodes)
    <3> HIDE DEF left, I, S
    <3> QED
      BY <2>1, <2>2, StepsLeft
  <2>4. CASE y = NULL
    BY <2>3, <2>4
  <2>5. CASE y # NULL
    <3> DEFINE to == [e |-> y, met |-> s.met \union {y}]
    <3>1. y \in Nodes /\ own[y] = own[x] /\ pos[s.e] < pos[y]
      BY <2>1, <2>5, LinkFacts
    <3>2. s.met \union {y} = Met(y)
      <4>1. ASSUME NEW z \in Behind(own, pos, x), pos[z] <= pos[y], z # y PROVE pos[z] <= pos[s.e]
        <5>1. z \in Nodes /\ Together(own, s.e, z) /\ Together(own, z, y)
          BY <2>1, <3>1 DEF Behind, Together
        <5>2. ~(pos[s.e] < pos[z])
          <6>1. pos[s.e] < pos[z] => pos[y] <= pos[z]
            BY <2>1, <5>1, NoGap
          <6>2. pos[z] = pos[y] => z = y
            BY <3>1, <5>1, NoGap
          <6> QED
            BY <1>0, <3>1, <4>1, <5>1, <6>1, <6>2
        <5> QED
          BY <1>0, <2>1, <5>1, <5>2
      <4>2. y \in Behind(own, pos, x)
        BY <1>0, <2>1, <3>1 DEF Behind
      <4>3. ASSUME NEW z \in Met(s.e) PROVE z \in Met(y)
        BY <1>0, <2>1, <3>1 DEF Behind
      <4>4. Met(y) \subseteq Met(s.e) \union {y}
        BY <4>1
      <4>5. y \in Met(y)
        BY <1>0, <3>1, <4>2
      <4> QED
        BY <2>1, <4>3, <4>4, <4>5
    <3>3. to \in I
      <4>1. to \in S
        BY <2>1, <3>1, Ends
      <4>2. pos[x] <= pos[y]
        BY <1>0, <2>1, <3>1
      <4> QED
        BY <3>1, <3>2, <4>1, <4>2
    <3>4. turn[s] = to
      BY <2>1, <2>5
    <3>5. left[to] = Cardinality(Behind(own, pos, y))
      BY <3>3
    <3>6. Cardinality(Behind(own, pos, y)) < Cardinality(Behind(own, pos, s.e))
      BY <2>1, <2>5, StepsLeft
    <3>7. to # s
      <4>1. to.e # s.e
        BY <1>0, <2>1, <3>1
      <4> QED
        BY <4>1
    <3> HIDE DEF to, turn, left, I, S
    <3> QED
      BY <2>2, <2>3, <3>3, <3>4, <3>5, <3>6, <3>7
  <2> QED
    BY <2>4, <2>5
<1> HIDE DEF left, I, turn
<1>3. Loop(turn, start) \in I /\ turn[Loop(turn, start)] = Loop(turn, start)
  <2> HIDE DEF start
  <2> QED
    BY <1>1, <1>2, LoopEnds
<1> DEFINE end == Loop(turn, start)
<1>4. m.n[end.e] = NULL /\ end \in I
  BY <1>2, <1>3
<1>5. nodes_after(m, x) = end.met
  BY DEF nodes_after, turn
<1>6. end.e \in Nodes /\ own[end.e] = own[x] /\ end.met = Met(end.e)
  <2> HIDE DEF end
  <2> QED
    BY <1>4 DEF I
<1>7. ASSUME NEW y \in Behind(own, pos, x) PROVE pos[y] <= pos[end.e]
  <2> HIDE DEF end
  <2>1. Together(own, end.e, y) /\ y \in Nodes
    BY <1>6 DEF Together, Behind
  <2>2. ~(pos[end.e] < pos[y])
    BY <1>4, <1>6, <2>1, NoGap
  <2> QED
    BY <1>0, <1>6, <2>1, <2>2
<1> HIDE DEF end
<1>8. Met(end.e) = Behind(own, pos, x)
  BY <1>7
<1> QED
  BY <1>5, <1>6, <1>8

(***************************************************************************)
(* What the calls do to a chain.                                           *)
(***************************************************************************)
\* Between the header and the tail there are elements.
LEMMA Interior ==
  ASSUME NEW m, NEW own, NEW pos, Chained(m, own, pos), NEW x \in Nodes, own[x] # NULL
  PROVE  /\ x # head(own[x]) /\ x # tail(own[x]) <=> x \in ListElems
         /\ x # head(own[x]) <=> m.p[x] # NULL
         /\ x # tail(own[x]) <=> m.n[x] # NULL
<1>1. own[x] \in ListNames
  BY LinkFacts
<1>2. x \notin ListElems => x = head(own[x]) \/ x = tail(own[x])
  BY DEF Nodes, Chained
<1> QED
  BY <1>1, <1>2, LinkFacts, Ends

\* The links, node by node, make a chain.
LEMMA ChainOf ==
  ASSUME NEW n \in [Nodes -> Pointers], NEW p \in [Nodes -> Pointers],
         NEW own \in [Nodes -> Owners], NEW pos \in [Nodes -> Nat],
         \A l \in ListNames : own[head(l)] = l /\ own[tail(l)] = l,
         \A x \in Nodes : LinksAt([n |-> n, p |-> p], own, pos, x)
  PROVE  Chained([n |-> n, p |-> p], own, pos)
BY DEF Chained, LinkMaps

LEMMA ChainTyped ==
  ASSUME NEW m, NEW own, NEW pos, Chained(m, own, pos)
  PROVE  /\ m.n \in [Nodes -> Pointers] /\ m.p \in [Nodes -> Pointers] /\ m = [n |-> m.n, p |-> m.p]
         /\ own \in [Nodes -> Owners] /\ pos \in [Nodes -> Nat]
         /\ \A l \in ListNames : own[head(l)] = l /\ own[tail(l)] = l
BY DEF Chained, LinkMaps

InsertedOwn(own, before, e) == [own EXCEPT ![e] = own[before]]
InsertedPos(pos, before, e) == [x \in Nodes |-> IF x = e THEN 2 * pos[before] ELSE 2 * pos[x] + 1]

LEMMA InsertKeeps ==
  ASSUME NEW m, NEW own, NEW pos, Chained(m, own, pos), NEW before \in Nodes, NEW e \in ListElems,
         own[before] # NULL, before # head(own[before]), own[e] = NULL
  PROVE  Chained(list_insert(m, before, e), InsertedOwn(own, before, e), InsertedPos(pos, before, e))
<1> DEFINE prior == m.p[before]
           n == [m.n EXCEPT ![e] = before, ![prior] = e]
           p == [m.p EXCEPT ![e] = prior, ![before] = e]
           o == InsertedOwn(own, before, e)
           r == InsertedPos(pos, before, e)
<1>1. list_insert(m, before, e) = [n |-> n, p |-> p]
  BY DEF list_insert
<1>2. /\ e \in Nodes /\ e # NULL /\ e # before /\ before # NULL
      /\ prior \in Nodes /\ prior # NULL /\ m.n[prior] = before /\ own[prior] = own[before] /\ pos[prior] < pos[before]
      /\ prior # e /\ prior # before /\ own[before] \in ListNames
      /\ \A x \in Nodes : pos[x] \in Nat
  <2>1. e \in Nodes /\ e # NULL /\ e # before /\ before # NULL
    BY Ends
  <2>2. \A x \in Nodes : pos[x] \in Nat
    BY LinkFacts
  <2>3. prior \in Nodes /\ prior # NULL /\ m.n[prior] = before /\ own[prior] = own[before] /\ pos[prior] < pos[before]
    BY LinkFacts
  <2> QED
    BY <2>1, <2>2, <2>3, LinkFacts
<1>3. /\ n \in [Nodes -> Pointers] /\ p \in [Nodes -> Pointers] /\ o \in [Nodes -> Owners] /\ r \in [Nodes -> Nat]
      /\ \A x \in Nodes : /\ n[x] = IF x = prior THEN e ELSE IF x = e THEN before ELSE m.n[x]
                          /\ p[x] = IF x = before THEN e ELSE IF x = e THEN prior ELSE m.p[x]
                          /\ o[x] = IF x = e THEN own[before] ELSE own[x]
                          /\ r[x] = IF x = e THEN 2 * pos[before] ELSE 2 * pos[x] + 1
  <2>1. e \in Pointers /\ before \in Pointers /\ prior \in Pointers
    BY <1>2, Ends
  <2>2. m.n \in [Nodes -> Pointers] /\ m.p \in [Nodes -> Pointers] /\ own \in [Nodes -> Owners]
    BY ChainTyped
  <2>3. n \in [Nodes -> Pointers] /\ \A x \in Nodes : n[x] = IF x = prior THEN e ELSE IF x = e THEN before ELSE m.n[x]
    BY <1>2, <2>1, <2>2
  <2>4. p \in [Nodes -> Pointers] /\ \A x \in Nodes : p[x] = IF x = before THEN e ELSE IF x = e THEN prior ELSE m.p[x]
    BY <1>2, <2>1, <2>2
  <2>5. o \in [Nodes -> Owners] /\ \A x \in Nodes : o[x] = IF x = e THEN own[before] ELSE own[x]
    BY <1>2, <2>2 DEF InsertedOwn, Owners
  <2>6. r \in [Nodes -> Nat] /\ \A x \in Nodes : r[x] = IF x = e THEN 2 * pos[before] ELSE 2 * pos[x] + 1
    BY <1>2 DEF InsertedPos
  <2> QED
    BY <2>3, <2>4, <2>5, <2>6
<1>4. \A l \in ListNames : o[head(l)] = l /\ o[tail(l)] = l
  BY <1>3, ChainTyped, Ends
<1> HIDE DEF n, p, o, r
<1>5. ASSUME NEW x \in Nodes PROVE LinksAt([n |-> n, p |-> p], o, r, x)
  <2>0. CASE o[x] = NULL
    BY <2>0 DEF LinksAt
  <2> SUFFICES ASSUME o[x] # NULL PROVE LinksAt([n |-> n, p |-> p], o, r, x)
    BY <2>0
  <2>1. own[x] # NULL =>
          /\ (m.n[x] = NULL <=> x = tail(own[x])) /\ (m.p[x] = NULL <=> x = head(own[x]))
          /\ m.n[x] # NULL => m.n[x] \in Nodes /\ m.p[m.n[x]] = x /\ own[m.n[x]] = own[x] /\ pos[x] < pos[m.n[x]]
          /\ m.p[x] # NULL => m.p[x] \in Nodes /\ m.n[m.p[x]] = x /\ own[m.p[x]] = own[x]
    BY LinkFacts
  <2> HIDE DEF prior
  <2>2. CASE x = e
    <3>1. n[x] = before /\ p[x] = prior /\ o[x] = own[before] /\ r[x] = 2 * pos[before]
      BY <1>2, <1>3, <2>2
    <3>2. p[before] = e /\ n[prior] = e /\ o[before] = own[before] /\ o[prior] = own[before] /\ r[before] = 2 * pos[before] + 1
      BY <1>2, <1>3
    <3>3. x # tail(own[before]) /\ x # head(own[before])
      BY <1>2, <2>2, Ends
    <3> QED
      BY <1>2, <2>2, <3>1, <3>2, <3>3 DEF LinksAt
  <2>3. CASE x # e
    <3>1. o[x] = own[x] /\ own[x] # NULL /\ r[x] = 2 * pos[x] + 1
      BY <1>3, <2>3
    <3>2. \A y \in Nodes : own[y] # NULL => y # e
      OBVIOUS
    <3>3. (n[x] = NULL <=> x = tail(o[x])) /\ (p[x] = NULL <=> x = head(o[x]))
      <4>1. prior # tail(own[prior])
        BY <1>2, LinkFacts
      <4> QED
        BY <1>2, <1>3, <2>1, <2>3, <3>1, <4>1
    <3>4. n[x] # NULL => p[n[x]] = x /\ o[n[x]] = o[x] /\ r[x] < r[n[x]]
      <4>1. CASE x = prior
        <5>1. n[x] = e /\ p[e] = prior /\ o[e] = own[before] /\ r[e] = 2 * pos[before]
          BY <1>2, <1>3, <4>1
        <5> QED
          BY <1>2, <3>1, <4>1, <5>1
      <4>2. CASE x # prior
        <5>1. n[x] = m.n[x]
          BY <1>3, <2>3, <4>2
        <5>2. m.n[x] # NULL => m.n[x] # e /\ m.n[x] # before
          BY <1>2, <2>1, <3>1, <3>2, <4>2 DEF prior
        <5>3. m.n[x] # NULL => r[m.n[x]] = 2 * pos[m.n[x]] + 1 /\ o[m.n[x]] = own[x] /\ p[m.n[x]] = x
          BY <1>3, <2>1, <3>1, <5>2
        <5> QED
          BY <1>2, <2>1, <3>1, <5>1, <5>3
      <4> QED
        BY <4>1, <4>2
    <3>5. p[x] # NULL => n[p[x]] = x /\ o[p[x]] = o[x]
      <4>1. CASE x = before
        BY <1>2, <1>3, <3>1, <4>1
      <4>2. CASE x # before
        <5>1. p[x] = m.p[x]
          BY <1>3, <2>3, <4>2
        <5>2. m.p[x] # NULL => m.p[x] # e /\ m.p[x] # prior
          BY <1>2, <2>1, <3>1, <3>2, <4>2
        <5> QED
          BY <1>3, <2>1, <3>1, <5>1, <5>2
      <4> QED
        BY <4>1, <4>2
    <3> QED
      BY <3>1, <3>3, <3>4, <3>5 DEF LinksAt
  <2> QED
    BY <2>2, <2>3
<1>6. Chained([n |-> n, p |-> p], o, r)
  BY <1>3, <1>4, <1>5, ChainOf
<1> QED
  BY <1>1, <1>6 DEF o, r

LEMMA RemoveKeeps ==
  ASSUME NEW m, NEW own, NEW pos, Chained(m, own, pos), NEW e \in ListElems, own[e] # NULL
  PROVE  Chained(list_remove(m, e), [own EXCEPT ![e] = NULL], pos)
<1> DEFINE a == m.p[e]
           b == m.n[e]
           n == [m.n EXCEPT ![a] = b]
           p == [m.p EXCEPT ![b] = a]
           o == [own EXCEPT ![e] = NULL]
<1>1. list_remove(m, e) = [n |-> n, p |-> p]
  BY DEF list_remove
<1>2. /\ e \in Nodes /\ e # NULL /\ \A x \in Nodes : pos[x] \in Nat
      /\ a \in Nodes /\ a # NULL /\ m.n[a] = e /\ own[a] = own[e] /\ pos[a] < pos[e] /\ a # e
      /\ b \in Nodes /\ b # NULL /\ m.p[b] = e /\ own[b] = own[e] /\ pos[e] < pos[b] /\ b # e /\ a # b
  <2>1. e \in Nodes /\ e # NULL /\ \A x \in Nodes : pos[x] \in Nat
    BY Ends, LinkFacts
  <2>2. a # NULL /\ b # NULL
    BY <2>1, Interior
  <2>3. a \in Nodes /\ m.n[a] = e /\ own[a] = own[e] /\ pos[a] < pos[e]
    BY <2>1, <2>2, LinkFacts
  <2>4. b \in Nodes /\ m.p[b] = e /\ own[b] = own[e] /\ pos[e] < pos[b]
    BY <2>1, <2>2, LinkFacts
  <2> QED
    BY <2>1, <2>2, <2>3, <2>4
<1>3. /\ n \in [Nodes -> Pointers] /\ p \in [Nodes -> Pointers] /\ o \in [Nodes -> Owners] /\ pos \in [Nodes -> Nat]
      /\ \A x \in Nodes : /\ n[x] = IF x = a THEN b ELSE m.n[x]
                          /\ p[x] = IF x = b THEN a ELSE m.p[x]
                          /\ o[x] = IF x = e THEN NULL ELSE own[x]
  <2>1. a \in Pointers /\ b \in Pointers /\ NULL \in Pointers /\ NULL \in Owners
    BY <1>2 DEF Pointers, Owners
  <2>2. m.n \in [Nodes -> Pointers] /\ m.p \in [Nodes -> Pointers] /\ own \in [Nodes -> Owners] /\ pos \in [Nodes -> Nat]
    BY ChainTyped
  <2>3. n \in [Nodes -> Pointers] /\ \A x \in Nodes : n[x] = IF x = a THEN b ELSE m.n[x]
    BY <1>2, <2>1, <2>2
  <2>4. p \in [Nodes -> Pointers] /\ \A x \in Nodes : p[x] = IF x = b THEN a ELSE m.p[x]
    BY <1>2, <2>1, <2>2
  <2> QED
    BY <1>2, <2>1, <2>2, <2>3, <2>4
<1>4. \A l \in ListNames : o[head(l)] = l /\ o[tail(l)] = l
  BY <1>3, ChainTyped, Ends
<1> HIDE DEF n, p, o
<1>5. ASSUME NEW x \in Nodes PROVE LinksAt([n |-> n, p |-> p], o, pos, x)
  <2>0. CASE o[x] = NULL
    BY <2>0 DEF LinksAt
  <2> SUFFICES ASSUME o[x] # NULL PROVE LinksAt([n |-> n, p |-> p], o, pos, x)
    BY <2>0
  <2>1. own[x] # NULL =>
          /\ (m.n[x] = NULL <=> x = tail(own[x])) /\ (m.p[x] = NULL <=> x = head(own[x]))
          /\ m.n[x] # NULL => m.n[x] \in Nodes /\ m.p[m.n[x]] = x /\ own[m.n[x]] = own[x] /\ pos[x] < pos[m.n[x]]
          /\ m.p[x] # NULL => m.p[x] \in Nodes /\ m.n[m.p[x]] = x /\ own[m.p[x]] = own[x]
    BY LinkFacts
  <2>2. x # e
    BY <1>3
  <2>3. LinksAt([n |-> n, p |-> p], o, pos, x)
    <3>1. o[x] = own[x] /\ own[x] # NULL
      BY <1>3, <2>2
    <3>2. m.n[x] = e => x = a
      BY <1>2, <2>1, <3>1
    <3>3. m.p[x] = e => x = b
      BY <1>2, <2>1, <3>1
    <3>4. m.n[x] = b => x = e
      BY <1>2, <2>1, <3>1
    <3>5. m.p[x] = a => x = e
      BY <1>2, <2>1, <3>1
    <3> HIDE DEF a, b
    <3>7. (n[x] = NULL <=> x = tail(o[x])) /\ (p[x] = NULL <=> x = head(o[x]))
      BY <1>2, <1>3, <2>1, <2>2, <3>1
    <3>8. n[x] # NULL => p[n[x]] = x /\ o[n[x]] = o[x] /\ pos[x] < pos[n[x]]
      <4>1. CASE x = a
        <5>1. n[x] = b /\ p[b] = a /\ o[b] = own[b]
          BY <1>2, <1>3, <4>1
        <5> QED
          BY <1>2, <3>1, <4>1, <5>1
      <4>2. CASE x # a
        <5>1. n[x] = m.n[x] /\ m.n[x] # e /\ m.n[x] # b
          BY <1>3, <2>2, <3>2, <3>4, <4>2
        <5> QED
          BY <1>3, <2>1, <3>1, <5>1
      <4> QED
        BY <4>1, <4>2
    <3>9. p[x] # NULL => n[p[x]] = x /\ o[p[x]] = o[x]
      <4>1. CASE x = b
        BY <1>2, <1>3, <3>1, <4>1
      <4>2. CASE x # b
        <5>1. p[x] = m.p[x] /\ m.p[x] # e /\ m.p[x] # a
          BY <1>3, <2>2, <3>3, <3>5, <4>2
        <5> QED
          BY <1>3, <2>1, <3>1, <5>1
      <4> QED
        BY <4>1, <4>2
    <3> QED
      BY <3>1, <3>7, <3>8, <3>9 DEF LinksAt
  <2> QED
    BY <2>3
<1>6. Chained([n |-> n, p |-> p], o, pos)
  BY <1>3, <1>4, <1>5, ChainOf
<1> QED
  BY <1>1, <1>6 DEF o

\* The elements that a splice moves.
Moving(own, pos, first, last) == {x \in Nodes : own[x] = own[first] /\ pos[first] <= pos[x] /\ pos[x] < pos[last]}

SplicedOwn(own, pos, before, first, last) ==
  [x \in Nodes |-> IF x \in Moving(own, pos, first, last) THEN own[before] ELSE own[x]]
\* They are ranked between what is in front of `before' and `before'.
SplicedPos(own, pos, before, first, last) ==
  [x \in Nodes |-> IF x \in Moving(own, pos, first, last) THEN pos[before] + pos[x]
                   ELSE IF pos[x] < pos[before] THEN pos[x] ELSE pos[x] + pos[before] + pos[last]]

LEMMA MovingFacts ==
  ASSUME NEW m, NEW own, NEW pos, Chained(m, own, pos), NEW first \in Nodes, NEW last \in Nodes,
         Together(own, first, last), pos[first] < pos[last], first # head(own[first])
  PROVE  LET S == Moving(own, pos, first, last)
             f == m.p[first]
             l == m.p[last]
         IN  /\ f \in Nodes /\ f # NULL /\ m.n[f] = first /\ own[f] = own[first] /\ pos[f] < pos[first] /\ f \notin S
             /\ l \in Nodes /\ l # NULL /\ m.n[l] = last /\ l \in S
             /\ first \in S /\ last \notin S /\ S \subseteq ListElems
             /\ \A x \in S : x # l => m.n[x] \in S
             /\ \A x \in S : x # first => m.p[x] \in S
             /\ \A x \in Nodes \ S : x # f /\ own[x] # NULL /\ m.n[x] # NULL => m.n[x] \notin S
             /\ \A x \in Nodes \ S : x # last /\ own[x] # NULL /\ m.p[x] # NULL => m.p[x] \notin S
<1> DEFINE S == Moving(own, pos, first, last)
           f == m.p[first]
           l == m.p[last]
<1>0. \A x \in Nodes : pos[x] \in Nat
  BY LinkFacts
<1>1. own[first] # NULL /\ own[last] = own[first]
  BY DEF Together
<1>2. f \in Nodes /\ f # NULL /\ m.n[f] = first /\ own[f] = own[first] /\ pos[f] < pos[first]
  <2>1. f # NULL
    BY <1>1, Interior
  <2> QED
    BY <1>1, <2>1, LinkFacts, Ends
<1>3. l # NULL /\ pos[first] <= pos[l]
  BY NoGapBack
<1>4. l \in Nodes /\ m.n[l] = last /\ own[l] = own[first] /\ pos[l] < pos[last]
  BY <1>1, <1>3, LinkFacts
<1>5. f \notin S /\ l \in S /\ first \in S /\ last \notin S
  BY <1>0, <1>2, <1>3, <1>4 DEF Moving
<1>6. ASSUME NEW x \in S
      PROVE  x \in Nodes /\ own[x] = own[first] /\ pos[first] <= pos[x] /\ pos[x] < pos[last] /\ pos[x] \in Nat
  BY <1>0 DEF Moving
<1>7. ASSUME NEW x \in S PROVE x \in ListElems
  <2>1. x # tail(own[x])
    <3>1. Together(own, x, last)
      BY <1>1, <1>6 DEF Together
    <3>2. m.n[x] # NULL
      BY <1>6, <3>1, NoGap
    <3> QED
      BY <1>1, <1>6, <3>2, Interior
  <2>2. x # head(own[x])
    <3>1. pos[head(own[first])] < pos[first] /\ pos[head(own[first])] \in Nat
      <4>1. own[first] \in ListNames
        BY <1>1, LinkFacts
      <4> QED
        BY <1>0, <1>1, <4>1, HeadFirst, Ends
    <3> QED
      BY <1>0, <1>6, <3>1
  <2> QED
    BY <1>1, <1>6, <2>1, <2>2, Interior
<1>8. ASSUME NEW x \in S, x # l PROVE m.n[x] \in S
  <2>1. Together(own, x, last)
    BY <1>1, <1>6 DEF Together
  <2>2. m.n[x] # NULL /\ pos[m.n[x]] <= pos[last]
    BY <1>6, <2>1, NoGap
  <2>3. m.n[x] \in Nodes /\ own[m.n[x]] = own[first] /\ pos[x] < pos[m.n[x]] /\ m.p[m.n[x]] = x
    BY <1>1, <1>6, <2>2, LinkFacts
  <2>4. pos[m.n[x]] # pos[last]
    <3>1. Together(own, m.n[x], last)
      BY <1>1, <2>3 DEF Together
    <3>2. pos[m.n[x]] = pos[last] => m.n[x] = last
      BY <2>3, <3>1, NoGap
    <3> QED
      BY <1>8, <2>3, <3>2
  <2>5. pos[first] <= pos[m.n[x]] /\ pos[m.n[x]] < pos[last]
    BY <1>0, <1>6, <2>2, <2>3, <2>4
  <2> QED
    BY <2>3, <2>5 DEF Moving
<1>9. ASSUME NEW x \in S, x # first PROVE m.p[x] \in S
  <2>1. Together(own, first, x)
    BY <1>1, <1>6 DEF Together
  <2>2. pos[first] # pos[x]
    BY <1>6, <1>9, <2>1, NoGap
  <2>3. pos[first] < pos[x]
    BY <1>0, <1>6, <2>2
  <2>4. m.p[x] # NULL /\ pos[first] <= pos[m.p[x]]
    BY <1>6, <2>1, <2>3, NoGapBack
  <2>5. m.p[x] \in Nodes /\ own[m.p[x]] = own[first] /\ pos[m.p[x]] < pos[x]
    BY <1>1, <1>6, <2>4, LinkFacts
  <2>6. pos[m.p[x]] < pos[last]
    BY <1>0, <1>6, <2>5
  <2> QED
    BY <2>4, <2>5, <2>6 DEF Moving
<1> HIDE DEF S
<1>10. ASSUME NEW x \in Nodes \ S, x # f, own[x] # NULL, m.n[x] # NULL, m.n[x] \in S PROVE FALSE
  <2>1. m.p[m.n[x]] = x
    BY <1>10, LinkFacts
  <2> QED
    BY <1>9, <1>10, <2>1
<1>11. ASSUME NEW x \in Nodes \ S, x # last, own[x] # NULL, m.p[x] # NULL, m.p[x] \in S PROVE FALSE
  <2>1. m.n[m.p[x]] = x
    BY <1>11, LinkFacts
  <2> QED
    BY <1>4, <1>8, <1>11, <2>1
<1> QED
  BY <1>2, <1>3, <1>4, <1>5, <1>7, <1>8, <1>9, <1>10, <1>11 DEF S

LEMMA SpliceKeeps ==
  ASSUME NEW m, NEW own, NEW pos, Chained(m, own, pos),
         NEW before \in Nodes, NEW first \in Nodes, NEW last \in Nodes,
         own[before] # NULL, before # head(own[before]), before \notin Moving(own, pos, first, last),
         Together(own, first, last), pos[first] < pos[last], first # head(own[first])
  PROVE  Chained(list_splice(m, before, first, last),
                 SplicedOwn(own, pos, before, first, last), SplicedPos(own, pos, before, first, last))
<1> DEFINE S == Moving(own, pos, first, last)
           f == m.p[first]
           l == m.p[last]
           cutn == [m.n EXCEPT ![f] = m.n[l]]
           cutp == [m.p EXCEPT ![m.n[l]] = f]
           prior == cutp[before]
           n == [cutn EXCEPT ![l] = before, ![prior] = first]
           p == [cutp EXCEPT ![first] = prior, ![before] = l]
           o == SplicedOwn(own, pos, before, first, last)
           r == SplicedPos(own, pos, before, first, last)
<1>0. \A x \in Nodes : pos[x] \in Nat
  BY LinkFacts
<1>1. list_splice(m, before, first, last) = [n |-> n, p |-> p]
  <2>1. first # last
    BY <1>0
  <2> QED
    BY <2>1 DEF list_splice
<1>2. /\ f \in Nodes /\ f # NULL /\ m.n[f] = first /\ own[f] = own[first] /\ pos[f] < pos[first] /\ f \notin S
      /\ l \in Nodes /\ l # NULL /\ m.n[l] = last /\ l \in S
      /\ first \in S /\ last \notin S /\ S \subseteq ListElems
      /\ \A x \in S : x # l => m.n[x] \in S
      /\ \A x \in S : x # first => m.p[x] \in S
      /\ \A x \in Nodes \ S : x # f /\ own[x] # NULL /\ m.n[x] # NULL => m.n[x] \notin S
      /\ \A x \in Nodes \ S : x # last /\ own[x] # NULL /\ m.p[x] # NULL => m.p[x] \notin S
  BY MovingFacts
<1>3. own[first] # NULL /\ own[last] = own[first] /\ own[first] \in ListNames /\ own[before] \in ListNames
  BY LinkFacts DEF Together
<1>4. /\ m.n \in [Nodes -> Pointers] /\ m.p \in [Nodes -> Pointers] /\ own \in [Nodes -> Owners] /\ pos \in [Nodes -> Nat]
      /\ first \in Pointers /\ last \in Pointers /\ before \in Pointers
  BY ChainTyped, Ends
<1> HIDE DEF S, f, l
<1>5. prior = IF before = last THEN f ELSE m.p[before]
  BY <1>2, <1>4
<1>6. /\ prior \in Nodes /\ prior # NULL /\ own[prior] = own[before] /\ pos[prior] < pos[before] /\ prior \notin S
      /\ (before # last => prior = m.p[before] /\ m.n[prior] = before)
      /\ (before = last => prior = f) /\ prior # tail(own[prior])
  <2>1. CASE before = last
    <3>1. f # tail(own[f])
      BY <1>2, <1>3, LinkFacts, Ends
    <3> HIDE DEF prior
    <3> QED
      BY <1>0, <1>2, <1>3, <1>5, <2>1, <3>1
  <2>2. CASE before # last
    <3>1. m.p[before] # NULL
      BY Interior
    <3>2. m.p[before] \in Nodes /\ m.n[m.p[before]] = before /\ own[m.p[before]] = own[before] /\ pos[m.p[before]] < pos[before]
      BY <3>1, LinkFacts
    <3>3. m.p[before] \notin S
      BY <1>2, <2>2, <3>1, <3>2 DEF S
    <3>4. m.p[before] # tail(own[m.p[before]])
      BY <3>2, LinkFacts, Ends
    <3> HIDE DEF prior
    <3> QED
      BY <1>5, <2>2, <3>1, <3>2, <3>3, <3>4
  <2> QED
    BY <2>1, <2>2
<1>7. /\ n \in [Nodes -> Pointers]
      /\ \A x \in Nodes : n[x] = IF x = prior THEN first ELSE IF x = l THEN before ELSE IF x = f THEN last ELSE m.n[x]
  <2>1. cutn \in [Nodes -> Pointers] /\ \A x \in Nodes : cutn[x] = IF x = f THEN last ELSE m.n[x]
    BY <1>2, <1>4
  <2> HIDE DEF cutn, prior
  <2> QED
    BY <1>2, <1>4, <1>6, <2>1
<1>8. /\ p \in [Nodes -> Pointers]
      /\ \A x \in Nodes : p[x] = IF x = before THEN l ELSE IF x = first THEN prior ELSE IF x = last THEN f ELSE m.p[x]
  <2>1. f \in Pointers /\ l \in Pointers /\ prior \in Pointers
    BY <1>2, <1>6, Ends
  <2>2. cutp \in [Nodes -> Pointers] /\ \A x \in Nodes : cutp[x] = IF x = last THEN f ELSE m.p[x]
    BY <1>2, <1>4, <2>1
  <2> HIDE DEF cutp, prior
  <2> QED
    BY <1>2, <1>4, <1>6, <2>1, <2>2
<1>9. /\ o \in [Nodes -> Owners] /\ r \in [Nodes -> Nat]
      /\ \A x \in Nodes : /\ o[x] = IF x \in S THEN own[before] ELSE own[x]
                          /\ r[x] = IF x \in S THEN pos[before] + pos[x]
                                    ELSE IF pos[x] < pos[before] THEN pos[x] ELSE pos[x] + pos[before] + pos[last]
  BY <1>0, <1>3, <1>4 DEF SplicedOwn, SplicedPos, S, Owners
<1>10. before \notin S /\ before # NULL /\ last # NULL /\ first # NULL
  BY Ends DEF S
<1>11. \A k \in ListNames : o[head(k)] = k /\ o[tail(k)] = k
  BY <1>2, <1>9, ChainTyped, Ends
<1> HIDE DEF n, p, o, r, prior
\* Among the nodes that stay the order does not change.
<1>12. ASSUME NEW x \in Nodes \ S, NEW y \in Nodes \ S, pos[x] < pos[y] PROVE r[x] < r[y]
  <2>1. /\ r[x] = IF pos[x] < pos[before] THEN pos[x] ELSE pos[x] + pos[before] + pos[last]
        /\ r[y] = IF pos[y] < pos[before] THEN pos[y] ELSE pos[y] + pos[before] + pos[last]
    BY <1>9
  <2>2. pos[x] \in Nat /\ pos[y] \in Nat /\ pos[before] \in Nat /\ pos[last] \in Nat
    BY <1>0
  <2> QED
    BY <1>12, <2>1, <2>2
<1>13. ASSUME NEW x \in Nodes PROVE LinksAt([n |-> n, p |-> p], o, r, x)
  <2>0. CASE o[x] = NULL
    BY <2>0 DEF LinksAt
  <2> SUFFICES ASSUME o[x] # NULL PROVE LinksAt([n |-> n, p |-> p], o, r, x)
    BY <2>0
  <2>1. /\ (m.n[x] = NULL <=> x = tail(own[x])) /\ (m.p[x] = NULL <=> x = head(own[x]))
        /\ m.n[x] # NULL => m.n[x] \in Nodes /\ m.p[m.n[x]] = x /\ own[m.n[x]] = own[x] /\ pos[x] < pos[m.n[x]]
        /\ m.p[x] # NULL => m.p[x] \in Nodes /\ m.n[m.p[x]] = x /\ own[m.p[x]] = own[x]
        /\ own[x] # NULL
    <3>1. own[x] # NULL
      <4>1. CASE x \in S
        BY <1>3, <4>1 DEF S, Moving
      <4>2. CASE x \notin S
        BY <1>9, <4>2
      <4> QED
        BY <4>1, <4>2
    <3> QED
      BY <3>1, LinkFacts
  <2>4. (n[x] = NULL <=> x = tail(o[x])) /\ (p[x] = NULL <=> x = head(o[x]))
    <3>1. CASE x \in S
      <4>1. x \in ListElems /\ o[x] \in ListNames
        BY <1>2, <1>3, <1>9, <3>1
      <4>2. x # tail(o[x]) /\ x # head(o[x])
        BY <4>1, Ends
      <4>3. n[x] # NULL
        <5>1. x # l => m.n[x] # NULL
          BY <1>2, <3>1, Ends
        <5> QED
          BY <1>2, <1>6, <1>7, <1>10, <3>1, <5>1
      <4>4. p[x] # NULL
        <5>1. x # first => m.p[x] # NULL
          BY <1>2, <3>1, Ends
        <5> QED
          BY <1>2, <1>6, <1>8, <1>10, <3>1, <5>1
      <4> QED
        BY <4>2, <4>3, <4>4
    <3>2. CASE x \notin S
      <4>1. o[x] = own[x] /\ own[x] # NULL
        BY <1>9, <3>2
      <4>2. n[x] = NULL <=> m.n[x] = NULL
        <5>1. m.n[prior] # NULL /\ m.n[f] # NULL
          BY <1>2, <1>6, <1>10
        <5> QED
          BY <1>2, <1>7, <1>10, <3>2, <5>1
      <4>3. p[x] = NULL <=> m.p[x] = NULL
        <5>1. m.p[before] # NULL /\ m.p[last] # NULL
          BY <1>2, Interior DEF l
        <5> QED
          BY <1>2, <1>8, <1>10, <3>2, <5>1
      <4> QED
        BY <2>1, <4>1, <4>2, <4>3
    <3> QED
      BY <3>1, <3>2
  <2>5. n[x] # NULL => p[n[x]] = x /\ o[n[x]] = o[x] /\ r[x] < r[n[x]]
    <3>1. CASE x = prior
      <4>1. n[x] = first /\ p[first] = prior /\ o[first] = own[before] /\ o[x] = own[before]
        BY <1>2, <1>6, <1>7, <1>8, <1>9, <1>10, <3>1
      <4>2. r[first] = pos[before] + pos[first] /\ r[x] = pos[prior]
        BY <1>2, <1>6, <1>9, <3>1
      <4>3. pos[prior] < pos[before] + pos[first]
        BY <1>0, <1>6
      <4> QED
        BY <3>1, <4>1, <4>2, <4>3
    <3>2. CASE x = l
      <4>1. n[x] = before /\ p[before] = l /\ o[before] = own[before] /\ o[x] = own[before]
        BY <1>2, <1>6, <1>7, <1>8, <1>9, <1>10, <3>2
      <4>2. r[before] = pos[before] + pos[before] + pos[last] /\ r[x] = pos[before] + pos[l]
        <5>1. ~(pos[before] < pos[before])
          BY <1>0
        <5> QED
          BY <1>2, <1>9, <1>10, <3>2, <5>1
      <4>3. pos[l] < pos[last]
        BY <1>2 DEF S, Moving
      <4>4. pos[before] + pos[l] < pos[before] + pos[before] + pos[last]
        BY <1>0, <1>2, <4>3
      <4> QED
        BY <3>2, <4>1, <4>2, <4>4
    <3>3. CASE x = f /\ x # prior
      <4>1. n[x] = last
        BY <1>2, <1>7, <3>3
      <4>2. last # before /\ last # first
        BY <1>2, <1>6, <3>3
      <4>3. p[last] = f /\ o[last] = own[last] /\ o[x] = own[f]
        BY <1>2, <1>8, <1>9, <3>3, <4>2
      <4>4. pos[f] < pos[last]
        BY <1>0, <1>2
      <4>5. r[f] < r[last]
        BY <1>2, <1>12, <4>4
      <4> QED
        BY <1>2, <1>3, <3>3, <4>1, <4>3, <4>5
    <3>4. CASE x # prior /\ x # l /\ x # f
      <4> HAVE n[x] # NULL
      <4> DEFINE y == m.n[x]
      <4>1. n[x] = y /\ y # NULL
        BY <1>7, <3>4
      <4>2. y \in Nodes /\ m.p[y] = x /\ own[y] = own[x] /\ pos[x] < pos[y]
        BY <2>1, <4>1
      <4>3. y # last /\ y # first /\ y # before
        <5>1. y = before => before = last
          BY <1>6, <3>4, <4>2
        <5> QED
          BY <3>4, <4>2, <5>1 DEF f, l
      <4>4. p[y] = x
        BY <1>8, <4>2, <4>3
      <4>5. x \in S <=> y \in S
        BY <1>2, <2>1, <3>4, <4>1
      <4> HIDE DEF y
      <4>6. o[y] = o[x]
        BY <1>9, <4>2, <4>5
      <4>7. r[x] < r[y]
        <5>1. CASE x \in S
          <6>1. r[x] = pos[before] + pos[x] /\ r[y] = pos[before] + pos[y]
            BY <1>9, <4>2, <4>5, <5>1
          <6> QED
            BY <1>0, <4>2, <6>1
        <5>2. CASE x \notin S
          BY <1>12, <4>2, <4>5, <5>2
        <5> QED
          BY <5>1, <5>2
      <4> QED
        BY <4>1, <4>4, <4>6, <4>7
    <3> QED
      BY <3>1, <3>2, <3>3, <3>4
  <2>6. p[x] # NULL => n[p[x]] = x /\ o[p[x]] = o[x]
    <3>1. CASE x = before
      BY <1>2, <1>6, <1>7, <1>8, <1>9, <1>10, <3>1
    <3>2. CASE x = first
      BY <1>2, <1>6, <1>7, <1>8, <1>9, <1>10, <3>2
    <3>3. CASE x = last /\ x # before
      <4>1. p[x] = f
        BY <1>2, <1>8, <3>3
      <4>2. f # prior
        BY <1>2, <1>6, <1>10, <3>3
      <4>3. f # l
        BY <1>2
      <4> QED
        BY <1>2, <1>3, <1>7, <1>9, <3>3, <4>1, <4>2, <4>3
    <3>4. CASE x # before /\ x # first /\ x # last
      <4> HAVE p[x] # NULL
      <4>1. p[x] = m.p[x] /\ m.p[x] # NULL
        BY <1>8, <3>4
      <4>2. m.p[x] \in Nodes /\ m.n[m.p[x]] = x /\ own[m.p[x]] = own[x]
        BY <2>1, <4>1
      <4>3. m.p[x] # l /\ m.p[x] # f
        BY <1>2, <3>4, <4>2
      <4>4. m.p[x] # prior
        BY <1>2, <1>6, <3>4, <4>2
      <4>5. x \in S <=> m.p[x] \in S
        BY <1>2, <2>1, <3>4, <4>1
      <4>6. o[m.p[x]] = o[x]
        BY <1>9, <4>2, <4>5
      <4> QED
        BY <1>7, <4>1, <4>2, <4>3, <4>4, <4>6
    <3> QED
      BY <3>1, <3>2, <3>3, <3>4
  <2> QED
    BY <2>4, <2>5, <2>6 DEF LinksAt
<1>14. Chained([n |-> n, p |-> p], o, r)
  BY <1>7, <1>8, <1>9, <1>11, <1>13, ChainOf
<1> QED
  BY <1>1, <1>14 DEF o, r

(***************************************************************************)
(* Sorting: nothing leaves its list.                                       *)
(***************************************************************************)
\* x is a place on list l: an element or the tail.
OnChain(own, l, x) == x \in Nodes /\ own[x] = l /\ x # head(l)

LEMMA Begin ==
  ASSUME NEW m, NEW own, NEW pos, Chained(m, own, pos), NEW l \in ListNames
  PROVE  OnChain(own, l, list_begin(m, l))
<1>1. head(l) \in Nodes /\ own[head(l)] = l /\ l # NULL /\ head(l) # tail(l)
  BY Ends DEF Chained
<1>2. m.n[head(l)] # NULL
  BY <1>1, Interior
<1>3. m.n[head(l)] \in Nodes /\ own[m.n[head(l)]] = l /\ pos[head(l)] < pos[m.n[head(l)]]
  BY <1>1, <1>2, LinkFacts
<1>4. pos[head(l)] \in Nat
  BY <1>1, LinkFacts
<1> QED
  BY <1>3, <1>4 DEF OnChain, list_begin

LEMMA Onward ==
  ASSUME NEW m, NEW own, NEW pos, Chained(m, own, pos), NEW l \in ListNames, NEW x, OnChain(own, l, x), x # tail(l)
  PROVE  OnChain(own, l, m.n[x]) /\ m.n[x] # NULL /\ pos[x] < pos[m.n[x]] /\ x \in ListElems
<1>1. x \in Nodes /\ own[x] = l /\ l # NULL /\ x # head(l)
  BY Ends DEF OnChain
<1>2. m.n[x] # NULL /\ m.p[x] # NULL /\ x \in ListElems
  BY <1>1, Interior
<1>3. m.n[x] \in Nodes /\ own[m.n[x]] = l /\ m.p[m.n[x]] = x /\ pos[x] < pos[m.n[x]]
  BY <1>1, <1>2, LinkFacts
<1>4. m.n[x] # head(l)
  <2>1. m.p[m.n[x]] # NULL
    BY <1>1, <1>3, Ends
  <2> QED
    BY <1>1, <1>3, <2>1, Interior
<1> QED
  BY <1>2, <1>3, <1>4 DEF OnChain

LEMMA FindEnd ==
  ASSUME NEW m, NEW own, NEW pos, Chained(m, own, pos), NEW l \in ListNames, NEW a, NEW b,
         OnChain(own, l, a), OnChain(own, l, b), pos[a] < pos[b]
  PROVE  LET e == find_end_of_run(m, a, b)
         IN  OnChain(own, l, e) /\ pos[a] < pos[e] /\ pos[e] <= pos[b]
<1> DEFINE turn == [e \in Pointers |-> IF e # b /\ ~less(e, m.p[e]) THEN m.n[e] ELSE e]
           I == {e \in Nodes : OnChain(own, l, e) /\ pos[a] < pos[e] /\ pos[e] <= pos[b]}
<1>1. /\ a \in Nodes /\ b \in Nodes /\ own[a] = l /\ own[b] = l /\ l # NULL /\ Together(own, a, b)
      /\ \A x \in Nodes : pos[x] \in Nat /\ x \in Pointers
  BY LinkFacts, Ends DEF OnChain, Together
<1>2. ASSUME NEW x \in Nodes, OnChain(own, l, x), pos[x] < pos[b]
      PROVE  m.n[x] \in Nodes /\ OnChain(own, l, m.n[x]) /\ pos[x] < pos[m.n[x]] /\ pos[m.n[x]] <= pos[b]
  <2>1. Together(own, x, b)
    BY <1>1, <1>2 DEF OnChain, Together
  <2>2. m.n[x] # NULL /\ pos[m.n[x]] <= pos[b]
    BY <1>1, <1>2, <2>1, NoGap
  <2>3. x # tail(l)
    BY <1>1, <1>2, <2>2, Interior DEF OnChain
  <2>4. OnChain(own, l, m.n[x]) /\ pos[x] < pos[m.n[x]]
    BY <1>2, <2>3, Onward
  <2> QED
    BY <2>2, <2>4 DEF OnChain
<1>3. m.n[a] \in I
  BY <1>1, <1>2
<1>4. ASSUME NEW e \in I PROVE turn[e] \in I
  <2>1. e \in Nodes /\ OnChain(own, l, e) /\ pos[a] < pos[e] /\ pos[e] <= pos[b] /\ turn[e] \in {e, m.n[e]} /\ (e = b => turn[e] = e)
    BY <1>1
  <2>2. CASE e = b
    BY <2>1, <2>2
  <2>3. CASE e # b
    <3>1. Together(own, e, b)
      BY <1>1, <2>1 DEF OnChain, Together
    <3>2. pos[e] # pos[b]
      BY <1>1, <2>1, <2>3, <3>1, NoGap
    <3>3. pos[e] < pos[b]
      BY <1>1, <2>1, <3>2
    <3>4. m.n[e] \in I
      <4>1. m.n[e] \in Nodes /\ OnChain(own, l, m.n[e]) /\ pos[e] < pos[m.n[e]] /\ pos[m.n[e]] <= pos[b]
        BY <1>2, <2>1, <3>3
      <4>2. pos[a] < pos[m.n[e]]
        BY <1>1, <2>1, <4>1
      <4> QED
        BY <4>1, <4>2
    <3> HIDE DEF turn, I
    <3> QED
      BY <2>1, <3>4
  <2> QED
    BY <2>2, <2>3
<1> HIDE DEF I
<1>5. Loop(turn, m.n[a]) \in I
  <2> HIDE DEF turn
  <2> QED
    BY <1>3, <1>4, LoopKeeps
<1> QED
  BY <1>5 DEF I, find_end_of_run

\* The merge moves one element to another place on its list.
LEMMA SpliceOne ==
  ASSUME NEW m, NEW own, NEW pos, Chained(m, own, pos), NEW l \in ListNames, NEW a, NEW c,
         OnChain(own, l, a), OnChain(own, l, c), pos[a] < pos[c], c # tail(l)
  PROVE  \E r : /\ Chained(list_splice(m, a, c, m.n[c]), own, r)
                /\ \A y, z \in Nodes \ {c} : pos[y] < pos[z] => r[y] < r[z]
<1> DEFINE d == m.n[c]
           r == SplicedPos(own, pos, a, c, d)
<1>1. /\ a \in Nodes /\ c \in Nodes /\ own[a] = l /\ own[c] = l /\ l # NULL /\ a # head(l) /\ c # head(l)
      /\ \A x \in Nodes : pos[x] \in Nat
  BY LinkFacts, Ends DEF OnChain
<1>2. OnChain(own, l, d) /\ d # NULL /\ pos[c] < pos[d]
  BY Onward
<1>3. d \in Nodes /\ own[d] = l /\ Together(own, c, d)
  BY <1>1, <1>2 DEF OnChain, Together
<1>4. Moving(own, pos, c, d) = {c}
  <2>1. ASSUME NEW x \in Moving(own, pos, c, d) PROVE x = c
    <3>1. x \in Nodes /\ Together(own, c, x) /\ pos[c] <= pos[x] /\ pos[x] < pos[d]
      BY <1>1 DEF Moving, Together
    <3>2. ~(pos[c] < pos[x])
      <4>1. pos[c] < pos[x] => pos[d] <= pos[x]
        BY <1>1, <3>1, NoGap
      <4> QED
        BY <1>1, <1>3, <3>1, <4>1
    <3>3. pos[c] = pos[x]
      BY <1>1, <3>1, <3>2
    <3> QED
      BY <1>1, <3>1, <3>3, NoGap
  <2>2. c \in Moving(own, pos, c, d)
    BY <1>1, <1>2 DEF Moving
  <2> QED
    BY <2>1, <2>2
<1>5. a \notin Moving(own, pos, c, d)
  BY <1>1, <1>4
<1>6. Chained(list_splice(m, a, c, d), SplicedOwn(own, pos, a, c, d), r)
  <2> HIDE DEF d
  <2> QED
    BY <1>1, <1>2, <1>3, <1>5, SpliceKeeps
<1>7. SplicedOwn(own, pos, a, c, d) = own
  <2>1. own \in [Nodes -> Owners]
    BY ChainTyped
  <2> QED
    BY <1>1, <1>4, <2>1 DEF SplicedOwn
<1>8. ASSUME NEW y \in Nodes \ {c}, NEW z \in Nodes \ {c}, pos[y] < pos[z] PROVE r[y] < r[z]
  <2>1. /\ r[y] = IF pos[y] < pos[a] THEN pos[y] ELSE pos[y] + pos[a] + pos[d]
        /\ r[z] = IF pos[z] < pos[a] THEN pos[z] ELSE pos[z] + pos[a] + pos[d]
    BY <1>4 DEF SplicedPos
  <2>2. pos[y] \in Nat /\ pos[z] \in Nat /\ pos[a] \in Nat /\ pos[d] \in Nat
    BY <1>1, <1>3
  <2> QED
    BY <1>8, <2>1, <2>2
<1> QED
  BY <1>6, <1>7, <1>8

LEMMA MergeKeeps ==
  ASSUME NEW m, NEW own, NEW pos, Chained(m, own, pos), NEW l \in ListNames, NEW a0, NEW a1b0, NEW b1,
         OnChain(own, l, a0), OnChain(own, l, a1b0), OnChain(own, l, b1),
         pos[a0] <= pos[a1b0], pos[a1b0] <= pos[b1]
  PROVE  \E r : Chained(inplace_merge(m, a0, a1b0, b1), own, r)
<1> DEFINE turn == [s \in MergeStates |->
                      IF s.a0 = s.a1b0 \/ s.a1b0 = b1 THEN s
                      ELSE IF ~less(s.a1b0, s.a0) THEN [s EXCEPT !.a0 = s.m.n[s.a0]]
                      ELSE [m |-> list_splice(s.m, s.a0, s.a1b0, s.m.n[s.a1b0]), a0 |-> s.a0, a1b0 |-> s.m.n[s.a1b0]]]
           start == [m |-> m, a0 |-> a0, a1b0 |-> a1b0]
           Right(k, a, c) ==
             /\ OnChain(own, l, a) /\ OnChain(own, l, c)
             /\ \E r : Chained(k, own, r) /\ r[a] <= r[c] /\ r[c] <= r[b1]
           I == {s \in MergeStates : Right(s.m, s.a0, s.a1b0)}
<1>1. ASSUME NEW k, NEW a, NEW c, Right(k, a, c)
      PROVE  [m |-> k, a0 |-> a, a1b0 |-> c] \in I /\ [m |-> k, a0 |-> a, a1b0 |-> c] \in MergeStates
  <2>1. k \in LinkMaps /\ a \in Pointers /\ c \in Pointers
    BY <1>1, Ends DEF OnChain, Chained
  <2>2. [m |-> k, a0 |-> a, a1b0 |-> c] \in MergeStates
    BY <2>1 DEF MergeStates
  <2> HIDE DEF Right
  <2> QED
    BY <1>1, <2>2
<1>2. start \in I
  <2>1. Right(m, a0, a1b0)
    OBVIOUS
  <2> HIDE DEF Right, I
  <2> QED
    BY <1>1, <2>1
<1>3. ASSUME NEW s \in I PROVE turn[s] \in I
  <2> DEFINE k == s.m
             a == s.a0
             c == s.a1b0
  <2>1. s \in MergeStates /\ Right(k, a, c) /\ s = [m |-> k, a0 |-> a, a1b0 |-> c]
    <3> HIDE DEF Right
    <3> QED
      BY DEF MergeStates
  <2>2. turn[s] = IF a = c \/ c = b1 THEN s
                  ELSE IF ~less(c, a) THEN [s EXCEPT !.a0 = k.n[a]]
                  ELSE [m |-> list_splice(k, a, c, k.n[c]), a0 |-> a, a1b0 |-> k.n[c]]
    BY <2>1
  <2> HIDE DEF turn
  <2>3. a # c /\ c # b1 => Right(k, k.n[a], c) /\ Right(list_splice(k, a, c, k.n[c]), a, k.n[c])
    <3> HAVE a # c /\ c # b1
    <3> HIDE DEF k, a, c
    <3>1. PICK r : Chained(k, own, r) /\ r[a] <= r[c] /\ r[c] <= r[b1]
      BY <2>1
    <3>2. /\ OnChain(own, l, a) /\ OnChain(own, l, c) /\ a \in Nodes /\ c \in Nodes /\ b1 \in Nodes
          /\ Together(own, a, c) /\ Together(own, c, b1) /\ \A x \in Nodes : r[x] \in Nat
      BY <2>1, <3>1, LinkFacts, Ends DEF OnChain, Together
    <3>3. r[a] < r[c] /\ r[c] < r[b1]
      <4>1. r[a] # r[c]
        BY <3>1, <3>2, NoGap
      <4>2. r[c] # r[b1]
        BY <3>1, <3>2, NoGap
      <4> QED
        BY <3>1, <3>2, <4>1, <4>2
    <3>4. k.n[a] # NULL /\ r[k.n[a]] <= r[c]
      BY <3>1, <3>2, <3>3, NoGap
    <3>5. k.n[c] # NULL /\ r[k.n[c]] <= r[b1]
      BY <3>1, <3>2, <3>3, NoGap
    <3>6. a # tail(l) /\ c # tail(l)
      BY <3>1, <3>2, <3>4, <3>5, Interior DEF OnChain, Together
    <3>7. OnChain(own, l, k.n[a]) /\ OnChain(own, l, k.n[c]) /\ r[c] < r[k.n[c]]
      BY <3>1, <3>2, <3>6, Onward
    <3>8. Right(k, k.n[a], c)
      BY <3>1, <3>2, <3>4, <3>7
    <3>9. PICK q : /\ Chained(list_splice(k, a, c, k.n[c]), own, q)
                   /\ \A y, z \in Nodes \ {c} : r[y] < r[z] => q[y] < q[z]
      <4> HIDE DEF Right, I, turn, start
      <4>1. Chained(k, own, r) /\ OnChain(own, l, a) /\ OnChain(own, l, c) /\ r[a] < r[c] /\ c # tail(l)
        BY <3>1, <3>2, <3>3, <3>6
      <4>2. \E q : /\ Chained(list_splice(k, a, c, k.n[c]), own, q)
                   /\ \A y, z \in Nodes \ {c} : r[y] < r[z] => q[y] < q[z]
        BY <4>1, SpliceOne
      <4> QED
        BY <4>2
    <3>10. q[a] <= q[k.n[c]] /\ q[k.n[c]] <= q[b1]
      <4>1. k.n[c] \in Nodes /\ k.n[c] # c /\ a # c /\ b1 # c
        BY <3>2, <3>3, <3>7 DEF OnChain
      <4>2. \A x \in Nodes : q[x] \in Nat
        BY <3>9, LinkFacts
      <4>3. q[a] < q[k.n[c]]
        <5>1. r[a] < r[k.n[c]]
          BY <3>2, <3>3, <3>7, <4>1
        <5> QED
          BY <3>2, <3>9, <4>1, <5>1
      <4>4. CASE r[k.n[c]] < r[b1]
        <5>1. q[k.n[c]] < q[b1]
          BY <3>2, <3>9, <4>1, <4>4
        <5> QED
          BY <3>2, <4>1, <4>2, <4>3, <5>1
      <4>5. CASE r[k.n[c]] = r[b1]
        <5>1. Together(own, k.n[c], b1)
          BY <3>2, <3>7 DEF OnChain, Together
        <5>2. k.n[c] = b1
          BY <3>1, <3>2, <4>1, <4>5, <5>1, NoGap
        <5> QED
          BY <3>2, <4>1, <4>2, <4>3, <5>2
      <4> QED
        BY <3>2, <3>5, <4>1, <4>4, <4>5
    <3>11. Right(list_splice(k, a, c, k.n[c]), a, k.n[c])
      BY <3>2, <3>7, <3>9, <3>10
    <3> QED
      BY <3>8, <3>11
  <2>4. [s EXCEPT !.a0 = k.n[a]] = [m |-> k, a0 |-> k.n[a], a1b0 |-> c]
    BY <2>1 DEF MergeStates
  <2> HIDE DEF Right, I, k, a, c
  <2> QED
    BY <1>1, <2>2, <2>3, <2>4
<1> HIDE DEF I
<1>4. Loop(turn, start) \in I
  <2> HIDE DEF turn, start
  <2> QED
    BY <1>2, <1>3, LoopKeeps
<1>5. inplace_merge(m, a0, a1b0, b1) = Loop(turn, start).m
  BY DEF inplace_merge
<1> HIDE DEF turn, start
<1> QED
  BY <1>4, <1>5 DEF I

SortStates == [m : LinkMaps, a0 : Pointers, runs : Nat]

\* The tail comes last on its list.
LEMMA BeforeTail ==
  ASSUME NEW m, NEW own, NEW pos, Chained(m, own, pos), NEW l \in ListNames, NEW x, OnChain(own, l, x)
  PROVE  OnChain(own, l, tail(l)) /\ (x # tail(l) => pos[x] < pos[tail(l)])
<1>1. tail(l) \in Nodes /\ own[tail(l)] = l /\ tail(l) # head(l) /\ l # NULL
  BY Ends, ChainTyped
<1>2. x \in Nodes /\ own[x] = l
  BY DEF OnChain
<1> QED
  BY <1>1, <1>2, TailLast DEF OnChain

LEMMA PassKeeps ==
  ASSUME NEW m, NEW own, NEW pos, Chained(m, own, pos), NEW l \in ListNames
  PROVE  pass(m, l) \in SortStates /\ \E r : Chained(pass(m, l).m, own, r)
<1> DEFINE turn == [s \in [m : LinkMaps, a0 : Pointers, runs : Nat] |->
                      LET a1b0 == find_end_of_run(s.m, s.a0, tail(l))
                          b1 == find_end_of_run(s.m, a1b0, tail(l))
                      IN  IF s.a0 = tail(l) THEN s
                          ELSE IF a1b0 = tail(l) THEN [m |-> s.m, a0 |-> tail(l), runs |-> s.runs + 1]
                          ELSE [m |-> inplace_merge(s.m, s.a0, a1b0, b1), a0 |-> b1, runs |-> s.runs + 1]]
           start == [m |-> m, a0 |-> list_begin(m, l), runs |-> 0]
           Right(k, a) == OnChain(own, l, a) /\ \E r : Chained(k, own, r)
           I == {s \in SortStates : Right(s.m, s.a0)}
<1>1. ASSUME NEW k, NEW a, NEW c \in Nat, Right(k, a)
      PROVE  [m |-> k, a0 |-> a, runs |-> c] \in I
  <2>1. k \in LinkMaps /\ a \in Pointers
    BY <1>1, Ends DEF OnChain, Chained
  <2>2. [m |-> k, a0 |-> a, runs |-> c] \in SortStates
    BY <2>1 DEF SortStates
  <2> HIDE DEF Right
  <2> QED
    BY <1>1, <2>2
<1>2. start \in I
  <2>1. Right(m, list_begin(m, l))
    BY Begin
  <2> HIDE DEF Right, I
  <2> QED
    BY <1>1, <2>1
<1>3. ASSUME NEW s \in I PROVE turn[s] \in I
  <2> DEFINE k == s.m
             a == s.a0
             c == s.runs
             a1b0 == find_end_of_run(k, a, tail(l))
             b1 == find_end_of_run(k, a1b0, tail(l))
  <2>1. s \in SortStates /\ Right(k, a) /\ c \in Nat /\ s = [m |-> k, a0 |-> a, runs |-> c]
    <3> HIDE DEF Right
    <3> QED
      BY DEF SortStates
  <2>2. turn[s] = IF a = tail(l) THEN s
                  ELSE IF a1b0 = tail(l) THEN [m |-> k, a0 |-> tail(l), runs |-> c + 1]
                  ELSE [m |-> inplace_merge(k, a, a1b0, b1), a0 |-> b1, runs |-> c + 1]
    BY <2>1 DEF SortStates
  <2> HIDE DEF turn, k, a, c
  <2>4. PICK r : Chained(k, own, r)
    BY <2>1
  <2>5. OnChain(own, l, a) /\ OnChain(own, l, tail(l)) /\ (a # tail(l) => r[a] < r[tail(l)])
    BY <2>1, <2>4, BeforeTail
  <2>6. Right(k, tail(l))
    BY <2>4, <2>5
  <2>7. ASSUME a # tail(l), a1b0 # tail(l) PROVE Right(inplace_merge(k, a, a1b0, b1), b1)
    <3>1. OnChain(own, l, a1b0) /\ r[a] < r[a1b0]
      BY <2>4, <2>5, <2>7, FindEnd
    <3> HIDE DEF a1b0
    <3>2. r[a1b0] < r[tail(l)]
      BY <2>4, <2>7, <3>1, BeforeTail
    <3>3. OnChain(own, l, b1) /\ r[a1b0] < r[b1]
      BY <2>4, <2>5, <3>1, <3>2, FindEnd
    <3> HIDE DEF b1
    <3>4. r[a] <= r[a1b0] /\ r[a1b0] <= r[b1]
      <4>1. r[a] \in Nat /\ r[a1b0] \in Nat /\ r[b1] \in Nat
        BY <2>4, <2>5, <3>1, <3>3, LinkFacts DEF OnChain
      <4> QED
        BY <3>1, <3>3, <4>1
    <3>5. \E q : Chained(inplace_merge(k, a, a1b0, b1), own, q)
      <4> HIDE DEF Right, I
      <4> QED
        BY <2>4, <2>5, <3>1, <3>3, <3>4, MergeKeeps
    <3> QED
      BY <3>3, <3>5
  <2>8. c + 1 \in Nat
    BY <2>1
  <2> HIDE DEF Right, I, a1b0, b1
  <2> QED
    BY <1>1, <2>1, <2>2, <2>6, <2>7, <2>8
<1> HIDE DEF I
<1>4. Loop(turn, start) \in I
  <2> HIDE DEF turn, start
  <2> QED
    BY <1>2, <1>3, LoopKeeps
<1>5. pass(m, l) = Loop(turn, start)
  BY DEF pass
<1> HIDE DEF turn, start
<1> QED
  BY <1>4, <1>5 DEF I

LEMMA SortKeeps ==
  ASSUME NEW m, NEW own, NEW pos, Chained(m, own, pos), NEW l \in ListNames
  PROVE  \E r : Chained(list_sort(m, l), own, r)
<1> DEFINE turn == [s \in [m : LinkMaps, a0 : Pointers, runs : Nat] |-> IF s.runs > 1 THEN pass(s.m, l) ELSE s]
           I == {s \in SortStates : \E r : Chained(s.m, own, r)}
<1>1. pass(m, l) \in I
  BY PassKeeps
<1>2. ASSUME NEW s \in I PROVE turn[s] \in I
  <2>1. PICK r : Chained(s.m, own, r)
    OBVIOUS
  <2>2. pass(s.m, l) \in I
    BY <2>1, PassKeeps
  <2>3. turn[s] \in {pass(s.m, l), s}
    BY DEF SortStates
  <2> QED
    BY <2>2, <2>3
<1> HIDE DEF I
<1>3. Loop(turn, pass(m, l)) \in I
  <2> HIDE DEF turn
  <2> QED
    BY <1>1, <1>2, LoopKeeps
<1>4. list_sort(m, l) = Loop(turn, pass(m, l)).m
  BY DEF list_sort
<1> HIDE DEF turn
<1> QED
  BY <1>3, <1>4 DEF I

\* The element goes in front of a place on the list.
LEMMA OrderedPlace ==
  ASSUME NEW m, NEW own, NEW pos, Chained(m, own, pos), NEW l \in ListNames, NEW e
  PROVE  OnChain(own, l, ordered_before(m, l, e))
<1> DEFINE turn == [x \in Pointers |-> IF x = tail(l) \/ less(e, x) THEN x ELSE m.n[x]]
           I == {x \in Nodes : OnChain(own, l, x)}
<1>1. list_begin(m, l) \in I
  BY Begin DEF OnChain
<1>2. ASSUME NEW x \in I PROVE turn[x] \in I
  <2>1. OnChain(own, l, x) /\ x \in Pointers
    BY Ends
  <2>2. turn[x] = x \/ (x # tail(l) /\ turn[x] = m.n[x])
    BY <2>1
  <2>3. x # tail(l) => OnChain(own, l, m.n[x])
    BY <2>1, Onward
  <2> HIDE DEF turn
  <2> QED
    BY <2>2, <2>3 DEF OnChain
<1>3. Loop(turn, list_begin(m, l)) \in I
  <2> HIDE DEF turn, I
  <2> QED
    BY <1>1, <1>2, LoopKeeps
<1> QED
  BY <1>3 DEF ordered_before

(***************************************************************************)
(* Duplicates leave their list, for the other one or for none.             *)
(***************************************************************************)
UniqueStates == [m : LinkMaps, elem : Pointers]

LEMMA UniqueKeeps ==
  ASSUME NEW m, NEW own, NEW pos, Chained(m, own, pos), NEW l \in ListNames, ~list_empty(m, l),
         NEW d \in ListNames \union {NULL}, d # l
  PROVE  \E o, r : Chained(unique(m, l, d), o, r)
<1> DEFINE turn == [s \in [m : LinkMaps, elem : Pointers] |->
                      LET x == s.m.n[s.elem]   without == list_remove(s.m, x)
                      IN  IF x = tail(l) THEN s
                          ELSE IF less(s.elem, x) \/ less(x, s.elem) THEN [s EXCEPT !.elem = x]
                          ELSE [s EXCEPT !.m = IF d \in ListNames THEN list_insert(without, tail(d), x) ELSE without]]
           start == [m |-> m, elem |-> list_begin(m, l)]
           Right(k, e) == \E o, r : Chained(k, o, r) /\ OnChain(o, l, e) /\ e # tail(l)
           I == {s \in UniqueStates : Right(s.m, s.elem)}
<1>1. ASSUME NEW k, NEW e, Right(k, e)
      PROVE  [m |-> k, elem |-> e] \in I
  <2>1. k \in LinkMaps /\ e \in Pointers
    BY <1>1, Ends DEF OnChain, Chained
  <2>2. [m |-> k, elem |-> e] \in UniqueStates
    BY <2>1 DEF UniqueStates
  <2> HIDE DEF Right
  <2> QED
    BY <1>1, <2>2
<1>2. start \in I
  <2>1. Right(m, list_begin(m, l))
    BY Begin DEF list_empty
  <2> HIDE DEF Right, I
  <2> QED
    BY <1>1, <2>1
<1>3. ASSUME NEW s \in I PROVE turn[s] \in I
  <2> DEFINE k == s.m
             e == s.elem
             x == k.n[e]
             without == list_remove(k, x)
             moved == IF d \in ListNames THEN list_insert(without, tail(d), x) ELSE without
  <2>1. s \in UniqueStates /\ Right(k, e) /\ s = [m |-> k, elem |-> e]
    <3> HIDE DEF Right
    <3> QED
      BY DEF UniqueStates
  <2>2. turn[s] = IF x = tail(l) THEN s
                  ELSE IF less(e, x) \/ less(x, e) THEN [s EXCEPT !.elem = x]
                  ELSE [s EXCEPT !.m = moved]
    BY <2>1 DEF UniqueStates
  <2>3. [s EXCEPT !.elem = x] = [m |-> k, elem |-> x]
    <3> HIDE DEF Right, turn, I, x
    <3> QED
      BY <2>1 DEF UniqueStates
  <2>4. [s EXCEPT !.m = moved] = [m |-> moved, elem |-> e]
    <3> HIDE DEF Right, turn, I, moved
    <3> QED
      BY <2>1 DEF UniqueStates
  <2> HIDE DEF turn, k, e
  <2>5. ASSUME x # tail(l) PROVE Right(k, x) /\ Right(moved, e)
    <3>1. PICK o, r : Chained(k, o, r) /\ OnChain(o, l, e) /\ e # tail(l)
      BY <2>1
    <3>2. OnChain(o, l, x) /\ r[e] < r[x] /\ e \in ListElems
      BY <3>1, Onward
    <3>3. Right(k, x)
      BY <2>5, <3>1, <3>2
    <3>4. x \in ListElems /\ o[x] = l /\ x \in Nodes /\ l # NULL
      BY <2>5, <3>1, <3>2, Onward, Ends DEF OnChain
    <3>5. e # x
      <4>1. r[e] \in Nat
        BY <3>1, LinkFacts DEF OnChain
      <4> QED
        BY <3>2, <4>1
    <3> HIDE DEF x
    <3> DEFINE o1 == [o EXCEPT ![x] = NULL]
    <3>6. Chained(without, o1, r)
      BY <3>1, <3>4, RemoveKeeps
    <3>7. o \in [Nodes -> Owners]
      BY <3>1, ChainTyped
    <3>8. \A y \in Nodes : o1[y] = IF y = x THEN NULL ELSE o[y]
      BY <3>4, <3>7
    <3>9. OnChain(o1, l, e)
      BY <3>1, <3>5, <3>8 DEF OnChain
    <3>10. CASE d \in ListNames
      <4> DEFINE o2 == InsertedOwn(o1, tail(d), x)
      <4>1. tail(d) \in Nodes /\ d # NULL /\ tail(d) # x /\ tail(d) # head(d) /\ o1[tail(d)] = d /\ o1[x] = NULL
        <5>1. o[tail(d)] = d
          BY <3>1, <3>10, ChainTyped
        <5> QED
          BY <3>4, <3>8, <3>10, <5>1, Ends
      <4> HIDE DEF without, o1
      <4>2. Chained(list_insert(without, tail(d), x), o2, InsertedPos(r, tail(d), x))
        BY <3>4, <3>6, <4>1, InsertKeeps
      <4>3. o2[e] = o1[e]
        <5>1. o1 \in [Nodes -> Owners] /\ e \in Nodes
          BY <3>1, <3>6, ChainTyped DEF OnChain
        <5> QED
          BY <3>5, <5>1 DEF InsertedOwn
      <4>4. OnChain(o2, l, e)
        BY <3>9, <4>3 DEF OnChain
      <4> HIDE DEF o2
      <4> QED
        BY <3>1, <3>3, <3>10, <4>2, <4>4 DEF x
    <3>11. CASE d \notin ListNames
      <4> HIDE DEF without, o1
      <4> QED
        BY <3>1, <3>3, <3>6, <3>9, <3>11 DEF x
    <3> QED
      BY <3>10, <3>11
  <2> HIDE DEF Right, I, x, moved
  <2> QED
    BY <1>1, <2>1, <2>2, <2>3, <2>4, <2>5
<1> HIDE DEF I
<1>4. Loop(turn, start) \in I
  <2> HIDE DEF turn, start
  <2> QED
    BY <1>2, <1>3, LoopKeeps
<1>5. unique(m, l, d) = Loop(turn, start).m
  BY DEF unique
<1> HIDE DEF turn, start
<1> QED
  BY <1>4, <1>5 DEF I

(***************************************************************************)
(* Reversing.                                                              *)
(***************************************************************************)
\* The elements of list l in front of e.
Passed(own, pos, l, e) == {x \in Nodes : own[x] = l /\ x # head(l) /\ pos[x] < pos[e]}
\* The links of the elements in S are swapped.
SwappedIn(m, k, S) ==
  \A x \in Nodes : /\ k.n[x] = IF x \in S THEN m.p[x] ELSE m.n[x]
                   /\ k.p[x] = IF x \in S THEN m.n[x] ELSE m.p[x]

ReverseStates == [m : LinkMaps, e : Pointers]

\* One turn of the loop passes one element.
LEMMA PassOne ==
  ASSUME NEW m, NEW own, NEW pos, Chained(m, own, pos), NEW l \in ListNames, NEW e, OnChain(own, l, e), e # tail(l)
  PROVE  /\ Passed(own, pos, l, m.n[e]) = Passed(own, pos, l, e) \union {e}
         /\ e \notin Passed(own, pos, l, e)
<1>1. OnChain(own, l, m.n[e]) /\ m.n[e] # NULL /\ pos[e] < pos[m.n[e]]
  BY Onward
<1>2. /\ e \in Nodes /\ own[e] = l /\ l # NULL /\ e # head(l) /\ m.n[e] \in Nodes /\ own[m.n[e]] = l
      /\ \A x \in Nodes : pos[x] \in Nat
  BY <1>1, LinkFacts, Ends DEF OnChain
<1>3. ASSUME NEW x \in Passed(own, pos, l, m.n[e]), x # e PROVE x \in Passed(own, pos, l, e)
  <2>1. x \in Nodes /\ own[x] = l /\ x # head(l) /\ pos[x] < pos[m.n[e]] /\ Together(own, e, x)
    BY <1>2 DEF Passed, Together
  <2>2. pos[e] < pos[x] => pos[m.n[e]] <= pos[x]
    BY <1>2, <2>1, NoGap
  <2>3. pos[e] # pos[x]
    BY <1>2, <1>3, <2>1, NoGap
  <2>4. pos[x] < pos[e]
    BY <1>2, <2>1, <2>2, <2>3
  <2> QED
    BY <2>1, <2>4 DEF Passed
<1>4. ASSUME NEW x \in Passed(own, pos, l, e) PROVE x \in Passed(own, pos, l, m.n[e])
  BY <1>1, <1>2 DEF Passed
<1>5. e \in Passed(own, pos, l, m.n[e]) /\ e \notin Passed(own, pos, l, e)
  BY <1>1, <1>2 DEF Passed
<1> QED
  BY <1>3, <1>4, <1>5

LEMMA ReverseSwaps ==
  ASSUME NEW m, NEW own, NEW pos, Chained(m, own, pos), NEW l \in ListNames,
         NEW swap, swap = [s \in [m : LinkMaps, e : Pointers] |->
                             IF s.e = tail(l) THEN s
                             ELSE [m |-> [n |-> [s.m.n EXCEPT ![s.e] = s.m.p[s.e]],
                                          p |-> [s.m.p EXCEPT ![s.e] = s.m.n[s.e]]],
                                   e |-> s.m.n[s.e]]]
  PROVE  LET k == Loop(swap, [m |-> m, e |-> list_begin(m, l)]).m
         IN  k \in LinkMaps /\ SwappedIn(m, k, Passed(own, pos, l, tail(l)))
<1> DEFINE start == [m |-> m, e |-> list_begin(m, l)]
           Right(k, e) == k \in LinkMaps /\ OnChain(own, l, e) /\ SwappedIn(m, k, Passed(own, pos, l, e))
           I == {s \in ReverseStates : Right(s.m, s.e)}
           left == [s \in I |-> Cardinality(Behind(own, pos, s.e))]
<1>1. ASSUME NEW k, NEW e, Right(k, e) PROVE [m |-> k, e |-> e] \in I
  <2>1. e \in Pointers
    BY <1>1, Ends DEF OnChain
  <2>2. [m |-> k, e |-> e] \in ReverseStates
    BY <1>1, <2>1 DEF ReverseStates
  <2> HIDE DEF Right
  <2> QED
    BY <1>1, <2>2
<1>2. start \in I
  <2>1. Passed(own, pos, l, list_begin(m, l)) = {}
    <3>1. OnChain(own, l, list_begin(m, l)) /\ head(l) \in Nodes /\ own[head(l)] = l /\ l # NULL
      BY Begin, ChainTyped, Ends
    <3>2. ASSUME NEW x \in Passed(own, pos, l, list_begin(m, l)) PROVE FALSE
      <4>1. x \in Nodes /\ own[x] = l /\ x # head(l) /\ pos[x] < pos[m.n[head(l)]] /\ Together(own, head(l), x)
        BY <3>1 DEF Passed, list_begin, Together
      <4>2. pos[head(l)] < pos[x]
        BY <3>1, <4>1, HeadFirst
      <4>3. pos[m.n[head(l)]] <= pos[x]
        BY <3>1, <4>1, <4>2, NoGap
      <4>4. pos[x] \in Nat /\ pos[m.n[head(l)]] \in Nat
        BY <3>1, <4>1, LinkFacts DEF OnChain, list_begin
      <4> QED
        BY <4>1, <4>3, <4>4
    <3> QED
      BY <3>2
  <2>2. Right(m, list_begin(m, l))
    BY <2>1, Begin DEF SwappedIn, Chained
  <2> HIDE DEF Right, I
  <2> QED
    BY <1>1, <2>2
<1>3. ASSUME NEW s \in I
      PROVE  /\ swap[s] \in I /\ (swap[s] = s \/ left[swap[s]] < left[s])
             /\ left[s] \in Nat /\ left[s] <= Cardinality(Nodes) /\ (swap[s] = s => s.e = tail(l))
  <2> DEFINE k == s.m
             e == s.e
             n == [k.n EXCEPT ![e] = k.p[e]]
             p == [k.p EXCEPT ![e] = k.n[e]]
             after == [m |-> [n |-> n, p |-> p], e |-> k.n[e]]
  <2>1. s \in ReverseStates /\ Right(k, e) /\ s = [m |-> k, e |-> e]
    <3> HIDE DEF Right
    <3> QED
      BY DEF ReverseStates
  <2>2. swap[s] = IF e = tail(l) THEN s ELSE after
    BY <2>1 DEF ReverseStates
  <2>3. left[s] = Cardinality(Behind(own, pos, e))
    OBVIOUS
  <2> HIDE DEF k, e
  <2>4. left[s] \in Nat /\ left[s] <= Cardinality(Nodes)
    <3>1. e \in Nodes
      BY <2>1 DEF OnChain
    <3> HIDE DEF left, I
    <3> QED
      BY <2>3, <3>1, StepsLeft
  <2>5. CASE e = tail(l)
    BY <2>2, <2>4, <2>5 DEF e
  <2>6. CASE e # tail(l)
    <3>1. k \in LinkMaps /\ OnChain(own, l, e) /\ SwappedIn(m, k, Passed(own, pos, l, e)) /\ e \in Nodes
      BY <2>1 DEF OnChain
    <3>2. k.n \in [Nodes -> Pointers] /\ k.p \in [Nodes -> Pointers]
      BY <3>1 DEF LinkMaps
    <3>3. /\ Passed(own, pos, l, m.n[e]) = Passed(own, pos, l, e) \union {e}
          /\ e \notin Passed(own, pos, l, e)
      BY <2>6, <3>1, PassOne
    <3>4. k.n[e] = m.n[e] /\ k.p[e] = m.p[e]
      BY <3>1, <3>3 DEF SwappedIn
    <3>5. [n |-> n, p |-> p] \in LinkMaps
      BY <3>1, <3>2 DEF LinkMaps
    <3>6. SwappedIn(m, [n |-> n, p |-> p], Passed(own, pos, l, m.n[e]))
      <4>1. ASSUME NEW x \in Nodes
            PROVE  /\ n[x] = IF x \in Passed(own, pos, l, m.n[e]) THEN m.p[x] ELSE m.n[x]
                   /\ p[x] = IF x \in Passed(own, pos, l, m.n[e]) THEN m.n[x] ELSE m.p[x]
        BY <3>1, <3>2, <3>3, <3>4 DEF SwappedIn
      <4> HIDE DEF n, p
      <4> QED
        BY <4>1 DEF SwappedIn
    <3>7. OnChain(own, l, m.n[e]) /\ m.n[e] # NULL /\ pos[e] < pos[m.n[e]]
      BY <2>6, <3>1, Onward
    <3> HIDE DEF n, p
    <3>8. Right([n |-> n, p |-> p], k.n[e])
      BY <3>4, <3>5, <3>6, <3>7
    <3>9. after \in I
      <4> HIDE DEF Right, I
      <4> QED
        BY <1>1, <3>8
    <3>10. left[after] = Cardinality(Behind(own, pos, m.n[e]))
      BY <3>4, <3>9
    <3>11. Cardinality(Behind(own, pos, m.n[e])) < Cardinality(Behind(own, pos, e))
      <4>1. e \in Nodes /\ own[e] # NULL
        BY <3>1, Ends DEF OnChain
      <4> HIDE DEF e
      <4> QED
        BY <3>7, <4>1, StepsLeft
    <3>12. after # s
      <4>1. m.n[e] # e
        <5>1. pos[e] \in Nat
          BY <3>1, LinkFacts
        <5> QED
          BY <3>7, <5>1
      <4>2. after.e = m.n[e] /\ s.e = e
        BY <3>4 DEF e
      <4> QED
        BY <4>1, <4>2
    <3> HIDE DEF after, left, I
    <3> QED
      BY <2>2, <2>3, <2>4, <2>6, <3>9, <3>10, <3>11, <3>12
  <2> QED
    BY <2>5, <2>6
<1> HIDE DEF left, I
<1>4. Loop(swap, start) \in I /\ swap[Loop(swap, start)] = Loop(swap, start)
  <2> HIDE DEF start
  <2> QED
    BY <1>2, <1>3, LoopEnds
<1> DEFINE end == Loop(swap, start)
<1>5. end \in I /\ end.e = tail(l)
  <2> HIDE DEF end
  <2>1. end \in I /\ swap[end] = end
    BY <1>4 DEF end
  <2> QED
    BY <1>3, <2>1
<1> HIDE DEF end
<1>6. end.m \in LinkMaps /\ SwappedIn(m, end.m, Passed(own, pos, l, tail(l)))
  BY <1>5 DEF I
<1> QED
  BY <1>6 DEF end

\* The ranks of list l, counted from its end.
ReversedPos(own, pos, l) ==
  [x \in Nodes |-> IF own[x] # l THEN pos[x] ELSE IF x = head(l) THEN 0
                   ELSE IF x = tail(l) THEN pos[tail(l)] + 1 ELSE pos[tail(l)] - pos[x]]

LEMMA ReverseKeeps ==
  ASSUME NEW m, NEW own, NEW pos, Chained(m, own, pos), NEW l \in ListNames, ~list_empty(m, l)
  PROVE  Chained(list_reverse(m, l), own, ReversedPos(own, pos, l))
<1> DEFINE swap == [s \in [m : LinkMaps, e : Pointers] |->
                      IF s.e = tail(l) THEN s
                      ELSE [m |-> [n |-> [s.m.n EXCEPT ![s.e] = s.m.p[s.e]],
                                   p |-> [s.m.p EXCEPT ![s.e] = s.m.n[s.e]]],
                            e |-> s.m.n[s.e]]]
           k == Loop(swap, [m |-> m, e |-> list_begin(m, l)]).m
           h == head(l)
           t == tail(l)
           front == k.p[t]
           back == k.n[h]
           n == [k.n EXCEPT ![h] = front, ![back] = k.p[front]]
           p == [k.p EXCEPT ![t] = back, ![front] = k.n[back]]
           r == ReversedPos(own, pos, l)
           S == Passed(own, pos, l, t)
<1>1. list_reverse(m, l) = [n |-> n, p |-> p]
  BY DEF list_reverse
<1>2. k \in LinkMaps /\ SwappedIn(m, k, S)
  <2> DEFINE Swap == swap
  <2>1. Swap = swap
    OBVIOUS
  <2> HIDE DEF Swap
  <2>2. LET q == Loop(Swap, [m |-> m, e |-> list_begin(m, l)]).m
        IN  q \in LinkMaps /\ SwappedIn(m, q, Passed(own, pos, l, tail(l)))
    BY <2>1, ReverseSwaps
  <2> QED
    BY <2>2 DEF Swap
<1> HIDE DEF k, swap
<1>3. /\ h \in Nodes /\ t \in Nodes /\ h # t /\ own[h] = l /\ own[t] = l /\ l # NULL /\ m.p[h] = NULL /\ m.n[t] = NULL
      /\ h # NULL /\ t # NULL /\ \A x \in Nodes : pos[x] \in Nat
  <2>1. h \in Nodes /\ t \in Nodes /\ h # t /\ own[h] = l /\ own[t] = l /\ l # NULL /\ h # NULL /\ t # NULL
    BY ChainTyped, Ends
  <2> QED
    BY <2>1, LinkFacts
<1>4. S = {x \in Nodes : own[x] = l /\ x # h /\ x # t}
  <2>1. ASSUME NEW x \in Nodes, own[x] = l, x # t PROVE pos[x] < pos[t]
    BY <1>3, <2>1, TailLast
  <2>2. ~(pos[t] < pos[t])
    BY <1>3
  <2> QED
    BY <2>1, <2>2 DEF Passed
<1> HIDE DEF S, h, t
<1>5. /\ k.n \in [Nodes -> Pointers] /\ k.p \in [Nodes -> Pointers]
      /\ \A x \in Nodes : /\ k.n[x] = IF x \in S THEN m.p[x] ELSE m.n[x]
                          /\ k.p[x] = IF x \in S THEN m.n[x] ELSE m.p[x]
  BY <1>2 DEF LinkMaps, SwappedIn
<1>6. front = m.p[t] /\ back = m.n[h]
  BY <1>3, <1>4, <1>5
<1>7. /\ front \in S /\ m.n[front] = t /\ back \in S /\ m.p[back] = h
  <2>1. m.p[t] # NULL /\ m.n[h] # NULL
    BY <1>3, Interior DEF h, t
  <2>2. m.p[t] \in Nodes /\ m.n[m.p[t]] = t /\ own[m.p[t]] = l /\ pos[m.p[t]] < pos[t]
    BY <1>3, <2>1, LinkFacts
  <2>3. m.n[h] \in Nodes /\ m.p[m.n[h]] = h /\ own[m.n[h]] = l /\ pos[h] < pos[m.n[h]]
    BY <1>3, <2>1, LinkFacts
  <2>4. m.n[h] # t
    BY DEF list_empty, list_begin, h, t
  <2>5. m.p[t] # h
    BY <2>2, <2>4
  <2>6. m.p[t] # t /\ m.n[h] # h
    BY <1>3, <2>2, <2>3
  <2> QED
    BY <1>4, <1>6, <2>2, <2>3, <2>4, <2>5, <2>6
<1>8. k.p[front] = t /\ k.n[back] = h /\ front \in Nodes /\ back \in Nodes
  BY <1>4, <1>5, <1>7
<1> HIDE DEF front, back
<1>9. /\ n \in [Nodes -> Pointers] /\ p \in [Nodes -> Pointers]
      /\ \A x \in Nodes : /\ n[x] = IF x = back THEN t ELSE IF x = h THEN front ELSE IF x \in S THEN m.p[x] ELSE m.n[x]
                          /\ p[x] = IF x = front THEN h ELSE IF x = t THEN back ELSE IF x \in S THEN m.n[x] ELSE m.p[x]
  <2>1. front \in Pointers /\ back \in Pointers /\ h \in Pointers /\ t \in Pointers
    BY <1>3, <1>8, Ends
  <2> QED
    BY <1>3, <1>5, <1>8, <2>1
<1>10. /\ own \in [Nodes -> Owners] /\ r \in [Nodes -> Nat] /\ \A q \in ListNames : own[head(q)] = q /\ own[tail(q)] = q
       /\ r[h] = 0 /\ r[t] = pos[t] + 1
       /\ \A x \in Nodes : own[x] # l => r[x] = pos[x]
       /\ \A x \in S : r[x] = pos[t] - pos[x] /\ pos[x] < pos[t] /\ x \in Nodes /\ own[x] = l /\ x # h /\ x # t
  <2>1. \A x \in S : pos[x] < pos[t] /\ x \in Nodes /\ own[x] = l /\ x # h /\ x # t
    <3>1. ASSUME NEW x \in S PROVE pos[x] < pos[t]
      BY <1>3, <1>4, TailLast DEF t
    <3> QED
      BY <1>4, <3>1
  <2>2. ASSUME NEW x \in Nodes
        PROVE  /\ r[x] = IF own[x] # l THEN pos[x] ELSE IF x = h THEN 0 ELSE IF x = t THEN pos[t] + 1 ELSE pos[t] - pos[x]
               /\ r[x] \in Nat
    <3>1. r[x] = IF own[x] # l THEN pos[x] ELSE IF x = h THEN 0 ELSE IF x = t THEN pos[t] + 1 ELSE pos[t] - pos[x]
      BY DEF ReversedPos, h, t
    <3>2. own[x] = l /\ x # h /\ x # t => pos[x] < pos[t]
      BY <1>4, <2>1
    <3> HIDE DEF r
    <3> QED
      BY <1>3, <3>1, <3>2
  <2>3. r = [x \in Nodes |-> r[x]]
    BY DEF ReversedPos
  <2>4. r \in [Nodes -> Nat]
    BY <2>2, <2>3
  <2> HIDE DEF r
  <2> QED
    BY <1>3, <2>1, <2>2, <2>4, ChainTyped
<1> HIDE DEF n, p, r
<1>11. ASSUME NEW x \in Nodes PROVE LinksAt([n |-> n, p |-> p], own, r, x)
  <2>0. CASE own[x] = NULL
    BY <2>0 DEF LinksAt
  <2> SUFFICES ASSUME own[x] # NULL PROVE LinksAt([n |-> n, p |-> p], own, r, x)
    BY <2>0
  <2>1. /\ (m.n[x] = NULL <=> x = tail(own[x])) /\ (m.p[x] = NULL <=> x = head(own[x]))
        /\ m.n[x] # NULL => m.n[x] \in Nodes /\ m.p[m.n[x]] = x /\ own[m.n[x]] = own[x] /\ pos[x] < pos[m.n[x]]
        /\ m.p[x] # NULL => m.p[x] \in Nodes /\ m.n[m.p[x]] = x /\ own[m.p[x]] = own[x] /\ pos[m.p[x]] < pos[x]
    BY LinkFacts
  <2>2. CASE own[x] # l
    <3>1. x # h /\ x # t /\ x \notin S /\ x # front /\ x # back
      BY <1>3, <1>7, <1>10, <2>2
    <3>2. n[x] = m.n[x] /\ p[x] = m.p[x] /\ r[x] = pos[x]
      BY <1>9, <1>10, <2>2, <3>1
    <3>3. ASSUME NEW y \in Nodes, own[y] # l PROVE n[y] = m.n[y] /\ p[y] = m.p[y] /\ r[y] = pos[y]
      BY <1>3, <1>7, <1>9, <1>10, <3>3
    <3> QED
      BY <2>1, <2>2, <3>2, <3>3 DEF LinksAt
  <2>3. CASE x = h
    <3>1. n[x] = front /\ p[front] = h /\ own[front] = l /\ r[front] = pos[t] - pos[front] /\ pos[front] < pos[t]
      BY <1>7, <1>8, <1>9, <1>10, <2>3
    <3>2. r[x] < r[front]
      BY <1>3, <1>8, <1>10, <2>3, <3>1
    <3>3. p[x] = NULL /\ front # NULL
      BY <1>3, <1>7, <1>8, <1>9, <1>10, <2>3, Ends
    <3>4. x # tail(own[x]) /\ x = head(own[x])
      BY <1>3, <2>3 DEF h, t
    <3> QED
      BY <1>3, <2>3, <3>1, <3>2, <3>3, <3>4 DEF LinksAt
  <2>4. CASE x = t
    <3>1. p[x] = back /\ n[back] = t /\ back # NULL /\ own[back] = l
      BY <1>3, <1>7, <1>8, <1>9, <1>10, <2>4, Ends
    <3>2. n[x] = NULL
      BY <1>3, <1>7, <1>9, <1>10, <2>4
    <3>3. x = tail(own[x]) /\ x # head(own[x])
      BY <1>3, <2>4 DEF h, t
    <3> QED
      BY <1>3, <2>4, <3>1, <3>2, <3>3 DEF LinksAt
  <2>5. CASE x \in S
    <3>1. own[x] = l /\ x # h /\ x # t /\ r[x] = pos[t] - pos[x] /\ pos[x] < pos[t]
      BY <1>10, <2>5
    <3>2. x # head(own[x]) /\ x # tail(own[x]) /\ m.n[x] # NULL /\ m.p[x] # NULL
      BY <1>3, <2>1, <3>1 DEF h, t
    <3>3. n[x] # NULL /\ p[n[x]] = x /\ own[n[x]] = own[x] /\ r[x] < r[n[x]]
      <4>1. CASE x = back
        <5>1. n[x] = t /\ p[t] = back
          BY <1>3, <1>7, <1>9, <1>10, <4>1
        <5>2. r[x] < r[t]
          BY <1>3, <1>10, <3>1
        <5> QED
          BY <1>3, <3>1, <4>1, <5>1, <5>2
      <4>2. CASE x # back
        <5> DEFINE y == m.p[x]
        <5>1. n[x] = y /\ y # NULL
          BY <1>9, <2>5, <3>1, <3>2, <4>2
        <5>2. y \in Nodes /\ m.n[y] = x /\ own[y] = l /\ pos[y] < pos[x]
          BY <2>1, <3>1, <3>2
        <5>3. y # h /\ y # t
          BY <1>3, <1>6, <4>2, <5>2, Ends
        <5>4. y \in S /\ y # front
          BY <1>4, <1>7, <3>1, <5>2, <5>3
        <5>5. p[y] = x
          BY <1>9, <5>2, <5>3, <5>4
        <5>6. r[y] = pos[t] - pos[y]
          BY <1>10, <5>4
        <5>7. r[x] < r[y]
          BY <1>3, <3>1, <5>2, <5>6
        <5> HIDE DEF y
        <5> QED
          BY <3>1, <5>1, <5>2, <5>5, <5>7
      <4> QED
        BY <4>1, <4>2
    <3>4. p[x] # NULL /\ n[p[x]] = x /\ own[p[x]] = own[x]
      <4>1. CASE x = front
        <5>1. p[x] = h /\ n[h] = front
          BY <1>3, <1>7, <1>9, <1>10, <4>1
        <5> QED
          BY <1>3, <3>1, <4>1, <5>1
      <4>2. CASE x # front
        <5> DEFINE z == m.n[x]
        <5>1. p[x] = z /\ z # NULL
          BY <1>9, <2>5, <3>1, <3>2, <4>2
        <5>2. z \in Nodes /\ m.p[z] = x /\ own[z] = l
          BY <2>1, <3>1, <3>2
        <5>3. z # t /\ z # h
          BY <1>3, <1>6, <4>2, <5>2, Ends
        <5>4. z \in S /\ z # back
          BY <1>4, <1>7, <3>1, <5>2, <5>3
        <5>5. n[z] = x
          BY <1>9, <5>2, <5>3, <5>4
        <5> HIDE DEF z
        <5> QED
          BY <3>1, <5>1, <5>2, <5>5
      <4> QED
        BY <4>1, <4>2
    <3> QED
      BY <1>3, <3>1, <3>2, <3>3, <3>4 DEF LinksAt
  <2> QED
    BY <1>4, <2>2, <2>3, <2>4, <2>5
<1>12. Chained([n |-> n, p |-> p], own, r)
  BY <1>9, <1>10, <1>11, ChainOf
<1> QED
  BY <1>1, <1>12 DEF r

(***************************************************************************)
(* Reading a list along one of the links.                                  *)
(***************************************************************************)
WalkStates == [e : Pointers, met : Seq(Nodes)]
LastMet(x, f, i) == IF i = 0 THEN x ELSE f[i]

\* f is what the walk from x meets; every node that is met has a link on.
Walked(link, x, f) ==
  \A i \in 1 .. Len(f) : f[i] # NULL /\ f[i] = link[LastMet(x, f, i - 1)] /\ link[f[i]] # NULL

LEMMA WalkEnds ==
  ASSUME NEW link \in [Nodes -> Pointers], NEW C \in SUBSET Nodes, NEW x \in C,
         \A y \in C : link[y] # NULL => link[y] \in C,
         NEW left, \A y \in C : left[y] \in Nat /\ left[y] <= Cardinality(Nodes),
         \A y \in C : link[y] # NULL => left[link[y]] < left[y]
  PROVE  LET f == walk(link, x)
             e == LastMet(x, f, Len(f))
         IN  /\ f \in Seq(C) /\ Walked(link, x, f) /\ e \in C
             /\ link[e] = NULL \/ link[link[e]] = NULL
<1> DEFINE turn == [s \in [e : Pointers, met : Seq(Nodes)] |->
                      LET y == link[s.e]
                      IN  IF y = NULL \/ link[y] = NULL THEN s ELSE [e |-> y, met |-> Append(s.met, y)]]
           start == [e |-> x, met |-> <<>>]
           Right(e, f) == e \in C /\ f \in Seq(C) /\ Walked(link, x, f) /\ e = LastMet(x, f, Len(f))
           I == {s \in WalkStates : Right(s.e, s.met)}
           steps == [s \in I |-> left[s.e]]
<1>1. ASSUME NEW e, NEW f, Right(e, f) PROVE [e |-> e, met |-> f] \in I
  <2>1. e \in Pointers /\ f \in Seq(Nodes)
    BY <1>1, Ends
  <2>2. [e |-> e, met |-> f] \in WalkStates
    BY <2>1 DEF WalkStates
  <2> HIDE DEF Right
  <2> QED
    BY <1>1, <2>2
<1>2. start \in I
  <2>1. Right(x, <<>>)
    BY DEF Walked, LastMet
  <2> HIDE DEF Right, I
  <2> QED
    BY <1>1, <2>1
<1>3. ASSUME NEW s \in I
      PROVE  /\ turn[s] \in I /\ (turn[s] = s \/ steps[turn[s]] < steps[s])
             /\ steps[s] \in Nat /\ steps[s] <= Cardinality(Nodes)
             /\ turn[s] = s => link[s.e] = NULL \/ link[link[s.e]] = NULL
  <2> DEFINE e == s.e
             f == s.met
             y == link[e]
             after == [e |-> y, met |-> Append(f, y)]
  <2>1. s \in WalkStates /\ Right(e, f) /\ s = [e |-> e, met |-> f]
    <3> HIDE DEF Right
    <3> QED
      BY DEF WalkStates
  <2>2. turn[s] = IF y = NULL \/ link[y] = NULL THEN s ELSE after
    BY <2>1 DEF WalkStates
  <2>3. steps[s] = left[e] /\ left[e] \in Nat /\ left[e] <= Cardinality(Nodes)
    BY <2>1
  <2> HIDE DEF turn, steps
  <2>4. CASE y = NULL \/ link[y] = NULL
    BY <2>2, <2>3, <2>4
  <2>5. CASE ~(y = NULL \/ link[y] = NULL)
    <3>1. y \in C /\ left[y] < left[e] /\ y # NULL /\ link[y] # NULL
      BY <2>1, <2>5
    <3>2. Right(y, Append(f, y))
      <4> DEFINE g == Append(f, y)
      <4>1. f \in Seq(C) /\ e = LastMet(x, f, Len(f)) /\ Walked(link, x, f) /\ Len(f) \in Nat
        BY <2>1
      <4>2. g \in Seq(C) /\ Len(g) = Len(f) + 1 /\ g[Len(g)] = y /\ \A i \in 1 .. Len(f) : g[i] = f[i]
        <5> HIDE DEF f, y
        <5> QED
          BY <3>1, <4>1
      <4> HIDE DEF g, f, y
      <4>3. ASSUME NEW i \in 1 .. Len(g) PROVE g[i] # NULL /\ g[i] = link[LastMet(x, g, i - 1)] /\ link[g[i]] # NULL
        <5>1. CASE i = Len(g)
          <6>1. LastMet(x, g, i - 1) = LastMet(x, f, Len(f))
            BY <4>1, <4>2, <5>1 DEF LastMet
          <6> QED
            BY <3>1, <4>1, <4>2, <5>1, <6>1 DEF y
        <5>2. CASE i # Len(g)
          <6>1. i \in 1 .. Len(f) /\ (i - 1 = 0 \/ i - 1 \in 1 .. Len(f))
            BY <4>1, <4>2, <5>2
          <6>2. LastMet(x, g, i - 1) = LastMet(x, f, i - 1) /\ g[i] = f[i]
            BY <4>2, <6>1 DEF LastMet
          <6> QED
            BY <4>1, <6>1, <6>2 DEF Walked
        <5> QED
          BY <5>1, <5>2
      <4>4. y = LastMet(x, g, Len(g))
        BY <4>1, <4>2 DEF LastMet
      <4> QED
        BY <3>1, <4>2, <4>3, <4>4 DEF Walked, g
    <3>3. after \in I
      <4> HIDE DEF Right, I
      <4> QED
        BY <1>1, <3>2
    <3>4. steps[after] = left[y]
      BY <3>3 DEF steps
    <3>5. after # s
      <4>1. left[e] # left[y]
        BY <2>3, <3>1
      <4>2. after.e = y /\ s.e = e
        OBVIOUS
      <4> QED
        BY <4>1, <4>2
    <3> HIDE DEF after, I
    <3> QED
      BY <2>2, <2>3, <2>5, <3>1, <3>3, <3>4, <3>5
  <2> QED
    BY <2>4, <2>5
<1> HIDE DEF steps, I, turn
<1>4. Loop(turn, start) \in I /\ turn[Loop(turn, start)] = Loop(turn, start)
  <2> HIDE DEF start
  <2> QED
    BY <1>2, <1>3, LoopEnds
<1> DEFINE end == Loop(turn, start)
<1>5. walk(link, x) = end.met
  BY DEF walk, turn
<1> HIDE DEF end
<1>6. end \in I /\ (link[end.e] = NULL \/ link[link[end.e]] = NULL)
  BY <1>3, <1>4 DEF end
<1> QED
  BY <1>5, <1>6 DEF I

LEMMA ReadsBack ==
  ASSUME NEW m, NEW own, NEW pos, Chained(m, own, pos), NEW l \in ListNames
  PROVE  LET f == walk(m.n, head(l))
             b == walk(m.p, tail(l))
         IN  Len(b) = Len(f) /\ \A i \in 1 .. Len(f) : b[i] = f[Len(f) + 1 - i]
<1> DEFINE h == head(l)
           t == tail(l)
           f == walk(m.n, h)
           b == walk(m.p, t)
           C == {x \in Nodes : own[x] = l}
<1>1. /\ h \in C /\ t \in C /\ h # t /\ l # NULL /\ C \in SUBSET Nodes
      /\ m.n \in [Nodes -> Pointers] /\ m.p \in [Nodes -> Pointers] /\ NULL \notin Nodes
  BY ChainTyped, Ends
<1>2. \A x \in C : /\ x # t <=> m.n[x] # NULL
                   /\ x # h <=> m.p[x] # NULL
                   /\ m.n[x] # NULL => m.n[x] \in C /\ m.p[m.n[x]] = x
                   /\ m.p[x] # NULL => m.p[x] \in C /\ m.n[m.p[x]] = x
  BY <1>1, LinkFacts
<1>3. LET e == LastMet(h, f, Len(f))
      IN  f \in Seq(C) /\ Walked(m.n, h, f) /\ e \in C /\ (m.n[e] = NULL \/ m.n[m.n[e]] = NULL)
  <2> DEFINE left == [y \in Nodes |-> Cardinality(Behind(own, pos, y))]
  <2>1. \A y \in C : left[y] \in Nat /\ left[y] <= Cardinality(Nodes) /\ (m.n[y] # NULL => left[m.n[y]] < left[y])
    <3>1. ASSUME NEW y \in C
          PROVE  left[y] \in Nat /\ left[y] <= Cardinality(Nodes) /\ (m.n[y] # NULL => left[m.n[y]] < left[y])
      BY <1>1, <1>2, StepsLeft
    <3> QED
      BY <3>1
  <2> HIDE DEF left, C, h
  <2>2. \A y \in C : m.n[y] # NULL => m.n[y] \in C
    BY <1>2
  <2>3. \A y \in C : left[y] \in Nat /\ left[y] <= Cardinality(Nodes)
    BY <2>1
  <2>4. \A y \in C : m.n[y] # NULL => left[m.n[y]] < left[y]
    BY <2>1
  <2> QED
    BY <1>1, <2>2, <2>3, <2>4, WalkEnds
<1>4. LET e == LastMet(t, b, Len(b))
      IN  b \in Seq(C) /\ Walked(m.p, t, b) /\ e \in C /\ (m.p[e] = NULL \/ m.p[m.p[e]] = NULL)
  <2> DEFINE left == [y \in Nodes |-> Cardinality(Ahead(own, pos, y))]
  <2>1. \A y \in C : left[y] \in Nat /\ left[y] <= Cardinality(Nodes) /\ (m.p[y] # NULL => left[m.p[y]] < left[y])
    <3>1. ASSUME NEW y \in C
          PROVE  left[y] \in Nat /\ left[y] <= Cardinality(Nodes) /\ (m.p[y] # NULL => left[m.p[y]] < left[y])
      BY <1>1, <1>2, StepsLeft
    <3> QED
      BY <3>1
  <2> HIDE DEF left, C, t
  <2>2. \A y \in C : m.p[y] # NULL => m.p[y] \in C
    BY <1>2
  <2>3. \A y \in C : left[y] \in Nat /\ left[y] <= Cardinality(Nodes)
    BY <2>1
  <2>4. \A y \in C : m.p[y] # NULL => left[m.p[y]] < left[y]
    BY <2>1
  <2> QED
    BY <1>1, <2>2, <2>3, <2>4, WalkEnds
<1> HIDE DEF f, b, C, h, t
<1>5. /\ Len(f) \in Nat /\ Len(b) \in Nat
      /\ \A i \in 1 .. Len(f) : f[i] \in C /\ f[i] = m.n[LastMet(h, f, i - 1)] /\ m.n[f[i]] # NULL
      /\ \A i \in 1 .. Len(b) : b[i] \in C /\ b[i] = m.p[LastMet(t, b, i - 1)] /\ m.p[b[i]] # NULL
  BY <1>3, <1>4 DEF Walked
<1>6. \A i \in 1 .. Len(f) + 1 : LastMet(h, f, i - 1) \in C /\ m.n[LastMet(h, f, i - 1)] # NULL
  BY <1>1, <1>2, <1>5 DEF LastMet
<1>7. m.n[LastMet(h, f, Len(f))] = t
  <2> DEFINE e == LastMet(h, f, Len(f))
  <2>1. e \in C /\ m.n[e] # NULL
    <3>1. Len(f) + 1 \in 1 .. Len(f) + 1 /\ (Len(f) + 1) - 1 = Len(f)
      BY <1>5
    <3> QED
      BY <1>6, <3>1
  <2>2. m.n[m.n[e]] = NULL
    BY <1>3, <2>1
  <2> HIDE DEF e
  <2> QED
    BY <1>2, <2>1, <2>2 DEF e
\* Each node that is read forwards leads back to the one in front of it.
<1>8. /\ \A i \in 1 .. Len(f) : m.p[f[i]] = LastMet(h, f, i - 1)
      /\ m.p[t] = LastMet(h, f, Len(f))
  <2>1. ASSUME NEW i \in 1 .. Len(f) PROVE m.p[f[i]] = LastMet(h, f, i - 1)
    <3>1. i \in 1 .. Len(f) + 1
      BY <1>5
    <3> QED
      BY <1>2, <1>5, <1>6, <3>1
  <2>2. m.p[t] = LastMet(h, f, Len(f))
    <3>1. Len(f) + 1 \in 1 .. Len(f) + 1 /\ (Len(f) + 1) - 1 = Len(f)
      BY <1>5
    <3> QED
      BY <1>2, <1>6, <1>7, <3>1
  <2> QED
    BY <2>1, <2>2
\* What is read backwards, as far as both readings go.
<1> DEFINE Match(i) == i <= Len(f) + 1 => b[i] = LastMet(h, f, Len(f) + 1 - i)
           Odd == {i \in 1 .. Len(b) : ~Match(i)}
<1>9. ASSUME Odd # {} PROVE FALSE
  <2>1. Odd \in SUBSET Nat
    OBVIOUS
  <2>2. PICK i \in Odd : \A j \in Odd : i <= j
    <3> HIDE DEF Odd
    <3> QED
      BY <1>9, <2>1, LeastNumber
  <2>3. i \in 1 .. Len(b) /\ i <= Len(f) + 1 /\ b[i] # LastMet(h, f, Len(f) + 1 - i) /\ i \in Nat
    OBVIOUS
  <2>4. b[i] = m.p[LastMet(t, b, i - 1)]
    BY <1>5, <2>3
  <2>5. CASE i = 1
    BY <1>5, <1>8, <2>3, <2>4, <2>5 DEF LastMet
  <2>6. CASE i # 1
    <3>1. i - 1 \in 1 .. Len(b) /\ i - 1 <= Len(f) + 1 /\ i - 1 # 0 /\ i - 1 \notin Odd
      <4> HIDE DEF Odd
      <4>1. i - 1 \in 1 .. Len(b) /\ i - 1 <= Len(f) + 1 /\ i - 1 # 0
        BY <1>5, <2>3, <2>6
      <4>2. i - 1 \in Int /\ ~(i <= i - 1)
        BY <2>3
      <4> QED
        BY <2>2, <4>1, <4>2
    <3>2. b[i - 1] = LastMet(h, f, Len(f) + 1 - (i - 1))
      BY <3>1
    <3> DEFINE j == Len(f) + 1 - (i - 1)
    <3>3. j \in 1 .. Len(f) /\ j - 1 = Len(f) + 1 - i /\ j # 0
      BY <1>5, <2>3, <2>6
    <3>4. b[i - 1] = f[j]
      BY <3>2, <3>3 DEF LastMet
    <3> HIDE DEF j
    <3>5. m.p[f[j]] = LastMet(h, f, j - 1)
      BY <1>8, <3>3
    <3>6. b[i] = m.p[b[i - 1]]
      BY <2>4, <3>1 DEF LastMet
    <3> QED
      BY <2>3, <3>3, <3>4, <3>5, <3>6
  <2> QED
    BY <2>5, <2>6
<1>10. \A i \in 1 .. Len(b) : i <= Len(f) + 1 => b[i] = LastMet(h, f, Len(f) + 1 - i)
  BY <1>9
<1> HIDE DEF Match, Odd
<1>11. ~(Len(b) > Len(f))
  <2> SUFFICES ASSUME Len(b) > Len(f) PROVE FALSE
    OBVIOUS
  <2> DEFINE i == Len(f) + 1
  <2>1. i \in 1 .. Len(b) /\ i <= Len(f) + 1 /\ Len(f) + 1 - i = 0
    BY <1>5
  <2> HIDE DEF i
  <2>2. b[i] = h
    BY <1>10, <2>1 DEF LastMet
  <2> QED
    BY <1>1, <1>2, <1>5, <2>1, <2>2
<1>12. ~(Len(b) < Len(f))
  <2> SUFFICES ASSUME Len(b) < Len(f) PROVE FALSE
    OBVIOUS
  <2> DEFINE e == LastMet(t, b, Len(b))
             j == Len(f) - Len(b)
  <2>1. j \in 1 .. Len(f) /\ j # 0 /\ j \in Nat
    BY <1>5
  <2>2. m.p[e] = f[j]
    <3>1. CASE Len(b) = 0
      BY <1>5, <1>8, <2>1, <3>1 DEF LastMet
    <3>2. CASE Len(b) # 0
      <4>1. Len(b) \in 1 .. Len(b) /\ Len(b) <= Len(f) + 1 /\ Len(f) + 1 - Len(b) = j + 1 /\ j + 1 # 0
        BY <1>5, <3>2
      <4>2. b[Len(b)] = f[j + 1]
        BY <1>10, <4>1 DEF LastMet
      <4>3. j + 1 \in 1 .. Len(f) /\ (j + 1) - 1 = j
        BY <1>5, <2>1, <3>2
      <4>4. e = f[j + 1]
        BY <3>2, <4>2 DEF LastMet
      <4> HIDE DEF e, j
      <4>5. m.p[f[j + 1]] = LastMet(h, f, j)
        BY <1>8, <4>3
      <4> QED
        BY <2>1, <4>4, <4>5 DEF LastMet
    <3> QED
      BY <3>1, <3>2
  <2> HIDE DEF e, j
  <2>3. f[j] \in C /\ f[j] # NULL
    BY <1>1, <1>5, <2>1
  <2>4. m.p[f[j]] # NULL
    <3>1. m.p[f[j]] = LastMet(h, f, j - 1) /\ j \in 1 .. Len(f) + 1
      BY <1>5, <1>8, <2>1
    <3>2. LastMet(h, f, j - 1) \in C
      BY <1>6, <3>1
    <3> QED
      BY <1>1, <3>1, <3>2
  <2> QED
    BY <1>4, <2>2, <2>3, <2>4 DEF e
<1>13. Len(b) = Len(f)
  BY <1>5, <1>11, <1>12
<1>14. ASSUME NEW i \in 1 .. Len(f) PROVE b[i] = f[Len(f) + 1 - i]
  <2>1. i \in 1 .. Len(b) /\ i <= Len(f) + 1 /\ Len(f) + 1 - i # 0
    BY <1>5, <1>13
  <2> QED
    BY <1>10, <2>1 DEF LastMet
<1> QED
  BY <1>13, <1>14 DEF f, b, h, t

(***************************************************************************)
(* The calls.                                                              *)
(***************************************************************************)
LEMMA ReturnKeeps ==
  ASSUME NEW k, NEW own, NEW pos, Chained(k, own, pos), NEW c, ListReturn(k, c)
  PROVE  ChainsInv'
<1>1. next' = k.n /\ prev' = k.p /\ k.n \in [Nodes -> Pointers] /\ k.p \in [Nodes -> Pointers] /\ k = [n |-> k.n, p |-> k.p]
  BY ChainTyped DEF ListReturn
<1>2. Links' = k
  BY <1>1 DEF Links
<1>3. Chained(Links', own, pos)
  BY <1>2
<1> QED
  BY <1>1, <1>3 DEF ChainsInv

LEMMA OnListIs ==
  ASSUME NEW own, NEW pos, Chained(Links, own, pos), NEW l \in ListNames
  PROVE  \A x : x \in OnList(l) <=> OnChain(own, l, x)
<1>1. head(l) \in Nodes /\ own[head(l)] = l /\ l # NULL
  BY ChainTyped, Ends
<1>2. OnList(l) = Behind(own, pos, head(l))
  BY <1>1, NodesAfter DEF OnList
<1>3. ASSUME NEW x \in Nodes, own[x] = l PROVE x # head(l) <=> pos[head(l)] < pos[x]
  <2>1. x # head(l) => pos[head(l)] < pos[x]
    BY <1>1, <1>3, HeadFirst
  <2>2. pos[head(l)] \in Nat
    BY <1>1, LinkFacts
  <2> QED
    BY <2>1, <2>2
<1> QED
  BY <1>1, <1>2, <1>3 DEF Behind, OnChain

LEMMA LooseIs ==
  ASSUME NEW own, NEW pos, Chained(Links, own, pos), NEW e \in ListElems, Loose(e)
  PROVE  own[e] = NULL
<1>1. ASSUME own[e] # NULL PROVE FALSE
  <2>1. e \in Nodes
    BY Ends
  <2>2. own[e] \in ListNames /\ e # head(own[e])
    BY <1>1, <2>1, LinkFacts, Ends
  <2>3. e \in OnList(own[e])
    BY <2>1, <2>2, OnListIs DEF OnChain
  <2> QED
    BY <2>2, <2>3 DEF Loose
<1> QED
  BY <1>1

\* An element goes in front of a place on a list.
LEMMA InsertBefore ==
  ASSUME NEW own, NEW pos, Chained(Links, own, pos), NEW l \in ListNames, NEW before, OnChain(own, l, before),
         NEW e \in ListElems, Loose(e), NEW c, ListReturn(list_insert(Links, before, e), c)
  PROVE  ChainsInv'
<1>1. own[e] = NULL
  BY LooseIs
<1>2. before \in Nodes /\ own[before] # NULL /\ before # head(own[before])
  BY Ends DEF OnChain
<1>3. Chained(list_insert(Links, before, e), InsertedOwn(own, before, e), InsertedPos(pos, before, e))
  BY <1>1, <1>2, InsertKeeps
<1> QED
  BY <1>3, ReturnKeeps

LEMMA RemoveOne ==
  ASSUME NEW own, NEW pos, Chained(Links, own, pos), NEW l \in ListNames, NEW e, OnChain(own, l, e), e # tail(l),
         NEW c, ListReturn(list_remove(Links, e), c)
  PROVE  ChainsInv'
<1>1. e \in ListElems /\ own[e] # NULL
  BY Onward, Ends DEF OnChain
<1>2. Chained(list_remove(Links, e), [own EXCEPT ![e] = NULL], pos)
  BY <1>1, RemoveKeeps
<1> QED
  BY <1>2, ReturnKeeps

LEMMA InsertStep ==
  ASSUME ChainsInv, NEW l \in ListNames, NEW before, NEW e \in ListElems, ListInsert(l, before, e)
  PROVE  ChainsInv'
<1>1. PICK own, pos : Chained(Links, own, pos)
  BY DEF ChainsInv
<1>2. OnChain(own, l, before)
  BY <1>1, OnListIs DEF ListInsert
<1> QED
  BY <1>1, <1>2, InsertBefore DEF ListInsert

LEMMA OrderedStep ==
  ASSUME ChainsInv, NEW l \in ListNames, NEW e \in ListElems, ListInsertOrdered(l, e)
  PROVE  ChainsInv'
<1>1. PICK own, pos : Chained(Links, own, pos)
  BY DEF ChainsInv
<1>2. OnChain(own, l, ordered_before(Links, l, e))
  BY <1>1, OrderedPlace
<1> QED
  BY <1>1, <1>2, InsertBefore DEF ListInsertOrdered

LEMMA RemoveStep ==
  ASSUME ChainsInv, NEW l \in ListNames, NEW e \in ListElems, ListRemove(l, e)
  PROVE  ChainsInv'
<1>1. PICK own, pos : Chained(Links, own, pos)
  BY DEF ChainsInv
<1>2. OnChain(own, l, e) /\ e # tail(l)
  BY <1>1, OnListIs DEF ListRemove
<1> QED
  BY <1>1, <1>2, RemoveOne DEF ListRemove

LEMMA PopStep ==
  ASSUME ChainsInv, NEW l \in ListNames, PopFront(l) \/ PopBack(l)
  PROVE  ChainsInv'
<1>1. PICK own, pos : Chained(Links, own, pos)
  BY DEF ChainsInv
<1>2. /\ head(l) \in Nodes /\ tail(l) \in Nodes /\ own[head(l)] = l /\ own[tail(l)] = l /\ l # NULL
      /\ head(l) # tail(l) /\ Links.n = next /\ Links.p = prev
  BY <1>1, ChainTyped, Ends DEF Links
<1>3. CASE PopFront(l)
  <2>1. OnChain(own, l, next[head(l)]) /\ next[head(l)] # tail(l)
    BY <1>1, <1>2, <1>3, Begin DEF PopFront, list_empty, list_begin
  <2> QED
    BY <1>1, <1>3, <2>1, RemoveOne DEF PopFront
<1>4. CASE PopBack(l)
  <2>1. prev[tail(l)] # NULL
    BY <1>1, <1>2, Interior
  <2>2. prev[tail(l)] \in Nodes /\ next[prev[tail(l)]] = tail(l) /\ own[prev[tail(l)]] = l
    BY <1>1, <1>2, <2>1, LinkFacts
  <2>3. prev[tail(l)] # head(l)
    BY <1>2, <1>4, <2>2 DEF PopBack, list_empty, list_begin
  <2>4. prev[tail(l)] # tail(l)
    <3>1. next[tail(l)] = NULL /\ tail(l) # NULL
      BY <1>1, <1>2, LinkFacts, Ends
    <3> QED
      BY <2>2, <3>1
  <2> QED
    BY <1>1, <1>4, <2>2, <2>3, <2>4, RemoveOne DEF PopBack, OnChain
<1> QED
  BY <1>3, <1>4

LEMMA SpliceStep ==
  ASSUME ChainsInv, NEW l \in ListNames, NEW from \in ListNames, NEW before, NEW first, NEW last,
         ListSplice(l, before, from, first, last)
  PROVE  ChainsInv'
<1>1. PICK own, pos : Chained(Links, own, pos)
  BY DEF ChainsInv
<1> DEFINE after(x) == {x} \union nodes_after(Links, x)
<1>2. /\ before \in OnList(l) /\ first \in OnList(from) /\ last \in after(first)
      /\ before \in after(first) => before \in after(last)
  BY DEF ListSplice
<1>3. PICK c : ListReturn(list_splice(Links, before, first, last), c)
  BY DEF ListSplice
<1>4. CASE first = last
  BY <1>1, <1>3, <1>4, ReturnKeeps DEF list_splice
<1>5. CASE first # last
  <2>1. /\ before \in Nodes /\ own[before] # NULL /\ before # head(own[before])
        /\ first \in Nodes /\ own[first] # NULL /\ first # head(own[first])
    <3>1. OnChain(own, l, before) /\ OnChain(own, from, first)
      BY <1>1, <1>2, OnListIs
    <3> QED
      BY <3>1, Ends DEF OnChain
  <2>2. nodes_after(Links, first) = Behind(own, pos, first)
    BY <1>1, <2>1, NodesAfter
  <2>3. last \in Nodes /\ own[last] = own[first] /\ pos[first] < pos[last] /\ Together(own, first, last)
    BY <1>2, <1>5, <2>1, <2>2 DEF Behind, Together
  <2>4. nodes_after(Links, last) = Behind(own, pos, last)
    BY <1>1, <2>1, <2>3, NodesAfter
  <2>5. ASSUME before \in Moving(own, pos, first, last) PROVE FALSE
    <3>1. own[before] = own[first] /\ pos[first] <= pos[before] /\ pos[before] < pos[last]
      BY <2>5 DEF Moving
    <3>2. pos[first] \in Nat /\ pos[before] \in Nat /\ pos[last] \in Nat
      BY <1>1, <2>1, <2>3, LinkFacts
    <3>3. pos[first] = pos[before] => before = first
      BY <1>1, <2>1, <3>1, NoGap DEF Together
    <3>4. before \in after(first)
      BY <2>1, <2>2, <3>1, <3>2, <3>3 DEF Behind
    <3>5. before = last \/ pos[last] < pos[before]
      BY <1>2, <2>4, <3>4 DEF Behind
    <3> QED
      BY <3>1, <3>2, <3>5
  <2>6. Chained(list_splice(Links, before, first, last),
                SplicedOwn(own, pos, before, first, last), SplicedPos(own, pos, before, first, last))
    BY <1>1, <2>1, <2>3, <2>5, SpliceKeeps
  <2> QED
    BY <1>3, <2>6, ReturnKeeps
<1> QED
  BY <1>4, <1>5

LEMMA OrderSteps ==
  ASSUME ChainsInv, NEW l \in ListNames, ListReverse(l) \/ ListSort(l)
  PROVE  ChainsInv'
<1>1. PICK own, pos : Chained(Links, own, pos)
  BY DEF ChainsInv
<1>2. CASE ListReverse(l)
  <2>1. list_empty(Links, l) => list_reverse(Links, l) = Links
    BY DEF list_reverse
  <2>2. \E r : Chained(list_reverse(Links, l), own, r)
    <3>1. CASE list_empty(Links, l)
      BY <1>1, <2>1, <3>1
    <3>2. CASE ~list_empty(Links, l)
      <4>1. Chained(list_reverse(Links, l), own, ReversedPos(own, pos, l))
        BY <1>1, <3>2, ReverseKeeps
      <4> QED
        BY <4>1
    <3> QED
      BY <3>1, <3>2
  <2> QED
    BY <1>2, <2>2, ReturnKeeps DEF ListReverse
<1>3. CASE ListSort(l)
  <2>1. PICK r : Chained(list_sort(Links, l), own, r)
    BY <1>1, SortKeeps
  <2> QED
    BY <1>3, <2>1, ReturnKeeps DEF ListSort
<1> QED
  BY <1>2, <1>3

LEMMA UniqueStep ==
  ASSUME ChainsInv, NEW l \in ListNames, NEW d \in ListNames \union {NULL}, ListUnique(l, d)
  PROVE  ChainsInv'
<1>1. PICK own, pos : Chained(Links, own, pos)
  BY DEF ChainsInv
<1>2. \E o, r : Chained(IF list_empty(Links, l) THEN Links ELSE unique(Links, l, d), o, r)
  <2>1. CASE list_empty(Links, l)
    BY <1>1, <2>1
  <2>2. CASE ~list_empty(Links, l)
    <3>1. PICK o, r : Chained(unique(Links, l, d), o, r)
      BY <1>1, <2>2, UniqueKeeps DEF ListUnique
    <3> QED
      BY <2>2, <3>1
  <2> QED
    BY <2>1, <2>2
<1>3. PICK o, r : Chained(IF list_empty(Links, l) THEN Links ELSE unique(Links, l, d), o, r)
  BY <1>2
<1> QED
  BY <1>3, ReturnKeeps DEF ListUnique

LEMMA ReadSteps ==
  ASSUME ChainsInv, NEW l \in ListNames, ListMax(l) \/ ListMin(l) \/ ListSize(l)
  PROVE  ChainsInv'
<1>1. PICK own, pos : Chained(Links, own, pos)
  BY DEF ChainsInv
<1>2. PICK c : ListReturn(Links, c)
  BY DEF ListMax, ListMin, ListSize
<1> QED
  BY <1>1, <1>2, ReturnKeeps

LEMMA ListsInitial == ListsInit => ChainsInv
<1> SUFFICES ASSUME ListsInit PROVE ChainsInv
  OBVIOUS
<1> DEFINE own == [x \in Nodes |-> IF \E l \in ListNames : x = head(l) \/ x = tail(l) THEN x[2] ELSE NULL]
           pos == [x \in Nodes |-> IF \E l \in ListNames : x = tail(l) THEN 1 ELSE 0]
<1>1. \A l : head(l)[2] = l /\ tail(l)[2] = l
  BY DEF head, tail
<1>2. /\ \A l \in ListNames : /\ head(l) \in Nodes /\ tail(l) \in Nodes /\ l # NULL /\ head(l) # NULL /\ tail(l) # NULL
                              /\ head(l) \in Pointers /\ tail(l) \in Pointers
      /\ \A k, l : (head(k) = head(l) => k = l) /\ (tail(k) = tail(l) => k = l) /\ head(k) # tail(l)
      /\ NULL \in Pointers
  BY Ends DEF Pointers
<1>3. \A x \in Nodes : /\ next[x] = IF \E l \in ListNames : x = head(l) THEN tail(x[2]) ELSE NULL
                       /\ prev[x] = IF \E l \in ListNames : x = tail(l) THEN head(x[2]) ELSE NULL
  BY DEF ListsInit
<1>4. /\ \A x \in Nodes : own[x] = IF \E l \in ListNames : x = head(l) \/ x = tail(l) THEN x[2] ELSE NULL
      /\ \A x \in Nodes : pos[x] = IF \E l \in ListNames : x = tail(l) THEN 1 ELSE 0
  OBVIOUS
<1>5. /\ next \in [Nodes -> Pointers] /\ prev \in [Nodes -> Pointers]
      /\ own \in [Nodes -> Owners] /\ pos \in [Nodes -> Nat]
  <2>1. \A x \in Nodes : next[x] \in Pointers /\ prev[x] \in Pointers
    BY <1>1, <1>2, <1>3
  <2>2. \A x \in Nodes : own[x] \in Owners
    BY <1>1, <1>2, <1>4 DEF Owners
  <2>3. next = [x \in Nodes |-> next[x]] /\ prev = [x \in Nodes |-> prev[x]]
    BY DEF ListsInit
  <2> QED
    BY <2>1, <2>2, <2>3
<1> HIDE DEF own, pos
<1>6. ASSUME NEW l \in ListNames
      PROVE  /\ own[head(l)] = l /\ own[tail(l)] = l /\ pos[head(l)] = 0 /\ pos[tail(l)] = 1
             /\ next[head(l)] = tail(l) /\ prev[tail(l)] = head(l) /\ prev[head(l)] = NULL /\ next[tail(l)] = NULL
  BY <1>1, <1>2, <1>3, <1>4
<1>7. ASSUME NEW x \in Nodes PROVE LinksAt(Links, own, pos, x)
  <2>1. Links.n = next /\ Links.p = prev
    BY DEF Links
  <2>2. CASE \E l \in ListNames : x = head(l)
    BY <1>2, <1>6, <2>1, <2>2 DEF LinksAt
  <2>3. CASE \E l \in ListNames : x = tail(l)
    BY <1>2, <1>6, <2>1, <2>3 DEF LinksAt
  <2>4. CASE ~(\E l \in ListNames : x = head(l) \/ x = tail(l))
    BY <1>3, <1>4, <2>1, <2>4 DEF LinksAt
  <2> QED
    BY <2>2, <2>3, <2>4
<1>8. Chained(Links, own, pos)
  BY <1>5, <1>6, <1>7, ChainOf DEF Links
<1> QED
  BY <1>5, <1>8 DEF ChainsInv

LEMMA ListsStep == ChainsInv /\ [ListsNext]_listVars => ChainsInv'
<1> SUFFICES ASSUME ChainsInv, [ListsNext]_listVars PROVE ChainsInv'
  OBVIOUS
<1>1. CASE UNCHANGED <<next, prev>>
  BY <1>1 DEF ChainsInv, Links
<1>2. CASE GoOn
  BY <1>1, <1>2 DEF GoOn
<1>3. CASE UNCHANGED listVars
  BY <1>1, <1>3 DEF listVars
<1>4. ASSUME NEW l \in ListNames, NEW before \in OnList(l), NEW e \in ListElems, ListInsert(l, before, e)
      PROVE  ChainsInv'
  BY <1>4, InsertStep
<1>5. ASSUME NEW l \in ListNames, NEW e \in ListElems, ListRemove(l, e) \/ ListInsertOrdered(l, e)
      PROVE  ChainsInv'
  BY <1>5, RemoveStep, OrderedStep
<1>6. ASSUME NEW l \in ListNames, NEW from \in ListNames, NEW before, NEW first, NEW last,
             ListSplice(l, before, from, first, last)
      PROVE  ChainsInv'
  BY <1>6, SpliceStep
<1>7. ASSUME NEW l \in ListNames, NEW d \in ListNames \union {NULL}, ListUnique(l, d)
      PROVE  ChainsInv'
  BY <1>7, UniqueStep
<1>8. ASSUME NEW l \in ListNames, PopFront(l) \/ PopBack(l)
      PROVE  ChainsInv'
  BY <1>8, PopStep
<1>9. ASSUME NEW l \in ListNames, ListReverse(l) \/ ListSort(l)
      PROVE  ChainsInv'
  BY <1>9, OrderSteps
<1>10. ASSUME NEW l \in ListNames, ListMax(l) \/ ListMin(l) \/ ListSize(l)
       PROVE  ChainsInv'
  BY <1>10, ReadSteps
<1> QED
  BY <1>2, <1>3, <1>4, <1>5, <1>6, <1>7, <1>8, <1>9, <1>10 DEF ListsNext

LEMMA ChainsAreWhole == ChainsInv => LinksWhole
<1> SUFFICES ASSUME ChainsInv, NEW l \in ListNames
             PROVE  LET n == Len(forward[l])
                    IN  Len(backward[l]) = n /\ \A i \in 1 .. n : backward[l][i] = forward[l][n + 1 - i]
  BY DEF LinksWhole
<1>1. PICK own, pos : Chained(Links, own, pos)
  BY DEF ChainsInv
<1>2. forward[l] = walk(Links.n, head(l)) /\ backward[l] = walk(Links.p, tail(l))
  BY DEF forward, backward, Links
<1> QED
  BY <1>1, <1>2, ReadsBack

\* A list read backwards is the list read forwards in reverse, whatever calls of list.c were made,
\* in whatever order: for any elements, lists and keys.
THEOREM LinksWholeHolds == ListsSpec => []LinksWhole
<1> QED
  BY ListsInitial, ListsStep, ChainsAreWhole, PTL DEF ListsSpec
-----------------------------------------------------------------------------
(***************************************************************************)
(* Hash tables.  In a sound table every element is in the bucket that its  *)
(* hash says, and no two elements of a bucket are equal: so no two of the  *)
(* table are.  The buckets are a power of 2, so that the mask of           *)
(* find_bucket is a remainder.                                             *)
(***************************************************************************)
TableRight(b) ==
  /\ b \in Tables /\ Len(b) # 0
  /\ \A i \in 1 .. Len(b) : \A k \in 1 .. Len(b[i]) : find_bucket(b, b[i][k]) = i
  /\ \A i \in 1 .. Len(b) : \A j, k \in 1 .. Len(b[i]) : HKey(b[i][j]) = HKey(b[i][k]) => j = k

\* What an iteration has met when it is at place c.
Met(b, c) ==
  {x \in InTable(b) : \E i \in 1 .. Len(b) : \E k \in 1 .. Len(b[i]) :
                        x = b[i][k] /\ (i < c.bucket \/ (i = c.bucket /\ k <= c.at))}

CursorRight ==
  cursor # <<>> =>
    /\ cursor \in [bucket : 1 .. Len(buckets), at : Nat]
    /\ cursor.at <= Len(buckets[cursor.bucket])
    /\ visited = Met(buckets, cursor)

HashInv ==
  /\ TableRight(buckets) /\ is_power_of_2(Len(buckets))
  /\ IsFiniteSet(InTable(buckets)) /\ elem_cnt = Cardinality(InTable(buckets))
  /\ CursorRight
-----------------------------------------------------------------------------
(***************************************************************************)
(* Folds.                                                                  *)
(***************************************************************************)
\* f is the function of the first n values.
Folds(f, turn, x, n) == f = [k \in 0 .. n |-> IF k = 0 THEN x ELSE turn[k][f[k - 1]]]

LEMMA FoldExists ==
  ASSUME NEW turn, NEW x, NEW n \in Nat
  PROVE  \E f : Folds(f, turn, x, n)
<1> DEFINE Turn(f, k) == IF k = 0 THEN x ELSE turn[k][f[k - 1]]
           Can(m) == \E f : f = [k \in 0 .. m |-> Turn(f, k)]
           Bad == {m \in Nat : ~Can(m)}
<1>1. ASSUME Bad # {} PROVE FALSE
  <2>1. PICK m \in Bad : \A k \in Bad : m <= k
    <3>1. Bad \in SUBSET Nat
      OBVIOUS
    <3> HIDE DEF Bad
    <3> QED
      BY <1>1, <3>1, LeastNumber
  <2>2. m \in Nat /\ ~Can(m) /\ \A k \in Nat : k < m => Can(k)
    <3> HIDE DEF Can
    <3> QED
      BY <2>1
  <2>3. CASE m = 0
    <3>1. [k \in 0 .. 0 |-> x] = [k \in 0 .. 0 |-> Turn([j \in 0 .. 0 |-> x], k)]
      OBVIOUS
    <3> QED
      BY <2>2, <2>3, <3>1
  <2>4. CASE m # 0
    <3>1. Can(m - 1)
      <4> HIDE DEF Can
      <4> QED
        BY <2>2, <2>4
    <3>2. PICK g : g = [k \in 0 .. m - 1 |-> Turn(g, k)]
      BY <3>1
    <3> DEFINE f == [k \in 0 .. m |-> IF k = m THEN Turn(g, m) ELSE g[k]]
    <3>3. ASSUME NEW k \in 0 .. m PROVE f[k] = Turn(f, k)
      <4>1. k # 0 => k - 1 \in 0 .. m - 1 /\ k - 1 \in 0 .. m /\ k - 1 # m
        BY <2>2
      <4>2. Turn(f, k) = Turn(g, k)
        BY <4>1
      <4>3. k # m => k \in 0 .. m - 1
        BY <2>2
      <4>4. k # m => g[k] = Turn(g, k)
        BY <3>2, <4>3
      <4> HIDE DEF Turn
      <4> QED
        BY <4>2, <4>4
    <3>4. f = [k \in 0 .. m |-> Turn(f, k)]
      BY <3>3
    <3> HIDE DEF f, Turn
    <3> QED
      BY <2>2, <3>4
  <2> QED
    BY <2>3, <2>4
<1> QED
  BY <1>1 DEF Folds

LEMMA FoldTurns ==
  ASSUME NEW turn, NEW x, NEW n \in Nat
  PROVE  \E at : /\ at[0] = x /\ Fold(turn, x, n) = at[n]
                 /\ \A k \in 1 .. n : at[k] = turn[k][at[k - 1]]
<1> DEFINE at == CHOOSE f : Folds(f, turn, x, n)
<1>1. \E f : Folds(f, turn, x, n)
  BY FoldExists
<1>2. Folds(at, turn, x, n)
  BY <1>1
<1>3. Fold(turn, x, n) = at[n]
  BY DEF Fold, Folds
<1> HIDE DEF at
<1>4. at[0] = x /\ \A k \in 1 .. n : at[k] = turn[k][at[k - 1]]
  BY <1>2 DEF Folds
<1> QED
  BY <1>3, <1>4

\* What holds at the beginning and is kept by every turn, which may depend on their number,
\* holds at the end.
LEMMA FoldKeeps ==
  ASSUME NEW turn, NEW x, NEW n \in Nat, NEW I, x \in I[0],
         \A k \in 1 .. n : \A s \in I[k - 1] : turn[k][s] \in I[k]
  PROVE  Fold(turn, x, n) \in I[n]
<1>1. PICK at : /\ at[0] = x /\ Fold(turn, x, n) = at[n]
                /\ \A k \in 1 .. n : at[k] = turn[k][at[k - 1]]
  BY FoldTurns
<1> DEFINE Out == {k \in 0 .. n : at[k] \notin I[k]}
<1>2. ASSUME Out # {} PROVE FALSE
  <2>1. Out \in SUBSET Nat
    OBVIOUS
  <2>2. PICK k \in Out : \A j \in Out : k <= j
    <3> HIDE DEF Out
    <3> QED
      BY <1>2, <2>1, LeastNumber
  <2>3. k # 0 /\ k \in 1 .. n /\ k - 1 \in 0 .. n /\ k - 1 \notin Out
    BY <1>1, <2>2
  <2>4. at[k - 1] \in I[k - 1]
    BY <2>3
  <2> QED
    BY <1>1, <2>2, <2>3, <2>4
<1> QED
  BY <1>1, <1>2

(***************************************************************************)
(* Tables.                                                                 *)
(***************************************************************************)
LEMMA InTableIs ==
  ASSUME NEW b \in Tables
  PROVE  /\ \A x : x \in InTable(b) <=> \E i \in 1 .. Len(b) : \E k \in 1 .. Len(b[i]) : x = b[i][k]
         /\ InTable(b) \subseteq HashElems
<1>1. DOMAIN b = 1 .. Len(b) /\ \A i \in 1 .. Len(b) : b[i] \in Seq(HashElems)
  BY DEF Tables
<1>2. \A i \in 1 .. Len(b) : DOMAIN b[i] = 1 .. Len(b[i]) /\ \A k \in 1 .. Len(b[i]) : b[i][k] \in HashElems
  BY <1>1
<1>3. \A x : x \in InTable(b) <=> \E i \in DOMAIN b : \E k \in DOMAIN b[i] : x = b[i][k]
  BY DEF InTable
<1>4. \A x : x \in InTable(b) <=> \E i \in 1 .. Len(b) : \E k \in 1 .. Len(b[i]) : x = b[i][k]
  BY <1>1, <1>2, <1>3
<1>5. ASSUME NEW x \in InTable(b) PROVE x \in HashElems
  BY <1>2, <1>4, <1>5
<1> QED
  BY <1>4, <1>5

LEMMA BucketOf ==
  ASSUME NEW b \in Tables, Len(b) # 0, NEW e \in HashElems
  PROVE  /\ find_bucket(b, e) \in 1 .. Len(b) /\ b[find_bucket(b, e)] \in Seq(HashElems)
         /\ Len(b) \in Nat /\ DOMAIN b = 1 .. Len(b)
         /\ \A x \in HashElems : HKey(x) = HKey(e) => find_bucket(b, x) = find_bucket(b, e)
         /\ \A c : Len(c) = Len(b) => find_bucket(c, e) = find_bucket(b, e)
<1>1. Len(b) \in Nat \ {0} /\ DOMAIN b = 1 .. Len(b) /\ \A i \in 1 .. Len(b) : b[i] \in Seq(HashElems)
  BY DEF Tables
<1>2. HashOf(e) \in Nat
  BY HashAssumption
<1>3. HashOf(e) % Len(b) \in 0 .. Len(b) - 1
  BY <1>1, <1>2
<1>4. find_bucket(b, e) \in 1 .. Len(b)
  BY <1>1, <1>3 DEF find_bucket
<1>5. \A x \in HashElems : HKey(x) = HKey(e) => HashOf(x) = HashOf(e)
  BY HashAssumption
<1> QED
  BY <1>1, <1>4, <1>5 DEF find_bucket

\* No two elements of a sound table are equal.
LEMMA OneOfEach ==
  ASSUME NEW b, TableRight(b), NEW x \in InTable(b), NEW y \in InTable(b), HKey(x) = HKey(y)
  PROVE  x = y
<1>1. b \in Tables /\ Len(b) # 0
  BY DEF TableRight
<1>2. PICK i \in 1 .. Len(b) : \E k \in 1 .. Len(b[i]) : x = b[i][k]
  BY <1>1, InTableIs
<1>3. PICK j \in 1 .. Len(b) : \E n \in 1 .. Len(b[j]) : y = b[j][n]
  BY <1>1, InTableIs
<1>4. find_bucket(b, x) = i /\ find_bucket(b, y) = j
  BY <1>2, <1>3 DEF TableRight
<1>5. i = j
  BY <1>1, <1>4, InTableIs, BucketOf
<1> QED
  BY <1>2, <1>3, <1>5 DEF TableRight

LEMMA Places ==
  ASSUME NEW b, TableRight(b), NEW i \in 1 .. Len(b), NEW k \in 1 .. Len(b[i]),
         NEW j \in 1 .. Len(b), NEW n \in 1 .. Len(b[j]), b[i][k] = b[j][n]
  PROVE  i = j /\ k = n
<1>1. i = j
  BY DEF TableRight
<1> QED
  BY <1>1 DEF TableRight

LEMMA Found ==
  ASSUME NEW b, TableRight(b), NEW e \in HashElems
  PROVE  \/ /\ find_elem(b, e) = NOELEM /\ (\A x \in InTable(b) : HKey(x) # HKey(e))
         \/ /\ find_elem(b, e) \in InTable(b) /\ find_elem(b, e) # NOELEM
            /\ HKey(find_elem(b, e)) = HKey(e)
<1> DEFINE i == find_bucket(b, e)
           s == b[i]
           equal == {k \in DOMAIN s : HKey(s[k]) = HKey(e)}
<1>1. b \in Tables /\ Len(b) # 0
  BY DEF TableRight
<1>2. i \in 1 .. Len(b) /\ s \in Seq(HashElems) /\ \A x \in HashElems : HKey(x) = HKey(e) => find_bucket(b, x) = i
  BY <1>1, BucketOf
<1>3. CASE equal = {}
  <2>1. ASSUME NEW x \in InTable(b), HKey(x) = HKey(e) PROVE FALSE
    <3>0. PICK j \in 1 .. Len(b) : \E k \in 1 .. Len(b[j]) : x = b[j][k]
      BY <1>1, InTableIs
    <3>1. PICK k \in 1 .. Len(b[j]) : x = b[j][k]
      BY <3>0
    <3>2. j = i
      BY <1>1, <1>2, <2>1, <3>1, InTableIs DEF TableRight
    <3>3. k \in equal
      BY <1>2, <2>1, <3>1, <3>2
    <3> QED
      BY <1>3, <3>3
  <2>2. find_elem(b, e) = NOELEM
    BY <1>3 DEF find_elem
  <2> QED
    BY <2>1, <2>2
<1>4. CASE equal # {}
  <2> DEFINE k == CHOOSE k \in equal : \A j \in equal : k <= j
  <2>1. equal \in SUBSET Nat
    BY <1>2
  <2>2. \E n \in equal : \A j \in equal : n <= j
    <3> HIDE DEF equal
    <3> QED
      BY <1>4, <2>1, LeastNumber
  <2>3. k \in equal
    BY <2>2
  <2>4. find_elem(b, e) = s[k]
    BY <1>4 DEF find_elem
  <2> HIDE DEF k
  <2>5. k \in 1 .. Len(s) /\ HKey(s[k]) = HKey(e)
    BY <1>2, <2>3
  <2>6. s[k] \in InTable(b)
    BY <1>1, <1>2, <2>5, InTableIs
  <2>7. s[k] # NOELEM
    BY <1>1, <2>6, InTableIs, HashAssumption
  <2> QED
    BY <2>4, <2>5, <2>6, <2>7
<1> QED
  BY <1>3, <1>4

\* The front of a sequence.
LEMMA Fronts ==
  ASSUME NEW S, NEW s \in Seq(S), NEW e \in S
  PROVE  LET t == <<e>> \o s
         IN  /\ t \in Seq(S) /\ Len(t) = Len(s) + 1 /\ t[1] = e
             /\ \A k \in 1 .. Len(s) : t[k + 1] = s[k]
             /\ \A k \in 1 .. Len(t) : k = 1 \/ (k - 1 \in 1 .. Len(s) /\ t[k] = s[k - 1])
OBVIOUS

LEMMA InsertRight ==
  ASSUME NEW b, TableRight(b), NEW e \in HashElems, \A x \in InTable(b) : HKey(x) # HKey(e)
  PROVE  LET c == insert_elem(b, e)
         IN  TableRight(c) /\ Len(c) = Len(b) /\ InTable(c) = InTable(b) \union {e}
<1> DEFINE i == find_bucket(b, e)
           s == b[i]
           t == <<e>> \o s
           c == [b EXCEPT ![i] = t]
<1>1. b \in Tables /\ Len(b) # 0
  BY DEF TableRight
<1>2. /\ i \in 1 .. Len(b) /\ s \in Seq(HashElems) /\ Len(b) \in Nat /\ DOMAIN b = 1 .. Len(b)
      /\ b \in Seq(Seq(HashElems))
  BY <1>1, BucketOf DEF Tables
<1>3. /\ t \in Seq(HashElems) /\ Len(t) = Len(s) + 1 /\ t[1] = e
      /\ \A k \in 1 .. Len(s) : t[k + 1] = s[k]
      /\ \A k \in 1 .. Len(t) : k = 1 \/ (k - 1 \in 1 .. Len(s) /\ t[k] = s[k - 1])
  BY <1>2, Fronts
<1> HIDE DEF t
<1>4. c \in Tables /\ Len(c) = Len(b) /\ c[i] = t /\ \A j \in 1 .. Len(b) : j # i => c[j] = b[j]
  BY <1>2, <1>3 DEF Tables
<1>5. insert_elem(b, e) = c
  BY DEF insert_elem, t
<1> HIDE DEF c
<1>6. \A j \in 1 .. Len(b) : \A k \in 1 .. Len(b[j]) : b[j][k] \in HashElems /\ b[j][k] \in InTable(b)
  BY <1>1, InTableIs
<1>7. \A x \in HashElems : find_bucket(c, x) = find_bucket(b, x)
  BY <1>1, <1>4, BucketOf
<1>8. ASSUME NEW j \in 1 .. Len(b), NEW k \in 1 .. Len(c[j])
      PROVE  \/ j = i /\ k = 1 /\ c[j][k] = e
             \/ j = i /\ k - 1 \in 1 .. Len(b[j]) /\ c[j][k] = b[j][k - 1]
             \/ j # i /\ k \in 1 .. Len(b[j]) /\ c[j][k] = b[j][k]
  BY <1>3, <1>4
<1>9. ASSUME NEW j \in 1 .. Len(c), NEW k \in 1 .. Len(c[j]) PROVE find_bucket(c, c[j][k]) = j
  <2>1. j \in 1 .. Len(b)
    BY <1>4
  <2>2. \A n \in 1 .. Len(b[j]) : find_bucket(c, b[j][n]) = j
    BY <1>6, <1>7, <2>1 DEF TableRight
  <2> QED
    BY <1>7, <1>8, <2>1, <2>2
<1>10. ASSUME NEW j \in 1 .. Len(c), NEW k \in 1 .. Len(c[j]), NEW n \in 1 .. Len(c[j]), HKey(c[j][k]) = HKey(c[j][n])
       PROVE  k = n
  <2>1. /\ \A p, q \in 1 .. Len(b[j]) : HKey(b[j][p]) = HKey(b[j][q]) => p = q
        /\ \A p \in 1 .. Len(b[j]) : HKey(b[j][p]) # HKey(e)
    BY <1>4, <1>6 DEF TableRight
  <2>2. j \in 1 .. Len(b)
    BY <1>4
  <2>3. \/ j = i /\ k = 1 /\ c[j][k] = e
        \/ j = i /\ k - 1 \in 1 .. Len(b[j]) /\ c[j][k] = b[j][k - 1]
        \/ j # i /\ k \in 1 .. Len(b[j]) /\ c[j][k] = b[j][k]
    BY <1>8, <2>2
  <2>4. \/ j = i /\ n = 1 /\ c[j][n] = e
        \/ j = i /\ n - 1 \in 1 .. Len(b[j]) /\ c[j][n] = b[j][n - 1]
        \/ j # i /\ n \in 1 .. Len(b[j]) /\ c[j][n] = b[j][n]
    BY <1>8, <2>2
  <2>5. k \in Int /\ n \in Int
    OBVIOUS
  <2>6. HKey(c[j][k]) = HKey(c[j][n])
    BY <1>10
  <2>7. CASE j = i
    <3>1. CASE k = 1
      BY <2>1, <2>3, <2>4, <2>5, <2>6, <2>7, <3>1
    <3>2. CASE k # 1
      BY <2>1, <2>3, <2>4, <2>5, <2>6, <2>7, <3>2
    <3> QED
      BY <3>1, <3>2
  <2>8. CASE j # i
    BY <2>1, <2>3, <2>4, <2>6, <2>8
  <2> QED
    BY <2>7, <2>8
<1>11. ASSUME NEW x PROVE x \in InTable(c) <=> x \in InTable(b) \union {e}
  <2>1. x \in InTable(c) => x \in InTable(b) \union {e}
    <3>1. SUFFICES ASSUME NEW j \in 1 .. Len(b), NEW k \in 1 .. Len(c[j]), x = c[j][k] PROVE x \in InTable(b) \union {e}
      BY <1>4, InTableIs
    <3> QED
      BY <1>6, <1>8, <3>1
  <2>2. e \in InTable(c)
    <3>1. 1 \in 1 .. Len(c[i])
      BY <1>2, <1>3, <1>4
    <3> QED
      BY <1>2, <1>3, <1>4, <3>1, InTableIs
  <2>3. x \in InTable(b) => x \in InTable(c)
    <3>1. SUFFICES ASSUME NEW j \in 1 .. Len(b), NEW k \in 1 .. Len(b[j]), x = b[j][k] PROVE x \in InTable(c)
      BY <1>1, InTableIs
    <3>2. CASE j = i
      <4>1. k + 1 \in 1 .. Len(c[i]) /\ c[i][k + 1] = x
        BY <1>2, <1>3, <1>4, <3>1, <3>2
      <4> QED
        BY <1>2, <1>4, <4>1, InTableIs
    <3>3. CASE j # i
      BY <1>4, <3>1, <3>3, InTableIs
    <3> QED
      BY <3>2, <3>3
  <2> QED
    BY <2>1, <2>2, <2>3
<1> QED
  BY <1>1, <1>4, <1>5, <1>9, <1>10, <1>11 DEF TableRight

LEMMA WithoutOne ==
  ASSUME NEW S, NEW s \in Seq(S), NEW i \in 1 .. Len(s), \A j \in 1 .. Len(s) : s[j] = s[i] => j = i
  PROVE  LET t == Without(s, s[i])
         IN  /\ t \in Seq(S) /\ Len(t) = Len(s) - 1
             /\ \A k \in 1 .. Len(t) : \/ k # i /\ k \in 1 .. Len(s) /\ k < i /\ t[k] = s[k]
                                       \/ k >= i /\ k + 1 \in 1 .. Len(s) /\ t[k] = s[k + 1]
             /\ \A k \in 1 .. Len(s) : k # i => \E n \in 1 .. Len(t) : t[n] = s[k]
<1> DEFINE p == SubSeq(s, 1, i - 1)
           q == SubSeq(s, i + 1, Len(s))
           t == p \o q
<1>1. Len(s) \in Nat /\ DOMAIN s = 1 .. Len(s) /\ i \in Nat /\ 1 <= i /\ i <= Len(s)
  OBVIOUS
<1>2. Without(s, s[i]) = t
  <2>1. (CHOOSE j \in DOMAIN s : s[j] = s[i]) = i
    BY <1>1
  <2> QED
    BY <2>1 DEF Without
<1>3. p \in Seq(S) /\ Len(p) = i - 1 /\ \A k \in 1 .. i - 1 : p[k] = s[k]
  BY <1>1
<1>4. q \in Seq(S) /\ Len(q) = Len(s) - i /\ \A k \in 1 .. Len(s) - i : q[k] = s[i + k]
  <2>1. q \in Seq(S) /\ Len(q) = Len(s) - i
    <3>1. \A m, n \in Nat : 1 <= m /\ m <= n => (IF m + 1 <= n THEN n - (m + 1) + 1 ELSE 0) = n - m
      OBVIOUS
    <3>2. i + 1 \in Int /\ Len(s) \in Int /\ \A k \in i + 1 .. Len(s) : s[k] \in S
      BY <1>1
    <3>3. q \in Seq(S)
      BY <3>2, SubSeqProperties
    <3>4. Len(q) = (IF i + 1 <= Len(s) THEN Len(s) - (i + 1) + 1 ELSE 0)
      BY <3>2, SubSeqProperties
    <3> QED
      BY <1>1, <3>1, <3>3, <3>4
  <2>2. ASSUME NEW k \in 1 .. Len(s) - i PROVE q[k] = s[i + k]
    <3>1. k \in 1 .. (1 + Len(s) - (i + 1)) /\ k + (i + 1) - 1 = i + k
      BY <1>1
    <3>2. q[k] = s[k + (i + 1) - 1]
      BY <1>1, <3>1
    <3> QED
      BY <3>1, <3>2
  <2> QED
    BY <2>1, <2>2
<1> HIDE DEF p, q
<1>5. /\ t \in Seq(S) /\ Len(t) = Len(s) - 1
      /\ \A k \in 1 .. i - 1 : t[k] = p[k]
      /\ \A k \in i .. Len(s) - 1 : t[k] = q[k - (i - 1)]
  <2>1. t \in Seq(S) /\ Len(t) = Len(s) - 1
    <3>1. t \in Seq(S) /\ Len(t) = Len(p) + Len(q)
      BY <1>3, <1>4, ConcatProperties
    <3> QED
      BY <1>1, <1>3, <1>4, <3>1
  <2>2. ASSUME NEW k \in 1 .. i - 1 PROVE t[k] = p[k]
    <3>1. k \in 1 .. Len(p) + Len(q) /\ k <= Len(p)
      BY <1>1, <1>3, <1>4
    <3> QED
      BY <1>3, <1>4, <3>1
  <2>3. ASSUME NEW k \in i .. Len(s) - 1 PROVE t[k] = q[k - (i - 1)]
    <3>1. k \in 1 .. Len(p) + Len(q) /\ ~(k <= Len(p)) /\ k - Len(p) = k - (i - 1)
      BY <1>1, <1>3, <1>4
    <3>2. t[k] = q[k - Len(p)]
      BY <1>3, <1>4, <3>1
    <3> QED
      BY <3>1, <3>2
  <2> QED
    BY <2>1, <2>2, <2>3
<1> HIDE DEF t
<1>6. ASSUME NEW k \in i .. Len(s) - 1 PROVE t[k] = s[k + 1]
  <2>1. k - (i - 1) \in 1 .. Len(s) - i /\ i + (k - (i - 1)) = k + 1
    BY <1>1
  <2> QED
    BY <1>4, <1>5, <2>1
<1>7. ASSUME NEW k \in 1 .. Len(t)
      PROVE  \/ k # i /\ k \in 1 .. Len(s) /\ k < i /\ t[k] = s[k]
             \/ k >= i /\ k + 1 \in 1 .. Len(s) /\ t[k] = s[k + 1]
  <2>1. CASE k < i
    <3>1. k \in 1 .. i - 1 /\ k \in 1 .. Len(s) /\ k # i
      BY <1>1, <1>5, <2>1
    <3> QED
      BY <1>3, <1>5, <2>1, <3>1
  <2>2. CASE k >= i
    BY <1>1, <1>5, <1>6, <2>2
  <2> QED
    BY <1>1, <2>1, <2>2
<1>8. ASSUME NEW k \in 1 .. Len(s), k # i PROVE \E n \in 1 .. Len(t) : t[n] = s[k]
  <2>1. CASE k < i
    BY <1>1, <1>3, <1>5, <2>1
  <2>2. CASE k > i
    <3>1. k - 1 \in i .. Len(s) - 1 /\ k - 1 \in 1 .. Len(t) /\ (k - 1) + 1 = k
      BY <1>1, <1>5, <2>2
    <3> QED
      BY <1>6, <3>1
  <2> QED
    BY <1>1, <1>8, <2>1, <2>2
<1> QED
  BY <1>2, <1>5, <1>7, <1>8

LEMMA RemoveRight ==
  ASSUME NEW b, TableRight(b), NEW e \in InTable(b)
  PROVE  LET c == remove_elem(b, e)
         IN  TableRight(c) /\ Len(c) = Len(b) /\ InTable(c) = InTable(b) \ {e}
<1> DEFINE i == find_bucket(b, e)
           s == b[i]
           t == Without(s, e)
           c == [b EXCEPT ![i] = t]
<1>1. b \in Tables /\ Len(b) # 0 /\ e \in HashElems
  BY InTableIs DEF TableRight
<1>2. /\ i \in 1 .. Len(b) /\ s \in Seq(HashElems) /\ Len(b) \in Nat /\ DOMAIN b = 1 .. Len(b)
      /\ b \in Seq(Seq(HashElems))
  BY <1>1, BucketOf DEF Tables
<1>3. PICK h \in 1 .. Len(s) : s[h] = e
  <2>1. PICK j \in 1 .. Len(b) : \E k \in 1 .. Len(b[j]) : e = b[j][k]
    BY <1>1, InTableIs
  <2> QED
    BY <2>1 DEF TableRight
<1>4. \A k, n \in 1 .. Len(s) : s[k] = s[n] => k = n
  BY <1>2, Places
<1>5. /\ t \in Seq(HashElems) /\ Len(t) = Len(s) - 1
      /\ \A k \in 1 .. Len(t) : \/ k # h /\ k \in 1 .. Len(s) /\ k < h /\ t[k] = s[k]
                                \/ k >= h /\ k + 1 \in 1 .. Len(s) /\ t[k] = s[k + 1]
      /\ \A k \in 1 .. Len(s) : k # h => \E n \in 1 .. Len(t) : t[n] = s[k]
  <2>1. \A j \in 1 .. Len(s) : s[j] = s[h] => j = h
    BY <1>4
  <2> DEFINE u == Without(s, s[h])
  <2> HIDE DEF s
  <2>2. /\ u \in Seq(HashElems) /\ Len(u) = Len(s) - 1
        /\ \A k \in 1 .. Len(u) : \/ k # h /\ k \in 1 .. Len(s) /\ k < h /\ u[k] = s[k]
                                  \/ k >= h /\ k + 1 \in 1 .. Len(s) /\ u[k] = s[k + 1]
        /\ \A k \in 1 .. Len(s) : k # h => \E n \in 1 .. Len(u) : u[n] = s[k]
    BY <1>2, <2>1, WithoutOne
  <2>3. u = t
    BY <1>3
  <2> HIDE DEF t, u
  <2> QED
    BY <2>2, <2>3
<1> HIDE DEF t
<1>6. c \in Tables /\ Len(c) = Len(b) /\ c[i] = t /\ \A j \in 1 .. Len(b) : j # i => c[j] = b[j]
  BY <1>2, <1>5 DEF Tables
<1>7. remove_elem(b, e) = c
  BY DEF remove_elem, t
<1> HIDE DEF c
<1>8. \A x \in HashElems : find_bucket(c, x) = find_bucket(b, x)
  BY <1>1, <1>6, BucketOf
<1>9. \A j \in 1 .. Len(b) : \A k \in 1 .. Len(b[j]) : b[j][k] \in HashElems /\ b[j][k] \in InTable(b)
  BY <1>1, InTableIs
\* Where an element of the new table was.
<1> DEFINE From(j, k) == IF j = i /\ k >= h THEN k + 1 ELSE k
<1>10. ASSUME NEW j \in 1 .. Len(b), NEW k \in 1 .. Len(c[j])
       PROVE  From(j, k) \in 1 .. Len(b[j]) /\ c[j][k] = b[j][From(j, k)] /\ c[j][k] # e
  <2>1. CASE j = i
    <3>1. From(j, k) # h /\ From(j, k) \in 1 .. Len(s) /\ t[k] = s[From(j, k)]
      BY <1>5, <1>6, <2>1
    <3>2. s[From(j, k)] # e
      BY <1>3, <1>4, <3>1
    <3> QED
      BY <1>6, <2>1, <3>1, <3>2
  <2>2. CASE j # i
    <3>1. c[j] = b[j] /\ From(j, k) = k
      BY <1>6, <2>2
    <3>2. c[j][k] # e
      BY <2>2, <3>1 DEF TableRight
    <3> QED
      BY <3>1, <3>2
  <2> QED
    BY <2>1, <2>2
<1>11. ASSUME NEW j \in 1 .. Len(c), NEW k \in 1 .. Len(c[j]) PROVE find_bucket(c, c[j][k]) = j
  <2>1. j \in 1 .. Len(b)
    BY <1>6
  <2>2. From(j, k) \in 1 .. Len(b[j]) /\ c[j][k] = b[j][From(j, k)]
    BY <1>10, <2>1
  <2> HIDE DEF From
  <2> QED
    BY <1>8, <1>9, <2>1, <2>2 DEF TableRight
<1>12. ASSUME NEW j \in 1 .. Len(c), NEW k \in 1 .. Len(c[j]), NEW n \in 1 .. Len(c[j]), HKey(c[j][k]) = HKey(c[j][n])
       PROVE  k = n
  <2>1. j \in 1 .. Len(b)
    BY <1>6
  <2>2. /\ From(j, k) \in 1 .. Len(b[j]) /\ c[j][k] = b[j][From(j, k)]
        /\ From(j, n) \in 1 .. Len(b[j]) /\ c[j][n] = b[j][From(j, n)]
    BY <1>10, <2>1
  <2>3. From(j, k) = From(j, n)
    <3> HIDE DEF From
    <3> QED
      BY <1>12, <2>1, <2>2 DEF TableRight
  <2> QED
    BY <1>3, <2>3
<1>13. ASSUME NEW x PROVE x \in InTable(c) <=> x \in InTable(b) \ {e}
  <2>1. x \in InTable(c) => x \in InTable(b) \ {e}
    <3>1. SUFFICES ASSUME NEW j \in 1 .. Len(b), NEW k \in 1 .. Len(c[j]), x = c[j][k] PROVE x \in InTable(b) \ {e}
      BY <1>6, InTableIs
    <3>2. From(j, k) \in 1 .. Len(b[j]) /\ c[j][k] = b[j][From(j, k)] /\ c[j][k] # e
      BY <1>10
    <3> HIDE DEF From
    <3> QED
      BY <1>9, <3>1, <3>2
  <2>2. x \in InTable(b) \ {e} => x \in InTable(c)
    <3>1. SUFFICES ASSUME NEW j \in 1 .. Len(b), NEW k \in 1 .. Len(b[j]), x = b[j][k], x # e PROVE x \in InTable(c)
      BY <1>1, InTableIs
    <3>2. CASE j = i
      <4>1. k # h
        BY <1>3, <3>1, <3>2
      <4>2. PICK n \in 1 .. Len(t) : t[n] = x
        BY <1>5, <3>1, <3>2, <4>1
      <4> QED
        BY <1>2, <1>6, <4>2, InTableIs
    <3>3. CASE j # i
      BY <1>6, <3>1, <3>3, InTableIs
    <3> QED
      BY <3>2, <3>3
  <2> QED
    BY <2>1, <2>2
<1> QED
  BY <1>1, <1>6, <1>7, <1>11, <1>12, <1>13 DEF TableRight

\* s has the elements of the first n buckets, each once.
Gathered(b, n, s) ==
  /\ \A i \in 1 .. n : \A k \in 1 .. Len(b[i]) : \E p \in 1 .. Len(s) : s[p] = b[i][k]
  /\ \A p \in 1 .. Len(s) : \E i \in 1 .. n : \E k \in 1 .. Len(b[i]) : s[p] = b[i][k]
  /\ \A p, q \in 1 .. Len(s) : s[p] = s[q] => p = q

LEMMA GatherOne ==
  ASSUME NEW b, TableRight(b), NEW n \in 1 .. Len(b), NEW s \in Seq(HashElems), Gathered(b, n - 1, s)
  PROVE  s \o b[n] \in Seq(HashElems) /\ Gathered(b, n, s \o b[n])
<1> DEFINE t == s \o b[n]
<1>1. b \in Seq(Seq(HashElems)) /\ b[n] \in Seq(HashElems) /\ n \in Nat /\ n # 0
  BY DEF TableRight, Tables
<1>2. /\ t \in Seq(HashElems) /\ Len(t) = Len(s) + Len(b[n])
      /\ \A p \in 1 .. Len(s) : t[p] = s[p] /\ p \in 1 .. Len(t)
      /\ \A k \in 1 .. Len(b[n]) : t[Len(s) + k] = b[n][k] /\ Len(s) + k \in 1 .. Len(t)
      /\ \A p \in 1 .. Len(t) : p \in 1 .. Len(s) \/ (p - Len(s) \in 1 .. Len(b[n]) /\ t[p] = b[n][p - Len(s)])
      /\ Len(s) \in Nat
  BY <1>1
<1> HIDE DEF t
<1>3. ASSUME NEW i \in 1 .. n, NEW k \in 1 .. Len(b[i]) PROVE \E p \in 1 .. Len(t) : t[p] = b[i][k]
  <2>1. CASE i = n
    BY <1>2, <2>1
  <2>2. CASE i # n
    <3>1. i \in 1 .. n - 1
      BY <1>1, <2>2
    <3>2. PICK p \in 1 .. Len(s) : s[p] = b[i][k]
      BY <3>1 DEF Gathered
    <3> QED
      BY <1>2, <3>2
  <2> QED
    BY <2>1, <2>2
<1>4. ASSUME NEW p \in 1 .. Len(t) PROVE \E i \in 1 .. n : \E k \in 1 .. Len(b[i]) : t[p] = b[i][k]
  <2>1. CASE p \in 1 .. Len(s)
    <3>1. PICK i \in 1 .. n - 1 : \E k \in 1 .. Len(b[i]) : s[p] = b[i][k]
      BY <2>1 DEF Gathered
    <3>2. i \in 1 .. n
      BY <1>1
    <3> QED
      BY <1>2, <2>1, <3>1, <3>2
  <2>2. CASE p \notin 1 .. Len(s)
    <3>1. n \in 1 .. n
      BY <1>1
    <3> QED
      BY <1>2, <2>2, <3>1
  <2> QED
    BY <2>1, <2>2
\* What is in the earlier buckets is not in this one.
<1>5. ASSUME NEW p \in 1 .. Len(s), NEW k \in 1 .. Len(b[n]), s[p] = b[n][k] PROVE FALSE
  <2>1. PICK i \in 1 .. n - 1 : \E j \in 1 .. Len(b[i]) : s[p] = b[i][j]
    BY DEF Gathered
  <2>2. i \in 1 .. Len(b) /\ i # n
    BY <1>1
  <2>3. PICK j \in 1 .. Len(b[i]) : s[p] = b[i][j]
    BY <2>1
  <2> QED
    BY <1>5, <2>2, <2>3, Places
<1>6. ASSUME NEW p \in 1 .. Len(t), NEW q \in 1 .. Len(t), t[p] = t[q] PROVE p = q
  <2>1. CASE p \in 1 .. Len(s) /\ q \in 1 .. Len(s)
    BY <1>2, <1>6, <2>1 DEF Gathered
  <2>2. CASE p \in 1 .. Len(s) /\ q \notin 1 .. Len(s)
    BY <1>2, <1>5, <1>6, <2>2
  <2>3. CASE p \notin 1 .. Len(s) /\ q \in 1 .. Len(s)
    BY <1>2, <1>5, <1>6, <2>3
  <2>4. CASE p \notin 1 .. Len(s) /\ q \notin 1 .. Len(s)
    <3>1. p - Len(s) = q - Len(s)
      <4>1. b[n][p - Len(s)] = b[n][q - Len(s)] /\ p - Len(s) \in 1 .. Len(b[n]) /\ q - Len(s) \in 1 .. Len(b[n])
        BY <1>2, <1>6, <2>4
      <4> QED
        BY <4>1, Places
    <3> QED
      BY <1>2, <3>1
  <2> QED
    BY <2>1, <2>2, <2>3, <2>4
<1> QED
  BY <1>2, <1>3, <1>4, <1>6 DEF Gathered, t

LEMMA ElemsRight ==
  ASSUME NEW b, TableRight(b)
  PROVE  /\ Elems(b) \in Seq(HashElems)
         /\ \A x : x \in InTable(b) <=> \E p \in 1 .. Len(Elems(b)) : Elems(b)[p] = x
         /\ \A p, q \in 1 .. Len(Elems(b)) : Elems(b)[p] = Elems(b)[q] => p = q
<1> DEFINE turn == [i \in DOMAIN b |-> [s \in Seq(HashElems) |-> s \o b[i]]]
           n == Len(b)
           I == [k \in 0 .. n |-> {s \in Seq(HashElems) : Gathered(b, k, s)}]
<1>1. b \in Tables /\ n \in Nat /\ DOMAIN b = 1 .. n
  BY DEF TableRight, Tables
<1>2. <<>> \in I[0]
  BY <1>1 DEF Gathered
<1>3. ASSUME NEW k \in 1 .. n, NEW s \in I[k - 1] PROVE turn[k][s] \in I[k]
  <2>1. k - 1 \in 0 .. n /\ k \in 0 .. n
    BY <1>1
  <2>2. s \in Seq(HashElems) /\ Gathered(b, k - 1, s)
    BY <2>1
  <2>3. turn[k][s] = s \o b[k]
    BY <1>1, <2>2
  <2> QED
    BY <2>1, <2>2, <2>3, GatherOne
<1>4. Elems(b) = Fold(turn, <<>>, n)
  BY DEF Elems
<1> HIDE DEF turn
<1>5. Fold(turn, <<>>, n) \in I[n]
  <2> HIDE DEF I, n
  <2> QED
    BY <1>1, <1>2, <1>3, FoldKeeps
<1>6. Elems(b) \in Seq(HashElems) /\ Gathered(b, n, Elems(b))
  BY <1>1, <1>4, <1>5
<1>7. ASSUME NEW x PROVE x \in InTable(b) <=> \E p \in 1 .. Len(Elems(b)) : Elems(b)[p] = x
  <2>1. x \in InTable(b) <=> \E i \in 1 .. n : \E k \in 1 .. Len(b[i]) : x = b[i][k]
    BY <1>1, InTableIs
  <2>2. /\ \A i \in 1 .. n : \A k \in 1 .. Len(b[i]) : \E p \in 1 .. Len(Elems(b)) : Elems(b)[p] = b[i][k]
        /\ \A p \in 1 .. Len(Elems(b)) : \E i \in 1 .. n : \E k \in 1 .. Len(b[i]) : Elems(b)[p] = b[i][k]
    BY <1>6 DEF Gathered
  <2> DEFINE s == Elems(b)
  <2> HIDE DEF n, s
  <2>3. x \in InTable(b) => \E p \in 1 .. Len(s) : s[p] = x
    BY <2>1, <2>2 DEF s
  <2>4. (\E p \in 1 .. Len(s) : s[p] = x) => x \in InTable(b)
    BY <2>1, <2>2 DEF s
  <2> QED
    BY <2>3, <2>4 DEF s
<1> QED
  BY <1>6, <1>7 DEF Gathered

\* Moving the elements to new buckets.
LEMMA MovedRight ==
  ASSUME NEW b, TableRight(b), NEW n \in Nat, n # 0
  PROVE  LET fresh == [i \in 1 .. n |-> <<>>]
             m == Fold([k \in DOMAIN Elems(b) |-> [t \in Tables |-> insert_elem(t, Elems(b)[k])]], fresh, Len(Elems(b)))
         IN  TableRight(m) /\ Len(m) = n /\ InTable(m) = InTable(b)
<1> DEFINE es == Elems(b)
           fresh == [i \in 1 .. n |-> <<>>]
           turn == [k \in DOMAIN es |-> [t \in Tables |-> insert_elem(t, es[k])]]
           Right(k, t) == /\ TableRight(t) /\ Len(t) = n
                          /\ \A x : x \in InTable(t) <=> \E p \in 1 .. k : es[p] = x
           I == [k \in 0 .. Len(es) |-> {t \in Tables : Right(k, t)}]
<1>1. /\ es \in Seq(HashElems)
      /\ \A x : x \in InTable(b) <=> \E p \in 1 .. Len(es) : es[p] = x
      /\ \A p, q \in 1 .. Len(es) : es[p] = es[q] => p = q
  BY ElemsRight
<1> HIDE DEF es
<1>2. Len(es) \in Nat /\ DOMAIN es = 1 .. Len(es)
  BY <1>1
<1>3. fresh \in I[0]
  <2>1. fresh \in Tables /\ Len(fresh) = n /\ \A i \in 1 .. n : fresh[i] = <<>>
    BY DEF Tables
  <2> HIDE DEF fresh
  <2>2. \A i \in 1 .. Len(fresh) : Len(fresh[i]) = 0
    BY <2>1
  <2>3. TableRight(fresh)
    BY <2>1, <2>2 DEF TableRight
  <2>4. \A x : x \notin InTable(fresh)
    BY <2>1, <2>2, InTableIs
  <2>5. Right(0, fresh)
    BY <2>1, <2>3, <2>4
  <2> HIDE DEF Right
  <2> QED
    BY <1>2, <2>1, <2>5
<1>4. ASSUME NEW k \in 1 .. Len(es), NEW t \in I[k - 1] PROVE turn[k][t] \in I[k]
  <2>1. k - 1 \in 0 .. Len(es) /\ k \in 0 .. Len(es)
    BY <1>2
  <2>2. t \in Tables /\ Right(k - 1, t)
    <3> HIDE DEF Right
    <3> QED
      BY <2>1
  <2>3. es[k] \in HashElems /\ es[k] \in InTable(b)
    BY <1>1
  <2>4. ASSUME NEW x \in InTable(t) PROVE HKey(x) # HKey(es[k])
    <3>1. PICK p \in 1 .. k - 1 : es[p] = x
      BY <2>2
    <3>2. p \in 1 .. Len(es) /\ p # k
      BY <1>2
    <3>3. x \in InTable(b)
      BY <1>1, <3>1, <3>2
    <3> QED
      BY <1>1, <2>3, <3>1, <3>2, <3>3, OneOfEach
  <2> DEFINE c == insert_elem(t, es[k])
  <2>5. TableRight(c) /\ Len(c) = n /\ InTable(c) = InTable(t) \union {es[k]}
    BY <2>2, <2>3, <2>4, InsertRight
  <2>6. turn[k][t] = c
    BY <1>2, <2>2
  <2> HIDE DEF c
  <2>7. \A x : x \in InTable(c) <=> \E p \in 1 .. k : es[p] = x
    <3>1. \A x : (\E p \in 1 .. k : es[p] = x) <=> (\E p \in 1 .. k - 1 : es[p] = x) \/ x = es[k]
      <4>1. 1 .. k = (1 .. k - 1) \union {k}
        BY <1>2
      <4> QED
        BY <4>1
    <3> QED
      BY <2>2, <2>5, <3>1
  <2>8. c \in Tables /\ Right(k, c)
    BY <2>5, <2>7 DEF TableRight
  <2> HIDE DEF Right, turn
  <2> QED
    BY <2>1, <2>6, <2>8
<1> DEFINE m == Fold(turn, fresh, Len(es))
<1>5. m \in I[Len(es)]
  <2> HIDE DEF I, turn, fresh
  <2> QED
    BY <1>2, <1>3, <1>4, FoldKeeps
<1>6. Right(Len(es), m)
  <2> HIDE DEF Right, m
  <2> QED
    BY <1>2, <1>5
<1> HIDE DEF turn, fresh, m
<1>7. TableRight(m) /\ Len(m) = n /\ InTable(m) = InTable(b)
  BY <1>1, <1>6
<1> QED
  BY <1>7 DEF m, turn, fresh, es

LEMMA BucketCnt ==
  ASSUME NEW cnt \in Nat
  PROVE  bucket_cnt(cnt) \in Nat \ {0} /\ is_power_of_2(bucket_cnt(cnt))
<1> DEFINE ideal == cnt \div BEST_ELEMS_PER_BUCKET
           n == IF ideal < MIN_BUCKETS THEN MIN_BUCKETS ELSE ideal
           Rest == {n - p : p \in {q \in 1 .. n : is_power_of_2(q)}}
<1>1. ideal \in Nat
  BY HashAssumption
<1>2. n \in Nat /\ MIN_BUCKETS \in 1 .. n
  BY <1>1, HashAssumption
<1>3. bucket_cnt(cnt) = power_of_2_below(n)
  BY DEF bucket_cnt
<1> HIDE DEF n
<1>4. Rest \in SUBSET Nat /\ Rest # {}
  BY <1>2, HashAssumption
<1>5. PICK r \in Rest : \A k \in Rest : r <= k
  <2> HIDE DEF Rest
  <2> QED
    BY <1>4, LeastNumber
<1>6. PICK p \in 1 .. n : is_power_of_2(p) /\ r = n - p
  OBVIOUS
<1>7. ASSUME NEW q \in p + 1 .. n PROVE ~is_power_of_2(q)
  <2>1. SUFFICES ASSUME is_power_of_2(q) PROVE FALSE
    OBVIOUS
  <2>2. q \in 1 .. n /\ n - q < n - p
    BY <1>2
  <2>3. n - q \in Rest
    BY <2>1, <2>2
  <2>4. r <= n - q
    <3> HIDE DEF Rest
    <3> QED
      BY <1>5, <2>3
  <2> QED
    BY <1>2, <1>6, <2>2, <2>4
<1>8. power_of_2_below(n) \in 1 .. n /\ is_power_of_2(power_of_2_below(n))
  BY <1>6, <1>7 DEF power_of_2_below
<1> QED
  BY <1>2, <1>3, <1>8

LEMMA RehashRight ==
  ASSUME NEW b, TableRight(b), NEW cnt \in Nat, NEW c \in rehash(b, cnt), is_power_of_2(Len(b))
  PROVE  TableRight(c) /\ InTable(c) = InTable(b) /\ is_power_of_2(Len(c))
<1>1. bucket_cnt(cnt) \in Nat /\ bucket_cnt(cnt) # 0 /\ is_power_of_2(bucket_cnt(cnt))
  BY BucketCnt
<1> DEFINE fresh == [i \in 1 .. bucket_cnt(cnt) |-> <<>>]
           m == Fold([k \in DOMAIN Elems(b) |-> [t \in Tables |-> insert_elem(t, Elems(b)[k])]], fresh, Len(Elems(b)))
<1>2. TableRight(m) /\ InTable(m) = InTable(b) /\ Len(m) = bucket_cnt(cnt)
  BY <1>1, MovedRight
<1>3. c \in {b, m}
  BY DEF rehash
<1> HIDE DEF m
<1> QED
  BY <1>1, <1>2, <1>3

(***************************************************************************)
(* The calls, and what the table promises.                                 *)
(***************************************************************************)
Members == InTable(buckets)
MetBy == IF cursor = <<>> THEN <<>> ELSE <<visited>>
Equal(e) == {x \in Members : HKey(x) = HKey(e)}

LEMMA PlaceIsNone == \A i, k : [bucket |-> i, at |-> k] # <<>>
<1> SUFFICES ASSUME NEW i, NEW k, [bucket |-> i, at |-> k] = <<>> PROVE FALSE
  OBVIOUS
<1>1. "at" \in DOMAIN [bucket |-> i, at |-> k] /\ DOMAIN <<>> = 1 .. 0
  OBVIOUS
<1> QED
  BY <1>1

LEMMA PromiseInsert ==
  ASSUME NEW e, NEW x, returned' = <<"hash_insert", e, x>>, x = Table!Answer(Equal(e)),
         Members' = (IF Equal(e) = {} THEN Members \union {e} ELSE Members), MetBy' = <<>>
  PROVE  Table!HashSetCall
<1> QED
  BY DEF Table!HashSetCall, Table!Modify, Table!Keep, Table!Equals, Members, MetBy, Equal

LEMMA PromiseReplace ==
  ASSUME NEW e, NEW x, returned' = <<"hash_replace", e, x>>, x = Table!Answer(Equal(e)),
         Members' = (Members \ Equal(e)) \union {e}, MetBy' = <<>>
  PROVE  Table!HashSetCall
<1> QED
  BY DEF Table!HashSetCall, Table!Modify, Table!Keep, Table!Equals, Members, MetBy, Equal

LEMMA PromiseDelete ==
  ASSUME NEW e, NEW x, returned' = <<"hash_delete", e, x>>, x = Table!Answer(Equal(e)),
         Members' = Members \ Equal(e), MetBy' = <<>>
  PROVE  Table!HashSetCall
<1> QED
  BY DEF Table!HashSetCall, Table!Modify, Table!Keep, Table!Equals, Members, MetBy, Equal

LEMMA PromiseFind ==
  ASSUME NEW e, NEW x, returned' = <<"hash_find", e, x>>, x = Table!Answer(Equal(e)),
         Members' = Members, MetBy' = MetBy
  PROVE  Table!HashSetCall
<1> QED
  BY DEF Table!HashSetCall, Table!Modify, Table!Keep, Table!Equals, Members, MetBy, Equal

LEMMA CardinalityIs == \A S : Table!Cardinality(S) = Cardinality(S)
BY DEF Table!Cardinality, Cardinality

LEMMA PromiseSize ==
  ASSUME returned' = <<"hash_size", Cardinality(Members)>>, Members' = Members, MetBy' = MetBy
  PROVE  Table!HashSetCall
<1>1. returned' = <<"hash_size", Table!Cardinality(Members)>>
  BY CardinalityIs
<1> QED
  BY <1>1 DEF Table!HashSetCall, Table!Modify, Table!Keep, Table!Equals, Members, MetBy, Equal

LEMMA PromiseClear ==
  ASSUME NEW s, returned' = <<"hash_clear", s>>, ToSet(s) = Members, IsInjective(s),
         Members' = {}, MetBy' = <<>>
  PROVE  Table!HashSetCall
<1>1. Table!ToSet(s) = Members /\ Table!IsInjective(s)
  BY DEF Table!ToSet, ToSet, Table!IsInjective, IsInjective
<1> QED
  BY <1>1 DEF Table!HashSetCall, Table!Modify, Table!Keep, Table!Equals, Members, MetBy, Equal

LEMMA PromiseApply ==
  ASSUME NEW s, returned' = <<"hash_apply", s>>, ToSet(s) = Members, IsInjective(s),
         Members' = Members, MetBy' = MetBy
  PROVE  Table!HashSetCall
<1>1. Table!ToSet(s) = Members /\ Table!IsInjective(s)
  BY DEF Table!ToSet, ToSet, Table!IsInjective, IsInjective
<1> QED
  BY <1>1 DEF Table!HashSetCall, Table!Modify, Table!Keep, Table!Equals, Members, MetBy, Equal

LEMMA PromiseFirst ==
  ASSUME returned' = <<"hash_first">>, Members' = Members, MetBy' = <<{}>>
  PROVE  Table!HashSetCall
<1> QED
  BY DEF Table!HashSetCall, Table!Modify, Table!Keep, Table!Equals, Members, MetBy, Equal

LEMMA PromiseNext ==
  ASSUME NEW x, returned' = <<"hash_next", x>>, MetBy = <<visited>>, Members' = Members,
         IF visited = Members THEN x = NOELEM /\ MetBy' = <<>>
         ELSE x \in Members \ visited /\ MetBy' = <<visited \union {x}>>
  PROVE  Table!HashSetCall
<1> QED
  BY DEF Table!HashSetCall, Table!Modify, Table!Keep, Table!Equals, Members, MetBy, Equal

LEMMA PromiseGoOn ==
  ASSUME returned' = <<"none">>, Members' = Members, MetBy' = MetBy
  PROVE  Table!HashSetCall
<1> QED
  BY DEF Table!HashSetCall, Table!Modify, Table!Keep, Table!Equals, Members, MetBy, Equal

LEMMA AnswerIs ==
  ASSUME HashInv, NEW e \in HashElems
  PROVE  LET old == find_elem(buckets, e)
         IN  /\ old = Table!Answer(Equal(e))
             /\ old = NOELEM => Equal(e) = {} /\ (\A x \in Members : HKey(x) # HKey(e))
             /\ old # NOELEM => Equal(e) = {old} /\ old \in Members /\ HKey(old) = HKey(e)
<1> DEFINE old == find_elem(buckets, e)
<1>1. TableRight(buckets)
  BY DEF HashInv
<1>2. CASE old = NOELEM /\ (\A x \in InTable(buckets) : HKey(x) # HKey(e))
  <2>1. Equal(e) = {}
    BY <1>2 DEF Equal, Members
  <2>2. Table!Answer({}) = NOELEM
    BY DEF Table!Answer
  <2> QED
    BY <1>2, <2>1, <2>2 DEF Members
<1>3. CASE old \in InTable(buckets) /\ old # NOELEM /\ HKey(old) = HKey(e)
  <2> HIDE DEF old
  <2>1. \A x \in InTable(buckets) : HKey(x) = HKey(e) => x = old
    BY <1>1, <1>3, OneOfEach
  <2>2. Equal(e) = {old}
    BY <1>3, <2>1 DEF Equal, Members
  <2>3. Table!Answer({old}) = old
    BY DEF Table!Answer
  <2>4. old = Table!Answer(Equal(e))
    BY <2>2, <2>3
  <2> QED
    BY <1>3, <2>2, <2>4 DEF old, Members
<1> QED
  BY <1>1, <1>2, <1>3, Found

LEMMA ChangedRight ==
  ASSUME NEW b, NEW cnt, TableRight(b), is_power_of_2(Len(b)), IsFiniteSet(InTable(b)), cnt = Cardinality(InTable(b)), Changed(b, cnt)
  PROVE  HashInv' /\ Members' = InTable(b) /\ MetBy' = <<>>
<1>1. cnt \in Nat
  BY FS_CardinalityType
<1>2. buckets' \in rehash(b, cnt) /\ elem_cnt' = cnt /\ cursor' = <<>>
  BY DEF Changed
<1>3. TableRight(buckets') /\ InTable(buckets') = InTable(b) /\ is_power_of_2(Len(buckets'))
  BY <1>1, <1>2, RehashRight
<1>4. HashInv'
  BY <1>2, <1>3 DEF HashInv, CursorRight
<1> QED
  BY <1>2, <1>3, <1>4 DEF Members, MetBy

\* A call that leaves table and iterator alone.
LEMMA UnchangedRight ==
  ASSUME HashInv, Unchanged
  PROVE  HashInv' /\ Members' = Members /\ MetBy' = MetBy
BY DEF HashInv, CursorRight, Unchanged, Members, MetBy

\* A call that changes nothing but the iterator.
LEMMA IteratorRight ==
  ASSUME HashInv, UNCHANGED <<buckets, elem_cnt>>, CursorRight'
  PROVE  HashInv' /\ Members' = Members
BY DEF HashInv, Members

LEMMA ElementAdded ==
  ASSUME HashInv, NEW e \in HashElems, \A x \in Members : HKey(x) # HKey(e),
         Changed(insert_elem(buckets, e), elem_cnt + 1)
  PROVE  HashInv' /\ Members' = Members \union {e} /\ MetBy' = <<>>
<1> DEFINE b == insert_elem(buckets, e)
<1>1. TableRight(b) /\ InTable(b) = Members \union {e} /\ is_power_of_2(Len(b))
  BY InsertRight DEF HashInv, Members
<1>2. e \notin Members /\ IsFiniteSet(Members) /\ elem_cnt = Cardinality(Members)
  BY DEF HashInv, Members
<1>3. IsFiniteSet(Members \union {e}) /\ Cardinality(Members \union {e}) = elem_cnt + 1
  BY <1>2, FS_AddElement
<1> HIDE DEF b
<1>4. IsFiniteSet(InTable(b)) /\ elem_cnt + 1 = Cardinality(InTable(b))
  BY <1>1, <1>3
<1>5. Changed(b, elem_cnt + 1)
  BY DEF b
<1> QED
  BY <1>1, <1>4, <1>5, ChangedRight

\* Without the element, and one less in number.
LEMMA ElementGone ==
  ASSUME HashInv, NEW old \in Members
  PROVE  LET b == remove_elem(buckets, old)
         IN  /\ TableRight(b) /\ InTable(b) = Members \ {old} /\ is_power_of_2(Len(b))
             /\ IsFiniteSet(InTable(b)) /\ elem_cnt - 1 = Cardinality(InTable(b)) /\ elem_cnt \in Nat
<1> DEFINE b == remove_elem(buckets, old)
<1>1. TableRight(b) /\ InTable(b) = Members \ {old} /\ is_power_of_2(Len(b))
  BY RemoveRight DEF HashInv, Members
<1>2. IsFiniteSet(Members) /\ elem_cnt = Cardinality(Members)
  BY DEF HashInv, Members
<1>3. IsFiniteSet(Members \ {old}) /\ Cardinality(Members \ {old}) = elem_cnt - 1
  BY <1>2, FS_RemoveElement
<1>4. elem_cnt \in Nat
  BY <1>2, FS_CardinalityType
<1> HIDE DEF b
<1>5. /\ TableRight(b) /\ InTable(b) = Members \ {old} /\ is_power_of_2(Len(b))
      /\ IsFiniteSet(InTable(b)) /\ elem_cnt - 1 = Cardinality(InTable(b)) /\ elem_cnt \in Nat
  BY <1>1, <1>3, <1>4
<1> QED
  BY <1>5 DEF b
-----------------------------------------------------------------------------
LEMMA HashInsertKeeps ==
  ASSUME HashInv, NEW e \in HashElems, HashInsert(e)
  PROVE  HashInv' /\ Table!HashSetCall
<1> DEFINE old == find_elem(buckets, e)
<1>1. /\ old = Table!Answer(Equal(e))
      /\ old = NOELEM => Equal(e) = {} /\ (\A x \in Members : HKey(x) # HKey(e))
      /\ old # NOELEM => Equal(e) = {old}
  BY AnswerIs
<1>2. /\ returned' = <<"hash_insert", e, old>>
      /\ old = NOELEM => Changed(insert_elem(buckets, e), elem_cnt + 1)
      /\ old # NOELEM => Changed(buckets, elem_cnt)
  BY DEF HashInsert, HashReturn
<1> HIDE DEF old
<1>3. HashInv' /\ Members' = (IF Equal(e) = {} THEN Members \union {e} ELSE Members) /\ MetBy' = <<>>
  <2>1. CASE old = NOELEM
    <3>1. HashInv' /\ Members' = Members \union {e} /\ MetBy' = <<>>
      BY <1>1, <1>2, <2>1, ElementAdded
    <3> QED
      BY <1>1, <2>1, <3>1
  <2>2. CASE old # NOELEM
    <3>1. HashInv' /\ Members' = InTable(buckets) /\ MetBy' = <<>>
      BY <1>2, <2>2, ChangedRight DEF HashInv
    <3> QED
      BY <1>1, <2>2, <3>1 DEF Members
  <2> QED
    BY <2>1, <2>2
<1> QED
  BY <1>1, <1>2, <1>3, PromiseInsert

LEMMA HashReplaceKeeps ==
  ASSUME HashInv, NEW e \in HashElems, HashReplace(e)
  PROVE  HashInv' /\ Table!HashSetCall
<1> DEFINE old == find_elem(buckets, e)
           b == remove_elem(buckets, old)
           c == insert_elem(b, e)
<1>1. /\ old = Table!Answer(Equal(e))
      /\ old = NOELEM => Equal(e) = {} /\ (\A x \in Members : HKey(x) # HKey(e))
      /\ old # NOELEM => Equal(e) = {old} /\ old \in Members /\ HKey(old) = HKey(e)
  BY AnswerIs
<1>2. /\ returned' = <<"hash_replace", e, old>>
      /\ old = NOELEM => Changed(insert_elem(buckets, e), elem_cnt + 1)
      /\ old # NOELEM => Changed(c, elem_cnt)
  BY DEF HashReplace, HashReturn
<1>3. old # NOELEM => /\ TableRight(b) /\ InTable(b) = Members \ {old} /\ is_power_of_2(Len(b))
                      /\ IsFiniteSet(InTable(b)) /\ elem_cnt - 1 = Cardinality(InTable(b)) /\ elem_cnt \in Nat
  BY <1>1, ElementGone
<1>4. old # NOELEM => TableRight(c) /\ InTable(c) = InTable(b) \union {e} /\ Len(c) = Len(b) /\ \A x \in InTable(b) : HKey(x) # HKey(e)
  <2> SUFFICES ASSUME old # NOELEM
               PROVE  TableRight(c) /\ InTable(c) = InTable(b) \union {e} /\ Len(c) = Len(b) /\ \A x \in InTable(b) : HKey(x) # HKey(e)
    OBVIOUS
  <2> HIDE DEF b, old
  <2>1. \A x \in InTable(b) : HKey(x) # HKey(e)
    BY <1>1, <1>3 DEF Equal
  <2>2. TableRight(insert_elem(b, e)) /\ InTable(insert_elem(b, e)) = InTable(b) \union {e} /\ Len(insert_elem(b, e)) = Len(b)
    BY <1>3, <2>1, InsertRight
  <2> QED
    BY <2>1, <2>2
<1> HIDE DEF old, b, c
<1>5. HashInv' /\ Members' = (Members \ Equal(e)) \union {e} /\ MetBy' = <<>>
  <2>1. CASE old = NOELEM
    <3>1. HashInv' /\ Members' = Members \union {e} /\ MetBy' = <<>>
      BY <1>1, <1>2, <2>1, ElementAdded
    <3> QED
      BY <1>1, <2>1, <3>1
  <2>2. CASE old # NOELEM
    <3>1. e \notin InTable(b)
      BY <1>4, <2>2
    <3>2. IsFiniteSet(InTable(c)) /\ elem_cnt = Cardinality(InTable(c))
      <4>1. IsFiniteSet(InTable(b) \union {e}) /\ Cardinality(InTable(b) \union {e}) = (elem_cnt - 1) + 1
        BY <1>3, <2>2, <3>1, FS_AddElement
      <4>2. (elem_cnt - 1) + 1 = elem_cnt
        BY <1>3, <2>2
      <4> QED
        BY <1>4, <2>2, <4>1, <4>2
    <3>3. HashInv' /\ Members' = InTable(c) /\ MetBy' = <<>>
      BY <1>2, <1>3, <1>4, <2>2, <3>2, ChangedRight
    <3> QED
      BY <1>1, <1>3, <1>4, <2>2, <3>3
  <2> QED
    BY <2>1, <2>2
<1> QED
  BY <1>1, <1>2, <1>5, PromiseReplace

LEMMA HashDeleteKeeps ==
  ASSUME HashInv, NEW e \in HashElems, HashDelete(e)
  PROVE  HashInv' /\ Table!HashSetCall
<1> DEFINE old == find_elem(buckets, e)
           b == remove_elem(buckets, old)
<1>1. /\ old = Table!Answer(Equal(e))
      /\ old = NOELEM => Equal(e) = {}
      /\ old # NOELEM => Equal(e) = {old} /\ old \in Members
  BY AnswerIs
<1>2. /\ returned' = <<"hash_delete", e, old>>
      /\ old = NOELEM => cursor' = <<>> /\ UNCHANGED <<buckets, elem_cnt>>
      /\ old # NOELEM => Changed(b, elem_cnt - 1)
  BY DEF HashDelete, HashReturn
<1>3. old # NOELEM => /\ TableRight(b) /\ InTable(b) = Members \ {old} /\ is_power_of_2(Len(b))
                      /\ IsFiniteSet(InTable(b)) /\ elem_cnt - 1 = Cardinality(InTable(b))
  BY <1>1, ElementGone
<1> HIDE DEF old, b
<1>4. HashInv' /\ Members' = Members \ Equal(e) /\ MetBy' = <<>>
  <2>1. CASE old = NOELEM
    <3>1. CursorRight' /\ MetBy' = <<>>
      BY <1>2, <2>1 DEF CursorRight, MetBy
    <3>2. HashInv' /\ Members' = Members
      BY <1>2, <2>1, <3>1, IteratorRight
    <3> QED
      BY <1>1, <2>1, <3>1, <3>2
  <2>2. CASE old # NOELEM
    <3>1. HashInv' /\ Members' = InTable(b) /\ MetBy' = <<>>
      BY <1>2, <1>3, <2>2, ChangedRight
    <3> QED
      BY <1>1, <1>3, <2>2, <3>1
  <2> QED
    BY <2>1, <2>2
<1> QED
  BY <1>1, <1>2, <1>4, PromiseDelete

LEMMA HashFindKeeps ==
  ASSUME HashInv, NEW e \in HashElems, HashFind(e)
  PROVE  HashInv' /\ Table!HashSetCall
<1>1. returned' = <<"hash_find", e, find_elem(buckets, e)>> /\ Unchanged
  BY DEF HashFind, HashReturn
<1> QED
  BY <1>1, AnswerIs, UnchangedRight, PromiseFind

LEMMA HashSizeKeeps ==
  ASSUME HashInv, HashSize
  PROVE  HashInv' /\ Table!HashSetCall
<1>1. returned' = <<"hash_size", Cardinality(Members)>> /\ Unchanged
  BY DEF HashSize, HashReturn, HashInv, Members
<1> QED
  BY <1>1, UnchangedRight, PromiseSize

\* The elements as the action of hash_apply and the destructor of hash_clear meet them.
LEMMA EveryElementOnce ==
  ASSUME HashInv
  PROVE  ToSet(Elems(buckets)) = Members /\ IsInjective(Elems(buckets))
<1> DEFINE s == Elems(buckets)
<1>1. /\ s \in Seq(HashElems)
      /\ \A x : x \in Members <=> \E p \in 1 .. Len(s) : s[p] = x
      /\ \A p, q \in 1 .. Len(s) : s[p] = s[q] => p = q
  BY ElemsRight DEF HashInv, Members
<1> HIDE DEF s
<1>2. DOMAIN s = 1 .. Len(s)
  BY <1>1
<1>3. ToSet(s) = Members
  BY <1>1, <1>2 DEF ToSet
<1>4. IsInjective(s)
  BY <1>1, <1>2 DEF IsInjective
<1> QED
  BY <1>3, <1>4 DEF s

LEMMA HashApplyKeeps ==
  ASSUME HashInv, HashApply
  PROVE  HashInv' /\ Table!HashSetCall
<1>1. returned' = <<"hash_apply", Elems(buckets)>> /\ Unchanged
  BY DEF HashApply, HashReturn
<1> QED
  BY <1>1, UnchangedRight, EveryElementOnce, PromiseApply

\* A table of empty buckets.
LEMMA EmptyRight ==
  ASSUME NEW n \in Nat, n # 0
  PROVE  LET b == [i \in 1 .. n |-> <<>>] IN TableRight(b) /\ InTable(b) = {} /\ Len(b) = n
<1> DEFINE b == [i \in 1 .. n |-> <<>>]
<1>1. <<>> \in Seq(HashElems) /\ Len(<<>>) = 0
  OBVIOUS
<1>2. b \in Tables /\ Len(b) = n /\ \A i \in 1 .. n : b[i] = <<>>
  BY <1>1 DEF Tables
<1> HIDE DEF b
<1>3. \A i \in 1 .. Len(b) : 1 .. Len(b[i]) = {}
  BY <1>1, <1>2
<1>4. TableRight(b)
  BY <1>2, <1>3 DEF TableRight
<1>5. InTable(b) = {}
  BY <1>2, <1>3, InTableIs
<1> QED
  BY <1>2, <1>4, <1>5 DEF b

LEMMA HashClearKeeps ==
  ASSUME HashInv, HashClear
  PROVE  HashInv' /\ Table!HashSetCall
<1>1. /\ returned' = <<"hash_clear", Elems(buckets)>> /\ buckets' = [i \in DOMAIN buckets |-> <<>>]
      /\ elem_cnt' = 0 /\ cursor' = <<>>
  BY DEF HashClear, HashReturn
<1>2. DOMAIN buckets = 1 .. Len(buckets) /\ Len(buckets) \in Nat /\ Len(buckets) # 0
  BY DEF HashInv, TableRight, Tables
<1>3. TableRight(buckets') /\ InTable(buckets') = {} /\ Len(buckets') = Len(buckets)
  BY <1>1, <1>2, EmptyRight
<1>4. HashInv'
  BY <1>1, <1>3, FS_EmptySet DEF HashInv, CursorRight
<1>5. Members' = {} /\ MetBy' = <<>>
  BY <1>1, <1>3 DEF Members, MetBy
<1> QED
  BY <1>1, <1>4, <1>5, EveryElementOnce, PromiseClear

LEMMA HashFirstKeeps ==
  ASSUME HashInv, HashFirst
  PROVE  HashInv' /\ Table!HashSetCall
<1>1. /\ returned' = <<"hash_first">> /\ cursor' = [bucket |-> 1, at |-> 0] /\ visited' = {}
      /\ UNCHANGED <<buckets, elem_cnt>>
  BY DEF HashFirst, HashReturn
<1>2. buckets \in Tables /\ Len(buckets) # 0
  BY DEF HashInv, TableRight
<1>3. Len(buckets) \in Nat /\ \A i \in 1 .. Len(buckets) : Len(buckets[i]) \in Nat
  BY <1>2 DEF Tables
<1>4. Met(buckets, [bucket |-> 1, at |-> 0]) = {}
  BY <1>3 DEF Met
<1>5. CursorRight'
  BY <1>1, <1>2, <1>3, <1>4 DEF CursorRight
<1>6. MetBy' = <<{}>>
  BY <1>1, PlaceIsNone DEF MetBy
<1>7. HashInv' /\ Members' = Members
  BY <1>1, <1>5, IteratorRight
<1> QED
  BY <1>1, <1>6, <1>7, PromiseFirst

LEMMA HashGoOnKeeps ==
  ASSUME HashInv, HashGoOn
  PROVE  HashInv' /\ Table!HashSetCall
<1>1. returned' = <<"none">> /\ Unchanged
  BY DEF HashGoOn
<1> QED
  BY <1>1, UnchangedRight, PromiseGoOn

\* An iteration meets the elements in the order of their places: each step adds the one it
\* comes to, and none is left when no later bucket has an element.
LEMMA NextMeets ==
  ASSUME NEW b, TableRight(b), NEW c \in [bucket : 1 .. Len(b), at : Nat], c.at <= Len(b[c.bucket]),
         NEW i \in 1 .. Len(b), NEW k \in 1 .. Len(b[i]),
         \/ i = c.bucket /\ k = c.at + 1
         \/ i > c.bucket /\ k = 1 /\ c.at = Len(b[c.bucket]) /\ (\A j \in 1 .. Len(b) : j > c.bucket /\ j < i => b[j] = <<>>)
  PROVE  /\ b[i][k] \in InTable(b) \ Met(b, c)
         /\ Met(b, [bucket |-> i, at |-> k]) = Met(b, c) \union {b[i][k]}
<1> DEFINE x == b[i][k]
<1>1. /\ b \in Tables /\ Len(b) \in Nat /\ c.bucket \in 1 .. Len(b) /\ c.at \in Nat
      /\ \A j \in 1 .. Len(b) : Len(b[j]) \in Nat /\ (b[j] = <<>> => Len(b[j]) = 0)
  BY DEF TableRight, Tables
<1>2. x \in InTable(b)
  BY <1>1, InTableIs
<1>3. \A j \in 1 .. Len(b) : \A n \in 1 .. Len(b[j]) : x = b[j][n] => j = i /\ n = k
  BY Places
<1>4. x \notin Met(b, c)
  BY <1>1, <1>3 DEF Met
<1>5. ASSUME NEW j \in 1 .. Len(b), NEW n \in 1 .. Len(b[j])
      PROVE  (j < i \/ (j = i /\ n <= k)) <=> (j < c.bucket \/ (j = c.bucket /\ n <= c.at) \/ (j = i /\ n = k))
  <2>1. j \in Nat /\ n \in Nat /\ i \in Nat /\ k \in Nat /\ n >= 1 /\ n <= Len(b[j])
    BY <1>1
  <2>2. CASE i = c.bucket /\ k = c.at + 1
    BY <1>1, <2>1, <2>2
  <2>3. CASE i > c.bucket /\ k = 1 /\ c.at = Len(b[c.bucket]) /\ (\A m \in 1 .. Len(b) : m > c.bucket /\ m < i => b[m] = <<>>)
    <3>1. ~(j > c.bucket /\ j < i)
      BY <1>1, <2>1, <2>3
    <3> QED
      BY <1>1, <2>1, <2>3, <3>1
  <2> QED
    BY <2>2, <2>3
<1>6. ASSUME NEW y
      PROVE  y \in Met(b, [bucket |-> i, at |-> k]) <=> y \in Met(b, c) \union {x}
  <2>1. y \in Met(b, [bucket |-> i, at |-> k])
        <=> y \in InTable(b) /\ \E j \in 1 .. Len(b) : \E n \in 1 .. Len(b[j]) :
                                  y = b[j][n] /\ (j < i \/ (j = i /\ n <= k))
    BY DEF Met
  <2>2. y \in Met(b, c)
        <=> y \in InTable(b) /\ \E j \in 1 .. Len(b) : \E n \in 1 .. Len(b[j]) :
                                  y = b[j][n] /\ (j < c.bucket \/ (j = c.bucket /\ n <= c.at))
    BY DEF Met
  <2>3. y = x => /\ \E j \in 1 .. Len(b) : \E n \in 1 .. Len(b[j]) : y = b[j][n] /\ (j < i \/ (j = i /\ n <= k))
    BY <1>1
  <2> QED
    BY <1>2, <1>5, <2>1, <2>2, <2>3
<1>7. Met(b, [bucket |-> i, at |-> k]) = Met(b, c) \union {x}
  BY <1>6
<1> QED
  BY <1>2, <1>4, <1>7

LEMMA EndMeetsAll ==
  ASSUME NEW b, TableRight(b), NEW c \in [bucket : 1 .. Len(b), at : Nat], c.at = Len(b[c.bucket]),
         \A j \in 1 .. Len(b) : j > c.bucket => b[j] = <<>>
  PROVE  Met(b, c) = InTable(b)
<1>1. /\ b \in Tables /\ Len(b) \in Nat /\ c.bucket \in 1 .. Len(b)
      /\ \A j \in 1 .. Len(b) : Len(b[j]) \in Nat /\ (b[j] = <<>> => Len(b[j]) = 0)
  BY DEF TableRight, Tables
<1>2. ASSUME NEW x \in InTable(b) PROVE x \in Met(b, c)
  <2>1. PICK j \in 1 .. Len(b) : \E n \in 1 .. Len(b[j]) : x = b[j][n]
    BY <1>1, InTableIs
  <2>2. PICK n \in 1 .. Len(b[j]) : x = b[j][n]
    BY <2>1
  <2>3. j < c.bucket \/ (j = c.bucket /\ n <= c.at)
    BY <1>1, <2>2
  <2> QED
    BY <2>2, <2>3 DEF Met
<1> QED
  BY <1>2 DEF Met

LEMMA HashNextKeeps ==
  ASSUME HashInv, HashNext
  PROVE  HashInv' /\ Table!HashSetCall
<1> DEFINE here == cursor.at < Len(buckets[cursor.bucket])
           later == {i \in DOMAIN buckets : i > cursor.bucket /\ buckets[i] # <<>>}
           first == CHOOSE i \in later : \A j \in later : i <= j
           to == IF here THEN [cursor EXCEPT !.at = @ + 1] ELSE [bucket |-> first, at |-> 1]
<1>1. /\ cursor # <<>> /\ UNCHANGED <<buckets, elem_cnt>>
      /\ \/ /\ ~here /\ later = {} /\ returned' = <<"hash_next", NOELEM>> /\ cursor' = <<>>
         \/ /\ here \/ later # {}
            /\ returned' = <<"hash_next", buckets[to.bucket][to.at]>>
            /\ cursor' = to /\ visited' = visited \union {buckets[to.bucket][to.at]}
  BY DEF HashNext, HashReturn
<1>2. /\ cursor \in [bucket : 1 .. Len(buckets), at : Nat] /\ cursor.at <= Len(buckets[cursor.bucket])
      /\ visited = Met(buckets, cursor) /\ TableRight(buckets)
  BY <1>1 DEF HashInv, CursorRight
<1>3. /\ DOMAIN buckets = 1 .. Len(buckets) /\ Len(buckets) \in Nat
      /\ \A i \in 1 .. Len(buckets) : Len(buckets[i]) \in Nat /\ (buckets[i] # <<>> => Len(buckets[i]) # 0)
  BY <1>2 DEF TableRight, Tables
<1>4. MetBy = <<visited>>
  BY <1>1 DEF MetBy
<1>5. CASE ~here /\ later = {}
  <2>1. returned' = <<"hash_next", NOELEM>> /\ cursor' = <<>>
    BY <1>1, <1>5
  <2>2. cursor.at = Len(buckets[cursor.bucket]) /\ \A j \in 1 .. Len(buckets) : j > cursor.bucket => buckets[j] = <<>>
    BY <1>2, <1>3, <1>5
  <2>3. visited = Members
    BY <1>2, <2>2, EndMeetsAll DEF Members
  <2>4. CursorRight' /\ MetBy' = <<>>
    BY <2>1 DEF CursorRight, MetBy
  <2>5. HashInv' /\ Members' = Members
    BY <1>1, <2>4, IteratorRight
  <2> QED
    BY <1>4, <2>1, <2>3, <2>4, <2>5, PromiseNext
<1>6. CASE here \/ later # {}
  <2>1. \E i \in 1 .. Len(buckets) : \E k \in 1 .. Len(buckets[i]) :
          /\ to = [bucket |-> i, at |-> k]
          /\ \/ i = cursor.bucket /\ k = cursor.at + 1
             \/ /\ i > cursor.bucket /\ k = 1 /\ cursor.at = Len(buckets[cursor.bucket])
                /\ \A j \in 1 .. Len(buckets) : j > cursor.bucket /\ j < i => buckets[j] = <<>>
    <3>1. CASE here
      <4>1. to = [bucket |-> cursor.bucket, at |-> cursor.at + 1]
        BY <1>2, <3>1
      <4>2. cursor.at + 1 \in 1 .. Len(buckets[cursor.bucket]) /\ cursor.bucket \in 1 .. Len(buckets)
        BY <1>2, <1>3, <3>1
      <4> HIDE DEF to
      <4> QED
        BY <4>1, <4>2
    <3>2. CASE ~here
      <4>1. later # {} /\ later \in SUBSET Nat
        BY <1>3, <1>6, <3>2
      <4>2. \E n \in later : \A j \in later : n <= j
        <5> HIDE DEF later
        <5> QED
          BY <4>1, LeastNumber
      <4>3. first \in later /\ \A j \in later : first <= j
        <5> HIDE DEF later
        <5> QED
          BY <4>2
      <4>4. to = [bucket |-> first, at |-> 1]
        BY <3>2
      <4> HIDE DEF first, to
      <4>5. first \in 1 .. Len(buckets) /\ first > cursor.bucket /\ buckets[first] # <<>>
        BY <1>3, <4>3
      <4>6. 1 \in 1 .. Len(buckets[first])
        BY <1>3, <4>5
      <4>7. cursor.at = Len(buckets[cursor.bucket])
        BY <1>2, <1>3, <3>2
      <4>8. \A j \in 1 .. Len(buckets) : j > cursor.bucket /\ j < first => buckets[j] = <<>>
        BY <1>3, <4>3, <4>5
      <4> QED
        BY <4>4, <4>5, <4>6, <4>7, <4>8
    <3> QED
      BY <3>1, <3>2
  <2>2. /\ returned' = <<"hash_next", buckets[to.bucket][to.at]>>
        /\ cursor' = to /\ visited' = visited \union {buckets[to.bucket][to.at]}
    BY <1>1, <1>6
  <2> HIDE DEF to, here, later
  <2>3. PICK i \in 1 .. Len(buckets) :
          \E k \in 1 .. Len(buckets[i]) :
            /\ to = [bucket |-> i, at |-> k]
            /\ \/ i = cursor.bucket /\ k = cursor.at + 1
               \/ /\ i > cursor.bucket /\ k = 1 /\ cursor.at = Len(buckets[cursor.bucket])
                  /\ \A j \in 1 .. Len(buckets) : j > cursor.bucket /\ j < i => buckets[j] = <<>>
    BY <2>1
  <2>4. PICK k \in 1 .. Len(buckets[i]) :
            /\ to = [bucket |-> i, at |-> k]
            /\ \/ i = cursor.bucket /\ k = cursor.at + 1
               \/ /\ i > cursor.bucket /\ k = 1 /\ cursor.at = Len(buckets[cursor.bucket])
                  /\ \A j \in 1 .. Len(buckets) : j > cursor.bucket /\ j < i => buckets[j] = <<>>
    BY <2>3
  <2> DEFINE x == buckets[i][k]
  <2>5. x \in Members \ visited /\ Met(buckets, to) = visited \union {x}
    BY <1>2, <2>4, NextMeets DEF Members
  <2>6. /\ returned' = <<"hash_next", x>> /\ cursor' = [bucket |-> i, at |-> k]
        /\ visited' = visited \union {x}
    BY <2>2, <2>4
  <2> HIDE DEF x
  <2>7. CursorRight'
    <3>1. k \in Nat /\ k <= Len(buckets[i])
      BY <1>3
    <3>2. cursor' \in [bucket : 1 .. Len(buckets), at : Nat] /\ cursor'.at <= Len(buckets[cursor'.bucket])
      BY <2>6, <3>1
    <3>3. visited' = Met(buckets, cursor')
      BY <2>4, <2>5, <2>6
    <3> QED
      BY <1>1, <3>2, <3>3 DEF CursorRight
  <2>8. MetBy' = <<visited \union {x}>>
    BY <2>6, PlaceIsNone DEF MetBy
  <2>9. HashInv' /\ Members' = Members
    BY <1>1, <2>7, IteratorRight
  <2>10. visited # Members
    BY <2>5
  <2> QED
    BY <1>4, <2>5, <2>6, <2>8, <2>9, <2>10, PromiseNext
<1> QED
  BY <1>5, <1>6
-----------------------------------------------------------------------------
LEMMA HashStarts ==
  ASSUME HashInit
  PROVE  HashInv /\ Table!HashSetInit
<1>1. /\ buckets = [i \in 1 .. MIN_BUCKETS |-> <<>>] /\ elem_cnt = 0 /\ cursor = <<>> /\ returned = <<"none">>
      /\ MIN_BUCKETS \in Nat /\ MIN_BUCKETS # 0 /\ is_power_of_2(MIN_BUCKETS)
  BY HashAssumption DEF HashInit
<1>2. TableRight(buckets) /\ InTable(buckets) = {} /\ Len(buckets) = MIN_BUCKETS
  BY <1>1, EmptyRight
<1>3. HashInv
  BY <1>1, <1>2, FS_EmptySet DEF HashInv, CursorRight
<1>4. Table!HashSetInit
  BY <1>1, <1>2 DEF Table!HashSetInit
<1> QED
  BY <1>3, <1>4

LEMMA HashStepKeeps ==
  ASSUME HashInv, [HashStep]_hashVars
  PROVE  HashInv' /\ [Table!HashSetCall]_<<InTable(buckets), IF cursor = <<>> THEN <<>> ELSE <<visited>>, returned>>
<1>1. CASE HashStep
  <2>1. ASSUME NEW e \in HashElems, HashInsert(e) \/ HashReplace(e) \/ HashDelete(e) \/ HashFind(e)
        PROVE  HashInv' /\ Table!HashSetCall
    BY <2>1, HashInsertKeeps, HashReplaceKeeps, HashDeleteKeeps, HashFindKeeps
  <2>2. ASSUME HashSize \/ HashClear \/ HashApply \/ HashFirst \/ HashNext \/ HashGoOn
        PROVE  HashInv' /\ Table!HashSetCall
    BY <2>2, HashSizeKeeps, HashClearKeeps, HashApplyKeeps, HashFirstKeeps, HashNextKeeps, HashGoOnKeeps
  <2> QED
    BY <1>1, <2>1, <2>2 DEF HashStep
<1>2. CASE UNCHANGED hashVars
  BY <1>2 DEF hashVars, HashInv, CursorRight
<1> QED
  BY <1>1, <1>2

\* The hash table keeps what hash.h promises of it, whatever it holds, however it hashes and
\* whether or not a rehash gets memory: a set without equal elements, its size, every element
\* met once by hash_apply, by the destructor and by an iteration (hash.c).
THEOREM ImplementsHashSetHolds == HashSpec => ImplementsHashSet
<1>1. HashInit => HashInv /\ Table!HashSetInit
  BY HashStarts
<1>2. HashInv /\ [HashStep]_hashVars
      => HashInv' /\ [Table!HashSetCall]_<<InTable(buckets), IF cursor = <<>> THEN <<>> ELSE <<visited>>, returned>>
  BY HashStepKeeps
<1> QED
  BY <1>1, <1>2, PTL DEF HashSpec, ImplementsHashSet, Table!HashSetSpec
-----------------------------------------------------------------------------
(***************************************************************************)
(* Archives: a header reads back as it was made, and a walk over the files *)
(* that are placed on the device meets them in order and then the marker.  *)
(***************************************************************************)
LEMMA RoundsAreFold == \A turn, x, n : Rounds(turn, x, n) = Fold(turn, x, n)
BY DEF Rounds, Fold

LEMMA RoundsKeep ==
  ASSUME NEW turn, NEW x, NEW n \in Nat, NEW I, x \in I[0],
         \A k \in 1 .. n : \A s \in I[k - 1] : turn[k][s] \in I[k]
  PROVE  Rounds(turn, x, n) \in I[n]
BY FoldKeeps, RoundsAreFold

LEMMA RoundsZero == \A turn, x : Rounds(turn, x, 0) = x
<1> SUFFICES ASSUME NEW turn, NEW x PROVE Rounds(turn, x, 0) = x
  OBVIOUS
<1>1. PICK at : at[0] = x /\ Fold(turn, x, 0) = at[0]
  BY FoldTurns
<1> QED
  BY <1>1, RoundsAreFold

\* The last turn, and the turns before it, of which the others are told by their first n.
LEMMA RoundsLast ==
  ASSUME NEW turn, NEW some, NEW x, NEW n \in Nat, \A k \in 1 .. n : some[k] = turn[k]
  PROVE  Rounds(turn, x, n + 1) = turn[n + 1][Rounds(some, x, n)]
<1>1. PICK at : /\ at[0] = x /\ Fold(turn, x, n + 1) = at[n + 1]
                /\ \A k \in 1 .. n + 1 : at[k] = turn[k][at[k - 1]]
  <2>1. n + 1 \in Nat
    OBVIOUS
  <2> QED
    BY <2>1, FoldTurns
<1> DEFINE I == [k \in 0 .. n |-> {at[k]}]
<1>2. x \in I[0]
  BY <1>1
<1>3. ASSUME NEW k \in 1 .. n, NEW s \in I[k - 1] PROVE some[k][s] \in I[k]
  <2>1. k - 1 \in 0 .. n /\ k \in 0 .. n /\ k \in 1 .. n + 1
    OBVIOUS
  <2>2. s = at[k - 1]
    BY <2>1
  <2> QED
    BY <1>1, <2>1, <2>2
<1>4. I[n] = {at[n]}
  OBVIOUS
<1> HIDE DEF I
<1>5. Rounds(some, x, n) \in I[n]
  BY <1>2, <1>3, RoundsKeep
<1>6. Rounds(some, x, n) = at[n] /\ n + 1 \in 1 .. n + 1 /\ (n + 1) - 1 = n
  BY <1>4, <1>5
<1> QED
  BY <1>1, <1>6, RoundsAreFold
-----------------------------------------------------------------------------
\* The octal fields of a header.
Letters == 1 .. magic
Octets == 0 .. magic

LEMMA ShiftedIs ==
  ASSUME NEW v \in Nat
  PROVE  /\ shifted(v, 0) = v
         /\ \A n \in Nat : shifted(v, n) \in Nat /\ shifted(v, n) <= v
         /\ \A n \in Nat : shifted(v, n + 1) = shifted(v, n) \div 8
<1> DEFINE turn(n) == [k \in 1 .. n |-> [q \in Nat |-> q \div 8]]
<1>1. shifted(v, 0) = v
  BY RoundsZero DEF shifted
<1>2. ASSUME NEW n \in Nat PROVE shifted(v, n) \in Nat /\ shifted(v, n) <= v
  <2> DEFINE I == [k \in 0 .. n |-> 0 .. v]
  <2>1. v \in I[0]
    OBVIOUS
  <2>2. ASSUME NEW k \in 1 .. n, NEW s \in I[k - 1] PROVE turn(n)[k][s] \in I[k]
    <3>1. s \in Nat /\ s <= v /\ turn(n)[k][s] = s \div 8
      OBVIOUS
    <3>2. s \div 8 \in 0 .. v
      BY <3>1
    <3> QED
      BY <3>1, <3>2
  <2>3. I[n] = 0 .. v
    OBVIOUS
  <2> HIDE DEF I, turn
  <2>4. Rounds(turn(n), v, n) \in I[n]
    BY <2>1, <2>2, RoundsKeep
  <2> QED
    BY <2>3, <2>4 DEF shifted, turn
<1>3. ASSUME NEW n \in Nat PROVE shifted(v, n + 1) = shifted(v, n) \div 8
  <2>1. \A k \in 1 .. n : turn(n)[k] = turn(n + 1)[k]
    OBVIOUS
  <2>2. \A q \in Nat : turn(n + 1)[n + 1][q] = q \div 8
    OBVIOUS
  <2>3. shifted(v, n) = Rounds(turn(n), v, n) /\ shifted(v, n + 1) = Rounds(turn(n + 1), v, n + 1)
    BY DEF shifted
  <2> HIDE DEF turn
  <2>4. Rounds(turn(n + 1), v, n + 1) = turn(n + 1)[n + 1][Rounds(turn(n), v, n)]
    BY <2>1, RoundsLast
  <2> QED
    BY <1>2, <2>2, <2>3, <2>4
<1> QED
  BY <1>1, <1>2, <1>3

LEMMA ShiftedGrows ==
  ASSUME NEW v \in Nat, NEW w \in Nat, v <= w, NEW n \in Nat
  PROVE  shifted(v, n) <= shifted(w, n)
<1> DEFINE turn == [k \in 1 .. n |-> [q \in Nat |-> q \div 8]]
           I == [k \in 0 .. n |-> 0 .. shifted(w, k)]
<1>1. v \in I[0]
  BY ShiftedIs
<1>2. ASSUME NEW k \in 1 .. n, NEW s \in I[k - 1] PROVE turn[k][s] \in I[k]
  <2>1. k - 1 \in Nat /\ k - 1 \in 0 .. n /\ (k - 1) + 1 = k
    OBVIOUS
  <2>2. shifted(w, k - 1) \in Nat /\ shifted(w, k) = shifted(w, k - 1) \div 8
    BY <2>1, ShiftedIs
  <2>3. s \in 0 .. shifted(w, k - 1)
    BY <2>1
  <2>4. s \in Nat /\ turn[k][s] = s \div 8
    BY <2>2, <2>3
  <2>5. s \div 8 \in 0 .. shifted(w, k)
    BY <2>2, <2>3
  <2>6. I[k] = 0 .. shifted(w, k)
    OBVIOUS
  <2> HIDE DEF I, turn
  <2> QED
    BY <2>4, <2>5, <2>6
<1>3. I[n] = 0 .. shifted(w, n)
  OBVIOUS
<1> HIDE DEF I, turn
<1>4. Rounds(turn, v, n) \in I[n]
  BY <1>1, <1>2, RoundsKeep
<1>5. shifted(v, n) \in 0 .. shifted(w, n)
  BY <1>3, <1>4 DEF shifted, turn
<1> QED
  BY <1>5, ShiftedIs

LEMMA FitsBelow == ASSUME NEW v \in Nat, NEW w, Fits(w), v <= w PROVE Fits(v)
<1>1. w \in Nat /\ w <= LongMax /\ shifted(w, FieldSize - 1) = 0 /\ FieldSize - 1 \in Nat /\ LongMax \in Nat
  BY ArchiveAssumption DEF Fits
<1>2. shifted(v, FieldSize - 1) <= shifted(w, FieldSize - 1) /\ shifted(v, FieldSize - 1) \in Nat
  BY <1>1, ShiftedGrows, ShiftedIs
<1> QED
  BY <1>1, <1>2 DEF Fits

\* What is read from a field is what was written to it.
LEMMA FieldReads ==
  ASSUME NEW v, Fits(v)
  PROVE  field(v) \in Seq(Octets) /\ Len(field(v)) = FieldSize /\ parse_octal_field(field(v)) = v
<1> DEFINE n == FieldSize - 1
           o == octal(v, n)
           s == o \o <<NULCH>>
           turn == [i \in 1 .. n |-> [u \in Int |-> IF u = -1 \/ u > LongMax \div 8 THEN -1
                                                     ELSE s[i] - digit(0) + u * 8]]
           I == [k \in 0 .. n |-> {shifted(v, n - k)}]
<1>1. v \in Nat /\ v <= LongMax /\ LongMax \in Nat /\ n \in Nat /\ n >= 1 /\ n + 1 = FieldSize
  BY ArchiveAssumption DEF Fits
<1> HIDE DEF n
<1>2. ASSUME NEW k \in 0 .. n
      PROVE  shifted(v, n - k) \in Nat /\ shifted(v, n - k) <= v /\ n - k \in Nat
  <2>1. n - k \in Nat
    BY <1>1
  <2> QED
    BY <1>1, <2>1, ShiftedIs
<1>3. ASSUME NEW k \in 1 .. n PROVE o[k] = digit(shifted(v, n - k) % 8) /\ o[k] \in 2 .. 9
  <2>1. shifted(v, n - k) % 8 \in 0 .. 7
    <3> DEFINE x == shifted(v, n - k)
    <3>1. x \in Nat
      BY <1>1, <1>2
    <3> HIDE DEF x
    <3>2. x % 8 \in 0 .. 7
      BY <3>1
    <3> QED
      BY <3>2 DEF x
  <2>2. o[k] = digit(shifted(v, n - k) % 8)
    BY DEF octal
  <2> QED
    BY <2>1, <2>2 DEF digit
<1>4. o \in Seq(2 .. 9) /\ Len(o) = n
  <2>1. o = [k \in 1 .. n |-> o[k]]
    BY DEF octal
  <2> HIDE DEF o
  <2> QED
    BY <1>1, <1>3, <2>1
<1> HIDE DEF o
<1>5. /\ s \in Seq(Octets) /\ Len(s) = n + 1 /\ DOMAIN s = 1 .. n + 1
      /\ \A k \in 1 .. n : s[k] = o[k]
      /\ s[n + 1] = NULCH
  BY <1>1, <1>4 DEF Octets, magic, NULCH
<1> HIDE DEF s
<1>6. {i \in DOMAIN s : ~is_digit(s[i])} = {n + 1}
  <2>1. \A k \in 1 .. n : is_digit(s[k])
    <3> SUFFICES ASSUME NEW k \in 1 .. n PROVE is_digit(s[k])
      OBVIOUS
    <3>1. s[k] \in 2 .. 9
      BY <1>3, <1>5
    <3>2. s[k] - 2 \in 0 .. 7 /\ s[k] = digit(s[k] - 2)
      BY <3>1 DEF digit
    <3> QED
      BY <3>2 DEF is_digit
  <2>2. ~is_digit(s[n + 1])
    BY <1>5 DEF is_digit, digit, NULCH
  <2> QED
    BY <1>1, <1>5, <2>1, <2>2
<1>7. lowest({n + 1}) = n + 1
  BY <1>1 DEF lowest
<1>8. Rounds(turn, 0, n) = v
  <2>1. 0 \in I[0]
    BY <1>1 DEF Fits, n
  <2>2. ASSUME NEW k \in 1 .. n, NEW u \in I[k - 1] PROVE turn[k][u] \in I[k]
    <3>1. k - 1 \in 0 .. n /\ k \in 0 .. n /\ n - k \in Nat /\ n - (k - 1) = (n - k) + 1
      BY <1>1
    <3>2. u = shifted(v, n - k) \div 8
      BY <1>1, <3>1, ShiftedIs
    <3> DEFINE x == shifted(v, n - k)
    <3>3. x \in Nat /\ x <= LongMax
      BY <1>1, <1>2, <3>1
    <3>4. s[k] - digit(0) = x % 8
      BY <1>3, <1>5, <3>3 DEF digit
    <3>9. u = x \div 8
      BY <3>2
    <3> HIDE DEF x
    <3>5. u \in Int /\ u # -1 /\ ~(u > LongMax \div 8) /\ x = (x % 8) + u * 8
      BY <1>1, <3>3, <3>9
    <3>6. turn[k][u] = s[k] - digit(0) + u * 8
      BY <3>5
    <3>7. turn[k][u] = x
      BY <3>4, <3>5, <3>6
    <3>8. I[k] = {x}
      BY <3>1 DEF x
    <3> QED
      BY <3>7, <3>8
  <2>3. I[n] = {v}
    <3>1. n \in 0 .. n /\ n - n = 0 /\ shifted(v, 0) = v
      BY <1>1, ShiftedIs
    <3> QED
      BY <3>1
  <2> HIDE DEF I, turn
  <2> QED
    BY <1>1, <2>1, <2>2, <2>3, RoundsKeep
<1>9. parse_octal_field(s) = v
  <2>1. n + 1 > 1 /\ (n + 1) - 1 = n /\ NULCH \in {SPACECH, NULCH}
    BY <1>1
  <2> QED
    BY <1>5, <1>6, <1>7, <1>8, <2>1 DEF parse_octal_field
<1>10. field(v) = s
  BY DEF field, s, o, n
<1> QED
  BY <1>1, <1>5, <1>9, <1>10

LEMMA ChksumFits ==
  ASSUME NEW h \in Seq(Octets), Len(h) = HeaderSize
  PROVE  Fits(calculate_chksum(h))
<1> DEFINE turn == [i \in DOMAIN h |-> [sum \in Nat |-> sum + (IF in_chksum_field(i) THEN SPACECH ELSE h[i])]]
           I == [k \in 0 .. Len(h) |-> 0 .. magic * k]
<1>1. Len(h) \in Nat /\ DOMAIN h = 1 .. Len(h)
  OBVIOUS
<1>2. 0 \in I[0]
  <2>1. I[0] = 0 .. magic * 0
    BY <1>1
  <2> QED
    BY <2>1 DEF magic
<1>3. ASSUME NEW k \in 1 .. Len(h), NEW s \in I[k - 1] PROVE turn[k][s] \in I[k]
  <2> DEFINE x == IF in_chksum_field(k) THEN SPACECH ELSE h[k]
  <2>1. h[k] \in Octets
    BY <1>1
  <2>2. x \in 0 .. magic
    BY <2>1 DEF Octets, SPACECH, magic
  <2>3. k - 1 \in 0 .. Len(h) /\ k \in 0 .. Len(h) /\ k \in Nat
    BY <1>1
  <2>4. s \in 0 .. magic * (k - 1)
    BY <2>3
  <2>5. s \in Nat /\ turn[k][s] = s + x
    BY <1>1, <2>3, <2>4
  <2> HIDE DEF x
  <2>6. s + x \in 0 .. magic * k
    BY <2>2, <2>3, <2>4 DEF magic
  <2> QED
    BY <2>3, <2>5, <2>6
<1>4. I[Len(h)] = 0 .. magic * HeaderSize
  BY <1>1
<1>5. calculate_chksum(h) = Rounds(turn, 0, Len(h))
  BY DEF calculate_chksum
<1> HIDE DEF I, turn
<1>6. calculate_chksum(h) \in 0 .. magic * HeaderSize
  BY <1>1, <1>2, <1>3, <1>4, <1>5, RoundsKeep
<1>7. Fits(magic * HeaderSize) /\ magic * HeaderSize \in Int
  BY ArchiveAssumption DEF Fits
<1>8. calculate_chksum(h) \in Nat /\ calculate_chksum(h) <= magic * HeaderSize
  BY <1>6, <1>7
<1> QED
  BY <1>7, <1>8, FitsBelow

\* The checksum does not depend on the field that it is in.
LEMMA ChksumSame ==
  ASSUME NEW h, NEW g, DOMAIN h = DOMAIN g, Len(h) = Len(g),
         \A i \in DOMAIN h : ~in_chksum_field(i) => h[i] = g[i]
  PROVE  calculate_chksum(h) = calculate_chksum(g)
<1> DEFINE turn(x) == [i \in DOMAIN x |-> [sum \in Nat |-> sum + (IF in_chksum_field(i) THEN SPACECH ELSE x[i])]]
<1>1. \A i \in DOMAIN h : (IF in_chksum_field(i) THEN SPACECH ELSE h[i]) = (IF in_chksum_field(i) THEN SPACECH ELSE g[i])
  OBVIOUS
<1>2. turn(h) = turn(g)
  BY <1>1
<1>3. calculate_chksum(h) = Rounds(turn(h), 0, Len(h)) /\ calculate_chksum(g) = Rounds(turn(g), 0, Len(g))
  BY DEF calculate_chksum
<1> HIDE DEF turn
<1> QED
  BY <1>2, <1>3
-----------------------------------------------------------------------------
\* Names.
LEMMA BehindSlash ==
  ASSUME NEW S, NEW t \in Seq(S), antisocial(t)
  PROVE  behind_slash(t) \in Seq(S) /\ Len(behind_slash(t)) < Len(t)
<1> DEFINE slashes == {i \in DOMAIN t : t[i] = SLASH}
           first == CHOOSE i \in DOMAIN t : t[i] = SLASH /\ \A j \in 1 .. i - 1 : t[j] # SLASH
<1>1. Len(t) \in Nat /\ DOMAIN t = 1 .. Len(t) /\ \A k \in 1 .. Len(t) : t[k] \in S
  OBVIOUS
<1>2. slashes \in SUBSET Nat /\ slashes # {}
  BY <1>1 DEF antisocial
<1>3. PICK i \in slashes : \A j \in slashes : i <= j
  <2> HIDE DEF slashes
  <2> QED
    BY <1>2, LeastNumber
<1>4. i \in DOMAIN t /\ t[i] = SLASH /\ \A j \in 1 .. i - 1 : t[j] # SLASH
  <2>1. i \in DOMAIN t /\ t[i] = SLASH
    BY <1>3
  <2>2. ASSUME NEW j \in 1 .. i - 1, t[j] = SLASH PROVE FALSE
    <3>1. j \in slashes /\ j < i
      BY <1>1, <2>1, <2>2
    <3> QED
      BY <1>1, <1>3, <3>1
  <2> QED
    BY <2>1, <2>2
<1>5. first \in DOMAIN t
  BY <1>4
<1>6. behind_slash(t) = SubSeq(t, first + 1, Len(t))
  BY DEF behind_slash
<1> HIDE DEF first, slashes
<1>7. first + 1 \in Int /\ Len(t) \in Int /\ first >= 1 /\ \A k \in first + 1 .. Len(t) : t[k] \in S
  BY <1>1, <1>5
<1>8. SubSeq(t, first + 1, Len(t)) \in Seq(S)
  BY <1>7, SubSeqProperties
<1>9. Len(SubSeq(t, first + 1, Len(t))) = IF first + 1 <= Len(t) THEN Len(t) - (first + 1) + 1 ELSE 0
  BY <1>7, SubSeqProperties
<1>10. (IF first + 1 <= Len(t) THEN Len(t) - (first + 1) + 1 ELSE 0) < Len(t)
  <2>1. \A m, n \in Nat : 1 <= m /\ m <= n => (IF m + 1 <= n THEN n - (m + 1) + 1 ELSE 0) < n
    OBVIOUS
  <2> QED
    BY <1>1, <1>5, <2>1
<1> QED
  BY <1>6, <1>8, <1>9, <1>10

\* A name is stripped once and for all: what is left is no dangerous prefix, and a name.
LEMMA StripRight ==
  ASSUME NEW s \in Seq(Letters)
  PROVE  LET t == strip_antisocial_prefixes(s)
         IN  t \in Seq(Letters) /\ strip_antisocial_prefixes(t) = t
<1> DEFINE turn(r) == [k \in 1 .. Len(r) |-> [t \in Seq(Nat) |-> IF antisocial(t) THEN behind_slash(t) ELSE t]]
           stripped(r) == Rounds(turn(r), r, Len(r))
           I == [k \in 0 .. Len(s) |-> {t \in Seq(Letters) : ~antisocial(t) \/ Len(t) <= Len(s) - k}]
<1>0. \A r : strip_antisocial_prefixes(r)
              = (IF stripped(r) \in {<<>>, <<DOT, DOT>>} THEN <<DOT>> ELSE stripped(r))
  BY DEF strip_antisocial_prefixes
<1>1. Len(s) \in Nat /\ Letters \subseteq Nat /\ DOT \in Letters
  BY DEF Letters, DOT, magic
<1>2. ASSUME NEW t \in Seq(Letters) PROVE t \in Seq(Nat) /\ Len(t) \in Nat
  <2>1. t \in Seq(Nat)
    BY <1>1, SeqMonotonic
  <2> QED
    BY <2>1
<1>3. s \in I[0]
  BY <1>1
<1>4. ASSUME NEW k \in 1 .. Len(s), NEW t \in I[k - 1] PROVE turn(s)[k][t] \in I[k]
  <2>1. k - 1 \in 0 .. Len(s) /\ k \in 0 .. Len(s)
    BY <1>1
  <2>2. t \in Seq(Letters) /\ (~antisocial(t) \/ Len(t) <= Len(s) - (k - 1)) /\ Len(t) \in Nat
    BY <1>2, <2>1
  <2>3. turn(s)[k][t] = IF antisocial(t) THEN behind_slash(t) ELSE t
    BY <1>2, <2>2
  <2>4. antisocial(t) => behind_slash(t) \in Seq(Letters) /\ Len(behind_slash(t)) < Len(t)
    BY <2>2, BehindSlash
  <2>5. antisocial(t) => Len(behind_slash(t)) <= Len(s) - k
    BY <1>1, <1>2, <2>2, <2>4
  <2> QED
    BY <2>1, <2>2, <2>3, <2>4, <2>5
<1>5. I[Len(s)] = {t \in Seq(Letters) : ~antisocial(t) \/ Len(t) <= Len(s) - Len(s)}
  BY <1>1
<1>6. stripped(s) \in I[Len(s)]
  <2> HIDE DEF I, turn
  <2> QED
    BY <1>1, <1>3, <1>4, RoundsKeep
<1>7. stripped(s) \in Seq(Letters) /\ ~antisocial(stripped(s))
  <2>1. stripped(s) \in Seq(Letters) /\ (~antisocial(stripped(s)) \/ Len(stripped(s)) <= 0)
    <3> HIDE DEF stripped
    <3> QED
      BY <1>1, <1>5, <1>6
  <2> HIDE DEF stripped
  <2> QED
    BY <1>2, <2>1 DEF antisocial
<1>8. ASSUME NEW t \in Seq(Letters), ~antisocial(t), t \notin {<<>>, <<DOT, DOT>>}
      PROVE  strip_antisocial_prefixes(t) = t
  <2> DEFINE J == [k \in 0 .. Len(t) |-> {t}]
  <2>1. t \in J[0] /\ Len(t) \in Nat /\ J[Len(t)] = {t}
    BY <1>2
  <2>2. \A k \in 1 .. Len(t) : turn(t)[k][t] = t
    BY <1>2, <1>8
  <2>3. \A k \in 1 .. Len(t) : J[k - 1] = {t} /\ J[k] = {t}
    BY <2>1
  <2> HIDE DEF J, turn
  <2>4. stripped(t) \in J[Len(t)]
    BY <2>1, <2>2, <2>3, RoundsKeep
  <2> HIDE DEF stripped
  <2> QED
    BY <1>0, <1>8, <2>1, <2>4
<1>9. <<DOT>> \in Seq(Letters) /\ ~antisocial(<<DOT>>) /\ <<DOT>> \notin {<<>>, <<DOT, DOT>>}
  BY <1>1 DEF antisocial, DOT, SLASH
<1> HIDE DEF stripped, turn, I
<1> QED
  BY <1>0, <1>7, <1>8, <1>9
-----------------------------------------------------------------------------
\* A header, put together and taken apart.
\* u is s and then t.
Both(u, s, t) ==
  /\ u \in Seq(Octets) /\ Len(u) = Len(s) + Len(t)
  /\ \A i \in 1 .. Len(s) : u[i] = s[i]
  /\ \A i \in 1 .. Len(t) : u[Len(s) + i] = t[i]

LEMMA TwoParts == ASSUME NEW s \in Seq(Octets), NEW t \in Seq(Octets) PROVE Both(s \o t, s, t)
<1>1. Len(s) \in Nat /\ Len(t) \in Nat
  OBVIOUS
<1>2. s \o t \in Seq(Octets) /\ Len(s \o t) = Len(s) + Len(t)
  OBVIOUS
<1>3. ASSUME NEW i \in 1 .. Len(s) PROVE (s \o t)[i] = s[i]
  BY <1>1
<1>4. ASSUME NEW i \in 1 .. Len(t) PROVE (s \o t)[Len(s) + i] = t[i]
  <2>1. /\ Len(s) + i \in 1 .. Len(s) + Len(t)
        /\ ~(Len(s) + i <= Len(s)) /\ (Len(s) + i) - Len(s) = i
    BY <1>1
  <2> QED
    BY <2>1
<1> QED
  BY <1>2, <1>3, <1>4 DEF Both

LEMMA Piece ==
  ASSUME NEW S, NEW h \in Seq(S), NEW a \in Seq(S), NEW m \in Nat,
         m + Len(a) <= Len(h), \A i \in 1 .. Len(a) : h[m + i] = a[i]
  PROVE  SubSeq(h, m + 1, m + Len(a)) = a
<1> DEFINE n == Len(a)
           q == SubSeq(h, m + 1, m + n)
<1>0. n \in Nat /\ m + n <= Len(h) /\ Len(h) \in Nat /\ \A i \in 1 .. n : h[m + i] = a[i]
  OBVIOUS
<1>9. a \in Seq(S) /\ Len(a) = n
  OBVIOUS
<1> HIDE DEF n
<1>1. \A i \in m + 1 .. m + n : h[i] \in S
  BY <1>0
<1>2. /\ m + 1 \in Int /\ m + n \in Int /\ (m + n) - (m + 1) + 1 = n
      /\ (IF m + 1 <= m + n THEN (m + n) - (m + 1) + 1 ELSE 0) = n
  BY <1>0
<1>3. q \in Seq(S)
  BY <1>1, <1>2, SubSeqProperties
<1>4. Len(q) = (IF m + 1 <= m + n THEN (m + n) - (m + 1) + 1 ELSE 0)
  BY <1>1, <1>2, SubSeqProperties
<1>5. \A i \in 1 .. (m + n) - (m + 1) + 1 : q[i] = h[(m + 1) + i - 1]
  BY <1>1, <1>2, SubSeqProperties
<1> HIDE DEF q
<1>6. \A i \in 1 .. n : (m + 1) + i - 1 = m + i
  BY <1>0
<1>7. \A i \in 1 .. n : q[i] = a[i]
  BY <1>0, <1>2, <1>5, <1>6
<1>8. q = a
  BY <1>2, <1>3, <1>4, <1>7, <1>9, SeqEqual
<1> QED
  BY <1>8 DEF q, n

\* A header of its three fields and the two octets behind them.
Joined(p, a, c) == (p \o a) \o c \o <<typeflag, magic>>

IsHeader(h, p, a, c) ==
  /\ h \in Seq(Octets) /\ Len(h) = HeaderSize /\ DOMAIN h = 1 .. HeaderSize
  /\ \A i \in 1 .. NameSize : h[i] = p[i]
  /\ \A i \in 1 .. FieldSize : h[NameSize + i] = a[i]
  /\ h[HeaderSize - 1] = typeflag /\ h[HeaderSize] = magic
  /\ SubSeq(h, NameSize + 1, ChksumPlace) = a
  /\ SubSeq(h, ChksumPlace + 1, ChksumPlace + FieldSize) = c

LEMMA HeaderParts ==
  ASSUME NEW p \in Seq(Octets), Len(p) = NameSize, NEW a \in Seq(Octets), Len(a) = FieldSize,
         NEW c \in Seq(Octets), Len(c) = FieldSize
  PROVE  IsHeader(Joined(p, a, c), p, a, c)
<1> DEFINE e == <<typeflag, magic>>
           h == (p \o a) \o c \o e
<1>1. NameSize \in Nat /\ FieldSize \in Nat /\ NameSize >= 1 /\ FieldSize >= 1
  BY ArchiveAssumption
<1>2. e \in Seq(Octets) /\ Len(e) = 2 /\ e[1] = typeflag /\ e[2] = magic
  BY DEF typeflag, magic, Octets
<1> HIDE DEF e
<1>3. /\ h \in Seq(Octets) /\ Len(h) = NameSize + FieldSize + FieldSize + 2
      /\ \A i \in 1 .. NameSize : h[i] = p[i]
      /\ \A i \in 1 .. FieldSize : h[NameSize + i] = a[i]
      /\ \A i \in 1 .. FieldSize : h[NameSize + FieldSize + i] = c[i]
      /\ h[NameSize + FieldSize + FieldSize + 1] = e[1] /\ h[NameSize + FieldSize + FieldSize + 2] = e[2]
  <2> DEFINE pa == p \o a   pac == pa \o c   m == NameSize + FieldSize   n == m + FieldSize
  <2>0. m \in Nat /\ n \in Nat
    BY <1>1
  <2>1. /\ pa \in Seq(Octets) /\ Len(pa) = m
        /\ \A i \in 1 .. NameSize : pa[i] = p[i]
        /\ \A i \in 1 .. FieldSize : pa[NameSize + i] = a[i]
    <3>1. Both(p \o a, p, a)
      BY TwoParts
    <3> HIDE DEF pa, m
    <3>2. Both(pa, p, a)
      BY <3>1 DEF pa
    <3> QED
      BY <3>2 DEF Both, m
  <2> HIDE DEF pa
  <2>2. /\ pac \in Seq(Octets) /\ Len(pac) = n
        /\ \A i \in 1 .. m : pac[i] = pa[i]
        /\ \A i \in 1 .. FieldSize : pac[m + i] = c[i]
    <3> HIDE DEF m
    <3>1. Both(pa \o c, pa, c)
      BY <2>1, TwoParts
    <3> HIDE DEF pac
    <3>2. Both(pac, pa, c)
      BY <3>1 DEF pac
    <3> QED
      BY <2>1, <3>2 DEF Both
  <2> HIDE DEF pac
  <2>3. /\ pac \o e \in Seq(Octets) /\ Len(pac \o e) = n + 2
        /\ \A i \in 1 .. n : (pac \o e)[i] = pac[i]
        /\ (pac \o e)[n + 1] = e[1] /\ (pac \o e)[n + 2] = e[2]
    <3>1. /\ pac \o e \in Seq(Octets) /\ Len(pac \o e) = n + 2
          /\ \A i \in 1 .. n : (pac \o e)[i] = pac[i]
          /\ \A i \in 1 .. 2 : (pac \o e)[n + i] = e[i]
      <4> HIDE DEF n
      <4>1. Both(pac \o e, pac, e)
        BY <1>2, <2>2, TwoParts
      <4> QED
        BY <1>2, <2>2, <4>1 DEF Both
    <3>2. 1 \in 1 .. 2 /\ 2 \in 1 .. 2
      OBVIOUS
    <3> HIDE DEF n
    <3> QED
      BY <3>1, <3>2
  <2>4. h = pac \o e
    BY DEF pac, pa
  <2> HIDE DEF h
  <2>5. \A i \in 1 .. NameSize : h[i] = p[i]
    BY <1>1, <2>1, <2>2, <2>3, <2>4
  <2>6. ASSUME NEW i \in 1 .. FieldSize
        PROVE  h[NameSize + i] = a[i] /\ h[NameSize + FieldSize + i] = c[i]
    <3>1. NameSize + i \in 1 .. NameSize + FieldSize /\ NameSize + i \in 1 .. NameSize + FieldSize + FieldSize
          /\ NameSize + FieldSize + i \in 1 .. NameSize + FieldSize + FieldSize
      BY <1>1
    <3> QED
      BY <2>1, <2>2, <2>3, <2>4, <3>1
  <2> QED
    BY <2>3, <2>4, <2>5, <2>6
<1> HIDE DEF h
<1>4. HeaderSize = NameSize + FieldSize + FieldSize + 2 /\ ChksumPlace = NameSize + FieldSize
  BY <1>1 DEF HeaderSize, ChksumPlace
<1>5. SubSeq(h, NameSize + 1, NameSize + FieldSize) = a
  <2>1. NameSize + FieldSize <= Len(h)
    BY <1>1, <1>3
  <2>2. NameSize + Len(a) <= Len(h) /\ \A i \in 1 .. Len(a) : h[NameSize + i] = a[i]
    BY <1>3, <2>1
  <2>3. SubSeq(h, NameSize + 1, NameSize + Len(a)) = a
    BY <1>1, <1>3, <2>2, Piece
  <2> QED
    BY <2>3
<1>6. SubSeq(h, NameSize + FieldSize + 1, NameSize + FieldSize + FieldSize) = c
  <2> DEFINE m == NameSize + FieldSize
  <2>1. m \in Nat /\ m + FieldSize <= Len(h) /\ \A i \in 1 .. FieldSize : h[m + i] = c[i]
    BY <1>1, <1>3
  <2> HIDE DEF m
  <2>2. m + Len(c) <= Len(h) /\ \A i \in 1 .. Len(c) : h[m + i] = c[i]
    BY <2>1
  <2>3. SubSeq(h, m + 1, m + Len(c)) = c
    BY <1>3, <2>1, <2>2, Piece
  <2> QED
    BY <2>3 DEF m
<1>7. HeaderSize - 1 = NameSize + FieldSize + FieldSize + 1 /\ DOMAIN h = 1 .. HeaderSize
  BY <1>1, <1>3, <1>4
<1>8. IsHeader(h, p, a, c)
  BY <1>2, <1>3, <1>4, <1>5, <1>6, <1>7 DEF IsHeader
<1>9. Joined(p, a, c) = h
  BY DEF Joined, h, e
<1> QED
  BY <1>8, <1>9

LEMMA PaddedIs ==
  ASSUME NEW s \in Seq(Letters), Len(s) <= NameSize - 1
  PROVE  /\ padded(s, NameSize) \in Seq(Octets) /\ Len(padded(s, NameSize)) = NameSize
         /\ \A i \in 1 .. Len(s) : padded(s, NameSize)[i] = s[i] /\ s[i] # NULCH
         /\ \A i \in Len(s) + 1 .. NameSize : padded(s, NameSize)[i] = NULCH
<1> DEFINE n == NameSize - Len(s)
           z == [i \in 1 .. n |-> NULCH]
<1>1. NameSize \in Nat /\ Len(s) \in Nat /\ n \in Nat /\ Len(s) + n = NameSize
  BY ArchiveAssumption
<1>2. s \in Seq(Octets) /\ NULCH \in Octets
  <2>1. Letters \subseteq Octets /\ NULCH \in Octets
    BY DEF Letters, Octets, magic, NULCH
  <2>2. s \in Seq(Octets)
    BY <2>1, SeqMonotonic
  <2> QED
    BY <2>1, <2>2
<1>3. \A i \in 1 .. Len(s) : s[i] # NULCH
  BY DEF Letters, NULCH, magic
<1> HIDE DEF n
<1>4. z \in Seq(Octets) /\ Len(z) = n /\ \A i \in 1 .. n : z[i] = NULCH
  BY <1>1, <1>2
<1> HIDE DEF z
<1>5. /\ s \o z \in Seq(Octets) /\ Len(s \o z) = NameSize
      /\ \A i \in 1 .. Len(s) : (s \o z)[i] = s[i]
      /\ \A i \in Len(s) + 1 .. NameSize : i - Len(s) \in 1 .. n /\ (s \o z)[i] = z[i - Len(s)]
  BY <1>1, <1>2, <1>4
<1>6. padded(s, NameSize) = s \o z
  BY DEF padded, z, n
<1> QED
  BY <1>3, <1>4, <1>5, <1>6

\* A header reads back as it was made.
LEMMA HeaderReads ==
  ASSUME NEW name \in Seq(Letters), NEW size, Fits(size)
  PROVE  LET h == ustar_make_header(name, size)
         IN  h = <<>> \/ ustar_parse_header(h)
                         = [type |-> "file", name |-> strip_antisocial_prefixes(name), size |-> size]
<1> DEFINE s == strip_antisocial_prefixes(name)
           p == padded(s, NameSize)
           z == [i \in 1 .. FieldSize |-> NULCH]
           blank == Joined(p, field(size), z)
           c == field(calculate_chksum(blank))
           h == Joined(p, field(size), c)
<1>1. s \in Seq(Letters) /\ strip_antisocial_prefixes(s) = s
  BY StripRight
<1>2. ustar_make_header(name, size) = IF Len(s) > NameSize - 1 THEN <<>> ELSE h
  BY DEF ustar_make_header, Joined
<1> HIDE DEF s
<1> SUFFICES ASSUME ~(Len(s) > NameSize - 1)
             PROVE  ustar_parse_header(h) = [type |-> "file", name |-> s, size |-> size]
  BY <1>2 DEF s
<1>3. NameSize \in Nat /\ NameSize >= 1 /\ Len(s) \in Nat /\ Len(s) <= NameSize - 1 /\ FieldSize \in Nat
  BY <1>1, ArchiveAssumption
<1>4. /\ p \in Seq(Octets) /\ Len(p) = NameSize
      /\ \A i \in 1 .. Len(s) : p[i] = s[i] /\ s[i] # NULCH
      /\ \A i \in Len(s) + 1 .. NameSize : p[i] = NULCH
  BY <1>1, <1>3, PaddedIs
<1>5. field(size) \in Seq(Octets) /\ Len(field(size)) = FieldSize /\ parse_octal_field(field(size)) = size
  BY FieldReads
<1>6. z \in Seq(Octets) /\ Len(z) = FieldSize
  BY <1>3 DEF NULCH, Octets, magic
<1> HIDE DEF p, z
<1>7. /\ blank \in Seq(Octets) /\ Len(blank) = HeaderSize /\ DOMAIN blank = 1 .. HeaderSize
      /\ \A i \in 1 .. NameSize : blank[i] = p[i]
      /\ \A i \in 1 .. FieldSize : blank[NameSize + i] = field(size)[i]
      /\ blank[HeaderSize - 1] = typeflag /\ blank[HeaderSize] = magic
  <2>1. IsHeader(blank, p, field(size), z)
    BY <1>4, <1>5, <1>6, HeaderParts
  <2> HIDE DEF blank
  <2> QED
    BY <2>1 DEF IsHeader
<1>8. Fits(calculate_chksum(blank))
  BY <1>7, ChksumFits
<1>9. c \in Seq(Octets) /\ Len(c) = FieldSize /\ parse_octal_field(c) = calculate_chksum(blank)
  BY <1>8, FieldReads
<1> HIDE DEF c, blank
<1>10. /\ h \in Seq(Octets) /\ Len(h) = HeaderSize /\ DOMAIN h = 1 .. HeaderSize
       /\ \A i \in 1 .. NameSize : h[i] = p[i]
       /\ \A i \in 1 .. FieldSize : h[NameSize + i] = field(size)[i]
       /\ h[HeaderSize - 1] = typeflag /\ h[HeaderSize] = magic
       /\ SubSeq(h, NameSize + 1, ChksumPlace) = field(size)
       /\ SubSeq(h, ChksumPlace + 1, ChksumPlace + FieldSize) = c
  <2>1. IsHeader(h, p, field(size), c)
    BY <1>4, <1>5, <1>9, HeaderParts
  <2> HIDE DEF h
  <2> QED
    BY <2>1 DEF IsHeader
<1> HIDE DEF h
<1>11. calculate_chksum(h) = calculate_chksum(blank)
  <2>1. ASSUME NEW i \in 1 .. HeaderSize, ~in_chksum_field(i) PROVE h[i] = blank[i]
    <3>1. \/ i \in 1 .. NameSize
          \/ i - NameSize \in 1 .. FieldSize /\ i = NameSize + (i - NameSize)
          \/ i = HeaderSize - 1 \/ i = HeaderSize
      BY <1>3, <2>1 DEF in_chksum_field, ChksumPlace, HeaderSize
    <3> QED
      BY <1>7, <1>10, <3>1
  <2> QED
    BY <1>7, <1>10, <2>1, ChksumSame
<1>12. SubSeq(h, 1, lowest({i \in DOMAIN h : h[i] = NULCH}) - 1) = s
  <2> DEFINE nuls == {i \in DOMAIN h : h[i] = NULCH}
             m == Len(s) + 1
  <2>1. m \in nuls /\ m \in Nat /\ m <= NameSize /\ m <= HeaderSize
    BY <1>3, <1>4, <1>10 DEF HeaderSize
  <2>2. ASSUME NEW j \in nuls PROVE m <= j /\ j \in Nat
    <3>1. j \in 1 .. HeaderSize /\ h[j] = NULCH /\ HeaderSize \in Nat
      BY <1>3, <1>10 DEF HeaderSize
    <3>2. j \notin 1 .. Len(s)
      BY <1>3, <1>4, <1>10, <3>1
    <3> QED
      BY <1>3, <3>1, <3>2 DEF m
  <2> HIDE DEF nuls, m
  <2>3. lowest(nuls) = m
    <3>1. \E i \in nuls : \A j \in nuls : i <= j
      BY <2>1, <2>2
    <3>2. lowest(nuls) \in nuls /\ \A j \in nuls : lowest(nuls) <= j
      BY <3>1 DEF lowest
    <3>3. lowest(nuls) \in Nat /\ m <= lowest(nuls) /\ lowest(nuls) <= m
      BY <2>1, <2>2, <3>2
    <3> QED
      BY <2>1, <3>3
  <2>4. m - 1 = Len(s)
    BY <1>3 DEF m
  <2>5. SubSeq(h, 1, Len(s)) = s
    <3>1. s \in Seq(Octets)
      <4>1. Letters \subseteq Octets
        BY DEF Letters, Octets, magic
      <4> QED
        BY <1>1, <4>1, SeqMonotonic
    <3>2. \A i \in 1 .. Len(s) : h[0 + i] = s[i]
      BY <1>3, <1>4, <1>10
    <3>3. 0 + Len(s) <= Len(h) /\ 0 + 1 = 1 /\ 0 + Len(s) = Len(s) /\ 0 \in Nat
      BY <1>3, <1>10 DEF HeaderSize
    <3>4. SubSeq(h, 0 + 1, 0 + Len(s)) = s
      BY <1>10, <3>1, <3>2, <3>3, Piece
    <3> QED
      BY <3>3, <3>4
  <2> QED
    BY <2>3, <2>4, <2>5 DEF nuls
<1>13. HeaderSize \in DOMAIN h /\ h[HeaderSize] # NULCH /\ h[NameSize] = NULCH /\ size # -1 /\ calculate_chksum(blank) # -1
  <2>1. HeaderSize \in 1 .. HeaderSize /\ NameSize \in 1 .. NameSize /\ NameSize \in Len(s) + 1 .. NameSize
    BY <1>3 DEF HeaderSize
  <2>2. size \in Nat /\ calculate_chksum(blank) \in Nat
    BY <1>8, ArchiveAssumption DEF Fits
  <2>3. magic # NULCH
    BY DEF magic, NULCH
  <2> QED
    BY <1>4, <1>10, <2>1, <2>2, <2>3
<1> QED
  BY <1>1, <1>5, <1>9, <1>10, <1>11, <1>12, <1>13 DEF ustar_parse_header
-----------------------------------------------------------------------------
\* The file f is at sector s of the device.
FileAt(dev, s, f) ==
  /\ ustar_parse_header(dev[s]) = [type |-> "file", name |-> f.name, size |-> Len(f.chunks)]
  /\ \A i \in 1 .. Len(f.chunks) : dev[s + i] = f.chunks[i]

\* The files of app, one behind the other on the device: the k-th begins at pos[k].
Placed(dev, app, pos) ==
  /\ pos \in [1 .. Len(app) + 1 -> 0 .. ScratchSize - 1] /\ pos[1] = 0
  /\ \A k \in 1 .. Len(app) + 1 : k - 1 <= pos[k]
  /\ \A k \in 1 .. Len(app) :
       /\ pos[k + 1] = pos[k] + Len(app[k].chunks) + 1 /\ pos[k + 1] <= pos[Len(app) + 1]
       /\ FileAt(dev, pos[k], app[k])

\* They end at sector e.
FilesEnd(dev, app, e) == \E pos : Placed(dev, app, pos) /\ e = pos[Len(app) + 1]

\* While the archive is intact the files that were appended are placed on the device, the
\* marker is behind them, and what is appended next goes there.
ArchiveInv ==
  /\ DOMAIN scratch = 0 .. ScratchSize - 1
  /\ append_sector \in 0 .. ScratchSize - 1
  /\ appended \in Seq(ArchiveFiles)
  /\ intact => \E e : /\ FilesEnd(scratch, appended, e) /\ scratch[e] = zeros
                      /\ append_sector # 0 => append_sector = e

LEMMA FileIs == ASSUME NEW f \in ArchiveFiles
                PROVE  /\ f.name \in Seq(Nat) /\ f.chunks \in Seq(Seq(Nat))
                       /\ f = [name |-> f.name, chunks |-> f.chunks]
BY DEF ArchiveFiles

LEMMA ZerosEnd == ustar_parse_header(zeros) = [type |-> "eof"]
BY DEF zeros, ustar_parse_header

\* One turn of the walk, which meets a file.
LEMMA MeetsFile ==
  ASSUME NEW w \in Walks, w.state = "more", w.at < ScratchSize, NEW f \in ArchiveFiles,
         FileAt(scratch, w.at, f), w.at + Len(f.chunks) < ScratchSize,
         \A g \in w.files : g.name # f.name
  PROVE  put_file(w) = [files |-> w.files \union {f}, at |-> w.at + Len(f.chunks) + 1, state |-> "more"]
<1> DEFINE s == w.at   n == Len(f.chunks)   h == ustar_parse_header(scratch[s])
           c == [i \in 1 .. n |-> IF s + i < ScratchSize THEN scratch[s + i] ELSE zeros]
<1>1. s \in Nat /\ n \in Nat /\ ScratchSize \in Nat
  BY FileIs, ArchiveAssumption DEF Walks
<1>2. h.type = "file" /\ h.name = f.name /\ h.size = n
  BY DEF FileAt
<1>3. c = f.chunks
  <2>1. ASSUME NEW i \in 1 .. n PROVE c[i] = f.chunks[i]
    <3>1. s + i < ScratchSize
      BY <1>1
    <3> QED
      BY <3>1 DEF FileAt
  <2>2. f.chunks = [i \in 1 .. n |-> f.chunks[i]]
    <3>1. f.chunks \in Seq(Seq(Nat))
      BY FileIs
    <3>2. \A q \in Seq(Seq(Nat)) : q = [i \in 1 .. Len(q) |-> q[i]]
      OBVIOUS
    <3> QED
      BY <3>1, <3>2
  <2> QED
    BY <2>1, <2>2
<1>4. [name |-> h.name, chunks |-> c] = f
  <2> HIDE DEF c, h
  <2> QED
    BY <1>2, <1>3, FileIs
<1>5. put_file(w) = (LET g == [name |-> h.name, chunks |-> [i \in 1 .. h.size |-> IF s + i < ScratchSize THEN scratch[s + i] ELSE zeros]]
                     IN  [files |-> w.files \union {g}, at |-> s + h.size + 1, state |-> "more"])
  <2>1. s < ScratchSize /\ ~(s + h.size >= ScratchSize) /\ ~(h.type = "eof")
        /\ ~(h.type = "error" \/ \E g \in w.files : g.name = h.name) /\ ~(w.state # "more")
    BY <1>1, <1>2
  <2> HIDE DEF h, s
  <2> QED
    BY <2>1 DEF put_file, h, s
<1>6. put_file(w) = [files |-> w.files \union {[name |-> h.name, chunks |-> c]}, at |-> s + n + 1, state |-> "more"]
  <2> HIDE DEF h, s, n
  <2> QED
    BY <1>2, <1>5
<1> QED
  BY <1>4, <1>6

\* The walk over files that are placed.
LEMMA WalkIs ==
  ASSUME ArchiveInv, intact, \A i, j \in DOMAIN appended : appended[i].name = appended[j].name => i = j
  PROVE  extracted({}).state = "done" /\ extracted({}).files = {appended[i] : i \in DOMAIN appended}
<1> DEFINE n == Len(appended)   first(k) == {appended[i] : i \in 1 .. k}
<1>1. n \in Nat /\ DOMAIN appended = 1 .. n /\ \A k \in 1 .. n : appended[k] \in ArchiveFiles
  BY DEF ArchiveInv
<1>2. PICK pos : Placed(scratch, appended, pos) /\ scratch[pos[n + 1]] = zeros
  BY DEF ArchiveInv, FilesEnd
<1> DEFINE met(k) == IF k <= n THEN [files |-> first(k), at |-> pos[k + 1], state |-> "more"]
                     ELSE [files |-> first(n), at |-> pos[n + 1] + 1, state |-> "done"]
           I == [k \in 0 .. ScratchSize + 1 |-> {met(k)}]
           turn == [k \in 1 .. ScratchSize + 1 |-> [w \in Walks |-> put_file(w)]]
           x == [files |-> {}, at |-> 0, state |-> "more"]
<1>3. /\ ScratchSize \in Nat /\ ScratchSize >= 1
      /\ \A k \in 1 .. n + 1 : pos[k] \in Nat /\ pos[k] < ScratchSize
      /\ pos[1] = 0 /\ n <= pos[n + 1]
  <2>1. ScratchSize \in Nat /\ ScratchSize >= 1
    BY ArchiveAssumption
  <2> HIDE DEF n
  <2>2. pos \in [1 .. n + 1 -> 0 .. ScratchSize - 1] /\ pos[1] = 0 /\ \A k \in 1 .. n + 1 : k - 1 <= pos[k]
    BY <1>2 DEF Placed, n
  <2>3. n + 1 \in 1 .. n + 1 /\ (n + 1) - 1 = n
    BY <1>1
  <2> QED
    BY <2>1, <2>2, <2>3
<1> HIDE DEF n
<1>4. ASSUME NEW k \in 0 .. ScratchSize + 1 PROVE met(k) \in Walks
  <2>1. CASE k <= n
    <3>1. k + 1 \in 1 .. n + 1 /\ first(k) \subseteq ArchiveFiles
      BY <1>1, <1>3, <2>1
    <3>2. pos[k + 1] \in Nat
      BY <1>3, <3>1
    <3> HIDE DEF first
    <3> QED
      BY <2>1, <3>1, <3>2 DEF Walks
  <2>2. CASE ~(k <= n)
    <3>1. n + 1 \in 1 .. n + 1 /\ first(n) \subseteq ArchiveFiles
      BY <1>1
    <3>2. pos[n + 1] + 1 \in Nat
      BY <1>3, <3>1
    <3> HIDE DEF first
    <3> QED
      BY <2>2, <3>1, <3>2 DEF Walks
  <2> QED
    BY <2>1, <2>2
<1>5. ASSUME NEW k \in 1 .. ScratchSize + 1 PROVE put_file(met(k - 1)) = met(k)
  <2>0. k \in Nat /\ k >= 1 /\ k - 1 \in 0 .. ScratchSize + 1 /\ (k - 1) + 1 = k
    BY <1>3
  <2>1. CASE k <= n
    <3> DEFINE w == met(k - 1)   f == appended[k]
    <3>1. k - 1 <= n /\ k \in 1 .. n /\ k \in 1 .. n + 1 /\ k + 1 \in 1 .. n + 1
      BY <1>1, <2>0, <2>1
    <3>2. w = [files |-> first(k - 1), at |-> pos[k], state |-> "more"]
      BY <2>0, <3>1
    <3>3. w.files = first(k - 1) /\ w.at = pos[k] /\ w.state = "more"
      <4> HIDE DEF w, first
      <4> QED
        BY <3>2
    <3>4. w \in Walks
      BY <1>4, <2>0
    <3>5. f \in ArchiveFiles
      BY <1>1, <3>1
    <3>6. pos[k + 1] = pos[k] + Len(f.chunks) + 1 /\ FileAt(scratch, pos[k], f)
      BY <1>2, <3>1 DEF Placed, n
    <3>7. pos[k] < ScratchSize /\ pos[k] + Len(f.chunks) < ScratchSize
      <4>1. Len(f.chunks) \in Nat
        BY <3>5, FileIs
      <4>2. pos[k] \in Nat /\ pos[k] < ScratchSize /\ pos[k + 1] \in Nat /\ pos[k + 1] < ScratchSize
        BY <1>3, <3>1
      <4> HIDE DEF f
      <4> QED
        BY <1>3, <3>6, <4>1, <4>2
    <3>8. \A g \in first(k - 1) : g.name # f.name
      <4> SUFFICES ASSUME NEW i \in 1 .. k - 1, appended[i].name = f.name PROVE FALSE
        OBVIOUS
      <4>1. i \in 1 .. n /\ i # k
        BY <1>1, <3>1
      <4> QED
        BY <1>1, <3>1, <4>1
    <3>9. first(k) = first(k - 1) \union {f}
      <4>1. 1 .. k = (1 .. k - 1) \union {k}
        BY <2>0
      <4> QED
        BY <4>1
    <3>10. met(k) = [files |-> first(k), at |-> pos[k + 1], state |-> "more"]
      BY <2>1
    <3> HIDE DEF w, f, first, met
    <3>11. put_file(w) = [files |-> first(k - 1) \union {f}, at |-> pos[k] + Len(f.chunks) + 1, state |-> "more"]
      BY <3>3, <3>4, <3>5, <3>6, <3>7, <3>8, MeetsFile
    <3> QED
      BY <3>6, <3>9, <3>10, <3>11 DEF w
  <2>2. CASE k = n + 1
    <3> DEFINE w == met(k - 1)
    <3>1. w = [files |-> first(n), at |-> pos[n + 1], state |-> "more"]
      <4>1. k - 1 = n /\ n <= n
        BY <1>1, <2>2
      <4> HIDE DEF first
      <4> QED
        BY <4>1
    <3>2. met(k) = [files |-> first(n), at |-> pos[n + 1] + 1, state |-> "done"]
      BY <1>1, <2>2
    <3>3. n + 1 \in 1 .. n + 1
      BY <1>1
    <3>4. pos[n + 1] < ScratchSize
      BY <1>3, <3>3
    <3> HIDE DEF w, first, met
    <3>5. ustar_parse_header(scratch[w.at]).type = "eof" /\ w.at < ScratchSize /\ w.state = "more"
      BY <1>2, <3>1, <3>4, ZerosEnd
    <3>6. put_file(w) = [files |-> w.files, at |-> w.at + 1, state |-> "done"]
      BY <3>5 DEF put_file
    <3> QED
      BY <3>1, <3>2, <3>6 DEF w
  <2>3. CASE k > n + 1
    <3>1. ~(k <= n) /\ ~(k - 1 <= n)
      BY <1>1, <2>0, <2>3
    <3>2. met(k - 1) = met(k) /\ met(k).state # "more"
      BY <3>1
    <3> HIDE DEF met
    <3> QED
      BY <3>2 DEF put_file
  <2> QED
    BY <1>1, <2>0, <2>1, <2>2, <2>3
<1>6. x \in I[0]
  <2>1. 0 <= n /\ 0 + 1 = 1 /\ 0 \in 0 .. ScratchSize + 1 /\ first(0) = {}
    BY <1>1, <1>3
  <2> HIDE DEF first
  <2>2. met(0) = x
    BY <1>3, <2>1
  <2> HIDE DEF met, x
  <2> QED
    BY <2>1, <2>2
<1>7. ASSUME NEW k \in 1 .. ScratchSize + 1, NEW w \in I[k - 1] PROVE turn[k][w] \in I[k]
  <2>1. k - 1 \in 0 .. ScratchSize + 1 /\ k \in 0 .. ScratchSize + 1
    BY <1>3
  <2> HIDE DEF met
  <2>2. w = met(k - 1)
    BY <2>1
  <2>3. w \in Walks
    BY <1>4, <2>1, <2>2
  <2>4. turn[k][w] = put_file(w)
    BY <2>3
  <2> QED
    BY <1>5, <2>1, <2>2, <2>4
<1>8. ScratchSize + 1 \in Nat /\ ScratchSize + 1 \in 0 .. ScratchSize + 1
  BY <1>3
<1>9. I[ScratchSize + 1] = {met(ScratchSize + 1)}
  BY <1>8
<1>10. extracted({}) = Rounds(turn, x, ScratchSize + 1)
  BY DEF extracted
<1>11. extracted({}) = met(ScratchSize + 1)
  <2> HIDE DEF I, turn, x, met
  <2> QED
    BY <1>6, <1>7, <1>8, <1>9, <1>10, RoundsKeep
<1>12. ~(ScratchSize + 1 <= n)
  <2>1. n + 1 \in 1 .. n + 1
    BY <1>1
  <2>2. pos[n + 1] \in Nat /\ pos[n + 1] < ScratchSize
    BY <1>3, <2>1
  <2> QED
    BY <1>1, <1>3, <2>2
<1>13. extracted({}).state = "done" /\ extracted({}).files = first(n)
  <2> HIDE DEF first
  <2> QED
    BY <1>11, <1>12
<1> QED
  BY <1>1, <1>13

\* A file is appended behind those that are placed.
LEMMA PlacedMore ==
  ASSUME NEW dev, NEW new, NEW app \in Seq(ArchiveFiles), NEW s, FilesEnd(dev, app, s),
         NEW f \in ArchiveFiles, FileAt(new, s, f), s + Len(f.chunks) + 1 < ScratchSize,
         \A k \in 0 .. s - 1 : new[k] = dev[k]
  PROVE  FilesEnd(new, Append(app, f), s + Len(f.chunks) + 1)
<1> DEFINE n == Len(app)   c == Len(f.chunks)   more == Append(app, f)
<1>0. PICK pos : Placed(dev, app, pos) /\ s = pos[n + 1]
  BY DEF FilesEnd
<1> DEFINE p == [k \in 1 .. n + 2 |-> IF k <= n + 1 THEN pos[k] ELSE s + c + 1]
<1>1. n \in Nat /\ c \in Nat /\ ScratchSize \in Nat
  BY FileIs, ArchiveAssumption
<1>2. Len(more) = n + 1 /\ more[n + 1] = f /\ \A k \in 1 .. n : more[k] = app[k]
  OBVIOUS
<1>3. /\ pos \in [1 .. n + 1 -> 0 .. ScratchSize - 1] /\ pos[1] = 0
      /\ \A k \in 1 .. n + 1 : k - 1 <= pos[k]
      /\ \A k \in 1 .. n :
           /\ pos[k + 1] = pos[k] + Len(app[k].chunks) + 1 /\ pos[k + 1] <= pos[n + 1]
           /\ FileAt(dev, pos[k], app[k])
  BY <1>0 DEF Placed
<1>4. s = pos[n + 1] /\ s + c + 1 < ScratchSize
  BY <1>0
<1>5. ASSUME NEW k \in 1 .. n PROVE Len(app[k].chunks) \in Nat
  <2>1. app[k] \in ArchiveFiles
    OBVIOUS
  <2> QED
    BY <2>1, FileIs
<1> HIDE DEF n, more, c
<1>6. s \in Nat /\ n <= s
  <2>1. n + 1 \in 1 .. n + 1
    BY <1>1
  <2>2. pos[n + 1] \in 0 .. ScratchSize - 1 /\ (n + 1) - 1 <= pos[n + 1]
    BY <1>3, <2>1
  <2> QED
    BY <1>1, <1>4, <2>2
<1>7. p \in [1 .. n + 2 -> 0 .. ScratchSize - 1]
  <2> SUFFICES ASSUME NEW k \in 1 .. n + 2 PROVE p[k] \in 0 .. ScratchSize - 1
    OBVIOUS
  <2>1. s + c + 1 \in 0 .. ScratchSize - 1
    BY <1>1, <1>4, <1>6
  <2>2. k <= n + 1 => k \in 1 .. n + 1
    BY <1>1
  <2> QED
    BY <1>3, <2>1, <2>2
<1>8. p[1] = 0 /\ p[n + 2] = s + c + 1 /\ p[n + 1] = s /\ \A k \in 1 .. n + 1 : p[k] = pos[k]
  BY <1>1, <1>3, <1>4
<1> HIDE DEF p
<1>9. ASSUME NEW k \in 1 .. n + 2 PROVE k - 1 <= p[k]
  <2>1. CASE k \in 1 .. n + 1
    BY <1>3, <1>8, <2>1
  <2>2. CASE k = n + 2
    BY <1>1, <1>6, <1>8, <2>2
  <2> QED
    BY <1>1, <2>1, <2>2
<1>10. ASSUME NEW k \in 1 .. n + 1
       PROVE  /\ p[k + 1] = p[k] + Len(more[k].chunks) + 1 /\ p[k + 1] <= p[n + 2]
              /\ FileAt(new, p[k], more[k])
  <2>1. CASE k \in 1 .. n
    <3> DEFINE m == Len(app[k].chunks)   x == pos[k]   y == pos[k + 1]
    <3>1. k + 1 \in 1 .. n + 1 /\ k \in 1 .. n + 1
      BY <1>1, <2>1
    <3>2. p[k] = x /\ p[k + 1] = y /\ more[k] = app[k]
      BY <1>2, <1>8, <2>1, <3>1
    <3>3. m \in Nat
      BY <1>5, <2>1
    <3>4. y = x + m + 1 /\ y <= s
      BY <1>3, <1>4, <2>1
    <3>5. x \in 0 .. ScratchSize - 1
      BY <1>3, <3>1
    <3>6. FileAt(dev, x, app[k])
      BY <1>3, <2>1
    <3> HIDE DEF m, x, y
    <3>7. x \in 0 .. s - 1 /\ \A i \in 1 .. m : x + i \in 0 .. s - 1
      BY <1>1, <1>6, <3>3, <3>4, <3>5
    <3>8. new[x] = dev[x] /\ \A i \in 1 .. m : new[x + i] = dev[x + i]
      BY <3>7
    <3>9. FileAt(new, x, app[k])
      BY <3>6, <3>8 DEF FileAt, m
    <3>10. y <= p[n + 2]
      BY <1>1, <1>6, <1>8, <3>3, <3>4, <3>5
    <3> QED
      BY <3>2, <3>4, <3>9, <3>10 DEF m
  <2>2. CASE k = n + 1
    <3>1. k + 1 = n + 2
      BY <1>1, <2>2
    <3>2. p[k] = s /\ p[k + 1] = s + c + 1 /\ more[k] = f
      BY <1>2, <1>8, <2>2, <3>1
    <3>3. p[k + 1] <= p[n + 2]
      BY <1>1, <1>6, <1>8, <3>2
    <3> QED
      BY <3>2, <3>3 DEF c
  <2> QED
    BY <1>1, <2>1, <2>2
<1>11. Placed(new, more, p)
  <2>1. (n + 1) + 1 = n + 2
    BY <1>1
  <2> QED
    BY <1>2, <1>7, <1>8, <1>9, <1>10, <2>1 DEF Placed
<1>12. p[Len(more) + 1] = s + c + 1
  <2>1. (n + 1) + 1 = n + 2
    BY <1>1
  <2> QED
    BY <1>2, <1>8, <2>1
<1> QED
  BY <1>11, <1>12 DEF more, c, FilesEnd

\* Nothing is placed on a device.
LEMMA PlacedNone == \A dev : FilesEnd(dev, <<>>, 0)
<1> SUFFICES ASSUME NEW dev PROVE FilesEnd(dev, <<>>, 0)
  OBVIOUS
<1>1. 0 \in 0 .. ScratchSize - 1
  BY ArchiveAssumption
<1>2. Len(<<>>) + 1 = 1 /\ <<0>>[1] = 0 /\ 1 .. Len(<<>>) = {} /\ 1 .. 1 = {1}
  OBVIOUS
<1>3. <<0>> \in [1 .. 1 -> 0 .. ScratchSize - 1]
  BY <1>1, <1>2
<1>4. Placed(dev, <<>>, <<0>>)
  BY <1>2, <1>3 DEF Placed
<1> QED
  BY <1>2, <1>4 DEF FilesEnd

LEMMA ArchiveInvInit == ArchiveInit => ArchiveInv
<1> SUFFICES ASSUME ArchiveInit PROVE ArchiveInv
  OBVIOUS
<1>1. /\ DOMAIN scratch = 0 .. ScratchSize - 1 /\ scratch[0] = zeros
      /\ append_sector = 0 /\ 0 \in 0 .. ScratchSize - 1 /\ appended = <<>> /\ <<>> \in Seq(ArchiveFiles)
  BY ArchiveAssumption DEF ArchiveInit
<1>2. FilesEnd(scratch, appended, 0)
  BY <1>1, PlacedNone
<1> QED
  BY <1>1, <1>2 DEF ArchiveInv

LEMMA ArchiveInvAppend ==
  ASSUME ArchiveInv, NEW f \in Archived, AppendFile(f)
  PROVE  ArchiveInv'
<1> DEFINE n == Len(f.chunks)   s == append_sector
           header == ustar_make_header(f.name, n)
           written == [k \in DOMAIN scratch |-> IF k = s THEN header
                         ELSE IF k \in s + 1 .. s + n THEN f.chunks[k - s] ELSE scratch[k]]
           file == [name |-> strip_antisocial_prefixes(f.name), chunks |-> f.chunks]
           old == IF s = 0 THEN <<>> ELSE appended
<1>1. /\ f.name \in Seq(Letters) /\ f.chunks \in Seq(Seq(Nat)) /\ Fits(n) /\ n \in Nat
      /\ ScratchSize \in Nat /\ s \in Nat /\ s < ScratchSize
  BY ArchiveAssumption DEF ArchiveInv, Letters
<1>2. DOMAIN scratch = 0 .. ScratchSize - 1 /\ appended \in Seq(ArchiveFiles)
  BY DEF ArchiveInv
<1>3. CASE header = <<>>
  <2>1. UNCHANGED <<scratch, append_sector, appended, intact>>
    BY <1>3 DEF AppendFile
  <2> QED
    BY <2>1 DEF ArchiveInv
<1>4. CASE header # <<>> /\ ~(s + n + 1 < ScratchSize)
  <2>1. scratch' = written /\ intact' = FALSE /\ appended' = <<>> /\ append_sector' = append_sector
    BY <1>4 DEF AppendFile
  <2>2. DOMAIN scratch' = 0 .. ScratchSize - 1
    BY <1>2, <2>1
  <2> QED
    BY <2>1, <2>2 DEF ArchiveInv
<1>5. CASE header # <<>> /\ s + n + 1 < ScratchSize
  <2>1. /\ scratch' = end_marker(written, s + n + 1) /\ append_sector' = s + n + 1
        /\ intact' = (s = 0 \/ intact) /\ appended' = old \o <<file>>
    BY <1>5 DEF AppendFile
  <2>2. file \in ArchiveFiles /\ file.name = strip_antisocial_prefixes(f.name) /\ file.chunks = f.chunks
    <3>1. strip_antisocial_prefixes(f.name) \in Seq(Letters)
      BY <1>1, StripRight
    <3>2. Letters \subseteq Nat
      BY DEF Letters
    <3>3. strip_antisocial_prefixes(f.name) \in Seq(Nat)
      BY <3>1, <3>2, SeqMonotonic
    <3> QED
      BY <1>1, <3>3 DEF ArchiveFiles
  <2>3. ustar_parse_header(header) = [type |-> "file", name |-> file.name, size |-> Len(file.chunks)]
    <3> HIDE DEF file
    <3> QED
      BY <1>1, <1>5, <2>2, HeaderReads
  <2>4. old \in Seq(ArchiveFiles)
    BY <1>2
  <2> HIDE DEF old, file, header
  <2>5. appended' = Append(old, file) /\ appended' \in Seq(ArchiveFiles)
    <3>1. old \o <<file>> = Append(old, file)
      BY <2>2, <2>4
    <3> QED
      BY <2>1, <2>2, <2>4, <3>1
  <2>6. /\ DOMAIN written = 0 .. ScratchSize - 1 /\ written[s] = header
        /\ \A i \in 1 .. n : written[s + i] = f.chunks[i]
        /\ \A k \in 0 .. s - 1 : written[k] = scratch[k]
    <3> HIDE DEF n, s
    <3>1. ASSUME NEW i \in 1 .. n PROVE written[s + i] = f.chunks[i]
      <4>1. s + i \in 0 .. ScratchSize - 1 /\ s + i # s /\ s + i \in s + 1 .. s + n /\ (s + i) - s = i
        BY <1>1, <1>5
      <4> QED
        BY <1>2, <4>1
    <3>2. ASSUME NEW k \in 0 .. s - 1 PROVE written[k] = scratch[k]
      <4>1. k \in 0 .. ScratchSize - 1 /\ k # s /\ k \notin s + 1 .. s + n
        BY <1>1
      <4> QED
        BY <1>2, <4>1
    <3>3. s \in 0 .. ScratchSize - 1
      BY <1>1
    <3> QED
      BY <1>2, <3>1, <3>2, <3>3
  <2> HIDE DEF written
  <2>7. /\ DOMAIN scratch' = 0 .. ScratchSize - 1 /\ scratch'[s + n + 1] = zeros /\ scratch'[s] = header
        /\ \A i \in 1 .. n : scratch'[s + i] = f.chunks[i]
        /\ \A k \in 0 .. s - 1 : scratch'[k] = scratch[k]
    <3> HIDE DEF n, s
    <3>1. scratch' = [written EXCEPT ![s + n + 1] = zeros]
      BY <2>1 DEF end_marker
    <3>2. s + n + 1 \in 0 .. ScratchSize - 1
      BY <1>1, <1>5
    <3>3. scratch'[s + n + 1] = zeros /\ \A k \in 0 .. s + n : scratch'[k] = written[k]
      <4>1. \A k \in 0 .. s + n : k \in 0 .. ScratchSize - 1 /\ k # s + n + 1
        BY <1>1, <1>5
      <4> QED
        BY <2>6, <3>1, <3>2, <4>1
    <3>4. s \in 0 .. s + n /\ (\A i \in 1 .. n : s + i \in 0 .. s + n) /\ \A k \in 0 .. s - 1 : k \in 0 .. s + n
      BY <1>1
    <3> QED
      BY <2>6, <3>1, <3>3, <3>4
  <2>8. append_sector' \in 0 .. ScratchSize - 1
    BY <1>1, <1>5, <2>1
  <2>9. ASSUME intact' PROVE FilesEnd(scratch, old, s)
    <3>1. CASE s = 0
      BY <3>1, PlacedNone DEF old
    <3>2. CASE s # 0
      BY <2>1, <2>9, <3>2 DEF ArchiveInv, old
    <3> QED
      BY <3>1, <3>2
  <2>10. ASSUME intact' PROVE FilesEnd(scratch', appended', append_sector')
    <3>1. FilesEnd(scratch, old, s)
      BY <2>9, <2>10
    <3>2. Len(file.chunks) = n /\ s + Len(file.chunks) + 1 < ScratchSize /\ FileAt(scratch', s, file)
      BY <1>5, <2>2, <2>3, <2>7 DEF FileAt
    <3>3. \A k \in 0 .. s - 1 : scratch'[k] = scratch[k]
      BY <2>7
    <3> HIDE DEF n, s
    <3>4. FilesEnd(scratch', Append(old, file), s + Len(file.chunks) + 1)
      BY <2>2, <2>4, <3>1, <3>2, <3>3, PlacedMore
    <3> QED
      BY <2>1, <2>5, <3>2, <3>4
  <2> QED
    BY <2>1, <2>5, <2>7, <2>8, <2>10 DEF ArchiveInv
<1> QED
  BY <1>3, <1>4, <1>5

LEMMA ArchiveInvNext == ArchiveInv /\ [ArchiveNext]_archiveVars => ArchiveInv'
<1> SUFFICES ASSUME ArchiveInv, [ArchiveNext]_archiveVars PROVE ArchiveInv'
  OBVIOUS
<1>1. ASSUME NEW f \in Archived, AppendFile(f) PROVE ArchiveInv'
  BY <1>1, ArchiveInvAppend
<1>2. CASE Extract
  <2> DEFINE bad == extracted(disk_files).state = "panic"
  <2>1. append_sector = 0 /\ append_sector' = append_sector
    BY <1>2 DEF Extract
  <2>2. CASE bad
    <3>1. scratch' = scratch /\ appended' = appended /\ intact' = intact
      BY <1>2, <2>2 DEF Extract
    <3> QED
      BY <2>1, <3>1 DEF ArchiveInv
  <2>3. CASE ~bad
    <3>1. scratch' = [scratch EXCEPT ![0] = zeros, ![1] = zeros] /\ appended' = <<>>
      BY <1>2, <2>3 DEF Extract
    <3>2. DOMAIN scratch = 0 .. ScratchSize - 1 /\ 0 \in 0 .. ScratchSize - 1
      BY ArchiveAssumption DEF ArchiveInv
    <3>3. DOMAIN scratch' = 0 .. ScratchSize - 1 /\ scratch'[0] = zeros
      BY <3>1, <3>2
    <3>4. FilesEnd(scratch', appended', 0) /\ <<>> \in Seq(ArchiveFiles)
      BY <3>1, PlacedNone
    <3> QED
      BY <2>1, <3>1, <3>2, <3>3, <3>4 DEF ArchiveInv
  <2> QED
    BY <2>2, <2>3
<1>3. CASE Boot
  <2>1. append_sector' = 0 /\ scratch' = scratch /\ appended' = appended /\ intact' = intact
    BY <1>3 DEF Boot
  <2>2. 0 \in 0 .. ScratchSize - 1
    BY ArchiveAssumption
  <2> QED
    BY <2>1, <2>2 DEF ArchiveInv
<1>4. CASE UNCHANGED archiveVars
  BY <1>4 DEF archiveVars, ArchiveInv
<1> QED
  BY <1>1, <1>2, <1>3, <1>4 DEF ArchiveNext

\* What was appended is there to be extracted, in order and with the marker behind it, and
\* nothing else, for every device, set of files and length of the fields (fsutil.c:136-243).
THEOREM ArchiveHoldsHolds == ArchiveSpec => []ArchiveHolds
<1>1. ArchiveInv => ArchiveHolds
  BY WalkIs DEF ArchiveHolds
<1> QED
  BY <1>1, ArchiveInvInit, ArchiveInvNext, PTL DEF ArchiveSpec
=============================================================================
