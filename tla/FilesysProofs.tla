---------------------------- MODULE FilesysProofs ----------------------------
(***************************************************************************)
(* The file system of Filesys, for every size of disk, every set of names  *)
(* and open files, and wherever memory runs out or the power fails.        *)
(***************************************************************************)
EXTENDS Filesys, FiniteSetTheorems, SequenceTheorems, NaturalsInduction, WellFoundedInduction, TLAPS

(***************************************************************************)
(* The disk d after the first k of the block writes W.                     *)
(***************************************************************************)
WritesTo(W, k, s) == {i \in 1..k : W[i][1] = s}
LastOf(S) == CHOOSE m \in S : \A i \in S : i <= m
After(d, W, k) ==
  [s \in Sectors |-> IF WritesTo(W, k, s) = {} THEN d[s]
                     ELSE W[LastOf(WritesTo(W, k, s))][2]]

(***************************************************************************)
(* The files on a disk.                                                    *)
(***************************************************************************)
MapOf(d) == d[2][2]
DirOf(d) == d[3][2]
Used(d) == {i \in 1..DirEntries : DirOf(d)[i].in_use}
Named(d) == {DirOf(d)[i].inode_sector : i \in Used(d)}
Own(d, s) == {s} \cup Extent(d[s][2], d[s][3])

Tags == {"inode", "map", "dir", "data"}

\* The parts of the disk that never move.
Layout(d) ==
  /\ d = [s \in Sectors |-> d[s]]
  /\ \A s \in Sectors : d[s][1] \in Tags
  /\ d[0] = <<"inode", 2, 1>> /\ d[1] = <<"inode", 3, 1>>
  /\ d[2] = <<"map", MapOf(d)>> /\ MapOf(d) \subseteq Sectors /\ 0..3 \subseteq MapOf(d)
  /\ d[3] = <<"dir", DirOf(d)>> /\ DirOf(d) \in [1..DirEntries -> Entry]

\* The files L have sectors of their own, all of them in use by the map.
FilesOn(d, map, L) ==
  /\ \A s \in L :
       /\ s \in Sectors /\ d[s] = <<"inode", d[s][2], d[s][3]>>
       /\ d[s][2] \in Nat /\ d[s][3] \in Nat
       /\ s \notin Extent(d[s][2], d[s][3])
       /\ Own(d, s) \subseteq map \ (0..3)
  /\ \A s, r \in L : s # r => Own(d, s) \cap Own(d, r) = {}

DiskRight(d) ==
  /\ Layout(d)
  /\ FilesOn(d, MapOf(d), Named(d))
  /\ \A i, j \in Used(d) : i # j => DirOf(d)[i].inode_sector # DirOf(d)[j].inode_sector

\* Block writes that leave the disk right wherever they are cut off.
IsWrites(W) == (\E S : W \in Seq(S)) /\ \A i \in 1..Len(W) : W[i][1] \in Sectors
Passes(d, W) ==
  /\ IsWrites(W)
  /\ \A k \in 0..Len(W) : DiskRight(After(d, W, k))
EndOf(d, W) == After(d, W, Len(W))

(***************************************************************************)
(* The inductive invariant.                                                *)
(***************************************************************************)
OpenedIn(open) == {s \in Sectors \ {FREE_MAP_SECTOR} : open[s] # NULL}

\* The inodes in memory are those on the disk e and their sectors are in use;
\* a removed one has no name.
Agrees(e, map, open) ==
  /\ MapOf(e) = map
  /\ FilesOn(e, map, Named(e) \cup OpenedIn(open))
  /\ \A s \in OpenedIn(open) :
       /\ open[s].start = e[s][2] /\ open[s].length = e[s][3]
       /\ open[s].removed => s \notin Named(e)

MemoryRight ==
  /\ inodes \in [Sectors -> Inode \cup {NULL}]
  /\ files \in [Handles -> File \cup {NULL}]
  /\ inodes[0] # NULL /\ inodes[0].start = 2
  /\ \A h \in Handles : files[h] # NULL => files[h].inode # 0

WritesRight == block = [s \in Sectors |-> block[s]] /\ Passes(block, todo)

\* What memory says is true of the disk once the writes under way are done.
MemoryAgrees == Agrees(EndOf(block, todo), free_map, inodes)

IInv == MemoryRight /\ WritesRight /\ MemoryAgrees /\ CountsRight /\ failed = FALSE
-----------------------------------------------------------------------------
(***************************************************************************)
(* Numbers.                                                                *)
(***************************************************************************)

\* A nonempty set of numbers has a least one.
LEMMA LeastNumber ==
  ASSUME NEW S \in SUBSET Nat, S # {}
  PROVE  \E m \in S : \A k \in S : m <= k
<1> DEFINE R == OpToRel(<, Nat)
<1>1. IsWellFoundedOn(R, Nat)
  BY NatLessThanWellFounded
<1> HIDE DEF R
<1>2. \E m \in S : \A k \in S : ~(<<k, m>> \in R)
  BY <1>1, WFMin
<1>3. \A k, m \in Nat : <<k, m>> \in R <=> k < m
  BY DEF R, OpToRel
<1>4. PICK m \in S : \A k \in S : ~(<<k, m>> \in R)
  BY <1>2
<1>5. \A k \in S : ~(k < m) /\ k \in Nat /\ m \in Nat
  BY <1>3, <1>4
<1>6. \A k \in S : m <= k
  BY <1>5
<1> QED
  BY <1>4, <1>6

\* A nonempty set of numbers up to n has a greatest one.
LEMMA GreatestNumber ==
  ASSUME NEW n \in Nat, NEW S \in SUBSET (1..n), S # {}
  PROVE  LastOf(S) \in S /\ \A i \in S : i <= LastOf(S)
<1> DEFINE T == {n - i : i \in S}
<1>1. T \in SUBSET Nat /\ T # {}
  <2>1. \A i \in S : i \in 1..n /\ n - i \in Nat
    OBVIOUS
  <2> QED
    BY <2>1
<1>2. PICK m \in T : \A k \in T : m <= k
  BY <1>1, LeastNumber
<1>3. PICK g \in S : m = n - g
  BY <1>2
<1>4. \A i \in S : i <= g
  <2>1. TAKE i \in S
  <2>2. n - g <= n - i
    BY <1>2, <1>3
  <2> QED
    BY <2>2
<1> QED
  BY <1>4 DEF LastOf

(***************************************************************************)
(* Block writes.                                                           *)
(***************************************************************************)

\* What a sector holds after some writes: the last one's contents, or what it
\* held before.
LEMMA AfterNone ==
  ASSUME NEW d, NEW W, NEW k \in Nat, NEW s \in Sectors,
         \A i \in 1..k : W[i][1] # s
  PROVE  After(d, W, k)[s] = d[s]
BY DEF After, WritesTo

LEMMA AfterLast ==
  ASSUME NEW d, NEW W, NEW k \in Nat, NEW s \in Sectors, NEW m \in 1..k,
         W[m][1] = s, \A i \in m + 1 .. k : W[i][1] # s
  PROVE  After(d, W, k)[s] = W[m][2]
<1> DEFINE S == WritesTo(W, k, s)
<1>1. S \in SUBSET (1..k) /\ m \in S
  BY DEF WritesTo
<1>2. LastOf(S) \in S /\ \A i \in S : i <= LastOf(S)
  BY <1>1, GreatestNumber
<1>3. LastOf(S) = m
  <2>1. LastOf(S) \in 1..k /\ m <= LastOf(S) /\ W[LastOf(S)][1] = s
    BY <1>1, <1>2 DEF WritesTo
  <2> QED
    BY <2>1
<1> QED
  BY <1>1, <1>3 DEF After

LEMMA AfterCases ==
  ASSUME NEW d, NEW W, NEW k \in Nat, NEW s \in Sectors
  PROVE  \/ /\ \A i \in 1..k : W[i][1] # s
            /\ After(d, W, k)[s] = d[s]
         \/ \E m \in 1..k : /\ W[m][1] = s
                            /\ \A i \in m + 1 .. k : W[i][1] # s
                            /\ After(d, W, k)[s] = W[m][2]
<1> DEFINE S == WritesTo(W, k, s)
<1>1. CASE S = {}
  BY <1>1, AfterNone DEF WritesTo
<1>2. CASE S # {}
  <2> DEFINE m == LastOf(S)
  <2>1. m \in S /\ \A i \in S : i <= m
    BY <1>2, GreatestNumber DEF WritesTo
  <2> HIDE DEF m
  <2>2. m \in 1..k /\ W[m][1] = s
    BY <2>1 DEF WritesTo
  <2>3. \A i \in m + 1 .. k : W[i][1] # s
    <3>1. TAKE i \in m + 1 .. k
    <3>2. i \notin S /\ i \in 1..k
      BY <2>1, <2>2
    <3> QED
      BY <3>2 DEF WritesTo
  <2>4. After(d, W, k)[s] = W[m][2]
    BY <2>2, <2>3, AfterLast
  <2> QED
    BY <2>2, <2>3, <2>4
<1> QED
  BY <1>1, <1>2

\* A sequence with one element put before it.
LEMMA OneBefore ==
  ASSUME NEW T, NEW x \in T, NEW V \in Seq(T)
  PROVE  /\ << x >> \o V \in Seq(T) /\ Len(<< x >> \o V) = 1 + Len(V) /\ Len(V) \in Nat
         /\ (<< x >> \o V)[1] = x
         /\ \A i \in 1..Len(V) : (<< x >> \o V)[1 + i] = V[i]
<1> DEFINE U == << x >>
<1>1. U \in Seq(T) /\ Len(U) = 1 /\ U[1] = x
  OBVIOUS
<1> HIDE DEF U
<1> DEFINE W == U \o V
<1>2. U \in Seq(T) /\ V \in Seq(T) /\ Len(V) \in Nat
  BY <1>1
<1>3. /\ W \in Seq(T) /\ Len(W) = Len(U) + Len(V)
      /\ \A i \in 1 .. Len(U) + Len(V) : W[i] = IF i <= Len(U) THEN U[i] ELSE V[i - Len(U)]
  BY <1>2, ConcatProperties, Zenon
<1> HIDE DEF W
<1>4. W[1] = x
  BY <1>1, <1>2, <1>3
<1>5. ASSUME NEW i \in 1..Len(V) PROVE W[1 + i] = V[i]
  <2>1. 1 + i \in 1 .. 1 + Len(V) /\ ~(1 + i <= 1) /\ (1 + i) - 1 = i
    BY <1>2
  <2> QED
    BY <1>1, <1>3, <2>1
<1> QED
  BY <1>1, <1>2, <1>3, <1>4, <1>5 DEF U, W

LEMMA AfterZero ==
  ASSUME NEW d, NEW W, d = [s \in Sectors |-> d[s]]
  PROVE  After(d, W, 0) = d
<1>1. \A s \in Sectors : After(d, W, 0)[s] = d[s]
  BY AfterNone
<1>2. After(d, W, 0) = [s \in Sectors |-> After(d, W, 0)[s]]
  BY DEF After
<1> QED
  BY <1>1, <1>2

LEMMA AfterOne ==
  ASSUME NEW d, NEW s \in Sectors, NEW c, d = [t \in Sectors |-> d[t]]
  PROVE  After(d, << <<s, c>> >>, 1) = [d EXCEPT ![s] = c]
<1> DEFINE W == << <<s, c>> >>
           e == [d EXCEPT ![s] = c]
<1>1. \A t \in Sectors : After(d, W, 1)[t] = e[t]
  <2>1. TAKE t \in Sectors
  <2>2. CASE t = s
    <3>1. W[1][1] = s /\ W[1][2] = c
      OBVIOUS
    <3>2. \A i \in 1 + 1 .. 1 : W[i][1] # s
      OBVIOUS
    <3>3. After(d, W, 1)[s] = c
      <4> HIDE DEF W
      <4> QED
        BY <3>1, <3>2, AfterLast
    <3> QED
      BY <2>2, <3>3
  <2>3. CASE t # s
    <3>1. \A i \in 1..1 : W[i][1] # t
      BY <2>3
    <3>2. After(d, W, 1)[t] = d[t]
      <4> HIDE DEF W
      <4> QED
        BY <3>1, AfterNone
    <3> QED
      BY <2>3, <3>2
  <2> QED
    BY <2>2, <2>3
<1>2. After(d, W, 1) = [t \in Sectors |-> After(d, W, 1)[t]]
  BY DEF After
<1> QED
  BY <1>1, <1>2

\* One list of writes after another.
LEMMA AfterConcat ==
  ASSUME NEW d, NEW S, NEW U \in Seq(S), NEW V \in Seq(S)
  PROVE  /\ \A k \in 0..Len(U) : After(d, U \o V, k) = After(d, U, k)
         /\ \A k \in 0..Len(V) :
              After(d, U \o V, Len(U) + k) = After(After(d, U, Len(U)), V, k)
<1> DEFINE W == U \o V
<1>1. /\ Len(U) \in Nat /\ Len(V) \in Nat
      /\ \A i \in 1..Len(U) : W[i] = U[i]
      /\ \A i \in 1..Len(V) : W[Len(U) + i] = V[i]
  BY ConcatProperties
<1> HIDE DEF W
<1>2. \A X, Y, k, e, f : After(e, X, k) = [s \in Sectors |-> After(e, X, k)[s]]
  BY DEF After
<1>3. ASSUME NEW k \in 0..Len(U) PROVE After(d, W, k) = After(d, U, k)
  <2>1. ASSUME NEW s \in Sectors PROVE After(d, W, k)[s] = After(d, U, k)[s]
    <3>1. k \in Nat /\ \A i \in 1..k : W[i] = U[i]
      BY <1>1
    <3>2. CASE \A i \in 1..k : U[i][1] # s
      BY <3>1, <3>2, AfterNone
    <3>3. CASE \E m \in 1..k : /\ U[m][1] = s
                               /\ \A i \in m + 1 .. k : U[i][1] # s
                               /\ After(d, U, k)[s] = U[m][2]
      <4>1. PICK m \in 1..k : /\ U[m][1] = s
                              /\ \A i \in m + 1 .. k : U[i][1] # s
                              /\ After(d, U, k)[s] = U[m][2]
        BY <3>3
      <4>2. W[m][1] = s /\ \A i \in m + 1 .. k : W[i][1] # s
        BY <3>1, <4>1
      <4>3. After(d, W, k)[s] = W[m][2]
        BY <3>1, <4>2, AfterLast
      <4> QED
        BY <3>1, <4>1, <4>3
    <3> QED
      BY <3>1, <3>2, <3>3, AfterCases
  <2> QED
    BY <1>2, <2>1
<1>4. ASSUME NEW k \in 0..Len(V)
      PROVE  After(d, W, Len(U) + k) = After(After(d, U, Len(U)), V, k)
  <2> DEFINE n == Len(U)
             e == After(d, U, n)
  <2>0. k \in Nat /\ n \in Nat /\ n + k \in Nat
    BY <1>1
  <2>1. ASSUME NEW s \in Sectors PROVE After(d, W, n + k)[s] = After(e, V, k)[s]
    <3>1. CASE \E m \in 1..k : /\ V[m][1] = s
                               /\ \A i \in m + 1 .. k : V[i][1] # s
                               /\ After(e, V, k)[s] = V[m][2]
      <4>1. PICK m \in 1..k : /\ V[m][1] = s
                              /\ \A i \in m + 1 .. k : V[i][1] # s
                              /\ After(e, V, k)[s] = V[m][2]
        BY <3>1
      <4>2. n + m \in 1 .. n + k /\ W[n + m] = V[m]
        BY <1>1, <2>0
      <4>3. ASSUME NEW i \in n + m + 1 .. n + k PROVE W[i][1] # s
        <5>1. i - n \in m + 1 .. k /\ i - n \in 1..Len(V) /\ i = n + (i - n)
          BY <2>0
        <5>2. W[i] = V[i - n]
          BY <1>1, <5>1
        <5> QED
          BY <4>1, <5>1, <5>2
      <4>4. After(d, W, n + k)[s] = W[n + m][2]
        <5> DEFINE j == n + m
                   l == n + k
        <5>1. /\ j \in 1..l /\ l \in Nat /\ W[j][1] = s
              /\ \A i \in j + 1 .. l : W[i][1] # s
          BY <2>0, <4>1, <4>2, <4>3
        <5> HIDE DEF j, l
        <5>2. After(d, W, l)[s] = W[j][2]
          BY <5>1, AfterLast
        <5> QED
          BY <5>2 DEF j, l
      <4> QED
        BY <4>1, <4>2, <4>4
    <3>2. CASE \A i \in 1..k : V[i][1] # s
      <4>1. After(e, V, k)[s] = e[s]
        BY <2>0, <3>2, AfterNone
      <4>2. ASSUME NEW i \in n + 1 .. n + k PROVE W[i][1] # s
        <5>1. i - n \in 1..k /\ i - n \in 1..Len(V) /\ i = n + (i - n)
          BY <2>0
        <5>2. W[i] = V[i - n]
          BY <1>1, <5>1
        <5> QED
          BY <3>2, <5>1, <5>2
      <4>3. CASE \A i \in 1..n : U[i][1] # s
        <5> DEFINE l == n + k
        <5>1. l \in Nat /\ \A i \in 1..l : W[i][1] # s
          <6>1. l \in Nat
            BY <2>0
          <6>2. ASSUME NEW i \in 1..l PROVE W[i][1] # s
            <7>1. CASE i \in 1..n
              BY <1>1, <4>3, <7>1
            <7>2. CASE i \in n + 1 .. n + k
              BY <4>2, <7>2
            <7> QED
              BY <2>0, <7>1, <7>2
          <6> QED
            BY <6>1, <6>2
        <5>2. e[s] = d[s]
          BY <2>0, <4>3, AfterNone
        <5> HIDE DEF l
        <5>3. After(d, W, l)[s] = d[s]
          BY <5>1, AfterNone
        <5> QED
          BY <4>1, <5>2, <5>3 DEF l
      <4>4. CASE \E m \in 1..n : /\ U[m][1] = s
                                 /\ \A i \in m + 1 .. n : U[i][1] # s
                                 /\ e[s] = U[m][2]
        <5> DEFINE l == n + k
        <5>1. PICK m \in 1..n : /\ U[m][1] = s
                                /\ \A i \in m + 1 .. n : U[i][1] # s
                                /\ e[s] = U[m][2]
          BY <4>4
        <5>2. /\ m \in 1..l /\ l \in Nat /\ W[m][1] = s
              /\ \A i \in m + 1 .. l : W[i][1] # s
          <6>1. m \in 1..l /\ l \in Nat /\ W[m] = U[m]
            BY <1>1, <2>0
          <6>2. ASSUME NEW i \in m + 1 .. l PROVE W[i][1] # s
            <7>1. CASE i \in m + 1 .. n
              <8>1. i \in 1..n
                BY <2>0, <7>1
              <8> QED
                BY <1>1, <5>1, <7>1, <8>1
            <7>2. CASE i \in n + 1 .. n + k
              BY <4>2, <7>2
            <7> QED
              BY <2>0, <7>1, <7>2
          <6> QED
            BY <5>1, <6>1, <6>2
        <5>3. W[m] = U[m]
          BY <1>1, <2>0
        <5> HIDE DEF l
        <5>4. After(d, W, l)[s] = W[m][2]
          BY <5>2, AfterLast
        <5> QED
          BY <4>1, <5>1, <5>3, <5>4 DEF l
      <4>5. CASE (\A i \in 1..n : U[i][1] # s) /\ After(d, U, n)[s] = d[s]
        BY <4>3, <4>5
      <4> QED
        BY <2>0, <4>4, <4>5, AfterCases
    <3> QED
      BY <2>0, <3>1, <3>2, AfterCases
  <2> HIDE DEF e
  <2> QED
    BY <1>2, <2>1 DEF e
<1> QED
  BY <1>3, <1>4 DEF W

(***************************************************************************)
(* Disks that differ where no file is.                                     *)
(***************************************************************************)

\* The first sectors hold the file system's own two files.
LEMMA FirstSectors == {0, 1, 2, 3} \subseteq Sectors /\ 0..3 = {0, 1, 2, 3}
BY FilesysAssumption DEF Sectors

\* The files K are on e as on d, and m has their sectors.
Keeps(d, e, K, m) == \A s \in K : e[s] = d[s] /\ Own(d, s) \subseteq m

\* Files stay as they are when their inodes do and the map keeps their sectors.
LEMMA FilesStay ==
  ASSUME NEW d, NEW e, NEW map, NEW m, NEW L, NEW K, K \subseteq L,
         FilesOn(d, map, L), Keeps(d, e, K, m)
  PROVE  FilesOn(e, m, K) /\ \A s \in K : Own(e, s) = Own(d, s)
<1>1. \A s \in K : Own(e, s) = Own(d, s)
  BY DEF Own, Keeps
<1>2. ASSUME NEW s \in K
      PROVE  /\ s \in Sectors /\ e[s] = <<"inode", e[s][2], e[s][3]>>
             /\ e[s][2] \in Nat /\ e[s][3] \in Nat
             /\ s \notin Extent(e[s][2], e[s][3])
             /\ Own(e, s) \subseteq m \ (0..3)
  <2>1. /\ s \in Sectors /\ d[s] = <<"inode", d[s][2], d[s][3]>>
        /\ d[s][2] \in Nat /\ d[s][3] \in Nat
        /\ s \notin Extent(d[s][2], d[s][3])
        /\ Own(d, s) \subseteq map \ (0..3)
    BY DEF FilesOn
  <2>2. e[s] = d[s] /\ Own(d, s) \subseteq m /\ Own(e, s) = Own(d, s)
    BY <1>1 DEF Keeps
  <2> QED
    BY <2>1, <2>2
<1>3. ASSUME NEW s \in K, NEW r \in K, s # r PROVE Own(e, s) \cap Own(e, r) = {}
  <2>1. Own(d, s) \cap Own(d, r) = {}
    BY <1>3 DEF FilesOn
  <2> QED
    BY <1>1, <2>1
<1> QED
  BY <1>1, <1>2, <1>3 DEF FilesOn

LEMMA NamedInSectors ==
  ASSUME NEW d, Layout(d)
  PROVE  /\ Named(d) \subseteq Sectors
         /\ \A i \in Used(d) : /\ i \in 1..DirEntries /\ DirOf(d)[i] \in Entry
                              /\ DirOf(d)[i].inode_sector \in Named(d)
BY DEF Named, Used, Layout, Entry

LEMMA DiskStays ==
  ASSUME NEW d, NEW e, DiskRight(d),
         e = [s \in Sectors |-> e[s]], \A s \in Sectors : e[s][1] \in Tags,
         \A s \in {0, 1, 3} \cup Named(d) : e[s] = d[s],
         e[2] = <<"map", MapOf(e)>>, MapOf(e) \subseteq Sectors, 0..3 \subseteq MapOf(e),
         \A s \in Named(d) : Own(d, s) \subseteq MapOf(e)
  PROVE  /\ DiskRight(e)
         /\ DirOf(e) = DirOf(d) /\ Named(e) = Named(d)
         /\ \A s \in Named(d) : Own(e, s) = Own(d, s)
<1>1. DirOf(e) = DirOf(d)
  BY DEF DirOf
<1>2. Used(e) = Used(d) /\ Named(e) = Named(d)
  BY <1>1 DEF Used, Named
<1>3. FilesOn(e, MapOf(e), Named(d)) /\ \A s \in Named(d) : Own(e, s) = Own(d, s)
  <2> DEFINE L == Named(d)
  <2>1. FilesOn(d, MapOf(d), L) /\ L \subseteq L
    BY DEF DiskRight
  <2>2. Keeps(d, e, L, MapOf(e))
    BY DEF Keeps
  <2> HIDE DEF L
  <2>3. FilesOn(e, MapOf(e), L) /\ \A s \in L : Own(e, s) = Own(d, s)
    BY <2>1, <2>2, FilesStay
  <2> QED
    BY <2>3 DEF L
<1>4. Layout(e)
  BY <1>1 DEF DiskRight, Layout
<1> QED
  BY <1>1, <1>2, <1>3, <1>4 DEF DiskRight

(***************************************************************************)
(* Lists of writes that leave the disk right throughout.                   *)
(***************************************************************************)
LEMMA PassesNone ==
  ASSUME NEW d, DiskRight(d)
  PROVE  Passes(d, <<>>) /\ EndOf(d, <<>>) = d
<1>1. d = [s \in Sectors |-> d[s]]
  BY DEF DiskRight, Layout
<1>2. After(d, <<>>, 0) = d
  BY <1>1, AfterZero
<1>3. IsWrites(<<>>)
  <2>1. <<>> \in Seq({})
    OBVIOUS
  <2> QED
    BY <2>1 DEF IsWrites
<1>4. Len(<<>>) = 0
  OBVIOUS
<1>5. \A k \in 0..0 : k = 0
  OBVIOUS
<1> QED
  BY <1>2, <1>3, <1>4, <1>5 DEF Passes, EndOf

LEMMA PassesOne ==
  ASSUME NEW d, NEW s \in Sectors, NEW c, DiskRight(d), DiskRight([d EXCEPT ![s] = c])
  PROVE  Passes(d, << <<s, c>> >>) /\ EndOf(d, << <<s, c>> >>) = [d EXCEPT ![s] = c]
<1> DEFINE W == << <<s, c>> >>
<1>1. d = [t \in Sectors |-> d[t]]
  BY DEF DiskRight, Layout
<1>2. Len(W) = 1 /\ W \in Seq({<<s, c>>}) /\ \A i \in 1..1 : W[i][1] \in Sectors
  OBVIOUS
<1>3. After(d, W, 0) = d /\ After(d, W, 1) = [d EXCEPT ![s] = c]
  BY <1>1, AfterZero, AfterOne
<1> HIDE DEF W
<1>4. \A k \in 0..1 : k = 0 \/ k = 1
  OBVIOUS
<1>5. IsWrites(W)
  BY <1>2 DEF IsWrites
<1>6. \A k \in 0..Len(W) : DiskRight(After(d, W, k))
  BY <1>2, <1>3, <1>4
<1>7. EndOf(d, W) = [d EXCEPT ![s] = c]
  BY <1>2, <1>3 DEF EndOf
<1> QED
  BY <1>5, <1>6, <1>7 DEF Passes, W

LEMMA PassesBoth ==
  ASSUME NEW d, NEW U, NEW V, Passes(d, U), Passes(EndOf(d, U), V)
  PROVE  Passes(d, U \o V) /\ EndOf(d, U \o V) = EndOf(EndOf(d, U), V)
<1>1. PICK S : U \in Seq(S)
  BY DEF Passes, IsWrites
<1>2. PICK T : V \in Seq(T)
  BY DEF Passes, IsWrites
<1> DEFINE R == S \cup T
           W == U \o V
<1>3. U \in Seq(R) /\ V \in Seq(R)
  BY <1>1, <1>2, SeqMonotonic
<1>4. /\ W \in Seq(R) /\ Len(W) = Len(U) + Len(V)
      /\ Len(U) \in Nat /\ Len(V) \in Nat
      /\ \A i \in 1..Len(U) : W[i] = U[i]
      /\ \A i \in 1..Len(V) : W[Len(U) + i] = V[i]
  BY <1>3, ConcatProperties
<1>5. /\ \A k \in 0..Len(U) : After(d, W, k) = After(d, U, k)
      /\ \A k \in 0..Len(V) : After(d, W, Len(U) + k) = After(EndOf(d, U), V, k)
  BY <1>3, AfterConcat DEF EndOf
<1> HIDE DEF W
<1>6. IsWrites(W)
  <2>1. ASSUME NEW i \in 1..Len(W) PROVE W[i][1] \in Sectors
    <3>1. CASE i \in 1..Len(U)
      BY <1>4, <3>1 DEF Passes, IsWrites
    <3>2. CASE i - Len(U) \in 1..Len(V)
      <4>1. i = Len(U) + (i - Len(U))
        BY <1>4
      <4>2. W[i] = V[i - Len(U)]
        BY <1>4, <3>2, <4>1
      <4> QED
        BY <3>2, <4>2 DEF Passes, IsWrites
    <3> QED
      BY <1>4, <3>1, <3>2
  <2> QED
    BY <1>4, <2>1 DEF IsWrites
<1>7. ASSUME NEW k \in 0..Len(W) PROVE DiskRight(After(d, W, k))
  <2>1. CASE k \in 0..Len(U)
    BY <1>5, <2>1 DEF Passes
  <2>2. CASE k - Len(U) \in 0..Len(V)
    <3>1. k = Len(U) + (k - Len(U))
      BY <1>4
    <3>2. After(d, W, k) = After(EndOf(d, U), V, k - Len(U))
      BY <1>5, <2>2, <3>1
    <3> QED
      BY <2>2, <3>2 DEF Passes
  <2> QED
    BY <1>4, <2>1, <2>2
<1>8. EndOf(d, W) = EndOf(EndOf(d, U), V)
  <2>1. Len(V) \in 0..Len(V)
    BY <1>4
  <2>2. After(d, W, Len(U) + Len(V)) = After(EndOf(d, U), V, Len(V))
    BY <1>5, <2>1
  <2> QED
    BY <1>4, <2>2 DEF EndOf
<1> QED
  BY <1>6, <1>7, <1>8 DEF Passes, W

\* The first of the writes is done.
LEMMA AfterTail ==
  ASSUME NEW d, NEW W, IsWrites(W), W # <<>>, d = [s \in Sectors |-> d[s]]
  PROVE  LET e == [d EXCEPT ![W[1][1]] = W[1][2]]
             V == Tail(W)
         IN  /\ IsWrites(V) /\ Len(V) \in Nat /\ Len(W) = 1 + Len(V)
             /\ \A k \in 0..Len(V) : After(d, W, 1 + k) = After(e, V, k)
<1> DEFINE H == << <<W[1][1], W[1][2]>> >>
           G == << W[1] >>
           V == Tail(W)
           e == [d EXCEPT ![W[1][1]] = W[1][2]]
<1>1. PICK S : W \in Seq(S)
  BY DEF IsWrites
<1>2. /\ Len(W) \in Nat /\ Len(W) >= 1 /\ W[1] \in S
      /\ V \in Seq(S) /\ Len(V) = Len(W) - 1
      /\ \A i \in 1..Len(V) : V[i] = W[i + 1]
  BY <1>1
<1>3. W[1][1] \in Sectors
  BY <1>2 DEF IsWrites
<1>4. G \in Seq(S) /\ Len(G) = 1 /\ G[1] = W[1]
  BY <1>2
<1>5. W = G \o V
  <2> DEFINE X == G \o V
  <2>1. /\ X \in Seq(S) /\ Len(X) = 1 + Len(V)
        /\ \A i \in 1..1 : X[i] = G[i]
        /\ \A i \in 1..Len(V) : X[1 + i] = V[i]
    BY <1>2, <1>4, ConcatProperties
  <2> HIDE DEF X, V, G
  <2>2. ASSUME NEW i \in 1..Len(W) PROVE X[i] = W[i]
    <3>1. CASE i = 1
      BY <1>4, <2>1, <3>1
    <3>2. CASE i # 1
      <4>1. i - 1 \in 1..Len(V) /\ 1 + (i - 1) = i /\ (i - 1) + 1 = i
        BY <1>2, <3>2
      <4> QED
        BY <1>2, <2>1, <4>1
    <3> QED
      BY <3>1, <3>2
  <2>3. Len(X) = Len(W)
    BY <1>2, <2>1
  <2>4. X = W
    BY <1>1, <2>1, <2>2, <2>3, SeqEqual
  <2> QED
    BY <2>4 DEF X
<1>6. After(d, G, 1) = e
  <2> DEFINE f == After(d, G, 1)
  <2>1. ASSUME NEW t \in Sectors PROVE f[t] = e[t]
    <3>1. CASE t = W[1][1]
      <4>1. G[1][1] = t /\ 1 \in 1..1 /\ \A i \in 1 + 1 .. 1 : G[i][1] # t
        BY <1>4, <3>1
      <4>2. f[t] = G[1][2]
        <5> HIDE DEF G
        <5> QED
          BY <4>1, AfterLast
      <4> QED
        BY <1>3, <1>4, <3>1, <4>2
    <3>2. CASE t # W[1][1]
      <4>1. \A i \in 1..1 : G[i][1] # t
        BY <1>4, <3>2
      <4>2. f[t] = d[t]
        <5> HIDE DEF G
        <5> QED
          BY <4>1, AfterNone
      <4> QED
        BY <3>2, <4>2
    <3> QED
      BY <3>1, <3>2
  <2>2. f = [t \in Sectors |-> f[t]]
    BY DEF After
  <2>3. e = [t \in Sectors |-> e[t]]
    OBVIOUS
  <2> HIDE DEF f, e
  <2>4. f = e
    BY <2>1, <2>2, <2>3
  <2> QED
    BY <2>4 DEF f
<1>7. \A k \in 0..Len(V) : After(d, W, 1 + k) = After(e, V, k)
  <2> HIDE DEF G, V, e
  <2>1. \A k \in 0..Len(V) : After(d, G \o V, Len(G) + k) = After(After(d, G, Len(G)), V, k)
    <3>1. G \in Seq(S) /\ V \in Seq(S)
      BY <1>2, <1>4
    <3> QED
      BY <3>1, AfterConcat
  <2> QED
    BY <1>4, <1>5, <1>6, <2>1
<1> HIDE DEF V, e
<1>8. IsWrites(V)
  <2>1. ASSUME NEW i \in 1..Len(V) PROVE V[i][1] \in Sectors
    <3>1. i + 1 \in 1..Len(W) /\ V[i] = W[i + 1]
      BY <1>2
    <3> QED
      BY <3>1 DEF IsWrites
  <2> QED
    BY <1>2, <2>1 DEF IsWrites
<1>9. Len(V) \in Nat /\ Len(W) = 1 + Len(V)
  BY <1>2
<1> QED
  BY <1>7, <1>8, <1>9 DEF e, V

LEMMA PassesRest ==
  ASSUME NEW d, NEW W, Passes(d, W), W # <<>>, d = [s \in Sectors |-> d[s]]
  PROVE  LET e == [d EXCEPT ![W[1][1]] = W[1][2]]
         IN  Passes(e, Tail(W)) /\ EndOf(e, Tail(W)) = EndOf(d, W)
<1> DEFINE V == Tail(W)
           e == [d EXCEPT ![W[1][1]] = W[1][2]]
<1>1. IsWrites(W)
  BY DEF Passes
<1>2. /\ IsWrites(V) /\ Len(V) \in Nat /\ Len(W) = 1 + Len(V)
      /\ \A k \in 0..Len(V) : After(d, W, 1 + k) = After(e, V, k)
  BY <1>1, AfterTail
<1> HIDE DEF V, e
<1>3. ASSUME NEW k \in 0..Len(V) PROVE DiskRight(After(e, V, k))
  <2>1. 1 + k \in 0..Len(W)
    BY <1>2
  <2>2. After(e, V, k) = After(d, W, 1 + k)
    BY <1>2
  <2> QED
    BY <2>1, <2>2 DEF Passes
<1>4. EndOf(e, V) = EndOf(d, W)
  <2>1. Len(V) \in 0..Len(V)
    BY <1>2
  <2> QED
    BY <1>2, <2>1 DEF EndOf
<1> QED
  BY <1>2, <1>3, <1>4 DEF Passes, V, e

\* A new map that still has the sectors of every file.
LEMMA MapWritten ==
  ASSUME NEW d, DiskRight(d), NEW m \in SUBSET Sectors, 0..3 \subseteq m,
         \A s \in Named(d) : Own(d, s) \subseteq m
  PROVE  LET e == [d EXCEPT ![2] = <<"map", m>>]
         IN  /\ DiskRight(e) /\ MapOf(e) = m
             /\ DirOf(e) = DirOf(d) /\ Named(e) = Named(d)
             /\ \A t \in Sectors \ {2} : e[t] = d[t]
<1> DEFINE e == [d EXCEPT ![2] = <<"map", m>>]
<1>1. d = [t \in Sectors |-> d[t]] /\ \A t \in Sectors : d[t][1] \in Tags
  BY DEF DiskRight, Layout
<1>2. e = [t \in Sectors |-> e[t]] /\ e[2] = <<"map", m>>
      /\ \A t \in Sectors \ {2} : e[t] = d[t]
  BY <1>1, FirstSectors
<1>3. MapOf(e) = m
  BY <1>2 DEF MapOf
<1>4. 2 \notin Named(d) /\ Named(d) \subseteq Sectors
  BY FirstSectors DEF DiskRight, FilesOn, Own
<1> HIDE DEF e
<1>5. ASSUME NEW t \in Sectors PROVE e[t][1] \in Tags
  <2>1. CASE t = 2
    <3>1. e[t][1] = "map"
      BY <1>2, <2>1
    <3> QED
      BY <3>1 DEF Tags
  <2>2. CASE t # 2
    BY <1>1, <1>2, <2>2
  <2> QED
    BY <2>1, <2>2
<1>6. \A t \in {0, 1, 3} \cup Named(d) : e[t] = d[t]
  BY <1>2, <1>4, FirstSectors
<1>7. /\ DiskRight(e) /\ DirOf(e) = DirOf(d) /\ Named(e) = Named(d)
  BY <1>2, <1>3, <1>5, <1>6, DiskStays
<1> QED
  BY <1>2, <1>3, <1>7 DEF e

\* A new inode, or data, where no file has its inode.
LEMMA SectorWritten ==
  ASSUME NEW d, DiskRight(d), NEW s \in Sectors \ (0..3), s \notin Named(d),
         NEW c, c[1] \in Tags
  PROVE  LET e == [d EXCEPT ![s] = c]
         IN  /\ DiskRight(e) /\ MapOf(e) = MapOf(d)
             /\ DirOf(e) = DirOf(d) /\ Named(e) = Named(d)
             /\ e[s] = c /\ \A t \in Sectors \ {s} : e[t] = d[t]
<1> DEFINE e == [d EXCEPT ![s] = c]
<1>1. d = [t \in Sectors |-> d[t]] /\ \A t \in Sectors : d[t][1] \in Tags
  BY DEF DiskRight, Layout
<1>2. /\ e = [t \in Sectors |-> e[t]] /\ e[s] = c
      /\ \A t \in Sectors \ {s} : e[t] = d[t]
  BY <1>1
<1>3. s \notin {0, 1, 2, 3} /\ Named(d) \subseteq Sectors
  BY FirstSectors DEF DiskRight, FilesOn
<1> HIDE DEF e
<1>4. e[2] = d[2] /\ MapOf(e) = MapOf(d)
  BY <1>2, <1>3, FirstSectors DEF MapOf
<1>5. \A t \in Sectors : e[t][1] \in Tags
  BY <1>1, <1>2
<1>6. \A t \in {0, 1, 3} \cup Named(d) : e[t] = d[t]
  BY <1>2, <1>3, FirstSectors
<1>7. /\ e[2] = <<"map", MapOf(e)>> /\ MapOf(e) \subseteq Sectors /\ 0..3 \subseteq MapOf(e)
      /\ \A t \in Named(d) : Own(d, t) \subseteq MapOf(e)
  BY <1>4 DEF DiskRight, Layout, FilesOn
<1>8. /\ DiskRight(e) /\ DirOf(e) = DirOf(d) /\ Named(e) = Named(d)
  BY <1>2, <1>5, <1>6, <1>7, DiskStays
<1> QED
  BY <1>2, <1>4, <1>8 DEF e

\* A new root directory, whose files are already on the disk.
LEMMA DirWritten ==
  ASSUME NEW d, DiskRight(d), NEW D \in [1..DirEntries -> Entry], NEW L,
         FilesOn(d, MapOf(d), L),
         \A i \in 1..DirEntries : D[i].in_use => D[i].inode_sector \in L,
         \A i, j \in 1..DirEntries :
           D[i].in_use /\ D[j].in_use /\ i # j => D[i].inode_sector # D[j].inode_sector
  PROVE  LET e == [d EXCEPT ![3] = <<"dir", D>>]
         IN  /\ DiskRight(e) /\ MapOf(e) = MapOf(d) /\ DirOf(e) = D
             /\ Named(e) = {D[i].inode_sector : i \in {j \in 1..DirEntries : D[j].in_use}}
             /\ \A t \in Sectors \ {3} : e[t] = d[t]
<1> DEFINE e == [d EXCEPT ![3] = <<"dir", D>>]
           K == {D[i].inode_sector : i \in {j \in 1..DirEntries : D[j].in_use}}
<1>1. Layout(d)
  BY DEF DiskRight
<1>2. d = [t \in Sectors |-> d[t]] /\ \A t \in Sectors : d[t][1] \in Tags
  BY <1>1 DEF Layout
<1>3. /\ e = [t \in Sectors |-> e[t]] /\ e[3] = <<"dir", D>>
      /\ \A t \in Sectors \ {3} : e[t] = d[t]
  BY <1>2, FirstSectors
<1> HIDE DEF e
<1>4. DirOf(e) = D /\ MapOf(e) = MapOf(d)
  BY <1>3, FirstSectors DEF DirOf, MapOf
<1>5. Used(e) = {j \in 1..DirEntries : D[j].in_use} /\ Named(e) = K
  BY <1>4 DEF Used, Named
<1>6. Layout(e)
  BY <1>1, <1>3, <1>4, FirstSectors DEF Layout, Tags
<1>7. K \subseteq L
  OBVIOUS
<1>8. Keeps(d, e, K, MapOf(d))
  <2>1. ASSUME NEW t \in L PROVE t \in Sectors \ {3} /\ Own(d, t) \subseteq MapOf(d)
    BY FirstSectors DEF FilesOn, Own
  <2> QED
    BY <1>3, <1>7, <2>1 DEF Keeps
<1> HIDE DEF K
<1>9. FilesOn(e, MapOf(d), K)
  BY <1>7, <1>8, FilesStay
<1>10. \A i, j \in Used(e) : i # j => DirOf(e)[i].inode_sector # DirOf(e)[j].inode_sector
  BY <1>4, <1>5
<1>11. DiskRight(e)
  BY <1>4, <1>5, <1>6, <1>9, <1>10 DEF DiskRight
<1> QED
  BY <1>3, <1>4, <1>5, <1>11 DEF e, K

\* Data written where no file has its inode, and the file system has nothing.
LEMMA PassesData ==
  ASSUME NEW d, DiskRight(d), NEW W, IsWrites(W),
         NEW R, R \cap ((0..3) \cup Named(d)) = {},
         \A i \in 1..Len(W) : W[i][1] \in R /\ W[i][2][1] = "data"
  PROVE  /\ Passes(d, W) /\ DiskRight(EndOf(d, W))
         /\ MapOf(EndOf(d, W)) = MapOf(d) /\ DirOf(EndOf(d, W)) = DirOf(d)
         /\ Named(EndOf(d, W)) = Named(d)
         /\ \A t \in Sectors \ R : EndOf(d, W)[t] = d[t]
<1>1. Layout(d)
  BY DEF DiskRight
<1>2. Len(W) \in Nat
  BY DEF IsWrites
<1>3. ASSUME NEW k \in 0..Len(W)
      PROVE  LET e == After(d, W, k)
             IN  /\ DiskRight(e) /\ MapOf(e) = MapOf(d) /\ DirOf(e) = DirOf(d)
                 /\ Named(e) = Named(d) /\ \A t \in Sectors \ R : e[t] = d[t]
  <2> DEFINE e == After(d, W, k)
  <2>1. k \in Nat
    BY <1>2
  <2>2. e = [t \in Sectors |-> e[t]]
    BY DEF After
  <2>3. ASSUME NEW t \in Sectors \ R PROVE e[t] = d[t]
    <3>1. \A i \in 1..k : W[i][1] # t
      BY <1>2
    <3> QED
      BY <2>1, <3>1, AfterNone
  <2>4. ASSUME NEW t \in Sectors PROVE e[t][1] \in Tags
    <3>1. CASE e[t] = d[t]
      BY <1>1, <3>1 DEF Layout
    <3>2. CASE \E m \in 1..k : e[t] = W[m][2]
      <4>1. PICK m \in 1..k : e[t] = W[m][2]
        BY <3>2
      <4>2. m \in 1..Len(W)
        BY <1>2
      <4>3. W[m][2][1] = "data"
        BY <4>2
      <4> HIDE DEF e
      <4> QED
        BY <4>1, <4>3 DEF Tags
    <3>3. e[t] = d[t] \/ \E m \in 1..k : e[t] = W[m][2]
      BY <2>1, AfterCases
    <3> QED
      BY <3>1, <3>2, <3>3
  <2>5. \A t \in {0, 1, 2, 3} \cup Named(d) : t \in Sectors \ R
    BY <1>1, FirstSectors, NamedInSectors
  <2> HIDE DEF e
  <2>6. \A t \in {0, 1, 2, 3} \cup Named(d) : e[t] = d[t]
    BY <2>3, <2>5
  <2>7. MapOf(e) = MapOf(d)
    BY <2>6 DEF MapOf
  <2>8. /\ e[2] = <<"map", MapOf(e)>> /\ MapOf(e) \subseteq Sectors /\ 0..3 \subseteq MapOf(e)
        /\ \A t \in Named(d) : Own(d, t) \subseteq MapOf(e)
    BY <1>1, <2>6, <2>7 DEF Layout, DiskRight, FilesOn
  <2>9. \A t \in {0, 1, 3} \cup Named(d) : e[t] = d[t]
    BY <2>6
  <2>10. /\ DiskRight(e) /\ DirOf(e) = DirOf(d) /\ Named(e) = Named(d)
    BY <2>2, <2>4, <2>8, <2>9, DiskStays
  <2> QED
    BY <2>3, <2>7, <2>10 DEF e
<1>4. Len(W) \in 0..Len(W)
  BY <1>2
<1> QED
  BY <1>3, <1>4 DEF Passes, EndOf

(***************************************************************************)
(* Finding room.                                                           *)
(***************************************************************************)
LEMMA SectorCount ==
  ASSUME NEW size \in Nat
  PROVE  bytes_to_sectors(size) \in Nat
BY FilesysAssumption DEF bytes_to_sectors

LEMMA ScanFinds ==
  ASSUME NEW map, NEW cnt \in Nat, can_allocate(map, cnt)
  PROVE  LET s == bitmap_scan(map, cnt)
         IN  s \in Nat /\ s + cnt <= NumSectors /\ \A i \in s .. s + cnt - 1 : i \notin map
<1>1. Fits(map, cnt) # {} /\ Fits(map, cnt) \in SUBSET Nat
  BY FilesysAssumption DEF can_allocate, Fits
<1>2. \E s \in Fits(map, cnt) : \A r \in Fits(map, cnt) : s <= r
  BY <1>1, LeastNumber
<1>3. bitmap_scan(map, cnt) \in Fits(map, cnt)
  BY <1>2 DEF bitmap_scan
<1> QED
  BY <1>3, FilesysAssumption DEF Fits

LEMMA ScanFindsSector ==
  ASSUME NEW map, can_allocate(map, 1)
  PROVE  bitmap_scan(map, 1) \in Sectors \ map
<1> DEFINE s == bitmap_scan(map, 1)
<1>1. s \in Nat /\ s + 1 <= NumSectors /\ \A i \in s .. s + 1 - 1 : i \notin map
  BY ScanFinds
<1> HIDE DEF s
<1>2. s \in s .. s + 1 - 1 /\ s \in 0 .. NumSectors - 1
  BY <1>1, FilesysAssumption
<1>3. s \in Sectors \ map
  BY <1>1, <1>2 DEF Sectors
<1> QED
  BY <1>3 DEF s

LEMMA ScanFindsExtent ==
  ASSUME NEW map, NEW size \in Nat, can_allocate(map, bytes_to_sectors(size))
  PROVE  LET start == bitmap_scan(map, bytes_to_sectors(size))
         IN  /\ start \in Nat /\ start + bytes_to_sectors(size) <= NumSectors
             /\ Extent(start, size) \subseteq Sectors
             /\ Extent(start, size) \cap map = {}
<1> DEFINE cnt == bytes_to_sectors(size)
           start == bitmap_scan(map, cnt)
<1>1. cnt \in Nat
  BY SectorCount
<1>2. start \in Nat /\ start + cnt <= NumSectors /\ \A i \in start .. start + cnt - 1 : i \notin map
  BY <1>1, ScanFinds
<1>3. Extent(start, size) = start .. start + cnt - 1
  BY DEF Extent
<1> HIDE DEF start, cnt
<1>4. Extent(start, size) \subseteq Sectors /\ Extent(start, size) \cap map = {}
  BY <1>1, <1>2, <1>3, FilesysAssumption DEF Sectors
<1> QED
  BY <1>2, <1>4 DEF start, cnt

(***************************************************************************)
(* What free_map_allocate and inode_create write.                          *)
(***************************************************************************)
LEMMA ZeroWrites ==
  ASSUME NEW start \in Nat, NEW size \in Nat, Extent(start, size) \subseteq Sectors
  PROVE  LET W == zero_writes(start, bytes_to_sectors(size))
         IN  /\ IsWrites(W)
             /\ \A i \in 1..Len(W) : W[i][1] \in Extent(start, size) /\ W[i][2][1] = "data"
<1> DEFINE cnt == bytes_to_sectors(size)
           W == zero_writes(start, cnt)
           S == {<<start + i - 1, <<"data", zeros>> >> : i \in 1..cnt}
<1>1. cnt \in Nat
  BY SectorCount
<1>2. Extent(start, size) = start .. start + cnt - 1
  BY DEF Extent
<1> HIDE DEF cnt
<1>3. W = [i \in 1..cnt |-> <<start + i - 1, <<"data", zeros>> >>]
  BY DEF zero_writes
<1>4. W \in [1..cnt -> S]
  BY <1>3
<1>5. W \in Seq(S) /\ Len(W) = cnt
  <2> HIDE DEF W, S
  <2>1. W \in Seq(S)
    BY <1>1, <1>4, SeqDef
  <2>2. DOMAIN W = 1..cnt /\ DOMAIN W = 1..Len(W) /\ Len(W) \in Nat
    BY <1>4, <2>1, LenProperties
  <2> QED
    BY <1>1, <2>1, <2>2
<1>6. ASSUME NEW i \in 1..cnt
      PROVE  W[i][1] \in Extent(start, size) /\ W[i][2][1] = "data"
  <2>1. W[i] = <<start + i - 1, <<"data", zeros>> >>
    BY <1>3
  <2>2. start + i - 1 \in start .. start + cnt - 1
    BY <1>1
  <2> QED
    BY <1>2, <2>1, <2>2
<1> HIDE DEF W, S
<1>7. IsWrites(W)
  BY <1>5, <1>6 DEF IsWrites
<1> QED
  BY <1>5, <1>6, <1>7 DEF W, cnt

\* The writes of a new file leave the disk right wherever they stop, and at the
\* end the file is there, but for its name.
LEMMA InodeWrites ==
  ASSUME NEW size \in Nat, NEW s \in Sectors, NEW start \in Nat,
         DiskRight(block), MapOf(block) = free_map, inodes[0].start = 2,
         s \notin free_map,
         Extent(start, size) \subseteq Sectors,
         Extent(start, size) \cap (free_map \cup {s}) = {}
  PROVE  LET W == inode_writes(s, start, size)
             e == EndOf(block, W)
         IN  /\ Passes(block, W) /\ DiskRight(e)
             /\ MapOf(e) = free_map \cup {s} \cup Extent(start, size)
             /\ DirOf(e) = DirOf(block) /\ Named(e) = Named(block)
             /\ e[s] = <<"inode", start, size>>
             /\ \A t \in free_map \ {2} : e[t] = block[t]
<1> DEFINE X == Extent(start, size)
           m1 == free_map \cup {s}
           m2 == free_map \cup {s} \cup X
           W1 == << <<2, <<"map", m1>> >> >>
           W2 == << <<2, <<"map", m2>> >> >>
           W3 == << <<s, <<"inode", start, size>> >> >>
           W4 == zero_writes(start, bytes_to_sectors(size))
           d1 == [block EXCEPT ![2] = <<"map", m1>>]
           d2 == [d1 EXCEPT ![2] = <<"map", m2>>]
           d3 == [d2 EXCEPT ![s] = <<"inode", start, size>>]
           e == EndOf(d3, W4)
<1>1. inode_writes(s, start, size) = W1 \o W2 \o W3 \o W4
  BY DEF inode_writes, bitmap_write, MapStart, FREE_MAP_SECTOR
<1>2. /\ 0..3 \subseteq free_map /\ free_map \subseteq Sectors
      /\ Named(block) \subseteq Sectors
      /\ \A t \in Named(block) : Own(block, t) \subseteq free_map /\ t \in free_map \ (0..3)
  BY NamedInSectors DEF DiskRight, Layout, FilesOn, Own
<1>3. /\ m1 \in SUBSET Sectors /\ m2 \in SUBSET Sectors
      /\ 0..3 \subseteq m1 /\ 0..3 \subseteq m2
      /\ s \in Sectors \ (0..3) /\ s \notin X
      /\ 2 \in Sectors /\ 2 \in free_map
  BY <1>2, FirstSectors
<1>4. /\ DiskRight(d1) /\ MapOf(d1) = m1
      /\ DirOf(d1) = DirOf(block) /\ Named(d1) = Named(block)
      /\ \A t \in Sectors \ {2} : d1[t] = block[t]
  <2>1. \A t \in Named(block) : Own(block, t) \subseteq m1
    BY <1>2
  <2> HIDE DEF m1
  <2> QED
    BY <1>3, <2>1, MapWritten
<1>5. Passes(block, W1) /\ EndOf(block, W1) = d1
  <2> HIDE DEF m1
  <2> QED
    BY <1>3, <1>4, PassesOne
<1> HIDE DEF d1
<1>6. \A t \in Named(d1) : Own(d1, t) \subseteq m2
  <2>1. \A t \in Named(block) : d1[t] = block[t]
    BY <1>2, <1>4, FirstSectors
  <2>2. \A t \in Named(block) : Own(d1, t) = Own(block, t)
    BY <2>1 DEF Own
  <2> QED
    BY <1>2, <1>4, <2>2
<1>7. /\ DiskRight(d2) /\ MapOf(d2) = m2
      /\ DirOf(d2) = DirOf(block) /\ Named(d2) = Named(block)
      /\ \A t \in Sectors \ {2} : d2[t] = block[t]
  <2> HIDE DEF m1, m2
  <2>1. /\ DiskRight(d2) /\ MapOf(d2) = m2
        /\ DirOf(d2) = DirOf(d1) /\ Named(d2) = Named(d1)
        /\ \A t \in Sectors \ {2} : d2[t] = d1[t]
    BY <1>3, <1>4, <1>6, MapWritten
  <2> HIDE DEF d2
  <2> QED
    BY <1>4, <2>1
<1>8. Passes(d1, W2) /\ EndOf(d1, W2) = d2
  <2> HIDE DEF m1, m2
  <2> QED
    BY <1>3, <1>4, <1>7, PassesOne
<1> HIDE DEF d2
<1>9. /\ DiskRight(d3) /\ MapOf(d3) = m2
      /\ DirOf(d3) = DirOf(block) /\ Named(d3) = Named(block)
      /\ d3[s] = <<"inode", start, size>>
      /\ \A t \in Sectors \ {2, s} : d3[t] = block[t]
  <2> DEFINE c == <<"inode", start, size>>
  <2>1. c[1] \in Tags /\ s \notin Named(d2)
    BY <1>2, <1>7 DEF Tags
  <2> HIDE DEF c, m2
  <2>2. /\ DiskRight(d3) /\ MapOf(d3) = MapOf(d2)
        /\ DirOf(d3) = DirOf(d2) /\ Named(d3) = Named(d2)
        /\ d3[s] = c /\ \A t \in Sectors \ {s} : d3[t] = d2[t]
    BY <1>3, <1>7, <2>1, SectorWritten DEF c
  <2> HIDE DEF d3
  <2> QED
    BY <1>7, <2>2 DEF c
<1>10. Passes(d2, W3) /\ EndOf(d2, W3) = d3
  <2> HIDE DEF m1, m2
  <2> QED
    BY <1>3, <1>7, <1>9, PassesOne
<1> HIDE DEF d3
<1>11. /\ Passes(d3, W4) /\ DiskRight(e) /\ MapOf(e) = m2
       /\ DirOf(e) = DirOf(block) /\ Named(e) = Named(block)
       /\ \A t \in Sectors \ X : e[t] = d3[t]
  <2>1. /\ IsWrites(W4)
        /\ \A i \in 1..Len(W4) : W4[i][1] \in X /\ W4[i][2][1] = "data"
    BY ZeroWrites
  <2>2. X \cap ((0..3) \cup Named(d3)) = {}
    BY <1>2, <1>9
  <2> HIDE DEF X, W4, m2
  <2> QED
    BY <1>9, <2>1, <2>2, PassesData
<1> HIDE DEF W1, W2, W3, W4, e
<1>12. Passes(block, W1 \o W2) /\ EndOf(block, W1 \o W2) = d2
  BY <1>5, <1>8, PassesBoth
<1>13. Passes(block, W1 \o W2 \o W3) /\ EndOf(block, W1 \o W2 \o W3) = d3
  BY <1>10, <1>12, PassesBoth
<1>14. Passes(block, W1 \o W2 \o W3 \o W4) /\ EndOf(block, W1 \o W2 \o W3 \o W4) = e
  BY <1>11, <1>13, PassesBoth DEF e
<1>15. \A t \in free_map \ {2} : t \in Sectors \ X /\ t # s
  BY <1>2
<1>16. e[s] = <<"inode", start, size>>
  BY <1>3, <1>9, <1>11
<1>17. \A t \in free_map \ {2} : e[t] = block[t]
  BY <1>9, <1>11, <1>15
<1> QED
  BY <1>1, <1>11, <1>14, <1>16, <1>17

(***************************************************************************)
(* The loops of inode_read_at and inode_write_at.                          *)
(***************************************************************************)

\* The value of a loop as a function of what is left: n[i] of it are consumed at
\* a turn that yields head[i].
IsLoop(g, N, n, head) ==
  g = [i \in 0..N |-> IF n[i] <= 0 THEN <<>> ELSE head[i] \o g[i - n[i]]]

\* A loop that consumes some of what is left at each turn defines a function.
LEMMA LoopExists ==
  ASSUME NEW N \in Nat, NEW n, NEW head,
         \A i \in 0..N : n[i] \in Int /\ n[i] <= i
  PROVE  \E g : IsLoop(g, N, n, head)
<1> DEFINE Turn(g, i) == IF n[i] <= 0 THEN <<>> ELSE head[i] \o g[i - n[i]]
           Can(m) == \E g : g = [i \in 0..m |-> Turn(g, i)]
           Bad == {m \in 0..N : ~Can(m)}
<1>1. ASSUME Bad # {} PROVE FALSE
  <2>1. PICK m \in Bad : \A k \in Bad : m <= k
    <3> HIDE DEF Can
    <3>1. Bad \in SUBSET Nat
      OBVIOUS
    <3> HIDE DEF Bad
    <3> QED
      BY <1>1, <3>1, LeastNumber
  <2>2. m \in 0..N /\ m \in Nat /\ ~Can(m)
    <3> HIDE DEF Can
    <3> QED
      OBVIOUS
  <2>3. CASE m = 0
    <3> DEFINE g == [i \in 0..0 |-> <<>>]
    <3>1. \A i \in 0..0 : i = 0 /\ n[i] <= 0
      OBVIOUS
    <3>2. \A i \in 0..0 : Turn(g, i) = <<>>
      BY <3>1
    <3>3. g = [i \in 0..0 |-> Turn(g, i)]
      BY <3>2
    <3> QED
      BY <2>2, <2>3, <3>3
  <2>4. CASE m # 0
    <3>1. m - 1 \in 0..N /\ Can(m - 1)
      <4> HIDE DEF Can
      <4> QED
        BY <2>1, <2>2, <2>4
    <3>2. PICK g : g = [i \in 0 .. m - 1 |-> Turn(g, i)]
      BY <3>1
    <3> DEFINE h == [i \in 0..m |-> IF i = m THEN Turn(g, m) ELSE g[i]]
    <3>3. ASSUME NEW i \in 0..m PROVE h[i] = Turn(h, i)
      <4>1. i \in 0..N /\ n[i] \in Int /\ n[i] <= i
        BY <2>2
      <4>2. Turn(g, i) = Turn(h, i)
        <5>1. CASE n[i] <= 0
          BY <5>1
        <5>2. CASE ~(n[i] <= 0)
          <6>1. i - n[i] \in 0 .. m - 1 /\ i - n[i] \in 0..m /\ i - n[i] # m
            BY <2>2, <4>1, <5>2
          <6>2. h[i - n[i]] = g[i - n[i]]
            BY <6>1
          <6> QED
            BY <5>2, <6>2
        <5> QED
          BY <5>1, <5>2
      <4>3. h[i] = Turn(g, i)
        <5>1. CASE i = m
          BY <5>1
        <5>2. CASE i # m
          <6>1. i \in 0 .. m - 1
            BY <2>2, <5>2
          <6>2. g[i] = Turn(g, i)
            <7> HIDE DEF Turn
            <7> QED
              BY <3>2, <6>1
          <6>3. h[i] = g[i]
            BY <5>2
          <6> QED
            BY <6>2, <6>3
        <5> QED
          BY <5>1, <5>2
      <4> QED
        BY <4>2, <4>3
    <3>4. h = [i \in 0..m |-> h[i]]
      OBVIOUS
    <3> HIDE DEF h, Turn
    <3>5. h = [i \in 0..m |-> Turn(h, i)]
      BY <3>3, <3>4
    <3>6. \E f : f = [i \in 0..m |-> Turn(f, i)]
      BY <3>5
    <3> QED
      BY <2>2, <3>6
  <2> QED
    BY <2>3, <2>4
<1>2. Can(N)
  <2> HIDE DEF Can
  <2> QED
    BY <1>1
<1> QED
  BY <1>2 DEF IsLoop

\* A turn stays in its sector, in the file and in what was asked for; it moves
\* nothing only when nothing is asked for, or at the end of the file.
LEMMA ChunkFits ==
  ASSUME NEW inode, inode.length \in Nat, NEW size \in Nat, NEW offset \in Nat
  PROVE  LET n == chunk_size(inode, size, offset)
         IN  /\ n \in Int /\ n <= size
             /\ n <= BLOCK_SECTOR_SIZE - (offset % BLOCK_SECTOR_SIZE)
             /\ n <= inode.length - offset
             /\ n <= 0 => size = 0 \/ offset >= inode.length
             /\ n > 0 => offset < inode.length
<1> DEFINE r == offset % BLOCK_SECTOR_SIZE
<1>1. r \in 0 .. BLOCK_SECTOR_SIZE - 1 /\ BLOCK_SECTOR_SIZE \in Nat \ {0}
  BY FilesysAssumption
<1> HIDE DEF r
<1> QED
  BY <1>1 DEF chunk_size, r

\* The sector of a byte of the file is one of the file's.
LEMMA SectorInExtent ==
  ASSUME NEW inode, inode.start \in Nat, inode.length \in Nat,
         NEW pos \in Nat, pos < inode.length
  PROVE  byte_to_sector(inode, pos) \in Extent(inode.start, inode.length)
<1> DEFINE B == BLOCK_SECTOR_SIZE
           l == inode.length
<1>1. B \in Nat \ {0}
  BY FilesysAssumption
<1>2. l \in Nat /\ pos < l
  OBVIOUS
<1> HIDE DEF B, l
<1>3. pos \div B \in Nat /\ pos \div B <= (l + B - 1) \div B - 1 /\ (l + B - 1) \div B \in Nat
  BY <1>1, <1>2
<1> QED
  BY <1>3 DEF byte_to_sector, Extent, bytes_to_sectors, B, l

\* inode_write_at writes data, into the sectors of its file.
LEMMA WritesData ==
  ASSUME NEW disk, NEW inode, inode.start \in Nat, inode.length \in Nat,
         Extent(inode.start, inode.length) \subseteq Sectors,
         NEW b, NEW size0 \in Nat, NEW offset0 \in Nat
  PROVE  LET W == inode_write_at(disk, inode, b, size0, offset0)
         IN  /\ IsWrites(W)
             /\ \A i \in 1..Len(W) : /\ W[i][1] \in Extent(inode.start, inode.length)
                                    /\ W[i][2][1] = "data"
<1> DEFINE X == Extent(inode.start, inode.length)
           ofs(size) == offset0 + (size0 - size)
           cnt(size) == chunk_size(inode, size, ofs(size))
           sec(size) == byte_to_sector(inode, ofs(size))
           one(size) == <<sec(size), <<"data", overwritten(disk[sec(size)][2],
                             ofs(size) % BLOCK_SECTOR_SIZE, cnt(size), b)>> >>
           n == [size \in 0..size0 |-> cnt(size)]
           head == [size \in 0..size0 |-> << one(size) >>]
           write == CHOOSE g : g = [size \in 0..size0 |->
                      IF cnt(size) <= 0 THEN <<>> ELSE << one(size) >> \o g[size - cnt(size)]]
           OnlyData(W) == /\ IsWrites(W)
                          /\ \A i \in 1..Len(W) : W[i][1] \in X /\ W[i][2][1] = "data"
<1>1. inode_write_at(disk, inode, b, size0, offset0)
        = IF inode.deny_write_cnt > 0 THEN <<>> ELSE write[size0]
  BY DEF inode_write_at
<1>2. ASSUME NEW size \in 0..size0
      PROVE  /\ ofs(size) \in Nat /\ cnt(size) \in Int /\ cnt(size) <= size
             /\ cnt(size) > 0 => sec(size) \in X
  <2>1. size \in Nat /\ ofs(size) \in Nat
    OBVIOUS
  <2> HIDE DEF ofs
  <2>2. /\ cnt(size) \in Int /\ cnt(size) <= size
        /\ cnt(size) > 0 => ofs(size) < inode.length
    BY <2>1, ChunkFits
  <2>3. cnt(size) > 0 => sec(size) \in X
    <3> HIDE DEF cnt
    <3> QED
      BY <2>1, <2>2, SectorInExtent
  <2> QED
    BY <2>1, <2>2, <2>3
<1>3. \E g : g = [size \in 0..size0 |->
               IF cnt(size) <= 0 THEN <<>> ELSE << one(size) >> \o g[size - cnt(size)]]
  <2> HIDE DEF cnt, one
  <2>1. \A i \in 0..size0 : n[i] = cnt(i) /\ head[i] = << one(i) >>
    OBVIOUS
  <2>2. \A i \in 0..size0 : n[i] \in Int /\ n[i] <= i
    BY <1>2, <2>1
  <2> HIDE DEF n, head
  <2>3. PICK g : IsLoop(g, size0, n, head)
    BY <2>2, LoopExists
  <2>4. g = [i \in 0..size0 |->
               IF cnt(i) <= 0 THEN <<>> ELSE << one(i) >> \o g[i - cnt(i)]]
    BY <2>1, <2>3 DEF IsLoop
  <2> QED
    BY <2>4
<1> HIDE DEF one
<1>4. write = [size \in 0..size0 |->
        IF cnt(size) <= 0 THEN <<>> ELSE << one(size) >> \o write[size - cnt(size)]]
  <2> HIDE DEF cnt
  <2> QED
    BY <1>3
<1> HIDE DEF cnt, write
<1>5. ASSUME NEW size \in 0..size0, cnt(size) > 0
      PROVE  one(size)[1] \in X /\ one(size)[2][1] = "data"
  BY <1>2, <1>5 DEF one
<1> HIDE DEF sec, ofs, X
<1>6. OnlyData(<<>>)
  <2>1. <<>> \in Seq({}) /\ Len(<<>>) = 0
    OBVIOUS
  <2> QED
    BY <2>1 DEF IsWrites
<1>7. ASSUME NEW size \in 0..size0, cnt(size) > 0, NEW V, OnlyData(V)
      PROVE  OnlyData(<< one(size) >> \o V)
  <2> DEFINE U == << one(size) >>
             W == U \o V
  <2>1. PICK S : V \in Seq(S)
    BY <1>7 DEF IsWrites
  <2> DEFINE T == S \cup {one(size)}
  <2>2. U \in Seq(T) /\ Len(U) = 1 /\ U[1] = one(size)
    OBVIOUS
  <2>3. V \in Seq(T)
    BY <2>1, SeqMonotonic
  <2>4. /\ W \in Seq(T) /\ Len(W) = 1 + Len(V) /\ Len(V) \in Nat
        /\ W[1] = one(size)
        /\ \A i \in 1..Len(V) : W[1 + i] = V[i]
    <3>1. one(size) \in T
      OBVIOUS
    <3> HIDE DEF T, one
    <3> QED
      BY <2>3, <3>1, OneBefore
  <2> HIDE DEF W, U, T
  <2>5. ASSUME NEW i \in 1..Len(W)
        PROVE  W[i][1] \in X /\ W[i][2][1] = "data"
    <3>1. CASE i = 1
      BY <1>5, <1>7, <2>2, <2>4, <3>1
    <3>2. CASE i # 1
      <4>1. i - 1 \in 1..Len(V) /\ 1 + (i - 1) = i
        BY <2>4, <3>2
      <4>2. W[i] = V[i - 1]
        BY <2>4, <4>1
      <4> QED
        BY <1>7, <4>1, <4>2
    <3> QED
      BY <3>1, <3>2
  <2>6. X \subseteq Sectors
    BY DEF X
  <2>7. IsWrites(W)
    BY <2>4, <2>5, <2>6 DEF IsWrites
  <2> QED
    BY <2>5, <2>7 DEF W, U
<1> HIDE DEF OnlyData
<1> DEFINE Bad == {m \in 0..size0 : ~OnlyData(write[m])}
<1>8. ASSUME Bad # {} PROVE FALSE
  <2>1. PICK m \in Bad : \A k \in Bad : m <= k
    <3>1. Bad \in SUBSET Nat
      OBVIOUS
    <3> HIDE DEF Bad
    <3> QED
      BY <1>8, <3>1, LeastNumber
  <2>2. m \in 0..size0
    OBVIOUS
  <2>3. write[m] = IF cnt(m) <= 0 THEN <<>> ELSE << one(m) >> \o write[m - cnt(m)]
    BY <1>4, <2>2
  <2>4. cnt(m) \in Int /\ cnt(m) <= m
    BY <1>2, <2>2
  <2>5. CASE cnt(m) <= 0
    BY <1>6, <2>3, <2>5
  <2>6. CASE cnt(m) > 0
    <3>1. m - cnt(m) \in 0..size0 /\ ~(m <= m - cnt(m)) /\ ~(cnt(m) <= 0)
      BY <2>2, <2>4, <2>6
    <3>2. OnlyData(write[m - cnt(m)])
      BY <2>1, <3>1
    <3>3. OnlyData(<< one(m) >> \o write[m - cnt(m)])
      BY <1>7, <2>2, <2>6, <3>2
    <3> QED
      BY <2>3, <3>1, <3>3
  <2> QED
    BY <2>4, <2>5, <2>6
<1>9. OnlyData(write[size0])
  <2>1. size0 \in 0..size0
    OBVIOUS
  <2> QED
    BY <1>8, <2>1
<1>10. OnlyData(inode_write_at(disk, inode, b, size0, offset0))
  BY <1>1, <1>6, <1>9
<1> QED
  BY <1>10 DEF OnlyData, X

\* A byte of the file is in the sector of its chunk, as far into it as the bytes
\* before it in the chunk take.
LEMMA ByteOfChunk ==
  ASSUME NEW offset \in Nat, NEW i \in Nat,
         (offset % BLOCK_SECTOR_SIZE) + i < BLOCK_SECTOR_SIZE
  PROVE  /\ (offset + i) \div BLOCK_SECTOR_SIZE = offset \div BLOCK_SECTOR_SIZE
         /\ (offset + i) % BLOCK_SECTOR_SIZE = (offset % BLOCK_SECTOR_SIZE) + i
<1> DEFINE B == BLOCK_SECTOR_SIZE
           q == offset \div B
           r == offset % B
<1>1. B \in Nat \ {0}
  BY FilesysAssumption
<1>2. r + i < B
  OBVIOUS
<1> HIDE DEF B
<1>3. q \in Nat /\ r \in Nat /\ offset = B * q + r
  BY <1>1
<1> HIDE DEF q, r
<1>4. offset + i = B * q + (r + i) /\ r + i \in Nat
  <2>1. B * q \in Nat
    BY <1>1, <1>3
  <2> QED
    BY <1>3, <2>1
<1>5. (B * q + (r + i)) \div B = q /\ (B * q + (r + i)) % B = r + i
  BY <1>1, <1>2, <1>3
<1> QED
  BY <1>4, <1>5 DEF B, q, r

\* inode_read_at returns the bytes of the file.
LEMMA ReadsBytes ==
  ASSUME NEW inode, inode.start \in Nat, inode.length \in Nat,
         NEW size0 \in Nat, NEW offset0 \in Nat
  PROVE  inode_read_at(block, inode, size0, offset0)
           = SubSeq(FileBytes(inode), offset0 + 1,
                    IF offset0 + size0 < inode.length THEN offset0 + size0 ELSE inode.length)
<1> DEFINE len == inode.length
           last == IF offset0 + size0 < len THEN offset0 + size0 ELSE len
           bytes == FileBytes(inode)
           ofs(size) == offset0 + (size0 - size)
           cnt(size) == chunk_size(inode, size, ofs(size))
           one(size) == Piece(block[byte_to_sector(inode, ofs(size))][2],
                              ofs(size) % BLOCK_SECTOR_SIZE, cnt(size))
           n == [size \in 0..size0 |-> cnt(size)]
           head == [size \in 0..size0 |-> one(size)]
           read == CHOOSE g : g = [size \in 0..size0 |->
                      IF cnt(size) <= 0 THEN <<>> ELSE one(size) \o g[size - cnt(size)]]
           Right(size) == read[size] = SubSeq(bytes, ofs(size) + 1, last)
<1>1. inode_read_at(block, inode, size0, offset0) = read[size0]
  BY DEF inode_read_at
<1>2. ASSUME NEW size \in 0..size0
      PROVE  /\ ofs(size) \in Nat /\ cnt(size) \in Int /\ cnt(size) <= size
             /\ cnt(size) <= BLOCK_SECTOR_SIZE - (ofs(size) % BLOCK_SECTOR_SIZE)
             /\ cnt(size) <= len - ofs(size)
             /\ cnt(size) <= 0 => size = 0 \/ ofs(size) >= len
             /\ cnt(size) > 0 => ofs(size) < len
  <2>1. size \in Nat /\ ofs(size) \in Nat
    OBVIOUS
  <2> HIDE DEF ofs
  <2> QED
    BY <2>1, ChunkFits
<1>3. \E g : g = [size \in 0..size0 |->
               IF cnt(size) <= 0 THEN <<>> ELSE one(size) \o g[size - cnt(size)]]
  <2> HIDE DEF cnt, one
  <2>1. \A i \in 0..size0 : n[i] = cnt(i) /\ head[i] = one(i)
    OBVIOUS
  <2>2. \A i \in 0..size0 : n[i] \in Int /\ n[i] <= i
    BY <1>2, <2>1
  <2> HIDE DEF n, head
  <2>3. PICK g : IsLoop(g, size0, n, head)
    BY <2>2, LoopExists
  <2>4. g = [i \in 0..size0 |-> IF cnt(i) <= 0 THEN <<>> ELSE one(i) \o g[i - cnt(i)]]
    BY <2>1, <2>3 DEF IsLoop
  <2> QED
    BY <2>4
<1> HIDE DEF one
<1>4. read = [size \in 0..size0 |->
        IF cnt(size) <= 0 THEN <<>> ELSE one(size) \o read[size - cnt(size)]]
  <2> HIDE DEF cnt
  <2> QED
    BY <1>3
<1> HIDE DEF cnt, read
<1> DEFINE S == {bytes[k] : k \in 1..len}
<1>5. bytes \in Seq(S) /\ Len(bytes) = len
  <2>1. bytes \in [1..len -> S]
    BY DEF FileBytes
  <2> HIDE DEF bytes, S
  <2>2. bytes \in Seq(S)
    BY <2>1, SeqDef
  <2>3. DOMAIN bytes = 1..len /\ DOMAIN bytes = 1..Len(bytes) /\ Len(bytes) \in Nat
    BY <2>1, <2>2, LenProperties
  <2> QED
    BY <2>2, <2>3
<1>6. last \in Nat /\ last <= len /\ len \in Nat /\ last <= offset0 + size0
  OBVIOUS
<1>7. ASSUME NEW size \in 0..size0, cnt(size) > 0
      PROVE  one(size) = SubSeq(bytes, ofs(size) + 1, ofs(size) + cnt(size))
  <2> DEFINE o == ofs(size)
             c == cnt(size)
             B == BLOCK_SECTOR_SIZE
             r == o % B
             P == one(size)
             Q == SubSeq(bytes, o + 1, o + c)
  <2>1. /\ o \in Nat /\ c \in Nat /\ c > 0 /\ o + c <= len /\ c <= B - r /\ o < len
        /\ B \in Nat \ {0} /\ r \in Nat
    BY <1>2, <1>7, FilesysAssumption
  <2>2. P = [i \in 1..c |-> block[byte_to_sector(inode, o)][2][r + i]]
    BY DEF one, Piece
  <2>3. byte_to_sector(inode, o) = inode.start + o \div B
    BY <2>1 DEF byte_to_sector
  <2>4. ASSUME NEW i \in 1..c
        PROVE  bytes[o + i] = block[byte_to_sector(inode, o)][2][r + i]
    <3>1. o + i \in 1..len /\ i - 1 \in Nat /\ r + (i - 1) < B /\ o + i - 1 = o + (i - 1)
      <4> HIDE DEF o, c, r, B
      <4> QED
        BY <2>1
    <3>2. (o + (i - 1)) \div B = o \div B /\ (o + (i - 1)) % B = r + (i - 1)
      BY <2>1, <3>1, ByteOfChunk
    <3>3. bytes[o + i] = block[inode.start + (o + i - 1) \div B][2][((o + i - 1) % B) + 1]
      <4>1. bytes = [k \in 1..len |->
                       block[inode.start + (k - 1) \div B][2][((k - 1) % B) + 1]]
        BY DEF FileBytes
      <4> HIDE DEF bytes, o, B, len
      <4>2. \A k \in 1..len :
              bytes[k] = block[inode.start + (k - 1) \div B][2][((k - 1) % B) + 1]
        BY <4>1
      <4> QED
        BY <2>1, <3>1, <4>2
    <3>4. (r + (i - 1)) + 1 = r + i
      <4> HIDE DEF r
      <4> QED
        BY <2>1
    <3> HIDE DEF bytes, o, r, B, c
    <3>5. o + i - 1 = o + (i - 1)
      BY <3>1
    <3> QED
      BY <2>3, <3>2, <3>3, <3>4, <3>5
  <2> HIDE DEF o, c, r, P, B, bytes, S, len
  <2>5. \A i \in o + 1 .. o + c : bytes[i] \in S
    <3>1. TAKE i \in o + 1 .. o + c
    <3>2. i \in 1..Len(bytes)
      BY <1>5, <1>6, <2>1
    <3> QED
      BY <1>5, <3>2, ElementOfSeq
  <2>6. /\ Q \in Seq(S) /\ Len(Q) = c
        /\ \A i \in 1..c : Q[i] = bytes[o + i]
    <3>1. /\ Q \in Seq(S)
          /\ Len(Q) = IF o + 1 <= o + c THEN (o + c) - (o + 1) + 1 ELSE 0
          /\ \A i \in 1 .. (o + c) - (o + 1) + 1 : Q[i] = bytes[(o + 1) + i - 1]
      <4>1. o + 1 \in Int /\ o + c \in Int
        BY <2>1
      <4> QED
        BY <2>5, <4>1, SubSeqProperties
    <3>2. o + 1 <= o + c /\ (o + c) - (o + 1) + 1 = c
      BY <2>1
    <3>3. \A i \in 1..c : (o + 1) + i - 1 = o + i
      BY <2>1
    <3> HIDE DEF Q
    <3> QED
      BY <3>1, <3>2, <3>3
  <2>7. \A i \in 1..c : P[i] = Q[i]
    BY <2>2, <2>4, <2>6
  <2>8. Q \in [1..c -> S]
    <3> HIDE DEF Q
    <3> QED
      BY <2>6, LenProperties
  <2>9. P = Q
    <3> HIDE DEF Q
    <3> QED
      BY <2>2, <2>7, <2>8
  <2> QED
    BY <2>9 DEF o, c, P
<1> HIDE DEF bytes, S, last, len
<1> DEFINE Bad == {m \in 0..size0 : ~Right(m)}
<1>8. ASSUME Bad # {} PROVE FALSE
  <2>1. PICK m \in Bad : \A k \in Bad : m <= k
    <3> HIDE DEF Right
    <3>1. Bad \in SUBSET Nat
      OBVIOUS
    <3> HIDE DEF Bad
    <3> QED
      BY <1>8, <3>1, LeastNumber
  <2>2. m \in 0..size0 /\ ~Right(m)
    <3> HIDE DEF Right
    <3> QED
      OBVIOUS
  <2>3. read[m] = IF cnt(m) <= 0 THEN <<>> ELSE one(m) \o read[m - cnt(m)]
    BY <1>4, <2>2
  <2>4. /\ ofs(m) \in Nat /\ cnt(m) \in Int /\ cnt(m) <= m /\ cnt(m) <= len - ofs(m)
        /\ cnt(m) <= 0 => m = 0 \/ ofs(m) >= len
    BY <1>2, <2>2
  <2>5. CASE cnt(m) <= 0
    <3>1. last < ofs(m) + 1
      <4>1. m = 0 => ofs(m) = offset0 + size0
        OBVIOUS
      <4> HIDE DEF ofs
      <4> QED
        BY <1>6, <2>4, <2>5, <4>1
    <3>2. SubSeq(bytes, ofs(m) + 1, last) = <<>>
      <4> HIDE DEF ofs
      <4> QED
        BY <1>6, <2>4, <3>1, SubSeqEmpty
    <3> QED
      BY <2>2, <2>3, <2>5, <3>2
  <2>6. CASE cnt(m) > 0
    <3> DEFINE k == m - cnt(m)
    <3>1. k \in 0..size0 /\ ~(m <= k) /\ ofs(k) = ofs(m) + cnt(m)
      BY <2>2, <2>4, <2>6
    <3>2. Right(k)
      <4> HIDE DEF Right, k
      <4> QED
        BY <2>1, <3>1
    <3>3. read[m] = SubSeq(bytes, ofs(m) + 1, ofs(m) + cnt(m))
                      \o SubSeq(bytes, ofs(m) + cnt(m) + 1, last)
      <4>1. one(m) = SubSeq(bytes, ofs(m) + 1, ofs(m) + cnt(m))
        BY <1>7, <2>2, <2>6
      <4>2. read[k] = SubSeq(bytes, ofs(m) + cnt(m) + 1, last)
        BY <3>1, <3>2
      <4>3. read[m] = one(m) \o read[k]
        BY <2>3, <2>4, <2>6
      <4> QED
        BY <4>1, <4>2, <4>3
    <3>4. ofs(m) + cnt(m) <= last
      <4>1. ofs(m) + cnt(m) <= offset0 + size0
        BY <2>2, <2>4
      <4>2. ofs(m) + cnt(m) <= len
        <5> HIDE DEF ofs
        <5> QED
          BY <1>6, <2>4
      <4> HIDE DEF ofs
      <4> QED
        BY <4>1, <4>2 DEF last
    <3>5. SubSeq(bytes, ofs(m) + 1, ofs(m) + cnt(m)) \o SubSeq(bytes, ofs(m) + cnt(m) + 1, last)
            = SubSeq(bytes, ofs(m) + 1, last)
      <4> DEFINE lo == ofs(m) + 1
                 mid == ofs(m) + cnt(m)
      <4>1. lo \in 1 .. Len(bytes) + 1 /\ mid \in lo - 1 .. Len(bytes) /\ last \in mid .. Len(bytes)
        <5> HIDE DEF ofs
        <5> QED
          BY <1>5, <1>6, <2>4, <2>6, <3>4
      <4> HIDE DEF lo, mid
      <4>2. SubSeq(bytes, lo, mid) \o SubSeq(bytes, mid + 1, last) = SubSeq(bytes, lo, last)
        BY <1>5, <4>1, ConcatAdjacentSubSeq
      <4> QED
        BY <4>2 DEF lo, mid
    <3> QED
      BY <2>2, <3>3, <3>5
  <2> QED
    BY <2>4, <2>5, <2>6
<1>9. Right(size0)
  <2>1. size0 \in 0..size0
    OBVIOUS
  <2> HIDE DEF Right
  <2> QED
    BY <1>8, <2>1
<1>10. ofs(size0) = offset0
  OBVIOUS
<1> HIDE DEF ofs
<1> QED
  BY <1>1, <1>9, <1>10 DEF bytes, last, len

(***************************************************************************)
(* Where a function of the file system starts: nothing is left to write.   *)
(***************************************************************************)
LEMMA IdleFacts ==
  ASSUME IInv, Idle
  PROVE  /\ EndOf(block, todo) = block /\ DiskRight(block) /\ Agrees(block, free_map, inodes)
         /\ MapStart = 2 /\ DirSector = 3
         /\ entries = DirOf(block) /\ entries \in [1..DirEntries -> Entry]
         /\ DOMAIN entries = 1..DirEntries
<1>1. todo = <<>> /\ Len(todo) = 0 /\ 0 \in 0..0
  BY DEF Idle
<1>2. DiskRight(After(block, todo, 0))
  BY <1>1 DEF IInv, WritesRight, Passes
<1>3. After(block, todo, 0) = block
  BY AfterZero DEF IInv, WritesRight
<1>4. EndOf(block, todo) = block /\ DiskRight(block)
  BY <1>1, <1>2, <1>3 DEF EndOf
<1>5. Agrees(block, free_map, inodes)
  BY <1>4 DEF IInv, MemoryAgrees
<1>6. MapStart = 2
  BY DEF IInv, MemoryRight, MapStart, FREE_MAP_SECTOR
<1>7. DirSector = 3 /\ Layout(block)
  <2>1. Layout(block)
    BY <1>4 DEF DiskRight
  <2>2. block[1] = <<"inode", 3, 1>>
    BY <2>1 DEF Layout
  <2> QED
    BY <2>1, <2>2 DEF DirSector, ROOT_DIR_SECTOR
<1>8. entries = DirOf(block) /\ entries \in [1..DirEntries -> Entry]
  BY <1>7 DEF entries, DirOf, Layout
<1>9. DOMAIN entries = 1..DirEntries
  BY <1>8
<1> QED
  BY <1>4, <1>5, <1>6, <1>7, <1>8, <1>9

\* The files there are, by name or open: sectors of their own, in use.
LEMMA FilesOfMap ==
  ASSUME NEW d, NEW map, NEW L, FilesOn(d, map, L), NEW s \in L
  PROVE  /\ s \in Sectors \ (0..3) /\ s \in map /\ d[s] = <<"inode", d[s][2], d[s][3]>>
         /\ d[s][2] \in Nat /\ d[s][3] \in Nat
         /\ s \notin Extent(d[s][2], d[s][3])
         /\ Own(d, s) \subseteq map \ (0..3)
         /\ \A r \in L \ {s} : Own(d, s) \cap Own(d, r) = {} /\ r \notin Own(d, s)
BY DEF FilesOn, Own

\* Memory agrees with a disk on which the same files are.
LEMMA AgreesStill ==
  ASSUME NEW d, NEW e, NEW map, NEW m, NEW open,
         Agrees(d, map, open), MapOf(e) = m, Named(e) = Named(d),
         Keeps(d, e, Named(d) \cup OpenedIn(open), m)
  PROVE  Agrees(e, m, open)
<1> DEFINE L == Named(d) \cup OpenedIn(open)
<1>1. FilesOn(d, map, L) /\ L \subseteq L
  BY DEF Agrees
<1>2. FilesOn(e, m, L)
  <2> HIDE DEF L
  <2>1. Keeps(d, e, L, m)
    BY DEF L
  <2> QED
    BY <1>1, <2>1, FilesStay
<1>3. \A s \in OpenedIn(open) : e[s] = d[s]
  BY DEF Keeps
<1> QED
  BY <1>2, <1>3 DEF Agrees

(***************************************************************************)
(* The inodes in memory.                                                   *)
(***************************************************************************)
LEMMA InodeOpened ==
  ASSUME NEW open \in [Sectors -> Inode \cup {NULL}], NEW disk, NEW s \in Sectors,
         disk[s][2] \in Nat, disk[s][3] \in Nat
  PROVE  LET o == inode_open(open, disk, s)
         IN  /\ o \in [Sectors -> Inode \cup {NULL}]
             /\ o[s] \in Inode /\ o[s] # NULL
             /\ \A t \in Sectors \ {s} : o[t] = open[t]
             /\ open[s] = NULL =>
                  o[s] = [open_cnt |-> 1, removed |-> FALSE, deny_write_cnt |-> 0,
                          start |-> disk[s][2], length |-> disk[s][3]]
             /\ open[s] # NULL => o[s] = [open[s] EXCEPT !.open_cnt = @ + 1]
<1>1. NULL \notin Inode
  BY FilesysAssumption
<1> DEFINE o == inode_open(open, disk, s)
           new == [open_cnt |-> 1, removed |-> FALSE, deny_write_cnt |-> 0,
                   start |-> disk[s][2], length |-> disk[s][3]]
<1>2. /\ o = [t \in Sectors |-> o[t]]
      /\ o[s] = (IF open[s] # NULL THEN [open[s] EXCEPT !.open_cnt = @ + 1] ELSE new)
      /\ \A t \in Sectors \ {s} : o[t] = open[t]
  BY DEF inode_open
<1>3. new \in Inode
  BY DEF Inode
<1>4. open[s] # NULL => [open[s] EXCEPT !.open_cnt = @ + 1] \in Inode
  <2>1. ASSUME NEW x \in Inode PROVE [x EXCEPT !.open_cnt = @ + 1] \in Inode
    BY DEF Inode
  <2> QED
    BY <2>1
<1>5. open[s] # NULL => o[s] = [open[s] EXCEPT !.open_cnt = @ + 1]
  BY <1>2
<1>6. open[s] = NULL => o[s] = new
  BY <1>2
<1> HIDE DEF o, new
<1>7. o[s] \in Inode /\ o[s] # NULL
  BY <1>1, <1>3, <1>4, <1>5, <1>6
<1>8. \A t \in Sectors : o[t] \in Inode \cup {NULL}
  BY <1>2, <1>7
<1>9. o \in [Sectors -> Inode \cup {NULL}]
  BY <1>2, <1>8
<1> QED
  BY <1>2, <1>5, <1>6, <1>7, <1>9 DEF o, new

\* The counts of an inode that is open on the files F, of which D deny writing.
Counts(inode, F, D) ==
  IF inode = NULL THEN F = {}
  ELSE inode.open_cnt = Cardinality(F) /\ inode.deny_write_cnt = Cardinality(D)
Denying(s) == {h \in OpenOn(s) : files[h].deny_write}

LEMMA CountsAre == CountsRight <=> \A s \in Sectors \ {0} : Counts(inodes[s], OpenOn(s), Denying(s))
BY DEF CountsRight, Counts, Denying, FREE_MAP_SECTOR

LEMMA OpenFinite ==
  ASSUME NEW s
  PROVE  /\ IsFiniteSet(OpenOn(s)) /\ IsFiniteSet(Denying(s))
         /\ Cardinality(OpenOn(s)) \in Nat /\ Cardinality(Denying(s)) \in Nat
         /\ Cardinality(Denying(s)) <= Cardinality(OpenOn(s))
         /\ (Cardinality(OpenOn(s)) = 0 <=> OpenOn(s) = {})
         /\ (Cardinality(Denying(s)) = 0 <=> Denying(s) = {})
<1>1. OpenOn(s) \subseteq Handles /\ Denying(s) \subseteq OpenOn(s)
  BY DEF OpenOn, Denying
<1>2. IsFiniteSet(OpenOn(s))
  BY <1>1, FS_Subset, FilesysAssumption
<1>3. IsFiniteSet(Denying(s)) /\ Cardinality(Denying(s)) <= Cardinality(OpenOn(s))
  BY <1>1, <1>2, FS_Subset
<1> QED
  BY <1>2, <1>3, FS_CardinalityType, FS_EmptySet

\* A file that is open has its inode in memory.
LEMMA InodeInMemory ==
  ASSUME MemoryRight, CountsRight, NEW h \in Handles, files[h] # NULL
  PROVE  LET s == files[h].inode
         IN  /\ s \in OpenedIn(inodes) /\ s \in Sectors \ {0}
             /\ inodes[s] \in Inode /\ inodes[s] # NULL
             /\ h \in OpenOn(s) /\ Counts(inodes[s], OpenOn(s), Denying(s))
             /\ files[h] \in File
<1> DEFINE s == files[h].inode
<1>1. files[h] \in File
  BY DEF MemoryRight
<1>2. s \in Sectors \ {0}
  BY <1>1 DEF MemoryRight, File
<1>3. h \in OpenOn(s)
  BY DEF OpenOn
<1>4. Counts(inodes[s], OpenOn(s), Denying(s))
  BY <1>2, CountsAre
<1>5. inodes[s] # NULL
  BY <1>3, <1>4 DEF Counts
<1>6. inodes[s] \in Inode
  BY <1>2, <1>5 DEF MemoryRight
<1>7. s \in OpenedIn(inodes)
  BY <1>2, <1>5 DEF OpenedIn, FREE_MAP_SECTOR
<1> QED
  BY <1>1, <1>2, <1>3, <1>4, <1>5, <1>6, <1>7

\* inode_open, for a new open file.
LEMMA OpenKeeps ==
  ASSUME IInv, Idle, NEW h \in Handles, files[h] = NULL,
         NEW s \in Named(block) \cup OpenedIn(inodes),
         inodes' = inode_open(inodes, block, s),
         files' = [files EXCEPT ![h] = [inode |-> s, pos |-> 0, deny_write |-> FALSE]],
         UNCHANGED <<block, todo, free_map, failed>>
  PROVE  IInv'
<1> DEFINE f == [inode |-> s, pos |-> 0, deny_write |-> FALSE]
<1>1. /\ EndOf(block, todo) = block /\ DiskRight(block) /\ Agrees(block, free_map, inodes)
  BY IdleFacts
<1>2. /\ s \in Sectors \ (0..3) /\ block[s][2] \in Nat /\ block[s][3] \in Nat
  BY <1>1, FilesOfMap DEF Agrees
<1>3. s \in Sectors /\ s # 0 /\ 0 \in Sectors
  BY <1>2, FirstSectors
<1>4. MemoryRight /\ CountsRight
  BY DEF IInv
<1>5. inodes \in [Sectors -> Inode \cup {NULL}] /\ files \in [Handles -> File \cup {NULL}]
  BY <1>4 DEF MemoryRight
<1>6. /\ inodes' \in [Sectors -> Inode \cup {NULL}]
      /\ inodes'[s] \in Inode /\ inodes'[s] # NULL
      /\ \A t \in Sectors \ {s} : inodes'[t] = inodes[t]
      /\ inodes[s] = NULL =>
           inodes'[s] = [open_cnt |-> 1, removed |-> FALSE, deny_write_cnt |-> 0,
                         start |-> block[s][2], length |-> block[s][3]]
      /\ inodes[s] # NULL => inodes'[s] = [inodes[s] EXCEPT !.open_cnt = @ + 1]
  BY <1>2, <1>3, <1>5, InodeOpened
<1>7. f \in File /\ f # NULL
  <2>1. f \in File
    BY <1>3 DEF File
  <2> QED
    BY <2>1, FilesysAssumption
<1>8. /\ files' \in [Handles -> File \cup {NULL}] /\ files'[h] = f
      /\ \A g \in Handles \ {h} : files'[g] = files[g]
  BY <1>5, <1>7
<1>9. MemoryRight'
  <2>1. inodes'[0] # NULL /\ inodes'[0].start = 2
    BY <1>3, <1>4, <1>6 DEF MemoryRight
  <2>2. \A g \in Handles : files'[g] # NULL => files'[g].inode # 0
    BY <1>3, <1>4, <1>8 DEF MemoryRight
  <2> QED
    BY <1>6, <1>8, <2>1, <2>2 DEF MemoryRight
<1>10. WritesRight'
  BY DEF IInv, WritesRight
<1>11. OpenedIn(inodes') = OpenedIn(inodes) \cup {s}
  BY <1>3, <1>6 DEF OpenedIn, FREE_MAP_SECTOR
<1>12. inodes[s] # NULL =>
         /\ inodes'[s].open_cnt = inodes[s].open_cnt + 1
         /\ inodes'[s].deny_write_cnt = inodes[s].deny_write_cnt
         /\ inodes'[s].removed = inodes[s].removed
         /\ inodes'[s].start = inodes[s].start /\ inodes'[s].length = inodes[s].length
  <2>1. ASSUME NEW x \in Inode, NEW y, y = [x EXCEPT !.open_cnt = @ + 1]
        PROVE  /\ y.open_cnt = x.open_cnt + 1
               /\ y.deny_write_cnt = x.deny_write_cnt /\ y.removed = x.removed
               /\ y.start = x.start /\ y.length = x.length
    BY <2>1 DEF Inode
  <2>2. inodes[s] # NULL => inodes[s] \in Inode
    BY <1>3, <1>5
  <2> QED
    BY <1>6, <2>1, <2>2
<1>13. Agrees(block, free_map, inodes')
  <2>1. FilesOn(block, free_map, Named(block) \cup OpenedIn(inodes'))
    <3>1. Named(block) \cup OpenedIn(inodes') = Named(block) \cup OpenedIn(inodes)
      BY <1>11
    <3> QED
      BY <1>1, <3>1 DEF Agrees
  <2>2. ASSUME NEW t \in OpenedIn(inodes')
        PROVE  /\ inodes'[t].start = block[t][2] /\ inodes'[t].length = block[t][3]
               /\ inodes'[t].removed => t \notin Named(block)
    <3>1. CASE t \in OpenedIn(inodes) /\ t # s
      <4>1. inodes'[t] = inodes[t]
        BY <1>6, <3>1 DEF OpenedIn
      <4> QED
        BY <1>1, <3>1, <4>1 DEF Agrees
    <3>2. CASE t \in OpenedIn(inodes) /\ t = s
      BY <1>1, <1>12, <3>2 DEF Agrees, OpenedIn
    <3>3. CASE t \notin OpenedIn(inodes)
      <4>1. t = s /\ inodes[s] = NULL
        BY <1>3, <1>11, <3>3 DEF OpenedIn, FREE_MAP_SECTOR
      <4> QED
        BY <1>6, <4>1
    <3> QED
      BY <3>1, <3>2, <3>3
  <2> QED
    BY <1>1, <2>1, <2>2 DEF Agrees
<1>14. MemoryAgrees'
  BY <1>1, <1>13 DEF MemoryAgrees
<1>15. CountsRight'
  <2>1. ASSUME NEW t \in Sectors \ {0}
        PROVE  Counts(inodes[t], OpenOn(t), Denying(t))'
    <3>1. Counts(inodes[t], OpenOn(t), Denying(t))
      BY <1>4, CountsAre
    <3>2. OpenOn(t)' = IF t = s THEN OpenOn(t) \cup {h} ELSE OpenOn(t)
      BY <1>7, <1>8 DEF OpenOn
    <3>3. Denying(t)' = Denying(t) /\ h \notin OpenOn(t)
      BY <1>7, <1>8 DEF Denying, OpenOn
    <3>4. CASE t # s
      BY <1>6, <3>1, <3>2, <3>3, <3>4 DEF Counts
    <3>5. CASE t = s
      <4>1. Cardinality(OpenOn(t) \cup {h}) = Cardinality(OpenOn(t)) + 1
        BY <3>3, OpenFinite, FS_AddElement
      <4>2. CASE inodes[s] = NULL
        <5>1. OpenOn(t) = {} /\ Denying(t) = {}
          BY <3>1, <3>5, <4>2 DEF Counts, Denying
        <5>2. Cardinality(OpenOn(t)') = 1 /\ Cardinality(Denying(t)') = 0
          BY <3>2, <3>3, <3>5, <4>1, <5>1, FS_EmptySet
        <5> QED
          BY <1>6, <3>5, <4>2, <5>2 DEF Counts
      <4>3. CASE inodes[s] # NULL
        BY <1>6, <1>12, <3>1, <3>2, <3>3, <3>5, <4>1, <4>3 DEF Counts
      <4> QED
        BY <4>2, <4>3
    <3> QED
      BY <3>4, <3>5
  <2> QED
    BY <2>1 DEF CountsRight, Counts, Denying, FREE_MAP_SECTOR
<1> QED
  BY <1>9, <1>10, <1>14, <1>15 DEF IInv

\* Fewer inodes in memory, or other counts.
LEMMA AgreesFewer ==
  ASSUME NEW d, NEW map, NEW open, NEW new, Agrees(d, map, open),
         \A s \in OpenedIn(new) :
           /\ s \in OpenedIn(open)
           /\ new[s].start = open[s].start /\ new[s].length = open[s].length
           /\ new[s].removed = open[s].removed
  PROVE  Agrees(d, map, new)
<1> DEFINE L == Named(d) \cup OpenedIn(open)
           K == Named(d) \cup OpenedIn(new)
<1>1. FilesOn(d, map, L) /\ K \subseteq L
  BY DEF Agrees
<1>2. FilesOn(d, map, K)
  <2> HIDE DEF K, L
  <2> QED
    BY <1>1 DEF FilesOn
<1> QED
  BY <1>2 DEF Agrees

(***************************************************************************)
(* Moving in a file, denying and allowing writes.                          *)
(***************************************************************************)
LEMMA MovesKeep ==
  ASSUME MemoryRight, CountsRight, NEW h \in Handles, files[h] # NULL, NEW p \in Nat,
         files' = [files EXCEPT ![h].pos = p], inodes' = inodes
  PROVE  MemoryRight' /\ CountsRight'
<1>1. files \in [Handles -> File \cup {NULL}] /\ files[h] \in File
  BY DEF MemoryRight
<1>2. ASSUME NEW x \in File, NEW y, y = [x EXCEPT !.pos = p]
      PROVE  y \in File /\ y.inode = x.inode /\ y.deny_write = x.deny_write
  BY <1>2 DEF File
<1>3. files'[h] = [files[h] EXCEPT !.pos = p]
  BY <1>1
<1>4. /\ files'[h] \in File /\ files'[h].inode = files[h].inode
      /\ files'[h].deny_write = files[h].deny_write
  BY <1>1, <1>2, <1>3
<1>5. files'[h] # NULL
  BY <1>4, FilesysAssumption
<1>6. /\ files' \in [Handles -> File \cup {NULL}]
      /\ \A g \in Handles \ {h} : files'[g] = files[g]
  BY <1>1, <1>4
<1>7. MemoryRight'
  BY <1>4, <1>5, <1>6 DEF MemoryRight
<1>8. \A t : OpenOn(t)' = OpenOn(t) /\ Denying(t)' = Denying(t)
  BY <1>4, <1>5, <1>6 DEF OpenOn, Denying
<1>9. \A t \in Sectors \ {0} : Counts(inodes[t], OpenOn(t), Denying(t))'
  BY <1>8, CountsAre DEF Counts
<1>10. CountsRight'
  BY <1>9 DEF CountsRight, Counts, Denying, FREE_MAP_SECTOR
<1> QED
  BY <1>7, <1>10

LEMMA InodeAllowed ==
  ASSUME MemoryRight, CountsRight, NEW h \in Handles, files[h] # NULL
  PROVE  LET s == files[h].inode
             o == allowed(inodes, files[h])
         IN  /\ o \in [Sectors -> Inode \cup {NULL}]
             /\ o[s] \in Inode /\ o[s] # NULL
             /\ \A t \in Sectors \ {s} : o[t] = inodes[t]
             /\ o[s].open_cnt = inodes[s].open_cnt /\ o[s].removed = inodes[s].removed
             /\ o[s].start = inodes[s].start /\ o[s].length = inodes[s].length
             /\ o[s].deny_write_cnt = Cardinality(Denying(s) \ {h})
<1> DEFINE s == files[h].inode
           o == allowed(inodes, files[h])
<1>1. /\ s \in Sectors \ {0} /\ inodes[s] \in Inode /\ inodes[s] # NULL
      /\ h \in OpenOn(s) /\ Counts(inodes[s], OpenOn(s), Denying(s))
      /\ files[h] \in File
  BY InodeInMemory
<1>2. inodes \in [Sectors -> Inode \cup {NULL}] /\ NULL \notin Inode
  BY FilesysAssumption DEF MemoryRight
<1>3. inodes[s].deny_write_cnt = Cardinality(Denying(s))
  BY <1>1 DEF Counts
<1>4. CASE files[h].deny_write
  <2>1. h \in Denying(s)
    BY <1>1, <1>4 DEF Denying
  <2>2. Cardinality(Denying(s) \ {h}) = Cardinality(Denying(s)) - 1
    BY <2>1, OpenFinite, FS_RemoveElement
  <2>3. Cardinality(Denying(s)) \in Nat /\ Cardinality(Denying(s)) # 0
    BY <2>1, OpenFinite
  <2>4. o = [inodes EXCEPT ![s].deny_write_cnt = @ - 1]
    BY <1>4 DEF allowed
  <2>5. ASSUME NEW x \in Inode, NEW y, y = [x EXCEPT !.deny_write_cnt = @ - 1],
               x.deny_write_cnt # 0
        PROVE  /\ y \in Inode /\ y.open_cnt = x.open_cnt /\ y.removed = x.removed
               /\ y.start = x.start /\ y.length = x.length
               /\ y.deny_write_cnt = x.deny_write_cnt - 1
    BY <2>5 DEF Inode
  <2>6. /\ o[s] = [inodes[s] EXCEPT !.deny_write_cnt = @ - 1]
        /\ o = [t \in Sectors |-> o[t]] /\ \A t \in Sectors \ {s} : o[t] = inodes[t]
    BY <1>1, <1>2, <2>4
  <2> HIDE DEF o, s
  <2>7. /\ o[s] \in Inode
        /\ o[s].open_cnt = inodes[s].open_cnt /\ o[s].removed = inodes[s].removed
        /\ o[s].start = inodes[s].start /\ o[s].length = inodes[s].length
        /\ o[s].deny_write_cnt = inodes[s].deny_write_cnt - 1
    BY <1>1, <1>3, <2>3, <2>5, <2>6
  <2>8. \A t \in Sectors : o[t] \in Inode \cup {NULL}
    BY <1>2, <2>6, <2>7
  <2>9. o \in [Sectors -> Inode \cup {NULL}]
    BY <2>6, <2>8
  <2> QED
    BY <1>2, <1>3, <2>2, <2>6, <2>7, <2>9 DEF o, s
<1>5. CASE ~files[h].deny_write
  <2>1. Denying(s) \ {h} = Denying(s)
    BY <1>5 DEF Denying
  <2>2. o = inodes
    BY <1>5 DEF allowed
  <2> QED
    BY <1>1, <1>2, <1>3, <2>1, <2>2
<1> QED
  BY <1>1, <1>4, <1>5

\* One inode or none may change its counts, and one file its denying.
LEMMA DenyKeeps ==
  ASSUME IInv, NEW h \in Handles, files[h] # NULL, NEW deny \in BOOLEAN,
         files' = [files EXCEPT ![h].deny_write = deny],
         inodes' \in [Sectors -> Inode \cup {NULL}],
         \A t \in Sectors \ {files[h].inode} : inodes'[t] = inodes[t],
         inodes'[files[h].inode] # NULL,
         inodes'[files[h].inode].open_cnt = inodes[files[h].inode].open_cnt,
         inodes'[files[h].inode].removed = inodes[files[h].inode].removed,
         inodes'[files[h].inode].start = inodes[files[h].inode].start,
         inodes'[files[h].inode].length = inodes[files[h].inode].length,
         inodes'[files[h].inode].deny_write_cnt =
           Cardinality((Denying(files[h].inode) \ {h}) \cup (IF deny THEN {h} ELSE {})),
         UNCHANGED <<block, todo, free_map>>, failed' = FALSE
  PROVE  IInv'
<1> DEFINE s == files[h].inode
<1>1. MemoryRight /\ CountsRight
  BY DEF IInv
<1>2. /\ s \in OpenedIn(inodes) /\ s \in Sectors \ {0}
      /\ inodes[s] \in Inode /\ inodes[s] # NULL
      /\ h \in OpenOn(s) /\ Counts(inodes[s], OpenOn(s), Denying(s))
      /\ files[h] \in File
  BY <1>1, InodeInMemory
<1>3. files \in [Handles -> File \cup {NULL}]
  BY <1>1 DEF MemoryRight
<1>4. /\ files'[h] \in File /\ files'[h].inode = s /\ files'[h].deny_write = deny
      /\ files'[h] # NULL
  <2>1. ASSUME NEW x \in File, NEW y, y = [x EXCEPT !.deny_write = deny]
        PROVE  y \in File /\ y.inode = x.inode /\ y.deny_write = deny
    BY <2>1 DEF File
  <2>2. files'[h] = [files[h] EXCEPT !.deny_write = deny]
    BY <1>3
  <2>3. files'[h] \in File /\ files'[h].inode = s /\ files'[h].deny_write = deny
    BY <1>2, <2>1, <2>2
  <2> QED
    BY <2>3, FilesysAssumption
<1>5. /\ files' \in [Handles -> File \cup {NULL}]
      /\ \A g \in Handles \ {h} : files'[g] = files[g]
  BY <1>3, <1>4
<1>6. 0 \in Sectors
  BY FirstSectors
<1>7. MemoryRight'
  BY <1>1, <1>2, <1>4, <1>5, <1>6 DEF MemoryRight
<1>8. WritesRight'
  BY DEF IInv, WritesRight
<1>9. MemoryAgrees'
  <2> DEFINE d == EndOf(block, todo)
  <2>1. Agrees(d, free_map, inodes)
    BY DEF IInv, MemoryAgrees
  <2>2. ASSUME NEW t \in OpenedIn(inodes')
        PROVE  /\ t \in OpenedIn(inodes)
               /\ inodes'[t].start = inodes[t].start /\ inodes'[t].length = inodes[t].length
               /\ inodes'[t].removed = inodes[t].removed
    BY <1>2 DEF OpenedIn
  <2> HIDE DEF d
  <2>3. Agrees(d, free_map, inodes')
    BY <2>1, <2>2, AgreesFewer
  <2> QED
    BY <2>3 DEF MemoryAgrees, d
<1>10. \A t : OpenOn(t)' = OpenOn(t)
  BY <1>4, <1>5 DEF OpenOn
<1>11. ASSUME NEW t PROVE Denying(t)' = IF t = s THEN (Denying(s) \ {h}) \cup (IF deny THEN {h} ELSE {})
                                        ELSE Denying(t)
  BY <1>2, <1>4, <1>5, <1>10 DEF OpenOn, Denying
<1>12. CountsRight'
  <2>1. ASSUME NEW t \in Sectors \ {0}
        PROVE  Counts(inodes[t], OpenOn(t), Denying(t))'
    <3>1. Counts(inodes[t], OpenOn(t), Denying(t))
      BY <1>1, CountsAre
    <3>2. CASE t = s
      <4>1. Cardinality(OpenOn(s)) = inodes[s].open_cnt
        BY <1>2 DEF Counts
      <4>2. inodes'[s].deny_write_cnt = Cardinality(Denying(s)')
        <5>1. Denying(s)' = (Denying(s) \ {h}) \cup (IF deny THEN {h} ELSE {})
          BY <1>11
        <5> QED
          BY <5>1
      <4> HIDE DEF s
      <4> QED
        BY <1>10, <3>2, <4>1, <4>2 DEF Counts, s
    <3>3. CASE t # s
      BY <1>10, <1>11, <3>1, <3>3 DEF Counts
    <3> QED
      BY <3>2, <3>3
  <2> QED
    BY <2>1 DEF CountsRight, Counts, Denying, FREE_MAP_SECTOR
<1> QED
  BY <1>7, <1>8, <1>9, <1>12 DEF IInv

LEMMA DenyWriteKeeps == ASSUME IInv, NEW h \in Handles, DenyWrite(h) PROVE IInv'
<1> DEFINE s == files[h].inode
<1>1. /\ files[h] # NULL /\ ~files[h].deny_write
      /\ files' = [files EXCEPT ![h].deny_write = TRUE]
      /\ inodes' = [inodes EXCEPT ![s].deny_write_cnt = @ + 1]
      /\ failed' = (inodes'[s].deny_write_cnt > inodes'[s].open_cnt)
      /\ UNCHANGED <<block, todo, free_map>>
  BY DEF DenyWrite
<1>2. MemoryRight /\ CountsRight
  BY DEF IInv
<1>3. /\ s \in Sectors \ {0} /\ inodes[s] \in Inode /\ inodes[s] # NULL
      /\ h \in OpenOn(s) /\ Counts(inodes[s], OpenOn(s), Denying(s))
  BY <1>1, <1>2, InodeInMemory
<1>4. inodes \in [Sectors -> Inode \cup {NULL}] /\ NULL \notin Inode
  BY <1>2, FilesysAssumption DEF MemoryRight
<1>5. /\ inodes'[s] = [inodes[s] EXCEPT !.deny_write_cnt = @ + 1]
      /\ inodes' = [t \in Sectors |-> inodes'[t]]
      /\ \A t \in Sectors \ {s} : inodes'[t] = inodes[t]
  BY <1>1, <1>3, <1>4
<1>6. ASSUME NEW x \in Inode, NEW y, y = [x EXCEPT !.deny_write_cnt = @ + 1]
      PROVE  /\ y \in Inode /\ y.open_cnt = x.open_cnt /\ y.removed = x.removed
             /\ y.start = x.start /\ y.length = x.length
             /\ y.deny_write_cnt = x.deny_write_cnt + 1
  BY <1>6 DEF Inode
<1>7. /\ inodes'[s] \in Inode /\ inodes'[s].open_cnt = inodes[s].open_cnt
      /\ inodes'[s].removed = inodes[s].removed
      /\ inodes'[s].start = inodes[s].start /\ inodes'[s].length = inodes[s].length
      /\ inodes'[s].deny_write_cnt = inodes[s].deny_write_cnt + 1
  BY <1>3, <1>5, <1>6
<1>8. h \notin Denying(s)
  BY <1>1 DEF Denying
<1>9. /\ inodes[s].deny_write_cnt = Cardinality(Denying(s))
      /\ inodes[s].open_cnt = Cardinality(OpenOn(s))
  BY <1>3 DEF Counts
<1>10. Cardinality((Denying(s) \ {h}) \cup {h}) = Cardinality(Denying(s)) + 1
  <2>1. (Denying(s) \ {h}) \cup {h} = Denying(s) \cup {h}
    OBVIOUS
  <2> QED
    BY <1>8, <2>1, OpenFinite, FS_AddElement
<1>11. Cardinality(Denying(s)) + 1 <= Cardinality(OpenOn(s))
  <2>1. Denying(s) \cup {h} \subseteq OpenOn(s)
    BY <1>3 DEF Denying
  <2>2. Cardinality(Denying(s) \cup {h}) = Cardinality(Denying(s)) + 1
    BY <1>8, OpenFinite, FS_AddElement
  <2>3. Cardinality(Denying(s) \cup {h}) <= Cardinality(OpenOn(s))
    BY <2>1, OpenFinite, FS_Subset
  <2> QED
    BY <2>2, <2>3
<1>12. failed' = FALSE
  <2>1. Cardinality(Denying(s)) \in Nat /\ Cardinality(OpenOn(s)) \in Nat
    BY OpenFinite
  <2>2. (inodes'[s].deny_write_cnt > inodes'[s].open_cnt) = FALSE
    BY <1>7, <1>9, <1>11, <2>1
  <2> QED
    BY <1>1, <2>2
<1>13. inodes' \in [Sectors -> Inode \cup {NULL}]
  <2>1. \A t \in Sectors : inodes'[t] \in Inode \cup {NULL}
    BY <1>4, <1>5, <1>7
  <2> QED
    BY <1>5, <2>1
<1>14. inodes'[s] # NULL
  BY <1>4, <1>7
<1>15. inodes'[s].deny_write_cnt = Cardinality((Denying(s) \ {h}) \cup (IF TRUE THEN {h} ELSE {}))
  BY <1>7, <1>9, <1>10
<1> QED
  BY <1>1, <1>5, <1>7, <1>12, <1>13, <1>14, <1>15, DenyKeeps

LEMMA AllowWriteKeeps == ASSUME IInv, NEW h \in Handles, AllowWrite(h) PROVE IInv'
<1> DEFINE s == files[h].inode
<1>1. /\ files[h] # NULL /\ files[h].deny_write
      /\ failed' = (inodes[s].deny_write_cnt \notin 1 .. inodes[s].open_cnt)
      /\ inodes' = allowed(inodes, files[h])
      /\ files' = [files EXCEPT ![h].deny_write = FALSE]
      /\ UNCHANGED <<block, todo, free_map>>
  BY DEF AllowWrite
<1>2. MemoryRight /\ CountsRight
  BY DEF IInv
<1>3. /\ s \in Sectors \ {0} /\ inodes[s] \in Inode /\ inodes[s] # NULL
      /\ h \in OpenOn(s) /\ Counts(inodes[s], OpenOn(s), Denying(s))
  BY <1>1, <1>2, InodeInMemory
<1>4. /\ inodes' \in [Sectors -> Inode \cup {NULL}]
      /\ inodes'[s] \in Inode /\ inodes'[s] # NULL
      /\ \A t \in Sectors \ {s} : inodes'[t] = inodes[t]
      /\ inodes'[s].open_cnt = inodes[s].open_cnt /\ inodes'[s].removed = inodes[s].removed
      /\ inodes'[s].start = inodes[s].start /\ inodes'[s].length = inodes[s].length
      /\ inodes'[s].deny_write_cnt = Cardinality(Denying(s) \ {h})
  BY <1>1, <1>2, InodeAllowed
<1>5. failed' = FALSE
  <2>1. h \in Denying(s)
    BY <1>1, <1>3 DEF Denying
  <2>2. /\ inodes[s].deny_write_cnt = Cardinality(Denying(s))
        /\ inodes[s].open_cnt = Cardinality(OpenOn(s))
    BY <1>3 DEF Counts
  <2>3. /\ Cardinality(Denying(s)) \in Nat /\ Cardinality(OpenOn(s)) \in Nat
        /\ Cardinality(Denying(s)) <= Cardinality(OpenOn(s)) /\ Cardinality(Denying(s)) # 0
    BY <2>1, OpenFinite
  <2>4. inodes[s].deny_write_cnt \in 1 .. inodes[s].open_cnt
    BY <2>2, <2>3
  <2> QED
    BY <1>1, <2>4
<1>6. (Denying(s) \ {h}) \cup (IF FALSE THEN {h} ELSE {}) = Denying(s) \ {h}
  OBVIOUS
<1>7. inodes'[s].deny_write_cnt = Cardinality((Denying(s) \ {h}) \cup (IF FALSE THEN {h} ELSE {}))
  BY <1>4, <1>6
<1> QED
  BY <1>1, <1>4, <1>5, <1>7, DenyKeeps

\* Two maps, one after the other, that both have the sectors of every file.
LEMMA TwoMaps ==
  ASSUME NEW d, DiskRight(d),
         NEW m1 \in SUBSET Sectors, 0..3 \subseteq m1, \A t \in Named(d) : Own(d, t) \subseteq m1,
         NEW m2 \in SUBSET Sectors, 0..3 \subseteq m2, \A t \in Named(d) : Own(d, t) \subseteq m2
  PROVE  LET W == << <<2, <<"map", m1>> >> >> \o << <<2, <<"map", m2>> >> >>
             e == EndOf(d, W)
         IN  /\ Passes(d, W) /\ DiskRight(e) /\ MapOf(e) = m2
             /\ Named(e) = Named(d) /\ DirOf(e) = DirOf(d)
             /\ \A t \in Sectors \ {2} : e[t] = d[t]
<1> DEFINE W1 == << <<2, <<"map", m1>> >> >>
           W2 == << <<2, <<"map", m2>> >> >>
           d1 == [d EXCEPT ![2] = <<"map", m1>>]
           d2 == [d1 EXCEPT ![2] = <<"map", m2>>]
<1>1. 2 \in Sectors
  BY FirstSectors
<1>2. /\ DiskRight(d1) /\ MapOf(d1) = m1
      /\ DirOf(d1) = DirOf(d) /\ Named(d1) = Named(d)
      /\ \A t \in Sectors \ {2} : d1[t] = d[t]
  BY MapWritten
<1>3. Passes(d, W1) /\ EndOf(d, W1) = d1
  BY <1>1, <1>2, PassesOne
<1> HIDE DEF d1
<1>4. ASSUME NEW t \in Named(d1) PROVE Own(d1, t) \subseteq m2
  <2>1. t \in Sectors \ {2}
    <3>1. t \in Sectors \ (0..3)
      BY <1>2, FilesOfMap DEF DiskRight
    <3> QED
      BY <3>1, FirstSectors
  <2>2. Own(d1, t) = Own(d, t)
    BY <1>2, <2>1 DEF Own
  <2> QED
    BY <1>2, <2>2
<1>5. /\ DiskRight(d2) /\ MapOf(d2) = m2
      /\ DirOf(d2) = DirOf(d1) /\ Named(d2) = Named(d1)
      /\ \A t \in Sectors \ {2} : d2[t] = d1[t]
  BY <1>2, <1>4, MapWritten
<1>6. Passes(d1, W2) /\ EndOf(d1, W2) = d2
  BY <1>1, <1>2, <1>5, PassesOne
<1> HIDE DEF d2, W1, W2
<1>7. Passes(d, W1 \o W2) /\ EndOf(d, W1 \o W2) = d2
  BY <1>3, <1>6, PassesBoth
<1> QED
  BY <1>2, <1>5, <1>7 DEF W1, W2

(***************************************************************************)
(* Releasing the sectors of a removed file.                                *)
(***************************************************************************)
Same(d, e, K) == \A t \in K : e[t] = d[t]

\* The inodes in memory, fewer perhaps, are the files they were.
SameFiles(open, new, names) ==
  \A t \in OpenedIn(new) :
    /\ t \in OpenedIn(open)
    /\ new[t].start = open[t].start /\ new[t].length = open[t].length
    /\ new[t].removed => open[t].removed \/ t \notin names

\* The sectors of one file are given back; it has no name and nobody has it open.
LEMMA AgreesReleased ==
  ASSUME NEW d, NEW e, NEW map, NEW open, NEW new, NEW gone, NEW s,
         Agrees(d, map, open), MapOf(e) = map \ gone, Named(e) \subseteq Named(d),
         Same(d, e, Sectors \ (0..3)), SameFiles(open, new, Named(e)),
         gone # {} => /\ s \in Named(d) \cup OpenedIn(open) /\ gone = Own(d, s)
                      /\ s \notin Named(e) \cup OpenedIn(new)
  PROVE  Agrees(e, map \ gone, new)
<1> DEFINE L == Named(d) \cup OpenedIn(open)
           K == Named(e) \cup OpenedIn(new)
<1>1. FilesOn(d, map, L)
  BY DEF Agrees
<1>2. K \subseteq L
  BY DEF SameFiles
<1>3. Keeps(d, e, K, map \ gone)
  <2>1. ASSUME NEW t \in K PROVE e[t] = d[t] /\ Own(d, t) \subseteq map \ gone
    <3>1. /\ t \in L /\ t \in Sectors \ (0..3) /\ Own(d, t) \subseteq map
          /\ \A r \in L \ {t} : Own(d, t) \cap Own(d, r) = {}
      <4> HIDE DEF K, L
      <4> QED
        BY <1>1, <1>2, FilesOfMap
    <3>2. Own(d, t) \cap gone = {}
      <4>1. CASE gone = {}
        BY <4>1
      <4>2. CASE gone # {}
        <5>1. s \in L \ {t} /\ gone = Own(d, s)
          BY <4>2
        <5> QED
          BY <3>1, <5>1
      <4> QED
        BY <4>1, <4>2
    <3>3. e[t] = d[t]
      BY <3>1 DEF Same
    <3> QED
      BY <3>1, <3>2, <3>3
  <2> HIDE DEF K
  <2> QED
    BY <2>1 DEF Keeps
<1>4. FilesOn(e, map \ gone, K)
  <2> HIDE DEF K, L
  <2> QED
    BY <1>1, <1>2, <1>3, FilesStay
<1>5. ASSUME NEW t \in OpenedIn(new)
      PROVE  /\ new[t].start = e[t][2] /\ new[t].length = e[t][3]
             /\ new[t].removed => t \notin Named(e)
  <2>1. t \in OpenedIn(open) /\ t \in K
    BY DEF SameFiles
  <2>2. e[t] = d[t]
    <3> HIDE DEF K
    <3> QED
      BY <1>3, <2>1 DEF Keeps
  <2>3. /\ open[t].start = d[t][2] /\ open[t].length = d[t][3]
        /\ open[t].removed => t \notin Named(d)
    BY <2>1 DEF Agrees
  <2> QED
    BY <2>2, <2>3 DEF SameFiles
<1> QED
  BY <1>4, <1>5 DEF Agrees

MayRelease(d, open, s) ==
  released(open, s) # {} =>
    /\ released(open, s) = Own(d, s) /\ s \notin Named(d)
    /\ FilesOn(d, free_map, Named(d) \cup {s})

LEMMA Releases ==
  ASSUME NEW d, DiskRight(d), MapOf(d) = free_map, MapStart = 2, NEW open, NEW s,
         MayRelease(d, open, s)
  PROVE  LET W == release_writes(open, s)
             e == EndOf(d, W)
         IN  /\ Passes(d, W) /\ DiskRight(e)
             /\ MapOf(e) = free_map \ released(open, s)
             /\ released(open, s) \subseteq free_map
             /\ Named(e) = Named(d) /\ DirOf(e) = DirOf(d)
             /\ \A t \in Sectors \ {2} : e[t] = d[t]
<1> DEFINE gone == released(open, s)
<1>1. CASE gone = {}
  <2>1. release_writes(open, s) = <<>>
    BY <1>1 DEF release_writes
  <2>2. Passes(d, <<>>) /\ EndOf(d, <<>>) = d
    BY PassesNone
  <2> HIDE DEF gone
  <2> QED
    BY <1>1, <2>1, <2>2 DEF gone
<1>2. CASE gone # {}
  <2> DEFINE m1 == free_map \ {s}
             m2 == free_map \ gone
             W1 == << <<2, <<"map", m1>> >> >>
             W2 == << <<2, <<"map", m2>> >> >>
  <2>1. /\ gone = Own(d, s) /\ s \notin Named(d) /\ FilesOn(d, free_map, Named(d) \cup {s})
    BY <1>2 DEF MayRelease
  <2>2. release_writes(open, s) = W1 \o W2
    BY <1>2 DEF release_writes, bitmap_write
  <2>3. /\ s \in Sectors \ (0..3) /\ s \in gone /\ gone \subseteq free_map \ (0..3)
        /\ \A t \in Named(d) : /\ Own(d, t) \subseteq free_map \ (0..3)
                              /\ Own(d, t) \cap gone = {} /\ s \notin Own(d, t)
    <3> DEFINE L == Named(d) \cup {s}
    <3>1. /\ s \in Sectors \ (0..3) /\ Own(d, s) \subseteq free_map \ (0..3)
          /\ \A r \in L \ {s} : Own(d, s) \cap Own(d, r) = {} /\ r \notin Own(d, s)
      <4>1. s \in L /\ FilesOn(d, free_map, L)
        BY <2>1
      <4> HIDE DEF L
      <4> QED
        BY <4>1, FilesOfMap
    <3>2. s \in gone
      BY <2>1 DEF Own
    <3>3. ASSUME NEW t \in Named(d)
          PROVE  /\ Own(d, t) \subseteq free_map \ (0..3)
                 /\ Own(d, t) \cap gone = {} /\ s \notin Own(d, t)
      <4>1. t \in L \ {s}
        BY <2>1
      <4>2. Own(d, t) \subseteq free_map \ (0..3)
        BY <2>1 DEF FilesOn
      <4>3. Own(d, s) \cap Own(d, t) = {}
        BY <3>1, <4>1
      <4> HIDE DEF gone
      <4> QED
        BY <2>1, <3>2, <4>2, <4>3
    <3> HIDE DEF gone
    <3> QED
      BY <2>1, <3>1, <3>2, <3>3
  <2>4. 0..3 \subseteq free_map /\ free_map \subseteq Sectors /\ 2 \in Sectors /\ 2 \in 0..3
    BY FirstSectors DEF DiskRight, Layout
  <2> HIDE DEF gone
  <2>5. /\ m1 \in SUBSET Sectors /\ m2 \in SUBSET Sectors
        /\ 0..3 \subseteq m1 /\ 0..3 \subseteq m2
        /\ \A t \in Named(d) : Own(d, t) \subseteq m1
        /\ \A t \in Named(d) : Own(d, t) \subseteq m2
    BY <2>3, <2>4
  <2> HIDE DEF m1, m2
  <2> DEFINE W == W1 \o W2
             e == EndOf(d, W)
  <2>6. /\ Passes(d, W) /\ DiskRight(e) /\ MapOf(e) = m2
        /\ Named(e) = Named(d) /\ DirOf(e) = DirOf(d)
        /\ \A t \in Sectors \ {2} : e[t] = d[t]
    BY <2>5, TwoMaps
  <2>7. gone \subseteq free_map
    BY <2>3
  <2> HIDE DEF W1, W2
  <2> QED
    BY <2>2, <2>6, <2>7 DEF m2, gone
<1> QED
  BY <1>1, <1>2

\* inode_close of an inode in memory.
LEMMA InodeClosed ==
  ASSUME NEW open \in [Sectors -> Inode \cup {NULL}], NEW s \in Sectors, open[s] \in Inode
  PROVE  LET o == inode_close(open, s)
         IN  /\ o \in [Sectors -> Inode \cup {NULL}]
             /\ \A t \in Sectors \ {s} : o[t] = open[t]
             /\ open[s].open_cnt = 1 => o[s] = NULL
             /\ open[s].open_cnt # 1 =>
                  /\ o[s] # NULL /\ o[s].open_cnt = open[s].open_cnt - 1
                  /\ o[s].deny_write_cnt = open[s].deny_write_cnt
                  /\ o[s].removed = open[s].removed
                  /\ o[s].start = open[s].start /\ o[s].length = open[s].length
<1> DEFINE o == inode_close(open, s)
<1>1. NULL \notin Inode
  BY FilesysAssumption
<1>2. CASE open[s].open_cnt = 1
  <2>1. o = [open EXCEPT ![s] = NULL]
    BY <1>2 DEF inode_close
  <2> HIDE DEF o
  <2> QED
    BY <1>2, <2>1 DEF o
<1>3. CASE open[s].open_cnt # 1
  <2>1. o = [open EXCEPT ![s].open_cnt = @ - 1]
    BY <1>3 DEF inode_close
  <2>2. ASSUME NEW x \in Inode, NEW y, y = [x EXCEPT !.open_cnt = @ - 1], x.open_cnt # 1
        PROVE  /\ y \in Inode /\ y.open_cnt = x.open_cnt - 1
               /\ y.deny_write_cnt = x.deny_write_cnt /\ y.removed = x.removed
               /\ y.start = x.start /\ y.length = x.length
    BY <2>2 DEF Inode
  <2>3. /\ o[s] = [open[s] EXCEPT !.open_cnt = @ - 1]
        /\ o = [t \in Sectors |-> o[t]] /\ \A t \in Sectors \ {s} : o[t] = open[t]
    BY <2>1
  <2> HIDE DEF o
  <2>4. /\ o[s] \in Inode /\ o[s].open_cnt = open[s].open_cnt - 1
        /\ o[s].deny_write_cnt = open[s].deny_write_cnt /\ o[s].removed = open[s].removed
        /\ o[s].start = open[s].start /\ o[s].length = open[s].length
    BY <1>3, <2>2, <2>3
  <2>5. \A t \in Sectors : o[t] \in Inode \cup {NULL}
    BY <2>3, <2>4
  <2>6. o \in [Sectors -> Inode \cup {NULL}]
    BY <2>3, <2>5
  <2> QED
    BY <1>1, <1>3, <2>3, <2>4, <2>6 DEF o
<1> QED
  BY <1>2, <1>3

LEMMA CloseKeeps == ASSUME IInv, NEW h \in Handles, Close(h) PROVE IInv'
<1> DEFINE s == files[h].inode
           open == allowed(inodes, files[h])
           gone == released(open, s)
           W == release_writes(open, s)
           e == EndOf(block, W)
<1>1. /\ Idle /\ files[h] # NULL
      /\ failed' = ~(gone \subseteq free_map)
      /\ inodes' = inode_close(open, s)
      /\ free_map' = free_map \ gone /\ todo' = W
      /\ files' = [files EXCEPT ![h] = NULL] /\ block' = block
  BY DEF Close, Release
<1>2. MemoryRight /\ CountsRight
  BY DEF IInv
<1>3. /\ DiskRight(block) /\ Agrees(block, free_map, inodes) /\ MapStart = 2
  BY <1>1, IdleFacts
<1>4. /\ s \in OpenedIn(inodes) /\ s \in Sectors \ {0}
      /\ inodes[s] \in Inode /\ inodes[s] # NULL
      /\ h \in OpenOn(s) /\ Counts(inodes[s], OpenOn(s), Denying(s))
      /\ files[h] \in File
  BY <1>1, <1>2, InodeInMemory
<1>5. /\ open \in [Sectors -> Inode \cup {NULL}]
      /\ open[s] \in Inode /\ open[s] # NULL
      /\ \A t \in Sectors \ {s} : open[t] = inodes[t]
      /\ open[s].open_cnt = inodes[s].open_cnt /\ open[s].removed = inodes[s].removed
      /\ open[s].start = inodes[s].start /\ open[s].length = inodes[s].length
      /\ open[s].deny_write_cnt = Cardinality(Denying(s) \ {h})
  BY <1>1, <1>2, InodeAllowed
<1> HIDE DEF open
<1>6. gone # {} =>
        /\ inodes[s].open_cnt = 1 /\ inodes[s].removed
        /\ gone = Own(block, s) /\ s \notin Named(block)
        /\ FilesOn(block, free_map, Named(block) \cup {s})
  <2>1. ASSUME gone # {}
        PROVE  /\ inodes[s].open_cnt = 1 /\ inodes[s].removed
               /\ gone = {s} \cup Extent(open[s].start, open[s].length)
    BY <1>5, <2>1 DEF released
  <2>2. open[s].start = block[s][2] /\ open[s].length = block[s][3]
    BY <1>3, <1>4, <1>5 DEF Agrees
  <2>3. FilesOn(block, free_map, Named(block) \cup {s})
    BY <1>3, <1>4 DEF Agrees, FilesOn
  <2> QED
    BY <1>3, <1>4, <2>1, <2>2, <2>3 DEF Agrees, Own
<1>7. /\ Passes(block, W) /\ DiskRight(e)
      /\ MapOf(e) = free_map \ gone /\ gone \subseteq free_map
      /\ Named(e) = Named(block)
      /\ \A t \in Sectors \ {2} : e[t] = block[t]
  <2>1. MapOf(block) = free_map
    BY <1>3 DEF Agrees
  <2>2. MayRelease(block, open, s)
    BY <1>6 DEF MayRelease
  <2> HIDE DEF s
  <2> QED
    BY <1>3, <2>1, <2>2, Releases
<1> HIDE DEF gone, W, e
<1>8. failed' = FALSE
  BY <1>1, <1>7
<1>9. WritesRight'
  <2>1. block = [t \in Sectors |-> block[t]]
    BY <1>3 DEF DiskRight, Layout
  <2> QED
    BY <1>1, <1>7, <2>1 DEF WritesRight
<1>10. /\ inodes' \in [Sectors -> Inode \cup {NULL}]
       /\ \A t \in Sectors \ {s} : inodes'[t] = inodes[t]
       /\ inodes[s].open_cnt = 1 => inodes'[s] = NULL
       /\ inodes[s].open_cnt # 1 =>
            /\ inodes'[s] # NULL /\ inodes'[s].open_cnt = inodes[s].open_cnt - 1
            /\ inodes'[s].deny_write_cnt = Cardinality(Denying(s) \ {h})
            /\ inodes'[s].removed = inodes[s].removed
            /\ inodes'[s].start = inodes[s].start /\ inodes'[s].length = inodes[s].length
  <2> DEFINE o == inode_close(open, s)
  <2>1. /\ o \in [Sectors -> Inode \cup {NULL}]
        /\ \A t \in Sectors \ {s} : o[t] = open[t]
        /\ open[s].open_cnt = 1 => o[s] = NULL
        /\ open[s].open_cnt # 1 =>
             /\ o[s] # NULL /\ o[s].open_cnt = open[s].open_cnt - 1
             /\ o[s].deny_write_cnt = open[s].deny_write_cnt
             /\ o[s].removed = open[s].removed
             /\ o[s].start = open[s].start /\ o[s].length = open[s].length
    BY <1>4, <1>5, InodeClosed
  <2> HIDE DEF o, s
  <2>2. inodes' = o
    BY <1>1 DEF o
  <2> QED
    BY <1>5, <2>1, <2>2
<1>11. files' \in [Handles -> File \cup {NULL}] /\ files'[h] = NULL
       /\ \A g \in Handles \ {h} : files'[g] = files[g]
  BY <1>1, <1>2 DEF MemoryRight
<1>12. MemoryRight'
  <2>1. 0 \in Sectors
    BY FirstSectors
  <2>2. inodes'[0] = inodes[0]
    BY <1>4, <1>10, <2>1
  <2> QED
    BY <1>2, <1>10, <1>11, <2>2 DEF MemoryRight
<1>13. MemoryAgrees'
  <2>1. OpenedIn(inodes') \subseteq OpenedIn(inodes)
    BY <1>4, <1>10 DEF OpenedIn
  <2>2. gone # {} => /\ s \in Named(block) \cup OpenedIn(inodes) /\ gone = Own(block, s)
                     /\ s \notin Named(e) \cup OpenedIn(inodes')
    BY <1>4, <1>6, <1>7, <1>10 DEF OpenedIn
  <2>3. Same(block, e, Sectors \ (0..3))
    BY <1>7, FirstSectors DEF Same
  <2>4. SameFiles(inodes, inodes', Named(e))
    <3>1. ASSUME NEW t \in OpenedIn(inodes')
          PROVE  /\ t \in OpenedIn(inodes)
                 /\ inodes'[t].start = inodes[t].start /\ inodes'[t].length = inodes[t].length
                 /\ inodes'[t].removed = inodes[t].removed
      <4>1. CASE t = s
        <5>1. inodes'[s] # NULL
          BY <4>1 DEF OpenedIn
        <5> HIDE DEF s
        <5> QED
          BY <1>10, <2>1, <4>1, <5>1
      <4>2. CASE t # s
        BY <1>10, <2>1, <4>2 DEF OpenedIn
      <4> QED
        BY <4>1, <4>2
    <3> QED
      BY <3>1 DEF SameFiles
  <2>5. Agrees(e, free_map \ gone, inodes')
    <3> HIDE DEF s
    <3>1. Named(e) \subseteq Named(block) /\ MapOf(e) = free_map \ gone
      BY <1>7
    <3> QED
      BY <1>3, <2>2, <2>3, <2>4, <3>1, AgreesReleased
  <2> QED
    BY <1>1, <2>5 DEF MemoryAgrees, e
<1>14. CountsRight'
  <2>1. ASSUME NEW t \in Sectors \ {0}
        PROVE  Counts(inodes[t], OpenOn(t), Denying(t))'
    <3>1. Counts(inodes[t], OpenOn(t), Denying(t))
      BY <1>2, CountsAre
    <3>2. OpenOn(t)' = OpenOn(t) \ {h} /\ Denying(t)' = Denying(t) \ {h}
      BY <1>11 DEF OpenOn, Denying
    <3>3. CASE t # s
      <4>1. h \notin OpenOn(t)
        BY <3>3 DEF OpenOn
      <4>2. OpenOn(t)' = OpenOn(t) /\ Denying(t)' = Denying(t)
        BY <3>2, <4>1 DEF Denying
      <4> QED
        BY <1>10, <3>1, <3>3, <4>2 DEF Counts
    <3>4. CASE t = s
      <4>1. /\ IsFiniteSet(OpenOn(t) \ {h})
            /\ Cardinality(OpenOn(t) \ {h}) = inodes[t].open_cnt - 1
        <5>1. h \in OpenOn(t) /\ inodes[t].open_cnt = Cardinality(OpenOn(t))
          BY <1>4, <3>4 DEF Counts
        <5>2. IsFiniteSet(OpenOn(t))
          BY OpenFinite
        <5> QED
          BY <5>1, <5>2, FS_RemoveElement
      <4>2. CASE inodes[t].open_cnt = 1
        <5>1. OpenOn(t) \ {h} = {}
          BY <4>1, <4>2, FS_EmptySet
        <5>2. inodes'[t] = NULL
          BY <1>10, <3>4, <4>2
        <5> QED
          BY <3>2, <5>1, <5>2 DEF Counts
      <4>3. CASE inodes[t].open_cnt # 1
        <5>1. /\ inodes'[t] # NULL /\ inodes'[t].open_cnt = inodes[t].open_cnt - 1
              /\ inodes'[t].deny_write_cnt = Cardinality(Denying(t) \ {h})
          BY <1>10, <3>4, <4>3
        <5> QED
          BY <3>2, <4>1, <5>1 DEF Counts
      <4> QED
        BY <4>2, <4>3
    <3> QED
      BY <3>3, <3>4
  <2> QED
    BY <2>1 DEF CountsRight, Counts, Denying, FREE_MAP_SECTOR
<1> QED
  BY <1>8, <1>9, <1>12, <1>13, <1>14 DEF IInv

(***************************************************************************)
(* Reading, writing and seeking.                                           *)
(***************************************************************************)

\* An action that only moves the position of an open file.
LEMMA PositionKeeps ==
  ASSUME IInv, NEW h \in Handles, files[h] # NULL, NEW p \in Nat,
         files' = [files EXCEPT ![h].pos = p],
         UNCHANGED <<block, todo, free_map, inodes, failed>>
  PROVE  IInv'
<1>1. MemoryRight' /\ CountsRight'
  BY MovesKeep DEF IInv
<1>2. WritesRight' /\ MemoryAgrees' /\ failed' = FALSE
  BY DEF IInv, WritesRight, MemoryAgrees
<1> QED
  BY <1>1, <1>2 DEF IInv

LEMMA SeekKeeps == ASSUME IInv, NEW h \in Handles, NEW pos \in Seeks, Seek(h, pos) PROVE IInv'
<1>1. pos \in Nat
  BY FilesysAssumption
<1> QED
  BY <1>1, PositionKeeps DEF Seek

LEMMA ReadKeeps == ASSUME IInv, NEW h \in Handles, NEW size \in Transfers, Read(h, size) PROVE IInv'
<1> DEFINE f == files[h]
           inode == inodes[f.inode]
           R == inode_read_at(block, inode, size, f.pos)
<1>1. /\ f # NULL /\ files' = [files EXCEPT ![h].pos = files[h].pos + Len(R)]
      /\ UNCHANGED <<block, todo, free_map, inodes, failed>>
  BY DEF Read
<1>2. inode \in Inode /\ f \in File /\ size \in Nat
  BY <1>1, InodeInMemory, FilesysAssumption DEF IInv
<1>3. inode.start \in Nat /\ inode.length \in Nat /\ f.pos \in Nat
  <2> HIDE DEF f, inode
  <2> QED
    BY <1>2 DEF Inode, File
<1> DEFINE last == IF f.pos + size < inode.length THEN f.pos + size ELSE inode.length
<1>4. R = SubSeq(FileBytes(inode), f.pos + 1, last)
  <2> HIDE DEF f, inode
  <2> QED
    BY <1>2, <1>3, ReadsBytes
<1>5. Len(R) \in Nat
  <2> DEFINE S == {FileBytes(inode)[i] : i \in f.pos + 1 .. last}
             q == f.pos + 1
  <2>1. last \in Int /\ q \in Int
    <3> HIDE DEF f, inode
    <3> QED
      BY <1>2, <1>3
  <2>2. \A i \in q .. last : FileBytes(inode)[i] \in S
    OBVIOUS
  <2> HIDE DEF S, last, q, inode
  <2>3. SubSeq(FileBytes(inode), q, last) \in Seq(S)
    BY <2>1, <2>2, SubSeqProperties
  <2> QED
    BY <1>4, <2>3, LenProperties DEF q
<1> DEFINE p == files[h].pos + Len(R)
<1>6. p \in Nat
  <2> HIDE DEF R
  <2> QED
    BY <1>3, <1>5
<1> HIDE DEF R, p
<1>7. files' = [files EXCEPT ![h].pos = p]
  BY <1>1 DEF p
<1> QED
  BY <1>1, <1>6, <1>7, PositionKeeps

LEMMA WriteKeeps ==
  ASSUME IInv, NEW h \in Handles, NEW b, NEW size \in Transfers, Write(h, b, size)
  PROVE  IInv'
<1> DEFINE f == files[h]
           s == f.inode
           inode == inodes[s]
           W == inode_write_at(block, inode, b, size, f.pos)
           X == Extent(inode.start, inode.length)
           e == EndOf(block, W)
           p == files[h].pos + bytes_written(inode, size, f.pos)
<1>1. /\ Idle /\ f # NULL /\ todo' = W
      /\ files' = [files EXCEPT ![h].pos = p]
      /\ UNCHANGED <<block, free_map, inodes, failed>>
  BY DEF Write
<1>2. /\ DiskRight(block) /\ Agrees(block, free_map, inodes)
  BY <1>1, IdleFacts
<1>3. inode \in Inode /\ f \in File /\ size \in Nat /\ s \in OpenedIn(inodes)
  BY <1>1, InodeInMemory, FilesysAssumption DEF IInv
<1>4. /\ inode.start \in Nat /\ inode.length \in Nat /\ inode.deny_write_cnt \in Nat
      /\ f.pos \in Nat
  <2> HIDE DEF f, inode
  <2> QED
    BY <1>3 DEF Inode, File
<1>5. p \in Nat
  <2> DEFINE q == f.pos
  <2>1. bytes_written(inode, size, q) \in Nat
    <3>1. q \in Nat
      BY <1>4
    <3> HIDE DEF q, inode
    <3> QED
      BY <1>3, <1>4, <3>1 DEF bytes_written
  <2> QED
    BY <1>4, <2>1
<1> DEFINE L == Named(block) \cup OpenedIn(inodes)
<1>6. /\ FilesOn(block, free_map, L) /\ s \in L
      /\ X = Extent(block[s][2], block[s][3])
  BY <1>2, <1>3 DEF Agrees
<1> HIDE DEF L
<1>7. /\ s \notin X /\ X \subseteq free_map \ (0..3)
      /\ \A r \in L \ {s} : r \notin X
  <2>1. /\ s \notin Extent(block[s][2], block[s][3])
        /\ Own(block, s) \subseteq free_map \ (0..3)
        /\ \A r \in L \ {s} : r \notin Own(block, s)
    <3> HIDE DEF s
    <3> QED
      BY <1>6, FilesOfMap
  <2> HIDE DEF s, X
  <2> QED
    BY <1>6, <2>1 DEF Own
<1>8. free_map \subseteq Sectors
  BY <1>2 DEF Agrees, DiskRight, Layout
<1>9. /\ IsWrites(W)
      /\ \A i \in 1..Len(W) : W[i][1] \in X /\ W[i][2][1] = "data"
  <2>1. X \subseteq Sectors
    BY <1>7, <1>8
  <2> HIDE DEF inode, f
  <2> QED
    BY <1>3, <1>4, <2>1, WritesData
<1> HIDE DEF W, X, e, p
<1>10. /\ Passes(block, W) /\ MapOf(e) = MapOf(block) /\ Named(e) = Named(block)
       /\ \A t \in Sectors \ X : e[t] = block[t]
  <2>1. X \cap ((0..3) \cup Named(block)) = {}
    <3> HIDE DEF s
    <3> QED
      BY <1>7 DEF L
  <2> QED
    BY <1>2, <1>9, <2>1, PassesData DEF e
<1>11. Agrees(e, free_map, inodes)
  <2>1. Keeps(block, e, L, free_map)
    <3>1. ASSUME NEW t \in L PROVE t \in Sectors \ X /\ Own(block, t) \subseteq free_map
      <4>1. t \in Sectors /\ Own(block, t) \subseteq free_map
        BY <1>6 DEF FilesOn
      <4> HIDE DEF s
      <4> QED
        BY <1>7, <4>1
    <3> QED
      BY <1>10, <3>1 DEF Keeps
  <2>2. MapOf(e) = free_map
    BY <1>2, <1>10 DEF Agrees
  <2> QED
    BY <1>2, <1>10, <2>1, <2>2, AgreesStill DEF L
<1>12. MemoryRight' /\ CountsRight'
  BY <1>1, <1>5, MovesKeep DEF IInv
<1>13. WritesRight'
  BY <1>1, <1>2, <1>10 DEF WritesRight, DiskRight, Layout
<1>14. MemoryAgrees'
  BY <1>1, <1>11 DEF MemoryAgrees, e
<1> QED
  BY <1>1, <1>12, <1>13, <1>14 DEF IInv

(***************************************************************************)
(* The disk writes a block; the machine starts again.                      *)
(***************************************************************************)
LEMMA WriteBlockKeeps == ASSUME IInv, WriteBlock PROVE IInv'
<1>1. /\ todo # <<>> /\ block' = [block EXCEPT ![todo[1][1]] = todo[1][2]]
      /\ todo' = Tail(todo) /\ UNCHANGED <<free_map, inodes, files, failed>>
  BY DEF WriteBlock
<1>2. block = [s \in Sectors |-> block[s]] /\ Passes(block, todo)
  BY DEF IInv, WritesRight
<1>3. Passes(block', todo') /\ EndOf(block', todo') = EndOf(block, todo)
  BY <1>1, <1>2, PassesRest
<1>4. block' = [s \in Sectors |-> block'[s]]
  BY <1>1, <1>2
<1>5. WritesRight' /\ MemoryAgrees'
  BY <1>1, <1>3, <1>4 DEF IInv, WritesRight, MemoryAgrees
<1>6. MemoryRight' /\ failed' = FALSE
  BY <1>1 DEF IInv, MemoryRight
<1>7. CountsRight'
  <2>1. CountsRight
    BY DEF IInv
  <2> QED
    BY <1>1, <2>1 DEF CountsRight, OpenOn
<1> QED
  BY <1>5, <1>6, <1>7 DEF IInv

LEMMA StartedRight ==
  ASSUME NEW d, DiskRight(d)
  PROVE  LET open == Closed(d)
         IN  /\ open \in [Sectors -> Inode \cup {NULL}]
             /\ open[0] # NULL /\ open[0].start = 2
             /\ OpenedIn(open) = {} /\ \A s \in Sectors \ {0} : open[s] = NULL
<1> DEFINE none == [s \in Sectors |-> NULL]
           open == Closed(d)
<1>1. none \in [Sectors -> Inode \cup {NULL}] /\ 0 \in Sectors
  BY FirstSectors
<1>2. d[0] = <<"inode", 2, 1>>
  BY DEF DiskRight, Layout
<1>3. d[0][2] \in Nat /\ d[0][3] \in Nat /\ d[0][2] = 2
  BY <1>2
<1>4. none[0] = NULL /\ \A s \in Sectors \ {0} : none[s] = NULL
  BY <1>1
<1> DEFINE new == [open_cnt |-> 1, removed |-> FALSE, deny_write_cnt |-> 0,
                   start |-> d[0][2], length |-> d[0][3]]
<1>5. new \in Inode /\ new.start = d[0][2]
  BY <1>3 DEF Inode
<1>6. /\ open \in [Sectors -> Inode \cup {NULL}] /\ open[0] # NULL
      /\ \A s \in Sectors \ {0} : open[s] = none[s]
      /\ open[0] = new
  <2>1. open = inode_open(none, d, 0)
    BY DEF Closed, FREE_MAP_SECTOR
  <2> HIDE DEF open, none
  <2>2. open = [none EXCEPT ![0] = new]
    BY <1>4, <2>1 DEF inode_open
  <2> HIDE DEF new
  <2> QED
    BY <1>1, <1>5, <2>2, FilesysAssumption
<1> HIDE DEF open, none
<1>7. open[0].start = 2
  BY <1>3, <1>5, <1>6
<1>8. OpenedIn(open) = {}
  BY <1>4, <1>6 DEF OpenedIn, FREE_MAP_SECTOR
<1> QED
  BY <1>4, <1>6, <1>7, <1>8 DEF open

\* With the machine just started, memory is right whatever the disk holds.
LEMMA StartKeeps ==
  ASSUME NEW d, DiskRight(d)
  PROVE  Agrees(d, MapOf(d), Closed(d))
<1>1. OpenedIn(Closed(d)) = {}
  BY StartedRight
<1>2. Named(d) \cup {} = Named(d)
  OBVIOUS
<1> QED
  BY <1>1, <1>2 DEF Agrees, DiskRight

LEMMA BootKeeps == ASSUME IInv, Boot PROVE IInv'
<1>1. /\ todo' = <<>> /\ inodes' = Closed(block) /\ block' = block /\ failed' = failed
      /\ free_map' = block[block[FREE_MAP_SECTOR][2]][2]
      /\ files' = [h \in Handles |-> NULL]
  BY DEF Boot
<1>2. block = [s \in Sectors |-> block[s]] /\ Passes(block, todo)
  BY DEF IInv, WritesRight
<1>3. DiskRight(block)
  <2>1. After(block, todo, 0) = block
    BY <1>2, AfterZero
  <2>2. 0 \in 0..Len(todo)
    <3>1. PICK S : todo \in Seq(S)
      BY <1>2 DEF Passes, IsWrites
    <3> QED
      BY <3>1
  <2> QED
    BY <1>2, <2>1, <2>2 DEF Passes
<1>4. free_map' = MapOf(block)
  <2>1. block[0] = <<"inode", 2, 1>>
    BY <1>3 DEF DiskRight, Layout
  <2>2. block[0][2] = 2
    BY <2>1
  <2> QED
    BY <1>1, <2>2 DEF FREE_MAP_SECTOR, MapOf
<1>5. /\ inodes' \in [Sectors -> Inode \cup {NULL}]
      /\ inodes'[0] # NULL /\ inodes'[0].start = 2
      /\ \A s \in Sectors \ {0} : inodes'[s] = NULL
  BY <1>1, <1>3, StartedRight
<1>6. MemoryRight'
  BY <1>1, <1>5 DEF MemoryRight
<1>7. Passes(block, <<>>) /\ EndOf(block, <<>>) = block
  BY <1>3, PassesNone
<1>8. WritesRight' /\ MemoryAgrees'
  <2>1. Agrees(block, MapOf(block), Closed(block))
    BY <1>3, StartKeeps
  <2> QED
    BY <1>1, <1>2, <1>4, <1>7, <2>1 DEF WritesRight, MemoryAgrees
<1>9. CountsRight'
  <2>1. ASSUME NEW t \in Sectors \ {0} PROVE inodes'[t] = NULL /\ OpenOn(t)' = {}
    BY <1>1, <1>5 DEF OpenOn
  <2> QED
    BY <2>1 DEF CountsRight, FREE_MAP_SECTOR
<1> QED
  BY <1>1, <1>6, <1>8, <1>9 DEF IInv

(***************************************************************************)
(* Creating files.                                                         *)
(***************************************************************************)

\* The new sectors are no file's.
LEMMA RoomFound ==
  ASSUME NEW size \in Nat, can_allocate(free_map, 1)
  PROVE  LET s == bitmap_scan(free_map, 1)
             start == bitmap_scan(free_map \cup {s}, bytes_to_sectors(size))
         IN  /\ s \in Sectors \ free_map
             /\ can_allocate(free_map \cup {s}, bytes_to_sectors(size)) =>
                  /\ start \in Nat /\ Extent(start, size) \subseteq Sectors
                  /\ Extent(start, size) \cap (free_map \cup {s}) = {}
BY ScanFindsSector, ScanFindsExtent

\* The files before the creation are still there when the new one is written.
LEMMA OthersStay ==
  ASSUME NEW e, NEW m, NEW d, DiskRight(d), Agrees(d, free_map, inodes), free_map \subseteq m,
         Same(d, e, free_map \ {2})
  PROVE  LET L == Named(d) \cup OpenedIn(inodes)
         IN  /\ FilesOn(e, m, L) /\ Keeps(d, e, L, m) /\ \A t \in L : t \in free_map
             /\ \A t \in L : Own(e, t) = Own(d, t) /\ Own(d, t) \subseteq free_map
<1> DEFINE L == Named(d) \cup OpenedIn(inodes)
<1>1. FilesOn(d, free_map, L)
  BY DEF Agrees
<1> HIDE DEF L
<1>2. ASSUME NEW t \in L
      PROVE  t \in free_map \ {2} /\ Own(d, t) \subseteq free_map
  BY <1>1, FilesOfMap, FirstSectors
<1>3. Keeps(d, e, L, m)
  BY <1>2 DEF Keeps, Same
<1>4. FilesOn(e, m, L) /\ \A t \in L : Own(e, t) = Own(d, t)
  BY <1>1, <1>3, FilesStay
<1> QED
  BY <1>2, <1>3, <1>4 DEF L

LEMMA CreateNoInodeKeeps ==
  ASSUME IInv, NEW size \in Nat, CreateNoInode(size)
  PROVE  IInv'
<1> DEFINE s == bitmap_scan(free_map, 1)
           m1 == free_map \cup {s}
           W == << <<2, <<"map", m1>> >> >> \o << <<2, <<"map", free_map>> >> >>
           e == EndOf(block, W)
<1>1. /\ Idle /\ can_allocate(free_map, 1) /\ failed' = ~({s} \subseteq m1)
      /\ todo' = bitmap_write(m1) \o bitmap_write(free_map)
      /\ UNCHANGED <<block, free_map, inodes, files>>
  BY DEF CreateNoInode, Release
<1>2. /\ DiskRight(block) /\ Agrees(block, free_map, inodes) /\ MapStart = 2
  BY <1>1, IdleFacts
<1>3. todo' = W
  BY <1>1, <1>2 DEF bitmap_write
<1>4. s \in Sectors
  BY <1>1, ScanFindsSector
<1> HIDE DEF s
<1>5. /\ 0..3 \subseteq free_map /\ free_map \in SUBSET Sectors /\ MapOf(block) = free_map
      /\ \A t \in Named(block) : Own(block, t) \subseteq free_map
  BY <1>2 DEF Agrees, DiskRight, Layout, FilesOn
<1>6. /\ m1 \in SUBSET Sectors /\ 0..3 \subseteq m1
      /\ \A t \in Named(block) : Own(block, t) \subseteq m1
  BY <1>4, <1>5
<1> HIDE DEF W, e
<1>7. /\ Passes(block, W) /\ DiskRight(e) /\ MapOf(e) = free_map /\ Named(e) = Named(block)
      /\ \A t \in Sectors \ {2} : e[t] = block[t]
  <2> HIDE DEF m1
  <2> QED
    BY <1>2, <1>5, <1>6, TwoMaps DEF W, e
<1>8. Agrees(e, free_map, inodes)
  <2>1. Same(block, e, free_map \ {2})
    BY <1>5, <1>7 DEF Same
  <2>2. Keeps(block, e, Named(block) \cup OpenedIn(inodes), free_map)
    BY <1>2, <2>1, OthersStay
  <2> QED
    BY <1>2, <1>7, <2>2, AgreesStill
<1>9. failed' = FALSE
  BY <1>1
<1>10. MemoryRight' /\ CountsRight'
  BY <1>1 DEF IInv, MemoryRight, CountsRight, OpenOn
<1>11. WritesRight' /\ MemoryAgrees'
  BY <1>1, <1>2, <1>3, <1>7, <1>8 DEF WritesRight, MemoryAgrees, DiskRight, Layout, e
<1> QED
  BY <1>9, <1>10, <1>11 DEF IInv

LEMMA CreateNoEntryKeeps ==
  ASSUME IInv, NEW size \in Nat, NEW name, CreateNoEntry(name, size)
  PROVE  IInv'
<1> DEFINE s == bitmap_scan(free_map, 1)
           start == bitmap_scan(free_map \cup {s}, bytes_to_sectors(size))
           X == Extent(start, size)
           m == free_map \cup {s} \cup X
           n == m \ {s}
           U == inode_writes(s, start, size)
           V == << <<2, <<"map", n>> >> >>
           W == U \o V
           d == EndOf(block, U)
           e == EndOf(block, W)
<1>1. /\ Idle /\ can_allocate(free_map, 1)
      /\ can_allocate(free_map \cup {s}, bytes_to_sectors(size))
      /\ failed' = ~({s} \subseteq m)
      /\ free_map' = n /\ todo' = U \o bitmap_write(n)
      /\ UNCHANGED <<block, inodes, files>>
  BY DEF CreateNoEntry, Release
<1>2. /\ DiskRight(block) /\ Agrees(block, free_map, inodes) /\ MapStart = 2
      /\ inodes[0].start = 2 /\ MapOf(block) = free_map
  BY <1>1, IdleFacts DEF Agrees, IInv, MemoryRight
<1>3. todo' = W
  BY <1>1, <1>2 DEF bitmap_write
<1>4. /\ s \in Sectors \ free_map /\ start \in Nat /\ X \subseteq Sectors
      /\ X \cap (free_map \cup {s}) = {}
  BY <1>1, RoomFound
<1> HIDE DEF s, start
<1>5. /\ Passes(block, U) /\ DiskRight(d) /\ MapOf(d) = m
      /\ DirOf(d) = DirOf(block) /\ Named(d) = Named(block)
      /\ \A t \in free_map \ {2} : d[t] = block[t]
  BY <1>2, <1>4, InodeWrites
<1>6. 0..3 \subseteq free_map /\ free_map \subseteq Sectors
  BY <1>2 DEF DiskRight, Layout
<1>7. n \in SUBSET Sectors /\ 0..3 \subseteq n /\ free_map \subseteq n /\ n = free_map \cup X
      /\ free_map \subseteq m
  BY <1>4, <1>6
<1> HIDE DEF U, V, W, X, m, n, d, e
<1> DEFINE L == Named(block) \cup OpenedIn(inodes)
<1>8. /\ \A t \in L : Own(d, t) = Own(block, t) /\ Own(block, t) \subseteq free_map
      /\ \A t \in L : t \in free_map
  <2>1. Same(block, d, free_map \ {2})
    BY <1>5 DEF Same
  <2> QED
    BY <1>2, <1>7, <2>1, OthersStay
<1> DEFINE f == [d EXCEPT ![2] = <<"map", n>>]
<1>9. /\ DiskRight(f) /\ MapOf(f) = n
      /\ Named(f) = Named(d) /\ \A t \in Sectors \ {2} : f[t] = d[t]
  <2>1. \A t \in Named(d) : Own(d, t) \subseteq n
    BY <1>5, <1>7, <1>8
  <2> QED
    BY <1>5, <1>7, <2>1, MapWritten
<1>10. Passes(d, V) /\ EndOf(d, V) = f
  BY <1>5, <1>9, FirstSectors, PassesOne DEF V
<1>11. Passes(block, W) /\ e = f
  BY <1>5, <1>10, PassesBoth DEF W, e, d
<1> HIDE DEF f
<1>12. Same(block, e, free_map \ {2})
  BY <1>5, <1>6, <1>9, <1>11 DEF Same
<1>13. Agrees(e, n, inodes)
  <2>1. Keeps(block, e, L, n)
    BY <1>2, <1>7, <1>12, OthersStay
  <2>2. Named(e) = Named(block) /\ MapOf(e) = n
    BY <1>5, <1>9, <1>11
  <2> QED
    BY <1>2, <2>1, <2>2, AgreesStill
<1>14. failed' = FALSE
  BY <1>1 DEF m
<1>15. MemoryRight' /\ CountsRight'
  BY <1>1 DEF IInv, MemoryRight, CountsRight, OpenOn
<1>16. WritesRight' /\ MemoryAgrees'
  BY <1>1, <1>2, <1>3, <1>11, <1>13 DEF WritesRight, MemoryAgrees, DiskRight, Layout, e
<1> QED
  BY <1>14, <1>15, <1>16 DEF IInv

LEMMA CreateFileKeeps ==
  ASSUME IInv, NEW size \in Nat, NEW name \in Names \cup LongNames, CreateFile(name, size)
  PROVE  IInv'
<1> DEFINE s == bitmap_scan(free_map, 1)
           start == bitmap_scan(free_map \cup {s}, bytes_to_sectors(size))
           X == Extent(start, size)
           m == free_map \cup {s} \cup X
           slot == [inode_sector |-> s, name |-> name, in_use |-> TRUE]
           U == inode_writes(s, start, size)
           d == EndOf(block, U)
<1>1. /\ Idle /\ can_allocate(free_map, 1)
      /\ can_allocate(free_map \cup {s}, bytes_to_sectors(size))
      /\ name \notin LongNames
      /\ free_map' = m
      /\ UNCHANGED <<block, inodes, files, failed>>
  BY DEF CreateFile
<1>2. PICK i : todo' = U \o dir_write(i, slot)
  BY DEF CreateFile
<1> DEFINE D == [entries EXCEPT ![i] = slot]
           V == << <<3, <<"dir", D>> >> >>
           W == U \o V
           e == EndOf(block, W)
<1>3. /\ DiskRight(block) /\ Agrees(block, free_map, inodes) /\ DirSector = 3
      /\ inodes[0].start = 2 /\ MapOf(block) = free_map
      /\ entries = DirOf(block) /\ entries \in [1..DirEntries -> Entry]
  BY <1>1, IdleFacts DEF Agrees, IInv, MemoryRight
<1>4. todo' = W
  BY <1>2, <1>3 DEF dir_write
<1>5. /\ s \in Sectors \ free_map /\ start \in Nat /\ X \subseteq Sectors
      /\ X \cap (free_map \cup {s}) = {}
  BY <1>1, RoomFound
<1> HIDE DEF s, start
<1>6. /\ Passes(block, U) /\ DiskRight(d) /\ MapOf(d) = m
      /\ DirOf(d) = DirOf(block) /\ Named(d) = Named(block)
      /\ d[s] = <<"inode", start, size>>
      /\ \A t \in free_map \ {2} : d[t] = block[t]
  BY <1>3, <1>5, InodeWrites
<1>7. 0..3 \subseteq free_map /\ free_map \subseteq Sectors
  BY <1>3 DEF DiskRight, Layout
<1>8. slot \in Entry /\ slot.in_use /\ slot.inode_sector = s
  BY <1>1, <1>5 DEF Entry
<1> HIDE DEF slot
<1>9. D \in [1..DirEntries -> Entry] /\ \A j \in 1..DirEntries : D[j] = IF j = i THEN slot ELSE entries[j]
  BY <1>3, <1>8
<1> HIDE DEF U, d, D
<1> DEFINE L == Named(block) \cup OpenedIn(inodes)
           M == L \cup {s}
<1>10. /\ FilesOn(d, m, L) /\ \A t \in L : t \in free_map
       /\ \A t \in L : Own(d, t) = Own(block, t) /\ Own(block, t) \subseteq free_map
  <2>1. free_map \subseteq m
    OBVIOUS
  <2>2. Same(block, d, free_map \ {2})
    BY <1>6 DEF Same
  <2> HIDE DEF m
  <2> QED
    BY <1>3, <2>1, <2>2, OthersStay
<1>11. FilesOn(d, m, M)
  <2>1. d[s][2] = start /\ d[s][3] = size
    BY <1>6
  <2>2. Own(d, s) = {s} \cup X
    BY <2>1 DEF Own
  <2>3. /\ s \in Sectors /\ d[s] = <<"inode", d[s][2], d[s][3]>>
        /\ d[s][2] \in Nat /\ d[s][3] \in Nat
        /\ s \notin Extent(d[s][2], d[s][3])
    BY <1>5, <1>6, <2>1
  <2>4. Own(d, s) \subseteq m \ (0..3) /\ Own(d, s) \cap free_map = {}
    BY <1>5, <1>7, <2>2
  <2>5. \A t \in L : Own(d, t) \cap Own(d, s) = {}
    BY <1>10, <2>4
  <2> HIDE DEF L, m, X
  <2> QED
    BY <1>10, <2>3, <2>4, <2>5 DEF FilesOn
<1>12. /\ Named(block) \subseteq L /\ s \notin L
  BY <1>5, <1>10
<1>13. ASSUME NEW j \in 1..DirEntries, D[j].in_use
       PROVE  /\ D[j].inode_sector \in Named(block) \cup {s}
              /\ j = i <=> D[j].inode_sector = s
              /\ j # i => j \in Used(block) /\ D[j] = DirOf(block)[j]
  <2>1. CASE j = i
    BY <1>8, <1>9, <2>1
  <2>2. CASE j # i
    <3>1. D[j] = DirOf(block)[j]
      BY <1>3, <1>9, <2>2
    <3>2. j \in Used(block) /\ D[j].inode_sector \in Named(block)
      BY <1>13, <3>1 DEF Used, Named
    <3>3. D[j].inode_sector # s
      BY <1>12, <3>2
    <3> QED
      BY <2>2, <3>1, <3>2, <3>3
  <2> QED
    BY <2>1, <2>2
<1> DEFINE f == [d EXCEPT ![3] = <<"dir", D>>]
<1>14. /\ DiskRight(f) /\ MapOf(f) = m
       /\ Named(f) = {D[j].inode_sector : j \in {k \in 1..DirEntries : D[k].in_use}}
       /\ \A t \in Sectors \ {3} : f[t] = d[t]
  <2>1. \A j \in 1..DirEntries : D[j].in_use => D[j].inode_sector \in M
    BY <1>12, <1>13
  <2>2. \A j, k \in 1..DirEntries :
          D[j].in_use /\ D[k].in_use /\ j # k => D[j].inode_sector # D[k].inode_sector
    <3>1. \A j, k \in Used(block) :
            j # k => DirOf(block)[j].inode_sector # DirOf(block)[k].inode_sector
      BY <1>3 DEF DiskRight
    <3> QED
      BY <1>13, <3>1
  <2>3. FilesOn(d, MapOf(d), M)
    BY <1>6, <1>11
  <2> HIDE DEF M, m
  <2> QED
    BY <1>6, <1>9, <2>1, <2>2, <2>3, DirWritten
<1>15. Passes(d, V) /\ EndOf(d, V) = f
  BY <1>6, <1>14, FirstSectors, PassesOne
<1>16. Passes(block, W) /\ e = f
  <2> HIDE DEF V, f
  <2> QED
    BY <1>6, <1>15, PassesBoth DEF d
<1> HIDE DEF f, e, W, V
<1>17. Named(f) \subseteq Named(block) \cup {s}
  BY <1>13, <1>14
<1>18. Agrees(e, m, inodes)
  <2> DEFINE K == Named(e) \cup OpenedIn(inodes)
  <2>1. K \subseteq M
    BY <1>16, <1>17
  <2>2. ASSUME NEW t \in M PROVE t \in Sectors \ {3} /\ Own(d, t) \subseteq m
    <3> HIDE DEF M, m
    <3> QED
      BY <1>11, FilesOfMap, FirstSectors
  <2>3. Keeps(d, e, K, m)
    <3>1. \A t \in M : e[t] = d[t] /\ Own(d, t) \subseteq m
      <4> HIDE DEF M, m
      <4> QED
        BY <1>14, <1>16, <2>2
    <3> HIDE DEF M, m, K
    <3> QED
      BY <2>1, <3>1 DEF Keeps
  <2>4. FilesOn(e, m, K)
    <3> HIDE DEF M, m, K
    <3> QED
      BY <1>11, <2>1, <2>3, FilesStay
  <2>5. ASSUME NEW t \in OpenedIn(inodes)
        PROVE  /\ inodes[t].start = e[t][2] /\ inodes[t].length = e[t][3]
               /\ inodes[t].removed => t \notin Named(e)
    <3>1. t \in L /\ t \in free_map /\ t # s
      BY <1>5, <1>10
    <3>2. t \in Sectors \ {3} /\ t # 2
      <4>1. t \in Sectors \ (0..3)
        BY <1>3, <3>1, FilesOfMap DEF Agrees
      <4> QED
        BY <4>1, FirstSectors
    <3>3. e[t] = block[t]
      BY <1>6, <1>14, <1>16, <3>1, <3>2
    <3>4. /\ inodes[t].start = block[t][2] /\ inodes[t].length = block[t][3]
          /\ inodes[t].removed => t \notin Named(block)
      BY <1>3 DEF Agrees
    <3> QED
      BY <1>16, <1>17, <3>1, <3>3, <3>4
  <2>6. MapOf(e) = m
    BY <1>14, <1>16
  <2> HIDE DEF m
  <2> QED
    BY <2>4, <2>5, <2>6 DEF Agrees
<1>19. MemoryRight' /\ CountsRight' /\ failed' = FALSE
  BY <1>1 DEF IInv, MemoryRight, CountsRight, OpenOn
<1>20. WritesRight' /\ MemoryAgrees'
  BY <1>1, <1>3, <1>4, <1>16, <1>18 DEF WritesRight, MemoryAgrees, DiskRight, Layout, e
<1> QED
  BY <1>19, <1>20 DEF IInv


(***************************************************************************)
(* Removing files; opening them by name and once more.                     *)
(***************************************************************************)

Marked(open, s) == [open EXCEPT ![s].removed = TRUE]

\* Opening an inode, marking it and closing it: it is gone if nobody else has it
\* open, and only marked if somebody does.
LEMMA InodeRemoved ==
  ASSUME NEW old \in [Sectors -> Inode \cup {NULL}], NEW disk, NEW s \in Sectors,
         disk[s][2] \in Nat, disk[s][3] \in Nat
  PROVE  LET open == Marked(inode_open(old, disk, s), s)
             new == inode_close(open, s)
         IN  /\ new \in [Sectors -> Inode \cup {NULL}]
             /\ \A t \in Sectors \ {s} : new[t] = old[t]
             /\ old[s] = NULL =>
                  /\ new[s] = NULL
                  /\ released(open, s) = {s} \cup Extent(disk[s][2], disk[s][3])
             /\ old[s] # NULL =>
                  /\ released(open, s) = {}
                  /\ new[s] # NULL /\ new[s].open_cnt = old[s].open_cnt
                  /\ new[s].deny_write_cnt = old[s].deny_write_cnt
                  /\ new[s].start = old[s].start /\ new[s].length = old[s].length
<1> DEFINE o == inode_open(old, disk, s)
           open == Marked(o, s)
           new == inode_close(open, s)
<1>1. /\ o \in [Sectors -> Inode \cup {NULL}]
      /\ o[s] \in Inode /\ o[s] # NULL
      /\ \A t \in Sectors \ {s} : o[t] = old[t]
      /\ old[s] = NULL =>
           o[s] = [open_cnt |-> 1, removed |-> FALSE, deny_write_cnt |-> 0,
                   start |-> disk[s][2], length |-> disk[s][3]]
      /\ old[s] # NULL => o[s] = [old[s] EXCEPT !.open_cnt = @ + 1]
  BY InodeOpened
<1> HIDE DEF o
<1>2. ASSUME NEW x \in Inode, NEW y, y = [x EXCEPT !.removed = TRUE]
      PROVE  /\ y \in Inode /\ y.open_cnt = x.open_cnt /\ y.removed
             /\ y.deny_write_cnt = x.deny_write_cnt
             /\ y.start = x.start /\ y.length = x.length
  BY <1>2 DEF Inode
<1>3. /\ open[s] = [o[s] EXCEPT !.removed = TRUE]
      /\ open = [t \in Sectors |-> open[t]] /\ \A t \in Sectors \ {s} : open[t] = o[t]
  BY <1>1 DEF Marked
<1> HIDE DEF open
<1>4. /\ open[s] \in Inode /\ open[s].open_cnt = o[s].open_cnt /\ open[s].removed
      /\ open[s].deny_write_cnt = o[s].deny_write_cnt
      /\ open[s].start = o[s].start /\ open[s].length = o[s].length
  BY <1>1, <1>2, <1>3
<1>5. open \in [Sectors -> Inode \cup {NULL}]
  <2>1. \A t \in Sectors : open[t] \in Inode \cup {NULL}
    BY <1>1, <1>3, <1>4
  <2> QED
    BY <1>3, <2>1
<1>6. /\ new \in [Sectors -> Inode \cup {NULL}]
      /\ \A t \in Sectors \ {s} : new[t] = open[t]
      /\ open[s].open_cnt = 1 => new[s] = NULL
      /\ open[s].open_cnt # 1 =>
           /\ new[s] # NULL /\ new[s].open_cnt = open[s].open_cnt - 1
           /\ new[s].deny_write_cnt = open[s].deny_write_cnt
           /\ new[s].removed = open[s].removed
           /\ new[s].start = open[s].start /\ new[s].length = open[s].length
  BY <1>4, <1>5, InodeClosed
<1> HIDE DEF new
<1>7. old[s] = NULL =>
        /\ new[s] = NULL
        /\ released(open, s) = {s} \cup Extent(disk[s][2], disk[s][3])
  <2>1. ASSUME old[s] = NULL
        PROVE  open[s].open_cnt = 1 /\ open[s].start = disk[s][2] /\ open[s].length = disk[s][3]
    BY <1>1, <1>4, <2>1
  <2> QED
    BY <1>4, <1>6, <2>1 DEF released
<1>8. old[s] # NULL =>
        /\ released(open, s) = {}
        /\ new[s] # NULL /\ new[s].open_cnt = old[s].open_cnt
        /\ new[s].deny_write_cnt = old[s].deny_write_cnt
        /\ new[s].start = old[s].start /\ new[s].length = old[s].length
  <2>1. ASSUME NEW x \in Inode, NEW y, y = [x EXCEPT !.open_cnt = @ + 1]
        PROVE  /\ y.open_cnt = x.open_cnt + 1 /\ x.open_cnt \in Nat \ {0}
               /\ y.deny_write_cnt = x.deny_write_cnt
               /\ y.start = x.start /\ y.length = x.length
    BY <2>1 DEF Inode
  <2> SUFFICES ASSUME old[s] # NULL
               PROVE  /\ released(open, s) = {}
                      /\ new[s] # NULL /\ new[s].open_cnt = old[s].open_cnt
                      /\ new[s].deny_write_cnt = old[s].deny_write_cnt
                      /\ new[s].start = old[s].start /\ new[s].length = old[s].length
    OBVIOUS
  <2>2. old[s] \in Inode
    OBVIOUS
  <2>3. /\ o[s].open_cnt = old[s].open_cnt + 1 /\ old[s].open_cnt \in Nat \ {0}
        /\ o[s].deny_write_cnt = old[s].deny_write_cnt
        /\ o[s].start = old[s].start /\ o[s].length = old[s].length
    BY <1>1, <2>1, <2>2
  <2>4. open[s].open_cnt # 1
    BY <1>4, <2>3
  <2>5. released(open, s) = {}
    BY <2>4 DEF released
  <2>6. new[s].open_cnt = old[s].open_cnt
    <3>1. new[s].open_cnt = open[s].open_cnt - 1 /\ open[s].open_cnt = old[s].open_cnt + 1
      BY <1>4, <1>6, <2>3, <2>4
    <3> QED
      BY <2>3, <3>1
  <2> QED
    BY <1>4, <1>6, <2>3, <2>4, <2>5, <2>6
<1> QED
  BY <1>1, <1>3, <1>6, <1>7, <1>8 DEF new, open, o


LEMMA RemoveKeeps == ASSUME IInv, NEW name \in Names, Remove(name) PROVE IInv'
<1> DEFINE i == lookup(name)
           s == entries[i].inode_sector
           open == Marked(inode_open(inodes, block, s), s)
           gone == released(open, s)
           slot == [entries[i] EXCEPT !.in_use = FALSE]
           D == [entries EXCEPT ![i] = slot]
           U == << <<3, <<"dir", D>> >> >>
           V == release_writes(open, s)
           W == U \o V
           d == [block EXCEPT ![3] = <<"dir", D>>]
           e == EndOf(block, W)
<1>1. /\ Idle /\ Find(name) # {}
      /\ failed' = ~(gone \subseteq free_map)
      /\ inodes' = inode_close(open, s) /\ free_map' = free_map \ gone
      /\ todo' = dir_write(i, slot) \o V
      /\ block' = block /\ files' = files
  BY DEF Remove, Release, Marked
<1>2. MemoryRight /\ CountsRight
  BY DEF IInv
<1>3. /\ DiskRight(block) /\ Agrees(block, free_map, inodes)
      /\ MapStart = 2 /\ DirSector = 3
      /\ entries = DirOf(block) /\ entries \in [1..DirEntries -> Entry]
      /\ DOMAIN entries = 1..DirEntries
  BY <1>1, IdleFacts
<1>4. todo' = W
  BY <1>1, <1>3 DEF dir_write
<1>5. i \in 1..DirEntries /\ entries[i].in_use /\ entries[i] \in Entry /\ i \in Used(block)
  <2>1. i \in Find(name)
    BY <1>1 DEF lookup
  <2> HIDE DEF i
  <2> QED
    BY <1>3, <2>1 DEF Find, Used
<1> HIDE DEF i
<1>6. s \in Named(block)
  BY <1>3, <1>5 DEF Named
<1>7. slot \in Entry /\ slot.in_use = FALSE
  <2>1. ASSUME NEW x \in Entry
        PROVE  [x EXCEPT !.in_use = FALSE] \in Entry /\ [x EXCEPT !.in_use = FALSE].in_use = FALSE
    BY DEF Entry
  <2> QED
    BY <1>5, <2>1
<1> HIDE DEF slot
<1>8. /\ D \in [1..DirEntries -> Entry]
      /\ \A j \in 1..DirEntries : D[j] = IF j = i THEN slot ELSE entries[j]
  BY <1>3, <1>7
<1>9. \A j \in 1..DirEntries :
        D[j].in_use => /\ j \in Used(block) /\ D[j] = DirOf(block)[j]
                       /\ D[j].inode_sector \in Named(block) \ {s}
  <2>1. \A j, k \in Used(block) : j # k => DirOf(block)[j].inode_sector # DirOf(block)[k].inode_sector
    BY <1>3 DEF DiskRight
  <2>2. ASSUME NEW j \in 1..DirEntries, D[j].in_use
        PROVE  /\ j \in Used(block) /\ D[j] = DirOf(block)[j]
               /\ D[j].inode_sector \in Named(block) \ {s}
    <3>1. j # i /\ D[j] = DirOf(block)[j]
      BY <1>3, <1>7, <1>8, <2>2
    <3>2. j \in Used(block)
      BY <2>2, <3>1 DEF Used
    <3>3. D[j].inode_sector \in Named(block)
      BY <3>1, <3>2 DEF Named
    <3>4. D[j].inode_sector # s
      BY <1>3, <1>5, <2>1, <3>1, <3>2
    <3> QED
      BY <3>1, <3>2, <3>3, <3>4
  <2> HIDE DEF D
  <2> QED
    BY <2>2
<1> HIDE DEF D
<1>10. /\ DiskRight(d) /\ MapOf(d) = free_map /\ DirOf(d) = D
       /\ Named(d) = {D[j].inode_sector : j \in {k \in 1..DirEntries : D[k].in_use}}
       /\ \A t \in Sectors \ {3} : d[t] = block[t]
  <2>1. MapOf(block) = free_map /\ FilesOn(block, MapOf(block), Named(block))
    BY <1>3 DEF Agrees, DiskRight
  <2>2. \A j \in 1..DirEntries : D[j].in_use => D[j].inode_sector \in Named(block)
    BY <1>9
  <2>3. \A j, k \in 1..DirEntries :
          D[j].in_use /\ D[k].in_use /\ j # k => D[j].inode_sector # D[k].inode_sector
    <3>1. \A j, k \in Used(block) : j # k => DirOf(block)[j].inode_sector # DirOf(block)[k].inode_sector
      BY <1>3 DEF DiskRight
    <3> HIDE DEF s
    <3> QED
      BY <1>9, <3>1
  <2> DEFINE L == Named(block)
  <2>4. /\ DiskRight(d) /\ MapOf(d) = MapOf(block) /\ DirOf(d) = D
        /\ Named(d) = {D[j].inode_sector : j \in {k \in 1..DirEntries : D[k].in_use}}
        /\ \A t \in Sectors \ {3} : d[t] = block[t]
    <3>1. FilesOn(block, MapOf(block), L) /\ \A j \in 1..DirEntries : D[j].in_use => D[j].inode_sector \in L
      BY <2>1, <2>2
    <3> HIDE DEF L, s
    <3> QED
      BY <1>3, <1>8, <2>3, <3>1, DirWritten
  <2> QED
    BY <2>1, <2>4
<1>11. Named(d) \subseteq Named(block) \ {s}
  <2> HIDE DEF s, d
  <2> QED
    BY <1>9, <1>10
<1>12. Passes(block, U) /\ EndOf(block, U) = d
  BY <1>3, <1>10, FirstSectors, PassesOne
<1> HIDE DEF d, U, s
<1>13. /\ s \in Sectors \ (0..3) /\ s \in Sectors /\ s # 3 /\ s # 0
       /\ block[s][2] \in Nat /\ block[s][3] \in Nat /\ d[s] = block[s]
  <2>1. FilesOn(block, free_map, Named(block))
    BY <1>3 DEF Agrees, DiskRight
  <2>2. s \in Sectors \ (0..3) /\ block[s][2] \in Nat /\ block[s][3] \in Nat
    BY <1>6, <2>1, FilesOfMap
  <2> QED
    BY <1>10, <2>2, FirstSectors
<1>14. /\ inodes' \in [Sectors -> Inode \cup {NULL}]
       /\ \A t \in Sectors \ {s} : inodes'[t] = inodes[t]
       /\ inodes[s] = NULL => inodes'[s] = NULL /\ gone = Own(block, s)
       /\ inodes[s] # NULL =>
            /\ gone = {}
            /\ inodes'[s] # NULL /\ inodes'[s].open_cnt = inodes[s].open_cnt
            /\ inodes'[s].deny_write_cnt = inodes[s].deny_write_cnt
            /\ inodes'[s].start = inodes[s].start /\ inodes'[s].length = inodes[s].length
  <2>1. inodes \in [Sectors -> Inode \cup {NULL}]
    BY <1>2 DEF MemoryRight
  <2> DEFINE new == inode_close(open, s)
  <2>2. /\ new \in [Sectors -> Inode \cup {NULL}]
        /\ \A t \in Sectors \ {s} : new[t] = inodes[t]
        /\ inodes[s] = NULL =>
             new[s] = NULL /\ released(open, s) = {s} \cup Extent(block[s][2], block[s][3])
        /\ inodes[s] # NULL =>
             /\ released(open, s) = {}
             /\ new[s] # NULL /\ new[s].open_cnt = inodes[s].open_cnt
             /\ new[s].deny_write_cnt = inodes[s].deny_write_cnt
             /\ new[s].start = inodes[s].start /\ new[s].length = inodes[s].length
    BY <1>13, <2>1, InodeRemoved
  <2>3. inodes' = new
    BY <1>1
  <2> HIDE DEF new, open
  <2> QED
    BY <2>2, <2>3 DEF Own
<1> HIDE DEF open
<1>15. OpenedIn(inodes') = OpenedIn(inodes)
  BY <1>13, <1>14 DEF OpenedIn
<1>16. gone # {} => gone = Own(d, s) /\ gone = Own(block, s) /\ s \notin OpenedIn(inodes')
  BY <1>13, <1>14 DEF Own, OpenedIn
<1>17. FilesOn(d, free_map, Named(d) \cup {s})
  <2> DEFINE K == Named(d) \cup {s}
  <2>1. FilesOn(block, free_map, Named(block))
    BY <1>3 DEF Agrees, DiskRight
  <2>2. K \subseteq Named(block)
    BY <1>6, <1>11
  <2>3. Keeps(block, d, K, free_map)
    <3>1. ASSUME NEW t \in K PROVE d[t] = block[t] /\ Own(block, t) \subseteq free_map
      <4>1. t \in Sectors \ (0..3) /\ Own(block, t) \subseteq free_map
        <5> HIDE DEF K
        <5> QED
          BY <2>1, <2>2, FilesOfMap
      <4> QED
        BY <1>10, <4>1, FirstSectors
    <3> HIDE DEF K
    <3> QED
      BY <3>1 DEF Keeps
  <2> HIDE DEF K
  <2>4. FilesOn(d, free_map, K)
    BY <2>1, <2>2, <2>3, FilesStay
  <2> QED
    BY <2>4 DEF K
<1>18. /\ Passes(d, V) /\ DiskRight(EndOf(d, V))
       /\ MapOf(EndOf(d, V)) = free_map \ gone /\ gone \subseteq free_map
       /\ Named(EndOf(d, V)) = Named(d)
       /\ \A t \in Sectors \ {2} : EndOf(d, V)[t] = d[t]
  <2>1. MayRelease(d, open, s)
    BY <1>11, <1>16, <1>17 DEF MayRelease
  <2>2. DiskRight(d) /\ MapOf(d) = free_map /\ MapStart = 2
    BY <1>3, <1>10
  <2>3. /\ Passes(d, V) /\ DiskRight(EndOf(d, V))
        /\ MapOf(EndOf(d, V)) = free_map \ released(open, s)
        /\ released(open, s) \subseteq free_map
        /\ Named(EndOf(d, V)) = Named(d) /\ DirOf(EndOf(d, V)) = DirOf(d)
        /\ \A t \in Sectors \ {2} : EndOf(d, V)[t] = d[t]
    BY <2>1, <2>2, Releases
  <2> QED
    BY <2>3
<1> HIDE DEF V, gone
<1>19. Passes(block, W) /\ e = EndOf(d, V)
  BY <1>12, <1>18, PassesBoth
<1> HIDE DEF W, e
<1>20. WritesRight'
  <2>1. block = [t \in Sectors |-> block[t]]
    BY <1>3 DEF DiskRight, Layout
  <2> QED
    BY <1>1, <1>4, <1>19, <2>1 DEF WritesRight
<1>21. MemoryRight'
  <2>1. 0 \in Sectors /\ inodes'[0] = inodes[0]
    BY <1>13, <1>14, FirstSectors
  <2> QED
    BY <1>1, <1>2, <1>14, <2>1 DEF MemoryRight
<1>22. MemoryAgrees'
  <2>1. Named(e) = Named(d) /\ MapOf(e) = free_map \ gone
    BY <1>18, <1>19
  <2>2. Same(block, e, Sectors \ (0..3))
    <3>1. ASSUME NEW t \in Sectors \ (0..3) PROVE e[t] = block[t]
      <4>1. t \in Sectors \ {2} /\ t \in Sectors \ {3}
        BY FirstSectors
      <4> QED
        BY <1>10, <1>18, <1>19, <4>1
    <3> QED
      BY <3>1 DEF Same
  <2>3. SameFiles(inodes, inodes', Named(e))
    <3>1. ASSUME NEW t \in OpenedIn(inodes')
          PROVE  /\ t \in OpenedIn(inodes)
                 /\ inodes'[t].start = inodes[t].start /\ inodes'[t].length = inodes[t].length
                 /\ inodes'[t].removed => inodes[t].removed \/ t \notin Named(e)
      <4>1. t \in OpenedIn(inodes) /\ t \in Sectors /\ inodes[t] # NULL
        BY <1>15 DEF OpenedIn
      <4>2. CASE t = s
        BY <1>11, <1>14, <2>1, <4>1, <4>2
      <4>3. CASE t # s
        BY <1>14, <4>1, <4>3
      <4> QED
        BY <4>2, <4>3
    <3> QED
      BY <3>1 DEF SameFiles
  <2>4. gone # {} => /\ s \in Named(block) \cup OpenedIn(inodes) /\ gone = Own(block, s)
                     /\ s \notin Named(e) \cup OpenedIn(inodes')
    BY <1>6, <1>11, <1>16, <2>1
  <2>5. Named(e) \subseteq Named(block)
    BY <1>11, <2>1
  <2>6. Agrees(e, free_map \ gone, inodes')
    BY <1>3, <2>1, <2>2, <2>3, <2>4, <2>5, AgreesReleased
  <2> QED
    BY <1>1, <1>4, <2>6 DEF MemoryAgrees, e
<1>23. CountsRight'
  <2>1. ASSUME NEW t \in Sectors \ {0}
        PROVE  Counts(inodes[t], OpenOn(t), Denying(t))'
    <3>1. Counts(inodes[t], OpenOn(t), Denying(t))
      BY <1>2, CountsAre
    <3>2. OpenOn(t)' = OpenOn(t) /\ Denying(t)' = Denying(t)
      BY <1>1 DEF OpenOn, Denying
    <3>3. CASE t # s
      BY <1>14, <3>1, <3>2, <3>3
    <3>4. CASE t = s
      BY <1>14, <3>1, <3>2, <3>4 DEF Counts
    <3> QED
      BY <3>3, <3>4
  <2> QED
    BY <2>1 DEF CountsRight, Counts, Denying, FREE_MAP_SECTOR
<1>24. failed' = FALSE
  BY <1>1, <1>18
<1> QED
  BY <1>20, <1>21, <1>22, <1>23, <1>24 DEF IInv

LEMMA OpenNameKeeps ==
  ASSUME IInv, NEW name \in Names, NEW h \in Handles, Open(name, h)
  PROVE  IInv'
<1> DEFINE i == lookup(name)
           s == entries[i].inode_sector
<1>1. /\ Idle /\ files[h] = NULL /\ Find(name) # {}
      /\ inodes' = inode_open(inodes, block, s)
      /\ files' = [files EXCEPT ![h] = [inode |-> s, pos |-> 0, deny_write |-> FALSE]]
      /\ UNCHANGED <<block, todo, free_map, failed>>
  BY DEF Open
<1>2. entries = DirOf(block) /\ DOMAIN entries = 1..DirEntries
  BY <1>1, IdleFacts
<1>3. i \in Used(block)
  <2>1. i \in Find(name)
    BY <1>1 DEF lookup
  <2> HIDE DEF i
  <2> QED
    BY <1>2, <2>1 DEF Find, Used
<1> HIDE DEF i
<1>4. s \in Named(block) \cup OpenedIn(inodes)
  BY <1>2, <1>3 DEF Named
<1> HIDE DEF s
<1> QED
  BY <1>1, <1>4, OpenKeeps

LEMMA ReopenKeeps ==
  ASSUME IInv, NEW g \in Handles, NEW h \in Handles, Reopen(g, h)
  PROVE  IInv'
<1> DEFINE s == files[g].inode
<1>1. /\ Idle /\ files[g] # NULL /\ files[h] = NULL
      /\ inodes' = inode_open(inodes, block, s)
      /\ files' = [files EXCEPT ![h] = [inode |-> s, pos |-> 0, deny_write |-> FALSE]]
      /\ UNCHANGED <<block, todo, free_map, failed>>
  BY DEF Reopen
<1>2. s \in OpenedIn(inodes)
  BY <1>1, InodeInMemory DEF IInv
<1>3. s \in Named(block) \cup OpenedIn(inodes)
  BY <1>2
<1> QED
  BY <1>1, <1>3, OpenKeeps


(***************************************************************************)
(* The invariant.                                                          *)
(***************************************************************************)

\* do_format: a file system without files.
LEMMA FormattedRight == DiskRight(Formatted) /\ MapOf(Formatted) = 0..3
<1> DEFINE d == Formatted
           blank == [inode_sector |-> 0, name |-> NULL, in_use |-> FALSE]
<1>1. /\ d[0] = <<"inode", 2, 1>> /\ d[1] = <<"inode", 3, 1>> /\ d[2] = <<"map", 0..3>>
      /\ d[3] = <<"dir", [i \in 1..DirEntries |-> blank]>>
      /\ \A s \in Sectors \ {0, 1, 2, 3} : d[s] = <<"data", zeros>>
      /\ d = [s \in Sectors |-> d[s]]
  <2>1. d[0] = <<"inode", 2, 1>>
    BY FirstSectors DEF Formatted, FREE_MAP_SECTOR, ROOT_DIR_SECTOR
  <2>2. d[1] = <<"inode", 3, 1>>
    BY FirstSectors DEF Formatted, FREE_MAP_SECTOR, ROOT_DIR_SECTOR
  <2>3. d[2] = <<"map", 0..3>>
    BY FirstSectors DEF Formatted, FREE_MAP_SECTOR, ROOT_DIR_SECTOR
  <2>4. d[3] = <<"dir", [i \in 1..DirEntries |-> blank]>>
    <3> DEFINE D == [i \in 1..DirEntries |-> blank]
    <3>1. d = [s \in Sectors |->
                 CASE s = FREE_MAP_SECTOR -> <<"inode", 2, 1>>
                   [] s = ROOT_DIR_SECTOR -> <<"inode", 3, 1>>
                   [] s = 2 -> <<"map", 0..3>>
                   [] s = 3 -> <<"dir", D>>
                   [] OTHER -> <<"data", zeros>>]
      BY DEF Formatted
    <3> HIDE DEF D, d
    <3>2. d[3] = <<"dir", D>>
      BY <3>1, FirstSectors DEF FREE_MAP_SECTOR, ROOT_DIR_SECTOR
    <3> QED
      BY <3>2 DEF D
  <2>5. \A s \in Sectors \ {0, 1, 2, 3} : d[s] = <<"data", zeros>>
    BY FirstSectors DEF Formatted, FREE_MAP_SECTOR, ROOT_DIR_SECTOR
  <2>6. d = [s \in Sectors |-> d[s]]
    BY DEF Formatted
  <2> QED
    BY <2>1, <2>2, <2>3, <2>4, <2>5, <2>6
<1>2. blank \in Entry /\ blank.in_use = FALSE
  BY FirstSectors DEF Entry
<1> HIDE DEF d, blank
<1>3. MapOf(d) = 0..3 /\ DirOf(d) = [i \in 1..DirEntries |-> blank]
  BY <1>1 DEF MapOf, DirOf
<1>4. \A s \in Sectors : d[s][1] \in Tags
  <2>1. d[0][1] = "inode" /\ d[1][1] = "inode" /\ d[2][1] = "map" /\ d[3][1] = "dir"
    BY <1>1
  <2>2. \A s \in Sectors \ {0, 1, 2, 3} : d[s][1] = "data"
    BY <1>1
  <2> QED
    BY <2>1, <2>2 DEF Tags
<1>5. Used(d) = {} /\ Named(d) = {}
  BY <1>2, <1>3 DEF Used, Named
<1>6. Layout(d)
  BY <1>1, <1>2, <1>3, <1>4, FirstSectors DEF Layout
<1>7. FilesOn(d, MapOf(d), Named(d))
  BY <1>5 DEF FilesOn
<1> QED
  BY <1>3, <1>5, <1>6, <1>7 DEF DiskRight, d

LEMMA InitRight == Init => IInv
<1> SUFFICES ASSUME Init PROVE IInv
  OBVIOUS
<1>1. /\ block = Formatted /\ todo = <<>> /\ free_map = 0..3 /\ inodes = Closed(block)
      /\ files = [h \in Handles |-> NULL] /\ failed = FALSE
  BY DEF Init
<1>2. DiskRight(block) /\ MapOf(block) = free_map
  BY <1>1, FormattedRight
<1>3. /\ inodes \in [Sectors -> Inode \cup {NULL}]
      /\ inodes[0] # NULL /\ inodes[0].start = 2
      /\ \A s \in Sectors \ {0} : inodes[s] = NULL
  BY <1>1, <1>2, StartedRight
<1>4. Passes(block, todo) /\ EndOf(block, todo) = block
  BY <1>1, <1>2, PassesNone
<1>5. WritesRight
  BY <1>2, <1>4 DEF WritesRight, DiskRight, Layout
<1>6. MemoryAgrees
  <2>1. Agrees(block, MapOf(block), Closed(block))
    BY <1>2, StartKeeps
  <2> QED
    BY <1>1, <1>2, <1>4, <2>1 DEF MemoryAgrees
<1>7. MemoryRight
  BY <1>1, <1>3 DEF MemoryRight
<1>8. CountsRight
  BY <1>1, <1>3 DEF CountsRight, OpenOn, FREE_MAP_SECTOR
<1> QED
  BY <1>1, <1>5, <1>6, <1>7, <1>8 DEF IInv

LEMMA StutterKeeps == ASSUME IInv, UNCHANGED fsVars PROVE IInv'
<1>1. MemoryRight' /\ WritesRight' /\ failed' = FALSE
  BY DEF fsVars, IInv, MemoryRight, WritesRight
<1>2. MemoryAgrees'
  BY DEF fsVars, IInv, MemoryAgrees
<1>3. CountsRight'
  BY DEF fsVars, IInv, CountsRight, OpenOn
<1> QED
  BY <1>1, <1>2, <1>3 DEF IInv

LEMMA NextKeeps ==
  IInv /\ program \in Programs /\ [Next]_vars => IInv' /\ program' \in Programs
<1> SUFFICES ASSUME IInv, program \in Programs, [Next]_vars
             PROVE  IInv' /\ program' \in Programs
  OBVIOUS
<1>1. program' = program
  BY DEF Next, vars
<1>2. CASE UNCHANGED vars
  BY <1>1, <1>2, StutterKeeps DEF vars
<1>3. CASE Next
  <2>1. CASE CreateNothing
    BY <1>1, <2>1, StutterKeeps DEF CreateNothing
  <2>2. ASSUME NEW size \in program.sizes,
               \/ CreateNoInode(size)
               \/ \E n \in Names \cup LongNames : CreateNoEntry(n, size) \/ CreateFile(n, size)
        PROVE  IInv'
    <3>1. size \in Nat
      BY FilesysAssumption
    <3>2. CASE CreateNoInode(size)
      BY <3>1, <3>2, CreateNoInodeKeeps
    <3>3. ASSUME NEW n \in Names \cup LongNames, CreateNoEntry(n, size) PROVE IInv'
      BY <3>1, <3>3, CreateNoEntryKeeps
    <3>4. ASSUME NEW n \in Names \cup LongNames, CreateFile(n, size) PROVE IInv'
      BY <3>1, <3>4, CreateFileKeeps
    <3> QED
      BY <2>2, <3>2, <3>3, <3>4
  <2>3. ASSUME NEW n \in Names, Remove(n) \/ \E h \in Handles : Open(n, h) PROVE IInv'
    BY <2>3, RemoveKeeps, OpenNameKeeps
  <2>4. ASSUME NEW h \in Handles, NEW g \in Handles, Reopen(g, h) PROVE IInv'
    BY <2>4, ReopenKeeps
  <2>5. ASSUME NEW h \in Handles, Close(h) \/ DenyWrite(h) \/ AllowWrite(h) PROVE IInv'
    BY <2>5, CloseKeeps, DenyWriteKeeps, AllowWriteKeeps
  <2>6. ASSUME NEW h \in Handles, NEW n \in Transfers, Write(h, 1, n) \/ Read(h, n) PROVE IInv'
    BY <2>6, WriteKeeps, ReadKeeps
  <2>7. ASSUME NEW h \in Handles, NEW pos \in Seeks, Seek(h, pos) PROVE IInv'
    BY <2>7, SeekKeeps
  <2>8. CASE WriteBlock
    BY <1>1, <2>8, WriteBlockKeeps
  <2>9. CASE Boot
    BY <1>1, <2>9, BootKeeps
  <2> QED
    BY <1>1, <1>3, <2>1, <2>2, <2>3, <2>4, <2>5, <2>6, <2>7, <2>8, <2>9 DEF Next
<1> QED
  BY <1>2, <1>3

LEMMA Invariant == Spec => []IInv
<1> DEFINE Inv == IInv /\ program \in Programs
<1>1. Init => Inv
  BY InitRight DEF Init
<1>2. Inv /\ [Next]_vars => Inv'
  BY NextKeeps
<1>3. Inv => IInv
  OBVIOUS
<1> QED
  BY <1>1, <1>2, <1>3, PTL DEF Spec
-----------------------------------------------------------------------------
(***************************************************************************)
(* The theorems.                                                           *)
(***************************************************************************)

\* The disk is right between any two block writes, and after the last one.
LEMMA DiskNow ==
  ASSUME IInv
  PROVE  /\ DiskRight(block) /\ DiskRight(EndOf(block, todo))
         /\ InUse(block) = Used(block)
         /\ \A i \in Used(block) : EntrySector(block, i) = DirOf(block)[i].inode_sector
         /\ entries = DirOf(block) /\ DOMAIN todo = 1..Len(todo)
<1>1. block = [s \in Sectors |-> block[s]] /\ Passes(block, todo)
  BY DEF IInv, WritesRight
<1>2. 0 \in 0..Len(todo) /\ Len(todo) \in 0..Len(todo) /\ DOMAIN todo = 1..Len(todo)
  <2>1. PICK S : todo \in Seq(S)
    BY <1>1 DEF Passes, IsWrites
  <2> QED
    BY <2>1
<1>3. DiskRight(block)
  <2>1. After(block, todo, 0) = block
    BY <1>1, AfterZero
  <2> QED
    BY <1>1, <1>2, <2>1 DEF Passes
<1>4. DiskRight(EndOf(block, todo))
  BY <1>1, <1>2 DEF Passes, EndOf
<1>5. block[1][2] = 3 /\ DOMAIN DirOf(block) = 1..DirEntries
  <2>1. block[1] = <<"inode", 3, 1>> /\ DirOf(block) \in [1..DirEntries -> Entry]
    BY <1>3 DEF DiskRight, Layout
  <2> QED
    BY <2>1
<1>6. InUse(block) = Used(block) /\ entries = DirOf(block)
  BY <1>5 DEF InUse, Used, DirOf, entries, DirSector, ROOT_DIR_SECTOR
<1>7. \A i \in Used(block) : EntrySector(block, i) = DirOf(block)[i].inode_sector
  BY <1>5 DEF EntrySector, DirOf, ROOT_DIR_SECTOR
<1> QED
  BY <1>2, <1>3, <1>4, <1>6, <1>7

LEMMA LiveFiles == ASSUME IInv PROVE Live = Named(block) \cup OpenedIn(inodes)
BY DiskNow DEF Live, Named, OpenedIn

LEMMA TypesRight == IInv => TypeOK
<1> SUFFICES ASSUME IInv PROVE TypeOK
  OBVIOUS
<1>1. Layout(block) /\ Layout(EndOf(block, todo)) /\ entries = DirOf(block)
  BY DiskNow DEF DiskRight
<1>2. /\ DOMAIN block = Sectors
      /\ \A s \in Sectors : block[s][1] \in {"inode", "map", "dir", "data"}
      /\ entries \in [1..DirEntries -> Entry]
  BY <1>1 DEF Layout, Tags
<1>3. \A i \in DOMAIN todo : todo[i][1] \in Sectors
  <2>1. IsWrites(todo)
    BY DEF IInv, WritesRight, Passes
  <2> QED
    BY <2>1, DiskNow DEF IsWrites
<1>4. free_map \subseteq Sectors
  <2>1. MapOf(EndOf(block, todo)) = free_map
    BY DEF IInv, MemoryAgrees, Agrees
  <2> QED
    BY <1>1, <2>1 DEF Layout
<1>5. /\ inodes \in [Sectors -> Inode \cup {NULL}] /\ files \in [Handles -> File \cup {NULL}]
      /\ failed \in BOOLEAN
  BY DEF IInv, MemoryRight
<1> QED
  BY <1>2, <1>3, <1>4, <1>5 DEF TypeOK

LEMMA SectorsApart == IInv => NoSectorShared
<1> SUFFICES ASSUME IInv, todo = <<>>
             PROVE  /\ \A s \in Live : block[s][1] = "inode" /\ SectorsOf(s) \subseteq free_map \ (0..3)
                    /\ \A s, r \in Live : s # r => SectorsOf(s) \cap SectorsOf(r) = {}
  BY DEF NoSectorShared
<1>1. FilesOn(block, free_map, Live)
  <2>1. Idle
    BY DEF Idle, IInv
  <2> QED
    BY <2>1, IdleFacts, LiveFiles DEF Agrees
<1>2. \A s : SectorsOf(s) = Own(block, s)
  BY DEF SectorsOf, Own
<1>3. ASSUME NEW s \in Live
      PROVE  block[s][1] = "inode" /\ SectorsOf(s) \subseteq free_map \ (0..3)
  <2>1. block[s] = <<"inode", block[s][2], block[s][3]>> /\ Own(block, s) \subseteq free_map \ (0..3)
    BY <1>1, FilesOfMap
  <2>2. block[s][1] = "inode"
    BY <2>1
  <2> QED
    BY <1>2, <2>1, <2>2
<1>4. \A s, r \in Live : s # r => SectorsOf(s) \cap SectorsOf(r) = {}
  BY <1>1, <1>2 DEF FilesOn
<1> QED
  BY <1>3, <1>4

LEMMA BytesRead == IInv => ReadsRight
<1> SUFFICES ASSUME IInv, NEW s \in Live, inodes[s] # NULL,
                    NEW size \in 0 .. inodes[s].length + 1,
                    NEW pos \in 0 .. inodes[s].length + 1
             PROVE  inode_read_at(block, inodes[s], size, pos)
                      = SubSeq(FileBytes(inodes[s]), pos + 1,
                               IF pos + size < inodes[s].length THEN pos + size
                               ELSE inodes[s].length)
  BY DEF ReadsRight
<1>1. s \in Sectors
  <2>1. Layout(block)
    BY DiskNow DEF DiskRight
  <2> QED
    BY <2>1, LiveFiles, NamedInSectors DEF OpenedIn
<1>2. inodes[s] \in Inode
  BY <1>1 DEF IInv, MemoryRight
<1>3. inodes[s].start \in Nat /\ inodes[s].length \in Nat
  BY <1>2 DEF Inode
<1>4. size \in Nat /\ pos \in Nat
  BY <1>3
<1> QED
  BY <1>3, <1>4, ReadsBytes

LEMMA DiskSafe == IInv => NamesHoldFiles
<1> SUFFICES ASSUME IInv PROVE NamesHoldFiles
  OBVIOUS
<1>1. /\ Layout(block) /\ FilesOn(block, MapOf(block), Named(block))
      /\ \A i, j \in Used(block) : i # j => DirOf(block)[i].inode_sector # DirOf(block)[j].inode_sector
  BY DiskNow DEF DiskRight
<1>2. InUse(block) = Used(block)
  BY DiskNow
<1>3. block[block[FREE_MAP_SECTOR][2]][2] = MapOf(block)
  <2>1. block[0] = <<"inode", 2, 1>>
    BY <1>1 DEF Layout
  <2>2. block[0][2] = 2
    BY <2>1
  <2> QED
    BY <2>2 DEF MapOf, FREE_MAP_SECTOR
<1>4. \A s : SectorsOf(s) = Own(block, s)
  BY DEF SectorsOf, Own
<1>5. ASSUME NEW i \in Used(block)
      PROVE  /\ EntrySector(block, i) \in Named(block)
             /\ EntrySector(block, i) = DirOf(block)[i].inode_sector
  BY DiskNow DEF Named
<1>6. ASSUME NEW i \in InUse(block)
      PROVE  LET s == EntrySector(block, i)
             IN  /\ block[s][1] = "inode"
                 /\ SectorsOf(s) \subseteq block[block[FREE_MAP_SECTOR][2]][2]
                 /\ \A j \in InUse(block) \ {i} :
                      SectorsOf(s) \cap SectorsOf(EntrySector(block, j)) = {}
  <2> DEFINE s == EntrySector(block, i)
  <2>1. s \in Named(block)
    BY <1>2, <1>5
  <2>2. ASSUME NEW j \in InUse(block) \ {i}
        PROVE  SectorsOf(s) \cap SectorsOf(EntrySector(block, j)) = {}
    <3>1. EntrySector(block, j) \in Named(block) /\ EntrySector(block, j) # s
      BY <1>1, <1>2, <1>5
    <3> QED
      BY <1>1, <1>4, <2>1, <3>1 DEF FilesOn
  <2> HIDE DEF s
  <2>3. block[s] = <<"inode", block[s][2], block[s][3]>> /\ Own(block, s) \subseteq MapOf(block)
    BY <1>1, <2>1, FilesOfMap
  <2>4. block[s][1] = "inode"
    BY <2>3
  <2> QED
    BY <1>3, <1>4, <2>2, <2>3, <2>4 DEF s
<1> QED
  BY <1>6 DEF NamesHoldFiles

\* Whatever is created, removed, opened, closed, read and written, in whatever
\* order and wherever memory runs out: no sector belongs to two files, no sector
\* is released twice, and reading finds the bytes of the file.
THEOREM FilesWholeHolds == Spec => []FilesWhole
<1>1. IInv => FilesWhole
  <2>1. IInv => NoPanic
    BY DEF IInv, NoPanic
  <2> QED
    BY <2>1, TypesRight, SectorsApart, BytesRead DEF FilesWhole
<1> QED
  BY <1>1, Invariant, PTL

\* The counts of open files and of writes denied are right.
THEOREM CountsRightHolds == Spec => []CountsRight
<1>1. IInv => CountsRight
  BY DEF IInv
<1> QED
  BY <1>1, Invariant, PTL

(***************************************************************************)
(* The file store that a disk d stands for while the inodes O are open.    *)
(***************************************************************************)
Ids(d, O) == Named(d) \cup O
NamesOn(d) == {DirOf(d)[i].name : i \in Used(d)}
EntriesOf(d, n) == {i \in 1..DirEntries : DirOf(d)[i].in_use /\ DirOf(d)[i].name = n}
RootOf(d) == [n \in NamesOn(d) |-> DirOf(d)[CHOOSE i \in EntriesOf(d, n) : TRUE].inode_sector]
BytesOf(d, s) ==
  [k \in 1..d[s][3] |->
     d[d[s][2] + (k - 1) \div BLOCK_SECTOR_SIZE][2][((k - 1) % BLOCK_SECTOR_SIZE) + 1]]
ContentOf(d, O) == [s \in Ids(d, O) |-> BytesOf(d, s)]

\* The sectors of files hold data, and no name stands for two files.
IsData(c) == c = <<"data", c[2]>> /\ c[2] = [i \in 1..BLOCK_SECTOR_SIZE |-> c[2][i]]
StoreRight(d, O) ==
  /\ DiskRight(d)
  /\ FilesOn(d, Sectors, Ids(d, O))
  /\ \A i \in Used(d) : DirOf(d)[i].name \in Names
  /\ \A i, j \in Used(d) : DirOf(d)[i].name = DirOf(d)[j].name => i = j
  /\ \A s \in Ids(d, O) : \A t \in Extent(d[s][2], d[s][3]) : IsData(d[t])

\* The next state of FileStore, as a relation on values.
Creates(r, c, q, b) ==
  \E n \in Names \ DOMAIN r, f \in Sectors \ DOMAIN c, len \in Sizes :
    /\ q = [z \in DOMAIN r \cup {n} |-> IF z = n THEN f ELSE r[z]]
    /\ b = [z \in DOMAIN c \cup {f} |-> IF z = f THEN [i \in 1..len |-> 0] ELSE c[z]]
Writes(r, c, q, b) ==
  \E f \in DOMAIN c : \E lo, hi \in DOMAIN c[f] :
    /\ b = [c EXCEPT ![f] = [i \in DOMAIN @ |-> IF i \in lo..hi THEN 1 ELSE @[i]]]
    /\ q = r
Removes(r, c, q, b) ==
  \E n \in DOMAIN r :
    /\ q = [z \in DOMAIN r \ {n} |-> r[z]]
    /\ b \in {c, [z \in DOMAIN c \ {r[n]} |-> c[z]]}
Forgets(r, c, q, b) ==
  \E S \in SUBSET (DOMAIN c \ {r[n] : n \in DOMAIN r}) :
    q = r /\ b = [z \in DOMAIN c \ S |-> c[z]]
StoreStep(r, c, q, b) ==
  \/ Creates(r, c, q, b) \/ Writes(r, c, q, b) \/ Removes(r, c, q, b) \/ Forgets(r, c, q, b)
  \/ q = r /\ b = c

Moves(d, e, O) == StoreStep(RootOf(d), ContentOf(d, O), RootOf(e), ContentOf(e, O))

\* Each of the writes W is a step of the file store.
StorePasses(d, W, O) ==
  /\ IsWrites(W)
  /\ \A k \in 0..Len(W) : StoreRight(After(d, W, k), O)
  /\ \A k \in 1..Len(W) : Moves(After(d, W, k - 1), After(d, W, k), O)

SInv == StorePasses(block, todo, OpenedIn(inodes))
-----------------------------------------------------------------------------
\* The names of a disk and what they stand for.
LEMMA RootIs ==
  ASSUME NEW d, NEW O, StoreRight(d, O)
  PROVE  /\ DOMAIN RootOf(d) = NamesOn(d)
         /\ \A i \in Used(d) : RootOf(d)[DirOf(d)[i].name] = DirOf(d)[i].inode_sector
         /\ {RootOf(d)[n] : n \in DOMAIN RootOf(d)} = Named(d)
<1>1. DOMAIN RootOf(d) = NamesOn(d)
  BY DEF RootOf
<1>2. ASSUME NEW i \in Used(d)
      PROVE  RootOf(d)[DirOf(d)[i].name] = DirOf(d)[i].inode_sector
  <2> DEFINE n == DirOf(d)[i].name
  <2>1. EntriesOf(d, n) = {i}
    BY DEF EntriesOf, Used, StoreRight
  <2>2. n \in NamesOn(d)
    BY DEF NamesOn
  <2> HIDE DEF n
  <2>3. RootOf(d)[n] = DirOf(d)[CHOOSE j \in EntriesOf(d, n) : TRUE].inode_sector
    BY <2>2 DEF RootOf
  <2> QED
    BY <2>1, <2>3 DEF n
<1>3. {RootOf(d)[n] : n \in DOMAIN RootOf(d)} = Named(d)
  <2>1. ASSUME NEW n \in DOMAIN RootOf(d) PROVE RootOf(d)[n] \in Named(d)
    <3>1. PICK i \in Used(d) : n = DirOf(d)[i].name
      BY <1>1 DEF NamesOn
    <3> QED
      BY <1>2, <3>1 DEF Named
  <2>2. ASSUME NEW s \in Named(d) PROVE \E n \in DOMAIN RootOf(d) : s = RootOf(d)[n]
    <3>1. PICK i \in Used(d) : s = DirOf(d)[i].inode_sector
      BY DEF Named
    <3>2. DirOf(d)[i].name \in DOMAIN RootOf(d)
      BY <1>1 DEF NamesOn
    <3> QED
      BY <1>2, <3>1, <3>2
  <2> QED
    BY <2>1, <2>2
<1> QED
  BY <1>1, <1>2, <1>3

\* A byte of a file is in one of its sectors.
LEMMA ByteInExtent ==
  ASSUME NEW start \in Nat, NEW length \in Nat, NEW k \in 1..length
  PROVE  /\ start + (k - 1) \div BLOCK_SECTOR_SIZE \in Extent(start, length)
         /\ ((k - 1) % BLOCK_SECTOR_SIZE) + 1 \in 1..BLOCK_SECTOR_SIZE
<1> DEFINE inode == [start |-> start, length |-> length]
<1>1. k - 1 \in Nat /\ k - 1 < inode.length /\ inode.start \in Nat /\ inode.length \in Nat
  OBVIOUS
<1>2. byte_to_sector(inode, k - 1) = start + (k - 1) \div BLOCK_SECTOR_SIZE
  BY <1>1 DEF byte_to_sector
<1>3. byte_to_sector(inode, k - 1) \in Extent(inode.start, inode.length)
  <2> HIDE DEF inode
  <2> QED
    BY <1>1, SectorInExtent
<1>4. ((k - 1) % BLOCK_SECTOR_SIZE) + 1 \in 1..BLOCK_SECTOR_SIZE
  BY <1>1, FilesysAssumption
<1> QED
  BY <1>2, <1>3, <1>4

\* A disk on which the same files are, in the same sectors with the same contents,
\* stands for the same store.
Untouched(d, e, O) ==
  /\ e[3] = d[3]
  /\ \A s \in Ids(d, O) : \A t \in Own(d, s) : e[t] = d[t]

LEMMA StoreStays ==
  ASSUME NEW d, NEW e, NEW O, StoreRight(d, O), DiskRight(e), Untouched(d, e, O)
  PROVE  /\ StoreRight(e, O)
         /\ RootOf(e) = RootOf(d) /\ ContentOf(e, O) = ContentOf(d, O) /\ Ids(e, O) = Ids(d, O)
<1>1. DirOf(e) = DirOf(d)
  BY DEF Untouched, DirOf
<1>2. Used(e) = Used(d) /\ Named(e) = Named(d) /\ Ids(e, O) = Ids(d, O)
  BY <1>1 DEF Used, Named, Ids
<1>3. RootOf(e) = RootOf(d)
  BY <1>1, <1>2 DEF RootOf, NamesOn, EntriesOf
<1>4. ASSUME NEW s \in Ids(d, O)
      PROVE  /\ e[s] = d[s] /\ Own(e, s) = Own(d, s)
             /\ \A t \in Extent(d[s][2], d[s][3]) : e[t] = d[t]
             /\ d[s][2] \in Nat /\ d[s][3] \in Nat
  BY DEF Untouched, Own, StoreRight, FilesOn
<1>5. FilesOn(e, Sectors, Ids(e, O))
  <2>1. FilesOn(d, Sectors, Ids(d, O))
    BY DEF StoreRight
  <2> DEFINE L == Ids(d, O)
  <2>2. Keeps(d, e, L, Sectors)
    BY <1>4, <2>1 DEF Keeps, FilesOn
  <2> HIDE DEF L
  <2>3. FilesOn(e, Sectors, L)
    BY <2>1, <2>2, FilesStay DEF L
  <2> QED
    BY <1>2, <2>3 DEF L
<1>6. \A s \in Ids(e, O) : \A t \in Extent(e[s][2], e[s][3]) : IsData(e[t])
  BY <1>2, <1>4 DEF StoreRight
<1>7. StoreRight(e, O)
  BY <1>1, <1>2, <1>5, <1>6 DEF StoreRight
<1>8. ASSUME NEW s \in Ids(d, O) PROVE BytesOf(e, s) = BytesOf(d, s)
  <2>1. d[s][2] \in Nat /\ d[s][3] \in Nat /\ e[s] = d[s]
    BY <1>4
  <2>2. ASSUME NEW k \in 1..d[s][3]
        PROVE  LET t == d[s][2] + (k - 1) \div BLOCK_SECTOR_SIZE IN e[t] = d[t]
    BY <1>4, <2>1, ByteInExtent
  <2> QED
    BY <2>1, <2>2 DEF BytesOf
<1>9. ContentOf(e, O) = ContentOf(d, O)
  BY <1>2, <1>8 DEF ContentOf
<1> QED
  BY <1>2, <1>3, <1>7, <1>9

(***************************************************************************)
(* Lists of writes that are steps of the store.                            *)
(***************************************************************************)
LEMMA StorePassesNone ==
  ASSUME NEW d, NEW O, StoreRight(d, O)
  PROVE  StorePasses(d, <<>>, O)
<1>1. DiskRight(d)
  BY DEF StoreRight
<1>2. IsWrites(<<>>) /\ After(d, <<>>, 0) = d
  BY <1>1, PassesNone, AfterZero DEF Passes, DiskRight, Layout
<1>3. Len(<<>>) = 0 /\ (\A k \in 0..0 : k = 0) /\ 1..0 = {}
  OBVIOUS
<1> QED
  BY <1>2, <1>3 DEF StorePasses

LEMMA StorePassesOne ==
  ASSUME NEW d, NEW O, NEW s \in Sectors, NEW c, StoreRight(d, O),
         StoreRight([d EXCEPT ![s] = c], O), Moves(d, [d EXCEPT ![s] = c], O)
  PROVE  StorePasses(d, << <<s, c>> >>, O)
<1> DEFINE W == << <<s, c>> >>
           e == [d EXCEPT ![s] = c]
<1>1. d = [t \in Sectors |-> d[t]]
  BY DEF StoreRight, DiskRight, Layout
<1>2. Len(W) = 1 /\ W \in Seq({<<s, c>>}) /\ \A i \in 1..1 : W[i][1] \in Sectors
  OBVIOUS
<1>3. After(d, W, 0) = d /\ After(d, W, 1) = e
  BY <1>1, AfterZero, AfterOne
<1> HIDE DEF W, e
<1>4. (\A k \in 0..1 : k = 0 \/ k = 1) /\ (\A k \in 1..1 : k = 1) /\ 1 - 1 = 0
  OBVIOUS
<1>5. IsWrites(W)
  BY <1>2 DEF IsWrites
<1>6. StoreRight(e, O) /\ Moves(d, e, O)
  BY DEF e
<1>7. \A k \in 0..Len(W) : StoreRight(After(d, W, k), O)
  BY <1>2, <1>3, <1>4, <1>6
<1>8. \A k \in 1..Len(W) : Moves(After(d, W, k - 1), After(d, W, k), O)
  BY <1>2, <1>3, <1>4, <1>6
<1> QED
  BY <1>5, <1>7, <1>8 DEF StorePasses, W

LEMMA StorePassesBoth ==
  ASSUME NEW d, NEW O, NEW U, NEW V, StorePasses(d, U, O), StorePasses(EndOf(d, U), V, O)
  PROVE  StorePasses(d, U \o V, O)
<1> DEFINE W == U \o V
           e == EndOf(d, U)
           n == Len(U)
<1>1. PICK A : U \in Seq(A)
  BY DEF StorePasses, IsWrites
<1>2. PICK B : V \in Seq(B)
  BY DEF StorePasses, IsWrites
<1> DEFINE S == A \cup B
<1>3. U \in Seq(S) /\ V \in Seq(S)
  BY <1>1, <1>2, SeqMonotonic
<1>4. /\ W \in Seq(S) /\ n \in Nat /\ Len(V) \in Nat /\ Len(W) = n + Len(V)
      /\ \A i \in 1..n : W[i] = U[i]
      /\ \A i \in 1..Len(V) : W[n + i] = V[i]
  BY <1>3, ConcatProperties
<1> HIDE DEF S
<1>5. /\ \A k \in 0..n : After(d, W, k) = After(d, U, k)
      /\ \A k \in 0..Len(V) : After(d, W, n + k) = After(e, V, k)
  BY <1>3, AfterConcat DEF EndOf
<1> HIDE DEF W, e
<1>6. IsWrites(W)
  <2>1. ASSUME NEW i \in 1..Len(W) PROVE W[i][1] \in Sectors
    <3>1. CASE i <= n
      BY <1>4, <3>1 DEF StorePasses, IsWrites
    <3>2. CASE ~(i <= n)
      <4>1. i - n \in 1..Len(V) /\ i = n + (i - n)
        BY <1>4, <3>2
      <4>2. W[i] = V[i - n]
        BY <1>4, <4>1
      <4> QED
        BY <4>1, <4>2 DEF StorePasses, IsWrites
    <3> QED
      BY <3>1, <3>2
  <2> QED
    BY <1>4, <2>1 DEF IsWrites
<1> HIDE DEF n
<1>7. /\ \A k \in 0..n : StoreRight(After(d, U, k), O)
      /\ \A k \in 1..n : Moves(After(d, U, k - 1), After(d, U, k), O)
  BY DEF StorePasses, n
<1>8. /\ \A k \in 0..Len(V) : StoreRight(After(e, V, k), O)
      /\ \A k \in 1..Len(V) : Moves(After(e, V, k - 1), After(e, V, k), O)
  BY DEF StorePasses, e
<1>9. ASSUME NEW k \in 0..Len(W) PROVE StoreRight(After(d, W, k), O)
  <2>1. CASE k <= n
    <3>1. k \in 0..n
      BY <1>4, <2>1
    <3> QED
      BY <1>5, <1>7, <3>1
  <2>2. CASE ~(k <= n)
    <3>1. k - n \in 0..Len(V) /\ k = n + (k - n)
      BY <1>4, <2>2
    <3>2. After(d, W, k) = After(e, V, k - n)
      BY <1>5, <3>1
    <3> QED
      BY <1>8, <3>1, <3>2
  <2> QED
    BY <2>1, <2>2
<1>10. ASSUME NEW k \in 1..Len(W) PROVE Moves(After(d, W, k - 1), After(d, W, k), O)
  <2>1. CASE k <= n
    <3>1. k \in 1..n /\ k \in 0..n /\ k - 1 \in 0..n
      BY <1>4, <2>1
    <3>2. After(d, W, k - 1) = After(d, U, k - 1) /\ After(d, W, k) = After(d, U, k)
      BY <1>5, <3>1
    <3> QED
      BY <1>7, <3>1, <3>2
  <2>2. CASE ~(k <= n)
    <3>1. /\ k - n \in 1..Len(V) /\ k - n \in 0..Len(V) /\ (k - n) - 1 \in 0..Len(V)
          /\ k = n + (k - n) /\ k - 1 = n + ((k - n) - 1)
      BY <1>4, <2>2
    <3>2. After(d, W, k) = After(e, V, k - n) /\ After(d, W, k - 1) = After(e, V, (k - n) - 1)
      BY <1>5, <3>1
    <3> QED
      BY <1>8, <3>1, <3>2
  <2> QED
    BY <2>1, <2>2
<1> QED
  BY <1>6, <1>9, <1>10 DEF StorePasses, W

\* Writes to sectors that are of no file and not the directory change nothing.
TargetsIn(W, R) == \A i \in 1..Len(W) : W[i][1] \in R
Spared(d, R, O) == 3 \notin R /\ \A s \in Ids(d, O) : Own(d, s) \cap R = {}

LEMMA StorePassesSpared ==
  ASSUME NEW d, NEW O, NEW W, NEW R, StoreRight(d, O), Passes(d, W),
         TargetsIn(W, R), Spared(d, R, O)
  PROVE  /\ StorePasses(d, W, O) /\ StoreRight(EndOf(d, W), O)
         /\ \A t \in Sectors \ R : EndOf(d, W)[t] = d[t]
         /\ RootOf(EndOf(d, W)) = RootOf(d) /\ Ids(EndOf(d, W), O) = Ids(d, O)
         /\ ContentOf(EndOf(d, W), O) = ContentOf(d, O)
<1>1. IsWrites(W) /\ Len(W) \in Nat
  BY DEF Passes, IsWrites
<1>2. ASSUME NEW k \in 0..Len(W), NEW t \in Sectors \ R PROVE After(d, W, k)[t] = d[t]
  <2>1. k \in Nat /\ \A i \in 1..k : W[i][1] # t
    BY <1>1 DEF TargetsIn
  <2> QED
    BY <2>1, AfterNone
<1>3. ASSUME NEW k \in 0..Len(W)
      PROVE  /\ StoreRight(After(d, W, k), O)
             /\ RootOf(After(d, W, k)) = RootOf(d) /\ ContentOf(After(d, W, k), O) = ContentOf(d, O)
             /\ Ids(After(d, W, k), O) = Ids(d, O)
  <2> DEFINE e == After(d, W, k)
  <2>1. DiskRight(e)
    BY DEF Passes
  <2>2. e[3] = d[3]
    BY <1>2, FirstSectors DEF Spared
  <2>3. ASSUME NEW s \in Ids(d, O), NEW t \in Own(d, s) PROVE e[t] = d[t]
    <3>1. t \in Sectors \ R
      BY DEF Spared, StoreRight, FilesOn
    <3> QED
      BY <1>2, <3>1
  <2> HIDE DEF e
  <2>4. Untouched(d, e, O)
    BY <2>2, <2>3 DEF Untouched
  <2>5. /\ StoreRight(e, O)
        /\ RootOf(e) = RootOf(d) /\ ContentOf(e, O) = ContentOf(d, O) /\ Ids(e, O) = Ids(d, O)
    BY <2>1, <2>4, StoreStays
  <2> QED
    BY <2>5 DEF e
<1>4. ASSUME NEW k \in 1..Len(W) PROVE Moves(After(d, W, k - 1), After(d, W, k), O)
  <2>1. k \in 0..Len(W) /\ k - 1 \in 0..Len(W)
    BY <1>1
  <2>2. /\ RootOf(After(d, W, k - 1)) = RootOf(d) /\ ContentOf(After(d, W, k - 1), O) = ContentOf(d, O)
        /\ RootOf(After(d, W, k)) = RootOf(d) /\ ContentOf(After(d, W, k), O) = ContentOf(d, O)
    BY <1>3, <2>1
  <2> QED
    BY <2>2 DEF Moves, StoreStep
<1>5. Len(W) \in 0..Len(W)
  BY <1>1
<1> QED
  BY <1>1, <1>2, <1>3, <1>4, <1>5 DEF StorePasses, EndOf

\* The first of the writes is done.
LEMMA StorePassesRest ==
  ASSUME NEW d, NEW W, NEW O, StorePasses(d, W, O), W # <<>>, d = [s \in Sectors |-> d[s]]
  PROVE  LET e == [d EXCEPT ![W[1][1]] = W[1][2]]
         IN  StorePasses(e, Tail(W), O) /\ Moves(d, e, O)
<1> DEFINE V == Tail(W)
           e == [d EXCEPT ![W[1][1]] = W[1][2]]
<1>1. IsWrites(W)
  BY DEF StorePasses
<1>2. /\ IsWrites(V) /\ Len(V) \in Nat /\ Len(W) = 1 + Len(V)
      /\ \A k \in 0..Len(V) : After(d, W, 1 + k) = After(e, V, k)
  BY <1>1, AfterTail
<1>3. e = [s \in Sectors |-> e[s]]
  OBVIOUS
<1> HIDE DEF V, e
<1>4. ASSUME NEW k \in 0..Len(V) PROVE StoreRight(After(e, V, k), O)
  <2>1. 1 + k \in 0..Len(W)
    BY <1>2
  <2>2. After(e, V, k) = After(d, W, 1 + k)
    BY <1>2
  <2> QED
    BY <2>1, <2>2 DEF StorePasses
<1>5. ASSUME NEW k \in 1..Len(V) PROVE Moves(After(e, V, k - 1), After(e, V, k), O)
  <2>1. 1 + k \in 1..Len(W) /\ k \in 0..Len(V) /\ k - 1 \in 0..Len(V) /\ (1 + k) - 1 = 1 + (k - 1)
    BY <1>2
  <2>2. After(e, V, k) = After(d, W, 1 + k) /\ After(e, V, k - 1) = After(d, W, (1 + k) - 1)
    BY <1>2, <2>1
  <2> QED
    BY <2>1, <2>2 DEF StorePasses
<1>6. Moves(d, e, O)
  <2>1. 0 \in 0..Len(V) /\ 1 \in 1..Len(W) /\ 1 + 0 = 1 /\ 1 - 1 = 0
    BY <1>2
  <2>2. After(d, W, 1) = After(e, V, 0) /\ After(d, W, 0) = d /\ After(e, V, 0) = e
    BY <1>2, <1>3, <2>1, AfterZero
  <2>3. Moves(After(d, W, 1 - 1), After(d, W, 1), O)
    BY <2>1 DEF StorePasses
  <2> QED
    BY <2>1, <2>2, <2>3
<1> QED
  BY <1>2, <1>4, <1>5, <1>6 DEF StorePasses, V, e

(***************************************************************************)
(* A name is written, or erased, in the directory.                         *)
(***************************************************************************)
LEMMA StepCreates ==
  ASSUME NEW r, NEW c, NEW q, NEW b,
         NEW n \in Names \ DOMAIN r, NEW f \in Sectors \ DOMAIN c, NEW len \in Sizes,
         q = [z \in DOMAIN r \cup {n} |-> IF z = n THEN f ELSE r[z]],
         b = [z \in DOMAIN c \cup {f} |-> IF z = f THEN [i \in 1..len |-> 0] ELSE c[z]]
  PROVE  StoreStep(r, c, q, b)
<1>1. Creates(r, c, q, b)
  <2>1. /\ n \in Names \ DOMAIN r /\ f \in Sectors \ DOMAIN c /\ len \in Sizes
    OBVIOUS
  <2> QED
    BY <2>1, Zenon DEF Creates
<1> QED
  BY <1>1 DEF StoreStep

LEMMA NameWritten ==
  ASSUME NEW d, NEW O, StoreRight(d, O), NEW i \in 1..DirEntries, ~DirOf(d)[i].in_use,
         NEW n \in Names \ NamesOn(d), NEW s \in Sectors \ Ids(d, O), NEW size \in Sizes,
         NEW start, d[s] = <<"inode", start, size>>,
         FilesOn(d, MapOf(d), Ids(d, O) \cup {s}),
         \A t \in Extent(start, size) : d[t] = <<"data", zeros>>
  PROVE  LET D == [DirOf(d) EXCEPT ![i] = [inode_sector |-> s, name |-> n, in_use |-> TRUE]]
             e == [d EXCEPT ![3] = <<"dir", D>>]
         IN  StoreRight(e, O) /\ Moves(d, e, O)
<1> DEFINE D == [DirOf(d) EXCEPT ![i] = [inode_sector |-> s, name |-> n, in_use |-> TRUE]]
           e == [d EXCEPT ![3] = <<"dir", D>>]
           L == Ids(d, O) \cup {s}
<1>1. DiskRight(d) /\ Layout(d) /\ DirOf(d) \in [1..DirEntries -> Entry]
  BY DEF StoreRight, DiskRight, Layout
<1>2. /\ D \in [1..DirEntries -> Entry]
      /\ D[i].inode_sector = s /\ D[i].name = n /\ D[i].in_use
      /\ \A j \in (1..DirEntries) \ {i} : D[j] = DirOf(d)[j]
  BY <1>1 DEF Entry
<1> HIDE DEF D
<1>3. \A j \in Used(d) : j \in 1..DirEntries /\ j # i /\ D[j] = DirOf(d)[j] /\ DirOf(d)[j].in_use
  BY <1>2 DEF Used
<1>4. {j \in 1..DirEntries : D[j].in_use} = Used(d) \cup {i}
  BY <1>2 DEF Used
<1>5. \A j \in Used(d) : DirOf(d)[j].inode_sector \in Named(d) /\ DirOf(d)[j].inode_sector # s
  BY DEF Named, Ids
<1>6. /\ DiskRight(e) /\ DirOf(e) = D
      /\ Named(e) = {D[j].inode_sector : j \in {j \in 1..DirEntries : D[j].in_use}}
      /\ \A t \in Sectors \ {3} : e[t] = d[t]
  <2>1. \A j \in 1..DirEntries : D[j].in_use => D[j].inode_sector \in L
    BY <1>2, <1>3, <1>4, <1>5 DEF Ids
  <2>2. \A j, k \in 1..DirEntries :
          D[j].in_use /\ D[k].in_use /\ j # k => D[j].inode_sector # D[k].inode_sector
    <3>1. ASSUME NEW j \in Used(d) \cup {i}, NEW k \in Used(d) \cup {i}, j # k
          PROVE  D[j].inode_sector # D[k].inode_sector
      BY <1>1, <1>2, <1>3, <1>5, <3>1 DEF DiskRight
    <3> QED
      BY <1>4, <3>1
  <2> HIDE DEF L, e
  <2>3. FilesOn(d, MapOf(d), L)
    BY DEF L
  <2> QED
    BY <1>1, <1>2, <2>1, <2>2, <2>3, DirWritten DEF e
<1>7. Used(e) = Used(d) \cup {i}
  BY <1>4, <1>6 DEF Used
<1>8. Named(e) = Named(d) \cup {s}
  <2>1. Named(e) = {D[j].inode_sector : j \in Used(d) \cup {i}}
    BY <1>4, <1>6
  <2>2. Named(d) = {D[j].inode_sector : j \in Used(d)}
    BY <1>3 DEF Named
  <2> QED
    BY <1>2, <2>1, <2>2
<1>9. Ids(e, O) = L
  BY <1>8 DEF Ids
<1> HIDE DEF e
<1>10. ASSUME NEW t \in L
       PROVE  /\ e[t] = d[t] /\ Own(d, t) \subseteq Sectors \ (0..3)
              /\ d[t][2] \in Nat /\ d[t][3] \in Nat /\ Own(e, t) = Own(d, t)
              /\ \A u \in Own(d, t) : e[u] = d[u]
  <2>1. t \in Sectors /\ t \in Own(d, t) /\ Own(d, t) \subseteq MapOf(d) \ (0..3)
        /\ d[t][2] \in Nat /\ d[t][3] \in Nat
    BY DEF FilesOn, Own
  <2>2. Own(d, t) \subseteq Sectors \ (0..3)
    BY <1>1, <2>1 DEF Layout
  <2>3. \A u \in Own(d, t) : e[u] = d[u]
    BY <1>6, <2>2
  <2> QED
    BY <2>1, <2>2, <2>3 DEF Own
<1> HIDE DEF L
<1>11. FilesOn(e, Sectors, L)
  <2>1. FilesOn(d, MapOf(d), L) /\ L \subseteq L
    BY DEF L
  <2>2. Keeps(d, e, L, Sectors)
    BY <1>10 DEF Keeps
  <2> QED
    BY <2>1, <2>2, FilesStay
<1>12. \A t \in L : \A u \in Extent(e[t][2], e[t][3]) : IsData(e[u])
  <2>1. TAKE t \in L
  <2>2. TAKE u \in Extent(e[t][2], e[t][3])
  <2>3. u \in Own(d, t) /\ u \in Extent(d[t][2], d[t][3]) /\ e[u] = d[u]
    BY <1>10 DEF Own
  <2>4. CASE t \in Ids(d, O)
    BY <2>3, <2>4 DEF StoreRight
  <2>5. CASE t = s
    <3>1. d[u] = <<"data", zeros>>
      BY <2>3, <2>5
    <3> QED
      BY <2>3, <3>1 DEF IsData, zeros
  <2> QED
    BY <2>4, <2>5 DEF L
<1>13. StoreRight(e, O)
  <2>1. \A j \in Used(e) : DirOf(e)[j].name \in Names
    BY <1>2, <1>3, <1>6, <1>7 DEF StoreRight
  <2>2. ASSUME NEW j \in Used(e), NEW k \in Used(e), DirOf(e)[j].name = DirOf(e)[k].name
        PROVE  j = k
    <3>1. \A l \in Used(d) : DirOf(e)[l].name = DirOf(d)[l].name /\ DirOf(d)[l].name # n
      BY <1>3, <1>6 DEF NamesOn
    <3> QED
      BY <1>2, <1>6, <1>7, <2>2, <3>1 DEF StoreRight
  <2> QED
    BY <1>6, <1>9, <1>11, <1>12, <2>1, <2>2 DEF StoreRight
<1>14. RootOf(e) = [z \in DOMAIN RootOf(d) \cup {n} |-> IF z = n THEN s ELSE RootOf(d)[z]]
  <2>1. /\ DOMAIN RootOf(e) = NamesOn(e) /\ DOMAIN RootOf(d) = NamesOn(d)
        /\ \A j \in Used(e) : RootOf(e)[DirOf(e)[j].name] = DirOf(e)[j].inode_sector
        /\ \A j \in Used(d) : RootOf(d)[DirOf(d)[j].name] = DirOf(d)[j].inode_sector
    BY <1>13, RootIs
  <2>2. NamesOn(e) = NamesOn(d) \cup {n}
    BY <1>2, <1>3, <1>6, <1>7 DEF NamesOn
  <2>3. ASSUME NEW z \in NamesOn(e)
        PROVE  RootOf(e)[z] = IF z = n THEN s ELSE RootOf(d)[z]
    <3>1. PICK j \in Used(e) : z = DirOf(e)[j].name
      BY DEF NamesOn
    <3>2. CASE j = i
      BY <1>2, <1>6, <2>1, <3>1, <3>2
    <3>3. CASE j # i
      <4>1. j \in Used(d) /\ DirOf(e)[j] = DirOf(d)[j]
        BY <1>3, <1>6, <1>7, <3>1, <3>3
      <4>2. z # n
        BY <3>1, <4>1 DEF NamesOn
      <4> QED
        BY <2>1, <3>1, <4>1, <4>2
    <3> QED
      BY <3>2, <3>3
  <2>4. RootOf(e) = [z \in NamesOn(e) |-> RootOf(e)[z]]
    BY DEF RootOf
  <2> QED
    BY <2>1, <2>2, <2>3, <2>4
<1>15. ContentOf(e, O) = [z \in DOMAIN ContentOf(d, O) \cup {s} |->
                            IF z = s THEN [k \in 1..size |-> 0] ELSE ContentOf(d, O)[z]]
  <2>1. ASSUME NEW t \in Ids(d, O) PROVE BytesOf(e, t) = BytesOf(d, t) /\ t # s
    <3>1. t \in L /\ t # s
      BY DEF L
    <3>2. ASSUME NEW k \in 1..d[t][3]
          PROVE  LET u == d[t][2] + (k - 1) \div BLOCK_SECTOR_SIZE IN e[u] = d[u]
      <4>1. d[t][2] + (k - 1) \div BLOCK_SECTOR_SIZE \in Own(d, t)
        BY <1>10, <3>1, ByteInExtent DEF Own
      <4> QED
        BY <1>10, <3>1, <4>1
    <3>3. e[t] = d[t]
      BY <1>10, <3>1
    <3> QED
      BY <3>1, <3>2, <3>3 DEF BytesOf
  <2>2. BytesOf(e, s) = [k \in 1..size |-> 0]
    <3>1. e[s] = <<"inode", start, size>> /\ start \in Nat /\ size \in Nat
      BY <1>10 DEF L
    <3>2. ASSUME NEW k \in 1..size
          PROVE  e[start + (k - 1) \div BLOCK_SECTOR_SIZE][2][((k - 1) % BLOCK_SECTOR_SIZE) + 1] = 0
      <4> DEFINE u == start + (k - 1) \div BLOCK_SECTOR_SIZE
                 b == ((k - 1) % BLOCK_SECTOR_SIZE) + 1
      <4>1. u \in Extent(start, size) /\ b \in 1..BLOCK_SECTOR_SIZE
        BY <3>1, ByteInExtent
      <4> HIDE DEF u, b
      <4>2. u \in Own(d, s) /\ s \in L
        BY <4>1 DEF Own, L
      <4>3. e[u] = <<"data", zeros>>
        BY <1>10, <4>1, <4>2
      <4>4. e[u][2][b] = 0
        BY <4>1, <4>3 DEF zeros
      <4> QED
        BY <4>4 DEF u, b
    <3> QED
      BY <3>1, <3>2 DEF BytesOf
  <2> QED
    BY <1>9, <2>1, <2>2 DEF ContentOf, L
<1>16. StoreStep(RootOf(d), ContentOf(d, O), RootOf(e), ContentOf(e, O))
  <2> DEFINE r == RootOf(d)
             c == ContentOf(d, O)
             q == RootOf(e)
             b == ContentOf(e, O)
  <2>1. n \in Names \ DOMAIN r /\ s \in Sectors \ DOMAIN c
    BY DEF RootOf, ContentOf
  <2>2. /\ q = [z \in DOMAIN r \cup {n} |-> IF z = n THEN s ELSE r[z]]
        /\ b = [z \in DOMAIN c \cup {s} |-> IF z = s THEN [k \in 1..size |-> 0] ELSE c[z]]
    BY <1>14, <1>15
  <2> HIDE DEF r, c, q, b
  <2>3. StoreStep(r, c, q, b)
    BY <2>1, <2>2, StepCreates
  <2> QED
    BY <2>3 DEF r, c, q, b
<1> QED
  BY <1>13, <1>16 DEF Moves, e, D

LEMMA StepRemoves ==
  ASSUME NEW r, NEW c, NEW q, NEW b, NEW n \in DOMAIN r,
         q = [z \in DOMAIN r \ {n} |-> r[z]],
         b = c \/ b = [z \in DOMAIN c \ {r[n]} |-> c[z]]
  PROVE  StoreStep(r, c, q, b)
<1>1. Removes(r, c, q, b)
  BY DEF Removes
<1> QED
  BY <1>1 DEF StoreStep

\* A file whose sectors are as they were has the same bytes.
LEMMA BytesStay ==
  ASSUME NEW d, NEW e, NEW s, d[s][2] \in Nat, d[s][3] \in Nat, \A t \in Own(d, s) : e[t] = d[t]
  PROVE  BytesOf(e, s) = BytesOf(d, s) /\ Own(e, s) = Own(d, s)
<1>1. e[s] = d[s]
  BY DEF Own
<1>2. ASSUME NEW k \in 1..d[s][3]
      PROVE  LET u == d[s][2] + (k - 1) \div BLOCK_SECTOR_SIZE IN e[u] = d[u]
  BY ByteInExtent DEF Own
<1> QED
  BY <1>1, <1>2 DEF BytesOf, Own

\* The directory D names only files among L, each once.
Lists(D, L) ==
  /\ \A i \in 1..DirEntries : D[i].in_use => D[i].inode_sector \in L
  /\ \A i, j \in 1..DirEntries :
       D[i].in_use /\ D[j].in_use /\ i # j => D[i].inode_sector # D[j].inode_sector
HasDir(d, e, D) ==
  /\ DiskRight(e) /\ DirOf(e) = D
  /\ Named(e) = {D[i].inode_sector : i \in {j \in 1..DirEntries : D[j].in_use}}
  /\ \A t \in Sectors \ {3} : e[t] = d[t]

LEMMA DirReplaced ==
  ASSUME NEW d, DiskRight(d), NEW D \in [1..DirEntries -> Entry], NEW L,
         FilesOn(d, MapOf(d), L), Lists(D, L)
  PROVE  HasDir(d, [d EXCEPT ![3] = <<"dir", D>>], D)
<1>1. /\ \A i \in 1..DirEntries : D[i].in_use => D[i].inode_sector \in L
      /\ \A i, j \in 1..DirEntries :
           D[i].in_use /\ D[j].in_use /\ i # j => D[i].inode_sector # D[j].inode_sector
  BY DEF Lists
<1>2. LET e == [d EXCEPT ![3] = <<"dir", D>>]
      IN  /\ DiskRight(e) /\ MapOf(e) = MapOf(d) /\ DirOf(e) = D
          /\ Named(e) = {D[i].inode_sector : i \in {j \in 1..DirEntries : D[j].in_use}}
          /\ \A t \in Sectors \ {3} : e[t] = d[t]
  BY <1>1, DirWritten
<1> QED
  BY <1>2 DEF HasDir

LEMMA NameErased ==
  ASSUME NEW d, NEW O, StoreRight(d, O), NEW i \in Used(d)
  PROVE  LET D == [DirOf(d) EXCEPT ![i] = [DirOf(d)[i] EXCEPT !.in_use = FALSE]]
             e == [d EXCEPT ![3] = <<"dir", D>>]
         IN  StoreRight(e, O) /\ Moves(d, e, O)
<1> DEFINE D == [DirOf(d) EXCEPT ![i] = [DirOf(d)[i] EXCEPT !.in_use = FALSE]]
           e == [d EXCEPT ![3] = <<"dir", D>>]
           n == DirOf(d)[i].name
           s == DirOf(d)[i].inode_sector
           L == Named(d)
<1>1. /\ DiskRight(d) /\ Layout(d) /\ DirOf(d) \in [1..DirEntries -> Entry]
      /\ i \in 1..DirEntries /\ FilesOn(d, MapOf(d), L)
  BY DEF StoreRight, DiskRight, Layout, Used
<1>2. /\ D \in [1..DirEntries -> Entry] /\ ~D[i].in_use
      /\ \A j \in (1..DirEntries) \ {i} : D[j] = DirOf(d)[j]
  BY <1>1 DEF Entry
<1> HIDE DEF D
<1>3. {j \in 1..DirEntries : D[j].in_use} = Used(d) \ {i}
  BY <1>2 DEF Used
<1>4. \A j \in Used(d) \ {i} : /\ j \in 1..DirEntries /\ D[j] = DirOf(d)[j] /\ DirOf(d)[j].in_use
                              /\ D[j].inode_sector \in L /\ D[j].inode_sector # s
  BY <1>1, <1>2 DEF Used, Named, DiskRight
<1>5. /\ DiskRight(e) /\ DirOf(e) = D
      /\ Named(e) = {D[j].inode_sector : j \in {j \in 1..DirEntries : D[j].in_use}}
      /\ \A t \in Sectors \ {3} : e[t] = d[t]
  <2>1. \A j \in 1..DirEntries : D[j].in_use => D[j].inode_sector \in L
    BY <1>3, <1>4
  <2>2. \A j, k \in 1..DirEntries :
          D[j].in_use /\ D[k].in_use /\ j # k => D[j].inode_sector # D[k].inode_sector
    <3>1. ASSUME NEW j \in Used(d) \ {i}, NEW k \in Used(d) \ {i}, j # k
          PROVE  D[j].inode_sector # D[k].inode_sector
      BY <1>1, <1>4, <3>1 DEF DiskRight
    <3> QED
      BY <1>3, <3>1
  <2>3. DiskRight(d) /\ FilesOn(d, MapOf(d), L) /\ D \in [1..DirEntries -> Entry]
    BY <1>1, <1>2
  <2>4. Lists(D, L)
    BY <2>1, <2>2 DEF Lists
  <2> HIDE DEF L, e
  <2>5. HasDir(d, e, D)
    BY <2>3, <2>4, DirReplaced DEF e
  <2> QED
    BY <2>5 DEF HasDir
<1>6. Used(e) = Used(d) \ {i}
  BY <1>3, <1>5 DEF Used
<1>7. Named(e) = L \ {s}
  <2>1. Named(e) = {D[j].inode_sector : j \in Used(d) \ {i}}
    BY <1>3, <1>5
  <2>2. ASSUME NEW u \in L \ {s} PROVE u \in Named(e)
    <3>1. PICK j \in Used(d) : u = DirOf(d)[j].inode_sector
      BY DEF Named
    <3>2. j \in Used(d) \ {i}
      BY <3>1
    <3> QED
      BY <1>4, <2>1, <3>1, <3>2
  <2>3. ASSUME NEW u \in Named(e) PROVE u \in L \ {s}
    <3>1. PICK j \in Used(d) \ {i} : u = D[j].inode_sector
      BY <2>1
    <3> QED
      BY <1>4, <3>1
  <2> HIDE DEF L, s
  <2> QED
    BY <2>2, <2>3
<1> HIDE DEF e
<1>8. Ids(e, O) \subseteq Ids(d, O) /\ Ids(e, O) \in {Ids(d, O), Ids(d, O) \ {s}}
  BY <1>7 DEF Ids
<1>9. ASSUME NEW t \in Ids(d, O)
      PROVE  /\ e[t] = d[t] /\ Own(d, t) \subseteq Sectors \ (0..3)
             /\ d[t][2] \in Nat /\ d[t][3] \in Nat
             /\ \A u \in Own(d, t) : e[u] = d[u]
  <2>1. t \in Own(d, t) /\ Own(d, t) \subseteq Sectors \ (0..3) /\ d[t][2] \in Nat /\ d[t][3] \in Nat
    BY DEF StoreRight, FilesOn, Own
  <2>2. \A u \in Own(d, t) : e[u] = d[u]
    BY <1>5, <2>1
  <2> QED
    BY <2>1, <2>2
<1>10. FilesOn(e, Sectors, Ids(e, O))
  <2> DEFINE K == Ids(e, O)
             M == Ids(d, O)
  <2>1. FilesOn(d, Sectors, M) /\ K \subseteq M
    BY <1>8 DEF StoreRight
  <2>2. Keeps(d, e, K, Sectors)
    BY <1>8, <1>9 DEF Keeps
  <2> HIDE DEF K, M
  <2>3. FilesOn(e, Sectors, K)
    BY <2>1, <2>2, FilesStay
  <2> QED
    BY <2>3 DEF K
<1>11. \A t \in Ids(e, O) : \A u \in Extent(e[t][2], e[t][3]) : IsData(e[u])
  <2>1. TAKE t \in Ids(e, O)
  <2>2. TAKE u \in Extent(e[t][2], e[t][3])
  <2>3. t \in Ids(d, O) /\ u \in Own(d, t) /\ u \in Extent(d[t][2], d[t][3]) /\ e[u] = d[u]
    BY <1>8, <1>9 DEF Own
  <2> QED
    BY <2>3 DEF StoreRight
<1>12. StoreRight(e, O)
  <2>1. \A j \in Used(e) : j \in Used(d) /\ DirOf(e)[j] = DirOf(d)[j]
    BY <1>4, <1>5, <1>6
  <2> QED
    BY <1>5, <1>10, <1>11, <2>1 DEF StoreRight
<1>13. RootOf(e) = [z \in DOMAIN RootOf(d) \ {n} |-> RootOf(d)[z]]
  <2>1. /\ DOMAIN RootOf(e) = NamesOn(e) /\ DOMAIN RootOf(d) = NamesOn(d)
        /\ \A j \in Used(e) : RootOf(e)[DirOf(e)[j].name] = DirOf(e)[j].inode_sector
        /\ \A j \in Used(d) : RootOf(d)[DirOf(d)[j].name] = DirOf(d)[j].inode_sector
    BY <1>12, RootIs
  <2>2. ASSUME NEW j \in Used(e)
        PROVE  j \in Used(d) /\ j # i /\ DirOf(e)[j] = DirOf(d)[j] /\ DirOf(d)[j].name # n
    BY <1>4, <1>5, <1>6 DEF StoreRight
  <2>3. ASSUME NEW z \in NamesOn(d) \ {n} PROVE z \in NamesOn(e)
    <3>1. PICK j \in Used(d) : z = DirOf(d)[j].name
      BY DEF NamesOn
    <3>2. j \in Used(e)
      BY <1>6, <3>1
    <3> QED
      BY <2>2, <3>1, <3>2 DEF NamesOn
  <2>4. NamesOn(e) = NamesOn(d) \ {n}
    BY <2>2, <2>3 DEF NamesOn
  <2>5. ASSUME NEW z \in NamesOn(e) PROVE RootOf(e)[z] = RootOf(d)[z]
    <3>1. PICK j \in Used(e) : z = DirOf(e)[j].name
      BY DEF NamesOn
    <3> QED
      BY <2>1, <2>2, <3>1
  <2>6. RootOf(e) = [z \in NamesOn(e) |-> RootOf(e)[z]]
    BY DEF RootOf
  <2> QED
    BY <2>1, <2>4, <2>5, <2>6
<1>14. n \in DOMAIN RootOf(d) /\ RootOf(d)[n] = s
  BY RootIs DEF NamesOn
<1>15. \/ ContentOf(e, O) = ContentOf(d, O)
       \/ ContentOf(e, O) = [z \in DOMAIN ContentOf(d, O) \ {s} |-> ContentOf(d, O)[z]]
  <2>1. \A t \in Ids(e, O) : t \in Ids(d, O) /\ BytesOf(e, t) = BytesOf(d, t)
    <3>1. TAKE t \in Ids(e, O)
    <3>2. t \in Ids(d, O)
      BY <1>8
    <3> QED
      BY <1>9, <3>2, BytesStay
  <2>2. CASE Ids(e, O) = Ids(d, O)
    BY <2>1, <2>2 DEF ContentOf
  <2>3. CASE Ids(e, O) = Ids(d, O) \ {s}
    BY <2>1, <2>3 DEF ContentOf
  <2> QED
    BY <1>8, <2>2, <2>3
<1>16. StoreStep(RootOf(d), ContentOf(d, O), RootOf(e), ContentOf(e, O))
  <2> DEFINE r == RootOf(d)
             c == ContentOf(d, O)
             q == RootOf(e)
             b == ContentOf(e, O)
  <2>1. /\ n \in DOMAIN r /\ q = [z \in DOMAIN r \ {n} |-> r[z]]
        /\ b = c \/ b = [z \in DOMAIN c \ {r[n]} |-> c[z]]
    BY <1>13, <1>14, <1>15
  <2> HIDE DEF r, c, q, b, n
  <2>2. StoreStep(r, c, q, b)
    BY <2>1, StepRemoves
  <2> QED
    BY <2>2 DEF r, c, q, b
<1> QED
  BY <1>12, <1>16 DEF Moves, e, D

(***************************************************************************)
(* Bytes are written to a file.                                            *)
(***************************************************************************)
LEMMA StepWrites ==
  ASSUME NEW r, NEW c, NEW q, NEW b, NEW f \in DOMAIN c, NEW lo \in DOMAIN c[f], NEW hi \in DOMAIN c[f],
         b = [c EXCEPT ![f] = [i \in DOMAIN @ |-> IF i \in lo..hi THEN 1 ELSE @[i]]], q = r
  PROVE  StoreStep(r, c, q, b)
<1>1. Writes(r, c, q, b)
  BY DEF Writes
<1> QED
  BY <1>1 DEF StoreStep

\* The chunk is what lies between two bytes of the file, in one sector.
LEMMA InChunk ==
  ASSUME NEW offset \in Nat, NEW n \in Nat, (offset % BLOCK_SECTOR_SIZE) + n <= BLOCK_SECTOR_SIZE,
         NEW k \in Nat
  PROVE  k \in offset .. offset + n - 1 <=>
           /\ k \div BLOCK_SECTOR_SIZE = offset \div BLOCK_SECTOR_SIZE
           /\ k % BLOCK_SECTOR_SIZE \in (offset % BLOCK_SECTOR_SIZE) ..
                                          (offset % BLOCK_SECTOR_SIZE) + n - 1
<1> DEFINE B == BLOCK_SECTOR_SIZE
           q == offset \div B
           r == offset % B
           p == k \div B
           m == k % B
<1>1. B \in Nat \ {0}
  BY FilesysAssumption
<1>2. r + n <= B
  OBVIOUS
<1>3. ASSUME k \in offset .. offset + n - 1 PROVE p = q /\ m \in r .. r + n - 1
  <2>1. k - offset \in Nat /\ k = offset + (k - offset) /\ k - offset < n
    BY <1>3
  <2>2. r \in Nat
    BY <1>1
  <2>3. r + (k - offset) < B
    BY <1>1, <1>2, <2>1, <2>2
  <2>4. p = q /\ m = r + (k - offset)
    BY <2>1, <2>3, ByteOfChunk
  <2> HIDE DEF r, p, q, m
  <2> QED
    BY <2>1, <2>2, <2>4
<1> HIDE DEF B
<1>4. /\ q \in Nat /\ r \in Nat /\ offset = B * q + r
      /\ p \in Nat /\ m \in Nat /\ k = B * p + m
  BY <1>1
<1> HIDE DEF q, r, p, m
<1>5. ASSUME p = q, m \in r .. r + n - 1 PROVE k \in offset .. offset + n - 1
  <2>1. B * q \in Nat
    BY <1>1, <1>4
  <2>2. k = B * q + m
    BY <1>4, <1>5
  <2> QED
    BY <1>4, <1>5, <2>1, <2>2
<1> QED
  BY <1>3, <1>5 DEF B, q, r, p, m

Chunk(d, f, offset, n) ==
  /\ offset \in Nat /\ n \in Nat \ {0} /\ offset + n <= d[f][3]
  /\ (offset % BLOCK_SECTOR_SIZE) + n <= BLOCK_SECTOR_SIZE
SectorAt(d, f, offset) == d[f][2] + offset \div BLOCK_SECTOR_SIZE
WithChunk(d, f, offset, n) ==
  LET t == SectorAt(d, f, offset)
  IN  [d EXCEPT ![t] = <<"data", overwritten(d[t][2], offset % BLOCK_SECTOR_SIZE, n, 1)>>]

LEMMA ChunkWritten ==
  ASSUME NEW d, NEW O, StoreRight(d, O), NEW f \in Ids(d, O), NEW offset, NEW n, Chunk(d, f, offset, n)
  PROVE  LET e == WithChunk(d, f, offset, n)
             t == SectorAt(d, f, offset)
         IN  /\ StoreRight(e, O) /\ Moves(d, e, O)
             /\ t \in Sectors \ (0..3) /\ t # f /\ Ids(e, O) = Ids(d, O)
             /\ e[f] = d[f] /\ \A u \in Sectors \ {t} : e[u] = d[u]
<1> DEFINE B == BLOCK_SECTOR_SIZE
           t == SectorAt(d, f, offset)
           ofs == offset % B
           c == <<"data", overwritten(d[t][2], ofs, n, 1)>>
           e == [d EXCEPT ![t] = c]
           start == d[f][2]
           length == d[f][3]
           L == Ids(d, O)
<1>1. DiskRight(d) /\ FilesOn(d, Sectors, L)
  BY DEF StoreRight
<1>2. ASSUME NEW s \in L
      PROVE  /\ s \in Sectors /\ s \in Own(d, s) /\ Own(d, s) \subseteq Sectors \ (0..3)
             /\ d[s][2] \in Nat /\ d[s][3] \in Nat /\ s \notin Extent(d[s][2], d[s][3])
             /\ \A r \in L : s # r => Own(d, s) \cap Own(d, r) = {}
  BY <1>1 DEF FilesOn, Own
<1>3. offset \in Nat /\ n \in Nat \ {0} /\ offset + n <= length /\ start \in Nat /\ length \in Nat
  BY <1>2 DEF Chunk
<1>4. t \in Extent(start, length)
  <2>1. offset + 1 \in 1..length /\ (offset + 1) - 1 = offset
    BY <1>3
  <2>2. start + ((offset + 1) - 1) \div B \in Extent(start, length)
    BY <1>3, <2>1, ByteInExtent
  <2> QED
    BY <2>1, <2>2 DEF SectorAt
<1>5. t \in Own(d, f) /\ t # f /\ t \in Sectors \ (0..3) /\ \A s \in L \ {f} : t \notin Own(d, s)
  BY <1>2, <1>4 DEF Own
<1>6. \A s \in L : t # s
  BY <1>2, <1>5
<1>7. IsData(d[t])
  BY <1>4 DEF StoreRight
<1>8. IsData(c) /\ \A b \in 1..B : c[2][b] = IF b \in ofs + 1 .. ofs + n THEN 1 ELSE d[t][2][b]
  BY <1>7 DEF IsData, overwritten
<1> HIDE DEF c, t
<1>9. /\ DiskRight(e) /\ DirOf(e) = DirOf(d) /\ Named(e) = Named(d)
      /\ e[t] = c /\ \A u \in Sectors \ {t} : e[u] = d[u]
  <2>1. t \notin Named(d) /\ c[1] \in Tags
    BY <1>6, <1>8 DEF Ids, IsData, Tags
  <2> QED
    BY <1>1, <1>5, <2>1, SectorWritten
<1> HIDE DEF e
<1>10. Used(e) = Used(d) /\ Ids(e, O) = L
  BY <1>9 DEF Used, Ids
<1>11. ASSUME NEW s \in L
       PROVE  e[s] = d[s] /\ Own(e, s) = Own(d, s) /\ \A u \in Own(d, s) \ {t} : e[u] = d[u]
  BY <1>2, <1>6, <1>9 DEF Own
<1>12. FilesOn(e, Sectors, L)
  <2>1. Keeps(d, e, L, Sectors)
    BY <1>2, <1>11 DEF Keeps
  <2> HIDE DEF L
  <2> QED
    BY <1>1, <2>1, FilesStay
<1>13. \A s \in L : \A u \in Extent(e[s][2], e[s][3]) : IsData(e[u])
  <2>1. TAKE s \in L
  <2>2. TAKE u \in Extent(e[s][2], e[s][3])
  <2>3. u \in Extent(d[s][2], d[s][3]) /\ u \in Own(d, s)
    BY <1>11 DEF Own
  <2> QED
    BY <1>8, <1>9, <1>11, <2>3 DEF StoreRight
<1>14. StoreRight(e, O)
  BY <1>9, <1>10, <1>12, <1>13 DEF StoreRight
<1>15. RootOf(e) = RootOf(d)
  BY <1>9, <1>10 DEF RootOf, NamesOn, EntriesOf
<1>16. \A s \in L \ {f} : BytesOf(e, s) = BytesOf(d, s)
  <2>1. TAKE s \in L \ {f}
  <2>2. s \in L /\ d[s][2] \in Nat /\ d[s][3] \in Nat /\ \A u \in Own(d, s) : e[u] = d[u]
    BY <1>2, <1>5, <1>11
  <2> QED
    BY <2>2, BytesStay
<1> DEFINE lo == offset + 1
           hi == offset + n
<1>17. BytesOf(e, f) = [k \in DOMAIN BytesOf(d, f) |->
                          IF k \in lo..hi THEN 1 ELSE BytesOf(d, f)[k]]
  <2>1. DOMAIN BytesOf(d, f) = 1..length /\ e[f] = d[f]
    BY <1>11 DEF BytesOf
  <2>2. ASSUME NEW k \in 1..length
        PROVE  BytesOf(e, f)[k] = IF k \in lo..hi THEN 1 ELSE BytesOf(d, f)[k]
    <3> DEFINE u == start + (k - 1) \div B
               b == ((k - 1) % B) + 1
    <3>1. BytesOf(e, f)[k] = e[u][2][b] /\ BytesOf(d, f)[k] = d[u][2][b]
      BY <2>1 DEF BytesOf
    <3>2. u \in Own(d, f) /\ u \in Sectors /\ b \in 1..B
      BY <1>2, <1>3, ByteInExtent DEF Own
    <3>3. k - 1 \in Nat /\ B \in Nat \ {0} /\ ofs \in Nat /\ (k - 1) \div B \in Nat /\ (k - 1) % B \in Nat
          /\ offset \div B \in Nat
      BY <1>3, FilesysAssumption
    <3>4. k - 1 \in offset .. offset + n - 1 <=>
            (k - 1) \div B = offset \div B /\ (k - 1) % B \in ofs .. ofs + n - 1
      <4>1. ofs + n <= B
        BY DEF Chunk
      <4> QED
        BY <1>3, <3>3, <4>1, InChunk
    <3>5. k \in lo..hi <=> k - 1 \in offset .. offset + n - 1
      BY <1>3
    <3>6. b \in ofs + 1 .. ofs + n <=> (k - 1) % B \in ofs .. ofs + n - 1
      BY <1>3, <3>3
    <3>7. u = t <=> (k - 1) \div B = offset \div B
      BY <1>3, <3>3 DEF t, SectorAt
    <3> HIDE DEF u, b, lo, hi, ofs
    <3>8. CASE u = t
      BY <1>8, <1>9, <3>1, <3>2, <3>4, <3>5, <3>6, <3>7, <3>8
    <3>9. CASE u # t
      BY <1>9, <3>1, <3>2, <3>4, <3>5, <3>7, <3>9
    <3> QED
      BY <3>8, <3>9
  <2>3. BytesOf(e, f) = [k \in 1..length |-> BytesOf(e, f)[k]]
    BY <2>1 DEF BytesOf
  <2> HIDE DEF lo, hi, length
  <2> QED
    BY <2>1, <2>2, <2>3
<1>18. StoreStep(RootOf(d), ContentOf(d, O), RootOf(e), ContentOf(e, O))
  <2> DEFINE r == RootOf(d)
             g == ContentOf(d, O)
             q == RootOf(e)
             b == ContentOf(e, O)
  <2>1. f \in DOMAIN g /\ g[f] = BytesOf(d, f) /\ DOMAIN g = L
    BY DEF ContentOf
  <2>2. lo \in DOMAIN g[f] /\ hi \in DOMAIN g[f]
    BY <1>3, <2>1 DEF BytesOf
  <2>3. b = [g EXCEPT ![f] = [i \in DOMAIN @ |-> IF i \in lo..hi THEN 1 ELSE @[i]]]
    <3>1. b = [s \in L |-> BytesOf(e, s)] /\ g = [s \in L |-> BytesOf(d, s)]
      BY <1>10 DEF ContentOf
    <3> HIDE DEF b, g, L, lo, hi
    <3> QED
      BY <1>16, <1>17, <3>1
  <2>4. q = r
    BY <1>15
  <2> HIDE DEF r, g, q, b, lo, hi
  <2>5. StoreStep(r, g, q, b)
    BY <2>1, <2>2, <2>3, <2>4, StepWrites
  <2> QED
    BY <2>5 DEF r, g, q, b
<1>19. StoreRight(e, O) /\ Moves(d, e, O) /\ Ids(e, O) = Ids(d, O) /\ e[f] = d[f]
  BY <1>10, <1>11, <1>14, <1>18 DEF Moves
<1> QED
  BY <1>5, <1>9, <1>19 DEF e, c, t, WithChunk

\* After a chunk that ends with its sector the file goes on in another one.
LEMMA NextSector ==
  ASSUME NEW offset \in Nat, NEW n \in Nat, (offset % BLOCK_SECTOR_SIZE) + n = BLOCK_SECTOR_SIZE,
         NEW p \in Nat, p >= offset + n
  PROVE  p \div BLOCK_SECTOR_SIZE # offset \div BLOCK_SECTOR_SIZE
<1> DEFINE B == BLOCK_SECTOR_SIZE
           q == offset \div B
           r == offset % B
           m == p % B
<1>1. B \in Nat \ {0}
  BY FilesysAssumption
<1>2. r + n = B
  OBVIOUS
<1>3. ASSUME p \div B = q PROVE FALSE
  <2>1. /\ q \in Nat /\ r \in Nat /\ offset = B * q + r
        /\ m \in Nat /\ m < B /\ p = B * q + m
    BY <1>1, <1>3
  <2> HIDE DEF q, r, m, B
  <2>2. B * q \in Nat
    BY <1>1, <2>1
  <2> QED
    BY <1>1, <1>2, <2>1, <2>2
<1> QED
  BY <1>3

\* The disk e has the file f where d has it, and the same bytes from the sector
\* of offset on.
SameFrom(d, e, f, O, offset) ==
  /\ StoreRight(e, O) /\ f \in Ids(e, O) /\ e[f] = d[f]
  /\ \A p \in Nat : p >= offset /\ p < d[f][3] =>
       LET t == d[f][2] + p \div BLOCK_SECTOR_SIZE IN e[t] = d[t]

\* Where the loop of inode_write_at writes next.
OneChunk(d, f, offset, n) ==
  LET t == SectorAt(d, f, offset)
  IN  << <<t, <<"data", overwritten(d[t][2], offset % BLOCK_SECTOR_SIZE, n, 1)>> >> >>

LEMMA ChunkPasses ==
  ASSUME NEW d, NEW e, NEW O, NEW f, NEW offset \in Nat, NEW n, SameFrom(d, e, f, O, offset),
         Chunk(d, f, offset, n), d[f][2] \in Nat, d[f][3] \in Nat
  PROVE  LET W == OneChunk(d, f, offset, n)
         IN  /\ StorePasses(e, W, O) /\ StoreRight(EndOf(e, W), O)
             /\ (offset % BLOCK_SECTOR_SIZE) + n = BLOCK_SECTOR_SIZE \/ offset + n = d[f][3]
                  => SameFrom(d, EndOf(e, W), f, O, offset + n)
<1> DEFINE B == BLOCK_SECTOR_SIZE
           t == SectorAt(d, f, offset)
           c == <<"data", overwritten(d[t][2], offset % B, n, 1)>>
           g == [e EXCEPT ![t] = c]
           W == << <<t, c>> >>
<1>1. /\ offset \in Nat /\ n \in Nat \ {0} /\ offset + n <= d[f][3] /\ (offset % B) + n <= B
  BY DEF Chunk
<1>2. /\ StoreRight(e, O) /\ f \in Ids(e, O) /\ e[f] = d[f]
  BY DEF SameFrom
<1>3. e[t] = d[t] /\ t = SectorAt(e, f, offset) /\ Chunk(e, f, offset, n)
  <2>1. offset >= offset /\ offset < d[f][3]
    BY <1>1
  <2>2. e[t] = d[t]
    BY <2>1 DEF SameFrom, SectorAt
  <2> QED
    BY <1>2, <2>2 DEF SectorAt, Chunk
<1>4. g = WithChunk(e, f, offset, n)
  BY <1>3 DEF WithChunk
<1> HIDE DEF c, t
<1>5. /\ StoreRight(g, O) /\ Moves(e, g, O)
      /\ t \in Sectors \ (0..3) /\ t # f /\ Ids(g, O) = Ids(e, O)
      /\ g[f] = e[f] /\ \A u \in Sectors \ {t} : g[u] = e[u]
  <2>1. LET h == WithChunk(e, f, offset, n)
            u == SectorAt(e, f, offset)
        IN  /\ StoreRight(h, O) /\ Moves(e, h, O)
            /\ u \in Sectors \ (0..3) /\ u # f /\ Ids(h, O) = Ids(e, O)
            /\ h[f] = e[f] /\ \A v \in Sectors \ {u} : h[v] = e[v]
    BY <1>2, <1>3, ChunkWritten
  <2> QED
    BY <1>3, <1>4, <2>1
<1>6. StorePasses(e, W, O) /\ EndOf(e, W) = g
  <2>1. StorePasses(e, W, O)
    BY <1>2, <1>5, StorePassesOne
  <2>2. DiskRight(e) /\ DiskRight([e EXCEPT ![t] = c])
    BY <1>2, <1>5 DEF StoreRight
  <2>3. EndOf(e, W) = g
    BY <1>5, <2>2, PassesOne
  <2> QED
    BY <2>1, <2>3
<1>7. ASSUME (offset % B) + n = B \/ offset + n = d[f][3]
      PROVE  SameFrom(d, g, f, O, offset + n)
  <2>1. ASSUME NEW p \in Nat, p >= offset + n, p < d[f][3]
        PROVE  LET u == d[f][2] + p \div B IN g[u] = d[u]
    <3> DEFINE u == d[f][2] + p \div B
    <3>1. (offset % B) + n = B
      BY <1>1, <1>7, <2>1
    <3>2. p \div B # offset \div B
      BY <1>1, <2>1, <3>1, NextSector
    <3>3. p \div B \in Nat /\ offset \div B \in Nat
      BY <1>1, FilesysAssumption
    <3>4. u # t
      BY <3>2, <3>3 DEF SectorAt, t
    <3>5. u \in Sectors
      <4>1. p + 1 \in 1..d[f][3] /\ (p + 1) - 1 = p
        BY <2>1
      <4>2. u \in Own(e, f)
        BY <1>2, <4>1, ByteInExtent DEF Own
      <4> QED
        BY <1>2, <4>2 DEF StoreRight, FilesOn
    <3>6. e[u] = d[u]
      <4>1. p >= offset
        BY <1>1, <2>1
      <4> QED
        BY <2>1, <4>1 DEF SameFrom
    <3> HIDE DEF u, g
    <3>7. g[u] = d[u]
      BY <1>5, <3>4, <3>5, <3>6
    <3> QED
      BY <3>7 DEF u
  <2> QED
    BY <1>2, <1>5, <2>1 DEF SameFrom
<1>8. StorePasses(e, W, O) /\ StoreRight(EndOf(e, W), O)
  BY <1>5, <1>6
<1>9. W = OneChunk(d, f, offset, n)
  BY DEF OneChunk, t, c
<1> HIDE DEF W, g
<1> QED
  BY <1>6, <1>7, <1>8, <1>9

\* The writes of inode_write_at set the bytes of the file, sector by sector.
LEMMA FileWritten ==
  ASSUME NEW d, NEW O, StoreRight(d, O), NEW f \in Ids(d, O),
         NEW inode, inode.start = d[f][2], inode.length = d[f][3],
         NEW size0 \in Nat, NEW offset0 \in Nat
  PROVE  StorePasses(d, inode_write_at(d, inode, 1, size0, offset0), O)
<1> DEFINE ofs(size) == offset0 + (size0 - size)
           cnt(size) == chunk_size(inode, size, ofs(size))
           sec(size) == byte_to_sector(inode, ofs(size))
           one(size) == <<sec(size), <<"data", overwritten(d[sec(size)][2],
                             ofs(size) % BLOCK_SECTOR_SIZE, cnt(size), 1)>> >>
           n == [size \in 0..size0 |-> cnt(size)]
           head == [size \in 0..size0 |-> << one(size) >>]
           write == CHOOSE g : g = [size \in 0..size0 |->
                      IF cnt(size) <= 0 THEN <<>> ELSE << one(size) >> \o g[size - cnt(size)]]
           Good(size) == \A e : SameFrom(d, e, f, O, ofs(size)) => StorePasses(e, write[size], O)
<1>1. inode_write_at(d, inode, 1, size0, offset0)
        = IF inode.deny_write_cnt > 0 THEN <<>> ELSE write[size0]
  BY DEF inode_write_at
<1>2. inode.start \in Nat /\ inode.length \in Nat /\ d[f][2] \in Nat /\ d[f][3] \in Nat
  BY DEF StoreRight, FilesOn
<1>3. ASSUME NEW size \in 0..size0
      PROVE  /\ ofs(size) \in Nat /\ cnt(size) \in Int /\ cnt(size) <= size
             /\ ofs(size - cnt(size)) = ofs(size) + cnt(size)
             /\ cnt(size) <= BLOCK_SECTOR_SIZE - (ofs(size) % BLOCK_SECTOR_SIZE)
             /\ cnt(size) <= inode.length - ofs(size)
             /\ cnt(size) > 0 => ofs(size) < inode.length
             /\ \/ cnt(size) = size \/ ofs(size) + cnt(size) = inode.length
                \/ (ofs(size) % BLOCK_SECTOR_SIZE) + cnt(size) = BLOCK_SECTOR_SIZE
  <2>1. size \in Nat /\ ofs(size) \in Nat
    OBVIOUS
  <2>2. ofs(size - cnt(size)) = ofs(size) + cnt(size)
    <3>1. cnt(size) \in Int
      <4> HIDE DEF ofs
      <4> QED
        BY <1>2, <2>1, ChunkFits
    <3> HIDE DEF cnt
    <3> QED
      BY <3>1
  <2> HIDE DEF ofs
  <2>3. /\ cnt(size) \in Int /\ cnt(size) <= size
        /\ cnt(size) <= BLOCK_SECTOR_SIZE - (ofs(size) % BLOCK_SECTOR_SIZE)
        /\ cnt(size) <= inode.length - ofs(size)
        /\ cnt(size) > 0 => ofs(size) < inode.length
    BY <1>2, <2>1, ChunkFits
  <2>4. \/ cnt(size) = size \/ ofs(size) + cnt(size) = inode.length
        \/ (ofs(size) % BLOCK_SECTOR_SIZE) + cnt(size) = BLOCK_SECTOR_SIZE
    <3> DEFINE r == ofs(size) % BLOCK_SECTOR_SIZE
               o == ofs(size)
    <3>1. r \in Nat /\ BLOCK_SECTOR_SIZE \in Nat /\ o \in Nat
      BY <2>1, FilesysAssumption
    <3>2. cnt(size) = size \/ cnt(size) = inode.length - o \/ cnt(size) = BLOCK_SECTOR_SIZE - r
      BY DEF chunk_size
    <3> HIDE DEF r, o, cnt
    <3>3. \/ cnt(size) = size \/ o + cnt(size) = inode.length \/ r + cnt(size) = BLOCK_SECTOR_SIZE
      BY <1>2, <3>1, <3>2
    <3> QED
      BY <3>3 DEF r, o
  <2> QED
    BY <2>1, <2>2, <2>3, <2>4
<1>4. \E g : g = [size \in 0..size0 |->
               IF cnt(size) <= 0 THEN <<>> ELSE << one(size) >> \o g[size - cnt(size)]]
  <2> HIDE DEF cnt, one
  <2>1. \A i \in 0..size0 : n[i] = cnt(i) /\ head[i] = << one(i) >>
    OBVIOUS
  <2>2. \A i \in 0..size0 : n[i] \in Int /\ n[i] <= i
    BY <1>3, <2>1
  <2> HIDE DEF n, head
  <2>3. PICK g : IsLoop(g, size0, n, head)
    BY <2>2, LoopExists
  <2>4. g = [i \in 0..size0 |->
               IF cnt(i) <= 0 THEN <<>> ELSE << one(i) >> \o g[i - cnt(i)]]
    BY <2>1, <2>3 DEF IsLoop
  <2> QED
    BY <2>4
<1>5. ASSUME NEW size \in 0..size0, cnt(size) > 0
      PROVE  << one(size) >> = OneChunk(d, f, ofs(size), cnt(size))
  <2>1. ofs(size) < inode.length
    BY <1>3, <1>5
  <2>2. sec(size) = SectorAt(d, f, ofs(size))
    BY <2>1 DEF byte_to_sector, SectorAt
  <2> HIDE DEF sec, cnt, ofs
  <2> QED
    BY <2>2 DEF OneChunk
<1> HIDE DEF one
<1>6. write = [size \in 0..size0 |->
        IF cnt(size) <= 0 THEN <<>> ELSE << one(size) >> \o write[size - cnt(size)]]
  <2> HIDE DEF cnt
  <2> QED
    BY <1>4
<1> HIDE DEF cnt, write, sec, ofs
<1>7. ASSUME NEW size \in 0..size0, cnt(size) <= 0 PROVE Good(size) /\ write[size] = <<>>
  <2>1. write[size] = <<>>
    BY <1>6, <1>7
  <2> QED
    BY <2>1, StorePassesNone DEF SameFrom
<1>8. ASSUME NEW size \in 0..size0, cnt(size) > 0, Good(size - cnt(size)) PROVE Good(size)
  <2> DEFINE V == write[size - cnt(size)]
             U == << one(size) >>
             k == cnt(size)
             o == ofs(size)
  <2>1. ~(k <= 0) /\ k \in Nat \ {0} /\ k <= size
    BY <1>3, <1>8
  <2>2. write[size] = U \o V
    BY <1>6, <2>1
  <2>3. U = OneChunk(d, f, o, k) /\ o \in Nat
    BY <1>3, <1>5, <1>8
  <2>4. Chunk(d, f, o, k)
    <3>1. o % BLOCK_SECTOR_SIZE \in Nat /\ BLOCK_SECTOR_SIZE \in Nat
      BY <2>3, FilesysAssumption
    <3> HIDE DEF k, o
    <3>2. k <= BLOCK_SECTOR_SIZE - (o % BLOCK_SECTOR_SIZE) /\ k <= d[f][3] - o
      BY <1>3 DEF k, o
    <3> QED
      BY <1>2, <2>1, <2>3, <3>1, <3>2 DEF Chunk
  <2>5. ASSUME NEW e, SameFrom(d, e, f, O, o) PROVE StorePasses(e, U \o V, O)
    <3> DEFINE e1 == EndOf(e, U)
    <3>1. /\ StorePasses(e, U, O) /\ StoreRight(e1, O)
          /\ (o % BLOCK_SECTOR_SIZE) + k = BLOCK_SECTOR_SIZE \/ o + k = d[f][3]
               => SameFrom(d, e1, f, O, o + k)
      <4> HIDE DEF k, o, U
      <4> QED
        BY <1>2, <2>3, <2>4, <2>5, ChunkPasses
    <3>2. StorePasses(e1, V, O)
      <4>1. CASE k = size
        <5>1. size - k = 0 /\ 0 \in 0..size0
          BY <2>1, <4>1
        <5>2. cnt(0) <= 0
          BY <1>3, <5>1
        <5>3. V = <<>>
          BY <1>7, <5>1, <5>2
        <5> HIDE DEF V, e1
        <5> QED
          BY <3>1, <5>3, StorePassesNone
      <4>2. CASE k # size
        <5>1. SameFrom(d, e1, f, O, o + k)
          BY <1>3, <3>1, <4>2
        <5>2. ofs(size - k) = o + k
          BY <1>3
        <5> HIDE DEF e1
        <5> QED
          BY <1>8, <5>1, <5>2
      <4> QED
        BY <4>1, <4>2
    <3> HIDE DEF U, V, e1
    <3> QED
      BY <3>1, <3>2, StorePassesBoth DEF e1
  <2> HIDE DEF U, V
  <2> QED
    BY <2>2, <2>5
<1> DEFINE Bad == {m \in 0..size0 : ~Good(m)}
<1>9. ASSUME Bad # {} PROVE FALSE
  <2> HIDE DEF Good
  <2>1. PICK m \in Bad : \A k \in Bad : m <= k
    <3>1. Bad \in SUBSET Nat
      OBVIOUS
    <3> HIDE DEF Bad
    <3> QED
      BY <1>9, <3>1, LeastNumber
  <2>2. m \in 0..size0 /\ ~Good(m)
    OBVIOUS
  <2>3. cnt(m) \in Int /\ cnt(m) <= m
    BY <1>3, <2>2
  <2>4. CASE cnt(m) <= 0
    BY <1>7, <2>2, <2>4
  <2>5. CASE cnt(m) > 0
    <3>1. m - cnt(m) \in 0..size0 /\ ~(m <= m - cnt(m))
      BY <2>2, <2>3, <2>5
    <3>2. Good(m - cnt(m))
      BY <2>1, <3>1
    <3> QED
      BY <1>8, <2>2, <2>5, <3>2
  <2> QED
    BY <2>3, <2>4, <2>5
<1>10. Good(size0)
  <2> HIDE DEF Good
  <2>1. size0 \in 0..size0
    OBVIOUS
  <2> QED
    BY <1>9, <2>1
<1>11. SameFrom(d, d, f, O, ofs(size0))
  BY DEF SameFrom
<1>12. StorePasses(d, write[size0], O)
  BY <1>10, <1>11
<1> QED
  BY <1>1, <1>12, StorePassesNone

(***************************************************************************)
(* What the file store does while the file system takes a step.            *)
(***************************************************************************)
InFiles(F) == {F[h].inode : h \in {g \in Handles : F[g] # NULL}}

\* The open inodes are those of the open files.
LEMMA OpenedAre == IInv => OpenedIn(inodes) = InFiles(files)
<1> SUFFICES ASSUME IInv PROVE OpenedIn(inodes) = InFiles(files)
  OBVIOUS
<1>1. MemoryRight /\ CountsRight
  BY DEF IInv
<1>2. ASSUME NEW h \in Handles, files[h] # NULL PROVE files[h].inode \in OpenedIn(inodes)
  BY <1>1, <1>2, InodeInMemory
<1>3. ASSUME NEW s \in OpenedIn(inodes) PROVE s \in InFiles(files)
  <2>1. s \in Sectors \ {0} /\ inodes[s] # NULL /\ inodes[s] \in Inode
    BY <1>1 DEF OpenedIn, MemoryRight, FREE_MAP_SECTOR
  <2>2. Cardinality(OpenOn(s)) # 0
    <3>1. inodes[s].open_cnt = Cardinality(OpenOn(s))
      BY <1>1, <2>1, CountsAre DEF Counts
    <3>2. inodes[s].open_cnt # 0
      BY <2>1 DEF Inode
    <3> QED
      BY <3>1, <3>2
  <2>3. PICK h \in Handles : files[h] # NULL /\ files[h].inode = s
    <3>1. OpenOn(s) # {}
      BY <2>2, FS_EmptySet
    <3> QED
      BY <3>1 DEF OpenOn
  <2> QED
    BY <2>3 DEF InFiles
<1> QED
  BY <1>2, <1>3 DEF InFiles

Steps ==
  StoreStep(RootOf(block), ContentOf(block, OpenedIn(inodes)),
            RootOf(block'), ContentOf(block', OpenedIn(inodes')))
Follows == StorePasses(block', todo', OpenedIn(inodes')) /\ Steps

\* The disk is right now.
LEMMA StoreNowRight ==
  ASSUME IInv, SInv
  PROVE  StoreRight(block, OpenedIn(inodes))
<1>1. block = [s \in Sectors |-> block[s]] /\ IsWrites(todo)
  BY DEF IInv, WritesRight, Passes
<1>2. 0 \in 0..Len(todo)
  BY <1>1 DEF IsWrites
<1>3. After(block, todo, 0) = block
  BY <1>1, AfterZero
<1> QED
  BY <1>2, <1>3 DEF SInv, StorePasses

\* Files that nobody has open any more, and that have no name, are gone.
LEMMA OpensFewer ==
  ASSUME NEW d, NEW O, NEW P, StoreRight(d, O), Ids(d, P) \subseteq Ids(d, O)
  PROVE  /\ StoreRight(d, P)
         /\ StoreStep(RootOf(d), ContentOf(d, O), RootOf(d), ContentOf(d, P))
<1> DEFINE L == Ids(d, O)
           K == Ids(d, P)
           c == ContentOf(d, O)
           b == ContentOf(d, P)
           r == RootOf(d)
<1>1. FilesOn(d, Sectors, L) /\ K \subseteq L
  BY DEF StoreRight
<1>2. FilesOn(d, Sectors, K)
  <2> HIDE DEF K, L
  <2> QED
    BY <1>1 DEF FilesOn
<1>3. StoreRight(d, P)
  BY <1>2 DEF StoreRight
<1>4. c = [s \in L |-> BytesOf(d, s)] /\ b = [s \in K |-> BytesOf(d, s)]
  BY DEF ContentOf
<1>5. {r[n] : n \in DOMAIN r} \subseteq K
  BY RootIs DEF Ids
<1> HIDE DEF K, L, c, b, r
<1>6. L \ K \in SUBSET (DOMAIN c \ {r[n] : n \in DOMAIN r})
  BY <1>4, <1>5
<1>7. b = [s \in DOMAIN c \ (L \ K) |-> c[s]]
  <2>1. DOMAIN c \ (L \ K) = K
    BY <1>1, <1>4
  <2> QED
    BY <1>1, <1>4, <2>1
<1>8. Forgets(r, c, r, b)
  BY <1>6, <1>7 DEF Forgets
<1>9. StoreStep(r, c, r, b)
  BY <1>8 DEF StoreStep
<1> QED
  BY <1>3, <1>9 DEF c, b, r

\* Nothing is written yet.
LEMMA FollowsPending ==
  ASSUME block' = block, OpenedIn(inodes') = OpenedIn(inodes),
         StorePasses(block, todo', OpenedIn(inodes))
  PROVE  Follows
BY DEF Follows, Steps, StoreStep

\* Nothing is written; files may be open that were not, or no longer.
LEMMA FollowsOpen ==
  ASSUME IInv, SInv, block' = block, todo' = <<>>,
         Ids(block, OpenedIn(inodes')) \subseteq Ids(block, OpenedIn(inodes))
  PROVE  Follows
<1> DEFINE O == OpenedIn(inodes)
           P == OpenedIn(inodes')
<1>1. StoreRight(block, O)
  BY StoreNowRight
<1> HIDE DEF O, P
<1>2. /\ StoreRight(block, P)
      /\ StoreStep(RootOf(block), ContentOf(block, O), RootOf(block), ContentOf(block, P))
  BY <1>1, OpensFewer DEF O, P
<1>3. StorePasses(block, <<>>, P)
  BY <1>2, StorePassesNone
<1> QED
  BY <1>2, <1>3 DEF Follows, Steps, O, P

\* The same inodes are open when every open file keeps its inode.
LEMMA OpensSame ==
  ASSUME IInv, IInv', InFiles(files') = InFiles(files)
  PROVE  OpenedIn(inodes') = OpenedIn(inodes)
<1>1. (IInv => OpenedIn(inodes) = InFiles(files))'
  BY OpenedAre, PTL
<1> QED
  BY <1>1, OpenedAre

\* Denying or allowing writes to an open file opens and closes nothing.
LEMMA DenyOpens ==
  ASSUME IInv, IInv', NEW h \in Handles, files[h] # NULL, NEW deny \in BOOLEAN,
         files' = [files EXCEPT ![h].deny_write = deny]
  PROVE  OpenedIn(inodes') = OpenedIn(inodes)
<1>1. files \in [Handles -> File \cup {NULL}] /\ NULL \notin File
  BY FilesysAssumption DEF IInv, MemoryRight
<1>2. ASSUME NEW x \in File, NEW y, y = [x EXCEPT !.deny_write = deny]
      PROVE  y.inode = x.inode /\ y \in File
  BY <1>2 DEF File
<1>3. files'[h] = [files[h] EXCEPT !.deny_write = deny] /\ files[h] \in File
  BY <1>1
<1>4. files'[h] # NULL /\ files'[h].inode = files[h].inode
  BY <1>1, <1>2, <1>3
<1>5. \A g \in Handles \ {h} : files'[g] = files[g]
  BY <1>1
<1>6. InFiles(files') = InFiles(files)
  BY <1>4, <1>5 DEF InFiles
<1> QED
  BY <1>6, OpensSame

(***************************************************************************)
(* The actions that write nothing.                                         *)
(***************************************************************************)
LEMMA FollowsStutter ==
  ASSUME IInv, SInv, block' = block, todo' = todo, OpenedIn(inodes') = OpenedIn(inodes)
  PROVE  Follows
BY FollowsPending DEF SInv

LEMMA DenyFollows ==
  ASSUME IInv, SInv, NEW h \in Handles, DenyWrite(h) \/ AllowWrite(h)
  PROVE  Follows
<1>1. IInv'
  BY DenyWriteKeeps, AllowWriteKeeps
<1>2. /\ files[h] # NULL /\ block' = block /\ todo' = todo
      /\ \E deny \in BOOLEAN : files' = [files EXCEPT ![h].deny_write = deny]
  BY DEF DenyWrite, AllowWrite
<1>3. OpenedIn(inodes') = OpenedIn(inodes)
  BY <1>1, <1>2, DenyOpens
<1> QED
  BY <1>2, <1>3, FollowsStutter

\* The inode that is opened has a name or is open already.
LEMMA OpenFollows ==
  ASSUME IInv, SInv, IInv', Idle, NEW h \in Handles,
         NEW s \in Ids(block, OpenedIn(inodes)),
         files' = [files EXCEPT ![h] = [inode |-> s, pos |-> 0, deny_write |-> FALSE]],
         UNCHANGED <<block, todo>>
  PROVE  Follows
<1> DEFINE f == [inode |-> s, pos |-> 0, deny_write |-> FALSE]
<1>1. f.inode = s
  OBVIOUS
<1>2. \A g \in Handles : files'[g] = files[g] \/ files'[g] = f
  BY DEF IInv, MemoryRight
<1> HIDE DEF f
<1>3. InFiles(files') \subseteq InFiles(files) \cup {s}
  BY <1>1, <1>2 DEF InFiles
<1>4. (IInv => OpenedIn(inodes) = InFiles(files))'
  BY OpenedAre, PTL
<1>5. OpenedIn(inodes') \subseteq OpenedIn(inodes) \cup {s}
  BY <1>3, <1>4, OpenedAre
<1>6. Ids(block, OpenedIn(inodes')) \subseteq Ids(block, OpenedIn(inodes))
  BY <1>5 DEF Ids
<1> QED
  BY <1>6, FollowsOpen DEF Idle

LEMMA NameOf ==
  ASSUME IInv, Idle, NEW name, Find(name) # {}
  PROVE  /\ lookup(name) \in Used(block) /\ entries[lookup(name)].name = name
         /\ entries[lookup(name)].inode_sector \in Named(block)
<1> DEFINE i == lookup(name)
<1>1. entries = DirOf(block) /\ DOMAIN entries = 1..DirEntries
  BY IdleFacts
<1>2. i \in Find(name)
  BY DEF lookup
<1> HIDE DEF i
<1>3. i \in Used(block) /\ entries[i].name = name
  BY <1>1, <1>2 DEF Find, Used
<1>4. entries[i].inode_sector \in Named(block)
  BY <1>1, <1>3 DEF Named
<1> QED
  BY <1>3, <1>4 DEF i

LEMMA OpenNameFollows ==
  ASSUME IInv, SInv, NEW name \in Names, NEW h \in Handles, Open(name, h)
  PROVE  Follows
<1> DEFINE s == entries[lookup(name)].inode_sector
<1>1. /\ Idle /\ Find(name) # {}
      /\ files' = [files EXCEPT ![h] = [inode |-> s, pos |-> 0, deny_write |-> FALSE]]
      /\ UNCHANGED <<block, todo>>
  BY DEF Open
<1>2. s \in Ids(block, OpenedIn(inodes))
  BY <1>1, NameOf DEF Ids
<1> HIDE DEF s
<1> QED
  BY <1>1, <1>2, OpenNameKeeps, OpenFollows

LEMMA ReopenFollows ==
  ASSUME IInv, SInv, NEW g \in Handles, NEW h \in Handles, Reopen(g, h)
  PROVE  Follows
<1> DEFINE s == files[g].inode
<1>1. /\ Idle /\ files[g] # NULL
      /\ files' = [files EXCEPT ![h] = [inode |-> s, pos |-> 0, deny_write |-> FALSE]]
      /\ UNCHANGED <<block, todo>>
  BY DEF Reopen
<1>2. s \in Ids(block, OpenedIn(inodes))
  BY <1>1, InodeInMemory DEF IInv, Ids
<1> HIDE DEF s
<1> QED
  BY <1>1, <1>2, ReopenKeeps, OpenFollows

\* Nobody has a file open when the machine starts.
LEMMA BootFollows ==
  ASSUME IInv, SInv, Boot
  PROVE  Follows
<1>1. block' = block /\ todo' = <<>> /\ files' = [h \in Handles |-> NULL]
  BY DEF Boot
<1>2. IInv'
  BY BootKeeps
<1>3. (IInv => OpenedIn(inodes) = InFiles(files))'
  BY OpenedAre, PTL
<1>4. OpenedIn(inodes') = {}
  BY <1>1, <1>2, <1>3 DEF InFiles
<1> QED
  BY <1>1, <1>4, FollowsOpen DEF Ids

\* The disk writes a block.
LEMMA WriteBlockFollows ==
  ASSUME IInv, SInv, WriteBlock
  PROVE  Follows
<1> DEFINE O == OpenedIn(inodes)
<1>1. /\ todo # <<>> /\ block' = [block EXCEPT ![todo[1][1]] = todo[1][2]]
      /\ todo' = Tail(todo) /\ inodes' = inodes
  BY DEF WriteBlock
<1>2. block = [s \in Sectors |-> block[s]]
  BY DEF IInv, WritesRight
<1>3. StorePasses(block, todo, O)
  BY DEF SInv
<1> HIDE DEF O
<1>4. StorePasses(block', todo', O) /\ Moves(block, block', O)
  BY <1>1, <1>2, <1>3, StorePassesRest
<1>5. OpenedIn(inodes') = O
  BY <1>1 DEF O
<1> QED
  BY <1>4, <1>5 DEF Follows, Steps, Moves, O

(***************************************************************************)
(* Where the file system writes.                                           *)
(***************************************************************************)
LEMMA TargetsOne ==
  ASSUME NEW s \in Sectors, NEW c, NEW R, s \in R
  PROVE  IsWrites(<< <<s, c>> >>) /\ TargetsIn(<< <<s, c>> >>, R)
<1> DEFINE W == << <<s, c>> >>
<1>1. Len(W) = 1 /\ W \in Seq({<<s, c>>}) /\ \A i \in 1..1 : W[i][1] = s
  OBVIOUS
<1> HIDE DEF W
<1>2. IsWrites(W) /\ TargetsIn(W, R)
  BY <1>1 DEF IsWrites, TargetsIn
<1> QED
  BY <1>2 DEF W

LEMMA TargetsBoth ==
  ASSUME NEW U, NEW V, NEW R, IsWrites(U), IsWrites(V), TargetsIn(U, R), TargetsIn(V, R)
  PROVE  IsWrites(U \o V) /\ TargetsIn(U \o V, R)
<1> DEFINE W == U \o V
<1>1. PICK A : U \in Seq(A)
  BY DEF IsWrites
<1>2. PICK B : V \in Seq(B)
  BY DEF IsWrites
<1> DEFINE S == A \cup B
<1>3. U \in Seq(S) /\ V \in Seq(S)
  BY <1>1, <1>2, SeqMonotonic
<1>4. /\ W \in Seq(S) /\ Len(U) \in Nat /\ Len(V) \in Nat /\ Len(W) = Len(U) + Len(V)
      /\ \A i \in 1..Len(U) : W[i] = U[i]
      /\ \A i \in 1..Len(V) : W[Len(U) + i] = V[i]
  BY <1>3, ConcatProperties
<1> HIDE DEF S, W
<1>5. ASSUME NEW i \in 1..Len(W) PROVE W[i][1] \in Sectors /\ W[i][1] \in R
  <2>1. CASE i <= Len(U)
    <3>1. i \in 1..Len(U)
      BY <1>4, <2>1
    <3> QED
      BY <1>4, <3>1 DEF IsWrites, TargetsIn
  <2>2. CASE ~(i <= Len(U))
    <3>1. i - Len(U) \in 1..Len(V) /\ i = Len(U) + (i - Len(U))
      BY <1>4, <2>2
    <3>2. W[i] = V[i - Len(U)]
      BY <1>4, <3>1
    <3> QED
      BY <3>1, <3>2 DEF IsWrites, TargetsIn
  <2> QED
    BY <2>1, <2>2
<1>6. IsWrites(W) /\ TargetsIn(W, R)
  BY <1>4, <1>5 DEF IsWrites, TargetsIn
<1> QED
  BY <1>6 DEF W

\* The free map is written twice, or not at all, when sectors are released.
LEMMA ReleaseTargets ==
  ASSUME MapStart = 2, NEW open, NEW s, NEW R, 2 \in R
  PROVE  IsWrites(release_writes(open, s)) /\ TargetsIn(release_writes(open, s), R)
<1> DEFINE m1 == free_map \ {s}
           m2 == free_map \ released(open, s)
           U == << <<2, <<"map", m1>> >> >>
           V == << <<2, <<"map", m2>> >> >>
<1>1. release_writes(open, s) = <<>> \/ release_writes(open, s) = U \o V
  BY DEF release_writes, bitmap_write
<1>2. IsWrites(U) /\ TargetsIn(U, R) /\ IsWrites(V) /\ TargetsIn(V, R)
  <2> HIDE DEF m1, m2
  <2> QED
    BY FirstSectors, TargetsOne
<1> HIDE DEF U, V
<1>3. IsWrites(U \o V) /\ TargetsIn(U \o V, R)
  BY <1>2, TargetsBoth
<1>4. IsWrites(<<>>) /\ TargetsIn(<<>>, R)
  <2>1. <<>> \in Seq({}) /\ Len(<<>>) = 0
    OBVIOUS
  <2> QED
    BY <2>1 DEF IsWrites, TargetsIn
<1> QED
  BY <1>1, <1>3, <1>4

\* A new file's sectors and the map are written when its inode is.
LEMMA InodeTargets ==
  ASSUME MapStart = 2, NEW s \in Sectors, NEW start \in Nat, NEW size \in Nat,
         Extent(start, size) \subseteq Sectors, NEW R, {2, s} \cup Extent(start, size) \subseteq R
  PROVE  IsWrites(inode_writes(s, start, size)) /\ TargetsIn(inode_writes(s, start, size), R)
<1> DEFINE c1 == <<"map", free_map \cup {s}>>
           c2 == <<"map", free_map \cup {s} \cup Extent(start, size)>>
           c3 == <<"inode", start, size>>
           W1 == << <<2, c1>> >>
           W2 == << <<2, c2>> >>
           W3 == << <<s, c3>> >>
           W4 == zero_writes(start, bytes_to_sectors(size))
<1>1. inode_writes(s, start, size) = W1 \o W2 \o W3 \o W4
  BY DEF inode_writes, bitmap_write
<1>2. IsWrites(W4) /\ TargetsIn(W4, R)
  BY ZeroWrites DEF TargetsIn
<1> HIDE DEF c1, c2, c3, W4
<1>3. IsWrites(W1) /\ TargetsIn(W1, R) /\ IsWrites(W2) /\ TargetsIn(W2, R)
  BY FirstSectors, TargetsOne
<1>4. IsWrites(W3) /\ TargetsIn(W3, R)
  BY TargetsOne
<1> HIDE DEF W1, W2, W3
<1>5. IsWrites(W1 \o W2) /\ TargetsIn(W1 \o W2, R)
  BY <1>3, TargetsBoth
<1>6. IsWrites(W1 \o W2 \o W3) /\ TargetsIn(W1 \o W2 \o W3, R)
  BY <1>4, <1>5, TargetsBoth
<1> QED
  BY <1>1, <1>2, <1>6, TargetsBoth

\* The sectors of the files are in use; the free ones and the map are nobody's.
LEMMA FreeSpared ==
  ASSUME IInv, Idle, NEW R, R \cap free_map \subseteq {2}, NEW P,
         Ids(block, P) \subseteq Ids(block, OpenedIn(inodes))
  PROVE  Spared(block, R, P)
<1> DEFINE L == Ids(block, OpenedIn(inodes))
<1>1. FilesOn(block, free_map, L)
  BY IdleFacts DEF Agrees, Ids
<1>2. 3 \in free_map
  <2>1. 0..3 \subseteq free_map
    BY IdleFacts DEF Agrees, DiskRight, Layout
  <2> QED
    BY <2>1
<1> HIDE DEF L
<1>3. ASSUME NEW t \in L PROVE Own(block, t) \cap R = {}
  <2>1. Own(block, t) \subseteq free_map \ (0..3)
    BY <1>1 DEF FilesOn
  <2> QED
    BY <2>1, FirstSectors
<1> QED
  BY <1>2, <1>3 DEF Spared, L

(***************************************************************************)
(* The actions that write where no file is.                                *)
(***************************************************************************)
LEMMA FollowsSpared ==
  ASSUME IInv, SInv, Idle, IInv', block' = block,
         NEW R, TargetsIn(todo', R), R \cap free_map \subseteq {2},
         Ids(block, OpenedIn(inodes')) \subseteq Ids(block, OpenedIn(inodes))
  PROVE  Follows
<1> DEFINE O == OpenedIn(inodes)
           P == OpenedIn(inodes')
<1>1. StoreRight(block, O)
  BY StoreNowRight
<1>2. Spared(block, R, P)
  BY FreeSpared
<1>3. Passes(block, todo')
  BY DEF IInv, WritesRight
<1> HIDE DEF O, P
<1>4. /\ StoreRight(block, P)
      /\ StoreStep(RootOf(block), ContentOf(block, O), RootOf(block), ContentOf(block, P))
  BY <1>1, OpensFewer DEF O, P
<1>5. StorePasses(block, todo', P)
  BY <1>2, <1>3, <1>4, StorePassesSpared
<1> QED
  BY <1>4, <1>5 DEF Follows, Steps, O, P

LEMMA CloseFollows ==
  ASSUME IInv, SInv, NEW h \in Handles, Close(h)
  PROVE  Follows
<1> DEFINE open == allowed(inodes, files[h])
           s == files[h].inode
<1>1. /\ Idle /\ block' = block /\ files' = [files EXCEPT ![h] = NULL]
      /\ todo' = release_writes(open, s)
  BY DEF Close
<1>2. IInv' /\ MapStart = 2
  BY <1>1, CloseKeeps, IdleFacts
<1> HIDE DEF open, s
<1>3. TargetsIn(todo', {2})
  BY <1>1, <1>2, ReleaseTargets
<1>4. InFiles(files') \subseteq InFiles(files)
  <2>1. \A g \in Handles : files'[g] = NULL \/ files'[g] = files[g]
    BY <1>1 DEF IInv, MemoryRight
  <2> QED
    BY <2>1 DEF InFiles
<1>5. (IInv => OpenedIn(inodes) = InFiles(files))'
  BY OpenedAre, PTL
<1>6. Ids(block, OpenedIn(inodes')) \subseteq Ids(block, OpenedIn(inodes))
  BY <1>2, <1>4, <1>5, OpenedAre DEF Ids
<1> QED
  BY <1>1, <1>2, <1>3, <1>6, FollowsSpared

LEMMA CreateNoInodeFollows ==
  ASSUME IInv, SInv, NEW size \in Nat, CreateNoInode(size)
  PROVE  Follows
<1> DEFINE m == free_map \cup {bitmap_scan(free_map, 1)}
           c1 == <<"map", m>>
           c2 == <<"map", free_map>>
           U == << <<2, c1>> >>
           V == << <<2, c2>> >>
<1>1. /\ Idle /\ block' = block /\ inodes' = inodes
      /\ todo' = bitmap_write(m) \o bitmap_write(free_map)
  BY DEF CreateNoInode
<1>2. IInv' /\ MapStart = 2
  BY <1>1, CreateNoInodeKeeps, IdleFacts
<1>3. todo' = U \o V
  BY <1>1, <1>2 DEF bitmap_write
<1> HIDE DEF c1, c2
<1>4. IsWrites(U) /\ TargetsIn(U, {2}) /\ IsWrites(V) /\ TargetsIn(V, {2})
  BY FirstSectors, TargetsOne
<1> HIDE DEF U, V
<1>5. TargetsIn(todo', {2})
  BY <1>3, <1>4, TargetsBoth
<1> QED
  BY <1>1, <1>2, <1>5, FollowsSpared

LEMMA CreateNoEntryFollows ==
  ASSUME IInv, SInv, NEW size \in Nat, NEW name, CreateNoEntry(name, size)
  PROVE  Follows
<1> DEFINE s == bitmap_scan(free_map, 1)
           start == bitmap_scan(free_map \cup {s}, bytes_to_sectors(size))
           X == Extent(start, size)
           n == (free_map \cup {s} \cup X) \ {s}
           c == <<"map", n>>
           U == inode_writes(s, start, size)
           V == << <<2, c>> >>
           R == {2, s} \cup X
<1>1. /\ Idle /\ can_allocate(free_map, 1)
      /\ can_allocate(free_map \cup {s}, bytes_to_sectors(size))
      /\ todo' = U \o bitmap_write(n)
      /\ block' = block /\ inodes' = inodes
  BY DEF CreateNoEntry
<1>2. IInv' /\ MapStart = 2
  BY <1>1, CreateNoEntryKeeps, IdleFacts
<1>3. todo' = U \o V
  BY <1>1, <1>2 DEF bitmap_write
<1>4. /\ s \in Sectors \ free_map /\ start \in Nat /\ X \subseteq Sectors
      /\ X \cap (free_map \cup {s}) = {}
  BY <1>1, RoomFound
<1> HIDE DEF s, start, c
<1>5. IsWrites(U) /\ TargetsIn(U, R)
  BY <1>2, <1>4, InodeTargets
<1>6. IsWrites(V) /\ TargetsIn(V, R)
  BY FirstSectors, TargetsOne
<1>7. R \cap free_map \subseteq {2}
  BY <1>4
<1> HIDE DEF U, V, R
<1>8. TargetsIn(todo', R)
  BY <1>3, <1>5, <1>6, TargetsBoth
<1> QED
  BY <1>1, <1>2, <1>7, <1>8, FollowsSpared

(***************************************************************************)
(* A write to an open file.                                                *)
(***************************************************************************)
LEMMA WriteFollows ==
  ASSUME IInv, SInv, NEW h \in Handles, NEW size \in Transfers, Write(h, 1, size)
  PROVE  Follows
<1> DEFINE O == OpenedIn(inodes)
           s == files[h].inode
           inode == inodes[s]
           p == files[h].pos
<1>1. /\ Idle /\ files[h] # NULL /\ block' = block /\ inodes' = inodes
      /\ todo' = inode_write_at(block, inode, 1, size, p)
  BY DEF Write
<1>2. s \in O /\ files[h] \in File /\ size \in Nat
  BY <1>1, InodeInMemory, FilesysAssumption DEF IInv
<1>3. p \in Nat
  <2>1. ASSUME NEW x \in File PROVE x.pos \in Nat
    BY DEF File
  <2> QED
    BY <1>2, <2>1
<1>4. inode.start = block[s][2] /\ inode.length = block[s][3]
  BY <1>1, <1>2, IdleFacts DEF Agrees
<1>5. StoreRight(block, O) /\ s \in Ids(block, O)
  BY <1>2, StoreNowRight DEF Ids
<1> HIDE DEF O, s, inode, p
<1>6. StorePasses(block, inode_write_at(block, inode, 1, size, p), O)
  BY <1>2, <1>3, <1>4, <1>5, FileWritten
<1> QED
  BY <1>1, <1>6, FollowsPending DEF O

(***************************************************************************)
(* A file is created.                                                      *)
(***************************************************************************)
LEMMA EndConcat ==
  ASSUME NEW d, NEW U, NEW V, IsWrites(U), IsWrites(V)
  PROVE  /\ EndOf(d, U \o V) = EndOf(EndOf(d, U), V)
         /\ Passes(d, U \o V) => Passes(EndOf(d, U), V)
<1> DEFINE W == U \o V
           e == EndOf(d, U)
<1>1. PICK A : U \in Seq(A)
  BY DEF IsWrites
<1>2. PICK B : V \in Seq(B)
  BY DEF IsWrites
<1> DEFINE S == A \cup B
<1>3. U \in Seq(S) /\ V \in Seq(S)
  BY <1>1, <1>2, SeqMonotonic
<1>4. Len(W) = Len(U) + Len(V) /\ Len(U) \in Nat /\ Len(V) \in Nat
  BY <1>3, ConcatProperties
<1> HIDE DEF S
<1>5. \A k \in 0..Len(V) : After(d, W, Len(U) + k) = After(e, V, k)
  BY <1>3, AfterConcat DEF EndOf
<1> HIDE DEF W, e
<1>6. EndOf(d, W) = EndOf(e, V)
  <2>1. Len(V) \in 0..Len(V)
    BY <1>4
  <2> QED
    BY <1>4, <1>5, <2>1 DEF EndOf
<1>7. ASSUME Passes(d, W) PROVE Passes(e, V)
  <2>1. ASSUME NEW k \in 0..Len(V) PROVE DiskRight(After(e, V, k))
    <3>1. Len(U) + k \in 0..Len(W)
      BY <1>4
    <3>2. After(e, V, k) = After(d, W, Len(U) + k)
      BY <1>5
    <3> QED
      BY <1>7, <3>1, <3>2 DEF Passes
  <2> QED
    BY <2>1 DEF Passes
<1> QED
  BY <1>6, <1>7 DEF W, e

LEMMA ZerosWritten ==
  ASSUME NEW d, NEW start \in Nat, NEW size \in Nat, Extent(start, size) \subseteq Sectors,
         NEW t \in Extent(start, size)
  PROVE  EndOf(d, zero_writes(start, bytes_to_sectors(size)))[t] = <<"data", zeros>>
<1> DEFINE cnt == bytes_to_sectors(size)
           W == zero_writes(start, cnt)
           c == <<"data", zeros>>
<1>1. cnt \in Nat
  BY SectorCount
<1>2. t \in start .. start + cnt - 1 /\ t \in Sectors
  BY DEF Extent
<1>3. W = [i \in 1..cnt |-> <<start + i - 1, c>>]
  BY DEF zero_writes
<1>4. IsWrites(W)
  BY ZeroWrites
<1> HIDE DEF W, cnt, c
<1>5. Len(W) = cnt
  <2>1. PICK S : W \in Seq(S)
    BY <1>4 DEF IsWrites
  <2>2. DOMAIN W = 1..cnt /\ DOMAIN W = 1..Len(W) /\ Len(W) \in Nat
    BY <1>3, <2>1
  <2> QED
    BY <1>1, <2>2
<1>6. \A i \in 1..cnt : W[i][1] = start + i - 1 /\ W[i][2] = c
  BY <1>3
<1>7. \E i \in 1..cnt : W[i][1] = t
  <2>1. t - start + 1 \in 1..cnt /\ start + (t - start + 1) - 1 = t
    BY <1>1, <1>2
  <2> QED
    BY <1>6, <2>1
<1>8. \E m \in 1..cnt : After(d, W, cnt)[t] = W[m][2]
  BY <1>1, <1>2, <1>7, AfterCases
<1> QED
  BY <1>5, <1>6, <1>8 DEF EndOf, W, cnt, c

LEMMA NewFileZero ==
  ASSUME MapStart = 2, NEW s \in Sectors, NEW start \in Nat, NEW size \in Nat,
         Extent(start, size) \subseteq Sectors, NEW t \in Extent(start, size)
  PROVE  EndOf(block, inode_writes(s, start, size))[t] = <<"data", zeros>>
<1> DEFINE c1 == <<"map", free_map \cup {s}>>
           c2 == <<"map", free_map \cup {s} \cup Extent(start, size)>>
           c3 == <<"inode", start, size>>
           W1 == << <<2, c1>> >>
           W2 == << <<2, c2>> >>
           W3 == << <<s, c3>> >>
           W4 == zero_writes(start, bytes_to_sectors(size))
           U == W1 \o W2 \o W3
<1>1. inode_writes(s, start, size) = U \o W4
  BY DEF inode_writes, bitmap_write
<1>2. IsWrites(W4)
  BY ZeroWrites
<1>3. EndOf(EndOf(block, U), W4)[t] = <<"data", zeros>>
  <2> DEFINE g == EndOf(block, U)
  <2> HIDE DEF g
  <2>1. EndOf(g, W4)[t] = <<"data", zeros>>
    BY ZerosWritten
  <2> QED
    BY <2>1 DEF g
<1> HIDE DEF c1, c2, c3, W4
<1>4. IsWrites(W1) /\ IsWrites(W2) /\ IsWrites(W3)
  BY FirstSectors, TargetsOne
<1> HIDE DEF W1, W2, W3
<1>5. IsWrites(U)
  <2>1. TargetsIn(W1, Sectors) /\ TargetsIn(W2, Sectors) /\ TargetsIn(W3, Sectors)
    BY <1>4 DEF IsWrites, TargetsIn
  <2>2. IsWrites(W1 \o W2) /\ TargetsIn(W1 \o W2, Sectors)
    BY <1>4, <2>1, TargetsBoth
  <2> QED
    BY <1>4, <2>1, <2>2, TargetsBoth
<1> HIDE DEF U
<1>6. EndOf(block, U \o W4) = EndOf(EndOf(block, U), W4)
  BY <1>2, <1>5, EndConcat
<1> QED
  BY <1>1, <1>3, <1>6

LEMMA CreateFileFollows ==
  ASSUME LookupsEnd, IInv, SInv, NEW size \in Sizes, NEW name \in Names \cup LongNames,
         CreateFile(name, size)
  PROVE  Follows
<1> DEFINE O == OpenedIn(inodes)
           L == Ids(block, O)
           s == bitmap_scan(free_map, 1)
           start == bitmap_scan(free_map \cup {s}, bytes_to_sectors(size))
           X == Extent(start, size)
           m == free_map \cup {s} \cup X
           slot == [inode_sector |-> s, name |-> name, in_use |-> TRUE]
           U == inode_writes(s, start, size)
           R == {2, s} \cup X
           d == EndOf(block, U)
<1>1. /\ Idle /\ can_allocate(free_map, 1)
      /\ can_allocate(free_map \cup {s}, bytes_to_sectors(size))
      /\ name \in Names /\ Find(name) = {} /\ FreeSlots # {}
      /\ todo' = U \o dir_write(free_slot, slot)
      /\ block' = block /\ inodes' = inodes
  BY DEF CreateFile, LookupsEnd, not_found, Slots
<1> DEFINE i == free_slot
           D == [DirOf(block) EXCEPT ![i] = slot]
           c == <<"dir", D>>
           V == << <<3, c>> >>
<1>2. /\ DiskRight(block) /\ Agrees(block, free_map, inodes) /\ MapStart = 2 /\ DirSector = 3
      /\ inodes[0].start = 2 /\ MapOf(block) = free_map
      /\ entries = DirOf(block) /\ DOMAIN entries = 1..DirEntries
  BY <1>1, IdleFacts DEF Agrees, IInv, MemoryRight
<1>3. todo' = U \o V
  BY <1>1, <1>2 DEF dir_write
<1>4. size \in Nat
  BY FilesysAssumption
<1>5. /\ s \in Sectors \ free_map /\ start \in Nat /\ X \subseteq Sectors
      /\ X \cap (free_map \cup {s}) = {}
  BY <1>1, <1>4, RoomFound
<1>6. i \in 1..DirEntries /\ ~DirOf(block)[i].in_use
  <2>1. FreeSlots \in SUBSET Nat /\ FreeSlots # {} /\ FreeSlots \subseteq 1..DirEntries
    BY <1>1, <1>2, FilesysAssumption DEF FreeSlots
  <2>2. \E j \in FreeSlots : \A k \in FreeSlots : j <= k
    BY <2>1, LeastNumber
  <2>3. free_slot \in FreeSlots
    BY <2>2 DEF free_slot
  <2> HIDE DEF i
  <2>4. i \in FreeSlots
    BY <2>3 DEF i
  <2> QED
    BY <1>2, <2>1, <2>4 DEF FreeSlots
<1>7. name \in Names \ NamesOn(block)
  <2>1. \A j \in Used(block) : DirOf(block)[j].name # name
    BY <1>1, <1>2 DEF Find, Used
  <2> QED
    BY <1>1, <2>1 DEF NamesOn
<1>8. StoreRight(block, O)
  BY StoreNowRight
<1>9. /\ L \subseteq free_map /\ FilesOn(block, free_map, L)
  <2>1. FilesOn(block, free_map, L)
    BY <1>2 DEF Agrees, Ids
  <2> HIDE DEF L
  <2> QED
    BY <2>1 DEF FilesOn, Own
<1> HIDE DEF i, s, start, O
<1>10. /\ Passes(block, U) /\ DiskRight(d) /\ MapOf(d) = m
       /\ DirOf(d) = DirOf(block) /\ Named(d) = Named(block)
       /\ d[s] = <<"inode", start, size>>
       /\ \A t \in free_map \ {2} : d[t] = block[t]
  BY <1>2, <1>4, <1>5, InodeWrites
<1>11. TargetsIn(U, R)
  BY <1>2, <1>4, <1>5, InodeTargets
<1>12. \A t \in X : d[t] = <<"data", zeros>>
  BY <1>2, <1>4, <1>5, NewFileZero
<1> HIDE DEF U, d
<1>13. Spared(block, R, O)
  <2>1. R \cap free_map \subseteq {2}
    BY <1>5
  <2> HIDE DEF R
  <2> QED
    BY <1>1, <2>1, FreeSpared DEF O
<1>14. /\ StorePasses(block, U, O) /\ StoreRight(d, O)
       /\ RootOf(d) = RootOf(block) /\ Ids(d, O) = Ids(block, O)
  <2> HIDE DEF R
  <2> QED
    BY <1>8, <1>10, <1>11, <1>13, StorePassesSpared DEF d
<1>15. NamesOn(d) = NamesOn(block)
  BY <1>10 DEF NamesOn, Used
<1>16. FilesOn(d, m, L \cup {s})
  <2>1. FilesOn(d, m, L) /\ \A t \in L : Own(d, t) \subseteq free_map
    <3>1. free_map \subseteq m
      OBVIOUS
    <3>2. Same(block, d, free_map \ {2})
      BY <1>10 DEF Same
    <3> HIDE DEF m
    <3>3. LET K == Named(block) \cup OpenedIn(inodes)
          IN  /\ FilesOn(d, m, K)
              /\ \A t \in K : Own(d, t) = Own(block, t) /\ Own(block, t) \subseteq free_map
      BY <1>2, <3>1, <3>2, OthersStay
    <3> QED
      BY <3>3 DEF Ids, O
  <2>2. d[s][2] = start /\ d[s][3] = size
    BY <1>10
  <2>3. Own(d, s) = {s} \cup X
    BY <2>2 DEF Own
  <2>4. /\ s \in Sectors /\ d[s] = <<"inode", d[s][2], d[s][3]>>
        /\ d[s][2] \in Nat /\ d[s][3] \in Nat
        /\ s \notin Extent(d[s][2], d[s][3])
    BY <1>4, <1>5, <1>10, <2>2
  <2>5. 0..3 \subseteq free_map
    BY <1>2 DEF DiskRight, Layout
  <2>6. Own(d, s) \subseteq m \ (0..3) /\ Own(d, s) \cap free_map = {}
    BY <1>5, <2>3, <2>5
  <2>7. \A t \in L : Own(d, t) \cap Own(d, s) = {}
    BY <2>1, <2>6
  <2> HIDE DEF L, m, X
  <2> QED
    BY <2>1, <2>4, <2>6, <2>7 DEF FilesOn
<1> DEFINE e == [d EXCEPT ![3] = c]
<1>17. StoreRight(e, O) /\ Moves(d, e, O)
  <2>1. /\ i \in 1..DirEntries /\ ~DirOf(d)[i].in_use
        /\ name \in Names \ NamesOn(d) /\ s \in Sectors \ Ids(d, O)
        /\ FilesOn(d, MapOf(d), Ids(d, O) \cup {s})
        /\ D = [DirOf(d) EXCEPT ![i] = slot]
    BY <1>5, <1>6, <1>7, <1>9, <1>10, <1>14, <1>15, <1>16
  <2> HIDE DEF D, O
  <2>2. LET Y == [DirOf(d) EXCEPT ![i] = [inode_sector |-> s, name |-> name, in_use |-> TRUE]]
            g == [d EXCEPT ![3] = <<"dir", Y>>]
        IN  StoreRight(g, O) /\ Moves(d, g, O)
    BY <1>10, <1>12, <1>14, <2>1, NameWritten
  <2> QED
    BY <2>1, <2>2
<1> HIDE DEF c
<1>18. StorePasses(d, V, O)
  BY <1>14, <1>17, FirstSectors, StorePassesOne
<1> HIDE DEF V
<1>19. StorePasses(block, U \o V, O)
  BY <1>14, <1>18, StorePassesBoth DEF d
<1> QED
  BY <1>1, <1>3, <1>19, FollowsPending DEF O

(***************************************************************************)
(* A file is removed.                                                      *)
(***************************************************************************)
LEMMA RemoveFollows ==
  ASSUME IInv, SInv, NEW name \in Names, Remove(name)
  PROVE  Follows
<1> DEFINE O == OpenedIn(inodes)
           i == lookup(name)
           s == entries[i].inode_sector
           open == [inode_open(inodes, block, s) EXCEPT ![s].removed = TRUE]
           slot == [DirOf(block)[i] EXCEPT !.in_use = FALSE]
           D == [DirOf(block) EXCEPT ![i] = slot]
           c == <<"dir", D>>
           d == [block EXCEPT ![3] = c]
           U == << <<3, c>> >>
           V == release_writes(open, s)
<1>1. /\ Idle /\ Find(name) # {} /\ block' = block /\ files' = files
      /\ todo' = dir_write(i, [entries[i] EXCEPT !.in_use = FALSE]) \o V
  BY DEF Remove
<1>2. MapStart = 2 /\ DirSector = 3 /\ entries = DirOf(block)
  BY <1>1, IdleFacts
<1>3. todo' = U \o V
  BY <1>1, <1>2 DEF dir_write
<1>4. i \in Used(block)
  BY <1>1, NameOf
<1>5. IsWrites(V) /\ TargetsIn(V, {2})
  <2> HIDE DEF s, open
  <2> QED
    BY <1>2, ReleaseTargets
<1>6. IInv'
  BY RemoveKeeps
<1>7. OpenedIn(inodes') = O
  BY <1>1, <1>6, OpensSame
<1>8. StoreRight(block, O)
  BY StoreNowRight
<1> HIDE DEF i, V, O
<1>9. StoreRight(d, O) /\ Moves(block, d, O)
  BY <1>4, <1>8, NameErased
<1> HIDE DEF c
<1>10. StorePasses(block, U, O) /\ EndOf(block, U) = d
  <2>1. DiskRight(block) /\ DiskRight(d) /\ 3 \in Sectors
    BY <1>8, <1>9, FirstSectors DEF StoreRight
  <2> QED
    BY <1>8, <1>9, <2>1, StorePassesOne, PassesOne
<1> HIDE DEF U, d
<1>11. Passes(d, V)
  <2>1. IsWrites(U)
    BY <1>10 DEF StorePasses
  <2>2. Passes(block, U \o V)
    BY <1>1, <1>3, <1>6 DEF IInv, WritesRight
  <2> QED
    BY <1>5, <1>10, <2>1, <2>2, EndConcat
<1>12. Spared(d, {2}, O)
  <2>1. ASSUME NEW t \in Ids(d, O) PROVE Own(d, t) \cap {2} = {}
    <3>1. Own(d, t) \subseteq Sectors \ (0..3)
      BY <1>9 DEF StoreRight, FilesOn
    <3> QED
      BY <3>1, FirstSectors
  <2> QED
    BY <2>1 DEF Spared
<1>13. StorePasses(d, V, O)
  BY <1>5, <1>9, <1>11, <1>12, StorePassesSpared
<1>14. StorePasses(block, U \o V, O)
  BY <1>10, <1>13, StorePassesBoth
<1> QED
  BY <1>1, <1>3, <1>7, <1>14, FollowsPending DEF O

(***************************************************************************)
(* The file system implements the file store.                              *)
(***************************************************************************)
LEMMA FormattedStore ==
  /\ StoreRight(Formatted, {})
  /\ RootOf(Formatted) = <<>> /\ ContentOf(Formatted, {}) = <<>>
<1> DEFINE d == Formatted
           blank == [inode_sector |-> 0, name |-> NULL, in_use |-> FALSE]
<1>1. DiskRight(d)
  BY FormattedRight
<1>2. DirOf(d) = [i \in 1..DirEntries |-> blank]
  <2> DEFINE D == [i \in 1..DirEntries |-> blank]
  <2>1. d = [s \in Sectors |->
               CASE s = FREE_MAP_SECTOR -> <<"inode", 2, 1>>
                 [] s = ROOT_DIR_SECTOR -> <<"inode", 3, 1>>
                 [] s = 2 -> <<"map", 0..3>>
                 [] s = 3 -> <<"dir", D>>
                 [] OTHER -> <<"data", zeros>>]
    BY DEF Formatted
  <2> HIDE DEF D, d
  <2>2. d[3] = <<"dir", D>>
    BY <2>1, FirstSectors DEF FREE_MAP_SECTOR, ROOT_DIR_SECTOR
  <2>3. DirOf(d) = D
    BY <2>2 DEF DirOf
  <2> QED
    BY <2>3 DEF D
<1>3. blank.in_use = FALSE
  OBVIOUS
<1> HIDE DEF d, blank
<1>4. Used(d) = {}
  BY <1>2, <1>3 DEF Used
<1>5. Named(d) = {} /\ NamesOn(d) = {} /\ Ids(d, {}) = {}
  BY <1>4 DEF Named, NamesOn, Ids
<1>6. StoreRight(d, {})
  BY <1>1, <1>4, <1>5 DEF StoreRight, FilesOn
<1>7. RootOf(d) = <<>> /\ ContentOf(d, {}) = <<>>
  <2>1. DOMAIN RootOf(d) = {} /\ RootOf(d) = [n \in {} |-> RootOf(d)[n]]
    BY <1>5 DEF RootOf
  <2>2. DOMAIN ContentOf(d, {}) = {} /\ ContentOf(d, {}) = [n \in {} |-> ContentOf(d, {})[n]]
    BY <1>5 DEF ContentOf
  <2>3. <<>> = [n \in {} |-> <<>>[n]]
    OBVIOUS
  <2> QED
    BY <2>1, <2>2, <2>3
<1> QED
  BY <1>6, <1>7 DEF d

LEMMA StartsAsStore ==
  ASSUME Init
  PROVE  /\ SInv
         /\ RootOf(block) = <<>> /\ ContentOf(block, OpenedIn(inodes)) = <<>>
<1>1. block = Formatted /\ todo = <<>> /\ inodes = Closed(Formatted)
  BY DEF Init
<1>2. OpenedIn(inodes) = {}
  BY <1>1, FormattedRight, StartedRight
<1>3. StorePasses(block, todo, {})
  BY <1>1, FormattedStore, StorePassesNone
<1> QED
  BY <1>1, <1>2, <1>3, FormattedStore DEF SInv

LEMMA NextFollows ==
  ASSUME LookupsEnd, IInv, SInv, program \in Programs, [Next]_vars
  PROVE  Follows
<1>1. CASE UNCHANGED vars
  BY <1>1, FollowsStutter DEF vars, fsVars
<1>2. CASE Next
  <2>1. CASE CreateNothing
    BY <2>1, FollowsStutter DEF CreateNothing, fsVars
  <2>2. ASSUME NEW size \in program.sizes,
               \/ CreateNoInode(size)
               \/ \E n \in Names \cup LongNames : CreateNoEntry(n, size) \/ CreateFile(n, size)
        PROVE  Follows
    <3>1. size \in Sizes /\ size \in Nat
      BY FilesysAssumption
    <3>2. CASE CreateNoInode(size)
      BY <3>1, <3>2, CreateNoInodeFollows
    <3>3. ASSUME NEW n \in Names \cup LongNames, CreateNoEntry(n, size) PROVE Follows
      BY <3>1, <3>3, CreateNoEntryFollows
    <3>4. ASSUME NEW n \in Names \cup LongNames, CreateFile(n, size) PROVE Follows
      BY <3>1, <3>4, CreateFileFollows
    <3> QED
      BY <2>2, <3>2, <3>3, <3>4
  <2>3. ASSUME NEW n \in Names, Remove(n) \/ \E h \in Handles : Open(n, h) PROVE Follows
    BY <2>3, RemoveFollows, OpenNameFollows
  <2>4. ASSUME NEW h \in Handles, NEW g \in Handles, Reopen(g, h) PROVE Follows
    BY <2>4, ReopenFollows
  <2>5. ASSUME NEW h \in Handles, Close(h) \/ DenyWrite(h) \/ AllowWrite(h) PROVE Follows
    BY <2>5, CloseFollows, DenyFollows
  <2>6. ASSUME NEW h \in Handles, NEW n \in Transfers, Write(h, 1, n) PROVE Follows
    BY <2>6, WriteFollows
  <2>7. ASSUME NEW h \in Handles, NEW n \in Transfers, Read(h, n) PROVE Follows
    BY <2>7, FollowsStutter DEF Read
  <2>8. ASSUME NEW h \in Handles, NEW pos \in Seeks, Seek(h, pos) PROVE Follows
    BY <2>8, FollowsStutter DEF Seek
  <2>9. CASE WriteBlock
    BY <2>9, WriteBlockFollows
  <2>10. CASE Boot
    BY <2>10, BootFollows
  <2> QED
    BY <1>2, <2>1, <2>2, <2>3, <2>4, <2>5, <2>6, <2>7, <2>8, <2>9, <2>10 DEF Next
<1> QED
  BY <1>1, <1>2

\* The store that the refinement mapping of Filesys names is the one that the disk
\* stands for.
LEMMA StoreIs ==
  IInv /\ SInv => StoreRoot = RootOf(block) /\ StoreContent = ContentOf(block, OpenedIn(inodes))
<1> SUFFICES ASSUME IInv, SInv
             PROVE  StoreRoot = RootOf(block) /\ StoreContent = ContentOf(block, OpenedIn(inodes))
  OBVIOUS
<1> DEFINE O == OpenedIn(inodes)
<1>1. /\ DiskRight(block) /\ InUse(block) = Used(block) /\ entries = DirOf(block)
      /\ \A i \in Used(block) : EntrySector(block, i) = DirOf(block)[i].inode_sector
  BY DiskNow
<1>2. DOMAIN DirOf(block) = 1..DirEntries
  BY <1>1 DEF DiskRight, Layout
<1>3. StoreRight(block, O)
  BY StoreNowRight
<1>4. ASSUME NEW n PROVE lookup(n) = CHOOSE i \in EntriesOf(block, n) : TRUE
  BY <1>1, <1>2 DEF lookup, Find, EntriesOf
<1>5. StoreRoot = RootOf(block)
  <2> DEFINE N == {entries[i].name : i \in InUse(block)}
  <2>1. N = NamesOn(block)
    BY <1>1 DEF NamesOn
  <2>2. \A n \in N : entries[lookup(n)].inode_sector = RootOf(block)[n]
    <3>1. TAKE n \in N
    <3>2. RootOf(block)[n] = DirOf(block)[CHOOSE i \in EntriesOf(block, n) : TRUE].inode_sector
      BY <2>1 DEF RootOf
    <3> QED
      BY <1>1, <1>4, <3>2
  <2>3. StoreRoot = [n \in N |-> entries[lookup(n)].inode_sector]
    BY DEF StoreRoot
  <2>4. RootOf(block) = [n \in N |-> RootOf(block)[n]]
    BY <2>1 DEF RootOf
  <2> HIDE DEF N
  <2> QED
    BY <2>2, <2>3, <2>4
<1>6. FileIds = Ids(block, O)
  <2>1. \A s \in O : s # 1 /\ s \in Sectors
    <3>1. \A s \in O : s \in Sectors \ (0..3)
      <4>1. FilesOn(block, Sectors, Ids(block, O)) /\ O \subseteq Ids(block, O)
        BY <1>3 DEF StoreRight, Ids
      <4> HIDE DEF O
      <4> QED
        BY <4>1, FilesOfMap
    <3> QED
      BY <3>1, FirstSectors
  <2>2. O = {s \in Sectors \ {0, 1} : inodes[s] # NULL}
    BY <2>1 DEF OpenedIn, FREE_MAP_SECTOR
  <2>3. {EntrySector(block, i) : i \in InUse(block)} = Named(block)
    BY <1>1 DEF Named
  <2> QED
    BY <2>2, <2>3 DEF FileIds, Ids, FREE_MAP_SECTOR, ROOT_DIR_SECTOR
<1>7. ASSUME NEW s PROVE FileBytes([start |-> block[s][2], length |-> block[s][3]]) = BytesOf(block, s)
  BY DEF FileBytes, BytesOf
<1>8. StoreContent = ContentOf(block, O)
  BY <1>6, <1>7 DEF StoreContent, ContentOf
<1> QED
  BY <1>5, <1>8

LEMMA StepsOfStore ==
  ASSUME IInv, SInv, IInv', SInv', Steps
  PROVE  [Store!Next]_(Store!vars)
<1> DEFINE r == StoreRoot
           c == StoreContent
           q == StoreRoot'
           b == StoreContent'
<1>1. r = RootOf(block) /\ c = ContentOf(block, OpenedIn(inodes))
  BY StoreIs
<1>2. (IInv /\ SInv => StoreRoot = RootOf(block) /\ StoreContent = ContentOf(block, OpenedIn(inodes)))'
  BY StoreIs, PTL
<1>3. q = RootOf(block') /\ b = ContentOf(block', OpenedIn(inodes'))
  BY <1>2
<1>4. StoreStep(r, c, q, b)
  BY <1>1, <1>3 DEF Steps
<1>5. CASE Creates(r, c, q, b)
  <2>1. PICK n \in Names \ DOMAIN r, f \in Sectors \ DOMAIN c, len \in Sizes :
          /\ q = [z \in DOMAIN r \cup {n} |-> IF z = n THEN f ELSE r[z]]
          /\ b = [z \in DOMAIN c \cup {f} |-> IF z = f THEN [i \in 1..len |-> 0] ELSE c[z]]
    BY <1>5 DEF Creates
  <2>2. Store!Create
    BY <2>1 DEF Store!Create, Store!With
  <2> QED
    BY <2>2 DEF Store!Next
<1>6. CASE Writes(r, c, q, b)
  <2>1. Store!Write
    BY <1>6 DEF Writes, Store!Write
  <2> QED
    BY <2>1 DEF Store!Next
<1>7. CASE Removes(r, c, q, b)
  <2>1. Store!Remove
    BY <1>7 DEF Removes, Store!Remove, Store!Without, Store!Restrict
  <2> QED
    BY <2>1 DEF Store!Next
<1>8. CASE Forgets(r, c, q, b)
  <2>1. Store!Forget
    BY <1>8 DEF Forgets, Store!Forget, Store!Without, Store!Named, Store!Restrict, Store!Range
  <2> QED
    BY <2>1 DEF Store!Next
<1>9. CASE q = r /\ b = c
  BY <1>9 DEF Store!vars
<1> QED
  BY <1>4, <1>5, <1>6, <1>7, <1>8, <1>9 DEF StoreStep

\* One step keeps the disk a store.
LEMMA StoreKept ==
  LookupsEnd /\ IInv /\ SInv /\ program \in Programs /\ [Next]_vars =>
    IInv' /\ SInv' /\ program' \in Programs /\ Steps
<1> SUFFICES ASSUME LookupsEnd, IInv, SInv, program \in Programs, [Next]_vars
             PROVE  IInv' /\ SInv' /\ program' \in Programs /\ Steps
  OBVIOUS
<1>1. IInv' /\ program' \in Programs
  BY NextKeeps
<1>2. Follows
  BY NextFollows
<1> QED
  BY <1>1, <1>2 DEF Follows, SInv

\* The names of the disk at this moment are those of a store.
LEMMA NamesApart == IInv /\ SInv => NamesDistinct
<1> SUFFICES ASSUME IInv, SInv, NEW i \in InUse(block), NEW j \in InUse(block),
                    EntryName(block, i) = EntryName(block, j)
             PROVE  i = j
  BY DEF NamesDistinct
<1>1. InUse(block) = Used(block) /\ DiskRight(block)
  BY DiskNow
<1>2. StoreRight(block, OpenedIn(inodes))
  BY StoreNowRight
<1>3. \A k : EntryName(block, k) = DirOf(block)[k].name
  <2>1. block[1] = <<"inode", 3, 1>>
    BY <1>1 DEF DiskRight, Layout
  <2> QED
    BY <2>1 DEF EntryName, DirOf, ROOT_DIR_SECTOR
<1> QED
  BY <1>1, <1>2, <1>3 DEF StoreRight

\* Wherever the power fails, the names on the disk stand for whole files, apart from each
\* other; and they are distinct if the searches of dir_add run to their end.
THEOREM CrashSafeHolds == Spec => []CrashSafe
<1>1. CASE LookupsEnd
  <2> DEFINE Inv == IInv /\ SInv /\ program \in Programs
  <2>1. Init => Inv
    BY InitRight, StartsAsStore DEF Init
  <2>2. Inv /\ [Next]_vars => Inv'
    BY <1>1, StoreKept
  <2>3. Inv => CrashSafe
    BY DiskSafe, NamesApart DEF CrashSafe
  <2> QED
    BY <2>1, <2>2, <2>3, PTL DEF Spec
<1>2. CASE ~LookupsEnd
  <2>1. IInv => CrashSafe
    BY <1>2, DiskSafe DEF CrashSafe
  <2> QED
    BY <2>1, Invariant, PTL
<1> QED
  BY <1>1, <1>2

\* Whatever is created, written and removed, wherever the power fails between two
\* block writes, and in whatever order the sectors are written: the directory and
\* the files behave as a store of names and bytes, in which one block write is one
\* step at most.  This needs the searches of dir_add to run to their end
\* (directory.c:156 and 166): one that finds no memory takes a name for free and
\* gives it twice, or overwrites an entry that is in use.
THEOREM ImplementsStoreHolds == LookupsEnd => (Spec => ImplementsStore)
<1> SUFFICES ASSUME LookupsEnd PROVE Spec => ImplementsStore
  OBVIOUS
<1> DEFINE Inv == IInv /\ SInv /\ program \in Programs
<1>1. Init => Inv /\ Store!Init
  <2> SUFFICES ASSUME Init PROVE Inv /\ Store!Init
    OBVIOUS
  <2>1. IInv /\ SInv /\ RootOf(block) = <<>> /\ ContentOf(block, OpenedIn(inodes)) = <<>>
    BY InitRight, StartsAsStore
  <2>2. Store!Init
    BY <2>1, StoreIs DEF Store!Init
  <2> QED
    BY <2>1, <2>2 DEF Init
<1>2. Inv /\ [Next]_vars => Inv' /\ [Store!Next]_(Store!vars)
  <2> SUFFICES ASSUME Inv, [Next]_vars PROVE Inv' /\ [Store!Next]_(Store!vars)
    OBVIOUS
  <2>1. IInv' /\ SInv' /\ program' \in Programs /\ Steps
    BY StoreKept
  <2> QED
    BY <2>1, StepsOfStore
<1> QED
  BY <1>1, <1>2, PTL DEF Spec, ImplementsStore, Store!Spec
=============================================================================
