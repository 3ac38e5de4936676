-------------------------- MODULE MerkleRootProofs --------------------------
(***************************************************************************)
(* Proofs about the Merkle root: it is that of the tree by its definition, *)
(* and no two ledgers have the same one.                                   *)
(***************************************************************************)
EXTENDS MerkleProofs

\* A leaf hash is never that of a pair: what is hashed for a leaf is a
\* transaction and never two hashes put together.
LeavesAreNoPairs == \A a, b : HashPair(a, b) \notin LeafHashes

-----------------------------------------------------------------------------
(* The recursive definition of the rows has a solution *)

\* The rows up to the k-th.
FirstRows(f, row, k) ==
  f = [l \in 0 .. k |-> IF l = 0 THEN row ELSE Halved(f[l - 1])]

LEMMA FirstRowsExist ==
  ASSUME NEW row
  PROVE  \A k \in Nat : \E f : FirstRows(f, row, k)
<1> DEFINE S == {k \in Nat : \E f : FirstRows(f, row, k)}
<1>1. 0 \in S
  <2>1. FirstRows([l \in 0 .. 0 |-> row], row, 0)
    BY DEF FirstRows
  <2> QED
    BY <2>1
<1>2. ASSUME NEW n \in Nat, n \in S PROVE n + 1 \in S
  <2>1. PICK f : FirstRows(f, row, n)
    BY <1>2
  <2>2. PICK g : g = [l \in 0 .. n + 1 |-> IF l <= n THEN f[l] ELSE Halved(f[n])]
    OBVIOUS
  <2>3. \A l \in 0 .. n + 1 : g[l] = IF l = 0 THEN row ELSE Halved(g[l - 1])
    <3> TAKE l \in 0 .. n + 1
    <3>1. CASE l = 0
      BY <2>1, <2>2, <3>1 DEF FirstRows
    <3>2. CASE l \in 1 .. n
      BY <2>1, <2>2, <3>2 DEF FirstRows
    <3>3. CASE l = n + 1
      <4>1. g[l] = Halved(f[n]) /\ g[l - 1] = f[n]
        BY <2>2, <3>3
      <4> QED
        BY <3>3, <4>1
    <3> QED
      BY <3>1, <3>2, <3>3
  <2>4. FirstRows(g, row, n + 1)
    BY <2>2, <2>3 DEF FirstRows
  <2> QED
    BY <2>4
<1>3. \A n \in Nat : n \in S
  <2> HIDE DEF S
  <2> QED
    BY <1>1, <1>2, SetInduction
<1> QED
  BY <1>3

LEMMA FirstRowsAgree ==
  ASSUME NEW row, NEW k \in Nat, NEW m \in Nat, NEW f, NEW g,
         FirstRows(f, row, k), FirstRows(g, row, m)
  PROVE  \A l \in Nat : l <= k /\ l <= m => f[l] = g[l]
<1> DEFINE S == {l \in Nat : l <= k /\ l <= m => f[l] = g[l]}
<1>1. 0 \in S
  BY DEF FirstRows
<1>2. ASSUME NEW n \in Nat, n \in S PROVE n + 1 \in S
  <2>1. ASSUME n + 1 <= k, n + 1 <= m PROVE f[n + 1] = g[n + 1]
    <3>1. n + 1 \in 0 .. k /\ n + 1 \in 0 .. m /\ n + 1 # 0
      BY <2>1
    <3>2. f[n + 1] = Halved(f[(n + 1) - 1]) /\ g[n + 1] = Halved(g[(n + 1) - 1])
      BY <3>1 DEF FirstRows
    <3>3. f[n] = g[n] /\ (n + 1) - 1 = n
      BY <1>2, <2>1
    <3> QED
      BY <3>2, <3>3
  <2> QED
    BY <2>1
<1>3. \A n \in Nat : n \in S
  <2> HIDE DEF S
  <2> QED
    BY <1>1, <1>2, SetInduction
<1> QED
  BY <1>3

LEMMA RowsAre ==
  ASSUME NEW row
  PROVE  /\ Rows(row)[0] = row
         /\ \A l \in Nat : Rows(row)[l + 1] = Halved(Rows(row)[l])
<1> DEFINE First(k) == CHOOSE f : FirstRows(f, row, k)
           chain == [k \in Nat |-> First(k)[k]]
<1>1. \A k \in Nat : FirstRows(First(k), row, k)
  BY FirstRowsExist
<1>2. chain = [k \in Nat |-> IF k = 0 THEN row ELSE Halved(chain[k - 1])]
  <2> SUFFICES ASSUME NEW k \in Nat
               PROVE  chain[k] = IF k = 0 THEN row ELSE Halved(chain[k - 1])
    <3> HIDE DEF First
    <3>1. chain = [k \in Nat |-> chain[k]]
      OBVIOUS
    <3> HIDE DEF chain
    <3> QED
      BY <3>1
  <2>1. First(k)[k] = IF k = 0 THEN row ELSE Halved(First(k)[k - 1])
    <3> HIDE DEF First
    <3> QED
      BY <1>1 DEF FirstRows
  <2>2. ASSUME k # 0 PROVE First(k)[k - 1] = First(k - 1)[k - 1]
    <3>1. k - 1 \in Nat /\ k - 1 <= k
      BY <2>2
    <3>2. FirstRows(First(k), row, k) /\ FirstRows(First(k - 1), row, k - 1)
      BY <1>1, <3>1
    <3> HIDE DEF First
    <3> QED
      BY <3>1, <3>2, FirstRowsAgree
  <2>3. chain[k] = First(k)[k] /\ (k # 0 => chain[k - 1] = First(k - 1)[k - 1])
    <3> HIDE DEF First
    <3> QED
      OBVIOUS
  <2> HIDE DEF First, chain
  <2> QED
    BY <2>1, <2>2, <2>3
<1> HIDE DEF chain
<1>3. PICK rows : /\ rows = Rows(row)
                  /\ rows = [l \in Nat |-> IF l = 0 THEN row ELSE Halved(rows[l - 1])]
  BY <1>2 DEF Rows
<1>4. rows[0] = row
  BY <1>3
<1>5. ASSUME NEW l \in Nat PROVE rows[l + 1] = Halved(rows[l])
  <2>1. l + 1 \in Nat /\ l + 1 # 0 /\ (l + 1) - 1 = l
    OBVIOUS
  <2> QED
    BY <1>3, <2>1
<1> QED
  BY <1>3, <1>4, <1>5
-----------------------------------------------------------------------------
(* The rows of a tree *)

Tree(row) == Array(row) /\ Len(row) \in Nat /\ Len(row) >= 1

\* The children of the j-th node of the row above a row of n.
Left(j) == 2 * j - 1
Right(n, j) == IF 2 * j > n THEN n ELSE 2 * j

LEMMA ChildrenAre ==
  ASSUME NEW n \in Nat, n >= 1
  PROVE  /\ (n + 1) \div 2 \in Nat /\ (n + 1) \div 2 >= 1
         /\ \A j \in 1 .. (n + 1) \div 2 : Left(j) \in 1 .. n /\ Right(n, j) \in 1 .. n
         /\ \A i \in 1 .. n : \E j \in 1 .. (n + 1) \div 2 : i = Left(j) \/ i = Right(n, j)
<1>1. (n + 1) \div 2 \in Nat /\ (n + 1) \div 2 >= 1
  OBVIOUS
<1>2. ASSUME NEW j \in 1 .. (n + 1) \div 2
      PROVE  Left(j) \in 1 .. n /\ Right(n, j) \in 1 .. n
  BY DEF Left, Right
<1>3. ASSUME NEW i \in 1 .. n
      PROVE  \E j \in 1 .. (n + 1) \div 2 : i = Left(j) \/ i = Right(n, j)
  <2>1. PICK j : j = (i + 1) \div 2
    OBVIOUS
  <2>2. j \in 1 .. (n + 1) \div 2 /\ (i = 2 * j - 1 \/ i = 2 * j)
    BY <2>1
  <2> QED
    BY <2>2 DEF Left, Right
<1> QED
  BY <1>1, <1>2, <1>3

LEMMA HalvedIs ==
  ASSUME NEW row, Tree(row)
  PROVE  /\ Tree(Halved(row))
         /\ Len(Halved(row)) = (Len(row) + 1) \div 2
         /\ \A j \in 1 .. Len(Halved(row)) :
              Halved(row)[j] = HashPair(row[Left(j)], row[Right(Len(row), j)])
<1> PICK n \in Nat : n = Len(row) /\ n >= 1
  BY DEF Tree
<1> DEFINE half == (n + 1) \div 2
           Node(j) == HashPair(row[Left(j)], row[Right(n, j)])
           S == {Node(j) : j \in 1 .. half}
<1>1. half \in Nat /\ half >= 1
  OBVIOUS
<1>2. Halved(row) = [j \in 1 .. half |-> Node(j)]
  BY DEF Halved, Left, Right
<1>3. Halved(row) \in [1 .. half -> S]
  BY <1>2
<1>4. Halved(row) \in Seq(S) /\ Len(Halved(row)) = half
  <2> HIDE DEF half, S
  <2> QED
    BY <1>1, <1>3
<1>5. Array(Halved(row))
  <2> HIDE DEF S
  <2> QED
    BY <1>4, ArrayOf
<1>6. \A j \in 1 .. half : Halved(row)[j] = Node(j)
  BY <1>2
<1> QED
  BY <1>1, <1>4, <1>5, <1>6 DEF Tree

LEMMA RowsAreTrees ==
  ASSUME NEW row, Tree(row)
  PROVE  \A l \in Nat : Tree(Rows(row)[l])
<1> DEFINE S == {l \in Nat : Tree(Rows(row)[l])}
<1>1. 0 \in S
  BY RowsAre
<1>2. ASSUME NEW n \in Nat, n \in S PROVE n + 1 \in S
  BY <1>2, RowsAre, HalvedIs
<1>3. \A n \in Nat : n \in S
  <2> HIDE DEF S
  <2> QED
    BY <1>1, <1>2, SetInduction
<1> QED
  BY <1>3

LEMMA RowsShrink ==
  ASSUME NEW row, Tree(row)
  PROVE  \A l \in Nat : \/ Len(Rows(row)[l]) = 1
                        \/ Len(Rows(row)[l]) + l <= Len(row)
<1> PICK n \in Nat : n = Len(row)
  BY DEF Tree
<1> DEFINE Shrunk(l) == Len(Rows(row)[l]) = 1 \/ Len(Rows(row)[l]) + l <= n
           S == {l \in Nat : Shrunk(l)}
<1>1. 0 \in S
  <2>1. Len(Rows(row)[0]) + 0 <= n
    BY RowsAre
  <2> QED
    BY <2>1
<1>2. ASSUME NEW l \in Nat, Shrunk(l) PROVE Shrunk(l + 1)
  <2>1. PICK w \in Nat : w = Len(Rows(row)[l]) /\ w >= 1
    BY RowsAreTrees DEF Tree
  <2>2. Len(Rows(row)[l + 1]) = (w + 1) \div 2
    <3>1. Tree(Rows(row)[l]) /\ Rows(row)[l + 1] = Halved(Rows(row)[l])
      BY RowsAre, RowsAreTrees
    <3> QED
      BY <2>1, <3>1, HalvedIs
  <2>3. w = 1 \/ w + l <= n
    BY <1>2, <2>1
  <2>4. CASE w = 1
    <3>1. (w + 1) \div 2 = 1
      BY <2>4
    <3> QED
      BY <2>2, <3>1
  <2>5. CASE w >= 2
    <3>1. PICK v \in Nat : v = (w + 1) \div 2 /\ v + 1 <= w
      BY <2>5
    <3>2. w + l <= n
      BY <2>3, <2>5
    <3>3. v + (l + 1) <= n
      BY <3>1, <3>2
    <3> QED
      BY <2>2, <3>1, <3>3
  <2>6. w = 1 \/ w >= 2
    <3>1. w \in Nat /\ w >= 1
      BY <2>1
    <3> HIDE DEF S, Shrunk
    <3> QED
      BY <3>1
  <2> HIDE DEF Shrunk
  <2> QED
    BY <2>4, <2>5, <2>6
<1>3. \A l \in Nat : l \in S
  <2>1. \A l \in Nat : l \in S => l + 1 \in S
    <3> HIDE DEF Shrunk
    <3> QED
      BY <1>2
  <2> HIDE DEF S
  <2> QED
    BY <1>1, <2>1, SetInduction
<1> QED
  BY <1>3

\* The first row with a single node.
Top(row, l) ==
  Len(Rows(row)[l]) = 1 /\ \A k \in 0 .. l - 1 : Len(Rows(row)[k]) # 1

LEMMA HeightIs ==
  ASSUME NEW row, Tree(row)
  PROVE  /\ Height(row) \in Nat
         /\ Top(row, Height(row))
         /\ \A l \in Nat : Top(row, l) => l = Height(row)
<1> PICK n \in Nat : n = Len(row)
  BY DEF Tree
<1>1. Len(Rows(row)[n]) = 1
  <2>1. Len(Rows(row)[n]) \in Nat /\ Len(Rows(row)[n]) >= 1
    BY RowsAreTrees DEF Tree
  <2> QED
    BY <2>1, RowsShrink
<1>2. \E l \in 0 .. n : Top(row, l)
  <2> SUFFICES ASSUME \A l \in 0 .. n : ~Top(row, l) PROVE FALSE
    OBVIOUS
  <2> DEFINE S == {l \in Nat : \A k \in 0 .. l : k <= n => Len(Rows(row)[k]) # 1}
  <2>1. ASSUME NEW l \in 0 .. n, \A k \in 0 .. l - 1 : Len(Rows(row)[k]) # 1
        PROVE  Len(Rows(row)[l]) # 1
    BY <2>1 DEF Top
  <2>2. 0 \in S
    <3>1. Len(Rows(row)[0]) # 1
      BY <2>1
    <3> QED
      BY <3>1
  <2>3. ASSUME NEW l \in Nat, l \in S PROVE l + 1 \in S
    <3> SUFFICES ASSUME NEW k \in 0 .. l + 1, k <= n PROVE Len(Rows(row)[k]) # 1
      OBVIOUS
    <3>1. CASE k <= l
      BY <2>3, <3>1
    <3>2. CASE k = l + 1
      <4>1. \A j \in 0 .. k - 1 : Len(Rows(row)[j]) # 1
        BY <2>3, <3>2
      <4> QED
        BY <2>1, <4>1
    <3> QED
      BY <3>1, <3>2
  <2>4. \A l \in Nat : l \in S
    <3> HIDE DEF S
    <3> QED
      BY <2>2, <2>3, SetInduction
  <2> QED
    BY <1>1, <2>4
<1>3. Height(row) \in 0 .. n /\ Top(row, Height(row))
  <2>1. Height(row) = CHOOSE l \in 0 .. n : Top(row, l)
    BY DEF Height, Top
  <2> QED
    BY <1>2, <2>1
<1>4. ASSUME NEW l \in Nat, NEW k \in Nat, Top(row, l), Top(row, k), l < k
      PROVE  FALSE
  BY <1>4 DEF Top
<1>5. ASSUME NEW l \in Nat, Top(row, l) PROVE l = Height(row)
  <2>1. Height(row) \in Nat
    BY <1>3
  <2> QED
    BY <1>3, <1>4, <1>5, <2>1
<1> QED
  BY <1>3, <1>5
-----------------------------------------------------------------------------
(* The service's levels are the rows *)

LEMMA NextLevelIsHalved ==
  ASSUME NEW cur, Len(cur) \in Nat
  PROVE  NextLevel(cur) = Halved(cur)
<1> PICK n \in Nat : n = Len(cur)
  OBVIOUS
<1>1. ASSUME NEW i \in 1 .. (n + 1) \div 2
      PROVE  PairAt(cur, i) =
               HashPair(cur[2 * i - 1], cur[IF 2 * i > n THEN n ELSE 2 * i])
  <2>1. CASE 2 * i <= n
    BY <2>1 DEF PairAt
  <2>2. CASE 2 * i > n
    <3>1. 2 * i - 1 = n
      BY <2>2
    <3> QED
      BY <2>2, <3>1 DEF PairAt
  <2> QED
    BY <2>1, <2>2
<1> QED
  BY <1>1 DEF NextLevel, Halved

LEMMA LevelsAreRows ==
  ASSUME MerkleInv, levels # <<>>
  PROVE  /\ Tree(leaves)
         /\ \A l \in Nat : l < Len(levels) => levels[l + 1] = Rows(leaves)[l]
<1>1. PICK n : n = Len(levels)
  OBVIOUS
<1>2. n \in Nat \ {0}
  BY <1>1, ArrayLen DEF MerkleInv, LevelsInv, Array
<1>3. /\ levels[1] = leaves
      /\ \A l \in 1 .. n : Array(levels[l]) /\ Len(levels[l]) >= 1
      /\ \A l \in 1 .. n - 1 : levels[l + 1] = NextLevel(levels[l])
  BY <1>1 DEF MerkleInv, LevelsInv
<1>4. Tree(leaves)
  BY <1>2, <1>3, ArrayLen DEF Tree
<1> DEFINE S == {l \in Nat : l < n => levels[l + 1] = Rows(leaves)[l]}
<1>5. 0 \in S
  BY <1>3, RowsAre
<1>6. ASSUME NEW l \in Nat, l \in S PROVE l + 1 \in S
  <2>1. ASSUME l + 1 < n PROVE levels[(l + 1) + 1] = Rows(leaves)[l + 1]
    <3>1. l + 1 \in 1 .. n - 1 /\ l + 1 \in 1 .. n
      BY <1>2, <2>1
    <3>2. levels[(l + 1) + 1] = NextLevel(levels[l + 1]) /\ Len(levels[l + 1]) \in Nat
      BY <1>3, <3>1, ArrayLen
    <3>3. levels[l + 1] = Rows(leaves)[l]
      BY <1>2, <1>6, <2>1
    <3>4. Rows(leaves)[l + 1] = Halved(Rows(leaves)[l])
      BY RowsAre
    <3> QED
      BY <3>2, <3>3, <3>4, NextLevelIsHalved
  <2> QED
    BY <2>1
<1>7. \A l \in Nat : l \in S
  <2> HIDE DEF S
  <2> QED
    BY <1>5, <1>6, SetInduction
<1> QED
  BY <1>1, <1>4, <1>7

LEMMA RootComputed == MerkleInv /\ Done => Tree(leaves) /\ merkleRoot = Root(leaves)
<1> SUFFICES ASSUME MerkleInv, Done PROVE Tree(leaves) /\ merkleRoot = Root(leaves)
  OBVIOUS
<1>1. PICK n : n = Len(levels)
  OBVIOUS
<1>2. levels # <<>> /\ n \in Nat \ {0}
  BY <1>1, ArrayLen DEF Done, MerkleInv, LevelsInv, Array
<1>3. PICK t \in Nat : t = n - 1
  BY <1>2
<1>4. /\ Tree(leaves)
      /\ \A l \in Nat : l < n => levels[l + 1] = Rows(leaves)[l]
  BY <1>1, <1>2, LevelsAreRows
<1>5. LastOf(levels) = Rows(leaves)[t]
  <2>1. t + 1 = n /\ t < n
    BY <1>2, <1>3
  <2> QED
    BY <1>1, <1>4, <2>1 DEF LastOf
<1>6. Top(leaves, t)
  <2>1. Len(Rows(leaves)[t]) = 1
    BY <1>2, <1>5 DEF MerkleInv, LevelsInv
  <2>2. ASSUME NEW k \in 0 .. t - 1 PROVE Len(Rows(leaves)[k]) # 1
    <3>1. k \in Nat /\ k < n /\ k + 1 \in 1 .. n - 1
      BY <1>2, <1>3
    <3>2. Len(levels[k + 1]) > 1 /\ Array(levels[k + 1])
      BY <1>1, <1>2, <3>1 DEF MerkleInv, LevelsInv
    <3>3. levels[k + 1] = Rows(leaves)[k]
      BY <1>4, <3>1
    <3>4. Len(levels[k + 1]) # 1
      <4>1. PICK w : w = Len(levels[k + 1])
        OBVIOUS
      <4>2. w \in Nat /\ w > 1
        BY <3>2, <4>1, ArrayLen
      <4>3. w # 1
        BY <4>2
      <4> QED
        BY <4>1, <4>3
    <3> QED
      BY <3>3, <3>4
  <2> QED
    BY <2>1, <2>2 DEF Top
<1>7. t = Height(leaves)
  BY <1>4, <1>6, HeightIs
<1> QED
  BY <1>4, <1>5, <1>7 DEF merkleRoot, Root

-----------------------------------------------------------------------------
(* Equal roots are those of equal ledgers *)

Nodes(row, l) == {Rows(row)[l][i] : i \in 1 .. Len(Rows(row)[l])}

\* Row l + 1 holds the pairs of row l.
LEMMA RowAbove ==
  ASSUME NEW row, Tree(row), NEW l \in Nat
  PROVE  /\ Len(Rows(row)[l]) \in Nat /\ Len(Rows(row)[l]) >= 1
         /\ Len(Rows(row)[l + 1]) = (Len(Rows(row)[l]) + 1) \div 2
         /\ \A j \in 1 .. Len(Rows(row)[l + 1]) :
              Rows(row)[l + 1][j] =
                HashPair(Rows(row)[l][Left(j)],
                         Rows(row)[l][Right(Len(Rows(row)[l]), j)])
<1>1. Tree(Rows(row)[l]) /\ Rows(row)[l + 1] = Halved(Rows(row)[l])
  BY RowsAre, RowsAreTrees
<1> QED
  BY <1>1, HalvedIs DEF Tree

LEMMA PairsApart ==
  ASSUME Injective, NEW a, NEW b, NEW c, NEW d, HashPair(a, b) = HashPair(c, d)
  PROVE  a = c /\ b = d
BY DEF Injective

LEMMA NodesDescend ==
  ASSUME Injective, NEW s, Tree(s), NEW t, Tree(t), NEW k \in Nat, NEW l \in Nat,
         Nodes(s, k + 1) \subseteq Nodes(t, l + 1)
  PROVE  Nodes(s, k) \subseteq Nodes(t, l)
<1> SUFFICES ASSUME NEW x \in Nodes(s, k) PROVE x \in Nodes(t, l)
  OBVIOUS
<1> PICK n, m, p, q : /\ n = Len(Rows(s)[k]) /\ m = Len(Rows(s)[k + 1])
                      /\ p = Len(Rows(t)[l]) /\ q = Len(Rows(t)[l + 1])
  OBVIOUS
<1>1. /\ n \in Nat /\ n >= 1 /\ m = (n + 1) \div 2
      /\ \A j \in 1 .. m :
           Rows(s)[k + 1][j] = HashPair(Rows(s)[k][Left(j)], Rows(s)[k][Right(n, j)])
  BY RowAbove
<1>2. /\ p \in Nat /\ p >= 1 /\ q = (p + 1) \div 2
      /\ \A j \in 1 .. q :
           Rows(t)[l + 1][j] = HashPair(Rows(t)[l][Left(j)], Rows(t)[l][Right(p, j)])
  BY RowAbove
<1>3. PICK i \in 1 .. n : x = Rows(s)[k][i]
  BY DEF Nodes
<1>4. PICK j \in 1 .. m : i = Left(j) \/ i = Right(n, j)
  BY <1>1, ChildrenAre
<1>5. Rows(s)[k + 1][j] \in Nodes(t, l + 1)
  BY DEF Nodes
<1>6. PICK c \in 1 .. q : Rows(s)[k + 1][j] = Rows(t)[l + 1][c]
  BY <1>5 DEF Nodes
<1>7. /\ Rows(s)[k][Left(j)] = Rows(t)[l][Left(c)]
      /\ Rows(s)[k][Right(n, j)] = Rows(t)[l][Right(p, c)]
  <2>1. HashPair(Rows(s)[k][Left(j)], Rows(s)[k][Right(n, j)])
          = HashPair(Rows(t)[l][Left(c)], Rows(t)[l][Right(p, c)])
    BY <1>1, <1>2, <1>6
  <2> QED
    BY <2>1, PairsApart
<1>8. Left(c) \in 1 .. p /\ Right(p, c) \in 1 .. p
  BY <1>2, ChildrenAre
<1>9. Rows(t)[l][Left(c)] \in Nodes(t, l) /\ Rows(t)[l][Right(p, c)] \in Nodes(t, l)
  BY <1>8 DEF Nodes
<1> QED
  BY <1>3, <1>4, <1>7, <1>9

LEMMA NodesBelow ==
  ASSUME Injective, NEW s, Tree(s), NEW t, Tree(t), NEW a \in Nat, NEW b \in Nat,
         Nodes(s, a) \subseteq Nodes(t, b)
  PROVE  \A d \in Nat : d <= a /\ d <= b => Nodes(s, a - d) \subseteq Nodes(t, b - d)
<1> DEFINE S == {d \in Nat : d <= a /\ d <= b =>
                               Nodes(s, a - d) \subseteq Nodes(t, b - d)}
<1>1. 0 \in S
  <2>1. a - 0 = a /\ b - 0 = b
    OBVIOUS
  <2> QED
    BY <2>1
<1>2. ASSUME NEW d \in Nat, d \in S PROVE d + 1 \in S
  <2>1. ASSUME d + 1 <= a, d + 1 <= b
        PROVE  Nodes(s, a - (d + 1)) \subseteq Nodes(t, b - (d + 1))
    <3>1. PICK k \in Nat, l \in Nat : k = a - (d + 1) /\ l = b - (d + 1)
      BY <2>1
    <3>2. k + 1 = a - d /\ l + 1 = b - d
      BY <3>1
    <3>3. Nodes(s, a - d) \subseteq Nodes(t, b - d)
      BY <1>2, <2>1
    <3>4. Nodes(s, k + 1) \subseteq Nodes(t, l + 1)
      BY <3>2, <3>3
    <3> QED
      BY <3>1, <3>4, NodesDescend
  <2> QED
    BY <2>1
<1>3. \A d \in Nat : d \in S
  <2> HIDE DEF S
  <2> QED
    BY <1>1, <1>2, SetInduction
<1> QED
  BY <1>3

Ledger(s) == s \in Seq(LeafHashes) /\ Len(s) >= 1

Distinct(s) == \A i, j \in DOMAIN s : s[i] = s[j] => i = j

LEMMA LedgerTree == ASSUME NEW s, Ledger(s) PROVE Tree(s)
BY ArrayOf DEF Ledger, Tree

\* The bottom row is never reached in the middle of another tree.
LEMMA SameLeaves ==
  ASSUME Injective, LeavesAreNoPairs, NEW s, NEW t, Ledger(s), Ledger(t),
         Root(s) = Root(t), Height(s) <= Height(t)
  PROVE  Height(s) = Height(t) /\ Nodes(s, 0) \subseteq Nodes(t, 0)
<1>1. Tree(s) /\ Tree(t)
  BY LedgerTree
<1>2. PICK a \in Nat, b \in Nat : a = Height(s) /\ b = Height(t)
  BY <1>1, HeightIs
<1>3. Len(Rows(s)[a]) = 1 /\ Len(Rows(t)[b]) = 1
  BY <1>1, <1>2, HeightIs DEF Top
<1>4. Rows(s)[a][1] = Rows(t)[b][1]
  BY <1>2 DEF Root
<1>5. Nodes(s, a) \subseteq Nodes(t, b)
  <2>1. Nodes(s, a) = {Rows(s)[a][1]} /\ Nodes(t, b) = {Rows(t)[b][1]}
    <3>1. 1 .. 1 = {1}
      OBVIOUS
    <3> QED
      BY <1>3, <3>1 DEF Nodes
  <2> QED
    BY <1>4, <2>1
<1>6. PICK c \in Nat : c = b - a
  BY <1>2
<1>7. Nodes(s, 0) \subseteq Nodes(t, c)
  <2>1. Nodes(s, a - a) \subseteq Nodes(t, b - a)
    BY <1>1, <1>2, <1>5, NodesBelow
  <2>2. a - a = 0
    OBVIOUS
  <2> QED
    BY <1>6, <2>1, <2>2
<1>8. s[1] \in LeafHashes /\ s[1] \in Nodes(s, 0)
  <2>1. Rows(s)[0] = s
    BY RowsAre
  <2> QED
    BY <2>1 DEF Ledger, Nodes
<1>9. c = 0
  <2> SUFFICES ASSUME c # 0 PROVE FALSE
    OBVIOUS
  <2>1. PICK l \in Nat : c = l + 1
    <3>1. c - 1 \in Nat /\ c = (c - 1) + 1
      OBVIOUS
    <3> QED
      BY <3>1
  <2>2. PICK j \in 1 .. Len(Rows(t)[l + 1]) : s[1] = Rows(t)[l + 1][j]
    BY <1>7, <1>8, <2>1 DEF Nodes
  <2>3. \E x, y : s[1] = HashPair(x, y)
    <3>1. Rows(t)[l + 1][j] =
            HashPair(Rows(t)[l][Left(j)], Rows(t)[l][Right(Len(Rows(t)[l]), j)])
      BY <1>1, RowAbove
    <3> QED
      BY <2>2, <3>1
  <2> QED
    BY <1>8, <2>3 DEF LeavesAreNoPairs
<1> QED
  BY <1>2, <1>6, <1>7, <1>9

LEMMA IntervalSize ==
  ASSUME NEW n \in Nat
  PROVE  IsFiniteSet(1 .. n) /\ Cardinality(1 .. n) = n
<1>1. /\ IsFiniteSet(1 .. n)
      /\ Cardinality(1 .. n) = IF 1 > n THEN 0 ELSE n - 1 + 1
  BY FS_Interval
<1> QED
  BY <1>1

LEMMA SameLength ==
  ASSUME NEW s, NEW t, Ledger(s), Ledger(t), Distinct(s),
         Nodes(s, 0) \subseteq Nodes(t, 0)
  PROVE  Len(s) <= Len(t)
<1> PICK n \in Nat, m \in Nat : n = Len(s) /\ m = Len(t)
  BY DEF Ledger
<1> SUFFICES ASSUME m < n PROVE FALSE
  OBVIOUS
<1>1. ASSUME NEW i \in 1 .. n PROVE \E j \in 1 .. m : s[i] = t[j]
  <2>1. Rows(s)[0] = s /\ Rows(t)[0] = t
    BY RowsAre
  <2>2. s[i] \in Nodes(s, 0)
    BY <2>1 DEF Nodes
  <2> QED
    BY <2>1, <2>2 DEF Nodes
<1>3. /\ IsFiniteSet(1 .. n) /\ Cardinality(1 .. n) = n
      /\ IsFiniteSet(1 .. m) /\ Cardinality(1 .. m) = m
  BY IntervalSize
<1> DEFINE place == [i \in 1 .. n |-> CHOOSE j \in 1 .. m : s[i] = t[j]]
<1>2. /\ place \in [1 .. n -> 1 .. m]
      /\ \A i \in 1 .. n : s[i] = t[place[i]]
  BY <1>1
<1>4. PICK x, y \in 1 .. n : x # y /\ place[x] = place[y]
  <2> HIDE DEF place
  <2>1. Cardinality(1 .. m) < Cardinality(1 .. n)
    BY <1>3
  <2> QED
    BY <1>2, <1>3, <2>1, FS_PigeonHole
<1>5. s[x] = s[y]
  BY <1>2, <1>4
<1>6. x \in DOMAIN s /\ y \in DOMAIN s
  BY DEF Ledger
<1> QED
  BY <1>4, <1>5, <1>6 DEF Distinct

\* Rows of trees over equally many leaves have equally many nodes.
LEMMA SameWidths ==
  ASSUME NEW s, Tree(s), NEW t, Tree(t), Len(s) = Len(t)
  PROVE  \A l \in Nat : Len(Rows(s)[l]) = Len(Rows(t)[l])
<1> DEFINE S == {l \in Nat : Len(Rows(s)[l]) = Len(Rows(t)[l])}
<1>1. 0 \in S
  BY RowsAre
<1>2. ASSUME NEW l \in Nat, l \in S PROVE l + 1 \in S
  <2>1. /\ Len(Rows(s)[l + 1]) = (Len(Rows(s)[l]) + 1) \div 2
        /\ Len(Rows(t)[l + 1]) = (Len(Rows(t)[l]) + 1) \div 2
    BY RowAbove
  <2>2. Len(Rows(s)[l + 1]) = Len(Rows(t)[l + 1])
    BY <1>2, <2>1
  <2> QED
    BY <2>2
<1>3. \A l \in Nat : l \in S
  <2> HIDE DEF S
  <2> QED
    BY <1>1, <1>2, SetInduction
<1> QED
  BY <1>3

LEMMA ArraysEqual ==
  ASSUME NEW s, Array(s), NEW t, Array(t), Len(s) = Len(t),
         \A i \in 1 .. Len(s) : s[i] = t[i]
  PROVE  s = t
<1>1. PICK n \in Nat : n = Len(s) /\ n = Len(t)
  BY ArrayLen
<1>2. s = [i \in 1 .. n |-> s[i]] /\ t = [i \in 1 .. n |-> t[i]]
  BY <1>1 DEF Array
<1>3. [i \in 1 .. n |-> s[i]] = [i \in 1 .. n |-> t[i]]
  BY <1>1
<1> QED
  BY <1>2, <1>3

\* Two rows as wide under equal rows are equal.
LEMMA SameRowBelow ==
  ASSUME Injective, NEW s, Tree(s), NEW t, Tree(t), NEW l \in Nat,
         Len(Rows(s)[l]) = Len(Rows(t)[l]), Rows(s)[l + 1] = Rows(t)[l + 1]
  PROVE  Rows(s)[l] = Rows(t)[l]
<1> PICK n, m : n = Len(Rows(s)[l]) /\ m = Len(Rows(s)[l + 1])
  OBVIOUS
<1>1. /\ n \in Nat /\ n >= 1 /\ m = (n + 1) \div 2
      /\ \A j \in 1 .. m :
           Rows(s)[l + 1][j] = HashPair(Rows(s)[l][Left(j)], Rows(s)[l][Right(n, j)])
  BY RowAbove
<1>2. /\ n = Len(Rows(t)[l]) /\ m = Len(Rows(t)[l + 1])
      /\ \A j \in 1 .. m :
           Rows(t)[l + 1][j] = HashPair(Rows(t)[l][Left(j)], Rows(t)[l][Right(n, j)])
  <2>1. n = Len(Rows(t)[l]) /\ m = Len(Rows(t)[l + 1])
    OBVIOUS
  <2>2. \A j \in 1 .. Len(Rows(t)[l + 1]) :
           Rows(t)[l + 1][j] =
             HashPair(Rows(t)[l][Left(j)], Rows(t)[l][Right(Len(Rows(t)[l]), j)])
    BY RowAbove
  <2> QED
    BY <2>1, <2>2
<1>3. ASSUME NEW i \in 1 .. n PROVE Rows(s)[l][i] = Rows(t)[l][i]
  <2>1. PICK j \in 1 .. m : i = Left(j) \/ i = Right(n, j)
    BY <1>1, ChildrenAre
  <2>2. HashPair(Rows(s)[l][Left(j)], Rows(s)[l][Right(n, j)])
          = HashPair(Rows(t)[l][Left(j)], Rows(t)[l][Right(n, j)])
    BY <1>1, <1>2
  <2>3. /\ Rows(s)[l][Left(j)] = Rows(t)[l][Left(j)]
        /\ Rows(s)[l][Right(n, j)] = Rows(t)[l][Right(n, j)]
    BY <2>2, PairsApart
  <2> QED
    BY <2>1, <2>3
<1>4. Array(Rows(s)[l]) /\ Array(Rows(t)[l])
  BY RowsAreTrees DEF Tree
<1> QED
  BY <1>2, <1>3, <1>4, ArraysEqual

\* Two ledgers, each without a repeated transaction, have the same root only
\* if they are the same ledger, whatever their lengths: an odd last node that is
\* paired with itself makes no exception (ledger.ts 234-257).
THEOREM EqualRootsEqualLedgers ==
  ASSUME Injective, LeavesAreNoPairs, NEW s, NEW t, Ledger(s), Ledger(t),
         Distinct(s), Distinct(t), Root(s) = Root(t)
  PROVE  s = t
<1>1. Tree(s) /\ Tree(t)
  BY LedgerTree
<1>2. PICK a \in Nat, b \in Nat : a = Height(s) /\ b = Height(t)
  BY <1>1, HeightIs
<1>3. a = b /\ Nodes(s, 0) \subseteq Nodes(t, 0) /\ Nodes(t, 0) \subseteq Nodes(s, 0)
  <2>1. a <= b => a = b /\ Nodes(s, 0) \subseteq Nodes(t, 0)
    BY <1>2, SameLeaves
  <2>2. b <= a => b = a /\ Nodes(t, 0) \subseteq Nodes(s, 0)
    BY <1>2, SameLeaves
  <2>3. a <= b \/ b <= a
    OBVIOUS
  <2>4. a = b
    BY <2>1, <2>2, <2>3
  <2>5. a <= b /\ b <= a
    BY <2>4
  <2> QED
    BY <2>1, <2>2, <2>5
<1>4. Len(s) = Len(t)
  <2>1. Len(s) <= Len(t) /\ Len(t) <= Len(s)
    BY <1>3, SameLength
  <2>2. Len(s) \in Nat /\ Len(t) \in Nat
    BY DEF Ledger
  <2> QED
    BY <2>1, <2>2
<1>5. \A l \in Nat : Len(Rows(s)[l]) = Len(Rows(t)[l])
  BY <1>1, <1>4, SameWidths
<1>6. \A l \in Nat : Array(Rows(s)[l]) /\ Array(Rows(t)[l])
  BY <1>1, RowsAreTrees DEF Tree
<1> DEFINE S == {d \in Nat : d <= a => Rows(s)[a - d] = Rows(t)[a - d]}
<1>7. 0 \in S
  <2>1. Len(Rows(s)[a]) = 1 /\ Len(Rows(t)[a]) = 1
    BY <1>1, <1>2, <1>3, HeightIs DEF Top
  <2>2. Rows(s)[a][1] = Rows(t)[a][1]
    BY <1>2, <1>3 DEF Root
  <2>3. \A i \in 1 .. Len(Rows(s)[a]) : Rows(s)[a][i] = Rows(t)[a][i]
    <3>1. 1 .. 1 = {1}
      OBVIOUS
    <3> QED
      BY <2>1, <2>2, <3>1
  <2>4. Rows(s)[a] = Rows(t)[a]
    BY <1>6, <2>1, <2>3, ArraysEqual
  <2>5. a - 0 = a
    OBVIOUS
  <2> QED
    BY <2>4, <2>5
<1>8. ASSUME NEW d \in Nat, d \in S PROVE d + 1 \in S
  <2>1. ASSUME d + 1 <= a PROVE Rows(s)[a - (d + 1)] = Rows(t)[a - (d + 1)]
    <3>1. PICK l \in Nat : l = a - (d + 1)
      BY <2>1
    <3>2. l + 1 = a - d
      BY <3>1
    <3>3. Rows(s)[l + 1] = Rows(t)[l + 1]
      BY <1>8, <2>1, <3>2
    <3>4. Len(Rows(s)[l]) = Len(Rows(t)[l])
      BY <1>5
    <3>5. Rows(s)[l] = Rows(t)[l]
      BY <1>1, <3>3, <3>4, SameRowBelow, Zenon
    <3> QED
      BY <3>1, <3>5
  <2> QED
    BY <2>1
<1>9. \A d \in Nat : d \in S
  <2> HIDE DEF S
  <2> QED
    BY <1>7, <1>8, SetInduction
<1>10. Rows(s)[0] = Rows(t)[0]
  <2>1. a - a = 0 /\ a <= a
    OBVIOUS
  <2> QED
    BY <1>9, <2>1
<1> QED
  BY <1>1, <1>10, RowsAre

-----------------------------------------------------------------------------
(* The ledger's roots *)

\* No transaction is in the ledger twice.
LEMMA LeavesDistinct ==
  ASSUME leaves \in Seq(LeafHashes), Distinct(leaves), [Next]_vars
  PROVE  Distinct(leaves')
<1>1. CASE UNCHANGED leaves
  <2>1. leaves' = leaves
    BY <1>1
  <2> QED
    BY <2>1 DEF Distinct
<1>2. ASSUME NEW leaf \in LeafHashes, \A i \in DOMAIN leaves : leaves[i] # leaf,
             AddLeaf(leaf)
      PROVE  Distinct(leaves')
  <2>1. leaves' = Append(leaves, leaf)
    BY <1>2 DEF AddLeaf
  <2>2. PICK now : now = leaves'
    OBVIOUS
  <2>3. /\ DOMAIN now = 1 .. Len(leaves) + 1 /\ Len(leaves) \in Nat
        /\ DOMAIN leaves = 1 .. Len(leaves)
        /\ now[Len(leaves) + 1] = leaf
        /\ \A i \in 1 .. Len(leaves) : now[i] = leaves[i]
    BY <2>1, <2>2
  <2>4. ASSUME NEW i \in DOMAIN now, NEW j \in DOMAIN now, now[i] = now[j]
        PROVE  i = j
    <3>1. CASE i \in DOMAIN leaves /\ j \in DOMAIN leaves
      BY <2>3, <2>4, <3>1 DEF Distinct
    <3>2. CASE i = Len(leaves) + 1 /\ j \in DOMAIN leaves
      BY <1>2, <2>3, <2>4, <3>2
    <3>3. CASE j = Len(leaves) + 1 /\ i \in DOMAIN leaves
      BY <1>2, <2>3, <2>4, <3>3
    <3> QED
      BY <2>3, <3>1, <3>2, <3>3
  <2> QED
    BY <2>2, <2>4 DEF Distinct
<1>3. \/ UNCHANGED leaves
      \/ \E leaf \in LeafHashes :
           (\A i \in DOMAIN leaves : leaves[i] # leaf) /\ AddLeaf(leaf)
  BY DEF Next, Compute, vars, StartProof, BuildLevel, PathStep, FoldStep
<1> QED
  BY <1>1, <1>2, <1>3

\* The root the service computes is that of the tree over its transactions, and
\* no smaller ledger had it (ledger.ts 234-289).
THEOREM RootsCommit == Injective /\ LeavesAreNoPairs => (Spec => []RootCommits)
<1> SUFFICES ASSUME Injective, LeavesAreNoPairs PROVE Spec => []RootCommits
  OBVIOUS
<1>1. MerkleInv /\ Distinct(leaves) => RootCommits
  <2> SUFFICES ASSUME MerkleInv, Distinct(leaves), Done PROVE
                 /\ merkleRoot = Root(leaves)
                 /\ \A n \in 1 .. Len(leaves) - 1 :
                      Root(SubSeq(leaves, 1, n)) # merkleRoot
    BY DEF RootCommits
  <2>1. Tree(leaves) /\ merkleRoot = Root(leaves)
    BY RootComputed
  <2>2. PICK all : all = leaves /\ all \in Seq(LeafHashes) /\ Len(all) >= 1
    BY <2>1 DEF MerkleInv, Tree
  <2>3. Ledger(all) /\ Distinct(all)
    BY <2>2 DEF Ledger
  <2>4. ASSUME NEW n \in 1 .. Len(all) - 1, Root(SubSeq(all, 1, n)) = Root(all)
        PROVE  FALSE
    <3>1. PICK some : some = SubSeq(all, 1, n)
      OBVIOUS
    <3>2. /\ some \in Seq(LeafHashes) /\ Len(some) = n
          /\ \A i \in 1 .. n : some[i] = all[i]
      BY <2>2, <3>1
    <3>3. Ledger(some)
      BY <3>2 DEF Ledger
    <3>4. Distinct(some)
      <4>1. DOMAIN some = 1 .. n /\ 1 .. n \subseteq DOMAIN all
        BY <2>2, <3>2
      <4> QED
        BY <2>3, <3>2, <4>1 DEF Distinct
    <3>5. some = all
      BY <2>3, <2>4, <3>1, <3>3, <3>4, EqualRootsEqualLedgers
    <3>6. Len(all) \in Nat /\ n < Len(all)
      BY <2>2
    <3> QED
      BY <3>2, <3>5, <3>6
  <2> QED
    BY <2>1, <2>2, <2>4
<1>2. Init => Distinct(leaves)
  BY DEF Init, Distinct
<1>3. MerkleInv /\ Distinct(leaves) /\ [Next]_vars => MerkleInv' /\ Distinct(leaves)'
  BY MerkleInvStep, LeavesDistinct DEF MerkleInv
<1> QED
  BY <1>1, <1>2, <1>3, MerkleInvInit, PTL DEF Spec
=============================================================================
