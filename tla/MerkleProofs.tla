---------------------------- MODULE MerkleProofs ----------------------------
(***************************************************************************)
(* Proofs about the Merkle inclusion proof, for every number of leaves,    *)
(* every leaf and every hash of a pair.                                    *)
(***************************************************************************)
EXTENDS MerkleProof, Integers, FiniteSetTheorems, TLAPS

\* No two pairs have one hash: what the page relies on SHA-256 for.
Injective ==
  \A a, b, c, d : HashPair(a, b) = HashPair(c, d) => a = c /\ b = d

-----------------------------------------------------------------------------
(* Arrays *)

\* A sequence, of whatever elements.
Array(s) == s \in Seq({s[i] : i \in DOMAIN s})

LEMMA ArrayOf == ASSUME NEW S, NEW s \in Seq(S) PROVE Array(s)
BY DEF Array

LEMMA ArrayLen ==
  ASSUME NEW s, Array(s)
  PROVE  Len(s) \in Nat
BY DEF Array

LEMMA ArrayAppended ==
  ASSUME NEW s, Array(s), NEW e
  PROVE  /\ Array(Append(s, e))
         /\ Len(Append(s, e)) = Len(s) + 1
         /\ Append(s, e)[Len(s) + 1] = e
         /\ \A i \in 1 .. Len(s) : Append(s, e)[i] = s[i]
<1> DEFINE S == {s[i] : i \in DOMAIN s} \cup {e}
<1>1. s \in Seq(S)
  BY DEF Array
<1>2. e \in S
  OBVIOUS
<1> HIDE DEF S
<1>3. Append(s, e) \in Seq(S)
  BY <1>1, <1>2
<1>4. Array(Append(s, e))
  BY <1>3, ArrayOf
<1> QED
  BY <1>1, <1>2, <1>4

LEMMA ArrayOne ==
  ASSUME NEW e
  PROVE  Array(<<e>>) /\ Len(<<e>>) = 1 /\ <<e>>[1] = e
<1>1. <<e>> \in Seq({e})
  OBVIOUS
<1> QED
  BY <1>1, ArrayOf

LEMMA HalfBelow ==
  ASSUME NEW n \in Nat, NEW i \in Nat, i < n
  PROVE  i \div 2 < (n + 1) \div 2
OBVIOUS

LEMMA NextLevelArray ==
  ASSUME NEW cur, Len(cur) \in Nat
  PROVE  /\ Array(NextLevel(cur))
         /\ Len(NextLevel(cur)) = (Len(cur) + 1) \div 2
         /\ \A i \in 1 .. (Len(cur) + 1) \div 2 : NextLevel(cur)[i] = PairAt(cur, i)
<1> DEFINE n == (Len(cur) + 1) \div 2
           S == {PairAt(cur, i) : i \in 1 .. n}
<1>1. n \in Nat
  OBVIOUS
<1>2. NextLevel(cur) \in [1 .. n -> S]
  BY DEF NextLevel
<1>3. NextLevel(cur) \in Seq(S) /\ Len(NextLevel(cur)) = n
  <2> HIDE DEF n, S
  <2> QED
    BY <1>1, <1>2
<1>4. \A i \in 1 .. n : NextLevel(cur)[i] = PairAt(cur, i)
  BY DEF NextLevel
<1> QED
  BY <1>3, <1>4, ArrayOf

-----------------------------------------------------------------------------
(* The tree and the path up to where the loops have come *)

\* merkleLevels: each level but the last has more than one node and is
\* followed by the level of its pairs.
LevelsInv ==
  /\ Array(levels)
  /\ levels # <<>> => levels[1] = leaves
  /\ \A l \in 1 .. Len(levels) : Array(levels[l]) /\ Len(levels[l]) >= 1
  /\ \A l \in 1 .. Len(levels) - 1 :
       Len(levels[l]) > 1 /\ levels[l + 1] = NextLevel(levels[l])
  /\ pc \in {"path", "fold"} \/ Done => Len(LastOf(levels)) = 1

\* getProof: the k-th node of the path is the sibling of the leaf's ancestor
\* on the k-th level.
PathInv ==
  /\ Array(path)
  /\ idx \in Seq(Nat)
  /\ pc # "idle" => levels # <<>>
  /\ levels = <<>> => path = <<>>
  /\ levels # <<>> => Len(idx) = Len(path) + 1 /\ Len(path) < Len(levels)
  /\ \A k \in 1 .. Len(path) :
       path[k] = PathNode(levels[k], idx[k]) /\ idx[k + 1] = idx[k] \div 2
  /\ levels # <<>> => \A k \in 1 .. Len(idx) : idx[k] < Len(levels[k])
  /\ pc = "levels" => path = <<>>
  /\ pc = "fold" \/ Done => Len(path) = Len(levels) - 1

\* The leaf's ancestor on the level the fold has reached.
Ancestor == levels[folded + 1][idx[folded + 1] + 1]

\* foldMerkleProof: the fold from the leaf stands at the leaf's ancestor.
FoldInv ==
  /\ folded \in 0 .. Len(path)
  /\ pc \in {"levels", "path"} => folded = 0
  /\ Done => folded = Len(path)
  /\ pc = "fold" \/ Done => (~forged => h = Ancestor)

\* And that from another hash stands elsewhere.
ForgedInv == pc = "fold" \/ Done => (forged => h # Ancestor)

MerkleInv ==
  /\ leaves \in Seq(LeafHashes)
  /\ pc \in {"idle", "levels", "path", "fold"}
  /\ forged \in BOOLEAN
  /\ LevelsInv
  /\ PathInv
  /\ FoldInv

LEMMA MerkleInvInit == Init => MerkleInv /\ ForgedInv
<1> SUFFICES ASSUME Init PROVE MerkleInv /\ ForgedInv
  OBVIOUS
<1>1. Array(<<>>)
  BY DEF Array
<1>2. ~Done /\ pc = "idle"
  BY DEF Init, Done
<1>3. LevelsInv /\ PathInv
  BY <1>1, <1>2 DEF Init, LevelsInv, PathInv
<1>4. FoldInv /\ ForgedInv
  BY <1>2 DEF Init, FoldInv, ForgedInv
<1>5. leaves \in Seq(LeafHashes)
  BY DEF Init
<1>6. forged \in BOOLEAN
  BY DEF Init
<1> QED
  BY <1>2, <1>3, <1>4, <1>5, <1>6 DEF MerkleInv

\* Folding in the sibling leads from an ancestor to the next one
\* (ledger.ts 234-243, 263-274; crypto.ts 97-101).
LEMMA FoldClimbs ==
  ASSUME NEW level, Len(level) \in Nat, NEW i \in Nat, i < Len(level)
  PROVE  /\ i \div 2 + 1 \in 1 .. (Len(level) + 1) \div 2
         /\ FoldNode(level[i + 1], PathNode(level, i))
              = PairAt(level, i \div 2 + 1)
<1>1. CASE i % 2 = 1
  <2>1. 2 * (i \div 2) = i - 1 /\ i \div 2 \in Nat
    BY <1>1
  <2>2. PathNode(level, i) = [hash |-> level[i], direction |-> "left"]
    BY <1>1 DEF PathNode
  <2>3. PairAt(level, i \div 2 + 1) = HashPair(level[i], level[i + 1])
    BY <2>1 DEF PairAt
  <2> QED
    BY <2>1, <2>2, <2>3 DEF FoldNode
<1>2. CASE i % 2 # 1
  <2>1. 2 * (i \div 2) = i /\ i \div 2 \in Nat
    BY <1>2
  <2>2. PathNode(level, i) =
          [hash |-> IF i + 1 < Len(level) THEN level[i + 2] ELSE level[i + 1],
           direction |-> "right"]
    BY <1>2 DEF PathNode
  <2>3. PairAt(level, i \div 2 + 1) =
          HashPair(level[i + 1],
                   IF i + 2 <= Len(level) THEN level[i + 2] ELSE level[i + 1])
    BY <2>1 DEF PairAt
  <2>4. i + 1 < Len(level) <=> i + 2 <= Len(level)
    OBVIOUS
  <2> QED
    BY <2>1, <2>2, <2>3, <2>4 DEF FoldNode
<1> QED
  BY <1>1, <1>2

\* Another hash than the ancestor's is folded into another one than the next.
LEMMA ForgedClimbs ==
  ASSUME Injective, NEW level, Len(level) \in Nat, NEW i \in Nat,
         i < Len(level), NEW x, x # level[i + 1]
  PROVE  FoldNode(x, PathNode(level, i)) # PairAt(level, i \div 2 + 1)
<1> DEFINE node == PathNode(level, i)
<1>1. FoldNode(x, node) # FoldNode(level[i + 1], node)
  BY DEF FoldNode, Injective
<1> QED
  BY <1>1, FoldClimbs

-----------------------------------------------------------------------------
(* The steps *)

LEMMA LeafAdded ==
  ASSUME MerkleInv, NEW leaf \in LeafHashes, AddLeaf(leaf)
  PROVE  MerkleInv' /\ ForgedInv'
<1>1. Array(<<>>)
  BY DEF Array
<1>2. ~Done' /\ pc' = "idle" /\ levels' = <<>> /\ idx' = <<>> /\ path' = <<>>
  BY DEF AddLeaf, Done, MerkleInv
<1>3. LevelsInv' /\ PathInv'
  BY <1>1, <1>2 DEF LevelsInv, PathInv
<1>4. FoldInv' /\ ForgedInv'
  BY <1>2 DEF AddLeaf, FoldInv, ForgedInv
<1>5. leaves' \in Seq(LeafHashes)
  BY DEF AddLeaf, MerkleInv
<1>6. forged' \in BOOLEAN
  BY DEF AddLeaf
<1> QED
  BY <1>2, <1>3, <1>4, <1>5, <1>6 DEF MerkleInv

LEMMA ProofStarted ==
  ASSUME MerkleInv, NEW i \in 0 .. Len(leaves) - 1, StartProof(i)
  PROVE  MerkleInv' /\ ForgedInv'
<1>1. /\ pc' = "levels" /\ levels' = <<leaves>> /\ idx' = <<i>> /\ path' = <<>>
      /\ folded' = 0 /\ forged' = FALSE /\ leaves' = leaves
  BY DEF StartProof
<1>2. leaves \in Seq(LeafHashes) /\ i \in Nat /\ i < Len(leaves)
  BY DEF MerkleInv
<1>3. ~Done'
  BY <1>1 DEF Done
<1>4. /\ Array(levels') /\ Len(levels') = 1 /\ levels'[1] = leaves
      /\ levels' # <<>>
  <2>1. Array(levels') /\ Len(levels') = 1 /\ levels'[1] = leaves
    BY <1>1, ArrayOne
  <2> QED
    BY <1>1, <2>1
<1>5. LevelsInv'
  <2>1. Array(leaves)
    BY <1>2, ArrayOf
  <2> QED
    BY <1>1, <1>2, <1>3, <1>4, <2>1 DEF LevelsInv
<1>6. PathInv'
  <2>1. Array(<<>>)
    BY DEF Array
  <2> QED
    BY <1>1, <1>2, <1>3, <1>4, <2>1 DEF PathInv
<1>7. FoldInv' /\ ForgedInv'
  BY <1>1, <1>3 DEF FoldInv, ForgedInv
<1> QED
  BY <1>1, <1>2, <1>5, <1>6, <1>7 DEF MerkleInv

LEMMA LevelBuilt ==
  ASSUME MerkleInv, BuildLevel
  PROVE  MerkleInv' /\ ForgedInv'
<1> DEFINE last == LastOf(levels)
<1>1. /\ pc = "levels" /\ levels # <<>> /\ path = <<>>
      /\ UNCHANGED <<leaves, idx, path, h, folded, forged>>
  BY DEF BuildLevel, MerkleInv, PathInv
<1>2. Len(levels) \in Nat \ {0}
  BY <1>1, ArrayLen DEF MerkleInv, LevelsInv, Array
<1>3. Array(last) /\ Len(last) \in Nat /\ Len(last) >= 1
  BY <1>2, ArrayLen DEF MerkleInv, LevelsInv, LastOf
<1>4. CASE MoreLevels(last)
  <2>1. levels' = Append(levels, NextLevel(last)) /\ pc' = "levels"
    BY <1>1, <1>4 DEF BuildLevel
  <2>2. /\ Array(levels') /\ Len(levels') = Len(levels) + 1
        /\ levels'[Len(levels) + 1] = NextLevel(last)
        /\ \A l \in 1 .. Len(levels) : levels'[l] = levels[l]
    BY <2>1, ArrayAppended DEF MerkleInv, LevelsInv
  <2>3. levels' # <<>> /\ ~Done'
    BY <1>2, <2>1, <2>2 DEF Done
  <2>4. Array(NextLevel(last)) /\ Len(NextLevel(last)) >= 1
    <3>1. Array(NextLevel(last)) /\ Len(NextLevel(last)) = (Len(last) + 1) \div 2
      BY <1>3, NextLevelArray
    <3> QED
      BY <1>3, <3>1
  <2>5. LevelsInv'
    <3>1. ASSUME NEW l \in 1 .. Len(levels) + 1
          PROVE  Array(levels'[l]) /\ Len(levels'[l]) >= 1
      <4>1. CASE l = Len(levels) + 1
        BY <2>2, <2>4, <4>1
      <4>2. CASE l \in 1 .. Len(levels)
        BY <1>2, <2>2, <4>2 DEF MerkleInv, LevelsInv
      <4> QED
        BY <1>2, <4>1, <4>2
    <3>2. ASSUME NEW l \in 1 .. Len(levels)
          PROVE  /\ Len(levels'[l]) > 1
                 /\ levels'[l + 1] = NextLevel(levels'[l])
      <4>1. CASE l = Len(levels)
        BY <1>2, <1>4, <2>2, <4>1 DEF LastOf, MoreLevels
      <4>2. CASE l \in 1 .. Len(levels) - 1
        <5>1. levels'[l] = levels[l] /\ levels'[l + 1] = levels[l + 1]
          BY <1>2, <2>2, <4>2
        <5> QED
          BY <4>2, <5>1 DEF MerkleInv, LevelsInv
      <4>3. l = Len(levels) \/ l \in 1 .. Len(levels) - 1
        BY <1>2
      <4> QED
        BY <4>1, <4>2, <4>3, Zenon
    <3>3. levels'[1] = leaves'
      BY <1>1, <1>2, <2>2 DEF MerkleInv, LevelsInv
    <3>4. Len(levels') - 1 = Len(levels)
      BY <1>2, <2>2
    <3> QED
      BY <2>1, <2>2, <2>3, <3>1, <3>2, <3>3, <3>4 DEF LevelsInv
  <2>6. PathInv'
    <3>1. ASSUME NEW k \in 1 .. Len(idx)
          PROVE  idx[k] < Len(levels'[k])
      <4>1. Len(idx) = 1 /\ k = 1
        <5>1. Len(path) = 0 /\ Len(idx) = Len(path) + 1
          BY <1>1 DEF MerkleInv, PathInv
        <5> QED
          BY <5>1
      <4> QED
        BY <1>1, <1>2, <2>2, <4>1 DEF MerkleInv, PathInv
    <3>2. Len(path) = 0 /\ Len(idx) = 1
      BY <1>1 DEF MerkleInv, PathInv
    <3>3. \A i \in 1 .. Len(path) : FALSE
      BY <3>2
    <3> QED
      BY <1>1, <1>2, <2>1, <2>2, <2>3, <3>1, <3>2, <3>3 DEF MerkleInv, PathInv
  <2>7. FoldInv' /\ ForgedInv'
    BY <1>1, <2>1, <2>3 DEF MerkleInv, FoldInv, ForgedInv
  <2> QED
    BY <1>1, <2>1, <2>5, <2>6, <2>7 DEF MerkleInv
<1>5. CASE ~MoreLevels(last)
  <2>1. pc' = "path" /\ levels' = levels
    BY <1>1, <1>5 DEF BuildLevel
  <2>2. ~Done'
    BY <2>1 DEF Done
  <2>3. LevelsInv'
    <3>1. Len(LastOf(levels')) = 1
      <4>1. Len(last) = 1
        <5>1. PICK n : n = Len(last)
          OBVIOUS
        <5>2. n \in Nat /\ n >= 1 /\ ~(n > 1)
          BY <1>3, <1>5, <5>1 DEF MoreLevels
        <5> QED
          BY <5>1, <5>2
      <4>2. LastOf(levels') = last
        BY <2>1
      <4> QED
        BY <4>1, <4>2
    <3> QED
      BY <1>1, <2>1, <3>1 DEF MerkleInv, LevelsInv
  <2>4. PathInv'
    BY <1>1, <2>1, <2>2 DEF MerkleInv, PathInv
  <2>5. FoldInv' /\ ForgedInv'
    BY <1>1, <2>1, <2>2 DEF MerkleInv, FoldInv, ForgedInv
  <2> QED
    BY <1>1, <2>1, <2>3, <2>4, <2>5 DEF MerkleInv
<1> QED
  BY <1>4, <1>5

LEMMA PathExtended ==
  ASSUME MerkleInv, PathStep
  PROVE  MerkleInv' /\ ForgedInv'
<1>1. /\ pc = "path" /\ levels # <<>> /\ folded = 0
      /\ UNCHANGED <<leaves, levels, folded>>
      /\ Len(idx) = Len(path) + 1 /\ Len(path) < Len(levels)
  BY DEF PathStep, MerkleInv, PathInv, FoldInv
<1>2. /\ Len(levels) \in Nat
      /\ Len(path) \in Nat /\ Array(path) /\ Array(levels) /\ idx \in Seq(Nat)
  BY ArrayLen DEF MerkleInv, LevelsInv, PathInv
<1> DEFINE k == Len(path) + 1
<1>3. /\ k \in 1 .. Len(levels) /\ LastOf(idx) = idx[k] /\ idx[k] \in Nat
      /\ idx[k] < Len(levels[k]) /\ Len(levels[k]) \in Nat
  <2>1. idx[k] < Len(levels[k])
    BY <1>1, <1>2 DEF MerkleInv, PathInv
  <2>2. k \in 1 .. Len(levels)
    BY <1>1, <1>2
  <2>3. Len(levels[k]) \in Nat
    BY <2>2, ArrayLen DEF MerkleInv, LevelsInv
  <2> QED
    BY <1>1, <1>2, <2>1, <2>2, <2>3 DEF LastOf
<1>4. Len(LastOf(levels)) = 1
  BY <1>1 DEF MerkleInv, LevelsInv
<1>5. CASE Len(path) < Len(levels) - 1
  <2>1. /\ path' = Append(path, PathNode(levels[k], idx[k]))
        /\ idx' = Append(idx, idx[k] \div 2)
        /\ UNCHANGED <<pc, h, forged>>
    BY <1>3, <1>5 DEF PathStep
  <2>2. /\ Array(path') /\ Len(path') = k /\ path'[k] = PathNode(levels[k], idx[k])
        /\ \A i \in 1 .. Len(path) : path'[i] = path[i]
    BY <1>2, <2>1, ArrayAppended
  <2>3. idx[k] \div 2 \in Nat
    BY <1>3
  <2>4. /\ idx' \in Seq(Nat) /\ Len(idx') = k + 1 /\ idx'[k + 1] = idx[k] \div 2
        /\ \A i \in 1 .. k : idx'[i] = idx[i]
    BY <1>1, <1>2, <2>1, <2>3
  <2>5. idx'[k + 1] < Len(levels[k + 1])
    <3>1. /\ Len(levels[k]) > 1
          /\ levels[k + 1] = NextLevel(levels[k])
      BY <1>2, <1>3, <1>5 DEF MerkleInv, LevelsInv
    <3>2. Len(levels[k + 1]) = (Len(levels[k]) + 1) \div 2
      BY <1>3, <3>1, NextLevelArray
    <3>3. idx[k] \div 2 < (Len(levels[k]) + 1) \div 2
      BY <1>3, <3>1, HalfBelow
    <3> QED
      BY <2>4, <3>2, <3>3
  <2>6. ~Done' /\ ~(pc' = "fold") /\ pc' = "path"
    BY <1>1, <2>1 DEF Done
  <2>7. LevelsInv'
    BY <1>1, <1>4, <2>6 DEF MerkleInv, LevelsInv, LastOf
  <2>8. PathInv'
    <3>1. ASSUME NEW i \in 1 .. k
          PROVE  /\ path'[i] = PathNode(levels[i], idx'[i])
                 /\ idx'[i + 1] = idx'[i] \div 2
      <4>1. CASE i = k
        BY <1>2, <2>2, <2>4, <4>1
      <4>2. CASE i \in 1 .. Len(path)
        <5>1. /\ path[i] = PathNode(levels[i], idx[i])
              /\ idx[i + 1] = idx[i] \div 2
          BY <4>2 DEF MerkleInv, PathInv
        <5>2. path'[i] = path[i] /\ idx'[i] = idx[i] /\ idx'[i + 1] = idx[i + 1]
          <6>1. i \in 1 .. k /\ i + 1 \in 1 .. k
            BY <1>2, <4>2
          <6> HIDE DEF k
          <6> QED
            BY <2>2, <2>4, <4>2, <6>1
        <5> QED
          BY <5>1, <5>2
      <4> QED
        BY <1>2, <4>1, <4>2
    <3>2. ASSUME NEW i \in 1 .. k + 1
          PROVE  idx'[i] < Len(levels[i])
      <4>1. CASE i = k + 1
        BY <2>5, <4>1
      <4>2. CASE i \in 1 .. k
        BY <1>1, <1>2, <2>4, <4>2 DEF MerkleInv, PathInv
      <4> QED
        BY <1>2, <4>1, <4>2
    <3>3. Len(path') < Len(levels)
      BY <1>2, <1>5, <2>2
    <3> QED
      BY <1>1, <2>2, <2>4, <2>6, <3>1, <3>2, <3>3 DEF PathInv
  <2>9. FoldInv' /\ ForgedInv'
    BY <1>1, <1>2, <2>2, <2>6 DEF FoldInv, ForgedInv
  <2> QED
    BY <1>1, <2>1, <2>6, <2>7, <2>8, <2>9 DEF MerkleInv
<1>6. CASE ~(Len(path) < Len(levels) - 1)
  <2> DEFINE leaf == leaves[idx[1] + 1]
  <2>1. /\ pc' = "fold" /\ UNCHANGED <<path, idx>>
        /\ \/ h' = leaf /\ forged' = FALSE
           \/ h' # leaf /\ forged' = TRUE
    BY <1>6 DEF PathStep, StartOf
  <2>2. Len(path) = Len(levels) - 1 /\ ~Done'
    BY <1>1, <1>2, <1>6, <2>1 DEF Done
  <2>3. LevelsInv'
    BY <1>1, <1>4, <2>1 DEF MerkleInv, LevelsInv, LastOf
  <2>4. PathInv'
    BY <1>1, <2>1, <2>2 DEF MerkleInv, PathInv
  <2>5. Ancestor' = leaf
    BY <1>1, <2>1 DEF Ancestor, MerkleInv, LevelsInv
  <2>6. FoldInv' /\ ForgedInv'
    BY <1>1, <1>2, <2>1, <2>2, <2>5 DEF FoldInv, ForgedInv
  <2> QED
    BY <1>1, <2>1, <2>3, <2>4, <2>6 DEF MerkleInv
<1> QED
  BY <1>5, <1>6

\* A step of the fold, and what it needs of HashPair to keep a forged leaf off
\* the root.
LEMMA Folded ==
  ASSUME MerkleInv, FoldStep
  PROVE  MerkleInv' /\ (Injective /\ ForgedInv => ForgedInv')
<1>1. /\ pc = "fold" /\ levels # <<>>
      /\ UNCHANGED <<leaves, levels, idx, path, forged>>
      /\ Len(idx) = Len(path) + 1 /\ Len(path) = Len(levels) - 1
  BY DEF FoldStep, MerkleInv, PathInv
<1>2. /\ Len(levels) \in Nat
      /\ Len(path) \in Nat /\ idx \in Seq(Nat) /\ folded \in 0 .. Len(path)
  BY ArrayLen DEF MerkleInv, LevelsInv, PathInv, FoldInv
<1>3. Len(LastOf(levels)) = 1
  BY <1>1 DEF MerkleInv, LevelsInv
<1>4. pc' \in {"fold", "idle"} => LevelsInv' /\ PathInv'
  <2> SUFFICES ASSUME pc' \in {"fold", "idle"} PROVE LevelsInv' /\ PathInv'
    OBVIOUS
  <2>1. LevelsInv'
    BY <1>1, <1>3 DEF MerkleInv, LevelsInv, LastOf
  <2>2. PathInv'
    BY <1>1 DEF MerkleInv, PathInv
  <2> QED
    BY <2>1, <2>2
<1>5. CASE folded < Len(path)
  <2> DEFINE k == folded + 1
             level == levels[k]
             i == idx[k]
  <2>1. h' = FoldNode(h, path[k]) /\ folded' = k /\ pc' = "fold"
    BY <1>1, <1>5 DEF FoldStep
  <2>2. /\ path[k] = PathNode(level, i) /\ idx[k + 1] = i \div 2
        /\ i \in Nat /\ i < Len(level) /\ Len(level) \in Nat
    <3>1. path[k] = PathNode(level, i) /\ idx[k + 1] = i \div 2
      BY <1>2, <1>5 DEF MerkleInv, PathInv
    <3>2. i \in Nat /\ i < Len(level)
      BY <1>1, <1>2, <1>5 DEF MerkleInv, PathInv
    <3>3. Len(level) \in Nat
      BY <1>1, <1>2, <1>5, ArrayLen DEF MerkleInv, LevelsInv
    <3> QED
      BY <3>1, <3>2, <3>3
  <2>3. Ancestor = level[i + 1]
    BY DEF Ancestor
  <2>4. Ancestor' = PairAt(level, i \div 2 + 1)
    <3>1. Ancestor' = levels[k + 1][i \div 2 + 1]
      BY <1>1, <2>1, <2>2 DEF Ancestor
    <3>2. levels[k + 1] = NextLevel(level)
      BY <1>1, <1>2, <1>5 DEF MerkleInv, LevelsInv
    <3>3. i \div 2 + 1 \in 1 .. (Len(level) + 1) \div 2
      BY <2>2, FoldClimbs
    <3> QED
      BY <2>2, <3>1, <3>2, <3>3, NextLevelArray
  <2>5. ~forged => h' = Ancestor'
    BY <1>1, <2>1, <2>2, <2>3, <2>4, FoldClimbs DEF MerkleInv, FoldInv
  <2>6. Injective /\ ForgedInv /\ forged => h' # Ancestor'
    BY <1>1, <2>1, <2>2, <2>3, <2>4, ForgedClimbs DEF ForgedInv
  <2>7. ~Done'
    BY <2>1 DEF Done
  <2>8. FoldInv' /\ (Injective /\ ForgedInv => ForgedInv')
    BY <1>1, <1>2, <1>5, <2>1, <2>5, <2>6, <2>7 DEF FoldInv, ForgedInv
  <2> QED
    BY <1>1, <1>4, <2>1, <2>8 DEF MerkleInv
<1>6. CASE ~(folded < Len(path))
  <2>1. pc' = "idle" /\ UNCHANGED <<h, folded>>
    BY <1>6 DEF FoldStep
  <2>2. folded = Len(path) /\ Ancestor' = Ancestor
    BY <1>1, <1>2, <1>6, <2>1 DEF Ancestor
  <2>3. FoldInv' /\ (ForgedInv => ForgedInv')
    BY <1>1, <1>2, <2>1, <2>2 DEF MerkleInv, FoldInv, ForgedInv
  <2> QED
    BY <1>1, <1>4, <2>1, <2>3 DEF MerkleInv
<1> QED
  BY <1>5, <1>6

LEMMA MerkleInvStep ==
  ASSUME MerkleInv, [Next]_vars
  PROVE  MerkleInv' /\ (Injective /\ ForgedInv => ForgedInv')
<1>1. CASE UNCHANGED vars
  BY <1>1 DEF vars, MerkleInv, LevelsInv, PathInv, FoldInv, ForgedInv, Done,
              Ancestor, LastOf
<1>2. CASE Next
  BY <1>2, LeafAdded, ProofStarted, LevelBuilt, PathExtended, Folded
     DEF Next, Compute
<1> QED
  BY <1>1, <1>2

-----------------------------------------------------------------------------
(* What follows of a proof that was checked *)

\* The leaf's last ancestor is the root.
LEMMA RootReached == MerkleInv /\ Done => Ancestor = merkleRoot
<1> SUFFICES ASSUME MerkleInv, Done PROVE Ancestor = merkleRoot
  OBVIOUS
<1>1. Len(levels) \in Nat \ {0}
  BY ArrayLen DEF MerkleInv, LevelsInv, Done, Array
<1>2. /\ folded + 1 = Len(levels) /\ Len(idx) = Len(levels) /\ idx \in Seq(Nat)
      /\ Len(LastOf(levels)) = 1
      /\ idx[Len(levels)] < Len(levels[Len(levels)])
  BY <1>1 DEF MerkleInv, LevelsInv, PathInv, FoldInv, Done
<1>3. idx[Len(levels)] = 0
  BY <1>1, <1>2 DEF LastOf
<1> QED
  BY <1>2, <1>3 DEF Ancestor, merkleRoot, LastOf

\* The loops' arrays have the shapes the code gives them (ledger.ts 234-289).
THEOREM MerkleTyped == Spec => []TypeOK
<1>1. MerkleInv => TypeOK
  <2> SUFFICES ASSUME MerkleInv PROVE TypeOK
    OBVIOUS
  <2>1. Len(levels) \in Nat /\ Len(path) \in Nat
    BY ArrayLen DEF MerkleInv, LevelsInv, PathInv
  <2>2. \A l \in DOMAIN levels : Len(levels[l]) \in Nat
    <3>1. DOMAIN levels = 1 .. Len(levels)
      BY DEF MerkleInv, LevelsInv, Array
    <3> QED
      BY <3>1, ArrayLen DEF MerkleInv, LevelsInv
  <2> QED
    BY <2>1, <2>2 DEF MerkleInv, PathInv, FoldInv, TypeOK
<1> QED
  BY <1>1, MerkleInvInit, MerkleInvStep, PTL DEF Spec

\* For every ledger and leaf and any hash of a pair, the path of the service
\* folds in the page to the root of the same reply (ledger.ts 248-289,
\* crypto.ts 97-101).
THEOREM ProofsFold == Spec => []ProofFolds
<1>1. MerkleInv => ProofFolds
  BY RootReached DEF MerkleInv, FoldInv, ProofFolds
<1> QED
  BY <1>1, MerkleInvInit, MerkleInvStep, PTL DEF Spec

\* If no two pairs have one hash, no other leaf hash folds to the root, be it
\* another transaction's (App.tsx 678-682).
THEOREM TamperIsDetected == Injective => (Spec => []TamperDetected)
<1> SUFFICES ASSUME Injective PROVE Spec => []TamperDetected
  OBVIOUS
<1>1. MerkleInv /\ ForgedInv => TamperDetected
  BY RootReached DEF ForgedInv, TamperDetected
<1>2. MerkleInv /\ ForgedInv /\ [Next]_vars => MerkleInv' /\ ForgedInv'
  BY MerkleInvStep
<1> QED
  BY <1>1, <1>2, MerkleInvInit, PTL DEF Spec

-----------------------------------------------------------------------------
(* Induction and powers of two *)

\* Induction for a set of numbers: if k were not in S, shifting those of 0 .. k
\* that are would put k + 1 numbers into 1 .. k.
LEMMA SetInduction ==
  ASSUME NEW S, 0 \in S, \A n \in Nat : n \in S => n + 1 \in S
  PROVE  \A n \in Nat : n \in S
<1> SUFFICES ASSUME NEW k \in Nat, k \notin S PROVE FALSE
  OBVIOUS
<1> DEFINE shift == [x \in 0 .. k |-> IF x \in S THEN x + 1 ELSE x]
<1>1. shift \in [0 .. k -> 1 .. k]
  <2> SUFFICES ASSUME NEW x \in 0 .. k
               PROVE  (IF x \in S THEN x + 1 ELSE x) \in 1 .. k
    OBVIOUS
  <2>1. CASE x \in S
    BY <2>1
  <2>2. CASE x \notin S
    BY <2>2
  <2> QED
    BY <2>1, <2>2
<1>2. /\ IsFiniteSet(0 .. k) /\ Cardinality(0 .. k) = k + 1
      /\ IsFiniteSet(1 .. k) /\ Cardinality(1 .. k) = k
  <2>1. /\ IsFiniteSet(0 .. k)
        /\ Cardinality(0 .. k) = IF 0 > k THEN 0 ELSE k - 0 + 1
    BY FS_Interval
  <2>2. /\ IsFiniteSet(1 .. k)
        /\ Cardinality(1 .. k) = IF 1 > k THEN 0 ELSE k - 1 + 1
    BY FS_Interval
  <2> QED
    BY <2>1, <2>2
<1>3. PICK x, y \in 0 .. k : x # y /\ shift[x] = shift[y]
  <2> HIDE DEF shift
  <2>1. Cardinality(1 .. k) < Cardinality(0 .. k)
    BY <1>2
  <2> QED
    BY <1>1, <1>2, <2>1, FS_PigeonHole
<1> QED
  BY <1>3

\* The powers of two up to the k-th.
FirstPowers(f, k) == f = [l \in 0 .. k |-> IF l = 0 THEN 1 ELSE 2 * f[l - 1]]

LEMMA FirstPowersExist == \A k \in Nat : \E f : FirstPowers(f, k)
<1> DEFINE S == {k \in Nat : \E f : FirstPowers(f, k)}
<1>1. 0 \in S
  <2>1. FirstPowers([l \in 0 .. 0 |-> 1], 0)
    BY DEF FirstPowers
  <2> QED
    BY <2>1
<1>2. ASSUME NEW n \in Nat, n \in S PROVE n + 1 \in S
  <2>1. PICK f : FirstPowers(f, n)
    BY <1>2
  <2>2. PICK g : g = [l \in 0 .. n + 1 |-> IF l <= n THEN f[l] ELSE 2 * f[n]]
    OBVIOUS
  <2>3. \A l \in 0 .. n + 1 : g[l] = IF l = 0 THEN 1 ELSE 2 * g[l - 1]
    <3> TAKE l \in 0 .. n + 1
    <3>1. CASE l = 0
      BY <2>1, <2>2, <3>1 DEF FirstPowers
    <3>2. CASE l \in 1 .. n
      BY <2>1, <2>2, <3>2 DEF FirstPowers
    <3>3. CASE l = n + 1
      BY <2>2, <3>3
    <3> QED
      BY <3>1, <3>2, <3>3
  <2>4. FirstPowers(g, n + 1)
    BY <2>2, <2>3 DEF FirstPowers
  <2> QED
    BY <2>4
<1>3. \A n \in Nat : n \in S
  <2> HIDE DEF S
  <2> QED
    BY <1>1, <1>2, SetInduction
<1> QED
  BY <1>3

LEMMA FirstPowersAgree ==
  ASSUME NEW k \in Nat, NEW m \in Nat, NEW f, NEW g,
         FirstPowers(f, k), FirstPowers(g, m)
  PROVE  \A l \in Nat : l <= k /\ l <= m => f[l] = g[l]
<1> DEFINE S == {l \in Nat : l <= k /\ l <= m => f[l] = g[l]}
<1>1. 0 \in S
  BY DEF FirstPowers
<1>2. ASSUME NEW n \in Nat, n \in S PROVE n + 1 \in S
  <2>1. ASSUME n + 1 <= k, n + 1 <= m PROVE f[n + 1] = g[n + 1]
    <3>1. n + 1 \in 0 .. k /\ n + 1 \in 0 .. m /\ n + 1 # 0
      BY <2>1
    <3>2. f[n + 1] = 2 * f[(n + 1) - 1] /\ g[n + 1] = 2 * g[(n + 1) - 1]
      BY <3>1 DEF FirstPowers
    <3>3. f[n] = g[n]
      BY <1>2, <2>1
    <3> QED
      BY <3>2, <3>3
  <2> QED
    BY <2>1
<1>3. \A n \in Nat : n \in S
  <2> HIDE DEF S
  <2> QED
    BY <1>1, <1>2, SetInduction
<1> QED
  BY <1>3

LEMMA PowersDouble ==
  /\ PowerOfTwo[0] = 1
  /\ \A k \in Nat : PowerOfTwo[k] \in Nat /\ PowerOfTwo[k + 1] = 2 * PowerOfTwo[k]
<1> DEFINE F(k) == CHOOSE f : FirstPowers(f, k)
           chain == [k \in Nat |-> F(k)[k]]
<1>1. \A k \in Nat : FirstPowers(F(k), k)
  BY FirstPowersExist
<1>2. chain = [k \in Nat |-> IF k = 0 THEN 1 ELSE 2 * chain[k - 1]]
  <2> SUFFICES ASSUME NEW k \in Nat
               PROVE  chain[k] = IF k = 0 THEN 1 ELSE 2 * chain[k - 1]
    <3> HIDE DEF F
    <3>1. chain = [k \in Nat |-> chain[k]]
      OBVIOUS
    <3> HIDE DEF chain
    <3> QED
      BY <3>1
  <2>1. F(k)[k] = IF k = 0 THEN 1 ELSE 2 * F(k)[k - 1]
    <3> HIDE DEF F
    <3> QED
      BY <1>1 DEF FirstPowers
  <2>2. ASSUME k # 0 PROVE F(k)[k - 1] = F(k - 1)[k - 1]
    <3>1. k - 1 \in Nat /\ k - 1 <= k
      BY <2>2
    <3>2. FirstPowers(F(k), k) /\ FirstPowers(F(k - 1), k - 1)
      BY <1>1, <3>1
    <3> HIDE DEF F
    <3> QED
      BY <3>1, <3>2, FirstPowersAgree
  <2>3. chain[k] = F(k)[k] /\ (k # 0 => chain[k - 1] = F(k - 1)[k - 1])
    <3> HIDE DEF F
    <3> QED
      OBVIOUS
  <2> QED
    BY <2>1, <2>2, <2>3
<1> HIDE DEF chain
<1>3. PowerOfTwo = [k \in Nat |-> IF k = 0 THEN 1 ELSE 2 * PowerOfTwo[k - 1]]
  BY <1>2 DEF PowerOfTwo
<1>4. PowerOfTwo[0] = 1 /\ \A k \in Nat : PowerOfTwo[k + 1] = 2 * PowerOfTwo[k]
  BY <1>3
<1> DEFINE S == {k \in Nat : PowerOfTwo[k] \in Nat}
<1>5. 0 \in S /\ \A n \in Nat : n \in S => n + 1 \in S
  BY <1>4
<1>6. \A n \in Nat : n \in S
  <2> HIDE DEF S
  <2> QED
    BY <1>5, SetInduction
<1> QED
  BY <1>4, <1>6

-----------------------------------------------------------------------------
(* The length of the path *)

\* The l-th level is as wide as halving l - 1 times leaves it, rounded up.
WidthInv ==
  \A l \in 1 .. Len(levels) :
    /\ Len(leaves) <= Len(levels[l]) * PowerOfTwo[l - 1]
    /\ (Len(levels[l]) - 1) * PowerOfTwo[l - 1] < Len(leaves)

LEMMA HalfWidth ==
  ASSUME NEW n \in Nat, NEW w \in Nat, NEW p \in Nat, w >= 1,
         n <= w * p, (w - 1) * p < n
  PROVE  /\ n <= ((w + 1) \div 2) * (2 * p)
         /\ ((w + 1) \div 2 - 1) * (2 * p) < n
<1> DEFINE v == (w + 1) \div 2
<1>1. v \in Nat /\ (2 * v = w \/ 2 * v = w + 1)
  OBVIOUS
<1>2. v * (2 * p) = (2 * v) * p /\ (v - 1) * (2 * p) = (2 * v) * p - 2 * p
  BY <1>1
<1>3. (w + 1) * p = w * p + p /\ (w - 1) * p = w * p - p
  OBVIOUS
<1> HIDE DEF v
<1>4. w * p \in Nat
  OBVIOUS
<1>5. CASE 2 * v = w
  BY <1>1, <1>2, <1>3, <1>4, <1>5
<1>6. CASE 2 * v = w + 1
  BY <1>1, <1>2, <1>3, <1>4, <1>6
<1>7. /\ n <= v * (2 * p)
      /\ (v - 1) * (2 * p) < n
  BY <1>1, <1>5, <1>6
<1> QED
  BY <1>7 DEF v

LEMMA WidthInvStep ==
  ASSUME MerkleInv, WidthInv, [Next]_vars
  PROVE  WidthInv'
<1>1. CASE UNCHANGED <<leaves, levels>>
  BY <1>1 DEF WidthInv
<1>2. ASSUME NEW leaf \in LeafHashes, AddLeaf(leaf) PROVE WidthInv'
  <2>1. levels' = <<>>
    BY <1>2 DEF AddLeaf
  <2> QED
    BY <2>1 DEF WidthInv
<1>3. ASSUME NEW i \in 0 .. Len(leaves) - 1, StartProof(i) PROVE WidthInv'
  <2>1. levels' = <<leaves>> /\ leaves' = leaves
    BY <1>3 DEF StartProof
  <2>2. Len(leaves) \in Nat /\ Len(leaves) >= 1
    BY DEF MerkleInv
  <2>3. /\ Len(leaves) <= Len(leaves) * PowerOfTwo[0]
        /\ (Len(leaves) - 1) * PowerOfTwo[0] < Len(leaves)
    <3>1. PowerOfTwo[0] = 1
      BY PowersDouble
    <3> QED
      BY <2>2, <3>1
  <2>4. Len(levels') = 1 /\ levels'[1] = leaves
    BY <2>1, ArrayOne
  <2>5. ASSUME NEW l \in 1 .. Len(levels')
        PROVE  l = 1 /\ l - 1 = 0
    BY <2>4
  <2> QED
    BY <2>1, <2>3, <2>4, <2>5 DEF WidthInv
<1>4. ASSUME BuildLevel, levels' # levels PROVE WidthInv'
  <2> DEFINE last == LastOf(levels)
  <2>1. /\ levels' = Append(levels, NextLevel(last))
        /\ MoreLevels(last) /\ leaves' = leaves /\ levels # <<>>
    BY <1>4 DEF BuildLevel, MerkleInv, PathInv
  <2>2. Len(levels) \in Nat \ {0} /\ Len(leaves) \in Nat
    BY <2>1, ArrayLen DEF MerkleInv, LevelsInv, Array
  <2>3. /\ Len(levels') = Len(levels) + 1
        /\ levels'[Len(levels) + 1] = NextLevel(last)
        /\ \A l \in 1 .. Len(levels) : levels'[l] = levels[l]
    BY <2>1, ArrayAppended DEF MerkleInv, LevelsInv
  <2>4. PICK n, w, p :
          /\ n = Len(leaves) /\ w = Len(last) /\ p = PowerOfTwo[Len(levels) - 1]
    OBVIOUS
  <2>5. n \in Nat /\ w \in Nat /\ p \in Nat /\ w >= 1
    <3>1. Len(last) \in Nat /\ Len(last) >= 1
      BY <2>2, ArrayLen DEF MerkleInv, LevelsInv, LastOf
    <3> QED
      BY <2>2, <2>4, <3>1, PowersDouble
  <2>6. n <= w * p /\ (w - 1) * p < n
    <3> DEFINE m == Len(levels)
    <3>1. m \in 1 .. Len(levels) /\ last = levels[m]
      BY <2>2 DEF LastOf
    <3>2. /\ Len(leaves) <= Len(levels[m]) * PowerOfTwo[m - 1]
          /\ (Len(levels[m]) - 1) * PowerOfTwo[m - 1] < Len(leaves)
      BY <3>1 DEF WidthInv
    <3> QED
      BY <2>4, <3>1, <3>2
  <2>7. Len(NextLevel(last)) = (w + 1) \div 2
    BY <2>4, <2>5, NextLevelArray
  <2>8. PowerOfTwo[Len(levels)] = 2 * p
    <3>1. Len(levels) - 1 \in Nat /\ (Len(levels) - 1) + 1 = Len(levels)
      BY <2>2
    <3>2. PowerOfTwo[(Len(levels) - 1) + 1] = 2 * PowerOfTwo[Len(levels) - 1]
      BY <3>1, PowersDouble
    <3> QED
      BY <2>4, <3>1, <3>2
  <2>9. /\ n <= Len(NextLevel(last)) * PowerOfTwo[Len(levels)]
        /\ (Len(NextLevel(last)) - 1) * PowerOfTwo[Len(levels)] < n
    BY <2>5, <2>6, <2>7, <2>8, HalfWidth
  <2>10. ASSUME NEW l \in 1 .. Len(levels')
         PROVE  /\ Len(leaves) <= Len(levels'[l]) * PowerOfTwo[l - 1]
                /\ (Len(levels'[l]) - 1) * PowerOfTwo[l - 1] < Len(leaves)
    <3>1. CASE l = Len(levels) + 1
      <4>1. l - 1 = Len(levels)
        BY <2>2, <3>1
      <4> QED
        BY <2>3, <2>4, <2>9, <3>1, <4>1
    <3>2. CASE l \in 1 .. Len(levels)
      BY <2>3, <3>2 DEF WidthInv
    <3> QED
      BY <2>2, <2>3, <3>1, <3>2
  <2> QED
    BY <2>1, <2>10 DEF WidthInv
<1>5. BuildLevel => UNCHANGED leaves
  BY DEF BuildLevel
<1> QED
  BY <1>1, <1>2, <1>3, <1>4, <1>5
     DEF Next, Compute, PathStep, FoldStep, vars

\* A path is logarithmic: no shorter tree has room for the leaves
\* (ledger.ts 254-289).
THEOREM ProofsAreShort == Spec => []ProofShort
<1>1. Init => WidthInv
  BY DEF Init, WidthInv
<1>2. MerkleInv /\ WidthInv => ProofShort
  <2> SUFFICES ASSUME MerkleInv, WidthInv, Done PROVE ProofShort
    BY DEF ProofShort
  <2>1. PICK m : m = Len(path)
    OBVIOUS
  <2>2. m \in Nat /\ Len(levels) = m + 1 /\ Len(leaves) \in Nat
    BY <2>1, ArrayLen DEF MerkleInv, LevelsInv, PathInv, Done
  <2>3. Len(leaves) <= PowerOfTwo[m]
    <3>1. Len(levels[m + 1]) = 1
      BY <2>2 DEF MerkleInv, LevelsInv, LastOf
    <3>2. m + 1 \in 1 .. Len(levels) /\ (m + 1) - 1 = m
      BY <2>2
    <3>3. Len(leaves) <= 1 * PowerOfTwo[m]
      BY <3>1, <3>2 DEF WidthInv
    <3>4. PICK p \in Nat : p = PowerOfTwo[m]
      BY <2>2, PowersDouble
    <3> QED
      BY <2>2, <3>3, <3>4
  <2>4. ASSUME m # 0
        PROVE  PowerOfTwo[m - 1] < Len(leaves)
    <3>1. PICK w : w = Len(levels[m])
      OBVIOUS
    <3>2. m \in 1 .. Len(levels) - 1 /\ m \in 1 .. Len(levels)
      BY <2>2, <2>4
    <3>3. w \in Nat /\ w > 1
      BY <3>1, <3>2, ArrayLen DEF MerkleInv, LevelsInv
    <3>4. PICK p \in Nat : p = PowerOfTwo[m - 1]
      <4>1. m - 1 \in Nat
        BY <2>2, <2>4
      <4> QED
        BY <4>1, PowersDouble
    <3>5. (w - 1) * p < Len(leaves)
      BY <3>1, <3>2, <3>4 DEF WidthInv
    <3>6. p <= (w - 1) * p
      BY <3>3
    <3> QED
      BY <2>2, <3>3, <3>4, <3>5, <3>6
  <2>5. path # <<>> => m # 0
    BY <2>1, <2>2 DEF MerkleInv, PathInv, Array
  <2> QED
    BY <2>1, <2>3, <2>4, <2>5 DEF ProofShort
<1>3. MerkleInv /\ WidthInv /\ [Next]_vars => MerkleInv' /\ WidthInv'
  BY MerkleInvStep, WidthInvStep
<1> QED
  BY <1>1, <1>2, <1>3, MerkleInvInit, PTL DEF Spec

-----------------------------------------------------------------------------
(* The loops come to an end *)

LEMMA LevelBrings ==
  ASSUME MerkleInv, BuildLevel
  PROVE  Remaining' < Remaining
<1>1. pc = "levels" /\ levels # <<>> /\ path = <<>> /\ UNCHANGED <<path, folded>>
  BY DEF BuildLevel, MerkleInv, PathInv
<1>2. PICK k \in Nat : k = Len(levels) /\ k >= 1
  BY <1>1, ArrayLen DEF MerkleInv, LevelsInv, Array
<1>3. PICK w \in Nat : w = Len(LastOf(levels)) /\ w >= 1
  BY <1>2, ArrayLen DEF MerkleInv, LevelsInv, LastOf
<1>4. Remaining = 3 * w + 2 * k
  BY <1>1, <1>2, <1>3 DEF Remaining
<1>5. CASE MoreLevels(LastOf(levels))
  <2>1. levels' = Append(levels, NextLevel(LastOf(levels))) /\ pc' = "levels"
    BY <1>1, <1>5 DEF BuildLevel
  <2>2. PICK now : now = levels'
    OBVIOUS
  <2>3. Len(now) = k + 1 /\ now[k + 1] = NextLevel(LastOf(levels))
    BY <1>2, <2>1, <2>2, ArrayAppended DEF MerkleInv, LevelsInv
  <2>4. Len(LastOf(now)) = (w + 1) \div 2
    BY <1>3, <2>3, NextLevelArray DEF LastOf
  <2>5. (w + 1) \div 2 < w
    BY <1>3, <1>5 DEF MoreLevels
  <2>6. Remaining' = 3 * ((w + 1) \div 2) + 2 * (k + 1)
    BY <2>1, <2>2, <2>3, <2>4 DEF Remaining
  <2> QED
    BY <1>4, <2>5, <2>6
<1>6. CASE ~MoreLevels(LastOf(levels))
  <2>1. pc' = "path" /\ levels' = levels /\ path' = <<>>
    BY <1>1, <1>6 DEF BuildLevel
  <2>2. Remaining' = 2 * k - 0
    BY <1>2, <2>1 DEF Remaining
  <2> QED
    BY <1>3, <1>4, <2>2
<1> QED
  BY <1>5, <1>6

LEMMA PathBrings ==
  ASSUME MerkleInv, PathStep
  PROVE  Remaining' < Remaining
<1>1. pc = "path" /\ levels # <<>> /\ UNCHANGED <<levels, folded>>
  BY DEF PathStep, MerkleInv, PathInv
<1>2. PICK k \in Nat : k = Len(levels)
  BY ArrayLen DEF MerkleInv, LevelsInv
<1>3. PICK p \in Nat : p = Len(path) /\ p < k
  BY <1>1, <1>2, ArrayLen DEF MerkleInv, PathInv
<1>4. Remaining = 2 * k - p
  BY <1>1, <1>2, <1>3 DEF Remaining
<1>5. CASE p < k - 1
  <2>1. pc' = "path" /\ \E node : path' = Append(path, node)
    BY <1>1, <1>2, <1>3, <1>5 DEF PathStep
  <2>2. Len(path') = p + 1
    BY <1>3, <2>1, ArrayAppended DEF MerkleInv, PathInv
  <2>3. Remaining' = 2 * k - (p + 1)
    BY <1>1, <1>2, <2>1, <2>2 DEF Remaining
  <2> QED
    BY <1>4, <2>3
<1>6. CASE ~(p < k - 1)
  <2>1. pc' = "fold" /\ folded = 0
    BY <1>1, <1>2, <1>3, <1>6 DEF PathStep, MerkleInv, FoldInv
  <2>2. Remaining' = k - 0
    BY <1>1, <1>2, <2>1 DEF Remaining
  <2> QED
    BY <1>3, <1>4, <2>2
<1> QED
  BY <1>5, <1>6

LEMMA FoldBrings ==
  ASSUME MerkleInv, FoldStep
  PROVE  Remaining' < Remaining
<1>1. pc = "fold" /\ levels # <<>> /\ UNCHANGED levels
  BY DEF FoldStep, MerkleInv, PathInv
<1>2. PICK k \in Nat : k = Len(levels)
  BY ArrayLen DEF MerkleInv, LevelsInv
<1>3. PICK p \in Nat : p = Len(path) /\ p < k
  BY <1>1, <1>2, ArrayLen DEF MerkleInv, PathInv
<1>4. folded \in Nat /\ folded <= p
  BY <1>3 DEF MerkleInv, FoldInv
<1>5. Remaining = k - folded
  BY <1>1, <1>2 DEF Remaining
<1>6. CASE folded < p
  <2>1. pc' = "fold" /\ folded' = folded + 1
    BY <1>1, <1>3, <1>6 DEF FoldStep
  <2>2. Remaining' = k - (folded + 1)
    BY <1>1, <1>2, <2>1 DEF Remaining
  <2> QED
    BY <1>4, <1>5, <2>2
<1>7. CASE ~(folded < p)
  <2>1. Remaining' = 0
    BY <1>1, <1>3, <1>7 DEF FoldStep, Remaining
  <2> QED
    BY <1>3, <1>4, <1>5, <2>1
<1> QED
  BY <1>6, <1>7

\* Whatever the number of leaves, each iteration of the three loops brings them
\* nearer to their end, so a proof that is started is delivered as soon as the
\* loops are run (ledger.ts 253-286, crypto.ts 99).
THEOREM LoopsAlwaysDescend == Spec => LoopsDescend
<1>1. ASSUME MerkleInv, [Next]_vars, pc # "idle", ~UNCHANGED vars
      PROVE  Remaining' < Remaining
  <2>1. Compute
    BY <1>1 DEF Next, AddLeaf, StartProof
  <2> QED
    BY <1>1, <2>1, LevelBrings, PathBrings, FoldBrings DEF Compute
<1>2. MerkleInv /\ [Next]_vars => [pc # "idle" => Remaining' < Remaining]_vars
  BY <1>1
<1> QED
  BY <1>2, MerkleInvInit, MerkleInvStep, PTL DEF Spec, LoopsDescend
=============================================================================
