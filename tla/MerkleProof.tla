----------------------------- MODULE MerkleProof -----------------------------
(***************************************************************************)
(* The Merkle inclusion proof: merkleLevels and getProof on the service    *)
(* (standin-service/src/ledger.ts) and foldMerkleProof in the browser      *)
(* (app/src/lib/crypto.ts), one step per loop iteration.                   *)
(*                                                                         *)
(* Arrays are sequences, so the element a JavaScript index i selects is at *)
(* i + 1.  idx keeps every value the loop variable idx takes, the present  *)
(* one last, for the properties to refer to.  The hash of a pair is any    *)
(* operator; the model checker is given an injective one.                  *)
(***************************************************************************)
EXTENDS Naturals, Sequences

CONSTANTS
  LeafHashes,    \* the hashes of transactions, a fresh one for each
  Forgeries,     \* leaf hashes a client may start from instead of the real one
  HashPair(_, _) \* hashPair: sha256(left + right)

VARIABLES
  leaves, \* the leaf hashes recorded so far
  pc,     \* "idle", or the loop that runs: "levels", "path", "fold"
  levels, \* merkleLevels' result so far, the leaves first
  idx,    \* the values of getProof's idx so far
  path,   \* proofPath so far
  h,      \* the hash the browser has folded so far
  folded, \* how many nodes of the path it has folded
  forged  \* whether the browser started from a forged leaf

vars == <<leaves, pc, levels, idx, path, h, folded, forged>>

LastOf(s) == s[Len(s)]

NoHash == <<>>

Init ==
  /\ leaves = <<>>
  /\ pc = "idle"
  /\ levels = <<>>
  /\ idx = <<>>
  /\ path = <<>>
  /\ h = NoHash
  /\ folded = 0
  /\ forged = FALSE

\* addLeaf: the ledger records a transaction.
AddLeaf(leaf) ==
  /\ pc = "idle"
  /\ leaves' = Append(leaves, leaf)
  /\ levels' = <<>>
  /\ idx' = <<>>
  /\ path' = <<>>
  /\ h' = NoHash
  /\ folded' = 0
  /\ forged' = FALSE
  /\ UNCHANGED pc

\* Mutation of StartProof: the path of the previous proof is kept.
StartProofKeepsPath(leafIndex) ==
  /\ pc = "idle"
  /\ leafIndex + 1 \in DOMAIN leaves
  /\ pc' = "levels"
  /\ levels' = <<leaves>>
  /\ idx' = <<leafIndex>>
  /\ h' = NoHash
  /\ folded' = 0
  /\ forged' = FALSE
  /\ UNCHANGED <<leaves, path>>

\* getProof for the transaction at leafIndex.
StartProof(leafIndex) ==
  /\ pc = "idle"
  /\ leafIndex + 1 \in DOMAIN leaves
  /\ pc' = "levels"
  /\ levels' = <<leaves>>
  /\ idx' = <<leafIndex>>
  /\ path' = <<>>
  /\ h' = NoHash
  /\ folded' = 0
  /\ forged' = FALSE
  /\ UNCHANGED leaves

\* The i-th pair of a level; the last node is duplicated when it is odd.
PairAt(cur, i) ==
  HashPair(cur[2 * i - 1], IF 2 * i <= Len(cur) THEN cur[2 * i] ELSE cur[2 * i - 1])

\* Mutation of NextLevel: an odd last node is dropped.
NextLevelDropsOdd(cur) == [i \in 1 .. Len(cur) \div 2 |-> PairAt(cur, i)]

\* Mutation of NextLevel: the pairs overlap, and the level does not shrink.
NextLevelTooLong(cur) ==
  [i \in 1 .. Len(cur) |-> HashPair(cur[i], cur[IF i < Len(cur) THEN i + 1 ELSE i])]

NextLevel(cur) == [i \in 1 .. (Len(cur) + 1) \div 2 |-> PairAt(cur, i)]

\* Mutation of MoreLevels: the loop stops one level early.
MoreThanTwo(cur) == Len(cur) > 2

MoreLevels(cur) == Len(cur) > 1

\* Mutation of BuildLevel: the new level is not pushed.
BuildLevelLost ==
  /\ pc = "levels"
  /\ IF MoreLevels(LastOf(levels))
       THEN UNCHANGED <<pc, levels>>
       ELSE /\ pc' = "path"
            /\ UNCHANGED levels
  /\ UNCHANGED <<leaves, idx, path, h, folded, forged>>

BuildLevel ==
  /\ pc = "levels"
  /\ IF MoreLevels(LastOf(levels))
       THEN /\ levels' = Append(levels, NextLevel(LastOf(levels)))
            /\ UNCHANGED pc
       ELSE /\ pc' = "path"
            /\ UNCHANGED levels
  /\ UNCHANGED <<leaves, idx, path, h, folded, forged>>

\* Mutation of PathNode: the side is read off the sibling instead of the node.
PathNodeFlipped(level, i) ==
  LET isRight == i % 2 = 1
      sibIdx == IF isRight THEN i - 1 ELSE i + 1
  IN  [hash |-> IF sibIdx < Len(level) THEN level[sibIdx + 1] ELSE level[i + 1],
       direction |-> IF isRight THEN "right" ELSE "left"]

\* The sibling of node i of a level and the side it is on.
PathNode(level, i) ==
  LET isRight == i % 2 = 1
      sibIdx == IF isRight THEN i - 1 ELSE i + 1
  IN  [hash |-> IF sibIdx < Len(level) THEN level[sibIdx + 1] ELSE level[i + 1],
       direction |-> IF isRight THEN "left" ELSE "right"]

\* Mutation of StartOf: the tampered leaf is shown but not folded.
StartIgnored(leaf, tampered) == leaf

\* The leaf hash the browser starts from: the reply's, or a tampered one.
StartOf(leaf, tampered) == tampered

\* One iteration of getProof's loop, or its end: the browser receives the
\* proof and folds it from its leaf hash or, with the tamper box ticked, from
\* one that differs from it in its first digit.
PathStep ==
  /\ pc = "path"
  /\ IF Len(path) < Len(levels) - 1
       THEN /\ path' = Append(path, PathNode(levels[Len(path) + 1], LastOf(idx)))
            /\ idx' = Append(idx, LastOf(idx) \div 2)
            /\ UNCHANGED <<pc, h, forged>>
       ELSE /\ pc' = "fold"
            /\ \/ h' = leaves[idx[1] + 1] /\ forged' = FALSE
               \/ /\ \E tampered \in Forgeries \ {leaves[idx[1] + 1]} :
                        h' = StartOf(leaves[idx[1] + 1], tampered)
                  /\ forged' = TRUE
            /\ UNCHANGED <<path, idx>>
  /\ UNCHANGED <<leaves, levels, folded>>

FoldNode(hash, node) ==
  IF node.direction = "left" THEN HashPair(node.hash, hash)
                             ELSE HashPair(hash, node.hash)

FoldStep ==
  /\ pc = "fold"
  /\ IF folded < Len(path)
       THEN /\ h' = FoldNode(h, path[folded + 1])
            /\ folded' = folded + 1
            /\ UNCHANGED pc
       ELSE /\ pc' = "idle"
            /\ UNCHANGED <<h, folded>>
  /\ UNCHANGED <<leaves, levels, idx, path, forged>>

Compute == BuildLevel \/ PathStep \/ FoldStep

Next ==
  \/ \E leaf \in LeafHashes :
       (\A i \in DOMAIN leaves : leaves[i] # leaf) /\ AddLeaf(leaf)
  \/ \E leafIndex \in 0 .. Len(leaves) - 1 : StartProof(leafIndex)
  \/ Compute

Spec == Init /\ [][Next]_vars

\* The three loops run to their end.
FairSpec == Spec /\ WF_vars(Compute)

-----------------------------------------------------------------------------
\* A proof has been computed and folded.
Done == pc = "idle" /\ levels # <<>>

merkleRoot == LastOf(levels)[1]

\* The arrays have the shapes the loops build.
TypeOK ==
  /\ leaves \in Seq(LeafHashes)
  /\ pc \in {"idle", "levels", "path", "fold"}
  /\ Len(levels) \in Nat
  /\ \A l \in DOMAIN levels : Len(levels[l]) \in Nat
  /\ idx \in Seq(Nat)
  /\ Len(path) \in Nat
  /\ folded \in 0 .. Len(path)
  /\ levels # <<>> => Len(idx) = Len(path) + 1 /\ Len(path) < Len(levels)
  /\ forged \in BOOLEAN

\* Folding the leaf hash of a transaction along the path the service returned
\* gives the merkleRoot of the same reply, for every ledger size, odd levels
\* included (ledger.ts 248-289, crypto.ts 97-101).
ProofFolds == Done /\ ~forged => h = merkleRoot

\* Starting from another leaf hash never reaches the root.
TamperDetected == Done /\ forged => h # merkleRoot

PowerOfTwo[k \in Nat] == IF k = 0 THEN 1 ELSE 2 * PowerOfTwo[k - 1]

\* The path is as short as it can be: no lower tree has room for the leaves
\* (ledger.ts 254-289).
ProofShort ==
  Done => /\ Len(leaves) <= PowerOfTwo[Len(path)]
          /\ path # <<>> => PowerOfTwo[Len(path) - 1] < Len(leaves)

\* A bound on the iterations the three loops have left, ends included.
Remaining ==
  CASE pc = "idle" -> 0
    [] pc = "levels" -> 3 * Len(LastOf(levels)) + 2 * Len(levels)
    [] pc = "path" -> 2 * Len(levels) - Len(path)
    [] pc = "fold" -> Len(levels) - folded

\* Each iteration brings the loops nearer to their end: a level is shorter than
\* the one below, and path and fold are no longer than the tree is high
\* (ledger.ts 253-286, crypto.ts 99).
LoopsDescend == [][pc # "idle" => Remaining' < Remaining]_vars

\* Every proof that is started is delivered and checked: no loop runs for ever.
ProofDelivered == pc = "levels" ~> Done

-----------------------------------------------------------------------------
(* The tree by its definition *)

\* Each row pairs up the nodes of the one below, an odd last node with itself.
Halved(row) ==
  [i \in 1 .. (Len(row) + 1) \div 2 |->
     HashPair(row[2 * i - 1], row[IF 2 * i > Len(row) THEN Len(row) ELSE 2 * i])]

\* The rows of the tree over a row of leaf hashes, from the bottom.
Rows(row) ==
  LET rows[l \in Nat] == IF l = 0 THEN row ELSE Halved(rows[l - 1])
  IN  rows

Height(row) ==
  CHOOSE l \in 0 .. Len(row) :
    Len(Rows(row)[l]) = 1 /\ \A k \in 0 .. l - 1 : Len(Rows(row)[k]) # 1

Root(row) == Rows(row)[Height(row)][1]

\* The service's root is the root of the tree, and it is not the root the
\* ledger had at any smaller size: an anchored root tells the ledgers apart
\* (ledger.ts 234-289).
RootCommits ==
  Done => /\ merkleRoot = Root(leaves)
          /\ \A n \in 1 .. Len(leaves) - 1 : Root(SubSeq(leaves, 1, n)) # merkleRoot
=============================================================================
