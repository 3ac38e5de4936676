---------------------------- MODULE MCMerkleProof ----------------------------
(***************************************************************************)
(* Ledgers of up to five transactions.  A hash is the term that was        *)
(* hashed: a leaf is a tuple of one, a pair a tuple of two.                *)
(***************************************************************************)
EXTENDS MerkleProof

MCLeafHashes == {<<n>> : n \in 1 .. 5}

\* A forged leaf hash may be that of another transaction.
MCForgeries == {<<1>>, <<6>>}
MCHashPair(left, right) == <<left, right>>
=============================================================================
