------------------------------- MODULE Ledger -------------------------------
(***************************************************************************)
(* The unified ledger (standin-service/src/ledger.ts): the transaction     *)
(* log, the history of each token, the state-commitment chain and the      *)
(* Merkle leaves.                                                          *)
(*                                                                         *)
(* A transaction and its one token transaction get fresh ids in the same   *)
(* call and are stored together, so one sequence stands for both maps and  *)
(* the position is the id.  SHA-256 is idealised as injective: a state     *)
(* commitment is the sequence of everything that was folded into it, and a *)
(* leaf hash is the leaf's data.  Timestamps and anchors are left out.     *)
(***************************************************************************)
EXTENDS Naturals, Sequences

CONSTANTS
  MaxTokens, \* bound on the tokens minted
  MaxTxs     \* bound on the transactions recorded

ASSUME LedgerAssumption == MaxTokens \in Nat /\ MaxTxs \in Nat

VARIABLES
  txs,            \* the transaction log with its token transactions
  historyByToken, \* token id -> ids of its transactions, oldest first
  leaves          \* one Merkle leaf per transaction

ledgerVars == <<txs, historyByToken, leaves>>

TokenIds == 1 .. MaxTokens

NoAccount == 0  \* fromAccount of a mint

LedgerInit ==
  /\ txs = <<>>
  /\ historyByToken = [t \in TokenIds |-> <<>>]
  /\ leaves = <<>>

\* Mutation of NextCommitment: the claims are left out of the hash.
CommitmentWithoutClaims(previous, txId, tokenId, ownerDid, digest) ==
  Append(previous, [txId |-> txId, tokenId |-> tokenId, owner |-> ownerDid,
                    claims |-> <<>>])

\* nextCommitment: the hash of the previous commitment and the new state.
NextCommitment(previous, txId, tokenId, ownerDid, digest) ==
  Append(previous, [txId |-> txId, tokenId |-> tokenId, owner |-> ownerDid,
                    claims |-> digest])

\* The data hashed into a transaction's leaf.
LeafHash(txId, tx) ==
  [txId |-> txId, operation |-> tx.operation, tokenId |-> tx.tokenId,
   stateBefore |-> tx.stateBefore, stateAfter |-> tx.stateAfter]

\* Mutation of AddLeaf: only a mint gets a leaf.
AddMintLeaf(txId, tx) ==
  IF tx.operation = "mint"
    THEN leaves' = Append(leaves,
                          [txId |-> txId, leafHash |-> LeafHash(txId, tx)])
    ELSE UNCHANGED leaves

AddLeaf(txId, tx) ==
  leaves' = Append(leaves, [txId |-> txId, leafHash |-> LeafHash(txId, tx)])

\* Mutation of BuildLog: the history starts again with each transaction.
BuildLogAnew(tx) ==
  /\ txs' = Append(txs, tx)
  /\ historyByToken' = [historyByToken EXCEPT ![tx.tokenId] = <<Len(txs) + 1>>]

BuildLog(tx) ==
  /\ txs' = Append(txs, tx)
  /\ historyByToken' =
       [historyByToken EXCEPT ![tx.tokenId] = Append(@, Len(txs) + 1)]

\* The genesis commitment has no previous state.
MintCommitment(tokenId, ownerDid, digest) ==
  NextCommitment(<<>>, Len(txs) + 1, tokenId, ownerDid, digest)

RecordMint(tokenId, ownerDid, digest) ==
  LET txId == Len(txs) + 1
      tx == [operation |-> "mint", tokenId |-> tokenId,
             from |-> NoAccount, to |-> ownerDid,
             stateBefore |-> <<>>,
             stateAfter |-> MintCommitment(tokenId, ownerDid, digest),
             stateVersion |-> 1]
  IN  /\ txId <= MaxTxs
      /\ BuildLog(tx)
      /\ AddLeaf(txId, tx)

TransferCommitment(tokenId, toDid, previous, digest) ==
  NextCommitment(previous, Len(txs) + 1, tokenId, toDid, digest)

\* Every transfer is written with stateVersion 2.
RecordTransfer(tokenId, fromDid, toDid, previous, digest) ==
  LET txId == Len(txs) + 1
      tx == [operation |-> "transfer", tokenId |-> tokenId,
             from |-> fromDid, to |-> toDid,
             stateBefore |-> previous,
             stateAfter |-> TransferCommitment(tokenId, toDid, previous, digest),
             stateVersion |-> 2]
  IN  /\ txId <= MaxTxs
      /\ BuildLog(tx)
      /\ AddLeaf(txId, tx)

\* getTransaction and getProof find exactly the recorded ids.
HasTransaction(txId) == txId \in DOMAIN txs
HasProof(txId) == \E i \in DOMAIN leaves : leaves[i].txId = txId

\* tokenTransactions: the token's records, oldest first.
TokenTransactions(tokenId) ==
  [i \in DOMAIN historyByToken[tokenId] |-> txs[historyByToken[tokenId][i]]]
=============================================================================
