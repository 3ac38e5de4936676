-------------------------- MODULE StandinProperties --------------------------
(***************************************************************************)
(* What the stand-in service promises, stated over module Standin.         *)
(***************************************************************************)
EXTENDS Standin

EmbeddedVc == [vc : Vc, proof : Vc]

\* What one step folds into a state commitment.
Link ==
  [txId : Nat, tokenId : TokenIds, owner : Dids, claims : Seq(EmbeddedVc)]

Transaction ==
  [operation : {"mint", "transfer"}, tokenId : TokenIds,
   from : Dids \cup {NoAccount}, to : Dids,
   stateBefore : Seq(Link), stateAfter : Seq(Link), stateVersion : {1, 2}]

LeafData ==
  [txId : Nat, operation : {"mint", "transfer"}, tokenId : TokenIds,
   stateBefore : Seq(Link), stateAfter : Seq(Link)]

Token ==
  [class : ClassNames, owner : Dids, claims : Seq(Nat),
   stateCommitment : Seq(Link)]

Operations ==
  {"none", "accountCreate", "credentialIssue", "credentialRevoke",
   "tokenClassRegister", "tokenMint", "tokenTransact", "checkAvailability",
   "resolveAddress", "keysSign", "keysPublic", "accountGet", "keysSearch",
   "tokenSearch", "credentialVerify", "credentialList", "tokenClassGet",
   "tokenGet", "transactionGet", "transactionProof", "tokenTransactionsList"}

ErrorCodes ==
  {"INVALID_ADDRESS", "ADDRESS_TAKEN", "INVALID_HOLDER", "ISSUE_FAILED",
   "NOT_FOUND", "INVALID_REQUEST", "RESOURCE_CONFLICT", "HTTP_500",
   "UNAUTHORIZED", "CLASS_NOT_FOUND", "COMPLIANCE_CHECK_FAILED",
   "UNSUPPORTED_OPERATION", "RECIPIENT_NOT_FOUND", "TOKEN_NOT_FOUND",
   "NOT_OWNER", "KEY_NOT_FOUND", "RESOURCE_NOT_FOUND"}

Replies ==
  [op : Operations, status : Nat, code : ErrorCodes \cup {NoCode},
   tokenId : Nat, txId : Nat, found : SUBSET Nat]

LedgerTypeOK ==
  /\ txs \in Seq(Transaction)
  /\ historyByToken \in [TokenIds -> Seq(Nat)]
  /\ leaves \in Seq([txId : Nat, leafHash : LeafData])

TokensTypeOK ==
  /\ byId \in Seq(Token)
  /\ Len(byId) <= MaxTokens
  /\ ownerToIds \in [Dids -> SUBSET TokenIds]

\* Every store holds values of the shape the code builds.
TypeOK ==
  /\ AccountsTypeOK
  /\ CredentialsTypeOK
  /\ TokenClassesTypeOK
  /\ LedgerTypeOK
  /\ TokensTypeOK
  /\ reply \in Replies

-----------------------------------------------------------------------------
(* Accounts *)

\* An access token and a key id answer for the account they were issued with,
\* for good: no later registration takes the address over (store.ts 34-42).
AccountsKept ==
  \A n \in DOMAIN byToken :
    /\ byToken[n] = byKeyId[n]
    /\ AddressTaken(byToken[n])
    /\ GetByToken(n) = [did |-> n, keyId |-> n]

(* Ownership *)

\* The owner index and the tokens' owner identities never disagree, also
\* after a transfer to oneself: /v1/token/search lists exactly what the
\* caller owns (tokens.ts 145-148, 195-202).
OwnerIndex ==
  \A d \in Dids, t \in TokenIds :
    t \in ownerToIds[d] <=> t \in DOMAIN byId /\ byId[t].owner = d

-----------------------------------------------------------------------------
(* The ledger against the tokens *)

\* A token's history starts with its mint and each transfer continues where
\* the record before it ended: same commitment, same account (ledger.ts
\* 151-233).
ChainLinked ==
  \A t \in DOMAIN byId :
    LET h == TokenTransactions(t)
    IN  /\ Len(h) >= 1
        /\ h[1].operation = "mint"
        /\ h[1].stateBefore = <<>>
        /\ \A i \in 2 .. Len(h) :
             /\ h[i].operation = "transfer"
             /\ h[i].stateBefore = h[i - 1].stateAfter
             /\ h[i].from = h[i - 1].to

\* The token a client fetches stands at the head of its own history: its
\* commitment and owner are those of the last record (tokens.ts 153-158,
\* 195-196).
HeadMatches ==
  \A t \in DOMAIN byId :
    LET h == TokenTransactions(t)
    IN  /\ byId[t].stateCommitment = h[Len(h)].stateAfter
        /\ byId[t].owner = h[Len(h)].to

\* Every transaction is in the history of its token and nowhere else, and
\* has exactly one Merkle leaf, at its own position, over its own data: what
\* was recorded can be proven (ledger.ts 109-146).
LedgerComplete ==
  /\ \A x \in DOMAIN txs :
       \E i \in DOMAIN historyByToken[txs[x].tokenId] :
         historyByToken[txs[x].tokenId][i] = x
  /\ \A t \in TokenIds : \A i \in DOMAIN historyByToken[t] :
       /\ historyByToken[t][i] \in DOMAIN txs
       /\ txs[historyByToken[t][i]].tokenId = t
       /\ \A j \in DOMAIN historyByToken[t] :
            i < j => historyByToken[t][i] < historyByToken[t][j]
  /\ Len(leaves) = Len(txs)
  /\ \A x \in DOMAIN leaves :
       leaves[x] = [txId |-> x, leafHash |-> LeafHash(x, txs[x])]

\* The log, the histories and the leaves are only ever extended.
AppendOnly ==
  [][/\ \A x \in DOMAIN txs : x \in DOMAIN txs' /\ txs'[x] = txs[x]
     /\ \A x \in DOMAIN leaves : x \in DOMAIN leaves' /\ leaves'[x] = leaves[x]
     /\ \A t \in TokenIds : \A i \in DOMAIN historyByToken[t] :
          /\ i \in DOMAIN historyByToken'[t]
          /\ historyByToken'[t][i] = historyByToken[t][i]]_vars

-----------------------------------------------------------------------------
(* Compliance and the embedded credential *)

\* A KYC-gated token comes into being only while its owner holds a valid
\* credential, and that credential is the one it embeds (tokens.ts 91-104).
ComplianceAtMint ==
  [][\A t \in DOMAIN byId' \ DOMAIN byId :
       classes[byId'[t].class].requiresKYC =>
         \E c \in DOMAIN creds :
           /\ byId'[t].claims = <<c>>
           /\ creds[c].holder = byId'[t].owner
           /\ Valid(creds[c])]_vars

\* Wherever a token went since, it carries the credential its first owner
\* was cleared with, exactly when its class asks for one now, and it was
\* built from a class the token schema accepts (tokens.ts 91-104, 128).
ClassPolicyHolds ==
  \A t \in DOMAIN byId :
    /\ TokenConforms(byId[t].class)
    /\ IF classes[byId[t].class].requiresKYC
         THEN \E c \in DOMAIN creds :
                /\ byId[t].claims = <<c>>
                /\ creds[c].holder = TokenTransactions(t)[1].to
         ELSE byId[t].claims = <<>>

\* Every commitment of a token's chain folded in the claims the token has
\* now: revoking or expiring the embedded credential changes neither its
\* signature nor what the chain committed to (ledger.ts 88-107).
ClaimsCommitted ==
  \A t \in DOMAIN byId :
    /\ \A i \in DOMAIN byId[t].stateCommitment :
         byId[t].stateCommitment[i].claims = Claims(byId[t].claims)
    /\ \A i \in DOMAIN byId[t].claims :
         SignatureValid(creds[byId[t].claims[i]])

-----------------------------------------------------------------------------
(* Replies *)

\* An accepted transfer is done when its reply arrives: its transaction is
\* found and has a leaf to prove, and the recipient owns and finds the token
\* (handlers.ts 268-279).
AcceptedMeansDone ==
  reply.op = "tokenTransact" /\ reply.status = 202 =>
    /\ HasTransaction(reply.txId)
    /\ HasProof(reply.txId)
    /\ LET tx == txs[reply.txId]
       IN  /\ tx.tokenId = reply.tokenId
           /\ reply.tokenId \in TokensForOwner(tx.to)
           /\ byId[reply.tokenId].stateCommitment = tx.stateAfter

-----------------------------------------------------------------------------
(* Statements of the repository's documents that the code does not keep *)

\* token-interfaces.yaml 2445-2448: the txId of the accepted reply of a mint
\* is a "Transaction ID for tracking".
MintReceiptTracks ==
  reply.op = "tokenMint" /\ reply.status = 202 => HasTransaction(reply.txId)

-----------------------------------------------------------------------------
(* The abstract registry *)

Registry ==
  INSTANCE OwnershipRegistry WITH
    Owners <- Dids,
    Nobody <- NoAccount,
    owner <- [t \in DOMAIN byId |-> byId[t].owner],
    trail <- [t \in DOMAIN byId |->
                [i \in DOMAIN historyByToken[t] |->
                   [from |-> txs[historyByToken[t][i]].from,
                    to |-> txs[historyByToken[t][i]].to]]]

\* The service implements the ownership registry.
ImplementsRegistry == Registry!RegistrySpec
=============================================================================
