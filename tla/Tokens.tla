------------------------------- MODULE Tokens -------------------------------
(***************************************************************************)
(* Tokens and their ownership (standin-service/src/tokens.ts): minting     *)
(* with the compliance hook, transfer, and the owner index, on top of the  *)
(* credential store, the class registry and the ledger.                    *)
(*                                                                         *)
(* Tokens are kept in the order they were minted and the id is the         *)
(* position: randomUUID contributes only freshness.  The claims of a token *)
(* are references to stored credentials, as in the code, where the         *)
(* embedded object is the stored object itself.                            *)
(***************************************************************************)
EXTENDS Credentials, TokenClasses, Ledger

VARIABLES
  byId,      \* tokens, by id
  ownerToIds \* owner DID -> ids of the tokens it owns

tokenVars == <<byId, ownerToIds>>

\* What a token's claims hold: the signed documents themselves.
Claims(claims) ==
  [i \in DOMAIN claims |->
     [vc |-> creds[claims[i]].vc, proof |-> creds[claims[i]].proof]]

\* claimsDigest: an injective digest is the claims themselves.
ClaimsDigest(claims) == Claims(claims)

TokensInit ==
  /\ CredentialsInit
  /\ TokenClassesInit
  /\ LedgerInit
  /\ byId = <<>>
  /\ ownerToIds = [d \in Holders |-> {}]

-----------------------------------------------------------------------------
\* The compliance hook lets the mint pass.
ComplianceOK(class, ownerDid) ==
  classes[class].requiresKYC => ValidCredentialsFor(ownerDid) # {}

\* The embedded claims: the credential that authorised the mint, if any.
ComplianceClaims(class, ownerDid) ==
  IF classes[class].requiresKYC THEN <<ValidCredentialFor(ownerDid)>> ELSE <<>>

\* The successful end of mintToken, past the refusals and the schema check.
MintToken(class, ownerDid) ==
  LET id == Len(byId) + 1
      claims == ComplianceClaims(class, ownerDid)
      digest == ClaimsDigest(claims)
  IN  /\ id <= MaxTokens
      /\ RecordMint(id, ownerDid, digest)
      /\ byId' = Append(byId,
                   [class |-> class, owner |-> ownerDid, claims |-> claims,
                    stateCommitment |-> MintCommitment(id, ownerDid, digest)])
      /\ ownerToIds' = [ownerToIds EXCEPT ![ownerDid] = @ \cup {id}]
      /\ UNCHANGED <<credentialVars, classes>>

\* Mutation of Reindex: the new owner is entered before the old one is removed.
ReindexAddFirst(id, fromDid, toDid) ==
  LET added == [ownerToIds EXCEPT ![toDid] = @ \cup {id}]
  IN  [added EXCEPT ![fromDid] = @ \ {id}]

\* The old owner's entry goes first, so a transfer to oneself keeps the token.
Reindex(id, fromDid, toDid) ==
  LET removed == [ownerToIds EXCEPT ![fromDid] = @ \ {id}]
  IN  [removed EXCEPT ![toDid] = @ \cup {id}]

\* Mutation of IsOwner: any token may be moved by any caller.
IsAnyone(id, did) == TRUE

IsOwner(id, did) == byId[id].owner = did

\* Mutation of TransferToken: the token keeps its old state commitment.
TransferKeepsCommitment(id, fromDid, toDid) ==
  LET digest == ClaimsDigest(byId[id].claims)
  IN  /\ RecordTransfer(id, fromDid, toDid, byId[id].stateCommitment, digest)
      /\ byId' = [byId EXCEPT ![id].owner = toDid]
      /\ ownerToIds' = Reindex(id, fromDid, toDid)
      /\ UNCHANGED <<credentialVars, classes>>

\* The successful end of transferToken.
TransferToken(id, fromDid, toDid) ==
  LET digest == ClaimsDigest(byId[id].claims)
      previous == byId[id].stateCommitment
  IN  /\ RecordTransfer(id, fromDid, toDid, previous, digest)
      /\ byId' = [byId EXCEPT ![id] =
                    [@ EXCEPT !.owner = toDid,
                              !.stateCommitment = TransferCommitment(
                                id, toDid, previous, digest)]]
      /\ ownerToIds' = Reindex(id, fromDid, toDid)
      /\ UNCHANGED <<credentialVars, classes>>

\* tokensForOwner
TokensForOwner(did) == {id \in ownerToIds[did] : id \in DOMAIN byId}
=============================================================================
