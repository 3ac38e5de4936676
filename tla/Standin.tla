------------------------------ MODULE Standin ------------------------------
(***************************************************************************)
(* The stand-in service (standin-service/src/handlers.ts): every request,  *)
(* with its refusals in the order the code checks them.  Node runs a       *)
(* handler to its end before the next one, and no handler awaits, so a     *)
(* request is one step; requests of different clients interleave freely.   *)
(*                                                                         *)
(* reply is the last answer sent.  Of the answer to a request that reads   *)
(* it keeps the ids of the records found.                                  *)
(***************************************************************************)
EXTENDS Accounts, Tokens

NoAddress == ""  \* a transfer request without a recipient
NotADid == 0     \* a holderDid that does not start with did:

ASSUME StandinAssumption ==
  /\ Holders = Dids
  /\ NoAddress \notin Addresses

VARIABLE reply

storeVars == <<accountVars, creds, classes, ledgerVars, tokenVars>>
vars == <<storeVars, clock, reply>>

NoCode == "none"  \* an envelope without an error

Unknown == 0  \* an id drawn by randomUUID that no store records

Reply(op, status, code, tokenId, txId) ==
  [op |-> op, status |-> status, code |-> code, tokenId |-> tokenId,
   txId |-> txId, found |-> {}]

Ok(op, status) == reply' = Reply(op, status, NoCode, Unknown, Unknown)

Accepted(op, tokenId, txId) == reply' = Reply(op, 202, NoCode, tokenId, txId)

\* fail(): an error envelope, before anything was changed.
Fail(op, status, code) ==
  /\ reply' = Reply(op, status, code, Unknown, Unknown)
  /\ UNCHANGED <<storeVars, clock>>

\* The answer to a request that reads: what it found.
Found(op, found) ==
  /\ reply' = [Reply(op, 200, NoCode, Unknown, Unknown) EXCEPT !.found = found]
  /\ UNCHANGED <<storeVars, clock>>

FoundOr(op, found, code) ==
  \/ found # {} /\ Found(op, found)
  \/ found = {} /\ Fail(op, 404, code)

Init ==
  /\ AccountsInit
  /\ TokensInit
  /\ reply = Reply("none", 0, NoCode, Unknown, Unknown)

-----------------------------------------------------------------------------
\* Mutation of AddressFree: the availability check is left to the client.
AddressAlwaysFree(a) == TRUE

AddressFree(a) == ~AddressTaken(a)

AccountCreate(a) ==
  \/ /\ a \notin ValidAddresses
     /\ Fail("accountCreate", 400, "INVALID_ADDRESS")
  \/ /\ a \in ValidAddresses
     /\ ~AddressFree(a)
     /\ Fail("accountCreate", 409, "ADDRESS_TAKEN")
  \/ /\ a \in ValidAddresses
     /\ AddressFree(a)
     /\ CreateAccount(a)
     /\ Ok("accountCreate", 201)
     /\ UNCHANGED <<creds, clock, classes, ledgerVars, tokenVars>>

\* A document the credential schema rejects makes issueCredential throw; the
\* handler turns that into ISSUE_FAILED.
CredentialIssue(holder, subject, schemaValid) ==
  \/ /\ holder \notin Holders
     /\ Fail("credentialIssue", 400, "INVALID_HOLDER")
  \/ /\ holder \in Holders
     /\ ~schemaValid
     /\ Fail("credentialIssue", 500, "ISSUE_FAILED")
  \/ /\ holder \in Holders
     /\ schemaValid
     /\ IssueCredential(holder, subject)
     /\ Ok("credentialIssue", 201)
     /\ UNCHANGED <<accountVars, classes, ledgerVars, tokenVars>>

CredentialRevoke(id) ==
  \/ /\ id \notin DOMAIN creds
     /\ Fail("credentialRevoke", 404, "NOT_FOUND")
  \/ /\ id \in DOMAIN creds
     /\ RevokeCredential(id)
     /\ Ok("credentialRevoke", 200)
     /\ UNCHANGED <<accountVars, classes, ledgerVars, tokenVars>>

\* Mutation of ClassFree: a class may be registered again.
ClassAlwaysFree(name) == TRUE

ClassFree(name) == ~TokenClassExists(name)

\* The class is stored before the reply is validated, so a class whose
\* metadata the reply schema rejects is answered with 500 and kept.
TokenClassRegister(name, definition) ==
  \/ /\ definition.metadata = "incomplete"
     /\ Fail("tokenClassRegister", 400, "INVALID_REQUEST")
  \/ /\ definition.metadata # "incomplete"
     /\ ~ClassFree(name)
     /\ Fail("tokenClassRegister", 409, "RESOURCE_CONFLICT")
  \/ /\ definition.metadata # "incomplete"
     /\ ClassFree(name)
     /\ RegisterTokenClass(name, definition)
     /\ IF ReplyConforms(definition)
          THEN Ok("tokenClassRegister", 201)
          ELSE reply' = Reply("tokenClassRegister", 500, "HTTP_500",
                              Unknown, Unknown)
     /\ UNCHANGED <<accountVars, credentialVars, ledgerVars, tokenVars>>

\* The caller becomes the owner.  A token the token schema rejects makes
\* mintToken throw, before anything is stored.  The accepted reply carries a
\* transaction id of its own, not the ledger's.
TokenMint(token, class, nameValid) ==
  \/ /\ ~LoggedIn(token)
     /\ Fail("tokenMint", 401, "UNAUTHORIZED")
  \/ /\ LoggedIn(token)
     /\ \/ /\ ~TokenClassExists(class)
           /\ Fail("tokenMint", 404, "CLASS_NOT_FOUND")
        \/ /\ TokenClassExists(class)
           /\ LET did == GetByToken(token).did
                  schemaValid == nameValid /\ TokenConforms(class)
              IN  \/ /\ ~ComplianceOK(class, did)
                     /\ Fail("tokenMint", 403, "COMPLIANCE_CHECK_FAILED")
                  \/ /\ ComplianceOK(class, did)
                     /\ ~schemaValid
                     /\ Fail("tokenMint", 500, "HTTP_500")
                  \/ /\ ComplianceOK(class, did)
                     /\ schemaValid
                     /\ MintToken(class, did)
                     /\ Accepted("tokenMint", Len(byId) + 1, Unknown)
                     /\ UNCHANGED accountVars

TokenTransact(token, operation, id, to) ==
  \/ /\ ~LoggedIn(token)
     /\ Fail("tokenTransact", 401, "UNAUTHORIZED")
  \/ /\ LoggedIn(token)
     /\ operation # "transfer"
     /\ Fail("tokenTransact", 400, "UNSUPPORTED_OPERATION")
  \/ /\ LoggedIn(token)
     /\ operation = "transfer"
     /\ \/ /\ to = NoAddress
           /\ Fail("tokenTransact", 400, "INVALID_REQUEST")
        \/ /\ to # NoAddress
           /\ ~AddressTaken(to)
           /\ Fail("tokenTransact", 404, "RECIPIENT_NOT_FOUND")
        \/ /\ AddressTaken(to)
           /\ id \notin DOMAIN byId
           /\ Fail("tokenTransact", 404, "TOKEN_NOT_FOUND")
        \/ /\ AddressTaken(to)
           /\ id \in DOMAIN byId
           /\ ~IsOwner(id, GetByToken(token).did)
           /\ Fail("tokenTransact", 403, "NOT_OWNER")
        \/ /\ AddressTaken(to)
           /\ id \in DOMAIN byId
           /\ IsOwner(id, GetByToken(token).did)
           /\ TransferToken(id, GetByToken(token).did, byAddress[to].did)
           /\ Accepted("tokenTransact", id, Len(txs) + 1)
           /\ UNCHANGED accountVars

-----------------------------------------------------------------------------
(* Requests that read *)

CheckAvailability(a) ==
  Found("checkAvailability",
        IF AddressTaken(a) THEN {byAddress[a].did} ELSE {})

ResolveAddress(a) ==
  FoundOr("resolveAddress", IF AddressTaken(a) THEN {byAddress[a].did} ELSE {},
          "NOT_FOUND")

\* keysSign and keysPublic: the answer is the key signed with, or shown.
KeyRequest(op, keyId) ==
  FoundOr(op,
          IF keyId \in DOMAIN byKeyId THEN {GetByKeyId(keyId).keyId} ELSE {},
          "KEY_NOT_FOUND")

\* The caller's account, key or tokens; tokenAccount refuses other callers.
AccountRequest(op, token, ids) ==
  \/ ~LoggedIn(token) /\ Fail(op, 401, "UNAUTHORIZED")
  \/ LoggedIn(token) /\ Found(op, ids)

AccountGet(token) ==
  AccountRequest("accountGet", token, {GetByToken(token).did})

KeysSearch(token) ==
  AccountRequest("keysSearch", token, {GetByToken(token).keyId})

TokenSearch(token) ==
  AccountRequest("tokenSearch", token, TokensForOwner(GetByToken(token).did))

\* The client names a credential or presents its copy, whose status may be an
\* old one; the answer is the credential when it is valid.
CredentialVerify(id, status) ==
  \/ /\ id \notin DOMAIN creds
     /\ Fail("credentialVerify", 404, "NOT_FOUND")
  \/ /\ id \in DOMAIN creds
     /\ Found("credentialVerify",
              IF Valid([creds[id] EXCEPT !.status = status]) THEN {id} ELSE {})

CredentialList(holder) ==
  Found("credentialList", CredentialsForHolder(holder))

\* Classes have names, not ids: that one was found is all that is kept.
TokenClassGet(name) ==
  \/ TokenClassExists(name) /\ Found("tokenClassGet", {})
  \/ ~TokenClassExists(name) /\ Fail("tokenClassGet", 404, "RESOURCE_NOT_FOUND")

\* Mutation of TokenGet: the owner is that of the token's mint.
TokenGetMinted(id) ==
  FoundOr("tokenGet",
          IF id \in DOMAIN byId THEN {txs[historyByToken[id][1]].to} ELSE {},
          "RESOURCE_NOT_FOUND")

\* The answer is the token, of which its owner is kept.
TokenGet(id) ==
  FoundOr("tokenGet", IF id \in DOMAIN byId THEN {byId[id].owner} ELSE {},
          "RESOURCE_NOT_FOUND")

TransactionGet(txId) ==
  FoundOr("transactionGet", {txId} \cap DOMAIN txs, "RESOURCE_NOT_FOUND")

TransactionProof(txId) ==
  FoundOr("transactionProof", IF HasProof(txId) THEN {txId} ELSE {},
          "RESOURCE_NOT_FOUND")

\* An unknown token has an empty history.
TokenTransactionsList(id) ==
  Found("tokenTransactionsList",
        {historyByToken[id][i] : i \in DOMAIN historyByToken[id]})

Read ==
  \/ \E a \in Addresses : CheckAvailability(a) \/ ResolveAddress(a)
  \/ \E n \in 0 .. MaxAccounts :
       \/ AccountGet(n) \/ KeysSearch(n) \/ TokenSearch(n)
       \/ KeyRequest("keysSign", n) \/ KeyRequest("keysPublic", n)
  \/ \E id \in 1 .. MaxCreds, status \in {"active", "revoked"} :
       CredentialVerify(id, status)
  \/ \E holder \in Holders : CredentialList(holder)
  \/ \E name \in ClassNames : TokenClassGet(name)
  \/ \E id \in TokenIds : TokenGet(id) \/ TokenTransactionsList(id)
  \/ \E txId \in 1 .. MaxTxs : TransactionGet(txId) \/ TransactionProof(txId)

\* Time passes between requests.
ClockTick ==
  /\ Tick
  /\ UNCHANGED <<accountVars, classes, ledgerVars, tokenVars, reply>>

Next ==
  \/ \E a \in Addresses : AccountCreate(a)
  \/ \E holder \in Holders \cup {NotADid}, subject \in Subjects,
        schemaValid \in BOOLEAN : CredentialIssue(holder, subject, schemaValid)
  \/ \E id \in 1 .. MaxCreds : CredentialRevoke(id)
  \/ \E name \in ClassNames, definition \in Definitions :
       TokenClassRegister(name, definition)
  \/ \E token \in 0 .. MaxAccounts, class \in ClassNames,
        nameValid \in BOOLEAN : TokenMint(token, class, nameValid)
  \/ \E token \in 0 .. MaxAccounts, id \in TokenIds,
        to \in Addresses \cup {NoAddress} :
          TokenTransact(token, "transfer", id, to)
  \/ \E token \in 0 .. MaxAccounts, id \in TokenIds :
       TokenTransact(token, "burn", id, NoAddress)
  \/ Read
  \/ ClockTick

Spec == Init /\ [][Next]_vars
=============================================================================
