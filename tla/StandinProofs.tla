--------------------------- MODULE StandinProofs ---------------------------
(***************************************************************************)
(* Proofs about the stand-in service, for every set of addresses, classes, *)
(* subjects and definitions and for every bound.                           *)
(***************************************************************************)
EXTENDS StandinProperties, SequenceTheorems,
        WellFoundedInduction, TLAPS

USE StandinAssumption, AccountsAssumption, CredentialsAssumption,
    TokenClassesAssumption, LedgerAssumption

-----------------------------------------------------------------------------
(* What a request does once it is not refused *)

\* Nothing is changed but the reply.
Refused ==
  /\ reply' \in Replies \/ Read
  /\ reply'.status # 202
  /\ UNCHANGED <<storeVars, clock>>

Registered(a) ==
  /\ a \in ValidAddresses
  /\ ~AddressTaken(a)
  /\ CreateAccount(a)
  /\ Ok("accountCreate", 201)
  /\ UNCHANGED <<creds, clock, classes, ledgerVars, tokenVars>>

Issued(holder, subject) ==
  /\ holder \in Holders
  /\ IssueCredential(holder, subject)
  /\ Ok("credentialIssue", 201)
  /\ UNCHANGED <<accountVars, classes, ledgerVars, tokenVars>>

Revoked(id) ==
  /\ id \in DOMAIN creds
  /\ RevokeCredential(id)
  /\ Ok("credentialRevoke", 200)
  /\ UNCHANGED <<accountVars, classes, ledgerVars, tokenVars>>

ClassAdded(name, definition) ==
  /\ ~TokenClassExists(name)
  /\ RegisterTokenClass(name, definition)
  /\ reply' \in Replies
  /\ reply'.status # 202
  /\ UNCHANGED <<accountVars, credentialVars, ledgerVars, tokenVars>>

Minted(token, class) ==
  /\ LoggedIn(token)
  /\ TokenClassExists(class)
  /\ TokenConforms(class)
  /\ ComplianceOK(class, GetByToken(token).did)
  /\ MintToken(class, GetByToken(token).did)
  /\ Accepted("tokenMint", Len(byId) + 1, Unknown)
  /\ UNCHANGED accountVars

Transferred(token, id, to) ==
  /\ LoggedIn(token)
  /\ AddressTaken(to)
  /\ id \in DOMAIN byId
  /\ IsOwner(id, GetByToken(token).did)
  /\ TransferToken(id, GetByToken(token).did, byAddress[to].did)
  /\ Accepted("tokenTransact", id, Len(txs) + 1)
  /\ UNCHANGED accountVars

Effect ==
  \/ Refused
  \/ \E a \in Addresses : Registered(a)
  \/ \E holder \in Holders \cup {NotADid}, subject \in Subjects :
       Issued(holder, subject)
  \/ \E id \in 1 .. MaxCreds : Revoked(id)
  \/ \E name \in ClassNames, definition \in Definitions :
       ClassAdded(name, definition)
  \/ \E token \in 0 .. MaxAccounts, class \in ClassNames : Minted(token, class)
  \/ \E token \in 0 .. MaxAccounts, id \in TokenIds,
        to \in Addresses \cup {NoAddress} : Transferred(token, id, to)
  \/ ClockTick

\* Every request either is refused and changes no store, or has exactly the
\* effect of its last branch (handlers.ts).
LEMMA FailRefuses ==
  ASSUME NEW op \in Operations, NEW status \in Nat \ {202},
         NEW code \in ErrorCodes, Fail(op, status, code)
  PROVE  Refused
BY DEF Fail, Reply, Replies, Refused, Unknown, NoCode

\* A request that reads leaves every store as it is (handlers.ts 42-112).
LEMMA ReadRefuses == Read => Refused
<1>1. ASSUME NEW op, NEW status, NEW code, status # 202, Fail(op, status, code)
      PROVE  reply'.status # 202 /\ UNCHANGED <<storeVars, clock>>
  BY <1>1 DEF Fail, Reply
<1>2. ASSUME NEW op, NEW found, Found(op, found)
      PROVE  reply'.status # 202 /\ UNCHANGED <<storeVars, clock>>
  BY <1>2 DEF Found, Reply
<1> DEFINE Answered ==
             \/ \E op, found : Found(op, found)
             \/ \E op, status, code : status # 202 /\ Fail(op, status, code)
<1>3. Answered => reply'.status # 202 /\ UNCHANGED <<storeVars, clock>>
  BY <1>1, <1>2, Zenon
<1>4. ASSUME NEW op, NEW found, NEW code, FoundOr(op, found, code)
      PROVE  Answered
  BY <1>4 DEF FoundOr
<1>5. ASSUME NEW op, NEW token, NEW ids, AccountRequest(op, token, ids)
      PROVE  Answered
  BY <1>5 DEF AccountRequest
<1>6. \A a : CheckAvailability(a) \/ ResolveAddress(a) => Answered
  BY <1>4, Zenon DEF CheckAvailability, ResolveAddress
<1>7. \A n : \/ AccountGet(n) \/ KeysSearch(n) \/ TokenSearch(n)
             \/ KeyRequest("keysSign", n) \/ KeyRequest("keysPublic", n)
             => Answered
  BY <1>4, <1>5, Zenon DEF AccountGet, KeysSearch, TokenSearch, KeyRequest
<1>8. \A id, status : CredentialVerify(id, status) => Answered
  BY DEF CredentialVerify
<1>9. \A x : CredentialList(x) \/ TokenClassGet(x) => Answered
  BY DEF CredentialList, TokenClassGet
<1>10. \A id : \/ TokenGet(id) \/ TokenTransactionsList(id)
              \/ TransactionGet(id) \/ TransactionProof(id) => Answered
  BY <1>4, Zenon DEF TokenGet, TokenTransactionsList, TransactionGet,
     TransactionProof
<1> QED
  BY <1>3, <1>6, <1>7, <1>8, <1>9, <1>10, Zenon DEF Read, Refused

LEMMA StepEffect == Next => Effect
<1> USE FailRefuses DEF Operations, ErrorCodes
<1>1. ASSUME NEW a \in Addresses, AccountCreate(a)
      PROVE  Refused \/ Registered(a)
  BY <1>1 DEF AccountCreate, AddressFree, Registered
<1>2. ASSUME NEW holder \in Holders \cup {NotADid}, NEW subject \in Subjects,
             NEW schemaValid \in BOOLEAN,
             CredentialIssue(holder, subject, schemaValid)
      PROVE  Refused \/ Issued(holder, subject)
  <2>1. \/ Fail("credentialIssue", 400, "INVALID_HOLDER")
        \/ Fail("credentialIssue", 500, "ISSUE_FAILED")
        \/ Issued(holder, subject)
    BY <1>2, Zenon DEF CredentialIssue, Issued
  <2> QED
    BY <2>1
<1>3. ASSUME NEW id \in 1 .. MaxCreds, CredentialRevoke(id)
      PROVE  Refused \/ Revoked(id)
  BY <1>3 DEF CredentialRevoke, Revoked
<1>4. ASSUME NEW name \in ClassNames, NEW definition \in Definitions,
             TokenClassRegister(name, definition)
      PROVE  Refused \/ ClassAdded(name, definition)
  <2>1. \/ Fail("tokenClassRegister", 400, "INVALID_REQUEST")
        \/ Fail("tokenClassRegister", 409, "RESOURCE_CONFLICT")
        \/ /\ ~TokenClassExists(name)
           /\ RegisterTokenClass(name, definition)
           /\ \/ Ok("tokenClassRegister", 201)
              \/ reply' = Reply("tokenClassRegister", 500, "HTTP_500",
                                Unknown, Unknown)
           /\ UNCHANGED <<accountVars, credentialVars, ledgerVars, tokenVars>>
    BY <1>4, Zenon DEF TokenClassRegister, ClassFree
  <2>2. Ok("tokenClassRegister", 201)
          => reply' \in Replies /\ reply'.status # 202
    BY DEF Ok, Reply, Replies, Unknown, NoCode
  <2>3. reply' = Reply("tokenClassRegister", 500, "HTTP_500", Unknown, Unknown)
          => reply' \in Replies /\ reply'.status # 202
    BY DEF Reply, Replies, Unknown, NoCode
  <2>4. ASSUME Fail("tokenClassRegister", 400, "INVALID_REQUEST") PROVE Refused
    BY <2>4
  <2>5. ASSUME Fail("tokenClassRegister", 409, "RESOURCE_CONFLICT") PROVE Refused
    BY <2>5
  <2> QED
    BY <2>1, <2>2, <2>3, <2>4, <2>5, Zenon DEF ClassAdded
<1>5. ASSUME NEW token \in 0 .. MaxAccounts, NEW class \in ClassNames,
             NEW nameValid \in BOOLEAN, TokenMint(token, class, nameValid)
      PROVE  Refused \/ Minted(token, class)
  BY <1>5 DEF TokenMint, Minted
<1>6. ASSUME NEW token \in 0 .. MaxAccounts, NEW id \in TokenIds,
             NEW to \in Addresses \cup {NoAddress},
             TokenTransact(token, "transfer", id, to)
      PROVE  Refused \/ Transferred(token, id, to)
  BY <1>6 DEF TokenTransact, Transferred, AddressTaken
<1>7. ASSUME NEW token \in 0 .. MaxAccounts, NEW id \in TokenIds,
             TokenTransact(token, "burn", id, NoAddress)
      PROVE  Refused
  BY <1>7 DEF TokenTransact
<1> HIDE FailRefuses
<1> SUFFICES ASSUME Next PROVE Effect
  OBVIOUS
<1>r. Refused => Effect
  BY Zenon DEF Effect
<1>a. CASE \E a \in Addresses : AccountCreate(a)
  BY <1>a, <1>1 DEF Effect
<1>b. CASE \E holder \in Holders \cup {NotADid}, subject \in Subjects,
            schemaValid \in BOOLEAN :
             CredentialIssue(holder, subject, schemaValid)
  <2>1. PICK holder \in Holders \cup {NotADid}, subject \in Subjects :
               Refused \/ Issued(holder, subject)
    BY <1>b, <1>2, Zenon
  <2> QED
    BY <1>r, <2>1, Zenon DEF Effect
<1>c. CASE \E id \in 1 .. MaxCreds : CredentialRevoke(id)
  BY <1>c, <1>3, Zenon DEF Effect
<1>d. CASE \E name \in ClassNames, definition \in Definitions :
             TokenClassRegister(name, definition)
  <2>1. PICK name \in ClassNames, definition \in Definitions :
               Refused \/ ClassAdded(name, definition)
    BY <1>d, <1>4, Zenon
  <2> QED
    BY <1>r, <2>1, Zenon DEF Effect
<1>e. CASE \E token \in 0 .. MaxAccounts, class \in ClassNames,
            nameValid \in BOOLEAN : TokenMint(token, class, nameValid)
  <2>1. PICK token \in 0 .. MaxAccounts, class \in ClassNames :
               Refused \/ Minted(token, class)
    BY <1>e, <1>5, Zenon
  <2> QED
    BY <1>r, <2>1, Zenon DEF Effect
<1>f. CASE \E token \in 0 .. MaxAccounts, id \in TokenIds,
            to \in Addresses \cup {NoAddress} :
             TokenTransact(token, "transfer", id, to)
  <2>1. PICK token \in 0 .. MaxAccounts, id \in TokenIds,
             to \in Addresses \cup {NoAddress} :
               Refused \/ Transferred(token, id, to)
    BY <1>f, <1>6, Zenon
  <2> QED
    BY <1>r, <2>1, Zenon DEF Effect
<1>g. CASE \E token \in 0 .. MaxAccounts, id \in TokenIds :
             TokenTransact(token, "burn", id, NoAddress)
  BY <1>g, <1>7, <1>r, Zenon
<1>h. CASE Read
  BY <1>h, <1>r, ReadRefuses, Zenon
<1> QED
  BY <1>a, <1>b, <1>c, <1>d, <1>e, <1>f, <1>g, <1>h, Zenon DEF Next, Effect

-----------------------------------------------------------------------------
(* Accounts *)

AccountsInv == AccountsTypeOK /\ AccountsKept

\* Only a registration of a free address touches the account maps.
LEMMA AccountsFrame ==
  Next => UNCHANGED accountVars \/ \E a \in Addresses : Registered(a)
<1> SUFFICES ASSUME Next PROVE UNCHANGED accountVars \/ \E a \in Addresses : Registered(a)
  OBVIOUS
<1> Effect
  BY StepEffect
<1> QED
  BY DEF Effect, Refused, Issued, Revoked, ClassAdded, Minted, Transferred,
         ClockTick, storeVars, accountVars

LEMMA AccountsInvInit == Init => AccountsInv
BY DEF Init, AccountsInit, AccountsInv, AccountsTypeOK, AccountsKept

LEMMA AccountsInvStep == AccountsInv /\ [Next]_vars => AccountsInv'
<1> SUFFICES ASSUME AccountsInv, [Next]_vars PROVE AccountsInv'
  OBVIOUS
<1>1. CASE UNCHANGED accountVars
  BY <1>1 DEF accountVars, AccountsInv, AccountsTypeOK, AccountsKept, AddressTaken, GetByToken
<1>2. ASSUME NEW a \in Addresses, Registered(a) PROVE AccountsInv'
  <2> DEFINE n == Len(byToken) + 1
  <2>1. /\ n \in Dids
        /\ byToken' = Append(byToken, a)
        /\ byKeyId' = Append(byKeyId, a)
        /\ byAddress' = [x \in DOMAIN byAddress \cup {a} |->
                           IF x = a THEN [did |-> n, keyId |-> n] ELSE byAddress[x]]
    BY <1>2 DEF Registered, CreateAccount, AccountsInv, AccountsTypeOK, Dids
  <2> USE <2>1
  <2> /\ byToken \in Seq(Addresses) /\ byKeyId \in Seq(Addresses)
      /\ Len(byKeyId) = Len(byToken)
      /\ \A k \in 1 .. Len(byToken) :
           /\ byToken[k] = byKeyId[k]
           /\ byToken[k] \in DOMAIN byAddress
           /\ byAddress[byToken[k]] = [did |-> k, keyId |-> k]
    BY DEF AccountsInv, AccountsTypeOK, AccountsKept, AddressTaken, GetByToken
  <2>a. /\ byToken' \in Seq(Addresses) /\ byKeyId' \in Seq(Addresses)
        /\ Len(byToken') = n /\ Len(byKeyId') = n
    OBVIOUS
  <2>2. AccountsTypeOK'
    <3>1. DOMAIN byAddress' \subseteq Addresses
      BY DEF AccountsInv, AccountsTypeOK
    <3>2. byAddress' \in [DOMAIN byAddress' -> Account]
      BY DEF AccountsInv, AccountsTypeOK, Account
    <3> QED
      BY <2>a, <3>1, <3>2 DEF AccountsTypeOK, Dids
  <2>3. AccountsKept'
    <3> SUFFICES ASSUME NEW k \in DOMAIN byToken'
                 PROVE  /\ byToken'[k] = byKeyId'[k]
                        /\ byToken'[k] \in DOMAIN byAddress'
                        /\ byAddress'[byToken'[k]] = [did |-> k, keyId |-> k]
      BY DEF AccountsKept, AddressTaken, GetByToken
    <3>1. CASE k = n
      BY <2>a, <3>1
    <3>2. CASE k \in 1 .. Len(byToken)
      <4>1. a \notin DOMAIN byAddress
        BY <1>2 DEF Registered, AddressTaken
      <4> QED
        BY <3>2, <4>1
    <3> QED
      BY <2>a, <3>1, <3>2
  <2> QED
    BY <2>2, <2>3 DEF AccountsInv
<1>3. CASE UNCHANGED vars
  BY <1>1, <1>3 DEF vars, storeVars
<1> QED
  BY <1>1, <1>2, <1>3, AccountsFrame

\* Every access token and key id answers for the account it was issued with,
\* for every number of accounts and every order of requests (store.ts 34-77).
THEOREM AccountsAreKept == Spec => []AccountsKept
<1>1. AccountsInv => AccountsKept
  BY DEF AccountsInv
<1> QED
  BY <1>1, AccountsInvInit, AccountsInvStep, PTL DEF Spec

-----------------------------------------------------------------------------
(* Claims *)

\* The credential a mint embeds exists: the first of a set of positions is in
\* the set.
LEMMA FirstOfPositions ==
  ASSUME NEW S \in SUBSET Nat, S # {}
  PROVE  /\ (CHOOSE c \in S : \A other \in S : c <= other) \in S
         /\ \A other \in S : (CHOOSE c \in S : \A d \in S : c <= d) <= other
<1>1. PICK c \in S : \A other \in S : <<other, c>> \notin OpToRel(<, Nat)
  BY NatLessThanWellFounded, WFMin
<1>2. ASSUME NEW other \in S PROVE c <= other
  <2>1. c \in Nat /\ other \in Nat
    OBVIOUS
  <2>2. ~(other < c)
    <3>1. <<other, c>> \in Nat \X Nat
      BY <2>1
    <3>2. <<other, c>>[1] = other /\ <<other, c>>[2] = c
      OBVIOUS
    <3> QED
      BY <1>1, <3>1, <3>2 DEF OpToRel
  <2> QED
    BY <2>1, <2>2
<1> QED
  BY <1>2

LEMMA ValidCredentialForFound ==
  ASSUME CredentialsTypeOK, NEW did, ValidCredentialsFor(did) # {}
  PROVE  /\ ValidCredentialFor(did) \in ValidCredentialsFor(did)
         /\ ValidCredentialFor(did) \in DOMAIN creds
<1>1. ValidCredentialsFor(did) \in SUBSET Nat
  BY DEF ValidCredentialsFor, CredentialsForHolder, CredentialsTypeOK
<1>2. ValidCredentialFor(did) \in ValidCredentialsFor(did)
  BY <1>1, FirstOfPositions DEF ValidCredentialFor
<1> QED
  BY <1>2 DEF ValidCredentialsFor, CredentialsForHolder

LEMMA ClaimsType ==
  ASSUME CredentialsTypeOK, NEW claims \in Seq(DOMAIN creds)
  PROVE  Claims(claims) \in Seq(EmbeddedVc)
<1>1. \A i \in DOMAIN claims : creds[claims[i]] \in Credential
  BY DEF CredentialsTypeOK
<1>2. \A i \in DOMAIN claims :
        [vc |-> creds[claims[i]].vc, proof |-> creds[claims[i]].proof]
          \in EmbeddedVc
  BY <1>1 DEF EmbeddedVc, Credential
<1> QED
  BY <1>2 DEF Claims

LEMMA ComplianceClaimsType ==
  ASSUME CredentialsTypeOK, NEW class, NEW did, ComplianceOK(class, did)
  PROVE  ComplianceClaims(class, did) \in Seq(DOMAIN creds)
<1>1. CASE classes[class].requiresKYC
  <2>1. ValidCredentialFor(did) \in DOMAIN creds
    BY <1>1, ValidCredentialForFound DEF ComplianceOK
  <2> QED
    BY <1>1, <2>1 DEF ComplianceClaims
<1>2. CASE ~classes[class].requiresKYC
  BY <1>2 DEF ComplianceClaims
<1> QED
  BY <1>1, <1>2
-----------------------------------------------------------------------------
(* Types *)

\* The claims of a token refer to stored credentials: they are never removed.
ClaimsStored ==
  \A t \in DOMAIN byId : byId[t].claims \in Seq(DOMAIN creds)

TypeInv == TypeOK /\ AccountsKept /\ ClaimsStored

LEMMA CallerDid ==
  ASSUME AccountsTypeOK, AccountsKept, NEW token, LoggedIn(token)
  PROVE  GetByToken(token).did \in Dids
<1>1. GetByToken(token).did = token
  BY DEF AccountsKept, LoggedIn
<1>2. token \in 1 .. Len(byToken) /\ Len(byToken) \in Nat
  BY DEF AccountsTypeOK, LoggedIn
<1> QED
  BY <1>1, <1>2 DEF AccountsTypeOK, Dids

LEMMA RecipientDid ==
  ASSUME AccountsTypeOK, NEW a, AddressTaken(a)
  PROVE  byAddress[a].did \in Dids
BY DEF AccountsTypeOK, AddressTaken, Account

LEMMA CommitmentType ==
  ASSUME LedgerTypeOK, NEW t \in TokenIds, NEW did \in Dids,
         NEW previous \in Seq(Link), NEW digest \in Seq(EmbeddedVc)
  PROVE  /\ MintCommitment(t, did, digest) \in Seq(Link)
         /\ TransferCommitment(t, did, previous, digest) \in Seq(Link)
<1>1. [txId |-> Len(txs) + 1, tokenId |-> t, owner |-> did, claims |-> digest]
        \in Link
  BY DEF LedgerTypeOK, Link
<1> QED
  BY <1>1 DEF MintCommitment, TransferCommitment, NextCommitment

\* A recorded transaction keeps the ledger's types.
LEMMA RecordType ==
  ASSUME LedgerTypeOK, NEW tx \in Transaction,
         BuildLog(tx), AddLeaf(Len(txs) + 1, tx)
  PROVE  LedgerTypeOK'
<1>1. Len(txs) + 1 \in Nat
  BY DEF LedgerTypeOK
<1>2. txs' \in Seq(Transaction)
  BY DEF LedgerTypeOK, BuildLog
<1>3. historyByToken' \in [TokenIds -> Seq(Nat)]
  BY <1>1 DEF LedgerTypeOK, BuildLog, Transaction
<1>4. LeafHash(Len(txs) + 1, tx) \in LeafData
  BY <1>1 DEF LeafHash, LeafData, Transaction
<1>5. leaves' \in Seq([txId : Nat, leafHash : LeafData])
  BY <1>1, <1>4 DEF LedgerTypeOK, AddLeaf
<1> QED
  BY <1>2, <1>3, <1>5 DEF LedgerTypeOK

LEMMA TypeInvInit == Init => TypeInv
<1> SUFFICES ASSUME Init PROVE TypeInv
  OBVIOUS
<1>1. AccountsTypeOK /\ AccountsKept
  BY AccountsInvInit DEF AccountsInv
<1>2. CredentialsTypeOK
  BY DEF Init, TokensInit, CredentialsInit, CredentialsTypeOK
<1>3. TokenClassesTypeOK
  BY DEF Init, TokensInit, TokenClassesInit, TokenClassesTypeOK, TokenClass,
         Metadata
<1>4. LedgerTypeOK
  BY DEF Init, TokensInit, LedgerInit, LedgerTypeOK
<1>5. TokensTypeOK
  BY DEF Init, TokensInit, TokensTypeOK
<1>6. reply \in Replies
  BY DEF Init, Reply, Replies, Operations, NoCode, Unknown
<1>7. ClaimsStored
  BY DEF Init, TokensInit, ClaimsStored
<1> QED
  BY <1>1, <1>2, <1>3, <1>4, <1>5, <1>6, <1>7 DEF TypeInv, TypeOK

\* A mint keeps the types; its claims are stored credentials.
LEMMA MintType ==
  ASSUME TypeInv, NEW token, NEW class \in ClassNames, Minted(token, class)
  PROVE  TypeInv'
<1> DEFINE did == GetByToken(token).did
           id == Len(byId) + 1
           claims == ComplianceClaims(class, did)
           digest == ClaimsDigest(claims)
           tx == [operation |-> "mint", tokenId |-> id,
                  from |-> NoAccount, to |-> did,
                  stateBefore |-> <<>>,
                  stateAfter |-> MintCommitment(id, did, digest),
                  stateVersion |-> 1]
           t == [class |-> class, owner |-> did, claims |-> claims,
                 stateCommitment |-> MintCommitment(id, did, digest)]
<1>1. did \in Dids
  BY CallerDid DEF TypeInv, TypeOK, Minted
<1>2. claims \in Seq(DOMAIN creds)
  BY ComplianceClaimsType DEF TypeInv, TypeOK, Minted
<1>3. digest \in Seq(EmbeddedVc)
  BY <1>2, ClaimsType DEF TypeInv, TypeOK, ClaimsDigest
<1>4. id \in TokenIds
  <2>1. id <= MaxTokens
    BY DEF Minted, MintToken
  <2>2. Len(byId) \in Nat
    BY DEF TypeInv, TypeOK, TokensTypeOK
  <2> QED
    BY <2>1, <2>2, LedgerAssumption DEF TokenIds
<1>5. MintCommitment(id, did, digest) \in Seq(Link)
  <2>1. <<>> \in Seq(Link)
    OBVIOUS
  <2> QED
    BY <1>1, <1>3, <1>4, <2>1, CommitmentType DEF TypeInv, TypeOK
<1>6. tx \in Transaction
  <2> HIDE DEF did, id, digest
  <2>1. <<>> \in Seq(Link)
    OBVIOUS
  <2> QED
    BY <1>1, <1>4, <1>5, <2>1 DEF Transaction
<1>7. LedgerTypeOK'
  <2>1. BuildLog(tx) /\ AddLeaf(Len(txs) + 1, tx)
    BY DEF Minted, MintToken, RecordMint
  <2> QED
    BY <1>6, <2>1, RecordType DEF TypeInv, TypeOK
<1>8. t \in Token
  <2>1. claims \in Seq(Nat)
    BY <1>2 DEF TypeInv, TypeOK, CredentialsTypeOK
  <2> QED
    BY <1>1, <1>5, <2>1 DEF Token
<1>9. byId' = Append(byId, t)
  BY DEF Minted, MintToken
<1>10. TokensTypeOK'
  <2>1. ownerToIds' \in [Dids -> SUBSET TokenIds]
    BY <1>1, <1>4 DEF Minted, MintToken, TypeInv, TypeOK, TokensTypeOK
  <2>2. byId' \in Seq(Token) /\ Len(byId') = Len(byId) + 1
    BY <1>8, <1>9 DEF TypeInv, TypeOK, TokensTypeOK
  <2>3. Len(byId) + 1 <= MaxTokens
    BY DEF Minted, MintToken
  <2> QED
    BY <2>1, <2>2, <2>3 DEF TokensTypeOK
<1>11. UNCHANGED <<accountVars, credentialVars, classes>>
  BY DEF Minted, MintToken
<1>12. AccountsTypeOK' /\ AccountsKept' /\ CredentialsTypeOK' /\ TokenClassesTypeOK'
  BY <1>11 DEF TypeInv, TypeOK, accountVars, credentialVars, AccountsTypeOK,
     AccountsKept, CredentialsTypeOK, TokenClassesTypeOK, AddressTaken, GetByToken
<1>13. reply' \in Replies
  BY <1>4 DEF Minted, Accepted, Reply, Replies, Operations, NoCode, Unknown, TokenIds
<1>14. ClaimsStored'
  <2> SUFFICES ASSUME NEW i \in DOMAIN byId'
               PROVE  byId'[i].claims \in Seq(DOMAIN creds)
    BY <1>11 DEF ClaimsStored, credentialVars
  <2>1. byId \in Seq(Token)
    BY DEF TypeInv, TypeOK, TokensTypeOK
  <2>2. CASE i = id
    BY <1>2, <1>9, <2>1, <2>2
  <2>3. CASE i \in DOMAIN byId
    <3>1. byId'[i] = byId[i]
      BY <1>9, <2>1, <2>3
    <3> QED
      BY <2>3, <3>1 DEF TypeInv, ClaimsStored
  <2> QED
    BY <1>9, <2>1, <2>2, <2>3
<1> QED
  BY <1>7, <1>10, <1>12, <1>13, <1>14 DEF TypeInv, TypeOK

\* A transfer keeps the types; the token's claims stay as they are.
LEMMA TransferType ==
  ASSUME TypeInv, NEW token, NEW id, NEW to, Transferred(token, id, to)
  PROVE  TypeInv'
<1> DEFINE did == GetByToken(token).did
           toDid == byAddress[to].did
           digest == ClaimsDigest(byId[id].claims)
           previous == byId[id].stateCommitment
           next == TransferCommitment(id, toDid, previous, digest)
           tx == [operation |-> "transfer", tokenId |-> id,
                  from |-> did, to |-> toDid,
                  stateBefore |-> previous, stateAfter |-> next,
                  stateVersion |-> 2]
<1>1. did \in Dids /\ toDid \in Dids
  BY CallerDid, RecipientDid DEF TypeInv, TypeOK, Transferred
<1>2. byId \in Seq(Token) /\ id \in 1 .. Len(byId) /\ byId[id] \in Token
  BY DEF TypeInv, TypeOK, TokensTypeOK, Transferred
<1>3. id \in TokenIds
  BY <1>2 DEF TypeInv, TypeOK, TokensTypeOK, TokenIds
<1>4. previous \in Seq(Link)
  BY <1>2 DEF Token
<1>5. digest \in Seq(EmbeddedVc)
  BY <1>2, ClaimsType DEF TypeInv, TypeOK, ClaimsStored, ClaimsDigest
<1>6. next \in Seq(Link)
  BY <1>1, <1>3, <1>4, <1>5, CommitmentType DEF TypeInv, TypeOK
<1>7. tx \in Transaction
  <2> HIDE DEF did, toDid, digest, previous, next
  <2> QED
    BY <1>1, <1>3, <1>4, <1>6 DEF Transaction
<1>8. LedgerTypeOK'
  <2>1. BuildLog(tx) /\ AddLeaf(Len(txs) + 1, tx)
    BY DEF Transferred, TransferToken, RecordTransfer
  <2> QED
    BY <1>7, <2>1, RecordType DEF TypeInv, TypeOK
<1>9. byId' = [byId EXCEPT ![id] =
                [byId[id] EXCEPT !.owner = toDid, !.stateCommitment = next]]
  BY DEF Transferred, TransferToken
<1>10. /\ byId' \in Seq(Token)
       /\ Len(byId') = Len(byId)
       /\ \A i \in DOMAIN byId' : byId'[i].claims = byId[i].claims
  <2> HIDE DEF toDid, next
  <2>1. [byId[id] EXCEPT !.owner = toDid, !.stateCommitment = next] \in Token
    BY <1>1, <1>2, <1>6 DEF Token
  <2>2. [byId[id] EXCEPT !.owner = toDid, !.stateCommitment = next].claims
          = byId[id].claims
    BY <1>2 DEF Token
  <2> QED
    BY <1>2, <1>9, <2>1, <2>2, ExceptSeq
<1>11. TokensTypeOK'
  <2>1. ownerToIds' \in [Dids -> SUBSET TokenIds]
    BY <1>1, <1>3 DEF Transferred, TransferToken, Reindex, TypeInv, TypeOK,
                     TokensTypeOK
  <2> QED
    BY <1>10, <2>1 DEF TokensTypeOK, TypeInv, TypeOK
<1>12. UNCHANGED <<accountVars, credentialVars, classes>>
  BY DEF Transferred, TransferToken
<1>13. AccountsTypeOK' /\ AccountsKept' /\ CredentialsTypeOK' /\ TokenClassesTypeOK'
  BY <1>12 DEF TypeInv, TypeOK, accountVars, credentialVars, AccountsTypeOK,
     AccountsKept, CredentialsTypeOK, TokenClassesTypeOK, AddressTaken, GetByToken
<1>14. reply' \in Replies
  <2>1. Len(txs) + 1 \in Nat
    BY DEF TypeInv, TypeOK, LedgerTypeOK
  <2> QED
    BY <1>2, <2>1 DEF Transferred, Accepted, Reply, Replies, Operations, NoCode
<1>15. ClaimsStored'
  BY <1>2, <1>10, <1>12 DEF TypeInv, ClaimsStored, credentialVars
<1> QED
  BY <1>8, <1>11, <1>13, <1>14, <1>15 DEF TypeInv, TypeOK

\* An issued or revoked credential keeps the credential store's type, and no
\* position of the store is given up.
LEMMA IssueType ==
  ASSUME CredentialsTypeOK, NEW holder, NEW subject \in Subjects,
         Issued(holder, subject)
  PROVE  CredentialsTypeOK' /\ DOMAIN creds \subseteq DOMAIN creds'
<1> DEFINE id == Len(creds) + 1
           vc == [id |-> id, subject |-> CredentialSubject(holder, subject),
                  validUntil |-> clock + Lifetime]
           c == [id |-> id, holder |-> holder, vc |-> vc, proof |-> vc,
                 status |-> "active"]
<1>1. /\ id <= MaxCreds
      /\ creds' = Append(creds, c)
      /\ clock' = clock
      /\ holder \in Holders
  BY DEF Issued, IssueCredential
<1>2. CredentialSubject(holder, subject) \in Nat
  BY <1>1, CredentialsAssumption DEF CredentialSubject
<1>3. vc \in Vc
  BY <1>2, CredentialsAssumption DEF CredentialsTypeOK, Vc
<1>4. c \in Credential
  <2> HIDE DEF vc
  <2> QED
    BY <1>1, <1>3 DEF CredentialsTypeOK, Credential
<1> HIDE DEF c
<1> QED
  BY <1>1, <1>4 DEF CredentialsTypeOK

LEMMA RevokeType ==
  ASSUME CredentialsTypeOK, NEW id, Revoked(id)
  PROVE  CredentialsTypeOK' /\ DOMAIN creds = DOMAIN creds'
<1>1. /\ creds \in Seq(Credential)
      /\ id \in 1 .. Len(creds)
      /\ creds' = [creds EXCEPT ![id].status = "revoked"]
      /\ clock' = clock
  BY DEF CredentialsTypeOK, Revoked, RevokeCredential
<1>2. creds' = [creds EXCEPT ![id] = [creds[id] EXCEPT !.status = "revoked"]]
  BY <1>1
<1>3. [creds[id] EXCEPT !.status = "revoked"] \in Credential
  <2>1. creds[id] \in Credential
    BY <1>1
  <2> QED
    BY <2>1 DEF Credential
<1>4. creds' \in Seq(Credential) /\ Len(creds') = Len(creds)
  BY <1>1, <1>2, <1>3, ExceptSeq
<1> QED
  BY <1>1, <1>4 DEF CredentialsTypeOK

LEMMA ClassType ==
  ASSUME TokenClassesTypeOK, NEW name \in ClassNames,
         NEW definition \in Definitions, ClassAdded(name, definition)
  PROVE  TokenClassesTypeOK'
BY TokenClassesAssumption
   DEF TokenClassesTypeOK, ClassAdded, RegisterTokenClass

LEMMA FoundTyped ==
  ASSUME NEW op \in Operations, NEW found \in SUBSET Nat,
         NEW code \in ErrorCodes, FoundOr(op, found, code) \/ Found(op, found)
  PROVE  reply' \in Replies
BY DEF FoundOr, Found, Fail, Reply, Replies, NoCode, Unknown

LEMMA FailTyped ==
  ASSUME NEW op \in Operations, NEW status \in Nat, NEW code \in ErrorCodes,
         Fail(op, status, code)
  PROVE  reply' \in Replies
BY DEF Fail, Reply, Replies, NoCode, Unknown

LEMMA ReadTyped == TypeInv /\ Read => reply' \in Replies
<1> USE DEF Operations, ErrorCodes
<1> SUFFICES ASSUME TypeInv, Read PROVE reply' \in Replies
  OBVIOUS
<1>0. Dids \subseteq Nat /\ TokenIds \subseteq Nat
  BY DEF Dids, TokenIds
<1>1. ASSUME NEW a \in Addresses, CheckAvailability(a) \/ ResolveAddress(a)
      PROVE  reply' \in Replies
  <2>1. (IF AddressTaken(a) THEN {byAddress[a].did} ELSE {}) \in SUBSET Nat
    BY <1>0 DEF AddressTaken, TypeInv, TypeOK, AccountsTypeOK, Account
  <2> QED
    BY <1>1, <2>1, FoundTyped DEF CheckAvailability, ResolveAddress
<1>2. ASSUME NEW n \in 0 .. MaxAccounts,
             \/ AccountGet(n) \/ KeysSearch(n) \/ TokenSearch(n)
      PROVE  reply' \in Replies
  <2>1. CASE ~LoggedIn(n)
    BY <1>2, <2>1, FailTyped DEF AccountGet, KeysSearch, TokenSearch,
       AccountRequest
  <2>2. CASE LoggedIn(n)
    <3>1. GetByToken(n).did \in Dids /\ GetByToken(n).keyId \in Dids
      BY <2>2 DEF LoggedIn, GetByToken, AddressTaken, TypeInv, TypeOK,
         AccountsTypeOK, AccountsKept, Account
    <3>2. TokensForOwner(GetByToken(n).did) \in SUBSET Nat
      BY <1>0, <3>1 DEF TokensForOwner, TypeInv, TypeOK, TokensTypeOK
    <3> QED
      BY <1>0, <1>2, <2>2, <3>1, <3>2, FoundTyped DEF AccountGet, KeysSearch,
         TokenSearch, AccountRequest
  <2> QED
    BY <2>1, <2>2
<1>3. ASSUME NEW n \in 0 .. MaxAccounts, NEW op \in {"keysSign", "keysPublic"},
             KeyRequest(op, n)
      PROVE  reply' \in Replies
  <2>1. (IF n \in DOMAIN byKeyId THEN {GetByKeyId(n).keyId} ELSE {})
          \in SUBSET Nat
    BY <1>0 DEF GetByKeyId, AddressTaken, TypeInv, TypeOK, AccountsTypeOK,
       AccountsKept, Account
  <2> QED
    BY <1>3, <2>1, FoundTyped DEF KeyRequest
<1>4. ASSUME NEW id \in 1 .. MaxCreds, NEW status, CredentialVerify(id, status)
      PROVE  reply' \in Replies
  BY <1>4, FoundTyped, FailTyped DEF CredentialVerify
<1>5. ASSUME NEW holder, CredentialList(holder) PROVE reply' \in Replies
  <2>1. CredentialsForHolder(holder) \in SUBSET Nat
    BY DEF CredentialsForHolder, TypeInv, TypeOK, CredentialsTypeOK
  <2> QED
    BY <1>5, <2>1, FoundTyped DEF CredentialList
<1>6. ASSUME NEW name, TokenClassGet(name) PROVE reply' \in Replies
  BY <1>6, FoundTyped, FailTyped DEF TokenClassGet
<1>7. ASSUME NEW id \in TokenIds, TokenGet(id) PROVE reply' \in Replies
  <2>1. (IF id \in DOMAIN byId THEN {byId[id].owner} ELSE {}) \in SUBSET Nat
    <3>1. ASSUME id \in DOMAIN byId PROVE byId[id].owner \in Nat
      <4>1. byId[id] \in Token
        BY <3>1 DEF TypeInv, TypeOK, TokensTypeOK
      <4> QED
        BY <1>0, <4>1 DEF Token
    <3> QED
      BY <3>1
  <2> QED
    BY <1>7, <2>1, FoundTyped DEF TokenGet
<1>8. ASSUME NEW id \in TokenIds, TokenTransactionsList(id)
      PROVE  reply' \in Replies
  <2>1. {historyByToken[id][i] : i \in DOMAIN historyByToken[id]} \in SUBSET Nat
    BY DEF TypeInv, TypeOK, LedgerTypeOK
  <2> QED
    BY <1>8, <2>1, FoundTyped DEF TokenTransactionsList
<1>9. ASSUME NEW txId \in 1 .. MaxTxs,
             TransactionGet(txId) \/ TransactionProof(txId)
      PROVE  reply' \in Replies
  <2>1. /\ {txId} \cap DOMAIN txs \in SUBSET Nat
        /\ (IF HasProof(txId) THEN {txId} ELSE {}) \in SUBSET Nat
    BY DEF TypeInv, TypeOK, LedgerTypeOK
  <2> QED
    BY <1>9, <2>1, FoundTyped DEF TransactionGet, TransactionProof
<1> QED
  BY <1>1, <1>2, <1>3, <1>4, <1>5, <1>6, <1>7, <1>8, <1>9, Zenon DEF Read

LEMMA TypeInvStep == TypeInv /\ [Next]_vars => TypeInv'
<1> SUFFICES ASSUME TypeInv, [Next]_vars PROVE TypeInv'
  OBVIOUS
<1>1. AccountsTypeOK' /\ AccountsKept'
  BY AccountsInvStep DEF AccountsInv, TypeInv, TypeOK
<1>2. CASE Refused
  BY <1>2, <1>1, ReadTyped DEF Refused, storeVars, accountVars, ledgerVars,
     tokenVars, TypeInv, TypeOK, CredentialsTypeOK, TokenClassesTypeOK, LedgerTypeOK,
     TokensTypeOK, ClaimsStored
<1>3. ASSUME NEW a \in Addresses, Registered(a) PROVE TypeInv'
  <2>1. reply' \in Replies
    BY <1>3 DEF Registered, Ok, Reply, Replies, Operations, NoCode, Unknown
  <2> QED
    BY <1>1, <1>3, <2>1 DEF Registered, ledgerVars, tokenVars, TypeInv, TypeOK,
       CredentialsTypeOK, TokenClassesTypeOK, LedgerTypeOK, TokensTypeOK,
       ClaimsStored
<1>4. ASSUME NEW holder \in Holders \cup {NotADid}, NEW subject \in Subjects,
             Issued(holder, subject)
      PROVE  TypeInv'
  <2>1. reply' \in Replies
    BY <1>4 DEF Issued, Ok, Reply, Replies, Operations, NoCode, Unknown
  <2>2. CredentialsTypeOK' /\ DOMAIN creds \subseteq DOMAIN creds'
    BY <1>4, IssueType DEF TypeInv, TypeOK
  <2>3. UNCHANGED <<classes, ledgerVars, tokenVars>>
    BY <1>4 DEF Issued
  <2>4. ClaimsStored'
    BY <2>2, <2>3, SeqMonotonic DEF tokenVars, TypeInv, ClaimsStored
  <2> QED
    BY <1>1, <2>1, <2>2, <2>3, <2>4 DEF ledgerVars, tokenVars, TypeInv, TypeOK,
       TokenClassesTypeOK, LedgerTypeOK, TokensTypeOK
<1>5. ASSUME NEW id, Revoked(id) PROVE TypeInv'
  <2>1. reply' \in Replies
    BY <1>5 DEF Revoked, Ok, Reply, Replies, Operations, NoCode, Unknown
  <2>2. CredentialsTypeOK' /\ DOMAIN creds = DOMAIN creds'
    BY <1>5, RevokeType DEF TypeInv, TypeOK
  <2>3. UNCHANGED <<classes, ledgerVars, tokenVars>>
    BY <1>5 DEF Revoked
  <2>4. ClaimsStored'
    BY <2>2, <2>3 DEF tokenVars, TypeInv, ClaimsStored
  <2> QED
    BY <1>1, <2>1, <2>2, <2>3, <2>4 DEF ledgerVars, tokenVars, TypeInv, TypeOK,
       TokenClassesTypeOK, LedgerTypeOK, TokensTypeOK
<1>6. ASSUME NEW name \in ClassNames, NEW definition \in Definitions,
             ClassAdded(name, definition)
      PROVE  TypeInv'
  <2>1. TokenClassesTypeOK' /\ reply' \in Replies
    BY <1>6, ClassType DEF ClassAdded, TypeInv, TypeOK
  <2> QED
    BY <1>1, <1>6, <2>1 DEF ClassAdded, credentialVars, ledgerVars, tokenVars,
       TypeInv, TypeOK, CredentialsTypeOK, LedgerTypeOK, TokensTypeOK,
       ClaimsStored
<1>7. CASE ClockTick
  <2>1. CredentialsTypeOK'
    BY <1>7, CredentialsAssumption DEF ClockTick, Tick, TypeInv, TypeOK,
       CredentialsTypeOK
  <2> QED
    BY <1>1, <1>7, <2>1 DEF ClockTick, Tick, ledgerVars, tokenVars, TypeInv,
       TypeOK, TokenClassesTypeOK, LedgerTypeOK, TokensTypeOK, ClaimsStored
<1>8. CASE UNCHANGED vars
  BY <1>1, <1>8 DEF vars, storeVars, ledgerVars, tokenVars, TypeInv, TypeOK,
     CredentialsTypeOK, TokenClassesTypeOK, LedgerTypeOK, TokensTypeOK,
     ClaimsStored
<1>9. CASE Effect
  BY <1>9, <1>2, <1>3, <1>4, <1>5, <1>6, <1>7, MintType, TransferType, Zenon
     DEF Effect
<1> QED
  BY <1>8, <1>9, StepEffect

\* Every store always holds values of the shape the code builds, for every
\* instance of the service.
THEOREM Typed == Spec => []TypeOK
<1>1. TypeInv => TypeOK
  BY DEF TypeInv
<1> QED
  BY <1>1, TypeInvInit, TypeInvStep, PTL DEF Spec

-----------------------------------------------------------------------------
(* The owner index *)

\* A step that is neither a mint nor a transfer leaves tokens, index and ledger
\* alone.
LEMMA TokensFrame ==
  Next => \/ UNCHANGED <<ledgerVars, tokenVars>>
          \/ \E token, class : Minted(token, class)
          \/ \E token, id, to : Transferred(token, id, to)
<1>1. Refused => UNCHANGED <<ledgerVars, tokenVars>>
  BY DEF Refused, storeVars
<1>2. \A a : Registered(a) => UNCHANGED <<ledgerVars, tokenVars>>
  BY DEF Registered
<1>3. \A holder, subject :
        Issued(holder, subject) => UNCHANGED <<ledgerVars, tokenVars>>
  BY DEF Issued
<1>4. \A id : Revoked(id) => UNCHANGED <<ledgerVars, tokenVars>>
  BY DEF Revoked
<1>5. \A name, definition :
        ClassAdded(name, definition) => UNCHANGED <<ledgerVars, tokenVars>>
  BY DEF ClassAdded
<1>6. ClockTick => UNCHANGED <<ledgerVars, tokenVars>>
  BY DEF ClockTick
<1> QED
  BY <1>1, <1>2, <1>3, <1>4, <1>5, <1>6, StepEffect, Zenon DEF Effect

Caller(token) == GetByToken(token).did
Recipient(to) == byAddress[to].did
NewId == Len(byId) + 1

\* The token a mint stores and the token a transfer leaves.
NewToken(token, class) ==
  [class |-> class, owner |-> Caller(token),
   claims |-> ComplianceClaims(class, Caller(token)),
   stateCommitment |->
     MintCommitment(NewId, Caller(token),
                    ClaimsDigest(ComplianceClaims(class, Caller(token))))]

NextHead(id, to) ==
  TransferCommitment(id, Recipient(to), byId[id].stateCommitment,
                     ClaimsDigest(byId[id].claims))

MovedToken(id, to) ==
  [byId[id] EXCEPT !.owner = Recipient(to), !.stateCommitment = NextHead(id, to)]

\* What a mint and a transfer do to the tokens and the index.
LEMMA MintedToken ==
  ASSUME TypeInv, NEW token, NEW class, Minted(token, class)
  PROVE  /\ Caller(token) \in Dids
         /\ NewId \in TokenIds
         /\ NewId \notin DOMAIN byId
         /\ DOMAIN byId' = DOMAIN byId \cup {NewId}
         /\ byId'[NewId] = NewToken(token, class)
         /\ \A t \in DOMAIN byId : byId'[t] = byId[t]
         /\ ownerToIds' =
              [ownerToIds EXCEPT ![Caller(token)] = @ \cup {NewId}]
<1>1. Caller(token) \in Dids
  BY CallerDid DEF TypeInv, TypeOK, Minted, Caller
<1>2. byId \in Seq(Token) /\ DOMAIN byId = 1 .. Len(byId) /\ Len(byId) \in Nat
  BY DEF TypeInv, TypeOK, TokensTypeOK
<1>3. /\ NewId <= MaxTokens
      /\ byId' = Append(byId, NewToken(token, class))
      /\ ownerToIds' = [ownerToIds EXCEPT ![Caller(token)] = @ \cup {NewId}]
  BY DEF Minted, MintToken, NewId, NewToken, Caller
<1>4. NewId \in TokenIds
  BY <1>2, <1>3, LedgerAssumption DEF TokenIds, NewId
<1>5. /\ DOMAIN byId' = DOMAIN byId \cup {NewId}
      /\ byId'[NewId] = NewToken(token, class)
      /\ \A u \in DOMAIN byId : byId'[u] = byId[u]
  BY <1>2, <1>3 DEF NewId
<1>6. NewId \notin DOMAIN byId
  BY <1>2 DEF NewId
<1> QED
  BY <1>1, <1>3, <1>4, <1>5, <1>6

LEMMA TransferredToken ==
  ASSUME TypeInv, NEW token, NEW id, NEW to, Transferred(token, id, to)
  PROVE  /\ Caller(token) \in Dids /\ Recipient(to) \in Dids
         /\ id \in DOMAIN byId
         /\ id \in TokenIds
         /\ byId[id] \in Token
         /\ byId[id].owner = Caller(token)
         /\ DOMAIN byId' = DOMAIN byId
         /\ byId'[id] = MovedToken(id, to)
         /\ byId'[id].owner = Recipient(to)
         /\ byId'[id].stateCommitment = NextHead(id, to)
         /\ \A t \in DOMAIN byId : t # id => byId'[t] = byId[t]
         /\ ownerToIds' = Reindex(id, Caller(token), Recipient(to))
<1>1. Caller(token) \in Dids /\ Recipient(to) \in Dids
  BY CallerDid, RecipientDid DEF TypeInv, TypeOK, Transferred, Caller, Recipient
<1>2. byId \in Seq(Token) /\ id \in 1 .. Len(byId) /\ byId[id] \in Token
  BY DEF TypeInv, TypeOK, TokensTypeOK, Transferred
<1>3. id \in TokenIds
  BY <1>2 DEF TypeInv, TypeOK, TokensTypeOK, TokenIds
<1>4. /\ byId[id].owner = Caller(token)
      /\ byId' = [byId EXCEPT ![id] = MovedToken(id, to)]
      /\ ownerToIds' = Reindex(id, Caller(token), Recipient(to))
  BY DEF Transferred, TransferToken, IsOwner, Caller, Recipient, NextHead,
         MovedToken
<1>5. /\ DOMAIN byId' = DOMAIN byId
      /\ byId'[id] = MovedToken(id, to)
      /\ \A t \in DOMAIN byId : t # id => byId'[t] = byId[t]
  BY <1>2, <1>4
<1>6. /\ MovedToken(id, to).owner = Recipient(to)
      /\ MovedToken(id, to).stateCommitment = NextHead(id, to)
  BY <1>2 DEF MovedToken, Token
<1> QED
  BY <1>1, <1>2, <1>3, <1>4, <1>5, <1>6

LEMMA OwnerIndexStep ==
  TypeInv /\ OwnerIndex /\ [Next]_vars => OwnerIndex'
<1> SUFFICES ASSUME TypeInv, OwnerIndex, [Next]_vars PROVE OwnerIndex'
  OBVIOUS
<1> ownerToIds \in [Dids -> SUBSET TokenIds]
  BY DEF TypeInv, TypeOK, TokensTypeOK
<1>1. CASE UNCHANGED <<ledgerVars, tokenVars>>
  BY <1>1 DEF tokenVars, OwnerIndex
<1>2. ASSUME NEW token, NEW class, Minted(token, class) PROVE OwnerIndex'
  <2>1. NewToken(token, class).owner = Caller(token)
    BY DEF NewToken
  <2> QED
    BY <1>2, <2>1, MintedToken DEF OwnerIndex
<1>3. ASSUME NEW token, NEW id, NEW to, Transferred(token, id, to)
      PROVE  OwnerIndex'
  <2>1. \A d \in Dids, t \in TokenIds :
          t \in ownerToIds'[d]
            <=> IF t = id THEN d = Recipient(to) ELSE t \in ownerToIds[d]
    BY <1>3, TransferredToken DEF Reindex, OwnerIndex
  <2> QED
    BY <1>3, <2>1, TransferredToken DEF OwnerIndex
<1>4. CASE UNCHANGED vars
  BY <1>1, <1>4 DEF vars, storeVars
<1> QED
  BY <1>1, <1>2, <1>3, <1>4, TokensFrame

\* What /v1/token/search lists for a caller is exactly what the caller owns,
\* for every number of accounts, tokens and transfers (tokens.ts 145-202).
THEOREM OwnerIndexHolds == Spec => []OwnerIndex
<1>1. Init => OwnerIndex
  BY DEF Init, TokensInit, OwnerIndex, StandinAssumption, Dids
<1> QED
  BY <1>1, TypeInvInit, TypeInvStep, OwnerIndexStep, PTL DEF Spec

-----------------------------------------------------------------------------
(* The ledger *)

\* The transactions a mint and a transfer record.
MintTx(token, class) ==
  [operation |-> "mint", tokenId |-> NewId, from |-> NoAccount,
   to |-> Caller(token), stateBefore |-> <<>>,
   stateAfter |-> NewToken(token, class).stateCommitment, stateVersion |-> 1]

TransferTx(token, id, to) ==
  [operation |-> "transfer", tokenId |-> id, from |-> Caller(token),
   to |-> Recipient(to), stateBefore |-> byId[id].stateCommitment,
   stateAfter |-> NextHead(id, to), stateVersion |-> 2]

Recorded(tx) == BuildLog(tx) /\ AddLeaf(Len(txs) + 1, tx)

LEMMA MintRecorded ==
  ASSUME NEW token, NEW class, Minted(token, class)
  PROVE  Recorded(MintTx(token, class))
<1>1. NewToken(token, class).stateCommitment =
        MintCommitment(NewId, Caller(token),
                       ClaimsDigest(ComplianceClaims(class, Caller(token))))
  BY DEF NewToken
<1> QED
  BY <1>1 DEF Minted, MintToken, RecordMint, Recorded, MintTx, NewId, Caller

LEMMA TransferRecorded ==
  ASSUME NEW token, NEW id, NEW to, Transferred(token, id, to)
  PROVE  Recorded(TransferTx(token, id, to))
BY DEF Transferred, TransferToken, RecordTransfer, Recorded, TransferTx,
       NextHead, Caller, Recipient

LEMMA LedgerCompleteStep ==
  TypeInv /\ LedgerComplete /\ [Next]_vars => LedgerComplete'
<1> SUFFICES ASSUME TypeInv, LedgerComplete, [Next]_vars PROVE LedgerComplete'
  OBVIOUS
<1>1. CASE UNCHANGED <<ledgerVars, tokenVars>>
  BY <1>1 DEF ledgerVars, LedgerComplete, LeafHash
<1>2. ASSUME NEW tx, tx.tokenId \in TokenIds, Recorded(tx)
      PROVE  LedgerComplete'
  <2> DEFINE n == Len(txs) + 1
             id == tx.tokenId
  <2>1. /\ txs \in Seq(Transaction) /\ Len(txs) \in Nat
        /\ historyByToken \in [TokenIds -> Seq(Nat)]
        /\ leaves \in Seq([txId : Nat, leafHash : LeafData])
        /\ Len(leaves) = Len(txs)
        /\ historyByToken[id] \in Seq(Nat)
    BY <1>2 DEF TypeInv, TypeOK, LedgerTypeOK, LedgerComplete
  <2>2. /\ DOMAIN txs = 1 .. Len(txs)
        /\ DOMAIN txs' = 1 .. n
        /\ txs'[n] = tx
        /\ \A x \in DOMAIN txs : txs'[x] = txs[x]
    BY <1>2, <2>1 DEF Recorded, BuildLog
  <2>3. /\ Len(leaves') = n /\ Len(txs') = n
        /\ DOMAIN leaves' = 1 .. n
        /\ leaves'[n] = [txId |-> n, leafHash |-> LeafHash(n, tx)]
        /\ \A x \in 1 .. Len(txs) : leaves'[x] = leaves[x]
    BY <1>2, <2>1 DEF Recorded, BuildLog, AddLeaf
  <2>4. /\ \A t \in TokenIds : t # id => historyByToken'[t] = historyByToken[t]
        /\ historyByToken'[id] = Append(historyByToken[id], n)
    BY <1>2, <2>1 DEF Recorded, BuildLog
  <2>5. /\ DOMAIN historyByToken[id] = 1 .. Len(historyByToken[id])
        /\ Len(historyByToken[id]) \in Nat
        /\ DOMAIN historyByToken'[id] = 1 .. Len(historyByToken[id]) + 1
        /\ historyByToken'[id][Len(historyByToken[id]) + 1] = n
        /\ \A i \in DOMAIN historyByToken[id] :
             historyByToken'[id][i] = historyByToken[id][i]
    BY <2>1, <2>4
  <2>6. /\ \A x \in DOMAIN txs : txs[x].tokenId \in TokenIds
        /\ \A t \in TokenIds : \A i \in DOMAIN historyByToken[t] :
             historyByToken[t][i] \in DOMAIN txs
    <3>1. \A x \in DOMAIN txs : txs[x] \in Transaction
      BY <2>1
    <3> QED
      BY <3>1 DEF Transaction, LedgerComplete
  <2> HIDE DEF n, id
  <2>7. ASSUME NEW x \in DOMAIN txs'
        PROVE  \E i \in DOMAIN historyByToken'[txs'[x].tokenId] :
                 historyByToken'[txs'[x].tokenId][i] = x
    <3>1. CASE x = n
      BY <2>2, <2>5, <3>1 DEF id
    <3>2. CASE x \in DOMAIN txs
      <4>1. PICK i \in DOMAIN historyByToken[txs[x].tokenId] :
              historyByToken[txs[x].tokenId][i] = x
        BY <3>2 DEF LedgerComplete
      <4>2. txs'[x] = txs[x] /\ txs[x].tokenId \in TokenIds
        BY <2>2, <2>6, <3>2
      <4>3. CASE txs[x].tokenId = id
        BY <2>5, <4>1, <4>2, <4>3
      <4>4. CASE txs[x].tokenId # id
        BY <2>4, <4>1, <4>2, <4>4
      <4> QED
        BY <4>3, <4>4
    <3> QED
      BY <2>1, <2>2, <3>1, <3>2 DEF n
  <2>8. ASSUME NEW t \in TokenIds, NEW i \in DOMAIN historyByToken'[t]
        PROVE  /\ historyByToken'[t][i] \in DOMAIN txs'
               /\ txs'[historyByToken'[t][i]].tokenId = t
               /\ \A j \in DOMAIN historyByToken'[t] :
                    i < j => historyByToken'[t][i] < historyByToken'[t][j]
    <3>1. DOMAIN txs \subseteq DOMAIN txs' /\ n \in DOMAIN txs'
      BY <2>1, <2>2 DEF n
    <3>2. CASE t # id
      BY <2>2, <2>4, <2>6, <3>1, <3>2 DEF LedgerComplete
    <3>3. CASE t = id /\ i = Len(historyByToken[id]) + 1
      BY <2>2, <2>5, <3>1, <3>3 DEF id
    <3>4. CASE t = id /\ i \in DOMAIN historyByToken[id]
      <4>1. /\ historyByToken'[t][i] = historyByToken[t][i]
            /\ historyByToken[t][i] \in 1 .. Len(txs)
            /\ txs[historyByToken[t][i]].tokenId = t
        BY <2>2, <2>5, <2>6, <3>4 DEF LedgerComplete
      <4>2. ASSUME NEW j \in DOMAIN historyByToken'[t], i < j
            PROVE  historyByToken'[t][i] < historyByToken'[t][j]
        <5>1. CASE j = Len(historyByToken[id]) + 1
          BY <2>1, <2>5, <3>4, <4>1, <5>1 DEF n
        <5>2. CASE j \in DOMAIN historyByToken[id]
          BY <2>5, <3>4, <4>1, <4>2, <5>2 DEF LedgerComplete
        <5> QED
          BY <2>5, <3>4, <5>1, <5>2
      <4> QED
        BY <2>2, <3>1, <4>1, <4>2
    <3> QED
      BY <2>5, <3>2, <3>3, <3>4
  <2>9. ASSUME NEW x \in DOMAIN leaves'
        PROVE  leaves'[x] = [txId |-> x, leafHash |-> LeafHash(x, txs'[x])]
    <3>1. CASE x = n
      BY <2>2, <2>3, <3>1
    <3>2. CASE x \in 1 .. Len(txs)
      <4>1. leaves[x] = [txId |-> x, leafHash |-> LeafHash(x, txs[x])]
        BY <2>1, <3>2 DEF LedgerComplete
      <4> QED
        BY <2>2, <2>3, <3>2, <4>1
    <3> QED
      BY <2>1, <2>3, <3>1, <3>2 DEF n
  <2> QED
    BY <2>3, <2>7, <2>8, <2>9 DEF LedgerComplete, LeafHash
<1>3. ASSUME NEW token, NEW class, Minted(token, class) PROVE LedgerComplete'
  BY <1>2, <1>3, MintRecorded, MintedToken DEF MintTx
<1>4. ASSUME NEW token, NEW id, NEW to, Transferred(token, id, to)
      PROVE  LedgerComplete'
  BY <1>2, <1>4, TransferRecorded, TransferredToken DEF TransferTx
<1>5. CASE UNCHANGED vars
  BY <1>1, <1>5 DEF vars, storeVars
<1> QED
  BY <1>1, <1>3, <1>4, <1>5, TokensFrame

\* What was recorded is in its token's history and can be proven, for every
\* number of transactions (ledger.ts 109-146).
THEOREM LedgerIsComplete == Spec => []LedgerComplete
<1>1. Init => LedgerComplete
  BY DEF Init, TokensInit, LedgerInit, LedgerComplete
<1> QED
  BY <1>1, TypeInvInit, TypeInvStep, LedgerCompleteStep, PTL DEF Spec

\* The log, the histories and the leaves only grow (ledger.ts 109-146).
THEOREM LedgerAppendOnly == Spec => AppendOnly
<1> DEFINE Grows ==
      /\ \A x \in DOMAIN txs : x \in DOMAIN txs' /\ txs'[x] = txs[x]
      /\ \A x \in DOMAIN leaves : x \in DOMAIN leaves' /\ leaves'[x] = leaves[x]
      /\ \A t \in TokenIds : \A i \in DOMAIN historyByToken[t] :
           /\ i \in DOMAIN historyByToken'[t]
           /\ historyByToken'[t][i] = historyByToken[t][i]
<1>1. ASSUME TypeInv, NEW tx, tx.tokenId \in TokenIds, Recorded(tx) PROVE Grows
  <2>1. /\ txs \in Seq(Transaction)
        /\ leaves \in Seq([txId : Nat, leafHash : LeafData])
        /\ historyByToken \in [TokenIds -> Seq(Nat)]
    BY <1>1 DEF TypeInv, TypeOK, LedgerTypeOK
  <2>2. \A x \in DOMAIN txs : x \in DOMAIN txs' /\ txs'[x] = txs[x]
    BY <1>1, <2>1 DEF Recorded, BuildLog
  <2>3. \A x \in DOMAIN leaves : x \in DOMAIN leaves' /\ leaves'[x] = leaves[x]
    BY <1>1, <2>1 DEF Recorded, AddLeaf
  <2>4. ASSUME NEW t \in TokenIds, NEW i \in DOMAIN historyByToken[t]
        PROVE  /\ i \in DOMAIN historyByToken'[t]
               /\ historyByToken'[t][i] = historyByToken[t][i]
    <3>1. CASE t = tx.tokenId
      BY <1>1, <2>1, <3>1 DEF Recorded, BuildLog
    <3>2. CASE t # tx.tokenId
      BY <1>1, <2>1, <3>2 DEF Recorded, BuildLog
    <3> QED
      BY <3>1, <3>2
  <2> QED
    BY <2>2, <2>3, <2>4
<1>3. TypeInv /\ Next => Grows
  <2> SUFFICES ASSUME TypeInv, Next PROVE Grows
    OBVIOUS
  <2>1. CASE UNCHANGED <<ledgerVars, tokenVars>>
    BY <2>1 DEF ledgerVars
  <2>2. ASSUME NEW token, NEW class, Minted(token, class) PROVE Grows
    <3>1. MintTx(token, class).tokenId \in TokenIds
      BY <2>2, MintedToken DEF MintTx
    <3> QED
      BY <1>1, <2>2, <3>1, MintRecorded
  <2>3. ASSUME NEW token, NEW id, NEW to, Transferred(token, id, to) PROVE Grows
    <3>1. TransferTx(token, id, to).tokenId \in TokenIds
      BY <2>3, TransferredToken DEF TransferTx
    <3> QED
      BY <1>1, <2>3, <3>1, TransferRecorded
  <2> QED
    BY <2>1, <2>2, <2>3, TokensFrame
<1>4. TypeInv /\ [Next]_vars => [Grows]_vars
  BY <1>3
<1> QED
  BY <1>4, TypeInvInit, TypeInvStep, PTL DEF Spec, AppendOnly

-----------------------------------------------------------------------------
(* The histories *)

\* The history of a token, as the records of its transactions.
LEMMA HistoryType ==
  ASSUME TypeInv, LedgerComplete, NEW t \in TokenIds
  PROVE  /\ TokenTransactions(t) \in Seq(Transaction)
         /\ Len(TokenTransactions(t)) = Len(historyByToken[t])
<1>1. /\ txs \in Seq(Transaction)
      /\ historyByToken[t] \in Seq(Nat)
  BY DEF TypeInv, TypeOK, LedgerTypeOK
<1>2. \A i \in DOMAIN historyByToken[t] :
        txs[historyByToken[t][i]] \in Transaction
  BY <1>1 DEF LedgerComplete
<1> QED
  BY <1>1, <1>2 DEF TokenTransactions

\* Recording a transaction appends it to the history of its token and leaves
\* every other history alone.
LEMMA HistoryRecorded ==
  ASSUME TypeInv, LedgerComplete, NEW tx, NEW id \in TokenIds,
         tx.tokenId = id, Recorded(tx)
  PROVE  /\ \A t \in TokenIds :
              t # id => TokenTransactions(t)' = TokenTransactions(t)
         /\ Len(TokenTransactions(id)') = Len(TokenTransactions(id)) + 1
         /\ TokenTransactions(id)'[Len(TokenTransactions(id)) + 1] = tx
         /\ \A i \in 1 .. Len(TokenTransactions(id)) :
              TokenTransactions(id)'[i] = TokenTransactions(id)[i]
<1> DEFINE n == Len(txs) + 1
           len == Len(historyByToken[id])
<1>1. /\ txs \in Seq(Transaction)
      /\ historyByToken \in [TokenIds -> Seq(Nat)]
      /\ historyByToken[id] \in Seq(Nat)
  BY DEF TypeInv, TypeOK, LedgerTypeOK
<1>2. /\ txs'[n] = tx
      /\ \A x \in DOMAIN txs : txs'[x] = txs[x]
      /\ \A t \in TokenIds : t # id => historyByToken'[t] = historyByToken[t]
      /\ historyByToken'[id] = Append(historyByToken[id], n)
  BY <1>1 DEF Recorded, BuildLog
<1>3. \A t \in TokenIds : \A i \in DOMAIN historyByToken[t] :
        historyByToken[t][i] \in DOMAIN txs
  BY DEF LedgerComplete
<1>4. ASSUME NEW t \in TokenIds, t # id
      PROVE  TokenTransactions(t)' = TokenTransactions(t)
  BY <1>2, <1>3, <1>4 DEF TokenTransactions
<1>5. /\ Len(TokenTransactions(id)') = Len(TokenTransactions(id)) + 1
      /\ TokenTransactions(id)'[Len(TokenTransactions(id)) + 1] = tx
      /\ \A i \in 1 .. Len(TokenTransactions(id)) :
           TokenTransactions(id)'[i] = TokenTransactions(id)[i]
  <2>1. /\ TokenTransactions(id) \in Seq(Transaction)
        /\ Len(TokenTransactions(id)) = len
    BY HistoryType
  <2> HIDE DEF n
  <2>2. /\ DOMAIN historyByToken'[id] = 1 .. len + 1
        /\ historyByToken'[id][len + 1] = n
        /\ \A i \in 1 .. len : historyByToken'[id][i] = historyByToken[id][i]
    BY <1>1, <1>2
  <2>3. TokenTransactions(id)' =
          [i \in 1 .. len + 1 |-> txs'[historyByToken'[id][i]]]
    BY <2>2 DEF TokenTransactions
  <2>4. \A i \in 1 .. len :
          txs'[historyByToken'[id][i]] = TokenTransactions(id)[i]
    BY <1>1, <1>2, <1>3, <2>2 DEF TokenTransactions
  <2>5. txs'[historyByToken'[id][len + 1]] = tx
    BY <1>2, <2>2
  <2>6. len \in Nat
    BY <1>1
  <2> HIDE DEF len
  <2> QED
    BY <2>1, <2>3, <2>4, <2>5, <2>6
<1> QED
  BY <1>4, <1>5

\* An id that no token has yet has no history.
Unminted == \A t \in TokenIds : t \notin DOMAIN byId => historyByToken[t] = <<>>

\* The history of one token: it starts with the mint, each record continues
\* the one before, and the token stands at its head.
Chained(h, token) ==
  /\ Len(h) >= 1
  /\ h[1].operation = "mint"
  /\ h[1].stateBefore = <<>>
  /\ \A i \in 2 .. Len(h) :
       /\ h[i].operation = "transfer"
       /\ h[i].stateBefore = h[i - 1].stateAfter
       /\ h[i].from = h[i - 1].to
  /\ token.stateCommitment = h[Len(h)].stateAfter
  /\ token.owner = h[Len(h)].to

ChainInv == \A t \in DOMAIN byId : Chained(TokenTransactions(t), byId[t])

LedgerInv == TypeInv /\ LedgerComplete /\ Unminted /\ ChainInv

LEMMA ChainInvMeans == ChainInv => ChainLinked /\ HeadMatches
BY DEF ChainInv, Chained, ChainLinked, HeadMatches

LEMMA LedgerInvInit == Init => LedgerInv
<1> SUFFICES ASSUME Init PROVE LedgerInv
  OBVIOUS
<1>1. byId = <<>> /\ txs = <<>> /\ leaves = <<>>
  BY DEF Init, TokensInit, LedgerInit
<1>2. historyByToken = [t \in TokenIds |-> <<>>]
  BY DEF Init, TokensInit, LedgerInit
<1>3. LedgerComplete
  BY <1>1, <1>2 DEF LedgerComplete
<1> QED
  BY <1>1, <1>2, <1>3, TypeInvInit DEF LedgerInv, Unminted, ChainInv

\* The mint of a token starts its history.
LEMMA ChainMint ==
  ASSUME LedgerInv, NEW token, NEW class, Minted(token, class)
  PROVE  Unminted' /\ ChainInv'
<1>1. PICK id : id = NewId
  OBVIOUS
<1>2. PICK tx : tx = MintTx(token, class)
  OBVIOUS
<1>3. PICK new : new = NewToken(token, class)
  OBVIOUS
<1>4. /\ id \in TokenIds /\ id \notin DOMAIN byId
      /\ DOMAIN byId' = DOMAIN byId \cup {id}
      /\ byId'[id] = new
      /\ \A t \in DOMAIN byId : byId'[t] = byId[t]
  BY <1>1, <1>3, MintedToken DEF LedgerInv
<1>5. /\ tx.operation = "mint" /\ tx.tokenId = id /\ tx.stateBefore = <<>>
      /\ tx.stateAfter = new.stateCommitment
      /\ tx.to = new.owner
  <2>1. new.owner = Caller(token)
    BY <1>3 DEF NewToken
  <2> QED
    BY <1>1, <1>2, <1>3, <2>1 DEF MintTx
<1>6. Recorded(tx)
  BY <1>2, MintRecorded
<1>7. Len(TokenTransactions(id)) = 0
  BY <1>4, HistoryType DEF LedgerInv, Unminted
<1>8. /\ \A t \in TokenIds :
           t # id => TokenTransactions(t)' = TokenTransactions(t)
      /\ Len(TokenTransactions(id)') = 1
      /\ TokenTransactions(id)'[1] = tx
  <2>1. PICK len \in Nat : len = Len(TokenTransactions(id))
    BY <1>7
  <2>2. /\ \A t \in TokenIds :
             t # id => TokenTransactions(t)' = TokenTransactions(t)
        /\ Len(TokenTransactions(id)') = len + 1
        /\ TokenTransactions(id)'[len + 1] = tx
    <3>1. TypeInv /\ LedgerComplete /\ tx.tokenId = id /\ id \in TokenIds
      BY <1>4, <1>5 DEF LedgerInv
    <3> QED
      BY <1>6, <2>1, <3>1, HistoryRecorded
  <2> QED
    BY <1>7, <2>1, <2>2
<1>9. ChainInv'
  <2> SUFFICES ASSUME NEW t \in DOMAIN byId'
               PROVE  Chained(TokenTransactions(t)', byId'[t])
    BY DEF ChainInv, Chained
  <2>1. CASE t = id
    <3>1. PICK h : h = TokenTransactions(id)'
      OBVIOUS
    <3>2. Len(h) = 1 /\ h[1] = tx
      BY <1>8, <3>1
    <3>3. Chained(h, new)
      BY <1>5, <3>2 DEF Chained
    <3> QED
      BY <1>4, <2>1, <3>1, <3>3
  <2>2. CASE t \in DOMAIN byId
    <3>1. t \in TokenIds /\ t # id
      BY <1>4, <2>2 DEF LedgerInv, TypeInv, TypeOK, TokensTypeOK, TokenIds
    <3>2. TokenTransactions(t)' = TokenTransactions(t) /\ byId'[t] = byId[t]
      BY <1>4, <1>8, <2>2, <3>1
    <3> QED
      BY <2>2, <3>2 DEF LedgerInv, ChainInv
  <2> QED
    BY <1>4, <2>1, <2>2
<1>10. Unminted'
  BY <1>4, <1>5, <1>6 DEF LedgerInv, Unminted, Recorded, BuildLog, TypeInv,
     TypeOK, LedgerTypeOK
<1> QED
  BY <1>9, <1>10

\* A transfer continues the history where it stands.
LEMMA ChainTransfer ==
  ASSUME LedgerInv, NEW token, NEW id, NEW to, Transferred(token, id, to)
  PROVE  Unminted' /\ ChainInv'
<1>1. PICK tx : tx = TransferTx(token, id, to)
  OBVIOUS
<1>2. /\ id \in TokenIds /\ id \in DOMAIN byId
      /\ DOMAIN byId' = DOMAIN byId
      /\ byId[id].owner = Caller(token)
      /\ byId'[id].owner = Recipient(to)
      /\ byId'[id].stateCommitment = NextHead(id, to)
      /\ \A t \in DOMAIN byId : t # id => byId'[t] = byId[t]
  BY TransferredToken DEF LedgerInv
<1>3. /\ tx.operation = "transfer" /\ tx.tokenId = id
      /\ tx.stateBefore = byId[id].stateCommitment
      /\ tx.stateAfter = byId'[id].stateCommitment
      /\ tx.from = byId[id].owner
      /\ tx.to = byId'[id].owner
  BY <1>1, <1>2 DEF TransferTx
<1>4. Recorded(tx)
  BY <1>1, TransferRecorded
<1>5. PICK len \in Nat : len = Len(TokenTransactions(id))
  BY <1>2, HistoryType DEF LedgerInv
<1>6. /\ \A t \in TokenIds :
           t # id => TokenTransactions(t)' = TokenTransactions(t)
      /\ Len(TokenTransactions(id)') = len + 1
      /\ TokenTransactions(id)'[len + 1] = tx
      /\ \A i \in 1 .. len :
           TokenTransactions(id)'[i] = TokenTransactions(id)[i]
  BY <1>2, <1>3, <1>4, <1>5, HistoryRecorded DEF LedgerInv
<1>7. Chained(TokenTransactions(id), byId[id])
  BY <1>2 DEF LedgerInv, ChainInv
<1>8. ChainInv'
  <2> SUFFICES ASSUME NEW t \in DOMAIN byId'
               PROVE  Chained(TokenTransactions(t)', byId'[t])
    BY DEF ChainInv, Chained
  <2>1. CASE t = id
    BY <1>3, <1>5, <1>6, <1>7, <2>1 DEF Chained
  <2>2. CASE t # id
    <3>1. t \in TokenIds
      BY <1>2, <2>2 DEF LedgerInv, TypeInv, TypeOK, TokensTypeOK, TokenIds
    <3>2. TokenTransactions(t)' = TokenTransactions(t) /\ byId'[t] = byId[t]
      BY <1>2, <1>6, <2>2, <3>1
    <3> QED
      BY <1>2, <3>2 DEF LedgerInv, ChainInv
  <2> QED
    BY <2>1, <2>2
<1>9. Unminted'
  BY <1>2, <1>3, <1>4 DEF LedgerInv, Unminted, Recorded, BuildLog, TypeInv,
     TypeOK, LedgerTypeOK
<1> QED
  BY <1>8, <1>9

LEMMA LedgerInvStep == LedgerInv /\ [Next]_vars => LedgerInv'
<1> SUFFICES ASSUME LedgerInv, [Next]_vars PROVE LedgerInv'
  OBVIOUS
<1>1. TypeInv' /\ LedgerComplete'
  BY TypeInvStep, LedgerCompleteStep DEF LedgerInv
<1>2. CASE UNCHANGED <<ledgerVars, tokenVars>>
  BY <1>1, <1>2 DEF ledgerVars, tokenVars, LedgerInv, Unminted, ChainInv,
     TokenTransactions
<1>3. CASE UNCHANGED vars
  BY <1>2, <1>3 DEF vars, storeVars
<1> QED
  BY <1>1, <1>2, <1>3, ChainMint, ChainTransfer, TokensFrame DEF LedgerInv

\* Every history is one chain from the mint on (ledger.ts 151-233).
THEOREM ChainIsLinked == Spec => []ChainLinked
<1>1. LedgerInv => ChainLinked
  BY ChainInvMeans DEF LedgerInv
<1> QED
  BY <1>1, LedgerInvInit, LedgerInvStep, PTL DEF Spec

\* Every token stands at the head of its own history (tokens.ts 153-158,
\* 195-196).
THEOREM HeadAlwaysMatches == Spec => []HeadMatches
<1>1. LedgerInv => HeadMatches
  BY ChainInvMeans DEF LedgerInv
<1> QED
  BY <1>1, LedgerInvInit, LedgerInvStep, PTL DEF Spec

-----------------------------------------------------------------------------
(* The service implements the ownership registry *)

OwnerBar == [t \in DOMAIN byId |-> byId[t].owner]

Moves(t) ==
  [i \in DOMAIN historyByToken[t] |->
     [from |-> txs[historyByToken[t][i]].from,
      to |-> txs[historyByToken[t][i]].to]]

TrailBar == [t \in DOMAIN byId |-> Moves(t)]

MoveOf(tx) == [from |-> tx.from, to |-> tx.to]

LEMMA FunctionIsSeq ==
  ASSUME NEW T, NEW n \in Nat, NEW f \in [1 .. n -> T]
  PROVE  f \in Seq(T) /\ Len(f) = n
OBVIOUS

\* The mapping has the shape of the registry's variables.
BarOK ==
  /\ byId \in Seq(Token)
  /\ DOMAIN byId = 1 .. Len(byId) /\ Len(byId) \in Nat
  /\ \A t \in DOMAIN byId : t \in TokenIds /\ byId[t].owner \in Dids
  /\ OwnerBar \in Seq(Dids) /\ Len(OwnerBar) = Len(byId)
  /\ TrailBar \in Seq(Seq(Registry!Move)) /\ Len(TrailBar) = Len(byId)
  /\ \A t \in TokenIds :
       /\ Moves(t) \in Seq(Registry!Move)
       /\ Len(Moves(t)) = Len(TokenTransactions(t))
       /\ \A i \in 1 .. Len(Moves(t)) :
            Moves(t)[i] = MoveOf(TokenTransactions(t)[i])

LEMMA BarType == LedgerInv => BarOK
<1> SUFFICES ASSUME LedgerInv PROVE BarOK
  OBVIOUS
<1>1. byId \in Seq(Token) /\ Len(byId) <= MaxTokens
  BY DEF LedgerInv, TypeInv, TypeOK, TokensTypeOK
<1>2. \A t \in DOMAIN byId : t \in TokenIds /\ byId[t] \in Token
  BY <1>1 DEF TokenIds
<1>3. \A t \in DOMAIN byId : byId[t].owner \in Dids
  BY <1>2 DEF Token
<1>4. OwnerBar \in Seq(Dids) /\ Len(OwnerBar) = Len(byId)
  BY <1>1, <1>3 DEF OwnerBar
<1>5. ASSUME NEW t \in TokenIds
      PROVE  /\ Moves(t) \in Seq(Registry!Move)
             /\ Len(Moves(t)) = Len(TokenTransactions(t))
             /\ \A i \in 1 .. Len(Moves(t)) :
                  Moves(t)[i] = MoveOf(TokenTransactions(t)[i])
  <2>1. /\ historyByToken[t] \in Seq(Nat)
        /\ txs \in Seq(Transaction)
    BY DEF LedgerInv, TypeInv, TypeOK, LedgerTypeOK
  <2>2. \A i \in DOMAIN historyByToken[t] :
          txs[historyByToken[t][i]] \in Transaction
    BY <2>1 DEF LedgerInv, LedgerComplete
  <2>3. \A i \in DOMAIN historyByToken[t] :
          [from |-> txs[historyByToken[t][i]].from,
           to |-> txs[historyByToken[t][i]].to] \in Registry!Move
    BY <2>2 DEF Transaction, Registry!Move
  <2>4. Moves(t) \in Seq(Registry!Move) /\ Len(Moves(t)) = Len(historyByToken[t])
    <3>1. PICK n \in Nat : n = Len(historyByToken[t])
      BY <2>1
    <3>2. DOMAIN historyByToken[t] = 1 .. n
      BY <2>1, <3>1
    <3>3. Moves(t) \in [1 .. n -> Registry!Move]
      BY <2>3, <3>2 DEF Moves
    <3> QED
      BY <3>1, <3>3, FunctionIsSeq
  <2>5. Len(TokenTransactions(t)) = Len(historyByToken[t])
    BY HistoryType DEF LedgerInv
  <2>6. \A i \in DOMAIN historyByToken[t] :
          Moves(t)[i] = MoveOf(TokenTransactions(t)[i])
    BY <2>1 DEF Moves, MoveOf, TokenTransactions
  <2> QED
    BY <2>1, <2>4, <2>5, <2>6
<1>6. TrailBar \in Seq(Seq(Registry!Move)) /\ Len(TrailBar) = Len(byId)
  <2>1. PICK n \in Nat : n = Len(byId)
    BY <1>1
  <2>2. DOMAIN byId = 1 .. n
    BY <1>1, <2>1
  <2>3. TrailBar \in [1 .. n -> Seq(Registry!Move)]
    BY <1>2, <1>5, <2>2 DEF TrailBar
  <2> QED
    BY <2>1, <2>3, FunctionIsSeq
<1> QED
  BY <1>1, <1>2, <1>3, <1>4, <1>5, <1>6 DEF BarOK

\* Recording a transaction appends its move to the moves of its token.
LEMMA MovesRecorded ==
  ASSUME LedgerInv, LedgerInv', NEW tx, NEW id \in TokenIds, tx.tokenId = id,
         Recorded(tx)
  PROVE  /\ \A t \in TokenIds : t # id => Moves(t)' = Moves(t)
         /\ Moves(id)' = Append(Moves(id), MoveOf(tx))
<1>1. /\ \A t \in TokenIds :
           t # id => TokenTransactions(t)' = TokenTransactions(t)
      /\ Len(TokenTransactions(id)') = Len(TokenTransactions(id)) + 1
      /\ TokenTransactions(id)'[Len(TokenTransactions(id)) + 1] = tx
      /\ \A i \in 1 .. Len(TokenTransactions(id)) :
           TokenTransactions(id)'[i] = TokenTransactions(id)[i]
  BY HistoryRecorded DEF LedgerInv
<1>2. \A t \in TokenIds :
        /\ Moves(t) \in Seq(Registry!Move)
        /\ Len(Moves(t)) = Len(TokenTransactions(t))
        /\ \A i \in 1 .. Len(Moves(t)) :
             Moves(t)[i] = MoveOf(TokenTransactions(t)[i])
  BY BarType DEF BarOK
<1>3. BarOK'
  BY BarType, PTL
<1>4. \A t \in TokenIds :
        /\ Moves(t)' \in Seq(Registry!Move)
        /\ Len(Moves(t)') = Len(TokenTransactions(t)')
        /\ \A i \in 1 .. Len(Moves(t)') :
             Moves(t)'[i] = MoveOf(TokenTransactions(t)'[i])
  BY <1>3 DEF BarOK, MoveOf
<1>5. ASSUME NEW t \in TokenIds, t # id PROVE Moves(t)' = Moves(t)
  <2> HIDE DEF Moves, TokenTransactions, MoveOf
  <2>1. \A i \in 1 .. Len(Moves(t)) : Moves(t)'[i] = Moves(t)[i]
    BY <1>1, <1>2, <1>4, <1>5
  <2>2. /\ Moves(t) \in Seq(Registry!Move) /\ Moves(t)' \in Seq(Registry!Move)
        /\ Len(Moves(t)') = Len(Moves(t))
    BY <1>1, <1>2, <1>4, <1>5
  <2> QED
    BY <2>1, <2>2, SeqEqual
<1>6. Moves(id)' = Append(Moves(id), MoveOf(tx))
  <2>1. PICK m : m = Moves(id)
    OBVIOUS
  <2>2. /\ m \in Seq(Registry!Move)
        /\ Len(m) = Len(TokenTransactions(id))
        /\ Moves(id)' \in Seq(Registry!Move)
        /\ Len(Moves(id)') = Len(m) + 1
    BY <1>1, <1>2, <1>4, <2>1
  <2>3. \A i \in 1 .. Len(m) : Moves(id)'[i] = m[i]
    BY <1>1, <1>2, <1>4, <2>1, <2>2
  <2>4. Moves(id)'[Len(m) + 1] = MoveOf(tx)
    BY <1>1, <1>4, <2>2
  <2>5. MoveOf(tx) \in Registry!Move
    BY <2>2, <2>4
  <2>6. \A i \in 1 .. Len(m) + 1 : Moves(id)'[i] = Append(m, MoveOf(tx))[i]
    BY <2>2, <2>3, <2>4, <2>5, AppendProperties
  <2>7. Moves(id)' = Append(m, MoveOf(tx))
    BY <2>2, <2>5, <2>6, AppendProperties, SeqEqual
  <2> QED
    BY <2>1, <2>7
<1> QED
  BY <1>5, <1>6

LEMMA AppendedSeq ==
  ASSUME NEW S, NEW s \in Seq(S), NEW t \in Seq(S), NEW e,
         Len(t) = Len(s) + 1, t[Len(s) + 1] = e,
         \A i \in 1 .. Len(s) : t[i] = s[i]
  PROVE  t = Append(s, e)
<1>1. e \in S
  OBVIOUS
<1>2. \A i \in 1 .. Len(s) + 1 : t[i] = Append(s, e)[i]
  BY <1>1, AppendProperties
<1> QED
  BY <1>1, <1>2, AppendProperties, SeqEqual

LEMMA UpdatedSeq ==
  ASSUME NEW S, NEW s \in Seq(S), NEW t \in Seq(S), NEW k \in 1 .. Len(s),
         NEW e, Len(t) = Len(s), t[k] = e,
         \A i \in 1 .. Len(s) : i # k => t[i] = s[i]
  PROVE  t = [s EXCEPT ![k] = e]
OBVIOUS

\* A mint is a mint of the registry, and a transfer a transfer.
LEMMA RegistryMint ==
  ASSUME LedgerInv, LedgerInv', NEW token, NEW class, Minted(token, class)
  PROVE  /\ OwnerBar' = Append(OwnerBar, Caller(token))
         /\ TrailBar' = Append(TrailBar, <<[from |-> NoAccount,
                                            to |-> Caller(token)]>>)
<1>1. BarOK /\ BarOK'
  BY BarType, PTL
<1>n. PICK id : id = NewId
  OBVIOUS
<1>2. /\ id \in TokenIds /\ id \notin DOMAIN byId
      /\ DOMAIN byId' = DOMAIN byId \cup {id}
      /\ byId'[id].owner = Caller(token)
      /\ \A t \in DOMAIN byId : byId'[t] = byId[t]
  <2>1. NewToken(token, class).owner = Caller(token)
    BY DEF NewToken
  <2> QED
    BY <1>n, <2>1, MintedToken DEF LedgerInv
<1>3. /\ \A t \in TokenIds : t # id => Moves(t)' = Moves(t)
      /\ Moves(id)' = Append(Moves(id), MoveOf(MintTx(token, class)))
  <2>1. PICK tx : tx = MintTx(token, class)
    OBVIOUS
  <2>2. Recorded(tx) /\ tx.tokenId = id
    BY <1>n, MintRecorded, <2>1 DEF MintTx
  <2> QED
    BY <1>2, <2>1, <2>2, MovesRecorded
<1>4. Moves(id)' = <<[from |-> NoAccount, to |-> Caller(token)]>>
  <2>1. historyByToken[id] = <<>>
    BY <1>2 DEF LedgerInv, Unminted
  <2>2. Moves(id) = <<>>
    BY <2>1 DEF Moves
  <2>3. MoveOf(MintTx(token, class)) =
          [from |-> NoAccount, to |-> Caller(token)]
    BY DEF MoveOf, MintTx
  <2> QED
    BY <1>3, <2>2, <2>3
<1>5. /\ OwnerBar' \in Seq(Dids) /\ OwnerBar \in Seq(Dids)
      /\ TrailBar' \in Seq(Seq(Registry!Move))
      /\ TrailBar \in Seq(Seq(Registry!Move))
      /\ Len(OwnerBar) = Len(byId) /\ Len(OwnerBar') = Len(byId')
      /\ Len(TrailBar) = Len(byId) /\ Len(TrailBar') = Len(byId')
      /\ DOMAIN byId = 1 .. Len(byId) /\ DOMAIN byId' = 1 .. Len(byId')
      /\ Len(byId) \in Nat /\ Len(byId') \in Nat
      /\ \A t \in DOMAIN byId : t \in TokenIds
  BY <1>1 DEF BarOK
<1>6. Len(byId') = id /\ id = Len(byId) + 1
  BY <1>n, <1>2, <1>5 DEF NewId
<1>7. /\ \A t \in DOMAIN byId : OwnerBar[t] = byId[t].owner
      /\ \A t \in DOMAIN byId' : OwnerBar'[t] = byId'[t].owner
      /\ \A t \in DOMAIN byId : TrailBar[t] = Moves(t)
      /\ \A t \in DOMAIN byId' : TrailBar'[t] = Moves(t)'
  BY DEF OwnerBar, TrailBar
<1>8. OwnerBar' = Append(OwnerBar, Caller(token))
  <2>1. OwnerBar'[Len(OwnerBar) + 1] = Caller(token)
    BY <1>2, <1>5, <1>6, <1>7
  <2>2. \A t \in 1 .. Len(OwnerBar) : OwnerBar'[t] = OwnerBar[t]
    BY <1>2, <1>5, <1>6, <1>7
  <2> QED
    BY <1>5, <1>6, <2>1, <2>2, AppendedSeq
<1>9. TrailBar' = Append(TrailBar, <<[from |-> NoAccount,
                                      to |-> Caller(token)]>>)
  <2>1. TrailBar'[Len(TrailBar) + 1] =
          <<[from |-> NoAccount, to |-> Caller(token)]>>
    BY <1>2, <1>4, <1>5, <1>6, <1>7
  <2>2. \A t \in 1 .. Len(TrailBar) : TrailBar'[t] = TrailBar[t]
    BY <1>2, <1>3, <1>5, <1>6, <1>7
  <2> QED
    BY <1>5, <1>6, <2>1, <2>2, AppendedSeq
<1> QED
  BY <1>8, <1>9

LEMMA RegistryTransfer ==
  ASSUME LedgerInv, LedgerInv', NEW token, NEW id, NEW to,
         Transferred(token, id, to)
  PROVE  /\ OwnerBar' = [OwnerBar EXCEPT ![id] = Recipient(to)]
         /\ TrailBar' = [TrailBar EXCEPT ![id] =
                           Append(@, [from |-> OwnerBar[id],
                                      to |-> Recipient(to)])]
<1>1. BarOK /\ BarOK'
  BY BarType, PTL
<1>2. /\ id \in TokenIds /\ id \in DOMAIN byId
      /\ DOMAIN byId' = DOMAIN byId
      /\ byId[id].owner = Caller(token)
      /\ byId'[id].owner = Recipient(to)
      /\ \A t \in DOMAIN byId : t # id => byId'[t] = byId[t]
  BY TransferredToken DEF LedgerInv
<1>3. /\ \A t \in TokenIds : t # id => Moves(t)' = Moves(t)
      /\ Moves(id)' = Append(Moves(id), MoveOf(TransferTx(token, id, to)))
  <2>1. PICK tx : tx = TransferTx(token, id, to)
    OBVIOUS
  <2>2. Recorded(tx) /\ tx.tokenId = id
    BY TransferRecorded, <2>1 DEF TransferTx
  <2> QED
    BY <1>2, <2>1, <2>2, MovesRecorded
<1>4. MoveOf(TransferTx(token, id, to)) =
        [from |-> Caller(token), to |-> Recipient(to)]
  BY DEF MoveOf, TransferTx
<1>5. /\ OwnerBar' \in Seq(Dids) /\ OwnerBar \in Seq(Dids)
      /\ TrailBar' \in Seq(Seq(Registry!Move))
      /\ TrailBar \in Seq(Seq(Registry!Move))
      /\ Len(OwnerBar) = Len(byId) /\ Len(OwnerBar') = Len(byId')
      /\ Len(TrailBar) = Len(byId) /\ Len(TrailBar') = Len(byId')
      /\ DOMAIN byId = 1 .. Len(byId) /\ DOMAIN byId' = 1 .. Len(byId')
      /\ Len(byId) \in Nat /\ Len(byId') \in Nat
      /\ \A t \in DOMAIN byId : t \in TokenIds
  BY <1>1 DEF BarOK
<1>6. Len(byId') = Len(byId) /\ id \in 1 .. Len(byId)
  BY <1>2, <1>5
<1>7. /\ \A t \in DOMAIN byId : OwnerBar[t] = byId[t].owner
      /\ \A t \in DOMAIN byId' : OwnerBar'[t] = byId'[t].owner
      /\ \A t \in DOMAIN byId : TrailBar[t] = Moves(t)
      /\ \A t \in DOMAIN byId' : TrailBar'[t] = Moves(t)'
  BY DEF OwnerBar, TrailBar
<1>8. OwnerBar' = [OwnerBar EXCEPT ![id] = Recipient(to)]
  <2>1. OwnerBar'[id] = Recipient(to)
    BY <1>2, <1>7
  <2>2. \A t \in 1 .. Len(OwnerBar) : t # id => OwnerBar'[t] = OwnerBar[t]
    BY <1>2, <1>5, <1>7
  <2>3. /\ OwnerBar \in Seq(Dids) /\ OwnerBar' \in Seq(Dids)
        /\ Len(OwnerBar') = Len(OwnerBar)
        /\ id \in 1 .. Len(OwnerBar)
    BY <1>5, <1>6
  <2> QED
    BY <2>1, <2>2, <2>3, UpdatedSeq
<1>9. TrailBar' = [TrailBar EXCEPT ![id] =
                     Append(TrailBar[id], [from |-> OwnerBar[id],
                                           to |-> Recipient(to)])]
  <2>1. TrailBar'[id] = Append(TrailBar[id], [from |-> OwnerBar[id],
                                              to |-> Recipient(to)])
    BY <1>2, <1>3, <1>4, <1>7
  <2>2. \A t \in 1 .. Len(TrailBar) : t # id => TrailBar'[t] = TrailBar[t]
    BY <1>2, <1>3, <1>5, <1>7
  <2> QED
    BY <1>5, <1>6, <2>1, <2>2, UpdatedSeq
<1> QED
  BY <1>8, <1>9

LEMMA RegistryStep ==
  LedgerInv /\ LedgerInv' /\ [Next]_vars
    => [Registry!RegistryNext]_(Registry!registryVars)
<1> SUFFICES ASSUME LedgerInv, LedgerInv', [Next]_vars
             PROVE  \/ Registry!RegistryNext
                    \/ UNCHANGED Registry!registryVars
  OBVIOUS
<1>1. CASE UNCHANGED <<ledgerVars, tokenVars>>
  BY <1>1 DEF ledgerVars, tokenVars, Registry!registryVars
<1>2. ASSUME NEW token, NEW class, Minted(token, class)
      PROVE  Registry!RegistryNext
  <2>1. PICK o \in Dids : o = Caller(token)
    BY <1>2, MintedToken DEF LedgerInv
  <2>2. Registry!Mint(o)
    BY <1>2, <2>1, RegistryMint DEF Registry!Mint, OwnerBar, TrailBar, Moves
  <2> QED
    BY <2>1, <2>2, Zenon DEF Registry!RegistryNext
<1>3. ASSUME NEW token, NEW id, NEW to, Transferred(token, id, to)
      PROVE  Registry!RegistryNext
  <2>1. PICK o \in Dids : o = Recipient(to)
    BY <1>3, TransferredToken DEF LedgerInv
  <2>2. id \in DOMAIN OwnerBar
    BY <1>3, TransferredToken DEF LedgerInv, OwnerBar
  <2>3. /\ OwnerBar' = [OwnerBar EXCEPT ![id] = o]
        /\ TrailBar' = [TrailBar EXCEPT ![id] =
                          Append(@, [from |-> OwnerBar[id], to |-> o])]
    BY <1>3, <2>1, RegistryTransfer
  <2>4. Registry!Transfer(id, o)
    BY <2>3, Zenon DEF Registry!Transfer, OwnerBar, TrailBar, Moves
  <2> QED
    BY <2>2, <2>4, Zenon DEF Registry!RegistryNext, OwnerBar
<1>4. CASE UNCHANGED vars
  BY <1>1, <1>4 DEF vars, storeVars
<1> QED
  BY <1>1, <1>2, <1>3, <1>4, TokensFrame

\* Whatever is requested, in any order and by any number of accounts, the
\* service behaves as the ownership registry: one owner each, who alone hands
\* on, and every move on record (tokens.ts, ledger.ts).
THEOREM RegistryImplemented == Spec => ImplementsRegistry
<1>1. Init => Registry!RegistryInit
  BY DEF Init, TokensInit, LedgerInit, Registry!RegistryInit
<1> QED
  BY <1>1, RegistryStep, LedgerInvInit, LedgerInvStep, PTL
     DEF Spec, ImplementsRegistry, Registry!RegistrySpec

=============================================================================
