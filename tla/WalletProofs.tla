---------------------------- MODULE WalletProofs ----------------------------
(***************************************************************************)
(* Proofs about the wallet page at work with the service, for every set of *)
(* addresses and texts and for every number of sessions, accounts, tokens, *)
(* transactions and lost requests.                                         *)
(***************************************************************************)
EXTENDS WalletApp, ComplianceProofs

USE StandinAssumption, AccountsAssumption, CredentialsAssumption,
    TokenClassesAssumption, LedgerAssumption, WalletAppAssumption

-----------------------------------------------------------------------------
(* The service as its clients see it *)

ServiceInv == LedgerInv /\ Filed /\ OwnerIndex

LEMMA ServiceInvInit == Init => ServiceInv
<1> SUFFICES ASSUME Init PROVE ServiceInv
  OBVIOUS
<1>1. OwnerIndex
  BY DEF Init, TokensInit, OwnerIndex, Dids
<1> QED
  BY <1>1, LedgerInvInit, CredentialInvInit DEF ServiceInv, CredentialInv

LEMMA ServiceInvStep == ServiceInv /\ [Next]_vars => ServiceInv'
<1> SUFFICES ASSUME ServiceInv, [Next]_vars PROVE ServiceInv'
  OBVIOUS
<1>1. TypeInv /\ CredentialInv
  BY DEF ServiceInv, LedgerInv, CredentialInv
<1> QED
  BY <1>1, LedgerInvStep, FiledStep, OwnerIndexStep DEF ServiceInv, CredentialInv

\* The n-th access token is that of the account with the n-th DID and key.
LEMMA TokenOfDid ==
  ASSUME ServiceInv, NEW n \in DOMAIN byToken
  PROVE  /\ GetByToken(n).did = n /\ GetByToken(n).keyId = n
         /\ n \in Dids /\ n \in DOMAIN byKeyId /\ LoggedIn(n)
<1>1. AccountsTypeOK /\ AccountsKept
  BY DEF ServiceInv, LedgerInv, TypeInv, TypeOK
<1>2. GetByToken(n) = [did |-> n, keyId |-> n]
  BY <1>1 DEF AccountsKept
<1>3. n \in 1 .. Len(byToken) /\ Len(byToken) \in Nat /\ Len(byKeyId) = Len(byToken)
      /\ Len(byToken) <= MaxAccounts
  BY <1>1 DEF AccountsTypeOK
<1>4. n \in DOMAIN byKeyId
  BY <1>1, <1>3 DEF AccountsTypeOK
<1> QED
  BY <1>2, <1>3, <1>4 DEF Dids, LoggedIn

\* What a client got to know stays true: tokens, credentials, transactions and
\* who minted a token.
Grows ==
  /\ DOMAIN byToken \subseteq DOMAIN byToken'
  /\ \A c \in DOMAIN creds :
       c \in DOMAIN creds' /\ creds'[c].holder = creds[c].holder
  /\ \A t \in DOMAIN byId :
       /\ t \in DOMAIN byId'
       /\ TokenTransactions(t)'[1] = TokenTransactions(t)[1]
  /\ \A x \in DOMAIN txs : x \in DOMAIN txs' /\ txs'[x] = txs[x]

LEMMA LogGrows ==
  ASSUME TypeInv, [Next]_vars
  PROVE  \A x \in DOMAIN txs : x \in DOMAIN txs' /\ txs'[x] = txs[x]
<1>1. ASSUME NEW tx, Recorded(tx)
      PROVE  \A x \in DOMAIN txs : x \in DOMAIN txs' /\ txs'[x] = txs[x]
  <2>1. txs \in Seq(Transaction) /\ txs' = Append(txs, tx)
    BY <1>1 DEF TypeInv, TypeOK, LedgerTypeOK, Recorded, BuildLog
  <2> QED
    BY <2>1
<1>2. CASE UNCHANGED txs
  BY <1>2
<1>3. UNCHANGED vars => UNCHANGED txs
  BY DEF vars, storeVars, ledgerVars
<1> QED
  BY <1>1, <1>2, <1>3, TokensFrame, MintRecorded, TransferRecorded
     DEF ledgerVars

LEMMA AccountsGrow ==
  ASSUME TypeInv, [Next]_vars
  PROVE  DOMAIN byToken \subseteq DOMAIN byToken'
<1>1. ASSUME NEW a \in Addresses, Registered(a)
      PROVE  DOMAIN byToken \subseteq DOMAIN byToken'
  <2>1. byToken \in Seq(Addresses) /\ byToken' = Append(byToken, a)
    BY <1>1 DEF TypeInv, TypeOK, AccountsTypeOK, Registered, CreateAccount
  <2> QED
    BY <2>1
<1>2. UNCHANGED vars => UNCHANGED accountVars
  BY DEF vars, storeVars
<1> QED
  BY <1>1, <1>2, AccountsFrame DEF accountVars

LEMMA ServiceGrows ==
  ASSUME ServiceInv, [Next]_vars
  PROVE  Grows
<1>1. TypeInv /\ LedgerInv
  BY DEF ServiceInv, LedgerInv
<1>2. \A t \in DOMAIN byId : Continued(t)
  BY <1>1, TokensContinued
<1>3. Kept
  BY <1>1, CredentialsKept
<1> QED
  BY <1>1, <1>2, <1>3, LogGrows, AccountsGrow DEF Grows, Continued, Kept

LEMMA StaysSame == UNCHANGED <<storeVars, clock>> => Grows
BY DEF storeVars, accountVars, ledgerVars, tokenVars, Grows, TokenTransactions

-----------------------------------------------------------------------------
(* What the page gets to know from an answer *)

Unserved == UNCHANGED <<storeVars, clock>>

LEMMA FailedAnswer ==
  ASSUME NEW op, NEW status \in {400, 401, 403, 404, 409, 500}, NEW code,
         Fail(op, status, code)
  PROVE  Result(reply') # "ok" /\ Unserved
BY DEF Fail, Reply, Result, Unserved

LEMMA FoundAnswer ==
  ASSUME NEW op, NEW found, Found(op, found)
  PROVE  reply'.found = found /\ Result(reply') = "ok" /\ Unserved
<1>1. /\ reply' = [Reply(op, 200, NoCode, Unknown, Unknown) EXCEPT !.found = found]
      /\ Unserved
  BY DEF Found, Unserved
<1>2. reply'.found = found /\ reply'.status = 200 /\ reply'.code = NoCode
  BY <1>1 DEF Reply
<1>3. Result(reply') = "ok"
  BY <1>2 DEF Result, NoCode
<1> QED
  BY <1>1, <1>2, <1>3

LEMMA OneFound == \A x : One({x}) = x
<1> TAKE x
<1>1. {x} # {} /\ (CHOOSE id \in {x} : TRUE) \in {x}
  OBVIOUS
<1> QED
  BY <1>1 DEF One

LEMMA FoundOrAnswer ==
  ASSUME NEW op, NEW found, NEW code, FoundOr(op, found, code)
  PROVE  /\ Unserved
         /\ Result(reply') = "ok" => reply'.found = found /\ found # {}
BY FailedAnswer, FoundAnswer DEF FoundOr

LEMMA CreateAnswer ==
  ASSUME NEW a, AccountCreate(a)
  PROVE  \/ Result(reply') # "ok" /\ Unserved
         \/ Registered(a)
BY FailedAnswer DEF AccountCreate, AddressFree, Registered

LEMMA IssueAnswer ==
  ASSUME NEW holder, NEW subject, CredentialIssue(holder, subject, TRUE)
  PROVE  \/ Result(reply') # "ok" /\ Unserved
         \/ Issued(holder, subject)
BY FailedAnswer DEF CredentialIssue, Issued

LEMMA RevokeAnswer ==
  ASSUME NEW id, CredentialRevoke(id)
  PROVE  \/ Result(reply') # "ok" /\ Unserved
         \/ Revoked(id)
BY FailedAnswer DEF CredentialRevoke, Revoked

LEMMA MintAnswer ==
  ASSUME NEW token, NEW class, TokenMint(token, class, TRUE)
  PROVE  \/ Result(reply') # "ok" /\ Unserved
         \/ Minted(token, class)
BY FailedAnswer DEF TokenMint, Minted

LEMMA TransactAnswer ==
  ASSUME NEW token, NEW id, NEW to, TokenTransact(token, "transfer", id, to)
  PROVE  \/ Result(reply') # "ok" /\ Unserved
         \/ Transferred(token, id, to)
BY FailedAnswer DEF TokenTransact, Transferred

LEMMA KeysAnswer ==
  ASSUME ServiceInv, NEW n \in DOMAIN byToken, KeysSearch(n)
  PROVE  Unserved /\ (Result(reply') = "ok" => One(reply'.found) = n)
<1>1. AccountRequest("keysSearch", n, {n})
  BY TokenOfDid DEF KeysSearch
<1>2. Found("keysSearch", {n}) \/ Fail("keysSearch", 401, "UNAUTHORIZED")
  BY <1>1 DEF AccountRequest
<1>3. CASE Found("keysSearch", {n})
  BY <1>3, FoundAnswer, OneFound
<1>4. CASE Fail("keysSearch", 401, "UNAUTHORIZED")
  BY <1>4, FailedAnswer
<1> QED
  BY <1>2, <1>3, <1>4

LEMMA SignAnswer ==
  ASSUME ServiceInv, NEW n \in DOMAIN byToken, KeyRequest("keysSign", n)
  PROVE  Unserved /\ (Result(reply') = "ok" => One(reply'.found) = n)
<1>1. GetByKeyId(n).keyId = n
  BY TokenOfDid DEF ServiceInv, LedgerInv, TypeInv, AccountsKept, GetByToken,
     GetByKeyId
<1>2. FoundOr("keysSign", {n}, "KEY_NOT_FOUND")
  BY <1>1, TokenOfDid DEF KeyRequest
<1> QED
  BY <1>2, FoundOrAnswer, OneFound

\* The page's copy of a credential is an old one; the store's status decides.
LEMMA VerifyAnswer ==
  ASSUME ServiceInv, NEW c \in DOMAIN creds, CredentialVerify(c, "active")
  PROVE  /\ Unserved
         /\ Result(reply') = "ok" =>
              One(reply'.found) = IF Valid(creds[c]) THEN c ELSE Nothing
<1>1. creds[c] \in Credential /\ creds[c].id = c
  BY DEF ServiceInv, LedgerInv, TypeInv, TypeOK, CredentialsTypeOK, Filed
<1>2. Valid([creds[c] EXCEPT !.status = "active"]) <=> Valid(creds[c])
  BY <1>1 DEF Valid, SignatureValid, StatusOf, NotExpired, Credential
<1>3. Found("credentialVerify", IF Valid(creds[c]) THEN {c} ELSE {})
  BY <1>2 DEF CredentialVerify
<1> QED
  BY <1>3, FoundAnswer, OneFound DEF One

LEMMA TokenAnswer ==
  ASSUME NEW t \in DOMAIN byId, TokenGet(t)
  PROVE  /\ Unserved
         /\ Result(reply') = "ok" => One(reply'.found) = byId[t].owner
<1>1. FoundOr("tokenGet", {byId[t].owner}, "RESOURCE_NOT_FOUND")
  BY DEF TokenGet
<1> QED
  BY <1>1, FoundOrAnswer, OneFound

LEMMA SearchAnswer ==
  ASSUME ServiceInv, NEW n \in DOMAIN byToken, TokenSearch(n)
  PROVE  /\ Unserved
         /\ reply'.found = {t \in DOMAIN byId : byId[t].owner = n}
<1>1. AccountRequest("tokenSearch", n, TokensForOwner(n))
  BY TokenOfDid DEF TokenSearch
<1>2. LoggedIn(n) /\ n \in Dids
  BY TokenOfDid
<1>3. TokensForOwner(n) = {t \in DOMAIN byId : byId[t].owner = n}
  <2>1. \A t \in DOMAIN byId : t \in TokenIds
    BY DEF ServiceInv, LedgerInv, TypeInv, TypeOK, TokensTypeOK, TokenIds
  <2> QED
    BY <1>2, <2>1 DEF ServiceInv, OwnerIndex, TokensForOwner, TypeOK, TypeInv,
       LedgerInv, TokensTypeOK
<1> QED
  BY <1>1, <1>2, <1>3, FoundAnswer DEF AccountRequest

-----------------------------------------------------------------------------
(* The handlers and the searches, against the service *)

Flow ==
  [step : Steps, served : BOOLEAN,
   result : {"none", "ok", "refused", "error", "lost"}, value : Nat,
   auth : Nat, addr : ValidAddresses \cup {NoAddress}, item : Nat,
   text : Messages \cup {NoText}, prefer : Nat, tx : Nat]

InFlight ==
  [auth : Nat, mount : Nat, prefer : Nat, transfer : BOOLEAN,
   served : BOOLEAN, held : Nat, fate : {"fresh", "late", "lost"}]

\* The answer to this step has arrived and is not yet read.
Got(f, step) == f.step = step /\ f.served /\ f.result = "ok"

\* What a client can know of the n-th account.
IssuedTo(c, n) == c \in DOMAIN creds /\ creds[c].holder = n

MintedBy(t, n) == t \in DOMAIN byId /\ TokenTransactions(t)[1].to = n

SentBy(x, t, n) == x \in DOMAIN txs /\ txs[x].tokenId = t /\ txs[x].from = n

OwnedSince(x, t, n) ==
  \E y \in DOMAIN txs : y >= x /\ txs[y].tokenId = t /\ txs[y].to = n

ReceivedBy(t, n) == t \in DOMAIN byId /\ OwnedSince(1, t, n)

\* What the handler of each section relies on at each of its steps.
AccountFlow(f) ==
  /\ f.step \in {"idle", "available", "create", "profile"}
  /\ f.step # "idle" => f.addr \in ValidAddresses
  /\ Got(f, "create") => f.value \in DOMAIN byToken
  /\ f.step = "profile" => f.auth \in DOMAIN byToken
  /\ Got(f, "profile") => f.value = f.auth

SignFlow(f) ==
  /\ f.step \in {"idle", "sign"}
  /\ f.step = "sign" => f.item \in DOMAIN byToken
  /\ Got(f, "sign") => f.value = f.item

CredentialFlow(f) ==
  /\ f.step \in {"idle", "issue", "verify", "revoke"}
  /\ f.step # "idle" => f.auth \in DOMAIN byToken
  /\ f.step \in {"verify", "revoke"} => IssuedTo(f.item, f.auth)
  /\ Got(f, "issue") => IssuedTo(f.value, f.auth)

MintFlow(f) ==
  /\ f.step \in {"idle", "mint", "getToken"}
  /\ f.step # "idle" => f.auth \in DOMAIN byToken
  /\ f.step = "getToken" => MintedBy(f.item, f.auth)
  /\ Got(f, "mint") => MintedBy(f.value, f.auth)

TransferFlow(f) ==
  /\ f.step \in {"idle", "available", "create", "transact", "fetch", "refresh"}
  /\ f.step # "idle" =>
       /\ f.auth \in DOMAIN byToken
       /\ f.item \in DOMAIN byId
       /\ f.addr \in ValidAddresses
  /\ f.step \in {"fetch", "refresh"} => SentBy(f.tx, f.item, f.auth)
  /\ f.step = "refresh" => ~f.served
  /\ Got(f, "transact") => SentBy(f.value, f.item, f.auth)
  /\ Got(f, "fetch") => OwnedSince(f.tx, f.item, f.value)

GoodFlow(section, f) ==
  /\ section = "account" => AccountFlow(f)
  /\ section = "sign" => SignFlow(f)
  /\ section = "credential" => CredentialFlow(f)
  /\ section = "mint" => MintFlow(f)
  /\ section = "transfer" => TransferFlow(f)

GoodSearch(search) ==
  /\ search.auth \in DOMAIN byToken
  /\ search.held # Nothing =>
       search.served /\ ReceivedBy(search.held, search.auth)

FlowInv ==
  /\ flow \in [Slots -> Flow]
  /\ \A s \in Slots : GoodFlow(s[2], flow[s])
  /\ searches \in Seq(InFlight)
  /\ \A i \in 1 .. Len(searches) : GoodSearch(searches[i])
  /\ theirs \subseteq DOMAIN byToken

\* The access token an account section has been given and not yet used.
DrawnBy(f) ==
  IF f.step = "profile" THEN f.auth
  ELSE IF Got(f, "create") THEN f.value ELSE Nothing

\* App knows its session; an account section can only become one.
SessionInv ==
  /\ session \in Known(DOMAIN byToken)
  /\ mount \in 0 .. MaxSessions
  /\ \A s \in Slots : s[1] > mount => ~Busy(s)
  /\ \A m \in 0 .. MaxSessions : Busy(<<m, "account">>) =>
       session = NoSession /\ m = mount /\ mount < MaxSessions
  /\ \A i \in 1 .. Len(searches) : searches[i].mount <= mount

Page ==
  [key : Nat, message : Messages \cup {NoText},
   signature : [key : Nat, message : Messages \cup {NoText}],
   signedMessage : Messages \cup {NoText}, verifyText : Messages \cup {NoText},
   credential : Nat, result : {"none", "valid", "revoked"},
   credentialError : BOOLEAN, minted : Nat, held : Nat, proof : Nat,
   newOwner : Nat, transferError : BOOLEAN]

\* A page that shows an account no more than what is its own.
PageFits(p, n, id) ==
  /\ p \in Page
  /\ n = NoSession => p = EmptyPage
  /\ p.key = n
  /\ p.credential # Nothing => IssuedTo(p.credential, n)
  /\ p.credential = Nothing => p.result = "none"
  /\ p.minted # Nothing => MintedBy(p.minted, n)
  /\ p.held # Nothing => ReceivedBy(p.held, n)
  /\ p.proof # Nothing =>
       \E t \in DOMAIN byId :
         SentBy(p.proof, t, n) /\ OwnedSince(p.proof, t, p.newOwner)
  /\ id \in Known(DOMAIN byId)

PageInv == PageFits(page, session, mintedId)

LEMMA SlotsAre ==
  /\ \A m \in 0 .. MaxSessions, section \in Sections : <<m, section>> \in Slots
  /\ \A s \in Slots :
       s[1] \in 0 .. MaxSessions /\ s[2] \in Sections /\ s = <<s[1], s[2]>>
BY DEF Slots

LEMMA IdleFlowGood == IdleFlow \in Flow /\ \A section : GoodFlow(section, IdleFlow)
<1>1. IdleFlow \in Flow
  BY DEF IdleFlow, Flow, Steps, Nothing, NoSession
<1>2. \A section : GoodFlow(section, IdleFlow)
  BY DEF IdleFlow, GoodFlow, AccountFlow, SignFlow, CredentialFlow, MintFlow,
     TransferFlow, Got
<1> QED
  BY <1>1, <1>2

\* What a handler knows stays true while others are served.
LEMMA KnowledgeKept ==
  ASSUME Grows
  PROVE  /\ \A c, n : IssuedTo(c, n) => IssuedTo(c, n)'
         /\ \A t, n : MintedBy(t, n) => MintedBy(t, n)'
         /\ \A x, t, n : SentBy(x, t, n) => SentBy(x, t, n)'
         /\ \A x, t, n : OwnedSince(x, t, n) => OwnedSince(x, t, n)'
         /\ \A t, n : ReceivedBy(t, n) => ReceivedBy(t, n)'
<1>1. \A c, n : IssuedTo(c, n) => IssuedTo(c, n)'
  BY DEF Grows, IssuedTo
<1>2. \A t, n : MintedBy(t, n) => MintedBy(t, n)'
  BY DEF Grows, MintedBy
<1>3. \A x, t, n : SentBy(x, t, n) => SentBy(x, t, n)'
  BY DEF Grows, SentBy
<1>4. \A x, t, n : OwnedSince(x, t, n) => OwnedSince(x, t, n)'
  BY DEF Grows, OwnedSince
<1>5. \A t, n : ReceivedBy(t, n) => ReceivedBy(t, n)'
  BY <1>4 DEF Grows, ReceivedBy
<1> QED
  BY <1>1, <1>2, <1>3, <1>4, <1>5

LEMMA GoodFlowKept ==
  ASSUME Grows, NEW section, NEW f, GoodFlow(section, f)
  PROVE  GoodFlow(section, f)'
<1>1. AccountFlow(f) => AccountFlow(f)'
  BY DEF Grows, AccountFlow, Got
<1>2. SignFlow(f) => SignFlow(f)'
  BY DEF Grows, SignFlow, Got
<1>3. CredentialFlow(f) => CredentialFlow(f)'
  BY KnowledgeKept DEF Grows, CredentialFlow, Got
<1>4. MintFlow(f) => MintFlow(f)'
  BY KnowledgeKept DEF Grows, MintFlow, Got
<1>5. TransferFlow(f) => TransferFlow(f)'
  BY KnowledgeKept DEF Grows, TransferFlow, Got
<1> QED
  BY <1>1, <1>2, <1>3, <1>4, <1>5 DEF GoodFlow

LEMMA GoodSearchKept ==
  ASSUME Grows, NEW search, GoodSearch(search)
  PROVE  GoodSearch(search)'
BY KnowledgeKept DEF Grows, GoodSearch

\* A step of one handler leaves the others what they rely on.
LEMMA OneFlowChanged ==
  ASSUME FlowInv, Grows, NEW s \in Slots, NEW f \in Flow,
         flow' = [flow EXCEPT ![s] = f], GoodFlow(s[2], f)'
  PROVE  flow' \in [Slots -> Flow] /\ (\A t \in Slots : GoodFlow(t[2], flow[t]))'
<1>1. flow' \in [Slots -> Flow]
  BY DEF FlowInv
<1>2. ASSUME NEW t \in Slots PROVE GoodFlow(t[2], flow[t])'
  <2>1. CASE t = s
    BY <2>1 DEF FlowInv
  <2>2. CASE t # s
    <3>1. PICK g : g = flow[t]
      OBVIOUS
    <3>2. flow'[t] = g
      BY <2>2, <3>1 DEF FlowInv
    <3>3. GoodFlow(t[2], g)'
      BY <3>1, GoodFlowKept DEF FlowInv
    <3> QED
      BY <3>2, <3>3
  <2> QED
    BY <2>1, <2>2
<1> QED
  BY <1>1, <1>2

-----------------------------------------------------------------------------
(* Requests are served *)

LEMMA StoredIds ==
  ASSUME ServiceInv
  PROVE  /\ DOMAIN byToken \subseteq Dids
         /\ DOMAIN creds \subseteq 1 .. MaxCreds
         /\ DOMAIN byId \subseteq TokenIds
         /\ DOMAIN byAddress \subseteq Addresses
<1>1. DOMAIN byToken \subseteq Dids
  BY TokenOfDid
<1>2. AccountsTypeOK /\ CredentialsTypeOK /\ TokensTypeOK
  BY DEF ServiceInv, LedgerInv, TypeInv, TypeOK
<1>3. DOMAIN creds \subseteq 1 .. MaxCreds
  BY <1>2 DEF CredentialsTypeOK
<1>4. DOMAIN byId \subseteq TokenIds
  BY <1>2 DEF TokensTypeOK, TokenIds
<1> QED
  BY <1>1, <1>2, <1>3, <1>4 DEF AccountsTypeOK

\* Of which section a request is, and what it names.
LEMMA RequestNames ==
  ASSUME FlowInv, NEW s \in Slots
  PROVE  LET f == flow[s]
         IN  /\ f \in Flow /\ GoodFlow(s[2], f) /\ s[2] \in Sections
             /\ f.step \in {"available", "create"} =>
                  s[2] \in {"account", "transfer"} /\ f.addr \in ValidAddresses
             /\ f.step = "profile" =>
                  s[2] = "account" /\ f.auth \in DOMAIN byToken
             /\ f.step = "sign" => s[2] = "sign" /\ f.item \in DOMAIN byToken
             /\ f.step \in {"issue", "verify", "revoke"} =>
                  s[2] = "credential" /\ f.auth \in DOMAIN byToken
             /\ f.step \in {"verify", "revoke"} => IssuedTo(f.item, f.auth)
             /\ f.step \in {"mint", "getToken"} =>
                  s[2] = "mint" /\ f.auth \in DOMAIN byToken
             /\ f.step = "getToken" => MintedBy(f.item, f.auth)
             /\ f.step \in {"transact", "fetch", "refresh"} =>
                  /\ s[2] = "transfer" /\ f.auth \in DOMAIN byToken
                  /\ f.item \in DOMAIN byId /\ f.addr \in ValidAddresses
             /\ f.step \in {"fetch", "refresh"} => SentBy(f.tx, f.item, f.auth)
<1>1. flow[s] \in Flow /\ GoodFlow(s[2], flow[s]) /\ s[2] \in Sections
  BY SlotsAre DEF FlowInv
<1>2. CASE s[2] = "account"
  BY <1>1, <1>2 DEF GoodFlow, AccountFlow
<1>3. CASE s[2] = "sign"
  BY <1>1, <1>3 DEF GoodFlow, SignFlow
<1>4. CASE s[2] = "credential"
  BY <1>1, <1>4 DEF GoodFlow, CredentialFlow
<1>5. CASE s[2] = "mint"
  BY <1>1, <1>5 DEF GoodFlow, MintFlow
<1>6. CASE s[2] = "transfer"
  BY <1>1, <1>6 DEF GoodFlow, TransferFlow
<1> QED
  BY <1>1, <1>2, <1>3, <1>4, <1>5, <1>6 DEF Sections

\* The requests of the page are requests of a client of the service.
LEMMA ServeIsRequest ==
  ASSUME ServiceInv, FlowInv, NEW s \in Slots, Serve(s)
  PROVE  Next
<1> DEFINE f == flow[s]
<1>1. /\ \A n \in DOMAIN byToken : n \in 0 .. MaxAccounts
      /\ ValidAddresses \subseteq Addresses
      /\ DOMAIN creds \subseteq 1 .. MaxCreds /\ DOMAIN byId \subseteq TokenIds
  BY StoredIds DEF Dids
<1>2. CASE f.step = "available" /\ CheckAvailability(f.addr)
  BY <1>1, <1>2, RequestNames DEF Next, Read
<1>3. CASE f.step = "profile" /\ KeysSearch(f.auth)
  BY <1>1, <1>3, RequestNames DEF Next, Read
<1>4. CASE f.step = "sign" /\ KeyRequest("keysSign", f.item)
  BY <1>1, <1>4, RequestNames DEF Next, Read
<1>5. CASE f.step = "verify" /\ CredentialVerify(f.item, "active")
  BY <1>1, <1>5, RequestNames DEF Next, Read, IssuedTo
<1>6. CASE f.step \in {"getToken", "fetch"} /\ TokenGet(f.item)
  <2>1. f.item \in TokenIds
    BY <1>1, <1>6, RequestNames DEF MintedBy
  <2> QED
    BY <1>6, <2>1 DEF Next, Read
<1>7. CASE f.step = "create" /\ AccountCreate(f.addr)
  BY <1>1, <1>7, RequestNames DEF Next
<1>8. CASE /\ f.step = "issue"
           /\ CredentialIssue(GetByToken(f.auth).did, NoSubject, TRUE)
  <2>1. GetByToken(f.auth).did \in Holders
    BY <1>8, RequestNames, TokenOfDid
  <2> QED
    BY <1>8, <2>1 DEF Next
<1>9. CASE f.step = "revoke" /\ CredentialRevoke(f.item)
  BY <1>1, <1>9, RequestNames DEF Next, IssuedTo
<1>10. CASE f.step = "mint" /\ TokenMint(f.auth, PropDeed, TRUE)
  BY <1>1, <1>10, RequestNames DEF Next
<1>11. CASE /\ f.step = "transact"
            /\ TokenTransact(f.auth, "transfer", f.item, f.addr)
  BY <1>1, <1>11, RequestNames DEF Next
<1> QED
  BY <1>2, <1>3, <1>4, <1>5, <1>6, <1>7, <1>8, <1>9, <1>10, <1>11 DEF Serve

\* Every other step of the page's world is a request too, or not the service's.
LEMMA WalletStepIsClient ==
  ASSUME ServiceInv, FlowInv, [WalletNext]_walletVars
  PROVE  [Next]_vars
<1>1. \A n \in DOMAIN byToken : n \in 0 .. MaxAccounts
  BY StoredIds DEF Dids
<1>2. UNCHANGED serviceVars => UNCHANGED vars
  BY DEF serviceVars, vars
<1>3. ASSUME NEW s \in Slots, Serve(s) PROVE Next
  BY <1>3, ServeIsRequest
<1>4. ASSUME NEW i \in DOMAIN searches, ServeSearch(i) PROVE Next
  <2>1. TokenSearch(searches[i].auth)
    BY <1>4 DEF ServeSearch
  <2>2. searches[i].auth \in DOMAIN byToken
    BY DEF FlowInv, GoodSearch
  <2> QED
    BY <1>1, <2>1, <2>2 DEF Next, Read
<1>5. ASSUME NEW a \in Recipients, OtherRegisters(a) PROVE Next
  BY <1>5 DEF OtherRegisters, Next
<1>6. ASSUME NEW auth \in theirs, NEW id \in DOMAIN byId,
             NEW to \in DOMAIN byAddress, OtherTransfers(auth, id, to)
      PROVE  Next
  BY <1>1, <1>6, StoredIds DEF OtherTransfers, Next, FlowInv
<1>7. Click => UNCHANGED serviceVars
  BY DEF Click, CreateClick, SignClick, EditMessage, EditVerifyText, Edit,
     CredentialClick, MintClick, TransferClick, StartOver
<1>8. ASSUME NEW s \in Slots, Continue(s) PROVE UNCHANGED serviceVars
  BY <1>8 DEF Continue, CreateFails, CreateContinues, CreateReady, SignFails,
     SignReady, CredentialFails, CredentialContinues, MintFails, MintAccepted,
     MintReady, TransferFails, TransferContinues, TransferReady
<1>9. ASSUME NEW s \in Slots, Lose(s) PROVE UNCHANGED serviceVars
  BY <1>9 DEF Lose
<1>10. ASSUME NEW i, ShowSearch(i) \/ LoseSearch(i) PROVE UNCHANGED serviceVars
  BY <1>10 DEF ShowSearch, LoseSearch
<1>11. UNCHANGED walletVars => UNCHANGED serviceVars
  BY DEF walletVars
<1> QED
  BY <1>2, <1>3, <1>4, <1>5, <1>6, <1>7, <1>8, <1>9, <1>10, <1>11 DEF WalletNext

\* What the four requests that create something have created.
LEMMA RegisteredToken ==
  ASSUME ServiceInv, NEW a \in Addresses, Registered(a)
  PROVE  /\ Len(byToken') \in DOMAIN byToken' /\ Len(byToken') \in Nat
         /\ Len(byToken') \notin DOMAIN byToken
         /\ DOMAIN byToken' = DOMAIN byToken \cup {Len(byToken')}
<1>1. byToken \in Seq(Addresses) /\ byToken' = Append(byToken, a)
  BY DEF ServiceInv, LedgerInv, TypeInv, TypeOK, AccountsTypeOK, Registered,
     CreateAccount
<1> QED
  BY <1>1

LEMMA IssuedIsKnown ==
  ASSUME ServiceInv, NEW n \in DOMAIN byToken, Issued(n, NoSubject),
         NEW c, c = Len(creds')
  PROVE  IssuedTo(c, n)' /\ c \in Nat
<1>1. creds \in Seq(Credential)
  BY DEF ServiceInv, LedgerInv, TypeInv, TypeOK, CredentialsTypeOK
<1>2. PICK credential : creds' = Append(creds, credential) /\ credential.holder = n
  BY DEF Issued, IssueCredential
<1>3. c = Len(creds) + 1 /\ c \in DOMAIN creds' /\ creds'[c].holder = n /\ c \in Nat
  BY <1>1, <1>2
<1> QED
  BY <1>3 DEF IssuedTo

LEMMA MintedIsKnown ==
  ASSUME ServiceInv, [Next]_vars, NEW n \in DOMAIN byToken, NEW class,
         Minted(n, class), NEW t, t = reply'.tokenId
  PROVE  MintedBy(t, n)' /\ t \notin DOMAIN byId /\ t \in Nat
<1>1. TypeInv /\ LedgerInv
  BY DEF ServiceInv, LedgerInv
<1>2. NewId \in DOMAIN byId' \ DOMAIN byId /\ NewId \in Nat
  BY <1>1, MintedToken DEF TokenIds
<1>3. t = NewId
  BY DEF Minted, Accepted, Reply, NewId
<1>4. PICK token, other :
        /\ Minted(token, other)
        /\ TokenTransactions(t)'[1].to = Caller(token)
  BY <1>1, <1>2, <1>3, TokenCreated
<1>5. Caller(n) = n
  BY TokenOfDid DEF Caller
<1>6. Caller(token) = Caller(n)
  <2>1. /\ byId'[NewId] = NewToken(token, other)
        /\ byId'[NewId] = NewToken(n, class)
    BY <1>1, <1>4, MintedToken
  <2> QED
    BY <2>1 DEF NewToken
<1> QED
  BY <1>2, <1>3, <1>4, <1>5, <1>6 DEF MintedBy

LEMMA SentIsKnown ==
  ASSUME ServiceInv, NEW n \in DOMAIN byToken, NEW id, NEW to,
         Transferred(n, id, to), NEW x, x = reply'.txId
  PROVE  SentBy(x, id, n)' /\ x \in Nat
<1>1. txs \in Seq(Transaction)
  BY DEF ServiceInv, LedgerInv, TypeInv, TypeOK, LedgerTypeOK
<1>2. txs' = Append(txs, TransferTx(n, id, to))
  BY TransferRecorded DEF Recorded, BuildLog
<1>3. x = Len(txs) + 1
  BY DEF Transferred, Accepted, Reply
<1>4. Caller(n) = n
  BY TokenOfDid DEF Caller
<1>5. x \in DOMAIN txs' /\ txs'[x] = TransferTx(n, id, to) /\ x \in Nat
  BY <1>1, <1>2, <1>3
<1> QED
  BY <1>4, <1>5 DEF SentBy, TransferTx

\* The owner the service names received the token last.
LEMMA OwnerReceivedLast ==
  ASSUME ServiceInv, NEW t \in DOMAIN byId, NEW x \in DOMAIN txs,
         txs[x].tokenId = t
  PROVE  OwnedSince(x, t, byId[t].owner)
<1>1. LedgerComplete /\ Chained(TokenTransactions(t), byId[t]) /\ t \in TokenIds
  BY StoredIds DEF ServiceInv, LedgerInv, ChainInv
<1>2. TypeInv
  BY DEF ServiceInv, LedgerInv
<1>3. PICK h : h = historyByToken[t]
  OBVIOUS
<1>4. h \in Seq(Nat) /\ Len(TokenTransactions(t)) = Len(h)
  BY <1>1, <1>2, <1>3, HistoryType DEF TypeInv, TypeOK, LedgerTypeOK
<1>5. PICK n : n = Len(h)
  OBVIOUS
<1>6. PICK i \in DOMAIN h : h[i] = x
  BY <1>1, <1>3 DEF LedgerComplete
<1>7. i \in 1 .. n /\ n \in 1 .. n /\ n \in Nat
  BY <1>4, <1>5, <1>6
<1>8. n \in DOMAIN h
  BY <1>4, <1>5, <1>7
<1>9. /\ h[n] \in DOMAIN txs /\ txs[h[n]].tokenId = t
      /\ i < n => h[i] < h[n]
  BY <1>1, <1>3, <1>6, <1>8 DEF LedgerComplete
<1>10. TokenTransactions(t)[n] = txs[h[n]]
  BY <1>3, <1>8 DEF TokenTransactions
<1>11. byId[t].owner = txs[h[n]].to
  BY <1>1, <1>4, <1>5, <1>10 DEF Chained
<1>12. h[n] >= x
  <2>1. h[n] \in Nat /\ h[i] \in Nat
    BY <1>4, <1>6, <1>8
  <2> QED
    BY <1>6, <1>7, <1>9, <2>1
<1> QED
  BY <1>9, <1>11, <1>12 DEF OwnedSince

LEMMA OwnerReceived ==
  ASSUME ServiceInv, NEW t \in DOMAIN byId
  PROVE  ReceivedBy(t, byId[t].owner)
<1>1. LedgerComplete /\ Chained(TokenTransactions(t), byId[t]) /\ t \in TokenIds
  BY StoredIds DEF ServiceInv, LedgerInv, ChainInv
<1>2. TypeInv
  BY DEF ServiceInv, LedgerInv
<1>3. PICK h : h = historyByToken[t]
  OBVIOUS
<1>4. h \in Seq(Nat) /\ Len(h) >= 1
  BY <1>1, <1>2, <1>3, HistoryType DEF TypeInv, TypeOK, LedgerTypeOK, Chained
<1>5. 1 \in DOMAIN h
  BY <1>4
<1>6. PICK x : x = h[1]
  OBVIOUS
<1>7. x \in DOMAIN txs /\ txs[x].tokenId = t
  BY <1>1, <1>3, <1>5, <1>6 DEF LedgerComplete
<1>8. x >= 1 /\ x \in Nat
  <2>1. txs \in Seq(Transaction)
    BY <1>2 DEF TypeInv, TypeOK, LedgerTypeOK
  <2> QED
    BY <1>7, <2>1
<1>9. PICK y \in DOMAIN txs :
        y >= x /\ txs[y].tokenId = t /\ txs[y].to = byId[t].owner
  BY <1>7, OwnerReceivedLast DEF OwnedSince
<1>10. y >= 1
  <2>1. txs \in Seq(Transaction)
    BY <1>2 DEF TypeInv, TypeOK, LedgerTypeOK
  <2> QED
    BY <1>9, <2>1
<1> QED
  BY <1>9, <1>10 DEF ReceivedBy, OwnedSince

Results == {"none", "ok", "refused", "error", "lost"}

AnsweredFlow(f, result, value) ==
  [f EXCEPT !.served = TRUE, !.result = result, !.value = value]

\* An answer fills in three fields of the handler's flow.
LEMMA AnsweredFields ==
  ASSUME NEW f \in Flow, NEW r \in Results, NEW v \in Nat
  PROVE  LET g == AnsweredFlow(f, r, v)
         IN  /\ g \in Flow
             /\ g.served /\ g.result = r /\ g.value = v
             /\ g.step = f.step /\ g.auth = f.auth /\ g.addr = f.addr
             /\ g.item = f.item /\ g.text = f.text /\ g.prefer = f.prefer
             /\ g.tx = f.tx
<1>1. AnsweredFlow(f, r, v) \in Flow
  BY DEF AnsweredFlow, Flow, Results
<1>2. LET g == AnsweredFlow(f, r, v)
      IN  /\ g.served /\ g.result = r /\ g.value = v
          /\ g.step = f.step /\ g.auth = f.auth /\ g.addr = f.addr
          /\ g.item = f.item /\ g.text = f.text /\ g.prefer = f.prefer
          /\ g.tx = f.tx
  BY DEF AnsweredFlow, Flow
<1> QED
  BY <1>1, <1>2

\* What an answer tells a handler.
Told(section, f, v) ==
  /\ f.step = "create" /\ section = "account" => v \in DOMAIN byToken'
  /\ f.step = "profile" => v = f.auth
  /\ f.step = "sign" => v = f.item
  /\ f.step = "issue" => IssuedTo(v, f.auth)'
  /\ f.step = "mint" => MintedBy(v, f.auth)'
  /\ f.step = "transact" => SentBy(v, f.item, f.auth)'
  /\ f.step = "fetch" => OwnedSince(f.tx, f.item, v)'

LEMMA AnswerGood ==
  ASSUME Grows, NEW section \in Sections, NEW f \in Flow, GoodFlow(section, f),
         NEW r \in Results, NEW v \in Nat, r = "ok" => Told(section, f, v),
         f.step # "refresh", NEW g, g = AnsweredFlow(f, r, v)
  PROVE  GoodFlow(section, g)'
<1>2. /\ g \in Flow
      /\ g.served /\ g.result = r /\ g.value = v
      /\ g.step = f.step /\ g.auth = f.auth /\ g.addr = f.addr
      /\ g.item = f.item /\ g.text = f.text /\ g.prefer = f.prefer
      /\ g.tx = f.tx
  BY AnsweredFields
<1>3. GoodFlow(section, f)'
  BY GoodFlowKept
<1>4. section = "account" => AccountFlow(g)'
  BY <1>2, <1>3 DEF GoodFlow, AccountFlow, Got, Told
<1>5. section = "sign" => SignFlow(g)'
  BY <1>2, <1>3 DEF GoodFlow, SignFlow, Got, Told
<1>6. section = "credential" => CredentialFlow(g)'
  BY <1>2, <1>3 DEF GoodFlow, CredentialFlow, Got, Told
<1>7. section = "mint" => MintFlow(g)'
  BY <1>2, <1>3 DEF GoodFlow, MintFlow, Got, Told
<1>8. section = "transfer" => TransferFlow(g)'
  BY <1>2, <1>3 DEF GoodFlow, TransferFlow, Got, Told
<1> QED
  BY <1>4, <1>5, <1>6, <1>7, <1>8 DEF GoodFlow

LEMMA ResultIs == \A answer : Result(answer) \in Results
BY DEF Result, Results

LEMMA OneIsNat ==
  ASSUME ServiceInv'
  PROVE  /\ One(reply'.found) \in Nat /\ reply'.tokenId \in Nat
         /\ reply'.txId \in Nat
<1>1. reply' \in Replies
  BY DEF ServiceInv, LedgerInv, TypeInv, TypeOK
<1>2. reply'.found \in SUBSET Nat /\ reply'.tokenId \in Nat /\ reply'.txId \in Nat
  BY <1>1 DEF Replies
<1>3. One(reply'.found) \in Nat
  BY <1>2 DEF One, Nothing
<1> QED
  BY <1>2, <1>3

\* Serving a request answers it, with what its handler will rely on.
LEMMA ServeTells ==
  ASSUME ServiceInv, ServiceInv', FlowInv, [Next]_vars, Grows, NEW s \in Slots,
         Serve(s), NEW f, f = flow[s]
  PROVE  \E r \in Results, v \in Nat :
           Served(s, r, v) /\ (r = "ok" => Told(s[2], f, v))
<1>1. PICK r : r = Result(reply')
  OBVIOUS
<1>2. r \in Results
  BY <1>1, ResultIs
<1> DEFINE Goal == \E v \in Nat :
                     Served(s, r, v) /\ (r = "ok" => Told(s[2], f, v))
<1>3. ASSUME f.step \in {"available", "verify", "getToken"},
             Served(s, r, One(reply'.found))
      PROVE  Goal
  BY <1>3, OneIsNat DEF Told
<1>4. ASSUME f.step = "profile", KeysSearch(f.auth),
             Served(s, r, One(reply'.found))
      PROVE  Goal
  <2>1. r = "ok" => One(reply'.found) = f.auth
    BY <1>1, <1>4, RequestNames, KeysAnswer
  <2> QED
    BY <1>4, <2>1, OneIsNat DEF Told
<1>5. ASSUME f.step = "sign", KeyRequest("keysSign", f.item),
             Served(s, r, One(reply'.found))
      PROVE  Goal
  <2>1. r = "ok" => One(reply'.found) = f.item
    BY <1>1, <1>5, RequestNames, SignAnswer
  <2> QED
    BY <1>5, <2>1, OneIsNat DEF Told
<1>6. ASSUME f.step = "fetch", TokenGet(f.item), Served(s, r, One(reply'.found))
      PROVE  Goal
  <2>1. f.item \in DOMAIN byId /\ SentBy(f.tx, f.item, f.auth)
    BY <1>6, RequestNames
  <2>2. PICK v : v = One(reply'.found)
    OBVIOUS
  <2>3. r = "ok" => v = byId[f.item].owner
    BY <1>1, <1>6, <2>1, <2>2, TokenAnswer
  <2>4. OwnedSince(f.tx, f.item, byId[f.item].owner)
    BY <2>1, OwnerReceivedLast DEF SentBy
  <2>5. r = "ok" => OwnedSince(f.tx, f.item, v)
    BY <2>3, <2>4
  <2>6. r = "ok" => OwnedSince(f.tx, f.item, v)'
    BY <2>5, KnowledgeKept
  <2> QED
    BY <1>6, <2>2, <2>6, OneIsNat DEF Told
<1>7. ASSUME f.step = "create", AccountCreate(f.addr), Served(s, r, Len(byToken'))
      PROVE  Goal
  <2>1. f.addr \in Addresses
    BY <1>7, RequestNames
  <2>2. r = "ok" => Len(byToken') \in DOMAIN byToken'
    BY <1>1, <1>7, <2>1, CreateAnswer, RegisteredToken
  <2>3. Len(byToken') \in Nat
    BY DEF ServiceInv, LedgerInv, TypeInv, TypeOK, AccountsTypeOK
  <2> QED
    BY <1>7, <2>2, <2>3 DEF Told
<1>8. ASSUME f.step = "issue",
             CredentialIssue(GetByToken(f.auth).did, NoSubject, TRUE),
             Served(s, r, Len(creds'))
      PROVE  Goal
  <2>1. f.auth \in DOMAIN byToken /\ GetByToken(f.auth).did = f.auth
    BY <1>8, RequestNames, TokenOfDid
  <2>2. PICK v : v = Len(creds')
    OBVIOUS
  <2>3. r = "ok" => IssuedTo(v, f.auth)'
    BY <1>1, <1>8, <2>1, <2>2, IssueAnswer, IssuedIsKnown
  <2>4. v \in Nat
    BY <2>2 DEF ServiceInv, LedgerInv, TypeInv, TypeOK, CredentialsTypeOK
  <2> QED
    BY <1>8, <2>2, <2>3, <2>4 DEF Told
<1>9. ASSUME f.step = "revoke", Served(s, r, Nothing) PROVE Goal
  BY <1>9 DEF Told, Nothing
<1>10. ASSUME f.step = "mint", TokenMint(f.auth, PropDeed, TRUE),
              Served(s, r, reply'.tokenId)
       PROVE  Goal
  <2>1. f.auth \in DOMAIN byToken
    BY <1>10, RequestNames
  <2>2. PICK v : v = reply'.tokenId
    OBVIOUS
  <2>3. r = "ok" => MintedBy(v, f.auth)'
    BY <1>1, <1>10, <2>1, <2>2, MintAnswer, MintedIsKnown
  <2> QED
    BY <1>10, <2>2, <2>3, OneIsNat DEF Told
<1>11. ASSUME f.step = "transact",
              TokenTransact(f.auth, "transfer", f.item, f.addr),
              Served(s, r, reply'.txId)
       PROVE  Goal
  <2>1. f.auth \in DOMAIN byToken
    BY <1>11, RequestNames
  <2>2. PICK v : v = reply'.txId
    OBVIOUS
  <2>3. r = "ok" => SentBy(v, f.item, f.auth)'
    BY <1>1, <1>11, <2>1, <2>2, TransactAnswer, SentIsKnown
  <2> QED
    BY <1>11, <2>2, <2>3, OneIsNat DEF Told
<1> HIDE DEF Goal
<1>12. Goal
  BY <1>1, <1>3, <1>4, <1>5, <1>6, <1>7, <1>8, <1>9, <1>10, <1>11, Zenon
     DEF Serve
<1> QED
  BY <1>2, <1>12 DEF Goal

LEMMA ServeAnswers ==
  ASSUME ServiceInv, ServiceInv', FlowInv, [Next]_vars, Grows, NEW s \in Slots,
         Serve(s)
  PROVE  \E r \in Results, v \in Nat, g \in Flow :
           /\ g = AnsweredFlow(flow[s], r, v)
           /\ flow' = [flow EXCEPT ![s] = g]
           /\ GoodFlow(s[2], g)'
           /\ r = "ok" => Told(s[2], flow[s], v)
<1> PICK f : f = flow[s]
  OBVIOUS
<1>1. f \in Flow /\ GoodFlow(s[2], f) /\ s[2] \in Sections
  BY RequestNames
<1>2. PICK r \in Results, v \in Nat :
        Served(s, r, v) /\ (r = "ok" => Told(s[2], f, v))
  BY ServeTells
<1>3. PICK g : g = AnsweredFlow(f, r, v)
  OBVIOUS
<1>a. f.step # "refresh"
  BY DEF Serve
<1>4. g \in Flow /\ GoodFlow(s[2], g)'
  BY <1>1, <1>2, <1>3, <1>a, AnsweredFields, AnswerGood
<1>5. flow' = [flow EXCEPT ![s] = g]
  BY <1>2, <1>3 DEF Served, AnsweredFlow
<1> QED
  BY <1>2, <1>3, <1>4, <1>5

-----------------------------------------------------------------------------
(* What a handler does at each of its steps *)

\* The sections whose requests carry the access token.
Acting == {"credential", "mint", "transfer"}

\* The token a mint section is about to report to App.
MintedIn(f) ==
  IF f.step = "getToken" THEN f.item
  ELSE IF Got(f, "mint") THEN f.value ELSE Nothing

\* A handler is started by a click in the mounted section, in App's session.
Starts(s, g) ==
  /\ ~Busy(s) /\ s[1] = mount /\ g.step \notin {"idle", "refresh"} /\ ~g.served
  /\ IF s[2] = "account"
       THEN session = NoSession /\ mount < MaxSessions /\ g.step = "available"
       ELSE /\ session # NoSession
            /\ s[2] \in Acting => g.auth = session
            /\ s[2] = "sign" => g.item = session
            /\ s[2] = "mint" => g.step = "mint"

\* It goes on for the account it was started for.  What it learns of, it was
\* told of by the service just now.
Proceeds(s, g) ==
  /\ Busy(s) /\ g.step # "idle"
  /\ s[2] # "account" => g.auth = flow[s].auth
  /\ s[2] = "sign" => g.item = flow[s].item
  /\ DrawnBy(g) \in {Nothing, DrawnBy(flow[s])} \cup (DOMAIN byToken' \ DOMAIN byToken)
  /\ MintedIn(g) \in {Nothing, MintedIn(flow[s])} \cup (DOMAIN byId' \ DOMAIN byId)

GoesOn(s, g) ==
  Proceeds(s, g) /\ (g.step = "refresh" <=> flow[s].step = "refresh")

\* It comes to its end; that of a transfer, without a refresh, in an error.
Ends(s, g) ==
  /\ g = IdleFlow /\ flow[s].step # "refresh"
  /\ s[2] = "transfer" => TransferFails(s)

\* A step of the handler of a slot and of no other.
HandlerStep(s, g) ==
  /\ flow' = [flow EXCEPT ![s] = g]
  /\ g \in Flow
  /\ GoodFlow(s[2], g)'
  /\ Starts(s, g) \/ GoesOn(s, g) \/ Ends(s, g)

\* The step of a handler, a refresh begun or ended included.
FlowStep(s, g) ==
  /\ flow' = [flow EXCEPT ![s] = g]
  /\ g \in Flow
  /\ GoodFlow(s[2], g)'
  /\ Starts(s, g) \/ Proceeds(s, g) \/ g = IdleFlow

LEMMA HandlerFlows == \A s, g : HandlerStep(s, g) => FlowStep(s, g)
BY DEF HandlerStep, FlowStep, GoesOn, Ends

LEMMA RequestFields ==
  ASSUME NEW call \in Flow, NEW step \in Steps
  PROVE  LET g == Request(call, step)
         IN  /\ g \in Flow
             /\ g.step = step /\ ~g.served
             /\ g.auth = call.auth /\ g.addr = call.addr /\ g.item = call.item
             /\ g.text = call.text /\ g.prefer = call.prefer /\ g.tx = call.tx
<1>1. Request(call, step) \in Flow
  BY DEF Request, Flow, Nothing
<1>2. LET g == Request(call, step)
      IN  /\ g.step = step /\ ~g.served
          /\ g.auth = call.auth /\ g.addr = call.addr /\ g.item = call.item
          /\ g.text = call.text /\ g.prefer = call.prefer /\ g.tx = call.tx
  BY DEF Request, Flow
<1> QED
  BY <1>1, <1>2

\* A request that has not been answered says nothing.
LEMMA RequestSays ==
  ASSUME NEW g, ~g.served
  PROVE  /\ \A step : ~Got(g, step)
         /\ DrawnBy(g) = IF g.step = "profile" THEN g.auth ELSE Nothing
         /\ MintedIn(g) = IF g.step = "getToken" THEN g.item ELSE Nothing
BY DEF Got, DrawnBy, MintedIn

LEMMA IdleAgain ==
  ASSUME FlowInv, NEW s \in Slots, End(s), flow[s].step # "refresh",
         s[2] # "transfer" \/ TransferFails(s)
  PROVE  HandlerStep(s, IdleFlow)
<1>1. GoodFlow(s[2], IdleFlow)'
  BY DEF IdleFlow, GoodFlow, AccountFlow, SignFlow, CredentialFlow, MintFlow,
     TransferFlow, Got
<1> QED
  BY <1>1, IdleFlowGood DEF HandlerStep, Ends, End

LEMMA ServedNotRefresh ==
  ASSUME FlowInv, NEW s \in Slots, flow[s].served
  PROVE  flow[s].step # "refresh"
<1>1. GoodFlow(s[2], flow[s])
  BY DEF FlowInv
<1>2. flow[s].step = "refresh" => s[2] = "transfer"
  BY RequestNames
<1> QED
  BY <1>1, <1>2 DEF GoodFlow, TransferFlow

\* Sections fail and finish; their handlers end.
LEMMA EndSteps ==
  ASSUME FlowInv, NEW s \in Slots,
         \/ /\ s[2] # "transfer"
            /\ \/ CreateFails(s) \/ CreateReady(s) \/ SignFails(s) \/ SignReady(s)
               \/ CredentialFails(s) \/ MintFails(s) \/ MintReady(s)
         \/ TransferFails(s)
  PROVE  HandlerStep(s, IdleFlow)
<1>1. flow[s].served /\ End(s)
  BY DEF CreateFails, CreateReady, SignFails, SignReady, CredentialFails,
     MintFails, MintReady, TransferFails, Answered
<1> QED
  BY <1>1, ServedNotRefresh, IdleAgain

\* The page's own steps leave the service alone.
LEMMA SameKnowledge ==
  ASSUME UNCHANGED serviceVars
  PROVE  /\ Grows
         /\ UNCHANGED <<byToken, creds, byId, txs, historyByToken, byKeyId, clock>>
<1>1. UNCHANGED <<storeVars, clock>>
  BY DEF serviceVars
<1> QED
  BY <1>1, StaysSame DEF storeVars, accountVars, ledgerVars, tokenVars

LEMMA CreateStarts ==
  ASSUME FlowInv, SessionInv, NEW a \in OwnAddresses, CreateClick(a),
         NEW s \in Slots, s = Slot("account")
  PROVE  \E g : HandlerStep(s, g)
<1>1. PICK call : call = [IdleFlow EXCEPT !.addr = a]
  OBVIOUS
<1>2. call \in Flow /\ call.addr \in ValidAddresses
  BY <1>1, IdleFlowGood DEF Flow
<1>3. PICK g : g = Request(call, "available")
  OBVIOUS
<1>4. g \in Flow /\ g.step = "available" /\ ~g.served /\ g.addr \in ValidAddresses
  BY <1>2, <1>3, RequestFields DEF Steps
<1>5. GoodFlow("account", g)'
  BY <1>4 DEF GoodFlow, AccountFlow, Got
<1>6. flow' = [flow EXCEPT ![s] = g]
  BY <1>1, <1>3 DEF CreateClick, Send
<1>7. s[1] = mount /\ s[2] = "account"
  BY DEF Slot
<1>8. Starts(s, g)
  BY <1>4, <1>7 DEF CreateClick, Starts
<1> QED
  BY <1>4, <1>5, <1>6, <1>7, <1>8 DEF HandlerStep

LEMMA SignStarts ==
  ASSUME FlowInv, SessionInv, PageInv, SignClick,
         NEW s \in Slots, s = Slot("sign")
  PROVE  \E g : HandlerStep(s, g)
<1>1. PICK call : call = [IdleFlow EXCEPT !.item = page.key, !.text = page.message]
  OBVIOUS
<1>2. call \in Flow /\ call.item = session /\ session \in DOMAIN byToken
  BY <1>1, IdleFlowGood DEF Flow, PageInv, PageFits, Page, SessionInv, Known, SignClick,
     NoSession, Nothing
<1>3. PICK g : g = Request(call, "sign")
  OBVIOUS
<1>4. g \in Flow /\ g.step = "sign" /\ ~g.served /\ g.item = session
  BY <1>2, <1>3, RequestFields DEF Steps
<1>5. GoodFlow("sign", g)'
  <2>1. GoodFlow("sign", g)
    BY <1>2, <1>4 DEF GoodFlow, SignFlow, Got
  <2> QED
    BY <2>1, SameKnowledge, GoodFlowKept DEF SignClick
<1>6. flow' = [flow EXCEPT ![s] = g]
  BY <1>1, <1>3 DEF SignClick, Send
<1>7. s[1] = mount /\ s[2] = "sign"
  BY DEF Slot
<1>8. Starts(s, g)
  BY <1>4, <1>7 DEF SignClick, Starts, Acting
<1> QED
  BY <1>4, <1>5, <1>6, <1>7, <1>8 DEF HandlerStep

LEMMA CredentialStarts ==
  ASSUME FlowInv, SessionInv, PageInv, NEW step \in {"issue", "verify", "revoke"},
         CredentialClick(step), NEW s \in Slots, s = Slot("credential")
  PROVE  \E g : /\ HandlerStep(s, g)
                /\ Starts(s, g)
                /\ g.step = step /\ ~g.served /\ g.item = page.credential
<1>1. PICK call :
        call = [IdleFlow EXCEPT !.auth = session, !.item = page.credential]
  OBVIOUS
<1>2. session \in DOMAIN byToken /\ session \in Nat
  <2>1. session \in DOMAIN byToken
    BY DEF SessionInv, Known, CredentialClick, NoSession, Nothing
  <2> QED
    BY <2>1 DEF CredentialClick, SessionInv, PageInv, PageFits, Page
<1>3. call \in Flow /\ call.auth = session /\ call.item = page.credential
  BY <1>1, <1>2, IdleFlowGood DEF Flow, PageInv, PageFits, Page
<1>4. PICK g : g = Request(call, step)
  OBVIOUS
<1>5. /\ g \in Flow /\ g.step = step /\ ~g.served /\ g.auth = session
      /\ g.item = page.credential
  BY <1>3, <1>4, RequestFields DEF Steps
<1>6. step \in {"verify", "revoke"} => IssuedTo(page.credential, session)
  BY DEF CredentialClick, PageInv, PageFits
<1>7. GoodFlow("credential", g)'
  <2>1. GoodFlow("credential", g)
    BY <1>2, <1>5, <1>6 DEF GoodFlow, CredentialFlow, Got
  <2> QED
    BY <2>1, SameKnowledge, GoodFlowKept DEF CredentialClick
<1>8. flow' = [flow EXCEPT ![s] = g]
  BY <1>1, <1>4 DEF CredentialClick, Send
<1>9. s[1] = mount /\ s[2] = "credential"
  BY DEF Slot
<1>10. Starts(s, g)
  BY <1>5, <1>9 DEF CredentialClick, Starts, Acting
<1> QED
  BY <1>5, <1>7, <1>8, <1>9, <1>10 DEF HandlerStep

LEMMA MintStarts ==
  ASSUME FlowInv, SessionInv, PageInv, MintClick,
         NEW s \in Slots, s = Slot("mint")
  PROVE  \E g : HandlerStep(s, g)
<1>1. PICK call : call = [IdleFlow EXCEPT !.auth = session]
  OBVIOUS
<1>2. session \in DOMAIN byToken /\ session \in Nat
  <2>1. session \in DOMAIN byToken
    BY DEF SessionInv, Known, MintClick, NoSession, Nothing
  <2> QED
    BY <2>1 DEF PageInv, PageFits, Page
<1>3. call \in Flow /\ call.auth = session
  BY <1>1, <1>2, IdleFlowGood DEF Flow
<1>4. PICK g : g = Request(call, "mint")
  OBVIOUS
<1>5. g \in Flow /\ g.step = "mint" /\ ~g.served /\ g.auth = session
  BY <1>3, <1>4, RequestFields DEF Steps
<1>6. GoodFlow("mint", g)'
  <2>1. GoodFlow("mint", g)
    BY <1>2, <1>5 DEF GoodFlow, MintFlow, Got
  <2> QED
    BY <2>1, SameKnowledge, GoodFlowKept DEF MintClick
<1>7. flow' = [flow EXCEPT ![s] = g]
  BY <1>1, <1>4 DEF MintClick, Send
<1>8. s[1] = mount /\ s[2] = "mint"
  BY DEF Slot
<1>9. Starts(s, g)
  BY <1>5, <1>8 DEF MintClick, Starts, Acting
<1> QED
  BY <1>5, <1>6, <1>7, <1>8, <1>9 DEF HandlerStep

LEMMA TransferStarts ==
  ASSUME ServiceInv, FlowInv, SessionInv, PageInv, NEW to \in Recipients,
         TransferClick(to), NEW s \in Slots, s = Slot("transfer")
  PROVE  \E g : /\ HandlerStep(s, g)
                /\ Starts(s, g)
                /\ g.step = "available"
<1>1. PICK call :
        call = [IdleFlow EXCEPT !.auth = session, !.addr = to,
                                !.item = page.held, !.prefer = mintedId]
  OBVIOUS
<1>2. session \in DOMAIN byToken /\ session \in Nat
  <2>1. session \in DOMAIN byToken
    BY DEF SessionInv, Known, TransferClick, NoSession, Nothing
  <2> QED
    BY <2>1 DEF PageInv, PageFits, Page
<1>3. page.held \in DOMAIN byId
  BY DEF TransferClick, PageInv, PageFits, ReceivedBy
<1>4. mintedId \in Nat
  <2>1. \A t \in DOMAIN byId : t \in Nat
    BY StoredIds DEF TokenIds
  <2> QED
    BY <2>1 DEF PageInv, PageFits, Known, Nothing
<1>5. /\ call \in Flow /\ call.auth = session /\ call.item = page.held
      /\ call.addr \in ValidAddresses
  BY <1>1, <1>2, <1>4, IdleFlowGood DEF Flow, PageInv, PageFits, Page
<1>6. PICK g : g = Request(call, "available")
  OBVIOUS
<1>7. /\ g \in Flow /\ g.step = "available" /\ ~g.served /\ g.auth = session
      /\ g.item = page.held /\ g.addr \in ValidAddresses
  BY <1>5, <1>6, RequestFields DEF Steps
<1>8. GoodFlow("transfer", g)'
  <2>1. GoodFlow("transfer", g)
    BY <1>2, <1>3, <1>7 DEF GoodFlow, TransferFlow, Got
  <2> QED
    BY <2>1, SameKnowledge, GoodFlowKept DEF TransferClick
<1>9. flow' = [flow EXCEPT ![s] = g]
  BY <1>1, <1>6 DEF TransferClick, Send
<1>10. s[1] = mount /\ s[2] = "transfer"
  BY DEF Slot
<1>11. Starts(s, g)
  BY <1>7, <1>10 DEF TransferClick, Starts, Acting
<1> QED
  BY <1>7, <1>8, <1>9, <1>10, <1>11 DEF HandlerStep

LEMMA CreateGoesOn ==
  ASSUME FlowInv, NEW s \in Slots, s[2] = "account", CreateContinues(s)
  PROVE  \E g : HandlerStep(s, g)
<1> PICK f : f = flow[s]
  OBVIOUS
<1>1. f \in Flow /\ GoodFlow(s[2], f)
  BY RequestNames
<1>2. CASE Got(f, "available") /\ Send(s, f, "create")
  <2>1. PICK g : g = Request(f, "create")
    OBVIOUS
  <2>2. g \in Flow /\ g.step = "create" /\ ~g.served /\ g.addr = f.addr
    BY <1>1, <2>1, RequestFields DEF Steps
  <2>3. GoodFlow(s[2], g)
    BY <1>1, <1>2, <2>2 DEF GoodFlow, AccountFlow, Got
  <2>4. GoesOn(s, g)
    BY <1>2, <2>2, RequestSays DEF GoesOn, Proceeds, Busy, Got
  <2>5. GoodFlow(s[2], g)'
    BY <2>3, SameKnowledge, GoodFlowKept DEF CreateContinues
  <2> QED
    BY <1>2, <2>1, <2>2, <2>4, <2>5 DEF HandlerStep, Send
<1>3. CASE Got(f, "create") /\ Send(s, [f EXCEPT !.auth = f.value], "profile")
  <2>1. PICK call : call = [f EXCEPT !.auth = f.value]
    OBVIOUS
  <2>2. call \in Flow /\ call.auth = f.value /\ call.addr = f.addr
    BY <1>1, <2>1 DEF Flow
  <2>3. PICK g : g = Request(call, "profile")
    OBVIOUS
  <2>4. /\ g \in Flow /\ g.step = "profile" /\ ~g.served /\ g.addr = f.addr
        /\ g.auth = f.value
    BY <2>2, <2>3, RequestFields DEF Steps
  <2>5. GoodFlow(s[2], g)
    BY <1>1, <1>3, <2>4 DEF GoodFlow, AccountFlow, Got
  <2>6. DrawnBy(g) = DrawnBy(f)
    BY <1>3, <2>4 DEF DrawnBy, Got
  <2>7. GoesOn(s, g)
    BY <1>3, <2>4, <2>6, RequestSays DEF GoesOn, Proceeds, Busy, Got
  <2>8. GoodFlow(s[2], g)'
    BY <2>5, SameKnowledge, GoodFlowKept DEF CreateContinues
  <2> QED
    BY <1>3, <2>1, <2>3, <2>4, <2>7, <2>8 DEF HandlerStep, Send
<1> QED
  BY <1>2, <1>3 DEF CreateContinues, Succeeded, Answered, Got

LEMMA CredentialGoesOn ==
  ASSUME FlowInv, NEW s \in Slots, s[2] = "credential", CredentialContinues(s)
  PROVE  \E g : HandlerStep(s, g)
<1> PICK f : f = flow[s]
  OBVIOUS
<1>1. f \in Flow /\ GoodFlow(s[2], f)
  BY RequestNames
<1>2. CASE Got(f, "issue") /\ Send(s, [f EXCEPT !.item = f.value], "verify")
  <2>1. PICK call : call = [f EXCEPT !.item = f.value]
    OBVIOUS
  <2>2. call \in Flow /\ call.auth = f.auth /\ call.item = f.value
    BY <1>1, <2>1 DEF Flow
  <2>3. PICK g : g = Request(call, "verify")
    OBVIOUS
  <2>4. /\ g \in Flow /\ g.step = "verify" /\ ~g.served /\ g.auth = f.auth
        /\ g.item = f.value
    BY <2>2, <2>3, RequestFields DEF Steps
  <2>5. GoodFlow(s[2], g)
    BY <1>1, <1>2, <2>4 DEF GoodFlow, CredentialFlow, Got
  <2>6. GoesOn(s, g)
    BY <1>2, <2>4, RequestSays DEF GoesOn, Proceeds, Busy, Got
  <2>7. GoodFlow(s[2], g)'
    BY <2>5, SameKnowledge, GoodFlowKept DEF CredentialContinues
  <2> QED
    BY <1>2, <2>1, <2>3, <2>4, <2>6, <2>7 DEF HandlerStep, Send
<1>3. CASE Got(f, "revoke") /\ Send(s, f, "verify")
  <2>1. PICK g : g = Request(f, "verify")
    OBVIOUS
  <2>2. /\ g \in Flow /\ g.step = "verify" /\ ~g.served /\ g.auth = f.auth
        /\ g.item = f.item
    BY <1>1, <2>1, RequestFields DEF Steps
  <2>3. GoodFlow(s[2], g)
    BY <1>1, <1>3, <2>2 DEF GoodFlow, CredentialFlow, Got
  <2>4. GoesOn(s, g)
    BY <1>3, <2>2, RequestSays DEF GoesOn, Proceeds, Busy, Got
  <2>5. GoodFlow(s[2], g)'
    BY <2>3, SameKnowledge, GoodFlowKept DEF CredentialContinues
  <2> QED
    BY <1>3, <2>1, <2>2, <2>4, <2>5 DEF HandlerStep, Send
<1>4. CASE End(s) /\ f.served
  BY <1>4, ServedNotRefresh, IdleAgain
<1> QED
  BY <1>2, <1>3, <1>4 DEF CredentialContinues, Succeeded, Answered, Got

LEMMA MintGoesOn ==
  ASSUME FlowInv, NEW s \in Slots, s[2] = "mint", MintAccepted(s)
  PROVE  \E g : HandlerStep(s, g)
<1> PICK f : f = flow[s]
  OBVIOUS
<1>1. f \in Flow /\ GoodFlow(s[2], f) /\ Got(f, "mint")
  BY RequestNames DEF MintAccepted, Succeeded, Answered, Got
<1>2. PICK call : call = [f EXCEPT !.item = f.value]
  OBVIOUS
<1>3. call \in Flow /\ call.auth = f.auth /\ call.item = f.value
  BY <1>1, <1>2 DEF Flow
<1>4. PICK g : g = Request(call, "getToken")
  OBVIOUS
<1>5. /\ g \in Flow /\ g.step = "getToken" /\ ~g.served /\ g.auth = f.auth
      /\ g.item = f.value
  BY <1>3, <1>4, RequestFields DEF Steps
<1>6. GoodFlow(s[2], g)
  BY <1>1, <1>5 DEF GoodFlow, MintFlow, Got
<1>7. MintedIn(g) = MintedIn(f)
  BY <1>1, <1>5 DEF MintedIn, Got
<1>8. GoesOn(s, g)
  BY <1>1, <1>5, <1>7, RequestSays DEF GoesOn, Proceeds, Busy, Got
<1>9. GoodFlow(s[2], g)'
  BY <1>6, SameKnowledge, GoodFlowKept DEF MintAccepted
<1> QED
  BY <1>2, <1>4, <1>5, <1>8, <1>9 DEF HandlerStep, Send, MintAccepted

LEMMA TransferGoesOn ==
  ASSUME FlowInv, NEW s \in Slots, s[2] = "transfer", TransferContinues(s)
  PROVE  \E g : HandlerStep(s, g) /\ GoesOn(s, g)
                /\ g.step \in {"create", "transact", "fetch"}
<1> PICK f : f = flow[s]
  OBVIOUS
<1>1. f \in Flow /\ GoodFlow(s[2], f)
  BY RequestNames
<1>2. CASE /\ Got(f, "available") \/ Got(f, "create")
           /\ Send(s, f, "create") \/ Send(s, f, "transact")
  <2>1. PICK step \in {"create", "transact"} : Send(s, f, step)
    BY <1>2
  <2>2. PICK g : g = Request(f, step)
    OBVIOUS
  <2>3. /\ g \in Flow /\ g.step = step /\ ~g.served /\ g.auth = f.auth
        /\ g.item = f.item /\ g.addr = f.addr
    BY <1>1, <2>2, RequestFields DEF Steps
  <2>4. GoodFlow(s[2], g)
    BY <1>1, <1>2, <2>3 DEF GoodFlow, TransferFlow, Got
  <2>5. GoesOn(s, g)
    BY <1>2, <2>3, RequestSays DEF GoesOn, Proceeds, Busy, Got
  <2>6. GoodFlow(s[2], g)'
    BY <2>4, SameKnowledge, GoodFlowKept DEF TransferContinues
  <2> QED
    BY <2>1, <2>2, <2>3, <2>5, <2>6 DEF HandlerStep, Send
<1>3. CASE Got(f, "transact") /\ Send(s, [f EXCEPT !.tx = f.value], "fetch")
  <2>1. PICK call : call = [f EXCEPT !.tx = f.value]
    OBVIOUS
  <2>2. /\ call \in Flow /\ call.auth = f.auth /\ call.item = f.item
        /\ call.addr = f.addr /\ call.tx = f.value
    BY <1>1, <2>1 DEF Flow
  <2>3. PICK g : g = Request(call, "fetch")
    OBVIOUS
  <2>4. /\ g \in Flow /\ g.step = "fetch" /\ ~g.served /\ g.auth = f.auth
        /\ g.item = f.item /\ g.addr = f.addr /\ g.tx = f.value
    BY <2>2, <2>3, RequestFields DEF Steps
  <2>5. GoodFlow(s[2], g)
    BY <1>1, <1>3, <2>4 DEF GoodFlow, TransferFlow, Got
  <2>6. GoesOn(s, g)
    BY <1>3, <2>4, RequestSays DEF GoesOn, Proceeds, Busy, Got
  <2>7. GoodFlow(s[2], g)'
    BY <2>5, SameKnowledge, GoodFlowKept DEF TransferContinues
  <2> QED
    BY <1>3, <2>1, <2>3, <2>4, <2>6, <2>7 DEF HandlerStep, Send
<1> QED
  BY <1>2, <1>3 DEF TransferContinues, Succeeded, Answered, Got

\* The one step that begins a refresh.
LEMMA TransferRefreshes ==
  ASSUME FlowInv, NEW s \in Slots, s[2] = "transfer", TransferReady(s)
  PROVE  \E g \in Flow :
           /\ flow' = [flow EXCEPT ![s] = g]
           /\ GoodFlow(s[2], g)'
           /\ g.step = "refresh" /\ ~g.served /\ g.auth = flow[s].auth
<1> PICK f : f = flow[s]
  OBVIOUS
<1>1. f \in Flow /\ GoodFlow(s[2], f) /\ Got(f, "fetch")
  BY RequestNames DEF TransferReady, Succeeded, Answered, Got
<1>2. PICK g : g = Request(f, "refresh")
  OBVIOUS
<1>3. /\ g \in Flow /\ g.step = "refresh" /\ ~g.served /\ g.auth = f.auth
      /\ g.item = f.item /\ g.addr = f.addr /\ g.tx = f.tx
  BY <1>1, <1>2, RequestFields DEF Steps
<1>4. GoodFlow(s[2], g)
  BY <1>1, <1>3 DEF GoodFlow, TransferFlow, Got
<1>5. GoodFlow(s[2], g)'
  BY <1>4, SameKnowledge, GoodFlowKept DEF TransferReady
<1>6. flow' = [flow EXCEPT ![s] = g]
  BY <1>2 DEF TransferReady, Send
<1> QED
  BY <1>3, <1>5, <1>6

LEMMA LoseGoesOn ==
  ASSUME FlowInv, NEW s \in Slots, Lose(s)
  PROVE  \E g : HandlerStep(s, g) /\ GoesOn(s, g) /\ g.step = flow[s].step
                /\ g.result = "lost"
<1> PICK f : f = flow[s]
  OBVIOUS
<1>1. f \in Flow /\ GoodFlow(s[2], f) /\ s[2] \in Sections
  BY RequestNames
<1>2. PICK g : g = AnsweredFlow(f, "lost", Nothing)
  OBVIOUS
<1>a. "lost" \in Results /\ Nothing \in Nat
  BY DEF Results, Nothing
<1>3. /\ g \in Flow /\ g.step = f.step /\ g.result = "lost" /\ g.auth = f.auth
      /\ g.item = f.item
  BY <1>1, <1>2, <1>a, AnsweredFields
<1>4. GoodFlow(s[2], g)'
  BY <1>1, <1>2, <1>a, SameKnowledge, AnswerGood DEF Lose
<1>5. DrawnBy(g) \in {Nothing, DrawnBy(f)} /\ MintedIn(g) \in {Nothing, MintedIn(f)}
  BY <1>3 DEF DrawnBy, MintedIn, Got
<1>6. GoesOn(s, g)
  BY <1>3, <1>5 DEF GoesOn, Proceeds, Lose, Busy
<1>7. flow' = [flow EXCEPT ![s] = g]
  BY <1>2 DEF Lose, Served, AnsweredFlow
<1> QED
  BY <1>3, <1>4, <1>6, <1>7 DEF HandlerStep

\* A served handler goes on; an account or a token it learns of is a new one.
LEMMA ServeNews ==
  ASSUME ServiceInv, FlowInv, [Next]_vars, NEW s \in Slots, Serve(s),
         NEW r, NEW v, Served(s, r, v), r = "ok"
  PROVE  /\ flow[s].step = "create" => v \in DOMAIN byToken' \ DOMAIN byToken
         /\ flow[s].step = "mint" => v \in DOMAIN byId' \ DOMAIN byId
<1> PICK f : f = flow[s]
  OBVIOUS
<1>1. f \in Flow
  BY RequestNames
<1>2. flow'[s] = [f EXCEPT !.served = TRUE, !.result = r, !.value = v]
  BY DEF Served, FlowInv
<1>3. flow'[s].result = r /\ flow'[s].value = v
  BY <1>1, <1>2 DEF Flow
<1>4. ASSUME NEW q, NEW w, Served(s, q, w) PROVE q = r /\ w = v
  <2>1. flow'[s] = [f EXCEPT !.served = TRUE, !.result = q, !.value = w]
    BY <1>4 DEF Served, FlowInv
  <2>2. flow'[s].result = q /\ flow'[s].value = w
    BY <1>1, <2>1 DEF Flow
  <2> QED
    BY <1>3, <2>2
<1>5. ASSUME f.step = "create" PROVE v \in DOMAIN byToken' \ DOMAIN byToken
  <2>1. f.addr \in Addresses
    BY <1>5, RequestNames
  <2>2. AccountCreate(f.addr) /\ Served(s, Result(reply'), Len(byToken'))
    BY <1>5 DEF Serve
  <2>3. v = Len(byToken') /\ Result(reply') = "ok"
    BY <1>4, <2>2
  <2>4. Registered(f.addr)
    BY <2>2, <2>3, CreateAnswer
  <2> QED
    BY <2>1, <2>3, <2>4, RegisteredToken
<1>6. ASSUME f.step = "mint" PROVE v \in DOMAIN byId' \ DOMAIN byId
  <2>1. f.auth \in DOMAIN byToken
    BY <1>6, RequestNames
  <2>2. TokenMint(f.auth, PropDeed, TRUE) /\ Served(s, Result(reply'), reply'.tokenId)
    BY <1>6 DEF Serve
  <2>3. v = reply'.tokenId /\ Result(reply') = "ok"
    BY <1>4, <2>2
  <2>4. Minted(f.auth, PropDeed)
    BY <2>2, <2>3, MintAnswer
  <2>5. MintedBy(v, f.auth)' /\ v \notin DOMAIN byId
    BY <2>1, <2>3, <2>4, MintedIsKnown
  <2> QED
    BY <2>5 DEF MintedBy
<1> QED
  BY <1>5, <1>6

LEMMA ServeGoesOn ==
  ASSUME ServiceInv, ServiceInv', FlowInv, [Next]_vars, Grows, NEW s \in Slots,
         Serve(s)
  PROVE  \E g : /\ HandlerStep(s, g) /\ GoesOn(s, g) /\ g.served
                /\ g.step = flow[s].step /\ g.item = flow[s].item
<1> PICK f : f = flow[s]
  OBVIOUS
<1>1. PICK r \in Results, v \in Nat, g \in Flow :
        /\ g = AnsweredFlow(f, r, v)
        /\ flow' = [flow EXCEPT ![s] = g]
        /\ GoodFlow(s[2], g)'
  BY ServeAnswers
<1>2. /\ g.served /\ g.result = r /\ g.value = v /\ g.step = f.step
      /\ g.auth = f.auth /\ g.item = f.item
  BY <1>1, RequestNames, AnsweredFields
<1>3. Served(s, r, v)
  BY <1>1 DEF Served, AnsweredFlow
<1>4. /\ r = "ok" /\ f.step = "create" => v \in DOMAIN byToken' \ DOMAIN byToken
      /\ r = "ok" /\ f.step = "mint" => v \in DOMAIN byId' \ DOMAIN byId
  BY <1>3, ServeNews
<1>5. DrawnBy(g) \in {Nothing, DrawnBy(f)} \cup (DOMAIN byToken' \ DOMAIN byToken)
  BY <1>2, <1>4 DEF DrawnBy, Got
<1>6. MintedIn(g) \in {Nothing, MintedIn(f)} \cup (DOMAIN byId' \ DOMAIN byId)
  BY <1>2, <1>4 DEF MintedIn, Got
<1>7. Busy(s)
  BY DEF Serve, Busy
<1>8. GoesOn(s, g)
  BY <1>2, <1>5, <1>6, <1>7 DEF GoesOn, Proceeds, Busy
<1> QED
  BY <1>1, <1>2, <1>8 DEF HandlerStep

LEMMA TransferReadyFlows ==
  ASSUME FlowInv, NEW s \in Slots, s[2] = "transfer", TransferReady(s)
  PROVE  \E g : FlowStep(s, g) /\ g.step = "refresh" /\ g.auth = flow[s].auth
<1>1. PICK g \in Flow : /\ flow' = [flow EXCEPT ![s] = g]
                        /\ GoodFlow(s[2], g)'
                        /\ g.step = "refresh" /\ ~g.served /\ g.auth = flow[s].auth
  BY TransferRefreshes
<1>2. Proceeds(s, g)
  BY <1>1, RequestSays DEF Proceeds, Busy, TransferReady, Answered
<1> QED
  BY <1>1, <1>2 DEF FlowStep

LEMMA ShowSearchFlows ==
  ASSUME FlowInv, SessionInv, NEW i \in 1 .. Len(searches), ShowSearch(i)
  PROVE  UNCHANGED flow \/ \E s \in Slots : FlowStep(s, IdleFlow)
<1>1. searches[i] \in InFlight /\ searches[i].mount <= mount
  BY DEF FlowInv, SessionInv
<1>2. PICK s : s = <<searches[i].mount, "transfer">>
  OBVIOUS
<1>3. s \in Slots
  <2>1. searches[i].mount \in Nat
    BY <1>1 DEF InFlight
  <2> QED
    BY <1>1, <1>2, <2>1 DEF Slots, Sections, SessionInv
<1>4. GoodFlow(s[2], IdleFlow)'
  BY DEF IdleFlow, GoodFlow, AccountFlow, SignFlow, CredentialFlow, MintFlow,
     TransferFlow, Got
<1>5. UNCHANGED flow \/ flow' = [flow EXCEPT ![s] = IdleFlow]
  BY <1>2 DEF ShowSearch, End
<1> QED
  BY <1>3, <1>4, <1>5, IdleFlowGood DEF FlowStep

-----------------------------------------------------------------------------
(* Every step of the page's world, seen from the handlers *)

StepAssumed ==
  /\ ServiceInv /\ ServiceInv' /\ FlowInv /\ SessionInv /\ PageInv
  /\ [Next]_vars /\ Grows

LEMMA SlotIsSlot ==
  ASSUME SessionInv, NEW section \in Sections
  PROVE  Slot(section) \in Slots
BY SlotsAre DEF SessionInv, Slot

LEMMA ClickTurns ==
  ASSUME FlowInv, SessionInv, PageInv, ServiceInv, Click
  PROVE  UNCHANGED flow \/ \E s \in Slots : \E g : HandlerStep(s, g)
<1>1. ASSUME NEW a \in OwnAddresses, CreateClick(a)
      PROVE  \E s \in Slots : \E g : HandlerStep(s, g)
  <2>1. PICK s : s = Slot("account")
    OBVIOUS
  <2>2. s \in Slots
    BY <2>1, SlotIsSlot DEF Sections
  <2> QED
    BY <1>1, <2>1, <2>2, CreateStarts
<1>2. ASSUME SignClick PROVE \E s \in Slots : \E g : HandlerStep(s, g)
  <2>1. PICK s : s = Slot("sign")
    OBVIOUS
  <2>2. s \in Slots
    BY <2>1, SlotIsSlot DEF Sections
  <2> QED
    BY <1>2, <2>1, <2>2, SignStarts
<1>3. ASSUME NEW step \in {"issue", "verify", "revoke"}, CredentialClick(step)
      PROVE  \E s \in Slots : \E g : HandlerStep(s, g)
  <2>1. PICK s : s = Slot("credential")
    OBVIOUS
  <2>2. s \in Slots
    BY <2>1, SlotIsSlot DEF Sections
  <2> QED
    BY <1>3, <2>1, <2>2, CredentialStarts
<1>4. ASSUME MintClick PROVE \E s \in Slots : \E g : HandlerStep(s, g)
  <2>1. PICK s : s = Slot("mint")
    OBVIOUS
  <2>2. s \in Slots
    BY <2>1, SlotIsSlot DEF Sections
  <2> QED
    BY <1>4, <2>1, <2>2, MintStarts
<1>5. ASSUME NEW to \in Recipients, TransferClick(to)
      PROVE  \E s \in Slots : \E g : HandlerStep(s, g)
  <2>1. PICK s : s = Slot("transfer")
    OBVIOUS
  <2>2. s \in Slots
    BY <2>1, SlotIsSlot DEF Sections
  <2> QED
    BY <1>5, <2>1, <2>2, TransferStarts
<1>6. ASSUME NEW text, EditMessage(text) \/ EditVerifyText(text)
      PROVE  UNCHANGED flow
  BY <1>6 DEF EditMessage, EditVerifyText, Edit
<1>7. StartOver => UNCHANGED flow
  BY DEF StartOver
<1> QED
  BY <1>1, <1>2, <1>3, <1>4, <1>5, <1>6, <1>7 DEF Click

LEMMA ContinueTurns ==
  ASSUME FlowInv, NEW s \in Slots, Continue(s)
  PROVE  \/ \E g : HandlerStep(s, g)
         \/ s[2] = "transfer" /\ TransferReady(s)
<1>1. CASE \/ /\ s[2] # "transfer"
              /\ \/ CreateFails(s) \/ CreateReady(s) \/ SignFails(s) \/ SignReady(s)
                 \/ CredentialFails(s) \/ MintFails(s) \/ MintReady(s)
           \/ TransferFails(s)
  BY <1>1, EndSteps
<1>2. CASE s[2] = "account" /\ CreateContinues(s)
  BY <1>2, CreateGoesOn
<1>3. CASE s[2] = "credential" /\ CredentialContinues(s)
  BY <1>3, CredentialGoesOn
<1>4. CASE s[2] = "mint" /\ MintAccepted(s)
  BY <1>4, MintGoesOn
<1>5. CASE s[2] = "transfer" /\ TransferContinues(s)
  BY <1>5, TransferGoesOn
<1> QED
  BY <1>1, <1>2, <1>3, <1>4, <1>5 DEF Continue

LEMMA ContinueFlows ==
  ASSUME FlowInv, NEW s \in Slots, Continue(s)
  PROVE  \E g : FlowStep(s, g)
BY ContinueTurns, TransferReadyFlows, HandlerFlows

\* Every step is that of one handler, begins or ends a refresh, or leaves the
\* handlers alone.
LEMMA HandlersTurn ==
  ASSUME StepAssumed, [WalletNext]_walletVars
  PROVE  \/ UNCHANGED flow
         \/ \E s \in Slots : \E g : HandlerStep(s, g)
         \/ \E s \in Slots : s[2] = "transfer" /\ TransferReady(s)
         \/ \E i \in 1 .. Len(searches) : ShowSearch(i)
<1> USE DEF StepAssumed
<1>1. ASSUME NEW s \in Slots, Serve(s) PROVE \E g : HandlerStep(s, g)
  BY <1>1, ServeGoesOn
<1>2. ASSUME NEW s \in Slots, Lose(s) PROVE \E g : HandlerStep(s, g)
  BY <1>2, LoseGoesOn
<1>3. ASSUME NEW i \in DOMAIN searches,
             ServeSearch(i) \/ ShowSearch(i) \/ LoseSearch(i)
      PROVE  UNCHANGED flow \/ \E k \in 1 .. Len(searches) : ShowSearch(k)
  <2>1. i \in 1 .. Len(searches)
    BY DEF FlowInv
  <2>2. ServeSearch(i) \/ LoseSearch(i) => UNCHANGED flow
    BY DEF ServeSearch, LoseSearch
  <2> QED
    BY <1>3, <2>1, <2>2
<1>4. ASSUME NEW a, OtherRegisters(a) PROVE UNCHANGED flow
  BY <1>4 DEF OtherRegisters
<1>5. ASSUME NEW auth, NEW id, NEW to, OtherTransfers(auth, id, to)
      PROVE  UNCHANGED flow
  BY <1>5 DEF OtherTransfers
<1>6. UNCHANGED walletVars => UNCHANGED flow
  BY DEF walletVars
<1> QED
  BY <1>1, <1>2, <1>3, <1>4, <1>5, <1>6, ClickTurns, ContinueTurns DEF WalletNext

LEMMA FlowMoves ==
  ASSUME StepAssumed, [WalletNext]_walletVars
  PROVE  UNCHANGED flow \/ \E s \in Slots : \E g : FlowStep(s, g)
<1>1. FlowInv /\ SessionInv
  BY DEF StepAssumed
<1> QED
  BY <1>1, HandlersTurn, TransferReadyFlows, ShowSearchFlows, HandlerFlows

\* Only the two handlers of App change its session.
LEMMA SessionMoves ==
  ASSUME [WalletNext]_walletVars
  PROVE  \/ UNCHANGED <<session, mount>>
         \/ StartOver
         \/ \E s \in Slots : s[2] = "account" /\ CreateReady(s)
<1>1. Click => UNCHANGED <<session, mount>> \/ StartOver
  BY DEF Click, CreateClick, SignClick, EditMessage, EditVerifyText, Edit,
     CredentialClick, MintClick, TransferClick, appVars
<1>2. ASSUME NEW s \in Slots, Continue(s)
      PROVE  UNCHANGED <<session, mount>> \/ (s[2] = "account" /\ CreateReady(s))
  BY <1>2 DEF Continue, CreateFails, CreateContinues, SignFails, SignReady,
     CredentialFails, CredentialContinues, MintFails, MintAccepted, MintReady,
     TransferFails, TransferContinues, TransferReady, appVars
<1>3. ASSUME NEW s, Serve(s) \/ Lose(s) PROVE UNCHANGED <<session, mount>>
  BY <1>3 DEF Serve, Lose, appVars
<1>4. ASSUME NEW i, ServeSearch(i) \/ ShowSearch(i) \/ LoseSearch(i)
      PROVE  UNCHANGED <<session, mount>>
  BY <1>4 DEF ServeSearch, ShowSearch, LoseSearch, appVars
<1>5. ASSUME NEW a, OtherRegisters(a) PROVE UNCHANGED <<session, mount>>
  BY <1>5 DEF OtherRegisters, appVars
<1>6. ASSUME NEW auth, NEW id, NEW to, OtherTransfers(auth, id, to)
      PROVE  UNCHANGED <<session, mount>>
  BY <1>6 DEF OtherTransfers, appVars
<1>7. UNCHANGED walletVars => UNCHANGED <<session, mount>>
  BY DEF walletVars, appVars
<1> QED
  BY <1>1, <1>2, <1>3, <1>4, <1>5, <1>6, <1>7 DEF WalletNext

-----------------------------------------------------------------------------
(* The searches in flight *)

\* Where a search stood before the i-th was answered.
Before(i, j) == IF j < i THEN j ELSE j + 1

LEMMA RemovedAt ==
  ASSUME NEW q \in Seq(InFlight), NEW i \in 1 .. Len(q), NEW r, r = RemoveAt(q, i)
  PROVE  /\ r \in Seq(InFlight) /\ Len(r) = Len(q) - 1
         /\ \A j \in 1 .. Len(r) :
              Before(i, j) \in 1 .. Len(q) /\ r[j] = q[Before(i, j)]
<1>1. PICK a : a = SubSeq(q, 1, i - 1)
  OBVIOUS
<1>2. PICK b : b = SubSeq(q, i + 1, Len(q))
  OBVIOUS
<1>3. r = a \o b
  BY <1>1, <1>2 DEF RemoveAt
<1>4. a \in Seq(InFlight) /\ Len(a) = i - 1 /\ \A j \in 1 .. i - 1 : a[j] = q[j]
  BY <1>1
<1>5. /\ b \in Seq(InFlight) /\ Len(b) = Len(q) - i
      /\ \A j \in 1 .. Len(q) - i : b[j] = q[i + j]
  BY <1>2
<1>6. r \in Seq(InFlight) /\ Len(r) = Len(q) - 1
  <2>1. a \in Seq(InFlight) /\ b \in Seq(InFlight)
    BY <1>4, <1>5
  <2>2. r \in Seq(InFlight) /\ Len(r) = Len(a) + Len(b)
    BY <1>3, <2>1
  <2>3. Len(r) = i - 1 + Len(q) - i
    BY <1>4, <1>5, <2>2
  <2>4. Len(q) \in Nat /\ i \in Int
    OBVIOUS
  <2> QED
    BY <2>2, <2>3, <2>4
<1>7. ASSUME NEW j \in 1 .. Len(r)
      PROVE  Before(i, j) \in 1 .. Len(q) /\ r[j] = q[Before(i, j)]
  <2>1. CASE j < i
    BY <1>3, <1>4, <1>5, <1>6, <2>1 DEF Before
  <2>2. CASE j >= i
    BY <1>3, <1>4, <1>5, <1>6, <2>2 DEF Before
  <2> QED
    BY <1>6, <2>1, <2>2
<1> QED
  BY <1>6, <1>7

LEMMA WithoutAre ==
  ASSUME FlowInv, NEW i \in 1 .. Len(searches), NEW r, r = Without(i)
  PROVE  /\ r \in Seq(InFlight) /\ Len(r) = Len(searches) - 1
         /\ \A j \in 1 .. Len(r) :
              /\ Before(i, j) \in 1 .. Len(searches)
              /\ r[j] = IF /\ Before(i, j) < i
                           /\ searches[Before(i, j)].mount = searches[i].mount
                          THEN [searches[Before(i, j)] EXCEPT !.fate = "late"]
                          ELSE searches[Before(i, j)]
<1>1. searches \in Seq(InFlight)
  BY DEF FlowInv
<1> DEFINE Now(j) == IF j < i /\ searches[j].mount = searches[i].mount
                       THEN [searches[j] EXCEPT !.fate = "late"] ELSE searches[j]
<1>2. PICK q : q = [j \in DOMAIN searches |-> Now(j)]
  OBVIOUS
<1>3. \A j \in 1 .. Len(searches) : Now(j) \in InFlight
  <2> SUFFICES ASSUME NEW j \in 1 .. Len(searches) PROVE Now(j) \in InFlight
    OBVIOUS
  <2>1. searches[j] \in InFlight
    BY <1>1
  <2>2. [searches[j] EXCEPT !.fate = "late"] \in InFlight
    BY <2>1 DEF InFlight
  <2> QED
    BY <2>1, <2>2
<1>4. PICK n \in Nat : n = Len(searches) /\ DOMAIN searches = 1 .. n
  BY <1>1
<1> HIDE DEF Now
<1>5. q = [j \in 1 .. n |-> Now(j)] /\ \A j \in 1 .. n : Now(j) \in InFlight
  BY <1>2, <1>3, <1>4
<1>6. q \in Seq(InFlight) /\ Len(q) = n /\ \A j \in 1 .. n : q[j] = Now(j)
  BY <1>5
<1>7. r = RemoveAt(q, i)
  BY <1>2 DEF Now, Without
<1>8. i \in 1 .. Len(q)
  BY <1>4, <1>6
<1>9. /\ r \in Seq(InFlight) /\ Len(r) = Len(q) - 1
      /\ \A j \in 1 .. Len(r) :
           Before(i, j) \in 1 .. Len(q) /\ r[j] = q[Before(i, j)]
  <2>1. q \in Seq(InFlight)
    BY <1>6
  <2> QED
    BY <2>1, <1>7, <1>8, RemovedAt
<1>10. \A k \in 1 .. Len(searches) :
         q[k] = IF k < i /\ searches[k].mount = searches[i].mount
                  THEN [searches[k] EXCEPT !.fate = "late"] ELSE searches[k]
  BY <1>4, <1>6 DEF Now
<1>11. Len(q) = Len(searches)
  BY <1>4, <1>6
<1> QED
  BY <1>9, <1>10, <1>11

\* What is mounted belongs to the session.
OwnInv ==
  session # NoSession =>
    /\ \A section \in Acting :
         Busy(Slot(section)) => flow[Slot(section)].auth = session
    /\ Busy(Slot("sign")) => flow[Slot("sign")].item = session
    /\ \A i \in 1 .. Len(searches) :
         searches[i].mount = mount => searches[i].auth = session

\* A search is sent for the session that is, or by a handler of its mount.
Sent(q) ==
  /\ searches' = Append(searches, q)
  /\ q \in InFlight
  /\ GoodSearch(q)'
  /\ ~q.served /\ q.held = Nothing /\ q.fate = "fresh"
  /\ q.mount <= mount'
  /\ session' # NoSession /\ q.mount = mount' => q.auth = session'

Changed(i, q) ==
  /\ searches' = [searches EXCEPT ![i] = q]
  /\ q \in InFlight
  /\ GoodSearch(q)'
  /\ q.served
  /\ q.mount = searches[i].mount /\ q.auth = searches[i].auth
  /\ q.transfer = searches[i].transfer

LEMMA SearchGood ==
  ASSUME NEW q, q.auth \in DOMAIN byToken, q.held = Nothing, Grows
  PROVE  GoodSearch(q)'
<1>1. GoodSearch(q)
  BY DEF GoodSearch
<1> QED
  BY <1>1, GoodSearchKept

LEMMA KnownAreNat ==
  ASSUME ServiceInv
  PROVE  /\ DOMAIN byToken \subseteq Nat \ {0} /\ DOMAIN byId \subseteq Nat \ {0}
         /\ DOMAIN creds \subseteq Nat \ {0} /\ DOMAIN txs \subseteq Nat \ {0}
<1>1. /\ DOMAIN byToken \subseteq Nat \ {0} /\ DOMAIN byId \subseteq Nat \ {0}
      /\ DOMAIN creds \subseteq Nat \ {0}
  BY StoredIds DEF Dids, TokenIds
<1>2. DOMAIN txs \subseteq Nat \ {0}
  BY DEF ServiceInv, LedgerInv, TypeInv, TypeOK, LedgerTypeOK
<1> QED
  BY <1>1, <1>2

LEMMA CreateReadySends ==
  ASSUME StepAssumed, NEW s \in Slots, s[2] = "account", CreateReady(s)
  PROVE  \E q : Sent(q) /\ ~q.transfer /\ q.mount = mount'
<1> USE DEF StepAssumed
<1>1. flow[s].auth \in DOMAIN byToken
  BY RequestNames DEF CreateReady, Answered
<1>2. flow[s].auth \in Nat /\ mintedId \in Nat /\ mount + 1 \in Nat
  BY <1>1, KnownAreNat DEF PageInv, PageFits, Known, Nothing, SessionInv
<1>3. PICK q : q = Search(flow[s].auth, mount + 1, mintedId, FALSE)
  OBVIOUS
<1>4. /\ q \in InFlight /\ q.auth = flow[s].auth /\ q.mount = mount + 1
      /\ ~q.transfer /\ ~q.served /\ q.held = Nothing /\ q.fate = "fresh"
  BY <1>2, <1>3 DEF Search, InFlight, Nothing
<1>5. GoodSearch(q)'
  BY <1>1, <1>4, SearchGood
<1>6. /\ searches' = Append(searches, q) /\ session' = q.auth
      /\ mount' = q.mount /\ mount' \in Nat
  BY <1>2, <1>3, <1>4 DEF CreateReady
<1> QED
  BY <1>4, <1>5, <1>6 DEF Sent

LEMMA MintReadySends ==
  ASSUME StepAssumed, NEW s \in Slots, s[2] = "mint", MintReady(s)
  PROVE  \/ UNCHANGED searches
         \/ \E q : Sent(q) /\ ~q.transfer /\ q.mount = mount'
<1> USE DEF StepAssumed
<1>1. flow[s].item \in DOMAIN byId
  BY RequestNames DEF MintReady, Answered, MintedBy
<1>2. CASE session # NoSession /\ mintedId # flow[s].item
  <2>1. session \in DOMAIN byToken
    BY <1>2 DEF SessionInv, Known, NoSession, Nothing
  <2>2. session \in Nat /\ mount \in Nat /\ flow[s].item \in Nat
    BY <1>1, <2>1, KnownAreNat DEF SessionInv
  <2>3. PICK q : q = Search(session, mount, flow[s].item, FALSE)
    OBVIOUS
  <2>4. /\ q \in InFlight /\ q.auth = session /\ q.mount = mount
        /\ ~q.transfer /\ ~q.served /\ q.held = Nothing /\ q.fate = "fresh"
    BY <2>2, <2>3 DEF Search, InFlight, Nothing
  <2>5. GoodSearch(q)'
    BY <2>1, <2>4, SearchGood
  <2>6. searches' = Append(searches, q) /\ session' = session /\ mount' = mount
    BY <1>2, <2>3 DEF MintReady
  <2> QED
    BY <2>2, <2>4, <2>5, <2>6 DEF Sent
<1>3. CASE ~(session # NoSession /\ mintedId # flow[s].item)
  BY <1>3 DEF MintReady
<1> QED
  BY <1>2, <1>3

LEMMA TransferReadySends ==
  ASSUME StepAssumed, OwnInv, NEW s \in Slots, s[2] = "transfer", TransferReady(s)
  PROVE  \E q : Sent(q) /\ q.transfer /\ q.mount = s[1]
<1> USE DEF StepAssumed
<1>1. flow[s].auth \in DOMAIN byToken /\ flow[s] \in Flow
  BY RequestNames DEF TransferReady, Answered
<1>2. flow[s].auth \in Nat /\ flow[s].prefer \in Nat /\ s[1] \in Nat
  BY <1>1, KnownAreNat, SlotsAre DEF Flow
<1>3. PICK q : q = Search(flow[s].auth, s[1], flow[s].prefer, TRUE)
  OBVIOUS
<1>4. /\ q \in InFlight /\ q.auth = flow[s].auth /\ q.mount = s[1]
      /\ q.transfer /\ ~q.served /\ q.held = Nothing /\ q.fate = "fresh"
  BY <1>2, <1>3 DEF Search, InFlight, Nothing
<1>5. GoodSearch(q)'
  BY <1>1, <1>4, SearchGood
<1>6. Busy(s)
  BY DEF TransferReady, Answered, Busy
<1>7. s[1] <= mount
  BY <1>2, <1>6 DEF SessionInv
<1>8. session # NoSession /\ s[1] = mount => flow[s].auth = session
  <2> SUFFICES ASSUME session # NoSession, s[1] = mount PROVE flow[s].auth = session
    OBVIOUS
  <2>1. s = Slot("transfer")
    BY SlotsAre DEF Slot
  <2> QED
    BY <1>6, <2>1 DEF OwnInv, Acting
<1> QED
  BY <1>3, <1>4, <1>5, <1>7, <1>8 DEF TransferReady, Sent

\* The search finds a token that is the account's, or none if it has none.
SearchFinds(q, id) ==
  IF id = Nothing THEN \A t \in DOMAIN byId : byId[t].owner # q.auth
  ELSE id \in DOMAIN byId /\ byId[id].owner = q.auth

LEMMA ServeSearchChanges ==
  ASSUME StepAssumed, NEW i \in 1 .. Len(searches), ServeSearch(i)
  PROVE  \E q : /\ Changed(i, q) /\ q.fate = searches[i].fate
                /\ SearchFinds(searches[i], q.held)
                /\ Unserved
<1> USE DEF StepAssumed
<1>1. PICK old : old = searches[i]
  OBVIOUS
<1>2. old \in InFlight /\ GoodSearch(old)
  BY <1>1 DEF FlowInv
<1>3. PICK n : n = old.auth
  OBVIOUS
<1>4. n \in DOMAIN byToken
  BY <1>2, <1>3 DEF GoodSearch
<1>5. TokenSearch(n)
  BY <1>1, <1>3 DEF ServeSearch
<1>6. reply'.found = {t \in DOMAIN byId : byId[t].owner = n} /\ Unserved
  BY <1>4, <1>5, SearchAnswer
<1>7. PICK owned : owned = {t \in DOMAIN byId : byId[t].owner = n}
  OBVIOUS
<1>8. PICK id :
        /\ id \in owned \/ (id = Nothing /\ owned = {})
        /\ searches' = [searches EXCEPT ![i].served = TRUE, ![i].held = id]
  BY <1>6, <1>7, Zenon DEF ServeSearch
<1>9. PICK q : q = [old EXCEPT !.served = TRUE, !.held = id]
  OBVIOUS
<1>10. id \in Nat
  BY <1>7, <1>8, KnownAreNat DEF Nothing
<1>11. /\ q \in InFlight /\ q.served /\ q.held = id /\ q.fate = old.fate
       /\ q.mount = old.mount /\ q.auth = n /\ q.transfer = old.transfer
  BY <1>2, <1>3, <1>9, <1>10 DEF InFlight
<1>12. searches' = [searches EXCEPT ![i] = q]
  BY <1>1, <1>8, <1>9 DEF FlowInv
<1>13. id # Nothing => ReceivedBy(id, n)
  BY <1>7, <1>8, OwnerReceived
<1>14. GoodSearch(q)'
  <2>1. GoodSearch(q)
    BY <1>4, <1>11, <1>13 DEF GoodSearch
  <2> QED
    BY <2>1, GoodSearchKept
<1>15. SearchFinds(old, id)
  <2>1. id \in owned => id # Nothing
    BY <1>7, KnownAreNat DEF Nothing
  <2> QED
    BY <1>3, <1>7, <1>8, <2>1 DEF SearchFinds
<1> QED
  BY <1>1, <1>3, <1>6, <1>11, <1>12, <1>14, <1>15 DEF Changed

LEMMA LoseSearchChanges ==
  ASSUME StepAssumed, NEW i \in 1 .. Len(searches), LoseSearch(i)
  PROVE  \E q : Changed(i, q) /\ q.fate = "lost" /\ q.held = Nothing
<1> USE DEF StepAssumed
<1>1. PICK old : old = searches[i]
  OBVIOUS
<1>2. old \in InFlight /\ GoodSearch(old)
  BY <1>1 DEF FlowInv
<1>3. PICK q : q = [old EXCEPT !.served = TRUE, !.held = Nothing, !.fate = "lost"]
  OBVIOUS
<1>4. /\ q \in InFlight /\ q.served /\ q.held = Nothing /\ q.fate = "lost"
      /\ q.mount = old.mount /\ q.auth = old.auth /\ q.transfer = old.transfer
  BY <1>2, <1>3 DEF InFlight, Nothing
<1>5. searches' = [searches EXCEPT ![i] = q]
  BY <1>1, <1>3 DEF LoseSearch, FlowInv
<1>6. GoodSearch(q)'
  <2>1. GoodSearch(q)
    BY <1>2, <1>4 DEF GoodSearch
  <2> QED
    BY <2>1, GoodSearchKept
<1> QED
  BY <1>1, <1>4, <1>5, <1>6 DEF Changed

\* A search is answered, or its request fails.
Settles(i, q) ==
  /\ Changed(i, q)
  /\ \/ q.fate = "lost" /\ q.held = Nothing
     \/ /\ q.fate = searches[i].fate
        /\ SearchFinds(searches[i], q.held)
        /\ Unserved

LEMMA SearchTurns ==
  ASSUME StepAssumed, [WalletNext]_walletVars
  PROVE  \/ UNCHANGED searches
         \/ \E q : Sent(q) /\ ~q.transfer /\ q.mount = mount'
         \/ \E s \in Slots : s[2] = "transfer" /\ TransferReady(s)
         \/ \E i \in 1 .. Len(searches) : \E q : Settles(i, q)
         \/ \E i \in 1 .. Len(searches) : ShowSearch(i)
<1>1. Click => UNCHANGED searches
  BY DEF Click, CreateClick, SignClick, EditMessage, EditVerifyText, Edit,
     CredentialClick, MintClick, TransferClick, StartOver
<1>2. ASSUME NEW s \in Slots, Continue(s)
      PROVE  \/ UNCHANGED searches
             \/ \E q : Sent(q) /\ ~q.transfer /\ q.mount = mount'
             \/ s[2] = "transfer" /\ TransferReady(s)
  <2>1. CASE s[2] = "account" /\ CreateReady(s)
    BY <2>1, CreateReadySends
  <2>2. CASE s[2] = "mint" /\ MintReady(s)
    BY <2>2, MintReadySends
  <2>3. \/ CreateFails(s) \/ CreateContinues(s) \/ SignFails(s) \/ SignReady(s)
        \/ CredentialFails(s) \/ CredentialContinues(s) \/ MintFails(s)
        \/ MintAccepted(s) \/ TransferFails(s) \/ TransferContinues(s)
        => UNCHANGED searches
    BY DEF CreateFails, CreateContinues, SignFails, SignReady, CredentialFails,
       CredentialContinues, MintFails, MintAccepted, TransferFails,
       TransferContinues
  <2> QED
    BY <1>2, <2>1, <2>2, <2>3 DEF Continue
<1>3. ASSUME NEW s, Serve(s) \/ Lose(s) PROVE UNCHANGED searches
  BY <1>3 DEF Serve, Lose
<1>4. ASSUME NEW i \in DOMAIN searches,
             ServeSearch(i) \/ ShowSearch(i) \/ LoseSearch(i)
      PROVE  \/ \E k \in 1 .. Len(searches) : \E q : Settles(k, q)
             \/ \E k \in 1 .. Len(searches) : ShowSearch(k)
  <2>1. i \in 1 .. Len(searches)
    BY DEF StepAssumed, FlowInv
  <2>2. ServeSearch(i) => \E q : Settles(i, q)
    BY <2>1, ServeSearchChanges DEF Settles
  <2>3. LoseSearch(i) => \E q : Settles(i, q)
    BY <2>1, LoseSearchChanges DEF Settles
  <2> QED
    BY <1>4, <2>1, <2>2, <2>3
<1>5. ASSUME NEW a, OtherRegisters(a) PROVE UNCHANGED searches
  BY <1>5 DEF OtherRegisters
<1>6. ASSUME NEW auth, NEW id, NEW to, OtherTransfers(auth, id, to)
      PROVE  UNCHANGED searches
  BY <1>6 DEF OtherTransfers
<1>7. UNCHANGED walletVars => UNCHANGED searches
  BY DEF walletVars
<1> QED
  BY <1>1, <1>2, <1>3, <1>4, <1>5, <1>6, <1>7 DEF WalletNext

LEMMA SearchMoves ==
  ASSUME StepAssumed, OwnInv, [WalletNext]_walletVars
  PROVE  \/ UNCHANGED searches
         \/ \E q : Sent(q)
         \/ \E i \in 1 .. Len(searches) : \E q : Changed(i, q)
         \/ \E i \in 1 .. Len(searches) : ShowSearch(i)
BY SearchTurns, TransferReadySends DEF Settles

\* The searches that remain once one is answered.
LEMMA ShowSearchLeaves ==
  ASSUME FlowInv, NEW i \in 1 .. Len(searches), ShowSearch(i)
  PROVE  /\ searches' \in Seq(InFlight) /\ Len(searches') = Len(searches) - 1
         /\ \A j \in 1 .. Len(searches') :
              LET old == searches[Before(i, j)]
                  new == searches'[j]
              IN  /\ Before(i, j) \in 1 .. Len(searches)
                  /\ new.mount = old.mount /\ new.auth = old.auth
                  /\ new.transfer = old.transfer /\ new.held = old.held
                  /\ new.served = old.served
                  /\ new.fate = IF Before(i, j) < i /\ old.mount = searches[i].mount
                                  THEN "late" ELSE old.fate
<1> PICK now : now = searches'
  OBVIOUS
<1>1. now = Without(i)
  BY DEF ShowSearch
<1>2. /\ now \in Seq(InFlight) /\ Len(now) = Len(searches) - 1
      /\ \A j \in 1 .. Len(now) :
           /\ Before(i, j) \in 1 .. Len(searches)
           /\ now[j] = IF /\ Before(i, j) < i
                          /\ searches[Before(i, j)].mount = searches[i].mount
                         THEN [searches[Before(i, j)] EXCEPT !.fate = "late"]
                         ELSE searches[Before(i, j)]
  BY <1>1, WithoutAre
<1>3. ASSUME NEW j \in 1 .. Len(now), NEW old, old = searches[Before(i, j)]
      PROVE  /\ now[j].mount = old.mount /\ now[j].auth = old.auth
             /\ now[j].transfer = old.transfer /\ now[j].held = old.held
             /\ now[j].served = old.served
             /\ now[j].fate = IF Before(i, j) < i /\ old.mount = searches[i].mount
                                THEN "late" ELSE old.fate
  <2>1. old \in InFlight
    <3>1. Before(i, j) \in 1 .. Len(searches) /\ searches \in Seq(InFlight)
      BY <1>2, <1>3 DEF FlowInv
    <3> QED
      BY <1>3, <3>1
  <2>2. PICK late : late = [old EXCEPT !.fate = "late"]
    OBVIOUS
  <2>3. /\ late.mount = old.mount /\ late.auth = old.auth
        /\ late.transfer = old.transfer /\ late.held = old.held
        /\ late.served = old.served /\ late.fate = "late"
    BY <2>1, <2>2 DEF InFlight
  <2>4. now[j] = IF Before(i, j) < i /\ old.mount = searches[i].mount
                   THEN late ELSE old
    BY <1>2, <1>3, <2>2
  <2>5. CASE Before(i, j) < i /\ old.mount = searches[i].mount
    BY <2>3, <2>4, <2>5
  <2>6. CASE ~(Before(i, j) < i /\ old.mount = searches[i].mount)
    BY <2>4, <2>6
  <2> QED
    BY <2>5, <2>6
<1>4. ASSUME NEW j \in 1 .. Len(now)
      PROVE  LET old == searches[Before(i, j)]
                 new == now[j]
             IN  /\ Before(i, j) \in 1 .. Len(searches)
                 /\ new.mount = old.mount /\ new.auth = old.auth
                 /\ new.transfer = old.transfer /\ new.held = old.held
                 /\ new.served = old.served
                 /\ new.fate = IF Before(i, j) < i /\ old.mount = searches[i].mount
                                 THEN "late" ELSE old.fate
  <2>1. PICK old : old = searches[Before(i, j)]
    OBVIOUS
  <2>2. Before(i, j) \in 1 .. Len(searches)
    BY <1>2, <1>4
  <2> QED
    BY <1>3, <2>1, <2>2
<1> QED
  BY <1>2, <1>4

LEMMA SearchesStay ==
  ASSUME StepAssumed, OwnInv, [WalletNext]_walletVars
  PROVE  /\ searches' \in Seq(InFlight)
         /\ \A i \in 1 .. Len(searches') :
              \E q : q = searches'[i] /\ GoodSearch(q)' /\ q.mount <= mount'
<1> USE DEF StepAssumed
<1>1. searches \in Seq(InFlight)
  BY DEF FlowInv
<1>2. mount <= mount' /\ mount \in Nat /\ mount' \in Nat
  <2>1. mount' = mount \/ mount' = mount + 1
    <3>1. StartOver => mount' = mount
      BY DEF StartOver
    <3>2. \A s : CreateReady(s) => mount' = mount + 1
      BY DEF CreateReady
    <3> QED
      BY <3>1, <3>2, SessionMoves
  <2>2. mount \in Nat
    BY DEF SessionInv
  <2> QED
    BY <2>1, <2>2
<1>3. ASSUME NEW i \in 1 .. Len(searches), NEW old, old = searches[i]
      PROVE  old \in InFlight /\ GoodSearch(old)' /\ old.mount <= mount'
  <2>1. old \in InFlight /\ GoodSearch(old) /\ old.mount <= mount
    BY <1>3 DEF FlowInv, SessionInv
  <2>2. old.mount \in Nat
    BY <2>1 DEF InFlight
  <2> QED
    BY <1>2, <2>1, <2>2, GoodSearchKept
<1>4. ASSUME NEW i \in 1 .. Len(searches)
      PROVE  \E q : q = searches[i] /\ GoodSearch(q)' /\ q.mount <= mount'
  BY <1>3
<1>5. CASE UNCHANGED searches
  BY <1>1, <1>4, <1>5
<1>6. ASSUME NEW q, Sent(q)
      PROVE  /\ searches' \in Seq(InFlight)
             /\ \A i \in 1 .. Len(searches') :
                  \E r : r = searches'[i] /\ GoodSearch(r)' /\ r.mount <= mount'
  <2>1. /\ searches' = Append(searches, q) /\ q \in InFlight /\ GoodSearch(q)'
        /\ q.mount <= mount'
    BY <1>6 DEF Sent
  <2>2. searches' \in Seq(InFlight) /\ Len(searches') = Len(searches) + 1
    BY <1>1, <2>1
  <2>3. ASSUME NEW i \in 1 .. Len(searches')
        PROVE  \E r : r = searches'[i] /\ GoodSearch(r)' /\ r.mount <= mount'
    <3>1. CASE i \in 1 .. Len(searches)
      <4>1. searches'[i] = searches[i]
        BY <1>1, <2>1, <3>1
      <4> QED
        BY <1>4, <3>1, <4>1
    <3>2. CASE i = Len(searches) + 1
      <4>1. searches'[i] = q
        BY <1>1, <2>1, <3>2
      <4> QED
        BY <2>1, <4>1
    <3> QED
      BY <1>1, <2>2, <3>1, <3>2
  <2> QED
    BY <2>2, <2>3
<1>7. ASSUME NEW k \in 1 .. Len(searches), NEW q, Changed(k, q)
      PROVE  /\ searches' \in Seq(InFlight)
             /\ \A i \in 1 .. Len(searches') :
                  \E r : r = searches'[i] /\ GoodSearch(r)' /\ r.mount <= mount'
  <2>1. /\ searches' = [searches EXCEPT ![k] = q] /\ q \in InFlight /\ GoodSearch(q)'
        /\ q.mount <= mount'
    BY <1>3, <1>7 DEF Changed
  <2>2. searches' \in Seq(InFlight) /\ Len(searches') = Len(searches)
    BY <1>1, <2>1
  <2>3. ASSUME NEW i \in 1 .. Len(searches')
        PROVE  \E r : r = searches'[i] /\ GoodSearch(r)' /\ r.mount <= mount'
    <3>1. i \in 1 .. Len(searches) /\ searches'[i] = IF i = k THEN q ELSE searches[i]
      BY <1>1, <2>1, <2>2
    <3> QED
      BY <1>4, <2>1, <3>1
  <2> QED
    BY <2>2, <2>3
<1>8. ASSUME NEW k \in 1 .. Len(searches), ShowSearch(k)
      PROVE  /\ searches' \in Seq(InFlight)
             /\ \A i \in 1 .. Len(searches') :
                  \E r : r = searches'[i] /\ GoodSearch(r)' /\ r.mount <= mount'
  <2>1. searches' \in Seq(InFlight)
    BY <1>8, ShowSearchLeaves
  <2>2. ASSUME NEW i \in 1 .. Len(searches')
        PROVE  \E r : r = searches'[i] /\ GoodSearch(r)' /\ r.mount <= mount'
    <3>1. PICK old : old = searches[Before(k, i)]
      OBVIOUS
    <3>2. PICK r : r = searches'[i]
      OBVIOUS
    <3>3. /\ Before(k, i) \in 1 .. Len(searches)
          /\ r.auth = old.auth /\ r.held = old.held /\ r.served = old.served
          /\ r.mount = old.mount
      BY <1>8, <3>1, <3>2, ShowSearchLeaves
    <3>4. GoodSearch(old)' /\ old.mount <= mount'
      BY <1>3, <3>1, <3>3
    <3>5. GoodSearch(r)'
      BY <3>3, <3>4 DEF GoodSearch
    <3> QED
      BY <3>2, <3>3, <3>4, <3>5
  <2> QED
    BY <2>1, <2>2
<1> QED
  BY <1>5, <1>6, <1>7, <1>8, SearchMoves

\* Only another client's registration gives another client a token.
LEMMA TheirsMoves ==
  ASSUME [WalletNext]_walletVars
  PROVE  UNCHANGED theirs \/ \E a \in Recipients : OtherRegisters(a)
<1>1. Click => UNCHANGED theirs
  BY DEF Click, CreateClick, SignClick, EditMessage, EditVerifyText, Edit,
     CredentialClick, MintClick, TransferClick, StartOver, netVars
<1>2. ASSUME NEW s, Continue(s) PROVE UNCHANGED theirs
  BY <1>2 DEF Continue, CreateFails, CreateContinues, CreateReady, SignFails,
     SignReady, CredentialFails, CredentialContinues, MintFails, MintAccepted,
     MintReady, TransferFails, TransferContinues, TransferReady, netVars
<1>3. ASSUME NEW s, Serve(s) \/ Lose(s) PROVE UNCHANGED theirs
  BY <1>3 DEF Serve, Lose, netVars
<1>4. ASSUME NEW i, ServeSearch(i) \/ ShowSearch(i) \/ LoseSearch(i)
      PROVE  UNCHANGED theirs
  BY <1>4 DEF ServeSearch, ShowSearch, LoseSearch, netVars
<1>5. ASSUME NEW auth, NEW id, NEW to, OtherTransfers(auth, id, to)
      PROVE  UNCHANGED theirs
  BY <1>5 DEF OtherTransfers, netVars
<1>6. UNCHANGED walletVars => UNCHANGED theirs
  BY DEF walletVars, netVars
<1> QED
  BY <1>1, <1>2, <1>3, <1>4, <1>5, <1>6 DEF WalletNext

LEMMA FlowInvStep ==
  ASSUME StepAssumed, OwnInv, [WalletNext]_walletVars
  PROVE  FlowInv'
<1> USE DEF StepAssumed
<1>1. flow' \in [Slots -> Flow] /\ (\A t \in Slots : GoodFlow(t[2], flow[t]))'
  <2>1. CASE UNCHANGED flow
    <3>1. flow' \in [Slots -> Flow]
      BY <2>1 DEF FlowInv
    <3>2. ASSUME NEW t \in Slots PROVE GoodFlow(t[2], flow[t])'
      <4>1. PICK g : g = flow[t]
        OBVIOUS
      <4>2. flow'[t] = g
        BY <2>1, <4>1
      <4>3. GoodFlow(t[2], g)'
        BY <4>1, GoodFlowKept DEF FlowInv
      <4> QED
        BY <4>2, <4>3
    <3> QED
      BY <3>1, <3>2
  <2>2. ASSUME NEW s \in Slots, NEW g, FlowStep(s, g)
        PROVE  flow' \in [Slots -> Flow]
               /\ (\A t \in Slots : GoodFlow(t[2], flow[t]))'
    BY <2>2, OneFlowChanged DEF FlowStep
  <2> QED
    BY <2>1, <2>2, FlowMoves
<1>2. searches' \in Seq(InFlight)
  BY SearchesStay
<1>3. ASSUME NEW i \in 1 .. Len(searches') PROVE GoodSearch(searches[i])'
  <2>1. PICK q : q = searches'[i] /\ GoodSearch(q)'
    BY SearchesStay
  <2> QED
    BY <2>1
<1>4. theirs' \subseteq DOMAIN byToken'
  <2>1. ASSUME NEW a \in Recipients, OtherRegisters(a)
        PROVE  theirs' \subseteq DOMAIN byToken'
    <3>1. a \in ValidAddresses /\ ~AddressTaken(a) /\ AccountCreate(a)
      BY <2>1 DEF OtherRegisters
    <3>2. theirs' = theirs \cup {Len(byToken')}
      BY <2>1 DEF OtherRegisters
    <3>3. Len(byToken') \in DOMAIN byToken'
      <4>1. Registered(a)
        BY <3>1 DEF AccountCreate, AddressFree, Registered
      <4> QED
        BY <3>1, <4>1, RegisteredToken
    <3> QED
      BY <3>2, <3>3 DEF FlowInv, Grows
  <2>2. (\A a \in Recipients : ~OtherRegisters(a)) => UNCHANGED theirs
    BY TheirsMoves
  <2> QED
    BY <2>1, <2>2 DEF FlowInv, Grows
<1> QED
  BY <1>1, <1>2, <1>3, <1>4 DEF FlowInv

-----------------------------------------------------------------------------
(* Whose handlers are running *)

\* A handler runs on for whom it ran, or was started in the present session.
LEMMA HandlersAfter ==
  ASSUME StepAssumed, [WalletNext]_walletVars, NEW t \in Slots,
         Busy(t)', NEW f, f = flow'[t]
  PROVE  \/ /\ Busy(t)
            /\ t[2] # "account" => f.auth = flow[t].auth
            /\ t[2] = "sign" => f.item = flow[t].item
         \/ Starts(t, f)
<1> USE DEF StepAssumed
<1>1. CASE UNCHANGED flow
  BY <1>1 DEF Busy
<1>2. ASSUME NEW s \in Slots, NEW g, FlowStep(s, g)
      PROVE  \/ /\ Busy(t)
                /\ t[2] # "account" => f.auth = flow[t].auth
                /\ t[2] = "sign" => f.item = flow[t].item
             \/ Starts(t, f)
  <2>1. flow'[t] = IF t = s THEN g ELSE flow[t]
    BY <1>2 DEF FlowStep, FlowInv
  <2>2. CASE t = s
    <3>1. f = g /\ g.step # "idle"
      BY <2>1, <2>2 DEF Busy
    <3>2. g # IdleFlow
      BY <3>1 DEF IdleFlow
    <3> QED
      BY <1>2, <2>2, <3>1, <3>2 DEF FlowStep, Proceeds
  <2>3. CASE t # s
    BY <2>1, <2>3 DEF Busy
  <2> QED
    BY <2>2, <2>3
<1> QED
  BY <1>1, <1>2, FlowMoves

LEMMA SessionInvStep ==
  ASSUME StepAssumed, OwnInv, [WalletNext]_walletVars
  PROVE  SessionInv'
<1> USE DEF StepAssumed
<1>1. /\ session \in Known(DOMAIN byToken) /\ mount \in 0 .. MaxSessions
      /\ DOMAIN byToken \subseteq DOMAIN byToken'
  BY DEF SessionInv, Grows
<1>2. /\ session' \in Known(DOMAIN byToken') /\ mount' \in 0 .. MaxSessions
      /\ mount <= mount'
  <2>1. CASE UNCHANGED <<session, mount>>
    BY <1>1, <2>1 DEF Known
  <2>2. CASE StartOver
    BY <1>1, <2>2 DEF StartOver, Known, NoSession, Nothing
  <2>3. ASSUME NEW s \in Slots, s[2] = "account", CreateReady(s)
        PROVE  /\ session' \in Known(DOMAIN byToken') /\ mount' \in 0 .. MaxSessions
               /\ mount <= mount'
    <3>1. flow[s].auth \in DOMAIN byToken /\ Busy(s)
      BY <2>3, RequestNames DEF CreateReady, Answered, Busy
    <3>2. s = <<s[1], "account">> /\ s[1] \in 0 .. MaxSessions
      BY <2>3, SlotsAre
    <3>3. mount < MaxSessions
      BY <3>1, <3>2 DEF SessionInv
    <3>4. session' = flow[s].auth /\ mount' = mount + 1
      BY <2>3 DEF CreateReady
    <3> QED
      BY <1>1, <3>1, <3>3, <3>4 DEF Known
  <2> QED
    BY <2>1, <2>2, <2>3, SessionMoves
<1>3. ASSUME NEW t \in Slots, Busy(t)' PROVE t[1] <= mount'
  <2>1. PICK f : f = flow'[t]
    OBVIOUS
  <2>2. Busy(t) \/ Starts(t, f)
    BY <1>3, <2>1, HandlersAfter
  <2>3. t[1] <= mount
    BY <1>1, <2>2, SlotsAre DEF SessionInv, Starts
  <2> QED
    BY <1>1, <1>2, <2>3, SlotsAre
<1>4. ASSUME NEW m \in 0 .. MaxSessions, Busy(<<m, "account">>)'
      PROVE  session' = NoSession /\ m = mount' /\ mount' < MaxSessions
  <2>1. PICK t : t = <<m, "account">>
    OBVIOUS
  <2>2. PICK f : f = flow'[t]
    OBVIOUS
  <2>3. t \in Slots
    BY <2>1, SlotsAre DEF Sections
  <2>4. Busy(t)'
    BY <1>4, <2>1
  <2>5. Busy(t) \/ Starts(t, f)
    BY <2>2, <2>3, <2>4, HandlersAfter
  <2>6. session = NoSession /\ m = mount /\ mount < MaxSessions
    BY <2>1, <2>5 DEF SessionInv, Starts
  <2>7. ~StartOver
    BY <2>6 DEF StartOver
  <2>8. ASSUME NEW s \in Slots, s[2] = "account", CreateReady(s) PROVE FALSE
    <3>1. Busy(s) /\ s = <<s[1], "account">> /\ s[1] \in 0 .. MaxSessions
      BY <2>8, SlotsAre DEF CreateReady, Answered, Busy
    <3>2. s = t
      BY <2>1, <2>6, <3>1 DEF SessionInv
    <3>3. flow'[t] = IdleFlow
      BY <2>3, <2>8, <3>2 DEF CreateReady, End, FlowInv
    <3> QED
      BY <2>4, <3>3 DEF Busy, IdleFlow
  <2> QED
    BY <2>6, <2>7, <2>8, SessionMoves
<1>5. ASSUME NEW i \in 1 .. Len(searches') PROVE searches'[i].mount <= mount'
  BY SearchesStay
<1> QED
  BY <1>2, <1>3, <1>4, <1>5, SlotsAre DEF SessionInv

\* A search in flight was in flight before, or is sent now.
LEMMA SearchesAfter ==
  ASSUME StepAssumed, OwnInv, [WalletNext]_walletVars,
         NEW i \in 1 .. Len(searches')
  PROVE  \/ \E k \in 1 .. Len(searches) :
              /\ searches'[i].mount = searches[k].mount
              /\ searches'[i].auth = searches[k].auth
         \/ \E q : Sent(q) /\ searches'[i] = q
<1> USE DEF StepAssumed
<1> PICK new : new = searches'
  OBVIOUS
<1>1. searches \in Seq(InFlight)
  BY DEF FlowInv
<1>2. CASE UNCHANGED searches
  BY <1>2
<1>3. ASSUME NEW q, Sent(q)
      PROVE  new[i] = q \/ (i \in 1 .. Len(searches) /\ new[i] = searches[i])
  <2>1. new = Append(searches, q)
    BY <1>3 DEF Sent
  <2> QED
    BY <1>1, <2>1
<1>4. ASSUME NEW k \in 1 .. Len(searches), NEW q, Changed(k, q)
      PROVE  /\ i \in 1 .. Len(searches)
             /\ new[i].mount = searches[i].mount /\ new[i].auth = searches[i].auth
  <2>1. /\ new = [searches EXCEPT ![k] = q]
        /\ q.mount = searches[k].mount /\ q.auth = searches[k].auth
    BY <1>4 DEF Changed
  <2>2. i \in 1 .. Len(searches) /\ new[i] = IF i = k THEN q ELSE searches[i]
    BY <1>1, <2>1
  <2> QED
    BY <2>1, <2>2
<1>5. ASSUME NEW k \in 1 .. Len(searches), ShowSearch(k)
      PROVE  /\ Before(k, i) \in 1 .. Len(searches)
             /\ new[i].mount = searches[Before(k, i)].mount
             /\ new[i].auth = searches[Before(k, i)].auth
  BY <1>5, ShowSearchLeaves
<1> QED
  BY <1>2, <1>3, <1>4, <1>5, SearchMoves

LEMMA OwnInvStep ==
  ASSUME StepAssumed, OwnInv, [WalletNext]_walletVars
  PROVE  OwnInv'
<1> USE DEF StepAssumed
<1> SUFFICES ASSUME session' # NoSession PROVE OwnInv'
  BY DEF OwnInv
<1>1. \/ UNCHANGED <<session, mount>>
      \/ mount' = mount + 1 /\ mount \in Nat
  <2>1. ~StartOver
    BY DEF StartOver
  <2>2. mount \in Nat
    BY DEF SessionInv
  <2> QED
    BY <2>1, <2>2, SessionMoves DEF CreateReady
<1>2. ASSUME NEW section \in Sections, section # "account",
             NEW t \in Slots, t = <<mount', section>>, Busy(t)',
             NEW f, f = flow'[t]
      PROVE  /\ section \in Acting => f.auth = session'
             /\ section = "sign" => f.item = session'
  <2>1. t[1] = mount' /\ t[2] = section
    BY <1>2
  <2>2. \/ Busy(t) /\ f.auth = flow[t].auth
           /\ (section = "sign" => f.item = flow[t].item)
        \/ Starts(t, f)
    BY <1>2, <2>1, HandlersAfter
  <2>3. t[1] <= mount
    BY <2>2, SlotsAre DEF SessionInv, Starts
  <2>4. UNCHANGED <<session, mount>>
    BY <1>1, <2>1, <2>3
  <2>5. CASE Starts(t, f)
    BY <1>2, <2>1, <2>4, <2>5 DEF Starts
  <2>6. CASE /\ Busy(t) /\ f.auth = flow[t].auth
             /\ section = "sign" => f.item = flow[t].item
    <3>1. t = Slot(section) /\ session # NoSession
      BY <1>2, <2>4 DEF Slot
    <3> QED
      BY <2>4, <2>6, <3>1 DEF OwnInv
  <2> QED
    BY <2>2, <2>5, <2>6
<1>3. ASSUME NEW section \in Acting, Busy(Slot(section))'
      PROVE  flow'[Slot(section)'].auth = session'
  <2>1. PICK t : t = <<mount', section>>
    OBVIOUS
  <2>2. t = Slot(section)' /\ t \in Slots /\ section \in Sections
        /\ section # "account"
    BY <2>1, SessionInvStep, SlotsAre DEF Slot, SessionInv, Acting, Sections
  <2>3. PICK f : f = flow'[t]
    OBVIOUS
  <2>4. f.auth = session'
    BY <1>2, <1>3, <2>1, <2>2, <2>3
  <2> QED
    BY <2>2, <2>3, <2>4
<1>4. ASSUME Busy(Slot("sign"))'
      PROVE  flow'[Slot("sign")'].item = session'
  <2>1. PICK t : t = <<mount', "sign">>
    OBVIOUS
  <2>2. t = Slot("sign")' /\ t \in Slots /\ "sign" \in Sections
    BY <2>1, SessionInvStep, SlotsAre DEF Slot, SessionInv, Sections
  <2>3. PICK f : f = flow'[t]
    OBVIOUS
  <2>4. f.item = session'
    BY <1>2, <1>4, <2>1, <2>2, <2>3
  <2> QED
    BY <2>2, <2>3, <2>4
<1>5. ASSUME NEW i \in 1 .. Len(searches'), searches'[i].mount = mount'
      PROVE  searches'[i].auth = session'
  <2>1. ASSUME NEW q, Sent(q), searches'[i] = q PROVE searches'[i].auth = session'
    BY <1>5, <2>1 DEF Sent
  <2>2. ASSUME NEW k \in 1 .. Len(searches),
               searches'[i].mount = searches[k].mount,
               searches'[i].auth = searches[k].auth
        PROVE  searches'[i].auth = session'
    <3>1. searches[k].mount <= mount /\ searches[k].mount = mount'
      BY <1>5, <2>2 DEF SessionInv
    <3>2. UNCHANGED <<session, mount>>
      BY <1>1, <3>1
    <3> QED
      BY <2>2, <3>1, <3>2 DEF OwnInv
  <2> QED
    BY <2>1, <2>2, SearchesAfter
<1> QED
  BY <1>3, <1>4, <1>5 DEF OwnInv

\* The access token that is, or may yet become, that of the session.
Current ==
  IF session # NoSession THEN session ELSE DrawnBy(flow[Slot("account")])

\* Nobody else holds it: no other client, no handler of an earlier session.
Exclusive ==
  Current # Nothing =>
    /\ Current \notin theirs
    /\ \A s \in Slots :
         s[2] \in Acting /\ Busy(s) /\ ~Mounted(s) => flow[s].auth # Current

LEMMA CurrentIsKnown ==
  ASSUME FlowInv, SessionInv
  PROVE  Current \in Known(DOMAIN byToken)
<1>1. PICK s : s = Slot("account")
  OBVIOUS
<1>2. PICK f : f = flow[s]
  OBVIOUS
<1>3. s \in Slots /\ s[2] = "account"
  BY <1>1, SlotIsSlot DEF Sections, Slot
<1>4. GoodFlow("account", f)
  BY <1>2, <1>3 DEF FlowInv
<1>5. DrawnBy(f) \in Known(DOMAIN byToken)
  BY <1>4 DEF GoodFlow, AccountFlow, DrawnBy, Known
<1> QED
  BY <1>1, <1>2, <1>5 DEF Current, SessionInv

LEMMA AccountReady ==
  ASSUME FlowInv, SessionInv, NEW s \in Slots, s[2] = "account", CreateReady(s)
  PROVE  /\ s = Slot("account") /\ session = NoSession /\ mount < MaxSessions
         /\ flow[s].auth \in DOMAIN byToken
         /\ Current = flow[s].auth /\ session' = flow[s].auth
         /\ mount' = mount + 1
<1>1. Busy(s) /\ s = <<s[1], "account">> /\ s[1] \in 0 .. MaxSessions
      /\ flow[s].step = "profile"
  BY SlotsAre DEF CreateReady, Answered, Busy
<1>2. session = NoSession /\ s[1] = mount /\ mount < MaxSessions
  BY <1>1 DEF SessionInv
<1>3. s = Slot("account")
  BY <1>1, <1>2 DEF Slot
<1>4. flow[s].auth \in DOMAIN byToken
  BY <1>1, RequestNames
<1>5. Current = flow[s].auth
  BY <1>1, <1>2, <1>3 DEF Current, DrawnBy
<1>6. session' = flow[s].auth /\ mount' = mount + 1
  BY DEF CreateReady
<1> QED
  BY <1>2, <1>3, <1>4, <1>5, <1>6

LEMMA StartOverEmpties ==
  ASSUME FlowInv, SessionInv, StartOver
  PROVE  Current' = Nothing
<1>1. PICK s : s = Slot("account")
  OBVIOUS
<1>2. s \in Slots /\ s = <<mount, "account">>
  BY <1>1, SlotIsSlot DEF Sections, Slot
<1>3. ~Busy(s)
  BY <1>2 DEF SessionInv, StartOver
<1>4. PICK f : f = flow'[s]
  OBVIOUS
<1>5. f.step = "idle" /\ Slot("account")' = s /\ session' = NoSession
  BY <1>1, <1>3, <1>4 DEF StartOver, Busy, Slot
<1>6. DrawnBy(f) = Nothing
  BY <1>5 DEF DrawnBy, Got
<1>7. Current' = DrawnBy(f)
  BY <1>4, <1>5 DEF Current, DrawnBy, Got
<1> QED
  BY <1>6, <1>7

\* A token that becomes the current one is a new one.
LEMMA CurrentAfter ==
  ASSUME StepAssumed, [WalletNext]_walletVars
  PROVE  Current' \in {Nothing, Current} \cup (DOMAIN byToken' \ DOMAIN byToken)
<1> USE DEF StepAssumed
<1>1. CASE StartOver
  BY <1>1, StartOverEmpties
<1>2. ASSUME NEW s \in Slots, s[2] = "account", CreateReady(s)
      PROVE  Current' = Current
  <2>1. Current = session' /\ session' \in DOMAIN byToken
    BY <1>2, AccountReady
  <2>2. session' # NoSession
    BY <2>1, KnownAreNat DEF NoSession
  <2> QED
    BY <2>1, <2>2 DEF Current
<1>3. CASE UNCHANGED <<session, mount>> /\ session # NoSession
  BY <1>3 DEF Current
<1>4. CASE UNCHANGED <<session, mount>> /\ session = NoSession
  <2>1. PICK s : s = Slot("account")
    OBVIOUS
  <2>2. s \in Slots /\ s[2] = "account"
    BY <2>1, SlotIsSlot DEF Sections, Slot
  <2>3. PICK f : f = flow'[s]
    OBVIOUS
  <2>4. Slot("account")' = s /\ session' = NoSession
    BY <1>4, <2>1 DEF Slot
  <2>5. Current' = DrawnBy(f)
    BY <2>3, <2>4 DEF Current, DrawnBy, Got
  <2>6. Current = DrawnBy(flow[s])
    BY <1>4, <2>1 DEF Current
  <2>7. CASE UNCHANGED flow
    BY <2>3, <2>5, <2>6, <2>7
  <2>8. ASSUME NEW t \in Slots, NEW g, FlowStep(t, g)
        PROVE  DrawnBy(f) \in {Nothing, Current}
                 \cup (DOMAIN byToken' \ DOMAIN byToken)
    <3>1. f = IF t = s THEN g ELSE flow[s]
      BY <2>2, <2>3, <2>8 DEF FlowStep, FlowInv
    <3>2. CASE t # s
      BY <2>6, <3>1, <3>2
    <3>3. CASE t = s /\ Starts(t, g)
      <4>1. g.step = "available"
        BY <2>2, <3>3 DEF Starts
      <4>2. DrawnBy(g) = Nothing
        BY <4>1 DEF DrawnBy, Got
      <4> QED
        BY <3>1, <3>3, <4>2
    <3>4. CASE t = s /\ Proceeds(t, g)
      BY <2>6, <3>1, <3>4 DEF Proceeds
    <3>5. CASE t = s /\ g = IdleFlow
      <4>1. DrawnBy(g) = Nothing
        BY <3>5 DEF DrawnBy, Got, IdleFlow
      <4> QED
        BY <3>1, <3>5, <4>1
    <3> QED
      BY <2>8, <3>2, <3>3, <3>4, <3>5 DEF FlowStep
  <2> QED
    BY <2>5, <2>7, <2>8, FlowMoves
<1> QED
  BY <1>1, <1>2, <1>3, <1>4, SessionMoves

\* A handler that acts does so with a token the service has given out.
LEMMA ActingIsKnown ==
  ASSUME FlowInv, NEW s \in Slots, s[2] \in Acting, Busy(s)
  PROVE  flow[s].auth \in DOMAIN byToken
<1>1. GoodFlow(s[2], flow[s])
  BY DEF FlowInv
<1>2. flow[s].step # "idle"
  BY DEF Busy
<1> QED
  BY <1>1, <1>2 DEF GoodFlow, CredentialFlow, MintFlow, TransferFlow, Acting

LEMMA ExclusiveStep ==
  ASSUME StepAssumed, Exclusive, [WalletNext]_walletVars
  PROVE  Exclusive'
<1> USE DEF StepAssumed
<1> PICK c : c = Current'
  OBVIOUS
<1> SUFFICES ASSUME c # Nothing
             PROVE  /\ c \notin theirs'
                    /\ \A t \in Slots :
                         t[2] \in Acting /\ Busy(t)' /\ ~Mounted(t)'
                           => flow'[t].auth # c
  BY DEF Exclusive
<1>1. c = Current \/ c \in DOMAIN byToken' \ DOMAIN byToken
  BY CurrentAfter
<1>2. Current \in Known(DOMAIN byToken) /\ theirs \subseteq DOMAIN byToken
  BY CurrentIsKnown DEF FlowInv
<1>3. c \notin theirs'
  <2>1. CASE UNCHANGED theirs
    BY <1>1, <1>2, <2>1 DEF Exclusive
  <2>2. ASSUME NEW a \in Recipients, OtherRegisters(a) PROVE c \notin theirs'
    <3>1. a \in ValidAddresses /\ ~AddressTaken(a) /\ AccountCreate(a)
      BY <2>2 DEF OtherRegisters
    <3>2. Len(byToken') \notin DOMAIN byToken
      <4>1. Registered(a)
        BY <3>1 DEF AccountCreate, AddressFree, Registered
      <4> QED
        BY <3>1, <4>1, RegisteredToken
    <3>3. theirs' = theirs \cup {Len(byToken')} /\ UNCHANGED <<session, mount, flow>>
      BY <2>2 DEF OtherRegisters, appVars
    <3>4. c = Current
      BY <3>3 DEF Current, DrawnBy, Got, Slot
    <3> QED
      BY <1>2, <3>2, <3>3, <3>4 DEF Exclusive, Known
  <2> QED
    BY <2>1, <2>2, TheirsMoves
<1>4. ASSUME NEW t \in Slots, t[2] \in Acting, Busy(t)', ~Mounted(t)'
      PROVE  flow'[t].auth # c
  <2>1. ~StartOver
    BY StartOverEmpties
  <2>2. PICK f : f = flow'[t]
    OBVIOUS
  <2>3. t[2] # "account"
    BY <1>4 DEF Acting
  <2>4. (Busy(t) /\ f.auth = flow[t].auth) \/ Starts(t, f)
    BY <1>4, <2>2, <2>3, HandlersAfter
  <2>5. ~Starts(t, f)
    <3> SUFFICES ASSUME Starts(t, f) PROVE FALSE
      OBVIOUS
    <3>1. session # NoSession /\ t[1] = mount
      BY <2>3 DEF Starts
    <3>2. UNCHANGED <<session, mount>>
      BY <2>1, <3>1, AccountReady, SessionMoves
    <3> QED
      BY <1>4, <3>1, <3>2 DEF Mounted
  <2>6. ~Mounted(t)
    <3>1. ASSUME NEW s \in Slots, s[2] = "account", CreateReady(s)
          PROVE  ~Mounted(t)
      BY <3>1, AccountReady DEF Mounted
    <3>2. UNCHANGED <<session, mount>> => ~Mounted(t)
      BY <1>4 DEF Mounted
    <3> QED
      BY <2>1, <3>1, <3>2, SessionMoves
  <2>7. f.auth \in DOMAIN byToken /\ f.auth = flow[t].auth
    BY <1>4, <2>4, <2>5, ActingIsKnown
  <2> QED
    BY <1>1, <1>4, <2>2, <2>4, <2>5, <2>6, <2>7 DEF Exclusive
<1> QED
  BY <1>3, <1>4
=============================================================================
