-------------------------- MODULE ComplianceProofs --------------------------
(***************************************************************************)
(* Proofs about the credentials of the stand-in service, about what a      *)
(* token keeps of the credential it was minted under, and about replies.   *)
(***************************************************************************)
EXTENDS StandinProofs

-----------------------------------------------------------------------------
(* Credentials *)

\* A stored credential is filed under its own id, and signed as it is.
Filed == \A c \in DOMAIN creds :
  creds[c].id = c /\ creds[c].proof = creds[c].vc

CredentialInv == TypeInv /\ Filed

\* A step keeps the signed part and the holder of every stored credential,
\* may revoke it and never reinstates it, and time does not go back.
Kept ==
  /\ clock \in Nat /\ clock' \in Nat /\ clock <= clock'
  /\ \A c \in DOMAIN creds :
       /\ c \in DOMAIN creds'
       /\ creds'[c].id = creds[c].id
       /\ creds'[c].holder = creds[c].holder
       /\ creds'[c].vc = creds[c].vc
       /\ creds'[c].proof = creds[c].proof
       /\ creds[c].status = "revoked" => creds'[c].status = "revoked"

\* What issuing and revoking do to the store.
LEMMA IssuedCredential ==
  ASSUME TypeInv, NEW holder, NEW subject, Issued(holder, subject)
  PROVE  /\ DOMAIN creds' = DOMAIN creds \cup {Len(creds) + 1}
         /\ \A c \in DOMAIN creds : creds'[c] = creds[c]
         /\ creds'[Len(creds) + 1].id = Len(creds) + 1
         /\ creds'[Len(creds) + 1].proof = creds'[Len(creds) + 1].vc
         /\ clock' = clock
<1>1. creds \in Seq(Credential)
  BY DEF TypeInv, TypeOK, CredentialsTypeOK
<1> DEFINE id == Len(creds) + 1
           vc == [id |-> id, subject |-> CredentialSubject(holder, subject),
                  validUntil |-> clock + Lifetime]
           c == [id |-> id, holder |-> holder, vc |-> vc, proof |-> vc,
                 status |-> "active"]
<1>2. creds' = Append(creds, c) /\ clock' = clock
  BY DEF Issued, IssueCredential
<1>3. c.id = id /\ c.proof = c.vc
  OBVIOUS
<1> HIDE DEF c
<1> QED
  BY <1>1, <1>2, <1>3

LEMMA RevokedCredential ==
  ASSUME TypeInv, NEW id, Revoked(id)
  PROVE  /\ DOMAIN creds' = DOMAIN creds
         /\ \A c \in DOMAIN creds : c # id => creds'[c] = creds[c]
         /\ id \in DOMAIN creds
         /\ creds'[id] = [creds[id] EXCEPT !.status = "revoked"]
         /\ creds[id] \in Credential
         /\ clock' = clock
BY DEF TypeInv, TypeOK, CredentialsTypeOK, Revoked, RevokeCredential

\* Only issuing, revoking and the clock change what credentials depend on.
LEMMA CredentialsFrame ==
  Next => \/ UNCHANGED credentialVars
          \/ \E holder, subject : Issued(holder, subject)
          \/ \E id : Revoked(id)
          \/ ClockTick
<1>1. Refused => UNCHANGED credentialVars
  BY DEF Refused, storeVars, credentialVars
<1>2. \A a : Registered(a) => UNCHANGED credentialVars
  BY DEF Registered, credentialVars
<1>3. \A name, definition :
        ClassAdded(name, definition) => UNCHANGED credentialVars
  BY DEF ClassAdded
<1>4. \A token, class : Minted(token, class) => UNCHANGED credentialVars
  BY DEF Minted, MintToken
<1>5. \A token, id, to : Transferred(token, id, to) => UNCHANGED credentialVars
  BY DEF Transferred, TransferToken
<1> QED
  BY <1>1, <1>2, <1>3, <1>4, <1>5, StepEffect, Zenon DEF Effect

LEMMA CredentialsKept == TypeInv /\ [Next]_vars => Kept
<1> SUFFICES ASSUME TypeInv, [Next]_vars PROVE Kept
  OBVIOUS
<1>0. clock \in Nat
  BY CredentialsAssumption DEF TypeInv, TypeOK, CredentialsTypeOK
<1>1. CASE UNCHANGED credentialVars
  BY <1>0, <1>1 DEF credentialVars, Kept
<1>2. ASSUME NEW holder, NEW subject, Issued(holder, subject) PROVE Kept
  BY <1>0, <1>2, IssuedCredential DEF Kept
<1>3. ASSUME NEW id, Revoked(id) PROVE Kept
  <2>1. /\ creds'[id].status = "revoked"
        /\ creds'[id].id = creds[id].id
        /\ creds'[id].holder = creds[id].holder
        /\ creds'[id].vc = creds[id].vc
        /\ creds'[id].proof = creds[id].proof
    BY <1>3, RevokedCredential DEF Credential
  <2>2. /\ DOMAIN creds' = DOMAIN creds
        /\ \A c \in DOMAIN creds : c # id => creds'[c] = creds[c]
        /\ clock' = clock
    BY <1>3, RevokedCredential
  <2> QED
    BY <1>0, <2>1, <2>2 DEF Kept
<1>4. CASE ClockTick
  BY <1>0, <1>4 DEF ClockTick, Tick, Kept
<1>5. CASE UNCHANGED vars
  BY <1>1, <1>5 DEF vars, storeVars, credentialVars
<1> QED
  BY <1>1, <1>2, <1>3, <1>4, <1>5, CredentialsFrame

LEMMA FiledStep == CredentialInv /\ [Next]_vars => CredentialInv'
<1> SUFFICES ASSUME CredentialInv, [Next]_vars PROVE CredentialInv'
  OBVIOUS
<1>0. TypeInv /\ TypeInv' /\ Filed
  BY TypeInvStep DEF CredentialInv
<1>1. CASE DOMAIN creds' = DOMAIN creds
  BY <1>0, <1>1, CredentialsKept DEF Kept, Filed, CredentialInv
<1>2. ASSUME NEW holder, NEW subject, Issued(holder, subject)
      PROVE  CredentialInv'
  BY <1>0, <1>2, IssuedCredential DEF Filed, CredentialInv
<1>3. ASSUME NEW id, Revoked(id) PROVE CredentialInv'
  BY <1>0, <1>1, <1>3, RevokedCredential
<1>4. CASE UNCHANGED credentialVars \/ ClockTick \/ UNCHANGED vars
  BY <1>1, <1>4 DEF credentialVars, ClockTick, Tick, vars, storeVars
<1> QED
  BY <1>2, <1>3, <1>4, CredentialsFrame

LEMMA CredentialInvInit == Init => CredentialInv
BY TypeInvInit DEF Init, TokensInit, CredentialsInit, Filed, CredentialInv

\* Of a stored credential, being valid is being neither revoked nor expired.
LEMMA StoredValid ==
  ASSUME Filed, NEW c \in DOMAIN creds
  PROVE  Valid(creds[c]) <=>
           creds[c].status # "revoked" /\ clock < creds[c].vc.validUntil
BY DEF Filed, Valid, SignatureValid, StatusOf, NotExpired

\* No copy of a revoked credential verifies, whatever status it claims
\* (credentials.ts 193-212).
THEOREM StaleCopiesRejected == Spec => []StaleCopyRejected
<1>1. CredentialInv => StaleCopyRejected
  <2> SUFFICES ASSUME CredentialInv, NEW c \in DOMAIN creds,
                      NEW status \in {"active", "revoked"},
                      creds[c].status = "revoked"
               PROVE  ~Valid([creds[c] EXCEPT !.status = status])
    BY DEF StaleCopyRejected
  <2>1. creds[c] \in Credential /\ creds[c].id = c
    BY DEF CredentialInv, Filed, TypeInv, TypeOK, CredentialsTypeOK
  <2>2. [creds[c] EXCEPT !.status = status].id = c
    BY <2>1 DEF Credential
  <2> QED
    BY <2>2 DEF Valid, StatusOf
<1> QED
  BY <1>1, CredentialInvInit, FiledStep, PTL DEF Spec

\* Every stored credential's signature verifies for good (credentials.ts
\* 230-255).
THEOREM SignaturesOutlive == Spec => []SignatureOutlives
<1>1. CredentialInv => SignatureOutlives
  BY DEF CredentialInv, Filed, SignatureOutlives, SignatureValid
<1> QED
  BY <1>1, CredentialInvInit, FiledStep, PTL DEF Spec

\* A credential that verifies now did so before.
LEMMA StillValid ==
  ASSUME CredentialInv, [Next]_vars, NEW c \in DOMAIN creds, Valid(creds[c])'
  PROVE  Valid(creds[c])
<1>1. Kept
  BY CredentialsKept DEF CredentialInv
<1>2. creds[c].vc.validUntil \in Nat
  <2>1. creds[c] \in Credential
    BY DEF CredentialInv, TypeInv, TypeOK, CredentialsTypeOK
  <2> QED
    BY <2>1 DEF Credential, Vc
<1>3. creds'[c].id = c /\ c \in DOMAIN creds'
  BY <1>1 DEF Kept, CredentialInv, Filed
<1>4. creds'[c].status # "revoked" /\ clock' < creds'[c].vc.validUntil
  BY <1>3 DEF Valid, StatusOf, NotExpired
<1>5. creds[c].status # "revoked" /\ clock < creds[c].vc.validUntil
  BY <1>1, <1>2, <1>4 DEF Kept
<1> QED
  BY <1>5, StoredValid DEF CredentialInv

\* A credential that stopped verifying never verifies again (credentials.ts
\* 193-255).
THEOREM InvalidityIsFinal == Spec => InvalidForGood
<1> DEFINE Final == \A c \in DOMAIN creds :
                      ~Valid(creds[c]) => ~Valid(creds[c])'
<1>1. CredentialInv /\ [Next]_vars => [Final]_credentialVars
  BY StillValid
<1> QED
  BY <1>1, CredentialInvInit, FiledStep, PTL DEF Spec, InvalidForGood

\* The credential a mint would embed is replaced only once it is itself
\* invalid, in whatever order credentials are issued, revoked and expire
\* (credentials.ts 241-243).
THEOREM AuthorisationIsStable == Spec => AuthorisationStable
<1> DEFINE Stable ==
             \A d \in Holders : \A c \in ValidCredentialsFor(d) :
               c = ValidCredentialFor(d) /\ Valid(creds[c])'
                 => c = ValidCredentialFor(d)'
<1>1. ASSUME CredentialInv, CredentialInv', [Next]_vars PROVE Stable
  <2> SUFFICES ASSUME NEW d \in Holders, NEW c \in ValidCredentialsFor(d),
                      c = ValidCredentialFor(d), Valid(creds[c])'
               PROVE  c = ValidCredentialFor(d)'
    OBVIOUS
  <2>1. Kept /\ Filed /\ Filed'
    BY <1>1, CredentialsKept DEF CredentialInv
  <2>2. /\ creds \in Seq(Credential) /\ creds' \in Seq(Credential)
        /\ Len(creds) \in Nat
    BY <1>1 DEF CredentialInv, TypeInv, TypeOK, CredentialsTypeOK
  <2>3. /\ ValidCredentialsFor(d) \in SUBSET Nat
        /\ ValidCredentialsFor(d)' \in SUBSET Nat
    BY <2>2 DEF ValidCredentialsFor, CredentialsForHolder
  <2>4. \A e \in ValidCredentialsFor(d) : c <= e
    BY <2>3, FirstOfPositions DEF ValidCredentialFor
  <2>5. c \in ValidCredentialsFor(d)'
    BY <2>1 DEF ValidCredentialsFor, CredentialsForHolder, Kept
  <2>6. ASSUME NEW e \in ValidCredentialsFor(d)' PROVE c <= e
    <3>1. CASE e \in DOMAIN creds
      <4>1. Valid(creds[e])'
        BY <2>6 DEF ValidCredentialsFor
      <4>2. Valid(creds[e])
        BY <1>1, <2>1, <3>1, <4>1, StillValid
      <4>3. creds[e].holder = d
        BY <2>1, <2>6, <3>1 DEF Kept, ValidCredentialsFor, CredentialsForHolder
      <4> QED
        BY <2>4, <3>1, <4>2, <4>3 DEF ValidCredentialsFor, CredentialsForHolder
    <3>2. CASE e \notin DOMAIN creds
      <4>1. c \in 1 .. Len(creds)
        BY <2>2 DEF ValidCredentialsFor, CredentialsForHolder
      <4>2. e \in Nat /\ e >= 1 /\ e \notin 1 .. Len(creds)
        BY <2>2, <2>6, <3>2 DEF ValidCredentialsFor, CredentialsForHolder
      <4> QED
        BY <2>2, <4>1, <4>2
    <3> QED
      BY <3>1, <3>2
  <2>7. PICK V : V = ValidCredentialsFor(d)'
    OBVIOUS
  <2>8. ValidCredentialFor(d)' =
          CHOOSE f \in V : \A other \in V : f <= other
    BY <2>7 DEF ValidCredentialFor
  <2>9. PICK f : f = CHOOSE first \in V : \A other \in V : first <= other
    OBVIOUS
  <2>10. f \in V /\ \A other \in V : f <= other
    BY <2>3, <2>5, <2>7, <2>9, FirstOfPositions
  <2>11. c \in V /\ c <= f /\ f <= c /\ c \in Nat /\ f \in Nat
    BY <2>3, <2>5, <2>6, <2>7, <2>10
  <2> QED
    BY <2>8, <2>9, <2>11
<1>2. CredentialInv /\ CredentialInv' /\ [Next]_vars => [Stable]_credentialVars
  BY <1>1
<1> QED
  BY <1>2, CredentialInvInit, FiledStep, PTL DEF Spec, AuthorisationStable

-----------------------------------------------------------------------------
(* Tokens and the credential they were minted under *)

\* A gated token appears only while its owner holds a valid credential, and
\* embeds that one, for every class and whatever was issued or revoked before
\* (tokens.ts 91-104).
THEOREM ComplianceEnforced == Spec => ComplianceAtMint
<1> DEFINE Cleared ==
             \A t \in DOMAIN byId' \ DOMAIN byId :
               classes[byId'[t].class].requiresKYC =>
                 \E c \in DOMAIN creds :
                   /\ byId'[t].claims = <<c>>
                   /\ creds[c].holder = byId'[t].owner
                   /\ Valid(creds[c])
<1>1. ASSUME TypeInv, NEW token, NEW class, Minted(token, class) PROVE Cleared
  <2>1. /\ DOMAIN byId' = DOMAIN byId \cup {NewId}
        /\ byId'[NewId] = NewToken(token, class)
    BY <1>1, MintedToken
  <2>2. /\ NewToken(token, class).class = class
        /\ NewToken(token, class).owner = Caller(token)
        /\ NewToken(token, class).claims = ComplianceClaims(class, Caller(token))
    BY DEF NewToken
  <2>3. ASSUME classes[class].requiresKYC
        PROVE  \E c \in DOMAIN creds :
                 /\ ComplianceClaims(class, Caller(token)) = <<c>>
                 /\ creds[c].holder = Caller(token)
                 /\ Valid(creds[c])
    <3>1. ValidCredentialsFor(Caller(token)) # {}
      BY <1>1, <2>3 DEF Minted, ComplianceOK, Caller
    <3>2. PICK c : c = ValidCredentialFor(Caller(token))
      OBVIOUS
    <3>3. c \in ValidCredentialsFor(Caller(token)) /\ c \in DOMAIN creds
      BY <1>1, <3>1, <3>2, ValidCredentialForFound DEF TypeInv, TypeOK
    <3>4. ComplianceClaims(class, Caller(token)) = <<c>>
      BY <2>3, <3>2 DEF ComplianceClaims
    <3> QED
      BY <3>3, <3>4 DEF ValidCredentialsFor, CredentialsForHolder
  <2> QED
    BY <2>1, <2>2, <2>3
<1>2. ASSUME TypeInv, NEW token, NEW id, NEW to, Transferred(token, id, to)
      PROVE  Cleared
  BY <1>2, TransferredToken
<1>3. TypeInv /\ Next => Cleared
  <2>1. CASE UNCHANGED <<ledgerVars, tokenVars>>
    BY <2>1 DEF tokenVars
  <2> QED
    BY <1>1, <1>2, <2>1, TokensFrame
<1>4. TypeInv /\ [Next]_vars => [Cleared]_vars
  BY <1>3
<1> QED
  BY <1>4, TypeInvInit, TypeInvStep, PTL DEF Spec, ComplianceAtMint

\* What a step leaves of a token: its class, its claims and its first record;
\* its commitment is continued with its claims or left alone.
Continued(t) ==
  /\ t \in DOMAIN byId'
  /\ byId'[t].class = byId[t].class
  /\ byId'[t].claims = byId[t].claims
  /\ TokenTransactions(t)'[1] = TokenTransactions(t)[1]
  /\ \/ byId'[t].stateCommitment = byId[t].stateCommitment
     \/ \E link : /\ link.claims = Claims(byId[t].claims)
                  /\ byId'[t].stateCommitment =
                       Append(byId[t].stateCommitment, link)

\* The first record of a token with a history stays when another is recorded.
LEMMA FirstRecordKept ==
  ASSUME LedgerInv, NEW tx, NEW id \in TokenIds, tx.tokenId = id, Recorded(tx),
         NEW t \in DOMAIN byId
  PROVE  TokenTransactions(t)'[1] = TokenTransactions(t)[1]
<1>1. t \in TokenIds
  <2>1. byId \in Seq(Token) /\ Len(byId) <= MaxTokens
    BY DEF LedgerInv, TypeInv, TypeOK, TokensTypeOK
  <2>2. t \in 1 .. Len(byId) /\ Len(byId) \in Nat
    BY <2>1
  <2> QED
    BY <2>1, <2>2, LedgerAssumption DEF TokenIds
<1>2. PICK len \in Nat : len = Len(TokenTransactions(t))
  BY <1>1, HistoryType DEF LedgerInv
<1>3. len >= 1
  BY <1>2 DEF LedgerInv, ChainInv, Chained
<1>4. CASE t = id
  <2>1. \A i \in 1 .. len : TokenTransactions(t)'[i] = TokenTransactions(t)[i]
    BY <1>2, <1>4, HistoryRecorded DEF LedgerInv
  <2> QED
    BY <1>3, <2>1
<1>5. CASE t # id
  <2>1. TokenTransactions(t)' = TokenTransactions(t)
    BY <1>1, <1>5, HistoryRecorded DEF LedgerInv
  <2> QED
    BY <2>1
<1> QED
  BY <1>4, <1>5

LEMMA TokensContinued ==
  ASSUME LedgerInv, [Next]_vars, NEW t \in DOMAIN byId
  PROVE  Continued(t)
<1>1. CASE UNCHANGED <<ledgerVars, tokenVars>>
  BY <1>1 DEF ledgerVars, tokenVars, Continued, TokenTransactions
<1>2. ASSUME NEW token, NEW class, Minted(token, class) PROVE Continued(t)
  <2>1. t \in DOMAIN byId' /\ byId'[t] = byId[t] /\ NewId \in TokenIds
    BY <1>2, MintedToken DEF LedgerInv
  <2>2. PICK tx : tx = MintTx(token, class)
    OBVIOUS
  <2>3. Recorded(tx) /\ tx.tokenId = NewId
    BY <1>2, <2>2, MintRecorded DEF MintTx
  <2>4. TokenTransactions(t)'[1] = TokenTransactions(t)[1]
    BY <2>1, <2>3, FirstRecordKept
  <2> QED
    BY <2>1, <2>4 DEF Continued
<1>3. ASSUME NEW token, NEW id, NEW to, Transferred(token, id, to)
      PROVE  Continued(t)
  <2>1. /\ id \in TokenIds /\ id \in DOMAIN byId /\ byId[id] \in Token
        /\ DOMAIN byId' = DOMAIN byId
        /\ byId'[id] = MovedToken(id, to)
        /\ byId'[id].stateCommitment = NextHead(id, to)
        /\ t # id => byId'[t] = byId[t]
    BY <1>3, TransferredToken DEF LedgerInv
  <2>2. PICK tx : tx = TransferTx(token, id, to)
    OBVIOUS
  <2>3. Recorded(tx) /\ tx.tokenId = id
    BY <1>3, <2>2, TransferRecorded DEF TransferTx
  <2>4. TokenTransactions(t)'[1] = TokenTransactions(t)[1]
    BY <2>1, <2>3, FirstRecordKept
  <2>5. /\ MovedToken(id, to).class = byId[id].class
        /\ MovedToken(id, to).claims = byId[id].claims
    BY <2>1 DEF MovedToken, Token
  <2>6. \E link : /\ link.claims = Claims(byId[id].claims)
                  /\ NextHead(id, to) = Append(byId[id].stateCommitment, link)
    <3> DEFINE link == [txId |-> Len(txs) + 1, tokenId |-> id,
                        owner |-> Recipient(to),
                        claims |-> Claims(byId[id].claims)]
    <3>1. NextHead(id, to) = Append(byId[id].stateCommitment, link)
      BY DEF NextHead, TransferCommitment, NextCommitment, ClaimsDigest
    <3>2. link.claims = Claims(byId[id].claims)
      OBVIOUS
    <3> HIDE DEF link
    <3> QED
      BY <3>1, <3>2
  <2> QED
    BY <2>1, <2>4, <2>5, <2>6 DEF Continued
<1>4. CASE UNCHANGED vars
  BY <1>1, <1>4 DEF vars, storeVars
<1> QED
  BY <1>1, <1>2, <1>3, <1>4, TokensFrame

\* A token that is not there yet can only come from a mint.
LEMMA TokenCreated ==
  ASSUME LedgerInv, [Next]_vars, NEW t \in DOMAIN byId' \ DOMAIN byId
  PROVE  \E token, class :
           /\ Minted(token, class)
           /\ t = NewId
           /\ byId'[t] = NewToken(token, class)
           /\ TokenTransactions(t)'[1].to = Caller(token)
<1>1. CASE UNCHANGED <<ledgerVars, tokenVars>> \/ UNCHANGED vars
  BY <1>1 DEF tokenVars, vars, storeVars
<1>2. ASSUME NEW token, NEW class, Minted(token, class)
      PROVE  /\ t = NewId
             /\ byId'[t] = NewToken(token, class)
             /\ TokenTransactions(t)'[1].to = Caller(token)
  <2>1. /\ t = NewId /\ NewId \in TokenIds /\ NewId \notin DOMAIN byId
        /\ byId'[t] = NewToken(token, class)
    BY <1>2, MintedToken DEF LedgerInv
  <2>2. PICK tx : tx = MintTx(token, class)
    OBVIOUS
  <2>3. Recorded(tx) /\ tx.tokenId = t /\ tx.to = Caller(token)
    BY <1>2, <2>1, <2>2, MintRecorded DEF MintTx
  <2>4. Len(TokenTransactions(t)) = 0
    BY <2>1, HistoryType DEF LedgerInv, Unminted
  <2>5. TokenTransactions(t)'[1] = tx
    <3>1. PICK len \in Nat : len = Len(TokenTransactions(t))
      BY <2>4
    <3>2. TokenTransactions(t)'[len + 1] = tx
      <4>1. t \in TokenIds /\ TypeInv /\ LedgerComplete
        BY <2>1 DEF LedgerInv
      <4> QED
        BY <2>3, <3>1, <4>1, HistoryRecorded
    <3> QED
      BY <2>4, <3>1, <3>2
  <2> QED
    BY <2>1, <2>3, <2>5
<1>3. ASSUME NEW token, NEW id, NEW to, Transferred(token, id, to) PROVE FALSE
  BY <1>3, TransferredToken DEF LedgerInv
<1> QED
  BY <1>1, <1>2, <1>3, TokensFrame

\* A registered class stays what it is.
LEMMA ClassesKept ==
  ASSUME [Next]_vars
  PROVE  \A n \in DOMAIN classes : n \in DOMAIN classes' /\ classes'[n] = classes[n]
<1>1. CASE UNCHANGED classes
  BY <1>1
<1>2. ASSUME NEW name, NEW definition, ClassAdded(name, definition)
      PROVE  \A n \in DOMAIN classes :
               n \in DOMAIN classes' /\ classes'[n] = classes[n]
  BY <1>2 DEF ClassAdded, TokenClassExists, RegisterTokenClass
<1>3. Refused \/ ClockTick \/ UNCHANGED vars => UNCHANGED classes
  BY DEF Refused, ClockTick, vars, storeVars
<1>4. \A a, holder, subject, id :
        Registered(a) \/ Issued(holder, subject) \/ Revoked(id)
          => UNCHANGED classes
  BY DEF Registered, Issued, Revoked
<1>5. \A token, class, id, to :
        Minted(token, class) \/ Transferred(token, id, to) => UNCHANGED classes
  BY DEF Minted, MintToken, Transferred, TransferToken
<1> QED
  BY <1>1, <1>2, <1>3, <1>4, <1>5, StepEffect, Zenon DEF Effect

\* ClassPolicyHolds, with the class of every token a registered one.
Policy(t) ==
  /\ TokenConforms(byId[t].class)
  /\ IF classes[byId[t].class].requiresKYC
       THEN \E c \in DOMAIN creds :
              /\ byId[t].claims = <<c>>
              /\ creds[c].holder = TokenTransactions(t)[1].to
       ELSE byId[t].claims = <<>>

PolicyInv ==
  \A t \in DOMAIN byId : byId[t].class \in DOMAIN classes /\ Policy(t)

\* ClaimsCommitted, of the chain.
Committed(t) ==
  \A i \in DOMAIN byId[t].stateCommitment :
    byId[t].stateCommitment[i].claims = Claims(byId[t].claims)

CommittedInv == \A t \in DOMAIN byId : Committed(t)

ComplianceInv == LedgerInv /\ Filed /\ PolicyInv /\ CommittedInv

LEMMA ComplianceInvInit == Init => ComplianceInv
<1> SUFFICES ASSUME Init PROVE ComplianceInv
  OBVIOUS
<1>1. byId = <<>> /\ creds = <<>>
  BY DEF Init, TokensInit, CredentialsInit
<1> QED
  BY <1>1, LedgerInvInit DEF ComplianceInv, Filed, PolicyInv, CommittedInv

\* A token goes on meeting the policy it was minted under.
LEMMA PolicyKept ==
  ASSUME ComplianceInv, [Next]_vars, NEW t \in DOMAIN byId
  PROVE  byId'[t].class \in DOMAIN classes' /\ Policy(t)'
<1>1. Continued(t) /\ Kept
  BY TokensContinued, CredentialsKept DEF ComplianceInv, LedgerInv
<1>2. PICK class : class = byId[t].class
  OBVIOUS
<1>3. /\ class \in DOMAIN classes /\ class \in DOMAIN classes'
      /\ classes'[class] = classes[class]
      /\ byId'[t].class = class
  BY <1>1, <1>2, ClassesKept DEF ComplianceInv, PolicyInv, Continued
<1>4. Policy(t)
  BY DEF ComplianceInv, PolicyInv
<1>5. classes'[class].metadata = "conforming"
  BY <1>2, <1>3, <1>4 DEF Policy, TokenConforms
<1>6. CASE classes[class].requiresKYC
  <2>1. PICK c \in DOMAIN creds :
          /\ byId[t].claims = <<c>>
          /\ creds[c].holder = TokenTransactions(t)[1].to
    BY <1>2, <1>4, <1>6 DEF Policy
  <2>2. /\ c \in DOMAIN creds' /\ byId'[t].claims = <<c>>
        /\ creds'[c].holder = TokenTransactions(t)'[1].to
    BY <1>1, <2>1 DEF Kept, Continued
  <2> QED
    BY <1>3, <1>5, <1>6, <2>2 DEF Policy, TokenConforms
<1>7. CASE ~classes[class].requiresKYC
  <2>1. byId'[t].claims = <<>>
    BY <1>1, <1>2, <1>4, <1>7 DEF Policy, Continued
  <2> QED
    BY <1>3, <1>5, <1>7, <2>1 DEF Policy, TokenConforms
<1> QED
  BY <1>6, <1>7

\* A new token meets it.
LEMMA PolicyMet ==
  ASSUME ComplianceInv, [Next]_vars, NEW t \in DOMAIN byId' \ DOMAIN byId
  PROVE  byId'[t].class \in DOMAIN classes' /\ Policy(t)'
<1>1. PICK token, class :
        /\ Minted(token, class)
        /\ byId'[t] = NewToken(token, class)
        /\ TokenTransactions(t)'[1].to = Caller(token)
  BY TokenCreated DEF ComplianceInv
<1>2. /\ UNCHANGED classes /\ UNCHANGED creds
      /\ class \in DOMAIN classes
      /\ classes[class].metadata = "conforming"
      /\ ComplianceOK(class, Caller(token))
  BY <1>1 DEF Minted, MintToken, credentialVars, TokenClassExists,
     TokenConforms, Caller
<1>3. /\ byId'[t].class = class
      /\ byId'[t].claims = ComplianceClaims(class, Caller(token))
  BY <1>1 DEF NewToken
<1>4. CASE classes[class].requiresKYC
  <2>1. PICK c : c = ValidCredentialFor(Caller(token))
    OBVIOUS
  <2>2. c \in ValidCredentialsFor(Caller(token)) /\ c \in DOMAIN creds
    BY <1>2, <1>4, <2>1, ValidCredentialForFound
       DEF ComplianceOK, ComplianceInv, LedgerInv, TypeInv, TypeOK
  <2>3. creds[c].holder = Caller(token)
    BY <2>2 DEF ValidCredentialsFor, CredentialsForHolder
  <2>4. byId'[t].claims = <<c>>
    BY <1>3, <1>4, <2>1 DEF ComplianceClaims
  <2> QED
    BY <1>1, <1>2, <1>3, <1>4, <2>2, <2>3, <2>4 DEF Policy, TokenConforms
<1>5. CASE ~classes[class].requiresKYC
  <2>1. byId'[t].claims = <<>>
    BY <1>3, <1>5 DEF ComplianceClaims
  <2> QED
    BY <1>2, <1>3, <1>5, <2>1 DEF Policy, TokenConforms
<1> QED
  BY <1>4, <1>5

\* Stored claims read the same after a step.
LEMMA ClaimsKept ==
  ASSUME Kept, NEW claims \in Seq(DOMAIN creds)
  PROVE  Claims(claims)' = Claims(claims)
<1>1. \A i \in DOMAIN claims : claims[i] \in DOMAIN creds
  OBVIOUS
<1> QED
  BY <1>1 DEF Kept, Claims

LEMMA CommittedKept ==
  ASSUME ComplianceInv, [Next]_vars, NEW t \in DOMAIN byId
  PROVE  Committed(t)'
<1>1. Continued(t) /\ Kept
  BY TokensContinued, CredentialsKept DEF ComplianceInv, LedgerInv
<1>2. PICK claims \in Seq(DOMAIN creds) : claims = byId[t].claims
  BY DEF ComplianceInv, LedgerInv, TypeInv, ClaimsStored
<1>3. Claims(claims)' = Claims(claims) /\ byId'[t].claims = claims
  BY <1>1, <1>2, ClaimsKept DEF Continued
<1>4. PICK old, new : /\ old = byId[t].stateCommitment
                      /\ new = byId'[t].stateCommitment
  OBVIOUS
<1>5. old \in Seq(Link) /\ \A i \in DOMAIN old : old[i].claims = Claims(claims)
  <2>1. byId[t] \in Token
    BY DEF ComplianceInv, LedgerInv, TypeInv, TypeOK, TokensTypeOK
  <2> QED
    BY <1>2, <1>4, <2>1 DEF Token, ComplianceInv, CommittedInv, Committed
<1>6. \A i \in DOMAIN new : new[i].claims = Claims(claims)
  <2>1. CASE new = old
    BY <1>5, <2>1
  <2>2. CASE \E link : link.claims = Claims(claims) /\ new = Append(old, link)
    BY <1>5, <2>2
  <2> QED
    BY <1>1, <1>2, <1>4, <2>1, <2>2 DEF Continued
<1> QED
  BY <1>3, <1>4, <1>6 DEF Committed

LEMMA CommittedMet ==
  ASSUME ComplianceInv, [Next]_vars, NEW t \in DOMAIN byId' \ DOMAIN byId
  PROVE  Committed(t)'
<1>1. PICK token, class :
        Minted(token, class) /\ byId'[t] = NewToken(token, class)
  BY TokenCreated DEF ComplianceInv
<1>2. PICK claims : claims = ComplianceClaims(class, Caller(token))
  OBVIOUS
<1>3. claims \in Seq(DOMAIN creds)
  BY <1>1, <1>2, ComplianceClaimsType
     DEF Minted, Caller, ComplianceInv, LedgerInv, TypeInv, TypeOK
<1>4. Claims(claims)' = Claims(claims)
  BY <1>3, ClaimsKept, CredentialsKept DEF ComplianceInv, LedgerInv
<1>5. byId'[t].claims = claims
  BY <1>1, <1>2 DEF NewToken
<1>6. PICK link :
        /\ link.claims = Claims(claims)
        /\ byId'[t].stateCommitment = <<link>>
  <2> DEFINE link == [txId |-> Len(txs) + 1, tokenId |-> NewId,
                      owner |-> Caller(token), claims |-> Claims(claims)]
  <2>1. byId'[t].stateCommitment = <<link>>
    BY <1>1, <1>2 DEF NewToken, MintCommitment, NextCommitment, ClaimsDigest
  <2>2. link.claims = Claims(claims)
    OBVIOUS
  <2> HIDE DEF link
  <2> QED
    BY <2>1, <2>2
<1> QED
  BY <1>4, <1>5, <1>6 DEF Committed

LEMMA ComplianceInvStep == ComplianceInv /\ [Next]_vars => ComplianceInv'
<1> SUFFICES ASSUME ComplianceInv, [Next]_vars PROVE ComplianceInv'
  OBVIOUS
<1>1. LedgerInv' /\ Filed'
  BY LedgerInvStep, FiledStep DEF ComplianceInv, CredentialInv, LedgerInv
<1>2. PolicyInv'
  BY PolicyKept, PolicyMet DEF PolicyInv
<1>3. CommittedInv'
  BY CommittedKept, CommittedMet DEF CommittedInv
<1> QED
  BY <1>1, <1>2, <1>3 DEF ComplianceInv

\* Wherever a token goes, it carries the credential its first owner was cleared
\* with, exactly when its class asks for one; no later registration changes
\* what its class asks for (tokens.ts 91-128).
THEOREM PolicyAlwaysHolds == Spec => []ClassPolicyHolds
<1>1. ComplianceInv => ClassPolicyHolds
  BY DEF ComplianceInv, PolicyInv, Policy, ClassPolicyHolds
<1> QED
  BY <1>1, ComplianceInvInit, ComplianceInvStep, PTL DEF Spec

\* What the chain committed to is what the token still carries, whatever became
\* of the credential (ledger.ts 88-107).
THEOREM ClaimsStayCommitted == Spec => []ClaimsCommitted
<1>1. ComplianceInv => ClaimsCommitted
  <2> SUFFICES ASSUME ComplianceInv, NEW t \in DOMAIN byId
               PROVE  /\ Committed(t)
                      /\ \A i \in DOMAIN byId[t].claims :
                           SignatureValid(creds[byId[t].claims[i]])
    BY DEF ClaimsCommitted, Committed
  <2>1. byId[t].claims \in Seq(DOMAIN creds)
    BY DEF ComplianceInv, LedgerInv, TypeInv, ClaimsStored
  <2>2. \A i \in DOMAIN byId[t].claims : byId[t].claims[i] \in DOMAIN creds
    BY <2>1
  <2> QED
    BY <2>2 DEF ComplianceInv, Filed, CommittedInv, SignatureValid
<1> QED
  BY <1>1, ComplianceInvInit, ComplianceInvStep, PTL DEF Spec

-----------------------------------------------------------------------------
(* Replies *)

\* An accepted transfer is done when its reply arrives, in every state in which
\* that reply is the last one (handlers.ts 268-279).
THEOREM AcceptedIsDone == Spec => []AcceptedMeansDone
<1> DEFINE Inv == LedgerInv /\ OwnerIndex /\ AcceptedMeansDone
<1>1. Init => Inv
  BY LedgerInvInit, StandinAssumption
     DEF Init, TokensInit, OwnerIndex, AcceptedMeansDone, Reply, Dids
<1>2. ASSUME Inv, [Next]_vars PROVE Inv'
  <2>1. /\ LedgerInv /\ LedgerInv' /\ OwnerIndex' /\ TypeInv
    BY <1>2, LedgerInvStep, OwnerIndexStep DEF LedgerInv
  <2>2. CASE reply'.status # 202 \/ reply'.op # "tokenTransact"
    BY <2>1, <2>2 DEF AcceptedMeansDone
  <2>3. CASE UNCHANGED <<ledgerVars, tokenVars, reply>>
    BY <1>2, <2>1, <2>3 DEF AcceptedMeansDone, ledgerVars, tokenVars,
       HasTransaction, HasProof, TokensForOwner
  <2>4. ASSUME NEW token, NEW id, NEW to, Transferred(token, id, to)
        PROVE  Inv'
    <3>1. PICK n, tx : n = Len(txs) + 1 /\ tx = TransferTx(token, id, to)
      OBVIOUS
    <3>2. /\ id \in DOMAIN byId' /\ Recipient(to) \in Dids /\ id \in TokenIds
          /\ byId'[id].owner = Recipient(to)
          /\ byId'[id].stateCommitment = NextHead(id, to)
      BY <2>1, <2>4, TransferredToken
    <3>3. Recorded(tx)
      BY <2>4, <3>1, TransferRecorded
    <3>4. n \in DOMAIN txs' /\ txs'[n] = tx /\ n \in DOMAIN leaves'
      BY <2>1, <3>1, <3>3
         DEF Recorded, BuildLog, LedgerInv, TypeInv, TypeOK, LedgerTypeOK,
             LedgerComplete
    <3>5. leaves'[n].txId = n
      BY <2>1, <3>4 DEF LedgerInv, LedgerComplete
    <3>6. tx.tokenId = id /\ tx.to = Recipient(to) /\ tx.stateAfter = NextHead(id, to)
      BY <3>1 DEF TransferTx
    <3>7. id \in ownerToIds'[Recipient(to)]
      BY <2>1, <3>2 DEF OwnerIndex
    <3>8. reply'.tokenId = id /\ reply'.txId = n
      BY <2>4, <3>1 DEF Transferred, Accepted, Reply
    <3>9. HasTransaction(n)' /\ HasProof(n)'
      BY <3>4, <3>5 DEF HasTransaction, HasProof
    <3> QED
      BY <2>1, <3>2, <3>4, <3>6, <3>7, <3>8, <3>9
         DEF AcceptedMeansDone, TokensForOwner, HasTransaction, HasProof
  <2>5. Refused \/ (\E a : Registered(a)) => reply'.status # 202
    BY DEF Refused, Registered, Ok, Reply
  <2>6. \A holder, subject, id :
          Issued(holder, subject) \/ Revoked(id) => reply'.status # 202
    BY DEF Issued, Revoked, Ok, Reply
  <2>7. \A name, definition :
          ClassAdded(name, definition) => reply'.status # 202
    BY DEF ClassAdded
  <2>8. \A token, class : Minted(token, class) => reply'.op # "tokenTransact"
    BY DEF Minted, Accepted, Reply
  <2>9. ClockTick \/ UNCHANGED vars
          => UNCHANGED <<ledgerVars, tokenVars, reply>>
    BY DEF ClockTick, vars, storeVars
  <2>10. CASE Effect
    <3> HIDE DEF Inv
    <3> QED
      BY <2>2, <2>3, <2>4, <2>5, <2>6, <2>7, <2>8, <2>9, <2>10, Zenon DEF Effect
  <2> QED
    BY <1>2, <2>3, <2>9, <2>10, StepEffect
<1> QED
  BY <1>1, <1>2, PTL DEF Spec
=============================================================================
