------------------------------ MODULE WalletApp ------------------------------
(***************************************************************************)
(* The wallet page (app/src/App.tsx) at work with the stand-in service.    *)
(*                                                                         *)
(* A section of the page has one asynchronous handler at a time: its       *)
(* button is disabled while it is busy.  Handlers of different sections,   *)
(* other clients and "start over" interleave at every await.  A request is *)
(* sent by the page, served by the service in one step (module Standin),   *)
(* and answered; it may also fail on its way, before or after it is        *)
(* served.  What the page does between two awaits, the rendering and the   *)
(* effects that follow included, is one step.                              *)
(*                                                                         *)
(* "Start over" unmounts the sections.  Their handlers go on: what they    *)
(* set in their own section is ignored, what they report to App is not.    *)
(* Each session has a number, its mount, that tells old handlers from new. *)
(*                                                                         *)
(* The clock stands still, as a session is short against the year a        *)
(* credential lasts, and only the page revokes its credentials.            *)
(* Requests that one Promise.all sends together are one: of searchKeys and *)
(* getAccount the key is kept, and of getProof, getTransaction and         *)
(* getToken only the last has an answer that changes with time.            *)
(***************************************************************************)
EXTENDS Standin, FiniteSets, SequencesExt

CONSTANTS
  OwnAddresses, \* addresses the user registers
  Recipients,   \* addresses the user sends tokens to, others may register
  Uses,         \* sets of sections a user may work with in one visit
  Messages,     \* the texts the user may type
  DefaultMessage, \* the text the signing section starts with
  MaxSessions,  \* bound on the sessions begun
  MaxLost       \* bound on the requests that fail on their way

Sections == {"account", "sign", "credential", "mint", "transfer"}

ASSUME WalletAppAssumption ==
  /\ OwnAddresses \cup Recipients \subseteq ValidAddresses
  /\ Uses \subseteq SUBSET Sections
  /\ DefaultMessage \in Messages
  /\ NoSubject \in Subjects  \* the page names no subject
  /\ MaxSessions \in Nat /\ MaxLost \in Nat

VARIABLES
  session,   \* App's session: an access token, or NoSession
  mount,     \* the number of the present or last session
  mintedId,  \* App's mintedId
  page,      \* the state of the mounted sections
  flow,      \* the running handler of each section, for each session
  searches,  \* the searches in flight, in the order they were sent
  lost,      \* requests that failed so far
  theirs,    \* access tokens of other clients
  uses,      \* the sections this user works with
  lastShown  \* whether the search shown last was overtaken by a later one
             \* ("late"), had failed ("lost"), or neither ("fresh")

serviceVars == <<storeVars, clock, reply>>
appVars == <<session, mount, mintedId, page>>
netVars == <<lost, theirs, uses>>
walletVars == <<serviceVars, appVars, flow, searches, netVars, lastShown>>

NoSession == 0
Nothing == 0

NoText == ""
NoSignature == [key |-> Nothing, message |-> NoText]

EmptyPage ==
  [key |-> Nothing, message |-> DefaultMessage, signature |-> NoSignature,
   signedMessage |-> NoText, verifyText |-> NoText,
   credential |-> Nothing, result |-> "none", credentialError |-> FALSE,
   minted |-> Nothing, held |-> Nothing, proof |-> Nothing,
   newOwner |-> Nothing, transferError |-> FALSE]

Slots == (0 .. MaxSessions) \X Sections

IdleFlow ==
  [step |-> "idle", served |-> FALSE, result |-> "none", value |-> Nothing,
   auth |-> NoSession, addr |-> NoAddress, item |-> Nothing,
   text |-> NoText, prefer |-> Nothing, tx |-> Nothing]

WalletInit ==
  /\ Init
  /\ session = NoSession /\ mount = 0 /\ mintedId = Nothing
  /\ page = EmptyPage
  /\ flow = [s \in Slots |-> IdleFlow]
  /\ searches = <<>>
  /\ lost = 0 /\ theirs = {} /\ uses \in Uses /\ lastShown = "fresh"

Busy(s) == flow[s].step # "idle"

\* The slot of a section as it is mounted now.
Slot(section) == <<mount, section>>

\* Mutation of Mounted: whatever is mounted takes the answer.
AnyMounted(s) == session # NoSession

Mounted(s) == session # NoSession /\ s[1] = mount

-----------------------------------------------------------------------------
(* The service's side of a request *)

Served(s, result, value) ==
  flow' = [flow EXCEPT ![s] =
             [@ EXCEPT !.served = TRUE, !.result = result, !.value = value]]

\* What client.ts makes of the envelope: an answer or an ApiError.
Result(answer) ==
  CASE answer.status \in {200, 201, 202} -> "ok"
    [] answer.code = "COMPLIANCE_CHECK_FAILED" -> "refused"
    [] OTHER -> "error"

\* The one record an answer is about, if it found any.
One(found) == IF found = {} THEN Nothing ELSE CHOOSE id \in found : TRUE

Serve(s) ==
  LET request == flow[s]
  IN  /\ ~request.served
      /\ \/ /\ \/ /\ request.step = "available"
                  /\ CheckAvailability(request.addr)
               \/ request.step = "profile" /\ KeysSearch(request.auth)
               \/ request.step = "sign" /\ KeyRequest("keysSign", request.item)
               \/ /\ request.step = "verify"
                  /\ CredentialVerify(request.item, "active")
               \/ request.step \in {"getToken", "fetch"} /\ TokenGet(request.item)
            /\ Served(s, Result(reply'), One(reply'.found))
         \/ /\ request.step = "create"
            /\ AccountCreate(request.addr)
            /\ Served(s, Result(reply'), Len(byToken'))
         \/ /\ request.step = "issue"
            /\ CredentialIssue(GetByToken(request.auth).did, NoSubject, TRUE)
            /\ Served(s, Result(reply'), Len(creds'))
         \/ /\ request.step = "revoke"
            /\ CredentialRevoke(request.item)
            /\ Served(s, Result(reply'), Nothing)
         \/ /\ request.step = "mint"
            /\ TokenMint(request.auth, PropDeed, TRUE)
            /\ Served(s, Result(reply'), reply'.tokenId)
         \/ /\ request.step = "transact"
            /\ TokenTransact(request.auth, "transfer", request.item, request.addr)
            /\ Served(s, Result(reply'), reply'.txId)
      /\ UNCHANGED <<appVars, searches, netVars, lastShown>>

\* A request fails on its way, served or not.
Lose(s) ==
  /\ flow[s].step \notin {"idle", "refresh"}
  /\ flow[s].result # "lost"
  /\ lost < MaxLost
  /\ lost' = lost + 1
  /\ Served(s, "lost", Nothing)
  /\ UNCHANGED <<serviceVars, appVars, searches, theirs, uses, lastShown>>

-----------------------------------------------------------------------------
(* The page's side *)

Request(call, step) ==
  [call EXCEPT !.step = step, !.served = FALSE, !.result = "none",
               !.value = Nothing]

Send(s, call, step) == flow' = [flow EXCEPT ![s] = Request(call, step)]

\* finally: the section is not busy any more.
End(s) == flow' = [flow EXCEPT ![s] = IdleFlow]

Answered(s, step) == flow[s].step = step /\ flow[s].served
Succeeded(s) == flow[s].result = "ok"

\* A section's state is set only while it is mounted.
Show(s, shown) == page' = IF Mounted(s) THEN shown ELSE page

\* refreshHeld: the search and the token it prefers are those of the render
\* in which the function was made.
Search(auth, m, prefer, transfer) ==
  [auth |-> auth, mount |-> m, prefer |-> prefer, transfer |-> transfer,
   served |-> FALSE, held |-> Nothing, fate |-> "fresh"]

Cleared(shown) ==
  [shown EXCEPT !.proof = Nothing, !.newOwner = Nothing,
                !.transferError = FALSE]

-----------------------------------------------------------------------------
(* CreateAccount: create *)

CreateClick(a) ==
  LET s == Slot("account")
  IN  /\ session = NoSession /\ mount < MaxSessions
      /\ ~Busy(s)
      /\ Send(s, [IdleFlow EXCEPT !.addr = a], "available")
      /\ UNCHANGED <<serviceVars, appVars, searches, netVars, lastShown>>

CreateFails(s) ==
  /\ flow[s].served
  /\ ~Succeeded(s) \/ (flow[s].step = "available" /\ flow[s].value # Nothing)
  /\ End(s)
  /\ UNCHANGED <<serviceVars, appVars, searches, netVars, lastShown>>

CreateContinues(s) ==
  /\ Succeeded(s)
  /\ \/ /\ Answered(s, "available") /\ flow[s].value = Nothing
        /\ Send(s, flow[s], "create")
     \/ /\ Answered(s, "create")
        /\ Send(s, [flow[s] EXCEPT !.auth = flow[s].value], "profile")
  /\ UNCHANGED <<serviceVars, appVars, searches, netVars, lastShown>>

\* onReady mounts the sections; the transfer section searches at once.
CreateReady(s) ==
  /\ Answered(s, "profile") /\ Succeeded(s)
  /\ session' = flow[s].auth
  /\ mount' = mount + 1
  /\ page' = [EmptyPage EXCEPT !.key = flow[s].value]
  /\ searches' =
       Append(searches, Search(flow[s].auth, mount + 1, mintedId, FALSE))
  /\ lastShown' = "fresh"
  /\ End(s)
  /\ UNCHANGED <<serviceVars, mintedId, netVars>>

\* reset
StartOver ==
  /\ session # NoSession /\ mount < MaxSessions
  /\ session' = NoSession
  /\ mintedId' = Nothing
  /\ page' = EmptyPage
  /\ lastShown' = "fresh"
  /\ UNCHANGED <<serviceVars, mount, flow, searches, netVars>>

-----------------------------------------------------------------------------
(* SignAndVerify: sign, and the two texts the user may edit at any time *)

SignClick ==
  LET s == Slot("sign")
  IN  /\ session # NoSession /\ ~Busy(s)
      /\ page.message # NoText
      /\ Send(s, [IdleFlow EXCEPT !.item = page.key, !.text = page.message],
              "sign")
      /\ UNCHANGED <<serviceVars, appVars, searches, netVars, lastShown>>

Edit(edited) ==
  /\ session # NoSession
  /\ page' = edited
  /\ UNCHANGED <<serviceVars, session, mount, mintedId, flow, searches, netVars,
                 lastShown>>

EditMessage(text) == Edit([page EXCEPT !.message = text])

EditVerifyText(text) ==
  /\ page.signature # NoSignature
  /\ Edit([page EXCEPT !.verifyText = text])

SignFails(s) ==
  /\ flow[s].served /\ ~Succeeded(s)
  /\ End(s)
  /\ UNCHANGED <<serviceVars, appVars, searches, netVars, lastShown>>

Signature(s) == [key |-> flow[s].value, message |-> flow[s].text]

\* Mutation of SignReady: the text is read again when the answer arrives.
SignReadsAgain(s) ==
  /\ Answered(s, "sign") /\ Succeeded(s)
  /\ Show(s, [page EXCEPT !.signature = Signature(s),
                          !.signedMessage = page.message,
                          !.verifyText = page.message])
  /\ End(s)
  /\ UNCHANGED <<serviceVars, session, mount, mintedId, searches, netVars,
                 lastShown>>

\* The text shown as signed is that of the click.
SignReady(s) ==
  /\ Answered(s, "sign") /\ Succeeded(s)
  /\ Show(s, [page EXCEPT !.signature = Signature(s),
                          !.signedMessage = flow[s].text,
                          !.verifyText = flow[s].text])
  /\ End(s)
  /\ UNCHANGED <<serviceVars, session, mount, mintedId, searches, netVars,
                 lastShown>>

\* verifyHashHex of the hash of the text below the signature: an ideal
\* signature verifies for its own key and text alone.
SignatureVerdict ==
  page.signature = [key |-> page.key, message |-> page.verifyText]

-----------------------------------------------------------------------------
(* Credentials: issue, reverify, revoke *)

Pending(steps) == Cardinality({s \in Slots : flow[s].step \in steps})

CredentialClick(step) ==
  LET s == Slot("credential")
  IN  /\ session # NoSession /\ ~Busy(s)
      /\ \/ /\ step = "issue" /\ page.credential = Nothing
            /\ Len(creds) + Pending({"issue"}) < MaxCreds
         \/ step = "verify" /\ page.credential # Nothing
         \/ step = "revoke" /\ page.result = "valid"
      /\ Send(s, [IdleFlow EXCEPT !.auth = session, !.item = page.credential],
              step)
      /\ page' = [page EXCEPT !.credentialError = FALSE]
      /\ UNCHANGED <<serviceVars, session, mount, mintedId, searches, netVars,
                     lastShown>>

CredentialFails(s) ==
  /\ flow[s].served /\ ~Succeeded(s)
  /\ Show(s, [page EXCEPT !.credentialError = TRUE])
  /\ End(s)
  /\ UNCHANGED <<serviceVars, session, mount, mintedId, searches, netVars,
                 lastShown>>

\* Mutation of CredentialContinues: a revocation that went through is not
\* followed by a verification.
RevokeEnds(s) ==
  /\ Succeeded(s)
  /\ \/ /\ Answered(s, "issue")
        /\ Show(s, [page EXCEPT !.credential = flow[s].value])
        /\ Send(s, [flow[s] EXCEPT !.item = flow[s].value], "verify")
     \/ /\ Answered(s, "revoke")
        /\ End(s)
        /\ UNCHANGED page
     \/ /\ Answered(s, "verify")
        /\ Show(s, [page EXCEPT !.result =
                      IF flow[s].value # Nothing THEN "valid" ELSE "revoked"])
        /\ End(s)
  /\ UNCHANGED <<serviceVars, session, mount, mintedId, searches, netVars,
                 lastShown>>

CredentialContinues(s) ==
  /\ Succeeded(s)
  /\ \/ /\ Answered(s, "issue")
        /\ Show(s, [page EXCEPT !.credential = flow[s].value])
        /\ Send(s, [flow[s] EXCEPT !.item = flow[s].value], "verify")
     \/ /\ Answered(s, "revoke")
        /\ Send(s, flow[s], "verify")
        /\ UNCHANGED page
     \/ /\ Answered(s, "verify")
        /\ Show(s, [page EXCEPT !.result =
                      IF flow[s].value # Nothing THEN "valid" ELSE "revoked"])
        /\ End(s)
  /\ UNCHANGED <<serviceVars, session, mount, mintedId, searches, netVars,
                 lastShown>>

-----------------------------------------------------------------------------
(* Tokens: mint *)

MintRoom ==
  /\ Len(byId) + Pending({"mint"}) < MaxTokens
  /\ Len(txs) + Pending({"mint", "available", "create", "transact"}) < MaxTxs

MintClick ==
  LET s == Slot("mint")
  IN  /\ session # NoSession /\ ~Busy(s)
      /\ MintRoom
      /\ Send(s, [IdleFlow EXCEPT !.auth = session], "mint")
      /\ UNCHANGED <<serviceVars, appVars, searches, netVars, lastShown>>

\* Only a refusal by the compliance hook empties the section.
MintFails(s) ==
  /\ flow[s].served /\ ~Succeeded(s)
  /\ Show(s, IF flow[s].result = "refused"
               THEN [page EXCEPT !.minted = Nothing] ELSE page)
  /\ End(s)
  /\ UNCHANGED <<serviceVars, session, mount, mintedId, searches, netVars,
                 lastShown>>

MintAccepted(s) ==
  /\ Answered(s, "mint") /\ Succeeded(s)
  /\ Send(s, [flow[s] EXCEPT !.item = flow[s].value], "getToken")
  /\ UNCHANGED <<serviceVars, appVars, searches, netVars, lastShown>>

\* Mutation of MintReady: the new token is shown in its own section only.
MintShown(s) ==
  LET id == flow[s].item
  IN  /\ Answered(s, "getToken") /\ Succeeded(s)
      /\ Show(s, [page EXCEPT !.minted = id])
      /\ End(s)
      /\ UNCHANGED <<serviceVars, session, mount, mintedId, searches, netVars,
                     lastShown>>

\* onMinted sets mintedId in App, mounted or not; when it is a new one, the
\* effect of the mounted transfer section clears that section and searches.
MintReady(s) ==
  LET id == flow[s].item
      shown == IF Mounted(s) THEN [page EXCEPT !.minted = id] ELSE page
  IN  /\ Answered(s, "getToken") /\ Succeeded(s)
      /\ mintedId' = id
      /\ IF session # NoSession /\ mintedId # id
           THEN /\ page' = Cleared(shown)
                /\ searches' = Append(searches, Search(session, mount, id, FALSE))
           ELSE /\ page' = shown
                /\ UNCHANGED searches
      /\ End(s)
      /\ UNCHANGED <<serviceVars, session, mount, netVars, lastShown>>

-----------------------------------------------------------------------------
(* Transfer: transfer, refreshHeld *)

TransferClick(to) ==
  LET s == Slot("transfer")
  IN  /\ session # NoSession /\ ~Busy(s)
      /\ page.held # Nothing /\ page.proof = Nothing
      /\ Len(txs) + Pending({"mint", "available", "create", "transact"}) < MaxTxs
      /\ Send(s, [IdleFlow EXCEPT !.auth = session, !.addr = to,
                                  !.item = page.held, !.prefer = mintedId],
              "available")
      /\ page' = [page EXCEPT !.transferError = FALSE]
      /\ UNCHANGED <<serviceVars, session, mount, mintedId, searches, netVars,
                     lastShown>>

\* Mutation of TransferFails: the error is shown and busy is not reset.
TransferFailsBusy(s) ==
  /\ flow[s].served /\ ~Succeeded(s)
  /\ Show(s, [page EXCEPT !.transferError = TRUE])
  /\ UNCHANGED <<serviceVars, session, mount, mintedId, flow, searches, netVars,
                 lastShown>>

TransferFails(s) ==
  /\ flow[s].served /\ ~Succeeded(s)
  /\ Show(s, [page EXCEPT !.transferError = TRUE])
  /\ End(s)
  /\ UNCHANGED <<serviceVars, session, mount, mintedId, searches, netVars,
                 lastShown>>

\* A recipient that does not exist is registered first.
TransferContinues(s) ==
  /\ Succeeded(s)
  /\ \/ /\ Answered(s, "available")
        /\ Send(s, flow[s], IF flow[s].value = Nothing THEN "create" ELSE "transact")
     \/ /\ Answered(s, "create")
        /\ Send(s, flow[s], "transact")
     \/ /\ Answered(s, "transact")
        /\ Send(s, [flow[s] EXCEPT !.tx = flow[s].value], "fetch")
  /\ UNCHANGED <<serviceVars, appVars, searches, netVars, lastShown>>

\* Mutation of TransferReady: the refresh is sent and not awaited.
RefreshNotAwaited(s) ==
  /\ Answered(s, "fetch") /\ Succeeded(s)
  /\ Show(s, [page EXCEPT !.proof = flow[s].tx, !.newOwner = flow[s].value])
  /\ End(s)
  /\ searches' =
       Append(searches, Search(flow[s].auth, s[1], flow[s].prefer, TRUE))
  /\ UNCHANGED <<serviceVars, session, mount, mintedId, netVars, lastShown>>

\* Mutation of TransferReady: the wallet is not asked again.
TransferShown(s) ==
  /\ Answered(s, "fetch") /\ Succeeded(s)
  /\ Show(s, [page EXCEPT !.proof = flow[s].tx, !.newOwner = flow[s].value])
  /\ End(s)
  /\ UNCHANGED <<serviceVars, session, mount, mintedId, searches, netVars,
                 lastShown>>

\* The refresh is the one of the click: it prefers the mintedId of then.
TransferReady(s) ==
  /\ Answered(s, "fetch") /\ Succeeded(s)
  /\ Show(s, [page EXCEPT !.proof = flow[s].tx, !.newOwner = flow[s].value])
  /\ Send(s, flow[s], "refresh")
  /\ searches' =
       Append(searches, Search(flow[s].auth, s[1], flow[s].prefer, TRUE))
  /\ UNCHANGED <<serviceVars, session, mount, mintedId, netVars, lastShown>>

\* searchTokens is served: the preferred token, or the first, or none.
ServeSearch(i) ==
  LET owned == reply'.found
      preferred == owned \cap {searches[i].prefer}
      candidates == IF preferred # {} THEN preferred
                    ELSE IF owned # {} THEN owned ELSE {Nothing}
  IN  /\ ~searches[i].served
      /\ TokenSearch(searches[i].auth)
      /\ \E id \in candidates :
           searches' = [searches EXCEPT ![i].served = TRUE, ![i].held = id]
      /\ UNCHANGED <<appVars, flow, netVars, lastShown>>

LoseSearch(i) ==
  /\ lost < MaxLost
  /\ lost' = lost + 1
  /\ searches' = [searches EXCEPT ![i].served = TRUE, ![i].held = Nothing,
                                 ![i].fate = "lost"]
  /\ UNCHANGED <<serviceVars, appVars, flow, theirs, uses, lastShown>>

\* The searches still in flight after the i-th is answered; those sent before
\* it are late.
Without(i) ==
  RemoveAt([j \in DOMAIN searches |->
              IF j < i /\ searches[j].mount = searches[i].mount
                THEN [searches[j] EXCEPT !.fate = "late"] ELSE searches[j]], i)

\* The answer is shown, whichever search it belongs to.
ShowSearch(i) ==
  LET search == searches[i]
      s == <<search.mount, "transfer">>
  IN  /\ search.served
      /\ searches' = Without(i)
      /\ IF Mounted(s)
           THEN /\ page' = [page EXCEPT !.held = search.held]
                /\ lastShown' = search.fate
           ELSE UNCHANGED <<page, lastShown>>
      /\ IF search.transfer THEN End(s) ELSE UNCHANGED flow
      /\ UNCHANGED <<serviceVars, session, mount, mintedId, netVars>>

-----------------------------------------------------------------------------
(* Other clients of the service *)

\* Someone else registers an address before the page does.
OtherRegisters(a) ==
  /\ ~AddressTaken(a)
  /\ AccountCreate(a)
  /\ theirs' = theirs \cup {Len(byToken')}
  /\ UNCHANGED <<appVars, flow, searches, lost, uses, lastShown>>

\* Whoever received a token hands it on.
OtherTransfers(auth, id, to) ==
  /\ Len(txs) + Pending({"mint", "available", "create", "transact"}) < MaxTxs
  /\ TokenTransact(auth, "transfer", id, to)
  /\ reply'.status = 202
  /\ UNCHANGED <<appVars, flow, searches, netVars, lastShown>>

-----------------------------------------------------------------------------
Continue(s) ==
  \/ /\ s[2] = "account"
     /\ CreateFails(s) \/ CreateContinues(s) \/ CreateReady(s)
  \/ /\ s[2] = "sign"
     /\ SignFails(s) \/ SignReady(s)
  \/ /\ s[2] = "credential"
     /\ CredentialFails(s) \/ CredentialContinues(s)
  \/ /\ s[2] = "mint"
     /\ MintFails(s) \/ MintAccepted(s) \/ MintReady(s)
  \/ /\ s[2] = "transfer"
     /\ TransferFails(s) \/ TransferContinues(s) \/ TransferReady(s)

Click ==
  \/ \E a \in OwnAddresses : "account" \in uses /\ CreateClick(a)
  \/ /\ "sign" \in uses
     /\ \/ SignClick
        \/ \E text \in Messages : EditMessage(text) \/ EditVerifyText(text)
  \/ \E step \in {"issue", "verify", "revoke"} :
       "credential" \in uses /\ CredentialClick(step)
  \/ "mint" \in uses /\ MintClick
  \/ \E to \in Recipients : "transfer" \in uses /\ TransferClick(to)
  \/ StartOver

WalletNext ==
  \/ Click
  \/ \E s \in Slots : Serve(s) \/ Continue(s) \/ Lose(s)
  \/ \E i \in DOMAIN searches :
       ServeSearch(i) \/ ShowSearch(i) \/ LoseSearch(i)
  \/ \E a \in Recipients : OtherRegisters(a)
  \/ \E auth \in theirs, id \in DOMAIN byId, to \in DOMAIN byAddress :
       OtherTransfers(auth, id, to)

WalletSpec == WalletInit /\ [][WalletNext]_walletVars

\* fetch settles, and the browser and the service run what is ready to run;
\* nothing makes the user click or other clients send requests.
FairWalletSpec ==
  /\ WalletSpec
  /\ \A s \in Slots : WF_walletVars(Serve(s)) /\ WF_walletVars(Continue(s))
  /\ WF_walletVars(\E i \in DOMAIN searches : ServeSearch(i))
  /\ WF_walletVars(\E i \in DOMAIN searches : ShowSearch(i))

-----------------------------------------------------------------------------
(* Properties *)

Steps ==
  {"idle", "available", "create", "profile", "sign", "issue", "verify", "revoke",
   "mint", "getToken", "transact", "fetch", "refresh"}

Known(ids) == ids \cup {Nothing}

PageTypeOK ==
  /\ {page.key, page.signature.key} \subseteq Known(DOMAIN byKeyId)
  /\ {page.message, page.signature.message, page.signedMessage,
      page.verifyText} \subseteq Messages \cup {NoText}
  /\ page.credential \in Known(DOMAIN creds)
  /\ page.result \in {"none", "valid", "revoked"}
  /\ {page.minted, page.held} \subseteq Known(DOMAIN byId)
  /\ page.proof \in Known(DOMAIN txs)
  /\ page.newOwner \in Known(Dids)
  /\ {page.credentialError, page.transferError} \subseteq BOOLEAN

\* The page refers to things the service knows, and the transfer section is
\* busy with a refresh exactly while it has a search of its own in flight.
WalletTypeOK ==
  /\ session \in Known(DOMAIN byToken)
  /\ mount \in 0 .. MaxSessions
  /\ mintedId \in Known(DOMAIN byId)
  /\ lastShown \in {"fresh", "late", "lost"} /\ uses \in Uses
  /\ PageTypeOK
  /\ \A s \in Slots : flow[s].step \in Steps
  /\ \A m \in 0 .. MaxSessions :
       Cardinality({i \in DOMAIN searches :
                      searches[i].mount = m /\ searches[i].transfer})
         = IF flow[<<m, "transfer">>].step = "refresh" THEN 1 ELSE 0

SessionDid == GetByToken(session).did

\* What is shown is the session's own, whatever handlers of an earlier session
\* are still running: its credential, the token it minted, a token it owned,
\* the transfer it made (App.tsx 45-49, 234-247, 391-416, 512-525, 656-716).
Isolation ==
  session # NoSession =>
    /\ page.credential # Nothing => creds[page.credential].holder = SessionDid
    /\ page.minted # Nothing =>
         txs[historyByToken[page.minted][1]].to = SessionDid
    /\ page.held # Nothing =>
         \E n \in DOMAIN txs :
           txs[n].tokenId = page.held /\ txs[n].to = SessionDid
    /\ page.proof # Nothing => txs[page.proof].from = SessionDid

\* The verdict below a signature is "valid" exactly for the text shown as the
\* one that was signed, and with the session's own key, whatever was typed
\* while the signature was on its way (App.tsx 299-319, 352-356).
SignedExactly ==
  session # NoSession /\ page.signature # NoSignature =>
    /\ page.signature.key = GetByToken(session).keyId
    /\ SignatureVerdict <=> page.verifyText = page.signedMessage

\* The progress rail: App's journey, which effects of the sections keep up to
\* date.  Its last stage adds the verdict on the proof, module MerkleProof.
Journey ==
  [credential |-> page.result = "valid", token |-> page.minted # Nothing,
   transfer |-> page.proof # Nothing]

CredentialSettled ==
  session # NoSession /\ ~Busy(Slot("credential")) /\ ~page.credentialError

\* Once the credential section is done and shows no error, a credential it and
\* the rail call valid is one the issuer calls valid: also after a revocation
\* whose verification failed, or an answer lost on its way (App.tsx 375-416).
VerdictFollows ==
  CredentialSettled /\ Journey.credential => Valid(creds[page.credential])

\* The new owner shown with a proof is one the token had from the proven
\* transfer on, though it is asked for after the transfer was accepted and
\* the recipient may have handed the token on by then (App.tsx 706-715).
NewOwnerHonest ==
  Journey.transfer =>
    \E n \in page.proof .. Len(txs) :
      txs[n].tokenId = txs[page.proof].tokenId /\ txs[n].to = page.newOwner

SearchesSettled == \A i \in DOMAIN searches : searches[i].mount # mount

TransferSettled ==
  /\ session # NoSession /\ ~Busy(Slot("transfer")) /\ ~page.transferError
  /\ SearchesSettled

\* The token the transfer section offers is still the session's, once nothing
\* is in flight and no error is shown, unless the answer of an older search
\* came last (App.tsx 653-663, 716).
HeldHonest ==
  TransferSettled /\ page.held # Nothing /\ lastShown # "late"
    => byId[page.held].owner = SessionDid

\* A token the page minted and never sent away does not stay out of the
\* transfer section: once the searches have been answered, something is
\* offered there, unless the last answer shown was that of a failed search or
\* of an older one (App.tsx 523-525, 665-674).
MintOffered ==
  /\ session # NoSession /\ SearchesSettled /\ lastShown = "fresh"
  /\ Journey.token /\ Len(historyByToken[page.minted]) = 1
  => page.held # Nothing

\* No section stays busy: whatever fails and whoever else is at work, every
\* handler comes to its finally (App.tsx 229-231, 380-389, 717-721).
HandlersEnd == \A s \in Slots : Busy(s) ~> ~Busy(s)

-----------------------------------------------------------------------------
(* Comments of the code that the code does not keep *)

\* App.tsx 666-667: "A new mint also retires the previous transfer's proof, so
\* steps 7-8 restart cleanly for the new token."
MintRetiresProof ==
  page.proof # Nothing /\ mintedId # Nothing =>
    historyByToken[mintedId][1] < page.proof

\* App.tsx 653-654: asking the server what we own "stays honest after the
\* token leaves us".
HeldStaysHonest ==
  TransferSettled /\ page.held # Nothing => byId[page.held].owner = SessionDid
=============================================================================
