-------------------------- MODULE WalletPageProofs --------------------------
(***************************************************************************)
(* Proofs of what the wallet page shows, on top of those about its         *)
(* handlers in WalletProofs.                                               *)
(***************************************************************************)
EXTENDS WalletProofs

USE StandinAssumption, AccountsAssumption, CredentialsAssumption,
    TokenClassesAssumption, LedgerAssumption, WalletAppAssumption

-----------------------------------------------------------------------------
(* What is shown is the session's own *)

\* What the credential section is busy with is the credential it shows, and a
\* verdict "valid" is true, or shown with an error, or about to be replaced.
CredentialTold(f, p) ==
  /\ f.step = "issue" => p.credential = Nothing
  /\ f.step \in {"verify", "revoke"} => f.item = p.credential
  /\ Got(f, "verify") /\ f.value # Nothing => Valid(creds[p.credential])
  /\ p.result = "valid" =>
       Valid(creds[p.credential]) \/ p.credentialError \/ f.step # "idle"

CredentialPageInv ==
  session # NoSession => CredentialTold(flow[Slot("credential")], page)

LEMMA PageFitsKept ==
  ASSUME Grows, NEW p, NEW n, NEW id, PageFits(p, n, id)
  PROVE  PageFits(p, n, id)'
<1>1. /\ p.credential # Nothing => IssuedTo(p.credential, n)'
      /\ p.minted # Nothing => MintedBy(p.minted, n)'
      /\ p.held # Nothing => ReceivedBy(p.held, n)'
  BY KnowledgeKept DEF PageFits
<1>2. ASSUME p.proof # Nothing
      PROVE  \E t \in DOMAIN byId' :
               SentBy(p.proof, t, n)' /\ OwnedSince(p.proof, t, p.newOwner)'
  <2>1. PICK t \in DOMAIN byId : SentBy(p.proof, t, n) /\ OwnedSince(p.proof, t, p.newOwner)
    BY <1>2 DEF PageFits
  <2>2. PICK o : o = p.newOwner
    OBVIOUS
  <2>3. t \in DOMAIN byId' /\ SentBy(p.proof, t, n)' /\ OwnedSince(p.proof, t, o)'
    BY <2>1, <2>2, KnowledgeKept DEF Grows
  <2> QED
    BY <2>2, <2>3
<1>3. id \in Known(DOMAIN byId)'
  BY DEF PageFits, Known, Grows
<1> QED
  BY <1>1, <1>2, <1>3 DEF PageFits

LEMMA EmptyPageFits ==
  ASSUME NEW n \in Nat, NEW id, id \in Known(DOMAIN byId), NEW p,
         p = [EmptyPage EXCEPT !.key = n]
  PROVE  /\ PageFits(p, n, id)
         /\ p.credential = Nothing /\ p.result = "none" /\ p.signature = NoSignature
<1>1. EmptyPage \in Page /\ EmptyPage.key = Nothing
  BY DEF EmptyPage, Page, NoSignature, Nothing, NoText
<1>2. p \in Page /\ p.key = n
  BY <1>1 DEF Page
<1>3. /\ p.credential = Nothing /\ p.minted = Nothing /\ p.held = Nothing
      /\ p.proof = Nothing /\ p.result = "none" /\ p.signature = NoSignature
  BY DEF EmptyPage
<1>4. n = NoSession => p = EmptyPage
  BY <1>1 DEF NoSession, Nothing, Page
<1> QED
  BY <1>2, <1>3, <1>4 DEF PageFits

LEMMA CreateReadyFits ==
  ASSUME StepAssumed, NEW s \in Slots, s[2] = "account", CreateReady(s)
  PROVE  PageFits(page', session', mintedId')
<1> USE DEF StepAssumed
<1>1. flow[s].value = flow[s].auth
  <2>1. GoodFlow("account", flow[s])
    BY DEF FlowInv
  <2> QED
    BY <2>1 DEF GoodFlow, AccountFlow, Got, CreateReady, Answered, Succeeded
<1>2. session' = flow[s].value /\ session' \in Nat
  BY <1>1, AccountReady, KnownAreNat
<1>3. page' = [EmptyPage EXCEPT !.key = session'] /\ mintedId' = mintedId
  BY <1>2 DEF CreateReady
<1>4. PICK n \in Nat : n = session'
  BY <1>2
<1>5. PICK p : p = [EmptyPage EXCEPT !.key = n]
  OBVIOUS
<1>6. mintedId \in Known(DOMAIN byId)
  BY DEF PageInv, PageFits
<1>7. PageFits(p, n, mintedId)
  BY <1>5, <1>6, EmptyPageFits
<1> QED
  BY <1>3, <1>4, <1>5, <1>7

LEMMA StartOverFits ==
  ASSUME StartOver
  PROVE  PageFits(page', session', mintedId')
<1>1. EmptyPage = [EmptyPage EXCEPT !.key = 0]
  <2>1. EmptyPage \in Page /\ EmptyPage.key = 0
    BY DEF EmptyPage, Page, NoSignature, Nothing, NoText
  <2> QED
    BY <2>1 DEF Page
<1>2. PageFits(EmptyPage, 0, Nothing)
  BY <1>1, EmptyPageFits DEF Known
<1> QED
  BY <1>2 DEF StartOver, NoSession

\* A page that differs in what no invariant is about.
SamePage(p) ==
  /\ p \in Page
  /\ p.key = page.key /\ p.credential = page.credential /\ p.result = page.result
  /\ p.minted = page.minted /\ p.held = page.held /\ p.proof = page.proof
  /\ p.newOwner = page.newOwner

LEMMA SamePageFits ==
  ASSUME PageInv, session # NoSession, NEW p, SamePage(p)
  PROVE  PageFits(p, session, mintedId)
BY DEF PageInv, PageFits, SamePage

LEMMA ClickFits ==
  ASSUME StepAssumed, Click
  PROVE  PageFits(page', session', mintedId')
<1> USE DEF StepAssumed
<1>1. page \in Page
  BY DEF PageInv, PageFits
<1>2. CASE UNCHANGED appVars
  BY <1>2 DEF appVars, PageInv
<1>3. ASSUME NEW text \in Messages, EditMessage(text)
      PROVE  PageFits(page', session', mintedId')
  <2>1. session # NoSession /\ page' = [page EXCEPT !.message = text]
        /\ UNCHANGED <<session, mintedId>>
    BY <1>3 DEF EditMessage, Edit
  <2>2. SamePage(page')
    BY <1>1, <2>1 DEF SamePage, Page
  <2> QED
    BY <2>1, <2>2, SamePageFits
<1>4. ASSUME NEW text \in Messages, EditVerifyText(text)
      PROVE  PageFits(page', session', mintedId')
  <2>1. session # NoSession /\ page' = [page EXCEPT !.verifyText = text]
        /\ UNCHANGED <<session, mintedId>>
    BY <1>4 DEF EditVerifyText, Edit
  <2>2. SamePage(page')
    BY <1>1, <2>1 DEF SamePage, Page
  <2> QED
    BY <2>1, <2>2, SamePageFits
<1>5. ASSUME NEW step, CredentialClick(step)
      PROVE  PageFits(page', session', mintedId')
  <2>1. session # NoSession /\ page' = [page EXCEPT !.credentialError = FALSE]
        /\ UNCHANGED <<session, mintedId>>
    BY <1>5 DEF CredentialClick
  <2>2. SamePage(page')
    BY <1>1, <2>1 DEF SamePage, Page
  <2> QED
    BY <2>1, <2>2, SamePageFits
<1>6. ASSUME NEW to, TransferClick(to)
      PROVE  PageFits(page', session', mintedId')
  <2>1. session # NoSession /\ page' = [page EXCEPT !.transferError = FALSE]
        /\ UNCHANGED <<session, mintedId>>
    BY <1>6 DEF TransferClick
  <2>2. SamePage(page')
    BY <1>1, <2>1 DEF SamePage, Page
  <2> QED
    BY <2>1, <2>2, SamePageFits
<1>7. ASSUME NEW a, CreateClick(a) PROVE UNCHANGED appVars
  BY <1>7 DEF CreateClick
<1>8. SignClick \/ MintClick => UNCHANGED appVars
  BY DEF SignClick, MintClick
<1> QED
  BY <1>2, <1>3, <1>4, <1>5, <1>6, <1>7, <1>8, StartOverFits DEF Click

LEMMA MountedIsOwn ==
  ASSUME OwnInv, NEW s \in Slots, Mounted(s), Busy(s)
  PROVE  /\ s = Slot(s[2]) /\ session # NoSession
         /\ s[2] \in Acting => flow[s].auth = session
         /\ s[2] = "sign" => flow[s].item = session
<1>1. s = Slot(s[2]) /\ session # NoSession
  BY SlotsAre DEF Mounted, Slot
<1> QED
  BY <1>1 DEF OwnInv

LEMMA SignReadyFits ==
  ASSUME StepAssumed, NEW s \in Slots, SignReady(s)
  PROVE  PageFits(page', session', mintedId')
<1> USE DEF StepAssumed
<1>1. page \in Page /\ flow[s] \in Flow
  BY RequestNames DEF PageInv, PageFits
<1>2. UNCHANGED <<session, mintedId>>
  BY DEF SignReady
<1>3. CASE Mounted(s)
  <2>1. page' = [page EXCEPT !.signature = Signature(s),
                             !.signedMessage = flow[s].text,
                             !.verifyText = flow[s].text]
    BY <1>3 DEF SignReady, Show
  <2>2. Signature(s) \in [key : Nat, message : Messages \cup {NoText}]
        /\ flow[s].text \in Messages \cup {NoText}
    BY <1>1 DEF Signature, Flow
  <2>3. SamePage(page')
    BY <1>1, <2>1, <2>2 DEF SamePage, Page
  <2> QED
    BY <1>2, <1>3, <2>3, SamePageFits DEF Mounted
<1>4. CASE ~Mounted(s)
  BY <1>2, <1>4 DEF SignReady, Show, PageInv
<1> QED
  BY <1>3, <1>4

LEMMA FailsFits ==
  ASSUME StepAssumed, NEW s \in Slots,
         CredentialFails(s) \/ MintFails(s) \/ TransferFails(s)
  PROVE  PageFits(page', session', mintedId')
<1> USE DEF StepAssumed
<1>1. page \in Page
  BY DEF PageInv, PageFits
<1>2. UNCHANGED <<session, mintedId>>
  BY DEF CredentialFails, MintFails, TransferFails
<1>3. CASE UNCHANGED page
  BY <1>2, <1>3 DEF PageInv
<1>4. CASE Mounted(s) /\ page' = [page EXCEPT !.credentialError = TRUE]
  <2>1. SamePage(page')
    BY <1>1, <1>4 DEF SamePage, Page
  <2> QED
    BY <1>2, <1>4, <2>1, SamePageFits DEF Mounted
<1>5. CASE Mounted(s) /\ page' = [page EXCEPT !.transferError = TRUE]
  <2>1. SamePage(page')
    BY <1>1, <1>5 DEF SamePage, Page
  <2> QED
    BY <1>2, <1>5, <2>1, SamePageFits DEF Mounted
<1>6. CASE Mounted(s) /\ page' = [page EXCEPT !.minted = Nothing]
  <2>1. PICK p : p = [page EXCEPT !.minted = Nothing]
    OBVIOUS
  <2>2. /\ p \in Page /\ p.key = page.key /\ p.credential = page.credential
        /\ p.result = page.result /\ p.minted = Nothing /\ p.held = page.held
        /\ p.proof = page.proof /\ p.newOwner = page.newOwner
    BY <1>1, <2>1 DEF Page, Nothing
  <2>3. PageFits(p, session, mintedId)
    BY <1>6, <2>2 DEF PageInv, PageFits, Mounted
  <2> QED
    BY <1>2, <1>6, <2>1, <2>3
<1> QED
  BY <1>3, <1>4, <1>5, <1>6 DEF CredentialFails, MintFails, TransferFails, Show

LEMMA CredentialContinuesFits ==
  ASSUME StepAssumed, OwnInv, CredentialPageInv, NEW s \in Slots,
         s[2] = "credential", CredentialContinues(s)
  PROVE  PageFits(page', session', mintedId')
<1> USE DEF StepAssumed
<1>1. page \in Page
  BY DEF PageInv, PageFits
<1>2. UNCHANGED <<session, mintedId>>
  BY DEF CredentialContinues
<1>3. CASE UNCHANGED page
  BY <1>2, <1>3 DEF PageInv
<1>4. CASE /\ Mounted(s) /\ Got(flow[s], "issue")
           /\ page' = [page EXCEPT !.credential = flow[s].value]
  <2>1. Busy(s)
    BY <1>4 DEF Got, Busy
  <2>2. PICK f : f = flow[s]
    OBVIOUS
  <2>3. /\ f \in Flow /\ GoodFlow("credential", f) /\ f.auth = session
        /\ session # NoSession
    BY <1>4, <2>1, <2>2, MountedIsOwn, RequestNames DEF Acting
  <2>4. IssuedTo(f.value, session) /\ f.value \in Nat
    BY <1>4, <2>2, <2>3 DEF GoodFlow, CredentialFlow, Flow
  <2>5. f.value # Nothing
    BY <2>4, KnownAreNat DEF IssuedTo, Nothing
  <2>6. PICK p : p = [page EXCEPT !.credential = f.value]
    OBVIOUS
  <2>7. /\ p \in Page /\ p.key = page.key /\ p.credential = f.value
        /\ p.result = page.result /\ p.minted = page.minted /\ p.held = page.held
        /\ p.proof = page.proof /\ p.newOwner = page.newOwner
    BY <1>1, <2>4, <2>6 DEF Page
  <2>8. PageFits(p, session, mintedId)
    BY <2>3, <2>4, <2>5, <2>7 DEF PageInv, PageFits
  <2> QED
    BY <1>2, <1>4, <2>2, <2>6, <2>8
<1>5. ASSUME Mounted(s), Got(flow[s], "verify"), NEW r \in {"valid", "revoked"},
             page' = [page EXCEPT !.result = r]
      PROVE  PageFits(page', session', mintedId')
  <2>1. Busy(s)
    BY <1>5 DEF Got, Busy
  <2>2. s = Slot("credential") /\ session # NoSession
    BY <1>5, <2>1, MountedIsOwn
  <2>3. flow[s].item = page.credential
    BY <1>5, <2>2 DEF CredentialPageInv, CredentialTold, Got
  <2>4. page.credential # Nothing
    BY <1>5, <2>3, RequestNames, KnownAreNat DEF Got, IssuedTo, Nothing
  <2>5. PICK p : p = [page EXCEPT !.result = r]
    OBVIOUS
  <2>6. /\ p \in Page /\ p.key = page.key /\ p.credential = page.credential
        /\ p.minted = page.minted /\ p.held = page.held
        /\ p.proof = page.proof /\ p.newOwner = page.newOwner
    BY <1>1, <2>5 DEF Page
  <2>7. PageFits(p, session, mintedId)
    BY <2>2, <2>4, <2>6 DEF PageInv, PageFits
  <2> QED
    BY <1>2, <1>5, <2>5, <2>7
<1>6. \/ Got(flow[s], "issue") /\ Show(s, [page EXCEPT !.credential = flow[s].value])
      \/ UNCHANGED page
      \/ Got(flow[s], "verify")
           /\ Show(s, [page EXCEPT !.result =
                         IF flow[s].value # Nothing THEN "valid" ELSE "revoked"])
  BY DEF CredentialContinues, Answered, Succeeded, Got
<1> QED
  BY <1>3, <1>4, <1>5, <1>6 DEF Show

LEMMA MintReadyFits ==
  ASSUME StepAssumed, OwnInv, NEW s \in Slots, s[2] = "mint", MintReady(s)
  PROVE  PageFits(page', session', mintedId')
<1> USE DEF StepAssumed
<1> PICK f : f = flow[s]
  OBVIOUS
<1> PICK id : id = f.item
  OBVIOUS
<1>1. page \in Page
  BY DEF PageInv, PageFits
<1>2. session' = session /\ mintedId' = id
  BY DEF MintReady
<1>3. Busy(s) /\ f \in Flow /\ MintedBy(id, f.auth)
  BY RequestNames DEF MintReady, Answered, Busy
<1>4. id \in DOMAIN byId /\ id # Nothing /\ id \in Nat
  BY <1>3, KnownAreNat DEF MintedBy, Nothing
<1>5. Mounted(s) => MintedBy(id, session) /\ session # NoSession
  BY <1>3, MountedIsOwn DEF Acting
<1>6. PICK p : p = IF Mounted(s) THEN [page EXCEPT !.minted = id] ELSE page
  OBVIOUS
<1>7. PageFits(p, session, id) /\ p \in Page
  <2>1. CASE Mounted(s)
    <3>1. /\ p \in Page /\ p.key = page.key /\ p.credential = page.credential
          /\ p.result = page.result /\ p.minted = id /\ p.held = page.held
          /\ p.proof = page.proof /\ p.newOwner = page.newOwner
      BY <1>1, <1>4, <1>6, <2>1 DEF Page
    <3> QED
      BY <1>4, <1>5, <2>1, <3>1 DEF PageInv, PageFits, Known
  <2>2. CASE ~Mounted(s)
    BY <1>1, <1>4, <1>6, <2>2 DEF PageInv, PageFits, Known
  <2> QED
    BY <2>1, <2>2
<1>8. CASE page' = p
  BY <1>2, <1>7, <1>8
<1>9. CASE session # NoSession /\ page' = Cleared(p)
  <2>1. PICK c : c = Cleared(p)
    OBVIOUS
  <2>2. /\ c \in Page /\ c.key = p.key /\ c.credential = p.credential
        /\ c.result = p.result /\ c.minted = p.minted /\ c.held = p.held
        /\ c.proof = Nothing
    BY <1>7, <2>1 DEF Cleared, Page, Nothing
  <2>3. PageFits(c, session, id)
    BY <1>7, <1>9, <2>2 DEF PageFits
  <2> QED
    BY <1>2, <1>9, <2>1, <2>3
<1>10. (session # NoSession /\ page' = Cleared(p)) \/ page' = p
  BY <1>6 DEF MintReady
<1> QED
  BY <1>8, <1>9, <1>10

LEMMA TransferReadyFits ==
  ASSUME StepAssumed, OwnInv, NEW s \in Slots, s[2] = "transfer", TransferReady(s)
  PROVE  PageFits(page', session', mintedId')
<1> USE DEF StepAssumed
<1> PICK f : f = flow[s]
  OBVIOUS
<1>1. page \in Page
  BY DEF PageInv, PageFits
<1>2. UNCHANGED <<session, mintedId>>
  BY DEF TransferReady
<1>3. /\ Busy(s) /\ f \in Flow /\ GoodFlow("transfer", f) /\ Got(f, "fetch")
      /\ f.item \in DOMAIN byId
  BY RequestNames DEF TransferReady, Answered, Succeeded, Busy, Got
<1>4. CASE Mounted(s)
  <2>1. f.auth = session /\ session # NoSession
    BY <1>3, <1>4, MountedIsOwn DEF Acting
  <2>2. /\ SentBy(f.tx, f.item, session) /\ OwnedSince(f.tx, f.item, f.value)
        /\ f.tx \in Nat /\ f.value \in Nat
    BY <1>3, <2>1 DEF GoodFlow, TransferFlow, Got, Flow
  <2>3. PICK p : p = [page EXCEPT !.proof = f.tx, !.newOwner = f.value]
    OBVIOUS
  <2>4. /\ p \in Page /\ p.key = page.key /\ p.credential = page.credential
        /\ p.result = page.result /\ p.minted = page.minted /\ p.held = page.held
        /\ p.proof = f.tx /\ p.newOwner = f.value
    BY <1>1, <2>2, <2>3 DEF Page
  <2>5. PageFits(p, session, mintedId)
    BY <1>3, <2>1, <2>2, <2>4 DEF PageInv, PageFits
  <2>6. page' = p
    BY <1>4, <2>3 DEF TransferReady, Show
  <2> QED
    BY <1>2, <2>5, <2>6
<1>5. CASE ~Mounted(s)
  BY <1>2, <1>5 DEF TransferReady, Show, PageInv
<1> QED
  BY <1>4, <1>5

LEMMA ShowSearchFits ==
  ASSUME StepAssumed, OwnInv, NEW i \in 1 .. Len(searches), ShowSearch(i)
  PROVE  PageFits(page', session', mintedId')
<1> USE DEF StepAssumed
<1> PICK old : old = searches[i]
  OBVIOUS
<1>1. page \in Page /\ old \in InFlight /\ GoodSearch(old)
  BY DEF PageInv, PageFits, FlowInv
<1>2. UNCHANGED <<session, mintedId>>
  BY DEF ShowSearch
<1>3. CASE session # NoSession /\ old.mount = mount
  <2>1. page' = [page EXCEPT !.held = old.held]
    BY <1>3 DEF ShowSearch, Mounted
  <2>2. old.auth = session
    BY <1>3 DEF OwnInv
  <2>3. old.held # Nothing => ReceivedBy(old.held, session)
    BY <1>1, <2>2 DEF GoodSearch
  <2>4. PICK p : p = [page EXCEPT !.held = old.held]
    OBVIOUS
  <2>5. /\ p \in Page /\ p.key = page.key /\ p.credential = page.credential
        /\ p.result = page.result /\ p.minted = page.minted /\ p.held = old.held
        /\ p.proof = page.proof /\ p.newOwner = page.newOwner
    BY <1>1, <2>4 DEF Page, InFlight
  <2>6. PageFits(p, session, mintedId)
    BY <1>3, <2>3, <2>5 DEF PageInv, PageFits
  <2> QED
    BY <1>2, <2>1, <2>4, <2>6
<1>4. CASE ~(session # NoSession /\ old.mount = mount)
  BY <1>2, <1>4 DEF ShowSearch, Mounted, PageInv
<1> QED
  BY <1>3, <1>4

LEMMA PageInvStep ==
  ASSUME StepAssumed, OwnInv, CredentialPageInv, [WalletNext]_walletVars
  PROVE  PageInv'
<1>1. UNCHANGED appVars => PageFits(page', session', mintedId')
  BY DEF appVars, StepAssumed, PageInv
<1>2. ASSUME NEW s \in Slots, Continue(s)
      PROVE  PageFits(page', session', mintedId')
  <2>1. CASE s[2] = "account" /\ CreateReady(s)
    BY <2>1, CreateReadyFits
  <2>2. CASE SignReady(s)
    BY <2>2, SignReadyFits
  <2>3. CASE CredentialFails(s) \/ MintFails(s) \/ TransferFails(s)
    BY <2>3, FailsFits
  <2>4. CASE s[2] = "credential" /\ CredentialContinues(s)
    BY <2>4, CredentialContinuesFits
  <2>5. CASE s[2] = "mint" /\ MintReady(s)
    BY <2>5, MintReadyFits
  <2>6. CASE s[2] = "transfer" /\ TransferReady(s)
    BY <2>6, TransferReadyFits
  <2>7. CASE CreateFails(s) \/ CreateContinues(s) \/ SignFails(s)
               \/ MintAccepted(s) \/ TransferContinues(s)
    BY <1>1, <2>7 DEF CreateFails, CreateContinues, SignFails, MintAccepted,
       TransferContinues
  <2> QED
    BY <1>2, <2>1, <2>2, <2>3, <2>4, <2>5, <2>6, <2>7 DEF Continue
<1>3. ASSUME NEW s, Serve(s) \/ Lose(s) PROVE UNCHANGED appVars
  BY <1>3 DEF Serve, Lose
<1>4. ASSUME NEW i \in DOMAIN searches,
             ServeSearch(i) \/ ShowSearch(i) \/ LoseSearch(i)
      PROVE  PageFits(page', session', mintedId')
  <2>1. i \in 1 .. Len(searches)
    BY DEF StepAssumed, FlowInv
  <2>2. ServeSearch(i) \/ LoseSearch(i) => UNCHANGED appVars
    BY DEF ServeSearch, LoseSearch
  <2> QED
    BY <1>1, <1>4, <2>1, <2>2, ShowSearchFits
<1>5. ASSUME NEW a, OtherRegisters(a) PROVE UNCHANGED appVars
  BY <1>5 DEF OtherRegisters
<1>6. ASSUME NEW auth, NEW id, NEW to, OtherTransfers(auth, id, to)
      PROVE  UNCHANGED appVars
  BY <1>6 DEF OtherTransfers
<1>7. UNCHANGED walletVars => UNCHANGED appVars
  BY DEF walletVars, appVars
<1>8. PageFits(page', session', mintedId')
  BY <1>1, <1>2, <1>3, <1>4, <1>5, <1>6, <1>7, ClickFits DEF WalletNext
<1>9. PICK p, n, id : p = page' /\ n = session' /\ id = mintedId'
  OBVIOUS
<1>10. PageFits(p, n, id)'
  BY <1>8, <1>9, PageFitsKept DEF StepAssumed
<1> QED
  BY <1>9, <1>10 DEF PageInv

-----------------------------------------------------------------------------
(* The credential section *)

SameCredentials ==
  /\ clock' = clock
  /\ \A c \in DOMAIN creds : c \in DOMAIN creds' /\ creds'[c] = creds[c]

LEMMA ReadsChangeNothing ==
  \A a, n, c, t :
    \/ CheckAvailability(a) \/ KeysSearch(n) \/ KeyRequest("keysSign", n)
    \/ CredentialVerify(c, "active") \/ TokenGet(t) \/ TokenSearch(n)
    => Unserved
BY DEF CheckAvailability, KeysSearch, KeyRequest, CredentialVerify, TokenGet,
   TokenSearch, AccountRequest, FoundOr, Found, Fail, Unserved

LEMMA UnservedSame == Unserved => SameCredentials
BY DEF Unserved, storeVars, SameCredentials

\* A credential changes only when it is revoked, and only the page does that.
LEMMA ServeCredentials ==
  ASSUME StepAssumed, NEW s \in Slots, Serve(s), flow[s].step # "revoke"
  PROVE  SameCredentials
<1> USE DEF StepAssumed
<1> PICK f : f = flow[s]
  OBVIOUS
<1>1. ASSUME NEW a, AccountCreate(a) PROVE SameCredentials
  <2>1. Registered(a) => SameCredentials
    BY DEF Registered, SameCredentials
  <2> QED
    BY <1>1, <2>1, CreateAnswer, UnservedSame
<1>2. ASSUME NEW holder, CredentialIssue(holder, NoSubject, TRUE)
      PROVE  SameCredentials
  <2>1. Issued(holder, NoSubject) => SameCredentials
    BY IssuedCredential DEF SameCredentials, ServiceInv, LedgerInv
  <2> QED
    BY <1>2, <2>1, IssueAnswer, UnservedSame
<1>3. ASSUME NEW token, NEW class, TokenMint(token, class, TRUE)
      PROVE  SameCredentials
  <2>1. Minted(token, class) => SameCredentials
    BY DEF Minted, MintToken, credentialVars, SameCredentials
  <2> QED
    BY <1>3, <2>1, MintAnswer, UnservedSame
<1>4. ASSUME NEW token, NEW id, NEW to, TokenTransact(token, "transfer", id, to)
      PROVE  SameCredentials
  <2>1. Transferred(token, id, to) => SameCredentials
    BY DEF Transferred, TransferToken, credentialVars, SameCredentials
  <2> QED
    BY <1>4, <2>1, TransactAnswer, UnservedSame
<1> QED
  BY <1>1, <1>2, <1>3, <1>4, ReadsChangeNothing, UnservedSame DEF Serve

LEMMA OtherCredentials ==
  ASSUME StepAssumed, [WalletNext]_walletVars,
         \A s \in Slots : ~(Serve(s) /\ flow[s].step = "revoke")
  PROVE  SameCredentials
<1> USE DEF StepAssumed
<1>1. UNCHANGED serviceVars => SameCredentials
  BY UnservedSame DEF serviceVars, Unserved
<1>2. ASSUME NEW s \in Slots, Serve(s) PROVE SameCredentials
  BY <1>2, ServeCredentials
<1>3. ASSUME NEW i, ServeSearch(i) PROVE SameCredentials
  BY <1>3, ReadsChangeNothing, UnservedSame DEF ServeSearch
<1>4. ASSUME NEW a \in Recipients, OtherRegisters(a) PROVE SameCredentials
  <2>1. Registered(a) => SameCredentials
    BY DEF Registered, SameCredentials
  <2> QED
    BY <1>4, <2>1, CreateAnswer, UnservedSame DEF OtherRegisters
<1>5. ASSUME NEW auth, NEW id, NEW to, OtherTransfers(auth, id, to)
      PROVE  SameCredentials
  <2>1. Transferred(auth, id, to) => SameCredentials
    BY DEF Transferred, TransferToken, credentialVars, SameCredentials
  <2> QED
    BY <1>5, <2>1, TransactAnswer, UnservedSame DEF OtherTransfers
<1>6. Click => UNCHANGED serviceVars
  BY DEF Click, CreateClick, SignClick, EditMessage, EditVerifyText, Edit,
     CredentialClick, MintClick, TransferClick, StartOver
<1>7. ASSUME NEW s \in Slots, Continue(s) PROVE UNCHANGED serviceVars
  BY <1>7 DEF Continue, CreateFails, CreateContinues, CreateReady, SignFails,
     SignReady, CredentialFails, CredentialContinues, MintFails, MintAccepted,
     MintReady, TransferFails, TransferContinues, TransferReady
<1>8. ASSUME NEW s \in Slots, Lose(s) PROVE UNCHANGED serviceVars
  BY <1>8 DEF Lose
<1>9. ASSUME NEW i, ShowSearch(i) \/ LoseSearch(i) PROVE UNCHANGED serviceVars
  BY <1>9 DEF ShowSearch, LoseSearch
<1>10. UNCHANGED walletVars => UNCHANGED serviceVars
  BY DEF walletVars
<1> QED
  BY <1>1, <1>2, <1>3, <1>4, <1>5, <1>6, <1>7, <1>8, <1>9, <1>10 DEF WalletNext

LEMMA ValidStays ==
  ASSUME StepAssumed, NEW c \in DOMAIN creds, c \in DOMAIN creds',
         creds'[c] = creds[c], clock' = clock
  PROVE  Valid(creds[c])' <=> Valid(creds[c])
<1>1. creds[c].id = c
  BY DEF StepAssumed, ServiceInv, Filed
<1> QED
  BY <1>1 DEF Valid, SignatureValid, StatusOf, NotExpired

\* The session's credentials are revoked by its own section alone: handlers of
\* earlier sessions act for other accounts.
LEMMA OwnCredentialStays ==
  ASSUME StepAssumed, Exclusive, [WalletNext]_walletVars, session # NoSession,
         NEW c, IssuedTo(c, session),
         ~(Serve(Slot("credential")) /\ flow[Slot("credential")].step = "revoke")
  PROVE  Valid(creds[c])' <=> Valid(creds[c])
<1> USE DEF StepAssumed
<1>1. c \in DOMAIN creds
  BY DEF IssuedTo
<1>2. CASE SameCredentials
  BY <1>1, <1>2, ValidStays DEF SameCredentials
<1>3. ASSUME NEW s \in Slots, Serve(s), flow[s].step = "revoke"
      PROVE  Valid(creds[c])' <=> Valid(creds[c])
  <2>1. PICK id : id = flow[s].item
    OBVIOUS
  <2>2. s[2] = "credential" /\ IssuedTo(id, flow[s].auth) /\ Busy(s)
    BY <1>3, <2>1, RequestNames DEF Busy
  <2>3. CredentialRevoke(id)
    BY <1>3, <2>1 DEF Serve
  <2>4. CASE Unserved
    BY <1>2, <2>4, UnservedSame
  <2>5. CASE Revoked(id) /\ c # id
    <3>a. TypeInv
      BY DEF ServiceInv, LedgerInv
    <3>b. /\ DOMAIN creds' = DOMAIN creds
          /\ \A d \in DOMAIN creds : d # id => creds'[d] = creds[d]
          /\ clock' = clock
      BY <2>5, <3>a, RevokedCredential
    <3>1. creds'[c] = creds[c] /\ c \in DOMAIN creds' /\ clock' = clock
      BY <1>1, <2>5, <3>b
    <3> QED
      BY <1>1, <3>1, ValidStays
  <2>6. CASE c = id
    <3>1. flow[s].auth = session
      BY <2>2, <2>6 DEF IssuedTo
    <3>2. Current = session /\ Current # Nothing
      BY DEF Current, NoSession, Nothing
    <3>3. Mounted(s)
      BY <2>2, <3>1, <3>2 DEF Exclusive, Acting
    <3>4. s = Slot("credential")
      BY <2>2, <3>3, SlotsAre DEF Mounted, Slot
    <3> QED
      BY <1>3, <3>4
  <2> QED
    BY <2>3, <2>4, <2>5, <2>6, RevokeAnswer
<1> QED
  BY <1>2, <1>3, OtherCredentials

\* What the credential section and its handler do, in a session that stays.
Shown(p) == <<p.credential, p.result, p.credentialError>>

CredentialActs(s) ==
  \/ \E step \in {"issue", "verify", "revoke"} : CredentialClick(step)
  \/ CredentialFails(s) \/ CredentialContinues(s)
  \/ Serve(s) \/ Lose(s)

LEMMA OtherSlot ==
  ASSUME FlowInv, NEW s \in Slots, NEW x, x # s,
         \E g : flow' = [flow EXCEPT ![x] = g]
  PROVE  flow'[s] = flow[s]
BY DEF FlowInv

LEMMA OtherPage ==
  ASSUME PageInv
  PROVE  /\ \A text : Shown([page EXCEPT !.message = text]) = Shown(page)
         /\ \A text : Shown([page EXCEPT !.verifyText = text]) = Shown(page)
         /\ \A b : Shown([page EXCEPT !.transferError = b]) = Shown(page)
         /\ \A id : Shown([page EXCEPT !.minted = id]) = Shown(page)
         /\ \A id : Shown([page EXCEPT !.held = id]) = Shown(page)
         /\ \A x, n : Shown([page EXCEPT !.proof = x, !.newOwner = n]) = Shown(page)
         /\ \A a, b, c : Shown([page EXCEPT !.signature = a, !.signedMessage = b,
                                           !.verifyText = c]) = Shown(page)
         /\ Shown(Cleared(page)) = Shown(page)
         /\ \A id : Shown(Cleared([page EXCEPT !.minted = id])) = Shown(page)
<1>1. page \in Page
  BY DEF PageInv, PageFits
<1>2. /\ \A text : Shown([page EXCEPT !.message = text]) = Shown(page)
      /\ \A text : Shown([page EXCEPT !.verifyText = text]) = Shown(page)
      /\ \A b : Shown([page EXCEPT !.transferError = b]) = Shown(page)
      /\ \A id : Shown([page EXCEPT !.minted = id]) = Shown(page)
      /\ \A id : Shown([page EXCEPT !.held = id]) = Shown(page)
  BY <1>1 DEF Page, Shown
<1>3. \A x, n : Shown([page EXCEPT !.proof = x, !.newOwner = n]) = Shown(page)
  BY <1>1 DEF Page, Shown
<1>4. \A a, b, c : Shown([page EXCEPT !.signature = a, !.signedMessage = b,
                                    !.verifyText = c]) = Shown(page)
  BY <1>1 DEF Page, Shown
<1>5. /\ Shown(Cleared(page)) = Shown(page)
      /\ \A id : Shown(Cleared([page EXCEPT !.minted = id])) = Shown(page)
  BY <1>1 DEF Page, Shown, Cleared
<1> QED
  BY <1>2, <1>3, <1>4, <1>5

LEMMA CredentialFrame ==
  ASSUME StepAssumed, [WalletNext]_walletVars, UNCHANGED <<session, mount>>,
         session # NoSession, NEW s, s = Slot("credential")
  PROVE  \/ CredentialActs(s)
         \/ flow'[s] = flow[s] /\ Shown(page') = Shown(page)
<1> USE DEF StepAssumed
<1>1. s \in Slots /\ s[1] = mount /\ s[2] = "credential" /\ s = <<mount, "credential">>
  BY SlotIsSlot DEF Sections, Slot
<1> DEFINE Same == flow'[s] = flow[s] /\ Shown(page') = Shown(page)
<1>2. CASE UNCHANGED <<flow, page>>
  BY <1>2
<1>3. ASSUME Click PROVE CredentialActs(s) \/ Same
  <2>1. ASSUME NEW a, CreateClick(a) PROVE Same
    BY <1>1, <2>1, OtherSlot DEF CreateClick, Send, Slot, appVars
  <2>2. ASSUME SignClick PROVE Same
    BY <1>1, <2>2, OtherSlot DEF SignClick, Send, Slot, appVars
  <2>3. ASSUME NEW text, EditMessage(text) \/ EditVerifyText(text) PROVE Same
    BY <2>3, OtherPage DEF EditMessage, EditVerifyText, Edit
  <2>4. ASSUME MintClick PROVE Same
    BY <1>1, <2>4, OtherSlot DEF MintClick, Send, Slot, appVars
  <2>5. ASSUME NEW to, TransferClick(to) PROVE Same
    BY <1>1, <2>5, OtherSlot, OtherPage DEF TransferClick, Send, Slot
  <2>6. ~StartOver
    BY DEF StartOver
  <2> QED
    BY <1>3, <2>1, <2>2, <2>3, <2>4, <2>5, <2>6 DEF Click, CredentialActs
<1>4. ASSUME NEW t \in Slots, Continue(t) PROVE CredentialActs(s) \/ Same
  <2>1. CASE t[2] = "credential" /\ t = s
    BY <1>1, <1>4, <2>1 DEF Continue, CredentialActs
  <2>2. CASE t[2] = "credential" /\ t # s
    <3>1. ~Mounted(t)
      BY <1>1, <2>2, SlotsAre DEF Mounted
    <3>2. UNCHANGED page
      BY <1>4, <2>2, <3>1 DEF Continue, CredentialFails, CredentialContinues, Show
    <3>3. flow'[s] = flow[s]
      BY <1>1, <1>4, <2>2, OtherSlot DEF Continue, CredentialFails,
         CredentialContinues, End, Send
    <3> QED
      BY <3>2, <3>3
  <2>a. t # s => flow'[s] = flow[s]
    BY <1>1, <1>4, ContinueFlows, OtherSlot DEF FlowStep
  <2>3. t[2] = "account" => UNCHANGED page
    <3>1. ~(t[2] = "account" /\ CreateReady(t))
      BY AccountReady
    <3> QED
      BY <1>4, <3>1 DEF Continue, CreateFails, CreateContinues, appVars
  <2>5. ASSUME t[2] = "sign" PROVE Shown(page') = Shown(page)
    <3>1. \/ page' = page
          \/ \E a, b, c : page' = [page EXCEPT !.signature = a, !.signedMessage = b,
                                             !.verifyText = c]
      BY <1>4, <2>5 DEF Continue, SignFails, SignReady, Show, appVars
    <3>2. PICK p : p = page'
      OBVIOUS
    <3>3. ASSUME NEW a, NEW b, NEW c,
                 p = [page EXCEPT !.signature = a, !.signedMessage = b,
                                  !.verifyText = c]
          PROVE  Shown(p) = Shown(page)
      BY <3>3, OtherPage
    <3>4. Shown(p) = Shown(page)
      BY <3>1, <3>2, <3>3
    <3> QED
      BY <3>2, <3>4
  <2>6. ASSUME t[2] = "mint" PROVE Shown(page') = Shown(page)
    <3>1. MintFails(t) => page' = page \/ page' = [page EXCEPT !.minted = Nothing]
      BY DEF MintFails, Show
    <3>2. MintAccepted(t) => page' = page
      BY DEF MintAccepted, appVars
    <3>3. MintReady(t) =>
            \/ page' = page \/ page' = [page EXCEPT !.minted = flow[t].item]
            \/ page' = Cleared(page)
            \/ page' = Cleared([page EXCEPT !.minted = flow[t].item])
      BY Zenon DEF MintReady
    <3>4. \/ page' = page \/ page' = Cleared(page)
          \/ \E id : page' = [page EXCEPT !.minted = id]
          \/ \E id : page' = Cleared([page EXCEPT !.minted = id])
      BY <1>4, <2>6, <3>1, <3>2, <3>3 DEF Continue
    <3>5. PICK p : p = page'
      OBVIOUS
    <3>6. ASSUME NEW id
          PROVE  /\ Shown([page EXCEPT !.minted = id]) = Shown(page)
                 /\ Shown(Cleared([page EXCEPT !.minted = id])) = Shown(page)
      BY OtherPage
    <3>7. Shown(Cleared(page)) = Shown(page)
      BY OtherPage
    <3>8. Shown(p) = Shown(page)
      BY <3>4, <3>5, <3>6, <3>7
    <3> QED
      BY <3>5, <3>8
  <2>8. ASSUME t[2] = "transfer" PROVE Shown(page') = Shown(page)
    <3>1. \/ page' = page \/ page' = [page EXCEPT !.transferError = TRUE]
          \/ \E x, n : page' = [page EXCEPT !.proof = x, !.newOwner = n]
      BY <1>4, <2>8 DEF Continue, TransferFails, TransferContinues,
         TransferReady, Show, appVars
    <3>2. PICK p : p = page'
      OBVIOUS
    <3>3. ASSUME NEW x, NEW n, p = [page EXCEPT !.proof = x, !.newOwner = n]
          PROVE  Shown(p) = Shown(page)
      BY <3>3, OtherPage
    <3>4. Shown(p) = Shown(page)
      BY <3>1, <3>2, <3>3, OtherPage
    <3> QED
      BY <3>2, <3>4
  <2> QED
    BY <1>1, <2>1, <2>2, <2>a, <2>3, <2>5, <2>6, <2>8, SlotsAre DEF Sections
<1>5. ASSUME NEW t \in Slots, Serve(t) PROVE CredentialActs(s) \/ Same
  <2>1. CASE t = s
    BY <1>5, <2>1 DEF CredentialActs
  <2>2. CASE t # s
    <3>1. flow'[s] = flow[s]
      BY <1>1, <1>5, <2>2, ServeGoesOn, OtherSlot DEF HandlerStep
    <3>2. UNCHANGED page
      BY <1>5 DEF Serve, appVars
    <3> QED
      BY <3>1, <3>2
  <2> QED
    BY <2>1, <2>2
<1>6. ASSUME NEW t \in Slots, Lose(t) PROVE CredentialActs(s) \/ Same
  <2>1. CASE t = s
    BY <1>6, <2>1 DEF CredentialActs
  <2>2. CASE t # s
    BY <1>1, <1>6, <2>2, LoseGoesOn, OtherSlot DEF HandlerStep, Lose, appVars
  <2> QED
    BY <2>1, <2>2
<1>7. ASSUME NEW i, ShowSearch(i) PROVE Same
  <2>1. flow'[s] = flow[s]
    <3>1. PICK x : x = <<searches[i].mount, "transfer">>
      OBVIOUS
    <3>2. UNCHANGED flow \/ flow' = [flow EXCEPT ![x] = IdleFlow]
      BY <1>7, <3>1 DEF ShowSearch, End
    <3> QED
      BY <1>1, <3>1, <3>2, OtherSlot
  <2>2. PICK id : id = searches[i].held
    OBVIOUS
  <2>3. PICK p : p = page'
    OBVIOUS
  <2>4. p = page \/ p = [page EXCEPT !.held = id]
    BY <1>7, <2>2, <2>3 DEF ShowSearch
  <2>5. Shown([page EXCEPT !.held = id]) = Shown(page)
    BY OtherPage
  <2>6. Shown(p) = Shown(page)
    BY <2>4, <2>5
  <2> QED
    BY <2>1, <2>3, <2>6
<1>8. ASSUME NEW i, ServeSearch(i) \/ LoseSearch(i) PROVE UNCHANGED <<flow, page>>
  BY <1>8 DEF ServeSearch, LoseSearch, appVars
<1>9. ASSUME NEW a, OtherRegisters(a) PROVE UNCHANGED <<flow, page>>
  BY <1>9 DEF OtherRegisters, appVars
<1>10. ASSUME NEW auth, NEW id, NEW to, OtherTransfers(auth, id, to)
       PROVE  UNCHANGED <<flow, page>>
  BY <1>10 DEF OtherTransfers, appVars
<1>11. UNCHANGED walletVars => UNCHANGED <<flow, page>>
  BY DEF walletVars, appVars
<1> HIDE DEF Same
<1> QED
  BY <1>2, <1>3, <1>4, <1>5, <1>6, <1>7, <1>8, <1>9, <1>10, <1>11
     DEF WalletNext, Same


LEMMA CredentialToldKept ==
  ASSUME NEW f, NEW p, NEW q, CredentialTold(f, p), Shown(q) = Shown(p),
         p.credential = Nothing => p.result = "none",
         f.step = "verify" => p.credential # Nothing,
         p.credential # Nothing =>
           (Valid(creds[p.credential])' <=> Valid(creds[p.credential]))
  PROVE  CredentialTold(f, q)'
<1>1. /\ q.credential = p.credential /\ q.result = p.result
      /\ q.credentialError = p.credentialError
  BY DEF Shown
<1>2. CASE p.credential = Nothing
  BY <1>1, <1>2 DEF CredentialTold, Got
<1>3. CASE p.credential # Nothing
  <2>1. PICK c : c = p.credential
    OBVIOUS
  <2>2. Valid(creds[c])' <=> Valid(creds[c])
    BY <1>3, <2>1
  <2> QED
    BY <1>1, <2>1, <2>2 DEF CredentialTold, Got
<1> QED
  BY <1>2, <1>3

LEMMA CredentialClickTells ==
  ASSUME StepAssumed, NEW step \in {"issue", "verify", "revoke"},
         CredentialClick(step), NEW s \in Slots, s = Slot("credential"),
         NEW g, g = flow'[s], NEW q, q = page'
  PROVE  CredentialTold(g, q)'
<1> USE DEF StepAssumed
<1>1. PICK h : /\ HandlerStep(s, h)
               /\ h.step = step /\ ~h.served /\ h.item = page.credential
  BY CredentialStarts
<1>2. g = h
  BY <1>1 DEF HandlerStep, FlowInv
<1>4. q.credential = page.credential
  BY DEF CredentialClick, PageInv, PageFits, Page
<1>5. step = "issue" => page.credential = Nothing
  BY DEF CredentialClick
<1> QED
  BY <1>1, <1>2, <1>4, <1>5 DEF CredentialTold, Got

LEMMA CredentialFailsTells ==
  ASSUME StepAssumed, NEW s \in Slots, Mounted(s), CredentialFails(s),
         NEW g, g = flow'[s], NEW q, q = page'
  PROVE  CredentialTold(g, q)'
<1> USE DEF StepAssumed
<1>1. g.step = "idle"
  BY DEF CredentialFails, End, FlowInv, IdleFlow
<1>2. q.credentialError = TRUE
  BY DEF CredentialFails, Show, PageInv, PageFits, Page
<1> QED
  BY <1>1, <1>2 DEF CredentialTold, Got

LEMMA CredentialContinuesTells ==
  ASSUME StepAssumed, Exclusive, CredentialPageInv, NEW s \in Slots,
         s = Slot("credential"), Mounted(s), CredentialContinues(s),
         [WalletNext]_walletVars,
         NEW g, g = flow'[s], NEW q, q = page'
  PROVE  CredentialTold(g, q)'
<1> USE DEF StepAssumed
<1> PICK f : f = flow[s]
  OBVIOUS
<1>1. /\ f \in Flow /\ GoodFlow("credential", f) /\ page \in Page
      /\ session # NoSession /\ CredentialTold(f, page)
  BY RequestNames DEF PageInv, PageFits, Mounted, CredentialPageInv, Slot
<1>2. CASE /\ Answered(s, "issue")
           /\ Show(s, [page EXCEPT !.credential = f.value])
           /\ Send(s, [f EXCEPT !.item = f.value], "verify")
  <2>1. q.credential = f.value
    BY <1>1, <1>2 DEF Show, Page
  <2>2. PICK call : call = [f EXCEPT !.item = f.value]
    OBVIOUS
  <2>3. call \in Flow /\ call.item = f.value
    BY <1>1, <2>2 DEF Flow
  <2>4. g = Request(call, "verify")
    BY <1>2, <2>2 DEF Send, FlowInv
  <2>5. g.step = "verify" /\ g.item = f.value /\ ~g.served
    BY <2>3, <2>4, RequestFields DEF Steps
  <2> QED
    BY <2>1, <2>5 DEF CredentialTold, Got
<1>3. CASE Answered(s, "revoke") /\ Send(s, f, "verify") /\ UNCHANGED page
  <2>1. f.item = page.credential
    BY <1>1, <1>3 DEF CredentialTold, Answered
  <2>2. g = Request(f, "verify")
    BY <1>3 DEF Send, FlowInv
  <2>3. g.step = "verify" /\ g.item = f.item /\ ~g.served
    BY <1>1, <2>2, RequestFields DEF Steps
  <2> QED
    BY <1>3, <2>1, <2>3 DEF CredentialTold, Got
<1>4. CASE /\ Answered(s, "verify") /\ Succeeded(s)
           /\ Show(s, [page EXCEPT !.result =
                         IF f.value # Nothing THEN "valid" ELSE "revoked"])
           /\ End(s)
  <2>1. PICK c : c = page.credential
    OBVIOUS
  <2>2. q.credential = c /\ q.result = IF f.value # Nothing THEN "valid" ELSE "revoked"
    BY <1>1, <1>4, <2>1 DEF Show, Page
  <2>3. g.step = "idle"
    BY <1>4 DEF End, FlowInv, IdleFlow
  <2>4. Got(f, "verify")
    BY <1>4 DEF Answered, Succeeded, Got
  <2>5. IssuedTo(c, session)
    <3>1. f.item = c /\ c \in Nat
      BY <1>1, <2>1, <2>4 DEF CredentialTold, Got, Page
    <3>2. c # Nothing
      BY <1>1, <2>4, <3>1, KnownAreNat
         DEF GoodFlow, CredentialFlow, Got, IssuedTo, Nothing
    <3> QED
      BY <2>1, <3>2 DEF PageInv, PageFits
  <2>6. Valid(creds[c])' <=> Valid(creds[c])
    <3>1. f.step # "revoke"
      BY <2>4 DEF Got
    <3> QED
      BY <1>1, <2>5, <3>1, OwnCredentialStays
  <2>7. f.value # Nothing => Valid(creds[c])'
    BY <1>1, <2>1, <2>4, <2>6 DEF CredentialTold
  <2> QED
    BY <2>2, <2>3, <2>7 DEF CredentialTold, Got
<1> QED
  BY <1>2, <1>3, <1>4 DEF CredentialContinues

LEMMA ServeTellsVerdict ==
  ASSUME StepAssumed, CredentialPageInv, NEW s \in Slots,
         s = Slot("credential"), session # NoSession, Serve(s),
         NEW g, g = flow'[s], NEW q, q = page'
  PROVE  CredentialTold(g, q)'
<1> USE DEF StepAssumed
<1> PICK f : f = flow[s]
  OBVIOUS
<1>1. /\ f \in Flow /\ GoodFlow("credential", f) /\ page \in Page
      /\ CredentialTold(f, page)
  BY RequestNames DEF PageInv, PageFits, CredentialPageInv, Slot
<1>3. g.step = f.step /\ g.item = f.item /\ f.step # "idle"
  <2>1. flow[s].step # "idle"
    BY Zenon DEF Serve
  <2>2. \E r, v : Served(s, r, v)
    BY Zenon DEF Serve
  <2> QED
    BY <1>1, <2>1, <2>2 DEF Served, FlowInv, Flow
<1>4. q = page
  BY DEF Serve, appVars
<1>5. PICK c : c = page.credential
  OBVIOUS
<1>6. ASSUME Got(g, "verify"), g.value # Nothing PROVE Valid(creds[c])'
  <2>1. f.step = "verify" /\ f.item = c /\ c \in DOMAIN creds
    BY <1>1, <1>3, <1>5, <1>6
       DEF Got, CredentialTold, GoodFlow, CredentialFlow, IssuedTo
  <2>2. CredentialVerify(c, "active") /\ Served(s, Result(reply'), One(reply'.found))
    BY <2>1 DEF Serve
  <2>3. g.result = Result(reply') /\ g.value = One(reply'.found)
    BY <1>1, <2>2 DEF Served, FlowInv, Flow
  <2>4. Valid(creds[c]) /\ Unserved
    BY <1>6, <2>1, <2>2, <2>3, VerifyAnswer DEF Got
  <2>5. SameCredentials
    BY <2>4, UnservedSame
  <2> QED
    BY <2>1, <2>4, <2>5, ValidStays DEF SameCredentials
<1> QED
  BY <1>1, <1>3, <1>4, <1>5, <1>6 DEF CredentialTold

LEMMA LoseTells ==
  ASSUME StepAssumed, CredentialPageInv, NEW s \in Slots,
         s = Slot("credential"), session # NoSession, Lose(s),
         NEW g, g = flow'[s], NEW q, q = page'
  PROVE  CredentialTold(g, q)'
<1> USE DEF StepAssumed
<1> PICK f : f = flow[s]
  OBVIOUS
<1>1. f \in Flow /\ CredentialTold(f, page) /\ f.step # "idle" /\ q = page
  BY RequestNames DEF CredentialPageInv, Lose, appVars
<1>2. g.step = f.step /\ g.item = f.item /\ g.result = "lost"
  BY <1>1 DEF Lose, Served, FlowInv, Flow
<1> QED
  BY <1>1, <1>2 DEF CredentialTold, Got

\* The section as it stands in a session that goes on.
LEMMA CredentialStays ==
  ASSUME StepAssumed, Exclusive, CredentialPageInv, [WalletNext]_walletVars,
         UNCHANGED <<session, mount>>, session # NoSession, NEW s,
         s = Slot("credential"), flow'[s] = flow[s], Shown(page') = Shown(page),
         NEW g, g = flow'[s], NEW q, q = page'
  PROVE  CredentialTold(g, q)'
<1> USE DEF StepAssumed
<1>1. s \in Slots /\ s[2] = "credential"
  BY SlotIsSlot DEF Sections, Slot
<1>2. CASE Serve(s)
  BY <1>1, <1>2, ServeTellsVerdict
<1>3. CASE ~Serve(s)
  <2>1. CredentialTold(g, page) /\ GoodFlow("credential", g)
    BY <1>1 DEF CredentialPageInv, FlowInv
  <2>2. PICK p : p = page
    OBVIOUS
  <2>3. /\ p.credential = Nothing => p.result = "none"
        /\ p.credential # Nothing => IssuedTo(p.credential, session)
    BY <2>2 DEF PageInv, PageFits
  <2>4. g.step = "verify" => p.credential # Nothing
    BY <2>1, <2>2, KnownAreNat
       DEF CredentialTold, GoodFlow, CredentialFlow, IssuedTo, Nothing
  <2>5. PICK c : c = p.credential
    OBVIOUS
  <2>6. c # Nothing => (Valid(creds[c])' <=> Valid(creds[c]))
    BY <1>3, <2>3, <2>5, OwnCredentialStays
  <2>7. Shown(q) = Shown(p)
    BY <2>2
  <2> QED
    BY <2>1, <2>2, <2>3, <2>4, <2>5, <2>6, <2>7, CredentialToldKept
<1> QED
  BY <1>2, <1>3

LEMMA CredentialPageInvStep ==
  ASSUME StepAssumed, Exclusive, CredentialPageInv, [WalletNext]_walletVars
  PROVE  CredentialPageInv'
<1> USE DEF StepAssumed
<1> PICK t : t = Slot("credential")'
  OBVIOUS
<1> PICK g : g = flow'[t]
  OBVIOUS
<1> PICK q : q = page'
  OBVIOUS
<1> SUFFICES ASSUME session' # NoSession PROVE CredentialTold(g, q)'
  BY DEF CredentialPageInv
<1>1. ASSUME NEW s \in Slots, s[2] = "account", CreateReady(s)
      PROVE  CredentialTold(g, q)'
  <2>1. q.credential = Nothing /\ q.result = "none"
    BY <1>1 DEF CreateReady, EmptyPage
  <2>2. t = <<mount + 1, "credential">>
    BY <1>1 DEF CreateReady, Slot
  <2>3. mount \in 0 .. MaxSessions /\ mount < MaxSessions
    BY <1>1, AccountReady DEF SessionInv
  <2>a. PICK m : m = mount + 1
    OBVIOUS
  <2>b. m \in 0 .. MaxSessions /\ m > mount
    BY <2>3, <2>a
  <2>c. t = <<m, "credential">> /\ "credential" \in Sections
    BY <2>2, <2>a DEF Sections
  <2>4. t \in Slots /\ t # s /\ t[1] > mount
    BY <1>1, <2>b, <2>c, SlotsAre
  <2>5. g.step = "idle"
    BY <1>1, <2>4 DEF CreateReady, End, FlowInv, SessionInv, Busy
  <2> QED
    BY <2>1, <2>5 DEF CredentialTold, Got
<1>2. ~StartOver
  BY DEF StartOver
<1>3. ASSUME UNCHANGED <<session, mount>> PROVE CredentialTold(g, q)'
  <2>1. /\ t = Slot("credential") /\ t \in Slots /\ t[2] = "credential"
        /\ session # NoSession /\ Mounted(t)
    BY <1>3, SlotIsSlot DEF Slot, Sections, Mounted
  <2>2. CASE flow'[t] = flow[t] /\ Shown(page') = Shown(page)
    BY <1>3, <2>1, <2>2, CredentialStays
  <2>3. CASE CredentialActs(t)
    BY <2>1, <2>3, CredentialClickTells, CredentialFailsTells,
       CredentialContinuesTells, ServeTellsVerdict, LoseTells DEF CredentialActs
  <2> QED
    BY <1>3, <2>1, <2>2, <2>3, CredentialFrame
<1> QED
  BY <1>1, <1>2, <1>3, SessionMoves

-----------------------------------------------------------------------------
(* The signing section *)

\* The signature shown is that of the text shown as signed, by the session's
\* own key.
SignInv ==
  page.signature # NoSignature =>
    page.signature = [key |-> session, message |-> page.signedMessage]

SignatureShown(p) == <<p.signature, p.signedMessage>>

LEMMA SignReadySigns ==
  ASSUME StepAssumed, OwnInv, SignInv, NEW s \in Slots, s[2] = "sign",
         SignReady(s)
  PROVE  SignInv'
<1> USE DEF StepAssumed
<1> PICK f : f = flow[s]
  OBVIOUS
<1> PICK q : q = page'
  OBVIOUS
<1>1. page \in Page /\ f \in Flow /\ GoodFlow("sign", f) /\ session' = session
  BY RequestNames DEF PageInv, PageFits, SignReady
<1>2. CASE Mounted(s)
  <2>1. q.signature = [key |-> f.value, message |-> f.text] /\ q.signedMessage = f.text
    BY <1>1, <1>2 DEF SignReady, Show, Signature, Page
  <2>2. Got(f, "sign") /\ Busy(s)
    BY DEF SignReady, Answered, Succeeded, Got, Busy
  <2>3. f.item = session
    BY <1>2, <2>2, MountedIsOwn
  <2>4. f.value = session
    BY <1>1, <2>2, <2>3 DEF GoodFlow, SignFlow
  <2> QED
    BY <1>1, <2>1, <2>4 DEF SignInv
<1>3. CASE ~Mounted(s)
  BY <1>1, <1>3 DEF SignReady, Show, SignInv
<1> QED
  BY <1>2, <1>3

LEMMA SignFrame ==
  ASSUME PageInv
  PROVE  /\ \A text : SignatureShown([page EXCEPT !.message = text]) = SignatureShown(page)
         /\ \A text : SignatureShown([page EXCEPT !.verifyText = text]) = SignatureShown(page)
         /\ \A b : SignatureShown([page EXCEPT !.transferError = b]) = SignatureShown(page)
         /\ \A b : SignatureShown([page EXCEPT !.credentialError = b]) = SignatureShown(page)
         /\ \A c : SignatureShown([page EXCEPT !.credential = c]) = SignatureShown(page)
         /\ \A r : SignatureShown([page EXCEPT !.result = r]) = SignatureShown(page)
         /\ \A id : SignatureShown([page EXCEPT !.minted = id]) = SignatureShown(page)
         /\ \A id : SignatureShown([page EXCEPT !.held = id]) = SignatureShown(page)
         /\ \A x, n : SignatureShown([page EXCEPT !.proof = x, !.newOwner = n])
                        = SignatureShown(page)
         /\ SignatureShown(Cleared(page)) = SignatureShown(page)
         /\ \A id : SignatureShown(Cleared([page EXCEPT !.minted = id]))
                      = SignatureShown(page)
<1>1. page \in Page
  BY DEF PageInv, PageFits
<1>2. /\ \A text : SignatureShown([page EXCEPT !.message = text]) = SignatureShown(page)
      /\ \A text : SignatureShown([page EXCEPT !.verifyText = text]) = SignatureShown(page)
      /\ \A b : SignatureShown([page EXCEPT !.transferError = b]) = SignatureShown(page)
      /\ \A b : SignatureShown([page EXCEPT !.credentialError = b]) = SignatureShown(page)
      /\ \A c : SignatureShown([page EXCEPT !.credential = c]) = SignatureShown(page)
  BY <1>1 DEF Page, SignatureShown
<1>3. /\ \A r : SignatureShown([page EXCEPT !.result = r]) = SignatureShown(page)
      /\ \A id : SignatureShown([page EXCEPT !.minted = id]) = SignatureShown(page)
      /\ \A id : SignatureShown([page EXCEPT !.held = id]) = SignatureShown(page)
  BY <1>1 DEF Page, SignatureShown
<1>4. \A x, n : SignatureShown([page EXCEPT !.proof = x, !.newOwner = n])
                  = SignatureShown(page)
  BY <1>1 DEF Page, SignatureShown
<1>5. /\ SignatureShown(Cleared(page)) = SignatureShown(page)
      /\ \A id : SignatureShown(Cleared([page EXCEPT !.minted = id]))
                   = SignatureShown(page)
  BY <1>1 DEF Page, SignatureShown, Cleared
<1> QED
  BY <1>2, <1>3, <1>4, <1>5

LEMMA ClickSigns ==
  ASSUME StepAssumed, Click, NEW p, p = page'
  PROVE  StartOver \/ SignatureShown(p) = SignatureShown(page)
<1> USE DEF StepAssumed
<1>1. ASSUME NEW text, EditMessage(text) \/ EditVerifyText(text)
      PROVE  SignatureShown(p) = SignatureShown(page)
  <2>1. p = [page EXCEPT !.message = text] \/ p = [page EXCEPT !.verifyText = text]
    BY <1>1 DEF EditMessage, EditVerifyText, Edit
  <2> QED
    BY <2>1, SignFrame
<1>2. ASSUME NEW step, CredentialClick(step)
      PROVE  SignatureShown(p) = SignatureShown(page)
  <2>1. p = [page EXCEPT !.credentialError = FALSE]
    BY <1>2 DEF CredentialClick
  <2> QED
    BY <2>1, SignFrame
<1>3. ASSUME NEW to, TransferClick(to)
      PROVE  SignatureShown(p) = SignatureShown(page)
  <2>1. p = [page EXCEPT !.transferError = FALSE]
    BY <1>3 DEF TransferClick
  <2> QED
    BY <2>1, SignFrame
<1>4. ASSUME (\E a \in OwnAddresses : CreateClick(a)) \/ SignClick \/ MintClick
      PROVE  p = page
  BY <1>4 DEF CreateClick, SignClick, MintClick, appVars
<1> QED
  BY <1>1, <1>2, <1>3, <1>4 DEF Click

LEMMA ContinueSigns ==
  ASSUME StepAssumed, NEW s \in Slots, Continue(s), NEW p, p = page'
  PROVE  \/ s[2] = "account" /\ CreateReady(s)
         \/ s[2] = "sign" /\ SignReady(s)
         \/ SignatureShown(p) = SignatureShown(page)
<1> USE DEF StepAssumed
<1>1. ASSUME CreateFails(s) \/ CreateContinues(s) \/ SignFails(s)
             \/ MintAccepted(s) \/ TransferContinues(s)
      PROVE  p = page
  BY <1>1 DEF CreateFails, CreateContinues, SignFails, MintAccepted,
     TransferContinues, appVars
<1>2. ASSUME CredentialFails(s) PROVE SignatureShown(p) = SignatureShown(page)
  <2>1. p = page \/ p = [page EXCEPT !.credentialError = TRUE]
    BY <1>2 DEF CredentialFails, Show
  <2> QED
    BY <2>1, SignFrame
<1>3. ASSUME CredentialContinues(s) PROVE SignatureShown(p) = SignatureShown(page)
  <2>1. \/ p = page \/ \E c : p = [page EXCEPT !.credential = c]
        \/ \E r : p = [page EXCEPT !.result = r]
    BY <1>3 DEF CredentialContinues, Show
  <2> QED
    BY <2>1, SignFrame
<1>4. ASSUME MintFails(s) PROVE SignatureShown(p) = SignatureShown(page)
  <2>1. p = page \/ \E id : p = [page EXCEPT !.minted = id]
    BY <1>4 DEF MintFails, Show
  <2> QED
    BY <2>1, SignFrame
<1>5. ASSUME MintReady(s) PROVE SignatureShown(p) = SignatureShown(page)
  <2>1. \/ p = page \/ p = Cleared(page)
        \/ \E id : p = [page EXCEPT !.minted = id]
        \/ \E id : p = Cleared([page EXCEPT !.minted = id])
    BY Zenon, <1>5 DEF MintReady
  <2>2. ASSUME NEW id
        PROVE  /\ SignatureShown([page EXCEPT !.minted = id]) = SignatureShown(page)
               /\ SignatureShown(Cleared([page EXCEPT !.minted = id]))
                    = SignatureShown(page)
    BY SignFrame
  <2>3. SignatureShown(Cleared(page)) = SignatureShown(page)
    BY SignFrame
  <2> QED
    BY <2>1, <2>2, <2>3
<1>6. ASSUME TransferFails(s) \/ TransferReady(s)
      PROVE  SignatureShown(p) = SignatureShown(page)
  <2>1. \/ p = page \/ p = [page EXCEPT !.transferError = TRUE]
        \/ \E x, n : p = [page EXCEPT !.proof = x, !.newOwner = n]
    BY <1>6 DEF TransferFails, TransferReady, Show
  <2>2. ASSUME NEW x, NEW n
        PROVE  SignatureShown([page EXCEPT !.proof = x, !.newOwner = n])
                 = SignatureShown(page)
    BY SignFrame
  <2>3. SignatureShown([page EXCEPT !.transferError = TRUE]) = SignatureShown(page)
    BY SignFrame
  <2> QED
    BY <2>1, <2>2, <2>3
<1> QED
  BY <1>1, <1>2, <1>3, <1>4, <1>5, <1>6 DEF Continue

LEMMA SignInvStep ==
  ASSUME StepAssumed, OwnInv, SignInv, [WalletNext]_walletVars
  PROVE  SignInv'
<1> USE DEF StepAssumed
<1> PICK p : p = page'
  OBVIOUS
<1>1. CASE StartOver
  BY <1>1 DEF StartOver, EmptyPage, SignInv
<1>2. ASSUME NEW s \in Slots, s[2] = "account", CreateReady(s) PROVE SignInv'
  BY <1>2 DEF CreateReady, EmptyPage, SignInv
<1>3. ASSUME NEW s \in Slots, s[2] = "sign", SignReady(s) PROVE SignInv'
  BY <1>3, SignReadySigns
<1>4. ASSUME UNCHANGED <<session, mount>>, SignatureShown(p) = SignatureShown(page)
      PROVE  SignInv'
  BY <1>4 DEF SignatureShown, SignInv
<1>5. ASSUME NEW s, Serve(s) \/ Lose(s) PROVE p = page
  BY <1>5 DEF Serve, Lose, appVars
<1>6. ASSUME NEW i, ServeSearch(i) \/ LoseSearch(i) PROVE p = page
  BY <1>6 DEF ServeSearch, LoseSearch, appVars
<1>7. ASSUME NEW i, ShowSearch(i) PROVE SignatureShown(p) = SignatureShown(page)
  <2>1. PICK id : id = searches[i].held
    OBVIOUS
  <2>2. p = page \/ p = [page EXCEPT !.held = id]
    BY <1>7, <2>1 DEF ShowSearch
  <2> QED
    BY <2>2, SignFrame
<1>8. ASSUME NEW a, OtherRegisters(a) PROVE p = page
  BY <1>8 DEF OtherRegisters, appVars
<1>9. ASSUME NEW auth, NEW id, NEW to, OtherTransfers(auth, id, to) PROVE p = page
  BY <1>9 DEF OtherTransfers, appVars
<1>10. UNCHANGED walletVars => p = page
  BY DEF walletVars, appVars
<1>11. \/ StartOver
       \/ \E s \in Slots : \/ s[2] = "account" /\ CreateReady(s)
                           \/ s[2] = "sign" /\ SignReady(s)
       \/ SignatureShown(p) = SignatureShown(page)
  BY <1>5, <1>6, <1>7, <1>8, <1>9, <1>10, ClickSigns, ContinueSigns DEF WalletNext
<1> QED
  BY <1>1, <1>2, <1>3, <1>4, <1>11, SessionMoves

-----------------------------------------------------------------------------
(* The inductive invariant *)

WalletInv ==
  /\ ServiceInv /\ FlowInv /\ SessionInv /\ OwnInv /\ Exclusive /\ PageInv
  /\ CredentialPageInv /\ SignInv

LEMMA WalletInvInit == WalletInit => WalletInv
<1> SUFFICES ASSUME WalletInit PROVE WalletInv
  OBVIOUS
<1>1. ServiceInv
  BY ServiceInvInit DEF WalletInit
<1>2. flow = [s \in Slots |-> IdleFlow] /\ searches = <<>> /\ theirs = {}
      /\ session = NoSession /\ mount = 0 /\ mintedId = Nothing /\ page = EmptyPage
  BY DEF WalletInit
<1>3. \A s \in Slots : flow[s] = IdleFlow /\ ~Busy(s)
  BY <1>2 DEF Busy, IdleFlow
<1>4. FlowInv
  <2>1. flow \in [Slots -> Flow] /\ \A s \in Slots : GoodFlow(s[2], flow[s])
    BY <1>2, <1>3, IdleFlowGood
  <2>2. searches \in Seq(InFlight) /\ Len(searches) = 0
    BY <1>2
  <2> QED
    BY <1>2, <2>1, <2>2 DEF FlowInv
<1>5. SessionInv
  <2>1. \A m \in 0 .. MaxSessions : ~Busy(<<m, "account">>)
    BY <1>3, SlotsAre DEF Sections
  <2>2. mount \in 0 .. MaxSessions /\ Len(searches) = 0
    BY <1>2
  <2> QED
    BY <1>2, <1>3, <2>1, <2>2 DEF SessionInv, Known, NoSession, Nothing
<1>6. OwnInv /\ CredentialPageInv
  BY <1>2 DEF OwnInv, CredentialPageInv
<1>7. Exclusive
  <2>1. Slot("account") \in Slots
    BY <1>5, SlotIsSlot DEF Sections
  <2>2. Current = Nothing
    BY <1>2, <1>3, <2>1 DEF Current, DrawnBy, Got, IdleFlow
  <2> QED
    BY <2>2 DEF Exclusive
<1>8. PageInv /\ SignInv
  <2>1. page \in Page
    BY <1>2 DEF Page, EmptyPage, NoSignature, Nothing, NoText
  <2> QED
    BY <1>2, <2>1 DEF PageInv, PageFits, SignInv, EmptyPage, Known, NoSession, Nothing
<1> QED
  BY <1>1, <1>4, <1>5, <1>6, <1>7, <1>8 DEF WalletInv

LEMMA WalletInvStep == WalletInv /\ [WalletNext]_walletVars => WalletInv' /\ [Next]_vars
<1> SUFFICES ASSUME WalletInv, [WalletNext]_walletVars
             PROVE  WalletInv' /\ [Next]_vars
  OBVIOUS
<1>1. [Next]_vars
  BY WalletStepIsClient DEF WalletInv
<1>2. ServiceInv' /\ Grows
  BY <1>1, ServiceInvStep, ServiceGrows DEF WalletInv
<1>3. StepAssumed
  BY <1>1, <1>2 DEF WalletInv, StepAssumed
<1>4. FlowInv' /\ SessionInv' /\ OwnInv'
  BY <1>3, FlowInvStep, SessionInvStep, OwnInvStep DEF WalletInv
<1>5. Exclusive' /\ PageInv' /\ CredentialPageInv' /\ SignInv'
  BY <1>3, ExclusiveStep, PageInvStep, CredentialPageInvStep, SignInvStep
     DEF WalletInv
<1> QED
  BY <1>1, <1>2, <1>4, <1>5 DEF WalletInv

LEMMA WalletInvHolds == WalletSpec => []WalletInv
BY WalletInvInit, WalletInvStep, PTL DEF WalletSpec

\* The page and the other clients are clients like any other: whatever they do,
\* the service makes a step of module Standin or none, so that every theorem
\* about it holds in the page's world too (client.ts, App.tsx).
THEOREM PageIsClient == WalletSpec => Spec
<1>1. WalletInit => Init
  BY DEF WalletInit
<1>2. WalletInv /\ [WalletNext]_walletVars => [Next]_vars
  BY WalletInvStep
<1> QED
  BY <1>1, <1>2, WalletInvHolds, PTL DEF WalletSpec, Spec

-----------------------------------------------------------------------------
(* What the page may say *)

\* What is shown is the session's own, whatever handlers of an earlier session
\* are still running (App.tsx 45-49, 234-247, 391-416, 512-525, 656-716).
THEOREM PageIsIsolated == WalletSpec => []Isolation
<1>1. WalletInv => Isolation
  <2> SUFFICES ASSUME WalletInv, session # NoSession PROVE Isolation
    BY DEF Isolation
  <2>1. session \in DOMAIN byToken
    BY DEF WalletInv, SessionInv, Known, NoSession, Nothing
  <2>2. SessionDid = session
    BY <2>1, TokenOfDid DEF WalletInv, SessionDid
  <2>3. PageFits(page, session, mintedId) /\ ServiceInv
    BY DEF WalletInv, PageInv
  <2>4. page.credential # Nothing => creds[page.credential].holder = session
    BY <2>3 DEF PageFits, IssuedTo
  <2>5. ASSUME page.minted # Nothing
        PROVE  txs[historyByToken[page.minted][1]].to = session
    <3>1. PICK t : t = page.minted
      OBVIOUS
    <3>2. t \in DOMAIN byId /\ TokenTransactions(t)[1].to = session
      BY <2>3, <2>5, <3>1 DEF PageFits, MintedBy
    <3>3. /\ TypeInv /\ t \in TokenIds
          /\ Chained(TokenTransactions(t), byId[t]) /\ LedgerComplete
      BY <2>3, <3>2, StoredIds DEF ServiceInv, LedgerInv, ChainInv
    <3>4. PICK h : h = historyByToken[t]
      OBVIOUS
    <3>5. h \in Seq(Nat) /\ Len(TokenTransactions(t)) = Len(h)
      BY <3>3, <3>4, HistoryType DEF TypeInv, TypeOK, LedgerTypeOK
    <3>6. 1 \in DOMAIN h
      BY <3>3, <3>5 DEF Chained
    <3>7. TokenTransactions(t)[1] = txs[h[1]]
      BY <3>4, <3>6 DEF TokenTransactions
    <3> QED
      BY <3>1, <3>2, <3>4, <3>7
  <2>6. page.held # Nothing =>
          \E n \in DOMAIN txs : txs[n].tokenId = page.held /\ txs[n].to = session
    BY <2>3 DEF PageFits, ReceivedBy, OwnedSince
  <2>7. page.proof # Nothing => txs[page.proof].from = session
    BY <2>3 DEF PageFits, SentBy
  <2> QED
    BY <2>2, <2>4, <2>5, <2>6, <2>7 DEF Isolation
<1> QED
  BY <1>1, WalletInvHolds, PTL

\* The verdict below a signature is "valid" exactly for the text shown as the
\* one that was signed, and with the session's own key, whatever was typed
\* while the signature was on its way (App.tsx 299-319, 352-356).
THEOREM SignaturesExact == WalletSpec => []SignedExactly
<1>1. WalletInv => SignedExactly
  <2> SUFFICES ASSUME WalletInv, session # NoSession, page.signature # NoSignature
               PROVE  /\ page.signature.key = GetByToken(session).keyId
                      /\ SignatureVerdict <=> page.verifyText = page.signedMessage
    BY DEF SignedExactly
  <2>1. session \in DOMAIN byToken
    BY DEF WalletInv, SessionInv, Known, NoSession, Nothing
  <2>2. GetByToken(session).keyId = session
    BY <2>1, TokenOfDid DEF WalletInv
  <2>3. /\ page.signature = [key |-> session, message |-> page.signedMessage]
        /\ page.key = session
    BY DEF WalletInv, SignInv, PageInv, PageFits
  <2>4. SignatureVerdict <=> page.verifyText = page.signedMessage
    BY <2>3 DEF SignatureVerdict
  <2> QED
    BY <2>2, <2>3, <2>4
<1> QED
  BY <1>1, WalletInvHolds, PTL

\* Once the credential section is done and shows no error, a credential it and
\* the rail call valid is one the issuer calls valid (App.tsx 375-416).
THEOREM VerdictsFollow == WalletSpec => []VerdictFollows
<1>1. WalletInv => VerdictFollows
  <2> SUFFICES ASSUME WalletInv, CredentialSettled, page.result = "valid"
               PROVE  Valid(creds[page.credential])
    BY DEF VerdictFollows, Journey
  <2>1. PICK f : f = flow[Slot("credential")]
    OBVIOUS
  <2>2. PICK p : p = page
    OBVIOUS
  <2>3. CredentialTold(f, p) /\ f.step = "idle" /\ ~p.credentialError
    BY <2>1, <2>2 DEF WalletInv, CredentialPageInv, CredentialSettled, Busy
  <2> QED
    BY <2>2, <2>3 DEF CredentialTold
<1> QED
  BY <1>1, WalletInvHolds, PTL

\* The new owner shown with a proof is one the token had from the proven
\* transfer on, though it is asked for after the transfer was accepted
\* (App.tsx 706-715).
THEOREM NewOwnersHonest == WalletSpec => []NewOwnerHonest
<1>1. WalletInv => NewOwnerHonest
  <2> SUFFICES ASSUME WalletInv, page.proof # Nothing
               PROVE  \E n \in page.proof .. Len(txs) :
                        /\ txs[n].tokenId = txs[page.proof].tokenId
                        /\ txs[n].to = page.newOwner
    BY DEF NewOwnerHonest, Journey
  <2>1. PICK t \in DOMAIN byId :
          SentBy(page.proof, t, session) /\ OwnedSince(page.proof, t, page.newOwner)
    BY DEF WalletInv, PageInv, PageFits
  <2>2. PICK y \in DOMAIN txs :
          y >= page.proof /\ txs[y].tokenId = t /\ txs[y].to = page.newOwner
    BY <2>1 DEF OwnedSince
  <2>3. txs \in Seq(Transaction) /\ page.proof \in Nat
    BY DEF WalletInv, ServiceInv, LedgerInv, TypeInv, TypeOK, LedgerTypeOK,
       PageInv, PageFits, Page
  <2>4. y \in page.proof .. Len(txs)
    BY <2>2, <2>3
  <2> QED
    BY <2>1, <2>2, <2>4 DEF SentBy
<1> QED
  BY <1>1, WalletInvHolds, PTL
=============================================================================
