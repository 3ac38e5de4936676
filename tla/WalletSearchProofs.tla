------------------------- MODULE WalletSearchProofs -------------------------
(***************************************************************************)
(* Proofs about the searches of the transfer section: what it offers, when *)
(* searches overtake one another and transfers are under way.              *)
(***************************************************************************)
EXTENDS WalletPageProofs, FiniteSetTheorems

USE StandinAssumption, AccountsAssumption, CredentialsAssumption,
    TokenClassesAssumption, LedgerAssumption, WalletAppAssumption

-----------------------------------------------------------------------------
(* Positions of searches *)

\* A search of the mounted section was sent after the i-th.
Covered(i) == \E k \in 1 .. Len(searches) : k > i /\ searches[k].mount = mount

LEMMA SentAt ==
  ASSUME FlowInv, NEW q, Sent(q), NEW now, now = searches'
  PROVE  /\ Len(now) = Len(searches) + 1
         /\ \A j \in 1 .. Len(searches) : now[j] = searches[j]
         /\ now[Len(searches) + 1] = q
<1>1. searches \in Seq(InFlight) /\ q \in InFlight /\ now = Append(searches, q)
  BY DEF FlowInv, Sent
<1> QED
  BY <1>1

LEMMA ChangedAt ==
  ASSUME FlowInv, NEW i \in 1 .. Len(searches), NEW q, Changed(i, q),
         NEW now, now = searches'
  PROVE  /\ Len(now) = Len(searches)
         /\ \A j \in 1 .. Len(searches) : now[j] = IF j = i THEN q ELSE searches[j]
<1>1. searches \in Seq(InFlight) /\ q \in InFlight /\ now = [searches EXCEPT ![i] = q]
  BY DEF FlowInv, Changed
<1> QED
  BY <1>1

LEMMA LengthIsNat ==
  ASSUME FlowInv
  PROVE  Len(searches) \in Nat
BY DEF FlowInv

LEMMA CoveredIfSent ==
  ASSUME FlowInv, NEW q, Sent(q), UNCHANGED mount, NEW i \in 0 .. Len(searches)
  PROVE  /\ q.mount = mount => Covered(i)'
         /\ Covered(i) => Covered(i)'
<1> PICK now : now = searches'
  OBVIOUS
<1> PICK n \in Nat : n = Len(searches)
  BY LengthIsNat
<1>1. /\ Len(now) = n + 1
      /\ \A j \in 1 .. n : now[j] = searches[j]
      /\ now[n + 1] = q
  BY SentAt
<1>2. q.mount = mount => \E k \in 1 .. Len(now) : k > i /\ now[k].mount = mount
  <2>1. n + 1 \in 1 .. Len(now) /\ n + 1 > i
    BY <1>1
  <2> QED
    BY <1>1, <2>1
<1>3. Covered(i) => \E k \in 1 .. Len(now) : k > i /\ now[k].mount = mount
  BY <1>1 DEF Covered
<1> QED
  BY <1>2, <1>3 DEF Covered

LEMMA CoveredIfChanged ==
  ASSUME FlowInv, NEW k \in 1 .. Len(searches), NEW q, Changed(k, q),
         UNCHANGED mount, NEW i, Covered(i)
  PROVE  Covered(i)'
<1> PICK now : now = searches'
  OBVIOUS
<1>1. /\ Len(now) = Len(searches)
      /\ \A j \in 1 .. Len(searches) : now[j] = IF j = k THEN q ELSE searches[j]
      /\ q.mount = searches[k].mount
  BY ChangedAt DEF Changed
<1>2. \A j \in 1 .. Len(searches) : now[j].mount = searches[j].mount
  BY <1>1
<1> QED
  BY <1>1, <1>2 DEF Covered

\* The search now at j stood at Before(i, j); so every other one has a place.
LEMMA PlaceAfter ==
  ASSUME FlowInv, NEW i \in 1 .. Len(searches), ShowSearch(i),
         NEW k \in 1 .. Len(searches), k # i
  PROVE  \E j \in 1 .. Len(searches') : j = (IF k < i THEN k ELSE k - 1) /\ Before(i, j) = k
<1> PICK now : now = searches'
  OBVIOUS
<1> PICK n \in Nat : n = Len(searches)
  BY LengthIsNat
<1>1. Len(now) = n - 1
  BY ShowSearchLeaves
<1>2. PICK j : j = IF k < i THEN k ELSE k - 1
  OBVIOUS
<1>3. j \in 1 .. n - 1 /\ Before(i, j) = k
  BY <1>2 DEF Before
<1> QED
  BY <1>1, <1>2, <1>3

LEMMA CoveredIfShown ==
  ASSUME FlowInv, NEW i \in 1 .. Len(searches), ShowSearch(i), UNCHANGED mount
  PROVE  /\ Covered(i) => Covered(0)'
         /\ searches[i].mount # mount /\ Covered(0) => Covered(0)'
         /\ \A j \in 1 .. Len(searches') : Covered(Before(i, j)) =>
              \/ Covered(j)'
              \/ Before(i, j) < i /\ searches[i].mount = mount
<1> PICK now : now = searches'
  OBVIOUS
<1> PICK n \in Nat : n = Len(searches)
  BY LengthIsNat
<1>1. ASSUME NEW k \in 1 .. n, k # i, searches[k].mount = mount
      PROVE  \E j \in 1 .. Len(now) :
               /\ now[j].mount = mount
               /\ j = (IF k < i THEN k ELSE k - 1)
  <2>1. PICK j \in 1 .. Len(now) : j = (IF k < i THEN k ELSE k - 1) /\ Before(i, j) = k
    BY <1>1, PlaceAfter
  <2>2. now[j].mount = searches[Before(i, j)].mount
    BY ShowSearchLeaves
  <2> QED
    BY <1>1, <2>1, <2>2
<1>2. ASSUME NEW k \in 1 .. n, k # i, searches[k].mount = mount PROVE Covered(0)'
  <2>1. \E j \in 1 .. Len(now) : j > 0 /\ now[j].mount = mount
    BY <1>1, <1>2
  <2> QED
    BY <2>1 DEF Covered
<1>3. Covered(i) => Covered(0)'
  BY <1>2 DEF Covered
<1>4. searches[i].mount # mount /\ Covered(0) => Covered(0)'
  BY <1>2 DEF Covered
<1>5. ASSUME NEW j \in 1 .. Len(now), Covered(Before(i, j)),
             ~(Before(i, j) < i /\ searches[i].mount = mount)
      PROVE  Covered(j)'
  <2>1. PICK k \in 1 .. n : k > Before(i, j) /\ searches[k].mount = mount
    BY <1>5 DEF Covered
  <2>2. k # i
    BY <1>5, <2>1
  <2>3. PICK p \in 1 .. Len(now) :
          now[p].mount = mount /\ p = (IF k < i THEN k ELSE k - 1)
    BY <1>1, <2>1, <2>2
  <2>4. p > j
    BY <1>5, <2>1, <2>2, <2>3 DEF Before
  <2>5. \E l \in 1 .. Len(now) : l > j /\ now[l].mount = mount
    BY <2>3, <2>4
  <2> QED
    BY <2>5 DEF Covered
<1> QED
  BY <1>3, <1>4, <1>5

-----------------------------------------------------------------------------
(* A transfer waits for the search it sent *)

Refreshing(m) == flow[<<m, "transfer">>].step = "refresh"

\* The transfer section is busy with a refresh exactly while it has one search
\* of its own in flight.
RefreshInv ==
  /\ \A i \in 1 .. Len(searches) :
       searches[i].transfer => Refreshing(searches[i].mount)
  /\ \A i, j \in 1 .. Len(searches) :
       /\ searches[i].transfer /\ searches[j].transfer
       /\ searches[i].mount = searches[j].mount
       => i = j
  /\ \A m \in 0 .. MaxSessions : Refreshing(m) =>
       \E i \in 1 .. Len(searches) : searches[i].mount = m /\ searches[i].transfer

LEMMA SearchMount ==
  ASSUME FlowInv, SessionInv, NEW i \in 1 .. Len(searches)
  PROVE  /\ searches[i] \in InFlight /\ searches[i].mount \in 0 .. MaxSessions
         /\ searches[i].mount \in Nat
<1>1. searches[i] \in InFlight /\ searches[i].mount <= mount
  BY DEF FlowInv, SessionInv
<1>2. searches[i].mount \in Nat
  BY <1>1 DEF InFlight
<1> QED
  BY <1>1, <1>2 DEF SessionInv

LEMMA TransferSlot ==
  ASSUME NEW m \in 0 .. MaxSessions
  PROVE  <<m, "transfer">> \in Slots
BY SlotsAre DEF Sections

LEMMA HandlersDoNotRefresh ==
  ASSUME FlowInv, NEW s \in Slots, NEW g, HandlerStep(s, g),
         NEW m \in 0 .. MaxSessions
  PROVE  Refreshing(m)' <=> Refreshing(m)
<1> PICK t : t = <<m, "transfer">>
  OBVIOUS
<1>1. t \in Slots
  BY TransferSlot
<1>2. flow'[t] = IF t = s THEN g ELSE flow[t]
  BY <1>1 DEF HandlerStep, FlowInv
<1>3. g.step = "refresh" <=> flow[s].step = "refresh"
  BY DEF HandlerStep, Starts, GoesOn, Ends, IdleFlow, Busy
<1> QED
  BY <1>2, <1>3 DEF Refreshing

\* A step other than the two that begin and end a refresh.
RefreshesStay ==
  /\ ~\E s \in Slots : s[2] = "transfer" /\ TransferReady(s)
  /\ ~\E i \in 1 .. Len(searches) : ShowSearch(i)

LEMMA RefreshSame ==
  ASSUME StepAssumed, [WalletNext]_walletVars, RefreshesStay,
         NEW m \in 0 .. MaxSessions
  PROVE  Refreshing(m)' <=> Refreshing(m)
<1>1. FlowInv
  BY DEF StepAssumed
<1>2. UNCHANGED flow => (Refreshing(m)' <=> Refreshing(m))
  BY DEF Refreshing
<1> QED
  BY <1>1, <1>2, HandlersTurn, HandlersDoNotRefresh DEF RefreshesStay

\* The searches that are their transfer's, as they are now and as they were.
LEMMA RefreshInvKept ==
  ASSUME StepAssumed, RefreshInv, [WalletNext]_walletVars, RefreshesStay,
         NEW now, now = searches',
         Len(now) >= Len(searches), Len(now) \in Nat,
         \A j \in 1 .. Len(searches) :
           /\ now[j].mount = searches[j].mount
           /\ now[j].transfer = searches[j].transfer,
         \A j \in 1 .. Len(now) : j > Len(searches) => ~now[j].transfer
  PROVE  RefreshInv'
<1> USE DEF StepAssumed
<1> PICK n \in Nat : n = Len(searches)
  BY LengthIsNat
<1>1. ASSUME NEW i \in 1 .. Len(now), now[i].transfer, NEW m, m = now[i].mount
      PROVE  Refreshing(m)'
  <2>1. i \in 1 .. n
    BY <1>1
  <2>2. m \in 0 .. MaxSessions /\ Refreshing(m)
    BY <1>1, <2>1, SearchMount DEF RefreshInv
  <2> QED
    BY <2>2, RefreshSame
<1>2. ASSUME NEW i \in 1 .. Len(now), NEW j \in 1 .. Len(now),
             now[i].transfer, now[j].transfer, now[i].mount = now[j].mount
      PROVE  i = j
  <2>1. i \in 1 .. n /\ j \in 1 .. n
    BY <1>2
  <2> QED
    BY <1>2, <2>1 DEF RefreshInv
<1>3. ASSUME NEW m \in 0 .. MaxSessions, Refreshing(m)'
      PROVE  \E i \in 1 .. Len(now) : now[i].mount = m /\ now[i].transfer
  <2>1. Refreshing(m)
    BY <1>3, RefreshSame
  <2>2. PICK i \in 1 .. n : searches[i].mount = m /\ searches[i].transfer
    BY <2>1 DEF RefreshInv
  <2> QED
    BY <2>2
<1>4. \A i \in 1 .. Len(now) :
        now[i].transfer => flow'[<<now[i].mount, "transfer">>].step = "refresh"
  BY <1>1 DEF Refreshing
<1>5. \A m \in 0 .. MaxSessions :
        flow'[<<m, "transfer">>].step = "refresh" =>
          \E i \in 1 .. Len(now) : now[i].mount = m /\ now[i].transfer
  BY <1>3 DEF Refreshing
<1> QED
  BY <1>2, <1>4, <1>5 DEF RefreshInv, Refreshing

LEMMA TransferReadyRefreshes ==
  ASSUME StepAssumed, OwnInv, RefreshInv, NEW s \in Slots, s[2] = "transfer",
         TransferReady(s)
  PROVE  RefreshInv'
<1> USE DEF StepAssumed
<1> PICK now : now = searches'
  OBVIOUS
<1> PICK n \in Nat : n = Len(searches)
  BY LengthIsNat
<1>1. PICK q : Sent(q) /\ q.transfer /\ q.mount = s[1]
  BY TransferReadySends
<1>2. /\ Len(now) = n + 1
      /\ \A j \in 1 .. n : now[j] = searches[j]
      /\ now[n + 1] = q
  BY <1>1, SentAt
<1>3. PICK g : flow' = [flow EXCEPT ![s] = g] /\ g.step = "refresh"
  BY TransferRefreshes
<1>4. s = <<s[1], "transfer">> /\ s[1] \in 0 .. MaxSessions
  BY SlotsAre
<1>5. ~Refreshing(s[1])
  BY <1>4 DEF Refreshing, TransferReady, Answered
<1>6. \A t \in Slots : flow'[t] = IF t = s THEN g ELSE flow[t]
  BY <1>3 DEF FlowInv
<1>7. \A m \in 0 .. MaxSessions :
        flow'[<<m, "transfer">>].step = "refresh" <=> (m = s[1] \/ Refreshing(m))
  <2> SUFFICES ASSUME NEW m \in 0 .. MaxSessions, NEW t, t = <<m, "transfer">>
               PROVE  flow'[t].step = "refresh" <=> (m = s[1] \/ Refreshing(m))
    OBVIOUS
  <2>1. t \in Slots /\ (t = s <=> m = s[1])
    BY <1>4, TransferSlot
  <2> QED
    BY <1>3, <1>6, <2>1 DEF Refreshing
<1>8. \A i \in 1 .. n : searches[i].transfer => searches[i].mount # s[1]
  BY <1>5 DEF RefreshInv
<1>9. \A i \in 1 .. n + 1 : i \in 1 .. n \/ i = n + 1
  OBVIOUS
<1>10. ASSUME NEW i \in 1 .. Len(now), now[i].transfer
       PROVE  flow'[<<now[i].mount, "transfer">>].step = "refresh"
  <2>1. CASE i = n + 1
    BY <1>1, <1>2, <1>4, <1>7, <2>1
  <2>2. CASE i \in 1 .. n
    <3>1. searches[i].mount \in 0 .. MaxSessions /\ Refreshing(searches[i].mount)
      BY <1>2, <1>10, <2>2, SearchMount DEF RefreshInv
    <3> QED
      BY <1>2, <1>7, <2>2, <3>1
  <2> QED
    BY <1>2, <1>9, <2>1, <2>2
<1>11. ASSUME NEW i \in 1 .. Len(now), NEW j \in 1 .. Len(now),
              now[i].transfer, now[j].transfer, now[i].mount = now[j].mount
       PROVE  i = j
  BY <1>1, <1>2, <1>8, <1>9, <1>11 DEF RefreshInv
<1>12. ASSUME NEW m \in 0 .. MaxSessions,
              flow'[<<m, "transfer">>].step = "refresh"
       PROVE  \E i \in 1 .. Len(now) : now[i].mount = m /\ now[i].transfer
  <2>1. CASE m = s[1]
    <3>1. n + 1 \in 1 .. Len(now)
      BY <1>2
    <3> QED
      BY <1>1, <1>2, <2>1, <3>1
  <2>2. CASE Refreshing(m)
    <3>1. PICK i \in 1 .. n : searches[i].mount = m /\ searches[i].transfer
      BY <2>2 DEF RefreshInv
    <3>2. i \in 1 .. Len(now) /\ now[i] = searches[i]
      BY <1>2
    <3> QED
      BY <3>1, <3>2
  <2> QED
    BY <1>7, <1>12, <2>1, <2>2
<1> QED
  BY <1>10, <1>11, <1>12 DEF RefreshInv, Refreshing

LEMMA ShowSearchRefreshes ==
  ASSUME StepAssumed, RefreshInv, NEW i \in 1 .. Len(searches), ShowSearch(i)
  PROVE  RefreshInv'
<1> USE DEF StepAssumed
<1> PICK now : now = searches'
  OBVIOUS
<1> PICK n \in Nat : n = Len(searches)
  BY LengthIsNat
<1> PICK old : old = searches[i]
  OBVIOUS
<1>1. /\ Len(now) = n - 1
      /\ \A j \in 1 .. Len(now) :
           /\ Before(i, j) \in 1 .. n
           /\ now[j].mount = searches[Before(i, j)].mount
           /\ now[j].transfer = searches[Before(i, j)].transfer
  BY ShowSearchLeaves
<1>2. \A j \in 1 .. Len(now) : Before(i, j) # i
  BY <1>1 DEF Before
<1>3. old.mount \in 0 .. MaxSessions /\ old.transfer \in BOOLEAN
  BY SearchMount DEF InFlight
<1>4. \A m \in 0 .. MaxSessions :
        flow'[<<m, "transfer">>].step = "refresh" <=>
          Refreshing(m) /\ ~(old.transfer /\ m = old.mount)
  <2> SUFFICES ASSUME NEW m \in 0 .. MaxSessions, NEW t, t = <<m, "transfer">>
               PROVE  flow'[t].step = "refresh" <=>
                        Refreshing(m) /\ ~(old.transfer /\ m = old.mount)
    OBVIOUS
  <2>1. t \in Slots
    BY TransferSlot
  <2>2. PICK s : s = <<old.mount, "transfer">>
    OBVIOUS
  <2>3. t = s <=> m = old.mount
    BY <2>2
  <2>4. flow' = IF old.transfer THEN [flow EXCEPT ![s] = IdleFlow] ELSE flow
    BY <2>2 DEF ShowSearch, End
  <2>5. flow'[t] = IF old.transfer /\ m = old.mount THEN IdleFlow ELSE flow[t]
    BY <1>3, <2>1, <2>3, <2>4 DEF FlowInv
  <2> QED
    BY <2>5 DEF Refreshing, IdleFlow
<1>5. ASSUME NEW j \in 1 .. Len(now), now[j].transfer
      PROVE  flow'[<<now[j].mount, "transfer">>].step = "refresh"
  <2>1. PICK k \in 1 .. n : k = Before(i, j) /\ k # i
    BY <1>1, <1>2
  <2>2. searches[k].transfer /\ searches[k].mount = now[j].mount
    BY <1>1, <1>5, <2>1
  <2>3. searches[k].mount \in 0 .. MaxSessions /\ Refreshing(searches[k].mount)
    BY <2>2, SearchMount DEF RefreshInv
  <2>4. ~(old.transfer /\ searches[k].mount = old.mount)
    BY <2>1, <2>2 DEF RefreshInv
  <2> QED
    BY <1>4, <2>2, <2>3, <2>4
<1>6. ASSUME NEW j \in 1 .. Len(now), NEW l \in 1 .. Len(now),
             now[j].transfer, now[l].transfer, now[j].mount = now[l].mount
      PROVE  j = l
  <2>1. PICK a \in 1 .. n : a = Before(i, j)
    BY <1>1
  <2>2. PICK b \in 1 .. n : b = Before(i, l)
    BY <1>1
  <2>3. /\ searches[a].transfer /\ searches[b].transfer
        /\ searches[a].mount = searches[b].mount
    BY <1>1, <1>6, <2>1, <2>2
  <2>4. a = b
    BY <2>3 DEF RefreshInv
  <2> QED
    BY <1>1, <2>1, <2>2, <2>4 DEF Before
<1>7. ASSUME NEW m \in 0 .. MaxSessions,
             flow'[<<m, "transfer">>].step = "refresh"
      PROVE  \E j \in 1 .. Len(now) : now[j].mount = m /\ now[j].transfer
  <2>1. Refreshing(m) /\ ~(old.transfer /\ m = old.mount)
    BY <1>4, <1>7
  <2>2. PICK k \in 1 .. n : searches[k].mount = m /\ searches[k].transfer
    BY <2>1 DEF RefreshInv
  <2>3. k # i
    BY <2>1, <2>2
  <2>4. PICK j \in 1 .. Len(now) : Before(i, j) = k
    BY <2>3, PlaceAfter
  <2> QED
    BY <1>1, <2>2, <2>4
<1> QED
  BY <1>5, <1>6, <1>7 DEF RefreshInv, Refreshing

LEMMA RefreshInvStep ==
  ASSUME StepAssumed, OwnInv, RefreshInv, [WalletNext]_walletVars
  PROVE  RefreshInv'
<1> USE DEF StepAssumed
<1> PICK now : now = searches'
  OBVIOUS
<1> PICK n \in Nat : n = Len(searches)
  BY LengthIsNat
<1>1. ASSUME NEW s \in Slots, s[2] = "transfer", TransferReady(s) PROVE RefreshInv'
  BY <1>1, TransferReadyRefreshes
<1>2. ASSUME NEW i \in 1 .. Len(searches), ShowSearch(i) PROVE RefreshInv'
  BY <1>2, ShowSearchRefreshes
<1>3. ASSUME RefreshesStay, UNCHANGED searches PROVE RefreshInv'
  <2>1. now = searches
    BY <1>3
  <2> QED
    BY <1>3, <2>1, RefreshInvKept
<1>4. ASSUME RefreshesStay, NEW q, Sent(q), ~q.transfer PROVE RefreshInv'
  <2>1. /\ Len(now) = n + 1
        /\ \A j \in 1 .. n : now[j] = searches[j]
        /\ now[n + 1] = q
    BY <1>4, SentAt
  <2>2. \A j \in 1 .. Len(now) : j > n => ~now[j].transfer
    <3>1. \A j \in 1 .. Len(now) : j > n => j = n + 1
      BY <2>1
    <3> QED
      BY <1>4, <2>1, <3>1
  <2> QED
    BY <1>4, <2>1, <2>2, RefreshInvKept
<1>5. ASSUME RefreshesStay, NEW i \in 1 .. Len(searches), NEW q, Changed(i, q)
      PROVE  RefreshInv'
  <2>1. /\ Len(now) = n
        /\ \A j \in 1 .. n : now[j] = IF j = i THEN q ELSE searches[j]
        /\ q.mount = searches[i].mount /\ q.transfer = searches[i].transfer
    BY <1>5, ChangedAt DEF Changed
  <2>2. \A j \in 1 .. n : /\ now[j].mount = searches[j].mount
                          /\ now[j].transfer = searches[j].transfer
    BY <2>1
  <2>3. \A j \in 1 .. Len(now) : j > n => ~now[j].transfer
    BY <2>1
  <2> QED
    BY <1>5, <2>1, <2>2, <2>3, RefreshInvKept
<1> QED
  BY <1>1, <1>2, <1>3, <1>4, <1>5, SearchTurns DEF RefreshesStay, Settles

-----------------------------------------------------------------------------
(* What the token sections show *)

TokensShown(p) == <<p.minted, p.held, p.proof, p.newOwner, p.transferError>>

LEMMA TokenFrame ==
  ASSUME PageInv
  PROVE  /\ \A text : TokensShown([page EXCEPT !.message = text]) = TokensShown(page)
         /\ \A text : TokensShown([page EXCEPT !.verifyText = text]) = TokensShown(page)
         /\ \A b : TokensShown([page EXCEPT !.credentialError = b]) = TokensShown(page)
         /\ \A c : TokensShown([page EXCEPT !.credential = c]) = TokensShown(page)
         /\ \A r : TokensShown([page EXCEPT !.result = r]) = TokensShown(page)
         /\ \A a, b, c : TokensShown([page EXCEPT !.signature = a, !.signedMessage = b,
                                                 !.verifyText = c]) = TokensShown(page)
<1>1. page \in Page
  BY DEF PageInv, PageFits
<1>2. /\ \A text : TokensShown([page EXCEPT !.message = text]) = TokensShown(page)
      /\ \A text : TokensShown([page EXCEPT !.verifyText = text]) = TokensShown(page)
      /\ \A b : TokensShown([page EXCEPT !.credentialError = b]) = TokensShown(page)
      /\ \A c : TokensShown([page EXCEPT !.credential = c]) = TokensShown(page)
      /\ \A r : TokensShown([page EXCEPT !.result = r]) = TokensShown(page)
  BY <1>1 DEF Page, TokensShown
<1>3. \A a, b, c : TokensShown([page EXCEPT !.signature = a, !.signedMessage = b,
                                          !.verifyText = c]) = TokensShown(page)
  BY <1>1 DEF Page, TokensShown
<1> QED
  BY <1>2, <1>3

\* The steps that change what the token sections show.
TokensAct ==
  \/ StartOver
  \/ \E to \in Recipients : TransferClick(to)
  \/ \E s \in Slots :
       \/ s[2] = "account" /\ CreateReady(s)
       \/ s[2] = "mint" /\ (MintFails(s) \/ MintReady(s))
       \/ s[2] = "transfer" /\ (TransferFails(s) \/ TransferReady(s))
  \/ \E i \in 1 .. Len(searches) : ShowSearch(i)

TokensStay(p) == TokensShown(p) = TokensShown(page) /\ UNCHANGED <<mintedId, lastShown>>

LEMMA ClickTokens ==
  ASSUME StepAssumed, Click, NEW p, p = page'
  PROVE  TokensAct \/ TokensStay(p)
<1> USE DEF StepAssumed
<1>1. ASSUME NEW text, EditMessage(text) \/ EditVerifyText(text)
      PROVE  TokensStay(p)
  <2>1. p = [page EXCEPT !.message = text] \/ p = [page EXCEPT !.verifyText = text]
    BY <1>1 DEF EditMessage, EditVerifyText, Edit
  <2>2. UNCHANGED <<mintedId, lastShown>>
    BY <1>1 DEF EditMessage, EditVerifyText, Edit
  <2> QED
    BY <2>1, <2>2, TokenFrame DEF TokensStay
<1>2. ASSUME NEW step, CredentialClick(step) PROVE TokensStay(p)
  <2>1. p = [page EXCEPT !.credentialError = FALSE]
    BY <1>2 DEF CredentialClick
  <2>2. UNCHANGED <<mintedId, lastShown>>
    BY <1>2 DEF CredentialClick
  <2>3. TokensShown([page EXCEPT !.credentialError = FALSE]) = TokensShown(page)
    BY TokenFrame
  <2> QED
    BY <2>1, <2>2, <2>3 DEF TokensStay
<1>3. ASSUME (\E a \in OwnAddresses : CreateClick(a)) \/ SignClick \/ MintClick
      PROVE  p = page /\ UNCHANGED <<mintedId, lastShown>>
  BY <1>3 DEF CreateClick, SignClick, MintClick, appVars
<1> QED
  BY <1>1, <1>2, <1>3 DEF Click, TokensAct, TokensStay

LEMMA ContinueTokens ==
  ASSUME StepAssumed, NEW s \in Slots, Continue(s), NEW p, p = page'
  PROVE  TokensAct \/ TokensStay(p)
<1> USE DEF StepAssumed
<1>1. ASSUME CreateFails(s) \/ CreateContinues(s) \/ SignFails(s)
             \/ MintAccepted(s) \/ TransferContinues(s)
      PROVE  p = page /\ UNCHANGED <<mintedId, lastShown>>
  BY <1>1 DEF CreateFails, CreateContinues, SignFails, MintAccepted,
     TransferContinues, appVars
<1>2. /\ \A b : TokensShown([page EXCEPT !.credentialError = b]) = TokensShown(page)
      /\ \A c : TokensShown([page EXCEPT !.credential = c]) = TokensShown(page)
      /\ \A r : TokensShown([page EXCEPT !.result = r]) = TokensShown(page)
      /\ \A a, b, c : TokensShown([page EXCEPT !.signature = a, !.signedMessage = b,
                                              !.verifyText = c]) = TokensShown(page)
  BY TokenFrame
<1>3. ASSUME CredentialFails(s) PROVE TokensStay(p)
  <2>1. p = page \/ p = [page EXCEPT !.credentialError = TRUE]
    BY <1>3 DEF CredentialFails, Show
  <2>2. UNCHANGED <<mintedId, lastShown>>
    BY <1>3 DEF CredentialFails
  <2> QED
    BY <1>2, <2>1, <2>2 DEF TokensStay
<1>4. ASSUME CredentialContinues(s) PROVE TokensStay(p)
  <2>1. \/ p = page
        \/ \E c : p = [page EXCEPT !.credential = c]
        \/ \E r : p = [page EXCEPT !.result = r]
    BY <1>4 DEF CredentialContinues, Show
  <2>2. UNCHANGED <<mintedId, lastShown>>
    BY <1>4 DEF CredentialContinues
  <2>3. ASSUME NEW c, p = [page EXCEPT !.credential = c]
        PROVE  TokensShown(p) = TokensShown(page)
    BY <1>2, <2>3
  <2>4. ASSUME NEW r, p = [page EXCEPT !.result = r]
        PROVE  TokensShown(p) = TokensShown(page)
    BY <1>2, <2>4
  <2> QED
    BY <2>1, <2>2, <2>3, <2>4 DEF TokensStay
<1>5. ASSUME SignReady(s) PROVE TokensStay(p)
  <2>1. PICK a, b, c : a = Signature(s) /\ b = flow[s].text /\ c = flow[s].text
    OBVIOUS
  <2>2. p = page \/ p = [page EXCEPT !.signature = a, !.signedMessage = b, !.verifyText = c]
    BY <1>5, <2>1 DEF SignReady, Show
  <2>3. UNCHANGED <<mintedId, lastShown>>
    BY <1>5 DEF SignReady
  <2>4. TokensShown([page EXCEPT !.signature = a, !.signedMessage = b, !.verifyText = c])
          = TokensShown(page)
    BY <1>2
  <2> QED
    BY <2>2, <2>3, <2>4 DEF TokensStay
<1> QED
  BY <1>1, <1>3, <1>4, <1>5 DEF Continue, TokensAct, TokensStay

LEMMA TokensMove ==
  ASSUME StepAssumed, [WalletNext]_walletVars, NEW p, p = page'
  PROVE  TokensAct \/ TokensStay(p)
<1>1. UNCHANGED <<page, mintedId, lastShown>> => TokensStay(p)
  BY DEF TokensStay
<1>2. ASSUME NEW s, Serve(s) \/ Lose(s) PROVE UNCHANGED <<page, mintedId, lastShown>>
  BY <1>2 DEF Serve, Lose, appVars
<1>3. ASSUME NEW i \in DOMAIN searches, ServeSearch(i) \/ LoseSearch(i)
      PROVE  UNCHANGED <<page, mintedId, lastShown>>
  BY <1>3 DEF ServeSearch, LoseSearch, appVars
<1>4. ASSUME NEW i \in DOMAIN searches, ShowSearch(i) PROVE TokensAct
  <2>1. i \in 1 .. Len(searches)
    BY DEF StepAssumed, FlowInv
  <2> QED
    BY <1>4, <2>1 DEF TokensAct
<1>5. ASSUME NEW a, OtherRegisters(a) PROVE UNCHANGED <<page, mintedId, lastShown>>
  BY <1>5 DEF OtherRegisters, appVars
<1>6. ASSUME NEW auth, NEW id, NEW to, OtherTransfers(auth, id, to)
      PROVE  UNCHANGED <<page, mintedId, lastShown>>
  BY <1>6 DEF OtherTransfers, appVars
<1>7. UNCHANGED walletVars => UNCHANGED <<page, mintedId, lastShown>>
  BY DEF walletVars, appVars
<1> QED
  BY <1>1, <1>2, <1>3, <1>4, <1>5, <1>6, <1>7, ClickTokens, ContinueTokens
     DEF WalletNext

-----------------------------------------------------------------------------
(* What the page displays *)

\* The search shown last was one of those in flight, and an owner is shown only
\* with the proof of the transfer that made them one.
DisplayInv ==
  /\ lastShown \in {"fresh", "late", "lost"} /\ uses \in Uses
  /\ page.proof = Nothing => page.newOwner = Nothing

LEMMA UsesStay ==
  ASSUME [WalletNext]_walletVars
  PROVE  UNCHANGED uses
<1>1. Click => UNCHANGED uses
  BY DEF Click, CreateClick, SignClick, EditMessage, EditVerifyText, Edit,
     CredentialClick, MintClick, TransferClick, StartOver, netVars
<1>2. ASSUME NEW s, Continue(s) PROVE UNCHANGED uses
  BY <1>2 DEF Continue, CreateFails, CreateContinues, CreateReady, SignFails,
     SignReady, CredentialFails, CredentialContinues, MintFails, MintAccepted,
     MintReady, TransferFails, TransferContinues, TransferReady, netVars
<1>3. ASSUME NEW s, Serve(s) \/ Lose(s) PROVE UNCHANGED uses
  BY <1>3 DEF Serve, Lose, netVars
<1>4. ASSUME NEW i, ServeSearch(i) \/ ShowSearch(i) \/ LoseSearch(i)
      PROVE  UNCHANGED uses
  BY <1>4 DEF ServeSearch, ShowSearch, LoseSearch, netVars
<1>5. ASSUME NEW a, OtherRegisters(a) PROVE UNCHANGED uses
  BY <1>5 DEF OtherRegisters
<1>6. ASSUME NEW auth, NEW id, NEW to, OtherTransfers(auth, id, to)
      PROVE  UNCHANGED uses
  BY <1>6 DEF OtherTransfers, netVars
<1>7. UNCHANGED walletVars => UNCHANGED uses
  BY DEF walletVars, netVars
<1> QED
  BY <1>1, <1>2, <1>3, <1>4, <1>5, <1>6, <1>7 DEF WalletNext

\* What each of the steps that change the token sections leaves there.
LEMMA TokensEmptied ==
  ASSUME StartOver \/ \E s \in Slots : CreateReady(s), NEW p, p = page'
  PROVE  /\ p.minted = Nothing /\ p.held = Nothing /\ p.proof = Nothing
         /\ p.newOwner = Nothing /\ lastShown' = "fresh"
<1>1. StartOver => p = EmptyPage
  BY DEF StartOver
<1>2. ASSUME NEW s, CreateReady(s) PROVE p = [EmptyPage EXCEPT !.key = flow[s].value]
  BY <1>2 DEF CreateReady
<1>3. StartOver => lastShown' = "fresh"
  BY DEF StartOver
<1>4. ASSUME NEW s, CreateReady(s) PROVE lastShown' = "fresh"
  BY <1>4 DEF CreateReady
<1>5. ASSUME NEW k
      PROVE  LET q == [EmptyPage EXCEPT !.key = k]
             IN  /\ q.minted = Nothing /\ q.held = Nothing /\ q.proof = Nothing
                 /\ q.newOwner = Nothing
  BY DEF EmptyPage
<1>6. /\ EmptyPage.minted = Nothing /\ EmptyPage.held = Nothing
      /\ EmptyPage.proof = Nothing /\ EmptyPage.newOwner = Nothing
  BY DEF EmptyPage
<1> QED
  BY <1>1, <1>2, <1>3, <1>4, <1>5, <1>6

LEMMA TransferClickShows ==
  ASSUME PageInv, NEW to, TransferClick(to), NEW p, p = page'
  PROVE  /\ p.minted = page.minted /\ p.held = page.held /\ p.proof = page.proof
         /\ p.newOwner = page.newOwner /\ UNCHANGED <<mintedId, lastShown>>
<1>1. page \in Page
  BY DEF PageInv, PageFits
<1>2. p = [page EXCEPT !.transferError = FALSE] /\ UNCHANGED <<mintedId, lastShown>>
  BY DEF TransferClick
<1> QED
  BY <1>1, <1>2 DEF Page

LEMMA MintFailsShows ==
  ASSUME PageInv, NEW s, MintFails(s), NEW p, p = page'
  PROVE  /\ p.minted \in {page.minted, Nothing} /\ p.held = page.held
         /\ p.proof = page.proof /\ p.newOwner = page.newOwner
         /\ p.transferError = page.transferError
         /\ UNCHANGED <<mintedId, lastShown>>
<1>1. page \in Page
  BY DEF PageInv, PageFits
<1>2. p = page \/ p = [page EXCEPT !.minted = Nothing]
  BY DEF MintFails, Show
<1>3. UNCHANGED <<mintedId, lastShown>>
  BY DEF MintFails
<1> QED
  BY <1>1, <1>2, <1>3 DEF Page

LEMMA MintReadyShows ==
  ASSUME PageInv, NEW s, MintReady(s), NEW p, p = page', NEW id, id = flow[s].item
  PROVE  /\ p.minted = IF Mounted(s) THEN id ELSE page.minted
         /\ p.held = page.held /\ UNCHANGED lastShown /\ mintedId' = id
         /\ IF session # NoSession /\ mintedId # id
              THEN p.proof = Nothing /\ p.newOwner = Nothing /\ ~p.transferError
              ELSE /\ p.proof = page.proof /\ p.newOwner = page.newOwner
                   /\ p.transferError = page.transferError
<1>1. page \in Page
  BY DEF PageInv, PageFits
<1>2. PICK shown : shown = IF Mounted(s) THEN [page EXCEPT !.minted = id] ELSE page
  OBVIOUS
<1>3. /\ shown.minted = IF Mounted(s) THEN id ELSE page.minted
      /\ shown.held = page.held /\ shown.proof = page.proof
      /\ shown.newOwner = page.newOwner /\ shown.transferError = page.transferError
  BY <1>1, <1>2 DEF Page
<1>4. p = IF session # NoSession /\ mintedId # id THEN Cleared(shown) ELSE shown
  BY <1>2, Zenon DEF MintReady
<1>5. mintedId' = id /\ UNCHANGED lastShown
  BY DEF MintReady
<1>6. PICK c : c = Cleared(shown)
  OBVIOUS
<1>7. /\ c.minted = shown.minted /\ c.held = shown.held /\ c.proof = Nothing
      /\ c.newOwner = Nothing /\ ~c.transferError
  <2>1. CASE Mounted(s)
    BY <1>1, <1>2, <1>6, <2>1 DEF Cleared, Page
  <2>2. CASE ~Mounted(s)
    BY <1>1, <1>2, <1>6, <2>2 DEF Cleared, Page
  <2> QED
    BY <2>1, <2>2
<1> QED
  BY <1>3, <1>4, <1>5, <1>6, <1>7

LEMMA TransferFailsShows ==
  ASSUME PageInv, NEW s, TransferFails(s), NEW p, p = page'
  PROVE  /\ p.minted = page.minted /\ p.held = page.held /\ p.proof = page.proof
         /\ p.newOwner = page.newOwner /\ UNCHANGED <<mintedId, lastShown>>
         /\ Mounted(s) => p.transferError
         /\ ~Mounted(s) => p.transferError = page.transferError
<1>1. page \in Page
  BY DEF PageInv, PageFits
<1>2. /\ p = IF Mounted(s) THEN [page EXCEPT !.transferError = TRUE] ELSE page
      /\ UNCHANGED <<mintedId, lastShown>>
  BY DEF TransferFails, Show
<1>3. CASE Mounted(s)
  BY <1>1, <1>2, <1>3 DEF Page
<1>4. CASE ~Mounted(s)
  BY <1>2, <1>4
<1> QED
  BY <1>3, <1>4

LEMMA TransferReadyShows ==
  ASSUME StepAssumed, NEW s \in Slots, s[2] = "transfer", TransferReady(s),
         NEW p, p = page'
  PROVE  /\ p.minted = page.minted /\ p.held = page.held
         /\ UNCHANGED <<mintedId, lastShown>>
         /\ p.transferError = page.transferError
         /\ p.proof = Nothing => p.newOwner = page.newOwner /\ page.proof = Nothing
<1> USE DEF StepAssumed
<1> PICK f : f = flow[s]
  OBVIOUS
<1>1. page \in Page
  BY DEF PageInv, PageFits
<1>2. PICK q : q = [page EXCEPT !.proof = f.tx, !.newOwner = f.value]
  OBVIOUS
<1>3. GoodFlow("transfer", f) /\ f.step = "fetch"
  BY DEF FlowInv, TransferReady, Answered
<1>4. f.tx \in DOMAIN txs
  BY <1>3 DEF GoodFlow, TransferFlow, SentBy
<1>5. f.tx # Nothing
  BY <1>4, KnownAreNat DEF Nothing
<1>6. UNCHANGED <<mintedId, lastShown>> /\ (p = q \/ p = page)
  BY <1>2 DEF TransferReady, Show
<1>7. /\ q.minted = page.minted /\ q.held = page.held /\ q.proof = f.tx
      /\ q.transferError = page.transferError
  BY <1>1, <1>2 DEF Page
<1> QED
  BY <1>5, <1>6, <1>7

LEMMA ShowSearchShows ==
  ASSUME StepAssumed, NEW i \in 1 .. Len(searches), ShowSearch(i), NEW p, p = page'
  PROVE  /\ p.minted = page.minted /\ p.proof = page.proof
         /\ p.newOwner = page.newOwner /\ p.transferError = page.transferError
         /\ UNCHANGED mintedId
         /\ IF session # NoSession /\ searches[i].mount = mount
              THEN p.held = searches[i].held /\ lastShown' = searches[i].fate
              ELSE p.held = page.held /\ UNCHANGED lastShown
<1> USE DEF StepAssumed
<1> PICK old : old = searches[i]
  OBVIOUS
<1>1. page \in Page
  BY DEF PageInv, PageFits
<1>2. UNCHANGED mintedId
  BY DEF ShowSearch
<1>3. CASE session # NoSession /\ old.mount = mount
  <2>1. p = [page EXCEPT !.held = old.held] /\ lastShown' = old.fate
    BY <1>3 DEF ShowSearch, Mounted
  <2> QED
    BY <1>1, <1>2, <1>3, <2>1 DEF Page
<1>4. CASE ~(session # NoSession /\ old.mount = mount)
  <2>1. p = page /\ UNCHANGED lastShown
    BY <1>4 DEF ShowSearch, Mounted
  <2> QED
    BY <1>2, <1>4, <2>1
<1> QED
  BY <1>3, <1>4

LEMMA TokensFields ==
  ASSUME NEW p, TokensStay(p)
  PROVE  /\ p.minted = page.minted /\ p.held = page.held /\ p.proof = page.proof
         /\ p.newOwner = page.newOwner /\ p.transferError = page.transferError
         /\ UNCHANGED <<mintedId, lastShown>>
BY DEF TokensStay, TokensShown

LEMMA DisplayInvStep ==
  ASSUME StepAssumed, DisplayInv, [WalletNext]_walletVars
  PROVE  DisplayInv'
<1> PICK p : p = page'
  OBVIOUS
<1> DEFINE Displayed == /\ lastShown' \in {"fresh", "late", "lost"}
                        /\ p.proof = Nothing => p.newOwner = Nothing
<1>0. /\ lastShown \in {"fresh", "late", "lost"}
      /\ page.proof = Nothing => page.newOwner = Nothing
      /\ PageInv
  BY DEF DisplayInv, StepAssumed
<1>1. ASSUME StartOver \/ \E s \in Slots : CreateReady(s) PROVE Displayed
  BY <1>1, TokensEmptied
<1>2. ASSUME NEW to, TransferClick(to) PROVE Displayed
  BY <1>0, <1>2, TransferClickShows
<1>3. ASSUME NEW s, MintFails(s) PROVE Displayed
  BY <1>0, <1>3, MintFailsShows
<1>4. ASSUME NEW s, MintReady(s) PROVE Displayed
  BY <1>0, <1>4, MintReadyShows
<1>5. ASSUME NEW s, TransferFails(s) PROVE Displayed
  BY <1>0, <1>5, TransferFailsShows
<1>6. ASSUME NEW s \in Slots, s[2] = "transfer", TransferReady(s) PROVE Displayed
  BY <1>0, <1>6, TransferReadyShows
<1>7. ASSUME NEW i \in 1 .. Len(searches), ShowSearch(i) PROVE Displayed
  <2>1. searches[i] \in InFlight
    BY DEF StepAssumed, FlowInv
  <2>2. searches[i].fate \in {"fresh", "late", "lost"}
    BY <2>1 DEF InFlight
  <2> QED
    BY <1>0, <1>7, <2>2, ShowSearchShows
<1>8. ASSUME TokensStay(p) PROVE Displayed
  BY <1>0, <1>8, TokensFields
<1>9. Displayed
  BY <1>1, <1>2, <1>3, <1>4, <1>5, <1>6, <1>7, <1>8, TokensMove DEF TokensAct
<1> QED
  BY <1>9, UsesStay DEF DisplayInv

\* The page refers to things the service knows.
LEMMA PageTyped ==
  ASSUME WalletInv, DisplayInv
  PROVE  PageTypeOK
<1>1. /\ ServiceInv /\ page \in Page /\ page.key = session
      /\ session \in Known(DOMAIN byToken)
      /\ page.credential # Nothing => IssuedTo(page.credential, session)
      /\ page.minted # Nothing => MintedBy(page.minted, session)
      /\ page.held # Nothing => ReceivedBy(page.held, session)
      /\ page.proof # Nothing =>
           \E t \in DOMAIN byId :
             SentBy(page.proof, t, session) /\ OwnedSince(page.proof, t, page.newOwner)
  BY DEF WalletInv, PageInv, PageFits, SessionInv
<1>2. session \in Known(DOMAIN byKeyId)
  BY <1>1, TokenOfDid DEF Known
<1>3. page.signature.key \in {session, Nothing}
  <2>1. page.signature # NoSignature =>
          page.signature = [key |-> session, message |-> page.signedMessage]
    BY DEF WalletInv, SignInv
  <2> QED
    BY <2>1 DEF NoSignature
<1>4. {page.key, page.signature.key} \subseteq Known(DOMAIN byKeyId)
  BY <1>1, <1>2, <1>3 DEF Known
<1>5. /\ {page.message, page.signature.message, page.signedMessage,
          page.verifyText} \subseteq Messages \cup {NoText}
      /\ page.result \in {"none", "valid", "revoked"}
      /\ {page.credentialError, page.transferError} \subseteq BOOLEAN
  BY <1>1 DEF Page
<1>6. page.credential \in Known(DOMAIN creds)
  BY <1>1 DEF Known, IssuedTo
<1>7. {page.minted, page.held} \subseteq Known(DOMAIN byId)
  BY <1>1 DEF Known, MintedBy, ReceivedBy
<1>8. page.proof \in Known(DOMAIN txs)
  BY <1>1 DEF Known, SentBy
<1>9. page.newOwner \in Known(Dids)
  <2>1. CASE page.proof = Nothing
    BY <2>1 DEF DisplayInv, Known
  <2>2. CASE page.proof # Nothing
    <3>1. PICK t : OwnedSince(page.proof, t, page.newOwner)
      BY <1>1, <2>2
    <3>2. PICK y \in DOMAIN txs : txs[y].to = page.newOwner
      BY <3>1 DEF OwnedSince
    <3>3. txs \in Seq(Transaction)
      BY <1>1 DEF ServiceInv, LedgerInv, TypeInv, TypeOK, LedgerTypeOK
    <3>4. txs[y] \in Transaction
      BY <3>2, <3>3
    <3> QED
      BY <3>2, <3>4 DEF Transaction, Known
  <2> QED
    BY <2>1, <2>2
<1> QED
  BY <1>4, <1>5, <1>6, <1>7, <1>8, <1>9 DEF PageTypeOK

LEMMA RefreshesCounted ==
  ASSUME FlowInv, SessionInv, RefreshInv, NEW m \in 0 .. MaxSessions
  PROVE  Cardinality({i \in DOMAIN searches :
                        searches[i].mount = m /\ searches[i].transfer})
           = IF Refreshing(m) THEN 1 ELSE 0
<1> PICK mine : mine = {i \in DOMAIN searches :
                          searches[i].mount = m /\ searches[i].transfer}
  OBVIOUS
<1>1. DOMAIN searches = 1 .. Len(searches)
  BY DEF FlowInv
<1>2. CASE Refreshing(m)
  <2>1. PICK i \in 1 .. Len(searches) : searches[i].mount = m /\ searches[i].transfer
    BY <1>2 DEF RefreshInv
  <2>2. mine = {i}
    BY <1>1, <2>1 DEF RefreshInv
  <2> QED
    BY <1>2, <2>2, FS_Singleton
<1>3. CASE ~Refreshing(m)
  <2>1. mine = {}
    BY <1>1, <1>3 DEF RefreshInv
  <2> QED
    BY <1>3, <2>1, FS_EmptySet
<1> QED
  BY <1>2, <1>3

LEMMA WalletTyped ==
  ASSUME WalletInv, RefreshInv, DisplayInv
  PROVE  WalletTypeOK
<1>1. /\ session \in Known(DOMAIN byToken) /\ mount \in 0 .. MaxSessions
      /\ mintedId \in Known(DOMAIN byId)
      /\ lastShown \in {"fresh", "late", "lost"} /\ uses \in Uses
  BY DEF WalletInv, SessionInv, PageInv, PageFits, DisplayInv
<1>2. \A s \in Slots : flow[s].step \in Steps
  BY DEF WalletInv, FlowInv, Flow
<1>3. \A m \in 0 .. MaxSessions :
        Cardinality({i \in DOMAIN searches :
                       searches[i].mount = m /\ searches[i].transfer})
          = IF flow[<<m, "transfer">>].step = "refresh" THEN 1 ELSE 0
  BY RefreshesCounted DEF WalletInv, Refreshing
<1> QED
  BY <1>1, <1>2, <1>3, PageTyped DEF WalletTypeOK

-----------------------------------------------------------------------------
(* Who moves the session's tokens *)

LEMMA OwnerAfter ==
  ASSUME StepAssumed, NEW t \in DOMAIN byId
  PROVE  /\ Unserved => byId'[t] = byId[t]
         /\ \A a : Registered(a) => byId'[t] = byId[t]
         /\ \A holder, subject : Issued(holder, subject) => byId'[t] = byId[t]
         /\ \A id : Revoked(id) => byId'[t] = byId[t]
         /\ \A token, class : Minted(token, class) => byId'[t] = byId[t]
         /\ \A token, id, to :
              token \in DOMAIN byToken /\ Transferred(token, id, to) =>
                byId'[t] = byId[t] \/ byId[t].owner = token
<1> USE DEF StepAssumed
<1>1. byId \in Seq(Token)
  BY DEF ServiceInv, LedgerInv, TypeInv, TypeOK, TokensTypeOK
<1>2. Unserved => byId'[t] = byId[t]
  BY DEF Unserved, storeVars, tokenVars
<1>3. \A a : Registered(a) => byId'[t] = byId[t]
  BY DEF Registered, tokenVars
<1>4. \A holder, subject : Issued(holder, subject) => byId'[t] = byId[t]
  BY DEF Issued, tokenVars
<1>5. \A id : Revoked(id) => byId'[t] = byId[t]
  BY DEF Revoked, tokenVars
<1>6. ASSUME NEW token, NEW class, Minted(token, class) PROVE byId'[t] = byId[t]
  <2>1. PICK x : byId' = Append(byId, x)
    BY <1>6 DEF Minted, MintToken
  <2> QED
    BY <1>1, <2>1
<1>7. ASSUME NEW token \in DOMAIN byToken, NEW id, NEW to,
             Transferred(token, id, to)
      PROVE  byId'[t] = byId[t] \/ byId[t].owner = token
  <2>1. PICK x : byId' = [byId EXCEPT ![id] = x]
    BY <1>7 DEF Transferred, TransferToken
  <2>2. byId[id].owner = token
    BY <1>7, TokenOfDid DEF Transferred, IsOwner
  <2> QED
    BY <2>1, <2>2
<1> QED
  BY <1>2, <1>3, <1>4, <1>5, <1>6, <1>7

\* A token leaves its owner by a transfer that one of the page's handlers, or
\* another client, sends in the owner's name.
LEMMA OwnersMove ==
  ASSUME StepAssumed, [WalletNext]_walletVars, NEW t \in DOMAIN byId
  PROVE  \/ byId'[t] = byId[t]
         \/ byId[t].owner \in theirs
         \/ \E s \in Slots : /\ Serve(s) /\ flow[s].step = "transact"
                             /\ flow[s].auth = byId[t].owner
<1> USE DEF StepAssumed
<1>1. UNCHANGED serviceVars => byId'[t] = byId[t]
  BY OwnerAfter DEF serviceVars, Unserved
<1>2. ASSUME NEW s \in Slots, Serve(s), flow[s].step # "transact"
      PROVE  byId'[t] = byId[t]
  <2>1. ASSUME NEW a, AccountCreate(a) PROVE byId'[t] = byId[t]
    BY <2>1, CreateAnswer, OwnerAfter
  <2>2. ASSUME NEW holder, CredentialIssue(holder, NoSubject, TRUE)
        PROVE  byId'[t] = byId[t]
    BY <2>2, IssueAnswer, OwnerAfter
  <2>3. ASSUME NEW id, CredentialRevoke(id) PROVE byId'[t] = byId[t]
    BY <2>3, RevokeAnswer, OwnerAfter
  <2>4. ASSUME NEW token, NEW class, TokenMint(token, class, TRUE)
        PROVE  byId'[t] = byId[t]
    BY <2>4, MintAnswer, OwnerAfter
  <2> QED
    BY <1>2, <2>1, <2>2, <2>3, <2>4, ReadsChangeNothing, OwnerAfter DEF Serve
<1>3. ASSUME NEW s \in Slots, Serve(s), flow[s].step = "transact"
      PROVE  byId'[t] = byId[t] \/ flow[s].auth = byId[t].owner
  <2>1. PICK f : f = flow[s]
    OBVIOUS
  <2>2. f.auth \in DOMAIN byToken
    BY <1>3, <2>1, RequestNames
  <2>3. TokenTransact(f.auth, "transfer", f.item, f.addr)
    BY <1>3, <2>1 DEF Serve
  <2>4. Unserved \/ Transferred(f.auth, f.item, f.addr)
    BY <2>3, TransactAnswer
  <2> QED
    BY <2>1, <2>2, <2>4, OwnerAfter
<1>4. ASSUME NEW i, ServeSearch(i) PROVE byId'[t] = byId[t]
  BY <1>4, ReadsChangeNothing, OwnerAfter DEF ServeSearch
<1>5. ASSUME NEW a \in Recipients, OtherRegisters(a) PROVE byId'[t] = byId[t]
  BY <1>5, CreateAnswer, OwnerAfter DEF OtherRegisters
<1>6. ASSUME NEW auth \in theirs, NEW id, NEW to, OtherTransfers(auth, id, to)
      PROVE  byId'[t] = byId[t] \/ byId[t].owner \in theirs
  <2>1. auth \in DOMAIN byToken
    BY DEF FlowInv
  <2>2. Unserved \/ Transferred(auth, id, to)
    BY <1>6, TransactAnswer DEF OtherTransfers
  <2> QED
    BY <2>1, <2>2, OwnerAfter
<1>7. Click => UNCHANGED serviceVars
  BY DEF Click, CreateClick, SignClick, EditMessage, EditVerifyText, Edit,
     CredentialClick, MintClick, TransferClick, StartOver
<1>8. ASSUME NEW s \in Slots, Continue(s) PROVE UNCHANGED serviceVars
  BY <1>8 DEF Continue, CreateFails, CreateContinues, CreateReady, SignFails,
     SignReady, CredentialFails, CredentialContinues, MintFails, MintAccepted,
     MintReady, TransferFails, TransferContinues, TransferReady
<1>9. ASSUME NEW s \in Slots, Lose(s) PROVE UNCHANGED serviceVars
  BY <1>9 DEF Lose
<1>10. ASSUME NEW i, ShowSearch(i) \/ LoseSearch(i) PROVE UNCHANGED serviceVars
  BY <1>10 DEF ShowSearch, LoseSearch
<1>11. UNCHANGED walletVars => UNCHANGED serviceVars
  BY DEF walletVars
<1> QED
  BY <1>1, <1>2, <1>3, <1>4, <1>5, <1>6, <1>7, <1>8, <1>9, <1>10, <1>11 DEF WalletNext

-----------------------------------------------------------------------------
(* What the transfer section offers *)

Gone(t) == t # Nothing /\ byId[t].owner # session

Underway ==
  flow[Slot("transfer")].step \in {"available", "create", "transact", "fetch"}

\* While this holds, the section may go on offering a token that has left.
Excused == Underway \/ page.transferError

\* A token that is shown, or found by a search in flight, and has left since,
\* left by the transfer under way or before a search that is still to come.
HeldInv ==
  session # NoSession =>
    /\ Gone(page.held) /\ lastShown # "late" => Excused \/ Covered(0)
    /\ \A i \in 1 .. Len(searches) :
         /\ searches[i].mount = mount /\ Gone(searches[i].held)
         /\ searches[i].fate # "late"
         => Excused \/ Covered(i)

\* The session's tokens are moved by its own transfer only.
LEMMA GoneMoves ==
  ASSUME StepAssumed, OwnInv, Exclusive, [WalletNext]_walletVars,
         session # NoSession, UNCHANGED <<session, mount>>, NEW t \in DOMAIN byId,
         Gone(t)'
  PROVE  Gone(t) \/ Underway'
<1> USE DEF StepAssumed
<1> SUFFICES ASSUME ~Gone(t) PROVE Underway'
  OBVIOUS
<1>1. byId[t].owner = session /\ byId'[t] # byId[t]
  BY DEF Gone
<1>2. Current = session /\ Current # Nothing
  BY DEF Current, NoSession, Nothing
<1>3. session \notin theirs
  BY <1>2 DEF Exclusive
<1>4. PICK s \in Slots : Serve(s) /\ flow[s].step = "transact" /\ flow[s].auth = session
  BY <1>1, <1>3, OwnersMove
<1>5. s[2] = "transfer" /\ Busy(s)
  BY <1>4, RequestNames DEF Busy
<1>6. Mounted(s)
  BY <1>2, <1>4, <1>5 DEF Exclusive, Acting
<1>7. s = Slot("transfer")
  BY <1>5, <1>6, SlotsAre DEF Mounted, Slot
<1>8. PICK g : HandlerStep(s, g) /\ g.step = "transact"
  BY <1>4, ServeGoesOn
<1>9. flow'[s] = g
  BY <1>8 DEF HandlerStep, FlowInv
<1>10. Slot("transfer")' = s
  BY <1>7 DEF Slot
<1> QED
  BY <1>8, <1>9, <1>10 DEF Underway

\* A transfer under way ends by being shown to have failed, or by asking again.
LEMMA UnderwayMoves ==
  ASSUME StepAssumed, OwnInv, RefreshInv, [WalletNext]_walletVars,
         session # NoSession, UNCHANGED <<session, mount>>, Underway
  PROVE  \/ Underway'
         \/ \E p : p = page' /\ p.transferError
         \/ \E q : Sent(q) /\ q.mount = mount
<1> USE DEF StepAssumed
<1> PICK t : t = Slot("transfer")
  OBVIOUS
<1>1. /\ t \in Slots /\ t[1] = mount /\ t[2] = "transfer" /\ Slot("transfer")' = t
      /\ t = <<mount, "transfer">>
  BY SlotIsSlot DEF Sections, Slot
<1>2. flow[t].step \in {"available", "create", "transact", "fetch"} /\ Busy(t)
  BY DEF Underway, Busy
<1>3. CASE UNCHANGED flow
  BY <1>1, <1>2, <1>3 DEF Underway
<1>4. ASSUME NEW s \in Slots, NEW g, HandlerStep(s, g), s # t PROVE Underway'
  <2>1. flow'[t] = flow[t]
    BY <1>1, <1>4 DEF HandlerStep, FlowInv
  <2> QED
    BY <1>1, <1>2, <2>1 DEF Underway
<1>5. ASSUME NEW g, HandlerStep(t, g)
      PROVE  Underway' \/ \E p : p = page' /\ p.transferError
  <2>1. flow'[t] = g
    BY <1>1, <1>5 DEF HandlerStep, FlowInv
  <2>2. CASE GoesOn(t, g)
    <3>1. g.step \notin {"idle", "refresh"}
      BY <1>2, <2>2 DEF GoesOn, Proceeds
    <3>2. GoodFlow("transfer", g)'
      BY <1>1, <1>5 DEF HandlerStep
    <3>3. g.step \in {"available", "create", "transact", "fetch"}
      BY <3>1, <3>2 DEF GoodFlow, TransferFlow
    <3> QED
      BY <1>1, <2>1, <3>3 DEF Underway
  <2>3. CASE Ends(t, g)
    <3>1. TransferFails(t) /\ Mounted(t)
      BY <1>1, <2>3 DEF Ends, Mounted
    <3>2. PICK p : p = page'
      OBVIOUS
    <3>3. p.transferError
      BY <3>1, <3>2, TransferFailsShows
    <3> QED
      BY <3>2, <3>3
  <2>4. ~Starts(t, g)
    BY <1>2 DEF Starts
  <2> QED
    BY <1>5, <2>2, <2>3, <2>4 DEF HandlerStep
<1>6. ASSUME NEW s \in Slots, s[2] = "transfer", TransferReady(s)
      PROVE  Underway' \/ \E q : Sent(q) /\ q.mount = mount
  <2>1. CASE s[1] = mount
    BY <1>6, <2>1, TransferReadySends
  <2>2. CASE s[1] # mount
    <3>1. s # t
      BY <1>1, <2>2
    <3>2. flow'[t] = flow[t]
      BY <1>1, <1>6, <3>1, OtherSlot DEF TransferReady, Send
    <3> QED
      BY <1>1, <1>2, <3>2 DEF Underway
  <2> QED
    BY <2>1, <2>2
<1>7. ASSUME NEW i \in 1 .. Len(searches), ShowSearch(i) PROVE Underway'
  <2>1. PICK s : s = <<searches[i].mount, "transfer">>
    OBVIOUS
  <2>2. UNCHANGED flow \/ (searches[i].transfer /\ flow' = [flow EXCEPT ![s] = IdleFlow])
    BY <1>7, <2>1 DEF ShowSearch, End
  <2>3. searches[i].transfer => flow[s].step = "refresh"
    BY <2>1 DEF RefreshInv, Refreshing
  <2>4. searches[i].transfer => s # t
    BY <1>2, <2>3
  <2>5. flow'[t] = flow[t]
    BY <1>1, <2>2, <2>4, OtherSlot
  <2> QED
    BY <1>1, <1>2, <2>5 DEF Underway
<1> QED
  BY <1>3, <1>4, <1>5, <1>6, <1>7, HandlersTurn

\* So does an error that is shown: a new transfer or a new token removes it.
LEMMA ErrorMoves ==
  ASSUME StepAssumed, OwnInv, [WalletNext]_walletVars,
         session # NoSession, UNCHANGED <<session, mount>>, page.transferError
  PROVE  \/ Underway'
         \/ \E p : p = page' /\ p.transferError
         \/ \E q : Sent(q) /\ q.mount = mount
<1> USE DEF StepAssumed
<1> PICK p : p = page'
  OBVIOUS
<1>1. ASSUME NEW to, TransferClick(to) PROVE Underway'
  <2>1. PICK t : t = Slot("transfer")
    OBVIOUS
  <2>2. t \in Slots /\ Slot("transfer")' = t
    BY <2>1, SlotIsSlot DEF Sections, Slot
  <2>3. PICK call : flow' = [flow EXCEPT ![t] = Request(call, "available")]
                    /\ call = [IdleFlow EXCEPT !.auth = session, !.addr = to,
                                      !.item = page.held, !.prefer = mintedId]
    BY <1>1, <2>1 DEF TransferClick, Send
  <2>4. flow'[t].step = "available"
    BY <2>2, <2>3 DEF FlowInv, Request, IdleFlow
  <2> QED
    BY <2>2, <2>4 DEF Underway
<1>2. ASSUME NEW s, MintFails(s) PROVE p.transferError
  BY <1>2, MintFailsShows
<1>3. ASSUME NEW s \in Slots, s[2] = "mint", MintReady(s)
      PROVE  p.transferError \/ \E q : Sent(q) /\ q.mount = mount
  <2>1. PICK id : id = flow[s].item
    OBVIOUS
  <2>2. CASE mintedId = id
    BY <1>3, <2>1, <2>2, MintReadyShows
  <2>3. CASE mintedId # id
    <3>1. PICK x : searches' = Append(searches, x)
      BY <1>3, <2>1, <2>3, Zenon DEF MintReady
    <3>2. searches' # searches
      <4>1. Len(Append(searches, x)) = Len(searches) + 1 /\ Len(searches) \in Nat
        BY DEF FlowInv
      <4> QED
        BY <3>1, <4>1
    <3> QED
      BY <1>3, <3>2, MintReadySends
  <2> QED
    BY <2>2, <2>3
<1>4. ASSUME NEW s, TransferFails(s) PROVE p.transferError
  BY <1>4, TransferFailsShows
<1>5. ASSUME NEW s \in Slots, s[2] = "transfer", TransferReady(s) PROVE p.transferError
  BY <1>5, TransferReadyShows
<1>6. ASSUME NEW i \in 1 .. Len(searches), ShowSearch(i) PROVE p.transferError
  BY <1>6, ShowSearchShows
<1>7. TokensStay(p) => p.transferError
  BY TokensFields
<1>8. ~StartOver
  BY DEF StartOver
<1>9. ASSUME NEW s, CreateReady(s) PROVE FALSE
  BY <1>9 DEF CreateReady, SessionInv
<1> QED
  BY <1>1, <1>2, <1>3, <1>4, <1>5, <1>6, <1>7, <1>8, <1>9, TokensMove DEF TokensAct

LEMMA ExcusedMoves ==
  ASSUME StepAssumed, OwnInv, RefreshInv, [WalletNext]_walletVars,
         session # NoSession, UNCHANGED <<session, mount>>, Excused
  PROVE  Excused' \/ \E q : Sent(q) /\ q.mount = mount
<1>1. (\E p : p = page' /\ p.transferError) => Excused'
  BY DEF Excused
<1>2. Underway' => Excused'
  BY DEF Excused
<1> QED
  BY <1>1, <1>2, UnderwayMoves, ErrorMoves DEF Excused

\* What becomes of the i-th search: it waits, is answered, fails, or is there no
\* more; the others keep their order.
Remains(i, j, new) ==
  /\ searches[i].mount = mount /\ searches[i].fate = new.fate
  /\ searches[i].held = new.held /\ searches[i].served = new.served
  /\ Covered(i) => Covered(j)'

Finds(i, new) ==
  /\ searches[i].mount = mount /\ searches[i].fate = new.fate
  /\ SearchFinds(searches[i], new.held)
  /\ Unserved

LEMMA SearchStems ==
  ASSUME StepAssumed, OwnInv, [WalletNext]_walletVars, UNCHANGED mount,
         NEW now, now = searches', NEW j \in 1 .. Len(now),
         now[j].mount = mount, now[j].fate # "late"
  PROVE  \/ now[j].held = Nothing /\ (~now[j].served \/ now[j].fate = "lost")
         \/ \E i \in 1 .. Len(searches) : Remains(i, j, now[j]) \/ Finds(i, now[j])
<1> USE DEF StepAssumed
<1> PICK n \in Nat : n = Len(searches)
  BY LengthIsNat
<1>1. CASE UNCHANGED searches
  <2>1. Covered(j) => Covered(j)'
    BY <1>1 DEF Covered
  <2>2. j \in 1 .. n /\ now[j] = searches[j]
    BY <1>1
  <2> QED
    BY <2>1, <2>2 DEF Remains
<1>2. ASSUME NEW q, Sent(q)
      PROVE  \/ now[j].held = Nothing /\ ~now[j].served
             \/ \E i \in 1 .. Len(searches) : Remains(i, j, now[j])
  <2>1. /\ Len(now) = n + 1
        /\ \A k \in 1 .. n : now[k] = searches[k]
        /\ now[n + 1] = q
    BY <1>2, SentAt
  <2>2. CASE j = n + 1
    BY <1>2, <2>1, <2>2 DEF Sent
  <2>3. CASE j \in 1 .. n
    <3>1. j \in 0 .. n
      BY <2>3
    <3>2. Covered(j) => Covered(j)'
      BY <1>2, <3>1, CoveredIfSent
    <3> QED
      BY <2>1, <2>3, <3>2 DEF Remains
  <2> QED
    BY <2>1, <2>2, <2>3
<1>3. ASSUME NEW s \in Slots, s[2] = "transfer", TransferReady(s)
      PROVE  \E q : Sent(q)
  BY <1>3, TransferReadySends
<1>4. ASSUME NEW k \in 1 .. Len(searches), NEW q, Settles(k, q)
      PROVE  \/ now[j].held = Nothing /\ now[j].fate = "lost"
             \/ \E i \in 1 .. Len(searches) : Remains(i, j, now[j]) \/ Finds(i, now[j])
  <2>1. Changed(k, q)
    BY <1>4 DEF Settles
  <2>2. /\ Len(now) = n
        /\ \A l \in 1 .. n : now[l] = IF l = k THEN q ELSE searches[l]
    BY <2>1, ChangedAt
  <2>3. CASE j # k
    <3>1. j \in 1 .. n /\ now[j] = searches[j]
      BY <2>2, <2>3
    <3>2. Covered(j) => Covered(j)'
      BY <2>1, <3>1, CoveredIfChanged
    <3> QED
      BY <3>1, <3>2 DEF Remains
  <2>4. CASE j = k
    <3>1. now[j] = q /\ searches[k].mount = mount
      BY <2>1, <2>2, <2>4 DEF Changed
    <3> QED
      BY <1>4, <3>1 DEF Settles, Finds
  <2> QED
    BY <2>3, <2>4
<1>5. ASSUME NEW k \in 1 .. Len(searches), ShowSearch(k)
      PROVE  \E i \in 1 .. Len(searches) : Remains(i, j, now[j])
  <2>1. PICK i : i = Before(k, j)
    OBVIOUS
  <2>2. /\ i \in 1 .. n
        /\ now[j].mount = searches[i].mount /\ now[j].held = searches[i].held
        /\ now[j].served = searches[i].served
        /\ now[j].fate = IF i < k /\ searches[i].mount = searches[k].mount
                           THEN "late" ELSE searches[i].fate
    BY <1>5, <2>1, ShowSearchLeaves
  <2>3. ~(i < k /\ searches[k].mount = mount) /\ now[j].fate = searches[i].fate
    BY <2>2
  <2>4. Covered(i) => Covered(j)'
    BY <1>5, <2>1, <2>3, CoveredIfShown
  <2> QED
    BY <2>2, <2>3, <2>4 DEF Remains
<1> QED
  BY <1>1, <1>2, <1>3, <1>4, <1>5, SearchTurns

\* A search still to come is waited for, until the answer of one is shown.
LEMMA WaitsOrShows ==
  ASSUME StepAssumed, OwnInv, [WalletNext]_walletVars, UNCHANGED mount
  PROVE  \/ Covered(0) => Covered(0)'
         \/ \E i \in 1 .. Len(searches) : ShowSearch(i) /\ searches[i].mount = mount
<1> USE DEF StepAssumed
<1> PICK n \in Nat : n = Len(searches)
  BY LengthIsNat
<1>1. CASE UNCHANGED searches
  BY <1>1 DEF Covered
<1>2. ASSUME NEW q, Sent(q) PROVE Covered(0) => Covered(0)'
  <2>1. 0 \in 0 .. n
    OBVIOUS
  <2> QED
    BY <1>2, <2>1, CoveredIfSent
<1>3. ASSUME NEW i \in 1 .. Len(searches), NEW q, Changed(i, q)
      PROVE  Covered(0) => Covered(0)'
  BY <1>3, CoveredIfChanged
<1>4. ASSUME NEW i \in 1 .. Len(searches), ShowSearch(i), searches[i].mount # mount
      PROVE  Covered(0) => Covered(0)'
  BY <1>4, CoveredIfShown
<1> QED
  BY <1>1, <1>2, <1>3, <1>4, SearchMoves

\* What the section offers, and how it came to be shown, in a session that stays.
LEMMA HeldMoves ==
  ASSUME StepAssumed, OwnInv, [WalletNext]_walletVars,
         session # NoSession, UNCHANGED <<session, mount>>, NEW p, p = page'
  PROVE  \/ /\ p.held = page.held /\ UNCHANGED lastShown
            /\ Covered(0) => Covered(0)'
         \/ \E i \in 1 .. Len(searches) :
              /\ ShowSearch(i) /\ searches[i].mount = mount
              /\ p.held = searches[i].held /\ lastShown' = searches[i].fate
<1> USE DEF StepAssumed
<1>1. ASSUME NEW i \in 1 .. Len(searches), ShowSearch(i), searches[i].mount = mount
      PROVE  p.held = searches[i].held /\ lastShown' = searches[i].fate
  BY <1>1, ShowSearchShows
<1>2. ASSUME NEW i \in 1 .. Len(searches), ShowSearch(i), searches[i].mount # mount
      PROVE  p.held = page.held /\ UNCHANGED lastShown
  BY <1>2, ShowSearchShows
<1>3. ASSUME NEW to, TransferClick(to) PROVE p.held = page.held /\ UNCHANGED lastShown
  BY <1>3, TransferClickShows
<1>4. ASSUME NEW s, MintFails(s) PROVE p.held = page.held /\ UNCHANGED lastShown
  BY <1>4, MintFailsShows
<1>5. ASSUME NEW s, MintReady(s) PROVE p.held = page.held /\ UNCHANGED lastShown
  BY <1>5, MintReadyShows
<1>6. ASSUME NEW s, TransferFails(s) PROVE p.held = page.held /\ UNCHANGED lastShown
  BY <1>6, TransferFailsShows
<1>7. ASSUME NEW s \in Slots, s[2] = "transfer", TransferReady(s)
      PROVE  p.held = page.held /\ UNCHANGED lastShown
  BY <1>7, TransferReadyShows
<1>8. TokensStay(p) => p.held = page.held /\ UNCHANGED lastShown
  BY TokensFields
<1>9. ~StartOver
  BY DEF StartOver
<1>10. ASSUME NEW s, CreateReady(s) PROVE FALSE
  BY <1>10 DEF CreateReady, SessionInv
<1>11. \/ p.held = page.held /\ UNCHANGED lastShown
       \/ \E i \in 1 .. Len(searches) : ShowSearch(i) /\ searches[i].mount = mount
  BY <1>2, <1>3, <1>4, <1>5, <1>6, <1>7, <1>8, <1>9, <1>10, TokensMove DEF TokensAct
<1> QED
  BY <1>1, <1>11, WaitsOrShows

\* In a session that begins, nothing is offered and only the search just sent
\* is its own.
LEMMA SessionBegins ==
  ASSUME StepAssumed, NEW s \in Slots, s[2] = "account", CreateReady(s),
         NEW now, now = searches', NEW j \in 1 .. Len(now), now[j].mount = mount'
  PROVE  now[j].held = Nothing /\ ~now[j].served
<1> USE DEF StepAssumed
<1> PICK n \in Nat : n = Len(searches)
  BY LengthIsNat
<1>1. PICK q : Sent(q)
  BY CreateReadySends
<1>2. /\ Len(now) = n + 1
      /\ \A k \in 1 .. n : now[k] = searches[k]
      /\ now[n + 1] = q
  BY <1>1, SentAt
<1>3. mount' = mount + 1 /\ mount \in Nat
  BY DEF CreateReady, SessionInv
<1>4. ~(j \in 1 .. n)
  <2> SUFFICES ASSUME j \in 1 .. n PROVE FALSE
    OBVIOUS
  <2>1. searches[j].mount <= mount /\ searches[j].mount \in Nat
    BY SearchMount DEF SessionInv
  <2> QED
    BY <1>2, <1>3, <2>1
<1>5. j = n + 1
  BY <1>2, <1>4
<1> QED
  BY <1>1, <1>2, <1>5 DEF Sent

LEMMA ExcusedOrCovered ==
  ASSUME StepAssumed, OwnInv, RefreshInv, [WalletNext]_walletVars,
         session # NoSession, UNCHANGED <<session, mount>>, Excused
  PROVE  Excused' \/ \A i \in 0 .. Len(searches) : Covered(i)'
<1>1. ASSUME NEW q, Sent(q), q.mount = mount, NEW i \in 0 .. Len(searches)
      PROVE  Covered(i)'
  BY <1>1, CoveredIfSent DEF StepAssumed
<1> QED
  BY <1>1, ExcusedMoves

LEMMA HeldInvStep ==
  ASSUME StepAssumed, OwnInv, Exclusive, RefreshInv, HeldInv, [WalletNext]_walletVars
  PROVE  HeldInv'
<1> USE DEF StepAssumed
<1> PICK p, now : p = page' /\ now = searches'
  OBVIOUS
<1> PICK n \in Nat : n = Len(searches)
  BY LengthIsNat
<1> SUFFICES ASSUME session' # NoSession
             PROVE  /\ Gone(p.held)' /\ lastShown' # "late" => Excused' \/ Covered(0)'
                    /\ \A j \in 1 .. Len(now) :
                         /\ now[j].mount = mount' /\ Gone(now[j].held)'
                         /\ now[j].fate # "late"
                         => Excused' \/ Covered(j)'
  BY DEF HeldInv, Gone, Covered
<1>1. ASSUME NEW s \in Slots, s[2] = "account", CreateReady(s)
      PROVE  /\ p.held = Nothing
             /\ \A j \in 1 .. Len(now) : now[j].mount = mount' => now[j].held = Nothing
  BY <1>1, TokensEmptied, SessionBegins
<1>2. ~StartOver
  BY DEF StartOver
<1>3. CASE UNCHANGED <<session, mount>>
  <2>1. session # NoSession
    BY <1>3
  <2>2. /\ Gone(page.held) /\ lastShown # "late" => Excused \/ Covered(0)
        /\ \A i \in 1 .. n :
             /\ searches[i].mount = mount /\ Gone(searches[i].held)
             /\ searches[i].fate # "late"
             => Excused \/ Covered(i)
    BY <2>1 DEF HeldInv
  <2>3. ASSUME NEW t \in DOMAIN byId, Gone(t)' PROVE Gone(t) \/ Excused'
    BY <1>3, <2>1, <2>3, GoneMoves DEF Excused
  <2>4. page.held # Nothing => page.held \in DOMAIN byId
    BY DEF PageInv, PageFits, ReceivedBy
  <2>5. \A i \in 1 .. n : searches[i].held # Nothing => searches[i].held \in DOMAIN byId
    BY DEF FlowInv, GoodSearch, ReceivedBy
  <2>6. Excused => Excused' \/ \A i \in 0 .. n : Covered(i)'
    BY <1>3, <2>1, ExcusedOrCovered
  <2>7. \A t : Gone(t)' => t # Nothing
    BY DEF Gone
  <2>8. ASSUME Gone(p.held)', lastShown' # "late" PROVE Excused' \/ Covered(0)'
    <3>1. CASE /\ p.held = page.held /\ UNCHANGED lastShown
               /\ Covered(0) => Covered(0)'
      <4>1. Gone(page.held) \/ Excused'
        BY <2>3, <2>4, <2>7, <2>8, <3>1
      <4>2. Excused \/ Covered(0) \/ Excused'
        BY <2>2, <2>8, <3>1, <4>1
      <4>3. 0 \in 0 .. n
        OBVIOUS
      <4> QED
        BY <2>6, <3>1, <4>2, <4>3
    <3>2. ASSUME NEW i \in 1 .. Len(searches), ShowSearch(i), searches[i].mount = mount,
                 p.held = searches[i].held, lastShown' = searches[i].fate
          PROVE  Excused' \/ Covered(0)'
      <4>1. Gone(searches[i].held) \/ Excused'
        BY <2>3, <2>5, <2>7, <2>8, <3>2
      <4>2. Excused \/ Covered(i) \/ Excused'
        BY <2>2, <2>8, <3>2, <4>1
      <4>3. 0 \in 0 .. n
        OBVIOUS
      <4>4. Covered(i) => Covered(0)'
        BY <1>3, <3>2, CoveredIfShown
      <4> QED
        BY <2>6, <4>2, <4>3, <4>4
    <3> QED
      BY <1>3, <2>1, <3>1, <3>2, HeldMoves
  <2>9. ASSUME NEW j \in 1 .. Len(now), now[j].mount = mount, Gone(now[j].held)',
               now[j].fate # "late"
        PROVE  Excused' \/ Covered(j)'
    <3>1. now[j].held # Nothing
      BY <2>7, <2>9
    <3>2. ASSUME NEW i \in 1 .. Len(searches), Remains(i, j, now[j])
          PROVE  Excused' \/ Covered(j)'
      <4>1. /\ searches[i].mount = mount /\ searches[i].fate # "late"
            /\ searches[i].held = now[j].held /\ (Covered(i) => Covered(j)')
        BY <2>9, <3>2 DEF Remains
      <4>2. Gone(searches[i].held) \/ Excused'
        BY <2>3, <2>5, <2>9, <3>1, <4>1
      <4>3. Excused \/ Covered(i) \/ Excused'
        BY <2>2, <4>1, <4>2
      <4>4. ASSUME NEW q, Sent(q), q.mount = mount PROVE Covered(j)'
        <5>1. Len(now) = n + 1 /\ now[n + 1] = q
          BY <4>4, SentAt
        <5>2. j # n + 1
          BY <3>1, <4>4, <5>1 DEF Sent
        <5>3. j \in 0 .. n
          BY <5>1, <5>2
        <5> QED
          BY <1>3, <4>4, <5>3, CoveredIfSent
      <4> QED
        BY <1>3, <2>1, <4>1, <4>3, <4>4, ExcusedMoves
    <3>3. ASSUME NEW i \in 1 .. Len(searches), Finds(i, now[j]) PROVE FALSE
      <4>1. PICK t : t = now[j].held
        OBVIOUS
      <4>2. searches[i].auth = session
        BY <2>1, <3>3 DEF OwnInv, Finds
      <4>3. byId[t].owner = session /\ byId' = byId
        BY <3>1, <3>3, <4>1, <4>2
           DEF Finds, SearchFinds, Unserved, storeVars, tokenVars
      <4> QED
        BY <1>3, <2>9, <4>1, <4>3 DEF Gone
    <3> QED
      BY <1>3, <2>9, <3>1, <3>2, <3>3, SearchStems
  <2> QED
    BY <1>3, <2>8, <2>9
<1>4. Gone(Nothing)' => FALSE
  BY DEF Gone
<1> QED
  BY <1>1, <1>2, <1>3, <1>4, SessionMoves

-----------------------------------------------------------------------------
(* A token the page minted *)

\* A token that has only been minted had only been minted before, and belongs to
\* whom it was minted for.
LEMMA OnlyMinted ==
  ASSUME StepAssumed, NEW t \in DOMAIN byId, Len(historyByToken'[t]) = 1
  PROVE  Len(historyByToken[t]) = 1
<1> USE DEF StepAssumed
<1>1. /\ TypeInv /\ LedgerComplete /\ t \in TokenIds
      /\ Chained(TokenTransactions(t), byId[t])
  BY StoredIds DEF ServiceInv, LedgerInv, ChainInv
<1>2. historyByToken \in [TokenIds -> Seq(Nat)]
  BY <1>1 DEF TypeInv, TypeOK, LedgerTypeOK
<1>3. Len(historyByToken[t]) >= 1 /\ Len(historyByToken[t]) \in Nat
  BY <1>1, <1>2, HistoryType DEF Chained
<1>4. ASSUME NEW tx, Recorded(tx), tx.tokenId \in TokenIds
      PROVE  Len(historyByToken[t]) = 1
  <2>1. historyByToken' = [historyByToken EXCEPT ![tx.tokenId] = Append(@, Len(txs) + 1)]
    BY <1>4 DEF Recorded, BuildLog
  <2>2. historyByToken'[t] = historyByToken[t]
        \/ historyByToken'[t] = Append(historyByToken[t], Len(txs) + 1)
    BY <1>1, <1>2, <2>1
  <2>3. Len(Append(historyByToken[t], Len(txs) + 1)) = Len(historyByToken[t]) + 1
    BY <1>1, <1>2
  <2> QED
    BY <1>3, <2>2, <2>3
<1>5. UNCHANGED ledgerVars => Len(historyByToken[t]) = 1
  BY DEF ledgerVars
<1>6. UNCHANGED vars => UNCHANGED ledgerVars
  BY DEF vars, storeVars
<1>7. ASSUME NEW token, NEW class, Minted(token, class)
      PROVE  Len(historyByToken[t]) = 1
  <2>1. MintTx(token, class).tokenId \in TokenIds
    BY <1>1, <1>7, MintedToken DEF MintTx
  <2> QED
    BY <1>4, <1>7, <2>1, MintRecorded
<1>8. ASSUME NEW token, NEW id, NEW to, Transferred(token, id, to)
      PROVE  Len(historyByToken[t]) = 1
  <2>1. TransferTx(token, id, to).tokenId \in TokenIds
    BY <1>1, <1>8, TransferredToken DEF TransferTx
  <2> QED
    BY <1>4, <1>8, <2>1, TransferRecorded
<1> QED
  BY <1>1, <1>5, <1>6, <1>7, <1>8, TokensFrame

LEMMA MintedIsOwned ==
  ASSUME ServiceInv, NEW t, NEW n, MintedBy(t, n), Len(historyByToken[t]) = 1
  PROVE  byId[t].owner = n
<1>1. /\ TypeInv /\ LedgerComplete /\ t \in DOMAIN byId /\ t \in TokenIds
      /\ Chained(TokenTransactions(t), byId[t])
  BY StoredIds DEF ServiceInv, LedgerInv, ChainInv, MintedBy
<1>2. Len(TokenTransactions(t)) = 1
  BY <1>1, HistoryType
<1> QED
  BY <1>1, <1>2 DEF Chained, MintedBy

\* The tokens the mint sections are about to report are new to App, and each
\* is another one.
MintFresh ==
  \A s \in Slots : s[2] = "mint" /\ MintedIn(flow[s]) # Nothing =>
    /\ MintedIn(flow[s]) # mintedId
    /\ \A o \in Slots : o[2] = "mint" /\ o # s => MintedIn(flow[o]) # MintedIn(flow[s])

LEMMA MintedIdMoves ==
  ASSUME StepAssumed, [WalletNext]_walletVars
  PROVE  \/ mintedId' \in {mintedId, Nothing}
         \/ \E s \in Slots : /\ s[2] = "mint" /\ MintReady(s)
                             /\ mintedId' = MintedIn(flow[s])
                             /\ flow' = [flow EXCEPT ![s] = IdleFlow]
<1> USE DEF StepAssumed
<1> PICK p : p = page'
  OBVIOUS
<1>1. ASSUME NEW s, MintReady(s)
      PROVE  mintedId' = MintedIn(flow[s]) /\ flow' = [flow EXCEPT ![s] = IdleFlow]
  <2>1. flow[s].step = "getToken" /\ mintedId' = flow[s].item /\ End(s)
    BY <1>1 DEF MintReady, Answered
  <2> QED
    BY <2>1 DEF MintedIn, End
<1>2. StartOver => mintedId' = Nothing
  BY DEF StartOver
<1>3. ASSUME NEW s, CreateReady(s) PROVE mintedId' = mintedId
  BY <1>3 DEF CreateReady
<1>4. ASSUME NEW to, TransferClick(to) PROVE mintedId' = mintedId
  BY <1>4 DEF TransferClick
<1>5. ASSUME NEW s, MintFails(s) \/ TransferFails(s) \/ TransferReady(s)
      PROVE  mintedId' = mintedId
  BY <1>5 DEF MintFails, TransferFails, TransferReady
<1>6. ASSUME NEW i, ShowSearch(i) PROVE mintedId' = mintedId
  BY <1>6 DEF ShowSearch
<1>7. TokensStay(p) => mintedId' = mintedId
  BY TokensFields
<1> QED
  BY <1>1, <1>2, <1>3, <1>4, <1>5, <1>6, <1>7, TokensMove DEF TokensAct

\* What the mint sections are about to report, from one step to the next.
LEMMA MintedInMoves ==
  ASSUME StepAssumed, [WalletNext]_walletVars
  PROVE  \/ UNCHANGED flow
         \/ \E s \in Slots : \E g :
              /\ flow' = [flow EXCEPT ![s] = g]
              /\ s[2] = "mint" =>
                   MintedIn(g) \in {Nothing, MintedIn(flow[s])}
                                     \cup (DOMAIN byId' \ DOMAIN byId)
<1>1. ASSUME NEW s \in Slots, NEW g, FlowStep(s, g), s[2] = "mint"
      PROVE  MintedIn(g) \in {Nothing, MintedIn(flow[s])}
                               \cup (DOMAIN byId' \ DOMAIN byId)
  <2>1. CASE Starts(s, g)
    <3>1. g.step = "mint" /\ ~g.served
      BY <1>1, <2>1 DEF Starts
    <3> QED
      BY <3>1 DEF MintedIn, Got
  <2>2. CASE Proceeds(s, g)
    BY <2>2 DEF Proceeds
  <2>3. CASE g = IdleFlow
    BY <2>3 DEF MintedIn, Got, IdleFlow
  <2> QED
    BY <1>1, <2>1, <2>2, <2>3 DEF FlowStep
<1>2. \A s, g : FlowStep(s, g) => flow' = [flow EXCEPT ![s] = g]
  BY DEF FlowStep
<1> QED
  BY <1>1, <1>2, FlowMoves

LEMMA MintFreshStep ==
  ASSUME StepAssumed, MintFresh, [WalletNext]_walletVars
  PROVE  MintFresh'
<1> USE DEF StepAssumed
<1> PICK new, was : new = mintedId' /\ was = mintedId
  OBVIOUS
<1>1. \A s \in Slots : s[2] = "mint" => MintedIn(flow[s]) \in Known(DOMAIN byId)
  <2> SUFFICES ASSUME NEW s \in Slots, s[2] = "mint", NEW f, f = flow[s]
               PROVE  MintedIn(f) \in Known(DOMAIN byId)
    OBVIOUS
  <2>1. GoodFlow("mint", f)
    BY DEF FlowInv
  <2> QED
    BY <2>1 DEF GoodFlow, MintFlow, MintedIn, MintedBy, Known
<1>2. was \in Known(DOMAIN byId)
  BY DEF PageInv, PageFits
<1>3. SUFFICES ASSUME NEW s \in Slots, s[2] = "mint", NEW f, f = flow'[s],
                      MintedIn(f) # Nothing
               PROVE  /\ MintedIn(f) # new
                      /\ \A o \in Slots : o[2] = "mint" /\ o # s =>
                           MintedIn(flow'[o]) # MintedIn(f)
  BY DEF MintFresh, MintedIn, Got
<1>4. CASE UNCHANGED flow
  <2>1. MintedIn(f) # was /\ \A o \in Slots : o[2] = "mint" /\ o # s =>
          MintedIn(flow'[o]) # MintedIn(f)
    BY <1>3, <1>4 DEF MintFresh
  <2>2. ASSUME NEW r \in Slots, flow' = [flow EXCEPT ![r] = IdleFlow],
               new = MintedIn(flow[r])
        PROVE  new = Nothing
    <3>1. flow[r] = IdleFlow
      BY <1>4, <2>2 DEF FlowInv
    <3> QED
      BY <2>2, <3>1 DEF MintedIn, Got, IdleFlow
  <2> QED
    BY <1>3, <2>1, <2>2, MintedIdMoves
<1>5. ASSUME NEW r \in Slots, NEW g, flow' = [flow EXCEPT ![r] = g],
             r[2] = "mint" => MintedIn(g) \in {Nothing, MintedIn(flow[r])}
                                                \cup (DOMAIN byId' \ DOMAIN byId)
      PROVE  /\ MintedIn(f) # new
             /\ \A o \in Slots : o[2] = "mint" /\ o # s =>
                  MintedIn(flow'[o]) # MintedIn(f)
  <2>1. \A o \in Slots : flow'[o] = IF o = r THEN g ELSE flow[o]
    BY <1>5 DEF FlowInv
  <2>2. \A o \in Slots : o[2] = "mint" =>
          MintedIn(flow'[o]) \in {Nothing, MintedIn(flow[o])}
                                   \cup (DOMAIN byId' \ DOMAIN byId)
    BY <1>5, <2>1
  <2>3. \A o \in Slots : o[2] = "mint" /\ o # s => MintedIn(flow'[o]) # MintedIn(f)
    <3> SUFFICES ASSUME NEW o \in Slots, o[2] = "mint", o # s
                 PROVE  MintedIn(flow'[o]) # MintedIn(f)
      OBVIOUS
    <3>1. CASE s # r
      <4>1. f = flow[s] /\ MintedIn(f) \in DOMAIN byId
        BY <1>1, <1>3, <2>1, <3>1 DEF Known
      <4>2. MintedIn(flow[o]) # MintedIn(f)
        BY <1>3, <4>1 DEF MintFresh
      <4>3. MintedIn(flow'[o]) \in {Nothing, MintedIn(flow[o])}
              \/ MintedIn(flow'[o]) \notin DOMAIN byId
        BY <2>2
      <4> QED
        BY <1>3, <4>1, <4>2, <4>3
    <3>2. CASE s = r
      <4>1. flow'[o] = flow[o] /\ f = g
        BY <1>3, <2>1, <3>2
      <4>2. MintedIn(flow[o]) \in Known(DOMAIN byId)
        BY <1>1
      <4>3. CASE MintedIn(f) = MintedIn(flow[s])
        <5>1. MintedIn(flow[o]) # MintedIn(flow[s])
          BY <1>3, <4>3 DEF MintFresh
        <5> QED
          BY <4>1, <4>3, <5>1
      <4>4. CASE MintedIn(f) \notin DOMAIN byId
        BY <1>3, <4>1, <4>2, <4>4 DEF Known
      <4> QED
        BY <1>3, <1>5, <3>2, <4>1, <4>3, <4>4
    <3> QED
      BY <3>1, <3>2
  <2>4. MintedIn(f) = MintedIn(flow[s]) \/ MintedIn(f) \notin DOMAIN byId
    BY <1>3, <2>2
  <2>5. CASE new \in {was, Nothing}
    <3>1. MintedIn(f) = MintedIn(flow[s]) => MintedIn(f) # was
      BY <1>3 DEF MintFresh
    <3> QED
      BY <1>2, <1>3, <2>3, <2>4, <2>5, <3>1 DEF Known
  <2>6. ASSUME NEW m \in Slots, m[2] = "mint", new = MintedIn(flow[m]),
               flow' = [flow EXCEPT ![m] = IdleFlow]
        PROVE  MintedIn(f) # new
    <3>1. flow'[m] = IdleFlow
      BY <2>6 DEF FlowInv
    <3>2. MintedIn(IdleFlow) = Nothing
      BY DEF MintedIn, Got, IdleFlow
    <3>3. m # s
      BY <1>3, <3>1, <3>2
    <3>4. f = flow[s]
      BY <1>3, <2>6, <3>3 DEF FlowInv
    <3> QED
      BY <1>3, <2>6, <3>3, <3>4 DEF MintFresh
  <2> QED
    BY <1>3, <2>3, <2>5, <2>6, MintedIdMoves
<1> QED
  BY <1>4, <1>5, MintedInMoves

\* The token the section minted has never been sent away.
MintKept == page.minted # Nothing /\ Len(historyByToken[page.minted]) = 1

\* While the session has such a token, a search that found none, shown or in
\* flight, was sent before a search that is still to come.
OfferInv ==
  session # NoSession /\ MintKept =>
    /\ page.held = Nothing /\ lastShown = "fresh" => Covered(0)
    /\ \A i \in 1 .. Len(searches) :
         /\ searches[i].mount = mount /\ searches[i].served
         /\ searches[i].held = Nothing /\ searches[i].fate = "fresh"
         => Covered(i)

\* A token newly reported to App is asked for at once.
LEMMA MintReadyCovers ==
  ASSUME StepAssumed, MintFresh, session # NoSession, NEW s \in Slots, s[2] = "mint",
         MintReady(s)
  PROVE  \E q : Sent(q) /\ q.mount = mount
<1> USE DEF StepAssumed
<1>1. PICK id : id = flow[s].item
  OBVIOUS
<1>2. MintedIn(flow[s]) = id /\ id \in DOMAIN byId
  <2>1. flow[s].step = "getToken"
    BY DEF MintReady, Answered
  <2>2. MintedBy(id, flow[s].auth)
    BY <1>1, <2>1, RequestNames
  <2> QED
    BY <1>1, <2>1, <2>2 DEF MintedIn, MintedBy
<1>3. id # mintedId
  BY <1>2, KnownAreNat DEF MintFresh, Nothing
<1>4. PICK x : searches' = Append(searches, x)
  BY <1>1, <1>3, Zenon DEF MintReady
<1>5. searches' # searches
  <2>1. Len(Append(searches, x)) = Len(searches) + 1 /\ Len(searches) \in Nat
    BY DEF FlowInv
  <2> QED
    BY <1>4, <2>1
<1>6. UNCHANGED mount
  BY DEF MintReady
<1> QED
  BY <1>5, <1>6, MintReadySends

LEMMA MintedMoves ==
  ASSUME StepAssumed, [WalletNext]_walletVars,
         session # NoSession, UNCHANGED <<session, mount>>, NEW p, p = page'
  PROVE  \/ p.minted \in {page.minted, Nothing}
         \/ \E s \in Slots : s[2] = "mint" /\ MintReady(s)
<1> USE DEF StepAssumed
<1>1. ASSUME NEW to, TransferClick(to) PROVE p.minted = page.minted
  BY <1>1, TransferClickShows
<1>2. ASSUME NEW s, MintFails(s) PROVE p.minted \in {page.minted, Nothing}
  BY <1>2, MintFailsShows
<1>3. ASSUME NEW s, TransferFails(s) PROVE p.minted = page.minted
  BY <1>3, TransferFailsShows
<1>4. ASSUME NEW s \in Slots, s[2] = "transfer", TransferReady(s)
      PROVE  p.minted = page.minted
  BY <1>4, TransferReadyShows
<1>5. ASSUME NEW i \in 1 .. Len(searches), ShowSearch(i) PROVE p.minted = page.minted
  BY <1>5, ShowSearchShows
<1>6. TokensStay(p) => p.minted = page.minted
  BY TokensFields
<1>7. ~StartOver
  BY DEF StartOver
<1>8. ASSUME NEW s, CreateReady(s) PROVE FALSE
  BY <1>8 DEF CreateReady, SessionInv
<1> QED
  BY <1>1, <1>2, <1>3, <1>4, <1>5, <1>6, <1>7, <1>8, TokensMove DEF TokensAct

LEMMA OfferInvStep ==
  ASSUME StepAssumed, OwnInv, MintFresh, OfferInv, [WalletNext]_walletVars
  PROVE  OfferInv'
<1> USE DEF StepAssumed
<1> PICK p, now : p = page' /\ now = searches'
  OBVIOUS
<1> PICK n \in Nat : n = Len(searches)
  BY LengthIsNat
<1> SUFFICES ASSUME session' # NoSession, p.minted # Nothing,
                    Len(historyByToken'[p.minted]) = 1
             PROVE  /\ p.held = Nothing /\ lastShown' = "fresh" => Covered(0)'
                    /\ \A j \in 1 .. Len(now) :
                         /\ now[j].mount = mount' /\ now[j].served
                         /\ now[j].held = Nothing /\ now[j].fate = "fresh"
                         => Covered(j)'
  BY DEF OfferInv, MintKept, Covered
<1>1. ASSUME NEW s \in Slots, CreateReady(s) PROVE FALSE
  BY <1>1, TokensEmptied
<1>2. ~StartOver
  BY DEF StartOver
<1>3. UNCHANGED <<session, mount>> /\ session # NoSession
  BY <1>1, <1>2, SessionMoves
<1>4. ASSUME NEW q, Sent(q), q.mount = mount
      PROVE  /\ Covered(0)'
             /\ \A j \in 1 .. Len(now) : now[j].served => Covered(j)'
  <2>1. Len(now) = n + 1 /\ now[n + 1] = q
    BY <1>4, SentAt
  <2>2. \A j \in 0 .. n : Covered(j)'
    BY <1>3, <1>4, CoveredIfSent
  <2>3. 0 \in 0 .. n
    OBVIOUS
  <2>4. ASSUME NEW j \in 1 .. Len(now), now[j].served PROVE Covered(j)'
    <3>1. j # n + 1
      BY <1>4, <2>1, <2>4 DEF Sent
    <3>2. j \in 0 .. n
      BY <2>1, <3>1
    <3> QED
      BY <2>2, <3>2
  <2> QED
    BY <2>2, <2>3, <2>4
<1>5. CASE \E s \in Slots : s[2] = "mint" /\ MintReady(s)
  BY <1>3, <1>4, <1>5, MintReadyCovers
<1>6. CASE p.minted = page.minted
  <2>1. PICK t : t = page.minted
    OBVIOUS
  <2>2. MintedBy(t, session) /\ t \in DOMAIN byId
    BY <1>6, <2>1 DEF PageInv, PageFits, MintedBy
  <2>3. Len(historyByToken[t]) = 1
    BY <1>6, <2>1, <2>2, OnlyMinted
  <2>4. /\ page.held = Nothing /\ lastShown = "fresh" => Covered(0)
        /\ \A i \in 1 .. n :
             /\ searches[i].mount = mount /\ searches[i].served
             /\ searches[i].held = Nothing /\ searches[i].fate = "fresh"
             => Covered(i)
    BY <1>3, <1>6, <2>1, <2>3 DEF OfferInv, MintKept
  <2>5. byId[t].owner = session
    BY <2>2, <2>3, MintedIsOwned
  <2>6. ASSUME p.held = Nothing, lastShown' = "fresh" PROVE Covered(0)'
    <3>1. ASSUME NEW i \in 1 .. Len(searches), ShowSearch(i), searches[i].mount = mount,
                 p.held = searches[i].held, lastShown' = searches[i].fate
          PROVE  Covered(0)'
      <4>1. searches[i].served
        BY <3>1 DEF ShowSearch
      <4>2. Covered(i)
        BY <2>4, <2>6, <3>1, <4>1
      <4> QED
        BY <1>3, <3>1, <4>2, CoveredIfShown
    <3> QED
      BY <1>3, <2>4, <2>6, <3>1, HeldMoves
  <2>7. ASSUME NEW j \in 1 .. Len(now), now[j].mount = mount, now[j].served,
               now[j].held = Nothing, now[j].fate = "fresh"
        PROVE  Covered(j)'
    <3>1. ASSUME NEW i \in 1 .. Len(searches), Remains(i, j, now[j]) PROVE Covered(j)'
      BY <2>4, <2>7, <3>1 DEF Remains
    <3>2. ASSUME NEW i \in 1 .. Len(searches), Finds(i, now[j]) PROVE FALSE
      <4>1. searches[i].auth = session
        BY <1>3, <3>2 DEF OwnInv, Finds
      <4>2. byId[t].owner # session
        BY <2>2, <2>7, <3>2, <4>1 DEF Finds, SearchFinds
      <4> QED
        BY <2>5, <4>2
    <3> QED
      BY <1>3, <2>7, <3>1, <3>2, SearchStems
  <2> QED
    BY <1>3, <2>6, <2>7
<1> QED
  BY <1>3, <1>5, <1>6, MintedMoves

-----------------------------------------------------------------------------
(* The inductive invariant, and what it says of the transfer section *)

SearchInv ==
  /\ WalletInv /\ RefreshInv /\ DisplayInv /\ HeldInv /\ MintFresh /\ OfferInv

LEMMA SearchInvInit == WalletInit => SearchInv
<1> SUFFICES ASSUME WalletInit PROVE SearchInv
  OBVIOUS
<1>1. /\ flow = [s \in Slots |-> IdleFlow] /\ searches = <<>>
      /\ session = NoSession /\ page = EmptyPage /\ uses \in Uses /\ lastShown = "fresh"
  BY DEF WalletInit
<1>2. WalletInv
  BY WalletInvInit
<1>3. \A s \in Slots : flow[s] = IdleFlow
  BY <1>1
<1>4. Len(searches) = 0
  BY <1>1
<1>5. RefreshInv
  <2>1. \A m \in 0 .. MaxSessions : ~Refreshing(m)
    <3> SUFFICES ASSUME NEW m \in 0 .. MaxSessions, NEW t, t = <<m, "transfer">>
                 PROVE  ~(flow[t].step = "refresh")
      BY DEF Refreshing
    <3>1. t \in Slots
      BY TransferSlot
    <3>2. flow[t] = IdleFlow
      BY <1>3, <3>1
    <3> QED
      BY <3>2 DEF IdleFlow
  <2> QED
    BY <1>4, <2>1 DEF RefreshInv
<1>6. DisplayInv
  BY <1>1 DEF DisplayInv, EmptyPage
<1>7. HeldInv /\ OfferInv
  BY <1>1 DEF HeldInv, OfferInv
<1>8. MintFresh
  BY <1>3 DEF MintFresh, MintedIn, Got, IdleFlow
<1> QED
  BY <1>2, <1>5, <1>6, <1>7, <1>8 DEF SearchInv

LEMMA SearchInvStep == SearchInv /\ [WalletNext]_walletVars => SearchInv'
<1> SUFFICES ASSUME SearchInv, [WalletNext]_walletVars PROVE SearchInv'
  OBVIOUS
<1>1. WalletInv /\ WalletInv' /\ [Next]_vars
  BY WalletInvStep DEF SearchInv
<1>2. StepAssumed
  BY <1>1, ServiceGrows DEF WalletInv, StepAssumed
<1>3. OwnInv /\ Exclusive
  BY <1>1 DEF WalletInv
<1>4. RefreshInv' /\ DisplayInv'
  BY <1>2, <1>3, RefreshInvStep, DisplayInvStep DEF SearchInv
<1>5. HeldInv'
  BY <1>2, <1>3, HeldInvStep DEF SearchInv
<1>6. MintFresh' /\ OfferInv'
  BY <1>2, <1>3, MintFreshStep, OfferInvStep DEF SearchInv
<1> QED
  BY <1>1, <1>4, <1>5, <1>6 DEF SearchInv

LEMMA SearchInvHolds == WalletSpec => []SearchInv
BY SearchInvInit, SearchInvStep, PTL DEF WalletSpec

\* The page refers to things the service knows, and the transfer section is
\* busy with a refresh exactly while it has a search of its own in flight
\* (App.tsx 656-663, 716-721).
THEOREM WalletIsTyped == WalletSpec => []WalletTypeOK
<1>1. SearchInv => WalletTypeOK
  BY WalletTyped DEF SearchInv
<1> QED
  BY <1>1, SearchInvHolds, PTL

\* The token the transfer section offers is still the session's, once nothing
\* is in flight and no error is shown, unless the answer of an older search
\* came last (App.tsx 653-663, 716).
THEOREM HeldTokensHonest == WalletSpec => []HeldHonest
<1>1. SearchInv => HeldHonest
  <2> SUFFICES ASSUME SearchInv, TransferSettled, page.held # Nothing,
                      lastShown # "late"
               PROVE  byId[page.held].owner = SessionDid
    BY DEF HeldHonest
  <2>1. /\ session # NoSession /\ session \in DOMAIN byToken
        /\ WalletInv /\ ServiceInv /\ FlowInv
    BY DEF SearchInv, WalletInv, SessionInv, TransferSettled, Known, NoSession, Nothing
  <2>2. SessionDid = session
    BY <2>1, TokenOfDid DEF SessionDid
  <2>3. ~Excused
    BY DEF TransferSettled, Excused, Underway, Busy
  <2>4. ~Covered(0)
    BY <2>1 DEF TransferSettled, SearchesSettled, Covered, FlowInv
  <2>5. ~Gone(page.held)
    BY <2>1, <2>3, <2>4 DEF SearchInv, HeldInv
  <2> QED
    BY <2>2, <2>5 DEF Gone
<1> QED
  BY <1>1, SearchInvHolds, PTL

\* A token the page minted and never sent away does not stay out of the
\* transfer section once the searches have been answered, unless the last
\* answer shown was that of a failed search or of an older one
\* (App.tsx 523-525, 665-674).
THEOREM MintsOffered == WalletSpec => []MintOffered
<1>1. SearchInv => MintOffered
  <2> SUFFICES ASSUME SearchInv, session # NoSession, SearchesSettled,
                      lastShown = "fresh", MintKept
               PROVE  page.held # Nothing
    BY DEF MintOffered, MintKept, Journey
  <2>1. ~Covered(0)
    BY DEF SearchInv, WalletInv, SearchesSettled, Covered, FlowInv
  <2> QED
    BY <2>1 DEF SearchInv, OfferInv
<1> QED
  BY <1>1, SearchInvHolds, PTL
=============================================================================
