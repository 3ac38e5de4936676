-------------------------- MODULE RefStorageProofs --------------------------
(***************************************************************************)
(* Proofs about the reference API's store, for every number of handlers,   *)
(* every set of requests and every bound.                                  *)
(*                                                                         *)
(* What holds of the stores holds by the order of the sections alone:      *)
(* nothing is assumed about the locks between them.                        *)
(***************************************************************************)
EXTENDS RefStorage, SequenceTheorems, FiniteSetTheorems, TLAPS

\* The sections of the handler of each request.
Section(op, at) ==
  \/ op = "none" /\ at = "idle"
  \/ op = "createUser" /\ at \in {"checkAddr", "reserveAddr", "storeUser"}
  \/ op = "createManager" /\ at = "storeManager"
  \/ op = "createSupported" /\ at \in {"findManager", "storeSupported"}
  \/ op = "createAccount" /\ at \in {"findManager", "listSupported",
                                     "findUser", "storeAccount"}
  \/ op = "createAsset" /\ at \in {"findUser", "findAccount", "storeAsset"}
  \/ op = "getAccount" /\ at \in {"findUser", "readAccount", "readStore",
                                  "listAssets"}
  \/ op = "transfer" /\ at \in {"findUser", "findAccount", "findPeer",
                                "findPeerAccount", "takeAsset", "putAsset"}

Handler ==
  [req : RequestSpace \cup {NoRequest}, at : SectionNames,
   phase : {"out", "waiting", "in"}, peer : Nat, coin : Nat]

\* What a handler has found out by the section it is at, in the users, the
\* supports, the accounts and the coins: whatever it relies on still holds.
Checked(h, us, su, ac, cs) ==
  /\ h \in Handler
  /\ Section(h.req.op, h.at)
  /\ IF h.at = "putAsset" THEN h.coin \in 1 .. cs ELSE h.coin = NoCoin
  /\ h.at \in {"listSupported", "storeSupported"} => h.req.manager \in DOMAIN su
  /\ h.req.op = "createAccount" /\ h.at \in {"findUser", "storeAccount"} =>
       h.req.manager \in DOMAIN su /\ su[h.req.manager]
  /\ h.at = "storeAccount" => h.req.user \in DOMAIN us
  /\ h.at = "storeAsset" => h.req.account \in DOMAIN ac
  /\ IF h.at \in {"findPeerAccount", "takeAsset", "putAsset"}
       THEN h.peer \in DOMAIN us /\ us[h.peer] = h.req.addr
       ELSE h.peer = NoUser
  /\ h.at \in {"takeAsset", "putAsset"} =>
       /\ h.req.peerAccount \in DOMAIN ac
       /\ ac[h.req.peerAccount].user = h.peer

StoresTyped ==
  /\ users \in Seq(Addresses) /\ addrs \subseteq Addresses
  /\ supports \in Seq(BOOLEAN)
  /\ accounts \in Seq([user : Nat, manager : Nat])
  /\ \A a \in DOMAIN accounts :
       /\ accounts[a].user \in DOMAIN users
       /\ accounts[a].manager \in DOMAIN supports
  /\ assetIds \in Nat /\ coins \in Nat /\ coins <= assetIds
  /\ assets \subseteq [id : 1 .. assetIds, coin : 1 .. coins,
                       account : DOMAIN accounts]

HandlersTyped ==
  /\ task \in [Tasks -> Handler]
  /\ \A t \in Tasks : Checked(task[t], users, supports, accounts, coins)

StoreInv == StoresTyped /\ HandlersTyped

-----------------------------------------------------------------------------
(* Steps *)

\* A step of a handler leaves the others alone.
Steps(t, h) == task' = [task EXCEPT ![t] = h]

\* Nothing stored is taken back, and no support withdrawn.
Grown ==
  /\ coins \in Nat /\ coins' \in Nat /\ coins <= coins'
  /\ \A u \in DOMAIN users : u \in DOMAIN users' /\ users'[u] = users[u]
  /\ \A m \in DOMAIN supports :
       m \in DOMAIN supports' /\ (supports[m] => supports'[m])
  /\ \A a \in DOMAIN accounts :
       a \in DOMAIN accounts' /\ accounts'[a] = accounts[a]

LEMMA CheckedKept ==
  ASSUME Grown, NEW h, Checked(h, users, supports, accounts, coins)
  PROVE  Checked(h, users', supports', accounts', coins')
<1>1. 1 .. coins \subseteq 1 .. coins'
  BY DEF Grown
<1> QED
  BY <1>1 DEF Grown, Checked

LEMMA HandlersStep ==
  ASSUME HandlersTyped, Grown, NEW t \in Tasks, NEW h, Steps(t, h),
         Checked(h, users', supports', accounts', coins')
  PROVE  HandlersTyped'
<1>1. h \in Handler
  BY DEF Checked
<1>2. task' \in [Tasks -> Handler]
  BY <1>1 DEF HandlersTyped, Steps
<1>3. ASSUME NEW s \in Tasks
      PROVE  Checked(task'[s], users', supports', accounts', coins')
  <2>1. CASE s = t
    BY <2>1 DEF HandlersTyped, Steps
  <2>2. CASE s # t
    <3>1. task'[s] = task[s]
      BY <2>2 DEF HandlersTyped, Steps
    <3>2. Checked(task[s], users, supports, accounts, coins)
      BY DEF HandlersTyped
    <3> QED
      BY <3>1, <3>2, CheckedKept
  <2> QED
    BY <2>1, <2>2
<1> QED
  BY <1>2, <1>3 DEF HandlersTyped

\* Requests as the handlers read them.
LEMMA RequestFields ==
  ASSUME NEW r \in RequestSpace \cup {NoRequest}
  PROVE  /\ r.op \in {"none", "createUser", "createManager", "createSupported",
                      "createAccount", "createAsset", "getAccount", "transfer"}
         /\ r.op = "none" <=> r \notin RequestSpace
         /\ r.op = "createUser" => r.addr \in Addresses
         /\ r.op \in {"createSupported", "createAccount"} =>
              r.manager \in 1 .. MaxManagers
         /\ r.op \in {"createAccount", "createAsset", "getAccount", "transfer"}
              => r.user \in 1 .. MaxUsers
         /\ r.op \in {"createAsset", "getAccount", "transfer"}
              => r.account \in 1 .. MaxAccounts
         /\ r.op = "transfer" =>
              r.addr \in Addresses /\ r.peerAccount \in 1 .. MaxAccounts
BY DEF RequestSpace, NoRequest

LEMMA IdleChecked ==
  ASSUME NEW us, NEW su, NEW ac, NEW cs
  PROVE  Checked(Idle, us, su, ac, cs)
<1>1. Idle \in Handler
  BY DEF Idle, Handler, NoRequest, NoUser, NoCoin, SectionNames
<1>2. /\ Idle.at = "idle" /\ Idle.req.op = "none" /\ Idle.coin = NoCoin
      /\ Idle.peer = NoUser
  BY DEF Idle, NoRequest
<1> QED
  BY <1>1, <1>2 DEF Checked, Section

\* A step that only moves its handler: it keeps the coin in its hands, and what
\* it reserved.
Quiet(t, h) ==
  /\ Steps(t, h)
  /\ Checked(h, users, supports, accounts, coins)
  /\ h.coin = task[t].coin
  /\ h.coin # NoCoin => h.req = task[t].req
  /\ "storeUser" \in {h.at, task[t].at} =>
       h.at = task[t].at /\ h.req = task[t].req
  /\ \/ h.req \in {task[t].req, NoRequest}
     \/ h.req \in Requests /\ Room(h.req.op) /\ task[t].req = NoRequest
  /\ UNCHANGED <<storeVars, lostVars>>

IsQuiet(t) == \E h : Quiet(t, h)

LEMMA QuietAnswer ==
  ASSUME HandlersTyped, NEW t \in Tasks, Answer(t),
         UNCHANGED <<storeVars, lostVars>>,
         task[t].at \notin {"putAsset", "storeUser"}
  PROVE  IsQuiet(t)
<1>1. Steps(t, Idle)
  BY DEF Answer, Steps
<1>2. /\ task[t].coin = NoCoin /\ Idle.coin = NoCoin /\ Idle.at = "idle"
      /\ Idle.req = NoRequest
  BY DEF HandlersTyped, Checked, Idle
<1>3. Quiet(t, Idle)
  BY <1>1, <1>2, IdleChecked DEF Quiet
<1> QED
  BY <1>3 DEF IsQuiet

At(t, section) == [task[t] EXCEPT !.at = section, !.phase = "out"]

LEMMA QuietMove ==
  ASSUME HandlersTyped, NEW t \in Tasks, NEW section,
         task' = [task EXCEPT ![t].at = section, ![t].phase = "out"],
         UNCHANGED <<storeVars, lostVars>>,
         task[t].at \notin {"putAsset", "storeUser"}, section # "storeUser",
         Checked(At(t, section), users, supports, accounts, coins)
  PROVE  IsQuiet(t)
<1>1. task[t] \in Handler /\ task \in [Tasks -> Handler]
  BY DEF HandlersTyped
<1>2. Steps(t, At(t, section))
  BY <1>1 DEF Steps, At
<1>3. /\ At(t, section).coin = task[t].coin
      /\ At(t, section).req = task[t].req
      /\ At(t, section).at = section
  BY <1>1 DEF At, Handler
<1>4. Quiet(t, At(t, section))
  BY <1>2, <1>3 DEF Quiet
<1> QED
  BY <1>4 DEF IsQuiet

\* The fields of a handler that has moved.
LEMMA AtFields ==
  ASSUME HandlersTyped, NEW t \in Tasks, NEW section \in SectionNames
  PROVE  /\ At(t, section) \in Handler
         /\ At(t, section).at = section
         /\ At(t, section).req = task[t].req
         /\ At(t, section).peer = task[t].peer
         /\ At(t, section).coin = task[t].coin
         /\ task[t] \in Handler
         /\ task[t].req \in RequestSpace \cup {NoRequest}
         /\ task[t].at # "putAsset" => task[t].coin = NoCoin
         /\ task[t].at \notin {"findPeerAccount", "takeAsset", "putAsset"} =>
              task[t].peer = NoUser
         /\ Section(task[t].req.op, task[t].at)
BY DEF HandlersTyped, Checked, At, Handler

LEMMA ReceiveQuiet ==
  ASSUME StoreInv, NEW t \in Tasks, NEW req \in Requests, Receive(t, req)
  PROVE  IsQuiet(t)
<1> DEFINE h == [task[t] EXCEPT !.req = req, !.at = FirstSection(req.op)]
<1>1. /\ task[t] \in Handler /\ task[t].coin = NoCoin
      /\ task[t].peer = NoUser
  BY DEF StoreInv, HandlersTyped, Checked, Receive
<1>2. req \in RequestSpace
  BY RefStorageAssumption
<1>3. FirstSection(req.op) \in {"checkAddr", "storeManager", "findManager", "findUser"}
  BY DEF FirstSection
<1>4. /\ h \in Handler /\ h.req = req /\ h.at = FirstSection(req.op)
      /\ h.coin = NoCoin /\ h.peer = NoUser
  <2>1. PICK section : section = FirstSection(req.op)
    OBVIOUS
  <2>2. section \in SectionNames
    BY <1>3, <2>1 DEF SectionNames
  <2>3. [task[t] EXCEPT !.req = req, !.at = section] \in Handler
    BY <1>1, <1>2, <2>2 DEF Handler
  <2> QED
    BY <1>1, <2>1, <2>3 DEF Handler
<1>5. Checked(h, users, supports, accounts, coins)
  <2> HIDE DEF h
  <2>1. /\ Section(req.op, h.at)
        /\ h.at \in {"checkAddr", "storeManager", "findManager", "findUser"}
        /\ req.op = "createAccount" => h.at = "findManager"
    BY <1>2, <1>3, <1>4, RequestFields DEF FirstSection, Section
  <2> QED
    BY <1>4, <2>1 DEF Checked
<1>6. h.at # "storeUser" /\ task[t].at = "idle" /\ Steps(t, h) /\ Room(h.req.op)
  BY <1>3, <1>4 DEF Receive, Steps
<1>n. task[t].req = NoRequest
  <2>1. task[t].req.op = "none"
    BY <1>6 DEF StoreInv, HandlersTyped, Checked, Section
  <2> QED
    BY <1>1, <2>1, RequestFields DEF Handler
<1>7. UNCHANGED <<storeVars, lostVars>>
  BY DEF Receive
<1> HIDE DEF h
<1>8. Quiet(t, h)
  BY <1>1, <1>4, <1>5, <1>6, <1>7, <1>n DEF Quiet
<1> QED
  BY <1>8 DEF IsQuiet

LEMMA LockQuiet ==
  ASSUME StoreInv, NEW t \in Tasks, Ask(t) \/ Enter(t)
  PROVE  IsQuiet(t)
<1>1. PICK phase \in {"in", "waiting"} :
        task' = [task EXCEPT ![t].phase = phase]
  BY DEF Ask, Enter
<1> DEFINE h == [task[t] EXCEPT !.phase = phase]
<1>2. task[t] \in Handler /\ task \in [Tasks -> Handler]
  BY DEF StoreInv, HandlersTyped
<1>3. /\ h \in Handler /\ h.req = task[t].req /\ h.at = task[t].at
      /\ h.coin = task[t].coin /\ h.peer = task[t].peer
  BY <1>2 DEF Handler
<1>4. Steps(t, h)
  BY <1>1, <1>2 DEF Steps
<1> HIDE DEF h
<1>5. Checked(h, users, supports, accounts, coins)
  BY <1>3 DEF StoreInv, HandlersTyped, Checked
<1>6. Quiet(t, h)
  BY <1>3, <1>4, <1>5 DEF Quiet, Ask, Enter
<1> QED
  BY <1>6 DEF IsQuiet

\* create_user, until it stores anything.
LEMMA CheckAddrQuiet ==
  ASSUME StoreInv, NEW t \in Tasks, CheckAddr(t)
  PROVE  IsQuiet(t)
<1>1. /\ task[t].at = "checkAddr" /\ UNCHANGED <<storeVars, lostVars>>
      /\ Answer(t) \/ MoveOn(t, "reserveAddr")
  BY DEF CheckAddr, Inside
<1>2. CASE Answer(t)
  BY <1>1, <1>2, QuietAnswer DEF StoreInv
<1>3. CASE MoveOn(t, "reserveAddr")
  <2>1. Checked(At(t, "reserveAddr"), users, supports, accounts, coins)
    BY <1>1, AtFields DEF StoreInv, Checked, Section, SectionNames
  <2> QED
    BY <1>1, <1>3, <2>1, QuietMove DEF StoreInv, MoveOn
<1> QED
  BY <1>1, <1>2, <1>3

LEMMA FindUserQuiet ==
  ASSUME StoreInv, NEW t \in Tasks, FindUser(t)
  PROVE  IsQuiet(t)
<1>1. task[t].at = "findUser" /\ UNCHANGED <<storeVars, lostVars>>
  BY DEF FindUser, Inside
<1>2. CASE Answer(t)
  BY <1>1, <1>2, QuietAnswer DEF StoreInv
<1>3. CASE MoveOn(t, AfterFindUser(task[t].req.op)) /\ ~Answer(t)
  <2>1. PICK section : section = AfterFindUser(task[t].req.op)
    OBVIOUS
  <2>2. task[t].req.user \in DOMAIN users
    BY <1>3 DEF FindUser
  <2>3. task[t].req.op \in {"createAccount", "getAccount", "createAsset", "transfer"}
    BY <1>1, AtFields DEF StoreInv, Section, SectionNames
  <2>4. /\ section \in {"storeAccount", "readAccount", "findAccount"}
        /\ Section(task[t].req.op, section)
        /\ section = "storeAccount" => task[t].req.op = "createAccount"
    BY <2>1, <2>3 DEF AfterFindUser, Section
  <2>5. task[t].req.op = "createAccount" =>
          task[t].req.manager \in DOMAIN supports /\ supports[task[t].req.manager]
    BY <1>1 DEF StoreInv, HandlersTyped, Checked
  <2>6. Checked(At(t, section), users, supports, accounts, coins)
    <3>1. section \in SectionNames
      BY <2>4 DEF SectionNames
    <3> QED
      BY <1>1, <2>2, <2>4, <2>5, <3>1, AtFields DEF StoreInv, Checked
  <2> QED
    BY <1>1, <1>3, <2>1, <2>4, <2>6, QuietMove DEF StoreInv, MoveOn
<1> QED
  BY <1>2, <1>3 DEF FindUser

LEMMA FindPeerQuiet ==
  ASSUME StoreInv, NEW t \in Tasks, FindPeer(t)
  PROVE  IsQuiet(t)
<1>1. task[t].at = "findPeer" /\ UNCHANGED <<storeVars, lostVars>>
  BY DEF FindPeer, Inside
<1>2. CASE Answer(t)
  BY <1>1, <1>2, QuietAnswer DEF StoreInv
<1>3. ASSUME NEW u \in DOMAIN users, users[u] = task[t].req.addr,
             task' = [task EXCEPT ![t] =
                        [@ EXCEPT !.at = "findPeerAccount", !.phase = "out",
                                  !.peer = u]]
      PROVE  IsQuiet(t)
  <2> DEFINE h == [task[t] EXCEPT !.at = "findPeerAccount", !.phase = "out",
                                  !.peer = u]
  <2>1. task[t] \in Handler /\ u \in Nat
    BY DEF StoreInv, HandlersTyped, StoresTyped
  <2>2. /\ h \in Handler /\ h.req = task[t].req /\ h.at = "findPeerAccount"
        /\ h.coin = task[t].coin /\ h.peer = u
    BY <2>1 DEF Handler, SectionNames
  <2>3. Steps(t, h)
    BY <1>3 DEF Steps
  <2> HIDE DEF h
  <2>4. /\ Section(task[t].req.op, task[t].at)
        /\ task[t].coin = NoCoin
    BY <1>1, AtFields DEF StoreInv, SectionNames
  <2>5. Section(h.req.op, h.at) /\ h.req.op = "transfer"
    BY <1>1, <2>2, <2>4 DEF Section
  <2>6. Checked(h, users, supports, accounts, coins)
    BY <1>3, <2>2, <2>4, <2>5 DEF Checked
  <2>7. Quiet(t, h)
    BY <1>1, <2>2, <2>3, <2>4, <2>6 DEF Quiet
  <2> QED
    BY <2>7 DEF IsQuiet
<1> QED
  BY <1>2, <1>3 DEF FindPeer

\* The token managers a request names.
LEMMA FindManagerQuiet ==
  ASSUME StoreInv, NEW t \in Tasks, FindManager(t)
  PROVE  IsQuiet(t)
<1>1. task[t].at = "findManager" /\ UNCHANGED <<storeVars, lostVars>>
  BY DEF FindManager, Inside
<1>2. CASE Answer(t)
  BY <1>1, <1>2, QuietAnswer DEF StoreInv
<1>3. ASSUME NEW section \in {"listSupported", "storeSupported"},
             section = "listSupported" <=> task[t].req.op = "createAccount",
             MoveOn(t, section), task[t].req.manager \in DOMAIN supports
      PROVE  IsQuiet(t)
  <2>1. section \in SectionNames
    BY DEF SectionNames
  <2>2. Section(task[t].req.op, section)
    BY <1>1, <1>3, <2>1, AtFields DEF StoreInv, Section
  <2>3. Checked(At(t, section), users, supports, accounts, coins)
    BY <1>1, <1>3, <2>1, <2>2, AtFields DEF StoreInv, Checked
  <2> QED
    BY <1>1, <1>3, <2>3, QuietMove DEF StoreInv, MoveOn
<1> QED
  BY <1>2, <1>3 DEF FindManager

LEMMA ListSupportedQuiet ==
  ASSUME StoreInv, NEW t \in Tasks, ListSupported(t)
  PROVE  IsQuiet(t)
<1>1. task[t].at = "listSupported" /\ UNCHANGED <<storeVars, lostVars>>
  BY DEF ListSupported, Inside
<1>2. CASE Answer(t)
  BY <1>1, <1>2, QuietAnswer DEF StoreInv
<1>3. CASE MoveOn(t, "findUser") /\ supports[task[t].req.manager]
  <2>1. task[t].req.manager \in DOMAIN supports /\ task[t].req.op = "createAccount"
    BY <1>1, AtFields DEF StoreInv, HandlersTyped, Checked, Section, SectionNames
  <2>2. Checked(At(t, "findUser"), users, supports, accounts, coins)
    BY <1>1, <1>3, <2>1, AtFields DEF StoreInv, Checked, Section, SectionNames
  <2> QED
    BY <1>1, <1>3, <2>2, QuietMove DEF StoreInv, MoveOn
<1> QED
  BY <1>2, <1>3 DEF ListSupported

\* The accounts a request names.
LEMMA FindAccountQuiet ==
  ASSUME StoreInv, NEW t \in Tasks, FindAccount(t)
  PROVE  IsQuiet(t)
<1>1. task[t].at = "findAccount" /\ UNCHANGED <<storeVars, lostVars>>
  BY DEF FindAccount, Inside
<1>2. CASE Answer(t)
  BY <1>1, <1>2, QuietAnswer DEF StoreInv
<1>3. ASSUME NEW section \in {"storeAsset", "findPeer"},
             section = "storeAsset" <=> task[t].req.op = "createAsset",
             MoveOn(t, section), task[t].req.account \in DOMAIN accounts
      PROVE  IsQuiet(t)
  <2>1. section \in SectionNames
    BY DEF SectionNames
  <2>2. Section(task[t].req.op, section)
    BY <1>1, <1>3, <2>1, AtFields DEF StoreInv, Section
  <2>3. Checked(At(t, section), users, supports, accounts, coins)
    BY <1>1, <1>3, <2>1, <2>2, AtFields DEF StoreInv, Checked
  <2> QED
    BY <1>1, <1>3, <2>3, QuietMove DEF StoreInv, MoveOn
<1> QED
  BY <1>2, <1>3 DEF FindAccount, HasAccount

LEMMA FindPeerAccountQuiet ==
  ASSUME StoreInv, NEW t \in Tasks, FindPeerAccount(t)
  PROVE  IsQuiet(t)
<1>1. task[t].at = "findPeerAccount" /\ UNCHANGED <<storeVars, lostVars>>
  BY DEF FindPeerAccount, Inside
<1>2. CASE Answer(t)
  BY <1>1, <1>2, QuietAnswer DEF StoreInv
<1>3. CASE MoveOn(t, "takeAsset") /\ ~Answer(t)
  <2>1. /\ task[t].req.peerAccount \in DOMAIN accounts
        /\ accounts[task[t].req.peerAccount].user = task[t].peer
    BY <1>3 DEF FindPeerAccount, HasAccount
  <2>2. /\ task[t].peer \in DOMAIN users
        /\ users[task[t].peer] = task[t].req.addr
    BY <1>1 DEF StoreInv, HandlersTyped, Checked
  <2>3. task[t].req.op = "transfer"
    BY <1>1, AtFields DEF StoreInv, Section, SectionNames
  <2>4. "takeAsset" \in SectionNames /\ Section("transfer", "takeAsset")
    BY DEF SectionNames, Section
  <2>5. PICK h : h = At(t, "takeAsset")
    OBVIOUS
  <2>6. /\ h \in Handler /\ h.at = "takeAsset" /\ h.req = task[t].req
        /\ h.peer = task[t].peer /\ h.coin = NoCoin
    BY <1>1, <2>4, <2>5, AtFields DEF StoreInv
  <2>7. Checked(h, users, supports, accounts, coins)
    BY <2>1, <2>2, <2>3, <2>4, <2>6 DEF Checked
  <2> QED
    BY <1>1, <1>3, <2>5, <2>7, QuietMove DEF StoreInv, MoveOn
<1> QED
  BY <1>2, <1>3 DEF FindPeerAccount

\* get_account
LEMMA ReadAccountQuiet ==
  ASSUME StoreInv, NEW t \in Tasks, ReadAccount(t)
  PROVE  IsQuiet(t)
<1>1. task[t].at = "readAccount" /\ UNCHANGED <<storeVars, lostVars>>
  BY DEF ReadAccount, Inside
<1>2. CASE Answer(t)
  BY <1>1, <1>2, QuietAnswer DEF StoreInv
<1>3. CASE task' = [task EXCEPT ![t].at = "readStore", ![t].phase = "out"]
  <2>1. Checked(At(t, "readStore"), users, supports, accounts, coins)
    BY <1>1, AtFields DEF StoreInv, Checked, Section, SectionNames
  <2> QED
    BY <1>1, <1>3, <2>1, QuietMove DEF StoreInv
<1> QED
  BY <1>2, <1>3 DEF ReadAccount

LEMMA ReadStoreQuiet ==
  ASSUME StoreInv, NEW t \in Tasks, ReadStore(t)
  PROVE  IsQuiet(t)
<1>1. task[t].at = "readStore" /\ UNCHANGED <<storeVars, lostVars>>
  BY DEF ReadStore, Inside
<1>2. task' = [task EXCEPT ![t].at = "listAssets", ![t].phase = "out"]
  BY DEF ReadStore
<1>3. Checked(At(t, "listAssets"), users, supports, accounts, coins)
  BY <1>1, AtFields DEF StoreInv, Checked, Section, SectionNames
<1> QED
  BY <1>1, <1>2, <1>3, QuietMove DEF StoreInv

LEMMA ListAssetsQuiet ==
  ASSUME StoreInv, NEW t \in Tasks, ListAssets(t)
  PROVE  IsQuiet(t)
BY QuietAnswer DEF ListAssets, Inside, StoreInv

\* A transfer takes the asset it names.
Taken(t, x) ==
  /\ Inside(t, "takeAsset")
  /\ assets' = assets \ {x}
  /\ TakesCoin(t, x)
  /\ UNCHANGED <<users, addrs, supports, accounts, assetIds, coins, lostVars>>

\* What a step does to the stores: it moves a handler, or it is one of the few
\* that store something, or a handler is dropped.
Effect(t) ==
  \/ IsQuiet(t)
  \/ ReserveAddr(t) \/ StoreUser(t)
  \/ StoreManager(t) \/ StoreSupported(t) \/ StoreAccount(t)
  \/ StoreAsset(t) \/ PutAsset(t) \/ \E x \in Named(t) : Taken(t, x)
  \/ Disconnect(t)

LEMMA StepEffect ==
  ASSUME StoreInv, Next
  PROVE  \E t \in Tasks : Effect(t)
<1>1. ASSUME NEW t \in Tasks, NEW req \in Requests, Receive(t, req)
      PROVE  Effect(t)
  BY <1>1, ReceiveQuiet DEF Effect
<1>2. ASSUME NEW t \in Tasks, Run(t)
      PROVE  Effect(t)
  <2>1. CASE Ask(t) \/ Enter(t)
    BY <2>1, LockQuiet DEF Effect
  <2>2. CASE CheckAddr(t) \/ FindUser(t) \/ FindPeer(t)
    BY <2>2, CheckAddrQuiet, FindUserQuiet, FindPeerQuiet DEF Effect
  <2>3. CASE FindManager(t) \/ ListSupported(t)
    BY <2>3, FindManagerQuiet, ListSupportedQuiet DEF Effect
  <2>4. CASE FindAccount(t) \/ FindPeerAccount(t)
    BY <2>4, FindAccountQuiet, FindPeerAccountQuiet DEF Effect
  <2>5. CASE ReadAccount(t) \/ ReadStore(t) \/ ListAssets(t)
    BY <2>5, ReadAccountQuiet, ReadStoreQuiet, ListAssetsQuiet DEF Effect
  <2>6. CASE TakeAsset(t)
    <3>1. CASE Answer(t) /\ UNCHANGED assets
      <4>1. UNCHANGED <<storeVars, lostVars>> /\ task[t].at = "takeAsset"
        BY <2>6, <3>1 DEF TakeAsset, Inside, storeVars
      <4> QED
        BY <3>1, <4>1, QuietAnswer DEF StoreInv, Effect
    <3>2. CASE \E x \in Named(t) :
                 assets' = assets \ {x} /\ TakesCoin(t, x)
      BY <2>6, <3>2 DEF TakeAsset, Taken, Effect
    <3> QED
      BY <2>6, <3>1, <3>2 DEF TakeAsset
  <2>7. CASE \/ ReserveAddr(t) \/ StoreUser(t) \/ StoreManager(t)
             \/ StoreSupported(t) \/ StoreAccount(t) \/ StoreAsset(t)
             \/ PutAsset(t)
    BY <2>7 DEF Effect
  <2> QED
    BY <1>2, <2>1, <2>2, <2>3, <2>4, <2>5, <2>6, <2>7 DEF Run
<1>3. ASSUME NEW t \in Tasks, Disconnect(t)
      PROVE  Effect(t)
  BY <1>3 DEF Effect
<1> QED
  BY <1>1, <1>2, <1>3 DEF Next

-----------------------------------------------------------------------------
(* The stores *)

LEMMA Appended ==
  ASSUME NEW S, NEW s \in Seq(S), NEW e \in S
  PROVE  /\ Append(s, e) \in Seq(S)
         /\ DOMAIN Append(s, e) = 1 .. Len(s) + 1 /\ DOMAIN s = 1 .. Len(s)
         /\ Len(s) \in Nat
         /\ \A i \in DOMAIN s : i \in DOMAIN Append(s, e)
                                /\ Append(s, e)[i] = s[i]
         /\ Append(s, e)[Len(s) + 1] = e
<1>1. Len(s) \in Nat /\ DOMAIN s = 1 .. Len(s)
  OBVIOUS
<1>2. /\ Append(s, e) \in Seq(S)
      /\ Len(Append(s, e)) = Len(s) + 1
      /\ \A i \in 1 .. Len(s) : Append(s, e)[i] = s[i]
      /\ Append(s, e)[Len(s) + 1] = e
  BY AppendProperties
<1>3. DOMAIN Append(s, e) = 1 .. Len(s) + 1
  BY <1>2
<1> QED
  BY <1>1, <1>2, <1>3

LEMMA StoreInvInit == Init => StoreInv
<1> SUFFICES ASSUME Init
             PROVE  StoreInv
  OBVIOUS
<1>1. StoresTyped
  BY DEF Init, StoresTyped
<1>2. task = [t \in Tasks |-> Idle]
  BY DEF Init
<1>3. ASSUME NEW t \in Tasks
      PROVE  Checked(task[t], users, supports, accounts, coins)
  BY <1>2, IdleChecked
<1>4. Idle \in Handler
  BY IdleChecked DEF Checked
<1> QED
  BY <1>1, <1>2, <1>3, <1>4 DEF StoreInv, HandlersTyped

\* A handler that answers has nothing left to rely on.
LEMMA AnswerStep ==
  ASSUME HandlersTyped, Grown, NEW t \in Tasks, Answer(t)
  PROVE  HandlersTyped'
<1>1. Steps(t, Idle)
  BY DEF Answer, Steps
<1>2. Checked(Idle, users', supports', accounts', coins')
  BY IdleChecked
<1> QED
  BY <1>1, <1>2, HandlersStep

LEMMA NothingStored ==
  ASSUME StoreInv, UNCHANGED <<users, addrs, supports, accounts>>,
         coins' \in {coins, coins + 1}
  PROVE  Grown
BY DEF Grown, StoreInv, StoresTyped

LEMMA StoreInvQuiet ==
  ASSUME StoreInv, NEW t \in Tasks, IsQuiet(t)
  PROVE  StoreInv'
<1>1. PICK h : Quiet(t, h)
  BY DEF IsQuiet
<1>2. UNCHANGED storeVars
  BY <1>1 DEF Quiet
<1>3. Grown
  BY <1>2, NothingStored DEF storeVars
<1>4. StoresTyped'
  BY <1>2 DEF StoreInv, StoresTyped, storeVars
<1>5. Checked(h, users', supports', accounts', coins')
  BY <1>1, <1>2 DEF Quiet, storeVars
<1>6. HandlersTyped'
  BY <1>1, <1>3, <1>5, HandlersStep DEF StoreInv, Quiet
<1> QED
  BY <1>4, <1>6 DEF StoreInv

LEMMA StoreInvReserve ==
  ASSUME StoreInv, NEW t \in Tasks, ReserveAddr(t)
  PROVE  StoreInv'
<1>1. task[t].at = "reserveAddr"
  BY DEF ReserveAddr, Inside
<1>2. /\ task[t] \in Handler /\ task \in [Tasks -> Handler]
      /\ task[t].req.addr \in Addresses
  BY <1>1, AtFields, RequestFields
     DEF StoreInv, HandlersTyped, Section, SectionNames
<1>3. StoresTyped'
  BY <1>2 DEF StoreInv, StoresTyped, ReserveAddr
<1>4. Grown
  BY DEF Grown, ReserveAddr, StoreInv, StoresTyped
<1>5. Checked(At(t, "storeUser"), users', supports', accounts', coins')
  <2>1. "storeUser" \in SectionNames
    BY DEF SectionNames
  <2>2. Section(task[t].req.op, "storeUser")
    BY <1>1, <2>1, AtFields DEF StoreInv, Section
  <2> QED
    BY <1>1, <2>1, <2>2, AtFields DEF StoreInv, Checked
<1>6. Steps(t, At(t, "storeUser"))
  BY <1>2 DEF ReserveAddr, MoveOn, Steps, At
<1>7. HandlersTyped'
  BY <1>4, <1>5, <1>6, HandlersStep DEF StoreInv
<1> QED
  BY <1>3, <1>7 DEF StoreInv

LEMMA StoreInvUser ==
  ASSUME StoreInv, NEW t \in Tasks, StoreUser(t)
  PROVE  StoreInv'
<1>1. task[t].at = "storeUser" /\ Answer(t)
  BY DEF StoreUser, Inside
<1>2. task[t].req.addr \in Addresses
  BY <1>1, AtFields, RequestFields
     DEF StoreInv, HandlersTyped, Section, SectionNames
<1>3. users' = Append(users, task[t].req.addr) /\ users \in Seq(Addresses)
  BY DEF StoreUser, StoreInv, StoresTyped
<1>4. Grown
  BY <1>2, <1>3, Appended DEF StoreUser, Grown, StoreInv, StoresTyped
<1>5. StoresTyped'
  <2>1. users' \in Seq(Addresses) /\ DOMAIN users \subseteq DOMAIN users'
    BY <1>2, <1>3, Appended
  <2> QED
    BY <2>1 DEF StoreInv, StoresTyped, StoreUser
<1> QED
  BY <1>1, <1>4, <1>5, AnswerStep DEF StoreInv

LEMMA StoreInvManager ==
  ASSUME StoreInv, NEW t \in Tasks, StoreManager(t)
  PROVE  StoreInv'
<1>1. supports' = Append(supports, FALSE) /\ supports \in Seq(BOOLEAN)
  BY DEF StoreManager, StoreInv, StoresTyped
<1>2. Grown
  BY <1>1, Appended DEF StoreManager, Grown, StoreInv, StoresTyped
<1>3. StoresTyped'
  BY <1>1, Appended DEF StoreInv, StoresTyped, StoreManager
<1> QED
  BY <1>2, <1>3, AnswerStep DEF StoreInv, StoreManager

LEMMA StoreInvSupported ==
  ASSUME StoreInv, NEW t \in Tasks, StoreSupported(t)
  PROVE  StoreInv'
<1>1. task[t].req.manager \in DOMAIN supports
  BY DEF StoreSupported, Inside, StoreInv, HandlersTyped, Checked
<1>2. /\ supports' = [supports EXCEPT ![task[t].req.manager] = TRUE]
      /\ supports \in Seq(BOOLEAN)
  BY DEF StoreSupported, StoreInv, StoresTyped
<1>3. supports' \in Seq(BOOLEAN) /\ DOMAIN supports' = DOMAIN supports
  BY <1>1, <1>2
<1>4. Grown
  BY <1>1, <1>2, <1>3 DEF StoreSupported, Grown, StoreInv, StoresTyped
<1>5. StoresTyped'
  BY <1>3 DEF StoreInv, StoresTyped, StoreSupported
<1> QED
  BY <1>4, <1>5, AnswerStep DEF StoreInv, StoreSupported

LEMMA StoreInvAccount ==
  ASSUME StoreInv, NEW t \in Tasks, StoreAccount(t)
  PROVE  StoreInv'
<1> DEFINE e == [user |-> task[t].req.user, manager |-> task[t].req.manager]
<1>1. task[t].at = "storeAccount"
  BY DEF StoreAccount, Inside
<1>2. /\ task[t].req.user \in DOMAIN users
      /\ task[t].req.manager \in DOMAIN supports
  BY <1>1 DEF StoreInv, HandlersTyped, Checked, Section
<1>3. e \in [user : Nat, manager : Nat]
  BY <1>2 DEF StoreInv, StoresTyped
<1>4. /\ accounts' = Append(accounts, e)
      /\ accounts \in Seq([user : Nat, manager : Nat])
  BY DEF StoreAccount, StoreInv, StoresTyped
<1>5. e.user = task[t].req.user /\ e.manager = task[t].req.manager
  OBVIOUS
<1> HIDE DEF e
<1>6. Grown
  BY <1>3, <1>4, Appended DEF StoreAccount, Grown, StoreInv, StoresTyped
<1>7. StoresTyped'
  <2>1. /\ accounts' \in Seq([user : Nat, manager : Nat])
        /\ \A a \in DOMAIN accounts' : a \in DOMAIN accounts \/ accounts'[a] = e
        /\ \A a \in DOMAIN accounts : accounts'[a] = accounts[a]
        /\ DOMAIN accounts \subseteq DOMAIN accounts'
    BY <1>3, <1>4, Appended
  <2> QED
    BY <1>2, <1>5, <2>1 DEF StoreInv, StoresTyped, StoreAccount
<1> QED
  BY <1>6, <1>7, AnswerStep DEF StoreInv, StoreAccount

\* New assets: an id above all others, in an account that exists.
LEMMA StoreInvAsset ==
  ASSUME StoreInv, NEW t \in Tasks, NEW coin, NEW account \in DOMAIN accounts,
         assets' = assets \cup {NewAsset(coin, account)},
         assetIds' = assetIds + 1, coins' \in {coins, coins + 1},
         coin \in 1 .. coins', Answer(t),
         UNCHANGED <<users, addrs, supports, accounts>>
  PROVE  StoreInv'
<1>1. StoresTyped
  BY DEF StoreInv
<1>2. assetIds \in Nat /\ coins \in Nat /\ coins <= assetIds
  BY <1>1 DEF StoresTyped
<1>3. NewAsset(coin, account) \in [id : 1 .. assetIds', coin : 1 .. coins',
                                   account : DOMAIN accounts]
  BY <1>2 DEF NewAsset
<1>4. [id : 1 .. assetIds, coin : 1 .. coins, account : DOMAIN accounts]
        \subseteq [id : 1 .. assetIds', coin : 1 .. coins',
                   account : DOMAIN accounts]
  <2>1. 1 .. assetIds \subseteq 1 .. assetIds' /\ 1 .. coins \subseteq 1 .. coins'
    BY <1>2
  <2> QED
    BY <2>1
<1>5. assets' \subseteq [id : 1 .. assetIds', coin : 1 .. coins',
                         account : DOMAIN accounts]
  BY <1>1, <1>3, <1>4 DEF StoresTyped
<1>6. assetIds' \in Nat /\ coins' \in Nat /\ coins' <= assetIds'
  BY <1>2
<1>7. StoresTyped'
  BY <1>1, <1>5, <1>6 DEF StoresTyped
<1> QED
  BY <1>7, NothingStored, AnswerStep DEF StoreInv

LEMMA StoreInvMint ==
  ASSUME StoreInv, NEW t \in Tasks, StoreAsset(t)
  PROVE  StoreInv'
<1>1. task[t].req.account \in DOMAIN accounts
  BY DEF StoreAsset, Inside, StoreInv, HandlersTyped, Checked
<1>2. coins + 1 \in 1 .. coins'
  BY DEF StoreInv, StoresTyped, StoreAsset
<1> QED
  BY <1>1, <1>2, StoreInvAsset DEF StoreAsset

LEMMA StoreInvPut ==
  ASSUME StoreInv, NEW t \in Tasks, PutAsset(t)
  PROVE  StoreInv'
<1>1. task[t].req.peerAccount \in DOMAIN accounts /\ task[t].coin \in 1 .. coins
  BY DEF PutAsset, Inside, StoreInv, HandlersTyped, Checked
<1> QED
  BY <1>1, StoreInvAsset DEF PutAsset

LEMMA StoreInvTaken ==
  ASSUME StoreInv, NEW t \in Tasks, NEW x \in Named(t), Taken(t, x)
  PROVE  StoreInv'
<1> DEFINE h == [task[t] EXCEPT !.at = "putAsset", !.phase = "out",
                                !.coin = x.coin]
<1>1. task[t].at = "takeAsset" /\ task[t] \in Handler
  BY DEF Taken, Inside, StoreInv, HandlersTyped
<1>2. x.coin \in 1 .. coins /\ x.coin \in Nat
  BY DEF Named, StoreInv, StoresTyped
<1>3. /\ h \in Handler /\ h.at = "putAsset" /\ h.req = task[t].req
      /\ h.peer = task[t].peer /\ h.coin = x.coin
  BY <1>1, <1>2 DEF Handler, SectionNames
<1>4. Steps(t, h)
  BY DEF Steps, Taken, TakesCoin
<1> HIDE DEF h
<1>5. Section(h.req.op, h.at)
  <2>1. task[t].req.op = "transfer"
    BY <1>1 DEF StoreInv, HandlersTyped, Checked, Section
  <2> QED
    BY <1>3, <2>1 DEF Section
<1>6. UNCHANGED <<users, addrs, supports, accounts, assetIds, coins>>
  BY DEF Taken
<1>7. Checked(h, users', supports', accounts', coins')
  BY <1>1, <1>2, <1>3, <1>5, <1>6 DEF StoreInv, HandlersTyped, Checked
<1>8. StoresTyped'
  BY <1>6 DEF Taken, StoreInv, StoresTyped
<1> QED
  BY <1>4, <1>6, <1>7, <1>8, NothingStored, HandlersStep DEF StoreInv

LEMMA StoreInvDropped ==
  ASSUME StoreInv, NEW t \in Tasks, Disconnect(t)
  PROVE  StoreInv'
<1>1. UNCHANGED storeVars /\ Steps(t, Idle)
  BY DEF Disconnect, Steps
<1>2. Checked(Idle, users', supports', accounts', coins')
  BY IdleChecked
<1>3. StoresTyped'
  BY <1>1 DEF StoreInv, StoresTyped, storeVars
<1> QED
  BY <1>1, <1>2, <1>3, NothingStored, HandlersStep DEF StoreInv, storeVars

LEMMA StoreInvStep ==
  ASSUME StoreInv, [Next]_vars
  PROVE  StoreInv'
<1>1. CASE UNCHANGED vars
  <2>1. UNCHANGED <<storeVars, task>>
    BY <1>1 DEF vars
  <2>2. StoresTyped'
    BY <2>1 DEF StoreInv, StoresTyped, storeVars
  <2>3. HandlersTyped'
    BY <2>1 DEF StoreInv, HandlersTyped, storeVars
  <2> QED
    BY <2>2, <2>3 DEF StoreInv
<1>2. CASE Next
  <2>1. PICK t \in Tasks : Effect(t)
    BY <1>2, StepEffect
  <2> QED
    BY <2>1, StoreInvQuiet, StoreInvReserve, StoreInvUser, StoreInvManager,
       StoreInvSupported, StoreInvAccount, StoreInvMint, StoreInvPut,
       StoreInvTaken, StoreInvDropped
       DEF Effect
<1> QED
  BY <1>1, <1>2

LEMMA StoreInvHolds == Spec => []StoreInv
BY StoreInvInit, StoreInvStep, PTL DEF Spec

\* An asset on its way goes to an account of a user with the address the
\* request named, whatever was stored since that was looked up
\* (assets.rs 112-127).
THEOREM TransfersAreAddressed == Spec => []TransferAddressed
<1>1. StoreInv => TransferAddressed
  BY DEF StoreInv, HandlersTyped, Checked, TransferAddressed
<1> QED
  BY <1>1, StoreInvHolds, PTL

-----------------------------------------------------------------------------
(* Supports *)

LEMMA SupportsStep ==
  ASSUME StoreInv, AccountsSupported, [Next]_vars
  PROVE  AccountsSupported'
<1>1. CASE UNCHANGED vars
  BY <1>1 DEF vars, storeVars, AccountsSupported
<1>2. CASE Next
  <2>1. PICK t \in Tasks : Effect(t)
    BY <1>2, StepEffect
  <2>2. CASE UNCHANGED <<supports, accounts>>
    BY <2>2 DEF AccountsSupported
  <2>3. CASE StoreManager(t)
    <3>1. supports' = Append(supports, FALSE) /\ supports \in Seq(BOOLEAN)
      BY <2>3 DEF StoreManager, StoreInv, StoresTyped
    <3>2. \A m \in DOMAIN supports : supports[m] => supports'[m]
      BY <3>1, Appended
    <3> QED
      BY <2>3, <3>2
         DEF StoreManager, StoreInv, StoresTyped, AccountsSupported
  <2>4. CASE StoreSupported(t)
    BY <2>4 DEF StoreSupported, StoreInv, StoresTyped, AccountsSupported
  <2>5. CASE StoreAccount(t)
    <3> DEFINE e == [user |-> task[t].req.user, manager |-> task[t].req.manager]
    <3>1. task[t].req.manager \in DOMAIN supports /\ supports[task[t].req.manager]
      BY <2>5 DEF StoreAccount, Inside, StoreInv, HandlersTyped, Checked, Section
    <3>2. e \in [user : Nat, manager : Nat]
      <4>1. task[t].req.user \in DOMAIN users
        BY <2>5 DEF StoreAccount, Inside, StoreInv, HandlersTyped, Checked
      <4> QED
        BY <3>1, <4>1 DEF StoreInv, StoresTyped
    <3>3. e.manager = task[t].req.manager
      OBVIOUS
    <3>4. /\ accounts' = Append(accounts, e)
          /\ accounts \in Seq([user : Nat, manager : Nat])
      BY <2>5 DEF StoreAccount, StoreInv, StoresTyped
    <3> HIDE DEF e
    <3>5. \A a \in DOMAIN accounts' :
            \/ a \in DOMAIN accounts /\ accounts'[a] = accounts[a]
            \/ accounts'[a] = e
      BY <3>2, <3>4, Appended
    <3> QED
      BY <2>5, <3>1, <3>3, <3>5 DEF StoreAccount, AccountsSupported
  <2> QED
    BY <2>1, <2>2, <2>3, <2>4, <2>5
       DEF Effect, IsQuiet, Quiet, ReserveAddr, StoreUser, StoreAsset, PutAsset,
           Taken, Disconnect, storeVars
<1> QED
  BY <1>1, <1>2

\* Every account is with a manager that supports its asset type, for any number
\* of handlers, although that is checked sections earlier under another lock
\* (accounts.rs 32-66).
THEOREM AccountsAreSupported == Spec => []AccountsSupported
<1>1. Init => AccountsSupported
  BY DEF Init, AccountsSupported
<1> QED
  BY <1>1, StoreInvHolds, SupportsStep, PTL DEF Spec

-----------------------------------------------------------------------------
(* Addresses *)

\* A handler at storeUser has entered its address.
Reserved ==
  \A t \in Tasks : task[t].at = "storeUser" => task[t].req.addr \in addrs

AddressInv == AddressBook /\ Reserved

\* What a handler's step leaves of the others.
LEMMA OthersKept ==
  ASSUME StoreInv, NEW t \in Tasks, NEW h, Steps(t, h)
  PROVE  /\ task'[t] = h
         /\ \A s \in Tasks : s # t => task'[s] = task[s]
         /\ \A s \in Tasks : task[s].at # "putAsset" <=> task[s].coin = NoCoin
         /\ Idle.at = "idle" /\ Idle.coin = NoCoin
BY DEF StoreInv, HandlersTyped, Checked, Steps, Idle, NoCoin

LEMMA AddressKept ==
  ASSUME StoreInv, AddressInv, NEW t \in Tasks, NEW h, Steps(t, h),
         UNCHANGED <<users, addrs, lostAddrs>>,
         "storeUser" \in {h.at, task[t].at} =>
           h.at = task[t].at /\ h.req = task[t].req
  PROVE  AddressInv'
<1>1. ASSUME NEW s \in Tasks
      PROVE  /\ task'[s].at = "storeUser" <=> task[s].at = "storeUser"
             /\ task[s].at = "storeUser" => task'[s].req = task[s].req
  <2>1. CASE s = t
    BY <2>1, OthersKept
  <2>2. CASE s # t
    BY <2>2, OthersKept
  <2> QED
    BY <2>1, <2>2
<1>2. AddressBook'
  BY <1>1 DEF AddressInv, AddressBook
<1>3. Reserved'
  BY <1>1 DEF AddressInv, Reserved
<1> QED
  BY <1>2, <1>3 DEF AddressInv

LEMMA AddressReserved ==
  ASSUME StoreInv, AddressInv, NEW t \in Tasks, ReserveAddr(t)
  PROVE  AddressInv'
<1>1. /\ task[t].at = "reserveAddr"
      /\ addrs' = addrs \cup {task[t].req.addr}
      /\ UNCHANGED <<users, lostAddrs>>
  BY DEF ReserveAddr, Inside, lostVars
<1>2. Steps(t, At(t, "storeUser"))
  BY DEF ReserveAddr, MoveOn, Steps, At, StoreInv, HandlersTyped
<1>3. /\ task'[t].at = "storeUser" /\ task'[t].req = task[t].req
      /\ \A s \in Tasks : s # t => task'[s] = task[s]
  <2>1. "storeUser" \in SectionNames
    BY DEF SectionNames
  <2> QED
    BY <1>2, <2>1, AtFields, OthersKept DEF StoreInv
<1>4. AddressBook'
  BY <1>1, <1>3 DEF AddressInv, AddressBook
<1>5. Reserved'
  BY <1>1, <1>3 DEF AddressInv, Reserved
<1> QED
  BY <1>4, <1>5 DEF AddressInv

LEMMA AddressUsed ==
  ASSUME StoreInv, AddressInv, NEW t \in Tasks, StoreUser(t)
  PROVE  AddressInv'
<1>1. /\ task[t].at = "storeUser" /\ Steps(t, Idle)
      /\ UNCHANGED <<addrs, lostAddrs>>
  BY DEF StoreUser, Inside, Answer, Steps, lostVars
<1>2. /\ task'[t].at = "idle"
      /\ \A s \in Tasks : s # t => task'[s] = task[s]
  BY <1>1, OthersKept
<1>3. task[t].req.addr \in addrs /\ addrs \subseteq Addresses
  BY <1>1 DEF AddressInv, Reserved, StoreInv, StoresTyped
<1>4. /\ \A u \in DOMAIN users : u \in DOMAIN users' /\ users'[u] = users[u]
      /\ \E u \in DOMAIN users' : users'[u] = task[t].req.addr
      /\ \A u \in DOMAIN users' :
           users'[u] = task[t].req.addr \/ u \in DOMAIN users
  <2>1. users' = Append(users, task[t].req.addr) /\ users \in Seq(Addresses)
    BY DEF StoreUser, StoreInv, StoresTyped
  <2> QED
    BY <1>3, <2>1, Appended
<1>5. AddressBook'
  BY <1>1, <1>2, <1>3, <1>4 DEF AddressInv, AddressBook
<1>6. Reserved'
  BY <1>1, <1>2 DEF AddressInv, Reserved
<1> QED
  BY <1>5, <1>6 DEF AddressInv

LEMMA AddressDropped ==
  ASSUME StoreInv, AddressInv, NEW t \in Tasks, Disconnect(t)
  PROVE  AddressInv'
<1>1. /\ Steps(t, Idle) /\ UNCHANGED <<users, addrs>>
      /\ lostAddrs' = IF task[t].at = "storeUser"
                        THEN lostAddrs \cup {task[t].req.addr} ELSE lostAddrs
  BY DEF Disconnect, Steps, storeVars
<1>2. /\ task'[t].at = "idle"
      /\ \A s \in Tasks : s # t => task'[s] = task[s]
  BY <1>1, OthersKept
<1>3. AddressBook'
  BY <1>1, <1>2 DEF AddressInv, AddressBook
<1>4. Reserved'
  BY <1>1, <1>2 DEF AddressInv, Reserved
<1> QED
  BY <1>3, <1>4 DEF AddressInv

LEMMA AddressStep ==
  ASSUME StoreInv, AddressInv, [Next]_vars
  PROVE  AddressInv'
<1>1. CASE UNCHANGED vars
  BY <1>1 DEF vars, storeVars, lostVars, AddressInv, AddressBook, Reserved
<1>2. CASE Next
  <2>1. PICK t \in Tasks : Effect(t)
    BY <1>2, StepEffect
  <2>2. CASE IsQuiet(t)
    <3>1. PICK h : Quiet(t, h)
      BY <2>2 DEF IsQuiet
    <3> QED
      BY <3>1, AddressKept DEF Quiet, storeVars, lostVars
  <2>3. CASE \/ StoreManager(t) \/ StoreSupported(t) \/ StoreAccount(t)
             \/ StoreAsset(t) \/ PutAsset(t)
    <3>1. /\ Steps(t, Idle) /\ task[t].at # "storeUser"
          /\ UNCHANGED <<users, addrs, lostAddrs>>
      BY <2>3 DEF StoreManager, StoreSupported, StoreAccount, StoreAsset,
                  PutAsset, Inside, Answer, Steps, lostVars
    <3> QED
      BY <3>1, AddressKept, OthersKept
  <2>4. CASE \E x \in Named(t) : Taken(t, x)
    <3>1. PICK x \in Named(t) : Taken(t, x)
      BY <2>4
    <3> DEFINE h == [task[t] EXCEPT !.at = "putAsset", !.phase = "out",
                                    !.coin = x.coin]
    <3>2. Steps(t, h) /\ task[t].at = "takeAsset"
      BY <3>1 DEF Taken, TakesCoin, Steps, Inside
    <3>3. h.at = "putAsset"
      BY DEF StoreInv, HandlersTyped, Handler
    <3>4. UNCHANGED <<users, addrs, lostAddrs>>
      BY <3>1 DEF Taken, lostVars
    <3> HIDE DEF h
    <3> QED
      BY <3>2, <3>3, <3>4, AddressKept
  <2> QED
    BY <2>1, <2>2, <2>3, <2>4, AddressReserved, AddressUsed, AddressDropped
       DEF Effect
<1> QED
  BY <1>1, <1>2

\* The set of addresses and the map of users agree, for any number of handlers,
\* up to those on their way between the two and those dropped there
\* (storage_impl.rs 36-53).
THEOREM AddressBookAgrees == Spec => []AddressBook
<1>1. Init => AddressInv
  BY DEF Init, AddressInv, AddressBook, Reserved, Idle
<1>2. AddressInv => AddressBook
  BY DEF AddressInv
<1> QED
  BY <1>1, <1>2, StoreInvHolds, AddressStep, PTL DEF Spec

-----------------------------------------------------------------------------
(* Coins *)

\* Every coin issued is in one asset, in one hand or lost, and asset ids are
\* never used twice.
CoinInv ==
  /\ \A x, y \in assets : x.id = y.id \/ x.coin = y.coin => x = y
  /\ \A t, s \in Tasks :
       task[t].coin # NoCoin /\ task[t].coin = task[s].coin => t = s
  /\ lostCoins \subseteq 1 .. coins
  /\ \A x \in assets : x.coin \notin lostCoins
  /\ \A t \in Tasks : task[t].coin \notin lostCoins
  /\ \A t \in Tasks, x \in assets : x.coin # task[t].coin
  /\ \A c \in 1 .. coins :
       \/ \E x \in assets : x.coin = c
       \/ \E t \in Tasks : task[t].coin = c
       \/ c \in lostCoins

LEMMA CoinsKept ==
  ASSUME StoreInv, CoinInv, NEW t \in Tasks, NEW h, Steps(t, h),
         h.coin = task[t].coin, UNCHANGED <<assets, coins, lostCoins>>
  PROVE  CoinInv'
<1>1. \A s \in Tasks : task'[s].coin = task[s].coin
  BY OthersKept
<1> QED
  BY <1>1 DEF CoinInv

\* The coins of the assets and of the handlers, as numbers.
LEMMA CoinRange ==
  ASSUME StoreInv
  PROVE  /\ coins \in Nat /\ assetIds \in Nat
         /\ \A x \in assets : x.coin \in 1 .. coins /\ x.id \in 1 .. assetIds
         /\ \A s \in Tasks : task[s].coin \in 1 .. coins \/ task[s].coin = NoCoin
         /\ NoCoin \notin 1 .. coins
BY DEF StoreInv, StoresTyped, HandlersTyped, Checked, NoCoin

LEMMA CoinsMinted ==
  ASSUME StoreInv, CoinInv, NEW t \in Tasks, StoreAsset(t)
  PROVE  CoinInv'
<1> DEFINE new == NewAsset(coins + 1, task[t].req.account)
<1>1. /\ assets' = assets \cup {new} /\ coins' = coins + 1
      /\ UNCHANGED lostCoins /\ Steps(t, Idle) /\ task[t].at = "storeAsset"
  BY DEF StoreAsset, Answer, Steps, lostVars, Inside
<1>2. new.id = assetIds + 1 /\ new.coin = coins + 1
  BY DEF NewAsset
<1> HIDE DEF new
<1>3. \A s \in Tasks : task'[s].coin = task[s].coin
  BY <1>1, OthersKept
<1>4. new \notin assets /\ \A x \in assets : x.id # new.id /\ x.coin # new.coin
  BY <1>2, CoinRange
<1>5. \A s \in Tasks : task[s].coin # new.coin
  BY <1>2, CoinRange DEF NoCoin
<1>6. new.coin \notin lostCoins /\ lostCoins \subseteq 1 .. coins'
  BY <1>1, <1>2, CoinRange DEF CoinInv
<1>7. 1 .. coins' = (1 .. coins) \cup {new.coin}
  BY <1>1, <1>2, CoinRange
<1> QED
  BY <1>1, <1>3, <1>4, <1>5, <1>6, <1>7 DEF CoinInv

LEMMA CoinsPut ==
  ASSUME StoreInv, CoinInv, NEW t \in Tasks, PutAsset(t)
  PROVE  CoinInv'
<1> DEFINE new == NewAsset(task[t].coin, task[t].req.peerAccount)
<1>1. /\ assets' = assets \cup {new} /\ UNCHANGED <<coins, lostCoins>>
      /\ Steps(t, Idle) /\ task[t].at = "putAsset"
  BY DEF PutAsset, Answer, Steps, lostVars, Inside
<1>2. new.id = assetIds + 1 /\ new.coin = task[t].coin
  BY DEF NewAsset
<1> HIDE DEF new
<1>3. /\ task'[t].coin = NoCoin /\ task[t].coin # NoCoin
      /\ \A s \in Tasks : s # t => task'[s].coin = task[s].coin
  BY <1>1, OthersKept
<1>4. \A x \in assets : x.id # new.id /\ x.coin # new.coin
  BY <1>2, CoinRange DEF CoinInv
<1>5. \A s \in Tasks : task'[s].coin # new.coin
  BY <1>2, <1>3 DEF CoinInv
<1>6. new.coin \notin lostCoins
  BY <1>2 DEF CoinInv
<1>7. \A s \in Tasks : task'[s].coin = task[s].coin \/ task'[s].coin = NoCoin
  BY <1>3
<1>8. \A x \in assets' : x.coin # NoCoin
  BY <1>1, <1>2, <1>3, CoinRange
<1>9. NoCoin \notin lostCoins
  BY CoinRange DEF CoinInv
<1>10. \A c \in 1 .. coins :
         \/ \E x \in assets' : x.coin = c
         \/ \E s \in Tasks : task'[s].coin = c
         \/ c \in lostCoins
  BY <1>1, <1>2, <1>3 DEF CoinInv
<1>11. \A x, y \in assets' : x.id = y.id \/ x.coin = y.coin => x = y
  BY <1>1, <1>4 DEF CoinInv
<1>12. \A r, s \in Tasks :
         task'[r].coin # NoCoin /\ task'[r].coin = task'[s].coin => r = s
  BY <1>7 DEF CoinInv
<1>13. \A s \in Tasks : task'[s].coin \notin lostCoins
  BY <1>7, <1>9 DEF CoinInv
<1>14. \A s \in Tasks, x \in assets' : x.coin # task'[s].coin
  BY <1>1, <1>5, <1>7, <1>8 DEF CoinInv
<1>15. \A x \in assets' : x.coin \notin lostCoins
  BY <1>1, <1>6 DEF CoinInv
<1> QED
  BY <1>1, <1>10, <1>11, <1>12, <1>13, <1>14, <1>15 DEF CoinInv

LEMMA CoinsTaken ==
  ASSUME StoreInv, CoinInv, NEW t \in Tasks, NEW x \in Named(t), Taken(t, x)
  PROVE  CoinInv'
<1> DEFINE h == [task[t] EXCEPT !.at = "putAsset", !.phase = "out",
                                !.coin = x.coin]
<1>1. /\ assets' = assets \ {x} /\ UNCHANGED <<coins, lostCoins>>
      /\ Steps(t, h) /\ task[t].at = "takeAsset" /\ x \in assets
  BY DEF Taken, TakesCoin, Steps, lostVars, Inside, Named
<1>2. h.coin = x.coin
  BY DEF StoreInv, HandlersTyped, Handler
<1> HIDE DEF h
<1>3. /\ task'[t].coin = x.coin /\ task[t].coin = NoCoin /\ x.coin # NoCoin
      /\ \A s \in Tasks : s # t => task'[s].coin = task[s].coin
  BY <1>1, <1>2, OthersKept, CoinRange
<1>4. \A r, s \in Tasks :
        task'[r].coin # NoCoin /\ task'[r].coin = task'[s].coin => r = s
  BY <1>1, <1>3 DEF CoinInv
<1>5. \A s \in Tasks : task'[s].coin \notin lostCoins
  BY <1>1, <1>3 DEF CoinInv
<1>6. \A s \in Tasks, y \in assets' : y.coin # task'[s].coin
  BY <1>1, <1>3 DEF CoinInv
<1>7. \A c \in 1 .. coins :
        \/ \E y \in assets' : y.coin = c
        \/ \E s \in Tasks : task'[s].coin = c
        \/ c \in lostCoins
  <2> SUFFICES ASSUME NEW c \in 1 .. coins, c \notin lostCoins
               PROVE  \/ \E y \in assets' : y.coin = c
                      \/ \E s \in Tasks : task'[s].coin = c
    OBVIOUS
  <2>1. CASE c = x.coin
    BY <1>3, <2>1
  <2>2. CASE \E y \in assets : y.coin = c /\ c # x.coin
    BY <1>1, <2>2
  <2>3. CASE \E s \in Tasks : task[s].coin = c
    <3>1. c # NoCoin
      BY CoinRange
    <3> QED
      BY <1>3, <2>3, <3>1
  <2> QED
    BY <2>1, <2>2, <2>3 DEF CoinInv
<1> QED
  BY <1>1, <1>4, <1>5, <1>6, <1>7 DEF CoinInv

LEMMA CoinsDropped ==
  ASSUME StoreInv, CoinInv, NEW t \in Tasks, Disconnect(t)
  PROVE  CoinInv'
<1>1. /\ UNCHANGED <<assets, coins>> /\ Steps(t, Idle)
      /\ lostCoins' = lostCoins \cup ({task[t].coin} \ {NoCoin})
  BY DEF Disconnect, Steps, storeVars
<1>2. /\ task'[t].coin = NoCoin
      /\ \A s \in Tasks : s # t => task'[s].coin = task[s].coin
  BY <1>1, OthersKept
<1>3. CASE task[t].coin = NoCoin
  <2>1. UNCHANGED lostCoins
    BY <1>1, <1>3
  <2> QED
    BY <1>1, <1>3, <2>1, CoinsKept, OthersKept
<1>4. CASE task[t].coin # NoCoin
  <2>1. lostCoins' = lostCoins \cup {task[t].coin} /\ task[t].coin \in 1 .. coins
    BY <1>1, <1>4, CoinRange
  <2>2. lostCoins' \subseteq 1 .. coins' /\ NoCoin \notin lostCoins'
    BY <1>1, <2>1, CoinRange DEF CoinInv
  <2>3. \A r, s \in Tasks :
          task'[r].coin # NoCoin /\ task'[r].coin = task'[s].coin => r = s
    BY <1>2 DEF CoinInv
  <2>4. \A s \in Tasks : task'[s].coin \notin lostCoins'
    BY <1>2, <1>4, <2>1, <2>2 DEF CoinInv
  <2>5. \A s \in Tasks, y \in assets' : y.coin # task'[s].coin
    BY <1>1, <1>2, CoinRange DEF CoinInv
  <2>6. \A y \in assets' : y.coin \notin lostCoins'
    BY <1>1, <2>1 DEF CoinInv
  <2>7. \A c \in 1 .. coins' :
          \/ \E y \in assets' : y.coin = c
          \/ \E s \in Tasks : task'[s].coin = c
          \/ c \in lostCoins'
    BY <1>1, <1>2, <2>1 DEF CoinInv
  <2> QED
    BY <1>1, <2>2, <2>3, <2>4, <2>5, <2>6, <2>7 DEF CoinInv
<1> QED
  BY <1>3, <1>4

LEMMA CoinsStep ==
  ASSUME StoreInv, CoinInv, [Next]_vars
  PROVE  CoinInv'
<1>1. CASE UNCHANGED vars
  BY <1>1 DEF vars, storeVars, lostVars, CoinInv
<1>2. CASE Next
  <2>1. PICK t \in Tasks : Effect(t)
    BY <1>2, StepEffect
  <2>2. CASE IsQuiet(t)
    <3>1. PICK h : Quiet(t, h)
      BY <2>2 DEF IsQuiet
    <3> QED
      BY <3>1, CoinsKept DEF Quiet, storeVars, lostVars
  <2>3. CASE \/ StoreUser(t) \/ StoreManager(t) \/ StoreSupported(t)
             \/ StoreAccount(t)
    <3>1. /\ Steps(t, Idle) /\ task[t].at # "putAsset"
          /\ UNCHANGED <<assets, coins, lostCoins>>
      BY <2>3 DEF StoreUser, StoreManager, StoreSupported, StoreAccount,
                  Inside, Answer, Steps, lostVars
    <3> QED
      BY <3>1, CoinsKept, OthersKept
  <2>4. CASE ReserveAddr(t)
    <3>1. Steps(t, At(t, "storeUser")) /\ UNCHANGED <<assets, coins, lostCoins>>
      BY <2>4 DEF ReserveAddr, MoveOn, Steps, At, StoreInv, HandlersTyped,
                  lostVars
    <3>2. At(t, "storeUser").coin = task[t].coin
      BY DEF At, StoreInv, HandlersTyped, Handler
    <3> QED
      BY <3>1, <3>2, CoinsKept
  <2> QED
    BY <2>1, <2>2, <2>3, <2>4, CoinsMinted, CoinsPut, CoinsTaken, CoinsDropped
       DEF Effect
<1> QED
  BY <1>1, <1>2

LEMMA CoinInvHolds == Spec => [](StoreInv /\ CoinInv)
<1>1. Init => CoinInv
  BY DEF Init, CoinInv, Idle, NoCoin
<1> QED
  BY <1>1, StoreInvHolds, CoinsStep, PTL DEF Spec

\* Transfers neither double a coin nor lose it, for any number of handlers,
\* unless one is dropped with the coin in its hands (assets.rs 110-140).
THEOREM CoinsAreConserved == Spec => []CoinsConserved
<1>1. ASSUME StoreInv, CoinInv, NEW c \in 1 .. coins
      PROVE  \E place : Places(c) = {place}
  <2>1. c # NoCoin
    BY <1>1, CoinRange
  <2>2. CASE \E x \in assets : x.coin = c
    <3>1. PICK x \in assets : x.coin = c
      BY <2>2
    <3>2. /\ \A y \in assets : y.coin = c => y = x
          /\ \A s \in Tasks : task[s].coin # c
          /\ c \notin lostCoins
      BY <1>1, <3>1 DEF CoinInv
    <3>3. Places(c) = {<<"asset", x.id>>}
      BY <3>1, <3>2 DEF Places
    <3> QED
      BY <3>3
  <2>3. CASE \E t \in Tasks : task[t].coin = c
    <3>1. PICK t \in Tasks : task[t].coin = c
      BY <2>3
    <3>2. /\ \A y \in assets : y.coin # c
          /\ \A s \in Tasks : task[s].coin = c => s = t
          /\ c \notin lostCoins
      BY <1>1, <2>1, <3>1 DEF CoinInv
    <3>3. Places(c) = {<<"hand", t>>}
      BY <3>1, <3>2 DEF Places
    <3> QED
      BY <3>3
  <2>4. CASE c \in lostCoins
    <3>1. /\ \A y \in assets : y.coin # c
          /\ \A s \in Tasks : task[s].coin # c
      BY <1>1, <2>4 DEF CoinInv
    <3>2. Places(c) = {<<"lost", 0>>}
      BY <2>4, <3>1 DEF Places
    <3> QED
      BY <3>2
  <2> QED
    BY <1>1, <2>2, <2>3, <2>4 DEF CoinInv
<1>2. StoreInv /\ CoinInv => CoinsConserved
  BY <1>1, FS_Singleton DEF CoinsConserved
<1> QED
  BY <1>2, CoinInvHolds, PTL

-----------------------------------------------------------------------------
(* Custody *)

CustodyBar == [c \in 1 .. coins |-> Custody(c)]

\* Where a coin lies, by where it is.
CustodyIs ==
  /\ \A x \in assets : Custody(x.coin) = {x.account}
  /\ \A t \in Tasks : task[t].coin # NoCoin =>
       Custody(task[t].coin) = {task[t].req.peerAccount}
  /\ \A c \in lostCoins : Custody(c) = {}
  /\ \A c \in 1 .. coins : Custody(c) \subseteq DOMAIN accounts

LEMMA CustodyKnown == StoreInv /\ CoinInv => CustodyIs
<1> SUFFICES ASSUME StoreInv, CoinInv
             PROVE  CustodyIs
  OBVIOUS
<1>1. ASSUME NEW x \in assets
      PROVE  Custody(x.coin) = {x.account} /\ x.account \in DOMAIN accounts
  <2>1. /\ \A y \in assets : y.coin = x.coin => y = x
        /\ \A s \in Tasks : task[s].coin # x.coin
    BY DEF CoinInv
  <2>2. x.account \in DOMAIN accounts
    BY DEF StoreInv, StoresTyped
  <2> QED
    BY <2>1, <2>2 DEF Custody
<1>2. ASSUME NEW t \in Tasks, task[t].coin # NoCoin
      PROVE  /\ Custody(task[t].coin) = {task[t].req.peerAccount}
             /\ task[t].req.peerAccount \in DOMAIN accounts
  <2>1. /\ \A y \in assets : y.coin # task[t].coin
        /\ \A s \in Tasks : task[s].coin = task[t].coin => s = t
    BY <1>2 DEF CoinInv
  <2>2. task[t].req.peerAccount \in DOMAIN accounts
    BY <1>2 DEF StoreInv, HandlersTyped, Checked
  <2> QED
    BY <2>1, <2>2 DEF Custody
<1>3. ASSUME NEW c \in lostCoins
      PROVE  Custody(c) = {}
  BY DEF CoinInv, Custody
<1>4. ASSUME NEW c \in 1 .. coins
      PROVE  Custody(c) \subseteq DOMAIN accounts
  <2>1. c # NoCoin
    BY CoinRange
  <2> QED
    BY <1>1, <1>2, <1>3, <2>1 DEF CoinInv
<1> QED
  BY <1>1, <1>2, <1>3, <1>4 DEF CustodyIs

CustodyOK ==
  /\ CustodyBar \in Seq(SUBSET Nat)
  /\ Len(CustodyBar) = coins /\ coins \in Nat

LEMMA CustodyTyped == StoreInv /\ CoinInv => CustodyOK
<1> SUFFICES ASSUME StoreInv, CoinInv
             PROVE  CustodyOK
  OBVIOUS
<1>1. coins \in Nat /\ DOMAIN accounts \subseteq Nat
  BY DEF StoreInv, StoresTyped
<1>2. \A c \in 1 .. coins : Custody(c) \in SUBSET Nat
  BY <1>1, CustodyKnown DEF CustodyIs
<1>3. CustodyBar \in [1 .. coins -> SUBSET Nat]
  BY <1>2 DEF CustodyBar
<1> QED
  BY <1>1, <1>3 DEF CustodyOK

\* A handler that keeps its coin leaves every coin where it is.
LEMMA CustodyKept ==
  ASSUME StoreInv, CoinInv, NEW t \in Tasks, NEW h, Steps(t, h),
         h.coin = task[t].coin, h.coin # NoCoin => h.req = task[t].req,
         UNCHANGED <<assets, coins>>
  PROVE  UNCHANGED CustodyBar
<1>1. ASSUME NEW s \in Tasks
      PROVE  /\ task'[s].coin = task[s].coin
             /\ task[s].coin # NoCoin => task'[s].req = task[s].req
  <2>1. CASE s = t
    BY <2>1, OthersKept
  <2>2. CASE s # t
    BY <2>2, OthersKept
  <2> QED
    BY <2>1, <2>2
<1>2. ASSUME NEW c \in 1 .. coins
      PROVE  Custody(c)' = Custody(c)
  <2>1. c # NoCoin
    BY CoinRange
  <2> QED
    BY <1>1, <2>1 DEF Custody
<1> QED
  BY <1>2 DEF CustodyBar

\* A coin that is nowhere near a step stays where it is.
LEMMA CustodyApart ==
  ASSUME StoreInv, CoinInv, NEW t \in Tasks, NEW h, Steps(t, h),
         NEW c \in 1 .. coins, task[t].coin # c, h.coin # c,
         \A x : x.coin = c => (x \in assets <=> x \in assets')
  PROVE  Custody(c)' = Custody(c)
<1>1. \A s \in Tasks : s # t => task'[s] = task[s]
  BY OthersKept
<1>2. task'[t].coin # c
  BY OthersKept
<1> QED
  BY <1>1, <1>2 DEF Custody

LEMMA Longer ==
  ASSUME NEW S, NEW s \in Seq(S), NEW e
  PROVE  Len(Append(s, e)) = Len(s) + 1
<1>1. s \in Seq(S \cup {e})
  OBVIOUS
<1> QED
  BY <1>1, AppendProperties

LEMMA AppendedSeq ==
  ASSUME NEW S, NEW s \in Seq(S), NEW t \in Seq(S), NEW e,
         Len(t) = Len(s) + 1, t[Len(s) + 1] = e,
         \A i \in 1 .. Len(s) : t[i] = s[i]
  PROVE  t = Append(s, e)
<1>1. e \in S
  OBVIOUS
<1>2. \A i \in 1 .. Len(s) + 1 : t[i] = Append(s, e)[i]
  BY <1>1, AppendProperties
<1> QED
  BY <1>1, <1>2, AppendProperties, SeqEqual

LEMMA CustodyMinted ==
  ASSUME StoreInv, CoinInv, StoreInv', CoinInv', NEW t \in Tasks, StoreAsset(t)
  PROVE  CustodyBar' = Append(CustodyBar, {task[t].req.account})
<1> DEFINE new == NewAsset(coins + 1, task[t].req.account)
<1>1. /\ assets' = assets \cup {new} /\ coins' = coins + 1
      /\ Steps(t, Idle) /\ task[t].at = "storeAsset"
  BY DEF StoreAsset, Answer, Steps, Inside
<1>2. new.account = task[t].req.account /\ new.coin = coins + 1
  BY DEF NewAsset
<1> HIDE DEF new
<1>3. CustodyIs' /\ coins \in Nat
  BY CustodyKnown, CoinRange, PTL
<1>4. PICK k : k = coins + 1
  OBVIOUS
<1>5. Custody(k)' = {task[t].req.account}
  <2>1. new \in assets'
    BY <1>1
  <2>2. \A x \in assets' : Custody(x.coin)' = {x.account}
    BY <1>3 DEF CustodyIs
  <2> QED
    BY <1>2, <1>4, <2>1, <2>2
<1>6. ASSUME NEW c \in 1 .. coins
      PROVE  Custody(c)' = Custody(c)
  <2>1. task[t].coin # c /\ Idle.coin # c /\ new.coin # c
    BY <1>1, <1>2, CoinRange, OthersKept
  <2> QED
    BY <1>1, <2>1, CustodyApart
<1>7. CustodyOK /\ CustodyOK'
  BY CustodyTyped, PTL
<1>8. \A c \in 1 .. coins : CustodyBar'[c] = CustodyBar[c]
  BY <1>1, <1>3, <1>6 DEF CustodyBar
<1>9. CustodyBar'[k] = {task[t].req.account}
  BY <1>1, <1>3, <1>4, <1>5 DEF CustodyBar
<1> QED
  BY <1>1, <1>3, <1>4, <1>7, <1>8, <1>9, AppendedSeq DEF CustodyOK

LEMMA CustodyTaken ==
  ASSUME StoreInv, CoinInv, StoreInv', CoinInv', NEW t \in Tasks,
         NEW x \in Named(t), Taken(t, x)
  PROVE  /\ x.coin \in 1 .. coins
         /\ Custody(x.coin) # {}
         /\ task[t].req.peerAccount \in DOMAIN accounts
         /\ CustodyBar' = [CustodyBar EXCEPT ![x.coin] =
                             {task[t].req.peerAccount}]
<1> DEFINE h == [task[t] EXCEPT !.at = "putAsset", !.phase = "out",
                                !.coin = x.coin]
<1>1. /\ assets' = assets \ {x} /\ UNCHANGED coins
      /\ Steps(t, h) /\ task[t].at = "takeAsset" /\ x \in assets
  BY DEF Taken, TakesCoin, Steps, Inside, Named
<1>2. h.coin = x.coin /\ h.req = task[t].req
  BY DEF StoreInv, HandlersTyped, Handler
<1> HIDE DEF h
<1>3. /\ task'[t].coin = x.coin /\ task'[t].req = task[t].req
      /\ task[t].coin = NoCoin /\ x.coin \in 1 .. coins /\ x.coin # NoCoin
  BY <1>1, <1>2, OthersKept, CoinRange
<1>4. CustodyIs /\ CustodyIs'
  BY CustodyKnown, PTL
<1>5. Custody(x.coin) = {x.account}
  BY <1>1, <1>4 DEF CustodyIs
<1>6. task[t].req.peerAccount \in DOMAIN accounts
  BY <1>1 DEF StoreInv, HandlersTyped, Checked
<1>7. Custody(x.coin)' = {task[t].req.peerAccount}
  <2>1. \A s \in Tasks :
          (task[s].coin # NoCoin =>
             Custody(task[s].coin) = {task[s].req.peerAccount})'
    BY <1>4 DEF CustodyIs
  <2> QED
    BY <1>3, <2>1 DEF Custody
<1>8. ASSUME NEW c \in 1 .. coins, c # x.coin
      PROVE  Custody(c)' = Custody(c)
  <2>1. task[t].coin # c
    BY <1>3, CoinRange
  <2> QED
    BY <1>1, <1>2, <1>8, <2>1, CustodyApart
<1>9. CustodyBar' = [CustodyBar EXCEPT ![x.coin] = {task[t].req.peerAccount}]
  BY <1>1, <1>3, <1>7, <1>8 DEF CustodyBar
<1> QED
  BY <1>3, <1>5, <1>6, <1>9

LEMMA CustodyPut ==
  ASSUME StoreInv, CoinInv, StoreInv', CoinInv', NEW t \in Tasks, PutAsset(t)
  PROVE  UNCHANGED CustodyBar
<1>1. PICK k : k = task[t].coin
  OBVIOUS
<1> DEFINE new == NewAsset(k, task[t].req.peerAccount)
<1>2. /\ assets' = assets \cup {new} /\ UNCHANGED coins
      /\ Steps(t, Idle) /\ task[t].at = "putAsset"
  BY <1>1 DEF PutAsset, Answer, Steps, Inside
<1>3. new.account = task[t].req.peerAccount /\ new.coin = k
  BY DEF NewAsset
<1> HIDE DEF new
<1>4. k # NoCoin /\ k \in 1 .. coins
  BY <1>1, <1>2, OthersKept, CoinRange
<1>5. CustodyIs /\ CustodyIs'
  BY CustodyKnown, PTL
<1>6. Custody(k) = {task[t].req.peerAccount}
  BY <1>1, <1>4, <1>5 DEF CustodyIs
<1>7. Custody(k)' = {task[t].req.peerAccount}
  <2>1. new \in assets'
    BY <1>2
  <2>2. \A x \in assets' : Custody(x.coin)' = {x.account}
    BY <1>5 DEF CustodyIs
  <2> QED
    BY <1>3, <2>1, <2>2
<1>8. ASSUME NEW c \in 1 .. coins, c # k
      PROVE  Custody(c)' = Custody(c)
  <2>1. task[t].coin # c /\ Idle.coin # c /\ new.coin # c
    BY <1>1, <1>2, <1>3, <1>8, CoinRange, OthersKept
  <2> QED
    BY <1>2, <2>1, CustodyApart
<1> QED
  BY <1>2, <1>6, <1>7, <1>8 DEF CustodyBar

LEMMA CustodyDropped ==
  ASSUME StoreInv, CoinInv, StoreInv', CoinInv', NEW t \in Tasks, Disconnect(t)
  PROVE  \/ UNCHANGED CustodyBar
         \/ \E c \in 1 .. coins : CustodyBar' = [CustodyBar EXCEPT ![c] = {}]
<1>1. PICK k : k = task[t].coin
  OBVIOUS
<1>2. /\ UNCHANGED <<assets, coins>> /\ Steps(t, Idle)
      /\ lostCoins' = lostCoins \cup ({k} \ {NoCoin})
  BY <1>1 DEF Disconnect, Steps, storeVars
<1>3. CASE k = NoCoin
  BY <1>1, <1>2, <1>3, CustodyKept, OthersKept
<1>4. CASE k # NoCoin
  <2>1. k \in 1 .. coins /\ k \in lostCoins'
    BY <1>1, <1>2, <1>4, CoinRange
  <2>2. CustodyIs'
    BY CustodyKnown, PTL
  <2>3. Custody(k)' = {}
    BY <2>1, <2>2 DEF CustodyIs
  <2>4. ASSUME NEW c \in 1 .. coins, c # k
        PROVE  Custody(c)' = Custody(c)
    <3>1. task[t].coin # c /\ Idle.coin # c
      BY <1>1, <1>2, <2>4, CoinRange, OthersKept
    <3> QED
      BY <1>2, <3>1, CustodyApart
  <2>5. CustodyBar' = [CustodyBar EXCEPT ![k] = {}]
    BY <1>2, <2>1, <2>3, <2>4 DEF CustodyBar
  <2> QED
    BY <2>1, <2>5
<1> QED
  BY <1>3, <1>4

\* Each step is a step of the abstract custody, or invisible in it.
CustodyMoves ==
  \/ UNCHANGED <<Len(accounts), CustodyBar>>
  \/ Len(accounts)' = Len(accounts) + 1 /\ UNCHANGED CustodyBar
  \/ /\ UNCHANGED Len(accounts)
     /\ \/ \E a \in 1 .. Len(accounts) : CustodyBar' = Append(CustodyBar, {a})
        \/ \E c \in 1 .. coins, a \in 1 .. Len(accounts) :
             /\ CustodyBar[c] # {}
             /\ CustodyBar' = [CustodyBar EXCEPT ![c] = {a}]
        \/ \E c \in 1 .. coins : CustodyBar' = [CustodyBar EXCEPT ![c] = {}]

LEMMA CustodyStep ==
  ASSUME StoreInv, CoinInv, StoreInv', CoinInv', [Next]_vars
  PROVE  CustodyMoves
<1>1. CASE UNCHANGED vars
  <2>1. UNCHANGED <<accounts, assets, coins, task>>
    BY <1>1 DEF vars, storeVars
  <2> QED
    BY <2>1 DEF CustodyMoves, CustodyBar, Custody
<1>2. CASE Next
  <2>1. PICK t \in Tasks : Effect(t)
    BY <1>2, StepEffect
  <2>2. DOMAIN accounts = 1 .. Len(accounts)
    BY DEF StoreInv, StoresTyped
  <2>3. CASE IsQuiet(t)
    <3>1. PICK h : Quiet(t, h)
      BY <2>3 DEF IsQuiet
    <3>2. UNCHANGED CustodyBar /\ UNCHANGED accounts
      BY <3>1, CustodyKept DEF Quiet, storeVars
    <3> QED
      BY <3>2 DEF CustodyMoves
  <2>4. CASE \/ StoreUser(t) \/ StoreManager(t) \/ StoreSupported(t)
             \/ StoreAccount(t)
    <3>1. /\ Steps(t, Idle) /\ task[t].at # "putAsset"
          /\ UNCHANGED <<assets, coins>>
      BY <2>4 DEF StoreUser, StoreManager, StoreSupported, StoreAccount,
                  Inside, Answer, Steps
    <3>2. UNCHANGED CustodyBar
      BY <3>1, CustodyKept, OthersKept
    <3>3. UNCHANGED accounts \/ Len(accounts)' = Len(accounts) + 1
      BY <2>4, Longer DEF StoreUser, StoreManager, StoreSupported,
                          StoreAccount, StoreInv, StoresTyped
    <3> QED
      BY <3>2, <3>3 DEF CustodyMoves
  <2>5. CASE ReserveAddr(t)
    <3>1. Steps(t, At(t, "storeUser")) /\ UNCHANGED <<accounts, assets, coins>>
      BY <2>5 DEF ReserveAddr, MoveOn, Steps, At, StoreInv, HandlersTyped
    <3>2. /\ At(t, "storeUser").coin = task[t].coin
          /\ At(t, "storeUser").req = task[t].req
      BY DEF At, StoreInv, HandlersTyped, Handler
    <3> QED
      BY <3>1, <3>2, CustodyKept DEF CustodyMoves
  <2>6. CASE StoreAsset(t)
    <3>1. task[t].req.account \in DOMAIN accounts /\ UNCHANGED accounts
      BY <2>6 DEF StoreAsset, Inside, StoreInv, HandlersTyped, Checked
    <3> QED
      BY <2>2, <2>6, <3>1, CustodyMinted DEF CustodyMoves
  <2>7. CASE PutAsset(t)
    BY <2>7, CustodyPut DEF CustodyMoves, PutAsset
  <2>8. ASSUME NEW x \in Named(t), Taken(t, x)
        PROVE  CustodyMoves
    <3>1. UNCHANGED accounts
      BY <2>8 DEF Taken
    <3>2. PICK k, a : k = x.coin /\ a = task[t].req.peerAccount
      OBVIOUS
    <3>3. /\ k \in 1 .. coins /\ CustodyBar[k] # {}
          /\ a \in 1 .. Len(accounts)
          /\ CustodyBar' = [CustodyBar EXCEPT ![k] = {a}]
      BY <2>2, <2>8, <3>2, CustodyTaken DEF CustodyBar
    <3> QED
      BY <3>1, <3>3 DEF CustodyMoves
  <2>9. CASE Disconnect(t)
    <3>1. UNCHANGED accounts
      BY <2>9 DEF Disconnect, storeVars
    <3> QED
      BY <2>9, <3>1, CustodyDropped DEF CustodyMoves
  <2> QED
    BY <2>1, <2>3, <2>4, <2>5, <2>6, <2>7, <2>8, <2>9 DEF Effect
<1> QED
  BY <1>1, <1>2

LEMMA CustodyRefined ==
  ASSUME CustodyMoves
  PROVE  [Coins!CustodyNext]_(Coins!custodyVars)
<1>1. CASE UNCHANGED <<Len(accounts), CustodyBar>>
  BY <1>1 DEF Coins!custodyVars, CustodyBar
<1>2. CASE Len(accounts)' = Len(accounts) + 1 /\ UNCHANGED CustodyBar
  BY <1>2 DEF Coins!CustodyNext, Coins!OpenAccount, CustodyBar
<1>3. ASSUME UNCHANGED Len(accounts), NEW a \in 1 .. Len(accounts),
             CustodyBar' = Append(CustodyBar, {a})
      PROVE  Coins!CustodyNext
  <2>1. Coins!Issue(a)
    BY <1>3 DEF Coins!Issue, CustodyBar
  <2> QED
    BY <2>1 DEF Coins!CustodyNext, Coins!Open
<1>4. ASSUME UNCHANGED Len(accounts), NEW c \in 1 .. coins,
             NEW a \in 1 .. Len(accounts), CustodyBar[c] # {},
             CustodyBar' = [CustodyBar EXCEPT ![c] = {a}]
      PROVE  Coins!CustodyNext
  <2>1. Coins!Move(c, a) /\ c \in DOMAIN CustodyBar
    BY <1>4 DEF Coins!Move, CustodyBar
  <2> QED
    BY <2>1 DEF Coins!CustodyNext, Coins!Open, CustodyBar
<1>5. ASSUME UNCHANGED Len(accounts), NEW c \in 1 .. coins,
             CustodyBar' = [CustodyBar EXCEPT ![c] = {}]
      PROVE  Coins!CustodyNext
  <2>1. Coins!Vanish(c) /\ c \in DOMAIN CustodyBar
    BY <1>5 DEF Coins!Vanish, CustodyBar
  <2> QED
    BY <2>1 DEF Coins!CustodyNext, CustodyBar
<1> QED
  BY <1>1, <1>2, <1>3, <1>4, <1>5 DEF CustodyMoves

\* Whatever runs beside it, a transfer amounts to one step: a coin goes from
\* the account it lies in to an open one, or is gone for good with the handler
\* that held it (assets.rs 110-140).
THEOREM CustodyImplemented == Spec => ImplementsCustody
<1>1. Init => Coins!CustodyInit
  BY DEF Init, Coins!CustodyInit
<1>2. StoreInv /\ CoinInv /\ (StoreInv /\ CoinInv)' /\ [Next]_vars
        => [Coins!CustodyNext]_(Coins!custodyVars)
  BY CustodyStep, CustodyRefined
<1> QED
  BY <1>1, <1>2, CoinInvHolds, PTL
     DEF Spec, ImplementsCustody, Coins!CustodySpec

-----------------------------------------------------------------------------
(* Bounds *)

LEMMA Counted ==
  ASSUME NEW f, NEW ops
  PROVE  /\ IsFiniteSet({t \in Tasks : f[t].req.op \in ops})
         /\ Cardinality({t \in Tasks : f[t].req.op \in ops}) \in Nat
<1>1. {t \in Tasks : f[t].req.op \in ops} \subseteq Tasks
  OBVIOUS
<1>2. IsFiniteSet({t \in Tasks : f[t].req.op \in ops})
  BY <1>1, RefStorageAssumption, FS_Subset
<1> QED
  BY <1>2, FS_CardinalityType

\* A step counts its own handler in or out.
LEMMA PendingStep ==
  ASSUME StoreInv, NEW t \in Tasks, NEW h, Steps(t, h), NEW ops
  PROVE  /\ Pending(ops) \in Nat /\ Pending(ops)' \in Nat
         /\ (h.req.op \in ops <=> task[t].req.op \in ops) =>
              Pending(ops)' = Pending(ops)
         /\ h.req.op \notin ops /\ task[t].req.op \in ops =>
              Pending(ops)' = Pending(ops) - 1
         /\ h.req.op \in ops /\ task[t].req.op \notin ops =>
              Pending(ops)' = Pending(ops) + 1
<1>1. PICK A, B : /\ A = {s \in Tasks : task[s].req.op \in ops}
                  /\ B = {s \in Tasks : task'[s].req.op \in ops}
  OBVIOUS
<1>2. /\ Pending(ops) = Cardinality(A) /\ Pending(ops)' = Cardinality(B)
      /\ IsFiniteSet(A) /\ IsFiniteSet(B)
      /\ Cardinality(A) \in Nat /\ Cardinality(B) \in Nat
  BY <1>1, Counted DEF Pending
<1>3. /\ task'[t] = h /\ \A s \in Tasks : s # t => task'[s] = task[s]
  BY OthersKept
<1>4. CASE h.req.op \in ops <=> task[t].req.op \in ops
  <2>1. A = B
    BY <1>1, <1>3, <1>4
  <2> QED
    BY <1>2, <1>4, <2>1
<1>5. CASE h.req.op \notin ops /\ task[t].req.op \in ops
  <2>1. B = A \ {t} /\ t \in A
    BY <1>1, <1>3, <1>5
  <2> QED
    BY <1>2, <1>5, <2>1, FS_RemoveElement
<1>6. CASE h.req.op \in ops /\ task[t].req.op \notin ops
  <2>1. B = A \cup {t} /\ t \notin A
    BY <1>1, <1>3, <1>6
  <2> QED
    BY <1>2, <1>6, <2>1, FS_AddElement
<1> QED
  BY <1>2, <1>4, <1>5, <1>6

NewUsers == {"createUser"}
NewAssets == {"createAsset", "transfer"}

BoundsInv ==
  /\ \A t \in Tasks : task[t].req \in Requests \cup {NoRequest}
  /\ Len(users) + Pending(NewUsers) <= MaxUsers
  /\ assetIds + Pending(NewAssets) <= MaxAssets

LEMMA RequestsKept ==
  ASSUME StoreInv, BoundsInv, NEW t \in Tasks, NEW h, Steps(t, h),
         h.req \in {task[t].req, NoRequest} \cup Requests
  PROVE  \A s \in Tasks : task'[s].req \in Requests \cup {NoRequest}
<1>1. ASSUME NEW s \in Tasks
      PROVE  task'[s].req \in Requests \cup {NoRequest}
  <2>1. CASE s = t
    BY <2>1, OthersKept DEF BoundsInv
  <2>2. CASE s # t
    BY <2>2, OthersKept DEF BoundsInv
  <2> QED
    BY <2>1, <2>2
<1> QED
  BY <1>1

\* A step that brings no new request, and stores nothing that is counted.
LEMMA BoundsKept ==
  ASSUME StoreInv, BoundsInv, NEW t \in Tasks, NEW h, Steps(t, h),
         h.req \in {task[t].req, NoRequest}, UNCHANGED <<users, assetIds>>
  PROVE  BoundsInv'
<1>1. NoRequest.op = "none"
  BY DEF NoRequest
<1>2. /\ Pending(NewUsers) \in Nat /\ Pending(NewUsers)' \in Nat
      /\ Pending(NewUsers)' <= Pending(NewUsers)
  <2>1. h.req.op \in NewUsers => task[t].req.op \in NewUsers
    BY <1>1 DEF NewUsers
  <2> QED
    BY <2>1, PendingStep
<1>3. /\ Pending(NewAssets) \in Nat /\ Pending(NewAssets)' \in Nat
      /\ Pending(NewAssets)' <= Pending(NewAssets)
  <2>1. h.req.op \in NewAssets => task[t].req.op \in NewAssets
    BY <1>1 DEF NewAssets
  <2> QED
    BY <2>1, PendingStep
<1>4. Len(users) \in Nat /\ assetIds \in Nat
  BY DEF StoreInv, StoresTyped
<1>5. Len(users') <= MaxUsers - Pending(NewUsers)'
  BY <1>2, <1>4, RefStorageAssumption DEF BoundsInv
<1>6. assetIds' <= MaxAssets - Pending(NewAssets)'
  BY <1>3, <1>4, RefStorageAssumption DEF BoundsInv
<1>7. Len(users') + Pending(NewUsers)' <= MaxUsers
  BY <1>2, <1>4, <1>5, RefStorageAssumption
<1>8. assetIds' + Pending(NewAssets)' <= MaxAssets
  BY <1>3, <1>4, <1>6, RefStorageAssumption
<1> QED
  BY <1>7, <1>8, RequestsKept DEF BoundsInv

LEMMA BoundsReceived ==
  ASSUME StoreInv, BoundsInv, NEW t \in Tasks, NEW h, Steps(t, h),
         h.req \in Requests, Room(h.req.op), task[t].req = NoRequest,
         UNCHANGED <<users, assetIds>>
  PROVE  BoundsInv'
<1>1. /\ task[t].req.op = "none" /\ NoRequest.op = "none"
      /\ Len(users) \in Nat /\ assetIds \in Nat
  BY DEF NoRequest, StoreInv, StoresTyped
<1>2. Len(users') + Pending(NewUsers)' <= MaxUsers
  <2>1. /\ Pending(NewUsers) \in Nat /\ Pending(NewUsers)' \in Nat
        /\ h.req.op \notin NewUsers => Pending(NewUsers)' = Pending(NewUsers)
        /\ h.req.op \in NewUsers => Pending(NewUsers)' = Pending(NewUsers) + 1
    BY <1>1, PendingStep DEF NewUsers
  <2>2. h.req.op \in NewUsers => Len(users) + Pending(NewUsers) < MaxUsers
    BY DEF Room, NewUsers
  <2>3. Len(users) + Pending(NewUsers) <= MaxUsers
    BY DEF BoundsInv
  <2> QED
    BY <1>1, <2>1, <2>2, <2>3, RefStorageAssumption
<1>3. assetIds' + Pending(NewAssets)' <= MaxAssets
  <2>1. /\ Pending(NewAssets) \in Nat /\ Pending(NewAssets)' \in Nat
        /\ h.req.op \notin NewAssets => Pending(NewAssets)' = Pending(NewAssets)
        /\ h.req.op \in NewAssets =>
             Pending(NewAssets)' = Pending(NewAssets) + 1
    BY <1>1, PendingStep DEF NewAssets
  <2>2. h.req.op \in NewAssets => assetIds + Pending(NewAssets) < MaxAssets
    BY DEF Room, NewAssets
  <2>3. assetIds + Pending(NewAssets) <= MaxAssets
    BY DEF BoundsInv
  <2> QED
    BY <1>1, <2>1, <2>2, <2>3, RefStorageAssumption
<1> QED
  BY <1>2, <1>3, RequestsKept DEF BoundsInv

\* What a handler stores had its place from the moment it was asked for.
LEMMA BoundsUsed ==
  ASSUME StoreInv, BoundsInv, NEW t \in Tasks, Steps(t, Idle),
         \/ /\ task[t].req.op = "createUser" /\ UNCHANGED assetIds
            /\ Len(users') = Len(users) + 1
         \/ /\ task[t].req.op \in NewAssets /\ UNCHANGED users
            /\ assetIds' = assetIds + 1
  PROVE  BoundsInv'
<1>1. /\ Idle.req = NoRequest /\ Idle.req.op = "none"
      /\ Len(users) \in Nat /\ assetIds \in Nat
  BY DEF Idle, NoRequest, StoreInv, StoresTyped
<1>2. /\ Pending(NewUsers) \in Nat /\ Pending(NewUsers)' \in Nat
      /\ task[t].req.op \in NewUsers =>
           Pending(NewUsers)' = Pending(NewUsers) - 1
      /\ task[t].req.op \notin NewUsers =>
           Pending(NewUsers)' = Pending(NewUsers)
  BY <1>1, PendingStep DEF NewUsers
<1>3. /\ Pending(NewAssets) \in Nat /\ Pending(NewAssets)' \in Nat
      /\ task[t].req.op \in NewAssets =>
           Pending(NewAssets)' = Pending(NewAssets) - 1
      /\ task[t].req.op \notin NewAssets =>
           Pending(NewAssets)' = Pending(NewAssets)
  BY <1>1, PendingStep DEF NewAssets
<1>4. /\ Len(users) + Pending(NewUsers) <= MaxUsers
      /\ assetIds + Pending(NewAssets) <= MaxAssets
      /\ MaxUsers \in Nat /\ MaxAssets \in Nat
  BY RefStorageAssumption DEF BoundsInv
<1>5. CASE /\ task[t].req.op = "createUser" /\ UNCHANGED assetIds
           /\ Len(users') = Len(users) + 1
  <2>1. task[t].req.op \in NewUsers /\ task[t].req.op \notin NewAssets
    BY <1>5 DEF NewUsers, NewAssets
  <2>2. Len(users') + Pending(NewUsers)' <= MaxUsers
    BY <1>1, <1>2, <1>4, <1>5, <2>1
  <2>3. assetIds' + Pending(NewAssets)' <= MaxAssets
    BY <1>1, <1>3, <1>4, <1>5, <2>1
  <2> QED
    BY <1>1, <2>2, <2>3, RequestsKept DEF BoundsInv
<1>6. CASE /\ task[t].req.op \in NewAssets /\ UNCHANGED users
           /\ assetIds' = assetIds + 1
  <2>1. task[t].req.op \notin NewUsers
    BY <1>6 DEF NewUsers, NewAssets
  <2>2. Len(users') + Pending(NewUsers)' <= MaxUsers
    BY <1>1, <1>2, <1>4, <1>6, <2>1
  <2>3. assetIds' + Pending(NewAssets)' <= MaxAssets
    BY <1>1, <1>3, <1>4, <1>6
  <2> QED
    BY <1>1, <2>2, <2>3, RequestsKept DEF BoundsInv
<1> QED
  BY <1>5, <1>6

LEMMA BoundsStep ==
  ASSUME StoreInv, BoundsInv, [Next]_vars
  PROVE  BoundsInv'
<1>1. CASE UNCHANGED vars
  <2>1. UNCHANGED <<users, assetIds, task>>
    BY <1>1 DEF vars, storeVars
  <2> QED
    BY <2>1 DEF BoundsInv, Pending
<1>2. CASE Next
  <2>1. PICK t \in Tasks : Effect(t)
    BY <1>2, StepEffect
  <2>2. /\ Section(task[t].req.op, task[t].at)
        /\ Idle.req = NoRequest
    BY DEF Idle, StoreInv, HandlersTyped, Checked
  <2>3. CASE IsQuiet(t)
    <3>1. PICK h : Quiet(t, h)
      BY <2>3 DEF IsQuiet
    <3> QED
      BY <3>1, BoundsKept, BoundsReceived DEF Quiet, storeVars
  <2>4. CASE StoreUser(t)
    <3>1. /\ Steps(t, Idle) /\ UNCHANGED assetIds
          /\ Len(users') = Len(users) + 1
      BY <2>4, Longer DEF StoreUser, Answer, Steps, StoreInv, StoresTyped
    <3>2. task[t].req.op = "createUser"
      BY <2>2, <2>4 DEF StoreUser, Inside, Section
    <3> QED
      BY <3>1, <3>2, BoundsUsed
  <2>5. CASE StoreAsset(t) \/ PutAsset(t)
    <3>1. /\ Steps(t, Idle) /\ UNCHANGED users /\ assetIds' = assetIds + 1
          /\ task[t].at \in {"storeAsset", "putAsset"}
      BY <2>5 DEF StoreAsset, PutAsset, Answer, Steps, Inside
    <3>2. task[t].req.op \in NewAssets
      BY <2>2, <3>1 DEF Section, NewAssets
    <3> QED
      BY <3>1, <3>2, BoundsUsed
  <2>6. CASE \/ StoreManager(t) \/ StoreSupported(t) \/ StoreAccount(t)
             \/ Disconnect(t)
    <3>1. Steps(t, Idle) /\ UNCHANGED <<users, assetIds>>
      BY <2>6 DEF StoreManager, StoreSupported, StoreAccount, Disconnect,
                  Answer, Steps, storeVars
    <3> QED
      BY <2>2, <3>1, BoundsKept
  <2>7. CASE ReserveAddr(t)
    <3>1. Steps(t, At(t, "storeUser")) /\ UNCHANGED <<users, assetIds>>
      BY <2>7 DEF ReserveAddr, MoveOn, Steps, At, StoreInv, HandlersTyped
    <3>2. At(t, "storeUser").req = task[t].req
      BY DEF At, StoreInv, HandlersTyped, Handler
    <3> QED
      BY <3>1, <3>2, BoundsKept
  <2>8. ASSUME NEW x \in Named(t), Taken(t, x)
        PROVE  BoundsInv'
    <3> DEFINE h == [task[t] EXCEPT !.at = "putAsset", !.phase = "out",
                                    !.coin = x.coin]
    <3>1. Steps(t, h) /\ UNCHANGED <<users, assetIds>>
      BY <2>8 DEF Taken, TakesCoin, Steps
    <3>2. h.req = task[t].req
      BY DEF StoreInv, HandlersTyped, Handler
    <3> HIDE DEF h
    <3> QED
      BY <3>1, <3>2, BoundsKept
  <2> QED
    BY <2>1, <2>3, <2>4, <2>5, <2>6, <2>7, <2>8 DEF Effect
<1> QED
  BY <1>1, <1>2

LEMMA BoundsInit == Init => BoundsInv
<1> SUFFICES ASSUME Init
             PROVE  BoundsInv
  OBVIOUS
<1>1. /\ Len(users) = 0 /\ assetIds = 0
      /\ \A t \in Tasks : task[t].req = NoRequest
  BY DEF Init, Idle
<1>2. /\ {t \in Tasks : task[t].req.op \in NewUsers} = {}
      /\ {t \in Tasks : task[t].req.op \in NewAssets} = {}
  BY <1>1 DEF NoRequest, NewUsers, NewAssets
<1>3. Pending(NewUsers) = 0 /\ Pending(NewAssets) = 0
  BY <1>2, FS_EmptySet DEF Pending
<1> QED
  BY <1>1, <1>3, RefStorageAssumption DEF BoundsInv

-----------------------------------------------------------------------------
(* Locks *)

\* A writer is alone, and a get_account in the section that gives a guard back
\* has one to give.
GuardInv ==
  /\ readers \in [StorageLocks -> [Tasks -> Nat]]
  /\ writers \in [StorageLocks -> SUBSET Tasks]
  /\ \A l \in StorageLocks : writers[l] # {} =>
       /\ \E t \in Tasks : writers[l] = {t}
       /\ \A t \in Tasks : readers[l][t] = 0
  /\ \A t \in Tasks : Inside(t, "readStore") => readers[SectionLock(t)][t] > 0

Waiter == [task : Tasks, mode : Modes]

\* Whoever has a place in a queue waits there and nowhere else, for what the
\* section it is at needs.
Place(l, i) ==
  LET w == queue[l][i]
  IN  /\ task[w.task].phase = "waiting" /\ task[w.task].at # "idle"
      /\ l = SectionLock(w.task) /\ w.mode = SectionMode(w.task)
      /\ \A j \in DOMAIN queue[l] : queue[l][j].task = w.task => j = i

QueueInv ==
  /\ queue \in [StorageLocks -> Seq(Waiter)]
  /\ \A l \in StorageLocks : \A i \in DOMAIN queue[l] : Place(l, i)

Outside(t) == task[t].phase # "waiting" \/ task[t].at = "idle"

GrantedAt(t, i) ==
  LET l == SectionLock(t)
  IN  /\ task[t].phase = "waiting"
      /\ i \in DOMAIN queue[l] /\ queue[l][i].task = t
      /\ Free(l, queue[l][i].mode)
      /\ Guard(t, l, queue[l][i].mode)
      /\ queue' = [queue EXCEPT ![l] = RemoveAt(@, i)]
      /\ task' = [task EXCEPT ![t].phase = "in"]

AbandonedAt(t, i) ==
  LET l == SectionLock(t)
  IN  /\ i \in DOMAIN queue[l] /\ queue[l][i].task = t
      /\ queue' = [queue EXCEPT ![l] = RemoveAt(@, i)]
      /\ readers' = NoReader(t) /\ writers' = NoWriter(t)
      /\ task'[t].phase = "out"

\* What a step does to the locks.
LockEffect(t) ==
  \/ /\ task[t].at = "idle" /\ UNCHANGED lockVars
     /\ task'[t].at # "readStore" /\ task'[t].phase = task[t].phase
  \/ /\ Inside(t, "readAccount") /\ UNCHANGED lockVars
     /\ task'[t] = At(t, "readStore")
  \/ /\ Outside(t) /\ readers' = NoReader(t) /\ writers' = NoWriter(t)
     /\ UNCHANGED queue
     /\ task'[t].phase = "out"
  \/ /\ task[t].at # "idle" /\ task[t].phase = "out" /\ UNCHANGED queue
     /\ Free(SectionLock(t), SectionMode(t))
     /\ Guard(t, SectionLock(t), SectionMode(t))
     /\ task' = [task EXCEPT ![t].phase = "in"]
  \/ /\ task[t].at # "idle" /\ task[t].phase = "out"
     /\ Enqueue(t, SectionLock(t), SectionMode(t))
     /\ task' = [task EXCEPT ![t].phase = "waiting"]
  \/ \E i : GrantedAt(t, i)
  \/ /\ Inside(t, "readStore") /\ DropGuard(t, SectionLock(t))
     /\ task'[t] = At(t, "listAssets")
  \/ \E i : AbandonedAt(t, i)

LEMMA SectionLeft ==
  ASSUME StoreInv, NEW t \in Tasks, task[t].phase = "in",
         Answer(t) \/ \E s : MoveOn(t, s)
  PROVE  LockEffect(t) /\ \E h : Steps(t, h)
<1>1. Outside(t) /\ UNCHANGED queue
  BY DEF Outside, Answer, MoveOn, DropGuards
<1>2. readers' = NoReader(t) /\ writers' = NoWriter(t)
  BY DEF Answer, MoveOn, DropGuards
<1>3. task'[t].phase = "out"
  <2>1. CASE Answer(t)
    BY <2>1 DEF Answer, Idle, StoreInv, HandlersTyped
  <2>2. ASSUME NEW s, MoveOn(t, s)
        PROVE  task'[t].phase = "out"
    BY <2>2 DEF MoveOn, StoreInv, HandlersTyped, Handler
  <2> QED
    BY <2>1, <2>2
<1>4. \E h : Steps(t, h)
  BY DEF Answer, MoveOn, Steps
<1> QED
  BY <1>1, <1>2, <1>3, <1>4 DEF LockEffect

LEMMA LockStep ==
  ASSUME StoreInv, Next
  PROVE  \E t \in Tasks : LockEffect(t) /\ \E h : Steps(t, h)
<1>1. ASSUME NEW t \in Tasks, NEW req \in Requests, Receive(t, req)
      PROVE  LockEffect(t) /\ \E h : Steps(t, h)
  <2>1. PICK section : section = FirstSection(req.op)
    OBVIOUS
  <2>2. section # "readStore"
    BY <2>1 DEF FirstSection
  <2>3. task'[t].at = section /\ task'[t].phase = task[t].phase
    BY <1>1, <2>1 DEF Receive, StoreInv, HandlersTyped, Handler
  <2> QED
    BY <1>1, <2>2, <2>3 DEF Receive, LockEffect, Steps, lockVars
<1>2. ASSUME NEW t \in Tasks, Run(t)
      PROVE  LockEffect(t) /\ \E h : Steps(t, h)
  <2>0. task \in [Tasks -> Handler]
    BY DEF StoreInv, HandlersTyped
  <2>1. CASE Ask(t)
    <3>1. CASE /\ Lock(t, SectionLock(t), SectionMode(t))
               /\ task' = [task EXCEPT ![t].phase = "in"]
      BY <2>1, <3>1 DEF Ask, Lock, LockEffect, Steps
    <3>2. CASE /\ Enqueue(t, SectionLock(t), SectionMode(t))
               /\ task' = [task EXCEPT ![t].phase = "waiting"]
      BY <2>1, <3>2 DEF Ask, LockEffect, Steps
    <3> QED
      BY <2>1, <3>1, <3>2 DEF Ask
  <2>2. CASE Enter(t)
    <3>1. \E i : GrantedAt(t, i)
      BY <2>2 DEF Enter, Granted, GrantedAt
    <3> QED
      BY <2>2, <3>1 DEF Enter, LockEffect, Steps
  <2>3. CASE ReadStore(t)
    BY <2>0, <2>3 DEF ReadStore, LockEffect, Steps, At
  <2>4. CASE /\ task' = [task EXCEPT ![t].at = "readStore", ![t].phase = "out"]
             /\ UNCHANGED <<readers, writers, queue>>
             /\ Inside(t, "readAccount")
    BY <2>0, <2>4 DEF LockEffect, Steps, At, lockVars
  <2>5. CASE task[t].phase = "in" /\ DropGuards(t)
             /\ \E h : Steps(t, h) /\ h.phase = "out"
    <3>1. PICK h : Steps(t, h) /\ h.phase = "out"
      BY <2>5
    <3>2. task'[t].phase = "out"
      BY <3>1, OthersKept
    <3> QED
      BY <2>5, <3>2 DEF DropGuards, LockEffect, Outside
  <2>6. CASE FindPeer(t)
    <3>1. ASSUME NEW u, DropGuards(t), task[t].phase = "in",
                 task' = [task EXCEPT ![t] =
                            [@ EXCEPT !.at = "findPeerAccount",
                                      !.phase = "out", !.peer = u]]
          PROVE  LockEffect(t) /\ \E h : Steps(t, h)
      <4> DEFINE h == [task[t] EXCEPT !.at = "findPeerAccount",
                                      !.phase = "out", !.peer = u]
      <4>1. Steps(t, h)
        BY <3>1 DEF Steps
      <4>2. h.phase = "out"
        BY <2>0 DEF Handler
      <4> HIDE DEF h
      <4> QED
        BY <2>5, <3>1, <4>1, <4>2
    <3> QED
      BY <2>6, <3>1, SectionLeft DEF FindPeer, Inside
  <2>7. CASE TakeAsset(t)
    <3>1. ASSUME NEW x, DropGuards(t), TakesCoin(t, x), task[t].phase = "in"
          PROVE  LockEffect(t) /\ \E h : Steps(t, h)
      <4> DEFINE h == [task[t] EXCEPT !.at = "putAsset", !.phase = "out",
                                      !.coin = x.coin]
      <4>1. Steps(t, h)
        BY <3>1 DEF TakesCoin, Steps
      <4>2. h.phase = "out"
        BY <2>0 DEF Handler
      <4> HIDE DEF h
      <4> QED
        BY <2>5, <3>1, <4>1, <4>2
    <3> QED
      BY <2>7, <3>1, SectionLeft DEF TakeAsset, Inside
  <2>8. CASE \/ CheckAddr(t) \/ ReserveAddr(t) \/ StoreUser(t) \/ FindUser(t)
             \/ StoreManager(t) \/ FindManager(t) \/ StoreSupported(t)
             \/ ListSupported(t) \/ StoreAccount(t) \/ FindAccount(t)
             \/ FindPeerAccount(t) \/ ListAssets(t) \/ StoreAsset(t)
             \/ PutAsset(t)
    <3>1. Answer(t) \/ \E s : MoveOn(t, s)
      BY <2>8, Zenon
         DEF CheckAddr, ReserveAddr, StoreUser, FindUser, StoreManager,
             FindManager, StoreSupported, ListSupported, StoreAccount,
             FindAccount, FindPeerAccount, ListAssets, StoreAsset, PutAsset
    <3>2. task[t].phase = "in"
      BY <2>8, Zenon
         DEF CheckAddr, ReserveAddr, StoreUser, FindUser, StoreManager,
             FindManager, StoreSupported, ListSupported, StoreAccount,
             FindAccount, FindPeerAccount, ListAssets, StoreAsset, PutAsset,
             Inside
    <3> QED
      BY <3>1, <3>2, SectionLeft
  <2> QED
    BY <1>2, <2>1, <2>2, <2>3, <2>4, <2>6, <2>7, <2>8, SectionLeft
       DEF Run, ReadAccount, Inside
<1>3. ASSUME NEW t \in Tasks, Disconnect(t)
      PROVE  LockEffect(t) /\ \E h : Steps(t, h)
  <2>1. Steps(t, Idle) /\ Idle.phase = "out"
    BY <1>3 DEF Disconnect, Steps, Idle
  <2>2. task'[t].phase = "out"
    BY <2>1, OthersKept
  <2>3. \E i : AbandonedAt(t, i)
    BY <1>3, <2>2 DEF Disconnect, Abandon, AbandonedAt
  <2> QED
    BY <2>1, <2>3 DEF LockEffect
<1> QED
  BY <1>1, <1>2, <1>3 DEF Next

LEMMA SectionKept ==
  ASSUME NEW s, task'[s].at = task[s].at, task'[s].req = task[s].req,
         task'[s].peer = task[s].peer
  PROVE  SectionLock(s)' = SectionLock(s) /\ SectionMode(s)' = SectionMode(s)
BY DEF SectionLock, SectionMode

LEMMA ReadStoreLock ==
  ASSUME StoreInv, NEW t \in Tasks, task[t].at = "readStore"
  PROVE  SectionLock(t) \in StorageLocks /\ SectionMode(t) = "read"
<1>1. /\ task[t].req \in RequestSpace \cup {NoRequest}
      /\ task[t].req.op = "getAccount"
  BY DEF StoreInv, HandlersTyped, Handler, Checked, Section
<1>2. task[t].req.user \in 1 .. MaxUsers
  BY <1>1, RequestFields
<1>3. SectionLock(t) = LockOf("accounts", task[t].req.user)
  BY DEF SectionLock
<1>4. SectionMode(t) = "read"
  BY DEF SectionMode, Writing
<1> QED
  BY <1>2, <1>3, <1>4 DEF StorageLocks

\* A guard is given out only beside guards it goes with.
LEMMA GuardGiven ==
  ASSUME StoreInv, GuardInv, NEW t \in Tasks, NEW mode \in Modes,
         Free(SectionLock(t), mode), Guard(t, SectionLock(t), mode),
         task' = [task EXCEPT ![t].phase = "in"],
         task[t].at = "readStore" => mode = "read"
  PROVE  GuardInv'
<1>1. PICK l : l = SectionLock(t)
  OBVIOUS
<1>2. /\ readers \in [StorageLocks -> [Tasks -> Nat]]
      /\ writers \in [StorageLocks -> SUBSET Tasks]
      /\ task \in [Tasks -> Handler]
  BY DEF GuardInv, StoreInv, HandlersTyped
<1>3. ASSUME NEW s \in Tasks, Inside(s, "readStore")'
      PROVE  SectionLock(s)' = SectionLock(s) /\ SectionLock(s) \in StorageLocks
             /\ (s # t => Inside(s, "readStore"))
  <2>1. /\ task'[s].at = task[s].at /\ task'[s].req = task[s].req
        /\ task'[s].peer = task[s].peer
        /\ s # t => task'[s] = task[s]
    BY <1>2 DEF Handler
  <2> QED
    BY <1>3, <2>1, SectionKept, ReadStoreLock DEF Inside
<1>4. CASE mode = "read"
  <2>1. /\ readers' = [readers EXCEPT ![l][t] = @ + 1] /\ UNCHANGED writers
        /\ writers[l] = {}
    BY <1>1, <1>4 DEF Guard, Free
  <2>2. readers' \in [StorageLocks -> [Tasks -> Nat]]
    <3>1. CASE l \in StorageLocks
      <4>1. PICK row : row = [readers[l] EXCEPT ![t] = @ + 1]
        OBVIOUS
      <4>2. row \in [Tasks -> Nat]
        BY <1>2, <3>1, <4>1
      <4>3. readers' = [readers EXCEPT ![l] = row]
        BY <1>2, <2>1, <3>1, <4>1
      <4> QED
        BY <1>2, <4>2, <4>3
    <3>2. CASE l \notin StorageLocks
      BY <1>2, <2>1, <3>2
    <3> QED
      BY <3>1, <3>2
  <2>3. \A k \in StorageLocks : k # l => readers'[k] = readers[k]
    BY <1>2, <2>1
  <2>4. ASSUME NEW s \in Tasks, Inside(s, "readStore")'
        PROVE  readers'[SectionLock(s)][s] > 0
    <3>1. CASE s = t
      BY <1>1, <1>2, <1>3, <2>1, <2>4, <3>1
    <3>2. CASE s # t
      <4>1. readers[SectionLock(s)][s] > 0 /\ SectionLock(s) \in StorageLocks
        BY <1>3, <2>4, <3>2 DEF GuardInv
      <4> QED
        BY <1>2, <2>1, <3>2, <4>1
    <3> QED
      BY <3>1, <3>2
  <2>5. \A s \in Tasks :
          Inside(s, "readStore")' => readers'[SectionLock(s)'][s] > 0
    BY <1>3, <2>4
  <2> QED
    BY <1>2, <2>1, <2>2, <2>3, <2>5 DEF GuardInv
<1>5. CASE mode # "read"
  <2>1. writers' = [writers EXCEPT ![l] = {t}] /\ UNCHANGED readers
    BY <1>1, <1>5 DEF Guard
  <2>2. writers[l] = {} /\ \A s \in Tasks : readers[l][s] = 0
    BY <1>1, <1>5 DEF Free, Modes
  <2>3. writers' \in [StorageLocks -> SUBSET Tasks]
    BY <1>2, <2>1
  <2>4. \A k \in StorageLocks :
          writers'[k] = IF k = l THEN {t} ELSE writers[k]
    BY <1>2, <2>1
  <2>5. \A k \in StorageLocks : writers'[k] # {} =>
          /\ \E s \in Tasks : writers'[k] = {s}
          /\ \A s \in Tasks : readers'[k][s] = 0
    BY <2>1, <2>2, <2>4 DEF GuardInv
  <2>6. ~Inside(t, "readStore")'
    BY <1>2, <1>5 DEF Inside, Handler
  <2>7. \A s \in Tasks :
          Inside(s, "readStore")' => readers'[SectionLock(s)'][s] > 0
    BY <1>3, <2>1, <2>6 DEF GuardInv
  <2> QED
    BY <1>2, <2>1, <2>3, <2>5, <2>7 DEF GuardInv
<1> QED
  BY <1>4, <1>5

\* Whatever a task gives back, it gives back only its own.
LEMMA GuardsDropped ==
  ASSUME StoreInv, GuardInv, NEW t \in Tasks, NEW h, Steps(t, h),
         readers' = NoReader(t), writers' = NoWriter(t),
         task'[t].phase = "out"
  PROVE  GuardInv'
<1>1. /\ readers \in [StorageLocks -> [Tasks -> Nat]]
      /\ writers \in [StorageLocks -> SUBSET Tasks]
  BY DEF GuardInv
<1>2. \A l \in StorageLocks :
        /\ readers'[l] = [readers[l] EXCEPT ![t] = 0]
        /\ writers'[l] = writers[l] \ {t}
  BY DEF NoReader, NoWriter
<1>3. ASSUME NEW l \in StorageLocks
      PROVE  /\ readers'[l] \in [Tasks -> Nat]
             /\ \A s \in Tasks : s # t => readers'[l][s] = readers[l][s]
  <2>1. PICK row : row = readers[l]
    OBVIOUS
  <2>2. row \in [Tasks -> Nat] /\ readers'[l] = [row EXCEPT ![t] = 0]
    BY <1>1, <1>2, <2>1
  <2> QED
    BY <2>1, <2>2
<1>4. /\ readers' \in [StorageLocks -> [Tasks -> Nat]]
      /\ writers' \in [StorageLocks -> SUBSET Tasks]
  BY <1>1, <1>2, <1>3 DEF NoReader, NoWriter
<1>5. ASSUME NEW l \in StorageLocks, writers'[l] # {}
      PROVE  /\ \E s \in Tasks : writers'[l] = {s}
             /\ \A s \in Tasks : readers'[l][s] = 0
  <2>1. PICK s \in Tasks : writers[l] = {s}
    BY <1>2, <1>5 DEF GuardInv
  <2>2. writers'[l] = {s}
    BY <1>2, <1>5, <2>1
  <2>3. \A r \in Tasks : readers[l][r] = 0
    BY <2>1 DEF GuardInv
  <2>4. \A r \in Tasks : readers'[l][r] = 0
    BY <1>1, <1>2, <2>3
  <2> QED
    BY <2>2, <2>4
<1>6. ASSUME NEW s \in Tasks, Inside(s, "readStore")'
      PROVE  readers'[SectionLock(s)'][s] > 0
  <2>1. s # t /\ task'[s] = task[s]
    BY <1>6, OthersKept DEF Inside
  <2>2. /\ Inside(s, "readStore") /\ SectionLock(s)' = SectionLock(s)
        /\ SectionLock(s) \in StorageLocks
    BY <1>6, <2>1, SectionKept, ReadStoreLock DEF Inside
  <2>3. readers[SectionLock(s)][s] > 0
    BY <2>2 DEF GuardInv
  <2> QED
    BY <1>3, <2>1, <2>2, <2>3
<1> QED
  BY <1>4, <1>5, <1>6 DEF GuardInv

LEMMA GuardReturned ==
  ASSUME StoreInv, GuardInv, NEW t \in Tasks, NEW h, Steps(t, h),
         Inside(t, "readStore"), DropGuard(t, SectionLock(t)),
         task'[t].phase = "out"
  PROVE  GuardInv'
<1>1. PICK l : l = SectionLock(t)
  OBVIOUS
<1>2. /\ readers \in [StorageLocks -> [Tasks -> Nat]]
      /\ writers \in [StorageLocks -> SUBSET Tasks]
      /\ l \in StorageLocks /\ readers[l][t] > 0
  BY <1>1, ReadStoreLock DEF GuardInv, Inside
<1>3. readers' = [readers EXCEPT ![l][t] = @ - 1] /\ UNCHANGED writers
  BY <1>1 DEF DropGuard
<1>4. PICK row : row = [readers[l] EXCEPT ![t] = @ - 1]
  OBVIOUS
<1>5. row \in [Tasks -> Nat] /\ readers' = [readers EXCEPT ![l] = row]
  <2>1. readers[l] \in [Tasks -> Nat] /\ readers[l][t] - 1 \in Nat
    BY <1>2
  <2> QED
    BY <1>2, <1>3, <1>4, <2>1
<1>6. readers' \in [StorageLocks -> [Tasks -> Nat]]
  BY <1>2, <1>5
<1>7. writers[l] = {}
  BY <1>2 DEF GuardInv
<1>8. \A k \in StorageLocks : k # l => readers'[k] = readers[k]
  BY <1>2, <1>5
<1>9. ASSUME NEW s \in Tasks, Inside(s, "readStore")'
      PROVE  readers'[SectionLock(s)'][s] > 0
  <2>1. s # t /\ task'[s] = task[s]
    BY <1>9, OthersKept DEF Inside
  <2>2. /\ Inside(s, "readStore") /\ SectionLock(s)' = SectionLock(s)
        /\ SectionLock(s) \in StorageLocks
    BY <1>9, <2>1, SectionKept, ReadStoreLock DEF Inside
  <2>3. readers[SectionLock(s)][s] > 0
    BY <2>2 DEF GuardInv
  <2> QED
    BY <1>2, <1>3, <2>1, <2>2, <2>3
<1> QED
  BY <1>2, <1>3, <1>6, <1>7, <1>8, <1>9 DEF GuardInv

LEMMA GuardsKept ==
  ASSUME StoreInv, GuardInv, NEW t \in Tasks, NEW h, Steps(t, h),
         UNCHANGED <<readers, writers>>, ~Inside(t, "readStore")'
  PROVE  GuardInv'
<1>1. ASSUME NEW s \in Tasks, Inside(s, "readStore")'
      PROVE  readers'[SectionLock(s)'][s] > 0
  <2>1. s # t /\ task'[s] = task[s]
    BY <1>1, OthersKept DEF Inside
  <2>2. Inside(s, "readStore") /\ SectionLock(s)' = SectionLock(s)
    BY <1>1, <2>1, SectionKept DEF Inside
  <2> QED
    BY <2>2 DEF GuardInv
<1> QED
  BY <1>1 DEF GuardInv

LEMMA Removed ==
  ASSUME NEW S, NEW s \in Seq(S), NEW i \in DOMAIN s
  PROVE  /\ RemoveAt(s, i) \in Seq(S)
         /\ DOMAIN RemoveAt(s, i) = 1 .. Len(s) - 1
         /\ DOMAIN s = 1 .. Len(s) /\ Len(s) \in Nat
         /\ \A j \in 1 .. Len(s) - 1 :
              RemoveAt(s, i)[j] = s[IF j < i THEN j ELSE j + 1]
<1>1. Len(s) \in Nat /\ i \in 1 .. Len(s) /\ DOMAIN s = 1 .. Len(s)
  OBVIOUS
<1>2. PICK a, b : a = SubSeq(s, 1, i - 1) /\ b = SubSeq(s, i + 1, Len(s))
  OBVIOUS
<1>3. /\ a \in Seq(S) /\ Len(a) = i - 1
      /\ \A j \in 1 .. i - 1 : a[j] = s[j]
  BY <1>1, <1>2, SubSeqProperties
<1>4. /\ b \in Seq(S) /\ Len(b) = Len(s) - i
      /\ \A j \in 1 .. Len(s) - i : b[j] = s[i + j]
  BY <1>1, <1>2, SubSeqProperties
<1>5. PICK r : r = a \o b
  OBVIOUS
<1>6. /\ r \in Seq(S) /\ Len(r) = Len(a) + Len(b)
      /\ \A j \in 1 .. Len(a) + Len(b) : r[j] = IF j <= Len(a) THEN a[j]
                                               ELSE b[j - Len(a)]
  BY <1>3, <1>4, <1>5, ConcatProperties
<1>7. Len(a) + Len(b) = Len(s) - 1
  BY <1>1, <1>3, <1>4
<1>8. ASSUME NEW j \in 1 .. Len(s) - 1
      PROVE  r[j] = s[IF j < i THEN j ELSE j + 1]
  <2>1. CASE j < i
    <3>1. j \in 1 .. i - 1 /\ j <= Len(a)
      BY <1>1, <1>3, <2>1
    <3> QED
      BY <1>3, <1>6, <1>7, <2>1, <3>1
  <2>2. CASE ~(j < i)
    <3>1. j - Len(a) \in 1 .. Len(s) - i /\ ~(j <= Len(a))
      BY <1>1, <1>3, <2>2
    <3>2. r[j] = b[j - Len(a)] /\ b[j - Len(a)] = s[i + (j - Len(a))]
      BY <1>4, <1>6, <1>7, <3>1
    <3>3. i + (j - Len(a)) = j + 1
      BY <1>1, <1>3
    <3> QED
      BY <2>2, <3>2, <3>3
  <2> QED
    BY <2>1, <2>2
<1>9. RemoveAt(s, i) = r
  BY <1>2, <1>5 DEF RemoveAt
<1>10. DOMAIN r = 1 .. Len(s) - 1
  BY <1>6, <1>7
<1> QED
  BY <1>1, <1>6, <1>8, <1>9, <1>10

LEMMA QueueEntry ==
  ASSUME QueueInv, NEW l \in StorageLocks, NEW i \in DOMAIN queue[l]
  PROVE  /\ queue[l] \in Seq(Waiter) /\ queue[l][i].task \in Tasks
         /\ Place(l, i)
<1>1. queue[l] \in Seq(Waiter) /\ Place(l, i)
  BY DEF QueueInv
<1>2. queue[l][i] \in Waiter
  BY <1>1
<1> QED
  BY <1>1, <1>2 DEF Waiter

\* A step of a handler without a place leaves the others theirs.
LEMMA PlacesKept ==
  ASSUME StoreInv, QueueInv, NEW t \in Tasks, NEW h, Steps(t, h), Outside(t),
         UNCHANGED queue
  PROVE  QueueInv'
<1>1. ASSUME NEW l \in StorageLocks, NEW i \in DOMAIN queue[l]
      PROVE  Place(l, i)'
  <2>1. PICK s : s = queue[l][i].task
    OBVIOUS
  <2>2. s \in Tasks /\ Place(l, i)
    BY <2>1, QueueEntry
  <2>3. s # t
    BY <2>1, <2>2 DEF Place, Outside
  <2>4. task'[s] = task[s]
    BY <2>2, <2>3, OthersKept
  <2>5. SectionLock(s)' = SectionLock(s) /\ SectionMode(s)' = SectionMode(s)
    BY <2>4, SectionKept
  <2> QED
    BY <2>1, <2>2, <2>4, <2>5 DEF Place
<1> QED
  BY <1>1 DEF QueueInv

LEMMA PlaceTaken ==
  ASSUME StoreInv, QueueInv, NEW t \in Tasks, Outside(t),
         task[t].at # "idle", Enqueue(t, SectionLock(t), SectionMode(t)),
         task' = [task EXCEPT ![t].phase = "waiting"]
  PROVE  QueueInv'
<1>1. PICK k, w : k = SectionLock(t) /\ w = [task |-> t, mode |-> SectionMode(t)]
  OBVIOUS
<1>2. /\ w \in Waiter /\ w.task = t /\ w.mode = SectionMode(t)
      /\ queue' = [queue EXCEPT ![k] = Append(@, w)]
      /\ queue \in [StorageLocks -> Seq(Waiter)]
  BY <1>1 DEF Enqueue, Waiter, SectionMode, Modes, QueueInv
<1>3. /\ task'[t].phase = "waiting" /\ task'[t].at = task[t].at
      /\ task'[t].req = task[t].req /\ task'[t].peer = task[t].peer
      /\ \A s \in Tasks : s # t => task'[s] = task[s]
  BY DEF StoreInv, HandlersTyped, Handler
<1>4. \A s \in Tasks :
        SectionLock(s)' = SectionLock(s) /\ SectionMode(s)' = SectionMode(s)
  BY <1>3, SectionKept
<1>5. \A l \in StorageLocks : \A i \in DOMAIN queue[l] :
        /\ queue[l][i].task \in Tasks /\ queue[l][i].task # t /\ Place(l, i)
  BY QueueEntry DEF Place, Outside
<1>6. queue' \in [StorageLocks -> Seq(Waiter)]
  <2>1. CASE k \in StorageLocks
    <3>1. queue[k] \in Seq(Waiter)
      BY <1>2, <2>1
    <3>2. Append(queue[k], w) \in Seq(Waiter)
      BY <1>2, <3>1, AppendProperties
    <3> QED
      BY <1>2, <2>1, <3>2
  <2>2. CASE k \notin StorageLocks
    BY <1>2, <2>2
  <2> QED
    BY <2>1, <2>2
<1>7. ASSUME NEW l \in StorageLocks, NEW i \in DOMAIN queue'[l]
      PROVE  Place(l, i)'
  <2>1. CASE l # k
    <3>1. queue'[l] = queue[l]
      BY <1>2, <2>1
    <3> QED
      BY <1>3, <1>4, <1>5, <1>7, <3>1 DEF Place
  <2>2. CASE l = k
    <3>1. PICK q : q = queue[l]
      OBVIOUS
    <3>2. q \in Seq(Waiter) /\ queue'[l] = Append(q, w)
      BY <1>2, <2>2, <3>1
    <3>3. /\ DOMAIN queue'[l] = 1 .. Len(q) + 1 /\ DOMAIN q = 1 .. Len(q)
          /\ Len(q) \in Nat /\ queue'[l][Len(q) + 1] = w
          /\ \A j \in DOMAIN q : queue'[l][j] = q[j]
      BY <1>2, <3>2, Appended
    <3>4. CASE i = Len(q) + 1
      <4>1. \A j \in DOMAIN queue'[l] : queue'[l][j].task = t => j = i
        BY <1>5, <3>1, <3>3, <3>4
      <4> QED
        BY <1>1, <1>2, <1>3, <1>4, <2>2, <3>3, <3>4, <4>1 DEF Place
    <3>5. CASE i \in DOMAIN q
      <4>1. \A j \in DOMAIN queue'[l] :
              queue'[l][j].task = queue[l][i].task => j = i
        BY <1>2, <1>5, <3>1, <3>3, <3>5 DEF Place
      <4>2. queue'[l][i] = queue[l][i]
        BY <3>1, <3>3, <3>5
      <4> QED
        BY <1>3, <1>4, <1>5, <3>1, <3>5, <4>1, <4>2 DEF Place
    <3> QED
      BY <1>7, <3>3, <3>4, <3>5
  <2> QED
    BY <2>1, <2>2
<1> QED
  BY <1>6, <1>7 DEF QueueInv

\* A handler that is let in or dropped gives up the only place it had.
LEMMA PlaceLeft ==
  ASSUME StoreInv, QueueInv, NEW t \in Tasks, NEW h, Steps(t, h),
         NEW k, k = SectionLock(t), NEW i \in DOMAIN queue[k],
         queue[k][i].task = t, queue' = [queue EXCEPT ![k] = RemoveAt(@, i)]
  PROVE  QueueInv'
<1>1. queue \in [StorageLocks -> Seq(Waiter)]
  BY DEF QueueInv
<1>2. ASSUME NEW l \in StorageLocks, NEW n \in DOMAIN queue[l],
             NEW s, s = queue[l][n].task, s # t
      PROVE  /\ s \in Tasks /\ task'[s] = task[s] /\ Place(l, n)
             /\ SectionLock(s)' = SectionLock(s)
             /\ SectionMode(s)' = SectionMode(s)
  <2>1. s \in Tasks /\ Place(l, n)
    BY <1>2, QueueEntry
  <2>2. task'[s] = task[s]
    BY <1>2, <2>1, OthersKept
  <2> QED
    BY <2>1, <2>2, SectionKept
<1>3. ASSUME NEW l \in StorageLocks, l # k, NEW n \in DOMAIN queue[l]
      PROVE  Place(l, n)'
  <2>1. PICK s : s = queue[l][n].task
    OBVIOUS
  <2>2. s # t
    BY <1>3, <2>1, QueueEntry DEF Place
  <2>3. queue'[l] = queue[l]
    BY <1>1, <1>3
  <2> QED
    BY <1>2, <2>1, <2>2, <2>3 DEF Place
<1>4. CASE k \notin StorageLocks
  <2>1. UNCHANGED queue
    BY <1>1, <1>4
  <2> QED
    BY <1>3, <1>4, <2>1 DEF QueueInv
<1>5. CASE k \in StorageLocks
  <2>1. PICK q : q = queue[k]
    OBVIOUS
  <2>2. /\ q \in Seq(Waiter) /\ i \in DOMAIN q
        /\ queue' = [queue EXCEPT ![k] = RemoveAt(q, i)]
    BY <1>1, <1>5, <2>1
  <2>3. PICK r : r = RemoveAt(q, i)
    OBVIOUS
  <2>4. /\ r \in Seq(Waiter) /\ DOMAIN r = 1 .. Len(q) - 1
        /\ DOMAIN q = 1 .. Len(q) /\ Len(q) \in Nat
        /\ \A n \in 1 .. Len(q) - 1 : r[n] = q[IF n < i THEN n ELSE n + 1]
    BY <2>2, <2>3, Removed
  <2>5. queue' \in [StorageLocks -> Seq(Waiter)] /\ queue'[k] = r
    BY <1>1, <1>5, <2>2, <2>3, <2>4
  <2>6. ASSUME NEW n \in DOMAIN r
        PROVE  Place(k, n)'
    <3>1. PICK m : m = IF n < i THEN n ELSE n + 1
      OBVIOUS
    <3>2. m \in DOMAIN q /\ m # i /\ r[n] = q[m] /\ i \in Nat
      BY <2>2, <2>4, <2>6, <3>1
    <3>3. q[m].task # t
      <4>1. Place(k, i)
        BY <1>5, QueueEntry
      <4> QED
        BY <2>1, <3>2, <4>1 DEF Place
    <3>4. Place(k, m)
      BY <1>5, <2>1, <3>2, QueueEntry
    <3>5. ASSUME NEW j \in DOMAIN r, r[j].task = r[n].task
          PROVE  j = n
      <4>1. PICK d : d = IF j < i THEN j ELSE j + 1
        OBVIOUS
      <4>2. d \in DOMAIN q /\ r[j] = q[d] /\ d # i
        BY <2>2, <2>4, <3>5, <4>1
      <4>3. d = m
        BY <2>1, <3>2, <3>4, <3>5, <4>2 DEF Place
      <4> QED
        BY <2>2, <2>4, <3>1, <3>2, <4>1, <4>3
    <3>6. PICK s : s = q[m].task
      OBVIOUS
    <3>7. /\ task'[s] = task[s]
          /\ SectionLock(s)' = SectionLock(s)
          /\ SectionMode(s)' = SectionMode(s)
      BY <1>2, <1>5, <2>1, <3>2, <3>3, <3>6
    <3>8. queue'[k][n] = q[m] /\ DOMAIN queue'[k] = DOMAIN r
      BY <2>5, <3>2
    <3>9. \A j \in DOMAIN queue'[k] : queue'[k][j].task = s => j = n
      BY <2>5, <3>2, <3>5, <3>6
    <3> QED
      BY <2>1, <3>4, <3>6, <3>7, <3>8, <3>9 DEF Place
  <2> QED
    BY <1>1, <1>2, <1>3, <2>2, <2>5, <2>6 DEF QueueInv
<1> QED
  BY <1>4, <1>5

LEMMA QueueStep ==
  ASSUME StoreInv, QueueInv, NEW t \in Tasks, NEW h, Steps(t, h), LockEffect(t)
  PROVE  QueueInv'
<1>1. CASE Outside(t) /\ UNCHANGED queue
  BY <1>1, PlacesKept
<1>2. CASE /\ task[t].at # "idle" /\ task[t].phase = "out"
           /\ Enqueue(t, SectionLock(t), SectionMode(t))
           /\ task' = [task EXCEPT ![t].phase = "waiting"]
  BY <1>2, PlaceTaken DEF Outside
<1>3. ASSUME NEW i, GrantedAt(t, i) \/ AbandonedAt(t, i)
      PROVE  QueueInv'
  <2>1. PICK k : k = SectionLock(t)
    OBVIOUS
  <2>2. /\ i \in DOMAIN queue[k] /\ queue[k][i].task = t
        /\ queue' = [queue EXCEPT ![k] = RemoveAt(@, i)]
    BY <1>3, <2>1 DEF GrantedAt, AbandonedAt
  <2> QED
    BY <2>1, <2>2, PlaceLeft
<1>4. CASE Inside(t, "readStore") /\ DropGuard(t, SectionLock(t))
  BY <1>4, PlacesKept DEF Inside, DropGuard, Outside
<1> QED
  BY <1>1, <1>2, <1>3, <1>4 DEF LockEffect, lockVars, Outside, Inside

LEMMA GuardStep ==
  ASSUME StoreInv, GuardInv, QueueInv, NEW t \in Tasks, NEW h, Steps(t, h),
         LockEffect(t)
  PROVE  GuardInv'
<1>1. CASE /\ UNCHANGED <<readers, writers>>
           /\ task'[t].at # "readStore" \/ task'[t] = At(t, "readStore")
  <2>1. At(t, "readStore").phase = "out"
    BY AtFields DEF At, StoreInv, HandlersTyped, Handler
  <2> QED
    BY <1>1, <2>1, GuardsKept DEF Inside
<1>2. CASE /\ readers' = NoReader(t) /\ writers' = NoWriter(t)
           /\ task'[t].phase = "out"
  BY <1>2, GuardsDropped
<1>3. CASE /\ Free(SectionLock(t), SectionMode(t))
           /\ Guard(t, SectionLock(t), SectionMode(t))
           /\ task' = [task EXCEPT ![t].phase = "in"]
  <2>1. PICK mode \in Modes : mode = SectionMode(t)
    BY DEF SectionMode, Modes
  <2> QED
    BY <1>3, <2>1, GuardGiven, ReadStoreLock
<1>4. CASE /\ Enqueue(t, SectionLock(t), SectionMode(t))
           /\ task' = [task EXCEPT ![t].phase = "waiting"]
  <2>1. task'[t].phase = "waiting"
    BY <1>4 DEF StoreInv, HandlersTyped, Handler
  <2> QED
    BY <1>4, <2>1, GuardsKept DEF Enqueue, Inside
<1>5. ASSUME NEW i, GrantedAt(t, i)
      PROVE  GuardInv'
  <2>1. PICK l : l = SectionLock(t)
    OBVIOUS
  <2>2. PICK mode : mode = queue[l][i].mode
    OBVIOUS
  <2>3. /\ i \in DOMAIN queue[l] /\ queue[l][i].task = t
        /\ Free(l, mode) /\ Guard(t, l, mode)
        /\ task' = [task EXCEPT ![t].phase = "in"]
    BY <1>5, <2>1, <2>2 DEF GrantedAt
  <2>4. CASE l \in StorageLocks
    <3>1. mode \in Modes /\ mode = SectionMode(t)
      BY <2>2, <2>3, <2>4, QueueEntry DEF Place, SectionMode, Modes
    <3> QED
      BY <2>1, <2>3, <3>1, GuardGiven, ReadStoreLock
  <2>5. CASE l \notin StorageLocks
    <3>1. UNCHANGED <<readers, writers>>
      BY <2>3, <2>5 DEF Guard, GuardInv
    <3>2. task[t].at # "readStore"
      BY <2>1, <2>5, ReadStoreLock
    <3>3. ~Inside(t, "readStore")'
      BY <2>3, <3>2 DEF Inside, StoreInv, HandlersTyped, Handler
    <3> QED
      BY <3>1, <3>3, GuardsKept
  <2> QED
    BY <2>4, <2>5
<1>6. CASE /\ Inside(t, "readStore") /\ DropGuard(t, SectionLock(t))
           /\ task'[t] = At(t, "listAssets")
  <2>1. task'[t].phase = "out"
    BY <1>6 DEF At, StoreInv, HandlersTyped, Handler
  <2> QED
    BY <1>6, <2>1, GuardReturned
<1>7. ASSUME NEW i, AbandonedAt(t, i)
      PROVE  GuardInv'
  BY <1>7, GuardsDropped DEF AbandonedAt
<1> QED
  BY <1>1, <1>2, <1>3, <1>4, <1>5, <1>6, <1>7 DEF LockEffect, lockVars

LockInv == GuardInv /\ QueueInv

LEMMA LockInvStep ==
  ASSUME StoreInv, LockInv, [Next]_vars
  PROVE  LockInv'
<1>1. CASE UNCHANGED vars
  <2>1. UNCHANGED <<task, readers, writers, queue>>
    BY <1>1 DEF vars
  <2>2. \A s : SectionLock(s)' = SectionLock(s) /\ SectionMode(s)' = SectionMode(s)
    BY <2>1, SectionKept
  <2>3. GuardInv'
    BY <2>1, <2>2 DEF LockInv, GuardInv, Inside
  <2>4. QueueInv'
    BY <2>1, <2>2 DEF LockInv, QueueInv, Place
  <2> QED
    BY <2>3, <2>4 DEF LockInv
<1>2. CASE Next
  BY <1>2, LockStep, QueueStep, GuardStep DEF LockInv
<1> QED
  BY <1>1, <1>2

LEMMA LockInvInit == Init => LockInv
<1> SUFFICES ASSUME Init
             PROVE  LockInv
  OBVIOUS
<1>1. /\ readers = [l \in StorageLocks |-> [t \in Tasks |-> 0]]
      /\ writers = [l \in StorageLocks |-> {}]
      /\ queue = [l \in StorageLocks |-> <<>>]
      /\ task = [t \in Tasks |-> Idle]
  BY DEF Init, LocksInit
<1>2. GuardInv
  BY <1>1 DEF GuardInv, Inside, Idle
<1>3. QueueInv
  BY <1>1 DEF QueueInv
<1> QED
  BY <1>2, <1>3 DEF LockInv

LEMMA FunctionIsSeq ==
  ASSUME NEW S, NEW n \in Nat, NEW f \in [1 .. n -> S]
  PROVE  f \in Seq(S)
OBVIOUS

LEMMA SeqIsFunction ==
  ASSUME NEW S, NEW s \in Seq(S)
  PROVE  \E n \in Nat : s \in [1 .. n -> S]
OBVIOUS

\* The stores hold values of the types the code declares, what is created stays
\* within the bounds, and a writer of a map is alone with it
\* (storage_impl.rs 10-34).
THEOREM RefStorageTyped == Spec => []TypeOK
<1>1. ASSUME StoreInv, BoundsInv, LockInv
      PROVE  TypeOK
  <2>1. accounts \in Seq([user : DOMAIN users, manager : DOMAIN supports])
    <3>1. PICK n \in Nat : accounts \in [1 .. n -> [user : Nat, manager : Nat]]
      BY <1>1, SeqIsFunction DEF StoreInv, StoresTyped
    <3>2. \A a \in 1 .. n :
            accounts[a] \in [user : DOMAIN users, manager : DOMAIN supports]
      BY <1>1, <3>1 DEF StoreInv, StoresTyped
    <3>3. accounts \in
            [1 .. n -> [user : DOMAIN users, manager : DOMAIN supports]]
      BY <3>1, <3>2
    <3> QED
      BY <3>3, FunctionIsSeq
  <2>2. /\ Len(users) \in 0 .. MaxUsers
        /\ assetIds \in 0 .. MaxAssets /\ coins \in 0 .. assetIds
    <3>1. Pending(NewUsers) \in Nat /\ Pending(NewAssets) \in Nat
      BY Counted DEF Pending
    <3>2. /\ Len(users) \in Nat /\ assetIds \in Nat /\ coins \in Nat
          /\ coins <= assetIds
      BY <1>1 DEF StoreInv, StoresTyped
    <3> QED
      BY <1>1, <3>1, <3>2, RefStorageAssumption DEF BoundsInv
  <2>3. task \in [Tasks -> Task]
    <3>1. ASSUME NEW t \in Tasks
          PROVE  task[t] \in Task
      <4>1. /\ task[t] \in Handler /\ task[t].req \in Requests \cup {NoRequest}
            /\ Checked(task[t], users, supports, accounts, coins)
        BY <1>1 DEF StoreInv, HandlersTyped, BoundsInv
      <4>2. task[t].peer \in 0 .. MaxUsers
        <5>1. task[t].peer \in DOMAIN users \/ task[t].peer = NoUser
          BY <4>1 DEF Checked
        <5>2. DOMAIN users = 1 .. Len(users)
          BY <1>1 DEF StoreInv, StoresTyped
        <5> QED
          BY <2>2, <5>1, <5>2, RefStorageAssumption DEF NoUser
      <4>3. task[t].coin \in 0 .. MaxAssets
        BY <2>2, <4>1, RefStorageAssumption DEF Checked, NoCoin
      <4> QED
        BY <4>1, <4>2, <4>3 DEF Handler, Task
    <3> QED
      BY <1>1, <3>1 DEF StoreInv, HandlersTyped
  <2>4. ASSUME NEW l \in StorageLocks
        PROVE  /\ Cardinality(writers[l]) <= 1
               /\ writers[l] # {} => \A t \in Tasks : readers[l][t] = 0
    <3>1. writers[l] = {} \/ \E t \in Tasks : writers[l] = {t}
      BY <1>1 DEF LockInv, GuardInv
    <3>2. Cardinality(writers[l]) \in {0, 1}
      BY <3>1, FS_EmptySet, FS_Singleton
    <3> QED
      BY <1>1, <3>2 DEF LockInv, GuardInv
  <2> QED
    BY <1>1, <2>1, <2>2, <2>3, <2>4 DEF TypeOK, StoreInv, StoresTyped
<1>2. StoreInv /\ BoundsInv /\ LockInv => TypeOK
  BY <1>1
<1> QED
  BY <1>2, StoreInvHolds, BoundsInit, BoundsStep, LockInvInit, LockInvStep, PTL
     DEF Spec

-----------------------------------------------------------------------------
(* Nobody waits in a circle *)

\* A guard belongs to the section its handler is in; get_account alone has one
\* of its user's accounts besides.
Hold(s, l) ==
  /\ readers[l][s] > 0 =>
       \/ task[s].phase = "in" /\ l = SectionLock(s)
       \/ /\ task[s].at \in {"readStore", "listAssets"}
          /\ l = LockOf("accounts", task[s].req.user)
  /\ s \in writers[l] =>
       task[s].phase = "in" /\ l = SectionLock(s) /\ SectionMode(s) = "write"

\* Whoever waits has a place in the queue.
WaitInv ==
  \A s \in Tasks : task[s].phase = "waiting" =>
    \E i \in DOMAIN queue[SectionLock(s)] : queue[SectionLock(s)][i].task = s

HoldInv ==
  /\ \A s \in Tasks : task[s].at = "idle" => task[s].phase = "out"
  /\ \A l \in StorageLocks, s \in Tasks : Hold(s, l)

\* Each section is that of a lock there is.
LEMMA LockKnown ==
  ASSUME StoreInv, BoundsInv, NEW t \in Tasks, task[t].at # "idle"
  PROVE  SectionLock(t) \in StorageLocks
<1>1. PICK h : h = task[t]
  OBVIOUS
<1>2. /\ h \in Handler /\ h.req \in RequestSpace \cup {NoRequest}
      /\ Section(h.req.op, h.at) /\ h.at # "idle"
      /\ h.at = "findPeerAccount" => h.peer \in DOMAIN users
  BY <1>1 DEF StoreInv, HandlersTyped, Checked, Handler
<1>3. DOMAIN users \subseteq 1 .. MaxUsers
  <2>1. Len(users) \in Nat /\ DOMAIN users = 1 .. Len(users)
    BY DEF StoreInv, StoresTyped
  <2>2. Pending(NewUsers) \in Nat
    BY Counted DEF Pending
  <2>3. Len(users) <= MaxUsers
    BY <2>1, <2>2, RefStorageAssumption DEF BoundsInv
  <2> QED
    BY <2>1, <2>3, RefStorageAssumption
<1>4. PICK l : l = SectionLock(t)
  OBVIOUS
<1>5. CASE h.at \in {"checkAddr", "reserveAddr", "storeUser", "findUser",
                     "findPeer", "storeManager", "findManager"}
  <2>1. l \in {LockOf("addrs", 0), LockOf("users", 0), LockOf("managers", 0)}
    BY <1>1, <1>4, <1>5 DEF SectionLock
  <2> QED
    BY <1>4, <2>1 DEF StorageLocks
<1>6. CASE h.at \in {"storeSupported", "listSupported"}
  <2>1. l = LockOf("supported", h.req.manager)
    BY <1>1, <1>4, <1>6 DEF SectionLock
  <2>2. h.req.op \in {"createSupported", "createAccount"}
    BY <1>2, <1>6 DEF Section
  <2> QED
    BY <1>2, <1>4, <2>1, <2>2, RequestFields DEF StorageLocks
<1>7. CASE h.at \in {"storeAccount", "findAccount", "readAccount", "readStore"}
  <2>1. l = LockOf("accounts", h.req.user)
    BY <1>1, <1>4, <1>7 DEF SectionLock
  <2>2. h.req.op \in {"createAccount", "createAsset", "getAccount", "transfer"}
    BY <1>2, <1>7 DEF Section
  <2> QED
    BY <1>2, <1>4, <2>1, <2>2, RequestFields DEF StorageLocks
<1>8. CASE h.at = "findPeerAccount"
  <2>1. l = LockOf("accounts", h.peer)
    BY <1>1, <1>4, <1>8 DEF SectionLock
  <2> QED
    BY <1>2, <1>3, <1>4, <1>8, <2>1 DEF StorageLocks
<1>9. CASE h.at \in {"storeAsset", "takeAsset", "listAssets"}
  <2>1. l = LockOf("assets", h.req.account)
    BY <1>1, <1>4, <1>9 DEF SectionLock
  <2>2. h.req.op \in {"createAsset", "getAccount", "transfer"}
    BY <1>2, <1>9 DEF Section
  <2> QED
    BY <1>2, <1>4, <2>1, <2>2, RequestFields DEF StorageLocks
<1>10. CASE h.at = "putAsset"
  <2>1. l = LockOf("assets", h.req.peerAccount)
    BY <1>1, <1>4, <1>10 DEF SectionLock
  <2>2. h.req.op = "transfer"
    BY <1>2, <1>10 DEF Section
  <2> QED
    BY <1>2, <1>4, <2>1, <2>2, RequestFields DEF StorageLocks
<1>11. h.at \in SectionNames \ {"idle"}
  BY <1>2 DEF Handler
<1> QED
  BY <1>5, <1>6, <1>7, <1>8, <1>9, <1>10, <1>11 DEF SectionNames

\* A guard is new only to the handler that has come in.
ComesIn(t) ==
  /\ task[t].at # "idle" /\ task' = [task EXCEPT ![t].phase = "in"]

LEMMA NewGuards ==
  ASSUME StoreInv, GuardInv, QueueInv, NEW t \in Tasks, LockEffect(t),
         NEW l \in StorageLocks, NEW s \in Tasks
  PROVE  /\ readers'[l][s] > 0 =>
              \/ readers[l][s] > 0
              \/ (s = t /\ l = SectionLock(t) /\ ComesIn(t))
         /\ s \in writers'[l] =>
              \/ s \in writers[l]
              \/ /\ s = t /\ l = SectionLock(t) /\ ComesIn(t)
                 /\ SectionMode(t) = "write"
<1>1. /\ readers \in [StorageLocks -> [Tasks -> Nat]]
      /\ writers \in [StorageLocks -> SUBSET Tasks]
  BY DEF GuardInv
<1>2. CASE UNCHANGED <<readers, writers>>
  BY <1>2
<1>3. CASE readers' = NoReader(t) /\ writers' = NoWriter(t)
  <2>1. PICK row : row = readers[l]
    OBVIOUS
  <2>2. row \in [Tasks -> Nat] /\ readers'[l] = [row EXCEPT ![t] = 0]
    BY <1>1, <1>3, <2>1 DEF NoReader
  <2>3. writers'[l] = writers[l] \ {t}
    BY <1>3 DEF NoWriter
  <2> QED
    BY <2>1, <2>2, <2>3
<1>4. ASSUME NEW k, k = SectionLock(t), NEW mode, Guard(t, k, mode), ComesIn(t),
             k \in StorageLocks => mode = SectionMode(t)
      PROVE  /\ readers'[l][s] > 0 =>
                  readers[l][s] > 0 \/ (s = t /\ l = k /\ ComesIn(t))
             /\ s \in writers'[l] =>
                  \/ s \in writers[l]
                  \/ /\ s = t /\ l = k /\ ComesIn(t)
                     /\ SectionMode(t) = "write"
  <2>1. CASE l # k
    <3>1. readers'[l] = readers[l] /\ writers'[l] = writers[l]
      BY <1>1, <1>4, <2>1 DEF Guard
    <3> QED
      BY <3>1
  <2>2. CASE l = k /\ mode = "read"
    <3>1. PICK row : row = readers[l]
      OBVIOUS
    <3>2. row \in [Tasks -> Nat] /\ readers'[l] = [row EXCEPT ![t] = @ + 1]
      BY <1>1, <1>4, <2>2, <3>1 DEF Guard
    <3>3. writers'[l] = writers[l]
      BY <1>4, <2>2 DEF Guard
    <3>4. s # t => readers'[l][s] = readers[l][s]
      BY <3>1, <3>2
    <3> QED
      BY <1>4, <2>2, <3>3, <3>4
  <2>3. CASE l = k /\ mode # "read"
    <3>1. readers'[l] = readers[l] /\ writers'[l] = {t}
      BY <1>1, <1>4, <2>3 DEF Guard
    <3>2. SectionMode(t) = "write"
      BY <1>4, <2>3 DEF SectionMode
    <3> QED
      BY <1>4, <2>3, <3>1, <3>2
  <2> QED
    BY <2>1, <2>2, <2>3
<1>5. CASE /\ task[t].at # "idle"
           /\ Guard(t, SectionLock(t), SectionMode(t))
           /\ task' = [task EXCEPT ![t].phase = "in"]
  BY <1>4, <1>5 DEF ComesIn
<1>6. ASSUME NEW i, GrantedAt(t, i)
      PROVE  /\ readers'[l][s] > 0 =>
                  \/ readers[l][s] > 0
                  \/ (s = t /\ l = SectionLock(t) /\ ComesIn(t))
             /\ s \in writers'[l] =>
                  \/ s \in writers[l]
                  \/ /\ s = t /\ l = SectionLock(t) /\ ComesIn(t)
                     /\ SectionMode(t) = "write"
  <2>1. PICK k, mode : k = SectionLock(t) /\ mode = queue[k][i].mode
    OBVIOUS
  <2>2. /\ i \in DOMAIN queue[k] /\ queue[k][i].task = t /\ Guard(t, k, mode)
        /\ task' = [task EXCEPT ![t].phase = "in"]
    BY <1>6, <2>1 DEF GrantedAt
  <2>3. CASE k \in StorageLocks
    <3>1. Place(k, i)
      BY <2>2, <2>3, QueueEntry
    <3>2. task[t].at # "idle" /\ mode = SectionMode(t)
      BY <2>1, <2>2, <3>1 DEF Place
    <3> QED
      BY <1>4, <2>1, <2>2, <3>2 DEF ComesIn
  <2>4. CASE k \notin StorageLocks
    <3>1. readers'[l] = readers[l] /\ writers'[l] = writers[l]
      BY <1>1, <2>2, <2>4 DEF Guard
    <3> QED
      BY <3>1
  <2> QED
    BY <2>3, <2>4
<1>7. CASE Inside(t, "readStore") /\ DropGuard(t, SectionLock(t))
  <2>1. PICK k : k = SectionLock(t)
    OBVIOUS
  <2>2. /\ k \in StorageLocks /\ readers[k][t] > 0
        /\ readers' = [readers EXCEPT ![k][t] = @ - 1] /\ UNCHANGED writers
    BY <1>7, <2>1, ReadStoreLock DEF GuardInv, Inside, DropGuard
  <2>3. CASE l = k /\ s = t
    BY <2>2, <2>3
  <2>4. CASE ~(l = k /\ s = t)
    <3>1. readers'[l][s] = readers[l][s]
      BY <1>1, <2>2, <2>4
    <3> QED
      BY <2>2, <3>1
  <2> QED
    BY <2>3, <2>4
<1> QED
  BY <1>2, <1>3, <1>5, <1>6, <1>7 DEF LockEffect, lockVars, Enqueue, AbandonedAt

LEMMA HoldStep ==
  ASSUME StoreInv, GuardInv, QueueInv, HoldInv, NEW t \in Tasks, NEW h,
         Steps(t, h), LockEffect(t)
  PROVE  HoldInv'
<1> USE DEF ComesIn
<1>1. /\ task'[t] = h /\ \A s \in Tasks : s # t => task'[s] = task[s]
      /\ task \in [Tasks -> Handler]
  BY OthersKept DEF StoreInv, HandlersTyped
<1>2. task'[t].at = "idle" => task'[t].phase = "out"
  <2>1. ComesIn(t) => task'[t].at # "idle"
    BY <1>1 DEF Handler
  <2>2. /\ At(t, "readStore").phase = "out" /\ At(t, "listAssets").phase = "out"
    BY <1>1 DEF At, Handler
  <2>3. ASSUME NEW i, GrantedAt(t, i), task'[t].at = "idle" PROVE FALSE
    BY <1>1, <2>3 DEF GrantedAt, HoldInv, Handler
  <2>4. ASSUME task[t].at # "idle", task' = [task EXCEPT ![t].phase = "waiting"]
        PROVE  task'[t].at # "idle"
    BY <1>1, <2>4 DEF Handler
  <2>5. \A i : AbandonedAt(t, i) => task'[t].phase = "out"
    BY DEF AbandonedAt
  <2> QED
    BY <2>1, <2>2, <2>3, <2>4, <2>5 DEF LockEffect, HoldInv
<1>3. ASSUME NEW l \in StorageLocks, NEW s \in Tasks, s # t
      PROVE  Hold(s, l)'
  <2>1. task'[s] = task[s] /\ Hold(s, l)
    BY <1>1, <1>3 DEF HoldInv
  <2>2. SectionLock(s)' = SectionLock(s) /\ SectionMode(s)' = SectionMode(s)
    BY <2>1, SectionKept
  <2>3. /\ readers'[l][s] > 0 => readers[l][s] > 0
        /\ s \in writers'[l] => s \in writers[l]
    BY <1>3, NewGuards
  <2> QED
    BY <2>1, <2>2, <2>3 DEF Hold
<1>4. ASSUME NEW l \in StorageLocks
      PROVE  Hold(t, l)'
  <2>0. Hold(t, l)
    BY DEF HoldInv
  <2>1. CASE task[t].at = "idle" /\ UNCHANGED lockVars
    <3>1. ~(readers[l][t] > 0) /\ t \notin writers[l]
      BY <2>0, <2>1 DEF Hold, HoldInv
    <3> QED
      BY <2>1, <3>1 DEF Hold, lockVars
  <2>2. CASE /\ Inside(t, "readAccount") /\ UNCHANGED lockVars
             /\ task'[t] = At(t, "readStore")
    <3>1. /\ SectionMode(t) = "read" /\ SectionLock(t) = LockOf("accounts", task[t].req.user)
          /\ task[t].at = "readAccount"
      BY <2>2 DEF Inside, SectionMode, SectionLock, Writing
    <3>2. task'[t].at = "readStore" /\ task'[t].req = task[t].req
      BY <1>1, <2>2 DEF At, Handler
    <3>3. readers[l][t] > 0 => l = LockOf("accounts", task[t].req.user)
      BY <2>0, <3>1 DEF Hold
    <3>4. t \notin writers[l]
      BY <2>0, <3>1 DEF Hold
    <3> QED
      BY <2>2, <3>2, <3>3, <3>4 DEF Hold, lockVars
  <2>3. CASE readers' = NoReader(t) /\ writers' = NoWriter(t)
    <3>1. PICK row : row = readers[l]
      OBVIOUS
    <3>2. row \in [Tasks -> Nat] /\ readers'[l] = [row EXCEPT ![t] = 0]
      BY <2>3, <3>1 DEF GuardInv, NoReader
    <3>3. ~(readers'[l][t] > 0) /\ t \notin writers'[l]
      BY <2>3, <3>2 DEF NoWriter
    <3> QED
      BY <3>3 DEF Hold
  <2>4. CASE /\ task[t].at # "idle" /\ task[t].phase \in {"out", "waiting"}
             /\ task' = [task EXCEPT ![t].phase = "in"]
    <3>1. /\ task'[t].phase = "in" /\ task'[t].at = task[t].at
          /\ task'[t].req = task[t].req /\ task'[t].peer = task[t].peer
      BY <1>1, <2>4 DEF Handler
    <3>2. SectionLock(t)' = SectionLock(t) /\ SectionMode(t)' = SectionMode(t)
      BY <3>1, SectionKept
    <3>3. /\ readers'[l][t] > 0 => readers[l][t] > 0 \/ l = SectionLock(t)
          /\ t \in writers'[l] =>
               \/ t \in writers[l]
               \/ l = SectionLock(t) /\ SectionMode(t) = "write"
      BY NewGuards
    <3>4. /\ readers[l][t] > 0 =>
               /\ task[t].at \in {"readStore", "listAssets"}
               /\ l = LockOf("accounts", task[t].req.user)
          /\ t \notin writers[l]
      BY <2>0, <2>4 DEF Hold
    <3> QED
      BY <3>1, <3>2, <3>3, <3>4 DEF Hold
  <2>5. CASE /\ task[t].phase = "out" /\ UNCHANGED <<readers, writers>>
             /\ task' = [task EXCEPT ![t].phase = "waiting"]
    <3>1. task'[t].at = task[t].at /\ task'[t].req = task[t].req
      BY <1>1, <2>5 DEF Handler
    <3>2. /\ readers[l][t] > 0 =>
               /\ task[t].at \in {"readStore", "listAssets"}
               /\ l = LockOf("accounts", task[t].req.user)
          /\ t \notin writers[l]
      BY <2>0, <2>5 DEF Hold
    <3> QED
      BY <2>5, <3>1, <3>2 DEF Hold
  <2>6. CASE /\ Inside(t, "readStore") /\ DropGuard(t, SectionLock(t))
             /\ task'[t] = At(t, "listAssets")
    <3>1. /\ SectionMode(t) = "read" /\ SectionLock(t) = LockOf("accounts", task[t].req.user)
          /\ task[t].at = "readStore"
      BY <2>6 DEF Inside, SectionMode, SectionLock, Writing
    <3>2. task'[t].at = "listAssets" /\ task'[t].req = task[t].req
      BY <1>1, <2>6 DEF At, Handler
    <3>3. readers[l][t] > 0 => l = LockOf("accounts", task[t].req.user)
      BY <2>0, <3>1 DEF Hold
    <3>4. t \notin writers[l] /\ UNCHANGED writers
      BY <2>0, <2>6, <3>1 DEF Hold, DropGuard
    <3>5. readers'[l][t] > 0 => readers[l][t] > 0
      <4>1. task'[t].phase = "out"
        BY <1>1, <2>6 DEF At, Handler
      <4>2. ~ComesIn(t)
        BY <1>1, <4>1 DEF Handler
      <4> QED
        BY <4>2, NewGuards
    <3> QED
      BY <3>2, <3>3, <3>4, <3>5 DEF Hold
  <2>7. ASSUME NEW i, GrantedAt(t, i)
        PROVE  Hold(t, l)'
    <3>1. /\ task[t].phase = "waiting" /\ task[t].at # "idle"
          /\ task' = [task EXCEPT ![t].phase = "in"]
      BY <2>7 DEF GrantedAt, HoldInv
    <3> QED
      BY <2>4, <3>1
  <2>8. ASSUME NEW i, AbandonedAt(t, i)
        PROVE  Hold(t, l)'
    BY <2>3, <2>8 DEF AbandonedAt
  <2> QED
    BY <2>1, <2>2, <2>3, <2>4, <2>5, <2>6, <2>7, <2>8 DEF LockEffect, Enqueue
<1>5. \A s \in Tasks : task'[s].at = "idle" => task'[s].phase = "out"
  BY <1>1, <1>2 DEF HoldInv
<1>6. \A l \in StorageLocks, s \in Tasks : Hold(s, l)'
  BY <1>3, <1>4
<1> QED
  BY <1>5, <1>6 DEF HoldInv

\* A place outlasts the comings and goings of the others.
LEMMA PlaceOutlasts ==
  ASSUME QueueInv, NEW t \in Tasks, LockEffect(t), NEW l \in StorageLocks,
         NEW i \in DOMAIN queue[l], queue[l][i].task # t
  PROVE  \E j \in DOMAIN queue'[l] : queue'[l][j] = queue[l][i]
<1>1. PICK q : q = queue[l]
  OBVIOUS
<1>2. q \in Seq(Waiter) /\ queue \in [StorageLocks -> Seq(Waiter)]
  BY <1>1 DEF QueueInv
<1>3. CASE queue'[l] = q
  BY <1>1, <1>3
<1>4. CASE Enqueue(t, SectionLock(t), SectionMode(t)) /\ queue'[l] # q
  <2>1. PICK w : w = [task |-> t, mode |-> SectionMode(t)]
    OBVIOUS
  <2>2. queue'[l] = Append(q, w) /\ w \in Waiter
    BY <1>1, <1>2, <1>4, <2>1 DEF Enqueue, Waiter, SectionMode, Modes
  <2>3. /\ DOMAIN q \subseteq DOMAIN Append(q, w)
        /\ \A j \in DOMAIN q : Append(q, w)[j] = q[j]
    <3>1. /\ DOMAIN Append(q, w) = 1 .. Len(q) + 1 /\ DOMAIN q = 1 .. Len(q)
          /\ Len(q) \in Nat
          /\ \A j \in DOMAIN q : Append(q, w)[j] = q[j]
      BY <1>2, <2>2, Appended
    <3> QED
      BY <3>1
  <2> QED
    BY <1>1, <2>2, <2>3
<1>5. ASSUME NEW k, NEW n \in DOMAIN queue[k], queue[k][n].task = t,
             queue' = [queue EXCEPT ![k] = RemoveAt(@, n)], queue'[l] # q
      PROVE  \E j \in DOMAIN queue'[l] : queue'[l][j] = queue[l][i]
  <2>1. k = l /\ queue'[l] = RemoveAt(q, n) /\ n \in DOMAIN q /\ q[n].task = t
    BY <1>1, <1>2, <1>5
  <2>2. PICK r : r = RemoveAt(q, n)
    OBVIOUS
  <2>3. /\ DOMAIN r = 1 .. Len(q) - 1
        /\ DOMAIN q = 1 .. Len(q) /\ Len(q) \in Nat
        /\ \A j \in 1 .. Len(q) - 1 : r[j] = q[IF j < n THEN j ELSE j + 1]
    BY <1>2, <2>1, <2>2, Removed
  <2>4. i # n /\ i \in DOMAIN q
    BY <1>1, <2>1
  <2>5. CASE i < n
    <3>1. i \in DOMAIN r
      BY <2>1, <2>3, <2>4, <2>5
    <3>2. r[i] = q[i]
      BY <2>3, <2>5, <3>1
    <3> QED
      BY <1>1, <2>1, <2>2, <3>1, <3>2
  <2>6. CASE i > n
    <3>1. i - 1 \in DOMAIN r /\ ~(i - 1 < n) /\ (i - 1) + 1 = i
      BY <2>1, <2>3, <2>4, <2>6
    <3>2. r[i - 1] = q[i]
      BY <2>3, <3>1
    <3> QED
      BY <1>1, <2>1, <2>2, <3>1, <3>2
  <2> QED
    BY <2>1, <2>3, <2>4, <2>5, <2>6
<1>6. ASSUME NEW n, GrantedAt(t, n) \/ AbandonedAt(t, n), queue'[l] # q
      PROVE  \E j \in DOMAIN queue'[l] : queue'[l][j] = queue[l][i]
  BY <1>5, <1>6 DEF GrantedAt, AbandonedAt
<1>7. CASE UNCHANGED queue
  BY <1>1, <1>7
<1> QED
  BY <1>3, <1>4, <1>6, <1>7 DEF LockEffect, lockVars, DropGuard

LEMMA WaitStep ==
  ASSUME StoreInv, BoundsInv, QueueInv, HoldInv, WaitInv, NEW t \in Tasks, NEW h,
         Steps(t, h), LockEffect(t)
  PROVE  WaitInv'
<1>1. /\ task'[t] = h /\ \A s \in Tasks : s # t => task'[s] = task[s]
      /\ task \in [Tasks -> Handler]
  BY OthersKept DEF StoreInv, HandlersTyped
<1>2. ASSUME NEW s \in Tasks, s # t, task'[s].phase = "waiting"
      PROVE  \E i \in DOMAIN queue'[SectionLock(s)'] :
               queue'[SectionLock(s)'][i].task = s
  <2>1. task'[s] = task[s]
    BY <1>1, <1>2
  <2>2. PICK l : l = SectionLock(s)
    OBVIOUS
  <2>3. SectionLock(s)' = l /\ task[s].at # "idle"
    BY <1>2, <2>1, <2>2, SectionKept DEF HoldInv
  <2>4. l \in StorageLocks
    BY <2>2, <2>3, LockKnown
  <2>5. PICK i \in DOMAIN queue[l] : queue[l][i].task = s
    BY <1>2, <2>1, <2>2 DEF WaitInv
  <2>6. PICK j \in DOMAIN queue'[l] : queue'[l][j] = queue[l][i]
    BY <1>2, <2>4, <2>5, PlaceOutlasts
  <2> QED
    BY <2>3, <2>5, <2>6
<1>3. ASSUME task'[t].phase = "waiting"
      PROVE  \E i \in DOMAIN queue'[SectionLock(t)'] :
               queue'[SectionLock(t)'][i].task = t
  <2>1. /\ task[t].at # "idle"
        /\ Enqueue(t, SectionLock(t), SectionMode(t))
        /\ task' = [task EXCEPT ![t].phase = "waiting"]
    <3>1. ComesIn(t) => task'[t].phase = "in"
      BY <1>1 DEF ComesIn, Handler
    <3>2. At(t, "readStore").phase = "out" /\ At(t, "listAssets").phase = "out"
      BY <1>1 DEF At, Handler
    <3>3. \A i : GrantedAt(t, i) => task'[t].phase = "in"
      BY <1>1 DEF GrantedAt, Handler
    <3>4. \A i : AbandonedAt(t, i) => task'[t].phase = "out"
      BY DEF AbandonedAt
    <3>5. task[t].at = "idle" => task[t].phase = "out"
      BY DEF HoldInv
    <3> QED
      BY <1>3, <3>1, <3>2, <3>3, <3>4, <3>5 DEF LockEffect, ComesIn
  <2>2. PICK l, w : l = SectionLock(t) /\ w = [task |-> t, mode |-> SectionMode(t)]
    OBVIOUS
  <2>3. l \in StorageLocks
    BY <2>1, <2>2, LockKnown
  <2>4. SectionLock(t)' = l
    <3>1. /\ task'[t].at = task[t].at /\ task'[t].req = task[t].req
          /\ task'[t].peer = task[t].peer
      BY <1>1, <2>1 DEF Handler
    <3> QED
      BY <2>2, <3>1, SectionKept
  <2>5. PICK q : q = queue[l]
    OBVIOUS
  <2>6. q \in Seq(Waiter) /\ queue'[l] = Append(q, w) /\ w \in Waiter /\ w.task = t
    BY <2>1, <2>2, <2>3, <2>5 DEF QueueInv, Enqueue, Waiter, SectionMode, Modes
  <2>7. Len(q) + 1 \in DOMAIN Append(q, w) /\ Append(q, w)[Len(q) + 1] = w
    <3>1. /\ DOMAIN Append(q, w) = 1 .. Len(q) + 1 /\ Len(q) \in Nat
          /\ Append(q, w)[Len(q) + 1] = w
      BY <2>6, Appended
    <3> QED
      BY <3>1
  <2> QED
    BY <2>4, <2>6, <2>7
<1>4. ASSUME NEW s \in Tasks, task'[s].phase = "waiting"
      PROVE  \E i \in DOMAIN queue'[SectionLock(s)'] :
               queue'[SectionLock(s)'][i].task = s
  BY <1>2, <1>3, <1>4
<1> QED
  BY <1>4 DEF WaitInv

\* All that is known of the locks.
CircleInv ==
  /\ StoreInv /\ BoundsInv /\ LockInv
  /\ HoldInv /\ WaitInv

LEMMA CircleInvStep == CircleInv /\ [Next]_vars => CircleInv'
<1> SUFFICES ASSUME CircleInv, [Next]_vars PROVE CircleInv'
  OBVIOUS
<1>1. StoreInv' /\ BoundsInv' /\ LockInv'
  BY StoreInvStep, BoundsStep, LockInvStep DEF CircleInv
<1>2. CASE UNCHANGED vars
  <2>1. UNCHANGED <<task, readers, writers, queue>>
    BY <1>2 DEF vars
  <2>2. \A s : SectionLock(s)' = SectionLock(s) /\ SectionMode(s)' = SectionMode(s)
    BY <2>1, SectionKept
  <2>3. HoldInv'
    BY <2>1, <2>2 DEF CircleInv, HoldInv, Hold
  <2>4. WaitInv'
    BY <2>1, <2>2 DEF CircleInv, WaitInv
  <2> QED
    BY <1>1, <2>3, <2>4 DEF CircleInv
<1>3. CASE Next
  <2>1. PICK t \in Tasks : LockEffect(t) /\ \E h : Steps(t, h)
    BY <1>3, LockStep DEF CircleInv
  <2>2. HoldInv'
    BY <2>1, HoldStep DEF CircleInv, LockInv
  <2>3. WaitInv'
    BY <2>1, WaitStep DEF CircleInv, LockInv
  <2> QED
    BY <1>1, <2>2, <2>3 DEF CircleInv
<1> QED
  BY <1>2, <1>3

LEMMA CircleInvInit == Init => CircleInv
<1> SUFFICES ASSUME Init PROVE CircleInv
  OBVIOUS
<1>1. /\ readers = [l \in StorageLocks |-> [t \in Tasks |-> 0]]
      /\ writers = [l \in StorageLocks |-> {}]
      /\ task = [t \in Tasks |-> Idle]
  BY DEF Init, LocksInit
<1>2. HoldInv
  BY <1>1 DEF HoldInv, Hold, Idle
<1>3. WaitInv
  BY <1>1 DEF WaitInv, Idle
<1> QED
  BY <1>2, <1>3, StoreInvInit, BoundsInit, LockInvInit DEF CircleInv

Holds(s, l) == s \in writers[l] \/ readers[l][s] > 0

\* Either the first in the queue has its turn, or someone has a guard.
LEMMA HeadOrHolder ==
  ASSUME CircleInv, NEW t \in Tasks, task[t].phase = "waiting",
         NEW l, l = SectionLock(t)
  PROVE  \/ \E s \in {t} \cup WaitsFor(t) : Ready(s)
         \/ \E r \in Tasks : Holds(r, l)
<1>1. l \in StorageLocks
  BY LockKnown DEF CircleInv, HoldInv
<1>2. PICK i \in DOMAIN queue[l] : queue[l][i].task = t
  BY DEF CircleInv, WaitInv
<1>3. PICK q : q = queue[l]
  OBVIOUS
<1>4. /\ q \in Seq(Waiter) /\ DOMAIN q = 1 .. Len(q) /\ Len(q) \in Nat
      /\ i \in 1 .. Len(q) /\ 1 \in DOMAIN q
  BY <1>1, <1>2, <1>3 DEF CircleInv, LockInv, QueueInv
<1>5. PICK u, mode : u = q[1].task /\ mode = q[1].mode
  OBVIOUS
<1>6. /\ u \in Tasks /\ task[u].at # "idle" /\ SectionLock(u) = l
  BY <1>1, <1>3, <1>4, <1>5, QueueEntry DEF CircleInv, LockInv, Place
<1>7. CASE Free(l, mode)
  <2>1. PastThe(SubSeq(q, 1, 1 - 1), mode)
    <3>1. SubSeq(q, 1, 0) = <<>>
      BY <1>4, SubSeqProperties
    <3> QED
      BY <3>1 DEF PastThe
  <2>2. Ready(u)
    BY <1>3, <1>4, <1>5, <1>6, <1>7, <2>1 DEF Ready
  <2>3. u \in {t} \cup WaitsFor(t)
    <3>1. CASE i = 1
      BY <1>2, <1>3, <1>5, <3>1
    <3>2. CASE 1 < i
      BY <1>2, <1>3, <1>4, <1>5, <1>6, <3>2 DEF WaitsFor
    <3> QED
      BY <1>4, <3>1, <3>2
  <2> QED
    BY <2>2, <2>3
<1>8. CASE ~Free(l, mode)
  <2>1. CASE writers[l] # {}
    BY <1>1, <2>1 DEF Holds, CircleInv, LockInv, GuardInv
  <2>2. ASSUME NEW r \in Tasks, readers[l][r] # 0
        PROVE  Holds(r, l)
    <3>1. readers[l][r] \in Nat
      BY <1>1 DEF CircleInv, LockInv, GuardInv
    <3> QED
      BY <2>2, <3>1 DEF Holds
  <2> QED
    BY <1>8, <2>1, <2>2 DEF Free
<1> QED
  BY <1>7, <1>8

LEMMA HolderWaitedFor ==
  ASSUME NEW t \in Tasks, task[t].phase = "waiting", NEW r \in Tasks,
         Holds(r, SectionLock(t))
  PROVE  r \in WaitsFor(t)
BY DEF Holds, WaitsFor

\* A get_account at its second guard is let in, unless a writer is before it.
LEMMA SecondGuard ==
  ASSUME CircleInv, NEW r \in Tasks, task[r].phase = "waiting",
         task[r].at = "readStore", readers[SectionLock(r)][r] > 0
  PROVE  Ready(r) \/ BlocksItself(r)
<1> SUFFICES ASSUME ~BlocksItself(r) PROVE Ready(r)
  OBVIOUS
<1>1. PICK l : l = SectionLock(r)
  OBVIOUS
<1>2. l \in StorageLocks /\ SectionMode(r) = "read"
  BY <1>1, ReadStoreLock DEF CircleInv
<1>3. PICK i \in DOMAIN queue[l] : queue[l][i].task = r
  BY <1>1 DEF CircleInv, WaitInv
<1>4. PICK q : q = queue[l]
  OBVIOUS
<1>5. /\ q \in Seq(Waiter) /\ DOMAIN q = 1 .. Len(q) /\ Len(q) \in Nat
      /\ i \in 1 .. Len(q)
  BY <1>2, <1>3, <1>4 DEF CircleInv, LockInv, QueueInv
<1>6. q[i].mode = "read"
  BY <1>2, <1>3, <1>4, QueueEntry DEF CircleInv, LockInv, Place
<1>7. writers[l] = {}
  <2>1. ~\A s \in Tasks : readers[l][s] = 0
    <3>1. readers[l][r] # 0
      <4>1. readers[l][r] \in Nat /\ readers[l][r] > 0
        BY <1>1, <1>2 DEF CircleInv, LockInv, GuardInv
      <4> QED
        BY <4>1
    <3> QED
      BY <3>1
  <2> QED
    BY <1>2, <2>1 DEF CircleInv, LockInv, GuardInv
<1>8. \A j \in 1 .. i - 1 : q[j].mode = "read"
  <2>1. ASSUME NEW j \in 1 .. i - 1 PROVE q[j].mode = "read"
    <3>1. j \in DOMAIN q /\ j < i
      BY <1>5
    <3>2. q[j].mode \in {"read", "write"}
      <4>1. q[j] \in Waiter
        BY <1>5, <3>1
      <4> QED
        BY <4>1 DEF Waiter, Modes
    <3>3. q[j].mode # "write"
      BY <1>1, <1>3, <1>4, <3>1 DEF BlocksItself
    <3> QED
      BY <3>2, <3>3
  <2> QED
    BY <2>1
<1>9. PastThe(SubSeq(q, 1, i - 1), "read")
  <2>1. PICK before : before = SubSeq(q, 1, i - 1)
    OBVIOUS
  <2>2. /\ DOMAIN before = 1 .. i - 1
        /\ \A j \in 1 .. i - 1 : before[j] = q[j]
    <3>1. /\ before \in Seq(Waiter) /\ Len(before) = i - 1
          /\ \A j \in 1 .. i - 1 : before[j] = q[j]
      BY <1>5, <2>1, SubSeqProperties
    <3> QED
      BY <3>1
  <2> QED
    BY <1>8, <2>1, <2>2 DEF PastThe, OnlyReaders
<1> QED
  BY <1>1, <1>3, <1>4, <1>6, <1>7, <1>9 DEF Ready, Free

LEMMA WaitsEnd == CircleInv => SomeoneGoesOn
<1> SUFFICES ASSUME CircleInv, NEW t \in Tasks, task[t].phase = "waiting"
             PROVE  \E s \in {t} \cup WaitsFor(t) :
                      \/ Ready(s) \/ BlocksItself(s)
                      \/ \E r \in WaitsFor(s) : Ready(r)
  BY DEF SomeoneGoesOn
<1>1. PICK l : l = SectionLock(t)
  OBVIOUS
<1>2. l \in StorageLocks
  BY <1>1, LockKnown DEF CircleInv, HoldInv
<1>3. ASSUME NEW s \in Tasks, task[s].phase # "waiting", NEW k \in StorageLocks,
             Holds(s, k)
      PROVE  Ready(s)
  <2>1. Hold(s, k)
    BY DEF CircleInv, HoldInv
  <2>2. task[s].at # "idle"
    BY <1>3, <2>1 DEF Hold, Holds, CircleInv, HoldInv
  <2> QED
    BY <1>3, <2>2 DEF Ready
<1>4. ASSUME NEW r \in Tasks, Holds(r, l), task[r].phase = "waiting"
      PROVE  \/ Ready(r) \/ BlocksItself(r)
             \/ \E s \in WaitsFor(r) : Ready(s)
  <2>1. /\ task[r].at \in {"readStore", "listAssets"} /\ readers[l][r] > 0
        /\ l = LockOf("accounts", task[r].req.user)
    BY <1>2, <1>4 DEF CircleInv, HoldInv, Hold, Holds
  <2>2. CASE task[r].at = "readStore"
    <3>1. SectionLock(r) = l
      BY <2>1, <2>2 DEF SectionLock
    <3> QED
      BY <1>4, <2>1, <2>2, <3>1, SecondGuard
  <2>3. CASE task[r].at = "listAssets"
    <3>1. PICK k : k = SectionLock(r)
      OBVIOUS
    <3>2. k = LockOf("assets", task[r].req.account)
      BY <2>3, <3>1 DEF SectionLock
    <3>3. k \in StorageLocks
      BY <2>3, <3>1, LockKnown DEF CircleInv
    <3>4. ASSUME NEW s \in Tasks, Holds(s, k)
          PROVE  Ready(s) /\ s \in WaitsFor(r)
      <4>1. k.map = "assets" /\ \A u : LockOf("accounts", u).map = "accounts"
        BY <3>2 DEF LockOf
      <4>2. task[s].phase = "in"
        BY <3>3, <3>4, <4>1 DEF CircleInv, HoldInv, Hold, Holds
      <4> QED
        BY <1>3, <1>4, <3>1, <3>3, <3>4, <4>2, HolderWaitedFor
    <3>5. \/ \E s \in {r} \cup WaitsFor(r) : Ready(s)
          \/ \E s \in Tasks : Holds(s, k)
      BY <1>4, <3>1, HeadOrHolder
    <3> QED
      BY <3>4, <3>5
  <2> QED
    BY <2>1, <2>2, <2>3
<1>5. CASE \E s \in {t} \cup WaitsFor(t) : Ready(s)
  BY <1>5
<1>6. ASSUME NEW r \in Tasks, Holds(r, l)
      PROVE  \E s \in {t} \cup WaitsFor(t) :
               \/ Ready(s) \/ BlocksItself(s)
               \/ \E u \in WaitsFor(s) : Ready(u)
  <2>1. r \in WaitsFor(t)
    BY <1>1, <1>6, HolderWaitedFor
  <2> QED
    BY <1>2, <1>3, <1>4, <1>6, <2>1
<1> QED
  BY <1>1, <1>5, <1>6, HeadOrHolder

\* For any number of handlers and any requests: whoever waits does so for
\* somebody who can go on, with one get_account between them at most, or for a
\* get_account that blocks itself. No other order of locks stops a handler
\* (storage_impl.rs 36-231, assets.rs 110-140).
THEOREM NobodyWaitsInACircle == Spec => []SomeoneGoesOn
BY CircleInvInit, CircleInvStep, WaitsEnd, PTL DEF Spec

-----------------------------------------------------------------------------
(* Handlers come to an end *)

\* The section a handler goes to is nearer its end.
Nearer(op, at, next) ==
  /\ SectionsLeft[op][at] \in Nat /\ SectionsLeft[op][next] \in Nat
  /\ SectionsLeft[op][next] < SectionsLeft[op][at]

LEMMA RanksPositive ==
  ASSUME NEW op, NEW at, Section(op, at), at # "idle"
  PROVE  SectionsLeft[op][at] \in Nat /\ SectionsLeft[op][at] >= 1
BY DEF Section, SectionsLeft

Follows(op, at, next) ==
  \/ op = "createUser" /\ at = "checkAddr" /\ next = "reserveAddr"
  \/ op = "createUser" /\ at = "reserveAddr" /\ next = "storeUser"
  \/ op = "createSupported" /\ at = "findManager" /\ next = "storeSupported"
  \/ op = "createAccount" /\ at = "findManager" /\ next = "listSupported"
  \/ op = "createAccount" /\ at = "listSupported" /\ next = "findUser"
  \/ op = "createAccount" /\ at = "findUser" /\ next = "storeAccount"
  \/ op = "createAsset" /\ at = "findUser" /\ next = "findAccount"
  \/ op = "createAsset" /\ at = "findAccount" /\ next = "storeAsset"
  \/ op = "getAccount" /\ at = "findUser" /\ next = "readAccount"
  \/ op = "getAccount" /\ at = "readAccount" /\ next = "readStore"
  \/ op = "getAccount" /\ at = "readStore" /\ next = "listAssets"
  \/ op = "transfer" /\ at = "findUser" /\ next = "findAccount"
  \/ op = "transfer" /\ at = "findAccount" /\ next = "findPeer"
  \/ op = "transfer" /\ at = "findPeer" /\ next = "findPeerAccount"
  \/ op = "transfer" /\ at = "findPeerAccount" /\ next = "takeAsset"
  \/ op = "transfer" /\ at = "takeAsset" /\ next = "putAsset"

LEMMA RanksFall ==
  ASSUME NEW op, NEW at, NEW next, Follows(op, at, next)
  PROVE  Nearer(op, at, next) /\ next # "idle"
BY DEF Follows, Nearer, SectionsLeft

\* What a step makes of a handler under way.
Ahead(t, h) ==
  \/ h = Idle
  \/ /\ h.at = task[t].at /\ h.req = task[t].req
     /\ \/ task[t].phase = "out" /\ h.phase \in {"waiting", "in"}
        \/ task[t].phase = "waiting" /\ h.phase = "in"
  \/ /\ task[t].phase = "in" /\ h.phase = "out" /\ h.req = task[t].req
     /\ Follows(h.req.op, task[t].at, h.at)

LEMMA AheadMove ==
  ASSUME StoreInv, NEW t \in Tasks, task[t].phase = "in", NEW next,
         task' = [task EXCEPT ![t].at = next, ![t].phase = "out"],
         Follows(task[t].req.op, task[t].at, next)
  PROVE  \E h : Steps(t, h) /\ Ahead(t, h)
<1> DEFINE h == [task[t] EXCEPT !.at = next, !.phase = "out"]
<1>1. task[t] \in Handler
  BY DEF StoreInv, HandlersTyped
<1>2. Steps(t, h)
  BY DEF Steps
<1>3. h.at = next /\ h.phase = "out" /\ h.req = task[t].req
  BY <1>1 DEF Handler
<1>4. Ahead(t, h)
  <2> HIDE DEF h
  <2> QED
    BY <1>3 DEF Ahead
<1> HIDE DEF h
<1> QED
  BY <1>2, <1>4

LEMMA AheadAnswer ==
  ASSUME NEW t \in Tasks, Answer(t)
  PROVE  \E h : Steps(t, h) /\ Ahead(t, h)
<1>1. Steps(t, Idle) /\ Ahead(t, Idle)
  BY DEF Answer, Steps, Ahead
<1> QED
  BY <1>1

LEMMA StepAhead ==
  ASSUME StoreInv, NEW t \in Tasks, Run(t) \/ Disconnect(t)
  PROVE  \E h : Steps(t, h) /\ Ahead(t, h)
<1>1. task[t] \in Handler /\ Section(task[t].req.op, task[t].at)
  BY DEF StoreInv, HandlersTyped, Checked
<1>2. CASE Ask(t) \/ Enter(t)
  <2>1. PICK phase : /\ task' = [task EXCEPT ![t].phase = phase]
                     /\ \/ task[t].phase = "out" /\ phase \in {"waiting", "in"}
                        \/ task[t].phase = "waiting" /\ phase = "in"
    BY <1>2 DEF Ask, Enter
  <2> DEFINE h == [task[t] EXCEPT !.phase = phase]
  <2>2. Steps(t, h)
    BY <2>1 DEF Steps
  <2>3. h.at = task[t].at /\ h.phase = phase /\ h.req = task[t].req
    BY <1>1 DEF Handler
  <2> HIDE DEF h
  <2>4. Ahead(t, h)
    BY <2>1, <2>3 DEF Ahead
  <2> QED
    BY <2>2, <2>4
<1>3. CASE CheckAddr(t) \/ ReserveAddr(t) \/ FindUser(t) \/ FindManager(t)
           \/ ListSupported(t) \/ FindAccount(t) \/ FindPeerAccount(t)
  <2>1. \/ Answer(t)
        \/ \E next : MoveOn(t, next) /\ Follows(task[t].req.op, task[t].at, next)
    <3>1. CASE CheckAddr(t) \/ ReserveAddr(t)
      BY <1>1, <3>1
         DEF CheckAddr, ReserveAddr, Inside, Follows, Section
    <3>2. CASE FindUser(t)
      BY <1>1, <3>2 DEF FindUser, AfterFindUser, Inside, Follows, Section
    <3>3. CASE FindManager(t)
      BY <1>1, <3>3 DEF FindManager, Inside, Follows, Section
    <3>4. CASE ListSupported(t)
      BY <1>1, <3>4 DEF ListSupported, Inside, Follows, Section
    <3>5. CASE FindAccount(t)
      BY <1>1, <3>5 DEF FindAccount, Inside, Follows, Section
    <3>6. CASE FindPeerAccount(t)
      BY <1>1, <3>6 DEF FindPeerAccount, Inside, Follows, Section
    <3> QED
      BY <1>3, <3>1, <3>2, <3>3, <3>4, <3>5, <3>6
  <2>2. task[t].phase = "in"
    BY <1>3, Zenon DEF CheckAddr, ReserveAddr, FindUser, FindManager,
                       ListSupported, FindAccount, FindPeerAccount, Inside
  <2> QED
    BY <2>1, <2>2, AheadAnswer, AheadMove DEF MoveOn
<1>4. CASE ReadAccount(t) \/ ReadStore(t)
  <2>1. \/ Answer(t)
        \/ \E next : /\ task' = [task EXCEPT ![t].at = next, ![t].phase = "out"]
                     /\ Follows(task[t].req.op, task[t].at, next)
    BY <1>1, <1>4 DEF ReadAccount, ReadStore, Inside, Follows, Section
  <2>2. task[t].phase = "in"
    BY <1>4 DEF ReadAccount, ReadStore, Inside
  <2> QED
    BY <2>1, <2>2, AheadAnswer, AheadMove
<1>5. CASE FindPeer(t)
  <2>1. ASSUME NEW u, task' = [task EXCEPT ![t] =
                        [@ EXCEPT !.at = "findPeerAccount",
                                  !.phase = "out", !.peer = u]]
        PROVE  \E h : Steps(t, h) /\ Ahead(t, h)
    <3> DEFINE h == [task[t] EXCEPT !.at = "findPeerAccount",
                                    !.phase = "out", !.peer = u]
    <3>1. Steps(t, h)
      BY <2>1 DEF Steps
    <3>2. h.at = "findPeerAccount" /\ h.phase = "out" /\ h.req = task[t].req
      BY <1>1 DEF Handler
    <3> HIDE DEF h
    <3>3. Ahead(t, h)
      BY <1>1, <1>5, <3>2 DEF Ahead, FindPeer, Inside, Section, Follows
    <3> QED
      BY <3>1, <3>3
  <2> QED
    BY <1>5, <2>1, AheadAnswer DEF FindPeer
<1>6. CASE TakeAsset(t)
  <2>1. ASSUME NEW x, TakesCoin(t, x)
        PROVE  \E h : Steps(t, h) /\ Ahead(t, h)
    <3> DEFINE h == [task[t] EXCEPT !.at = "putAsset", !.phase = "out",
                                    !.coin = x.coin]
    <3>1. Steps(t, h)
      BY <2>1 DEF Steps, TakesCoin
    <3>2. h.at = "putAsset" /\ h.phase = "out" /\ h.req = task[t].req
      BY <1>1 DEF Handler
    <3> HIDE DEF h
    <3>3. Ahead(t, h)
      BY <1>1, <1>6, <3>2 DEF Ahead, TakeAsset, Inside, Section, Follows
    <3> QED
      BY <3>1, <3>3
  <2> QED
    BY <1>6, <2>1, AheadAnswer DEF TakeAsset
<1>7. CASE StoreUser(t) \/ StoreManager(t) \/ StoreSupported(t)
           \/ StoreAccount(t) \/ ListAssets(t) \/ StoreAsset(t) \/ PutAsset(t)
  BY <1>7, AheadAnswer
     DEF StoreUser, StoreManager, StoreSupported, StoreAccount, ListAssets,
         StoreAsset, PutAsset
<1>8. CASE Disconnect(t)
  <2>1. Steps(t, Idle) /\ Ahead(t, Idle)
    BY <1>8 DEF Disconnect, Steps, Ahead
  <2> QED
    BY <2>1
<1> QED
  BY <1>2, <1>3, <1>4, <1>5, <1>6, <1>7, <1>8 DEF Run

\* Whatever a lookup finds and whoever runs beside it, a handler under way
\* takes each of its sections once and then answers; with somebody always able
\* to go on, that leaves a request nowhere to stay (assets.rs 36-140,
\* accounts.rs 25-110).
THEOREM HandlersOnlyDescend == Spec => HandlersDescend
<1>1. ASSUME StoreInv, [Next]_vars, NEW s \in Tasks, task[s].at # "idle",
             task'[s] # task[s]
      PROVE  StepsLeft(s)' < StepsLeft(s)
  <2>1. CASE UNCHANGED vars
    BY <1>1, <2>1 DEF vars
  <2>2. ASSUME NEW t \in Tasks, NEW h, Steps(t, h), s # t
        PROVE  FALSE
    BY <1>1, <2>2, OthersKept
  <2>3. CASE \E t \in Tasks, req \in Requests : Receive(t, req)
    <3>1. PICK t \in Tasks, req \in Requests : Receive(t, req)
      BY <2>3
    <3>2. \E h : Steps(t, h)
      BY <3>1 DEF Receive, Steps
    <3> QED
      BY <1>1, <2>2, <3>1, <3>2 DEF Receive
  <2>4. ASSUME NEW t \in Tasks, Run(t) \/ Disconnect(t)
        PROVE  StepsLeft(s)' < StepsLeft(s)
    <3>1. PICK h : Steps(t, h) /\ Ahead(t, h)
      BY <1>1, <2>4, StepAhead
    <3>2. s = t /\ task'[s] = h
      BY <1>1, <2>2, <3>1, OthersKept
    <3>3. PICK op, at, phase : op = task[s].req.op /\ at = task[s].at
                               /\ phase = task[s].phase
      OBVIOUS
    <3>4. PICK n : n = SectionsLeft[op][at]
      OBVIOUS
    <3>5. n \in Nat /\ n >= 1 /\ phase \in {"out", "waiting", "in"}
      BY <1>1, <3>3, <3>4, RanksPositive
         DEF StoreInv, HandlersTyped, Checked, Handler
    <3>6. StepsLeft(s) = 3 * n + [out |-> 2, waiting |-> 1, in |-> 0][phase]
      BY <1>1, <3>3, <3>4 DEF StepsLeft
    <3>7. StepsLeft(s)' =
            IF h.at = "idle" THEN 0
            ELSE 3 * SectionsLeft[h.req.op][h.at]
                   + [out |-> 2, waiting |-> 1, in |-> 0][h.phase]
      BY <3>2 DEF StepsLeft
    <3>8. CASE h = Idle
      <4>1. StepsLeft(s)' = 0
        BY <3>7, <3>8 DEF Idle
      <4> QED
        BY <3>5, <3>6, <4>1
    <3>9. CASE /\ h.at = at /\ h.req = task[s].req
               /\ \/ phase = "out" /\ h.phase \in {"waiting", "in"}
                  \/ phase = "waiting" /\ h.phase = "in"
      <4>1. StepsLeft(s)' = 3 * n + [out |-> 2, waiting |-> 1, in |-> 0][h.phase]
        BY <1>1, <3>3, <3>4, <3>7, <3>9
      <4> QED
        BY <3>5, <3>6, <3>9, <4>1
    <3>10. CASE /\ phase = "in" /\ h.phase = "out" /\ h.req = task[s].req
                /\ Follows(h.req.op, at, h.at)
      <4>1. PICK m : m = SectionsLeft[op][h.at]
        OBVIOUS
      <4>2. m \in Nat /\ m < n /\ h.at # "idle"
        BY <3>3, <3>4, <3>10, <4>1, RanksFall DEF Nearer
      <4>3. StepsLeft(s)' = 3 * m + 2 /\ StepsLeft(s) = 3 * n
        BY <3>3, <3>5, <3>6, <3>7, <3>10, <4>1, <4>2
      <4> QED
        BY <3>5, <4>2, <4>3
    <3> QED
      BY <3>1, <3>2, <3>3, <3>8, <3>9, <3>10 DEF Ahead
  <2> QED
    BY <1>1, <2>1, <2>3, <2>4 DEF Next
<1>2. StoreInv /\ [Next]_vars =>
        [\A t \in Tasks : task[t].at # "idle" /\ task'[t] # task[t] =>
           StepsLeft(t)' < StepsLeft(t)]_vars
  BY <1>1
<1> QED
  BY <1>2, StoreInvHolds, PTL DEF Spec, HandlersDescend
=============================================================================
