----------------------------- MODULE RefStorage -----------------------------
(***************************************************************************)
(* The in-memory store of the reference API                                *)
(* (reference/finternet-api/src/imc/storage_impl.rs) under its request     *)
(* handlers (src/app).  Handlers run concurrently on several threads; each *)
(* map has a read-write lock of its own.  A handler is a sequence of       *)
(* sections: it asks for a lock, enters, reads or writes one map and drops *)
(* the guard.  Between two sections anything may happen.                   *)
(*                                                                         *)
(* Ids drawn by nanoid are positions in the order of creation.  An amount  *)
(* of cash is a coin that keeps its identity when a transfer gives the     *)
(* asset a new id, so what is conserved can be seen; the only asset type   *)
(* is cash.  Requests that only read in one section (get_user, the lists)  *)
(* are left out; get_account, which holds one guard while asking for       *)
(* others, is not.                                                         *)
(***************************************************************************)
EXTENDS Naturals, Sequences, FiniteSets

CONSTANTS
  Tasks,         \* concurrent handlers
  Addresses,     \* universal addresses users ask for
  Requests,      \* the requests clients send
  MaxUsers, MaxManagers, MaxAccounts, MaxAssets, \* bounds on what is created
  MaxDisconnects \* bound on clients that go away while they wait

RequestSpace ==
  [op : {"createUser"}, addr : Addresses]
    \cup [op : {"createManager"}]
    \cup [op : {"createSupported"}, manager : 1 .. MaxManagers]
    \cup [op : {"createAccount"}, user : 1 .. MaxUsers,
          manager : 1 .. MaxManagers]
    \cup [op : {"createAsset", "getAccount"}, user : 1 .. MaxUsers,
          account : 1 .. MaxAccounts]
    \cup [op : {"transfer"}, user : 1 .. MaxUsers, account : 1 .. MaxAccounts,
          asset : 1 .. MaxAssets, addr : Addresses,
          peerAccount : 1 .. MaxAccounts]

ASSUME RefStorageAssumption ==
  /\ {MaxUsers, MaxManagers, MaxAccounts, MaxAssets, MaxDisconnects}
       \subseteq Nat
  /\ Requests \subseteq RequestSpace
  /\ IsFiniteSet(Tasks)

VARIABLES
  users,    \* UserStore.map: the address of each user
  addrs,    \* UserStore.set: the addresses taken
  supports, \* TokenManagerStore.map: whether each manager supports cash
  accounts, \* AccountStore.map of every user: the user and the manager
  assets,   \* AssetStore.map of every account: id, coin and account
  assetIds, \* asset ids drawn so far
  coins,    \* coins issued so far
  task,     \* what each handler is doing
  readers, writers, queue,
  lostCoins, lostAddrs, \* what disconnects made handlers drop
  disconnects

storeVars == <<users, addrs, supports, accounts, assets, assetIds, coins>>
lostVars == <<lostCoins, lostAddrs, disconnects>>
vars == <<storeVars, task, readers, writers, queue, lostVars>>

LockOf(map, n) == [map |-> map, n |-> n]

StorageLocks ==
  {LockOf(map, 0) : map \in {"users", "addrs", "managers"}}
    \cup {LockOf("supported", m) : m \in 1 .. MaxManagers}
    \cup {LockOf("accounts", u) : u \in 1 .. MaxUsers}
    \cup {LockOf("assets", a) : a \in 1 .. MaxAccounts}

INSTANCE RwLocks WITH Locks <- StorageLocks

NoUser == 0
NoCoin == 0
NoRequest == [op |-> "none"]

Idle ==
  [req |-> NoRequest, at |-> "idle", phase |-> "out", peer |-> NoUser,
   coin |-> NoCoin]

Init ==
  /\ users = <<>> /\ addrs = {} /\ supports = <<>> /\ accounts = <<>>
  /\ assets = {} /\ assetIds = 0 /\ coins = 0
  /\ task = [t \in Tasks |-> Idle]
  /\ LocksInit
  /\ lostCoins = {} /\ lostAddrs = {} /\ disconnects = 0

-----------------------------------------------------------------------------
(* Requests and sections *)

\* The first section of each handler.
FirstSection(op) ==
  CASE op = "createUser" -> "checkAddr"
    [] op = "createManager" -> "storeManager"
    [] op \in {"createSupported", "createAccount"} -> "findManager"
    [] OTHER -> "findUser"

Writing ==
  {"reserveAddr", "storeUser", "storeManager", "storeSupported",
   "storeAccount", "storeAsset", "takeAsset", "putAsset"}

\* The lock a task needs for the section it is at, and how.
SectionMode(t) == IF task[t].at \in Writing THEN "write" ELSE "read"

SectionLock(t) ==
  LET at == task[t].at
      req == task[t].req
  IN  CASE at \in {"checkAddr", "reserveAddr"} -> LockOf("addrs", 0)
        [] at \in {"storeUser", "findUser", "findPeer"} -> LockOf("users", 0)
        [] at \in {"storeManager", "findManager"} -> LockOf("managers", 0)
        [] at \in {"storeSupported", "listSupported"} ->
             LockOf("supported", req.manager)
        [] at \in {"storeAccount", "findAccount", "readAccount", "readStore"} ->
             LockOf("accounts", req.user)
        [] at = "findPeerAccount" -> LockOf("accounts", task[t].peer)
        [] at \in {"storeAsset", "takeAsset", "listAssets"} ->
             LockOf("assets", req.account)
        [] at = "putAsset" -> LockOf("assets", req.peerAccount)

\* What is created or being created stays within the bounds.
Pending(ops) == Cardinality({t \in Tasks : task[t].req.op \in ops})

Room(op) ==
  CASE op = "createUser" -> Len(users) + Pending({op}) < MaxUsers
    [] op = "createManager" -> Len(supports) + Pending({op}) < MaxManagers
    [] op = "createAccount" -> Len(accounts) + Pending({op}) < MaxAccounts
    [] op \in {"createAsset", "transfer"} ->
         assetIds + Pending({"createAsset", "transfer"}) < MaxAssets
    [] OTHER -> TRUE

\* A client's request reaches an idle handler.
Receive(t, req) ==
  /\ task[t].at = "idle"
  /\ Room(req.op)
  /\ task' = [task EXCEPT ![t] =
                [@ EXCEPT !.req = req, !.at = FirstSection(req.op)]]
  /\ UNCHANGED <<storeVars, readers, writers, queue, lostVars>>

\* The handler asks for the lock of its next section ...
Ask(t) ==
  /\ task[t].at # "idle" /\ task[t].phase = "out"
  /\ \/ /\ Lock(t, SectionLock(t), SectionMode(t))
        /\ task' = [task EXCEPT ![t].phase = "in"]
     \/ /\ Enqueue(t, SectionLock(t), SectionMode(t))
        /\ task' = [task EXCEPT ![t].phase = "waiting"]
  /\ UNCHANGED <<storeVars, lostVars>>

\* ... and gets it when its turn comes.
Enter(t) ==
  /\ task[t].phase = "waiting"
  /\ Granted(t, SectionLock(t))
  /\ task' = [task EXCEPT ![t].phase = "in"]
  /\ UNCHANGED <<storeVars, lostVars>>

Inside(t, section) == task[t].at = section /\ task[t].phase = "in"

\* The guard goes, and the handler is on its way to the next section.
MoveOn(t, section) ==
  /\ task' = [task EXCEPT ![t].at = section, ![t].phase = "out"]
  /\ DropGuards(t)

\* The handler answers, with success or with the error of a lookup.
Answer(t) ==
  /\ task' = [task EXCEPT ![t] = Idle]
  /\ DropGuards(t)

-----------------------------------------------------------------------------
(* UserStore *)

\* create_user: the address is checked, reserved and used in three sections.
CheckAddr(t) ==
  /\ Inside(t, "checkAddr")
  /\ IF task[t].req.addr \in addrs THEN Answer(t) ELSE MoveOn(t, "reserveAddr")
  /\ UNCHANGED <<storeVars, lostVars>>

\* Mutation of ReserveAddr: the address is not entered into the set.
ReserveNothing(t) ==
  /\ Inside(t, "reserveAddr")
  /\ MoveOn(t, "storeUser")
  /\ UNCHANGED <<storeVars, lostVars>>

ReserveAddr(t) ==
  /\ Inside(t, "reserveAddr")
  /\ addrs' = addrs \cup {task[t].req.addr}
  /\ MoveOn(t, "storeUser")
  /\ UNCHANGED <<users, supports, accounts, assets, assetIds, coins, lostVars>>

StoreUser(t) ==
  /\ Inside(t, "storeUser")
  /\ users' = Append(users, task[t].req.addr)
  /\ Answer(t)
  /\ UNCHANGED <<addrs, supports, accounts, assets, assetIds, coins, lostVars>>

AfterFindUser(op) ==
  CASE op = "createAccount" -> "storeAccount"
    [] op = "getAccount" -> "readAccount"
    [] OTHER -> "findAccount"

\* Mutation of FindUser: the user id of the path is taken as it is.
UserAssumed(t) ==
  /\ Inside(t, "findUser")
  /\ MoveOn(t, AfterFindUser(task[t].req.op))
  /\ UNCHANGED <<storeVars, lostVars>>

\* get_account_interface
FindUser(t) ==
  /\ Inside(t, "findUser")
  /\ IF task[t].req.user \notin DOMAIN users
       THEN Answer(t)
       ELSE MoveOn(t, AfterFindUser(task[t].req.op))
  /\ UNCHANGED <<storeVars, lostVars>>

\* get_account_interface_by_ua: some user with that address.
FindPeer(t) ==
  LET found == {u \in DOMAIN users : users[u] = task[t].req.addr}
  IN  /\ Inside(t, "findPeer")
      /\ \/ found = {} /\ Answer(t)
         \/ \E u \in found :
              /\ task' = [task EXCEPT ![t] =
                            [@ EXCEPT !.at = "findPeerAccount",
                                      !.phase = "out", !.peer = u]]
              /\ DropGuards(t)
      /\ UNCHANGED <<storeVars, lostVars>>

-----------------------------------------------------------------------------
(* TokenManagerStore and its supported assets *)

StoreManager(t) ==
  /\ Inside(t, "storeManager")
  /\ supports' = Append(supports, FALSE)
  /\ Answer(t)
  /\ UNCHANGED <<users, addrs, accounts, assets, assetIds, coins, lostVars>>

FindManager(t) ==
  /\ Inside(t, "findManager")
  /\ IF task[t].req.manager \notin DOMAIN supports
       THEN Answer(t)
       ELSE MoveOn(t, IF task[t].req.op = "createAccount" THEN "listSupported"
                                                          ELSE "storeSupported")
  /\ UNCHANGED <<storeVars, lostVars>>

StoreSupported(t) ==
  /\ Inside(t, "storeSupported")
  /\ supports' = [supports EXCEPT ![task[t].req.manager] = TRUE]
  /\ Answer(t)
  /\ UNCHANGED <<users, addrs, accounts, assets, assetIds, coins, lostVars>>

\* Mutation of ListSupported: any manager will do.
SupportAssumed(t) ==
  /\ Inside(t, "listSupported")
  /\ MoveOn(t, "findUser")
  /\ UNCHANGED <<storeVars, lostVars>>

\* create_account goes on only if the manager supports the asset type.
ListSupported(t) ==
  /\ Inside(t, "listSupported")
  /\ IF supports[task[t].req.manager] THEN MoveOn(t, "findUser") ELSE Answer(t)
  /\ UNCHANGED <<storeVars, lostVars>>

-----------------------------------------------------------------------------
(* AccountStore *)

StoreAccount(t) ==
  /\ Inside(t, "storeAccount")
  /\ accounts' = Append(accounts, [user |-> task[t].req.user,
                                   manager |-> task[t].req.manager])
  /\ Answer(t)
  /\ UNCHANGED <<users, addrs, supports, assets, assetIds, coins, lostVars>>

\* Mutation of HasAccount: an account is looked up whosever it is.
AccountExists(user, account) == account \in DOMAIN accounts

\* The store looked into is the one of this user.
HasAccount(user, account) ==
  account \in DOMAIN accounts /\ accounts[account].user = user

\* get_asset_interface of create_asset and of a transfer's source
FindAccount(t) ==
  /\ Inside(t, "findAccount")
  /\ IF HasAccount(task[t].req.user, task[t].req.account)
       THEN MoveOn(t, IF task[t].req.op = "createAsset" THEN "storeAsset"
                                                        ELSE "findPeer")
       ELSE Answer(t)
  /\ UNCHANGED <<storeVars, lostVars>>

\* Mutation of FindPeerAccount: a user without the account is looked up again.
PeerTriedAgain(t) ==
  /\ Inside(t, "findPeerAccount")
  /\ IF HasAccount(task[t].peer, task[t].req.peerAccount)
       THEN MoveOn(t, "takeAsset")
       ELSE MoveOn(t, "findPeer")
  /\ UNCHANGED <<storeVars, lostVars>>

\* Mutation of FindPeerAccount: the account named is taken as it is.
PeerAccountAssumed(t) ==
  /\ Inside(t, "findPeerAccount")
  /\ MoveOn(t, "takeAsset")
  /\ UNCHANGED <<storeVars, lostVars>>

\* get_asset_interface of a transfer's destination
FindPeerAccount(t) ==
  /\ Inside(t, "findPeerAccount")
  /\ IF HasAccount(task[t].peer, task[t].req.peerAccount)
       THEN MoveOn(t, "takeAsset")
       ELSE Answer(t)
  /\ UNCHANGED <<storeVars, lostVars>>

\* get_account keeps this guard to its end ...
ReadAccount(t) ==
  /\ Inside(t, "readAccount")
  /\ IF HasAccount(task[t].req.user, task[t].req.account)
       THEN /\ task' = [task EXCEPT ![t].at = "readStore", ![t].phase = "out"]
            /\ UNCHANGED <<readers, writers, queue>>
       ELSE Answer(t)
  /\ UNCHANGED <<storeVars, lostVars>>

\* ... while get_asset_interface takes a second one on the same map ...
ReadStore(t) ==
  /\ Inside(t, "readStore")
  /\ task' = [task EXCEPT ![t].at = "listAssets", ![t].phase = "out"]
  /\ DropGuard(t, SectionLock(t))
  /\ UNCHANGED <<storeVars, lostVars>>

\* ... and list_assets one on the account's assets.
ListAssets(t) ==
  /\ Inside(t, "listAssets")
  /\ Answer(t)
  /\ UNCHANGED <<storeVars, lostVars>>

-----------------------------------------------------------------------------
(* AssetStore *)

NewAsset(coin, account) ==
  [id |-> assetIds + 1, coin |-> coin, account |-> account]

\* create_asset of a mint
StoreAsset(t) ==
  /\ Inside(t, "storeAsset")
  /\ assets' = assets \cup {NewAsset(coins + 1, task[t].req.account)}
  /\ assetIds' = assetIds + 1
  /\ coins' = coins + 1
  /\ Answer(t)
  /\ UNCHANGED <<users, addrs, supports, accounts, lostVars>>

Named(t) ==
  {x \in assets : x.id = task[t].req.asset /\ x.account = task[t].req.account}

\* The handler of a transfer holds the coin it took out of the source.
TakesCoin(t, x) ==
  task' = [task EXCEPT ![t] =
             [@ EXCEPT !.at = "putAsset", !.phase = "out", !.coin = x.coin]]

\* Mutation of TakeAsset: the asset is read and stays in the source.
TakeCopy(t) ==
  /\ Inside(t, "takeAsset")
  /\ \/ Named(t) = {} /\ Answer(t)
     \/ \E x \in Named(t) : TakesCoin(t, x) /\ DropGuards(t)
  /\ UNCHANGED <<storeVars, lostVars>>

\* Mutation of TakeAsset: the source stays locked until the answer.
TakeAndKeepLock(t) ==
  /\ Inside(t, "takeAsset")
  /\ \/ Named(t) = {} /\ Answer(t) /\ UNCHANGED assets
     \/ \E x \in Named(t) :
          /\ assets' = assets \ {x}
          /\ TakesCoin(t, x)
          /\ UNCHANGED <<readers, writers, queue>>
  /\ UNCHANGED <<users, addrs, supports, accounts, assetIds, coins, lostVars>>

\* Mutation of TakeAsset: nobody answers when the asset is gone.
TakeUnanswered(t) ==
  /\ Inside(t, "takeAsset")
  /\ \E x \in Named(t) :
       /\ assets' = assets \ {x}
       /\ TakesCoin(t, x)
       /\ DropGuards(t)
  /\ UNCHANGED <<users, addrs, supports, accounts, assetIds, coins, lostVars>>

\* delete_asset of a transfer
TakeAsset(t) ==
  /\ Inside(t, "takeAsset")
  /\ \/ Named(t) = {} /\ Answer(t) /\ UNCHANGED assets
     \/ \E x \in Named(t) :
          /\ assets' = assets \ {x}
          /\ TakesCoin(t, x)
          /\ DropGuards(t)
  /\ UNCHANGED <<users, addrs, supports, accounts, assetIds, coins, lostVars>>

\* create_asset of a transfer, with a new id
PutAsset(t) ==
  /\ Inside(t, "putAsset")
  /\ assets' = assets \cup {NewAsset(task[t].coin, task[t].req.peerAccount)}
  /\ assetIds' = assetIds + 1
  /\ Answer(t)
  /\ UNCHANGED <<users, addrs, supports, accounts, coins, lostVars>>

-----------------------------------------------------------------------------
\* A client goes away while its handler waits: the server drops the handler
\* where it stands, and with it what the handler alone held.
Disconnect(t) ==
  /\ task[t].phase = "waiting"
  /\ disconnects < MaxDisconnects
  /\ disconnects' = disconnects + 1
  /\ lostCoins' = lostCoins \cup ({task[t].coin} \ {NoCoin})
  /\ lostAddrs' = IF task[t].at = "storeUser"
                    THEN lostAddrs \cup {task[t].req.addr} ELSE lostAddrs
  /\ task' = [task EXCEPT ![t] = Idle]
  /\ Abandon(t, SectionLock(t))
  /\ UNCHANGED storeVars

\* A handler runs.
Run(t) ==
  \/ Ask(t) \/ Enter(t)
  \/ CheckAddr(t) \/ ReserveAddr(t) \/ StoreUser(t)
  \/ FindUser(t) \/ FindPeer(t)
  \/ StoreManager(t) \/ FindManager(t) \/ StoreSupported(t) \/ ListSupported(t)
  \/ StoreAccount(t) \/ FindAccount(t) \/ FindPeerAccount(t)
  \/ ReadAccount(t) \/ ReadStore(t) \/ ListAssets(t)
  \/ StoreAsset(t) \/ TakeAsset(t) \/ PutAsset(t)

Next ==
  \/ \E t \in Tasks, req \in Requests : Receive(t, req)
  \/ \E t \in Tasks : Run(t)
  \/ \E t \in Tasks : Disconnect(t)

\* The runtime polls every handler that is ready; clients promise nothing.
Spec == Init /\ [][Next]_vars /\ \A t \in Tasks : WF_vars(Run(t))

-----------------------------------------------------------------------------
(* Properties *)

SectionNames ==
  {"idle", "checkAddr", "reserveAddr", "storeUser", "findUser", "findPeer",
   "storeManager", "findManager", "storeSupported", "listSupported",
   "storeAccount", "findAccount", "findPeerAccount", "readAccount",
   "readStore", "listAssets", "storeAsset", "takeAsset", "putAsset"}

Task ==
  [req : Requests \cup {NoRequest}, at : SectionNames,
   phase : {"out", "waiting", "in"}, peer : 0 .. MaxUsers,
   coin : 0 .. MaxAssets]

\* The stores hold values of the types the code declares, and no lock is held
\* by a writer together with anyone else.
TypeOK ==
  /\ users \in Seq(Addresses) /\ addrs \subseteq Addresses
  /\ supports \in Seq(BOOLEAN)
  /\ accounts \in Seq([user : DOMAIN users, manager : DOMAIN supports])
  /\ assets \subseteq [id : 1 .. assetIds, coin : 1 .. coins,
                       account : DOMAIN accounts]
  /\ assetIds \in 0 .. MaxAssets /\ coins \in 0 .. assetIds
  /\ task \in [Tasks -> Task]
  /\ \A l \in StorageLocks :
       /\ Cardinality(writers[l]) <= 1
       /\ writers[l] # {} => \A t \in Tasks : readers[l][t] = 0

\* The set of addresses and the map of users agree, up to the requests on
\* their way between the two and those dropped there (storage_impl.rs 36-53).
AddressBook ==
  /\ \A u \in DOMAIN users : users[u] \in addrs
  /\ \A a \in addrs :
       \/ \E u \in DOMAIN users : users[u] = a
       \/ \E t \in Tasks : task[t].at = "storeUser" /\ task[t].req.addr = a
       \/ a \in lostAddrs

\* Every account is with a manager that supports its asset type, although
\* that was checked some sections before the account is stored
\* (accounts.rs 32-66).
AccountsSupported ==
  \A a \in DOMAIN accounts : supports[accounts[a].manager]

\* Where a coin is: in a stored asset, in a handler's hands, or gone with one.
Places(c) ==
  {<<"asset", x.id>> : x \in {y \in assets : y.coin = c}}
    \cup {<<"hand", t>> : t \in {s \in Tasks : task[s].coin = c}}
    \cup {<<"lost", 0>> : d \in lostCoins \cap {c}}

\* Transfers neither double a coin nor lose it, whatever runs beside them,
\* unless the handler is dropped with the coin in its hands
\* (assets.rs 110-140).
CoinsConserved == \A c \in 1 .. coins : Cardinality(Places(c)) = 1

\* A coin on its way is on its way to an account of a user with the address
\* the request named (assets.rs 112-127).
TransferAddressed ==
  \A t \in Tasks : task[t].at = "putAsset" =>
    users[accounts[task[t].req.peerAccount].user] = task[t].req.addr

\* The accounts a coin lies in, a coin on its way lying in its destination.
Custody(c) ==
  {x.account : x \in {y \in assets : y.coin = c}}
    \cup {task[t].req.peerAccount : t \in {s \in Tasks : task[s].coin = c}}

Coins ==
  INSTANCE CoinCustody WITH
    opened <- Len(accounts),
    custody <- [c \in 1 .. coins |-> Custody(c)]

\* The sections of a transfer and of a mint, with whatever runs between them,
\* amount to one step: a coin goes from the one account it lies in to an open
\* account, and once gone it never turns up again (assets.rs 110-140).
ImplementsCustody == Coins!CustodySpec

\* A get_account waits for its second guard behind a writer that waits for
\* its first.
BlocksItself(t) ==
  LET waiting == queue[SectionLock(t)]
  IN  /\ task[t].at = "readStore" /\ task[t].phase = "waiting"
      /\ \E i, j \in DOMAIN waiting :
           i < j /\ waiting[i].mode = "write" /\ waiting[j].task = t

\* A handler the runtime only has to poll: it waits for no lock, or its turn
\* has come.
Ready(t) ==
  /\ task[t].at # "idle"
  /\ task[t].phase = "waiting" =>
       LET l == SectionLock(t)
       IN  \E i \in DOMAIN queue[l] :
             /\ queue[l][i].task = t
             /\ PastThe(SubSeq(queue[l], 1, i - 1), queue[l][i].mode)
             /\ Free(l, queue[l][i].mode)

\* Whom a handler waits for: who has a guard of the lock or a place before it.
WaitsFor(t) ==
  LET l == SectionLock(t)
  IN  {s \in Tasks :
         /\ task[t].phase = "waiting"
         /\ \/ s \in writers[l] \/ readers[l][s] > 0
            \/ \E i, j \in DOMAIN queue[l] :
                 i < j /\ queue[l][i].task = s /\ queue[l][j].task = t}

\* Nobody waits in a circle: whoever waits does so for a handler that is ready,
\* a get_account at most standing between the two; unless a get_account blocks
\* itself (storage_impl.rs 36-231, assets.rs 110-140).
SomeoneGoesOn ==
  \A t \in Tasks : task[t].phase = "waiting" =>
    \E s \in {t} \cup WaitsFor(t) :
      Ready(s) \/ BlocksItself(s) \/ \E r \in WaitsFor(s) : Ready(r)

\* How many sections each handler has before it, the one it is at included.
SectionsLeft ==
  [createUser |-> [checkAddr |-> 3, reserveAddr |-> 2, storeUser |-> 1],
   createManager |-> [storeManager |-> 1],
   createSupported |-> [findManager |-> 2, storeSupported |-> 1],
   createAccount |->
     [findManager |-> 4, listSupported |-> 3, findUser |-> 2,
      storeAccount |-> 1],
   createAsset |-> [findUser |-> 3, findAccount |-> 2, storeAsset |-> 1],
   getAccount |->
     [findUser |-> 4, readAccount |-> 3, readStore |-> 2, listAssets |-> 1],
   transfer |->
     [findUser |-> 6, findAccount |-> 5, findPeer |-> 4,
      findPeerAccount |-> 3, takeAsset |-> 2, putAsset |-> 1]]

\* A bound on the steps a handler has left.
StepsLeft(t) ==
  IF task[t].at = "idle"
    THEN 0
    ELSE 3 * SectionsLeft[task[t].req.op][task[t].at]
           + [out |-> 2, waiting |-> 1, in |-> 0][task[t].phase]

\* A handler only ever gets nearer to its answer: it tries nothing twice
\* (assets.rs 36-140, accounts.rs 25-110).
HandlersDescend ==
  [][\A t \in Tasks : task[t].at # "idle" /\ task'[t] # task[t] =>
       StepsLeft(t)' < StepsLeft(t)]_vars

\* Every request is answered, unless a get_account blocks itself: no other
\* order of locks can stop a handler (storage_impl.rs).
OnlyGetAccountBlocks ==
  \A t \in Tasks :
    task[t].at # "idle" ~> \/ task[t].at = "idle"
                           \/ \E s \in Tasks : BlocksItself(s)

-----------------------------------------------------------------------------
(* Statements of the repository's documents that the code does not keep *)

\* error.rs 51, openapi-spec.yaml 442: a user's address is "Unique".
UniqueAddress ==
  \A u, v \in DOMAIN users : users[u] = users[v] => u = v

\* docs/01_reference_code_status.md 61: "Create + read paths work": every
\* create and every read is answered.
ReadsAnswered ==
  \A t \in Tasks :
    task[t].req.op \in {"createAccount", "getAccount"} ~> task[t].at = "idle"
=============================================================================
