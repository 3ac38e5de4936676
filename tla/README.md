# Finlabs Explore: the verification project

TLA+ models of the Finternet stand-in service, of the wallet page that uses it
and of the reference API it stands in for, checked with TLC and, for the
parts said below, proved with TLAPS.

## 1. The system

The repository runs one service and one page. `standin-service/` is a Node
server that keeps everything in memory: identities, credentials, token classes,
tokens, and a ledger with Merkle proofs. `app/` is a single-page wallet that
walks one user through *identity, credential, token, transfer, proof* by
calling the service. `reference/` holds two earlier Rust programs of the
upstream project, and `specs-vendor/` the upstream schemas, which the service
loads at start to validate what it builds.

| component | state | operations | talks to |
|---|---|---|---|
| account store (`store.ts`) | `byAddress`, `byToken`, `byKeyId` | create an account; look up by address, access token, key id | called by the handlers |
| credential issuer (`credentials.ts`) | `store`: credential id to credential token, in insertion order | issue, verify, revoke, first valid credential of a holder | called by the handlers and by the mint |
| token class registry (`tokenclasses.ts`) | `classes`, seeded with the gated `PROP-DEED` | register, look up | called by the handlers and by the mint |
| token store (`tokens.ts`) | `byId`, `ownerToIds` | mint with the compliance hook, transfer, list by owner | reads classes and credentials, writes the ledger |
| unified ledger (`ledger.ts`) | `txLogs`, `tokenTxById`, `historyByToken`, `leaves` | record a mint or a transfer, fetch transactions and histories, Merkle tree and inclusion proof | called by the token store and the handlers |
| request handlers (`handlers.ts`, `envelope.ts`, `app.ts`) | none | one handler per endpoint: authenticate, check, call the stores, validate and send an envelope | the five stores |
| start-up (`spec.ts`, `config.ts`, `server.ts`) | compiled schemas | load the schemas, start the listener | |
| service cryptography (`crypto.ts`) | none | Ed25519, SHA-256, `did:key` | library calls |
| wallet page (`App.tsx`, `client.ts`) | session, message and signature, credential, minted token, held token, proof | register, sign, issue, verify, revoke, mint, transfer: each a chain of awaited requests | the service, over HTTP |
| browser cryptography (`app/src/lib/crypto.ts`) | none | fold a Merkle path, check signatures | |
| reference API (`reference/finternet-api`) | users, accounts, assets, token managers behind `tokio` read-write locks | create, read, mint and transfer assets | concurrent axum handlers |
| reference sandbox (`reference/finternet-sandbox`) | none of its own | traits, and stubs over a Solana program | external chain |

### What is hard here

* **Interleaving of clients.** Node runs a handler to its end, and none of the
  service's handlers awaits, so a request is one atomic step. What interleaves
  is requests: a credential can be revoked between the request that obtained it
  and the mint that relies on it, a token moved between two transfer requests,
  an address taken between a check and a registration.
* **Derived state kept by hand.** The owner index repeats the tokens' owner
  identities; a token's commitment repeats the head of its history; leaves,
  log and histories are three structures written by separate statements; a
  token's claim is a reference into the credential store while its commitment
  is a digest taken at mint.
* **Several sources of one truth.** Revocation lives in the issuer's store;
  copies of the credential carry a signature that stays valid.
* **Partial failure.** Schema validation throws in the middle of a mint, and a
  class is stored before the reply about it is validated.
* **Boundaries.** Odd levels of the Merkle tree, the tree of one leaf, the
  second transfer of a token, a transfer to oneself.
* **The page.** Its handlers are asynchronous and race with each other, with
  "start over" and with other clients of the service.
* **The reference API.** Real concurrency: checks and inserts under different
  locks, read locks taken while one is held, a transfer in two steps.

`PROJECT.json` lists each hazard with its line and the properties that would
catch it, or says why none does.

### What makes each component correct

* *Accounts*: an access token and a key id answer for their account for good.
* *Credentials*: a verdict follows the issuer's store and never the copy
  presented; revocation and expiry are final and leave the signature alone.
* *Classes*: a class never changes once registered, so the policy a token was
  minted under is the policy it has.
* *Tokens*: one owner; the index agrees; only the owner hands on; no gated
  token without a valid credential of its owner at that moment.
* *Ledger*: only extended; everything recorded can be found and proven; every
  history is one linked chain, with the token at its head.
* *Reference API*: an address belongs to one user; what a handler checked still
  holds when it acts on it; a transfer neither doubles nor loses an asset; every
  request is answered.
* *Page*: what it shows belongs to the account of the session, and what it says
  (a signature or a credential is valid, a token is yours, this is the new
  owner) agrees with the service once its requests are done; and they do get
  done.
* *Proof*: the path the service computes folds, in the page's code, to the
  service's root, for every ledger size and leaf, and for no other leaf.

## 2. The modules

| module | models | state |
|---|---|---|
| `Accounts` | `store.ts` | `byAddress`, `byToken`, `byKeyId` |
| `Credentials` | `credentials.ts` | `creds`, `clock` |
| `TokenClasses` | `tokenclasses.ts`, and the schema check a mint makes on a class | `classes` |
| `Ledger` | `ledger.ts` without the Merkle tree | `txs`, `historyByToken`, `leaves` |
| `Tokens` | `tokens.ts`; extends the three above | `byId`, `ownerToIds` |
| `Standin` | `handlers.ts` with `envelope.ts` and `app.ts`: the service | all of the above and `reply` |
| `OwnershipRegistry` | nothing: the abstract specification of the service's tokens | `owner`, `trail` |
| `StandinProperties` | the service's properties and the refinement mapping | |
| `MerkleProof` | `merkleLevels` and `getProof` of `ledger.ts`, `foldMerkleProof` of the page | the loops' variables |
| `RwLocks` | `tokio::sync::RwLock`, external: fair, first come first served | `readers`, `writers`, `queue` |
| `RefStorage` | `imc/storage_impl.rs` and the handlers under `src/app` of the reference API | the maps, `task`, the locks |
| `CoinCustody` | nothing: the abstract specification of the reference API's cash | `opened`, `custody` |
| `WalletApp` | `App.tsx` and `client.ts`; extends `Standin` | `session`, `mintedId`, `page`, the handlers in flight `flow` and `searches`, and how the last search shown came (`lastShown`) |
| `MCStandin`, `MCCredentials`, `MCMerkleProof`, `MCRefStorage`, `MCWalletApp` | instances for TLC | |
| `StandinProofs` | the theorems about accounts, tokens and ledger of `Standin`, and their proofs | |
| `ComplianceProofs` | the theorems about its credentials, what a token keeps of one, and its replies; extends `StandinProofs` | |
| `RefStorageProofs` | the theorems about `RefStorage` and their proofs | |
| `MerkleProofs` | the theorems about `MerkleProof`'s loops and their proofs | |
| `MerkleRootProofs` | the theorems about the root, as the tree's definition has it; extends `MerkleProofs` | |
| `WalletProofs` | the lemmas about the page's handlers and searches: what each step does, what each handler may rely on; extends `ComplianceProofs` | |
| `WalletPageProofs` | the theorems about what the page shows; extends `WalletProofs` | |
| `WalletSearchProofs` | the theorems about what the transfer section offers; extends `WalletPageProofs` | |

How the code is read:

* **Identifiers.** What the code draws with `randomUUID` or derives from a new
  key pair (DID, key id, access token, credential, token and transaction ids)
  is the position in the order of creation: the draw contributes freshness and
  nothing else. `0` stands for an id no store records.
* **Maps.** A JavaScript `Map` that is only added to is a sequence, which keeps
  the insertion order that `find` depends on (`validCredentialFor`).
* **Handlers.** Each of the handlers is one action of `Standin`. One that
  changes state has the `return fail(...)` lines as disjuncts, in their order,
  and the success at the end. One that only reads is a disjunct of `Read`: it
  changes nothing, and of its answer the ids of the records found are kept
  (`found`). `reply` is the last answer. Only `credentialIssuer`, which answers
  with a constant, is left out.
* **Schemas.** The vendored schemas are not modelled, their verdict is:
  `schemaValid` and `nameValid` are chosen freely where the request decides
  them, and a class carries which schemas its metadata passes
  (`TokenClasses!Metadata`), because a class that the reply schema rejects is
  stored all the same.
* **Cryptography** is ideal. A signature is valid exactly when document and
  proof still agree. SHA-256 is injective: a state commitment *is* the sequence
  of what was folded into it, a leaf hash *is* the leaf's data, and
  `MerkleProof` is parameterised by an injective `HashPair`.
* **Time** is `clock`, moved by `Tick` between requests; expiry compares with it.
* **Threads.** The reference API really runs handlers in parallel. In
  `RefStorage` each is a record in `task`: the request, the section it is at and
  whether it is on its way (`out`), queued (`waiting`) or holds the guard
  (`in`). One action per section, from the guard to its drop; `Ask` and `Enter`
  take the locks of `RwLocks`. `get_account` is the one handler that keeps a
  guard while it asks for others.
* **Dropped handlers.** The server drops the future of a request whose client
  went away, which takes effect where it waits: `Disconnect`. `lostCoins` and
  `lostAddrs` record what only that handler knew.
* **Cash.** Each amount minted is a coin that keeps its identity when a transfer
  gives the asset a new id, so that conservation can be seen.
* **Awaits.** A handler of the page is a record in `flow`: the request it awaits,
  whether the service has served it and with what result. A click sends the
  first request, `Serve` runs the service's action, and the handler's next
  action takes the answer, sets state and sends the next request. The render
  and the effects that follow a state change belong to that step. `Lose` fails
  a request before or after it is served. The three requests of the
  `Promise.all` after a transfer are one, `fetch`: the proof and the log of a
  transaction never change, the token's owner does. The list of tokens may be
  asked for several times at once, so `searches` is apart, in sending order.
* **Mounts.** A section's state goes with the section. `mount` numbers the
  sessions, a handler belongs to one of them, and what it sets is ignored when
  that one is over (`Show`), as React does; `mintedId` and `session` are the
  state of `App` and are set in any case.
* **The world around the page.** Other clients register the recipient's address
  and hand on the tokens they were given. The clock stands still, since a
  session is short against a credential's year, and only the page's own revoke
  button revokes.
* **Signing.** The signing section signs with the account's key and depends on
  nothing in the other sections, nor they on it. `uses`, fixed at the start, says
  which sections a user works with, so that it is explored beside the others and
  not interleaved with them. What is typed is one of three texts: the section's
  own, another one, and none.
* **Left out**: timestamps, anchors, names, free metadata, wording of errors; in
  the reference API requests that read in one section, and the handlers that
  answer `NotImplemented`. (One of the former, `list_token_manager`, hands out
  the public key as `token_manager_id`, `storage_impl.rs` 278.)

`OwnershipRegistry` says what any ledger of ownable things promises: a thing
gets an owner when minted, only changes hands from the present owner, and each
move is on record. `StandinProperties!Registry` maps the owner of the n-th
thing to the owner identity of token n, and its trail to the `from` and `to`
of the transactions in its history.

`CoinCustody` says what an API that keeps cash promises: a coin lies in at most
one account, and moves between open accounts in one step or is gone. The code
does not move in one step: it finds the recipient, takes the asset out of one map
and puts it into another under a new id, each in a section of its own.
`RefStorage!Custody` maps a coin in the hands of a handler to the account it is
bound for, so the section that takes the asset out is the move and the one that
puts it back is invisible; a coin vanishes only with the handler that held it.

## 3. The runs

| run | instance | states | shows |
|---|---|---|---|
| `standin` | 2 accounts (a third address is malformed), 2 credentials, clock 0..1, 2 tokens, 3 transactions, 2 classes | about 73,000, 2 min | the sixteen properties of the service below |
| `merkle` | up to 5 leaves, every leaf, genuine, forged, and another transaction's in its place | 25,412 | proof and fold agree; the loops descend and end |
| `ref_store` | 2 handlers, 2 users, 2 accounts, 1 manager, 3 asset ids, 1 disconnect | about 971,000, 0.5 min | the safety of the reference API's store, and its transfers as single moves |
| `ref_progress` | 2 handlers, 1 user, 2 accounts, 4 asset ids, 1 disconnect | about 223,000, 1 min | nobody waits in a circle and every handler ends, with one exception |
| `wallet` | 2 addresses of the user, 1 recipient, 2 sessions, 1 credential, 1 token, 3 transactions, 1 failing request | about 1,491,000, 3 min | the page shows what is its own and what is true |
| `page_progress` | 1 address of the user, 1 recipient, 1 session, 1 token, 2 transactions, 1 failing request | 38,866, 1.5 min | no section of the page stays busy |
| `mint_retires_proof` | 1 session, 2 tokens, 3 transactions | violation | a transfer's proof outlives the mint that should retire it |
| `stale_search` | 1 session, 1 token, 2 transactions, no failing request | violation | the late answer of an older search offers a token that has left |
| `unique_address` | 2 handlers that create users | violation | two users with one address |
| `reads_answered` | 2 handlers, 1 user, 2 accounts | violation | a read and a create that wait for each other for ever |
| `mint_receipt` | as `standin` | violation | an accepted mint's `txId` is in no log |
| `subject_is_holder` | the credential store alone: 2 holders, 1 credential, subjects set by the client | violation | a credential about another DID than its holder's |

Why these bounds are enough for the cases that matter. Two accounts, two
tokens and three transactions allow a mint and two transfers of one token
(there and back, or to oneself), and two tokens of one owner with a transfer
between the mints. Two credentials of lifetime 1 and a clock that ticks once
allow a mint under each of two credentials, with either revoked or expired
before or after, and let the first valid one of a holder be revoked or expire
while the second remains. Both classes are there, gated and plain, with a plain
one of every kind of metadata. Five leaves give trees of height 0 to 3, odd levels at
the bottom, in the middle and on two levels at once. Two handlers are what it
takes for every race of the reference API: two registrations of one address,
two transfers of one asset, transfers that cross, a read between whose two
locks a writer queues. Requests name users, accounts and assets before they
exist, and a destination account that belongs to someone else. In `wallet`, two
sessions put handlers of the first beside the second; three transactions are a
mint, the transfer, and what the recipient does with the token before the page
asks for its owner; one failing request is enough for each request to be the
one that fails. One token is enough for what the page shows of a token; the
question that needs two is asked by `mint_retires_proof`. `page_progress` has one
session, because a handler's end depends on nothing a second session adds, and
starting over is among its steps.

The `standin` run has a `VIEW`: no step depends on `reply`, and the one property
that reads it concerns accepted replies, so states that differ in any other
reply are explored once. `CHECK_DEADLOCK FALSE` is set in the service runs
because at the bounds every counter is exhausted; the service itself answers for
ever. It is set in the runs of the page and of the reference API for the same
reason; in the latter, handlers that wait for each other show as a violation of
`OnlyGetAccountBlocks` or `ReadsAnswered`. The `wallet` and `page_progress` runs
leave `reply` out of their view altogether, since no step or property there reads
it: what a handler of the page takes from an answer is in `flow` and `searches`.
In `wallet` the two addresses the user may choose are symmetric: they are model
values, no step or property tells them apart, and all its properties are
invariants. The other runs declare no symmetry: addresses are few, holders are
numbers, and symmetry is not sound for liveness.

Properties of `standin`:

* `AccountsKept`: no registration takes over an address, token or key.
* `OwnerIndex`: index and owner identities never disagree.
* `ChainLinked`, `HeadMatches`: each history is one chain from its mint on,
  with the token at its head.
* `LedgerComplete`, `AppendOnly`: every transaction is in its token's history
  and has its own leaf; nothing recorded ever changes.
* `ComplianceAtMint`, `ClassPolicyHolds`: a gated token appears only while its
  owner holds a valid credential, and carries it wherever it goes; no later
  registration changes what its class asks for.
* `ClaimsCommitted`: what the chain committed to is what the token still
  carries, signature included, whatever became of the credential.
* `AcceptedMeansDone`: the reply of a transfer can be acted on at once.
* `StaleCopyRejected`: a copy from before the revocation is still refused, though
  its signature (`SignatureOutlives`) stays good.
* `InvalidForGood`: no request and no passing of time makes a credential valid
  again.
* `AuthorisationStable`: the credential that authorises a holder's mints is
  replaced only when it is invalid itself.
* `ImplementsRegistry`: the refinement.

Of `merkle`: `ProofFolds`, `TamperDetected`, `ProofShort` (logarithmic length),
`RootCommits` (the root served is that of the tree by its definition, and was
the ledger's root at no smaller size), `LoopsDescend` (each iteration of the
three loops leaves fewer of them) and `ProofDelivered` (so they end).

Of `ref_store`: `AddressBook` (the set of addresses and the map of users agree,
up to a request between the two and an address lost with a dropped handler),
`AccountsSupported` (the support that was checked two locks earlier still
holds), `CoinsConserved` (each coin is in one asset, in the hands of one
handler, or lost with one that was dropped), `TransferAddressed` (an asset on
its way goes to an account of a user with the address the request named) and
`ImplementsCustody`, the refinement. Of `ref_progress`: `SomeoneGoesOn` (whoever
waits for a lock waits for a handler that can go on, with one `get_account`
between the two at most, unless a `get_account` blocks itself), `HandlersDescend`
(no handler comes back to a section it has left, whatever its lookups find) and
`OnlyGetAccountBlocks`: every request is answered, with that one exception. The
last follows from the other two if who can go on, by the places in the queues
(`Ready`), has a step to take; a handler that is ready and has none would show
as a violation of it.

Of `wallet`: `Isolation` (a handler that outlives its session shows nothing in
the next), `SignedExactly` (the verdict below a signature is about the text shown
as signed and the session's key, whatever was typed while it was on its way),
`VerdictFollows` (a credential shown as valid without an error is valid, also
after a revocation whose answer or re-check was lost), `NewOwnerHonest` (the owner
shown with a proof had the token from the proven transfer on, though the
recipient may have handed it on), `HeldHonest` (once nothing is in flight, the
token offered is the session's own, but for two cases the code allows: the last
transfer ended in an error the page shows, or the answer of an older search came
last) and `MintOffered` (a token that was minted and never sent away is offered,
once a search has come back in order). Of `page_progress`: `HandlersEnd`.

Every property has a mutant in `PROJECT.json`: a definition changed as a
plausible bug would change it, under which TLC finds the property violated.

**Fairness.** `MerkleProof` has weak fairness of `Compute`, the steps
of its three loops. They are synchronous loops in one call each, which the
runtime always continues; nothing is assumed about when leaves are added or
proofs asked for. `RefStorage` has weak fairness of each handler's `Run`: the
runtime polls a task that can go on, and the lock's queue lets a waiting task in
when its turn comes. No client has to send anything or to go away. The page's
`FairWalletSpec` has weak fairness of serving a request that was sent, and of
going on with a handler or a search whose answer is there: a handler of the
service runs to its end and answers, and the browser runs the continuation of a
settled promise. Nothing makes the user click, other clients send, or a request
fail. `fetch` has no timeout in `client.ts`, so what `HandlersEnd` says rests on
every request being settled; a server that never answers would leave the button
disabled for ever. No client is obliged to send the service anything, so its own
specification has no fairness and no liveness is claimed for it.

## 4. Where the documents and the code differ

1. `specs-vendor/api/token-interfaces.yaml` calls an accepted reply's `txId` a "Transaction ID for
   tracking"; the mint's is drawn by the handler and known to no store
   (`handlers.ts` 217). That of a transfer is the ledger's.
2. `docs/04_credentials.md` says the credential subject's id is the holder's
   DID; a `subject.id` in the request replaces it (`credentials.ts` 129).
3. `error.rs` 51 of the reference API refuses an address with "Unique Address
   already exists"; `create_user` looks it up and enters it under two different
   locks and ignores what `insert` returns, so two requests at the same time
   both succeed (`storage_impl.rs` 42 and 46).
4. `docs/01_reference_code_status.md` 61 says "Create + read paths work";
   `get_account` reads the account map twice, the second time under its own
   guard (`storage_impl.rs` 148 and 185), and a `create_account` that queues
   between the two leaves both unanswered.
5. A comment in `App.tsx` (666) says "A new mint also retires the previous
   transfer's proof". The mint button stays enabled during a transfer; when the
   mint is answered first, the effect clears the proof before the transfer's
   answer sets it (713), and the new token's transfer form stays hidden behind
   the old proof.
6. Another comment there (653) says of asking the server what the user owns that
   "it stays honest after the token leaves us". The searches are neither
   cancelled nor numbered, and the page shows their answers in the order in
   which they arrive: that of a search served before the transfer may come after
   the transfer's own, and then the page offers a token that has left (659).

One more is noted without a run: the schema calls `stateVersion` a "Monotonically
increasing version number", and `recordTransfer` writes 2 every time
(`ledger.ts` 220); nothing in the program reads it.

## 5. What is proved

`StandinProofs` and `ComplianceProofs` prove all sixteen properties of the
`standin` run, `RefStorageProofs` all six of `ref_store` and two of the three of
`ref_progress`, `MerkleProofs` and `MerkleRootProofs` all of `merkle` but
`ProofDelivered`, and `WalletPageProofs` and `WalletSearchProofs` all seven of
`wallet`, for every set of addresses, classes, subjects, definitions,
requests, handlers and leaves and for every bound, under the assumptions named
in the modules: bounds are naturals, valid addresses are addresses, `PROP-DEED`
is a class, holders are the accounts' DIDs, no address is the empty one; of the
reference API, requests are of `RequestSpace` and at any time finitely many
handlers run; of the page, its addresses and the recipients' are valid ones, and
it names no subject. Three theorems about Merkle proofs have hypotheses about the
hash, explained below.

| theorem | statement |
|---|---|
| `AccountsAreKept` | `Spec => []AccountsKept` |
| `Typed` | `Spec => []TypeOK` |
| `OwnerIndexHolds` | `Spec => []OwnerIndex` |
| `LedgerIsComplete` | `Spec => []LedgerComplete` |
| `LedgerAppendOnly` | `Spec => AppendOnly` |
| `ChainIsLinked` | `Spec => []ChainLinked` |
| `HeadAlwaysMatches` | `Spec => []HeadMatches` |
| `RegistryImplemented` | `Spec => ImplementsRegistry` |
| `StaleCopiesRejected` | `Spec => []StaleCopyRejected` |
| `SignaturesOutlive` | `Spec => []SignatureOutlives` |
| `InvalidityIsFinal` | `Spec => InvalidForGood` |
| `AuthorisationIsStable` | `Spec => AuthorisationStable` |
| `ComplianceEnforced` | `Spec => ComplianceAtMint` |
| `PolicyAlwaysHolds` | `Spec => []ClassPolicyHolds` |
| `ClaimsStayCommitted` | `Spec => []ClaimsCommitted` |
| `AcceptedIsDone` | `Spec => []AcceptedMeansDone` |
| `RefStorageTyped` | `Spec => []TypeOK` (of `RefStorage`) |
| `AddressBookAgrees` | `Spec => []AddressBook` |
| `AccountsAreSupported` | `Spec => []AccountsSupported` |
| `CoinsAreConserved` | `Spec => []CoinsConserved` |
| `TransfersAreAddressed` | `Spec => []TransferAddressed` |
| `CustodyImplemented` | `Spec => ImplementsCustody` |
| `NobodyWaitsInACircle` | `Spec => []SomeoneGoesOn` |
| `HandlersOnlyDescend` | `Spec => HandlersDescend` |
| `MerkleTyped` | `Spec => []TypeOK` (of `MerkleProof`) |
| `ProofsFold` | `Spec => []ProofFolds` |
| `TamperIsDetected` | `Injective => (Spec => []TamperDetected)` |
| `ProofsAreShort` | `Spec => []ProofShort` |
| `LoopsAlwaysDescend` | `Spec => LoopsDescend` |
| `RootsCommit` | `Injective /\ LeavesAreNoPairs => (Spec => []RootCommits)` |
| `EqualRootsEqualLedgers` | with `Injective` and `LeavesAreNoPairs`, two ledgers of distinct leaves with one root are equal |
| `PageIsClient` | `WalletSpec => Spec` (of `Standin`) |
| `PageIsIsolated` | `WalletSpec => []Isolation` |
| `SignaturesExact` | `WalletSpec => []SignedExactly` |
| `VerdictsFollow` | `WalletSpec => []VerdictFollows` |
| `NewOwnersHonest` | `WalletSpec => []NewOwnerHonest` |
| `WalletIsTyped` | `WalletSpec => []WalletTypeOK` |
| `HeldTokensHonest` | `WalletSpec => []HeldHonest` |
| `MintsOffered` | `WalletSpec => []MintOffered` |

### The service

`StepEffect` first shows that a request either is refused, and
changes no store, or has exactly the effect of its last branch; from there on
the proofs need one case per successful effect. Two inductive invariants carry
the rest:

* `TypeInv` is `TypeOK`, `AccountsKept` and *every claim of a token is a stored
  credential*. The type alone is not inductive: the DID a token is minted to
  comes out of `byToken` through `byAddress`, so it is a DID only because the
  two maps agree, and `Claims` is a document only because the reference exists.
* `LedgerInv` is `TypeInv`, `LedgerComplete`, *an id no token has yet has no
  history*, and *every token's history is a chain with the token at its head*.
  `ChainLinked` alone is not inductive: a transfer is written with the token's
  own copy of the commitment and the caller's DID, so it continues the chain
  only because the token stands at the head of it; and a mint starts a chain
  only because the new id's history is empty.

`HistoryRecorded` says what recording does to histories, and `MovesRecorded`
the same under the refinement mapping; the refinement then follows from
`LedgerInv` before and after the step.

`ComplianceProofs` adds three invariants and one fact about steps:

* `CredentialInv` is `TypeInv` and `Filed`: *a stored credential is filed under
  its own id and signed as it stands*. Verification looks the presented copy up
  by the id it carries, so the verdict speaks of the right credential only
  because of it.
* `Kept` says that every step keeps the signed part and the holder of each stored
  credential, never reinstates a revoked one, and does not turn the clock back.
  `InvalidForGood` and `AuthorisationStable` follow: a first valid credential is
  displaced only by an earlier one, and no earlier one becomes valid.
* `ComplianceInv` is `LedgerInv`, `Filed`, the policy of each token said with its
  first transaction (*the credential it carries was held by whom it was minted
  to*), and *every link of its chain committed to the claims it carries*. The
  properties alone are not inductive: a transfer folds the claims of the token
  into the new commitment and changes the owner, so what was true of the owner
  at mint must be said of the history.
* `AcceptedMeansDone` follows from `LedgerInv` and `OwnerIndex`: the reply names
  the token's last transaction and owner only because the token stands at the
  head of its history.

### The reference API

`StepEffect` reduces the sections to a few moves: a handler that goes on, ends,
takes or gives back guards without storing anything, and one effect for each
section that stores. The invariants are:

* `StoreInv`: the maps are typed, and every handler is `Checked`: whatever it
  found out in an earlier section, under a lock it has long given back, still
  holds. No lock is needed for this, since users, managers' support and accounts
  are only added. `TransferAddressed` is a part of it; `AccountsSupported` and
  `AddressBook` follow with *a handler about to store a user has entered its
  address*.
* `CoinInv`: each coin is in exactly one asset, in one hand or lost, and no two
  assets share an id. It needs `StoreInv` for *a handler holds a coin exactly at
  `putAsset`*. Two transfers of one asset are both past their checks when the
  first takes it out; conservation holds because the second then finds nothing.
* `CustodyMoves`: under the mapping, taking the asset out is the move and putting
  it in is a stutter.
* `BoundsInv`: what is stored and what the handlers in flight will still create
  stay within the bounds together. It says that the guards of `Ask` suffice, and
  is where the handlers must be finitely many.
* `LockInv`: a writer is alone; who waits has one place, in the queue of the lock
  its section needs and with that section's mode; and a `get_account` that gives a
  guard back has one to give. Mutual exclusion of `RwLocks` is thus proved of the
  locks as the handlers use them.
* `CircleInv` is `StoreInv`, `BoundsInv` and `LockInv` with two more, and says why
  nobody waits in a circle. `HoldInv`: a guard is of the lock of the section its
  handler is in, and only a `get_account` past its first read has another, of its
  user's accounts. `WaitInv`: whoever waits has a place in the queue of its lock.
  From there `HeadOrHolder`: if neither the one that waits nor any before it is
  ready, somebody holds a guard of the lock. The holder is inside its section and
  so ready, or is a `get_account` at its second read. That one is ready, or blocks
  itself (`SecondGuard`, when both its reads are of the same map), or waits in its
  turn for a holder inside a section. Transfers that cross hold one map at a time,
  so they make no circle.
* `StepsLeft` counts the sections a handler has before it and what is left of
  the present one. `StepAhead` says that every section leads, whatever its lookup
  finds, to a later one of the same handler or to its answer.

### The Merkle proof

The two loops of the service and the one of the page are proved together, for
any number of leaves:

* `LevelsInv`: each level is followed by the level of its pairs, and the loop
  ends at a level of one node.
* `PathInv`: the k-th node of the path is the sibling of the leaf's ancestor on
  the k-th level, and `idx` names that ancestor. An ancestor is always inside
  its level, odd ones included; this is what the duplication of the last node
  rests on.
* `FoldInv`: the page's hash is the leaf's ancestor on the level the fold has
  reached. At the end that level is the root's. Nothing is assumed of the hash.
* `ForgedInv`: started from another hash, the fold stands elsewhere than at the
  ancestor, on every level. It needs `Injective`: no two pairs have one hash.
  SHA-256 is not injective; finding two such pairs is what is taken to be
  infeasible. The forged hash may be that of another transaction.
* `WidthInv`: how wide the l-th level is, between two multiples of a power of
  two. That powers of two double, at every exponent, is the lemma `PowersDouble`.
  The library's theorem of induction takes an operator and cannot be used here;
  `SetInduction` says the same of a set of numbers, and is derived from the
  pigeonhole principle for finite sets: were there a number outside the set,
  shifting the numbers below would put one interval into a smaller one.
* `LoopsDescend` needs all of the above together, `MerkleInv`: a level of more than
  one node is longer than the level of its pairs, and path and fold are bounded by
  the height.

`MerkleRootProofs` compares the levels the loop builds with the tree as it is
defined, row by row:

* `FirstRowsExist`, `FirstRowsAgree` and `RowsAre` show that the recursive
  definition of the rows has a solution, which gives the two equations the rest
  uses. `HeightIs` finds the row of one node, since rows shrink.
* `RootComputed`: the levels are the rows (`LevelsAreRows`), so the root served is
  that of the tree.
* `EqualRootsEqualLedgers`: from one root down, by `Injective`, each node of one
  tree is a node of the other, with the same two children. A leaf is no pair
  (`LeavesAreNoPairs`), so both trees reach their leaves on the same row and are
  equally high (`SameLeaves`). The ledgers have the same leaves, each once, so
  they are equally long (`SameLength`, again by pigeonhole); then all rows have
  the same widths, and are equal from the root down to the leaves (`SameRowBelow`).
  *Equally long* is what the duplication of an odd last node puts in doubt, and
  what needs the leaves to be distinct: a ledger that ended with its last
  transaction twice would have the root of the one without.
* `RootsCommit` is this for the ledger and its earlier lengths.

`LeavesAreNoPairs` is about what is hashed: for a leaf the JSON text of a
transaction (`ledger.ts` 109-114), for a pair two hashes put together (84-86),
and these are never the same text. That the texts' hashes differ too is, like
`Injective`, what is taken of SHA-256. Leaves are distinct because each
transaction carries a new id.

### The page

`PageIsClient`: whatever the page, the network and the other clients do, the
service takes a step of its own specification or none, so the theorems about
the service hold in the page's world. `ServiceInv` collects those the page
relies on (`LedgerInv`, `Filed` and `OwnerIndex`), and `Grows` says what a client
may carry over from one request to the next: what was recorded stays recorded.

`StepAssumed`, `HandlerStep` and a few forms of search steps (`Sent`, `Changed`,
`ShowSearch`) reduce the actions of the page to what they do to one handler or
one search; each invariant has a case per form.

* `FlowInv`: what every handler has got from the answers so far, and will use
  in its next request, is true, and stays true while it waits: the credential it
  verifies was issued to it, the transaction whose proof it fetches is its own.
* `SessionInv`: handlers and searches belong to sessions that have begun, and an
  account section is busy only while there is no session.
* `OwnInv` and `Exclusive`: the handlers of the mounted sections act for the
  present session, and no other client and no handler of an earlier session
  holds its access token, nor the one that an account section has just been
  given. `Isolation` alone is not inductive: an old handler's answer is kept out
  only because it is not mounted, and the old session's effects because its
  token is another one.
* `PageInv`: each id the page shows stands in the relation to the session that
  the section claims: issued to, minted by, received by, sent by.
  `NewOwnerHonest` comes from its part about the proof.
* `CredentialPageInv`: a shown "valid" is true, or an error is shown beside it,
  or a handler is about to replace it. A revocation that took effect and whose
  answer was lost is the case that needs the second.
* `SignInv`: signature and text shown as signed are replaced together.

The searches overtake one another, and three more invariants say when that
does no harm. `Covered(i)` says that a search of the mounted section was sent
after the i-th, so its answer is still to come.

* `RefreshInv`: a transfer section is busy with its refresh exactly while one
  search of its own is in flight.
* `HeldInv`: a token that is shown, or found by a search in flight, but has left
  the session, is `Excused` (its transfer is under way, or ended in an error the
  page shows) or `Covered`. It needs `Exclusive`: a token of the session leaves
  only by the session's own transfer, whose own refresh is sent afterwards.
  Late answers are left out of it, and these are what `stale_search` shows to go
  wrong.
* `MintFresh` and `OfferInv`: a token newly reported to `App` is another one than
  before, so the effect that asks for the holdings runs; and an empty answer from
  before the mint is covered by that search.

The inductive invariants were checked by TLC on the `wallet` instance before they
were proved.

## 6. What is only model-checked, and what is not modelled

Only checked by TLC:

* `ProofDelivered`, `OnlyGetAccountBlocks` and `HandlersEnd`: liveness under
  fairness, beyond the prover. What the first two rest on is proved: the loops
  descend (`LoopsAlwaysDescend`), handlers descend (`HandlersOnlyDescend`), and
  somebody can always go on (`NobodyWaitsInACircle`). The step from these to
  liveness needs `ENABLED` and is left to the runs.

Not modelled:

* start-up and the loading of schemas (`spec.ts`, `config.ts`, `server.ts`): a
  file is read once, before any request, and a failure ends the process. What the
  compiled schemas decide about a request is a parameter of the actions;
* the mathematics of Ed25519, SHA-256 and `did:key`, and the encodings in the two
  `crypto.ts`: pure functions over library calls;
* `app/src/lib/types.ts` and the reference API's `types.ts`: declarations only;
* the reference sandbox, whose bodies are mostly `todo!()` over an external
  chain, and the vendored specifications, which are not this program's code;
* the `u64` sums of `get_account`: a sum that wraps is shown in one reply and
  decides nothing that is stored, and the models have coins where the code has
  amounts;
* a repeated draw of a five-character id: every map would need ids that are not
  fresh, and the code has no answer to one but to overwrite; that this is wrong
  needs no model checker, and how likely it is none can say;
* of the page, what it renders beside the state above: the issuer's name, the
  class next to the buttons, wording. The progress rail is `Journey`, a function
  of the sections' state; the switch that tampers with a leaf is the forged leaf
  of `MerkleProof`.

## 7. The plan

Done: all the modules of section 2, their runs, the two refinements, and the
theorems of section 5.

What could follow:

1. The page as an implementation of something smaller: an abstract wallet whose
   one holding moves from *minted* to *sent*, with the transfer's handler mapped
   to one step, where `transact` is served; the theorems above give most of it.
2. What the findings leave of their claims: that `mint_retires_proof` and
   `stale_search` are the only ways in which the transfer section can go wrong,
   as action properties of the page, first checked and then proved.
