------------------------------ MODULE Accounts ------------------------------
(***************************************************************************)
(* The in-memory account store (standin-service/src/store.ts).             *)
(*                                                                         *)
(* The n-th call of createAccount draws a key pair, a key id and an access *)
(* token that were never drawn before; only their freshness matters, so    *)
(* all three are the number n, each in a map of its own.  Names, entity    *)
(* types, key material and creation times are left out.                    *)
(***************************************************************************)
EXTENDS Naturals, Sequences

CONSTANTS
  Addresses,      \* the strings a request may carry as an address
  ValidAddresses, \* those that match ^[a-z0-9_-]+$
  MaxAccounts     \* bound on the accounts created

ASSUME AccountsAssumption ==
  /\ ValidAddresses \subseteq Addresses
  /\ MaxAccounts \in Nat

VARIABLES
  byAddress, \* address -> account, a partial function
  byToken,   \* access token -> address; the n-th token is position n
  byKeyId    \* key id -> address; the n-th key id is position n

accountVars == <<byAddress, byToken, byKeyId>>

Dids == 1 .. MaxAccounts

Account == [did : Dids, keyId : Dids]

AccountsTypeOK ==
  /\ DOMAIN byAddress \subseteq Addresses
  /\ byAddress \in [DOMAIN byAddress -> Account]
  /\ byToken \in Seq(Addresses)
  /\ byKeyId \in Seq(Addresses)
  /\ Len(byToken) <= MaxAccounts
  /\ Len(byKeyId) = Len(byToken)

AccountsInit ==
  /\ byAddress = <<>>
  /\ byToken = <<>>
  /\ byKeyId = <<>>

AddressTaken(a) == a \in DOMAIN byAddress

\* getByToken: undefined unless the token was handed out by createAccount.
LoggedIn(token) == token \in DOMAIN byToken
GetByToken(token) == byAddress[byToken[token]]

GetByKeyId(keyId) == byAddress[byKeyId[keyId]]

\* Mutation of CreateAccount: the key id is not entered in its map.
CreateWithoutKeyId(a) ==
  LET n == Len(byToken) + 1
  IN  /\ n <= MaxAccounts
      /\ byAddress' = [x \in DOMAIN byAddress \cup {a} |->
                         IF x = a THEN [did |-> n, keyId |-> n] ELSE byAddress[x]]
      /\ byToken' = Append(byToken, a)
      /\ UNCHANGED byKeyId

\* Map.set on each of the three maps.  The caller has checked the address;
\* the store itself would overwrite an account that has the same one.
CreateAccount(a) ==
  LET n == Len(byToken) + 1
  IN  /\ n <= MaxAccounts
      /\ byAddress' = [x \in DOMAIN byAddress \cup {a} |->
                         IF x = a THEN [did |-> n, keyId |-> n] ELSE byAddress[x]]
      /\ byKeyId' = Append(byKeyId, a)
      /\ byToken' = Append(byToken, a)
=============================================================================
