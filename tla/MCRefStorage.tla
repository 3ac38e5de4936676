---------------------------- MODULE MCRefStorage ----------------------------
(***************************************************************************)
(* Small instances of the reference API's store for TLC.                   *)
(***************************************************************************)
EXTENDS RefStorage

MCAddresses == {"alice", "bob"}

\* What comes before any use of an account, for one user and for two.
Setup(addresses, owners) ==
  [op : {"createUser"}, addr : addresses]
    \cup [op : {"createManager"}]
    \cup [op : {"createSupported"}, manager : {1}]
    \cup [op : {"createAccount"}, user : owners, manager : {1}]

Read == [op : {"getAccount"}, user : {1}, account : {1}]

Mint(account) == [op |-> "createAsset", user |-> 1, account |-> account]

Transfer(account, addr, peerAccount) ==
  [op |-> "transfer", user |-> 1, account |-> account, asset |-> account,
   addr |-> addr, peerAccount |-> peerAccount]

\* Two users of whom the first mints, reads and sends the coin to bob, naming
\* an account that may be bob's, the first user's or not there at all.
MCRequests ==
  Setup(MCAddresses, 1 .. 2) \cup Read
    \cup {Mint(1), Transfer(1, "bob", 1), Transfer(1, "bob", 2)}

\* One user with two accounts whose transfers cross.
MCAlice == {"alice"}

MCCrossingRequests ==
  Setup(MCAlice, {1}) \cup Read
    \cup {Mint(1), Mint(2), Transfer(1, "alice", 2), Transfer(2, "alice", 1)}

\* Users that ask for addresses, and nothing else.
MCUserRequests == [op : {"createUser"}, addr : MCAddresses]

\* What it takes to read an account while another is created.
MCAccountRequests == Setup(MCAlice, {1}) \cup Read
=============================================================================
