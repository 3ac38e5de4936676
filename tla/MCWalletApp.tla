----------------------------- MODULE MCWalletApp -----------------------------
(***************************************************************************)
(* Small instances of the wallet page and the service for TLC.             *)
(***************************************************************************)
EXTENDS WalletApp

MCAddresses == OwnAddresses \cup Recipients
MCHolders == 1 .. MaxAccounts
MCSubjects == {NoSubject}
MCClassNames == {PropDeed}
MCDefinitions == {}

\* What the signing section starts with, another text, and none.
MCMessages == {"transfer", "edited", ""}

\* What the signing section does depends on nothing in the other sections, so
\* it is explored next to them and not interleaved with them.
AllButSign == Sections \ {"sign"}
SignOrOther == {AllButSign, {"account", "sign"}}
Other == {AllButSign}

\* The user's addresses are model values and no step tells them apart.
OwnAddressSymmetry == Permutations(OwnAddresses)

\* No step depends on the last reply of the service.
WithoutReply ==
  <<storeVars, clock, appVars, flow, searches, netVars, lastShown>>
=============================================================================
