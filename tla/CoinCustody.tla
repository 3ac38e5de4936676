----------------------------- MODULE CoinCustody -----------------------------
(***************************************************************************)
(* What the reference API promises about value: a coin is issued into an   *)
(* open account and from then on lies in exactly one account, moves from   *)
(* there to another open account in one step, or is gone for good.         *)
(***************************************************************************)
EXTENDS Naturals, Sequences

VARIABLES
  opened, \* the number of accounts opened
  custody \* coin -> the accounts it lies in; coins in the order of issue

custodyVars == <<opened, custody>>

Open == 1 .. opened

CustodyInit == opened = 0 /\ custody = <<>>

OpenAccount ==
  /\ opened' = opened + 1
  /\ UNCHANGED custody

Issue(account) ==
  /\ custody' = Append(custody, {account})
  /\ UNCHANGED opened

Move(coin, account) ==
  /\ custody[coin] # {}
  /\ custody' = [custody EXCEPT ![coin] = {account}]
  /\ UNCHANGED opened

Vanish(coin) ==
  /\ custody' = [custody EXCEPT ![coin] = {}]
  /\ UNCHANGED opened

CustodyNext ==
  \/ OpenAccount
  \/ \E account \in Open : Issue(account)
  \/ \E coin \in DOMAIN custody, account \in Open : Move(coin, account)
  \/ \E coin \in DOMAIN custody : Vanish(coin)

CustodySpec == CustodyInit /\ [][CustodyNext]_custodyVars
=============================================================================
