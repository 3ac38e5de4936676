-------------------------- MODULE OwnershipRegistry --------------------------
(***************************************************************************)
(* What a ledger of ownable things promises, with no stores, hashes or     *)
(* requests: everything has one owner, ownership starts with a mint and    *)
(* moves only from the present owner, and every move is on record.         *)
(***************************************************************************)
EXTENDS Naturals, Sequences

CONSTANTS Owners, Nobody

VARIABLES
  owner, \* the present owner of the n-th thing
  trail  \* the moves of the n-th thing, oldest first

registryVars == <<owner, trail>>

Move == [from : Owners \cup {Nobody}, to : Owners]

RegistryInit ==
  /\ owner = <<>>
  /\ trail = <<>>

\* A new thing appears with its first owner.
Mint(o) ==
  /\ owner' = Append(owner, o)
  /\ trail' = Append(trail, <<[from |-> Nobody, to |-> o]>>)

\* The present owner hands the thing on, possibly to themselves.
Transfer(thing, to) ==
  /\ owner' = [owner EXCEPT ![thing] = to]
  /\ trail' = [trail EXCEPT ![thing] =
                 Append(@, [from |-> owner[thing], to |-> to])]

RegistryNext ==
  \/ \E o \in Owners : Mint(o)
  \/ \E thing \in DOMAIN owner, to \in Owners : Transfer(thing, to)

RegistrySpec == RegistryInit /\ [][RegistryNext]_registryVars
=============================================================================
