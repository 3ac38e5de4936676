------------------------------ MODULE MCStandin ------------------------------
(***************************************************************************)
(* Small instances of the stand-in service for TLC.                        *)
(***************************************************************************)
EXTENDS StandinProperties

MCAddresses == {"alice", "bob", "Bad Name"}
MCValidAddresses == {"alice", "bob"}
MCHolders == 1 .. MaxAccounts
MCClassNames == {"PROP-DEED", "USDC"}

\* The gated class is the seeded one; clients register ungated ones.
MCDefinitions == [requiresKYC : {FALSE}, metadata : Metadata]

\* A subject.id never set by the client, and one set to the first account.
MCPlainSubjects == {NoSubject}
MCSubjects == {NoSubject, 1}

\* No step depends on the last reply and the properties read only accepted
\* ones, so states that differ in another reply are explored once.
StoresAndAcceptance ==
  <<storeVars, clock, IF reply.status = 202 THEN reply ELSE <<>>>>
=============================================================================
