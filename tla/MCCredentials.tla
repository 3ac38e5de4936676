---------------------------- MODULE MCCredentials ----------------------------
(***************************************************************************)
(* Small instances of the credential issuer for TLC.                       *)
(***************************************************************************)
EXTENDS Credentials

MCHolders == {1, 2}
MCSubjects == {NoSubject, 1}
=============================================================================
