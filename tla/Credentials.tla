---------------------------- MODULE Credentials ----------------------------
(***************************************************************************)
(* The credential issuer (standin-service/src/credentials.ts): issue,      *)
(* verify, revoke, and the lookup the compliance hook uses.                *)
(*                                                                         *)
(* The store is a JavaScript Map keyed by a fresh id.  Its insertion order *)
(* is what validCredentialFor depends on, so it is a sequence and the id   *)
(* is the position.  An Ed25519 signature is idealised: the proof is the   *)
(* very content that was signed, and it verifies exactly when the document *)
(* still has that content.                                                 *)
(***************************************************************************)
EXTENDS Naturals, Sequences

CONSTANTS
  Holders,   \* the DIDs a credential may be issued to
  Subjects,  \* the subject.id a request may carry, NoSubject when it has none
  Lifetime,  \* validity of a credential in clock ticks (one year in the code)
  MaxCreds,  \* bound on the credentials issued
  MaxClock   \* bound on the clock

NoSubject == 0

ASSUME CredentialsAssumption ==
  /\ Holders \subseteq Nat \ {NoSubject}
  /\ Subjects \subseteq Nat
  /\ Lifetime \in Nat
  /\ MaxCreds \in Nat
  /\ MaxClock \in Nat

VARIABLES
  creds, \* the store: issued credentials in insertion order
  clock  \* Date.now()

credentialVars == <<creds, clock>>

\* The verifiable credential: the part the issuer signs.
Vc == [id : Nat, subject : Nat, validUntil : Nat]

Credential ==
  [id : Nat, holder : Holders, vc : Vc, proof : Vc,
   status : {"active", "revoked"}]

CredentialsTypeOK ==
  /\ creds \in Seq(Credential)
  /\ Len(creds) <= MaxCreds
  /\ clock \in 0 .. MaxClock

CredentialsInit ==
  /\ creds = <<>>
  /\ clock = 0

\* The subject spread comes after the id, so a subject.id in the request wins.
CredentialSubject(holder, subject) ==
  IF subject = NoSubject THEN holder ELSE subject

\* Mutation of IssueCredential: the credential is filed under its subject.
IssueToSubject(holder, subject) ==
  LET id == Len(creds) + 1
      vc == [id |-> id,
             subject |-> CredentialSubject(holder, subject),
             validUntil |-> clock + Lifetime]
  IN  /\ id <= MaxCreds
      /\ creds' = Append(creds, [id |-> id, holder |-> subject, vc |-> vc,
                                 proof |-> vc, status |-> "active"])
      /\ UNCHANGED clock

IssueCredential(holder, subject) ==
  LET id == Len(creds) + 1
      vc == [id |-> id,
             subject |-> CredentialSubject(holder, subject),
             validUntil |-> clock + Lifetime]
  IN  /\ id <= MaxCreds
      /\ creds' = Append(creds, [id |-> id, holder |-> holder, vc |-> vc,
                                 proof |-> vc, status |-> "active"])
      /\ UNCHANGED clock

\* Mutation of RevokeCredential: revoking also ends the validity period that
\* is written in the signed part.
RevokeRewritesVc(id) ==
  /\ creds' = [creds EXCEPT ![id].status = "revoked",
                            ![id].vc.validUntil = clock]
  /\ UNCHANGED clock

\* Mutation of RevokeCredential: a second revocation toggles the status back.
RevokeToggles(id) ==
  /\ creds' = [creds EXCEPT ![id].status =
                 IF @ = "active" THEN "revoked" ELSE "active"]
  /\ UNCHANGED clock

\* The status is changed in the store; the signed part is left alone.
RevokeCredential(id) ==
  /\ creds' = [creds EXCEPT ![id].status = "revoked"]
  /\ UNCHANGED clock

Tick ==
  /\ clock < MaxClock
  /\ clock' = clock + 1
  /\ UNCHANGED creds

-----------------------------------------------------------------------------
\* verifyVcSignature: what anyone can check offline.
SignatureValid(credential) == credential.proof = credential.vc

\* Mutation of StatusOf: the presented document's own status is believed.
StatusAsPresented(credential) == credential.status

\* The store is authoritative; the document's status counts only when the
\* store does not know the id.
StatusOf(credential) ==
  IF credential.id \in DOMAIN creds
    THEN creds[credential.id].status
    ELSE credential.status

NotExpired(credential) == clock < credential.vc.validUntil

\* verifyCredential on a document that a client presents.
Valid(credential) ==
  /\ SignatureValid(credential)
  /\ StatusOf(credential) # "revoked"
  /\ NotExpired(credential)

CredentialsForHolder(did) == {c \in DOMAIN creds : creds[c].holder = did}

\* Mutation of ValidCredentialsFor: having a credential is enough.
AnyCredentialFor(did) == CredentialsForHolder(did)

ValidCredentialsFor(did) == {c \in CredentialsForHolder(did) : Valid(creds[c])}

\* Mutation of ValidCredentialFor: the latest valid credential is taken.
LatestValidCredentialFor(did) ==
  CHOOSE c \in ValidCredentialsFor(did) :
    \A other \in ValidCredentialsFor(did) : other <= c

\* validCredentialFor: the first valid one in insertion order.
ValidCredentialFor(did) ==
  CHOOSE c \in ValidCredentialsFor(did) :
    \A other \in ValidCredentialsFor(did) : c <= other

-----------------------------------------------------------------------------
\* The issuer on its own, as its endpoints drive it.
CredentialsNext ==
  \/ \E holder \in Holders, subject \in Subjects :
       IssueCredential(holder, subject)
  \/ \E id \in DOMAIN creds : RevokeCredential(id)
  \/ Tick

CredentialsSpec == CredentialsInit /\ [][CredentialsNext]_credentialVars

\* A client's copy from before the revocation does not verify, whatever status
\* it carries: the store is asked, not the document (credentials.ts 201-204).
StaleCopyRejected ==
  \A c \in DOMAIN creds, status \in {"active", "revoked"} :
    creds[c].status = "revoked" => ~Valid([creds[c] EXCEPT !.status = status])

\* Whatever happens to a stored credential, the issuer's signature on it goes
\* on verifying: revocation and expiry live outside what was signed
\* (credentials.ts 230-238, 249-255).
SignatureOutlives == \A c \in DOMAIN creds : SignatureValid(creds[c])

\* A credential that stopped verifying never verifies again: revoking twice is
\* revoking once, and there is no way back from expiry (credentials.ts 193-255).
InvalidForGood ==
  [][\A c \in DOMAIN creds : ~Valid(creds[c]) => ~Valid(creds[c])']_credentialVars

\* The credential a mint would embed stays the same until it is itself
\* revoked or expires: issuing another one does not change it
\* (credentials.ts 241-243).
AuthorisationStable ==
  [][\A d \in Holders : \A c \in ValidCredentialsFor(d) :
       c = ValidCredentialFor(d) /\ Valid(creds[c])'
         => c = ValidCredentialFor(d)']_credentialVars

\* docs/04_credentials.md section 3: credentialSubject.id "is set to the
\* holder's DID".
SubjectIsHolder ==
  \A c \in DOMAIN creds : creds[c].vc.subject = creds[c].holder
=============================================================================
