---------------------------- MODULE TokenClasses ----------------------------
(***************************************************************************)
(* The registry of token classes (standin-service/src/tokenclasses.ts).    *)
(*                                                                         *)
(* Of a class the model keeps the compliance flag and whether its free     *)
(* form metadata fits the schemas it meets later: an over-long symbol      *)
(* passes the register reply but no token built from it passes the token   *)
(* schema, and decimals above 18 fail the register reply as well.  An      *)
(* incomplete definition has a blank name or standard.                     *)
(***************************************************************************)
CONSTANTS
  ClassNames, \* the class identifiers a request may carry
  PropDeed,   \* the seeded, KYC-gated class
  Definitions \* the class definitions a request may carry

Metadata == {"incomplete", "conforming", "longSymbol", "highDecimals"}

TokenClass == [requiresKYC : BOOLEAN, metadata : Metadata]

ASSUME TokenClassesAssumption ==
  /\ PropDeed \in ClassNames
  /\ Definitions \subseteq TokenClass

VARIABLE classes \* class name -> class, a partial function

TokenClassesTypeOK ==
  /\ DOMAIN classes \subseteq ClassNames
  /\ classes \in [DOMAIN classes -> TokenClass]

\* seed()
TokenClassesInit ==
  classes = [name \in {PropDeed} |->
               [requiresKYC |-> TRUE, metadata |-> "conforming"]]

TokenClassExists(name) == name \in DOMAIN classes

\* Map.set: the handler has checked the name; the registry itself would
\* overwrite a class that has the same one.
RegisterTokenClass(name, definition) ==
  classes' = [n \in DOMAIN classes \cup {name} |->
                IF n = name THEN definition ELSE classes[n]]

\* The TokenClass schema the register reply is validated against.
ReplyConforms(definition) == definition.metadata # "highDecimals"

\* The token schema every minted token is validated against.
TokenConforms(name) == classes[name].metadata = "conforming"
=============================================================================
