---------------------------- MODULE MCCredential ----------------------------
(***************************************************************************)
(* Credential with the minutes of the code: 30, 20 and 1.                  *)
(***************************************************************************)
EXTENDS Credential
=============================================================================
