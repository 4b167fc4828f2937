------------------------------ MODULE Handover ------------------------------
(***************************************************************************)
(* What the session routes of web.py and the credential have to agree on:  *)
(* the bearer is renewed for a session (_refresh_appmcp_credential) by one *)
(* handler at a time, only once the session before it has been let go of   *)
(* with its rotator, and a session is attached only after its renewal.     *)
(* Sessions and Credential each implement this from their own side.        *)
(***************************************************************************)
EXTENDS Integers

VARIABLES
  attached,   \* a session is attached: its runner and its rotator are ours
  renewing    \* how many handlers are between letting go and attaching

vars == <<attached, renewing>>

Init == attached = FALSE /\ renewing = 0

Begin == renewing = 0 /\ renewing' = 1 /\ attached' = FALSE

Attach == renewing = 1 /\ renewing' = 0 /\ attached' = TRUE

GiveUp == renewing = 1 /\ renewing' = 0 /\ UNCHANGED attached

LetGo == attached /\ attached' = FALSE /\ UNCHANGED renewing

Next == Begin \/ Attach \/ GiveUp \/ LetGo

Spec == Init /\ [][Next]_vars
=============================================================================
