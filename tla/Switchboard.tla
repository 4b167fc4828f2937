----------------------------- MODULE Switchboard -----------------------------
(***************************************************************************)
(* The one-at-a-time design of web.py (_detach, "only the active session's *)
(* pulls are answered"): at any moment this server answers the tool calls  *)
(* of at most one session, and it takes up another only after it has let   *)
(* go of the one it had.                                                   *)
(***************************************************************************)
CONSTANTS Session, NoSession

VARIABLE attached

Init == attached = NoSession

Attach == attached = NoSession /\ attached' \in Session

LetGo == attached # NoSession /\ attached' = NoSession

Next == Attach \/ LetGo

Spec == Init /\ [][Next]_attached
=============================================================================
