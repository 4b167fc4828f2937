------------------------------- MODULE MCPage -------------------------------
(***************************************************************************)
(* Instances of Page for TLC: a session that exists has something said in  *)
(* it; sessions are interchangeable, so are request slots.                 *)
(***************************************************************************)
EXTENDS Page, TLC

MCPast == {<<"said">>}

Interchangeable == Permutations(Session) \cup Permutations(Call)
=============================================================================
