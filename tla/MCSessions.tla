----------------------------- MODULE MCSessions -----------------------------
(***************************************************************************)
(* Instances of Sessions for TLC: sessions are handed out as model values  *)
(* and interchangeable, so are request slots.                              *)
(***************************************************************************)
EXTENDS Sessions, TLC

Interchangeable == Permutations(Session) \cup Permutations(Request)
=============================================================================
