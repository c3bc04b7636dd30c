---------------------------- MODULE MCKeyGrants -----------------------------
(* The accounts of the runs: two devices, of one account or of two. *)
EXTENDS KeyGrants, TLC

CONSTANTS d1, d2, u1, u2

Apart  == d1 :> u1 @@ d2 :> u2
Shared == d1 :> u1 @@ d2 :> u1
=============================================================================
