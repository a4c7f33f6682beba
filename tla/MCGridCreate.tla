---------------------------- MODULE MCGridCreate ----------------------------
(***************************************************************************)
(* A small instance of GridCreate: three clusters.                         *)
(***************************************************************************)
EXTENDS GridCreate, TLC

CONSTANTS c1, c2, c3

TwoNewOneExisting == c1 :> "new" @@ c2 :> "new" @@ c3 :> "existing"
=============================================================================
