------------------------------ MODULE MCTestRun ------------------------------
(***************************************************************************)
(* Small instances of TestRun.                                             *)
(***************************************************************************)
EXTENDS TestRun

(* No cluster of the grid has this number.                                 *)
OtherCluster == 0
=============================================================================
