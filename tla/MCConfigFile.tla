---------------------------- MODULE MCConfigFile ----------------------------
(***************************************************************************)
(* Small instances of ConfigFile: two processes on one file, one of them   *)
(* with two clusters.                                                      *)
(***************************************************************************)
EXTENDS ConfigFile, TLC

CONSTANTS p1, p2, c1, c2, c3, n1, n2

TwoAndOne == c1 :> p1 @@ c2 :> p1 @@ c3 :> p2
OwnNames == p1 :> n1 @@ p2 :> n2
=============================================================================
