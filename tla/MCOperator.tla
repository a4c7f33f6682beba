----------------------------- MODULE MCOperator -----------------------------
(***************************************************************************)
(* Small instances of Operator: one Version, one cluster or two.           *)
(***************************************************************************)
EXTENDS Operator, TLC

CONSTANTS c1, c2, r1, n1, ch1, k1, a1, g1

MCMoves == {<<"Pending", "Succeeded">>, <<"Pending", "Failed">>}
OneMove == {<<"Pending", "Succeeded">>}

Floating == [clusters |-> Clusters, version |-> Latest, channel |-> ch1, config |-> k1]
V1 == [latest |-> r1, run |-> n1]

OneSpec == {Floating}
OneGrid == g1 :> Clusters
OneApp == a1 :> Floating
OneVersion == {V1}
Labelled == <<V1>>
NoVersion == <<Absent>>
None == {}
RepairedGrid == {{c1}}
Objects1 == {1}
RunTests == {getTestID(n1, c1, r1, ch1)}
=============================================================================
