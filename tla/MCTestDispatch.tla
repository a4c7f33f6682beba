--------------------------- MODULE MCTestDispatch ---------------------------
(***************************************************************************)
(* Small instances of TestDispatch.                                        *)
(***************************************************************************)
EXTENDS TestDispatch, TLC

CONSTANTS c1, c2, r1, r2, n1, n2, ch1, ch2, k1, k2, a1, a2, g1, g2

(* Pods finish at once: the controllers read "Pending" and "Running" alike. *)
OneMove == {<<"Pending", "Succeeded">>}

(* An application that asks for "latest" on both clusters, one that leaves *)
(* its release unset, and one that names it.                               *)
Floating == [clusters |-> {c1, c2}, version |-> Latest, channel |-> ch1, config |-> k1]
Unset == [Floating EXCEPT !.clusters = {c1}, !.version = NoRelease]
Pinned == [clusters |-> {c1}, version |-> r1, channel |-> ch2, config |-> k2]

OtherChannel == [Floating EXCEPT !.clusters = {c1}, !.channel = ch2, !.config = k2]

V1 == [latest |-> r1, run |-> n1]
Unlabelled == [latest |-> r1, run |-> NoRun]
Unlabelled2 == [latest |-> r2, run |-> NoRun]
NoLatest == [latest |-> NoRelease, run |-> NoRun]

None == {}
OneGrid == g1 :> {c1, c2}
SecondGridLater == g1 :> {c1} @@ g2 :> {}
OneFloating == a1 :> Floating @@ a2 :> Absent
BothFloating == a1 :> Floating @@ a2 :> OtherChannel
NoApp == a1 :> Absent
Labelled == <<V1>>
NoLabel == <<Unlabelled>>
NoVersion == <<Absent>>
Objects1 == {1}

LabelDropped == {V1, Unlabelled2}
LiveSpecs == {[Floating EXCEPT !.clusters = {c1}], Unset, Pinned}
OneSpec == {Floating}
TwoFloating == {Floating, OtherChannel}
OneVersion == {V1}
LiveVersions == {V1, Unlabelled}
OddVersions == {Unlabelled, NoLatest, Nil}
GridPerCluster == {{c1}, {c2}}
GridChoices == {{c1, c2}}
=============================================================================
