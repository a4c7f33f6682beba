------------------------------ MODULE RunLife ------------------------------
(***************************************************************************)
(* The abstract specification of `kgrid run`, for whoever relies on its    *)
(* verdict: the clusters are made, then the application is tried on all of *)
(* them, then they are given up.  They all stand as long as the            *)
(* application is tried, none is given up before, and the run passes only  *)
(* if the application has worked on every one of them.                     *)
(***************************************************************************)
VARIABLES
    grid,       \* the clusters of the run's grid
    phase,      \* "creating", "testing", "teardown" and "over"
    standing,   \* those of the clusters that exist
    working,    \* those the application has worked on
    passed      \* whether the run has ended with success

Init ==
    /\ phase = "creating"
    /\ standing \in {{}, grid}
    /\ working = {}
    /\ passed = FALSE

(* All clusters have been made.                                            *)
Made ==
    /\ phase = "creating"
    /\ phase' = "testing"
    /\ standing' = grid
    /\ UNCHANGED <<working, passed>>

(* Not all could be made; those that were are left as they are.            *)
NotMade ==
    /\ phase = "creating"
    /\ phase' = "over"
    /\ standing \subseteq standing' /\ standing' \subseteq grid
    /\ UNCHANGED <<working, passed>>

Works(c) ==
    /\ phase = "testing"
    /\ working' = working \cup {c}
    /\ UNCHANGED <<phase, standing, passed>>

Tested ==
    /\ phase = "testing"
    /\ phase' = "teardown"
    /\ UNCHANGED <<standing, working, passed>>

GiveUp(c) ==
    /\ phase = "teardown"
    /\ standing' = standing \ {c}
    /\ UNCHANGED <<phase, working, passed>>

End ==
    /\ phase = "teardown"
    /\ phase' = "over"
    /\ passed' \in {FALSE, working = grid}
    /\ UNCHANGED <<standing, working>>

Next ==
    /\ UNCHANGED grid
    /\ \/ Made \/ NotMade \/ Tested \/ End
       \/ \E c \in grid : Works(c) \/ GiveUp(c)

lifeVars == <<grid, phase, standing, working, passed>>

Spec == Init /\ [][Next]_lifeVars
=============================================================================
