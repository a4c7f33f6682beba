------------------------------ MODULE Operator ------------------------------
(***************************************************************************)
(* The manager process of main.go: the Application, Version and Outcome    *)
(* controllers over one API server.  TestDispatch creates the pods and     *)
(* Outcomes that OutcomeTracker follows; a crash takes all of them down.   *)
(* (The Grid controller reads its object and does nothing.)                *)
(***************************************************************************)
EXTENDS TestObjects

CONSTANTS
    Absent, Apps, AppSpecs, Grids, GridSpecs, VersionObjects, VersionSpecs,
    EksClusters, InitialApps, InitialGrids, InitialVersions, Configs,
    EditableApps, EditableGrids, EditableVersions, DeletablePods,
    MaxEdits, MaxFaults

VARIABLES
    apps, grids, versions, seenApps, seenVersions, queue, worker, configMaps, edits,
    seen, trackerQueue, timers, tracker, trackerFaults, shown,
    pods, outcomes, faults

D == INSTANCE TestDispatch

(* The pods of this module are lost and launched by TestDispatch's actions; *)
(* OutcomeTracker's own environment and its bounds are not used.            *)
T == INSTANCE OutcomeTracker WITH
       queue <- trackerQueue, faults <- trackerFaults, Launchable <- TestIDs,
       MaxLosses <- 0, losses <- 0

(* What the two modules assume of their parameters.                        *)
ASSUME OperatorAssumption ==
    /\ AppSpecs \subseteq D!KotsSpecs \cup {Nil}
    /\ VersionSpecs \subseteq D!KotsVersions \cup {Nil}
    /\ GridSpecs \subseteq SUBSET Clusters
    /\ VersionObjects \subseteq Nat
    /\ EksClusters \subseteq Clusters
    /\ InitialApps \in [Apps -> AppSpecs \cup {Absent}]
    /\ InitialGrids \in [Grids -> SUBSET Clusters]
    /\ InitialVersions \in [VersionObjects -> VersionSpecs \cup {Absent}]
    /\ EditableApps \subseteq Apps /\ EditableGrids \subseteq Grids
    /\ EditableVersions \subseteq VersionObjects /\ DeletablePods \subseteq TestIDs
    /\ MaxEdits \in Nat /\ MaxFaults \in Nat
    /\ Absent \notin D!KotsSpecs \cup D!KotsVersions \cup {Nil}
    /\ Nil \notin D!KotsSpecs \cup D!KotsVersions \cup Configs
    /\ Nil \notin D!AppObjects /\ Nil \notin D!Matches

dispatchVars == <<apps, grids, versions, seenApps, seenVersions, queue, worker,
                  configMaps, edits, faults>>
trackerVars == <<seen, trackerQueue, timers, tracker, trackerFaults>>
vars == <<dispatchVars, trackerVars, shown, pods, outcomes>>

Init == D!Init /\ T!Init

(* History: the results that the pods have shown.                          *)
Observe ==
    shown' = [t \in TestIDs |->
                IF pods'[t] = NoPod THEN shown[t]
                ELSE shown[t] \cup {getTestResultFromPod(pods'[t])}]

Dispatch == (D!Reconciling \/ D!Users \/ D!Kubelet) /\ Observe /\ UNCHANGED trackerVars

Track == T!Reconciling /\ UNCHANGED dispatchVars

(* A crash, or a panic in createAppTests, ends the one process.            *)
Die ==
    \/ D!Crash /\ T!Crash
    \/ \E c \in D!Controllers : D!Panic(c) /\ T!Restarted /\ UNCHANGED trackerFaults

Next == Dispatch \/ Track \/ Die

Spec == Init /\ [][Next]_vars

(* The fairness of the two modules, over this module's variables, and      *)
(* kubelets that finish what they started.                                 *)
Running(A) == A /\ UNCHANGED trackerVars
Fairness ==
    /\ WF_vars(Running(D!ApplicationStep) /\ Observe)
    /\ WF_vars(Running(D!VersionStep) /\ Observe)
    /\ \A a \in Apps :
         /\ SF_vars(Running(D!GetApplication(a)) /\ UNCHANGED shown)
         /\ WF_vars(Running(D!WatchApplication(a)) /\ UNCHANGED shown)
    /\ \A v \in VersionObjects :
         /\ SF_vars(Running(D!GetVersion(v)) /\ UNCHANGED shown)
         /\ WF_vars(Running(D!WatchVersion(v)) /\ UNCHANGED shown)
    /\ WF_vars(T!TrackerStep /\ UNCHANGED dispatchVars)
    /\ \A r \in Runs :
         /\ SF_vars(T!GetOutcome(r) /\ UNCHANGED dispatchVars)
         /\ WF_vars(T!WatchOutcome(r) /\ UNCHANGED dispatchVars)
         /\ WF_vars(T!TimerFires(r) /\ UNCHANGED dispatchVars)
    /\ WF_vars(D!Kubelet /\ Observe /\ UNCHANGED trackerVars)

FairSpec == Spec /\ Fairness

----------------------------------------------------------------------------
(* Properties.                                                             *)

(* Without deletions of pods, whatever the dispatch controllers do is      *)
(* something that OutcomeTracker's environment does: what is shown for     *)
(* OutcomeTracker alone holds of the operator.                             *)
TrackerSpec == T!Spec

(* With pods deleted and launched again too, a verdict in an Outcome is    *)
(* one that the test's pod has shown.                                      *)
VerdictsAreEarned == T!VerdictsAreEarned

(* The run of a Version ends: its Outcome appears and every test in it has *)
(* a result that is not Pending, through crashes and failed calls.         *)
Complete(r) == outcomes[r] # Nil /\ \A test \in outcomes[r].tests : test.result # "Pending"
RunsComplete ==
    \A v \in VersionObjects :
        \A s \in D!KotsVersions :
            (versions[v] = s /\ s.run # NoRun /\ s.latest # NoRelease)
                ~> (versions[v] # s \/ Complete(s.run))
=============================================================================
