-------------------------- MODULE Operator_proofs --------------------------
(***************************************************************************)
(* Proofs about Operator, the three controllers of the manager together.   *)
(* TestDispatch_proofs and OutcomeTracker_proofs are instantiated as the   *)
(* modules themselves are, so that what they show of one step of their     *)
(* module can be cited for a step of the operator.                         *)
(***************************************************************************)
EXTENDS Operator, TLAPS

DP == INSTANCE TestDispatch_proofs

TP == INSTANCE OutcomeTracker_proofs WITH
        queue <- trackerQueue, faults <- trackerFaults, Launchable <- TestIDs,
        MaxLosses <- 0, losses <- 0

----------------------------------------------------------------------------
(* The instances speak of the same things, and their assumptions hold.     *)

LEMMA Vocabulary ==
    /\ DP!TestIDs = TestIDs /\ TP!TestIDs = TestIDs
    /\ DP!Tests = Tests /\ TP!Tests = Tests
    /\ DP!Outcomes = Outcomes /\ TP!Outcomes = Outcomes
    /\ DP!Reports = Reports /\ TP!Reports = Reports
    /\ DP!Phases = Phases /\ TP!Phases = Phases
    /\ DP!TerminalPhases = TerminalPhases /\ TP!TerminalPhases = TerminalPhases
    /\ DP!NoPod = NoPod /\ TP!NoPod = NoPod
    /\ DP!Results = Results /\ TP!Results = Results
    /\ \A x : /\ DP!getTestResultFromPod(x) = getTestResultFromPod(x)
              /\ TP!getTestResultFromPod(x) = getTestResultFromPod(x)
              /\ DP!IDsOf(x) = IDsOf(x) /\ TP!IDsOf(x) = IDsOf(x)
BY DEF NoRun, DP!NoRun, TP!NoRun, Latest, DP!Latest, TP!Latest, NoRelease, DP!NoRelease,
       TP!NoRelease, Phases, DP!Phases, TP!Phases, TerminalPhases, DP!TerminalPhases,
       TP!TerminalPhases, Results, DP!Results, TP!Results, Verdicts, DP!Verdicts,
       TP!Verdicts, NoPod, DP!NoPod, TP!NoPod, getTestResultFromPod,
       DP!getTestResultFromPod, TP!getTestResultFromPod, TestIDs, DP!TestIDs, TP!TestIDs,
       Tests, DP!Tests, TP!Tests, Outcomes, DP!Outcomes, TP!Outcomes, Reports,
       DP!Reports, TP!Reports, IDsOf, DP!IDsOf, TP!IDsOf

LEMMA SameSpecs ==
    /\ DP!KotsSpecs = D!KotsSpecs /\ DP!KotsVersions = D!KotsVersions
    /\ DP!AppObjects = D!AppObjects /\ DP!Matches = D!Matches
BY DEF D!KotsSpecs, DP!KotsSpecs, D!KotsVersions, DP!KotsVersions, D!AppObjects,
       DP!AppObjects, D!Matches, DP!Matches, D!TestIDs, DP!TestIDs, D!NoRun, DP!NoRun,
       D!Latest, DP!Latest, D!NoRelease, DP!NoRelease

LEMMA DispatchAssumptions ==
    /\ KubeletMoves \subseteq DP!Phases \X DP!Phases
    /\ \A m \in KubeletMoves : m[1] \notin DP!TerminalPhases
    /\ Nil \notin DP!Outcomes /\ Nil \notin DP!Reports
    /\ AppSpecs \subseteq DP!KotsSpecs \cup {Nil}
    /\ VersionSpecs \subseteq DP!KotsVersions \cup {Nil}
    /\ GridSpecs \subseteq SUBSET Clusters
    /\ VersionObjects \subseteq Nat
    /\ EksClusters \subseteq Clusters
    /\ InitialApps \in [Apps -> AppSpecs \cup {Absent}]
    /\ InitialGrids \in [Grids -> SUBSET Clusters]
    /\ InitialVersions \in [VersionObjects -> VersionSpecs \cup {Absent}]
    /\ EditableApps \subseteq Apps /\ EditableGrids \subseteq Grids
    /\ EditableVersions \subseteq VersionObjects /\ DeletablePods \subseteq DP!TestIDs
    /\ MaxEdits \in Nat /\ MaxFaults \in Nat
    /\ Absent \notin DP!KotsSpecs \cup DP!KotsVersions \cup {Nil}
    /\ Nil \notin DP!KotsSpecs \cup DP!KotsVersions \cup Configs
    /\ Nil \notin DP!AppObjects /\ Nil \notin DP!Matches
BY KubeletAssumption, NilAssumption, OperatorAssumption, SameSpecs, Vocabulary

LEMMA TrackerAssumptions ==
    /\ KubeletMoves \subseteq TP!Phases \X TP!Phases
    /\ \A m \in KubeletMoves : m[1] \notin TP!TerminalPhases
    /\ Nil \notin TP!Outcomes /\ Nil \notin TP!Reports
    /\ TestIDs \subseteq TP!TestIDs
    /\ 0 \in Nat /\ MaxFaults \in Nat
BY KubeletAssumption, NilAssumption, OperatorAssumption, Vocabulary

LEMMA SameDispatch ==
    /\ D!Init <=> DP!Init
    /\ D!Next <=> DP!Next
    /\ \A c : D!Panic(c) <=> DP!Panic(c)
    /\ D!Controllers = DP!Controllers
BY DEF D!NoRun, DP!NoRun, D!Latest, DP!Latest, D!NoRelease, DP!NoRelease, D!Phases,
       DP!Phases, D!NoPod, DP!NoPod, D!getTestResultFromPod, DP!getTestResultFromPod,
       D!TestIDs, DP!TestIDs, D!getTestID, DP!getTestID, D!KotsSpecs, DP!KotsSpecs,
       D!KotsVersions, DP!KotsVersions, D!userObjects, DP!userObjects, D!caches,
       DP!caches, D!bounds, DP!bounds, D!vars, DP!vars, D!Controllers, DP!Controllers,
       D!Keys, DP!Keys, D!Idle, DP!Idle, D!AppObjects, DP!AppObjects, D!Matches,
       DP!Matches, D!Deployed, DP!Deployed, D!KotsDeployed, DP!KotsDeployed, D!Init,
       DP!Init, D!Goto, DP!Goto, D!Dequeue, DP!Dequeue, D!Done, DP!Done, D!Retry,
       DP!Retry, D!CreateAppTests, DP!CreateAppTests, D!Reconcile, DP!Reconcile,
       D!AfterApp, DP!AfterApp, D!CurrentTest, DP!CurrentTest, D!GetApplication,
       DP!GetApplication, D!findVersionForApp, DP!findVersionForApp, D!GetVersion,
       DP!GetVersion, D!listApplications, DP!listApplications, D!createOutcome,
       DP!createOutcome, D!listGrids, DP!listGrids, D!AppendTest, DP!AppendTest,
       D!PodExists, DP!PodExists, D!PodNotFound, DP!PodNotFound, D!getKotsTestConfigMap,
       DP!getKotsTestConfigMap, D!getTestPodSpec, DP!getTestPodSpec, D!CreateConfigMap,
       DP!CreateConfigMap, D!CreatePod, DP!CreatePod, D!CallFails, DP!CallFails,
       D!WatchApplication, DP!WatchApplication, D!WatchVersion, DP!WatchVersion,
       D!Resync, DP!Resync, D!Restarted, DP!Restarted, D!Crash, DP!Crash, D!Panic,
       DP!Panic, D!Edit, DP!Edit, D!PutApplication, DP!PutApplication, D!PutGrid,
       DP!PutGrid, D!PutVersion, DP!PutVersion, D!DeletePod, DP!DeletePod, D!PodMoves,
       DP!PodMoves, D!Step, DP!Step, D!ApplicationStep, DP!ApplicationStep,
       D!VersionStep, DP!VersionStep, D!Reconciling, DP!Reconciling, D!Users, DP!Users,
       D!Kubelet, DP!Kubelet, D!Next, DP!Next

LEMMA SameTracker ==
    /\ T!Init <=> TP!Init
    /\ T!Next <=> TP!Next
    /\ T!Reconciling <=> TP!Reconciling
    /\ T!Restarted <=> TP!Restarted
    /\ T!Crash <=> TP!Crash
BY DEF T!Phases, TP!Phases, T!NoPod, TP!NoPod, T!getTestResultFromPod,
       TP!getTestResultFromPod, T!TestIDs, TP!TestIDs, T!Tests, TP!Tests, T!Results,
       TP!Results, T!NoRun, TP!NoRun, T!Latest, TP!Latest, T!NoRelease, TP!NoRelease,
       T!podVars, TP!podVars, T!bounds, TP!bounds, T!vars, TP!vars, T!Idle, TP!Idle,
       T!Init, TP!Init, T!GetOutcome, TP!GetOutcome, T!Refreshed, TP!Refreshed, T!Finish,
       TP!Finish, T!ListPods, TP!ListPods, T!updateOutcome, TP!updateOutcome,
       T!CallFails, TP!CallFails, T!WatchOutcome, TP!WatchOutcome, T!TimerFires,
       TP!TimerFires, T!Restarted, TP!Restarted, T!Crash, TP!Crash, T!SetPod, TP!SetPod,
       T!LaunchPod, TP!LaunchPod, T!Readings, TP!Readings, T!CreateOutcome,
       TP!CreateOutcome, T!PodMoves, TP!PodMoves, T!LosePod, TP!LosePod, T!TrackerStep,
       TP!TrackerStep, T!Reconciling, TP!Reconciling, T!World, TP!World, T!Next, TP!Next

(* What the steps of the operator are to the two modules.                  *)
LEMMA Steps ==
    ASSUME Next
    PROVE  \/ DP!Next /\ Observe /\ UNCHANGED trackerVars
           \/ TP!Reconciling /\ UNCHANGED dispatchVars
           \/ DP!Next /\ TP!Crash
           \/ /\ DP!Next /\ TP!Restarted /\ UNCHANGED trackerFaults
              /\ \E c \in DP!Controllers : DP!Panic(c)
<1>1. CASE Dispatch
  <2>1. D!Next /\ Observe /\ UNCHANGED trackerVars
    BY <1>1 DEF Dispatch, D!Next
  <2> QED
    BY <2>1, SameDispatch
<1>2. CASE Track
  BY <1>2, SameTracker DEF Track
<1>3. CASE D!Crash /\ T!Crash
  <2>1. D!Next /\ T!Crash
    BY <1>3 DEF D!Next
  <2> QED
    BY <2>1, SameDispatch, SameTracker
<1>4. ASSUME NEW c \in D!Controllers, D!Panic(c), T!Restarted, UNCHANGED trackerFaults
      PROVE  DP!Next /\ TP!Restarted /\ UNCHANGED trackerFaults /\ DP!Panic(c)
  <2>1. D!Next
    BY <1>4 DEF D!Next
  <2> QED
    BY <1>4, <2>1, SameDispatch, SameTracker
<1> QED
  BY <1>1, <1>2, <1>3, <1>4, SameDispatch DEF Next, Die

----------------------------------------------------------------------------
(* The invariant: the two modules' own, and what relates them.  The        *)
(* results that a reconcile of a Version has gathered were shown by pods,  *)
(* and no copy that the tracker holds lists other tests than its Outcome.  *)

ReadInv ==
    \A test \in DP!Gathered(worker["version"]) :
        test.id \in TestIDs /\ test.result \in shown[test.id]

OInv == DP!IInv /\ TP!TypeOK /\ TP!EarnedInv /\ TP!ListedInv /\ ReadInv

LEMMA DispatchTypes ==
    ASSUME DP!IInv
    PROVE  /\ pods \in [TestIDs -> Phases \cup {NoPod}]
           /\ outcomes \in [Runs -> Outcomes \cup {Nil}]
BY Vocabulary DEF DP!IInv, DP!PodsInv, DP!OutcomesInv

LEMMA ResultType == \A phase : getTestResultFromPod(phase) \in Results
BY DEF getTestResultFromPod, Results

(* What has been shown is never forgotten.                                 *)
LEMMA Observed ==
    ASSUME TP!TypeOK, TP!EarnedInv, Observe
    PROVE  /\ shown' \in [TestIDs -> SUBSET Results]
           /\ \A t \in TestIDs : shown[t] \subseteq shown'[t]
           /\ \A t \in TestIDs : pods'[t] # NoPod => getTestResultFromPod(pods'[t]) \in shown'[t]
           /\ UNCHANGED pods => UNCHANGED shown
<1>1. shown \in [TestIDs -> SUBSET Results]
  BY Vocabulary DEF TP!TypeOK
<1>2. \A t \in TestIDs : pods[t] # NoPod => getTestResultFromPod(pods[t]) \in shown[t]
  BY Vocabulary DEF TP!EarnedInv
<1>3. shown' = [t \in TestIDs |->
                  IF pods'[t] = NoPod THEN shown[t]
                  ELSE shown[t] \cup {getTestResultFromPod(pods'[t])}]
  BY DEF Observe
<1>4. UNCHANGED pods => UNCHANGED shown
  BY <1>1, <1>2, <1>3
<1> QED
  BY <1>1, <1>3, <1>4, ResultType

(* A step of the Application and Version controllers, the users or the     *)
(* kubelets.                                                               *)
LEMMA DispatchKeeps ==
    ASSUME OInv, DP!Next, Observe, UNCHANGED trackerVars
    PROVE  OInv'
<1>1. DP!IInv'
  BY DispatchAssumptions, DP!NextInv DEF OInv
<1>a. /\ pods' \in [TestIDs -> Phases \cup {NoPod}]
      /\ outcomes' \in [Runs -> Outcomes \cup {Nil}]
  BY <1>1, Vocabulary DEF DP!IInv, DP!PodsInv, DP!OutcomesInv
<1>2. TP!TypeOK'
  BY <1>a, Observed, Vocabulary DEF OInv, TP!TypeOK, trackerVars
<1>3. ASSUME NEW r \in Runs, outcomes'[r] # Nil, outcomes'[r] # outcomes[r]
      PROVE  /\ outcomes[r] = Nil
             /\ outcomes'[r].tests \in SUBSET Tests
             /\ \A test \in outcomes'[r].tests : test.result \in shown[test.id]
  <2>1. DP!Published(worker["version"])
    BY <1>3, DispatchAssumptions, DP!Effects DEF OInv
  <2>2. PICK w : w = worker["version"]
    OBVIOUS
  <2>3. w.run = r /\ outcomes[r] = Nil /\ outcomes'[r] = [rv |-> 1, tests |-> w.tests]
    BY <1>3, <2>1, <2>2, DispatchTypes DEF DP!Published, OInv
  <2>4. outcomes'[r].tests = DP!Gathered(worker["version"])
    BY <2>1, <2>2, <2>3 DEF DP!Published, DP!Gathered
  <2>5. outcomes'[r] \in Outcomes
    BY <1>a, <1>3
  <2> QED
    BY <2>3, <2>4, <2>5 DEF OInv, ReadInv, Outcomes
<1>4. TP!EarnedInv'
  <2>1. \A r \in Runs : outcomes'[r] # Nil =>
           \/ outcomes'[r] = outcomes[r]
           \/ outcomes'[r].tests \in SUBSET TP!Tests /\ TP!Earned(outcomes'[r].tests)
    BY <1>3, Vocabulary DEF TP!Earned
  <2>2. UNCHANGED <<seen, tracker>>
    BY DEF trackerVars
  <2> QED
    BY <2>1, <2>2, Observed, Vocabulary, TrackerAssumptions, TP!PodKeepsEarned DEF OInv
<1>5. TP!ListedInv'
  <2>1. \A r \in Runs : outcomes[r] # Nil => TP!SameTests(outcomes[r], outcomes'[r])
    <3>1. \A r \in Runs : outcomes[r] # Nil => outcomes'[r] = outcomes[r]
      BY <1>3, DispatchAssumptions, DispatchTypes, DP!Effects DEF OInv, DP!Published
    <3> QED
      BY <3>1 DEF TP!SameTests
  <2>2. UNCHANGED <<seen, tracker>>
    BY DEF trackerVars
  <2> QED
    BY <2>1, <2>2, TrackerAssumptions, TP!ListedStays DEF OInv
<1>6. ReadInv'
  <2>1. ASSUME NEW test \in DP!Gathered(worker'["version"])
        PROVE  test.id \in TestIDs /\ test.result \in shown'[test.id]
    <3>1. test \in DP!Gathered(worker["version"]) \/ DP!ReadOff(test)'
      BY DispatchAssumptions, DP!ResultsAreRead DEF OInv
    <3>2. CASE test \in DP!Gathered(worker["version"])
      BY <3>2, Observed DEF OInv, ReadInv
    <3>3. CASE DP!ReadOff(test)'
      BY <3>3, Observed, Vocabulary DEF OInv, DP!ReadOff
    <3> QED
      BY <3>1, <3>2, <3>3
  <2> QED
    BY <2>1 DEF ReadInv
<1> QED
  BY <1>1, <1>2, <1>4, <1>5, <1>6 DEF OInv

(* A step of the Outcome controller: the tests of an Outcome stay, and     *)
(* with them what is known about its run.                                  *)
LEMMA TrackKeeps ==
    ASSUME OInv, TP!Reconciling, UNCHANGED dispatchVars
    PROVE  OInv' /\ UNCHANGED <<pods, shown>> /\ (DP!DueInv => DP!DueInv')
<1>1. TP!TypeOK' /\ TP!EarnedInv'
  <2>1. TP!Next
    BY DEF TP!Next
  <2> QED
    BY <2>1, TrackerAssumptions, TP!NextTypeOK, TP!NextEarned DEF OInv
<1>2. /\ TP!ListedInv'
      /\ UNCHANGED <<pods, shown>>
      /\ \A r \in Runs : outcomes[r] # Nil => TP!SameTests(outcomes[r], outcomes'[r])
      /\ \A r \in Runs : outcomes[r] = Nil => outcomes'[r] = Nil
  BY TrackerAssumptions, TP!ReconcilingListed DEF OInv
<1>3. \A r \in Runs : outcomes'[r] # Nil =>
         outcomes[r] # Nil /\ DP!IDsOf(outcomes'[r].tests) = DP!IDsOf(outcomes[r].tests)
  BY <1>2, Vocabulary DEF TP!SameTests
<1>4. outcomes' \in [Runs -> DP!Outcomes \cup {Nil}]
  BY <1>1, Vocabulary DEF TP!TypeOK
<1>5. DP!IInv' /\ (DP!DueInv => DP!DueInv')
  <2>1. UNCHANGED <<apps, grids, versions, seenApps, seenVersions, queue, worker, configMaps,
                    pods, edits, faults>>
    BY <1>2 DEF dispatchVars
  <2> QED
    BY <1>3, <1>4, <2>1, DispatchAssumptions, DP!OutcomesRevised DEF OInv
<1>6. ReadInv'
  BY <1>2 DEF OInv, ReadInv, dispatchVars, DP!Gathered
<1> QED
  BY <1>1, <1>2, <1>5, <1>6 DEF OInv

(* The end of the process and a new one.                                   *)
LEMMA DieKeeps ==
    ASSUME OInv, DP!Next, TP!Crash \/ (TP!Restarted /\ UNCHANGED trackerFaults)
    PROVE  OInv' /\ UNCHANGED <<pods, shown, outcomes>>
<1>1. TP!Restarted
  BY DEF TP!Crash
<1>2. TP!TypeOK' /\ TP!EarnedInv'
  <2>1. CASE TP!Crash
    <3>1. TP!Next
      BY <2>1 DEF TP!Next
    <3> QED
      BY <3>1, TrackerAssumptions, TP!NextTypeOK, TP!NextEarned DEF OInv
  <2>2. CASE TP!Restarted /\ UNCHANGED trackerFaults
    BY <2>2, TrackerAssumptions, TP!RestartedEarned DEF OInv, TP!bounds
  <2> QED
    BY <2>1, <2>2
<1>3. TP!ListedInv' /\ UNCHANGED <<pods, shown, outcomes>>
  BY <1>1, TrackerAssumptions, TP!RestartedListed DEF OInv
<1>4. DP!IInv'
  BY DispatchAssumptions, DP!NextInv DEF OInv
<1>5. ReadInv'
  <2>1. ASSUME NEW test \in DP!Gathered(worker'["version"])
        PROVE  test.id \in TestIDs /\ test.result \in shown'[test.id]
    <3>1. test \in DP!Gathered(worker["version"]) \/ DP!ReadOff(test)'
      BY DispatchAssumptions, DP!ResultsAreRead DEF OInv
    <3>2. CASE test \in DP!Gathered(worker["version"])
      BY <1>3, <3>2 DEF OInv, ReadInv
    <3>3. CASE DP!ReadOff(test)'
      BY <1>3, <3>3, Vocabulary DEF OInv, TP!EarnedInv, DP!ReadOff
    <3> QED
      BY <3>1, <3>2, <3>3
  <2> QED
    BY <2>1 DEF ReadInv
<1> QED
  BY <1>2, <1>3, <1>4, <1>5 DEF OInv

LEMMA NothingMoves ==
    ASSUME UNCHANGED vars
    PROVE  UNCHANGED <<apps, grids, versions, seenApps, seenVersions, queue, worker, configMaps,
                       edits, faults, seen, trackerQueue, timers, tracker, trackerFaults, shown,
                       pods, outcomes>>
BY DEF vars, dispatchVars, trackerVars

LEMMA StutterKeeps ==
    ASSUME OInv, UNCHANGED vars
    PROVE  OInv'
<1>1. UNCHANGED DP!vars /\ UNCHANGED TP!vars
  BY NothingMoves DEF DP!vars, DP!userObjects, DP!caches, DP!bounds, TP!vars, TP!podVars, TP!bounds
<1>2. DP!IInv'
  BY <1>1, DispatchAssumptions, DP!NextInv DEF OInv
<1>3. TP!TypeOK' /\ TP!EarnedInv'
  BY <1>1, TrackerAssumptions, TP!NextTypeOK, TP!NextEarned DEF OInv
<1>4. TP!ListedInv' /\ ReadInv'
  BY NothingMoves DEF OInv, TP!ListedInv, TP!SameTests, TP!IDsOf, ReadInv, DP!Gathered
<1> QED
  BY <1>2, <1>3, <1>4 DEF OInv

LEMMA InitOInv == Init => OInv
<1> SUFFICES ASSUME Init PROVE OInv
  OBVIOUS
<1>1. DP!Init /\ TP!Init
  BY SameDispatch, SameTracker DEF Init
<1>2. DP!IInv
  BY <1>1, DispatchAssumptions, DP!InitInv
<1>3. TP!TypeOK /\ TP!EarnedInv
  BY <1>1, TrackerAssumptions, TP!InitTypeOK, TP!InitEarned
<1>4. TP!ListedInv
  BY <1>1 DEF TP!Init, TP!ListedInv
<1>5. ReadInv
  BY <1>1 DEF DP!Init, DP!Controllers, ReadInv, DP!Gathered
<1> QED
  BY <1>2, <1>3, <1>4, <1>5 DEF OInv

LEMMA NextOInv == OInv /\ [Next]_vars => OInv'
BY Steps, DispatchKeeps, TrackKeeps, DieKeeps, StutterKeeps

(* The invariant of the whole manager.                                     *)
THEOREM Invariance == Spec => []OInv
BY InitOInv, NextOInv, PTL DEF Spec

----------------------------------------------------------------------------
(* What each controller promises by itself it promises in the operator.    *)

LEMMA SameProperties ==
    /\ T!VerdictsAreEarned <=> TP!VerdictsAreEarned
    /\ D!PodConfigured <=> DP!PodConfigured
    /\ D!OutcomeOfOneRun <=> DP!OutcomeOfOneRun
    /\ D!NoUnreportedTest <=> DP!NoUnreportedTest
BY DEF T!VerdictsAreEarned, TP!VerdictsAreEarned, T!Earned, TP!Earned, T!Verdicts,
       TP!Verdicts, D!PodConfigured, DP!PodConfigured, D!OutcomeOfOneRun,
       DP!OutcomeOfOneRun, D!NoUnreportedTest, DP!NoUnreportedTest, D!KotsSpecs,
       DP!KotsSpecs, D!KotsVersions, DP!KotsVersions, D!TestIDs, DP!TestIDs, D!NoPod,
       DP!NoPod, D!IDsOf, DP!IDsOf, D!NoRun, DP!NoRun, D!Latest, DP!Latest, D!NoRelease,
       DP!NoRelease

(* A Pass or Fail in an Outcome is a result that a pod of that very test   *)
(* has shown, although other reconciles delete and launch pods, publish    *)
(* what they read some steps ago, and die with the whole process.          *)
THEOREM Earnt == Spec => []VerdictsAreEarned
<1>1. OInv => VerdictsAreEarned
  BY SameProperties DEF OInv, TP!EarnedInv, TP!VerdictsAreEarned, VerdictsAreEarned
<1> QED
  BY <1>1, Invariance, PTL

(* Every pod has settings that fit its test, with the three controllers    *)
(* over the same objects.                                                  *)
THEOREM PodsAreConfigured == Spec => []D!PodConfigured
<1>1. OInv => D!PodConfigured
  BY SameProperties, DispatchAssumptions, DP!InvConfigured DEF OInv
<1> QED
  BY <1>1, Invariance, PTL

(* An Outcome is about one run and one release also after the Outcome      *)
(* controller has rewritten it from copies of any age.                     *)
THEOREM OutcomesOfOneRun == Spec => []D!OutcomeOfOneRun
<1>1. OInv => D!OutcomeOfOneRun
  BY SameProperties, DispatchAssumptions, DP!InvOfOneRun DEF OInv
<1> QED
  BY <1>1, Invariance, PTL

(* Applications stay as they were deployed, the clusters that pods run on  *)
(* keep their grids, and a run label names one release.                    *)
Stable == DP!Stable

LEMMA NextDue == Stable /\ OInv /\ DP!DueInv /\ [Next]_vars => DP!DueInv'
<1> SUFFICES ASSUME DP!Stable, OInv, DP!DueInv, [Next]_vars PROVE DP!DueInv'
  BY DEF Stable
<1>1. CASE DP!Next
  BY <1>1, DispatchAssumptions, DP!NextDue DEF OInv
<1>2. CASE UNCHANGED vars
  <2>1. UNCHANGED DP!vars
    BY <1>2, NothingMoves DEF DP!vars, DP!userObjects, DP!caches, DP!bounds
  <2> QED
    BY <2>1, DispatchAssumptions, DP!NextDue DEF OInv
<1>3. CASE TP!Reconciling /\ UNCHANGED dispatchVars
  BY <1>3, TrackKeeps
<1> QED
  BY <1>1, <1>2, <1>3, Steps

LEMMA StableForEver == Stable => []Stable
<1>1. Stable => Stable'
  BY DEF Stable, DP!Stable, DP!Steady, DP!Asked, DP!KotsVersions, DP!NoRun, DP!NoRelease
<1> QED
  BY <1>1, PTL

(* No test pod of a run is missing from the Outcome of that run, whatever  *)
(* the Outcome controller writes to it.                                    *)
THEOREM NothingUnreported == Stable /\ Spec => []D!NoUnreportedTest
<1>1. Stable /\ Init => DP!DueInv
  BY SameDispatch, DispatchAssumptions, DP!InitDue DEF Init, Stable
<1>2. Stable /\ OInv /\ DP!DueInv => D!NoUnreportedTest
  BY SameProperties, DispatchAssumptions, DP!DueReported DEF OInv, Stable
<1> QED
  BY <1>1, <1>2, NextDue, Invariance, StableForEver, PTL DEF Spec

----------------------------------------------------------------------------
(* The operator implements OutcomeTracker, whose environment launches each *)
(* pod once, as long as users delete no test pods.                         *)

(* A test without a pod has never had one.                                 *)
OnceInv == \A t \in TestIDs : pods[t] = NoPod => shown[t] = {}

LEMMA PhasesArePods == \A m \in KubeletMoves : m[1] # NoPod /\ m[2] \in Phases
BY KubeletAssumption DEF Phases, NoPod

(* The effect of one pod's change on what has been shown.                  *)
LEMMA OneShown ==
    ASSUME OInv, Observe, NEW t \in TestIDs, NEW phase \in Phases,
           pods' = [pods EXCEPT ![t] = phase]
    PROVE  TP!SetPod(t, phase)
<1>1. shown \in [TestIDs -> SUBSET Results] /\ pods \in [TestIDs -> Phases \cup {NoPod}]
  BY Vocabulary DEF OInv, TP!TypeOK
<1>2. \A u \in TestIDs : pods[u] # NoPod => getTestResultFromPod(pods[u]) \in shown[u]
  BY Vocabulary DEF OInv, TP!EarnedInv
<1>3. phase # NoPod
  BY DEF Phases, NoPod
<1>4. shown' = [u \in TestIDs |->
                  IF pods'[u] = NoPod THEN shown[u]
                  ELSE shown[u] \cup {getTestResultFromPod(pods'[u])}]
  BY DEF Observe
<1>5. shown' = [shown EXCEPT ![t] = @ \cup {getTestResultFromPod(phase)}]
  BY <1>1, <1>2, <1>3, <1>4
<1> QED
  BY <1>5, Vocabulary DEF TP!SetPod

(* The Application and Version controllers and the kubelets do what the    *)
(* tracker's environment does.                                             *)
LEMMA DispatchIsWorld ==
    ASSUME DeletablePods = {}, OInv, OnceInv, DP!Next, Observe, UNCHANGED trackerVars
    PROVE  [TP!Next]_TP!vars /\ OnceInv'
<1>1. pods \in [TestIDs -> Phases \cup {NoPod}] /\ shown \in [TestIDs -> SUBSET Results]
  BY Vocabulary DEF OInv, TP!TypeOK
<1>2. UNCHANGED <<seen, trackerQueue, timers, tracker, trackerFaults>>
  BY DEF trackerVars
<1>3. CASE UNCHANGED pods
  <2>1. UNCHANGED shown /\ OnceInv'
    BY <1>3, Observed DEF OInv, OnceInv
  <2>2. CASE UNCHANGED outcomes
    BY <1>2, <1>3, <2>1, <2>2 DEF TP!vars, TP!podVars, TP!bounds
  <2>3. CASE DP!Published(worker["version"])
    <3>1. PICK w : w = worker["version"]
      OBVIOUS
    <3>2. w # DP!Idle /\ w.run \in Runs /\ outcomes[w.run] = Nil
      BY <2>3, <3>1 DEF DP!Published
    <3>3. outcomes' = [outcomes EXCEPT ![w.run] = [rv |-> 1, tests |-> w.tests]]
      BY <2>3, <3>1 DEF DP!Published
    <3>4. DP!ReconcileOK("version", w, configMaps)
      BY <3>1, <3>2, DispatchAssumptions, DP!InProgress DEF OInv, DP!Controllers
    <3>5. w.tests \subseteq Tests /\ \A test \in w.tests : test.id.run = w.run
      BY <3>4, DispatchAssumptions, DP!BusyFacts, Vocabulary
         DEF DP!ReconcileOK, DP!VersionOK, DP!OfRun
    <3>6. \A test \in w.tests : test.id \in TestIDs /\ test.result \in shown[test.id]
      BY <3>1, <3>2 DEF OInv, ReadInv, DP!Gathered
    <3>7. w.tests \in SUBSET TP!Readings(w.run)
      BY <3>5, <3>6, Vocabulary DEF TP!Readings
    <3>8. TP!CreateOutcome(w.run)
      BY <1>2, <1>3, <2>1, <3>2, <3>3, <3>7 DEF TP!CreateOutcome, TP!podVars, TP!bounds
    <3> QED
      BY <2>1, <3>2, <3>8 DEF TP!Next, TP!World
  <2> QED
    BY <1>3, <2>2, <2>3, DispatchAssumptions, DP!Effects, PhasesArePods
       DEF OInv, DP!Launched, DP!Deleted, DP!Moved
<1>4. ASSUME NEW t \in TestIDs, NEW phase \in Phases, UNCHANGED outcomes,
             pods' = [pods EXCEPT ![t] = phase],
             \/ pods[t] = NoPod /\ phase = "Pending"
             \/ <<pods[t], phase>> \in KubeletMoves
      PROVE  [TP!Next]_TP!vars /\ OnceInv'
  <2>1. TP!SetPod(t, phase)
    BY <1>4, OneShown
  <2>2. OnceInv'
    BY <1>1, <1>4, <2>1 DEF OnceInv, TP!SetPod, Phases, NoPod
  <2>3. CASE pods[t] = NoPod /\ phase = "Pending"
    <3>1. TP!LaunchPod(t)
      BY <1>2, <1>4, <2>1, <2>3, Vocabulary DEF TP!LaunchPod, OnceInv, TP!bounds
    <3> QED
      BY <2>2, <3>1 DEF TP!Next, TP!World
  <2>4. CASE <<pods[t], phase>> \in KubeletMoves
    <3>1. TP!PodMoves(t, phase)
      BY <1>2, <1>4, <2>1, <2>4 DEF TP!PodMoves, TP!bounds
    <3> QED
      BY <2>2, <3>1, Vocabulary DEF TP!Next, TP!World
  <2> QED
    BY <1>4, <2>3, <2>4
<1>5. \/ UNCHANGED pods
      \/ /\ UNCHANGED outcomes
         /\ \E t \in TestIDs, phase \in Phases :
              /\ pods' = [pods EXCEPT ![t] = phase]
              /\ \/ pods[t] = NoPod /\ phase = "Pending"
                 \/ <<pods[t], phase>> \in KubeletMoves
  BY DispatchAssumptions, DP!Effects, Vocabulary
     DEF OInv, DP!Launched, DP!Deleted, DP!Moved, Phases
<1> QED
  BY <1>3, <1>4, <1>5

(* The process ends by a crash, which OutcomeTracker has too, or by a      *)
(* panic, which is no step of OutcomeTracker's.                            *)
Panics == TP!Restarted /\ UNCHANGED trackerFaults /\ \E c \in DP!Controllers : DP!Panic(c)

LEMMA TrackerSteps ==
    ASSUME DeletablePods = {}, OInv, OnceInv, [Next]_vars
    PROVE  OnceInv' /\ ([TP!Next]_TP!vars \/ Panics)
<1>1. CASE DP!Next /\ Observe /\ UNCHANGED trackerVars
  BY <1>1, DispatchIsWorld
<1>2. CASE TP!Reconciling /\ UNCHANGED dispatchVars
  <2>1. UNCHANGED <<pods, shown>>
    BY <1>2, TrackKeeps
  <2> QED
    BY <1>2, <2>1 DEF OnceInv, TP!Next
<1>3. CASE DP!Next /\ TP!Crash
  <2>1. UNCHANGED <<pods, shown>>
    BY <1>3, DieKeeps
  <2> QED
    BY <1>3, <2>1 DEF OnceInv, TP!Next
<1>4. CASE DP!Next /\ TP!Restarted /\ UNCHANGED trackerFaults /\ Panics
  <2>1. UNCHANGED <<pods, shown>>
    BY <1>4, DieKeeps
  <2> QED
    BY <1>4, <2>1 DEF OnceInv
<1>5. CASE UNCHANGED vars
  BY <1>5, NothingMoves DEF OnceInv, TP!vars, TP!podVars, TP!bounds
<1> QED
  BY <1>1, <1>2, <1>3, <1>4, <1>5, Steps DEF Panics

LEMMA InitOnce == Init => TP!Init /\ OnceInv
BY SameTracker, Vocabulary DEF Init, TP!Init, OnceInv

LEMMA KeptForEver ==
    /\ DeletablePods = {} => [](DeletablePods = {})
    /\ Clusters \subseteq EksClusters => [](Clusters \subseteq EksClusters)
    /\ TP!NeverPendingAgain => [](TP!NeverPendingAgain)
<1>1. DeletablePods = {} => (DeletablePods = {})'
  OBVIOUS
<1>2. Clusters \subseteq EksClusters => (Clusters \subseteq EksClusters)'
  OBVIOUS
<1>3. TP!NeverPendingAgain => TP!NeverPendingAgain'
  BY DEF TP!NeverPendingAgain, TP!getTestResultFromPod
<1> QED
  BY <1>1, <1>2, <1>3, PTL

(* createAppTests panics when a pod is to be launched on a cluster that is *)
(* not an EKS cluster.                                                     *)
LEMMA NoPanic ==
    ASSUME OInv, Clusters \subseteq EksClusters
    PROVE  ~Panics
<1> SUFFICES ASSUME NEW c \in DP!Controllers, DP!Panic(c) PROVE FALSE
  BY DEF Panics
<1>1. PICK w : w = worker[c]
  OBVIOUS
<1>2. w.pc = "checkPod" /\ \E m \in w.matches : m[2] \notin EksClusters
  BY <1>1 DEF DP!Panic
<1>3. w # DP!Idle
  BY <1>2 DEF DP!Idle
<1>4. DP!ReconcileOK(c, w, configMaps)
  BY <1>1, <1>3, DispatchAssumptions, DP!InProgress DEF OInv
<1>5. w.matches \subseteq DP!Matches
  BY <1>4, DispatchAssumptions, DP!BusyFacts DEF DP!ReconcileOK
<1> QED
  BY <1>2, <1>5 DEF DP!Matches

LEMMA SameTrackerStep == [T!Next]_T!vars <=> [TP!Next]_TP!vars
<1>1. T!vars = TP!vars
  BY DEF T!vars, TP!vars, T!podVars, TP!podVars, T!bounds, TP!bounds
<1> QED
  BY <1>1, SameTracker DEF T!vars, TP!vars, T!podVars, TP!podVars, T!bounds, TP!bounds

(* With EKS clusters only, the operator is an OutcomeTracker and its       *)
(* environment: whatever is shown of that module alone holds of the        *)
(* manager.                                                                *)
THEOREM RefinesTracker ==
    DeletablePods = {} /\ Clusters \subseteq EksClusters /\ Spec => TrackerSpec
<1>1. /\ DeletablePods = {} /\ Clusters \subseteq EksClusters
      /\ OInv /\ OnceInv /\ [Next]_vars
      => OnceInv' /\ [T!Next]_T!vars
  BY TrackerSteps, NoPanic, SameTrackerStep
<1>2. Init => T!Init /\ OnceInv
  BY InitOnce DEF Init
<1> QED
  BY <1>1, <1>2, Invariance, KeptForEver, PTL DEF Spec, TrackerSpec, T!Spec

(* What is invariant in OutcomeTracker alone, with panics also.            *)
LEMMA NextTracker ==
    ASSUME DeletablePods = {}, OInv, OnceInv, TP!Inv, [Next]_vars
    PROVE  TP!Inv'
<1>1. CASE [TP!Next]_TP!vars
  BY <1>1, TrackerAssumptions, TP!NextInv
<1>2. CASE Panics
  BY <1>2, TrackerAssumptions, TP!RestartedInv DEF Panics, TP!bounds
<1> QED
  BY <1>1, <1>2, TrackerSteps

LEMMA TrackerInvariance == DeletablePods = {} /\ Spec => [](OInv /\ OnceInv /\ TP!Inv)
<1>1. Init => TP!Inv /\ OnceInv
  BY InitOnce, TrackerAssumptions, TP!InitInv
<1>2. DeletablePods = {} /\ OInv /\ OnceInv /\ TP!Inv /\ [Next]_vars => (OnceInv /\ TP!Inv)'
  BY TrackerSteps, NextTracker
<1> QED
  BY <1>1, <1>2, Invariance, KeptForEver, PTL DEF Spec

(* While an Outcome says Pending, the manager will look at it again: also  *)
(* after a panic over a cluster that is not an EKS cluster.                *)
THEOREM NothingAbandoned ==
    DeletablePods = {} /\ TP!NeverPendingAgain /\ Spec => []T!NeverAbandoned
<1>1. Init => TP!PendingInv
  BY InitOnce, TrackerAssumptions, TP!InitPending
<1>2. ASSUME DeletablePods = {}, TP!NeverPendingAgain, OInv, OnceInv, TP!Inv, TP!PendingInv,
             [Next]_vars
      PROVE  TP!PendingInv'
  <2>1. CASE [TP!Next]_TP!vars
    BY <1>2, <2>1, TrackerAssumptions, TP!NextPending
  <2>2. CASE Panics
    BY <1>2, <2>2, TrackerAssumptions, TP!RestartedPending DEF Panics
  <2> QED
    BY <1>2, <2>1, <2>2, TrackerSteps
<1>3. TP!PendingInv => T!NeverAbandoned
  BY DEF TP!PendingInv, TP!NeverAbandoned, T!NeverAbandoned, TP!Idle, T!Idle
<1>4. DeletablePods = {} /\ TP!NeverPendingAgain /\ OInv /\ OnceInv /\ TP!Inv /\ TP!PendingInv
      /\ [Next]_vars => TP!PendingInv'
  BY <1>2
<1> QED
  BY <1>1, <1>3, <1>4, TrackerInvariance, KeptForEver, PTL DEF Spec

(* The Outcomes as their reader sees them.                                 *)
Report == [r \in Runs |-> IF outcomes[r] = Nil THEN Nil ELSE [tests |-> outcomes[r].tests]]

LEMMA SameLifeStep == [TP!Life!Next]_(TP!Report) => [T!Life!Next]_Report
<1>1. TP!Report = Report /\ TP!Report' = Report'
  BY DEF TP!Report, Report
<1>2. TP!Life!Next <=> T!Life!Next
  BY DEF T!Life!Next, TP!Life!Next, T!Life!Publish, TP!Life!Publish, T!Life!Revise,
       TP!Life!Revise, T!Life!Revises, TP!Life!Revises, T!Life!Reports, TP!Life!Reports,
       T!Life!Tests, TP!Life!Tests, T!Life!TestIDs, TP!Life!TestIDs, T!Life!Results,
       TP!Life!Results, T!Life!Verdicts, TP!Life!Verdicts, T!Life!IDsOf, TP!Life!IDsOf,
       T!Life!NoRun, TP!Life!NoRun, T!Life!Latest, TP!Life!Latest, T!Life!NoRelease,
       TP!Life!NoRelease
<1> QED
  BY <1>1, <1>2

(* For its reader an Outcome is published once with all its tests, and its *)
(* verdicts stay, whatever the three controllers do.                       *)
THEOREM OutcomesLive == DeletablePods = {} /\ Spec => T!OutcomeLifeSpec
<1>1. Init => T!Life!Init
  BY DEF Init, T!Init, T!Life!Init
<1>2. ASSUME DeletablePods = {}, OInv, OnceInv, TP!Inv, [Next]_vars
      PROVE  [T!Life!Next]_Report
  <2>1. CASE [TP!Next]_TP!vars
    <3>1. TP!TypeOK'
      BY <1>2, NextTracker DEF TP!Inv
    <3> QED
      BY <1>2, <2>1, <3>1, TrackerAssumptions, TP!StepImplements, SameLifeStep
  <2>2. CASE Panics
    BY <2>2 DEF Panics, TP!Restarted, Report
  <2> QED
    BY <1>2, <2>1, <2>2, TrackerSteps
<1>3. DeletablePods = {} /\ OInv /\ OnceInv /\ TP!Inv /\ [Next]_vars => [T!Life!Next]_Report
  BY <1>2
<1> QED
  BY <1>1, <1>3, TrackerInvariance, KeptForEver, PTL
     DEF Spec, T!OutcomeLifeSpec, T!Life!Spec, Report
=============================================================================
