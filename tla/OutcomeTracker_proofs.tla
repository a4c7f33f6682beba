----------------------- MODULE OutcomeTracker_proofs -----------------------
(***************************************************************************)
(* Proofs about OutcomeTracker, for any runs and tests, any moves of the   *)
(* pods that respect their final phases, and any number of faults: type    *)
(* correctness, that verdicts are earned, that an Outcome behaves as       *)
(* OutcomeLife says, and that none is abandoned while it says Pending.     *)
(***************************************************************************)
EXTENDS OutcomeTracker, TLAPS

(* Whatever is written to an Outcome, or may be, is earned, and what a pod *)
(* shows now is among what it has shown.                                   *)
EarnedInv ==
    /\ \A t \in TestIDs : pods[t] # NoPod => getTestResultFromPod(pods[t]) \in shown[t]
    /\ \A r \in Runs : outcomes[r] # Nil => Earned(outcomes[r].tests)
    /\ \A r \in Runs : seen[r] # Nil => Earned(seen[r].tests)
    /\ tracker # Idle => Earned(tracker.instance.tests)

(* A verdict is the last thing a pod shows.                                *)
FinalInv ==
    \A t \in TestIDs : \A x \in shown[t] \cap Verdicts :
        pods[t] # NoPod => x = getTestResultFromPod(pods[t])

(* A copy with the current resourceVersion is the current Outcome; the one *)
(* that is about to be written may differ in results that are not final.   *)
VersionInv ==
    /\ \A r \in Runs : seen[r] # Nil =>
         /\ outcomes[r] # Nil
         /\ seen[r].rv <= outcomes[r].rv
         /\ seen[r].rv = outcomes[r].rv => seen[r] = outcomes[r]
    /\ tracker # Idle =>
         /\ outcomes[tracker.run] # Nil
         /\ tracker.instance.rv <= outcomes[tracker.run].rv
         /\ tracker.instance.rv = outcomes[tracker.run].rv =>
              IF tracker.pc = "list"
              THEN tracker.instance = outcomes[tracker.run]
              ELSE Life!Revises(tracker.instance.tests, outcomes[tracker.run].tests)

----------------------------------------------------------------------------
LEMMA ResultType ==
    \A phase \in Phases : getTestResultFromPod(phase) \in Results
BY DEF getTestResultFromPod, Phases, Results

(* Refreshing keeps the test's identity, yields a result, and a verdict    *)
(* only if the pod has shown it.                                           *)
LEMMA RefreshedTest ==
    ASSUME TypeOK, EarnedInv, NEW test \in Tests
    PROVE  /\ Refreshed(test) \in Tests
           /\ Refreshed(test).id = test.id
           /\ Refreshed(test).result \in Verdicts =>
                \/ Refreshed(test) = test
                \/ Refreshed(test).result \in shown[test.id]
<1>1. test.id \in TestIDs /\ test.result \in Results
  BY DEF Tests
<1>2. CASE pods[test.id] # NoPod
  <2>1. pods[test.id] \in Phases
    BY <1>1, <1>2 DEF TypeOK
  <2>2. getTestResultFromPod(pods[test.id]) \in Results
    BY <2>1, ResultType
  <2>3. Refreshed(test) = [test EXCEPT !.result = getTestResultFromPod(pods[test.id])]
    BY <1>2 DEF Refreshed
  <2> QED
    BY <1>1, <1>2, <2>2, <2>3 DEF Tests, EarnedInv
<1>3. CASE pods[test.id] = NoPod
  BY <1>1, <1>3 DEF Refreshed, Tests, Results, Verdicts
<1> QED
  BY <1>2, <1>3

LEMMA RefreshedTests ==
    ASSUME TypeOK, EarnedInv, NEW tests \in SUBSET Tests, Earned(tests)
    PROVE  LET new == {Refreshed(test) : test \in tests}
           IN  new \in SUBSET Tests /\ IDsOf(new) = IDsOf(tests) /\ Earned(new)
<1> DEFINE new == {Refreshed(test) : test \in tests}
<1>1. new \in SUBSET Tests
  BY RefreshedTest
<1>2. IDsOf(new) = IDsOf(tests)
  BY RefreshedTest DEF IDsOf
<1>3. Earned(new)
  <2> SUFFICES ASSUME NEW test \in tests, Refreshed(test).result \in Verdicts
               PROVE  Refreshed(test).result \in shown[Refreshed(test).id]
    BY DEF Earned
  <2> QED
    BY RefreshedTest DEF Earned
<1> QED
  BY <1>1, <1>2, <1>3

----------------------------------------------------------------------------
(* Types.                                                                  *)

LEMMA InitTypeOK == Init => TypeOK
BY TrackerAssumption DEF Init, TypeOK, Idle

LEMMA NextTypeOK == TypeOK /\ EarnedInv /\ [Next]_vars => TypeOK'
<1> SUFFICES ASSUME TypeOK, EarnedInv, [Next]_vars PROVE TypeOK'
  OBVIOUS
<1> USE DEF TypeOK, bounds, podVars
<1>1. ASSUME NEW r \in Runs, GetOutcome(r) PROVE TypeOK'
  <2>1. tracker' \in Busy \cup {Idle}
    BY <1>1 DEF GetOutcome, Busy
  <2> QED
    BY <1>1, <2>1 DEF GetOutcome
<1>2. ASSUME NEW r \in Runs, WatchOutcome(r) \/ TimerFires(r) PROVE TypeOK'
  BY <1>2 DEF WatchOutcome, TimerFires
<1>3. CASE ListPods
  <2>1. tracker \in Busy
    BY <1>3 DEF ListPods, Idle
  <2> DEFINE old == tracker.instance.tests
             new == {Refreshed(test) : test \in old}
             finalized == \A test \in old : pods[test.id] # NoPod =>
                            getTestResultFromPod(pods[test.id]) # "Pending"
  <2>2. tracker.run \in Runs /\ tracker.instance \in Outcomes /\ old \in SUBSET Tests
    BY <2>1 DEF Busy, Outcomes
  <2>3. new \in SUBSET Tests
    <3>1. Earned(old)
      BY <1>3 DEF EarnedInv, ListPods, Idle
    <3> QED
      BY <2>2, <3>1, RefreshedTests
  <2>4. finalized \in BOOLEAN
    OBVIOUS
  <2>5. \/ tracker' = Idle
        \/ tracker' = [tracker EXCEPT !.pc = "update",
                                      !.instance = [@ EXCEPT !.tests = new],
                                      !.finalized = finalized]
    BY <1>3 DEF ListPods, Finish
  <2>6. timers' \subseteq Runs
    BY <1>3, <2>2 DEF ListPods, Finish
  <2> HIDE DEF new, finalized
  <2>7. [tracker.instance EXCEPT !.tests = new] \in Outcomes
    BY <2>2, <2>3 DEF Outcomes
  <2>8. tracker' \in Busy \cup {Idle}
    BY <2>1, <2>4, <2>5, <2>7 DEF Busy
  <2> QED
    BY <1>3, <2>6, <2>8 DEF ListPods
<1>4. CASE updateOutcome
  <2>1. tracker \in Busy
    BY <1>4 DEF updateOutcome, Idle
  <2>2. [tracker.instance EXCEPT !.rv = @ + 1] \in Outcomes
    BY <2>1 DEF Busy, Outcomes
  <2>3. tracker.run \in Runs
    BY <2>1 DEF Busy
  <2>4. outcomes' \in [Runs -> Outcomes \cup {Nil}]
    BY <1>4, <2>2, <2>3 DEF updateOutcome
  <2>5. queue' \subseteq Runs /\ timers' \subseteq Runs /\ tracker' = Idle
    BY <1>4, <2>3 DEF updateOutcome, Finish
  <2> QED
    BY <1>4, <2>4, <2>5 DEF updateOutcome
<1>5. CASE CallFails
  <2>1. tracker.run \in Runs
    BY <1>5 DEF CallFails, Busy
  <2>2. faults' \in 0..MaxFaults
    BY <1>5, TrackerAssumption DEF CallFails
  <2>3. tracker' = Idle /\ queue' = queue \cup {tracker.run}
    BY <1>5 DEF CallFails
  <2>4. UNCHANGED <<pods, shown, outcomes, seen, timers, losses>>
    BY <1>5 DEF CallFails
  <2> QED
    BY <2>1, <2>2, <2>3, <2>4
<1>6. CASE Crash
  <2>1. faults' \in 0..MaxFaults
    BY <1>6, TrackerAssumption DEF Crash
  <2>2. queue' \subseteq Runs /\ timers' \subseteq Runs
    BY <1>6 DEF Crash, Restarted
  <2>3. seen' = outcomes /\ tracker' = Idle /\ UNCHANGED <<pods, shown, outcomes, losses>>
    BY <1>6 DEF Crash, Restarted
  <2> QED
    BY <2>1, <2>2, <2>3
<1>7. ASSUME NEW t \in Launchable, LaunchPod(t) \/ LosePod(t) PROVE TypeOK'
  BY <1>7, TrackerAssumption, ResultType DEF LaunchPod, LosePod, SetPod, Phases
<1>8. ASSUME NEW t \in Launchable, NEW phase \in Phases, PodMoves(t, phase) PROVE TypeOK'
  BY <1>8, TrackerAssumption, ResultType DEF PodMoves, SetPod
<1>9. ASSUME NEW r \in Runs, CreateOutcome(r) PROVE TypeOK'
  <2>0. PICK tests \in SUBSET Readings(r) :
              outcomes' = [outcomes EXCEPT ![r] = [rv |-> 1, tests |-> tests]]
    BY <1>9 DEF CreateOutcome
  <2>1. tests \in SUBSET Tests
    BY DEF Readings
  <2>2. [rv |-> 1, tests |-> tests] \in Outcomes
    BY <2>1 DEF Outcomes
  <2> QED
    BY <1>9, <2>0, <2>2 DEF CreateOutcome
<1>10. CASE UNCHANGED vars
  BY <1>10 DEF vars
<1> QED
  BY <1>1, <1>2, <1>3, <1>4, <1>5, <1>6, <1>7, <1>8, <1>9, <1>10
     DEF Next, Reconciling, World, TrackerStep

----------------------------------------------------------------------------
(* Verdicts are earned.                                                    *)

LEMMA TrackerTypes ==
    ASSUME TypeOK
    PROVE  /\ \A r \in Runs : outcomes[r] # Nil => outcomes[r] \in Outcomes
           /\ \A r \in Runs : seen[r] # Nil => seen[r] \in Outcomes
           /\ tracker # Idle => tracker \in Busy
BY DEF TypeOK

LEMMA InitEarned == Init => EarnedInv
BY DEF Init, EarnedInv

(* A step of the tracker leaves the pods alone and gets its copy from the  *)
(* cache or refreshes it.                                                  *)
LEMMA TrackerKeepsEarned ==
    ASSUME TypeOK, EarnedInv, UNCHANGED podVars,
           \A r \in Runs : outcomes'[r] # Nil =>
               \/ outcomes'[r] = outcomes[r]
               \/ tracker # Idle /\ outcomes'[r].tests = tracker.instance.tests,
           \A r \in Runs : seen'[r] # Nil => seen'[r] = seen[r] \/ seen'[r] = outcomes[r],
           tracker' # Idle => Earned(tracker'.instance.tests)
    PROVE  EarnedInv'
BY DEF EarnedInv, Earned, podVars

(* A step of a pod shows more, and leaves the tracker alone.               *)
LEMMA PodKeepsEarned ==
    ASSUME TypeOK, EarnedInv,
           UNCHANGED <<seen, tracker>>,
           \A t \in TestIDs : shown[t] \subseteq shown'[t],
           \A t \in TestIDs : pods'[t] # NoPod => getTestResultFromPod(pods'[t]) \in shown'[t],
           \A r \in Runs : outcomes'[r] # Nil =>
               \/ outcomes'[r] = outcomes[r]
               \/ outcomes'[r].tests \in SUBSET Tests /\ Earned(outcomes'[r].tests)
    PROVE  EarnedInv'
<1>1. ASSUME NEW r \in Runs, outcomes'[r] # Nil PROVE Earned(outcomes[r].tests)'
  <2>1. outcomes'[r].tests \in SUBSET Tests /\ Earned(outcomes'[r].tests)
    BY <1>1, TrackerTypes DEF EarnedInv, Outcomes
  <2> QED
    BY <2>1 DEF Earned, Tests
<1>2. ASSUME NEW r \in Runs, seen'[r] # Nil PROVE Earned(seen[r].tests)'
  <2>1. seen[r].tests \in SUBSET Tests /\ Earned(seen[r].tests)
    BY <1>2, TrackerTypes DEF EarnedInv, Outcomes
  <2> QED
    BY <2>1 DEF Earned, Tests
<1>3. tracker' # Idle => Earned(tracker.instance.tests)'
  <2> HAVE tracker' # Idle
  <2>1. tracker.instance.tests \in SUBSET Tests /\ Earned(tracker.instance.tests)
    BY TrackerTypes DEF EarnedInv, Busy, Outcomes
  <2> QED
    BY <2>1 DEF Earned, Tests
<1> QED
  BY <1>1, <1>2, <1>3 DEF EarnedInv

LEMMA NextEarned == TypeOK /\ EarnedInv /\ [Next]_vars => EarnedInv'
<1> SUFFICES ASSUME TypeOK, EarnedInv, [Next]_vars PROVE EarnedInv'
  OBVIOUS
<1>1. ASSUME NEW r \in Runs, GetOutcome(r) PROVE EarnedInv'
  <2>1. tracker' # Idle => Earned(tracker'.instance.tests)
    BY <1>1 DEF GetOutcome, EarnedInv
  <2> QED
    BY <1>1, <2>1, TrackerKeepsEarned DEF GetOutcome
<1>2. ASSUME NEW r \in Runs, WatchOutcome(r) PROVE EarnedInv'
  <2>1. \A u \in Runs : seen'[u] = seen[u] \/ seen'[u] = outcomes[u]
    BY <1>2 DEF WatchOutcome, TypeOK
  <2> QED
    BY <1>2, <2>1, TrackerKeepsEarned DEF WatchOutcome, EarnedInv
<1>3. ASSUME NEW r \in Runs, TimerFires(r) PROVE EarnedInv'
  BY <1>3, TrackerKeepsEarned DEF TimerFires, EarnedInv
<1>4. CASE ListPods
  <2> DEFINE old == tracker.instance.tests
             new == {Refreshed(test) : test \in old}
  <2>1. tracker \in Busy /\ old \in SUBSET Tests /\ Earned(old)
    BY <1>4, TrackerTypes DEF ListPods, Idle, Busy, Outcomes, EarnedInv
  <2>2. Earned(new)
    BY <2>1, RefreshedTests
  <2>3. \/ tracker' = Idle
        \/ \E finalized \in BOOLEAN :
              tracker' = [tracker EXCEPT !.pc = "update",
                                         !.instance = [@ EXCEPT !.tests = new],
                                         !.finalized = finalized]
    BY <1>4 DEF ListPods, Finish
  <2> HIDE DEF new
  <2>4. tracker' # Idle => tracker'.instance.tests = new
    <3>1. [tracker.instance EXCEPT !.tests = new].tests = new
      BY <2>1 DEF Busy, Outcomes
    <3>2. tracker' # Idle => tracker'.instance = [tracker.instance EXCEPT !.tests = new]
      BY <2>1, <2>3 DEF Busy
    <3> QED
      BY <3>1, <3>2
  <2> QED
    BY <1>4, <2>2, <2>4, TrackerKeepsEarned DEF ListPods
<1>5. CASE updateOutcome
  <2>1. tracker \in Busy /\ tracker # Idle /\ tracker.run \in Runs
    BY <1>5, TrackerTypes DEF updateOutcome, Idle, Busy
  <2>2. [tracker.instance EXCEPT !.rv = @ + 1].tests = tracker.instance.tests
    BY <2>1 DEF Busy, Outcomes
  <2>3. \A r \in Runs : \/ outcomes'[r] = outcomes[r]
                       \/ outcomes'[r].tests = tracker.instance.tests
    BY <1>5, <2>1, <2>2 DEF updateOutcome, TypeOK
  <2>4. tracker' = Idle
    BY <1>5 DEF updateOutcome, Finish
  <2> QED
    BY <1>5, <2>1, <2>3, <2>4, TrackerKeepsEarned DEF updateOutcome
<1>6. CASE CallFails
  BY <1>6, TrackerKeepsEarned DEF CallFails
<1>7. CASE Crash
  BY <1>7, TrackerKeepsEarned DEF Crash, Restarted
<1>8. ASSUME NEW t \in Launchable, NEW phase \in Phases, SetPod(t, phase),
             UNCHANGED <<outcomes, seen, tracker>>
      PROVE  EarnedInv'
  <2>1. /\ \A u \in TestIDs : shown[u] \subseteq shown'[u]
        /\ \A u \in TestIDs : pods'[u] # NoPod => getTestResultFromPod(pods'[u]) \in shown'[u]
    BY <1>8, TrackerAssumption DEF SetPod, TypeOK, EarnedInv
  <2> QED
    BY <1>8, <2>1, PodKeepsEarned
<1>9. ASSUME NEW t \in Launchable, LosePod(t) PROVE EarnedInv'
  <2>1. \A u \in TestIDs : pods'[u] # NoPod => pods'[u] = pods[u]
    BY <1>9 DEF LosePod, TypeOK
  <2> QED
    BY <1>9, <2>1, PodKeepsEarned DEF LosePod, EarnedInv
<1>10. ASSUME NEW r \in Runs, CreateOutcome(r) PROVE EarnedInv'
  <2>1. PICK tests \in SUBSET Readings(r) :
              outcomes' = [outcomes EXCEPT ![r] = [rv |-> 1, tests |-> tests]]
    BY <1>10 DEF CreateOutcome
  <2>2. tests \in SUBSET Tests /\ Earned(tests)
    BY DEF Readings, Earned
  <2>3. \A u \in Runs : outcomes'[u] = outcomes[u] \/ outcomes'[u].tests = tests
    BY <2>1 DEF TypeOK
  <2> QED
    BY <1>10, <2>2, <2>3, PodKeepsEarned DEF CreateOutcome, podVars, EarnedInv
<1>11. CASE UNCHANGED vars
  BY <1>11, TrackerKeepsEarned DEF vars, EarnedInv
<1>12. CASE World
  <2>1. ASSUME NEW t \in Launchable, LaunchPod(t) PROVE EarnedInv'
    BY <1>8, <2>1 DEF LaunchPod, Phases
  <2>2. ASSUME NEW t \in Launchable, NEW phase \in Phases, PodMoves(t, phase) PROVE EarnedInv'
    BY <1>8, <2>2 DEF PodMoves
  <2> QED
    BY <1>9, <1>10, <1>12, <2>1, <2>2 DEF World
<1> QED
  BY <1>1, <1>2, <1>3, <1>4, <1>5, <1>6, <1>7, <1>11, <1>12
     DEF Next, Reconciling, TrackerStep

(* The two parts need each other: what the tracker writes has the types of *)
(* what the pods have shown.                                               *)
THEOREM Invariance == Spec => [](TypeOK /\ EarnedInv)
<1>1. Init => TypeOK /\ EarnedInv
  BY InitTypeOK, InitEarned
<1>2. TypeOK /\ EarnedInv /\ [Next]_vars => (TypeOK /\ EarnedInv)'
  BY NextTypeOK, NextEarned
<1> QED
  BY <1>1, <1>2, PTL DEF Spec

(* Every variable holds what the code can put there, for any runs, tests   *)
(* and bounds.                                                             *)
THEOREM TypeCorrect == Spec => []TypeOK
BY Invariance, PTL

(* A Pass or Fail in an Outcome was shown by a pod of that very test,      *)
(* whatever the cache shows and however often the controller starts over.  *)
THEOREM Earnt == Spec => []VerdictsAreEarned
<1>1. EarnedInv => VerdictsAreEarned
  BY DEF EarnedInv, VerdictsAreEarned
<1> QED
  BY <1>1, Invariance, PTL

----------------------------------------------------------------------------
(* Verdicts are final, and an Outcome's life is the one of OutcomeLife.    *)

Inv == TypeOK /\ EarnedInv /\ FinalInv /\ VersionInv

LEMMA NextFinal == Inv /\ [Next]_vars => FinalInv'
<1> SUFFICES ASSUME Inv, [Next]_vars PROVE FinalInv'
  OBVIOUS
<1> USE DEF Inv
<1>1. CASE UNCHANGED podVars
  BY <1>1 DEF FinalInv, podVars
<1>2. ASSUME NEW t \in Launchable, LaunchPod(t) PROVE FinalInv'
  <2>1. /\ shown'[t] = {getTestResultFromPod(pods'[t])}
        /\ \A u \in TestIDs \ {t} : shown'[u] = shown[u] /\ pods'[u] = pods[u]
    BY <1>2, TrackerAssumption DEF LaunchPod, SetPod, TypeOK
  <2> QED
    BY <2>1 DEF FinalInv
<1>3. ASSUME NEW t \in Launchable, NEW phase \in Phases, PodMoves(t, phase) PROVE FinalInv'
  <2>1. pods[t] \in Phases \ TerminalPhases
    BY <1>3, KubeletAssumption DEF PodMoves
  <2>2. getTestResultFromPod(pods[t]) \notin Verdicts /\ pods[t] # NoPod
    BY <2>1 DEF getTestResultFromPod, Phases, TerminalPhases, Verdicts, NoPod
  <2>3. shown[t] \cap Verdicts = {}
    BY <2>2, TrackerAssumption DEF FinalInv
  <2>4. /\ shown'[t] = shown[t] \cup {getTestResultFromPod(pods'[t])}
        /\ \A u \in TestIDs \ {t} : shown'[u] = shown[u] /\ pods'[u] = pods[u]
    BY <1>3, TrackerAssumption DEF PodMoves, SetPod, TypeOK
  <2> QED
    BY <2>3, <2>4 DEF FinalInv
<1>4. ASSUME NEW t \in Launchable, LosePod(t) PROVE FinalInv'
  <2>1. \A u \in TestIDs : shown'[u] = shown[u] /\ (pods'[u] # NoPod => pods'[u] = pods[u])
    BY <1>4 DEF LosePod, TypeOK
  <2> QED
    BY <2>1 DEF FinalInv
<1>5. CASE Reconciling \/ Crash \/ (\E r \in Runs : CreateOutcome(r)) \/ UNCHANGED vars
  <2>1. UNCHANGED podVars
    BY <1>5 DEF Reconciling, TrackerStep, GetOutcome, WatchOutcome, TimerFires, ListPods,
                updateOutcome, CallFails, Crash, Restarted, CreateOutcome, vars
  <2> QED
    BY <1>1, <2>1
<1> QED
  BY <1>2, <1>3, <1>4, <1>5 DEF Next, World

(* Refreshing the current Outcome loses no test and no verdict.            *)
LEMMA RefreshRevises ==
    ASSUME TypeOK, EarnedInv, FinalInv, NEW tests \in SUBSET Tests, Earned(tests)
    PROVE  Life!Revises({Refreshed(test) : test \in tests}, tests)
<1> DEFINE new == {Refreshed(test) : test \in tests}
<1>1. ASSUME NEW test \in tests, test.result \in Verdicts
      PROVE  Refreshed(test) = test
  <2>1. test.result \in shown[test.id] /\ test.id \in TestIDs /\ test.result \in Results
    BY <1>1 DEF Earned, Tests
  <2>2. CASE pods[test.id] # NoPod
    <3>1. test.result = getTestResultFromPod(pods[test.id])
      BY <1>1, <2>1, <2>2 DEF FinalInv
    <3>2. Refreshed(test) = [test EXCEPT !.result = test.result]
      BY <2>2, <3>1 DEF Refreshed
    <3> QED
      BY <3>2 DEF Tests
  <2>3. CASE pods[test.id] = NoPod
    BY <1>1, <2>3 DEF Refreshed, Verdicts
  <2> QED
    BY <2>2, <2>3
<1>2. IDsOf(new) = IDsOf(tests)
  BY RefreshedTests
<1>3. {test \in tests : test.result \in Verdicts} \subseteq new
  <2> SUFFICES ASSUME NEW test \in tests, test.result \in Verdicts
               PROVE  test \in new
    OBVIOUS
  <2>1. \E u \in tests : test = Refreshed(u)
    BY <1>1
  <2> QED
    BY <2>1
<1> HIDE DEF new
<1>4. Life!Revises(new, tests)
  BY <1>2, <1>3 DEF Life!Revises, Life!IDsOf, IDsOf, Life!Verdicts, Verdicts
<1> QED
  BY <1>4 DEF new

LEMMA NextVersion == Inv /\ [Next]_vars => VersionInv'
<1> SUFFICES ASSUME Inv, [Next]_vars PROVE VersionInv'
  OBVIOUS
<1> USE DEF Inv
<1> DEFINE Current(r) == /\ outcomes[r] # Nil
                         /\ seen[r].rv <= outcomes[r].rv
                         /\ seen[r].rv = outcomes[r].rv => seen[r] = outcomes[r]
           Held == /\ outcomes[tracker.run] # Nil
                   /\ tracker.instance.rv <= outcomes[tracker.run].rv
                   /\ tracker.instance.rv = outcomes[tracker.run].rv =>
                        IF tracker.pc = "list"
                        THEN tracker.instance = outcomes[tracker.run]
                        ELSE Life!Revises(tracker.instance.tests, outcomes[tracker.run].tests)
<1>a. VersionInv = ((\A r \in Runs : seen[r] # Nil => Current(r)) /\ (tracker # Idle => Held))
  BY DEF VersionInv
<1>b. \A r \in Runs : outcomes[r] # Nil => outcomes[r].rv \in Nat
  BY TrackerTypes DEF Outcomes
<1>c. tracker # Idle => tracker \in Busy /\ tracker.run \in Runs
  BY TrackerTypes DEF Busy
<1>1. ASSUME NEW r \in Runs, GetOutcome(r) PROVE VersionInv'
  <2>1. CASE tracker' = Idle
    BY <1>1, <2>1 DEF GetOutcome, VersionInv
  <2>2. CASE tracker' # Idle
    <3>1. /\ seen[r] # Nil
          /\ tracker'.run = r /\ tracker'.pc = "list" /\ tracker'.instance = seen[r]
      BY <1>1, <2>2 DEF GetOutcome
    <3> QED
      BY <1>1, <3>1 DEF GetOutcome, VersionInv
  <2> QED
    BY <2>1, <2>2
<1>2. ASSUME NEW r \in Runs, WatchOutcome(r) PROVE VersionInv'
  <2>1. seen'[r] = outcomes[r] /\ \A u \in Runs \ {r} : seen'[u] = seen[u]
    BY <1>2 DEF WatchOutcome, TypeOK
  <2>2. UNCHANGED <<outcomes, tracker>>
    BY <1>2 DEF WatchOutcome
  <2> QED
    BY <1>b, <2>1, <2>2 DEF VersionInv
<1>3. ASSUME UNCHANGED <<outcomes, seen, tracker>> PROVE VersionInv'
  BY <1>3 DEF VersionInv
<1>4. CASE ListPods
  <2>1. UNCHANGED <<outcomes, seen>>
    BY <1>4 DEF ListPods
  <2>2. CASE tracker' = Idle
    BY <2>1, <2>2 DEF VersionInv
  <2>3. CASE tracker' # Idle
    <3> DEFINE old == tracker.instance.tests
               new == {Refreshed(test) : test \in old}
    <3>1. /\ tracker \in Busy /\ tracker # Idle /\ tracker.pc = "list"
          /\ tracker.run \in Runs /\ tracker.instance \in Outcomes
          /\ old \in SUBSET Tests /\ Earned(old)
      BY <1>4, TrackerTypes DEF ListPods, Idle, Busy, Outcomes, EarnedInv
    <3>2. Life!Revises(new, old)
      BY <3>1, RefreshRevises
    <3>3. \E finalized \in BOOLEAN :
              tracker' = [tracker EXCEPT !.pc = "update",
                                         !.instance = [@ EXCEPT !.tests = new],
                                         !.finalized = finalized]
      BY <1>4, <2>3 DEF ListPods, Finish
    <3> HIDE DEF new
    <3>4. /\ [tracker.instance EXCEPT !.tests = new].tests = new
          /\ [tracker.instance EXCEPT !.tests = new].rv = tracker.instance.rv
      BY <3>1 DEF Outcomes
    <3>5. /\ tracker'.instance = [tracker.instance EXCEPT !.tests = new]
          /\ tracker'.run = tracker.run /\ tracker'.pc = "update"
      BY <3>1, <3>3 DEF Busy
    <3> QED
      BY <2>1, <3>1, <3>2, <3>4, <3>5 DEF VersionInv
  <2> QED
    BY <2>2, <2>3
<1>5. CASE updateOutcome
  <2>1. /\ tracker \in Busy /\ tracker # Idle /\ tracker.run \in Runs
        /\ tracker.instance \in Outcomes
    BY <1>5, TrackerTypes DEF updateOutcome, Idle, Busy
  <2>2. tracker' = Idle /\ UNCHANGED seen
    BY <1>5 DEF updateOutcome, Finish
  <2>3. CASE UNCHANGED outcomes
    BY <2>2, <2>3 DEF VersionInv
  <2>4. CASE /\ outcomes[tracker.run].rv = tracker.instance.rv
             /\ outcomes' = [outcomes EXCEPT ![tracker.run] =
                               [tracker.instance EXCEPT !.rv = @ + 1]]
    <3>1. [tracker.instance EXCEPT !.rv = @ + 1] \in Outcomes
      BY <2>1 DEF Outcomes
    <3>2. [tracker.instance EXCEPT !.rv = @ + 1].rv = tracker.instance.rv + 1
      BY <2>1 DEF Outcomes
    <3>3. /\ outcomes'[tracker.run] # Nil
          /\ outcomes'[tracker.run].rv = outcomes[tracker.run].rv + 1
          /\ \A u \in Runs \ {tracker.run} : outcomes'[u] = outcomes[u]
      BY <2>1, <2>4, <3>1, <3>2, NilAssumption DEF TypeOK
    <3>4. outcomes[tracker.run] # Nil
      BY <2>1 DEF VersionInv
    <3>5. \A r \in Runs : seen[r] # Nil => seen[r].rv \in Nat
      BY TrackerTypes DEF Outcomes
    <3> QED
      BY <1>b, <2>1, <2>2, <3>3, <3>4, <3>5 DEF VersionInv
  <2> QED
    BY <1>5, <2>3, <2>4 DEF updateOutcome
<1>6. CASE CallFails
  BY <1>6 DEF CallFails, VersionInv
<1>7. CASE Crash
  BY <1>7, <1>b DEF Crash, Restarted, podVars, VersionInv
<1>8. ASSUME NEW r \in Runs, CreateOutcome(r) PROVE VersionInv'
  <2>1. outcomes[r] = Nil /\ \A u \in Runs \ {r} : outcomes'[u] = outcomes[u]
    BY <1>8 DEF CreateOutcome, TypeOK
  <2>2. UNCHANGED <<seen, tracker>>
    BY <1>8 DEF CreateOutcome
  <2> QED
    BY <1>c, <2>1, <2>2 DEF VersionInv
<1>9. CASE (\E r \in Runs : TimerFires(r)) \/ UNCHANGED vars
  <2>1. UNCHANGED <<outcomes, seen, tracker>>
    BY <1>9 DEF TimerFires, vars
  <2> QED
    BY <1>3, <2>1
<1>10. CASE World
  <2>1. CASE \E t \in Launchable : LaunchPod(t) \/ LosePod(t)
    BY <1>3, <2>1 DEF LaunchPod, LosePod
  <2>2. CASE \E t \in Launchable, phase \in Phases : PodMoves(t, phase)
    BY <1>3, <2>2 DEF PodMoves
  <2> QED
    BY <1>8, <1>10, <2>1, <2>2 DEF World
<1> QED
  BY <1>1, <1>2, <1>4, <1>5, <1>6, <1>7, <1>9, <1>10 DEF Next, Reconciling, TrackerStep

LEMMA InitInv == Init => Inv
<1> SUFFICES ASSUME Init PROVE Inv
  OBVIOUS
<1>1. FinalInv
  BY DEF Init, FinalInv
<1>2. VersionInv
  BY DEF Init, VersionInv
<1> QED
  BY <1>1, <1>2, InitTypeOK, InitEarned DEF Inv

LEMMA NextInv == Inv /\ [Next]_vars => Inv'
BY NextTypeOK, NextEarned, NextFinal, NextVersion DEF Inv

(* The whole invariant: types, earned and final verdicts, current copies.  *)
THEOREM FullInvariance == Spec => []Inv
BY NextInv, InitInv, PTL DEF Spec

(* The Outcomes as their reader sees them.                                 *)
Report == [r \in Runs |-> IF outcomes[r] = Nil THEN Nil ELSE [tests |-> outcomes[r].tests]]

LEMMA ReportType ==
    ASSUME NEW outcome \in Outcomes
    PROVE  /\ outcome # Nil
           /\ [tests |-> outcome.tests] \in Reports
           /\ [tests |-> outcome.tests] # Nil
BY NilAssumption DEF Outcomes, Reports

(* A step changes at most one Outcome: it creates it, or it writes what a  *)
(* reconcile made of the current one.                                      *)
LEMMA OutcomeSteps ==
    ASSUME Inv, [Next]_vars
    PROVE  \/ UNCHANGED outcomes
           \/ \E r \in Runs :
                /\ \A u \in Runs \ {r} : outcomes'[u] = outcomes[u]
                /\ outcomes'[r] # Nil
                /\ \/ outcomes[r] = Nil /\ \A test \in outcomes'[r].tests : test.id.run = r
                   \/ outcomes[r] # Nil /\ Life!Revises(outcomes'[r].tests, outcomes[r].tests)
<1> USE DEF Inv
<1>1. ASSUME NEW r \in Runs, CreateOutcome(r)
      PROVE  /\ \A u \in Runs \ {r} : outcomes'[u] = outcomes[u]
             /\ outcomes'[r] # Nil /\ outcomes[r] = Nil
             /\ \A test \in outcomes'[r].tests : test.id.run = r
  <2>1. PICK tests \in SUBSET Readings(r) :
              outcomes' = [outcomes EXCEPT ![r] = [rv |-> 1, tests |-> tests]]
    BY <1>1 DEF CreateOutcome
  <2>2. tests \in SUBSET Tests /\ \A test \in tests : test.id.run = r
    BY DEF Readings
  <2>3. outcomes'[r] = [rv |-> 1, tests |-> tests] /\ outcomes'[r] \in Outcomes
    BY <2>1, <2>2 DEF TypeOK, Outcomes
  <2> QED
    BY <1>1, <2>1, <2>2, <2>3, NilAssumption DEF CreateOutcome, TypeOK
<1>2. ASSUME updateOutcome, outcomes' # outcomes
      PROVE  /\ tracker.run \in Runs
             /\ \A u \in Runs \ {tracker.run} : outcomes'[u] = outcomes[u]
             /\ outcomes'[tracker.run] # Nil /\ outcomes[tracker.run] # Nil
             /\ Life!Revises(outcomes'[tracker.run].tests, outcomes[tracker.run].tests)
  <2>1. /\ tracker \in Busy /\ tracker # Idle /\ tracker.run \in Runs /\ tracker.pc = "update"
        /\ tracker.instance \in Outcomes
    BY <1>2, TrackerTypes DEF updateOutcome, Idle, Busy
  <2>2. /\ outcomes[tracker.run].rv = tracker.instance.rv
        /\ outcomes' = [outcomes EXCEPT ![tracker.run] = [tracker.instance EXCEPT !.rv = @ + 1]]
    BY <1>2 DEF updateOutcome
  <2>3. /\ [tracker.instance EXCEPT !.rv = @ + 1] \in Outcomes
        /\ [tracker.instance EXCEPT !.rv = @ + 1].tests = tracker.instance.tests
    BY <2>1 DEF Outcomes
  <2>4. /\ outcomes[tracker.run] # Nil
        /\ Life!Revises(tracker.instance.tests, outcomes[tracker.run].tests)
    <3>1. tracker.instance.rv = outcomes[tracker.run].rv /\ tracker.pc # "list"
      BY <2>1, <2>2
    <3> QED
      BY <2>1, <3>1 DEF VersionInv
  <2>5. outcomes'[tracker.run].tests = tracker.instance.tests /\ outcomes'[tracker.run] # Nil
    BY <2>1, <2>2, <2>3, NilAssumption DEF TypeOK
  <2>6. \A u \in Runs \ {tracker.run} : outcomes'[u] = outcomes[u]
    BY <2>2 DEF TypeOK
  <2> QED
    BY <2>1, <2>4, <2>5, <2>6
<1>3. \/ \E r \in Runs : CreateOutcome(r)
      \/ updateOutcome /\ outcomes' # outcomes
      \/ UNCHANGED outcomes
  BY DEF Next, Reconciling, World, TrackerStep, GetOutcome, WatchOutcome, TimerFires, ListPods,
         CallFails, Crash, Restarted, LaunchPod, LosePod, PodMoves, vars
<1> QED
  BY <1>1, <1>2, <1>3

LEMMA LifeReports == Life!Reports = Reports
BY DEF Life!Reports, Life!Tests, Life!TestIDs, Life!Results, Life!NoRun, Life!Latest,
       Life!NoRelease, Reports, Tests, TestIDs, Results, NoRun, Latest, NoRelease

(* Every step is a step of OutcomeLife, or none.                           *)
LEMMA StepImplements ==
    ASSUME Inv, TypeOK', [Next]_vars
    PROVE  [Life!Next]_Report
<1> USE DEF Inv
<1>1. CASE UNCHANGED outcomes
  BY <1>1 DEF Report
<1>2. ASSUME NEW r \in Runs,
             \A u \in Runs \ {r} : outcomes'[u] = outcomes[u],
             outcomes'[r] # Nil,
             \/ outcomes[r] = Nil /\ \A test \in outcomes'[r].tests : test.id.run = r
             \/ outcomes[r] # Nil /\ Life!Revises(outcomes'[r].tests, outcomes[r].tests)
      PROVE  Life!Next
  <2>1. outcomes'[r] \in Outcomes
    BY <1>2 DEF TypeOK
  <2>2. Report'[r] = [tests |-> outcomes'[r].tests]
    BY <1>2 DEF Report
  <2>3. Report'[r] \in Reports /\ Report'[r].tests = outcomes'[r].tests
    BY <2>1, <2>2, ReportType
  <2>4. Report' = [Report EXCEPT ![r] = Report'[r]]
    BY <1>2 DEF Report
  <2>5. CASE outcomes[r] = Nil
    <3>1. Report[r] = Nil /\ \A test \in Report'[r].tests : test.id.run = r
      BY <1>2, <2>3, <2>5 DEF Report
    <3>2. Life!Publish(r)
      BY <2>3, <3>1, LifeReports DEF Life!Publish, Report
    <3> QED
      BY <2>4, <3>2 DEF Life!Next, Report
  <2>6. CASE outcomes[r] # Nil
    <3>1. outcomes[r] \in Outcomes
      BY <2>6, TrackerTypes
    <3>2. Report[r] = [tests |-> outcomes[r].tests]
      BY <2>6 DEF Report
    <3>3. Report[r] # Nil /\ Report[r].tests = outcomes[r].tests
      BY <3>1, <3>2, ReportType
    <3>4. Life!Revises(Report'[r].tests, Report[r].tests)
      BY <1>2, <2>3, <2>6, <3>3
    <3>5. Life!Revise(r)
      BY <2>3, <3>3, <3>4, LifeReports DEF Life!Revise, Report
    <3> QED
      BY <2>4, <3>5 DEF Life!Next, Report
  <2> QED
    BY <2>5, <2>6
<1> QED
  BY <1>1, <1>2, OutcomeSteps

(* An Outcome is published once, with all its tests, and a verdict in it   *)
(* is there for good: the tracker implements OutcomeLife.                  *)
THEOREM Implements == Spec => OutcomeLifeSpec
<1>1. Init => Life!Init
  BY DEF Init, Life!Init
<1>2. Inv /\ Inv' /\ [Next]_vars => [Life!Next]_Report
  BY StepImplements DEF Inv
<1> QED
  BY <1>1, <1>2, FullInvariance, PTL DEF Spec, OutcomeLifeSpec, Life!Spec, Report

----------------------------------------------------------------------------
(* The Outcome controller looks at an Outcome again as long as it says     *)
(* Pending.  Only its creation and its own timers queue an Outcome, so a   *)
(* reconcile that ends for good must not have been misled by an old copy:  *)
(* what an old copy calls done is done in the stored Outcome, too.         *)

(* A pod that is no longer pending does not become pending again.          *)
NeverPendingAgain ==
    \A m \in KubeletMoves :
        getTestResultFromPod(m[1]) # "Pending" => getTestResultFromPod(m[2]) # "Pending"

(* The pod of a test has come to an end, whatever that was.                *)
Over(t) == pods[t] = NoPod \/ getTestResultFromPod(pods[t]) # "Pending"

Settled(tests) == \A test \in tests : test.result # "Pending"

(* A copy lists tests whose pods were launched, and calls a test settled   *)
(* only if its pod is over.                                                *)
Truthful(tests) ==
    \A test \in tests :
        shown[test.id] # {} /\ (test.result # "Pending" => Over(test.id))

ShownInv == \A t \in TestIDs : (\E x \in shown[t] : x # "Pending") => Over(t)

CopiesInv ==
    /\ \A r \in Runs : outcomes[r] # Nil => Truthful(outcomes[r].tests)
    /\ \A r \in Runs : seen[r] # Nil => Truthful(seen[r].tests)
    /\ tracker # Idle => Truthful(tracker.instance.tests)

(* What an old copy calls settled is settled, and a write based on the     *)
(* current Outcome unsettles nothing.                                      *)
OrderInv ==
    /\ \A r \in Runs : seen[r] # Nil /\ Settled(seen[r].tests) => Settled(outcomes[r].tests)
    /\ tracker # Idle /\ tracker.pc = "list" /\ Settled(tracker.instance.tests) =>
         Settled(outcomes[tracker.run].tests)
    /\ tracker # Idle /\ tracker.pc = "update" =>
         /\ tracker.finalized => Settled(tracker.instance.tests)
         /\ tracker.instance.rv = outcomes[tracker.run].rv /\ Settled(outcomes[tracker.run].tests)
              => Settled(tracker.instance.tests)

PendingInv == ShownInv /\ CopiesInv /\ OrderInv /\ NeverAbandoned

----------------------------------------------------------------------------
(* The pods.                                                               *)

LEMMA PhasesArePods == NoPod \notin Phases
BY DEF NoPod, Phases

(* A test whose pod was launched stays launched, and a pod that is over    *)
(* stays so.                                                               *)
LEMMA OverStays ==
    ASSUME Inv, NeverPendingAgain, [Next]_vars
    PROVE  \A t \in TestIDs : shown[t] # {} => shown'[t] # {} /\ (Over(t) => Over(t)')
<1> SUFFICES ASSUME NEW t \in TestIDs, shown[t] # {}
             PROVE  shown'[t] # {} /\ (Over(t) => Over(t)')
  OBVIOUS
<1> USE DEF Inv, TypeOK, Over
<1>1. CASE UNCHANGED podVars
  BY <1>1 DEF podVars
<1>2. ASSUME NEW u \in Launchable, LaunchPod(u) PROVE shown'[t] # {} /\ (Over(t) => Over(t)')
  <2>1. t # u /\ u \in TestIDs
    BY <1>2, TrackerAssumption DEF LaunchPod
  <2> QED
    BY <1>2, <2>1 DEF LaunchPod, SetPod
<1>3. ASSUME NEW u \in Launchable, LosePod(u) PROVE shown'[t] # {} /\ (Over(t) => Over(t)')
  BY <1>3, TrackerAssumption DEF LosePod
<1>4. ASSUME NEW u \in Launchable, NEW phase \in Phases, PodMoves(u, phase)
      PROVE  shown'[t] # {} /\ (Over(t) => Over(t)')
  <2>1. /\ pods' = [pods EXCEPT ![u] = phase]
        /\ shown' = [shown EXCEPT ![u] = @ \cup {getTestResultFromPod(phase)}]
        /\ <<pods[u], phase>> \in KubeletMoves
    BY <1>4 DEF PodMoves, SetPod
  <2>2. u \in TestIDs
    BY TrackerAssumption
  <2>3. shown'[t] # {}
    BY <2>1, <2>2
  <2>4. CASE u # t
    BY <2>1, <2>3, <2>4
  <2>5. CASE u = t
    <3>1. <<pods[u], phase>> \in Phases \X Phases
      BY <2>1, KubeletAssumption
    <3>2. pods[u] # NoPod
      BY <3>1, PhasesArePods
    <3>3. getTestResultFromPod(pods[u]) # "Pending" => getTestResultFromPod(phase) # "Pending"
      BY <2>1 DEF NeverPendingAgain
    <3>4. pods'[t] = phase
      BY <2>1, <2>2, <2>5
    <3> QED
      BY <2>3, <2>5, <3>2, <3>3, <3>4
  <2> QED
    BY <2>4, <2>5
<1> QED
  BY <1>1, <1>2, <1>3, <1>4
     DEF Next, Reconciling, World, TrackerStep, GetOutcome, WatchOutcome, TimerFires, ListPods,
         updateOutcome, CallFails, Crash, Restarted, CreateOutcome, vars

LEMMA NextShown == Inv /\ ShownInv /\ NeverPendingAgain /\ [Next]_vars => ShownInv'
<1> SUFFICES ASSUME Inv, ShownInv, NeverPendingAgain, [Next]_vars,
                    NEW t \in TestIDs, NEW x \in shown'[t], x # "Pending"
             PROVE  Over(t)'
  BY DEF ShownInv
<1>1. CASE x \in shown[t]
  <2>1. shown[t] # {} /\ Over(t)
    BY <1>1 DEF ShownInv
  <2> QED
    BY <2>1, OverStays
<1>2. CASE x \notin shown[t]
  <2>1. PICK u \in Launchable, phase \in Phases : SetPod(u, phase)
    BY <1>2
       DEF Next, Reconciling, World, TrackerStep, GetOutcome, WatchOutcome, TimerFires,
           ListPods, updateOutcome, CallFails, Crash, Restarted, CreateOutcome, LaunchPod,
           LosePod, PodMoves, podVars, vars, Phases
  <2>2. t = u /\ x = getTestResultFromPod(phase) /\ pods'[t] = phase
    BY <1>2, <2>1, TrackerAssumption DEF SetPod, Inv, TypeOK
  <2> QED
    BY <2>2 DEF Over
<1> QED
  BY <1>1, <1>2

----------------------------------------------------------------------------
(* The copies.                                                             *)

LEMMA CopyTypes ==
    ASSUME Inv
    PROVE  /\ \A r \in Runs : outcomes[r] # Nil => outcomes[r].tests \in SUBSET Tests
           /\ \A r \in Runs : seen[r] # Nil => seen[r].tests \in SUBSET Tests
           /\ tracker # Idle =>
                /\ tracker \in Busy /\ tracker.run \in Runs
                /\ tracker.instance \in Outcomes
                /\ tracker.instance.tests \in SUBSET Tests
BY TrackerTypes DEF Inv, Outcomes, Busy

(* A step of the tracker: where a copy comes from.                         *)
LEMMA TrackerKeepsCopies ==
    ASSUME Inv, CopiesInv, UNCHANGED podVars,
           \A r \in Runs : outcomes'[r] # Nil =>
               \/ outcomes'[r] = outcomes[r]
               \/ tracker # Idle /\ outcomes'[r].tests = tracker.instance.tests,
           \A r \in Runs : seen'[r] # Nil => seen'[r] = seen[r] \/ seen'[r] = outcomes[r],
           tracker' # Idle => Truthful(tracker'.instance.tests)
    PROVE  CopiesInv'
BY DEF CopiesInv, Truthful, Over, podVars

(* A step of a pod leaves every copy true.                                 *)
LEMMA PodKeepsCopies ==
    ASSUME Inv, CopiesInv, UNCHANGED <<outcomes, seen, tracker>>,
           \A t \in TestIDs : shown[t] # {} => shown'[t] # {} /\ (Over(t) => Over(t)')
    PROVE  CopiesInv'
<1>1. ASSUME NEW r \in Runs, outcomes'[r] # Nil PROVE Truthful(outcomes[r].tests)'
  <2>1. outcomes[r].tests \in SUBSET Tests /\ Truthful(outcomes[r].tests)
    BY <1>1, CopyTypes DEF CopiesInv
  <2> QED
    BY <2>1 DEF Truthful, Tests
<1>2. ASSUME NEW r \in Runs, seen'[r] # Nil PROVE Truthful(seen[r].tests)'
  <2>1. seen[r].tests \in SUBSET Tests /\ Truthful(seen[r].tests)
    BY <1>2, CopyTypes DEF CopiesInv
  <2> QED
    BY <2>1 DEF Truthful, Tests
<1>3. ASSUME tracker' # Idle PROVE Truthful(tracker.instance.tests)'
  <2>1. tracker.instance.tests \in SUBSET Tests /\ Truthful(tracker.instance.tests)
    BY <1>3, CopyTypes DEF CopiesInv
  <2> QED
    BY <2>1 DEF Truthful, Tests
<1> QED
  BY <1>1, <1>2, <1>3 DEF CopiesInv

(* Refreshing a truthful copy: the pod has the last word, and without one  *)
(* nothing is pending.                                                     *)
LEMMA RefreshedIsTrue ==
    ASSUME Inv, NEW tests \in SUBSET Tests, Truthful(tests)
    PROVE  LET new == {Refreshed(test) : test \in tests}
           IN  /\ Truthful(new)
               /\ Settled(tests) => Settled(new)
               /\ (\A test \in tests : pods[test.id] # NoPod =>
                       getTestResultFromPod(pods[test.id]) # "Pending") => Settled(new)
<1> DEFINE new == {Refreshed(test) : test \in tests}
<1>1. ASSUME NEW test \in tests
      PROVE  /\ Refreshed(test).id = test.id
             /\ pods[test.id] # NoPod =>
                  Refreshed(test).result = getTestResultFromPod(pods[test.id])
             /\ pods[test.id] = NoPod => Refreshed(test).result # "Pending"
  BY DEF Refreshed, Tests, Results
<1>2. Truthful(new)
  BY <1>1 DEF Truthful, Over
<1>3. Settled(tests) => Settled(new)
  BY <1>1 DEF Settled, Truthful, Over
<1>4. (\A test \in tests : pods[test.id] # NoPod =>
          getTestResultFromPod(pods[test.id]) # "Pending") => Settled(new)
  BY <1>1 DEF Settled
<1> QED
  BY <1>2, <1>3, <1>4

(* What ListPods does: it ends the reconcile, or goes on to write a        *)
(* refreshed copy.                                                         *)
LEMMA ListStep ==
    ASSUME Inv, ListPods
    PROVE  LET old == tracker.instance.tests
               new == {Refreshed(test) : test \in old}
               finalized == \A test \in old : pods[test.id] # NoPod =>
                              getTestResultFromPod(pods[test.id]) # "Pending"
           IN  /\ tracker # Idle /\ tracker.pc = "list"
               /\ UNCHANGED <<podVars, outcomes, seen, queue>>
               /\ \/ /\ new = old /\ tracker' = Idle
                     /\ timers' = IF finalized THEN timers ELSE timers \cup {tracker.run}
                  \/ /\ tracker' # Idle /\ tracker'.pc = "update"
                     /\ tracker'.run = tracker.run
                     /\ tracker'.instance.tests = new
                     /\ tracker'.instance.rv = tracker.instance.rv
                     /\ tracker'.finalized => finalized
                     /\ UNCHANGED timers
<1> DEFINE old == tracker.instance.tests
           new == {Refreshed(test) : test \in old}
           finalized == \A test \in old : pods[test.id] # NoPod =>
                          getTestResultFromPod(pods[test.id]) # "Pending"
<1>1. tracker # Idle /\ tracker.pc = "list" /\ UNCHANGED <<podVars, outcomes, seen, queue>>
  BY DEF ListPods, Idle
<1>2. tracker \in Busy /\ tracker.instance \in Outcomes
  BY <1>1, CopyTypes
<1>3. \/ /\ new = old /\ tracker' = Idle
         /\ timers' = IF finalized THEN timers ELSE timers \cup {tracker.run}
      \/ /\ tracker' = [tracker EXCEPT !.pc = "update",
                                      !.instance = [@ EXCEPT !.tests = new],
                                      !.finalized = finalized]
         /\ UNCHANGED timers
  BY DEF ListPods, Finish
<1> HIDE DEF new, finalized
<1>4. ASSUME tracker' = [tracker EXCEPT !.pc = "update",
                                        !.instance = [@ EXCEPT !.tests = new],
                                        !.finalized = finalized]
      PROVE  /\ tracker' # Idle /\ tracker'.pc = "update"
             /\ tracker'.run = tracker.run
             /\ tracker'.instance.tests = new
             /\ tracker'.instance.rv = tracker.instance.rv
             /\ tracker'.finalized => finalized
  <2>1. /\ tracker'.pc = "update" /\ tracker'.run = tracker.run
        /\ tracker'.instance = [tracker.instance EXCEPT !.tests = new]
        /\ tracker'.finalized = finalized
    BY <1>2, <1>4 DEF Busy
  <2>2. /\ [tracker.instance EXCEPT !.tests = new].tests = new
        /\ [tracker.instance EXCEPT !.tests = new].rv = tracker.instance.rv
    BY <1>2 DEF Outcomes
  <2>3. tracker' # Idle
    BY <2>1 DEF Idle
  <2> QED
    BY <2>1, <2>2, <2>3
<1> QED
  BY <1>1, <1>3, <1>4 DEF new, finalized

(* What updateOutcome does: it writes the copy in hand over the Outcome it *)
(* was made from, or queues the Outcome again.                             *)
LEMMA UpdateStep ==
    ASSUME Inv, updateOutcome
    PROVE  /\ tracker # Idle /\ tracker.pc = "update" /\ tracker' = Idle
           /\ UNCHANGED <<podVars, seen>>
           /\ \A r \in Runs \ {tracker.run} : outcomes'[r] = outcomes[r]
           /\ \/ /\ tracker.instance.rv = outcomes[tracker.run].rv
                 /\ outcomes'[tracker.run] # Nil
                 /\ outcomes'[tracker.run].tests = tracker.instance.tests
                 /\ queue' = queue
                 /\ timers' = IF tracker.finalized THEN timers
                                                   ELSE timers \cup {tracker.run}
              \/ /\ queue' = queue \cup {tracker.run}
                 /\ UNCHANGED <<outcomes, timers>>
<1>1. tracker # Idle /\ tracker.pc = "update" /\ tracker' = Idle /\ UNCHANGED <<podVars, seen>>
  BY DEF updateOutcome, Idle, Finish
<1>2. tracker.run \in Runs /\ tracker.instance \in Outcomes
  BY <1>1, CopyTypes
<1>3. CASE outcomes[tracker.run].rv = tracker.instance.rv
  <2>1. outcomes' = [outcomes EXCEPT ![tracker.run] = [tracker.instance EXCEPT !.rv = @ + 1]]
    BY <1>3 DEF updateOutcome
  <2>2. /\ [tracker.instance EXCEPT !.rv = @ + 1] \in Outcomes
        /\ [tracker.instance EXCEPT !.rv = @ + 1].tests = tracker.instance.tests
    BY <1>2 DEF Outcomes
  <2>3. outcomes'[tracker.run] = [tracker.instance EXCEPT !.rv = @ + 1]
    BY <1>2, <2>1 DEF Inv, TypeOK
  <2>4. \A r \in Runs \ {tracker.run} : outcomes'[r] = outcomes[r]
    BY <2>1 DEF Inv, TypeOK
  <2>5. /\ queue' = queue
        /\ timers' = IF tracker.finalized THEN timers ELSE timers \cup {tracker.run}
    BY <1>3 DEF updateOutcome, Finish
  <2> QED
    BY <1>1, <1>3, <2>2, <2>3, <2>4, <2>5, NilAssumption
<1>4. CASE outcomes[tracker.run].rv # tracker.instance.rv
  BY <1>1, <1>4 DEF updateOutcome
<1> QED
  BY <1>3, <1>4

LEMMA NextCopies ==
    Inv /\ ShownInv /\ CopiesInv /\ NeverPendingAgain /\ [Next]_vars => CopiesInv'
<1> SUFFICES ASSUME Inv, ShownInv, CopiesInv, NeverPendingAgain, [Next]_vars
             PROVE  CopiesInv'
  OBVIOUS
<1>1. ASSUME NEW r \in Runs, GetOutcome(r) PROVE CopiesInv'
  <2>1. tracker' # Idle => Truthful(tracker'.instance.tests)
    BY <1>1 DEF GetOutcome, CopiesInv
  <2> QED
    BY <1>1, <2>1, TrackerKeepsCopies DEF GetOutcome
<1>2. ASSUME NEW r \in Runs, WatchOutcome(r) PROVE CopiesInv'
  <2>1. \A u \in Runs : seen'[u] = seen[u] \/ seen'[u] = outcomes[u]
    BY <1>2 DEF WatchOutcome, Inv, TypeOK
  <2> QED
    BY <1>2, <2>1, TrackerKeepsCopies DEF WatchOutcome, CopiesInv
<1>3. CASE ListPods
  <2>1. tracker' # Idle => Truthful(tracker'.instance.tests)
    BY <1>3, ListStep, CopyTypes, RefreshedIsTrue DEF CopiesInv
  <2>2. UNCHANGED <<podVars, outcomes, seen>>
    BY <1>3 DEF ListPods
  <2> QED
    BY <2>1, <2>2, TrackerKeepsCopies
<1>4. CASE updateOutcome
  <2>1. \A r \in Runs : \/ outcomes'[r] = outcomes[r]
                        \/ tracker # Idle /\ outcomes'[r].tests = tracker.instance.tests
    BY <1>4, UpdateStep
  <2>2. tracker' = Idle /\ UNCHANGED <<podVars, seen>>
    BY <1>4, UpdateStep
  <2> QED
    BY <2>1, <2>2, TrackerKeepsCopies
<1>5. CASE CallFails \/ Crash
  BY <1>5, TrackerKeepsCopies DEF CallFails, Crash, Restarted
<1>6. CASE (\E r \in Runs : TimerFires(r)) \/ UNCHANGED vars
  BY <1>6, TrackerKeepsCopies DEF TimerFires, vars, CopiesInv
<1>7. ASSUME NEW r \in Runs, CreateOutcome(r) PROVE CopiesInv'
  <2>1. PICK tests \in SUBSET Readings(r) :
              outcomes' = [outcomes EXCEPT ![r] = [rv |-> 1, tests |-> tests]]
    BY <1>7 DEF CreateOutcome
  <2>2. Truthful(tests)
    BY DEF Readings, Truthful, ShownInv, Tests
  <2>3. \A u \in Runs : outcomes'[u] = outcomes[u] \/ outcomes'[u].tests = tests
    BY <2>1 DEF Inv, TypeOK
  <2>4. UNCHANGED <<pods, shown, seen, tracker>>
    BY <1>7 DEF CreateOutcome, podVars
  <2> QED
    BY <2>2, <2>3, <2>4 DEF CopiesInv, Truthful, Over
<1>8. CASE \/ \E t \in Launchable : LaunchPod(t) \/ LosePod(t)
           \/ \E t \in Launchable, phase \in Phases : PodMoves(t, phase)
  <2>1. UNCHANGED <<outcomes, seen, tracker>>
    BY <1>8 DEF LaunchPod, LosePod, PodMoves
  <2> QED
    BY <2>1, OverStays, PodKeepsCopies
<1> QED
  BY <1>1, <1>2, <1>3, <1>4, <1>5, <1>6, <1>7, <1>8 DEF Next, Reconciling, World, TrackerStep

----------------------------------------------------------------------------
(* Old copies.                                                             *)

LEMMA NextOrder == Inv /\ CopiesInv /\ OrderInv /\ [Next]_vars => OrderInv'
<1> SUFFICES ASSUME Inv, CopiesInv, OrderInv, [Next]_vars PROVE OrderInv'
  OBVIOUS
<1> USE DEF OrderInv, Settled
<1>1. ASSUME NEW r \in Runs, GetOutcome(r) PROVE OrderInv'
  <2>1. \/ tracker' = Idle
        \/ /\ seen[r] # Nil
           /\ tracker'.pc = "list" /\ tracker'.run = r /\ tracker'.instance = seen[r]
    BY <1>1 DEF GetOutcome
  <2> QED
    BY <1>1, <2>1 DEF GetOutcome
<1>2. ASSUME NEW r \in Runs, WatchOutcome(r) PROVE OrderInv'
  <2>1. \A u \in Runs : seen'[u] = seen[u] \/ seen'[u] = outcomes[u]
    BY <1>2 DEF WatchOutcome, Inv, TypeOK
  <2> QED
    BY <1>2, <2>1 DEF WatchOutcome
<1>3. CASE ListPods
  <2>1. UNCHANGED <<outcomes, seen>>
    BY <1>3 DEF ListPods
  <2>2. CASE tracker' = Idle
    BY <2>1, <2>2
  <2>3. CASE tracker' # Idle
    <3> DEFINE old == tracker.instance.tests
               new == {Refreshed(test) : test \in old}
               finalized == \A test \in old : pods[test.id] # NoPod =>
                              getTestResultFromPod(pods[test.id]) # "Pending"
    <3>1. /\ tracker # Idle /\ tracker.pc = "list"
          /\ tracker'.pc = "update" /\ tracker'.run = tracker.run
          /\ tracker'.instance.tests = new /\ tracker'.instance.rv = tracker.instance.rv
          /\ tracker'.finalized => finalized
      BY <1>3, <2>3, ListStep
    <3>2. old \in SUBSET Tests /\ Truthful(old)
      BY <3>1, CopyTypes DEF CopiesInv
    <3>3. (Settled(old) => Settled(new)) /\ (finalized => Settled(new))
      BY <3>2, RefreshedIsTrue
    <3>4. tracker.instance.rv = outcomes[tracker.run].rv =>
            tracker.instance = outcomes[tracker.run]
      BY <3>1 DEF Inv, VersionInv
    <3> HIDE DEF new, finalized
    <3> QED
      BY <2>1, <3>1, <3>3, <3>4
  <2> QED
    BY <2>2, <2>3
<1>4. CASE updateOutcome
  <2>1. /\ tracker # Idle /\ tracker.pc = "update" /\ tracker' = Idle /\ UNCHANGED seen
        /\ \A r \in Runs \ {tracker.run} : outcomes'[r] = outcomes[r]
        /\ \/ /\ tracker.instance.rv = outcomes[tracker.run].rv
              /\ outcomes'[tracker.run].tests = tracker.instance.tests
           \/ UNCHANGED outcomes
    BY <1>4, UpdateStep
  <2> QED
    BY <2>1
<1>5. CASE CallFails \/ Crash
  BY <1>5 DEF CallFails, Crash, Restarted
<1>6. ASSUME NEW r \in Runs, CreateOutcome(r) PROVE OrderInv'
  <2>1. outcomes[r] = Nil /\ \A u \in Runs \ {r} : outcomes'[u] = outcomes[u]
    BY <1>6 DEF CreateOutcome, Inv, TypeOK
  <2>2. seen[r] = Nil /\ (tracker # Idle => tracker.run # r)
    BY <2>1 DEF Inv, VersionInv
  <2>3. tracker # Idle => tracker.run \in Runs
    BY CopyTypes
  <2> QED
    BY <1>6, <2>1, <2>2, <2>3 DEF CreateOutcome
<1>7. CASE UNCHANGED <<outcomes, seen, tracker>>
  BY <1>7
<1> QED
  BY <1>1, <1>2, <1>3, <1>4, <1>5, <1>6, <1>7
     DEF Next, Reconciling, World, TrackerStep, TimerFires, LaunchPod, LosePod, PodMoves, vars

----------------------------------------------------------------------------
(* Nothing is abandoned.                                                   *)

Attended(r) ==
    \/ seen[r] = Nil
    \/ r \in queue \cup timers
    \/ tracker # Idle /\ tracker.run = r

LEMMA NextAttended ==
    Inv /\ CopiesInv /\ OrderInv /\ NeverAbandoned /\ [Next]_vars => NeverAbandoned'
<1> SUFFICES ASSUME Inv, CopiesInv, OrderInv, NeverAbandoned, [Next]_vars,
                    NEW u \in Runs, outcomes'[u] # Nil, ~Settled(outcomes'[u].tests)
             PROVE  Attended(u)'
  BY DEF NeverAbandoned, Attended, Settled
<1>0. outcomes'[u] = outcomes[u] => Attended(u)
  BY DEF NeverAbandoned, Attended, Settled
<1> USE DEF Attended
<1>1. ASSUME NEW r \in Runs, GetOutcome(r) PROVE Attended(u)'
  <2>1. CASE u = r /\ seen[r] # Nil
    <3>1. tracker' = [pc |-> "list", run |-> r, instance |-> seen[r], finalized |-> TRUE]
      BY <1>1, <2>1 DEF GetOutcome
    <3>2. tracker'.pc = "list" /\ tracker'.run = r
      BY <3>1
    <3> QED
      BY <2>1, <3>2 DEF Idle
  <2>2. CASE u = r /\ seen[r] = Nil
    BY <1>1, <2>2 DEF GetOutcome
  <2>3. CASE u # r
    BY <1>0, <1>1, <2>3 DEF GetOutcome
  <2> QED
    BY <2>1, <2>2, <2>3
<1>2. ASSUME NEW r \in Runs, WatchOutcome(r) PROVE Attended(u)'
  BY <1>0, <1>2 DEF WatchOutcome, Inv, TypeOK
<1>3. ASSUME NEW r \in Runs, TimerFires(r) PROVE Attended(u)'
  BY <1>0, <1>3 DEF TimerFires
<1>4. CASE ListPods
  <2> DEFINE old == tracker.instance.tests
             new == {Refreshed(test) : test \in old}
             finalized == \A test \in old : pods[test.id] # NoPod =>
                            getTestResultFromPod(pods[test.id]) # "Pending"
  <2>1. /\ tracker # Idle /\ tracker.pc = "list" /\ UNCHANGED <<outcomes, seen, queue>>
        /\ \/ /\ new = old
              /\ timers' = IF finalized THEN timers ELSE timers \cup {tracker.run}
           \/ tracker' # Idle /\ tracker'.run = tracker.run /\ UNCHANGED timers
    BY <1>4, ListStep
  <2>2. new = old /\ finalized => Settled(outcomes[tracker.run].tests)
    <3>1. old \in SUBSET Tests /\ Truthful(old)
      BY <2>1, CopyTypes DEF CopiesInv
    <3>2. finalized => Settled(new)
      BY <3>1, RefreshedIsTrue
    <3> QED
      BY <2>1, <3>2 DEF OrderInv
  <2> HIDE DEF new, finalized
  <2> QED
    BY <1>0, <2>1, <2>2
<1>5. CASE updateOutcome
  <2>1. /\ tracker # Idle /\ tracker.pc = "update" /\ UNCHANGED seen
        /\ \A r \in Runs \ {tracker.run} : outcomes'[r] = outcomes[r]
        /\ \/ /\ outcomes'[tracker.run].tests = tracker.instance.tests
              /\ queue' = queue
              /\ timers' = IF tracker.finalized THEN timers ELSE timers \cup {tracker.run}
           \/ /\ queue' = queue \cup {tracker.run}
              /\ UNCHANGED <<outcomes, timers>>
    BY <1>5, UpdateStep
  <2>2. tracker.finalized => Settled(tracker.instance.tests)
    BY <2>1 DEF OrderInv
  <2> QED
    BY <1>0, <2>1, <2>2
<1>6. CASE CallFails
  BY <1>0, <1>6 DEF CallFails
<1>7. CASE Crash
  BY <1>7 DEF Crash, Restarted, podVars
<1>8. ASSUME NEW r \in Runs, CreateOutcome(r) PROVE Attended(u)'
  <2>1. outcomes[r] = Nil /\ \A v \in Runs \ {r} : outcomes'[v] = outcomes[v]
    BY <1>8 DEF CreateOutcome, Inv, TypeOK
  <2>2. seen[r] = Nil
    BY <2>1 DEF Inv, VersionInv
  <2> QED
    BY <1>0, <1>8, <2>1, <2>2 DEF CreateOutcome
<1>9. CASE UNCHANGED <<outcomes, seen, queue, timers, tracker>>
  BY <1>0, <1>9
<1> QED
  BY <1>1, <1>2, <1>3, <1>4, <1>5, <1>6, <1>7, <1>8, <1>9
     DEF Next, Reconciling, World, TrackerStep, LaunchPod, LosePod, PodMoves, vars

LEMMA InitPending == Init => PendingInv
BY DEF Init, PendingInv, ShownInv, CopiesInv, OrderInv, NeverAbandoned

LEMMA NextPending == NeverPendingAgain /\ Inv /\ PendingInv /\ [Next]_vars => PendingInv'
BY NextShown, NextCopies, NextOrder, NextAttended DEF PendingInv

(* The strengthening that makes NeverAbandoned inductive.                  *)
THEOREM PendingInvariance == NeverPendingAgain /\ Spec => []PendingInv
<1>1. NeverPendingAgain => [](NeverPendingAgain)
  <2>1. NeverPendingAgain => NeverPendingAgain'
    BY DEF NeverPendingAgain
  <2> QED
    BY <2>1, PTL
<1> QED
  BY <1>1, NextPending, InitPending, FullInvariance, PTL DEF Spec

(* While an Outcome says Pending the Outcome controller will look at it    *)
(* again, through stale reads, refused writes, failed calls and restarts;  *)
(* a pod that comes back to Pending from a final or unknown phase is the   *)
(* one thing that would break it.                                          *)
THEOREM NothingAbandoned == NeverPendingAgain /\ Spec => []NeverAbandoned
BY PendingInvariance, PTL DEF PendingInv

----------------------------------------------------------------------------
(* Every copy of an Outcome lists the tests of the Outcome.                *)

SameTests(copy, stored) == stored # Nil /\ IDsOf(copy.tests) = IDsOf(stored.tests)

ListedInv ==
    /\ \A r \in Runs : seen[r] # Nil => SameTests(seen[r], outcomes[r])
    /\ tracker # Idle => SameTests(tracker.instance, outcomes[tracker.run])

(* A step that leaves the cache and the tracker alone, and the tests of    *)
(* every stored Outcome.                                                   *)
LEMMA ListedStays ==
    ASSUME TypeOK, ListedInv, UNCHANGED <<seen, tracker>>,
           \A r \in Runs : outcomes[r] # Nil => SameTests(outcomes[r], outcomes'[r])
    PROVE  ListedInv'
<1>1. tracker # Idle => tracker.run \in Runs
  BY TrackerTypes DEF Busy
<1> QED
  BY <1>1 DEF ListedInv, SameTests

(* What the controller does leaves the pods alone, and each Outcome its    *)
(* tests.                                                                  *)
LEMMA ReconcilingListed ==
    ASSUME TypeOK, EarnedInv, ListedInv, Reconciling
    PROVE  /\ ListedInv'
           /\ UNCHANGED <<pods, shown>>
           /\ \A r \in Runs : outcomes[r] # Nil => SameTests(outcomes[r], outcomes'[r])
           /\ \A r \in Runs : outcomes[r] = Nil => outcomes'[r] = Nil
<1> DEFINE Goal == /\ ListedInv'
                   /\ UNCHANGED <<pods, shown>>
                   /\ \A r \in Runs : outcomes[r] # Nil => SameTests(outcomes[r], outcomes'[r])
                   /\ \A r \in Runs : outcomes[r] = Nil => outcomes'[r] = Nil
<1>1. ASSUME NEW r \in Runs, GetOutcome(r) PROVE Goal
  <2>1. /\ UNCHANGED <<pods, shown, outcomes, seen>>
        /\ \/ tracker' = Idle
           \/ seen[r] # Nil /\ tracker'.run = r /\ tracker'.instance = seen[r]
    BY <1>1 DEF GetOutcome, podVars
  <2> QED
    BY <2>1 DEF ListedInv, SameTests
<1>2. ASSUME NEW r \in Runs, WatchOutcome(r) PROVE Goal
  <2>1. /\ UNCHANGED <<pods, shown, outcomes, tracker>>
        /\ \A u \in Runs : seen'[u] = seen[u] \/ seen'[u] = outcomes[u]
    BY <1>2 DEF WatchOutcome, podVars, TypeOK
  <2> QED
    BY <2>1 DEF ListedInv, SameTests
<1>3. ASSUME NEW r \in Runs, TimerFires(r) PROVE Goal
  BY <1>3 DEF TimerFires, podVars, ListedInv, SameTests
<1>4. CASE ListPods
  <2> DEFINE old == tracker.instance.tests
             new == {Refreshed(test) : test \in old}
  <2>1. tracker \in Busy /\ tracker # Idle /\ old \in SUBSET Tests /\ Earned(old)
    BY <1>4, TrackerTypes DEF ListPods, Idle, Busy, Outcomes, EarnedInv
  <2>2. IDsOf(new) = IDsOf(old)
    BY <2>1, RefreshedTests
  <2>3. \/ tracker' = Idle
        \/ \E finalized \in BOOLEAN :
              tracker' = [tracker EXCEPT !.pc = "update",
                                         !.instance = [@ EXCEPT !.tests = new],
                                         !.finalized = finalized]
    BY <1>4 DEF ListPods, Finish
  <2> HIDE DEF new
  <2>4. tracker' # Idle => tracker'.run = tracker.run /\ tracker'.instance.tests = new
    <3>1. [tracker.instance EXCEPT !.tests = new].tests = new
      BY <2>1 DEF Busy, Outcomes
    <3>2. tracker' # Idle =>
            /\ tracker'.run = tracker.run
            /\ tracker'.instance = [tracker.instance EXCEPT !.tests = new]
      BY <2>1, <2>3 DEF Busy
    <3> QED
      BY <3>1, <3>2
  <2>5. UNCHANGED <<pods, shown, outcomes, seen>>
    BY <1>4 DEF ListPods, podVars
  <2> QED
    BY <2>1, <2>2, <2>4, <2>5 DEF ListedInv, SameTests
<1>5. CASE updateOutcome
  <2>1. /\ tracker \in Busy /\ tracker # Idle /\ tracker.run \in Runs
        /\ tracker.instance \in Outcomes
    BY <1>5, TrackerTypes DEF updateOutcome, Idle, Busy
  <2>2. /\ [tracker.instance EXCEPT !.rv = @ + 1] \in Outcomes
        /\ [tracker.instance EXCEPT !.rv = @ + 1].tests = tracker.instance.tests
    BY <2>1 DEF Outcomes
  <2>3. \A r \in Runs : \/ outcomes'[r] = outcomes[r]
                        \/ /\ r = tracker.run /\ outcomes'[r] # Nil
                           /\ outcomes'[r].tests = tracker.instance.tests
    BY <1>5, <2>1, <2>2, NilAssumption DEF updateOutcome, TypeOK
  <2>4. tracker' = Idle /\ UNCHANGED <<pods, shown, seen>>
    BY <1>5 DEF updateOutcome, Finish, podVars
  <2> QED
    BY <2>1, <2>3, <2>4 DEF ListedInv, SameTests
<1>6. CASE CallFails
  BY <1>6 DEF CallFails, podVars, ListedInv, SameTests
<1> QED
  BY <1>1, <1>2, <1>3, <1>4, <1>5, <1>6 DEF Reconciling, TrackerStep

----------------------------------------------------------------------------
(* A new manager process does no harm either when nothing of this module   *)
(* brought the old one down.                                               *)

LEMMA RestartedEarned ==
    ASSUME TypeOK, EarnedInv, Restarted, UNCHANGED bounds
    PROVE  TypeOK' /\ EarnedInv'
<1>1. /\ seen' = outcomes /\ queue' \subseteq Runs /\ timers' = {} /\ tracker' = Idle
      /\ UNCHANGED <<pods, shown, outcomes, losses, faults>>
  BY DEF Restarted, podVars, bounds
<1>2. TypeOK'
  BY <1>1 DEF TypeOK
<1>3. EarnedInv'
  BY <1>1, TrackerKeepsEarned DEF podVars
<1> QED
  BY <1>2, <1>3

LEMMA RestartedInv ==
    ASSUME Inv, Restarted, UNCHANGED bounds
    PROVE  Inv'
<1>1. seen' = outcomes /\ tracker' = Idle /\ UNCHANGED <<pods, shown, outcomes>>
  BY DEF Restarted, podVars
<1>2. \A r \in Runs : outcomes[r] # Nil => outcomes[r].rv \in Nat
  BY TrackerTypes DEF Inv, Outcomes
<1>3. FinalInv' /\ VersionInv'
  BY <1>1, <1>2 DEF Inv, FinalInv, VersionInv
<1> QED
  BY <1>3, RestartedEarned DEF Inv

LEMMA RestartedListed ==
    ASSUME Restarted
    PROVE  ListedInv' /\ UNCHANGED <<pods, shown, outcomes>>
BY DEF Restarted, podVars, ListedInv, SameTests

LEMMA RestartedPending ==
    ASSUME Inv, PendingInv, Restarted
    PROVE  PendingInv'
<1>1. /\ seen' = outcomes /\ tracker' = Idle /\ queue' = {r \in Runs : outcomes[r] # Nil}
      /\ UNCHANGED <<pods, shown, outcomes>>
  BY DEF Restarted, podVars
<1>2. ShownInv' /\ CopiesInv'
  BY <1>1 DEF PendingInv, ShownInv, CopiesInv, Truthful, Over
<1>3. OrderInv' /\ NeverAbandoned'
  BY <1>1 DEF OrderInv, NeverAbandoned, Settled
<1> QED
  BY <1>2, <1>3 DEF PendingInv
=============================================================================
