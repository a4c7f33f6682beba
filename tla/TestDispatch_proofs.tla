------------------------- MODULE TestDispatch_proofs -------------------------
(***************************************************************************)
(* Proofs about TestDispatch, for any applications, grids and versions,    *)
(* any edits, failed calls, restarts and lost pods: the type invariant,    *)
(* that every pod has settings that fit it, that an Outcome is about one   *)
(* run, and that it lists every test pod of that run.                      *)
(***************************************************************************)
EXTENDS TestDispatch, TLAPS, WellFoundedInduction

(* The specs with a kots section that are ever deployed.                   *)
Specs == {s \in AppSpecs \cup {InitialApps[a] : a \in Apps} : s \in KotsSpecs}
Asked == {s \in VersionSpecs \cup {InitialVersions[v] : v \in VersionObjects} : s \in KotsVersions}

InCreateAppTests == {"listGrids", "checkPod", "createConfigMap", "createPod"}

----------------------------------------------------------------------------
(* The inductive invariant, by parts.                                      *)

ObjectsInv ==
    /\ apps \in [Apps -> Specs \cup {Nil, Absent}]
    /\ seenApps \in [Apps -> Specs \cup {Nil, Absent}]
    /\ versions \in [VersionObjects -> Asked \cup {Nil, Absent}]
    /\ seenVersions \in [VersionObjects -> Asked \cup {Nil, Absent}]
    /\ grids \in [Grids -> SUBSET Clusters]

QueueInv ==
    /\ queue \in [Controllers -> SUBSET (Apps \cup VersionObjects)]
    /\ \A c \in Controllers : queue[c] \subseteq Keys(c)

(* A ConfigMap comes from an application that runs on its cluster and      *)
(* channel; a pod has a ConfigMap.                                         *)
Configured(t, settings) ==
    \E s \in Specs : s.channel = t.channel /\ t.cluster \in s.clusters /\ s.config = settings

PodsInv ==
    /\ configMaps \in [TestIDs -> Configs \cup {Nil}]
    /\ pods \in [TestIDs -> Phases \cup {NoPod}]
    /\ \A t \in TestIDs : configMaps[t] # Nil => Configured(t, configMaps[t])
    /\ \A t \in TestIDs : pods[t] # NoPod => configMaps[t] # Nil

(* The tests of a run: cm is the ConfigMaps there are.                     *)
OfRun(tests, run, asked, cm) ==
    \A t \in tests : t.id.run = run /\ t.id.version = asked /\ cm[t.id] # Nil

OutcomesInv ==
    /\ outcomes \in [Runs -> Outcomes \cup {Nil}]
    /\ \A r \in Runs : outcomes[r] # Nil =>
         \E s \in Asked : s.run = r /\ OfRun(outcomes[r].tests, r, s.latest, configMaps)

(* A reconcile of a Version holds on to the run and the release that it    *)
(* has read together.                                                      *)
VersionOK(w, cm) ==
    /\ w.pc # "findVersion"
    /\ w.asked # NoRelease
    /\ \E s \in Asked : s.run = w.run /\ s.latest = w.asked
    /\ OfRun(w.tests, w.run, w.asked, cm)

(* What is true of a reconcile wherever it is, ...                         *)
ReconcileOK(c, w, cm) ==
    /\ w \in Busy /\ w.key \in Keys(c)
    /\ \A a \in w.todoApps : a.spec \in Specs
    /\ c = "version" => VersionOK(w, cm)

(* ... and in the middle of createAppTests.                                *)
WorkOK(c, w, cm) ==
    \/ w = Idle
    \/ /\ ReconcileOK(c, w, cm)
       /\ c = "application" => w.pc \notin {"listApps", "createOutcome"}
       /\ w.pc \notin {"listApps", "createOutcome"} =>
            w.app \in AppObjects /\ w.app.spec \in Specs
       /\ c = "version" /\ w.pc \in InCreateAppTests => w.version = w.asked
       /\ w.pc \in {"checkPod", "createConfigMap", "createPod"} =>
            \A m \in w.matches : m[2] \in w.app.spec.clusters
       /\ w.pc \in {"createConfigMap", "createPod"} => w.at \in w.matches
       /\ w.pc = "createPod" => cm[CurrentTest(w)] # Nil
       /\ w.pc = "createOutcome" => w.run # NoRun

WorkersInv ==
    /\ worker = [c \in Controllers |-> worker[c]]
    /\ \A c \in Controllers : WorkOK(c, worker[c], configMaps)

BoundsInv == edits \in 0..MaxEdits /\ faults \in 0..MaxFaults

IInv == ObjectsInv /\ QueueInv /\ PodsInv /\ OutcomesInv /\ WorkersInv /\ BoundsInv

----------------------------------------------------------------------------
(* Facts about the data.                                                   *)

LEMMA SpecFacts ==
    /\ Specs \subseteq KotsSpecs /\ Asked \subseteq KotsVersions
    /\ AppSpecs \subseteq Specs \cup {Nil} /\ VersionSpecs \subseteq Asked \cup {Nil}
    /\ \A a \in Apps : InitialApps[a] \in Specs \cup {Nil, Absent}
    /\ \A v \in VersionObjects : InitialVersions[v] \in Asked \cup {Nil, Absent}
    /\ Nil \notin Specs /\ Absent \notin Specs /\ Nil \notin Asked /\ Absent \notin Asked
BY DispatchAssumption DEF Specs, Asked

LEMMA KotsFacts ==
    ASSUME NEW s \in Specs
    PROVE  /\ s.clusters \subseteq Clusters /\ s.channel \in Channels /\ s.config \in Configs
           /\ s.version \in Releases \cup {Latest, NoRelease} /\ s.config # Nil
           /\ s \in KotsSpecs
BY SpecFacts, DispatchAssumption DEF KotsSpecs

LEMMA AskedFacts ==
    ASSUME NEW s \in Asked
    PROVE  s.latest \in Releases \cup {NoRelease} /\ s.run \in Runs \cup {NoRun}
BY SpecFacts DEF KotsVersions

(* The fields of a reconcile.                                              *)
LEMMA BusyFacts ==
    ASSUME NEW w \in Busy
    PROVE  /\ w # Idle /\ w.pc # "idle"
           /\ w.run \in Runs \cup {NoRun} /\ w.asked \in Releases \cup {NoRelease}
           /\ w.todoApps \subseteq AppObjects /\ w.app \in AppObjects \cup {Nil}
           /\ w.version \in Releases \cup {Latest, NoRelease}
           /\ w.matches \subseteq Matches /\ w.at \in Matches \cup {Nil} /\ w.tests \subseteq Tests
           /\ w.key \in Apps \cup VersionObjects
BY DEF Busy, Idle

LEMMA AppFacts ==
    ASSUME NEW a \in AppObjects
    PROVE  a.name \in Apps /\ a.spec \in KotsSpecs
BY DEF AppObjects

LEMMA TestFacts ==
    ASSUME NEW w \in Busy, w.app \in AppObjects, w.app.spec \in Specs, w.at \in Matches
    PROVE  /\ CurrentTest(w) \in TestIDs
           /\ CurrentTest(w).run = w.run /\ CurrentTest(w).cluster = w.at[2]
           /\ CurrentTest(w).version = w.version
           /\ CurrentTest(w).channel = w.app.spec.channel
<1>1. w.at[2] \in Clusters /\ w.app.spec.channel \in Channels
  BY KotsFacts DEF Matches
<1> QED
  BY <1>1, BusyFacts DEF CurrentTest, getTestID, TestIDs

LEMMA ResultFacts ==
    ASSUME NEW phase
    PROVE  getTestResultFromPod(phase) \in Results
BY DEF getTestResultFromPod, Results

----------------------------------------------------------------------------
(* What the steps have in common.                                          *)

(* ConfigMaps that are there stay as they are.                             *)
Kept(cm, new) == \A t \in TestIDs : cm[t] # Nil => new[t] = cm[t]

LEMMA OfRunKept ==
    ASSUME NEW tests \in SUBSET Tests, NEW run, NEW asked, NEW cm, NEW new,
           OfRun(tests, run, asked, cm), Kept(cm, new)
    PROVE  OfRun(tests, run, asked, new)
BY DEF OfRun, Kept, Tests

LEMMA WorkKept ==
    ASSUME NEW c \in Controllers, NEW w, NEW cm, NEW new, WorkOK(c, w, cm), Kept(cm, new)
    PROVE  WorkOK(c, w, new)
<1>1. CASE w = Idle
  BY <1>1 DEF WorkOK
<1>2. CASE w # Idle
  <2>1. w \in Busy
    BY <1>2 DEF WorkOK, ReconcileOK
  <2>2. c = "version" => OfRun(w.tests, w.run, w.asked, new)
    BY <1>2, <2>1, BusyFacts, OfRunKept DEF WorkOK, ReconcileOK, VersionOK
  <2>3. w.pc = "createPod" => new[CurrentTest(w)] # Nil
    <3>1. w.pc = "createPod" => CurrentTest(w) \in TestIDs
      BY <1>2, <2>1, BusyFacts, TestFacts DEF WorkOK
    <3> QED
      BY <1>2, <3>1 DEF WorkOK, Kept
  <2> QED
    BY <1>2, <2>2, <2>3 DEF WorkOK, ReconcileOK, VersionOK
<1> QED
  BY <1>1, <1>2

(* One worker moves.                                                       *)
LEMMA WorkerMoves ==
    ASSUME IInv, NEW c \in Controllers, NEW w, Goto(c, w), WorkOK(c, w, configMaps'),
           Kept(configMaps, configMaps')
    PROVE  WorkersInv'
<1>1. /\ worker'[c] = w /\ worker' = [d \in Controllers |-> worker'[d]]
      /\ \A d \in Controllers \ {c} : worker'[d] = worker[d]
  BY DEF Goto, IInv, WorkersInv
<1>2. \A d \in Controllers \ {c} : WorkOK(d, worker[d], configMaps')
  BY WorkKept DEF IInv, WorkersInv
<1> QED
  BY <1>1, <1>2 DEF WorkersInv

(* The ConfigMaps stay, and all but the workers is left alone or well.     *)
LEMMA NothingElse ==
    ASSUME IInv, UNCHANGED <<userObjects, caches, configMaps, pods, outcomes>>
    PROVE  /\ ObjectsInv' /\ PodsInv' /\ OutcomesInv' /\ Kept(configMaps, configMaps')
BY DEF IInv, ObjectsInv, PodsInv, OutcomesInv, userObjects, caches, Configured, Kept

LEMMA QueueMoves ==
    ASSUME QueueInv, NEW c \in Controllers, NEW key \in Keys(c),
           \/ UNCHANGED queue \/ Dequeue(c, key)
           \/ queue' = [queue EXCEPT ![c] = @ \cup {key}]
    PROVE  QueueInv'
<1>1. CASE UNCHANGED queue
  BY <1>1 DEF QueueInv
<1>2. CASE Dequeue(c, key)
  BY <1>2 DEF QueueInv, Dequeue
<1>3. CASE queue' = [queue EXCEPT ![c] = @ \cup {key}]
  <2>1. Keys(c) \subseteq Apps \cup VersionObjects
    BY DEF Keys
  <2> QED
    BY <1>3, <2>1 DEF QueueInv
<1> QED
  BY <1>1, <1>2, <1>3

(* What follows a successful createAppTests.                               *)
LEMMA AfterAppOK ==
    ASSUME NEW c \in Controllers, NEW w, NEW cm, ReconcileOK(c, w, cm), AfterApp(c, w)
    PROVE  /\ UNCHANGED queue
           /\ \E v : Goto(c, v) /\ WorkOK(c, v, cm)
<1>1. CASE c = "application"
  BY <1>1 DEF AfterApp, Done, WorkOK
<1>2. CASE c = "version" /\ w.todoApps # {}
  <2>1. UNCHANGED queue /\ \E a \in w.todoApps : Goto(c, CreateAppTests(w, a, w.asked))
    BY <1>2 DEF AfterApp
  <2>2. ASSUME NEW a \in w.todoApps PROVE WorkOK(c, CreateAppTests(w, a, w.asked), cm)
    <3> DEFINE v == CreateAppTests(w, a, w.asked)
    <3>1. w \in Busy /\ a \in AppObjects /\ a.spec \in Specs /\ w.asked # NoRelease
      BY <1>2, BusyFacts DEF ReconcileOK, VersionOK
    <3>2. v = [w EXCEPT !.pc = "listGrids", !.app = a, !.version = w.asked, !.todoApps = w.todoApps \ {a}]
      BY <3>1 DEF CreateAppTests
    <3> HIDE DEF v
    <3>3. /\ v \in Busy /\ v.pc = "listGrids" /\ v.app = a /\ v.version = w.asked
          /\ v.todoApps = w.todoApps \ {a} /\ v.key = w.key /\ v.run = w.run
          /\ v.asked = w.asked /\ v.tests = w.tests
      <4>1. /\ v.pc = "listGrids" /\ v.app = a /\ v.version = w.asked
            /\ v.todoApps = w.todoApps \ {a} /\ v.key = w.key /\ v.run = w.run
            /\ v.asked = w.asked /\ v.tests = w.tests
        BY <3>1, <3>2 DEF Busy
      <4>2. w.todoApps \ {a} \in SUBSET AppObjects /\ w.asked \in Releases \cup {Latest, NoRelease}
        BY <3>1, BusyFacts
      <4>3. v \in Busy
        BY <3>1, <3>2, <4>2 DEF Busy
      <4> QED
        BY <4>1, <4>3
    <3>4. ReconcileOK(c, v, cm)
      BY <3>3 DEF ReconcileOK, VersionOK
    <3> QED
      BY <1>2, <3>1, <3>3, <3>4 DEF WorkOK, v
  <2> QED
    BY <2>1, <2>2
<1>3. CASE c = "version" /\ w.todoApps = {} /\ w.run # NoRun
  <2> DEFINE v == [w EXCEPT !.pc = "createOutcome"]
  <2>1. UNCHANGED queue /\ Goto(c, v)
    BY <1>3 DEF AfterApp
  <2>2. /\ v \in Busy /\ v.pc = "createOutcome" /\ v.todoApps = w.todoApps /\ v.key = w.key
        /\ v.run = w.run /\ v.asked = w.asked /\ v.tests = w.tests
    BY DEF ReconcileOK, Busy
  <2> HIDE DEF v
  <2>3. ReconcileOK(c, v, cm)
    BY <2>2 DEF ReconcileOK, VersionOK
  <2> QED
    BY <1>3, <2>1, <2>2, <2>3 DEF WorkOK, InCreateAppTests
<1>4. CASE c = "version" /\ w.todoApps = {} /\ w.run = NoRun
  BY <1>4 DEF AfterApp, Done, WorkOK
<1> QED
  BY <1>1, <1>2, <1>3, <1>4 DEF Controllers

(* createAppTests is called on an application.                             *)
LEMMA CallOK ==
    ASSUME NEW c \in Controllers, NEW w, NEW cm, ReconcileOK(c, w, cm),
           NEW a \in AppObjects, a.spec \in Specs,
           NEW asked \in Releases \cup {NoRelease}, c = "version" => asked = w.asked
    PROVE  WorkOK(c, CreateAppTests(w, a, asked), cm)
<1> DEFINE v == CreateAppTests(w, a, asked)
<1>1. PICK release : release = IF asked = NoRelease THEN a.spec.version ELSE asked
  OBVIOUS
<1>2. w \in Busy /\ release \in Releases \cup {Latest, NoRelease}
  BY <1>1, KotsFacts DEF ReconcileOK
<1>3. v = [w EXCEPT !.pc = "listGrids", !.app = a, !.version = release, !.todoApps = w.todoApps \ {a}]
  BY <1>1, <1>2 DEF CreateAppTests
<1> HIDE DEF v
<1>4. /\ v.pc = "listGrids" /\ v.app = a /\ v.version = release
      /\ v.todoApps = w.todoApps \ {a} /\ v.key = w.key /\ v.run = w.run
      /\ v.asked = w.asked /\ v.tests = w.tests
  BY <1>2, <1>3 DEF Busy
<1>5. v \in Busy
  <2>1. w.todoApps \ {a} \in SUBSET AppObjects
    BY <1>2, BusyFacts
  <2> QED
    BY <1>2, <1>3, <2>1 DEF Busy
<1>6. c = "version" => release = w.asked
  BY <1>1 DEF ReconcileOK, VersionOK
<1>7. ReconcileOK(c, v, cm)
  BY <1>4, <1>5 DEF ReconcileOK, VersionOK
<1>8. WorkOK(c, v, cm)
  BY <1>4, <1>6, <1>7 DEF WorkOK
<1> QED
  BY <1>8 DEF v

(* A step of one worker that touches no object.                            *)
LEMMA WorkerStep ==
    ASSUME IInv, UNCHANGED <<userObjects, caches, configMaps, pods, outcomes>>,
           QueueInv', BoundsInv',
           NEW c \in Controllers, NEW w, Goto(c, w), WorkOK(c, w, configMaps)
    PROVE  IInv'
<1>1. ObjectsInv' /\ PodsInv' /\ OutcomesInv' /\ Kept(configMaps, configMaps')
  BY NothingElse
<1>2. configMaps' = configMaps
  OBVIOUS
<1>3. WorkersInv'
  BY <1>1, <1>2, WorkerMoves
<1> QED
  BY <1>1, <1>3 DEF IInv

LEMMA WorkerStays ==
    ASSUME IInv, UNCHANGED <<userObjects, caches, configMaps, pods, outcomes, worker>>,
           QueueInv', BoundsInv'
    PROVE  IInv'
<1>1. ObjectsInv' /\ PodsInv' /\ OutcomesInv'
  BY NothingElse
<1>2. WorkersInv'
  BY DEF IInv, WorkersInv
<1> QED
  BY <1>1, <1>2 DEF IInv

LEMMA BoundsKept ==
    ASSUME IInv, UNCHANGED bounds
    PROVE  BoundsInv'
BY DEF IInv, BoundsInv, bounds

LEMMA FaultSpent ==
    ASSUME IInv, faults > 0, faults' = faults - 1, UNCHANGED edits
    PROVE  BoundsInv'
BY DispatchAssumption DEF IInv, BoundsInv

LEMMA EditSpent ==
    ASSUME IInv, Edit, UNCHANGED faults
    PROVE  BoundsInv'
BY DispatchAssumption DEF IInv, BoundsInv, Edit

(* The reconcile that a worker is in the middle of.                        *)
LEMMA InProgress ==
    ASSUME IInv, NEW c \in Controllers, worker[c] # Idle
    PROVE  ReconcileOK(c, worker[c], configMaps) /\ WorkOK(c, worker[c], configMaps)
BY DEF IInv, WorkersInv, WorkOK

LEMMA NotIdle ==
    ASSUME NEW w, w.pc # "idle"
    PROVE  w # Idle
BY DEF Idle

----------------------------------------------------------------------------
(* ApplicationReconciler.                                                  *)

LEMMA GetApplicationStep ==
    ASSUME IInv, NEW a \in Apps, GetApplication(a)
    PROVE  IInv'
<1> DEFINE spec == seenApps[a]
           app == [name |-> a, spec |-> spec]
           w == Reconcile(a, NoRun, NoRelease)
<1>1. /\ UNCHANGED <<userObjects, caches, configMaps, pods, outcomes, bounds>>
      /\ \/ UNCHANGED <<queue, worker>>
         \/ Dequeue("application", a) /\ UNCHANGED worker
         \/ /\ spec \notin {Absent, Nil}
            /\ Dequeue("application", a)
            /\ Goto("application",
                 IF spec.version \in {Latest, NoRelease}
                 THEN [w EXCEPT !.pc = "findVersion", !.app = app]
                 ELSE CreateAppTests(w, app, spec.version))
  BY DEF GetApplication
<1>2. QueueInv'
  BY <1>1, QueueMoves DEF IInv, Controllers, Keys
<1>3. BoundsInv'
  BY <1>1, BoundsKept
<1>4. CASE UNCHANGED worker
  BY <1>1, <1>2, <1>3, <1>4, WorkerStays
<1>5. CASE /\ spec \notin {Absent, Nil}
           /\ Goto("application",
                 IF spec.version \in {Latest, NoRelease}
                 THEN [w EXCEPT !.pc = "findVersion", !.app = app]
                 ELSE CreateAppTests(w, app, spec.version))
  <2>1. PICK s : s = spec
    OBVIOUS
  <2>2. PICK o : o = [name |-> a, spec |-> s]
    OBVIOUS
  <2>3. s \in Specs
    BY <1>5, <2>1 DEF IInv, ObjectsInv
  <2>4. o \in AppObjects /\ o.spec = s
    BY <2>2, <2>3, KotsFacts DEF AppObjects
  <2>5. CASE s.version \in {Latest, NoRelease}
    <3>1. PICK v : v = [pc |-> "findVersion", key |-> a, run |-> NoRun, asked |-> NoRelease,
                        todoApps |-> {}, app |-> o, version |-> NoRelease, matches |-> {},
                        at |-> Nil, tests |-> {}]
      OBVIOUS
    <3>2. Goto("application", v)
      BY <1>5, <2>1, <2>2, <2>5, <3>1 DEF Reconcile
    <3>3. v \in Busy /\ v.key = a /\ v.todoApps = {} /\ v.pc = "findVersion" /\ v.app = o
      BY <2>4, <3>1 DEF Busy
    <3>4. WorkOK("application", v, configMaps)
      BY <2>3, <2>4, <3>3 DEF WorkOK, ReconcileOK, Keys, InCreateAppTests
    <3> QED
      BY <1>1, <1>2, <1>3, <3>2, <3>4, WorkerStep DEF Controllers
  <2>6. CASE s.version \notin {Latest, NoRelease}
    <3>1. PICK v : v = [pc |-> "listGrids", key |-> a, run |-> NoRun, asked |-> NoRelease,
                        todoApps |-> {}, app |-> o, version |-> s.version, matches |-> {},
                        at |-> Nil, tests |-> {}]
      OBVIOUS
    <3>2. Goto("application", v)
      BY <1>5, <2>1, <2>2, <2>6, <3>1 DEF Reconcile, CreateAppTests
    <3>3. v \in Busy /\ v.key = a /\ v.todoApps = {} /\ v.pc = "listGrids" /\ v.app = o
      BY <2>3, <2>4, <3>1, KotsFacts DEF Busy
    <3>4. WorkOK("application", v, configMaps)
      BY <2>3, <2>4, <3>3 DEF WorkOK, ReconcileOK, Keys, InCreateAppTests
    <3> QED
      BY <1>1, <1>2, <1>3, <3>2, <3>4, WorkerStep DEF Controllers
  <2> QED
    BY <2>5, <2>6
<1> QED
  BY <1>1, <1>4, <1>5

(* A set of numbers that is not empty has a least one.                     *)
LEMMA Least ==
    ASSUME NEW S \in SUBSET Nat, S # {}
    PROVE  \E n \in S : \A m \in S : n <= m
<1> DEFINE R == OpToRel(<, Nat)
<1>1. \E n \in S : \A m \in S : <<m, n>> \notin R
  <2>1. IsWellFoundedOn(R, Nat)
    BY NatLessThanWellFounded
  <2> HIDE DEF R
  <2> QED
    BY <2>1, WFMin
<1>2. \A m, n \in Nat : <<m, n>> \in R <=> m < n
  BY DEF OpToRel
<1> HIDE DEF R
<1>3. PICK n \in S : \A m \in S : <<m, n>> \notin R
  BY <1>1
<1>4. ASSUME NEW m \in S PROVE n <= m
  <2>1. ~ (m < n)
    BY <1>2, <1>3
  <2> QED
    BY <2>1
<1> QED
  BY <1>4

(* The Version object that decides is one that is deployed.                *)
LEMMA FirstVersion ==
    ASSUME IInv, NEW candidates, candidates = KotsDeployed(versions), candidates # {},
           NEW first, first = CHOOSE v \in candidates : \A u \in candidates : v <= u
    PROVE  versions[first].latest \in Releases \cup {NoRelease}
<1>1. candidates \subseteq VersionObjects /\ candidates \subseteq Nat
  BY DispatchAssumption DEF IInv, ObjectsInv, KotsDeployed, Deployed
<1>2. first \in candidates
  BY <1>1, Least
<1>3. versions[first] \in Asked
  BY <1>1, <1>2 DEF IInv, ObjectsInv, KotsDeployed, Deployed
<1> QED
  BY <1>3, AskedFacts

LEMMA findVersionForAppStep ==
    ASSUME IInv, findVersionForApp
    PROVE  IInv'
<1>1. PICK w : w = worker["application"]
  OBVIOUS
<1>2. PICK candidates : candidates = KotsDeployed(versions)
  OBVIOUS
<1>3. PICK first : first = CHOOSE v \in candidates : \A u \in candidates : v <= u
  OBVIOUS
<1>4. /\ w.pc = "findVersion"
      /\ UNCHANGED <<userObjects, caches, configMaps, pods, outcomes, bounds>>
      /\ \/ candidates = {} /\ Retry("application", w.key)
         \/ /\ candidates # {} /\ UNCHANGED queue
            /\ Goto("application", CreateAppTests(w, w.app, versions[first].latest))
  BY <1>1, <1>2, <1>3 DEF findVersionForApp
<1>5. ReconcileOK("application", w, configMaps) /\ WorkOK("application", w, configMaps)
  BY <1>1, <1>4, NotIdle, InProgress DEF Controllers
<1>6. w.key \in Keys("application") /\ "application" \in Controllers
  BY <1>5 DEF ReconcileOK, Controllers
<1>7. QueueInv'
  BY <1>4, <1>6, QueueMoves DEF IInv, Retry
<1>8. BoundsInv'
  BY <1>4, BoundsKept
<1>9. CASE Retry("application", w.key)
  BY <1>4, <1>6, <1>7, <1>8, <1>9, WorkerStep DEF Retry, WorkOK
<1>10. CASE /\ candidates # {}
            /\ Goto("application", CreateAppTests(w, w.app, versions[first].latest))
  <2>1. PICK latest : latest = versions[first].latest
    OBVIOUS
  <2>2. latest \in Releases \cup {NoRelease}
    BY <1>2, <1>3, <1>10, <2>1, FirstVersion
  <2>3. w.app \in AppObjects /\ w.app.spec \in Specs
    BY <1>4, <1>5, NotIdle DEF WorkOK
  <2>4. WorkOK("application", CreateAppTests(w, w.app, latest), configMaps)
    BY <1>5, <1>6, <2>2, <2>3, CallOK
  <2> QED
    BY <1>4, <1>6, <1>7, <1>8, <1>10, <2>1, <2>4, WorkerStep
<1> QED
  BY <1>4, <1>9, <1>10


----------------------------------------------------------------------------
(* VersionReconciler.                                                      *)

LEMMA GetVersionStep ==
    ASSUME IInv, NEW n \in VersionObjects, GetVersion(n)
    PROVE  IInv'
<1>1. PICK s : s = seenVersions[n]
  OBVIOUS
<1>2. /\ UNCHANGED <<userObjects, caches, configMaps, pods, outcomes, bounds>>
      /\ \/ UNCHANGED <<queue, worker>>
         \/ Dequeue("version", n) /\ UNCHANGED worker
         \/ /\ s # Absent /\ s # Nil /\ (s \in KotsVersions => s.latest # NoRelease)
            /\ Dequeue("version", n)
            /\ Goto("version", [Reconcile(n, s.run, s.latest) EXCEPT !.pc = "listApps"])
  BY <1>1 DEF GetVersion
<1>3. QueueInv'
  BY <1>2, QueueMoves DEF IInv, Controllers, Keys
<1>4. BoundsInv'
  BY <1>2, BoundsKept
<1>5. CASE UNCHANGED worker
  BY <1>2, <1>3, <1>4, <1>5, WorkerStays
<1>6. CASE /\ s # Absent /\ s # Nil /\ (s \in KotsVersions => s.latest # NoRelease)
           /\ Goto("version", [Reconcile(n, s.run, s.latest) EXCEPT !.pc = "listApps"])
  <2>1. s \in Asked
    BY <1>1, <1>6 DEF IInv, ObjectsInv
  <2>2. PICK v : v = [pc |-> "listApps", key |-> n, run |-> s.run, asked |-> s.latest,
                      todoApps |-> {}, app |-> Nil, version |-> NoRelease, matches |-> {},
                      at |-> Nil, tests |-> {}]
    OBVIOUS
  <2>3. Goto("version", v)
    BY <1>6, <2>2 DEF Reconcile
  <2>4. /\ v \in Busy /\ v.key = n /\ v.todoApps = {} /\ v.pc = "listApps"
        /\ v.run = s.run /\ v.asked = s.latest /\ v.tests = {}
    BY <2>1, <2>2, AskedFacts DEF Busy
  <2>5. VersionOK(v, configMaps)
    <3>1. s.latest # NoRelease
      BY <1>6, <2>1, SpecFacts
    <3> QED
      BY <2>1, <2>4, <3>1 DEF VersionOK, OfRun
  <2>6. WorkOK("version", v, configMaps)
    BY <2>4, <2>5 DEF WorkOK, ReconcileOK, Keys, InCreateAppTests
  <2> QED
    BY <1>2, <1>3, <1>4, <2>3, <2>6, WorkerStep DEF Controllers
<1> QED
  BY <1>2, <1>5, <1>6

LEMMA listApplicationsStep ==
    ASSUME IInv, listApplications
    PROVE  IInv'
<1>1. PICK w : w = worker["version"]
  OBVIOUS
<1>2. PICK todo : todo = {[name |-> a, spec |-> apps[a]] :
                            a \in {b \in KotsDeployed(apps) : apps[b].version = Latest}}
  OBVIOUS
<1>3. /\ w.pc = "listApps"
      /\ AfterApp("version", [w EXCEPT !.todoApps = todo])
      /\ UNCHANGED <<userObjects, caches, configMaps, pods, outcomes, bounds>>
  BY <1>1, <1>2 DEF listApplications
<1>4. ReconcileOK("version", w, configMaps)
  BY <1>1, <1>3, NotIdle, InProgress DEF Controllers
<1>5. todo \subseteq AppObjects /\ \A o \in todo : o.spec \in Specs
  <2>1. ASSUME NEW a \in KotsDeployed(apps) PROVE a \in Apps /\ apps[a] \in Specs
    BY DEF IInv, ObjectsInv, KotsDeployed, Deployed
  <2>2. ASSUME NEW o \in todo PROVE o \in AppObjects /\ o.spec \in Specs
    <3>1. PICK a \in KotsDeployed(apps) : o = [name |-> a, spec |-> apps[a]]
      BY <1>2
    <3> QED
      BY <2>1, <3>1, KotsFacts DEF AppObjects
  <2> QED
    BY <2>2
<1>6. PICK u : u = [w EXCEPT !.todoApps = todo]
  OBVIOUS
<1>7. /\ u \in Busy /\ u.pc = w.pc /\ u.key = w.key /\ u.todoApps = todo
      /\ u.run = w.run /\ u.asked = w.asked /\ u.tests = w.tests
  BY <1>4, <1>5, <1>6 DEF ReconcileOK, Busy
<1>8. ReconcileOK("version", u, configMaps)
  BY <1>4, <1>5, <1>7 DEF ReconcileOK, VersionOK
<1>9. UNCHANGED queue /\ \E v : Goto("version", v) /\ WorkOK("version", v, configMaps)
  BY <1>3, <1>6, <1>8, AfterAppOK DEF Controllers
<1>10. QueueInv' /\ BoundsInv'
  BY <1>3, <1>9, BoundsKept DEF IInv, QueueInv
<1> QED
  BY <1>3, <1>9, <1>10, WorkerStep DEF Controllers

LEMMA createOutcomeStep ==
    ASSUME IInv, createOutcome
    PROVE  IInv'
<1>1. PICK w : w = worker["version"]
  OBVIOUS
<1>2. /\ w.pc = "createOutcome"
      /\ outcomes' = [outcomes EXCEPT ![w.run] =
                        IF @ = Nil THEN [rv |-> 1, tests |-> w.tests] ELSE @]
      /\ Goto("version", Idle) /\ UNCHANGED queue
      /\ UNCHANGED <<userObjects, caches, configMaps, pods, bounds>>
  BY <1>1 DEF createOutcome, Done
<1>3. ReconcileOK("version", w, configMaps) /\ WorkOK("version", w, configMaps) /\ w # Idle
  BY <1>1, <1>2, NotIdle, InProgress DEF Controllers
<1>4. w.run \in Runs /\ w.tests \subseteq Tests
  BY <1>2, <1>3, BusyFacts DEF ReconcileOK, WorkOK
<1>5. PICK s \in Asked : s.run = w.run /\ OfRun(w.tests, w.run, s.latest, configMaps)
  BY <1>3 DEF ReconcileOK, VersionOK
<1>6. PICK o : o = [rv |-> 1, tests |-> w.tests]
  OBVIOUS
<1>7. o \in Outcomes /\ o.tests = w.tests
  BY <1>4, <1>6 DEF Outcomes
<1>8. outcomes' = [outcomes EXCEPT ![w.run] = IF outcomes[w.run] = Nil THEN o ELSE outcomes[w.run]]
  BY <1>2, <1>6
<1>9. OutcomesInv'
  <2>1. outcomes' \in [Runs -> Outcomes \cup {Nil}]
    BY <1>4, <1>7, <1>8 DEF IInv, OutcomesInv
  <2>2. ASSUME NEW r \in Runs, outcomes'[r] # Nil
        PROVE  \E x \in Asked : x.run = r /\ OfRun(outcomes'[r].tests, r, x.latest, configMaps)
    <3>1. CASE r = w.run /\ outcomes[r] = Nil
      <4>1. outcomes'[r] = o
        BY <1>4, <1>8, <3>1 DEF IInv, OutcomesInv
      <4> QED
        BY <1>5, <1>7, <3>1, <4>1
    <3>2. CASE ~ (r = w.run /\ outcomes[r] = Nil)
      <4>1. outcomes'[r] = outcomes[r]
        BY <1>4, <1>8, <3>2 DEF IInv, OutcomesInv
      <4> QED
        BY <2>2, <4>1 DEF IInv, OutcomesInv
    <3> QED
      BY <3>1, <3>2
  <2> QED
    BY <1>2, <2>1, <2>2 DEF OutcomesInv
<1>10. WorkersInv'
  BY <1>2, WorkerMoves DEF Controllers, WorkOK, Kept
<1>11. ObjectsInv' /\ PodsInv' /\ QueueInv' /\ BoundsInv'
  BY <1>2, BoundsKept DEF IInv, ObjectsInv, PodsInv, QueueInv, userObjects, caches, Configured
<1> QED
  BY <1>9, <1>10, <1>11 DEF IInv

----------------------------------------------------------------------------
(* createAppTests.                                                         *)

LEMMA listGridsStep ==
    ASSUME IInv, NEW c \in Controllers, listGrids(c)
    PROVE  IInv'
<1>1. PICK w : w = worker[c]
  OBVIOUS
<1>2. PICK found : found = {m \in Matches : m[2] \in grids[m[1]] \cap w.app.spec.clusters}
  OBVIOUS
<1>3. /\ w.pc = "listGrids"
      /\ \/ AfterApp(c, w)
         \/ Goto(c, [w EXCEPT !.pc = "checkPod", !.matches = found]) /\ UNCHANGED queue
      /\ UNCHANGED <<userObjects, caches, configMaps, pods, outcomes, bounds>>
  BY <1>1, <1>2 DEF listGrids
<1>4. ReconcileOK(c, w, configMaps) /\ WorkOK(c, w, configMaps) /\ w # Idle
  BY <1>1, <1>3, NotIdle, InProgress
<1>5. UNCHANGED queue /\ \E v : Goto(c, v) /\ WorkOK(c, v, configMaps)
  <2>1. CASE AfterApp(c, w)
    BY <1>4, <2>1, AfterAppOK
  <2>2. CASE Goto(c, [w EXCEPT !.pc = "checkPod", !.matches = found]) /\ UNCHANGED queue
    <3>1. PICK v : v = [w EXCEPT !.pc = "checkPod", !.matches = found]
      OBVIOUS
    <3>2. found \subseteq Matches /\ \A m \in found : m[2] \in w.app.spec.clusters
      BY <1>2
    <3>3. /\ v \in Busy /\ v.pc = "checkPod" /\ v.key = w.key /\ v.todoApps = w.todoApps
          /\ v.run = w.run /\ v.asked = w.asked /\ v.tests = w.tests
          /\ v.app = w.app /\ v.version = w.version /\ v.matches = found
      BY <1>4, <3>1, <3>2 DEF ReconcileOK, Busy
    <3>4. ReconcileOK(c, v, configMaps)
      BY <1>4, <3>3 DEF ReconcileOK, VersionOK
    <3>5. WorkOK(c, v, configMaps)
      BY <1>3, <1>4, <3>2, <3>3, <3>4 DEF WorkOK, InCreateAppTests
    <3> QED
      BY <2>2, <3>1, <3>5
  <2> QED
    BY <1>3, <2>1, <2>2
<1>6. QueueInv' /\ BoundsInv'
  BY <1>3, <1>5, BoundsKept DEF IInv, QueueInv
<1> QED
  BY <1>3, <1>5, <1>6, WorkerStep

(* A test whose settings are there is appended.                            *)
LEMMA AppendTestOK ==
    ASSUME NEW c \in Controllers, NEW w, NEW cm, w # Idle, WorkOK(c, w, cm),
           w.pc \in {"checkPod", "createPod"}, NEW m \in w.matches, NEW result \in Results,
           cm[CurrentTest([w EXCEPT !.at = m])] # Nil, AppendTest(c, w, m, result)
    PROVE  UNCHANGED queue /\ \E v : Goto(c, v) /\ WorkOK(c, v, cm)
<1>1. /\ ReconcileOK(c, w, cm) /\ w \in Busy /\ w.app \in AppObjects /\ w.app.spec \in Specs
      /\ c = "version" => w.version = w.asked
      /\ \A n \in w.matches : n[2] \in w.app.spec.clusters
      /\ m \in Matches
  BY BusyFacts DEF WorkOK, ReconcileOK, InCreateAppTests
<1>2. PICK at : at = [w EXCEPT !.at = m]
  OBVIOUS
<1>3. PICK t : t = CurrentTest(at)
  OBVIOUS
<1>4. t \in TestIDs /\ t.run = w.run /\ t.version = w.version /\ cm[t] # Nil
  <2>1. at \in Busy /\ at.app = w.app /\ at.at = m /\ at.run = w.run /\ at.version = w.version
    BY <1>1, <1>2 DEF Busy
  <2> QED
    BY <1>1, <1>2, <1>3, <2>1, TestFacts
<1>5. PICK test : test = [id |-> t, result |-> result]
  OBVIOUS
<1>6. test \in Tests /\ test.id = t
  BY <1>4, <1>5 DEF Tests
<1>7. PICK tests : tests = IF c = "version" THEN w.tests \cup {test} ELSE {}
  OBVIOUS
<1>8. tests \subseteq Tests
  BY <1>1, <1>6, <1>7, BusyFacts
<1>9. PICK rest : rest = [w EXCEPT !.pc = "checkPod", !.at = Nil, !.matches = w.matches \ {m},
                                   !.tests = tests]
  OBVIOUS
<1>10. /\ rest \in Busy /\ rest.pc = "checkPod" /\ rest.matches = w.matches \ {m}
       /\ rest.tests = tests /\ rest.key = w.key /\ rest.run = w.run /\ rest.asked = w.asked
       /\ rest.todoApps = w.todoApps /\ rest.app = w.app /\ rest.version = w.version
  <2>1. w.matches \ {m} \in SUBSET Matches
    BY <1>1, BusyFacts
  <2> QED
    BY <1>1, <1>8, <1>9, <2>1 DEF Busy
<1>11. ReconcileOK(c, rest, cm)
  <2>1. ASSUME c = "version" PROVE OfRun(tests, w.run, w.asked, cm)
    BY <1>1, <1>4, <1>6, <1>7, <2>1 DEF ReconcileOK, VersionOK, OfRun
  <2> QED
    BY <1>1, <1>10, <2>1 DEF ReconcileOK, VersionOK
<1>12. IF rest.matches = {} THEN AfterApp(c, rest) ELSE Goto(c, rest) /\ UNCHANGED queue
  BY <1>2, <1>3, <1>5, <1>7, <1>9 DEF AppendTest
<1>13. CASE rest.matches = {}
  BY <1>11, <1>12, <1>13, AfterAppOK
<1>14. CASE rest.matches # {}
  <2>1. WorkOK(c, rest, cm)
    BY <1>1, <1>10, <1>11 DEF WorkOK, InCreateAppTests
  <2> QED
    BY <1>12, <1>14, <2>1
<1> QED
  BY <1>13, <1>14


(* What a worker in the middle of createAppTests knows of its test.        *)
LEMMA MatchFacts ==
    ASSUME NEW c \in Controllers, NEW w, NEW cm, w # Idle, WorkOK(c, w, cm),
           w.pc \in {"checkPod", "createConfigMap", "createPod"}, NEW m \in w.matches
    PROVE  LET t == CurrentTest([w EXCEPT !.at = m])
           IN  t \in TestIDs /\ Configured(t, w.app.spec.config) /\ w.app.spec.config \in Configs
<1>1. /\ w \in Busy /\ w.app \in AppObjects /\ w.app.spec \in Specs
      /\ m \in Matches /\ m[2] \in w.app.spec.clusters
  BY BusyFacts DEF WorkOK, ReconcileOK
<1>2. PICK at : at = [w EXCEPT !.at = m]
  OBVIOUS
<1>3. at \in Busy /\ at.app = w.app /\ at.at = m
  BY <1>1, <1>2 DEF Busy
<1>4. /\ CurrentTest(at) \in TestIDs /\ CurrentTest(at).cluster = m[2]
      /\ CurrentTest(at).channel = w.app.spec.channel
  BY <1>1, <1>3, TestFacts
<1> QED
  BY <1>1, <1>2, <1>4, KotsFacts DEF Configured

LEMMA PodExistsStep ==
    ASSUME IInv, NEW c \in Controllers, PodExists(c)
    PROVE  IInv'
<1>1. PICK w : w = worker[c]
  OBVIOUS
<1>2. /\ w.pc = "checkPod"
      /\ UNCHANGED <<userObjects, caches, configMaps, pods, outcomes, bounds>>
  BY <1>1 DEF PodExists
<1>3. PICK m \in w.matches :
         /\ pods[CurrentTest([w EXCEPT !.at = m])] # NoPod
         /\ AppendTest(c, w, m, getTestResultFromPod(pods[CurrentTest([w EXCEPT !.at = m])]))
  BY <1>1 DEF PodExists
<1>4. WorkOK(c, w, configMaps) /\ w # Idle
  BY <1>1, <1>2, NotIdle, InProgress
<1>5. configMaps[CurrentTest([w EXCEPT !.at = m])] # Nil
  BY <1>2, <1>3, <1>4, MatchFacts DEF IInv, PodsInv
<1>6. UNCHANGED queue /\ \E v : Goto(c, v) /\ WorkOK(c, v, configMaps)
  BY <1>2, <1>3, <1>4, <1>5, ResultFacts, AppendTestOK
<1>7. QueueInv' /\ BoundsInv'
  BY <1>2, <1>6, BoundsKept DEF IInv, QueueInv
<1> QED
  BY <1>2, <1>6, <1>7, WorkerStep

LEMMA PodNotFoundStep ==
    ASSUME IInv, NEW c \in Controllers, PodNotFound(c)
    PROVE  IInv'
<1>1. PICK w : w = worker[c]
  OBVIOUS
<1>2. /\ w.pc = "checkPod"
      /\ UNCHANGED <<userObjects, caches, queue, configMaps, pods, outcomes, bounds>>
  BY <1>1 DEF PodNotFound
<1>3. PICK m \in w.matches : Goto(c, [w EXCEPT !.pc = "createConfigMap", !.at = m])
  BY <1>1 DEF PodNotFound
<1>4. ReconcileOK(c, w, configMaps) /\ WorkOK(c, w, configMaps) /\ w # Idle
  BY <1>1, <1>2, NotIdle, InProgress
<1>5. PICK v : v = [w EXCEPT !.pc = "createConfigMap", !.at = m]
  OBVIOUS
<1>6. /\ v \in Busy /\ v.pc = "createConfigMap" /\ v.at = m /\ v.matches = w.matches
      /\ v.key = w.key /\ v.run = w.run /\ v.asked = w.asked /\ v.tests = w.tests
      /\ v.todoApps = w.todoApps /\ v.app = w.app /\ v.version = w.version
  <2>1. w \in Busy /\ m \in Matches
    BY <1>4, BusyFacts DEF ReconcileOK
  <2> QED
    BY <1>5, <2>1 DEF Busy
<1>7. ReconcileOK(c, v, configMaps)
  BY <1>4, <1>6 DEF ReconcileOK, VersionOK
<1>8. WorkOK(c, v, configMaps)
  BY <1>2, <1>4, <1>6, <1>7 DEF WorkOK, InCreateAppTests
<1>9. QueueInv' /\ BoundsInv'
  BY <1>2, BoundsKept DEF IInv, QueueInv
<1> QED
  BY <1>2, <1>3, <1>5, <1>8, <1>9, WorkerStep

LEMMA CreateConfigMapStep ==
    ASSUME IInv, NEW c \in Controllers, CreateConfigMap(c)
    PROVE  IInv'
<1>1. PICK w : w = worker[c]
  OBVIOUS
<1>2. PICK t : t = CurrentTest(w)
  OBVIOUS
<1>3. PICK v : v = [w EXCEPT !.pc = "createPod"]
  OBVIOUS
<1>4. PICK settings : settings = w.app.spec.config
  OBVIOUS
<1>5. /\ w.pc = "createConfigMap" /\ Goto(c, v)
      /\ configMaps' = [configMaps EXCEPT ![t] =
                           IF configMaps[t] = Nil THEN settings ELSE configMaps[t]]
      /\ UNCHANGED <<userObjects, caches, queue, pods, outcomes, bounds>>
  BY <1>1, <1>2, <1>3, <1>4 DEF CreateConfigMap, getKotsTestConfigMap
<1>6. ReconcileOK(c, w, configMaps) /\ WorkOK(c, w, configMaps) /\ w # Idle
  BY <1>1, <1>5, NotIdle, InProgress
<1>7. w \in Busy /\ w.at \in w.matches
  BY <1>5, <1>6 DEF WorkOK, ReconcileOK
<1>8. t \in TestIDs /\ Configured(t, settings) /\ settings \in Configs /\ settings # Nil
  <2>1. [w EXCEPT !.at = w.at] = w
    BY <1>7 DEF Busy
  <2> QED
    BY <1>2, <1>4, <1>5, <1>6, <1>7, <2>1, MatchFacts, DispatchAssumption
<1>9. /\ configMaps' \in [TestIDs -> Configs \cup {Nil}]
      /\ Kept(configMaps, configMaps') /\ configMaps'[t] # Nil
      /\ \A u \in TestIDs : configMaps'[u] = configMaps[u] \/ (u = t /\ configMaps'[u] = settings)
  BY <1>5, <1>8 DEF IInv, PodsInv, Kept
<1>10. PodsInv'
  <2>1. /\ pods' \in [TestIDs -> Phases \cup {NoPod}]
        /\ \A u \in TestIDs : pods'[u] # NoPod => configMaps'[u] # Nil
    BY <1>5, <1>9 DEF IInv, PodsInv, Kept
  <2>2. \A u \in TestIDs : configMaps'[u] # Nil => Configured(u, configMaps'[u])
    BY <1>8, <1>9 DEF IInv, PodsInv
  <2> QED
    BY <1>9, <2>1, <2>2 DEF PodsInv, Configured
<1>11. OutcomesInv'
  <2>1. PICK cm : cm = configMaps'
    OBVIOUS
  <2>2. ASSUME NEW r \in Runs, outcomes[r] # Nil
        PROVE  \E s \in Asked : s.run = r /\ OfRun(outcomes[r].tests, r, s.latest, cm)
    <3>1. PICK s \in Asked : s.run = r /\ OfRun(outcomes[r].tests, r, s.latest, configMaps)
      BY <2>2 DEF IInv, OutcomesInv
    <3>2. outcomes[r].tests \in SUBSET Tests
      BY <2>2 DEF IInv, OutcomesInv, Outcomes
    <3>3. OfRun(outcomes[r].tests, r, s.latest, cm)
      BY <1>9, <2>1, <3>1, <3>2, OfRunKept
    <3> QED
      BY <3>1, <3>3
  <2> QED
    BY <1>5, <2>1, <2>2 DEF IInv, OutcomesInv
<1>12. WorkersInv'
  <2>1. /\ v \in Busy /\ v.pc = "createPod" /\ v.at = w.at /\ v.matches = w.matches
        /\ v.key = w.key /\ v.run = w.run /\ v.asked = w.asked /\ v.tests = w.tests
        /\ v.todoApps = w.todoApps /\ v.app = w.app /\ v.version = w.version
    BY <1>3, <1>7 DEF Busy
  <2>2. PICK cm : cm = configMaps'
    OBVIOUS
  <2>3. WorkOK(c, w, cm) /\ ReconcileOK(c, w, cm)
    BY <1>6, <1>9, <2>2, WorkKept DEF WorkOK
  <2>4. CurrentTest(v) = t
    BY <1>2, <2>1 DEF CurrentTest
  <2>5. ReconcileOK(c, v, cm)
    BY <2>1, <2>3 DEF ReconcileOK, VersionOK
  <2>6. WorkOK(c, v, cm)
    BY <1>5, <1>6, <1>9, <2>1, <2>2, <2>3, <2>4, <2>5 DEF WorkOK, InCreateAppTests
  <2> QED
    BY <1>5, <1>9, <2>2, <2>6, WorkerMoves
<1>13. ObjectsInv' /\ QueueInv' /\ BoundsInv'
  BY <1>5, BoundsKept DEF IInv, ObjectsInv, QueueInv, userObjects, caches
<1> QED
  BY <1>10, <1>11, <1>12, <1>13 DEF IInv

(* The pods change, and none that has no ConfigMap comes into being.       *)
LEMMA PodsMove ==
    ASSUME IInv, UNCHANGED <<userObjects, caches, configMaps, outcomes>>,
           NEW t \in TestIDs, NEW phase \in Phases \cup {NoPod},
           pods' = [pods EXCEPT ![t] = phase],
           phase # NoPod => configMaps[t] # Nil
    PROVE  ObjectsInv' /\ PodsInv' /\ OutcomesInv' /\ Kept(configMaps, configMaps')
<1>1. PodsInv'
  BY DEF IInv, PodsInv, Configured
<1> QED
  BY <1>1 DEF IInv, ObjectsInv, OutcomesInv, userObjects, caches, Kept

LEMMA CreatePodStep ==
    ASSUME IInv, NEW c \in Controllers, CreatePod(c)
    PROVE  IInv'
<1>1. PICK w : w = worker[c]
  OBVIOUS
<1>2. /\ w.pc = "createPod"
      /\ UNCHANGED <<userObjects, caches, configMaps, outcomes, bounds>>
      /\ \/ Retry(c, w.key) /\ UNCHANGED pods
         \/ /\ pods' = [pods EXCEPT ![CurrentTest(w)] = "Pending"]
            /\ AppendTest(c, w, w.at, "Pending")
  BY <1>1 DEF CreatePod, getTestPodSpec
<1>3. ReconcileOK(c, w, configMaps) /\ WorkOK(c, w, configMaps) /\ w # Idle
  BY <1>1, <1>2, NotIdle, InProgress
<1>4. BoundsInv'
  BY <1>2, BoundsKept
<1>5. CASE Retry(c, w.key) /\ UNCHANGED pods
  <2>1. w.key \in Keys(c) /\ Goto(c, Idle)
    BY <1>3, <1>5 DEF ReconcileOK, Retry
  <2>2. QueueInv'
    BY <1>5, <2>1, QueueMoves DEF IInv, Retry
  <2> QED
    BY <1>2, <1>4, <1>5, <2>1, <2>2, WorkerStep DEF WorkOK
<1>6. CASE /\ pods' = [pods EXCEPT ![CurrentTest(w)] = "Pending"]
           /\ AppendTest(c, w, w.at, "Pending")
  <2>1. w \in Busy /\ w.at \in w.matches /\ configMaps[CurrentTest(w)] # Nil
    BY <1>2, <1>3 DEF WorkOK, ReconcileOK
  <2>2. [w EXCEPT !.at = w.at] = w
    BY <2>1 DEF Busy
  <2>3. CurrentTest(w) \in TestIDs
    BY <1>2, <1>3, <2>1, <2>2, MatchFacts
  <2>4. UNCHANGED queue /\ \E v : Goto(c, v) /\ WorkOK(c, v, configMaps)
    <3>1. configMaps[CurrentTest([w EXCEPT !.at = w.at])] # Nil
      BY <2>1, <2>2
    <3> QED
      BY <1>2, <1>3, <1>6, <2>1, <3>1, AppendTestOK DEF Results
  <2>5. ObjectsInv' /\ PodsInv' /\ OutcomesInv' /\ Kept(configMaps, configMaps')
    BY <1>2, <1>6, <2>1, <2>3, PodsMove DEF Phases
  <2>6. WorkersInv'
    BY <1>2, <2>4, <2>5, WorkerMoves
  <2> QED
    BY <1>4, <2>4, <2>5, <2>6 DEF IInv, QueueInv
<1> QED
  BY <1>2, <1>5, <1>6

LEMMA CallFailsStep ==
    ASSUME IInv, NEW c \in Controllers, CallFails(c)
    PROVE  IInv'
<1>1. PICK key : key = worker[c].key
  OBVIOUS
<1>2. /\ worker[c] # Idle /\ faults > 0 /\ faults' = faults - 1 /\ Retry(c, key)
      /\ UNCHANGED <<userObjects, caches, configMaps, pods, outcomes, edits>>
  BY <1>1 DEF CallFails
<1>3. key \in Keys(c)
  BY <1>1, <1>2, InProgress DEF ReconcileOK
<1>4. QueueInv' /\ BoundsInv'
  BY <1>2, <1>3, QueueMoves, FaultSpent DEF IInv, Retry
<1> QED
  BY <1>2, <1>4, WorkerStep DEF Retry, WorkOK


----------------------------------------------------------------------------
(* The manager process, the users and the kubelets.                        *)

LEMMA WatchApplicationStep ==
    ASSUME IInv, NEW a \in Apps, WatchApplication(a)
    PROVE  IInv'
<1>1. ObjectsInv'
  BY DEF IInv, ObjectsInv, WatchApplication, userObjects
<1>2. QueueInv'
  BY QueueMoves DEF IInv, WatchApplication, Controllers, Keys
<1>3. PodsInv' /\ OutcomesInv' /\ WorkersInv' /\ BoundsInv'
  BY BoundsKept DEF IInv, PodsInv, OutcomesInv, WorkersInv, WatchApplication, Configured
<1> QED
  BY <1>1, <1>2, <1>3 DEF IInv

LEMMA WatchVersionStep ==
    ASSUME IInv, NEW v \in VersionObjects, WatchVersion(v)
    PROVE  IInv'
<1>1. ObjectsInv'
  BY DEF IInv, ObjectsInv, WatchVersion, userObjects
<1>2. QueueInv'
  BY QueueMoves DEF IInv, WatchVersion, Controllers, Keys
<1>3. PodsInv' /\ OutcomesInv' /\ WorkersInv' /\ BoundsInv'
  BY BoundsKept DEF IInv, PodsInv, OutcomesInv, WorkersInv, WatchVersion, Configured
<1> QED
  BY <1>1, <1>2, <1>3 DEF IInv

LEMMA ResyncStep ==
    ASSUME IInv, Resync
    PROVE  IInv'
<1>1. QueueInv'
  <2>1. Deployed(seenApps) \subseteq Apps /\ Deployed(seenVersions) \subseteq VersionObjects
    BY DEF IInv, ObjectsInv, Deployed
  <2> QED
    BY <2>1 DEF IInv, QueueInv, Resync, Controllers, Keys
<1>2. BoundsInv'
  BY BoundsKept DEF Resync
<1> QED
  BY <1>1, <1>2, WorkerStays DEF Resync

(* A new manager process knows nothing of what was going on.               *)
LEMMA RestartedStep ==
    ASSUME IInv, Restarted, BoundsInv'
    PROVE  IInv'
<1>1. ObjectsInv'
  BY DEF IInv, ObjectsInv, Restarted, userObjects
<1>2. QueueInv'
  <2>1. Deployed(apps) \subseteq Apps /\ Deployed(versions) \subseteq VersionObjects
    BY DEF IInv, ObjectsInv, Deployed
  <2> QED
    BY <2>1 DEF QueueInv, Restarted, Controllers, Keys
<1>3. PodsInv' /\ OutcomesInv'
  BY DEF IInv, PodsInv, OutcomesInv, Restarted, Configured
<1>4. WorkersInv'
  BY DEF WorkersInv, WorkOK, Restarted
<1> QED
  BY <1>1, <1>2, <1>3, <1>4 DEF IInv

LEMMA CrashStep ==
    ASSUME IInv, Crash
    PROVE  IInv'
BY FaultSpent, RestartedStep DEF Crash

LEMMA PanicStep ==
    ASSUME IInv, NEW c \in Controllers, Panic(c)
    PROVE  IInv'
<1>1. Restarted /\ UNCHANGED bounds
  BY DEF Panic
<1> QED
  BY <1>1, BoundsKept, RestartedStep

(* Only the objects of the users change, to something users may deploy.    *)
LEMMA ObjectsMove ==
    ASSUME IInv, UNCHANGED <<caches, queue, worker, configMaps, pods, outcomes, faults>>, Edit,
           ObjectsInv'
    PROVE  IInv'
<1>1. QueueInv' /\ PodsInv' /\ OutcomesInv' /\ WorkersInv'
  BY DEF IInv, QueueInv, PodsInv, OutcomesInv, WorkersInv, Configured
<1> QED
  BY <1>1, EditSpent DEF IInv

LEMMA UsersStep ==
    ASSUME IInv, Users
    PROVE  IInv'
<1>1. ASSUME NEW a \in EditableApps, NEW s \in AppSpecs \cup {Absent}, PutApplication(a, s)
      PROVE  IInv'
  <2>1. a \in Apps /\ s \in Specs \cup {Nil, Absent}
    BY DispatchAssumption, SpecFacts
  <2>2. ObjectsInv'
    BY <1>1, <2>1 DEF IInv, ObjectsInv, PutApplication, caches
  <2> QED
    BY <1>1, <2>2, ObjectsMove DEF PutApplication
<1>2. ASSUME NEW g \in EditableGrids, NEW s \in GridSpecs \cup {{}}, PutGrid(g, s)
      PROVE  IInv'
  <2>1. g \in Grids /\ s \subseteq Clusters
    BY DispatchAssumption
  <2>2. ObjectsInv'
    BY <1>2, <2>1 DEF IInv, ObjectsInv, PutGrid, caches
  <2> QED
    BY <1>2, <2>2, ObjectsMove DEF PutGrid
<1>3. ASSUME NEW v \in EditableVersions, NEW s \in VersionSpecs \cup {Absent}, PutVersion(v, s)
      PROVE  IInv'
  <2>1. v \in VersionObjects /\ s \in Asked \cup {Nil, Absent}
    BY DispatchAssumption, SpecFacts
  <2>2. ObjectsInv'
    BY <1>3, <2>1 DEF IInv, ObjectsInv, PutVersion, caches
  <2> QED
    BY <1>3, <2>2, ObjectsMove DEF PutVersion
<1>4. ASSUME NEW t \in DeletablePods, DeletePod(t)
      PROVE  IInv'
  <2>1. t \in TestIDs
    BY DispatchAssumption
  <2>2. ObjectsInv' /\ PodsInv' /\ OutcomesInv'
    BY <1>4, <2>1, PodsMove DEF DeletePod
  <2>3. QueueInv' /\ WorkersInv' /\ BoundsInv'
    BY <1>4, EditSpent DEF IInv, QueueInv, WorkersInv, DeletePod
  <2> QED
    BY <2>2, <2>3 DEF IInv
<1> QED
  BY <1>1, <1>2, <1>3, <1>4 DEF Users

LEMMA KubeletStep ==
    ASSUME IInv, NEW t \in TestIDs, NEW phase \in Phases, PodMoves(t, phase)
    PROVE  IInv'
<1>1. configMaps[t] # Nil
  <2>1. pods[t] \in Phases
    BY KubeletAssumption DEF PodMoves
  <2>2. pods[t] # NoPod
    BY <2>1 DEF Phases, NoPod
  <2> QED
    BY <2>2 DEF IInv, PodsInv
<1>2. ObjectsInv' /\ PodsInv' /\ OutcomesInv'
  BY <1>1, PodsMove DEF PodMoves
<1>3. QueueInv' /\ WorkersInv' /\ BoundsInv'
  BY BoundsKept DEF IInv, QueueInv, WorkersInv, PodMoves
<1> QED
  BY <1>2, <1>3 DEF IInv

----------------------------------------------------------------------------
(* The inductive invariant holds.                                          *)

LEMMA InitInv == Init => IInv
<1> SUFFICES ASSUME Init PROVE IInv
  OBVIOUS
<1>1. ObjectsInv
  BY SpecFacts, DispatchAssumption DEF Init, ObjectsInv
<1>2. QueueInv
  <2>1. Deployed(InitialApps) \subseteq Apps /\ Deployed(InitialVersions) \subseteq VersionObjects
    BY DispatchAssumption DEF Deployed
  <2> QED
    BY <2>1 DEF Init, QueueInv, Controllers, Keys
<1>3. PodsInv
  BY DEF Init, PodsInv
<1>4. OutcomesInv
  BY DEF Init, OutcomesInv
<1>5. WorkersInv
  BY DEF Init, WorkersInv, WorkOK
<1>6. BoundsInv
  BY DispatchAssumption DEF Init, BoundsInv
<1> QED
  BY <1>1, <1>2, <1>3, <1>4, <1>5, <1>6 DEF IInv

LEMMA NextInv == IInv /\ [Next]_vars => IInv'
<1> SUFFICES ASSUME IInv, [Next]_vars PROVE IInv'
  OBVIOUS
<1>1. ASSUME NEW a \in Apps, GetApplication(a) \/ WatchApplication(a) PROVE IInv'
  BY <1>1, GetApplicationStep, WatchApplicationStep
<1>2. ASSUME NEW v \in VersionObjects, GetVersion(v) \/ WatchVersion(v) PROVE IInv'
  BY <1>2, GetVersionStep, WatchVersionStep
<1>3. ASSUME NEW c \in Controllers, Step(c) PROVE IInv'
  BY <1>3, listGridsStep, PodExistsStep, PodNotFoundStep, CreateConfigMapStep, CreatePodStep
     DEF Step
<1>4. CASE ApplicationStep
  BY <1>3, <1>4, findVersionForAppStep DEF ApplicationStep, Controllers
<1>5. CASE VersionStep
  BY <1>3, <1>5, listApplicationsStep, createOutcomeStep DEF VersionStep, Controllers
<1>6. ASSUME NEW c \in Controllers, CallFails(c) \/ Panic(c) PROVE IInv'
  BY <1>6, CallFailsStep, PanicStep
<1>7. CASE Resync \/ Crash \/ Users
  BY <1>7, ResyncStep, CrashStep, UsersStep
<1>8. CASE Kubelet
  BY <1>8, KubeletStep DEF Kubelet
<1>9. CASE UNCHANGED vars
  <2>1. /\ UNCHANGED <<userObjects, caches, configMaps, pods, outcomes, worker>>
        /\ UNCHANGED queue /\ UNCHANGED bounds
    BY <1>9 DEF vars
  <2>2. QueueInv' /\ BoundsInv'
    BY <2>1, BoundsKept DEF IInv, QueueInv
  <2> QED
    BY <2>1, <2>2, WorkerStays
<1> QED
  BY <1>1, <1>2, <1>4, <1>5, <1>6, <1>7, <1>8, <1>9 DEF Next, Reconciling

LEMMA Invariance == Spec => []IInv
BY InitInv, NextInv, PTL DEF Spec

----------------------------------------------------------------------------
(* What follows from it.                                                   *)

LEMMA WorkerTypes ==
    ASSUME IInv, NEW c \in Controllers
    PROVE  /\ worker[c] \in Busy \cup {Idle}
           /\ worker[c].pc \notin {"idle", "listApps", "createOutcome"} => worker[c].app # Nil
           /\ worker[c].pc \in {"createConfigMap", "createPod"} => worker[c].at # Nil
<1>1. CASE worker[c] = Idle
  BY <1>1 DEF Idle
<1>2. CASE worker[c] # Idle
  <2>1. WorkOK(c, worker[c], configMaps) /\ worker[c] \in Busy
    BY <1>2, InProgress DEF ReconcileOK
  <2>2. worker[c].matches \subseteq Matches
    BY <2>1, BusyFacts
  <2> QED
    BY <1>2, <2>1, <2>2, LocalsAssumption DEF WorkOK
<1> QED
  BY <1>1, <1>2

(* Every variable, the locals of the reconciles included, holds what the   *)
(* code can put there; a worker inside createAppTests has an application,  *)
(* and one about to create a ConfigMap or a pod has a match in hand.       *)
THEOREM TypeCorrect == Spec => []TypeOK
<1>1. IInv => TypeOK
  <2> SUFFICES ASSUME IInv PROVE TypeOK
    OBVIOUS
  <2>1. /\ apps \in [Apps -> KotsSpecs \cup {Nil, Absent}]
        /\ seenApps \in [Apps -> KotsSpecs \cup {Nil, Absent}]
    BY SpecFacts DEF IInv, ObjectsInv
  <2>2. /\ versions \in [VersionObjects -> KotsVersions \cup {Nil, Absent}]
        /\ seenVersions \in [VersionObjects -> KotsVersions \cup {Nil, Absent}]
    BY SpecFacts DEF IInv, ObjectsInv
  <2>3. /\ queue \in [Controllers -> SUBSET (Apps \cup VersionObjects)]
        /\ \A c \in Controllers : queue[c] \subseteq Keys(c)
    BY DEF IInv, QueueInv, Keys
  <2>4. worker \in [Controllers -> Busy \cup {Idle}]
    BY WorkerTypes DEF IInv, WorkersInv
  <2>5. /\ grids \in [Grids -> SUBSET Clusters]
        /\ configMaps \in [TestIDs -> Configs \cup {Nil}]
        /\ pods \in [TestIDs -> Phases \cup {NoPod}]
        /\ outcomes \in [Runs -> Outcomes \cup {Nil}]
        /\ edits \in 0..MaxEdits /\ faults \in 0..MaxFaults
    BY DEF IInv, ObjectsInv, PodsInv, OutcomesInv, BoundsInv
  <2> QED
    BY <2>1, <2>2, <2>3, <2>4, <2>5, WorkerTypes DEF TypeOK
<1> QED
  BY Invariance, <1>1, PTL

LEMMA InvConfigured == IInv => PodConfigured
BY DEF IInv, PodsInv, PodConfigured, Configured, Specs

(* No pod runs without the ConfigMap it mounts, and what that holds fits   *)
(* the pod's test: whatever reconciles failed half way, whichever of the   *)
(* two controllers created it, and whatever has been edited since.         *)
THEOREM PodsAreConfigured == Spec => []PodConfigured
BY Invariance, InvConfigured, PTL

LEMMA InvOfOneRun == IInv => OutcomeOfOneRun
<1> SUFFICES ASSUME IInv, NEW r \in Runs, outcomes[r] # Nil
             PROVE  /\ \A t \in IDsOf(outcomes[r].tests) : t.run = r /\ configMaps[t] # Nil
                    /\ \E s \in VersionSpecs \cup {InitialVersions[v] : v \in VersionObjects} :
                         /\ s \in KotsVersions /\ s.run = r
                         /\ \A t \in IDsOf(outcomes[r].tests) : t.version = s.latest
  BY DEF OutcomeOfOneRun
<1>1. PICK s \in Asked : s.run = r /\ OfRun(outcomes[r].tests, r, s.latest, configMaps)
  BY DEF IInv, OutcomesInv
<1>2. \A t \in IDsOf(outcomes[r].tests) : t.run = r /\ t.version = s.latest /\ configMaps[t] # Nil
  BY <1>1 DEF OfRun, IDsOf
<1> QED
  BY <1>1, <1>2 DEF Asked

(* The tests of an Outcome belong to its run, run the release that a       *)
(* Version asked for together with that run label, and are set up, however *)
(* the Version was edited while its reconcile went on.                     *)
THEOREM OutcomesOfOneRun == Spec => []OutcomeOfOneRun
BY Invariance, InvOfOneRun, PTL

----------------------------------------------------------------------------
(* What a step does to the pods and the Outcomes, and what a reconcile of  *)
(* a Version has gathered for its Outcome: all that others see of it.      *)

Gathered(w) == IF w = Idle THEN {} ELSE w.tests

(* The result of the test is the one that its pod has.                     *)
ReadOff(test) ==
    /\ test.id \in TestIDs /\ pods[test.id] # NoPod
    /\ test.result = getTestResultFromPod(pods[test.id])

Launched(t) == pods[t] = NoPod /\ pods' = [pods EXCEPT ![t] = "Pending"]
Deleted(t) == pods[t] # NoPod /\ pods' = [pods EXCEPT ![t] = NoPod]
Moved(t, phase) == <<pods[t], phase>> \in KubeletMoves /\ pods' = [pods EXCEPT ![t] = phase]
Published(w) ==
    /\ w # Idle /\ w.run \in Runs /\ outcomes[w.run] = Nil
    /\ outcomes' = [outcomes EXCEPT ![w.run] = [rv |-> 1, tests |-> w.tests]]

LEMMA CreatePodEffect ==
    ASSUME IInv, NEW c \in Controllers, CreatePod(c)
    PROVE  /\ UNCHANGED outcomes
           /\ UNCHANGED pods \/ \E t \in TestIDs : Launched(t)
<1>1. PICK w : w = worker[c]
  OBVIOUS
<1>2. PICK t : t = CurrentTest(w)
  OBVIOUS
<1>3. /\ w.pc = "createPod" /\ UNCHANGED outcomes
      /\ UNCHANGED pods \/ Launched(t)
  BY <1>1, <1>2 DEF CreatePod, getTestPodSpec, Launched
<1>4. WorkOK(c, w, configMaps) /\ w # Idle
  BY <1>1, <1>3, NotIdle, InProgress
<1>5. w \in Busy /\ w.app \in AppObjects /\ w.app.spec \in Specs /\ w.at \in Matches
  BY <1>3, <1>4, BusyFacts DEF WorkOK, ReconcileOK
<1> QED
  BY <1>2, <1>3, <1>5, TestFacts

LEMMA createOutcomeEffect ==
    ASSUME IInv, createOutcome
    PROVE  /\ UNCHANGED pods
           /\ UNCHANGED outcomes \/ Published(worker["version"])
<1>1. PICK w : w = worker["version"]
  OBVIOUS
<1>2. /\ w.pc = "createOutcome" /\ UNCHANGED pods
      /\ outcomes' = [outcomes EXCEPT ![w.run] =
                        IF outcomes[w.run] = Nil THEN [rv |-> 1, tests |-> w.tests]
                                                 ELSE outcomes[w.run]]
  BY <1>1 DEF createOutcome
<1>3. WorkOK("version", w, configMaps) /\ w # Idle
  BY <1>1, <1>2, NotIdle, InProgress DEF Controllers
<1>4. w.run \in Runs
  BY <1>2, <1>3, BusyFacts DEF WorkOK, ReconcileOK
<1>5. CASE outcomes[w.run] = Nil
  BY <1>1, <1>2, <1>3, <1>4, <1>5 DEF Published
<1>6. CASE outcomes[w.run] # Nil
  BY <1>2, <1>6 DEF IInv, OutcomesInv
<1> QED
  BY <1>2, <1>5, <1>6

(* A step launches a pod, moves it, deletes it, or publishes what the      *)
(* reconcile of a Version has gathered; at most one of them.               *)
LEMMA Effects ==
    ASSUME IInv, [Next]_vars
    PROVE  \/ UNCHANGED <<pods, outcomes>>
           \/ /\ UNCHANGED outcomes
              /\ \/ \E t \in TestIDs : Launched(t)
                 \/ \E t \in DeletablePods : Deleted(t)
                 \/ \E t \in TestIDs, phase \in Phases : Moved(t, phase)
           \/ UNCHANGED pods /\ Published(worker["version"])
<1>1. ASSUME NEW c \in Controllers, Step(c)
      PROVE  /\ UNCHANGED outcomes
             /\ UNCHANGED pods \/ \E t \in TestIDs : Launched(t)
  <2>1. CASE CreatePod(c)
    BY <2>1, CreatePodEffect
  <2>2. CASE listGrids(c) \/ PodExists(c) \/ PodNotFound(c) \/ CreateConfigMap(c)
    BY <2>2 DEF listGrids, PodExists, PodNotFound, CreateConfigMap
  <2> QED
    BY <1>1, <2>1, <2>2 DEF Step
<1>2. CASE ApplicationStep \/ VersionStep
  BY <1>1, <1>2, createOutcomeEffect
     DEF ApplicationStep, VersionStep, findVersionForApp, listApplications, Controllers
<1>3. CASE Users
  BY <1>3 DEF Users, PutApplication, PutGrid, PutVersion, DeletePod, Deleted
<1>4. CASE Kubelet
  BY <1>4 DEF Kubelet, PodMoves, Moved
<1>5. ASSUME \/ \E a \in Apps : GetApplication(a) \/ WatchApplication(a)
             \/ \E v \in VersionObjects : GetVersion(v) \/ WatchVersion(v)
             \/ \E c \in Controllers : CallFails(c) \/ Panic(c)
             \/ Resync \/ Crash \/ UNCHANGED vars
      PROVE  UNCHANGED <<pods, outcomes>>
  BY <1>5 DEF GetApplication, WatchApplication, GetVersion, WatchVersion, CallFails, Panic,
              Restarted, Resync, Crash, vars
<1> QED
  BY <1>2, <1>3, <1>4, <1>5 DEF Next, Reconciling

(* A worker moves on with the results that it has, or reads one more.      *)
LEMMA WorkerGathers ==
    ASSUME IInv, NEW c \in Controllers, NEW v, Goto(c, v),
           c = "version" =>
             \A test \in Gathered(v) : test \in Gathered(worker[c]) \/ ReadOff(test)'
    PROVE  \A test \in Gathered(worker'["version"]) :
               test \in Gathered(worker["version"]) \/ ReadOff(test)'
<1>1. CASE c = "version"
  BY <1>1 DEF IInv, WorkersInv, Goto
<1>2. CASE c = "application"
  BY <1>2 DEF IInv, WorkersInv, Goto
<1> QED
  BY <1>1, <1>2 DEF Controllers

LEMMA AfterAppGathers ==
    ASSUME NEW c \in Controllers, NEW w \in Busy, AfterApp(c, w)
    PROVE  \E v : Goto(c, v) /\ Gathered(v) \subseteq w.tests
<1>1. CASE Done(c)
  BY <1>1 DEF Done, Gathered
<1>2. ASSUME NEW a \in w.todoApps, Goto(c, CreateAppTests(w, a, w.asked))
      PROVE  \E v : Goto(c, v) /\ Gathered(v) \subseteq w.tests
  <2>1. PICK v : v = CreateAppTests(w, a, w.asked)
    OBVIOUS
  <2>2. v.tests = w.tests
    BY <2>1 DEF CreateAppTests, Busy
  <2> QED
    BY <1>2, <2>1, <2>2 DEF Gathered
<1>3. ASSUME Goto(c, [w EXCEPT !.pc = "createOutcome"])
      PROVE  \E v : Goto(c, v) /\ Gathered(v) \subseteq w.tests
  <2>1. PICK v : v = [w EXCEPT !.pc = "createOutcome"]
    OBVIOUS
  <2>2. v.tests = w.tests
    BY <2>1 DEF Busy
  <2> QED
    BY <1>3, <2>1, <2>2 DEF Gathered
<1> QED
  BY <1>1, <1>2, <1>3 DEF AfterApp, Controllers

LEMMA AppendTestGathers ==
    ASSUME NEW c \in Controllers, NEW w \in Busy, NEW m \in Matches, NEW result \in Results,
           CurrentTest([w EXCEPT !.at = m]) \in TestIDs, AppendTest(c, w, m, result)
    PROVE  \E v : /\ Goto(c, v)
                  /\ \A test \in Gathered(v) :
                       \/ test \in w.tests
                       \/ /\ test.id = CurrentTest([w EXCEPT !.at = m])
                          /\ test.result = result
<1>1. PICK t : t = CurrentTest([w EXCEPT !.at = m])
  OBVIOUS
<1>2. PICK one : one = [id |-> t, result |-> result]
  OBVIOUS
<1>3. PICK tests : tests = IF c = "version" THEN w.tests \cup {one} ELSE {}
  OBVIOUS
<1>4. PICK rest : rest = [w EXCEPT !.pc = "checkPod", !.at = Nil, !.matches = w.matches \ {m},
                                   !.tests = tests]
  OBVIOUS
<1>5. /\ one \in Tests /\ one.id = t /\ one.result = result
      /\ tests \subseteq Tests
  BY <1>1, <1>2, <1>3, BusyFacts DEF Tests
<1>6. rest \in Busy /\ rest.tests = tests
  <2>1. w.matches \ {m} \in SUBSET Matches
    BY BusyFacts
  <2> QED
    BY <1>4, <1>5, <2>1 DEF Busy
<1>7. IF rest.matches = {} THEN AfterApp(c, rest) ELSE Goto(c, rest) /\ UNCHANGED queue
  BY <1>1, <1>2, <1>3, <1>4 DEF AppendTest
<1>8. \E v : Goto(c, v) /\ Gathered(v) \subseteq tests
  BY <1>6, <1>7, AfterAppGathers DEF Gathered
<1> QED
  BY <1>1, <1>3, <1>5, <1>8

LEMMA StepGathers ==
    ASSUME IInv, NEW c \in Controllers, Step(c)
    PROVE  \E v : /\ Goto(c, v)
                  /\ \A test \in Gathered(v) : test \in Gathered(worker[c]) \/ ReadOff(test)'
<1>1. PICK w : w = worker[c]
  OBVIOUS
<1>2. /\ w # Idle /\ w \in Busy /\ WorkOK(c, w, configMaps)
      /\ w.tests = Gathered(worker[c])
      /\ w.matches \subseteq Matches
      /\ w.pc \in {"checkPod", "createConfigMap", "createPod"} =>
           /\ \A m \in w.matches : CurrentTest([w EXCEPT !.at = m]) \in TestIDs
           /\ w.pc # "checkPod" => w.at \in w.matches
  <2>1. w # Idle
    BY <1>1, NotIdle DEF Step, listGrids, PodExists, PodNotFound, CreateConfigMap, CreatePod
  <2>2. WorkOK(c, w, configMaps) /\ ReconcileOK(c, w, configMaps)
    BY <1>1, <2>1, InProgress
  <2> QED
    BY <1>1, <2>1, <2>2, MatchFacts, BusyFacts DEF ReconcileOK, WorkOK, Gathered
<1>3. ASSUME NEW pc, NEW matches, NEW at,
             Goto(c, [w EXCEPT !.pc = pc, !.matches = matches, !.at = at])
      PROVE  \E v : Goto(c, v) /\ Gathered(v) \subseteq w.tests
  <2>1. PICK v : v = [w EXCEPT !.pc = pc, !.matches = matches, !.at = at]
    OBVIOUS
  <2>2. v.tests = w.tests
    BY <1>2, <2>1 DEF Busy
  <2> QED
    BY <1>3, <2>1, <2>2 DEF Gathered
<1>4. CASE listGrids(c)
  <2>1. PICK found : found = {m \in Matches : m[2] \in grids[m[1]] \cap w.app.spec.clusters}
    OBVIOUS
  <2>2. AfterApp(c, w) \/ Goto(c, [w EXCEPT !.pc = "checkPod", !.matches = found])
    BY <1>1, <1>4, <2>1 DEF listGrids
  <2>3. [w EXCEPT !.pc = "checkPod", !.matches = found]
          = [w EXCEPT !.pc = "checkPod", !.matches = found, !.at = w.at]
    BY <1>2 DEF Busy
  <2>4. CASE AfterApp(c, w)
    BY <1>2, <2>4, AfterAppGathers
  <2>5. CASE Goto(c, [w EXCEPT !.pc = "checkPod", !.matches = found, !.at = w.at])
    <3>1. \E v : Goto(c, v) /\ Gathered(v) \subseteq w.tests
      BY <1>3, <2>5
    <3> QED
      BY <1>2, <3>1
  <2> QED
    BY <2>2, <2>3, <2>4, <2>5
<1>5. CASE PodExists(c)
  <2>1. PICK m \in w.matches :
          /\ w.pc = "checkPod" /\ UNCHANGED pods
          /\ pods[CurrentTest([w EXCEPT !.at = m])] # NoPod
          /\ AppendTest(c, w, m, getTestResultFromPod(pods[CurrentTest([w EXCEPT !.at = m])]))
    BY <1>1, <1>5 DEF PodExists
  <2>2. PICK t : t = CurrentTest([w EXCEPT !.at = m])
    OBVIOUS
  <2>3. PICK result : result = getTestResultFromPod(pods[t])
    OBVIOUS
  <2>4. t \in TestIDs /\ result \in Results /\ m \in Matches
    BY <1>2, <2>1, <2>2, <2>3, ResultFacts
  <2>5. AppendTest(c, w, m, result)
    BY <2>1, <2>2, <2>3
  <2>6. PICK v : /\ Goto(c, v)
                 /\ \A test \in Gathered(v) :
                       test \in w.tests \/ (test.id = t /\ test.result = result)
    BY <1>2, <2>2, <2>4, <2>5, AppendTestGathers
  <2>7. pods'[t] # NoPod /\ result = getTestResultFromPod(pods'[t])
    BY <2>1, <2>2, <2>3
  <2>8. ASSUME NEW test \in Gathered(v) PROVE test \in Gathered(worker[c]) \/ ReadOff(test)'
    BY <1>2, <2>4, <2>6, <2>7 DEF ReadOff
  <2> QED
    BY <2>6, <2>8 DEF ReadOff
<1>6. CASE PodNotFound(c)
  <2>1. PICK m : Goto(c, [w EXCEPT !.pc = "createConfigMap", !.at = m])
    BY <1>1, <1>6 DEF PodNotFound
  <2>2. [w EXCEPT !.pc = "createConfigMap", !.at = m]
          = [w EXCEPT !.pc = "createConfigMap", !.matches = w.matches, !.at = m]
    BY <1>2 DEF Busy
  <2>3. \E v : Goto(c, v) /\ Gathered(v) \subseteq w.tests
    BY <1>3, <2>1, <2>2
  <2> QED
    BY <1>2, <2>3
<1>7. CASE CreateConfigMap(c)
  <2>1. Goto(c, [w EXCEPT !.pc = "createPod"])
    BY <1>1, <1>7 DEF CreateConfigMap
  <2>2. [w EXCEPT !.pc = "createPod"]
          = [w EXCEPT !.pc = "createPod", !.matches = w.matches, !.at = w.at]
    BY <1>2 DEF Busy
  <2>3. \E v : Goto(c, v) /\ Gathered(v) \subseteq w.tests
    BY <1>3, <2>1, <2>2
  <2> QED
    BY <1>2, <2>3
<1>8. CASE CreatePod(c)
  <2>1. PICK t : t = CurrentTest(w)
    OBVIOUS
  <2>2. /\ w.pc = "createPod"
        /\ \/ Goto(c, Idle)
           \/ /\ pods' = [pods EXCEPT ![t] = "Pending"]
              /\ AppendTest(c, w, w.at, "Pending")
    BY <1>1, <1>8, <2>1 DEF CreatePod, Retry, getTestPodSpec
  <2>3. w.at \in w.matches /\ w.at \in Matches /\ [w EXCEPT !.at = w.at] = w /\ t \in TestIDs
    <3>1. w.at \in w.matches /\ [w EXCEPT !.at = w.at] = w
      BY <1>2, <2>2 DEF Busy
    <3>2. CurrentTest([w EXCEPT !.at = w.at]) \in TestIDs
      BY <1>2, <2>2, <3>1
    <3> QED
      BY <1>2, <2>1, <3>1, <3>2
  <2>4. CASE Goto(c, Idle)
    BY <2>4 DEF Gathered
  <2>5. CASE /\ pods' = [pods EXCEPT ![t] = "Pending"]
             /\ AppendTest(c, w, w.at, "Pending")
    <3>1. pods'[t] # NoPod /\ getTestResultFromPod(pods'[t]) = "Pending"
      BY <2>3, <2>5 DEF IInv, PodsInv, NoPod, getTestResultFromPod
    <3>2. PICK v : /\ Goto(c, v)
                   /\ \A test \in Gathered(v) :
                         test \in w.tests \/ (test.id = t /\ test.result = "Pending")
      BY <1>2, <2>1, <2>3, <2>5, AppendTestGathers DEF Results
    <3>3. ASSUME NEW test \in Gathered(v) PROVE test \in Gathered(worker[c]) \/ ReadOff(test)'
      BY <1>2, <2>3, <3>1, <3>2 DEF ReadOff
    <3> QED
      BY <3>2, <3>3 DEF ReadOff
  <2> QED
    BY <2>2, <2>4, <2>5
<1> QED
  BY <1>4, <1>5, <1>6, <1>7, <1>8 DEF Step

(* What a reconcile of a Version has gathered it has read off the pods,    *)
(* now or before.                                                          *)
LEMMA ResultsAreRead ==
    ASSUME IInv, [Next]_vars
    PROVE  \A test \in Gathered(worker'["version"]) :
               test \in Gathered(worker["version"]) \/ ReadOff(test)'
<1>1. ASSUME NEW c \in Controllers, Step(c)
      PROVE  \A test \in Gathered(worker'["version"]) :
                 test \in Gathered(worker["version"]) \/ ReadOff(test)'
  BY <1>1, StepGathers, WorkerGathers
<1>2. CASE \E v : Goto("application", v)
  BY <1>2, WorkerGathers DEF Controllers
<1>3. CASE Goto("version", Idle)
  BY <1>3, WorkerGathers DEF Controllers, Gathered
<1>4. CASE UNCHANGED worker
  BY <1>4
<1>5. CASE Restarted
  BY <1>5 DEF Restarted, Gathered, Controllers
<1>6. ASSUME NEW x \in VersionObjects, GetVersion(x), ~UNCHANGED worker
      PROVE  \A test \in Gathered(worker'["version"]) :
                 test \in Gathered(worker["version"]) \/ ReadOff(test)'
  <2>1. PICK v : v = [Reconcile(x, seenVersions[x].run, seenVersions[x].latest)
                        EXCEPT !.pc = "listApps"]
    OBVIOUS
  <2>2. Goto("version", v) /\ v.tests = {}
    BY <1>6, <2>1 DEF GetVersion, Reconcile
  <2> QED
    BY <2>2, WorkerGathers DEF Gathered, Controllers
<1>7. CASE listApplications
  <2>1. PICK w : w = worker["version"]
    OBVIOUS
  <2>2. PICK todo : todo = {[name |-> a, spec |-> apps[a]] :
                              a \in {b \in KotsDeployed(apps) : apps[b].version = Latest}}
    OBVIOUS
  <2>3. w.pc = "listApps" /\ AfterApp("version", [w EXCEPT !.todoApps = todo])
    BY <1>7, <2>1, <2>2 DEF listApplications
  <2>4. w # Idle /\ w \in Busy /\ w.tests = Gathered(worker["version"])
    BY <2>1, <2>3, NotIdle, InProgress DEF Controllers, ReconcileOK, Gathered
  <2>5. \A a \in KotsDeployed(apps) : a \in Apps /\ apps[a] \in Specs
    BY DEF IInv, ObjectsInv, KotsDeployed, Deployed
  <2>6. todo \subseteq AppObjects
    BY <2>2, <2>5, KotsFacts DEF AppObjects
  <2>7. PICK u : u = [w EXCEPT !.todoApps = todo]
    OBVIOUS
  <2>8. u \in Busy /\ u.tests = w.tests
    BY <2>4, <2>6, <2>7 DEF Busy
  <2>9. PICK v : Goto("version", v) /\ Gathered(v) \subseteq u.tests
    BY <2>3, <2>7, <2>8, AfterAppGathers DEF Controllers
  <2> QED
    BY <2>4, <2>8, <2>9, WorkerGathers DEF Controllers
<1>8. CASE ApplicationStep
  BY <1>1, <1>2, <1>8 DEF ApplicationStep, findVersionForApp, Retry, Controllers
<1>9. CASE VersionStep
  BY <1>1, <1>3, <1>7, <1>9 DEF VersionStep, createOutcome, Done, Controllers
<1>10. ASSUME NEW c \in Controllers, CallFails(c) \/ Panic(c)
       PROVE  \A test \in Gathered(worker'["version"]) :
                 test \in Gathered(worker["version"]) \/ ReadOff(test)'
  BY <1>2, <1>3, <1>5, <1>10 DEF CallFails, Panic, Retry, Controllers
<1>11. CASE Crash \/ Users \/ Kubelet \/ Resync \/ UNCHANGED vars
  BY <1>4, <1>5, <1>11 DEF Crash, Users, PutApplication, PutGrid, PutVersion, DeletePod,
                           Kubelet, PodMoves, Resync, vars
<1>12. ASSUME NEW a \in Apps, GetApplication(a) \/ WatchApplication(a)
       PROVE  UNCHANGED worker \/ \E v : Goto("application", v)
  BY <1>12 DEF GetApplication, WatchApplication
<1>13. ASSUME NEW x \in VersionObjects, WatchVersion(x)
       PROVE  UNCHANGED worker
  BY <1>13 DEF WatchVersion
<1> QED
  BY <1>2, <1>4, <1>6, <1>8, <1>9, <1>10, <1>11, <1>12, <1>13 DEF Next, Reconciling

----------------------------------------------------------------------------
(* No test pod runs that nothing reports, as long as the applications stay *)
(* as they were deployed, every cluster a pod can run on is in a grid that *)
(* stays, and a run label names one release.                               *)

Steady == {k \in EksClusters : \E g \in Grids \ EditableGrids : k \in InitialGrids[g]}

Stable ==
    /\ EditableApps = {}
    /\ \A g \in EditableGrids : \A clusters \in GridSpecs \cup {InitialGrids[g]} :
         clusters \cap EksClusters \subseteq Steady
    /\ \A s, u \in Asked : s.run = u.run /\ s.run # NoRun => s.latest = u.latest

(* What the reconcile of a Version tests: the applications at "latest",    *)
(* on each of their clusters that keeps its grid.                          *)
FloatingSpecs ==
    {InitialApps[a] : a \in {b \in KotsDeployed(InitialApps) : InitialApps[b].version = Latest}}
Wants(s, t) ==
    /\ s.channel = t.channel
    /\ t.cluster \in s.clusters \cap Steady
Due(run, asked) ==
    {t \in TestIDs : t.run = run /\ t.version = asked /\ \E s \in FloatingSpecs : Wants(s, t)}

(* A test pod of a run is one that each reconcile of the run comes to.     *)
PodDue(t) == \E s \in Asked : s.run = t.run /\ t \in Due(s.run, s.latest)
PodsDue == \A t \in TestIDs : pods[t] # NoPod /\ t.run # NoRun => PodDue(t)

OutcomesComplete ==
    \A r \in Runs : outcomes[r] # Nil =>
        \E s \in Asked : s.run = r /\ Due(r, s.latest) \subseteq IDsOf(outcomes[r].tests)

(* A test that is due has been appended, or the application that wants it  *)
(* is still to be done, or it is one of the matches that are left.         *)
AtMatches == {"checkPod", "createConfigMap", "createPod"}
Appended(w, t) == t \in IDsOf(w.tests)
Ahead(w, t) == \E a \in w.todoApps : Wants(a.spec, t)
InHand(w, t) ==
    \/ w.pc = "listGrids" /\ Wants(w.app.spec, t)
    \/ /\ w.pc \in AtMatches
       /\ w.app.spec.channel = t.channel
       /\ \E m \in w.matches : m[2] = t.cluster

(* A reconcile of a Version comes to every test that is due, ...           *)
OnTrack(w) ==
    /\ \A a \in w.todoApps : a.spec \in FloatingSpecs
    /\ w.pc = "createOutcome" => w.todoApps = {}
    /\ w.pc \in InCreateAppTests => w.app.spec \in FloatingSpecs
    /\ w.pc \in AtMatches => \A m \in w.matches : m[2] \in EksClusters => m[2] \in Steady
    /\ w.pc \in {"createConfigMap", "createPod"} => w.at[2] \in EksClusters
    /\ w.pc # "listApps" =>
         \A t \in Due(w.run, w.asked) : Appended(w, t) \/ Ahead(w, t) \/ InHand(w, t)

(* ... and the reconcile of an Application belongs to no run.              *)
Placed(c, w) ==
    w # Idle => IF c = "version" THEN OnTrack(w) ELSE w.run = NoRun
PlacesInv == \A c \in Controllers : Placed(c, worker[c])

GridsKept ==
    /\ grids \in [Grids -> SUBSET Clusters]
    /\ \A g \in Grids \ EditableGrids : grids[g] = InitialGrids[g]
    /\ \A g \in Grids : grids[g] \cap EksClusters \subseteq Steady

DueInv ==
    /\ apps = InitialApps
    /\ GridsKept
    /\ PodsDue
    /\ OutcomesComplete
    /\ PlacesInv

LEMMA FloatingFacts ==
    ASSUME NEW s \in FloatingSpecs
    PROVE  s \in Specs
<1>1. DOMAIN InitialApps = Apps
  BY DispatchAssumption
<1>2. PICK a \in KotsDeployed(InitialApps) : s = InitialApps[a]
  BY DEF FloatingSpecs
<1> QED
  BY <1>1, <1>2, SpecFacts DEF KotsDeployed, Deployed

LEMMA IdlePlaced ==
    ASSUME NEW c
    PROVE  Placed(c, Idle)
BY DEF Placed

(* One worker moves.                                                       *)
LEMMA PlaceMoves ==
    ASSUME IInv, PlacesInv, NEW c \in Controllers, NEW w, Goto(c, w), Placed(c, w)
    PROVE  PlacesInv'
<1>1. /\ worker'[c] = w
      /\ \A d \in Controllers \ {c} : worker'[d] = worker[d]
  BY DEF Goto, IInv, WorkersInv
<1>2. PICK new : new = worker'
  OBVIOUS
<1>3. \A d \in Controllers : Placed(d, new[d])
  BY <1>1, <1>2 DEF PlacesInv
<1> QED
  BY <1>2, <1>3 DEF PlacesInv

LEMMA OnlyWorker ==
    ASSUME DueInv, UNCHANGED <<apps, grids, pods, outcomes>>, PlacesInv'
    PROVE  DueInv'
BY DEF DueInv, GridsKept, PodsDue, OutcomesComplete

LEMMA WorkerDue ==
    ASSUME IInv, DueInv, UNCHANGED <<userObjects, caches, configMaps, pods, outcomes>>,
           NEW c \in Controllers, NEW w, Goto(c, w), Placed(c, w)
    PROVE  DueInv'
<1>1. PlacesInv'
  BY PlaceMoves DEF DueInv
<1> QED
  BY <1>1, OnlyWorker DEF userObjects

(* The worker of a Version in progress, and that of an Application.        *)
LEMMA VersionPlace ==
    ASSUME DueInv, worker["version"] # Idle
    PROVE  OnTrack(worker["version"])
BY DEF DueInv, PlacesInv, Placed, Controllers

LEMMA ApplicationPlace ==
    ASSUME DueInv, worker["application"] # Idle
    PROVE  worker["application"].run = NoRun
BY DEF DueInv, PlacesInv, Placed, Controllers

(* What follows a successful createAppTests.                               *)
LEMMA AfterAppPlaced ==
    ASSUME NEW c \in Controllers, NEW w, NEW cm, ReconcileOK(c, w, cm), AfterApp(c, w),
           c = "version" => \A a \in w.todoApps : a.spec \in FloatingSpecs,
           c = "version" => \A t \in Due(w.run, w.asked) : Appended(w, t) \/ Ahead(w, t)
    PROVE  \E v : Goto(c, v) /\ Placed(c, v)
<1>1. CASE AfterApp(c, w) /\ (c = "application" \/ (w.todoApps = {} /\ w.run = NoRun))
  <2>1. Goto(c, Idle)
    BY <1>1 DEF AfterApp, Done, Controllers
  <2> QED
    BY <2>1, IdlePlaced
<1>2. CASE c = "version" /\ w.todoApps # {}
  <2>1. PICK a \in w.todoApps : Goto(c, CreateAppTests(w, a, w.asked))
    BY <1>2 DEF AfterApp
  <2>2. w \in Busy /\ a \in AppObjects /\ w.asked # NoRelease
    BY <1>2, BusyFacts DEF ReconcileOK, VersionOK
  <2>3. PICK v : v = [w EXCEPT !.pc = "listGrids", !.app = a, !.version = w.asked,
                               !.todoApps = w.todoApps \ {a}]
    OBVIOUS
  <2>4. v = CreateAppTests(w, a, w.asked)
    BY <2>2, <2>3 DEF CreateAppTests
  <2>5. /\ v.pc = "listGrids" /\ v.app = a /\ v.todoApps = w.todoApps \ {a}
        /\ v.run = w.run /\ v.asked = w.asked /\ v.tests = w.tests
    BY <2>2, <2>3 DEF Busy
  <2>6. ASSUME NEW t \in Due(v.run, v.asked)
        PROVE  Appended(v, t) \/ Ahead(v, t) \/ InHand(v, t)
    BY <1>2, <2>5, <2>6 DEF Appended, Ahead, InHand
  <2>7. OnTrack(v)
    BY <1>2, <2>5, <2>6 DEF OnTrack, AtMatches
  <2> QED
    BY <1>2, <2>1, <2>4, <2>7 DEF Placed
<1>3. CASE c = "version" /\ w.todoApps = {} /\ w.run # NoRun
  <2>1. PICK v : v = [w EXCEPT !.pc = "createOutcome"]
    OBVIOUS
  <2>2. Goto(c, v)
    BY <1>3, <2>1 DEF AfterApp
  <2>3. /\ v.pc = "createOutcome" /\ v.todoApps = w.todoApps
        /\ v.run = w.run /\ v.asked = w.asked /\ v.tests = w.tests
    BY <2>1 DEF ReconcileOK, Busy
  <2>4. OnTrack(v)
    BY <1>3, <2>3 DEF OnTrack, AtMatches, InCreateAppTests, Appended, Ahead
  <2> QED
    BY <1>3, <2>2, <2>4 DEF Placed
<1> QED
  BY <1>1, <1>2, <1>3 DEF Controllers

LEMMA GetApplicationDue ==
    ASSUME IInv, DueInv, NEW a \in Apps, GetApplication(a)
    PROVE  DueInv'
<1> DEFINE w == Reconcile(a, NoRun, NoRelease)
<1>1. PICK o : o = [name |-> a, spec |-> seenApps[a]]
  OBVIOUS
<1>2. /\ UNCHANGED <<userObjects, caches, configMaps, pods, outcomes>>
      /\ \/ UNCHANGED worker
         \/ Goto("application", [w EXCEPT !.pc = "findVersion", !.app = o])
         \/ Goto("application", CreateAppTests(w, o, seenApps[a].version))
  BY <1>1 DEF GetApplication
<1>3. CASE UNCHANGED worker
  BY <1>2, <1>3, OnlyWorker DEF DueInv, PlacesInv, userObjects
<1>4. CASE Goto("application", [w EXCEPT !.pc = "findVersion", !.app = o])
  <2>1. Placed("application", [w EXCEPT !.pc = "findVersion", !.app = o])
    BY DEF Placed, Reconcile
  <2> QED
    BY <1>2, <1>4, <2>1, WorkerDue DEF Controllers
<1>5. CASE Goto("application", CreateAppTests(w, o, seenApps[a].version))
  <2>1. Placed("application", CreateAppTests(w, o, seenApps[a].version))
    BY DEF Placed, Reconcile, CreateAppTests
  <2> QED
    BY <1>2, <1>5, <2>1, WorkerDue DEF Controllers
<1> QED
  BY <1>2, <1>3, <1>4, <1>5

LEMMA findVersionForAppDue ==
    ASSUME IInv, DueInv, findVersionForApp
    PROVE  DueInv'
<1>1. PICK w : w = worker["application"]
  OBVIOUS
<1>2. /\ w.pc = "findVersion"
      /\ UNCHANGED <<userObjects, caches, configMaps, pods, outcomes>>
      /\ \/ Goto("application", Idle)
         \/ \E latest : Goto("application", CreateAppTests(w, w.app, latest))
  BY <1>1 DEF findVersionForApp, Retry
<1>3. w \in Busy /\ w.run = NoRun
  BY <1>1, <1>2, NotIdle, InProgress, ApplicationPlace DEF Controllers, ReconcileOK
<1>4. CASE Goto("application", Idle)
  BY <1>2, <1>4, IdlePlaced, WorkerDue DEF Controllers
<1>5. ASSUME NEW latest, Goto("application", CreateAppTests(w, w.app, latest))
      PROVE  DueInv'
  <2>1. CreateAppTests(w, w.app, latest).run = w.run
    BY <1>3 DEF CreateAppTests, Busy
  <2>2. Placed("application", CreateAppTests(w, w.app, latest))
    BY <1>3, <2>1 DEF Placed
  <2> QED
    BY <1>2, <1>5, <2>2, WorkerDue DEF Controllers
<1> QED
  BY <1>2, <1>4, <1>5

LEMMA GetVersionDue ==
    ASSUME IInv, DueInv, NEW n \in VersionObjects, GetVersion(n)
    PROVE  DueInv'
<1>1. PICK s : s = seenVersions[n]
  OBVIOUS
<1>2. PICK v : v = [Reconcile(n, s.run, s.latest) EXCEPT !.pc = "listApps"]
  OBVIOUS
<1>3. /\ UNCHANGED <<userObjects, caches, configMaps, pods, outcomes>>
      /\ UNCHANGED worker \/ Goto("version", v)
  BY <1>1, <1>2 DEF GetVersion
<1>4. CASE UNCHANGED worker
  BY <1>3, <1>4, OnlyWorker DEF DueInv, PlacesInv, userObjects
<1>5. CASE Goto("version", v)
  <2>1. v.pc = "listApps" /\ v.todoApps = {}
    BY <1>2 DEF Reconcile
  <2>2. Placed("version", v)
    BY <2>1 DEF Placed, OnTrack, AtMatches, InCreateAppTests
  <2> QED
    BY <1>3, <1>5, <2>2, WorkerDue DEF Controllers
<1> QED
  BY <1>3, <1>4, <1>5

(* Every application at "latest" is put on the list.                       *)
LEMMA listApplicationsDue ==
    ASSUME IInv, DueInv, listApplications
    PROVE  DueInv'
<1>1. PICK w : w = worker["version"]
  OBVIOUS
<1>2. PICK todo : todo = {[name |-> a, spec |-> apps[a]] :
                            a \in {b \in KotsDeployed(apps) : apps[b].version = Latest}}
  OBVIOUS
<1>3. PICK u : u = [w EXCEPT !.todoApps = todo]
  OBVIOUS
<1>4. /\ w.pc = "listApps" /\ AfterApp("version", u)
      /\ UNCHANGED <<userObjects, caches, configMaps, pods, outcomes>>
  BY <1>1, <1>2, <1>3 DEF listApplications
<1>5. ReconcileOK("version", w, configMaps)
  BY <1>1, <1>4, NotIdle, InProgress DEF Controllers
<1>6. /\ todo \subseteq AppObjects /\ \A o \in todo : o.spec \in FloatingSpecs
      /\ \A s \in FloatingSpecs : \E o \in todo : o.spec = s
  <2>1. apps = InitialApps
    BY DEF DueInv
  <2>2. ASSUME NEW o \in todo PROVE o \in AppObjects /\ o.spec \in FloatingSpecs
    <3>1. PICK a \in KotsDeployed(apps) : o = [name |-> a, spec |-> apps[a]] /\ apps[a].version = Latest
      BY <1>2
    <3>2. a \in Apps /\ apps[a] \in Specs
      BY <3>1 DEF IInv, ObjectsInv, KotsDeployed, Deployed
    <3> QED
      BY <2>1, <3>1, <3>2, KotsFacts DEF AppObjects, FloatingSpecs
  <2>3. ASSUME NEW s \in FloatingSpecs PROVE \E o \in todo : o.spec = s
    <3>1. PICK a \in {b \in KotsDeployed(apps) : apps[b].version = Latest} : s = apps[a]
      BY <2>1 DEF FloatingSpecs
    <3>2. PICK o : o = [name |-> a, spec |-> apps[a]]
      OBVIOUS
    <3>3. o \in todo /\ o.spec = s
      BY <1>2, <3>1, <3>2
    <3> QED
      BY <3>3
  <2> QED
    BY <2>2, <2>3
<1>7. /\ u \in Busy /\ u.key = w.key /\ u.pc = w.pc /\ u.todoApps = todo
      /\ u.run = w.run /\ u.asked = w.asked /\ u.tests = w.tests
  BY <1>3, <1>5, <1>6 DEF ReconcileOK, Busy
<1>8. ReconcileOK("version", u, configMaps)
  <2>1. \A o \in todo : o.spec \in Specs
    BY <1>6, FloatingFacts
  <2> QED
    BY <1>5, <1>7, <2>1 DEF ReconcileOK, VersionOK
<1>9. ASSUME NEW t \in Due(u.run, u.asked) PROVE Ahead(u, t)
  <2>1. PICK s \in FloatingSpecs : Wants(s, t)
    BY DEF Due
  <2>2. PICK o \in todo : o.spec = s
    BY <1>6
  <2> QED
    BY <1>7, <2>1, <2>2 DEF Ahead
<1>10. \E v : Goto("version", v) /\ Placed("version", v)
  BY <1>4, <1>6, <1>7, <1>8, <1>9, AfterAppPlaced DEF Controllers
<1> QED
  BY <1>4, <1>10, WorkerDue DEF Controllers

(* An Outcome that is created lists every test that is due.                *)
LEMMA createOutcomeDue ==
    ASSUME IInv, DueInv, createOutcome
    PROVE  DueInv'
<1>1. PICK w : w = worker["version"]
  OBVIOUS
<1>2. PICK o : o = [rv |-> 1, tests |-> w.tests]
  OBVIOUS
<1>3. /\ w.pc = "createOutcome"
      /\ outcomes' = [outcomes EXCEPT ![w.run] = IF outcomes[w.run] = Nil THEN o ELSE outcomes[w.run]]
      /\ Goto("version", Idle) /\ UNCHANGED <<userObjects, pods>>
  BY <1>1, <1>2 DEF createOutcome, Done
<1>4. ReconcileOK("version", w, configMaps) /\ OnTrack(w)
  BY <1>1, <1>3, NotIdle, InProgress, VersionPlace DEF Controllers
<1>5. PICK s \in Asked : s.run = w.run /\ s.latest = w.asked
  BY <1>4 DEF ReconcileOK, VersionOK
<1>6. Due(w.run, s.latest) \subseteq IDsOf(o.tests)
  <2>1. ASSUME NEW t \in Due(w.run, w.asked) PROVE t \in IDsOf(w.tests)
    BY <1>3, <1>4 DEF OnTrack, Appended, Ahead, InHand, AtMatches
  <2> QED
    BY <1>2, <1>5, <2>1
<1>7. OutcomesComplete'
  <2>1. ASSUME NEW r \in Runs, outcomes'[r] # Nil
        PROVE  \E x \in Asked : x.run = r /\ Due(r, x.latest) \subseteq IDsOf(outcomes'[r].tests)
    <3>1. outcomes'[r] = outcomes[r] \/ (r = w.run /\ outcomes'[r] = o)
      BY <1>3 DEF IInv, OutcomesInv
    <3> QED
      BY <1>5, <1>6, <2>1, <3>1 DEF DueInv, OutcomesComplete
  <2> QED
    BY <2>1 DEF OutcomesComplete
<1>8. PlacesInv'
  BY <1>3, IdlePlaced, PlaceMoves DEF DueInv, Controllers
<1> QED
  BY <1>3, <1>7, <1>8 DEF DueInv, GridsKept, PodsDue, userObjects

----------------------------------------------------------------------------
(* createAppTests.                                                         *)

LEMMA listGridsDue ==
    ASSUME IInv, DueInv, NEW c \in Controllers, listGrids(c)
    PROVE  DueInv'
<1>1. PICK w : w = worker[c]
  OBVIOUS
<1>2. PICK found : found = {m \in Matches : m[2] \in grids[m[1]] \cap w.app.spec.clusters}
  OBVIOUS
<1>3. PICK v : v = [w EXCEPT !.pc = "checkPod", !.matches = found]
  OBVIOUS
<1>4. /\ w.pc = "listGrids"
      /\ UNCHANGED <<userObjects, caches, configMaps, pods, outcomes>>
      /\ (found = {} /\ AfterApp(c, w)) \/ Goto(c, v)
  BY <1>1, <1>2, <1>3 DEF listGrids
<1>5. ReconcileOK(c, w, configMaps) /\ WorkOK(c, w, configMaps) /\ w # Idle
  BY <1>1, <1>4, NotIdle, InProgress
<1>6. c = "version" => OnTrack(w)
  BY <1>1, <1>5, VersionPlace
<1>7. c = "application" => w.run = NoRun
  BY <1>1, <1>5, ApplicationPlace
<1>8. ASSUME NEW t \in TestIDs, Wants(w.app.spec, t)
      PROVE  \E m \in found : m[2] = t.cluster
  <2>1. PICK g \in Grids : t.cluster \in grids[g]
    BY <1>8 DEF Wants, DueInv, GridsKept, Steady
  <2>2. t.cluster \in Clusters
    BY DEF TestIDs
  <2>3. PICK m : m = <<g, t.cluster>>
    OBVIOUS
  <2>4. m \in found /\ m[2] = t.cluster
    BY <1>2, <1>8, <2>1, <2>2, <2>3 DEF Wants, Matches
  <2> QED
    BY <2>4
<1>9. CASE found = {} /\ AfterApp(c, w)
  <2>1. ASSUME c = "version", NEW t \in Due(w.run, w.asked)
        PROVE  Appended(w, t) \/ Ahead(w, t)
    <3>1. t \in TestIDs
      BY DEF Due
    <3>2. ~ InHand(w, t)
      BY <1>4, <1>8, <1>9, <3>1 DEF InHand, AtMatches
    <3> QED
      BY <1>4, <1>6, <2>1, <3>2 DEF OnTrack
  <2>2. \E u : Goto(c, u) /\ Placed(c, u)
    BY <1>5, <1>6, <1>9, <2>1, AfterAppPlaced DEF OnTrack
  <2> QED
    BY <1>4, <2>2, WorkerDue
<1>10. CASE Goto(c, v)
  <2>1. /\ v.pc = "checkPod" /\ v.todoApps = w.todoApps /\ v.run = w.run /\ v.asked = w.asked
        /\ v.tests = w.tests /\ v.app = w.app /\ v.matches = found
    BY <1>3, <1>5 DEF ReconcileOK, Busy
  <2>2. ASSUME c = "version" PROVE OnTrack(v)
    <3>1. ASSUME NEW t \in Due(w.run, w.asked)
          PROVE  Appended(v, t) \/ Ahead(v, t) \/ InHand(v, t)
      <4>1. Appended(w, t) \/ Ahead(w, t) \/ Wants(w.app.spec, t)
        BY <1>4, <1>6, <2>2 DEF OnTrack, InHand, AtMatches
      <4>2. Appended(w, t) => Appended(v, t)
        BY <2>1 DEF Appended
      <4>3. Ahead(w, t) => Ahead(v, t)
        BY <2>1 DEF Ahead
      <4>4. Wants(w.app.spec, t) => InHand(v, t)
        BY <1>8, <2>1 DEF InHand, Wants, AtMatches, Due
      <4> QED
        BY <4>1, <4>2, <4>3, <4>4
    <3>2. \A m \in found : m[2] \in EksClusters => m[2] \in Steady
      BY <1>2 DEF DueInv, GridsKept, Matches
    <3>3. w.app.spec \in FloatingSpecs /\ \A a \in w.todoApps : a.spec \in FloatingSpecs
      BY <1>4, <1>6, <2>2 DEF OnTrack, InCreateAppTests
    <3> QED
      BY <2>1, <3>1, <3>2, <3>3 DEF OnTrack
  <2>3. Placed(c, v)
    BY <1>7, <2>1, <2>2 DEF Placed, Controllers
  <2> QED
    BY <1>4, <1>10, <2>3, WorkerDue
<1> QED
  BY <1>4, <1>9, <1>10

(* The match in hand is the one test of the application on that cluster.   *)
LEMMA MatchTest ==
    ASSUME NEW c \in Controllers, NEW w, NEW cm, w # Idle, WorkOK(c, w, cm),
           w.pc \in AtMatches, NEW m \in w.matches
    PROVE  LET t == CurrentTest([w EXCEPT !.at = m])
           IN  /\ t \in TestIDs /\ t.run = w.run /\ t.cluster = m[2]
               /\ t.version = w.version /\ t.channel = w.app.spec.channel
<1>1. w \in Busy /\ w.app \in AppObjects /\ w.app.spec \in Specs /\ m \in Matches
  BY BusyFacts DEF WorkOK, ReconcileOK, AtMatches
<1>2. PICK at : at = [w EXCEPT !.at = m]
  OBVIOUS
<1>3. at \in Busy /\ at.app = w.app /\ at.at = m /\ at.run = w.run /\ at.version = w.version
  BY <1>1, <1>2 DEF Busy
<1> QED
  BY <1>1, <1>2, <1>3, TestFacts

LEMMA AppendTestPlaced ==
    ASSUME NEW c \in Controllers, NEW w, NEW cm, w # Idle, WorkOK(c, w, cm), Placed(c, w),
           w.pc \in {"checkPod", "createPod"}, NEW m \in w.matches, NEW result \in Results,
           cm[CurrentTest([w EXCEPT !.at = m])] # Nil, AppendTest(c, w, m, result)
    PROVE  \E v : Goto(c, v) /\ Placed(c, v)
<1>1. /\ ReconcileOK(c, w, cm) /\ w \in Busy /\ w.pc \in AtMatches
      /\ c = "version" => w.version = w.asked
  BY DEF WorkOK, ReconcileOK, InCreateAppTests, AtMatches
<1>2. PICK t : t = CurrentTest([w EXCEPT !.at = m])
  OBVIOUS
<1>3. /\ t \in TestIDs /\ t.run = w.run /\ t.cluster = m[2]
      /\ t.version = w.version /\ t.channel = w.app.spec.channel /\ cm[t] # Nil
  BY <1>1, <1>2, MatchTest
<1>4. PICK test : test = [id |-> t, result |-> result]
  OBVIOUS
<1>5. PICK tests : tests = IF c = "version" THEN w.tests \cup {test} ELSE {}
  OBVIOUS
<1>6. PICK rest : rest = [w EXCEPT !.pc = "checkPod", !.at = Nil, !.matches = w.matches \ {m},
                                   !.tests = tests]
  OBVIOUS
<1>7. test \in Tests /\ test.id = t /\ tests \subseteq Tests
  BY <1>1, <1>3, <1>4, <1>5, BusyFacts DEF Tests
<1>8. /\ rest \in Busy /\ rest.pc = "checkPod" /\ rest.matches = w.matches \ {m}
      /\ rest.tests = tests /\ rest.key = w.key /\ rest.run = w.run /\ rest.asked = w.asked
      /\ rest.todoApps = w.todoApps /\ rest.app = w.app
  <2>1. w.matches \ {m} \in SUBSET Matches
    BY <1>1, BusyFacts
  <2> QED
    BY <1>1, <1>6, <1>7, <2>1 DEF Busy
<1>9. IF rest.matches = {} THEN AfterApp(c, rest) ELSE Goto(c, rest)
  BY <1>2, <1>4, <1>5, <1>6 DEF AppendTest
<1>10. ReconcileOK(c, rest, cm)
  <2>1. ASSUME c = "version" PROVE OfRun(tests, w.run, w.asked, cm)
    BY <1>1, <1>3, <1>5, <1>7, <2>1 DEF ReconcileOK, VersionOK, OfRun
  <2> QED
    BY <1>1, <1>8, <2>1 DEF ReconcileOK, VersionOK
<1>11. c = "version" => OnTrack(w)
  BY DEF Placed
<1>12. ASSUME c = "version", NEW u \in Due(w.run, w.asked)
       PROVE  Appended(rest, u) \/ Ahead(rest, u) \/ InHand(rest, u)
  <2>1. Appended(w, u) \/ Ahead(w, u) \/ InHand(w, u)
    BY <1>1, <1>11, <1>12 DEF OnTrack, AtMatches
  <2>2. Appended(w, u) => Appended(rest, u)
    BY <1>5, <1>8, <1>12 DEF Appended, IDsOf
  <2>3. Ahead(w, u) => Ahead(rest, u)
    BY <1>8 DEF Ahead
  <2>4. ASSUME InHand(w, u) PROVE Appended(rest, u) \/ InHand(rest, u)
    <3>1. w.app.spec.channel = u.channel /\ \E n \in w.matches : n[2] = u.cluster
      BY <1>1, <2>4 DEF InHand, AtMatches
    <3>2. CASE u.cluster = m[2]
      <4>1. u = t
        BY <1>1, <1>3, <1>12, <3>1, <3>2 DEF Due, TestIDs
      <4> QED
        BY <1>5, <1>7, <1>8, <1>12, <4>1 DEF Appended, IDsOf
    <3>3. CASE u.cluster # m[2]
      BY <1>8, <3>1, <3>3 DEF InHand, AtMatches
    <3> QED
      BY <3>2, <3>3
  <2> QED
    BY <2>1, <2>2, <2>3, <2>4
<1>13. c = "version" => \A a \in rest.todoApps : a.spec \in FloatingSpecs
  BY <1>8, <1>11 DEF OnTrack
<1>14. CASE rest.matches = {}
  <2>1. c = "version" => \A u \in Due(rest.run, rest.asked) : Appended(rest, u) \/ Ahead(rest, u)
    BY <1>8, <1>12, <1>14 DEF InHand
  <2> QED
    BY <1>9, <1>10, <1>13, <1>14, <2>1, AfterAppPlaced
<1>15. CASE rest.matches # {}
  <2>1. c = "version" => OnTrack(rest)
    <3>1. ASSUME c = "version"
          PROVE  /\ w.app.spec \in FloatingSpecs
                 /\ \A n \in w.matches : n[2] \in EksClusters => n[2] \in Steady
      BY <1>1, <1>11, <3>1 DEF OnTrack, AtMatches, InCreateAppTests
    <3> QED
      BY <1>8, <1>12, <1>13, <3>1 DEF OnTrack
  <2>2. Placed(c, rest)
    BY <1>8, <2>1 DEF Placed
  <2> QED
    BY <1>9, <1>15, <2>2
<1> QED
  BY <1>14, <1>15

LEMMA PodExistsDue ==
    ASSUME IInv, DueInv, NEW c \in Controllers, PodExists(c)
    PROVE  DueInv'
<1>1. PICK w : w = worker[c]
  OBVIOUS
<1>2. w.pc = "checkPod" /\ UNCHANGED <<userObjects, caches, configMaps, pods, outcomes>>
  BY <1>1 DEF PodExists
<1>3. PICK m \in w.matches :
         /\ pods[CurrentTest([w EXCEPT !.at = m])] # NoPod
         /\ AppendTest(c, w, m, getTestResultFromPod(pods[CurrentTest([w EXCEPT !.at = m])]))
  BY <1>1 DEF PodExists
<1>4. WorkOK(c, w, configMaps) /\ w # Idle /\ Placed(c, w)
  BY <1>1, <1>2, NotIdle, InProgress DEF DueInv, PlacesInv
<1>5. configMaps[CurrentTest([w EXCEPT !.at = m])] # Nil
  BY <1>2, <1>3, <1>4, MatchFacts DEF IInv, PodsInv
<1>6. \E v : Goto(c, v) /\ Placed(c, v)
  BY <1>2, <1>3, <1>4, <1>5, ResultFacts, AppendTestPlaced
<1> QED
  BY <1>2, <1>6, WorkerDue

(* A reconcile that turns from a pod it has not found to creating it, and  *)
(* from its ConfigMap to the pod, has the same matches left.               *)
LEMMA SameMatches ==
    ASSUME NEW c \in Controllers, NEW w \in Busy, NEW v, Placed(c, w),
           w.pc \in AtMatches, v.pc \in AtMatches, v.matches = w.matches, v.tests = w.tests,
           v.run = w.run, v.asked = w.asked, v.todoApps = w.todoApps, v.app = w.app,
           c = "version" => v.at[2] \in EksClusters
    PROVE  Placed(c, v)
<1>1. ASSUME OnTrack(w), c = "version" PROVE OnTrack(v)
  <2>1. \A t \in Due(v.run, v.asked) : Appended(v, t) \/ Ahead(v, t) \/ InHand(v, t)
    <3>1. ASSUME NEW t \in Due(w.run, w.asked)
          PROVE  Appended(v, t) \/ Ahead(v, t) \/ InHand(v, t)
      <4>1. Appended(w, t) \/ Ahead(w, t) \/ InHand(w, t)
        BY <1>1 DEF OnTrack, AtMatches
      <4> QED
        BY <4>1 DEF Appended, Ahead, InHand, AtMatches
    <3> QED
      BY <3>1
  <2>2. /\ w.app.spec \in FloatingSpecs
        /\ \A m \in w.matches : m[2] \in EksClusters => m[2] \in Steady
    BY <1>1 DEF OnTrack, AtMatches, InCreateAppTests
  <2>3. v.pc # "createOutcome"
    BY DEF AtMatches
  <2> QED
    BY <1>1, <2>1, <2>2, <2>3 DEF OnTrack
<1> QED
  BY <1>1, BusyFacts DEF Placed

LEMMA PodNotFoundDue ==
    ASSUME IInv, DueInv, NEW c \in Controllers, PodNotFound(c)
    PROVE  DueInv'
<1>1. PICK w : w = worker[c]
  OBVIOUS
<1>2. w.pc = "checkPod" /\ UNCHANGED <<userObjects, caches, configMaps, pods, outcomes>>
  BY <1>1 DEF PodNotFound
<1>3. PICK m \in w.matches :
         m[2] \in EksClusters /\ Goto(c, [w EXCEPT !.pc = "createConfigMap", !.at = m])
  BY <1>1 DEF PodNotFound
<1>4. w \in Busy /\ Placed(c, w)
  BY <1>1, <1>2, NotIdle, InProgress DEF ReconcileOK, DueInv, PlacesInv
<1>5. PICK v : v = [w EXCEPT !.pc = "createConfigMap", !.at = m]
  OBVIOUS
<1>6. /\ v.pc = "createConfigMap" /\ v.matches = w.matches /\ v.tests = w.tests
      /\ v.run = w.run /\ v.asked = w.asked /\ v.todoApps = w.todoApps /\ v.app = w.app
      /\ v.at = m
  BY <1>4, <1>5 DEF Busy
<1>7. Placed(c, v)
  BY <1>2, <1>3, <1>4, <1>6, SameMatches DEF AtMatches
<1> QED
  BY <1>2, <1>3, <1>5, <1>7, WorkerDue

LEMMA CreateConfigMapDue ==
    ASSUME IInv, DueInv, NEW c \in Controllers, CreateConfigMap(c)
    PROVE  DueInv'
<1>1. PICK w : w = worker[c]
  OBVIOUS
<1>2. PICK v : v = [w EXCEPT !.pc = "createPod"]
  OBVIOUS
<1>3. /\ w.pc = "createConfigMap" /\ Goto(c, v)
      /\ UNCHANGED <<apps, grids, pods, outcomes>>
  BY <1>1, <1>2 DEF CreateConfigMap, userObjects
<1>4. w \in Busy /\ Placed(c, w)
  BY <1>1, <1>3, NotIdle, InProgress DEF ReconcileOK, DueInv, PlacesInv
<1>5. /\ v.pc = "createPod" /\ v.matches = w.matches /\ v.tests = w.tests
      /\ v.run = w.run /\ v.asked = w.asked /\ v.todoApps = w.todoApps /\ v.app = w.app
      /\ v.at = w.at
  BY <1>2, <1>4 DEF Busy
<1>6. Placed(c, v)
  <2>1. c = "version" => w.at[2] \in EksClusters
    BY <1>3, <1>4, BusyFacts DEF Placed, OnTrack
  <2> QED
    BY <1>3, <1>4, <1>5, <2>1, SameMatches DEF AtMatches
<1>7. PlacesInv'
  BY <1>3, <1>6, PlaceMoves DEF DueInv
<1> QED
  BY <1>3, <1>7, OnlyWorker

(* A pod changes, is lost, or is created for a test that is due.           *)
LEMMA PodsDueMove ==
    ASSUME IInv, PodsDue, NEW t \in TestIDs, NEW phase, pods' = [pods EXCEPT ![t] = phase],
           phase # NoPod /\ t.run # NoRun => PodDue(t)
    PROVE  PodsDue'
<1>1. ASSUME NEW u \in TestIDs, pods'[u] # NoPod, u.run # NoRun PROVE PodDue(u)
  BY <1>1 DEF IInv, PodsInv, PodsDue
<1> QED
  BY <1>1 DEF PodsDue

LEMMA CreatePodDue ==
    ASSUME IInv, DueInv, NEW c \in Controllers, CreatePod(c)
    PROVE  DueInv'
<1>1. PICK w : w = worker[c]
  OBVIOUS
<1>2. PICK t : t = CurrentTest(w)
  OBVIOUS
<1>3. /\ w.pc = "createPod"
      /\ UNCHANGED <<userObjects, caches, configMaps, outcomes>>
      /\ \/ Goto(c, Idle) /\ UNCHANGED pods
         \/ /\ pods' = [pods EXCEPT ![t] = "Pending"]
            /\ AppendTest(c, w, w.at, "Pending")
  BY <1>1, <1>2 DEF CreatePod, getTestPodSpec, Retry
<1>4. /\ ReconcileOK(c, w, configMaps) /\ WorkOK(c, w, configMaps) /\ w # Idle /\ Placed(c, w)
      /\ w \in Busy
  BY <1>1, <1>3, NotIdle, InProgress DEF ReconcileOK, DueInv, PlacesInv
<1>5. CASE Goto(c, Idle) /\ UNCHANGED pods
  BY <1>3, <1>5, IdlePlaced, WorkerDue
<1>6. CASE /\ pods' = [pods EXCEPT ![t] = "Pending"]
           /\ AppendTest(c, w, w.at, "Pending")
  <2>1. /\ w.at \in w.matches /\ [w EXCEPT !.at = w.at] = w /\ configMaps[t] # Nil
        /\ c = "version" => w.version = w.asked
    BY <1>2, <1>3, <1>4 DEF WorkOK, Busy, InCreateAppTests
  <2>2. /\ t \in TestIDs /\ t.run = w.run /\ t.cluster = w.at[2]
        /\ t.version = w.version /\ t.channel = w.app.spec.channel
    BY <1>2, <1>3, <1>4, <2>1, MatchTest DEF AtMatches
  <2>3. ASSUME t.run # NoRun PROVE PodDue(t)
    <3>1. c = "version" /\ OnTrack(w)
      BY <1>4, <2>2, <2>3 DEF Placed
    <3>2. PICK s \in Asked : s.run = w.run /\ s.latest = w.asked
      BY <1>4, <3>1 DEF ReconcileOK, VersionOK
    <3>3. w.app.spec \in FloatingSpecs /\ w.at[2] \in Steady
      BY <1>3, <2>1, <3>1 DEF OnTrack, AtMatches, InCreateAppTests
    <3>4. w.at[2] \in w.app.spec.clusters /\ w.at[1] \in Grids
      <4>1. w.at \in Matches
        BY <1>4, <2>1, BusyFacts
      <4> QED
        BY <1>3, <1>4, <2>1, <4>1 DEF WorkOK, Matches
    <3>5. Wants(w.app.spec, t)
      BY <2>2, <3>3, <3>4 DEF Wants
    <3>6. t \in Due(s.run, s.latest)
      BY <2>1, <2>2, <3>1, <3>2, <3>3, <3>5 DEF Due
    <3> QED
      BY <2>2, <3>2, <3>6 DEF PodDue
  <2>4. PodsDue'
    BY <1>6, <2>2, <2>3, PodsDueMove DEF DueInv
  <2>5. PICK v : Goto(c, v) /\ Placed(c, v)
    <3>1. configMaps[CurrentTest([w EXCEPT !.at = w.at])] # Nil
      BY <1>2, <2>1
    <3> QED
      BY <1>3, <1>4, <1>6, <2>1, <3>1, AppendTestPlaced DEF Results
  <2>6. PlacesInv'
    BY <2>5, PlaceMoves DEF DueInv
  <2> QED
    BY <1>3, <2>4, <2>6 DEF DueInv, GridsKept, OutcomesComplete, userObjects
<1> QED
  BY <1>3, <1>5, <1>6

----------------------------------------------------------------------------
(* Failures, restarts, users and kubelets.                                 *)

LEMMA CallFailsDue ==
    ASSUME IInv, DueInv, NEW c \in Controllers, CallFails(c)
    PROVE  DueInv'
BY IdlePlaced, WorkerDue DEF CallFails, Retry

LEMMA RestartedDue ==
    ASSUME DueInv, Restarted
    PROVE  DueInv'
<1>1. PlacesInv'
  BY IdlePlaced DEF Restarted, PlacesInv
<1> QED
  BY <1>1, OnlyWorker DEF Restarted, userObjects

LEMMA NothingDue ==
    ASSUME DueInv, UNCHANGED <<apps, grids, pods, outcomes, worker>>
    PROVE  DueInv'
BY OnlyWorker DEF DueInv, PlacesInv

LEMMA UsersDue ==
    ASSUME Stable, IInv, DueInv, Users
    PROVE  DueInv'
<1>0. ASSUME NEW g \in EditableGrids, NEW s \in GridSpecs \cup {{}}, PutGrid(g, s)
      PROVE  DueInv'
  <2>1. s \in SUBSET Clusters /\ s \cap EksClusters \subseteq Steady
    BY <1>0, DispatchAssumption DEF Stable
  <2>2. GridsKept'
    BY <1>0, <2>1 DEF DueInv, GridsKept, PutGrid
  <2> QED
    BY <1>0, <2>2 DEF DueInv, PodsDue, OutcomesComplete, PlacesInv, PutGrid
<1>1. ASSUME NEW v, NEW s, PutVersion(v, s)
      PROVE  DueInv'
  BY <1>1, NothingDue DEF PutVersion
<1>2. ASSUME NEW t \in DeletablePods, DeletePod(t)
      PROVE  DueInv'
  <2>1. t \in TestIDs /\ pods' = [pods EXCEPT ![t] = NoPod]
    BY <1>2, DispatchAssumption DEF DeletePod
  <2>2. PodsDue'
    BY <2>1, PodsDueMove DEF DueInv
  <2> QED
    BY <1>2, <2>2 DEF DueInv, GridsKept, OutcomesComplete, PlacesInv, DeletePod, userObjects
<1> QED
  BY <1>0, <1>1, <1>2 DEF Users, Stable

LEMMA KubeletDue ==
    ASSUME IInv, DueInv, NEW t \in TestIDs, NEW phase \in Phases, PodMoves(t, phase)
    PROVE  DueInv'
<1>1. pods[t] # NoPod
  <2>1. pods[t] \in Phases
    BY KubeletAssumption DEF PodMoves
  <2> QED
    BY <2>1 DEF Phases, NoPod
<1>2. PodsDue'
  BY <1>1, PodsDueMove DEF DueInv, PodsDue, PodMoves
<1> QED
  BY <1>2 DEF DueInv, GridsKept, OutcomesComplete, PlacesInv, PodMoves, userObjects

LEMMA InitDue == Stable /\ Init => DueInv
<1> SUFFICES ASSUME Stable, Init PROVE DueInv
  OBVIOUS
<1>1. ASSUME NEW g \in Grids PROVE InitialGrids[g] \cap EksClusters \subseteq Steady
  BY <1>1 DEF Stable, Steady
<1>2. GridsKept
  BY <1>1, DispatchAssumption DEF Init, GridsKept
<1> QED
  BY <1>2, IdlePlaced DEF Init, DueInv, PodsDue, OutcomesComplete, PlacesInv

LEMMA NextDue == Stable /\ IInv /\ DueInv /\ [Next]_vars => DueInv'
<1> SUFFICES ASSUME Stable, IInv, DueInv, [Next]_vars PROVE DueInv'
  OBVIOUS
<1>1. ASSUME NEW a \in Apps, GetApplication(a) \/ WatchApplication(a) PROVE DueInv'
  BY <1>1, GetApplicationDue, NothingDue DEF WatchApplication, userObjects
<1>2. ASSUME NEW v \in VersionObjects, GetVersion(v) \/ WatchVersion(v) PROVE DueInv'
  BY <1>2, GetVersionDue, NothingDue DEF WatchVersion, userObjects
<1>3. ASSUME NEW c \in Controllers, Step(c) PROVE DueInv'
  BY <1>3, listGridsDue, PodExistsDue, PodNotFoundDue, CreateConfigMapDue, CreatePodDue DEF Step
<1>4. CASE ApplicationStep
  BY <1>3, <1>4, findVersionForAppDue DEF ApplicationStep, Controllers
<1>5. CASE VersionStep
  BY <1>3, <1>5, listApplicationsDue, createOutcomeDue DEF VersionStep, Controllers
<1>6. ASSUME NEW c \in Controllers, CallFails(c) \/ Panic(c) PROVE DueInv'
  BY <1>6, CallFailsDue, RestartedDue DEF Panic
<1>7. CASE Crash \/ Users
  BY <1>7, RestartedDue, UsersDue DEF Crash
<1>8. CASE Kubelet
  BY <1>8, KubeletDue DEF Kubelet
<1>9. CASE Resync \/ UNCHANGED vars
  BY <1>9, NothingDue DEF Resync, vars, userObjects
<1> QED
  BY <1>1, <1>2, <1>4, <1>5, <1>6, <1>7, <1>8, <1>9 DEF Next, Reconciling

LEMMA StableForEver == Stable => []Stable
<1>1. Stable => Stable'
  BY DEF Stable, Steady
<1> QED
  BY <1>1, PTL

LEMMA DueInvariance == Stable /\ Spec => []DueInv
BY InitDue, NextDue, StableForEver, Invariance, PTL DEF Spec

LEMMA DueReported == Stable /\ IInv /\ DueInv => NoUnreportedTest
<1> SUFFICES ASSUME Stable, DueInv,
                    NEW t \in TestIDs, pods[t] # NoPod, t.run # NoRun, outcomes[t.run] # Nil
             PROVE  t \in IDsOf(outcomes[t.run].tests)
  BY DEF NoUnreportedTest
<1>1. PICK s \in Asked : s.run = t.run /\ t \in Due(s.run, s.latest)
  BY DEF DueInv, PodsDue, PodDue
<1>2. t.run \in Runs
  BY DEF TestIDs
<1>3. PICK u \in Asked : u.run = t.run /\ Due(t.run, u.latest) \subseteq IDsOf(outcomes[t.run].tests)
  BY <1>2 DEF DueInv, OutcomesComplete
<1>4. u.latest = s.latest
  BY <1>1, <1>3 DEF Stable
<1> QED
  BY <1>1, <1>3, <1>4

(* As long as the applications stay as they were deployed, the clusters    *)
(* that pods run on keep their grids and a run label names one release,    *)
(* the Outcome of a run lists every test pod of that run, through any      *)
(* failed calls, restarts, edits of the Versions and lost pods, and also   *)
(* when clusters without an EKS spec come and go and make the manager      *)
(* panic: what a reconcile that failed half way has launched, the next one *)
(* finds and reports before it creates the Outcome.                        *)
THEOREM NothingUnreported == Stable /\ Spec => []NoUnreportedTest
BY DueReported, Invariance, DueInvariance, StableForEver, PTL

----------------------------------------------------------------------------
(* The rest of the manager writes to the Outcomes, too: as long as it      *)
(* leaves them their tests, nothing of this is lost.                       *)

LEMMA OutcomesRevised ==
    ASSUME IInv,
           UNCHANGED <<apps, grids, versions, seenApps, seenVersions, queue, worker, configMaps,
                       pods, edits, faults>>,
           outcomes' \in [Runs -> Outcomes \cup {Nil}],
           \A r \in Runs : outcomes'[r] # Nil =>
               outcomes[r] # Nil /\ IDsOf(outcomes'[r].tests) = IDsOf(outcomes[r].tests)
    PROVE  IInv' /\ (DueInv => DueInv')
<1>1. ASSUME NEW r \in Runs, outcomes'[r] # Nil
      PROVE  \E s \in Asked : s.run = r /\ OfRun(outcomes'[r].tests, r, s.latest, configMaps)
  <2>1. outcomes[r] # Nil /\ IDsOf(outcomes'[r].tests) = IDsOf(outcomes[r].tests)
    BY <1>1
  <2>2. PICK s \in Asked : s.run = r /\ OfRun(outcomes[r].tests, r, s.latest, configMaps)
    BY <2>1 DEF IInv, OutcomesInv
  <2>3. ASSUME NEW test \in outcomes'[r].tests
        PROVE  test.id.run = r /\ test.id.version = s.latest /\ configMaps[test.id] # Nil
    <3>1. \E u \in outcomes[r].tests : u.id = test.id
      BY <2>1 DEF IDsOf
    <3> QED
      BY <2>2, <3>1 DEF OfRun
  <2> QED
    BY <2>2, <2>3 DEF OfRun
<1>2. OutcomesInv'
  BY <1>1 DEF OutcomesInv
<1>3. ObjectsInv' /\ QueueInv' /\ PodsInv' /\ WorkersInv' /\ BoundsInv'
  BY DEF IInv, ObjectsInv, QueueInv, PodsInv, WorkersInv, BoundsInv, Configured
<1>4. DueInv => OutcomesComplete'
  BY DEF DueInv, OutcomesComplete
<1>5. DueInv => DueInv'
  BY <1>4 DEF DueInv, GridsKept, PodsDue, PlacesInv
<1> QED
  BY <1>2, <1>3, <1>5 DEF IInv
=============================================================================
