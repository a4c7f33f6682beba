---------------------------- MODULE TestDispatch ----------------------------
(***************************************************************************)
(* The Application and Version controllers: how test pods and Outcomes     *)
(* come into being (controllers/application_controller.go and              *)
(* controllers/version_controller.go).                                     *)
(*                                                                         *)
(* Each controller has a work queue of object names and one worker.  A     *)
(* worker takes a name, reads the object from its informer cache, and then *)
(* makes a sequence of live API calls; each call is one step, so the other *)
(* controller, the users, the kubelet and a restart of the manager may     *)
(* come in between any two of them.  A reconcile that returns an error     *)
(* puts the name back in the queue.                                        *)
(***************************************************************************)
EXTENDS TestObjects

CONSTANTS
    Absent,           \* no object of that name
    Apps,             \* names of Application objects
    AppSpecs,         \* the Application specs users deploy; Nil: spec.kots is nil
    Grids,            \* names of Grid objects
    GridSpecs,        \* the sets of clusters users define a Grid with
    VersionObjects,   \* names of Version objects: numbers, in listing order
    VersionSpecs,     \* the Version specs users deploy; Nil: spec.kots is nil
    EksClusters,      \* the clusters whose spec has an eks section
    InitialApps, InitialGrids, InitialVersions,   \* deployed before the manager
    Configs,          \* what else an Application sets: not part of a test's ID
    EditableApps, EditableGrids, EditableVersions, DeletablePods,   \* what users touch
    MaxEdits,         \* bound on the changes users make
    MaxFaults         \* bound on failed API calls and manager restarts

KotsSpecs == [clusters : SUBSET Clusters,
              version  : Releases \cup {Latest, NoRelease},
              channel  : Channels,
              config   : Configs]
KotsVersions == [latest : Releases \cup {NoRelease}, run : Runs \cup {NoRun}]

ASSUME DispatchAssumption ==
    /\ AppSpecs \subseteq KotsSpecs \cup {Nil}
    /\ VersionSpecs \subseteq KotsVersions \cup {Nil}
    /\ GridSpecs \subseteq SUBSET Clusters
    /\ VersionObjects \subseteq Nat
    /\ EksClusters \subseteq Clusters
    /\ InitialApps \in [Apps -> AppSpecs \cup {Absent}]
    /\ InitialGrids \in [Grids -> SUBSET Clusters]
    /\ InitialVersions \in [VersionObjects -> VersionSpecs \cup {Absent}]
    /\ EditableApps \subseteq Apps /\ EditableGrids \subseteq Grids
    /\ EditableVersions \subseteq VersionObjects /\ DeletablePods \subseteq TestIDs
    /\ MaxEdits \in Nat /\ MaxFaults \in Nat
    /\ Absent \notin KotsSpecs \cup KotsVersions \cup {Nil}
    /\ Nil \notin KotsSpecs \cup KotsVersions \cup Configs

VARIABLES
    apps, grids, versions,       \* user objects in the API server; an absent grid is {}
    seenApps, seenVersions,      \* the manager's informer caches
    queue,                       \* per controller, the names waiting for its worker
    worker,                      \* per controller, the reconcile in progress
    configMaps,                  \* per test ID, the settings in its ConfigMap, or Nil
    pods,                        \* per test ID, the phase of its pod, or NoPod
    outcomes,                    \* per run, its Outcome or Nil
    edits, faults                \* what is left of the bounds

userObjects == <<apps, grids, versions>>
caches == <<seenApps, seenVersions>>
bounds == <<edits, faults>>
vars == <<userObjects, caches, queue, worker, configMaps, pods, outcomes, bounds>>

Controllers == {"application", "version"}
Keys(c) == IF c = "application" THEN Apps ELSE VersionObjects

(* A worker is idle or has the locals of a reconcile: key and run, the      *)
(* release the Version asks for, the applications still to do (each with   *)
(* the spec that was read), the one being done and its release, the (grid, *)
(* cluster) matches still to do, the one in hand, and the tests appended.  *)
Idle == [pc |-> "idle"]
AppObjects == [name : Apps, spec : KotsSpecs]
Matches == Grids \X Clusters
ASSUME LocalsAssumption == Nil \notin AppObjects /\ Nil \notin Matches
Busy == [pc       : {"findVersion", "listApps", "listGrids", "checkPod",
                     "createConfigMap", "createPod", "createOutcome"},
         key      : Apps \cup VersionObjects,
         run      : Runs \cup {NoRun},
         asked    : Releases \cup {NoRelease},
         todoApps : SUBSET AppObjects,
         app      : AppObjects \cup {Nil},
         version  : Releases \cup {Latest, NoRelease},
         matches  : SUBSET Matches,
         at       : Matches \cup {Nil},
         tests    : SUBSET Tests]

----------------------------------------------------------------------------
(* A deployed object.                                                      *)

Deployed(objects) == {n \in DOMAIN objects : objects[n] # Absent}
KotsDeployed(objects) == {n \in Deployed(objects) : objects[n] # Nil}

Init ==
    /\ apps = InitialApps
    /\ grids = InitialGrids
    /\ versions = InitialVersions
    /\ seenApps = InitialApps
    /\ seenVersions = InitialVersions
    /\ queue = [c \in Controllers |->
                   Deployed(IF c = "application" THEN InitialApps ELSE InitialVersions)]
    /\ worker = [c \in Controllers |-> Idle]
    /\ configMaps = [t \in TestIDs |-> Nil]
    /\ pods = [t \in TestIDs |-> NoPod]
    /\ outcomes = [r \in Runs |-> Nil]
    /\ edits = MaxEdits
    /\ faults = MaxFaults

----------------------------------------------------------------------------
(* Building blocks of a reconcile.                                         *)

Goto(c, w) == worker' = [worker EXCEPT ![c] = w]
Dequeue(c, key) == queue' = [queue EXCEPT ![c] = @ \ {key}]
Done(c) == Goto(c, Idle) /\ UNCHANGED queue
Retry(c, key) ==
    /\ Goto(c, Idle)
    /\ queue' = [queue EXCEPT ![c] = @ \cup {key}]

(* The call of createAppTests for one application: a is [name, spec], asked *)
(* is the version argument.                                                 *)
CreateAppTests(w, a, asked) ==
    [w EXCEPT !.pc = "listGrids",
              !.app = a,
              !.version = IF asked = NoRelease THEN a.spec.version ELSE asked,
              !.todoApps = @ \ {a}]

Reconcile(key, run, asked) ==
    [pc |-> "begin", key |-> key, run |-> run, asked |-> asked, todoApps |-> {},
     app |-> Nil, version |-> NoRelease, matches |-> {}, at |-> Nil, tests |-> {}]

(* What follows a successful createAppTests: the Application's reconcile   *)
(* ends; the Version's goes on with its next application, and with         *)
(* createOutcome after the last.                                           *)
AfterApp(c, w) ==
    CASE c = "application" -> Done(c)
      [] c = "version" /\ w.todoApps # {} ->
            /\ \E a \in w.todoApps : Goto(c, CreateAppTests(w, a, w.asked))
            /\ UNCHANGED queue
      [] c = "version" /\ w.todoApps = {} /\ w.run # NoRun ->
            Goto(c, [w EXCEPT !.pc = "createOutcome"]) /\ UNCHANGED queue
      [] OTHER -> Done(c)

CurrentTest(w) == getTestID(w.run, w.at[2], w.version, w.app.spec.channel)

----------------------------------------------------------------------------
(* ApplicationReconciler.                                                  *)

(* r.Get of the cached Application: not found ends the reconcile, an       *)
(* application without a kots section is an error that is tried again, and *)
(* only "latest" or an unset version needs the Version objects.            *)
GetApplication(a) ==
    LET spec == seenApps[a]
        app == [name |-> a, spec |-> spec]
        w == Reconcile(a, NoRun, NoRelease)
    IN /\ worker["application"] = Idle
       /\ a \in queue["application"]
       /\ \/ /\ spec = Nil
             /\ UNCHANGED <<queue, worker>>
          \/ /\ spec = Absent
             /\ Dequeue("application", a)
             /\ UNCHANGED worker
          \/ /\ spec \notin {Absent, Nil}
             /\ Dequeue("application", a)
             /\ Goto("application",
                  IF spec.version \in {Latest, NoRelease}
                  THEN [w EXCEPT !.pc = "findVersion", !.app = app]
                  ELSE CreateAppTests(w, app, spec.version))
       /\ UNCHANGED <<userObjects, caches, configMaps, pods, outcomes, bounds>>

(* The listing half of findVersionForApp: the first Version object with a  *)
(* kots section decides, whatever its latest field holds.                  *)
findVersionForApp_GivesUp ==
    LET w == worker["application"]
        candidates == KotsDeployed(versions)
        first == CHOOSE v \in candidates : \A u \in candidates : v <= u
    IN /\ w.pc = "findVersion"
       /\ IF candidates = {}
          THEN Done("application")
          ELSE /\ Goto("application", CreateAppTests(w, w.app, versions[first].latest))
               /\ UNCHANGED queue
       /\ UNCHANGED <<userObjects, caches, configMaps, pods, outcomes, bounds>>

findVersionForApp ==
    LET w == worker["application"]
        candidates == KotsDeployed(versions)
        first == CHOOSE v \in candidates : \A u \in candidates : v <= u
    IN /\ w.pc = "findVersion"
       /\ IF candidates = {}
          THEN Retry("application", w.key)
          ELSE /\ Goto("application", CreateAppTests(w, w.app, versions[first].latest))
               /\ UNCHANGED queue
       /\ UNCHANGED <<userObjects, caches, configMaps, pods, outcomes, bounds>>

----------------------------------------------------------------------------
(* VersionReconciler.                                                      *)

(* r.Get of the cached Version: not found ends the reconcile, a Version    *)
(* without a kots.latest is an error that is tried again.                  *)
GetVersion(v) ==
    LET spec == seenVersions[v]
        unsupported == spec = Nil \/ (spec \in KotsVersions /\ spec.latest = NoRelease)
    IN /\ worker["version"] = Idle
       /\ v \in queue["version"]
       /\ \/ /\ unsupported
             /\ UNCHANGED <<queue, worker>>
          \/ /\ spec = Absent
             /\ Dequeue("version", v)
             /\ UNCHANGED worker
          \/ /\ spec # Absent /\ ~unsupported
             /\ Dequeue("version", v)
             /\ Goto("version",
                  [Reconcile(v, spec.run, spec.latest) EXCEPT !.pc = "listApps"])
       /\ UNCHANGED <<userObjects, caches, configMaps, pods, outcomes, bounds>>

(* listApplications, and the filter of the loop over its result: only the  *)
(* applications whose version is "latest", not those that leave it unset.  *)
listApplications_ReadsVersionAgain ==
    LET w == worker["version"]
        todo == {[name |-> a, spec |-> apps[a]] :
                   a \in {b \in KotsDeployed(apps) : apps[b].version = Latest}}
        now == versions[w.key]
    IN /\ w.pc = "listApps"
       /\ now \in KotsVersions
       /\ AfterApp("version", [w EXCEPT !.todoApps = todo, !.asked = now.latest])
       /\ UNCHANGED <<userObjects, caches, configMaps, pods, outcomes, bounds>>

listApplications ==
    LET w == worker["version"]
        todo == {[name |-> a, spec |-> apps[a]] :
                   a \in {b \in KotsDeployed(apps) : apps[b].version = Latest}}
    IN /\ w.pc = "listApps"
       /\ AfterApp("version", [w EXCEPT !.todoApps = todo])
       /\ UNCHANGED <<userObjects, caches, configMaps, pods, outcomes, bounds>>

(* createOutcome: an Outcome that already exists is left as it is.         *)
createOutcome_Overwrites ==
    LET w == worker["version"]
    IN /\ w.pc = "createOutcome"
       /\ outcomes' = [outcomes EXCEPT ![w.run] = [rv |-> 1, tests |-> w.tests]]
       /\ Done("version")
       /\ UNCHANGED <<userObjects, caches, configMaps, pods, bounds>>

createOutcome ==
    LET w == worker["version"]
    IN /\ w.pc = "createOutcome"
       /\ outcomes' = [outcomes EXCEPT ![w.run] =
                         IF @ = Nil THEN [rv |-> 1, tests |-> w.tests] ELSE @]
       /\ Done("version")
       /\ UNCHANGED <<userObjects, caches, configMaps, pods, bounds>>

----------------------------------------------------------------------------
(* createAppTests, for either controller.                                  *)

(* listGrids, and the grid x cluster x application cluster loop reduced to  *)
(* its matches.  No match is "no cluster found for app": no tests and no   *)
(* error.                                                                  *)
listGrids(c) ==
    LET w == worker[c]
        found == {m \in Matches :
                    m[2] \in grids[m[1]] \cap w.app.spec.clusters}
    IN /\ w.pc = "listGrids"
       /\ IF found = {}
          THEN AfterApp(c, w)
          ELSE /\ Goto(c, [w EXCEPT !.pc = "checkPod", !.matches = found])
               /\ UNCHANGED queue
       /\ UNCHANGED <<userObjects, caches, configMaps, pods, outcomes, bounds>>

(* A test is appended for the match in hand; the loop goes on or ends.     *)
AppendTest(c, w, m, result) ==
    LET test == [id |-> CurrentTest([w EXCEPT !.at = m]), result |-> result]
        rest == [w EXCEPT !.pc = "checkPod", !.at = Nil, !.matches = @ \ {m},
                          !.tests = IF c = "version" THEN @ \cup {test} ELSE {}]
    IN IF rest.matches = {}
       THEN AfterApp(c, rest)
       ELSE Goto(c, rest) /\ UNCHANGED queue

(* Pods().Get: a pod that exists is the test, whatever it was created for. *)
(* Otherwise the ConfigMap is built, which dereferences the cluster's eks  *)
(* section: on a cluster without one the manager process dies (see         *)
(* Restarted).                                                             *)
PodExists_NotAppended(c) ==
    LET w == worker[c]
    IN /\ w.pc = "checkPod"
       /\ \E m \in w.matches :
            LET rest == [w EXCEPT !.matches = @ \ {m}]
            IN /\ pods[CurrentTest([w EXCEPT !.at = m])] # NoPod
               /\ IF rest.matches = {} THEN AfterApp(c, rest)
                  ELSE Goto(c, rest) /\ UNCHANGED queue
       /\ UNCHANGED <<userObjects, caches, configMaps, pods, outcomes, bounds>>

PodExists(c) ==
    LET w == worker[c]
    IN /\ w.pc = "checkPod"
       /\ \E m \in w.matches :
            LET t == CurrentTest([w EXCEPT !.at = m])
            IN /\ pods[t] # NoPod
               /\ AppendTest(c, w, m, getTestResultFromPod(pods[t]))
       /\ UNCHANGED <<userObjects, caches, configMaps, pods, outcomes, bounds>>

PodNotFound_ForgetsMatch(c) ==
    LET w == worker[c]
    IN /\ w.pc = "checkPod"
       /\ \E m \in w.matches :
            /\ pods[CurrentTest([w EXCEPT !.at = m])] = NoPod
            /\ m[2] \in EksClusters
            /\ Goto(c, [w EXCEPT !.pc = "createConfigMap"])
       /\ UNCHANGED <<userObjects, caches, queue, configMaps, pods, outcomes, bounds>>

PodNotFound_StraightToPod(c) ==
    LET w == worker[c]
    IN /\ w.pc = "checkPod"
       /\ \E m \in w.matches :
            /\ pods[CurrentTest([w EXCEPT !.at = m])] = NoPod
            /\ m[2] \in EksClusters
            /\ Goto(c, [w EXCEPT !.pc = "createPod", !.at = m])
       /\ UNCHANGED <<userObjects, caches, queue, configMaps, pods, outcomes, bounds>>

PodNotFound(c) ==
    LET w == worker[c]
    IN /\ w.pc = "checkPod"
       /\ \E m \in w.matches :
            /\ pods[CurrentTest([w EXCEPT !.at = m])] = NoPod
            /\ m[2] \in EksClusters
            /\ Goto(c, [w EXCEPT !.pc = "createConfigMap", !.at = m])
       /\ UNCHANGED <<userObjects, caches, queue, configMaps, pods, outcomes, bounds>>

(* The ConfigMap of a test: its release and its cluster are in the test    *)
(* ID, which is also the name; what else it holds comes from the app.      *)
getKotsTestConfigMap(app) == app.spec.config

(* The pod of a test starts out Pending, and is never restarted.           *)
getTestPodSpec == "Pending"

(* ConfigMaps().Create; AlreadyExists is accepted and the old one stays.   *)
CreateConfigMap_MustBeNew(c) ==
    LET w == worker[c]
        t == CurrentTest(w)
    IN /\ w.pc = "createConfigMap"
       /\ IF configMaps[t] # Nil
          THEN Retry(c, w.key) /\ UNCHANGED configMaps
          ELSE /\ configMaps' = [configMaps EXCEPT ![t] = getKotsTestConfigMap(w.app)]
               /\ Goto(c, [w EXCEPT !.pc = "createPod"])
               /\ UNCHANGED queue
       /\ UNCHANGED <<userObjects, caches, pods, outcomes, bounds>>

CreateConfigMap(c) ==
    LET w == worker[c]
        t == CurrentTest(w)
    IN /\ w.pc = "createConfigMap"
       /\ configMaps' = [configMaps EXCEPT ![t] =
                            IF @ = Nil THEN getKotsTestConfigMap(w.app) ELSE @]
       /\ Goto(c, [w EXCEPT !.pc = "createPod"])
       /\ UNCHANGED <<userObjects, caches, queue, pods, outcomes, bounds>>

(* Pods().Create; here AlreadyExists is an error like any other.           *)
CreatePod(c) ==
    LET w == worker[c]
    IN /\ w.pc = "createPod"
       /\ IF pods[CurrentTest(w)] # NoPod
          THEN Retry(c, w.key) /\ UNCHANGED pods
          ELSE /\ pods' = [pods EXCEPT ![CurrentTest(w)] = getTestPodSpec]
               /\ AppendTest(c, w, w.at, "Pending")
       /\ UNCHANGED <<userObjects, caches, configMaps, outcomes, bounds>>

(* Any API call of a reconcile may fail: its error is returned.            *)
CallFails_NotRetried(c) ==
    /\ worker[c] # Idle
    /\ faults > 0
    /\ faults' = faults - 1
    /\ Done(c)
    /\ UNCHANGED <<userObjects, caches, configMaps, pods, outcomes, edits>>

CallFails(c) ==
    /\ worker[c] # Idle
    /\ faults > 0
    /\ faults' = faults - 1
    /\ Retry(c, worker[c].key)
    /\ UNCHANGED <<userObjects, caches, configMaps, pods, outcomes, edits>>

----------------------------------------------------------------------------
(* The manager process (controller-runtime): watches, resync, restarts.    *)

(* A change of an object reaches the informer cache and the work queue.    *)
WatchApplication(a) ==
    /\ seenApps[a] # apps[a]
    /\ seenApps' = [seenApps EXCEPT ![a] = apps[a]]
    /\ queue' = [queue EXCEPT !["application"] = @ \cup {a}]
    /\ UNCHANGED <<userObjects, seenVersions, worker, configMaps, pods, outcomes, bounds>>

WatchVersion(v) ==
    /\ seenVersions[v] # versions[v]
    /\ seenVersions' = [seenVersions EXCEPT ![v] = versions[v]]
    /\ queue' = [queue EXCEPT !["version"] = @ \cup {v}]
    /\ UNCHANGED <<userObjects, seenApps, worker, configMaps, pods, outcomes, bounds>>

(* Every SyncPeriod (10 hours) the cached objects are queued again.        *)
Resync ==
    /\ queue' = [c \in Controllers |-> queue[c] \cup
                   Deployed(IF c = "application" THEN seenApps ELSE seenVersions)]
    /\ UNCHANGED <<userObjects, caches, worker, configMaps, pods, outcomes, bounds>>

(* A new manager process: reconciles in progress are gone, the caches and  *)
(* queues are filled by the initial list.                                  *)
Restarted ==
    /\ worker' = [c \in Controllers |-> Idle]
    /\ seenApps' = apps
    /\ seenVersions' = versions
    /\ queue' = [c \in Controllers |->
                   Deployed(IF c = "application" THEN apps ELSE versions)]
    /\ UNCHANGED <<userObjects, configMaps, pods, outcomes>>

Crash ==
    /\ faults > 0
    /\ faults' = faults - 1
    /\ Restarted
    /\ UNCHANGED edits

(* The nil dereference of getGridSpecForTest, for a cluster that has no    *)
(* eks section at all.                                                     *)
Panic(c) ==
    LET w == worker[c]
    IN /\ w.pc = "checkPod"
       /\ \E m \in w.matches :
            /\ pods[CurrentTest([w EXCEPT !.at = m])] = NoPod
            /\ m[2] \notin EksClusters
       /\ Restarted
       /\ UNCHANGED bounds

----------------------------------------------------------------------------
(* The users, who deploy, change and delete objects, and the kubelets.     *)

Edit == edits > 0 /\ edits' = edits - 1

PutApplication(a, spec) ==
    /\ Edit
    /\ apps[a] # spec
    /\ apps' = [apps EXCEPT ![a] = spec]
    /\ UNCHANGED <<grids, versions, caches, queue, worker, configMaps, pods, outcomes, faults>>

PutGrid(g, clusters) ==
    /\ Edit
    /\ grids[g] # clusters
    /\ grids' = [grids EXCEPT ![g] = clusters]
    /\ UNCHANGED <<apps, versions, caches, queue, worker, configMaps, pods, outcomes, faults>>

PutVersion(v, spec) ==
    /\ Edit
    /\ versions[v] # spec
    /\ versions' = [versions EXCEPT ![v] = spec]
    /\ UNCHANGED <<apps, grids, caches, queue, worker, configMaps, pods, outcomes, faults>>

DeletePod(t) ==
    /\ Edit
    /\ pods[t] # NoPod
    /\ pods' = [pods EXCEPT ![t] = NoPod]
    /\ UNCHANGED <<userObjects, caches, queue, worker, configMaps, outcomes, faults>>

PodMoves(t, phase) ==
    /\ <<pods[t], phase>> \in KubeletMoves
    /\ pods' = [pods EXCEPT ![t] = phase]
    /\ UNCHANGED <<userObjects, caches, queue, worker, configMaps, outcomes, bounds>>

----------------------------------------------------------------------------
Step(c) ==
    \/ listGrids(c) \/ PodExists(c) \/ PodNotFound(c)
    \/ CreateConfigMap(c) \/ CreatePod(c)

ApplicationStep == findVersionForApp \/ Step("application")
VersionStep == listApplications \/ createOutcome \/ Step("version")

Reconciling ==
    \/ \E a \in Apps : GetApplication(a) \/ WatchApplication(a)
    \/ \E v \in VersionObjects : GetVersion(v) \/ WatchVersion(v)
    \/ ApplicationStep \/ VersionStep
    \/ \E c \in Controllers : CallFails(c)
    \/ Resync

Users ==
    \/ \E a \in EditableApps : \E s \in AppSpecs \cup {Absent} : PutApplication(a, s)
    \/ \E g \in EditableGrids : \E s \in GridSpecs \cup {{}} : PutGrid(g, s)
    \/ \E v \in EditableVersions : \E s \in VersionSpecs \cup {Absent} : PutVersion(v, s)
    \/ \E t \in DeletablePods : DeletePod(t)

Kubelet == \E t \in TestIDs, phase \in Phases : PodMoves(t, phase)

Next == Reconciling \/ Crash \/ (\E c \in Controllers : Panic(c)) \/ Users \/ Kubelet

Spec == Init /\ [][Next]_vars

(* The workers run, a watch delivers, and the work queue is first in first *)
(* out: a name that is queued is taken.                                    *)
Fairness ==
    /\ WF_vars(ApplicationStep) /\ WF_vars(VersionStep)
    /\ \A a \in Apps : SF_vars(GetApplication(a)) /\ WF_vars(WatchApplication(a))
    /\ \A v \in VersionObjects : SF_vars(GetVersion(v)) /\ WF_vars(WatchVersion(v))

FairSpec == Spec /\ Fairness

----------------------------------------------------------------------------
(* Properties.                                                             *)

(* Every variable holds what the code can put there; a worker that is      *)
(* inside createAppTests has an application, and one that is about to      *)
(* create a ConfigMap or a pod has a match in hand.                        *)
TypeOK ==
    /\ apps \in [Apps -> KotsSpecs \cup {Nil, Absent}]
    /\ grids \in [Grids -> SUBSET Clusters]
    /\ versions \in [VersionObjects -> KotsVersions \cup {Nil, Absent}]
    /\ seenApps \in [Apps -> KotsSpecs \cup {Nil, Absent}]
    /\ seenVersions \in [VersionObjects -> KotsVersions \cup {Nil, Absent}]
    /\ queue \in [Controllers -> SUBSET (Apps \cup VersionObjects)]
    /\ \A c \in Controllers : queue[c] \subseteq Keys(c)
    /\ worker \in [Controllers -> Busy \cup {Idle}]
    /\ \A c \in Controllers :
         /\ worker[c].pc \notin {"idle", "listApps", "createOutcome"} => worker[c].app # Nil
         /\ worker[c].pc \in {"createConfigMap", "createPod"} => worker[c].at # Nil
    /\ configMaps \in [TestIDs -> Configs \cup {Nil}]
    /\ pods \in [TestIDs -> Phases \cup {NoPod}]
    /\ outcomes \in [Runs -> Outcomes \cup {Nil}]
    /\ edits \in 0..MaxEdits /\ faults \in 0..MaxFaults

(* A pod never exists without its ConfigMap, and that ConfigMap holds the  *)
(* settings of an application that runs on the test's cluster and channel: *)
(* createAppTests accepts a ConfigMap that is already there, left by a     *)
(* reconcile that failed half way, by the other controller, or by an       *)
(* application that has been changed since.                                *)
PodConfigured ==
    \A t \in TestIDs : pods[t] # NoPod =>
        \E s \in AppSpecs \cup {InitialApps[a] : a \in Apps} :
            /\ s \in KotsSpecs
            /\ s.channel = t.channel
            /\ t.cluster \in s.clusters
            /\ s.config = configMaps[t]

(* An Outcome reports one run: all its tests belong to that run, run the   *)
(* release that the Version asked for together with that run label, and    *)
(* are set up -- no mixture of two states of a Version that was edited     *)
(* while its reconcile went on.                                            *)
OutcomeOfOneRun ==
    \A r \in Runs : outcomes[r] # Nil =>
        /\ \A t \in IDsOf(outcomes[r].tests) : t.run = r /\ configMaps[t] # Nil
        /\ \E s \in VersionSpecs \cup {InitialVersions[v] : v \in VersionObjects} :
             /\ s \in KotsVersions /\ s.run = r
             /\ \A t \in IDsOf(outcomes[r].tests) : t.version = s.latest

(* When the applications stay as they are, the clusters that pods run on   *)
(* keep their grids and a run label names one release, the Outcome of a    *)
(* run lists every test pod of the run, however often the Version's        *)
(* reconcile failed and started over before createOutcome: no pod runs     *)
(* that nothing reports.                                                   *)
NoUnreportedTest ==
    \A t \in TestIDs :
        (pods[t] # NoPod /\ t.run # NoRun) =>
            (outcomes[t.run] # Nil => t \in IDsOf(outcomes[t.run].tests))

(* README.md on "latest": the release is looked up in the Version object.  *)
(* So no test asks for a release called "latest".                          *)
LatestIsResolved == \A t \in TestIDs : pods[t] # NoPod => t.version # Latest

(* What createAppTests has launched for application a on its own account.  *)
Tested(a) ==
    \A m \in Matches : m[2] \in grids[m[1]] \cap apps[a].clusters =>
        \E t \in TestIDs :
            /\ pods[t] # NoPod
            /\ t.run = NoRun /\ t.cluster = m[2] /\ t.channel = apps[a].channel
            /\ apps[a].version \notin {Latest, NoRelease} => t.version = apps[a].version

Resolvable(a) ==
    /\ apps[a] \notin {Absent, Nil}
    /\ apps[a].version \in {Latest, NoRelease} => KotsDeployed(versions) # {}

(* Every application is tested on each of its clusters that some grid      *)
(* defines, through failed calls, AlreadyExists errors, restarts, and      *)
(* whatever the order in which applications and versions are deployed.     *)
EveryApplicationTested ==
    \A a \in Apps : <>[]Resolvable(a) => <>[](Resolvable(a) => Tested(a))

(* A Version with a run label and a release gets the Outcome of its run.   *)
Reported(v) ==
    (versions[v] \notin {Absent, Nil} /\ versions[v].latest # NoRelease
        /\ versions[v].run # NoRun) => outcomes[versions[v].run] # Nil
EveryRunReported == \A v \in VersionObjects : <>[]Reported(v)
=============================================================================
