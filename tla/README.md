# Verification of kgrid

kgrid tests Kubernetes off-the-shelf (KOTS) applications on a grid of clusters.
It has two halves. The *operator* (`main.go`, `controllers/`) watches
Application, Version, Grid and Outcome objects, launches one test pod per
(application, cluster), and collects their results in an Outcome. The *command
line* (`cmd/kgrid/cli`, `pkg/kgrid`) is what such a pod runs, and what a user
can run by hand: it creates the clusters of a grid in parallel, deploys an
application to each, and tears the grid down.

The TLA+ modules of this directory are translated from that code. `PROJECT.json`
maps every definition to the lines it stands for.

## 1. Inventory

| Component | Code | State it keeps | Operations | Properties that make it correct |
|---|---|---|---|---|
| Application and Version controllers | `controllers/application_controller.go`, `version_controller.go` | work queues, informer caches, the locals of a reconcile; test pods, ConfigMaps and Outcomes in the API server | `Reconcile`, `createJob`, `createAppTests`, `findVersionForApp`, `listApplications`, `createOutcome` | every application is tested on each of its clusters; a run's Outcome lists its tests, all of that run; a pod always has its settings |
| Outcome controller | `controllers/outcome_controller.go` | cached and stored Outcomes, requeue timers | `Reconcile`, event filter, `updateOutcome`, `getTestResultFromPod` | a verdict is what a pod has shown, is reported, and is never abandoned |
| Grid controller | `controllers/grid_controller.go` | none | `Reconcile` is a stub; `listGrids` | (part of the dispatch) |
| Manager process | `main.go` | all controllers in one process, leader election | start, crash, restart | the halves of the operator fit together; a run completes |
| Grid creation | `pkg/kgrid/grid/create.go`, `config.go` | a channel and a goroutine per cluster, the config mutex, the config file | `Create`, `createNewEKSCluter`, `connectExistingEKSCluster`, `loadConfig`, `saveConfig` | `Create` returns; nil means that all clusters are ready and recorded |
| Config file across processes | `config.go`, `list.go` | the file of `--config-file`, `~/.grid/config` by default | add, list, remove | no entry is lost between processes |
| EKS infrastructure | `eks.go` | VPC, subnets, gateways, routes, roles in AWS | `ensure...` (describe, then create), wait loops | one VPC per region; a second attempt finds what the first left |
| Grid deletion | `delete.go` | clusters in AWS, config file | `Delete` | no cluster is forgotten but one whose deletion has failed |
| Application deployment | `pkg/kgrid/app/` | a channel and a goroutine per cluster | `Deploy`, status polling, support bundle | every cluster gets its own application; `Deploy` returns |
| Command line | `cmd/kgrid/cli/` | none | `run`, `create`, `deploy`, `delete` | `run` tears down what it created |
| New cluster bring-up | `grid/create.go`, `eks.go` | a poller, retry counters, the node group in hand | the waits of `createNewEKSCluter`, `waitForClusterToBeActive` | success means a usable cluster; every wait ends, and its polling with it |
| kubectl wrapper | `kubectl/run.go` | two pipes | `runWithOutput` | returns with all the output |
| Loggers | `logger/` | spinner goroutines | `StartThread`, `FinishThread` | a finished thread stays finished |

Interactions. The controllers never call each other. They meet in the API
server: both the Application and the Version controller create test pods (whose
names are hashes of what is tested, so both may want the same one), the Version
controller creates the Outcome after its last pod, and the Outcome controller
lists the pods of a run and updates the Outcome. Each controller has one worker
and a work queue without duplicates; a reconcile that returns an error puts its
object's name back. Reads of the reconciled object come from an informer cache,
which may be stale; everything else is a live API call. The command line shares
the config file between the goroutines of a process (under a mutex) and between
processes (under nothing).

What is hard: every API call can fail half way through a reconcile, which then
starts over and must accept what is already there; the manager can be restarted
between any two calls and forgets its timers; users edit what is being
reconciled; goroutines report on unbuffered channels, some of them more than
once and with a mutex in hand, to a collector that stops after the last cluster.
`PROJECT.json` lists the hazards line by line.

## 2. Plan

In the order in which it was carried out, the most important behaviour first:

1. `TestObjects`, `TestDispatch`: how test pods and Outcomes come into being.
2. `OutcomeTracker` with its abstract specification `OutcomeLife`.
3. `Operator`: the composition of the two, and that the first is an environment
   the second assumes.
4. `GridCreate`: the goroutines of a grid and the config file of one process.
5. `EnsureVPC`: the network that all EKS clusters share.
6. `AppDeploy`, and `TestRun` around it: `kgrid run` as create, deploy, delete, with
   its abstract specification `RunLife`.
7. `ConfigFile`: several processes on one config file, `List` without a lock.
8. `Kubectl`, `NewCluster` and `SlackThread`, composed in `CreateCommand`:
   `kgrid create` of one new cluster, wait by wait.
9. Proofs of `GridCreate`, `OutcomeTracker`, `TestRun`, `EnsureVPC`, `ConfigFile`,
   `TestDispatch` and `CreateCommand`, each in a module of its own, and of `Operator`,
   which puts the proofs of its two halves together.

Section 5 says what is proved and what is only model-checked, section 6 what is left
out and why.

## 3. Modules

* `TestObjects`: the vocabulary of the controllers. A test's identity is the
  record of the fields `getTestID` hashes (the hash itself is taken to be
  injective); a pod is its phase; an Outcome is its resourceVersion and its
  entries. Names and settings are model values.
* `TestDispatch`: the Application and Version controllers. `worker[c]` holds the
  locals of the reconcile that controller c is in, `pc` says which API call comes
  next, and each live call is one action (`listGrids`, `PodExists`/`PodNotFound`,
  `CreateConfigMap`, `CreatePod`, `createOutcome`, ...). Loops over maps and
  lists become a choice from the set that is left, since listing order is not
  specified; the exception is `findVersionForApp`, which returns from its loop
  with the first Version, so Versions are numbered in listing order. `CallFails`
  is the error return of any call, `Crash` a restart between any two, `Panic` the
  nil dereference in `getGridSpecForTest`. Users edit and delete objects within
  `MaxEdits`, faults happen within `MaxFaults`.
* `OutcomeTracker`: the Outcome controller. `seen` is the informer cache,
  `timers` the pending `RequeueAfter`s, `tracker` the reconcile in progress with
  its copy of the Outcome; `updateOutcome` is refused if the resourceVersion of
  that copy is old. `shown` is a history variable: the results each pod has shown.
* `OutcomeLife`: what a reader of an Outcome may rely on. An Outcome is published
  once, its list of tests never changes, a verdict never changes.
  `OutcomeTracker`, in which a pod is launched once, implements it; `Operator`
  has pods that are launched again, and there verdicts do change.
* `Operator`: `TestDispatch` and `OutcomeTracker` over the same pods and
  Outcomes, in one process that crashes as a whole.
* `GridCreate`: `grid.Create`. `at[c]` is where the goroutine of cluster c is,
  `channel[c]` the message it is blocked on; the table `After` is the straight
  path through the functions for a new and an existing cluster and `AfterError`
  what follows an error (the missing returns of `connectExistingEKSCluster`
  included). Long AWS and kubectl operations are single steps that succeed or
  fail.
* `EnsureVPC`: `ensureEKSClusterVPC`. An attempt is one call of it. It makes at most
  one piece of a kind, so `home[kind][a]` says whether attempt a has made one and in
  which VPC it is; `at[a]` is the function it is in and the API call that is next,
  `vpc[a]` the struct it fills in. AWS is modelled by what the code relies on:
  Describe calls list what carries the tag, in any order; a VPC has one internet
  gateway, an address range and a group name are taken once, a role name too; a
  route's gateway is in the VPC of its table; the same route again is no error. With
  `Overlap` FALSE an attempt starts when no other is in progress.
* `AppDeploy`: `app.Deploy`. `loop` is the variables i and c that its goroutines
  share, `at[k]` is where goroutine k is, `blocked[k]` the channel on which it is
  blocked, `collector` and `status` the locals of the collector, `late[k]` the clock
  having passed `waitUntil`. A download or a run of the kots binary is one step.
* `TestRun` extends it with the rest of `kgrid run`: `main` is where `RunE` is,
  `deleting[c]` where the goroutine is that deletes cluster c. `grid.Create` is one
  step with the outcomes that `GridCreate` has. The config file holds another grid
  too.
* `RunLife`: what one may rely on who starts a `kgrid run`: clusters are made, then
  the application is tried on all of them while they stand, then they are given up; a
  pass means that it worked on every one. `TestRun` implements it; in the mapping
  `working` is the set of clusters whose status has been "ready", and `phase` is read
  off `main`.
* `ConfigFile`: several kgrid processes on one config file. A process goes through
  the life of a grid (`phase[p]`: add, record, delete, wait, remove); `at[g]` is the step of
  goroutine g in its access to the file, `lock[p]` the mutex, which is a variable of
  the process, `copy[g]` the config it is about to save. `saveConfig` is two steps,
  since `WriteFile` truncates before it writes; `List` takes no lock and creates a file
  that is not there. `alive` are the clusters that exist, `deleting` those that a
  goroutine of `Delete` is at work on; a deletion that fails is printed, and `Delete`
  removes the grid's entry and returns nil all the same. Four history variables: `stale`
  are the goroutines whose view of the file another process has outdated, `interfered`
  says that such a view was saved, or read in the middle of a save, or that a save ended
  half way, `kept` has the entries that were saved and not removed again, and
  `undeleted` the clusters whose deletion has failed.
* `Kubectl`: `runWithOutput`, as the goroutine that reads and the child that writes
  to a stderr pipe of limited size.
* `NewCluster` extends it with one new cluster from `CreateCluster` on, the steps that
  `GridCreate` takes as succeeding or failing: the poller of the control plane with the
  variable it shares with the wait, the wait for the API server, aws-auth, the wait for
  the nodes, the storage class, and the node group pointer that stays nil. `control`,
  `group`, `nodes` and what has been applied are AWS's and the cluster's own.
* `SlackThread`: the message that `monitorThread` redraws and `FinishThread` ends. A
  request to Slack takes effect, or does not, before it is answered.
* `CreateCommand` composes the two into `kgrid create`; the process ends when `RunE`
  returns, or when a goroutine panics.
* `MC...` modules give the constants of the runs; `..._proofs` modules hold the proofs.

## 4. Runs

Each property's comment, next to its definition, says which code it is about.
The bounds of the operator: two clusters, two applications, one grid and one Version
object, at most two run labels and releases, one or two faults and up to three edits.
Two of each is what the hazards need: two applications that collide on a test, two
states of a Version that are mixed up, two clusters of which one fails. `DispatchLive`
has one application on one cluster, whose version floats, is unset or is pinned, and a
Version with or without a run label: deployed in either order, they let both controllers
race for one pod, with a fault besides. A second fault, in the middle of the recovery
from the first, is in `Tracker`.
`GridCreate` has two new clusters and an existing one, of which every call may fail.
`EnsureVPC` has three attempts: one that fails, one that has to cope with what it left,
one that should find everything. `TestRun` has one to three clusters (three are the
fewest with which a goroutine can look at one cluster, fail to report on a second and
report on a third) and one failing call besides any number of timeouts. `ConfigFile` has
two processes, one of them with two clusters, so that goroutines of one process and of
two meet; one fault is one failed file operation, failed deletion or killed process.
`CreateCommand` has two nodes, loops of two rounds (24 in the code) and a stderr pipe that holds half of
what kubectl may write: a loop then has a last round and one before it, and a pipe can
be full.

| Run | Question |
|---|---|
| `Dispatch` | Does the Outcome of a run list all test pods of the run, whatever failed before it was created; can it mix two states of an edited Version; does every pod have a ConfigMap that fits it, when both controllers launch the same tests? |
| `DispatchLive` | Is an application tested and a run reported, in whatever order things are deployed and whichever controller is first to launch the test? |
| `DispatchLatest` | *Violated*: a test for a release called "latest". |
| `Tracker` | Verdicts are earned, Outcomes are not abandoned, every verdict reaches its Outcome, and `OutcomeLife` is implemented. |
| `OperatorSafety` | Verdicts are earned with all controllers, deletions and relaunches of pods, crashes and panics. |
| `OperatorLive` | Every run ends with a complete Outcome; the dispatch controllers are an environment that `OutcomeTracker` assumes. |
| `GridCreate` | Does `Create` always return; does nil mean that every cluster is ready and recorded, that no goroutine leaks and that the config mutex is free? |
| `EnsureVPC` | Does a repeated attempt find what failed ones have left, and complete it without making anything twice? |
| `EnsureVPCRace` | *Violated*: two overlapping attempts make two VPCs. |
| `TestRun` | Does a pass mean that the application was ready on every cluster; are bundles collected before the clusters go; is everything torn down that was created, and nothing else; does the process end; is it a `RunLife`? |
| `ConfigFile` | What can the config file be trusted with: does it keep the entries that were saved, and does it list every cluster that exists but those whose deletion has failed, as long as no process saved an outdated copy and no save ended half way; does every process end? |
| `CreateCommand` | Does a check mark mean a usable cluster, and does it stay; for what reasons can the process panic; does polling stop with the wait; does the command end? |

The two violated runs are findings: `README.md:68` of the repository says that "latest"
is looked up, and the comment at `eks.go:135` that all clusters end up in one VPC. One
more disagreement was met that no run is spent on: an existing cluster whose credentials
cannot be read reports that error and goes on, so it reports more than once
(`create.go:151`), where the comment at `create.go:126` says that the error or "" is
returned on the channel. `GridCreate` has these extra messages, and its properties say
what they can do.

Deadlock is not checked. The operator may run out of edits and faults and has
nothing to do when all is reported; an attempt on the network ends; a kgrid process ends,
or hangs in `Deploy` with more than one cluster (section 6); `Create` ends, and leaves
goroutines of failed clusters blocked on channels that nobody reads any more. That the
latter keeps nobody waiting is the property `CreateReturns`.

### Fairness

* Workers (`WF` of a worker's steps) and watches (`WF`) run: controller-runtime
  restarts a watch that ends.
* `SF` of taking a queued name (`GetApplication`, `GetVersion`, `GetOutcome`):
  the work queue is first in first out, so a name that is queued is taken though
  others keep coming back. The models' queues are sets.
* `WF` of `TimerFires`: `RequeueAfter` is a timer. None of `Resync`, which happens
  every 10 hours: nothing is shown that needs it.
* `WF` of the kubelet only in `Operator`: tests end.
* In `GridCreate`: goroutines are scheduled, every call returns since its retries
  are bounded, and `SF` of `lockConfig`, because Go's mutex hands over to a
  goroutine that has waited.
* In `TestRun`: goroutines are scheduled, timers fire, commands end or are killed when
  their time is up, and AWS deletes what it is asked to. Downloads are taken to end,
  though the code gives them no timeout. None for `BecomesReady`: an
  application may never become ready.
* In `ConfigFile`: file operations and deletions return, commands go on, and `SF` of `lockConfig` as
  in `GridCreate`.
* In `CreateCommand`: goroutines are scheduled, the 20 minutes of the wait pass, a
  kubectl that can write writes on and ends, and Slack answers. None for AWS and the
  nodes, which may never become ready, nor for the spinner.
* No fairness for faults, restarts and users; they are bounded, and the liveness
  properties speak of what happens after them.

## 5. Proofs

`GridCreate_proofs` proves, for any set of clusters of any kinds (no assumption
but that `Kind` is a function to the three kinds and that `Nobody` is no cluster):
type correctness, mutual exclusion on the config file (`ConfigIsExclusive`),
`NilMeansReady` and `NoLeakAfterSuccess`. None is inductive. `IInv` adds:

* `InPlace`: a goroutine is at a step of its own kind's table;
* `LockInv`: the holder of the mutex is the goroutine between lock and unlock
  (for an existing cluster this includes the report), so that a copy of the file
  is current when it is written back;
* `CollectorInv`: the collector stops only when all clusters are completed, and
  nil is only returned after that, with no errors;
* `SuccessInv`: a success is the last message of its goroutine, so a cluster that
  has completed without an error has nothing more to say;
* `FileInv`: as long as no error message is under way or received, the file has
  the grid and the entry of every cluster that is past its save. It needs the
  premise: a failed save truncates the file, and other clusters then write their
  entries into a config without the grid and report success.

One lemma per action shows that it preserves each part; `KeepsInPlace` to
`KeepsFile` are the frame conditions they share, `CloudTable` to `FirstTable` the
facts about the step table.

`OutcomeTracker_proofs` proves, for any runs and tests, any moves of the pods that
respect their final phases (`KubeletAssumption`: `RestartPolicy` is `Never`), and any
number of lost pods and faults: type correctness, `VerdictsAreEarned`, and the
refinement `Spec => OutcomeLifeSpec`. The invariant has four parts:

* `TypeOK`;
* `EarnedInv`: not only the stored Outcome but every copy of it, in the cache and
  in the worker's hands, has only verdicts that pods have shown. Types need it: the
  results that the tracker writes come from the pods;
* `FinalInv`: a verdict is the last thing a pod shows, because a pod is launched
  once and does not leave its final phase;
* `VersionInv`: a copy with the current resourceVersion is the current Outcome (in
  the cache, and in the worker after the Get), or it revises the current Outcome
  (in the worker, when it is about to write). This is what makes optimistic
  locking enough: `updateOutcome` writes only such a copy.

`RefreshRevises` is the heart: what the loop over the tests makes of the current
Outcome keeps its tests and its verdicts. `OutcomeSteps` sorts the steps into those
that publish, those that revise and those that leave the Outcomes alone, and
`StepImplements` maps each to its step of `OutcomeLife`.

The second part of that module goes on from this invariant and proves `NeverAbandoned`:
while an Outcome says Pending, the Outcome controller is bound to look at it again. The
theorem has one hypothesis, `NeverPendingAgain`: a pod whose result is no longer Pending
does not become Pending again. The moves of the runs satisfy it. Without it (a pod that
goes from Unknown, whose result is Unknown, back to Running) an Outcome can go back to
Pending while the cached copy says otherwise, and that copy is what the controller decides
by. The invariant adds to `NeverAbandoned`:

* `ShownInv`: a pod that has shown anything but Pending is over, that is, gone or no
  longer Pending;
* `CopiesInv`: every copy of an Outcome calls a test settled only if its pod is over;
* `OrderInv`: if an old copy has nothing Pending, neither has the stored Outcome, and a
  write that is based on the current Outcome makes nothing Pending again. So a stale
  cache errs on the side of looking again.

`TestDispatch_proofs` proves, for any applications, grids and versions, any edits,
deleted pods, failed calls and restarts: type correctness with the locals of both
workers, `PodConfigured` and `OutcomeOfOneRun`. The invariant says of the work in
progress what the properties say of its result:

* `ObjectsInv`: what the informers and a reconcile can read has been deployed;
* `PodsInv`: a ConfigMap comes from an application that runs on its cluster and
  channel, and is never changed; a pod has one;
* `WorkOK`: a reconcile inside `createAppTests` has matches of its application only, has
  created the ConfigMap when it is about to create the pod, and, for a Version, has a
  run and a release that were read together, of which all the tests in hand are;
* `OutcomesInv`: an Outcome is the list that such a reconcile had at its end.

`WorkOK` takes the ConfigMaps as a parameter: `WorkKept` shows that it survives whatever
the other worker creates, `AfterAppOK` and `AppendTestOK` that the loops hand it on.

A second invariant, `DueInv`, proves `NoUnreportedTest` (`NothingUnreported`) under the
hypothesis `Stable`: the applications stay as they were deployed, an EKS cluster that is
in a grid is in one that nobody edits, and a run label names one release. Clusters without
an EKS spec may come and go, each time making the manager panic half way through a run.
The constants of `Dispatch` satisfy `Stable`. `Due` is what a reconcile of the run comes
to; each test pod of a run is due (`PodsDue`), an Outcome lists all that is due
(`OutcomesComplete`), and a reconcile in progress has appended a test that is due, or has
its application still to do, or has its match in hand (`OnTrack`). So it does not matter
which reconcile launched the pod, nor where that one stopped: whichever creates the
Outcome has come to it too.

`TestRun_proofs` proves, for any number of clusters and failing calls: type correctness,
`PassMeansReady`, `BundlesFirst`, `TornDown`, `OthersUntouched`, and the refinement
`Spec => RunLifeSpec`. The deep one is `PassMeansReady`. The goroutines of `Deploy`
share the loop variables: goroutine k deploys to and reports on whichever cluster the
loop has reached, so that what is received on a channel may be about another cluster.
`ReportsInv` says that there is a function from goroutines to the channels they report
on, never to one before their own (`Explains`). If all channels have been reported on,
that function is onto and can only be the identity, and then each success vouches for
its own cluster (`AllReported`).

`EnsureVPC_proofs` proves type correctness for any number of attempts, overlapping or
not, and for attempts one after another `OneOfEach` and `Routed`, wherever the
earlier ones failed. The argument is that what is created has just been looked up by the
only attempt in progress: `Alone` (there is one), `FreshInv` (about to create a piece,
there is none of the kind), `UniqueInv` (so there is never a second), and `RoutedInv`
(the tables an attempt is done with are associated and routed).

`NothingMadeTwice` proves `Settled`, which is about whole attempts: once one has succeeded,
the next ones make and change nothing. That a successful attempt leaves everything
`Complete` needs `KnownInv`: what the attempt in progress has passed is there, and the
private subnets in its hands are all that exist, whoever made them. From then on an attempt
is `Finding` (`DoneInv`): at every stage it is at the Describe call, which returns what it
looks for, or it associates and routes a table that is so already. The NAT stage is the
exception, which is why the property excludes gateways that have failed.

`ConfigFile_proofs` proves, for any number of processes and clusters: type correctness
with the mutexes, `EntriesKept` and `NoOrphans`. The invariant has these parts:

* `WorkInv`: in every phase but that of `List`, the goroutine at work on the file holds
  the mutex of its process;
* `DataInv`: as long as nobody is `Doomed` (a stale writer is bound to be recorded as
  interference when its write ends), there is one writer at a time, the file has what is
  to be kept whenever nobody writes, and a copy about to be saved is `Good`, that is, has
  what is to be kept after the save;
* `HoldInv`: a process owns the name of its grid from the save that adds it to the save
  that removes it (two processes with one grid name do not both get it), and meanwhile
  the entry of every cluster it has recorded stays;
* `OrphanInv`: while `Delete` waits, each of its clusters that exists is being deleted or
  is one whose deletion has failed; when the wait is over, only the latter exist. So the
  entry that goes is that of clusters which are gone or which `Delete` could not delete.

`CreateCommand_proofs` proves, for any number of rounds, any size of the node group, and
any sizes of the pipe and of what kubectl writes: type correctness, `CheckMeansUsable`,
`PanicsKnown`, `PollingStops` and `MarkStays`. The parts of its invariant follow the
goroutines and what they share:

* `ProgressInv`: how far the cluster is at each step. An Apply whose child has exited has
  taken effect, so the step that follows finds what it needs;
* `PollerInv`: after the wait for the control plane, a poller that is still in its loop
  finds `keepTrying` false, however the wait has ended;
* `GroupInv`: the node group is in hand after it was created, unless it existed;
* `VerdictInv`: the command says no more of the cluster than its goroutine has;
* `ThreadInv`: the thread is closed before the mark is sent, and a spinner that is on its
  way after that was so when the thread was closed.

`Operator_proofs` is about the three controllers in one process. It instantiates
`TestDispatch_proofs` and `OutcomeTracker_proofs` as `Operator` does the modules, and cites
what they show of one step. The invariant `OInv` is the invariant of the dispatch, type
correctness and `EarnedInv` of the tracker, and two parts that only the composition needs:

* `ReadInv`: the results that a reconcile of a Version has gathered for its Outcome were
  shown by pods. The tracker takes it for granted that an Outcome is created so;
* `ListedInv`: no copy of an Outcome, in the cache or in the tracker's hands, lists other
  tests than the Outcome. So an update by the tracker never takes a test off the list that
  the dispatch controllers have put there, and their invariants survive it.

From it follow, for any constants: `VerdictsAreEarned` with pods deleted and launched again
(`Earnt`), and what each half promises by itself (`PodsAreConfigured`, `OutcomesOfOneRun`,
`NothingUnreported`). The rest needs that users delete no test pods, since the tracker's
environment launches a pod once (`OnceInv`: a test without a pod has never had one):

* `RefinesTracker`: `Spec => TrackerSpec`. It also needs that all clusters are EKS
  clusters (`NoPanic`): a panic of the dispatch restarts the process without counting as
  one of the tracker's faults, which is how `OutcomeTracker` bounds restarts;
* `OutcomesLive` (`OutcomeLifeSpec`) and `NothingAbandoned`, which hold of such restarts
  too, and are proved with panics. `NothingAbandoned` has the hypothesis
  `NeverPendingAgain` of the tracker's theorem.

The constants of `OperatorLive` satisfy all these hypotheses. `OperatorAssumption` says that
the constants are of the right kind; it is what the instances assume of theirs.

Left to TLC: liveness (`RunsComplete`, `EveryApplicationTested`, `EveryRunReported`,
`EveryVerdictReported`, `CreateReturns`, `MutexIsReleased`, `TestEnds`, `ProcessesEnd`,
`CommandEnds`), since fairness and ENABLED are outside the prover's reach. Every invariant,
action property and refinement that a passing run checks is proved; those of them that have
hypotheses on the constants (`NoUnreportedTest`, `NeverAbandoned`, `TrackerSpec`, and
`OneOfEach`, `Routed` and `Settled` without overlapping attempts) have them satisfied by the
constants of the runs.

## 6. What is not modelled, and known limits

* Generated code and clients, and the HTTP handling of the AWS, Kubernetes and Slack
  SDKs: their calls are taken to return. The terminal logger prints; the spinner
  functions of the logger interface and its silence and verbose switches have no callers
  or only change what is printed.
* Leader election is taken to work: one manager at a time. Finalizers, owner
  references and garbage collection of test pods do not occur in the code.
* Nothing but the resync queues an application again when a Grid changes
  (`createAppTests` finds no cluster for it, and that is no error); `DispatchLive` has
  the grid in place.
* A verdict in an Outcome can go back to Pending when its pod is deleted and launched
  again (`VerdictsAreEarned` holds all the same); `OutcomeLife`, in which verdicts are
  final, is implemented as long as nobody deletes a test pod (`OutcomesLive`).
* `NoUnreportedTest` is for applications, and grids of EKS clusters, that stay as they
  are while a run is dispatched: an Outcome that exists is not extended.
* When a lost pod is launched again, an Outcome whose cached copy is older than
  10 seconds can be finalized with a pending result; it is looked at again after
  the next restart only. `NeverAbandoned` is checked of `OutcomeTracker` and proved
  of it and of `Operator`, without deleted pods.
* A grid without clusters would make `Create` wait for ever (`reflect.Select` without
  cases); the command line refuses such a grid before it calls `Create`. The safety
  theorems cover it; the liveness run has three clusters.
* `EnsureVPC` models, and no property excludes, what the code does not repair: an
  internet gateway that was made but not attached, a single private subnet, a role
  without its policies (the five `AttachRolePolicy` calls are one step), a private route to
  a gateway that has failed.
* `Deploy` need not return with more than one cluster: its goroutines share the loop
  variables and may all report on the last channel. `TestEnds` is for one cluster, and
  `PassMeansReady` for any: the sharing never makes a failure look like a pass.
  Likewise for an application without a KOTS spec, for which no goroutine starts.
* The teardown panics for a grid with existing clusters (`DeletePanics`), and what a
  failed `Create` has made is not torn down; `TornDown` speaks of runs that got their
  clusters and exit, and excepts clusters whose deletion failed or, when `List` fails, never
  began. Nothing repairs that: `Delete` prints a failed deletion and takes the cluster
  off the config file. A grid's clusters are all new or all existing in `TestRun`.
* A cluster without an eks section is the one nil pointer of `getGridSpecForTest` that
  `TestDispatch` models; credentials that are missing from such a section are not.
* A ConfigMap is not refreshed when its application changes (`PodConfigured` accepts any
  settings the application has been deployed with), and a status call of `Deploy` that
  fails for ever keeps its loop going for ever (`TestEnds` has a bounded number of errors).
* `keepTrying` is shared by the poller and the wait without synchronization. `NewCluster`
  takes each round to read its current value. A poller that reports after the timeout
  stays blocked on its channel for good; it polls no more (`PollingStops`).
* `NewCluster` takes the scaling configuration of the node group to be set in the answer
  of EKS, and a kubectl run to read the cluster at the moment it exits. The grid has one
  cluster; `GridCreate` has several.
* The properties of `ConfigFile` end where processes do get in each other's way: the
  mutex does not reach beyond a process, and nothing in the code detects the loss.
* `kgrid delete`, as opposed to the teardown of `kgrid run`, reads a spec whose
  clusters have no names and stops with an error; it is not modelled. `kgrid deploy` is
  `app.Deploy` as `kgrid run` calls it, with the clusters of the config file.
