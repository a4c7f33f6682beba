--------------------------- MODULE OutcomeTracker ---------------------------
(***************************************************************************)
(* The Outcome controller (controllers/outcome_controller.go): it carries  *)
(* the phases of the test pods into the Outcome of their run.              *)
(*                                                                         *)
(* One worker reads the Outcome from the informer cache, lists the pods    *)
(* live, and writes the Outcome back with the resourceVersion it read, so  *)
(* a write based on a stale copy is refused.  Only the creation of an      *)
(* Outcome (and the initial list of a new manager) queues it; after that a *)
(* reconcile that found a pending pod schedules the next one.              *)
(***************************************************************************)
EXTENDS TestObjects

CONSTANTS
    Launchable,   \* the tests whose pods are launched
    MaxLosses,    \* bound on the pods users or the cluster delete
    MaxFaults     \* bound on failed API calls and manager restarts

ASSUME TrackerAssumption ==
    /\ Launchable \subseteq TestIDs
    /\ MaxLosses \in Nat /\ MaxFaults \in Nat

VARIABLES
    pods,        \* per test ID, the phase of its pod, or NoPod
    shown,       \* history: per test ID, the results its pods have shown so far
    outcomes,    \* per run, the stored Outcome or Nil
    seen,        \* per run, the informer cache's copy or Nil
    queue,       \* runs whose Outcome waits for the worker
    timers,      \* runs whose Outcome is scheduled again in 10 seconds
    tracker,     \* the reconcile in progress
    losses, faults     \* what is left of the bounds

podVars == <<pods, shown>>
bounds == <<losses, faults>>
vars == <<podVars, outcomes, seen, queue, timers, tracker, bounds>>

(* run, the copy of the Outcome with the results worked out so far, and    *)
(* whether it is to be written and to be looked at again.                  *)
Idle == [pc |-> "idle"]
Busy == [pc        : {"list", "update"},
         run       : Runs,
         instance  : Outcomes,
         finalized : BOOLEAN]

Init ==
    /\ pods = [t \in TestIDs |-> NoPod]
    /\ shown = [t \in TestIDs |-> {}]
    /\ outcomes = [r \in Runs |-> Nil]
    /\ seen = [r \in Runs |-> Nil]
    /\ queue = {}
    /\ timers = {}
    /\ tracker = Idle
    /\ losses = MaxLosses
    /\ faults = MaxFaults

----------------------------------------------------------------------------
(* Reconcile.                                                              *)

(* r.Get: the cached copy, or the end of the reconcile.                    *)
GetOutcome(r) ==
    /\ tracker = Idle
    /\ r \in queue
    /\ queue' = queue \ {r}
    /\ tracker' = IF seen[r] = Nil
                  THEN Idle
                  ELSE [pc |-> "list", run |-> r, instance |-> seen[r], finalized |-> TRUE]
    /\ UNCHANGED <<podVars, outcomes, seen, timers, bounds>>

(* What the loop over instance.Tests makes of one test: a test without a   *)
(* pod is Unknown unless it has a result already.                          *)
Refreshed_RawPhase(test) ==
    IF pods[test.id] # NoPod THEN [test EXCEPT !.result = pods[test.id]] ELSE test

Refreshed_LostIsFail(test) ==
    IF pods[test.id] # NoPod
    THEN [test EXCEPT !.result = getTestResultFromPod(pods[test.id])]
    ELSE [test EXCEPT !.result = "Fail"]

Refreshed_LostIsUnknown(test) ==
    IF pods[test.id] # NoPod
    THEN [test EXCEPT !.result = getTestResultFromPod(pods[test.id])]
    ELSE [test EXCEPT !.result = "Unknown"]

Refreshed(test) ==
    IF pods[test.id] # NoPod
    THEN [test EXCEPT !.result = getTestResultFromPod(pods[test.id])]
    ELSE IF test.result \in {"Pass", "Fail", "Unknown"}
         THEN test
         ELSE [test EXCEPT !.result = "Unknown"]

(* How a reconcile that had no error ends: for good when no pod is         *)
(* pending, otherwise with RequeueAfter.                                   *)
Finish_NoRequeue(r, finalized) ==
    /\ tracker' = Idle
    /\ UNCHANGED timers

Finish(r, finalized) ==
    /\ tracker' = Idle
    /\ timers' = IF finalized THEN timers ELSE timers \cup {r}

(* Pods().List and the loop over the tests; nothing to write if no result  *)
(* changed.                                                                *)
ListPods ==
    LET old == tracker.instance.tests
        new == {Refreshed(test) : test \in old}
        finalized == \A test \in old : pods[test.id] # NoPod =>
                         getTestResultFromPod(pods[test.id]) # "Pending"
    IN /\ tracker.pc = "list"
       /\ IF new = old
          THEN Finish(tracker.run, finalized)
          ELSE /\ tracker' = [tracker EXCEPT !.pc = "update",
                                             !.instance = [@ EXCEPT !.tests = new],
                                             !.finalized = finalized]
               /\ UNCHANGED timers
       /\ UNCHANGED <<podVars, outcomes, seen, queue, bounds>>

(* updateOutcome: refused if the Outcome has changed since it was read; an *)
(* error queues the name again.                                            *)
updateOutcome ==
    LET r == tracker.run
    IN /\ tracker.pc = "update"
       /\ IF outcomes[r].rv = tracker.instance.rv
          THEN /\ outcomes' = [outcomes EXCEPT ![r] =
                                 [tracker.instance EXCEPT !.rv = @ + 1]]
               /\ Finish(r, tracker.finalized)
               /\ UNCHANGED queue
          ELSE /\ tracker' = Idle
               /\ queue' = queue \cup {r}
               /\ UNCHANGED <<outcomes, timers>>
       /\ UNCHANGED <<podVars, seen, bounds>>

CallFails_NotRetried ==
    /\ tracker # Idle
    /\ faults > 0
    /\ faults' = faults - 1
    /\ tracker' = Idle
    /\ UNCHANGED <<podVars, outcomes, seen, queue, timers, losses>>

CallFails ==
    /\ tracker # Idle
    /\ faults > 0
    /\ faults' = faults - 1
    /\ tracker' = Idle
    /\ queue' = queue \cup {tracker.run}
    /\ UNCHANGED <<podVars, outcomes, seen, timers, losses>>

----------------------------------------------------------------------------
(* The manager process.                                                    *)

(* A watch event reaches the cache.  The event filter lets only the        *)
(* creation of an Outcome through to the queue.                            *)
WatchOutcome(r) ==
    /\ seen[r] # outcomes[r]
    /\ seen' = [seen EXCEPT ![r] = outcomes[r]]
    /\ queue' = IF seen[r] = Nil THEN queue \cup {r} ELSE queue
    /\ UNCHANGED <<podVars, outcomes, timers, tracker, bounds>>

(* The 10 seconds are over.                                                *)
TimerFires(r) ==
    /\ r \in timers
    /\ timers' = timers \ {r}
    /\ queue' = queue \cup {r}
    /\ UNCHANGED <<podVars, outcomes, seen, tracker, bounds>>

(* A new process knows no timers; its initial list is a creation event for *)
(* every Outcome there is.                                                 *)
Restarted_NothingQueued ==
    /\ seen' = outcomes
    /\ queue' = {}
    /\ timers' = {}
    /\ tracker' = Idle
    /\ UNCHANGED <<podVars, outcomes>>

Restarted ==
    /\ seen' = outcomes
    /\ queue' = {r \in Runs : outcomes[r] # Nil}
    /\ timers' = {}
    /\ tracker' = Idle
    /\ UNCHANGED <<podVars, outcomes>>

Crash ==
    /\ faults > 0
    /\ faults' = faults - 1
    /\ Restarted
    /\ UNCHANGED losses

----------------------------------------------------------------------------
(* The rest of the system: the other controllers launch pods and create    *)
(* the Outcome of a run (TestDispatch has the details), kubelets run the   *)
(* pods, and pods get lost.                                                *)

SetPod(t, phase) ==
    /\ pods' = [pods EXCEPT ![t] = phase]
    /\ shown' = [shown EXCEPT ![t] = @ \cup {getTestResultFromPod(phase)}]

(* A pod is launched once; Operator has those that are launched again.     *)
LaunchPod(t) ==
    /\ pods[t] = NoPod
    /\ shown[t] = {}
    /\ SetPod(t, "Pending")
    /\ UNCHANGED <<outcomes, seen, queue, timers, tracker, bounds>>

(* The results were read while the Version's reconcile went over its       *)
(* tests, so each is one that the test's pod has shown at some time.       *)
Readings(r) ==
    {test \in Tests : /\ test.id \in Launchable /\ test.id.run = r
                      /\ test.result \in shown[test.id]}

CreateOutcome(r) ==
    /\ outcomes[r] = Nil
    /\ \E tests \in SUBSET Readings(r) :
         outcomes' = [outcomes EXCEPT ![r] = [rv |-> 1, tests |-> tests]]
    /\ UNCHANGED <<podVars, seen, queue, timers, tracker, bounds>>

PodMoves(t, phase) ==
    /\ <<pods[t], phase>> \in KubeletMoves
    /\ SetPod(t, phase)
    /\ UNCHANGED <<outcomes, seen, queue, timers, tracker, bounds>>

LosePod(t) ==
    /\ losses > 0
    /\ pods[t] # NoPod
    /\ losses' = losses - 1
    /\ pods' = [pods EXCEPT ![t] = NoPod]
    /\ UNCHANGED <<shown, outcomes, seen, queue, timers, tracker, faults>>

----------------------------------------------------------------------------
TrackerStep == ListPods \/ updateOutcome

Reconciling ==
    \/ \E r \in Runs : GetOutcome(r) \/ WatchOutcome(r) \/ TimerFires(r)
    \/ TrackerStep \/ CallFails

World ==
    \/ \E t \in Launchable : LaunchPod(t) \/ LosePod(t)
    \/ \E t \in Launchable, phase \in Phases : PodMoves(t, phase)
    \/ \E r \in Runs : CreateOutcome(r)

Next == Reconciling \/ Crash \/ World

Spec == Init /\ [][Next]_vars

(* The worker runs and takes a queued name in its turn, watches deliver,   *)
(* timers fire.                                                            *)
Fairness ==
    /\ WF_vars(TrackerStep)
    /\ \A r \in Runs :
         SF_vars(GetOutcome(r)) /\ WF_vars(WatchOutcome(r)) /\ WF_vars(TimerFires(r))

FairSpec == Spec /\ Fairness

----------------------------------------------------------------------------
(* Properties.                                                             *)

(* Every variable holds what the code can put there.                       *)
TypeOK ==
    /\ pods \in [TestIDs -> Phases \cup {NoPod}]
    /\ shown \in [TestIDs -> SUBSET Results]
    /\ outcomes \in [Runs -> Outcomes \cup {Nil}]
    /\ seen \in [Runs -> Outcomes \cup {Nil}]
    /\ queue \subseteq Runs
    /\ timers \subseteq Runs
    /\ tracker \in Busy \cup {Idle}
    /\ losses \in 0..MaxLosses
    /\ faults \in 0..MaxFaults

(* A Pass or Fail in an Outcome was shown by a pod of that very test: no   *)
(* stale copy, conflict, lost pod or restart makes a verdict up.           *)
Earned(tests) == \A test \in tests : test.result \in Verdicts => test.result \in shown[test.id]
VerdictsAreEarned == \A r \in Runs : outcomes[r] # Nil => Earned(outcomes[r].tests)

(* What the reader of an Outcome may rely on, as long as no pod is         *)
(* launched a second time.                                                 *)
Life == INSTANCE OutcomeLife WITH
          report <- [r \in Runs |-> IF outcomes[r] = Nil THEN Nil
                                      ELSE [tests |-> outcomes[r].tests]]
OutcomeLifeSpec == Life!Spec

(* While an Outcome says Pending, something will look at it again: its     *)
(* creation event is still to come, it is queued, scheduled or in hand.    *)
NeverAbandoned ==
    \A r \in Runs :
        (outcomes[r] # Nil /\ \E test \in outcomes[r].tests : test.result = "Pending") =>
            \/ seen[r] = Nil
            \/ r \in queue \cup timers
            \/ tracker # Idle /\ tracker.run = r

(* The verdict of a pod reaches the Outcome that lists its test, unless    *)
(* the pod is lost first.                                                  *)
Reported(r, t) ==
    outcomes[r] # Nil => \A test \in outcomes[r].tests :
        test.id = t => test.result = getTestResultFromPod(pods[t])
EveryVerdictReported ==
    \A r \in Runs, t \in Launchable :
        (outcomes[r] # Nil /\ pods[t] \in TerminalPhases)
            ~> (Reported(r, t) \/ pods[t] = NoPod)
=============================================================================
