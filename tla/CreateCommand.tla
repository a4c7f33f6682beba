---------------------------- MODULE CreateCommand ----------------------------
(***************************************************************************)
(* `kgrid create` (cmd/kgrid/cli/create.go) of a grid with one new EKS     *)
(* cluster and a Slack logger: the thread is started, grid.Create waits    *)
(* for the cluster's goroutine, and the deferred FinishThread leaves a     *)
(* mark.  The process ends when RunE returns, whatever its goroutines do,  *)
(* and at once when one of them panics.                                    *)
(***************************************************************************)
EXTENDS NewCluster, SlackThread

VARIABLES
    main,       \* where RunE is: "start", "create", "finish", "exited" or "panicked"
    testError   \* whether RunE is going to return an error

vars == <<main, testError, clusterVars, slackVars>>

Init ==
    /\ main = "start"
    /\ testError = FALSE
    /\ ClusterInit
    /\ SlackInit

Up == main \notin {"exited", "panicked"}

----------------------------------------------------------------------------
(* RunE.                                                                   *)
StartThread ==
    /\ main = "start"
    /\ \/ /\ ThreadStarts \/ ThreadFails
          /\ main' = "create"
       \/ /\ ~client
          /\ main' = "panicked"
          /\ UNCHANGED slackVars
    /\ UNCHANGED <<testError, clusterVars>>

(* grid.Create: an error before any cluster is made (the config file), or  *)
(* the cluster's message.                                                  *)
CreateFails ==
    /\ main = "create"
    /\ at = "controlPlane"
    /\ at' = "ended"
    /\ testError' = TRUE
    /\ main' = "finish"
    /\ UNCHANGED <<tries, nodeGroup, message, seen, polling, cloud, applied, existed, usable,
                   kubectlVars, slackVars>>

CreateReturns ==
    /\ main = "create"
    /\ message # "none"
    /\ testError' = (message = "error")
    /\ main' = "finish"
    /\ UNCHANGED <<clusterVars, slackVars>>

(* The deferred FinishThread.                                              *)
Mark == IF testError THEN "cross" ELSE "check"

FinishThread ==
    /\ main = "finish"
    /\ \/ finish = "no" /\ (NoThread \/ CloseThread)
       \/ FinishAnswered
    /\ UNCHANGED <<main, testError, clusterVars>>

Exit ==
    /\ main = "finish"
    /\ finish = "returned"
    /\ main' = "exited"
    /\ UNCHANGED <<testError, clusterVars, slackVars>>

----------------------------------------------------------------------------
(* The goroutines, while the process is up.                                *)
ClusterRuns ==
    /\ main \in {"create", "finish"}
    /\ CreatorStep
    /\ main' = IF at' = "panicked" THEN "panicked" ELSE main
    /\ UNCHANGED <<testError, slackVars>>

PollerRuns ==
    /\ Up
    /\ Poll
    /\ UNCHANGED <<main, testError, slackVars>>

MonitorRuns ==
    /\ Up
    /\ Monitor
    /\ UNCHANGED <<main, testError, clusterVars>>

(* Slack gets a request even if the process is gone by then.               *)
SlackAnswers ==
    /\ SpinnerArrives \/ FinishArrives(Mark)
    /\ UNCHANGED <<main, testError, clusterVars>>

WorldChanges ==
    /\ Up
    /\ CloudChanges
    /\ UNCHANGED <<main, testError, slackVars>>

Next ==
    \/ StartThread \/ CreateFails \/ CreateReturns \/ FinishThread \/ Exit
    \/ ClusterRuns \/ PollerRuns \/ MonitorRuns \/ SlackAnswers \/ WorldChanges

Spec == Init /\ [][Next]_vars

(* Goroutines are scheduled; the timeout of the wait fires; a kubectl that *)
(* can write, writes on, and ends; Slack answers.  The cluster need not    *)
(* become ready.                                                           *)
Fairness ==
    /\ WF_vars(StartThread) /\ WF_vars(CreateReturns)
    /\ WF_vars(FinishThread) /\ WF_vars(Exit)
    /\ WF_vars(ClusterRuns) /\ WF_vars(PollerRuns)
    /\ WF_vars(FinishArrives(Mark) /\ UNCHANGED <<main, testError, clusterVars>>)

FairSpec == Spec /\ Fairness

----------------------------------------------------------------------------
(* Properties.                                                             *)

(* Every variable holds what the code can put there.                       *)
TypeOK ==
    /\ main \in {"start", "create", "finish", "exited", "panicked"}
    /\ testError \in BOOLEAN
    /\ at \in ClusterSteps
    /\ tries \in 0..(MaxTries - 1)
    /\ nodeGroup \in {"nil", "set"}
    /\ message \in {"none", "ok", "error"}
    /\ keepTrying \in BOOLEAN
    /\ poller \in {"off", "loop", "describe", "sendReady", "sendError", "exited"}
    /\ seen \in NodeCounts /\ nodes \in NodeCounts
    /\ control \in {"none", "creating", "active"}
    /\ group \in BOOLEAN /\ authMap \in BOOLEAN /\ storageClass \in BOOLEAN
    /\ existed \in BOOLEAN /\ usable \in BOOLEAN
    /\ reader \in {"idle", "stdout", "stderr"}
    /\ child \in {"none", "running", "ok", "failed"}
    /\ reader = "idle" <=> child = "none"
    /\ unwritten \in 0..MaxStderr
    /\ pipe \in 0..PipeSize
    /\ client \in BOOLEAN
    /\ threadDone \in {"nil", "open", "closed"}
    /\ monitor \in {"off", "select", "fired", "update", "answer", "exited"}
    /\ finish \in {"no", "update", "answer", "returned"}
    /\ text \in Texts
    /\ late \in BOOLEAN

(* A check mark, and an exit without error, mean a cluster that could run  *)
(* the application: its control plane is active, the storage class is      *)
(* there, and all nodes of the node group were ready with aws-auth applied *)
(* (create.go:23: Create returns when "all clusters are ready").           *)
CheckMeansUsable ==
    text = "check" \/ (main = "exited" /\ ~testError) =>
        control = "active" /\ group /\ usable /\ storageClass

(* The mark stays: once Slack has it, a spinner takes its place only if    *)
(* that was due or on its way when the thread was finished.                *)
MarkStays ==
    [][(text \in {"check", "cross"} /\ text' # text) => late]_vars

(* The process panics for two reasons only: no Slack client, and a node    *)
(* group that is said to exist (create.go:244 goes on without it).  An     *)
(* error of CreateNodegroup must end in a message, as any other does.      *)
PanicsKnown == main = "panicked" => ~client \/ existed

(* Polling stops with the wait, however that ends: a poller that the 20    *)
(* minutes have left behind, asleep or in the middle of a call, asks AWS   *)
(* for nothing more, although it shares no more than a variable with the   *)
(* goroutine that has given up.                                            *)
PollingStops ==
    [][at \notin {"controlPlane", "waitActive"} /\ poller # "describe"
         => poller' # "describe"]_vars

(* The command ends, whether the cluster becomes ready or not: every wait  *)
(* is bounded.  The one exception is a kubectl that writes more to stderr  *)
(* than its pipe holds, since stdout is read first (run.go:45).            *)
CommandEnds == <>(~Up) \/ <>[]Stuck
=============================================================================
