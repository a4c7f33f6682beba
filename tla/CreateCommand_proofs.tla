------------------------ MODULE CreateCommand_proofs ------------------------
(***************************************************************************)
(* Proofs about CreateCommand, for any number of rounds, any size of the   *)
(* node group and any sizes of the pipe and of what kubectl writes: type   *)
(* correctness, that a check mark is deserved, that a mark stays, that     *)
(* polling stops with the wait, and what the process can panic of.         *)
(***************************************************************************)
EXTENDS CreateCommand, TLAPS

(* The steps after the control plane, and those after the node group.      *)
WithGroup == {"getKubeconfig", "record"} \cup KubectlSteps
WithControl == {"nodeGroup"} \cup WithGroup

(* What a success stands for.                                              *)
Usable == control = "active" /\ group /\ usable /\ storageClass

(* How far the cluster is at each step.  The output of an Apply is only in *)
(* hand after it has been carried out, so a step that returns has done it. *)
ProgressInv ==
    /\ poller = "sendReady" => control = "active"
    /\ at \in WithControl => control = "active"
    /\ at \in WithGroup => group
    /\ at = "authMap" /\ child = "ok" => authMap
    /\ at \in {"nodes", "storageClass"} => authMap
    /\ AllReady => usable
    /\ at = "storageClass" => usable
    /\ at = "storageClass" /\ child = "ok" => storageClass
    /\ message = "ok" => at = "ended" /\ Usable

(* A poller that is neither stuck nor gone after the wait has been told.   *)
PollerInv ==
    /\ at = "controlPlane" => poller = "off"
    /\ at \in {"controlPlane", "waitActive"} => message = "none"
    /\ at \notin {"controlPlane", "waitActive"} /\ poller \in {"loop", "describe"} => ~keepTrying

(* The node group is in hand once it is created, unless it existed.        *)
GroupInv ==
    /\ at \in WithGroup => nodeGroup = "set" \/ existed
    /\ at = "panicked" => existed

(* The command says no more of the cluster than its goroutine has.         *)
VerdictInv ==
    /\ (main \in {"finish", "exited"} \/ finish # "no") /\ ~testError => message = "ok"
    /\ text = "check" => message = "ok"

(* The thread is closed before the mark is sent, and a spinner that is on  *)
(* its way from then on was so when the thread was closed.                 *)
ThreadInv ==
    /\ main = "start" => text = "none" /\ threadDone = "nil" /\ finish = "no"
    /\ threadDone = "nil" => monitor = "off"
    /\ finish # "no" => threadDone # "open"
    /\ finish # "no" /\ monitor \in InFlight => late
    /\ text \in {"check", "cross"} => finish \in {"answer", "returned"}

ClusterInv == ProgressInv /\ PollerInv /\ GroupInv
IInv == TypeOK /\ ClusterInv /\ VerdictInv /\ ThreadInv /\ PanicsKnown

----------------------------------------------------------------------------
(* The two halves of the type invariant.                                   *)
ClusterTypes ==
    /\ at \in ClusterSteps
    /\ tries \in 0..(MaxTries - 1)
    /\ nodeGroup \in {"nil", "set"}
    /\ message \in {"none", "ok", "error"}
    /\ keepTrying \in BOOLEAN
    /\ poller \in {"off", "loop", "describe", "sendReady", "sendError", "exited"}
    /\ seen \in NodeCounts /\ nodes \in NodeCounts
    /\ control \in {"none", "creating", "active"}
    /\ group \in BOOLEAN /\ authMap \in BOOLEAN /\ storageClass \in BOOLEAN
    /\ existed \in BOOLEAN /\ usable \in BOOLEAN
    /\ reader \in {"idle", "stdout", "stderr"}
    /\ child \in {"none", "running", "ok", "failed"}
    /\ reader = "idle" <=> child = "none"
    /\ unwritten \in 0..MaxStderr
    /\ pipe \in 0..PipeSize

CommandTypes ==
    /\ main \in {"start", "create", "finish", "exited", "panicked"}
    /\ testError \in BOOLEAN
    /\ client \in BOOLEAN
    /\ threadDone \in {"nil", "open", "closed"}
    /\ monitor \in {"off", "select", "fired", "update", "answer", "exited"}
    /\ finish \in {"no", "update", "answer", "returned"}
    /\ text \in Texts
    /\ late \in BOOLEAN

LEMMA TypeHalves == TypeOK <=> ClusterTypes /\ CommandTypes
BY DEF TypeOK, ClusterTypes, CommandTypes

----------------------------------------------------------------------------
(* kubectl.                                                                *)

(* When runWithOutput has returned there is no child any more, and it has  *)
(* succeeded only if the child has.                                        *)
LEMMA RunEnded ==
    ASSUME ClusterTypes, NEW ok \in BOOLEAN, RunEnds(ok)
    PROVE  /\ reader' = "idle" /\ child' = "none"
           /\ unwritten' \in 0..MaxStderr /\ pipe' \in 0..PipeSize
           /\ ok => child = "ok"
BY KubectlAssumption DEF RunEnds, Returns, ClusterTypes, kubectlVars

(* A round of a waiting loop stays within its bound, and leaves the step   *)
(* only with an error.                                                     *)
LEMMA RoundMade ==
    ASSUME ClusterTypes, NextRound
    PROVE  /\ tries' \in 0..(MaxTries - 1)
           /\ \/ at' = at /\ message' = message
              \/ at' = "ended" /\ message = "none" /\ message' = "error"
              \/ at' = "blocked" /\ message # "none" /\ message' = message
BY NewClusterAssumption DEF NextRound, Send, ClusterTypes

----------------------------------------------------------------------------
(* The steps of the cluster's goroutine, of the poller and of the cloud.   *)

LEMMA CloudSteps ==
    ASSUME ClusterTypes, ClusterInv, ensureEKSCluterControlPlane \/ CloudChanges
    PROVE  ClusterTypes' /\ ClusterInv'
<1> USE DEF ClusterTypes, ClusterInv, ProgressInv, PollerInv, GroupInv, Usable,
            WithControl, WithGroup, KubectlSteps, AllReady
<1>1. CASE ensureEKSCluterControlPlane
  BY <1>1 DEF ensureEKSCluterControlPlane, Send, Goto, applied, kubectlVars, ClusterSteps
<1>2. CASE CloudChanges
  <2>1. UNCHANGED <<creator, polling, applied, existed, kubectlVars>>
    BY <1>2 DEF CloudChanges
  <2>2. CASE Activated
    BY <2>1, <2>2 DEF Activated, creator, polling, applied, kubectlVars
  <2>3. CASE NodesChange
    BY <2>1, <2>3 DEF NodesChange, creator, polling, applied, kubectlVars
  <2> QED
    BY <1>2, <2>2, <2>3 DEF CloudChanges
<1> QED
  BY <1>1, <1>2

LEMMA WaitSteps ==
    ASSUME ClusterTypes, ClusterInv, Poll \/ ReceiveResult \/ Timeout
    PROVE  ClusterTypes' /\ ClusterInv'
<1> USE DEF ClusterTypes, ClusterInv, ProgressInv, PollerInv, GroupInv, Usable,
            WithControl, WithGroup, KubectlSteps, AllReady, creator, cloud, applied, kubectlVars
<1>1. CASE PollerLoops
  BY <1>1 DEF PollerLoops
<1>2. CASE PollerDescribes
  <2>1. keepTrying' \in BOOLEAN
    BY <1>2 DEF PollerDescribes
  <2>2. /\ poller = "describe" /\ poller' \in {"sendReady", "loop", "sendError"}
        /\ poller' = "sendReady" => control = "active"
    BY <1>2 DEF PollerDescribes
  <2>3. UNCHANGED <<creator, cloud, applied, existed, usable, kubectlVars>>
    BY <1>2 DEF PollerDescribes
  <2>4. ~keepTrying => poller' # "loop" \/ ~keepTrying'
    BY ONLY <1>2, Zenon DEF PollerDescribes
  <2> QED
    BY <2>1, <2>2, <2>3, <2>4
<1>3. CASE ReceiveResult
  BY <1>3 DEF ReceiveResult, Goto, Send, ClusterSteps
<1>4. CASE Timeout
  <2>1. keepTrying' \in BOOLEAN /\ ~keepTrying'
    BY <1>4 DEF Timeout
  <2>2. at = "waitActive" /\ at' = "ended" /\ message' = "error"
    BY <1>4 DEF Timeout, Send
  <2>3. UNCHANGED <<tries, nodeGroup, seen, poller, cloud, applied, existed, usable, kubectlVars>>
    BY <1>4 DEF Timeout
  <2> QED
    BY <2>1, <2>2, <2>3 DEF ClusterSteps
<1> QED
  BY <1>1, <1>2, <1>3, <1>4 DEF Poll

LEMMA CallSteps ==
    ASSUME ClusterTypes, ClusterInv,
           ensureEKSClusterNodeGroup \/ GetEKSClusterKubeConfig \/ RecordConfig
    PROVE  ClusterTypes' /\ ClusterInv'
<1> USE DEF ClusterTypes, ClusterInv, ProgressInv, PollerInv, GroupInv, Usable,
            WithControl, WithGroup, KubectlSteps, AllReady, polling, cloud, applied, kubectlVars,
            Goto, Send, ClusterSteps
<1>1. CASE ensureEKSClusterNodeGroup
  <2>1. group' \in BOOLEAN /\ existed' \in BOOLEAN
    BY <1>1 DEF ensureEKSClusterNodeGroup
  <2>2. /\ at = "nodeGroup"
        /\ nodeGroup' \in {"nil", "set"}
        /\ \/ /\ at' = "getKubeconfig" /\ message' = message
              /\ group' /\ (nodeGroup' = "set" \/ existed')
           \/ /\ at' = "ended" /\ message = "none" /\ message' = "error"
           \/ /\ at' = "blocked" /\ message # "none" /\ message' = message
    BY <1>1 DEF ensureEKSClusterNodeGroup
  <2>3. UNCHANGED <<tries, seen, polling, control, nodes, applied, usable, kubectlVars>>
    BY <1>1 DEF ensureEKSClusterNodeGroup
  <2> QED
    BY <2>1, <2>2, <2>3
<1>2. CASE GetEKSClusterKubeConfig
  BY <1>2 DEF GetEKSClusterKubeConfig
<1>3. CASE RecordConfig
  BY <1>3 DEF RecordConfig
<1> QED
  BY <1>1, <1>2, <1>3

(* kubectl runs.  What it applies is there when it exits without error,    *)
(* and nodes it reports as ready make the cluster usable.                  *)
LEMMA ChildSteps ==
    ASSUME ClusterTypes, ClusterInv, StartKubectl \/ KubectlExits \/ KubectlProceeds
    PROVE  ClusterTypes' /\ ClusterInv'
<1> USE DEF ClusterTypes, ClusterInv, ProgressInv, PollerInv, GroupInv, Usable,
            WithControl, WithGroup, KubectlSteps, AllReady
<1>1. CASE StartKubectl
  BY <1>1, KubectlAssumption
     DEF StartKubectl, Start, creator, polling, cloud, applied
<1>2. CASE KubectlProceeds
  <2>1. UNCHANGED <<creator, polling, cloud, applied, existed, usable>>
    BY <1>2 DEF KubectlProceeds
  <2>2. CASE WriteStderr
    BY <2>1, <2>2, KubectlAssumption DEF WriteStderr, creator, polling, cloud, applied
  <2>3. CASE ReadStdout
    BY <2>1, <2>3 DEF ReadStdout, creator, polling, cloud, applied
  <2> QED
    BY <1>2, <2>2, <2>3 DEF KubectlProceeds
<1>3. CASE KubectlExits
  <2>1. PICK status \in {"ok", "failed"} :
          /\ Exits(status)
          /\ authMap' \in AfterApply(authMap, "authMap", status)
          /\ storageClass' \in AfterApply(storageClass, "storageClass", status)
          /\ seen' = IF at = "nodes" /\ status = "ok" THEN nodes ELSE seen
          /\ usable' = (usable \/ (authMap' /\ nodes.ready = Desired))
          /\ UNCHANGED <<at, tries, nodeGroup, message, polling, cloud, existed>>
    BY <1>3 DEF KubectlExits
  <2>2. /\ authMap' \in BOOLEAN /\ storageClass' \in BOOLEAN
        /\ authMap => authMap'
        /\ storageClass => storageClass'
        /\ at = "authMap" /\ status = "ok" => authMap'
        /\ at = "storageClass" /\ status = "ok" => storageClass'
    BY <2>1 DEF AfterApply
  <2>3. /\ reader' = reader /\ reader # "idle" /\ child' = status
        /\ UNCHANGED <<unwritten, pipe>>
    BY <2>1 DEF Exits
  <2>4. /\ usable => usable'
        /\ authMap' /\ nodes.ready = Desired => usable'
        /\ usable' \in BOOLEAN
    BY <2>1, Zenon
  <2>5. UNCHANGED <<at, tries, nodeGroup, message, keepTrying, poller, control, group, nodes, existed>>
    BY <2>1 DEF polling, cloud
  <2>6. seen' \in NodeCounts
    BY <2>1
  <2>7. AllReady' => usable'
    <3>1. CASE seen' = seen
      BY <2>4, <3>1
    <3>2. CASE at = "nodes" /\ seen' = nodes
      <4>1. authMap'
        BY <2>2, <3>2
      <4>2. AllReady' => nodes.ready = Desired
        BY <3>2
      <4> QED
        BY <2>4, <4>1, <4>2
    <3> QED
      BY <2>1, <3>1, <3>2
  <2> QED
    BY <2>2, <2>3, <2>4, <2>5, <2>6, <2>7
<1> QED
  BY <1>1, <1>2, <1>3

(* runWithOutput has returned.                                             *)
LEMMA ReturnSteps ==
    ASSUME ClusterTypes, ClusterInv,
           \/ waitForAPIServer \/ ensureEKSAuthMap
           \/ waitForNodes \/ ensureEKSDefaultStorageClass
    PROVE  ClusterTypes' /\ ClusterInv'
<1> USE DEF ClusterInv, ProgressInv, PollerInv, GroupInv, Usable,
            WithControl, WithGroup, KubectlSteps, ClusterSteps
<1>1. PICK ok \in BOOLEAN : RunEnds(ok)
  BY DEF waitForAPIServer, ensureEKSAuthMap, waitForNodes, ensureEKSDefaultStorageClass
<1>2. /\ reader' = "idle" /\ child' = "none"
      /\ unwritten' \in 0..MaxStderr /\ pipe' \in 0..PipeSize
  BY <1>1, RunEnded
<1>3. UNCHANGED <<nodeGroup, seen, keepTrying, poller, control, group, nodes,
                  authMap, storageClass, existed, usable>>
  BY DEF waitForAPIServer, ensureEKSAuthMap, waitForNodes, ensureEKSDefaultStorageClass,
         polling, cloud, applied
<1>4. 0 \in 0..(MaxTries - 1)
  BY NewClusterAssumption
<1>5. CASE waitForAPIServer
  <2>1. at = "apiServer"
    BY <1>5 DEF waitForAPIServer
  <2>2. \/ at' = "authMap" /\ message' = message /\ tries' = 0
        \/ NextRound
    BY <1>5 DEF waitForAPIServer, Goto
  <2> QED
    BY <1>2, <1>3, <1>4, <2>1, <2>2, RoundMade DEF ClusterTypes, AllReady
<1>6. CASE ensureEKSAuthMap
  <2>1. /\ at = "authMap" /\ tries' = tries
        /\ \/ at' = "nodes" /\ message' = message /\ child = "ok"
           \/ at' = "ended" /\ message' = "error"
           \/ at' = "blocked" /\ message # "none" /\ message' = message
    BY <1>6, RunEnded DEF ensureEKSAuthMap, Goto, Send, ClusterTypes
  <2> QED
    BY <1>2, <1>3, <2>1 DEF ClusterTypes, AllReady
<1>7. CASE waitForNodes
  <2>1. at = "nodes"
    BY <1>7 DEF waitForNodes
  <2>2. \/ nodeGroup = "nil" /\ at' = "panicked" /\ UNCHANGED <<tries, message>>
        \/ AllReady /\ at' = "storageClass" /\ message' = message /\ tries' = 0
        \/ NextRound
    BY <1>7 DEF waitForNodes, Goto
  <2>3. CASE nodeGroup = "nil" /\ at' = "panicked" /\ UNCHANGED <<tries, message>>
    BY <1>2, <1>3, <2>1, <2>3 DEF ClusterTypes, AllReady
  <2>4. CASE AllReady /\ at' = "storageClass" /\ message' = message /\ tries' = 0
    BY <1>2, <1>3, <1>4, <2>1, <2>4 DEF ClusterTypes, AllReady
  <2>5. CASE NextRound
    BY <1>2, <1>3, <2>1, <2>5, RoundMade DEF ClusterTypes, AllReady
  <2> QED
    BY <2>2, <2>3, <2>4, <2>5
<1>8. CASE ensureEKSDefaultStorageClass
  <2>1. /\ at = "storageClass" /\ tries' = tries
        /\ \/ at' = "ended" /\ message = "none" /\ message' = "ok" /\ child = "ok"
           \/ at' = "ended" /\ message' = "error"
           \/ at' = "blocked" /\ message # "none" /\ message' = message
    BY <1>8, RunEnded DEF ensureEKSDefaultStorageClass, Send, ClusterTypes
  <2> QED
    BY <1>2, <1>3, <2>1 DEF ClusterTypes, AllReady
<1> QED
  BY <1>5, <1>6, <1>7, <1>8

LEMMA CreatorSteps ==
    ASSUME ClusterTypes, ClusterInv, CreatorStep
    PROVE  ClusterTypes' /\ ClusterInv'
BY CloudSteps, WaitSteps, CallSteps, ChildSteps, ReturnSteps DEF CreatorStep

(* Neither the message of a success nor a reason to panic is ever taken    *)
(* back.                                                                   *)
LEMMA MessageStays ==
    ASSUME ClusterInv, CreatorStep \/ Poll \/ CloudChanges, message = "ok"
    PROVE  message' = "ok"
<1>1. at = "ended"
  BY DEF ClusterInv, ProgressInv
<1>2. CASE CreatorStep
  <2>1. KubectlExits \/ KubectlProceeds
    BY <1>1, <1>2
       DEF CreatorStep, ensureEKSCluterControlPlane, ReceiveResult, Timeout,
           ensureEKSClusterNodeGroup, GetEKSClusterKubeConfig, RecordConfig, StartKubectl,
           KubectlSteps, waitForAPIServer, ensureEKSAuthMap, waitForNodes,
           ensureEKSDefaultStorageClass
  <2> QED
    BY <2>1 DEF KubectlExits, KubectlProceeds, creator
<1>3. CASE Poll \/ CloudChanges
  BY <1>3 DEF Poll, PollerLoops, PollerDescribes, CloudChanges, creator
<1> QED
  BY <1>2, <1>3

LEMMA ReasonStays ==
    ASSUME CreatorStep \/ Poll \/ CloudChanges, existed
    PROVE  existed'
BY DEF CreatorStep, ensureEKSCluterControlPlane, ReceiveResult, Timeout,
       ensureEKSClusterNodeGroup, GetEKSClusterKubeConfig, RecordConfig, StartKubectl,
       KubectlExits, KubectlProceeds, waitForAPIServer, ensureEKSAuthMap, waitForNodes,
       ensureEKSDefaultStorageClass, Poll, PollerLoops, PollerDescribes, CloudChanges

----------------------------------------------------------------------------
(* The command.  A step of the cluster leaves the thread alone, and a step *)
(* of the command or of the thread leaves the cluster alone, except that   *)
(* Create may fail before it has begun.                                    *)

ClusterStep == (CreatorStep \/ Poll \/ CloudChanges) /\ UNCHANGED <<testError, slackVars>>

LEMMA StepKinds ==
    ASSUME [Next]_vars
    PROVE  \/ ClusterStep /\ (main' = main \/ (main' = "panicked" /\ at' = "panicked"))
           \/ CreateFails
           \/ UNCHANGED clusterVars
<1>1. CASE ClusterRuns
  BY <1>1 DEF ClusterRuns, ClusterStep
<1>2. CASE PollerRuns \/ WorldChanges
  BY <1>2 DEF PollerRuns, WorldChanges, ClusterStep
<1>3. CASE StartThread \/ CreateReturns \/ FinishThread \/ Exit \/ MonitorRuns \/ SlackAnswers
  BY <1>3 DEF StartThread, CreateReturns, FinishThread, Exit, MonitorRuns, SlackAnswers
<1> QED
  BY <1>1, <1>2, <1>3 DEF Next, vars

LEMMA UnchangedCluster ==
    ASSUME UNCHANGED clusterVars
    PROVE  /\ ClusterTypes <=> ClusterTypes'
           /\ ClusterInv <=> ClusterInv'
           /\ message' = message /\ existed' = existed /\ at' = at
BY DEF clusterVars, creator, polling, cloud, applied, kubectlVars, ClusterTypes, ClusterInv,
       ProgressInv, PollerInv, GroupInv, Usable, AllReady

LEMMA NextCluster == IInv /\ [Next]_vars => ClusterTypes' /\ ClusterInv'
<1> SUFFICES ASSUME IInv, [Next]_vars PROVE ClusterTypes' /\ ClusterInv'
  OBVIOUS
<1>0. ClusterTypes /\ ClusterInv
  BY TypeHalves DEF IInv
<1>1. CASE ClusterStep
  BY <1>0, <1>1, CreatorSteps, WaitSteps, CloudSteps DEF ClusterStep
<1>2. CASE CreateFails
  BY <1>0, <1>2
     DEF CreateFails, ClusterTypes, ClusterInv, ProgressInv, PollerInv, GroupInv,
         Usable, WithControl, WithGroup, KubectlSteps, AllReady, ClusterSteps, polling, cloud,
         applied, kubectlVars
<1>3. CASE UNCHANGED clusterVars
  BY <1>0, <1>3, UnchangedCluster
<1> QED
  BY <1>1, <1>2, <1>3, StepKinds

LEMMA NextCommandTypes == IInv /\ [Next]_vars => CommandTypes'
<1> SUFFICES ASSUME IInv, [Next]_vars PROVE CommandTypes'
  OBVIOUS
<1>0. CommandTypes
  BY TypeHalves DEF IInv
<1> USE DEF CommandTypes, Texts
<1>1. CASE UNCHANGED slackVars /\ UNCHANGED testError
           /\ main' \in {main, "create", "exited", "panicked"}
  BY <1>0, <1>1 DEF slackVars
<1>2. CASE StartThread
  BY <1>0, <1>2 DEF StartThread, ThreadStarts, ThreadFails, slackVars
<1>3. CASE CreateFails
  BY <1>0, <1>3 DEF CreateFails, slackVars
<1>4. CASE CreateReturns
  <2>1. testError' \in BOOLEAN
    BY <1>4 DEF CreateReturns
  <2>2. main' = "finish" /\ UNCHANGED slackVars
    BY <1>4 DEF CreateReturns
  <2> QED
    BY <1>0, <2>1, <2>2 DEF slackVars
<1>5. CASE FinishThread
  <2>1. late' \in BOOLEAN
    <3>1. late \in BOOLEAN
      BY <1>0
    <3>2. late' = late \/ late' = (monitor \in InFlight)
      BY <1>5 DEF FinishThread, NoThread, CloseThread, FinishAnswered
    <3>3. CASE late' = late
      BY ONLY <3>1, <3>3
    <3>4. CASE late' = (monitor \in InFlight)
      BY ONLY <3>4
    <3> QED
      BY <3>2, <3>3, <3>4
  <2>2. /\ UNCHANGED <<main, testError, client, monitor, text>>
        /\ threadDone' \in {threadDone, "closed"}
        /\ finish' \in {"returned", "update"}
    BY <1>5 DEF FinishThread, NoThread, CloseThread, FinishAnswered
  <2> QED
    BY <1>0, <2>1, <2>2
<1>6. CASE MonitorRuns
  BY <1>0, <1>6
     DEF MonitorRuns, Monitor, TimerFires, UpdateSpinner, SpinnerAnswered, MonitorReturns
<1>7. CASE SlackAnswers
  BY <1>0, <1>7 DEF SlackAnswers, SpinnerArrives, FinishArrives, Mark
<1> QED
  BY <1>1, <1>2, <1>3, <1>4, <1>5, <1>6, <1>7
     DEF Next, vars, Exit, ClusterRuns, PollerRuns, WorldChanges

LEMMA NextVerdict == IInv /\ [Next]_vars => VerdictInv'
<1> SUFFICES ASSUME IInv, [Next]_vars PROVE VerdictInv'
  OBVIOUS
<1>0. ClusterTypes /\ ClusterInv /\ CommandTypes /\ VerdictInv
  BY TypeHalves DEF IInv
<1> USE DEF VerdictInv
<1>1. CASE ClusterStep /\ (main' = main \/ main' = "panicked")
  <2>1. message = "ok" => message' = "ok"
    BY <1>0, <1>1, MessageStays DEF ClusterStep
  <2> QED
    BY <1>0, <1>1, <2>1 DEF ClusterStep, slackVars
<1>2. CASE CreateFails
  <2>1. testError' = TRUE /\ UNCHANGED <<message, slackVars>>
    BY <1>2 DEF CreateFails
  <2> QED
    BY <1>0, <2>1 DEF slackVars
<1>3. CASE StartThread
  BY <1>0, <1>3, UnchangedCluster DEF StartThread, ThreadStarts, ThreadFails, slackVars
<1>4. CASE CreateReturns
  <2>1. message # "none" /\ UNCHANGED <<message, slackVars>>
    BY <1>4, UnchangedCluster DEF CreateReturns
  <2>2. ~testError' => message # "error"
    BY <1>4, Zenon DEF CreateReturns
  <2> QED
    BY <1>0, <2>1, <2>2 DEF ClusterTypes, slackVars
<1>5. CASE FinishThread
  <2>1. main = "finish" /\ UNCHANGED <<main, testError, text, message>>
    BY <1>5, UnchangedCluster DEF FinishThread, NoThread, CloseThread, FinishAnswered
  <2> QED
    BY <1>0, <2>1
<1>6. CASE Exit \/ MonitorRuns
  <2>1. /\ main' = main \/ main = "finish"
        /\ UNCHANGED <<testError, finish, text, message>>
    BY <1>6, UnchangedCluster
       DEF Exit, MonitorRuns, Monitor, TimerFires, UpdateSpinner, SpinnerAnswered,
           MonitorReturns, slackVars
  <2> QED
    BY <1>0, <2>1
<1>7. CASE SlackAnswers
  <2>1. UNCHANGED <<main, testError, message>>
    BY <1>7, UnchangedCluster DEF SlackAnswers
  <2>2. CASE SpinnerArrives
    BY <1>0, <2>1, <2>2 DEF SpinnerArrives
  <2>3. CASE FinishArrives(Mark)
    BY <1>0, <2>1, <2>3 DEF FinishArrives, Mark
  <2> QED
    BY <1>7, <2>2, <2>3 DEF SlackAnswers
<1>8. CASE UNCHANGED vars
  BY <1>0, <1>8, UnchangedCluster DEF vars, slackVars
<1>9. \/ ClusterStep /\ (main' = main \/ main' = "panicked")
      \/ CreateFails \/ StartThread \/ CreateReturns \/ FinishThread \/ Exit
      \/ MonitorRuns \/ SlackAnswers \/ UNCHANGED vars
  BY DEF Next, ClusterStep, ClusterRuns, PollerRuns, WorldChanges
<1> QED
  BY <1>1, <1>2, <1>3, <1>4, <1>5, <1>6, <1>7, <1>8, <1>9

(* The thread.                                                             *)
LEMMA NextThread == IInv /\ [Next]_vars => ThreadInv'
<1> SUFFICES ASSUME IInv, [Next]_vars PROVE ThreadInv'
  OBVIOUS
<1>0. CommandTypes /\ ThreadInv
  BY TypeHalves DEF IInv
<1> USE DEF ThreadInv, InFlight
<1>1. CASE UNCHANGED slackVars /\ (main' = "start" => main = "start")
  BY <1>0, <1>1 DEF slackVars
<1>2. CASE StartThread
  BY <1>0, <1>2 DEF StartThread, ThreadStarts, ThreadFails, slackVars
<1>3. CASE FinishThread
  <2>1. CASE finish = "no" /\ NoThread
    BY <1>0, <1>3, <2>1 DEF FinishThread, NoThread
  <2>2. CASE finish = "no" /\ CloseThread
    <3>1. monitor \in InFlight => late'
      BY <2>2, Zenon DEF CloseThread
    <3>2. /\ threadDone = "open" /\ threadDone' = "closed" /\ finish' = "update"
          /\ UNCHANGED <<monitor, text>>
      BY <2>2 DEF CloseThread
    <3>3. main = "finish" /\ main' = main
      BY <1>3 DEF FinishThread
    <3> QED
      BY <1>0, <2>2, <3>1, <3>2, <3>3
  <2>3. CASE FinishAnswered
    BY <1>0, <1>3, <2>3 DEF FinishThread, FinishAnswered
  <2> QED
    BY <1>3, <2>1, <2>2, <2>3 DEF FinishThread
<1>4. CASE MonitorRuns
  BY <1>0, <1>4
     DEF MonitorRuns, Monitor, TimerFires, UpdateSpinner, SpinnerAnswered, MonitorReturns
<1>5. CASE SlackAnswers
  BY <1>0, <1>5 DEF SlackAnswers, SpinnerArrives, FinishArrives, Mark
<1> QED
  BY <1>1, <1>2, <1>3, <1>4, <1>5
     DEF Next, vars, CreateFails, CreateReturns, Exit, ClusterRuns, PollerRuns, WorldChanges

LEMMA NextPanics == IInv /\ [Next]_vars => PanicsKnown'
<1> SUFFICES ASSUME IInv, [Next]_vars PROVE PanicsKnown'
  OBVIOUS
<1>1. CASE ClusterStep /\ (main' = main \/ (main' = "panicked" /\ at' = "panicked"))
  <2>1. existed => existed'
    BY <1>1, ReasonStays DEF ClusterStep
  <2>2. at' = "panicked" => existed'
    BY NextCluster DEF ClusterInv, GroupInv
  <2>3. client' = client
    BY <1>1 DEF ClusterStep, slackVars
  <2> QED
    BY <1>1, <2>1, <2>2, <2>3 DEF IInv, PanicsKnown
<1>2. CASE CreateFails
  BY <1>2 DEF CreateFails, PanicsKnown
<1>3. CASE UNCHANGED clusterVars
  <2>1. client' = client
    BY <1>3 DEF Next, vars, StartThread, ThreadStarts, ThreadFails, CreateFails, CreateReturns,
                FinishThread, NoThread, CloseThread, FinishAnswered, Exit, ClusterRuns,
                PollerRuns, MonitorRuns, Monitor, TimerFires, UpdateSpinner, SpinnerAnswered,
                MonitorReturns, SlackAnswers, SpinnerArrives, FinishArrives, WorldChanges,
                slackVars
  <2>2. existed' = existed /\ at' = at
    BY <1>3, UnchangedCluster
  <2>3. main' = "panicked" => main = "panicked" \/ ~client \/ at' = "panicked"
    BY DEF Next, vars, StartThread, CreateFails, CreateReturns, FinishThread, Exit, ClusterRuns,
           PollerRuns, MonitorRuns, SlackAnswers, WorldChanges
  <2>4. at' = "panicked" => existed'
    BY NextCluster DEF ClusterInv, GroupInv
  <2> QED
    BY <2>1, <2>2, <2>3, <2>4 DEF IInv, PanicsKnown
<1> QED
  BY <1>1, <1>2, <1>3, StepKinds

LEMMA InitIInv == Init => IInv
<1> SUFFICES ASSUME Init PROVE IInv
  OBVIOUS
<1> USE DEF Init, ClusterInit, KubectlInit, SlackInit
<1>1. ClusterTypes
  <2>1. NoNodes \in NodeCounts
    BY NewClusterAssumption DEF NodeCounts, NoNodes
  <2>2. 0 \in 0..(MaxTries - 1) /\ 0 \in 0..MaxStderr /\ 0 \in 0..PipeSize
    BY NewClusterAssumption, KubectlAssumption
  <2>3. /\ keepTrying \in BOOLEAN /\ group \in BOOLEAN /\ authMap \in BOOLEAN
        /\ storageClass \in BOOLEAN /\ existed \in BOOLEAN /\ usable \in BOOLEAN
    OBVIOUS
  <2> QED
    BY <2>1, <2>2, <2>3 DEF ClusterTypes, ClusterSteps
<1>2. CommandTypes
  BY DEF CommandTypes, Texts
<1>3. ClusterInv
  BY NewClusterAssumption
     DEF ClusterInv, ProgressInv, PollerInv, GroupInv, WithControl, WithGroup,
         KubectlSteps, AllReady, NoNodes
<1>4. VerdictInv /\ ThreadInv /\ PanicsKnown
  BY DEF VerdictInv, ThreadInv, PanicsKnown
<1> QED
  BY <1>1, <1>2, <1>3, <1>4, TypeHalves DEF IInv

(* The whole invariant.                                                    *)
THEOREM Invariance == Spec => []IInv
<1>1. IInv /\ [Next]_vars => IInv'
  <2> SUFFICES ASSUME IInv, [Next]_vars PROVE IInv'
    OBVIOUS
  <2>1. ClusterTypes' /\ CommandTypes'
    BY NextCluster, NextCommandTypes
  <2>2. TypeOK'
    BY <2>1 DEF TypeOK, ClusterTypes, CommandTypes
  <2> QED
    BY <2>2, NextCluster, NextVerdict, NextThread, NextPanics DEF IInv
<1> QED
  BY <1>1, InitIInv, PTL DEF Spec

----------------------------------------------------------------------------
(* The theorems.                                                           *)

(* Every variable holds what the code can put there, for any number of     *)
(* rounds of the waiting loops and any size of the node group.             *)
THEOREM TypeCorrect == Spec => []TypeOK
BY Invariance, PTL DEF IInv

(* A check mark, or an exit without error, means an active control plane,  *)
(* a storage class, and nodes that were all ready with aws-auth applied,   *)
(* however often kubectl and AWS have failed on the way.                   *)
THEOREM ChecksAreDeserved == Spec => []CheckMeansUsable
<1>1. IInv => CheckMeansUsable
  BY DEF IInv, VerdictInv, ClusterInv, ProgressInv, Usable, CheckMeansUsable
<1> QED
  BY <1>1, Invariance, PTL

(* The process panics without a Slack client, or over a node group that is *)
(* said to exist, and for no other reason.                                 *)
THEOREM PanicsAreKnown == Spec => []PanicsKnown
BY Invariance, PTL DEF IInv

(* Polling stops with the wait for the control plane, also when that has   *)
(* timed out with the poller asleep or in the middle of a call.            *)
THEOREM PollersStop == Spec => PollingStops
<1> DEFINE Stops == at \notin {"controlPlane", "waitActive"} /\ poller # "describe"
                      => poller' # "describe"
<1>1. ASSUME IInv, [Next]_vars PROVE [Stops]_vars
  <2>1. PollerInv
    BY <1>1 DEF IInv, ClusterInv
  <2>2. CASE PollerLoops
    BY <2>1, <2>2 DEF PollerLoops, PollerInv
  <2>3. CASE PollerDescribes
    BY <2>3 DEF PollerDescribes
  <2>4. CASE CreatorStep
    <3>1. poller' = poller \/ poller' \in {"loop", "exited"}
      BY <2>4 DEF CreatorStep, ensureEKSCluterControlPlane, ReceiveResult, Timeout,
                  ensureEKSClusterNodeGroup, GetEKSClusterKubeConfig, RecordConfig, StartKubectl,
                  KubectlExits, KubectlProceeds, waitForAPIServer, ensureEKSAuthMap,
                  waitForNodes, ensureEKSDefaultStorageClass, polling
    <3> QED
      BY <3>1
  <2>5. CASE CloudChanges \/ CreateFails \/ UNCHANGED clusterVars
    BY <2>5 DEF CloudChanges, CreateFails, clusterVars, polling
  <2> QED
    BY <1>1, <2>2, <2>3, <2>4, <2>5, StepKinds DEF ClusterStep, Poll
<1> QED
  BY <1>1, Invariance, PTL DEF Spec, PollingStops

(* A mark in Slack is replaced only by a spinner that was due or on its    *)
(* way when FinishThread closed the channel.                               *)
THEOREM MarksStay == Spec => MarkStays
<1> DEFINE Stays == text \in {"check", "cross"} /\ text' # text => late
<1>1. ASSUME IInv, [Next]_vars PROVE [Stays]_vars
  <2>1. ThreadInv
    BY <1>1 DEF IInv
  <2>2. CASE StartThread
    BY <2>1, <2>2 DEF StartThread, ThreadInv, slackVars
  <2>3. CASE SpinnerArrives
    BY <2>1, <2>3 DEF SpinnerArrives, ThreadInv, InFlight
  <2>4. CASE FinishArrives(Mark)
    BY <2>1, <2>4 DEF FinishArrives, ThreadInv
  <2>5. \/ StartThread \/ SpinnerArrives \/ FinishArrives(Mark) \/ text' = text
    BY <1>1 DEF Next, vars, CreateFails, CreateReturns, FinishThread, NoThread, CloseThread,
                FinishAnswered, Exit, ClusterRuns, PollerRuns, MonitorRuns, Monitor, TimerFires,
                UpdateSpinner, SpinnerAnswered, MonitorReturns, SlackAnswers, WorldChanges,
                slackVars
  <2> QED
    BY <2>2, <2>3, <2>4, <2>5
<1> QED
  BY <1>1, Invariance, PTL DEF Spec, MarkStays
=============================================================================
