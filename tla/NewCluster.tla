----------------------------- MODULE NewCluster -----------------------------
(***************************************************************************)
(* One new EKS cluster, from CreateCluster on: createNewEKSCluter and the  *)
(* waiting functions of pkg/kgrid/grid/create.go and eks.go, which         *)
(* GridCreate has as steps that succeed or fail.  The goroutine polls the  *)
(* control plane with a second goroutine, and runs kubectl against the     *)
(* cluster, some of it in loops of MaxTries rounds (24 in the code).       *)
(*                                                                         *)
(* AWS and the cluster are external: they change, or do not, by themselves.*)
(***************************************************************************)
EXTENDS Kubectl

CONSTANTS
    MaxTries,    \* rounds of waitForAPIServer and waitForNodes
    Desired      \* the size of the node group

ASSUME NewClusterAssumption == MaxTries \in Nat \ {0} /\ Desired \in Nat \ {0}

VARIABLES
    at,           \* the next step of createNewEKSCluter
    tries,        \* the rounds that a waiting loop has made
    nodeGroup,    \* the node group in hand: "nil" or "set"
    message,      \* the first message on completedCh: "none", "ok" or "error"
    keepTrying,   \* the variable that the goroutine and its poller share
    poller,       \* where the poller is
    seen,         \* the nodes that the last GetNodes has returned
    control,      \* external: the control plane: "none", "creating" or "active"
    group,        \* external: whether there is a node group
    nodes,        \* external: the nodes that have joined, and how many are ready
    authMap,      \* external: whether aws-auth has been applied
    storageClass, \* external: whether there is a default storage class
    existed,      \* history: CreateNodegroup has said that the node group exists
    usable        \* history: all nodes were ready at once, with aws-auth applied

creator == <<at, tries, nodeGroup, message, seen>>
polling == <<keepTrying, poller>>
cloud == <<control, group, nodes>>
applied == <<authMap, storageClass>>
clusterVars == <<creator, polling, cloud, applied, existed, usable, kubectlVars>>

ClusterSteps == {"controlPlane", "waitActive", "nodeGroup", "getKubeconfig", "record",
                 "apiServer", "authMap", "nodes", "storageClass", "ended", "blocked", "panicked"}
NodeCounts == {n \in [items : 0..Desired, ready : 0..Desired] : n.ready <= n.items}
NoNodes == [items |-> 0, ready |-> 0]

ClusterInit ==
    /\ at = "controlPlane"
    /\ tries = 0
    /\ nodeGroup = "nil"
    /\ message = "none"
    /\ keepTrying = TRUE
    /\ poller = "off"
    /\ seen = NoNodes
    /\ control = "none"
    /\ group = FALSE
    /\ nodes = NoNodes
    /\ authMap = FALSE
    /\ storageClass = FALSE
    /\ existed = FALSE
    /\ usable = FALSE
    /\ KubectlInit

----------------------------------------------------------------------------
(* A message ends the goroutine; if Create has had one already, nobody     *)
(* receives it and the goroutine blocks.                                   *)
Send(text) ==
    IF message = "none"
    THEN message' = text /\ at' = "ended"
    ELSE at' = "blocked" /\ UNCHANGED message

Goto(step) == at' = step /\ UNCHANGED message

----------------------------------------------------------------------------
(* The AWS calls.  An error may come back although the call was carried    *)
(* out; that the thing exists already is not taken for an error.           *)
ensureEKSCluterControlPlane ==
    /\ at = "controlPlane"
    /\ \/ /\ control' = "creating"
          /\ Goto("waitActive")
          /\ poller' = "loop"
       \/ /\ control' \in {"none", "creating"}
          /\ Send("error")
          /\ UNCHANGED poller
    /\ UNCHANGED <<tries, nodeGroup, seen, keepTrying, group, nodes, applied, existed, usable, kubectlVars>>

ensureEKSClusterNodeGroup_AnyError ==
    /\ at = "nodeGroup"
    /\ \/ /\ group' = TRUE
          /\ nodeGroup' = "set"
          /\ Goto("getKubeconfig")
          /\ UNCHANGED existed
       \/ /\ group' = TRUE
          /\ existed' = TRUE
          /\ Goto("getKubeconfig")
          /\ UNCHANGED nodeGroup
       \/ /\ group' \in BOOLEAN
          /\ Goto("getKubeconfig")
          /\ UNCHANGED <<nodeGroup, existed>>
    /\ UNCHANGED <<tries, seen, polling, control, nodes, applied, usable, kubectlVars>>

ensureEKSClusterNodeGroup ==
    /\ at = "nodeGroup"
    /\ \/ /\ group' = TRUE
          /\ nodeGroup' = "set"
          /\ Goto("getKubeconfig")
          /\ UNCHANGED existed
       \/ /\ group' = TRUE
          /\ existed' = TRUE
          /\ Goto("getKubeconfig")
          /\ UNCHANGED nodeGroup
       \/ /\ group' \in BOOLEAN
          /\ Send("error")
          /\ UNCHANGED <<nodeGroup, existed>>
    /\ UNCHANGED <<tries, seen, polling, control, nodes, applied, usable, kubectlVars>>

GetEKSClusterKubeConfig ==
    /\ at = "getKubeconfig"
    /\ Goto("record") \/ Send("error")
    /\ UNCHANGED <<tries, nodeGroup, seen, polling, cloud, applied, existed, usable, kubectlVars>>

(* The entry in the config file.  The return after an error only leaves    *)
(* the closure: the goroutine has sent its message and goes on.            *)
RecordConfig ==
    /\ at = "record"
    /\ at' = "apiServer"
    /\ message' \in {message, "error"}
    /\ UNCHANGED <<tries, nodeGroup, seen, polling, cloud, applied, existed, usable, kubectlVars>>

----------------------------------------------------------------------------
(* waitForClusterToBeActive.  The poller and the select on its result; the *)
(* 20 minutes may be over at any time.                                     *)
PollerLoops ==
    /\ poller = "loop"
    /\ poller' = IF keepTrying THEN "describe" ELSE "exited"
    /\ UNCHANGED <<creator, keepTrying, cloud, applied, existed, usable, kubectlVars>>

PollerDescribes ==
    /\ poller = "describe"
    /\ \/ /\ control = "active"
          /\ keepTrying' = FALSE
          /\ poller' = "sendReady"
       \/ /\ control = "creating"
          /\ poller' = "loop"
          /\ UNCHANGED keepTrying
       \/ /\ poller' = "sendError"
          /\ UNCHANGED keepTrying
    /\ UNCHANGED <<creator, cloud, applied, existed, usable, kubectlVars>>

ReceiveResult_PollerGoesOn ==
    /\ at = "waitActive"
    /\ poller \in {"sendReady", "sendError"}
    /\ poller' = "loop"
    /\ IF poller = "sendReady" THEN Goto("nodeGroup") ELSE Send("error")
    /\ UNCHANGED <<tries, nodeGroup, seen, keepTrying, cloud, applied, existed, usable, kubectlVars>>

ReceiveResult ==
    /\ at = "waitActive"
    /\ poller \in {"sendReady", "sendError"}
    /\ poller' = "exited"
    /\ IF poller = "sendReady" THEN Goto("nodeGroup") ELSE Send("error")
    /\ UNCHANGED <<tries, nodeGroup, seen, keepTrying, cloud, applied, existed, usable, kubectlVars>>

Timeout_KeepsPolling ==
    /\ at = "waitActive"
    /\ Send("error")
    /\ UNCHANGED <<tries, nodeGroup, seen, polling, cloud, applied, existed, usable, kubectlVars>>

Timeout ==
    /\ at = "waitActive"
    /\ keepTrying' = FALSE
    /\ Send("error")
    /\ UNCHANGED <<tries, nodeGroup, seen, poller, cloud, applied, existed, usable, kubectlVars>>

----------------------------------------------------------------------------
(* The steps that run kubectl.                                             *)
KubectlSteps == {"apiServer", "authMap", "nodes", "storageClass"}

StartKubectl ==
    /\ at \in KubectlSteps
    /\ Start
    /\ UNCHANGED <<creator, polling, cloud, applied, existed, usable>>

(* An Apply that fails may have been carried out.                          *)
AfterApply(done, step, status) ==
    IF at # step THEN {done} ELSE IF status = "ok" THEN {TRUE} ELSE {done, TRUE}

KubectlExits ==
    \E status \in {"ok", "failed"} :
        /\ Exits(status)
        /\ authMap' \in AfterApply(authMap, "authMap", status)
        /\ storageClass' \in AfterApply(storageClass, "storageClass", status)
        /\ seen' = IF at = "nodes" /\ status = "ok" THEN nodes ELSE seen
        /\ usable' = (usable \/ (authMap' /\ nodes.ready = Desired))
        /\ UNCHANGED <<at, tries, nodeGroup, message, polling, cloud, existed>>

KubectlProceeds ==
    /\ WriteStderr \/ ReadStdout
    /\ UNCHANGED <<creator, polling, cloud, applied, existed, usable>>

(* runWithOutput has returned, or could not even start kubectl.            *)
RunEnds(ok) ==
    \/ Returns /\ ok = (child = "ok")
    \/ /\ reader = "idle"
       /\ ok = FALSE
       /\ UNCHANGED kubectlVars

(* A round of a waiting loop that did not end it: sleep, or time out.      *)
NextRound_NoLimit ==
    /\ tries' = (tries + 1) % MaxTries
    /\ UNCHANGED <<at, message>>

NextRound ==
    \/ /\ tries + 1 < MaxTries
       /\ tries' = tries + 1
       /\ UNCHANGED <<at, message>>
    \/ /\ tries + 1 = MaxTries
       /\ tries' = 0
       /\ Send("error")

(* "cluster-info" must say that the control plane is running.              *)
waitForAPIServer ==
    /\ at = "apiServer"
    /\ \E ok \in BOOLEAN :
         /\ RunEnds(ok)
         /\ \/ ok /\ Goto("authMap") /\ tries' = 0
            \/ NextRound
    /\ UNCHANGED <<nodeGroup, seen, polling, cloud, applied, existed, usable>>

ensureEKSAuthMap ==
    /\ at = "authMap"
    /\ \E ok \in BOOLEAN :
         RunEnds(ok) /\ IF ok THEN Goto("nodes") ELSE Send("error")
    /\ UNCHANGED <<tries, nodeGroup, seen, polling, cloud, applied, existed, usable>>

ensureEKSDefaultStorageClass ==
    /\ at = "storageClass"
    /\ \E ok \in BOOLEAN :
         RunEnds(ok) /\ Send(IF ok THEN "ok" ELSE "error")
    /\ UNCHANGED <<tries, nodeGroup, seen, polling, cloud, applied, existed, usable>>

(* The nodes must be as many as the node group is to have, and all ready.  *)
(* Without a node group in hand its size is read through a nil pointer.    *)
AllReady_AnySize == seen.items = seen.ready
AllReady == seen.items = Desired /\ seen.items = seen.ready

waitForNodes ==
    /\ at = "nodes"
    /\ \E ok \in BOOLEAN :
         /\ RunEnds(ok)
         /\ \/ /\ ok /\ nodeGroup = "nil"
               /\ at' = "panicked"
               /\ UNCHANGED <<tries, message>>
            \/ /\ ok /\ nodeGroup = "set" /\ AllReady
               /\ Goto("storageClass")
               /\ tries' = 0
            \/ /\ ~ok \/ (nodeGroup = "set" /\ ~AllReady)
               /\ NextRound
    /\ UNCHANGED <<nodeGroup, seen, polling, cloud, applied, existed, usable>>

----------------------------------------------------------------------------
(* AWS and the cluster.                                                    *)
Activated ==
    /\ control = "creating"
    /\ control' = "active"
    /\ UNCHANGED <<group, nodes, usable>>

NodesChange ==
    /\ group
    /\ nodes' \in NodeCounts
    /\ nodes'.items >= nodes.items
    /\ usable' = (usable \/ (authMap /\ nodes'.ready = Desired))
    /\ UNCHANGED <<control, group>>

CloudChanges ==
    /\ Activated \/ NodesChange
    /\ UNCHANGED <<creator, polling, applied, existed, kubectlVars>>

Poll == PollerLoops \/ PollerDescribes

CreatorStep ==
    \/ ensureEKSCluterControlPlane \/ ReceiveResult \/ Timeout
    \/ ensureEKSClusterNodeGroup \/ GetEKSClusterKubeConfig \/ RecordConfig
    \/ StartKubectl \/ KubectlExits \/ KubectlProceeds
    \/ waitForAPIServer \/ ensureEKSAuthMap \/ waitForNodes \/ ensureEKSDefaultStorageClass
=============================================================================
