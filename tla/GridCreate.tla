----------------------------- MODULE GridCreate -----------------------------
(***************************************************************************)
(* grid.Create (pkg/kgrid/grid/create.go): the clusters of a grid are      *)
(* created in parallel, one goroutine and one unbuffered channel each.  A  *)
(* collector goroutine receives from all channels and tells Create when    *)
(* every cluster has reported.  The goroutines share the config file under *)
(* a mutex, and some of them report while they hold it.                    *)
(*                                                                         *)
(* An AWS or kubectl call with its retries is one step that succeeds or    *)
(* fails.                                                                  *)
(***************************************************************************)
CONSTANTS
    Clusters,    \* the clusters of the grid's spec
    Kind,        \* per cluster: a new EKS cluster, an existing one, neither
    Nobody       \* no holder of the mutex

Kinds == {"new", "existing", "unknown"}

ASSUME KindAssumption ==
    /\ Kind \in [Clusters -> Kinds]
    /\ Nobody \notin Clusters

VARIABLES
    main,         \* where Create is: "addGrid", "wait" or "returned"
    result,       \* what Create has returned: "none" yet, "nil" or "error"
    collector,    \* "select", "finish" (sending on finished) or "exited"
    completed,    \* the clusters that have reported
    createErrors, \* the clusters that have reported an error
    at,           \* per cluster, the next step of its goroutine
    channel,      \* per cluster, the message its goroutine is blocked on
    kubeconfig,   \* per cluster, whether a kubeconfig was obtained
    lock,         \* the holder of the config mutex
    file,         \* the config file
    copy          \* per cluster, the config it has loaded

creators == <<at, channel, kubeconfig>>
config == <<lock, file, copy>>
vars == <<main, result, collector, completed, createErrors, creators, config>>

(* A message on completedCh: the empty string, or an error text.           *)
NoMessage == "nothing"
Success == ""
Failure == "error"

(* The grid's part of the config file: whether the grid is in it, and its   *)
(* entry for each cluster (with or without the kubeconfig).                 *)
Entries == {"none", "complete", "without kubeconfig"}
Files == [grid : BOOLEAN, entry : [Clusters -> Entries]]
EmptyFile == [grid |-> FALSE, entry |-> [c \in Clusters |-> "none"]]

----------------------------------------------------------------------------
(* The straight path through createNewEKSCluter, connectExistingEKSCluster *)
(* and the two functions that find neither.                                *)
After ==
  [new      |-> [credentials |-> "vpc", vpc |-> "controlPlane",
                 controlPlane |-> "waitActive", waitActive |-> "nodeGroup",
                 nodeGroup |-> "getKubeconfig", getKubeconfig |-> "lock",
                 lock |-> "load", load |-> "save", save |-> "unlock",
                 unlock |-> "apiServer", apiServer |-> "authMap", authMap |-> "nodes",
                 nodes |-> "storageClass", storageClass |-> "report", report |-> "done"],
   existing |-> [credentials |-> "secretKey", secretKey |-> "getKubeconfig",
                 getKubeconfig |-> "lock",
                 lock |-> "load", load |-> "save", save |-> "report",
                 report |-> "unlock", unlock |-> "done"],
   unknown  |-> [report |-> "done"]]

First == [new |-> "credentials", existing |-> "credentials", unknown |-> "report"]

(* Where a goroutine goes on after it has reported the error of a step: a  *)
(* new cluster's returns, except from the closure that holds the mutex;    *)
(* an existing cluster's goes on as if nothing had happened, except after  *)
(* a failed load.                                                          *)
AfterError(kind, step) ==
    IF step = "load" THEN "unlock"
    ELSE IF kind = "existing" \/ step = "save" THEN After[kind][step]
    ELSE "done"

Steps == {"credentials", "secretKey", "vpc", "controlPlane", "waitActive", "nodeGroup",
          "getKubeconfig", "lock", "load", "save", "unlock", "apiServer", "authMap",
          "nodes", "storageClass", "report", "done"}
CloudSteps == {"credentials", "secretKey", "vpc", "controlPlane", "waitActive", "nodeGroup",
               "getKubeconfig", "apiServer", "authMap", "nodes", "storageClass"}

Init ==
    /\ main = "addGrid"
    /\ result = "none"
    /\ collector = "select"
    /\ completed = {}
    /\ createErrors = {}
    /\ at = [c \in Clusters |-> "not started"]
    /\ channel = [c \in Clusters |-> NoMessage]
    /\ kubeconfig = [c \in Clusters |-> FALSE]
    /\ lock = Nobody
    /\ file \in {EmptyFile, [EmptyFile EXCEPT !.grid = TRUE]}
    /\ copy = [c \in Clusters |-> EmptyFile]

----------------------------------------------------------------------------
(* Create itself.                                                          *)

(* addGridToConfig and the go statements.  Nothing else uses the config    *)
(* yet.  A grid of that name in the file is an error, as is a file that    *)
(* cannot be read or written (a failed write may leave it truncated).      *)
AddGrid ==
    /\ main = "addGrid"
    /\ ~file.grid
    /\ file' = [file EXCEPT !.grid = TRUE]
    /\ main' = "wait"
    /\ at' = [c \in Clusters |-> First[Kind[c]]]
    /\ UNCHANGED <<result, collector, completed, createErrors, channel, kubeconfig, lock, copy>>

AddGridFails ==
    /\ main = "addGrid"
    /\ main' = "returned"
    /\ result' = "error"
    /\ file' \in {file, EmptyFile}
    /\ UNCHANGED <<collector, completed, createErrors, creators, lock, copy>>

(* <-finished, and the return value.                                       *)
Return ==
    /\ main = "wait"
    /\ collector = "finish"
    /\ collector' = "exited"
    /\ main' = "returned"
    /\ result' = IF createErrors = {} THEN "nil" ELSE "error"
    /\ UNCHANGED <<completed, createErrors, creators, config>>

----------------------------------------------------------------------------
(* The collector: reflect.Select over all channels.                        *)
Receive_ErrorsDoNotCount(c) ==
    /\ collector = "select"
    /\ channel[c] # NoMessage
    /\ channel' = [channel EXCEPT ![c] = NoMessage]
    /\ IF channel[c] = Success
       THEN completed' = completed \cup {c} /\ UNCHANGED createErrors
       ELSE createErrors' = createErrors \cup {c} /\ UNCHANGED completed
    /\ collector' = IF completed' = Clusters THEN "finish" ELSE "select"
    /\ UNCHANGED <<main, result, at, kubeconfig, config>>

Receive(c) ==
    /\ collector = "select"
    /\ channel[c] # NoMessage
    /\ channel' = [channel EXCEPT ![c] = NoMessage]
    /\ completed' = completed \cup {c}
    /\ createErrors' = IF channel[c] = Success THEN createErrors ELSE createErrors \cup {c}
    /\ collector' = IF completed' = Clusters THEN "finish" ELSE "select"
    /\ UNCHANGED <<main, result, at, kubeconfig, config>>

----------------------------------------------------------------------------
(* The goroutine of cluster c, while it is not blocked on its channel.     *)
Runs(c, step) == at[c] = step /\ channel[c] = NoMessage

Goto(c, step) == at' = [at EXCEPT ![c] = step]

Proceed(c) ==
    /\ Goto(c, After[Kind[c]][at[c]])
    /\ UNCHANGED channel

Send(c, message, next) ==
    /\ channel' = [channel EXCEPT ![c] = message]
    /\ Goto(c, next)

SendError(c) == Send(c, Failure, AfterError(Kind[c], at[c]))

CallSucceeds(c) ==
    /\ \E step \in CloudSteps : Runs(c, step)
    /\ kubeconfig' = IF at[c] = "getKubeconfig"
                     THEN [kubeconfig EXCEPT ![c] = TRUE]
                     ELSE kubeconfig
    /\ Proceed(c)
    /\ UNCHANGED <<main, result, collector, completed, createErrors, config>>

CallFails(c) ==
    /\ \E step \in CloudSteps : Runs(c, step)
    /\ SendError(c)
    /\ UNCHANGED <<main, result, collector, completed, createErrors, kubeconfig, config>>

lockConfig_NoMutex(c) ==
    /\ Runs(c, "lock")
    /\ lock' = c
    /\ Proceed(c)
    /\ UNCHANGED <<main, result, collector, completed, createErrors, kubeconfig, file, copy>>

lockConfig(c) ==
    /\ Runs(c, "lock")
    /\ lock = Nobody
    /\ lock' = c
    /\ Proceed(c)
    /\ UNCHANGED <<main, result, collector, completed, createErrors, kubeconfig, file, copy>>

loadConfig(c) ==
    /\ Runs(c, "load")
    /\ copy' = [copy EXCEPT ![c] = file]
    /\ Proceed(c)
    /\ UNCHANGED <<main, result, collector, completed, createErrors, kubeconfig, lock, file>>

loadConfigFails(c) ==
    /\ Runs(c, "load")
    /\ SendError(c)
    /\ UNCHANGED <<main, result, collector, completed, createErrors, kubeconfig, config>>

(* The cluster's entry is added to the grid, if the loaded config has it,  *)
(* and the whole config is written back.                                   *)
saveConfig_Reports(c) ==
    LET entry == IF kubeconfig[c] THEN "complete" ELSE "without kubeconfig"
    IN /\ Runs(c, "save")
       /\ file' = IF copy[c].grid THEN [copy[c] EXCEPT !.entry[c] = entry] ELSE copy[c]
       /\ Send(c, Success, After[Kind[c]]["save"])
       /\ UNCHANGED <<main, result, collector, completed, createErrors, kubeconfig, lock, copy>>

saveConfig(c) ==
    LET entry == IF kubeconfig[c] THEN "complete" ELSE "without kubeconfig"
    IN /\ Runs(c, "save")
       /\ file' = IF copy[c].grid
                  THEN [copy[c] EXCEPT !.entry[c] = entry]
                  ELSE copy[c]
       /\ Proceed(c)
       /\ UNCHANGED <<main, result, collector, completed, createErrors, kubeconfig, lock, copy>>

(* ioutil.WriteFile truncates the file before it writes.                   *)
saveConfigFails(c) ==
    /\ Runs(c, "save")
    /\ file' \in {file, EmptyFile}
    /\ SendError(c)
    /\ UNCHANGED <<main, result, collector, completed, createErrors, kubeconfig, lock, copy>>

unlockConfig_NotDeferred(c) ==
    /\ Runs(c, "unlock")
    /\ lock' = IF Kind[c] = "existing" THEN lock ELSE Nobody
    /\ Proceed(c)
    /\ UNCHANGED <<main, result, collector, completed, createErrors, kubeconfig, file, copy>>

unlockConfig(c) ==
    /\ Runs(c, "unlock")
    /\ lock' = Nobody
    /\ Proceed(c)
    /\ UNCHANGED <<main, result, collector, completed, createErrors, kubeconfig, file, copy>>

(* The last message: success, unless the spec was of no known kind.        *)
Report(c) ==
    /\ Runs(c, "report")
    /\ Send(c, IF Kind[c] = "unknown" THEN Failure ELSE Success, After[Kind[c]]["report"])
    /\ UNCHANGED <<main, result, collector, completed, createErrors, kubeconfig, config>>

CreatorStep(c) ==
    \/ CallSucceeds(c) \/ CallFails(c)
    \/ lockConfig(c)
    \/ loadConfig(c) \/ loadConfigFails(c)
    \/ saveConfig(c) \/ saveConfigFails(c)
    \/ unlockConfig(c)
    \/ Report(c)

Next ==
    \/ AddGrid \/ AddGridFails \/ Return
    \/ \E c \in Clusters : Receive(c) \/ CreatorStep(c)

Spec == Init /\ [][Next]_vars

(* Goroutines are scheduled, every call returns (its retries are bounded), *)
(* and a goroutine waiting for the mutex gets it in its turn.              *)
Fairness ==
    /\ WF_vars(AddGrid \/ AddGridFails) /\ WF_vars(Return)
    /\ \A c \in Clusters :
         WF_vars(Receive(c)) /\ WF_vars(CreatorStep(c)) /\ SF_vars(lockConfig(c))

FairSpec == Spec /\ Fairness

----------------------------------------------------------------------------
(* Properties.                                                             *)

(* Every variable holds what the code can put there.                       *)
TypeOK ==
    /\ main \in {"addGrid", "wait", "returned"}
    /\ result \in {"none", "nil", "error"}
    /\ collector \in {"select", "finish", "exited"}
    /\ completed \subseteq Clusters
    /\ createErrors \subseteq completed
    /\ at \in [Clusters -> Steps \cup {"not started"}]
    /\ channel \in [Clusters -> {NoMessage, Success, Failure}]
    /\ kubeconfig \in [Clusters -> BOOLEAN]
    /\ lock \in Clusters \cup {Nobody}
    /\ file \in Files
    /\ copy \in [Clusters -> Files]

(* create.go:23: Create "will not return until all clusters are ready".    *)
(* When it returns nil, every cluster went all the way, and the config     *)
(* file has a complete entry for each: no entry is lost to another         *)
(* cluster's write, and no failure is forgotten.                           *)
NilMeansReady ==
    result = "nil" =>
        \A c \in Clusters :
            /\ at[c] \in {"unlock", "done"}
            /\ file.grid
            /\ file.entry[c] = "complete"

(* After a success no goroutine is left blocked on its channel, where it   *)
(* could hold the config mutex for good.                                   *)
NoLeakAfterSuccess ==
    result = "nil" => \A c \in Clusters : channel[c] = NoMessage

(* Create always returns: no cluster's failure, no early or late message   *)
(* and no goroutine blocked with the mutex in hand keeps it waiting.       *)
CreateReturns == <>(main = "returned")

(* The mutex is free again, for good, after a success.                     *)
MutexIsReleased == (result = "nil") ~> [](lock = Nobody)
=============================================================================
