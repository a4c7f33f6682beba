------------------------------ MODULE AppDeploy ------------------------------
(***************************************************************************)
(* app.Deploy (pkg/kgrid/app): an application is deployed to all clusters  *)
(* of a grid in parallel, one goroutine and one channel per cluster.  A    *)
(* collector receives from all channels, has a support bundle made for     *)
(* each failure, and tells Deploy when every cluster has reported.         *)
(*                                                                         *)
(* The goroutines are closures over the variables i and c of the loop that *)
(* starts them (go.mod says go 1.19: one pair for all iterations), so each *)
(* works on the cluster, and reports on the channel, that the loop is at   *)
(* when it looks.                                                          *)
(***************************************************************************)
EXTENDS Naturals, FiniteSets

CONSTANTS
    MaxClusters,   \* the most clusters of a grid
    MaxFaults      \* bound on the calls that fail

ASSUME DeployAssumption == MaxClusters \in Nat \ {0} /\ MaxFaults \in Nat

Indices == 1..MaxClusters

VARIABLES
    clusters,   \* the number of clusters in the grid's config
    kots,       \* whether the application has a KOTS spec
    deploy,     \* Deploy: "uncalled", "loop" and "returned"
    loop,       \* the value of i, and the index of c: 0 before the first
    at,         \* per goroutine, its next step
    late,       \* per goroutine, whether waitUntil has passed
    outcome,    \* per goroutine, "error" or "ok" once it is known
    blocked,    \* per goroutine, the channel it is blocked on, or 0
    status,     \* deployStatuses
    collector,  \* "select", "wait" (for the bundles) and "exited"
    bundles,    \* the support bundles being made: <<cluster, goroutine>>
    finalError, \* whether Deploy is going to return an error
    installed,  \* the clusters that the application is installed on
    ready,      \* the clusters on which it has become ready
    faults      \* what is left of MaxFaults

input == <<clusters, kots>>
goroutines == <<at, late, outcome, blocked>>
collecting == <<status, collector, bundles, finalError>>
apps == <<installed, ready>>
deployVars == <<input, deploy, loop, goroutines, collecting, apps>>

NotYet == "none"

DeployInit ==
    /\ clusters \in Indices
    /\ kots \in BOOLEAN
    /\ deploy = "uncalled"
    /\ loop = 0
    /\ at = [k \in Indices |-> "unstarted"]
    /\ late = [k \in Indices |-> FALSE]
    /\ outcome = [k \in Indices |-> NotYet]
    /\ blocked = [k \in Indices |-> 0]
    /\ status = [i \in Indices |-> "in_progress"]
    /\ collector = "select"
    /\ bundles = {}
    /\ finalError = FALSE
    /\ installed = {}
    /\ ready = {}
    /\ faults = MaxFaults

----------------------------------------------------------------------------
(* Deploy: the loop that starts the goroutines (none for an application    *)
(* that has no KOTS spec), and <-finished.                                 *)
StartNext ==
    /\ deploy = "loop"
    /\ loop < clusters
    /\ loop' = loop + 1
    /\ at' = IF kots THEN [at EXCEPT ![loop + 1] = "download"] ELSE at
    /\ UNCHANGED <<input, deploy, late, outcome, blocked, collecting, apps, faults>>

DeployReturns_BeforeBundles ==
    /\ deploy = "loop"
    /\ loop = clusters
    /\ collector = "wait"
    /\ collector' = "exited"
    /\ deploy' = "returned"
    /\ UNCHANGED <<input, loop, goroutines, status, bundles, finalError, apps, faults>>

(* wg.Wait() and finished <- true.                                         *)
DeployReturns ==
    /\ deploy = "loop"
    /\ loop = clusters
    /\ collector = "wait"
    /\ bundles = {}
    /\ collector' = "exited"
    /\ deploy' = "returned"
    /\ UNCHANGED <<input, loop, goroutines, status, bundles, finalError, apps, faults>>

----------------------------------------------------------------------------
(* The collector.                                                          *)

(* An error has a goroutine make a support bundle of that cluster.         *)
Receive(k) ==
    LET i == blocked[k]
    IN /\ collector = "select"
       /\ i # 0
       /\ blocked' = [blocked EXCEPT ![k] = 0]
       /\ IF outcome[k] = "error"
          THEN /\ status' = [status EXCEPT ![i] = "failed"]
               /\ finalError' = TRUE
               /\ bundles' = bundles \cup {<<i, k>>}
          ELSE /\ status' = [status EXCEPT ![i] = "succeeded"]
               /\ UNCHANGED <<finalError, bundles>>
       /\ collector' = IF \A j \in 1..clusters : status'[j] # "in_progress"
                       THEN "wait" ELSE "select"
       /\ UNCHANGED <<input, deploy, loop, at, late, outcome, apps, faults>>

(* Generated and uploaded, or not: an error is only logged.                *)
SupportBundleEnds(b) ==
    /\ b \in bundles
    /\ bundles' = bundles \ {b}
    /\ UNCHANGED <<input, deploy, loop, goroutines, status, collector, finalError, apps, faults>>

----------------------------------------------------------------------------
(* A goroutine.                                                            *)
Goto(k, step) == at' = [at EXCEPT ![k] = step]

Ends(k, result) ==
    /\ outcome' = [outcome EXCEPT ![k] = result]
    /\ Goto(k, "report")

Fault == faults > 0 /\ faults' = faults - 1

downloadKOTSBinary(k) ==
    /\ at[k] = "download"
    /\ \/ Goto(k, "install") /\ UNCHANGED <<outcome, faults>>
       \/ Fault /\ Ends(k, "error")
    /\ UNCHANGED <<input, deploy, loop, late, blocked, collecting, apps>>

(* The install command ends, or is killed after 10 minutes, which is no    *)
(* error.  How much it has installed by then is open, also if it fails.    *)
deployKOTSApplication(k) ==
    /\ at[k] = "install"
    /\ installed' \in {installed, installed \cup {loop}}
    /\ \/ Goto(k, "status") /\ UNCHANGED <<outcome, faults>>
       \/ Fault /\ Ends(k, "error")
    /\ UNCHANGED <<input, deploy, loop, late, blocked, collecting, ready>>

(* A round of the poll loop whose status call fails goes on with the next  *)
(* one, whatever the time.                                                 *)
StatusFails(k) ==
    /\ at[k] = "status"
    /\ Fault
    /\ UNCHANGED <<deployVars>>

StatusIsReady(k) ==
    /\ at[k] = "status"
    /\ loop \in ready
    /\ Ends(k, "ok")
    /\ UNCHANGED <<input, deploy, loop, late, blocked, collecting, apps, faults>>

StatusIsNotReady_NoError(k) ==
    /\ at[k] = "status"
    /\ loop \notin ready
    /\ late[k]
    /\ Ends(k, "ok")
    /\ UNCHANGED <<input, deploy, loop, late, blocked, collecting, apps, faults>>

StatusIsNotReady_DeadlineMoves(k) ==
    /\ at[k] = "status"
    /\ loop \notin ready
    /\ late[k]
    /\ late' = [late EXCEPT ![k] = FALSE]
    /\ UNCHANGED <<input, deploy, loop, at, outcome, blocked, collecting, apps, faults>>

(* Five minutes are over; before that it sleeps and polls again.           *)
StatusIsNotReady(k) ==
    /\ at[k] = "status"
    /\ loop \notin ready
    /\ late[k]
    /\ Ends(k, "error")
    /\ UNCHANGED <<input, deploy, loop, late, blocked, collecting, apps, faults>>

(* deployChans[i] <- ...                                                   *)
Report_OwnChannel(k) ==
    /\ at[k] = "report"
    /\ blocked' = [blocked EXCEPT ![k] = k]
    /\ Goto(k, "done")
    /\ UNCHANGED <<input, deploy, loop, late, outcome, collecting, apps, faults>>

Report(k) ==
    /\ at[k] = "report"
    /\ blocked' = [blocked EXCEPT ![k] = loop]
    /\ Goto(k, "done")
    /\ UNCHANGED <<input, deploy, loop, late, outcome, collecting, apps, faults>>

----------------------------------------------------------------------------
(* Time, and the application.                                              *)
WaitUntilPasses(k) ==
    /\ at[k] = "status"
    /\ ~late[k]
    /\ late' = [late EXCEPT ![k] = TRUE]
    /\ UNCHANGED <<input, deploy, loop, at, outcome, blocked, collecting, apps, faults>>

BecomesReady(i) ==
    /\ i \in installed \ ready
    /\ ready' = ready \cup {i}
    /\ UNCHANGED <<input, deploy, loop, goroutines, collecting, installed, faults>>

Deploying(k) ==
    \/ downloadKOTSBinary(k) \/ deployKOTSApplication(k)
    \/ StatusIsReady(k) \/ StatusIsNotReady(k) \/ Report(k) \/ Receive(k)

DeployNext ==
    \/ StartNext \/ DeployReturns
    \/ \E k \in Indices : Deploying(k) \/ StatusFails(k) \/ WaitUntilPasses(k) \/ BecomesReady(k)
    \/ \E b \in bundles : SupportBundleEnds(b)

----------------------------------------------------------------------------
(* Every variable holds what the code can put there.                       *)
DeployTypeOK ==
    /\ clusters \in Indices /\ kots \in BOOLEAN
    /\ deploy \in {"uncalled", "loop", "returned"}
    /\ loop \in 0..clusters
    /\ at \in [Indices -> {"unstarted", "download", "install", "status", "report", "done"}]
    /\ \A k \in Indices : at[k] # "unstarted" => k <= loop
    /\ late \in [Indices -> BOOLEAN]
    /\ outcome \in [Indices -> {NotYet, "ok", "error"}]
    /\ blocked \in [Indices -> 0..loop]
    /\ status \in [Indices -> {"in_progress", "failed", "succeeded"}]
    /\ collector \in {"select", "wait", "exited"}
    /\ bundles \subseteq Indices \X Indices
    /\ finalError \in BOOLEAN
    /\ installed \subseteq 1..clusters /\ ready \subseteq installed
    /\ faults \in 0..MaxFaults
=============================================================================
