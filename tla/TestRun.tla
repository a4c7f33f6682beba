------------------------------- MODULE TestRun -------------------------------
(***************************************************************************)
(* `kgrid run` (cmd/kgrid/cli/run.go), which every test pod runs: create   *)
(* the clusters of a grid, deploy the application to them, tear the grid   *)
(* down.  grid.Create is one step here, with the outcomes that GridCreate  *)
(* has; app.Deploy is AppDeploy; grid.Delete is in detail.                 *)
(*                                                                         *)
(* The config file may hold another grid as well, with a cluster of its    *)
(* own.                                                                    *)
(***************************************************************************)
EXTENDS AppDeploy

CONSTANT Other   \* the cluster of the other grid

ASSUME OtherAssumption == Other \notin Indices

VARIABLES
    kind,       \* the kind of the grid's clusters: "new" or "existing"
    main,       \* where RunE is
    created,    \* whether grid.Create has returned nil
    testError,  \* whether RunE is going to return an error
    grids,      \* the grids in the config file: "this" and "other"
    entries,    \* the clusters in the config file
    alive,      \* the clusters there are
    deleting,   \* per cluster, the next step of the goroutine that deletes it
    truncated,  \* history: whether a save of the config file has failed half way
    undeleted   \* history: the clusters whose deletion has failed or never begun

run == <<kind, main, created, testError>>
file == <<grids, entries, truncated>>
removal == <<alive, deleting, undeleted>>
runVars == <<run, file, removal>>
vars == <<deployVars, faults, runVars>>

Own == 1..clusters

Init ==
    /\ DeployInit
    /\ kind \in {"new", "existing"}
    /\ main = "create"
    /\ created = FALSE
    /\ testError = FALSE
    /\ grids \in {{"other"}, {"other", "this"}}
    /\ entries = {Other}
    /\ alive = IF kind = "new" THEN {Other} ELSE {Other} \cup Own
    /\ deleting = [c \in Indices \cup {Other} |-> "no"]
    /\ truncated = FALSE
    /\ undeleted = {}

----------------------------------------------------------------------------
(* saveConfig fails after it has truncated the file.                       *)
Truncate == grids' = {} /\ entries' = {} /\ truncated' = TRUE

(* grid.Create.  A grid of that name is an error before anything is made;  *)
(* later errors leave some of the clusters, and entries for some of those. *)
(* RunE returns at once.                                                   *)
CreateSucceeds ==
    /\ main = "create"
    /\ "this" \notin grids
    /\ grids' = grids \cup {"this"}
    /\ entries' = entries \cup Own
    /\ alive' = alive \cup Own
    /\ created' = TRUE
    /\ main' = "deploy"
    /\ UNCHANGED <<deployVars, faults, kind, testError, deleting, undeleted, truncated>>

CreateFails ==
    /\ main = "create"
    /\ \/ "this" \in grids /\ UNCHANGED <<file, alive>>
       \/ /\ "this" \notin grids
          /\ \E some \in SUBSET Own :
               /\ alive' = alive \cup some
               /\ \/ /\ grids' = grids \cup {"this"}
                     /\ \E recorded \in SUBSET some : entries' = entries \cup recorded
                     /\ UNCHANGED truncated
                  \/ Truncate
    /\ testError' = TRUE
    /\ main' = "exited"
    /\ UNCHANGED <<deployVars, faults, kind, created, deleting, undeleted>>

----------------------------------------------------------------------------
(* deployApp: an error does not keep RunE from the teardown.               *)
CallDeploy ==
    /\ main = "deploy"
    /\ deploy = "uncalled"
    /\ deploy' = "loop"
    /\ UNCHANGED <<input, loop, goroutines, collecting, apps, faults, runVars>>

deployAppFails_Returns ==
    /\ main = "deploy"
    /\ \/ deploy = "uncalled" /\ Fault
       \/ deploy = "returned" /\ finalError /\ UNCHANGED faults
    /\ testError' = TRUE
    /\ main' = "exited"
    /\ UNCHANGED <<deployVars, kind, created, file, removal>>

(* The app spec or the config file cannot be read, or Deploy has failed.   *)
deployAppFails ==
    /\ main = "deploy"
    /\ \/ deploy = "uncalled" /\ Fault
       \/ deploy = "returned" /\ finalError /\ UNCHANGED faults
    /\ testError' = TRUE
    /\ main' = "list"
    /\ UNCHANGED <<deployVars, kind, created, file, removal>>

deployAppSucceeds ==
    /\ main = "deploy"
    /\ deploy = "returned"
    /\ ~finalError
    /\ main' = "list"
    /\ UNCHANGED <<deployVars, faults, kind, created, testError, file, removal>>

----------------------------------------------------------------------------
(* grid.Delete.                                                            *)
ListFails ==
    /\ main = "list"
    /\ Fault
    /\ undeleted' = Own
    /\ testError' = TRUE
    /\ main' = "exited"
    /\ UNCHANGED <<deployVars, kind, created, file, alive, deleting>>

(* Goes over all clusters of all grids of the config and starts a          *)
(* goroutine for each that the spec names.                                 *)
StartDeletes_AnyName ==
    /\ main = "list"
    /\ kind = "new"
    /\ deleting' = [c \in DOMAIN deleting |-> IF c \in entries THEN "nodeGroup" ELSE "no"]
    /\ main' = "wait"
    /\ UNCHANGED <<deployVars, faults, kind, created, testError, file, alive, undeleted>>

StartDeletes ==
    /\ main = "list"
    /\ kind = "new"
    /\ deleting' = [c \in DOMAIN deleting |->
                       IF c \in entries \cap Own THEN "nodeGroup" ELSE "no"]
    /\ main' = "wait"
    /\ UNCHANGED <<deployVars, faults, kind, created, testError, file, alive, undeleted>>

(* The condition that is meant to skip the clusters that are not new       *)
(* dereferences a nil NewCluster.                                          *)
DeletePanics ==
    /\ main = "list"
    /\ kind = "existing"
    /\ entries # {}
    /\ main' = "panicked"
    /\ UNCHANGED <<deployVars, faults, kind, created, testError, file, removal>>

(* deleteNewEKSCluster, in a goroutine of its own: the node group is       *)
(* deleted and gone before the cluster is.                                 *)
DeleteStep(c) ==
    /\ \/ /\ deleting[c] = "nodeGroup"
          /\ deleting' = [deleting EXCEPT ![c] = "gone"]
          /\ UNCHANGED alive
       \/ /\ deleting[c] = "gone"
          /\ deleting' = [deleting EXCEPT ![c] = "cluster"]
          /\ UNCHANGED alive
       \/ /\ deleting[c] = "cluster"
          /\ deleting' = [deleting EXCEPT ![c] = "done"]
          /\ alive' = alive \ {c}
    /\ UNCHANGED <<deployVars, faults, run, file, undeleted>>

(* An error of a call, or of the wait for the node group, is printed.      *)
DeleteFails(c) ==
    /\ deleting[c] \in {"nodeGroup", "gone", "cluster"}
    /\ Fault
    /\ deleting' = [deleting EXCEPT ![c] = "done"]
    /\ undeleted' = undeleted \cup {c}
    /\ UNCHANGED <<deployVars, run, file, alive>>

(* wg.Wait() and removeGridFromConfig.                                     *)
AllDeleted == \A c \in DOMAIN deleting : deleting[c] \in {"no", "done"}

removeGridFromConfig ==
    /\ main = "wait"
    /\ AllDeleted
    /\ grids' = grids \ {"this"}
    /\ entries' = entries \ Own
    /\ main' = "exited"
    /\ UNCHANGED <<deployVars, faults, kind, created, testError, removal, truncated>>

(* An error of loadConfig, or of saveConfig after it has truncated.        *)
removeGridFails ==
    /\ main = "wait"
    /\ AllDeleted
    /\ Fault
    /\ Truncate \/ UNCHANGED file
    /\ testError' = TRUE
    /\ main' = "exited"
    /\ UNCHANGED <<deployVars, kind, created, removal>>

----------------------------------------------------------------------------
InDeploy(Step) == main = "deploy" /\ Step /\ UNCHANGED runVars

RunE ==
    \/ CreateSucceeds \/ CallDeploy \/ deployAppSucceeds \/ deployAppFails
    \/ StartDeletes \/ DeletePanics \/ removeGridFromConfig

Next ==
    \/ RunE \/ CreateFails \/ ListFails \/ removeGridFails
    \/ \E c \in DOMAIN deleting : DeleteStep(c) \/ DeleteFails(c)
    \/ InDeploy(DeployNext)

Spec == Init /\ [][Next]_vars

(* Goroutines run, timers fire, commands end or are killed, AWS deletes.   *)
Fairness ==
    /\ WF_vars(RunE \/ CreateFails)
    /\ \A c \in Indices \cup {Other} : WF_vars(DeleteStep(c))
    /\ WF_vars(InDeploy(StartNext))
    /\ WF_vars(InDeploy(DeployReturns))
    /\ \A k \in Indices : WF_vars(InDeploy(Deploying(k)))
                          /\ WF_vars(InDeploy(WaitUntilPasses(k)))
    /\ \A i, k \in Indices : WF_vars(InDeploy(SupportBundleEnds(<<i, k>>)))

FairSpec == Spec /\ Fairness

----------------------------------------------------------------------------
(* Every variable holds what the code can put there.                       *)
TypeOK ==
    /\ DeployTypeOK
    /\ kind \in {"new", "existing"}
    /\ main \in {"create", "deploy", "list", "wait", "exited", "panicked"}
    /\ created \in BOOLEAN /\ testError \in BOOLEAN /\ truncated \in BOOLEAN
    /\ grids \subseteq {"this", "other"}
    /\ entries \subseteq Own \cup {Other}
    /\ alive \subseteq Own \cup {Other}
    /\ deleting \in [Indices \cup {Other} -> {"no", "nodeGroup", "gone", "cluster", "done"}]
    /\ undeleted \subseteq Own

(* A run that reports success has had the application ready on every       *)
(* cluster of the grid, although the goroutines of Deploy look at          *)
(* variables that its loop goes on changing, and has left neither the grid *)
(* nor its clusters in the config file.                                    *)
PassMeansReady ==
    main = "exited" /\ ~testError =>
        ready = Own /\ "this" \notin grids /\ entries \cap Own = {}

(* No cluster is deleted, and no process exits, while a support bundle of  *)
(* a failed deployment is still being collected from the cluster.          *)
BundlesFirst == bundles # {} => main = "deploy" /\ \A i \in Own : i \in alive

(* A run that got its clusters leaves none of them behind, even when the   *)
(* application could not be deployed, except those whose deletion failed,  *)
(* or never began because the config file could not be listed.             *)
TornDown == main = "exited" /\ created => Own \cap alive \subseteq undeleted

(* The cluster of another grid of the same config file stays, and so does  *)
(* its entry unless a save has failed half way.                            *)
OthersUntouched ==
    /\ Other \in alive
    /\ ~truncated => Other \in entries /\ "other" \in grids

(* With one cluster and a KOTS application the process ends.  (With more   *)
(* clusters the goroutines of Deploy may all report on the last channel,   *)
(* and with no KOTS spec none reports: then it does not.)                  *)
TestEnds == clusters = 1 /\ kots => <>(main \in {"exited", "panicked"})

----------------------------------------------------------------------------
Phase ==
    CASE main = "create" -> "creating"
      [] main = "deploy" -> "testing"
      [] main \in {"list", "wait"} -> "teardown"
      [] OTHER -> "over"

Life == INSTANCE RunLife WITH
    grid <- Own, phase <- Phase, standing <- alive \cap Own, working <- ready,
    passed <- main = "exited" /\ ~testError

(* The run implements RunLife: while the application is deployed all       *)
(* clusters stand, whatever fails the run goes through a teardown, and it  *)
(* passes only with the application ready on all of them.                  *)
RunLifeSpec == Life!Spec
=============================================================================
