--------------------------- MODULE TestRun_proofs ---------------------------
(***************************************************************************)
(* Proofs about TestRun, for any number of clusters and of failing calls:  *)
(* the type invariant, the order of support bundles, teardown and exit,    *)
(* that a pass means a working application on every cluster, and that the  *)
(* run implements RunLife.                                                 *)
(***************************************************************************)
EXTENDS TestRun, FiniteSetTheorems, TLAPS

----------------------------------------------------------------------------
(* The inductive invariant, by parts.                                      *)

(* Only the clusters of the grid are deleted, after the deployment and     *)
(* before the end, each of them, and one whose goroutine has ended without *)
(* an error is gone.                                                       *)
DeletingInv ==
    /\ \A c \in DOMAIN deleting : deleting[c] # "no" => c \in Own
    /\ \A c \in DOMAIN deleting :
         deleting[c] \in {"nodeGroup", "gone", "cluster"} => main = "wait"
    /\ main = "wait" => \A c \in Own : deleting[c] # "no"
    /\ \A c \in Own : deleting[c] = "done" => c \notin alive \/ c \in undeleted

(* What RunE knows of the grid when it is where it is.                     *)
MainInv ==
    /\ main \in {"deploy", "list", "wait"} => created /\ Own \subseteq entries
    /\ main = "create" => ~created /\ ~testError
    /\ main \in {"deploy", "list"} => Own \subseteq alive
    /\ main \in {"create", "deploy", "list"} => \A c \in DOMAIN deleting : deleting[c] = "no"
    /\ main = "deploy" => ~testError
    /\ main = "exited" /\ created => Own \cap alive \subseteq undeleted
    /\ main = "exited" /\ ~testError =>
         created /\ "this" \notin grids /\ entries \cap Own = {}

OthersInv ==
    /\ Other \in alive
    /\ ~truncated => Other \in entries /\ "other" \in grids

(* Deploy, its collector and the support bundles.                          *)
DeployInv ==
    /\ deploy = "uncalled" => loop = 0
    /\ deploy = "loop" => main = "deploy"
    /\ deploy = "returned" <=> collector = "exited"
    /\ bundles # {} => deploy = "loop"
    /\ main = "create" => deploy = "uncalled"

Inv == TypeOK /\ DeletingInv /\ MainInv /\ OthersInv /\ DeployInv

(* Own is part of Indices, and Other is not.                               *)
LEMMA OwnIndices ==
    ASSUME clusters \in Indices
    PROVE  Own \subseteq Indices /\ Other \notin Own /\ 1..clusters = Own
BY DeployAssumption, OtherAssumption DEF Own, Indices

(* Deploy's own variables have their types after each of its steps.        *)
LEMMA DeployType ==
    ASSUME DeployTypeOK, DeployNext
    PROVE  DeployTypeOK'
<1> USE DeployAssumption DEF DeployTypeOK, Indices, input, goroutines, collecting, apps
<1>1. CASE StartNext
  BY <1>1 DEF StartNext
<1>2. CASE DeployReturns
  BY <1>2 DEF DeployReturns
<1>3. ASSUME NEW k \in Indices, Deploying(k) PROVE DeployTypeOK'
  <2>1. CASE downloadKOTSBinary(k)
    <3>1. k <= loop
      BY <1>3, <2>1 DEF downloadKOTSBinary
    <3>2. CASE Goto(k, "install") /\ UNCHANGED <<outcome, faults>>
      BY <1>3, <2>1, <3>1, <3>2 DEF downloadKOTSBinary, Goto
    <3>3. CASE Fault /\ Ends(k, "error")
      BY <1>3, <2>1, <3>1, <3>3 DEF downloadKOTSBinary, Goto, Ends, Fault
    <3> QED
      BY <2>1, <3>2, <3>3 DEF downloadKOTSBinary
  <2>2. CASE deployKOTSApplication(k)
    <3>1. k <= loop /\ loop \in 1..clusters
      BY <1>3, <2>2 DEF deployKOTSApplication
    <3>2. installed' \subseteq 1..clusters /\ ready \subseteq installed'
      BY <2>2, <3>1 DEF deployKOTSApplication
    <3>3. CASE Goto(k, "status") /\ UNCHANGED <<outcome, faults>>
      BY <1>3, <2>2, <3>1, <3>2, <3>3 DEF deployKOTSApplication, Goto
    <3>4. CASE Fault /\ Ends(k, "error")
      BY <1>3, <2>2, <3>1, <3>2, <3>4 DEF deployKOTSApplication, Goto, Ends, Fault
    <3> QED
      BY <2>2, <3>3, <3>4 DEF deployKOTSApplication
  <2>3. CASE StatusIsReady(k)
    BY <1>3, <2>3 DEF StatusIsReady, Goto, Ends
  <2>4. CASE StatusIsNotReady(k)
    BY <1>3, <2>4 DEF StatusIsNotReady, Goto, Ends
  <2>5. CASE Report(k)
    BY <1>3, <2>5 DEF Report, Goto
  <2>6. CASE Receive(k)
    <3>1. blocked[k] \in Indices
      BY <1>3, <2>6 DEF Receive
    <3>2. bundles' \subseteq Indices \X Indices
      BY <1>3, <2>6, <3>1 DEF Receive
    <3>3. blocked' \in [Indices -> 0..loop]
      BY <1>3, <2>6 DEF Receive
    <3>4. /\ status' \in [Indices -> {"in_progress", "failed", "succeeded"}]
          /\ collector' \in {"select", "wait"}
          /\ finalError' \in BOOLEAN
      BY <2>6, <3>1 DEF Receive
    <3>5. UNCHANGED <<input, deploy, loop, at, late, outcome, apps, faults>>
      BY <2>6 DEF Receive
    <3> QED
      BY <3>2, <3>3, <3>4, <3>5
  <2> QED
    BY <1>3, <2>1, <2>2, <2>3, <2>4, <2>5, <2>6 DEF Deploying
<1>4. ASSUME NEW k \in Indices, StatusFails(k) PROVE DeployTypeOK'
  BY <1>4 DEF StatusFails, Fault, deployVars
<1>5. ASSUME NEW k \in Indices, WaitUntilPasses(k) PROVE DeployTypeOK'
  BY <1>5 DEF WaitUntilPasses
<1>6. ASSUME NEW k \in Indices, BecomesReady(k) PROVE DeployTypeOK'
  BY <1>6 DEF BecomesReady
<1>7. ASSUME NEW b \in bundles, SupportBundleEnds(b) PROVE DeployTypeOK'
  BY <1>7 DEF SupportBundleEnds
<1> QED
  BY <1>1, <1>2, <1>3, <1>4, <1>5, <1>6, <1>7 DEF DeployNext

LEMMA InitInv == Init => Inv
<1> SUFFICES ASSUME Init PROVE Inv
  OBVIOUS
<1> USE DeployAssumption, OtherAssumption DEF Init, DeployInit
<1>1. DeployTypeOK
  <2>1. clusters \in Indices /\ loop \in 0..clusters /\ faults \in 0..MaxFaults
    BY DEF Indices
  <2>2. blocked \in [Indices -> 0..loop]
    BY <2>1
  <2> QED
    BY <2>1, <2>2 DEF DeployTypeOK
<1>2. TypeOK
  BY <1>1 DEF TypeOK, Own
<1>3. DeletingInv
  BY DEF DeletingInv, Own, Indices
<1>4. MainInv /\ OthersInv /\ DeployInv
  BY DEF MainInv, OthersInv, DeployInv
<1> QED
  BY <1>2, <1>3, <1>4 DEF Inv

(* What a step of RunE, or of a goroutine that deletes, does not touch.    *)
LEMMA DeployKept ==
    ASSUME DeployTypeOK, UNCHANGED deployVars, faults' \in 0..MaxFaults
    PROVE  DeployTypeOK' /\ Own' = Own
BY DEF DeployTypeOK, deployVars, input, goroutines, collecting, apps, Own

(* A call that fails leaves one failure less.                              *)
LEMMA FaultType ==
    ASSUME DeployTypeOK, Fault
    PROVE  faults' \in 0..MaxFaults
BY DeployAssumption DEF DeployTypeOK, Fault

LEMMA TypeStep ==
    ASSUME Inv, Next
    PROVE  TypeOK'
<1> USE DEF Inv
<1>0. TypeOK /\ DeployTypeOK /\ faults \in 0..MaxFaults /\ clusters \in Indices
  BY DEF TypeOK, DeployTypeOK
<1>1. Own \subseteq Indices
  BY <1>0, OwnIndices
<1>2. CASE InDeploy(DeployNext)
  <2>1. DeployTypeOK' /\ UNCHANGED runVars
    BY <1>0, <1>2, DeployType DEF InDeploy
  <2>2. UNCHANGED Own
    BY <1>2 DEF InDeploy, Own, DeployNext, StartNext, DeployReturns, Deploying,
       downloadKOTSBinary, deployKOTSApplication, StatusIsReady, StatusIsNotReady, Report,
       Receive, StatusFails, WaitUntilPasses, BecomesReady, SupportBundleEnds, input, deployVars
  <2> QED
    BY <1>0, <2>1, <2>2 DEF TypeOK, runVars, run, file, removal
<1>3. ASSUME DeployTypeOK', Own' = Own, UNCHANGED kind,
             main' \in {"create", "deploy", "list", "wait", "exited", "panicked"},
             created' \in BOOLEAN, testError' \in BOOLEAN, truncated' \in BOOLEAN,
             grids' \subseteq {"this", "other"},
             entries' \subseteq Own \cup {Other},
             alive' \subseteq Own \cup {Other},
             deleting' \in [Indices \cup {Other} -> {"no", "nodeGroup", "gone", "cluster", "done"}],
             undeleted' \subseteq Own
      PROVE  TypeOK'
  BY <1>0, <1>3 DEF TypeOK
<1> USE DEF run, file, removal
<1>4. CASE UNCHANGED deployVars /\ faults' \in 0..MaxFaults
  <2>1. DeployTypeOK' /\ Own' = Own
    BY <1>0, <1>4, DeployKept
  <2>2. CASE CreateSucceeds
    BY <1>0, <1>3, <2>1, <2>2 DEF CreateSucceeds, TypeOK
  <2>3. CASE CreateFails
    BY <1>0, <1>3, <2>1, <2>3 DEF CreateFails, TypeOK, Truncate
  <2>4. CASE deployAppSucceeds \/ deployAppFails
    BY <1>0, <1>3, <2>1, <2>4 DEF deployAppSucceeds, deployAppFails, TypeOK
  <2>5. CASE StartDeletes
    BY <1>0, <1>3, <2>1, <2>5 DEF StartDeletes, TypeOK
  <2>6. CASE DeletePanics \/ ListFails
    BY <1>0, <1>3, <2>1, <2>6 DEF DeletePanics, ListFails, TypeOK
  <2>7. CASE removeGridFromConfig \/ removeGridFails
    BY <1>0, <1>3, <2>1, <2>7 DEF removeGridFromConfig, removeGridFails, Truncate, TypeOK
  <2>8. ASSUME NEW c \in DOMAIN deleting, DeleteStep(c) \/ DeleteFails(c) PROVE TypeOK'
    <3>1. c \in Own \/ deleting[c] = "no"
      BY <2>8 DEF DeletingInv
    <3> QED
      BY <1>0, <1>3, <2>1, <2>8, <3>1 DEF DeleteStep, DeleteFails, TypeOK
  <2>9. CASE CallDeploy
    BY <1>4, <2>9 DEF CallDeploy, deployVars
  <2> QED
    BY <1>2, <2>2, <2>3, <2>4, <2>5, <2>6, <2>7, <2>8, <2>9 DEF Next, RunE
<1>5. CASE CallDeploy
  <2>1. DeployTypeOK' /\ Own' = Own
    BY <1>0, <1>5 DEF CallDeploy, DeployTypeOK, input, goroutines, collecting, apps, Own
  <2> QED
    BY <1>0, <1>3, <1>5, <2>1 DEF CallDeploy, runVars, TypeOK
<1>6. CASE ~CallDeploy /\ ~InDeploy(DeployNext)
  <2>1. UNCHANGED deployVars /\ (UNCHANGED faults \/ Fault)
    BY <1>6 DEF Next, RunE, CreateSucceeds, CreateFails, deployAppSucceeds, deployAppFails,
       StartDeletes, DeletePanics, ListFails, removeGridFromConfig, removeGridFails,
       DeleteStep, DeleteFails
  <2> QED
    BY <1>0, <1>4, <2>1, FaultType
<1> QED
  BY <1>2, <1>5, <1>6

----------------------------------------------------------------------------
(* A step of Deploy changes neither the run nor its clusters, starts and   *)
(* ends no call of Deploy but its own, and has support bundles made only   *)
(* as long as it runs.                                                     *)
LEMMA DeployControl ==
    ASSUME TypeOK, DeployInv, main = "deploy", DeployNext, UNCHANGED runVars
    PROVE  DeployInv' /\ Own' = Own
<1> USE DEF DeployInv, runVars, run
<1>0. DeployTypeOK
  BY DEF TypeOK
<1>1. CASE StartNext
  BY <1>1 DEF StartNext, input, collecting, Own
<1>2. CASE DeployReturns
  BY <1>2 DEF DeployReturns, input, Own
<1>3. ASSUME NEW k \in Indices, Deploying(k) PROVE DeployInv' /\ Own' = Own
  <2>1. CASE Receive(k)
    <3>1. deploy = "loop"
      BY <1>0, <1>3, <2>1 DEF Receive, DeployTypeOK
    <3> QED
      BY <2>1, <3>1 DEF Receive, input, Own
  <2>2. CASE ~Receive(k)
    BY <1>3, <2>2 DEF Deploying, downloadKOTSBinary, deployKOTSApplication, StatusIsReady,
       StatusIsNotReady, Report, input, collecting, Own
  <2> QED
    BY <2>1, <2>2
<1>4. ASSUME NEW k \in Indices, StatusFails(k) \/ WaitUntilPasses(k) \/ BecomesReady(k)
      PROVE  DeployInv' /\ Own' = Own
  BY <1>4 DEF StatusFails, WaitUntilPasses, BecomesReady, deployVars, input, collecting, Own
<1>5. ASSUME NEW b \in bundles, SupportBundleEnds(b) PROVE DeployInv' /\ Own' = Own
  BY <1>5 DEF SupportBundleEnds, input, Own
<1> QED
  BY <1>1, <1>2, <1>3, <1>4, <1>5 DEF DeployNext

LEMMA ControlStep ==
    ASSUME Inv, Next
    PROVE  DeletingInv' /\ MainInv' /\ OthersInv' /\ DeployInv'
<1> USE DEF Inv
<1>0. /\ Own \subseteq Indices /\ Other \notin Own
      /\ DOMAIN deleting = Indices \cup {Other}
  BY OwnIndices DEF TypeOK, DeployTypeOK
<1>1. CASE InDeploy(DeployNext)
  <2>1. DeployInv' /\ Own' = Own /\ UNCHANGED runVars
    BY <1>1, DeployControl DEF InDeploy
  <2> QED
    BY <2>1 DEF DeletingInv, MainInv, OthersInv, runVars, run, file, removal
<1>2. CASE CallDeploy
  BY <1>2 DEF CallDeploy, DeletingInv, MainInv, OthersInv, DeployInv, collecting, input,
     runVars, run, file, removal, Own
<1> USE DEF deployVars, input, collecting, DeployInv, Own
<1>3. CASE CreateSucceeds
  BY <1>0, <1>3 DEF CreateSucceeds, DeletingInv, MainInv, OthersInv
<1>4. CASE CreateFails
  <2>1. OthersInv'
    BY <1>4 DEF CreateFails, OthersInv, file, Truncate
  <2> QED
    BY <1>0, <1>4, <2>1 DEF CreateFails, DeletingInv, MainInv
<1> USE DEF file, removal
<1>5. CASE deployAppSucceeds \/ deployAppFails
  BY <1>5 DEF deployAppSucceeds, deployAppFails, DeletingInv, MainInv, OthersInv
<1>6. CASE ListFails
  BY <1>6 DEF ListFails, DeletingInv, MainInv, OthersInv
<1>7. CASE StartDeletes
  <2>1. \A c \in DOMAIN deleting' :
           deleting'[c] = IF c \in entries \cap Own THEN "nodeGroup" ELSE "no"
    BY <1>7 DEF StartDeletes
  <2>2. DOMAIN deleting' = DOMAIN deleting
    BY <1>7 DEF StartDeletes
  <2> QED
    BY <1>0, <1>7, <2>1, <2>2 DEF StartDeletes, DeletingInv, MainInv, OthersInv
<1>8. CASE DeletePanics
  BY <1>8 DEF DeletePanics, DeletingInv, MainInv, OthersInv, run
<1>9. CASE removeGridFromConfig
  <2>1. \A c \in Own : c \notin alive \/ c \in undeleted
    BY <1>0, <1>9 DEF removeGridFromConfig, AllDeleted, DeletingInv
  <2> QED
    BY <1>0, <1>9, <2>1 DEF removeGridFromConfig, AllDeleted, DeletingInv, MainInv, OthersInv
<1>10. CASE removeGridFails
  <2>1. \A c \in Own : c \notin alive \/ c \in undeleted
    BY <1>0, <1>10 DEF removeGridFails, AllDeleted, DeletingInv
  <2> QED
    BY <1>0, <1>10, <2>1
       DEF removeGridFails, AllDeleted, DeletingInv, MainInv, OthersInv, Truncate
<1>11. ASSUME NEW c \in DOMAIN deleting, DeleteStep(c) \/ DeleteFails(c)
       PROVE  DeletingInv' /\ MainInv' /\ OthersInv' /\ DeployInv'
  <2>1. main = "wait" /\ c \in Own /\ UNCHANGED <<deployVars, run, file>>
    BY <1>11 DEF DeleteStep, DeleteFails, DeletingInv
  <2>2. /\ DOMAIN deleting' = DOMAIN deleting
        /\ \A e \in DOMAIN deleting \ {c} : deleting'[e] = deleting[e]
        /\ deleting'[c] \in {"gone", "cluster", "done"}
        /\ deleting'[c] = "done" => c \notin alive' \/ c \in undeleted'
        /\ alive \ {c} \subseteq alive' /\ alive' \subseteq alive
        /\ undeleted \subseteq undeleted'
    BY <1>0, <1>11 DEF DeleteStep, DeleteFails, TypeOK
  <2>3. DeletingInv'
    BY <1>0, <2>1, <2>2 DEF DeletingInv, run
  <2> QED
    BY <1>0, <2>1, <2>2, <2>3 DEF MainInv, OthersInv, run
<1> QED
  BY <1>1, <1>2, <1>3, <1>4, <1>5, <1>6, <1>7, <1>8, <1>9, <1>10, <1>11 DEF Next, RunE

LEMMA InvStep == Inv /\ [Next]_vars => Inv'
<1> SUFFICES ASSUME Inv, [Next]_vars PROVE Inv'
  OBVIOUS
<1>1. CASE Next
  BY <1>1, TypeStep, ControlStep DEF Inv
<1>2. CASE UNCHANGED vars
  BY <1>2 DEF Inv, TypeOK, DeployTypeOK, DeletingInv, MainInv, OthersInv, DeployInv, Own,
     vars, deployVars, input, goroutines, collecting, apps, runVars, run, file, removal
<1> QED
  BY <1>1, <1>2

(* Inv holds in every reachable state.                                     *)
THEOREM Invariance == Spec => []Inv
BY InitInv, InvStep, PTL DEF Spec

(* Every variable holds what the code can put there.                       *)
THEOREM TypeCorrect == Spec => []TypeOK
<1>1. Inv => TypeOK
  BY DEF Inv
<1> QED
  BY <1>1, Invariance, PTL

(* A failed deployment's support bundle is collected from clusters that    *)
(* stand, before the teardown and the exit.                                *)
THEOREM BundlesComeFirst == Spec => []BundlesFirst
<1>1. Inv => BundlesFirst
  BY DEF Inv, DeployInv, MainInv, BundlesFirst
<1> QED
  BY <1>1, Invariance, PTL

(* A run that got its clusters leaves only those it failed to delete.      *)
THEOREM ClustersTornDown == Spec => []TornDown
<1>1. Inv => TornDown
  BY DEF Inv, MainInv, TornDown
<1> QED
  BY <1>1, Invariance, PTL

(* The other grid of the config file keeps its cluster and its entry.      *)
THEOREM OthersLeftAlone == Spec => []OthersUntouched
<1>1. Inv => OthersUntouched
  BY DEF Inv, OthersInv, OthersUntouched
<1> QED
  BY <1>1, Invariance, PTL

----------------------------------------------------------------------------
(* Why a pass can be trusted although the goroutines share the loop's      *)
(* variables.  The loop only moves on, so goroutine k reports on a channel *)
(* that is not before k; if a report comes in on every channel then no two *)
(* goroutines can have reported on one, and so each has reported on its    *)
(* own: the loop had not moved on when it looked at its cluster either.    *)

LEMMA OnlyIdentity ==
    ASSUME NEW n \in Nat, NEW f \in [1..n -> 1..n],
           \A k \in 1..n : k <= f[k],
           \A i \in 1..n : \E k \in 1..n : f[k] = i
    PROVE  \A k \in 1..n : f[k] = k
<1>1. IsFiniteSet(1..n)
  BY FS_Interval
<1>2. f \in Surjection(1..n, 1..n)
  BY DEF Surjection
<1>3. f \in Injection(1..n, 1..n)
  BY <1>1, <1>2, FS_SurjSameCardinalityImpliesInj
<1>4. \A a, b \in 1..n : f[a] = f[b] => a = b
  BY <1>3 DEF Injection, IsInjective
<1>5. SUFFICES ASSUME NEW k \in 1..n, f[k] # k PROVE FALSE
  OBVIOUS
<1> DEFINE Above == (k + 1)..n
           g == [a \in Above |-> f[a]]
<1>6. IsFiniteSet(Above) /\ Above \subseteq 1..n
  BY FS_Interval
<1>7. g \in Injection(Above, Above)
  <2>1. g \in [Above -> Above]
    BY <1>6
  <2>2. \A a, b \in Above : g[a] = g[b] => a = b
    BY <1>4, <1>6
  <2> QED
    BY <2>1, <2>2 DEF Injection, IsInjective
<1>8. g \in Surjection(Above, Above)
  BY <1>6, <1>7, FS_Injection
<1>9. f[k] \in Above
  BY <1>5
<1>10. PICK a \in Above : g[a] = f[k]
  BY <1>8, <1>9 DEF Surjection
<1>11. f[a] = f[k] /\ a \in 1..n /\ a # k
  BY <1>6, <1>10
<1> QED
  BY <1>4, <1>11

(* channel[k] is the channel that goroutine k has reported on.             *)
Seen(k, last) == \E i \in ready : k <= i /\ i <= last

Vouches(channel, k) ==
    /\ k <= channel[k]
    /\ blocked[k] # 0 => blocked[k] = channel[k]
    /\ at[k] = "report" /\ outcome[k] = "ok" => Seen(k, loop)
    /\ at[k] = "done" /\ outcome[k] = "ok" => Seen(k, channel[k])

ReportedBy(channel, k, i) ==
    channel[k] = i /\ at[k] = "done" /\ blocked[k] = 0 /\ (outcome[k] = "error" => finalError)

Explains(channel) ==
    /\ \A k \in Own : Vouches(channel, k)
    /\ \A i \in Own : status[i] # "in_progress" => \E k \in Own : ReportedBy(channel, k, i)

GoroutineInv ==
    /\ \A k \in Indices : blocked[k] # 0 => at[k] = "done"
    /\ \A k \in Indices : at[k] \in {"report", "done"} => outcome[k] # NotYet
    /\ collector # "select" => \A i \in Own : status[i] # "in_progress"

ReportsInv == GoroutineInv /\ \E channel \in [Own -> Own] : Explains(channel)

PassInv == main \in {"list", "wait", "exited"} /\ ~testError => ready = Own

PassIInv == Inv /\ ReportsInv /\ PassInv

(* If every channel has been reported on, and no report was an error, then *)
(* the application is ready everywhere.                                    *)
LEMMA AllReported ==
    ASSUME Inv, ReportsInv, deploy = "returned", ~finalError
    PROVE  ready = Own
<1>1. PICK channel \in [Own -> Own] : Explains(channel)
  BY DEF ReportsInv
<1>2. clusters \in Nat /\ Own = 1..clusters /\ ready \subseteq Own
  BY DeployAssumption DEF Inv, TypeOK, DeployTypeOK, Indices, Own
<1>3. \A i \in Own : status[i] # "in_progress"
  BY DEF Inv, DeployInv, ReportsInv, GoroutineInv
<1>4. \A i \in Own : \E k \in Own : /\ channel[k] = i
                                    /\ at[k] = "done" /\ outcome[k] # "error"
  BY <1>1, <1>3 DEF Explains, ReportedBy
<1>5. \A k \in Own : channel[k] = k
  <2>1. channel \in [1..clusters -> 1..clusters] /\ clusters \in Nat
    BY <1>2
  <2>2. \A k \in 1..clusters : k <= channel[k]
    BY <1>1, <1>2 DEF Explains, Vouches
  <2>3. \A i \in 1..clusters : \E k \in 1..clusters : channel[k] = i
    BY <1>2, <1>4
  <2> QED
    BY <1>2, <2>1, <2>2, <2>3, OnlyIdentity
<1>6. ASSUME NEW i \in Own PROVE i \in ready
  <2>1. at[i] = "done" /\ outcome[i] # "error"
    BY <1>4, <1>5
  <2>2. outcome[i] = "ok"
    BY <2>1, OwnIndices DEF ReportsInv, GoroutineInv, Inv, TypeOK, DeployTypeOK
  <2>3. PICK j \in ready : i <= j /\ j <= channel[i]
    BY <1>1, <2>1, <2>2 DEF Explains, Vouches, Seen
  <2>4. j = i
    BY <1>2, <1>5, <2>3
  <2> QED
    BY <2>3, <2>4
<1> QED
  BY <1>2, <1>6

LEMMA InputKept ==
    ASSUME DeployNext
    PROVE  clusters' = clusters /\ Own' = Own
<1> USE DEF input, goroutines, deployVars, Own
<1>1. CASE \E k \in Indices : Deploying(k)
  BY <1>1 DEF Deploying, downloadKOTSBinary, deployKOTSApplication, StatusIsReady,
     StatusIsNotReady, Report, Receive
<1>2. CASE ~\E k \in Indices : Deploying(k)
  BY <1>2 DEF DeployNext, StartNext, DeployReturns, StatusFails, WaitUntilPasses,
     BecomesReady, SupportBundleEnds
<1> QED
  BY <1>1, <1>2

(* A step that neither reports nor receives leaves the explanation valid.  *)
LEMMA ExplainsKept ==
    ASSUME NEW channel \in [Own -> Own], Explains(channel), Own' = Own,
           loop \in Nat, loop' \in Nat, loop <= loop', Own \subseteq Nat, ready \subseteq Own,
           ready \subseteq ready', finalError => finalError', UNCHANGED <<blocked, status>>,
           \A k \in Own :
             /\ at'[k] = "done" <=> at[k] = "done"
             /\ at[k] \in {"report", "done"} => outcome'[k] = outcome[k]
             /\ at'[k] = "report" =>
                  at[k] = "report" \/ (outcome'[k] = "ok" => Seen(k, loop)')
    PROVE  Explains(channel)'
<1>1. ASSUME NEW k \in Own PROVE Vouches(channel, k)'
  <2>1. Vouches(channel, k) /\ k \in Nat
    BY DEF Explains
  <2>2. Seen(k, channel[k]) => Seen(k, channel[k])'
    BY DEF Seen
  <2>3. Seen(k, loop) => Seen(k, loop)'
    <3>1. ASSUME NEW i \in ready, i <= loop PROVE i <= loop'
      BY <3>1
    <3> QED
      BY <3>1 DEF Seen
  <2> QED
    BY <2>1, <2>2, <2>3 DEF Vouches
<1>2. ASSUME NEW i \in Own, status'[i] # "in_progress"
      PROVE  \E k \in Own : ReportedBy(channel, k, i)'
  <2>1. PICK k \in Own : ReportedBy(channel, k, i)
    BY <1>2 DEF Explains
  <2>2. ReportedBy(channel, k, i)'
    BY <2>1 DEF ReportedBy
  <2> QED
    BY <2>2
<1> QED
  BY <1>1, <1>2 DEF Explains

LEMMA GoroutineStep ==
    ASSUME DeployTypeOK, Own \subseteq Indices, Own' = Own, clusters' = clusters,
           1..clusters = Own, GoroutineInv, DeployNext
    PROVE  GoroutineInv'
<1> USE DEF GoroutineInv
<1>0. /\ at \in [Indices -> {"unstarted", "download", "install", "status", "report", "done"}]
      /\ outcome \in [Indices -> {NotYet, "ok", "error"}]
      /\ blocked \in [Indices -> 0..loop]
      /\ loop \in 0..clusters
      /\ \A k \in Indices : at[k] # "unstarted" => k <= loop
      /\ NotYet # "ok" /\ NotYet # "error"
  BY DEF DeployTypeOK, NotYet
<1>1. CASE StartNext
  BY <1>0, <1>1 DEF StartNext, goroutines, collecting
<1>2. CASE DeployReturns
  BY <1>2 DEF DeployReturns, goroutines
<1>3. ASSUME NEW k \in Indices, Deploying(k) PROVE GoroutineInv'
  <2>1. CASE downloadKOTSBinary(k) \/ deployKOTSApplication(k)
    BY <1>0, <1>3, <2>1
       DEF downloadKOTSBinary, deployKOTSApplication, Goto, Ends, collecting
  <2>2. CASE StatusIsReady(k) \/ StatusIsNotReady(k)
    BY <1>0, <1>3, <2>2 DEF StatusIsReady, StatusIsNotReady, Goto, Ends, collecting
  <2>3. CASE Report(k)
    BY <1>0, <1>3, <2>3 DEF Report, Goto, collecting
  <2>4. CASE Receive(k)
    <3>1. \A j \in Indices : blocked'[j] # 0 => blocked[j] # 0
      BY <1>0, <1>3, <2>4 DEF Receive
    <3>2. collector' # "select" => \A j \in 1..clusters : status'[j] # "in_progress"
      BY <2>4 DEF Receive
    <3>3. UNCHANGED <<at, outcome>>
      BY <2>4 DEF Receive
    <3> QED
      BY <3>1, <3>2, <3>3
  <2> QED
    BY <1>3, <2>1, <2>2, <2>3, <2>4 DEF Deploying
<1>4. ASSUME NEW k \in Indices, StatusFails(k) \/ WaitUntilPasses(k) \/ BecomesReady(k)
      PROVE  GoroutineInv'
  BY <1>4 DEF StatusFails, WaitUntilPasses, BecomesReady, deployVars, goroutines, collecting
<1>5. ASSUME NEW b \in bundles, SupportBundleEnds(b) PROVE GoroutineInv'
  BY <1>5 DEF SupportBundleEnds, goroutines
<1> QED
  BY <1>1, <1>2, <1>3, <1>4, <1>5 DEF DeployNext

(* The goroutine that reports fixes its channel.                           *)
LEMMA ReportExplains ==
    ASSUME DeployTypeOK, Own \subseteq Nat, Own' = Own, 1..clusters = Own, clusters \in Nat,
           GoroutineInv, NEW channel \in [Own -> Own], Explains(channel),
           NEW k \in Indices, Report(k)
    PROVE  \E other \in [Own -> Own] : Explains(other)'
<1>1. /\ at[k] = "report" /\ blocked[k] = 0
      /\ blocked' = [blocked EXCEPT ![k] = loop] /\ at' = [at EXCEPT ![k] = "done"]
      /\ UNCHANGED <<loop, outcome, status, finalError, ready>>
  BY DEF Report, Goto, GoroutineInv, collecting, apps
<1>2. k \in Own /\ loop \in Own /\ k <= loop
  BY <1>1 DEF DeployTypeOK, Indices
<1>3. PICK other \in [Own -> Own] : other = [channel EXCEPT ![k] = loop]
  BY <1>2
<1>4. /\ blocked'[k] = loop /\ at'[k] = "done" /\ other[k] = loop
      /\ \A j \in Own \ {k} :
           blocked'[j] = blocked[j] /\ at'[j] = at[j] /\ other[j] = channel[j]
  <2>1. k \in Indices /\ Own \subseteq Indices
    BY OwnIndices DEF DeployTypeOK
  <2> QED
    BY <1>1, <1>2, <1>3, <2>1 DEF DeployTypeOK
<1>5. ASSUME NEW j \in Own PROVE Vouches(other, j)'
  <2>1. Vouches(channel, j)
    BY DEF Explains
  <2>2. \A last : Seen(j, last)' <=> Seen(j, last)
    BY <1>1 DEF Seen
  <2>3. CASE j = k
    BY <1>1, <1>2, <1>4, <2>1, <2>2, <2>3 DEF Vouches
  <2>4. CASE j # k
    BY <1>1, <1>3, <1>4, <2>1, <2>2, <2>4 DEF Vouches
  <2> QED
    BY <2>3, <2>4
<1>6. ASSUME NEW i \in Own, status'[i] # "in_progress"
      PROVE  \E j \in Own : ReportedBy(other, j, i)'
  <2>1. PICK j \in Own : ReportedBy(channel, j, i)
    BY <1>1, <1>6 DEF Explains
  <2>2. j # k
    BY <1>1, <2>1 DEF ReportedBy
  <2>3. ReportedBy(other, j, i)'
    BY <1>1, <1>3, <1>4, <2>1, <2>2 DEF ReportedBy
  <2> QED
    BY <2>3
<1> QED
  BY <1>5, <1>6 DEF Explains

(* What is received is what a goroutine has reported.                      *)
LEMMA ReceiveExplains ==
    ASSUME DeployTypeOK, Own' = Own, 1..clusters = Own, clusters \in Nat, GoroutineInv,
           NEW channel \in [Own -> Own], Explains(channel),
           NEW k \in Indices, Receive(k)
    PROVE  Explains(channel)'
<1> DEFINE i == blocked[k]
<1>1. /\ i # 0 /\ at[k] = "done"
      /\ blocked' = [blocked EXCEPT ![k] = 0]
      /\ UNCHANGED <<loop, at, outcome, ready>>
      /\ outcome[k] = "error" => finalError'
  BY DEF Receive, GoroutineInv, apps
<1>2. finalError => finalError'
  BY DEF Receive
<1>3. \A j \in Indices \ {i} : status'[j] = status[j]
  BY DEF Receive, DeployTypeOK
<1>4. k \in Own /\ i \in Own /\ Own \subseteq Indices
  <2>1. k \in Nat \ {0} /\ k <= loop /\ loop <= clusters /\ i \in 1..loop
    BY <1>1 DEF DeployTypeOK, Indices
  <2>2. k \in 1..clusters /\ i \in 1..clusters
    BY <2>1 DEF DeployTypeOK
  <2> QED
    BY <2>2, OwnIndices DEF DeployTypeOK
<1>5. channel[k] = i
  BY <1>1, <1>4 DEF Explains, Vouches
<1>6. blocked'[k] = 0 /\ \A j \in Own \ {k} : blocked'[j] = blocked[j]
  BY <1>1, <1>4 DEF DeployTypeOK
<1>7. ASSUME NEW j \in Own PROVE Vouches(channel, j)'
  <2>1. Vouches(channel, j)
    BY DEF Explains
  <2>2. \A last : Seen(j, last)' <=> Seen(j, last)
    BY <1>1 DEF Seen
  <2> QED
    BY <1>1, <1>6, <2>1, <2>2 DEF Vouches
<1>8. ASSUME NEW c \in Own, status'[c] # "in_progress"
      PROVE  \E j \in Own : ReportedBy(channel, j, c)'
  <2>1. CASE c = i
    <3>1. ReportedBy(channel, k, c)'
      BY <1>1, <1>5, <1>6, <2>1 DEF ReportedBy
    <3> QED
      BY <1>4, <3>1
  <2>2. CASE c # i
    <3>1. PICK j \in Own : ReportedBy(channel, j, c)
      BY <1>3, <1>4, <1>8, <2>2 DEF Explains
    <3>2. ReportedBy(channel, j, c)'
      BY <1>1, <1>2, <1>6, <3>1 DEF ReportedBy
    <3> QED
      BY <3>2
  <2> QED
    BY <2>1, <2>2
<1> QED
  BY <1>7, <1>8 DEF Explains

(* Every step of Deploy can be explained if the steps before it can.       *)
LEMMA ReportsStep ==
    ASSUME TypeOK, ReportsInv, DeployNext
    PROVE  ReportsInv'
<1>1. /\ DeployTypeOK /\ DeployTypeOK' /\ Own' = Own /\ clusters' = clusters
  BY DeployType, InputKept DEF TypeOK
<1>2. /\ Own \subseteq Indices /\ 1..clusters = Own /\ clusters \in Nat /\ Own \subseteq Nat
      /\ loop \in Nat /\ loop' \in Nat /\ ready \subseteq Own
  BY <1>1, DeployAssumption, OwnIndices DEF DeployTypeOK, Indices
<1>3. GoroutineInv'
  BY <1>1, <1>2, GoroutineStep DEF ReportsInv
<1>4. PICK channel \in [Own -> Own] : Explains(channel)
  BY DEF ReportsInv
<1>5. SUFFICES \E other \in [Own -> Own] : Explains(other)'
  BY <1>1, <1>3 DEF ReportsInv
<1>6. CASE \E k \in Indices : Report(k)
  BY <1>1, <1>2, <1>4, <1>6, ReportExplains DEF ReportsInv
<1>7. CASE \E k \in Indices : Receive(k)
  BY <1>1, <1>2, <1>4, <1>7, ReceiveExplains DEF ReportsInv
<1>8. ASSUME loop <= loop', ready \subseteq ready', finalError => finalError',
             UNCHANGED <<blocked, status>>,
             \A k \in Own :
               /\ at'[k] = "done" <=> at[k] = "done"
               /\ at[k] \in {"report", "done"} => outcome'[k] = outcome[k]
               /\ at'[k] = "report" =>
                    at[k] = "report" \/ (outcome'[k] = "ok" => Seen(k, loop)')
      PROVE  \E other \in [Own -> Own] : Explains(other)'
  BY <1>1, <1>2, <1>4, <1>8, ExplainsKept
<1> USE DEF goroutines, collecting, apps
<1>9. CASE StartNext
  BY <1>1, <1>2, <1>8, <1>9 DEF StartNext, DeployTypeOK
<1>10. CASE DeployReturns
  BY <1>2, <1>8, <1>10 DEF DeployReturns
<1>11. ASSUME NEW k \in Indices, downloadKOTSBinary(k) \/ deployKOTSApplication(k)
       PROVE  \E other \in [Own -> Own] : Explains(other)'
  <2>1. at[k] \in {"download", "install"} /\ UNCHANGED <<loop, ready, finalError, blocked, status>>
    BY <1>11 DEF downloadKOTSBinary, deployKOTSApplication
  <2>2. \/ at' = [at EXCEPT ![k] = "install"] /\ UNCHANGED outcome
        \/ at' = [at EXCEPT ![k] = "status"] /\ UNCHANGED outcome
        \/ at' = [at EXCEPT ![k] = "report"] /\ outcome' = [outcome EXCEPT ![k] = "error"]
    BY <1>11 DEF downloadKOTSBinary, deployKOTSApplication, Goto, Ends
  <2>3. \A j \in Own :
           /\ at'[j] = "done" <=> at[j] = "done"
           /\ at[j] \in {"report", "done"} => outcome'[j] = outcome[j]
           /\ at'[j] = "report" => at[j] = "report" \/ outcome'[j] = "error"
    BY <1>1, <1>2, <2>1, <2>2 DEF DeployTypeOK
  <2>4. \A j \in Own : at'[j] = "report" =>
                          at[j] = "report" \/ (outcome'[j] = "ok" => Seen(j, loop)')
    BY <2>3
  <2>5. loop <= loop' /\ ready \subseteq ready' /\ (finalError => finalError')
    BY <1>2, <2>1
  <2> QED
    BY <1>8, <2>1, <2>3, <2>4, <2>5
<1>12. ASSUME NEW k \in Indices, StatusIsReady(k) \/ StatusIsNotReady(k)
       PROVE  \E other \in [Own -> Own] : Explains(other)'
  <2>1. at[k] = "status" /\ UNCHANGED <<loop, ready, finalError, blocked, status>>
    BY <1>12 DEF StatusIsReady, StatusIsNotReady
  <2>2. /\ at' = [at EXCEPT ![k] = "report"]
        /\ \/ outcome' = [outcome EXCEPT ![k] = "error"]
           \/ outcome' = [outcome EXCEPT ![k] = "ok"] /\ loop \in ready
    BY <1>12 DEF StatusIsReady, StatusIsNotReady, Goto, Ends
  <2>3. k <= loop
    BY <1>1, <2>1 DEF DeployTypeOK
  <2>4. loop \in ready => Seen(k, loop)'
    BY <1>2, <2>1, <2>3 DEF Seen
  <2>5. \A j \in Own :
           /\ at'[j] = "done" <=> at[j] = "done"
           /\ at[j] \in {"report", "done"} => outcome'[j] = outcome[j]
           /\ at'[j] = "report" =>
                at[j] = "report" \/ (outcome'[j] = "ok" => j = k /\ loop \in ready)
    BY <1>1, <1>2, <2>1, <2>2 DEF DeployTypeOK
  <2>6. \A j \in Own : at'[j] = "report" =>
                          at[j] = "report" \/ (outcome'[j] = "ok" => Seen(j, loop)')
    BY <2>4, <2>5
  <2>7. loop <= loop' /\ ready \subseteq ready' /\ (finalError => finalError')
    BY <1>2, <2>1
  <2> QED
    BY <1>8, <2>1, <2>5, <2>6, <2>7
<1>13. ASSUME NEW k \in Indices, StatusFails(k) \/ WaitUntilPasses(k) \/ BecomesReady(k)
       PROVE  \E other \in [Own -> Own] : Explains(other)'
  BY <1>2, <1>8, <1>13 DEF StatusFails, WaitUntilPasses, BecomesReady, deployVars
<1>14. ASSUME NEW b \in bundles, SupportBundleEnds(b)
       PROVE  \E other \in [Own -> Own] : Explains(other)'
  BY <1>2, <1>8, <1>14 DEF SupportBundleEnds
<1> QED
  BY <1>6, <1>7, <1>9, <1>10, <1>11, <1>12, <1>13, <1>14 DEF DeployNext, Deploying

LEMMA PassInit == Init => ReportsInv /\ PassInv
<1> SUFFICES ASSUME Init PROVE ReportsInv /\ PassInv
  OBVIOUS
<1> USE DEF Init, DeployInit
<1>1. GoroutineInv /\ PassInv
  BY DEF GoroutineInv, PassInv
<1>2. PICK channel \in [Own -> Own] : \A k \in Own : channel[k] = k
  <2> [k \in Own |-> k] \in [Own -> Own]
    OBVIOUS
  <2> QED
    OBVIOUS
<1>3. Own \subseteq Indices /\ Own \subseteq Nat
  BY OwnIndices DEF Indices
<1>4. Explains(channel)
  BY <1>2, <1>3 DEF Explains, Vouches
<1> QED
  BY <1>1, <1>4 DEF ReportsInv

(* What ReportsInv speaks of does not change outside Deploy, except that   *)
(* the call begins.                                                        *)
LEMMA ReportsKept ==
    ASSUME ReportsInv,
           UNCHANGED <<clusters, at, outcome, blocked, status, collector, loop, ready, finalError>>
    PROVE  ReportsInv'
<1>1. Own' = Own /\ GoroutineInv'
  BY DEF ReportsInv, GoroutineInv, Own
<1>2. PICK channel \in [Own -> Own] : Explains(channel)
  BY DEF ReportsInv
<1>3. Explains(channel)'
  BY <1>1, <1>2 DEF Explains, Vouches, ReportedBy, Seen
<1> QED
  BY <1>1, <1>3 DEF ReportsInv

LEMMA PassStep ==
    ASSUME Inv, ReportsInv, PassInv, Next
    PROVE  ReportsInv' /\ PassInv'
<1> USE DEF deployVars, input, goroutines, collecting, apps, runVars, run
<1>1. CASE InDeploy(DeployNext)
  BY <1>1, ReportsStep, InputKept DEF InDeploy, Inv, PassInv
<1>2. CASE ~InDeploy(DeployNext)
  <2>1. UNCHANGED <<clusters, at, outcome, blocked, status, collector, loop, ready, finalError>>
    BY <1>2 DEF Next, RunE, CallDeploy, CreateSucceeds, CreateFails, deployAppSucceeds,
       deployAppFails, StartDeletes, DeletePanics, ListFails, removeGridFromConfig,
       removeGridFails, DeleteStep, DeleteFails
  <2>2. CASE deployAppSucceeds
    BY <2>1, <2>2, ReportsKept, AllReported DEF deployAppSucceeds, PassInv, Own
  <2>3. CASE ~deployAppSucceeds
    <3>1. main' \in {"list", "wait", "exited"} /\ ~testError' =>
            main \in {"list", "wait", "exited"} /\ ~testError
      BY <1>2, <2>3 DEF Next, RunE, CallDeploy, CreateSucceeds, CreateFails,
         deployAppFails, StartDeletes, DeletePanics, ListFails, removeGridFromConfig,
         removeGridFails, DeleteStep, DeleteFails
    <3> QED
      BY <2>1, <3>1, ReportsKept DEF PassInv, Own
  <2> QED
    BY <2>2, <2>3
<1> QED
  BY <1>1, <1>2

LEMMA PassInvariance == Spec => []PassIInv
<1>1. Init => PassIInv
  BY InitInv, PassInit DEF PassIInv
<1>2. PassIInv /\ [Next]_vars => PassIInv'
  <2> SUFFICES ASSUME PassIInv, [Next]_vars PROVE PassIInv'
    OBVIOUS
  <2>1. CASE Next
    BY <2>1, InvStep, PassStep DEF PassIInv
  <2>2. CASE UNCHANGED vars
    BY <2>2, InvStep, ReportsKept DEF PassIInv, PassInv, Own, vars, deployVars, input,
       goroutines, collecting, apps, runVars, run
  <2> QED
    BY <2>1, <2>2
<1> QED
  BY <1>1, <1>2, PTL DEF Spec

(* A run that passes has had the application ready on every cluster of     *)
(* the grid and has taken the grid out of the config file.                 *)
THEOREM PassIsEarned == Spec => []PassMeansReady
<1>1. PassIInv => PassMeansReady
  BY DEF PassIInv, PassInv, Inv, MainInv, PassMeansReady
<1> QED
  BY <1>1, PassInvariance, PTL

----------------------------------------------------------------------------
(* The refinement.                                                         *)

LEMMA LifeInit == Init => Life!Init
<1> SUFFICES ASSUME Init PROVE Life!Init
  OBVIOUS
<1>1. Phase = "creating" /\ ready = {} /\ (main = "exited" /\ ~testError) = FALSE
  BY DEF Init, DeployInit, Phase
<1>2. Other \notin Own
  BY OwnIndices DEF Init, DeployInit
<1>3. alive \cap Own \in {{}, Own}
  BY <1>2 DEF Init
<1> QED
  BY <1>1, <1>3 DEF Life!Init

LEMMA LifeStep ==
    ASSUME PassIInv, PassIInv', [Next]_vars
    PROVE  [Life!Next]_(Life!lifeVars)
<1> DEFINE standing == alive \cap Own
           passed == main = "exited" /\ ~testError
<1> USE DEF Phase
<1>0. /\ TypeOK /\ TypeOK' /\ DeletingInv /\ MainInv /\ PassInv
      /\ DeployTypeOK /\ DeployTypeOK' /\ Own = 1..clusters
  BY DEF PassIInv, Inv, TypeOK, Own
<1>1. CASE InDeploy(DeployNext)
  <2>1. Phase = "testing" /\ Phase' = "testing" /\ Own' = Own /\ UNCHANGED <<standing, passed>>
    BY <1>1, InputKept DEF InDeploy, runVars, run, removal
  <2>2. CASE \E i \in Indices : BecomesReady(i)
    <3>1. PICK i \in installed : ready' = ready \cup {i}
      BY <2>2 DEF BecomesReady
    <3>2. i \in Own
      BY <1>0 DEF DeployTypeOK
    <3>3. Life!Works(i)
      BY <2>1, <3>1 DEF Life!Works
    <3> QED
      BY <2>1, <3>2, <3>3 DEF Life!Next
  <2>3. CASE ~\E i \in Indices : BecomesReady(i)
    <3>1. UNCHANGED ready
      BY <1>1, <2>3 DEF InDeploy, DeployNext, StartNext, DeployReturns, Deploying,
         downloadKOTSBinary, deployKOTSApplication, StatusIsReady, StatusIsNotReady, Report,
         Receive, StatusFails, WaitUntilPasses, SupportBundleEnds, apps, deployVars
    <3> QED
      BY <2>1, <3>1 DEF Life!lifeVars
  <2> QED
    BY <2>2, <2>3
<1>2. CASE ~InDeploy(DeployNext) /\ Next
  <2>1. Own' = Own /\ UNCHANGED ready
    BY <1>2 DEF Next, RunE, CallDeploy, CreateSucceeds, CreateFails, deployAppSucceeds,
       deployAppFails, StartDeletes, DeletePanics, ListFails, removeGridFromConfig,
       removeGridFails, DeleteStep, DeleteFails, Own, deployVars, input, apps
  <2>2. CASE CreateSucceeds
    <3>1. Life!Made
      BY <2>1, <2>2 DEF CreateSucceeds, Life!Made
    <3> QED
      BY <2>1, <3>1 DEF Life!Next
  <2>3. CASE CreateFails
    <3>1. Life!NotMade
      BY <2>1, <2>3 DEF CreateFails, Life!NotMade
    <3> QED
      BY <2>1, <3>1 DEF Life!Next
  <2>4. CASE CallDeploy
    BY <2>1, <2>4 DEF CallDeploy, runVars, run, removal, Life!lifeVars
  <2>5. CASE deployAppSucceeds \/ deployAppFails
    <3>1. Life!Tested
      BY <2>1, <2>5 DEF deployAppSucceeds, deployAppFails, removal, Life!Tested
    <3> QED
      BY <2>1, <3>1 DEF Life!Next
  <2>6. CASE StartDeletes
    BY <2>1, <2>6 DEF StartDeletes, Life!lifeVars
  <2>7. CASE DeletePanics \/ ListFails \/ removeGridFails
    <3>1. Life!End
      BY <2>1, <2>7 DEF DeletePanics, ListFails, removeGridFails, removal, Life!End
    <3> QED
      BY <2>1, <3>1 DEF Life!Next
  <2>8. CASE removeGridFromConfig
    <3>1. ~testError => ready = Own
      BY <1>0, <2>8 DEF removeGridFromConfig, PassInv
    <3>2. passed' \in {FALSE, ready = Own}
      BY <1>0, <2>8, <3>1 DEF removeGridFromConfig, TypeOK
    <3>3. Life!End
      BY <2>1, <2>8, <3>2 DEF removeGridFromConfig, removal, Life!End
    <3> QED
      BY <2>1, <3>3 DEF Life!Next
  <2>9. ASSUME NEW c \in DOMAIN deleting, DeleteStep(c) \/ DeleteFails(c)
        PROVE  [Life!Next]_(Life!lifeVars)
    <3>1. c \in Own /\ main = "wait" /\ UNCHANGED run
      BY <1>0, <2>9 DEF DeleteStep, DeleteFails, DeletingInv
    <3>2. CASE UNCHANGED alive
      BY <2>1, <3>1, <3>2 DEF run, Life!lifeVars
    <3>3. CASE alive' = alive \ {c}
      <4>1. Life!GiveUp(c)
        BY <2>1, <3>1, <3>3 DEF run, Life!GiveUp
      <4> QED
        BY <2>1, <3>1, <4>1 DEF Life!Next
    <3> QED
      BY <2>9, <3>2, <3>3 DEF DeleteStep, DeleteFails
  <2> QED
    BY <1>2, <2>2, <2>3, <2>4, <2>5, <2>6, <2>7, <2>8, <2>9 DEF Next, RunE
<1>3. CASE UNCHANGED vars
  BY <1>3 DEF vars, deployVars, input, apps, runVars, run, removal, Own, Life!lifeVars
<1> QED
  BY <1>1, <1>2, <1>3

(* kgrid run behaves as RunLife says.                                      *)
THEOREM RunImplementsLife == Spec => RunLifeSpec
BY LifeInit, LifeStep, PassInvariance, PTL DEF Spec, RunLifeSpec, Life!Spec
=============================================================================
