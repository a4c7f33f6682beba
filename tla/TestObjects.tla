---------------------------- MODULE TestObjects ----------------------------
(***************************************************************************)
(* The vocabulary the operator's controllers share: test identities, pod   *)
(* phases, test results, and what the Kubernetes API stores about a test.  *)
(* A name or a setting is a model value; only what the controllers compare *)
(* is kept.                                                                *)
(***************************************************************************)
EXTENDS Naturals

CONSTANTS
    Nil,          \* an absent object, a nil pointer
    Clusters,     \* names of the clusters that grids define
    Runs,         \* values of a Version's "runId" label
    Releases,     \* KOTS versions, such as 1.41.0
    Channels,     \* (channelID, channelSequence) pairs
    KubeletMoves  \* phase changes a pod may go through: a set of pairs of phases

NoRun == ""             \* a Version without a runId label, or no run at all
Latest == "latest"      \* spec.kots.version: "latest"
NoRelease == ""         \* an unset version

----------------------------------------------------------------------------
(* corev1.PodPhase, and TestResult of outcome_types.go.                    *)

Phases == {"Pending", "Running", "Succeeded", "Failed", "Unknown"}
TerminalPhases == {"Succeeded", "Failed"}
Results == {"Pending", "Pass", "Fail", "Unknown"}
Verdicts == {"Pass", "Fail"}

NoPod == "NotFound"

(* A finished pod stays finished: the pods have RestartPolicy Never.       *)
ASSUME KubeletAssumption ==
    /\ KubeletMoves \subseteq Phases \X Phases
    /\ \A m \in KubeletMoves : m[1] \notin TerminalPhases

getTestResultFromPod(phase) ==
    CASE phase = "Succeeded"              -> "Pass"
      [] phase \in {"Pending", "Running"} -> "Pending"
      [] phase = "Failed"                 -> "Fail"
      [] OTHER                            -> "Unknown"

----------------------------------------------------------------------------
(* The identity of a test: the fields that getTestID hashes.  The name of  *)
(* the application, its config values and the grid are not among them.     *)

TestIDs == [run     : Runs \cup {NoRun},
            cluster : Clusters,
            version : Releases \cup {Latest, NoRelease},
            channel : Channels]

getTestID_NoChannel(run, cluster, version, channel) ==
    [run |-> run, cluster |-> cluster, version |-> version,
     channel |-> CHOOSE x \in Channels : TRUE]

getTestID(run, cluster, version, channel) ==
    [run |-> run, cluster |-> cluster, version |-> version, channel |-> channel]

(* An entry of Outcome.tests, and a stored Outcome: rv is the object's     *)
(* resourceVersion.  The entries are kept as a set: their order is never   *)
(* looked at.                                                              *)
Tests == [id : TestIDs, result : Results]
Outcomes == [rv : Nat, tests : SUBSET Tests]

(* What a reader sees of it.                                               *)
Reports == [tests : SUBSET Tests]

ASSUME NilAssumption == Nil \notin Outcomes /\ Nil \notin Reports

IDsOf(tests) == {t.id : t \in tests}
============================================================================
