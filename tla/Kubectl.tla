------------------------------ MODULE Kubectl ------------------------------
(***************************************************************************)
(* The kubectl wrapper (pkg/kgrid/kubectl): a child process and the        *)
(* goroutine that reads its output.  runWithOutput reads stdout to its end *)
(* before it reads stderr, which the child writes to a pipe of limited     *)
(* size.  What the child is asked, and does, is up to the caller's module. *)
(***************************************************************************)
EXTENDS Naturals

CONSTANTS
    PipeSize,    \* how much the stderr pipe holds
    MaxStderr    \* bound on what a child writes to stderr

ASSUME KubectlAssumption == PipeSize \in Nat \ {0} /\ MaxStderr \in Nat

VARIABLES
    reader,      \* what the goroutine does: "idle", reading "stdout" or "stderr"
    child,       \* "none", "running", or how it has exited: "ok" or "failed"
    unwritten,   \* what the child still has to write to stderr
    pipe         \* what is in the stderr pipe

kubectlVars == <<reader, child, unwritten, pipe>>

KubectlInit ==
    /\ reader = "idle"
    /\ child = "none"
    /\ unwritten = 0
    /\ pipe = 0

(* The temporary kubeconfig is written and cmd.Start succeeds.             *)
Start ==
    /\ reader = "idle"
    /\ reader' = "stdout"
    /\ child' = "running"
    /\ unwritten' \in 0..MaxStderr
    /\ pipe' = 0

(* The child.  It closes its ends of the pipes when it exits.              *)
WriteStderr ==
    /\ child = "running"
    /\ unwritten > 0
    /\ pipe < PipeSize
    /\ pipe' = pipe + 1
    /\ unwritten' = unwritten - 1
    /\ UNCHANGED <<reader, child>>

Exits(status) ==
    /\ child = "running"
    /\ unwritten = 0
    /\ child' = status
    /\ UNCHANGED <<reader, unwritten, pipe>>

(* ioutil.ReadAll of stdout ends with the child, and then that of stderr.  *)
ReadStdout ==
    /\ reader = "stdout"
    /\ child \in {"ok", "failed"}
    /\ reader' = "stderr"
    /\ UNCHANGED <<child, unwritten, pipe>>

(* cmd.Wait returns: nil if the child has exited with "ok".                *)
Returns_NoWait ==
    /\ reader = "stderr"
    /\ reader' = "idle"
    /\ pipe' = 0
    /\ UNCHANGED <<child, unwritten>>

Returns ==
    /\ reader = "stderr"
    /\ reader' = "idle"
    /\ child' = "none"
    /\ pipe' = 0
    /\ UNCHANGED unwritten

(* The child is stuck: its stderr is full, and nobody is going to read it. *)
Stuck == reader = "stdout" /\ child = "running" /\ unwritten > 0 /\ pipe = PipeSize
=============================================================================
