---------------------------- MODULE OutcomeLife ----------------------------
(***************************************************************************)
(* The abstract specification of a run's Outcome, for whoever reads it: it *)
(* is published once, its list of tests is complete from the start and     *)
(* never changes, and a verdict once reported is reported for good.        *)
(***************************************************************************)
EXTENDS TestObjects

VARIABLE report     \* per run, its published Report, or Nil

Init == report = [r \in Runs |-> Nil]

Publish(r) ==
    /\ report[r] = Nil
    /\ report'[r] \in Reports
    /\ \A test \in report'[r].tests : test.id.run = r

(* Every test stays, and so does its verdict.                              *)
Revises(new, old) ==
    /\ IDsOf(new) = IDsOf(old)
    /\ {test \in old : test.result \in Verdicts} \subseteq new

Revise(r) ==
    /\ report[r] # Nil
    /\ report'[r] \in Reports
    /\ Revises(report'[r].tests, report[r].tests)

Next ==
    \E r \in Runs :
        /\ Publish(r) \/ Revise(r)
        /\ report' = [report EXCEPT ![r] = report'[r]]

Spec == Init /\ [][Next]_report
=============================================================================
