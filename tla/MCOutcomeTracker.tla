-------------------------- MODULE MCOutcomeTracker --------------------------
(***************************************************************************)
(* Small instances of OutcomeTracker: one run of two tests.                *)
(***************************************************************************)
EXTENDS OutcomeTracker

CONSTANTS c1, c2, r1, n1, n2, ch1

(* Every final phase is reached, some by way of Running; a pod whose node  *)
(* is lost is Unknown for good.                                            *)
MCMoves == {<<"Pending", "Running">>, <<"Pending", "Failed">>,
            <<"Running", "Succeeded">>, <<"Running", "Unknown">>}

Of(n, c) == getTestID(n, c, r1, ch1)
TwoTests == {Of(n1, c1), Of(n1, c2)}
=============================================================================
