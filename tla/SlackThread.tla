----------------------------- MODULE SlackThread -----------------------------
(***************************************************************************)
(* The thread of a Slack logger (pkg/kgrid/logger/slack.go): a message     *)
(* that a goroutine redraws with a spinner every few seconds until         *)
(* FinishThread closes its channel and replaces the text with a mark.      *)
(* UpdateMessage is a request to Slack, which carries it out before it     *)
(* answers, or perhaps not at all; two of them may be on their way.        *)
(***************************************************************************)
VARIABLES
    client,     \* whether there is a Slack client (the token was not empty)
    threadDone, \* threadDoneCh: "nil", "open" or "closed"
    monitor,    \* monitorThread: "off", "select", "fired", "update", "answer" or "exited"
    finish,     \* FinishThread: "no", "update", "answer" or "returned"
    text,       \* external: the message in Slack
    late        \* history: a spinner was due or on its way when the channel was closed

slackVars == <<client, threadDone, monitor, finish, text, late>>

Texts == {"none", "initial", "spinner", "check", "cross"}
InFlight == {"fired", "update"}

SlackInit ==
    /\ client \in BOOLEAN
    /\ threadDone = "nil"
    /\ monitor = "off"
    /\ finish = "no"
    /\ text = "none"
    /\ late = FALSE

(* StartThread.  Without a client the call panics; when the message cannot *)
(* be posted (it may be posted all the same) there is no thread.           *)
ThreadStarts ==
    /\ client
    /\ text' = "initial"
    /\ threadDone' = "open"
    /\ monitor' = "select"
    /\ UNCHANGED <<client, finish, late>>

ThreadFails ==
    /\ client
    /\ text' \in {"none", "initial"}
    /\ UNCHANGED <<client, threadDone, monitor, finish, late>>

(* monitorThread.  A goroutine that is parked in the select is woken by    *)
(* the timer or by the close of the channel, whichever comes first; the    *)
(* timer is new in every round.                                            *)
TimerFires ==
    /\ monitor = "select"
    /\ threadDone = "open"
    /\ monitor' = "fired"
    /\ UNCHANGED <<client, threadDone, finish, text, late>>

UpdateSpinner ==
    /\ monitor = "fired"
    /\ monitor' = "update"
    /\ UNCHANGED <<client, threadDone, finish, text, late>>

SpinnerAnswered ==
    /\ monitor = "answer"
    /\ monitor' = "select"
    /\ UNCHANGED <<client, threadDone, finish, text, late>>

MonitorReturns ==
    /\ monitor = "select"
    /\ threadDone = "closed"
    /\ monitor' = "exited"
    /\ UNCHANGED <<client, threadDone, finish, text, late>>

(* FinishThread: there may be no thread, if StartThread failed.            *)
NoThread ==
    /\ threadDone = "nil"
    /\ finish' = "returned"
    /\ UNCHANGED <<client, threadDone, monitor, text, late>>

CloseThread_NotClosed ==
    /\ threadDone = "open"
    /\ finish' = "update"
    /\ late' = (monitor \in InFlight)
    /\ UNCHANGED <<client, threadDone, monitor, text>>

CloseThread ==
    /\ threadDone = "open"
    /\ threadDone' = "closed"
    /\ finish' = "update"
    /\ late' = (monitor \in InFlight)
    /\ UNCHANGED <<client, monitor, text>>

FinishAnswered ==
    /\ finish = "answer"
    /\ finish' = "returned"
    /\ UNCHANGED <<client, threadDone, monitor, text, late>>

(* Slack carries out an update that is on its way, or fails it.            *)
SpinnerArrives ==
    /\ monitor = "update"
    /\ monitor' = "answer"
    /\ text' \in {text, "spinner"}
    /\ UNCHANGED <<client, threadDone, finish, late>>

FinishArrives(mark) ==
    /\ finish = "update"
    /\ finish' = "answer"
    /\ text' \in {text, mark}
    /\ UNCHANGED <<client, threadDone, monitor, late>>

Monitor == TimerFires \/ UpdateSpinner \/ SpinnerAnswered \/ MonitorReturns
=============================================================================
