-------------------------------- MODULE MCQueue ---------------------------------
(* What waits and must not wait forever: the jobs of GET /jobs/pending and the      *)
(* events of the live stream.  The two share no state; a behaviour runs one of      *)
(* them, and the properties are checked of both.                                    *)
EXTENDS MCJobControl, LiveEvents

VARIABLE focus

queueVars == <<focus, vars, liveVars>>

QueueInit == focus \in {"jobs", "events"} /\ Init /\ LiveInit

QueueNext ==
    /\ UNCHANGED focus
    /\ \/ focus = "jobs" /\ Next /\ UNCHANGED liveVars
       \/ focus = "events" /\ LiveNext /\ UNCHANGED vars

\* FairSpec's fairness for the jobs, LiveFairness for the events, each in its behaviours.
QueueSpec ==
    /\ QueueInit /\ [][QueueNext]_queueVars
    /\ \A p \in Poller : WF_vars(focus = "jobs" /\ PollStep(p))
    /\ \A s \in Stream : WF_liveVars(focus = "events" /\ StreamStep(s))
    /\ \A t \in Thread : WF_liveVars(focus = "events" /\ NotifyStep(t))
===============================================================================
