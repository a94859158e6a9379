------------------------------- MODULE LiveEvents -------------------------------
(* The event broker (sse.py) and the streams that read it (runner.stream_job_      *)
(* events).  notify runs in worker threads, the streams in the event loop: the     *)
(* queues are touched from both sides without a lock, so a put can fall between a  *)
(* stream's look at its queue and its wait, and its wake-up is then lost.          *)
(* asyncio.Queue is external; a connection is never reused, a new one has a queue  *)
(* of its own.                                                                     *)
EXTENDS Integers, Sequences, FiniteSets

CONSTANTS
    Stream,              \* connections
    Thread,              \* worker threads that may notify at once
    QueueSize,           \* maxsize of a queue, 50 in the code
    MaxEvents            \* bound: events published

ASSUME LiveAssumption == QueueSize \in Nat \ {0} /\ MaxEvents \in Nat

VARIABLES
    _subscribers,        \* streams whose queue is registered
    queue,               \* stream -> events waiting
    wait,                \* stream -> where its coroutine stands
    sending,             \* thread -> the notify it is in
    published,           \* events so far
    sent, delivered,     \* stream -> events put into its queue, events it yielded
    missed               \* stream -> events refused by its full queue

liveVars == <<_subscribers, queue, wait, sending, published, sent, delivered, missed>>

Quiet == [left |-> {}, dead |-> {}, event |-> 0]

LiveInit ==
    /\ _subscribers = {} /\ published = 0
    /\ queue = [s \in Stream |-> <<>>]
    /\ wait = [s \in Stream |-> "new"]
    /\ sending = [t \in Thread |-> Quiet]
    /\ sent = [s \in Stream |-> <<>>] /\ delivered = [s \in Stream |-> <<>>]
    /\ missed = [s \in Stream |-> {}]

---------------------------------------------------------------------------------
(* notify, one queue at a time *)

StartNotify(t) ==
    /\ sending[t] = Quiet /\ published < MaxEvents
    /\ published' = published + 1
    /\ sending' = [sending EXCEPT ![t] = [left |-> _subscribers, dead |-> {}, event |-> published']]
    /\ UNCHANGED <<_subscribers, queue, wait, sent, delivered, missed>>

\* put_nowait wakes a parked getter, and only a parked one.
PutNowait(t, s) ==
    /\ s \in sending[t].left
    /\ LET e == sending[t].event
       IN  IF Len(queue[s]) < QueueSize
           THEN /\ queue' = [queue EXCEPT ![s] = Append(@, e)]
                /\ sent' = [sent EXCEPT ![s] = Append(@, e)]
                /\ wait' = [wait EXCEPT ![s] = IF @ = "parked" THEN "woken" ELSE @]
                /\ sending' = [sending EXCEPT ![t].left = @ \ {s}]
                /\ UNCHANGED missed
           ELSE /\ missed' = [missed EXCEPT ![s] = @ \cup {e}]
                /\ sending' = [sending EXCEPT ![t].left = @ \ {s}, ![t].dead = @ \cup {s}]
                /\ UNCHANGED <<queue, sent, wait>>
    /\ UNCHANGED <<_subscribers, published, delivered>>

\* Mutant of PruneDead: the dead list is dropped.
PruneNone(t) ==
    /\ sending[t] # Quiet /\ sending[t].left = {}
    /\ sending' = [sending EXCEPT ![t] = Quiet]
    /\ UNCHANGED <<_subscribers, queue, wait, published, sent, delivered, missed>>

\* The queues found full are unregistered, drained in the meantime or not.
PruneDead(t) ==
    /\ sending[t] # Quiet /\ sending[t].left = {}
    /\ _subscribers' = _subscribers \ sending[t].dead
    /\ sending' = [sending EXCEPT ![t] = Quiet]
    /\ UNCHANGED <<queue, wait, published, sent, delivered, missed>>

---------------------------------------------------------------------------------
(* stream_job_events.generate *)

Subscribe(s) ==
    /\ wait[s] = "new"
    /\ _subscribers' = _subscribers \cup {s}
    /\ wait' = [wait EXCEPT ![s] = "next"]
    /\ UNCHANGED <<queue, sending, published, sent, delivered, missed>>

\* q.get: an event at once, or the look that finds none.
Get(s) ==
    /\ wait[s] = "next"
    /\ IF queue[s] # <<>>
       THEN /\ delivered' = [delivered EXCEPT ![s] = Append(@, Head(queue[s]))]
            /\ queue' = [queue EXCEPT ![s] = Tail(@)]
            /\ UNCHANGED wait
       ELSE wait' = [wait EXCEPT ![s] = "empty"] /\ UNCHANGED <<delivered, queue>>
    /\ UNCHANGED <<_subscribers, sending, published, sent, missed>>

Park(s) ==
    /\ wait[s] = "empty"
    /\ wait' = [wait EXCEPT ![s] = "parked"]
    /\ UNCHANGED <<_subscribers, queue, sending, published, sent, delivered, missed>>

Resume(s) ==
    /\ wait[s] = "woken"
    /\ wait' = [wait EXCEPT ![s] = "next"]
    /\ UNCHANGED <<_subscribers, queue, sending, published, sent, delivered, missed>>

\* Mutant of TimeOut: the cancelled get has already taken its event.
TimeOutDropsEvent(s) ==
    /\ wait[s] \in {"parked", "woken"}
    /\ wait' = [wait EXCEPT ![s] = "next"]
    /\ queue' = [queue EXCEPT ![s] = IF @ = <<>> THEN @ ELSE Tail(@)]
    /\ UNCHANGED <<_subscribers, sending, published, sent, delivered, missed>>

\* Mutant of TimeOut: the wait has no deadline.
TimeOutNever(s) == FALSE /\ UNCHANGED liveVars

\* Twenty seconds without an event: the get is cancelled, a keepalive goes out, and
\* the next get looks at the queue again.
TimeOut(s) ==
    /\ wait[s] \in {"parked", "woken"}
    /\ wait' = [wait EXCEPT ![s] = "next"]
    /\ UNCHANGED <<_subscribers, queue, sending, published, sent, delivered, missed>>

\* The client goes away: the finally clause, and nobody reads the queue again.
Disconnect(s) ==
    /\ wait[s] \notin {"new", "closed"}
    /\ _subscribers' = _subscribers \ {s}
    /\ wait' = [wait EXCEPT ![s] = "closed"]
    /\ UNCHANGED <<queue, sending, published, sent, delivered, missed>>

StreamStep(s) == Get(s) \/ Park(s) \/ Resume(s) \/ TimeOut(s)
NotifyStep(t) == PruneDead(t) \/ \E s \in Stream : PutNowait(t, s)

LiveNext ==
    \/ \E t \in Thread : StartNotify(t) \/ NotifyStep(t)
    \/ \E s \in Stream : Subscribe(s) \/ StreamStep(s) \/ Disconnect(s)

\* The loop runs every coroutine that can go on, the timer included; a notify that
\* started runs to its end.
LiveFairness ==
    /\ \A s \in Stream : WF_liveVars(StreamStep(s))
    /\ \A t \in Thread : WF_liveVars(NotifyStep(t))

LiveSpec == LiveInit /\ [][LiveNext]_liveVars /\ LiveFairness

---------------------------------------------------------------------------------
(* Properties. *)

\* What a stream yielded and what still waits in its queue is what was put there, in
\* that order, none lost and none twice, whatever timeouts cancel its reads.
NothingLostInFlight ==
    \A s \in Stream : delivered[s] \o queue[s] = sent[s]

\* An event refused by a full queue costs the stream its registration: a stream that
\* missed one stays registered only while the notify that saw it full is under way, so
\* no stream goes on reading past a gap (sse.notify).
MissedOnlyWhenCut ==
    \A s \in _subscribers :
        \A e \in missed[s] : \E t \in Thread : sending[t].event = e /\ s \in sending[t].dead

\* No stream loses an event without losing its registration: what was queued is yielded once and
\* in order, and what was refused cuts the stream off (sse.notify, stream_job_events).
StreamsLoseNothing == NothingLostInFlight /\ MissedOnlyWhenCut

\* Every event put into an open stream's queue reaches its client, a lost wake-up
\* included: the keepalive timeout makes the stream look again.
QueuedIsDelivered ==
    \A s \in Stream :
        (queue[s] # <<>> /\ wait[s] # "closed") ~> (queue[s] = <<>> \/ wait[s] = "closed")
===============================================================================
