--------------------------- MODULE LiveEventsProofs ---------------------------
(***************************************************************************)
(* Proofs about LiveEvents for every set of connections and threads, every *)
(* queue size and any number of events: what is put into a queue is        *)
(* yielded once and in order, and a stream that missed an event is cut off. *)
(***************************************************************************)
EXTENDS LiveEvents, SequenceTheorems, TLAPS

LiveTypeOK ==
    /\ _subscribers \subseteq Stream /\ published \in Nat
    /\ queue \in [Stream -> Seq(Nat)]
    /\ sent \in [Stream -> Seq(Nat)] /\ delivered \in [Stream -> Seq(Nat)]
    /\ wait \in [Stream -> {"new", "next", "empty", "parked", "woken", "closed"}]
    /\ sending \in [Thread -> [left : SUBSET Stream, dead : SUBSET Stream, event : Nat]]
    /\ missed \in [Stream -> SUBSET Nat]

\* A connection that has not subscribed yet is known to no notify and missed nothing.
NewIsUnknown ==
    \A s \in Stream : wait[s] = "new" =>
        /\ s \notin _subscribers /\ missed[s] = {}
        /\ \A t \in Thread : s \notin sending[t].left

\* The inductive invariant.  MissedOnlyWhenCut alone is not inductive: a connection
\* that missed an event before it subscribed would break it.
LiveInv == LiveTypeOK /\ NewIsUnknown /\ NothingLostInFlight /\ MissedOnlyWhenCut

-------------------------------------------------------------------------------
\* Putting an event into a queue appends it to what the stream will have yielded.
LEMMA PutKeepsOrder ==
    ASSUME NEW d \in Seq(Nat), NEW q \in Seq(Nat), NEW e \in Nat
    PROVE  d \o Append(q, e) = Append(d \o q, e)
  OBVIOUS

\* Yielding the head of a queue moves it and changes nothing else.
LEMMA YieldKeepsOrder ==
    ASSUME NEW d \in Seq(Nat), NEW q \in Seq(Nat), q # <<>>
    PROVE  /\ Append(d, Head(q)) \o Tail(q) = d \o q
           /\ Head(q) \in Nat /\ Tail(q) \in Seq(Nat)
  <1>1. Head(q) \in Nat /\ Tail(q) \in Seq(Nat)
    OBVIOUS
  <1>2. Len(q) >= 1 /\ Len(Tail(q)) = Len(q) - 1 /\ Len(q) \in Nat /\ Len(d) \in Nat
    OBVIOUS
  <1>3. Append(d, Head(q)) \o Tail(q) \in Seq(Nat) /\ d \o q \in Seq(Nat)
    BY <1>1
  <1>4. Len(Append(d, Head(q)) \o Tail(q)) = Len(d \o q)
    BY <1>1, <1>2
  <1>5. ASSUME NEW i \in 1..Len(d \o q)
        PROVE  (Append(d, Head(q)) \o Tail(q))[i] = (d \o q)[i]
    BY <1>1, <1>2
  <1> QED
    BY <1>1, <1>3, <1>4, <1>5, SeqEqual

\* Nothing is registered, queued or missed at the start.
LEMMA LiveInitInv == LiveInit => LiveInv
  BY DEF LiveInit, LiveInv, LiveTypeOK, NewIsUnknown, NothingLostInFlight, MissedOnlyWhenCut, Quiet

\* A notify step (sse.notify) keeps the invariant.
LEMMA NotifyKeepsInv ==
    ASSUME LiveInv, NEW t \in Thread, StartNotify(t) \/ NotifyStep(t)
    PROVE  LiveInv'
  <1> USE DEF LiveInv
  <1>1. CASE StartNotify(t)
    <2>1. LiveTypeOK' /\ NewIsUnknown'
      BY <1>1 DEF StartNotify, LiveTypeOK, NewIsUnknown, Quiet
    <2>2. MissedOnlyWhenCut'
      BY <1>1 DEF StartNotify, LiveTypeOK, MissedOnlyWhenCut, Quiet
    <2>3. NothingLostInFlight'
      BY <1>1 DEF StartNotify, NothingLostInFlight
    <2> QED
      BY <2>1, <2>2, <2>3
  <1>2. CASE PruneDead(t)
    <2>1. LiveTypeOK' /\ NewIsUnknown'
      BY <1>2 DEF PruneDead, LiveTypeOK, NewIsUnknown, Quiet
    <2>2. MissedOnlyWhenCut'
      BY <1>2 DEF PruneDead, LiveTypeOK, MissedOnlyWhenCut, Quiet
    <2>3. NothingLostInFlight'
      BY <1>2 DEF PruneDead, NothingLostInFlight
    <2> QED
      BY <2>1, <2>2, <2>3
  <1>3. ASSUME NEW s \in Stream, PutNowait(t, s) PROVE LiveInv'
    <2> DEFINE e == sending[t].event
               Sending == [left : SUBSET Stream, dead : SUBSET Stream, event : Nat]
               row(dead) == [left |-> sending[t].left \ {s}, dead |-> dead, event |-> e]
    <2>0. /\ e \in Nat /\ s \in sending[t].left /\ wait[s] # "new"
          /\ sending[t] \in Sending
      BY <1>3 DEF PutNowait, LiveTypeOK, NewIsUnknown
    <2>1. UNCHANGED <<_subscribers, published, delivered>>
      BY <1>3 DEF PutNowait
    <2>2. CASE Len(queue[s]) < QueueSize
      <3>1. /\ queue' = [queue EXCEPT ![s] = Append(queue[s], e)]
            /\ sent' = [sent EXCEPT ![s] = Append(sent[s], e)]
            /\ wait' = [wait EXCEPT ![s] = IF wait[s] = "parked" THEN "woken" ELSE wait[s]]
            /\ UNCHANGED missed
        BY <1>3, <2>2 DEF PutNowait
      <3>2. sending' = [sending EXCEPT ![t] = row(sending[t].dead)]
        BY <1>3, <2>0, <2>2 DEF PutNowait
      <3>3. /\ Append(queue[s], e) \in Seq(Nat) /\ Append(sent[s], e) \in Seq(Nat)
            /\ row(sending[t].dead) \in Sending
        BY <2>0 DEF LiveTypeOK
      <3>4. LiveTypeOK'
        BY <2>1, <3>1, <3>2, <3>3 DEF LiveTypeOK
      <3>5. NewIsUnknown'
        BY <2>0, <2>1, <3>1, <3>2 DEF LiveTypeOK, NewIsUnknown
      <3>6. NothingLostInFlight'
        <4> SUFFICES ASSUME NEW x \in Stream PROVE (delivered[x] \o queue[x] = sent[x])'
          BY DEF NothingLostInFlight
        <4>1. /\ delivered[x] \in Seq(Nat) /\ queue[x] \in Seq(Nat)
              /\ delivered[x] \o queue[x] = sent[x] /\ delivered'[x] = delivered[x]
          BY <2>1 DEF LiveTypeOK, NothingLostInFlight
        <4>2. CASE x = s
          <5>1. queue'[x] = Append(queue[x], e) /\ sent'[x] = Append(sent[x], e)
            BY <3>1, <4>2 DEF LiveTypeOK
          <5> QED
            BY <2>0, <4>1, <5>1, PutKeepsOrder
        <4>3. CASE x # s
          <5>1. queue'[x] = queue[x] /\ sent'[x] = sent[x]
            BY <3>1, <4>3 DEF LiveTypeOK
          <5> QED
            BY <4>1, <5>1
        <4> QED
          BY <4>2, <4>3
      <3>7. MissedOnlyWhenCut'
        BY <2>1, <3>1, <3>2 DEF LiveTypeOK, MissedOnlyWhenCut
      <3> QED
        BY <3>4, <3>5, <3>6, <3>7
    <2>3. CASE ~(Len(queue[s]) < QueueSize)
      <3>1. /\ missed' = [missed EXCEPT ![s] = missed[s] \cup {e}]
            /\ UNCHANGED <<queue, sent, wait>>
        BY <1>3, <2>3 DEF PutNowait
      <3>2. sending' = [sending EXCEPT ![t] = row(sending[t].dead \cup {s})]
        BY <1>3, <2>0, <2>3 DEF PutNowait
      <3>3. row(sending[t].dead \cup {s}) \in Sending
        BY <2>0
      <3>4. LiveTypeOK'
        BY <2>0, <2>1, <3>1, <3>2, <3>3 DEF LiveTypeOK
      <3>5. NewIsUnknown'
        BY <2>0, <2>1, <3>1, <3>2 DEF LiveTypeOK, NewIsUnknown
      <3>6. NothingLostInFlight'
        BY <2>1, <3>1 DEF NothingLostInFlight
      <3>7. MissedOnlyWhenCut'
        BY <2>0, <2>1, <3>1, <3>2 DEF LiveTypeOK, MissedOnlyWhenCut
      <3> QED
        BY <3>4, <3>5, <3>6, <3>7
    <2> QED
      BY <2>2, <2>3
  <1> QED
    BY <1>1, <1>2, <1>3 DEF NotifyStep

\* A step of a connection (stream_job_events.generate) keeps the invariant.
LEMMA StreamKeepsInv ==
    ASSUME LiveInv, NEW s \in Stream, Subscribe(s) \/ StreamStep(s) \/ Disconnect(s)
    PROVE  LiveInv'
  <1> USE DEF LiveInv
  <1>1. CASE Subscribe(s) \/ Disconnect(s)
    <2>1. LiveTypeOK'
      BY <1>1 DEF Subscribe, Disconnect, LiveTypeOK
    <2>2. NewIsUnknown'
      BY <1>1 DEF Subscribe, Disconnect, LiveTypeOK, NewIsUnknown
    <2>3. MissedOnlyWhenCut'
      <3>1. UNCHANGED <<missed, sending>> /\ _subscribers' \subseteq _subscribers \cup {s}
        BY <1>1 DEF Subscribe, Disconnect
      <3>2. s \in _subscribers' => s \in _subscribers \/ missed[s] = {}
        BY <1>1 DEF Subscribe, Disconnect, NewIsUnknown
      <3> QED
        BY <3>1, <3>2 DEF MissedOnlyWhenCut
    <2>4. NothingLostInFlight'
      BY <1>1 DEF Subscribe, Disconnect, NothingLostInFlight
    <2> QED
      BY <2>1, <2>2, <2>3, <2>4
  <1>2. CASE Park(s) \/ Resume(s) \/ TimeOut(s)
    <2>1. /\ UNCHANGED <<_subscribers, queue, sending, published, sent, delivered, missed>>
          /\ wait[s] # "new"
          /\ \E w \in {"parked", "next"} : wait' = [wait EXCEPT ![s] = w]
      BY <1>2 DEF Park, Resume, TimeOut
    <2>2. LiveTypeOK'
      <3>1. wait' \in [Stream -> {"new", "next", "empty", "parked", "woken", "closed"}]
        BY <2>1 DEF LiveTypeOK
      <3> QED
        BY <2>1, <3>1 DEF LiveTypeOK
    <2>3. NewIsUnknown'
      BY <2>1 DEF LiveTypeOK, NewIsUnknown
    <2>4. MissedOnlyWhenCut'
      BY <2>1 DEF MissedOnlyWhenCut
    <2>5. NothingLostInFlight'
      BY <2>1 DEF NothingLostInFlight
    <2> QED
      BY <2>2, <2>3, <2>4, <2>5
  <1>3. CASE Get(s)
    <2>0. delivered[s] \in Seq(Nat) /\ queue[s] \in Seq(Nat)
      BY DEF LiveTypeOK
    <2>1. LiveTypeOK'
      <3>1. CASE queue[s] # <<>>
        <4>1. Append(delivered[s], Head(queue[s])) \in Seq(Nat) /\ Tail(queue[s]) \in Seq(Nat)
          BY <2>0, <3>1, YieldKeepsOrder
        <4> QED
          BY <1>3, <3>1, <4>1 DEF Get, LiveTypeOK
      <3>2. CASE queue[s] = <<>>
        <4>1. wait' \in [Stream -> {"new", "next", "empty", "parked", "woken", "closed"}]
          BY <1>3, <3>2 DEF Get, LiveTypeOK
        <4> QED
          BY <1>3, <3>2, <4>1 DEF Get, LiveTypeOK
      <3> QED
        BY <3>1, <3>2
    <2>2. NewIsUnknown'
      BY <1>3 DEF Get, LiveTypeOK, NewIsUnknown
    <2>3. MissedOnlyWhenCut'
      BY <1>3 DEF Get, MissedOnlyWhenCut
    <2>4. NothingLostInFlight'
      <3> SUFFICES ASSUME NEW x \in Stream PROVE (delivered[x] \o queue[x] = sent[x])'
        BY DEF NothingLostInFlight
      <3>1. CASE x = s /\ queue[s] # <<>>
        <4>1. /\ delivered'[s] = Append(delivered[s], Head(queue[s])) /\ queue'[s] = Tail(queue[s])
              /\ sent' = sent
          BY <1>3, <3>1 DEF Get, LiveTypeOK
        <4>2. delivered[s] \o queue[s] = sent[s]
          BY DEF NothingLostInFlight
        <4>3. Append(delivered[s], Head(queue[s])) \o Tail(queue[s]) = delivered[s] \o queue[s]
          BY <2>0, <3>1, YieldKeepsOrder
        <4> QED
          BY <3>1, <4>1, <4>2, <4>3
      <3>2. CASE ~(x = s /\ queue[s] # <<>>)
        BY <1>3, <3>2 DEF Get, LiveTypeOK, NothingLostInFlight
      <3> QED
        BY <3>1, <3>2
    <2> QED
      BY <2>1, <2>2, <2>3, <2>4
  <1> QED
    BY <1>1, <1>2, <1>3 DEF StreamStep

\* The invariant is inductive.
LEMMA LiveInductive == LiveInv /\ [LiveNext]_liveVars => LiveInv'
  <1>1. LiveInv /\ UNCHANGED liveVars => LiveInv'
    BY DEF liveVars, LiveInv, LiveTypeOK, NewIsUnknown, NothingLostInFlight, MissedOnlyWhenCut
  <1> QED
    BY <1>1, NotifyKeepsInv, StreamKeepsInv DEF LiveNext

\* Whatever threads notify at once and whichever waits time out, a stream yields what was
\* queued for it once and in order, and reads on past no gap (sse.py, stream_job_events).
THEOREM StreamsTheorem == LiveSpec => []StreamsLoseNothing
  <1>1. LiveInv => StreamsLoseNothing
    BY DEF LiveInv, StreamsLoseNothing
  <1> QED
    BY <1>1, LiveInitInv, LiveInductive, PTL DEF LiveSpec
===============================================================================
