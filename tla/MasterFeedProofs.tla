-------------------------- MODULE MasterFeedProofs --------------------------
(***************************************************************************)
(* Theorems about MasterFeed, for every number of slaves, of faults, calls *)
(* and events: the server hears one stream at a time and prepares the next *)
(* attempt once, and the sink is given the master's events in their order. *)
(***************************************************************************)
EXTENDS MasterFeed, TLAPS

-----------------------------------------------------------------------------
(* The invariant.                                                          *)

Events == [n : Nat, slave : SUBSET Slaves, run : SUBSET {"project"},
           value : Standing \cup Nat]
Stream == [st : {"free", "open", "error", "expected", "end"},
           queue : Seq(Events), settled : BOOLEAN]

TypeOK ==
  /\ streams \in [StreamIds -> Stream]
  /\ eventStream \in StreamIds \cup {NoStream}
  /\ eventStreamReconnectTimer \in BOOLEAN /\ masterConnectionTimer \in BOOLEAN
  /\ stopRequested \in BOOLEAN /\ up \in BOOLEAN
  /\ probe \in {"idle", "health", "metadata"}
  /\ sent \in Nat /\ last \in Nat

\* One stream at a time lives; it has the handle while it is open, and a stream
\* with the handle has not called back yet.
OneStream ==
  /\ \A i, j \in StreamIds :
       streams[i].st # "free" /\ streams[j].st # "free" => i = j
  /\ \A i \in StreamIds :
       /\ streams[i].st = "open" => eventStream = i
       /\ eventStream = i => streams[i].st # "free" /\ ~streams[i].settled

\* Either a probe is scheduled or one is under way.
OneProbe ==
  IF stopRequested THEN ~masterConnectionTimer /\ ~eventStreamReconnectTimer
  ELSE masterConnectionTimer <=> probe = "idle"

\* What waits in a queue is newer than the number l, was sent up to the number
\* s, and comes in the order of its numbers.  Heartbeats have no number.
InOrder(q, l, s) ==
  /\ \A i \in DOMAIN q : q[i].n # 0 => l < q[i].n /\ q[i].n <= s
  /\ \A i, j \in DOMAIN q : i < j /\ q[i].n # 0 /\ q[j].n # 0 => q[i].n < q[j].n

Queues ==
  /\ last <= sent
  /\ \A i \in StreamIds : /\ streams[i].st # "open" => streams[i].queue = <<>>
                          /\ InOrder(streams[i].queue, last, sent)

FeedInv == TypeOK /\ OneStream /\ OneProbe /\ Queues
-----------------------------------------------------------------------------
(* Queues of events.                                                       *)

LEMMA EmptyInOrder == ASSUME NEW l, NEW s PROVE InOrder(<<>>, l, s)
  BY DEF InOrder

\* A new event goes to the end of a queue, or it is a heartbeat.
LEMMA AppendInOrder ==
  ASSUME NEW q \in Seq(Events), NEW l \in Nat, NEW s \in Nat, InOrder(q, l, s), l <= s,
         NEW e \in Events, NEW t \in Nat,
         \/ e.n = 0 /\ t = s
         \/ e.n = t /\ t = s + 1
  PROVE  InOrder(q, l, t) /\ InOrder(Append(q, e), l, t)
<1>1. ASSUME NEW i \in DOMAIN q PROVE q[i].n \in Nat
  <2>1. q[i] \in Events
    OBVIOUS
  <2> QED
    BY <2>1 DEF Events
<1>2. e.n \in Nat
  BY DEF Events
<1>3. InOrder(q, l, t)
  BY <1>1, <1>2 DEF InOrder
<1> DEFINE x == Append(q, e)
<1>4. /\ DOMAIN x = 1 .. Len(q) + 1 /\ DOMAIN q = 1 .. Len(q) /\ Len(q) \in Nat
      /\ \A i \in DOMAIN q : x[i] = q[i]
      /\ x[Len(q) + 1] = e
  OBVIOUS
<1> HIDE DEF x
<1>5. InOrder(x, l, t)
  <2>1. ASSUME NEW i \in DOMAIN x, x[i].n # 0 PROVE l < x[i].n /\ x[i].n <= t
    <3>1. CASE i \in DOMAIN q
      BY <1>3, <1>4, <2>1, <3>1 DEF InOrder
    <3>2. CASE i = Len(q) + 1
      BY <1>2, <1>4, <2>1, <3>2
    <3> QED
      BY <1>4, <3>1, <3>2
  <2>2. ASSUME NEW i \in DOMAIN x, NEW j \in DOMAIN x, i < j, x[i].n # 0, x[j].n # 0
        PROVE  x[i].n < x[j].n
    <3>1. i \in DOMAIN q
      BY <1>4, <2>2
    <3>2. CASE j \in DOMAIN q
      BY <1>3, <1>4, <2>2, <3>1, <3>2 DEF InOrder
    <3>3. CASE j = Len(q) + 1
      <4>1. q[i].n \in Nat /\ q[i].n <= s /\ x[i].n = q[i].n /\ x[j] = e
        BY <1>1, <1>4, <2>2, <3>1, <3>3 DEF InOrder
      <4> QED
        BY <2>2, <4>1
    <3> QED
      BY <1>4, <3>2, <3>3
  <2> QED
    BY <2>1, <2>2 DEF InOrder
<1> QED
  BY <1>3, <1>5 DEF x

\* Handling the head of a queue moves the last number up to it, and what
\* remains is newer still.
LEMMA TailInOrder ==
  ASSUME NEW q \in Seq(Events), q # <<>>, NEW l \in Nat, NEW s \in Nat,
         InOrder(q, l, s), l <= s,
         NEW k, k = IF Head(q).n = 0 THEN l ELSE Head(q).n
  PROVE  /\ Head(q) \in Events /\ Tail(q) \in Seq(Events)
         /\ k \in Nat /\ l <= k /\ k <= s
         /\ Head(q).n # 0 => l < k
         /\ InOrder(Tail(q), k, s)
<1>1. ASSUME NEW i \in DOMAIN q PROVE q[i].n \in Nat
  <2>1. q[i] \in Events
    OBVIOUS
  <2> QED
    BY <2>1 DEF Events
<1> DEFINE x == Tail(q)
<1>2. /\ Head(q) \in Events /\ x \in Seq(Events) /\ Head(q) = q[1] /\ 1 \in DOMAIN q
      /\ \A i \in DOMAIN x : i \in Nat /\ i + 1 \in DOMAIN q /\ i >= 1 /\ x[i] = q[i + 1]
  OBVIOUS
<1> HIDE DEF x
<1>3. k \in Nat /\ l <= k /\ k <= s /\ (Head(q).n # 0 => l < k)
  BY <1>1, <1>2 DEF InOrder
<1>4. ASSUME NEW i \in DOMAIN x, x[i].n # 0 PROVE k < x[i].n /\ x[i].n <= s
  <2>1. l < q[i + 1].n /\ q[i + 1].n <= s
    BY <1>2, <1>4 DEF InOrder
  <2>2. Head(q).n # 0 => q[1].n < q[i + 1].n
    BY <1>2, <1>4 DEF InOrder
  <2> QED
    BY <1>2, <2>1, <2>2
<1>5. ASSUME NEW i \in DOMAIN x, NEW j \in DOMAIN x, i < j, x[i].n # 0, x[j].n # 0
      PROVE  x[i].n < x[j].n
  <2>1. i + 1 < j + 1 /\ i + 1 \in DOMAIN q /\ j + 1 \in DOMAIN q
    BY <1>2, <1>5
  <2> QED
    BY <1>2, <1>5, <2>1 DEF InOrder
<1>6. InOrder(x, k, s)
  BY <1>4, <1>5 DEF InOrder
<1> QED
  BY <1>2, <1>3, <1>6 DEF x
-----------------------------------------------------------------------------
(* What is sent.                                                           *)

\* An event reaches the stream that is open, or nobody: it is the newest or has
\* no number.
LEMMA PublishKeeps ==
  ASSUME TypeOK, OneStream, Queues, NEW e \in Events, Publish(e),
         \/ e.n = 0 /\ sent' = sent
         \/ e.n = sent' /\ sent' = sent + 1,
         last' = last, eventStream' = eventStream
  PROVE  /\ streams' \in [StreamIds -> Stream] /\ sent' \in Nat
         /\ OneStream' /\ Queues'
<1>1. ASSUME NEW i \in StreamIds
      PROVE  /\ streams'[i] \in Stream
             /\ streams'[i].st = streams[i].st
             /\ streams'[i].settled = streams[i].settled
             /\ \/ streams'[i].queue = streams[i].queue
                \/ /\ streams[i].st = "open"
                   /\ streams'[i].queue = Append(streams[i].queue, e)
  <2>1. streams[i] \in Stream
    BY DEF TypeOK
  <2>2. Append(streams[i].queue, e) \in Seq(Events)
    BY <2>1 DEF Stream
  <2>3. \/ streams'[i] = streams[i]
        \/ /\ streams[i].st = "open"
           /\ streams'[i] = [streams[i] EXCEPT !.queue = Append(@, e)]
    BY DEF Publish
  <2> QED
    BY <2>1, <2>2, <2>3 DEF Stream
<1>2. streams' \in [StreamIds -> Stream]
  BY <1>1 DEF Publish
<1>3. OneStream'
  BY <1>1 DEF OneStream
<1>4. sent \in Nat /\ last \in Nat /\ last <= sent /\ sent' \in Nat
  BY DEF TypeOK, Queues
<1>5. ASSUME NEW i \in StreamIds
      PROVE  /\ streams'[i].st # "open" => streams'[i].queue = <<>>
             /\ InOrder(streams'[i].queue, last', sent')
  <2>1. streams[i].queue \in Seq(Events) /\ InOrder(streams[i].queue, last, sent)
    BY DEF TypeOK, Stream, Queues
  <2>2. /\ InOrder(streams[i].queue, last, sent')
        /\ InOrder(Append(streams[i].queue, e), last, sent')
    BY <1>4, <2>1, AppendInOrder
  <2> QED
    BY <1>1, <2>2 DEF Queues
<1>6. Queues'
  BY <1>4, <1>5 DEF Queues
<1> QED
  BY <1>2, <1>3, <1>4, <1>6
-----------------------------------------------------------------------------
(* The steps.                                                              *)

\* Three of the conjuncts are about the streams alone.
Streaming ==
  /\ streams \in [StreamIds -> Stream] /\ eventStream \in StreamIds \cup {NoStream}
  /\ sent \in Nat /\ last \in Nat
  /\ OneStream /\ Queues

LEMMA FeedIsStreaming == FeedInv => Streaming
  BY DEF FeedInv, TypeOK, Streaming

LEMMA Published ==
  ASSUME FeedInv, NEW e \in Events, Publish(e),
         \/ e.n = 0 /\ sent' = sent
         \/ e.n = sent' /\ sent' = sent + 1,
         UNCHANGED <<handles, masterConnectionTimer, probe, stopRequested, up, last>>
  PROVE  FeedInv'
<1>1. /\ streams' \in [StreamIds -> Stream] /\ sent' \in Nat
      /\ OneStream' /\ Queues'
  BY PublishKeeps DEF FeedInv, handles
<1> QED
  BY <1>1 DEF FeedInv, TypeOK, OneProbe, handles

LEMMA SlaveEvents ==
  ASSUME NEW n \in Nat, NEW s \in Slaves, NEW v \in Standing
  PROVE  SlaveEvent(n, s, v) \in Events /\ SlaveEvent(n, s, v).n = n
  BY DEF SlaveEvent, Events

LEMMA RunEvents ==
  ASSUME NEW n \in Nat PROVE RunEvent(n, n) \in Events /\ RunEvent(n, n).n = n
  BY DEF RunEvent, Events

LEMMA PassedOnEvents ==
  ASSUME NEW n \in Nat PROVE PassedOn(n) \in Events /\ PassedOn(n).n = n
  BY DEF PassedOn, Events

\* Nothing of the connection moves.
LEMMA SteadyFeed ==
  ASSUME FeedInv,
         UNCHANGED <<streams, handles, masterConnectionTimer, probe, stopRequested, sent, last>>,
         up' \in BOOLEAN
  PROVE  FeedInv'
<1>1. TypeOK'
  BY DEF FeedInv, TypeOK, handles
<1>2. OneStream' /\ OneProbe' /\ Queues'
  BY DEF FeedInv, OneStream, OneProbe, Queues, handles
<1> QED
  BY <1>1, <1>2 DEF FeedInv

LEMMA BreakKeeps ==
  ASSUME FeedInv, NEW how \in {"error", "expected", "end"}, NEW down \in BOOLEAN,
         StreamsBreak(how, down)
  PROVE  FeedInv'
<1>1. ASSUME NEW i \in StreamIds
      PROVE  /\ streams'[i] \in Stream
             /\ streams'[i].st = IF streams[i].st = "open" THEN how ELSE streams[i].st
             /\ streams'[i].settled = streams[i].settled
             /\ streams'[i].queue = <<>>
  <2>1. streams[i] \in Stream /\ (streams[i].st # "open" => streams[i].queue = <<>>)
    BY DEF FeedInv, TypeOK, Queues
  <2>2. streams'[i] = IF streams[i].st = "open"
                      THEN [streams[i] EXCEPT !.st = how, !.queue = <<>>] ELSE streams[i]
    BY DEF StreamsBreak
  <2>3. <<>> \in Seq(Events)
    OBVIOUS
  <2> QED
    BY <2>1, <2>2, <2>3 DEF Stream
<1>2. TypeOK'
  BY <1>1 DEF FeedInv, TypeOK, StreamsBreak, Unseen, handles
<1>3. OneStream'
  BY <1>1 DEF FeedInv, OneStream, StreamsBreak, Unseen, handles
<1>4. OneProbe'
  BY DEF FeedInv, OneProbe, StreamsBreak, Unseen, handles
<1>5. Queues'
  BY <1>1, EmptyInOrder DEF FeedInv, Queues, StreamsBreak, Unseen
<1> QED
  BY <1>2, <1>3, <1>4, <1>5 DEF FeedInv

LEMMA EventKeeps ==
  ASSUME FeedInv, NEW i \in StreamIds, handleMasterEvent(i)
  PROVE  FeedInv' /\ last <= last' /\ last' <= sent /\ sent' = sent
<1> DEFINE q == streams[i].queue
<1>1. /\ q \in Seq(Events) /\ q # <<>> /\ streams[i] \in Stream /\ streams[i].st = "open"
      /\ last \in Nat /\ sent \in Nat /\ InOrder(q, last, sent) /\ last <= sent
  BY DEF FeedInv, TypeOK, Stream, Queues, handleMasterEvent
<1>2. last' = IF Head(q).n = 0 THEN last ELSE Head(q).n
  BY DEF handleMasterEvent, Handle
<1>3. /\ Tail(q) \in Seq(Events) /\ last' \in Nat /\ last <= last' /\ last' <= sent
      /\ InOrder(Tail(q), last', sent)
  BY <1>1, <1>2, TailInOrder
<1>4. streams' = [streams EXCEPT ![i] = [@ EXCEPT !.queue = Tail(q)]]
  BY DEF handleMasterEvent
<1>5. /\ streams' \in [StreamIds -> Stream]
      /\ streams'[i].queue = Tail(q) /\ streams'[i].st = "open"
      /\ streams'[i].settled = streams[i].settled
      /\ \A j \in StreamIds : j # i => streams'[j] = streams[j]
  BY <1>1, <1>3, <1>4 DEF FeedInv, TypeOK, Stream
<1> HIDE DEF q
<1>6. /\ UNCHANGED <<handles, masterConnectionTimer, probe, stopRequested, sent, up>>
  BY DEF handleMasterEvent, master
<1>7. TypeOK'
  BY <1>3, <1>5, <1>6 DEF FeedInv, TypeOK, handles
<1>8. OneStream'
  BY <1>1, <1>5, <1>6 DEF FeedInv, OneStream, handles
<1>9. OneProbe'
  BY <1>6 DEF FeedInv, OneProbe, handles
<1>10. Queues'
  <2>1. ASSUME NEW j \in StreamIds, j # i
        PROVE  /\ streams'[j].st # "open" => streams'[j].queue = <<>>
               /\ InOrder(streams'[j].queue, last', sent')
    <3>1. streams'[j].queue = <<>>
      BY <1>1, <1>5, <2>1 DEF FeedInv, OneStream, Queues
    <3> QED
      BY <3>1, EmptyInOrder
  <2> QED
    BY <1>3, <1>5, <1>6, <2>1 DEF Queues
<1> QED
  BY <1>3, <1>6, <1>7, <1>8, <1>9, <1>10 DEF FeedInv

\* Where no callback is due every stream is free or open, and open only with
\* the handle.
LEMMA Calm ==
  ASSUME Streaming, ~Ticking, NEW i \in StreamIds
  PROVE  \/ streams[i].st = "free"
         \/ streams[i].st = "open" /\ eventStream = i
  BY DEF Streaming, Ticking, OneStream, Stream

\* A subscription is made only where no stream is left.
LEMMA ConnectKeeps ==
  ASSUME Streaming, up \in BOOLEAN, ~Ticking, connectEventStream, UNCHANGED <<sent, last>>
  PROVE  Streaming'
<1>1. CASE UNCHANGED <<streams, eventStream>>
  BY <1>1 DEF Streaming, OneStream, Queues
<1>2. CASE eventStream = NoStream /\ Subscribe
  <2>1. PICK i \in StreamIds :
          /\ streams[i].st = "free"
          /\ streams' = [streams EXCEPT ![i] = [Opened EXCEPT !.st = IF up THEN "open" ELSE "error"]]
          /\ eventStream' = i
    BY <1>2 DEF Subscribe
  <2>2. \A j \in StreamIds : streams[j].st = "free"
    BY <1>2, Calm DEF StreamIds, NoStream
  <2>3. <<>> \in Seq(Events)
    OBVIOUS
  <2>4. /\ streams' \in [StreamIds -> Stream]
        /\ streams'[i].st \in {"open", "error"} /\ ~streams'[i].settled
        /\ streams'[i].queue = <<>>
        /\ \A j \in StreamIds : j # i => streams'[j] = streams[j]
    BY <2>1, <2>3 DEF Streaming, Opened, Stream
  <2>5. OneStream'
    BY <2>1, <2>2, <2>4 DEF OneStream
  <2>6. Queues'
    BY <2>4, EmptyInOrder DEF Streaming, Queues
  <2> QED
    BY <2>1, <2>4, <2>5, <2>6 DEF Streaming
<1> QED
  BY <1>1, <1>2 DEF connectEventStream

LEMMA ClearKeeps ==
  ASSUME Streaming, ~Ticking, clearEventStream, UNCHANGED <<sent, last>>
  PROVE  Streaming'
<1>1. ASSUME NEW i \in StreamIds
      PROVE  /\ streams'[i] \in Stream
             /\ streams'[i].st = IF streams[i].st = "open" THEN "expected" ELSE streams[i].st
             /\ streams'[i].queue = <<>>
  <2>1. streams[i] \in Stream /\ (streams[i].st # "open" => streams[i].queue = <<>>)
    BY DEF Streaming, Queues
  <2>2. streams'[i] = IF i = eventStream /\ streams[i].st = "open"
                      THEN [streams[i] EXCEPT !.st = "expected", !.queue = <<>>]
                      ELSE streams[i]
    BY DEF clearEventStream
  <2>3. <<>> \in Seq(Events)
    OBVIOUS
  <2> QED
    BY <2>1, <2>2, <2>3, Calm DEF Stream
<1>2. streams' \in [StreamIds -> Stream] /\ eventStream' = NoStream
  BY <1>1 DEF clearEventStream
<1>3. OneStream'
  BY <1>1, <1>2 DEF Streaming, OneStream, NoStream, StreamIds
<1>4. Queues'
  BY <1>1, EmptyInOrder DEF Streaming, Queues
<1> QED
  BY <1>2, <1>3, <1>4 DEF Streaming

\* The first callback of a stream takes the handle from it.
LEMMA SettleKeeps ==
  ASSUME Streaming, NEW i \in StreamIds, streams[i].st \notin {"free", "open"},
         NEW reconnect, NEW next \in {"end", "free"}, settleStream(i, reconnect, next),
         UNCHANGED <<sent, last>>
  PROVE  Streaming'
<1>1. streams[i] \in Stream /\ streams[i].queue = <<>>
      /\ \A j \in StreamIds : j # i => streams[j].st = "free" /\ streams[j].queue = <<>>
  BY DEF Streaming, OneStream, Queues
<1>2. <<>> \in Seq(Events)
  OBVIOUS
<1>3. /\ streams' \in [StreamIds -> Stream]
      /\ streams'[i].st = next /\ streams'[i].queue = <<>>
      /\ \A j \in StreamIds : j # i => streams'[j] = streams[j]
  <2>1. CASE next = "free"
    BY <1>1, <1>2, <2>1 DEF Streaming, settleStream, Free, Stream
  <2>2. CASE next = "end"
    BY <1>1, <1>2, <2>2 DEF Streaming, settleStream, Stream
  <2> QED
    BY <2>1, <2>2
<1>4. eventStream' = NoStream
  <2>1. eventStream \in StreamIds => eventStream = i
    BY <1>1 DEF Streaming, OneStream
  <2> QED
    BY <2>1 DEF Streaming, OneStream, settleStream, NoStream
<1>5. OneStream'
  BY <1>1, <1>3, <1>4 DEF OneStream, NoStream, StreamIds
<1>6. Queues'
  BY <1>1, <1>3, EmptyInOrder DEF Streaming, Queues
<1> QED
  BY <1>3, <1>4, <1>5, <1>6 DEF Streaming

\* What the rest of the invariant needs of a step that keeps the streams in order.
LEMMA Together ==
  ASSUME Streaming', OneProbe',
         eventStreamReconnectTimer' \in BOOLEAN, masterConnectionTimer' \in BOOLEAN,
         stopRequested' \in BOOLEAN, up' \in BOOLEAN, probe' \in {"idle", "health", "metadata"}
  PROVE  FeedInv'
  BY DEF Streaming, FeedInv, TypeOK

LEMMA OnErrorKeeps ==
  ASSUME FeedInv, NEW i \in StreamIds, OnError(i)
  PROVE  FeedInv'
<1>1. PICK next \in {"end", "free"}, reconnect \in BOOLEAN :
        settleStream(i, reconnect, next) /\ (reconnect => ~stopRequested)
  BY DEF OnError, FeedInv, TypeOK
<1>2. Streaming'
  BY <1>1, FeedIsStreaming, SettleKeeps DEF OnError, StreamUnchanged, master
<1>3. UNCHANGED <<masterConnectionTimer, probe, stopRequested, up>>
  BY DEF OnError, StreamUnchanged, master
<1>4. /\ eventStreamReconnectTimer' \in BOOLEAN
      /\ stopRequested => eventStreamReconnectTimer' = eventStreamReconnectTimer
  BY <1>1 DEF settleStream, scheduleEventStreamReconnect, FeedInv, TypeOK
<1> QED
  BY <1>2, <1>3, <1>4, Together DEF FeedInv, TypeOK, OneProbe

LEMMA OnEndKeeps ==
  ASSUME FeedInv, NEW i \in StreamIds, OnEnd(i)
  PROVE  FeedInv'
<1>1. settleStream(i, ~stopRequested, "free")
  BY DEF OnEnd
<1>2. Streaming'
  BY <1>1, FeedIsStreaming, SettleKeeps DEF OnEnd, StreamUnchanged, master
<1>3. UNCHANGED <<masterConnectionTimer, probe, stopRequested, up>>
  BY DEF OnEnd, StreamUnchanged, master
<1>4. /\ eventStreamReconnectTimer' \in BOOLEAN
      /\ stopRequested => eventStreamReconnectTimer' = eventStreamReconnectTimer
  BY <1>1 DEF settleStream, scheduleEventStreamReconnect, FeedInv, TypeOK
<1> QED
  BY <1>2, <1>3, <1>4, Together DEF FeedInv, TypeOK, OneProbe

LEMMA ReconnectKeeps ==
  ASSUME FeedInv, ReconnectTimer PROVE FeedInv'
<1>1. Streaming'
  BY FeedIsStreaming, ConnectKeeps DEF ReconnectTimer, StreamUnchanged, master, FeedInv, TypeOK
<1>2. UNCHANGED <<masterConnectionTimer, probe, stopRequested, up>>
      /\ eventStreamReconnectTimer' = FALSE
  BY DEF ReconnectTimer, StreamUnchanged, master
<1> QED
  BY <1>1, <1>2, Together DEF FeedInv, TypeOK, OneProbe

LEMMA ProbeKeeps ==
  ASSUME FeedInv, Probe PROVE FeedInv'
<1>1. CASE ProbeTimer
  <2>1. Streaming'
    BY <1>1, FeedIsStreaming DEF ProbeTimer, ProbeUnchanged, handles, Streaming, OneStream, Queues, master
  <2> QED
    BY <1>1, <2>1, Together
       DEF ProbeTimer, ProbeUnchanged, master, handles, FeedInv, TypeOK, OneProbe
<1>2. CASE ProbeSucceeds
  <2>1. Streaming'
    BY <1>2, FeedIsStreaming, ConnectKeeps DEF ProbeSucceeds, ProbeUnchanged, master, FeedInv, TypeOK
  <2>2. /\ UNCHANGED <<stopRequested, up, eventStreamReconnectTimer>> /\ probe = "health"
        /\ masterConnectionTimer = FALSE
        /\ stopRequested => eventStreamReconnectTimer = FALSE
    BY <1>2 DEF ProbeSucceeds, ProbeUnchanged, master, FeedInv, TypeOK, OneProbe
  <2>3. \/ probe' = "metadata" /\ UNCHANGED masterConnectionTimer
        \/ probe' = "idle" /\ masterConnectionTimer' = ~stopRequested
    BY <1>2 DEF ProbeSucceeds, scheduleMasterConnectionProbe
  <2>4. OneProbe'
    <3>1. CASE stopRequested
      BY <2>2, <2>3, <3>1 DEF FeedInv, TypeOK, OneProbe
    <3>2. CASE ~stopRequested
      BY <2>2, <2>3, <3>2 DEF FeedInv, TypeOK, OneProbe
    <3> QED
      BY <3>1, <3>2
  <2> QED
    BY <2>1, <2>2, <2>3, <2>4, Together DEF FeedInv, TypeOK
<1>3. CASE refreshMasterMetadata
  <2>1. Streaming'
    BY <1>3, FeedIsStreaming
       DEF refreshMasterMetadata, ProbeUnchanged, handles, Streaming, OneStream, Queues, master
  <2> QED
    BY <1>3, <2>1, Together
       DEF refreshMasterMetadata, ProbeUnchanged, master, handles, FeedInv, TypeOK, OneProbe,
           scheduleMasterConnectionProbe
<1>4. CASE ProbeFails
  <2>1. Streaming'
    BY <1>4, FeedIsStreaming, ClearKeeps DEF ProbeFails
  <2> QED
    BY <1>4, <2>1, Together
       DEF ProbeFails, FeedInv, TypeOK, OneProbe, scheduleMasterConnectionProbe,
           scheduleEventStreamReconnect
<1> QED
  BY <1>1, <1>2, <1>3, <1>4 DEF Probe

LEMMA StopKeeps ==
  ASSUME FeedInv, Stop PROVE FeedInv'
<1>1. Streaming'
  BY FeedIsStreaming, ClearKeeps DEF Stop, master
<1> QED
  BY <1>1, Together DEF Stop, master, FeedInv, TypeOK, OneProbe
-----------------------------------------------------------------------------
(* The theorems.                                                           *)

\* What a step does to the numbers: it gives one out, takes a later one, or
\* leaves both alone.
Numbers == Feed!Next \/ UNCHANGED <<sent, last>>

LEMMA InitFeed == Init => FeedInv
<1> SUFFICES ASSUME Init PROVE FeedInv
  OBVIOUS
<1>1. <<>> \in Seq(Events)
  OBVIOUS
<1>2. \A i \in StreamIds : streams[i] = Free
  BY DEF Init
<1>3. TypeOK
  BY <1>1 DEF Init, TypeOK, Free, Stream, NoStream
<1>4. OneStream
  BY <1>2 DEF Init, OneStream, Free, NoStream, StreamIds
<1>5. OneProbe
  BY DEF Init, OneProbe
<1>6. Queues
  BY <1>2, EmptyInOrder DEF Init, Queues, Free
<1> QED
  BY <1>3, <1>4, <1>5, <1>6 DEF FeedInv

LEMMA FeedStep == FeedInv /\ [Next]_vars => FeedInv' /\ Numbers
<1> SUFFICES ASSUME FeedInv, [Next]_vars PROVE FeedInv' /\ Numbers
  OBVIOUS
<1>n. sent \in Nat /\ last \in Nat /\ up \in BOOLEAN
  BY DEF FeedInv, TypeOK
<1>1. CASE \E s \in Slaves : Heartbeat(s)
  <2>1. PICK s \in Slaves : Heartbeat(s)
    BY <1>1
  <2>2. Publish(SlaveEvent(0, s, "healthy"))
    BY <2>1 DEF Heartbeat
  <2>3. SlaveEvent(0, s, "healthy") \in Events /\ SlaveEvent(0, s, "healthy").n = 0
    BY SlaveEvents DEF Standing
  <2>4. UNCHANGED <<handles, masterConnectionTimer, probe, stopRequested, up, sent, last>>
    BY <2>1 DEF Heartbeat, Unseen, master
  <2> QED
    BY <2>2, <2>3, <2>4, Published DEF Numbers
<1>2. CASE \E s \in Slaves, v \in Standing : RegistryChanges(s, v)
  <2>1. PICK s \in Slaves, v \in Standing : RegistryChanges(s, v)
    BY <1>2
  <2>2. sent' = sent + 1 /\ sent' \in Nat /\ Publish(SlaveEvent(sent', s, v))
    BY <1>n, <2>1 DEF RegistryChanges
  <2>3. SlaveEvent(sent', s, v) \in Events /\ SlaveEvent(sent', s, v).n = sent'
    BY <2>2, SlaveEvents
  <2>4. UNCHANGED <<handles, masterConnectionTimer, probe, stopRequested, up, last>>
    BY <2>1 DEF RegistryChanges, Unseen
  <2> QED
    BY <2>2, <2>3, <2>4, Published DEF Numbers, Feed!Next, Feed!Send
<1>3. CASE RuntimeChanges \/ ToggleRuntime
  <2>1. sent' = sent + 1 /\ sent' \in Nat /\ Publish(RunEvent(sent', sent'))
    BY <1>n, <1>3 DEF RuntimeChanges, ToggleRuntime
  <2>2. RunEvent(sent', sent') \in Events /\ RunEvent(sent', sent').n = sent'
    BY <2>1, RunEvents
  <2>3. UNCHANGED <<handles, masterConnectionTimer, probe, stopRequested, up, last>>
    BY <1>3 DEF RuntimeChanges, ToggleRuntime, Unseen
  <2> QED
    BY <2>1, <2>2, <2>3, Published DEF Numbers, Feed!Next, Feed!Send
<1>4. CASE OtherHappens
  <2>1. sent' = sent + 1 /\ sent' \in Nat /\ Publish(PassedOn(sent'))
    BY <1>n, <1>4 DEF OtherHappens
  <2>2. PassedOn(sent') \in Events /\ PassedOn(sent').n = sent'
    BY <2>1, PassedOnEvents
  <2>3. UNCHANGED <<handles, masterConnectionTimer, probe, stopRequested, up, last>>
    BY <1>4 DEF OtherHappens, Unseen
  <2> QED
    BY <2>1, <2>2, <2>3, Published DEF Numbers, Feed!Next, Feed!Send
<1>5. CASE \E how \in {"error", "expected", "end"}, down \in BOOLEAN : StreamsBreak(how, down)
  BY <1>5, BreakKeeps DEF StreamsBreak, Unseen, Numbers
<1>6. CASE \E i \in StreamIds : handleMasterEvent(i)
  <2>1. FeedInv' /\ last <= last' /\ last' <= sent /\ sent' = sent
    BY <1>6, EventKeeps
  <2>2. last' \in Nat
    BY <2>1 DEF FeedInv, TypeOK
  <2> QED
    BY <1>n, <2>1, <2>2 DEF Numbers, Feed!Next, Feed!Take
<1>7. CASE \E i \in StreamIds : OnError(i) \/ OnEnd(i)
  BY <1>7, OnErrorKeeps, OnEndKeeps DEF OnError, OnEnd, StreamUnchanged, master, Numbers
<1>8. CASE ReconnectTimer
  BY <1>8, ReconnectKeeps DEF ReconnectTimer, StreamUnchanged, master, Numbers
<1>9. CASE Probe
  <2>1. UNCHANGED <<sent, last>>
    BY <1>9 DEF Probe, ProbeTimer, ProbeSucceeds, refreshMasterMetadata, ProbeFails,
                ProbeUnchanged, master
  <2> QED
    BY <1>9, <2>1, ProbeKeeps DEF Numbers
<1>10. CASE Stop
  BY <1>10, StopKeeps DEF Stop, master, Numbers
<1>11. CASE \/ MasterReturns \/ AskHosts \/ AskRuntime \/ UNCHANGED vars
            \/ \E c \in calls : HandleHosts(c) \/ HandleRuntime(c)
  <2>1. /\ UNCHANGED <<streams, handles, masterConnectionTimer, probe, stopRequested, sent, last>>
        /\ up' \in BOOLEAN
    BY <1>n, <1>11 DEF MasterReturns, AskHosts, AskRuntime, HandleHosts, HandleRuntime,
                      CallUnchanged, Unseen, master, vars
  <2> QED
    BY <2>1, SteadyFeed DEF Numbers
<1> QED
  BY <1>1, <1>2, <1>3, <1>4, <1>5, <1>6, <1>7, <1>8, <1>9, <1>10, <1>11 DEF Next, Callback

\* The streams and the probe are looked after as Attended says, whatever breaks.
THEOREM AlwaysAttended == Spec => []Attended
<1>1. FeedInv => Attended
  <2> SUFFICES ASSUME FeedInv PROVE Attended
    OBVIOUS
  <2>1. ASSUME NEW i \in StreamIds
        PROVE  streams[i].st = "open" <=> eventStream = i /\ ~Ticking
    BY DEF FeedInv, TypeOK, OneStream, Stream, Ticking
  <2> QED
    BY <2>1 DEF FeedInv, OneProbe, Attended
<1> QED
  BY <1>1, InitFeed, FeedStep, PTL DEF Spec

\* The server's side of the master's feed takes the numbers in their order, none
\* twice and none that was not sent, over all the streams that follow one another.
THEOREM KeepsOrder == Spec => ImplementsFeed
<1>1. Init => Feed!Init
  BY DEF Init, Feed!Init
<1>2. Numbers => [Feed!Next]_<<sent, last>>
  BY DEF Numbers
<1> QED
  BY <1>1, <1>2, InitFeed, FeedStep, PTL DEF Spec, ImplementsFeed, Feed!Spec
=============================================================================
