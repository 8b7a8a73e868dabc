------------------------- MODULE BrowserFeedProofs --------------------------
(***************************************************************************)
(* What reaches a browser's page, for any size of the buffer, any events,  *)
(* broken sockets, restarts and returns of the page: proofs about          *)
(* BrowserFeed and LogWindow, which run together as LogSpec.               *)
(***************************************************************************)
EXTENDS LogWindow, FiniteSetTheorems, TLAPS

-----------------------------------------------------------------------------
(* Types.                                                                  *)

Events == [seq : Nat, kind : Kinds]
Answers == [kind : {"answer"}, ok : BOOLEAN, lines : SUBSET Nat]
Requests == [action : {"subscribe"}, id : Nat] \union [action : {"logs.query"}, id : Nat, tail : Nat]
SocketKinds ==
    [browser : {"unused", "connecting", "open", "closing", "broken"}, accepted : BOOLEAN,
     server : {"awaiting", "attached", "gone"}, subscribed : BOOLEAN,
     up : Seq(Requests), down : Seq(Events \union Answers)]
Queries == [socket : Sockets, id : Nat, tail : Nat, read : BOOLEAN, ok : BOOLEAN,
            lines : SUBSET Nat]
Windows == [records : SUBSET Nat, events : SUBSET Nat, loaded : BOOLEAN]

ServerTypes ==
    /\ setting \in Settings
    /\ restarts \in Nat /\ nextEventSequence \in Nat \ {0} /\ eventBuffer \in Seq(Events)
    /\ breaks \in Nat
    /\ sockets \in [Sockets -> SocketKinds]

PageTypes ==
    /\ remounts \in Nat /\ mounted \in BOOLEAN /\ ws \in Sockets \union {NoSocket}
    /\ reconnectTimer \in BOOLEAN /\ disconnectTimer \in BOOLEAN /\ isManualDisconnect \in BOOLEAN
    /\ lastEventId \in Nat /\ twice \in BOOLEAN
    /\ pending \in SUBSET Nat /\ shown \in SUBSET Nat /\ excused \in SUBSET Nat

LogTypes ==
    /\ stored \in Nat /\ queries \in SUBSET Queries /\ window \in Windows
    /\ tail \in Nat /\ asked \in Nat /\ inFlight \in BOOLEAN /\ unsent \in BOOLEAN
    /\ overtaken \in SUBSET Nat

TypeOK == ServerTypes /\ PageTypes /\ LogTypes

-----------------------------------------------------------------------------
(* The invariant.                                                          *)

\* The buffer holds the newest events in their order.
BufferHolds(b, newest) ==
    /\ Len(b) <= newest
    /\ \A i \in DOMAIN b : b[i].seq = newest - Len(b) + i

\* What is on its way has no gap: before an event there is none that is not
\* had already and does not come before it.
Gapless(q, have, newest) ==
    \A i \in DOMAIN q : q[i].kind \in Kinds =>
        /\ 1 <= q[i].seq /\ q[i].seq <= newest
        /\ \A n \in 1 .. q[i].seq - 1 :
             n \in have \/ \E j \in 1 .. i - 1 : q[j].kind \in Kinds /\ q[j].seq = n

\* With it all events are had.
Complete(q, have, newest) ==
    \A n \in 1 .. newest :
        n \in have \/ \E j \in DOMAIN q : q[j].kind \in Kinds /\ q[j].seq = n

\* One socket: it is asked for the events once, and they are on their way from then on.
SocketRight(k, have, newest) ==
    /\ k.browser # "open" => k.up = <<>> /\ k.down = <<>>
    /\ k.browser = "connecting" => ~k.subscribed
    /\ k.browser \in Listening /\ k.subscribed => k.server = "attached"
    /\ \A i \in DOMAIN k.up : k.up[i].action = "subscribe" => i = 1 /\ ~k.subscribed
    /\ ~k.subscribed => \A i \in DOMAIN k.down : k.down[i].kind = "answer"
    /\ Gapless(k.down, have, newest)
    /\ k.browser = "open" /\ k.subscribed => Complete(k.down, have, newest)

\* Ids are of events that are had, while the server has not started anew.
IdsHad(k, have) ==
    \A i \in DOMAIN k.up : k.up[i].action = "subscribe" => 1 .. k.up[i].id \subseteq have

FeedInv ==
    /\ BufferHolds(eventBuffer, Newest)
    /\ \A n \in 1 .. Newest - Len(eventBuffer) : n \in excused
    /\ \A m \in Handled : 1 <= m /\ m <= Newest
    /\ \A s \in Sockets : SocketRight(sockets[s], Handled \union excused, Newest)
    /\ \A q \in queries : /\ sockets[q.socket].server # "gone"
                          /\ sockets[q.socket].browser # "connecting"
    /\ restarts = 0 => /\ 1 .. lastEventId \subseteq Handled \union excused
                       /\ \A s \in Sockets : IdsHad(sockets[s], Handled \union excused)

\* What is on its way is newer than what has come, and in order.
Ahead(q, handled) ==
    \A i \in DOMAIN q : q[i].kind \in Kinds =>
        /\ \A m \in handled : m < q[i].seq
        /\ \A j \in 1 .. i - 1 : q[j].kind \in Kinds => q[j].seq < q[i].seq

\* A page that stayed has one socket at a time.
OneInv ==
    /\ \A s, r \in Sockets : sockets[s].browser # "unused" /\ sockets[r].browser # "unused" => s = r
    /\ reconnectTimer => \A s \in Sockets : sockets[s].browser = "unused"
    /\ \A m \in Handled : m <= lastEventId /\ lastEventId <= Newest
    /\ \A s \in Sockets :
         /\ \A i \in DOMAIN sockets[s].up :
              sockets[s].up[i].action = "subscribe" => sockets[s].up[i].id = lastEventId
         /\ Ahead(sockets[s].down, Handled)
    /\ ~twice

\* The lines between two lines of an answer are in it.
NoHole(lines) == \A x, z \in lines : \A y \in x .. z : y \in lines

\* On their way are lines and answers, those of a process without holes.
LogQueue(q) ==
    \A i \in DOMAIN q :
        /\ q[i].kind \in {"log", "answer"}
        /\ setting.scope = "process" /\ q[i].kind = "answer" => NoHole(q[i].lines)

LogInv ==
    /\ restarts = 0 /\ setting.restarts = 0
    /\ \A i \in DOMAIN eventBuffer : eventBuffer[i].kind = "log"
    /\ \A s \in Sockets : LogQueue(sockets[s].down)
    /\ setting.scope = "process" => \A q \in queries : NoHole(q.lines)

Inv ==
    /\ TypeOK /\ FeedInv /\ NoGap
    /\ remounts = 0 => OneInv
    /\ setting.lines > 0 => LogInv
    /\ WindowHolds
-----------------------------------------------------------------------------
(* What is on its way, a queue of events and answers.                      *)

Items == Events \union Answers

LEMMA Kind ==
    ASSUME NEW x \in Items
    PROVE  /\ x.kind \in Kinds <=> x \in Events
           /\ x.kind = "answer" <=> x \in Answers
           /\ x.kind \in Kinds => x.seq \in Nat
BY DEF Items, Events, Answers, Kinds

LEMMA MoreHad ==
    ASSUME NEW q \in Seq(Items), NEW have, NEW newest \in Nat, NEW more,
           Gapless(q, have, newest), have \subseteq more
    PROVE  /\ Gapless(q, more, newest)
           /\ Complete(q, have, newest) => Complete(q, more, newest)
BY DEF Gapless, Complete

\* A new event goes to the end.
LEMMA Sent ==
    ASSUME NEW q \in Seq(Items), NEW have, NEW newest \in Nat, NEW e \in Events,
           Gapless(q, have, newest), Complete(q, have, newest), e.seq = newest + 1
    PROVE  /\ Gapless(Append(q, e), have, newest + 1)
           /\ Complete(Append(q, e), have, newest + 1)
<1> DEFINE p == Append(q, e)
<1>1. /\ p \in Seq(Items) /\ Len(p) = Len(q) + 1 /\ DOMAIN p = 1 .. Len(q) + 1 /\ DOMAIN q = 1 .. Len(q)
      /\ \A i \in 1 .. Len(q) : p[i] = q[i]
      /\ p[Len(q) + 1] = e /\ e.kind \in Kinds /\ Len(q) \in Nat
  BY DEF Items, Events
<1> HIDE DEF p
<1>2. Complete(p, have, newest + 1)
  <2> SUFFICES ASSUME NEW n \in 1 .. newest + 1, n \notin have
               PROVE  \E j \in DOMAIN p : p[j].kind \in Kinds /\ p[j].seq = n
    BY DEF Complete
  <2>1. CASE n = newest + 1
    BY <2>1, <1>1
  <2>2. CASE n \in 1 .. newest
    <3>1. PICK j \in DOMAIN q : q[j].kind \in Kinds /\ q[j].seq = n
      BY <2>2 DEF Complete
    <3> QED  BY <3>1, <1>1
  <2> QED  BY <2>1, <2>2
<1>3. Gapless(p, have, newest + 1)
  <2> SUFFICES ASSUME NEW i \in DOMAIN p, p[i].kind \in Kinds
               PROVE  /\ 1 <= p[i].seq /\ p[i].seq <= newest + 1
                      /\ \A n \in 1 .. p[i].seq - 1 :
                           n \in have \/ \E j \in 1 .. i - 1 : p[j].kind \in Kinds /\ p[j].seq = n
    BY DEF Gapless
  <2>1. CASE i = Len(q) + 1
    <3>1. \A n \in 1 .. newest :
             n \in have \/ \E j \in DOMAIN q : q[j].kind \in Kinds /\ q[j].seq = n
      BY DEF Complete
    <3> QED  BY <2>1, <3>1, <1>1
  <2>2. CASE i \in 1 .. Len(q)
    <3>1. p[i] = q[i] /\ \A j \in 1 .. i - 1 : p[j] = q[j]
      BY <2>2, <1>1
    <3>2. q[i].seq \in Nat
      BY <2>2, <3>1, Kind, <1>1
    <3> QED  BY <2>2, <3>1, <3>2, <1>1 DEF Gapless
  <2> QED  BY <2>1, <2>2, <1>1
<1> QED  BY <1>2, <1>3 DEF p

\* An answer goes to the end.
LEMMA Answered ==
    ASSUME NEW q \in Seq(Items), NEW have, NEW newest \in Nat, NEW a \in Answers,
           Gapless(q, have, newest)
    PROVE  /\ Gapless(Append(q, a), have, newest)
           /\ Complete(q, have, newest) => Complete(Append(q, a), have, newest)
<1> DEFINE p == Append(q, a)
<1>1. /\ p \in Seq(Items) /\ Len(p) = Len(q) + 1 /\ DOMAIN p = 1 .. Len(q) + 1 /\ DOMAIN q = 1 .. Len(q)
      /\ \A i \in 1 .. Len(q) : p[i] = q[i]
      /\ p[Len(q) + 1] = a /\ a.kind \notin Kinds /\ Len(q) \in Nat
  BY DEF Items, Answers, Kinds
<1> HIDE DEF p
<1>2. Complete(q, have, newest) => Complete(p, have, newest)
  BY <1>1 DEF Complete
<1>3. Gapless(p, have, newest)
  <2> SUFFICES ASSUME NEW i \in DOMAIN p, p[i].kind \in Kinds
               PROVE  /\ 1 <= p[i].seq /\ p[i].seq <= newest
                      /\ \A n \in 1 .. p[i].seq - 1 :
                           n \in have \/ \E j \in 1 .. i - 1 : p[j].kind \in Kinds /\ p[j].seq = n
    BY DEF Gapless
  <2>1. i \in 1 .. Len(q)
    BY <1>1
  <2>2. p[i] = q[i] /\ \A j \in 1 .. i - 1 : p[j] = q[j]
    BY <2>1, <1>1
  <2> QED  BY <2>1, <2>2, <1>1 DEF Gapless
<1> QED  BY <1>2, <1>3 DEF p

\* The first comes.
LEMMA Arrived ==
    ASSUME NEW q \in Seq(Items), NEW have, NEW newest \in Nat, NEW more, q # <<>>,
           Gapless(q, have, newest), have \subseteq more,
           Head(q).kind \in Kinds => Head(q).seq \in more
    PROVE  /\ Gapless(Tail(q), more, newest)
           /\ Complete(q, have, newest) => Complete(Tail(q), more, newest)
           /\ Head(q).kind \in Kinds =>
                /\ 1 <= Head(q).seq /\ Head(q).seq <= newest
                /\ 1 .. Head(q).seq - 1 \subseteq have
<1> DEFINE p == Tail(q)
<1>1. /\ p \in Seq(Items) /\ Len(p) = Len(q) - 1 /\ DOMAIN p = 1 .. Len(q) - 1 /\ DOMAIN q = 1 .. Len(q)
      /\ \A i \in 1 .. Len(q) - 1 : p[i] = q[i + 1]
      /\ Len(q) \in Nat /\ Len(q) >= 1 /\ Head(q) = q[1]
  OBVIOUS
<1> HIDE DEF p
<1>2. ASSUME Complete(q, have, newest)
      PROVE  Complete(p, more, newest)
  <2> SUFFICES ASSUME NEW n \in 1 .. newest, n \notin more
               PROVE  \E j \in DOMAIN p : p[j].kind \in Kinds /\ p[j].seq = n
    BY DEF Complete
  <2>1. PICK j \in DOMAIN q : q[j].kind \in Kinds /\ q[j].seq = n
    BY <1>2 DEF Complete
  <2>2. j # 1
    BY <2>1, <1>1
  <2>3. j - 1 \in DOMAIN p /\ p[j - 1] = q[j]
    BY <2>2, <1>1
  <2> QED  BY <2>3, <2>1
<1>3. Gapless(p, more, newest)
  <2> SUFFICES ASSUME NEW i \in DOMAIN p, p[i].kind \in Kinds
               PROVE  /\ 1 <= p[i].seq /\ p[i].seq <= newest
                      /\ \A n \in 1 .. p[i].seq - 1 :
                           n \in more \/ \E j \in 1 .. i - 1 : p[j].kind \in Kinds /\ p[j].seq = n
    BY DEF Gapless
  <2>1. i + 1 \in DOMAIN q /\ p[i] = q[i + 1] /\ i \in Nat
    BY <1>1
  <2>2. /\ 1 <= p[i].seq /\ p[i].seq <= newest
        /\ \A n \in 1 .. p[i].seq - 1 :
             n \in have \/ \E j \in 1 .. i : q[j].kind \in Kinds /\ q[j].seq = n
    BY <2>1 DEF Gapless
  <2>3. ASSUME NEW n \in 1 .. p[i].seq - 1, n \notin more
        PROVE  \E j \in 1 .. i - 1 : p[j].kind \in Kinds /\ p[j].seq = n
    <3>1. PICK j \in 1 .. i : q[j].kind \in Kinds /\ q[j].seq = n
      BY <2>2, <2>3
    <3>2. j # 1
      BY <3>1, <2>3, <1>1
    <3>3. j - 1 \in 1 .. i - 1 /\ p[j - 1] = q[j]
      BY <3>2, <2>1, <1>1
    <3> QED  BY <3>1, <3>3
  <2> QED  BY <2>2, <2>3
<1>4. Head(q).kind \in Kinds =>
                /\ 1 <= Head(q).seq /\ Head(q).seq <= newest
                /\ 1 .. Head(q).seq - 1 \subseteq have
  BY <1>1 DEF Gapless
<1> QED  BY <1>2, <1>3, <1>4 DEF p

\* The buffer is sent from an index on, to one who has what is before it.
LEMMA Replayed ==
    ASSUME NEW q \in Seq(Items), \A i \in DOMAIN q : q[i].kind = "answer",
           NEW b \in Seq(Events), NEW newest \in Nat, BufferHolds(b, newest),
           NEW from \in 1 .. Len(b) + 1,
           NEW have, \A n \in 1 .. newest - Len(b) + from - 1 : n \in have
    PROVE  /\ q \o SubSeq(b, from, Len(b)) \in Seq(Items)
           /\ Gapless(q \o SubSeq(b, from, Len(b)), have, newest)
           /\ Complete(q \o SubSeq(b, from, Len(b)), have, newest)
           /\ \A handled \in SUBSET Nat :
                (\A m \in handled : m < newest - Len(b) + from)
                    => Ahead(q \o SubSeq(b, from, Len(b)), handled)
<1> DEFINE t == SubSeq(b, from, Len(b))
           p == q \o t
           base == newest - Len(b) + from - 1
<1>1. /\ t \in Seq(Events) /\ Len(t) = Len(b) - from + 1 /\ DOMAIN t = 1 .. Len(t)
      /\ \A k \in 1 .. Len(t) : t[k] = b[from + k - 1]
      /\ Len(b) \in Nat /\ DOMAIN b = 1 .. Len(b) /\ Len(t) \in Nat
  OBVIOUS
<1>2. base \in Nat /\ base + Len(t) = newest
  BY <1>1 DEF BufferHolds
<1>3. \A k \in 1 .. Len(t) : t[k] \in Events /\ t[k].kind \in Kinds /\ t[k].seq = base + k
  <2> TAKE k \in 1 .. Len(t)
  <2>1. from + k - 1 \in DOMAIN b
    BY <1>1
  <2>2. b[from + k - 1].seq = newest - Len(b) + (from + k - 1)
    BY <2>1 DEF BufferHolds
  <2>3. t[k] \in Events
    BY <1>1
  <2> QED  BY <2>2, <2>3, <1>1 DEF Events
<1> HIDE DEF t
<1>4. /\ p \in Seq(Items) /\ Len(p) = Len(q) + Len(t) /\ DOMAIN p = 1 .. Len(q) + Len(t)
      /\ \A i \in 1 .. Len(q) : p[i] = q[i]
      /\ \A k \in 1 .. Len(t) : p[Len(q) + k] = t[k]
      /\ Len(q) \in Nat /\ DOMAIN q = 1 .. Len(q)
  <2>1. t \in Seq(Items)
    BY <1>1 DEF Items
  <2> QED  BY <2>1
<1> HIDE DEF p
<1>5. ASSUME NEW i \in DOMAIN p, p[i].kind \in Kinds
      PROVE  \E k \in 1 .. Len(t) : i = Len(q) + k /\ p[i] = t[k] /\ p[i].seq = base + k
  <2>1. i \notin 1 .. Len(q)
    BY <1>4, <1>5 DEF Kinds
  <2>2. i - Len(q) \in 1 .. Len(t) /\ i = Len(q) + (i - Len(q))
    BY <2>1, <1>4, <1>1
  <2>3. p[i] = t[i - Len(q)]
    BY <2>2, <1>4
  <2> QED  BY <2>2, <2>3, <1>3
<1>6. \A n \in base + 1 .. newest :
        /\ n - base \in 1 .. Len(t) /\ Len(q) + (n - base) \in DOMAIN p
        /\ p[Len(q) + (n - base)].kind \in Kinds /\ p[Len(q) + (n - base)].seq = n
  <2> TAKE n \in base + 1 .. newest
  <2>1. n - base \in 1 .. Len(t) /\ Len(q) + (n - base) \in DOMAIN p
    BY <1>2, <1>1, <1>4
  <2>2. p[Len(q) + (n - base)] = t[n - base] /\ t[n - base].seq = base + (n - base)
    BY <2>1, <1>3, <1>4
  <2> QED  BY <2>1, <2>2, <1>2, <1>3
<1>7. \A n \in 1 .. base : n \in have
  OBVIOUS
<1> HIDE DEF base
<1>8. Complete(p, have, newest)
  <2> SUFFICES ASSUME NEW n \in 1 .. newest, n \notin have
               PROVE  \E j \in DOMAIN p : p[j].kind \in Kinds /\ p[j].seq = n
    BY DEF Complete
  <2>1. n \in base + 1 .. newest
    BY <1>7, <1>2
  <2> QED  BY <2>1, <1>6
<1>9. Gapless(p, have, newest)
  <2> SUFFICES ASSUME NEW i \in DOMAIN p, p[i].kind \in Kinds
               PROVE  /\ 1 <= p[i].seq /\ p[i].seq <= newest
                      /\ \A n \in 1 .. p[i].seq - 1 :
                           n \in have \/ \E j \in 1 .. i - 1 : p[j].kind \in Kinds /\ p[j].seq = n
    BY DEF Gapless
  <2>1. PICK k \in 1 .. Len(t) : i = Len(q) + k /\ p[i].seq = base + k
    BY <1>5
  <2>2. 1 <= p[i].seq /\ p[i].seq <= newest
    BY <2>1, <1>2, <1>1
  <2>3. ASSUME NEW n \in 1 .. p[i].seq - 1, n \notin have
        PROVE  \E j \in 1 .. i - 1 : p[j].kind \in Kinds /\ p[j].seq = n
    <3>1. n \in base + 1 .. newest
      BY <1>7, <1>2, <2>2, <2>3, <2>1
    <3>2. n <= base + k - 1 /\ 1 <= n - base
      BY <3>1, <2>1, <2>3, <1>1, <1>2
    <3>3. Len(q) + (n - base) \in 1 .. i - 1
      BY <3>1, <3>2, <2>1, <1>1, <1>2, <1>4
    <3> QED  BY <3>1, <3>3, <1>6
  <2> QED  BY <2>2, <2>3
<1>10. ASSUME NEW handled \in SUBSET Nat, \A m \in handled : m < newest - Len(b) + from
       PROVE  Ahead(p, handled)
  <2> SUFFICES ASSUME NEW i \in DOMAIN p, p[i].kind \in Kinds
               PROVE  /\ \A m \in handled : m < p[i].seq
                      /\ \A j \in 1 .. i - 1 : p[j].kind \in Kinds => p[j].seq < p[i].seq
    BY DEF Ahead
  <2>1. PICK k \in 1 .. Len(t) : i = Len(q) + k /\ p[i].seq = base + k
    BY <1>5
  <2>2. \A m \in handled : m < p[i].seq
    BY <2>1, <1>10, <1>1, <1>2 DEF base
  <2>3. ASSUME NEW j \in 1 .. i - 1, p[j].kind \in Kinds
        PROVE  p[j].seq < p[i].seq
    <3>0. j \in DOMAIN p
      BY <2>1, <1>4, <1>1
    <3>1. PICK l \in 1 .. Len(t) : j = Len(q) + l /\ p[j].seq = base + l
      BY <1>5, <2>3, <3>0
    <3> QED  BY <3>1, <2>1, <1>2, <1>4
  <2> QED  BY <2>2, <2>3
<1> QED  BY <1>4, <1>8, <1>9, <1>10 DEF p, t

LEMMA SentAhead ==
    ASSUME NEW q \in Seq(Items), NEW have, NEW newest \in Nat, NEW e \in Events,
           Gapless(q, have, newest), e.seq = newest + 1,
           NEW handled \in SUBSET Nat, Ahead(q, handled), \A m \in handled : m <= newest
    PROVE  Ahead(Append(q, e), handled)
<1> DEFINE p == Append(q, e)
<1>1. /\ p \in Seq(Items) /\ DOMAIN p = 1 .. Len(q) + 1 /\ DOMAIN q = 1 .. Len(q)
      /\ \A i \in 1 .. Len(q) : p[i] = q[i]
      /\ p[Len(q) + 1] = e /\ Len(q) \in Nat
  BY DEF Items, Events
<1> HIDE DEF p
<1> SUFFICES ASSUME NEW i \in DOMAIN p, p[i].kind \in Kinds
             PROVE  /\ \A m \in handled : m < p[i].seq
                    /\ \A j \in 1 .. i - 1 : p[j].kind \in Kinds => p[j].seq < p[i].seq
  BY DEF Ahead, p
<1>2. CASE i = Len(q) + 1
  <2>1. \A m \in handled : m < p[i].seq
    BY <1>2, <1>1
  <2>2. ASSUME NEW j \in 1 .. i - 1, p[j].kind \in Kinds
        PROVE  p[j].seq < p[i].seq
    <3>1. j \in DOMAIN q /\ p[j] = q[j]
      BY <1>1, <1>2
    <3>2. q[j].seq \in Nat /\ q[j].seq <= newest
      BY <3>1, <2>2, Kind DEF Gapless
    <3> QED  BY <3>1, <3>2, <1>1, <1>2
  <2> QED  BY <2>1, <2>2
<1>3. CASE i \in 1 .. Len(q)
  <2>1. p[i] = q[i] /\ \A j \in 1 .. i - 1 : p[j] = q[j]
    BY <1>3, <1>1
  <2> QED  BY <1>3, <2>1, <1>1 DEF Ahead
<1> QED  BY <1>1, <1>2, <1>3

LEMMA AnsweredAhead ==
    ASSUME NEW q \in Seq(Items), NEW a \in Answers, NEW handled, Ahead(q, handled)
    PROVE  Ahead(Append(q, a), handled)
<1> DEFINE p == Append(q, a)
<1>1. /\ p \in Seq(Items) /\ DOMAIN p = 1 .. Len(q) + 1 /\ DOMAIN q = 1 .. Len(q)
      /\ \A i \in 1 .. Len(q) : p[i] = q[i]
      /\ p[Len(q) + 1] = a /\ a.kind \notin Kinds /\ Len(q) \in Nat
  BY DEF Items, Answers, Kinds
<1> HIDE DEF p
<1> SUFFICES ASSUME NEW i \in DOMAIN p, p[i].kind \in Kinds
             PROVE  /\ \A m \in handled : m < p[i].seq
                    /\ \A j \in 1 .. i - 1 : p[j].kind \in Kinds => p[j].seq < p[i].seq
  BY DEF Ahead, p
<1>2. i \in 1 .. Len(q)
  BY <1>1
<1>3. p[i] = q[i] /\ \A j \in 1 .. i - 1 : p[j] = q[j]
  BY <1>2, <1>1
<1> QED  BY <1>2, <1>3, <1>1 DEF Ahead

LEMMA ArrivedAhead ==
    ASSUME NEW q \in Seq(Items), q # <<>>, NEW handled, Ahead(q, handled)
    PROVE  /\ Ahead(Tail(q), handled)
           /\ Head(q).kind \in Kinds =>
                /\ Ahead(Tail(q), handled \union {Head(q).seq})
                /\ \A m \in handled : m < Head(q).seq
<1> DEFINE p == Tail(q)
<1>1. /\ p \in Seq(Items) /\ DOMAIN p = 1 .. Len(q) - 1 /\ DOMAIN q = 1 .. Len(q)
      /\ \A i \in 1 .. Len(q) - 1 : p[i] = q[i + 1]
      /\ Len(q) \in Nat /\ Len(q) >= 1 /\ Head(q) = q[1]
  OBVIOUS
<1> HIDE DEF p
<1>2. ASSUME NEW i \in DOMAIN p, p[i].kind \in Kinds
      PROVE  /\ \A m \in handled : m < p[i].seq
             /\ Head(q).kind \in Kinds => Head(q).seq < p[i].seq
             /\ \A j \in 1 .. i - 1 : p[j].kind \in Kinds => p[j].seq < p[i].seq
  <2>1. i + 1 \in DOMAIN q /\ p[i] = q[i + 1] /\ i \in Nat
    BY <1>1
  <2>2. /\ \A m \in handled : m < p[i].seq
        /\ \A j \in 1 .. i : q[j].kind \in Kinds => q[j].seq < p[i].seq
    BY <2>1, <1>2 DEF Ahead
  <2>3. \A j \in 1 .. i - 1 : j + 1 \in 1 .. i /\ p[j] = q[j + 1]
    BY <2>1, <1>1
  <2>4. 1 \in 1 .. i
    BY <1>1
  <2> QED  BY <2>2, <2>3, <2>4, <1>1
<1>3. Ahead(p, handled)
  BY <1>2 DEF Ahead
<1>4. Head(q).kind \in Kinds => Ahead(p, handled \union {Head(q).seq})
  BY <1>2 DEF Ahead
<1>5. Head(q).kind \in Kinds => \A m \in handled : m < Head(q).seq
  BY <1>1 DEF Ahead
<1> QED  BY <1>3, <1>4, <1>5 DEF p

-----------------------------------------------------------------------------
(* What each step does to a socket.                                        *)

Browsers == {"unused", "connecting", "open", "closing", "broken"}
Servers == {"awaiting", "attached", "gone"}

\* A socket k as it is said.
Looks(k, b, a, v, g, u, d) ==
    /\ k \in SocketKinds
    /\ k.browser = b /\ k.accepted = a /\ k.server = v
    /\ k.subscribed = g /\ k.up = u /\ k.down = d

\* Socket s is as said after the step, the others as they were.
Turns(s, b, a, v, g, u, d) ==
    /\ sockets' \in [Sockets -> SocketKinds]
    /\ Looks(sockets'[s], b, a, v, g, u, d)
    /\ \A r \in Sockets : r # s => sockets'[r] = sockets[r]

LEMMA Turned ==
    ASSUME ServerTypes, NEW s \in Sockets, NEW k, NEW b, NEW a, NEW v, NEW g, NEW u, NEW d,
           Looks(k, b, a, v, g, u, d), sockets' = [sockets EXCEPT ![s] = k]
    PROVE  Turns(s, b, a, v, g, u, d)
<1>1. k \in SocketKinds
  BY DEF Looks
<1> QED  BY <1>1 DEF ServerTypes, Turns

LEMMA SocketTypes ==
    ASSUME NEW k \in SocketKinds
    PROVE  /\ k.browser \in Browsers /\ k.accepted \in BOOLEAN /\ k.server \in Servers
           /\ k.subscribed \in BOOLEAN /\ k.up \in Seq(Requests) /\ k.down \in Seq(Items)
BY DEF SocketKinds, Browsers, Servers, Items

LEMMA UnusedLooks ==
    Looks(Unused, "unused", FALSE, "gone", FALSE, <<>>, <<>>)
<1>1. <<>> \in Seq(Requests) /\ <<>> \in Seq(Events \union Answers)
  OBVIOUS
<1> HIDE DEF Requests, Events, Answers
<1> QED  BY <1>1 DEF Looks, Unused, SocketKinds

LEMMA AcceptedLooks ==
    ASSUME NEW k \in SocketKinds, NEW a \in BOOLEAN, NEW v \in Servers
    PROVE  Looks([k EXCEPT !.accepted = a, !.server = v],
                 k.browser, a, v, k.subscribed, k.up, k.down)
BY DEF Looks, SocketKinds, Browsers, Servers, Items

LEMMA ServedLooks ==
    ASSUME NEW k \in SocketKinds, NEW v \in Servers
    PROVE  Looks([k EXCEPT !.server = v],
                 k.browser, k.accepted, v, k.subscribed, k.up, k.down)
BY DEF Looks, SocketKinds, Browsers, Servers, Items

LEMMA UpLooks ==
    ASSUME NEW k \in SocketKinds, NEW u \in Seq(Requests)
    PROVE  Looks([k EXCEPT !.up = u],
                 k.browser, k.accepted, k.server, k.subscribed, u, k.down)
BY DEF Looks, SocketKinds, Browsers, Servers, Items

LEMMA DownLooks ==
    ASSUME NEW k \in SocketKinds, NEW d \in Seq(Items)
    PROVE  Looks([k EXCEPT !.down = d],
                 k.browser, k.accepted, k.server, k.subscribed, k.up, d)
BY DEF Looks, SocketKinds, Browsers, Servers, Items

LEMMA SubscribedLooks ==
    ASSUME NEW k \in SocketKinds, NEW u \in Seq(Requests), NEW g \in BOOLEAN, NEW d \in Seq(Items)
    PROVE  Looks([k EXCEPT !.up = u, !.subscribed = g, !.down = d],
                 k.browser, k.accepted, k.server, g, u, d)
BY DEF Looks, SocketKinds, Browsers, Servers, Items

LEMMA SilentLooks ==
    ASSUME NEW k \in SocketKinds, NEW b \in Browsers, NEW u \in Seq(Requests), NEW d \in Seq(Items)
    PROVE  Looks([k EXCEPT !.browser = b, !.up = u, !.down = d],
                 b, k.accepted, k.server, k.subscribed, u, d)
BY DEF Looks, SocketKinds, Browsers, Servers, Items

LEMMA OpenedLooks ==
    ASSUME NEW k \in SocketKinds, NEW b \in Browsers, NEW u \in Seq(Requests)
    PROVE  Looks([k EXCEPT !.browser = b, !.up = u],
                 b, k.accepted, k.server, k.subscribed, u, k.down)
BY DEF Looks, SocketKinds, Browsers, Servers, Items

LEMMA BrowserLooks ==
    ASSUME NEW k \in SocketKinds, NEW b \in Browsers
    PROVE  Looks([k EXCEPT !.browser = b],
                 b, k.accepted, k.server, k.subscribed, k.up, k.down)
BY DEF Looks, SocketKinds, Browsers, Servers, Items

LEMMA AcceptEffect ==
    ASSUME TypeOK, NEW s \in Sockets, Accept(s)
    PROVE  Turns(s, sockets[s].browser, TRUE, (IF setting.auth THEN "awaiting" ELSE "attached"), sockets[s].subscribed, sockets[s].up, sockets[s].down)
<1>1. s \in Sockets /\ sockets[s] \in SocketKinds /\ ServerTypes
  BY DEF TypeOK, ServerTypes, PageTypes, LogTypes, Queries, Request, Closed, NoSocket
<1>2. (IF setting.auth THEN "awaiting" ELSE "attached") \in Servers /\ TRUE \in BOOLEAN
  BY <1>1, SocketTypes DEF Servers
<1>3. sockets' = [sockets EXCEPT ![s] = [sockets[s] EXCEPT !.accepted = TRUE, !.server = (IF setting.auth THEN "awaiting" ELSE "attached")]]
  BY <1>1 DEF Accept, ServerTypes, SocketKinds
<1> DEFINE k == [sockets[s] EXCEPT !.accepted = TRUE, !.server = (IF setting.auth THEN "awaiting" ELSE "attached")]
<1>4. Looks(k, sockets[s].browser, TRUE, (IF setting.auth THEN "awaiting" ELSE "attached"), sockets[s].subscribed, sockets[s].up, sockets[s].down)
  BY <1>1, <1>2, AcceptedLooks
<1> HIDE DEF k
<1> QED  BY <1>1, <1>3, <1>4, Turned DEF k

LEMMA SessionReadEffect ==
    ASSUME TypeOK, NEW s \in Sockets, SessionRead(s)
    PROVE  Turns(s, sockets[s].browser, sockets[s].accepted, "attached", sockets[s].subscribed, sockets[s].up, sockets[s].down)
<1>1. s \in Sockets /\ sockets[s] \in SocketKinds /\ ServerTypes
  BY DEF TypeOK, ServerTypes, PageTypes, LogTypes, Queries, Request, Closed, NoSocket
<1>2. "attached" \in Servers
  BY <1>1, SocketTypes DEF Servers
<1>3. sockets' = [sockets EXCEPT ![s] = [sockets[s] EXCEPT !.server = "attached"]]
  BY <1>1 DEF SessionRead, ServerTypes, SocketKinds
<1> DEFINE k == [sockets[s] EXCEPT !.server = "attached"]
<1>4. Looks(k, sockets[s].browser, sockets[s].accepted, "attached", sockets[s].subscribed, sockets[s].up, sockets[s].down)
  BY <1>1, <1>2, ServedLooks
<1> HIDE DEF k
<1> QED  BY <1>1, <1>3, <1>4, Turned DEF k

LEMMA LostSubscribeEffect ==
    ASSUME TypeOK, NEW s \in Sockets, Subscribe(s), sockets[s].server = "awaiting"
    PROVE  Turns(s, sockets[s].browser, sockets[s].accepted, sockets[s].server, sockets[s].subscribed, Tail(sockets[s].up), sockets[s].down)
<1>1. s \in Sockets /\ sockets[s] \in SocketKinds /\ ServerTypes
  BY DEF TypeOK, ServerTypes, PageTypes, LogTypes, Queries, Request, Closed, NoSocket
<1>2. Tail(sockets[s].up) \in Seq(Requests)
  BY <1>1, SocketTypes DEF Subscribe
<1>3. sockets' = [sockets EXCEPT ![s] = [sockets[s] EXCEPT !.up = Tail(sockets[s].up)]]
  BY <1>1 DEF Subscribe, ServerTypes, SocketKinds
<1> DEFINE k == [sockets[s] EXCEPT !.up = Tail(sockets[s].up)]
<1>4. Looks(k, sockets[s].browser, sockets[s].accepted, sockets[s].server, sockets[s].subscribed, Tail(sockets[s].up), sockets[s].down)
  BY <1>1, <1>2, UpLooks
<1> HIDE DEF k
<1> QED  BY <1>1, <1>3, <1>4, Turned DEF k

LEMMA SubscribeEffect ==
    ASSUME TypeOK, NEW s \in Sockets, Subscribe(s), sockets[s].server = "attached",
           sockets[s].down \o replayEvents(Head(sockets[s].up).id) \in Seq(Items)
    PROVE  Turns(s, sockets[s].browser, sockets[s].accepted, sockets[s].server, TRUE, Tail(sockets[s].up), sockets[s].down \o replayEvents(Head(sockets[s].up).id))
<1>1. s \in Sockets /\ sockets[s] \in SocketKinds /\ ServerTypes
  BY DEF TypeOK, ServerTypes, PageTypes, LogTypes, Queries, Request, Closed, NoSocket
<1>2. Tail(sockets[s].up) \in Seq(Requests)
  BY <1>1, SocketTypes DEF Subscribe
<1>3. sockets' = [sockets EXCEPT ![s] = [sockets[s] EXCEPT !.up = Tail(sockets[s].up), !.subscribed = TRUE, !.down = sockets[s].down \o replayEvents(Head(sockets[s].up).id)]]
  BY <1>1 DEF Subscribe, ServerTypes, SocketKinds
<1> DEFINE k == [sockets[s] EXCEPT !.up = Tail(sockets[s].up), !.subscribed = TRUE, !.down = sockets[s].down \o replayEvents(Head(sockets[s].up).id)]
<1>4. Looks(k, sockets[s].browser, sockets[s].accepted, sockets[s].server, TRUE, Tail(sockets[s].up), sockets[s].down \o replayEvents(Head(sockets[s].up).id))
  BY <1>1, <1>2, SubscribedLooks
<1> HIDE DEF k
<1> QED  BY <1>1, <1>3, <1>4, Turned DEF k

LEMMA ServerGoneEffect ==
    ASSUME TypeOK, NEW s \in Sockets, ServerCloses(s), sockets[s].browser # "unused"
    PROVE  Turns(s, sockets[s].browser, sockets[s].accepted, "gone", sockets[s].subscribed, sockets[s].up, sockets[s].down)
<1>1. s \in Sockets /\ sockets[s] \in SocketKinds /\ ServerTypes
  BY DEF TypeOK, ServerTypes, PageTypes, LogTypes, Queries, Request, Closed, NoSocket
<1>2. "gone" \in Servers
  BY <1>1, SocketTypes DEF Servers
<1>3. sockets' = [sockets EXCEPT ![s] = [sockets[s] EXCEPT !.server = "gone"]]
  BY <1>1 DEF ServerCloses, ServerTypes, SocketKinds
<1> DEFINE k == [sockets[s] EXCEPT !.server = "gone"]
<1>4. Looks(k, sockets[s].browser, sockets[s].accepted, "gone", sockets[s].subscribed, sockets[s].up, sockets[s].down)
  BY <1>1, <1>2, ServedLooks
<1> HIDE DEF k
<1> QED  BY <1>1, <1>3, <1>4, Turned DEF k

LEMMA SocketBreaksEffect ==
    ASSUME TypeOK, NEW s \in Sockets, SocketBreaks(s)
    PROVE  Turns(s, "broken", sockets[s].accepted, sockets[s].server, sockets[s].subscribed, <<>>, <<>>)
<1>1. s \in Sockets /\ sockets[s] \in SocketKinds /\ ServerTypes
  BY DEF TypeOK, ServerTypes, PageTypes, LogTypes, Queries, Request, Closed, NoSocket
<1>2. "broken" \in Browsers /\ <<>> \in Seq(Requests) /\ <<>> \in Seq(Items)
  BY <1>1, SocketTypes DEF Browsers
<1>3. sockets' = [sockets EXCEPT ![s] = [sockets[s] EXCEPT !.browser = "broken", !.up = <<>>, !.down = <<>>]]
  BY <1>1 DEF SocketBreaks, Broken, ServerTypes, SocketKinds
<1> DEFINE k == [sockets[s] EXCEPT !.browser = "broken", !.up = <<>>, !.down = <<>>]
<1>4. Looks(k, "broken", sockets[s].accepted, sockets[s].server, sockets[s].subscribed, <<>>, <<>>)
  BY <1>1, <1>2, SilentLooks
<1> HIDE DEF k
<1> QED  BY <1>1, <1>3, <1>4, Turned DEF k

LEMMA OnOpenEffect ==
    ASSUME TypeOK, NEW s \in Sockets, OnOpen(s)
    PROVE  Turns(s, "open", sockets[s].accepted, sockets[s].server, sockets[s].subscribed, <<[action |-> "subscribe", id |-> lastEventId]>>, sockets[s].down)
<1>1. s \in Sockets /\ sockets[s] \in SocketKinds /\ ServerTypes
  BY DEF TypeOK, ServerTypes, PageTypes, LogTypes, Queries, Request, Closed, NoSocket
<1>2. "open" \in Browsers /\ <<[action |-> "subscribe", id |-> lastEventId]>> \in Seq(Requests)
  BY <1>1, SocketTypes DEF Browsers, Requests, TypeOK, PageTypes
<1>3. sockets' = [sockets EXCEPT ![s] = [sockets[s] EXCEPT !.browser = "open", !.up = <<[action |-> "subscribe", id |-> lastEventId]>>]]
  BY <1>1 DEF OnOpen, ServerTypes, SocketKinds
<1> DEFINE k == [sockets[s] EXCEPT !.browser = "open", !.up = <<[action |-> "subscribe", id |-> lastEventId]>>]
<1>4. Looks(k, "open", sockets[s].accepted, sockets[s].server, sockets[s].subscribed, <<[action |-> "subscribe", id |-> lastEventId]>>, sockets[s].down)
  BY <1>1, <1>2, OpenedLooks
<1> HIDE DEF k
<1> QED  BY <1>1, <1>3, <1>4, Turned DEF k

LEMMA OnCloseEffect ==
    ASSUME TypeOK, NEW s \in Sockets, OnClose(s), sockets[s].server # "gone"
    PROVE  Turns(s, "unused", sockets[s].accepted, sockets[s].server, sockets[s].subscribed, sockets[s].up, sockets[s].down)
<1>1. s \in Sockets /\ sockets[s] \in SocketKinds /\ ServerTypes
  BY DEF TypeOK, ServerTypes, PageTypes, LogTypes, Queries, Request, Closed, NoSocket
<1>2. "unused" \in Browsers
  BY <1>1, SocketTypes DEF Browsers
<1>3. sockets' = [sockets EXCEPT ![s] = [sockets[s] EXCEPT !.browser = "unused"]]
  BY <1>1 DEF OnClose, ServerTypes, SocketKinds
<1> DEFINE k == [sockets[s] EXCEPT !.browser = "unused"]
<1>4. Looks(k, "unused", sockets[s].accepted, sockets[s].server, sockets[s].subscribed, sockets[s].up, sockets[s].down)
  BY <1>1, <1>2, BrowserLooks
<1> HIDE DEF k
<1> QED  BY <1>1, <1>3, <1>4, Turned DEF k

LEMMA ReceiveQueryEffect ==
    ASSUME TypeOK, NEW s \in Sockets, ReceiveQuery(s)
    PROVE  Turns(s, sockets[s].browser, sockets[s].accepted, sockets[s].server, sockets[s].subscribed, Tail(sockets[s].up), sockets[s].down)
<1>1. s \in Sockets /\ sockets[s] \in SocketKinds /\ ServerTypes
  BY DEF TypeOK, ServerTypes, PageTypes, LogTypes, Queries, Request, Closed, NoSocket
<1>2. Tail(sockets[s].up) \in Seq(Requests)
  BY <1>1, SocketTypes DEF ReceiveQuery
<1>3. sockets' = [sockets EXCEPT ![s] = [sockets[s] EXCEPT !.up = Tail(sockets[s].up)]]
  BY <1>1 DEF ReceiveQuery, ServerTypes, SocketKinds
<1> DEFINE k == [sockets[s] EXCEPT !.up = Tail(sockets[s].up)]
<1>4. Looks(k, sockets[s].browser, sockets[s].accepted, sockets[s].server, sockets[s].subscribed, Tail(sockets[s].up), sockets[s].down)
  BY <1>1, <1>2, UpLooks
<1> HIDE DEF k
<1> QED  BY <1>1, <1>3, <1>4, Turned DEF k

LEMMA EventArrivesEffect ==
    ASSUME TypeOK, NEW s \in Sockets, EventArrives(s)
    PROVE  Turns(s, sockets[s].browser, sockets[s].accepted, sockets[s].server, sockets[s].subscribed, sockets[s].up, Tail(sockets[s].down))
<1>1. s \in Sockets /\ sockets[s] \in SocketKinds /\ ServerTypes
  BY DEF TypeOK, ServerTypes, PageTypes, LogTypes, Queries, Request, Closed, NoSocket
<1>2. Tail(sockets[s].down) \in Seq(Items)
  BY <1>1, SocketTypes DEF EventArrives, OnMessage
<1>3. sockets' = [sockets EXCEPT ![s] = [sockets[s] EXCEPT !.down = Tail(sockets[s].down)]]
  BY <1>1 DEF EventArrives, OnMessage, ServerTypes, SocketKinds
<1> DEFINE k == [sockets[s] EXCEPT !.down = Tail(sockets[s].down)]
<1>4. Looks(k, sockets[s].browser, sockets[s].accepted, sockets[s].server, sockets[s].subscribed, sockets[s].up, Tail(sockets[s].down))
  BY <1>1, <1>2, DownLooks
<1> HIDE DEF k
<1> QED  BY <1>1, <1>3, <1>4, Turned DEF k

LEMMA OnAnswerEffect ==
    ASSUME TypeOK, NEW s \in Sockets, OnAnswer(s)
    PROVE  Turns(s, sockets[s].browser, sockets[s].accepted, sockets[s].server, sockets[s].subscribed, sockets[s].up, Tail(sockets[s].down))
<1>1. s \in Sockets /\ sockets[s] \in SocketKinds /\ ServerTypes
  BY DEF TypeOK, ServerTypes, PageTypes, LogTypes, Queries, Request, Closed, NoSocket
<1>2. Tail(sockets[s].down) \in Seq(Items)
  BY <1>1, SocketTypes DEF OnAnswer
<1>3. sockets' = [sockets EXCEPT ![s] = [sockets[s] EXCEPT !.down = Tail(sockets[s].down)]]
  BY <1>1 DEF OnAnswer, ServerTypes, SocketKinds
<1> DEFINE k == [sockets[s] EXCEPT !.down = Tail(sockets[s].down)]
<1>4. Looks(k, sockets[s].browser, sockets[s].accepted, sockets[s].server, sockets[s].subscribed, sockets[s].up, Tail(sockets[s].down))
  BY <1>1, <1>2, DownLooks
<1> HIDE DEF k
<1> QED  BY <1>1, <1>3, <1>4, Turned DEF k

LEMMA RequestEffect ==
    ASSUME TypeOK, NEW lines \in Nat, NEW waits \in BOOLEAN,
           Request(lines, waits), sockets' # sockets, NEW s, s = ws
    PROVE  Turns(s, sockets[s].browser, sockets[s].accepted, sockets[s].server, sockets[s].subscribed, Append(sockets[s].up, buildLogsQueryMessage(lines)), sockets[s].down)
<1>1. s \in Sockets /\ sockets[s] \in SocketKinds /\ ServerTypes
  BY DEF TypeOK, ServerTypes, PageTypes, LogTypes, Queries, Request, Closed, NoSocket
<1>2. Append(sockets[s].up, buildLogsQueryMessage(lines)) \in Seq(Requests)
  <2>1. buildLogsQueryMessage(lines) \in Requests
    BY DEF buildLogsQueryMessage, Requests, TypeOK, LogTypes
  <2> QED  BY <1>1, <2>1, SocketTypes
<1>3. sockets' = [sockets EXCEPT ![s] = [sockets[s] EXCEPT !.up = Append(sockets[s].up, buildLogsQueryMessage(lines))]]
  BY <1>1 DEF Request, ServerTypes, SocketKinds
<1> DEFINE k == [sockets[s] EXCEPT !.up = Append(sockets[s].up, buildLogsQueryMessage(lines))]
<1>4. Looks(k, sockets[s].browser, sockets[s].accepted, sockets[s].server, sockets[s].subscribed, Append(sockets[s].up, buildLogsQueryMessage(lines)), sockets[s].down)
  BY <1>1, <1>2, UpLooks
<1> HIDE DEF k
<1> QED  BY <1>1, <1>3, <1>4, Turned DEF k

LEMMA AnswerEffect ==
    ASSUME TypeOK, NEW q \in queries, Answer(q), sockets' # sockets, NEW s, s = q.socket
    PROVE  Turns(s, sockets[s].browser, sockets[s].accepted, sockets[s].server, sockets[s].subscribed, sockets[s].up, Append(sockets[s].down, [kind |-> "answer", ok |-> q.ok, lines |-> q.lines]))
<1>1. s \in Sockets /\ sockets[s] \in SocketKinds /\ ServerTypes
  BY DEF TypeOK, ServerTypes, PageTypes, LogTypes, Queries, Request, Closed, NoSocket
<1>2. Append(sockets[s].down, [kind |-> "answer", ok |-> q.ok, lines |-> q.lines]) \in Seq(Items)
  BY <1>1, SocketTypes DEF Items, Answers, TypeOK, LogTypes, Queries
<1>3. sockets' = [sockets EXCEPT ![s] = [sockets[s] EXCEPT !.down = Append(sockets[s].down, [kind |-> "answer", ok |-> q.ok, lines |-> q.lines])]]
  BY <1>1 DEF Answer, ServerTypes, SocketKinds
<1> DEFINE k == [sockets[s] EXCEPT !.down = Append(sockets[s].down, [kind |-> "answer", ok |-> q.ok, lines |-> q.lines])]
<1>4. Looks(k, sockets[s].browser, sockets[s].accepted, sockets[s].server, sockets[s].subscribed, sockets[s].up, Append(sockets[s].down, [kind |-> "answer", ok |-> q.ok, lines |-> q.lines]))
  BY <1>1, <1>2, DownLooks
<1> HIDE DEF k
<1> QED  BY <1>1, <1>3, <1>4, Turned DEF k

LEMMA ClosedEffect ==
    ASSUME TypeOK, sockets' = Closed, sockets' # sockets, NEW s, s = ws
    PROVE  Turns(s, "closing", sockets[s].accepted, sockets[s].server, sockets[s].subscribed, <<>>, <<>>)
<1>1. s \in Sockets /\ sockets[s] \in SocketKinds /\ ServerTypes
  BY DEF TypeOK, ServerTypes, PageTypes, LogTypes, Queries, Request, Closed, NoSocket
<1>2. "closing" \in Browsers /\ <<>> \in Seq(Requests) /\ <<>> \in Seq(Items)
  BY <1>1, SocketTypes DEF Browsers
<1>3. sockets' = [sockets EXCEPT ![s] = [sockets[s] EXCEPT !.browser = "closing", !.up = <<>>, !.down = <<>>]]
  BY <1>1 DEF Closed, ServerTypes, SocketKinds
<1> DEFINE k == [sockets[s] EXCEPT !.browser = "closing", !.up = <<>>, !.down = <<>>]
<1>4. Looks(k, "closing", sockets[s].accepted, sockets[s].server, sockets[s].subscribed, <<>>, <<>>)
  BY <1>1, <1>2, SilentLooks
<1> HIDE DEF k
<1> QED  BY <1>1, <1>3, <1>4, Turned DEF k

LEMMA ServerForgetsEffect ==
    ASSUME TypeOK, NEW s \in Sockets, ServerCloses(s), sockets[s].browser = "unused"
    PROVE  Turns(s, "unused", FALSE, "gone", FALSE, <<>>, <<>>)
<1>1. sockets' = [sockets EXCEPT ![s] = Unused]
  BY DEF ServerCloses, TypeOK, ServerTypes
<1>2. ServerTypes
  BY DEF TypeOK
<1> QED  BY <1>1, <1>2, UnusedLooks, Turned

LEMMA BothClosedEffect ==
    ASSUME TypeOK, NEW s \in Sockets, OnClose(s), sockets[s].server = "gone"
    PROVE  Turns(s, "unused", FALSE, "gone", FALSE, <<>>, <<>>)
<1>1. sockets' = [sockets EXCEPT ![s] = Unused]
  BY DEF OnClose, TypeOK, ServerTypes
<1>2. ServerTypes
  BY DEF TypeOK
<1> QED  BY <1>1, <1>2, UnusedLooks, Turned

LEMMA RefusedEffect ==
    ASSUME TypeOK, NEW s \in Sockets, Refused(s)
    PROVE  Turns(s, "unused", FALSE, "gone", FALSE, <<>>, <<>>)
<1>1. sockets' = [sockets EXCEPT ![s] = Unused]
  BY DEF Refused, TypeOK, ServerTypes
<1>2. ServerTypes
  BY DEF TypeOK
<1> QED  BY <1>1, <1>2, UnusedLooks, Turned

\* A new socket takes the place of one that nobody uses.
LEMMA ConnectEffect ==
    ASSUME ServerTypes, NEW from \in [Sockets -> SocketKinds], ConnectFrom(from)
    PROVE  \E s \in Sockets :
             /\ from[s] = Unused /\ ws' = s
             /\ sockets' \in [Sockets -> SocketKinds]
             /\ Looks(sockets'[s], "connecting", FALSE, "gone", FALSE, <<>>, <<>>)
             /\ \A r \in Sockets : r # s => sockets'[r] = from[r]
<1>1. PICK s \in Sockets : /\ from[s] = Unused /\ ws' = s
                           /\ sockets' = [from EXCEPT ![s].browser = "connecting"]
  BY DEF ConnectFrom
<1> DEFINE k == [from[s] EXCEPT !.browser = "connecting"]
<1>2. sockets' = [from EXCEPT ![s] = k]
  BY <1>1 DEF SocketKinds
<1>3. Looks(k, "connecting", FALSE, "gone", FALSE, <<>>, <<>>)
  <2>1. "connecting" \in Browsers
    BY DEF Browsers
  <2>2. Looks(k, "connecting", from[s].accepted, from[s].server, from[s].subscribed,
              from[s].up, from[s].down)
    BY <2>1, BrowserLooks
  <2> QED  BY <2>2, <1>1, UnusedLooks DEF Looks
<1> HIDE DEF k
<1>4. k \in SocketKinds
  BY <1>3 DEF Looks
<1> QED  BY <1>1, <1>2, <1>3, <1>4

LEMMA PublishEffect ==
    ASSUME TypeOK, NEW kind \in Kinds, NEW slow \in SUBSET Sockets, publishEvent(kind, slow)
    PROVE  LET e == [seq |-> nextEventSequence, kind |-> kind]
           IN  /\ e \in Events /\ sockets' \in [Sockets -> SocketKinds]
               /\ \A s \in Sockets :
                    IF s \notin slow /\ CanReceive(s) /\ sockets[s].browser \in Listening
                    THEN Looks(sockets'[s], sockets[s].browser, sockets[s].accepted, sockets[s].server,
                               sockets[s].subscribed, sockets[s].up, Append(sockets[s].down, e))
                    ELSE sockets'[s] = sockets[s]
<1> DEFINE e == [seq |-> nextEventSequence, kind |-> kind]
           k(s) == [sockets[s] EXCEPT !.down = Append(sockets[s].down, e)]
           to(s) == s \notin slow /\ CanReceive(s) /\ sockets[s].browser \in Listening
<1>1. e \in Events /\ e \in Items
  BY DEF TypeOK, ServerTypes, Events, Items
<1>2. sockets' = [s \in Sockets |-> IF to(s) THEN k(s) ELSE sockets[s]]
  BY DEF publishEvent, TypeOK, ServerTypes, SocketKinds
<1> HIDE DEF e, to
<1>3. ASSUME NEW s \in Sockets
      PROVE  Looks(k(s), sockets[s].browser, sockets[s].accepted, sockets[s].server,
                   sockets[s].subscribed, sockets[s].up, Append(sockets[s].down, e))
  <2>1. sockets[s] \in SocketKinds
    BY DEF TypeOK, ServerTypes
  <2>2. Append(sockets[s].down, e) \in Seq(Items)
    BY <1>1, <2>1, SocketTypes
  <2> QED  BY <2>1, <2>2, DownLooks
<1> HIDE DEF k
<1>4. \A s \in Sockets : k(s) \in SocketKinds
  BY <1>3 DEF Looks
<1>5. sockets' \in [Sockets -> SocketKinds]
  BY <1>2, <1>4 DEF TypeOK, ServerTypes
<1> QED  BY <1>1, <1>2, <1>3, <1>5 DEF e, to

LEMMA RestartEffect ==
    ASSUME TypeOK, Restart
    PROVE  /\ sockets' \in [Sockets -> SocketKinds]
           /\ \A s \in Sockets :
                /\ sockets'[s].server = "gone" /\ sockets'[s].browser \notin Listening
                /\ sockets'[s].browser = "unused" <=> sockets[s].browser = "unused"
                /\ sockets[s].browser \in Listening => sockets'[s].up = <<>> /\ sockets'[s].down = <<>>
                /\ sockets[s].browser \notin Listening =>
                     sockets'[s].up = sockets[s].up /\ sockets'[s].down = sockets[s].down
                /\ sockets'[s].subscribed = sockets[s].subscribed
<1> DEFINE k(s) == [Broken(s) EXCEPT !.server = "gone"]
<1>1. sockets' = [s \in Sockets |-> k(s)]
  BY DEF Restart
<1>2. ASSUME NEW s \in Sockets
      PROVE  /\ k(s) \in SocketKinds /\ k(s).server = "gone" /\ k(s).browser \notin Listening
             /\ k(s).browser = "unused" <=> sockets[s].browser = "unused"
             /\ sockets[s].browser \in Listening => k(s).up = <<>> /\ k(s).down = <<>>
             /\ sockets[s].browser \notin Listening =>
                     k(s).up = sockets[s].up /\ k(s).down = sockets[s].down
             /\ k(s).subscribed = sockets[s].subscribed
  <2>1. sockets[s] \in SocketKinds
    BY DEF TypeOK, ServerTypes
  <2>2. "gone" \in Servers /\ "broken" \in Browsers /\ <<>> \in Seq(Requests) /\ <<>> \in Seq(Items)
    BY DEF Servers, Browsers
  <2>3. CASE sockets[s].browser \in Listening
    <3>1. Looks(Broken(s), "broken", sockets[s].accepted, sockets[s].server, sockets[s].subscribed, <<>>, <<>>)
      BY <2>1, <2>2, <2>3, SilentLooks DEF Broken
    <3>2. Looks(k(s), "broken", sockets[s].accepted, "gone", sockets[s].subscribed, <<>>, <<>>)
      BY <2>2, <3>1, ServedLooks DEF Looks
    <3> HIDE DEF k
    <3> QED  BY <3>2, <2>3 DEF Looks, Listening
  <2>4. CASE sockets[s].browser \notin Listening
    <3>1. Broken(s) = sockets[s]
      BY <2>4 DEF Broken
    <3>2. Looks(k(s), sockets[s].browser, sockets[s].accepted, "gone", sockets[s].subscribed,
                sockets[s].up, sockets[s].down)
      BY <2>1, <2>2, <3>1, ServedLooks
    <3> HIDE DEF k
    <3> QED  BY <3>2, <2>4 DEF Looks
  <2> QED  BY <2>3, <2>4
<1> HIDE DEF k
<1> QED  BY <1>1, <1>2

\* The replayed part of the buffer.
LEMMA ReplayTypes ==
    ASSUME TypeOK, NEW id
    PROVE  \E from \in 1 .. Len(eventBuffer) + 1 :
             /\ replayEvents(id) = SubSeq(eventBuffer, from, Len(eventBuffer))
             /\ \/ FoundIndex(id) = {} /\ from = 1
                \/ from # 1 /\ from - 1 \in FoundIndex(id)
<1>1. eventBuffer \in Seq(Events)
  BY DEF TypeOK, ServerTypes
<1>2. CASE FoundIndex(id) = {}
  BY <1>1, <1>2 DEF replayEvents, BufferFrom
<1>3. CASE FoundIndex(id) # {}
  <2> DEFINE i == CHOOSE i \in FoundIndex(id) : TRUE
  <2>1. i \in FoundIndex(id)
    BY <1>3
  <2>2. i \in 1 .. Len(eventBuffer)
    BY <2>1, <1>1 DEF FoundIndex
  <2>3. replayEvents(id) = SubSeq(eventBuffer, i + 1, Len(eventBuffer))
    BY <1>3 DEF replayEvents, BufferFrom
  <2> HIDE DEF i
  <2>4. /\ i + 1 \in 1 .. Len(eventBuffer) + 1 /\ i + 1 # 1
        /\ (i + 1) - 1 \in FoundIndex(id)
    BY <2>1, <2>2, <1>1
  <2> QED  BY <2>3, <2>4
<1> QED  BY <1>2, <1>3

LEMMA ReplayedTypes ==
    ASSUME TypeOK, NEW s \in Sockets, NEW id
    PROVE  sockets[s].down \o replayEvents(id) \in Seq(Items)
<1>1. PICK from \in 1 .. Len(eventBuffer) + 1 : replayEvents(id) = SubSeq(eventBuffer, from, Len(eventBuffer))
  BY ReplayTypes
<1>2. eventBuffer \in Seq(Items) /\ sockets[s].down \in Seq(Items)
  BY SocketTypes DEF TypeOK, ServerTypes, Items
<1> QED  BY <1>1, <1>2

LEMMA MountEffect ==
    ASSUME TypeOK, Mount
    PROVE  /\ Closed \in [Sockets -> SocketKinds]
           /\ ConnectFrom(Closed)
<1>1. CASE Closed = sockets
  BY <1>1 DEF TypeOK, ServerTypes, Mount
<1>2. CASE Closed # sockets
  <2>1. /\ ws \in Sockets /\ sockets[ws] \in SocketKinds
        /\ Closed = [sockets EXCEPT ![ws].browser = "closing", ![ws].up = <<>>, ![ws].down = <<>>]
    BY <1>2 DEF Closed, TypeOK, ServerTypes, PageTypes
  <2>2. Closed = [sockets EXCEPT ![ws] = [sockets[ws] EXCEPT !.browser = "closing", !.up = <<>>, !.down = <<>>]]
    BY <2>1 DEF TypeOK, ServerTypes, SocketKinds
  <2>3. "closing" \in Browsers /\ <<>> \in Seq(Requests) /\ <<>> \in Seq(Items)
    BY DEF Browsers
  <2>4. [sockets[ws] EXCEPT !.browser = "closing", !.up = <<>>, !.down = <<>>] \in SocketKinds
    BY <2>1, <2>3, SilentLooks DEF Looks
  <2> HIDE DEF SocketKinds
  <2> QED  BY <2>1, <2>2, <2>4 DEF TypeOK, ServerTypes, Mount
<1> QED  BY <1>1, <1>2

-----------------------------------------------------------------------------
(* Every step keeps the types.                                             *)

LEMMA SettingTypes ==
    ASSUME TypeOK
    PROVE  setting \in SettingKinds
BY BrowserAssumption DEF TypeOK, ServerTypes

LEMMA publishEventTypes ==
    ASSUME TypeOK, NEW kind \in Kinds, NEW slow \in SUBSET Sockets,
           publishEvent(kind, slow),
           queries' = QueriesLeft,
           UNCHANGED <<stored, window, tail, inFlight, asked, unsent, overtaken>>
    PROVE  TypeOK'
<1>1. [seq |-> nextEventSequence, kind |-> kind] \in Events
  BY PublishEffect
<1>2. sockets' \in [Sockets -> SocketKinds]
  BY PublishEffect
<1>3. eventBuffer' \in Seq(Events)
  BY <1>1 DEF TypeOK, ServerTypes, publishEvent, rememberEvent
<1>4. excused' \in SUBSET Nat /\ nextEventSequence' \in Nat \ {0}
  BY DEF TypeOK, ServerTypes, PageTypes, publishEvent
<1>5. queries' \in SUBSET Queries
  BY DEF TypeOK, LogTypes, QueriesLeft
<1>6. ServerTypes'
  BY <1>1, <1>2, <1>3, <1>4, <1>5, SettingTypes DEF TypeOK, ServerTypes, ServerUnchanged, server, timers, page, seen, publishEvent, QueriesLeft
<1>7. PageTypes'
  BY <1>1, <1>2, <1>3, <1>4, <1>5, SettingTypes DEF TypeOK, PageTypes, ServerUnchanged, server, timers, page, seen, publishEvent, QueriesLeft
<1>8. LogTypes'
  BY <1>1, <1>2, <1>3, <1>4, <1>5, SettingTypes DEF TypeOK, LogTypes, ServerUnchanged, server, timers, page, seen, publishEvent, QueriesLeft
<1> QED  BY <1>6, <1>7, <1>8 DEF TypeOK

LEMMA AcceptTypes ==
    ASSUME TypeOK, NEW s \in Sockets, Accept(s),
           queries' = QueriesLeft,
           UNCHANGED <<stored, window, tail, inFlight, asked, unsent, overtaken>>
    PROVE  TypeOK'
<1>1. sockets' \in [Sockets -> SocketKinds]
  BY AcceptEffect DEF Turns
<1>2. queries' \in SUBSET Queries
  BY DEF TypeOK, LogTypes, QueriesLeft
<1> QED  BY <1>1, <1>2, SettingTypes DEF TypeOK, ServerTypes, PageTypes, LogTypes, ServerUnchanged, server, timers, page, seen, Accept, QueriesLeft

LEMMA SessionReadTypes ==
    ASSUME TypeOK, NEW s \in Sockets, SessionRead(s),
           queries' = QueriesLeft,
           UNCHANGED <<stored, window, tail, inFlight, asked, unsent, overtaken>>
    PROVE  TypeOK'
<1>1. sockets' \in [Sockets -> SocketKinds]
  BY SessionReadEffect DEF Turns
<1>2. queries' \in SUBSET Queries
  BY DEF TypeOK, LogTypes, QueriesLeft
<1> QED  BY <1>1, <1>2, SettingTypes DEF TypeOK, ServerTypes, PageTypes, LogTypes, ServerUnchanged, server, timers, page, seen, SessionRead, QueriesLeft

LEMMA SubscribeTypes ==
    ASSUME TypeOK, NEW s \in Sockets, Subscribe(s),
           queries' = QueriesLeft,
           UNCHANGED <<stored, window, tail, inFlight, asked, unsent, overtaken>>
    PROVE  TypeOK'
<1>1. sockets' \in [Sockets -> SocketKinds]
  <2>1. CASE sockets[s].server = "awaiting"
    BY <2>1, LostSubscribeEffect DEF Turns
  <2>2. CASE sockets[s].server = "attached"
    BY <2>2, SubscribeEffect, ReplayedTypes DEF Turns
  <2> QED  BY <2>1, <2>2 DEF Subscribe
<1>2. excused' \in SUBSET Nat
  BY DEF TypeOK, PageTypes, Subscribe, HiddenBy
<1>3. queries' \in SUBSET Queries
  BY DEF TypeOK, LogTypes, QueriesLeft
<1> QED  BY <1>1, <1>2, <1>3, SettingTypes DEF TypeOK, ServerTypes, PageTypes, LogTypes, ServerUnchanged, server, timers, page, seen, Subscribe, QueriesLeft

LEMMA ServerClosesTypes ==
    ASSUME TypeOK, NEW s \in Sockets, ServerCloses(s),
           queries' = QueriesLeft,
           UNCHANGED <<stored, window, tail, inFlight, asked, unsent, overtaken>>
    PROVE  TypeOK'
<1>1. sockets' \in [Sockets -> SocketKinds]
  BY ServerGoneEffect, ServerForgetsEffect DEF Turns
<1>2. queries' \in SUBSET Queries
  BY DEF TypeOK, LogTypes, QueriesLeft
<1> QED  BY <1>1, <1>2, SettingTypes DEF TypeOK, ServerTypes, PageTypes, LogTypes, ServerUnchanged, server, timers, page, seen, ServerCloses, QueriesLeft

LEMMA SocketBreaksTypes ==
    ASSUME TypeOK, NEW s \in Sockets, SocketBreaks(s),
           queries' = QueriesLeft,
           UNCHANGED <<stored, window, tail, inFlight, asked, unsent, overtaken>>
    PROVE  TypeOK'
<1>1. sockets' \in [Sockets -> SocketKinds]
  BY SocketBreaksEffect DEF Turns
<1>2. queries' \in SUBSET Queries
  BY DEF TypeOK, LogTypes, QueriesLeft
<1> QED  BY <1>1, <1>2, SettingTypes DEF TypeOK, ServerTypes, PageTypes, LogTypes, ServerUnchanged, server, timers, page, seen, SocketBreaks, QueriesLeft

LEMMA OnOpenTypes ==
    ASSUME TypeOK, NEW s \in Sockets, OnOpen(s),
           queries' = QueriesLeft,
           UNCHANGED <<stored, window, tail, inFlight, asked, unsent, overtaken>>
    PROVE  TypeOK'
<1>1. sockets' \in [Sockets -> SocketKinds]
  BY OnOpenEffect DEF Turns
<1>2. queries' \in SUBSET Queries
  BY DEF TypeOK, LogTypes, QueriesLeft
<1> QED  BY <1>1, <1>2, SettingTypes DEF TypeOK, ServerTypes, PageTypes, LogTypes, BrowserUnchanged, server, timers, page, seen, OnOpen, QueriesLeft

LEMMA OnCloseTypes ==
    ASSUME TypeOK, NEW s \in Sockets, OnClose(s),
           queries' = QueriesLeft,
           UNCHANGED <<stored, window, tail, inFlight, asked, unsent, overtaken>>
    PROVE  TypeOK'
<1>1. sockets' \in [Sockets -> SocketKinds]
  BY OnCloseEffect, BothClosedEffect DEF Turns
<1>2. queries' \in SUBSET Queries
  BY DEF TypeOK, LogTypes, QueriesLeft
<1> QED  BY <1>1, <1>2, SettingTypes DEF TypeOK, ServerTypes, PageTypes, LogTypes, BrowserUnchanged, server, timers, page, seen, OnClose, scheduleReconnect, NoSocket, QueriesLeft

LEMMA RefusedTypes ==
    ASSUME TypeOK, NEW s \in Sockets, Refused(s),
           queries' = QueriesLeft,
           UNCHANGED <<stored, window, tail, inFlight, asked, unsent, overtaken>>
    PROVE  TypeOK'
<1>1. sockets' \in [Sockets -> SocketKinds]
  BY RefusedEffect DEF Turns
<1>2. queries' \in SUBSET Queries
  BY DEF TypeOK, LogTypes, QueriesLeft
<1> QED  BY <1>1, <1>2, SettingTypes DEF TypeOK, ServerTypes, PageTypes, LogTypes, BrowserUnchanged, server, timers, page, seen, Refused, NoSocket, QueriesLeft

LEMMA RestartTypes ==
    ASSUME TypeOK, Restart,
           queries' = QueriesLeft,
           UNCHANGED <<stored, window, tail, inFlight, asked, unsent, overtaken>>
    PROVE  TypeOK'
<1>1. sockets' \in [Sockets -> SocketKinds]
  BY RestartEffect
<1>2. queries' \in SUBSET Queries
  BY DEF TypeOK, LogTypes, QueriesLeft
<1> QED  BY <1>1, <1>2, SettingTypes DEF TypeOK, ServerTypes, PageTypes, LogTypes, server, timers, page, seen, Restart, QueriesLeft

LEMMA FlushTypes ==
    ASSUME TypeOK, Flush,
           queries' = QueriesLeft,
           UNCHANGED <<stored, window, tail, inFlight, asked, unsent, overtaken>>
    PROVE  TypeOK'
<1>1. queries' \in SUBSET Queries
  BY DEF TypeOK, LogTypes, QueriesLeft
<1> QED  BY <1>1, SettingTypes DEF TypeOK, ServerTypes, PageTypes, LogTypes, BrowserUnchanged, server, timers, page, seen, Flush, Show, QueriesLeft

LEMMA ReconnectTimerTypes ==
    ASSUME TypeOK, ReconnectTimer,
           queries' = QueriesLeft,
           UNCHANGED <<stored, window, tail, inFlight, asked, unsent, overtaken>>
    PROVE  TypeOK'
<1>1. sockets' \in [Sockets -> SocketKinds] /\ ws' \in Sockets
  BY ConnectEffect DEF ReconnectTimer, TypeOK, ServerTypes
<1>2. queries' \in SUBSET Queries
  BY DEF TypeOK, LogTypes, QueriesLeft
<1> QED  BY <1>1, <1>2, SettingTypes DEF TypeOK, ServerTypes, PageTypes, LogTypes, BrowserUnchanged, server, timers, page, seen, ReconnectTimer, QueriesLeft

LEMMA DisconnectTimerTypes ==
    ASSUME TypeOK, DisconnectTimer,
           queries' = QueriesLeft,
           UNCHANGED <<stored, window, tail, inFlight, asked, unsent, overtaken>>
    PROVE  TypeOK'
<1>1. sockets' \in [Sockets -> SocketKinds]
  BY ClosedEffect DEF Turns, DisconnectTimer, closeSocket, TypeOK, ServerTypes
<1>2. queries' \in SUBSET Queries
  BY DEF TypeOK, LogTypes, QueriesLeft
<1> QED  BY <1>1, <1>2, SettingTypes DEF TypeOK, ServerTypes, PageTypes, LogTypes, BrowserUnchanged, server, timers, page, seen, DisconnectTimer, closeSocket, Show, NoSocket, QueriesLeft

LEMMA MountTypes ==
    ASSUME TypeOK, Mount,
           Forget, queries' = QueriesLeft, UNCHANGED <<stored, tail, inFlight, asked, unsent>>
    PROVE  TypeOK'
<1>1. sockets' \in [Sockets -> SocketKinds] /\ ws' \in Sockets
  BY MountEffect, ConnectEffect DEF TypeOK
<1>2. queries' \in SUBSET Queries
  BY DEF TypeOK, LogTypes, QueriesLeft
<1>3. window' \in Windows
  BY DEF Forget, NoWindow, Windows
<1>4. remounts' \in Nat /\ mounted' \in BOOLEAN
  BY DEF TypeOK, PageTypes, Mount
<1>5. reconnectTimer' \in BOOLEAN /\ disconnectTimer' \in BOOLEAN /\ isManualDisconnect' \in BOOLEAN
  BY DEF TypeOK, PageTypes, Mount
<1>6. lastEventId' \in Nat /\ twice' \in BOOLEAN /\ pending' \in SUBSET Nat /\ shown' \in SUBSET Nat
  BY DEF TypeOK, PageTypes, Mount
<1>7. excused' \in SUBSET Nat
  BY DEF TypeOK, PageTypes, Mount
<1>8. ServerTypes'
  BY <1>1, <1>2, <1>3, <1>4, <1>5, <1>6, <1>7, SettingTypes DEF TypeOK, ServerTypes, server, timers, page, seen, Mount, Forget, QueriesLeft
<1>9. PageTypes'
  BY <1>1, <1>4, <1>5, <1>6, <1>7 DEF PageTypes
<1>10. LogTypes'
  BY <1>1, <1>2, <1>3, <1>4, <1>5, <1>6, <1>7, SettingTypes DEF TypeOK, LogTypes, server, timers, page, seen, Mount, Forget, QueriesLeft
<1> QED  BY <1>8, <1>9, <1>10 DEF TypeOK

LEMMA UnmountTypes ==
    ASSUME TypeOK, Unmount,
           Forget, queries' = QueriesLeft, UNCHANGED <<stored, tail, inFlight, asked, unsent>>
    PROVE  TypeOK'
<1>1. queries' \in SUBSET Queries
  BY DEF TypeOK, LogTypes, QueriesLeft
<1>2. window' \in Windows
  BY DEF Forget, NoWindow, Windows
<1> QED  BY <1>1, <1>2, SettingTypes DEF TypeOK, ServerTypes, PageTypes, LogTypes, server, timers, page, seen, Unmount, StopTimers, Forget, QueriesLeft

LEMMA StoreLineTypes ==
    ASSUME TypeOK, StoreLine
    PROVE  TypeOK'
<1> QED  BY SettingTypes DEF TypeOK, ServerTypes, PageTypes, LogTypes, vars, server, timers, page, seen, StoreLine, QueriesLeft

LEMMA RequestTypes ==
    ASSUME TypeOK, NEW lines \in Nat, NEW waits \in BOOLEAN,
           Request(lines, waits)
    PROVE  TypeOK'
<1>1. sockets' \in [Sockets -> SocketKinds]
  BY RequestEffect DEF TypeOK, ServerTypes, Turns
<1>2. /\ asked' = asked + 1 /\ tail' = lines /\ inFlight' = waits /\ unsent' \in BOOLEAN
      /\ UNCHANGED <<BrowserUnchanged, page, ws, timers, seen>>
      /\ UNCHANGED <<stored, queries, window, overtaken>>
  BY DEF Request
<1>3. ServerTypes' /\ PageTypes'
  BY <1>1, <1>2, SettingTypes DEF TypeOK, ServerTypes, PageTypes, BrowserUnchanged, server, timers, page, seen
<1>4. LogTypes'
  BY <1>2 DEF TypeOK, LogTypes
<1> QED  BY <1>3, <1>4 DEF TypeOK

LEMMA ReadLogTypes ==
    ASSUME TypeOK, NEW q \in queries, ReadLog(q)
    PROVE  TypeOK'
<1>1. streamSliceFromEntries(resolveLogsForQueryContext, q.tail) \in SUBSET Nat
  BY DEF TypeOK, ServerTypes, LogTypes, streamSliceFromEntries, resolveLogsForQueryContext, resolveOverlayLogsForScope, Newest
<1>2. \A ok \in BOOLEAN, lines \in SUBSET Nat : [q EXCEPT !.read = TRUE, !.ok = ok, !.lines = lines] \in Queries
  BY DEF TypeOK, LogTypes, Queries
<1>3. PICK ok \in BOOLEAN : queries' = (queries \ {q}) \union {[q EXCEPT !.read = TRUE, !.ok = ok,
             !.lines = IF ok THEN streamSliceFromEntries(resolveLogsForQueryContext, q.tail) ELSE {}]}
  BY SettingTypes DEF ReadLog, SettingKinds
<1>4. queries' \in SUBSET Queries
  BY <1>1, <1>2, <1>3 DEF TypeOK, LogTypes
<1> QED  BY <1>1, <1>2, <1>3, <1>4, SettingTypes DEF TypeOK, ServerTypes, PageTypes, LogTypes, vars, server, timers, page, seen, ReadLog, QueriesLeft

LEMMA AnswerTypes ==
    ASSUME TypeOK, NEW q \in queries, Answer(q)
    PROVE  TypeOK'
<1>1. sockets' \in [Sockets -> SocketKinds]
  BY AnswerEffect DEF TypeOK, ServerTypes, Turns
<1> QED  BY <1>1, SettingTypes DEF TypeOK, ServerTypes, PageTypes, LogTypes, ServerUnchanged, server, timers, page, seen, Answer, QueriesLeft

LEMMA ReceiveQueryTypes ==
    ASSUME TypeOK, NEW s \in Sockets, ReceiveQuery(s)
    PROVE  TypeOK'
<1>1. sockets' \in [Sockets -> SocketKinds]
  BY ReceiveQueryEffect DEF Turns
<1>2. Head(sockets[s].up) \in Requests
  BY DEF TypeOK, ServerTypes, SocketKinds, ReceiveQuery
<1>3. Head(sockets[s].up).tail \in Nat /\ Head(sockets[s].up).id \in Nat
  BY <1>2 DEF ReceiveQuery, Requests
<1> DEFINE q == [socket |-> s, id |-> Head(sockets[s].up).id, tail |-> Head(sockets[s].up).tail,
                 read |-> FALSE, ok |-> FALSE, lines |-> {}]
<1>4. q \in Queries
  BY <1>3 DEF Queries
<1>5. queries' \in SUBSET Queries
  <2>1. queries' = queries \/ queries' = queries \union {q}
    BY DEF ReceiveQuery
  <2> HIDE DEF q
  <2> QED  BY <1>4, <2>1 DEF TypeOK, LogTypes
<1> QED  BY <1>1, <1>2, <1>3, <1>4, <1>5, SettingTypes DEF TypeOK, ServerTypes, PageTypes, LogTypes, ServerUnchanged, server, timers, page, seen, ReceiveQuery, QueriesLeft

LEMMA EventArrivesTypes ==
    ASSUME TypeOK, NEW s \in Sockets, EventArrives(s)
    PROVE  TypeOK'
<1>1. sockets' \in [Sockets -> SocketKinds]
  BY EventArrivesEffect DEF Turns
<1>2. Head(sockets[s].down) \in Items
  BY DEF TypeOK, ServerTypes, SocketKinds, EventArrives, OnMessage, Items
<1>3. Head(sockets[s].down).seq \in Nat
  BY <1>2, Kind DEF EventArrives, OnMessage
<1>4. window' \in Windows
  BY <1>3 DEF TypeOK, LogTypes, EventArrives, appendManagedProcessLogChunk, Windows
<1> QED  BY <1>1, <1>2, <1>3, <1>4, SettingTypes DEF TypeOK, ServerTypes, PageTypes, LogTypes, BrowserUnchanged, server, timers, page, seen, EventArrives, OnMessage, QueriesLeft

LEMMA OnAnswerTypes ==
    ASSUME TypeOK, NEW s \in Sockets, OnAnswer(s)
    PROVE  TypeOK'
<1>1. sockets' \in [Sockets -> SocketKinds]
  BY OnAnswerEffect DEF Turns
<1>2. Head(sockets[s].down) \in Items
  BY DEF TypeOK, ServerTypes, SocketKinds, OnAnswer, Items
<1>3. Head(sockets[s].down) \in Answers
  BY <1>2, Kind DEF OnAnswer
<1>4. window' \in Windows
  BY <1>3 DEF TypeOK, LogTypes, OnAnswer, updateLogsQueryEntries, Windows, Answers
<1> QED  BY <1>1, <1>2, <1>3, <1>4, SettingTypes DEF TypeOK, ServerTypes, PageTypes, LogTypes, BrowserUnchanged, server, timers, page, seen, OnAnswer, updateLogsQueryEntries, Handled, QueriesLeft

-----------------------------------------------------------------------------
(* What comes has no gap.                                                  *)

Have == Handled \union excused

LEMMA SocketFacts ==
    ASSUME TypeOK, FeedInv, NEW s \in Sockets
    PROVE  /\ sockets[s] \in SocketKinds /\ SocketRight(sockets[s], Have, Newest)
           /\ restarts = 0 => IdsHad(sockets[s], Have)
           /\ Newest \in Nat
<1>1. sockets[s] \in SocketKinds
  BY DEF TypeOK, ServerTypes
<1>2. SocketRight(sockets[s], Have, Newest) /\ (restarts = 0 => IdsHad(sockets[s], Have))
  BY DEF FeedInv, Have
<1>3. Newest \in Nat
  BY DEF Newest, TypeOK, ServerTypes
<1> QED  BY <1>1, <1>2, <1>3

LEMMA SilentRight ==
    ASSUME NEW k \in SocketKinds, k.up = <<>>, k.down = <<>>, NEW have, NEW newest \in Nat,
           k.browser \notin Listening \/ (k.browser = "connecting" /\ ~k.subscribed)
    PROVE  SocketRight(k, have, newest) /\ IdsHad(k, have)
BY DEF SocketRight, IdsHad, Gapless, Listening

\* The first request is the only one for the events.
LEMMA LaterRequests ==
    ASSUME NEW u \in Seq(Requests), u # <<>>,
           \A i \in DOMAIN u : u[i].action = "subscribe" => i = 1
    PROVE  /\ \A i \in DOMAIN Tail(u) : Tail(u)[i].action # "subscribe"
           /\ Head(u) = u[1] /\ 1 \in DOMAIN u
<1>1. /\ Len(u) \in Nat /\ Len(u) >= 1 /\ DOMAIN u = 1 .. Len(u)
      /\ DOMAIN Tail(u) = 1 .. Len(u) - 1 /\ \A i \in 1 .. Len(u) - 1 : Tail(u)[i] = u[i + 1]
      /\ Head(u) = u[1]
  OBVIOUS
<1>2. ASSUME NEW i \in DOMAIN Tail(u)
      PROVE  Tail(u)[i].action # "subscribe"
  <2>1. i + 1 \in DOMAIN u /\ i + 1 # 1 /\ Tail(u)[i] = u[i + 1]
    BY <1>1
  <2> QED  BY <2>1
<1> QED  BY <1>1, <1>2

\* A step that leaves the buffer alone is right when the sockets it changes are.
LEMMA FeedFrame ==
    ASSUME TypeOK, TypeOK', FeedInv, NoGap,
           UNCHANGED <<restarts, nextEventSequence, eventBuffer>>,
           excused \subseteq excused', Have \subseteq Have',
           \A m \in Handled' : m \in Handled \/ (m \in 1 .. Newest /\ 1 .. m \subseteq Have'),
           lastEventId' = lastEventId \/ 1 .. lastEventId' \subseteq Have',
           \A s \in Sockets :
             \/ sockets'[s] = sockets[s]
             \/ /\ SocketRight(sockets'[s], Have', Newest)
                /\ restarts = 0 => IdsHad(sockets'[s], Have'),
           \A q \in queries' : /\ sockets'[q.socket].server # "gone"
                                /\ sockets'[q.socket].browser # "connecting"
    PROVE  FeedInv' /\ NoGap'
<1>1. Newest' = Newest /\ Newest \in Nat
  BY DEF Newest, TypeOK, ServerTypes
<1>2. BufferHolds(eventBuffer', Newest') /\ \A n \in 1 .. Newest' - Len(eventBuffer') : n \in excused'
  BY <1>1 DEF FeedInv
<1>3. \A m \in Handled' : 1 <= m /\ m <= Newest'
  BY <1>1 DEF FeedInv
<1>4. ASSUME NEW s \in Sockets
      PROVE  SocketRight(sockets'[s], Have', Newest') /\ (restarts = 0 => IdsHad(sockets'[s], Have'))
  <2>1. CASE sockets'[s] = sockets[s]
    <3>1. SocketRight(sockets[s], Have, Newest) /\ sockets[s].down \in Seq(Items)
      BY SocketTypes DEF FeedInv, Have, TypeOK, ServerTypes
    <3>2. SocketRight(sockets[s], Have', Newest)
      BY <3>1, <1>1, MoreHad DEF SocketRight
    <3>3. restarts = 0 => IdsHad(sockets[s], Have')
      BY DEF FeedInv, Have, IdsHad
    <3> QED  BY <2>1, <3>2, <3>3, <1>1
  <2> QED  BY <2>1, <1>1
<1>5. restarts = 0 => 1 .. lastEventId' \subseteq Have'
  BY DEF FeedInv, Have
<1>6. FeedInv'
  BY <1>2, <1>3, <1>4, <1>5 DEF FeedInv, Have
<1>7. NoGap'
  <2> SUFFICES ASSUME NEW m \in Handled'
               PROVE  1 .. m \subseteq Have'
    BY DEF NoGap, Have
  <2>1. m \in Handled => 1 .. m \subseteq Have
    BY DEF NoGap, Have
  <2> QED  BY <2>1
<1> QED  BY <1>6, <1>7

LEMMA AcceptFeed ==
    ASSUME TypeOK, FeedInv, NoGap, NEW s \in Sockets, Accept(s),
           queries' = QueriesLeft,
           UNCHANGED <<stored, window, tail, inFlight, asked, unsent, overtaken>>
    PROVE  FeedInv' /\ NoGap'
<1>1. TypeOK'
  BY AcceptTypes
<1>2. /\ UNCHANGED <<restarts, nextEventSequence, eventBuffer>>
      /\ excused \subseteq excused' /\ Have \subseteq Have'
      /\ \A m \in Handled' : m \in Handled \/ (m \in 1 .. Newest /\ 1 .. m \subseteq Have')
      /\ lastEventId' = lastEventId \/ 1 .. lastEventId' \subseteq Have'
  BY DEF Accept, Have, Handled, ServerUnchanged, BrowserUnchanged, server, timers, page, seen
<1>3. \A r \in Sockets :
        \/ sockets'[r] = sockets[r]
        \/ /\ SocketRight(sockets'[r], Have', Newest)
           /\ restarts = 0 => IdsHad(sockets'[r], Have')
  <2>1. /\ sockets[s] \in SocketKinds /\ SocketRight(sockets[s], Have, Newest)
        /\ restarts = 0 => IdsHad(sockets[s], Have)
        /\ Newest \in Nat /\ Have \subseteq Have'
    BY <1>2, SocketFacts
  <2>2. /\ sockets[s].up \in Seq(Requests) /\ sockets[s].down \in Seq(Items)
        /\ Gapless(sockets[s].down, Have', Newest)
        /\ Complete(sockets[s].down, Have, Newest) => Complete(sockets[s].down, Have', Newest)
    BY <2>1, SocketTypes, MoreHad DEF SocketRight
  <2>3. Turns(s, sockets[s].browser, TRUE, IF setting.auth THEN "awaiting" ELSE "attached", sockets[s].subscribed, sockets[s].up, sockets[s].down)
    BY AcceptEffect
  <2> QED  BY <2>1, <2>2, <2>3 DEF  Accept, Turns, Looks, SocketRight, IdsHad, Listening
<1>4. \A p \in queries' : /\ sockets'[p.socket].server # "gone"
                            /\ sockets'[p.socket].browser # "connecting"
  <2>1. sockets[s].browser = "connecting" /\ Turns(s, sockets[s].browser, TRUE, IF setting.auth THEN "awaiting" ELSE "attached", sockets[s].subscribed, sockets[s].up, sockets[s].down)
    BY AcceptEffect DEF Accept
  <2> QED  BY <2>1 DEF QueriesLeft, FeedInv, Turns, Looks, TypeOK, LogTypes, Queries
<1> QED  BY <1>1, <1>2, <1>3, <1>4, FeedFrame

LEMMA SessionReadFeed ==
    ASSUME TypeOK, FeedInv, NoGap, NEW s \in Sockets, SessionRead(s),
           queries' = QueriesLeft,
           UNCHANGED <<stored, window, tail, inFlight, asked, unsent, overtaken>>
    PROVE  FeedInv' /\ NoGap'
<1>1. TypeOK'
  BY SessionReadTypes
<1>2. /\ UNCHANGED <<restarts, nextEventSequence, eventBuffer>>
      /\ excused \subseteq excused' /\ Have \subseteq Have'
      /\ \A m \in Handled' : m \in Handled \/ (m \in 1 .. Newest /\ 1 .. m \subseteq Have')
      /\ lastEventId' = lastEventId \/ 1 .. lastEventId' \subseteq Have'
  BY DEF SessionRead, Have, Handled, ServerUnchanged, BrowserUnchanged, server, timers, page, seen
<1>3. \A r \in Sockets :
        \/ sockets'[r] = sockets[r]
        \/ /\ SocketRight(sockets'[r], Have', Newest)
           /\ restarts = 0 => IdsHad(sockets'[r], Have')
  <2>1. /\ sockets[s] \in SocketKinds /\ SocketRight(sockets[s], Have, Newest)
        /\ restarts = 0 => IdsHad(sockets[s], Have)
        /\ Newest \in Nat /\ Have \subseteq Have'
    BY <1>2, SocketFacts
  <2>2. /\ sockets[s].up \in Seq(Requests) /\ sockets[s].down \in Seq(Items)
        /\ Gapless(sockets[s].down, Have', Newest)
        /\ Complete(sockets[s].down, Have, Newest) => Complete(sockets[s].down, Have', Newest)
    BY <2>1, SocketTypes, MoreHad DEF SocketRight
  <2>3. Turns(s, sockets[s].browser, sockets[s].accepted, "attached", sockets[s].subscribed, sockets[s].up, sockets[s].down)
    BY SessionReadEffect
  <2> QED  BY <2>1, <2>2, <2>3 DEF Turns, Looks, SocketRight, IdsHad, Listening
<1>4. \A p \in queries' : /\ sockets'[p.socket].server # "gone"
                            /\ sockets'[p.socket].browser # "connecting"
  BY SessionReadEffect DEF QueriesLeft, FeedInv, Turns, Looks, TypeOK, LogTypes, Queries
<1> QED  BY <1>1, <1>2, <1>3, <1>4, FeedFrame

LEMMA ServerClosesFeed ==
    ASSUME TypeOK, FeedInv, NoGap, NEW s \in Sockets, ServerCloses(s),
           queries' = QueriesLeft,
           UNCHANGED <<stored, window, tail, inFlight, asked, unsent, overtaken>>
    PROVE  FeedInv' /\ NoGap'
<1>1. TypeOK'
  BY ServerClosesTypes
<1>2. /\ UNCHANGED <<restarts, nextEventSequence, eventBuffer>>
      /\ excused \subseteq excused' /\ Have \subseteq Have'
      /\ \A m \in Handled' : m \in Handled \/ (m \in 1 .. Newest /\ 1 .. m \subseteq Have')
      /\ lastEventId' = lastEventId \/ 1 .. lastEventId' \subseteq Have'
  BY DEF ServerCloses, Have, Handled, ServerUnchanged, BrowserUnchanged, server, timers, page, seen
<1>3. \A r \in Sockets :
        \/ sockets'[r] = sockets[r]
        \/ /\ SocketRight(sockets'[r], Have', Newest)
           /\ restarts = 0 => IdsHad(sockets'[r], Have')
  <2>1. /\ sockets[s] \in SocketKinds /\ SocketRight(sockets[s], Have, Newest)
        /\ restarts = 0 => IdsHad(sockets[s], Have)
        /\ Newest \in Nat /\ Have \subseteq Have'
    BY <1>2, SocketFacts
  <2>2. /\ sockets[s].up \in Seq(Requests) /\ sockets[s].down \in Seq(Items)
        /\ Gapless(sockets[s].down, Have', Newest)
        /\ Complete(sockets[s].down, Have, Newest) => Complete(sockets[s].down, Have', Newest)
    BY <2>1, SocketTypes, MoreHad DEF SocketRight
  <2>3. Turns(s, sockets[s].browser, sockets[s].accepted, "gone", sockets[s].subscribed, sockets[s].up, sockets[s].down)
        \/ Turns(s, "unused", FALSE, "gone", FALSE, <<>>, <<>>)
    BY ServerGoneEffect, ServerForgetsEffect
  <2>4. \/ sockets'[s] \in SocketKinds /\ sockets'[s].up = <<>> /\ sockets'[s].down = <<>>
           /\ sockets'[s].browser \notin Listening
    BY <2>1, <2>3 DEF Turns, Looks, Listening, SocketRight, ServerCloses
  <2> QED  BY <2>1, <2>3, <2>4, SilentRight DEF Turns
<1>4. \A p \in queries' : /\ sockets'[p.socket].server # "gone"
                            /\ sockets'[p.socket].browser # "connecting"
  <2>1. Turns(s, sockets[s].browser, sockets[s].accepted, "gone", sockets[s].subscribed, sockets[s].up, sockets[s].down) \/ Turns(s, "unused", FALSE, "gone", FALSE, <<>>, <<>>)
    BY ServerGoneEffect, ServerForgetsEffect
  <2>2. CASE Turns(s, sockets[s].browser, sockets[s].accepted, "gone", sockets[s].subscribed, sockets[s].up, sockets[s].down)
    BY <2>2 DEF QueriesLeft, FeedInv, Turns, Looks, TypeOK, LogTypes, Queries
  <2>3. CASE Turns(s, "unused", FALSE, "gone", FALSE, <<>>, <<>>)
    BY <2>3 DEF QueriesLeft, FeedInv, Turns, Looks, TypeOK, LogTypes, Queries
  <2> QED  BY <2>1, <2>2, <2>3
<1> QED  BY <1>1, <1>2, <1>3, <1>4, FeedFrame

LEMMA SocketBreaksFeed ==
    ASSUME TypeOK, FeedInv, NoGap, NEW s \in Sockets, SocketBreaks(s),
           queries' = QueriesLeft,
           UNCHANGED <<stored, window, tail, inFlight, asked, unsent, overtaken>>
    PROVE  FeedInv' /\ NoGap'
<1>1. TypeOK'
  BY SocketBreaksTypes
<1>2. /\ UNCHANGED <<restarts, nextEventSequence, eventBuffer>>
      /\ excused \subseteq excused' /\ Have \subseteq Have'
      /\ \A m \in Handled' : m \in Handled \/ (m \in 1 .. Newest /\ 1 .. m \subseteq Have')
      /\ lastEventId' = lastEventId \/ 1 .. lastEventId' \subseteq Have'
  BY DEF SocketBreaks, Have, Handled, ServerUnchanged, BrowserUnchanged, server, timers, page, seen
<1>3. \A r \in Sockets :
        \/ sockets'[r] = sockets[r]
        \/ /\ SocketRight(sockets'[r], Have', Newest)
           /\ restarts = 0 => IdsHad(sockets'[r], Have')
  <2>1. /\ sockets[s] \in SocketKinds /\ SocketRight(sockets[s], Have, Newest)
        /\ restarts = 0 => IdsHad(sockets[s], Have)
        /\ Newest \in Nat /\ Have \subseteq Have'
    BY <1>2, SocketFacts
  <2>2. /\ sockets[s].up \in Seq(Requests) /\ sockets[s].down \in Seq(Items)
        /\ Gapless(sockets[s].down, Have', Newest)
        /\ Complete(sockets[s].down, Have, Newest) => Complete(sockets[s].down, Have', Newest)
    BY <2>1, SocketTypes, MoreHad DEF SocketRight
  <2>3. Turns(s, "broken", sockets[s].accepted, sockets[s].server, sockets[s].subscribed, <<>>, <<>>)
    BY SocketBreaksEffect
  <2>4. \/ sockets'[s] \in SocketKinds /\ sockets'[s].up = <<>> /\ sockets'[s].down = <<>>
           /\ sockets'[s].browser \notin Listening
    BY <2>1, <2>3 DEF Turns, Looks, Listening, SocketRight
  <2> QED  BY <2>1, <2>3, <2>4, SilentRight DEF Turns
<1>4. \A p \in queries' : /\ sockets'[p.socket].server # "gone"
                            /\ sockets'[p.socket].browser # "connecting"
  BY SocketBreaksEffect DEF QueriesLeft, FeedInv, Turns, Looks, TypeOK, LogTypes, Queries
<1> QED  BY <1>1, <1>2, <1>3, <1>4, FeedFrame

LEMMA OnCloseFeed ==
    ASSUME TypeOK, FeedInv, NoGap, NEW s \in Sockets, OnClose(s),
           queries' = QueriesLeft,
           UNCHANGED <<stored, window, tail, inFlight, asked, unsent, overtaken>>
    PROVE  FeedInv' /\ NoGap'
<1>1. TypeOK'
  BY OnCloseTypes
<1>2. /\ UNCHANGED <<restarts, nextEventSequence, eventBuffer>>
      /\ excused \subseteq excused' /\ Have \subseteq Have'
      /\ \A m \in Handled' : m \in Handled \/ (m \in 1 .. Newest /\ 1 .. m \subseteq Have')
      /\ lastEventId' = lastEventId \/ 1 .. lastEventId' \subseteq Have'
  BY DEF OnClose, Have, Handled, ServerUnchanged, BrowserUnchanged, server, timers, page, seen
<1>3. \A r \in Sockets :
        \/ sockets'[r] = sockets[r]
        \/ /\ SocketRight(sockets'[r], Have', Newest)
           /\ restarts = 0 => IdsHad(sockets'[r], Have')
  <2>1. /\ sockets[s] \in SocketKinds /\ SocketRight(sockets[s], Have, Newest)
        /\ restarts = 0 => IdsHad(sockets[s], Have)
        /\ Newest \in Nat /\ Have \subseteq Have'
    BY <1>2, SocketFacts
  <2>2. /\ sockets[s].up \in Seq(Requests) /\ sockets[s].down \in Seq(Items)
        /\ Gapless(sockets[s].down, Have', Newest)
        /\ Complete(sockets[s].down, Have, Newest) => Complete(sockets[s].down, Have', Newest)
    BY <2>1, SocketTypes, MoreHad DEF SocketRight
  <2>3. Turns(s, "unused", sockets[s].accepted, sockets[s].server, sockets[s].subscribed, sockets[s].up, sockets[s].down)
        \/ Turns(s, "unused", FALSE, "gone", FALSE, <<>>, <<>>)
    BY OnCloseEffect, BothClosedEffect
  <2>4. \/ sockets'[s] \in SocketKinds /\ sockets'[s].up = <<>> /\ sockets'[s].down = <<>>
           /\ sockets'[s].browser \notin Listening
    BY <2>1, <2>3 DEF Turns, Looks, Listening, SocketRight, OnClose
  <2> QED  BY <2>1, <2>3, <2>4, SilentRight DEF Turns
<1>4. \A p \in queries' : /\ sockets'[p.socket].server # "gone"
                            /\ sockets'[p.socket].browser # "connecting"
  <2>1. Turns(s, "unused", sockets[s].accepted, sockets[s].server, sockets[s].subscribed, sockets[s].up, sockets[s].down) \/ Turns(s, "unused", FALSE, "gone", FALSE, <<>>, <<>>)
    BY OnCloseEffect, BothClosedEffect
  <2>2. CASE Turns(s, "unused", sockets[s].accepted, sockets[s].server, sockets[s].subscribed, sockets[s].up, sockets[s].down)
    BY <2>2 DEF QueriesLeft, FeedInv, Turns, Looks, TypeOK, LogTypes, Queries
  <2>3. CASE Turns(s, "unused", FALSE, "gone", FALSE, <<>>, <<>>)
    BY <2>3 DEF QueriesLeft, FeedInv, Turns, Looks, TypeOK, LogTypes, Queries
  <2> QED  BY <2>1, <2>2, <2>3
<1> QED  BY <1>1, <1>2, <1>3, <1>4, FeedFrame

LEMMA RefusedFeed ==
    ASSUME TypeOK, FeedInv, NoGap, NEW s \in Sockets, Refused(s),
           queries' = QueriesLeft,
           UNCHANGED <<stored, window, tail, inFlight, asked, unsent, overtaken>>
    PROVE  FeedInv' /\ NoGap'
<1>1. TypeOK'
  BY RefusedTypes
<1>2. /\ UNCHANGED <<restarts, nextEventSequence, eventBuffer>>
      /\ excused \subseteq excused' /\ Have \subseteq Have'
      /\ \A m \in Handled' : m \in Handled \/ (m \in 1 .. Newest /\ 1 .. m \subseteq Have')
      /\ lastEventId' = lastEventId \/ 1 .. lastEventId' \subseteq Have'
  BY DEF Refused, Have, Handled, ServerUnchanged, BrowserUnchanged, server, timers, page, seen
<1>3. \A r \in Sockets :
        \/ sockets'[r] = sockets[r]
        \/ /\ SocketRight(sockets'[r], Have', Newest)
           /\ restarts = 0 => IdsHad(sockets'[r], Have')
  <2>1. /\ sockets[s] \in SocketKinds /\ SocketRight(sockets[s], Have, Newest)
        /\ restarts = 0 => IdsHad(sockets[s], Have)
        /\ Newest \in Nat /\ Have \subseteq Have'
    BY <1>2, SocketFacts
  <2>2. /\ sockets[s].up \in Seq(Requests) /\ sockets[s].down \in Seq(Items)
        /\ Gapless(sockets[s].down, Have', Newest)
        /\ Complete(sockets[s].down, Have, Newest) => Complete(sockets[s].down, Have', Newest)
    BY <2>1, SocketTypes, MoreHad DEF SocketRight
  <2>3. Turns(s, "unused", FALSE, "gone", FALSE, <<>>, <<>>)
    BY RefusedEffect
  <2>4. \/ sockets'[s] \in SocketKinds /\ sockets'[s].up = <<>> /\ sockets'[s].down = <<>>
           /\ sockets'[s].browser \notin Listening
    BY <2>1, <2>3 DEF Turns, Looks, Listening, SocketRight
  <2> QED  BY <2>1, <2>3, <2>4, SilentRight DEF Turns
<1>4. \A p \in queries' : /\ sockets'[p.socket].server # "gone"
                            /\ sockets'[p.socket].browser # "connecting"
  BY RefusedEffect DEF QueriesLeft, FeedInv, Turns, Looks, TypeOK, LogTypes, Queries
<1> QED  BY <1>1, <1>2, <1>3, <1>4, FeedFrame

LEMMA OnOpenFeed ==
    ASSUME TypeOK, FeedInv, NoGap, NEW s \in Sockets, OnOpen(s),
           queries' = QueriesLeft,
           UNCHANGED <<stored, window, tail, inFlight, asked, unsent, overtaken>>
    PROVE  FeedInv' /\ NoGap'
<1>1. TypeOK'
  BY OnOpenTypes
<1>2. /\ UNCHANGED <<restarts, nextEventSequence, eventBuffer>>
      /\ excused \subseteq excused' /\ Have \subseteq Have'
      /\ \A m \in Handled' : m \in Handled \/ (m \in 1 .. Newest /\ 1 .. m \subseteq Have')
      /\ lastEventId' = lastEventId \/ 1 .. lastEventId' \subseteq Have'
  BY DEF OnOpen, Have, Handled, ServerUnchanged, BrowserUnchanged, server, timers, page, seen
<1>3. \A r \in Sockets :
        \/ sockets'[r] = sockets[r]
        \/ /\ SocketRight(sockets'[r], Have', Newest)
           /\ restarts = 0 => IdsHad(sockets'[r], Have')
  <2>1. /\ sockets[s] \in SocketKinds /\ SocketRight(sockets[s], Have, Newest)
        /\ restarts = 0 => IdsHad(sockets[s], Have)
        /\ Newest \in Nat /\ Have \subseteq Have'
    BY <1>2, SocketFacts
  <2>2. /\ sockets[s].up \in Seq(Requests) /\ sockets[s].down \in Seq(Items)
        /\ Gapless(sockets[s].down, Have', Newest)
        /\ Complete(sockets[s].down, Have, Newest) => Complete(sockets[s].down, Have', Newest)
    BY <2>1, SocketTypes, MoreHad DEF SocketRight
  <2>3. Turns(s, "open", sockets[s].accepted, sockets[s].server, sockets[s].subscribed, <<[action |-> "subscribe", id |-> lastEventId]>>, sockets[s].down)
    BY OnOpenEffect
  <2>4. restarts = 0 => 1 .. lastEventId \subseteq Have'
    BY <2>1 DEF FeedInv, Have
  <2>5. sockets[s].down = <<>> /\ ~sockets[s].subscribed
    BY <2>1 DEF OnOpen, SocketRight
  <2>6. SocketRight(sockets'[s], Have', Newest)
    BY <2>1, <2>2, <2>3, <2>5 DEF Turns, Looks, SocketRight
  <2>7. restarts = 0 => IdsHad(sockets'[s], Have')
    BY <2>3, <2>4 DEF Turns, Looks, IdsHad
  <2> QED  BY <2>3, <2>6, <2>7 DEF Turns
<1>4. \A p \in queries' : /\ sockets'[p.socket].server # "gone"
                            /\ sockets'[p.socket].browser # "connecting"
  BY OnOpenEffect DEF QueriesLeft, FeedInv, Turns, Looks, TypeOK, LogTypes, Queries
<1> QED  BY <1>1, <1>2, <1>3, <1>4, FeedFrame

LEMMA ReceiveQueryFeed ==
    ASSUME TypeOK, FeedInv, NoGap, NEW s \in Sockets, ReceiveQuery(s)
    PROVE  FeedInv' /\ NoGap'
<1>1. TypeOK'
  BY ReceiveQueryTypes
<1>2. /\ UNCHANGED <<restarts, nextEventSequence, eventBuffer>>
      /\ excused \subseteq excused' /\ Have \subseteq Have'
      /\ \A m \in Handled' : m \in Handled \/ (m \in 1 .. Newest /\ 1 .. m \subseteq Have')
      /\ lastEventId' = lastEventId \/ 1 .. lastEventId' \subseteq Have'
  BY DEF ReceiveQuery, Have, Handled, ServerUnchanged, BrowserUnchanged, server, timers, page, seen
<1>3. \A r \in Sockets :
        \/ sockets'[r] = sockets[r]
        \/ /\ SocketRight(sockets'[r], Have', Newest)
           /\ restarts = 0 => IdsHad(sockets'[r], Have')
  <2>1. /\ sockets[s] \in SocketKinds /\ SocketRight(sockets[s], Have, Newest)
        /\ restarts = 0 => IdsHad(sockets[s], Have)
        /\ Newest \in Nat /\ Have \subseteq Have'
    BY <1>2, SocketFacts
  <2>2. /\ sockets[s].up \in Seq(Requests) /\ sockets[s].down \in Seq(Items)
        /\ Gapless(sockets[s].down, Have', Newest)
        /\ Complete(sockets[s].down, Have, Newest) => Complete(sockets[s].down, Have', Newest)
    BY <2>1, SocketTypes, MoreHad DEF SocketRight
  <2>3. Turns(s, sockets[s].browser, sockets[s].accepted, sockets[s].server, sockets[s].subscribed, Tail(sockets[s].up), sockets[s].down)
    BY ReceiveQueryEffect
  <2>4. sockets[s].up # <<>>
    BY DEF ReceiveQuery
  <2>5. \A i \in DOMAIN Tail(sockets[s].up) : Tail(sockets[s].up)[i].action # "subscribe"
    BY <2>1, <2>2, <2>4, LaterRequests DEF SocketRight
  <2>6. SocketRight(sockets'[s], Have', Newest)
    BY <2>1, <2>2, <2>3, <2>4, <2>5 DEF Turns, Looks, SocketRight, Listening
  <2>7. IdsHad(sockets'[s], Have')
    BY <2>3, <2>5 DEF Turns, Looks, IdsHad
  <2> QED  BY <2>3, <2>6, <2>7 DEF Turns
<1>4. \A p \in queries' : /\ sockets'[p.socket].server # "gone"
                            /\ sockets'[p.socket].browser # "connecting"
  <2>1. sockets[s].browser = "open"
    BY DEF ReceiveQuery, FeedInv, SocketRight
  <2>2. \A q \in queries' : q \in queries \/ q.socket = s
    BY DEF ReceiveQuery
  <2> QED  BY <2>1, <2>2, ReceiveQueryEffect DEF ReceiveQuery, FeedInv, Turns, Looks, TypeOK, LogTypes, Queries
<1> QED  BY <1>1, <1>2, <1>3, <1>4, FeedFrame

LEMMA EventArrivesFeed ==
    ASSUME TypeOK, FeedInv, NoGap, NEW s \in Sockets, EventArrives(s)
    PROVE  FeedInv' /\ NoGap'
<1>1. TypeOK'
  BY EventArrivesTypes
<1>2. /\ UNCHANGED <<restarts, nextEventSequence, eventBuffer>>
      /\ excused \subseteq excused' /\ Have \subseteq Have'
      /\ \A m \in Handled' : m \in Handled \/ (m \in 1 .. Newest /\ 1 .. m \subseteq Have')
      /\ lastEventId' = lastEventId \/ 1 .. lastEventId' \subseteq Have'
  <2> DEFINE e == Head(sockets[s].down)
  <2>1. /\ UNCHANGED <<restarts, nextEventSequence, eventBuffer, excused, shown>>
        /\ e.kind \in Kinds /\ lastEventId' = e.seq /\ pending' = pending \union {e.seq}
        /\ sockets[s].down # <<>>
    BY DEF EventArrives, OnMessage, BrowserUnchanged, server
  <2>2. sockets[s] \in SocketKinds /\ SocketRight(sockets[s], Have, Newest) /\ Newest \in Nat
    BY SocketFacts
  <2>3. /\ sockets[s].down \in Seq(Items) /\ e \in Items
        /\ Gapless(sockets[s].down, Have, Newest)
    BY <2>1, <2>2, SocketTypes DEF SocketRight
  <2>4. e.seq \in Nat
    BY <2>1, <2>3, Kind
  <2>5. 1 <= e.seq /\ e.seq <= Newest /\ 1 .. e.seq - 1 \subseteq Have
    <3> DEFINE more == Have \union {e.seq}
    <3>1. Have \subseteq more /\ e.seq \in more
      OBVIOUS
    <3> HIDE DEF more
    <3> QED  BY <3>1, <2>1, <2>2, <2>3, Arrived
  <2> HIDE DEF e
  <2>6. Handled' = Handled \union {e.seq} /\ Have' = Have \union {e.seq}
    BY <2>1 DEF Handled, Have
  <2>7. 1 .. e.seq \subseteq Have'
    BY <2>4, <2>5, <2>6
  <2> QED  BY <2>1, <2>4, <2>5, <2>6, <2>7
<1>3. \A r \in Sockets :
        \/ sockets'[r] = sockets[r]
        \/ /\ SocketRight(sockets'[r], Have', Newest)
           /\ restarts = 0 => IdsHad(sockets'[r], Have')
  <2>1. /\ sockets[s] \in SocketKinds /\ SocketRight(sockets[s], Have, Newest)
        /\ restarts = 0 => IdsHad(sockets[s], Have)
        /\ Newest \in Nat /\ Have \subseteq Have'
    BY <1>2, SocketFacts
  <2>2. /\ sockets[s].up \in Seq(Requests) /\ sockets[s].down \in Seq(Items)
        /\ Gapless(sockets[s].down, Have', Newest)
        /\ Complete(sockets[s].down, Have, Newest) => Complete(sockets[s].down, Have', Newest)
    BY <2>1, SocketTypes, MoreHad DEF SocketRight
  <2>3. Turns(s, sockets[s].browser, sockets[s].accepted, sockets[s].server, sockets[s].subscribed, sockets[s].up, Tail(sockets[s].down))
    BY EventArrivesEffect
  <2>4. sockets[s].down # <<>> /\ (Head(sockets[s].down).kind \in Kinds => Head(sockets[s].down).seq \in Have')
    BY DEF EventArrives, OnMessage, Have, Handled
  <2>5. /\ Gapless(Tail(sockets[s].down), Have', Newest)
        /\ Complete(sockets[s].down, Have, Newest) => Complete(Tail(sockets[s].down), Have', Newest)
    BY <2>1, <2>2, <2>4, Arrived DEF SocketRight
  <2>6. \A i \in DOMAIN Tail(sockets[s].down) :
          i + 1 \in DOMAIN sockets[s].down /\ Tail(sockets[s].down)[i] = sockets[s].down[i + 1]
    BY <2>2, <2>4
  <2>7. SocketRight(sockets'[s], Have', Newest)
    BY <2>1, <2>2, <2>3, <2>4, <2>5, <2>6 DEF Turns, Looks, SocketRight
  <2>8. restarts = 0 => IdsHad(sockets'[s], Have')
    BY <2>1, <2>3 DEF Turns, Looks, IdsHad
  <2> QED  BY <2>3, <2>7, <2>8 DEF Turns
<1>4. \A p \in queries' : /\ sockets'[p.socket].server # "gone"
                            /\ sockets'[p.socket].browser # "connecting"
  BY EventArrivesEffect DEF EventArrives, FeedInv, Turns, Looks, TypeOK, LogTypes, Queries
<1> QED  BY <1>1, <1>2, <1>3, <1>4, FeedFrame

LEMMA OnAnswerFeed ==
    ASSUME TypeOK, FeedInv, NoGap, NEW s \in Sockets, OnAnswer(s)
    PROVE  FeedInv' /\ NoGap'
<1>1. TypeOK'
  BY OnAnswerTypes
<1>2. /\ UNCHANGED <<restarts, nextEventSequence, eventBuffer>>
      /\ excused \subseteq excused' /\ Have \subseteq Have'
      /\ \A m \in Handled' : m \in Handled \/ (m \in 1 .. Newest /\ 1 .. m \subseteq Have')
      /\ lastEventId' = lastEventId \/ 1 .. lastEventId' \subseteq Have'
  BY DEF OnAnswer, Have, Handled, ServerUnchanged, BrowserUnchanged, server, timers, page, seen
<1>3. \A r \in Sockets :
        \/ sockets'[r] = sockets[r]
        \/ /\ SocketRight(sockets'[r], Have', Newest)
           /\ restarts = 0 => IdsHad(sockets'[r], Have')
  <2>1. /\ sockets[s] \in SocketKinds /\ SocketRight(sockets[s], Have, Newest)
        /\ restarts = 0 => IdsHad(sockets[s], Have)
        /\ Newest \in Nat /\ Have \subseteq Have'
    BY <1>2, SocketFacts
  <2>2. /\ sockets[s].up \in Seq(Requests) /\ sockets[s].down \in Seq(Items)
        /\ Gapless(sockets[s].down, Have', Newest)
        /\ Complete(sockets[s].down, Have, Newest) => Complete(sockets[s].down, Have', Newest)
    BY <2>1, SocketTypes, MoreHad DEF SocketRight
  <2>3. Turns(s, sockets[s].browser, sockets[s].accepted, sockets[s].server, sockets[s].subscribed, sockets[s].up, Tail(sockets[s].down))
    BY OnAnswerEffect
  <2>4. sockets[s].down # <<>> /\ Head(sockets[s].down).kind \notin Kinds
    BY DEF OnAnswer, Kinds
  <2>5. /\ Gapless(Tail(sockets[s].down), Have', Newest)
        /\ Complete(sockets[s].down, Have, Newest) => Complete(Tail(sockets[s].down), Have', Newest)
    BY <2>1, <2>2, <2>4, Arrived DEF SocketRight
  <2>6. \A i \in DOMAIN Tail(sockets[s].down) :
          i + 1 \in DOMAIN sockets[s].down /\ Tail(sockets[s].down)[i] = sockets[s].down[i + 1]
    BY <2>2, <2>4
  <2>7. SocketRight(sockets'[s], Have', Newest)
    BY <2>1, <2>2, <2>3, <2>4, <2>5, <2>6 DEF Turns, Looks, SocketRight
  <2>8. restarts = 0 => IdsHad(sockets'[s], Have')
    BY <2>1, <2>3 DEF Turns, Looks, IdsHad
  <2> QED  BY <2>3, <2>7, <2>8 DEF Turns
<1>4. \A p \in queries' : /\ sockets'[p.socket].server # "gone"
                            /\ sockets'[p.socket].browser # "connecting"
  BY OnAnswerEffect DEF OnAnswer, FeedInv, Turns, Looks, TypeOK, LogTypes, Queries
<1> QED  BY <1>1, <1>2, <1>3, <1>4, FeedFrame

LEMMA SubscribeFeed ==
    ASSUME TypeOK, FeedInv, NoGap, NEW s \in Sockets, Subscribe(s),
           queries' = QueriesLeft,
           UNCHANGED <<stored, window, tail, inFlight, asked, unsent, overtaken>>
    PROVE  FeedInv' /\ NoGap'
<1>1. TypeOK'
  BY SubscribeTypes
<1>2. /\ UNCHANGED <<restarts, nextEventSequence, eventBuffer>>
      /\ excused \subseteq excused' /\ Have \subseteq Have'
      /\ \A m \in Handled' : m \in Handled \/ (m \in 1 .. Newest /\ 1 .. m \subseteq Have')
      /\ lastEventId' = lastEventId \/ 1 .. lastEventId' \subseteq Have'
  BY DEF Subscribe, HiddenBy, Have, Handled, ServerUnchanged, BrowserUnchanged, server, timers, page, seen
<1>3. \A r \in Sockets :
        \/ sockets'[r] = sockets[r]
        \/ /\ SocketRight(sockets'[r], Have', Newest)
           /\ restarts = 0 => IdsHad(sockets'[r], Have')
  <2>1. /\ sockets[s] \in SocketKinds /\ SocketRight(sockets[s], Have, Newest)
        /\ restarts = 0 => IdsHad(sockets[s], Have)
        /\ Newest \in Nat /\ Have \subseteq Have'
    BY <1>2, SocketFacts
  <2>2. /\ sockets[s].up \in Seq(Requests) /\ sockets[s].down \in Seq(Items)
        /\ Gapless(sockets[s].down, Have', Newest)
        /\ Complete(sockets[s].down, Have, Newest) => Complete(sockets[s].down, Have', Newest)
    BY <2>1, SocketTypes, MoreHad DEF SocketRight
  <2>3. /\ sockets[s].up # <<>> /\ Head(sockets[s].up).action = "subscribe"
        /\ sockets[s].browser = "open"
    BY <2>1 DEF Subscribe, SocketRight
  <2>4. /\ \A i \in DOMAIN Tail(sockets[s].up) : Tail(sockets[s].up)[i].action # "subscribe"
        /\ Head(sockets[s].up) = sockets[s].up[1] /\ 1 \in DOMAIN sockets[s].up
    BY <2>1, <2>2, <2>3, LaterRequests DEF SocketRight
  <2>5. CASE sockets[s].server = "awaiting"
    <3>1. Turns(s, sockets[s].browser, sockets[s].accepted, sockets[s].server, sockets[s].subscribed, Tail(sockets[s].up), sockets[s].down)
      BY <2>5, LostSubscribeEffect
    <3>2. SocketRight(sockets'[s], Have', Newest)
      BY <2>1, <2>2, <2>3, <2>4, <3>1 DEF Turns, Looks, SocketRight
    <3>3. IdsHad(sockets'[s], Have')
      BY <3>1, <2>4 DEF Turns, Looks, IdsHad
    <3> QED  BY <3>1, <3>2, <3>3 DEF Turns
  <2>6. CASE sockets[s].server = "attached"
    <3> DEFINE id == Head(sockets[s].up).id
    <3>1. Turns(s, sockets[s].browser, sockets[s].accepted, sockets[s].server, TRUE,
                Tail(sockets[s].up), sockets[s].down \o replayEvents(id))
      BY <2>6, SubscribeEffect, ReplayedTypes
    <3>2. ~sockets[s].subscribed /\ \A i \in DOMAIN sockets[s].down : sockets[s].down[i].kind = "answer"
      BY <2>1, <2>3, <2>4 DEF SocketRight
    <3>3. PICK from \in 1 .. Len(eventBuffer) + 1 :
             /\ replayEvents(id) = SubSeq(eventBuffer, from, Len(eventBuffer))
             /\ \/ FoundIndex(id) = {} /\ from = 1
                \/ from # 1 /\ from - 1 \in FoundIndex(id)
      BY ReplayTypes
    <3>4. /\ eventBuffer \in Seq(Events) /\ BufferHolds(eventBuffer, Newest)
          /\ \A n \in 1 .. Newest - Len(eventBuffer) : n \in Have'
      BY <1>2 DEF TypeOK, ServerTypes, FeedInv, Have
    <3>5. \A n \in 1 .. Newest - Len(eventBuffer) + from - 1 : n \in Have'
      <4>1. CASE FoundIndex(id) = {} /\ from = 1
        BY <4>1, <3>4, <2>1
      <4>2. CASE from # 1 /\ from - 1 \in FoundIndex(id)
        <5>1. from - 1 \in DOMAIN eventBuffer /\ eventBuffer[from - 1].seq = id
          BY <4>2 DEF FoundIndex
        <5>2. id = Newest - Len(eventBuffer) + (from - 1)
          BY <5>1, <3>4 DEF BufferHolds
        <5>3. id \in Nat
          <6>1. eventBuffer[from - 1] \in Events
            BY <5>1, <3>4
          <6> QED  BY <5>1, <6>1 DEF Events
        <5>4. 1 .. id \subseteq Have'
          <6>1. CASE restarts = 0 \/ 1 .. id \subseteq Have
            BY <6>1, <2>1, <2>3, <2>4 DEF IdsHad
          <6>2. CASE restarts # 0 /\ ~(1 .. id \subseteq Have)
            <7>1. HiddenBy(id) = 1 .. id
              BY <6>2, <4>2 DEF HiddenBy, Have
            <7>2. HiddenBy(id) \subseteq excused'
              BY <2>6 DEF Subscribe
            <7> QED  BY <7>1, <7>2 DEF Have
          <6> QED  BY <6>1, <6>2
        <5> HIDE DEF id
        <5>5. Newest - Len(eventBuffer) + from - 1 = id
          BY <5>2, <3>4, <2>1
        <5> QED  BY <5>4, <5>5
      <4> QED  BY <4>1, <4>2, <3>3
    <3> HIDE DEF id
    <3> DEFINE down == sockets[s].down \o replayEvents(id)
    <3>6. Gapless(down, Have', Newest) /\ Complete(down, Have', Newest)
      BY <2>1, <2>2, <3>2, <3>3, <3>4, <3>5, Replayed
    <3> HIDE DEF down
    <3>7. SocketRight(sockets'[s], Have', Newest)
      BY <2>3, <2>4, <2>6, <3>1, <3>6 DEF Turns, Looks, SocketRight, Listening, down
    <3>8. IdsHad(sockets'[s], Have')
      BY <3>1, <2>4 DEF Turns, Looks, IdsHad
    <3> QED  BY <3>1, <3>7, <3>8 DEF Turns
  <2> QED  BY <2>5, <2>6 DEF Subscribe
<1>4. \A p \in queries' : /\ sockets'[p.socket].server # "gone"
                            /\ sockets'[p.socket].browser # "connecting"
  <2>1. CASE sockets[s].server = "awaiting"
    BY <2>1, LostSubscribeEffect DEF QueriesLeft, FeedInv, Turns, Looks, TypeOK, LogTypes, Queries
  <2>2. CASE sockets[s].server = "attached"
    <3> DEFINE down == sockets[s].down \o replayEvents(Head(sockets[s].up).id)
    <3>1. Turns(s, sockets[s].browser, sockets[s].accepted, sockets[s].server, TRUE, Tail(sockets[s].up), down)
      BY <2>2, SubscribeEffect, ReplayedTypes
    <3> HIDE DEF down
    <3> QED  BY <3>1 DEF QueriesLeft, FeedInv, Turns, Looks, TypeOK, LogTypes, Queries
  <2> QED  BY <2>1, <2>2 DEF Subscribe
<1> QED  BY <1>1, <1>2, <1>3, <1>4, FeedFrame

LEMMA RequestFeed ==
    ASSUME TypeOK, FeedInv, NoGap, NEW lines \in Nat, NEW waits \in BOOLEAN,
           Request(lines, waits)
    PROVE  FeedInv' /\ NoGap'
<1>1. TypeOK'
  BY RequestTypes
<1>2. /\ UNCHANGED <<restarts, nextEventSequence, eventBuffer>>
      /\ excused \subseteq excused' /\ Have \subseteq Have'
      /\ \A m \in Handled' : m \in Handled \/ (m \in 1 .. Newest /\ 1 .. m \subseteq Have')
      /\ lastEventId' = lastEventId \/ 1 .. lastEventId' \subseteq Have'
  BY DEF Request, Have, Handled, ServerUnchanged, BrowserUnchanged, server, timers, page, seen
<1>3. \A r \in Sockets :
        \/ sockets'[r] = sockets[r]
        \/ /\ SocketRight(sockets'[r], Have', Newest)
           /\ restarts = 0 => IdsHad(sockets'[r], Have')
  <2> SUFFICES ASSUME sockets' # sockets
               PROVE  \A r \in Sockets :
        \/ sockets'[r] = sockets[r]
        \/ /\ SocketRight(sockets'[r], Have', Newest)
           /\ restarts = 0 => IdsHad(sockets'[r], Have')
    OBVIOUS
  <2> DEFINE s == ws
  <2>0. s \in Sockets /\ sockets[s].browser = "open"
    BY DEF Request, TypeOK, PageTypes
  <2> HIDE DEF s
  <2>1. /\ sockets[s] \in SocketKinds /\ SocketRight(sockets[s], Have, Newest)
        /\ restarts = 0 => IdsHad(sockets[s], Have)
        /\ Newest \in Nat /\ Have \subseteq Have'
    BY <1>2, <2>0, SocketFacts
  <2>2. /\ sockets[s].up \in Seq(Requests) /\ sockets[s].down \in Seq(Items)
        /\ Gapless(sockets[s].down, Have', Newest)
        /\ Complete(sockets[s].down, Have, Newest) => Complete(sockets[s].down, Have', Newest)
    BY <2>1, SocketTypes, MoreHad DEF SocketRight
  <2>3. Turns(s, sockets[s].browser, sockets[s].accepted, sockets[s].server, sockets[s].subscribed, Append(sockets[s].up, buildLogsQueryMessage(lines)), sockets[s].down)
    BY RequestEffect DEF s
  <2>4. /\ buildLogsQueryMessage(lines).action = "logs.query" /\ Append(sockets[s].up, buildLogsQueryMessage(lines)) \in Seq(Requests)
        /\ \A i \in DOMAIN Append(sockets[s].up, buildLogsQueryMessage(lines)) :
             \/ i \in DOMAIN sockets[s].up /\ Append(sockets[s].up, buildLogsQueryMessage(lines))[i] = sockets[s].up[i]
             \/ Append(sockets[s].up, buildLogsQueryMessage(lines))[i] = buildLogsQueryMessage(lines)
    <3>1. buildLogsQueryMessage(lines) \in Requests /\ buildLogsQueryMessage(lines).action = "logs.query"
      BY DEF buildLogsQueryMessage, Requests, TypeOK, LogTypes
    <3> DEFINE m == buildLogsQueryMessage(lines)
    <3> HIDE DEF m
    <3> QED  BY <2>2, <3>1 DEF m
  <2>5. SocketRight(sockets'[s], Have', Newest)
    BY <2>0, <2>1, <2>2, <2>3, <2>4 DEF Turns, Looks, SocketRight
  <2>6. restarts = 0 => IdsHad(sockets'[s], Have')
    BY <2>1, <2>2, <2>3, <2>4 DEF Turns, Looks, IdsHad
  <2> QED  BY <2>3, <2>5, <2>6 DEF Turns
<1>4. \A p \in queries' : /\ sockets'[p.socket].server # "gone"
                            /\ sockets'[p.socket].browser # "connecting"
  <2>1. CASE sockets' = sockets
    BY <2>1 DEF Request, FeedInv
  <2>2. CASE sockets' # sockets
    <3> DEFINE s == ws
    <3>1. s \in Sockets /\ Turns(s, sockets[s].browser, sockets[s].accepted, sockets[s].server, sockets[s].subscribed, Append(sockets[s].up, buildLogsQueryMessage(lines)), sockets[s].down)
      BY <2>2, RequestEffect DEF Request, TypeOK, PageTypes
    <3> HIDE DEF s
    <3> QED  BY <3>1 DEF Request, FeedInv, Turns, Looks, TypeOK, LogTypes, Queries
  <2> QED  BY <2>1, <2>2
<1> QED  BY <1>1, <1>2, <1>3, <1>4, FeedFrame

LEMMA AnswerFeed ==
    ASSUME TypeOK, FeedInv, NoGap, NEW q \in queries, Answer(q)
    PROVE  FeedInv' /\ NoGap'
<1>1. TypeOK'
  BY AnswerTypes
<1>2. /\ UNCHANGED <<restarts, nextEventSequence, eventBuffer>>
      /\ excused \subseteq excused' /\ Have \subseteq Have'
      /\ \A m \in Handled' : m \in Handled \/ (m \in 1 .. Newest /\ 1 .. m \subseteq Have')
      /\ lastEventId' = lastEventId \/ 1 .. lastEventId' \subseteq Have'
  BY DEF Answer, Have, Handled, ServerUnchanged, BrowserUnchanged, server, timers, page, seen
<1>3. \A r \in Sockets :
        \/ sockets'[r] = sockets[r]
        \/ /\ SocketRight(sockets'[r], Have', Newest)
           /\ restarts = 0 => IdsHad(sockets'[r], Have')
  <2> SUFFICES ASSUME sockets' # sockets
               PROVE  \A r \in Sockets :
        \/ sockets'[r] = sockets[r]
        \/ /\ SocketRight(sockets'[r], Have', Newest)
           /\ restarts = 0 => IdsHad(sockets'[r], Have')
    OBVIOUS
  <2> DEFINE s == q.socket
             a == [kind |-> "answer", ok |-> q.ok, lines |-> q.lines]
  <2>0. s \in Sockets /\ sockets[s].browser = "open" /\ a \in Answers /\ a.kind = "answer"
    BY DEF Answer, FeedInv, Listening, TypeOK, LogTypes, Queries, Answers
  <2>3. Turns(s, sockets[s].browser, sockets[s].accepted, sockets[s].server, sockets[s].subscribed,
              sockets[s].up, Append(sockets[s].down, a))
    BY AnswerEffect
  <2> HIDE DEF s, a
  <2>1. /\ sockets[s] \in SocketKinds /\ SocketRight(sockets[s], Have, Newest)
        /\ restarts = 0 => IdsHad(sockets[s], Have)
        /\ Newest \in Nat /\ Have \subseteq Have'
    BY <1>2, <2>0, SocketFacts
  <2>2. /\ sockets[s].up \in Seq(Requests) /\ sockets[s].down \in Seq(Items)
        /\ Gapless(sockets[s].down, Have', Newest)
        /\ Complete(sockets[s].down, Have, Newest) => Complete(sockets[s].down, Have', Newest)
    BY <2>1, SocketTypes, MoreHad DEF SocketRight
  <2>4. /\ Gapless(Append(sockets[s].down, a), Have', Newest)
        /\ Complete(sockets[s].down, Have', Newest) => Complete(Append(sockets[s].down, a), Have', Newest)
    BY <2>0, <2>1, <2>2, Answered
  <2>5. \A i \in DOMAIN Append(sockets[s].down, a) :
             \/ i \in DOMAIN sockets[s].down /\ Append(sockets[s].down, a)[i] = sockets[s].down[i]
             \/ Append(sockets[s].down, a)[i] = a
    BY <2>2
  <2>6. SocketRight(sockets'[s], Have', Newest)
    BY <2>0, <2>1, <2>2, <2>3, <2>4, <2>5 DEF Turns, Looks, SocketRight, Listening
  <2>7. restarts = 0 => IdsHad(sockets'[s], Have')
    BY <2>1, <2>3 DEF Turns, Looks, IdsHad
  <2> QED  BY <2>3, <2>6, <2>7 DEF Turns
<1>4. \A p \in queries' : /\ sockets'[p.socket].server # "gone"
                            /\ sockets'[p.socket].browser # "connecting"
  <2>0. queries' \subseteq queries
    BY DEF Answer
  <2>1. CASE sockets' = sockets
    BY <2>0, <2>1 DEF FeedInv
  <2>2. CASE sockets' # sockets
    <3> DEFINE s == q.socket
    <3>1. s \in Sockets /\ Turns(s, sockets[s].browser, sockets[s].accepted, sockets[s].server, sockets[s].subscribed, sockets[s].up, Append(sockets[s].down, [kind |-> "answer", ok |-> q.ok, lines |-> q.lines]))
      BY <2>2, AnswerEffect DEF TypeOK, LogTypes, Queries
    <3> HIDE DEF s
    <3> QED  BY <2>0, <3>1 DEF FeedInv, Turns, Looks, TypeOK, LogTypes, Queries
  <2> QED  BY <2>1, <2>2
<1> QED  BY <1>1, <1>2, <1>3, <1>4, FeedFrame

LEMMA FlushFeed ==
    ASSUME TypeOK, FeedInv, NoGap, Flush,
           queries' = QueriesLeft,
           UNCHANGED <<stored, window, tail, inFlight, asked, unsent, overtaken>>
    PROVE  FeedInv' /\ NoGap'
<1>1. TypeOK'
  BY FlushTypes
<1>2. /\ UNCHANGED <<restarts, nextEventSequence, eventBuffer>>
      /\ excused \subseteq excused' /\ Have \subseteq Have'
      /\ \A m \in Handled' : m \in Handled \/ (m \in 1 .. Newest /\ 1 .. m \subseteq Have')
      /\ lastEventId' = lastEventId \/ 1 .. lastEventId' \subseteq Have'
  BY DEF Flush, Show, Have, Handled, ServerUnchanged, BrowserUnchanged, server, timers, page, seen
<1>3. sockets' = sockets
  BY DEF Flush, Show, BrowserUnchanged
<1>4. \A p \in queries' : /\ sockets'[p.socket].server # "gone"
                            /\ sockets'[p.socket].browser # "connecting"
  BY <1>3 DEF FeedInv, QueriesLeft, StoreLine
<1> QED  BY <1>1, <1>2, <1>3, <1>4, FeedFrame

LEMMA StoreLineFeed ==
    ASSUME TypeOK, FeedInv, NoGap, StoreLine
    PROVE  FeedInv' /\ NoGap'
<1>1. TypeOK'
  BY StoreLineTypes
<1>2. /\ UNCHANGED <<restarts, nextEventSequence, eventBuffer>>
      /\ excused \subseteq excused' /\ Have \subseteq Have'
      /\ \A m \in Handled' : m \in Handled \/ (m \in 1 .. Newest /\ 1 .. m \subseteq Have')
      /\ lastEventId' = lastEventId \/ 1 .. lastEventId' \subseteq Have'
  BY DEF StoreLine, vars, Have, Handled, ServerUnchanged, BrowserUnchanged, server, timers, page, seen
<1>3. sockets' = sockets
  BY DEF StoreLine, vars, BrowserUnchanged
<1>4. \A p \in queries' : /\ sockets'[p.socket].server # "gone"
                            /\ sockets'[p.socket].browser # "connecting"
  BY <1>3 DEF FeedInv, QueriesLeft, StoreLine
<1> QED  BY <1>1, <1>2, <1>3, <1>4, FeedFrame

LEMMA UnmountFeed ==
    ASSUME TypeOK, FeedInv, NoGap, Unmount,
           Forget, queries' = QueriesLeft, UNCHANGED <<stored, tail, inFlight, asked, unsent>>
    PROVE  FeedInv' /\ NoGap'
<1>1. TypeOK'
  BY UnmountTypes
<1>2. /\ UNCHANGED <<restarts, nextEventSequence, eventBuffer>>
      /\ excused \subseteq excused' /\ Have \subseteq Have'
      /\ \A m \in Handled' : m \in Handled \/ (m \in 1 .. Newest /\ 1 .. m \subseteq Have')
      /\ lastEventId' = lastEventId \/ 1 .. lastEventId' \subseteq Have'
  BY DEF Unmount, Have, Handled, ServerUnchanged, BrowserUnchanged, server, timers, page, seen
<1>3. sockets' = sockets
  BY DEF Unmount, BrowserUnchanged
<1>4. \A p \in queries' : /\ sockets'[p.socket].server # "gone"
                            /\ sockets'[p.socket].browser # "connecting"
  BY <1>3 DEF FeedInv, QueriesLeft, StoreLine
<1> QED  BY <1>1, <1>2, <1>3, <1>4, FeedFrame

LEMMA ReadLogFeed ==
    ASSUME TypeOK, FeedInv, NoGap, NEW q \in queries, ReadLog(q)
    PROVE  FeedInv' /\ NoGap'
<1>1. TypeOK'
  BY ReadLogTypes
<1>2. /\ UNCHANGED <<restarts, nextEventSequence, eventBuffer>>
      /\ excused \subseteq excused' /\ Have \subseteq Have'
      /\ \A m \in Handled' : m \in Handled \/ (m \in 1 .. Newest /\ 1 .. m \subseteq Have')
      /\ lastEventId' = lastEventId \/ 1 .. lastEventId' \subseteq Have'
  BY DEF ReadLog, vars, Have, Handled, ServerUnchanged, BrowserUnchanged, server, timers, page, seen
<1>3. sockets' = sockets
  BY DEF ReadLog, vars, BrowserUnchanged
<1>4. \A p \in queries' : /\ sockets'[p.socket].server # "gone"
                            /\ sockets'[p.socket].browser # "connecting"
  <2>1. PICK ok \in BOOLEAN : queries' = (queries \ {q}) \union {[q EXCEPT !.read = TRUE, !.ok = ok,
             !.lines = IF ok THEN streamSliceFromEntries(resolveLogsForQueryContext, q.tail) ELSE {}]}
    BY SettingTypes DEF ReadLog, SettingKinds
  <2>2. [q EXCEPT !.read = TRUE, !.ok = ok,
             !.lines = IF ok THEN streamSliceFromEntries(resolveLogsForQueryContext, q.tail) ELSE {}].socket = q.socket
    BY DEF TypeOK, LogTypes, Queries
  <2> QED  BY <1>3, <2>1, <2>2 DEF FeedInv
<1> QED  BY <1>1, <1>2, <1>3, <1>4, FeedFrame

LEMMA DisconnectTimerFeed ==
    ASSUME TypeOK, FeedInv, NoGap, DisconnectTimer,
           queries' = QueriesLeft,
           UNCHANGED <<stored, window, tail, inFlight, asked, unsent, overtaken>>
    PROVE  FeedInv' /\ NoGap'
<1>1. TypeOK'
  BY DisconnectTimerTypes
<1>2. /\ UNCHANGED <<restarts, nextEventSequence, eventBuffer>>
      /\ excused \subseteq excused' /\ Have \subseteq Have'
      /\ \A m \in Handled' : m \in Handled \/ (m \in 1 .. Newest /\ 1 .. m \subseteq Have')
      /\ lastEventId' = lastEventId \/ 1 .. lastEventId' \subseteq Have'
  BY DEF DisconnectTimer, Show, Have, Handled, ServerUnchanged, BrowserUnchanged, server, timers, page, seen
<1>3. \A r \in Sockets :
        \/ sockets'[r] = sockets[r]
        \/ /\ SocketRight(sockets'[r], Have', Newest)
           /\ restarts = 0 => IdsHad(sockets'[r], Have')
  <2> SUFFICES ASSUME sockets' # sockets
               PROVE  \A r \in Sockets :
        \/ sockets'[r] = sockets[r]
        \/ /\ SocketRight(sockets'[r], Have', Newest)
           /\ restarts = 0 => IdsHad(sockets'[r], Have')
    OBVIOUS
  <2> DEFINE s == ws
  <2>1. s \in Sockets /\ Turns(s, "closing", sockets[s].accepted, sockets[s].server, sockets[s].subscribed, <<>>, <<>>)
    BY ClosedEffect DEF DisconnectTimer, closeSocket, Closed, TypeOK, PageTypes, ServerTypes
  <2>2. Newest \in Nat
    BY DEF Newest, TypeOK, ServerTypes
  <2> HIDE DEF s
  <2>3. SocketRight(sockets'[s], Have', Newest) /\ IdsHad(sockets'[s], Have')
    BY <2>1, <2>2, SilentRight DEF Turns, Looks, Listening
  <2> QED  BY <2>1, <2>3 DEF Turns
<1>4. \A p \in queries' : /\ sockets'[p.socket].server # "gone"
                            /\ sockets'[p.socket].browser # "connecting"
  <2>1. CASE sockets' = sockets
    BY <2>1 DEF QueriesLeft, FeedInv
  <2>2. CASE sockets' # sockets
    <3> DEFINE s == ws
    <3>1. s \in Sockets /\ Turns(s, "closing", sockets[s].accepted, sockets[s].server, sockets[s].subscribed, <<>>, <<>>)
      BY <2>2, ClosedEffect DEF DisconnectTimer, closeSocket, Closed, TypeOK, PageTypes, ServerTypes
    <3> HIDE DEF s
    <3> QED  BY <3>1 DEF QueriesLeft, FeedInv, Turns, Looks, TypeOK, LogTypes, Queries
  <2> QED  BY <2>1, <2>2
<1> QED  BY <1>1, <1>2, <1>3, <1>4, FeedFrame

LEMMA ReconnectTimerFeed ==
    ASSUME TypeOK, FeedInv, NoGap, ReconnectTimer,
           queries' = QueriesLeft,
           UNCHANGED <<stored, window, tail, inFlight, asked, unsent, overtaken>>
    PROVE  FeedInv' /\ NoGap'
<1>1. TypeOK'
  BY ReconnectTimerTypes
<1>2. /\ UNCHANGED <<restarts, nextEventSequence, eventBuffer>>
      /\ excused \subseteq excused' /\ Have \subseteq Have'
      /\ \A m \in Handled' : m \in Handled \/ (m \in 1 .. Newest /\ 1 .. m \subseteq Have')
      /\ lastEventId' = lastEventId \/ 1 .. lastEventId' \subseteq Have'
  BY DEF ReconnectTimer, Have, Handled, ServerUnchanged, BrowserUnchanged, server, timers, page, seen
<1>3. PICK s \in Sockets :
        /\ sockets[s] = Unused
        /\ Looks(sockets'[s], "connecting", FALSE, "gone", FALSE, <<>>, <<>>)
        /\ \A r \in Sockets : r # s => sockets'[r] = sockets[r]
  BY ConnectEffect DEF ReconnectTimer, TypeOK, ServerTypes
<1>5. SocketRight(sockets'[s], Have', Newest) /\ IdsHad(sockets'[s], Have')
  <2>1. Newest \in Nat
    BY DEF Newest, TypeOK, ServerTypes
  <2> QED  BY <2>1, <1>3, SilentRight DEF Looks
<1>4. \A p \in queries' : /\ sockets'[p.socket].server # "gone"
                            /\ sockets'[p.socket].browser # "connecting"
  BY <1>3 DEF QueriesLeft, FeedInv, Looks, Unused, TypeOK, LogTypes, Queries
<1> QED  BY <1>1, <1>2, <1>3, <1>4, <1>5, FeedFrame

LEMMA MountFeed ==
    ASSUME TypeOK, FeedInv, NoGap, Mount,
           Forget, queries' = QueriesLeft, UNCHANGED <<stored, tail, inFlight, asked, unsent>>
    PROVE  FeedInv' /\ NoGap'
<1>1. TypeOK'
  BY MountTypes
<1>2. /\ UNCHANGED <<restarts, nextEventSequence, eventBuffer>>
      /\ excused \subseteq excused' /\ Have \subseteq Have'
      /\ \A m \in Handled' : m \in Handled \/ (m \in 1 .. Newest /\ 1 .. m \subseteq Have')
      /\ lastEventId' = lastEventId \/ 1 .. lastEventId' \subseteq Have'
  BY DEF Mount, Have, Handled, ServerUnchanged, BrowserUnchanged, server, timers, page, seen
<1>3. PICK s \in Sockets :
        /\ Closed[s] = Unused
        /\ Looks(sockets'[s], "connecting", FALSE, "gone", FALSE, <<>>, <<>>)
        /\ \A r \in Sockets : r # s => sockets'[r] = Closed[r]
  BY MountEffect, ConnectEffect DEF TypeOK
<1>5. \A r \in Sockets : \/ Closed[r] = sockets[r]
                         \/ Looks(Closed[r], "closing", sockets[r].accepted, sockets[r].server,
                                  sockets[r].subscribed, <<>>, <<>>)
  <2> TAKE r \in Sockets
  <2>1. \/ Closed[r] = sockets[r]
        \/ /\ r = ws
           /\ Closed = [sockets EXCEPT ![ws].browser = "closing", ![ws].up = <<>>, ![ws].down = <<>>]
    BY DEF Closed, TypeOK, ServerTypes, PageTypes
  <2>2. CASE /\ r = ws
             /\ Closed = [sockets EXCEPT ![ws].browser = "closing", ![ws].up = <<>>, ![ws].down = <<>>]
    <3>1. Closed[r] = [sockets[r] EXCEPT !.browser = "closing", !.up = <<>>, !.down = <<>>]
      BY <2>2 DEF TypeOK, ServerTypes, SocketKinds
    <3>2. sockets[r] \in SocketKinds /\ "closing" \in Browsers
          /\ <<>> \in Seq(Requests) /\ <<>> \in Seq(Items)
      BY DEF TypeOK, ServerTypes, Browsers
    <3>3. Looks([sockets[r] EXCEPT !.browser = "closing", !.up = <<>>, !.down = <<>>], "closing",
                sockets[r].accepted, sockets[r].server, sockets[r].subscribed, <<>>, <<>>)
      BY <3>2, SilentLooks
    <3> QED  BY <3>1, <3>3
  <2> QED  BY <2>1, <2>2
<1>6. sockets[s].server = "gone"
  BY <1>3, <1>5, UnusedLooks DEF Looks
<1>7. ASSUME NEW r \in Sockets, sockets'[r] # sockets[r]
      PROVE  SocketRight(sockets'[r], Have', Newest) /\ IdsHad(sockets'[r], Have')
  <2>1. Newest \in Nat
    BY DEF Newest, TypeOK, ServerTypes
  <2>2. CASE r = s
    BY <2>1, <2>2, <1>3, SilentRight DEF Looks
  <2>3. CASE r # s
    <3>1. /\ sockets'[r] \in SocketKinds /\ sockets'[r].up = <<>> /\ sockets'[r].down = <<>>
          /\ sockets'[r].browser \notin Listening
      BY <2>3, <1>3, <1>5, <1>7 DEF Looks, Listening
    <3> QED  BY <3>1, <2>1, SilentRight
  <2> QED  BY <2>2, <2>3
<1>4. \A p \in queries' : /\ sockets'[p.socket].server # "gone"
                            /\ sockets'[p.socket].browser # "connecting"
  <2> SUFFICES ASSUME NEW p \in queries'
               PROVE  sockets'[p.socket].server # "gone" /\ sockets'[p.socket].browser # "connecting"
    OBVIOUS
  <2>1. /\ p \in queries /\ p.socket \in Sockets /\ sockets'[p.socket].server # "gone"
        /\ sockets[p.socket].browser # "connecting"
    BY DEF QueriesLeft, FeedInv, TypeOK, LogTypes, Queries
  <2>2. p.socket # s
    BY <1>3, <2>1 DEF Looks
  <2>3. sockets'[p.socket] = Closed[p.socket]
    BY <1>3, <2>1, <2>2
  <2> QED  BY <1>5, <2>1, <2>3 DEF Looks
<1> QED  BY <1>1, <1>2, <1>7, <1>4, FeedFrame

\* A new event is in the buffer, and on its way to all who listen, or has been left out.
LEMMA publishEventFeed ==
    ASSUME TypeOK, FeedInv, NoGap, NEW kind \in Kinds, NEW slow \in SUBSET Sockets,
           publishEvent(kind, slow),
           queries' = QueriesLeft,
           UNCHANGED <<stored, window, tail, inFlight, asked, unsent, overtaken>>
    PROVE  FeedInv' /\ NoGap'
<1> DEFINE e == [seq |-> nextEventSequence, kind |-> kind]
<1>1. TypeOK'
  BY publishEventTypes
<1>2. /\ Newest' = Newest + 1 /\ Newest \in Nat /\ nextEventSequence = Newest + 1
      /\ eventBuffer \in Seq(Events) /\ e \in Events /\ e.seq = Newest + 1
      /\ Handled' = Handled /\ Have \subseteq Have'
      /\ lastEventId' = lastEventId /\ restarts' = restarts
      /\ eventBuffer' = rememberEvent(e)
      /\ slow # {} => e.seq \in excused'
  BY DEF Newest, TypeOK, ServerTypes, publishEvent, ServerUnchanged, seen, Handled, Have, Events
<1>3. \A n \in 1 .. Newest + 1 :
         (\A i \in DOMAIN eventBuffer' : eventBuffer'[i].seq # n) => n \in excused'
  BY <1>2 DEF publishEvent
<1>4. BufferHolds(eventBuffer', Newest')
  <2> DEFINE all == Append(eventBuffer, e)
  <2>1. BufferHolds(eventBuffer, Newest)
    BY DEF FeedInv
  <2>2. /\ all \in Seq(Events) /\ Len(all) = Len(eventBuffer) + 1 /\ Len(eventBuffer) \in Nat
        /\ DOMAIN all = 1 .. Len(eventBuffer) + 1 /\ DOMAIN eventBuffer = 1 .. Len(eventBuffer)
        /\ \A i \in 1 .. Len(eventBuffer) : all[i] = eventBuffer[i]
        /\ all[Len(eventBuffer) + 1] = e
    BY <1>2
  <2> HIDE DEF all, e
  <2>6. \A k \in DOMAIN all : all[k].seq = Newest + 1 - Len(all) + k
    <3> TAKE k \in DOMAIN all
    <3>1. CASE k = Len(eventBuffer) + 1
      BY <3>1, <1>2, <2>2 DEF e
    <3>2. CASE k \in 1 .. Len(eventBuffer)
      BY <3>2, <1>2, <2>1, <2>2 DEF BufferHolds
    <3> QED  BY <3>1, <3>2, <2>2
  <2>3. BufferHolds(all, Newest + 1)
    BY <2>6, <1>2, <2>1, <2>2 DEF BufferHolds
  <2>4. BufferHolds(Tail(all), Newest + 1)
    <3>1. /\ Len(Tail(all)) = Len(eventBuffer) /\ DOMAIN Tail(all) = 1 .. Len(eventBuffer)
          /\ \A i \in 1 .. Len(eventBuffer) : Tail(all)[i] = all[i + 1]
      BY <2>2
    <3>2. \A i \in 1 .. Len(eventBuffer) : i + 1 \in DOMAIN all
      BY <2>2
    <3>3. \A i \in DOMAIN Tail(all) : Tail(all)[i].seq = Newest + 1 - Len(Tail(all)) + i
      <4> TAKE i \in DOMAIN Tail(all)
      <4>1. i \in 1 .. Len(eventBuffer) /\ Tail(all)[i] = all[i + 1] /\ i + 1 \in DOMAIN all
        BY <3>1, <3>2
      <4> DEFINE j == i + 1
      <4>6. j \in DOMAIN all
        BY <4>1
      <4> HIDE DEF j
      <4>7. all[j].seq = Newest + 1 - Len(all) + j
        BY <2>6, <4>6
      <4>2. all[i + 1].seq = Newest + 1 - Len(all) + (i + 1)
        BY <4>7 DEF j
      <4>3. Tail(all)[i].seq = Newest + 1 - (Len(eventBuffer) + 1) + (i + 1)
        BY <4>1, <4>2, <2>2
      <4>4. Newest + 1 - (Len(eventBuffer) + 1) + (i + 1) = Newest + 1 - Len(eventBuffer) + i
        BY <4>1, <2>2, <1>2
      <4> QED  BY <4>3, <4>4, <3>1
    <3> QED  BY <3>1, <3>3, <1>2, <2>1, <2>2 DEF BufferHolds
  <2>5. eventBuffer' = all \/ eventBuffer' = Tail(all)
    BY <1>2 DEF rememberEvent, all, e
  <2> QED  BY <1>2, <2>3, <2>4, <2>5
<1>5. \A n \in 1 .. Newest' - Len(eventBuffer') : n \in excused'
  <2> SUFFICES ASSUME NEW n \in 1 .. Newest' - Len(eventBuffer')
               PROVE  n \in excused'
    OBVIOUS
  <2>1. eventBuffer' \in Seq(Events)
    BY <1>1 DEF TypeOK, ServerTypes
  <2>2. Len(eventBuffer') \in Nat /\ DOMAIN eventBuffer' = 1 .. Len(eventBuffer')
    BY <2>1
  <2>3. \A i \in DOMAIN eventBuffer' : eventBuffer'[i].seq # n
    BY <1>2, <1>4, <2>2 DEF BufferHolds
  <2>4. n \in 1 .. Newest + 1
    BY <1>2, <2>2
  <2> QED  BY <1>3, <2>3, <2>4
<1>6. ASSUME NEW s \in Sockets
      PROVE  SocketRight(sockets'[s], Have', Newest') /\ (restarts = 0 => IdsHad(sockets'[s], Have'))
  <2>1. /\ sockets[s] \in SocketKinds /\ SocketRight(sockets[s], Have, Newest)
        /\ restarts = 0 => IdsHad(sockets[s], Have)
    BY SocketFacts
  <2>2. /\ sockets[s].up \in Seq(Requests) /\ sockets[s].down \in Seq(Items)
        /\ Gapless(sockets[s].down, Have', Newest)
        /\ Complete(sockets[s].down, Have, Newest) => Complete(sockets[s].down, Have', Newest)
    BY <1>2, <2>1, SocketTypes, MoreHad DEF SocketRight
  <2>3. CASE s \notin slow /\ CanReceive(s) /\ sockets[s].browser \in Listening
    <3>1. Looks(sockets'[s], sockets[s].browser, sockets[s].accepted, sockets[s].server,
                sockets[s].subscribed, sockets[s].up, Append(sockets[s].down, e))
      BY <2>3, PublishEffect
    <3>2. sockets[s].browser = "open" /\ sockets[s].subscribed
      BY <2>1, <2>3 DEF CanReceive, SocketRight, Listening
    <3> HIDE DEF e
    <3>3. Complete(sockets[s].down, Have', Newest)
      BY <2>1, <2>2, <3>2 DEF SocketRight
    <3>4. Gapless(Append(sockets[s].down, e), Have', Newest') /\ Complete(Append(sockets[s].down, e), Have', Newest')
      BY <1>2, <2>2, <3>3, Sent
    <3>5. SocketRight(sockets'[s], Have', Newest')
      BY <2>1, <3>1, <3>2, <3>4 DEF Looks, SocketRight
    <3>6. restarts = 0 => IdsHad(sockets'[s], Have')
      BY <1>2, <2>1, <3>1 DEF Looks, IdsHad
    <3> QED  BY <3>5, <3>6
  <2>4. CASE ~(s \notin slow /\ CanReceive(s) /\ sockets[s].browser \in Listening)
    <3>1. sockets'[s] = sockets[s]
      BY <2>4, PublishEffect
    <3>2. Gapless(sockets[s].down, Have', Newest')
      <4>1. \A i \in DOMAIN sockets[s].down :
              sockets[s].down[i].kind \in Kinds => sockets[s].down[i].seq \in Nat
        BY <2>2, Kind
      <4> HIDE DEF e
      <4> QED  BY <1>2, <2>2, <4>1 DEF Gapless
    <3>3. sockets[s].browser = "open" /\ sockets[s].subscribed => Complete(sockets[s].down, Have', Newest')
      <4> SUFFICES ASSUME sockets[s].browser = "open", sockets[s].subscribed
                   PROVE  Complete(sockets[s].down, Have', Newest')
        OBVIOUS
      <4>1. sockets[s].server = "attached"
        BY <2>1 DEF SocketRight, Listening
      <4>2. Newest + 1 \in excused'
        BY <2>4, <4>1, <1>2 DEF CanReceive, Listening
      <4>3. Newest + 1 \in Have'
        BY <4>2 DEF Have
      <4>4. Complete(sockets[s].down, Have', Newest)
        BY <2>1, <2>2 DEF SocketRight
      <4> HIDE DEF e
      <4> QED  BY <1>2, <4>3, <4>4 DEF Complete
    <3>4. SocketRight(sockets'[s], Have', Newest')
      BY <2>1, <3>1, <3>2, <3>3 DEF SocketRight
    <3>5. restarts = 0 => IdsHad(sockets'[s], Have')
      BY <1>2, <2>1, <3>1 DEF IdsHad
    <3> QED  BY <3>4, <3>5
  <2> QED  BY <2>3, <2>4
<1>7. \A p \in queries' : /\ sockets'[p.socket].server # "gone"
                            /\ sockets'[p.socket].browser # "connecting"
  BY PublishEffect DEF QueriesLeft, FeedInv, Looks, TypeOK, LogTypes, Queries
<1>8. restarts = 0 => 1 .. lastEventId' \subseteq Have'
  BY <1>2 DEF FeedInv, Have
<1>9. \A m \in Handled' : 1 <= m /\ m <= Newest'
  <2>1. Handled \subseteq Nat
    BY DEF Handled, TypeOK, PageTypes
  <2>2. \A m \in Handled : 1 <= m /\ m <= Newest
    BY DEF FeedInv
  <2> HIDE DEF e
  <2> QED  BY <1>2, <2>1, <2>2
<1>10. NoGap'
  BY <1>2 DEF NoGap, Have
<1>11. FeedInv'
  BY <1>2, <1>4, <1>5, <1>6, <1>7, <1>8, <1>9 DEF FeedInv, Have
<1> QED  BY <1>10, <1>11

LEMMA RestartFeed ==
    ASSUME TypeOK, FeedInv, NoGap, Restart,
           queries' = QueriesLeft,
           UNCHANGED <<stored, window, tail, inFlight, asked, unsent, overtaken>>
    PROVE  FeedInv' /\ NoGap'
<1>1. Newest' = 0 /\ eventBuffer' = <<>> /\ Handled' = {} /\ restarts' # 0
  BY DEF Restart, Newest, Handled, TypeOK, ServerTypes
<1>2. ASSUME NEW s \in Sockets
      PROVE  SocketRight(sockets'[s], Have', Newest')
  <2>1. SocketRight(sockets[s], Have, Newest)
    BY SocketFacts
  <2>2. /\ sockets'[s] \in SocketKinds /\ sockets'[s].up = <<>> /\ sockets'[s].down = <<>>
        /\ sockets'[s].browser \notin Listening
    BY <2>1, RestartEffect DEF SocketRight, Listening
  <2> QED  BY <1>1, <2>2, SilentRight
<1>3. queries' = {}
  BY RestartEffect DEF QueriesLeft, TypeOK, LogTypes, Queries
<1>4. BufferHolds(eventBuffer', Newest') /\ \A n \in 1 .. Newest' - Len(eventBuffer') : n \in excused'
  BY <1>1 DEF BufferHolds
<1>5. NoGap'
  BY <1>1 DEF NoGap
<1>6. FeedInv'
  BY <1>1, <1>2, <1>3, <1>4 DEF FeedInv, Have
<1> QED  BY <1>5, <1>6

-----------------------------------------------------------------------------
(* One socket at a time, and each event once, on a page that stays.        *)

LEMMA RequestsLater ==
    ASSUME NEW u \in Seq(Requests), u # <<>>, NEW id,
           \A i \in DOMAIN u : u[i].action = "subscribe" => u[i].id = id
    PROVE  \A i \in DOMAIN Tail(u) : Tail(u)[i].action = "subscribe" => Tail(u)[i].id = id
<1>1. /\ Len(u) \in Nat /\ Len(u) >= 1 /\ DOMAIN u = 1 .. Len(u)
      /\ DOMAIN Tail(u) = 1 .. Len(u) - 1 /\ \A i \in 1 .. Len(u) - 1 : Tail(u)[i] = u[i + 1]
  OBVIOUS
<1> SUFFICES ASSUME NEW i \in DOMAIN Tail(u), Tail(u)[i].action = "subscribe"
             PROVE  Tail(u)[i].id = id
  OBVIOUS
<1>2. i + 1 \in DOMAIN u /\ Tail(u)[i] = u[i + 1]
  BY <1>1
<1> QED  BY <1>2

\* A step that turns a socket and brings nothing keeps what holds of one socket.
LEMMA OneFrame ==
    ASSUME OneInv, Handled' \subseteq Handled, Newest' = Newest,
           lastEventId' = lastEventId, twice' = twice,
           NEW s \in Sockets, NEW b, NEW u, NEW d,
           sockets'[s].browser = b, sockets'[s].up = u, sockets'[s].down = d,
           \A r \in Sockets : r # s => sockets'[r] = sockets[r],
           b # "unused" => sockets[s].browser # "unused",
           reconnectTimer' => reconnectTimer \/ (b = "unused" /\ sockets[s].browser # "unused"),
           \A i \in DOMAIN u : u[i].action = "subscribe" => u[i].id = lastEventId,
           Ahead(d, Handled)
    PROVE  OneInv'
<1>1. sockets'[s].browser = b /\ sockets'[s].up = u /\ sockets'[s].down = d
  OBVIOUS
<1>2. \A r \in Sockets : r # s => sockets'[r] = sockets[r]
  OBVIOUS
<1>3. \A r \in Sockets : sockets'[r].browser # "unused" => sockets[r].browser # "unused"
  BY <1>1, <1>2
<1>4. \A r, t \in Sockets : sockets'[r].browser # "unused" /\ sockets'[t].browser # "unused" => r = t
  BY <1>3 DEF OneInv
<1>5. reconnectTimer' => \A r \in Sockets : sockets'[r].browser = "unused"
  BY <1>1, <1>2, <1>3 DEF OneInv
<1>6. \A m \in Handled' : m <= lastEventId' /\ lastEventId' <= Newest'
  BY DEF OneInv
<1>7. ASSUME NEW r \in Sockets
      PROVE  /\ \A i \in DOMAIN sockets'[r].up :
                  sockets'[r].up[i].action = "subscribe" => sockets'[r].up[i].id = lastEventId'
             /\ Ahead(sockets'[r].down, Handled')
  <2>1. CASE r = s
    BY <2>1, <1>1 DEF Ahead
  <2>2. CASE r # s
    BY <2>2, <1>2 DEF OneInv, Ahead
  <2> QED  BY <2>1, <2>2
<1> QED  BY <1>4, <1>5, <1>6, <1>7 DEF OneInv

\* So does one that leaves the sockets alone.
LEMMA OneStays ==
    ASSUME OneInv, Handled' \subseteq Handled, Newest' = Newest,
           lastEventId' = lastEventId, twice' = twice,
           sockets' = sockets, reconnectTimer' => reconnectTimer
    PROVE  OneInv'
<1>1. \A s \in Sockets : Ahead(sockets'[s].down, Handled')
  BY DEF OneInv, Ahead
<1> QED  BY <1>1 DEF OneInv

LEMMA AcceptOne ==
    ASSUME TypeOK, FeedInv, OneInv, NEW s \in Sockets, Accept(s)
    PROVE  OneInv'
<1>1. /\ Handled' \subseteq Handled /\ Newest' = Newest
      /\ lastEventId' = lastEventId /\ twice' = twice
  BY DEF Accept, Handled, Newest, ServerUnchanged, BrowserUnchanged, server, timers, page, seen
<1>2. /\ sockets[s] \in SocketKinds /\ sockets[s].up \in Seq(Requests) /\ sockets[s].down \in Seq(Items)
      /\ SocketRight(sockets[s], Have, Newest)
  BY SocketFacts, SocketTypes
<1>3. /\ \A i \in DOMAIN sockets[s].up :
           sockets[s].up[i].action = "subscribe" => sockets[s].up[i].id = lastEventId
      /\ Ahead(sockets[s].down, Handled)
  BY DEF OneInv
<1>4. Ahead(<<>>, Handled)
  BY DEF Ahead
<1>5. /\ sockets'[s].browser = sockets[s].browser /\ sockets'[s].up = sockets[s].up /\ sockets'[s].down = sockets[s].down
      /\ \A r \in Sockets : r # s => sockets'[r] = sockets[r]
  BY AcceptEffect DEF Turns, Looks
<1>6. /\ sockets[s].browser # "unused" => sockets[s].browser # "unused"
      /\ reconnectTimer' => reconnectTimer \/ (sockets[s].browser = "unused" /\ sockets[s].browser # "unused")
  BY DEF Accept, ServerUnchanged, timers
<1> QED  BY <1>1, <1>3, <1>4, <1>5, <1>6, OneFrame

LEMMA SessionReadOne ==
    ASSUME TypeOK, FeedInv, OneInv, NEW s \in Sockets, SessionRead(s)
    PROVE  OneInv'
<1>1. /\ Handled' \subseteq Handled /\ Newest' = Newest
      /\ lastEventId' = lastEventId /\ twice' = twice
  BY DEF SessionRead, Handled, Newest, ServerUnchanged, BrowserUnchanged, server, timers, page, seen
<1>2. /\ sockets[s] \in SocketKinds /\ sockets[s].up \in Seq(Requests) /\ sockets[s].down \in Seq(Items)
      /\ SocketRight(sockets[s], Have, Newest)
  BY SocketFacts, SocketTypes
<1>3. /\ \A i \in DOMAIN sockets[s].up :
           sockets[s].up[i].action = "subscribe" => sockets[s].up[i].id = lastEventId
      /\ Ahead(sockets[s].down, Handled)
  BY DEF OneInv
<1>4. Ahead(<<>>, Handled)
  BY DEF Ahead
<1>5. /\ sockets'[s].browser = sockets[s].browser /\ sockets'[s].up = sockets[s].up /\ sockets'[s].down = sockets[s].down
      /\ \A r \in Sockets : r # s => sockets'[r] = sockets[r]
  BY SessionReadEffect DEF Turns, Looks
<1>6. /\ sockets[s].browser # "unused" => sockets[s].browser # "unused"
      /\ reconnectTimer' => reconnectTimer \/ (sockets[s].browser = "unused" /\ sockets[s].browser # "unused")
  BY DEF SessionRead, ServerUnchanged, timers
<1> QED  BY <1>1, <1>3, <1>4, <1>5, <1>6, OneFrame

LEMMA ServerClosesOne ==
    ASSUME TypeOK, FeedInv, OneInv, NEW s \in Sockets, ServerCloses(s)
    PROVE  OneInv'
<1>1. /\ Handled' \subseteq Handled /\ Newest' = Newest
      /\ lastEventId' = lastEventId /\ twice' = twice
  BY DEF ServerCloses, Handled, Newest, ServerUnchanged, BrowserUnchanged, server, timers, page, seen
<1>2. /\ sockets[s] \in SocketKinds /\ sockets[s].up \in Seq(Requests) /\ sockets[s].down \in Seq(Items)
      /\ SocketRight(sockets[s], Have, Newest)
  BY SocketFacts, SocketTypes
<1>3. /\ \A i \in DOMAIN sockets[s].up :
           sockets[s].up[i].action = "subscribe" => sockets[s].up[i].id = lastEventId
      /\ Ahead(sockets[s].down, Handled)
  BY DEF OneInv
<1>4. Ahead(<<>>, Handled)
  BY DEF Ahead
<1>5. CASE sockets[s].browser # "unused"
  <2>1. /\ sockets'[s].browser = sockets[s].browser /\ sockets'[s].up = sockets[s].up /\ sockets'[s].down = sockets[s].down
        /\ \A r \in Sockets : r # s => sockets'[r] = sockets[r]
    BY <1>5, ServerGoneEffect DEF Turns, Looks
  <2>2. /\ sockets[s].browser # "unused" => sockets[s].browser # "unused"
        /\ reconnectTimer' => reconnectTimer \/ (sockets[s].browser = "unused" /\ sockets[s].browser # "unused")
    BY <1>5 DEF ServerCloses, ServerUnchanged, timers
  <2> QED  BY <1>1, <1>2, <1>3, <1>4, <2>1, <2>2, OneFrame
<1>6. CASE sockets[s].browser = "unused"
  <2>1. /\ sockets'[s].browser = "unused" /\ sockets'[s].up = <<>> /\ sockets'[s].down = <<>>
        /\ \A r \in Sockets : r # s => sockets'[r] = sockets[r]
    BY <1>6, ServerForgetsEffect DEF Turns, Looks
  <2>2. /\ "unused" # "unused" => sockets[s].browser # "unused"
        /\ reconnectTimer' => reconnectTimer \/ ("unused" = "unused" /\ sockets[s].browser # "unused")
    BY <1>6 DEF ServerCloses, ServerUnchanged, timers
  <2> QED  BY <1>1, <1>2, <1>3, <1>4, <2>1, <2>2, OneFrame
<1> QED  BY <1>5, <1>6

LEMMA SocketBreaksOne ==
    ASSUME TypeOK, FeedInv, OneInv, NEW s \in Sockets, SocketBreaks(s)
    PROVE  OneInv'
<1>1. /\ Handled' \subseteq Handled /\ Newest' = Newest
      /\ lastEventId' = lastEventId /\ twice' = twice
  BY DEF SocketBreaks, Handled, Newest, ServerUnchanged, BrowserUnchanged, server, timers, page, seen
<1>2. /\ sockets[s] \in SocketKinds /\ sockets[s].up \in Seq(Requests) /\ sockets[s].down \in Seq(Items)
      /\ SocketRight(sockets[s], Have, Newest)
  BY SocketFacts, SocketTypes
<1>3. /\ \A i \in DOMAIN sockets[s].up :
           sockets[s].up[i].action = "subscribe" => sockets[s].up[i].id = lastEventId
      /\ Ahead(sockets[s].down, Handled)
  BY DEF OneInv
<1>4. Ahead(<<>>, Handled)
  BY DEF Ahead
<1>5. /\ sockets'[s].browser = "broken" /\ sockets'[s].up = <<>> /\ sockets'[s].down = <<>>
      /\ \A r \in Sockets : r # s => sockets'[r] = sockets[r]
  BY SocketBreaksEffect DEF Turns, Looks
<1>6. /\ "broken" # "unused" => sockets[s].browser # "unused"
      /\ reconnectTimer' => reconnectTimer \/ ("broken" = "unused" /\ sockets[s].browser # "unused")
  BY DEF SocketBreaks, ServerUnchanged, timers, Listening
<1> QED  BY <1>1, <1>3, <1>4, <1>5, <1>6, OneFrame

LEMMA OnCloseOne ==
    ASSUME TypeOK, FeedInv, OneInv, NEW s \in Sockets, OnClose(s)
    PROVE  OneInv'
<1>1. /\ Handled' \subseteq Handled /\ Newest' = Newest
      /\ lastEventId' = lastEventId /\ twice' = twice
  BY DEF OnClose, Handled, Newest, ServerUnchanged, BrowserUnchanged, server, timers, page, seen
<1>2. /\ sockets[s] \in SocketKinds /\ sockets[s].up \in Seq(Requests) /\ sockets[s].down \in Seq(Items)
      /\ SocketRight(sockets[s], Have, Newest)
  BY SocketFacts, SocketTypes
<1>3. /\ \A i \in DOMAIN sockets[s].up :
           sockets[s].up[i].action = "subscribe" => sockets[s].up[i].id = lastEventId
      /\ Ahead(sockets[s].down, Handled)
  BY DEF OneInv
<1>4. Ahead(<<>>, Handled)
  BY DEF Ahead
<1>5. CASE sockets[s].server # "gone"
  <2>1. /\ sockets'[s].browser = "unused" /\ sockets'[s].up = sockets[s].up /\ sockets'[s].down = sockets[s].down
        /\ \A r \in Sockets : r # s => sockets'[r] = sockets[r]
    BY <1>5, OnCloseEffect DEF Turns, Looks
  <2>2. /\ "unused" # "unused" => sockets[s].browser # "unused"
        /\ reconnectTimer' => reconnectTimer \/ ("unused" = "unused" /\ sockets[s].browser # "unused")
    BY <1>5 DEF OnClose, scheduleReconnect
  <2> QED  BY <1>1, <1>2, <1>3, <1>4, <2>1, <2>2, OneFrame
<1>6. CASE sockets[s].server = "gone"
  <2>1. /\ sockets'[s].browser = "unused" /\ sockets'[s].up = <<>> /\ sockets'[s].down = <<>>
        /\ \A r \in Sockets : r # s => sockets'[r] = sockets[r]
    BY <1>6, BothClosedEffect DEF Turns, Looks
  <2>2. /\ "unused" # "unused" => sockets[s].browser # "unused"
        /\ reconnectTimer' => reconnectTimer \/ ("unused" = "unused" /\ sockets[s].browser # "unused")
    BY <1>6 DEF OnClose, scheduleReconnect
  <2> QED  BY <1>1, <1>2, <1>3, <1>4, <2>1, <2>2, OneFrame
<1> QED  BY <1>5, <1>6

LEMMA RefusedOne ==
    ASSUME TypeOK, FeedInv, OneInv, NEW s \in Sockets, Refused(s)
    PROVE  OneInv'
<1>1. /\ Handled' \subseteq Handled /\ Newest' = Newest
      /\ lastEventId' = lastEventId /\ twice' = twice
  BY DEF Refused, Handled, Newest, ServerUnchanged, BrowserUnchanged, server, timers, page, seen
<1>2. /\ sockets[s] \in SocketKinds /\ sockets[s].up \in Seq(Requests) /\ sockets[s].down \in Seq(Items)
      /\ SocketRight(sockets[s], Have, Newest)
  BY SocketFacts, SocketTypes
<1>3. /\ \A i \in DOMAIN sockets[s].up :
           sockets[s].up[i].action = "subscribe" => sockets[s].up[i].id = lastEventId
      /\ Ahead(sockets[s].down, Handled)
  BY DEF OneInv
<1>4. Ahead(<<>>, Handled)
  BY DEF Ahead
<1>5. /\ sockets'[s].browser = "unused" /\ sockets'[s].up = <<>> /\ sockets'[s].down = <<>>
      /\ \A r \in Sockets : r # s => sockets'[r] = sockets[r]
  BY RefusedEffect DEF Turns, Looks
<1>6. /\ "unused" # "unused" => sockets[s].browser # "unused"
      /\ reconnectTimer' => reconnectTimer \/ ("unused" = "unused" /\ sockets[s].browser # "unused")
  BY DEF Refused
<1> QED  BY <1>1, <1>3, <1>4, <1>5, <1>6, OneFrame

LEMMA OnOpenOne ==
    ASSUME TypeOK, FeedInv, OneInv, NEW s \in Sockets, OnOpen(s)
    PROVE  OneInv'
<1>1. /\ Handled' \subseteq Handled /\ Newest' = Newest
      /\ lastEventId' = lastEventId /\ twice' = twice
  BY DEF OnOpen, Handled, Newest, ServerUnchanged, BrowserUnchanged, server, timers, page, seen
<1>2. /\ sockets[s] \in SocketKinds /\ sockets[s].up \in Seq(Requests) /\ sockets[s].down \in Seq(Items)
      /\ SocketRight(sockets[s], Have, Newest)
  BY SocketFacts, SocketTypes
<1>3. /\ \A i \in DOMAIN sockets[s].up :
           sockets[s].up[i].action = "subscribe" => sockets[s].up[i].id = lastEventId
      /\ Ahead(sockets[s].down, Handled)
  BY DEF OneInv
<1>4. Ahead(<<>>, Handled)
  BY DEF Ahead
<1>5. \A i \in DOMAIN <<[action |-> "subscribe", id |-> lastEventId]>> :
        <<[action |-> "subscribe", id |-> lastEventId]>>[i].id = lastEventId
  OBVIOUS
<1>6. /\ sockets'[s].browser = "open" /\ sockets'[s].up = <<[action |-> "subscribe", id |-> lastEventId]>> /\ sockets'[s].down = sockets[s].down
      /\ \A r \in Sockets : r # s => sockets'[r] = sockets[r]
  BY OnOpenEffect DEF Turns, Looks
<1>7. /\ "open" # "unused" => sockets[s].browser # "unused"
      /\ reconnectTimer' => reconnectTimer \/ ("open" = "unused" /\ sockets[s].browser # "unused")
  BY DEF OnOpen, timers
<1> QED  BY <1>1, <1>3, <1>5, <1>6, <1>7, OneFrame

LEMMA ReceiveQueryOne ==
    ASSUME TypeOK, FeedInv, OneInv, NEW s \in Sockets, ReceiveQuery(s)
    PROVE  OneInv'
<1>1. /\ Handled' \subseteq Handled /\ Newest' = Newest
      /\ lastEventId' = lastEventId /\ twice' = twice
  BY DEF ReceiveQuery, Handled, Newest, ServerUnchanged, BrowserUnchanged, server, timers, page, seen
<1>2. /\ sockets[s] \in SocketKinds /\ sockets[s].up \in Seq(Requests) /\ sockets[s].down \in Seq(Items)
      /\ SocketRight(sockets[s], Have, Newest)
  BY SocketFacts, SocketTypes
<1>3. /\ \A i \in DOMAIN sockets[s].up :
           sockets[s].up[i].action = "subscribe" => sockets[s].up[i].id = lastEventId
      /\ Ahead(sockets[s].down, Handled)
  BY DEF OneInv
<1>4. Ahead(<<>>, Handled)
  BY DEF Ahead
<1> DEFINE u == Tail(sockets[s].up)
<1>5. \A i \in DOMAIN u : u[i].action = "subscribe" => u[i].id = lastEventId
  BY <1>2, <1>3, RequestsLater DEF ReceiveQuery
<1>6. /\ sockets'[s].browser = sockets[s].browser /\ sockets'[s].up = u /\ sockets'[s].down = sockets[s].down
      /\ \A r \in Sockets : r # s => sockets'[r] = sockets[r]
  BY ReceiveQueryEffect DEF Turns, Looks
<1>7. /\ sockets[s].browser # "unused" => sockets[s].browser # "unused"
      /\ reconnectTimer' => reconnectTimer \/ (sockets[s].browser = "unused" /\ sockets[s].browser # "unused")
  BY DEF ReceiveQuery, ServerUnchanged, timers
<1> HIDE DEF u
<1> QED  BY <1>1, <1>3, <1>5, <1>6, <1>7, OneFrame

LEMMA OnAnswerOne ==
    ASSUME TypeOK, FeedInv, OneInv, NEW s \in Sockets, OnAnswer(s)
    PROVE  OneInv'
<1>1. /\ Handled' \subseteq Handled /\ Newest' = Newest
      /\ lastEventId' = lastEventId /\ twice' = twice
  BY DEF OnAnswer, Handled, Newest, ServerUnchanged, BrowserUnchanged, server, timers, page, seen
<1>2. /\ sockets[s] \in SocketKinds /\ sockets[s].up \in Seq(Requests) /\ sockets[s].down \in Seq(Items)
      /\ SocketRight(sockets[s], Have, Newest)
  BY SocketFacts, SocketTypes
<1>3. /\ \A i \in DOMAIN sockets[s].up :
           sockets[s].up[i].action = "subscribe" => sockets[s].up[i].id = lastEventId
      /\ Ahead(sockets[s].down, Handled)
  BY DEF OneInv
<1>4. Ahead(<<>>, Handled)
  BY DEF Ahead
<1>5. Ahead(Tail(sockets[s].down), Handled)
  BY <1>2, <1>3, ArrivedAhead DEF OnAnswer
<1>6. /\ sockets'[s].browser = sockets[s].browser /\ sockets'[s].up = sockets[s].up /\ sockets'[s].down = Tail(sockets[s].down)
      /\ \A r \in Sockets : r # s => sockets'[r] = sockets[r]
  BY OnAnswerEffect DEF Turns, Looks
<1>7. /\ sockets[s].browser # "unused" => sockets[s].browser # "unused"
      /\ reconnectTimer' => reconnectTimer \/ (sockets[s].browser = "unused" /\ sockets[s].browser # "unused")
  BY DEF OnAnswer, timers
<1> QED  BY <1>1, <1>3, <1>5, <1>6, <1>7, OneFrame

LEMMA FlushOne ==
    ASSUME OneInv, Flush
    PROVE  OneInv'
BY OneStays DEF Flush, Show, Handled, Newest, vars, server, timers, page, seen, BrowserUnchanged

LEMMA StoreLineOne ==
    ASSUME OneInv, StoreLine
    PROVE  OneInv'
BY OneStays DEF StoreLine, Handled, Newest, vars, server, timers, page, seen, BrowserUnchanged

LEMMA UnmountOne ==
    ASSUME OneInv, Unmount
    PROVE  OneInv'
BY OneStays DEF Unmount, StopTimers, Handled, Newest, vars, server, timers, page, seen, BrowserUnchanged

LEMMA ReadLogOne ==
    ASSUME OneInv, NEW q \in queries, ReadLog(q)
    PROVE  OneInv'
BY OneStays DEF ReadLog, Handled, Newest, vars, server, timers, page, seen, BrowserUnchanged

LEMMA RequestOne ==
    ASSUME TypeOK, FeedInv, OneInv, NEW lines \in Nat, NEW waits \in BOOLEAN, Request(lines, waits)
    PROVE  OneInv'
<1>1. /\ Handled' \subseteq Handled /\ Newest' = Newest /\ reconnectTimer' = reconnectTimer
      /\ lastEventId' = lastEventId /\ twice' = twice
  BY DEF Request, Handled, Newest, BrowserUnchanged, server, timers, seen
<1>2. CASE sockets' = sockets
  BY <1>1, <1>2, OneStays
<1>3. CASE sockets' # sockets
  <2> DEFINE s == ws
             u == Append(sockets[s].up, buildLogsQueryMessage(lines))
  <2>1. s \in Sockets
    BY <1>3 DEF Request, TypeOK, PageTypes
  <2>2. /\ sockets'[s].browser = sockets[s].browser /\ sockets'[s].up = u
        /\ sockets'[s].down = sockets[s].down
        /\ \A r \in Sockets : r # s => sockets'[r] = sockets[r]
    BY <1>3, RequestEffect DEF Turns, Looks
  <2> HIDE DEF s
  <2>3. sockets[s].up \in Seq(Requests) /\ buildLogsQueryMessage(lines).action = "logs.query"
    BY <2>1, SocketFacts, SocketTypes DEF buildLogsQueryMessage
  <2>4. \A i \in DOMAIN u : \/ i \in DOMAIN sockets[s].up /\ u[i] = sockets[s].up[i]
                            \/ u[i] = buildLogsQueryMessage(lines)
    BY <2>3
  <2> HIDE DEF u
  <2>5. /\ \A i \in DOMAIN u : u[i].action = "subscribe" => u[i].id = lastEventId
        /\ Ahead(sockets[s].down, Handled)
    BY <2>1, <2>3, <2>4 DEF OneInv
  <2> QED  BY <1>1, <2>1, <2>2, <2>5, OneFrame
<1> QED  BY <1>2, <1>3

LEMMA AnswerOne ==
    ASSUME TypeOK, FeedInv, OneInv, NEW q \in queries, Answer(q)
    PROVE  OneInv'
<1>1. /\ Handled' \subseteq Handled /\ Newest' = Newest /\ reconnectTimer' = reconnectTimer
      /\ lastEventId' = lastEventId /\ twice' = twice
  BY DEF Answer, Handled, Newest, ServerUnchanged, server, timers, seen
<1>2. CASE sockets' = sockets
  BY <1>1, <1>2, OneStays
<1>3. CASE sockets' # sockets
  <2> DEFINE s == q.socket
             x == [kind |-> "answer", ok |-> q.ok, lines |-> q.lines]
             d == Append(sockets[s].down, x)
  <2>1. s \in Sockets /\ x \in Answers
    BY DEF TypeOK, LogTypes, Queries, Answers
  <2>2. /\ sockets'[s].browser = sockets[s].browser /\ sockets'[s].up = sockets[s].up
        /\ sockets'[s].down = d
        /\ \A r \in Sockets : r # s => sockets'[r] = sockets[r]
    BY <1>3, AnswerEffect DEF Turns, Looks
  <2> HIDE DEF s, x
  <2>3. sockets[s].down \in Seq(Items)
    BY <2>1, SocketFacts, SocketTypes
  <2>4. /\ \A i \in DOMAIN sockets[s].up :
             sockets[s].up[i].action = "subscribe" => sockets[s].up[i].id = lastEventId
        /\ Ahead(sockets[s].down, Handled)
    BY <2>1 DEF OneInv
  <2>5. Ahead(d, Handled)
    BY <2>1, <2>3, <2>4, AnsweredAhead
  <2> HIDE DEF d
  <2> QED  BY <1>1, <2>1, <2>2, <2>4, <2>5, OneFrame
<1> QED  BY <1>2, <1>3

LEMMA DisconnectTimerOne ==
    ASSUME TypeOK, FeedInv, OneInv, DisconnectTimer
    PROVE  OneInv'
<1>1. /\ Handled' \subseteq Handled /\ Newest' = Newest /\ reconnectTimer' = reconnectTimer
      /\ lastEventId' = lastEventId /\ twice' = twice /\ sockets' = Closed
  BY DEF DisconnectTimer, closeSocket, Show, Handled, Newest, BrowserUnchanged, server
<1>2. CASE sockets' = sockets
  BY <1>1, <1>2, OneStays
<1>3. CASE sockets' # sockets
  <2> DEFINE s == ws
  <2>1. s \in Sockets /\ sockets[s].browser # "unused"
    BY <1>1, <1>3 DEF Closed, TypeOK, PageTypes, Listening
  <2>2. /\ sockets'[s].browser = "closing" /\ sockets'[s].up = <<>> /\ sockets'[s].down = <<>>
        /\ \A r \in Sockets : r # s => sockets'[r] = sockets[r]
    BY <1>1, <1>3, ClosedEffect DEF Turns, Looks
  <2> HIDE DEF s
  <2>3. Ahead(<<>>, Handled)
    BY DEF Ahead
  <2> QED  BY <1>1, <2>1, <2>2, <2>3, OneFrame
<1> QED  BY <1>2, <1>3

LEMMA ReconnectTimerOne ==
    ASSUME TypeOK, OneInv, ReconnectTimer
    PROVE  OneInv'
<1>1. /\ Handled' = Handled /\ Newest' = Newest /\ reconnectTimer' = FALSE
      /\ lastEventId' = lastEventId /\ twice' = twice
      /\ \A s \in Sockets : sockets[s].browser = "unused"
  BY DEF ReconnectTimer, Handled, Newest, BrowserUnchanged, server, seen, OneInv
<1>2. PICK s \in Sockets :
        /\ sockets[s] = Unused
        /\ Looks(sockets'[s], "connecting", FALSE, "gone", FALSE, <<>>, <<>>)
        /\ \A r \in Sockets : r # s => sockets'[r] = sockets[r]
  BY ConnectEffect DEF ReconnectTimer, TypeOK, ServerTypes
<1>3. sockets'[s].up = <<>> /\ sockets'[s].down = <<>> /\ Ahead(<<>>, Handled)
  BY <1>2 DEF Looks, Ahead
<1>4. \A r \in Sockets : sockets'[r].browser # "unused" => r = s
  BY <1>1, <1>2
<1>5. ASSUME NEW r \in Sockets
      PROVE  /\ \A i \in DOMAIN sockets'[r].up :
                  sockets'[r].up[i].action = "subscribe" => sockets'[r].up[i].id = lastEventId'
             /\ Ahead(sockets'[r].down, Handled')
  <2>1. CASE r = s
    BY <2>1, <1>1, <1>3
  <2>2. CASE r # s
    BY <2>2, <1>1, <1>2 DEF OneInv
  <2> QED  BY <2>1, <2>2
<1> QED  BY <1>1, <1>4, <1>5 DEF OneInv

LEMMA RestartOne ==
    ASSUME TypeOK, OneInv, Restart
    PROVE  OneInv'
<1>1. /\ Handled' = {} /\ twice' = twice /\ reconnectTimer' = reconnectTimer
  BY DEF Restart, Handled, seen, timers
<1>2. ASSUME NEW s \in Sockets
      PROVE  /\ sockets'[s].browser # "unused" => sockets[s].browser # "unused"
             /\ \/ sockets'[s].up = <<>> /\ sockets'[s].down = <<>>
                \/ sockets'[s].up = sockets[s].up /\ sockets'[s].down = sockets[s].down
  BY RestartEffect DEF Looks, Listening
<1>3. ASSUME NEW s \in Sockets
      PROVE  /\ \A i \in DOMAIN sockets'[s].up :
                  sockets'[s].up[i].action = "subscribe" => sockets'[s].up[i].id = lastEventId'
             /\ Ahead(sockets'[s].down, Handled')
  <2>1. lastEventId' = lastEventId
    BY DEF Restart
  <2>2. Ahead(<<>>, {}) /\ Ahead(sockets[s].down, {})
    BY DEF OneInv, Ahead
  <2> QED  BY <1>1, <1>2, <2>1, <2>2 DEF OneInv
<1> QED  BY <1>1, <1>2, <1>3 DEF OneInv

\* What comes is newer than what has come.
LEMMA EventArrivesOne ==
    ASSUME TypeOK, FeedInv, OneInv, NEW s \in Sockets, EventArrives(s)
    PROVE  OneInv'
<1> DEFINE h == Head(sockets[s].down)
           q == sockets[s].down
<1>1. /\ Newest' = Newest /\ reconnectTimer' = reconnectTimer /\ Handled' = Handled \union {h.seq}
      /\ lastEventId' = h.seq /\ twice' = (twice \/ h.seq \in Handled)
      /\ q # <<>> /\ h.kind \in Kinds /\ sockets[s].browser = "open"
  BY DEF EventArrives, OnMessage, Handled, Newest, BrowserUnchanged, server, timers
<1>2. /\ sockets[s] \in SocketKinds /\ sockets[s].up \in Seq(Requests) /\ q \in Seq(Items)
      /\ SocketRight(sockets[s], Have, Newest) /\ Gapless(q, Have, Newest) /\ Newest \in Nat
  BY SocketFacts, SocketTypes DEF SocketRight
<1>3. /\ sockets'[s].browser = sockets[s].browser /\ sockets'[s].up = sockets[s].up
      /\ sockets'[s].down = Tail(q)
      /\ \A r \in Sockets : r # s => sockets'[r] = sockets[r]
  BY EventArrivesEffect DEF Turns, Looks
<1>4. h = q[1] /\ 1 \in DOMAIN q
  BY <1>1, <1>2
<1>5. \A i \in DOMAIN sockets[s].up : sockets[s].up[i].action # "subscribe"
  BY <1>1, <1>2, <1>4 DEF SocketRight, Kinds
<1>6. h \in Items /\ h.seq \in Nat
  BY <1>1, <1>2, <1>4, Kind
<1> DEFINE more == Handled \union {h.seq}
<1>7. h.seq <= Newest
  BY <1>1, <1>2, <1>4 DEF Gapless
<1> HIDE DEF q
<1>8. Ahead(Tail(q), Handled \union {h.seq}) /\ \A m \in Handled : m < h.seq
  <2>1. Ahead(q, Handled)
    BY DEF OneInv, q
  <2> QED  BY <2>1, <1>1, <1>2, ArrivedAhead DEF q
<1> HIDE DEF h
<1>9. Handled \subseteq Nat
  BY DEF Handled, TypeOK, PageTypes
<1>10. ~twice'
  <2>1. h.seq \notin Handled
    BY <1>6, <1>8, <1>9
  <2>2. ~twice
    BY DEF OneInv
  <2> QED  BY <1>1, <2>1, <2>2
<1>11. \A m \in Handled' : m <= lastEventId' /\ lastEventId' <= Newest'
  BY <1>1, <1>6, <1>7, <1>8, <1>9
<1>12. ASSUME NEW r \in Sockets
       PROVE  /\ \A i \in DOMAIN sockets'[r].up :
                   sockets'[r].up[i].action = "subscribe" => sockets'[r].up[i].id = lastEventId'
              /\ Ahead(sockets'[r].down, Handled')
  <2>1. CASE r = s
    BY <2>1, <1>1, <1>3, <1>5, <1>8
  <2>2. CASE r # s
    <3>1. sockets[r].browser = "unused"
      BY <2>2, <1>1 DEF OneInv
    <3>2. sockets[r].up = <<>> /\ sockets[r].down = <<>>
      BY <3>1, SocketFacts DEF SocketRight
    <3> QED  BY <2>2, <3>2, <1>3 DEF Ahead
  <2> QED  BY <2>1, <2>2
<1>13. /\ \A r, t \in Sockets : sockets'[r].browser # "unused" /\ sockets'[t].browser # "unused" => r = t
       /\ reconnectTimer' => \A r \in Sockets : sockets'[r].browser = "unused"
  BY <1>1, <1>3 DEF OneInv
<1> QED  BY <1>10, <1>11, <1>12, <1>13 DEF OneInv

\* What is replayed is newer than what has come: the id names the newest that has, or one
\* that has left the buffer.
LEMMA SubscribeOne ==
    ASSUME TypeOK, FeedInv, OneInv, NEW s \in Sockets, Subscribe(s)
    PROVE  OneInv'
<1> DEFINE u == Tail(sockets[s].up)
           id == Head(sockets[s].up).id
<1>1. /\ Handled' \subseteq Handled /\ Newest' = Newest /\ reconnectTimer' = reconnectTimer
      /\ lastEventId' = lastEventId /\ twice' = twice
  BY DEF Subscribe, Handled, Newest, ServerUnchanged, server, timers, seen
<1>2. /\ sockets[s] \in SocketKinds /\ sockets[s].up \in Seq(Requests) /\ sockets[s].down \in Seq(Items)
      /\ SocketRight(sockets[s], Have, Newest) /\ Newest \in Nat
      /\ sockets[s].up # <<>> /\ Head(sockets[s].up).action = "subscribe"
      /\ Head(sockets[s].up) = sockets[s].up[1] /\ 1 \in DOMAIN sockets[s].up
  BY SocketFacts, SocketTypes DEF Subscribe
<1>3. /\ \A i \in DOMAIN sockets[s].up :
           sockets[s].up[i].action = "subscribe" => sockets[s].up[i].id = lastEventId
      /\ Ahead(sockets[s].down, Handled)
  BY DEF OneInv
<1>4. \A i \in DOMAIN u : u[i].action = "subscribe" => u[i].id = lastEventId
  BY <1>2, <1>3, RequestsLater
<1>5. sockets[s].browser # "unused"
  BY <1>2 DEF SocketRight
<1> HIDE DEF u
<1>6. CASE sockets[s].server = "awaiting"
  <2>1. /\ sockets'[s].browser = sockets[s].browser /\ sockets'[s].up = u
        /\ sockets'[s].down = sockets[s].down
        /\ \A r \in Sockets : r # s => sockets'[r] = sockets[r]
    BY <1>6, LostSubscribeEffect DEF Turns, Looks, u
  <2> QED  BY <1>1, <1>3, <1>4, <1>5, <2>1, OneFrame
<1>7. CASE sockets[s].server = "attached"
  <2> DEFINE d == sockets[s].down \o replayEvents(id)
  <2>1. /\ sockets'[s].browser = sockets[s].browser /\ sockets'[s].up = u /\ sockets'[s].down = d
        /\ \A r \in Sockets : r # s => sockets'[r] = sockets[r]
    BY <1>7, SubscribeEffect, ReplayedTypes DEF Turns, Looks, u
  <2>2. \A i \in DOMAIN sockets[s].down : sockets[s].down[i].kind = "answer"
    BY <1>2 DEF SocketRight
  <2>3. id = lastEventId
    BY <1>2, <1>3
  <2> HIDE DEF id
  <2>4. PICK from \in 1 .. Len(eventBuffer) + 1 :
           /\ replayEvents(id) = SubSeq(eventBuffer, from, Len(eventBuffer))
           /\ \/ FoundIndex(id) = {} /\ from = 1
              \/ from # 1 /\ from - 1 \in FoundIndex(id)
    BY ReplayTypes
  <2>5. /\ eventBuffer \in Seq(Events) /\ BufferHolds(eventBuffer, Newest)
        /\ \A n \in 1 .. Newest - Len(eventBuffer) : n \in Have
    BY DEF TypeOK, ServerTypes, FeedInv, Have
  <2>6. \A n \in 1 .. Newest - Len(eventBuffer) + from - 1 : n \in 1 .. Newest - Len(eventBuffer) + from - 1
    OBVIOUS
  <2>7. ASSUME NEW m \in Handled
        PROVE  m < Newest - Len(eventBuffer) + from
    <3>1. m \in Nat /\ lastEventId \in Nat /\ m <= lastEventId /\ lastEventId <= Newest
      BY DEF Handled, TypeOK, PageTypes, OneInv
    <3>2. Len(eventBuffer) \in Nat /\ DOMAIN eventBuffer = 1 .. Len(eventBuffer)
      BY <2>5
    <3>3. CASE FoundIndex(id) = {} /\ from = 1
      <4>1. \A i \in 1 .. Len(eventBuffer) : Newest - Len(eventBuffer) + i # lastEventId
        BY <3>2, <3>3, <2>3, <2>5 DEF FoundIndex, BufferHolds
      <4>2. ASSUME lastEventId - (Newest - Len(eventBuffer)) \in 1 .. Len(eventBuffer)
            PROVE  FALSE
        <5> DEFINE i == lastEventId - (Newest - Len(eventBuffer))
        <5>1. Newest - Len(eventBuffer) + i = lastEventId
          BY <3>1, <3>2, <1>2
        <5> HIDE DEF i
        <5> QED  BY <5>1, <4>1, <4>2 DEF i
      <4> QED  BY <4>2, <3>1, <3>2, <3>3, <1>2
    <3>4. CASE from # 1 /\ from - 1 \in FoundIndex(id)
      <4>1. Newest - Len(eventBuffer) + (from - 1) = lastEventId
        BY <3>2, <3>4, <2>3, <2>5 DEF FoundIndex, BufferHolds
      <4> QED  BY <4>1, <3>1, <3>2, <1>2
    <3> QED  BY <3>3, <3>4, <2>4
  <2>8. Ahead(d, Handled)
    <3> DEFINE have == 1 .. Newest - Len(eventBuffer) + from - 1
    <3>1. Handled \in SUBSET Nat /\ \A n \in have : n \in have
      BY DEF Handled, TypeOK, PageTypes
    <3> QED  BY <1>2, <2>2, <2>4, <2>5, <2>7, <3>1, Replayed
  <2> HIDE DEF d
  <2> QED  BY <1>1, <1>3, <1>4, <1>5, <2>1, <2>8, OneFrame
<1> QED  BY <1>6, <1>7 DEF Subscribe

LEMMA publishEventOne ==
    ASSUME TypeOK, FeedInv, OneInv, NEW kind \in Kinds, NEW slow \in SUBSET Sockets,
           publishEvent(kind, slow)
    PROVE  OneInv'
<1> DEFINE e == [seq |-> nextEventSequence, kind |-> kind]
<1>1. /\ Newest' = Newest + 1 /\ Newest \in Nat /\ e \in Events /\ e.seq = Newest + 1
      /\ Handled' = Handled /\ lastEventId' = lastEventId /\ twice' = twice
      /\ reconnectTimer' = reconnectTimer
  BY DEF Newest, TypeOK, ServerTypes, publishEvent, ServerUnchanged, seen, timers, Handled, Events
<1>2. Handled \in SUBSET Nat /\ lastEventId \in Nat
  BY DEF Handled, TypeOK, PageTypes
<1>3. \A m \in Handled : m <= Newest
  BY DEF FeedInv
<1>4. ASSUME NEW s \in Sockets
      PROVE  /\ sockets'[s].browser = sockets[s].browser /\ sockets'[s].up = sockets[s].up
             /\ sockets'[s].down = sockets[s].down \/ sockets'[s].down = Append(sockets[s].down, e)
  BY PublishEffect DEF Looks
<1> HIDE DEF e
<1>5. ASSUME NEW s \in Sockets
      PROVE  Ahead(sockets'[s].down, Handled)
  <2>1. sockets[s].down \in Seq(Items) /\ Gapless(sockets[s].down, Have, Newest)
    BY SocketFacts, SocketTypes DEF SocketRight
  <2>2. Ahead(sockets[s].down, Handled)
    BY DEF OneInv
  <2>3. Ahead(Append(sockets[s].down, e), Handled)
    BY <1>1, <1>2, <1>3, <2>1, <2>2, SentAhead
  <2> QED  BY <1>4, <2>2, <2>3
<1>6. \A m \in Handled' : m <= lastEventId' /\ lastEventId' <= Newest'
  <2>1. \A m \in Handled : m <= lastEventId /\ lastEventId <= Newest
    BY DEF OneInv
  <2> QED  BY <1>1, <1>2, <2>1
<1> QED  BY <1>1, <1>4, <1>5, <1>6 DEF OneInv

-----------------------------------------------------------------------------
(* The log: its server stays, and answers of a process have no holes.      *)

LEMMA SliceWhole ==
    ASSUME NEW n \in Nat, NEW lines \in Nat
    PROVE  NoHole(streamSliceFromEntries(1 .. n, lines))
<1> SUFFICES ASSUME NEW x \in streamSliceFromEntries(1 .. n, lines),
                    NEW z \in streamSliceFromEntries(1 .. n, lines), NEW y \in x .. z
             PROVE  y \in streamSliceFromEntries(1 .. n, lines)
  BY DEF NoHole
<1> DEFINE above(k) == {m \in 1 .. n : m > k}
<1>1. /\ x \in 1 .. n /\ z \in 1 .. n /\ y \in 1 .. n /\ Cardinality(above(x)) < lines
      /\ above(y) \subseteq above(x)
  BY DEF streamSliceFromEntries
<1>2. IsFiniteSet(1 .. n) /\ above(x) \subseteq 1 .. n
  BY FS_Interval
<1>3. IsFiniteSet(above(x))
  BY <1>2, FS_Subset
<1>4. Cardinality(above(y)) <= Cardinality(above(x)) /\ IsFiniteSet(above(y))
  BY <1>1, <1>3, FS_Subset
<1>5. Cardinality(above(x)) \in Nat /\ Cardinality(above(y)) \in Nat
  BY <1>3, <1>4, FS_CardinalityType
<1>6. Cardinality(above(y)) < lines
  <2> HIDE DEF above
  <2> QED  BY <1>1, <1>4, <1>5
<1> QED  BY <1>1, <1>6 DEF streamSliceFromEntries

LEMMA LogQueues ==
    ASSUME NEW q \in Seq(Items), LogQueue(q)
    PROVE  /\ LogQueue(<<>>) /\ (q # <<>> => LogQueue(Tail(q)))
           /\ \A x \in Items :
                /\ x.kind \in {"log", "answer"}
                /\ setting.scope = "process" /\ x.kind = "answer" => NoHole(x.lines)
                => LogQueue(Append(q, x))
           /\ \A b \in Seq(Events), from \in 1 .. Len(eventBuffer) + 1 :
                b = eventBuffer /\ (\A i \in DOMAIN b : b[i].kind = "log")
                    => LogQueue(q \o SubSeq(b, from, Len(b)))
<1>1. LogQueue(<<>>)
  BY DEF LogQueue
<1>2. ASSUME q # <<>>
      PROVE  LogQueue(Tail(q))
  <2>1. \A i \in DOMAIN Tail(q) : i + 1 \in DOMAIN q /\ Tail(q)[i] = q[i + 1]
    BY <1>2
  <2> QED  BY <2>1 DEF LogQueue
<1>3. ASSUME NEW x \in Items, x.kind \in {"log", "answer"},
             setting.scope = "process" /\ x.kind = "answer" => NoHole(x.lines)
      PROVE  LogQueue(Append(q, x))
  <2> DEFINE p == Append(q, x)
  <2>1. \A i \in DOMAIN p : (i \in DOMAIN q /\ p[i] = q[i]) \/ p[i] = x
    OBVIOUS
  <2> HIDE DEF p
  <2> SUFFICES ASSUME NEW i \in DOMAIN p
               PROVE  /\ p[i].kind \in {"log", "answer"}
                      /\ setting.scope = "process" /\ p[i].kind = "answer" => NoHole(p[i].lines)
    BY DEF LogQueue, p
  <2>2. CASE p[i] = x
    BY <2>2, <1>3
  <2>3. CASE i \in DOMAIN q /\ p[i] = q[i]
    BY <2>3 DEF LogQueue
  <2> QED  BY <2>1, <2>2, <2>3
<1>4. ASSUME NEW b \in Seq(Events), NEW from \in 1 .. Len(eventBuffer) + 1,
             b = eventBuffer, \A i \in DOMAIN b : b[i].kind = "log"
      PROVE  LogQueue(q \o SubSeq(b, from, Len(b)))
  <2> DEFINE t == SubSeq(b, from, Len(b))
             p == q \o t
  <2>1. /\ t \in Seq(Events) /\ Len(t) \in Nat /\ DOMAIN t = 1 .. Len(t)
        /\ \A k \in 1 .. Len(t) : from + k - 1 \in DOMAIN b /\ t[k] = b[from + k - 1]
    BY <1>4
  <2>2. \A k \in 1 .. Len(t) : t[k].kind = "log"
    BY <2>1, <1>4
  <2> HIDE DEF t
  <2>3. \A i \in DOMAIN p : \/ i \in DOMAIN q /\ p[i] = q[i]
                            \/ i - Len(q) \in 1 .. Len(t) /\ p[i] = t[i - Len(q)]
    <3>1. t \in Seq(Items)
      BY <2>1 DEF Items
    <3>2. /\ Len(q) \in Nat /\ DOMAIN q = 1 .. Len(q) /\ DOMAIN p = 1 .. Len(q) + Len(t)
          /\ \A i \in 1 .. Len(q) : p[i] = q[i]
          /\ \A i \in DOMAIN p : i > Len(q) => p[i] = t[i - Len(q)]
      BY <3>1, <2>1
    <3> HIDE DEF p
    <3> QED  BY <3>2, <2>1
  <2> HIDE DEF p
  <2>4. \A i \in DOMAIN p : (i \in DOMAIN q /\ p[i] = q[i]) \/ p[i].kind = "log"
    BY <2>2, <2>3
  <2> SUFFICES ASSUME NEW i \in DOMAIN p
               PROVE  /\ p[i].kind \in {"log", "answer"}
                      /\ setting.scope = "process" /\ p[i].kind = "answer" => NoHole(p[i].lines)
    BY DEF LogQueue, p, t
  <2>5. CASE p[i].kind = "log"
    BY <2>5
  <2>6. CASE i \in DOMAIN q /\ p[i] = q[i]
    BY <2>6 DEF LogQueue
  <2> QED  BY <2>4, <2>5, <2>6
<1> QED  BY <1>1, <1>2, <1>3, <1>4

\* A step that adds no line and no answer.
LEMMA LogFrame ==
    ASSUME TypeOK, LogInv, setting' = setting, restarts' = restarts, eventBuffer' = eventBuffer,
           \A q \in queries' : q \in queries \/ NoHole(q.lines),
           \A s \in Sockets : \/ sockets'[s].down \in {sockets[s].down, <<>>}
                              \/ sockets[s].down # <<>> /\ sockets'[s].down = Tail(sockets[s].down)
    PROVE  LogInv'
<1>1. ASSUME NEW s \in Sockets
      PROVE  LogQueue(sockets'[s].down)
  <2>1. sockets[s].down \in Seq(Items) /\ LogQueue(sockets[s].down)
    BY SocketTypes DEF LogInv, TypeOK, ServerTypes
  <2> QED  BY <2>1, LogQueues
<1>2. \A s \in Sockets : LogQueue(sockets[s].down)'
  BY <1>1 DEF LogQueue
<1> QED  BY <1>2 DEF LogInv

\* What the steps that add nothing do to what is on its way.
LEMMA NothingAdded ==
    ASSUME TypeOK, FeedInv, NEW s \in Sockets,
           \/ Accept(s) \/ SessionRead(s) \/ ServerCloses(s) \/ SocketBreaks(s)
           \/ OnOpen(s) \/ OnClose(s) \/ Refused(s)
           \/ ReceiveQuery(s) \/ OnAnswer(s) \/ EventArrives(s)
    PROVE  /\ setting' = setting /\ restarts' = restarts /\ eventBuffer' = eventBuffer
           /\ \A r \in Sockets :
                \/ sockets'[r].down \in {sockets[r].down, <<>>}
                \/ sockets[r].down # <<>> /\ sockets'[r].down = Tail(sockets[r].down)
<1>1. CASE Accept(s)
  BY <1>1, AcceptEffect DEF Accept, ServerUnchanged, server, Turns, Looks
<1>2. CASE SessionRead(s)
  BY <1>2, SessionReadEffect DEF SessionRead, ServerUnchanged, server, Turns, Looks
<1>3. CASE ServerCloses(s)
  BY <1>3, ServerGoneEffect, ServerForgetsEffect DEF ServerCloses, ServerUnchanged, server, Turns, Looks
<1>4. CASE SocketBreaks(s)
  BY <1>4, SocketBreaksEffect DEF SocketBreaks, ServerUnchanged, server, Turns, Looks
<1>5. CASE OnOpen(s)
  BY <1>5, OnOpenEffect DEF OnOpen, BrowserUnchanged, server, Turns, Looks
<1>6. CASE OnClose(s)
  BY <1>6, OnCloseEffect, BothClosedEffect DEF OnClose, BrowserUnchanged, server, Turns, Looks
<1>7. CASE Refused(s)
  BY <1>7, RefusedEffect DEF Refused, BrowserUnchanged, server, Turns, Looks
<1>8. CASE ReceiveQuery(s)
  BY <1>8, ReceiveQueryEffect DEF ReceiveQuery, ServerUnchanged, server, Turns, Looks
<1>9. CASE OnAnswer(s)
  <2>1. /\ setting' = setting /\ restarts' = restarts /\ eventBuffer' = eventBuffer
        /\ sockets[s].down # <<>>
    BY <1>9 DEF OnAnswer, BrowserUnchanged, server
  <2> QED  BY <1>9, <2>1, OnAnswerEffect DEF Turns, Looks
<1>10. CASE EventArrives(s)
  <2>1. /\ setting' = setting /\ restarts' = restarts /\ eventBuffer' = eventBuffer
        /\ sockets[s].down # <<>>
    BY <1>10 DEF EventArrives, OnMessage, BrowserUnchanged, server
  <2> QED  BY <1>10, <2>1, EventArrivesEffect DEF Turns, Looks
<1> QED  BY <1>1, <1>2, <1>3, <1>4, <1>5, <1>6, <1>7, <1>8, <1>9, <1>10

LEMMA SubscribeLog ==
    ASSUME TypeOK, FeedInv, LogInv, NEW s \in Sockets, Subscribe(s), queries' = QueriesLeft
    PROVE  LogInv'
<1>1. setting' = setting /\ restarts' = restarts /\ eventBuffer' = eventBuffer
  BY DEF Subscribe, ServerUnchanged, server
<1>2. CASE sockets[s].server = "awaiting"
  BY <1>1, <1>2, LostSubscribeEffect, LogFrame DEF Turns, Looks, QueriesLeft
<1>3. CASE sockets[s].server = "attached"
  <2> DEFINE id == Head(sockets[s].up).id
             d == sockets[s].down \o replayEvents(id)
  <2>1. sockets'[s].down = d /\ \A r \in Sockets : r # s => sockets'[r] = sockets[r]
    BY <1>3, SubscribeEffect, ReplayedTypes DEF Turns, Looks
  <2> HIDE DEF id
  <2>2. /\ sockets[s].down \in Seq(Items) /\ LogQueue(sockets[s].down)
        /\ eventBuffer \in Seq(Events) /\ \A i \in DOMAIN eventBuffer : eventBuffer[i].kind = "log"
    BY SocketTypes DEF LogInv, TypeOK, ServerTypes
  <2>3. PICK from \in 1 .. Len(eventBuffer) + 1 :
           replayEvents(id) = SubSeq(eventBuffer, from, Len(eventBuffer))
    BY ReplayTypes
  <2>4. LogQueue(d)
    BY <2>2, <2>3, LogQueues
  <2> HIDE DEF d
  <2>5. \A r \in Sockets : LogQueue(sockets[r].down)'
    <3>1. \A r \in Sockets : LogQueue(sockets'[r].down)
      BY <2>1, <2>4 DEF LogInv
    <3> QED  BY <3>1, <1>1 DEF LogQueue
  <2> QED  BY <1>1, <2>5 DEF LogInv, QueriesLeft
<1> QED  BY <1>2, <1>3 DEF Subscribe

LEMMA publishEventLog ==
    ASSUME TypeOK, LogInv, NEW kind \in Kinds, NEW slow \in SUBSET Sockets,
           publishEvent(kind, slow), kind = "log", queries' = QueriesLeft
    PROVE  LogInv'
<1> DEFINE e == [seq |-> nextEventSequence, kind |-> kind]
           all == Append(eventBuffer, e)
<1>1. /\ setting' = setting /\ restarts' = restarts
      /\ eventBuffer' = all \/ eventBuffer' = Tail(all)
  BY DEF publishEvent, ServerUnchanged, rememberEvent
<1>2. e \in Events /\ e \in Items /\ e.kind = "log" /\ eventBuffer \in Seq(Events)
  BY PublishEffect DEF Items, TypeOK, ServerTypes
<1>3. ASSUME NEW s \in Sockets
      PROVE  sockets'[s].down = sockets[s].down \/ sockets'[s].down = Append(sockets[s].down, e)
  BY PublishEffect DEF Looks
<1> HIDE DEF e
<1>4. \A i \in DOMAIN all : all[i].kind = "log"
  BY <1>2 DEF LogInv
<1>5. \A i \in DOMAIN Tail(all) : i + 1 \in DOMAIN all /\ Tail(all)[i] = all[i + 1]
  BY <1>2
<1> HIDE DEF all
<1>6. \A i \in DOMAIN eventBuffer' : eventBuffer'[i].kind = "log"
  BY <1>1, <1>4, <1>5
<1>7. ASSUME NEW s \in Sockets
      PROVE  LogQueue(sockets'[s].down)
  <2>1. sockets[s].down \in Seq(Items) /\ LogQueue(sockets[s].down)
    BY SocketTypes DEF LogInv, TypeOK, ServerTypes
  <2> QED  BY <1>2, <1>3, <2>1, LogQueues
<1>8. \A s \in Sockets : LogQueue(sockets[s].down)'
  BY <1>1, <1>7 DEF LogQueue
<1> QED  BY <1>1, <1>6, <1>8 DEF LogInv, QueriesLeft

LEMMA AnswerLog ==
    ASSUME TypeOK, LogInv, NEW q \in queries, Answer(q)
    PROVE  LogInv'
<1>1. /\ setting' = setting /\ restarts' = restarts /\ eventBuffer' = eventBuffer
      /\ queries' \subseteq queries
  BY DEF Answer, ServerUnchanged, server
<1>2. CASE sockets' = sockets
  BY <1>1, <1>2, LogFrame
<1>3. CASE sockets' # sockets
  <2> DEFINE s == q.socket
             x == [kind |-> "answer", ok |-> q.ok, lines |-> q.lines]
  <2>1. s \in Sockets /\ x \in Items /\ x.kind = "answer" /\ x.lines = q.lines
    BY DEF TypeOK, LogTypes, Queries, Answers, Items
  <2>2. /\ sockets'[s].down = Append(sockets[s].down, x)
        /\ \A r \in Sockets : r # s => sockets'[r] = sockets[r]
    BY <1>3, AnswerEffect DEF Turns, Looks
  <2> HIDE DEF s, x
  <2>3. setting.scope = "process" => NoHole(x.lines)
    BY <2>1 DEF LogInv
  <2>4. sockets[s].down \in Seq(Items) /\ LogQueue(sockets[s].down)
    BY <2>1, SocketTypes DEF LogInv, TypeOK, ServerTypes
  <2>5. LogQueue(Append(sockets[s].down, x))
    BY <2>1, <2>3, <2>4, LogQueues
  <2>6. \A r \in Sockets : LogQueue(sockets'[r].down)
    BY <2>2, <2>5 DEF LogInv
  <2>7. \A r \in Sockets : LogQueue(sockets[r].down)'
    BY <2>6, <1>1 DEF LogQueue
  <2> QED  BY <1>1, <2>7 DEF LogInv
<1> QED  BY <1>2, <1>3

LEMMA ReadLogEffect ==
    ASSUME TypeOK, NEW q \in queries, ReadLog(q)
    PROVE  \E ok \in BOOLEAN : queries' = (queries \ {q}) \union {[q EXCEPT !.read = TRUE, !.ok = ok,
             !.lines = IF ok THEN streamSliceFromEntries(resolveLogsForQueryContext, q.tail) ELSE {}]}
BY SettingTypes DEF ReadLog, SettingKinds

LEMMA ReadLogLog ==
    ASSUME TypeOK, LogInv, NEW q \in queries, ReadLog(q)
    PROVE  LogInv'
<1>1. PICK ok \in BOOLEAN : queries' = (queries \ {q}) \union {[q EXCEPT !.read = TRUE, !.ok = ok,
           !.lines = IF ok THEN streamSliceFromEntries(resolveLogsForQueryContext, q.tail) ELSE {}]}
  BY ReadLogEffect
<1> DEFINE lines == IF ok THEN streamSliceFromEntries(resolveLogsForQueryContext, q.tail) ELSE {}
           p == [q EXCEPT !.read = TRUE, !.ok = ok, !.lines = lines]
<1>2. q \in Queries /\ q.tail \in Nat /\ stored \in Nat /\ p.lines = lines
  BY DEF TypeOK, LogTypes, Queries
<1>3. setting.scope = "process" => NoHole(lines)
  <2>1. NoHole({})
    BY DEF NoHole
  <2>2. setting.scope = "process" => resolveLogsForQueryContext = 1 .. stored
    BY DEF resolveLogsForQueryContext
  <2> QED  BY <1>2, <2>1, <2>2, SliceWhole
<1> HIDE DEF lines
<1>4. setting' = setting /\ restarts' = restarts /\ eventBuffer' = eventBuffer /\ sockets' = sockets
  BY DEF ReadLog, vars, server
<1>5. setting.scope = "process" => \A r \in queries' : NoHole(r.lines)
  BY <1>1, <1>2, <1>3 DEF LogInv, lines
<1>6. \A s \in Sockets : LogQueue(sockets[s].down)'
  BY <1>4 DEF LogQueue, LogInv
<1> QED  BY <1>4, <1>5, <1>6 DEF LogInv

\* The other steps leave what is on its way, or cut it short.
LEMMA LogRest ==
    ASSUME TypeOK, LogInv,
           \/ Flush \/ ReconnectTimer \/ DisconnectTimer \/ Mount \/ Unmount
           \/ StoreLine \/ \E lines \in Nat, waits \in BOOLEAN : Request(lines, waits),
           queries' \subseteq queries
    PROVE  LogInv'
<1>1. setting' = setting /\ restarts' = restarts /\ eventBuffer' = eventBuffer
  BY DEF Flush, ReconnectTimer, DisconnectTimer, Mount, Unmount, StoreLine, Request, BrowserUnchanged, server, vars
<1>2. \A s \in Sockets : sockets'[s].down \in {sockets[s].down, <<>>}
  <2>1. CASE Flush \/ Unmount \/ StoreLine
    BY <2>1 DEF Flush, Unmount, StoreLine, vars
  <2>2. CASE \E lines \in Nat, waits \in BOOLEAN : Request(lines, waits)
    <3>1. PICK lines \in Nat, waits \in BOOLEAN : Request(lines, waits)
      BY <2>2
    <3>2. CASE sockets' = sockets
      BY <3>2
    <3>3. CASE sockets' # sockets
      BY <3>1, <3>3, RequestEffect DEF Turns, Looks
    <3> QED  BY <3>2, <3>3
  <2>3. CASE ReconnectTimer
    BY <2>3, ConnectEffect DEF ReconnectTimer, TypeOK, ServerTypes, Looks
  <2>4. CASE DisconnectTimer
    <3>1. CASE sockets' = sockets
      BY <3>1
    <3>2. CASE sockets' # sockets
      BY <2>4, <3>2, ClosedEffect DEF DisconnectTimer, closeSocket, Turns, Looks
    <3> QED  BY <3>1, <3>2
  <2>5. CASE Mount
    <3>1. PICK s \in Sockets :
            /\ Looks(sockets'[s], "connecting", FALSE, "gone", FALSE, <<>>, <<>>)
            /\ \A r \in Sockets : r # s => sockets'[r] = Closed[r]
      BY <2>5, MountEffect, ConnectEffect DEF TypeOK
    <3>2. \A r \in Sockets : Closed[r].down \in {sockets[r].down, <<>>}
      BY DEF Closed, TypeOK, ServerTypes, SocketKinds
    <3> QED  BY <3>1, <3>2 DEF Looks
  <2> QED  BY <2>1, <2>2, <2>3, <2>4, <2>5
<1> QED  BY <1>1, <1>2, LogFrame

-----------------------------------------------------------------------------
(* The window.                                                             *)

LEMMA WindowStays ==
    ASSUME WindowHolds, setting' = setting, remounts' = remounts, Handled' \subseteq Handled,
           window' = window, overtaken' = overtaken
    PROVE  WindowHolds'
<1>1. ShownLines' = ShownLines
  BY DEF ShownLines
<1> QED  BY <1>1 DEF WindowHolds

\* An answer has every line from its first on that it does not come before.
LEMMA OnAnswerWindow ==
    ASSUME TypeOK, WindowHolds, setting.lines > 0 => LogInv, NEW s \in Sockets, OnAnswer(s)
    PROVE  WindowHolds'
<1> DEFINE a == Head(sockets[s].down)
<1>1. /\ setting' = setting /\ remounts' = remounts /\ Handled' = Handled
      /\ sockets[s].down # <<>> /\ a.kind = "answer"
      /\ window' = IF a.ok THEN [records |-> a.lines, events |-> {}, loaded |-> TRUE]
                   ELSE [window EXCEPT !.loaded = TRUE]
      /\ overtaken' = IF a.ok THEN {n \in Handled : \A line \in a.lines : line < n}
                      ELSE overtaken \union (IF window.loaded THEN {} ELSE Handled)
  BY DEF OnAnswer, updateLogsQueryEntries, BrowserUnchanged, page, seen, Handled
<1>2. sockets[s].down \in Seq(Items) /\ a = sockets[s].down[1] /\ 1 \in DOMAIN sockets[s].down
  BY <1>1, SocketTypes DEF TypeOK, ServerTypes
<1>3. a.ok \in BOOLEAN /\ a.lines \in SUBSET Nat /\ window \in Windows /\ Handled \subseteq Nat
  BY <1>1, <1>2, Kind DEF TypeOK, LogTypes, PageTypes, Handled, Answers
<1>4. setting.lines > 0 /\ setting.scope = "process" => NoHole(a.lines)
  BY <1>1, <1>2 DEF LogInv, LogQueue
<1> HIDE DEF a
<1> SUFFICES ASSUME remounts = 0, setting.lines > 0, setting.scope = "process",
                    NEW n \in Handled, NEW first \in ShownLines', first <= n
             PROVE  n \in ShownLines' \/ n \in overtaken'
  BY <1>1 DEF WindowHolds
<1>5. CASE a.ok
  <2>1. ShownLines' = a.lines /\ overtaken' = {m \in Handled : \A line \in a.lines : line < m}
    BY <1>1, <1>5 DEF ShownLines
  <2>2. CASE \A line \in a.lines : line < n
    BY <2>1, <2>2
  <2>3. CASE ~ \A line \in a.lines : line < n
    <3>1. PICK z \in a.lines : ~(z < n)
      BY <2>3
    <3>2. n \in Nat /\ z \in Nat /\ first \in Nat /\ first \in a.lines
      BY <1>3, <2>1
    <3>4. n \in first .. z
      BY <3>1, <3>2
    <3>3. n \in a.lines
      BY <1>4, <3>2, <3>4 DEF NoHole
    <3> QED  BY <2>1, <3>3
  <2> QED  BY <2>2, <2>3
<1>6. CASE ~a.ok
  <2>1. window'.records = window.records /\ window'.events = window.events
    BY <1>1, <1>3, <1>6 DEF Windows
  <2>2. ShownLines' = ShownLines
    BY <2>1 DEF ShownLines
  <2>3. CASE window.loaded
    BY <1>1, <1>6, <2>2, <2>3 DEF WindowHolds
  <2>4. CASE ~window.loaded
    BY <1>1, <1>6, <2>4
  <2> QED  BY <2>3, <2>4
<1> QED  BY <1>3, <1>5, <1>6

\* An event's line comes after every line whose event has been handled.
LEMMA EventArrivesWindow ==
    ASSUME TypeOK, WindowHolds, setting.lines > 0 => LogInv, remounts = 0 => OneInv,
           NEW s \in Sockets, EventArrives(s)
    PROVE  WindowHolds'
<1> DEFINE e == Head(sockets[s].down)
<1>1. /\ setting' = setting /\ remounts' = remounts /\ Handled' = Handled \union {e.seq}
      /\ sockets[s].down # <<>> /\ e.kind \in Kinds /\ overtaken' = overtaken
      /\ window' = IF e.kind = "log" /\ window.loaded /\ setting.scope = "process"
                   THEN [window EXCEPT !.events = @ \union {e.seq}] ELSE window
  BY DEF EventArrives, OnMessage, appendManagedProcessLogChunk, BrowserUnchanged, page, Handled
<1>2. sockets[s].down \in Seq(Items) /\ e = sockets[s].down[1] /\ 1 \in DOMAIN sockets[s].down
  BY <1>1, SocketTypes DEF TypeOK, ServerTypes
<1>3. window \in Windows /\ Handled \subseteq Nat /\ e.seq \in Nat
  BY <1>1, <1>2, Kind DEF TypeOK, LogTypes, PageTypes, Handled
<1>4. setting.lines > 0 => e.kind = "log"
  BY <1>1, <1>2 DEF LogInv, LogQueue, Kinds
<1>5. remounts = 0 => \A m \in Handled : m < e.seq
  <2>1. remounts = 0 => Ahead(sockets[s].down, Handled)
    BY DEF OneInv
  <2> QED  BY <1>1, <1>2, <2>1, ArrivedAhead
<1> HIDE DEF e
<1> SUFFICES ASSUME remounts = 0, setting.lines > 0, setting.scope = "process", window'.loaded,
                    NEW n \in Handled', NEW first \in ShownLines', first <= n
             PROVE  n \in ShownLines' \/ n \in overtaken'
  BY <1>1 DEF WindowHolds
<1>6. window.loaded /\ window' = [window EXCEPT !.events = @ \union {e.seq}]
  BY <1>1, <1>3, <1>4 DEF Windows
<1>7. ShownLines' = ShownLines \union {e.seq}
  BY <1>3, <1>6 DEF ShownLines, Windows
<1>8. CASE n = e.seq
  BY <1>7, <1>8
<1>9. CASE n \in Handled
  <2>1. first \in ShownLines
    BY <1>3, <1>5, <1>7, <1>9
  <2> QED  BY <1>1, <1>6, <1>7, <1>9, <2>1 DEF WindowHolds
<1> QED  BY <1>1, <1>8, <1>9

-----------------------------------------------------------------------------
(* The theorems.                                                           *)

LEMMA Starts ==
    ASSUME LogInit
    PROVE  Inv
<1>1. /\ \A s \in Sockets : s # 1 => sockets[s] = Unused
      /\ Looks(sockets[1], "connecting", FALSE, "gone", FALSE, <<>>, <<>>)
      /\ sockets \in [Sockets -> SocketKinds]
  <2>0. "connecting" \in Browsers /\ 1 \in Sockets
    BY DEF Browsers, Sockets
  <2>1. Looks(Unused, "unused", FALSE, "gone", FALSE, <<>>, <<>>)
    BY UnusedLooks
  <2>2. /\ sockets = [s \in Sockets |-> IF s = 1 THEN [Unused EXCEPT !.browser = "connecting"] ELSE Unused]
    <3>1. Unused \in SocketKinds
      BY <2>1 DEF Looks
    <3> QED  BY <2>0, <3>1 DEF LogInit, Init, SocketKinds
  <2>3. Looks([Unused EXCEPT !.browser = "connecting"], "connecting", Unused.accepted, Unused.server,
              Unused.subscribed, Unused.up, Unused.down)
    BY <2>0, <2>1, BrowserLooks DEF Looks
  <2>4. /\ [Unused EXCEPT !.browser = "connecting"] \in SocketKinds /\ Unused \in SocketKinds
    BY <2>1, <2>3 DEF Looks
  <2>5. sockets[1] = [Unused EXCEPT !.browser = "connecting"]
    BY <2>0, <2>2
  <2>6. Looks(sockets[1], "connecting", FALSE, "gone", FALSE, <<>>, <<>>)
    BY <2>1, <2>3, <2>5 DEF Looks
  <2>7. sockets \in [Sockets -> SocketKinds]
    BY <2>2, <2>4
  <2> QED  BY <2>0, <2>2, <2>6, <2>7
<1>2. \A s \in Sockets :
        /\ sockets[s] \in SocketKinds
        /\ sockets[s].up = <<>> /\ sockets[s].down = <<>> /\ ~sockets[s].subscribed
        /\ sockets[s].browser = IF s = 1 THEN "connecting" ELSE "unused"
  BY <1>1, UnusedLooks DEF Looks
<1>3. /\ Newest = 0 /\ Handled = {} /\ eventBuffer = <<>> /\ lastEventId = 0 /\ restarts = 0
      /\ queries = {} /\ setting \in Settings /\ ~reconnectTimer /\ ~twice /\ ~window.loaded
      /\ Len(eventBuffer) = 0 /\ DOMAIN eventBuffer = {}
  BY DEF LogInit, Init, Newest, Handled, NoWindow
<1>4. TypeOK
  <2>1. ServerTypes
    BY <1>1 DEF LogInit, Init, ServerTypes
  <2>2. PageTypes
    <3>1. /\ remounts \in Nat /\ ws \in Sockets \union {NoSocket} /\ lastEventId \in Nat
          /\ pending \in SUBSET Nat /\ shown \in SUBSET Nat /\ excused \in SUBSET Nat
      BY DEF LogInit, Init, Sockets
    <3>2. /\ mounted \in BOOLEAN /\ reconnectTimer \in BOOLEAN /\ disconnectTimer \in BOOLEAN
          /\ isManualDisconnect \in BOOLEAN /\ twice \in BOOLEAN
      BY DEF LogInit, Init
    <3> QED  BY <3>1, <3>2 DEF PageTypes
  <2>3. LogTypes
    BY DEF LogInit, LogTypes, NoWindow, Windows
  <2> QED  BY <2>1, <2>2, <2>3 DEF TypeOK
<1>5. FeedInv /\ NoGap
  <2>1. \A s \in Sockets : SocketRight(sockets[s], Handled \union excused, Newest)
                           /\ IdsHad(sockets[s], Handled \union excused)
    BY <1>2, <1>3, SilentRight DEF Listening
  <2>2. BufferHolds(eventBuffer, Newest)
    BY <1>3 DEF BufferHolds
  <2> QED  BY <1>3, <2>1, <2>2 DEF FeedInv, NoGap
<1>6. OneInv
  BY <1>2, <1>3 DEF OneInv, Ahead
<1>7. setting.lines > 0 => LogInv
  <2>1. setting.lines > 0 => setting.restarts = 0
    BY <1>3, BrowserAssumption
  <2> QED  BY <1>2, <1>3, <2>1 DEF LogInv, LogQueue
<1>8. WindowHolds
  BY <1>3 DEF WindowHolds
<1> QED  BY <1>4, <1>5, <1>6, <1>7, <1>8 DEF Inv

LEMMA FeedStepKeeps ==
    ASSUME Inv, FeedStep
    PROVE  Inv'
<1>1. /\ TypeOK /\ FeedInv /\ NoGap /\ (remounts = 0 => OneInv) /\ (setting.lines > 0 => LogInv)
      /\ WindowHolds
      /\ queries' = QueriesLeft /\ UNCHANGED <<stored, window, tail, inFlight, asked, unsent, overtaken>>
  BY DEF Inv, FeedStep
<1>2. QueriesLeft \subseteq queries
  BY DEF QueriesLeft
<1>3. ASSUME NEW kind \in Kinds, NEW slow \in SUBSET Sockets, publishEvent(kind, slow),
             setting.lines > 0 => kind = "log"
      PROVE  Inv'
  <2>1. /\ setting' = setting /\ remounts' = remounts /\ Handled' = Handled
    BY <1>3 DEF publishEvent, ServerUnchanged, page, seen, Handled
  <2>2. TypeOK'
    BY <1>1, <1>3, publishEventTypes
  <2>3. FeedInv' /\ NoGap'
    BY <1>1, <1>3, publishEventFeed
  <2>4. remounts = 0 => OneInv'
    BY <1>1, <1>3, publishEventOne
  <2>5. setting.lines > 0 => LogInv'
    BY <1>1, <1>3, publishEventLog
  <2>6. WindowHolds'
    BY <1>1, <2>1, WindowStays
  <2> QED  BY <2>1, <2>2, <2>3, <2>4, <2>5, <2>6 DEF Inv
<1>4. ASSUME NEW s \in Sockets,
             \/ Accept(s) \/ SessionRead(s) \/ Subscribe(s) \/ ServerCloses(s) \/ SocketBreaks(s)
             \/ OnOpen(s) \/ OnClose(s) \/ Refused(s)
      PROVE  Inv'
  <2>1. setting' = setting /\ remounts' = remounts /\ Handled' = Handled
    BY <1>4 DEF Accept, SessionRead, Subscribe, ServerCloses, SocketBreaks, OnOpen, OnClose, Refused,
                ServerUnchanged, BrowserUnchanged, page, seen, Handled
  <2>2. TypeOK'
    BY <1>1, <1>4, AcceptTypes, SessionReadTypes, SubscribeTypes, ServerClosesTypes,
       SocketBreaksTypes, OnOpenTypes, OnCloseTypes, RefusedTypes
  <2>3. FeedInv' /\ NoGap'
    BY <1>1, <1>4, AcceptFeed, SessionReadFeed, SubscribeFeed, ServerClosesFeed,
       SocketBreaksFeed, OnOpenFeed, OnCloseFeed, RefusedFeed
  <2>4. remounts = 0 => OneInv'
    BY <1>1, <1>4, AcceptOne, SessionReadOne, SubscribeOne, ServerClosesOne,
       SocketBreaksOne, OnOpenOne, OnCloseOne, RefusedOne
  <2>5. setting.lines > 0 => LogInv'
    <3>1. CASE Subscribe(s)
      BY <3>1, <1>1, SubscribeLog
    <3>2. CASE ~Subscribe(s)
      BY <3>2, <1>1, <1>2, <1>4, NothingAdded, LogFrame
    <3> QED  BY <3>1, <3>2
  <2>6. WindowHolds'
    BY <1>1, <2>1, WindowStays
  <2> QED  BY <2>1, <2>2, <2>3, <2>4, <2>5, <2>6 DEF Inv
<1>5. ASSUME Flush \/ ReconnectTimer \/ DisconnectTimer
      PROVE  Inv'
  <2>1. setting' = setting /\ remounts' = remounts /\ Handled' = Handled
    BY <1>5 DEF Flush, ReconnectTimer, DisconnectTimer, Show, BrowserUnchanged, page, seen, Handled
  <2>2. TypeOK'
    BY <1>1, <1>5, FlushTypes, ReconnectTimerTypes, DisconnectTimerTypes
  <2>3. FeedInv' /\ NoGap'
    BY <1>1, <1>5, FlushFeed, ReconnectTimerFeed, DisconnectTimerFeed
  <2>4. remounts = 0 => OneInv'
    BY <1>1, <1>5, FlushOne, ReconnectTimerOne, DisconnectTimerOne
  <2>5. setting.lines > 0 => LogInv'
    BY <1>1, <1>2, <1>5, LogRest
  <2>6. WindowHolds'
    BY <1>1, <2>1, WindowStays
  <2> QED  BY <2>1, <2>2, <2>3, <2>4, <2>5, <2>6 DEF Inv
<1>6. ASSUME Restart
      PROVE  Inv'
  <2>1. setting' = setting /\ remounts' = remounts /\ Handled' = {}
    BY <1>6 DEF Restart, page, Handled
  <2>2. TypeOK'
    BY <1>1, <1>6, RestartTypes
  <2>3. FeedInv' /\ NoGap'
    BY <1>1, <1>6, RestartFeed
  <2>4. remounts = 0 => OneInv'
    BY <1>1, <1>6, RestartOne
  <2>5. ~(setting.lines > 0)
    BY <1>1, <1>6 DEF Restart, LogInv
  <2>6. WindowHolds'
    BY <1>1, <2>1, WindowStays
  <2> QED  BY <2>1, <2>2, <2>3, <2>4, <2>5, <2>6 DEF Inv
<1> QED  BY <1>3, <1>4, <1>5, <1>6 DEF FeedStep

LEMMA Keeps ==
    ASSUME Inv, [LogNext]_allVars
    PROVE  Inv'
<1>1. /\ TypeOK /\ FeedInv /\ NoGap /\ (remounts = 0 => OneInv) /\ (setting.lines > 0 => LogInv)
      /\ WindowHolds
  BY DEF Inv
<1>2. QueriesLeft \subseteq queries
  BY DEF QueriesLeft
<1>3. CASE FeedStep
  BY <1>3, FeedStepKeeps
<1>4. CASE Mount /\ Forget /\ queries' = QueriesLeft /\ UNCHANGED <<stored, tail, inFlight, asked, unsent>>
  <2>1. setting' = setting /\ remounts' # 0 /\ ~window'.loaded
    BY <1>1, <1>4 DEF Mount, Forget, NoWindow, TypeOK, PageTypes
  <2>2. TypeOK'
    BY <1>1, <1>4, MountTypes
  <2>3. FeedInv' /\ NoGap'
    BY <1>1, <1>4, MountFeed
  <2>4. setting.lines > 0 => LogInv'
    BY <1>1, <1>2, <1>4, LogRest
  <2> QED  BY <2>1, <2>2, <2>3, <2>4 DEF Inv, WindowHolds
<1>5. CASE Unmount /\ Forget /\ queries' = QueriesLeft /\ UNCHANGED <<stored, tail, inFlight, asked, unsent>>
  <2>1. setting' = setting /\ remounts' = remounts /\ ~window'.loaded
    BY <1>5 DEF Unmount, Forget, NoWindow
  <2>2. TypeOK'
    BY <1>1, <1>5, UnmountTypes
  <2>3. FeedInv' /\ NoGap'
    BY <1>1, <1>5, UnmountFeed
  <2>4. remounts = 0 => OneInv'
    BY <1>1, <1>5, UnmountOne
  <2>5. setting.lines > 0 => LogInv'
    BY <1>1, <1>2, <1>5, LogRest
  <2> QED  BY <2>1, <2>2, <2>3, <2>4, <2>5 DEF Inv, WindowHolds
<1>6. CASE StoreLine
  <2>1. /\ setting' = setting /\ remounts' = remounts /\ Handled' = Handled
        /\ window' = window /\ overtaken' = overtaken /\ queries' = queries
    BY <1>6 DEF StoreLine, vars, page, seen, Handled
  <2>2. TypeOK' /\ FeedInv' /\ NoGap'
    BY <1>1, <1>6, StoreLineTypes, StoreLineFeed
  <2>3. /\ remounts = 0 => OneInv'
        /\ setting.lines > 0 => LogInv'
        /\ WindowHolds'
    BY <1>1, <1>6, <2>1, StoreLineOne, LogRest, WindowStays
  <2> QED  BY <2>1, <2>2, <2>3 DEF Inv
<1>7. CASE \E lines \in Nat, waits \in BOOLEAN : Request(lines, waits)
  <2> PICK lines \in Nat, waits \in BOOLEAN : Request(lines, waits)
    BY <1>7
  <2>1. /\ setting' = setting /\ remounts' = remounts /\ Handled' = Handled
        /\ window' = window /\ overtaken' = overtaken /\ queries' = queries
    BY DEF Request, BrowserUnchanged, page, seen, Handled
  <2>2. TypeOK' /\ FeedInv' /\ NoGap'
    BY <1>1, RequestTypes, RequestFeed
  <2>3. /\ remounts = 0 => OneInv'
        /\ setting.lines > 0 => LogInv'
        /\ WindowHolds'
    BY <1>1, <2>1, RequestOne, LogRest, WindowStays
  <2> QED  BY <2>1, <2>2, <2>3 DEF Inv
<1>8. ASSUME NEW q \in queries, ReadLog(q) \/ Answer(q)
      PROVE  Inv'
  <2>1. /\ setting' = setting /\ remounts' = remounts /\ Handled' = Handled
        /\ window' = window /\ overtaken' = overtaken
    BY <1>8 DEF ReadLog, Answer, ServerUnchanged, vars, page, seen, Handled
  <2>2. TypeOK' /\ FeedInv' /\ NoGap'
    BY <1>1, <1>8, ReadLogTypes, ReadLogFeed, AnswerTypes, AnswerFeed
  <2>3. /\ remounts = 0 => OneInv'
        /\ setting.lines > 0 => LogInv'
        /\ WindowHolds'
    BY <1>1, <1>8, <2>1, ReadLogOne, AnswerOne, ReadLogLog, AnswerLog, WindowStays
  <2> QED  BY <2>1, <2>2, <2>3 DEF Inv
<1>9. ASSUME NEW s \in Sockets, ReceiveQuery(s)
      PROVE  Inv'
  <2>1. /\ setting' = setting /\ remounts' = remounts /\ Handled' = Handled
        /\ window' = window /\ overtaken' = overtaken
    BY <1>9 DEF ReceiveQuery, ServerUnchanged, page, seen, Handled
  <2>2. TypeOK' /\ FeedInv' /\ NoGap'
    BY <1>1, <1>9, ReceiveQueryTypes, ReceiveQueryFeed
  <2>3. \A q \in queries' : q \in queries \/ NoHole(q.lines)
    BY <1>9 DEF ReceiveQuery, NoHole
  <2>4. setting.lines > 0 => LogInv'
    BY <1>1, <1>9, <2>3, NothingAdded, LogFrame
  <2>5. (remounts = 0 => OneInv') /\ WindowHolds'
    BY <1>1, <1>9, <2>1, ReceiveQueryOne, WindowStays
  <2> QED  BY <2>1, <2>2, <2>4, <2>5 DEF Inv
<1>10. ASSUME NEW s \in Sockets, EventArrives(s) \/ OnAnswer(s)
       PROVE  Inv'
  <2>1. setting' = setting /\ remounts' = remounts /\ queries' = queries
    BY <1>10 DEF EventArrives, OnMessage, OnAnswer, BrowserUnchanged, page
  <2>2. TypeOK' /\ FeedInv' /\ NoGap'
    BY <1>1, <1>10, EventArrivesTypes, EventArrivesFeed, OnAnswerTypes, OnAnswerFeed
  <2>3. setting.lines > 0 => LogInv'
    BY <1>1, <1>10, <2>1, NothingAdded, LogFrame
  <2>4. (remounts = 0 => OneInv') /\ WindowHolds'
    BY <1>1, <1>10, EventArrivesOne, OnAnswerOne, EventArrivesWindow, OnAnswerWindow
  <2> QED  BY <2>1, <2>2, <2>3, <2>4 DEF Inv
<1>11. CASE UNCHANGED allVars
  <2>1. /\ TypeOK' /\ FeedInv' /\ NoGap'
    BY <1>1, <1>11 DEF allVars, vars, logVars, server, page, timers, seen, TypeOK, ServerTypes,
        PageTypes, LogTypes, FeedInv, NoGap, Newest, Handled
  <2>2. (remounts' = 0 => OneInv') /\ (setting'.lines > 0 => LogInv') /\ WindowHolds'
    BY <1>1, <1>11 DEF allVars, vars, logVars, server, page, timers, seen, OneInv, LogInv, LogQueue,
        WindowHolds, ShownLines, Newest, Handled
  <2> QED  BY <2>1, <2>2 DEF Inv
<1>12. CASE requestTailLogWindow \/ onLogStreamScroll
  <2>1. tail \in Nat /\ tail + 1 \in Nat /\ window.loaded \in BOOLEAN
    BY <1>1 DEF TypeOK, LogTypes, Windows
  <2>2. CASE requestTailLogWindow
    BY <1>7, <2>1, <2>2 DEF requestTailLogWindow
  <2>3. CASE onLogStreamScroll
    BY <1>7, <2>1, <2>3 DEF onLogStreamScroll
  <2> QED  BY <1>12, <2>2, <2>3
<1> QED  BY <1>3, <1>4, <1>5, <1>6, <1>7, <1>8, <1>9, <1>10, <1>11, <1>12 DEF LogNext

\* A page that stays has one socket at most.
LEMMA OnlyOne ==
    ASSUME OneInv
    PROVE  Cardinality({s \in Sockets : sockets[s].browser \in Listening}) <= 1
<1> DEFINE S == {s \in Sockets : sockets[s].browser \in Listening}
<1>1. \A s, r \in S : s = r
  BY DEF OneInv, Listening
<1>2. CASE S = {}
  BY <1>2, FS_EmptySet
<1>3. CASE S # {}
  <2> PICK s \in S : TRUE
    BY <1>3
  <2>1. S = {s}
    BY <1>1
  <2> HIDE DEF S
  <2>2. Cardinality(S) = 1
    BY <2>1, FS_Singleton
  <2> QED  BY <2>2 DEF S
<1> QED  BY <1>2, <1>3

LEMMA Always == LogSpec => []Inv
<1>1. LogInit => Inv
  BY Starts
<1>2. Inv /\ [LogNext]_allVars => Inv'
  BY Keeps
<1> QED  BY <1>1, <1>2, PTL DEF LogSpec

\* What the page's store handles of the feed has no gap but what the code gives up, and on a page
\* that stays it comes once, through one socket: over broken sockets, restarts of the
\* server, a full buffer and returns of the page
\* (packages/server/src/index.js and packages/web/src/store/index.js).
THEOREM FeedIsRight == LogSpec => []FeedRight
<1>1. Inv => FeedRight
  BY OnlyOne DEF Inv, FeedRight, OneSocket, OneInv
<1> QED  BY <1>1, Always, PTL

\* The window of a process log has, from its first line on, every line whose event was
\* handled and that no older answer has removed, for any number of lines, requests and
\* broken sockets (packages/web/src/features/home/controllers/useLogsPanelController.js).
THEOREM WindowKeepsLines == LogSpec => []WindowHolds
<1>1. Inv => WindowHolds
  BY DEF Inv
<1> QED  BY <1>1, Always, PTL
=============================================================================
