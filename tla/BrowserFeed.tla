---------------------------- MODULE BrowserFeed -----------------------------
(***************************************************************************)
(* From the server's events to a browser's page:                           *)
(* packages/server/src/index.js numbers events, keeps the newest in a      *)
(* buffer and sends them to the WebSockets that have subscribed;           *)
(* packages/web/src/store/index.js connects, subscribes with the id of the *)
(* last event it got, is sent what the buffer holds after it, and batches  *)
(* what it puts on the page.                                               *)
(*                                                                         *)
(* With authentication the server awaits a look at the session before it   *)
(* listens to a new socket; a message that arrives meanwhile is lost.      *)
(***************************************************************************)
EXTENDS Naturals, Sequences, FiniteSets

CONSTANT Settings   \* settings to look at

\* Whether authentication is configured; the size of the event buffer; bounds on
\* the events, on sockets that break, on restarts of the server, on the events
\* a slow socket may miss, and on the times the page goes away and comes back.
\* For LogWindow: bounds on the lines of the run (0: no log is looked at), on what
\* the panel asks for and on the lines it asks for; whether the master may fail;
\* and what log it is.
SettingKinds ==
    [auth : BOOLEAN, buffer : Nat, events : Nat, breaks : Nat, restarts : Nat,
     slow : Nat, remounts : Nat, lines : Nat, asks : Nat, tail : Nat, fails : BOOLEAN,
     scope : {"process", "host", "overlay"}]

\* In LogWindow an event's number names its line, so the server does not start anew.
ASSUME BrowserAssumption ==
    /\ Settings \subseteq SettingKinds
    /\ \A st \in Settings : st.lines > 0 => st.restarts = 0

VARIABLES
    setting,        \* never changes
    restarts,       \* restarts of the server so far
    nextEventSequence, eventBuffer,
    sockets,        \* both ends of each WebSocket and what is on its way
    breaks, remounts,
    mounted,        \* the page is there
    ws,             \* wsRef
    reconnectTimer, disconnectTimer, isManualDisconnect,
    lastEventId,    \* the number in it, 0 for none
    pending,        \* events handled and not yet on the page
    shown,          \* events on the page, of this run of the server
    twice,          \* some event was handled twice
    excused         \* events that are not brought to the page: kept from a slow
                    \* socket, pushed out of the buffer, hidden by an id of the
                    \* last run, or thrown away when the page went

server == <<restarts, nextEventSequence, eventBuffer>>
timers == <<reconnectTimer, disconnectTimer, isManualDisconnect>>
page == <<mounted, remounts>>
seen == <<lastEventId, pending, shown, twice>>
vars == <<setting, server, sockets, breaks, page, ws, timers, seen, excused>>

Kinds == {"log", "state"}
Sockets == 1 .. 3
NoSocket == 0

\* browser: "connecting", "open", "closing" (close() was called) or "broken"
\*   (onclose is to come); accepted: the upgrade is done.
\* server: "awaiting" (the look at the session), "attached" or "gone".
Unused == [browser |-> "unused", accepted |-> FALSE, server |-> "gone",
           subscribed |-> FALSE, up |-> <<>>, down |-> <<>>]
Listening == {"connecting", "open"}

Handled == shown \union pending
Newest == nextEventSequence - 1

-----------------------------------------------------------------------------
(* Server.                                                                 *)

ServerUnchanged == <<setting, page, ws, timers, seen>>

\* The newest events are kept.
rememberEvent(e) ==
    LET all == Append(eventBuffer, e)
    IN  IF Len(all) > setting.buffer THEN Tail(all) ELSE all

CanReceive(s) == sockets[s].server = "attached" /\ sockets[s].subscribed

\* A log event is not sent to the sockets in slow, whose buffers are full.
publishEvent(kind, slow) ==
    LET e == [seq |-> nextEventSequence, kind |-> kind]
        to == {s \in Sockets \ slow : CanReceive(s) /\ sockets[s].browser \in Listening}
    IN  /\ e.seq <= setting.events
        /\ slow # {} => kind = "log" /\ e.seq <= setting.slow
        /\ slow \subseteq {s \in Sockets : CanReceive(s)}
        /\ nextEventSequence' = e.seq + 1
        /\ eventBuffer' = rememberEvent(e)
        /\ sockets' = [s \in Sockets |->
             IF s \in to THEN [sockets[s] EXCEPT !.down = Append(@, e)] ELSE sockets[s]]
        /\ excused' = excused \union (IF slow = {} THEN {} ELSE {e.seq})
                              \union {n \in 1 .. e.seq : \A i \in DOMAIN eventBuffer' : eventBuffer'[i].seq # n}
        /\ UNCHANGED <<ServerUnchanged, restarts, breaks>>

\* The upgrade of a connection.  The handler attaches its listeners at once, or
\* after it has looked at the session.
Accept(s) ==
    /\ sockets[s].browser = "connecting" /\ ~sockets[s].accepted
    /\ sockets' = [sockets EXCEPT ![s].accepted = TRUE,
                                  ![s].server = IF setting.auth THEN "awaiting" ELSE "attached"]
    /\ UNCHANGED <<ServerUnchanged, server, breaks, excused>>

SessionRead(s) ==
    /\ sockets[s].server = "awaiting"
    /\ sockets' = [sockets EXCEPT ![s].server = "attached"]
    /\ UNCHANGED <<ServerUnchanged, server, breaks, excused>>

FoundIndex(id) == {i \in DOMAIN eventBuffer : eventBuffer[i].seq = id}
BufferFrom(i) == SubSeq(eventBuffer, i, Len(eventBuffer))

\* Seeded fault: nothing is sent if the event named has left the buffer.
ReplayKnown(id) ==
    IF id = 0 THEN eventBuffer
    ELSE IF FoundIndex(id) = {} THEN <<>> ELSE BufferFrom((CHOOSE i \in FoundIndex(id) : TRUE) + 1)

\* The events after the one named, all of the buffer if it is not there.
replayEvents(id) ==
    BufferFrom(IF FoundIndex(id) = {} THEN 1 ELSE (CHOOSE i \in FoundIndex(id) : TRUE) + 1)

\* An id the browser has from before a restart may name another event now, and
\* hides the events up to it.
HiddenBy(id) ==
    IF restarts = 0 \/ FoundIndex(id) = {} \/ 1 .. id \subseteq Handled \union excused
    THEN {} ELSE 1 .. id

\* The message "subscribe"; without listeners it is lost.
Subscribe(s) ==
    /\ sockets[s].server \in {"awaiting", "attached"}
    /\ sockets[s].up # <<>> /\ Head(sockets[s].up).action = "subscribe"
    /\ sockets' =
         IF sockets[s].server = "awaiting"
         THEN [sockets EXCEPT ![s].up = Tail(@)]
         ELSE [sockets EXCEPT ![s].up = Tail(@), ![s].subscribed = TRUE,
                              ![s].down = @ \o replayEvents(Head(sockets[s].up).id)]
    /\ excused' = excused \union (IF sockets[s].server = "attached"
                                  THEN HiddenBy(Head(sockets[s].up).id) ELSE {})
    /\ UNCHANGED <<ServerUnchanged, server, breaks>>

\* The server finds a socket closed, or has had no answer to its ping.
ServerCloses(s) ==
    /\ sockets[s].server # "gone" /\ sockets[s].browser \notin Listening
    /\ sockets' = [sockets EXCEPT ![s] =
                     IF @.browser = "unused" THEN Unused ELSE [@ EXCEPT !.server = "gone"]]
    /\ UNCHANGED <<ServerUnchanged, server, breaks, excused>>

Broken(s) ==
    IF sockets[s].browser \in Listening
    THEN [sockets[s] EXCEPT !.browser = "broken", !.up = <<>>, !.down = <<>>] ELSE sockets[s]

SocketBreaks(s) ==
    /\ sockets[s].browser \in Listening /\ breaks < setting.breaks
    /\ breaks' = breaks + 1
    /\ sockets' = [sockets EXCEPT ![s] = Broken(s)]
    /\ UNCHANGED <<ServerUnchanged, server, excused>>

\* A restarted server counts from 1 again and its buffer is empty.
Restart ==
    /\ restarts < setting.restarts /\ restarts' = restarts + 1
    /\ nextEventSequence' = 1 /\ eventBuffer' = <<>>
    /\ sockets' = [s \in Sockets |-> [Broken(s) EXCEPT !.server = "gone"]]
    /\ pending' = {} /\ shown' = {} /\ excused' = {}   \* those of the last run are not looked at any more
    /\ UNCHANGED <<setting, breaks, page, ws, timers, lastEventId, twice>>

-----------------------------------------------------------------------------
(* Browser.                                                                *)

BrowserUnchanged == <<setting, server, breaks, excused>>

\* Closing the current socket; its onclose is still to come.
Closed ==
    IF ws # NoSocket /\ sockets[ws].browser \in Listening
    THEN [sockets EXCEPT ![ws].browser = "closing", ![ws].up = <<>>, ![ws].down = <<>>]
    ELSE sockets

closeSocket == sockets' = Closed /\ ws' = NoSocket

\* A new socket becomes the current one, whatever happens to another.
ConnectFrom(from) ==
    \E s \in Sockets :
        /\ from[s] = Unused /\ \A r \in Sockets : r < s => from[r] # Unused
        /\ sockets' = [from EXCEPT ![s].browser = "connecting"]
        /\ ws' = s

\* Subscribing, with the id of the last event.
OnOpen(s) ==
    /\ sockets[s].browser = "connecting" /\ sockets[s].accepted
    /\ sockets' = [sockets EXCEPT ![s].browser = "open", ![s].up = <<[action |-> "subscribe", id |-> lastEventId]>>]
    /\ UNCHANGED <<BrowserUnchanged, page, ws, timers, seen>>

\* The id is kept, the event waits for the next flush.
OnMessage(s) ==
    LET e == Head(sockets[s].down)
    IN  /\ sockets[s].browser = "open" /\ sockets[s].down # <<>> /\ e.kind \in Kinds
        /\ sockets' = [sockets EXCEPT ![s].down = Tail(@)]
        /\ lastEventId' = e.seq
        /\ twice' = (twice \/ e.seq \in Handled)
        /\ pending' = pending \union {e.seq}
        /\ UNCHANGED <<BrowserUnchanged, page, ws, timers, shown>>

\* The reducers put them on the page.
Show(events) == shown' = shown \union events

\* After 20 log lines, a change of the connection's status, 100 or 300 ms.
Flush ==
    /\ pending # {} /\ pending' = {} /\ Show(pending)
    /\ UNCHANGED <<BrowserUnchanged, sockets, page, ws, timers, lastEventId, twice>>

\* Any socket's end schedules a reconnect unless the page has disconnected.
scheduleReconnect == reconnectTimer' = (reconnectTimer \/ ~isManualDisconnect)

OnClose(s) ==
    /\ sockets[s].browser \in {"closing", "broken"}
    /\ sockets' = [sockets EXCEPT ![s] =
         IF @.server = "gone" THEN Unused ELSE [@ EXCEPT !.browser = "unused"]]
    /\ ws' = IF ws = s THEN NoSocket ELSE ws
    /\ scheduleReconnect
    /\ UNCHANGED <<BrowserUnchanged, page, disconnectTimer, isManualDisconnect, seen>>

ReconnectTimer ==
    /\ reconnectTimer /\ reconnectTimer' = FALSE
    /\ ConnectFrom(sockets)
    /\ UNCHANGED <<BrowserUnchanged, page, disconnectTimer, isManualDisconnect, seen>>

\* The server refuses the session: the page goes to the login.
Refused(s) ==
    /\ setting.auth /\ sockets[s].server = "awaiting" /\ sockets[s].browser \in Listening
    /\ sockets' = [sockets EXCEPT ![s] = Unused]
    /\ ws' = IF ws = s THEN NoSocket ELSE ws
    /\ isManualDisconnect' = TRUE /\ mounted' = FALSE
    /\ UNCHANGED <<BrowserUnchanged, remounts, reconnectTimer, disconnectTimer, seen>>

\* Seeded fault: a reconnect that is scheduled is left to happen.
StopAllButReconnect ==
    /\ isManualDisconnect' = TRUE /\ disconnectTimer' = TRUE /\ UNCHANGED reconnectTimer

StopTimers ==
    /\ isManualDisconnect' = TRUE /\ disconnectTimer' = TRUE /\ reconnectTimer' = FALSE

\* HOME_REALTIME_DISCONNECT: the page goes.  What waits for a flush is thrown
\* away, the socket is closed a little later.
Unmount ==
    /\ mounted /\ mounted' = FALSE
    /\ StopTimers /\ pending' = {} /\ excused' = excused \union pending
    /\ UNCHANGED <<setting, server, breaks, remounts, sockets, ws, lastEventId, shown, twice>>

DisconnectTimer ==
    /\ disconnectTimer /\ disconnectTimer' = FALSE
    /\ closeSocket
    /\ Show(pending) /\ pending' = {}
    /\ UNCHANGED <<BrowserUnchanged, page, reconnectTimer, isManualDisconnect, lastEventId, twice>>

\* HOME_REALTIME_CONNECT: the page comes back, or its endpoint has changed.  A
\* socket that is still there is closed, and its onclose finds a page that
\* wants to be connected.
Mount ==
    /\ ~mounted /\ remounts < setting.remounts
    /\ mounted' = TRUE /\ remounts' = remounts + 1
    /\ isManualDisconnect' = FALSE /\ disconnectTimer' = FALSE /\ reconnectTimer' = FALSE
    /\ ConnectFrom(Closed)
    /\ pending' = {} /\ excused' = excused \union pending
    /\ UNCHANGED <<setting, server, breaks, lastEventId, shown, twice>>

-----------------------------------------------------------------------------
Init ==
    /\ setting \in Settings
    /\ restarts = 0 /\ nextEventSequence = 1 /\ eventBuffer = <<>>
    /\ sockets = [[s \in Sockets |-> Unused] EXCEPT ![1].browser = "connecting"]
    /\ breaks = 0 /\ remounts = 0 /\ mounted = TRUE /\ ws = 1
    /\ reconnectTimer = FALSE /\ disconnectTimer = FALSE /\ isManualDisconnect = FALSE
    /\ lastEventId = 0 /\ pending = {} /\ shown = {} /\ twice = FALSE /\ excused = {}

Next ==
    \/ \E kind \in Kinds, slow \in SUBSET Sockets : publishEvent(kind, slow)
    \/ \E s \in Sockets :
          \/ Accept(s) \/ SessionRead(s) \/ Subscribe(s) \/ ServerCloses(s) \/ SocketBreaks(s)
          \/ OnOpen(s) \/ OnMessage(s) \/ OnClose(s) \/ Refused(s)
    \/ Restart \/ Flush \/ ReconnectTimer \/ DisconnectTimer \/ Unmount \/ Mount

\* Messages arrive, callbacks run and timers fire.
Fairness ==
    /\ \A s \in Sockets :
         /\ WF_vars(Accept(s)) /\ WF_vars(SessionRead(s)) /\ WF_vars(Subscribe(s))
         /\ WF_vars(ServerCloses(s)) /\ WF_vars(OnOpen(s)) /\ WF_vars(OnMessage(s))
         /\ WF_vars(OnClose(s))
    /\ WF_vars(Flush) /\ WF_vars(ReconnectTimer) /\ WF_vars(DisconnectTimer)

Spec == Init /\ [][Next]_vars

FairSpec == Spec /\ Fairness

-----------------------------------------------------------------------------
\* Reconnects leave no gap: below an event that has been handled there is none
\* that was not, but for those excused.
NoGap ==
    \A m \in Handled : 1 .. m \subseteq Handled \union excused

\* A page that never came back has one socket at most and handles no event
\* twice.  (When it comes back within the 120 ms before the old socket is
\* closed, the old socket's end opens another beside the new one.)
OneSocket ==
    remounts = 0 =>
        /\ Cardinality({s \in Sockets : sockets[s].browser \in Listening}) <= 1
        /\ ~twice

\* What the store handles of the feed: all of it, once, through one socket.
FeedRight == NoGap /\ OneSocket

\* A page that stays shows every event there was a way to bring; a page that
\* has gone has no socket left.
Quiet ==
    /\ mounted /\ remounts = 0 => 1 .. Newest \subseteq shown \union excused
    /\ ~mounted /\ remounts = 0 =>
         ~reconnectTimer /\ \A s \in Sockets : sockets[s].browser = "unused"

CatchesUp == <>[](setting.auth \/ Quiet)
=============================================================================
