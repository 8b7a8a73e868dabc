----------------------------- MODULE LogWindow ------------------------------
(***************************************************************************)
(* The log of a managed process on a page that BrowserFeed connects        *)
(* (packages/server/src/index.js handleLogsQueryMessage;                   *)
(* packages/web/src: store/index.js, features/home/controllers/            *)
(* useLogsPanelController.js, lib/logQueryProtocol.js).  The panel asks    *)
(* for the last lines of the log; the server reads them from the master    *)
(* and answers on the same WebSocket.  Meanwhile the master stores further *)
(* lines and publishes each as an event, which the page appends to what it *)
(* shows.  The master writes a line before it publishes the event.         *)
(*                                                                         *)
(* Here line n of the run is the one of the event numbered n: the events   *)
(* of a setting with lines are those of its log, and its server stays.     *)
(***************************************************************************)
EXTENDS BrowserFeed

VARIABLES
    stored,      \* the lines that the master has
    queries,     \* what the server has been asked and not yet answered
    window,      \* the entry of the context in logsQueryEntriesByContext
    tail,        \* the lines the panel asks for, requestedTailSizeByContextRef
    inFlight,    \* isTailRequestInFlightByContextRef
    asked,       \* requests of the panel so far
    unsent,      \* the last of them found no open socket, or no listener on it
    overtaken    \* lines whose event came before an answer that does not have them

logVars == <<stored, queries, window, tail, inFlight, asked, unsent, overtaken>>
allVars == <<vars, logVars>>

NoWindow == [records |-> {}, events |-> {}, loaded |-> FALSE]

\* The lines of the last answer, and those appended from events since: a line that has
\* come both ways is there twice, as the two have different ids.
ShownLines == window.records \union window.events

-----------------------------------------------------------------------------
(* The master and the server.                                              *)

\* A heartbeat brings a line of the run's log.
StoreLine ==
    /\ stored < setting.lines
    /\ stored' = stored + 1
    /\ UNCHANGED <<vars, queries, window, tail, inFlight, asked, unsent, overtaken>>

\* What the panel asks for is limited to what a request may be; each has an id of its own.
buildLogsQueryMessage(lines) == [action |-> "logs.query", id |-> asked + 1, tail |-> lines]

\* The message "logs.query" starts a query; without listeners it is lost.
ReceiveQuery(s) ==
    LET m    == Head(sockets[s].up)
        lost == sockets[s].server = "awaiting"
    IN  /\ sockets[s].server \in {"awaiting", "attached"}
        /\ sockets[s].up # <<>> /\ m.action = "logs.query"
        /\ queries' = IF lost THEN queries
                      ELSE queries \union {[socket |-> s, id |-> m.id, tail |-> m.tail,
                                            read |-> FALSE, ok |-> FALSE, lines |-> {}]}
        /\ unsent' = (unsent \/ (lost /\ m.id = asked))
        /\ sockets' = [sockets EXCEPT ![s].up = Tail(@)]
        /\ UNCHANGED <<ServerUnchanged, server, breaks, excused>>
        /\ UNCHANGED <<stored, window, tail, inFlight, asked, overtaken>>

\* The overlay logs are those in the server's buffer of events.
resolveOverlayLogsForScope ==
    {n \in 1 .. Newest : \E i \in DOMAIN eventBuffer :
                            eventBuffer[i].seq = n /\ eventBuffer[i].kind = "log"}

\* Those of a process, a host or a project are read from the master.
resolveLogsForQueryContext ==
    IF setting.scope = "overlay" THEN resolveOverlayLogsForScope ELSE 1 .. stored

\* The last lines, from the end: a negative offset.
streamSliceFromEntries(entries, lines) ==
    {n \in entries : Cardinality({m \in entries : m > n}) < lines}

\* The master answers, or fails.
ReadLog(q) ==
    /\ ~q.read
    /\ \E ok \in {TRUE} \union (IF setting.scope = "overlay" THEN {} ELSE {~setting.fails}) :
          queries' = (queries \ {q}) \union
            {[q EXCEPT !.read = TRUE, !.ok = ok,
                       !.lines = IF ok THEN streamSliceFromEntries(resolveLogsForQueryContext, q.tail)
                                 ELSE {}]}
    /\ UNCHANGED <<vars, stored, window, tail, inFlight, asked, unsent, overtaken>>

\* Seeded fault: an error of the master is not answered.
OnlyResults(q) == q.ok

\* A result or an error is sent, whatever has happened.
sendLogsQueryResult(q) == TRUE

Answer(q) ==
    /\ q.read
    /\ queries' = queries \ {q}
    /\ sockets' = IF sendLogsQueryResult(q) /\ sockets[q.socket].browser \in Listening
                  THEN [sockets EXCEPT ![q.socket].down =
                          Append(@, [kind |-> "answer", ok |-> q.ok, lines |-> q.lines])]
                  ELSE sockets
    /\ UNCHANGED <<ServerUnchanged, server, breaks, excused>>
    /\ UNCHANGED <<stored, window, tail, inFlight, asked, unsent, overtaken>>

-----------------------------------------------------------------------------
(* The page.                                                               *)

\* The panel asks; without an open socket nothing is sent, and nothing asks again.
Request(lines, waits) ==
    LET open == ws # NoSocket /\ sockets[ws].browser = "open"
    IN  /\ mounted /\ asked < setting.asks
        /\ asked' = asked + 1 /\ tail' = lines /\ inFlight' = waits /\ unsent' = ~open
        /\ sockets' = IF open THEN [sockets EXCEPT ![ws].up = Append(@, buildLogsQueryMessage(lines))]
                      ELSE sockets
        /\ UNCHANGED <<BrowserUnchanged, page, ws, timers, seen>>
        /\ UNCHANGED <<stored, queries, window, overtaken>>

\* The run is chosen, and no answer is awaited if there was one before; or its host has
\* been listed anew.
requestTailLogWindow ==
    /\ setting.lines > 0
    /\ \E waits \in {TRUE, ~window.loaded} : Request(tail, waits)

\* At the top of the window more is asked for, unless an answer is awaited.
onLogStreamScroll ==
    /\ setting.lines > 0 /\ asked > 0
    /\ ~inFlight /\ tail < setting.tail
    /\ Request(tail + 1, TRUE)

\* A result replaces what is shown; an error leaves it.  Either is noted by the panel.
updateLogsQueryEntries(a) ==
    /\ window' = IF a.ok THEN [records |-> a.lines, events |-> {}, loaded |-> TRUE]
                 ELSE [window EXCEPT !.loaded = TRUE]
    /\ overtaken' = IF a.ok THEN {n \in Handled : \A line \in a.lines : line < n}
                    ELSE overtaken \union (IF window.loaded THEN {} ELSE Handled)

OnAnswer(s) ==
    LET a == Head(sockets[s].down)
    IN  /\ sockets[s].browser = "open" /\ sockets[s].down # <<>> /\ a.kind = "answer"
        /\ sockets' = [sockets EXCEPT ![s].down = Tail(@)]
        /\ updateLogsQueryEntries(a)
        /\ inFlight' = FALSE
        /\ UNCHANGED <<BrowserUnchanged, page, ws, timers, seen>>
        /\ UNCHANGED <<stored, queries, tail, asked, unsent>>

\* Seeded fault: while an answer is awaited, which is to have the line, it is not added.
UnlessAwaited(e) ==
    IF e.kind = "log" /\ window.loaded /\ setting.scope = "process" /\ ~inFlight
    THEN [window EXCEPT !.events = @ \union {e.seq}] ELSE window

\* The line of an event, unless its id is there.  Without a window it is left out, and
\* only the log of a process is added to.
appendManagedProcessLogChunk(e) ==
    IF e.kind = "log" /\ window.loaded /\ setting.scope = "process"
    THEN [window EXCEPT !.events = @ \union {e.seq}] ELSE window

\* An event changes the window, and that is taken for an answer.
EventArrives(s) ==
    /\ OnMessage(s)
    /\ window' = appendManagedProcessLogChunk(Head(sockets[s].down))
    /\ inFlight' = (inFlight /\ window' = window)
    /\ UNCHANGED <<stored, queries, tail, asked, unsent, overtaken>>

\* When the page connects or leaves, what was answered is forgotten.
Forget == window' = NoWindow /\ overtaken' = {}

-----------------------------------------------------------------------------
\* The answers for a socket that is gone go nowhere.
QueriesLeft == {q \in queries : sockets'[q.socket].server # "gone"}

LogInit ==
    /\ Init
    /\ stored = 0 /\ queries = {} /\ window = NoWindow /\ tail = 1
    /\ inFlight = FALSE /\ asked = 0 /\ unsent = FALSE /\ overtaken = {}

\* A step of BrowserFeed that the log has no part in.
FeedStep ==
    /\ \/ \E kind \in Kinds, slow \in SUBSET Sockets :
             /\ setting.lines > 0 => kind = "log" /\ nextEventSequence <= stored
             /\ publishEvent(kind, slow)
       \/ \E s \in Sockets :
             \/ Accept(s) \/ SessionRead(s) \/ Subscribe(s) \/ ServerCloses(s) \/ SocketBreaks(s)
             \/ OnOpen(s) \/ OnClose(s) \/ Refused(s)
       \/ Restart \/ Flush \/ ReconnectTimer \/ DisconnectTimer
    /\ queries' = QueriesLeft
    /\ UNCHANGED <<stored, window, tail, inFlight, asked, unsent, overtaken>>

LogNext ==
    \/ FeedStep
    \/ (Mount \/ Unmount) /\ Forget /\ queries' = QueriesLeft
       /\ UNCHANGED <<stored, tail, inFlight, asked, unsent>>
    \/ StoreLine \/ requestTailLogWindow \/ onLogStreamScroll
    \/ \E q \in queries : ReadLog(q) \/ Answer(q)
    \/ \E s \in Sockets : ReceiveQuery(s) \/ EventArrives(s) \/ OnAnswer(s)

LogSpec == LogInit /\ [][LogNext]_allVars

\* The master answers or fails in the end: the call has a deadline.
LogFairness ==
    /\ WF_allVars(\E q \in queries : ReadLog(q)) /\ WF_allVars(\E q \in queries : Answer(q))
    /\ \A s \in Sockets : WF_allVars(ReceiveQuery(s)) /\ WF_allVars(OnAnswer(s))

FairLogSpec == LogSpec /\ Fairness /\ LogFairness

-----------------------------------------------------------------------------
\* From its first line on, the window of a process has every line whose event the page has handled,
\* over reconnects and however answers and events alternate, but for lines that an
\* answer read before them has removed.  (When the page comes back two sockets may bring
\* the events, see OneSocket, and a repeated line be shown before those that follow it.)
WindowHolds ==
    remounts = 0 /\ setting.lines > 0 /\ setting.scope = "process" /\ window.loaded =>
        \A n \in Handled :
            (\E first \in ShownLines : first <= n) => n \in ShownLines \union overtaken

\* What the panel asks for over an open socket that the server listens to arrives, or an
\* error does, and the panel may ask for more.  (A request without an open socket is
\* dropped, one that comes while the server still looks at the session is lost, and one
\* whose socket breaks is not repeated: the panel then stays as it is, and with a request
\* that awaits its answer it asks for no more.)
WindowArrives ==
    <>[](mounted /\ breaks = 0 /\ remounts = 0 /\ asked > 0 /\ ~unsent
            => window.loaded /\ ~inFlight)
=============================================================================
