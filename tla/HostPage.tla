------------------------------ MODULE HostPage ------------------------------
(***************************************************************************)
(* The hosts and their terminals in a browser page (packages/web/src/      *)
(* features/home): loadHosts of useHomeQueries.js, useHostActions.js,      *)
(* useTerminalActions.js and the effect of HomePageContainer.js that opens *)
(* a terminal.                                                             *)
(*                                                                         *)
(* The page keeps maps from hosts to sessions, flags and inputs.  An       *)
(* operation holds the maps of the render it was made in and writes them   *)
(* back whole, changed at its host.  loadHosts is made once, with the maps *)
(* of the first render, which are empty: it empties all of them.           *)
(***************************************************************************)
EXTENDS Terminals

CONSTANTS SlotCount  \* bound: operations under way at once

ASSUME HostPageAssumption == SlotCount \in Nat

Slots == 1 .. SlotCount

VARIABLES
    page,      \* what the page shows
    ops        \* operations of the page

allVars == <<vars, sessions, page, ops>>

KeptIds == UNION {1 .. s.kept : s \in Settings}

Missing == [id |-> 0, known |-> FALSE]     \* no entry in terminalSessionByHostId
NoSession == [id |-> 0, known |-> TRUE]
Shown(n) == [id |-> n, known |-> TRUE]

Flags == {"start", "send", "work"}   \* ..StartingByHostId, ..SendingByHostId, ..MutationBusyByHostId

NoOp == [kind |-> "none", host |-> 0, pc |-> "idle", entry |-> <<>>, flag |-> {}, got |-> 0, list |-> {}]

\* The page when it has listed the hosts.
FirstPage ==
    [listed |-> 1 .. setting.kept, entry |-> [h \in HostIds |-> Missing], flags |-> [f \in Flags |-> {}],
     panel |-> 0, due |-> FALSE, error |-> FALSE, crossed |-> FALSE]

Free(s) == ops[s].kind = "none"
ServerSame == UNCHANGED <<vars, sessions>>

\* Effects run before anything else happens in the page.
Settled == page.due => \A s \in Slots : ~Free(s)
-----------------------------------------------------------------------------
(* Operations.                                                             *)

\* An operation is made with the maps of this render: its flag is set and its
\* request sent.  crossed: operations of two hosts have overlapped.
Begin(s, kind, h, due) ==
    /\ Free(s) /\ \A t \in 1 .. s - 1 : ~Free(t)
    /\ ops' = [ops EXCEPT ![s] = [kind |-> kind, host |-> h, pc |-> "sent", 
                                  entry |-> IF kind \in {"load", "start"} THEN page.entry ELSE <<>>,
                                  flag |-> IF kind \in Flags THEN page.flags[kind] ELSE {},
                                  got |-> IF kind = "send" THEN page.entry[h].id ELSE 0, list |-> {}]]
    /\ page' = [page EXCEPT !.flags = [f \in Flags |-> IF f = kind THEN @[f] \union {h} ELSE @[f]],
                            !.error = IF kind \in Flags THEN FALSE ELSE @,
                            !.due = due \/ kind = "start",
                            !.crossed = @ \/ \E t \in Slots : ops[t].host \notin {0, h}]
    /\ ServerSame

\* The effect of the terminal panel: the session of the host is asked for, then one
\* is started.
RunEffect(s) ==
    LET h == page.panel
    IN  /\ page.due
        /\ CASE h # 0 /\ ~page.entry[h].known -> Begin(s, "load", h, FALSE)
             [] h # 0 /\ page.entry[h] = NoSession /\ h \notin page.flags["start"] ->
                    Begin(s, "start", h, FALSE)
             [] OTHER -> /\ page' = [page EXCEPT !.due = FALSE]
                         /\ UNCHANGED ops /\ ServerSame

\* The user selects a host, or leaves the panel.
OpenPanel(h) ==
    /\ Settled /\ h \in page.listed \union {0}
    /\ h # page.panel
    /\ page' = [page EXCEPT !.panel = h, !.due = TRUE]
    /\ UNCHANGED ops /\ ServerSame

UserOps == {"hosts", "start", "send", "work", "delete"}

\* What a user does to the host on the page: a session is started by hand, a line
\* is sent, a directory added or removed or a project checked out, a row deleted;
\* the list is loaded again.
UserBegins(s, kind, h) ==
    /\ Settled
    /\ CASE kind = "hosts" -> h = 0
         [] kind = "send" -> h = page.panel /\ h # 0 /\ page.entry[h].id # 0
         [] kind = "start" -> h = page.panel /\ h # 0
         [] OTHER -> h \in page.listed
    /\ Begin(s, kind, h, page.due)

Becomes(s, next) == ops' = [ops EXCEPT ![s] = next] /\ UNCHANGED page

\* The server carries the request out.
Handle(s) ==
    LET op == ops[s]
        answered == [op EXCEPT !.pc = "answered"]
    IN  /\ up
        /\ CASE op.pc = "list" \/ (op.pc = "sent" /\ op.kind = "hosts") ->
                  Becomes(s, [answered EXCEPT !.list = DOMAIN rows]) /\ ServerSame
             [] op.pc = "sent" /\ op.kind = "load" /\ op.host \in DOMAIN rows ->
                  Becomes(s, [answered EXCEPT !.got = SessionOf(op.host)]) /\ ServerSame
             [] op.pc = "sent" /\ op.kind = "start" /\ op.host \in DOMAIN rows ->
                  /\ Len(startSession(op.host)) <= setting.sessions
                  /\ sessions' = startSession(op.host)
                  /\ Becomes(s, [answered EXCEPT !.got = Started(op.host)])
                  /\ UNCHANGED vars
             [] op.pc = "sent" /\ op.kind = "send" ->
                  sendInput(op.got) /\ Becomes(s, answered)
             [] op.pc = "sent" /\ op.kind = "work" ->
                  Becomes(s, [op EXCEPT !.pc = "list"]) /\ ServerSame
             [] op.pc = "sent" /\ op.kind = "delete" /\ op.host \in DOMAIN rows ->
                  DeleteHost(op.host) /\ Becomes(s, [op EXCEPT !.pc = "list"]) /\ UNCHANGED sessions
             [] OTHER -> FALSE

\* The request is refused, or there is no answer.
HandleFails(s) ==
    /\ ops[s].pc \in {"sent", "list"}
    /\ Becomes(s, [ops[s] EXCEPT !.pc = "failed"])
    /\ ServerSame

\* Seeded fault: the flag is taken back only when all went well.
FlagAfterLate(op) == IF op.pc = "failed" THEN op.flag \union {op.host} ELSE op.flag \ {op.host}

\* finally: the flags that the operation holds, without its own.
FlagAfter(op) == op.flag \ {op.host}

\* The entries that the operation holds, with the session it was told.
EntriesAfter(op) == [op.entry EXCEPT ![op.host] = Shown(op.got)]

\* The answer reaches the page.
Receive(s) ==
    LET op == ops[s]
        listed == op.kind \in {"hosts", "work", "delete"} /\ op.pc = "answered"
        flags == IF listed THEN [f \in Flags |-> {}] ELSE page.flags
    IN  /\ Settled /\ op.pc \in {"answered", "failed"}
        /\ ops' = [ops EXCEPT ![s] = NoOp]
        /\ page' = [page EXCEPT
              !.listed = IF listed THEN op.list ELSE @,
              !.panel = IF listed /\ @ \notin op.list THEN 0 ELSE @,
              !.entry = CASE listed -> [h \in HostIds |-> Missing]
                          [] op.pc = "answered" /\ op.kind \in {"load", "start"} -> EntriesAfter(op)
                          [] OTHER -> @,
              !.flags = IF op.kind \in Flags THEN [flags EXCEPT ![op.kind] = FlagAfter(op)] ELSE flags,
              !.error = @ \/ op.pc = "failed",
              !.due = @ \/ op.pc = "answered" \/ op.kind = "start"]
        /\ ServerSame
-----------------------------------------------------------------------------
PageInit == Init /\ sessions = <<>> /\ page = FirstPage /\ ops = [s \in Slots |-> NoOp]

OpStep(s) == ~Free(s) /\ (Handle(s) \/ HandleFails(s) \/ Receive(s))

PageNext ==
    \/ (CatalogStep \/ TerminalStep) /\ UNCHANGED <<page, ops>>
    \/ \E s \in Slots :
         \/ RunEffect(s) \/ OpStep(s)
         \/ \E kind \in setting.does \intersect UserOps, h \in HostIds \union {0} :
               UserBegins(s, kind, h)
    \/ setting.kept > 0 /\ \E h \in HostIds \union {0} : OpenPanel(h)

\* Deployments and timers as in HostCatalog; the events of children and the timers
\* of the server come; requests are answered or fail; effects run.
PageSpec ==
    /\ PageInit /\ [][PageNext]_allVars
    /\ CatalogFairness
    /\ \A n \in SessionIds :
         /\ WF_allVars(n \in DOMAIN sessions /\ (Reap(n) \/ CloseArrives(n)) /\ UNCHANGED <<page, ops>>)
         /\ WF_allVars(n \in DOMAIN sessions /\ KillAfterDelay(n) /\ UNCHANGED <<page, ops>>)
    /\ \A s \in Slots : WF_allVars(OpStep(s))
    /\ WF_allVars(page.due /\ \E s \in Slots : RunEffect(s))
-----------------------------------------------------------------------------
\* A host has one terminal at a time: one session is active (startSession).
OneTerminal ==
    \A m, n \in DOMAIN sessions :
        (sessions[m].host = sessions[n].host /\ sessions[m].status = "active"
           /\ sessions[n].status = "active") => m = n

\* A flag of the page means an operation under way, unless operations of two hosts
\* have overlapped (the finally blocks of useHostActions and useTerminalActions).
FlagsFall ==
    (~page.crossed /\ \A s \in Slots : Free(s)) => \A f \in Flags : page.flags[f] = {}

PageHonest == OneTerminal /\ FlagsFall

\* A session that was asked to close is closed (closeSessionById).
CloseEnds ==
    \A n \in SessionIds :
        LET closing == n \in DOMAIN sessions /\ sessions[n].asked /\ sessions[n].status = "active"
        IN  []<>~closing

\* The panel of a host gets a session or says what is wrong, also when the list of
\* hosts empties the maps under it (effect of HomePageContainer 888-922).
TerminalShown ==
    \A h \in KeptIds :
        []<>(page.panel # h \/ page.entry[h].id # 0 \/ page.error \/ page.crossed)

PanelEnds == CloseEnds /\ TerminalShown
=============================================================================
