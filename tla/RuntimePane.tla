----------------------------- MODULE RuntimePane ----------------------------
(***************************************************************************)
(* A host's processes in a browser page (packages/web/src/features/home):  *)
(* loadSlaveRuntimeBundle and loadSlaveRuntimeTelemetry of                 *)
(* useHomeQueries.js, useRuntimeRegistryActions.js, the effect of          *)
(* HomePageContainer.js that polls, and the buttons of RuntimePanel.js.    *)
(*                                                                         *)
(* A full load asks for several lists at once, each read at a moment of    *)
(* its own, and replaces what the page shows when the last is there; a     *)
(* poll asks for the runs alone.  The user's changes are the requests of   *)
(* DesiredPropagation; a full load follows each.                           *)
(***************************************************************************)
EXTENDS DesiredPropagation

CONSTANTS SlotCount  \* bound: loads under way at once

\* The names of changes tell them apart.
ASSUME PaneAssumption == SlotCount \in Nat /\ Requests \intersect {"none", "kill", "loading"} = {}

VARIABLES
    reported,  \* how often the slave has reported its runs
    pane,      \* what the page shows of the host
    loads      \* loads under way

Slots == 1 .. SlotCount
paneVars == <<vars, reported, pane, loads>>

\* The lists that a load asks for: definitions and deployments, as one; the runs.
Lists == {"desired", "runs"}
AskedBy(kind) ==
    CASE kind = "full" -> Lists
      [] kind = "runs" -> {"runs"}
      [] kind = "none" -> {}

NoLoad == [kind |-> "none", action |-> FALSE, got |-> <<>>]

\* What a query reads of the server.
Read(list) ==
    IF list = "desired"
    THEN [i \in Items |-> IF i[1] = "row" /\ db[i] # None THEN <<db[i].def, db[i].dep>> ELSE db[i]]
    ELSE reported

\* polling: the load of the effect that polls (inFlight), or 0; action: "none", or the
\* change under way; loading, busy, error: the flags of the host; lags: full loads
\* have overlapped, or a change goes on whose answer was lost; opens, fails: how often it was opened, and its requests failed.
FirstPane ==
    [open |-> FALSE, polling |-> 0, action |-> "none", loading |-> FALSE, busy |-> FALSE,
     error |-> FALSE, lags |-> FALSE, shown |-> <<>>, opens |-> 0, fails |-> 0]

ServerSame == UNCHANGED <<vars, reported>>

\* The slot that the next load takes.
Takes(s) == loads[s] = NoLoad /\ \A t \in 1 .. s - 1 : loads[t] # NoLoad

StartLoad(s, kind, action, next) ==
    /\ Takes(s)
    /\ loads' = [loads EXCEPT ![s] = [kind |-> kind, action |-> action, got |-> <<>>]]
    /\ pane' = [next EXCEPT !.loading = @ \/ kind = "full",
                            !.lags = @ \/ (kind = "full" /\ \E t \in Slots : loads[t].kind = "full")]
    /\ ServerSame

\* The host is selected in one of its panels; everything is loaded.
OpenPane(s) ==
    /\ ~pane.open /\ pane.opens < setting.opens
    /\ StartLoad(s, "full", FALSE,
                 [pane EXCEPT !.open = TRUE, !.polling = s, !.opens = @ + 1])

\* The effect is cleaned up; a load goes on.
ClosePane ==
    /\ pane.open
    /\ pane' = [pane EXCEPT !.open = FALSE, !.polling = 0]
    /\ UNCHANGED loads /\ ServerSame

\* Each second, unless the last load of this effect is under way.
Poll(s) ==
    /\ pane.open /\ pane.polling = 0
    /\ StartLoad(s, "runs", FALSE, [pane EXCEPT !.polling = s])

\* The button that loads again.
Refresh(s) ==
    /\ pane.open /\ ~pane.loading /\ ~pane.busy
    /\ StartLoad(s, "full", FALSE, pane)

\* A change: withBusyHostAction.
Pressed(action) ==
    /\ pane.open /\ ~pane.busy
    /\ pane' = [pane EXCEPT !.busy = TRUE, !.error = FALSE, !.action = action]
    /\ UNCHANGED <<loads, reported>>

Press(r) == (\E op \in Ops : Begin(r, op)) /\ UNCHANGED setting /\ Pressed(r)

\* A kill of a run is recorded as a command, and changes no row.
PressKill == Pressed("kill") /\ UNCHANGED vars

\* The change is over in the page.
Over(next) == [next EXCEPT !.busy = FALSE, !.action = "none"]

\* The server has answered: everything is loaded.
ChangeDone(s) ==
    /\ \/ pane.action = "kill"
       \/ pane.action \in Requests /\ tx[pane.action].pc = "done"
    /\ StartLoad(s, "full", TRUE, [pane EXCEPT !.action = "loading"])

\* It failed, or no answer came.
ChangeFails ==
    /\ \/ pane.action \in Requests /\ tx[pane.action].pc = "failed" /\ pane' = Over([pane EXCEPT !.error = TRUE])
       \/ /\ pane.action \notin {"none", "loading"} /\ pane.fails < setting.fails
          /\ pane' = Over([pane EXCEPT !.error = TRUE, !.fails = @ + 1, !.lags = @ \/ pane.action # "kill"])
    /\ UNCHANGED loads /\ ServerSame

ReadList(s) ==
    /\ \E list \in AskedBy(loads[s].kind) \ DOMAIN loads[s].got :
          loads' = [loads EXCEPT ![s].got = With(@, list, Read(list))]
    /\ UNCHANGED pane /\ ServerSame

\* Seeded fault: a poll replaces all that is shown.
ShowsOnly(got) == got

\* The page's entry with the lists of a load: a poll keeps the others.
Merge(got) ==
    [list \in DOMAIN got \union DOMAIN pane.shown |->
        IF list \in DOMAIN got THEN got[list] ELSE pane.shown[list]]

\* Seeded fault: the flag of the effect stays when a load ends.
StaysInFlight(s) == pane.polling

\* finally: the next poll may start.
PollingAfter(s) == IF pane.polling = s THEN 0 ELSE pane.polling

EndLoad(s, next) ==
    LET freed == [next EXCEPT !.loading = IF loads[s].kind = "full" THEN FALSE ELSE @,
                              !.polling = PollingAfter(s)]
    IN  /\ loads' = [loads EXCEPT ![s] = NoLoad]
        /\ pane' = IF loads[s].action THEN Over(freed) ELSE freed
        /\ ServerSame

\* The last answer is there.
Arrive(s) ==
    /\ loads[s].kind # "none" /\ DOMAIN loads[s].got = AskedBy(loads[s].kind)
    /\ EndLoad(s, [pane EXCEPT !.shown = Merge(loads[s].got)])

\* One query fails: nothing is shown of the others.
LoadFails(s) ==
    /\ loads[s].kind # "none" /\ pane.fails < setting.fails
    /\ EndLoad(s, [pane EXCEPT !.error = TRUE, !.fails = @ + 1])

\* The slave reports runs that differ.
Report ==
    /\ reported < setting.reports
    /\ reported' = reported + 1
    /\ UNCHANGED <<vars, pane, loads>>
-----------------------------------------------------------------------------
PaneInit == Init /\ reported = 0 /\ pane = FirstPane /\ loads = [s \in Slots |-> NoLoad]

PaneNext ==
    \/ Next /\ UNCHANGED <<reported, pane, loads>>
    \/ \E s \in Slots : \/ OpenPane(s) \/ Poll(s) \/ Refresh(s) \/ ChangeDone(s)
                        \/ ReadList(s) \/ Arrive(s) \/ LoadFails(s)
    \/ ClosePane \/ (\E r \in Requests : Press(r)) \/ PressKill \/ ChangeFails \/ Report

\* The server as in DesiredPropagation; the timer fires, queries are read and answered.
PaneFairness ==
    /\ Fairness
    /\ \A s \in Slots : WF_paneVars(ReadList(s) \/ Arrive(s))
    /\ WF_paneVars(\E s \in Slots : Poll(s)) /\ WF_paneVars(\E s \in Slots : ChangeDone(s))
    /\ WF_paneVars(ChangeFails)

-----------------------------------------------------------------------------
PaneQuiet == pane.action = "none" /\ \A s \in Slots : loads[s].kind # "full"

\* When no change and no full load is under way and none has failed, the page shows
\* the definitions and deployments that the database holds, whatever polls came in
\* between; unless full loads have overlapped: then the older one may come last, and
\* polls do not repair it (loadSlaveRuntimeBundle has no guard against late answers).
ShowsDatabase ==
    (PaneQuiet /\ ~pane.lags /\ ~pane.error /\ pane.shown # <<>>)
        => "desired" \in DOMAIN pane.shown /\ pane.shown["desired"] = Read("desired")

\* The flags of the page are not left behind (the finally blocks of
\* withBusyHostAction and loadSlaveRuntimeBundle).
PaneFlagsFall == PaneQuiet => ~pane.busy /\ (~pane.lags => ~pane.loading)

PaneTrue == ShowsDatabase /\ PaneFlagsFall

\* A host that stays selected is shown with the runs that its slave reported last,
\* also when older answers arrive late and loads fail.
PaneCatchesUp == []<>(pane.open => "runs" \in DOMAIN pane.shown /\ pane.shown["runs"] = reported)

\* Requests end, and the page catches up.
PaneEnds == RequestsEnd /\ PaneCatchesUp
=============================================================================
