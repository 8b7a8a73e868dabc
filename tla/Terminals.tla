----------------------------- MODULE Terminals ------------------------------
(***************************************************************************)
(* Terminals on hosts: terminalSessionManager.js of packages/server/src    *)
(* and the terminal operations of index.js, beside the catalog of hosts.   *)
(*                                                                         *)
(* A session is a child of the server that holds a remote shell; its       *)
(* status changes only when the child's close event comes.  A row may be   *)
(* deleted while its session goes on.  Nothing of it outlives the server.  *)
(***************************************************************************)
EXTENDS HostCatalog

VARIABLES
    sessions    \* sessionsById, in the order in which they were started

ofTerminals == <<setting, master, table, calls, jobs, attempted, passwords, connected, up>>

\* status as in the code, or "lost" with its server; the child runs, is dead, or is
\* known to be dead; whether it was asked to end and the timer for it is set.
NewSession(h) == [host |-> h, status |-> "active", shell |-> "up", asked |-> FALSE, timer |-> FALSE]

\* sessionIdByHostId: the session that was started last; 0 if there is none.
SessionOf(h) ==
    LET its == {n \in DOMAIN sessions : sessions[n].host = h /\ sessions[n].status # "lost"}
    IN  IF its = {} THEN 0 ELSE CHOOSE n \in its : \A m \in its : m <= n

Reuses(h) == SessionOf(h) # 0 /\ sessions[SessionOf(h)].status = "active"

\* The sessions after a request to start one, and the one that is told.
startSession(h) == IF Reuses(h) THEN sessions ELSE Append(sessions, NewSession(h))
Started(h) == IF Reuses(h) THEN SessionOf(h) ELSE Len(sessions) + 1

Lost == [n \in DOMAIN sessions |-> [sessions[n] EXCEPT !.status = "lost", !.timer = FALSE]]

\* The shell ends: it exits, its connection breaks or it could not be started.
ShellDies(n) ==
    /\ sessions[n].status = "active" /\ sessions[n].shell = "up"
    /\ sessions' = [sessions EXCEPT ![n].shell = "dead"]
    /\ UNCHANGED ofTerminals

\* The server learns of it: nothing can be written to the child any more.
Reap(n) ==
    /\ sessions[n].status = "active" /\ sessions[n].shell = "dead"
    /\ sessions' = [sessions EXCEPT ![n].shell = "reaped"]
    /\ UNCHANGED ofTerminals

\* closeSession: the child's close or error event.
CloseArrives(n) ==
    /\ sessions[n].status = "active" /\ sessions[n].shell = "reaped"
    /\ sessions' = [sessions EXCEPT ![n].status = "closed", ![n].timer = FALSE]
    /\ UNCHANGED ofTerminals

\* A write to a dead child is an error event on its input, which nobody listens to:
\* it ends the server, unless the child is reaped first.
Write(n, written) ==
    \/ sessions[n].shell # "reaped" /\ sessions' = written /\ UNCHANGED ofTerminals
    \/ /\ sessions[n].shell = "dead"
       /\ Crash /\ sessions' = Lost
       /\ UNCHANGED <<setting, master, table, prompts, accepted>>

\* sendInput; refused when the session is closed or the child is reaped.
sendInput(n) ==
    /\ up /\ sessions[n].status = "active"
    /\ Write(n, sessions)

\* Seeded fault: no timer is set.
KillTimerOff == FALSE

KillTimer == TRUE

\* closeSessionById: the shell is asked to exit, and killed 1.2 s later.
closeSessionById(n) ==
    /\ "close" \in setting.does
    /\ up /\ sessions[n].status = "active"
    /\ LET written == [sessions EXCEPT ![n].asked = TRUE, ![n].timer = KillTimer]
       IN  \/ Write(n, written)
           \/ sessions[n].shell = "reaped" /\ sessions' = written /\ UNCHANGED ofTerminals

KillAfterDelay(n) ==
    /\ sessions[n].timer
    /\ sessions' = [sessions EXCEPT ![n].timer = FALSE,
                                    ![n].shell = IF @ = "up" THEN "dead" ELSE @]
    /\ UNCHANGED ofTerminals

TerminalStep ==
    \E n \in DOMAIN sessions :
        ShellDies(n) \/ Reap(n) \/ CloseArrives(n) \/ closeSessionById(n) \/ KillAfterDelay(n)

\* A step of the catalog; a server that ends takes its sessions with it.
CatalogStep == Next /\ sessions' = IF up' THEN sessions ELSE Lost
=============================================================================
