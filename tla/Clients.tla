------------------------------ MODULE Clients -------------------------------
(***************************************************************************)
(* The lifecycle clients beside the records of runs: pcctl and the MCP     *)
(* server, both on CommanderClient of packages/commander-client, and the   *)
(* kills that reach a slave from them.                                     *)
(*                                                                         *)
(* A command is a list of requests, sent one at a time.  Reads are sent    *)
(* again when they fail as a network does; the others never are.  All tool *)
(* calls of an MCP server share one client, and with it the name that the  *)
(* server writes into its audit records.                                   *)
(***************************************************************************)
EXTENDS RunRecords

CONSTANTS
    Callers,      \* tool calls and commands
    ReadRetries   \* READ_RETRY_COUNT

\* None is no result of a command.
ASSUME ClientsAssumption == ReadRetries \in Nat /\ None \notin {"ok", "unmatched"}

VARIABLES
    calls,     \* caller -> its command
    toolName,  \* the name on the requests of the MCP server's client, a caller or None
    kills,     \* kills on their way to the slave, in order
    accepted   \* kills that the server has taken, in order

clientVars == <<calls, toolName, kills, accepted>>
allVars == <<vars, clientVars>>

NoCall == [pc |-> "idle", input |-> None, saved |-> None, alone |-> FALSE, tries |-> 0,
           left |-> <<>>, matched |-> <<>>, result |-> None]
-----------------------------------------------------------------------------
(* The requests of a command.                                              *)

Read(of) == [kind |-> "read", of |-> of, target |-> None]
Ensure == [kind |-> "mutation", of |-> "process", target |-> None]
Kill(target) == [kind |-> "mutation", of |-> "kill", target |-> target]
AskWait == [kind |-> "wait", of |-> "wait", target |-> None]

\* The reads that find out the host and the project: resolveTemplateContext for what
\* goes through a template, resolveHostAndProject for the rest.
ContextOf(input) ==
    CASE input.template /\ input.project /\ (input.host \/ input.hostId) -> <<Read("projects")>>
      [] input.template /\ ~input.project /\ input.host /\ ~input.hostId -> <<Read("hosts")>>
      [] ~input.template /\ ~input.hostId /\ (input.host \/ input.project) -> <<Read("projects")>>
      [] OTHER -> <<>>

\* Nothing is found in the projects for a name that was not given.
Resolves(input, of) ==
    (of = "projects") => (input.project /\ (input.host \/ input.hostId))

WaitOf(input) ==
    IF input.wait THEN ContextOf([input EXCEPT !.template = TRUE]) \o <<AskWait>> ELSE <<>>

RequestsOf(input) ==
    CASE input.what = "list" -> ContextOf(input) \o <<Read("runs")>>
      [] input.what = "kill" -> ContextOf(input) \o <<Kill(input.by)>>
      [] input.what = "ensure" -> ContextOf(input) \o <<Ensure>> \o WaitOf(input)
      [] input.what = "restart" /\ input.template ->
             ContextOf(input) \o <<Read("template")>> \o ContextOf([input EXCEPT !.template = FALSE])
             \o <<Read("runs")>>
      [] input.what = "restart" /\ ~input.template -> ContextOf(input) \o <<Read("runs")>>

\* Seeded fault: a mutation is sent again as well.
RetriesOfAll(request) == ReadRetries

RetriesOf(request) == IF request.kind = "read" THEN ReadRetries ELSE 0

\* Seeded fault: the attempts are not counted.
NextTrySame(tries) == tries

NextTry(tries) == tries + 1

\* observedProcessRuns: the rows of the host.  A row has no project path, so that
\* none is left when the project is named and not the host's id.
Listed(input) == {r \in Newest(rows) : input.hostId /\ Matches(r, input.by)}

LastSeenFirst(found) ==
    CHOOSE s \in [1..Cardinality(found) -> found] :
        \A i, j \in DOMAIN s : i < j => (s[i] # s[j] /\ rows[s[i]].seen >= rows[s[j]].seen)

IsRunning(r) == rows[r].status \notin {"exited", "failed", "killed", "replaced"}
-----------------------------------------------------------------------------
(* Steps of a command.                                                     *)

Set(c, next) == calls' = [calls EXCEPT ![c] = next]
Active(c) == calls[c].pc \notin {"idle", "done"}

\* callTool, or handleCommand of pcctl, which has a client of its own.
StartCall(c, input) ==
    /\ calls[c].pc = "idle"
    /\ input.wait => \A d \in Callers : calls[d].input # None => ~calls[d].input.wait   \* bound: one of them waits
    /\ calls' = [d \in Callers |->
                    IF d = c THEN [NoCall EXCEPT !.pc = "ready", !.input = input, !.saved = toolName,
                                                 !.alone = \A e \in Callers : ~Active(e),
                                                 !.left = RequestsOf(input)]
                    ELSE [calls[d] EXCEPT !.alone = FALSE]]
    /\ toolName' = IF input.cli THEN toolName ELSE c
    /\ UNCHANGED <<vars, kills, accepted>>

NameOn(c) == IF calls[c].input.cli THEN c ELSE toolName

\* The command is over: callTool puts back the name that it found.
Ends(c, result) ==
    /\ Set(c, [calls[c] EXCEPT !.pc = "done", !.result = result])
    /\ toolName' = IF calls[c].input.cli THEN toolName ELSE calls[c].saved

\* graphql: the request leaves under the name that the client has now.  A wait
\* is made at the server as it arrives.
Send(c) ==
    LET request == Head(calls[c].left)
    IN  /\ calls[c].pc = "ready" /\ calls[c].left # <<>>
        /\ Set(c, [calls[c] EXCEPT !.pc = "sent"])
        /\ \/ request.of = "wait" /\ StartWait(calls[c].input.by, <<"status">>)
           \/ UNCHANGED vars
        /\ IF request.of = "kill"
           THEN \* queueProcessKill may be reached, or not
                \E taken \in BOOLEAN :
                    /\ accepted' = IF taken THEN Append(accepted, [call |-> c, target |-> request.target,
                                                               name |-> NameOn(c)]) ELSE accepted
                    /\ kills' = IF taken THEN Append(kills, request.target) ELSE kills
           ELSE UNCHANGED <<kills, accepted>>
        /\ UNCHANGED <<setting, toolName>>

\* Whether the request under way was carried out: a kill of this command, a wait
\* that is over, or anything else.
CarriedOut(c) ==
    LET request == Head(calls[c].left)
    IN  /\ request.of = "wait" => wait.pc = "done"
        /\ request.of = "kill" =>
              \E i \in DOMAIN accepted : accepted[i].call = c /\ accepted[i].target = request.target

\* restartProcess goes on with a kill for each run of the list.
Follows(c) ==
    LET call == calls[c]
        found == IF Head(call.left).of = "runs" /\ call.input.what = "restart"
                 THEN LastSeenFirst({r \in Listed(call.input) : IsRunning(r)}) ELSE <<>>
    IN  [call EXCEPT !.pc = "ready", !.tries = 0, !.matched = @ \o found,
                     !.left = Tail(@) \o [i \in DOMAIN found |-> Kill(found[i])]
                              \o (IF Head(@).of = "runs" /\ call.input.what = "restart"
                                  THEN WaitOf(call.input) ELSE <<>>)]

\* An answer: what was asked for.
Answer(c) ==
    /\ calls[c].pc = "sent" /\ CarriedOut(c)
    /\ IF Resolves(calls[c].input, Head(calls[c].left).of)
       THEN Set(c, Follows(c)) /\ UNCHANGED toolName
       ELSE Ends(c, "error")
    /\ UNCHANGED <<vars, kills, accepted>>

\* The answer is lost or the server was not reached (isTransientGraphQLError): a
\* read waits and is sent again, READ_RETRY_COUNT times.
Fail(c) ==
    /\ calls[c].pc = "sent"
    /\ IF calls[c].tries < RetriesOf(Head(calls[c].left))
       THEN /\ Set(c, [calls[c] EXCEPT !.pc = "delay", !.tries = NextTry(@)])
            /\ UNCHANGED toolName
       ELSE Ends(c, "error")
    /\ UNCHANGED <<vars, kills, accepted>>

\* The server says no.
Refuse(c) ==
    /\ calls[c].pc = "sent"
    /\ Ends(c, "error")
    /\ UNCHANGED <<vars, kills, accepted>>

\* READ_RETRY_DELAY_MS is over.
DelayOver(c) ==
    /\ calls[c].pc = "delay"
    /\ Set(c, [calls[c] EXCEPT !.pc = "ready"])
    /\ UNCHANGED <<vars, toolName, kills, accepted>>

\* Nothing is left to ask; a wait that did not match is exit code 2.
Return(c) ==
    /\ calls[c].pc = "ready" /\ calls[c].left = <<>>
    /\ Ends(c, IF calls[c].input.wait /\ wait.result # "matched" THEN "unmatched" ELSE "ok")
    /\ UNCHANGED <<vars, kills, accepted>>

\* ExecuteKillCommand of the slave takes the process of the run, the key or the
\* pid, so that a kill of an old run hits the present one of its key; or the
\* command is lost on its way.
DeliverKill ==
    /\ kills # <<>>
    /\ kills' = Tail(kills)
    /\ LET hit == {r \in Runs : Held(r) /\ KeyOf[r] = IF Head(kills) \in Runs THEN KeyOf[Head(kills)]
                                                                                 ELSE Head(kills)}
       IN  \/ /\ host' = [r \in Runs |-> IF r \in hit THEN [host[r] EXCEPT !.to = clock] ELSE host[r]]
              /\ UNCHANGED <<clock, known, stream, boot, rows, applies, wait>>
           \/ UNCHANGED vars
    /\ UNCHANGED <<setting, calls, toolName, accepted>>
-----------------------------------------------------------------------------
ClientsInit ==
    /\ Init
    /\ calls = [c \in Callers |-> NoCall]
    /\ toolName = None /\ kills = <<>> /\ accepted = <<>>

CallGoesOn(c) == Send(c) \/ Answer(c) \/ Fail(c) \/ Refuse(c) \/ DelayOver(c) \/ Return(c)

ClientsNext ==
    \/ Next /\ UNCHANGED clientVars
    \/ /\ UNCHANGED setting
       /\ \/ \E c \in Callers, input \in setting.inputs : StartCall(c, input)
          \/ \E c \in Callers : CallGoesOn(c)
          \/ DeliverKill

\* As in RunRecords; the requests of a client are answered or fail.
ClientsSpec ==
    /\ ClientsInit /\ [][ClientsNext]_allVars
    /\ WF_allVars(UNCHANGED <<setting, clientVars>> /\ WaitGoesOn)
    /\ WF_allVars(UNCHANGED <<setting, clientVars>> /\ Tick)
    /\ WF_allVars(UNCHANGED <<setting, clientVars>> /\ ApplyStep)
    /\ \A c \in Callers : WF_allVars(UNCHANGED setting /\ CallGoesOn(c))
-----------------------------------------------------------------------------
\* The server never takes more kills from a command than it set out to send, and
\* none twice, whatever fails (read and graphql of CommanderClient).
KillSentOnce ==
    \A i, j \in DOMAIN accepted :
        accepted[i].call = accepted[j].call /\ accepted[i].target = accepted[j].target => i = j

\* The i-th kill that was taken is a command's, of the n-th run that it found.
IsKillOf(i, c, n) == accepted[i].call = c /\ accepted[i].target = calls[c].matched[n]

\* A restart that was told done has had a kill taken for every recorded run that it
\* found, the last seen first, and no other (restartProcess).
ToldDone ==
    \A c \in Callers : calls[c].result \in {"ok", "unmatched"} /\ calls[c].input.what = "restart" =>
        LET found == DOMAIN calls[c].matched
        IN  /\ \A n \in found : \E i \in DOMAIN accepted : IsKillOf(i, c, n)
            /\ \A i \in DOMAIN accepted : accepted[i].call = c => \E n \in found : IsKillOf(i, c, n)
            /\ \A i, j \in DOMAIN accepted, n, m \in found :
                  i < j /\ IsKillOf(i, c, n) /\ IsKillOf(j, c, m) => n < m

\* A command that no other overlaps is recorded under its own name (callTool).
NamedTruly ==
    \A i \in DOMAIN accepted : calls[accepted[i].call].alone => accepted[i].name = accepted[i].call

CommandsKept == KillSentOnce /\ ToldDone /\ NamedTruly

\* Every wait ends, and every command (waitForRuntime; runCli, callTool).
CallersEnd ==
    /\ []<>(wait.pc \in {"idle", "done"})
    /\ \A c \in Callers : []<>~Active(c)
=============================================================================
