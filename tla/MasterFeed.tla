----------------------------- MODULE MasterFeed -----------------------------
(***************************************************************************)
(* The server's connection to the master:                                  *)
(* packages/server/src/runtime/backends/goMasterRuntimeBackend.js with the *)
(* calls of packages/server/src/agent/masterClient.js.  A probe asks for   *)
(* the master's health every two seconds; a gRPC stream brings its events; *)
(* answers to calls bring the same facts by another way, and may be older  *)
(* than events handled before them.  What is learnt is told to the event   *)
(* sink, which the rest of the server listens to.                          *)
(*                                                                         *)
(* Facts are of two kinds: the state of each slave in the master's         *)
(* registry, and the runtime of a project, which is a version number.      *)
(*                                                                         *)
(* The callbacks of a stream that ends follow one another, and the cancel  *)
(* that caused them, without anything else in between: they are queued     *)
(* with process.nextTick, ahead of every timer and every answer.           *)
(***************************************************************************)
EXTENDS Naturals, Sequences, FiniteSets, TLC

CONSTANTS
    Slaves,
    Settings   \* settings to look at

\* Bounds on the changes of the master's facts, its outages, broken streams or
\* probes that time out, calls of a kind in flight and events queued for a subscriber;
\* whether somebody keeps listing the hosts; whether the server shuts down.
SettingKinds ==
    [changes : Nat, faults : Nat, calls : Nat, queue : Nat,
     watched : BOOLEAN, stops : BOOLEAN]

ASSUME FeedAssumption == Settings \subseteq SettingKinds

VARIABLES
    setting,   \* never changes
    up,        \* the master answers
    faults,    \* faults so far
    sent,      \* numbered events of the master so far
    reg,       \* the master's registry: per slave "gone", "healthy" or "lost"
    run,       \* the master's version of the project's runtime
    streams,   \* calls of SubscribeEvents
    calls,     \* answers the master has given that the server has not handled
    eventStream, eventStreamReconnectTimer, masterConnectionTimer,
    probe,     \* what probeMasterConnectionOnce waits for
    connectionStatus,
    stopRequested,
    trackedSlaveContacts,
    told,      \* the host events the sink got: per slave the last one's status
    cachedRuntime,   \* the version the sink was told last
    last       \* the number of the last event handled

master == <<up, faults, sent, reg, run>>
handles == <<eventStream, eventStreamReconnectTimer>>
slaves == <<trackedSlaveContacts, told>>
vars == <<setting, master, streams, calls, handles, masterConnectionTimer, probe,
          connectionStatus, stopRequested, slaves, cachedRuntime, last>>

Standing == {"gone", "healthy", "lost"}
StreamIds == 1 .. 2
NoStream == 0

\* What is left of a stream: open with events on their way, or the callback
\* that comes next ("expected" is an error with the code CANCELLED).
Free == [st |-> "free", queue |-> <<>>, settled |-> FALSE]
Opened == [st |-> "open", queue |-> <<>>, settled |-> FALSE]
Ticking == \E i \in StreamIds : streams[i].st \in {"error", "expected", "end"}

\* The sink is told of each slave whose entry is set or removed, changed or not.
Contact(map) ==
    /\ trackedSlaveContacts' = map @@ trackedSlaveContacts
    /\ told' = map @@ told

-----------------------------------------------------------------------------
(* The master and its slaves, as far as the server sees them.              *)

\* An event for whoever subscribes; a subscriber that is too slow misses it.
Publish(e) ==
    streams' = [i \in StreamIds |->
        IF streams[i].st = "open" /\ Len(streams[i].queue) < setting.queue
        THEN [streams[i] EXCEPT !.queue = Append(@, e)] ELSE streams[i]]

SlaveEvent(n, s, v) == [n |-> n, slave |-> {s}, run |-> {}, value |-> v]
RunEvent(n, v) == [n |-> n, slave |-> {}, run |-> {"project"}, value |-> v]

\* A command's progress, telemetry, a reconciliation report, log lines.
PassedOn(n) == [n |-> n, slave |-> {}, run |-> {}, value |-> 0]

Unseen == <<setting, calls, handles, masterConnectionTimer, probe,
            connectionStatus, stopRequested, slaves, cachedRuntime, last>>

\* A slave registers, is drained, or is found to be silent.
RegistryChanges(s, v) ==
    /\ up /\ reg[s] # v /\ ~(v = "lost" /\ reg[s] = "gone")
    /\ sent < setting.changes
    /\ sent' = sent + 1 /\ reg' = [reg EXCEPT ![s] = v]
    /\ Publish(SlaveEvent(sent', s, v))
    /\ UNCHANGED <<Unseen, up, faults, run>>

\* A service of the project is started, stopped or exits.
RuntimeChanges ==
    /\ up /\ sent < setting.changes
    /\ sent' = sent + 1 /\ run' = sent'
    /\ Publish(RunEvent(sent', run'))
    /\ UNCHANGED <<Unseen, up, faults, reg>>

OtherHappens ==
    /\ up /\ sent < setting.changes /\ sent' = sent + 1
    /\ Publish(PassedOn(sent'))
    /\ UNCHANGED <<Unseen, up, faults, reg, run>>

\* Heartbeats say again what is known; they carry no number, and one at a time
\* of a slave is on its way.
Heartbeat(s) ==
    /\ up /\ reg[s] = "healthy"
    /\ \E i \in StreamIds :
        /\ streams[i].st = "open" /\ Len(streams[i].queue) < setting.queue
        /\ ~\E j \in DOMAIN streams[i].queue :
              streams[i].queue[j] = SlaveEvent(0, s, "healthy")
    /\ Publish(SlaveEvent(0, s, "healthy"))
    /\ UNCHANGED <<Unseen, master>>

\* The streams break, ended by the master, cancelled by it or with an error;
\* what was queued for them is lost.  The master may go down with them, and
\* when it comes back its slaves have to register again.
StreamsBreak(how, down) ==
    /\ up /\ faults < setting.faults /\ faults' = faults + 1
    /\ up' = ~down /\ reg' = IF down THEN [s \in Slaves |-> "gone"] ELSE reg
    /\ streams' = [i \in StreamIds |->
         IF streams[i].st = "open" THEN [streams[i] EXCEPT !.st = how, !.queue = <<>>]
         ELSE streams[i]]
    /\ UNCHANGED <<Unseen, sent, run>>

MasterReturns ==
    /\ ~up /\ up' = TRUE
    /\ UNCHANGED <<Unseen, faults, sent, reg, run, streams>>

-----------------------------------------------------------------------------
(* Events.                                                                 *)

\* A registration, a heartbeat or a lost contact sets the entry of the slave,
\* a drain removes it; a runtime is told if it differs from the last one told; the rest is passed on.
Handle(e) ==
    /\ last' = IF e.n = 0 THEN last ELSE e.n
    /\ Contact([s \in e.slave |-> e.value])
    /\ cachedRuntime' = IF e.run = {} THEN cachedRuntime ELSE e.value

handleMasterEvent(i) ==
    /\ ~Ticking /\ streams[i].st = "open" /\ streams[i].queue # <<>>
    /\ Handle(Head(streams[i].queue))
    /\ streams' = [streams EXCEPT ![i].queue = Tail(@)]
    /\ UNCHANGED <<setting, master, calls, handles, masterConnectionTimer, probe,
                   connectionStatus, stopRequested>>

-----------------------------------------------------------------------------
(* The stream.                                                             *)

scheduleEventStreamReconnect ==
    eventStreamReconnectTimer' = (eventStreamReconnectTimer \/ ~stopRequested)

\* Called where eventStream is null; a stream to a master that is down fails.
Subscribe ==
    \E i \in StreamIds :
        /\ streams[i].st = "free" /\ \A j \in StreamIds : j < i => streams[j].st # "free"
        /\ streams' = [streams EXCEPT ![i] = [Opened EXCEPT !.st = IF up THEN "open" ELSE "error"]]
        /\ eventStream' = i

connectEventStream ==
    IF stopRequested \/ eventStream # NoStream
    THEN UNCHANGED <<streams, eventStream>> ELSE Subscribe

\* Seeded fault: the stream is forgotten and goes on.
ForgetEventStream == eventStream' = NoStream /\ UNCHANGED streams

clearEventStream ==
    /\ eventStream' = NoStream
    /\ streams' = [i \in StreamIds |->
         IF i = eventStream /\ streams[i].st = "open"
         THEN [streams[i] EXCEPT !.st = "expected", !.queue = <<>>] ELSE streams[i]]

\* Seeded fault: the handle of a stream that has ended is kept.
SettleKeepsHandle(i, reconnect, next) ==
    /\ streams' = [streams EXCEPT ![i] = IF next = "free" THEN Free
                                        ELSE [@ EXCEPT !.st = next, !.settled = TRUE]]
    /\ UNCHANGED eventStream
    /\ IF streams[i].settled \/ ~reconnect
       THEN UNCHANGED eventStreamReconnectTimer ELSE scheduleEventStreamReconnect

\* Only the first callback of a stream settles it.
settleStream(i, reconnect, next) ==
    /\ streams' = [streams EXCEPT ![i] = IF next = "free" THEN Free
                                        ELSE [@ EXCEPT !.st = next, !.settled = TRUE]]
    /\ eventStream' = IF streams[i].settled THEN eventStream ELSE NoStream
    /\ IF streams[i].settled \/ ~reconnect
       THEN UNCHANGED eventStreamReconnectTimer ELSE scheduleEventStreamReconnect

StreamUnchanged == <<setting, master, calls, masterConnectionTimer, probe,
                     stopRequested, slaves, cachedRuntime, last>>

\* gRPC calls back with an error and may then end the stream as well.
OnError(i) ==
    LET quiet == stopRequested \/ streams[i].st = "expected"
    IN  /\ streams[i].st \in {"error", "expected"}
        /\ \E next \in {"end", "free"} : settleStream(i, ~quiet, next)
        /\ connectionStatus' = IF quiet THEN connectionStatus ELSE "reconnecting"
        /\ UNCHANGED StreamUnchanged

\* The end of a stream says "reconnecting" even if an error has settled it.
OnEnd(i) ==
    /\ streams[i].st = "end"
    /\ settleStream(i, ~stopRequested, "free")
    /\ connectionStatus' = IF stopRequested THEN connectionStatus ELSE "reconnecting"
    /\ UNCHANGED StreamUnchanged

ReconnectTimer ==
    /\ ~Ticking /\ eventStreamReconnectTimer
    /\ eventStreamReconnectTimer' = FALSE
    /\ connectEventStream
    /\ UNCHANGED <<StreamUnchanged, connectionStatus>>

-----------------------------------------------------------------------------
(* The probe.                                                              *)

ProbeUnchanged == <<setting, master, calls, stopRequested, slaves, cachedRuntime, last>>

\* Seeded fault: a probe that fails does not come again.
ProbeGivesUp == masterConnectionTimer' = (~stopRequested /\ up)

\* The end of a probe schedules the next one.
scheduleMasterConnectionProbe == masterConnectionTimer' = ~stopRequested

\* The timer fires: a server that is not connected says that it tries again
\* ("connecting" before the first failure).
ProbeTimer ==
    /\ ~Ticking /\ masterConnectionTimer /\ probe = "idle"
    /\ masterConnectionTimer' = FALSE /\ probe' = "health"
    /\ connectionStatus' \in IF connectionStatus = "connected" THEN {"connected"}
                             ELSE {"connecting", "reconnecting"}
    /\ UNCHANGED <<ProbeUnchanged, streams, handles>>

\* The master is healthy.  Its version and capabilities are asked for when the
\* server was not connected and now and then.
ProbeSucceeds ==
    /\ ~Ticking /\ probe = "health" /\ up
    /\ connectionStatus' = "connected"
    /\ connectEventStream
    /\ \/ probe' = "metadata" /\ UNCHANGED masterConnectionTimer
       \/ probe' = "idle" /\ scheduleMasterConnectionProbe
    /\ UNCHANGED <<ProbeUnchanged, eventStreamReconnectTimer>>

refreshMasterMetadata ==
    /\ ~Ticking /\ probe = "metadata"
    /\ probe' = "idle" /\ scheduleMasterConnectionProbe
    /\ UNCHANGED <<ProbeUnchanged, streams, handles, connectionStatus>>

\* The call fails, or times out although the master is there.
ProbeFails ==
    /\ ~Ticking /\ probe = "health"
    /\ IF up THEN faults < setting.faults /\ faults' = faults + 1 ELSE UNCHANGED faults
    /\ connectionStatus' = "reconnecting"
    /\ clearEventStream /\ scheduleEventStreamReconnect
    /\ probe' = "idle" /\ scheduleMasterConnectionProbe
    /\ UNCHANGED <<setting, up, sent, reg, run, calls, stopRequested, slaves, cachedRuntime, last>>

\* Shutting down.  A probe may still be waiting.
Stop ==
    /\ ~Ticking /\ setting.stops /\ ~stopRequested
    /\ stopRequested' = TRUE
    /\ eventStreamReconnectTimer' = FALSE /\ masterConnectionTimer' = FALSE
    /\ clearEventStream
    /\ trackedSlaveContacts' = [s \in Slaves |-> "gone"]
    /\ connectionStatus' = "disconnected"
    /\ UNCHANGED <<setting, master, calls, probe, told, cachedRuntime, last>>

-----------------------------------------------------------------------------
(* Calls.                                                                  *)

CallUnchanged == <<setting, streams, handles, masterConnectionTimer, probe,
                   connectionStatus, stopRequested, last>>

\* The master answers a call with what it knows at the time.
Answer(c) ==
    /\ up /\ Cardinality({d \in calls : d.kind = c.kind}) < setting.calls
    /\ c \notin calls /\ calls' = calls \union {c}

AskHosts ==
    /\ Answer([kind |-> "hosts", reg |-> reg, run |-> 0])
    /\ UNCHANGED <<CallUnchanged, master, slaves, cachedRuntime>>

AskRuntime ==
    /\ Answer([kind |-> "runtime", reg |-> <<>>, run |-> run])
    /\ UNCHANGED <<CallUnchanged, master, slaves, cachedRuntime>>

\* A toggle reads the runtime, starts or stops, and reads it again.
ToggleRuntime ==
    /\ up /\ sent < setting.changes
    /\ sent' = sent + 1 /\ run' = sent'
    /\ Publish(RunEvent(sent', run'))
    /\ Answer([kind |-> "runtime", reg |-> <<>>, run |-> run'])
    /\ UNCHANGED <<setting, handles, masterConnectionTimer, probe, connectionStatus,
                   stopRequested, last, up, faults, reg, slaves, cachedRuntime>>

\* Every slave that is listed is set, every other one that is tracked removed,
\* whatever events have said since the master made the list.
syncTrackedSlavesFromSnapshot(c) ==
    [s \in {s \in Slaves : c.reg[s] # "gone" \/ trackedSlaveContacts[s] # "gone"} |-> c.reg[s]]

HandleHosts(c) ==
    /\ ~Ticking /\ c \in calls /\ c.kind = "hosts" /\ calls' = calls \ {c}
    /\ Contact(syncTrackedSlavesFromSnapshot(c))
    /\ UNCHANGED <<CallUnchanged, master, cachedRuntime>>

HandleRuntime(c) ==
    /\ ~Ticking /\ c \in calls /\ c.kind = "runtime" /\ calls' = calls \ {c}
    /\ cachedRuntime' = c.run
    /\ UNCHANGED <<CallUnchanged, master, slaves>>

-----------------------------------------------------------------------------
Init ==
    /\ setting \in Settings
    /\ up = TRUE /\ faults = 0 /\ sent = 0 /\ run = 0
    /\ reg = [s \in Slaves |-> "gone"]
    /\ streams = [i \in StreamIds |-> Free] /\ calls = {}
    /\ eventStream = NoStream /\ eventStreamReconnectTimer = FALSE
    /\ masterConnectionTimer = TRUE /\ probe = "idle"
    /\ connectionStatus = "connecting" /\ stopRequested = FALSE
    /\ trackedSlaveContacts = reg /\ told = reg
    /\ cachedRuntime = 0 /\ last = 0

Callback == \E i \in StreamIds : OnError(i) \/ OnEnd(i)

Probe == ProbeTimer \/ ProbeSucceeds \/ refreshMasterMetadata \/ ProbeFails

Next ==
    \/ \E s \in Slaves : Heartbeat(s) \/ \E v \in Standing : RegistryChanges(s, v)
    \/ RuntimeChanges \/ OtherHappens \/ MasterReturns
    \/ \E how \in {"error", "expected", "end"}, down \in BOOLEAN : StreamsBreak(how, down)
    \/ \E i \in StreamIds : handleMasterEvent(i)
    \/ Callback \/ ReconnectTimer \/ Probe \/ Stop
    \/ AskHosts \/ AskRuntime \/ ToggleRuntime
    \/ \E c \in calls : HandleHosts(c) \/ HandleRuntime(c)

\* Timers fire, calls are answered, callbacks run, slaves beat.  The page asks
\* for the runtime of the selected project every 1.5 s; hosts are listed again
\* and again only in the settings that say so.
Fairness ==
    /\ WF_vars(Callback) /\ WF_vars(ReconnectTimer) /\ WF_vars(Probe)
    /\ WF_vars(MasterReturns)
    /\ \A i \in StreamIds : WF_vars(handleMasterEvent(i))
    /\ \A s \in Slaves : WF_vars(Heartbeat(s))
    /\ WF_vars(AskRuntime) /\ WF_vars(setting.watched /\ AskHosts)
    /\ WF_vars(\E c \in calls : HandleHosts(c)) /\ WF_vars(\E c \in calls : HandleRuntime(c))

Spec == Init /\ [][Next]_vars

FairSpec == Spec /\ Fairness

-----------------------------------------------------------------------------
\* The sink is given the master's events in their order and none twice, over
\* all the streams that follow one another: no two streams are ever heard.
Feed == INSTANCE GapFeed
ImplementsFeed == Feed!Spec

\* The handle is the stream that is open, and the next attempt is always
\* prepared once: exactly one probe is scheduled or under way while the server
\* runs, and nothing is scheduled or open when it has stopped.
Attended ==
    /\ \A i \in StreamIds : streams[i].st = "open" <=> eventStream = i /\ ~Ticking
    /\ stopRequested => ~masterConnectionTimer /\ ~eventStreamReconnectTimer
    /\ ~stopRequested => (masterConnectionTimer <=> probe = "idle")

\* After any faults the server is connected again, hears the events, and has
\* told the sink what the master knows: of the runtime and of the slaves that
\* are alive, and of those that are gone if somebody lists them.
ToldRight ==
    /\ connectionStatus = "connected" /\ eventStream # NoStream
    /\ cachedRuntime = run
    /\ \A s \in Slaves : reg[s] = "healthy" \/ setting.watched => told[s] = reg[s]

Recovers == <>[](stopRequested \/ ToldRight)
=============================================================================
