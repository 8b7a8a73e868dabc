--------------------------- MODULE CommandDelivery ---------------------------
(***************************************************************************)
(* How a command gets from the master to a slave and its result back.      *)
(*                                                                         *)
(* The master (slave_commands.go, slave_runtime_registry.go and            *)
(* slave_registry.go) keeps a list of pending commands per slave and hands *)
(* all of it out with the answer to a heartbeat.  The slave (main.go) puts *)
(* what it gets into a bounded queue, unless it has seen the command; one  *)
(* worker takes commands from the queue, executes them and reports each    *)
(* result, up to MaxAttempts times.  The main loop of the slave registers  *)
(* again after a heartbeat that failed.                                    *)
(*                                                                         *)
(* A call may be lost, or its answer, or it may reach the master after the *)
(* slave has given up on it.  Slave and master may restart; both keep all  *)
(* of this in memory.  The processes that kill commands aim at come and go *)
(* as OneInstance allows: that is what ProcessManager implements.  State   *)
(* of the master is kept apart per slave, so one slave is modelled.        *)
(***************************************************************************)
EXTENDS Naturals, Sequences, FiniteSets

CONSTANTS
  Keys,         \* process keys
  RunIds,       \* run ids
  KeyOf,        \* the key a run is launched under
  None,         \* "no value"
  Hazards,      \* which of HazardKinds this instance admits
  QueueCap,     \* maxQueuedSlaveCommands
  MaxAttempts,  \* commandReportMaxAttempts
  MaxCommands,  \* bound: commands
  MaxLosses,    \* bound: calls that fail
  MaxRestarts   \* bound: restarts of slave and master, and drains

HazardKinds == {"heartbeat_lost", "result_lost", "slave_restart",
                "master_restart", "drain"}

CommandIds == 1..MaxCommands
\* A kill command names a run, a key or both; a checkout names neither.  A pid
\* names the run that has it.
Command  == [run : RunIds \cup {None}, key : Keys \cup {None}]
Statuses == {"completed", "failed"}

ASSUME DeliveryAssumption ==
  /\ KeyOf \in [RunIds -> Keys]
  /\ Hazards \subseteq HazardKinds
  /\ QueueCap \in Nat /\ MaxAttempts \in Nat \ {0}
  /\ {MaxCommands, MaxLosses, MaxRestarts} \subseteq Nat
  /\ None \notin Keys \cup RunIds \cup Statuses

VARIABLES
  issued,    \* commands queued so far, numbered in the order of the list
  command,   \* what each of them asks
  \* the master
  slave,     \* s.slaves: the status of the slave, or "unknown"
  pending,   \* s.slavePendingCommands
  known,     \* s.slaveCommandsByID, with DispatchedAt
  answers,   \* results published for each command
  \* the main loop of the slave
  registered,
  beat,      \* its heartbeat call
  late,      \* heartbeats it gave up on that are still on their way to the master
  response,  \* commands of the answer it has still to queue
  \* the worker of the slave
  seen,      \* seenCommandAt
  queue,     \* commandQueue
  work,      \* the command it is at, or 0
  result,    \* its result, when it is executed
  attempt,   \* reports of the result that failed
  executed,  \* the commands executed, in that order
  hit,       \* the run each of them stopped
  \* the processes of the host
  instance, used,
  losses, restarts

issueVars  == <<issued, command>>
masterVars == <<slave, pending, known, answers>>
loopVars   == <<registered, beat, late, response>>
workerVars == <<seen, queue, work, result, attempt>>
doneVars   == <<executed, hit>>
hostVars   == <<instance, used>>
faultVars  == <<losses, restarts>>
vars == <<issueVars, masterVars, loopVars, workerVars, doneVars, hostVars,
          faultVars>>

Host == INSTANCE OneInstance

-----------------------------------------------------------------------------
(* Commands enter the list of the master.                                  *)

Checkout == [run |-> None, key |-> None]

Enqueue(c) ==
  /\ issued < MaxCommands
  /\ issued' = issued + 1
  /\ command' = [command EXCEPT ![issued'] = c]
  /\ pending' = Append(pending, issued')
  /\ known' = [known EXCEPT ![issued'] = "queued"]
  /\ UNCHANGED <<slave, answers, loopVars, workerVars, doneVars, hostVars,
                 faultVars>>

\* QueueSlaveKill, which does not ask whether the slave is there.  Callers name a
\* run there has been, its key, or both.
QueueSlaveKill ==
  \E r \in used \cup {None}, k \in Keys \cup {None} :
    /\ r # None \/ k # None
    /\ r # None => k \in {None, KeyOf[r]}
    /\ Enqueue([run |-> r, key |-> k])

\* CheckoutProjectOnSlave, which does.
CheckoutProjectOnSlave == slave = "registered" /\ Enqueue(Checkout)

\* sweepSlaveConnectionHealth: no heartbeat came within the timeout.
Sweep ==
  /\ slave = "registered"
  /\ slave' = "disconnected"
  /\ UNCHANGED <<issueVars, pending, known, answers, loopVars, workerVars,
                 doneVars, hostVars, faultVars>>

\* Seeded fault: the list is left as it is.
ClearedExceptPending == pending' = pending /\ known' = [c \in CommandIds |-> "no"]

\* The master forgets the slave and its commands.
Cleared == pending' = <<>> /\ known' = [c \in CommandIds |-> "no"]

Drain ==
  /\ "drain" \in Hazards
  /\ restarts < MaxRestarts /\ restarts' = restarts + 1
  /\ slave' = "unknown"
  /\ Cleared
  /\ UNCHANGED <<issueVars, answers, loopVars, workerVars, doneVars, hostVars,
                 losses>>

\* A master that starts again knows nobody; calls on their way to it fail.
MasterRestart ==
  /\ "master_restart" \in Hazards
  /\ restarts < MaxRestarts /\ restarts' = restarts + 1
  /\ slave' = "unknown"
  /\ pending' = <<>> /\ known' = [c \in CommandIds |-> "no"]
  /\ late' = 0
  /\ IF beat = "sent" THEN beat' = "idle" /\ registered' = FALSE
     ELSE UNCHANGED <<beat, registered>>
  /\ UNCHANGED <<issueVars, answers, response, workerVars, doneVars, hostVars,
                 losses>>

-----------------------------------------------------------------------------
(* The main loop: registration and heartbeats.                             *)

MayLose(hazard) == hazard \in Hazards /\ losses < MaxLosses /\ losses' = losses + 1

\* register returned without an error.
Register ==
  /\ beat = "idle" /\ ~registered
  /\ slave' = "registered"
  /\ registered' = TRUE
  /\ UNCHANGED <<issueVars, pending, known, answers, beat, late, response,
                 workerVars, doneVars, hostVars, faultVars>>

\* It failed, but may have reached the master.
RegisterFails ==
  /\ beat = "idle" /\ ~registered
  /\ MayLose("heartbeat_lost")
  /\ slave' \in {slave, "registered"}
  /\ UNCHANGED <<issueVars, pending, known, answers, loopVars, workerVars,
                 doneVars, hostVars, restarts>>

SendHeartbeat ==
  /\ beat = "idle" /\ registered
  /\ beat' = "sent"
  /\ UNCHANGED <<issueVars, masterVars, registered, late, response, workerVars,
                 doneVars, hostVars, faultVars>>

\* Seeded fault: the list is handed out without being emptied.
DequeueKeeping == pending' = pending

\* dequeuePendingSlaveCommandsLocked: all of the list goes out.
Dequeue == pending' = <<>>

\* Heartbeat, for a slave the master knows.
HeartbeatHandled ==
  /\ slave # "unknown"
  /\ slave' = "registered"
  /\ Dequeue
  /\ known' = [c \in CommandIds |->
       IF known[c] # "no" /\ (\E i \in DOMAIN pending : pending[i] = c)
       THEN "dispatched" ELSE known[c]]
  /\ answers' = answers

Heartbeat ==
  /\ beat = "sent"
  /\ HeartbeatHandled
  /\ beat' = "answered"
  /\ response' = pending
  /\ UNCHANGED <<issueVars, registered, late, workerVars, doneVars, hostVars,
                 faultVars>>

\* FailedPrecondition: the slave registers again.
HeartbeatRefused ==
  /\ beat = "sent" /\ slave = "unknown"
  /\ beat' = "idle" /\ registered' = FALSE
  /\ UNCHANGED <<issueVars, masterVars, late, response, workerVars, doneVars,
                 hostVars, faultVars>>

\* The slave gives up on a heartbeat: the call is lost, or its answer is, or the
\* call is still on its way.
HeartbeatFails ==
  /\ beat \in {"sent", "answered"}
  /\ MayLose("heartbeat_lost")
  /\ beat' = "idle" /\ registered' = FALSE
  /\ response' = <<>>
  /\ late' \in (IF beat = "sent" THEN {late, late + 1} ELSE {late})
  /\ UNCHANGED <<issueVars, masterVars, workerVars, doneVars, hostVars, restarts>>

\* A heartbeat nobody waits for reaches the master, which hands out what it has.
LateHeartbeat ==
  /\ late > 0
  /\ late' = late - 1
  /\ \/ HeartbeatHandled
     \/ slave = "unknown" /\ UNCHANGED masterVars
  /\ UNCHANGED <<issueVars, registered, beat, response, workerVars, doneVars,
                 hostVars, faultVars>>

\* queueSlaveCommands begins: commands seen commandSeenTTL ago are forgotten.
ReceiveCommands ==
  /\ beat = "answered"
  /\ beat' = IF response = <<>> THEN "idle" ELSE "queueing"
  /\ IF response = <<>> THEN seen' = seen ELSE seen' \in SUBSET seen
  /\ UNCHANGED <<issueVars, masterVars, registered, late, response, queue, work,
                 result, attempt, doneVars, hostVars, faultVars>>

HasRoom == Len(queue) < QueueCap

\* One command of the answer: queued, or skipped as seen, or dropped as the
\* queue is full.
QueueSlaveCommand ==
  LET c == Head(response)
  IN /\ beat = "queueing"
     /\ response' = Tail(response)
     /\ beat' = IF Tail(response) = <<>> THEN "idle" ELSE "queueing"
     /\ IF c \notin seen /\ HasRoom
        THEN queue' = Append(queue, c) /\ seen' = seen \cup {c}
        ELSE UNCHANGED <<queue, seen>>
     /\ UNCHANGED <<issueVars, masterVars, registered, late, work, result,
                    attempt, doneVars, hostVars, faultVars>>

-----------------------------------------------------------------------------
(* The worker.                                                             *)

Fresh == result' = None

TakeCommand ==
  /\ work = 0
  /\ queue # <<>>
  /\ work' = Head(queue)
  /\ queue' = Tail(queue)
  /\ Fresh
  /\ attempt' = 0
  /\ UNCHANGED <<issueVars, masterVars, loopVars, seen, doneVars, hostVars,
                 faultVars>>

\* ExecuteKillCommand: the processes the command may mean, of which the code
\* takes the first it comes to.
Targets(c) == {k \in Keys : /\ instance[k] # None
                            /\ instance[k] = c.run \/ k = c.key}

\* executeSlaveCommand.  What a checkout does to the disk is left out.
Execute ==
  LET c == command[work]
  IN /\ work # 0 /\ result = None
     /\ executed' = Append(executed, work)
     /\ \/ \E k \in Targets(c) :
             /\ hit' = [hit EXCEPT ![work] = instance[k]]
             /\ Host!End({k})
             /\ result' = "completed"
        \/ /\ Targets(c) = {}
           /\ result' \in (IF c = Checkout THEN Statuses ELSE {"failed"})
           /\ UNCHANGED <<hit, hostVars>>
     /\ UNCHANGED <<issueVars, masterVars, loopVars, seen, queue, work, attempt,
                    faultVars>>

\* The list without a command; it is not in the list when it has been handed out.
Without(s, c) == IF \E i \in DOMAIN s : s[i] = c
                 THEN SelectSeq(s, LAMBDA d : d # c) ELSE s

\* ReportCommandResult.
ResultReported ==
  /\ slave' = IF slave = "unknown" THEN "unknown" ELSE "registered"
  /\ known' = [known EXCEPT ![work] = "no"]
  /\ pending' = Without(pending, work)
  /\ answers' = [answers EXCEPT ![work] = @ \cup {result}]

\* Seeded fault: one attempt too few.
LastAttemptEarly == attempt + 1 >= MaxAttempts - 1

LastAttempt == attempt + 1 >= MaxAttempts

ReportResult ==
  /\ work # 0 /\ result # None
  /\ ResultReported
  /\ work' = 0
  /\ UNCHANGED <<issueVars, loopVars, seen, queue, result, attempt, doneVars,
                 hostVars, faultVars>>

\* The report, or its answer, is lost.
ReportFails ==
  /\ work # 0 /\ result # None
  /\ MayLose("result_lost")
  /\ ResultReported \/ UNCHANGED masterVars
  /\ attempt' = attempt + 1
  /\ work' = IF LastAttempt THEN 0 ELSE work
  /\ UNCHANGED <<issueVars, loopVars, seen, queue, result, doneVars, hostVars,
                 restarts>>

\* A slave that starts again has no queue and has seen nothing.
SlaveRestart ==
  /\ "slave_restart" \in Hazards
  /\ restarts < MaxRestarts /\ restarts' = restarts + 1
  /\ registered' = FALSE /\ beat' = "idle" /\ response' = <<>>
  /\ late' \in (IF beat = "sent" THEN {late, late + 1} ELSE {late})
  /\ seen' = {} /\ queue' = <<>> /\ work' = 0 /\ result' = None /\ attempt' = 0
  /\ UNCHANGED <<issueVars, masterVars, doneVars, hostVars, losses>>

-----------------------------------------------------------------------------

\* Processes are launched, end and are replaced by the process manager.
ProcessesChange ==
  /\ \/ \E r \in RunIds : Host!Launch(KeyOf[r], r)
     \/ \E k \in Keys : instance[k] # None /\ Host!End({k})
  /\ UNCHANGED <<issueVars, masterVars, loopVars, workerVars, doneVars, faultVars>>

Init ==
  /\ issued = 0 /\ command = [c \in CommandIds |-> Checkout]
  /\ slave = "unknown" /\ pending = <<>>
  /\ known = [c \in CommandIds |-> "no"] /\ answers = [c \in CommandIds |-> {}]
  /\ registered = FALSE /\ beat = "idle" /\ late = 0 /\ response = <<>>
  /\ seen = {} /\ queue = <<>> /\ work = 0 /\ result = None /\ attempt = 0
  /\ executed = <<>> /\ hit = [c \in CommandIds |-> None]
  /\ Host!Init
  /\ losses = 0 /\ restarts = 0

MainLoop == \/ Register \/ SendHeartbeat \/ HeartbeatRefused \/ ReceiveCommands
            \/ QueueSlaveCommand
Worker == TakeCommand \/ Execute \/ ReportResult

Next ==
  \/ QueueSlaveKill \/ CheckoutProjectOnSlave
  \/ MainLoop \/ Heartbeat \/ Worker
  \/ RegisterFails \/ HeartbeatFails \/ LateHeartbeat \/ ReportFails
  \/ Sweep \/ Drain \/ MasterRestart \/ SlaveRestart
  \/ ProcessesChange

Spec == Init /\ [][Next]_vars

\* The two goroutines of the slave go on, and the master serves its calls.
FairSpec == /\ Spec
            /\ WF_vars(MainLoop) /\ WF_vars(Heartbeat) /\ WF_vars(Worker)

-----------------------------------------------------------------------------
(* Properties.                                                             *)

\* The type of every variable.
TypeOK ==
  /\ issued \in 0..MaxCommands /\ command \in [CommandIds -> Command]
  /\ slave \in {"unknown", "registered", "disconnected"}
  /\ pending \in Seq(CommandIds) /\ response \in Seq(CommandIds)
  /\ known \in [CommandIds -> {"no", "queued", "dispatched"}]
  /\ answers \in [CommandIds -> SUBSET Statuses]
  /\ registered \in BOOLEAN /\ late \in Nat
  /\ beat \in {"idle", "sent", "answered", "queueing"}
  /\ seen \subseteq CommandIds
  /\ queue \in Seq(CommandIds) /\ Len(queue) <= QueueCap
  /\ work \in CommandIds \cup {0}
  /\ result \in Statuses \cup {None} /\ attempt \in Nat
  /\ executed \in Seq(CommandIds)
  /\ hit \in [CommandIds -> RunIds \cup {None}]
  /\ instance \in [Keys -> RunIds \cup {None}] /\ used \subseteq RunIds
  /\ losses \in Nat /\ restarts \in Nat

Promise == INSTANCE CommandPromise

\* Commands are run at most once and in the order in which they were queued,
\* whatever is lost, late or restarted.
RunInOrderOnce == Promise!Spec

\* The master has a record of a command as queued exactly while it is in its
\* list: what it has handed out, forgotten or drained is not handed out again.
QueuedIsPending ==
  \A c \in CommandIds :
    known[c] = "queued" <=> \E i \in DOMAIN pending : pending[i] = c

\* A result that is published is that of the execution of the very command: it
\* was executed, a kill that hit a process completed, one that did not failed, and
\* a repeated report does not contradict the first.
AnswersAreTrue ==
  \A c \in CommandIds : answers[c] # {} =>
    /\ \E i \in DOMAIN executed : executed[i] = c
    /\ Cardinality(answers[c]) = 1
    /\ command[c] # Checkout => ("completed" \in answers[c] <=> hit[c] # None)

\* What the master says of a command is right, in its list and in its answers.
MasterIsRight == QueuedIsPending /\ AnswersAreTrue

\* When only reports of results get lost, and fewer of them than there are
\* attempts, each command is answered and the master forgets it.
EachIsAnswered ==
  \A c \in CommandIds :
    issued >= c ~> answers[c] # {} /\ known[c] = "no"

=============================================================================
