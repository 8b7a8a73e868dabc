----------------------------- MODULE RunRecords -----------------------------
(***************************************************************************)
(* What the server records of the runs that the slaves observe, and how    *)
(* long a caller waits for it: applySlaveRuntimeState of                   *)
(* packages/server/src/runtime/processRegistry.js and waitForRuntime of    *)
(* packages/server/src/runtimeWait.js.                                     *)
(*                                                                         *)
(* A report lists the runs that the slave holds.  The master keeps the     *)
(* last one and streams it to the server, which starts a transaction for   *)
(* each report it gets and does not wait for the one before.  A wait reads *)
(* the rows again and again until a check matches or its time is over.     *)
(***************************************************************************)
EXTENDS Naturals, Sequences, FiniteSets

CONSTANTS
    NumRuns,      \* bound: runs ever launched, numbered in that order
    KeyOf,        \* run -> its process key, which is its package key
    None,
    RunLimit,     \* SLAVE_RUNTIME_PROCESS_RUN_LIMIT
    Settings      \* settings to look at

Runs == 1..NumRuns
Keys == {KeyOf[r] : r \in Runs}

\* A command of a client (module Clients): what is asked for, a run or a key, what
\* its host and project are named by, whether by pcctl, and whether to wait.
Inputs ==
    [what : {"list", "restart", "kill", "ensure"}, by : Runs \union Keys, hostId : BOOLEAN,
     host : BOOLEAN, project : BOOLEAN, template : BOOLEAN, cli : BOOLEAN, wait : BOOLEAN]

\* Bounds on the runs, the time, the reports that are applied at once and those
\* in the stream; the lists of checks of a wait, its timeout, its interval and how late its
\* timers fire.
SettingKinds ==
    [runs : 0..NumRuns, clock : Nat, applies : Nat, stream : Nat,
     checks : SUBSET Seq({"status", "exit", "log", "remote", "bad"}),
     timeout : Nat, interval : Nat \ {0}, lag : Nat,
     inputs : SUBSET Inputs]

ASSUME RecordsAssumption ==
    /\ {NumRuns, RunLimit} \subseteq Nat
    /\ KeyOf \in Seq(Keys) /\ Len(KeyOf) = NumRuns
    /\ None \notin Nat \union Keys /\ Keys \cap Nat = {}
    /\ Settings \subseteq SettingKinds

VARIABLES
    setting,  \* never changes
    clock,
    host,     \* run -> [from, to]: since when and until when the slave holds it
    known,    \* the report that the master holds, or None
    stream,   \* reports on their way to the server, in order
    boot,     \* the bootstrap of the server, and the report that it got
    rows,     \* process_runs, committed: run -> None or its row
    applies,  \* transactions that apply reports
    wait      \* a caller of waitForRuntime

vars == <<setting, clock, host, known, stream, boot, rows, applies, wait>>

Min2(a, b) == IF a < b THEN a ELSE b
-----------------------------------------------------------------------------
(* The slave and the master.                                               *)

Held(r) == host[r].from # None /\ host[r].to = None
Reports == [at : 0..setting.clock, runs : SUBSET Runs]
Row == [status : {"running"}, seen : 0..setting.clock, code : {None}]

\* One run of a key at a time; a new one comes after the last report.
Launch(r) ==
    /\ r <= setting.runs /\ host[r].from = None
    /\ \A s \in Runs : s < r => host[s].from # None
    /\ \A s \in Runs : KeyOf[s] = KeyOf[r] => ~Held(s)
    /\ host' = [host EXCEPT ![r].from = clock]
    /\ UNCHANGED <<clock, known, stream, boot, rows, applies, wait>>

\* The slave notices the end of a run and drops it.  Its exit status is in
\* a change of the reconciliation report, which the server only counts.
Exit(r) ==
    /\ Held(r)
    /\ host' = [host EXCEPT ![r].to = clock]
    /\ UNCHANGED <<clock, known, stream, boot, rows, applies, wait>>

\* Time passes; the timer of a sleeping wait fires at most a lag late.
MayPass == clock < setting.clock /\ (wait.pc = "sleep" => clock < wait.wake + setting.lag)

\* A report takes time: the next one is later.  It may get lost between master
\* and server while the event stream is down.
Report ==
    LET report == [at |-> clock, runs |-> {r \in Runs : Held(r)}]
    IN  /\ MayPass
        /\ clock' = clock + 1
        /\ known' = report
        /\ stream' \in {stream} \union (IF Len(stream) < setting.stream THEN {Append(stream, report)} ELSE {})
        /\ UNCHANGED <<host, boot, rows, applies, wait>>

-----------------------------------------------------------------------------
(* Applying reports.                                                       *)

\* The first of the observed runs to go through: the slave sorts them by key.
NextOf(todo) == CHOOSE r \in todo : \A s \in todo : r <= s

Apply(report) == [report |-> report, todo |-> report.runs, read |-> <<>>, mine |-> <<>>]

\* Seeded fault: the time of the server instead of the slave's.
RowOfNow(report) == [status |-> "running", seen |-> clock, code |-> None]

\* The row that findOrCreateProcessRunForObservedRun writes: status "running" as
\* every observed run has, no exit code, and when the slave saw it last.
RowOf(report) == [status |-> "running", seen |-> report.at, code |-> None]

\* emitRuntimeEvent starts the transaction and goes on to the next event.
ReceiveEvent ==
    /\ stream # <<>>
    /\ Cardinality(applies) < setting.applies
    /\ applies' = applies \union {Apply(Head(stream))}
    /\ stream' = Tail(stream)
    /\ UNCHANGED <<clock, host, known, boot, rows, wait>>

\* At its start the server asks the master for the last report, because the
\* stream does not repeat it, and applies the answer when it comes.
AskMaster ==
    /\ boot.pc = "idle" /\ known # None
    /\ boot' = [pc |-> "asked", report |-> known]
    /\ UNCHANGED <<clock, host, known, stream, rows, applies, wait>>

AnswerArrives ==
    /\ boot.pc = "asked"
    /\ Cardinality(applies) < setting.applies
    /\ applies' = applies \union {Apply(boot.report)}
    /\ boot' = [pc |-> "done", report |-> None]
    /\ UNCHANGED <<clock, host, known, stream, rows, wait>>

Becomes(t, next) ==
    /\ applies' = (applies \ {t}) \union {next}
    /\ UNCHANGED <<clock, host, known, stream, boot, rows, wait>>

View(t) == [r \in Runs |-> IF r \in DOMAIN t.mine THEN t.mine[r] ELSE rows[r]]
WithRow(table, r, row) == [s \in DOMAIN table \union {r} |-> IF s = r THEN row ELSE table[s]]

\* findOne by run id.
FindRun(t) ==
    /\ t.todo # {} /\ t.read = <<>>
    /\ Becomes(t, [t EXCEPT !.read = <<View(t)[NextOf(t.todo)]>>])

\* update of the columns that differ from what was read, or create under the
\* unique index on run_id; either waits for whoever has written the row.
WriteRun(t) ==
    LET r == NextOf(t.todo)
        row == RowOf(t.report)
        differs == t.read # <<row>>
        next == [t EXCEPT !.todo = @ \ {r}, !.read = <<>>]
    IN  /\ t.todo # {} /\ t.read # <<>>
        /\ differs => \A u \in applies \ {t} : r \notin DOMAIN u.mine
        /\ IF t.read = <<None>> /\ View(t)[r] # None
           THEN /\ applies' = applies \ {t}      \* refused: rolled back, logged
                /\ UNCHANGED <<clock, host, known, stream, boot, rows, wait>>
           ELSE Becomes(t, [next EXCEPT !.mine = IF differs THEN WithRow(@, r, row) ELSE @])

\* The samples of the report are written with it, and the transaction commits.
CommitApply(t) ==
    /\ t.todo = {}
    /\ rows' = View(t)
    /\ applies' = applies \ {t}
    /\ UNCHANGED <<clock, host, known, stream, boot, wait>>

-----------------------------------------------------------------------------
(* waitForRuntime.                                                         *)

NoWait == [pc |-> "idle", by |-> None, checks |-> <<>>, since |-> 0, deadline |-> 0, wake |-> 0,
           i |-> 0, checked |-> None, view |-> <<>>, result |-> None, picked |-> None]

\* Seeded fault: the order of the rows is turned round.
NewestLast(view) ==
    {r \in DOMAIN view : view[r] # None /\
        Cardinality({s \in DOMAIN view : view[s] # None /\ view[s].seen < view[r].seen}) < RunLimit}

\* The newest rows, at most RunLimit of them: getSlaveRuntimeState.
Newest(view) ==
    {r \in DOMAIN view : view[r] # None /\
        Cardinality({s \in DOMAIN view : view[s] # None /\ view[s].seen > view[r].seen}) < RunLimit}

\* runMatchesInput.  A row has no column for the process key: a key is compared
\* with the package key.
Matches(r, by) == IF by \in Runs THEN r = by ELSE KeyOf[r] = by

\* selectObservedRun: the first that matches, the last seen first.
Selected(view, by) ==
    LET found == {r \in Newest(view) : Matches(r, by)}
    IN  IF found = {} THEN None
        ELSE CHOOSE r \in found : \A s \in found : view[s].seen <= view[r].seen

TerminalStatuses == {"exited", "failed", "killed", "replaced", "stopped"}

\* evaluateProcessStatusCheck and evaluateCommandExitCheck, on rows; the logs and
\* remote services answer as they like.
Outcomes(kind, view, r) ==
    CASE kind = "status" -> {r # None /\ view[r].status = "running"}
      [] kind = "exit" -> {r # None /\ view[r].status \in TerminalStatuses /\ view[r].code = 0}
      [] kind \in {"log", "remote"} -> BOOLEAN
      [] kind = "bad" -> {FALSE}

WaitStep(next) ==
    /\ wait' = next
    /\ UNCHANGED <<clock, host, known, stream, boot, rows, applies>>

\* resolveChecks; a wait is made when the bounded clock leaves it its time.
StartWait(by, checks) ==
    /\ wait.pc = "idle"
    /\ clock + setting.timeout + setting.lag <= setting.clock
    /\ WaitStep([NoWait EXCEPT !.pc = "load", !.by = by, !.checks = checks, !.since = clock,
                               !.deadline = clock + setting.timeout])

LoadState ==
    /\ wait.pc = "load"
    /\ WaitStep([wait EXCEPT !.pc = "check", !.i = 1, !.view = rows])

Finish(result, picked) ==
    WaitStep([wait EXCEPT !.pc = "done", !.result = result, !.picked = picked, !.wake = 0, !.i = 0,
                          !.checked = IF wait.pc = "check" THEN clock ELSE @])

\* Until when to sleep after a round.
WakeAt == Min2(clock + setting.interval, wait.deadline)

AfterRound ==
    IF clock >= wait.deadline THEN Finish("timeout", None)
    ELSE WaitStep([wait EXCEPT !.pc = "sleep", !.wake = WakeAt, !.checked = clock])

\* One check: a match or a failure ends the wait, otherwise the next one.
Evaluate ==
    LET kind == wait.checks[wait.i]
        r == Selected(wait.view, wait.by)
    IN  /\ wait.pc = "check"
        /\ \E matched \in Outcomes(kind, wait.view, r) :
              \/ matched /\ Finish("matched", r)
              \/ ~matched /\ kind = "bad" /\ Finish("failed", r)
              \/ ~matched /\ kind # "bad" /\ wait.i < Len(wait.checks)
                 /\ WaitStep([wait EXCEPT !.i = @ + 1])
              \/ ~matched /\ kind # "bad" /\ wait.i = Len(wait.checks) /\ AfterRound

Wake ==
    /\ wait.pc = "sleep" /\ clock >= wait.wake
    /\ IF clock <= wait.deadline THEN WaitStep([wait EXCEPT !.pc = "load"])
       ELSE Finish("timeout", None)

Tick ==
    /\ MayPass
    /\ clock' = clock + 1
    /\ UNCHANGED <<host, known, stream, boot, rows, applies, wait>>

-----------------------------------------------------------------------------
Init ==
    /\ setting \in Settings
    /\ clock = 0
    /\ host = [r \in Runs |-> [from |-> None, to |-> None]]
    /\ known = None /\ stream = <<>> /\ boot = [pc |-> "idle", report |-> None]
    /\ rows = [r \in Runs |-> None]
    /\ applies = {}
    /\ wait = NoWait

ApplyStep == \E t \in applies : FindRun(t) \/ WriteRun(t) \/ CommitApply(t)
WaitGoesOn == LoadState \/ Evaluate \/ Wake

Next ==
  /\ UNCHANGED setting
  /\ \/ \E r \in Runs : Launch(r) \/ Exit(r)
     \/ Report \/ ReceiveEvent \/ AskMaster \/ AnswerArrives \/ ApplyStep
     \/ \E by \in Runs \union Keys, checks \in setting.checks : StartWait(by, checks)
     \/ WaitGoesOn \/ Tick

\* Timers and database answers come; the reports need not.
Fairness ==
    /\ WF_vars(UNCHANGED setting /\ WaitGoesOn)
    /\ WF_vars(UNCHANGED setting /\ Tick)
    /\ WF_vars(UNCHANGED setting /\ ApplyStep)

Spec == Init /\ [][Next]_vars /\ Fairness
-----------------------------------------------------------------------------
TypeOK ==
    /\ setting \in Settings
    /\ clock \in 0..setting.clock
    /\ \A r \in Runs : {host[r].from, host[r].to} \subseteq (0..setting.clock) \union {None}
    /\ known \in Reports \union {None}
    /\ stream \in Seq(Reports)
    /\ boot \in [pc : {"idle", "asked", "done"}, report : Reports \union {None}]
    /\ rows \in [Runs -> Row \union {None}]
    /\ \A t \in applies : t.report \in Reports /\ t.todo \subseteq t.report.runs
                          /\ DOMAIN t.mine \subseteq t.report.runs
    /\ wait.pc \in {"idle", "load", "check", "sleep", "done"}
    /\ wait.result \in {None, "matched", "failed", "timeout"}
    /\ wait.picked \in Runs \union {None}

\* A record says that the slave held the run at a time at which it did, however
\* late and in whatever order reports are applied (lastSeenAt of
\* findOrCreateProcessRunForObservedRun).
RecordsHonest ==
    \A r \in Runs : rows[r] # None =>
        /\ host[r].from # None /\ host[r].from <= rows[r].seen
        /\ host[r].to # None => rows[r].seen <= host[r].to

\* A wait for a key never settles for a run when a later one of the key has been
\* recorded, also when older reports overwrite the rows of newer ones
\* (getSlaveRuntimeState orders by last_seen_at; selectObservedRun).
NewestPicked ==
    (wait.result = "matched" /\ wait.picked # None /\ wait.by \in Keys) =>
        \A r \in Runs : (KeyOf[r] = wait.by /\ r > wait.picked) => wait.view[r] = None
=============================================================================
