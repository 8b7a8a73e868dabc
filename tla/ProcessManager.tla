--------------------------- MODULE ProcessManager ---------------------------
(***************************************************************************)
(* The process manager of the slave agent                                  *)
(* (packages/agent-slave/cmd/pc-slave/process_manager.go): it brings the   *)
(* operating-system processes of one host in line with the desired list    *)
(* that the master hands out, remembers what it runs in one state file per *)
(* process key, and adopts the processes it finds in those files when the  *)
(* slave starts again.                                                     *)
(*                                                                         *)
(* One mutex serialises ReconcileDesiredProcesses, Tick, the two commands  *)
(* and captureProcessExit.  `op' says who holds it and `step' how far the  *)
(* holder has come: between two steps processes exit, are reaped, and the  *)
(* slave may crash.  The host hands out pids in order, each once per boot. *)
(***************************************************************************)
EXTENDS Naturals, Sequences, FiniteSets

CONSTANTS
  Keys,        \* process keys
  Fps,         \* launch fingerprints
  None,        \* "no value"
  Torn,        \* content of a state file that is half written
  FileOf,      \* the state file of a key: sanitizeStateToken(key) + ".json"
  Bootstrap,   \* the list used in place of an empty one
  Lists,       \* the desired lists the master may hand out
  Hazards,     \* which of HazardKinds this instance admits
  MaxPids,     \* bound: process ids per boot of the host
  MaxRuns,     \* bound: launches
  MaxBoots,    \* bound: boots of the host
  MaxCrashes,  \* bound: crashes of the slave
  MaxExits,    \* bound: processes that end on their own
  MaxInputs    \* bound: changed lists, package changes and commands

Policies    == {"never", "manual", "package_change"}
HazardKinds == {"crash_mid_op", "disk_error", "early_launch", "foreign"}
Ends        == {"exited", "failed", "signalled"}
Files       == {FileOf[k] : k \in Keys}
Pids        == 1..MaxPids
RunIds      == 1..MaxRuns
Boots       == 1..MaxBoots

Desired == [fp : Fps, policy : Policies, state : {"running", "stopped"}]
Process == [st : {"free", "live", "zombie", "dead"}, run : 0..MaxRuns,
            key : Keys \cup {None}, fp : Fps \cup {None},
            sig : {"none", "term", "kill"}, how : Ends \cup {"none"}]
Managed == [run : RunIds, pid : Pids, fp : Fps, desired : Desired \cup {None},
            cmd : BOOLEAN, exit : Ends \cup {"none"}]
Stored  == [key : Keys, run : RunIds, pid : Pids, fp : Fps, boot : Boots]
DesiredLists == [Keys -> Desired \cup {None}]
\* Change types; of an "exited" change, the status its run carries.
Changes == {"started", "adopted", "orphaned", "killed"} \cup Ends

ASSUME ConstantsAssumption ==
  /\ FileOf \in [Keys -> STRING]
  /\ Bootstrap \in DesiredLists
  /\ Lists \subseteq DesiredLists
  /\ Hazards \subseteq HazardKinds
  /\ {MaxPids, MaxRuns, MaxBoots, MaxCrashes, MaxExits, MaxInputs} \subseteq Nat
  /\ MaxBoots > 0
  /\ None \notin Desired \cup Managed \cup Stored \cup Keys \cup Fps \cup {Torn}
  /\ Torn \notin Stored

VARIABLES
  os,             \* the process table of the host
  waiters,        \* pids a captureProcessExit goroutine is waiting for
  captured,       \* pids whose result such a goroutine holds, before the lock
  boot,           \* boot id of the host
  file,           \* state files: a record, Torn or None
  up,             \* the slave is running
  loaded,         \* a reconcile has loaded the files since the slave started
  processes,      \* processManager.processes
  completedNever, \* processManager.completedNever
  list,           \* the desired list of the latest reconcile
  op,             \* holder of the mutex
  step,           \* how far the holder has come
  todo,           \* keys its loop has still to visit
  cur,            \* the key it is stopping or starting
  nxt,            \* what it will start once `cur' is stopped
  history,        \* changes reported about each run (appendChange)
  launches,       \* launches of a key the slave made of its own accord since
                  \* the list, a command or a package change last asked for one
  nextRun, crashes, exits, inputs

hostVars   == <<os, waiters, captured, boot>>
memoryVars == <<processes, completedNever>>
opVars     == <<op, step, todo, cur, nxt>>
inputVars  == <<list, inputs, crashes, exits>>
vars == <<hostVars, file, up, loaded, memoryVars, inputVars, opVars, history,
          launches, nextRun>>

-----------------------------------------------------------------------------
(* The host.                                                               *)

FreePid == [st |-> "free", run |-> 0, key |-> None, fp |-> None,
            sig |-> "none", how |-> "none"]

Launched(r, k, fp) == [st |-> "live", run |-> r, key |-> k, fp |-> fp,
                       sig |-> "none", how |-> "none"]

\* processExists: signal 0 reaches a process until its parent has reaped it.
Exists(p) == os[p].st \in {"live", "zombie"}

\* A process the slave launched, still running, that nobody has sent SIGKILL.
Running(p) == os[p].st = "live" /\ os[p].run # 0 /\ os[p].sig # "kill"

\* The next pid the host hands out.
Unused(p) == os[p].st = "free" /\ \A q \in Pids : q < p => os[q].st # "free"

\* A process ends: of itself, through SIGTERM or through SIGKILL.  It stays a
\* zombie while the slave that launched it has not waited for it.
ProcessEnds(p, how) ==
  /\ os[p].st = "live"
  /\ CASE os[p].sig = "none" -> how # "signalled" /\ exits < MaxExits
       [] os[p].sig = "term" -> TRUE
       [] os[p].sig = "kill" -> how = "signalled"
  /\ exits' = IF os[p].sig = "none" THEN exits + 1 ELSE exits
  /\ os' = [os EXCEPT ![p] =
              [@ EXCEPT !.st = IF p \in waiters THEN "zombie" ELSE "dead",
                        !.how = how]]
  /\ UNCHANGED <<waiters, captured, boot, file, up, loaded, memoryVars, list,
                 inputs, crashes, opVars, history, launches, nextRun>>

\* waitForManagedProcess: cmd.Wait reaps the child without taking the mutex.  Its
\* goroutine starts when the launch is complete.
Reap(p) ==
  /\ step = "write" => processes[cur].pid # p
  /\ os[p].st = "zombie"
  /\ p \in waiters
  /\ os' = [os EXCEPT ![p].st = "dead"]
  /\ waiters' = waiters \ {p}
  /\ captured' = captured \cup {p}
  /\ UNCHANGED <<boot, file, up, loaded, memoryVars, inputVars, opVars,
                 history, launches, nextRun>>

\* A process of somebody else takes a pid.
ForeignStarts(p) ==
  /\ "foreign" \in Hazards
  /\ Unused(p)
  /\ os' = [os EXCEPT ![p] = [FreePid EXCEPT !.st = "live"]]
  /\ UNCHANGED <<waiters, captured, boot, file, up, loaded, memoryVars,
                 inputVars, opVars, history, launches, nextRun>>

SlaveGone ==
  /\ up' = FALSE
  /\ loaded' = FALSE
  /\ waiters' = {}
  /\ captured' = {}
  /\ processes' = [k \in Keys |-> None]
  /\ completedNever' = [k \in Keys |-> None]
  /\ op' = "idle" /\ step' = "visit" /\ todo' = {}
  /\ cur' = None /\ nxt' = None
  /\ launches' = [k \in Keys |-> 0]
  /\ UNCHANGED <<list, inputs, exits, history, nextRun, file>>

\* The slave ends; its children go on, and init reaps those that have exited.
SlaveCrash ==
  /\ up
  /\ op = "idle" \/ "crash_mid_op" \in Hazards
  /\ crashes < MaxCrashes
  /\ crashes' = crashes + 1
  /\ os' = [p \in Pids |-> [os[p] EXCEPT
                              !.st = IF @ = "zombie" THEN "dead" ELSE @]]
  /\ boot' = boot
  /\ SlaveGone

\* The host boots again: no process survives, every pid is free, files stay.
Reboot ==
  /\ boot < MaxBoots
  /\ boot' = boot + 1
  /\ os' = [p \in Pids |-> FreePid]
  /\ crashes' = crashes
  /\ SlaveGone

-----------------------------------------------------------------------------
(* Start of the slave: newProcessManager cleans the state files.           *)

\* Seeded fault: the probe finds only children of this slave.
AdoptableIfChild(f) ==
  file[f] \notin {None, Torn} /\ file[f].boot = boot /\ file[f].pid \in waiters

\* Seeded fault: the boot id is not compared.
AdoptableAnyBoot(f) == file[f] \notin {None, Torn} /\ Exists(file[f].pid)

\* A record that still names a process of this boot.
Adoptable(f) ==
  /\ file[f] \notin {None, Torn}
  /\ file[f].boot = boot
  /\ Exists(file[f].pid)

\* cleanupPersistedStateArtifacts: unreadable files, files of another boot and
\* files of processes that are gone are removed, without a report.
SlaveStart ==
  /\ ~up
  /\ up' = TRUE
  /\ file' = [f \in Files |-> IF Adoptable(f) THEN file[f] ELSE None]
  /\ UNCHANGED <<hostVars, loaded, memoryVars, inputVars, opVars, history,
                 launches, nextRun>>

-----------------------------------------------------------------------------
(* What the operations share.                                              *)

\* Seeded fault: any process of the key will do.
MatchesAny(d, run) == TRUE

Matches(d, run) == d.fp = run.fp

\* writePersistedState of the process managed under k.
Record(k) == [key |-> k, run |-> processes[k].run, pid |-> processes[k].pid,
              fp |-> processes[k].fp, boot |-> boot]

\* Seeded fault: no path is known for the file, and it stays.
RemovedNoPath(k) == UNCHANGED file

Removed(k) == file' = [file EXCEPT ![FileOf[k]] = None]

\* os.WriteFile truncates the file and then fills it; an error is only logged.
Truncate(k) == file' = [file EXCEPT ![FileOf[k]] = Torn]
Fill(k) == \/ file' = [file EXCEPT ![FileOf[k]] = Record(k)]
           \/ "disk_error" \in Hazards /\ UNCHANGED file

Report(run, change) == history' = [history EXCEPT ![run] = Append(@, change)]

\* The loop goes on to its next key.
Continue(k) == step' = "visit" /\ todo' = todo \ {k}

Gone(k) == processes[k].exit # "none" \/ ~Exists(processes[k].pid)

\* finalizeExitedProcessLocked, with d the desired process it remembers.  When
\* the process is gone before its result has the mutex, the status is "exited".
Finalize(k, d) ==
  /\ processes' = [processes EXCEPT ![k] = None]
  /\ completedNever' =
       [completedNever EXCEPT ![k] =
          IF d # None /\ d.policy = "never" /\ d.state = "running"
          THEN d.fp ELSE None]
  /\ Removed(k)
  /\ Report(processes[k].run,
            IF processes[k].exit = "none" THEN "exited" ELSE processes[k].exit)

\* stopManagedProcessLocked begins: the state "stopping" is being written.
BeginStop(k, next, mode) ==
  /\ Truncate(k)
  /\ step' = mode
  /\ cur' = k
  /\ nxt' = next

-----------------------------------------------------------------------------
(* Stopping and starting one process.                                      *)

\* Seeded fault: SIGTERM in place of SIGKILL.
SignalledSoftly(p, sig) ==
  IF os[p].st = "live" THEN [os EXCEPT ![p].sig = "term"] ELSE os

\* Only a process that has not exited gets the signal; nothing undoes SIGKILL.
Signalled(p, sig) ==
  IF os[p].st = "live" /\ os[p].sig # "kill"
  THEN [os EXCEPT ![p].sig = sig] ELSE os

\* The file is complete and the first signal is sent: SIGKILL when hard.
SendSignal ==
  /\ step \in {"stop_soft", "stop_hard"}
  /\ Fill(cur)
  /\ os' = Signalled(processes[cur].pid,
                     IF step = "stop_soft" THEN "term" ELSE "kill")
  /\ step' = IF step = "stop_soft" THEN "await" ELSE "remove"
  /\ UNCHANGED <<waiters, captured, boot, up, loaded, memoryVars, inputVars,
                 op, todo, cur, nxt, history, launches, nextRun>>

\* waitForProcessExit sees the process gone within processStopTimeout.
AwaitExit ==
  /\ step = "await"
  /\ ~Exists(processes[cur].pid)
  /\ step' = "remove"
  /\ UNCHANGED <<hostVars, file, up, loaded, memoryVars, inputVars, op, todo,
                 cur, nxt, history, launches, nextRun>>

\* It does not: SIGKILL follows, and a second wait whose result is not used.
AwaitTimeout ==
  /\ step = "await"
  /\ Exists(processes[cur].pid)
  /\ os' = Signalled(processes[cur].pid, "kill")
  /\ step' = "remove"
  /\ UNCHANGED <<waiters, captured, boot, file, up, loaded, memoryVars,
                 inputVars, op, todo, cur, nxt, history, launches, nextRun>>

\* The process is forgotten, whether or not it is gone.
RemoveStopped ==
  /\ step = "remove"
  /\ processes' = [processes EXCEPT ![cur] = None]
  /\ Removed(cur)
  /\ Report(processes[cur].run, "killed")
  /\ IF nxt = None
     THEN Continue(cur)
     ELSE step' = "start" /\ todo' = todo
  /\ UNCHANGED <<hostVars, up, loaded, completedNever, inputVars, op, cur, nxt,
                 launches, nextRun>>

NotCompleted(k) == completedNever' = [completedNever EXCEPT ![k] = None]

\* startDesiredProcessLocked up to os.WriteFile having truncated the file.
Spawn(p) ==
  /\ step = "start"
  /\ NotCompleted(cur)
  /\ Unused(p)
  /\ nextRun <= MaxRuns
  /\ os' = [os EXCEPT ![p] = Launched(nextRun, cur, nxt.fp)]
  /\ waiters' = waiters \cup {p}
  /\ processes' = [processes EXCEPT ![cur] =
                     [run |-> nextRun, pid |-> p, fp |-> nxt.fp,
                      desired |-> nxt, cmd |-> TRUE, exit |-> "none"]]
  /\ Truncate(cur)
  /\ step' = "write"
  /\ nextRun' = nextRun + 1
  /\ launches' = IF op = "command" THEN launches
                 ELSE [launches EXCEPT ![cur] = @ + 1]
  /\ UNCHANGED <<captured, boot, up, loaded, inputVars, op, todo, cur, nxt,
                 history>>

\* The launch fails (changeTypeMissing carries no run).
StartFails ==
  /\ step = "start"
  /\ NotCompleted(cur)
  /\ Continue(cur)
  /\ UNCHANGED <<hostVars, file, up, loaded, processes, inputVars, op, cur, nxt,
                 history, launches, nextRun>>

\* The file is complete and the launch is reported.  Tick ranges over the map it
\* has just added to, and may or may not come to the new entry.
WriteStarted ==
  /\ step = "write"
  /\ Fill(cur)
  /\ Report(processes[cur].run, "started")
  /\ Continue(cur) \/ (op = "tick" /\ step' = "visit" /\ todo' = todo)
  /\ UNCHANGED <<hostVars, up, loaded, memoryVars, inputVars, op, cur, nxt,
                 launches, nextRun>>

-----------------------------------------------------------------------------
(* ReconcileDesiredProcesses.                                              *)

Idle == up /\ op = "idle"

Effective(l) == IF \A k \in Keys : l[k] = None THEN Bootstrap ELSE l

\* A new list is a new reason to launch the keys it defines differently.
BeginReconcile(l) ==
  /\ Idle
  /\ \/ Effective(l) = list /\ inputs' = inputs
     \/ Effective(l) # list /\ inputs < MaxInputs /\ inputs' = inputs + 1
  /\ list' = Effective(l)
  /\ launches' = [k \in Keys |-> IF list'[k] = list[k] THEN launches[k] ELSE 0]
  /\ op' = "reconcile"
  /\ step' = "load"
  /\ todo' = Keys
  /\ UNCHANGED <<hostVars, file, up, loaded, memoryVars, crashes, exits, cur,
                 nxt, history, nextRun>>

\* loadPersistedProcessesLocked, for the files no managed process owns.
LoadPersisted ==
  LET owned    == {FileOf[k] : k \in {j \in Keys : processes[j] # None}}
      stored   == {f \in Files \ owned : file[f] \notin {None, Torn}}
      adopted  == {f \in stored : Adoptable(f)}
      lost     == {f \in stored : file[f].boot = boot /\ ~Adoptable(f)}
      Adopt(k) == [run |-> file[FileOf[k]].run, pid |-> file[FileOf[k]].pid,
                   fp |-> file[FileOf[k]].fp, desired |-> list[k],
                   cmd |-> FALSE, exit |-> "none"]
      Matching(f) == /\ list[file[f].key] # None
                     /\ Matches(list[file[f].key], file[f])
      News(r)  == IF \E f \in lost : file[f].run = r THEN <<"exited">>
                  ELSE IF \E f \in adopted : file[f].run = r /\ Matching(f)
                  THEN <<"adopted">> ELSE <<>>
  IN /\ step = "load"
     /\ processes' = [k \in Keys |->
          IF FileOf[k] \in adopted /\ file[FileOf[k]].key = k
          THEN Adopt(k) ELSE processes[k]]
     /\ file' = [f \in Files |-> IF f \in stored \ adopted THEN None ELSE file[f]]
     /\ history' = [r \in RunIds |-> history[r] \o News(r)]
     /\ step' = "visit"
     /\ UNCHANGED <<hostVars, up, loaded, completedNever, inputVars, op, todo,
                    cur, nxt, launches, nextRun>>

\* The first loop is over the listed keys, the second over the others.
Visiting(k) ==
  /\ op = "reconcile" /\ step = "visit" /\ k \in todo
  /\ list[k] = None => \A j \in todo : list[j] = None

Wanted(k) == list[k] # None /\ list[k].state = "running"

\* Desired state "stopped".
VisitStopped(k) ==
  /\ Visiting(k)
  /\ list[k] # None /\ list[k].state = "stopped"
  /\ NotCompleted(k)
  /\ IF processes[k] = None
     THEN Continue(k) /\ UNCHANGED <<file, cur, nxt>>
     ELSE BeginStop(k, None, "stop_soft") /\ todo' = todo
  /\ UNCHANGED <<hostVars, up, loaded, processes, inputVars, op, history,
                 launches, nextRun>>

\* Seeded fault: nothing is remembered.
CompletedForgotten(k) == FALSE

\* hasCompletedNeverProcessLocked
Completed(k) == list[k].policy = "never" /\ completedNever[k] = list[k].fp

VisitCompleted(k) ==
  /\ Visiting(k)
  /\ Wanted(k) /\ processes[k] = None /\ Completed(k)
  /\ Continue(k)
  /\ UNCHANGED <<hostVars, file, up, loaded, memoryVars, inputVars, op, cur,
                 nxt, history, launches, nextRun>>

VisitAbsent(k) ==
  /\ Visiting(k)
  /\ Wanted(k) /\ processes[k] = None /\ ~Completed(k)
  /\ step' = "start" /\ cur' = k /\ nxt' = list[k]
  /\ UNCHANGED <<hostVars, file, up, loaded, memoryVars, inputVars, op, todo,
                 history, launches, nextRun>>

\* The process has exited: restart it unless its policy is "never".
VisitEnded(k) ==
  /\ Visiting(k)
  /\ Wanted(k) /\ processes[k] # None /\ Gone(k)
  /\ Finalize(k, list[k])
  /\ IF list[k].policy = "never"
     THEN Continue(k) /\ UNCHANGED <<cur, nxt>>
     ELSE step' = "start" /\ cur' = k /\ nxt' = list[k] /\ todo' = todo
  /\ UNCHANGED <<hostVars, up, loaded, inputVars, op, launches, nextRun>>

\* The process runs: it is kept, or replaced when its fingerprint changed.
VisitRunning(k) ==
  /\ Visiting(k)
  /\ Wanted(k) /\ processes[k] # None /\ ~Gone(k)
  /\ processes' = [processes EXCEPT ![k].desired = list[k]]
  /\ IF Matches(list[k], processes[k])
     THEN Continue(k) /\ UNCHANGED <<file, cur, nxt>>
     ELSE BeginStop(k, list[k], "stop_hard") /\ todo' = todo
  /\ UNCHANGED <<hostVars, up, loaded, completedNever, inputVars, op, history,
                 launches, nextRun>>

\* A process that is not part of the desired list.
VisitUnlisted(k) ==
  /\ Visiting(k)
  /\ list[k] = None
  /\ IF processes[k] = None
     THEN Continue(k) /\ UNCHANGED <<file, cur, nxt, history>>
     ELSE /\ Report(processes[k].run, "orphaned")
          /\ BeginStop(k, None, "stop_soft") /\ todo' = todo
  /\ UNCHANGED <<hostVars, up, loaded, memoryVars, inputVars, op, launches,
                 nextRun>>

\* The mutex is released.
EndOp ==
  /\ op # "idle" /\ step = "visit" /\ todo = {}
  /\ op' = "idle"
  /\ loaded' = (loaded \/ op = "reconcile")
  /\ UNCHANGED <<hostVars, file, up, memoryVars, inputVars, step, todo, cur,
                 nxt, history, launches, nextRun>>

-----------------------------------------------------------------------------
(* Tick, the commands and captureProcessExit.                              *)

BeginTick ==
  /\ Idle
  /\ op' = "tick"
  /\ todo' = {k \in Keys : processes[k] # None}
  /\ UNCHANGED <<hostVars, file, up, loaded, memoryVars, inputVars, step, cur,
                 nxt, history, launches, nextRun>>

Ticking(k) == op = "tick" /\ step = "visit" /\ k \in todo

TickEnded(k) ==
  /\ Ticking(k)
  /\ Gone(k)
  /\ Finalize(k, processes[k].desired)
  /\ Continue(k)
  /\ UNCHANGED <<hostVars, up, loaded, inputVars, op, cur, nxt, launches,
                 nextRun>>

\* Every tick writes the state file of a running process anew.
TickRefresh(k) ==
  /\ Ticking(k)
  /\ ~Gone(k)
  /\ Truncate(k)
  /\ step' = "refresh" /\ cur' = k
  /\ UNCHANGED <<hostVars, up, loaded, memoryVars, inputVars, op, todo, nxt,
                 history, launches, nextRun>>

TickRefreshed ==
  /\ step = "refresh"
  /\ Fill(cur)
  /\ Continue(cur)
  /\ UNCHANGED <<hostVars, up, loaded, memoryVars, inputVars, op, cur, nxt,
                 history, launches, nextRun>>

\* The packages directory changed: the file is complete, and begun again, and
\* the process is replaced.
TickPackageChange ==
  /\ step = "refresh"
  /\ processes[cur].desired # None
  /\ processes[cur].desired.state = "running"
  /\ processes[cur].desired.policy = "package_change"
  /\ inputs < MaxInputs /\ inputs' = inputs + 1
  /\ BeginStop(cur, processes[cur].desired, "stop_hard")
  /\ launches' = [launches EXCEPT ![cur] = 0]
  /\ UNCHANGED <<hostVars, up, loaded, memoryVars, list, crashes, exits, op,
                 todo, history, nextRun>>

\* ExecuteKillCommand; a target that is not managed is an error and no step.
KillCommand(k, mode) ==
  /\ Idle
  /\ processes[k] # None
  /\ inputs < MaxInputs /\ inputs' = inputs + 1
  /\ op' = "command" /\ todo' = {k}
  /\ BeginStop(k, None, mode)
  /\ launches' = [launches EXCEPT ![k] = 0]
  /\ UNCHANGED <<hostVars, up, loaded, memoryVars, list, crashes, exits,
                 history, nextRun>>

\* ExecuteLaunchCommand; its restart policy is always "manual".
LaunchCommand(k, fp) ==
  /\ Idle
  /\ loaded \/ "early_launch" \in Hazards
  /\ inputs < MaxInputs /\ inputs' = inputs + 1
  /\ op' = "command" /\ todo' = {k}
  /\ LET d == [fp |-> fp, policy |-> "manual", state |-> "running"]
     IN IF processes[k] = None
        THEN step' = "start" /\ cur' = k /\ nxt' = d /\ file' = file
        ELSE BeginStop(k, d, "stop_hard")
  /\ launches' = [launches EXCEPT ![k] = 0]
  /\ UNCHANGED <<hostVars, up, loaded, memoryVars, list, crashes, exits,
                 history, nextRun>>

\* Seeded fault: the result goes to whatever is managed under the key.
IsCommandOfKey(k, p) == k = os[p].key /\ processes[k] # None

IsCommandOf(k, p) == /\ k = os[p].key /\ processes[k] # None
                     /\ processes[k].cmd /\ processes[k].run = os[p].run

\* captureProcessExit gets the mutex: the result counts only for the very
\* command it waited for.
CaptureProcessExit(p) ==
  /\ Idle
  /\ p \in captured
  /\ captured' = captured \ {p}
  /\ processes' = [k \in Keys |->
       IF IsCommandOf(k, p) THEN [processes[k] EXCEPT !.exit = os[p].how]
       ELSE processes[k]]
  /\ UNCHANGED <<os, waiters, boot, file, up, loaded, completedNever,
                 inputVars, opVars, history, launches, nextRun>>

-----------------------------------------------------------------------------

Init ==
  /\ os = [p \in Pids |-> FreePid]
  /\ waiters = {} /\ captured = {}
  /\ boot = 1
  /\ file = [f \in Files |-> None]
  /\ up = FALSE /\ loaded = FALSE
  /\ processes = [k \in Keys |-> None]
  /\ completedNever = [k \in Keys |-> None]
  /\ list = [k \in Keys |-> None]
  /\ op = "idle" /\ step = "visit" /\ todo = {} /\ cur = None /\ nxt = None
  /\ history = [r \in RunIds |-> <<>>]
  /\ launches = [k \in Keys |-> 0]
  /\ nextRun = 1 /\ crashes = 0 /\ exits = 0 /\ inputs = 0

\* The steps of the goroutine that holds the mutex.
HolderStep ==
  \/ LoadPersisted
  \/ \E k \in Keys : \/ VisitStopped(k) \/ VisitCompleted(k) \/ VisitAbsent(k)
                     \/ VisitEnded(k) \/ VisitRunning(k) \/ VisitUnlisted(k)
                     \/ TickEnded(k) \/ TickRefresh(k)
  \/ TickRefreshed \/ TickPackageChange
  \/ SendSignal \/ AwaitExit \/ AwaitTimeout \/ RemoveStopped
  \/ \E p \in Pids : Spawn(p)
  \/ StartFails \/ WriteStarted
  \/ EndOp

Command == \E k \in Keys : \/ \E m \in {"stop_soft", "stop_hard"} : KillCommand(k, m)
                           \/ \E fp \in Fps : LaunchCommand(k, fp)

Host == \/ \E p \in Pids : \/ \E how \in Ends : ProcessEnds(p, how)
                           \/ Reap(p) \/ ForeignStarts(p)
        \/ SlaveCrash \/ Reboot

Next ==
  \/ Host
  \/ SlaveStart
  \/ \E l \in Lists : BeginReconcile(l)
  \/ BeginTick
  \/ Command
  \/ HolderStep
  \/ \E p \in Pids : CaptureProcessExit(p)

Spec == Init /\ [][Next]_vars

\* The main loop reconciles and ticks in turn for as long as the slave is up, so
\* a reconcile with the list the master holds is never starved by ticks and
\* commands.  A critical section goes on until it is done; a launch does not fail
\* for ever; the kernel delivers SIGKILL; a slave that is down is started again.
Fairness ==
  /\ WF_vars(SlaveStart)
  /\ SF_vars(\E l \in Lists : BeginReconcile(l))
  /\ WF_vars(HolderStep)
  /\ SF_vars(\E p \in Pids : Spawn(p))
  /\ \A p \in Pids : /\ WF_vars(Reap(p))
                    /\ WF_vars(os[p].sig = "kill" /\ ProcessEnds(p, "signalled"))

FairSpec == Spec /\ Fairness

-----------------------------------------------------------------------------
(* Properties.                                                             *)

Steps == {"load", "visit", "stop_soft", "stop_hard", "await", "remove", "start",
          "write", "refresh"}

HostTypes ==
  /\ os \in [Pids -> Process]
  /\ waiters \subseteq Pids /\ captured \subseteq Pids
  /\ boot \in Boots
SlaveTypes ==
  /\ file \in [Files -> Stored \cup {Torn, None}]
  /\ processes \in [Keys -> Managed \cup {None}]
  /\ completedNever \in [Keys -> Fps \cup {None}]
  /\ list \in DesiredLists
OpTypes ==
  /\ op \in {"idle", "reconcile", "tick", "command"}
  /\ step \in Steps /\ todo \subseteq Keys
  /\ cur \in Keys \cup {None} /\ nxt \in Desired \cup {None}
CountTypes ==
  /\ history \in [RunIds -> Seq(Changes)]
  /\ launches \in [Keys -> Nat]
  /\ nextRun \in Nat /\ crashes \in Nat /\ exits \in Nat /\ inputs \in Nat

\* The type of every variable.
TypeOK == /\ HostTypes /\ SlaveTypes /\ OpTypes /\ CountTypes
          /\ up \in BOOLEAN /\ loaded \in BOOLEAN

\* Never do two processes of one key run at a time, across restarts of the slave,
\* replacements, commands and processes that ignore SIGTERM.
OneLivePerKey ==
  \A p, q \in Pids :
    Running(p) /\ Running(q) /\ os[p].key = os[q].key => p = q

\* A process the slave launched never gets out of its hands: it is managed, or,
\* before the first reconcile, a readable file of this boot leads to it.
LiveIsTracked ==
  \A p \in Pids : Running(p) =>
    LET k == os[p].key IN
    \/ processes[k] # None /\ processes[k].pid = p
    \/ /\ ~loaded
       /\ file[FileOf[k]] \notin {None, Torn}
       /\ file[FileOf[k]].pid = p /\ file[FileOf[k]].boot = boot

Closing == {"killed"} \cup Ends
Closed(r) == \E i \in DOMAIN history[r] : history[r][i] \in Closing

\* The changes reported about a run make sense: it is started at most once and
\* first, its end is reported once and last, and never while it still runs or is
\* still managed.
HistoryLegal ==
  /\ \A r \in RunIds : \A i \in DOMAIN history[r] :
       /\ history[r][i] = "started" => i = 1
       /\ history[r][i] \in Closing => i = Len(history[r])
  /\ \A p \in Pids : Running(p) => ~Closed(os[p].run)
  /\ \A k \in Keys : processes[k] # None => ~Closed(processes[k].run)

\* While the slave has not restarted, every run it launched is managed or its end
\* has been reported.
EndIsReported ==
  op = "idle" /\ boot = 1 /\ crashes = 0 =>
    \A r \in 1..(nextRun - 1) :
      Closed(r) \/ \E k \in Keys : processes[k] # None /\ processes[k].run = r

\* The history that is reported of each run is legal and, once it has ended, whole.
HistoryRight == HistoryLegal /\ EndIsReported

\* The exit result kept for a process is its own, not that of the process it
\* replaced under the same key.
ExitResultIsOwn ==
  \A k \in Keys : processes[k] # None /\ processes[k].exit # "none" =>
    /\ os[processes[k].pid].st = "dead"
    /\ os[processes[k].pid].how = processes[k].exit

\* A process with restart policy "never" is launched once, not again until the
\* list, a command or a restart of the slave gives a new reason.
OneShotOnce ==
  \A k \in Keys :
    list[k] # None /\ list[k].policy = "never" => launches[k] <= 1

\* A signal goes to the very process that is being stopped, never to one that
\* merely has its pid.
SignalsOnlyOwn ==
  [][\A p \in Pids : os'[p].sig \notin {os[p].sig, "none"} =>
       os[p].key = cur /\ os[p].run = processes[cur].run]_vars

\* Once the outside is quiet the host runs what the list says: a listed process
\* that is not one-shot runs as listed, one that is stopped or unlisted does not.
Settled ==
  \A k \in Keys :
    LET live == {p \in Pids : os[p].st = "live" /\ os[p].key = k}
    IN IF ~Wanted(k) THEN live = {}
       ELSE list[k].policy # "never" =>
              \E p \in live : /\ live = {p} /\ os[p].fp = list[k].fp
                              /\ processes[k] # None /\ processes[k].pid = p

Converges == <>[]Settled

\* A listed one-shot that is passed over as completed has run once.
OneShotRuns ==
  boot = 1 => \A k \in Keys : list[k] # None /\ Completed(k) =>
                \E p \in Pids : os[p].key = k /\ os[p].fp = list[k].fp

-----------------------------------------------------------------------------
(* What the slave promises: one instance of a key at a time.               *)

InstanceOf(k) ==
  LET live == {p \in Pids : Running(p) /\ os[p].key = k}
  IN IF live = {} THEN None ELSE os[CHOOSE p \in live : TRUE].run

Promise == INSTANCE OneInstance WITH
             instance <- [k \in Keys |-> InstanceOf(k)],
             used <- 1..(nextRun - 1)

\* The process manager implements the promise: a key gets a new instance, with a
\* run id never used before, only when it has none, and an instance that has ended
\* does not come back.
ImplementsOneInstance == Promise!Spec

=============================================================================
