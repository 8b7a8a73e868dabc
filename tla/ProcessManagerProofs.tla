------------------------ MODULE ProcessManagerProofs ------------------------
(***************************************************************************)
(* Theorems about ProcessManager, for every value of its constants.        *)
(*                                                                         *)
(* First the types of its variables, and that the slave signals only       *)
(* processes it launched, through crashes at any point, torn files,        *)
(* reboots and pids that other programs take.                              *)
(*                                                                         *)
(* Then what holds of reliable instances, for every number of keys,        *)
(* processes, restarts of the slave and reboots: what the slave launched   *)
(* stays in its hands, and two processes of a key never run at a time.     *)
(* They need what the slave cannot do without: a disk that takes each      *)
(* write, a slave that is not killed half way through an operation (a file *)
(* is then torn), no launch command before the first reconcile, and keys   *)
(* whose state files differ.                                               *)
(*                                                                         *)
(* Last, under all hazards, and also when two keys share a state file: an  *)
(* exit result is recorded for the process it belongs to, the changes      *)
(* reported about each run make sense and are whole, and a one-shot is     *)
(* launched once for each reason to launch it.                             *)
(***************************************************************************)
EXTENDS ProcessManager, TLAPS

-----------------------------------------------------------------------------
(* Types.                                                                  *)

\* The key at work is one, and has what the step needs.
CurOK ==
  /\ step \in {"stop_soft", "stop_hard", "await", "remove", "write", "refresh"} =>
       cur \in Keys /\ processes[cur] # None
  /\ step = "start" => cur \in Keys /\ nxt \in Desired
  /\ op = "tick" =>
       \A k \in todo : processes[k] # None \/ (step = "start" /\ k = cur)
  /\ nextRun # 0

TypeInv == TypeOK /\ CurOK

\* Every key has a state file.
LEMMA FilesType == FileOf \in [Keys -> Files]
  BY ConstantsAssumption DEF ConstantsAssumption, Files

\* What the slave writes is a stored record.
LEMMA RecordType ==
  ASSUME TypeOK, NEW k \in Keys, processes[k] # None
  PROVE  Record(k) \in Stored
  BY DEF TypeOK, HostTypes, SlaveTypes, Record, Stored, Managed

\* A managed process has a run and a pid.
LEMMA RunsType ==
  ASSUME TypeOK, NEW k \in Keys, processes[k] # None
  PROVE  processes[k].run \in RunIds /\ processes[k].pid \in Pids
  BY DEF TypeOK, SlaveTypes, Managed

\* A report extends a history by a change.
LEMMA ReportType ==
  ASSUME TypeOK, NEW r \in RunIds, NEW c \in Changes, Report(r, c)
  PROVE  history' \in [RunIds -> Seq(Changes)]
  BY DEF TypeOK, CountTypes, Report

\* A completed write leaves a record, or the truncated file.
LEMMA FillType ==
  ASSUME TypeOK, NEW k \in Keys, processes[k] # None, Fill(k)
  PROVE  file' \in [Files -> Stored \cup {Torn, None}]
  BY RecordType, FilesType DEF Fill, TypeOK, SlaveTypes

\* A signal changes the process table within its type.
LEMMA SignalledType ==
  ASSUME TypeOK, NEW p \in Pids, NEW s \in {"term", "kill"}
  PROVE  Signalled(p, s) \in [Pids -> Process]
<1>1. [os[p] EXCEPT !.sig = s] \in Process
  BY DEF TypeOK, HostTypes, Process
<1> QED
  BY <1>1 DEF Signalled, TypeOK, HostTypes

\* A launched process is a process.
LEMMA SpawnedType ==
  ASSUME NEW r \in RunIds, NEW k \in Keys, NEW fp \in Fps
  PROVE  Launched(r, k, fp) \in Process
  BY DEF Launched, Process, RunIds

\* An updated managed process is a managed process.
LEMMA UpdateType ==
  ASSUME NEW m \in Managed, NEW d \in Desired \cup {None},
         NEW e \in Ends \cup {"none"}
  PROVE  /\ [m EXCEPT !.desired = d] \in Managed
         /\ [m EXCEPT !.exit = e] \in Managed
         /\ [m EXCEPT !.desired = d] # None
         /\ [m EXCEPT !.exit = e] # None
<1>1. [m EXCEPT !.desired = d] \in Managed
  BY DEF Managed
<1>2. [m EXCEPT !.exit = e] \in Managed
  BY DEF Managed
<1> QED
  BY <1>1, <1>2, ConstantsAssumption DEF ConstantsAssumption

\* So is a process in another state.
LEMMA StateType ==
  ASSUME NEW x \in Process, NEW st \in {"free", "live", "zombie", "dead"}
  PROVE  [x EXCEPT !.st = st] \in Process
  BY DEF Process

\* A pid not handed out is of the type.
LEMMA FreeType == FreePid \in Process
  BY ConstantsAssumption DEF ConstantsAssumption, FreePid, Process

\* The process table when a process ends.
LEMMA ProcessEndsHost ==
  ASSUME TypeInv, NEW p \in Pids, NEW how \in Ends, ProcessEnds(p, how)
  PROVE  HostTypes'
<1>1. \A st \in {"zombie", "dead"} :
        [os[p] EXCEPT !.st = st, !.how = how] \in Process
  BY DEF Process, TypeInv, TypeOK, HostTypes
<1> QED
  BY <1>1 DEF ProcessEnds, TypeInv, TypeOK, HostTypes

\* The process table when the slave crashes.
LEMMA CrashHost ==
  ASSUME TypeInv, SlaveCrash
  PROVE  HostTypes'
<1>1. \A p \in Pids :
        [os[p] EXCEPT !.st = IF @ = "zombie" THEN "dead" ELSE @] \in Process
  BY DEF Process, TypeInv, TypeOK, HostTypes
<1> QED
  BY <1>1 DEF SlaveCrash, SlaveGone, TypeInv, TypeOK, HostTypes

\* What the slave keeps when an exit result gets the mutex.
LEMMA CaptureSlave ==
  ASSUME TypeInv, NEW p \in Pids, CaptureProcessExit(p)
  PROVE  SlaveTypes'
<1>1. os[p].how \in Ends \cup {"none"}
  BY DEF TypeInv, TypeOK, HostTypes, Process
<1>2. ASSUME NEW k \in Keys, processes[k] # None
      PROVE  [processes[k] EXCEPT !.exit = os[p].how] \in Managed
  BY <1>1, <1>2, UpdateType DEF TypeInv, TypeOK, SlaveTypes
<1> QED
  BY <1>2 DEF CaptureProcessExit, IsCommandOf, TypeInv, TypeOK, SlaveTypes,
              inputVars

\* The operation at that step, which manages and forgets nothing.
LEMMA CaptureOp ==
  ASSUME TypeInv, NEW p \in Pids, CaptureProcessExit(p)
  PROVE  OpTypes' /\ CurOK' /\ up' \in BOOLEAN /\ loaded' \in BOOLEAN
<1>1. OpTypes' /\ up' \in BOOLEAN /\ loaded' \in BOOLEAN
  BY DEF CaptureProcessExit, TypeInv, TypeOK, OpTypes, opVars
<1>2. \A k \in Keys : processes[k] # None => processes'[k] # None
  <2> SUFFICES ASSUME NEW k \in Keys, processes[k] # None
    PROVE processes'[k] # None
    OBVIOUS
  <2>1. processes[k] \in Managed
    BY DEF TypeInv, TypeOK, SlaveTypes
  <2>2. [processes[k] EXCEPT !.exit = os[p].how] # None
    BY <2>1, UpdateType DEF TypeInv, TypeOK, HostTypes, Process
  <2> QED
    BY <2>2 DEF CaptureProcessExit
<1>3. CurOK'
  BY <1>2 DEF CaptureProcessExit, TypeInv, TypeOK, CurOK, OpTypes, opVars
<1> QED
  BY <1>1, <1>3

\* The operation when a running process is visited.
LEMMA VisitRunningOp ==
  ASSUME TypeInv, NEW k \in Keys, VisitRunning(k)
  PROVE  OpTypes' /\ CurOK' /\ up' \in BOOLEAN /\ loaded' \in BOOLEAN
<1>1. OpTypes' /\ up' \in BOOLEAN /\ loaded' \in BOOLEAN
  BY
  DEF VisitRunning, Wanted, TypeInv, TypeOK, OpTypes, SlaveTypes, DesiredLists,
      Steps, Continue, BeginStop
<1>2. processes'[k] # None
  BY UpdateType
  DEF VisitRunning, Wanted, TypeInv, TypeOK, SlaveTypes, DesiredLists
<1>3. CurOK'
  BY <1>2
  DEF VisitRunning, Visiting, TypeInv, TypeOK, CurOK, Continue, BeginStop
<1> QED
  BY <1>1, <1>3

\* A launch: the pid was unused, the run is within the bound.
LEMMA SpawnType ==
  ASSUME TypeInv, NEW p \in Pids, Spawn(p)
  PROVE  TypeInv'
<1>1. /\ nextRun \in RunIds /\ cur \in Keys /\ nxt.fp \in Fps /\ nxt \in Desired
      /\ os[p].st = "free"
  BY DEF TypeInv, TypeOK, CurOK, CountTypes, RunIds, Spawn, Unused, Desired
<1>2. HostTypes'
  BY <1>1, SpawnedType DEF TypeInv, TypeOK, HostTypes, Spawn
<1>3. [run |-> nextRun, pid |-> p, fp |-> nxt.fp, desired |-> nxt,
       cmd |-> TRUE, exit |-> "none"] \in Managed
  BY <1>1 DEF Managed
<1>4. SlaveTypes'
  BY <1>1, <1>3, FilesType
  DEF TypeInv, TypeOK, SlaveTypes, Spawn, NotCompleted, Truncate, inputVars
<1>5. CountTypes'
  BY <1>1 DEF TypeInv, TypeOK, CountTypes, Spawn, inputVars
<1>6. OpTypes' /\ up' \in BOOLEAN /\ loaded' \in BOOLEAN
  BY DEF TypeInv, TypeOK, OpTypes, Spawn, Steps
<1>7. processes'[cur] # None
  BY <1>1, <1>3, ConstantsAssumption
  DEF ConstantsAssumption, Spawn, TypeInv, TypeOK, SlaveTypes
<1>8. CurOK'
  BY <1>1, <1>7
  DEF CurOK, Spawn, TypeInv, TypeOK, SlaveTypes, CountTypes, OpTypes
<1> QED
  BY <1>2, <1>4, <1>5, <1>6, <1>8 DEF TypeInv, TypeOK

\* Loading adds at most one change to the history of each run.
LEMMA LoadCounts ==
  ASSUME TypeInv, LoadPersisted
  PROVE  CountTypes'
<1>1. PICK news \in [RunIds -> {<<>>, <<"exited">>, <<"adopted">>}] :
        history' = [r \in RunIds |-> history[r] \o news[r]]
  <2> DEFINE owned    == {FileOf[k] : k \in {j \in Keys : processes[j] # None}}
      stored   == {f \in Files \ owned : file[f] \notin {None, Torn}}
      adopted  == {f \in stored : Adoptable(f)}
      lost     == {f \in stored : file[f].boot = boot /\ ~Adoptable(f)}
      Matching(f) == /\ list[file[f].key] # None
                     /\ Matches(list[file[f].key], file[f])
      news == [r \in RunIds |->
                  IF \E f \in lost : file[f].run = r THEN <<"exited">>
                  ELSE IF \E f \in adopted : file[f].run = r /\ Matching(f)
                  THEN <<"adopted">> ELSE <<>>]
  <2>1. history' = [r \in RunIds |-> history[r] \o news[r]]
    BY DEF LoadPersisted
  <2>2. news \in [RunIds -> {<<>>, <<"exited">>, <<"adopted">>}]
    OBVIOUS
  <2> QED
    BY <2>1, <2>2
<1>2. ASSUME NEW r \in RunIds PROVE history[r] \o news[r] \in Seq(Changes)
  <2>1. {<<>>, <<"exited">>, <<"adopted">>} \subseteq Seq(Changes)
    BY DEF Changes, Ends
  <2>2. news[r] \in Seq(Changes)
    BY <2>1
  <2>3. history[r] \in Seq(Changes)
    BY DEF TypeInv, TypeOK, CountTypes
  <2> QED
    BY <2>2, <2>3
<1> QED
  <2>1. history' \in [RunIds -> Seq(Changes)]
    BY <1>1, <1>2
  <2> QED
    BY <2>1 DEF LoadPersisted, TypeInv, TypeOK, CountTypes, inputVars

\* Every step preserves the types.
LEMMA TypeStep ==
  ASSUME TypeInv, [Next]_vars
  PROVE  TypeInv'
<1> USE DEF TypeInv, TypeOK, CurOK, HostTypes, SlaveTypes, OpTypes, CountTypes,
        Steps, Desired, DesiredLists, Policies, hostVars, memoryVars, opVars,
        inputVars
<1>1. ASSUME NEW p \in Pids, NEW how \in Ends, ProcessEnds(p, how) PROVE
  TypeInv'
  <2>1. HostTypes'
    BY <1>1, ProcessEndsHost
  <2>2. /\ SlaveTypes'
       /\ CountTypes'
       /\ OpTypes'
       /\ CurOK'
       /\ up' \in BOOLEAN
       /\ loaded' \in BOOLEAN
    BY <1>1 DEF ProcessEnds
  <2> QED
    BY <2>1, <2>2
<1>2. ASSUME NEW p \in Pids, Reap(p) PROVE TypeInv'
  <2>1. HostTypes'
    BY <1>2, StateType DEF Reap
  <2>2. /\ SlaveTypes'
       /\ CountTypes'
       /\ OpTypes'
       /\ CurOK'
       /\ up' \in BOOLEAN
       /\ loaded' \in BOOLEAN
    BY <1>2 DEF Reap
  <2> QED
    BY <2>1, <2>2
<1>3. ASSUME NEW p \in Pids, ForeignStarts(p) PROVE TypeInv'
  <2>1. HostTypes'
    BY <1>3, StateType, FreeType DEF ForeignStarts
  <2>2. /\ SlaveTypes'
       /\ CountTypes'
       /\ OpTypes'
       /\ CurOK'
       /\ up' \in BOOLEAN
       /\ loaded' \in BOOLEAN
    BY <1>3 DEF ForeignStarts
  <2> QED
    BY <2>1, <2>2
<1>4. ASSUME SlaveCrash PROVE TypeInv'
  <2>1. HostTypes'
    BY <1>4, CrashHost
  <2>2. SlaveTypes'
    BY <1>4 DEF SlaveCrash, SlaveGone
  <2>3. CountTypes'
    BY <1>4 DEF SlaveCrash, SlaveGone
  <2>4. OpTypes' /\ CurOK' /\ up' \in BOOLEAN /\ loaded' \in BOOLEAN
    BY <1>4 DEF SlaveCrash, SlaveGone
  <2> QED
    BY <2>1, <2>2, <2>3, <2>4
<1>5. ASSUME Reboot PROVE TypeInv'
  <2>1. HostTypes'
    BY <1>5, ConstantsAssumption DEF ConstantsAssumption, Boots, Process,
      FreePid, Reboot, SlaveGone
  <2>2. /\ SlaveTypes'
       /\ CountTypes'
       /\ OpTypes'
       /\ CurOK'
       /\ up' \in BOOLEAN
       /\ loaded' \in BOOLEAN
    BY <1>5, ConstantsAssumption DEF ConstantsAssumption, Reboot, SlaveGone
  <2> QED
    BY <2>1, <2>2
<1>6. ASSUME SlaveStart PROVE TypeInv'
  BY <1>6, FilesType DEF SlaveStart
<1>7. ASSUME NEW l \in Lists, BeginReconcile(l) PROVE TypeInv'
  <2>1. HostTypes'
    BY <1>7, ConstantsAssumption DEF ConstantsAssumption, BeginReconcile,
      Idle, Effective
  <2>2. /\ SlaveTypes'
       /\ CountTypes'
       /\ OpTypes'
       /\ CurOK'
       /\ up' \in BOOLEAN
       /\ loaded' \in BOOLEAN
    BY <1>7, ConstantsAssumption DEF ConstantsAssumption, BeginReconcile,
      Idle, Effective
  <2> QED
    BY <2>1, <2>2
<1>8. ASSUME BeginTick PROVE TypeInv'
  BY <1>8 DEF BeginTick, Idle
<1>9. ASSUME NEW k \in Keys, NEW m \in {"stop_soft","stop_hard"},
  KillCommand(k, m) PROVE TypeInv'
  <2>1. HostTypes' /\ CountTypes'
    BY <1>9, FilesType DEF KillCommand, BeginStop, Truncate
  <2>2. SlaveTypes'
    BY <1>9, FilesType DEF KillCommand, BeginStop, Truncate
  <2>3. OpTypes' /\ CurOK' /\ up' \in BOOLEAN /\ loaded' \in BOOLEAN
    BY <1>9, FilesType DEF KillCommand, BeginStop, Truncate
  <2> QED
    BY <2>1, <2>2, <2>3
<1>10. ASSUME NEW k \in Keys, NEW fp \in Fps, LaunchCommand(k, fp) PROVE
  TypeInv'
  <2>1. HostTypes' /\ CountTypes'
    BY <1>10, FilesType DEF LaunchCommand, BeginStop, Truncate
  <2>2. SlaveTypes'
    BY <1>10, FilesType DEF LaunchCommand, BeginStop, Truncate
  <2>3. OpTypes' /\ CurOK' /\ up' \in BOOLEAN /\ loaded' \in BOOLEAN
    BY <1>10, FilesType DEF LaunchCommand, BeginStop, Truncate
  <2> QED
    BY <2>1, <2>2, <2>3
<1>11. ASSUME NEW p \in Pids, CaptureProcessExit(p) PROVE TypeInv'
  <2>1. HostTypes' /\ CountTypes'
    BY <1>11 DEF CaptureProcessExit
  <2>2. SlaveTypes'
    BY <1>11, CaptureSlave
  <2>3. OpTypes' /\ CurOK' /\ up' \in BOOLEAN /\ loaded' \in BOOLEAN
    BY <1>11, CaptureOp
  <2> QED
    BY <2>1, <2>2, <2>3
<1>12. ASSUME LoadPersisted PROVE TypeInv'
  <2>1. HostTypes'
    BY <1>12, FilesType DEF LoadPersisted
  <2>2. SlaveTypes'
    BY <1>12, FilesType DEF Stored, Managed, LoadPersisted
  <2>3. CountTypes'
    BY <1>12, LoadCounts
  <2>4. OpTypes' /\ CurOK' /\ up' \in BOOLEAN /\ loaded' \in BOOLEAN
    BY <1>12, FilesType DEF LoadPersisted
  <2> QED
    BY <2>1, <2>2, <2>3, <2>4
<1>13. ASSUME NEW k \in Keys, VisitStopped(k) PROVE TypeInv'
  BY <1>13, FilesType DEF VisitStopped, Visiting, Continue, BeginStop,
    Truncate, NotCompleted
<1>14. ASSUME NEW k \in Keys, VisitCompleted(k) PROVE TypeInv'
  BY <1>14 DEF VisitCompleted, Visiting, Continue
<1>15. ASSUME NEW k \in Keys, VisitAbsent(k) PROVE TypeInv'
  BY <1>15 DEF VisitAbsent, Visiting, Wanted
<1>16. ASSUME NEW k \in Keys, VisitEnded(k) PROVE TypeInv'
  <2>1. HostTypes' /\ CountTypes'
    BY <1>16, FilesType, ReportType, RunsType DEF Changes, Managed, Ends,
      VisitEnded, Visiting, Finalize, Continue, Wanted, Removed
  <2>2. SlaveTypes'
    BY <1>16, FilesType DEF VisitEnded, Visiting, Finalize, Continue, Wanted,
      Report, Removed
  <2>3. OpTypes' /\ CurOK' /\ up' \in BOOLEAN /\ loaded' \in BOOLEAN
    BY <1>16, FilesType DEF VisitEnded, Visiting, Finalize, Continue, Wanted,
      Report, Removed
  <2> QED
    BY <2>1, <2>2, <2>3
<1>17. ASSUME NEW k \in Keys, VisitRunning(k) PROVE TypeInv'
  <2>1. HostTypes' /\ CountTypes'
    BY <1>17, FilesType DEF VisitRunning, Visiting, Continue, BeginStop,
      Truncate, Wanted
  <2>2. SlaveTypes'
    BY <1>17, FilesType, UpdateType
    DEF VisitRunning, Visiting, Continue, BeginStop,
      Truncate, Wanted
  <2>3. OpTypes' /\ CurOK' /\ up' \in BOOLEAN /\ loaded' \in BOOLEAN
    BY <1>17, VisitRunningOp
  <2> QED
    BY <2>1, <2>2, <2>3
<1>18. ASSUME NEW k \in Keys, VisitUnlisted(k) PROVE TypeInv'
  <2>1. HostTypes' /\ CountTypes'
    BY <1>18, FilesType, ReportType, RunsType DEF Changes, Managed, Ends,
      VisitUnlisted, Visiting, Continue, BeginStop, Truncate
  <2>2. SlaveTypes'
    BY <1>18, FilesType DEF VisitUnlisted, Visiting, Continue, BeginStop,
      Truncate, Report
  <2>3. OpTypes' /\ CurOK' /\ up' \in BOOLEAN /\ loaded' \in BOOLEAN
    BY <1>18, FilesType DEF VisitUnlisted, Visiting, Continue, BeginStop,
      Truncate, Report
  <2> QED
    BY <2>1, <2>2, <2>3
<1>19. ASSUME NEW k \in Keys, TickEnded(k) PROVE TypeInv'
  BY <1>19, FilesType, ReportType, RunsType DEF Changes, Managed, Ends,
    TickEnded, Ticking, Finalize, Continue, Removed
<1>20. ASSUME NEW k \in Keys, TickRefresh(k) PROVE TypeInv'
  BY <1>20, FilesType DEF TickRefresh, Ticking, Truncate
<1>21. ASSUME TickRefreshed PROVE TypeInv'
  BY <1>21, FillType DEF TickRefreshed, Continue
<1>22. ASSUME TickPackageChange PROVE TypeInv'
  <2>1. HostTypes' /\ CountTypes'
    BY <1>22, FilesType DEF TickPackageChange, BeginStop, Truncate
  <2>2. SlaveTypes'
    BY <1>22, FilesType DEF TickPackageChange, BeginStop, Truncate
  <2>3. OpTypes' /\ CurOK' /\ up' \in BOOLEAN /\ loaded' \in BOOLEAN
    BY <1>22, UpdateType DEF TickPackageChange, BeginStop, Truncate, Managed
  <2> QED
    BY <2>1, <2>2, <2>3
<1>23. ASSUME SendSignal PROVE TypeInv'
  <2>1. HostTypes'
    BY <1>23, SignalledType, RunsType DEF Process, SendSignal
  <2>2. /\ SlaveTypes'
       /\ CountTypes'
       /\ OpTypes'
       /\ CurOK'
       /\ up' \in BOOLEAN
       /\ loaded' \in BOOLEAN
    BY <1>23, FillType, RunsType DEF SendSignal
  <2> QED
    BY <2>1, <2>2
<1>24. ASSUME AwaitExit PROVE TypeInv'
  BY <1>24 DEF AwaitExit
<1>25. ASSUME AwaitTimeout PROVE TypeInv'
  BY <1>25, SignalledType, RunsType DEF Process, AwaitTimeout
<1>26. ASSUME RemoveStopped PROVE TypeInv'
  <2>1. HostTypes' /\ CountTypes'
    BY <1>26, FilesType, ReportType, RunsType DEF Changes, Managed, Ends,
      RemoveStopped, Removed, Continue
  <2>2. SlaveTypes'
    BY <1>26, FilesType DEF RemoveStopped, Removed, Continue, Report
  <2>3. OpTypes' /\ CurOK' /\ up' \in BOOLEAN /\ loaded' \in BOOLEAN
    BY <1>26, FilesType DEF RemoveStopped, Removed, Continue, Report
  <2> QED
    BY <2>1, <2>2, <2>3
<1>27. ASSUME NEW p \in Pids, Spawn(p) PROVE TypeInv'
  BY <1>27, SpawnType
<1>28. ASSUME StartFails PROVE TypeInv'
  BY <1>28 DEF StartFails, NotCompleted, Continue
<1>29. ASSUME WriteStarted PROVE TypeInv'
  <2>1. HostTypes'
    BY <1>29 DEF WriteStarted, Continue, Report
  <2>2. /\ SlaveTypes'
       /\ CountTypes'
       /\ OpTypes'
       /\ CurOK'
       /\ up' \in BOOLEAN
       /\ loaded' \in BOOLEAN
    BY <1>29, FillType, ReportType, RunsType DEF Changes, Managed, Ends,
      WriteStarted, Continue
  <2> QED
    BY <2>1, <2>2
<1>30. ASSUME EndOp PROVE TypeInv'
  BY <1>30 DEF EndOp
<1>31. CASE UNCHANGED vars
  BY <1>31 DEF vars, HostTypes, SlaveTypes, CountTypes, OpTypes, CurOK
<1> QED
  BY <1>1, <1>2, <1>3, <1>4, <1>5, <1>6, <1>7, <1>8, <1>9, <1>10, <1>11,
    <1>12, <1>13, <1>14, <1>15, <1>16, <1>17, <1>18, <1>19, <1>20, <1>21,
    <1>22, <1>23, <1>24, <1>25, <1>26, <1>27, <1>28, <1>29, <1>30, <1>31 DEF
    Next, Host, Command, HolderStep

\* The types hold at first.
LEMMA InitType == Init => TypeInv
<1> SUFFICES ASSUME Init PROVE TypeInv
  OBVIOUS
<1> USE DEF Init
<1>1. HostTypes
  BY FreeType, ConstantsAssumption DEF ConstantsAssumption, HostTypes, Boots
<1>2. SlaveTypes
  BY DEF SlaveTypes, DesiredLists
<1>3. OpTypes
  BY DEF OpTypes, Steps
<1>4. CountTypes
  BY DEF CountTypes
<1>5. up \in BOOLEAN /\ loaded \in BOOLEAN
  OBVIOUS
<1>6. CurOK
  BY DEF CurOK
<1> QED
  BY <1>1, <1>2, <1>3, <1>4, <1>5, <1>6 DEF TypeInv, TypeOK

\* The types and the key at work, always.
LEMMA TypeInvariant == Spec => []TypeInv
  BY InitType, TypeStep, PTL DEF Spec

\* Every variable keeps its type, for any hosts, lists, hazards and bounds.
THEOREM TypeCorrect == Spec => []TypeOK
  BY TypeInvariant, PTL DEF TypeInv



-----------------------------------------------------------------------------
(* Whose pid is whose.                                                     *)

\* A readable state file.
Good(f) == file[f] \notin {None, Torn}

\* A pid that has not been handed out is as at boot; what the slave launched has
\* a run and a key.
OwnOs == \A p \in Pids : /\ os[p].st = "free" => os[p] = FreePid
                         /\ os[p].run # 0 => os[p].key \in Keys

\* The pid of a managed process belongs to its run and key.
OwnProcs == \A k \in Keys : processes[k] # None =>
               /\ os[processes[k].pid].run = processes[k].run
               /\ os[processes[k].pid].key = k

\* So does the pid in a file of this boot.
OwnFiles == \A f \in Files : Good(f) =>
               /\ file[f].boot <= boot
               /\ file[f].boot = boot => /\ os[file[f].pid].run = file[f].run
                                         /\ os[file[f].pid].key = file[f].key

\* Pids are not mixed up.
OwnInv == OwnOs /\ OwnProcs /\ OwnFiles

\* Most actions leave the identity of pids alone, manage nothing new, and write
\* no file but the record of something managed.
KeepsOs == \A p \in Pids : /\ os'[p].run = os[p].run /\ os'[p].key = os[p].key
                           /\ os'[p].st = "free" => os'[p] = os[p]
KeepsProcs ==
  \A k \in Keys : processes'[k] # None =>
    /\ processes[k] # None
    /\ processes'[k].run = processes[k].run
    /\ processes'[k].pid = processes[k].pid
KeepsFiles ==
  \A f \in Files : Good(f)' =>
    \/ file'[f] = file[f]
    \/ \E k \in Keys : processes[k] # None /\ file'[f] = Record(k)
Keeps == KeepsOs /\ KeepsProcs /\ KeepsFiles /\ boot' = boot

\* The fields of what is managed and of what a file holds.
LEMMA ProcFacts ==
  ASSUME TypeInv
  PROVE  /\ \A k \in Keys : processes[k] # None =>
              /\ processes[k].pid \in Pids
              /\ processes[k].run \in RunIds /\ processes[k].run # 0
              /\ Record(k).boot = boot /\ Record(k).pid = processes[k].pid
              /\ Record(k).run = processes[k].run /\ Record(k).key = k
         /\ \A f \in Files : Good(f) =>
              /\ file[f].pid \in Pids /\ file[f].key \in Keys
              /\ file[f].run \in RunIds /\ file[f].run # 0
              /\ file[f].boot \in Nat
         /\ boot \in Nat
<1>1. \A k \in Keys : processes[k] # None =>
        /\ processes[k].pid \in Pids
        /\ processes[k].run \in RunIds /\ processes[k].run # 0
  BY DEF TypeInv, TypeOK, SlaveTypes, Managed, RunIds
<1>2. \A f \in Files : Good(f) =>
        /\ file[f].pid \in Pids /\ file[f].key \in Keys
        /\ file[f].run \in RunIds /\ file[f].run # 0
        /\ file[f].boot \in Nat
  BY DEF TypeInv, TypeOK, SlaveTypes, Stored, RunIds, Boots, Good
<1>3. boot \in Nat
  BY DEF TypeInv, TypeOK, HostTypes, Boots
<1>4. \A k \in Keys : processes[k] # None =>
        /\ Record(k).boot = boot /\ Record(k).pid = processes[k].pid
        /\ Record(k).run = processes[k].run /\ Record(k).key = k
  BY DEF Record
<1> QED
  BY <1>1, <1>2, <1>3, <1>4

\* Such an action preserves the invariant.
LEMMA OwnFrame ==
  ASSUME TypeInv, OwnInv, Keeps
  PROVE  OwnInv'
<1>1. OwnOs'
  BY DEF OwnInv, OwnOs, Keeps, KeepsOs
<1>2. OwnProcs'
  BY ProcFacts DEF OwnInv, OwnProcs, Keeps, KeepsOs, KeepsProcs
<1>3. OwnFiles'
  <2> SUFFICES ASSUME NEW f \in Files, Good(f)'
               PROVE  /\ file'[f].boot <= boot'
                      /\ file'[f].boot = boot' =>
                           /\ os'[file'[f].pid].run = file'[f].run
                           /\ os'[file'[f].pid].key = file'[f].key
    BY DEF OwnFiles
  <2>1. CASE file'[f] = file[f]
    BY <2>1, ProcFacts DEF OwnInv, OwnFiles, Keeps, KeepsOs, Good
  <2>2. CASE \E k \in Keys : processes[k] # None /\ file'[f] = Record(k)
    BY <2>2, ProcFacts DEF OwnInv, OwnProcs, Keeps, KeepsOs
  <2> QED
    BY <2>1, <2>2 DEF Keeps, KeepsFiles
<1> QED
  BY <1>1, <1>2, <1>3 DEF OwnInv

\* A crash reaps zombies and forgets what was managed.
LEMMA KeepsCrash ==
  ASSUME TypeInv, SlaveCrash
  PROVE  Keeps
<1>1. KeepsOs
  BY DEF SlaveCrash, KeepsOs, TypeInv, TypeOK, HostTypes, Process
<1>2. KeepsProcs /\ KeepsFiles /\ boot' = boot
  BY DEF SlaveCrash, SlaveGone, KeepsProcs, KeepsFiles, Good
<1> QED
  BY <1>1, <1>2 DEF Keeps

\* A process of somebody else takes a pid that no run has.
LEMMA KeepsForeign ==
  ASSUME TypeInv, OwnInv, NEW p \in Pids, ForeignStarts(p)
  PROVE  Keeps
<1>1. KeepsOs
  BY DEF ForeignStarts, Unused, KeepsOs, TypeInv, TypeOK, HostTypes, Process,
         OwnInv, OwnOs, FreePid
<1>2. KeepsProcs /\ KeepsFiles /\ boot' = boot
  BY DEF ForeignStarts, KeepsProcs, KeepsFiles, Good, memoryVars
<1> QED
  BY <1>1, <1>2 DEF Keeps

\* Reboot: every file is of an earlier boot.
LEMMA OwnReboot ==
  ASSUME TypeInv, OwnInv, Reboot
  PROVE  OwnInv'
<1>1. OwnOs'
  BY DEF Reboot, OwnOs, FreePid
<1>2. OwnProcs'
  BY DEF Reboot, SlaveGone, OwnProcs
<1>3. OwnFiles'
  BY ProcFacts DEF Reboot, SlaveGone, OwnInv, OwnFiles, Good
<1> QED
  BY <1>1, <1>2, <1>3 DEF OwnInv

\* Spawn: the pid was free, so no process and no file named it.
LEMMA OwnSpawn ==
  ASSUME TypeInv, OwnInv, NEW p \in Pids, Spawn(p)
  PROVE  OwnInv'
<1>1. /\ os[p].run = 0 /\ cur \in Keys
      /\ os' = [os EXCEPT ![p] = Launched(nextRun, cur, nxt.fp)]
      /\ processes' = [processes EXCEPT ![cur] =
                     [run |-> nextRun, pid |-> p, fp |-> nxt.fp,
                      desired |-> nxt, cmd |-> TRUE, exit |-> "none"]]
      /\ Truncate(cur) /\ boot' = boot
  BY DEF Spawn, Unused, TypeInv, CurOK, OwnInv, OwnOs, FreePid
<1>2. OwnOs'
  BY <1>1 DEF OwnInv, OwnOs, Launched, TypeInv, TypeOK, HostTypes
<1>3. OwnProcs'
  BY <1>1, ProcFacts
  DEF OwnInv, OwnProcs, Launched, TypeInv, TypeOK, HostTypes, SlaveTypes
<1>4. OwnFiles'
  BY <1>1, ProcFacts, FilesType
  DEF OwnInv, OwnFiles, Good, Truncate, TypeInv, TypeOK, HostTypes, SlaveTypes
<1> QED
  BY <1>2, <1>3, <1>4 DEF OwnInv

\* Loading adopts only what an adoptable file describes ...
LEMMA Loaded ==
  ASSUME TypeInv, LoadPersisted, NEW k \in Keys
  PROVE  \/ processes'[k] = processes[k]
         \/ /\ Good(FileOf[k]) /\ Adoptable(FileOf[k]) /\ file[FileOf[k]].key = k
            /\ FileOf[k] \notin
                 {FileOf[j] : j \in {i \in Keys : processes[i] # None}}
            /\ processes'[k].run = file[FileOf[k]].run
            /\ processes'[k].pid = file[FileOf[k]].pid
            /\ processes'[k].exit = "none"
  BY FilesType DEF LoadPersisted, Good

\* ... and removes only files that are not adoptable.
LEMMA LoadFiles ==
  ASSUME TypeInv, LoadPersisted, NEW f \in Files
  PROVE  file'[f] = file[f] \/ (file'[f] = None /\ ~Adoptable(f))
  BY FilesType DEF LoadPersisted

\* Loading: what is adopted is what its file describes.
LEMMA OwnLoad ==
  ASSUME TypeInv, OwnInv, LoadPersisted
  PROVE  OwnInv'
<1>1. UNCHANGED <<os, boot>>
  BY DEF LoadPersisted, hostVars
<1>2. OwnProcs'
  BY <1>1, Loaded, ProcFacts, FilesType
  DEF OwnInv, OwnProcs, OwnFiles, Adoptable
<1>3. OwnFiles'
  BY <1>1, LoadFiles DEF OwnInv, OwnFiles, Good
<1> QED
  BY <1>1, <1>2, <1>3 DEF OwnInv, OwnOs

\* Every step preserves the invariant.
LEMMA OwnStep ==
  ASSUME TypeInv, OwnInv, [Next]_vars
  PROVE  OwnInv'
<1> USE DEF TypeInv, TypeOK, CurOK, HostTypes, SlaveTypes, OpTypes, Keeps,
        KeepsOs, KeepsProcs, KeepsFiles, Good, hostVars, memoryVars, opVars,
        inputVars
<1>1. ASSUME NEW p \in Pids, NEW how \in Ends, ProcessEnds(p, how) PROVE
  OwnInv'
  <2>1. Keeps
    BY <1>1 DEF ProcessEnds
  <2> QED
    BY <2>1, OwnFrame
<1>2. ASSUME NEW p \in Pids, Reap(p) PROVE OwnInv'
  <2>1. Keeps
    BY <1>2 DEF Reap
  <2> QED
    BY <2>1, OwnFrame
<1>3. ASSUME NEW p \in Pids, ForeignStarts(p) PROVE OwnInv'
  BY <1>3, KeepsForeign, OwnFrame
<1>4. ASSUME SlaveCrash PROVE OwnInv'
  BY <1>4, KeepsCrash, OwnFrame
<1>5. ASSUME Reboot PROVE OwnInv'
  BY <1>5, OwnReboot
<1>6. ASSUME SlaveStart PROVE OwnInv'
  <2>1. Keeps
    BY <1>6, FilesType DEF SlaveStart
  <2> QED
    BY <2>1, OwnFrame
<1>7. ASSUME NEW l \in Lists, BeginReconcile(l) PROVE OwnInv'
  <2>1. Keeps
    BY <1>7 DEF BeginReconcile, Idle
  <2> QED
    BY <2>1, OwnFrame
<1>8. ASSUME BeginTick PROVE OwnInv'
  <2>1. Keeps
    BY <1>8 DEF BeginTick, Idle
  <2> QED
    BY <2>1, OwnFrame
<1>9. ASSUME NEW k \in Keys, NEW m \in {"stop_soft","stop_hard"},
  KillCommand(k, m) PROVE OwnInv'
  <2>1. Keeps
    BY <1>9, FilesType DEF KillCommand, BeginStop, Truncate
  <2> QED
    BY <2>1, OwnFrame
<1>10. ASSUME NEW k \in Keys, NEW fp \in Fps, LaunchCommand(k, fp) PROVE
  OwnInv'
  <2>1. Keeps
    BY <1>10, FilesType DEF LaunchCommand, BeginStop, Truncate
  <2> QED
    BY <2>1, OwnFrame
<1>11. ASSUME NEW p \in Pids, CaptureProcessExit(p) PROVE OwnInv'
  <2>1. Keeps
    BY <1>11 DEF CaptureProcessExit, Idle, IsCommandOf
  <2> QED
    BY <2>1, OwnFrame
<1>12. ASSUME LoadPersisted PROVE OwnInv'
  BY <1>12, OwnLoad
<1>13. ASSUME NEW k \in Keys, VisitStopped(k) PROVE OwnInv'
  <2>1. Keeps
    BY <1>13, FilesType DEF VisitStopped, Visiting, Continue, BeginStop,
      Truncate
  <2> QED
    BY <2>1, OwnFrame
<1>14. ASSUME NEW k \in Keys, VisitCompleted(k) PROVE OwnInv'
  <2>1. Keeps
    BY <1>14 DEF VisitCompleted, Visiting, Continue
  <2> QED
    BY <2>1, OwnFrame
<1>15. ASSUME NEW k \in Keys, VisitAbsent(k) PROVE OwnInv'
  <2>1. Keeps
    BY <1>15 DEF VisitAbsent, Visiting
  <2> QED
    BY <2>1, OwnFrame
<1>16. ASSUME NEW k \in Keys, VisitEnded(k) PROVE OwnInv'
  <2>1. Keeps
    BY <1>16, FilesType DEF VisitEnded, Visiting, Finalize, Continue, Removed
  <2> QED
    BY <2>1, OwnFrame
<1>17. ASSUME NEW k \in Keys, VisitRunning(k) PROVE OwnInv'
  <2>1. Keeps
    BY <1>17, FilesType DEF VisitRunning, Visiting, Continue, BeginStop,
      Truncate
  <2> QED
    BY <2>1, OwnFrame
<1>18. ASSUME NEW k \in Keys, VisitUnlisted(k) PROVE OwnInv'
  <2>1. Keeps
    BY <1>18, FilesType DEF VisitUnlisted, Visiting, Continue, BeginStop,
      Truncate
  <2> QED
    BY <2>1, OwnFrame
<1>19. ASSUME NEW k \in Keys, TickEnded(k) PROVE OwnInv'
  <2>1. Keeps
    BY <1>19, FilesType DEF TickEnded, Ticking, Finalize, Continue, Removed
  <2> QED
    BY <2>1, OwnFrame
<1>20. ASSUME NEW k \in Keys, TickRefresh(k) PROVE OwnInv'
  <2>1. Keeps
    BY <1>20, FilesType DEF TickRefresh, Ticking, Truncate
  <2> QED
    BY <2>1, OwnFrame
<1>21. ASSUME TickRefreshed PROVE OwnInv'
  <2>1. Keeps
    BY <1>21, FilesType DEF TickRefreshed, Fill, Continue
  <2> QED
    BY <2>1, OwnFrame
<1>22. ASSUME TickPackageChange PROVE OwnInv'
  <2>1. Keeps
    BY <1>22, FilesType DEF TickPackageChange, BeginStop, Truncate
  <2> QED
    BY <2>1, OwnFrame
<1>23. ASSUME SendSignal PROVE OwnInv'
  <2>1. Keeps
    BY <1>23, FilesType DEF SendSignal, Fill, Signalled
  <2> QED
    BY <2>1, OwnFrame
<1>24. ASSUME AwaitExit PROVE OwnInv'
  <2>1. Keeps
    BY <1>24 DEF AwaitExit
  <2> QED
    BY <2>1, OwnFrame
<1>25. ASSUME AwaitTimeout PROVE OwnInv'
  <2>1. Keeps
    BY <1>25 DEF AwaitTimeout, Signalled
  <2> QED
    BY <2>1, OwnFrame
<1>26. ASSUME RemoveStopped PROVE OwnInv'
  <2>1. Keeps
    BY <1>26, FilesType DEF RemoveStopped, Removed, Continue
  <2> QED
    BY <2>1, OwnFrame
<1>27. ASSUME NEW p \in Pids, Spawn(p) PROVE OwnInv'
  BY <1>27, OwnSpawn
<1>28. ASSUME StartFails PROVE OwnInv'
  <2>1. Keeps
    BY <1>28 DEF StartFails, Continue
  <2> QED
    BY <2>1, OwnFrame
<1>29. ASSUME WriteStarted PROVE OwnInv'
  <2>1. Keeps
    BY <1>29, FilesType DEF WriteStarted, Fill, Continue
  <2> QED
    BY <2>1, OwnFrame
<1>30. ASSUME EndOp PROVE OwnInv'
  <2>1. Keeps
    BY <1>30 DEF EndOp
  <2> QED
    BY <2>1, OwnFrame
<1>31. CASE UNCHANGED vars
  BY <1>31 DEF vars, OwnInv, OwnOs, OwnProcs, OwnFiles
<1> QED
  BY <1>1, <1>2, <1>3, <1>4, <1>5, <1>6, <1>7, <1>8, <1>9, <1>10, <1>11,
    <1>12, <1>13, <1>14, <1>15, <1>16, <1>17, <1>18, <1>19, <1>20, <1>21,
    <1>22, <1>23, <1>24, <1>25, <1>26, <1>27, <1>28, <1>29, <1>30, <1>31 DEF
    Next, Host, Command, HolderStep

\* The invariant holds at first.
LEMMA OwnInit == Init => OwnInv
  BY FilesType
  DEF Init, OwnInv, OwnOs, OwnProcs, OwnFiles, Good, FreePid, Pids, Files

\* Types and ownership, always.
LEMMA OwnInvariant == Spec => [](TypeInv /\ OwnInv)
<1>1. TypeInv /\ OwnInv /\ [Next]_vars => (TypeInv /\ OwnInv)'
  BY TypeStep, OwnStep
<1>2. Init => TypeInv /\ OwnInv
  BY InitType, OwnInit
<1> QED
  BY <1>1, <1>2, PTL DEF Spec

\* A signal is sent by the two steps that stop the process at work only.
SignalStep == \A p \in Pids : os'[p].sig \notin {os[p].sig, "none"} =>
                os[p].key = cur /\ os[p].run = processes[cur].run

\* A step that signals nobody.
LEMMA QuietSignals ==
  ASSUME \A p \in Pids : os'[p].sig \in {os[p].sig, "none"}
  PROVE  SignalStep
  BY DEF SignalStep

\* The two steps that signal: the pid is that of the key at work.
LEMMA StopSignals ==
  ASSUME TypeInv, OwnInv, SendSignal \/ AwaitTimeout
  PROVE  SignalStep
<1>1. cur \in Keys /\ processes[cur] # None
  BY DEF SendSignal, AwaitTimeout, TypeInv, CurOK
<1>2. PICK s \in {"term", "kill"} : os' = Signalled(processes[cur].pid, s)
  BY DEF SendSignal, AwaitTimeout
<1>3. \A p \in Pids : p # processes[cur].pid => os'[p] = os[p]
  BY <1>2 DEF Signalled, TypeInv, TypeOK, HostTypes
<1>4. /\ os[processes[cur].pid].run = processes[cur].run
      /\ os[processes[cur].pid].key = cur
  BY <1>1 DEF OwnInv, OwnProcs
<1> QED
  BY <1>3, <1>4 DEF SignalStep

\* No step signals a process other than the one being stopped.
LEMMA SignalsStep ==
  ASSUME TypeInv, OwnInv, [Next]_vars
  PROVE  SignalStep
<1> USE DEF hostVars
<1>1. ASSUME Host PROVE SignalStep
  <2>1. ASSUME NEW p \in Pids, NEW how \in Ends, ProcessEnds(p, how)
        PROVE  SignalStep
    BY <2>1, QuietSignals DEF ProcessEnds, TypeInv, TypeOK, HostTypes, Process
  <2>2. ASSUME NEW p \in Pids, Reap(p) PROVE SignalStep
    BY <2>2, QuietSignals DEF Reap, TypeInv, TypeOK, HostTypes, Process
  <2>3. ASSUME NEW p \in Pids, ForeignStarts(p) PROVE SignalStep
    BY <2>3, QuietSignals DEF ForeignStarts, FreePid, TypeInv, TypeOK, HostTypes
  <2>4. ASSUME SlaveCrash PROVE SignalStep
    BY <2>4, QuietSignals DEF SlaveCrash, TypeInv, TypeOK, HostTypes, Process
  <2>5. ASSUME Reboot PROVE SignalStep
    BY <2>5, QuietSignals DEF Reboot, FreePid
  <2> QED
    BY <1>1, <2>1, <2>2, <2>3, <2>4, <2>5 DEF Host
<1>2. ASSUME NEW p \in Pids, Spawn(p) PROVE SignalStep
  BY <1>2, QuietSignals DEF Spawn, Launched, TypeInv, TypeOK, HostTypes
<1>3. CASE SendSignal \/ AwaitTimeout
  BY <1>3, StopSignals
<1>4. CASE os' = os
  BY <1>4, QuietSignals
<1>5. ASSUME HolderStep PROVE SignalStep
  BY <1>2, <1>3, <1>4, <1>5
  DEF HolderStep, LoadPersisted, VisitStopped, VisitCompleted, VisitAbsent,
      VisitEnded, VisitRunning, VisitUnlisted, TickEnded, TickRefresh,
      TickRefreshed, TickPackageChange, AwaitExit, RemoveStopped, StartFails,
      WriteStarted, EndOp
<1> QED
  BY <1>1, <1>4, <1>5
  DEF Next, Command, SlaveStart, BeginReconcile, BeginTick, KillCommand,
      LaunchCommand, CaptureProcessExit, vars

\* A signal goes to the very process that is being stopped: for any hazards, any
\* number of reboots and any foreign process that takes the pids.
THEOREM SignalsOwned == Spec => SignalsOnlyOwn
<1>1. TypeInv /\ OwnInv /\ [Next]_vars =>
        [\A p \in Pids : os'[p].sig \notin {os[p].sig, "none"} =>
           os[p].key = cur /\ os[p].run = processes[cur].run]_vars
  BY SignalsStep DEF SignalStep
<1> QED
  BY <1>1, OwnInvariant, PTL DEF Spec, SignalsOnlyOwn

-----------------------------------------------------------------------------
(* What was launched stays in hand.                                        *)

\* The instances the theorems are about.
Reliable == /\ Hazards \subseteq {"foreign"}
            /\ \A j, k \in Keys : FileOf[j] = FileOf[k] => j = k

\* The files have been loaded since the slave started.
PostLoad == loaded \/ (op = "reconcile" /\ step # "load")

\* The file of k is truncated and not complete yet.
Writing(k) == cur = k /\ step \in {"stop_soft", "stop_hard", "write", "refresh"}

\* A file of this boot that leads to p.
LeadsTo(f, p) == Good(f) /\ file[f].pid = p /\ file[f].boot = boot

\* How far the slave has come.
PhaseOK ==
  /\ op = "idle" => step = "visit"
  /\ step = "load" => op = "reconcile"
  /\ ~up => op = "idle" /\ ~loaded
  /\ step \notin {"load", "visit"} => PostLoad
  /\ step = "start" => processes[cur] = None
  /\ \A k \in Keys : processes[k] # None => PostLoad

\* A managed process has a file that leads to it, unless it is being written.
HasFile == \A k \in Keys : processes[k] # None /\ ~Writing(k) =>
             LeadsTo(FileOf[k], processes[k].pid)

\* What runs is managed, or its file leads to it while nothing is loaded.
Tracked == \A p \in Pids : Running(p) =>
   IF PostLoad THEN processes[os[p].key] # None /\ processes[os[p].key].pid = p
   ELSE LeadsTo(FileOf[os[p].key], p)

\* What is about to be forgotten no longer runs: this is why SIGKILL comes first.
RemoveOK == step = "remove" => ~Running(processes[cur].pid)

\* Only the results of dead processes are held and recorded.
ExitOK == /\ \A p \in captured : os[p].st = "dead"
          /\ \A k \in Keys : processes[k] # None /\ processes[k].exit # "none" =>
               os[processes[k].pid].st = "dead"

\* A run has one pid.
RunsOK == /\ \A p \in Pids : os[p].run < nextRun
          /\ \A p, q \in Pids : os[p].run # 0 /\ os[p].run = os[q].run => p = q

\* The slave has hold of what it launched.
TrackInv == PhaseOK /\ HasFile /\ Tracked /\ RemoveOK /\ ExitOK /\ RunsOK

\* A write or removal of one file leaves those of other keys alone.
LEMMA Injective ==
  ASSUME Reliable, TypeInv, NEW k \in Keys
  PROVE  /\ Truncate(k) => /\ file'[FileOf[k]] = Torn
                           /\ \A j \in Keys \ {k} : file'[FileOf[j]] = file[FileOf[j]]
         /\ Removed(k) => /\ file'[FileOf[k]] = None
                          /\ \A j \in Keys \ {k} : file'[FileOf[j]] = file[FileOf[j]]
         /\ Fill(k) => /\ file'[FileOf[k]] = Record(k)
                       /\ \A j \in Keys \ {k} : file'[FileOf[j]] = file[FileOf[j]]
  BY FilesType
  DEF Reliable, Truncate, Removed, Fill, TypeInv, TypeOK, SlaveTypes

\* The record of a managed process leads to it.
LEMMA RecordLeads ==
  ASSUME TypeInv, NEW k \in Keys, processes[k] # None
  PROVE  /\ Record(k) \notin {None, Torn}
         /\ Record(k).pid = processes[k].pid /\ Record(k).boot = boot
  BY RecordType, ConstantsAssumption DEF ConstantsAssumption, TypeInv, Record

\* A signal makes nothing run again, and SIGKILL ends what it reaches.
LEMMA SignalledFacts ==
  ASSUME TypeInv, NEW p \in Pids, NEW s \in {"term", "kill"},
         os' = Signalled(p, s)
  PROVE  /\ \A q \in Pids : /\ os'[q].key = os[q].key /\ os'[q].run = os[q].run
                            /\ os'[q].st = os[q].st
         /\ \A q \in Pids : Running(q)' => Running(q)
         /\ s = "kill" => ~Running(p)'
<1>1. os' = IF os[p].st = "live" /\ os[p].sig # "kill"
            THEN [os EXCEPT ![p] = [os[p] EXCEPT !.sig = s]] ELSE os
  BY DEF Signalled
<1>2. os[p] \in Process /\ os \in [Pids -> Process]
  BY DEF TypeInv, TypeOK, HostTypes
<1>3. \A q \in Pids : q # p => os'[q] = os[q]
  BY <1>1, <1>2
<1>4. /\ os'[p].key = os[p].key
      /\ os'[p].run = os[p].run
      /\ os'[p].st = os[p].st
      /\ os[p].st = "live" /\ os[p].sig # "kill" => os'[p].sig = s
  BY <1>1, <1>2 DEF Process
<1>5. s = "kill" => ~Running(p)'
  BY <1>1, <1>4 DEF Running
<1>6. Running(p)' => Running(p)
  BY <1>4, <1>1 DEF Running
<1>7. \A q \in Pids : Running(q)' => Running(q)
  BY <1>3, <1>6 DEF Running
<1> QED
  BY <1>3, <1>4, <1>5, <1>7

\* Recording a result or a desired process leaves a managed process where it is.
SameManaged ==
  \A k \in Keys : /\ (processes'[k] = None) <=> (processes[k] = None)
                  /\ processes[k] # None => processes'[k].pid = processes[k].pid

\* An exit result that gets the mutex.
LEMMA CaptureKeeps ==
  ASSUME TypeInv, NEW p \in Pids, CaptureProcessExit(p)
  PROVE  SameManaged
<1> SUFFICES ASSUME NEW k \in Keys
             PROVE  /\ (processes'[k] = None) <=> (processes[k] = None)
                    /\ processes[k] # None => processes'[k].pid = processes[k].pid
  BY DEF SameManaged
<1>1. CASE IsCommandOf(k, p)
  <2>1. /\ os[p].how \in Ends \cup {"none"} /\ processes[k] # None
        /\ processes[k] \in Managed
    BY <1>1 DEF IsCommandOf, TypeInv, TypeOK, HostTypes, SlaveTypes, Process
  <2>2. processes'[k] = [processes[k] EXCEPT !.exit = os[p].how]
    BY <1>1 DEF CaptureProcessExit
  <2>3. processes'[k] # None
    BY <2>1, <2>2, UpdateType
  <2> QED
    BY <2>1, <2>2, <2>3 DEF Managed
<1>2. CASE ~IsCommandOf(k, p)
  BY <1>2 DEF CaptureProcessExit
<1> QED
  BY <1>1, <1>2

\* A running process that is visited.
LEMMA VisitRunningKeeps ==
  ASSUME TypeInv, NEW j \in Keys, VisitRunning(j)
  PROVE  SameManaged
<1>1. /\ processes[j] # None /\ processes[j] \in Managed
      /\ list[j] \in Desired \cup {None}
      /\ processes' = [processes EXCEPT ![j].desired = list[j]]
  BY DEF VisitRunning, TypeInv, TypeOK, SlaveTypes, DesiredLists
<1>2. /\ [processes[j] EXCEPT !.desired = list[j]] # None
      /\ [processes[j] EXCEPT !.desired = list[j]].pid = processes[j].pid
  BY <1>1, UpdateType DEF Managed
<1> QED
  BY <1>1, <1>2 DEF SameManaged, TypeInv, TypeOK, SlaveTypes

\* Loading leaves what is managed, and its file, alone.
LEMMA LoadUnowned ==
  ASSUME TypeInv, LoadPersisted, NEW k \in Keys, processes[k] # None
  PROVE  file'[FileOf[k]] = file[FileOf[k]] /\ processes'[k] = processes[k]
  BY FilesType DEF LoadPersisted

\* Loading adopts what an adoptable file describes when nothing is managed.
LEMMA LoadAdopts ==
  ASSUME TypeInv, LoadPersisted, \A j \in Keys : processes[j] = None,
         NEW k \in Keys, Adoptable(FileOf[k]), file[FileOf[k]].key = k
  PROVE  /\ file'[FileOf[k]] = file[FileOf[k]] /\ processes'[k] # None
         /\ processes'[k].pid = file[FileOf[k]].pid
<1>1. /\ FileOf[k] \in Files
      /\ {FileOf[i] : i \in {j \in Keys : processes[j] # None}} = {}
  BY FilesType
<1>2. processes'[k] = [run |-> file[FileOf[k]].run, pid |-> file[FileOf[k]].pid,
                   fp |-> file[FileOf[k]].fp, desired |-> list[k],
                   cmd |-> FALSE, exit |-> "none"]
  BY <1>1 DEF LoadPersisted, Adoptable
<1>3. processes'[k] \in Managed
  BY <1>2, <1>1
  DEF Managed, Adoptable, TypeInv, TypeOK, SlaveTypes, DesiredLists, Stored
<1>4. file'[FileOf[k]] = file[FileOf[k]]
  BY <1>1, LoadFiles
<1>5. processes'[k] # None
  BY <1>3, ConstantsAssumption DEF ConstantsAssumption
<1> QED
  BY <1>2, <1>4, <1>5

\* See FileFrame.
FileStep ==
  /\ boot' = boot
  /\ \A k \in Keys : processes'[k] # None /\ ~Writing(k)' =>
       /\ processes[k] # None /\ processes'[k].pid = processes[k].pid
       /\ \/ file'[FileOf[k]] = Record(k)
          \/ ~Writing(k) /\ file'[FileOf[k]] = file[FileOf[k]]

\* See HoldFrame.
HoldStep ==
  /\ PostLoad /\ PostLoad'
  /\ \A p \in Pids : Running(p)' => Running(p) /\ os'[p].key = os[p].key
  /\ \A k \in Keys, p \in Pids :
       processes[k] # None /\ processes[k].pid = p /\ Running(p)' =>
         processes'[k] # None /\ processes'[k].pid = p

\* A step preserves HasFile when each file not being written is the new record of
\* its process, or is unchanged.
LEMMA FileFrame ==
  ASSUME TypeInv, TrackInv, FileStep
  PROVE  HasFile'
  BY RecordLeads DEF TrackInv, FileStep, HasFile, LeadsTo, Good

\* A step preserves Tracked when what runs stays managed.
LEMMA HoldFrame ==
  ASSUME TypeInv, OwnInv, TrackInv, HoldStep
  PROVE  Tracked'
<1> SUFFICES ASSUME NEW p \in Pids, Running(p)'
             PROVE  /\ processes'[os'[p].key] # None
                    /\ processes'[os'[p].key].pid = p
  BY DEF HoldStep, Tracked
<1>1. Running(p) /\ os'[p].key = os[p].key
  BY DEF HoldStep
<1>2. /\ processes[os[p].key] # None /\ processes[os[p].key].pid = p
      /\ os[p].key \in Keys
  BY <1>1 DEF TrackInv, Tracked, HoldStep, OwnInv, OwnOs, Running
<1> QED
  BY <1>1, <1>2 DEF HoldStep

\* The same process table, the same processes run.
LEMMA SameRunning ==
  ASSUME os' = os
  PROVE  \A p \in Pids : Running(p)' <=> Running(p)
  BY DEF Running

\* A kill command begins to stop a process.
LEMMA KillTrack ==
  ASSUME Reliable, TypeInv, OwnInv, TrackInv, NEW k \in Keys,
         NEW m \in {"stop_soft", "stop_hard"}, KillCommand(k, m)
  PROVE  TrackInv'
<1>1. loaded /\ processes[k] # None
  BY DEF KillCommand, Idle, TrackInv, PhaseOK, PostLoad
<1>2. /\ UNCHANGED <<os, captured, boot, loaded, processes, nextRun, up>> 
      /\ cur' = k /\ step' = m /\ op' = "command" /\ Truncate(k)
      /\ step = "visit" /\ up
  BY DEF KillCommand, Idle, BeginStop, hostVars, memoryVars, TrackInv, PhaseOK
<1>3. m \notin {"visit", "load", "start", "remove"}
  OBVIOUS
<1>4. PhaseOK' /\ RemoveOK' /\ ExitOK' /\ RunsOK'
  BY <1>1, <1>2, <1>3 DEF TrackInv, PhaseOK, PostLoad, RemoveOK, ExitOK, RunsOK
<1>5. FileStep
  BY <1>1, <1>2, Injective DEF FileStep, Writing
<1>6. HoldStep
  BY <1>1, <1>2, SameRunning DEF HoldStep, PostLoad
<1> QED
  BY <1>4, <1>5, <1>6, FileFrame, HoldFrame DEF TrackInv

\* A launch command starts a process or begins to stop the one it replaces.
LEMMA LaunchTrack ==
  ASSUME Reliable, TypeInv, OwnInv, TrackInv, NEW k \in Keys,
         NEW fp \in Fps, LaunchCommand(k, fp)
  PROVE  TrackInv'
<1>1. loaded /\ step = "visit" /\ up
  BY DEF LaunchCommand, Idle, TrackInv, PhaseOK, Reliable
<1>2. /\ UNCHANGED <<os, captured, boot, loaded, processes, nextRun, up>> 
      /\ cur' = k /\ op' = "command"
      /\ \/ step' = "start" /\ file' = file /\ processes[k] = None
         \/ step' = "stop_hard" /\ Truncate(k) /\ processes[k] # None
  BY DEF LaunchCommand, Idle, BeginStop, hostVars, memoryVars, TrackInv, PhaseOK
<1>4. PhaseOK' /\ RemoveOK' /\ ExitOK' /\ RunsOK'
  BY <1>1, <1>2 DEF TrackInv, PhaseOK, PostLoad, RemoveOK, ExitOK, RunsOK
<1>5. FileStep
  BY <1>1, <1>2, Injective DEF FileStep, Writing
<1>6. HoldStep
  BY <1>1, <1>2, SameRunning DEF HoldStep, PostLoad
<1> QED
  BY <1>4, <1>5, <1>6, FileFrame, HoldFrame DEF TrackInv

\* An exit result that gets the mutex loses hold of nothing.
LEMMA CaptureHold ==
  ASSUME TypeInv, OwnInv, TrackInv, NEW p \in Pids, CaptureProcessExit(p)
  PROVE  Tracked'
<1>1. UNCHANGED <<os, loaded, op, step, file, boot>>
  BY DEF CaptureProcessExit, opVars
<1>2. SameManaged
  BY CaptureKeeps
<1> SUFFICES ASSUME NEW q \in Pids, Running(q)
             PROVE  IF PostLoad
                    THEN processes'[os[q].key] # None /\ processes'[os[q].key].pid = q
                    ELSE LeadsTo(FileOf[os[q].key], q)
  BY <1>1, SameRunning DEF Tracked, PostLoad, LeadsTo, Good
<1>3. os[q].key \in Keys
  BY DEF Running, OwnInv, OwnOs
<1> QED
  BY <1>2, <1>3 DEF TrackInv, Tracked, SameManaged

\* Neither does the visit of a running process.
LEMMA VisitRunningHold ==
  ASSUME TypeInv, OwnInv, TrackInv, NEW k \in Keys, VisitRunning(k)
  PROVE  Tracked'
<1>1. UNCHANGED os /\ PostLoad /\ PostLoad'
  BY DEF VisitRunning, Visiting, Continue, BeginStop, PostLoad, hostVars
<1>2. SameManaged
  BY VisitRunningKeeps
<1>3. \A p \in Pids : Running(p)' <=> Running(p)
  BY <1>1, SameRunning
<1>4. HoldStep
  BY <1>1, <1>2, <1>3 DEF HoldStep, SameManaged
<1> QED
  BY <1>4, HoldFrame

\* A crash between operations: every file is complete, and leads to its process.
LEMMA CrashTrack ==
  ASSUME Reliable, TypeInv, OwnInv, TrackInv, SlaveCrash
  PROVE  TrackInv'
<1>1. op = "idle" /\ step = "visit"
  BY DEF SlaveCrash, Reliable, TrackInv, PhaseOK
<1>2. \A p \in Pids : /\ os'[p].run = os[p].run /\ os'[p].key = os[p].key
                      /\ Running(p)' => Running(p)
  BY DEF SlaveCrash, Running, TypeInv, TypeOK, HostTypes, Process
<1>3. /\ UNCHANGED <<file, boot, nextRun>> /\ processes' = [k \in Keys |-> None]
      /\ captured' = {} /\ op' = "idle" /\ step' = "visit" /\ ~loaded' /\ ~up'
  BY DEF SlaveCrash, SlaveGone
<1>4. PhaseOK' /\ HasFile' /\ RemoveOK' /\ ExitOK'
  BY <1>3 DEF PhaseOK, HasFile, RemoveOK, ExitOK
<1>5. RunsOK'
  BY <1>2, <1>3 DEF TrackInv, RunsOK
<1>6. Tracked'
  <2> SUFFICES ASSUME NEW p \in Pids, Running(p)
               PROVE  LeadsTo(FileOf[os[p].key], p)
    BY <1>2, <1>3 DEF Tracked, PostLoad, LeadsTo, Good
  <2>1. os[p].key \in Keys
    BY DEF Running, OwnInv, OwnOs
  <2>2. CASE PostLoad
    BY <1>1, <2>1, <2>2 DEF TrackInv, Tracked, HasFile, Writing
  <2>3. CASE ~PostLoad
    BY <2>3 DEF TrackInv, Tracked
  <2> QED
    BY <2>2, <2>3
<1> QED
  BY <1>4, <1>5, <1>6 DEF TrackInv

\* Loading after a restart: what runs has an adoptable file and is managed again.
LEMMA LoadTrack ==
  ASSUME Reliable, TypeInv, OwnInv, TrackInv, LoadPersisted
  PROVE  TrackInv'
<1>1. /\ UNCHANGED <<os, captured, boot, nextRun, op, up, loaded, cur>>
      /\ step' = "visit" /\ step = "load" /\ op = "reconcile"
  BY DEF LoadPersisted, hostVars, inputVars, TrackInv, PhaseOK
<1>2. PhaseOK' /\ RemoveOK' /\ RunsOK'
  BY <1>1 DEF TrackInv, PhaseOK, PostLoad, RemoveOK, RunsOK
<1>3. ExitOK'
  <2>1. \A k \in Keys :
          processes'[k] = processes[k] \/ processes'[k].exit = "none"
    BY Loaded
  <2> QED
    BY <1>1, <2>1 DEF TrackInv, ExitOK
<1>4. HasFile'
  <2> SUFFICES ASSUME NEW k \in Keys, processes'[k] # None
               PROVE  LeadsTo(FileOf[k], processes[k].pid)'
    BY DEF HasFile
  <2>1. CASE processes[k] # None
    <3>1. file'[FileOf[k]] = file[FileOf[k]] /\ processes'[k] = processes[k]
      BY <2>1, LoadUnowned
    <3>2. LeadsTo(FileOf[k], processes[k].pid)
      BY <1>1, <2>1 DEF TrackInv, HasFile, Writing
    <3> QED
      BY <1>1, <3>1, <3>2 DEF LeadsTo, Good
  <2>2. CASE processes[k] = None
    <3>1. /\ Good(FileOf[k]) /\ Adoptable(FileOf[k])
          /\ processes'[k].pid = file[FileOf[k]].pid
      BY <2>2, Loaded
    <3>2. file'[FileOf[k]] = file[FileOf[k]]
      BY <3>1, LoadFiles, FilesType
    <3> QED
      BY <1>1, <3>1, <3>2 DEF LeadsTo, Good, Adoptable
  <2> QED
    BY <2>1, <2>2
<1>5. Tracked'
  <2> SUFFICES ASSUME NEW p \in Pids, Running(p)
               PROVE  /\ processes'[os[p].key] # None
                      /\ processes'[os[p].key].pid = p
    BY <1>1, SameRunning DEF Tracked, PostLoad
  <2>1. os[p].key \in Keys
    BY DEF Running, OwnInv, OwnOs
  <2>2. CASE PostLoad
    BY <2>1, <2>2, LoadUnowned DEF TrackInv, Tracked
  <2>3. CASE ~PostLoad
    <3>1. LeadsTo(FileOf[os[p].key], p) /\ \A j \in Keys : processes[j] = None
      BY <2>3 DEF TrackInv, Tracked, PhaseOK
    <3>2. Adoptable(FileOf[os[p].key]) /\ file[FileOf[os[p].key]].key = os[p].key
      BY <2>1, <3>1, FilesType
      DEF LeadsTo, Good, Adoptable, Exists, Running, OwnInv, OwnFiles
    <3> QED
      BY <2>1, <3>1, <3>2, LoadAdopts DEF LeadsTo
  <2> QED
    BY <2>2, <2>3
<1> QED
  BY <1>2, <1>3, <1>4, <1>5 DEF TrackInv

\* A launch: nothing of the key runs, since nothing is managed under it.
LEMMA SpawnTrack ==
  ASSUME Reliable, TypeInv, OwnInv, TrackInv, NEW p \in Pids, Spawn(p)
  PROVE  TrackInv'
<1>1. /\ os[p] = FreePid /\ cur \in Keys /\ processes[cur] = None
      /\ step = "start" /\ PostLoad
      /\ step' = "write" /\ UNCHANGED <<captured, boot, up, loaded, op, cur>>
      /\ nextRun' = nextRun + 1 /\ nextRun \in Nat /\ nextRun # 0
      /\ Truncate(cur)
      /\ os' = [os EXCEPT ![p] = Launched(nextRun, cur, nxt.fp)]
      /\ processes' = [processes EXCEPT ![cur] =
                     [run |-> nextRun, pid |-> p, fp |-> nxt.fp,
                      desired |-> nxt, cmd |-> TRUE, exit |-> "none"]]
  BY
  DEF Spawn, Unused, OwnInv, OwnOs, TrackInv, PhaseOK, TypeInv, TypeOK, CurOK,
      CountTypes
<1>2. /\ os'[p] = Launched(nextRun, cur, nxt.fp)
      /\ \A q \in Pids \ {p} : os'[q] = os[q]
  BY <1>1 DEF TypeInv, TypeOK, HostTypes
<1>3. /\ processes'[cur].pid = p
      /\ processes'[cur].exit = "none"
      /\ processes'[cur] # None
      /\ \A k \in Keys \ {cur} : processes'[k] = processes[k]
  <2>1. SlaveTypes /\ TypeInv'
    BY SpawnType DEF TypeInv, TypeOK
  <2>2. processes'[cur] # None
    BY <1>1, <2>1 DEF TypeInv, CurOK
  <2> QED
    BY <1>1, <2>1, <2>2 DEF SlaveTypes
<1>4. PhaseOK' /\ RemoveOK'
  BY <1>1 DEF TrackInv, PhaseOK, PostLoad, RemoveOK
<1>5. RunsOK'
  <2>1. \A q \in Pids : os[q].run \in Nat
    BY DEF TypeInv, TypeOK, HostTypes, Process
  <2> QED
    BY <1>1, <1>2, <2>1 DEF TrackInv, RunsOK, Launched
<1>6. ExitOK'
  <2>1. /\ p \notin captured
        /\ \A k \in Keys : processes[k] # None => processes[k].pid # p
    BY <1>1, ProcFacts DEF TrackInv, ExitOK, FreePid, OwnInv, OwnProcs
  <2> QED
    BY <1>1, <1>2, <1>3, <2>1, ProcFacts
    DEF TrackInv, ExitOK, TypeInv, TypeOK, HostTypes
<1>7. HasFile'
  <2>1. Writing(cur)'
    BY <1>1 DEF Writing
  <2>2. \A k \in Keys \ {cur} :
          processes[k] # None => LeadsTo(FileOf[k], processes[k].pid)
    BY <1>1 DEF TrackInv, HasFile, Writing
  <2>3. \A k \in Keys \ {cur} : file'[FileOf[k]] = file[FileOf[k]]
    BY <1>1, Injective
  <2> QED
    BY <1>1, <1>3, <2>1, <2>2, <2>3 DEF HasFile, LeadsTo, Good
<1>8. Tracked'
  <2> SUFFICES ASSUME NEW q \in Pids, Running(q)'
               PROVE  /\ processes'[os'[q].key] # None
                      /\ processes'[os'[q].key].pid = q
    BY <1>1 DEF Tracked, PostLoad
  <2>1. CASE q = p
    BY <1>2, <1>3, <2>1 DEF Launched
  <2>2. CASE q # p
    <3>1. Running(q) /\ os'[q].key = os[q].key /\ os[q].key \in Keys
      BY <1>2, <2>2 DEF Running, OwnInv, OwnOs
    <3>2. processes[os[q].key] # None /\ processes[os[q].key].pid = q
      BY <1>1, <3>1 DEF TrackInv, Tracked
    <3> QED
      BY <1>1, <1>3, <3>1, <3>2
  <2> QED
    BY <2>1, <2>2
<1> QED
  BY <1>4, <1>5, <1>6, <1>7, <1>8 DEF TrackInv

\* A reboot: nothing runs.
LEMMA RebootTrack ==
  ASSUME TypeInv, OwnInv, TrackInv, Reboot
  PROVE  TrackInv'
<1>1. /\ os' = [p \in Pids |-> FreePid] /\ processes' = [k \in Keys |-> None]
      /\ captured' = {} /\ op' = "idle" /\ step' = "visit" /\ ~loaded' /\ ~up'
      /\ nextRun' = nextRun /\ nextRun \in Nat /\ nextRun # 0
  BY DEF Reboot, SlaveGone, TypeInv, TypeOK, CurOK, CountTypes
<1>2. \A p \in Pids : os'[p].run = 0
  BY <1>1 DEF FreePid
<1> QED
  BY <1>1, <1>2
  DEF TrackInv, PhaseOK, HasFile, Tracked, Running, RemoveOK, ExitOK, RunsOK

\* A result is recorded for a process that is dead, since its run is its own.
LEMMA CaptureExit ==
  ASSUME TypeInv, OwnInv, TrackInv, NEW p \in Pids, CaptureProcessExit(p)
  PROVE  ExitOK' /\ RunsOK'
<1>1. UNCHANGED <<os, nextRun>> /\ captured' \subseteq captured /\ p \in captured
  BY DEF CaptureProcessExit
<1>2. RunsOK'
  BY <1>1 DEF TrackInv, RunsOK
<1>3. ASSUME NEW k \in Keys, processes'[k] # None, processes'[k].exit # "none"
      PROVE  os[processes'[k].pid].st = "dead"
  <2>1. processes[k] # None /\ processes'[k].pid = processes[k].pid
    BY <1>3, CaptureKeeps DEF SameManaged
  <2>2. CASE IsCommandOf(k, p)
    <3>1. os[processes[k].pid].run = os[p].run /\ os[p].run # 0
      BY <2>1, <2>2, ProcFacts DEF IsCommandOf, OwnInv, OwnProcs
    <3> QED
      BY <1>1, <2>1, <3>1, ProcFacts DEF TrackInv, RunsOK, ExitOK
  <2>3. CASE ~IsCommandOf(k, p)
    BY <1>3, <2>1, <2>3 DEF CaptureProcessExit, TrackInv, ExitOK
  <2> QED
    BY <2>2, <2>3
<1> QED
  BY <1>1, <1>2, <1>3 DEF TrackInv, ExitOK

\* Results stay those of dead processes when the dead stay dead.
LEMMA ExitFrame ==
  ASSUME TypeInv, ExitOK, UNCHANGED <<captured, processes>>,
         \A p \in Pids : os'[p].st = os[p].st \/ os[p].st # "dead"
  PROVE  ExitOK'
<1>1. captured \subseteq Pids
  BY DEF TypeInv, TypeOK, HostTypes
<1> QED
  BY <1>1, ProcFacts DEF ExitOK

\* A process of somebody else is none of ours.
LEMMA ForeignTrack ==
  ASSUME TypeInv, OwnInv, TrackInv, NEW p \in Pids, ForeignStarts(p)
  PROVE  TrackInv'
<1>1. /\ os[p] = FreePid /\ os' = [os EXCEPT ![p] = [FreePid EXCEPT !.st = "live"]]
      /\ UNCHANGED <<captured, boot, file, up, loaded, processes, op, step, cur,
                     nextRun>>
  BY DEF ForeignStarts, Unused, OwnInv, OwnOs, memoryVars, opVars
<1>2. \A q \in Pids : /\ os'[q].run = os[q].run /\ os'[q].key = os[q].key
                      /\ os'[q].st = os[q].st \/ os[q].st # "dead"
                      /\ Running(q)' => Running(q)
  BY <1>1 DEF FreePid, Running, TypeInv, TypeOK, HostTypes
<1>3. PhaseOK' /\ HasFile'
  BY <1>1 DEF TrackInv, PhaseOK, PostLoad, HasFile, Writing, LeadsTo, Good
<1>4. Tracked'
  BY <1>1, <1>2 DEF TrackInv, Tracked, PostLoad, LeadsTo, Good
<1>5. RemoveOK'
  BY <1>1, <1>2, ProcFacts DEF TrackInv, RemoveOK, TypeInv, CurOK
<1>6. ExitOK'
  BY <1>1, <1>2, ExitFrame DEF TrackInv
<1>7. RunsOK'
  BY <1>1, <1>2 DEF TrackInv, RunsOK
<1> QED
  BY <1>3, <1>4, <1>5, <1>6, <1>7 DEF TrackInv

\* Every step preserves the invariant.
LEMMA TrackStep ==
  ASSUME Reliable, TypeInv, OwnInv, TrackInv, [Next]_vars
  PROVE  TrackInv'
<1> USE DEF TypeInv, TypeOK, CurOK, OwnInv, TrackInv, Reliable, HostTypes,
        SlaveTypes, OpTypes, CountTypes, hostVars, memoryVars, opVars,
        inputVars, PhaseOK, PostLoad
<1>1. ASSUME NEW p \in Pids, NEW how \in Ends, ProcessEnds(p, how) PROVE
  TrackInv'
  <2>1. PhaseOK' /\ RemoveOK'
    BY <1>1, ProcFacts DEF RemoveOK, Running, ProcessEnds, Gone, Exists,
      Process
  <2>2. ExitOK' /\ RunsOK'
    BY <1>1, ProcFacts DEF ExitOK, RunsOK, OwnProcs, ProcessEnds, Gone,
      Exists, Process
  <2>3. HasFile'
    BY <1>1, ProcFacts DEF HasFile, Writing, LeadsTo, Good, ProcessEnds
  <2>4. Tracked'
    BY <1>1, ProcFacts DEF Tracked, Running, RemoveOK, LeadsTo, HasFile, Good,
      Writing, ExitOK, OwnProcs, OwnOs, ProcessEnds, Gone, Exists, Process
  <2> QED
    BY <2>1, <2>2, <2>3, <2>4
<1>2. ASSUME NEW p \in Pids, Reap(p) PROVE TrackInv'
  <2>1. PhaseOK' /\ RemoveOK'
    BY <1>2, ProcFacts DEF RemoveOK, Running, Reap, Gone, Exists, Process
  <2>2. ExitOK' /\ RunsOK'
    BY <1>2, ProcFacts DEF ExitOK, RunsOK, OwnProcs, Reap, Gone, Exists,
      Process
  <2>3. HasFile'
    BY <1>2, ProcFacts DEF HasFile, Writing, LeadsTo, Good, Reap
  <2>4. Tracked'
    BY <1>2, ProcFacts DEF Tracked, Running, RemoveOK, LeadsTo, HasFile, Good,
      Writing, ExitOK, OwnProcs, OwnOs, Reap, Gone, Exists, Process
  <2> QED
    BY <2>1, <2>2, <2>3, <2>4
<1>3. ASSUME NEW p \in Pids, ForeignStarts(p) PROVE TrackInv'
  BY <1>3, ForeignTrack
<1>4. ASSUME SlaveCrash PROVE TrackInv'
  BY <1>4, CrashTrack
<1>5. ASSUME Reboot PROVE TrackInv'
  BY <1>5, RebootTrack
<1>6. ASSUME SlaveStart PROVE TrackInv'
  <2>1. PhaseOK' /\ RemoveOK'
    BY <1>6, FilesType, ProcFacts DEF RemoveOK, Running, SlaveStart, Gone,
      Exists, Adoptable
  <2>2. ExitOK' /\ RunsOK'
    BY <1>6, FilesType, ProcFacts DEF ExitOK, RunsOK, OwnProcs, SlaveStart,
      Gone, Exists, Adoptable
  <2>3. HasFile'
    BY <1>6, FilesType, ProcFacts DEF HasFile, Writing, LeadsTo, Good,
      SlaveStart, Adoptable, Exists
  <2>4. Tracked'
    BY <1>6, FilesType, ProcFacts DEF Tracked, Running, RemoveOK, LeadsTo,
      HasFile, Good, Writing, ExitOK, OwnProcs, OwnOs, SlaveStart, Gone,
      Exists, Adoptable
  <2> QED
    BY <2>1, <2>2, <2>3, <2>4
<1>7. ASSUME NEW l \in Lists, BeginReconcile(l) PROVE TrackInv'
  <2>1. PhaseOK' /\ RemoveOK'
    BY <1>7, ProcFacts DEF RemoveOK, Running, BeginReconcile, Idle, Gone,
      Exists
  <2>2. ExitOK' /\ RunsOK'
    BY <1>7, ProcFacts DEF ExitOK, RunsOK, OwnProcs, BeginReconcile, Idle,
      Gone, Exists
  <2>3. HasFile'
    BY <1>7, ProcFacts DEF HasFile, Writing, LeadsTo, Good, BeginReconcile,
      Idle
  <2>4. Tracked'
    BY <1>7, ProcFacts DEF Tracked, Running, RemoveOK, LeadsTo, HasFile, Good,
      Writing, ExitOK, OwnProcs, OwnOs, BeginReconcile, Idle, Gone, Exists
  <2> QED
    BY <2>1, <2>2, <2>3, <2>4
<1>8. ASSUME BeginTick PROVE TrackInv'
  <2>1. PhaseOK' /\ RemoveOK'
    BY <1>8, ProcFacts DEF RemoveOK, Running, BeginTick, Idle, Gone, Exists
  <2>2. ExitOK' /\ RunsOK'
    BY <1>8, ProcFacts DEF ExitOK, RunsOK, OwnProcs, BeginTick, Idle, Gone,
      Exists
  <2>3. HasFile'
    BY <1>8, ProcFacts DEF HasFile, Writing, LeadsTo, Good, BeginTick, Idle
  <2>4. Tracked'
    BY <1>8, ProcFacts DEF Tracked, Running, RemoveOK, LeadsTo, HasFile, Good,
      Writing, ExitOK, OwnProcs, OwnOs, BeginTick, Idle, Gone, Exists
  <2> QED
    BY <2>1, <2>2, <2>3, <2>4
<1>9. ASSUME NEW k \in Keys, NEW m \in {"stop_soft","stop_hard"},
  KillCommand(k, m) PROVE TrackInv'
  BY <1>9, KillTrack
<1>10. ASSUME NEW k \in Keys, NEW fp \in Fps, LaunchCommand(k, fp) PROVE
  TrackInv'
  BY <1>10, LaunchTrack
<1>11. ASSUME NEW p \in Pids, CaptureProcessExit(p) PROVE TrackInv'
  <2>1. PhaseOK' /\ RemoveOK'
    BY <1>11, ProcFacts, CaptureKeeps DEF RemoveOK, Running,
      CaptureProcessExit, Idle, IsCommandOf, SameManaged, Gone, Exists
  <2>2. ExitOK' /\ RunsOK'
    BY <1>11, CaptureExit
  <2>3. HasFile'
    BY <1>11, ProcFacts, CaptureKeeps DEF HasFile, Writing, LeadsTo, Good,
      CaptureProcessExit, Idle, IsCommandOf, SameManaged
  <2>4. Tracked'
    BY <1>11, CaptureHold
  <2> QED
    BY <2>1, <2>2, <2>3, <2>4
<1>12. ASSUME LoadPersisted PROVE TrackInv'
  BY <1>12, LoadTrack
<1>13. ASSUME NEW k \in Keys, VisitStopped(k) PROVE TrackInv'
  <2>1. PhaseOK' /\ RemoveOK'
    BY <1>13, ProcFacts, Injective DEF RemoveOK, Running, VisitStopped,
      Visiting, Continue, BeginStop, NotCompleted, Gone, Exists
  <2>2. ExitOK' /\ RunsOK'
    BY <1>13, ProcFacts, Injective DEF ExitOK, RunsOK, OwnProcs, VisitStopped,
      Visiting, Continue, BeginStop, NotCompleted, Gone, Exists
  <2>3. FileStep
    BY <1>13, ProcFacts, Injective DEF FileStep, Writing, VisitStopped,
      Visiting, Continue, BeginStop, NotCompleted
  <2>4. HoldStep
    BY <1>13, ProcFacts, Injective DEF HoldStep, RemoveOK, Running, ExitOK,
      VisitStopped, Visiting, Continue, BeginStop, NotCompleted, Gone, Exists
  <2> QED
    BY <2>1, <2>2, <2>3, <2>4, FileFrame, HoldFrame
<1>14. ASSUME NEW k \in Keys, VisitCompleted(k) PROVE TrackInv'
  <2>1. PhaseOK' /\ RemoveOK'
    BY <1>14, ProcFacts DEF RemoveOK, Running, VisitCompleted, Visiting,
      Continue, Gone, Exists
  <2>2. ExitOK' /\ RunsOK'
    BY <1>14, ProcFacts DEF ExitOK, RunsOK, OwnProcs, VisitCompleted,
      Visiting, Continue, Gone, Exists
  <2>3. HasFile'
    BY <1>14, ProcFacts DEF HasFile, Writing, LeadsTo, Good, VisitCompleted,
      Visiting, Continue
  <2>4. Tracked'
    BY <1>14, ProcFacts DEF Tracked, Running, RemoveOK, LeadsTo, HasFile,
      Good, Writing, ExitOK, OwnProcs, OwnOs, VisitCompleted, Visiting,
      Continue, Gone, Exists
  <2> QED
    BY <2>1, <2>2, <2>3, <2>4
<1>15. ASSUME NEW k \in Keys, VisitAbsent(k) PROVE TrackInv'
  <2>1. PhaseOK' /\ RemoveOK'
    BY <1>15, ProcFacts DEF RemoveOK, Running, VisitAbsent, Visiting, Wanted,
      Gone, Exists
  <2>2. ExitOK' /\ RunsOK'
    BY <1>15, ProcFacts DEF ExitOK, RunsOK, OwnProcs, VisitAbsent, Visiting,
      Wanted, Gone, Exists
  <2>3. HasFile'
    BY <1>15, ProcFacts DEF HasFile, Writing, LeadsTo, Good, VisitAbsent,
      Visiting, Wanted
  <2>4. Tracked'
    BY <1>15, ProcFacts DEF Tracked, Running, RemoveOK, LeadsTo, HasFile,
      Good, Writing, ExitOK, OwnProcs, OwnOs, VisitAbsent, Visiting, Wanted,
      Gone, Exists
  <2> QED
    BY <2>1, <2>2, <2>3, <2>4
<1>16. ASSUME NEW k \in Keys, VisitEnded(k) PROVE TrackInv'
  <2>1. PhaseOK' /\ RemoveOK'
    BY <1>16, ProcFacts, Injective DEF RemoveOK, Running, VisitEnded,
      Visiting, Finalize, Continue, Wanted, Gone, Exists
  <2>2. ExitOK' /\ RunsOK'
    BY <1>16, ProcFacts, Injective DEF ExitOK, RunsOK, OwnProcs, VisitEnded,
      Visiting, Finalize, Continue, Wanted, Gone, Exists
  <2>3. FileStep
    BY <1>16, ProcFacts, Injective DEF FileStep, Writing, VisitEnded,
      Visiting, Finalize, Continue, Wanted
  <2>4. HoldStep
    BY <1>16, ProcFacts, Injective DEF HoldStep, RemoveOK, Running, ExitOK,
      VisitEnded, Visiting, Finalize, Continue, Wanted, Gone, Exists
  <2> QED
    BY <2>1, <2>2, <2>3, <2>4, FileFrame, HoldFrame
<1>17. ASSUME NEW k \in Keys, VisitRunning(k) PROVE TrackInv'
  <2>1. PhaseOK' /\ RemoveOK'
    BY <1>17, ProcFacts, Injective, VisitRunningKeeps DEF RemoveOK, Running,
      VisitRunning, Visiting, Continue, BeginStop, Wanted, SameManaged, Gone,
      Exists
  <2>2. ExitOK' /\ RunsOK'
    BY <1>17, ProcFacts, Injective, VisitRunningKeeps DEF ExitOK, RunsOK,
      OwnProcs, VisitRunning, Visiting, Continue, BeginStop, Wanted,
      SameManaged, Gone, Exists
  <2>3. FileStep
    BY <1>17, ProcFacts, Injective, VisitRunningKeeps DEF FileStep, Writing,
      VisitRunning, Visiting, Continue, BeginStop, Wanted, SameManaged
  <2>4. Tracked'
    BY <1>17, VisitRunningHold
  <2> QED
    BY <2>1, <2>2, <2>3, <2>4, FileFrame
<1>18. ASSUME NEW k \in Keys, VisitUnlisted(k) PROVE TrackInv'
  <2>1. PhaseOK' /\ RemoveOK'
    BY <1>18, ProcFacts, Injective DEF RemoveOK, Running, VisitUnlisted,
      Visiting, Continue, BeginStop, Gone, Exists
  <2>2. ExitOK' /\ RunsOK'
    BY <1>18, ProcFacts, Injective DEF ExitOK, RunsOK, OwnProcs,
      VisitUnlisted, Visiting, Continue, BeginStop, Gone, Exists
  <2>3. FileStep
    BY <1>18, ProcFacts, Injective DEF FileStep, Writing, VisitUnlisted,
      Visiting, Continue, BeginStop
  <2>4. HoldStep
    BY <1>18, ProcFacts, Injective DEF HoldStep, RemoveOK, Running, ExitOK,
      VisitUnlisted, Visiting, Continue, BeginStop, Gone, Exists
  <2> QED
    BY <2>1, <2>2, <2>3, <2>4, FileFrame, HoldFrame
<1>19. ASSUME NEW k \in Keys, TickEnded(k) PROVE TrackInv'
  <2>1. PhaseOK' /\ RemoveOK'
    BY <1>19, ProcFacts, Injective DEF RemoveOK, Running, TickEnded, Ticking,
      Finalize, Continue, Gone, Exists
  <2>2. ExitOK' /\ RunsOK'
    BY <1>19, ProcFacts, Injective DEF ExitOK, RunsOK, OwnProcs, TickEnded,
      Ticking, Finalize, Continue, Gone, Exists
  <2>3. FileStep
    BY <1>19, ProcFacts, Injective DEF FileStep, Writing, TickEnded, Ticking,
      Finalize, Continue
  <2>4. HoldStep
    BY <1>19, ProcFacts, Injective DEF HoldStep, RemoveOK, Running, ExitOK,
      TickEnded, Ticking, Finalize, Continue, Gone, Exists
  <2> QED
    BY <2>1, <2>2, <2>3, <2>4, FileFrame, HoldFrame
<1>20. ASSUME NEW k \in Keys, TickRefresh(k) PROVE TrackInv'
  <2>1. PhaseOK' /\ RemoveOK'
    BY <1>20, ProcFacts, Injective DEF RemoveOK, Running, TickRefresh,
      Ticking, Gone, Exists
  <2>2. ExitOK' /\ RunsOK'
    BY <1>20, ProcFacts, Injective DEF ExitOK, RunsOK, OwnProcs, TickRefresh,
      Ticking, Gone, Exists
  <2>3. FileStep
    BY <1>20, ProcFacts, Injective DEF FileStep, Writing, TickRefresh, Ticking
  <2>4. HoldStep
    BY <1>20, ProcFacts, Injective DEF HoldStep, RemoveOK, Running, ExitOK,
      TickRefresh, Ticking, Gone, Exists
  <2> QED
    BY <2>1, <2>2, <2>3, <2>4, FileFrame, HoldFrame
<1>21. ASSUME TickRefreshed PROVE TrackInv'
  <2>1. PhaseOK' /\ RemoveOK'
    BY <1>21, ProcFacts, Injective, RecordLeads DEF RemoveOK, Running,
      TickRefreshed, Continue, Gone, Exists
  <2>2. ExitOK' /\ RunsOK'
    BY <1>21, ProcFacts, Injective, RecordLeads DEF ExitOK, RunsOK, OwnProcs,
      TickRefreshed, Continue, Gone, Exists
  <2>3. FileStep
    BY <1>21, ProcFacts, Injective, RecordLeads DEF FileStep, Writing,
      TickRefreshed, Continue
  <2>4. HoldStep
    BY <1>21, ProcFacts, Injective, RecordLeads DEF HoldStep, RemoveOK,
      Running, ExitOK, TickRefreshed, Continue, Gone, Exists
  <2> QED
    BY <2>1, <2>2, <2>3, <2>4, FileFrame, HoldFrame
<1>22. ASSUME TickPackageChange PROVE TrackInv'
  <2>1. PhaseOK' /\ RemoveOK'
    BY <1>22, ProcFacts, Injective DEF RemoveOK, Running, TickPackageChange,
      BeginStop, Gone, Exists
  <2>2. ExitOK' /\ RunsOK'
    BY <1>22, ProcFacts, Injective DEF ExitOK, RunsOK, OwnProcs,
      TickPackageChange, BeginStop, Gone, Exists
  <2>3. FileStep
    BY <1>22, ProcFacts, Injective DEF FileStep, Writing, TickPackageChange,
      BeginStop
  <2>4. HoldStep
    BY <1>22, ProcFacts, Injective DEF HoldStep, RemoveOK, Running, ExitOK,
      TickPackageChange, BeginStop, Gone, Exists
  <2> QED
    BY <2>1, <2>2, <2>3, <2>4, FileFrame, HoldFrame
<1>23. ASSUME SendSignal PROVE TrackInv'
  <2>1. PhaseOK' /\ RemoveOK'
    BY <1>23, ProcFacts, Injective, RecordLeads, SignalledFacts DEF RemoveOK,
      Running, SendSignal, Gone, Exists
  <2>2. ExitOK' /\ RunsOK'
    <3>1. UNCHANGED <<captured, processes, nextRun>>
      BY <1>23 DEF SendSignal
    <3>2. \A p \in Pids : os'[p].st = os[p].st /\ os'[p].run = os[p].run
      BY <1>23, SignalledFacts, ProcFacts DEF SendSignal
    <3>3. RunsOK'
      BY <3>1, <3>2 DEF RunsOK
    <3>4. ExitOK'
      BY <3>1, <3>2, ExitFrame
    <3> QED
      BY <3>3, <3>4
  <2>3. FileStep
    BY <1>23, ProcFacts, Injective, RecordLeads, SignalledFacts DEF FileStep,
      Writing, SendSignal
  <2>4. HoldStep
    BY <1>23, ProcFacts, Injective, RecordLeads, SignalledFacts DEF HoldStep,
      RemoveOK, Running, ExitOK, SendSignal, Gone, Exists
  <2> QED
    BY <2>1, <2>2, <2>3, <2>4, FileFrame, HoldFrame
<1>24. ASSUME AwaitExit PROVE TrackInv'
  <2>1. PhaseOK' /\ RemoveOK'
    BY <1>24, ProcFacts DEF RemoveOK, Running, AwaitExit, Gone, Exists
  <2>2. ExitOK' /\ RunsOK'
    BY <1>24, ProcFacts DEF ExitOK, RunsOK, OwnProcs, AwaitExit, Gone, Exists
  <2>3. HasFile'
    BY <1>24, ProcFacts DEF HasFile, Writing, LeadsTo, Good, AwaitExit
  <2>4. Tracked'
    BY <1>24, ProcFacts DEF Tracked, Running, RemoveOK, LeadsTo, HasFile,
      Good, Writing, ExitOK, OwnProcs, OwnOs, AwaitExit, Gone, Exists
  <2> QED
    BY <2>1, <2>2, <2>3, <2>4
<1>25. ASSUME AwaitTimeout PROVE TrackInv'
  <2>1. PhaseOK' /\ RemoveOK'
    BY <1>25, ProcFacts, SignalledFacts DEF RemoveOK, Running, AwaitTimeout,
      Gone, Exists
  <2>2. ExitOK' /\ RunsOK'
    <3>1. UNCHANGED <<captured, processes, nextRun>>
      BY <1>25 DEF AwaitTimeout
    <3>2. \A p \in Pids : os'[p].st = os[p].st /\ os'[p].run = os[p].run
      BY <1>25, SignalledFacts, ProcFacts DEF AwaitTimeout
    <3>3. RunsOK'
      BY <3>1, <3>2 DEF RunsOK
    <3>4. ExitOK'
      BY <3>1, <3>2, ExitFrame
    <3> QED
      BY <3>3, <3>4
  <2>3. HasFile'
    BY <1>25, ProcFacts, SignalledFacts DEF HasFile, Writing, LeadsTo, Good,
      AwaitTimeout
  <2>4. Tracked'
    BY <1>25, ProcFacts, SignalledFacts DEF Tracked, Running, RemoveOK,
      LeadsTo, HasFile, Good, Writing, ExitOK, OwnProcs, OwnOs, AwaitTimeout,
      Gone, Exists
  <2> QED
    BY <2>1, <2>2, <2>3, <2>4
<1>26. ASSUME RemoveStopped PROVE TrackInv'
  <2>1. PhaseOK' /\ RemoveOK'
    BY <1>26, ProcFacts, Injective DEF RemoveOK, Running, RemoveStopped,
      Continue, Gone, Exists
  <2>2. ExitOK' /\ RunsOK'
    BY <1>26, ProcFacts, Injective DEF ExitOK, RunsOK, OwnProcs,
      RemoveStopped, Continue, Gone, Exists
  <2>3. FileStep
    BY <1>26, ProcFacts, Injective DEF FileStep, Writing, RemoveStopped,
      Continue
  <2>4. HoldStep
    BY <1>26, ProcFacts, Injective DEF HoldStep, RemoveOK, Running, ExitOK,
      RemoveStopped, Continue, Gone, Exists
  <2> QED
    BY <2>1, <2>2, <2>3, <2>4, FileFrame, HoldFrame
<1>27. ASSUME NEW p \in Pids, Spawn(p) PROVE TrackInv'
  BY <1>27, SpawnTrack
<1>28. ASSUME StartFails PROVE TrackInv'
  <2>1. PhaseOK' /\ RemoveOK'
    BY <1>28, ProcFacts DEF RemoveOK, Running, StartFails, NotCompleted,
      Continue, Gone, Exists
  <2>2. ExitOK' /\ RunsOK'
    BY <1>28, ProcFacts DEF ExitOK, RunsOK, OwnProcs, StartFails,
      NotCompleted, Continue, Gone, Exists
  <2>3. HasFile'
    BY <1>28, ProcFacts DEF HasFile, Writing, LeadsTo, Good, StartFails,
      NotCompleted, Continue
  <2>4. Tracked'
    BY <1>28, ProcFacts DEF Tracked, Running, RemoveOK, LeadsTo, HasFile,
      Good, Writing, ExitOK, OwnProcs, OwnOs, StartFails, NotCompleted,
      Continue, Gone, Exists
  <2> QED
    BY <2>1, <2>2, <2>3, <2>4
<1>29. ASSUME WriteStarted PROVE TrackInv'
  <2>1. PhaseOK' /\ RemoveOK'
    BY <1>29, ProcFacts, Injective, RecordLeads DEF RemoveOK, Running,
      WriteStarted, Continue, Gone, Exists
  <2>2. ExitOK' /\ RunsOK'
    BY <1>29, ProcFacts, Injective, RecordLeads DEF ExitOK, RunsOK, OwnProcs,
      WriteStarted, Continue, Gone, Exists
  <2>3. FileStep
    BY <1>29, ProcFacts, Injective, RecordLeads DEF FileStep, Writing,
      WriteStarted, Continue
  <2>4. HoldStep
    BY <1>29, ProcFacts, Injective, RecordLeads DEF HoldStep, RemoveOK,
      Running, ExitOK, WriteStarted, Continue, Gone, Exists
  <2> QED
    BY <2>1, <2>2, <2>3, <2>4, FileFrame, HoldFrame
<1>30. ASSUME EndOp PROVE TrackInv'
  <2>1. PhaseOK' /\ RemoveOK'
    BY <1>30, ProcFacts DEF RemoveOK, Running, EndOp, Gone, Exists
  <2>2. ExitOK' /\ RunsOK'
    BY <1>30, ProcFacts DEF ExitOK, RunsOK, OwnProcs, EndOp, Gone, Exists
  <2>3. HasFile'
    BY <1>30, ProcFacts DEF HasFile, Writing, LeadsTo, Good, EndOp
  <2>4. Tracked'
    BY <1>30, ProcFacts DEF Tracked, Running, RemoveOK, LeadsTo, HasFile,
      Good, Writing, ExitOK, OwnProcs, OwnOs, EndOp, Gone, Exists
  <2> QED
    BY <2>1, <2>2, <2>3, <2>4
<1>31. CASE UNCHANGED vars
  BY <1>31
  DEF vars, HasFile, Tracked, LeadsTo, Good, Writing, Running, RemoveOK,
    ExitOK, RunsOK
<1> QED
  BY <1>1, <1>2, <1>3, <1>4, <1>5, <1>6, <1>7, <1>8, <1>9, <1>10, <1>11,
    <1>12, <1>13, <1>14, <1>15, <1>16, <1>17, <1>18, <1>19, <1>20, <1>21,
    <1>22, <1>23, <1>24, <1>25, <1>26, <1>27, <1>28, <1>29, <1>30, <1>31 DEF
    Next, Host, Command, HolderStep

\* The invariant holds at first.
LEMMA TrackInit == Init => TrackInv
  BY FilesType
  DEF Init, TrackInv, PhaseOK, HasFile, Tracked, Running, FreePid, RemoveOK,
      ExitOK, RunsOK, Pids

\* The three invariants, always.
LEMMA TrackInvariant ==
  ASSUME Reliable
  PROVE  Spec => [](TypeInv /\ OwnInv /\ TrackInv)
<1>1. TypeInv /\ OwnInv /\ TrackInv /\ [Next]_vars =>
        (TypeInv /\ OwnInv /\ TrackInv)'
  BY TypeStep, OwnStep, TrackStep
<1>2. Init => TypeInv /\ OwnInv /\ TrackInv
  BY InitType, OwnInit, TrackInit
<1> QED
  BY <1>1, <1>2, PTL DEF Spec

\* The slave never loses hold of a process it launched, whatever the lists, the
\* commands, the restarts of the slave between operations and the reboots.
THEOREM AlwaysTracked ==
  ASSUME Reliable
  PROVE  Spec => []LiveIsTracked
<1>1. TypeInv /\ OwnInv /\ TrackInv => LiveIsTracked
  BY DEF TrackInv, Tracked, PostLoad, PhaseOK, LeadsTo, Good, LiveIsTracked
<1> QED
  BY <1>1, TrackInvariant, PTL

\* Never do two processes of one key run at a time.
THEOREM NeverTwo ==
  ASSUME Reliable
  PROVE  Spec => []OneLivePerKey
<1>1. ASSUME OwnInv, TrackInv PROVE OneLivePerKey
  <2> SUFFICES ASSUME NEW p \in Pids, NEW q \in Pids, Running(p), Running(q),
                      os[p].key = os[q].key
               PROVE  p = q
    BY DEF OneLivePerKey
  <2> QED
    BY <1>1 DEF TrackInv, Tracked, LeadsTo
<1> QED
  BY <1>1, TrackInvariant, PTL
-----------------------------------------------------------------------------
(* The promise: one instance of a key at a time.                           *)

\* The processes of a key that run in the process table t, and its instance.
LiveIn(t, k) == {p \in Pids : /\ t[p].st = "live" /\ t[p].run # 0
                              /\ t[p].sig # "kill" /\ t[p].key = k}
InstanceIn(t, k) ==
  IF LiveIn(t, k) = {} THEN None ELSE t[CHOOSE p \in LiveIn(t, k) : TRUE].run

LEMMA InstanceNowAndNext ==
  ASSUME NEW k \in Keys
  PROVE  InstanceOf(k) = InstanceIn(os, k) /\ InstanceOf(k)' = InstanceIn(os', k)
  BY DEF InstanceOf, InstanceIn, LiveIn, Running

\* The instance of a key with one process, and of a key whose processes stay.
LEMMA OneLive ==
  ASSUME NEW t, NEW k, NEW p \in Pids, LiveIn(t, k) = {p}
  PROVE  InstanceIn(t, k) = t[p].run
  BY DEF InstanceIn

LEMMA SameLive ==
  ASSUME NEW t, NEW u, NEW k, LiveIn(t, k) = LiveIn(u, k),
         \A p \in Pids : t[p].run = u[p].run
  PROVE  InstanceIn(t, k) = InstanceIn(u, k)
<1>1. CASE LiveIn(t, k) = {}
  BY <1>1 DEF InstanceIn
<1>2. CASE LiveIn(t, k) # {}
  <2> DEFINE c == CHOOSE p \in LiveIn(t, k) : TRUE
  <2>1. c \in Pids
    BY <1>2 DEF LiveIn
  <2> QED
    BY <1>2, <2>1 DEF InstanceIn
<1> QED
  BY <1>1, <1>2

Instances == [k \in Keys |-> InstanceOf(k)]
Used == 1..(nextRun - 1)

\* A step of the promise, or none.
PromiseStep == Promise!Next \/ UNCHANGED <<Instances, Used>>

\* A step after which at most the process q has stopped running.
LEMMA OneEnds ==
  ASSUME OneLivePerKey, OwnOs, nextRun' = nextRun, NEW q \in Pids,
         \A p \in Pids : os'[p].run = os[p].run /\ os'[p].key = os[p].key,
         \A p \in Pids : p # q => (Running(p)' <=> Running(p)),
         Running(q)' => Running(q)
  PROVE  PromiseStep
<1>1. Used' = Used
  BY DEF Used
<1>2. ASSUME NEW k \in Keys, k # os[q].key \/ (Running(q)' <=> Running(q))
      PROVE  InstanceOf(k)' = InstanceOf(k)
  <2>1. LiveIn(os', k) = LiveIn(os, k)
    BY <1>2 DEF LiveIn, Running
  <2> QED
    BY <2>1, SameLive, InstanceNowAndNext
<1>3. CASE Running(q)' <=> Running(q)
  BY <1>1, <1>2, <1>3 DEF PromiseStep, Instances
<1>4. CASE Running(q) /\ ~Running(q)'
  <2>1. os[q].key \in Keys
    BY <1>4 DEF OwnOs, Running
  <2>2. LiveIn(os', os[q].key) = {}
    BY <1>4 DEF LiveIn, Running, OneLivePerKey
  <2>3. InstanceOf(os[q].key)' = None
    BY <2>1, <2>2, InstanceNowAndNext DEF InstanceIn
  <2>4. Instances' = [k \in Keys |-> IF k \in {os[q].key} THEN None
                                     ELSE Instances[k]]
    BY <1>2, <2>3 DEF Instances
  <2>5. Promise!End({os[q].key})
    BY <1>1, <2>4 DEF Promise!End, Instances, Used
  <2> QED
    BY <2>1, <2>5 DEF PromiseStep, Promise!Next
<1> QED
  BY <1>3, <1>4

\* A step that starts and ends nothing.
LEMMA NoneEnds ==
  ASSUME nextRun' = nextRun,
         \A p \in Pids : /\ os'[p].run = os[p].run /\ os'[p].key = os[p].key
                         /\ Running(p)' <=> Running(p)
  PROVE  PromiseStep
<1>1. ASSUME NEW k \in Keys PROVE InstanceOf(k)' = InstanceOf(k)
  <2>1. LiveIn(os', k) = LiveIn(os, k)
    BY DEF LiveIn, Running
  <2> QED
    BY <2>1, SameLive, InstanceNowAndNext
<1> QED
  BY <1>1 DEF PromiseStep, Instances, Used

\* A launch: nothing of its key runs, and its run is new.
LEMMA SpawnLaunches ==
  ASSUME TypeInv, OwnInv, TrackInv, NEW p \in Pids, Spawn(p)
  PROVE  PromiseStep
<1>1. /\ step = "start" /\ cur \in Keys /\ os[p].st = "free"
      /\ os' = [os EXCEPT ![p] = Launched(nextRun, cur, nxt.fp)]
      /\ nextRun' = nextRun + 1 /\ nextRun \in RunIds
  BY DEF Spawn, Unused, TypeInv, TypeOK, CurOK, CountTypes, RunIds
<1>2. LiveIn(os, cur) = {}
  BY <1>1 DEF TrackInv, PhaseOK, Tracked, LiveIn, Running
<1>3. os'[p] = Launched(nextRun, cur, nxt.fp) /\ \A q \in Pids \ {p} : os'[q] = os[q]
  BY <1>1 DEF TypeInv, TypeOK, HostTypes
<1>4. LiveIn(os', cur) = {p}
  BY <1>1, <1>2, <1>3 DEF LiveIn, Launched, RunIds
<1>5. \A k \in Keys : k = cur => /\ InstanceOf(k) = None
                                 /\ InstanceOf(k)' = nextRun
  <2>1. InstanceIn(os, cur) = None
    BY <1>2 DEF InstanceIn
  <2>2. os'[p].run = nextRun
    BY <1>3 DEF Launched
  <2>3. InstanceIn(os', cur) = os'[p].run
    BY <1>4, OneLive
  <2> QED
    BY <2>1, <2>2, <2>3, InstanceNowAndNext
<1>6. ASSUME NEW k \in Keys, k # cur PROVE InstanceOf(k)' = InstanceOf(k)
  <2>1. LiveIn(os', k) = LiveIn(os, k)
    BY <1>1, <1>3, <1>6 DEF LiveIn, Launched
  <2>2. InstanceIn(os', k) = InstanceIn(os, k)
    <3>1. CASE LiveIn(os, k) = {}
      BY <2>1, <3>1 DEF InstanceIn
    <3>2. CASE LiveIn(os, k) # {}
      <4> DEFINE c == CHOOSE q \in LiveIn(os, k) : TRUE
      <4>1. c \in Pids /\ c # p
        BY <1>1, <3>2 DEF LiveIn
      <4> QED
        BY <1>3, <2>1, <3>2, <4>1 DEF InstanceIn
    <3> QED
      BY <3>1, <3>2
  <2> QED
    BY <2>2, InstanceNowAndNext
<1>7. Instances' = [Instances EXCEPT ![cur] = nextRun]
  <2>1. /\ Instances' = [k \in Keys |-> InstanceOf(k)']
        /\ Instances = [k \in Keys |-> InstanceOf(k)]
    BY DEF Instances
  <2> QED
    BY <1>5, <1>6, <2>1
<1>8. nextRun \notin Used /\ Used' = Used \cup {nextRun}
  BY <1>1 DEF Used, RunIds
<1>9. Promise!Launch(cur, nextRun)
  BY <1>1, <1>5, <1>7, <1>8 DEF Promise!Launch, Instances, Used
<1> QED
  BY <1>1, <1>9 DEF PromiseStep, Promise!Next

\* A reboot ends every instance.
LEMMA RebootEnds ==
  ASSUME Reboot
  PROVE  PromiseStep
<1>1. \A k \in Keys : LiveIn(os', k) = {}
  BY DEF Reboot, LiveIn, FreePid
<1>2. \A k \in Keys : InstanceOf(k)' = None
  BY <1>1, InstanceNowAndNext DEF InstanceIn
<1>3. Promise!End(Keys)
  BY <1>2 DEF Promise!End, Instances, Used, Reboot, SlaveGone
<1> QED
  BY <1>3 DEF PromiseStep, Promise!Next

\* Every step of the process manager is a step of the promise, or none.
LEMMA PromiseKept ==
  ASSUME TypeInv, OwnInv, TrackInv, OneLivePerKey, [Next]_vars
  PROVE  PromiseStep
<1>1. ASSUME Host PROVE PromiseStep
  <2>1. ASSUME NEW p \in Pids, NEW how \in Ends, ProcessEnds(p, how)
        PROVE  PromiseStep
    <3>1. /\ nextRun' = nextRun
          /\ \A q \in Pids : os'[q].run = os[q].run /\ os'[q].key = os[q].key
          /\ \A q \in Pids \ {p} : os'[q] = os[q]
          /\ ~Running(p)'
      BY <2>1 DEF ProcessEnds, Running, TypeInv, TypeOK, HostTypes, Process
    <3> QED
      BY <3>1, OneEnds DEF OwnInv, Running
  <2>2. ASSUME NEW p \in Pids, Reap(p) PROVE PromiseStep
    BY <2>2, NoneEnds DEF Reap, Running, TypeInv, TypeOK, HostTypes, Process
  <2>3. ASSUME NEW p \in Pids, ForeignStarts(p) PROVE PromiseStep
    <3>1. /\ nextRun' = nextRun /\ os[p] = FreePid
          /\ os' = [os EXCEPT ![p] = [FreePid EXCEPT !.st = "live"]]
      BY <2>3 DEF ForeignStarts, Unused, OwnInv, OwnOs
    <3> QED
      BY <3>1, NoneEnds DEF FreePid, Running, TypeInv, TypeOK, HostTypes
  <2>4. ASSUME SlaveCrash PROVE PromiseStep
    BY <2>4, NoneEnds DEF SlaveCrash, SlaveGone, Running, TypeInv, TypeOK,
       HostTypes, Process
  <2>5. ASSUME Reboot PROVE PromiseStep
    BY <2>5, RebootEnds
  <2> QED
    BY <1>1, <2>1, <2>2, <2>3, <2>4, <2>5 DEF Host
<1>2. ASSUME NEW p \in Pids, Spawn(p) PROVE PromiseStep
  BY <1>2, SpawnLaunches
<1>3. CASE SendSignal \/ AwaitTimeout
  <2>1. cur \in Keys /\ processes[cur] # None /\ processes[cur].pid \in Pids
    BY <1>3, ProcFacts DEF SendSignal, AwaitTimeout, TypeInv, CurOK
  <2>2. PICK s \in {"term", "kill"} : os' = Signalled(processes[cur].pid, s)
    BY <1>3 DEF SendSignal, AwaitTimeout
  <2>3. /\ \A p \in Pids : os'[p].run = os[p].run /\ os'[p].key = os[p].key
        /\ \A p \in Pids : Running(p)' => Running(p)
        /\ \A p \in Pids : p # processes[cur].pid => os'[p] = os[p]
    BY <2>1, <2>2, SignalledFacts DEF Signalled, TypeInv, TypeOK, HostTypes
  <2>4. nextRun' = nextRun
    BY <1>3 DEF SendSignal, AwaitTimeout
  <2> QED
    BY <2>1, <2>3, <2>4, OneEnds DEF OwnInv, Running
<1>4. ASSUME UNCHANGED <<os, nextRun>> PROVE PromiseStep
  BY <1>4, NoneEnds DEF Running
<1>5. ASSUME HolderStep PROVE PromiseStep
  BY <1>2, <1>3, <1>4, <1>5
  DEF HolderStep, LoadPersisted, VisitStopped, VisitCompleted, VisitAbsent,
      VisitEnded, VisitRunning, VisitUnlisted, TickEnded, TickRefresh,
      TickRefreshed, TickPackageChange, AwaitExit, RemoveStopped, StartFails,
      WriteStarted, EndOp, hostVars
<1> QED
  BY <1>1, <1>4, <1>5
  DEF Next, Command, SlaveStart, BeginReconcile, BeginTick, KillCommand,
      LaunchCommand, CaptureProcessExit, vars, hostVars

\* At first no key has an instance.
LEMMA PromiseInit == Init => Promise!Init
<1> SUFFICES ASSUME Init PROVE Promise!Init
  OBVIOUS
<1>1. \A k \in Keys : LiveIn(os, k) = {}
  BY DEF Init, LiveIn, FreePid
<1>2. \A k \in Keys : InstanceOf(k) = None
  BY <1>1, InstanceNowAndNext DEF InstanceIn
<1> QED
  BY <1>2 DEF Init, Promise!Init

\* The process manager implements the promise: for any keys and lists, any
\* number of restarts between its operations, reboots and foreign processes.
THEOREM KeepsPromise ==
  ASSUME Reliable
  PROVE  Spec => ImplementsOneInstance
<1>1. TypeInv /\ OwnInv /\ TrackInv /\ OneLivePerKey /\ [Next]_vars =>
        [Promise!Next]_<<Instances, Used>>
  BY PromiseKept DEF PromiseStep
<1> QED
  BY <1>1, TrackInvariant, NeverTwo, PromiseInit, PTL
  DEF Spec, ImplementsOneInstance, Promise!Spec, Instances, Used

-----------------------------------------------------------------------------
(* The histories of runs, their results and the one-shots.                 *)

\* A file is the one of the key it names, and names a run of the past.
FilesOwn == \A f \in Files : Good(f) => /\ FileOf[file[f].key] = f
                                        /\ file[f].run < nextRun

\* Only the results of processes that are gone wait for the mutex.
CapturedGone == \A p \in captured : os[p].st = "dead"

\* Every run launched so far is within the bound.
Counted == nextRun <= MaxRuns + 1

\* Runs, files and results are not mixed up.
RunInv == RunsOK /\ Counted /\ FilesOwn /\ CapturedGone /\ ExitResultIsOwn

\* Nothing is reported about a run before its launch.
Unreported ==
  /\ \A r \in RunIds : r >= nextRun => history[r] = <<>>
  /\ step = "write" => history[processes[cur].run] = <<>>

\* A file of this boot names a run whose end has not been reported.
FilesOpen == \A f \in Files : Good(f) /\ file[f].boot = boot =>
               ~Closed(file[f].run)

\* What is launched under a key is launched where nothing is managed.
StartFree == step = "start" => processes[cur] = None

\* Every run of a slave that never restarted is managed or closed.
Whole == boot = 1 /\ crashes = 0 =>
  \A r \in RunIds : r < nextRun =>
    Closed(r) \/ \E k \in Keys : processes[k] # None /\ processes[k].run = r

\* The order of the changes of a run, and what is open: HistoryLegal in two.
InOrder ==
  \A r \in RunIds : \A i \in DOMAIN history[r] :
    /\ history[r][i] = "started" => i = 1
    /\ history[r][i] \in Closing => i = Len(history[r])
Open == /\ \A p \in Pids : Running(p) => ~Closed(os[p].run)
        /\ \A k \in Keys : processes[k] # None => ~Closed(processes[k].run)

\* What makes the history right.
PastInv == /\ Unreported /\ InOrder /\ Open /\ FilesOpen /\ RemoveOK /\ StartFree
           /\ Whole

-----------------------------------------------------------------------------
(* What most steps leave alone.                                            *)

\* A completed write leaves the record of a managed process in its own file.
OwnWrites == \A f \in Files : Good(f)' =>
  \/ file'[f] = file[f]
  \/ \E k \in Keys : processes[k] # None /\ f = FileOf[k] /\ file'[f] = Record(k)

\* What is gone stays as it is.
DeadStay == \A p \in Pids : os[p].st = "dead" =>
              os'[p].st = "dead" /\ os'[p].how = os[p].how

Steady == /\ KeepsOs /\ KeepsProcs /\ OwnWrites /\ DeadStay
          /\ boot' = boot /\ nextRun' = nextRun

\* No result is captured or recorded.
KeepsResults == /\ captured' \subseteq captured
                /\ \A k \in Keys : processes'[k] # None =>
                     processes'[k].exit = processes[k].exit

\* Every step but a reboot, a load and a launch is steady, and every step but
\* those of an exit result keeps the results.
LEMMA SteadyStep ==
  ASSUME TypeInv, OwnInv, [Next]_vars
  PROVE  \/ Steady /\ KeepsResults
         \/ \E p \in Pids : Steady /\ (Reap(p) \/ CaptureProcessExit(p))
         \/ Reboot \/ LoadPersisted \/ \E p \in Pids : Spawn(p)
<1> USE DEF TypeInv, TypeOK, CurOK, HostTypes, SlaveTypes, OpTypes, Steady,
        KeepsOs, KeepsProcs, OwnWrites, DeadStay, KeepsResults, Good, hostVars,
        memoryVars, opVars, inputVars
<1>1. ASSUME NEW p \in Pids, NEW how \in Ends, ProcessEnds(p, how) PROVE Steady /\ KeepsResults
  BY <1>1, FilesType DEF ProcessEnds
<1>2. ASSUME NEW p \in Pids, Reap(p) PROVE Steady
  BY <1>2, FilesType DEF Reap
<1>3. ASSUME NEW p \in Pids, ForeignStarts(p) PROVE Steady /\ KeepsResults
  BY <1>3, FilesType DEF ForeignStarts, Unused, OwnInv, OwnOs, FreePid,
     Process
<1>4. ASSUME SlaveCrash PROVE Steady /\ KeepsResults
  BY <1>4, FilesType DEF SlaveCrash, SlaveGone, Process
<1>5. ASSUME SlaveStart PROVE Steady /\ KeepsResults
  BY <1>5, FilesType DEF SlaveStart
<1>6. ASSUME NEW l \in Lists, BeginReconcile(l) PROVE Steady /\ KeepsResults
  BY <1>6, FilesType DEF BeginReconcile, Idle
<1>7. ASSUME BeginTick PROVE Steady /\ KeepsResults
  BY <1>7, FilesType DEF BeginTick, Idle
<1>8. ASSUME NEW k \in Keys, NEW m \in {"stop_soft","stop_hard"},
      KillCommand(k, m) PROVE Steady /\ KeepsResults
  BY <1>8, FilesType DEF KillCommand, BeginStop, Truncate
<1>9. ASSUME NEW k \in Keys, NEW fp \in Fps, LaunchCommand(k, fp) PROVE Steady /\ KeepsResults
  BY <1>9, FilesType DEF LaunchCommand, BeginStop, Truncate
<1>10. ASSUME NEW p \in Pids, CaptureProcessExit(p) PROVE Steady
  BY <1>10, FilesType DEF CaptureProcessExit, Idle, IsCommandOf
<1>11. ASSUME NEW k \in Keys, VisitStopped(k) PROVE Steady /\ KeepsResults
  BY <1>11, FilesType DEF VisitStopped, Visiting, Continue, BeginStop,
     Truncate
<1>12. ASSUME NEW k \in Keys, VisitCompleted(k) PROVE Steady /\ KeepsResults
  BY <1>12, FilesType DEF VisitCompleted, Visiting, Continue
<1>13. ASSUME NEW k \in Keys, VisitAbsent(k) PROVE Steady /\ KeepsResults
  BY <1>13, FilesType DEF VisitAbsent, Visiting
<1>14. ASSUME NEW k \in Keys, VisitEnded(k) PROVE Steady /\ KeepsResults
  BY <1>14, FilesType DEF VisitEnded, Visiting, Finalize, Continue, Removed
<1>15. ASSUME NEW k \in Keys, VisitRunning(k) PROVE Steady /\ KeepsResults
  BY <1>15, FilesType DEF VisitRunning, Visiting, Continue, BeginStop,
     Truncate
<1>16. ASSUME NEW k \in Keys, VisitUnlisted(k) PROVE Steady /\ KeepsResults
  BY <1>16, FilesType DEF VisitUnlisted, Visiting, Continue, BeginStop,
     Truncate
<1>17. ASSUME NEW k \in Keys, TickEnded(k) PROVE Steady /\ KeepsResults
  BY <1>17, FilesType DEF TickEnded, Ticking, Finalize, Continue, Removed
<1>18. ASSUME NEW k \in Keys, TickRefresh(k) PROVE Steady /\ KeepsResults
  BY <1>18, FilesType DEF TickRefresh, Ticking, Truncate
<1>19. ASSUME TickRefreshed PROVE Steady /\ KeepsResults
  BY <1>19, FilesType DEF TickRefreshed, Fill, Continue
<1>20. ASSUME TickPackageChange PROVE Steady /\ KeepsResults
  BY <1>20, FilesType DEF TickPackageChange, BeginStop, Truncate
<1>21. ASSUME SendSignal PROVE Steady /\ KeepsResults
  BY <1>21, FilesType DEF SendSignal, Fill, Signalled
<1>22. ASSUME AwaitExit PROVE Steady /\ KeepsResults
  BY <1>22, FilesType DEF AwaitExit
<1>23. ASSUME AwaitTimeout PROVE Steady /\ KeepsResults
  BY <1>23, FilesType DEF AwaitTimeout, Signalled
<1>24. ASSUME RemoveStopped PROVE Steady /\ KeepsResults
  BY <1>24, FilesType DEF RemoveStopped, Removed, Continue
<1>25. ASSUME StartFails PROVE Steady /\ KeepsResults
  BY <1>25, FilesType DEF StartFails, Continue
<1>26. ASSUME WriteStarted PROVE Steady /\ KeepsResults
  BY <1>26, FilesType DEF WriteStarted, Fill, Continue
<1>27. ASSUME EndOp PROVE Steady /\ KeepsResults
  BY <1>27, FilesType DEF EndOp
<1>28. CASE UNCHANGED vars
  BY <1>28 DEF vars
<1> QED
  BY <1>1, <1>2, <1>3, <1>4, <1>5, <1>6, <1>7, <1>8, <1>9, <1>10, <1>11,
     <1>12, <1>13, <1>14, <1>15, <1>16, <1>17, <1>18, <1>19, <1>20, <1>21,
     <1>22, <1>23, <1>24, <1>25, <1>26, <1>27, <1>28 DEF Next, Host, Command,
     HolderStep

-----------------------------------------------------------------------------
(* Runs, files and results.                                                *)

\* The run of a managed process is one of the past.
LEMMA PastRuns ==
  ASSUME TypeInv, OwnInv, RunInv, NEW k \in Keys, processes[k] # None
  PROVE  /\ processes[k].run \in RunIds /\ processes[k].run < nextRun
         /\ processes[k].pid \in Pids
         /\ os[processes[k].pid].run = processes[k].run
         /\ os[processes[k].pid].key = k
  BY ProcFacts DEF OwnInv, OwnProcs, RunInv, RunsOK

\* A process and a file, or two processes, of one run are of one key.
LEMMA OneKey ==
  ASSUME TypeInv, OwnInv, RunInv, NEW k \in Keys, processes[k] # None
  PROVE  /\ \A j \in Keys : processes[j] # None
                           /\ processes[j].run = processes[k].run => j = k
         /\ \A f \in Files : Good(f) /\ file[f].boot = boot
                            /\ file[f].run = processes[k].run => f = FileOf[k]
         /\ \A p \in Pids : os[p].run = processes[k].run => p = processes[k].pid
<1>1. \A p \in Pids : os[p].run = processes[k].run => p = processes[k].pid
  BY PastRuns, ProcFacts DEF RunInv, RunsOK
<1>2. \A j \in Keys : processes[j] # None
                      /\ processes[j].run = processes[k].run => j = k
  BY <1>1, PastRuns
<1>3. \A f \in Files : Good(f) /\ file[f].boot = boot
                       /\ file[f].run = processes[k].run => f = FileOf[k]
  BY <1>1, PastRuns, ProcFacts DEF OwnInv, OwnFiles, RunInv, FilesOwn
<1> QED
  BY <1>1, <1>2, <1>3

\* A steady step keeps runs and files apart.
LEMMA RunsFrame ==
  ASSUME TypeInv, OwnInv, RunInv, Steady
  PROVE  RunsOK' /\ Counted' /\ FilesOwn'
<1>1. RunsOK' /\ Counted'
  BY DEF RunInv, RunsOK, Counted, Steady, KeepsOs
<1>2. ASSUME NEW f \in Files, Good(f)'
      PROVE  FileOf[file'[f].key] = f /\ file'[f].run < nextRun'
  <2>1. CASE file'[f] = file[f]
    BY <1>2, <2>1 DEF RunInv, FilesOwn, Steady, Good
  <2>2. CASE \E k \in Keys : /\ processes[k] # None /\ f = FileOf[k]
                             /\ file'[f] = Record(k)
    BY <2>2, PastRuns, ProcFacts DEF Steady
  <2> QED
    BY <1>2, <2>1, <2>2 DEF Steady, OwnWrites
<1> QED
  BY <1>1, <1>2 DEF FilesOwn

\* A step that keeps the results keeps them right.
LEMMA ResultsFrame ==
  ASSUME TypeInv, RunInv, Steady, KeepsResults
  PROVE  CapturedGone' /\ ExitResultIsOwn'
<1>1. CapturedGone'
  BY DEF RunInv, CapturedGone, Steady, DeadStay, KeepsResults, TypeInv, TypeOK,
         HostTypes
<1>2. ExitResultIsOwn'
  BY ProcFacts
  DEF RunInv, ExitResultIsOwn, Steady, DeadStay, KeepsProcs, KeepsResults
<1> QED
  BY <1>1, <1>2

\* The waiter of a child holds the result of a process it has reaped.
LEMMA ReapResults ==
  ASSUME TypeInv, RunInv, NEW p \in Pids, Reap(p)
  PROVE  CapturedGone' /\ ExitResultIsOwn'
<1>1. /\ os[p].st = "zombie" /\ captured' = captured \cup {p}
      /\ os' = [os EXCEPT ![p].st = "dead"] /\ processes' = processes
  BY DEF Reap, memoryVars
<1>2. CapturedGone'
  BY <1>1 DEF RunInv, CapturedGone, TypeInv, TypeOK, HostTypes, Process
<1>3. ExitResultIsOwn'
  BY <1>1, ProcFacts
  DEF RunInv, ExitResultIsOwn, TypeInv, TypeOK, HostTypes, Process
<1> QED
  BY <1>2, <1>3

\* The result goes to the process with the run of the pid, which is that pid.
LEMMA CaptureResults ==
  ASSUME TypeInv, OwnInv, RunInv, NEW p \in Pids, CaptureProcessExit(p)
  PROVE  CapturedGone' /\ ExitResultIsOwn'
<1>1. /\ p \in captured /\ captured' = captured \ {p} /\ os' = os
  BY DEF CaptureProcessExit
<1>2. CapturedGone'
  BY <1>1 DEF RunInv, CapturedGone
<1>3. ASSUME NEW k \in Keys, processes'[k] # None, processes'[k].exit # "none"
      PROVE  /\ os'[processes'[k].pid].st = "dead"
             /\ os'[processes'[k].pid].how = processes'[k].exit
  <2>1. CASE IsCommandOf(k, p)
    <3>1. processes[k] # None /\ p = processes[k].pid
      BY <2>1, OneKey DEF IsCommandOf
    <3>2. processes'[k] = [processes[k] EXCEPT !.exit = os[p].how]
      BY <2>1 DEF CaptureProcessExit
    <3>3. processes[k] \in Managed
      BY <3>1 DEF TypeInv, TypeOK, SlaveTypes
    <3>4. processes'[k].pid = p /\ processes'[k].exit = os[p].how
      BY <3>1, <3>2, <3>3 DEF Managed
    <3> QED
      BY <1>1, <3>4 DEF RunInv, CapturedGone
  <2>2. CASE ~IsCommandOf(k, p)
    BY <1>1, <1>3, <2>2 DEF CaptureProcessExit, RunInv, ExitResultIsOwn
  <2> QED
    BY <2>1, <2>2
<1> QED
  BY <1>2, <1>3 DEF ExitResultIsOwn

\* A launch: its run is new, and its pid was not handed out.
LEMMA RunSpawn ==
  ASSUME TypeInv, OwnInv, RunInv, NEW p \in Pids, Spawn(p)
  PROVE  RunInv'
<1>1. /\ os[p].st = "free" /\ cur \in Keys /\ nextRun' = nextRun + 1
      /\ os' = [os EXCEPT ![p] = Launched(nextRun, cur, nxt.fp)]
      /\ processes' = [processes EXCEPT ![cur] =
                     [run |-> nextRun, pid |-> p, fp |-> nxt.fp,
                      desired |-> nxt, cmd |-> TRUE, exit |-> "none"]]
      /\ Truncate(cur) /\ captured' = captured /\ nextRun \in Nat
  BY DEF Spawn, Unused, TypeInv, TypeOK, CountTypes, CurOK
<1>2. RunsOK'
  BY <1>1 DEF RunInv, RunsOK, Launched, TypeInv, TypeOK, HostTypes, Process
<1>3. FilesOwn'
  BY <1>1, ProcFacts, FilesType
  DEF RunInv, FilesOwn, Good, Truncate, TypeInv, TypeOK, SlaveTypes, RunIds
<1>4. CapturedGone'
  BY <1>1 DEF RunInv, CapturedGone, TypeInv, TypeOK, HostTypes
<1>5. ExitResultIsOwn'
  BY <1>1, ProcFacts
  DEF RunInv, ExitResultIsOwn, TypeInv, TypeOK, HostTypes, SlaveTypes
<1>6. Counted'
  BY <1>1, ConstantsAssumption DEF Spawn, Counted, ConstantsAssumption
<1> QED
  BY <1>2, <1>3, <1>4, <1>5, <1>6 DEF RunInv

\* Loading: what is adopted has no result yet.
LEMMA RunLoad ==
  ASSUME TypeInv, RunInv, LoadPersisted
  PROVE  RunInv'
<1>1. UNCHANGED <<os, captured, boot, nextRun>>
  BY DEF LoadPersisted, hostVars
<1>2. RunsOK' /\ Counted' /\ CapturedGone'
  BY <1>1 DEF RunInv, RunsOK, Counted, CapturedGone
<1>3. FilesOwn'
  BY <1>1, LoadFiles DEF RunInv, FilesOwn, Good
<1>4. ExitResultIsOwn'
  BY <1>1, Loaded DEF RunInv, ExitResultIsOwn
<1> QED
  BY <1>2, <1>3, <1>4 DEF RunInv

\* A reboot: nothing is managed, and no pid names a run.
LEMMA RunReboot ==
  ASSUME TypeInv, RunInv, Reboot
  PROVE  RunInv'
<1>1. nextRun \in Nat /\ nextRun # 0
  BY DEF TypeInv, TypeOK, CountTypes, CurOK
<1>2. RunsOK'
  BY <1>1 DEF Reboot, SlaveGone, RunsOK, FreePid
<1>3. Counted' /\ FilesOwn' /\ CapturedGone' /\ ExitResultIsOwn'
  BY DEF Reboot, SlaveGone, RunInv, Counted, FilesOwn, Good, CapturedGone, ExitResultIsOwn
<1> QED
  BY <1>2, <1>3 DEF RunInv

\* Every step keeps runs, files and results right.
LEMMA RunStep ==
  ASSUME TypeInv, OwnInv, RunInv, [Next]_vars
  PROVE  RunInv'
<1>1. CASE Steady /\ KeepsResults
  BY <1>1, RunsFrame, ResultsFrame DEF RunInv
<1>2. ASSUME NEW p \in Pids, Steady, Reap(p) \/ CaptureProcessExit(p)
      PROVE  RunInv'
  BY <1>2, RunsFrame, ReapResults, CaptureResults DEF RunInv
<1>3. CASE Reboot
  BY <1>3, RunReboot
<1>4. CASE LoadPersisted
  BY <1>4, RunLoad
<1>5. ASSUME NEW p \in Pids, Spawn(p) PROVE RunInv'
  BY <1>5, RunSpawn
<1> QED
  BY <1>1, <1>2, <1>3, <1>4, <1>5, SteadyStep

\* They are right at first.
LEMMA RunInit == Init => RunInv
  BY FilesType, ConstantsAssumption
  DEF Init, RunInv, RunsOK, Counted, FilesOwn, CapturedGone, ExitResultIsOwn,
      Good, FreePid, Pids, Files, ConstantsAssumption

\* Types, pids, runs and results, always.
LEMMA RunInvariant == Spec => [](TypeInv /\ OwnInv /\ RunInv)
<1>1. TypeInv /\ OwnInv /\ RunInv /\ [Next]_vars => (TypeInv /\ OwnInv /\ RunInv)'
  BY TypeStep, OwnStep, RunStep
<1>2. Init => TypeInv /\ OwnInv /\ RunInv
  BY InitType, OwnInit, RunInit
<1> QED
  BY <1>1, <1>2, PTL DEF Spec

\* The exit result kept for a process is its own, whatever replaced it under its
\* key, and under all hazards.
THEOREM ResultsOwned == Spec => []ExitResultIsOwn
  BY RunInvariant, PTL DEF RunInv
-----------------------------------------------------------------------------
(* The history of each run.                                                *)

\* HistoryLegal, in its two parts.
LEMMA LegalParts == HistoryLegal <=> InOrder /\ Open
  BY DEF HistoryLegal, InOrder, Open

\* What a report does to the history of its run, and of the others.
LEMMA Reported ==
  ASSUME TypeInv, NEW r \in RunIds, NEW c \in Changes, Report(r, c)
  PROVE  /\ \A q \in RunIds \ {r} : history'[q] = history[q]
         /\ history[r] \in Seq(Changes)
         /\ history'[r] = Append(history[r], c)
         /\ \A q \in RunIds : Closed(q)' <=> Closed(q) \/ (q = r /\ c \in Closing)
<1>1. /\ history[r] \in Seq(Changes) /\ history'[r] = Append(history[r], c)
      /\ \A q \in RunIds \ {r} : history'[q] = history[q]
  BY DEF Report, TypeInv, TypeOK, CountTypes
<1>2. Closed(r)' <=> Closed(r) \/ c \in Closing
  <2>1. /\ DOMAIN history'[r] = DOMAIN history[r] \cup {Len(history[r]) + 1}
        /\ \A i \in DOMAIN history[r] : history'[r][i] = history[r][i]
        /\ history'[r][Len(history[r]) + 1] = c
    BY <1>1
  <2> QED
    BY <2>1 DEF Closed
<1>3. \A q \in RunIds \ {r} : Closed(q)' <=> Closed(q)
  BY <1>1 DEF Closed
<1> QED
  BY <1>1, <1>2, <1>3

\* A change of a run that is not closed comes in order; a start must be first.
LEMMA ReportInOrder ==
  ASSUME TypeInv, InOrder, NEW r \in RunIds, NEW c \in Changes, Report(r, c),
         ~Closed(r), c = "started" => history[r] = <<>>
  PROVE  InOrder'
<1> SUFFICES ASSUME NEW q \in RunIds, NEW i \in DOMAIN history'[q]
             PROVE  /\ history'[q][i] = "started" => i = 1
                    /\ history'[q][i] \in Closing => i = Len(history'[q])
  BY DEF InOrder
<1>1. CASE q # r
  BY <1>1, Reported DEF InOrder
<1>2. CASE q = r
  <2>1. /\ history[r] \in Seq(Changes) /\ history'[r] = Append(history[r], c)
    BY Reported
  <2>2. CASE i = Len(history[r]) + 1
    BY <1>2, <2>1, <2>2
  <2>3. CASE i # Len(history[r]) + 1
    <3>1. i \in DOMAIN history[r] /\ history'[q][i] = history[r][i]
      BY <1>2, <2>1, <2>3
    <3>2. history[r][i] \notin Closing
      BY <3>1 DEF Closed
    <3> QED
      BY <3>1, <3>2 DEF InOrder
  <2> QED
    BY <2>2, <2>3
<1> QED
  BY <1>1, <1>2

\* A run that stays open stays open in all that names it.
LEMMA OpenFrame ==
  ASSUME TypeInv, OwnInv, RunInv, Open, FilesOpen, Steady,
         \A r \in RunIds : Closed(r)' => Closed(r),
         \A p \in Pids : Running(p)' => Running(p)
  PROVE  Open' /\ FilesOpen'
<1>1. ASSUME NEW p \in Pids, Running(p)' PROVE ~Closed(os[p].run)'
  <2>1. Running(p) /\ os'[p].run = os[p].run
    BY <1>1 DEF Steady, KeepsOs
  <2>2. os[p].run \in RunIds
    BY <2>1 DEF Running, TypeInv, TypeOK, HostTypes, Process, RunIds
  <2> QED
    BY <2>1, <2>2 DEF Open, Closed
<1>2. \A k \in Keys : processes'[k] # None => ~Closed(processes[k].run)'
  BY PastRuns DEF Open, Closed, Steady, KeepsProcs
<1>3. ASSUME NEW f \in Files, Good(f)', file'[f].boot = boot'
      PROVE  ~Closed(file[f].run)'
  <2>1. CASE file'[f] = file[f]
    BY <1>3, <2>1, ProcFacts DEF FilesOpen, Closed, Steady, Good
  <2>2. CASE \E k \in Keys : /\ processes[k] # None /\ f = FileOf[k]
                             /\ file'[f] = Record(k)
    BY <2>2, PastRuns, ProcFacts DEF Open, Closed
  <2> QED
    BY <1>3, <2>1, <2>2 DEF Steady, OwnWrites
<1> QED
  BY <1>1, <1>2, <1>3 DEF Open, FilesOpen

\* The run that is closed is gone from all that names a run.
LEMMA OpenClosing ==
  ASSUME TypeInv, OwnInv, RunInv, Open, FilesOpen,
         NEW k \in Keys, processes[k] # None,
         processes' = [processes EXCEPT ![k] = None], Removed(k),
         ~Running(processes[k].pid), os' = os, boot' = boot,
         \A r \in RunIds : Closed(r)' => Closed(r) \/ r = processes[k].run
  PROVE  Open' /\ FilesOpen'
<1>1. ASSUME NEW p \in Pids, Running(p)' PROVE ~Closed(os[p].run)'
  <2>1. Running(p) /\ os'[p].run = os[p].run /\ p # processes[k].pid
    BY <1>1 DEF Running
  <2>2. os[p].run \in RunIds
    BY <2>1 DEF Running, TypeInv, TypeOK, HostTypes, Process, RunIds
  <2>3. os[p].run # processes[k].run
    BY <2>1, OneKey
  <2> QED
    BY <2>1, <2>2, <2>3 DEF Open, Closed
<1>2. ASSUME NEW j \in Keys, processes'[j] # None
      PROVE  ~Closed(processes[j].run)'
  <2>1. j # k /\ processes'[j] = processes[j]
    BY <1>2 DEF TypeInv, TypeOK, SlaveTypes
  <2>2. processes[j].run # processes[k].run
    BY <1>2, <2>1, OneKey
  <2> QED
    BY <1>2, <2>1, <2>2, PastRuns DEF Open, Closed
<1>3. ASSUME NEW f \in Files, Good(f)', file'[f].boot = boot'
      PROVE  ~Closed(file[f].run)'
  <2>1. f # FileOf[k] /\ file'[f] = file[f]
    BY <1>3, FilesType DEF Removed, Good, TypeInv, TypeOK, SlaveTypes
  <2>2. Good(f) /\ file[f].boot = boot
    BY <1>3, <2>1 DEF Good
  <2>3. file[f].run # processes[k].run
    BY <2>1, <2>2, OneKey
  <2> QED
    BY <2>1, <2>2, <2>3, ProcFacts DEF FilesOpen, Closed
<1> QED
  BY <1>1, <1>2, <1>3 DEF Open, FilesOpen
-----------------------------------------------------------------------------
(* The steps that report nothing.                                          *)

\* Nothing is reported, runs anew, begins to be written or is about to be
\* forgotten; what is managed stays, unless the slave crashes.
Silent ==
  /\ Steady /\ history' = history
  /\ \A p \in Pids : Running(p)' => Running(p)
  /\ step' = "write" => step = "write" /\ cur' = cur
  /\ RemoveOK' /\ StartFree'
  /\ \/ crashes' = crashes /\ \A k \in Keys : processes[k] # None => processes'[k] # None
     \/ crashes' # 0

\* Such a step keeps the history right.
LEMMA PastSilent ==
  ASSUME TypeInv, TypeInv', OwnInv, RunInv, PastInv, Silent
  PROVE  PastInv'
<1>1. \A r \in RunIds : Closed(r)' <=> Closed(r)
  BY DEF Silent, Closed
<1>2. Open' /\ FilesOpen'
  BY <1>1, OpenFrame DEF PastInv, Silent
<1>3. InOrder'
  BY DEF PastInv, InOrder, Silent
<1>4. Unreported'
  BY DEF PastInv, Unreported, Silent, Steady, KeepsProcs, TypeInv, CurOK
<1>5. Whole'
  <2>1. CASE crashes' # 0
    BY <2>1 DEF Whole
  <2>2. CASE /\ crashes' = crashes
             /\ \A k \in Keys : processes[k] # None => processes'[k] # None
    BY <1>1, <2>2 DEF PastInv, Whole, Silent, Steady, KeepsProcs
  <2> QED
    BY <2>1, <2>2 DEF Silent
<1> QED
  BY <1>2, <1>3, <1>4, <1>5 DEF PastInv, Silent

\* A process that ends, is reaped, or is somebody else's makes none run anew.
LEMMA HostSilent ==
  ASSUME TypeInv, OwnInv, PastInv, Steady, NEW p \in Pids,
         \/ \E how \in Ends : ProcessEnds(p, how)
         \/ Reap(p) \/ ForeignStarts(p)
  PROVE  Silent
<1>1. \A q \in Pids : q # p => os'[q] = os[q]
  BY DEF ProcessEnds, Reap, ForeignStarts, TypeInv, TypeOK, HostTypes
<1>2. ~Running(p)'
  <2>1. ASSUME NEW how \in Ends, ProcessEnds(p, how) PROVE ~Running(p)'
    BY <2>1 DEF ProcessEnds, Running, TypeInv, TypeOK, HostTypes, Process
  <2>2. CASE Reap(p)
    BY <2>2 DEF Reap, Running, TypeInv, TypeOK, HostTypes, Process
  <2>3. CASE ForeignStarts(p)
    BY <2>3 DEF ForeignStarts, Running, FreePid, TypeInv, TypeOK, HostTypes
  <2> QED
    BY <2>1, <2>2, <2>3
<1>3. \A q \in Pids : Running(q)' => Running(q)
  BY <1>1, <1>2 DEF Running
<1>4. UNCHANGED <<memoryVars, opVars, history, crashes>>
  BY DEF ProcessEnds, Reap, ForeignStarts, inputVars
<1>5. RemoveOK'
  <2> SUFFICES ASSUME step = "remove" PROVE ~Running(processes[cur].pid)'
    BY <1>4 DEF RemoveOK, opVars
  <2>1. cur \in Keys /\ processes[cur] # None
    BY DEF TypeInv, CurOK
  <2>2. processes[cur].pid \in Pids /\ ~Running(processes[cur].pid)
    BY <2>1, ProcFacts DEF PastInv, RemoveOK
  <2> QED
    BY <1>3, <1>4, <2>2 DEF Running, memoryVars, opVars
<1> QED
  BY <1>3, <1>4, <1>5
  DEF Silent, PastInv, StartFree, memoryVars, opVars

\* A signal: what is killed, or gone, does not run when it is forgotten.
LEMMA StopSilent ==
  ASSUME TypeInv, PastInv, Steady, SendSignal \/ AwaitExit \/ AwaitTimeout
  PROVE  Silent
<1>1. cur \in Keys /\ processes[cur] # None /\ processes[cur].pid \in Pids
  BY ProcFacts DEF SendSignal, AwaitExit, AwaitTimeout, TypeInv, CurOK
<1>2. /\ processes' = processes /\ history' = history /\ crashes' = crashes
      /\ cur' = cur /\ step' \in {"await", "remove"}
  BY DEF SendSignal, AwaitExit, AwaitTimeout, memoryVars, inputVars
<1>3. \A p \in Pids : Running(p)' => Running(p)
  BY <1>1, SignalledFacts
  DEF SendSignal, AwaitExit, AwaitTimeout, hostVars, Running
<1>4. step' = "remove" => ~Running(processes[cur].pid)'
  <2>1. CASE SendSignal /\ step = "stop_soft"
    BY <2>1 DEF SendSignal
  <2>2. CASE SendSignal /\ step # "stop_soft"
    BY <1>1, <1>2, <2>2, SignalledFacts DEF SendSignal, Running
  <2>3. CASE AwaitExit
    BY <1>2, <2>3 DEF AwaitExit, Exists, Running, hostVars
  <2>4. CASE AwaitTimeout
    BY <1>1, <1>2, <2>4, SignalledFacts DEF AwaitTimeout, Running
  <2> QED
    BY <2>1, <2>2, <2>3, <2>4
<1> QED
  BY <1>2, <1>3, <1>4 DEF Silent, RemoveOK, StartFree, Running

\* The result of an exit, and the visit of a running process, leave what is
\* managed and what is not.
LEMMA SameSilent ==
  ASSUME TypeInv, PastInv, Steady, os' = os, SameManaged,
         UNCHANGED <<history, crashes>>,
         step' \notin {"write", "remove", "start"} \/ UNCHANGED <<step, cur>>
  PROVE  Silent
<1>1. RemoveOK'
  BY ProcFacts DEF SameManaged, PastInv, RemoveOK, Running, TypeInv, CurOK
<1>2. StartFree'
  BY DEF SameManaged, PastInv, StartFree, TypeInv, CurOK
<1> QED
  BY <1>1, <1>2 DEF Silent, SameManaged, Running
\* Every step that is no reboot, load or launch is silent or reports.
LEMMA SilentStep ==
  ASSUME TypeInv, OwnInv, PastInv, Steady, [Next]_vars
  PROVE  \/ Silent \/ RemoveStopped \/ WriteStarted
         \/ \E k \in Keys : VisitEnded(k) \/ TickEnded(k) \/ VisitUnlisted(k)
         \/ Reboot \/ LoadPersisted \/ \E p \in Pids : Spawn(p)
<1> USE DEF hostVars, memoryVars, opVars, inputVars, SameManaged
<1>1. ASSUME NEW p \in Pids, (\E how \in Ends : ProcessEnds(p, how)) \/
      Reap(p) \/ ForeignStarts(p) PROVE Silent
  BY <1>1, HostSilent
<1>2. ASSUME SendSignal \/ AwaitExit \/ AwaitTimeout PROVE Silent
  BY <1>2, StopSilent
<1>3. ASSUME SlaveCrash PROVE Silent
  BY <1>3
  DEF Silent, SlaveCrash, SlaveGone, Running, RemoveOK, StartFree, TypeInv,
      TypeOK, HostTypes, CountTypes, Process
<1>4. ASSUME SlaveStart PROVE Silent
  BY <1>4, SameSilent DEF SlaveStart
<1>5. ASSUME NEW l \in Lists, BeginReconcile(l) PROVE Silent
  BY <1>5, SameSilent DEF BeginReconcile
<1>6. ASSUME BeginTick PROVE Silent
  BY <1>6, SameSilent DEF BeginTick
<1>7. ASSUME NEW k \in Keys, NEW m \in {"stop_soft","stop_hard"},
      KillCommand(k, m) PROVE Silent
  BY <1>7, SameSilent DEF KillCommand, BeginStop
<1>8. ASSUME NEW p \in Pids, CaptureProcessExit(p) PROVE Silent
  BY <1>8, CaptureKeeps, SameSilent DEF CaptureProcessExit
<1>9. ASSUME NEW k \in Keys, VisitStopped(k) PROVE Silent
  BY <1>9, SameSilent DEF VisitStopped, Continue, BeginStop
<1>10. ASSUME NEW k \in Keys, VisitCompleted(k) PROVE Silent
  BY <1>10, SameSilent DEF VisitCompleted, Continue
<1>11. ASSUME NEW k \in Keys, VisitRunning(k) PROVE Silent
  BY <1>11, VisitRunningKeeps, SameSilent DEF VisitRunning, Continue,
     BeginStop
<1>12. ASSUME NEW k \in Keys, TickRefresh(k) PROVE Silent
  BY <1>12, SameSilent DEF TickRefresh
<1>13. ASSUME TickRefreshed PROVE Silent
  BY <1>13, SameSilent DEF TickRefreshed, Continue
<1>14. ASSUME TickPackageChange PROVE Silent
  BY <1>14, SameSilent DEF TickPackageChange, BeginStop
<1>15. ASSUME StartFails PROVE Silent
  BY <1>15, SameSilent DEF StartFails, Continue
<1>16. ASSUME EndOp PROVE Silent
  BY <1>16, SameSilent DEF EndOp
<1>17. ASSUME NEW k \in Keys, VisitAbsent(k) PROVE Silent
  BY <1>17, ProcFacts DEF VisitAbsent, Silent, RemoveOK, StartFree, Running
<1>18. ASSUME NEW k \in Keys, NEW fp \in Fps, LaunchCommand(k, fp) PROVE
      Silent
  BY <1>18, ProcFacts DEF LaunchCommand, BeginStop, Silent, RemoveOK,
     StartFree, Running
<1>19. CASE UNCHANGED vars
  BY <1>19, SameSilent DEF vars
<1> QED
  BY <1>1, <1>2, <1>3, <1>4, <1>5, <1>6, <1>7, <1>8, <1>9, <1>10, <1>11,
     <1>12, <1>13, <1>14, <1>15, <1>16, <1>17, <1>18, <1>19 DEF Next, Host,
     Command, HolderStep

-----------------------------------------------------------------------------
(* The steps that report.                                                  *)

\* A change that closes nothing.
LEMMA PastReport ==
  ASSUME TypeInv, TypeInv', OwnInv, RunInv, PastInv, Steady, os' = os,
         crashes' = crashes, processes' = processes,
         NEW k \in Keys, processes[k] # None,
         NEW c \in Changes \ Closing, Report(processes[k].run, c),
         c = "started" => history[processes[k].run] = <<>>,
         step' \notin {"write", "remove", "start"}
  PROVE  PastInv'
<1>1. processes[k].run \in RunIds /\ processes[k].run < nextRun
  BY PastRuns
<1>2. \A r \in RunIds : Closed(r)' <=> Closed(r)
  BY <1>1, Reported
<1>3. Open' /\ FilesOpen'
  BY <1>2, OpenFrame DEF PastInv, Running
<1>4. InOrder'
  BY <1>1, ReportInOrder DEF PastInv, Open
<1>5. Unreported'
  BY <1>1, Reported
  DEF PastInv, Unreported, Steady, RunIds, TypeInv, TypeOK, CountTypes
<1>6. Whole'
  BY <1>2 DEF PastInv, Whole, Steady
<1> QED
  BY <1>3, <1>4, <1>5, <1>6 DEF PastInv, RemoveOK, StartFree

\* A change that closes the run of a process that no longer runs, and forgets it.
LEMMA PastClose ==
  ASSUME TypeInv, TypeInv', OwnInv, RunInv, PastInv, Steady, os' = os,
         crashes' = crashes,
         NEW k \in Keys, processes[k] # None,
         processes' = [processes EXCEPT ![k] = None], Removed(k),
         ~Running(processes[k].pid),
         NEW c \in Closing, Report(processes[k].run, c),
         step' = "visit" \/ (step' = "start" /\ cur' = k)
  PROVE  PastInv'
<1>1. processes[k].run \in RunIds /\ processes[k].run < nextRun
  BY PastRuns
<1>2. c \in Changes /\ c # "started"
  BY DEF Changes, Closing, Ends
<1>3. \A r \in RunIds : Closed(r)' <=> Closed(r) \/ r = processes[k].run
  BY <1>1, <1>2, Reported
<1>4. Open' /\ FilesOpen'
  BY <1>3, OpenClosing DEF PastInv, Steady
<1>5. InOrder'
  BY <1>1, <1>2, ReportInOrder DEF PastInv, Open
<1>6. Unreported'
  BY <1>1, <1>2, Reported
  DEF PastInv, Unreported, Steady, RunIds, TypeInv, TypeOK, CountTypes
<1>7. Whole'
  BY <1>3 DEF PastInv, Whole, Steady, TypeInv, TypeOK, SlaveTypes
<1>8. StartFree' /\ RemoveOK'
  BY DEF StartFree, RemoveOK, TypeInv, TypeOK, SlaveTypes
<1> QED
  BY <1>4, <1>5, <1>6, <1>7, <1>8 DEF PastInv

\* What is gone does not run.
LEMMA GoneNotRunning ==
  ASSUME TypeInv, RunInv, NEW k \in Keys, processes[k] # None, Gone(k)
  PROVE  ~Running(processes[k].pid)
  BY ProcFacts DEF Gone, Exists, Running, RunInv, ExitResultIsOwn

\* The steps that report a change.
LEMMA PastReports ==
  ASSUME TypeInv, TypeInv', OwnInv, RunInv, PastInv, Steady,
         \/ RemoveStopped \/ WriteStarted
         \/ \E k \in Keys : VisitEnded(k) \/ TickEnded(k) \/ VisitUnlisted(k)
  PROVE  PastInv'
<1> USE DEF hostVars, memoryVars, inputVars, Continue
<1>1. CASE RemoveStopped
  <2>1. cur \in Keys /\ processes[cur] # None /\ ~Running(processes[cur].pid)
    BY <1>1 DEF RemoveStopped, TypeInv, CurOK, PastInv, RemoveOK
  <2>2. "killed" \in Closing
    BY DEF Closing
  <2> QED
    BY <1>1, <2>1, <2>2, PastClose DEF RemoveStopped
<1>2. CASE WriteStarted
  <2>1. /\ cur \in Keys /\ processes[cur] # None
        /\ history[processes[cur].run] = <<>>
    BY <1>2 DEF WriteStarted, TypeInv, CurOK, PastInv, Unreported
  <2>2. "started" \in Changes \ Closing
    BY DEF Changes, Closing, Ends
  <2> QED
    BY <1>2, <2>1, <2>2, PastReport DEF WriteStarted
<1>3. ASSUME NEW k \in Keys, VisitEnded(k) \/ TickEnded(k) PROVE PastInv'
  <2>1. /\ processes[k] # None /\ Gone(k)
        /\ \E d \in Desired \cup {None} : Finalize(k, d)
        /\ os' = os /\ crashes' = crashes
        /\ step' = "visit" \/ (step' = "start" /\ cur' = k)
    BY <1>3
    DEF VisitEnded, TickEnded, Visiting, Ticking, Wanted, TypeInv, TypeOK,
        CurOK, SlaveTypes, DesiredLists, Managed
  <2>2. PICK c \in Closing : Report(processes[k].run, c)
    <3>1. processes[k].exit \in Ends \cup {"none"}
      BY <2>1 DEF TypeInv, TypeOK, SlaveTypes, Managed
    <3> QED
      BY <2>1, <3>1 DEF Finalize, Closing, Ends
  <2>3. processes' = [processes EXCEPT ![k] = None] /\ Removed(k)
    BY <2>1 DEF Finalize
  <2> QED
    BY <2>1, <2>2, <2>3, GoneNotRunning, PastClose
<1>4. ASSUME NEW k \in Keys, VisitUnlisted(k) PROVE PastInv'
  <2>1. CASE processes[k] = None
    <3>1. Silent
      BY <1>4, <2>1, SameSilent DEF VisitUnlisted, SameManaged
    <3> QED
      BY <3>1, PastSilent
  <2>2. CASE processes[k] # None
    <3>1. "orphaned" \in Changes \ Closing
      BY DEF Changes, Closing, Ends
    <3> QED
      BY <1>4, <2>2, <3>1, PastReport DEF VisitUnlisted, BeginStop
  <2> QED
    BY <2>1, <2>2
<1> QED
  BY <1>1, <1>2, <1>3, <1>4
-----------------------------------------------------------------------------
(* The steps that change what names a run: a launch, a load, a reboot.     *)

\* A launch: its run has no history.
LEMMA PastSpawn ==
  ASSUME TypeInv, TypeInv', OwnInv, RunInv, PastInv, NEW p \in Pids, Spawn(p)
  PROVE  PastInv'
<1>1. /\ os[p].st = "free" /\ cur \in Keys /\ processes[cur] = None
      /\ os' = [os EXCEPT ![p] = Launched(nextRun, cur, nxt.fp)]
      /\ processes' = [processes EXCEPT ![cur] =
                     [run |-> nextRun, pid |-> p, fp |-> nxt.fp,
                      desired |-> nxt, cmd |-> TRUE, exit |-> "none"]]
      /\ Truncate(cur) /\ boot' = boot /\ nextRun' = nextRun + 1
      /\ history' = history /\ cur' = cur /\ step' = "write"
      /\ crashes' = crashes /\ nextRun \in RunIds
  BY DEF Spawn, Unused, TypeInv, TypeOK, CurOK, CountTypes, PastInv, StartFree,
         inputVars, RunIds
<1>2. history[nextRun] = <<>> /\ ~Closed(nextRun)
  BY <1>1 DEF PastInv, Unreported, Closed, RunIds
<1>3. \A r \in RunIds : Closed(r)' <=> Closed(r)
  BY <1>1 DEF Closed
<1>4. /\ processes'[cur].run = nextRun
      /\ \A k \in Keys \ {cur} : processes'[k] = processes[k]
  BY <1>1 DEF TypeInv, TypeOK, SlaveTypes
<1>5. Unreported'
  BY <1>1, <1>2, <1>4
  DEF PastInv, Unreported, RunIds, TypeInv, TypeOK, CountTypes
<1>6. InOrder'
  BY <1>1 DEF PastInv, InOrder
<1>7. Open'
  <2>1. ASSUME NEW q \in Pids, Running(q)' PROVE ~Closed(os[q].run)'
    <3>1. CASE q = p
      BY <1>1, <1>2, <3>1 DEF Closed, Launched, TypeInv, TypeOK, HostTypes
    <3>2. CASE q # p
      BY <1>1, <2>1, <3>2
      DEF PastInv, Open, Closed, Running, TypeInv, TypeOK, HostTypes
    <3> QED
      BY <3>1, <3>2
  <2>2. \A k \in Keys : processes'[k] # None => ~Closed(processes[k].run)'
    BY <1>1, <1>2, <1>4 DEF PastInv, Open, Closed
  <2> QED
    BY <2>1, <2>2 DEF Open
<1>8. FilesOpen'
  <2> SUFFICES ASSUME NEW f \in Files, Good(f)', file'[f].boot = boot'
               PROVE  ~Closed(file[f].run)'
    BY DEF FilesOpen
  <2>1. file'[f] = file[f]
    BY <1>1, FilesType DEF Truncate, Good, TypeInv, TypeOK, SlaveTypes
  <2> QED
    BY <1>1, <2>1 DEF PastInv, FilesOpen, Good, Closed
<1>9. RemoveOK' /\ StartFree'
  BY <1>1 DEF RemoveOK, StartFree
<1>10. Whole'
  <2> SUFFICES ASSUME boot' = 1 /\ crashes' = 0, NEW r \in RunIds, r < nextRun'
               PROVE  \/ Closed(r)'
                      \/ \E k \in Keys : processes'[k] # None
                                     /\ processes'[k].run = r
    BY DEF Whole
  <2>1. CASE r = nextRun
    <3>1. processes'[cur] # None
      BY <1>1 DEF TypeInv, CurOK
    <3> QED
      BY <1>1, <1>4, <2>1, <3>1
  <2>2. CASE r # nextRun
    <3>1. r < nextRun
      BY <1>1, <2>2 DEF RunIds
    <3> QED
      BY <1>1, <1>3, <1>4, <3>1 DEF PastInv, Whole
  <2> QED
    BY <2>1, <2>2
<1> QED
  BY <1>5, <1>6, <1>7, <1>8, <1>9, <1>10 DEF PastInv

\* A reboot: nothing runs, nothing is managed and every file is of an earlier
\* boot.
LEMMA PastReboot ==
  ASSUME TypeInv, OwnInv, PastInv, Reboot
  PROVE  PastInv'
<1>1. /\ history' = history /\ nextRun' = nextRun /\ file' = file
      /\ boot' = boot + 1 /\ step' = "visit"
      /\ \A k \in Keys : processes'[k] = None
      /\ \A p \in Pids : os'[p] = FreePid
  BY DEF Reboot, SlaveGone
<1>2. Unreported' /\ InOrder' /\ RemoveOK' /\ StartFree'
  BY <1>1 DEF PastInv, Unreported, InOrder, RemoveOK, StartFree
<1>3. Open'
  BY <1>1 DEF Open, Running, FreePid
<1>4. FilesOpen' /\ Whole'
  BY <1>1, ProcFacts
  DEF FilesOpen, Whole, OwnInv, OwnFiles, Good, TypeInv, TypeOK, HostTypes, Boots
<1> QED
  BY <1>2, <1>3, <1>4 DEF PastInv

\* What loading does with the file of a run.  The run of a file that is not
\* adoptable neither runs, nor is managed, nor is in a file that stays.
Lost(f) == /\ Good(f) /\ file[f].boot = boot /\ ~Adoptable(f)
           /\ f \notin {FileOf[k] : k \in {j \in Keys : processes[j] # None}}
Adopted(f) == Good(f) /\ Adoptable(f)

\* What is reported of each run while the files are loaded.
LEMMA LoadNews ==
  ASSUME TypeInv, LoadPersisted, NEW r \in RunIds
  PROVE  \/ /\ history'[r] = Append(history[r], "exited")
            /\ \E f \in Files : Lost(f) /\ file[f].run = r /\ file'[f] = None
         \/ /\ history'[r] = Append(history[r], "adopted")
            /\ \E f \in Files : Adopted(f) /\ file[f].run = r
         \/ history'[r] = history[r]
<1> DEFINE owned    == {FileOf[k] : k \in {j \in Keys : processes[j] # None}}
           stored   == {f \in Files \ owned : file[f] \notin {None, Torn}}
           adopted  == {f \in stored : Adoptable(f)}
           lost     == {f \in stored : file[f].boot = boot /\ ~Adoptable(f)}
           Matching(f) == /\ list[file[f].key] # None
                          /\ Matches(list[file[f].key], file[f])
           News == IF \E f \in lost : file[f].run = r THEN <<"exited">>
                   ELSE IF \E f \in adopted : file[f].run = r /\ Matching(f)
                   THEN <<"adopted">> ELSE <<>>
<1>1. /\ history'[r] = history[r] \o News
      /\ file' = [f \in Files |-> IF f \in stored \ adopted THEN None ELSE file[f]]
  BY DEF LoadPersisted
<1>2. history[r] \in Seq(Changes)
  BY DEF TypeInv, TypeOK, CountTypes
<1>3. /\ history[r] \o <<>> = history[r]
      /\ history[r] \o <<"exited">> = Append(history[r], "exited")
      /\ history[r] \o <<"adopted">> = Append(history[r], "adopted")
  BY <1>2
<1>4. CASE \E f \in lost : file[f].run = r
  <2>1. PICK f \in lost : file[f].run = r
    BY <1>4
  <2>2. Lost(f) /\ file'[f] = None
    BY <1>1, <2>1 DEF Lost, Good
  <2> QED
    BY <1>1, <1>3, <1>4, <2>1, <2>2
<1>5. CASE /\ ~\E f \in lost : file[f].run = r
           /\ \E f \in adopted : file[f].run = r /\ Matching(f)
  <2>1. PICK f \in adopted : file[f].run = r
    BY <1>5
  <2>2. Adopted(f)
    BY <2>1 DEF Adopted, Good
  <2> QED
    BY <1>1, <1>3, <1>5, <2>1, <2>2
<1>6. CASE /\ ~\E f \in lost : file[f].run = r
           /\ ~\E f \in adopted : file[f].run = r /\ Matching(f)
  BY <1>1, <1>3, <1>6
<1> QED
  BY <1>4, <1>5, <1>6
\* A run that is closed while the files are loaded is that of a lost file.
LEMMA LoadCloses ==
  ASSUME TypeInv, LoadPersisted, NEW r \in RunIds, Closed(r)', ~Closed(r)
  PROVE  \E f \in Files : Lost(f) /\ file[f].run = r /\ file'[f] = None
<1>1. history[r] \in Seq(Changes)
  BY DEF TypeInv, TypeOK, CountTypes
<1>2. ASSUME history'[r] = Append(history[r], "adopted") PROVE FALSE
  <2>1. /\ DOMAIN history'[r] = DOMAIN history[r] \cup {Len(history[r]) + 1}
        /\ \A i \in DOMAIN history[r] : history'[r][i] = history[r][i]
        /\ history'[r][Len(history[r]) + 1] = "adopted"
    BY <1>1, <1>2
  <2> QED
    BY <2>1 DEF Closed, Closing, Ends
<1>3. history'[r] # history[r]
  BY DEF Closed
<1> QED
  BY <1>2, <1>3, LoadNews

\* The run of a lost file is of nothing that runs, is managed, or is kept.
LEMMA LostRun ==
  ASSUME TypeInv, OwnInv, RunInv, LoadPersisted, NEW f \in Files, Lost(f),
         file'[f] = None
  PROVE  /\ \A p \in Pids : Running(p) => os[p].run # file[f].run
         /\ \A k \in Keys : processes'[k] # None => processes'[k].run # file[f].run
         /\ \A g \in Files : Good(g)' /\ file'[g].boot = boot =>
              file'[g].run # file[f].run
<1>1. /\ file[f].pid \in Pids /\ os[file[f].pid].run = file[f].run
      /\ file[f].run # 0 /\ file[f].key \in Keys
      /\ os[file[f].pid].key = file[f].key /\ FileOf[file[f].key] = f
      /\ ~Exists(file[f].pid)
  BY ProcFacts DEF Lost, Adoptable, Good, OwnInv, OwnFiles, RunInv, FilesOwn
<1>2. \A p \in Pids : os[p].run = file[f].run => p = file[f].pid
  BY <1>1 DEF RunInv, RunsOK
<1>3. \A p \in Pids : Running(p) => os[p].run # file[f].run
  BY <1>1, <1>2 DEF Running, Exists
<1>4. ASSUME NEW k \in Keys, processes'[k] # None,
             processes'[k].run = file[f].run
      PROVE  FALSE
  <2>1. CASE processes'[k] = processes[k]
    <3>1. f = FileOf[k]
      BY <1>4, <2>1, OneKey DEF Lost
    <3> QED
      BY <1>4, <2>1, <3>1 DEF Lost
  <2>2. CASE /\ Good(FileOf[k]) /\ Adoptable(FileOf[k])
             /\ processes'[k].run = file[FileOf[k]].run
    <3>1. os[file[FileOf[k]].pid].run = file[f].run /\ Exists(file[FileOf[k]].pid)
      BY <1>4, <2>2, FilesType DEF OwnInv, OwnFiles, Adoptable
    <3>2. file[FileOf[k]].pid \in Pids
      BY <2>2, FilesType, ProcFacts
    <3> QED
      BY <1>1, <1>2, <3>1, <3>2
  <2> QED
    BY <2>1, <2>2, Loaded
<1>5. ASSUME NEW g \in Files, Good(g)', file'[g].boot = boot,
             file'[g].run = file[f].run
      PROVE  FALSE
  <2>1. file'[g] = file[g] /\ Good(g)
    BY <1>5, LoadFiles DEF Good
  <2>2. /\ file[g].pid \in Pids /\ os[file[g].pid].run = file[f].run
        /\ os[file[g].pid].key = file[g].key /\ FileOf[file[g].key] = g
    BY <1>5, <2>1, ProcFacts DEF OwnInv, OwnFiles, RunInv, FilesOwn
  <2>3. g = f
    BY <1>1, <1>2, <2>2
  <2> QED
    BY <1>5, <2>3 DEF Good
<1> QED
  BY <1>3, <1>4, <1>5

\* Loading reports only of runs that are open, and closes only those whose file
\* leads nowhere.
LEMMA PastLoad ==
  ASSUME TypeInv, OwnInv, RunInv, PastInv, LoadPersisted
  PROVE  PastInv'
<1>1. UNCHANGED <<os, boot, nextRun, crashes>> /\ step' = "visit"
  BY DEF LoadPersisted, hostVars, inputVars
<1>2. ASSUME NEW r \in RunIds, history'[r] # history[r]
      PROVE  /\ ~Closed(r) /\ r < nextRun
             /\ \E c \in {"exited", "adopted"} : history'[r] = Append(history[r], c)
  <2>1. PICK f \in Files : (Lost(f) \/ Adopted(f)) /\ file[f].run = r
    BY <1>2, LoadNews
  <2>2. Good(f) /\ file[f].boot = boot
    BY <2>1 DEF Lost, Adopted, Adoptable
  <2> QED
    BY <1>2, <2>1, <2>2, LoadNews DEF PastInv, FilesOpen, RunInv, FilesOwn
<1>3. \A r \in RunIds : history[r] \in Seq(Changes)
  BY DEF TypeInv, TypeOK, CountTypes
<1>4. InOrder'
  <2> SUFFICES ASSUME NEW r \in RunIds, NEW i \in DOMAIN history'[r]
               PROVE  /\ history'[r][i] = "started" => i = 1
                      /\ history'[r][i] \in Closing => i = Len(history'[r])
    BY DEF InOrder
  <2>1. CASE history'[r] = history[r]
    BY <2>1 DEF PastInv, InOrder
  <2>2. CASE history'[r] # history[r]
    <3>1. PICK c \in {"exited", "adopted"} : history'[r] = Append(history[r], c)
      BY <1>2, <2>2
    <3>2. CASE i = Len(history[r]) + 1
      BY <1>3, <3>1, <3>2
    <3>3. CASE i # Len(history[r]) + 1
      <4>1. i \in DOMAIN history[r] /\ history'[r][i] = history[r][i]
        BY <1>3, <3>1, <3>3
      <4> QED
        BY <1>2, <2>2, <4>1 DEF PastInv, InOrder, Closed
    <3> QED
      BY <3>2, <3>3
  <2> QED
    BY <2>1, <2>2
<1>5. Unreported'
  BY <1>1, <1>2 DEF PastInv, Unreported, RunIds, TypeInv, TypeOK, CountTypes
<1>6. ASSUME NEW r \in RunIds, ~Closed(r),
             \A f \in Files : Lost(f) /\ file'[f] = None => file[f].run # r
      PROVE  ~Closed(r)'
  BY <1>6, LoadCloses
<1>7. Open'
  <2>1. ASSUME NEW p \in Pids, Running(p)' PROVE ~Closed(os[p].run)'
    <3>1. os[p].run \in RunIds /\ Running(p)
      BY <1>1, <2>1 DEF Running, TypeInv, TypeOK, HostTypes, Process, RunIds
    <3>2. \A f \in Files : Lost(f) /\ file'[f] = None => file[f].run # os[p].run
      BY <3>1, LostRun
    <3> QED
      BY <1>1, <1>6, <3>1, <3>2 DEF PastInv, Open, Closed
  <2>2. ASSUME NEW k \in Keys, processes'[k] # None
        PROVE  ~Closed(processes[k].run)'
    <3>1. \A f \in Files : Lost(f) /\ file'[f] = None =>
            file[f].run # processes'[k].run
      BY <2>2, LostRun
    <3>2. processes'[k].run \in RunIds /\ ~Closed(processes'[k].run)
      <4>1. CASE processes'[k] = processes[k]
        BY <2>2, <4>1, PastRuns DEF PastInv, Open
      <4>2. CASE /\ Good(FileOf[k]) /\ Adoptable(FileOf[k])
                 /\ processes'[k].run = file[FileOf[k]].run
        BY <4>2, FilesType, ProcFacts DEF PastInv, FilesOpen, Adoptable
      <4> QED
        BY <4>1, <4>2, Loaded
    <3> QED
      BY <1>6, <3>1, <3>2 DEF Closed
  <2> QED
    BY <2>1, <2>2 DEF Open
<1>8. FilesOpen'
  <2> SUFFICES ASSUME NEW g \in Files, Good(g)', file'[g].boot = boot'
               PROVE  ~Closed(file[g].run)'
    BY DEF FilesOpen
  <2>1. file'[g] = file[g] /\ Good(g)
    BY LoadFiles DEF Good
  <2>2. \A f \in Files : Lost(f) /\ file'[f] = None => file[f].run # file[g].run
    BY <1>1, <2>1, LostRun
  <2>3. file[g].run \in RunIds /\ ~Closed(file[g].run)
    BY <1>1, <2>1, ProcFacts DEF PastInv, FilesOpen
  <2> QED
    BY <1>6, <2>1, <2>2, <2>3 DEF Closed
<1>9. RemoveOK' /\ StartFree'
  BY <1>1 DEF RemoveOK, StartFree
<1>10. Whole'
  <2>1. \A r \in RunIds : Closed(r) => Closed(r)'
    BY <1>2 DEF Closed
  <2>2. \A k \in Keys : processes[k] # None => processes'[k] = processes[k]
    BY Loaded
  <2> QED
    BY <1>1, <2>1, <2>2 DEF PastInv, Whole
<1> QED
  BY <1>4, <1>5, <1>7, <1>8, <1>9, <1>10 DEF PastInv

-----------------------------------------------------------------------------
(* The theorem.                                                            *)

\* Every step keeps the history right.
LEMMA PastStep ==
  ASSUME TypeInv, TypeInv', OwnInv, RunInv, PastInv, [Next]_vars
  PROVE  PastInv'
<1>1. CASE Reboot
  BY <1>1, PastReboot
<1>2. CASE LoadPersisted
  BY <1>2, PastLoad
<1>3. ASSUME NEW p \in Pids, Spawn(p) PROVE PastInv'
  BY <1>3, PastSpawn
<1>4. CASE Steady
  <2>1. CASE Silent
    BY <2>1, PastSilent
  <2>2. CASE \/ RemoveStopped \/ WriteStarted
             \/ \E k \in Keys : VisitEnded(k) \/ TickEnded(k) \/ VisitUnlisted(k)
    BY <1>4, <2>2, PastReports
  <2> QED
    BY <1>1, <1>2, <1>3, <1>4, <2>1, <2>2, SilentStep
<1> QED
  BY <1>1, <1>2, <1>3, <1>4, SteadyStep

\* It is right at first.
LEMMA PastInit == Init => PastInv
<1> SUFFICES ASSUME Init PROVE PastInv
  OBVIOUS
<1>1. \A r \in RunIds : history[r] = <<>> /\ ~Closed(r)
  BY DEF Init, Closed
<1>2. Unreported /\ InOrder /\ RemoveOK /\ StartFree
  BY <1>1 DEF Init, Unreported, InOrder, RemoveOK, StartFree
<1>3. Open /\ FilesOpen
  BY DEF Init, Open, FilesOpen, Good, Running, FreePid
<1>4. Whole
  BY DEF Init, Whole, RunIds
<1> QED
  BY <1>2, <1>3, <1>4 DEF PastInv

\* Types, pids, runs and histories, always.
LEMMA PastInvariant == Spec => [](TypeInv /\ OwnInv /\ RunInv /\ PastInv)
<1>1. /\ TypeInv /\ OwnInv /\ RunInv /\ PastInv /\ [Next]_vars =>
           (TypeInv /\ OwnInv /\ RunInv /\ PastInv)'
  BY TypeStep, OwnStep, RunStep, PastStep
<1>2. Init => TypeInv /\ OwnInv /\ RunInv /\ PastInv
  BY InitType, OwnInit, RunInit, PastInit
<1> QED
  BY <1>1, <1>2, PTL DEF Spec

\* The history of each run is legal, and whole while the slave has not
\* restarted: for any keys, lists, hazards and bounds.
THEOREM HistoriesRight == Spec => []HistoryRight
<1>1. TypeInv /\ RunInv /\ PastInv => HistoryRight
  <2> SUFFICES ASSUME TypeInv, RunInv, PastInv PROVE HistoryRight
    OBVIOUS
  <2>1. HistoryLegal
    BY LegalParts DEF PastInv
  <2>2. \A r \in 1..(nextRun - 1) : r \in RunIds /\ r < nextRun
    BY ConstantsAssumption
    DEF RunInv, Counted, RunIds, TypeInv, TypeOK, CountTypes, ConstantsAssumption
  <2>3. EndIsReported
    BY <2>2 DEF PastInv, Whole, EndIsReported
  <2> QED
    BY <2>1, <2>3 DEF HistoryRight
<1> QED
  BY <1>1, PastInvariant, PTL

-----------------------------------------------------------------------------
(* One-shots.                                                              *)

\* A listed one-shot.
Shot(k) == list[k] # None /\ list[k].policy = "never"

\* The key at work is being replaced.
Replaces == step \in {"stop_soft", "stop_hard", "await", "remove", "start"}

\* The loop of a reconcile has still to come to k, or to start it.
Unvisited(k) == /\ op = "reconcile" /\ k \in todo
                /\ ~(step = "write" /\ cur = k)

\* What is managed is desired as the list says, or by a launch command.
AsListed == \A k \in Keys :
  \/ processes[k] = None \/ Unvisited(k)
  \/ processes[k].desired = list[k]
  \/ processes[k].desired # None /\ processes[k].desired.policy = "manual"

\* So is what is about to be started.
NextListed ==
  /\ Replaces => op # "idle"
  /\ step = "refresh" => op = "tick"
  /\ Replaces /\ nxt # None =>
       IF op = "command" THEN nxt.policy = "manual"
       ELSE /\ nxt = list[cur] /\ nxt.state = "running"
            /\ op = "tick" => nxt.policy = "package_change"

\* A one-shot that has been launched runs as listed, or is remembered.
Launches == \A k \in Keys : Shot(k) /\ launches[k] # 0 =>
  /\ launches[k] = 1 /\ list[k].state = "running"
  /\ IF processes[k] # None
     THEN processes[k].desired = list[k] /\ processes[k].fp = list[k].fp
     ELSE completedNever[k] = list[k].fp

\* It is not being replaced.
NotAgain == Replaces /\ Shot(cur) => launches[cur] = 0

\* No file is left that a reconcile would adopt in its place.
NoFile == \A k \in Keys :
  launches[k] # 0 /\ processes[k] = None =>
    ~(Good(FileOf[k]) /\ file[FileOf[k]].key = k)

ShotInv == AsListed /\ NextListed /\ Launches /\ NotAgain /\ NoFile
-----------------------------------------------------------------------------
(* Every step preserves the invariant.                                     *)

\* No file of something that is not managed is written.
LEMMA NoFileKeeps ==
  ASSUME TypeInv, ShotInv, OwnWrites,
         \A k \in Keys : launches'[k] # 0 => launches[k] # 0,
         \A k \in Keys : processes[k] # None => processes'[k] # None
  PROVE  NoFile'
<1> SUFFICES ASSUME NEW k \in Keys, launches[k] # 0, processes[k] = None,
                    processes'[k] = None,
                    Good(FileOf[k])', file'[FileOf[k]].key = k
             PROVE  FALSE
  BY DEF NoFile
<1>1. FileOf[k] \in Files
  BY FilesType
<1>2. file'[FileOf[k]] = file[FileOf[k]]
  BY <1>1, ProcFacts DEF OwnWrites
<1> QED
  BY <1>2 DEF ShotInv, NoFile, Good

\* A result that gets the mutex changes nothing else of what is managed.
LEMMA CaptureFields ==
  ASSUME TypeInv, NEW p \in Pids, CaptureProcessExit(p), NEW k \in Keys
  PROVE  /\ (processes'[k] = None) <=> (processes[k] = None)
         /\ processes[k] # None => /\ processes'[k].desired = processes[k].desired
                                  /\ processes'[k].fp = processes[k].fp
<1>1. (processes'[k] = None) <=> (processes[k] = None)
  BY CaptureKeeps DEF SameManaged
<1>2. CASE processes[k] # None /\ IsCommandOf(k, p)
  <2>1. /\ processes[k] \in Managed
        /\ processes'[k] = [processes[k] EXCEPT !.exit = os[p].how]
    BY <1>2 DEF CaptureProcessExit, TypeInv, TypeOK, SlaveTypes
  <2> QED
    BY <1>1, <2>1 DEF Managed
<1>3. CASE ~IsCommandOf(k, p)
  BY <1>1, <1>3 DEF CaptureProcessExit
<1> QED
  BY <1>1, <1>2, <1>3

\* It changes nothing that is known of one-shots.
LEMMA ShotCapture ==
  ASSUME TypeInv, ShotInv, NEW p \in Pids, CaptureProcessExit(p)
  PROVE  ShotInv'
<1>1. UNCHANGED <<opVars, list, launches, completedNever, file>>
  BY DEF CaptureProcessExit, inputVars
<1>2. \A k \in Keys :
        /\ (processes'[k] = None) <=> (processes[k] = None)
        /\ processes[k] # None => /\ processes'[k].desired = processes[k].desired
                                 /\ processes'[k].fp = processes[k].fp
  BY CaptureFields
<1>3. AsListed'
  BY <1>1, <1>2 DEF ShotInv, AsListed, Unvisited, opVars
<1>4. NextListed' /\ NotAgain'
  BY <1>1 DEF ShotInv, NextListed, NotAgain, Replaces, Shot, opVars
<1>5. Launches'
  BY <1>1, <1>2 DEF ShotInv, Launches, Shot
<1>6. NoFile'
  BY <1>1, <1>2 DEF ShotInv, NoFile, Good
<1> QED
  BY <1>3, <1>4, <1>5, <1>6 DEF ShotInv

\* What a launch manages.
LEMMA SpawnFields ==
  ASSUME TypeInv, NEW p \in Pids, Spawn(p)
  PROVE  /\ processes'[cur].desired = nxt /\ processes'[cur].fp = nxt.fp
         /\ \A k \in Keys \ {cur} : processes'[k] = processes[k]
         /\ cur \in Keys /\ nxt \in Desired /\ nxt # None
         /\ step = "start" /\ step' = "write" /\ UNCHANGED <<op, cur, todo, list>>
         /\ completedNever' = [completedNever EXCEPT ![cur] = None]
         /\ launches' = IF op = "command" THEN launches
                        ELSE [launches EXCEPT ![cur] = @ + 1]
  BY ConstantsAssumption
  DEF Spawn, NotCompleted, ConstantsAssumption, TypeInv, TypeOK, CurOK,
      SlaveTypes, inputVars

\* Every step preserves what is known of one-shots.
LEMMA ShotStep ==
  ASSUME TypeInv, TypeInv', StartFree, ShotInv, [Next]_vars
  PROVE  ShotInv'
<1> USE DEF ShotInv, AsListed, NextListed, Launches, NotAgain, NoFile, Shot,
        Replaces, Unvisited, Good, hostVars, memoryVars, opVars, inputVars,
        TypeInv, TypeOK, CurOK, SlaveTypes, OpTypes, CountTypes, DesiredLists,
        StartFree
<1>1. ASSUME NEW p \in Pids, NEW how \in Ends, ProcessEnds(p, how) PROVE
      ShotInv'
  BY <1>1, FilesType DEF ProcessEnds
<1>2. ASSUME NEW p \in Pids, Reap(p) PROVE ShotInv'
  BY <1>2, FilesType DEF Reap
<1>3. ASSUME NEW p \in Pids, ForeignStarts(p) PROVE ShotInv'
  BY <1>3, FilesType DEF ForeignStarts
<1>4. ASSUME SlaveCrash \/ Reboot PROVE ShotInv'
  BY <1>4, FilesType DEF SlaveCrash, Reboot, SlaveGone
<1>5. ASSUME SlaveStart PROVE ShotInv'
  BY <1>5, FilesType DEF SlaveStart
<1>6. ASSUME NEW l \in Lists, BeginReconcile(l) PROVE ShotInv'
  BY <1>6, FilesType DEF BeginReconcile, Idle
<1>7. ASSUME BeginTick PROVE ShotInv'
  BY <1>7, FilesType DEF BeginTick, Idle
<1>8. ASSUME NEW k \in Keys, NEW m \in {"stop_soft","stop_hard"},
      KillCommand(k, m) PROVE ShotInv'
  BY <1>8, FilesType DEF KillCommand, BeginStop, Truncate, Idle
<1>9. ASSUME NEW k \in Keys, NEW fp \in Fps, LaunchCommand(k, fp) PROVE
      ShotInv'
  <2>1. AsListed' /\ NextListed' /\ Launches' /\ NotAgain'
    BY <1>9, FilesType
    DEF LaunchCommand, BeginStop, Truncate, Idle
  <2>2. NoFile'
    <3>1. OwnWrites
      BY <1>9, FilesType DEF OwnWrites, LaunchCommand, BeginStop, Truncate
    <3> QED
      BY <1>9, <3>1, NoFileKeeps DEF LaunchCommand
  <2> QED
    BY <2>1, <2>2
<1>10. ASSUME NEW p \in Pids, CaptureProcessExit(p) PROVE ShotInv'
  BY <1>10, ShotCapture
<1>11. ASSUME LoadPersisted PROVE ShotInv'
  BY <1>11, FilesType DEF LoadPersisted
<1>12. ASSUME NEW k \in Keys, VisitStopped(k) PROVE ShotInv'
  <2>1. AsListed' /\ NextListed' /\ Launches' /\ NotAgain'
    BY <1>12, FilesType
    DEF VisitStopped, Visiting, Continue, BeginStop, Truncate, NotCompleted
  <2>2. NoFile'
    <3>1. OwnWrites
      BY <1>12, FilesType DEF OwnWrites, VisitStopped, BeginStop, Truncate
    <3> QED
      BY <1>12, <3>1, NoFileKeeps DEF VisitStopped
  <2> QED
    BY <2>1, <2>2
<1>13. ASSUME NEW k \in Keys, VisitCompleted(k) PROVE ShotInv'
  BY <1>13, FilesType DEF VisitCompleted, Visiting, Continue
<1>14. ASSUME NEW k \in Keys, VisitAbsent(k) PROVE ShotInv'
  BY <1>14, FilesType DEF VisitAbsent, Visiting, Completed, Wanted
<1>15. ASSUME NEW k \in Keys, VisitEnded(k) PROVE ShotInv'
  BY <1>15, FilesType DEF VisitEnded, Visiting, Finalize, Continue, Removed,
     Wanted
<1>16. ASSUME NEW k \in Keys, VisitRunning(k) PROVE ShotInv'
  <2>1. AsListed' /\ NextListed' /\ Launches' /\ NotAgain'
    BY <1>16, FilesType
    DEF VisitRunning, Visiting, Continue, BeginStop, Truncate, Wanted, Matches, Managed
  <2>2. NoFile'
    <3>1. OwnWrites
      BY <1>16, FilesType DEF OwnWrites, VisitRunning, BeginStop, Truncate
    <3> QED
      BY <1>16, <3>1, NoFileKeeps, VisitRunningKeeps DEF VisitRunning, SameManaged
  <2> QED
    BY <2>1, <2>2
<1>17. ASSUME NEW k \in Keys, VisitUnlisted(k) PROVE ShotInv'
  <2>1. AsListed' /\ NextListed' /\ Launches' /\ NotAgain'
    BY <1>17, FilesType
    DEF VisitUnlisted, Visiting, Continue, BeginStop, Truncate
  <2>2. NoFile'
    <3>1. OwnWrites
      BY <1>17, FilesType DEF OwnWrites, VisitUnlisted, BeginStop, Truncate
    <3> QED
      BY <1>17, <3>1, NoFileKeeps DEF VisitUnlisted
  <2> QED
    BY <2>1, <2>2
<1>18. ASSUME NEW k \in Keys, TickEnded(k) PROVE ShotInv'
  BY <1>18, FilesType DEF TickEnded, Ticking, Finalize, Continue, Removed
<1>19. ASSUME NEW k \in Keys, TickRefresh(k) PROVE ShotInv'
  BY <1>19, FilesType DEF TickRefresh, Ticking, Truncate
<1>20. ASSUME TickRefreshed PROVE ShotInv'
  BY <1>20, FilesType DEF TickRefreshed, Fill, Continue, Record
<1>21. ASSUME TickPackageChange PROVE ShotInv'
  BY <1>21, FilesType DEF TickPackageChange, BeginStop, Truncate
<1>22. ASSUME SendSignal PROVE ShotInv'
  BY <1>22, FilesType DEF SendSignal, Fill, Record
<1>23. ASSUME AwaitExit PROVE ShotInv'
  BY <1>23, FilesType DEF AwaitExit
<1>24. ASSUME AwaitTimeout PROVE ShotInv'
  BY <1>24, FilesType DEF AwaitTimeout
<1>25. ASSUME RemoveStopped PROVE ShotInv'
  BY <1>25, FilesType DEF RemoveStopped, Removed, Continue
<1>26. ASSUME NEW p \in Pids, Spawn(p) PROVE ShotInv'
  <2>1. AsListed'
    BY <1>26, SpawnFields
  <2>2. NextListed'
    BY <1>26, FilesType
    DEF Spawn, Truncate, NotCompleted
  <2>3. Launches'
    BY <1>26, SpawnFields
  <2>4. NotAgain'
    BY <1>26, FilesType
    DEF Spawn, Truncate, NotCompleted
  <2>5. NoFile'
    BY <1>26, FilesType
    DEF Spawn, Truncate, NotCompleted
  <2> QED
    BY <2>1, <2>2, <2>3, <2>4, <2>5
<1>27. ASSUME StartFails PROVE ShotInv'
  BY <1>27, FilesType DEF StartFails, Continue, NotCompleted
<1>28. ASSUME WriteStarted PROVE ShotInv'
  <2>1. AsListed' /\ NextListed' /\ Launches' /\ NotAgain'
    BY <1>28, FilesType
    DEF WriteStarted, Fill, Continue, Record
  <2>2. NoFile'
    <3>1. OwnWrites
      BY <1>28, FilesType DEF OwnWrites, WriteStarted, Fill
    <3> QED
      BY <1>28, <3>1, NoFileKeeps DEF WriteStarted
  <2> QED
    BY <2>1, <2>2
<1>29. ASSUME EndOp PROVE ShotInv'
  BY <1>29, FilesType DEF EndOp
<1>30. CASE UNCHANGED vars
  BY <1>30 DEF vars
<1> QED
  BY <1>1, <1>2, <1>3, <1>4, <1>5, <1>6, <1>7, <1>8, <1>9, <1>10, <1>11,
     <1>12, <1>13, <1>14, <1>15, <1>16, <1>17, <1>18, <1>19, <1>20, <1>21,
     <1>22, <1>23, <1>24, <1>25, <1>26, <1>27, <1>28, <1>29, <1>30 DEF Next,
     Host, Command, HolderStep
\* At first nothing has been launched.
LEMMA ShotInit == Init => ShotInv
  BY DEF Init, ShotInv, AsListed, NextListed, Launches, NotAgain, NoFile,
         Replaces

\* A listed one-shot is launched once for each reason to launch it: for any keys
\* and lists, and under all hazards.
THEOREM OneShotsOnce == Spec => []OneShotOnce
<1>1. TypeInv /\ TypeInv' /\ PastInv /\ ShotInv /\ [Next]_vars => ShotInv'
  BY ShotStep DEF PastInv
<1>2. ShotInv /\ TypeInv => OneShotOnce
  BY DEF ShotInv, Launches, Shot, OneShotOnce, TypeInv, TypeOK, CountTypes
<1> QED
  BY <1>1, <1>2, ShotInit, PastInvariant, PTL DEF Spec
=============================================================================
