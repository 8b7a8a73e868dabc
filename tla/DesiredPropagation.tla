------------------------- MODULE DesiredPropagation -------------------------
(***************************************************************************)
(* How desired process definitions travel from the server's database to    *)
(* one host: packages/server/src/runtime/processRegistry.js.  Every        *)
(* request is a database transaction that writes its rows and, before it   *)
(* commits, sends each change to the master over gRPC.  The master keeps   *)
(* the definitions in memory, where the slave's next poll finds them.      *)
(*                                                                         *)
(* Transactions run at the isolation level READ COMMITTED: a read sees the *)
(* committed rows and the transaction's own writes, a write takes the lock *)
(* of its row until the transaction ends.                                  *)
(***************************************************************************)
EXTENDS Naturals, FiniteSets, TLC

CONSTANTS
    Keys,         \* process keys
    Defs,         \* what a definition says: command, arguments, own environment
    Envs,         \* environments of a host or of a deployment
    Deployments,  \* deployment instances
    Requests,     \* requests, each made once
    None,         \* no row, no deployment
    Settings      \* settings to look at

\* Where the server runs and what may go wrong: the database's dialect, a bound
\* on the transactions open at the same time, the faults, and bounds on the
\* restarts of the master, on who asks for what;
\* how often a page shows the host (0: requests come from elsewhere), and bounds on
\* the reports it may show, on its requests that fail, and on what its user does with
\* projects.
SettingKinds ==
    [dialect : {"sqlite", "postgres"}, open : Nat, restarts : Nat,
     faults : SUBSET {"lost", "late", "commit", "crash"},
     defs : SUBSET Defs, envs : SUBSET Envs, keys : SUBSET Keys, deployments : SUBSET Deployments,
     requests : SUBSET Requests,
     opens : Nat, reports : Nat, fails : Nat, acts : Nat]

ASSUME DesiredAssumption ==
    /\ None \notin Keys \union Defs \union Envs \union Deployments
    /\ Settings \subseteq SettingKinds

VARIABLES
    setting,   \* never changes
    db,        \* committed: per item its value, or None
    tx,        \* the transaction of each request
    wire,      \* calls to the master that it has not handled yet
    master,    \* the master's slaveDesiredProcesses of this host
    restarts   \* restarts of the master so far

vars == <<setting, db, tx, wire, master, restarts>>

-----------------------------------------------------------------------------
(* Items of the database.  A row of desired_processes is named by its      *)
(* process key: the index on (host_id, process_key) is unique.             *)

Row(k) == <<"row", k>>
Dep(d) == <<"deployment", d>>
Host == <<"host">>
Items == {Row(k) : k \in Keys} \union {Dep(d) : d \in Deployments} \union {Host}

\* What the master and the slave are given for a definition: itself and the
\* environment it is launched with.
Payload(view, row) ==
    [def |-> row.def, host |-> view[Host],
     dep |-> IF row.dep = None THEN None ELSE view[Dep(row.dep)]]

Payloads == [def : Defs, host : Envs, dep : Envs \union {None}]
DesiredRow == [def : Defs, dep : Deployments \union {None}, fingerprint : Payloads]

ASSUME RowAssumption == None \notin DesiredRow

\* The list that the committed definitions call for.
Mirror(view) ==
    [k \in Keys |-> IF view[Row(k)] = None THEN None ELSE Payload(view, view[Row(k)])]

-----------------------------------------------------------------------------
(* Requests and their transactions.                                        *)

Ops ==
    LET deps == setting.deployments
    IN  [kind : {"ensure"}, key : setting.keys, def : setting.defs, dep : deps \union {None}]
        \union [kind : {"delete"}, key : setting.keys, dep : deps \union {None}]
        \union [kind : {"setHostEnv"}, env : setting.envs]
        \union [kind : {"upsertDeployment"}, dep : deps, env : setting.envs]
        \union [kind : {"deleteDeployment"}, dep : deps, withProcesses : BOOLEAN]

Idle == [pc |-> "idle", op |-> None, mine |-> <<>>, seen |-> <<>>, todo |-> {}, cur |-> None]

Open(r) == tx[r].pc \notin {"idle", "done", "failed"}
Mine(r) == DOMAIN tx[r].mine
View(r) == [i \in Items |-> IF i \in Mine(r) THEN tx[r].mine[i] ELSE db[i]]

\* What a transaction has written, with v written to item i.
With(mine, i, v) == [j \in DOMAIN mine \union {i} |-> IF j = i THEN v ELSE mine[j]]

\* r may write item i: nobody else holds its lock.
Free(r, i) == \A s \in Requests \ {r} : i \notin Mine(s)

\* The foreign key on deployment_id: who inserts a row of deployment d shares
\* a lock on d, and waits for whoever is deleting d.
Shares(s, d) ==
    \E i \in Mine(s) : i[1] = "row" /\ db[i] = None /\ tx[s].mine[i] # None /\ tx[s].mine[i].dep = d
Deleting(s, d) == Dep(d) \in Mine(s) /\ tx[s].mine[Dep(d)] = None

Go(r, next) == tx' = [tx EXCEPT ![r] = next]
At(r, pc, kinds) == tx[r].pc = pc /\ tx[r].op.kind \in kinds

\* An exception rolls the transaction back, a return commits it.
Ended(r, how) == [Idle EXCEPT !.pc = how, !.op = tx[r].op]
Throw(r) == Go(r, Ended(r, "failed")) /\ UNCHANGED <<db, wire, master, restarts>>
Step(r, next) == Go(r, next) /\ UNCHANGED <<db, wire, master, restarts>>

\* upsertDesiredProcess and deleteDesiredProcess of the master's client: one call.
Call(r, k, body) == wire' = wire \union {[req |-> r, key |-> k, body |-> body]}

\* mirrorDesiredProcessToMaster and mirrorDesiredProcessDeletionToMaster: a call with
\* a deadline, and the caller waits for the answer.
Send(r, k, body, next) ==
    /\ Call(r, k, body)
    /\ Go(r, [next EXCEPT !.pc = "await", !.cur = k])
    /\ UNCHANGED <<db, master, restarts>>

Begin(r, op) ==
    /\ r \in setting.requests /\ tx[r].pc = "idle"
    /\ Cardinality({s \in Requests : Open(s)}) < setting.open
    /\ Step(r, [tx[r] EXCEPT !.pc = "resolve", !.op = op])

-----------------------------------------------------------------------------
(* ensureDesiredProcess.                                                   *)

\* resolveDesiredProcessTarget and the reads of upsertDesiredProcess.
EnsureResolve(r) ==
    LET op == tx[r].op
        row == View(r)[Row(op.key)]
    IN  /\ At(r, "resolve", {"ensure"})
        /\ \/ /\ \/ op.dep # None /\ db[Dep(op.dep)] = None
                 \/ row # None /\ row.dep # op.dep
              /\ Throw(r)
           \/ /\ op.dep # None => db[Dep(op.dep)] # None
              /\ row # None => row.dep = op.dep
              /\ Step(r, [tx[r] EXCEPT !.pc = "write", !.seen = View(r)])

\* The row that create inserts.
NewRow(r) ==
    LET op == tx[r].op
        row == [def |-> op.def, dep |-> op.dep]
    IN  [def |-> op.def, dep |-> op.dep, fingerprint |-> Payload(tx[r].seen, row)]

\* The row that update leaves: it writes the columns that differ from what the
\* transaction has read, over what is committed when it gets the lock.
UpdatedRow(r) ==
    LET now == db[Row(tx[r].op.key)]
        read == tx[r].seen[Row(tx[r].op.key)]
        new == NewRow(r)
    IN  [now EXCEPT !.def = IF new.def = read.def THEN @ ELSE new.def,
                    !.fingerprint = IF new.fingerprint = read.fingerprint THEN @
                                    ELSE new.fingerprint]

\* The write of upsertDesiredProcess: update, or create under the unique index
\* and the foreign key.
EnsureWrite(r) ==
    LET op == tx[r].op
        i == Row(op.key)
        read == tx[r].seen[i]
        wrote(row) == Step(r, [tx[r] EXCEPT !.pc = "reload", !.mine = With(@, i, row)])
    IN  /\ At(r, "write", {"ensure"})
        /\ \/ /\ read # None
              /\ NewRow(r) = read      \* nothing to update
              /\ Step(r, [tx[r] EXCEPT !.pc = "reload"])
           \/ /\ read # None /\ NewRow(r) # read /\ Free(r, i)
              /\ IF db[i] = None THEN Step(r, [tx[r] EXCEPT !.pc = "reload"])
                 ELSE wrote(UpdatedRow(r))
           \/ /\ read = None /\ Free(r, i)
              /\ \A s \in Requests \ {r}, d \in Deployments : d = op.dep => ~Deleting(s, d)
              /\ IF db[i] # None \/ (op.dep # None /\ db[Dep(op.dep)] = None) THEN Throw(r)
                 ELSE wrote(NewRow(r))

\* Seeded fault: a definition that is not new is not sent.
EnsureMirrorsNew(r) ==
    LET row == View(r)[Row(tx[r].op.key)]
    IN  /\ At(r, "reload", {"ensure"})
        /\ IF row = None THEN Throw(r)
           ELSE IF tx[r].seen[Row(tx[r].op.key)] = None
                THEN Send(r, tx[r].op.key, Payload(View(r), row), tx[r])
                ELSE Step(r, [tx[r] EXCEPT !.pc = "commit"])

\* hydrateDesiredProcess reloads the row with its host and deployment; then it
\* is serialised and sent.
EnsureMirror(r) ==
    LET row == View(r)[Row(tx[r].op.key)]
    IN  /\ At(r, "reload", {"ensure"})
        /\ IF row = None THEN Throw(r)
           ELSE Send(r, tx[r].op.key, Payload(View(r), row), tx[r])

-----------------------------------------------------------------------------
(* deleteDesiredProcessDefinition.                                         *)

\* A deployment that does not exist counts as none.
DeleteResolve(r) ==
    LET op == tx[r].op
        row == db[Row(op.key)]
        dep == IF op.dep = None \/ db[Dep(op.dep)] = None THEN None ELSE op.dep
    IN  /\ At(r, "resolve", {"delete"})
        /\ IF row = None \/ row.dep # dep
           THEN Step(r, Ended(r, "done"))
           ELSE Step(r, [tx[r] EXCEPT !.pc = "write"])

DeleteWrite(r) ==
    LET i == Row(tx[r].op.key)
    IN  /\ At(r, "write", {"delete"})
        /\ Free(r, i)
        /\ Step(r, [tx[r] EXCEPT !.pc = "reload",
                                 !.mine = IF db[i] = None THEN @ ELSE With(@, i, None)])

\* Seeded fault: the deletion is not sent.
DeleteUnmirrored(r) == At(r, "reload", {"delete"}) /\ Step(r, [tx[r] EXCEPT !.pc = "commit"])

DeleteMirror(r) ==
    /\ At(r, "reload", {"delete"})
    /\ Send(r, tx[r].op.key, None, tx[r])

-----------------------------------------------------------------------------
(* setHostRuntimeEnv and upsertDeploymentInstance, which then refresh the  *)
(* fingerprints of the definitions concerned and send each to the master.  *)

\* The new metadata is the object that was read, changed in place.  Sequelize
\* compares it with itself: only the text column of SQLite is seen to differ.
SetHostEnvWrite(r) ==
    LET env == tx[r].op.env
        changes == setting.dialect = "sqlite" /\ env # db[Host]
    IN  /\ At(r, "resolve", {"setHostEnv"})
        /\ changes => Free(r, Host)
        /\ Step(r, [tx[r] EXCEPT !.pc = "list",
                                 !.mine = IF changes THEN With(@, Host, env) ELSE @])

UpsertDeploymentWrite(r) ==
    LET i == Dep(tx[r].op.dep)
        changes == db[i] # tx[r].op.env
    IN  /\ At(r, "resolve", {"upsertDeployment"})
        /\ changes => Free(r, i)
        /\ Step(r, [tx[r] EXCEPT !.pc = "list",
                                 !.mine = IF changes THEN With(@, i, tx[r].op.env) ELSE @])

\* The rows that a refresh or the deletion of a deployment goes through.
Concerned(r) ==
    {k \in Keys : LET row == View(r)[Row(k)]
                  IN  row # None /\ (tx[r].op.kind = "setHostEnv" \/ row.dep = tx[r].op.dep)}

\* findAll of refreshDesiredProcessRuntimeFingerprints.
RefreshList(r) ==
    /\ At(r, "list", {"setHostEnv", "upsertDeployment"})
    /\ Step(r, [tx[r] EXCEPT !.pc = "loop", !.seen = View(r), !.todo = Concerned(r)])

\* The next turn of a loop over rows.
NextRow(r, k) ==
    /\ At(r, "loop", {"setHostEnv", "upsertDeployment", "deleteDeployment"})
    /\ k \in tx[r].todo
    /\ Step(r, [tx[r] EXCEPT !.pc = "row", !.cur = k, !.todo = @ \ {k}])

\* One turn of the refresh: the fingerprint is updated if it differs, and the
\* row as it was read is sent.
RefreshRow(r) ==
    LET k == tx[r].cur
        row == tx[r].seen[Row(k)]
        new == Payload(tx[r].seen, row)
        stale == row.fingerprint # new
        now == View(r)[Row(k)]
        next == [tx[r] EXCEPT !.mine = IF stale /\ now # None
                                       THEN With(@, Row(k), [now EXCEPT !.fingerprint = new])
                                       ELSE @]
    IN  /\ At(r, "row", {"setHostEnv", "upsertDeployment"})
        /\ stale => Free(r, Row(k))
        /\ Send(r, k, new, next)

-----------------------------------------------------------------------------
(* deleteDeploymentInstance.                                               *)

DeleteDeploymentList(r) ==
    LET op == tx[r].op
    IN  /\ At(r, "resolve", {"deleteDeployment"})
        /\ \/ /\ db[Dep(op.dep)] = None
              /\ Step(r, Ended(r, "done"))
           \/ /\ db[Dep(op.dep)] # None
              /\ IF Concerned(r) # {} /\ ~op.withProcesses THEN Throw(r)
                 ELSE Step(r, [tx[r] EXCEPT !.pc = "loop", !.todo = Concerned(r)])

\* The deletion of a process is sent before its row is destroyed.
DeleteDeploymentMirror(r) ==
    /\ At(r, "row", {"deleteDeployment"})
    /\ Send(r, tx[r].cur, None, tx[r])

DeleteDeploymentRow(r) ==
    LET i == Row(tx[r].cur)
    IN  /\ At(r, "answered", {"deleteDeployment"})
        /\ Free(r, i)
        /\ Step(r, [tx[r] EXCEPT !.pc = "loop",
                                 !.mine = IF db[i] = None THEN @ ELSE With(@, i, None)])

\* Seeded fault: the foreign key does nothing on delete.
DeleteDeploymentOrphans(r) ==
    /\ At(r, "loop", {"deleteDeployment"}) /\ tx[r].todo = {}
    /\ Free(r, Dep(tx[r].op.dep))
    /\ Step(r, [tx[r] EXCEPT !.pc = "commit", !.mine = With(@, Dep(tx[r].op.dep), None)])

\* Rows that came to the deployment meanwhile lose it: ON DELETE SET NULL.
DeleteDeploymentEnd(r) ==
    LET d == tx[r].op.dep
        orphans == {Row(k) : k \in Concerned(r)}
    IN  /\ At(r, "loop", {"deleteDeployment"}) /\ tx[r].todo = {}
        /\ Free(r, Dep(d))
        /\ \A s \in Requests \ {r} : ~Shares(s, d)
        /\ \A i \in orphans : Free(r, i)
        /\ Step(r, [tx[r] EXCEPT !.pc = "commit",
                                 !.mine = [i \in DOMAIN @ \union orphans \union {Dep(d)} |->
                                              CASE i = Dep(d) -> None
                                                [] i \in orphans -> [View(r)[i] EXCEPT !.dep = None]
                                                [] OTHER -> @[i]]])

-----------------------------------------------------------------------------
(* Answers, deadlines, commits.                                            *)

\* Where a request goes on when its call is answered.
AfterAnswer(r) ==
    CASE tx[r].op.kind \in {"ensure", "delete"} -> "commit"
      [] tx[r].op.kind \in {"setHostEnv", "upsertDeployment"} -> "loop"
      [] tx[r].op.kind = "deleteDeployment" -> "answered"

\* UpsertDesiredProcess and DeleteDesiredProcess of the master.
MasterHandles(m) ==
    /\ m \in wire
    /\ wire' = wire \ {m}
    /\ master' = [master EXCEPT ![m.key] = m.body]
    /\ IF tx[m.req].pc = "await" /\ tx[m.req].cur = m.key
       THEN \/ Go(m.req, [tx[m.req] EXCEPT !.pc = AfterAnswer(m.req)])
            \/ "lost" \in setting.faults /\ Go(m.req, Ended(m.req, "failed"))
       ELSE UNCHANGED tx
    /\ UNCHANGED <<db, restarts>>

\* The call fails.  It never got to the master, or ("late") it still may.
CallFails(r) ==
    /\ tx[r].pc = "await"
    /\ \/ "lost" \in setting.faults /\ wire' = {m \in wire : m.req # r}
       \/ "late" \in setting.faults /\ UNCHANGED wire
    /\ Go(r, Ended(r, "failed"))
    /\ UNCHANGED <<db, master, restarts>>

RefreshEnd(r) ==
    /\ At(r, "loop", {"setHostEnv", "upsertDeployment"}) /\ tx[r].todo = {}
    /\ Step(r, [tx[r] EXCEPT !.pc = "commit"])

Commit(r) ==
    /\ tx[r].pc = "commit"
    /\ db' = View(r)
    /\ Go(r, Ended(r, "done"))
    /\ UNCHANGED <<wire, master, restarts>>

CommitFails(r) == "commit" \in setting.faults /\ tx[r].pc = "commit" /\ Throw(r)

\* The rows that r must lock for its next step.
Wants(r) ==
    CASE At(r, "write", {"ensure", "delete"}) -> {Row(tx[r].op.key)}
      [] At(r, "row", {"setHostEnv", "upsertDeployment"}) -> {Row(tx[r].cur)}
      [] At(r, "answered", {"deleteDeployment"}) -> {Row(tx[r].cur)}
      [] At(r, "loop", {"deleteDeployment"}) /\ tx[r].todo = {} ->
            {Dep(tx[r].op.dep)} \union {Row(k) : k \in Concerned(r)}
      [] OTHER -> {}

WaitsFor(r, s) ==
    /\ r # s
    /\ \/ Wants(r) \intersect Mine(s) # {}
       \/ \E d \in Deployments : Dep(d) \in Wants(r) /\ Shares(s, d)
       \/ /\ At(r, "write", {"ensure"}) /\ tx[r].seen[Row(tx[r].op.key)] = None
          /\ \E d \in Deployments : d = tx[r].op.dep /\ Deleting(s, d)

\* The database ends one of several transactions that wait for each other.
DeadlockVictim(r) ==
    /\ Open(r)
    /\ \E s \in Requests : WaitsFor(r, s) /\ WaitsFor(s, r)
    /\ Throw(r)

\* The server stops: the database rolls its open transactions back.  A call on
\* its way is lost, or ("late") still gets to the master.
ServerCrash ==
    /\ "crash" \in setting.faults
    /\ \E r \in Requests : Open(r)
    /\ tx' = [r \in Requests |-> IF Open(r) THEN Ended(r, "failed") ELSE tx[r]]
    /\ wire' \in {{}} \union (IF "late" \in setting.faults THEN {wire} ELSE {})
    /\ UNCHANGED <<db, master, restarts>>

\* The master keeps its definitions in memory.
MasterRestart ==
    /\ restarts < setting.restarts
    /\ restarts' = restarts + 1
    /\ master' = [k \in Keys |-> None]
    /\ wire' = {}
    /\ tx' = [r \in Requests |-> IF tx[r].pc = "await" THEN Ended(r, "failed") ELSE tx[r]]
    /\ UNCHANGED db

-----------------------------------------------------------------------------
\* The settled database with these definitions and environments.
Settled(rows, env, deps) ==
    LET view == [i \in Items |-> CASE i[1] = "row" -> rows[i[2]]
                                   [] i[1] = "deployment" -> deps[i[2]]
                                   [] OTHER -> env]
        fresh(row) == [def |-> row.def, dep |-> row.dep, fingerprint |-> Payload(view, row)]
    IN  [i \in Items |-> IF i[1] = "row" /\ view[i] # None THEN fresh(view[i]) ELSE view[i]]

\* Any settled state: some definitions, mirrored.
Init ==
    /\ setting \in Settings
    /\ \E rows \in [Keys -> [def : setting.defs, dep : Deployments \union {None}] \union {None}],
          env \in setting.envs, deps \in [Deployments -> setting.envs \union {None}] :
          /\ \A k \in Keys : rows[k] # None => k \in setting.keys
          /\ \A d \in Deployments : deps[d] # None => d \in setting.deployments
          /\ \A k \in Keys, d \in Deployments :
                rows[k] # None /\ deps[d] = None => rows[k].dep # d
          /\ db = Settled(rows, env, deps)
    /\ tx = [r \in Requests |-> Idle]
    /\ wire = {}
    /\ master = Mirror(db)
    /\ restarts = 0

Work(r) ==
    \/ EnsureResolve(r) \/ EnsureWrite(r) \/ EnsureMirror(r)
    \/ DeleteResolve(r) \/ DeleteWrite(r) \/ DeleteMirror(r)
    \/ SetHostEnvWrite(r) \/ UpsertDeploymentWrite(r) \/ RefreshList(r)
    \/ (\E k \in Keys : NextRow(r, k)) \/ RefreshRow(r) \/ RefreshEnd(r)
    \/ DeleteDeploymentList(r) \/ DeleteDeploymentMirror(r)
    \/ DeleteDeploymentRow(r) \/ DeleteDeploymentEnd(r)
    \/ Commit(r) \/ DeadlockVictim(r)

Next ==
  /\ UNCHANGED setting
  /\ \/ setting.opens = 0 /\ \E r \in Requests, op \in Ops : Begin(r, op)
     \/ \E r \in Requests : Work(r) \/ CallFails(r) \/ CommitFails(r)
     \/ \E m \in wire : MasterHandles(m)
     \/ ServerCrash \/ MasterRestart

\* The server goes on with each request, a call is answered or its deadline
\* passes, and the database resolves its deadlocks.
Fairness ==
    /\ \A r \in Requests :
          WF_vars(UNCHANGED setting /\ Work(r)) /\ WF_vars(UNCHANGED setting /\ CallFails(r))
    /\ WF_vars(UNCHANGED setting /\ \E m \in wire : MasterHandles(m))

Spec == Init /\ [][Next]_vars /\ Fairness
-----------------------------------------------------------------------------
Transactions ==
    [pc : {"idle", "resolve", "write", "reload", "list", "loop", "row", "await", "answered",
           "commit", "done", "failed"},
     cur : Keys \union {None}, todo : SUBSET Keys]

TypeOK ==
    /\ setting \in Settings
    /\ \A k \in Keys : db[Row(k)] \in DesiredRow \union {None}
    /\ \A d \in Deployments : db[Dep(d)] \in Envs \union {None}
    /\ db[Host] \in Envs
    /\ \A r \in Requests :
          /\ [pc |-> tx[r].pc, cur |-> tx[r].cur, todo |-> tx[r].todo] \in Transactions
          /\ Open(r) => tx[r].op \in Ops
          /\ Mine(r) \subseteq Items
    /\ wire \subseteq [req : Requests, key : Keys, body : Payloads \union {None}]
    /\ master \in [Keys -> Payloads \union {None}]
    /\ restarts \in 0..setting.restarts

Quiet == wire = {} /\ \A r \in Requests : ~Open(r)

\* One request at a time, on a database that stores every change; no call gets to
\* the master after its request has given it up, and the master keeps running.
InTurn ==
    /\ setting.open = 1 /\ setting.dialect = "sqlite"
    /\ "late" \notin setting.faults /\ setting.restarts = 0
Undisturbed == InTurn /\ setting.faults = {}

\* When requests come one at a time and nothing fails, the master holds for each
\* definition in the database what the slave is to launch, and nothing else,
\* whenever no request is under way (mirrorDesiredProcessToMaster and its
\* callers).
MirrorHolds == Undisturbed /\ Quiet => master = Mirror(db)

\* Then too, the fingerprint column of each row is that of the row with the
\* environments it is launched with, whichever of the three was edited last
\* (refreshDesiredProcessRuntimeFingerprints).
FingerprintsFresh ==
    Undisturbed /\ Quiet => \A k \in Keys :
        LET row == db[Row(k)] IN row # None => row.fingerprint = Payload(db, row)

\* What ensureDesiredProcess and the updates of environments leave behind when they
\* have all ended: the rows, their fingerprints and the master's list agree.
MirrorFresh == MirrorHolds /\ FingerprintsFresh

\* No committed definition names a deployment that is gone, however requests
\* that create definitions and delete deployments overlap
\* (deleteDeploymentInstance beside ensureDesiredProcess).
DeploymentsExist ==
    \A k \in Keys, d \in Deployments :
        (db[Row(k)] # None /\ db[Row(k)].dep = d) => db[Dep(d)] # None

Touches(r) ==
    IF tx[r].op.kind \in {"ensure", "delete"} THEN {tx[r].op.key} ELSE Concerned(r)

\* Of requests one at a time, one that succeeds leaves the master with what the
\* database says about the definitions it touched, also when earlier requests
\* failed half-way and left the two apart (the mirror calls inside each
\* transaction).  A late call, or a restart of the master between a call and the
\* commit, would undo it.
SuccessMirrors ==
    [][\A r \in Requests : (InTurn /\ tx[r].pc = "commit" /\ tx'[r].pc = "done") =>
          \A k \in Touches(r) : master'[k] = Mirror(db')[k]]_vars

\* Every request ends, however they wait for each other and for the master: a
\* call has a deadline (invokeUnary of masterClient.js) and the database
\* resolves its deadlocks.  (Each is made once, so all are over at some time.)
RequestsEnd == []<>(\A r \in Requests : ~Open(r))
=============================================================================
