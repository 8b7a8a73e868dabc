---------------------- MODULE DesiredPropagationProofs ----------------------
(***************************************************************************)
(* Theorems about DesiredPropagation with the pages of RuntimePane and     *)
(* ProjectPane beside it, for any definitions, deployments, environments   *)
(* and requests: no definition names a deployment that is gone, the        *)
(* master's list follows the database when requests come in turn, and the  *)
(* page shows what is there.                                               *)
(***************************************************************************)
EXTENDS ProjectPane, FiniteSetTheorems, TLAPS

-----------------------------------------------------------------------------
(* The steps of the server, whoever takes them.                            *)

Began == \E r \in Requests, op \in Ops : Begin(r, op)
Worked == \E r \in Requests : Work(r) \/ CallFails(r) \/ CommitFails(r)
Around == (\E m \in wire : MasterHandles(m)) \/ ServerCrash \/ MasterRestart

ServerStep == UNCHANGED setting /\ (Began \/ Worked \/ Around)

\* A page takes the server's steps, or begins a request, or leaves the server alone.
LEMMA PagesStep == PageNext => ServerStep \/ UNCHANGED vars
<1> SUFFICES ASSUME PageNext PROVE ServerStep \/ UNCHANGED vars
  OBVIOUS
<1>1. CASE Next
  BY <1>1 DEF Next, ServerStep, Began, Worked, Around
<1>2. ASSUME NEW r \in Requests, Press(r) PROVE ServerStep
  BY <1>2 DEF Press, ServerStep, Began
<1>3. CASE UNCHANGED paneVars
  BY <1>3 DEF paneVars
<1>4. CASE ServerSame
  BY <1>4 DEF ServerSame
<1>5. CASE UNCHANGED vars
  BY <1>5
<1>6. ASSUME NEW s \in Slots, OpenPane(s) \/ Poll(s) \/ Refresh(s) \/ ChangeDone(s)
                              \/ ReadList(s) \/ Arrive(s) \/ LoadFails(s)
      PROVE  ServerSame
  BY <1>6 DEF OpenPane, Poll, Refresh, ChangeDone, ReadList, Arrive, LoadFails, StartLoad, EndLoad
<1>7. ASSUME ClosePane \/ PressKill \/ ChangeFails \/ Report PROVE UNCHANGED vars
  BY <1>7 DEF ClosePane, PressKill, ChangeFails, Report, ServerSame
<1>8. ASSUME NEW p \in Projects,
             onSelectProject(p) \/ \E todo \in Toggles : Toggle(p, todo)
      PROVE  UNCHANGED paneVars
  BY <1>8 DEF onSelectProject, Toggle, Does
<1>9. ASSUME \/ \E panel \in {"projects", "environment", "top"} : ShowPanel(panel)
             \/ \E range \in Begins \union {None} : SavePortRange(range)
             \/ PollStats
      PROVE  UNCHANGED paneVars
  BY <1>9 DEF ShowPanel, SavePortRange, PollStats, Does
<1>10. ASSUME NEW s \in Jobs, Answers(s) \/ ShowAnswer(s) \/ StepFails(s)
       PROVE  UNCHANGED paneVars
  BY <1>10 DEF Answers, ShowAnswer, StepFails, GoOn
<1> QED
  BY <1>1, <1>2, <1>3, <1>4, <1>6, <1>7, <1>8, <1>9, <1>10 DEF PageNext, PaneNext

-----------------------------------------------------------------------------
(* Items.                                                                  *)

\* Items of different kinds or names differ.
LEMMA ItemsDiffer ==
  /\ \A k \in Keys : Row(k) \in Items /\ Row(k)[1] = "row" /\ Row(k) # Host
  /\ \A d \in Deployments : Dep(d) \in Items /\ Dep(d)[1] = "deployment" /\ Dep(d) # Host
  /\ Host \in Items /\ Host[1] = "host"
  /\ \A k, j \in Keys : Row(k) = Row(j) => k = j
  /\ \A d, e \in Deployments : Dep(d) = Dep(e) => d = e
  /\ \A k \in Keys, d \in Deployments : Row(k) # Dep(d)
  /\ \A i \in Items : \/ \E k \in Keys : i = Row(k)
                      \/ \E d \in Deployments : i = Dep(d)
                      \/ i = Host
BY DEF Items, Row, Dep, Host

\* A committed database, or the rows a transaction has written.
IsRow(v) == v \in [def : {v.def}, dep : Deployments \union {None}, fingerprint : {v.fingerprint}]

-----------------------------------------------------------------------------
(* Rows and locks.  D is the committed database, m what a transaction has  *)
(* written, and M has that of all.                                         *)

Looks(D, m, i) == IF i \in DOMAIN m THEN m[i] ELSE D[i]

\* m inserts a row of deployment d; m deletes d.
Inserts(D, m, d) ==
  \E k \in Keys : /\ Row(k) \in DOMAIN m /\ m[Row(k)] # None
                  /\ D[Row(k)] = None /\ m[Row(k)].dep = d
Deletes(m, d) == Dep(d) \in DOMAIN m /\ m[Dep(d)] = None

Named(D) ==
  \A k \in Keys, d \in Deployments : (D[Row(k)] # None /\ D[Row(k)].dep = d) => D[Dep(d)] # None

\* One transaction at a time has the lock of an item.
Apart(M) == \A r, s \in Requests : r # s => \A i \in Items : ~(i \in DOMAIN M[r] /\ i \in DOMAIN M[s])

\* A row that is written has the deployment of the committed row, or one that exists.
Kept(D, M) ==
  \A r \in Requests, k \in Keys, d \in Deployments :
    (Row(k) \in DOMAIN M[r] /\ M[r][Row(k)] # None /\ M[r][Row(k)].dep = d)
      => D[Dep(d)] # None /\ (D[Row(k)] # None => D[Row(k)].dep = d)

\* Who deletes a deployment has taken it from all rows, and nobody inserts one.
Emptied(D, M) ==
  \A r \in Requests, d \in Deployments : Deletes(M[r], d) =>
    /\ \A k \in Keys : Looks(D, M[r], Row(k)) # None => Looks(D, M[r], Row(k)).dep # d
    /\ \A s \in Requests : s # r => ~Inserts(D, M[s], d)

Sound(D, M) == Named(D) /\ Apart(M) /\ Kept(D, M) /\ Emptied(D, M)

\* Transactions that end give up their locks.
LEMMA Ending ==
  ASSUME NEW D, NEW M, NEW N, Sound(D, M),
         \A r \in Requests : N[r] = M[r] \/ DOMAIN N[r] = {}
  PROVE  Sound(D, N)
<1>1. Apart(N)
  BY DEF Apart, Sound
<1>2. Kept(D, N)
  BY DEF Kept, Sound
<1>3. Emptied(D, N)
  BY DEF Emptied, Sound, Deletes, Inserts, Looks
<1> QED
  BY <1>1, <1>2, <1>3 DEF Sound

\* A transaction that deletes no deployment writes a free item: a row that is gone,
\* keeps its deployment or has one that exists and that nobody deletes; an
\* environment; a deployment that exists.
LEMMA Writing ==
  ASSUME NEW D, NEW M, Sound(D, M), NEW r \in Requests, NEW i \in Items, NEW v, NEW N,
         \A s \in Requests \ {r} : i \notin DOMAIN M[s] /\ N[s] = M[s],
         N[r] = With(M[r], i, v), DOMAIN M[r] \subseteq Items,
         \A d \in Deployments : ~Deletes(M[r], d) /\ (i = Dep(d) => v # None),
         \A k \in Keys, d \in Deployments :
            (i = Row(k) /\ v # None /\ v.dep = d) =>
              /\ D[Dep(d)] # None
              /\ D[i] # None => D[i].dep = d
              /\ D[i] = None => \A s \in Requests \ {r} : ~Deletes(M[s], d)
  PROVE  Sound(D, N)
<1>0. /\ DOMAIN N[r] = DOMAIN M[r] \union {i}
      /\ N[r][i] = v
      /\ \A j \in DOMAIN M[r] : j # i => N[r][j] = M[r][j]
  BY DEF With
<1>1. Apart(N)
  BY <1>0 DEF Apart, Sound
<1>2. Kept(D, N)
  <2> SUFFICES ASSUME NEW s \in Requests, NEW k \in Keys, NEW d \in Deployments,
                      Row(k) \in DOMAIN N[s], N[s][Row(k)] # None, N[s][Row(k)].dep = d
               PROVE  D[Dep(d)] # None /\ (D[Row(k)] # None => D[Row(k)].dep = d)
    BY DEF Kept
  <2>1. CASE s # r
    BY <2>1 DEF Kept, Sound
  <2>2. CASE s = r /\ Row(k) # i
    BY <1>0, <2>2 DEF Kept, Sound
  <2>3. CASE s = r /\ Row(k) = i
    BY <1>0, <2>3
  <2> QED
    BY <2>1, <2>2, <2>3
<1>3. Emptied(D, N)
  <2> SUFFICES ASSUME NEW s \in Requests, NEW d \in Deployments, Deletes(N[s], d)
               PROVE  /\ \A k \in Keys : Looks(D, N[s], Row(k)) # None => Looks(D, N[s], Row(k)).dep # d
                      /\ \A q \in Requests : q # s => ~Inserts(D, N[q], d)
    BY DEF Emptied
  <2>1. s # r /\ Deletes(M[s], d)
    BY <1>0 DEF Deletes
  <2>2. /\ \A k \in Keys : Looks(D, M[s], Row(k)) # None => Looks(D, M[s], Row(k)).dep # d
        /\ \A q \in Requests : q # s => ~Inserts(D, M[q], d)
    BY <2>1 DEF Sound, Emptied
  <2>3. ASSUME Inserts(D, N[r], d) PROVE FALSE
    <3>1. PICK k \in Keys : /\ Row(k) \in DOMAIN N[r] /\ N[r][Row(k)] # None
                            /\ D[Row(k)] = None /\ N[r][Row(k)].dep = d
      BY <2>3 DEF Inserts
    <3>2. CASE Row(k) # i
      BY <1>0, <2>1, <2>2, <3>1, <3>2 DEF Inserts
    <3>3. CASE Row(k) = i
      BY <1>0, <2>1, <3>1, <3>3
    <3> QED
      BY <3>2, <3>3
  <2> QED
    BY <2>1, <2>2, <2>3
<1> QED
  BY <1>1, <1>2, <1>3 DEF Sound

\* A transaction deletes a deployment whose lock it gets, and takes it from the rows.
LEMMA DeletingOne ==
  ASSUME NEW D, NEW M, Sound(D, M), NEW r \in Requests, NEW d \in Deployments, NEW N,
         NEW orphans \in SUBSET Items,
         \A k \in Keys : Row(k) \in orphans <=> /\ Looks(D, M[r], Row(k)) # None
                                               /\ Looks(D, M[r], Row(k)).dep = d,
         \A e \in Deployments : Dep(e) \notin orphans,
         \A s \in Requests \ {r} :
            /\ N[s] = M[s] /\ ~Inserts(D, M[s], d)
            /\ Dep(d) \notin DOMAIN M[s] /\ \A i \in orphans : i \notin DOMAIN M[s],
         DOMAIN N[r] = DOMAIN M[r] \union orphans \union {Dep(d)},
         N[r][Dep(d)] = None,
         \A i \in orphans : N[r][i] # None => N[r][i].dep = None,
         \A i \in DOMAIN M[r] : i \notin orphans \union {Dep(d)} => N[r][i] = M[r][i],
         DOMAIN M[r] \subseteq Items,
         \A e \in Deployments : ~Deletes(M[r], e)
  PROVE  Sound(D, N)
<1> USE ItemsDiffer, DesiredAssumption
<1>1. Apart(N)
  <2> SUFFICES ASSUME NEW s \in Requests, s # r, NEW i \in Items, i \in DOMAIN N[r], i \in DOMAIN N[s]
               PROVE  FALSE
    BY DEF Apart, Sound
  <2> QED
    BY DEF Apart, Sound
<1>2. Kept(D, N)
  <2> SUFFICES ASSUME NEW s \in Requests, NEW k \in Keys, NEW e \in Deployments,
                      Row(k) \in DOMAIN N[s], N[s][Row(k)] # None, N[s][Row(k)].dep = e
               PROVE  D[Dep(e)] # None /\ (D[Row(k)] # None => D[Row(k)].dep = e)
    BY DEF Kept
  <2>1. CASE s # r
    BY <2>1 DEF Kept, Sound
  <2>2. CASE s = r
    <3>1. Row(k) \notin orphans
      BY <2>2
    <3>2. Row(k) \in DOMAIN M[r] /\ N[r][Row(k)] = M[r][Row(k)]
      BY <2>2, <3>1
    <3> QED
      BY <2>2, <3>2 DEF Kept, Sound
  <2> QED
    BY <2>1, <2>2
<1>3. Emptied(D, N)
  <2> SUFFICES ASSUME NEW s \in Requests, NEW e \in Deployments, Deletes(N[s], e)
               PROVE  /\ \A k \in Keys : Looks(D, N[s], Row(k)) # None => Looks(D, N[s], Row(k)).dep # e
                      /\ \A q \in Requests : q # s => ~Inserts(D, N[q], e)
    BY DEF Emptied
  <2>1. CASE s # r
    <3>1. Deletes(M[s], e)
      BY <2>1
    <3>2. /\ \A k \in Keys : Looks(D, M[s], Row(k)) # None => Looks(D, M[s], Row(k)).dep # e
          /\ \A q \in Requests : q # s => ~Inserts(D, M[q], e)
      BY <2>1, <3>1 DEF Sound, Emptied
    <3>3. ASSUME Inserts(D, N[r], e) PROVE FALSE
      <4>1. PICK k \in Keys : /\ Row(k) \in DOMAIN N[r] /\ N[r][Row(k)] # None
                              /\ D[Row(k)] = None /\ N[r][Row(k)].dep = e
        BY <3>3 DEF Inserts
      <4>2. Row(k) \notin orphans
        BY <4>1
      <4> QED
        BY <2>1, <3>2, <4>1, <4>2 DEF Inserts
    <3> QED
      BY <2>1, <3>2, <3>3
  <2>2. CASE s = r
    <3>1. e = d
      <4>1. ASSUME e # d PROVE FALSE
        <5>1. Dep(e) \notin orphans \union {Dep(d)}
          BY <4>1
        <5>2. Dep(e) \in DOMAIN M[r] /\ M[r][Dep(e)] = None
          BY <2>2, <5>1 DEF Deletes
        <5> QED
          BY <5>2 DEF Deletes
      <4> QED
        BY <4>1
    <3>2. ASSUME NEW k \in Keys, Looks(D, N[r], Row(k)) # None, Looks(D, N[r], Row(k)).dep = d
          PROVE  FALSE
      <4>1. Row(k) \notin orphans
        BY <3>2 DEF Looks
      <4>2. Looks(D, N[r], Row(k)) = Looks(D, M[r], Row(k))
        BY <4>1 DEF Looks
      <4> QED
        BY <3>2, <4>1, <4>2
    <3> QED
      BY <2>2, <3>1, <3>2
  <2> QED
    BY <2>1, <2>2
<1> QED
  BY <1>1, <1>2, <1>3 DEF Sound

\* A transaction commits what it has written.
LEMMA Committing ==
  ASSUME NEW D, NEW M, Sound(D, M), NEW r \in Requests, NEW E, NEW N,
         \A i \in Items : E[i] = Looks(D, M[r], i),
         \A s \in Requests \ {r} : N[s] = M[s],
         DOMAIN N[r] = {}
  PROVE  Sound(E, N)
<1> USE ItemsDiffer
<1>0. \A s \in Requests \ {r}, i \in Items : i \in DOMAIN M[s] => E[i] = D[i]
  BY DEF Sound, Apart, Looks
<1>1. Named(E)
  <2> SUFFICES ASSUME NEW k \in Keys, NEW d \in Deployments, E[Row(k)] # None, E[Row(k)].dep = d,
                      E[Dep(d)] = None
               PROVE  FALSE
    BY DEF Named
  <2>1. D[Dep(d)] # None
    BY DEF Sound, Named, Kept, Looks
  <2>2. Deletes(M[r], d)
    BY <2>1 DEF Looks, Deletes
  <2> QED
    BY <2>2 DEF Sound, Emptied
<1>2. Apart(N)
  BY DEF Apart, Sound
<1>3. Kept(E, N)
  <2> SUFFICES ASSUME NEW s \in Requests \ {r}, NEW k \in Keys, NEW d \in Deployments,
                      Row(k) \in DOMAIN M[s], M[s][Row(k)] # None, M[s][Row(k)].dep = d
               PROVE  E[Dep(d)] # None /\ (E[Row(k)] # None => E[Row(k)].dep = d)
    BY DEF Kept
  <2>1. E[Row(k)] = D[Row(k)]
    BY <1>0
  <2>2. D[Dep(d)] # None /\ (D[Row(k)] # None => D[Row(k)].dep = d)
    BY DEF Sound, Kept
  <2>3. ASSUME E[Dep(d)] = None PROVE FALSE
    <3>1. Deletes(M[r], d)
      BY <2>2, <2>3 DEF Looks, Deletes
    <3>2. CASE D[Row(k)] = None
      BY <3>1, <3>2 DEF Sound, Emptied, Inserts
    <3>3. CASE D[Row(k)] # None
      BY <2>1, <2>2, <3>1, <3>3 DEF Sound, Emptied
    <3> QED
      BY <3>2, <3>3
  <2> QED
    BY <2>1, <2>2, <2>3
<1>4. Emptied(E, N)
  <2> SUFFICES ASSUME NEW s \in Requests \ {r}, NEW d \in Deployments, Deletes(M[s], d)
               PROVE  /\ \A k \in Keys : Looks(E, M[s], Row(k)) # None => Looks(E, M[s], Row(k)).dep # d
                      /\ \A q \in Requests : q # s => ~Inserts(E, N[q], d)
    BY DEF Emptied, Deletes
  <2>1. /\ \A k \in Keys : Looks(D, M[s], Row(k)) # None => Looks(D, M[s], Row(k)).dep # d
        /\ \A q \in Requests : q # s => ~Inserts(D, M[q], d)
    BY DEF Sound, Emptied
  <2>2. ASSUME NEW k \in Keys, Looks(E, M[s], Row(k)) # None, Looks(E, M[s], Row(k)).dep = d
        PROVE  FALSE
    <3>1. Row(k) \notin DOMAIN M[s] /\ E[Row(k)] # None /\ E[Row(k)].dep = d
      BY <1>0, <2>1, <2>2 DEF Looks
    <3>2. D[Row(k)] # None => D[Row(k)].dep # d
      BY <2>1, <3>1 DEF Looks
    <3>3. Row(k) \in DOMAIN M[r] /\ M[r][Row(k)] = E[Row(k)]
      BY <3>1, <3>2 DEF Looks
    <3>4. D[Row(k)] = None
      BY <3>1, <3>2, <3>3 DEF Sound, Kept
    <3> QED
      BY <2>1, <3>1, <3>3, <3>4 DEF Inserts
  <2>3. ASSUME NEW q \in Requests, q # s, Inserts(E, N[q], d) PROVE FALSE
    BY <1>0, <2>1, <2>3 DEF Inserts
  <2> QED
    BY <2>2, <2>3
<1> QED
  BY <1>1, <1>2, <1>3, <1>4 DEF Sound
-----------------------------------------------------------------------------
(* The invariant.                                                          *)

AnyOps ==
  [kind : {"ensure"}, key : Keys, def : Defs, dep : Deployments \union {None}]
  \union [kind : {"delete"}, key : Keys, dep : Deployments \union {None}]
  \union [kind : {"setHostEnv"}, env : Envs]
  \union [kind : {"upsertDeployment"}, dep : Deployments, env : Envs]
  \union [kind : {"deleteDeployment"}, dep : Deployments, withProcesses : BOOLEAN]

\* A record with the fields of a transaction, whatever is in them.
IsTx(t) == t \in [pc : {t.pc}, op : {t.op}, mine : {t.mine}, seen : {t.seen},
                  todo : {t.todo}, cur : {t.cur}]

Ends == {"idle", "done", "failed"}

\* A transaction that is over has written nothing; one that deletes a deployment has
\* only to commit.
TxRight(t) ==
  /\ IsTx(t)
  /\ DOMAIN t.mine \subseteq Items
  /\ \A k \in Keys : Row(k) \in DOMAIN t.mine /\ t.mine[Row(k)] # None => IsRow(t.mine[Row(k)])
  /\ t.pc \in Ends => DOMAIN t.mine = {}
  /\ t.pc \notin Ends => t.op \in AnyOps
  /\ \A d \in Deployments : Deletes(t.mine, d) => t.pc = "commit"
  /\ t.todo \subseteq Keys
  /\ t.pc \in {"row", "await", "answered"} => t.cur \in Keys

Mines == [r \in Requests |-> tx[r].mine]

DesiredInv ==
  /\ setting \in Settings
  /\ \A k \in Keys : db[Row(k)] # None => IsRow(db[Row(k)])
  /\ tx = [r \in Requests |-> tx[r]]
  /\ \A r \in Requests : TxRight(tx[r])
  /\ Sound(db, Mines)

LEMMA OpsAreKnown == setting \in Settings => Ops \subseteq AnyOps
BY DesiredAssumption DEF SettingKinds, Ops, AnyOps

LEMMA InitDesired == Init => DesiredInv
<1> SUFFICES ASSUME Init PROVE DesiredInv
  OBVIOUS
<1> USE ItemsDiffer, DesiredAssumption
<1>1. /\ setting \in Settings
      /\ tx = [r \in Requests |-> Idle]
  BY DEF Init
<1>2. DOMAIN Idle.mine = {} /\ IsTx(Idle) /\ Idle.pc = "idle" /\ Idle.todo = {}
  BY DEF Idle, IsTx
<1>3. \A r \in Requests : TxRight(tx[r]) /\ DOMAIN Mines[r] = {}
  BY <1>1, <1>2 DEF TxRight, Ends, Deletes, Mines
<1>4. PICK rows \in [Keys -> [def : setting.defs, dep : Deployments \union {None}] \union {None}],
           env \in setting.envs, deps \in [Deployments -> setting.envs \union {None}] :
         /\ \A k \in Keys, d \in Deployments : rows[k] # None /\ deps[d] = None => rows[k].dep # d
         /\ db = Settled(rows, env, deps)
  BY DEF Init
<1>5. \A d \in Deployments : db[Dep(d)] = deps[d]
  BY <1>4 DEF Settled, Dep
<1>6. \A k \in Keys : db[Row(k)] # None => /\ rows[k] # None /\ IsRow(db[Row(k)])
                                           /\ db[Row(k)].dep = rows[k].dep
  <2> TAKE k \in Keys
  <2>1. PICK print : rows[k] # None =>
                       db[Row(k)] = [def |-> rows[k].def, dep |-> rows[k].dep, fingerprint |-> print]
    BY <1>4 DEF Settled, Row
  <2>2. rows[k] = None => db[Row(k)] = None
    BY <1>4 DEF Settled, Row
  <2>3. rows[k] # None => rows[k].dep \in Deployments \union {None}
    BY <1>4
  <2> QED
    BY <2>1, <2>2, <2>3 DEF IsRow
<1>7. Sound(db, Mines)
  BY <1>3, <1>4, <1>5, <1>6 DEF Sound, Named, Apart, Kept, Emptied, Deletes
<1> QED
  BY <1>1, <1>3, <1>6, <1>7 DEF DesiredInv

-----------------------------------------------------------------------------
(* Steps of one transaction.                                               *)

LEMMA Turn ==
  ASSUME DesiredInv, NEW r \in Requests, NEW next, TxRight(next),
         tx' = [tx EXCEPT ![r] = next], setting' = setting, db' = db,
         Sound(db, [Mines EXCEPT ![r] = next.mine])
  PROVE  DesiredInv'
<1>1. Mines' = [Mines EXCEPT ![r] = next.mine]
  BY DEF Mines, DesiredInv
<1> QED
  BY <1>1 DEF DesiredInv

\* It writes nothing.
LEMMA TurnOnly ==
  ASSUME DesiredInv, NEW r \in Requests, NEW next, TxRight(next), next.mine = tx[r].mine,
         tx' = [tx EXCEPT ![r] = next], setting' = setting, db' = db
  PROVE  DesiredInv'
<1>1. [Mines EXCEPT ![r] = next.mine] = Mines
  BY DEF Mines
<1> QED
  BY <1>1, Turn DEF DesiredInv

\* It ends, and what it has written is gone.
LEMMA EndedRight ==
  ASSUME DesiredInv, NEW r \in Requests, NEW how \in {"done", "failed"}
  PROVE  TxRight(Ended(r, how)) /\ DOMAIN Ended(r, how).mine = {}
<1>0. DOMAIN Idle.mine = {} /\ IsTx(Idle) /\ Idle.todo = {}
  BY DEF Idle, IsTx
<1>1. /\ DOMAIN Ended(r, how).mine = {} /\ Ended(r, how).pc = how
      /\ IsTx(Ended(r, how)) /\ Ended(r, how).todo = {}
  BY <1>0 DEF Ended, IsTx
<1> QED
  BY <1>1 DEF TxRight, Ends, Deletes

LEMMA TurnEnds ==
  ASSUME DesiredInv, NEW r \in Requests, NEW how \in {"done", "failed"},
         tx' = [tx EXCEPT ![r] = Ended(r, how)], setting' = setting, db' = db
  PROVE  DesiredInv'
<1>1. Sound(db, [Mines EXCEPT ![r] = Ended(r, how).mine])
  <2> DEFINE N == [Mines EXCEPT ![r] = Ended(r, how).mine]
  <2>1. \A s \in Requests : N[s] = Mines[s] \/ DOMAIN N[s] = {}
    BY EndedRight DEF Mines
  <2> HIDE DEF N
  <2> QED
    BY <2>1, Ending DEF DesiredInv, N
<1> QED
  BY <1>1, EndedRight, Turn

\* What a step that writes v to item i has to respect.
RightRow(r, i, v) ==
  \A k \in Keys, d \in Deployments :
    (i = Row(k) /\ v # None /\ v.dep = d) =>
      /\ db[Dep(d)] # None
      /\ db[i] # None => db[i].dep = d
      /\ db[i] = None => \A s \in Requests \ {r} : ~Deletes(tx[s].mine, d)

MayWrite(r, i, v) ==
  /\ i \in Items /\ Free(r, i)
  /\ \A d \in Deployments : i = Dep(d) => v # None
  /\ \A k \in Keys : i = Row(k) /\ v # None => IsRow(v)
  /\ RightRow(r, i, v)

\* The transaction goes on.
GoesOn(r, next) ==
  /\ IsTx(next) /\ next.op = tx[r].op /\ tx[r].pc \notin Ends \union {"commit"} /\ next.pc \notin Ends
  /\ next.todo \subseteq Keys /\ (next.pc \in {"row", "await", "answered"} => next.cur \in Keys)

\* It writes an item.
LEMMA TurnWrites ==
  ASSUME DesiredInv, NEW r \in Requests, NEW next, NEW i, NEW v,
         MayWrite(r, i, v), GoesOn(r, next), next.mine = With(tx[r].mine, i, v),
         tx' = [tx EXCEPT ![r] = next], setting' = setting, db' = db
  PROVE  DesiredInv'
<1> USE DEF MayWrite, RightRow, GoesOn
<1> DEFINE N == [Mines EXCEPT ![r] = next.mine]
<1>0. IsTx(tx[r]) /\ DOMAIN tx[r].mine \subseteq Items
  BY DEF DesiredInv, TxRight
<1>1. \A d \in Deployments : ~Deletes(tx[r].mine, d)
  BY DEF DesiredInv, TxRight
<1>2. /\ DOMAIN next.mine = DOMAIN tx[r].mine \union {i}
      /\ next.mine[i] = v
      /\ \A j \in DOMAIN tx[r].mine : j # i => next.mine[j] = tx[r].mine[j]
  BY DEF With
<1>3. \A d \in Deployments : ~Deletes(next.mine, d)
  BY <1>1, <1>2 DEF Deletes
<1>4. tx[r].op \in AnyOps
  BY DEF TxRight, DesiredInv
<1>5. TxRight(next)
  BY <1>2, <1>3, <1>4, <1>0 DEF TxRight, DesiredInv
<1>6. Sound(db, N)
  <2>1. /\ \A s \in Requests : Mines[s] = tx[s].mine
        /\ \A s \in Requests \ {r} : N[s] = Mines[s] /\ i \notin DOMAIN Mines[s]
        /\ N[r] = With(Mines[r], i, v) /\ DOMAIN Mines[r] \subseteq Items
    BY <1>0 DEF Mines, Free, Mine
  <2> HIDE DEF N
  <2>2. \A k \in Keys, d \in Deployments :
            (i = Row(k) /\ v # None /\ v.dep = d) =>
              /\ db[Dep(d)] # None
              /\ db[i] # None => db[i].dep = d
              /\ db[i] = None => \A s \in Requests \ {r} : ~Deletes(Mines[s], d)
    BY <2>1
  <2>3. \A d \in Deployments : ~Deletes(Mines[r], d) /\ (i = Dep(d) => v # None)
    BY <2>1, <1>1
  <2>4. Sound(db, Mines)
    BY DEF DesiredInv
  <2> QED
    BY <2>1, <2>2, <2>3, <2>4, Writing
<1> QED
  BY <1>5, <1>6, Turn

\* It goes on and writes nothing.
LEMMA TurnGoes ==
  ASSUME DesiredInv, NEW r \in Requests, NEW next,
         IsTx(next), next.op = tx[r].op, next.mine = tx[r].mine,
         tx[r].pc \notin Ends \union {"commit"}, next.pc \notin Ends,
         next.todo \subseteq Keys, next.pc \in {"row", "await", "answered"} => next.cur \in Keys,
         tx' = [tx EXCEPT ![r] = next], setting' = setting, db' = db
  PROVE  DesiredInv'
<1>1. TxRight(next)
  BY DEF TxRight, DesiredInv
<1> QED
  BY <1>1, TurnOnly

\* A call of a transaction is under way.
LEMMA TurnSends ==
  ASSUME DesiredInv, NEW r \in Requests, NEW k \in Keys, NEW body, NEW next,
         Send(r, k, body, next), setting' = setting,
         IsTx(next), next.op = tx[r].op, next.mine = tx[r].mine, next.todo = tx[r].todo,
         tx[r].pc \notin Ends \union {"commit"}
  PROVE  DesiredInv'
<1> DEFINE sent == [next EXCEPT !.pc = "await", !.cur = k]
<1>1. /\ IsTx(sent) /\ sent.op = tx[r].op /\ sent.mine = tx[r].mine
      /\ sent.todo = tx[r].todo /\ sent.pc = "await" /\ sent.cur = k
  BY DEF IsTx
<1>2. tx[r].todo \subseteq Keys
  BY DEF DesiredInv, TxRight
<1>3. tx' = [tx EXCEPT ![r] = sent] /\ db' = db
  BY DEF Send, Go
<1> HIDE DEF sent
<1> QED
  BY <1>1, <1>2, <1>3, TurnGoes DEF Ends

LEMMA OfOp ==
  ASSUME DesiredInv, NEW r \in Requests, tx[r].pc \notin Ends
  PROVE  /\ tx[r].op.kind \in {"ensure", "delete"} => tx[r].op.key \in Keys
         /\ tx[r].op.kind = "ensure" => tx[r].op.dep \in Deployments \union {None}
         /\ tx[r].op.kind \in {"setHostEnv", "upsertDeployment"} => tx[r].op.env \in Envs
         /\ tx[r].op.kind \in {"upsertDeployment", "deleteDeployment"} => tx[r].op.dep \in Deployments
BY DEF DesiredInv, TxRight, AnyOps

LEMMA ConcernedKeys == ASSUME NEW r PROVE Concerned(r) \subseteq Keys
BY DEF Concerned

LEMMA BeginKeeps ==
  ASSUME DesiredInv, NEW r \in Requests, NEW op \in Ops, Begin(r, op), setting' = setting
  PROVE  DesiredInv'
<1> DEFINE next == [tx[r] EXCEPT !.pc = "resolve", !.op = op]
<1>1. /\ TxRight(tx[r]) /\ op \in AnyOps /\ tx[r].pc = "idle"
      /\ tx' = [tx EXCEPT ![r] = next] /\ db' = db
  BY OpsAreKnown DEF DesiredInv, Begin, Step, Go
<1>2. /\ IsTx(next) /\ next.op = op /\ next.mine = tx[r].mine /\ next.pc = "resolve"
      /\ next.todo = tx[r].todo
  BY <1>1 DEF TxRight, IsTx
<1>3. TxRight(next)
  BY <1>1, <1>2 DEF TxRight, Ends, Deletes
<1> HIDE DEF next
<1> QED
  BY <1>1, <1>2, <1>3, TurnOnly

\* The steps of one kind of request that resolve, list, loop and end.
LEMMA GoingKeeps ==
  ASSUME DesiredInv, NEW r \in Requests, setting' = setting,
         \/ EnsureResolve(r) \/ DeleteResolve(r) \/ RefreshList(r) \/ (\E k \in Keys : NextRow(r, k))
         \/ RefreshEnd(r) \/ DeleteDeploymentList(r)
  PROVE  DesiredInv'
<1>0. IsTx(tx[r]) /\ tx[r].todo \subseteq Keys /\ Concerned(r) \subseteq Keys
  BY ConcernedKeys DEF DesiredInv, TxRight
<1> DEFINE Turned(next) == tx' = [tx EXCEPT ![r] = next] /\ db' = db
<1>1. ASSUME NEW next, Turned(next), IsTx(next), next.op = tx[r].op, next.mine = tx[r].mine,
             tx[r].pc \in {"resolve", "list", "loop"}, next.pc \in {"write", "loop", "row", "commit"},
             next.todo \subseteq Keys, next.pc = "row" => next.cur \in Keys
      PROVE  DesiredInv'
  BY <1>1, TurnGoes DEF Ends
<1>2. ASSUME NEW how \in {"done", "failed"}, Turned(Ended(r, how)) PROVE DesiredInv'
  BY <1>2, TurnEnds
<1>3. CASE EnsureResolve(r)
  <2> DEFINE next == [tx[r] EXCEPT !.pc = "write", !.seen = View(r)]
  <2>1. Turned(Ended(r, "failed")) \/ Turned(next)
    BY <1>3 DEF EnsureResolve, Throw, Step, Go
  <2>2. IsTx(next) /\ next.op = tx[r].op /\ next.mine = tx[r].mine /\ next.pc = "write" /\ next.todo = tx[r].todo
    BY <1>0 DEF IsTx
  <2>3. tx[r].pc = "resolve"
    BY <1>3 DEF EnsureResolve, At
  <2> HIDE DEF next, Turned
  <2> QED
    BY <1>0, <1>1, <1>2, <2>1, <2>2, <2>3
<1>4. CASE DeleteResolve(r)
  <2> DEFINE next == [tx[r] EXCEPT !.pc = "write"]
  <2>1. Turned(Ended(r, "done")) \/ Turned(next)
    BY <1>4 DEF DeleteResolve, Step, Go
  <2>2. IsTx(next) /\ next.op = tx[r].op /\ next.mine = tx[r].mine /\ next.pc = "write" /\ next.todo = tx[r].todo
    BY <1>0 DEF IsTx
  <2>3. tx[r].pc = "resolve"
    BY <1>4 DEF DeleteResolve, At
  <2> HIDE DEF next, Turned
  <2> QED
    BY <1>0, <1>1, <1>2, <2>1, <2>2, <2>3
<1>5. CASE RefreshList(r)
  <2> DEFINE next == [tx[r] EXCEPT !.pc = "loop", !.seen = View(r), !.todo = Concerned(r)]
  <2>1. Turned(next) /\ tx[r].pc = "list"
    BY <1>5 DEF RefreshList, Step, Go, At
  <2>2. IsTx(next) /\ next.op = tx[r].op /\ next.mine = tx[r].mine /\ next.pc = "loop" /\ next.todo = Concerned(r)
    BY <1>0 DEF IsTx
  <2> HIDE DEF next, Turned
  <2> QED
    BY <1>0, <1>1, <2>1, <2>2
<1>6. ASSUME NEW k \in Keys, NextRow(r, k) PROVE DesiredInv'
  <2> DEFINE next == [tx[r] EXCEPT !.pc = "row", !.cur = k, !.todo = @ \ {k}]
  <2>1. Turned(next) /\ tx[r].pc = "loop"
    BY <1>6 DEF NextRow, Step, Go, At
  <2>2. IsTx(next) /\ next.op = tx[r].op /\ next.mine = tx[r].mine /\ next.pc = "row"
        /\ next.todo \subseteq tx[r].todo /\ next.cur = k
    BY <1>0 DEF IsTx
  <2> HIDE DEF next, Turned
  <2> QED
    BY <1>0, <1>1, <2>1, <2>2
<1>7. CASE RefreshEnd(r)
  <2> DEFINE next == [tx[r] EXCEPT !.pc = "commit"]
  <2>1. Turned(next) /\ tx[r].pc = "loop"
    BY <1>7 DEF RefreshEnd, Step, Go, At
  <2>2. IsTx(next) /\ next.op = tx[r].op /\ next.mine = tx[r].mine /\ next.pc = "commit" /\ next.todo = tx[r].todo
    BY <1>0 DEF IsTx
  <2> HIDE DEF next, Turned
  <2> QED
    BY <1>0, <1>1, <2>1, <2>2
<1>8. CASE DeleteDeploymentList(r)
  <2> DEFINE next == [tx[r] EXCEPT !.pc = "loop", !.todo = Concerned(r)]
  <2>1. Turned(Ended(r, "done")) \/ Turned(Ended(r, "failed")) \/ Turned(next)
    BY <1>8 DEF DeleteDeploymentList, Throw, Step, Go
  <2>2. IsTx(next) /\ next.op = tx[r].op /\ next.mine = tx[r].mine /\ next.pc = "loop" /\ next.todo = Concerned(r)
    BY <1>0 DEF IsTx
  <2>3. tx[r].pc = "resolve"
    BY <1>8 DEF DeleteDeploymentList, At
  <2> HIDE DEF next, Turned
  <2> QED
    BY <1>0, <1>1, <1>2, <2>1, <2>2, <2>3
<1> QED
  BY <1>3, <1>4, <1>5, <1>6, <1>7, <1>8

\* The calls.
LEMMA SendingKeeps ==
  ASSUME DesiredInv, NEW r \in Requests, setting' = setting,
         EnsureMirror(r) \/ DeleteMirror(r) \/ DeleteDeploymentMirror(r)
  PROVE  DesiredInv'
<1>0. IsTx(tx[r]) /\ TxRight(tx[r])
  BY DEF DesiredInv, TxRight
<1>1. CASE EnsureMirror(r)
  <2>1. tx[r].pc = "reload" /\ tx[r].op.key \in Keys
    BY <1>1, OfOp DEF EnsureMirror, At, Ends
  <2>2. \/ tx' = [tx EXCEPT ![r] = Ended(r, "failed")] /\ db' = db
        \/ Send(r, tx[r].op.key, Payload(View(r), View(r)[Row(tx[r].op.key)]), tx[r])
    BY <1>1 DEF EnsureMirror, Throw, Go
  <2> QED
    BY <1>0, <2>1, <2>2, TurnSends, TurnEnds DEF Ends
<1>2. CASE DeleteMirror(r)
  BY <1>0, <1>2, OfOp, TurnSends DEF DeleteMirror, At, Ends
<1>3. CASE DeleteDeploymentMirror(r)
  BY <1>0, <1>3, TurnSends DEF DeleteDeploymentMirror, At, Ends, TxRight
<1> QED
  BY <1>1, <1>2, <1>3

\* A row that a transaction sees has a deployment that exists; when it is not committed
\* nobody else deletes that.
LEMMA SeenRow ==
  ASSUME DesiredInv, NEW r \in Requests, NEW k \in Keys, View(r)[Row(k)] # None
  PROVE  /\ IsRow(View(r)[Row(k)])
         /\ \A d \in Deployments : View(r)[Row(k)].dep = d =>
               /\ db[Dep(d)] # None
               /\ db[Row(k)] # None => db[Row(k)].dep = d
               /\ db[Row(k)] = None => \A s \in Requests \ {r} : ~Deletes(tx[s].mine, d)
<1>1. /\ Sound(db, Mines) /\ \A s \in Requests : Mines[s] = tx[s].mine
      /\ TxRight(tx[r]) /\ (db[Row(k)] # None => IsRow(db[Row(k)]))
  BY DEF DesiredInv, Mines
<1>2. CASE Row(k) \in Mine(r)
  <2>1. View(r)[Row(k)] = Mines[r][Row(k)] /\ Row(k) \in DOMAIN Mines[r]
    BY <1>1, <1>2, ItemsDiffer DEF View, Mine
  <2>2. IsRow(View(r)[Row(k)])
    BY <1>1, <2>1 DEF TxRight
  <2>3. ASSUME NEW d \in Deployments, View(r)[Row(k)].dep = d
        PROVE  /\ db[Dep(d)] # None
               /\ db[Row(k)] # None => db[Row(k)].dep = d
               /\ db[Row(k)] = None => \A s \in Requests \ {r} : ~Deletes(tx[s].mine, d)
    <3>1. db[Dep(d)] # None /\ (db[Row(k)] # None => db[Row(k)].dep = d)
      BY <1>1, <2>1, <2>3 DEF Sound, Kept
    <3>2. db[Row(k)] = None => Inserts(db, Mines[r], d)
      BY <2>1, <2>3 DEF Inserts
    <3>3. \A s \in Requests \ {r} : Inserts(db, Mines[r], d) => ~Deletes(Mines[s], d)
      BY <1>1 DEF Sound, Emptied
    <3> QED
      BY <1>1, <3>1, <3>2, <3>3
  <2> QED
    BY <2>2, <2>3
<1>3. CASE Row(k) \notin Mine(r)
  <2>1. View(r)[Row(k)] = db[Row(k)]
    BY <1>3, ItemsDiffer DEF View
  <2> QED
    BY <1>1, <2>1 DEF Sound, Named
<1> QED
  BY <1>2, <1>3

LEMMA EnsureWriteKeeps ==
  ASSUME DesiredInv, NEW r \in Requests, setting' = setting, EnsureWrite(r)
  PROVE  DesiredInv'
<1> DEFINE op == tx[r].op
           i == Row(op.key)
           read == tx[r].seen[i]
           same == [tx[r] EXCEPT !.pc = "reload"]
           wrote(row) == [tx[r] EXCEPT !.pc = "reload", !.mine = With(@, i, row)]
           Turned(next) == tx' = [tx EXCEPT ![r] = next] /\ db' = db
<1>0. /\ IsTx(tx[r]) /\ tx[r].todo \subseteq Keys /\ tx[r].pc = "write"
      /\ op.key \in Keys /\ op.dep \in Deployments \union {None}
      /\ i \in Items /\ \A d \in Deployments : i # Dep(d)
  BY OfOp, ItemsDiffer DEF EnsureWrite, At, DesiredInv, TxRight, Ends
<1>1. CASE Turned(same)
  <2>1. /\ IsTx(same) /\ same.op = tx[r].op /\ same.mine = tx[r].mine /\ same.pc = "reload"
        /\ same.todo = tx[r].todo
    BY <1>0 DEF IsTx
  <2> HIDE DEF same
  <2> QED
    BY <1>0, <1>1, <2>1, TurnGoes DEF Ends
<1>2. ASSUME NEW row, Turned(wrote(row)), Free(r, i), IsRow(row),
             \A d \in Deployments : row.dep = d =>
                /\ db[Dep(d)] # None
                /\ db[i] # None => db[i].dep = d
                /\ db[i] = None => \A s \in Requests \ {r} : ~Deletes(tx[s].mine, d)
      PROVE  DesiredInv'
  <2>1. /\ IsTx(wrote(row)) /\ wrote(row).op = tx[r].op /\ wrote(row).pc = "reload"
        /\ wrote(row).todo = tx[r].todo /\ wrote(row).mine = With(tx[r].mine, i, row)
    BY <1>0 DEF IsTx
  <2> DEFINE next == wrote(row)
  <2>2. tx' = [tx EXCEPT ![r] = next] /\ db' = db
    BY <1>2
  <2>3. /\ tx[r].pc \notin Ends \union {"commit"} /\ next.pc \notin Ends \union {"row", "await", "answered"}
        /\ next.todo \subseteq Keys
    BY <1>0, <2>1 DEF Ends
  <2>4. /\ \A d \in Deployments : i = Dep(d) => row # None
        /\ \A k \in Keys : i = Row(k) /\ row # None => IsRow(row)
        /\ \A k \in Keys, d \in Deployments :
              (i = Row(k) /\ row # None /\ row.dep = d) =>
                /\ db[Dep(d)] # None
                /\ db[i] # None => db[i].dep = d
                /\ db[i] = None => \A s \in Requests \ {r} : ~Deletes(tx[s].mine, d)
    BY <1>0, <1>2
  <2>5. MayWrite(r, i, row)
    BY <1>0, <1>2, <2>4 DEF MayWrite, RightRow
  <2>6. next.mine = With(tx[r].mine, i, row)
    BY <2>1
  <2>7. GoesOn(r, next)
    BY <2>1, <2>3 DEF GoesOn
  <2> HIDE DEF next, i
  <2> QED
    BY <2>2, <2>5, <2>6, <2>7, TurnWrites
<1>3. CASE Turned(wrote(UpdatedRow(r))) /\ Free(r, i) /\ db[i] # None
  <2>1. IsRow(db[i]) /\ Sound(db, Mines)
    BY <1>0, <1>3 DEF DesiredInv
  <2>2. IsRow(UpdatedRow(r)) /\ UpdatedRow(r).dep = db[i].dep
    BY <2>1 DEF UpdatedRow, IsRow
  <2>3. \A d \in Deployments : db[i].dep = d => db[Dep(d)] # None
    BY <1>0, <1>3, <2>1 DEF Sound, Named
  <2> HIDE DEF wrote, i
  <2> QED
    BY <1>2, <1>3, <2>2, <2>3
<1>4. CASE Turned(wrote(NewRow(r))) /\ Free(r, i) /\ db[i] = None
           /\ (op.dep # None => db[Dep(op.dep)] # None)
           /\ \A s \in Requests \ {r}, d \in Deployments : d = op.dep => ~Deleting(s, d)
  <2>1. IsRow(NewRow(r)) /\ NewRow(r).dep = op.dep
    BY <1>0 DEF NewRow, IsRow
  <2>2. \A s \in Requests, d \in Deployments : Deleting(s, d) <=> Deletes(tx[s].mine, d)
    BY DEF Deleting, Deletes, Mine
  <2>3. \A d \in Deployments : d # None
    BY DesiredAssumption
  <2> HIDE DEF wrote, i
  <2> QED
    BY <1>2, <1>4, <2>1, <2>2, <2>3
<1>5. CASE Turned(Ended(r, "failed"))
  BY <1>5, TurnEnds
<1>6. \/ Turned(same) \/ Turned(Ended(r, "failed"))
      \/ Turned(wrote(UpdatedRow(r))) /\ Free(r, i) /\ db[i] # None
      \/ Turned(wrote(NewRow(r))) /\ Free(r, i) /\ db[i] = None
           /\ (op.dep # None => db[Dep(op.dep)] # None)
           /\ \A s \in Requests \ {r}, d \in Deployments : d = op.dep => ~Deleting(s, d)
  BY DEF EnsureWrite, Step, Throw, Go
<1> QED
  BY <1>1, <1>3, <1>4, <1>5, <1>6

\* Rows that go.
LEMMA DeletingKeeps ==
  ASSUME DesiredInv, NEW r \in Requests, setting' = setting,
         DeleteWrite(r) \/ DeleteDeploymentRow(r)
  PROVE  DesiredInv'
<1>0. IsTx(tx[r]) /\ tx[r].todo \subseteq Keys
  BY DEF DesiredInv, TxRight
<1>1. ASSUME NEW k \in Keys, NEW pc \in {"reload", "loop"}, NEW mine, Free(r, Row(k)),
             tx[r].pc \in {"write", "answered"},
             mine = IF db[Row(k)] = None THEN tx[r].mine ELSE With(tx[r].mine, Row(k), None),
             tx' = [tx EXCEPT ![r] = [tx[r] EXCEPT !.pc = pc, !.mine = mine]], db' = db
      PROVE  DesiredInv'
  <2> DEFINE next == [tx[r] EXCEPT !.pc = pc, !.mine = mine]
  <2>1. /\ IsTx(next) /\ next.op = tx[r].op /\ next.pc = pc /\ next.todo = tx[r].todo
        /\ next.mine = mine
    BY <1>0 DEF IsTx
  <2>2. Row(k) \in Items /\ \A d \in Deployments : Row(k) # Dep(d)
    BY ItemsDiffer
  <2>3. tx' = [tx EXCEPT ![r] = next]
    BY <1>1
  <2> HIDE DEF next
  <2>4. CASE db[Row(k)] = None
    BY <1>0, <1>1, <2>1, <2>3, <2>4, TurnGoes DEF Ends
  <2>5. CASE db[Row(k)] # None
    <3> DEFINE none == None
    <3>1. next.mine = With(tx[r].mine, Row(k), none)
      BY <1>1, <2>1, <2>5
    <3>2. /\ tx[r].pc \notin Ends \union {"commit"} /\ next.pc \notin Ends \union {"row", "await", "answered"}
          /\ next.todo \subseteq Keys
      BY <1>0, <1>1, <2>1 DEF Ends
    <3> HIDE DEF none
    <3>3. /\ \A d \in Deployments : Row(k) = Dep(d) => none # None
          /\ \A j \in Keys : Row(k) = Row(j) /\ none # None => IsRow(none)
          /\ \A j \in Keys, d \in Deployments :
                (Row(k) = Row(j) /\ none # None /\ none.dep = d) =>
                  /\ db[Dep(d)] # None
                  /\ db[Row(k)] # None => db[Row(k)].dep = d
                  /\ db[Row(k)] = None => \A s \in Requests \ {r} : ~Deletes(tx[s].mine, d)
      BY <2>2 DEF none
    <3>4. MayWrite(r, Row(k), none)
      BY <1>1, <2>2, <3>3 DEF MayWrite, RightRow
    <3>5. GoesOn(r, next)
      BY <2>1, <3>2 DEF GoesOn
    <3> QED
      BY <1>1, <2>3, <3>1, <3>4, <3>5, TurnWrites
  <2> QED
    BY <2>4, <2>5
<1>2. CASE DeleteWrite(r)
  <2>1. tx[r].op.key \in Keys /\ tx[r].pc = "write"
    BY <1>2, OfOp DEF DeleteWrite, At, Ends
  <2>2. /\ Free(r, Row(tx[r].op.key)) /\ db' = db
        /\ tx' = [tx EXCEPT ![r] = [tx[r] EXCEPT !.pc = "reload",
                    !.mine = IF db[Row(tx[r].op.key)] = None THEN tx[r].mine
                             ELSE With(tx[r].mine, Row(tx[r].op.key), None)]]
    BY <1>0, <1>2 DEF DeleteWrite, Step, Go, IsTx
  <2> QED
    BY <1>1, <2>1, <2>2
<1>3. CASE DeleteDeploymentRow(r)
  <2>1. tx[r].cur \in Keys /\ tx[r].pc = "answered"
    BY <1>3 DEF DeleteDeploymentRow, At, DesiredInv, TxRight
  <2>2. /\ Free(r, Row(tx[r].cur)) /\ db' = db
        /\ tx' = [tx EXCEPT ![r] = [tx[r] EXCEPT !.pc = "loop",
                    !.mine = IF db[Row(tx[r].cur)] = None THEN tx[r].mine
                             ELSE With(tx[r].mine, Row(tx[r].cur), None)]]
    BY <1>0, <1>3 DEF DeleteDeploymentRow, Step, Go, IsTx
  <2> QED
    BY <1>1, <2>1, <2>2
<1> QED
  BY <1>2, <1>3

\* Environments.
LEMMA EnvironmentKeeps ==
  ASSUME DesiredInv, NEW r \in Requests, setting' = setting,
         SetHostEnvWrite(r) \/ UpsertDeploymentWrite(r)
  PROVE  DesiredInv'
<1>0. IsTx(tx[r]) /\ tx[r].todo \subseteq Keys
  BY DEF DesiredInv, TxRight
<1>1. ASSUME NEW i \in Items, NEW changes \in BOOLEAN, NEW mine, changes => Free(r, i),
             \A k \in Keys : i # Row(k), tx[r].op.env # None, tx[r].pc = "resolve",
             mine = IF changes THEN With(tx[r].mine, i, tx[r].op.env) ELSE tx[r].mine,
             tx' = [tx EXCEPT ![r] = [tx[r] EXCEPT !.pc = "list", !.mine = mine]], db' = db
      PROVE  DesiredInv'
  <2> DEFINE next == [tx[r] EXCEPT !.pc = "list", !.mine = mine]
  <2>1. /\ IsTx(next) /\ next.op = tx[r].op /\ next.pc = "list" /\ next.todo = tx[r].todo
        /\ next.mine = mine
    BY <1>0 DEF IsTx
  <2>3. tx' = [tx EXCEPT ![r] = next]
    BY <1>1
  <2> HIDE DEF next
  <2>4. CASE ~changes
    BY <1>0, <1>1, <2>1, <2>3, <2>4, TurnGoes DEF Ends
  <2>5. CASE changes
    <3>1. next.mine = With(tx[r].mine, i, tx[r].op.env)
      BY <1>1, <2>1, <2>5
    <3>2. /\ tx[r].pc \notin Ends \union {"commit"} /\ next.pc \notin Ends \union {"row", "await", "answered"}
          /\ next.todo \subseteq Keys
      BY <1>0, <1>1, <2>1 DEF Ends
    <3>3. MayWrite(r, i, tx[r].op.env)
      BY <1>1, <2>5 DEF MayWrite, RightRow
    <3>4. GoesOn(r, next)
      BY <2>1, <3>2 DEF GoesOn
    <3> QED
      BY <1>1, <2>3, <3>1, <3>3, <3>4, TurnWrites
  <2> QED
    BY <2>4, <2>5
<1>2. CASE SetHostEnvWrite(r)
  <2> DEFINE changes == setting.dialect = "sqlite" /\ tx[r].op.env # db[Host]
  <2>1. tx[r].op.env # None /\ tx[r].pc = "resolve"
    BY <1>2, OfOp, DesiredAssumption DEF SetHostEnvWrite, At, Ends
  <2>2. /\ changes => Free(r, Host)
        /\ db' = db
        /\ tx' = [tx EXCEPT ![r] = [tx[r] EXCEPT !.pc = "list",
                    !.mine = IF changes THEN With(tx[r].mine, Host, tx[r].op.env) ELSE tx[r].mine]]
    BY <1>0, <1>2 DEF SetHostEnvWrite, Step, Go, IsTx
  <2> HIDE DEF changes
  <2>3. changes \in BOOLEAN
    BY DEF changes
  <2> QED
    BY <1>1, <2>1, <2>2, <2>3, ItemsDiffer
<1>3. CASE UpsertDeploymentWrite(r)
  <2> DEFINE i == Dep(tx[r].op.dep)
             changes == db[i] # tx[r].op.env
  <2>1. tx[r].op.env # None /\ tx[r].pc = "resolve" /\ tx[r].op.dep \in Deployments
    BY <1>3, OfOp, DesiredAssumption DEF UpsertDeploymentWrite, At, Ends
  <2>2. /\ changes => Free(r, i)
        /\ db' = db
        /\ tx' = [tx EXCEPT ![r] = [tx[r] EXCEPT !.pc = "list",
                    !.mine = IF changes THEN With(tx[r].mine, i, tx[r].op.env) ELSE tx[r].mine]]
    BY <1>0, <1>3 DEF UpsertDeploymentWrite, Step, Go, IsTx
  <2>3. changes \in BOOLEAN /\ i \in Items /\ \A k \in Keys : i # Row(k)
    BY <2>1, ItemsDiffer
  <2> HIDE DEF changes, i
  <2> QED
    BY <1>1, <2>1, <2>2, <2>3
<1> QED
  BY <1>2, <1>3

\* A turn of the refresh.
LEMMA RefreshRowKeeps ==
  ASSUME DesiredInv, NEW r \in Requests, setting' = setting, RefreshRow(r)
  PROVE  DesiredInv'
<1> DEFINE k == tx[r].cur
           new == Payload(tx[r].seen, tx[r].seen[Row(k)])
           stale == tx[r].seen[Row(k)].fingerprint # new
           now == View(r)[Row(k)]
           row == [now EXCEPT !.fingerprint = new]
           mine == IF stale /\ now # None THEN With(tx[r].mine, Row(k), row) ELSE tx[r].mine
           next == [tx[r] EXCEPT !.mine = mine]
           sent == [next EXCEPT !.pc = "await", !.cur = k]
<1>1. /\ IsTx(tx[r]) /\ tx[r].todo \subseteq Keys /\ tx[r].pc = "row" /\ k \in Keys
      /\ Row(k) \in Items /\ \A d \in Deployments : Row(k) # Dep(d)
  BY ItemsDiffer DEF RefreshRow, At, DesiredInv, TxRight
<1>2. /\ IsTx(sent) /\ sent.op = tx[r].op /\ sent.todo = tx[r].todo /\ sent.mine = mine
      /\ sent.pc = "await" /\ sent.cur = k
  <2> HIDE DEF mine, k
  <2> QED
    BY <1>1 DEF IsTx
<1>3. stale => Free(r, Row(k))
  BY DEF RefreshRow
<1>4. tx' = [tx EXCEPT ![r] = sent] /\ db' = db
  BY <1>1 DEF RefreshRow, Send, Go, IsTx
<1>5. GoesOn(r, sent)
  <2> HIDE DEF sent, k
  <2> QED
    BY <1>1, <1>2 DEF GoesOn, Ends
<1>6. CASE stale /\ now # None
  <2>1. now = View(r)[Row(k)] /\ IsRow(now)
    BY <1>1, <1>6, SeenRow
  <2>2. IsRow(row) /\ row.dep = now.dep
    <3> HIDE DEF now, new
    <3> QED
      BY <2>1 DEF IsRow
  <2>3. RightRow(r, Row(k), row)
    <3> SUFFICES ASSUME NEW j \in Keys, NEW d \in Deployments, Row(k) = Row(j), row.dep = d
                 PROVE  /\ db[Dep(d)] # None
                        /\ db[Row(k)] # None => db[Row(k)].dep = d
                        /\ db[Row(k)] = None => \A s \in Requests \ {r} : ~Deletes(tx[s].mine, d)
      BY DEF RightRow
    <3> HIDE DEF row, k
    <3> QED
      BY <1>1, <1>6, <2>1, <2>2, SeenRow
  <2>4. MayWrite(r, Row(k), row)
    <3> HIDE DEF row, k, stale
    <3> QED
      BY <1>1, <1>3, <1>6, <2>2, <2>3 DEF MayWrite
  <2>5. sent.mine = With(tx[r].mine, Row(k), row)
    BY <1>2, <1>6
  <2> HIDE DEF sent, row, k
  <2> QED
    BY <1>4, <1>5, <2>4, <2>5, TurnWrites
<1>7. CASE ~(stale /\ now # None)
  <2>1. sent.mine = tx[r].mine
    BY <1>2, <1>7
  <2> HIDE DEF sent
  <2> QED
    BY <1>4, <1>5, <2>1, TurnGoes DEF GoesOn
<1> QED
  BY <1>6, <1>7

\* The deployment is destroyed.
LEMMA DeploymentKeeps ==
  ASSUME DesiredInv, NEW r \in Requests, setting' = setting, DeleteDeploymentEnd(r)
  PROVE  DesiredInv'
<1> DEFINE d == tx[r].op.dep
           orphans == {Row(k) : k \in Concerned(r)}
           mine == [i \in Mine(r) \union orphans \union {Dep(d)} |->
                      CASE i = Dep(d) -> None
                        [] i \in orphans -> [View(r)[i] EXCEPT !.dep = None]
                        [] OTHER -> tx[r].mine[i]]
           next == [tx[r] EXCEPT !.pc = "commit", !.mine = mine]
           N == [Mines EXCEPT ![r] = next.mine]
<1>1. /\ TxRight(tx[r]) /\ IsTx(tx[r]) /\ tx[r].pc = "loop" /\ tx[r].op.kind = "deleteDeployment"
      /\ d \in Deployments /\ Dep(d) \in Items /\ tx[r].op \in AnyOps
      /\ orphans \subseteq Items /\ Dep(d) \notin orphans
  BY OfOp, ConcernedKeys, ItemsDiffer DEF DeleteDeploymentEnd, At, DesiredInv, TxRight, Ends
<1>2. /\ Free(r, Dep(d)) /\ \A i \in orphans : Free(r, i)
      /\ \A s \in Requests \ {r} : ~Shares(s, d)
      /\ tx' = [tx EXCEPT ![r] = next] /\ db' = db
  BY <1>1 DEF DeleteDeploymentEnd, Step, Go, Mine, IsTx
<1>3. /\ IsTx(next) /\ next.op = tx[r].op /\ next.todo = tx[r].todo /\ next.mine = mine
      /\ next.pc = "commit"
  <2> HIDE DEF mine
  <2> QED
    BY <1>1 DEF IsTx
<1>4. /\ DOMAIN mine = DOMAIN tx[r].mine \union orphans \union {Dep(d)}
      /\ mine[Dep(d)] = None
      /\ \A i \in orphans : mine[i] = [View(r)[i] EXCEPT !.dep = None]
      /\ \A i \in DOMAIN tx[r].mine : i \notin orphans \union {Dep(d)} => mine[i] = tx[r].mine[i]
  <2> HIDE DEF orphans
  <2> QED
    BY <1>1 DEF Mine
<1>5. \A k \in Keys : View(r)[Row(k)] = Looks(db, tx[r].mine, Row(k))
  BY ItemsDiffer DEF View, Mine, Looks
<1>6. orphans = {Row(k) : k \in {j \in Keys : Looks(db, tx[r].mine, Row(j)) # None
                                               /\ Looks(db, tx[r].mine, Row(j)).dep = d}}
  BY <1>1, <1>5 DEF Concerned
<1>7. \A k \in Keys : Row(k) \in orphans => /\ IsRow(mine[Row(k)]) /\ mine[Row(k)].dep = None
  <2> TAKE k \in Keys
  <2> HAVE Row(k) \in orphans
  <2>1. View(r)[Row(k)] # None
    BY <1>5, <1>6, ItemsDiffer
  <2>2. IsRow(View(r)[Row(k)]) /\ mine[Row(k)] = [View(r)[Row(k)] EXCEPT !.dep = None]
    BY <1>4, <2>1, SeenRow
  <2> DEFINE row == View(r)[Row(k)]
  <2> HIDE DEF row, mine
  <2> QED
    BY <2>2 DEF IsRow, row
<1> HIDE DEF orphans, mine, next
<1>8. TxRight(next)
  <2>1. DOMAIN next.mine \subseteq Items
    BY <1>1, <1>3, <1>4 DEF TxRight
  <2>2. \A k \in Keys : Row(k) \in DOMAIN next.mine /\ next.mine[Row(k)] # None
                           => IsRow(next.mine[Row(k)])
    BY <1>1, <1>3, <1>4, <1>7, ItemsDiffer DEF TxRight
  <2> QED
    BY <1>1, <1>3, <2>1, <2>2 DEF TxRight, Ends
<1>9. Sound(db, N)
  <2>1. /\ \A s \in Requests : Mines[s] = tx[s].mine
        /\ \A s \in Requests \ {r} : N[s] = Mines[s]
        /\ N[r] = mine
    BY <1>3 DEF Mines
  <2>2. \A s \in Requests \ {r} : ~Inserts(db, Mines[s], d)
    BY <1>2, <2>1, ItemsDiffer DEF Shares, Inserts, Mine
  <2>3. \A s \in Requests \ {r} : Dep(d) \notin DOMAIN Mines[s] /\ \A i \in orphans : i \notin DOMAIN Mines[s]
    BY <1>2, <2>1 DEF Free, Mine
  <2>4. /\ DOMAIN Mines[r] \subseteq Items /\ \A e \in Deployments : ~Deletes(Mines[r], e)
        /\ Sound(db, Mines)
    BY <1>1, <2>1 DEF TxRight, DesiredInv
  <2>5. /\ \A i \in orphans : N[r][i] # None => N[r][i].dep = None
        /\ orphans \in SUBSET Items
    BY <1>1, <1>6, <1>7, <2>1
  <2>6. /\ \A k \in Keys : Row(k) \in orphans <=> /\ Looks(db, Mines[r], Row(k)) # None
                                                  /\ Looks(db, Mines[r], Row(k)).dep = d
        /\ \A e \in Deployments : Dep(e) \notin orphans
    BY <1>6, <2>1, ItemsDiffer
  <2>7. /\ DOMAIN N[r] = DOMAIN Mines[r] \union orphans \union {Dep(d)}
        /\ N[r][Dep(d)] = None
        /\ \A i \in DOMAIN Mines[r] : i \notin orphans \union {Dep(d)} => N[r][i] = Mines[r][i]
    BY <1>4, <2>1
  <2>8. \A s \in Requests \ {r} :
          /\ N[s] = Mines[s] /\ ~Inserts(db, Mines[s], d)
          /\ Dep(d) \notin DOMAIN Mines[s] /\ \A i \in orphans : i \notin DOMAIN Mines[s]
    BY <2>1, <2>2, <2>3
  <2>9. d \in Deployments
    BY <1>1
  <2> HIDE DEF N, d
  <2> QED
    BY <2>4, <2>5, <2>6, <2>7, <2>8, <2>9, DeletingOne
<1> QED
  BY <1>2, <1>8, <1>9, Turn

\* The commit.
LEMMA CommitKeeps ==
  ASSUME DesiredInv, NEW r \in Requests, setting' = setting, Commit(r)
  PROVE  DesiredInv'
<1> DEFINE next == Ended(r, "done")
           E == View(r)
           N == [Mines EXCEPT ![r] = next.mine]
<1>1. TxRight(next) /\ DOMAIN next.mine = {} /\ Sound(db, Mines) /\ Mines[r] = tx[r].mine
  BY EndedRight DEF DesiredInv, Mines
<1>2. tx' = [tx EXCEPT ![r] = next] /\ db' = E
  BY DEF Commit, Go
<1>3. \A i \in Items : E[i] = Looks(db, Mines[r], i)
  BY <1>1 DEF View, Mine, Looks
<1>4. Sound(E, N)
  <2>1. (\A s \in Requests \ {r} : N[s] = Mines[s]) /\ DOMAIN N[r] = {}
    BY <1>1 DEF Mines
  <2> HIDE DEF N, E
  <2> QED
    BY <1>1, <1>3, <2>1, Committing
<1>5. \A k \in Keys : E[Row(k)] # None => IsRow(E[Row(k)])
  BY SeenRow
<1>6. Mines' = N
  BY <1>2 DEF Mines, DesiredInv
<1> HIDE DEF next, E, N
<1> QED
  BY <1>1, <1>2, <1>4, <1>5, <1>6 DEF DesiredInv

\* Calls that are answered, or are not.
LEMMA AnswerKeeps ==
  ASSUME DesiredInv, NEW m \in wire, setting' = setting, MasterHandles(m)
  PROVE  DesiredInv'
<1> DEFINE r == m.req
           next == [tx[r] EXCEPT !.pc = AfterAnswer(r)]
<1>1. CASE tx' = tx
  BY <1>1 DEF MasterHandles, DesiredInv, Mines
<1>2. CASE r \notin Requests
  BY <1>1, <1>2 DEF MasterHandles, Go, DesiredInv
<1>3. CASE r \in Requests /\ tx[r].pc = "await"
  <2>1. CASE tx' = [tx EXCEPT ![r] = Ended(r, "failed")]
    BY <1>3, <2>1, TurnEnds DEF MasterHandles
  <2>2. CASE tx' = [tx EXCEPT ![r] = next]
    <3>1. IsTx(tx[r]) /\ tx[r].op \in AnyOps /\ tx[r].cur \in Keys /\ tx[r].todo \subseteq Keys
      BY <1>3 DEF DesiredInv, TxRight, Ends
    <3>2. AfterAnswer(r) \in {"commit", "loop", "answered"}
      BY <3>1 DEF AfterAnswer, AnyOps
    <3>3. /\ IsTx(next) /\ next.op = tx[r].op /\ next.mine = tx[r].mine /\ next.todo = tx[r].todo
          /\ next.cur = tx[r].cur /\ next.pc \in {"commit", "loop", "answered"}
      BY <3>1, <3>2 DEF IsTx
    <3> HIDE DEF next
    <3> QED
      BY <1>3, <2>2, <3>1, <3>3, TurnGoes DEF MasterHandles, Ends
  <2> QED
    BY <1>1, <2>1, <2>2 DEF MasterHandles, Go
<1> QED
  BY <1>1, <1>2, <1>3 DEF MasterHandles

\* Transactions that fail, one or all that are open.
LEMMA FailingKeeps ==
  ASSUME DesiredInv, setting' = setting, db' = db,
         \A r \in Requests : tx'[r] = Ended(r, "failed") \/ tx'[r] = tx[r],
         tx' = [r \in Requests |-> tx'[r]]
  PROVE  DesiredInv'
<1>1. \A r \in Requests : TxRight(Ended(r, "failed")) /\ DOMAIN Ended(r, "failed").mine = {}
  BY EndedRight
<1>2. \A r \in Requests : TxRight(tx'[r]) /\ (tx'[r].mine = tx[r].mine \/ DOMAIN tx'[r].mine = {})
  BY <1>1 DEF DesiredInv
<1>3. \A r \in Requests : Mines[r] = tx[r].mine /\ Mines'[r] = tx'[r].mine
  BY DEF Mines
<1>4. Sound(db, Mines')
  <2>1. Sound(db, Mines) /\ \A r \in Requests : Mines'[r] = Mines[r] \/ DOMAIN Mines'[r] = {}
    BY <1>2, <1>3 DEF DesiredInv
  <2> QED
    BY <2>1, Ending
<1> QED
  BY <1>2, <1>4 DEF DesiredInv

\* Every step of the server keeps the invariant.
LEMMA ServerKeeps == DesiredInv /\ ServerStep => DesiredInv'
<1> SUFFICES ASSUME DesiredInv, ServerStep PROVE DesiredInv'
  OBVIOUS
<1>0. setting' = setting
  BY DEF ServerStep
<1>1. CASE Began
  BY <1>0, <1>1, BeginKeeps DEF Began
<1>2. ASSUME NEW r \in Requests, tx' = [tx EXCEPT ![r] = Ended(r, "failed")], db' = db
      PROVE  DesiredInv'
  BY <1>0, <1>2, TurnEnds
<1>3. ASSUME NEW r \in Requests, Work(r) PROVE DesiredInv'
  <2>1. CASE DeadlockVictim(r)
    BY <1>2, <2>1 DEF DeadlockVictim, Throw, Go
  <2> QED
    BY <1>0, <1>3, <2>1, GoingKeeps, SendingKeeps, EnsureWriteKeeps, DeletingKeeps, EnvironmentKeeps,
       RefreshRowKeeps, DeploymentKeeps, CommitKeeps DEF Work
<1>4. ASSUME NEW r \in Requests, CallFails(r) PROVE DesiredInv'
  BY <1>2, <1>4 DEF CallFails, Go
<1>5. ASSUME NEW r \in Requests, CommitFails(r) PROVE DesiredInv'
  BY <1>2, <1>5 DEF CommitFails, Throw, Go
<1>6. ASSUME NEW m \in wire, MasterHandles(m) PROVE DesiredInv'
  BY <1>0, <1>6, AnswerKeeps
<1>7. CASE ServerCrash
  BY <1>0, <1>7, FailingKeeps DEF ServerCrash
<1>8. CASE MasterRestart
  BY <1>0, <1>8, FailingKeeps DEF MasterRestart
<1> QED
  BY <1>1, <1>3, <1>4, <1>5, <1>6, <1>7, <1>8 DEF ServerStep, Worked, Around

LEMMA Same == DesiredInv /\ UNCHANGED vars => DesiredInv'
BY DEF DesiredInv, vars, Mines

LEMMA InvGives == DesiredInv => DeploymentsExist
BY DEF DesiredInv, Sound, Named, DeploymentsExist

\* No committed definition names a deployment that is gone, however requests that create
\* definitions, delete them and delete deployments overlap, fail and are cut off
\* (deleteDeploymentInstance beside ensureDesiredProcess; the foreign key on
\* deployment_id), whoever uses the pages meanwhile.
THEOREM DeploymentsStay == PageSpec => []DeploymentsExist
<1>1. PageInit => DesiredInv
  BY InitDesired DEF PageInit, PaneInit
<1>2. DesiredInv /\ [PageNext]_pageVars => DesiredInv'
  BY PagesStep, ServerKeeps, Same DEF pageVars, paneVars
<1> QED
  BY <1>1, <1>2, InvGives, PTL DEF PageSpec

-----------------------------------------------------------------------------
(* Requests in turn: what the master and the fingerprints say.  V is what  *)
(* a transaction t sees of the database D, A the master's list.            *)

Seen(D, t) == [i \in Items |-> Looks(D, t.mine, i)]

MirrorAt(V, k) == IF V[Row(k)] = None THEN None ELSE Payload(V, V[Row(k)])
FreshAt(V, k) == V[Row(k)] # None => V[Row(k)].fingerprint = Payload(V, V[Row(k)])

Typed(V) ==
  /\ \A k \in Keys : V[Row(k)] \in DesiredRow \union {None}
  /\ \A d \in Deployments : V[Dep(d)] \in Envs \union {None}
  /\ V[Host] \in Envs

Ones == {"ensure", "delete"}
Refreshes == {"setHostEnv", "upsertDeployment"}

Concerns(V, op, k) == V[Row(k)] # None /\ (op.kind = "setHostEnv" \/ V[Row(k)].dep = op.dep)

\* The master has not been told of k yet.
Untold(V, t, k) ==
  \/ t.op.kind \in Ones /\ t.pc \in {"reload", "await"} /\ k = t.op.key
  \/ /\ t.op.kind \notin Ones
     /\ \/ t.pc = "list" /\ Concerns(V, t.op, k)
        \/ t.pc \in {"loop", "row", "await", "answered"} /\ k \in t.todo
        \/ t.pc \in {"row", "await", "answered"} /\ k = t.cur

\* The fingerprint of k may be that of an environment that has been replaced.
Stale(V, t, k) ==
  /\ t.op.kind \in Refreshes
  /\ \/ t.pc = "list" /\ Concerns(V, t.op, k)
     \/ t.pc \in {"loop", "row", "await"} /\ k \in t.todo
     \/ t.pc = "row" /\ k = t.cur

\* What the master is to know of: everything when nothing fails (u), otherwise what
\* the request itself has touched.
Due(u, V, t, k) ==
  \/ u
  \/ t.op.kind \in Ones /\ t.pc = "commit" /\ k = t.op.key
  \/ /\ t.op.kind \notin Ones /\ t.pc \in {"loop", "row", "await", "answered", "commit"}
     /\ Concerns(V, t.op, k)

OfEnsure(D, V, t) ==
  t.op.kind = "ensure" =>
    /\ t.pc = "write" =>
         /\ \A i \in Items : t.seen[i] = D[i]
         /\ D[Row(t.op.key)] # None => D[Row(t.op.key)].dep = t.op.dep
         /\ t.op.dep # None => D[Dep(t.op.dep)] # None
    /\ t.pc = "reload" => V[Row(t.op.key)] # None

OfDelete(V, t) == t.op.kind = "delete" /\ t.pc = "reload" => V[Row(t.op.key)] = None

OfRefresh(V, t) ==
  t.op.kind \in Refreshes /\ t.pc \in {"loop", "row", "await"} =>
    /\ t.seen[Host] = V[Host] /\ \A d \in Deployments : t.seen[Dep(d)] = V[Dep(d)]
    /\ \A k \in t.todo : V[Row(k)] = t.seen[Row(k)] /\ Concerns(V, t.op, k)
    /\ t.pc \in {"row", "await"} => t.cur \in Keys \ t.todo /\ Concerns(V, t.op, t.cur)
    /\ t.pc = "row" => V[Row(t.cur)] = t.seen[Row(t.cur)]

OfDeployment(A, V, t) ==
  t.op.kind = "deleteDeployment" /\ t.pc \in {"loop", "row", "await", "answered"} =>
    /\ \A k \in Keys : Concerns(V, t.op, k) => k \in t.todo \/ (t.pc # "loop" /\ k = t.cur)
    /\ \A k \in Keys : Row(k) \in DOMAIN t.mine => t.mine[Row(k)] = None
    /\ t.pc = "answered" => A[t.cur] = None

Told(u, A, V, t) == \A k \in Keys : Due(u, V, t, k) /\ ~Untold(V, t, k) => A[k] = MirrorAt(V, k)
Renewed(u, V, t) == u => \A k \in Keys : ~Stale(V, t, k) => FreshAt(V, k)

PhaseRight(D, A, V, t) ==
  /\ t.pc \in {"resolve", "write"} => DOMAIN t.mine = {}
  /\ t.op.kind \in Ones /\ t.pc = "await" => t.cur = t.op.key
  /\ OfEnsure(D, V, t) /\ OfDelete(V, t) /\ OfRefresh(V, t) /\ OfDeployment(A, V, t)

RightIn(u, D, A, V, t) ==
  Typed(V) /\ Told(u, A, V, t) /\ Renewed(u, V, t) /\ PhaseRight(D, A, V, t)

\* The call of a transaction that waits for its answer.
CallOf(r, V, t) ==
  [req |-> r, key |-> t.cur,
   body |-> IF t.op.kind = "deleteDeployment" THEN None ELSE MirrorAt(V, t.cur)]

Settles(u, D, A) == Typed(D) /\ (u => \A k \in Keys : FreshAt(D, k) /\ A[k] = MirrorAt(D, k))

TurnsInv ==
  InTurn =>
    /\ restarts = 0 /\ Typed(db)
    /\ Undisturbed => \A k \in Keys : FreshAt(db, k)
    /\ (\A r \in Requests : ~Open(r)) => Settles(Undisturbed, db, master)
    /\ \A r, s \in Requests : Open(r) /\ Open(s) => r = s
    /\ \A r \in Requests : Open(r) =>
          RightIn(Undisturbed, db, master, Seen(db, tx[r]), tx[r])
    /\ \A m \in wire : \E r \in Requests :
          tx[r].pc = "await" /\ m = CallOf(r, Seen(db, tx[r]), tx[r])
    /\ master = [k \in Keys |-> master[k]]

-----------------------------------------------------------------------------
(* Views.                                                                  *)

LEMMA ViewIsSeen == ASSUME NEW r \in Requests PROVE View(r) = Seen(db, tx[r])
BY DEF View, Mine, Seen, Looks

LEMMA ConcernedIs ==
  ASSUME NEW r \in Requests
  PROVE  \A k \in Keys : k \in Concerned(r) <=> Concerns(Seen(db, tx[r]), tx[r].op, k)
BY ViewIsSeen DEF Concerned, Concerns

\* A transaction that has written nothing sees the database.
LEMMA SeesAll ==
  ASSUME NEW D, NEW t, DOMAIN t.mine = {}
  PROVE  \A i \in Items : Seen(D, t)[i] = D[i]
BY DEF Seen, Looks

\* What depends on an item: nothing on other rows, the rows of a deployment on its
\* environment.
LEMMA SameAt ==
  ASSUME NEW V, NEW W, Typed(V), NEW k \in Keys, W[Row(k)] = V[Row(k)],
         V[Row(k)] # None =>
            /\ W[Host] = V[Host]
            /\ \A d \in Deployments : V[Row(k)].dep = d => W[Dep(d)] = V[Dep(d)]
  PROVE  MirrorAt(W, k) = MirrorAt(V, k) /\ (FreshAt(W, k) <=> FreshAt(V, k))
<1>1. V[Row(k)] # None => V[Row(k)].dep \in Deployments \union {None}
  BY DEF Typed, DesiredRow
<1>2. V[Row(k)] # None => Payload(W, W[Row(k)]) = Payload(V, V[Row(k)])
  BY <1>1 DEF Payload
<1> QED
  BY <1>2 DEF MirrorAt, FreshAt

LEMMA SameView ==
  ASSUME NEW V, NEW W, Typed(V), \A i \in Items : W[i] = V[i]
  PROVE  /\ Typed(W)
         /\ \A k \in Keys : MirrorAt(W, k) = MirrorAt(V, k) /\ (FreshAt(W, k) <=> FreshAt(V, k))
         /\ \A op, k : k \in Keys => (Concerns(W, op, k) <=> Concerns(V, op, k))
BY SameAt, ItemsDiffer DEF Typed, Concerns

\* Another row is written.
LEMMA OtherRow ==
  ASSUME NEW V, NEW W, Typed(V), NEW k \in Keys, \A i \in Items \ {Row(k)} : W[i] = V[i],
         W[Row(k)] \in DesiredRow \union {None}
  PROVE  /\ Typed(W)
         /\ \A j \in Keys \ {k} : MirrorAt(W, j) = MirrorAt(V, j) /\ (FreshAt(W, j) <=> FreshAt(V, j))
         /\ \A op, j : j \in Keys \ {k} => (Concerns(W, op, j) <=> Concerns(V, op, j))
BY SameAt, ItemsDiffer DEF Typed, Concerns

LEMMA PayloadTyped ==
  ASSUME NEW V, Typed(V), NEW row, row.def \in Defs, row.dep \in Deployments \union {None}
  PROVE  Payload(V, row) \in Payloads
BY DEF Typed, Payload, Payloads

-----------------------------------------------------------------------------
(* Steps.                                                                  *)

LEMMA SameSetting == setting' = setting => InTurn' = InTurn /\ Undisturbed' = Undisturbed
<1> SUFFICES ASSUME setting' = setting PROVE InTurn' = InTurn /\ Undisturbed' = Undisturbed
  OBVIOUS
<1>1. InTurn' = InTurn
  BY DEF InTurn
<1>2. Undisturbed' = Undisturbed
  BY DEF InTurn, Undisturbed
<1> QED
  BY <1>1, <1>2

\* While a request does not wait for an answer no call is on its way.
LEMMA NoCall ==
  ASSUME TurnsInv, InTurn, NEW r \in Requests, Open(r), tx[r].pc # "await"
  PROVE  wire = {}
BY DEF TurnsInv, Open

\* The transaction that is open goes on.
LEMMA InTurnGoes ==
  ASSUME DesiredInv, TurnsInv, InTurn, NEW r \in Requests, Open(r), NEW next,
         tx' = [tx EXCEPT ![r] = next], next.pc \notin Ends,
         setting' = setting, restarts' = restarts, db' = db,
         master' = [k \in Keys |-> master'[k]],
         RightIn(Undisturbed, db, master', Seen(db, next), next),
         \A m \in wire' : next.pc = "await" /\ m = CallOf(r, Seen(db, next), next)
  PROVE  TurnsInv'
<1>1. tx'[r] = next /\ \A s \in Requests \ {r} : tx'[s] = tx[s] /\ ~Open(s)
  BY DEF DesiredInv, TurnsInv
<1>2. Open(r)' /\ \A s \in Requests \ {r} : ~Open(s)'
  BY <1>1 DEF Open, Ends
<1>3. restarts = 0 /\ Typed(db) /\ (Undisturbed => \A k \in Keys : FreshAt(db, k))
  BY DEF TurnsInv
<1>4. \A m \in wire' : m = CallOf(r, Seen(db', tx'[r]), tx'[r]) /\ tx'[r].pc = "await"
  BY <1>1
<1>5. RightIn(Undisturbed', db', master', Seen(db', tx'[r]), tx'[r])
  BY <1>1, SameSetting
<1>6. Undisturbed' => Undisturbed
  BY SameSetting
<1> QED
  BY <1>2, <1>3, <1>4, <1>5, <1>6 DEF TurnsInv

\* It ends.
LEMMA InTurnEnds ==
  ASSUME DesiredInv, TurnsInv, InTurn, NEW r \in Requests, Open(r), NEW how \in {"done", "failed"},
         tx' = [tx EXCEPT ![r] = Ended(r, how)],
         setting' = setting, restarts' = restarts, wire' = {},
         master' = [k \in Keys |-> master'[k]], Settles(Undisturbed, db', master')
  PROVE  TurnsInv'
<1>1. tx'[r].pc = how /\ \A s \in Requests \ {r} : tx'[s] = tx[s] /\ ~Open(s)
  BY DEF DesiredInv, TurnsInv, Ended, Idle
<1>2. \A s \in Requests : ~Open(s)'
  BY <1>1 DEF Open
<1>3. restarts = 0
  BY DEF TurnsInv
<1>4. Settles(Undisturbed', db', master')
  BY SameSetting
<1> QED
  BY <1>2, <1>3, <1>4 DEF TurnsInv, Settles

\* The first request, or the next.
LEMMA InTurnBegins ==
  ASSUME DesiredInv, TurnsInv, InTurn, NEW r \in Requests, NEW op \in Ops, Begin(r, op),
         setting' = setting
  PROVE  TurnsInv'
<1> DEFINE opened == {s \in Requests : Open(s)}
           next == [tx[r] EXCEPT !.pc = "resolve", !.op = op]
<1>1. opened = {}
  <2>1. ASSUME NEW s \in opened PROVE FALSE
    <3>1. opened = {s}
      BY <2>1 DEF TurnsInv
    <3>2. Cardinality(opened) = 1
      BY <3>1, FS_Singleton
    <3>3. Cardinality(opened) < 1
      BY DEF Begin, InTurn
    <3> QED
      BY <3>2, <3>3
  <2> QED
    BY <2>1
<1>2. \A s \in Requests : ~Open(s)
  BY <1>1
<1>3. /\ IsTx(tx[r]) /\ DOMAIN tx[r].mine = {} /\ tx' = [tx EXCEPT ![r] = next]
      /\ UNCHANGED <<db, wire, master, restarts>>
  BY <1>2 DEF DesiredInv, TxRight, Begin, Step, Go, Open, Ends
<1>4. next.mine = tx[r].mine /\ next.op = op /\ next.pc = "resolve" /\ op \in AnyOps
  BY <1>3, OpsAreKnown DEF IsTx, DesiredInv
<1>5. Settles(Undisturbed, db, master) /\ restarts = 0
  BY <1>2 DEF TurnsInv
<1>6. wire = {}
  BY <1>2 DEF TurnsInv, Open
<1>7. RightIn(Undisturbed, db, master, Seen(db, next), next)
  <2> DEFINE V == Seen(db, next)
  <2> HIDE DEF next
  <2>1. \A i \in Items : V[i] = db[i]
    BY <1>3, <1>4, SeesAll
  <2> HIDE DEF V
  <2>2. /\ Typed(V)
        /\ \A k \in Keys : MirrorAt(V, k) = MirrorAt(db, k) /\ (FreshAt(V, k) <=> FreshAt(db, k))
    BY <1>5, <2>1, SameView DEF Settles
  <2>3. \A k \in Keys : ~Stale(V, next, k) /\ (Due(Undisturbed, V, next, k) => Undisturbed)
    BY <1>4 DEF Stale, Due
  <2>4. Told(Undisturbed, master, V, next) /\ Renewed(Undisturbed, V, next)
    BY <1>5, <2>2, <2>3 DEF Told, Renewed, Settles
  <2>5. OfEnsure(db, V, next) /\ OfDelete(V, next) /\ OfRefresh(V, next) /\ OfDeployment(master, V, next)
    BY <1>4 DEF OfEnsure, OfDelete, OfRefresh, OfDeployment
  <2>6. /\ next.pc \in {"resolve", "write"} => DOMAIN next.mine = {}
        /\ next.op.kind \in Ones /\ next.pc = "await" => next.cur = next.op.key
    BY <1>3, <1>4
  <2> QED
    BY <2>2, <2>4, <2>5, <2>6 DEF RightIn, PhaseRight, V
<1> HIDE DEF next
<1>8. /\ tx'[r] = next /\ \A s \in Requests \ {r} : tx'[s] = tx[s]
      /\ InTurn' /\ Undisturbed' = Undisturbed
  BY <1>3, SameSetting DEF DesiredInv
<1>9. Open(r)' /\ \A s \in Requests \ {r} : ~Open(s)'
  BY <1>2, <1>4, <1>8 DEF Open
<1>10. RightIn(Undisturbed', db', master', Seen(db', tx'[r]), tx'[r])
  BY <1>3, <1>7, <1>8
<1>11. master = [k \in Keys |-> master[k]]
  BY DEF TurnsInv
<1> QED
  BY <1>3, <1>5, <1>6, <1>8, <1>9, <1>10, <1>11 DEF TurnsInv, Settles

LEMMA InitTurns == Init => TurnsInv
<1> SUFFICES ASSUME Init PROVE TurnsInv
  OBVIOUS
<1> USE ItemsDiffer, DesiredAssumption
<1>1. setting \in SettingKinds /\ wire = {} /\ restarts = 0 /\ master = Mirror(db)
  BY DEF Init
<1>2. \A r \in Requests : ~Open(r)
  BY DEF Init, Idle, Open
<1>3. PICK rows \in [Keys -> [def : setting.defs, dep : Deployments \union {None}] \union {None}],
           env \in setting.envs, deps \in [Deployments -> setting.envs \union {None}] :
         db = Settled(rows, env, deps)
  BY DEF Init
<1>4. /\ \A d \in Deployments : db[Dep(d)] = deps[d] /\ deps[d] \in Envs \union {None}
      /\ db[Host] = env /\ env \in Envs
  BY <1>1, <1>3 DEF Settled, Dep, Host, SettingKinds
<1>5. \A k \in Keys : \/ db[Row(k)] = None
                      \/ db[Row(k)] \in DesiredRow /\ db[Row(k)].fingerprint = Payload(db, db[Row(k)])
  <2> TAKE k \in Keys
  <2> DEFINE base == [i \in Items |-> CASE i[1] = "row" -> rows[i[2]]
                                        [] i[1] = "deployment" -> deps[i[2]]
                                        [] OTHER -> env]
             fresh == [def |-> rows[k].def, dep |-> rows[k].dep,
                       fingerprint |-> Payload(base, rows[k])]
  <2>1. CASE rows[k] = None
    BY <1>3, <2>1 DEF Settled, Row
  <2>2. CASE rows[k] # None
    <3>1. db[Row(k)] = fresh
      BY <1>3, <2>2 DEF Settled, Row
    <3>2. rows[k].def \in Defs /\ rows[k].dep \in Deployments \union {None}
      BY <1>1, <2>2 DEF SettingKinds
    <3>3. base[Host] = env /\ \A d \in Deployments : base[Dep(d)] = deps[d]
      BY DEF Dep, Host
    <3> HIDE DEF base
    <3>4. Payload(base, rows[k]) = Payload(db, fresh)
      BY <1>4, <3>2, <3>3 DEF Payload
    <3>5. Payload(base, rows[k]) \in Payloads
      BY <1>4, <3>2, <3>3 DEF Payload, Payloads
    <3> QED
      BY <3>1, <3>2, <3>4, <3>5 DEF DesiredRow
  <2> QED
    BY <2>1, <2>2
<1>6. Typed(db) /\ \A k \in Keys : FreshAt(db, k)
  BY <1>4, <1>5 DEF Typed, FreshAt
<1>7. master = [k \in Keys |-> master[k]] /\ \A k \in Keys : master[k] = MirrorAt(db, k)
  BY <1>1 DEF Mirror, MirrorAt
<1> QED
  BY <1>1, <1>2, <1>6, <1>7 DEF TurnsInv, Settles

-----------------------------------------------------------------------------
(* One action after the other.                                             *)

LEMMA OfOpen ==
  ASSUME DesiredInv, TurnsInv, InTurn, NEW r \in Requests, Open(r)
  PROVE  /\ IsTx(tx[r]) /\ tx[r].op \in AnyOps /\ tx[r].todo \subseteq Keys
         /\ DOMAIN tx[r].mine \subseteq Items
         /\ RightIn(Undisturbed, db, master, Seen(db, tx[r]), tx[r])
         /\ Typed(db) /\ master = [k \in Keys |-> master[k]]
BY DEF DesiredInv, TxRight, TurnsInv, Open, Ends

\* A request that has written nothing ends.
LEMMA EndsEarly ==
  ASSUME DesiredInv, TurnsInv, InTurn, NEW r \in Requests, tx[r].pc \in {"resolve", "write"},
         NEW how \in {"done", "failed"}, tx' = [tx EXCEPT ![r] = Ended(r, how)],
         setting' = setting, UNCHANGED <<db, wire, master, restarts>>
  PROVE  TurnsInv'
<1> DEFINE t == tx[r]
           V == Seen(db, t)
<1>1. Open(r) /\ wire = {}
  BY NoCall DEF Open
<1>2. /\ Typed(V) /\ Told(Undisturbed, master, V, t) /\ Renewed(Undisturbed, V, t)
      /\ Typed(db) /\ DOMAIN t.mine = {} /\ master = [k \in Keys |-> master[k]]
  BY <1>1, OfOpen DEF RightIn, PhaseRight
<1>3. \A i \in Items : db[i] = V[i]
  BY <1>2, SeesAll
<1>4. \A k \in Keys : ~Untold(V, t, k) /\ ~Stale(V, t, k)
  BY DEF Untold, Stale
<1> HIDE DEF V, t
<1>5. \A k \in Keys : MirrorAt(db, k) = MirrorAt(V, k) /\ (FreshAt(db, k) <=> FreshAt(V, k))
  BY <1>2, <1>3, SameView
<1>6. Settles(Undisturbed, db, master)
  BY <1>2, <1>4, <1>5 DEF Settles, Told, Renewed, Due
<1> QED
  BY <1>1, <1>2, <1>6, InTurnEnds

\* It goes on and writes nothing: nothing is expected to be told or renewed that was not before.
Steady(u, V, t, next) ==
  \A k \in Keys :
    /\ Due(u, V, next, k) /\ ~Untold(V, next, k) => Due(u, V, t, k) /\ ~Untold(V, t, k)
    /\ Stale(V, t, k) => Stale(V, next, k)

LEMMA GoesSteadily ==
  ASSUME DesiredInv, TurnsInv, InTurn, NEW r \in Requests, Open(r), NEW next,
         tx' = [tx EXCEPT ![r] = next], next.pc \notin Ends, next.mine = tx[r].mine,
         setting' = setting, UNCHANGED <<db, master, restarts>>,
         Steady(Undisturbed, Seen(db, tx[r]), tx[r], next),
         PhaseRight(db, master, Seen(db, tx[r]), next),
         \A m \in wire' : next.pc = "await" /\ m = CallOf(r, Seen(db, tx[r]), next)
  PROVE  TurnsInv'
<1> DEFINE V == Seen(db, tx[r])
<1>1. /\ Typed(V) /\ Told(Undisturbed, master, V, tx[r]) /\ Renewed(Undisturbed, V, tx[r])
      /\ master' = [k \in Keys |-> master'[k]]
  BY OfOpen DEF RightIn
<1>2. Seen(db, next) = V
  BY DEF Seen
<1> HIDE DEF V
<1>3. RightIn(Undisturbed, db, master, V, next)
  BY <1>1 DEF RightIn, Steady, Told, Renewed, V
<1>4. \A m \in wire' : next.pc = "await" /\ m = CallOf(r, V, next)
  BY DEF V
<1> QED
  BY <1>1, <1>2, <1>3, <1>4, InTurnGoes

LEMMA EnsureResolveTurns ==
  ASSUME DesiredInv, TurnsInv, InTurn, NEW r \in Requests, setting' = setting, EnsureResolve(r)
  PROVE  TurnsInv'
<1> DEFINE t == tx[r]
           V == Seen(db, t)
           next == [t EXCEPT !.pc = "write", !.seen = View(r)]
<1>1. t.pc = "resolve" /\ t.op.kind = "ensure" /\ Open(r) /\ wire = {}
  BY NoCall DEF EnsureResolve, At, Open
<1>2. IsTx(t) /\ DOMAIN t.mine = {} /\ t.op.key \in Keys /\ t.op.dep \in Deployments \union {None}
  BY <1>1, OfOpen, OfOp DEF RightIn, PhaseRight, Ends
<1>3. CASE Throw(r)
  BY <1>1, <1>3, EndsEarly DEF Throw, Go
<1>4. CASE ~Throw(r)
  <2>1. /\ t.op.dep # None => db[Dep(t.op.dep)] # None
        /\ View(r)[Row(t.op.key)] # None => View(r)[Row(t.op.key)].dep = t.op.dep
        /\ tx' = [tx EXCEPT ![r] = next] /\ UNCHANGED <<db, wire, master, restarts>>
    BY <1>4 DEF EnsureResolve, Step, Go
  <2>2. /\ next.pc = "write" /\ next.op = t.op /\ next.mine = t.mine /\ next.seen = V
    BY <1>2, ViewIsSeen DEF IsTx
  <2>3. \A i \in Items : V[i] = db[i]
    BY <1>2, SeesAll
  <2> HIDE DEF next
  <2>4. Steady(Undisturbed, V, t, next)
    BY <1>1, <2>2 DEF Steady, Due, Untold, Stale
  <2>5. PhaseRight(db, master, V, next)
    <3> HIDE DEF V
    <3>1. db[Row(t.op.key)] # None => db[Row(t.op.key)].dep = t.op.dep
      BY <1>2, <2>1, <2>3, ItemsDiffer, ViewIsSeen DEF V
    <3> QED
      BY <1>1, <1>2, <2>1, <2>2, <2>3, <3>1
      DEF PhaseRight, OfEnsure, OfDelete, OfRefresh, OfDeployment
  <2> QED
    BY <1>1, <2>1, <2>2, <2>4, <2>5, GoesSteadily DEF Ends
<1> QED
  BY <1>3, <1>4

LEMMA DeleteResolveTurns ==
  ASSUME DesiredInv, TurnsInv, InTurn, NEW r \in Requests, setting' = setting, DeleteResolve(r)
  PROVE  TurnsInv'
<1> DEFINE t == tx[r]
           V == Seen(db, t)
           next == [t EXCEPT !.pc = "write"]
<1>1. t.pc = "resolve" /\ t.op.kind = "delete" /\ Open(r) /\ wire = {}
  BY NoCall DEF DeleteResolve, At, Open
<1>2. IsTx(t) /\ DOMAIN t.mine = {}
  BY <1>1, OfOpen DEF RightIn, PhaseRight
<1>3. UNCHANGED <<db, wire, master, restarts>>
  BY DEF DeleteResolve, Step
<1>4. CASE tx' = [tx EXCEPT ![r] = Ended(r, "done")]
  BY <1>1, <1>3, <1>4, EndsEarly
<1>5. CASE tx' = [tx EXCEPT ![r] = next]
  <2>1. next.pc = "write" /\ next.op = t.op /\ next.mine = t.mine
    BY <1>2 DEF IsTx
  <2> HIDE DEF next
  <2>2. Steady(Undisturbed, V, t, next)
    BY <1>1, <2>1 DEF Steady, Due, Untold, Stale
  <2>3. PhaseRight(db, master, V, next)
    BY <1>1, <1>2, <2>1 DEF PhaseRight, OfEnsure, OfDelete, OfRefresh, OfDeployment
  <2> QED
    BY <1>1, <1>3, <1>5, <2>1, <2>2, <2>3, GoesSteadily DEF Ends
<1> QED
  BY <1>4, <1>5 DEF DeleteResolve, Step, Go

LEMMA RefreshListTurns ==
  ASSUME DesiredInv, TurnsInv, InTurn, NEW r \in Requests, setting' = setting, RefreshList(r)
  PROVE  TurnsInv'
<1> DEFINE t == tx[r]
           V == Seen(db, t)
           next == [t EXCEPT !.pc = "loop", !.seen = View(r), !.todo = Concerned(r)]
<1>1. t.pc = "list" /\ t.op.kind \in Refreshes /\ Open(r) /\ wire = {}
  BY NoCall DEF RefreshList, At, Open, Refreshes
<1>2. /\ tx' = [tx EXCEPT ![r] = next] /\ UNCHANGED <<db, wire, master, restarts>>
      /\ IsTx(t)
  BY <1>1, OfOpen DEF RefreshList, Step, Go
<1>3. next.pc = "loop" /\ next.op = t.op /\ next.mine = t.mine /\ next.seen = V /\ next.todo = Concerned(r)
  BY <1>2, ViewIsSeen DEF IsTx
<1>4. \A k \in Keys : k \in next.todo <=> Concerns(V, t.op, k)
  BY <1>3, ConcernedIs
<1>5. next.todo \subseteq Keys
  BY <1>3, ConcernedKeys
<1> HIDE DEF next, V
<1>6. Steady(Undisturbed, V, t, next)
  BY <1>1, <1>3, <1>4 DEF Steady, Due, Untold, Stale, Refreshes, Ones
<1>7. PhaseRight(db, master, V, next)
  BY <1>1, <1>3, <1>4, <1>5 DEF PhaseRight, OfEnsure, OfDelete, OfRefresh, OfDeployment, Refreshes, Ones
<1> QED
  BY <1>1, <1>2, <1>3, <1>6, <1>7, GoesSteadily DEF Ends, V

LEMMA NextRowTurns ==
  ASSUME DesiredInv, TurnsInv, InTurn, NEW r \in Requests, setting' = setting,
         NEW k \in Keys, NextRow(r, k)
  PROVE  TurnsInv'
<1> DEFINE t == tx[r]
           V == Seen(db, t)
           next == [t EXCEPT !.pc = "row", !.cur = k, !.todo = @ \ {k}]
<1>1. /\ t.pc = "loop" /\ t.op.kind \in Refreshes \union {"deleteDeployment"} /\ Open(r) /\ wire = {}
      /\ k \in t.todo
  BY NoCall DEF NextRow, At, Open, Refreshes
<1>2. /\ tx' = [tx EXCEPT ![r] = next] /\ UNCHANGED <<db, wire, master, restarts>>
      /\ IsTx(t) /\ t.todo \subseteq Keys /\ PhaseRight(db, master, V, t)
  BY <1>1, OfOpen DEF NextRow, Step, Go, RightIn
<1>3. /\ next.pc = "row" /\ next.op = t.op /\ next.mine = t.mine /\ next.seen = t.seen
      /\ next.todo = t.todo \ {k} /\ next.cur = k
  BY <1>2 DEF IsTx
<1> HIDE DEF next, V
<1>4. Steady(Undisturbed, V, t, next)
  BY <1>1, <1>3 DEF Steady, Due, Untold, Stale, Refreshes, Ones
<1>5. PhaseRight(db, master, V, next)
  <2>1. OfRefresh(V, next)
    BY <1>1, <1>2, <1>3 DEF PhaseRight, OfRefresh
  <2>2. OfDeployment(master, V, next)
    BY <1>1, <1>2, <1>3 DEF PhaseRight, OfDeployment
  <2> QED
    BY <1>1, <1>3, <2>1, <2>2 DEF PhaseRight, OfEnsure, OfDelete, Refreshes, Ones
<1> QED
  BY <1>1, <1>2, <1>3, <1>4, <1>5, GoesSteadily DEF Ends, V

LEMMA RefreshEndTurns ==
  ASSUME DesiredInv, TurnsInv, InTurn, NEW r \in Requests, setting' = setting, RefreshEnd(r)
  PROVE  TurnsInv'
<1> DEFINE t == tx[r]
           V == Seen(db, t)
           next == [t EXCEPT !.pc = "commit"]
<1>1. t.pc = "loop" /\ t.op.kind \in Refreshes /\ Open(r) /\ wire = {} /\ t.todo = {}
  BY NoCall DEF RefreshEnd, At, Open, Refreshes
<1>2. /\ tx' = [tx EXCEPT ![r] = next] /\ UNCHANGED <<db, wire, master, restarts>>
      /\ IsTx(t)
  BY <1>1, OfOpen DEF RefreshEnd, Step, Go
<1>3. next.pc = "commit" /\ next.op = t.op /\ next.mine = t.mine
  BY <1>2 DEF IsTx
<1> HIDE DEF next, V
<1>4. Steady(Undisturbed, V, t, next)
  BY <1>1, <1>3 DEF Steady, Due, Untold, Stale, Refreshes, Ones
<1>5. PhaseRight(db, master, V, next)
  BY <1>1, <1>3 DEF PhaseRight, OfEnsure, OfDelete, OfRefresh, OfDeployment, Refreshes, Ones
<1> QED
  BY <1>1, <1>2, <1>3, <1>4, <1>5, GoesSteadily DEF Ends, V

LEMMA DeploymentListTurns ==
  ASSUME DesiredInv, TurnsInv, InTurn, NEW r \in Requests, setting' = setting, DeleteDeploymentList(r)
  PROVE  TurnsInv'
<1> DEFINE t == tx[r]
           V == Seen(db, t)
           next == [t EXCEPT !.pc = "loop", !.todo = Concerned(r)]
<1>1. t.pc = "resolve" /\ t.op.kind = "deleteDeployment" /\ Open(r) /\ wire = {}
  BY NoCall DEF DeleteDeploymentList, At, Open
<1>2. IsTx(t) /\ DOMAIN t.mine = {} /\ UNCHANGED <<db, wire, master, restarts>>
  BY <1>1, OfOpen DEF DeleteDeploymentList, Step, Throw, RightIn, PhaseRight
<1>3. ASSUME NEW how \in {"done", "failed"}, tx' = [tx EXCEPT ![r] = Ended(r, how)]
      PROVE  TurnsInv'
  BY <1>1, <1>2, <1>3, EndsEarly
<1>4. CASE tx' = [tx EXCEPT ![r] = next]
  <2>1. next.pc = "loop" /\ next.op = t.op /\ next.mine = t.mine /\ next.todo = Concerned(r)
    BY <1>2 DEF IsTx
  <2>2. \A k \in Keys : k \in next.todo <=> Concerns(V, t.op, k)
    BY <2>1, ConcernedIs
  <2> HIDE DEF next, V
  <2>3. Steady(Undisturbed, V, t, next)
    BY <1>1, <2>1, <2>2 DEF Steady, Due, Untold, Stale, Refreshes, Ones
  <2>4. PhaseRight(db, master, V, next)
    BY <1>1, <1>2, <2>1, <2>2 DEF PhaseRight, OfEnsure, OfDelete, OfRefresh, OfDeployment, Refreshes, Ones
  <2> QED
    BY <1>1, <1>2, <1>4, <2>1, <2>3, <2>4, GoesSteadily DEF Ends, V
<1> QED
  BY <1>3, <1>4 DEF DeleteDeploymentList, Step, Throw, Go

\* It writes a row, or leaves it as it is.
SteadyBut(u, k, V, t, W, next) ==
  \A j \in Keys \ {k} :
    /\ Due(u, W, next, j) /\ ~Untold(W, next, j) => Due(u, V, t, j) /\ ~Untold(V, t, j)
    /\ Stale(V, t, j) => Stale(W, next, j)

LEMMA GoesWithRow ==
  ASSUME DesiredInv, TurnsInv, InTurn, NEW r \in Requests, Open(r), NEW next, NEW k \in Keys, NEW V, NEW W,
         V = Seen(db, tx[r]), W = Seen(db, next),
         tx' = [tx EXCEPT ![r] = next], next.pc \notin Ends,
         setting' = setting, UNCHANGED <<db, master, restarts>>,
         \A i \in Items \ {Row(k)} : W[i] = V[i], W[Row(k)] \in DesiredRow \union {None},
         SteadyBut(Undisturbed, k, V, tx[r], W, next),
         Due(Undisturbed, W, next, k) => Untold(W, next, k) \/ master[k] = MirrorAt(W, k),
         Undisturbed => FreshAt(W, k),
         PhaseRight(db, master, W, next),
         \A m \in wire' : next.pc = "await" /\ m = CallOf(r, W, next)
  PROVE  TurnsInv'
<1>1. /\ Typed(V) /\ Told(Undisturbed, master, V, tx[r]) /\ Renewed(Undisturbed, V, tx[r])
      /\ master' = [j \in Keys |-> master'[j]]
  BY OfOpen DEF RightIn
<1>2. /\ Typed(W)
      /\ \A j \in Keys \ {k} : MirrorAt(W, j) = MirrorAt(V, j) /\ (FreshAt(W, j) <=> FreshAt(V, j))
  BY <1>1, OtherRow
<1>3. Told(Undisturbed, master, W, next)
  BY <1>1, <1>2 DEF Told, SteadyBut
<1>4. Renewed(Undisturbed, W, next)
  BY <1>1, <1>2 DEF Renewed, SteadyBut
<1>5. RightIn(Undisturbed, db, master, W, next)
  BY <1>2, <1>3, <1>4 DEF RightIn
<1> QED
  BY <1>1, <1>5, InTurnGoes

LEMMA EnsureWriteTurns ==
  ASSUME DesiredInv, TurnsInv, InTurn, NEW r \in Requests, setting' = setting, EnsureWrite(r)
  PROVE  TurnsInv'
<1> DEFINE t == tx[r]
           V == Seen(db, t)
           i == Row(t.op.key)
           read == t.seen[i]
           same == [t EXCEPT !.pc = "reload"]
           wrote(row) == [t EXCEPT !.pc = "reload", !.mine = With(@, i, row)]
<1>1. t.pc = "write" /\ t.op.kind = "ensure" /\ Open(r) /\ wire = {}
  BY NoCall DEF EnsureWrite, At, Open
<1>2. /\ IsTx(t) /\ DOMAIN t.mine = {} /\ OfEnsure(db, V, t) /\ Typed(db)
      /\ t.op.key \in Keys /\ t.op.def \in Defs /\ t.op.dep \in Deployments \union {None}
  BY <1>1, OfOpen DEF RightIn, PhaseRight, AnyOps
<1>3. /\ \A j \in Items : V[j] = db[j] /\ t.seen[j] = db[j]
      /\ i \in Items /\ V[i] = db[i] /\ read = db[i]
  BY <1>1, <1>2, SeesAll, ItemsDiffer DEF OfEnsure
<1>4. /\ db[i] # None => db[i].dep = t.op.dep
      /\ t.op.dep # None => db[Dep(t.op.dep)] # None
      /\ db[i] \in DesiredRow \union {None}
  BY <1>1, <1>2 DEF OfEnsure, Typed
<1>5. /\ UNCHANGED <<db, wire, master, restarts>>
      /\ \/ tx' = [tx EXCEPT ![r] = same] /\ read # None
         \/ tx' = [tx EXCEPT ![r] = wrote(UpdatedRow(r))] /\ read # None
         \/ tx' = [tx EXCEPT ![r] = wrote(NewRow(r))] /\ read = None
  BY <1>3, <1>4 DEF EnsureWrite, Step, Throw, Go
<1>6. CASE tx' = [tx EXCEPT ![r] = same] /\ read # None
  <2>1. same.pc = "reload" /\ same.op = t.op /\ same.mine = t.mine
    BY <1>2 DEF IsTx
  <2>2. V[Row(t.op.key)] # None
    BY <1>3, <1>6
  <2> HIDE DEF same, V
  <2>3. Steady(Undisturbed, V, t, same)
    BY <1>1, <2>1 DEF Steady, Due, Untold, Stale, Refreshes, Ones
  <2>4. PhaseRight(db, master, V, same)
    BY <1>1, <2>1, <2>2 DEF PhaseRight, OfEnsure, OfDelete, OfRefresh, OfDeployment, Refreshes, Ones
  <2> QED
    BY <1>1, <1>5, <1>6, <2>1, <2>3, <2>4, GoesSteadily DEF Ends, V
<1>7. ASSUME NEW row \in DesiredRow, row.def = t.op.def, row.dep = t.op.dep,
             row.fingerprint = Payload(t.seen, [def |-> t.op.def, dep |-> t.op.dep]),
             tx' = [tx EXCEPT ![r] = wrote(row)]
      PROVE  TurnsInv'
  <2> DEFINE next == wrote(row)
             W == Seen(db, next)
             k == t.op.key
  <2>1. next.pc = "reload" /\ next.op = t.op /\ next.mine = With(t.mine, Row(k), row)
    BY <1>2 DEF IsTx
  <2>2. tx' = [tx EXCEPT ![r] = next]
    BY <1>7
  <2> HIDE DEF next
  <2>3. W[Row(k)] = row /\ \A j \in Items \ {Row(k)} : W[j] = V[j]
    <3> HIDE DEF k
    <3>1. Row(k) \in Items
      BY <1>3 DEF k
    <3> QED
      BY <2>1, <3>1 DEF Seen, Looks, With
  <2>4. row # None
    BY RowAssumption
  <2>5. /\ W[Host] = t.seen[Host]
        /\ \A d \in Deployments : W[Dep(d)] = t.seen[Dep(d)]
    BY <1>2, <1>3, <2>3, ItemsDiffer
  <2> HIDE DEF W, V, k
  <2>6. FreshAt(W, k)
    BY <1>2, <1>7, <2>3, <2>5 DEF FreshAt, Payload
  <2>7. SteadyBut(Undisturbed, k, V, t, W, next) /\ Untold(W, next, k)
    BY <1>1, <2>1 DEF SteadyBut, Due, Untold, Stale, Refreshes, Ones, k
  <2>8. PhaseRight(db, master, W, next)
    BY <1>1, <2>1, <2>3, <2>4
    DEF PhaseRight, OfEnsure, OfDelete, OfRefresh, OfDeployment, Refreshes, Ones, k
  <2>9. k \in Keys
    BY <1>2 DEF k
  <2> QED
    BY <1>1, <1>5, <2>1, <2>2, <2>3, <2>6, <2>7, <2>8, <2>9, GoesWithRow DEF Ends, V, W
<1>8. /\ \A d \in Deployments : t.seen[Dep(d)] = db[Dep(d)]
      /\ t.seen[Host] = db[Host]
  BY <1>3, ItemsDiffer
<1> DEFINE print == Payload(t.seen, [def |-> t.op.def, dep |-> t.op.dep])
<1>9. print \in Payloads
  BY <1>2, <1>8 DEF Payload, Payloads, Typed
<1>10. CASE tx' = [tx EXCEPT ![r] = wrote(NewRow(r))]
  <2>1. NewRow(r) = [def |-> t.op.def, dep |-> t.op.dep, fingerprint |-> print]
    BY DEF NewRow
  <2> DEFINE row == NewRow(r)
  <2> HIDE DEF print, wrote
  <2>2. row \in DesiredRow /\ row.def = t.op.def /\ row.dep = t.op.dep /\ row.fingerprint = print
    BY <1>2, <1>9, <2>1 DEF DesiredRow
  <2> HIDE DEF row
  <2>3. tx' = [tx EXCEPT ![r] = wrote(row)]
    BY <1>10 DEF row
  <2> QED
    BY <1>7, <2>2, <2>3 DEF print
<1>11. CASE tx' = [tx EXCEPT ![r] = wrote(UpdatedRow(r))] /\ read # None
  <2>1. NewRow(r) = [def |-> t.op.def, dep |-> t.op.dep, fingerprint |-> print]
    BY DEF NewRow
  <2>2. db[i] \in DesiredRow /\ read = db[i] /\ db[i].dep = t.op.dep
    BY <1>3, <1>4, <1>11
  <2> DEFINE row == UpdatedRow(r)
             now == db[i]
  <2> HIDE DEF print, wrote
  <2>3. row = [now EXCEPT !.def = IF t.op.def = now.def THEN now.def ELSE t.op.def,
                          !.fingerprint = IF print = now.fingerprint THEN now.fingerprint ELSE print]
    BY <2>1, <2>2 DEF UpdatedRow, DesiredRow
  <2> HIDE DEF now, row
  <2>4. row \in DesiredRow /\ row.def = t.op.def /\ row.dep = t.op.dep /\ row.fingerprint = print
    BY <1>2, <1>9, <2>2, <2>3 DEF DesiredRow, now
  <2>5. tx' = [tx EXCEPT ![r] = wrote(row)]
    BY <1>11 DEF row
  <2> QED
    BY <1>7, <2>4, <2>5 DEF print
<1> QED
  BY <1>5, <1>6, <1>10, <1>11

\* A row is destroyed.
LEMMA DeleteWriteTurns ==
  ASSUME DesiredInv, TurnsInv, InTurn, NEW r \in Requests, setting' = setting, DeleteWrite(r)
  PROVE  TurnsInv'
<1> DEFINE t == tx[r]
           k == t.op.key
           V == Seen(db, t)
           mine == IF db[Row(k)] = None THEN t.mine ELSE With(t.mine, Row(k), None)
           next == [t EXCEPT !.pc = "reload", !.mine = mine]
           W == Seen(db, next)
<1>1. t.pc = "write" /\ t.op.kind = "delete" /\ Open(r) /\ wire = {}
  BY NoCall DEF DeleteWrite, At, Open
<1>2. IsTx(t) /\ DOMAIN t.mine = {} /\ k \in Keys /\ Row(k) \in Items
  BY <1>1, OfOpen, OfOp, ItemsDiffer DEF RightIn, PhaseRight, Ends
<1>3. tx' = [tx EXCEPT ![r] = next] /\ UNCHANGED <<db, wire, master, restarts>>
  BY <1>2 DEF DeleteWrite, Step, Go, IsTx
<1>4. next.pc = "reload" /\ next.op = t.op /\ next.mine = mine
  BY <1>2 DEF IsTx
<1>5. \A i \in Items : V[i] = db[i]
  BY <1>2, SeesAll
<1> HIDE DEF next
<1>6. W[Row(k)] = None /\ \A i \in Items \ {Row(k)} : W[i] = V[i]
  <2>1. CASE db[Row(k)] = None
    BY <1>2, <1>4, <1>5, <2>1, SeesAll
  <2>2. CASE db[Row(k)] # None
    <3>1. next.mine = With(t.mine, Row(k), None)
      BY <1>4, <2>2
    <3> HIDE DEF k
    <3> QED
      BY <1>2, <3>1 DEF Seen, Looks, With
  <2> QED
    BY <2>1, <2>2
<1> HIDE DEF V, W, k, mine
<1>7. FreshAt(W, k)
  BY <1>6 DEF FreshAt
<1>8. SteadyBut(Undisturbed, k, V, t, W, next) /\ Untold(W, next, k)
  BY <1>1, <1>4 DEF SteadyBut, Due, Untold, Stale, Refreshes, Ones, k
<1>9. PhaseRight(db, master, W, next)
  BY <1>1, <1>4, <1>6
  DEF PhaseRight, OfEnsure, OfDelete, OfRefresh, OfDeployment, Refreshes, Ones, k
<1> QED
  BY <1>1, <1>2, <1>3, <1>4, <1>6, <1>7, <1>8, <1>9, GoesWithRow DEF Ends, V, W

LEMMA DeploymentRowTurns ==
  ASSUME DesiredInv, TurnsInv, InTurn, NEW r \in Requests, setting' = setting, DeleteDeploymentRow(r)
  PROVE  TurnsInv'
<1> DEFINE t == tx[r]
           k == t.cur
           V == Seen(db, t)
           mine == IF db[Row(k)] = None THEN t.mine ELSE With(t.mine, Row(k), None)
           next == [t EXCEPT !.pc = "loop", !.mine = mine]
           W == Seen(db, next)
<1>1. t.pc = "answered" /\ t.op.kind = "deleteDeployment" /\ Open(r) /\ wire = {}
  BY NoCall DEF DeleteDeploymentRow, At, Open
<1>2. /\ IsTx(t) /\ k \in Keys /\ Row(k) \in Items /\ OfDeployment(master, V, t) /\ Typed(V)
  BY <1>1, OfOpen, ItemsDiffer DEF RightIn, PhaseRight, DesiredInv, TxRight
<1>3. tx' = [tx EXCEPT ![r] = next] /\ UNCHANGED <<db, wire, master, restarts>>
  BY <1>2 DEF DeleteDeploymentRow, Step, Go, IsTx
<1>4. next.pc = "loop" /\ next.op = t.op /\ next.mine = mine /\ next.todo = t.todo
  BY <1>2 DEF IsTx
<1> HIDE DEF next
<1>5. /\ W[Row(k)] = None /\ \A i \in Items \ {Row(k)} : W[i] = V[i]
      /\ \A j \in Keys : Row(j) \in DOMAIN next.mine => next.mine[Row(j)] = None
  <2>1. CASE db[Row(k)] = None
    <3>1. next.mine = t.mine
      BY <1>4, <2>1
    <3> QED
      BY <1>1, <1>2, <2>1, <3>1 DEF OfDeployment, Seen, Looks
  <2>2. CASE db[Row(k)] # None
    <3>1. next.mine = With(t.mine, Row(k), None)
      BY <1>4, <2>2
    <3>2. \A j \in Keys : Row(j) \in DOMAIN next.mine => next.mine[Row(j)] = None
      BY <1>1, <1>2, <3>1 DEF OfDeployment, With
    <3> HIDE DEF k
    <3>3. W[Row(k)] = None /\ \A i \in Items \ {Row(k)} : W[i] = V[i]
      BY <1>2, <3>1 DEF Seen, Looks, With
    <3> QED
      BY <3>2, <3>3
  <2> QED
    BY <2>1, <2>2
<1> HIDE DEF V, W, mine
<1>6. \A op, j : j \in Keys \ {k} => (Concerns(W, op, j) <=> Concerns(V, op, j))
  BY <1>2, <1>5, OtherRow
<1>7. ~Concerns(W, t.op, k) /\ FreshAt(W, k) /\ master[k] = MirrorAt(W, k)
  BY <1>1, <1>2, <1>5 DEF Concerns, FreshAt, MirrorAt, OfDeployment
<1>8. SteadyBut(Undisturbed, k, V, t, W, next)
  BY <1>1, <1>4, <1>6 DEF SteadyBut, Due, Untold, Stale, Refreshes, Ones
<1>9. PhaseRight(db, master, W, next)
  <2>1. OfDeployment(master, W, next)
    BY <1>1, <1>2, <1>4, <1>5, <1>6, <1>7 DEF OfDeployment
  <2> QED
    BY <1>1, <1>4, <2>1 DEF PhaseRight, OfEnsure, OfDelete, OfRefresh, Refreshes, Ones
<1> HIDE DEF k
<1> QED
  BY <1>1, <1>2, <1>3, <1>4, <1>5, <1>7, <1>8, <1>9, GoesWithRow DEF Ends, V, W

\* An environment is written: the definitions concerned are still to be told and renewed.
LEMMA GoesWithEnv ==
  ASSUME DesiredInv, TurnsInv, InTurn, NEW r \in Requests, NEW next, NEW V, NEW W,
         V = Seen(db, tx[r]), W = Seen(db, next),
         tx[r].pc = "resolve", tx[r].op.kind \in Refreshes, next.pc = "list", next.op = tx[r].op,
         tx' = [tx EXCEPT ![r] = next],
         setting' = setting, UNCHANGED <<db, wire, master, restarts>>,
         Typed(W), \A k \in Keys : W[Row(k)] = V[Row(k)],
         \A k \in Keys : ~Concerns(V, next.op, k) =>
            MirrorAt(W, k) = MirrorAt(V, k) /\ (FreshAt(W, k) <=> FreshAt(V, k))
  PROVE  TurnsInv'
<1>1. /\ Told(Undisturbed, master, V, tx[r]) /\ Renewed(Undisturbed, V, tx[r])
      /\ master' = [j \in Keys |-> master'[j]] /\ Open(r) /\ wire' = {}
  BY OfOpen, NoCall DEF RightIn, Open
<1>2. \A k \in Keys : /\ Concerns(W, next.op, k) <=> Concerns(V, next.op, k)
                      /\ ~Untold(V, tx[r], k) /\ ~Stale(V, tx[r], k)
                      /\ Untold(W, next, k) <=> Concerns(W, next.op, k)
                      /\ Stale(W, next, k) <=> Concerns(W, next.op, k)
                      /\ Due(Undisturbed, W, next, k) <=> Undisturbed
  BY DEF Concerns, Untold, Stale, Due, Refreshes, Ones
<1>3. Told(Undisturbed, master, W, next)
  BY <1>1, <1>2 DEF Told, Due
<1>4. Renewed(Undisturbed, W, next)
  BY <1>1, <1>2 DEF Renewed
<1>5. PhaseRight(db, master, W, next)
  BY DEF PhaseRight, OfEnsure, OfDelete, OfRefresh, OfDeployment, Refreshes, Ones
<1>6. RightIn(Undisturbed, db, master', W, next)
  BY <1>3, <1>4, <1>5 DEF RightIn
<1> QED
  BY <1>1, <1>6, InTurnGoes DEF Ends

LEMMA SetHostEnvTurns ==
  ASSUME DesiredInv, TurnsInv, InTurn, NEW r \in Requests, setting' = setting, SetHostEnvWrite(r)
  PROVE  TurnsInv'
<1> DEFINE t == tx[r]
           changes == setting.dialect = "sqlite" /\ t.op.env # db[Host]
           mine == IF changes THEN With(t.mine, Host, t.op.env) ELSE t.mine
           next == [t EXCEPT !.pc = "list", !.mine = mine]
           V == Seen(db, t)
           W == Seen(db, next)
<1>1. t.pc = "resolve" /\ t.op.kind = "setHostEnv" /\ Open(r)
  BY DEF SetHostEnvWrite, At, Open
<1>2. IsTx(t) /\ t.op.env \in Envs /\ Typed(V)
  BY <1>1, OfOpen, OfOp DEF RightIn, Ends
<1>3. tx' = [tx EXCEPT ![r] = next] /\ UNCHANGED <<db, wire, master, restarts>>
  BY <1>2 DEF SetHostEnvWrite, Step, Go, IsTx
<1>4. next.pc = "list" /\ next.op = t.op /\ next.mine = mine
  <2> HIDE DEF mine
  <2> QED
    BY <1>2 DEF IsTx
<1> HIDE DEF next
<1>5. W[Host] \in {V[Host], t.op.env} /\ \A i \in Items \ {Host} : W[i] = V[i]
  BY <1>4, ItemsDiffer DEF Seen, Looks, With
<1> HIDE DEF V, W, mine
<1>6. Typed(W) /\ \A k \in Keys : W[Row(k)] = V[Row(k)]
  BY <1>2, <1>5, ItemsDiffer DEF Typed
<1>7. \A k \in Keys : ~Concerns(V, next.op, k) =>
            MirrorAt(W, k) = MirrorAt(V, k) /\ (FreshAt(W, k) <=> FreshAt(V, k))
  BY <1>1, <1>4, <1>6 DEF Concerns, MirrorAt, FreshAt
<1>8. t.op.kind \in Refreshes
  BY <1>1 DEF Refreshes
<1> QED
  BY <1>1, <1>3, <1>4, <1>6, <1>7, <1>8, GoesWithEnv DEF V, W

LEMMA UpsertDeploymentTurns ==
  ASSUME DesiredInv, TurnsInv, InTurn, NEW r \in Requests, setting' = setting, UpsertDeploymentWrite(r)
  PROVE  TurnsInv'
<1> DEFINE t == tx[r]
           i == Dep(t.op.dep)
           changes == db[i] # t.op.env
           mine == IF changes THEN With(t.mine, i, t.op.env) ELSE t.mine
           next == [t EXCEPT !.pc = "list", !.mine = mine]
           V == Seen(db, t)
           W == Seen(db, next)
<1>1. t.pc = "resolve" /\ t.op.kind = "upsertDeployment" /\ Open(r)
  BY DEF UpsertDeploymentWrite, At, Open
<1>2. IsTx(t) /\ t.op.env \in Envs /\ t.op.dep \in Deployments /\ i \in Items /\ Typed(V)
  BY <1>1, OfOpen, OfOp, ItemsDiffer DEF RightIn, Ends
<1>3. tx' = [tx EXCEPT ![r] = next] /\ UNCHANGED <<db, wire, master, restarts>>
  BY <1>2 DEF UpsertDeploymentWrite, Step, Go, IsTx
<1>4. next.pc = "list" /\ next.op = t.op /\ next.mine = mine
  <2> HIDE DEF mine
  <2> QED
    BY <1>2 DEF IsTx
<1> HIDE DEF next, i
<1>5. W[i] \in {V[i], t.op.env} /\ \A j \in Items \ {i} : W[j] = V[j]
  BY <1>2, <1>4 DEF Seen, Looks, With
<1> HIDE DEF V, W, mine
<1>6. Typed(W) /\ (\A k \in Keys : W[Row(k)] = V[Row(k)]) /\ W[Host] = V[Host]
      /\ \A d \in Deployments : d # t.op.dep => W[Dep(d)] = V[Dep(d)]
  <2>1. \A d \in Deployments : d # t.op.dep => W[Dep(d)] = V[Dep(d)]
    BY <1>2, <1>5, ItemsDiffer DEF i
  <2>2. (\A k \in Keys : W[Row(k)] = V[Row(k)]) /\ W[Host] = V[Host]
    BY <1>2, <1>5, ItemsDiffer DEF i
  <2>3. W[Dep(t.op.dep)] \in Envs \union {None}
    BY <1>2, <1>5 DEF Typed, i
  <2> QED
    BY <1>2, <2>1, <2>2, <2>3 DEF Typed
<1>7. ASSUME NEW k \in Keys, ~Concerns(V, next.op, k)
      PROVE  MirrorAt(W, k) = MirrorAt(V, k) /\ (FreshAt(W, k) <=> FreshAt(V, k))
  <2>1. V[Row(k)] # None => V[Row(k)].dep # t.op.dep
    BY <1>1, <1>4, <1>7 DEF Concerns
  <2> QED
    BY <1>2, <1>6, <2>1, SameAt
<1>8. t.op.kind \in Refreshes
  BY <1>1 DEF Refreshes
<1> QED
  BY <1>1, <1>3, <1>4, <1>6, <1>7, <1>8, GoesWithEnv DEF V, W

\* The deployment goes when no row of it is left.
LEMMA DeploymentEndTurns ==
  ASSUME DesiredInv, TurnsInv, InTurn, NEW r \in Requests, setting' = setting, DeleteDeploymentEnd(r)
  PROVE  TurnsInv'
<1> DEFINE t == tx[r]
           d == t.op.dep
           V == Seen(db, t)
           orphans == {Row(k) : k \in Concerned(r)}
           mine == [i \in Mine(r) \union orphans \union {Dep(d)} |->
                      CASE i = Dep(d) -> None
                        [] i \in orphans -> [View(r)[i] EXCEPT !.dep = None]
                        [] OTHER -> t.mine[i]]
           next == [t EXCEPT !.pc = "commit", !.mine = mine]
           W == Seen(db, next)
<1>1. /\ t.pc = "loop" /\ t.op.kind = "deleteDeployment" /\ t.todo = {} /\ Open(r) /\ wire = {}
  BY NoCall DEF DeleteDeploymentEnd, At, Open
<1>2. /\ IsTx(t) /\ d \in Deployments /\ Dep(d) \in Items /\ Typed(V) /\ OfDeployment(master, V, t)
      /\ Told(Undisturbed, master, V, t) /\ Renewed(Undisturbed, V, t)
      /\ master = [k \in Keys |-> master[k]]
  BY <1>1, OfOpen, OfOp, ItemsDiffer DEF RightIn, PhaseRight, Ends
<1>3. tx' = [tx EXCEPT ![r] = next] /\ UNCHANGED <<db, wire, master, restarts>>
  BY <1>2 DEF DeleteDeploymentEnd, Step, Go, Mine, IsTx
<1>4. \A k \in Keys : ~Concerns(V, t.op, k)
  BY <1>1, <1>2 DEF OfDeployment
<1>5. orphans = {}
  BY <1>4, ConcernedIs, ConcernedKeys
<1>6. mine = With(t.mine, Dep(d), None)
  <2> HIDE DEF orphans
  <2> QED
    BY <1>5 DEF With, Mine
<1>7. next.pc = "commit" /\ next.op = t.op /\ next.mine = With(t.mine, Dep(d), None)
  <2> HIDE DEF mine
  <2> QED
    BY <1>2, <1>6 DEF IsTx
<1> HIDE DEF next, d, mine, orphans
<1>8. W[Dep(d)] = None /\ \A i \in Items \ {Dep(d)} : W[i] = V[i]
  BY <1>2, <1>7 DEF Seen, Looks, With
<1> HIDE DEF V, W
<1>9. /\ (\A k \in Keys : W[Row(k)] = V[Row(k)]) /\ W[Host] = V[Host]
      /\ \A e \in Deployments : e # d => W[Dep(e)] = V[Dep(e)]
  BY <1>2, <1>8, ItemsDiffer
<1>10. Typed(W)
  BY <1>2, <1>8, <1>9 DEF Typed
<1>11. ASSUME NEW k \in Keys
       PROVE  /\ MirrorAt(W, k) = MirrorAt(V, k) /\ (FreshAt(W, k) <=> FreshAt(V, k))
              /\ Concerns(W, t.op, k) <=> Concerns(V, t.op, k)
  <2>1. V[Row(k)] # None => V[Row(k)].dep # d
    BY <1>4 DEF Concerns, d
  <2> QED
    BY <1>2, <1>9, <2>1, SameAt DEF Concerns
<1>12. \A k \in Keys : /\ ~Untold(V, t, k) /\ ~Stale(V, t, k)
                       /\ Due(Undisturbed, W, next, k) => Due(Undisturbed, V, t, k)
  BY <1>1, <1>7, <1>11 DEF Untold, Stale, Due, Ones
<1>13. Told(Undisturbed, master, W, next) /\ Renewed(Undisturbed, W, next)
  BY <1>2, <1>11, <1>12 DEF Told, Renewed
<1>14. PhaseRight(db, master, W, next)
  BY <1>1, <1>7 DEF PhaseRight, OfEnsure, OfDelete, OfRefresh, OfDeployment, Refreshes, Ones
<1>15. RightIn(Undisturbed, db, master, W, next)
  BY <1>10, <1>13, <1>14 DEF RightIn
<1> QED
  BY <1>1, <1>2, <1>3, <1>7, <1>15, InTurnGoes DEF Ends, W

\* Calls that change no row.
LEMMA SendsSteadily ==
  ASSUME DesiredInv, TurnsInv, InTurn, NEW r \in Requests, NEW k \in Keys, NEW body, NEW V,
         V = Seen(db, tx[r]), setting' = setting, restarts' = restarts,
         Send(r, k, body, tx[r]), Open(r), tx[r].pc # "await",
         body = IF tx[r].op.kind = "deleteDeployment" THEN None ELSE MirrorAt(V, k),
         \/ tx[r].op.kind \in Ones /\ tx[r].pc = "reload" /\ k = tx[r].op.key
         \/ tx[r].op.kind = "deleteDeployment" /\ tx[r].pc = "row" /\ k = tx[r].cur
  PROVE  TurnsInv'
<1> DEFINE t == tx[r]
           next == [t EXCEPT !.pc = "await", !.cur = k]
<1>1. IsTx(t) /\ PhaseRight(db, master, V, t) /\ wire = {}
  BY OfOpen, NoCall DEF RightIn
<1>2. /\ tx' = [tx EXCEPT ![r] = next] /\ UNCHANGED <<db, master>>
      /\ wire' = {[req |-> r, key |-> k, body |-> body]}
  BY <1>1 DEF Send, Go, Call
<1>3. next.pc = "await" /\ next.op = t.op /\ next.mine = t.mine /\ next.cur = k /\ next.todo = t.todo
  BY <1>1 DEF IsTx
<1> HIDE DEF next
<1>4. Steady(Undisturbed, V, t, next)
  BY <1>3 DEF Steady, Due, Untold, Stale, Refreshes, Ones
<1>5. PhaseRight(db, master, V, next)
  <2>1. OfDeployment(master, V, next)
    BY <1>1, <1>3 DEF PhaseRight, OfDeployment, Ones
  <2> QED
    BY <1>3, <2>1 DEF PhaseRight, OfEnsure, OfDelete, OfRefresh, Refreshes, Ones
<1>6. \A m \in wire' : next.pc = "await" /\ m = CallOf(r, V, next)
  BY <1>2, <1>3 DEF CallOf
<1> QED
  BY <1>2, <1>3, <1>4, <1>5, <1>6, GoesSteadily DEF Ends

LEMMA SendingTurns ==
  ASSUME DesiredInv, TurnsInv, InTurn, NEW r \in Requests, setting' = setting, restarts' = restarts,
         EnsureMirror(r) \/ DeleteMirror(r) \/ DeleteDeploymentMirror(r)
  PROVE  TurnsInv'
<1> DEFINE t == tx[r]
           V == Seen(db, t)
<1>1. Open(r) /\ t.pc \in {"reload", "row"}
  BY DEF EnsureMirror, DeleteMirror, DeleteDeploymentMirror, At, Open
<1>2. PhaseRight(db, master, V, t) /\ (t.op.kind \in Ones => t.op.key \in Keys)
      /\ (t.pc = "row" => t.cur \in Keys)
  BY <1>1, OfOpen, OfOp DEF RightIn, Ends, DesiredInv, TxRight, Ones
<1>3. CASE EnsureMirror(r)
  <2>1. t.op.kind = "ensure" /\ t.pc = "reload"
    BY <1>3 DEF EnsureMirror, At
  <2>2. V[Row(t.op.key)] # None
    BY <1>2, <2>1 DEF PhaseRight, OfEnsure
  <2>3. Send(r, t.op.key, MirrorAt(V, t.op.key), t)
    BY <1>3, <2>2, ViewIsSeen DEF EnsureMirror, MirrorAt
  <2> QED
    BY <1>1, <1>2, <2>1, <2>3, SendsSteadily DEF Ones
<1>4. CASE DeleteMirror(r)
  <2>1. t.op.kind = "delete" /\ t.pc = "reload" /\ Send(r, t.op.key, None, t)
    BY <1>4 DEF DeleteMirror, At
  <2>2. MirrorAt(V, t.op.key) = None
    BY <1>2, <2>1 DEF PhaseRight, OfDelete, MirrorAt
  <2> QED
    BY <1>1, <1>2, <2>1, <2>2, SendsSteadily DEF Ones
<1>5. CASE DeleteDeploymentMirror(r)
  <2>1. t.op.kind = "deleteDeployment" /\ t.pc = "row" /\ Send(r, t.cur, None, t)
    BY <1>5 DEF DeleteDeploymentMirror, At
  <2> QED
    BY <1>1, <1>2, <2>1, SendsSteadily
<1> QED
  BY <1>3, <1>4, <1>5

LEMMA RefreshRowTurns ==
  ASSUME DesiredInv, TurnsInv, InTurn, NEW r \in Requests, setting' = setting, RefreshRow(r)
  PROVE  TurnsInv'
<1> DEFINE t == tx[r]
           k == t.cur
           V == Seen(db, t)
           new == Payload(t.seen, t.seen[Row(k)])
           stale == t.seen[Row(k)].fingerprint # new
           now == View(r)[Row(k)]
           row == [now EXCEPT !.fingerprint = new]
           mine == IF stale /\ now # None THEN With(t.mine, Row(k), row) ELSE t.mine
           turned == [t EXCEPT !.mine = mine]
           next == [turned EXCEPT !.pc = "await", !.cur = k]
           W == Seen(db, next)
<1>1. t.pc = "row" /\ t.op.kind \in Refreshes /\ Open(r) /\ wire = {}
  BY NoCall DEF RefreshRow, At, Open, Refreshes
<1>2. /\ IsTx(t) /\ Typed(V) /\ OfRefresh(V, t) /\ Renewed(Undisturbed, V, t)
      /\ k \in Keys /\ Row(k) \in Items
  BY <1>1, OfOpen, ItemsDiffer DEF RightIn, PhaseRight, OfRefresh
<1>3. /\ tx' = [tx EXCEPT ![r] = next] /\ UNCHANGED <<db, master, restarts>>
      /\ wire' = {[req |-> r, key |-> k, body |-> new]}
  BY <1>1, <1>2 DEF RefreshRow, Send, Go, Call, IsTx
<1>4. /\ next.pc = "await" /\ next.op = t.op /\ next.mine = mine /\ next.cur = k
      /\ next.todo = t.todo /\ next.seen = t.seen
  <2> HIDE DEF mine, k
  <2> QED
    BY <1>2 DEF IsTx
<1>5. /\ now = V[Row(k)] /\ now = t.seen[Row(k)] /\ now \in DesiredRow /\ now # None
      /\ t.seen[Host] = V[Host] /\ \A d \in Deployments : t.seen[Dep(d)] = V[Dep(d)]
      /\ k \notin t.todo
  BY <1>1, <1>2, ViewIsSeen DEF OfRefresh, Concerns, Typed
<1>6. new = Payload(V, now) /\ new \in Payloads
  <2> HIDE DEF now, V, k
  <2>1. now.dep \in Deployments \union {None} /\ now.def \in Defs
    BY <1>5 DEF DesiredRow
  <2>2. new = Payload(V, now)
    BY <1>5, <2>1 DEF Payload
  <2> QED
    BY <1>2, <2>1, <2>2, PayloadTyped
<1>7. row \in DesiredRow /\ row.def = now.def /\ row.dep = now.dep /\ row.fingerprint = new
  <2> HIDE DEF now, new
  <2> QED
    BY <1>5, <1>6 DEF DesiredRow
<1>8. stale => W[Row(k)] = row
  <2> HIDE DEF now, new, k, stale, row, next
  <2> QED
    BY <1>2, <1>4, <1>5 DEF Seen, Looks, With
<1>9. ~stale => W[Row(k)] = now
  <2> HIDE DEF new, k, stale, row, next
  <2> QED
    BY <1>2, <1>4, <1>5, ViewIsSeen DEF Seen, Looks
<1>10. \A i \in Items \ {Row(k)} : W[i] = V[i]
  <2> HIDE DEF now, new, k, stale, row, next
  <2> QED
    BY <1>2, <1>4 DEF Seen, Looks, With
<1>11. /\ W[Row(k)] \in DesiredRow /\ W[Row(k)].def = now.def /\ W[Row(k)].dep = now.dep
       /\ W[Row(k)].fingerprint = new /\ W[Row(k)] # None
  <2>1. ~stale => now.fingerprint = new
    BY <1>5
  <2> HIDE DEF now, new, stale, row, W, k
  <2> QED
    BY <1>5, <1>7, <1>8, <1>9, <2>1, RowAssumption
<1> HIDE DEF next, W, V, now, new, row, stale, mine
<1>12. Payload(W, W[Row(k)]) = new
  <2>1. W[Host] = V[Host] /\ \A d \in Deployments : W[Dep(d)] = V[Dep(d)]
    BY <1>2, <1>10, ItemsDiffer
  <2>2. now.dep \in Deployments \union {None}
    BY <1>5 DEF DesiredRow
  <2> QED
    BY <1>6, <1>11, <2>1, <2>2 DEF Payload
<1>13. FreshAt(W, k) /\ MirrorAt(W, k) = new
  BY <1>11, <1>12 DEF FreshAt, MirrorAt
<1>14. \A op, j : j \in Keys \ {k} => (Concerns(W, op, j) <=> Concerns(V, op, j))
  BY <1>2, <1>10, <1>11, OtherRow
<1>15. SteadyBut(Undisturbed, k, V, t, W, next) /\ Untold(W, next, k)
  BY <1>1, <1>4, <1>14 DEF SteadyBut, Due, Untold, Stale, Refreshes, Ones
<1>16. OfRefresh(W, next)
  <2>1. \A j \in t.todo : W[Row(j)] = V[Row(j)] /\ j \in Keys /\ j # k
    BY <1>1, <1>2, <1>5, <1>10, OfOpen, ItemsDiffer
  <2>2. Concerns(W, t.op, k)
    BY <1>1, <1>2, <1>5, <1>11 DEF Concerns, OfRefresh, now
  <2>3. W[Host] = V[Host] /\ \A d \in Deployments : W[Dep(d)] = V[Dep(d)]
    BY <1>2, <1>10, ItemsDiffer
  <2> QED
    BY <1>1, <1>2, <1>4, <1>5, <1>14, <2>1, <2>2, <2>3 DEF OfRefresh
<1>17. PhaseRight(db, master, W, next)
  BY <1>1, <1>4, <1>16 DEF PhaseRight, OfEnsure, OfDelete, OfDeployment, Refreshes, Ones
<1>18. \A m \in wire' : next.pc = "await" /\ m = CallOf(r, W, next)
  BY <1>1, <1>3, <1>4, <1>13 DEF CallOf, Refreshes
<1>19. /\ k \in Keys /\ V = Seen(db, tx[r]) /\ W = Seen(db, next)
       /\ next.pc \notin Ends /\ W[Row(k)] \in DesiredRow \union {None}
  BY <1>2, <1>4, <1>11 DEF V, W, Ends
<1>20. tx' = [tx EXCEPT ![r] = next] /\ UNCHANGED <<db, master, restarts>> /\ Open(r)
  BY <1>1, <1>3
<1> HIDE DEF k
<1> QED
  BY <1>10, <1>13, <1>15, <1>17, <1>18, <1>19, <1>20, GoesWithRow

\* The master handles the call: it has been told.
LEMMA AnswerTurns ==
  ASSUME DesiredInv, TurnsInv, InTurn, NEW m \in wire, setting' = setting, MasterHandles(m)
  PROVE  TurnsInv'
<1>1. PICK r \in Requests : tx[r].pc = "await" /\ m = CallOf(r, Seen(db, tx[r]), tx[r])
  BY DEF TurnsInv
<1> DEFINE t == tx[r]
           V == Seen(db, t)
           next == [t EXCEPT !.pc = AfterAnswer(r)]
<1>2. /\ Open(r) /\ m.req = r /\ m.key = t.cur
      /\ m.body = IF t.op.kind = "deleteDeployment" THEN None ELSE MirrorAt(V, t.cur)
  BY <1>1 DEF Open, CallOf
<1>3. /\ IsTx(t) /\ t.op \in AnyOps /\ Typed(V) /\ Typed(db) /\ Told(Undisturbed, master, V, t)
      /\ Renewed(Undisturbed, V, t) /\ PhaseRight(db, master, V, t) /\ t.cur \in Keys
      /\ master = [k \in Keys |-> master[k]]
  BY <1>1, <1>2, OfOpen DEF RightIn, DesiredInv, TxRight
<1>4. wire' = {}
  BY <1>1 DEF MasterHandles, TurnsInv, Open
<1>5. /\ UNCHANGED <<db, restarts>> /\ master' = [master EXCEPT ![t.cur] = m.body]
      /\ \/ tx' = [tx EXCEPT ![r] = next]
         \/ "lost" \in setting.faults /\ tx' = [tx EXCEPT ![r] = Ended(r, "failed")]
  BY <1>1, <1>2 DEF MasterHandles, Go
<1>6. /\ master' = [k \in Keys |-> master'[k]] /\ master'[t.cur] = m.body
      /\ \A k \in Keys \ {t.cur} : master'[k] = master[k]
  BY <1>3, <1>5
<1>7. CASE "lost" \in setting.faults /\ tx' = [tx EXCEPT ![r] = Ended(r, "failed")]
  <2>1. Settles(Undisturbed, db', master')
    BY <1>3, <1>5, <1>7 DEF Settles, Undisturbed
  <2> QED
    BY <1>2, <1>4, <1>5, <1>6, <1>7, <2>1, InTurnEnds
<1>8. CASE tx' = [tx EXCEPT ![r] = next]
  <2>1. AfterAnswer(r) = CASE t.op.kind \in Ones -> "commit"
                           [] t.op.kind \in Refreshes -> "loop"
                           [] t.op.kind = "deleteDeployment" -> "answered"
    BY DEF AfterAnswer, Ones, Refreshes
  <2>2. /\ t.op.kind \in Ones \union Refreshes \union {"deleteDeployment"}
        /\ t.op.kind \in Ones => AfterAnswer(r) = "commit"
        /\ t.op.kind \in Refreshes => AfterAnswer(r) = "loop"
        /\ t.op.kind = "deleteDeployment" => AfterAnswer(r) = "answered"
    BY <1>3, <2>1 DEF AnyOps, Ones, Refreshes
  <2>3. /\ next.pc = AfterAnswer(r) /\ next.op = t.op /\ next.mine = t.mine /\ next.cur = t.cur
        /\ next.todo = t.todo /\ next.seen = t.seen
    BY <1>3 DEF IsTx
  <2>4. Seen(db, next) = V
    BY <2>3 DEF Seen
  <2> HIDE DEF next, V
  <2>5. Told(Undisturbed, master', V, next)
    <3> SUFFICES ASSUME NEW k \in Keys, Due(Undisturbed, V, next, k), ~Untold(V, next, k)
                 PROVE  master'[k] = MirrorAt(V, k)
      BY DEF Told
    <3>1. CASE t.op.kind \in Ones
      <4>1. t.cur = t.op.key
        BY <1>1, <1>3, <3>1 DEF PhaseRight
      <4>2. CASE k = t.cur
        BY <1>2, <1>6, <3>1, <4>2 DEF Ones
      <4>3. CASE k # t.cur
        <5>1. Due(Undisturbed, V, t, k) /\ ~Untold(V, t, k)
          BY <1>1, <2>2, <2>3, <3>1, <4>1, <4>3 DEF Due, Untold, Ones
        <5> QED
          BY <1>3, <1>6, <4>3, <5>1 DEF Told
      <4> QED
        BY <4>2, <4>3
    <3>2. CASE t.op.kind \in Refreshes
      <4>1. CASE k = t.cur
        BY <1>2, <1>6, <3>2, <4>1 DEF Refreshes
      <4>2. CASE k # t.cur
        <5>1. Due(Undisturbed, V, t, k) /\ ~Untold(V, t, k)
          BY <1>1, <2>2, <2>3, <3>2, <4>2 DEF Due, Untold, Ones, Refreshes
        <5> QED
          BY <1>3, <1>6, <4>2, <5>1 DEF Told
      <4> QED
        BY <4>1, <4>2
    <3>3. CASE t.op.kind = "deleteDeployment"
      <4>1. k # t.cur
        BY <2>2, <2>3, <3>3 DEF Untold, Ones
      <4>2. Due(Undisturbed, V, t, k) /\ ~Untold(V, t, k)
        BY <1>1, <2>2, <2>3, <3>3, <4>1 DEF Due, Untold, Ones
      <4> QED
        BY <1>3, <1>6, <4>1, <4>2 DEF Told
    <3> QED
      BY <2>2, <3>1, <3>2, <3>3
  <2>6. Renewed(Undisturbed, V, next)
    BY <1>1, <1>3, <2>2, <2>3 DEF Renewed, Stale, Refreshes
  <2>7. PhaseRight(db, master', V, next)
    <3>1. OfRefresh(V, next)
      BY <1>1, <1>3, <2>2, <2>3 DEF PhaseRight, OfRefresh
    <3>2. OfDeployment(master', V, next)
      BY <1>1, <1>2, <1>3, <1>6, <2>2, <2>3 DEF PhaseRight, OfDeployment
    <3> QED
      BY <2>2, <2>3, <3>1, <3>2 DEF PhaseRight, OfEnsure, OfDelete, Ones, Refreshes
  <2>8. RightIn(Undisturbed, db, master', V, next)
    BY <1>3, <2>5, <2>6, <2>7 DEF RightIn
  <2>9. next.pc \notin Ends
    BY <2>2, <2>3 DEF Ends
  <2> QED
    BY <1>2, <1>4, <1>5, <1>6, <1>8, <2>4, <2>8, <2>9, InTurnGoes
<1> QED
  BY <1>5, <1>7, <1>8

LEMMA CommitTurns ==
  ASSUME DesiredInv, TurnsInv, InTurn, NEW r \in Requests, setting' = setting, Commit(r)
  PROVE  TurnsInv'
<1> DEFINE t == tx[r]
           V == Seen(db, t)
<1>1. t.pc = "commit" /\ Open(r) /\ wire = {}
  BY NoCall DEF Commit, Open
<1>2. /\ Typed(V) /\ Told(Undisturbed, master, V, t) /\ Renewed(Undisturbed, V, t)
      /\ master = [k \in Keys |-> master[k]]
  BY <1>1, OfOpen DEF RightIn
<1>3. /\ db' = V /\ UNCHANGED <<wire, master, restarts>> /\ tx' = [tx EXCEPT ![r] = Ended(r, "done")]
  BY ViewIsSeen DEF Commit, Go
<1>4. \A k \in Keys : ~Untold(V, t, k) /\ ~Stale(V, t, k)
  BY <1>1 DEF Untold, Stale
<1> HIDE DEF V
<1>5. Settles(Undisturbed, V, master)
  BY <1>2, <1>4 DEF Settles, Told, Renewed, Due
<1> QED
  BY <1>1, <1>2, <1>3, <1>5, InTurnEnds

\* What fails half-way, where something may fail.
LEMMA FailsTurns ==
  ASSUME DesiredInv, TurnsInv, InTurn, setting' = setting, setting.faults # {},
         restarts' = restarts, db' = db, master' = master, wire' = {},
         \A r \in Requests : ~Open(r)'
  PROVE  TurnsInv'
<1>1. restarts = 0 /\ Typed(db) /\ master = [k \in Keys |-> master[k]]
  BY DEF TurnsInv
<1>2. ~Undisturbed
  BY DEF Undisturbed
<1>3. ~Undisturbed' /\ Settles(Undisturbed', db', master')
  BY <1>1, <1>2, SameSetting DEF Settles
<1> QED
  BY <1>1, <1>3 DEF TurnsInv

LEMMA OneFails ==
  ASSUME DesiredInv, TurnsInv, InTurn, setting' = setting, setting.faults # {},
         NEW r \in Requests, Open(r), tx' = [tx EXCEPT ![r] = Ended(r, "failed")],
         restarts' = restarts, db' = db, master' = master, wire' = {}
  PROVE  TurnsInv'
<1>1. tx'[r].pc = "failed" /\ \A s \in Requests \ {r} : tx'[s] = tx[s] /\ ~Open(s)
  BY DEF DesiredInv, TurnsInv, Ended, Idle
<1>2. \A s \in Requests : ~Open(s)'
  BY <1>1 DEF Open
<1> QED
  BY <1>2, FailsTurns

LEMMA CallFailsTurns ==
  ASSUME DesiredInv, TurnsInv, InTurn, NEW r \in Requests, setting' = setting, CallFails(r)
  PROVE  TurnsInv'
<1>1. /\ Open(r) /\ "lost" \in setting.faults /\ wire' = {m \in wire : m.req # r}
      /\ tx' = [tx EXCEPT ![r] = Ended(r, "failed")] /\ UNCHANGED <<db, master, restarts>>
  BY DEF CallFails, InTurn, Open, Go
<1>2. \A m \in wire : m.req = r
  BY <1>1 DEF TurnsInv, CallOf, Open
<1>3. wire' = {}
  BY <1>1, <1>2
<1> QED
  BY <1>1, <1>3, OneFails

LEMMA CommitFailsTurns ==
  ASSUME DesiredInv, TurnsInv, InTurn, NEW r \in Requests, setting' = setting, CommitFails(r)
  PROVE  TurnsInv'
<1>1. /\ "commit" \in setting.faults /\ Open(r) /\ wire = {}
      /\ tx' = [tx EXCEPT ![r] = Ended(r, "failed")] /\ UNCHANGED <<db, wire, master, restarts>>
  BY NoCall DEF CommitFails, Throw, Go, Open
<1> QED
  BY <1>1, OneFails

\* Requests in turn never wait for each other.
LEMMA NoDeadlock ==
  ASSUME DesiredInv, TurnsInv, InTurn, NEW r \in Requests, DeadlockVictim(r)
  PROVE  FALSE
<1>1. PICK s \in Requests : Open(r) /\ WaitsFor(r, s)
  BY DEF DeadlockVictim
<1>2. r # s /\ (Mine(s) # {})
  BY <1>1 DEF WaitsFor, Shares, Deleting
<1>3. Open(s)
  BY <1>2 DEF DesiredInv, TxRight, Open, Mine, Ends
<1> QED
  BY <1>1, <1>2, <1>3 DEF TurnsInv

LEMMA CrashTurns ==
  ASSUME DesiredInv, TurnsInv, InTurn, setting' = setting, ServerCrash
  PROVE  TurnsInv'
<1>1. /\ "crash" \in setting.faults /\ wire' = {} /\ UNCHANGED <<db, master, restarts>>
      /\ tx' = [r \in Requests |-> IF Open(r) THEN Ended(r, "failed") ELSE tx[r]]
  BY DEF ServerCrash, InTurn
<1>2. ASSUME NEW r \in Requests PROVE ~Open(r)'
  <2>1. Ended(r, "failed").pc = "failed"
    BY DEF Ended, Idle
  <2>2. CASE Open(r)
    BY <1>1, <2>1, <2>2 DEF Open
  <2>3. CASE ~Open(r)
    <3>1. tx'[r] = tx[r]
      BY <1>1, <2>3
    <3> QED
      BY <2>3, <3>1 DEF Open
  <2> QED
    BY <2>2, <2>3
<1> QED
  BY <1>1, <1>2, FailsTurns

LEMMA NoRestart == TurnsInv /\ InTurn /\ MasterRestart => FALSE
BY DEF TurnsInv, InTurn, MasterRestart

\* Every step of the server keeps the invariant.
LEMMA ServerTurns == DesiredInv /\ TurnsInv /\ ServerStep => TurnsInv'
<1> SUFFICES ASSUME DesiredInv, TurnsInv, ServerStep PROVE TurnsInv'
  OBVIOUS
<1>0. setting' = setting
  BY DEF ServerStep
<1>1. CASE ~InTurn
  <2>1. ~InTurn'
    BY <1>0, <1>1, SameSetting
  <2> QED
    BY <2>1 DEF TurnsInv
<1>2. CASE InTurn
  <2>1. CASE Began
    BY <1>0, <1>2, <2>1, InTurnBegins DEF Began
  <2>2. ASSUME NEW r \in Requests, Work(r) PROVE TurnsInv'
    <3>1. CASE EnsureMirror(r) \/ DeleteMirror(r) \/ DeleteDeploymentMirror(r)
      <4>1. restarts' = restarts
        BY <3>1 DEF EnsureMirror, DeleteMirror, DeleteDeploymentMirror, Throw, Send
      <4> QED
        BY <1>0, <1>2, <3>1, <4>1, SendingTurns
    <3>2. CASE EnsureResolve(r) \/ DeleteResolve(r) \/ RefreshList(r)
               \/ (\E k \in Keys : NextRow(r, k)) \/ RefreshEnd(r) \/ DeleteDeploymentList(r)
      BY <1>0, <1>2, <3>2, EnsureResolveTurns, DeleteResolveTurns, RefreshListTurns, NextRowTurns,
         RefreshEndTurns, DeploymentListTurns
    <3>3. CASE EnsureWrite(r) \/ DeleteWrite(r) \/ SetHostEnvWrite(r) \/ UpsertDeploymentWrite(r)
               \/ RefreshRow(r) \/ DeleteDeploymentRow(r) \/ DeleteDeploymentEnd(r)
      BY <1>0, <1>2, <3>3, EnsureWriteTurns, DeleteWriteTurns, SetHostEnvTurns, UpsertDeploymentTurns,
         RefreshRowTurns, DeploymentRowTurns, DeploymentEndTurns
    <3> QED
      BY <1>0, <1>2, <2>2, <3>1, <3>2, <3>3, CommitTurns, NoDeadlock DEF Work
  <2>3. ASSUME NEW r \in Requests, CallFails(r) \/ CommitFails(r) PROVE TurnsInv'
    BY <1>0, <1>2, <2>3, CallFailsTurns, CommitFailsTurns
  <2>4. ASSUME NEW m \in wire, MasterHandles(m) PROVE TurnsInv'
    BY <1>0, <1>2, <2>4, AnswerTurns
  <2>5. CASE ServerCrash \/ MasterRestart
    BY <1>0, <1>2, <2>5, CrashTurns, NoRestart
  <2> QED
    BY <2>1, <2>2, <2>3, <2>4, <2>5 DEF ServerStep, Worked, Around
<1> QED
  BY <1>1, <1>2

LEMMA SameTurns == TurnsInv /\ UNCHANGED vars => TurnsInv'
<1> SUFFICES ASSUME TurnsInv, UNCHANGED vars PROVE TurnsInv'
  OBVIOUS
<1>1. UNCHANGED <<setting, db, tx, wire, master, restarts>> /\ \A r \in Requests : Open(r)' <=> Open(r)
  BY DEF vars, Open
<1>2. InTurn' = InTurn /\ Undisturbed' = Undisturbed
  BY <1>1, SameSetting
<1> QED
  BY <1>1, <1>2 DEF TurnsInv

LEMMA TurnsGive == TurnsInv => MirrorFresh
<1> SUFFICES ASSUME TurnsInv, Undisturbed, Quiet
             PROVE  /\ master = Mirror(db)
                    /\ \A k \in Keys : LET row == db[Row(k)]
                                       IN  row # None => row.fingerprint = Payload(db, row)
  BY DEF MirrorFresh, MirrorHolds, FingerprintsFresh
<1>1. Settles(Undisturbed, db, master) /\ master = [k \in Keys |-> master[k]]
  BY DEF TurnsInv, Undisturbed, Quiet
<1>2. \A k \in Keys : master[k] = MirrorAt(db, k) /\ FreshAt(db, k)
  BY <1>1 DEF Settles
<1>3. master = Mirror(db)
  <2>1. Mirror(db) = [k \in Keys |-> MirrorAt(db, k)]
    BY DEF Mirror, MirrorAt
  <2> QED
    BY <1>1, <1>2, <2>1
<1> QED
  BY <1>2, <1>3 DEF FreshAt

\* A request that succeeds is committed.
LEMMA SucceedsByCommit ==
  ASSUME DesiredInv, TurnsInv, InTurn, ServerStep,
         NEW r \in Requests, tx[r].pc = "commit", tx'[r].pc = "done"
  PROVE  Commit(r)
<1>1. Open(r) /\ \A s \in Requests : Open(s) => s = r
  BY DEF TurnsInv, Open
<1>2. \A s \in Requests : Ended(s, "failed").pc = "failed"
  BY DEF Ended, Idle
<1>3. ASSUME NEW s \in Requests, NEW op \in Ops, Begin(s, op) PROVE FALSE
  BY <1>3 DEF Begin, Step, Go, DesiredInv
<1>4. ASSUME NEW s \in Requests, Work(s) PROVE Commit(r)
  <2>1. CASE Commit(s)
    <3>1. Open(s)
      BY <2>1 DEF Commit, Open
    <3> QED
      BY <1>1, <2>1, <3>1
  <2>2. CASE DeadlockVictim(s)
    BY <2>2, NoDeadlock
  <2>3. CASE ~Commit(s) /\ ~DeadlockVictim(s)
    <3>1. tx[s].pc \in {"resolve", "write", "reload", "list", "loop", "row", "answered"}
      BY <1>4, <2>3 DEF Work, At, EnsureResolve, EnsureWrite, EnsureMirror, DeleteResolve, DeleteWrite,
         DeleteMirror, SetHostEnvWrite, UpsertDeploymentWrite, RefreshList, NextRow, RefreshRow,
         RefreshEnd, DeleteDeploymentList, DeleteDeploymentMirror, DeleteDeploymentRow,
         DeleteDeploymentEnd
    <3>2. Open(s)
      BY <3>1 DEF Open
    <3> QED
      BY <1>1, <3>1, <3>2
  <2> QED
    BY <2>1, <2>2, <2>3
<1>5. ASSUME NEW s \in Requests, CallFails(s) \/ CommitFails(s) PROVE FALSE
  BY <1>2, <1>5 DEF CallFails, CommitFails, Throw, Go, DesiredInv
<1>6. ASSUME NEW m \in wire, MasterHandles(m) PROVE FALSE
  BY <1>1, <1>6 DEF TurnsInv, Open
<1>7. CASE ServerCrash
  BY <1>1, <1>2, <1>7 DEF ServerCrash
<1>8. CASE MasterRestart
  BY <1>8, NoRestart
<1> QED
  BY <1>3, <1>4, <1>5, <1>6, <1>7, <1>8 DEF ServerStep, Began, Worked, Around

LEMMA CommitMirrors ==
  ASSUME DesiredInv, TurnsInv, InTurn, NEW r \in Requests, Commit(r), NEW k \in Touches(r)
  PROVE  master'[k] = Mirror(db')[k]
<1> DEFINE t == tx[r]
           V == Seen(db, t)
<1>1. t.pc = "commit" /\ Open(r) /\ db' = V /\ master' = master
  BY ViewIsSeen DEF Commit, Open
<1>2. Told(Undisturbed, master, V, t)
  BY <1>1, OfOpen DEF RightIn
<1>3. k \in Keys /\ Due(Undisturbed, V, t, k) /\ ~Untold(V, t, k)
  <2>1. CASE t.op.kind \in Ones
    BY <1>1, <2>1, OfOp DEF Touches, Due, Untold, Ones, Ends
  <2>2. CASE t.op.kind \notin Ones
    BY <1>1, <2>2, ConcernedIs, ConcernedKeys DEF Touches, Due, Untold, Ones
  <2> QED
    BY <2>1, <2>2
<1>4. Mirror(V)[k] = MirrorAt(V, k)
  BY <1>3 DEF Mirror, MirrorAt
<1> QED
  BY <1>1, <1>2, <1>3, <1>4 DEF Told

\* When requests come one at a time and nothing fails, the master holds for each
\* definition what the slave is to launch, and each fingerprint is that of the row with
\* its environments, whenever no request is under way (mirrorDesiredProcessToMaster,
\* refreshDesiredProcessRuntimeFingerprints and their callers).
THEOREM MasterFollows == PageSpec => []MirrorFresh
<1>1. PageInit => DesiredInv /\ TurnsInv
  BY InitDesired, InitTurns DEF PageInit, PaneInit
<1>2. DesiredInv /\ TurnsInv /\ [PageNext]_pageVars => (DesiredInv /\ TurnsInv)'
  BY PagesStep, ServerKeeps, Same, ServerTurns, SameTurns DEF pageVars, paneVars
<1> QED
  BY <1>1, <1>2, TurnsGive, PTL DEF PageSpec

\* Of requests one at a time, one that succeeds leaves the master with what the database
\* says of the definitions it touched, whatever earlier requests that failed have left
\* (the mirror calls inside each transaction).
THEOREM SuccessIsMirrored == PageSpec => SuccessMirrors
<1>1. PageInit => DesiredInv /\ TurnsInv
  BY InitDesired, InitTurns DEF PageInit, PaneInit
<1>2. DesiredInv /\ TurnsInv /\ [PageNext]_pageVars => (DesiredInv /\ TurnsInv)'
  BY PagesStep, ServerKeeps, Same, ServerTurns, SameTurns DEF pageVars, paneVars
<1>3. DesiredInv /\ TurnsInv /\ [PageNext]_pageVars =>
        [\A r \in Requests : (InTurn /\ tx[r].pc = "commit" /\ tx'[r].pc = "done") =>
            \A k \in Touches(r) : master'[k] = Mirror(db')[k]]_vars
  BY PagesStep, SucceedsByCommit, CommitMirrors DEF pageVars, paneVars
<1> QED
  BY <1>1, <1>2, <1>3, PTL DEF PageSpec, SuccessMirrors

-----------------------------------------------------------------------------
(* What a page shows of a host.                                            *)

Actions == {"none", "kill", "loading"} \union Requests

PaneTyped ==
  pane \in [open : BOOLEAN, polling : {pane.polling}, action : Actions, loading : BOOLEAN, busy : BOOLEAN,
            error : BOOLEAN, lags : BOOLEAN, shown : {pane.shown}, opens : Nat, fails : {pane.fails}]

LoadTyped(load) ==
  load \in [kind : {"full", "runs", "none"}, action : BOOLEAN, got : {load.got}]

Full(s) == loads[s].kind = "full"

\* A change has been made, and the page has not gone on yet.
Changed == pane.action \in Requests /\ tx[pane.action].pc = "done"

\* The load of a change that is over is a full one, the only one of a change.
ActionLoads ==
  /\ \A s \in Slots : loads[s].action => Full(s) /\ pane.action = "loading"
  /\ \A s, t \in Slots : loads[s].action /\ loads[t].action => s = t
  /\ pane.action = "loading" => \E s \in Slots : loads[s].action

\* As long as no full loads have overlapped, and no change was given up.
FullLoads ==
  /\ \A s, t \in Slots : Full(s) /\ Full(t) => s = t
  /\ pane.loading => \E s \in Slots : Full(s)

\* Only the page's change is open.
OnlyChange == setting.opens # 0 => \A r \in Requests : Open(r) => pane.action = r

\* What a full load has read is still there, unless it is read again.
GotRight ==
  \A s \in Slots : Full(s) /\ "desired" \in DOMAIN loads[s].got =>
      loads[s].got["desired"] = Read("desired") \/ Changed

ShownFresh == "desired" \in DOMAIN pane.shown /\ pane.shown["desired"] = Read("desired")
NeverOpened == ~pane.open /\ pane.shown = <<>> /\ \A s \in Slots : loads[s].kind = "none"

\* What is shown is right, or will be loaded, or the user was told of an error.
ShownRight ==
  pane.action # "none" \/ pane.error \/ (\E s \in Slots : Full(s)) \/ NeverOpened \/ ShownFresh

PaneInv ==
  /\ PaneTyped /\ loads = [s \in Slots |-> loads[s]] /\ \A s \in Slots : LoadTyped(loads[s])
  /\ setting.opens = 0 => NeverOpened /\ pane.action = "none" /\ ~pane.error
  /\ pane.busy <=> pane.action # "none"
  /\ ActionLoads
  /\ ~pane.lags => FullLoads /\ OnlyChange /\ GotRight /\ ShownRight

\* What a step of the server does to what pages look at.
LEMMA ServerGoes ==
  ASSUME DesiredInv, setting.opens # 0, Next
  PROVE  /\ setting' = setting
         /\ \A r \in Requests : Open(r)' => Open(r)
         /\ \A r \in Requests : tx[r].pc = "done" => tx'[r].pc = "done"
         /\ db' = db \/ \E r \in Requests : Open(r) /\ tx'[r].pc = "done"
<1>0. tx = [r \in Requests |-> tx[r]] /\ setting' = setting
  BY DEF DesiredInv, Next
<1> DEFINE Fine == /\ \A r \in Requests : Open(r)' => Open(r)
                   /\ \A r \in Requests : tx[r].pc = "done" => tx'[r].pc = "done"
                   /\ db' = db \/ \E r \in Requests : Open(r) /\ tx'[r].pc = "done"
\* One request goes on.
<1>1. ASSUME NEW r, NEW next, Open(r), tx' = [tx EXCEPT ![r] = next], db' = db PROVE Fine
  BY <1>0, <1>1 DEF Open
<1>2. ASSUME NEW r \in Requests, Work(r) PROVE Fine
  <2>1. CASE Commit(r)
    <3>1. Open(r) /\ tx' = [tx EXCEPT ![r] = Ended(r, "done")]
      BY <2>1 DEF Commit, Go, Open
    <3>2. Ended(r, "done").pc = "done"
      BY DEF Ended, Idle
    <3> QED
      BY <1>0, <3>1, <3>2 DEF Open
  <2>2. ASSUME ~Commit(r) PROVE Open(r) /\ db' = db /\ \E next : tx' = [tx EXCEPT ![r] = next]
    <3>1. \A next : Go(r, next) => \E n : tx' = [tx EXCEPT ![r] = n]
      BY DEF Go
    <3>2. \A next : Step(r, next) => db' = db /\ \E n : tx' = [tx EXCEPT ![r] = n]
      BY <3>1 DEF Step
    <3>3. Throw(r) => db' = db /\ \E n : tx' = [tx EXCEPT ![r] = n]
      BY <3>1 DEF Throw
    <3>4. \A k, body, next : Send(r, k, body, next) => db' = db /\ \E n : tx' = [tx EXCEPT ![r] = n]
      BY <3>1 DEF Send
    <3>5. \A pc, kinds : At(r, pc, kinds) => tx[r].pc = pc
      BY DEF At
    <3>6. Open(r)
      BY <1>2, <2>2, <3>5
         DEF Work, EnsureResolve, EnsureWrite, EnsureMirror, DeleteResolve, DeleteWrite, DeleteMirror,
             SetHostEnvWrite, UpsertDeploymentWrite, RefreshList, NextRow, RefreshRow, RefreshEnd,
             DeleteDeploymentList, DeleteDeploymentMirror, DeleteDeploymentRow, DeleteDeploymentEnd,
             DeadlockVictim, Open
    <3> QED
      BY <1>2, <2>2, <3>2, <3>3, <3>4, <3>6
         DEF Work, EnsureResolve, EnsureWrite, EnsureMirror, DeleteResolve, DeleteWrite, DeleteMirror,
             SetHostEnvWrite, UpsertDeploymentWrite, RefreshList, NextRow, RefreshRow, RefreshEnd,
             DeleteDeploymentList, DeleteDeploymentMirror, DeleteDeploymentRow, DeleteDeploymentEnd,
             DeadlockVictim
  <2> QED
    BY <1>1, <2>1, <2>2
<1>3. ASSUME NEW r \in Requests, CallFails(r) PROVE Fine
  BY <1>1, <1>3 DEF CallFails, Go, Open
<1>4. ASSUME NEW r \in Requests, CommitFails(r) PROVE Fine
  BY <1>1, <1>4 DEF CommitFails, Throw, Go, Open
<1>5. ASSUME NEW m \in wire, MasterHandles(m) PROVE Fine
  <2>1. tx[m.req].pc = "await" => Open(m.req)
    BY DEF Open
  <2>2. db' = db
    BY <1>5 DEF MasterHandles
  <2>3. tx' = tx \/ (tx[m.req].pc = "await" /\ \E next : tx' = [tx EXCEPT ![m.req] = next])
    BY <1>5 DEF MasterHandles, Go
  <2> QED
    BY <1>1, <2>1, <2>2, <2>3 DEF Open
<1>6. CASE ServerCrash
  <2>1. \A r : Ended(r, "failed").pc = "failed"
    BY DEF Ended, Idle
  <2>2. \A r \in Requests : tx'[r] = tx[r] \/ (Open(r) /\ tx'[r] = Ended(r, "failed"))
    BY <1>6 DEF ServerCrash
  <2>3. db' = db
    BY <1>6 DEF ServerCrash
  <2>4. \A r \in Requests : tx'[r] = tx[r] \/ (tx[r].pc \notin {"idle", "done", "failed"} /\ tx'[r].pc = "failed")
    BY <2>1, <2>2 DEF Open
  <2> QED
    BY <1>0, <2>3, <2>4 DEF Open
<1>7. CASE MasterRestart
  <2>1. \A r : Ended(r, "failed").pc = "failed"
    BY DEF Ended, Idle
  <2>2. \A r \in Requests : tx'[r] = tx[r] \/ (tx[r].pc = "await" /\ tx'[r] = Ended(r, "failed"))
    BY <1>7 DEF MasterRestart
  <2>3. db' = db
    BY <1>7 DEF MasterRestart
  <2>4. \A r \in Requests : tx'[r] = tx[r] \/ (tx[r].pc \notin {"idle", "done", "failed"} /\ tx'[r].pc = "failed")
    BY <2>1, <2>2 DEF Open
  <2> QED
    BY <1>0, <2>3, <2>4 DEF Open
<1> QED
  BY <1>0, <1>2, <1>3, <1>4, <1>5, <1>6, <1>7 DEF Next

LEMMA ReadSame == ASSUME db' = db PROVE Read("desired")' = Read("desired")
BY DEF Read

\* The server goes on beside the page.
LEMMA ServerBesidePane ==
  ASSUME DesiredInv, PaneInv, Next, UNCHANGED <<reported, pane, loads>>
  PROVE  PaneInv'
<1>0. setting' = setting /\ (\A s : Full(s)' = Full(s)) /\ NeverOpened' = NeverOpened
      /\ ActionLoads' = ActionLoads /\ FullLoads' = FullLoads
  BY DEF Next, Full, NeverOpened, ActionLoads, FullLoads
<1>1. CASE setting.opens = 0
  <2>1. NeverOpened /\ \A s \in Slots : ~Full(s)
    BY <1>1 DEF PaneInv, NeverOpened, Full
  <2> QED
    BY <1>0, <1>1, <2>1 DEF PaneInv, PaneTyped, LoadTyped, OnlyChange, GotRight, ShownRight
<1>2. CASE setting.opens # 0
  <2>1. /\ \A r \in Requests : Open(r)' => Open(r)
        /\ \A r \in Requests : tx[r].pc = "done" => tx'[r].pc = "done"
        /\ db' = db \/ \E r \in Requests : Open(r) /\ tx'[r].pc = "done"
    BY <1>2, ServerGoes
  <2>2. OnlyChange => OnlyChange' /\ (db' = db \/ Changed')
    BY <1>0, <1>2, <2>1 DEF OnlyChange, Changed
  <2>3. Changed => Changed'
    BY <2>1 DEF Changed
  <2>4. OnlyChange /\ GotRight => GotRight'
    BY <1>0, <2>2, <2>3, ReadSame DEF GotRight
  <2>5. OnlyChange /\ ShownRight => ShownRight'
    <3>1. Changed' => pane.action # "none"
      BY PaneAssumption DEF Changed
    <3> QED
      BY <1>0, <2>2, <3>1, ReadSame DEF ShownRight, ShownFresh
  <2> QED
    BY <1>0, <2>2, <2>4, <2>5 DEF PaneInv, PaneTyped, LoadTyped
<1> QED
  BY <1>1, <1>2

\* What a record of the page says, as PaneTyped does of the page.
PaneLike(p) ==
  p \in [open : BOOLEAN, polling : {p.polling}, action : Actions, loading : BOOLEAN, busy : BOOLEAN,
         error : BOOLEAN, lags : BOOLEAN, shown : {p.shown}, opens : Nat, fails : {p.fails}]

\* A load begins.
LEMMA StartKeeps ==
  ASSUME PaneInv, NEW s \in Slots, NEW kind \in {"full", "runs"}, NEW action \in BOOLEAN, NEW next,
         StartLoad(s, kind, action, next), setting' = setting, setting.opens # 0,
         PaneLike(next), next.lags = pane.lags, next.loading = pane.loading, next.shown = pane.shown,
         next.error = pane.error, next.busy <=> next.action # "none",
         next.action = IF action THEN "loading" ELSE pane.action,
         kind = "runs" => pane.open,
         action => kind = "full" /\ (pane.action = "kill" \/ Changed)
  PROVE  PaneInv'
<1> DEFINE new == [kind |-> kind, action |-> action, got |-> <<>>]
           overlap == kind = "full" /\ \E t \in Slots : Full(t)
<1>1. /\ loads' = [loads EXCEPT ![s] = new] /\ UNCHANGED vars /\ loads[s].kind = "none"
      /\ pane' = [next EXCEPT !.loading = @ \/ kind = "full", !.lags = @ \/ overlap]
  BY DEF StartLoad, Takes, NoLoad, ServerSame, Full
<1>2. /\ PaneTyped' /\ pane'.action = next.action /\ (pane'.busy <=> next.busy) /\ (pane'.error <=> next.error)
      /\ pane'.shown = next.shown /\ (pane'.open <=> next.open)
      /\ (pane'.loading <=> pane.loading \/ kind = "full")
      /\ (pane'.lags <=> pane.lags \/ overlap)
  BY <1>1 DEF PaneLike, PaneTyped
<1>3. /\ new.kind = kind /\ (new.action <=> action) /\ DOMAIN new.got = {} /\ LoadTyped(new)
  BY DEF LoadTyped
<1>4. /\ loads' = [t \in Slots |-> loads'[t]] /\ loads'[s] = new
      /\ \A t \in Slots : t # s => loads'[t] = loads[t]
  BY <1>1 DEF PaneInv
<1> HIDE DEF new, overlap
<1>5. /\ Full(s)' <=> kind = "full"
      /\ \A t \in Slots : t # s => (Full(t)' <=> Full(t))
      /\ ~Full(s)
  BY <1>1, <1>3, <1>4 DEF Full
<1>6. action => pane.action \notin {"none", "loading"}
  BY PaneAssumption DEF Changed
<1>7. ActionLoads'
  <2>1. \A t \in Slots : loads'[t].action <=> (t = s /\ action) \/ (t # s /\ loads[t].action)
    BY <1>3, <1>4
  <2>2. ~loads[s].action /\ (action => \A t \in Slots : ~loads[t].action)
    BY <1>5, <1>6 DEF PaneInv, ActionLoads
  <2>3. pane'.action = "loading" => action \/ pane.action = "loading"
    BY <1>2
  <2> QED
    BY <1>2, <1>5, <1>6, <2>1, <2>2, <2>3 DEF PaneInv, ActionLoads
<1>8. ASSUME ~pane'.lags PROVE FullLoads' /\ OnlyChange' /\ GotRight' /\ ShownRight'
  <2>1. /\ FullLoads /\ OnlyChange /\ GotRight /\ ShownRight
        /\ kind = "full" => \A t \in Slots : ~Full(t)
    BY <1>2, <1>8 DEF PaneInv, overlap
  <2>2. FullLoads'
    BY <1>2, <1>5, <2>1 DEF FullLoads
  <2>3. OnlyChange'
    <3>1. \A r \in Requests : Open(r)' <=> Open(r)
      BY <1>1 DEF vars, Open
    <3>2. ASSUME action, NEW r \in Requests, Open(r) PROVE FALSE
      <4>1. pane.action = r
        BY <2>1, <3>2 DEF OnlyChange
      <4> QED
        BY <3>2, <4>1, PaneAssumption DEF Changed, Open
    <3> QED
      BY <1>2, <2>1, <3>1, <3>2 DEF OnlyChange
  <2>4. GotRight'
    <3>1. ASSUME NEW t \in Slots, Full(t)', "desired" \in DOMAIN loads'[t].got
          PROVE  loads'[t].got["desired"] = Read("desired")' \/ Changed'
      <4>1. t # s /\ Full(t) /\ loads'[t] = loads[t] /\ kind = "runs"
        BY <1>3, <1>4, <1>5, <2>1, <3>1
      <4>2. pane'.action = pane.action /\ tx' = tx /\ db' = db
        BY <1>1, <1>2, <4>1 DEF vars
      <4> QED
        BY <2>1, <3>1, <4>1, <4>2, ReadSame DEF GotRight, Changed
    <3> QED
      BY <3>1 DEF GotRight
  <2>5. ShownRight'
    <3>1. CASE kind = "full"
      BY <1>5, <3>1 DEF ShownRight
    <3>2. CASE kind = "runs"
      <4>1. ~NeverOpened /\ db' = db
        BY <1>1, <3>2 DEF NeverOpened, vars
      <4> QED
        BY <1>2, <1>5, <2>1, <3>2, <4>1, ReadSame DEF ShownRight, ShownFresh
    <3> QED
      BY <3>1, <3>2
  <2> QED
    BY <2>2, <2>3, <2>4, <2>5
<1>9. \A t \in Slots : LoadTyped(loads'[t])
  BY <1>3, <1>4 DEF PaneInv
<1> QED
  BY <1>2, <1>4, <1>7, <1>8, <1>9 DEF PaneInv

\* A load ends, with an error or its answers shown.
LEMMA EndKeeps ==
  ASSUME PaneInv, NEW s \in Slots, NEW next, EndLoad(s, next), setting' = setting, setting.opens # 0,
         loads[s].kind # "none",
         PaneLike(next), next.lags = pane.lags, next.loading = pane.loading,
         next.busy = pane.busy, next.action = pane.action, pane.error => next.error,
         Full(s) => \/ next.error
                    \/ /\ "desired" \in DOMAIN next.shown
                       /\ next.shown["desired"] = loads[s].got["desired"],
         Full(s) => next.error \/ "desired" \in DOMAIN loads[s].got,
         ~Full(s) /\ "desired" \in DOMAIN pane.shown =>
            "desired" \in DOMAIN next.shown /\ next.shown["desired"] = pane.shown["desired"]
  PROVE  PaneInv'
<1> DEFINE freed == [next EXCEPT !.loading = IF Full(s) THEN FALSE ELSE @, !.polling = PollingAfter(s)]
<1>1. /\ loads' = [loads EXCEPT ![s] = NoLoad] /\ UNCHANGED vars
      /\ pane' = IF loads[s].action THEN Over(freed) ELSE freed
  BY DEF EndLoad, ServerSame, Full
<1>2. /\ PaneLike(freed) /\ freed.action = next.action /\ freed.busy = next.busy /\ freed.error = next.error
      /\ freed.shown = next.shown /\ freed.open = next.open /\ freed.lags = next.lags
      /\ (freed.loading <=> pane.loading /\ ~Full(s))
  BY DEF PaneLike
<1> HIDE DEF freed
<1>3. /\ PaneTyped' /\ pane'.error = next.error /\ pane'.shown = next.shown /\ pane'.lags = pane.lags
      /\ (pane'.loading <=> pane.loading /\ ~Full(s))
      /\ pane'.action = (IF loads[s].action THEN "none" ELSE pane.action)
      /\ (pane'.busy <=> pane.busy /\ ~loads[s].action)
  <2>1. CASE loads[s].action
    BY <1>1, <1>2, <2>1 DEF Over, PaneLike, PaneTyped, Actions
  <2>2. CASE ~loads[s].action
    BY <1>1, <1>2, <2>2 DEF PaneLike, PaneTyped, PaneInv
  <2> QED
    BY <2>1, <2>2
<1>4. NoLoad.kind = "none" /\ ~NoLoad.action /\ LoadTyped(NoLoad)
  BY DEF NoLoad, LoadTyped
<1>5. /\ loads' = [t \in Slots |-> loads'[t]] /\ loads'[s] = NoLoad
      /\ \A t \in Slots : t # s => loads'[t] = loads[t]
  BY <1>1 DEF PaneInv
<1>6. ~Full(s)' /\ \A t \in Slots : t # s => (Full(t)' <=> Full(t))
  BY <1>4, <1>5 DEF Full
<1>7. loads[s].action => pane.action = "loading" /\ Full(s) /\ \A t \in Slots : t # s => ~loads[t].action
  BY DEF PaneInv, ActionLoads
<1>8. ActionLoads' /\ (pane'.busy <=> pane'.action # "none")
  BY <1>3, <1>4, <1>5, <1>6, <1>7 DEF PaneInv, ActionLoads
<1>9. ASSUME ~pane'.lags PROVE FullLoads' /\ OnlyChange' /\ GotRight' /\ ShownRight'
  <2>0. FullLoads /\ OnlyChange /\ GotRight /\ ShownRight
    BY <1>3, <1>9 DEF PaneInv
  <2>1. FullLoads'
    BY <1>3, <1>6, <2>0 DEF FullLoads
  <2>2. OnlyChange'
    <3>1. \A r \in Requests : Open(r)' <=> Open(r)
      BY <1>1 DEF vars, Open
    <3>2. loads[s].action => \A r \in Requests : ~Open(r)
      BY <1>7, <2>0, PaneAssumption DEF OnlyChange
    <3> QED
      BY <1>3, <2>0, <3>1, <3>2 DEF OnlyChange
  <2>3. Changed => Changed'
    BY <1>1, <1>3, <1>7, PaneAssumption DEF Changed, vars
  <2>4. db' = db
    BY <1>1 DEF vars
  <2>5. GotRight'
    BY <1>5, <1>6, <2>0, <2>3, <2>4, ReadSame DEF GotRight
  <2>6. ShownRight'
    <3>1. CASE Full(s)
      <4>1. ASSUME ~next.error PROVE ShownFresh' \/ Changed'
        BY <1>3, <2>0, <2>3, <2>4, <3>1, <4>1, ReadSame DEF GotRight, ShownFresh
      <4>2. Changed' => pane'.action # "none"
        BY PaneAssumption DEF Changed
      <4> QED
        BY <1>3, <4>1, <4>2 DEF ShownRight
    <3>2. CASE ~Full(s)
      <4>1. pane'.action = pane.action /\ ~NeverOpened
        BY <1>3, <1>7, <3>2 DEF NeverOpened
      <4>2. ShownFresh => ShownFresh'
        BY <1>3, <2>4, <3>2, ReadSame DEF ShownFresh
      <4>3. (\E t \in Slots : Full(t)) => (\E t \in Slots : Full(t)')
        BY <1>6, <3>2
      <4>4. pane.error => pane'.error
        BY <1>3
      <4> QED
        BY <2>0, <4>1, <4>2, <4>3, <4>4 DEF ShownRight
    <3> QED
      BY <3>1, <3>2
  <2> QED
    BY <2>1, <2>2, <2>5, <2>6
<1>10. \A t \in Slots : LoadTyped(loads'[t])
  BY <1>4, <1>5 DEF PaneInv
<1> QED
  BY <1>3, <1>5, <1>8, <1>9, <1>10 DEF PaneInv

\* Steps that leave the loads alone, or only read for one.
LEMMA ReadKeeps ==
  ASSUME PaneInv, NEW s \in Slots, ReadList(s), setting' = setting, setting.opens # 0
  PROVE  PaneInv'
<1>1. PICK list \in AskedBy(loads[s].kind) \ DOMAIN loads[s].got :
        loads' = [loads EXCEPT ![s].got = With(@, list, Read(list))]
  BY DEF ReadList
<1> DEFINE got == With(loads[s].got, list, Read(list))
           new == [loads[s] EXCEPT !.got = got]
<1>2. loads' = [loads EXCEPT ![s] = new] /\ UNCHANGED vars /\ pane' = pane
  BY <1>1 DEF ReadList, ServerSame
<1>3. DOMAIN got = DOMAIN loads[s].got \union {list} /\ got[list] = Read(list)
      /\ \A l \in DOMAIN loads[s].got : l # list => got[l] = loads[s].got[l]
  BY DEF With
<1> HIDE DEF got
<1>4. LoadTyped(new) /\ new.kind = loads[s].kind /\ new.action = loads[s].action /\ new.got = got
  BY DEF PaneInv, LoadTyped
<1> HIDE DEF new
<1>5. /\ loads' = [t \in Slots |-> loads'[t]] /\ loads'[s] = new
      /\ \A t \in Slots : t # s => loads'[t] = loads[t]
  BY <1>2 DEF PaneInv
<1>6. \A t \in Slots : (Full(t)' <=> Full(t)) /\ loads'[t].action = loads[t].action
  BY <1>4, <1>5 DEF Full
<1>7. loads[s].kind # "none"
  BY <1>1 DEF AskedBy
<1>8. GotRight => GotRight'
  <2>1. db' = db /\ (Changed' <=> Changed)
    BY <1>2 DEF vars, Changed
  <2> QED
    BY <1>1, <1>3, <1>4, <1>5, <1>6, <2>1, ReadSame DEF GotRight
<1>9. ShownRight => ShownRight'
  <2>1. db' = db /\ ~NeverOpened
    BY <1>2, <1>7 DEF vars, NeverOpened
  <2> QED
    BY <1>2, <1>6, <2>1, ReadSame DEF ShownRight, ShownFresh
<1>10. OnlyChange' <=> OnlyChange
  BY <1>2 DEF vars, OnlyChange, Open
<1>11. (ActionLoads => ActionLoads') /\ (FullLoads => FullLoads')
  BY <1>2, <1>6 DEF ActionLoads, FullLoads
<1> QED
  BY <1>2, <1>4, <1>5, <1>8, <1>9, <1>10, <1>11 DEF PaneInv, PaneTyped

\* The page's flags change, and no load begins or ends.
LEMMA FlagsKeep ==
  ASSUME PaneInv, UNCHANGED loads, setting' = setting, setting.opens # 0, db' = db,
         PaneTyped', pane'.shown = pane.shown, pane'.loading = pane.loading, pane.lags => pane'.lags,
         pane'.busy <=> pane'.action # "none",
         pane'.action = pane.action \/ (pane.action # "loading" /\ pane'.action # "loading"),
         Changed /\ ~pane'.lags => Changed',
         OnlyChange /\ ~pane'.lags => OnlyChange',
         ShownRight /\ ~pane'.lags => ShownRight'
  PROVE  PaneInv'
<1>1. \A s \in Slots : (Full(s)' <=> Full(s)) /\ loads'[s] = loads[s]
  BY DEF Full
<1>2. (ActionLoads => ActionLoads') /\ (FullLoads => FullLoads')
  BY <1>1 DEF ActionLoads, FullLoads
<1>3. GotRight /\ ~pane'.lags => GotRight'
  BY <1>1, ReadSame DEF GotRight
<1> QED
  BY <1>1, <1>2, <1>3 DEF PaneInv, LoadTyped

LEMMA PressedKeeps ==
  ASSUME DesiredInv, PaneInv, NEW action \in {"kill"} \union Requests, Pressed(action), setting' = setting,
         UNCHANGED vars \/ \E op \in Ops : action \in Requests /\ Begin(action, op)
  PROVE  PaneInv'
<1>1. /\ pane.open /\ ~pane.busy /\ UNCHANGED loads
      /\ pane' = [pane EXCEPT !.busy = TRUE, !.error = FALSE, !.action = action]
  BY DEF Pressed
<1>2. setting.opens # 0 /\ pane.action = "none"
  BY <1>1 DEF PaneInv, NeverOpened
<1>3. /\ PaneTyped' /\ pane'.action = action /\ pane'.busy /\ pane'.shown = pane.shown
      /\ pane'.loading = pane.loading /\ pane'.lags = pane.lags
  BY <1>1 DEF PaneInv, PaneTyped, Actions
<1>4. db' = db /\ \A r \in Requests : Open(r)' => Open(r) \/ r = action
  <2>1. CASE UNCHANGED vars
    BY <2>1 DEF vars, Open
  <2>2. ASSUME NEW op \in Ops, action \in Requests, Begin(action, op)
        PROVE  db' = db /\ \A r \in Requests : Open(r)' => Open(r) \/ r = action
    BY <2>2 DEF DesiredInv, Begin, Step, Go, Open
  <2> QED
    BY <2>1, <2>2
<1>5. action \notin {"none", "loading"} /\ "none" \notin Requests
  BY PaneAssumption
<1>6. ~Changed
  BY <1>2, <1>5 DEF Changed
<1>7. OnlyChange => OnlyChange'
  BY <1>2, <1>3, <1>4, <1>5 DEF OnlyChange
<1>8. ShownRight'
  BY <1>3, <1>5 DEF ShownRight
<1> QED
  BY <1>1, <1>2, <1>3, <1>4, <1>5, <1>6, <1>7, <1>8, FlagsKeep

LEMMA ClosingKeeps == ASSUME PaneInv, ClosePane PROVE PaneInv'
<1>1. /\ pane.open /\ UNCHANGED <<loads, vars>>
      /\ pane' = [pane EXCEPT !.open = FALSE, !.polling = 0]
  BY DEF ClosePane, ServerSame
<1>2. setting.opens # 0 /\ ~NeverOpened
  BY <1>1 DEF PaneInv, NeverOpened
<1>3. /\ PaneTyped' /\ pane'.action = pane.action /\ pane'.busy = pane.busy /\ pane'.shown = pane.shown
      /\ pane'.loading = pane.loading /\ pane'.lags = pane.lags /\ pane'.error = pane.error
  BY <1>1 DEF PaneInv, PaneTyped
<1>4. db' = db /\ setting' = setting /\ tx' = tx
  BY <1>1 DEF vars
<1>5. Changed => Changed'
  BY <1>3, <1>4 DEF Changed
<1>6. OnlyChange => OnlyChange'
  BY <1>3, <1>4 DEF OnlyChange, Open
<1>7. ShownRight => ShownRight'
  BY <1>1, <1>2, <1>3, <1>4, ReadSame DEF ShownRight, ShownFresh, Full
<1>8. pane'.busy <=> pane'.action # "none"
  BY <1>3 DEF PaneInv
<1> QED
  BY <1>1, <1>2, <1>3, <1>4, <1>5, <1>6, <1>7, <1>8, FlagsKeep

LEMMA ChangeFailsKeeps == ASSUME PaneInv, ChangeFails PROVE PaneInv'
<1>1. /\ UNCHANGED <<loads, vars>> /\ pane.action \notin {"none", "loading"}
      /\ PaneTyped' /\ pane'.action = "none" /\ ~pane'.busy /\ pane'.shown = pane.shown
      /\ pane'.loading = pane.loading /\ (pane.lags => pane'.lags) /\ pane'.error
      /\ pane'.lags \/ pane.action = "kill" \/ (pane.action \in Requests /\ tx[pane.action].pc = "failed")
  <2>1. UNCHANGED <<loads, vars>> /\ pane.action \notin {"none", "loading"}
    BY PaneAssumption DEF ChangeFails, ServerSame
  <2>2. CASE pane.action \in Requests /\ tx[pane.action].pc = "failed" /\ pane' = Over([pane EXCEPT !.error = TRUE])
    <3> DEFINE told == [pane EXCEPT !.error = TRUE]
    <3>1. /\ PaneLike(told) /\ told.error /\ told.shown = pane.shown /\ told.loading = pane.loading
          /\ told.lags = pane.lags /\ pane' = Over(told)
      BY <2>2 DEF PaneInv, PaneTyped, PaneLike
    <3> HIDE DEF told
    <3> QED
      BY <2>1, <2>2, <3>1 DEF Over, PaneTyped, PaneLike, Actions
  <2>3. CASE pane' = Over([pane EXCEPT !.error = TRUE, !.fails = @ + 1, !.lags = @ \/ pane.action # "kill"])
    <3> DEFINE told == [pane EXCEPT !.error = TRUE, !.fails = @ + 1, !.lags = @ \/ pane.action # "kill"]
    <3>1. /\ PaneLike(told) /\ told.error /\ told.shown = pane.shown /\ told.loading = pane.loading
          /\ (told.lags <=> pane.lags \/ pane.action # "kill") /\ pane' = Over(told)
      BY <2>3 DEF PaneInv, PaneTyped, PaneLike
    <3> HIDE DEF told
    <3> QED
      BY <2>1, <3>1 DEF Over, PaneTyped, PaneLike, Actions
  <2> QED
    BY <2>1, <2>2, <2>3 DEF ChangeFails
<1>2. db' = db /\ setting' = setting /\ tx' = tx /\ setting.opens # 0
  BY <1>1 DEF vars, PaneInv
<1>3. Changed => pane'.lags
  BY <1>1, PaneAssumption DEF Changed
<1>4. OnlyChange /\ ~pane'.lags => OnlyChange'
  <2>1. \A r \in Requests : Open(r)' <=> Open(r)
    BY <1>2 DEF Open
  <2>2. OnlyChange /\ ~pane'.lags => \A r \in Requests : ~Open(r)
    BY <1>1, <1>2, PaneAssumption DEF OnlyChange, Open
  <2> QED
    BY <2>1, <2>2 DEF OnlyChange
<1>5. ShownRight'
  BY <1>1 DEF ShownRight
<1> QED
  BY <1>1, <1>2, <1>3, <1>4, <1>5, FlagsKeep

LEMMA PaneSame ==
  ASSUME PaneInv, UNCHANGED <<vars, pane, loads>> PROVE PaneInv'
<1>1. setting' = setting /\ db' = db /\ tx' = tx
  BY DEF vars
<1>2. (OnlyChange => OnlyChange') /\ (GotRight => GotRight') /\ (ShownRight => ShownRight')
  BY <1>1, ReadSame DEF OnlyChange, Open, GotRight, ShownRight, ShownFresh, Full, Changed, NeverOpened
<1>3. NeverOpened' = NeverOpened /\ ActionLoads' = ActionLoads /\ FullLoads' = FullLoads
  BY DEF NeverOpened, ActionLoads, FullLoads, Full
<1> QED
  BY <1>1, <1>2, <1>3 DEF PaneInv, PaneTyped, LoadTyped

LEMMA SettingsTyped == setting \in Settings => setting.opens \in Nat
BY DesiredAssumption DEF SettingKinds

\* Every step of the page keeps it.
LEMMA PaneKeeps == DesiredInv /\ PaneInv /\ [PageNext]_pageVars => PaneInv'
<1> SUFFICES ASSUME DesiredInv, PaneInv, [PageNext]_pageVars PROVE PaneInv'
  OBVIOUS
<1>1. CASE Next /\ UNCHANGED <<reported, pane, loads>>
  BY <1>1, ServerBesidePane
<1>2. PaneLike(pane) /\ \A p : PaneLike(p) => p.action \in Actions
  BY DEF PaneLike, PaneInv, PaneTyped
<1>3. pane.open => setting.opens # 0
  BY DEF PaneInv, NeverOpened
<1>4. \A s \in Slots : loads[s].kind # "none" => setting.opens # 0
  BY DEF PaneInv, NeverOpened
<1>5. pane.action # "none" => setting.opens # 0
  BY DEF PaneInv
<1>6. ServerSame => setting' = setting
  BY DEF ServerSame, vars
<1>7. ASSUME NEW s \in Slots, OpenPane(s) PROVE PaneInv'
  <2> DEFINE more == pane.opens + 1
             next == [pane EXCEPT !.open = TRUE, !.polling = s, !.opens = more]
  <2>0. pane.opens \in Nat /\ setting.opens \in Nat /\ more \in Nat
    BY SettingsTyped DEF PaneInv, PaneTyped, DesiredInv
  <2>1. StartLoad(s, "full", FALSE, next) /\ pane.opens < setting.opens
    BY <1>7 DEF OpenPane
  <2> HIDE DEF more
  <2>4. setting.opens # 0
    BY <2>0, <2>1
  <2>2. /\ PaneLike(next) /\ next.lags = pane.lags /\ next.loading = pane.loading /\ next.shown = pane.shown
        /\ next.error = pane.error /\ next.busy = pane.busy /\ next.action = pane.action
    BY <2>0 DEF PaneLike, PaneInv, PaneTyped
  <2>3. setting' = setting
    BY <1>6, <2>1 DEF StartLoad
  <2> HIDE DEF next
  <2> QED
    BY <2>1, <2>2, <2>3, <2>4, StartKeeps DEF PaneInv
<1>8. ASSUME NEW s \in Slots, Poll(s) PROVE PaneInv'
  <2> DEFINE next == [pane EXCEPT !.polling = s]
  <2>1. StartLoad(s, "runs", FALSE, next) /\ pane.open
    BY <1>8 DEF Poll
  <2>2. /\ PaneLike(next) /\ next.lags = pane.lags /\ next.loading = pane.loading /\ next.shown = pane.shown
        /\ next.error = pane.error /\ next.busy = pane.busy /\ next.action = pane.action
    BY DEF PaneLike, PaneInv, PaneTyped
  <2>3. setting' = setting
    BY <1>6, <2>1 DEF StartLoad
  <2> HIDE DEF next
  <2> QED
    BY <1>3, <2>1, <2>2, <2>3, StartKeeps DEF PaneInv
<1>9. ASSUME NEW s \in Slots, Refresh(s) PROVE PaneInv'
  <2>1. StartLoad(s, "full", FALSE, pane) /\ pane.open
    BY <1>9 DEF Refresh
  <2>2. setting' = setting
    BY <1>6, <2>1 DEF StartLoad
  <2> QED
    BY <1>2, <1>3, <2>1, <2>2, StartKeeps DEF PaneInv
<1>10. ASSUME NEW s \in Slots, ChangeDone(s) PROVE PaneInv'
  <2> DEFINE next == [pane EXCEPT !.action = "loading"]
  <2>1. StartLoad(s, "full", TRUE, next) /\ (pane.action = "kill" \/ Changed)
    BY <1>10 DEF ChangeDone, Changed
  <2>2. /\ PaneLike(next) /\ next.lags = pane.lags /\ next.loading = pane.loading /\ next.shown = pane.shown
        /\ next.error = pane.error /\ next.busy = pane.busy /\ next.action = "loading"
    BY DEF PaneLike, PaneInv, PaneTyped, Actions
  <2>3. setting' = setting
    BY <1>6, <2>1 DEF StartLoad
  <2>4. pane.action # "none"
    BY <2>1, PaneAssumption DEF Changed
  <2> HIDE DEF next
  <2> QED
    BY <1>5, <2>1, <2>2, <2>3, <2>4, StartKeeps DEF PaneInv
<1>11. ASSUME NEW s \in Slots, ReadList(s) PROVE PaneInv'
  <2>1. loads[s].kind # "none" /\ setting' = setting
    BY <1>6, <1>11 DEF ReadList, AskedBy
  <2> QED
    BY <1>4, <1>11, <2>1, ReadKeeps
<1>12. ASSUME NEW s \in Slots, Arrive(s) PROVE PaneInv'
  <2> DEFINE merged == Merge(loads[s].got)
             next == [pane EXCEPT !.shown = merged]
  <2>1. EndLoad(s, next) /\ loads[s].kind # "none" /\ DOMAIN loads[s].got = AskedBy(loads[s].kind)
    BY <1>12 DEF Arrive
  <2>2. /\ \A l \in DOMAIN loads[s].got : l \in DOMAIN merged /\ merged[l] = loads[s].got[l]
        /\ \A l \in DOMAIN pane.shown : l \notin DOMAIN loads[s].got => l \in DOMAIN merged /\ merged[l] = pane.shown[l]
    BY DEF Merge
  <2> HIDE DEF merged
  <2>3. /\ PaneLike(next) /\ next.lags = pane.lags /\ next.loading = pane.loading /\ next.shown = merged
        /\ next.error = pane.error /\ next.busy = pane.busy /\ next.action = pane.action
    BY DEF PaneLike, PaneInv, PaneTyped
  <2>4. setting' = setting
    BY <1>6, <2>1 DEF EndLoad
  <2>5. /\ Full(s) => "desired" \in DOMAIN loads[s].got
        /\ ~Full(s) => "desired" \notin DOMAIN loads[s].got
    BY <2>1 DEF Full, AskedBy, Lists, PaneInv, LoadTyped
  <2> HIDE DEF next
  <2> QED
    BY <1>4, <2>1, <2>2, <2>3, <2>4, <2>5, EndKeeps
<1>13. ASSUME NEW s \in Slots, LoadFails(s) PROVE PaneInv'
  <2> DEFINE next == [pane EXCEPT !.error = TRUE, !.fails = @ + 1]
  <2>1. EndLoad(s, next) /\ loads[s].kind # "none"
    BY <1>13 DEF LoadFails
  <2>2. /\ PaneLike(next) /\ next.lags = pane.lags /\ next.loading = pane.loading /\ next.shown = pane.shown
        /\ next.error /\ next.busy = pane.busy /\ next.action = pane.action
    BY DEF PaneLike, PaneInv, PaneTyped
  <2>3. setting' = setting
    BY <1>6, <2>1 DEF EndLoad
  <2> HIDE DEF next
  <2> QED
    BY <1>4, <2>1, <2>2, <2>3, EndKeeps
<1>14. ASSUME NEW r \in Requests, Press(r) PROVE PaneInv'
  BY <1>14, PressedKeeps DEF Press
<1>15. CASE PressKill
  BY <1>15, PressedKeeps DEF PressKill, vars
<1>16. CASE Report
  BY <1>16, PaneSame DEF Report
<1>17. ASSUME UNCHANGED paneVars PROVE PaneInv'
  BY <1>17, PaneSame DEF paneVars
<1>18. CASE PaneNext
  BY <1>1, <1>7, <1>8, <1>9, <1>10, <1>11, <1>12, <1>13, <1>14, <1>15, <1>16, <1>18, ClosingKeeps, ChangeFailsKeeps
     DEF PaneNext
<1>19. ASSUME NEW p \in Projects,
              onSelectProject(p) \/ \E todo \in Toggles : Toggle(p, todo)
       PROVE  PaneInv'
  BY <1>17, <1>19 DEF onSelectProject, Toggle, Does
<1>20. ASSUME \/ \E panel \in {"projects", "environment", "top"} : ShowPanel(panel)
              \/ \E range \in Begins \union {None} : SavePortRange(range)
              \/ PollStats
       PROVE  PaneInv'
  BY <1>17, <1>20 DEF ShowPanel, SavePortRange, PollStats, Does
<1>21. ASSUME NEW s \in Jobs, Answers(s) \/ ShowAnswer(s) \/ StepFails(s) PROVE PaneInv'
  BY <1>17, <1>21 DEF Answers, ShowAnswer, StepFails, GoOn
<1>22. CASE UNCHANGED pageVars
  BY <1>17, <1>22 DEF pageVars
<1> QED
  BY <1>18, <1>19, <1>20, <1>21, <1>22 DEF PageNext

LEMMA InitPane == PaneInit => PaneInv
<1> SUFFICES ASSUME PaneInit PROVE PaneInv
  OBVIOUS
<1>1. /\ pane = FirstPane /\ loads = [s \in Slots |-> NoLoad] /\ \A r \in Requests : tx[r] = Idle
  BY DEF PaneInit, Init
<1>2. /\ PaneTyped /\ ~pane.open /\ pane.action = "none" /\ ~pane.loading /\ ~pane.busy /\ ~pane.error
      /\ pane.shown = <<>>
  BY <1>1 DEF FirstPane, PaneTyped, Actions
<1>3. NoLoad.kind = "none" /\ ~NoLoad.action /\ LoadTyped(NoLoad)
  BY DEF NoLoad, LoadTyped
<1>4. \A s \in Slots : LoadTyped(loads[s]) /\ ~loads[s].action /\ ~Full(s) /\ loads[s].kind = "none"
  BY <1>1, <1>3 DEF Full
<1>5. OnlyChange
  BY <1>1 DEF OnlyChange, Open, Idle
<1> QED
  BY <1>1, <1>2, <1>4, <1>5 DEF PaneInv, NeverOpened, ActionLoads, FullLoads, GotRight, ShownRight

LEMMA PaneGives == PaneInv => PaneTrue
BY DEF PaneInv, PaneTrue, ShowsDatabase, PaneFlagsFall, PaneQuiet, FullLoads, ShownRight, NeverOpened,
       ShownFresh, Full

-----------------------------------------------------------------------------
(* What the page shows of the selected project.                            *)

Todos ==
  Toggles \union
  {<<>>, <<"environment">>, <<"ports">>, <<"stats">>, <<"save", "environment">>,
   <<"dashboard", "environment", "logs">>, <<"environment", "logs">>, <<"logs">>}

Shows(todo) == {ShownAs(todo[i]) : i \in DOMAIN todo} \intersect {"environment", "ports"}

\* A job that has nothing left to do is none.
JobTyped(job) ==
  /\ job \in [project : Projects \union {None}, todo : Todos, got : {job.got}, value : {job.value}, background : BOOLEAN]
  /\ job.todo = <<>> => job = NoJob
  /\ job.todo # <<>> => job.project \in Projects
  /\ job.background => Shows(job.todo) = {}

ViewTyped ==
  view \in [selected : Projects, panel : {view.panel}, polled : Projects \union {None}, shown : {view.shown},
            loading : {view.loading}, saving : BOOLEAN, error : BOOLEAN, mixed : BOOLEAN,
            acts : {view.acts}, fails : {view.fails}]

\* A flag that is up will fall with a job.
FlagsRight ==
  /\ view.loading = [k \in Loaded |-> view.loading[k]]
  /\ \A k \in Loaded : view.loading[k] =>
        \E s \in Jobs : jobs[s].todo # <<>> /\ ~jobs[s].background /\ Head(jobs[s].todo) = k
  /\ view.saving => \E s \in Jobs : jobs[s].value # <<>>

LEMMA TailsOfTodos ==
  /\ Tail(<<"environment">>) = <<>> /\ Tail(<<"ports">>) = <<>> /\ Tail(<<"stats">>) = <<>> /\ Tail(<<"logs">>) = <<>>
  /\ Tail(<<"save", "environment">>) = <<"environment">>
  /\ Tail(<<"logs", "toggle", "dashboard", "environment", "logs">>) = <<"toggle", "dashboard", "environment", "logs">>
  /\ Tail(<<"toggle", "dashboard", "environment", "logs">>) = <<"dashboard", "environment", "logs">>
  /\ Tail(<<"dashboard", "environment", "logs">>) = <<"environment", "logs">>
  /\ Tail(<<"environment", "logs">>) = <<"logs">>
OBVIOUS

LEMMA HeadsOfTodos ==
  /\ Head(<<"environment">>) = "environment" /\ Head(<<"ports">>) = "ports"
  /\ Head(<<"stats">>) = "stats" /\ Head(<<"logs">>) = "logs"
  /\ Head(<<"save", "environment">>) = "save"
  /\ Head(<<"logs", "toggle", "dashboard", "environment", "logs">>) = "logs"
  /\ Head(<<"toggle", "dashboard", "environment", "logs">>) = "toggle"
  /\ Head(<<"dashboard", "environment", "logs">>) = "dashboard"
  /\ Head(<<"environment", "logs">>) = "environment"
OBVIOUS

LEMMA ShowsOfTodos ==
  /\ Shows(<<>>) = {} /\ Shows(<<"stats">>) = {} /\ Shows(<<"logs">>) = {}
  /\ Shows(<<"environment">>) = {"environment"} /\ Shows(<<"ports">>) = {"ports"}
  /\ Shows(<<"save", "environment">>) = {"environment", "ports"}
  /\ Shows(<<"logs", "toggle", "dashboard", "environment", "logs">>) = {"environment"}
  /\ Shows(<<"toggle", "dashboard", "environment", "logs">>) = {"environment"}
  /\ Shows(<<"dashboard", "environment", "logs">>) = {"environment"}
  /\ Shows(<<"environment", "logs">>) = {"environment"}
BY DEF Shows, ShownAs

\* What is left of the steps of a job, and what it will still show.
LEMMA TodoFacts ==
  ASSUME NEW todo \in Todos, todo # <<>>
  PROVE  /\ Tail(todo) \in Todos
         /\ Shows(todo) = Shows(Tail(todo)) \union ({ShownAs(Head(todo))} \intersect {"environment", "ports"})
         /\ Head(todo) = "save" => Shows(todo) = {"environment", "ports"}
         /\ Head(todo) \in {"toggle", "dashboard", "save"} => Shows(todo) # {}
<1> DEFINE T1 == <<"environment">>  T2 == <<"ports">>  T3 == <<"stats">>  T4 == <<"save", "environment">>
           T5 == <<"dashboard", "environment", "logs">>  T6 == <<"environment", "logs">>  T7 == <<"logs">>
           T8 == <<"toggle", "dashboard", "environment", "logs">>
           T9 == <<"logs", "toggle", "dashboard", "environment", "logs">>
           E == <<>>
<1>1. Todos = {E, T1, T2, T3, T4, T5, T6, T7, T8, T9}
  BY DEF Todos, Toggles
<1>2. /\ Tail(T1) = E /\ Tail(T2) = E /\ Tail(T3) = E /\ Tail(T7) = E /\ Tail(T4) = T1 /\ Tail(T5) = T6
      /\ Tail(T6) = T7 /\ Tail(T8) = T5 /\ Tail(T9) = T8
  BY TailsOfTodos
<1>3. /\ Head(T1) = "environment" /\ Head(T2) = "ports" /\ Head(T3) = "stats" /\ Head(T4) = "save"
      /\ Head(T5) = "dashboard" /\ Head(T6) = "environment" /\ Head(T7) = "logs" /\ Head(T8) = "toggle"
      /\ Head(T9) = "logs"
  BY HeadsOfTodos
<1>4. /\ Shows(E) = {} /\ Shows(T1) = {"environment"} /\ Shows(T2) = {"ports"} /\ Shows(T3) = {}
      /\ Shows(T4) = {"environment", "ports"} /\ Shows(T5) = {"environment"} /\ Shows(T6) = {"environment"}
      /\ Shows(T7) = {} /\ Shows(T8) = {"environment"} /\ Shows(T9) = {"environment"}
  BY ShowsOfTodos
<1>5. todo # E
  OBVIOUS
<1> HIDE DEF T1, T2, T3, T4, T5, T6, T7, T8, T9, E
<1> DEFINE h == Head(todo)  l == Tail(todo)
           Facts(first, now, left) == h = first /\ Shows(todo) = now /\ Shows(l) = left
<1>6. /\ l \in Todos
      /\ \/ Facts("environment", {"environment"}, {}) \/ Facts("ports", {"ports"}, {})
         \/ Facts("stats", {}, {}) \/ Facts("logs", {}, {})
         \/ Facts("save", {"environment", "ports"}, {"environment"})
         \/ \E first \in {"toggle", "dashboard", "logs"} : Facts(first, {"environment"}, {"environment"})
  <2>1. todo = T1 => l = E /\ Facts("environment", {"environment"}, {})
    BY <1>2, <1>3, <1>4
  <2>2. todo = T2 => l = E /\ Facts("ports", {"ports"}, {})
    BY <1>2, <1>3, <1>4
  <2>3. todo = T3 => l = E /\ Facts("stats", {}, {})
    BY <1>2, <1>3, <1>4
  <2>4. todo = T4 => l = T1 /\ Facts("save", {"environment", "ports"}, {"environment"})
    BY <1>2, <1>3, <1>4
  <2>5. todo = T5 => l = T6 /\ Facts("dashboard", {"environment"}, {"environment"})
    BY <1>2, <1>3, <1>4
  <2>6. todo = T6 => l = T7 /\ Facts("environment", {"environment"}, {})
    BY <1>2, <1>3, <1>4
  <2>7. todo = T7 => l = E /\ Facts("logs", {}, {})
    BY <1>2, <1>3, <1>4
  <2>8. todo = T8 => l = T5 /\ Facts("toggle", {"environment"}, {"environment"})
    BY <1>2, <1>3, <1>4
  <2>9. todo = T9 => l = T8 /\ Facts("logs", {"environment"}, {"environment"})
    BY <1>2, <1>3, <1>4
  <2> HIDE DEF Facts, l
  <2> QED
    BY <1>1, <1>5, <2>1, <2>2, <2>3, <2>4, <2>5, <2>6, <2>7, <2>8, <2>9
<1> HIDE DEF h, l
<1> QED
  <2>1. l \in Todos
    BY <1>6
  <2>2. Shows(todo) = Shows(l) \union ({ShownAs(h)} \intersect {"environment", "ports"})
    BY <1>6 DEF ShownAs
  <2>3. /\ h = "save" => Shows(todo) = {"environment", "ports"}
        /\ h \in {"toggle", "dashboard", "save"} => Shows(todo) # {}
    BY <1>6
  <2> QED
    BY <2>1, <2>2, <2>3 DEF h, l

Both == {"environment", "ports"}

\* As long as no two jobs that show the same thing have overlapped: what jobs will show
\* is not the same; an answer that will be shown is what is saved; and while the panel
\* of the environment is up, all that will be shown is of the project that is selected,
\* and what will not be shown is right, unless the user was told of an error.
JobsApart ==
  \A s, t \in Jobs : s # t => Shows(jobs[s].todo) \intersect Shows(jobs[t].todo) = {}
AnswersRight ==
  \A s \in Jobs : jobs[s].got # <<>> /\ ShownAs(Head(jobs[s].todo)) \in Both =>
                    jobs[s].got[1] = saved[jobs[s].project]
OwnJobs == \A s \in Jobs : Shows(jobs[s].todo) # {} => jobs[s].project = view.selected
RightAt(k) == view.shown[k] = [of |-> view.selected, is |-> saved[view.selected]]
WillBeRight == \A k \in Both : (\E s \in Jobs : k \in Shows(jobs[s].todo)) \/ RightAt(k)

ViewInv ==
  /\ saved = [p \in Projects |-> saved[p]]
  /\ jobs = [s \in Jobs |-> jobs[s]] /\ \A s \in Jobs : JobTyped(jobs[s])
  /\ ViewTyped /\ FlagsRight
  /\ ~view.mixed => /\ JobsApart /\ AnswersRight
                    /\ view.panel = "environment" => OwnJobs /\ (~view.error => WillBeRight)

ViewLike(v) ==
  v \in [selected : Projects, panel : {v.panel}, polled : Projects \union {None}, shown : {v.shown},
         loading : {v.loading}, saving : BOOLEAN, error : BOOLEAN, mixed : BOOLEAN,
         acts : {v.acts}, fails : {v.fails}]

LEMMA NoJobIs ==
  /\ NoJob.todo = <<>> /\ NoJob.got = <<>> /\ NoJob.value = <<>> /\ Shows(NoJob.todo) = {}
  /\ JobTyped(NoJob)
<1>1. /\ NoJob.todo = <<>> /\ NoJob.got = <<>> /\ NoJob.value = <<>>
      /\ NoJob \in [project : {None}, todo : {<<>>}, got : {<<>>}, value : {<<>>}, background : BOOLEAN]
  BY DEF NoJob, Job
<1>2. <<>> \in Todos
  BY DEF Todos
<1> QED
  BY <1>1, <1>2, ShowsOfTodos DEF JobTyped

\* A job that begins.
Begun(job) == JobTyped(job) /\ job.todo # <<>> /\ job.got = <<>>

\* Where jobs begin.
LEMMA Placed ==
  ASSUME NEW news, NEW next, StartJobs(news, next), jobs = [s \in Jobs |-> jobs[s]]
  PROVE  \E place :
           /\ \A i \in DOMAIN news : /\ place[i] \in Jobs /\ jobs[place[i]] = NoJob
                                     /\ jobs'[place[i]] = news[i]
           /\ \A i, j \in DOMAIN news : place[i] = place[j] => i = j
           /\ \A s \in Jobs : \/ jobs'[s] = jobs[s]
                              \/ \E i \in DOMAIN news : s = place[i]
           /\ jobs' = [s \in Jobs |-> jobs'[s]]
<1> DEFINE place == CHOOSE f \in Places(news) : TRUE
<1>1. place \in Places(news)
  BY DEF StartJobs
<1>2. jobs' = [s \in Jobs |-> IF s \in Range(place) THEN news[AntiFunction(place)[s]] ELSE jobs[s]]
  BY DEF StartJobs
<1> HIDE DEF place
<1>3. /\ place \in [DOMAIN news -> Unused]
      /\ \A i, j \in DOMAIN news : place[i] = place[j] => i = j
  BY <1>1 DEF Places, Injection, IsInjective
<1>4. \A i \in DOMAIN news : place[i] \in Range(place) /\ AntiFunction(place)[place[i]] = i
  <2> TAKE i \in DOMAIN news
  <2>1. DOMAIN place = DOMAIN news
    BY <1>3
  <2>2. place[i] \in Range(place)
    BY <2>1 DEF Range
  <2>3. AntiFunction(place)[place[i]] = CHOOSE j \in DOMAIN place : place[i] \in Range(place) => place[j] = place[i]
    BY <2>2 DEF AntiFunction, Inverse
  <2> QED
    BY <1>3, <2>1, <2>2, <2>3
<1>5. \A s \in Range(place) : \E i \in DOMAIN news : s = place[i]
  BY <1>3 DEF Range
<1>6. \A i \in DOMAIN news : place[i] \in Jobs /\ jobs[place[i]] = NoJob
  BY <1>3 DEF Unused
<1> QED
  BY <1>2, <1>3, <1>4, <1>5, <1>6

\* Jobs begin.
LEMMA StartingKeeps ==
  ASSUME ViewInv, NEW news, NEW next, StartJobs(news, next), saved' = saved,
         \A i \in DOMAIN news : Begun(news[i]),
         \A i, j \in DOMAIN news : i # j => Shows(news[i].todo) \intersect Shows(news[j].todo) = {},
         ViewLike(next), next.loading = view.loading, next.mixed = view.mixed,
         next.saving => view.saving \/ \E i \in DOMAIN news : news[i].value # <<>>,
         next.panel = "environment" =>
            /\ \A i \in DOMAIN news : Shows(news[i].todo) # {} => news[i].project = next.selected
            /\ \/ /\ view.panel = "environment" /\ next.selected = view.selected
                  /\ next.shown = view.shown /\ next.error = view.error
               \/ \A k \in Both : \E i \in DOMAIN news : k \in Shows(news[i].todo)
  PROVE  ViewInv'
<1>1. PICK place :
        /\ \A i \in DOMAIN news : /\ place[i] \in Jobs /\ jobs[place[i]] = NoJob
                                  /\ jobs'[place[i]] = news[i]
        /\ \A i, j \in DOMAIN news : place[i] = place[j] => i = j
        /\ \A s \in Jobs : \/ jobs'[s] = jobs[s]
                           \/ \E i \in DOMAIN news : s = place[i]
        /\ jobs' = [s \in Jobs |-> jobs'[s]]
  BY Placed DEF ViewInv
<1> DEFINE overlap == \E i \in DOMAIN news, s \in Jobs : Shows(news[i].todo) \intersect Shows(jobs[s].todo) # {}
           loading == [k \in Loaded |->
               view.loading[k] \/ \E i \in DOMAIN news : ~news[i].background /\ Head(news[i].todo) = k]
<1>2. view' = [next EXCEPT !.loading = loading, !.mixed = view.mixed \/ overlap]
  <2>1. Raised(next.loading, Range(news)) = loading
    BY DEF Raised, Range
  <2>2. \A job : WillShow(job) = Shows(job.todo)
    BY DEF WillShow, Shows
  <2>3. overlap <=> \E job \in Range(news), s \in Jobs : WillShow(job) \intersect WillShow(jobs[s]) # {}
    BY <2>2 DEF Range
  <2> QED
    BY <2>1, <2>3 DEF StartJobs
<1> HIDE DEF overlap, loading
<1>3. /\ ViewTyped' /\ view'.loading = loading /\ (view'.mixed <=> view.mixed \/ overlap)
      /\ view'.selected = next.selected /\ view'.panel = next.panel /\ view'.shown = next.shown
      /\ (view'.saving <=> next.saving) /\ (view'.error <=> next.error)
  BY <1>2 DEF ViewLike, ViewTyped
<1>0. \A s \in Jobs : \/ jobs'[s] = jobs[s]
                       \/ \E i \in DOMAIN news : s = place[i] /\ jobs'[s] = news[i]
  BY <1>1
<1>4. \A s \in Jobs : JobTyped(jobs'[s])
  BY <1>0 DEF ViewInv, Begun
<1>5. \A s \in Jobs : jobs[s].todo # <<>> \/ jobs[s].value # <<>> => jobs'[s] = jobs[s]
  BY <1>1, NoJobIs
<1>6. FlagsRight'
  <2>1. view'.loading = [k \in Loaded |-> view'.loading[k]]
    BY <1>3 DEF loading
  <2>2. ASSUME NEW k \in Loaded, view'.loading[k]
        PROVE  \E s \in Jobs : jobs'[s].todo # <<>> /\ ~jobs'[s].background /\ Head(jobs'[s].todo) = k
    <3>1. CASE view.loading[k]
      BY <1>5, <3>1 DEF ViewInv, FlagsRight
    <3>2. ASSUME NEW i \in DOMAIN news, ~news[i].background, Head(news[i].todo) = k
          PROVE  \E s \in Jobs : jobs'[s].todo # <<>> /\ ~jobs'[s].background /\ Head(jobs'[s].todo) = k
      BY <1>1, <3>2 DEF Begun
    <3> QED
      BY <1>3, <2>2, <3>1, <3>2 DEF loading
  <2>3. view'.saving => \E s \in Jobs : jobs'[s].value # <<>>
    <3>1. ASSUME NEW i \in DOMAIN news, news[i].value # <<>> PROVE \E s \in Jobs : jobs'[s].value # <<>>
      BY <1>1, <3>1
    <3>2. ASSUME NEW s \in Jobs, jobs[s].value # <<>> PROVE jobs'[s].value # <<>>
      BY <1>5, <3>2
    <3> QED
      BY <1>3, <3>1, <3>2 DEF ViewInv, FlagsRight
  <2> QED
    BY <2>1, <2>2, <2>3 DEF FlagsRight
<1>7. ASSUME ~view'.mixed
      PROVE  /\ JobsApart' /\ AnswersRight'
             /\ view'.panel = "environment" => OwnJobs' /\ (~view'.error => WillBeRight')
  <2>1. /\ ~view.mixed /\ JobsApart /\ AnswersRight
        /\ \A i \in DOMAIN news, s \in Jobs : Shows(news[i].todo) \intersect Shows(jobs[s].todo) = {}
    BY <1>3, <1>7 DEF ViewInv, overlap
  <2>2. JobsApart'
    <3> SUFFICES ASSUME NEW s \in Jobs, NEW t \in Jobs, s # t
                 PROVE  Shows(jobs'[s].todo) \intersect Shows(jobs'[t].todo) = {}
      BY DEF JobsApart
    <3>1. CASE jobs'[s] = jobs[s] /\ jobs'[t] = jobs[t]
      BY <2>1, <3>1 DEF JobsApart
    <3>2. ASSUME NEW i \in DOMAIN news, jobs'[s] = news[i], jobs'[t] = jobs[t]
          PROVE  Shows(jobs'[s].todo) \intersect Shows(jobs'[t].todo) = {}
      BY <2>1, <3>2
    <3>3. ASSUME NEW i \in DOMAIN news, jobs'[t] = news[i], jobs'[s] = jobs[s]
          PROVE  Shows(jobs'[s].todo) \intersect Shows(jobs'[t].todo) = {}
      BY <2>1, <3>3
    <3>4. ASSUME NEW i \in DOMAIN news, NEW j \in DOMAIN news, i # j, jobs'[s] = news[i], jobs'[t] = news[j]
          PROVE  Shows(jobs'[s].todo) \intersect Shows(jobs'[t].todo) = {}
      BY <3>4
    <3> QED
      BY <1>0, <3>1, <3>2, <3>3, <3>4
  <2>3. AnswersRight'
    <3> SUFFICES ASSUME NEW s \in Jobs, jobs'[s].got # <<>>, ShownAs(Head(jobs'[s].todo)) \in Both
                 PROVE  jobs'[s].got[1] = saved[jobs'[s].project]
      BY DEF AnswersRight
    <3>1. jobs'[s] = jobs[s]
      BY <1>1 DEF Begun
    <3> QED
      BY <2>1, <3>1 DEF AnswersRight
  <2>4. ASSUME view'.panel = "environment" PROVE OwnJobs' /\ (~view'.error => WillBeRight')
    <3>1. \A i \in DOMAIN news : Shows(news[i].todo) # {} => news[i].project = next.selected
      BY <1>3, <2>4
    <3>2. CASE /\ view.panel = "environment" /\ next.selected = view.selected
               /\ next.shown = view.shown /\ next.error = view.error
      <4>1. OwnJobs /\ (~view.error => WillBeRight)
        BY <2>1, <3>2 DEF ViewInv
      <4>2. OwnJobs'
        <5>1. \A s \in Jobs : Shows(jobs'[s].todo) # {} => jobs'[s].project = next.selected
          <6>1. \A s \in Jobs : Shows(jobs[s].todo) # {} => jobs[s].project = next.selected
            BY <3>2, <4>1 DEF OwnJobs
          <6>2. SUFFICES ASSUME NEW s \in Jobs PROVE Shows(jobs'[s].todo) # {} => jobs'[s].project = next.selected
            OBVIOUS
          <6>3. CASE jobs'[s] = jobs[s]
            BY <6>1, <6>3
          <6>4. ASSUME NEW i \in DOMAIN news, jobs'[s] = news[i]
                PROVE  Shows(jobs'[s].todo) # {} => jobs'[s].project = next.selected
            BY <3>1, <6>4
          <6> QED
            BY <1>0, <6>3, <6>4
        <5> QED
          BY <1>3, <5>1 DEF OwnJobs
      <4>3. ASSUME ~view'.error, NEW k \in Both PROVE (\E s \in Jobs : k \in Shows(jobs'[s].todo)) \/ RightAt(k)'
        <5>1. (\E s \in Jobs : k \in Shows(jobs[s].todo)) \/ RightAt(k)
          BY <1>3, <3>2, <4>1, <4>3 DEF WillBeRight
        <5>2. \A s \in Jobs : k \in Shows(jobs[s].todo) => jobs'[s] = jobs[s]
          BY <1>5, ShowsOfTodos
        <5>3. RightAt(k) => RightAt(k)'
          BY <1>3, <3>2 DEF RightAt
        <5> QED
          BY <5>1, <5>2, <5>3
      <4> QED
        BY <4>2, <4>3 DEF WillBeRight
    <3>3. CASE \A k \in Both : \E i \in DOMAIN news : k \in Shows(news[i].todo)
      <4>1. \A s \in Jobs : Shows(jobs[s].todo) = {}
        BY <2>1, <3>3 DEF Shows, Both
      <4>2. \A s \in Jobs : Shows(jobs'[s].todo) # {} => jobs'[s].project = next.selected
        BY <1>0, <3>1, <4>1
      <4>3. \A k \in Both : \E s \in Jobs : k \in Shows(jobs'[s].todo)
        BY <1>1, <3>3
      <4> QED
        BY <1>3, <4>2, <4>3 DEF OwnJobs, WillBeRight
    <3> QED
      BY <1>3, <2>4, <3>2, <3>3
  <2> QED
    BY <2>2, <2>3, <2>4
<1> QED
  BY <1>1, <1>3, <1>4, <1>6, <1>7 DEF ViewInv

\* The first step of a job is over: answered and shown, or failed.
LEMMA GoingOnKeeps ==
  ASSUME ViewInv, NEW s \in Jobs, jobs[s] # NoJob, NEW left \in {<<>>, Tail(jobs[s].todo)}, NEW next,
         GoOn(s, left, next),
         ViewLike(next), next.loading = view.loading, next.mixed = view.mixed,
         next.saving = view.saving, next.selected = view.selected, next.panel = view.panel,
         view.error => next.error,
         \/ next.error
         \/ left = Tail(jobs[s].todo) /\ Shows(jobs[s].todo) = {} /\ next.shown = view.shown
         \/ /\ left = Tail(jobs[s].todo) /\ jobs[s].got # <<>>
            /\ next.shown = [k \in Looked |->
                 IF k = ShownAs(Head(jobs[s].todo))
                 THEN [of |-> jobs[s].project, is |-> jobs[s].got[1]] ELSE view.shown[k]]
  PROVE  ViewInv'
<1> DEFINE first == Head(jobs[s].todo)
           job == [jobs[s] EXCEPT !.todo = left, !.got = <<>>]
           fallen == FlagsAfter(next.loading, jobs[s])
           loading == IF left = <<>> THEN fallen ELSE Raised(fallen, {job})
           saving == view.saving /\ (left = <<>> => jobs[s].value = <<>>)
<1>1. JobTyped(jobs[s]) /\ jobs[s].todo \in Todos /\ jobs[s].todo # <<>> /\ jobs[s].project \in Projects
  BY DEF ViewInv, JobTyped
<1>2. /\ left \in Todos
      /\ Shows(left) \subseteq Shows(jobs[s].todo)
      /\ left # <<>> => left = Tail(jobs[s].todo)
      /\ left = Tail(jobs[s].todo) =>
           Shows(jobs[s].todo) = Shows(left) \union ({ShownAs(first)} \intersect Both)
  <2>1. /\ Tail(jobs[s].todo) \in Todos
        /\ Shows(jobs[s].todo) = Shows(Tail(jobs[s].todo)) \union ({ShownAs(first)} \intersect {"environment", "ports"})
    BY <1>1, TodoFacts
  <2>2. <<>> \in Todos /\ Shows(<<>>) = {}
    BY ShowsOfTodos DEF Todos
  <2> HIDE DEF first
  <2> QED
    BY <2>1, <2>2 DEF Both
<1>3. /\ JobTyped([job EXCEPT !.todo = left]) \/ left = <<>>
      /\ job.todo = left /\ job.got = <<>> /\ job.value = jobs[s].value /\ job.project = jobs[s].project
      /\ job.background = jobs[s].background
      /\ left # <<>> => JobTyped(job)
  BY <1>1, <1>2 DEF JobTyped
<1>4. /\ saved' = saved
      /\ jobs' = [jobs EXCEPT ![s] = IF left = <<>> THEN NoJob ELSE job]
      /\ view' = IF left = <<>> THEN [next EXCEPT !.loading = loading, !.saving = @ /\ jobs[s].value = <<>>]
                 ELSE [next EXCEPT !.loading = loading]
  BY <1>3 DEF GoOn
<1>5. \A k \in Loaded : loading[k] <=>
         \/ view.loading[k] /\ (k # first \/ jobs[s].background)
         \/ left # <<>> /\ ~job.background /\ Head(left) = k
  BY <1>3 DEF FlagsAfter, Raised
<1>6. loading = [k \in Loaded |-> loading[k]]
  BY DEF FlagsAfter, Raised
<1> HIDE DEF job, loading, saving, first
<1>7. /\ ViewTyped' /\ view'.loading = loading /\ (view'.saving <=> saving) /\ (view'.mixed <=> view.mixed)
      /\ view'.selected = view.selected /\ view'.panel = view.panel /\ view'.shown = next.shown
      /\ (view'.error <=> next.error)
  <2>1. CASE left = <<>>
    BY <1>4, <2>1 DEF ViewLike, ViewTyped, saving
  <2>2. CASE left # <<>>
    BY <1>4, <2>2 DEF ViewLike, ViewTyped, saving
  <2> QED
    BY <2>1, <2>2
<1>8. /\ jobs' = [t \in Jobs |-> jobs'[t]] /\ \A t \in Jobs : t # s => jobs'[t] = jobs[t]
      /\ JobTyped(jobs'[s]) /\ jobs'[s].todo = left /\ jobs'[s].got = <<>>
      /\ left # <<>> => /\ jobs'[s].project = jobs[s].project /\ jobs'[s].value = jobs[s].value
                        /\ jobs'[s].background = jobs[s].background
  BY <1>3, <1>4, NoJobIs DEF ViewInv
<1>9. FlagsRight'
  <2>1. ASSUME NEW k \in Loaded, loading[k]
        PROVE  \E t \in Jobs : jobs'[t].todo # <<>> /\ ~jobs'[t].background /\ Head(jobs'[t].todo) = k
    <3>1. CASE view.loading[k] /\ (k # first \/ jobs[s].background)
      <4>1. PICK t \in Jobs : jobs[t].todo # <<>> /\ ~jobs[t].background /\ Head(jobs[t].todo) = k
        BY <3>1 DEF ViewInv, FlagsRight
      <4>2. t # s
        BY <3>1, <4>1 DEF first
      <4> QED
        BY <1>8, <4>1, <4>2
    <3>2. CASE left # <<>> /\ ~job.background /\ Head(left) = k
      BY <1>3, <1>8, <3>2
    <3> QED
      BY <1>5, <2>1, <3>1, <3>2
  <2>2. ASSUME saving PROVE \E t \in Jobs : jobs'[t].value # <<>>
    <3>1. PICK t \in Jobs : jobs[t].value # <<>>
      BY <2>2 DEF saving, ViewInv, FlagsRight
    <3>2. t = s => left # <<>>
      BY <2>2, <3>1 DEF saving
    <3> QED
      BY <1>8, <3>1, <3>2
  <2> QED
    BY <1>6, <1>7, <2>1, <2>2 DEF FlagsRight
<1>10. \A t \in Jobs : Shows(jobs'[t].todo) \subseteq Shows(jobs[t].todo)
  BY <1>2, <1>8
<1>11. ASSUME ~view'.mixed
       PROVE  /\ JobsApart' /\ AnswersRight'
              /\ view'.panel = "environment" => OwnJobs' /\ (~view'.error => WillBeRight')
  <2>1. ~view.mixed /\ JobsApart /\ AnswersRight
    BY <1>7, <1>11 DEF ViewInv
  <2>2. JobsApart'
    BY <1>10, <2>1 DEF JobsApart
  <2>3. AnswersRight'
    BY <1>4, <1>8, <2>1 DEF AnswersRight
  <2>4. ASSUME view'.panel = "environment" PROVE OwnJobs' /\ (~view'.error => WillBeRight')
    <3>1. OwnJobs /\ (~view.error => WillBeRight)
      BY <1>7, <2>1, <2>4 DEF ViewInv
    <3>2. \A t \in Jobs : Shows(jobs'[t].todo) # {} => jobs'[t].project = jobs[t].project
      BY <1>8, ShowsOfTodos
    <3>3. OwnJobs'
      BY <1>7, <1>10, <3>1, <3>2 DEF OwnJobs
    <3>4. ASSUME ~view'.error, NEW k \in Both
          PROVE  (\E t \in Jobs : k \in Shows(jobs'[t].todo)) \/ RightAt(k)'
      <4>1. (\E t \in Jobs : k \in Shows(jobs[t].todo)) \/ RightAt(k)
        BY <1>7, <3>1, <3>4 DEF WillBeRight
      <4>2. k \in Looked /\ saved' = saved /\ view'.selected = view.selected
        BY <1>4, <1>7 DEF Both, Looked
      <4>3. ASSUME NEW t \in Jobs, t # s, k \in Shows(jobs[t].todo) PROVE k \in Shows(jobs'[t].todo)
        BY <1>8, <4>3
      <4>4. CASE Shows(jobs[s].todo) = {} /\ next.shown = view.shown
        <5>1. RightAt(k) => RightAt(k)'
          BY <1>7, <4>2, <4>4 DEF RightAt
        <5> QED
          BY <4>1, <4>3, <4>4, <5>1
      <4>5. CASE /\ left = Tail(jobs[s].todo) /\ jobs[s].got # <<>>
                 /\ next.shown = [j \in Looked |->
                      IF j = ShownAs(first)
                      THEN [of |-> jobs[s].project, is |-> jobs[s].got[1]] ELSE view.shown[j]]
        <5>1. ASSUME k = ShownAs(first) PROVE RightAt(k)'
          <6>1. k \in Shows(jobs[s].todo)
            BY <1>2, <4>5, <5>1
          <6>2. jobs[s].project = view.selected
            BY <3>1, <6>1 DEF OwnJobs
          <6>3. jobs[s].got[1] = saved[view.selected]
            BY <2>1, <4>5, <5>1, <6>2 DEF AnswersRight, first
          <6>4. view'.shown[k] = [of |-> jobs[s].project, is |-> jobs[s].got[1]]
            BY <1>7, <4>2, <4>5, <5>1
          <6> QED
            BY <4>2, <6>2, <6>3, <6>4 DEF RightAt
        <5>2. ASSUME k # ShownAs(first) PROVE view'.shown[k] = view.shown[k]
          BY <1>7, <4>2, <4>5, <5>2
        <5>3. ASSUME k # ShownAs(first), k \in Shows(jobs[s].todo) PROVE k \in Shows(jobs'[s].todo)
          BY <1>2, <1>8, <4>5, <5>3
        <5>4. k # ShownAs(first) /\ RightAt(k) => RightAt(k)'
          BY <4>2, <5>2 DEF RightAt
        <5> QED
          BY <4>1, <4>3, <5>1, <5>3, <5>4
      <4> QED
        BY <1>7, <3>4, <4>4, <4>5 DEF first
    <3> QED
      BY <3>3, <3>4 DEF WillBeRight
  <2> QED
    BY <2>2, <2>3, <2>4
<1> QED
  BY <1>4, <1>7, <1>8, <1>9, <1>11 DEF ViewInv

\* The server answers.
LEMMA AnsweringKeeps ==
  ASSUME ViewInv, NEW s \in Jobs, Answers(s) PROVE ViewInv'
<1> DEFINE p == jobs[s].project
           ports == SavedBy(jobs[s])
           job == [jobs[s] EXCEPT !.got = <<ports[p]>>]
<1>1. /\ jobs[s] # NoJob /\ saved' = ports /\ jobs' = [jobs EXCEPT ![s] = job] /\ view' = view
  BY DEF Answers
<1>2. JobTyped(jobs[s]) /\ jobs[s].todo \in Todos /\ jobs[s].todo # <<>> /\ p \in Projects
  BY <1>1 DEF ViewInv, JobTyped
<1>3. /\ ports = [q \in Projects |-> ports[q]]
      /\ Head(jobs[s].todo) # "save" => ports = saved
      /\ \A q \in Projects : q # p => ports[q] = saved[q]
  BY DEF SavedBy, ViewInv
<1>4. Head(jobs[s].todo) = "save" => Shows(jobs[s].todo) = Both
  BY <1>2, TodoFacts DEF Both
<1> HIDE DEF ports
<1>5. JobTyped(job) /\ job.todo = jobs[s].todo /\ job.got = <<ports[p]>> /\ job.project = p /\ job.value = jobs[s].value
      /\ job.background = jobs[s].background /\ job.got # <<>> /\ job.got[1] = ports[p]
  BY <1>2 DEF JobTyped
<1> HIDE DEF job
<1>6. /\ jobs' = [t \in Jobs |-> jobs'[t]] /\ jobs'[s] = job /\ \A t \in Jobs : t # s => jobs'[t] = jobs[t]
  BY <1>1 DEF ViewInv
<1>7. \A t \in Jobs : /\ jobs'[t].todo = jobs[t].todo /\ jobs'[t].project = jobs[t].project
                       /\ jobs'[t].value = jobs[t].value /\ jobs'[t].background = jobs[t].background
  <2> TAKE t \in Jobs
  <2>1. CASE t = s
    BY <1>5, <1>6, <2>1
  <2>2. CASE t # s
    BY <1>6, <2>2
  <2> QED
    BY <2>1, <2>2
<1>8. FlagsRight' /\ ViewTyped'
  <2>1. FlagsRight'
    <3>1. FlagsRight
      BY DEF ViewInv
    <3>2. ASSUME NEW k \in Loaded, view.loading[k]
          PROVE  \E t \in Jobs : jobs'[t].todo # <<>> /\ ~jobs'[t].background /\ Head(jobs'[t].todo) = k
      <4>1. PICK t \in Jobs : jobs[t].todo # <<>> /\ ~jobs[t].background /\ Head(jobs[t].todo) = k
        BY <3>1, <3>2 DEF FlagsRight
      <4>2. jobs'[t].todo = jobs[t].todo /\ jobs'[t].background = jobs[t].background
        BY <1>7
      <4> QED
        BY <4>1, <4>2
    <3>3. view.saving => \E t \in Jobs : jobs'[t].value # <<>>
      BY <1>7, <3>1 DEF FlagsRight
    <3> QED
      BY <1>1, <3>1, <3>2, <3>3 DEF FlagsRight
  <2>2. ViewTyped'
    BY <1>1 DEF ViewInv, ViewTyped
  <2> QED
    BY <2>1, <2>2
<1>9. ASSUME ~view.mixed
      PROVE  /\ JobsApart' /\ AnswersRight'
             /\ view.panel = "environment" => OwnJobs' /\ (~view.error => WillBeRight')
  <2>1. JobsApart /\ AnswersRight
    BY <1>9 DEF ViewInv
  <2>2. JobsApart'
    BY <1>7, <2>1 DEF JobsApart
  <2>3. AnswersRight'
    <3> SUFFICES ASSUME NEW t \in Jobs, jobs'[t].got # <<>>, ShownAs(Head(jobs'[t].todo)) \in Both
                 PROVE  jobs'[t].got[1] = ports[jobs'[t].project]
      BY <1>1 DEF AnswersRight
    <3>1. CASE t = s
      BY <1>5, <1>6, <3>1
    <3>2. CASE t # s
      <4>1. jobs'[t] = jobs[t] /\ jobs[t].got[1] = saved[jobs[t].project]
        BY <1>6, <2>1, <3>2 DEF AnswersRight
      <4>2. jobs[t] # NoJob /\ JobTyped(jobs[t])
        BY <4>1, NoJobIs DEF ViewInv
      <4>3. jobs[t].todo \in Todos /\ jobs[t].todo # <<>>
        BY <4>2 DEF JobTyped
      <4>4. ShownAs(Head(jobs[t].todo)) \in Shows(jobs[t].todo)
        BY <4>1, <4>3, TodoFacts DEF Both
      <4>5. Head(jobs[s].todo) # "save"
        BY <1>4, <2>1, <3>2, <4>1, <4>4 DEF JobsApart
      <4> QED
        BY <1>3, <4>1, <4>5
    <3> QED
      BY <3>1, <3>2
  <2>4. ASSUME view.panel = "environment" PROVE OwnJobs' /\ (~view.error => WillBeRight')
    <3>1. OwnJobs /\ (~view.error => WillBeRight)
      BY <1>9, <2>4 DEF ViewInv
    <3>2. OwnJobs'
      BY <1>1, <1>7, <3>1 DEF OwnJobs
    <3>3. ASSUME ~view.error PROVE WillBeRight'
      <4>1. CASE Head(jobs[s].todo) = "save"
        BY <1>4, <1>7, <4>1 DEF WillBeRight
      <4>2. CASE Head(jobs[s].todo) # "save"
        <5>1. saved' = saved
          BY <1>1, <1>3, <4>2
        <5> QED
          BY <1>1, <1>7, <3>1, <3>3, <5>1 DEF WillBeRight, RightAt
      <4> QED
        BY <4>1, <4>2
    <3> QED
      BY <3>2, <3>3
  <2> QED
    BY <2>2, <2>3, <2>4
<1>10. \A t \in Jobs : JobTyped(jobs'[t])
  BY <1>5, <1>6 DEF ViewInv
<1> QED
  BY <1>1, <1>3, <1>6, <1>8, <1>9, <1>10 DEF ViewInv

LEMMA ViewSame == ASSUME ViewInv, UNCHANGED <<saved, view, jobs>> PROVE ViewInv'
BY DEF ViewInv, ViewTyped, FlagsRight, JobsApart, AnswersRight, OwnJobs, WillBeRight, RightAt

\* A job of a project that begins.
LEMMA BegunJob ==
  ASSUME NEW p \in Projects, NEW todo \in Todos \ {<<>>}
  PROVE  /\ Begun(Job(p, todo)) /\ Job(p, todo).project = p /\ Job(p, todo).todo = todo
         /\ Job(p, todo).value = <<>> /\ ~Job(p, todo).background
<1>1. /\ Job(p, todo).project = p /\ Job(p, todo).todo = todo
      /\ Job(p, todo).value = <<>> /\ Job(p, todo).got = <<>> /\ ~Job(p, todo).background
      /\ Job(p, todo) \in [project : Projects \union {None}, todo : Todos, got : {<<>>}, value : {<<>>},
                            background : BOOLEAN]
  BY DEF Job
<1> QED
  BY <1>1 DEF Begun, JobTyped

LEMMA KnownTodos ==
  /\ \A todo \in Toggles : todo \in Todos \ {<<>>}
  /\ <<"environment">> \in Todos \ {<<>>} /\ <<"ports">> \in Todos \ {<<>>} /\ <<"stats">> \in Todos \ {<<>>}
  /\ <<"save", "environment">> \in Todos \ {<<>>}
BY DEF Todos, Toggles

\* Selecting a project leaves the panel of the environment.
LEMMA SelectingKeeps ==
  ASSUME ViewInv, NEW p \in Projects PROVE
    /\ ViewLike(Selects(p, Acted)) /\ Selects(p, Acted).loading = view.loading
    /\ Selects(p, Acted).mixed = view.mixed /\ Selects(p, Acted).saving = view.saving
    /\ Selects(p, Acted).panel = "projects" /\ Selects(p, Acted).selected = p
<1>1. /\ ViewLike(Acted) /\ Acted.loading = view.loading /\ Acted.mixed = view.mixed /\ Acted.saving = view.saving
  BY DEF Acted, ViewInv, ViewTyped, ViewLike
<1> QED
  BY <1>1 DEF Selects, ViewLike

LEMMA ActedIs ==
  ASSUME ViewInv
  PROVE  /\ ViewLike(Acted) /\ Acted.loading = view.loading /\ Acted.mixed = view.mixed
         /\ Acted.saving = view.saving /\ Acted.selected = view.selected /\ Acted.panel = view.panel
         /\ Acted.shown = view.shown /\ Acted.error = view.error
BY DEF Acted, ViewInv, ViewTyped, ViewLike

\* One job begins; none.
LEMMA OneBegins == ASSUME NEW job PROVE DOMAIN <<job>> = {1} /\ <<job>>[1] = job
OBVIOUS
LEMMA TwoBegin ==
  ASSUME NEW job, NEW other
  PROVE  DOMAIN <<job, other>> = {1, 2} /\ <<job, other>>[1] = job /\ <<job, other>>[2] = other
OBVIOUS

LEMMA SelectKeeps == ASSUME ViewInv, NEW p \in Projects, onSelectProject(p) PROVE ViewInv'
<1> DEFINE next == Selects(p, Acted)
<1>1. view' = next /\ saved' = saved /\ jobs' = jobs
  BY DEF onSelectProject, Does
<1>2. ViewLike(next) /\ next.loading = view.loading /\ next.mixed = view.mixed /\ next.saving = view.saving
      /\ next.panel = "projects"
  BY SelectingKeeps
<1> HIDE DEF next
<1> QED
  BY <1>1, <1>2 DEF ViewInv, ViewTyped, ViewLike, FlagsRight, JobsApart, AnswersRight

LEMMA ToggleKeeps == ASSUME ViewInv, NEW p \in Projects, NEW todo \in Toggles, Toggle(p, todo) PROVE ViewInv'
<1> DEFINE chosen == Selects(p, Acted)
           next == [chosen EXCEPT !.error = FALSE]
           news == <<Job(p, todo)>>
<1>1. StartJobs(news, next) /\ saved' = saved
  BY DEF Toggle, Does
<1>2. /\ ViewLike(chosen) /\ chosen.loading = view.loading /\ chosen.mixed = view.mixed
      /\ chosen.saving = view.saving /\ chosen.panel = "projects"
  BY SelectingKeeps
<1> HIDE DEF chosen
<1>3. /\ ViewLike(next) /\ next.loading = view.loading /\ next.mixed = view.mixed
      /\ next.saving = view.saving /\ next.panel = "projects"
  BY <1>2 DEF ViewLike
<1>4. DOMAIN news = {1} /\ Begun(news[1])
  BY OneBegins, KnownTodos, BegunJob
<1> HIDE DEF next, news
<1> QED
  BY <1>1, <1>3, <1>4, StartingKeeps

LEMMA PollKeeps == ASSUME ViewInv, PollStats PROVE ViewInv'
<1> DEFINE plain == Job(view.polled, <<"stats">>)
           job == [plain EXCEPT !.background = TRUE]
           news == <<job>>
<1>1. StartJobs(news, view) /\ saved' = saved /\ view.polled \in Projects
  BY DEF PollStats, ViewInv, ViewTyped
<1>2. Begun(plain) /\ plain.project = view.polled /\ plain.todo = <<"stats">> /\ plain.value = <<>>
  BY <1>1, KnownTodos, BegunJob
<1> HIDE DEF plain
<1>3. Begun(job) /\ job.todo = <<"stats">>
  BY <1>2, ShowsOfTodos DEF Begun, JobTyped
<1> HIDE DEF job
<1>4. DOMAIN news = {1} /\ news[1] = job
  BY OneBegins
<1>5. Shows(job.todo) = {}
  BY <1>3, ShowsOfTodos
<1>6. ViewLike(view)
  BY DEF ViewInv, ViewTyped, ViewLike
<1> HIDE DEF news
<1> QED
  BY <1>1, <1>3, <1>4, <1>5, <1>6, StartingKeeps

LEMMA SavingKeeps == ASSUME ViewInv, NEW range, SavePortRange(range) PROVE ViewInv'
<1> DEFINE plain == Job(view.selected, <<"save", "environment">>)
           job == [plain EXCEPT !.value = <<range>>]
           news == <<job>>
           next == [Acted EXCEPT !.saving = TRUE, !.error = FALSE]
<1>1. StartJobs(news, next) /\ saved' = saved /\ view.selected \in Projects
  BY DEF SavePortRange, Does, ViewInv, ViewTyped
<1>2. Begun(plain) /\ plain.project = view.selected /\ plain.todo = <<"save", "environment">>
  BY <1>1, KnownTodos, BegunJob
<1> HIDE DEF plain
<1>3. Begun(job) /\ job.todo = <<"save", "environment">> /\ job.project = view.selected /\ job.value # <<>>
  BY <1>2 DEF Begun, JobTyped
<1> HIDE DEF job
<1>4. DOMAIN news = {1} /\ news[1] = job
  BY OneBegins
<1>5. Shows(job.todo) = Both
  BY <1>3, ShowsOfTodos DEF Both
<1>6. ViewLike(next) /\ next.loading = view.loading /\ next.mixed = view.mixed /\ next.selected = view.selected
  BY ActedIs DEF ViewLike
<1> HIDE DEF news, next
<1> QED
  BY <1>1, <1>3, <1>4, <1>5, <1>6, StartingKeeps

LEMMA PanelKeeps ==
  ASSUME ViewInv, NEW panel \in {"projects", "environment", "top"}, ShowPanel(panel) PROVE ViewInv'
<1> DEFINE environment == Job(view.selected, <<"environment">>)
           ports == Job(view.selected, <<"ports">>)
           stats == Job(view.selected, <<"stats">>)
           next == [Acted EXCEPT !.panel = panel, !.polled = PolledAfter(panel)]
<1>1. /\ saved' = saved /\ view.selected \in Projects
      /\ panel = "environment" => StartJobs(<<environment, ports>>, next)
      /\ panel = "top" => StartJobs(<<stats>>, next)
      /\ panel = "projects" => StartJobs(<<>>, next)
  BY DEF ShowPanel, Does, ViewInv, ViewTyped
<1>2. /\ Begun(environment) /\ environment.project = view.selected /\ environment.todo = <<"environment">>
      /\ Begun(ports) /\ ports.project = view.selected /\ ports.todo = <<"ports">>
      /\ Begun(stats) /\ stats.todo = <<"stats">>
  BY <1>1, KnownTodos, BegunJob
<1>3. /\ Shows(environment.todo) = {"environment"} /\ Shows(ports.todo) = {"ports"} /\ Shows(stats.todo) = {}
  BY <1>2, ShowsOfTodos
<1>4. PolledAfter(panel) \in Projects \union {None}
  BY <1>1 DEF PolledAfter
<1>5. /\ ViewLike(next) /\ next.loading = view.loading /\ next.mixed = view.mixed /\ next.saving = view.saving
      /\ next.selected = view.selected /\ next.panel = panel
  BY <1>4, ActedIs DEF ViewLike
<1> HIDE DEF environment, ports, stats, next
<1>6. CASE panel = "environment"
  <2> DEFINE news == <<environment, ports>>
  <2>1. StartJobs(news, next)
    BY <1>1, <1>6
  <2>2. DOMAIN news = {1, 2} /\ news[1] = environment /\ news[2] = ports
    BY TwoBegin
  <2> HIDE DEF news
  <2>3. \A k \in Both : \E i \in DOMAIN news : k \in Shows(news[i].todo)
    BY <1>3, <2>2 DEF Both
  <2>4. \A i \in DOMAIN news : Begun(news[i]) /\ news[i].project = next.selected
    BY <1>2, <1>5, <2>2
  <2>5. \A i, j \in DOMAIN news : i # j => Shows(news[i].todo) \intersect Shows(news[j].todo) = {}
    BY <1>3, <2>2
  <2> QED
    BY <1>1, <1>5, <2>1, <2>3, <2>4, <2>5, StartingKeeps
<1>7. CASE panel = "top"
  <2> DEFINE news == <<stats>>
  <2>1. StartJobs(news, next)
    BY <1>1, <1>7
  <2>2. DOMAIN news = {1} /\ news[1] = stats
    BY OneBegins
  <2> HIDE DEF news
  <2> QED
    BY <1>1, <1>2, <1>5, <1>7, <2>1, <2>2, StartingKeeps
<1>8. CASE panel = "projects"
  <2> DEFINE news == <<>>
  <2>1. StartJobs(news, next)
    BY <1>1, <1>8
  <2>2. DOMAIN news = {}
    OBVIOUS
  <2> HIDE DEF news
  <2> QED
    BY <1>1, <1>5, <1>8, <2>1, <2>2, StartingKeeps
<1> QED
  BY <1>6, <1>7, <1>8

LEMMA ShowingKeeps == ASSUME ViewInv, NEW s \in Jobs, ShowAnswer(s) PROVE ViewInv'
<1> DEFINE entry == [of |-> jobs[s].project, is |-> jobs[s].got[1]]
           shown == [k \in Looked |-> IF k = ShownAs(Head(jobs[s].todo)) THEN entry ELSE view.shown[k]]
           next == [view EXCEPT !.shown = shown]
<1>1. jobs[s] # NoJob /\ jobs[s].got # <<>> /\ GoOn(s, Tail(jobs[s].todo), next)
  BY DEF ShowAnswer
<1> HIDE DEF shown
<1>2. /\ ViewLike(next) /\ next.loading = view.loading /\ next.mixed = view.mixed /\ next.saving = view.saving
      /\ next.selected = view.selected /\ next.panel = view.panel /\ next.error = view.error /\ next.shown = shown
  BY DEF ViewInv, ViewTyped, ViewLike
<1> HIDE DEF next
<1> QED
  BY <1>1, <1>2, GoingOnKeeps DEF shown

LEMMA FailingStepKeeps == ASSUME ViewInv, NEW s \in Jobs, StepFails(s) PROVE ViewInv'
<1> DEFINE told == view.error \/ ~jobs[s].background
           next == [view EXCEPT !.error = told, !.fails = @ + 1]
           left == IF Head(jobs[s].todo) \in {"save", "toggle", "dashboard"} THEN <<>> ELSE Tail(jobs[s].todo)
<1>1. jobs[s] # NoJob /\ GoOn(s, left, next)
  BY DEF StepFails
<1>2. /\ ViewLike(next) /\ next.loading = view.loading /\ next.mixed = view.mixed /\ next.saving = view.saving
      /\ next.selected = view.selected /\ next.panel = view.panel /\ (next.error <=> told) /\ next.shown = view.shown
  BY DEF ViewInv, ViewTyped, ViewLike
<1>3. JobTyped(jobs[s]) /\ jobs[s].todo \in Todos /\ jobs[s].todo # <<>>
  BY <1>1 DEF ViewInv, JobTyped
<1>4. ~told => Shows(jobs[s].todo) = {} /\ left = Tail(jobs[s].todo)
  <2>1. ~told => Shows(jobs[s].todo) = {}
    BY <1>3 DEF JobTyped
  <2>2. Head(jobs[s].todo) \in {"toggle", "dashboard", "save"} => Shows(jobs[s].todo) # {}
    BY <1>3, TodoFacts
  <2> QED
    BY <2>1, <2>2
<1>5. left \in {<<>>, Tail(jobs[s].todo)}
  OBVIOUS
<1> HIDE DEF next, left, told
<1> QED
  BY <1>1, <1>2, <1>4, <1>5, GoingOnKeeps DEF told

\* Every step of the page keeps it.
LEMMA ViewKeeps == ViewInv /\ [PageNext]_pageVars => ViewInv'
<1> SUFFICES ASSUME ViewInv, [PageNext]_pageVars PROVE ViewInv'
  OBVIOUS
<1>1. UNCHANGED <<saved, view, jobs>> => ViewInv'
  BY ViewSame
<1>2. ASSUME NEW p \in Projects, onSelectProject(p) \/ \E todo \in Toggles : Toggle(p, todo) PROVE ViewInv'
  BY <1>2, SelectKeeps, ToggleKeeps
<1>3. ASSUME NEW s \in Jobs, Answers(s) \/ ShowAnswer(s) \/ StepFails(s) PROVE ViewInv'
  BY <1>3, AnsweringKeeps, ShowingKeeps, FailingStepKeeps
<1> QED
  BY <1>1, <1>2, <1>3, PanelKeeps, SavingKeeps, PollKeeps DEF PageNext, pageVars

LEMMA InitView == PageInit => ViewInv
<1> SUFFICES ASSUME PageInit PROVE ViewInv
  OBVIOUS
<1> DEFINE first == CHOOSE p \in Projects : TRUE
           flags == [k \in Loaded |-> FALSE]
<1>1. /\ saved = [p \in Projects |-> None] /\ view = FirstView(first) /\ jobs = [s \in Jobs |-> NoJob]
  BY DEF PageInit
<1>2. first \in Projects
  BY ProjectAssumption
<1> HIDE DEF first
<1>3. /\ ViewTyped /\ view.panel = "projects" /\ view.loading = flags /\ ~view.saving
  BY <1>1, <1>2 DEF FirstView, ViewTyped
<1>4. FlagsRight
  BY <1>3 DEF FlagsRight
<1>5. \A s \in Jobs : jobs[s] = NoJob
  BY <1>1
<1>6. JobsApart /\ AnswersRight
  BY <1>5, NoJobIs DEF JobsApart, AnswersRight
<1> QED
  BY <1>1, <1>3, <1>4, <1>5, <1>6, NoJobIs DEF ViewInv

LEMMA ViewGives == ViewInv => ProjectFlagsFall /\ ShowsSelected
<1> SUFFICES ASSUME ViewInv PROVE ProjectFlagsFall /\ ShowsSelected
  OBVIOUS
<1>1. ProjectFlagsFall
  BY NoJobIs DEF ViewInv, FlagsRight, ProjectFlagsFall
<1>2. \A s \in Jobs : WillShow(jobs[s]) = Shows(jobs[s].todo)
  BY DEF WillShow, Shows
<1>3. ShowsSelected
  BY <1>2 DEF ViewInv, ShowsSelected, WillBeRight, RightAt, Both
<1> QED
  BY <1>1, <1>3

\* The page is true of the host's processes and of the project that is selected, whatever
\* its queries read in between, and however its loads, changes and jobs overlap with
\* selections, fail and come late: unless the page has asked twice for the same thing at
\* once, or the user was told of an error (loadSlaveRuntimeBundle, withBusyHostAction,
\* useProjectQueries, saveProjectPortRangeSettings).
THEOREM PageIsTrue == PageSpec => []PageTrue
<1>1. PageInit => DesiredInv /\ PaneInv /\ ViewInv
  BY InitDesired, InitPane, InitView DEF PageInit, PaneInit
<1>2. DesiredInv /\ PaneInv /\ ViewInv /\ [PageNext]_pageVars => DesiredInv' /\ PaneInv' /\ ViewInv'
  BY PagesStep, ServerKeeps, Same, PaneKeeps, ViewKeeps DEF pageVars, paneVars
<1>3. PaneInv /\ ViewInv => PageTrue
  BY PaneGives, ViewGives DEF PageTrue
<1> QED
  BY <1>1, <1>2, <1>3, PTL DEF PageSpec
=============================================================================
