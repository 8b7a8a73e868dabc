-------------------------- MODULE RunRecordsProofs --------------------------
(***************************************************************************)
(* Theorems about RunRecords with the clients beside it, for every number  *)
(* of runs, reports, transactions and callers and every bound: a record is *)
(* honest about its run, and a wait never settles for an older run of its  *)
(* key than one that is recorded; and the server takes from a command the  *)
(* kills that it set out to send, once and in order, and tells it so.      *)
(***************************************************************************)
EXTENDS Clients, FiniteSetTheorems, WellFoundedInduction, TLAPS

-----------------------------------------------------------------------------
(* The invariant.                                                          *)

Sent == [at : Nat, runs : SUBSET Runs]
Cell == [status : {"running"}, seen : Nat, code : {None}] \union {None}
Table == UNION {[d -> Cell] : d \in SUBSET Runs}
Transaction == [report : Sent, todo : SUBSET Runs, read : Seq(Cell), mine : Table]
\* A record with the fields of a wait, whatever is in them.
Shape(w) ==
  w \in [pc : {w.pc}, by : {w.by}, checks : {w.checks}, since : {w.since},
         deadline : {w.deadline}, wake : {w.wake}, i : {w.i}, checked : {w.checked},
         view : {w.view}, result : {w.result}, picked : {w.picked}]

TypesOK ==
  /\ clock \in Nat
  /\ host \in [Runs -> [from : Nat \union {None}, to : Nat \union {None}]]
  /\ known \in Sent \union {None}
  /\ stream \in Seq(Sent)
  /\ boot \in [pc : {"idle", "asked", "done"}, report : Sent \union {None}]
  /\ rows \in [Runs -> Cell]
  /\ applies \subseteq Transaction
  /\ Shape(wait) /\ wait.view \in Table
  /\ wait.pc = "check" => wait.view \in [Runs -> Cell]

\* Runs of a key follow one another.
OneAfterAnother ==
  \A r \in Runs :
    /\ host[r].from = None => host[r].to = None
    /\ host[r].from # None => host[r].from <= clock
    /\ host[r].to # None => host[r].to <= clock
    /\ \A s \in Runs : KeyOf[s] = KeyOf[r] /\ r < s /\ host[s].from # None =>
          host[r].to # None /\ host[r].to <= host[s].from

\* With the runs h and the time now: the slave has held r at the moment at, before
\* now and before the end of the run.
HeldAt(h, now, r, at) ==
  /\ at < now
  /\ h[r].from # None /\ h[r].from <= at
  /\ h[r].to # None => at < h[r].to

Truthful(h, now, report) == \A r \in report.runs : HeldAt(h, now, r, report.at)
Right(h, now, table) == \A r \in DOMAIN table : table[r] # None => HeldAt(h, now, r, table[r].seen)

\* Whatever is on its way to the rows, in them, or was read from them is honest.
AllHonest ==
  /\ known # None => Truthful(host, clock, known)
  /\ \A i \in DOMAIN stream : Truthful(host, clock, stream[i])
  /\ boot.pc = "asked" => boot.report # None /\ Truthful(host, clock, boot.report)
  /\ \A t \in applies : /\ Truthful(host, clock, t.report)
                        /\ t.todo \subseteq t.report.runs
                        /\ Right(host, clock, t.mine)
  /\ Right(host, clock, rows)
  /\ Right(host, clock, wait.view)

\* A wait has settled for a run only where it has ended.
Settles ==
  /\ wait.pc # "done" => wait.picked = None
  /\ NewestPicked

RecordsInv == TypesOK /\ OneAfterAnother /\ AllHonest /\ Settles
-----------------------------------------------------------------------------
(* Tables, and numbers in finite sets.                                     *)

LEMMA EmptyTable == <<>> \in Table /\ DOMAIN <<>> = {}
<1>1. DOMAIN <<>> = {}
  OBVIOUS
<1>2. <<>> = [x \in {} |-> None]
  OBVIOUS
<1>3. <<>> \in [{} -> Cell]
  BY <1>2
<1> QED
  BY <1>1, <1>3 DEF Table

LEMMA AddRow ==
  ASSUME NEW t \in Table, NEW r \in Runs, NEW c \in Cell
  PROVE  /\ WithRow(t, r, c) \in Table
         /\ DOMAIN WithRow(t, r, c) = {r} \union DOMAIN t
         /\ \A s \in DOMAIN WithRow(t, r, c) :
               WithRow(t, r, c)[s] = IF s = r THEN c ELSE t[s]
<1>1. PICK d \in SUBSET Runs : t \in [d -> Cell]
  BY DEF Table
<1> DEFINE u == WithRow(t, r, c)
<1>2. u = [s \in {r} \union d |-> IF s = r THEN c ELSE t[s]]
  BY <1>1 DEF WithRow
<1>3. u \in [{r} \union d -> Cell] /\ {r} \union d \in SUBSET Runs
  BY <1>1, <1>2
<1> HIDE DEF u
<1>4. u \in Table
  BY <1>3 DEF Table
<1>5. DOMAIN u = {r} \union DOMAIN t
  BY <1>1, <1>2
<1>6. \A s \in DOMAIN u : u[s] = IF s = r THEN c ELSE t[s]
  BY <1>1, <1>2
<1> QED
  BY <1>4, <1>5, <1>6 DEF u

\* A finite set of numbers that are not below each other's has a greatest one.
LEMMA Greatest ==
  ASSUME NEW S, IsFiniteSet(S), S # {}, NEW f \in [S -> Int]
  PROVE  \E m \in S : \A s \in S : f[s] <= f[m]
<1> DEFINE Has(U) == \E m \in U : \A s \in U : f[s] <= f[m]
           Bad == {U \in FiniteSubsetsOf(S) : U # {} /\ ~Has(U)}
<1> SUFFICES ASSUME ~Has(S) PROVE FALSE
  OBVIOUS
<1>1. S \in Bad /\ Bad \subseteq FiniteSubsetsOf(S)
  BY DEF FiniteSubsetsOf
<1>2. PICK U \in Bad : \A V \in Bad : ~(<<V, U>> \in StrictSubsetOrdering(S))
  BY <1>1, FS_StrictSubsetOrderingWellFounded, WFMin
<1>3. U \in SUBSET S /\ IsFiniteSet(U) /\ U # {} /\ ~Has(U)
  BY <1>2 DEF FiniteSubsetsOf
<1>4. PICK x \in U : TRUE
  BY <1>3
<1> DEFINE V == U \ {x}
<1>5. V \in FiniteSubsetsOf(S) /\ <<V, U>> \in StrictSubsetOrdering(S)
  BY <1>3, <1>4, FS_Subset DEF FiniteSubsetsOf, StrictSubsetOrdering
<1>6. V = {} \/ Has(V)
  BY <1>2, <1>5
<1>7. CASE V = {}
  BY <1>3, <1>4, <1>7
<1>8. CASE Has(V)
  <2>1. PICK m \in V : \A s \in V : f[s] <= f[m]
    BY <1>8
  <2>2. f[x] \in Int /\ f[m] \in Int /\ m \in U
    BY <1>3, <1>4, <2>1
  <2>3. CASE f[x] <= f[m]
    BY <1>3, <1>4, <2>1, <2>2, <2>3
  <2>4. CASE f[m] < f[x]
    <3>1. \A s \in U : f[s] \in Int
      BY <1>3
    <3>2. \A s \in U : f[s] <= f[x]
      BY <1>4, <2>1, <2>2, <2>4, <3>1
    <3> QED
      BY <1>3, <1>4, <3>2
  <2> QED
    BY <2>2, <2>3, <2>4
<1> QED
  BY <1>6, <1>7, <1>8

\* The runs are a finite set of numbers.
LEMMA RunsFinite == IsFiniteSet(Runs) /\ Runs \subseteq Nat
<1>1. NumRuns \in Int /\ 1 \in Int
  BY RecordsAssumption
<1> QED
  BY <1>1, FS_Interval DEF Runs

LEMMA NextIsTodo ==
  ASSUME NEW todo \in SUBSET Runs, todo # {} PROVE NextOf(todo) \in todo
<1>1. IsFiniteSet(todo) /\ todo \subseteq Nat
  BY RunsFinite, FS_Subset
<1> DEFINE f == [r \in todo |-> 0 - r]
<1>2. f \in [todo -> Int]
  BY <1>1
<1>3. PICK r \in todo : \A s \in todo : f[s] <= f[r]
  BY <1>1, <1>2, Greatest
<1>4. \A s \in todo : r <= s
  BY <1>1, <1>3
<1> QED
  BY <1>4 DEF NextOf
-----------------------------------------------------------------------------
(* What happens to the slave's runs takes nothing back.                    *)

\* From the runs h at one moment to the runs g at a later one.
Later(h, now, g, then) ==
  /\ now <= then
  /\ \A r \in Runs : /\ h[r].from # None => g[r].from = h[r].from
                     /\ \/ g[r].to = h[r].to
                        \/ h[r].to = None /\ g[r].to = now

LEMMA HonestStays ==
  ASSUME NEW h, NEW g, NEW now \in Nat, NEW then \in Nat, Later(h, now, g, then)
  PROVE  /\ \A r \in Runs, at \in Nat : HeldAt(h, now, r, at) => HeldAt(g, then, r, at)
         /\ \A report \in Sent : Truthful(h, now, report) => Truthful(g, then, report)
         /\ \A table \in Table : Right(h, now, table) => Right(g, then, table)
<1>1. ASSUME NEW r \in Runs, NEW at \in Nat, HeldAt(h, now, r, at)
      PROVE  HeldAt(g, then, r, at)
  BY <1>1 DEF Later, HeldAt
<1>2. ASSUME NEW report \in Sent, Truthful(h, now, report)
      PROVE  Truthful(g, then, report)
  BY <1>1, <1>2 DEF Truthful, Sent
<1>3. ASSUME NEW table \in Table, Right(h, now, table)
      PROVE  Right(g, then, table)
  <2>1. PICK d \in SUBSET Runs : table \in [d -> Cell]
    BY DEF Table
  <2>2. ASSUME NEW r \in DOMAIN table, table[r] # None
        PROVE  HeldAt(g, then, r, table[r].seen)
    <3>1. r \in Runs /\ table[r].seen \in Nat
      BY <2>1, <2>2 DEF Cell
    <3> QED
      BY <1>1, <1>3, <2>2, <3>1 DEF Right
  <2> QED
    BY <2>2 DEF Right
<1> QED
  BY <1>1, <1>2, <1>3

LEMMA AddRight ==
  ASSUME NEW table \in Table, NEW r \in Runs, NEW c \in Cell, NEW h, NEW now,
         Right(h, now, table), HeldAt(h, now, r, c.seen)
  PROVE  WithRow(table, r, c) \in Table /\ Right(h, now, WithRow(table, r, c))
<1> DEFINE u == WithRow(table, r, c)
<1>1. /\ u \in Table /\ DOMAIN u = {r} \union DOMAIN table
      /\ \A s \in DOMAIN u : u[s] = IF s = r THEN c ELSE table[s]
  BY AddRow
<1> HIDE DEF u
<1>2. ASSUME NEW s \in DOMAIN u, u[s] # None PROVE HeldAt(h, now, s, u[s].seen)
  BY <1>1, <1>2 DEF Right
<1>3. Right(h, now, u)
  BY <1>2 DEF Right
<1> QED
  BY <1>1, <1>3 DEF u

LEMMA RowsTable == ASSUME NEW u \in [Runs -> Cell] PROVE u \in Table
  BY DEF Table
-----------------------------------------------------------------------------
(* The steps of the slave, of the time and of the kills.                   *)

\* A run begins, or some end.
LEMMA HostSteps ==
  ASSUME TypesOK, OneAfterAnother,
         \/ \E r \in Runs : Launch(r)
         \/ \E hit \in SUBSET {r \in Runs : Held(r)} :
               /\ host' = [r \in Runs |-> IF r \in hit THEN [host[r] EXCEPT !.to = clock]
                                          ELSE host[r]]
               /\ UNCHANGED clock
         \/ clock' = clock + 1 /\ UNCHANGED host
         \/ UNCHANGED <<clock, host>>
  PROVE  /\ clock' \in Nat
         /\ host' \in [Runs -> [from : Nat \union {None}, to : Nat \union {None}]]
         /\ OneAfterAnother' /\ Later(host, clock, host', clock')
<1>0. /\ clock \in Nat /\ None \notin Nat /\ Runs \subseteq Nat
      /\ \A r \in Runs : /\ host[r] \in [from : Nat \union {None}, to : Nat \union {None}]
                         /\ host[r].from \in Nat \union {None}
                         /\ host[r].to \in Nat \union {None}
  BY RecordsAssumption, RunsFinite DEF TypesOK
<1>1. CASE \E r \in Runs : Launch(r)
  <2>1. PICK r \in Runs : Launch(r)
    BY <1>1
  <2>2. /\ host' = [host EXCEPT ![r] = [@ EXCEPT !.from = clock]] /\ clock' = clock
        /\ host[r].from = None /\ host[r].to = None
        /\ \A s \in Runs : s < r => host[s].from # None
        /\ \A s \in Runs : KeyOf[s] = KeyOf[r] => ~Held(s)
    BY <2>1 DEF Launch, OneAfterAnother
  <2>3. /\ host'[r].from = clock /\ host'[r].to = None
        /\ \A s \in Runs : s # r => host'[s] = host[s]
        /\ host' \in [Runs -> [from : Nat \union {None}, to : Nat \union {None}]]
    BY <1>0, <2>2 DEF TypesOK
  <2>4. \A s \in Runs : KeyOf[s] = KeyOf[r] /\ r < s => host[s].from = None
    BY <2>2 DEF OneAfterAnother
  <2> QED
    BY <1>0, <2>2, <2>3, <2>4 DEF OneAfterAnother, Later, Held
<1>2. CASE \E hit \in SUBSET {r \in Runs : Held(r)} :
             /\ host' = [r \in Runs |-> IF r \in hit THEN [host[r] EXCEPT !.to = clock]
                                        ELSE host[r]]
             /\ UNCHANGED clock
  <2>1. PICK hit \in SUBSET {r \in Runs : Held(r)} :
          /\ host' = [r \in Runs |-> IF r \in hit THEN [host[r] EXCEPT !.to = clock] ELSE host[r]]
          /\ UNCHANGED clock
    BY <1>2
  <2>2. \A r \in hit : r \in Runs /\ host[r].from # None /\ host[r].to = None
    BY <2>1 DEF Held
  <2>3. /\ host' \in [Runs -> [from : Nat \union {None}, to : Nat \union {None}]]
        /\ \A r \in Runs : /\ host'[r].from = host[r].from
                           /\ host'[r].to = IF r \in hit THEN clock ELSE host[r].to
    BY <1>0, <2>1
  <2>4. OneAfterAnother'
    BY <1>0, <2>1, <2>2, <2>3 DEF OneAfterAnother
  <2>5. Later(host, clock, host', clock')
    BY <1>0, <2>1, <2>2, <2>3 DEF Later
  <2> QED
    BY <1>0, <2>1, <2>3, <2>4, <2>5
<1>3. CASE clock' = clock + 1 /\ UNCHANGED host
  BY <1>0, <1>3 DEF OneAfterAnother, Later, TypesOK
<1>4. CASE UNCHANGED <<clock, host>>
  BY <1>0, <1>4 DEF OneAfterAnother, Later, TypesOK
<1> QED
  BY <1>1, <1>2, <1>3, <1>4

\* What was honest stays so.
LEMMA Carried ==
  ASSUME TypesOK, AllHonest, clock' \in Nat, Later(host, clock, host', clock')
  PROVE  /\ known # None => Truthful(host', clock', known)
         /\ \A i \in DOMAIN stream : Truthful(host', clock', stream[i])
         /\ boot.pc = "asked" => boot.report # None /\ Truthful(host', clock', boot.report)
         /\ \A t \in applies : /\ Truthful(host', clock', t.report)
                               /\ t.todo \subseteq t.report.runs
                               /\ Right(host', clock', t.mine)
         /\ Right(host', clock', rows)
         /\ Right(host', clock', wait.view)
<1>1. clock \in Nat
  BY DEF TypesOK
<1>2. /\ \A report \in Sent : Truthful(host, clock, report) => Truthful(host', clock', report)
      /\ \A table \in Table : Right(host, clock, table) => Right(host', clock', table)
  BY <1>1, HonestStays
<1>3. /\ known \in Sent \union {None}
      /\ \A i \in DOMAIN stream : stream[i] \in Sent
      /\ boot.report \in Sent \union {None}
      /\ \A t \in applies : t.report \in Sent /\ t.mine \in Table
      /\ rows \in Table /\ wait.view \in Table
  BY RowsTable DEF TypesOK, Transaction
<1> QED
  BY <1>2, <1>3 DEF AllHonest

\* Runs come and go, time passes, nothing is recorded.
LEMMA QuietKeeps ==
  ASSUME RecordsInv,
         \/ \E r \in Runs : Launch(r)
         \/ \E r \in Runs : Exit(r)
         \/ Tick \/ DeliverKill
         \/ UNCHANGED vars
  PROVE  RecordsInv'
<1>1. UNCHANGED <<known, stream, boot, rows, applies, wait>>
  BY DEF Launch, Exit, Tick, DeliverKill, vars
<1>2. \/ \E r \in Runs : Launch(r)
      \/ \E hit \in SUBSET {r \in Runs : Held(r)} :
            /\ host' = [r \in Runs |-> IF r \in hit THEN [host[r] EXCEPT !.to = clock]
                                       ELSE host[r]]
            /\ UNCHANGED clock
      \/ clock' = clock + 1 /\ UNCHANGED host
      \/ UNCHANGED <<clock, host>>
  <2>1. CASE \E r \in Runs : Exit(r)
    <3>1. PICK r \in Runs : Exit(r)
      BY <2>1
    <3>2. /\ {r} \in SUBSET {s \in Runs : Held(s)}
          /\ host' = [s \in Runs |-> IF s \in {r} THEN [host[s] EXCEPT !.to = clock] ELSE host[s]]
          /\ UNCHANGED clock
      BY <3>1 DEF Exit, RecordsInv, TypesOK
    <3> QED
      BY <3>2
  <2>2. CASE DeliverKill
    <3> DEFINE hit == {r \in Runs : Held(r) /\ KeyOf[r] = IF Head(kills) \in Runs
                                                           THEN KeyOf[Head(kills)]
                                                           ELSE Head(kills)}
    <3>1. hit \in SUBSET {r \in Runs : Held(r)}
      OBVIOUS
    <3>2. \/ /\ host' = [r \in Runs |-> IF r \in hit THEN [host[r] EXCEPT !.to = clock]
                                        ELSE host[r]]
             /\ UNCHANGED clock
          \/ UNCHANGED <<clock, host>>
      BY <2>2 DEF DeliverKill, vars
    <3> HIDE DEF hit
    <3> QED
      BY <3>1, <3>2
  <2> QED
    BY <2>1, <2>2 DEF Tick, vars
<1>3. /\ clock' \in Nat
      /\ host' \in [Runs -> [from : Nat \union {None}, to : Nat \union {None}]]
      /\ OneAfterAnother' /\ Later(host, clock, host', clock')
  BY <1>2, HostSteps DEF RecordsInv
<1>4. TypesOK'
  BY <1>1, <1>3 DEF RecordsInv, TypesOK
<1>5. AllHonest'
  BY <1>1, <1>3, Carried DEF RecordsInv, AllHonest
<1>6. Settles'
  BY <1>1 DEF RecordsInv, Settles, NewestPicked
<1> QED
  BY <1>3, <1>4, <1>5, <1>6 DEF RecordsInv

\* A report of the runs that are held now.
LEMMA ReportKeeps ==
  ASSUME RecordsInv, Report PROVE RecordsInv'
<1> DEFINE report == [at |-> clock, runs |-> {r \in Runs : Held(r)}]
<1>1. /\ clock' = clock + 1 /\ known' = report
      /\ stream' = stream \/ stream' = Append(stream, report)
      /\ UNCHANGED <<host, boot, rows, applies, wait>>
  BY DEF Report
<1>2. /\ clock' \in Nat /\ clock \in Nat
      /\ host' \in [Runs -> [from : Nat \union {None}, to : Nat \union {None}]]
      /\ OneAfterAnother' /\ Later(host, clock, host', clock')
  BY <1>1, HostSteps DEF RecordsInv, TypesOK
<1>3. report \in Sent
  BY <1>2 DEF Sent
<1>4. Truthful(host', clock', report)
  BY <1>1, <1>2 DEF Truthful, HeldAt, Held, RecordsInv, OneAfterAnother
<1> HIDE DEF report
<1>5. /\ stream' \in Seq(Sent)
      /\ \A i \in DOMAIN stream' :
            stream'[i] = report \/ (i \in DOMAIN stream /\ stream'[i] = stream[i])
  <2>1. stream \in Seq(Sent)
    BY DEF RecordsInv, TypesOK
  <2>2. CASE stream' = stream
    BY <2>1, <2>2
  <2>3. CASE stream' = Append(stream, report)
    <3>1. stream' \in Seq(Sent) /\ DOMAIN stream' = 1 .. Len(stream) + 1
          /\ DOMAIN stream = 1 .. Len(stream) /\ Len(stream) \in Nat
      BY <1>3, <2>1, <2>3
    <3>2. \A i \in 1 .. Len(stream) + 1 :
             stream'[i] = IF i = Len(stream) + 1 THEN report ELSE stream[i]
      BY <1>3, <2>1, <2>3
    <3> QED
      BY <3>1, <3>2
  <2> QED
    BY <1>1, <2>2, <2>3
<1>6. TypesOK'
  BY <1>1, <1>2, <1>3, <1>5 DEF RecordsInv, TypesOK
<1>7. AllHonest'
  BY <1>1, <1>2, <1>4, <1>5, Carried DEF RecordsInv, AllHonest
<1>8. Settles'
  BY <1>1 DEF RecordsInv, Settles, NewestPicked
<1> QED
  BY <1>2, <1>6, <1>7, <1>8 DEF RecordsInv
-----------------------------------------------------------------------------
(* The steps of the transactions.                                          *)

\* Runs and time stand still.
Still == UNCHANGED <<clock, host, known, wait>>

LEMMA StillKeeps ==
  ASSUME RecordsInv, Still,
         stream' \in Seq(Sent), boot' \in [pc : {"idle", "asked", "done"}, report : Sent \union {None}],
         rows' \in [Runs -> Cell], applies' \subseteq Transaction,
         \A i \in DOMAIN stream' : Truthful(host, clock, stream'[i]),
         boot'.pc = "asked" => boot'.report # None /\ Truthful(host, clock, boot'.report),
         \A t \in applies' : /\ Truthful(host, clock, t.report)
                             /\ t.todo \subseteq t.report.runs
                             /\ Right(host, clock, t.mine),
         Right(host, clock, rows')
  PROVE  RecordsInv'
<1>1. TypesOK'
  BY DEF Still, RecordsInv, TypesOK
<1>2. OneAfterAnother'
  BY DEF Still, RecordsInv, OneAfterAnother
<1>3. AllHonest'
  BY DEF Still, RecordsInv, AllHonest
<1>4. Settles'
  BY DEF Still, RecordsInv, Settles, NewestPicked
<1> QED
  BY <1>1, <1>2, <1>3, <1>4 DEF RecordsInv

LEMMA FreshTransaction ==
  ASSUME NEW report \in Sent, Truthful(host, clock, report), NEW t, t = Apply(report)
  PROVE  /\ t \in Transaction /\ Truthful(host, clock, t.report)
         /\ t.todo \subseteq t.report.runs /\ Right(host, clock, t.mine)
<1>1. <<>> \in Table /\ DOMAIN <<>> = {} /\ <<>> \in Seq(Cell)
  BY EmptyTable
<1>2. t = [report |-> report, todo |-> report.runs, read |-> <<>>, mine |-> <<>>]
  BY DEF Apply
<1>3. report.runs \in SUBSET Runs
  BY DEF Sent
<1> QED
  BY <1>1, <1>2, <1>3 DEF Transaction, Right

LEMMA ReceiveKeeps ==
  ASSUME RecordsInv, ReceiveEvent PROVE RecordsInv'
<1>1. stream \in Seq(Sent) /\ stream # <<>>
  BY DEF RecordsInv, TypesOK, ReceiveEvent
<1>2. /\ Head(stream) \in Sent /\ Head(stream) = stream[1] /\ 1 \in DOMAIN stream
      /\ Tail(stream) \in Seq(Sent)
      /\ \A i \in DOMAIN Tail(stream) : i + 1 \in DOMAIN stream /\ Tail(stream)[i] = stream[i + 1]
  BY <1>1
<1>3. /\ applies' = applies \union {Apply(Head(stream))} /\ stream' = Tail(stream)
      /\ Still /\ UNCHANGED <<boot, rows>>
  BY DEF ReceiveEvent, Still
<1>4. Truthful(host, clock, Head(stream))
  BY <1>2 DEF RecordsInv, AllHonest
<1>5. \A i \in DOMAIN stream' : Truthful(host, clock, stream'[i])
  BY <1>2, <1>3 DEF RecordsInv, AllHonest
<1>6. \A t \in applies' : /\ t \in Transaction /\ Truthful(host, clock, t.report)
                          /\ t.todo \subseteq t.report.runs /\ Right(host, clock, t.mine)
  BY <1>2, <1>3, <1>4, FreshTransaction DEF RecordsInv, AllHonest, TypesOK
<1> QED
  BY <1>2, <1>3, <1>5, <1>6, StillKeeps DEF RecordsInv, AllHonest, TypesOK

LEMMA AskKeeps ==
  ASSUME RecordsInv, AskMaster PROVE RecordsInv'
<1>1. /\ boot' = [pc |-> "asked", report |-> known] /\ known # None
      /\ Still /\ UNCHANGED <<stream, rows, applies>>
  BY DEF AskMaster, Still
<1>2. /\ boot' \in [pc : {"idle", "asked", "done"}, report : Sent \union {None}]
      /\ boot'.report # None /\ Truthful(host, clock, boot'.report)
  BY <1>1 DEF RecordsInv, AllHonest, TypesOK
<1> QED
  BY <1>1, <1>2, StillKeeps DEF RecordsInv, AllHonest, TypesOK

LEMMA AnswerKeeps ==
  ASSUME RecordsInv, AnswerArrives PROVE RecordsInv'
<1>1. /\ boot.pc = "asked" /\ applies' = applies \union {Apply(boot.report)}
      /\ boot' = [pc |-> "done", report |-> None]
      /\ Still /\ UNCHANGED <<stream, rows>>
  BY DEF AnswerArrives, Still
<1>2. boot.report \in Sent /\ Truthful(host, clock, boot.report)
  BY <1>1 DEF RecordsInv, AllHonest, TypesOK
<1>3. \A t \in applies' : /\ t \in Transaction /\ Truthful(host, clock, t.report)
                          /\ t.todo \subseteq t.report.runs /\ Right(host, clock, t.mine)
  BY <1>1, <1>2, FreshTransaction DEF RecordsInv, AllHonest, TypesOK
<1>4. boot' \in [pc : {"idle", "asked", "done"}, report : Sent \union {None}] /\ boot'.pc # "asked"
  BY <1>1
<1> QED
  BY <1>1, <1>3, <1>4, StillKeeps DEF RecordsInv, AllHonest, TypesOK

\* A transaction goes on, and the rows stay.
LEMMA BecomesKeeps ==
  ASSUME RecordsInv, NEW t \in applies, NEW next \in Transaction, Becomes(t, next),
         Truthful(host, clock, next.report), next.todo \subseteq next.report.runs,
         Right(host, clock, next.mine)
  PROVE  RecordsInv'
<1>1. Still /\ UNCHANGED <<stream, boot, rows>> /\ applies' = (applies \ {t}) \union {next}
  BY DEF Becomes, Still
<1> QED
  BY <1>1, StillKeeps DEF RecordsInv, AllHonest, TypesOK

LEMMA ViewOfRows ==
  ASSUME RecordsInv, NEW t \in applies
  PROVE  View(t) \in [Runs -> Cell] /\ Right(host, clock, View(t))
<1>1. t.mine \in Table /\ rows \in [Runs -> Cell]
  BY DEF RecordsInv, TypesOK, Transaction
<1>2. PICK d \in SUBSET Runs : t.mine \in [d -> Cell]
  BY <1>1 DEF Table
<1>3. View(t) = [r \in Runs |-> IF r \in d THEN t.mine[r] ELSE rows[r]]
  BY <1>2 DEF View
<1>4. Right(host, clock, t.mine) /\ Right(host, clock, rows)
  BY DEF RecordsInv, AllHonest
<1> QED
  BY <1>1, <1>2, <1>3, <1>4 DEF Right

LEMMA FindKeeps ==
  ASSUME RecordsInv, NEW t \in applies, FindRun(t) PROVE RecordsInv'
<1>1. /\ t \in Transaction /\ Truthful(host, clock, t.report)
      /\ t.todo \subseteq t.report.runs /\ Right(host, clock, t.mine)
  BY DEF RecordsInv, AllHonest, TypesOK
<1>2. NextOf(t.todo) \in Runs
  BY <1>1, NextIsTodo DEF FindRun, Transaction
<1>3. View(t)[NextOf(t.todo)] \in Cell
  BY <1>2, ViewOfRows
<1>4. <<View(t)[NextOf(t.todo)]>> \in Seq(Cell)
  BY <1>3
<1> DEFINE next == [t EXCEPT !.read = <<View(t)[NextOf(t.todo)]>>]
<1>5. /\ next \in Transaction /\ next.report = t.report /\ next.todo = t.todo
      /\ next.mine = t.mine
  BY <1>1, <1>4 DEF Transaction
<1>6. Becomes(t, next)
  BY DEF FindRun
<1> HIDE DEF next
<1> QED
  BY <1>1, <1>5, <1>6, BecomesKeeps

LEMMA WriteKeeps ==
  ASSUME RecordsInv, NEW t \in applies, WriteRun(t) PROVE RecordsInv'
<1> DEFINE r == NextOf(t.todo)
           row == RowOf(t.report)
           differs == t.read # <<row>>
           next == [t EXCEPT !.todo = @ \ {r}, !.read = <<>>]
           after == [next EXCEPT !.mine = IF differs THEN WithRow(@, r, row) ELSE @]
<1>1. /\ t \in Transaction /\ Truthful(host, clock, t.report)
      /\ t.todo \subseteq t.report.runs /\ Right(host, clock, t.mine)
  BY DEF RecordsInv, AllHonest, TypesOK
<1>2. r \in t.todo /\ r \in Runs /\ r \in t.report.runs
  BY <1>1, NextIsTodo DEF WriteRun, Transaction
<1>3. row \in Cell /\ row.seen = t.report.at
  BY <1>1 DEF RowOf, Cell, Transaction, Sent
<1>4. t.mine \in Table
  BY <1>1 DEF Transaction
<1>5. WithRow(t.mine, r, row) \in Table /\ Right(host, clock, WithRow(t.mine, r, row))
  <2>1. HeldAt(host, clock, r, row.seen)
    BY <1>1, <1>2, <1>3 DEF Truthful
  <2>2. r \in Runs /\ row \in Cell /\ t.mine \in Table /\ Right(host, clock, t.mine)
    BY <1>1, <1>2, <1>3, <1>4
  <2> HIDE DEF row, r
  <2> QED
    BY <2>1, <2>2, AddRight
<1>6. CASE applies' = applies \ {t}
  <2>1. Still /\ UNCHANGED <<stream, boot, rows>>
    BY DEF WriteRun, Becomes, Still
  <2> QED
    BY <1>6, <2>1, StillKeeps DEF RecordsInv, AllHonest, TypesOK
<1>7. CASE Becomes(t, after)
  <2>1. <<>> \in Seq(Cell) /\ t.todo \ {r} \in SUBSET Runs
    BY <1>1 DEF Transaction
  <2>2. /\ after.report = t.report /\ after.todo = t.todo \ {r}
        /\ after.mine = IF differs THEN WithRow(t.mine, r, row) ELSE t.mine
        /\ after \in Transaction
    BY <1>1, <1>4, <1>5, <2>1 DEF Transaction
  <2> HIDE DEF after
  <2>3. Right(host, clock, after.mine) /\ after.todo \subseteq after.report.runs
    BY <1>1, <1>5, <2>2
  <2> QED
    BY <1>1, <1>7, <2>2, <2>3, BecomesKeeps
<1> QED
  BY <1>6, <1>7 DEF WriteRun

LEMMA CommitKeeps ==
  ASSUME RecordsInv, NEW t \in applies, CommitApply(t) PROVE RecordsInv'
<1>1. /\ rows' = View(t) /\ applies' = applies \ {t}
      /\ Still /\ UNCHANGED <<stream, boot>>
  BY DEF CommitApply, Still
<1>2. rows' \in [Runs -> Cell] /\ Right(host, clock, rows')
  BY <1>1, ViewOfRows
<1> QED
  BY <1>1, <1>2, StillKeeps DEF RecordsInv, AllHonest, TypesOK
-----------------------------------------------------------------------------
(* The steps of a wait.                                                    *)

LEMMA WaitKeeps ==
  ASSUME RecordsInv, NEW next, WaitStep(next), Shape(next),
         next.view \in Table, Right(host, clock, next.view),
         next.pc = "check" => next.view \in [Runs -> Cell],
         next.pc # "done" => next.picked = None,
         next.result = "matched" /\ next.picked # None /\ next.by \in Keys =>
            \A r \in Runs : (KeyOf[r] = next.by /\ r > next.picked) => next.view[r] = None
  PROVE  RecordsInv'
<1>1. wait' = next /\ UNCHANGED <<clock, host, known, stream, boot, rows, applies>>
  BY DEF WaitStep
<1>2. TypesOK'
  BY <1>1 DEF RecordsInv, TypesOK
<1>3. OneAfterAnother'
  BY <1>1 DEF RecordsInv, OneAfterAnother
<1>4. AllHonest'
  BY <1>1 DEF RecordsInv, AllHonest
<1>5. Settles'
  BY <1>1 DEF Settles, NewestPicked
<1> QED
  BY <1>2, <1>3, <1>4, <1>5 DEF RecordsInv

\* Of the newest rows that match a key, the one seen last is of its last run: an
\* older run has ended before a newer one began, and each was seen while it lasted.
LEMMA SelectedLast ==
  ASSUME RecordsInv, NEW view \in [Runs -> Cell], Right(host, clock, view),
         NEW by \in Keys, Selected(view, by) # None,
         NEW r \in Runs, KeyOf[r] = by, r > Selected(view, by)
  PROVE  view[r] = None
<1> DEFINE found == {s \in Newest(view) : Matches(s, by)}
           p == Selected(view, by)
<1>1. found # {} /\ p = CHOOSE q \in found : \A s \in found : view[s].seen <= view[q].seen
  BY DEF Selected
<1>2. /\ by \notin Runs /\ found \subseteq Runs /\ Runs \subseteq Nat /\ IsFiniteSet(Runs)
      /\ \A s \in found : KeyOf[s] = by /\ view[s] # None /\ view[s].seen \in Nat
  BY RecordsAssumption, RunsFinite DEF Matches, Newest, Cell
<1>3. p \in found /\ \A s \in found : view[s].seen <= view[p].seen
  <2>1. IsFiniteSet(found)
    BY <1>2, FS_Subset
  <2> DEFINE f == [s \in found |-> view[s].seen]
  <2>2. f \in [found -> Int]
    BY <1>2
  <2> HIDE DEF found
  <2>3. PICK m \in found : \A s \in found : f[s] <= f[m]
    BY <1>1, <2>1, <2>2, Greatest
  <2>4. \A s \in found : view[s].seen <= view[m].seen
    BY <2>3
  <2> QED
    BY <1>1, <2>4
<1> SUFFICES ASSUME view[r] # None PROVE FALSE
  OBVIOUS
<1>4. /\ p \in Runs /\ KeyOf[p] = by /\ p < r /\ view[p] # None
      /\ view[p].seen \in Nat /\ view[r].seen \in Nat
  BY <1>2, <1>3 DEF Cell
<1>5. view[p].seen < view[r].seen
  <2>1. HeldAt(host, clock, p, view[p].seen) /\ HeldAt(host, clock, r, view[r].seen)
    BY <1>4 DEF Right
  <2>2. host[p].to # None /\ host[p].to <= host[r].from
    BY <1>4, <2>1 DEF HeldAt, RecordsInv, OneAfterAnother
  <2>3. /\ host[p].to \in Nat \union {None} /\ host[r].from \in Nat \union {None}
    BY <1>4 DEF RecordsInv, TypesOK
  <2> QED
    BY <1>4, <2>1, <2>2, <2>3 DEF HeldAt
<1>6. r \in found
  <2> DEFINE Newer(x) == {s \in Runs : view[s] # None /\ view[s].seen > view[x].seen}
  <2>1. Newer(r) \subseteq Newer(p)
    <3>1. \A s \in Runs : view[s] # None => view[s].seen \in Nat
      BY DEF Cell
    <3> QED
      BY <1>4, <1>5, <3>1
  <2>2. Newer(p) \subseteq Runs /\ IsFiniteSet(Newer(p))
    BY <1>2, FS_Subset
  <2>3. /\ Cardinality(Newer(r)) <= Cardinality(Newer(p))
        /\ Cardinality(Newer(r)) \in Nat /\ Cardinality(Newer(p)) \in Nat
    <3> HIDE DEF Newer
    <3>1. IsFiniteSet(Newer(r)) /\ Cardinality(Newer(r)) <= Cardinality(Newer(p))
      BY <2>1, <2>2, FS_Subset
    <3> QED
      BY <2>2, <3>1, FS_CardinalityType
  <2>4. Cardinality(Newer(p)) < RunLimit
    BY <1>3 DEF Newest
  <2>5. Cardinality(Newer(r)) < RunLimit
    <3> HIDE DEF Newer
    <3> QED
      BY <2>3, <2>4, RecordsAssumption
  <2>6. r \in Newest(view)
    BY <2>5 DEF Newest
  <2> QED
    BY <1>2, <2>6 DEF Matches
<1> HIDE DEF found, p
<1>7. view[r].seen <= view[p].seen
  BY <1>3, <1>6
<1> QED
  BY <1>4, <1>5, <1>7

\* The rounds of a wait.
LEMMA WaitingKeeps ==
  ASSUME RecordsInv, WaitGoesOn PROVE RecordsInv'
<1>1. /\ Shape(wait) /\ wait.view \in Table /\ Right(host, clock, wait.view)
      /\ wait.pc # "done" => wait.picked = None
  BY DEF RecordsInv, TypesOK, AllHonest, Settles
<1>2. CASE LoadState
  <2> DEFINE next == [wait EXCEPT !.pc = "check", !.i = 1, !.view = rows]
  <2>1. WaitStep(next) /\ wait.picked = None
    BY <1>1, <1>2 DEF LoadState
  <2>2. /\ Shape(next) /\ next.pc = "check" /\ next.view = rows /\ next.picked = wait.picked
    BY <1>1 DEF Shape
  <2>3. rows \in [Runs -> Cell] /\ rows \in Table /\ Right(host, clock, rows)
    BY RowsTable DEF RecordsInv, TypesOK, AllHonest
  <2> HIDE DEF next
  <2> QED
    BY <2>1, <2>2, <2>3, WaitKeeps
\* Without a run that was picked only the round goes on.
<1>3. ASSUME NEW next, WaitStep(next), Shape(next), next.view = wait.view, next.picked = None,
             next.pc # "check" \/ wait.pc = "check"
      PROVE  RecordsInv'
  BY <1>1, <1>3, WaitKeeps DEF RecordsInv, TypesOK
<1>4. ASSUME NEW result, Finish(result, None) PROVE RecordsInv'
  <2> DEFINE next == [wait EXCEPT !.pc = "done", !.result = result, !.picked = None, !.wake = 0,
                                  !.i = 0, !.checked = IF wait.pc = "check" THEN clock ELSE @]
  <2>1. WaitStep(next)
    BY <1>4 DEF Finish
  <2>2. Shape(next) /\ next.view = wait.view /\ next.picked = None /\ next.pc = "done"
    BY <1>1 DEF Shape
  <2> HIDE DEF next
  <2> QED
    BY <1>3, <2>1, <2>2
<1>5. CASE Wake
  <2>1. CASE WaitStep([wait EXCEPT !.pc = "load"])
    <3> DEFINE next == [wait EXCEPT !.pc = "load"]
    <3>1. /\ Shape(next) /\ next.view = wait.view /\ next.picked = wait.picked
          /\ next.pc = "load" /\ wait.picked = None
      BY <1>1, <1>5 DEF Shape, Wake
    <3> HIDE DEF next
    <3>2. WaitStep(next)
      BY <2>1 DEF next
    <3> QED
      BY <1>3, <3>1, <3>2
  <2> QED
    BY <1>4, <1>5, <2>1 DEF Wake
<1>6. CASE Evaluate
  <2> DEFINE kind == wait.checks[wait.i]
             r == Selected(wait.view, wait.by)
  <2>0. wait.pc = "check" /\ wait.picked = None /\ wait.view \in [Runs -> Cell]
    BY <1>1, <1>6 DEF Evaluate, RecordsInv, TypesOK
  <2>1. ASSUME NEW result, Finish(result, r) PROVE RecordsInv'
    <3> DEFINE next == [wait EXCEPT !.pc = "done", !.result = result, !.picked = r, !.wake = 0,
                                    !.i = 0, !.checked = IF wait.pc = "check" THEN clock ELSE @]
    <3>1. WaitStep(next)
      BY <2>1 DEF Finish
    <3>2. /\ Shape(next) /\ next.view = wait.view /\ next.picked = r /\ next.pc = "done"
          /\ next.by = wait.by
      BY <1>1 DEF Shape
    <3> HIDE DEF next, r
    <3>3. next.picked # None /\ next.by \in Keys =>
            \A s \in Runs : (KeyOf[s] = next.by /\ s > next.picked) => next.view[s] = None
      BY <1>1, <2>0, <3>2, SelectedLast DEF r
    <3> QED
      BY <1>1, <2>0, <3>1, <3>2, <3>3, WaitKeeps
  <2>2. CASE WaitStep([wait EXCEPT !.i = @ + 1])
    <3> DEFINE next == [wait EXCEPT !.i = @ + 1]
    <3>1. Shape(next) /\ next.view = wait.view /\ next.picked = wait.picked /\ next.pc = wait.pc
      BY <1>1 DEF Shape
    <3> HIDE DEF next
    <3>2. WaitStep(next)
      BY <2>2 DEF next
    <3> QED
      BY <1>3, <2>0, <3>1, <3>2
  <2>3. CASE AfterRound
    <3>1. CASE WaitStep([wait EXCEPT !.pc = "sleep", !.wake = WakeAt, !.checked = clock])
      <4> DEFINE next == [wait EXCEPT !.pc = "sleep", !.wake = WakeAt, !.checked = clock]
      <4>1. Shape(next) /\ next.view = wait.view /\ next.picked = wait.picked /\ next.pc = "sleep"
        BY <1>1 DEF Shape
      <4> HIDE DEF next
      <4>2. WaitStep(next)
        BY <3>1 DEF next
      <4> QED
        BY <1>3, <2>0, <4>1, <4>2
    <3> QED
      BY <1>4, <2>3, <3>1 DEF AfterRound
  <2> QED
    BY <1>6, <2>1, <2>2, <2>3 DEF Evaluate
<1> QED
  BY <1>2, <1>5, <1>6 DEF WaitGoesOn

LEMMA StartKeeps ==
  ASSUME RecordsInv, NEW by, NEW checks, StartWait(by, checks) PROVE RecordsInv'
<1> DEFINE next == [NoWait EXCEPT !.pc = "load", !.by = by, !.checks = checks, !.since = clock,
                                  !.deadline = clock + setting.timeout]
<1>1. WaitStep(next)
  BY DEF StartWait
<1>2. Shape(next) /\ next.view = <<>> /\ next.picked = None /\ next.pc = "load"
  BY DEF Shape, NoWait
<1> HIDE DEF next
<1>3. next.view \in Table /\ Right(host, clock, next.view)
  BY <1>2, EmptyTable DEF Right
<1> QED
  BY <1>1, <1>2, <1>3, WaitKeeps
-----------------------------------------------------------------------------
(* The theorems.                                                           *)

LEMMA InitRecords == ClientsInit => RecordsInv
<1> SUFFICES ASSUME Init PROVE RecordsInv
  BY DEF ClientsInit
<1>1. <<>> \in Table /\ DOMAIN <<>> = {} /\ <<>> \in Seq(Sent)
  BY EmptyTable
<1>2. TypesOK
  BY <1>1 DEF Init, TypesOK, NoWait, Shape, Cell
<1>3. OneAfterAnother
  BY DEF Init, OneAfterAnother
<1>4. AllHonest
  BY <1>1 DEF Init, AllHonest, NoWait, Right
<1>5. Settles
  BY DEF Init, Settles, NewestPicked, NoWait
<1> QED
  BY <1>2, <1>3, <1>4, <1>5 DEF RecordsInv

LEMMA RecordsStep == RecordsInv /\ [ClientsNext]_allVars => RecordsInv'
<1> SUFFICES ASSUME RecordsInv, [ClientsNext]_allVars PROVE RecordsInv'
  OBVIOUS
<1>1. CASE Next
  <2>1. CASE ApplyStep
    BY <2>1, FindKeeps, WriteKeeps, CommitKeeps DEF ApplyStep
  <2> QED
    BY <1>1, <2>1, QuietKeeps, ReportKeeps, ReceiveKeeps, AskKeeps, AnswerKeeps,
       WaitingKeeps, StartKeeps DEF Next
<1>2. CASE \E c \in Callers : CallGoesOn(c)
  <2>1. PICK c \in Callers : CallGoesOn(c)
    BY <1>2
  <2>2. \/ UNCHANGED vars
        \/ StartWait(calls[c].input.by, <<"status">>)
    BY <2>1 DEF CallGoesOn, Send, Answer, Fail, Refuse, DelayOver, Return
  <2> QED
    BY <2>2, QuietKeeps, StartKeeps
<1>3. CASE \E c \in Callers, input \in setting.inputs : StartCall(c, input)
  <2>1. UNCHANGED vars
    BY <1>3 DEF StartCall
  <2> QED
    BY <2>1, QuietKeeps
<1>4. CASE DeliverKill \/ UNCHANGED allVars
  BY <1>4, QuietKeeps DEF allVars
<1> QED
  BY <1>1, <1>2, <1>3, <1>4 DEF ClientsNext

\* However late and in whatever order the reports are applied, and whatever clients
\* kill meanwhile, a record says that the slave held the run when it did.
THEOREM RecordsAreHonest == ClientsSpec => []RecordsHonest
<1>1. RecordsInv => RecordsHonest
  <2> SUFFICES ASSUME RecordsInv, NEW r \in Runs, rows[r] # None
               PROVE  /\ host[r].from # None /\ host[r].from <= rows[r].seen
                      /\ host[r].to # None => rows[r].seen <= host[r].to
    BY DEF RecordsHonest
  <2>1. /\ rows \in [Runs -> Cell] /\ HeldAt(host, clock, r, rows[r].seen)
        /\ host[r].to \in Nat \union {None}
    BY DEF RecordsInv, TypesOK, AllHonest, Right
  <2>2. rows[r].seen \in Nat
    BY <2>1 DEF Cell
  <2> QED
    BY <2>1, <2>2 DEF HeldAt
<1> QED
  BY <1>1, InitRecords, RecordsStep, PTL DEF ClientsSpec

\* A wait for a key never settles for an older run of it than is recorded, also when
\* the rows of newer runs are overwritten by older reports.
THEOREM PicksNewest == ClientsSpec => []NewestPicked
<1>1. RecordsInv => NewestPicked
  BY DEF RecordsInv, Settles
<1> QED
  BY <1>1, InitRecords, RecordsStep, PTL DEF ClientsSpec
-----------------------------------------------------------------------------
(* The requests of a command.                                              *)

Request ==
    [kind : {"read", "mutation", "wait"}, target : Runs \union Keys \union {None},
     of : {"projects", "hosts", "template", "runs", "process", "kill", "wait"}]

\* Requests that take no kill and read no list of runs.
Plain == {r \in Request : r.of \notin {"kill", "runs"}}

\* Kills are mutations.
WellMade(left) ==
    /\ left \in Seq(Request)
    /\ \A i \in DOMAIN left : left[i].of = "kill" => left[i].kind = "mutation"

\* Of the kills of a plan those after the first d are in a row in what is left to
\* send, a requests from the front; only plans of which no kill was sent wait for
\* others.
KillsAt(left, plan, d, a) ==
    /\ a \in Nat /\ d \in 0 .. Len(plan)
    /\ a + (Len(plan) - d) <= Len(left)
    /\ \A i \in 1 .. Len(left) : left[i].of = "kill" <=> (a < i /\ i <= a + (Len(plan) - d))
    /\ \A i \in 1 .. Len(plan) - d : left[a + i].target = plan[d + i]
    /\ a # 0 => d = 0

\* The list of runs is read once at most.
ReadsOnce(left) ==
    \A i, j \in DOMAIN left : left[i].of = "runs" /\ left[j].of = "runs" => i = j
ReadsNone(left) == \A i \in DOMAIN left : left[i].of # "runs"

LEMMA Parts ==
    ASSUME NEW left, WellMade(left), left # <<>>
    PROVE  /\ Head(left) = left[1] /\ Len(left) \in Nat \ {0} /\ 1 \in DOMAIN left
           /\ Tail(left) \in Seq(Request) /\ Len(Tail(left)) = Len(left) - 1
           /\ \A i \in 1 .. Len(left) - 1 : Tail(left)[i] = left[i + 1]
           /\ DOMAIN left = 1 .. Len(left) /\ DOMAIN Tail(left) = 1 .. Len(left) - 1
BY DEF WellMade

\* What is left after the first request.
LEMMA TailOK ==
    ASSUME NEW left, WellMade(left), left # <<>>
    PROVE  /\ WellMade(Tail(left))
           /\ ReadsOnce(left) => ReadsOnce(Tail(left))
           /\ ReadsNone(left) => ReadsNone(Tail(left))
           /\ ReadsOnce(left) /\ Head(left).of = "runs" => ReadsNone(Tail(left))
<1> DEFINE tl == Tail(left)
           n == Len(left)
<1>1. /\ n \in Nat \ {0} /\ DOMAIN left = 1 .. n /\ DOMAIN tl = 1 .. n - 1
      /\ tl \in Seq(Request) /\ Head(left) = left[1]
      /\ \A i \in 1 .. n - 1 : tl[i] = left[i + 1]
  BY Parts
<1>2. \A i \in 1 .. n - 1 : i + 1 \in 1 .. n /\ i + 1 # 1
  BY <1>1
<1> HIDE DEF tl, n
<1>3. WellMade(tl)
  BY <1>1, <1>2 DEF WellMade
<1>4. ReadsOnce(left) => ReadsOnce(tl)
  <2> SUFFICES ASSUME ReadsOnce(left), NEW i \in DOMAIN tl, NEW j \in DOMAIN tl,
                      tl[i].of = "runs", tl[j].of = "runs"
               PROVE  i = j
    BY DEF ReadsOnce
  <2>1. i + 1 = j + 1
    BY <1>1, <1>2 DEF ReadsOnce
  <2> QED
    BY <1>1, <2>1
<1>5. ReadsNone(left) => ReadsNone(tl)
  BY <1>1, <1>2 DEF ReadsNone
<1>6. ReadsOnce(left) /\ Head(left).of = "runs" => ReadsNone(tl)
  <2> SUFFICES ASSUME ReadsOnce(left), left[1].of = "runs", NEW i \in DOMAIN tl, tl[i].of = "runs"
               PROVE  FALSE
    BY <1>1 DEF ReadsNone
  <2>1. i + 1 \in DOMAIN left /\ left[i + 1].of = "runs" /\ 1 \in DOMAIN left
    BY <1>1, <1>2
  <2>2. i + 1 = 1
    BY <2>1 DEF ReadsOnce
  <2> QED
    BY <1>1, <1>2, <2>2
<1> QED
  BY <1>3, <1>4, <1>5, <1>6 DEF tl

\* A request that is no kill is done with.
LEMMA PopOther ==
    ASSUME NEW left, WellMade(left), left # <<>>, NEW plan, Len(plan) \in Nat,
           NEW d, NEW a, KillsAt(left, plan, d, a), Head(left).of # "kill"
    PROVE  \E b \in Nat : KillsAt(Tail(left), plan, d, b)
<1> DEFINE tl == Tail(left)
           n == Len(left)
           k == Len(plan) - d
<1>1. /\ n \in Nat \ {0} /\ Len(tl) = n - 1 /\ Head(left) = left[1]
      /\ \A i \in 1 .. n - 1 : tl[i] = left[i + 1]
  BY Parts
<1>2. /\ a \in Nat /\ d \in 0 .. Len(plan) /\ k \in Nat /\ a + k <= n
      /\ \A i \in 1 .. n : left[i].of = "kill" <=> (a < i /\ i <= a + k)
      /\ \A i \in 1 .. k : left[a + i].target = plan[d + i]
      /\ a # 0 => d = 0
  BY DEF KillsAt
<1> HIDE DEF tl, n, k
<1>3. CASE a # 0
  <2> DEFINE b == a - 1
  <2>1. b \in Nat /\ b + k <= n - 1 /\ b + 1 = a
    BY <1>1, <1>2, <1>3
  <2>2. \A i \in 1 .. n - 1 : tl[i].of = "kill" <=> (b < i /\ i <= b + k)
    BY <1>1, <1>2, <2>1
  <2>3. \A i \in 1 .. k : tl[b + i].target = plan[d + i]
    <3> SUFFICES ASSUME NEW i \in 1 .. k
                 PROVE  tl[b + i].target = plan[d + i]
      OBVIOUS
    <3>1. b + i \in 1 .. n - 1 /\ (b + i) + 1 = a + i
      BY <1>1, <1>2, <2>1
    <3> QED
      BY <1>1, <1>2, <3>1
  <2>4. KillsAt(tl, plan, d, b)
    BY <1>1, <1>2, <1>3, <2>1, <2>2, <2>3 DEF KillsAt, k
  <2> QED
    BY <2>1, <2>4 DEF tl
<1>4. CASE a = 0
  <2>1. k = 0
    <3>1. 1 \in 1 .. n
      BY <1>1
    <3>2. ~(1 <= k)
      BY <1>1, <1>2, <1>4, <3>1
    <3> QED
      BY <1>2, <3>2
  <2>2. \A i \in 1 .. n - 1 : tl[i].of # "kill"
    <3> SUFFICES ASSUME NEW i \in 1 .. n - 1
                 PROVE  tl[i].of # "kill"
      OBVIOUS
    <3>1. i + 1 \in 1 .. n /\ ~(i + 1 <= a + k) /\ tl[i] = left[i + 1]
      BY <1>1, <1>4, <2>1
    <3> QED
      BY <1>2, <3>1
  <2>3. \A i \in 1 .. n - 1 : tl[i].of = "kill" <=> (0 < i /\ i <= 0 + k)
    BY <1>1, <2>1, <2>2
  <2>4. \A i \in 1 .. k : tl[0 + i].target = plan[d + i]
    BY <2>1
  <2>5. KillsAt(tl, plan, d, 0)
    BY <1>1, <1>2, <2>1, <2>3, <2>4 DEF KillsAt, k
  <2> QED
    BY <2>5 DEF tl
<1> QED
  BY <1>3, <1>4

\* A kill is done with.
LEMMA PopKill ==
    ASSUME NEW left, WellMade(left), left # <<>>, NEW plan, Len(plan) \in Nat,
           NEW d, NEW a, KillsAt(left, plan, d, a), Head(left).of = "kill"
    PROVE  /\ d + 1 \in 1 .. Len(plan) /\ Head(left).target = plan[d + 1]
           /\ KillsAt(Tail(left), plan, d + 1, 0)
<1> DEFINE tl == Tail(left)
           n == Len(left)
           k == Len(plan) - d
<1>1. /\ n \in Nat \ {0} /\ Len(tl) = n - 1 /\ Head(left) = left[1]
      /\ \A i \in 1 .. n - 1 : tl[i] = left[i + 1]
  BY Parts
<1>2. /\ a \in Nat /\ d \in 0 .. Len(plan) /\ k \in Nat /\ a + k <= n
      /\ \A i \in 1 .. n : left[i].of = "kill" <=> (a < i /\ i <= a + k)
      /\ \A i \in 1 .. k : left[a + i].target = plan[d + i]
  BY DEF KillsAt
<1> HIDE DEF tl, n
<1>3. a = 0 /\ 1 <= k
  BY <1>1, <1>2
<1>4. d + 1 \in 1 .. Len(plan) /\ left[1].target = plan[d + 1]
  BY <1>2, <1>3
<1> DEFINE m == Len(plan) - (d + 1)
<1>5. m = k - 1 /\ m \in Nat /\ 0 + m <= n - 1
  BY <1>1, <1>2, <1>3
<1>6. \A i \in 1 .. n - 1 : tl[i].of = "kill" <=> (0 < i /\ i <= 0 + m)
  <2> SUFFICES ASSUME NEW i \in 1 .. n - 1
               PROVE  tl[i].of = "kill" <=> i <= m
    BY <1>5
  <2>1. i + 1 \in 1 .. n /\ tl[i] = left[i + 1]
    BY <1>1
  <2>2. left[i + 1].of = "kill" <=> (a < i + 1 /\ i + 1 <= a + k)
    BY <1>2, <2>1
  <2>3. (a < i + 1 /\ i + 1 <= a + k) <=> i <= m
    BY <1>2, <1>3, <1>5
  <2> QED
    BY <2>1, <2>2, <2>3
<1>7. \A i \in 1 .. m : tl[0 + i].target = plan[(d + 1) + i]
  <2> SUFFICES ASSUME NEW i \in 1 .. m
               PROVE  tl[i].target = plan[(d + 1) + i]
    OBVIOUS
  <2>1. i \in 1 .. n - 1 /\ i + 1 \in 1 .. k
    BY <1>1, <1>2, <1>5
  <2>2. tl[i] = left[i + 1] /\ left[a + (i + 1)].target = plan[d + (i + 1)]
    BY <1>1, <1>2, <2>1
  <2>3. a + (i + 1) = i + 1 /\ d + (i + 1) = (d + 1) + i
    BY <1>2, <1>3
  <2> QED
    BY <2>2, <2>3
<1>8. KillsAt(tl, plan, d + 1, 0)
  BY <1>1, <1>2, <1>4, <1>5, <1>6, <1>7 DEF KillsAt
<1> QED
  BY <1>1, <1>4, <1>8 DEF tl

\* Two sequences behind each other.
Joins(u, s, t) ==
    /\ Len(u) = Len(s) + Len(t) /\ Len(s) \in Nat /\ Len(t) \in Nat
    /\ \A i \in 1 .. Len(s) : u[i] = s[i]
    /\ \A i \in 1 .. Len(t) : u[Len(s) + i] = t[i]

LEMMA Behind ==
    ASSUME NEW S, NEW s \in Seq(S), NEW t \in Seq(S)
    PROVE  s \o t \in Seq(S) /\ Joins(s \o t, s, t)
BY DEF Joins

\* The kills of a plan are put behind what is left, and others behind them.
LEMMA AddKills ==
    ASSUME NEW left, WellMade(left), NEW old, \E d, a : KillsAt(left, old, d, a) /\ d = Len(old),
           NEW plan \in Seq(Runs), NEW rest \in Seq(Plain)
    PROVE  LET new == left \o [i \in DOMAIN plan |-> Kill(plan[i])] \o rest
           IN  /\ WellMade(new) /\ KillsAt(new, plan, 0, Len(left))
               /\ ReadsNone(left) => ReadsNone(new)
<1> DEFINE ks == [i \in DOMAIN plan |-> Kill(plan[i])]
           both == left \o ks
           new == both \o rest
           n == Len(left)
           k == Len(plan)
           m == Len(rest)
<1>1. \A r \in Runs : /\ Kill(r) \in Request /\ Kill(r).of = "kill" /\ Kill(r).kind = "mutation"
                      /\ Kill(r).target = r
  BY DEF Kill, Request
<1>2. ks \in Seq(Request) /\ Len(ks) = k /\ k \in Nat /\ \A i \in 1 .. k : ks[i] = Kill(plan[i])
  <2>1. \A i \in 1 .. k : Kill(plan[i]) \in Request
    BY <1>1
  <2> QED
    BY <2>1
<1>3. \A i \in 1 .. k : plan[i] \in Runs
  OBVIOUS
<1>4. left \in Seq(Request) /\ n \in Nat /\ m \in Nat /\ rest \in Seq(Request)
      /\ \A i \in 1 .. m : rest[i] \in Plain
  <2>1. Plain \subseteq Request
    BY DEF Plain
  <2> QED
    BY <2>1 DEF WellMade
<1> HIDE DEF ks
<1>5. /\ both \in Seq(Request) /\ Len(both) = n + k
      /\ \A i \in 1 .. n : both[i] = left[i]
      /\ \A i \in 1 .. k : both[n + i] = ks[i]
  <2>1. both \in Seq(Request) /\ Joins(both, left, ks)
    BY <1>2, <1>4, Behind
  <2> HIDE DEF both, k
  <2> QED
    BY <1>2, <2>1 DEF Joins
<1> HIDE DEF both
<1>6. /\ new \in Seq(Request) /\ Len(new) = n + k + m
      /\ \A i \in 1 .. n + k : new[i] = both[i]
      /\ \A i \in 1 .. m : new[n + k + i] = rest[i]
  <2>1. new \in Seq(Request) /\ Joins(new, both, rest)
    BY <1>4, <1>5, Behind
  <2> HIDE DEF new, k, n
  <2> QED
    BY <1>5, <2>1 DEF Joins, m
<1>7. \A i \in 1 .. n : left[i].of # "kill"
  <2>1. PICK d, a : KillsAt(left, old, d, a) /\ d = Len(old)
    OBVIOUS
  <2> QED
    BY <2>1 DEF KillsAt
<1> HIDE DEF new, n, k, m
<1>8. ASSUME NEW i \in 1 .. n + k + m
      PROVE  \/ i \in 1 .. n /\ new[i] = left[i]
             \/ i - n \in 1 .. k /\ new[i] = Kill(plan[i - n])
             \/ i - (n + k) \in 1 .. m /\ new[i] = rest[i - (n + k)]
  <2>1. CASE i <= n
    <3>1. i \in 1 .. n /\ i \in 1 .. n + k
      BY <1>2, <1>4, <2>1
    <3> QED
      BY <1>5, <1>6, <3>1
  <2>2. CASE n < i /\ i <= n + k
    <3>1. i - n \in 1 .. k /\ n + (i - n) = i /\ i \in 1 .. n + k
      BY <1>2, <1>4, <2>2
    <3> QED
      BY <1>2, <1>5, <1>6, <3>1
  <2>3. CASE n + k < i
    <3>1. i - (n + k) \in 1 .. m /\ n + k + (i - (n + k)) = i
      BY <1>2, <1>4, <2>3
    <3> QED
      BY <1>6, <3>1
  <2> QED
    BY <1>2, <1>4, <2>1, <2>2, <2>3
<1>9. DOMAIN new = 1 .. n + k + m
  BY <1>6
<1>10. \A i \in 1 .. m : rest[i].of # "kill" /\ rest[i].of # "runs"
  BY <1>4 DEF Plain
<1>11. \A i \in 1 .. n + k + m : new[i].of = "kill" <=> (n < i /\ i <= n + k)
  <2> SUFFICES ASSUME NEW i \in 1 .. n + k + m
               PROVE  new[i].of = "kill" <=> (n < i /\ i <= n + k)
    OBVIOUS
  <2>1. CASE i \in 1 .. n /\ new[i] = left[i]
    <3>1. ~(n < i)
      BY <1>4, <2>1
    <3> QED
      BY <1>7, <2>1, <3>1
  <2>2. CASE i - n \in 1 .. k /\ new[i] = Kill(plan[i - n])
    <3>1. n < i /\ i <= n + k
      BY <1>2, <1>4, <2>2
    <3> QED
      BY <1>1, <1>3, <2>2, <3>1
  <2>3. CASE i - (n + k) \in 1 .. m /\ new[i] = rest[i - (n + k)]
    BY <1>2, <1>4, <1>10, <2>3
  <2> QED
    BY <1>8, <2>1, <2>2, <2>3
<1>12. \A i \in 1 .. k : new[n + i].target = plan[0 + i]
  <2> SUFFICES ASSUME NEW i \in 1 .. k
               PROVE  new[n + i].target = plan[i]
    OBVIOUS
  <2>1. new[n + i] = Kill(plan[i])
    BY <1>2, <1>4, <1>5, <1>6
  <2> QED
    BY <1>1, <1>3, <2>1
<1>13. KillsAt(new, plan, 0, n)
  BY <1>2, <1>4, <1>6, <1>11, <1>12 DEF KillsAt, k
<1>14. WellMade(new)
  <2> SUFFICES ASSUME NEW i \in 1 .. n + k + m, new[i].of = "kill"
               PROVE  new[i].kind = "mutation"
    BY <1>6, <1>9 DEF WellMade
  <2>1. i - n \in 1 .. k
    BY <1>2, <1>4, <1>11
  <2>2. new[i] = Kill(plan[i - n])
    <3>1. ~(i \in 1 .. n) /\ ~(i - (n + k) \in 1 .. m)
      BY <1>2, <1>4, <2>1
    <3> QED
      BY <1>8, <3>1
  <2> QED
    BY <1>1, <1>3, <2>1, <2>2
<1>15. ASSUME ReadsNone(left)
       PROVE  ReadsNone(new)
  <2> SUFFICES ASSUME NEW i \in 1 .. n + k + m
               PROVE  new[i].of # "runs"
    BY <1>9 DEF ReadsNone
  <2>1. CASE i \in 1 .. n /\ new[i] = left[i]
    BY <1>4, <1>15, <2>1 DEF ReadsNone, WellMade, n
  <2>2. CASE i - n \in 1 .. k /\ new[i] = Kill(plan[i - n])
    BY <1>1, <1>3, <2>2
  <2>3. CASE i - (n + k) \in 1 .. m /\ new[i] = rest[i - (n + k)]
    BY <1>10, <2>3
  <2> QED
    BY <1>8, <2>1, <2>2, <2>3
<1>16. WellMade(new) /\ KillsAt(new, plan, 0, n) /\ (ReadsNone(left) => ReadsNone(new))
  BY <1>13, <1>14, <1>15
<1> QED
  BY <1>16 DEF new, both, ks, n

-----------------------------------------------------------------------------
(* The requests that a command sets out to send.                           *)

LEMMA PlainContext ==
    ASSUME NEW input \in Inputs
    PROVE  ContextOf(input) \in Seq(Plain)
<1>1. Read("projects") \in Plain /\ Read("hosts") \in Plain
  BY DEF Read, Plain, Request
<1> QED
  BY <1>1 DEF ContextOf

LEMMA PlainWait ==
    ASSUME NEW input \in Inputs
    PROVE  WaitOf(input) \in Seq(Plain)
<1> DEFINE other == [input EXCEPT !.template = TRUE]
<1>1. other \in Inputs
  BY DEF Inputs
<1> HIDE DEF other
<1>2. ContextOf(other) \in Seq(Plain)
  BY <1>1, PlainContext
<1>3. AskWait \in Plain
  BY DEF AskWait, Plain, Request
<1>4. ContextOf(other) \o <<AskWait>> \in Seq(Plain)
  BY <1>2, <1>3
<1> QED
  BY <1>4 DEF WaitOf, other

\* Plain requests, and at most one at their end that takes a kill or reads the runs.
LEMMA PlainThen ==
    ASSUME NEW plain \in Seq(Plain), NEW last \in Request, last.of = "kill" => last.kind = "mutation"
    PROVE  LET left == plain \o <<last>>
           IN  /\ WellMade(left) /\ ReadsOnce(left)
               /\ last.of = "kill" => KillsAt(left, <<last.target>>, 0, Len(plain)) /\ ReadsNone(left)
               /\ last.of # "kill" => KillsAt(left, <<>>, 0, 0)
<1> DEFINE left == plain \o <<last>>
           n == Len(plain)
<1>1. n \in Nat /\ \A i \in 1 .. n : plain[i] \in Plain
  OBVIOUS
<1>2. \A i \in 1 .. n : plain[i] \in Request /\ plain[i].of # "kill" /\ plain[i].of # "runs"
  BY <1>1 DEF Plain
<1>3. /\ Len(left) = n + 1 /\ DOMAIN left = 1 .. n + 1 /\ left[n + 1] = last
      /\ \A i \in 1 .. n : left[i] = plain[i]
  BY <1>1
<1>4. left \in Seq(Request)
  <2>1. plain \in Seq(Request)
    BY DEF Plain
  <2> QED
    BY <2>1
<1> HIDE DEF left, n
<1>5. \A i \in 1 .. n + 1 : i = n + 1 \/ i \in 1 .. n
  BY <1>1
<1>6. WellMade(left) /\ ReadsOnce(left)
  BY <1>2, <1>3, <1>4, <1>5 DEF WellMade, ReadsOnce
<1>7. ASSUME last.of = "kill"
      PROVE  KillsAt(left, <<last.target>>, 0, n) /\ ReadsNone(left)
  <2> DEFINE plan == <<last.target>>
  <2>1. Len(plan) = 1 /\ plan[1] = last.target
    OBVIOUS
  <2> HIDE DEF plan
  <2>2. \A i \in 1 .. n + 1 : left[i].of = "kill" <=> (n < i /\ i <= n + (Len(plan) - 0))
    BY <1>1, <1>2, <1>3, <1>5, <1>7, <2>1
  <2>3. \A i \in 1 .. Len(plan) - 0 : left[n + i].target = plan[0 + i]
    BY <1>3, <2>1
  <2>4. KillsAt(left, plan, 0, n)
    BY <1>1, <1>3, <2>1, <2>2, <2>3 DEF KillsAt
  <2>5. ReadsNone(left)
    BY <1>2, <1>3, <1>5, <1>7 DEF ReadsNone
  <2> QED
    BY <2>4, <2>5 DEF plan
<1>8. ASSUME last.of # "kill"
      PROVE  KillsAt(left, <<>>, 0, 0)
  <2>1. \A i \in 1 .. n + 1 : left[i].of # "kill"
    BY <1>2, <1>3, <1>5, <1>8
  <2> QED
    BY <1>1, <1>3, <2>1 DEF KillsAt
<1> QED
  BY <1>6, <1>7, <1>8 DEF left, n

LEMMA PlainAlone ==
    ASSUME NEW left \in Seq(Plain)
    PROVE  WellMade(left) /\ ReadsNone(left) /\ KillsAt(left, <<>>, 0, 0)
<1>1. \A i \in 1 .. Len(left) : left[i].of # "kill" /\ left[i].of # "runs"
  BY DEF Plain
<1>2. left \in Seq(Request) /\ Len(left) \in Nat /\ DOMAIN left = 1 .. Len(left)
  BY DEF Plain
<1> QED
  BY <1>1, <1>2 DEF WellMade, ReadsNone, KillsAt

\* The kill of a command that asks for one.
PlanOf(input, matched) == IF input.what = "kill" THEN <<input.by>> ELSE matched

LEMMA RequestsOK ==
    ASSUME NEW input \in Inputs
    PROVE  /\ WellMade(RequestsOf(input)) /\ ReadsOnce(RequestsOf(input))
           /\ \E a : KillsAt(RequestsOf(input), PlanOf(input, <<>>), 0, a)
<1> DEFINE context == ContextOf(input)
           left == RequestsOf(input)
<1>1. context \in Seq(Plain)
  BY PlainContext
<1>2. Read("runs") \in Request /\ Read("runs").of = "runs"
  BY DEF Read, Request
<1>3. ASSUME NEW plain \in Seq(Plain), left = plain \o <<Read("runs")>>, input.what # "kill"
      PROVE  WellMade(left) /\ ReadsOnce(left) /\ \E a : KillsAt(left, PlanOf(input, <<>>), 0, a)
  <2> DEFINE last == Read("runs")
             all == plain \o <<last>>
  <2>1. last \in Request /\ last.of # "kill"
    BY <1>2
  <2> HIDE DEF last
  <2>2. WellMade(all) /\ ReadsOnce(all) /\ KillsAt(all, <<>>, 0, 0)
    BY <2>1, PlainThen
  <2> HIDE DEF all
  <2>3. left = all /\ PlanOf(input, <<>>) = <<>>
    BY <1>3 DEF PlanOf, all, last
  <2> QED
    BY <2>2, <2>3
<1>4. CASE input.what = "list"
  <2>1. left = context \o <<Read("runs")>>
    BY <1>4 DEF RequestsOf
  <2> QED
    BY <1>1, <1>3, <1>4, <2>1
<1>5. CASE input.what = "kill"
  <2> DEFINE last == Kill(input.by)
             all == context \o <<last>>
  <2>1. last \in Request /\ last.of = "kill" /\ last.kind = "mutation" /\ last.target = input.by
    BY DEF Kill, Request, Inputs
  <2> HIDE DEF last, context
  <2>2. WellMade(all) /\ ReadsOnce(all) /\ KillsAt(all, <<last.target>>, 0, Len(context))
    BY <1>1, <2>1, PlainThen
  <2> HIDE DEF all
  <2>3. left = all /\ PlanOf(input, <<>>) = <<last.target>>
    BY <1>5, <2>1 DEF RequestsOf, PlanOf, all, last, context
  <2> QED
    BY <2>2, <2>3
<1>6. CASE input.what = "ensure"
  <2>1. Ensure \in Plain
    BY DEF Ensure, Plain, Request
  <2>2. left = context \o <<Ensure>> \o WaitOf(input)
    BY <1>6 DEF RequestsOf
  <2>3. WaitOf(input) \in Seq(Plain)
    BY PlainWait
  <2> DEFINE one == <<Ensure>>
             rest == WaitOf(input)
  <2>4. one \in Seq(Plain)
    BY <2>1
  <2> HIDE DEF one, rest, context
  <2>5. left \in Seq(Plain)
    BY <1>1, <2>2, <2>3, <2>4 DEF one, rest, context
  <2> HIDE DEF left
  <2>6. WellMade(left) /\ ReadsNone(left) /\ KillsAt(left, <<>>, 0, 0)
    BY <2>5, PlainAlone
  <2>7. PlanOf(input, <<>>) = <<>> /\ ReadsOnce(left)
    BY <1>6, <2>6 DEF PlanOf, ReadsNone, ReadsOnce
  <2> QED
    BY <2>6, <2>7 DEF left
<1>7. CASE input.what = "restart" /\ input.template
  <2> DEFINE other == [input EXCEPT !.template = FALSE]
             more == ContextOf(other)
             plain == context \o <<Read("template")>> \o more
  <2>1. other \in Inputs
    BY DEF Inputs
  <2> HIDE DEF other
  <2>2. more \in Seq(Plain)
    BY <2>1, PlainContext
  <2>3. Read("template") \in Plain
    BY DEF Read, Plain, Request
  <2>4. left = plain \o <<Read("runs")>>
    BY <1>7 DEF RequestsOf, other
  <2> HIDE DEF more, context
  <2>5. plain \in Seq(Plain)
    BY <1>1, <2>2, <2>3
  <2> HIDE DEF plain
  <2> QED
    BY <1>3, <1>7, <2>4, <2>5
<1>8. CASE input.what = "restart" /\ ~input.template
  <2>1. left = context \o <<Read("runs")>>
    BY <1>8 DEF RequestsOf
  <2> QED
    BY <1>1, <1>3, <1>8, <2>1
<1>9. input.what \in {"list", "kill", "ensure", "restart"}
  BY DEF Inputs
<1> QED
  BY <1>4, <1>5, <1>6, <1>7, <1>8, <1>9

-----------------------------------------------------------------------------
(* The order in which runs are killed.                                     *)

\* A sequence of the members of U in which those with greater v come first.
Ordering(U, v, s) ==
    /\ s \in [1 .. Cardinality(U) -> U]
    /\ \A i, j \in 1 .. Cardinality(U) : i < j => s[i] # s[j] /\ v[s[i]] >= v[s[j]]

LEMMA SomeOrdering ==
    ASSUME NEW S, IsFiniteSet(S), NEW v \in [S -> Nat]
    PROVE  \E s : Ordering(S, v, s)
<1> DEFINE Has(U) == \E s : Ordering(U, v, s)
           Bad == {U \in FiniteSubsetsOf(S) : ~Has(U)}
<1> SUFFICES ASSUME ~Has(S) PROVE FALSE
    OBVIOUS
<1>1. S \in Bad /\ Bad \subseteq FiniteSubsetsOf(S)
  BY DEF FiniteSubsetsOf
<1>2. PICK U \in Bad : \A V \in Bad : ~(<<V, U>> \in StrictSubsetOrdering(S))
  BY <1>1, FS_StrictSubsetOrderingWellFounded, WFMin
<1>3. U \in SUBSET S /\ IsFiniteSet(U) /\ ~Has(U)
  BY <1>2 DEF FiniteSubsetsOf
<1>4. CASE U = {}
  <2> DEFINE s == [i \in 1 .. 0 |-> 0]
  <2>1. Cardinality(U) = 0
    BY <1>4, FS_EmptySet
  <2>2. 1 .. 0 = {}
    OBVIOUS
  <2>3. Ordering(U, v, s)
    BY <1>4, <2>1, <2>2 DEF Ordering
  <2> QED
    BY <1>3, <2>3
<1>5. CASE U # {}
  <2> DEFINE f == [r \in U |-> 0 - v[r]]
  <2>1. f \in [U -> Int]
    BY <1>3
  <2>2. PICK x \in U : \A r \in U : f[r] <= f[x]
    <3> HIDE DEF f
    <3> QED
      BY <1>3, <1>5, <2>1, Greatest
  <2>3. \A r \in U : v[r] \in Nat /\ v[r] >= v[x]
    BY <1>3, <2>2
  <2> DEFINE V == U \ {x}
             n == Cardinality(V)
  <2>4. V \in FiniteSubsetsOf(S) /\ <<V, U>> \in StrictSubsetOrdering(S)
    BY <1>3, FS_Subset DEF FiniteSubsetsOf, StrictSubsetOrdering
  <2>5. Has(V)
    BY <1>2, <2>4
  <2>6. n \in Nat /\ Cardinality(U) = n + 1
    <3>1. IsFiniteSet(V) /\ Cardinality(V) = Cardinality(U) - 1
      BY <1>3, <2>2, FS_RemoveElement
    <3>2. Cardinality(V) \in Nat /\ Cardinality(U) \in Nat
      BY <1>3, <3>1, FS_CardinalityType
    <3> HIDE DEF V
    <3> QED
      BY <3>1, <3>2
  <2>7. PICK old : Ordering(V, v, old)
    BY <2>5
  <2> DEFINE s == [i \in 1 .. n + 1 |-> IF i <= n THEN old[i] ELSE x]
  <2>8. /\ \A i \in 1 .. n : old[i] \in V
        /\ \A i, j \in 1 .. n : i < j => old[i] # old[j] /\ v[old[i]] >= v[old[j]]
    BY <2>7 DEF Ordering
  <2> HIDE DEF n
  <2>9. \A i \in 1 .. n + 1 : (i \in 1 .. n /\ s[i] = old[i]) \/ (i = n + 1 /\ s[i] = x)
    BY <2>6
  <2>10. s \in [1 .. n + 1 -> U]
    BY <2>6, <2>8, <2>9
  <2> HIDE DEF s
  <2>11. ASSUME NEW i \in 1 .. n + 1, NEW j \in 1 .. n + 1, i < j
         PROVE  s[i] # s[j] /\ v[s[i]] >= v[s[j]]
    <3>1. i \in 1 .. n /\ s[i] = old[i]
      BY <2>6, <2>9, <2>11
    <3>2. CASE j \in 1 .. n /\ s[j] = old[j]
      BY <2>8, <2>11, <3>1, <3>2
    <3>3. CASE s[j] = x
      BY <2>3, <2>8, <3>1, <3>3
    <3> QED
      BY <2>9, <3>2, <3>3
  <2>12. Ordering(U, v, s)
    BY <2>6, <2>10, <2>11 DEF Ordering
  <2> QED
    BY <1>3, <2>12
<1> QED
  BY <1>4, <1>5

\* A plan kills no run twice.
Distinct(plan) == \A n, m \in 1 .. Len(plan) : plan[n] = plan[m] => n = m

\* The runs that a restart goes on to kill.
LEMMA FoundOnce ==
    ASSUME rows \in [Runs -> Cell], NEW found \in SUBSET Runs, \A r \in found : rows[r] # None
    PROVE  LastSeenFirst(found) \in Seq(Runs) /\ Distinct(LastSeenFirst(found))
<1> DEFINE v == [r \in found |-> rows[r].seen]
           n == Cardinality(found)
           Good0(s) == \A i, j \in DOMAIN s : i < j => (s[i] # s[j] /\ rows[s[i]].seen >= rows[s[j]].seen)
           first == LastSeenFirst(found)
<1>1. IsFiniteSet(found) /\ n \in Nat
  BY RunsFinite, FS_Subset, FS_CardinalityType
<1>2. v \in [found -> Nat]
  BY DEF Cell
<1>3. PICK s : Ordering(found, v, s)
  <2> HIDE DEF v
  <2> QED
    BY <1>1, <1>2, SomeOrdering
<1>4. s \in [1 .. n -> found] /\ Good0(s)
  <2>1. s \in [1 .. n -> found] /\ DOMAIN s = 1 .. n
    BY <1>3 DEF Ordering
  <2>2. \A i \in 1 .. n : v[s[i]] = rows[s[i]].seen
    BY <2>1
  <2> QED
    BY <1>3, <2>1, <2>2 DEF Ordering
<1>5. first = CHOOSE t \in [1 .. n -> found] : Good0(t)
  BY DEF LastSeenFirst
<1>6. first \in [1 .. n -> found] /\ Good0(first)
  <2> HIDE DEF Good0, n, first
  <2> QED
    BY <1>4, <1>5
<1> HIDE DEF first, n, v
<1>7. first \in Seq(Runs) /\ Len(first) = n /\ DOMAIN first = 1 .. n
  <2>1. first \in [1 .. n -> Runs]
    BY <1>6
  <2> QED
    BY <1>1, <2>1
<1>8. ASSUME NEW i \in 1 .. n, NEW j \in 1 .. n, first[i] = first[j]
      PROVE  i = j
  <2>1. ~(i < j) /\ ~(j < i)
    BY <1>6, <1>7, <1>8
  <2> QED
    BY <1>1, <2>1
<1>9. Distinct(first)
  BY <1>7, <1>8 DEF Distinct
<1> QED
  BY <1>7, <1>9 DEF first

-----------------------------------------------------------------------------
(* What the server has taken.                                              *)

Taken == [call : Callers, target : Runs \union Keys \union {None}, name : Callers \union {None}]

\* Of the kills of a plan the server has taken the first e from caller c, in order,
\* and no other.
Told(told, c, plan, e) ==
    /\ \A i \in DOMAIN told : told[i].call = c => \E n \in 1 .. e : told[i].target = plan[n]
    /\ \A n \in 1 .. e : \E i \in DOMAIN told : told[i].call = c /\ told[i].target = plan[n]
    /\ \A i, j \in DOMAIN told, n, m \in 1 .. e :
          (i < j /\ told[i].call = c /\ told[j].call = c
             /\ told[i].target = plan[n] /\ told[j].target = plan[m]) => n < m

LEMMA OneMore ==
    ASSUME NEW told \in Seq(Taken), NEW x \in Taken
    PROVE  LET new == Append(told, x)
           IN  /\ new \in Seq(Taken) /\ Len(told) \in Nat
               /\ DOMAIN told = 1 .. Len(told) /\ DOMAIN new = 1 .. Len(told) + 1
               /\ new[Len(told) + 1] = x
               /\ \A i \in 1 .. Len(told) : new[i] = told[i]
OBVIOUS

\* A kill of another caller is taken.
LEMMA TellOther ==
    ASSUME NEW told \in Seq(Taken), NEW x \in Taken, NEW c, x.call # c, NEW plan, NEW e,
           Told(told, c, plan, e)
    PROVE  Told(Append(told, x), c, plan, e)
<1> DEFINE new == Append(told, x)
           k == Len(told)
<1>1. /\ k \in Nat /\ DOMAIN told = 1 .. k /\ DOMAIN new = 1 .. k + 1
      /\ new[k + 1] = x /\ \A i \in 1 .. k : new[i] = told[i]
  BY OneMore
<1> HIDE DEF new, k
<1>2. \A i \in 1 .. k + 1 : new[i].call = c => i \in 1 .. k /\ new[i] = told[i]
  BY <1>1
<1>3. \A i \in 1 .. k : i \in 1 .. k + 1
  BY <1>1
<1>4. \A i \in 1 .. k + 1 : new[i].call = c => \E n \in 1 .. e : new[i].target = plan[n]
  BY <1>1, <1>2 DEF Told
<1>5. \A n \in 1 .. e : \E i \in 1 .. k + 1 : new[i].call = c /\ new[i].target = plan[n]
  <2> SUFFICES ASSUME NEW n \in 1 .. e
               PROVE  \E i \in 1 .. k + 1 : new[i].call = c /\ new[i].target = plan[n]
    OBVIOUS
  <2>1. PICK i \in 1 .. k : told[i].call = c /\ told[i].target = plan[n]
    BY <1>1 DEF Told
  <2> QED
    BY <1>1, <1>3, <2>1
<1>6. ASSUME NEW i \in 1 .. k + 1, NEW j \in 1 .. k + 1, NEW n \in 1 .. e, NEW m \in 1 .. e,
             i < j, new[i].call = c, new[j].call = c, new[i].target = plan[n], new[j].target = plan[m]
      PROVE  n < m
  <2>1. i \in 1 .. k /\ j \in 1 .. k /\ new[i] = told[i] /\ new[j] = told[j]
    BY <1>2, <1>6
  <2> QED
    BY <1>1, <1>6, <2>1 DEF Told
<1>7. Told(new, c, plan, e)
  BY <1>1, <1>4, <1>5, <1>6 DEF Told
<1> QED
  BY <1>7 DEF new

\* The next kill of the plan is taken.
LEMMA TellNext ==
    ASSUME NEW told \in Seq(Taken), NEW x \in Taken, NEW plan, Len(plan) \in Nat, Distinct(plan),
           NEW e \in 0 .. Len(plan) - 1, x.target = plan[e + 1], Told(told, x.call, plan, e)
    PROVE  Told(Append(told, x), x.call, plan, e + 1)
<1> DEFINE new == Append(told, x)
           k == Len(told)
           c == x.call
<1>1. /\ k \in Nat /\ DOMAIN told = 1 .. k /\ DOMAIN new = 1 .. k + 1
      /\ new[k + 1] = x /\ \A i \in 1 .. k : new[i] = told[i]
  BY OneMore
<1> HIDE DEF new, k
<1>2. e \in Nat /\ e + 1 \in 1 .. Len(plan) /\ \A n \in 1 .. e + 1 : n \in 1 .. Len(plan)
  OBVIOUS
<1>3. \A i \in 1 .. k + 1 : i = k + 1 \/ (i \in 1 .. k /\ new[i] = told[i])
  BY <1>1
<1>4. \A n \in 1 .. e + 1 : n = e + 1 \/ n \in 1 .. e
  BY <1>2
<1>5. ASSUME NEW i \in 1 .. k, told[i].call = c, NEW n \in 1 .. e + 1, told[i].target = plan[n]
      PROVE  n \in 1 .. e
  <2>1. PICK m \in 1 .. e : told[i].target = plan[m]
    BY <1>1, <1>5 DEF Told
  <2>2. n \in 1 .. Len(plan) /\ m \in 1 .. Len(plan) /\ plan[n] = plan[m]
    BY <1>2, <1>5, <2>1
  <2>3. n = m
    BY <2>2 DEF Distinct
  <2> QED
    BY <2>1, <2>3
<1>6. \A i \in 1 .. k + 1 : new[i].call = c => \E n \in 1 .. e + 1 : new[i].target = plan[n]
  <2> SUFFICES ASSUME NEW i \in 1 .. k + 1, new[i].call = c
               PROVE  \E n \in 1 .. e + 1 : new[i].target = plan[n]
    OBVIOUS
  <2>1. CASE i = k + 1
    BY <1>1, <1>2, <2>1
  <2>2. CASE i \in 1 .. k /\ new[i] = told[i]
    <3>1. PICK n \in 1 .. e : told[i].target = plan[n]
      BY <1>1, <2>2 DEF Told
    <3>2. n \in 1 .. e + 1
      BY <1>2
    <3> QED
      BY <2>2, <3>1, <3>2
  <2> QED
    BY <1>3, <2>1, <2>2
<1>7. \A n \in 1 .. e + 1 : \E i \in 1 .. k + 1 : new[i].call = c /\ new[i].target = plan[n]
  <2> SUFFICES ASSUME NEW n \in 1 .. e + 1
               PROVE  \E i \in 1 .. k + 1 : new[i].call = c /\ new[i].target = plan[n]
    OBVIOUS
  <2>1. CASE n = e + 1
    <3>1. k + 1 \in 1 .. k + 1
      BY <1>1
    <3> QED
      BY <1>1, <2>1, <3>1
  <2>2. CASE n \in 1 .. e
    <3>1. PICK i \in 1 .. k : told[i].call = c /\ told[i].target = plan[n]
      BY <1>1, <2>2 DEF Told
    <3>2. i \in 1 .. k + 1
      BY <1>1
    <3> QED
      BY <1>1, <3>1, <3>2
  <2> QED
    BY <1>4, <2>1, <2>2
<1>8. ASSUME NEW i \in 1 .. k + 1, NEW j \in 1 .. k + 1, NEW n \in 1 .. e + 1, NEW m \in 1 .. e + 1,
             i < j, new[i].call = c, new[j].call = c, new[i].target = plan[n], new[j].target = plan[m]
      PROVE  n < m
  <2>1. i \in 1 .. k /\ new[i] = told[i]
    BY <1>1, <1>3, <1>8
  <2>2. n \in 1 .. e
    BY <1>5, <1>8, <2>1
  <2>3. CASE j = k + 1
    <3>1. plan[m] = plan[e + 1]
      BY <1>1, <1>8, <2>3
    <3>2. m = e + 1
      BY <1>2, <3>1 DEF Distinct
    <3> QED
      BY <1>2, <2>2, <3>2
  <2>4. CASE j \in 1 .. k /\ new[j] = told[j]
    <3>1. m \in 1 .. e
      BY <1>5, <1>8, <2>4
    <3> QED
      BY <1>1, <1>8, <2>1, <2>2, <2>4, <3>1 DEF Told
  <2> QED
    BY <1>3, <2>3, <2>4
<1>9. Told(new, c, plan, e + 1)
  <2> HIDE DEF c
  <2> QED
    BY <1>1, <1>6, <1>7, <1>8 DEF Told
<1> QED
  BY <1>9 DEF new

-----------------------------------------------------------------------------
(* The invariant of a command.                                             *)

CallShape(q) ==
    q \in [pc : {"idle", "ready", "sent", "delay", "done"}, input : {q.input},
           saved : Callers \union {None}, alone : BOOLEAN, tries : Nat, left : {q.left},
           matched : {q.matched}, result : {q.result}]

\* What a command has found and has left to send.
CallMade(q) ==
    /\ WellMade(q.left) /\ q.matched \in Seq(Runs) /\ Distinct(q.matched)
    /\ q.pc # "idle" =>
          /\ q.input \in Inputs
          /\ q.input.what # "restart" => q.matched = <<>>
          /\ q.input.what = "restart" => ReadsNone(q.left) \/ (ReadsOnce(q.left) /\ q.matched = <<>>)
    /\ q.pc \in {"sent", "delay"} => q.left # <<>>

\* The first d kills of its plan were taken, or those and the one under way; the
\* others are left.
UnderWay(q, told, c, plan) ==
    \E d, a : /\ KillsAt(q.left, plan, d, a)
              /\ \/ Told(told, c, plan, d)
                 \/ /\ q.pc = "sent" /\ Head(q.left).of = "kill"
                    /\ Told(told, c, plan, d + 1)

Over(q, told, c, plan) ==
    \E e \in 0 .. Len(plan) :
        Told(told, c, plan, e) /\ (q.result \in {"ok", "unmatched"} => e = Len(plan))

CallTold(q, told, c) ==
    /\ q.pc = "idle" => q.matched = <<>> /\ \A i \in DOMAIN told : told[i].call # c
    /\ q.pc \in {"ready", "sent", "delay"} =>
          q.result = None /\ UnderWay(q, told, c, PlanOf(q.input, q.matched))
    /\ q.pc = "done" => Over(q, told, c, PlanOf(q.input, q.matched))

CommandOK(q, told, c) == CallShape(q) /\ CallMade(q) /\ CallTold(q, told, c)

\* A plan names runs, or a key.
LEMMA PlanOK ==
    ASSUME NEW q, CallMade(q), q.pc # "idle"
    PROVE  LET plan == PlanOf(q.input, q.matched)
           IN  Len(plan) \in Nat /\ Distinct(plan)
<1>1. CASE q.input.what = "kill"
  BY <1>1 DEF PlanOf, Distinct
<1>2. CASE q.input.what # "kill"
  BY <1>2 DEF PlanOf, CallMade
<1> QED
  BY <1>1, <1>2

\* Nothing that has been taken was not in the plan.
LEMMA HowFar ==
    ASSUME NEW q, NEW told, NEW c, CommandOK(q, told, c), q.pc \in {"ready", "sent", "delay"}
    PROVE  \E e \in 0 .. Len(PlanOf(q.input, q.matched)) : Told(told, c, PlanOf(q.input, q.matched), e)
<1> DEFINE plan == PlanOf(q.input, q.matched)
<1>1. Len(plan) \in Nat
  BY PlanOK DEF CommandOK
<1>2. UnderWay(q, told, c, plan)
  BY DEF CommandOK, CallTold
<1>3. WellMade(q.left) /\ (q.pc = "sent" => q.left # <<>>)
  BY DEF CommandOK, CallMade
<1> HIDE DEF plan
<1>4. PICK d, a : /\ KillsAt(q.left, plan, d, a)
                  /\ \/ Told(told, c, plan, d)
                     \/ /\ q.pc = "sent" /\ Head(q.left).of = "kill"
                        /\ Told(told, c, plan, d + 1)
  BY <1>2 DEF UnderWay
<1>5. d \in 0 .. Len(plan)
  BY <1>4 DEF KillsAt
<1>6. CASE Told(told, c, plan, d)
  BY <1>5, <1>6 DEF plan
<1>7. CASE q.pc = "sent" /\ Head(q.left).of = "kill" /\ Told(told, c, plan, d + 1)
  <2>1. d + 1 \in 1 .. Len(plan)
    BY <1>1, <1>3, <1>4, <1>7, PopKill
  <2>2. d + 1 \in 0 .. Len(plan)
    BY <1>1, <2>1
  <2> QED
    BY <1>7, <2>2 DEF plan
<1> QED
  BY <1>4, <1>6, <1>7

\* The command ends without an answer that says all is done.
LEMMA EndOK ==
    ASSUME NEW q, NEW told, NEW c, CommandOK(q, told, c), q.pc \in {"ready", "sent", "delay"}
    PROVE  CommandOK([q EXCEPT !.pc = "done", !.result = "error"], told, c)
<1> DEFINE new == [q EXCEPT !.pc = "done", !.result = "error"]
<1>1. /\ new.pc = "done" /\ new.result = "error" /\ new.input = q.input /\ new.left = q.left
      /\ new.matched = q.matched /\ CallShape(new)
  BY DEF CommandOK, CallShape
<1> HIDE DEF new
<1>2. CallMade(new)
  BY <1>1 DEF CommandOK, CallMade
<1>3. Over(new, told, c, PlanOf(q.input, q.matched))
  BY <1>1, HowFar DEF Over
<1> QED
  BY <1>1, <1>2, <1>3 DEF CommandOK, CallTold, new

\* It ends when nothing is left.
LEMMA ReturnOK ==
    ASSUME NEW q, NEW told, NEW c, CommandOK(q, told, c), q.pc = "ready", q.left = <<>>, NEW result
    PROVE  CommandOK([q EXCEPT !.pc = "done", !.result = result], told, c)
<1> DEFINE new == [q EXCEPT !.pc = "done", !.result = result]
           plan == PlanOf(q.input, q.matched)
<1>1. /\ new.pc = "done" /\ new.input = q.input /\ new.left = q.left
      /\ new.matched = q.matched /\ CallShape(new)
  BY DEF CommandOK, CallShape
<1>2. Len(plan) \in Nat
  BY PlanOK DEF CommandOK
<1>3. UnderWay(q, told, c, plan)
  BY DEF CommandOK, CallTold
<1> HIDE DEF new, plan
<1>4. CallMade(new)
  BY <1>1 DEF CommandOK, CallMade
<1>5. PICK d, a : KillsAt(q.left, plan, d, a) /\ Told(told, c, plan, d)
  BY <1>3 DEF UnderWay
<1>6. d = Len(plan)
  <2>1. Len(q.left) = 0
    OBVIOUS
  <2> QED
    BY <1>2, <1>5, <2>1 DEF KillsAt
<1>7. Over(new, told, c, plan)
  BY <1>2, <1>5, <1>6 DEF Over
<1> QED
  BY <1>1, <1>4, <1>7 DEF CommandOK, CallTold, new, plan

\* A read waits to be sent again.
LEMMA DelayOK ==
    ASSUME NEW q, NEW told, NEW c, CommandOK(q, told, c), q.pc = "sent",
           q.tries < RetriesOf(Head(q.left))
    PROVE  CommandOK([q EXCEPT !.pc = "delay", !.tries = NextTry(@)], told, c)
<1> DEFINE new == [q EXCEPT !.pc = "delay", !.tries = NextTry(@)]
           plan == PlanOf(q.input, q.matched)
<1>1. q.tries \in Nat /\ q.left # <<>> /\ WellMade(q.left) /\ q.result = None
  BY DEF CommandOK, CallShape, CallMade, CallTold
<1>2. /\ new.pc = "delay" /\ new.input = q.input /\ new.left = q.left
      /\ new.matched = q.matched /\ CallShape(new) /\ new.result = q.result
  <2> DEFINE t == NextTry(q.tries)
             then == [q EXCEPT !.pc = "delay", !.tries = t]
  <2>1. t \in Nat
    BY <1>1 DEF NextTry
  <2>2. new = then
    OBVIOUS
  <2> HIDE DEF new, t
  <2>3. then.pc = "delay" /\ then.input = q.input /\ then.left = q.left
        /\ then.matched = q.matched /\ CallShape(then) /\ then.result = q.result
    BY <2>1 DEF CommandOK, CallShape
  <2> QED
    BY <2>2, <2>3
<1>3. UnderWay(q, told, c, plan)
  BY DEF CommandOK, CallTold
<1> HIDE DEF new, plan
<1>4. Head(q.left).of # "kill"
  <2>1. Head(q.left) = q.left[1] /\ 1 \in DOMAIN q.left
    BY <1>1, Parts
  <2>2. q.left[1].kind = "read"
    BY <1>1, <2>1 DEF RetriesOf
  <2> QED
    BY <1>1, <2>1, <2>2 DEF WellMade
<1>5. CallMade(new)
  BY <1>1, <1>2 DEF CommandOK, CallMade
<1>6. UnderWay(new, told, c, plan)
  BY <1>2, <1>3, <1>4 DEF UnderWay
<1> QED
  BY <1>1, <1>2, <1>5, <1>6 DEF CommandOK, CallTold, new, plan

LEMMA AgainOK ==
    ASSUME NEW q, NEW told, NEW c, CommandOK(q, told, c), q.pc = "delay"
    PROVE  CommandOK([q EXCEPT !.pc = "ready"], told, c)
<1> DEFINE new == [q EXCEPT !.pc = "ready"]
           plan == PlanOf(q.input, q.matched)
<1>1. /\ new.pc = "ready" /\ new.input = q.input /\ new.left = q.left
      /\ new.matched = q.matched /\ CallShape(new) /\ new.result = q.result
  BY DEF CommandOK, CallShape
<1>2. UnderWay(q, told, c, plan) /\ q.result = None
  BY DEF CommandOK, CallTold
<1> HIDE DEF new, plan
<1>3. CallMade(new)
  BY <1>1 DEF CommandOK, CallMade
<1>4. UnderWay(new, told, c, plan)
  BY <1>1, <1>2 DEF UnderWay
<1> QED
  BY <1>1, <1>2, <1>3, <1>4 DEF CommandOK, CallTold, new, plan

\* A request leaves, and the server may take a kill.
LEMMA SendOK ==
    ASSUME NEW q, NEW told \in Seq(Taken), NEW c, CommandOK(q, told, c), q.pc = "ready", q.left # <<>>,
           NEW x \in Taken, Head(q.left).of = "kill" => x.call = c /\ x.target = Head(q.left).target
    PROVE  LET new == [q EXCEPT !.pc = "sent"]
           IN  /\ CommandOK(new, told, c)
               /\ Head(q.left).of = "kill" => CommandOK(new, Append(told, x), c)
<1> DEFINE new == [q EXCEPT !.pc = "sent"]
           plan == PlanOf(q.input, q.matched)
           more == Append(told, x)
<1>1. /\ new.pc = "sent" /\ new.input = q.input /\ new.left = q.left
      /\ new.matched = q.matched /\ CallShape(new) /\ new.result = q.result
  BY DEF CommandOK, CallShape
<1>2. UnderWay(q, told, c, plan) /\ q.result = None /\ WellMade(q.left)
  BY DEF CommandOK, CallTold, CallMade
<1>3. Len(plan) \in Nat /\ Distinct(plan)
  BY PlanOK DEF CommandOK
<1> HIDE DEF new, plan, more
<1>4. CallMade(new)
  BY <1>1 DEF CommandOK, CallMade
<1>5. PICK d, a : KillsAt(q.left, plan, d, a) /\ Told(told, c, plan, d)
  BY <1>2 DEF UnderWay
<1>6. UnderWay(new, told, c, plan)
  BY <1>1, <1>5 DEF UnderWay
<1>7. ASSUME Head(q.left).of = "kill"
      PROVE  UnderWay(new, more, c, plan)
  <2>1. d + 1 \in 1 .. Len(plan) /\ Head(q.left).target = plan[d + 1]
    BY <1>2, <1>3, <1>5, <1>7, PopKill
  <2>2. d \in 0 .. Len(plan) - 1
    BY <1>3, <1>5, <2>1 DEF KillsAt
  <2>3. x.call = c /\ x.target = plan[d + 1]
    BY <1>7, <2>1
  <2>4. Told(more, c, plan, d + 1)
    BY <1>3, <1>5, <2>2, <2>3, TellNext DEF more
  <2> QED
    BY <1>1, <1>5, <1>7, <2>4 DEF UnderWay
<1>8. CommandOK(new, told, c)
  BY <1>1, <1>2, <1>4, <1>6 DEF CommandOK, CallTold, plan
<1>9. Head(q.left).of = "kill" => CommandOK(new, more, c)
  BY <1>1, <1>2, <1>4, <1>7 DEF CommandOK, CallTold, plan
<1> QED
  BY <1>8, <1>9 DEF new, more

\* An answer: the command goes on, and a restart that has got the list of runs sets out
\* to kill those that run.
Goes(q, found, rest) ==
    [q EXCEPT !.pc = "ready", !.tries = 0, !.matched = @ \o found,
              !.left = Tail(@) \o [i \in DOMAIN found |-> Kill(found[i])] \o rest]

\* Nothing was taken for a plan, so nothing for another.
LEMMA NothingTold ==
    ASSUME NEW told, NEW c, NEW old, NEW plan, Told(told, c, old, 0)
    PROVE  Told(told, c, plan, 0)
BY DEF Told

\* The answer to anything but that list.
LEMMA NextOK ==
    ASSUME NEW q, NEW told \in Seq(Taken), NEW c, CommandOK(q, told, c), q.pc = "sent",
           Head(q.left).of = "kill" =>
              \E i \in DOMAIN told : told[i].call = c /\ told[i].target = Head(q.left).target
    PROVE  CommandOK(Goes(q, <<>>, <<>>), told, c)
<1> DEFINE new == Goes(q, <<>>, <<>>)
           plan == PlanOf(q.input, q.matched)
           tl == Tail(q.left)
<1>1. /\ UnderWay(q, told, c, plan) /\ q.result = None /\ WellMade(q.left) /\ q.left # <<>>
      /\ q.matched \in Seq(Runs) /\ Distinct(q.matched)
  BY DEF CommandOK, CallTold, CallMade
<1>2. tl \in Seq(Request)
  BY <1>1, TailOK DEF WellMade
<1>3. /\ new.pc = "ready" /\ new.input = q.input /\ new.left = tl
      /\ new.matched = q.matched /\ CallShape(new) /\ new.result = q.result
  <2>1. q.matched \o <<>> = q.matched
    BY <1>1
  <2> DEFINE none == [i \in DOMAIN <<>> |-> Kill(<<>>[i])]
  <2>2. none = <<>>
    OBVIOUS
  <2>3. tl \o none \o <<>> = tl
    BY <1>2, <2>2
  <2> DEFINE then == [q EXCEPT !.pc = "ready", !.tries = 0, !.matched = q.matched, !.left = tl]
  <2>4. new = then
    BY <2>1, <2>3 DEF Goes
  <2> HIDE DEF new, tl
  <2>5. /\ then.pc = "ready" /\ then.input = q.input /\ then.left = tl
        /\ then.matched = q.matched /\ CallShape(then) /\ then.result = q.result
    BY DEF CommandOK, CallShape
  <2> HIDE DEF then
  <2> QED
    BY <2>4, <2>5
<1>4. Len(plan) \in Nat /\ Distinct(plan)
  BY PlanOK DEF CommandOK
<1> HIDE DEF new, plan, tl
<1>5. /\ WellMade(tl) /\ ReadsOnce(q.left) => ReadsOnce(tl)
      /\ ReadsNone(q.left) => ReadsNone(tl)
  BY <1>1, TailOK DEF tl
<1>6. CallMade(new)
  BY <1>1, <1>3, <1>5, TailOK DEF CommandOK, CallMade, tl
<1>7. PICK d, a : /\ KillsAt(q.left, plan, d, a)
                  /\ \/ Told(told, c, plan, d)
                     \/ /\ q.pc = "sent" /\ Head(q.left).of = "kill"
                        /\ Told(told, c, plan, d + 1)
  BY <1>1 DEF UnderWay
<1>8. ASSUME Head(q.left).of = "kill"
      PROVE  UnderWay(new, told, c, plan)
  <2>1. /\ d + 1 \in 1 .. Len(plan) /\ Head(q.left).target = plan[d + 1]
        /\ KillsAt(tl, plan, d + 1, 0)
    BY <1>1, <1>4, <1>7, <1>8, PopKill DEF tl
  <2>2. Told(told, c, plan, d + 1)
    <3> SUFFICES ASSUME Told(told, c, plan, d) PROVE FALSE
      BY <1>7
    <3>1. PICK i \in DOMAIN told : told[i].call = c /\ told[i].target = plan[d + 1]
      BY <1>8, <2>1
    <3>2. PICK n \in 1 .. d : told[i].target = plan[n]
      BY <3>1 DEF Told
    <3>3. d \in Nat
      BY <1>4, <1>7 DEF KillsAt
    <3>4. n \in 1 .. Len(plan) /\ n # d + 1
      BY <1>4, <2>1, <3>3
    <3> QED
      BY <2>1, <3>1, <3>2, <3>4, <1>4 DEF Distinct
  <2> QED
    BY <1>3, <2>1, <2>2 DEF UnderWay
<1>9. ASSUME Head(q.left).of # "kill"
      PROVE  UnderWay(new, told, c, plan)
  <2>1. PICK b \in Nat : KillsAt(tl, plan, d, b)
    BY <1>1, <1>4, <1>7, <1>9, PopOther DEF tl
  <2> QED
    BY <1>3, <1>7, <1>9, <2>1 DEF UnderWay
<1>10. UnderWay(new, told, c, plan)
  BY <1>8, <1>9
<1> QED
  BY <1>1, <1>3, <1>6, <1>10 DEF CommandOK, CallTold, new, plan

\* The answer to that list.
LEMMA FoundOK ==
    ASSUME NEW q, NEW told \in Seq(Taken), NEW c, CommandOK(q, told, c), q.pc = "sent",
           q.input.what = "restart", Head(q.left).of = "runs",
           NEW found \in Seq(Runs), Distinct(found), NEW rest \in Seq(Plain)
    PROVE  CommandOK(Goes(q, found, rest), told, c)
<1> DEFINE new == Goes(q, found, rest)
           plan == PlanOf(q.input, q.matched)
           tl == Tail(q.left)
           left == tl \o [i \in DOMAIN found |-> Kill(found[i])] \o rest
<1>1. /\ UnderWay(q, told, c, plan) /\ q.result = None /\ WellMade(q.left) /\ q.left # <<>>
      /\ q.input \in Inputs
      /\ ReadsNone(q.left) \/ (ReadsOnce(q.left) /\ q.matched = <<>>)
  BY DEF CommandOK, CallTold, CallMade
<1>2. Head(q.left) = q.left[1] /\ 1 \in DOMAIN q.left
  BY <1>1, Parts
<1>3. ReadsOnce(q.left) /\ q.matched = <<>>
  BY <1>1, <1>2 DEF ReadsNone
<1>4. plan = <<>> /\ PlanOf(q.input, found) = found
  BY <1>3 DEF PlanOf
<1>5. WellMade(tl) /\ ReadsNone(tl)
  BY <1>1, <1>3, TailOK
<1>6. /\ new.pc = "ready" /\ new.input = q.input /\ new.left = left
      /\ new.matched = found /\ CallShape(new) /\ new.result = q.result
  <2>1. q.matched \o found = found
    BY <1>3
  <2> DEFINE then == [q EXCEPT !.pc = "ready", !.tries = 0, !.matched = found, !.left = left]
  <2>2. new = then
    BY <2>1 DEF Goes
  <2> HIDE DEF new, tl, left
  <2>3. /\ then.pc = "ready" /\ then.input = q.input /\ then.left = left
        /\ then.matched = found /\ CallShape(then) /\ then.result = q.result
    BY DEF CommandOK, CallShape
  <2> HIDE DEF then
  <2> QED
    BY <2>2, <2>3
<1> HIDE DEF new, plan, tl
<1>7. PICK d, a : /\ KillsAt(q.left, plan, d, a)
                  /\ \/ Told(told, c, plan, d)
                     \/ /\ q.pc = "sent" /\ Head(q.left).of = "kill"
                        /\ Told(told, c, plan, d + 1)
  BY <1>1 DEF UnderWay
<1>8. d = 0 /\ Len(plan) = 0 /\ Told(told, c, plan, 0)
  <2>1. Len(plan) = 0
    BY <1>4
  <2> QED
    BY <1>7, <2>1 DEF KillsAt
<1>9. PICK b \in Nat : KillsAt(tl, plan, d, b)
  <2>1. Len(plan) \in Nat /\ Head(q.left).of # "kill"
    BY <1>8
  <2> QED
    BY <1>1, <1>7, <2>1, PopOther DEF tl
<1>10. WellMade(left) /\ KillsAt(left, found, 0, Len(tl)) /\ ReadsNone(left)
  <2>1. \E d0, a0 : KillsAt(tl, plan, d0, a0) /\ d0 = Len(plan)
    BY <1>8, <1>9
  <2> QED
    BY <1>5, <2>1, AddKills
<1> HIDE DEF left
<1>11. CallMade(new)
  BY <1>1, <1>6, <1>10 DEF CallMade
<1>12. Told(told, c, found, 0)
  BY <1>8, NothingTold
<1>13. UnderWay(new, told, c, found)
  BY <1>6, <1>10, <1>12 DEF UnderWay
<1> QED
  BY <1>1, <1>4, <1>6, <1>11, <1>13 DEF CommandOK, CallTold, new

\* A command starts.
LEMMA StartOK ==
    ASSUME NEW told, NEW c, \A i \in DOMAIN told : told[i].call # c, NEW input \in Inputs,
           NEW saved \in Callers \union {None}, NEW alone \in BOOLEAN
    PROVE  CommandOK([NoCall EXCEPT !.pc = "ready", !.input = input, !.saved = saved,
                                    !.alone = alone, !.left = RequestsOf(input)], told, c)
<1> DEFINE new == [NoCall EXCEPT !.pc = "ready", !.input = input, !.saved = saved,
                                 !.alone = alone, !.left = RequestsOf(input)]
           plan == PlanOf(input, <<>>)
           left == RequestsOf(input)
<1>1. /\ new.pc = "ready" /\ new.input = input /\ new.left = left
      /\ new.matched = <<>> /\ CallShape(new) /\ new.result = None
  <2>1. new \in [pc : {"ready"}, input : {input}, saved : {saved}, alone : BOOLEAN, tries : {0},
                 left : {left}, matched : {<<>>}, result : {None}]
    BY DEF NoCall
  <2> HIDE DEF new, left
  <2> QED
    BY <2>1 DEF CallShape
<1>2. WellMade(left) /\ ReadsOnce(left) /\ \E a : KillsAt(left, plan, 0, a)
  BY RequestsOK
<1> HIDE DEF new, plan, left
<1>3. Told(told, c, plan, 0)
  BY DEF Told
<1>4. CallMade(new)
  BY <1>1, <1>2 DEF CallMade, Distinct
<1>5. UnderWay(new, told, c, plan)
  BY <1>1, <1>2, <1>3 DEF UnderWay
<1> QED
  BY <1>1, <1>4, <1>5 DEF CommandOK, CallTold, new, plan

\* Another command starts, or has a kill taken.
LEMMA BesideOK ==
    ASSUME NEW q, NEW told, NEW c, CommandOK(q, told, c)
    PROVE  CommandOK([q EXCEPT !.alone = FALSE], told, c)
<1> DEFINE new == [q EXCEPT !.alone = FALSE]
<1>1. /\ new.pc = q.pc /\ new.input = q.input /\ new.left = q.left
      /\ new.matched = q.matched /\ CallShape(new) /\ new.result = q.result
  BY DEF CommandOK, CallShape
<1> HIDE DEF new
<1>2. CallMade(new)
  BY <1>1 DEF CommandOK, CallMade
<1>3. \A plan : /\ UnderWay(q, told, c, plan) => UnderWay(new, told, c, plan)
                /\ Over(q, told, c, plan) => Over(new, told, c, plan)
  BY <1>1 DEF UnderWay, Over
<1> QED
  BY <1>1, <1>2, <1>3 DEF CommandOK, CallTold, new

LEMMA TakenBeside ==
    ASSUME NEW q, NEW told \in Seq(Taken), NEW c, CommandOK(q, told, c), NEW x \in Taken, x.call # c
    PROVE  CommandOK(q, Append(told, x), c)
<1> DEFINE more == Append(told, x)
           k == Len(told)
<1>1. /\ k \in Nat /\ DOMAIN told = 1 .. k /\ DOMAIN more = 1 .. k + 1
      /\ more[k + 1] = x /\ \A i \in 1 .. k : more[i] = told[i]
  BY OneMore
<1> HIDE DEF more, k
<1>2. \A i \in 1 .. k + 1 : i = k + 1 \/ i \in 1 .. k
  BY <1>1
<1>3. (\A i \in DOMAIN told : told[i].call # c) => \A i \in DOMAIN more : more[i].call # c
  BY <1>1, <1>2
<1>4. \A plan, e : Told(told, c, plan, e) => Told(more, c, plan, e)
  BY TellOther DEF more
<1>5. \A plan : UnderWay(q, told, c, plan) => UnderWay(q, more, c, plan)
  BY <1>4 DEF UnderWay
<1>6. \A plan : Over(q, told, c, plan) => Over(q, more, c, plan)
  BY <1>4 DEF Over
<1> QED
  BY <1>3, <1>5, <1>6 DEF CommandOK, CallTold, more

LEMMA IdleOK == ASSUME NEW c PROVE CommandOK(NoCall, <<>>, c)
<1>1. CallShape(NoCall) /\ NoCall.pc = "idle" /\ NoCall.left = <<>> /\ NoCall.matched = <<>>
  BY DEF CallShape, NoCall
<1>2. CallMade(NoCall)
  BY <1>1 DEF CallMade, WellMade, Distinct
<1> QED
  BY <1>1, <1>2 DEF CommandOK, CallTold

-----------------------------------------------------------------------------
(* All commands.                                                           *)

\* A command that began alone, and no other has begun since, has the client's name.
NamesRight ==
    /\ \A c \in Callers : Active(c) /\ calls[c].alone =>
          /\ \A d \in Callers : Active(d) => d = c
          /\ calls[c].input.cli \/ toolName = c
    /\ NamedTruly

CallersOK ==
    /\ calls = [c \in Callers |-> calls[c]]
    /\ \A c \in Callers : CommandOK(calls[c], accepted, c)

CommandsInv ==
    /\ setting \in Settings
    /\ accepted \in Seq(Taken)
    /\ toolName \in Callers \union {None}
    /\ CallersOK
    /\ NamesRight

LEMMA InitCommands == ClientsInit => CommandsInv
<1> SUFFICES ASSUME ClientsInit PROVE CommandsInv
  OBVIOUS
<1>1. /\ setting \in Settings /\ accepted = <<>> /\ toolName = None
      /\ calls = [c \in Callers |-> NoCall]
  BY DEF ClientsInit, Init
<1>2. CallersOK
  BY <1>1, IdleOK DEF CallersOK
<1>3. NamesRight
  BY <1>1 DEF NamesRight, NamedTruly, Active, NoCall
<1> QED
  BY <1>1, <1>2, <1>3 DEF CommandsInv

\* What becomes of one command.
LEMMA Changes ==
    ASSUME CommandsInv, NEW c \in Callers, NEW new, Set(c, new),
           CommandOK(new, accepted, c), accepted' = accepted
    PROVE  CallersOK'
<1>1. calls' = [d \in Callers |-> IF d = c THEN new ELSE calls[d]]
  BY DEF CommandsInv, CallersOK, Set
<1>2. \A d \in Callers : CommandOK(calls'[d], accepted, d)
  BY <1>1 DEF CommandsInv, CallersOK
<1> QED
  BY <1>1, <1>2 DEF CallersOK

\* Names stay right when a command goes on or ends.
LEMMA NamesStay ==
    ASSUME CommandsInv, NEW c \in Callers, Active(c), NEW new, Set(c, new),
           new.alone = calls[c].alone, new.input = calls[c].input, accepted' = accepted,
           toolName' = toolName \/ new.pc = "done"
    PROVE  NamesRight'
<1>1. calls' = [d \in Callers |-> IF d = c THEN new ELSE calls[d]]
  BY DEF CommandsInv, CallersOK, Set
<1>2. \A d \in Callers : /\ calls'[d].alone = calls[d].alone /\ calls'[d].input = calls[d].input
                         /\ Active(d)' => Active(d)
  BY <1>1 DEF Active
<1>3. NamedTruly'
  <2> SUFFICES ASSUME NEW i \in DOMAIN accepted, calls'[accepted[i].call].alone
               PROVE  accepted[i].name = accepted[i].call
    BY DEF NamedTruly
  <2>1. accepted[i].call \in Callers
    <3>1. accepted[i] \in Taken
      BY DEF CommandsInv
    <3> QED
      BY <3>1 DEF Taken
  <2> QED
    BY <1>2, <2>1 DEF CommandsInv, NamesRight, NamedTruly
<1>4. ASSUME NEW d \in Callers, Active(d)', calls'[d].alone
      PROVE  /\ \A e \in Callers : Active(e)' => e = d
             /\ calls'[d].input.cli \/ toolName' = d
  <2>1. Active(d) /\ calls[d].alone
    BY <1>2, <1>4
  <2>2. d = c /\ \A e \in Callers : Active(e) => e = d
    BY <2>1 DEF CommandsInv, NamesRight
  <2>3. new.pc # "done"
    BY <1>1, <1>4, <2>2 DEF Active
  <2>4. toolName' = toolName
    BY <2>3
  <2> QED
    BY <1>2, <2>1, <2>2, <2>4 DEF CommandsInv, NamesRight
<1> QED
  BY <1>3, <1>4 DEF NamesRight

LEMMA EndsKeep ==
    ASSUME CommandsInv, NEW c \in Callers, calls[c].pc \in {"ready", "sent", "delay"}, NEW result,
           CommandOK([calls[c] EXCEPT !.pc = "done", !.result = result], accepted, c),
           Ends(c, result), accepted' = accepted, setting' = setting
    PROVE  CommandsInv'
<1> DEFINE new == [calls[c] EXCEPT !.pc = "done", !.result = result]
<1>1. Set(c, new)
  BY DEF Ends
<1>2. CallShape(calls[c]) /\ Active(c)
  BY DEF CommandsInv, CallersOK, CommandOK, Active
<1>3. new.pc = "done" /\ new.alone = calls[c].alone /\ new.input = calls[c].input
  BY <1>2 DEF CallShape
<1>4. toolName' \in Callers \union {None}
  BY <1>2 DEF Ends, CommandsInv, CallShape
<1> HIDE DEF new
<1>5. CallersOK'
  BY <1>1, Changes DEF new
<1>6. NamesRight'
  BY <1>1, <1>2, <1>3, NamesStay
<1> QED
  BY <1>4, <1>5, <1>6 DEF CommandsInv

LEMMA GoesOnKeep ==
    ASSUME CommandsInv, NEW c \in Callers, Active(c), NEW new, Set(c, new),
           new.alone = calls[c].alone, new.input = calls[c].input,
           CommandOK(new, accepted, c), UNCHANGED <<accepted, setting, toolName>>
    PROVE  CommandsInv'
<1>1. CallersOK'
  BY Changes
<1>2. NamesRight'
  BY NamesStay
<1> QED
  BY <1>1, <1>2 DEF CommandsInv

LEMMA FailKeeps ==
    ASSUME CommandsInv, NEW c \in Callers, Fail(c), setting' = setting
    PROVE  CommandsInv'
<1> DEFINE q == calls[c]
           new == [q EXCEPT !.pc = "delay", !.tries = NextTry(@)]
<1>1. CommandOK(q, accepted, c) /\ CallShape(q) /\ q.pc = "sent" /\ accepted' = accepted
  BY DEF CommandsInv, CallersOK, CommandOK, Fail
<1>2. CASE q.tries < RetriesOf(Head(q.left))
  <2>1. CommandOK(new, accepted, c)
    <3> HIDE DEF q
    <3> QED
      BY <1>1, <1>2, DelayOK
  <2>2. new.alone = q.alone /\ new.input = q.input
    BY <1>1 DEF CallShape
  <2>3. Set(c, new) /\ UNCHANGED <<toolName>> /\ Active(c)
    BY <1>1, <1>2 DEF Fail, Active
  <2> HIDE DEF new
  <2> QED
    BY <1>1, <2>1, <2>2, <2>3, GoesOnKeep
<1>3. CASE ~(q.tries < RetriesOf(Head(q.left)))
  <2>1. Ends(c, "error")
    BY <1>3 DEF Fail
  <2>2. CommandOK([q EXCEPT !.pc = "done", !.result = "error"], accepted, c)
    <3> HIDE DEF q
    <3> QED
      BY <1>1, EndOK
  <2> QED
    BY <1>1, <2>1, <2>2, EndsKeep
<1> QED
  BY <1>2, <1>3

LEMMA RefuseKeeps ==
    ASSUME CommandsInv, NEW c \in Callers, Refuse(c), setting' = setting
    PROVE  CommandsInv'
<1> DEFINE q == calls[c]
<1>1. CommandOK(q, accepted, c) /\ q.pc = "sent" /\ accepted' = accepted /\ Ends(c, "error")
  BY DEF CommandsInv, CallersOK, Refuse
<1>2. CommandOK([q EXCEPT !.pc = "done", !.result = "error"], accepted, c)
  <2> HIDE DEF q
  <2> QED
    BY <1>1, EndOK
<1> QED
  BY <1>1, <1>2, EndsKeep

LEMMA DelayKeeps ==
    ASSUME CommandsInv, NEW c \in Callers, DelayOver(c), setting' = setting
    PROVE  CommandsInv'
<1> DEFINE q == calls[c]
           new == [q EXCEPT !.pc = "ready"]
<1>1. /\ CommandOK(q, accepted, c) /\ CallShape(q) /\ q.pc = "delay" /\ Set(c, new)
      /\ UNCHANGED <<accepted, toolName>> /\ Active(c)
  BY DEF CommandsInv, CallersOK, CommandOK, DelayOver, Active
<1>2. CommandOK(new, accepted, c)
  <2> HIDE DEF q
  <2> QED
    BY <1>1, AgainOK
<1>3. new.alone = q.alone /\ new.input = q.input
  BY <1>1 DEF CallShape
<1> HIDE DEF new
<1> QED
  BY <1>1, <1>2, <1>3, GoesOnKeep

LEMMA ReturnKeeps ==
    ASSUME CommandsInv, NEW c \in Callers, Return(c), setting' = setting
    PROVE  CommandsInv'
<1> DEFINE q == calls[c]
           result == IF q.input.wait /\ wait.result # "matched" THEN "unmatched" ELSE "ok"
<1>1. /\ CommandOK(q, accepted, c) /\ q.pc = "ready" /\ q.left = <<>> /\ accepted' = accepted
      /\ Ends(c, result)
  BY DEF CommandsInv, CallersOK, Return
<1> HIDE DEF result
<1>2. CommandOK([q EXCEPT !.pc = "done", !.result = result], accepted, c)
  <2> HIDE DEF q
  <2> QED
    BY <1>1, ReturnOK
<1> QED
  BY <1>1, <1>2, EndsKeep

LEMMA AnswerKeepsCommands ==
    ASSUME CommandsInv, RecordsInv, NEW c \in Callers, Answer(c), setting' = setting
    PROVE  CommandsInv'
<1> DEFINE q == calls[c]
           head == Head(q.left)
<1>1. CommandOK(q, accepted, c) /\ CallShape(q) /\ CallMade(q) /\ q.pc = "sent"
      /\ accepted' = accepted /\ Active(c) /\ accepted \in Seq(Taken)
  BY DEF CommandsInv, CallersOK, CommandOK, Answer, Active
<1>2. CASE ~Resolves(q.input, head.of)
  <2>1. Ends(c, "error")
    BY <1>2 DEF Answer
  <2>2. CommandOK([q EXCEPT !.pc = "done", !.result = "error"], accepted, c)
    <3> HIDE DEF q
    <3> QED
      BY <1>1, EndOK
  <2> QED
    BY <1>1, <2>1, <2>2, EndsKeep
<1>3. CASE Resolves(q.input, head.of)
  <2>1. Set(c, Follows(c)) /\ toolName' = toolName
    BY <1>3 DEF Answer
  <2>2. CASE head.of = "runs" /\ q.input.what = "restart"
    <3> DEFINE all == {r \in Listed(q.input) : IsRunning(r)}
               found == LastSeenFirst(all)
               rest == WaitOf(q.input)
               new == Goes(q, found, rest)
    <3>1. Follows(c) = new
      BY <2>2 DEF Follows, Goes
    <3>2. rows \in [Runs -> Cell]
      BY DEF RecordsInv, TypesOK
    <3>3. all \in SUBSET Runs /\ \A r \in all : rows[r] # None
      BY <3>2 DEF Listed, Newest
    <3> HIDE DEF all
    <3>4. found \in Seq(Runs) /\ Distinct(found)
      BY <3>2, <3>3, FoundOnce
    <3>5. rest \in Seq(Plain)
      BY <1>1, PlainWait DEF CallMade
    <3> HIDE DEF found, rest, q
    <3>6. CommandOK(new, accepted, c)
      BY <1>1, <2>2, <3>4, <3>5, FoundOK
    <3>7. new.alone = q.alone /\ new.input = q.input
      BY <1>1 DEF Goes, CallShape
    <3> HIDE DEF new
    <3> QED
      BY <1>1, <2>1, <3>1, <3>6, <3>7, GoesOnKeep DEF q
  <2>3. CASE ~(head.of = "runs" /\ q.input.what = "restart")
    <3> DEFINE new == Goes(q, <<>>, <<>>)
    <3>1. Follows(c) = new
      BY <2>3 DEF Follows, Goes
    <3>2. head.of = "kill" =>
            \E i \in DOMAIN accepted : accepted[i].call = c /\ accepted[i].target = head.target
      BY DEF Answer, CarriedOut
    <3>3. CommandOK(new, accepted, c)
      <4> HIDE DEF q, new
      <4> QED
        BY <1>1, <3>2, NextOK DEF new
    <3> HIDE DEF q
    <3>4. new.alone = q.alone /\ new.input = q.input
      BY <1>1 DEF Goes, CallShape
    <3> HIDE DEF new
    <3> QED
      BY <1>1, <2>1, <3>1, <3>3, <3>4, GoesOnKeep DEF q
  <2> QED
    BY <2>2, <2>3
<1> QED
  BY <1>2, <1>3

LEMMA SendKeeps ==
    ASSUME CommandsInv, NEW c \in Callers, Send(c), setting' = setting
    PROVE  CommandsInv'
<1> DEFINE q == calls[c]
           head == Head(q.left)
           new == [q EXCEPT !.pc = "sent"]
           x == [call |-> c, target |-> head.target, name |-> NameOn(c)]
<1>1. /\ CommandOK(q, accepted, c) /\ CallShape(q) /\ CallMade(q) /\ q.pc = "ready" /\ q.left # <<>>
      /\ Set(c, new) /\ toolName' = toolName /\ Active(c) /\ accepted \in Seq(Taken)
  BY DEF CommandsInv, CallersOK, CommandOK, Send, Active
<1>2. new.alone = q.alone /\ new.input = q.input /\ new.pc = "sent"
  BY <1>1 DEF CallShape
<1>3. head.target \in Runs \union Keys \union {None}
  <2>1. WellMade(q.left)
    BY <1>1 DEF CallMade
  <2>2. head = q.left[1] /\ 1 \in DOMAIN q.left
    BY <1>1, <2>1, Parts
  <2>3. head \in Request
    BY <2>1, <2>2 DEF WellMade
  <2> QED
    BY <2>3 DEF Request
<1>4. x \in Taken
  BY <1>3 DEF Taken, NameOn, CommandsInv
<1>5. x.call = c /\ x.target = head.target /\ x.name = NameOn(c)
  OBVIOUS
<1>6. \/ accepted' = accepted
      \/ head.of = "kill" /\ accepted' = Append(accepted, x)
  BY DEF Send
<1> HIDE DEF x
<1>7. /\ CommandOK(new, accepted, c)
      /\ head.of = "kill" => CommandOK(new, Append(accepted, x), c)
  <2> HIDE DEF q, new
  <2> QED
    BY <1>1, <1>4, <1>5, SendOK DEF new
<1> HIDE DEF new
<1>8. CASE accepted' = accepted
  BY <1>1, <1>2, <1>7, <1>8, GoesOnKeep
<1>9. CASE head.of = "kill" /\ accepted' = Append(accepted, x)
  <2>1. accepted' \in Seq(Taken)
    BY <1>1, <1>4, <1>9
  <2>2. calls' = [d \in Callers |-> IF d = c THEN new ELSE calls[d]]
    BY <1>1 DEF CommandsInv, CallersOK, Set
  <2>3. \A d \in Callers : CommandOK(calls'[d], accepted', d)
    <3> SUFFICES ASSUME NEW d \in Callers PROVE CommandOK(calls'[d], accepted', d)
      OBVIOUS
    <3>1. CASE d = c
      BY <1>7, <1>9, <2>2, <3>1
    <3>2. CASE d # c
      <4>1. CommandOK(calls[d], accepted, d) /\ calls'[d] = calls[d]
        BY <2>2, <3>2 DEF CommandsInv, CallersOK
      <4> QED
        BY <1>1, <1>4, <1>5, <1>9, <3>2, <4>1, TakenBeside
    <3> QED
      BY <3>1, <3>2
  <2>4. CallersOK'
    BY <2>2, <2>3 DEF CallersOK
  <2>5. \A d \in Callers : /\ calls'[d].alone = calls[d].alone /\ calls'[d].input = calls[d].input
                           /\ Active(d)' => Active(d)
    BY <1>1, <1>2, <2>2 DEF Active
  <2>6. \A d \in Callers : Active(d)' /\ calls'[d].alone =>
            /\ \A e \in Callers : Active(e)' => e = d
            /\ calls'[d].input.cli \/ toolName' = d
    BY <1>1, <2>5 DEF CommandsInv, NamesRight
  <2>7. NamedTruly'
    <3> DEFINE told == accepted
               more == Append(told, x)
               k == Len(told)
    <3>1. /\ k \in Nat /\ DOMAIN told = 1 .. k /\ DOMAIN more = 1 .. k + 1
          /\ more[k + 1] = x /\ \A i \in 1 .. k : more[i] = told[i]
      BY <1>1, <1>4, OneMore
    <3> HIDE DEF more, k
    <3>2. ASSUME NEW i \in 1 .. k + 1, calls'[more[i].call].alone
          PROVE  more[i].name = more[i].call
      <4>1. CASE i = k + 1
        <5>1. calls[c].alone
          BY <1>5, <2>5, <3>1, <3>2, <4>1
        <5>2. NameOn(c) = c
          BY <1>1, <5>1 DEF CommandsInv, NamesRight, NameOn
        <5> QED
          BY <1>5, <3>1, <4>1, <5>2
      <4>2. CASE i \in 1 .. k /\ more[i] = told[i]
        <5>1. told[i] \in Taken
          BY <1>1, <3>1, <4>2
        <5>2. told[i].call \in Callers
          BY <5>1 DEF Taken
        <5> QED
          BY <2>5, <3>1, <3>2, <4>2, <5>2 DEF CommandsInv, NamesRight, NamedTruly
      <4> QED
        BY <3>1, <4>1, <4>2
    <3> QED
      BY <1>9, <3>1, <3>2 DEF NamedTruly, more
  <2> QED
    BY <1>1, <2>1, <2>4, <2>6, <2>7 DEF CommandsInv, NamesRight
<1> QED
  BY <1>6, <1>8, <1>9

LEMMA StartKeepsCommands ==
    ASSUME CommandsInv, NEW c \in Callers, NEW input \in setting.inputs, StartCall(c, input), setting' = setting
    PROVE  CommandsInv'
<1> DEFINE alone == \A e \in Callers : ~Active(e)
           new == [NoCall EXCEPT !.pc = "ready", !.input = input, !.saved = toolName,
                                 !.alone = alone, !.left = RequestsOf(input)]
<1>1. /\ calls[c].pc = "idle" /\ accepted' = accepted
      /\ calls' = [d \in Callers |-> IF d = c THEN new ELSE [calls[d] EXCEPT !.alone = FALSE]]
      /\ toolName' = IF input.cli THEN toolName ELSE c
  BY DEF StartCall
<1>2. input \in Inputs
  BY RecordsAssumption DEF CommandsInv, SettingKinds
<1>3. \A i \in DOMAIN accepted : accepted[i].call # c
  BY <1>1 DEF CommandsInv, CallersOK, CommandOK, CallTold
<1>4. toolName \in Callers \union {None} /\ toolName' \in Callers \union {None}
  BY <1>1 DEF CommandsInv
<1>5. alone \in BOOLEAN
  OBVIOUS
<1>6. new.input = input /\ new.alone = alone
  BY DEF NoCall
<1> HIDE DEF alone
<1>7. CommandOK(new, accepted, c)
  BY <1>2, <1>3, <1>4, <1>5, StartOK
<1> HIDE DEF new
<1>8. \A d \in Callers : CommandOK(calls'[d], accepted, d)
  <2> SUFFICES ASSUME NEW d \in Callers PROVE CommandOK(calls'[d], accepted, d)
    OBVIOUS
  <2>1. CASE d = c
    BY <1>1, <1>7, <2>1
  <2>2. CASE d # c
    <3>1. CommandOK(calls[d], accepted, d)
      BY DEF CommandsInv, CallersOK
    <3>2. CommandOK([calls[d] EXCEPT !.alone = FALSE], accepted, d)
      BY <3>1, BesideOK
    <3> QED
      BY <1>1, <2>2, <3>2
  <2> QED
    BY <2>1, <2>2
<1>9. CallersOK'
  BY <1>1, <1>8 DEF CallersOK
<1>10. ASSUME NEW d \in Callers, d # c
       PROVE  ~calls'[d].alone /\ (Active(d)' => Active(d))
  <2>1. CallShape(calls[d])
    BY DEF CommandsInv, CallersOK, CommandOK
  <2>2. calls'[d] = [calls[d] EXCEPT !.alone = FALSE]
    BY <1>1, <1>10
  <2>3. calls'[d].alone = FALSE /\ calls'[d].pc = calls[d].pc
    BY <2>1, <2>2 DEF CallShape
  <2> QED
    BY <2>3 DEF Active
<1>11. ASSUME NEW d \in Callers, Active(d)', calls'[d].alone
       PROVE  /\ \A e \in Callers : Active(e)' => e = d
              /\ calls'[d].input.cli \/ toolName' = d
  <2>1. d = c
    BY <1>10, <1>11
  <2>2. alone /\ calls'[c] = new
    BY <1>1, <1>6, <1>11, <2>1
  <2>3. \A e \in Callers : Active(e)' => e = c
    BY <1>10, <2>2 DEF alone
  <2> QED
    BY <1>1, <1>6, <2>1, <2>2, <2>3
<1>12. NamedTruly'
  <2> SUFFICES ASSUME NEW i \in DOMAIN accepted PROVE ~calls'[accepted[i].call].alone
    BY <1>1 DEF NamedTruly
  <2>1. accepted[i] \in Taken
    BY DEF CommandsInv
  <2>2. accepted[i].call \in Callers /\ accepted[i].call # c
    BY <1>3, <2>1 DEF Taken
  <2> QED
    BY <1>10, <2>2
<1> QED
  BY <1>1, <1>4, <1>9, <1>11, <1>12 DEF CommandsInv, NamesRight

LEMMA SameCommands ==
    ASSUME CommandsInv, UNCHANGED <<setting, calls, toolName, accepted>>
    PROVE  CommandsInv'
BY DEF CommandsInv, CallersOK, NamesRight, NamedTruly, Active

LEMMA CommandsStep == RecordsInv /\ CommandsInv /\ [ClientsNext]_allVars => CommandsInv'
<1> SUFFICES ASSUME RecordsInv, CommandsInv, [ClientsNext]_allVars PROVE CommandsInv'
  OBVIOUS
<1>1. CASE Next /\ UNCHANGED clientVars
  BY <1>1, SameCommands DEF Next, clientVars
<1>2. CASE setting' = setting /\ \E c \in Callers, input \in setting.inputs : StartCall(c, input)
  BY <1>2, StartKeepsCommands
<1>3. CASE setting' = setting /\ \E c \in Callers : CallGoesOn(c)
  BY <1>3, SendKeeps, AnswerKeepsCommands, FailKeeps, RefuseKeeps, DelayKeeps, ReturnKeeps DEF CallGoesOn
<1>4. CASE DeliverKill
  BY <1>4, SameCommands DEF DeliverKill
<1>5. CASE UNCHANGED allVars
  BY <1>5, SameCommands DEF allVars, vars, clientVars
<1> QED
  BY <1>1, <1>2, <1>3, <1>4, <1>5 DEF ClientsNext

\* The kills of one command are in order, and so no two are of one target.
LEMMA TakenOnce == CommandsInv => KillSentOnce
<1> SUFFICES ASSUME CommandsInv, NEW i \in DOMAIN accepted, NEW j \in DOMAIN accepted,
                    accepted[i].call = accepted[j].call, accepted[i].target = accepted[j].target
             PROVE  i = j
  BY DEF KillSentOnce
<1> DEFINE c == accepted[i].call
           q == calls[c]
           plan == PlanOf(q.input, q.matched)
<1>1. accepted \in Seq(Taken) /\ accepted[i] \in Taken
  BY DEF CommandsInv
<1>2. c \in Callers
  BY <1>1 DEF Taken
<1>3. CommandOK(q, accepted, c)
  BY <1>2 DEF CommandsInv, CallersOK
<1>4. q.pc \in {"ready", "sent", "delay"} \/ q.pc = "done"
  BY <1>3 DEF CommandOK, CallShape, CallTold
<1> HIDE DEF q, c
<1>5. PICK e : e \in 0 .. Len(plan) /\ Told(accepted, c, plan, e)
  <2> HIDE DEF plan
  <2>1. CASE q.pc = "done"
    BY <1>3, <2>1 DEF CommandOK, CallTold, Over, plan
  <2>2. CASE q.pc \in {"ready", "sent", "delay"}
    BY <1>3, <2>2, HowFar DEF plan
  <2> QED
    BY <1>4, <2>1, <2>2
<1> HIDE DEF plan
<1>6. PICK n \in 1 .. e : accepted[i].target = plan[n]
  BY <1>5 DEF Told, c
<1>7. ~(i < j) /\ ~(j < i)
  <2>1. accepted[i].call = c /\ accepted[j].call = c /\ accepted[j].target = plan[n] /\ ~(n < n)
    BY <1>6 DEF c
  <2> QED
    BY <1>5, <1>6, <2>1 DEF Told
<1>8. i \in Nat /\ j \in Nat
  BY <1>1
<1> QED
  BY <1>7, <1>8

LEMMA DoneIsTold == CommandsInv => ToldDone
<1> SUFFICES ASSUME CommandsInv, NEW c \in Callers, calls[c].result \in {"ok", "unmatched"},
                    calls[c].input.what = "restart"
             PROVE  LET found == DOMAIN calls[c].matched
                    IN  /\ \A n \in found : \E i \in DOMAIN accepted : IsKillOf(i, c, n)
                        /\ \A i \in DOMAIN accepted : accepted[i].call = c => \E n \in found : IsKillOf(i, c, n)
                        /\ \A i, j \in DOMAIN accepted, n, m \in found :
                              i < j /\ IsKillOf(i, c, n) /\ IsKillOf(j, c, m) => n < m
  BY DEF ToldDone
<1> DEFINE q == calls[c]
           plan == q.matched
<1>1. CommandOK(q, accepted, c)
  BY DEF CommandsInv, CallersOK
<1>2. plan \in Seq(Runs)
  BY <1>1 DEF CommandOK, CallMade
<1>3. PlanOf(q.input, plan) = plan
  BY DEF PlanOf
<1>4. CASE q.pc = "idle"
  <2>1. plan = <<>> /\ \A i \in DOMAIN accepted : accepted[i].call # c
    BY <1>1, <1>4 DEF CommandOK, CallTold
  <2> QED
    BY <2>1 DEF IsKillOf
<1>5. CASE q.pc = "done"
  <2>1. Told(accepted, c, plan, Len(plan))
    BY <1>1, <1>3, <1>5 DEF CommandOK, CallTold, Over
  <2>2. DOMAIN plan = 1 .. Len(plan)
    BY <1>2
  <2> QED
    BY <2>1, <2>2 DEF Told, IsKillOf
<1>6. q.pc \in {"idle", "done"}
  <2>1. q.pc \in {"ready", "sent", "delay"} => q.result = None
    BY <1>1 DEF CommandOK, CallTold
  <2> QED
    BY <1>1, <2>1, ClientsAssumption DEF CommandOK, CallShape
<1> QED
  BY <1>4, <1>5, <1>6

\* Whatever fails, however commands overlap and whatever becomes of the records meanwhile:
\* no kill is taken twice, a restart that was told done has had the runs it found killed,
\* the last seen first, and a command alone is recorded under its name.
THEOREM CommandsStayKept == ClientsSpec => []CommandsKept
<1>1. CommandsInv => CommandsKept
  BY TakenOnce, DoneIsTold DEF CommandsKept, CommandsInv, NamesRight
<1>2. ClientsInit => RecordsInv /\ CommandsInv
  BY InitRecords, InitCommands
<1>3. RecordsInv /\ CommandsInv /\ [ClientsNext]_allVars => (RecordsInv /\ CommandsInv)'
  BY RecordsStep, CommandsStep
<1> QED
  BY <1>1, <1>2, <1>3, PTL DEF ClientsSpec
=============================================================================
