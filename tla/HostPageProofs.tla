--------------------------- MODULE HostPageProofs ---------------------------
(***************************************************************************)
(* Proofs about the hosts, their deployments, their terminals and the      *)
(* page that shows them (HostPage, and with it HostCatalog and Terminals). *)
(*                                                                         *)
(* Of the catalog the invariant CatInv says that every slave id that a     *)
(* row, a deployment, a call or the master's list holds is one that is in  *)
(* use, so that a host added by hand gets a fresh one; that rows differ,   *)
(* which each turn of the merge's loop keeps (AdoptKeeps); that a host has *)
(* one deployment; and what becomes of requests for passwords.  What the   *)
(* loop keeps while no slave of its list takes another's name or address   *)
(* is Steady.  Of the terminals: of the sessions of a host only the last   *)
(* may be active.  Of the page: a flag is that of an operation under way.  *)
(***************************************************************************)
EXTENDS HostPage, FiniteSetTheorems, WellFoundedInduction, TLAPS

-----------------------------------------------------------------------------
(* Numbers.                                                                *)

\* Some numbers have a least one.
LEMMA LeastOf ==
    ASSUME NEW S \in SUBSET Nat, S # {}
    PROVE  Min(S) \in S /\ \A k \in S : Min(S) <= k
<1>1. \E m \in S : \A k \in S : m <= k
  <2>1. PICK m \in S : \A k \in S : ~(<<k, m>> \in OpToRel(<, Nat))
    BY NatLessThanWellFounded, WFMin
  <2>2. \A k \in S : k < m => <<k, m>> \in OpToRel(<, Nat)
    BY DEF OpToRel
  <2>3. \A k \in S : ~(k < m)
    BY <2>1, <2>2
  <2> QED
    BY <2>3
<1> QED
  BY <1>1 DEF Min

\* What holds of 0, and of k + 1 when of k, holds up to n.
LEMMA UpTo ==
    ASSUME NEW n \in Nat, NEW S, 0 \in S, \A k \in 0 .. n - 1 : k \in S => k + 1 \in S
    PROVE  \A k \in 0 .. n : k \in S
<1> DEFINE Left == {k \in 0 .. n : k \notin S}
<1> SUFFICES ASSUME Left # {}
             PROVE  FALSE
  OBVIOUS
<1>1. Left \in SUBSET Nat
  OBVIOUS
<1> DEFINE m == Min(Left)
<1> HIDE DEF m
<1>2. m \in Left /\ \A k \in Left : m <= k
  BY <1>1, LeastOf DEF m
<1>3. m # 0 /\ m - 1 \in 0 .. n - 1 /\ m - 1 \notin Left
  BY <1>2
<1> QED
  BY <1>2, <1>3

-----------------------------------------------------------------------------
(* The table of hosts.                                                     *)

\* The rows differ; their slaves are some of those in use.
TableOK(tab, next, used) ==
    /\ next \in Nat \ {0}
    /\ tab = [i \in DOMAIN tab |-> tab[i]]
    /\ DOMAIN tab \subseteq 1 .. next - 1
    /\ \A i \in DOMAIN tab :
          tab[i] \in [agentUuid : used, ip : Ips, source : {"runtime", "manual"}, name : {tab[i].name}]
    /\ \A i, k \in DOMAIN tab : i # k =>
          tab[i].name # tab[k].name /\ tab[i].agentUuid # tab[k].agentUuid

LEMMA RowsFinite ==
    ASSUME NEW tab, NEW next \in Nat, DOMAIN tab \subseteq 1 .. next - 1
    PROVE  /\ IsFiniteSet(DOMAIN tab) /\ DOMAIN tab \subseteq Nat /\ 0 \notin DOMAIN tab
           /\ Cardinality(DOMAIN tab) \in Nat
<1>1. IsFiniteSet(1 .. next - 1)
  BY FS_Interval
<1>2. IsFiniteSet(DOMAIN tab)
  <2> DEFINE all == 1 .. next - 1
  <2> HIDE DEF all
  <2> QED
    BY <1>1, FS_Subset DEF all
<1> QED
  BY <1>2, FS_CardinalityType

LEMMA FirstIn ==
    ASSUME NEW ids \in SUBSET Nat
    PROVE  (ids = {} => FirstOf(ids) = NoRow) /\ (ids # {} => FirstOf(ids) \in ids)
BY LeastOf DEF FirstOf

\* The row of a slave.
LEMMA SlaveRow ==
    ASSUME NEW tab, NEW next, NEW used, TableOK(tab, next, used), NEW s
    PROVE  \/ RowOfSlave(tab, s) = NoRow /\ \A i \in DOMAIN tab : tab[i].agentUuid # s
           \/ RowOfSlave(tab, s) \in DOMAIN tab /\ tab[RowOfSlave(tab, s)].agentUuid = s
<1> DEFINE ids == {i \in DOMAIN tab : tab[i].agentUuid = s}
<1>1. ids \in SUBSET Nat
  BY DEF TableOK
<1>2. RowOfSlave(tab, s) = FirstOf(ids)
  BY DEF RowOfSlave
<1>3. ids = {} \/ FirstOf(ids) \in ids
  <2> HIDE DEF ids
  <2> QED
    BY <1>1, FirstIn
<1>4. ids = {} => FirstOf(ids) = NoRow
  <2> HIDE DEF ids
  <2> QED
    BY <1>1, FirstIn
<1> QED
  BY <1>2, <1>3, <1>4

LEMMA NamedRow ==
    ASSUME NEW tab, NEW next, NEW used, TableOK(tab, next, used), NEW n
    PROVE  \/ RowNamed(tab, n) = NoRow /\ \A i \in DOMAIN tab : tab[i].name # n
           \/ RowNamed(tab, n) \in DOMAIN tab /\ tab[RowNamed(tab, n)].name = n
<1> DEFINE ids == {i \in DOMAIN tab : tab[i].name = n}
<1>1. ids \in SUBSET Nat
  BY DEF TableOK
<1>2. RowNamed(tab, n) = FirstOf(ids)
  BY DEF RowNamed
<1>3. ids = {} \/ FirstOf(ids) \in ids
  <2> HIDE DEF ids
  <2> QED
    BY <1>1, FirstIn
<1>4. ids = {} => FirstOf(ids) = NoRow
  <2> HIDE DEF ids
  <2> QED
    BY <1>1, FirstIn
<1> QED
  BY <1>2, <1>3, <1>4

\* There are more candidates than rows, so one of them is not the name of a row.
LEMMA SomeNameFree ==
    ASSUME NEW tab, IsFiniteSet(DOMAIN tab), NEW name, NEW ip
    PROVE  \E k \in 0 .. Cardinality(DOMAIN tab) :
              \A i \in DOMAIN tab : tab[i].name # Candidate(name, ip, k)
<1> DEFINE N == Cardinality(DOMAIN tab)
           Ks == 0 .. N
<1>1. N \in Nat
  BY FS_CardinalityType
<1>2. IsFiniteSet(Ks) /\ Cardinality(Ks) = N + 1
  <2> HIDE DEF N
  <2> QED
    BY <1>1, FS_Interval
<1> SUFFICES ASSUME \A k \in Ks : \E i \in DOMAIN tab : tab[i].name = Candidate(name, ip, k)
             PROVE  FALSE
  OBVIOUS
<1> DEFINE f == [k \in Ks |-> CHOOSE i \in DOMAIN tab : tab[i].name = Candidate(name, ip, k)]
<1>3. f \in [Ks -> DOMAIN tab]
  OBVIOUS
<1>4. \A k \in Ks : tab[f[k]].name = Candidate(name, ip, k)
  OBVIOUS
<1>5. \A k \in Nat : Candidate(name, ip, k)[3] = k
  BY DEF Candidate
<1>6. \A k \in Ks : k \in Nat
  BY <1>1
<1> HIDE DEF f, Ks
<1>7. N < Cardinality(Ks)
  BY <1>1, <1>2
<1> HIDE DEF N
<1>8. Cardinality(DOMAIN tab) < Cardinality(Ks)
  BY <1>7 DEF N
<1>9. PICK x, y \in Ks : x # y /\ f[x] = f[y]
  BY <1>2, <1>3, <1>8, FS_PigeonHole
<1> QED
  BY <1>4, <1>5, <1>6, <1>9

\* The name that is given to a host is no other row's.
LEMMA NameIsFree ==
    ASSUME NEW tab, IsFiniteSet(DOMAIN tab), NEW own, NEW host
    PROVE  \A i \in DOMAIN tab : tab[i].name = allocateRuntimeHostName(tab, own, host) => i = own
<1> DEFINE Free0(k) == \A i \in DOMAIN tab : tab[i].name = Candidate(host.name, host.ip, k) => i = own
           ks == {k \in 0 .. Cardinality(DOMAIN tab) : Free0(k)}
<1>1. ks # {}
  <2>1. PICK k \in 0 .. Cardinality(DOMAIN tab) :
          \A i \in DOMAIN tab : tab[i].name # Candidate(host.name, host.ip, k)
    BY SomeNameFree
  <2> QED
    BY <2>1
<1>2. ks \in SUBSET Nat
  BY FS_CardinalityType
<1>3. Min(ks) \in ks
  <2> HIDE DEF ks
  <2> QED
    BY <1>1, <1>2, LeastOf
<1>4. allocateRuntimeHostName(tab, own, host) = Candidate(host.name, host.ip, Min(ks))
  BY DEF allocateRuntimeHostName
<1> QED
  BY <1>3, <1>4

\* Nor is the one of a host that is added by its address.
LEMMA ManualNameIsFree ==
    ASSUME NEW tab, NEW next, NEW used, TableOK(tab, next, used), NEW ip
    PROVE  \A i \in DOMAIN tab : tab[i].name # resolveManualHostName(tab, ip)
<1> DEFINE ks == {k \in 0 .. Cardinality(DOMAIN tab) : RowNamed(tab, Candidate(ip, ip, k)) = NoRow}
<1>1. IsFiniteSet(DOMAIN tab) /\ Cardinality(DOMAIN tab) \in Nat /\ 0 \notin DOMAIN tab
  BY RowsFinite DEF TableOK
<1>2. PICK k \in 0 .. Cardinality(DOMAIN tab) :
        \A i \in DOMAIN tab : tab[i].name # Candidate(ip, ip, k)
  BY <1>1, SomeNameFree
<1>3. RowNamed(tab, Candidate(ip, ip, k)) = NoRow
  BY <1>2, NamedRow
<1>4. k \in ks /\ ks \in SUBSET Nat
  BY <1>1, <1>3
<1>5. Min(ks) \in ks
  <2> HIDE DEF ks
  <2> QED
    BY <1>4, LeastOf
<1>6. resolveManualHostName(tab, ip) = Candidate(ip, ip, Min(ks))
  BY DEF resolveManualHostName
<1> DEFINE c == Candidate(ip, ip, Min(ks))
<1>7. RowNamed(tab, c) = NoRow
  BY <1>5
<1> HIDE DEF c, ks
<1> QED
  BY <1>1, <1>6, <1>7, NamedRow DEF c, NoRow

-----------------------------------------------------------------------------
(* The merge of a list of hosts into the table.                            *)

\* What the loop over the list holds.
DbOK(db, used) ==
    /\ TableOK(db.rows, db.nextId, used)
    /\ db.byIp \in [Ips -> DOMAIN db.rows \union {NoRow}]

\* A host that the master lists, and a list of them.
HostOK(host, used) == host.slave \in used /\ host.ip \in Ips
HostsOK(hosts, used) ==
    /\ Len(hosts) \in Nat /\ DOMAIN hosts = 1 .. Len(hosts)
    /\ \A k \in 1 .. Len(hosts) : HostOK(hosts[k], used)
    /\ \A k, m \in 1 .. Len(hosts) : hosts[k].slave = hosts[m].slave => k = m

\* The rows of a table are also in another, where they have their source.
Extends(new, old) == \A i \in DOMAIN old : i \in DOMAIN new /\ new[i].source = old[i].source

LEMMA MatchIsRow ==
    ASSUME NEW db, NEW used, DbOK(db, used), NEW host, HostOK(host, used), NEW hosts
    PROVE  LET found == MatchingRow(db, host, hosts)
           IN  /\ found \in DOMAIN db.rows \union {NoRow}
               /\ \A i \in DOMAIN db.rows : db.rows[i].agentUuid = host.slave => i = found
<1> DEFINE found == MatchingRow(db, host, hosts)
           bySlave == RowOfSlave(db.rows, host.slave)
           byName == RowNamed(db.rows, <<host.name, "", 0>>)
<1>1. \/ bySlave = NoRow /\ \A i \in DOMAIN db.rows : db.rows[i].agentUuid # host.slave
      \/ bySlave \in DOMAIN db.rows /\ db.rows[bySlave].agentUuid = host.slave
  BY SlaveRow DEF DbOK
<1>2. byName = NoRow \/ byName \in DOMAIN db.rows
  BY NamedRow DEF DbOK
<1>3. db.byIp[host.ip] \in DOMAIN db.rows \union {NoRow}
  BY DEF DbOK, HostOK
<1>4. 0 \notin DOMAIN db.rows
  BY DEF DbOK, TableOK
<1>5. /\ bySlave # NoRow => found = bySlave
      /\ bySlave = NoRow /\ byName # NoRow => found = byName
      /\ bySlave = NoRow /\ byName = NoRow => found = db.byIp[host.ip] \/ found = NoRow
  BY DEF MatchingRow
<1> HIDE DEF found, bySlave, byName
<1>6. CASE bySlave # NoRow
  <2>1. found = bySlave /\ bySlave \in DOMAIN db.rows /\ db.rows[bySlave].agentUuid = host.slave
    BY <1>1, <1>5, <1>6
  <2>2. \A i \in DOMAIN db.rows : db.rows[i].agentUuid = host.slave => i = bySlave
    BY <2>1 DEF DbOK, TableOK
  <2> QED
    BY <2>1, <2>2 DEF found
<1>7. CASE bySlave = NoRow
  <2>1. \A i \in DOMAIN db.rows : db.rows[i].agentUuid # host.slave
    BY <1>1, <1>4, <1>7 DEF NoRow
  <2>2. found \in DOMAIN db.rows \union {NoRow}
    BY <1>2, <1>3, <1>5, <1>7
  <2> QED
    BY <2>1, <2>2 DEF found
<1> QED
  BY <1>6, <1>7

\* One turn of the loop.
LEMMA AdoptKeeps ==
    ASSUME NEW db, NEW used, DbOK(db, used), NEW host, HostOK(host, used), NEW hosts
    PROVE  LET new == AdoptHost(db, host, hosts)
           IN  DbOK(new, used) /\ Extends(new.rows, db.rows)
<1> DEFINE found == MatchingRow(db, host, hosts)
           id    == IF found = NoRow THEN db.nextId ELSE found
           name  == allocateRuntimeHostName(db.rows, found, host)
           row   == IF found = NoRow
                    THEN [agentUuid |-> host.slave, ip |-> host.ip, name |-> name,
                          source |-> "runtime"]
                    ELSE UpdateRow(db.rows[found], host, name)
           same  == found # NoRow /\ row = db.rows[found]
           left  == [p \in Ips |-> IF found # NoRow /\ db.byIp[p] = found
                                      /\ db.rows[found].ip = p
                                   THEN NoRow ELSE db.byIp[p]]
           tab   == [i \in DOMAIN db.rows \union {id} |-> IF i = id THEN row ELSE db.rows[i]]
           next  == IF found = NoRow THEN db.nextId + 1 ELSE db.nextId
           map   == IF same THEN db.byIp ELSE [left EXCEPT ![host.ip] = id]
           new   == AdoptHost(db, host, hosts)
<1>1. new.rows = tab /\ new.nextId = next /\ new.byIp = map
  BY DEF AdoptHost
<1>2. /\ found \in DOMAIN db.rows \union {NoRow}
      /\ \A i \in DOMAIN db.rows : db.rows[i].agentUuid = host.slave => i = found
  BY MatchIsRow
<1>3. /\ db.nextId \in Nat \ {0} /\ DOMAIN db.rows \subseteq 1 .. db.nextId - 1
      /\ 0 \notin DOMAIN db.rows /\ db.nextId \notin DOMAIN db.rows
  BY DEF DbOK, TableOK
<1>4. \A i \in DOMAIN db.rows : db.rows[i].name = name => i = found
  BY <1>3, RowsFinite, NameIsFree
<1>5. /\ row \in [agentUuid : used, ip : Ips, source : {"runtime", "manual"}, name : {row.name}]
      /\ row.agentUuid = host.slave /\ row.name = name
      /\ found # NoRow => row.source = db.rows[found].source
  <2>1. CASE found = NoRow
    BY <2>1 DEF HostOK
  <2>2. CASE found # NoRow
    <3>1. db.rows[found] \in [agentUuid : used, ip : Ips, source : {"runtime", "manual"},
                              name : {db.rows[found].name}]
      BY <1>2, <2>2 DEF DbOK, TableOK
    <3>2. row = [db.rows[found] EXCEPT !.agentUuid = host.slave, !.ip = host.ip, !.name = name]
      BY <2>2 DEF UpdateRow
    <3> HIDE DEF row, name, found
    <3> QED
      BY <3>1, <3>2 DEF HostOK
  <2> QED
    BY <2>1, <2>2
<1>6. /\ next \in Nat \ {0} /\ id \in 1 .. next - 1 /\ DOMAIN db.rows \subseteq 1 .. next - 1
      /\ id = found \/ id \notin DOMAIN db.rows
      /\ \A i \in DOMAIN db.rows : i # id => i # found
  BY <1>2, <1>3 DEF NoRow
<1>7. map \in [Ips -> DOMAIN tab \union {NoRow}]
  <2>1. db.byIp \in [Ips -> DOMAIN db.rows \union {NoRow}]
    BY DEF DbOK
  <2> HIDE DEF found, id, row, same
  <2> QED
    BY <2>1
<1> HIDE DEF found, id, name, row, same, next, map, left
<1>8. /\ tab[id] = row /\ DOMAIN tab = DOMAIN db.rows \union {id}
      /\ tab = [i \in DOMAIN tab |-> tab[i]]
      /\ \A i \in DOMAIN db.rows : i # id => tab[i] = db.rows[i]
  OBVIOUS
<1> HIDE DEF tab
<1>9. \A i \in DOMAIN tab :
        tab[i] \in [agentUuid : used, ip : Ips, source : {"runtime", "manual"}, name : {tab[i].name}]
  BY <1>5, <1>8 DEF DbOK, TableOK
<1>10. \A i \in DOMAIN db.rows : i # id =>
          tab[i] = db.rows[i] /\ tab[i].name # name /\ tab[i].agentUuid # host.slave
  BY <1>2, <1>4, <1>6, <1>8
<1>11. \A i, k \in DOMAIN db.rows : i # k =>
          db.rows[i].name # db.rows[k].name /\ db.rows[i].agentUuid # db.rows[k].agentUuid
  BY DEF DbOK, TableOK
<1>12. \A i, k \in DOMAIN tab : i # k =>
          tab[i].name # tab[k].name /\ tab[i].agentUuid # tab[k].agentUuid
  BY <1>5, <1>8, <1>10, <1>11
<1>13. TableOK(tab, next, used)
  <2>1. DOMAIN tab \subseteq 1 .. next - 1
    BY <1>6, <1>8
  <2> QED
    BY <1>6, <1>8, <1>9, <1>12, <2>1 DEF TableOK
<1>14. \A i \in DOMAIN db.rows : i \in DOMAIN tab /\ tab[i].source = db.rows[i].source
  <2>1. \A i \in DOMAIN db.rows : i = id => found # NoRow /\ i = found
    BY <1>3, <1>6 DEF NoRow
  <2> QED
    BY <1>5, <1>8, <2>1
<1> HIDE DEF new
<1> QED
  BY <1>1, <1>7, <1>13, <1>14 DEF DbOK, Extends, new

\* What the loop over a list of hosts computes, turn by turn.
Turns(start, hosts, f) ==
    f = [k \in 0 .. Len(hosts) |->
            IF k = 0 THEN start ELSE AdoptHost(f[k - 1], hosts[k], hosts)]

\* It is well defined.
LEMMA TurnsExist ==
    ASSUME NEW start, NEW hosts, Len(hosts) \in Nat
    PROVE  \E f : Turns(start, hosts, f)
<1> DEFINE n == Len(hosts)
           Next0(d, k) == AdoptHost(d, hosts[k], hosts)
           Turn(f, m) == f = [k \in 0 .. m |-> IF k = 0 THEN start ELSE Next0(f[k - 1], k)]
           S == {m \in 0 .. n : \E f : Turn(f, m)}
<1> HIDE DEF n, Next0
<1>1. n \in Nat
  BY DEF n
<1>2. 0 \in S
  <2>1. Turn([k \in 0 .. 0 |-> start], 0)
    OBVIOUS
  <2> HIDE DEF Turn
  <2> QED
    BY <1>1, <2>1
<1>3. ASSUME NEW m \in 0 .. n - 1, m \in S
      PROVE  m + 1 \in S
  <2>1. PICK f : Turn(f, m)
    BY <1>3
  <2> DEFINE g == [k \in 0 .. m + 1 |-> IF k <= m THEN f[k] ELSE Next0(f[m], k)]
  <2>2. \A k \in 0 .. m : g[k] = f[k]
    BY <1>1
  <2>3. ASSUME NEW k \in 0 .. m + 1
        PROVE  g[k] = IF k = 0 THEN start ELSE Next0(g[k - 1], k)
    <3>1. CASE k <= m
      <4>1. g[k] = f[k] /\ f[k] = IF k = 0 THEN start ELSE Next0(f[k - 1], k)
        BY <1>1, <2>1, <2>2, <3>1
      <4>2. k # 0 => g[k - 1] = f[k - 1]
        BY <1>1, <2>2, <3>1
      <4> QED
        BY <4>1, <4>2
    <3>2. CASE k = m + 1
      BY <1>1, <2>2, <3>2
    <3> QED
      BY <1>1, <3>1, <3>2
  <2>4. g = [k \in 0 .. m + 1 |-> IF k = 0 THEN start ELSE Next0(g[k - 1], k)]
    <3>1. g = [k \in 0 .. m + 1 |-> g[k]]
      OBVIOUS
    <3> HIDE DEF g
    <3> QED
      BY <2>3, <3>1
  <2> HIDE DEF g
  <2>5. Turn(g, m + 1)
    BY <2>4
  <2> QED
    BY <1>1, <2>5
<1> HIDE DEF S
<1>4. n \in S
  <2>1. \A m \in 0 .. n - 1 : m \in S => m + 1 \in S
    BY <1>3
  <2>2. \A m \in 0 .. n : m \in S
    BY <1>1, <1>2, <2>1, UpTo
  <2> QED
    BY <1>1, <2>2
<1> QED
  BY <1>4 DEF S, n, Next0, Turns

LEMMA AdoptAllKeeps ==
    ASSUME NEW used, NEW hosts, HostsOK(hosts, used), NEW start, DbOK(start, used)
    PROVE  LET all == AdoptAll(start, hosts)
           IN  DbOK(all, used) /\ Extends(all.rows, start.rows)
<1>1. Len(hosts) \in Nat
  BY DEF HostsOK
<1> DEFINE turn == CHOOSE f : Turns(start, hosts, f)
<1>2. AdoptAll(start, hosts) = turn[Len(hosts)]
  BY DEF AdoptAll, Turns
<1>3. Turns(start, hosts, turn)
  BY <1>1, TurnsExist
<1> HIDE DEF turn
<1> DEFINE Good0(d) == DbOK(d, used) /\ Extends(d.rows, start.rows)
           S == {k \in 0 .. Len(hosts) : Good0(turn[k])}
<1>4. 0 \in S
  <2>1. turn[0] = start
    BY <1>1, <1>3 DEF Turns
  <2>2. Good0(start)
    BY DEF Extends
  <2> HIDE DEF Good0
  <2> QED
    BY <1>1, <2>1, <2>2
<1>5. ASSUME NEW k \in 0 .. Len(hosts) - 1, k \in S
      PROVE  k + 1 \in S
  <2>1. turn[k + 1] = AdoptHost(turn[k], hosts[k + 1], hosts)
    BY <1>1, <1>3 DEF Turns
  <2>2. HostOK(hosts[k + 1], used)
    BY <1>1 DEF HostsOK
  <2>3. DbOK(turn[k], used) /\ Extends(turn[k].rows, start.rows)
    BY <1>5
  <2> DEFINE d == turn[k]
             e == turn[k + 1]
  <2>4. DbOK(e, used) /\ Extends(e.rows, d.rows)
    <3> HIDE DEF d
    <3>1. DbOK(d, used)
      BY <2>3 DEF d
    <3>2. DbOK(AdoptHost(d, hosts[k + 1], hosts), used)
          /\ Extends(AdoptHost(d, hosts[k + 1], hosts).rows, d.rows)
      BY <2>2, <3>1, AdoptKeeps
    <3> QED
      BY <2>1, <3>2 DEF d
  <2>5. Extends(e.rows, start.rows)
    BY <2>3, <2>4 DEF Extends
  <2> QED
    BY <1>1, <2>4, <2>5
<1>6. Len(hosts) \in S
  <2>1. \A k \in 0 .. Len(hosts) - 1 : k \in S => k + 1 \in S
    BY <1>5
  <2> HIDE DEF S
  <2>2. \A k \in 0 .. Len(hosts) : k \in S
    BY <1>1, <1>4, <2>1, UpTo
  <2> QED
    BY <1>1, <2>2
<1> QED
  BY <1>2, <1>6

\* The merge keeps the rows apart, and takes away no row but those of the runtime.
LEMMA SyncKeepsRows ==
    ASSUME NEW tab, NEW next, NEW used, TableOK(tab, next, used),
           NEW hosts, HostsOK(hosts, used)
    PROVE  LET merged == syncRegisteredHosts(tab, next, hosts)
           IN  /\ TableOK(merged.rows, merged.nextId, used)
               /\ \A i \in DOMAIN tab : tab[i].source = "manual" => i \in DOMAIN merged.rows
<1> DEFINE start == [rows |-> tab, nextId |-> next, matched |-> {},
                     byIp |-> [p \in Ips |-> FirstOf({i \in DOMAIN tab : tab[i].ip = p})]]
           all   == AdoptAll(start, hosts)
           gone  == Stale(tab, all.matched)
           merged == syncRegisteredHosts(tab, next, hosts)
           left == [i \in DOMAIN all.rows \ gone |-> all.rows[i]]
<1>1. merged = [rows |-> left, nextId |-> all.nextId]
  BY DEF syncRegisteredHosts
<1>2. DbOK(start, used)
  <2>1. ASSUME NEW p \in Ips
        PROVE  FirstOf({i \in DOMAIN tab : tab[i].ip = p}) \in DOMAIN tab \union {NoRow}
    <3> DEFINE ids == {i \in DOMAIN tab : tab[i].ip = p}
    <3>1. ids \in SUBSET Nat /\ ids \subseteq DOMAIN tab
      BY DEF TableOK
    <3> HIDE DEF ids
    <3>2. FirstOf(ids) \in DOMAIN tab \union {NoRow}
      BY <3>1, FirstIn
    <3> QED
      BY <3>2 DEF ids
  <2> QED
    BY <2>1 DEF DbOK
<1>3. start.rows = tab
  OBVIOUS
<1> HIDE DEF start
<1>4. DbOK(all, used) /\ Extends(all.rows, tab)
  <2>1. DbOK(AdoptAll(start, hosts), used) /\ Extends(AdoptAll(start, hosts).rows, start.rows)
    BY <1>2, AdoptAllKeeps
  <2> QED
    BY <1>3, <2>1
<1> HIDE DEF all
<1>5. \A i \in DOMAIN tab : tab[i].source = "manual" => i \notin gone
  BY DEF Stale
<1> HIDE DEF gone
<1>6. TableOK(left, all.nextId, used)
  BY <1>4 DEF DbOK, TableOK
<1>7. \A i \in DOMAIN tab : tab[i].source = "manual" => i \in DOMAIN left
  BY <1>4, <1>5 DEF Extends
<1> HIDE DEF left, merged
<1>8. merged.rows = left /\ merged.nextId = all.nextId
  BY <1>1
<1> QED
  BY <1>6, <1>7, <1>8 DEF merged

-----------------------------------------------------------------------------
(* The master's list.                                                      *)

\* Slaves that the master knows are in use, and have an address.
RegistryOK(reg, used) ==
    /\ DOMAIN reg = Slaves /\ reg = [s \in DOMAIN reg |-> reg[s]]
    /\ \A s \in Slaves : reg[s] # Unknown => s \in used /\ reg[s].ip \in Ips

\* The entry of a slave in the list, and the list of the first slaves of the order.
EntryOf(s) == [slave |-> s, name |-> registry[s].name, ip |-> registry[s].ip, old |-> s \in outdated]
ListsUpTo(f) ==
    f = [k \in 0 .. Len(Order) |->
            CASE k = 0                                    -> <<>>
              [] k # 0 /\ registry[Order[k]] = Unknown    -> f[k - 1]
              [] OTHER                                    -> Append(f[k - 1], EntryOf(Order[k]))]

LEMMA ListsExist == \E f : ListsUpTo(f)
<1> DEFINE n == Len(Order)
           More(d, k) == IF registry[Order[k]] = Unknown THEN d ELSE Append(d, EntryOf(Order[k]))
           List(f, m) == f = [k \in 0 .. m |-> IF k = 0 THEN <<>> ELSE More(f[k - 1], k)]
           S == {m \in 0 .. n : \E f : List(f, m)}
<1>0. \A f : ListsUpTo(f) <=> List(f, n)
  <2> SUFFICES ASSUME NEW f
               PROVE  ListsUpTo(f) <=> List(f, n)
    OBVIOUS
  <2>1. \A k \in 0 .. n :
          (CASE k = 0                                    -> <<>>
             [] k # 0 /\ registry[Order[k]] = Unknown    -> f[k - 1]
             [] OTHER                                    -> Append(f[k - 1], EntryOf(Order[k])))
          = IF k = 0 THEN <<>> ELSE More(f[k - 1], k)
    OBVIOUS
  <2> HIDE DEF More
  <2> QED
    BY <2>1 DEF ListsUpTo
<1> HIDE DEF n, More
<1>1. n \in Nat
  BY HostCatalogAssumption DEF n
<1>2. 0 \in S
  <2>1. List([k \in 0 .. 0 |-> <<>>], 0)
    OBVIOUS
  <2> HIDE DEF List
  <2> QED
    BY <1>1, <2>1
<1>3. ASSUME NEW m \in 0 .. n - 1, m \in S
      PROVE  m + 1 \in S
  <2>1. PICK f : List(f, m)
    BY <1>3
  <2> DEFINE g == [k \in 0 .. m + 1 |-> IF k <= m THEN f[k] ELSE More(f[m], k)]
  <2>2. \A k \in 0 .. m : g[k] = f[k]
    BY <1>1
  <2>3. ASSUME NEW k \in 0 .. m + 1
        PROVE  g[k] = IF k = 0 THEN <<>> ELSE More(g[k - 1], k)
    <3>1. CASE k <= m
      <4>1. g[k] = f[k] /\ f[k] = IF k = 0 THEN <<>> ELSE More(f[k - 1], k)
        BY <1>1, <2>1, <2>2, <3>1
      <4>2. k # 0 => g[k - 1] = f[k - 1]
        BY <1>1, <2>2, <3>1
      <4> QED
        BY <4>1, <4>2
    <3>2. CASE k = m + 1
      BY <1>1, <2>2, <3>2
    <3> QED
      BY <1>1, <3>1, <3>2
  <2>4. g = [k \in 0 .. m + 1 |-> IF k = 0 THEN <<>> ELSE More(g[k - 1], k)]
    <3>1. g = [k \in 0 .. m + 1 |-> g[k]]
      OBVIOUS
    <3> HIDE DEF g
    <3> QED
      BY <2>3, <3>1
  <2> HIDE DEF g
  <2>5. List(g, m + 1)
    BY <2>4
  <2> QED
    BY <1>1, <2>5
<1> HIDE DEF S
<1>4. n \in S
  <2>1. \A m \in 0 .. n - 1 : m \in S => m + 1 \in S
    BY <1>3
  <2>2. \A m \in 0 .. n : m \in S
    BY <1>1, <1>2, <2>1, UpTo
  <2> QED
    BY <1>1, <2>2
<1>5. PICK f : List(f, n)
  BY <1>4 DEF S
<1> HIDE DEF List
<1> QED
  BY <1>0, <1>5

\* Every host of the list is in use, and the list has each slave once.
LEMMA ListedOK ==
    ASSUME NEW used, RegistryOK(registry, used)
    PROVE  HostsOK(Listed, used)
<1>1. Order \in Seq(Slaves) /\ Len(Order) \in Nat /\ DOMAIN Order = 1 .. Len(Order)
  BY HostCatalogAssumption
<1>2. \A a, b \in 1 .. Len(Order) : Order[a] = Order[b] => a = b
  BY <1>1, HostCatalogAssumption DEF IsInjective
<1> DEFINE upTo == CHOOSE f : ListsUpTo(f)
<1>3. Listed = upTo[Len(Order)]
  BY DEF Listed, ListsUpTo, EntryOf
<1>4. ListsUpTo(upTo)
  BY ListsExist
<1> HIDE DEF upTo
<1> DEFINE E == {EntryOf(s) : s \in {s \in Slaves : registry[s] # Unknown}}
           Once(list) == \A x, y \in 1 .. Len(list) : list[x].slave = list[y].slave => x = y
           First(list, k) == \A x \in 1 .. Len(list) : \E a \in 1 .. k : list[x].slave = Order[a]
           S == {k \in 0 .. Len(Order) : upTo[k] \in Seq(E) /\ Once(upTo[k]) /\ First(upTo[k], k)}
<1>5. \A e \in E : HostOK(e, used)
  BY DEF EntryOf, HostOK, RegistryOK
<1>6. \A s \in Slaves : registry[s] # Unknown => EntryOf(s) \in E
  OBVIOUS
<1>7. \A s : EntryOf(s).slave = s
  BY DEF EntryOf
<1> HIDE DEF E
<1>8. 0 \in S
  <2>1. upTo[0] = <<>>
    BY <1>1, <1>4 DEF ListsUpTo
  <2> DEFINE none == <<>>
  <2>2. none \in Seq(E) /\ Len(none) = 0
    OBVIOUS
  <2> HIDE DEF none
  <2>3. Once(none) /\ First(none, 0)
    BY <2>2
  <2>4. upTo[0] = none
    BY <2>1 DEF none
  <2>5. 0 \in 0 .. Len(Order)
    BY <1>1
  <2> HIDE DEF Once, First
  <2> QED
    BY <2>2, <2>3, <2>4, <2>5
<1>9. ASSUME NEW k \in 0 .. Len(Order) - 1, k \in S
      PROVE  k + 1 \in S
  <2>1. k + 1 \in 1 .. Len(Order) /\ Order[k + 1] \in Slaves
    BY <1>1
  <2> DEFINE list == upTo[k]
             e == EntryOf(Order[k + 1])
  <2>2. list \in Seq(E) /\ Once(list) /\ First(list, k)
    BY <1>9
  <2>3. upTo[k + 1] = IF registry[Order[k + 1]] = Unknown THEN list ELSE Append(list, e)
    <3> DEFINE m == k + 1
    <3>1. m \in 0 .. Len(Order) /\ m # 0 /\ m - 1 = k
      BY <1>1
    <3> HIDE DEF m
    <3>2. upTo[m] = IF registry[Order[m]] = Unknown THEN upTo[m - 1]
                    ELSE Append(upTo[m - 1], EntryOf(Order[m]))
      BY <1>4, <3>1 DEF ListsUpTo
    <3> QED
      BY <3>1, <3>2 DEF m
  <2>4. registry[Order[k + 1]] # Unknown => e \in E
    BY <1>6, <2>1
  <2>5. e.slave = Order[k + 1]
    BY <1>7
  <2> HIDE DEF list, e
  <2>6. CASE registry[Order[k + 1]] = Unknown
    <3>1. First(list, k + 1)
      BY <2>2
    <3> QED
      BY <1>1, <2>2, <2>3, <2>6, <3>1
  <2>7. CASE registry[Order[k + 1]] # Unknown
    <3> DEFINE new == Append(list, e)
    <3>1. /\ new \in Seq(E) /\ Len(list) \in Nat /\ Len(new) = Len(list) + 1
          /\ \A x \in 1 .. Len(list) : new[x] = list[x]
          /\ new[Len(list) + 1] = e
      BY <2>2, <2>4, <2>7
    <3> HIDE DEF new
    <3>2. \A x \in 1 .. Len(list) : list[x].slave # Order[k + 1]
      BY <1>2, <2>1, <2>2
    <3>3. Once(new)
      <4> SUFFICES ASSUME NEW x \in 1 .. Len(new), NEW y \in 1 .. Len(new),
                          new[x].slave = new[y].slave
                   PROVE  x = y
        OBVIOUS
      <4>1. CASE x \in 1 .. Len(list) /\ y \in 1 .. Len(list)
        BY <2>2, <3>1, <4>1
      <4>2. CASE x = Len(list) + 1 \/ y = Len(list) + 1
        BY <2>5, <3>1, <3>2, <4>2
      <4> QED
        BY <3>1, <4>1, <4>2
    <3>4. First(new, k + 1)
      <4> SUFFICES ASSUME NEW x \in 1 .. Len(new)
                   PROVE  \E a \in 1 .. k + 1 : new[x].slave = Order[a]
        OBVIOUS
      <4>1. CASE x \in 1 .. Len(list)
        <5>1. PICK a \in 1 .. k : list[x].slave = Order[a]
          BY <2>2, <4>1
        <5> QED
          BY <3>1, <4>1, <5>1
      <4>2. CASE x = Len(list) + 1
        BY <2>5, <3>1, <4>2
      <4> QED
        BY <3>1, <4>1, <4>2
    <3>5. upTo[k + 1] = new
      BY <2>3, <2>7 DEF new
    <3> HIDE DEF Once, First
    <3> QED
      BY <1>1, <3>1, <3>3, <3>4, <3>5
  <2> QED
    BY <2>6, <2>7
<1>10. Len(Order) \in S
  <2>1. \A k \in 0 .. Len(Order) - 1 : k \in S => k + 1 \in S
    BY <1>9
  <2> HIDE DEF S
  <2>2. \A k \in 0 .. Len(Order) : k \in S
    BY <1>1, <1>8, <2>1, UpTo
  <2> QED
    BY <1>1, <2>2
<1>11. Listed \in Seq(E) /\ Once(Listed)
  BY <1>3, <1>10
<1> QED
  BY <1>5, <1>11 DEF HostsOK

-----------------------------------------------------------------------------
(* Deployments, calls and passwords.                                       *)

JobShape(j, used) ==
    j \in [no : {j.no}, host : {j.host}, slave : used, stage : {"running", "waiting"},
           asked : BOOLEAN, challenge : {j.challenge}, loose : {j.loose}, auto : {j.auto}]

\* A host has one deployment at most.
JobsOK(js, used) ==
    /\ \A j \in js : JobShape(j, used)
    /\ \A j, k \in js : j.host = k.host => j = k

LEMMA FewerJobs ==
    ASSUME NEW used, NEW more, used \subseteq more, NEW js, JobsOK(js, used),
           NEW left \in SUBSET js
    PROVE  JobsOK(left, more)
BY DEF JobsOK, JobShape

\* A deployment that is asked for is the host's deployment, or its first.
LEMMA DeployKeeps ==
    ASSUME NEW used, NEW js, JobsOK(js, used), NEW i, NEW slave \in used, NEW loose, NEW auto
    PROVE  JobsOK(runHostAgentDeployment(js, i, slave, loose, auto), used)
<1>1. CASE HasJob(js, i)
  <2> DEFINE C(j) == [j EXCEPT !.loose = @ \/ loose, !.auto = @ \/ auto]
             G(j) == IF j.host = i THEN C(j) ELSE j
  <2>1. runHostAgentDeployment(js, i, slave, loose, auto) = {G(j) : j \in js}
    BY <1>1 DEF runHostAgentDeployment
  <2>2. ASSUME NEW j \in js
        PROVE  JobShape(G(j), used) /\ G(j).host = j.host
    <3>1. JobShape(j, used)
      BY DEF JobsOK
    <3>2. JobShape(C(j), used) /\ C(j).host = j.host
      <4> DEFINE a == j.loose \/ loose
                 b == j.auto \/ auto
      <4>1. C(j) = [j EXCEPT !.loose = a, !.auto = b]
        OBVIOUS
      <4> HIDE DEF a, b, C
      <4> QED
        BY <3>1, <4>1 DEF JobShape
    <3> HIDE DEF C
    <3> QED
      BY <3>1, <3>2
  <2> HIDE DEF G
  <2>3. \A j, k \in js : j.host = k.host => j = k
    BY DEF JobsOK
  <2> QED
    BY <2>1, <2>2, <2>3 DEF JobsOK
<1>2. CASE ~HasJob(js, i)
  <2> DEFINE new == NewJob(js, i, slave, loose, auto)
  <2>1. runHostAgentDeployment(js, i, slave, loose, auto) = js \union {new}
    BY <1>2 DEF runHostAgentDeployment
  <2>2. JobShape(new, used) /\ new.host = i
    <3> DEFINE no == CHOOSE n \in 1 .. Cardinality(js) + 1 : \A j \in js : j.no # n
    <3>1. new = [no |-> no, host |-> i, slave |-> slave, stage |-> "running", asked |-> FALSE,
                 challenge |-> 0, loose |-> loose, auto |-> auto]
      BY DEF NewJob
    <3> HIDE DEF no, new
    <3>2. /\ new.no = no /\ new.host = i /\ new.slave = slave /\ new.stage = "running"
          /\ new.asked = FALSE /\ new.challenge = 0
      BY <3>1
    <3> QED
      BY <3>1, <3>2 DEF JobShape
  <2> HIDE DEF new
  <2>3. \A j \in js : j.host # i
    BY <1>2 DEF HasJob, JobOf
  <2> QED
    BY <2>1, <2>2, <2>3 DEF JobsOK
<1> QED
  BY <1>1, <1>2

\* A job that is replaced by one of its host.
LEMMA ReplaceKeeps ==
    ASSUME NEW used, NEW js, JobsOK(js, used), NEW old \in js,
           NEW new, JobShape(new, used), new.host = old.host
    PROVE  JobsOK((js \ {old}) \union {new}, used)
BY DEF JobsOK

Ops0 == {"none", "list", "upgrade"}

\* What a call holds: a list of hosts of slaves in use, the slave of the row that an
\* upgrade read.
CallOK(call, used) ==
    /\ call \in [op : Ops0, phase : Phases, hosts : {call.hosts}, todo : {call.todo},
                 host : {call.host}, slave : {call.slave}]
    /\ HostsOK(call.hosts, used)
    /\ call.op = "upgrade" => call.slave \in used
    /\ call.phase \in {"asking", "ending"} => call.op = "upgrade"
    /\ call.phase \in {"read", "considering"} => call.op # "none"

CallsOK(cs, used) ==
    /\ DOMAIN cs = Calls /\ cs = [c \in DOMAIN cs |-> cs[c]]
    /\ \A c \in Calls : CallOK(cs[c], used)

LEMMA HostsMore ==
    ASSUME NEW used, NEW more, used \subseteq more, NEW hosts, HostsOK(hosts, used)
    PROVE  HostsOK(hosts, more)
BY DEF HostsOK, HostOK

LEMMA CallsMore ==
    ASSUME NEW used, NEW more, used \subseteq more, NEW cs, CallsOK(cs, used)
    PROVE  CallsOK(cs, more)
BY HostsMore DEF CallsOK, CallOK

LEMMA IdleOK ==
    ASSUME NEW used
    PROVE  CallOK(Idle, used)
BY DEF CallOK, Idle, Ops0, Phases, HostsOK

\* One call goes on, or is done.
LEMMA CallKeeps ==
    ASSUME NEW used, NEW cs, CallsOK(cs, used), NEW c \in Calls, NEW call, CallOK(call, used)
    PROVE  CallsOK([cs EXCEPT ![c] = call], used)
BY DEF CallsOK

LEMMA ConsideringOK ==
    ASSUME NEW used, NEW call, CallOK(call, used), call.phase \in {"read", "considering"}, NEW hosts
    PROVE  CallOK(Considering(call, hosts), used)
<1>1. HostsOK(<<>>, used)
  BY DEF HostsOK
<1>2. CASE hosts # {}
  <2> DEFINE new == [call EXCEPT !.phase = "considering", !.todo = hosts, !.hosts = <<>>]
  <2>1. CallOK(new, used)
    BY <1>1 DEF CallOK, Phases
  <2> QED
    BY <1>2, <2>1 DEF Considering
<1>3. CASE hosts = {} /\ call.op = "list"
  BY <1>3, IdleOK DEF Considering
<1>4. CASE hosts = {} /\ call.op # "list"
  <2> DEFINE new == [call EXCEPT !.phase = "ending", !.todo = {}, !.hosts = <<>>]
  <2>1. CallOK(new, used)
    BY <1>1, <1>4 DEF CallOK, Phases, Ops0
  <2> QED
    BY <1>4, <2>1 DEF Considering
<1> QED
  BY <1>2, <1>3, <1>4

Answers == {"open", "answered", "cancelled", "expired", "lost"}

\* A prompt shows a request that was made; a password that was accepted answered one,
\* and no other did.
PasswordsOK(asked, shown, told) ==
    /\ asked \in Seq(Answers)
    /\ DOMAIN shown = Browsers /\ shown = [b \in DOMAIN shown |-> shown[b]]
    /\ \A b \in Browsers : /\ shown[b] \in [shows : {shown[b].shows}, seen : {shown[b].seen}]
                          /\ shown[b].shows \in DOMAIN asked \union {0}
    /\ \A a \in told : a[2] \in DOMAIN asked /\ asked[a[2]] = "answered"
    /\ \A a, o \in told : a[2] = o[2] => a = o

\* Requests that were answered stay so.
LEMMA PasswordsKept ==
    ASSUME NEW asked, NEW shown, NEW told, PasswordsOK(asked, shown, told),
           NEW later \in Seq(Answers), Len(asked) <= Len(later),
           \A n \in DOMAIN asked : asked[n] = "answered" => later[n] = "answered"
    PROVE  PasswordsOK(later, shown, told)
<1>1. DOMAIN asked \subseteq DOMAIN later
  BY DEF PasswordsOK
<1> QED
  BY <1>1 DEF PasswordsOK

-----------------------------------------------------------------------------
(* The catalog of hosts.                                                   *)

CatInv ==
    /\ setting \in Settings
    /\ RegistryOK(registry, InUse)
    /\ installed \subseteq InUse
    /\ TableOK(rows, nextId, InUse)
    /\ CallsOK(calls, InUse)
    /\ JobsOK(jobs, InUse)
    /\ PasswordsOK(challenges, prompts, accepted)

LEMMA SettingFacts ==
    ASSUME setting \in Settings
    PROVE  /\ setting.kept \in Nat /\ setting.kept <= Len(Order)
           /\ setting.native \subseteq Slaves /\ setting.calls \subseteq Calls
           /\ setting.browsers \subseteq Browsers
           /\ \A s \in Slaves : setting.ips[s] \subseteq Ips
           /\ setting.added \subseteq Ips
<1>1. setting \in SettingKinds
  BY HostCatalogAssumption
<1>2. setting.kept \in Nat /\ setting.native \subseteq Slaves /\ setting.calls \subseteq Calls
      /\ setting.browsers \subseteq Browsers /\ setting.ips \in [Slaves -> SUBSET Ips]
      /\ setting.added \subseteq Ips
  BY <1>1 DEF SettingKinds
<1> QED
  BY <1>2, HostCatalogAssumption

LEMMA InitCat ==
    ASSUME Init
    PROVE  CatInv
<1>1. setting \in Settings
  BY DEF Init
<1>2. RegistryOK(registry, InUse)
  BY DEF Init, RegistryOK
<1>3. installed \subseteq InUse
  BY DEF Init, InUse
<1>4. TableOK(rows, nextId, InUse)
  <2> DEFINE K == setting.kept
             ipOf(i) == CHOOSE ip \in setting.ips[Order[i]] : TRUE
             nameOf(i) == CHOOSE n \in setting.names[Order[i]] : TRUE
             whole(i) == <<nameOf(i), "", 0>>
             rowOf(i) == [agentUuid |-> Order[i], ip |-> ipOf(i), source |-> "runtime",
                          name |-> whole(i)]
  <2>1. rows = [i \in 1 .. K |-> rowOf(i)] /\ nextId = K + 1
    BY DEF Init
  <2>2. K \in Nat /\ K <= Len(Order) /\ \A s \in Slaves : setting.ips[s] \subseteq Ips
    BY <1>1, SettingFacts
  <2>3. Order \in Seq(Slaves) /\ \A i, k \in DOMAIN Order : Order[i] = Order[k] => i = k
    BY HostCatalogAssumption DEF IsInjective
  <2>4. \A i, k \in 1 .. K :
          /\ setting.names[Order[i]] # {} /\ setting.ips[Order[i]] # {}
          /\ i # k => setting.names[Order[i]] \intersect setting.names[Order[k]] = {}
    BY <1>1, HostCatalogAssumption
  <2>5. \A i \in 1 .. K : Order[i] \in Slaves /\ Order[i] \in InUse
    BY <2>2, <2>3 DEF InUse
  <2>6. \A i \in 1 .. K : ipOf(i) \in Ips
    BY <2>2, <2>4, <2>5
  <2>7. \A i, k \in 1 .. K : i # k => nameOf(i) # nameOf(k)
    <3>1. \A i \in 1 .. K : nameOf(i) \in setting.names[Order[i]]
      BY <2>4
    <3> QED
      BY <2>4, <3>1
  <2>8. \A i, k \in 1 .. K : i # k => Order[i] # Order[k]
    BY <2>2, <2>3
  <2> HIDE DEF K, ipOf, nameOf
  <2>9. \A i \in 1 .. K :
          rowOf(i) \in [agentUuid : InUse, ip : Ips, source : {"runtime", "manual"},
                           name : {rowOf(i).name}]
    BY <2>5, <2>6
  <2>14. \A i \in 1 .. K : rowOf(i).agentUuid = Order[i] /\ rowOf(i).name = whole(i)
    OBVIOUS
  <2>15. \A i, k \in 1 .. K : i # k => whole(i) # whole(k)
    BY <2>7
  <2> HIDE DEF rowOf, whole
  <2>10. /\ DOMAIN rows = 1 .. K /\ rows = [i \in DOMAIN rows |-> rows[i]]
         /\ \A i \in 1 .. K : rows[i] = rowOf(i)
    BY <2>1
  <2>11. \A i \in DOMAIN rows :
           rows[i] \in [agentUuid : InUse, ip : Ips, source : {"runtime", "manual"}, name : {rows[i].name}]
    BY <2>9, <2>10
  <2>12. \A i, k \in DOMAIN rows : i # k =>
           rows[i].name # rows[k].name /\ rows[i].agentUuid # rows[k].agentUuid
    <3>1. \A i, k \in 1 .. K : i # k =>
             rowOf(i).name # rowOf(k).name /\ rowOf(i).agentUuid # rowOf(k).agentUuid
      BY <2>8, <2>14, <2>15
    <3> QED
      BY <2>10, <3>1
  <2>13. nextId \in Nat \ {0} /\ DOMAIN rows \subseteq 1 .. nextId - 1
    BY <2>1, <2>2, <2>10
  <2> QED
    BY <2>10, <2>11, <2>12, <2>13 DEF TableOK
<1>5. CallsOK(calls, InUse)
  BY IdleOK DEF Init, CallsOK
<1>6. JobsOK(jobs, InUse)
  BY DEF Init, JobsOK
<1>7. PasswordsOK(challenges, prompts, accepted)
  <2>1. <<>> \in Seq(Answers)
    OBVIOUS
  <2>2. challenges = <<>> /\ accepted = {} /\ prompts = [b \in Browsers |-> [shows |-> 0, seen |-> {}]]
    BY DEF Init
  <2>3. \A b \in Browsers : prompts[b] = [shows |-> 0, seen |-> {}]
    BY <2>2
  <2>4. DOMAIN prompts = Browsers /\ prompts = [b \in DOMAIN prompts |-> prompts[b]]
    BY <2>2
  <2> QED
    BY <2>1, <2>2, <2>3, <2>4 DEF PasswordsOK
<1> QED
  BY <1>1, <1>2, <1>3, <1>4, <1>5, <1>6, <1>7 DEF CatInv

\* The slaves in use are the same when settings and minted slaves are.
LEMMA SameUse ==
    ASSUME UNCHANGED <<setting, minted>>
    PROVE  InUse' = InUse
BY DEF InUse

\* The server ends.
LEMMA CrashCat ==
    ASSUME CatInv, Crash, UNCHANGED <<setting, master, table, prompts, accepted>>
    PROVE  CatInv'
<1>1. InUse' = InUse
  BY SameUse DEF table
<1>2. CallsOK(calls', InUse)
  BY IdleOK DEF Crash, CallsOK
<1>3. JobsOK(jobs', InUse)
  BY DEF Crash, JobsOK
<1>4. PasswordsOK(challenges', prompts, accepted)
  <2> DEFINE later == [n \in DOMAIN challenges |->
                         IF challenges[n] = "open" THEN "lost" ELSE challenges[n]]
  <2>1. challenges \in Seq(Answers)
    BY DEF CatInv, PasswordsOK
  <2>2. later \in Seq(Answers) /\ Len(later) = Len(challenges)
    BY <2>1 DEF Answers
  <2>3. \A n \in DOMAIN challenges : challenges[n] = "answered" => later[n] = "answered"
    OBVIOUS
  <2> HIDE DEF later
  <2>4. PasswordsOK(later, prompts, accepted)
    <3>1. Len(challenges) <= Len(later)
      BY <2>1, <2>2
    <3> QED
      BY <2>2, <2>3, <3>1, PasswordsKept DEF CatInv
  <2> QED
    BY <2>4 DEF Crash, later
<1> QED
  BY <1>1, <1>2, <1>3, <1>4 DEF CatInv, master, table

\* A request is cancelled or times out.
LEMMA RejectCat ==
    ASSUME CatInv, NEW n \in DOMAIN challenges, challenges[n] = "open",
           NEW how \in {"expired", "cancelled"}, Reject(n, how),
           UNCHANGED <<setting, master, table, accepted>>
    PROVE  /\ InUse' = InUse /\ setting' = setting
           /\ RegistryOK(registry', InUse) /\ installed' \subseteq InUse
           /\ TableOK(rows', nextId', InUse) /\ CallsOK(calls', InUse) /\ JobsOK(jobs', InUse)
           /\ PasswordsOK(challenges', prompts, accepted')
<1>1. InUse' = InUse
  BY SameUse DEF table
<1>2. challenges \in Seq(Answers)
  BY DEF CatInv, PasswordsOK
<1>3. CallsOK(calls', InUse) /\ JobsOK(jobs', InUse)
  <2>1. CASE \E j \in Waiting(n) : j.loose
    BY <2>1, IdleOK DEF Reject, CallsOK, JobsOK
  <2>2. CASE ~\E j \in Waiting(n) : j.loose
    BY <2>2, FewerJobs DEF Reject, CatInv
  <2> QED
    BY <2>1, <2>2
<1>4. /\ challenges' \in Seq(Answers) /\ Len(challenges) <= Len(challenges')
      /\ \A m \in DOMAIN challenges : challenges[m] = "answered" => challenges'[m] = "answered"
  <2>1. CASE \E j \in Waiting(n) : j.loose
    <3> DEFINE later == [m \in DOMAIN challenges |->
                           CASE m = n -> how
                             [] m # n /\ challenges[m] = "open" -> "lost"
                             [] OTHER -> challenges[m]]
    <3>1. challenges' = later
      BY <2>1 DEF Reject
    <3>2. \A m \in DOMAIN challenges :
            later[m] \in Answers /\ (challenges[m] = "answered" => later[m] = "answered")
      BY <1>2 DEF Answers
    <3>3. later = [m \in DOMAIN challenges |-> later[m]]
      OBVIOUS
    <3> HIDE DEF later
    <3>4. later \in Seq(Answers) /\ Len(later) = Len(challenges)
      BY <1>2, <3>2, <3>3
    <3> QED
      BY <1>2, <3>1, <3>2, <3>4
  <2>2. CASE ~\E j \in Waiting(n) : j.loose
    <3>1. challenges' = [challenges EXCEPT ![n] = how]
      BY <2>2 DEF Reject
    <3>2. how \in Answers
      BY DEF Answers
    <3> QED
      BY <1>2, <3>1, <3>2
  <2> QED
    BY <2>1, <2>2
<1>5. PasswordsOK(challenges', prompts, accepted)
  <2> DEFINE later == challenges'
  <2> HIDE DEF later
  <2>1. PasswordsOK(later, prompts, accepted)
    BY <1>4, PasswordsKept DEF CatInv, later
  <2> QED
    BY <2>1 DEF later
<1> QED
  BY <1>1, <1>3, <1>5 DEF CatInv, master, table

-----------------------------------------------------------------------------
(* One step of it.                                                         *)

LEMMA MasterSteps ==
    ASSUME CatInv,
           \/ \E s \in Slaves : \E name \in setting.names[s], ip \in setting.ips[s] : Register(s, name, ip)
           \/ MasterRestarts
           \/ \E j \in jobs : ScriptInstalls(j)
    PROVE  CatInv'
<1>1. UNCHANGED <<setting, table, calls, jobs, passwords>>
  BY DEF Register, MasterRestarts, ScriptInstalls, ServerUnchanged
<1>2. InUse' = InUse
  BY <1>1, SameUse DEF table
<1>3. CASE \E s \in Slaves : \E name \in setting.names[s], ip \in setting.ips[s] : Register(s, name, ip)
  <2>0. PICK s \in Slaves : \E name \in setting.names[s], ip \in setting.ips[s] : Register(s, name, ip)
    BY <1>3
  <2>1. PICK name \in setting.names[s], ip \in setting.ips[s] : Register(s, name, ip)
    BY <2>0
  <2>2. ip \in Ips
    BY SettingFacts DEF CatInv
  <2>3. s \in InUse
    BY <2>1 DEF Register, CatInv
  <2>4. registry' = [registry EXCEPT ![s] = [name |-> name, ip |-> ip]] /\ installed' = installed
    BY <2>1 DEF Register
  <2>5. RegistryOK(registry', InUse)
    BY <2>2, <2>3, <2>4 DEF CatInv, RegistryOK
  <2> QED
    BY <1>1, <1>2, <2>4, <2>5 DEF CatInv, table, passwords
<1>4. CASE MasterRestarts
  <2>1. RegistryOK(registry', InUse) /\ installed' = installed
    BY <1>4 DEF MasterRestarts, RegistryOK
  <2> QED
    BY <1>1, <1>2, <2>1 DEF CatInv, table, passwords
<1>5. CASE \E j \in jobs : ScriptInstalls(j)
  <2>1. PICK j \in jobs : ScriptInstalls(j)
    BY <1>5
  <2>2. j.slave \in InUse
    BY DEF CatInv, JobsOK, JobShape
  <2>3. installed' \subseteq InUse /\ registry' = registry
    BY <2>1, <2>2 DEF CatInv, ScriptInstalls
  <2> QED
    BY <1>1, <1>2, <2>3 DEF CatInv, table, passwords
<1> QED
  BY <1>3, <1>4, <1>5

LEMMA ScriptSteps ==
    ASSUME CatInv, NEW j \in jobs,
           ScriptSucceeds(j) \/ ScriptWantsPassword(j) \/ ScriptFails(j)
    PROVE  CatInv'
<1>1. UNCHANGED <<setting, master, table>>
  BY DEF ScriptSucceeds, ScriptWantsPassword, ScriptFails
<1>2. InUse' = InUse
  BY <1>1, SameUse DEF table
<1>3. JobsOK(jobs \ {j}, InUse)
  BY FewerJobs DEF CatInv
<1>4. CASE ScriptSucceeds(j)
  BY <1>1, <1>2, <1>3, <1>4 DEF CatInv, master, table, passwords, ScriptSucceeds
<1>5. CASE ScriptWantsPassword(j)
  <2> DEFINE asked == [j EXCEPT !.stage = "waiting", !.asked = TRUE, !.challenge = Len(challenges) + 1]
  <2>1. JobShape(j, InUse)
    BY DEF CatInv, JobsOK
  <2>2. JobShape(asked, InUse) /\ asked.host = j.host
    BY <2>1 DEF JobShape
  <2>3. jobs' = (jobs \ {j}) \union {asked} /\ challenges' = Append(challenges, "open")
    BY <1>5 DEF ScriptWantsPassword
  <2> HIDE DEF asked
  <2>4. JobsOK(jobs', InUse)
    BY <2>2, <2>3, ReplaceKeeps DEF CatInv
  <2>5. PasswordsOK(challenges', prompts, accepted)
    <3> DEFINE later == Append(challenges, "open")
    <3>1. challenges \in Seq(Answers)
      BY DEF CatInv, PasswordsOK
    <3>2. "open" \in Answers
      BY DEF Answers
    <3>3. later \in Seq(Answers) /\ Len(later) = Len(challenges) + 1
          /\ \A n \in DOMAIN challenges : later[n] = challenges[n]
      BY <3>1, <3>2
    <3> HIDE DEF later
    <3>4. PasswordsOK(later, prompts, accepted)
      BY <3>1, <3>3, PasswordsKept DEF CatInv
    <3> QED
      BY <2>3, <3>4 DEF later
  <2>6. UNCHANGED <<calls, prompts, accepted>>
    BY <1>5 DEF ScriptWantsPassword
  <2> QED
    BY <1>1, <1>2, <2>4, <2>5, <2>6 DEF CatInv, master, table
<1>6. CASE ScriptFails(j)
  <2>1. CASE j.loose
    BY <1>6, <2>1, CrashCat DEF ScriptFails, Fail
  <2>2. CASE ~j.loose
    <3>1. jobs' = jobs \ {j} /\ UNCHANGED <<calls, challenges, prompts, accepted>>
      BY <1>6, <2>2 DEF ScriptFails, Fail
    <3> QED
      BY <1>1, <1>2, <1>3, <3>1 DEF CatInv, master, table
  <2> QED
    BY <2>1, <2>2
<1> QED
  BY <1>4, <1>5, <1>6

LEMMA PasswordSteps ==
    ASSUME CatInv,
           \/ \E n \in DOMAIN challenges : ChallengeTimesOut(n)
           \/ \E b \in Browsers, n \in DOMAIN challenges : ShowPrompt(b, n)
           \/ \E b \in Browsers, given \in BOOLEAN : Answer(b, given)
           \/ \E b \in setting.browsers : Connect(b) \/ Disconnect(b)
    PROVE  CatInv'
<1>1. CASE \E n \in DOMAIN challenges : ChallengeTimesOut(n)
  <2>1. PICK n \in DOMAIN challenges : ChallengeTimesOut(n)
    BY <1>1
  <2>2. /\ challenges[n] = "open" /\ Reject(n, "expired")
        /\ UNCHANGED <<setting, master, table, accepted>> /\ prompts' = prompts
    BY <2>1 DEF ChallengeTimesOut
  <2> QED
    BY <2>2, RejectCat DEF CatInv
<1>2. CASE \E b \in Browsers, n \in DOMAIN challenges : ShowPrompt(b, n)
  <2>1. PICK b \in Browsers, n \in DOMAIN challenges : ShowPrompt(b, n)
    BY <1>2
  <2>2. UNCHANGED <<setting, master, table, calls, jobs, challenges, accepted>>
    BY <2>1 DEF ShowPrompt
  <2> DEFINE new == [shows |-> IF challenges[n] = "expired" THEN 0 ELSE n,
                     seen |-> prompts[b].seen \union {n}]
  <2>3. prompts' = [prompts EXCEPT ![b] = new]
    BY <2>1 DEF ShowPrompt
  <2>4. new \in [shows : {new.shows}, seen : {new.seen}] /\ new.shows \in DOMAIN challenges \union {0}
    OBVIOUS
  <2> HIDE DEF new
  <2>5. PasswordsOK(challenges, prompts', accepted)
    BY <2>3, <2>4 DEF CatInv, PasswordsOK
  <2>6. InUse' = InUse
    BY <2>2, SameUse DEF table
  <2> QED
    BY <2>2, <2>5, <2>6 DEF CatInv, master, table
<1>3. CASE \E b \in Browsers, given \in BOOLEAN : Answer(b, given)
  <2>1. PICK b \in Browsers, given \in BOOLEAN : Answer(b, given)
    BY <1>3
  <2> DEFINE n == prompts[b].shows
  <2>2. /\ n # 0 /\ UNCHANGED <<setting, master, table>>
        /\ prompts' = [prompts EXCEPT ![b].shows = 0]
    BY <2>1 DEF Answer
  <2>3. n \in DOMAIN challenges
    BY <2>2 DEF CatInv, PasswordsOK
  <2>4. InUse' = InUse
    BY <2>2, SameUse DEF table
  <2>5. ASSUME NEW asked, NEW told, PasswordsOK(asked, prompts, told)
        PROVE  PasswordsOK(asked, prompts', told)
    <3>1. \A d \in Browsers : prompts'[d] = IF d = b THEN [prompts[b] EXCEPT !.shows = 0] ELSE prompts[d]
      BY <2>2, <2>5 DEF PasswordsOK
    <3>2. DOMAIN prompts' = Browsers /\ prompts' = [d \in DOMAIN prompts' |-> prompts'[d]]
      BY <2>2, <2>5 DEF PasswordsOK
    <3>3. \A d \in Browsers : /\ prompts'[d] \in [shows : {prompts'[d].shows}, seen : {prompts'[d].seen}]
                             /\ prompts'[d].shows \in DOMAIN asked \union {0}
      BY <2>5, <3>1 DEF PasswordsOK
    <3> QED
      BY <2>5, <3>2, <3>3 DEF PasswordsOK
  <2>6. CASE b \in connected /\ IsOpen(n) /\ given
    <3>1. Resolve(n) /\ accepted' = accepted \union {<<b, n>>}
      BY <2>1, <2>6 DEF Answer
    <3>2. challenges[n] = "open" /\ challenges' = [challenges EXCEPT ![n] = "answered"]
          /\ calls' = calls
      BY <2>6, <3>1 DEF Resolve, IsOpen
    <3>3. PasswordsOK(challenges', prompts, accepted')
      <4>1. challenges \in Seq(Answers) /\ "answered" \in Answers
        BY DEF CatInv, PasswordsOK, Answers
      <4>2. challenges' \in Seq(Answers) /\ DOMAIN challenges' = DOMAIN challenges
        BY <2>3, <3>2, <4>1
      <4>3. \A a \in accepted : a[2] \in DOMAIN challenges /\ challenges[a[2]] = "answered"
        BY DEF CatInv, PasswordsOK
      <4>4. \A a \in accepted' : a[2] \in DOMAIN challenges /\ challenges'[a[2]] = "answered"
        BY <2>3, <3>1, <3>2, <4>1, <4>3
      <4>5. \A a, o \in accepted' : a[2] = o[2] => a = o
        <5>1. \A a \in accepted : a[2] # n
          BY <3>2, <4>3
        <5>2. \A a, o \in accepted : a[2] = o[2] => a = o
          BY DEF CatInv, PasswordsOK
        <5> HIDE DEF n
        <5> QED
          BY <3>1, <5>1, <5>2
      <4> QED
        BY <4>2, <4>4, <4>5 DEF CatInv, PasswordsOK
    <3>4. JobsOK(jobs', InUse)
      <4> DEFINE R(k) == IF k \in Waiting(n) THEN [k EXCEPT !.stage = "running"] ELSE k
      <4>1. jobs' = {R(j) : j \in jobs}
        BY <3>1 DEF Resolve
      <4>2. \A j \in jobs : JobShape(R(j), InUse) /\ R(j).host = j.host
        BY DEF CatInv, JobsOK, JobShape
      <4> HIDE DEF R
      <4>3. \A j, k \in jobs : j.host = k.host => j = k
        BY DEF CatInv, JobsOK
      <4> QED
        BY <4>1, <4>2, <4>3 DEF JobsOK
    <3>5. PasswordsOK(challenges', prompts', accepted')
      BY <2>5, <3>3
    <3> QED
      BY <2>2, <2>4, <3>2, <3>4, <3>5 DEF CatInv, master, table
  <2>7. CASE b \in connected /\ IsOpen(n) /\ ~given
    <3>1. Reject(n, "cancelled") /\ accepted' = accepted /\ challenges[n] = "open"
      BY <2>1, <2>7 DEF Answer, IsOpen
    <3> HIDE DEF n
    <3>2. /\ InUse' = InUse /\ setting' = setting
          /\ RegistryOK(registry', InUse) /\ installed' \subseteq InUse
          /\ TableOK(rows', nextId', InUse) /\ CallsOK(calls', InUse) /\ JobsOK(jobs', InUse)
          /\ PasswordsOK(challenges', prompts, accepted')
      BY <2>2, <2>3, <3>1, RejectCat
    <3>3. PasswordsOK(challenges', prompts', accepted')
      BY <2>5, <3>2
    <3> QED
      BY <3>2, <3>3 DEF CatInv
  <2>8. CASE ~(b \in connected /\ IsOpen(n))
    <3>1. UNCHANGED <<challenges, jobs, calls, accepted>>
      BY <2>1, <2>8 DEF Answer
    <3>2. PasswordsOK(challenges', prompts', accepted')
      BY <2>5, <3>1 DEF CatInv
    <3> QED
      BY <2>2, <2>4, <3>1, <3>2 DEF CatInv, master, table
  <2> QED
    BY <2>6, <2>7, <2>8
<1>4. CASE \E b \in setting.browsers : Connect(b) \/ Disconnect(b)
  <2>1. UNCHANGED <<setting, master, table, calls, jobs, passwords>>
    BY <1>4 DEF Connect, Disconnect
  <2>2. InUse' = InUse
    BY <2>1, SameUse DEF table
  <2> QED
    BY <2>1, <2>2 DEF CatInv, master, table, passwords
<1> QED
  BY <1>1, <1>2, <1>3, <1>4

LEMMA CallSteps ==
    ASSUME CatInv,
           \/ \E c \in setting.calls : ReadRegistry(c) \/ ReadFails(c) \/ Sync(c) \/ StartUpgrade(c)
           \/ \E c \in setting.calls, i \in DOMAIN rows : BeginUpgrade(c, i)
           \/ \E c \in setting.calls : \E host \in calls[c].todo : considerRuntimeHost(c, host)
           \/ \E i \in attempted : CooledDown(i)
    PROVE  CatInv'
<1>1. UNCHANGED <<setting, master, passwords, minted>>
  BY DEF ReadRegistry, ReadFails, Sync, StartUpgrade, BeginUpgrade, considerRuntimeHost, CooledDown,
         CallUnchanged, table
<1>2. InUse' = InUse
  BY <1>1, SameUse
<1>3. \A c \in setting.calls : c \in Calls /\ CallOK(calls[c], InUse)
  BY SettingFacts DEF CatInv, CallsOK
<1>4. ASSUME NEW c \in setting.calls, NEW call, CallOK(call, InUse),
             calls' = [calls EXCEPT ![c] = call]
      PROVE  CallsOK(calls', InUse)
  BY <1>3, <1>4, CallKeeps DEF CatInv
<1>5. CASE \E c \in setting.calls : ReadRegistry(c)
  <2>1. PICK c \in setting.calls : ReadRegistry(c)
    BY <1>5
  <2>2. CallOK(calls[c], InUse) /\ DOMAIN calls = Calls
    BY <1>3 DEF CatInv, CallsOK
  <2> DEFINE op == IF calls[c].op = "none" THEN "list" ELSE calls[c].op
             list == Listed
             call == [calls[c] EXCEPT !.op = op, !.phase = "read", !.hosts = list]
  <2>3. calls' = [calls EXCEPT ![c] = call]
    BY <1>3, <2>1, <2>2 DEF ReadRegistry
  <2>4. HostsOK(list, InUse)
    BY ListedOK DEF CatInv
  <2> HIDE DEF list
  <2>5. CallOK(call, InUse)
    BY <2>2, <2>4 DEF CallOK, Phases, Ops0
  <2> HIDE DEF call
  <2>6. CallsOK(calls', InUse)
    BY <1>4, <2>3, <2>5
  <2>7. UNCHANGED <<table, jobs>>
    BY <2>1 DEF ReadRegistry
  <2> QED
    BY <1>1, <1>2, <2>6, <2>7 DEF CatInv, master, table, passwords
<1>6. CASE \E c \in setting.calls : ReadFails(c)
  <2>1. PICK c \in setting.calls : ReadFails(c)
    BY <1>6
  <2>2. CallOK(calls[c], InUse) /\ calls[c].phase = "asking"
    BY <1>3, <2>1 DEF ReadFails
  <2> DEFINE call == [calls[c] EXCEPT !.phase = "ending"]
  <2>3. calls' = [calls EXCEPT ![c] = call]
    BY <2>1 DEF ReadFails
  <2>4. CallOK(call, InUse)
    BY <2>2 DEF CallOK, Phases
  <2> HIDE DEF call
  <2>5. CallsOK(calls', InUse)
    BY <1>4, <2>3, <2>4
  <2>6. UNCHANGED <<table, jobs>>
    BY <2>1 DEF ReadFails
  <2> QED
    BY <1>1, <1>2, <2>5, <2>6 DEF CatInv, master, table, passwords
<1>7. CASE \E c \in setting.calls : Sync(c)
  <2>1. PICK c \in setting.calls : Sync(c)
    BY <1>7
  <2>2. CallOK(calls[c], InUse) /\ calls[c].phase = "read"
    BY <1>3, <2>1 DEF Sync
  <2> DEFINE merged == syncRegisteredHosts(rows, nextId, calls[c].hosts)
             old == {h \in Range(calls[c].hosts) : h.old}
             call == Considering(calls[c], old)
  <2>3. rows' = merged.rows /\ nextId' = merged.nextId /\ jobs' = jobs
    BY <2>1 DEF Sync
  <2>4. calls' = [calls EXCEPT ![c] = call]
    BY <2>1 DEF Sync
  <2> HIDE DEF old
  <2>5. CallOK(call, InUse)
    BY <2>2, ConsideringOK
  <2> HIDE DEF call
  <2>6. CallsOK(calls', InUse)
    BY <1>4, <2>4, <2>5
  <2>7. HostsOK(calls[c].hosts, InUse)
    BY <2>2 DEF CallOK
  <2>8. TableOK(merged.rows, merged.nextId, InUse)
    BY <2>7, SyncKeepsRows DEF CatInv
  <2> HIDE DEF merged
  <2> QED
    BY <1>1, <1>2, <2>3, <2>6, <2>8 DEF CatInv, master, passwords
<1>8. CASE \E c \in setting.calls : StartUpgrade(c)
  <2>1. PICK c \in setting.calls : StartUpgrade(c)
    BY <1>8
  <2>2. CallOK(calls[c], InUse) /\ calls[c].phase = "ending"
    BY <1>3, <2>1 DEF StartUpgrade
  <2>3. calls[c].slave \in InUse
    BY <2>2 DEF CallOK
  <2>4. CallsOK(calls', InUse)
    BY <1>4, <2>1, IdleOK DEF StartUpgrade
  <2>5. jobs' = runHostAgentDeployment(jobs, calls[c].host, calls[c].slave, TRUE, FALSE)
        /\ UNCHANGED table
    BY <2>1 DEF StartUpgrade
  <2>6. JobsOK(jobs', InUse)
    BY <2>3, <2>5, DeployKeeps DEF CatInv
  <2> QED
    BY <1>1, <1>2, <2>4, <2>5, <2>6 DEF CatInv, master, table, passwords
<1>9. CASE \E c \in setting.calls, i \in DOMAIN rows : BeginUpgrade(c, i)
  <2>1. PICK c \in setting.calls, i \in DOMAIN rows : BeginUpgrade(c, i)
    BY <1>9
  <2> DEFINE s == rows[i].agentUuid
             call == [Idle EXCEPT !.op = "upgrade", !.phase = "asking", !.host = i, !.slave = s]
  <2>2. calls' = [calls EXCEPT ![c] = call] /\ UNCHANGED <<table, jobs>>
    BY <2>1 DEF BeginUpgrade
  <2>3. s \in InUse
    BY DEF CatInv, TableOK
  <2> HIDE DEF s
  <2>4. CallOK(call, InUse)
    BY <2>3, IdleOK DEF CallOK, Idle, Ops0, Phases
  <2> HIDE DEF call
  <2>5. CallsOK(calls', InUse)
    BY <1>4, <2>2, <2>4
  <2> QED
    BY <1>1, <1>2, <2>2, <2>5 DEF CatInv, master, table, passwords
<1>10. CASE \E c \in setting.calls : \E host \in calls[c].todo : considerRuntimeHost(c, host)
  <2>1. PICK c \in setting.calls : \E host \in calls[c].todo : considerRuntimeHost(c, host)
    BY <1>10
  <2>2. PICK host \in calls[c].todo : considerRuntimeHost(c, host)
    BY <2>1
  <2> DEFINE i == findHostByRuntimeIdentity(rows, host)
             left == calls[c].todo \ {host}
             call == Considering(calls[c], left)
  <2>3. CallOK(calls[c], InUse) /\ calls[c].phase = "considering"
    BY <1>3, <2>2 DEF considerRuntimeHost
  <2>4. calls' = [calls EXCEPT ![c] = call] /\ UNCHANGED table
    BY <2>2 DEF considerRuntimeHost
  <2>5. CallOK(call, InUse)
    <3> HIDE DEF left
    <3> QED
      BY <2>3, ConsideringOK
  <2> HIDE DEF call
  <2>6. CallsOK(calls', InUse)
    BY <1>4, <2>4, <2>5
  <2>7. i = NoRow \/ i \in DOMAIN rows
    <3> DEFINE ids == {k \in DOMAIN rows : rows[k].ip = host.ip}
    <3>1. ids \in SUBSET Nat /\ ids \subseteq DOMAIN rows
      BY DEF CatInv, TableOK
    <3>2. FirstOf(ids) = NoRow \/ FirstOf(ids) \in DOMAIN rows
      <4> HIDE DEF ids
      <4> QED
        BY <3>1, FirstIn
    <3> DEFINE n == <<host.name, "", 0>>
    <3>3. RowOfSlave(rows, host.slave) = NoRow \/ RowOfSlave(rows, host.slave) \in DOMAIN rows
      BY SlaveRow DEF CatInv
    <3>4. RowNamed(rows, n) = NoRow \/ RowNamed(rows, n) \in DOMAIN rows
      BY NamedRow DEF CatInv
    <3>5. i = RowOfSlave(rows, host.slave) \/ i = FirstOf(ids) \/ i = RowNamed(rows, n)
      BY DEF findHostByRuntimeIdentity
    <3> HIDE DEF i, ids, n
    <3> QED
      BY <3>2, <3>3, <3>4, <3>5
  <2>8. JobsOK(jobs', InUse)
    <3>1. CASE i # NoRow /\ MayUpgrade(i)
      <4> DEFINE s == rows[i].agentUuid
      <4>1. s \in InUse
        BY <2>7, <3>1 DEF CatInv, TableOK
      <4>2. jobs' = runHostAgentDeployment(jobs, i, s, FALSE, TRUE)
        BY <2>2, <3>1 DEF considerRuntimeHost
      <4> HIDE DEF s, i
      <4> QED
        BY <4>1, <4>2, DeployKeeps DEF CatInv
    <3>2. CASE ~(i # NoRow /\ MayUpgrade(i))
      BY <2>2, <3>2 DEF considerRuntimeHost, CatInv
    <3> QED
      BY <3>1, <3>2
  <2> QED
    BY <1>1, <1>2, <2>4, <2>6, <2>8 DEF CatInv, master, table, passwords
<1>11. CASE \E i \in attempted : CooledDown(i)
  <2>1. UNCHANGED <<table, calls, jobs>>
    BY <1>11 DEF CooledDown
  <2> QED
    BY <1>1, <1>2, <2>1 DEF CatInv, master, table, passwords
<1> QED
  BY <1>5, <1>6, <1>7, <1>8, <1>9, <1>10, <1>11

LEMMA DeleteCat ==
    ASSUME CatInv, NEW i, DeleteHost(i)
    PROVE  CatInv'
<1>1. UNCHANGED <<setting, master, minted, nextId, calls, jobs, passwords>>
      /\ rows' = [k \in DOMAIN rows \ {i} |-> rows[k]]
  BY DEF DeleteHost, CallUnchanged
<1>2. InUse' = InUse
  BY <1>1, SameUse
<1>3. TableOK(rows', nextId', InUse)
  BY <1>1 DEF CatInv, TableOK
<1> QED
  BY <1>1, <1>2, <1>3 DEF CatInv, master, passwords

LEMMA AddCat ==
    ASSUME CatInv, NEW ip \in Ips, NEW s \in Slaves, AddHost(ip, s)
    PROVE  CatInv'
<1> DEFINE known == {i \in DOMAIN rows : rows[i].source = "manual" /\ rows[i].ip = ip}
<1>1. UNCHANGED <<setting, master, calls, passwords>>
  BY DEF AddHost, CallUnchanged
<1>2. CASE known # {}
  <2>1. /\ s = rows[FirstOf(known)].agentUuid
        /\ jobs' = runHostAgentDeployment(jobs, FirstOf(known), s, TRUE, FALSE)
        /\ UNCHANGED table
    BY <1>2 DEF AddHost
  <2>2. InUse' = InUse
    BY <1>1, <2>1, SameUse DEF table
  <2>3. known \in SUBSET Nat /\ known \subseteq DOMAIN rows
    BY DEF CatInv, TableOK
  <2> HIDE DEF known
  <2>4. FirstOf(known) \in DOMAIN rows
    BY <1>2, <2>3, FirstIn
  <2>5. s \in InUse
    BY <2>1, <2>4 DEF CatInv, TableOK
  <2>6. JobsOK(jobs', InUse)
    BY <2>1, <2>5, DeployKeeps DEF CatInv
  <2> QED
    BY <1>1, <2>1, <2>2, <2>6 DEF CatInv, master, table, passwords
<1>3. CASE known = {}
  <2> DEFINE name == resolveManualHostName(rows, ip)
             row == [agentUuid |-> s, ip |-> ip, source |-> "manual", name |-> name]
             more == InUse \union {s}
  <2>1. /\ s \in Slaves \ InUse /\ minted' = minted \union {s}
        /\ rows' = [i \in DOMAIN rows \union {nextId} |-> IF i = nextId THEN row ELSE rows[i]]
        /\ nextId' = nextId + 1
        /\ jobs' = runHostAgentDeployment(jobs, nextId, s, TRUE, FALSE)
    BY <1>3 DEF AddHost
  <2>2. InUse' = more
    BY <1>1, <2>1 DEF InUse
  <2>3. TableOK(rows', nextId', more)
    <3>1. \A i \in DOMAIN rows : rows[i].name # name
      BY ManualNameIsFree DEF CatInv
    <3> HIDE DEF name
    <3>2. row \in [agentUuid : more, ip : Ips, source : {"runtime", "manual"}, name : {row.name}]
          /\ row.agentUuid = s /\ row.name = name
      OBVIOUS
    <3> HIDE DEF row
    <3>3. /\ nextId \in Nat \ {0} /\ DOMAIN rows \subseteq 1 .. nextId - 1
          /\ \A i \in DOMAIN rows : rows[i] \in [agentUuid : InUse, ip : Ips,
                                      source : {"runtime", "manual"}, name : {rows[i].name}]
          /\ \A i, k \in DOMAIN rows : i # k =>
                rows[i].name # rows[k].name /\ rows[i].agentUuid # rows[k].agentUuid
      BY DEF CatInv, TableOK
    <3>4. /\ DOMAIN rows' = DOMAIN rows \union {nextId} /\ rows' = [i \in DOMAIN rows' |-> rows'[i]]
          /\ rows'[nextId] = row /\ \A i \in DOMAIN rows : i # nextId /\ rows'[i] = rows[i]
      BY <2>1, <3>3
    <3>5. nextId' \in Nat \ {0} /\ DOMAIN rows' \subseteq 1 .. nextId' - 1
      BY <2>1, <3>3, <3>4
    <3>6. \A i \in DOMAIN rows : rows[i].agentUuid \in InUse /\ rows[i].agentUuid # s
      BY <2>1, <3>3
    <3>7. \A i \in DOMAIN rows' : rows'[i] \in [agentUuid : more, ip : Ips,
                                      source : {"runtime", "manual"}, name : {rows'[i].name}]
      BY <3>2, <3>3, <3>4
    <3>8. \A i, k \in DOMAIN rows' : i # k =>
             rows'[i].name # rows'[k].name /\ rows'[i].agentUuid # rows'[k].agentUuid
      BY <3>1, <3>2, <3>3, <3>4, <3>6
    <3> QED
      BY <3>4, <3>5, <3>7, <3>8 DEF TableOK
  <2>4. JobsOK(jobs', more)
    <3>1. JobsOK(jobs, more)
      BY FewerJobs DEF CatInv
    <3>2. s \in more
      OBVIOUS
    <3> HIDE DEF more
    <3> QED
      BY <2>1, <3>1, <3>2, DeployKeeps
  <2>5. CallsOK(calls, more)
    BY CallsMore DEF CatInv
  <2>6. RegistryOK(registry, more) /\ installed \subseteq more
    BY DEF CatInv, RegistryOK
  <2> HIDE DEF more
  <2> QED
    BY <1>1, <2>2, <2>3, <2>4, <2>5, <2>6 DEF CatInv, master, passwords
<1> QED
  BY <1>2, <1>3

\* Every step of the catalog keeps the invariant.
LEMMA NextCat ==
    ASSUME CatInv, Next
    PROVE  CatInv'
<1>1. CASE Restart
  <2>1. UNCHANGED <<setting, master, table, calls, jobs, passwords>>
    BY <1>1 DEF Restart
  <2>2. InUse' = InUse
    BY <2>1, SameUse DEF table
  <2> QED
    BY <2>1, <2>2 DEF CatInv, master, table, passwords
<1>2. CASE ~Restart
  BY <1>2, MasterSteps, ScriptSteps, PasswordSteps, CallSteps, AddCat, DeleteCat DEF Next
<1> QED
  BY <1>1, <1>2

\* So does a step of which the catalog sees nothing.
LEMMA SameCat ==
    ASSUME CatInv, UNCHANGED <<setting, master, table, calls, jobs, passwords>>
    PROVE  CatInv'
<1>1. InUse' = InUse
  BY SameUse DEF table
<1> QED
  BY <1>1 DEF CatInv, master, table, passwords

-----------------------------------------------------------------------------
(* Sessions: of those of a host only the last may be active.               *)

Statuses == {"active", "closed", "lost"}

SessionSet ==
    [host : Nat, status : Statuses, shell : {"up", "dead", "reaped"}, asked : BOOLEAN, timer : BOOLEAN]

SessionsOK(ss) ==
    /\ ss \in Seq(SessionSet)
    /\ \A m, n \in DOMAIN ss : m < n /\ ss[m].host = ss[n].host => ss[m].status # "active"

\* Some numbers below a bound have a greatest.
LEMMA GreatestOf ==
    ASSUME NEW n \in Nat, NEW S \in SUBSET (1 .. n), S # {}
    PROVE  \E m \in S : \A k \in S : k <= m
<1> DEFINE Above == {u \in Nat : \A k \in S : k <= u}
<1>1. n \in Above
  OBVIOUS
<1> DEFINE u == Min(Above)
<1>2. Above \in SUBSET Nat
  OBVIOUS
<1>3. u \in Above /\ \A v \in Above : u <= v
  <2> HIDE DEF Above
  <2> QED
    BY <1>1, <1>2, LeastOf
<1> HIDE DEF u
<1>4. u \in Nat /\ u # 0
  <2>1. PICK k \in S : k \in 1 .. n
    OBVIOUS
  <2> QED
    BY <1>3, <2>1
<1>5. u - 1 \notin Above
  BY <1>3, <1>4
<1>6. u \in S
  BY <1>3, <1>4, <1>5
<1> QED
  BY <1>3, <1>6

\* A session that changes is not made active again, and stays of its host.
LEMMA SessionChanges ==
    ASSUME NEW ss, SessionsOK(ss), NEW n \in DOMAIN ss,
           NEW new \in SessionSet,
           new.host = ss[n].host, new.status = "active" => ss[n].status = "active"
    PROVE  SessionsOK([ss EXCEPT ![n] = new])
BY DEF SessionsOK

LEMMA LostOK ==
    ASSUME SessionsOK(sessions)
    PROVE  SessionsOK(Lost)
<1> DEFINE L(n) == [sessions[n] EXCEPT !.status = "lost", !.timer = FALSE]
<1>1. Lost = [n \in DOMAIN sessions |-> L(n)]
  BY DEF Lost
<1>2. \A n \in DOMAIN sessions :
        /\ L(n) \in SessionSet
        /\ L(n).status = "lost"
  <2>1. \A n \in DOMAIN sessions : sessions[n] \in SessionSet
    BY DEF SessionsOK
  <2> QED
    BY <2>1 DEF SessionSet, Statuses
<1> HIDE DEF L
<1>3. Lost \in Seq(SessionSet)
  BY <1>1, <1>2 DEF SessionsOK
<1> QED
  BY <1>1, <1>2, <1>3 DEF SessionsOK

\* A session is started only when no other of its host is active.
LEMMA StartOK ==
    ASSUME SessionsOK(sessions), NEW h \in Nat
    PROVE  SessionsOK(startSession(h))
<1>1. CASE Reuses(h)
  BY <1>1 DEF startSession
<1>2. CASE ~Reuses(h)
  <2> DEFINE its == {n \in DOMAIN sessions : sessions[n].host = h /\ sessions[n].status # "lost"}
             new == NewSession(h)
             next == Append(sessions, new)
  <2>1. startSession(h) = next
    BY <1>2 DEF startSession
  <2>2. new \in SessionSet /\ new.host = h /\ new.status = "active"
    BY DEF NewSession, SessionSet, Statuses
  <2> HIDE DEF new
  <2>3. sessions \in Seq(SessionSet)
    BY DEF SessionsOK
  <2>4. \A n \in DOMAIN sessions : sessions[n].host = h => sessions[n].status # "active"
    <3> SUFFICES ASSUME NEW n \in DOMAIN sessions, sessions[n].host = h, sessions[n].status = "active"
                 PROVE  FALSE
      OBVIOUS
    <3>1. n \in its /\ its \in SUBSET (1 .. Len(sessions)) /\ Len(sessions) \in Nat
      BY <2>3
    <3>2. SessionOf(h) = CHOOSE m \in its : \A k \in its : k <= m
      BY <3>1 DEF SessionOf
    <3> HIDE DEF its
    <3>3. \E m \in its : \A k \in its : k <= m
      BY <3>1, GreatestOf
    <3>4. SessionOf(h) \in its /\ n <= SessionOf(h)
      BY <3>1, <3>2, <3>3
    <3>5. SessionOf(h) \in DOMAIN sessions /\ SessionOf(h) # 0 /\ sessions[SessionOf(h)].host = h
      BY <2>3, <3>1, <3>4 DEF its
    <3>6. sessions[SessionOf(h)].status # "active"
      BY <1>2, <3>5 DEF Reuses
    <3>7. n < SessionOf(h)
      BY <2>3, <3>1, <3>4, <3>5, <3>6
    <3> QED
      BY <3>5, <3>7 DEF SessionsOK
  <2> HIDE DEF its
  <2>5. next \in Seq(SessionSet) /\ DOMAIN next = DOMAIN sessions \union {Len(sessions) + 1}
        /\ next[Len(sessions) + 1] = new /\ \A n \in DOMAIN sessions : next[n] = sessions[n]
    BY <2>2, <2>3
  <2>6. \A m \in DOMAIN next : m \in Nat /\ m <= Len(sessions) + 1
    BY <2>3, <2>5
  <2> HIDE DEF next
  <2>7. \A m, n \in DOMAIN next : m < n /\ next[m].host = next[n].host => next[m].status # "active"
    <3> SUFFICES ASSUME NEW m \in DOMAIN next, NEW n \in DOMAIN next, m < n,
                        next[m].host = next[n].host
                 PROVE  next[m].status # "active"
      OBVIOUS
    <3>1. m \in DOMAIN sessions /\ next[m] = sessions[m]
      BY <2>3, <2>5, <2>6
    <3>2. CASE n = Len(sessions) + 1
      BY <2>2, <2>4, <2>5, <3>1, <3>2
    <3>3. CASE n # Len(sessions) + 1
      BY <2>5, <3>1, <3>3 DEF SessionsOK
    <3> QED
      BY <3>2, <3>3
  <2> QED
    BY <2>1, <2>5, <2>7 DEF SessionsOK
<1> QED
  BY <1>1, <1>2

\* A write to a session leaves it, or ends the server with all sessions.
LEMMA WriteOK ==
    ASSUME CatInv, SessionsOK(sessions), NEW n, NEW written, SessionsOK(written), Write(n, written)
    PROVE  CatInv' /\ SessionsOK(sessions')
<1>1. CASE sessions' = written /\ UNCHANGED ofTerminals
  BY <1>1, SameCat DEF ofTerminals
<1>2. CASE Crash /\ sessions' = Lost /\ UNCHANGED <<setting, master, table, prompts, accepted>>
  BY <1>2, CrashCat, LostOK
<1> QED
  BY <1>1, <1>2 DEF Write

LEMMA TerminalSteps ==
    ASSUME CatInv, SessionsOK(sessions), TerminalStep
    PROVE  CatInv' /\ SessionsOK(sessions')
<1>1. PICK n \in DOMAIN sessions :
        ShellDies(n) \/ Reap(n) \/ CloseArrives(n) \/ closeSessionById(n) \/ KillAfterDelay(n)
  BY DEF TerminalStep
<1> DEFINE s == sessions[n]
<1>2. s \in SessionSet
  BY DEF SessionsOK
<1>3. ASSUME NEW new \in SessionSet, new.host = s.host, new.status = "active" => s.status = "active",
             sessions' = [sessions EXCEPT ![n] = new], UNCHANGED ofTerminals
      PROVE  CatInv' /\ SessionsOK(sessions')
  BY <1>3, SameCat, SessionChanges DEF ofTerminals
<1>4. CASE ShellDies(n)
  <2> DEFINE new == [s EXCEPT !.shell = "dead"]
  <2>1. new \in SessionSet /\ new.host = s.host /\ new.status = s.status
    BY <1>2 DEF SessionSet
  <2>2. sessions' = [sessions EXCEPT ![n] = new] /\ UNCHANGED ofTerminals
    BY <1>4 DEF ShellDies
  <2> HIDE DEF new, s
  <2> QED
    BY <1>3, <2>1, <2>2
<1>5. CASE Reap(n)
  <2> DEFINE new == [s EXCEPT !.shell = "reaped"]
  <2>1. new \in SessionSet /\ new.host = s.host /\ new.status = s.status
    BY <1>2 DEF SessionSet
  <2>2. sessions' = [sessions EXCEPT ![n] = new] /\ UNCHANGED ofTerminals
    BY <1>5 DEF Reap
  <2> HIDE DEF new, s
  <2> QED
    BY <1>3, <2>1, <2>2
<1>6. CASE CloseArrives(n)
  <2> DEFINE new == [s EXCEPT !.status = "closed", !.timer = FALSE]
  <2>1. new \in SessionSet /\ new.host = s.host /\ new.status # "active"
    BY <1>2 DEF SessionSet, Statuses
  <2>2. sessions' = [sessions EXCEPT ![n] = new] /\ UNCHANGED ofTerminals
    BY <1>2, <1>6 DEF CloseArrives, SessionSet
  <2> HIDE DEF new, s
  <2> QED
    BY <1>3, <2>1, <2>2
<1>7. CASE KillAfterDelay(n)
  <2> DEFINE new == [s EXCEPT !.timer = FALSE, !.shell = IF s.shell = "up" THEN "dead" ELSE s.shell]
  <2>1. new \in SessionSet /\ new.host = s.host /\ new.status = s.status
    BY <1>2 DEF SessionSet
  <2>2. sessions' = [sessions EXCEPT ![n] = new] /\ UNCHANGED ofTerminals
    BY <1>2, <1>7 DEF KillAfterDelay, SessionSet
  <2> HIDE DEF new, s
  <2> QED
    BY <1>3, <2>1, <2>2
<1>8. CASE closeSessionById(n)
  <2> DEFINE new == [s EXCEPT !.asked = TRUE, !.timer = KillTimer]
             written == [sessions EXCEPT ![n] = new]
  <2>1. new \in SessionSet /\ new.host = s.host /\ new.status = s.status
    BY <1>2 DEF KillTimer, SessionSet
  <2>2. \/ Write(n, written)
        \/ sessions' = written /\ UNCHANGED ofTerminals
    BY <1>2, <1>8 DEF closeSessionById, SessionSet
  <2> HIDE DEF new
  <2>3. SessionsOK(written)
    BY <2>1, SessionChanges
  <2> HIDE DEF written
  <2> QED
    BY <2>2, <2>3, WriteOK, SameCat DEF ofTerminals
<1> QED
  BY <1>1, <1>4, <1>5, <1>6, <1>7, <1>8

LEMMA CatalogSteps ==
    ASSUME CatInv, SessionsOK(sessions), CatalogStep
    PROVE  CatInv' /\ SessionsOK(sessions')
BY NextCat, LostOK DEF CatalogStep

LEMMA InputSteps ==
    ASSUME CatInv, SessionsOK(sessions), NEW n, sendInput(n)
    PROVE  CatInv' /\ SessionsOK(sessions')
BY WriteOK DEF sendInput

-----------------------------------------------------------------------------
(* The page: its flags and its operations.                                 *)

PageShape(p) ==
    /\ p \in [listed : {p.listed}, entry : {p.entry}, flags : {p.flags}, panel : {p.panel},
              due : {p.due}, error : {p.error}, crossed : {p.crossed}]
    /\ 0 \notin p.listed
    /\ DOMAIN p.flags = Flags /\ p.flags = [f \in DOMAIN p.flags |-> p.flags[f]]

\* Operations that raise a flag have a host.
OpShape(op) ==
    /\ op \in [kind : {op.kind}, host : {op.host}, pc : {op.pc}, entry : {op.entry},
               flag : {op.flag}, got : {op.got}, list : {op.list}]
    /\ op.kind \in Flags => op.host # 0
    /\ 0 \notin op.list

OpsOK(os) ==
    /\ DOMAIN os = Slots /\ os = [s \in DOMAIN os |-> os[s]]
    /\ \A s \in Slots : OpShape(os[s])

\* As long as no operations of two hosts have overlapped, a flag is that of an
\* operation under way, and an operation holds no flag but its own host's.
FlagsOK(p, os) ==
    ~p.crossed =>
       /\ \A f \in Flags : \A h \in p.flags[f] : \E s \in Slots : os[s].kind = f /\ os[s].host = h
       /\ \A s \in Slots : os[s].flag \subseteq {os[s].host}

PageInv == PageShape(page) /\ OpsOK(ops) /\ FlagsOK(page, ops)

LEMMA InitPage ==
    ASSUME PageInit
    PROVE  PageInv
<1>1. page = FirstPage /\ ops = [s \in Slots |-> NoOp]
  BY DEF PageInit
<1>2. PageShape(page)
  <2> DEFINE none == [f \in Flags |-> {}]
             maps == [h \in HostIds |-> Missing]
             first == 1 .. setting.kept
  <2>1. page = [listed |-> first, entry |-> maps, flags |-> none, panel |-> 0, due |-> FALSE,
                error |-> FALSE, crossed |-> FALSE]
    BY <1>1 DEF FirstPage
  <2>2. DOMAIN none = Flags /\ none = [f \in DOMAIN none |-> none[f]] /\ 0 \notin first
    OBVIOUS
  <2> HIDE DEF none, maps, first
  <2> QED
    BY <2>1, <2>2 DEF PageShape
<1>3. OpsOK(ops)
  BY <1>1 DEF OpsOK, OpShape, NoOp, Flags
<1>4. FlagsOK(page, ops)
  BY <1>1 DEF FlagsOK, FirstPage, NoOp
<1> QED
  BY <1>2, <1>3, <1>4 DEF PageInv

\* An operation begins: if another of a second host is under way, they overlap.
LEMMA BeginPage ==
    ASSUME PageInv, NEW s \in Slots, NEW kind, NEW h, NEW due, kind \in Flags => h # 0,
           Begin(s, kind, h, due)
    PROVE  PageInv'
<1> DEFINE entry == IF kind \in {"load", "start"} THEN page.entry ELSE <<>>
           flag == IF kind \in Flags THEN page.flags[kind] ELSE {}
           got == IF kind = "send" THEN page.entry[h].id ELSE 0
           op == [kind |-> kind, host |-> h, pc |-> "sent", entry |-> entry, flag |-> flag,
                  got |-> got, list |-> {}]
           flags == [f \in Flags |-> IF f = kind THEN page.flags[f] \union {h} ELSE page.flags[f]]
           error == IF kind \in Flags THEN FALSE ELSE page.error
           soon == due \/ kind = "start"
           crossed == page.crossed \/ \E t \in Slots : ops[t].host \notin {0, h}
<1>1. ops' = [ops EXCEPT ![s] = op] /\ ops[s].kind = "none"
  BY DEF Begin, Free
<1>2. PageShape(page) /\ OpsOK(ops) /\ FlagsOK(page, ops)
  BY DEF PageInv
<1>3. page' = [page EXCEPT !.flags = flags, !.error = error, !.due = soon, !.crossed = crossed]
  BY DEF Begin
<1>4. /\ DOMAIN flags = Flags /\ flags = [f \in DOMAIN flags |-> flags[f]]
      /\ \A f \in Flags : flags[f] \subseteq page.flags[f] \union {h}
      /\ \A f \in Flags : f # kind => flags[f] = page.flags[f]
  BY <1>2 DEF PageShape
<1>5. OpShape(op) /\ op.kind = kind /\ op.host = h /\ op.flag = flag
  <2> HIDE DEF entry, flag, got
  <2> QED
    BY DEF OpShape
<1> HIDE DEF entry, got, error, soon, op, flags
<1>6. OpsOK(ops')
  BY <1>1, <1>2, <1>5 DEF OpsOK
<1>7. page'.flags = flags /\ page'.crossed = crossed /\ PageShape(page')
  BY <1>2, <1>3, <1>4 DEF PageShape
<1>8. ops'[s] = op /\ \A t \in Slots : t # s => ops'[t] = ops[t]
  BY <1>1, <1>2 DEF OpsOK
<1>9. FlagsOK(page', ops')
  <2> SUFFICES ASSUME ~crossed
               PROVE  /\ \A f \in Flags : \A g \in flags[f] :
                            \E t \in Slots : ops'[t].kind = f /\ ops'[t].host = g
                      /\ \A t \in Slots : ops'[t].flag \subseteq {ops'[t].host}
    BY <1>7 DEF FlagsOK
  <2>1. ~page.crossed /\ \A t \in Slots : ops[t].host \in {0, h}
    OBVIOUS
  <2>2. \A f \in Flags : \A g \in page.flags[f] : \E t \in Slots : ops[t].kind = f /\ ops[t].host = g
    BY <1>2, <2>1 DEF FlagsOK
  <2>3. "none" \notin Flags
    BY DEF Flags
  <2>4. \A f \in Flags : \A g \in page.flags[f] :
           g = h /\ \E t \in Slots : t # s /\ ops[t].kind = f /\ ops[t].host = g
    <3> SUFFICES ASSUME NEW f \in Flags, NEW g \in page.flags[f]
                 PROVE  g = h /\ \E t \in Slots : t # s /\ ops[t].kind = f /\ ops[t].host = g
      OBVIOUS
    <3>1. PICK t \in Slots : ops[t].kind = f /\ ops[t].host = g
      BY <2>2
    <3>2. g # 0
      BY <1>2, <3>1 DEF OpsOK, OpShape
    <3> QED
      BY <1>1, <2>1, <2>3, <3>1, <3>2
  <2> HIDE DEF crossed
  <2>5. \A f \in Flags : \A g \in flags[f] : \E t \in Slots : ops'[t].kind = f /\ ops'[t].host = g
    <3> SUFFICES ASSUME NEW f \in Flags, NEW g \in flags[f]
                 PROVE  \E t \in Slots : ops'[t].kind = f /\ ops'[t].host = g
      OBVIOUS
    <3>1. CASE g \in page.flags[f]
      <4>1. PICK t \in Slots : t # s /\ ops[t].kind = f /\ ops[t].host = g
        BY <2>4, <3>1
      <4> QED
        BY <1>8, <4>1
    <3>2. CASE g \notin page.flags[f]
      <4>1. g = h /\ f = kind
        BY <1>4, <3>2
      <4> QED
        BY <1>5, <1>8, <4>1
    <3> QED
      BY <3>1, <3>2
  <2>6. \A t \in Slots : ops'[t].flag \subseteq {ops'[t].host}
    <3>1. flag \subseteq {h}
      BY <2>4
    <3>2. \A t \in Slots : t # s => ops'[t].flag \subseteq {ops'[t].host}
      BY <1>2, <1>8, <2>1 DEF FlagsOK
    <3> QED
      BY <1>5, <1>8, <3>1, <3>2
  <2> QED
    BY <2>5, <2>6
<1> QED
  BY <1>6, <1>7, <1>9 DEF PageInv

\* An operation goes on: it is of its kind and host, and holds the flags it held.
LEMMA BecomesPage ==
    ASSUME PageInv, NEW s \in Slots, NEW next, Becomes(s, next), OpShape(next),
           next.kind = ops[s].kind, next.host = ops[s].host, next.flag = ops[s].flag
    PROVE  PageInv'
<1>1. ops' = [ops EXCEPT ![s] = next] /\ page' = page
  BY DEF Becomes
<1>2. PageShape(page) /\ OpsOK(ops) /\ FlagsOK(page, ops)
  BY DEF PageInv
<1>3. ops'[s] = next /\ \A t \in Slots : t # s => ops'[t] = ops[t]
  BY <1>1, <1>2 DEF OpsOK
<1>4. OpsOK(ops')
  BY <1>1, <1>2 DEF OpsOK
<1>5. \A t \in Slots : /\ ops'[t].kind = ops[t].kind /\ ops'[t].host = ops[t].host
                      /\ ops'[t].flag = ops[t].flag
  BY <1>3
<1>6. FlagsOK(page', ops')
  BY <1>1, <1>2, <1>5 DEF FlagsOK
<1> QED
  BY <1>1, <1>2, <1>4, <1>6 DEF PageInv

\* An operation ends: its flag falls.
LEMMA ReceivePage ==
    ASSUME PageInv, NEW s \in Slots, Receive(s)
    PROVE  PageInv'
<1> DEFINE op == ops[s]
           listed == op.kind \in {"hosts", "work", "delete"} /\ op.pc = "answered"
           base == IF listed THEN [f \in Flags |-> {}] ELSE page.flags
           rowsShown == IF listed THEN op.list ELSE page.listed
           panel == IF listed /\ page.panel \notin op.list THEN 0 ELSE page.panel
           entry == CASE listed -> [h \in HostIds |-> Missing]
                      [] op.pc = "answered" /\ op.kind \in {"load", "start"} -> EntriesAfter(op)
                      [] OTHER -> page.entry
           flags == IF op.kind \in Flags THEN [base EXCEPT ![op.kind] = FlagAfter(op)] ELSE base
           error == page.error \/ op.pc = "failed"
           due == page.due \/ op.pc = "answered" \/ op.kind = "start"
<1>1. PageShape(page) /\ OpsOK(ops) /\ FlagsOK(page, ops)
  BY DEF PageInv
<1>2. ops' = [ops EXCEPT ![s] = NoOp]
  BY DEF Receive
<1>3. page' = [page EXCEPT !.listed = rowsShown, !.panel = panel, !.entry = entry, !.flags = flags,
                           !.error = error, !.due = due]
  BY <1>1 DEF Receive, PageShape
<1>4. 0 \notin rowsShown
  BY <1>1 DEF PageShape, OpsOK, OpShape
<1>5. /\ DOMAIN base = Flags /\ base = [f \in DOMAIN base |-> base[f]]
      /\ \A f \in Flags : base[f] \subseteq page.flags[f]
  BY <1>1 DEF PageShape
<1> HIDE DEF base
<1>6. /\ DOMAIN flags = Flags /\ flags = [f \in DOMAIN flags |-> flags[f]]
      /\ \A f \in Flags : f # op.kind => flags[f] \subseteq page.flags[f]
      /\ \A f \in Flags : f = op.kind => flags[f] = op.flag \ {op.host}
  BY <1>5 DEF FlagAfter
<1> HIDE DEF rowsShown, panel, entry, flags, error, due
<1>7. page'.flags = flags /\ page'.crossed = page.crossed /\ PageShape(page')
  BY <1>1, <1>3, <1>4, <1>6 DEF PageShape
<1>8. ops'[s] = NoOp /\ \A t \in Slots : t # s => ops'[t] = ops[t]
  BY <1>1, <1>2 DEF OpsOK
<1>9. OpShape(NoOp) /\ NoOp.flag = {}
  BY DEF OpShape, NoOp, Flags
<1>10. OpsOK(ops')
  BY <1>1, <1>2, <1>9 DEF OpsOK
<1>11. FlagsOK(page', ops')
  <2> SUFFICES ASSUME ~page.crossed
               PROVE  /\ \A f \in Flags : \A g \in flags[f] :
                            \E t \in Slots : ops'[t].kind = f /\ ops'[t].host = g
                      /\ \A t \in Slots : ops'[t].flag \subseteq {ops'[t].host}
    BY <1>7 DEF FlagsOK
  <2>1. /\ \A f \in Flags : \A g \in page.flags[f] : \E t \in Slots : ops[t].kind = f /\ ops[t].host = g
        /\ \A t \in Slots : ops[t].flag \subseteq {ops[t].host}
    BY <1>1 DEF FlagsOK
  <2>2. \A t \in Slots : ops'[t].flag \subseteq {ops'[t].host}
    BY <1>8, <1>9, <2>1
  <2>3. ASSUME NEW f \in Flags, NEW g \in flags[f]
        PROVE  \E t \in Slots : ops'[t].kind = f /\ ops'[t].host = g
    <3>1. f # op.kind
      BY <1>6, <2>1, <2>3
    <3>2. PICK t \in Slots : ops[t].kind = f /\ ops[t].host = g
      BY <1>6, <2>1, <2>3, <3>1
    <3>3. t # s
      BY <3>1, <3>2
    <3> QED
      BY <1>8, <3>2, <3>3
  <2> QED
    BY <2>2, <2>3
<1> QED
  BY <1>7, <1>10, <1>11 DEF PageInv

\* The panel changes.
LEMMA PanelPage ==
    ASSUME PageInv, NEW panel, NEW due, UNCHANGED ops,
           page' = [page EXCEPT !.panel = panel, !.due = due]
    PROVE  PageInv'
<1>1. page'.flags = page.flags /\ page'.crossed = page.crossed /\ PageShape(page')
  BY DEF PageInv, PageShape
<1> QED
  BY <1>1 DEF PageInv, FlagsOK

LEMMA SamePage ==
    ASSUME PageInv, UNCHANGED <<page, ops>>
    PROVE  PageInv'
BY DEF PageInv

-----------------------------------------------------------------------------
(* The hosts, the terminals and the page together.                         *)

HostsInv == CatInv /\ SessionsOK(sessions) /\ PageInv

LEMMA InitHosts ==
    ASSUME PageInit
    PROVE  HostsInv
<1>1. SessionsOK(sessions)
  BY DEF PageInit, SessionsOK
<1> QED
  BY <1>1, InitCat, InitPage DEF PageInit, HostsInv

LEMMA SameServer ==
    ASSUME CatInv, SessionsOK(sessions), ServerSame
    PROVE  CatInv' /\ SessionsOK(sessions')
BY SameCat DEF ServerSame, vars

\* The server carries out the request of an operation.
LEMMA HandleHosts ==
    ASSUME HostsInv, NEW s \in Slots, Handle(s)
    PROVE  HostsInv'
<1> DEFINE op == ops[s]
           answered == [op EXCEPT !.pc = "answered"]
           withList == [answered EXCEPT !.list = DOMAIN rows]
           withLast == [answered EXCEPT !.got = SessionOf(op.host)]
           withNew == [answered EXCEPT !.got = Started(op.host)]
           listing == [op EXCEPT !.pc = "list"]
           Follows(n) == /\ OpShape(n)
                         /\ n.kind = op.kind /\ n.host = op.host /\ n.flag = op.flag
<1>1. CatInv /\ SessionsOK(sessions) /\ PageInv
  BY DEF HostsInv
<1>2. OpShape(op)
  BY <1>1 DEF PageInv, OpsOK
<1>3. 0 \notin DOMAIN rows
  BY <1>1 DEF CatInv, TableOK
<1>4. Follows(answered) /\ Follows(listing)
  BY <1>2 DEF OpShape
<1>5. Follows(withList)
  <2> DEFINE ids == DOMAIN rows
  <2>1. 0 \notin ids
    BY <1>3
  <2> HIDE DEF ids
  <2> QED
    BY <1>2, <2>1 DEF OpShape, ids
<1>6. Follows(withLast) /\ Follows(withNew)
  <2> DEFINE a == SessionOf(op.host)
             b == Started(op.host)
  <2> HIDE DEF a, b
  <2> QED
    BY <1>2 DEF OpShape, a, b
<1>7. ASSUME NEW n, Follows(n), Becomes(s, n)
      PROVE  PageInv'
  BY <1>1, <1>7, BecomesPage
<1> HIDE DEF answered, withList, withLast, withNew, listing, Follows
<1>8. \/ Becomes(s, withList) /\ ServerSame
      \/ Becomes(s, withLast) /\ ServerSame
      \/ /\ op.host \in DOMAIN rows /\ sessions' = startSession(op.host)
         /\ Becomes(s, withNew) /\ UNCHANGED vars
      \/ sendInput(op.got) /\ Becomes(s, answered)
      \/ Becomes(s, listing) /\ ServerSame
      \/ DeleteHost(op.host) /\ Becomes(s, listing) /\ UNCHANGED sessions
  BY DEF Handle, answered, withList, withLast, withNew, listing
<1> HIDE DEF op
<1>9. CASE Becomes(s, withList) /\ ServerSame
  BY <1>1, <1>5, <1>7, <1>9, SameServer DEF HostsInv
<1>10. CASE Becomes(s, withLast) /\ ServerSame
  BY <1>1, <1>6, <1>7, <1>10, SameServer DEF HostsInv
<1>11. CASE /\ op.host \in DOMAIN rows /\ sessions' = startSession(op.host)
            /\ Becomes(s, withNew) /\ UNCHANGED vars
  <2>1. op.host \in Nat
    BY <1>1, <1>11 DEF CatInv, TableOK
  <2>2. SessionsOK(sessions')
    BY <1>1, <1>11, <2>1, StartOK
  <2>3. CatInv'
    BY <1>1, <1>11, SameCat DEF vars
  <2> QED
    BY <1>6, <1>7, <1>11, <2>2, <2>3 DEF HostsInv
<1>12. CASE sendInput(op.got) /\ Becomes(s, answered)
  BY <1>1, <1>4, <1>7, <1>12, InputSteps DEF HostsInv
<1>13. CASE Becomes(s, listing) /\ ServerSame
  BY <1>1, <1>4, <1>7, <1>13, SameServer DEF HostsInv
<1>14. CASE DeleteHost(op.host) /\ Becomes(s, listing) /\ UNCHANGED sessions
  BY <1>1, <1>4, <1>7, <1>14, DeleteCat DEF HostsInv
<1> QED
  BY <1>8, <1>9, <1>10, <1>11, <1>12, <1>13, <1>14

\* What a slot does.
LEMMA SlotHosts ==
    ASSUME HostsInv, NEW s \in Slots,
           \/ RunEffect(s) \/ OpStep(s)
           \/ \E kind \in setting.does \intersect UserOps, h \in HostIds \union {0} :
                 UserBegins(s, kind, h)
    PROVE  HostsInv'
<1>1. CatInv /\ SessionsOK(sessions) /\ PageInv
  BY DEF HostsInv
<1>2. CASE RunEffect(s)
  <2> DEFINE h == page.panel
  <2>1. \/ h # 0 /\ Begin(s, "load", h, FALSE)
        \/ h # 0 /\ Begin(s, "start", h, FALSE)
        \/ page' = [page EXCEPT !.due = FALSE] /\ UNCHANGED ops /\ ServerSame
    BY <1>2 DEF RunEffect
  <2> HIDE DEF h
  <2>2. CASE h # 0 /\ Begin(s, "load", h, FALSE)
    <3>1. ServerSame
      BY <2>2 DEF Begin
    <3>2. PageInv'
      BY <1>1, <2>2, BeginPage
    <3> QED
      BY <1>1, <3>1, <3>2, SameServer DEF HostsInv
  <2>3. CASE h # 0 /\ Begin(s, "start", h, FALSE)
    <3>1. ServerSame
      BY <2>3 DEF Begin
    <3>2. PageInv'
      BY <1>1, <2>3, BeginPage
    <3> QED
      BY <1>1, <3>1, <3>2, SameServer DEF HostsInv
  <2>4. CASE page' = [page EXCEPT !.due = FALSE] /\ UNCHANGED ops /\ ServerSame
    <3>1. page' = [page EXCEPT !.panel = page.panel, !.due = FALSE]
      BY <1>1, <2>4 DEF PageInv, PageShape
    <3>2. PageInv'
      BY <1>1, <2>4, <3>1, PanelPage
    <3> QED
      BY <1>1, <2>4, <3>2, SameServer DEF HostsInv
  <2> QED
    BY <2>1, <2>2, <2>3, <2>4
<1>3. CASE OpStep(s)
  <2>1. CASE Handle(s)
    BY <2>1, HandleHosts
  <2>2. CASE HandleFails(s)
    <3> DEFINE next == [ops[s] EXCEPT !.pc = "failed"]
    <3>1. OpShape(ops[s])
      BY <1>1 DEF PageInv, OpsOK
    <3>2. /\ OpShape(next) /\ next.kind = ops[s].kind /\ next.host = ops[s].host
          /\ next.flag = ops[s].flag
      BY <3>1 DEF OpShape
    <3>3. Becomes(s, next) /\ ServerSame
      BY <2>2 DEF HandleFails
    <3> HIDE DEF next
    <3>4. PageInv'
      BY <1>1, <3>2, <3>3, BecomesPage
    <3> QED
      BY <1>1, <3>3, <3>4, SameServer DEF HostsInv
  <2>3. CASE Receive(s)
    <3>1. ServerSame
      BY <2>3 DEF Receive
    <3> QED
      BY <1>1, <2>3, <3>1, ReceivePage, SameServer DEF HostsInv
  <2> QED
    BY <1>3, <2>1, <2>2, <2>3 DEF OpStep
<1>4. ASSUME NEW kind \in UserOps, NEW h, UserBegins(s, kind, h)
      PROVE  HostsInv'
  <2>1. kind \in Flags => h # 0
    <3>1. 0 \notin page.listed
      BY <1>1 DEF PageInv, PageShape
    <3>2. /\ kind = "send" => h # 0
          /\ kind = "start" => h # 0
          /\ kind = "work" => h \in page.listed
      BY <1>4 DEF UserBegins
    <3> QED
      BY <3>1, <3>2 DEF Flags
  <2>2. Begin(s, kind, h, page.due)
    BY <1>4 DEF UserBegins
  <2>3. PageInv'
    BY <1>1, <2>1, <2>2, BeginPage
  <2>4. ServerSame
    BY <2>2 DEF Begin
  <2> QED
    BY <1>1, <2>3, <2>4, SameServer DEF HostsInv
<1> QED
  BY <1>2, <1>3, <1>4

LEMMA StepHosts ==
    ASSUME HostsInv, [PageNext]_allVars
    PROVE  HostsInv'
<1>1. CatInv /\ SessionsOK(sessions) /\ PageInv
  BY DEF HostsInv
<1>2. CASE (CatalogStep \/ TerminalStep) /\ UNCHANGED <<page, ops>>
  BY <1>1, <1>2, CatalogSteps, TerminalSteps, SamePage DEF HostsInv
<1>3. CASE \E s \in Slots :
             \/ RunEffect(s) \/ OpStep(s)
             \/ \E kind \in setting.does \intersect UserOps, h \in HostIds \union {0} :
                   UserBegins(s, kind, h)
  BY <1>3, SlotHosts
<1>4. CASE \E h \in HostIds \union {0} : OpenPanel(h)
  <2>1. PICK h \in HostIds \union {0} : OpenPanel(h)
    BY <1>4
  <2>2. page' = [page EXCEPT !.panel = h, !.due = TRUE] /\ UNCHANGED ops /\ ServerSame
    BY <2>1 DEF OpenPanel
  <2>3. PageInv'
    BY <1>1, <2>2, PanelPage
  <2> QED
    BY <1>1, <2>2, <2>3, SameServer DEF HostsInv
<1>5. CASE UNCHANGED allVars
  <2>1. UNCHANGED <<page, ops>> /\ ServerSame
    BY <1>5 DEF allVars, ServerSame
  <2> QED
    BY <1>1, <2>1, SamePage, SameServer DEF HostsInv
<1> QED
  BY <1>2, <1>3, <1>4, <1>5 DEF PageNext

LEMMA AlwaysHosts == PageSpec => []HostsInv
<1>1. PageInit => HostsInv
  BY InitHosts
<1>2. HostsInv /\ [PageNext]_allVars => HostsInv'
  BY StepHosts
<1> QED
  BY <1>1, <1>2, PTL DEF PageSpec

-----------------------------------------------------------------------------
(* What is promised.                                                       *)

\* Rows of the table have names and slaves of their own: whatever lists of the master
\* are merged into it, however old, with hosts that share names and addresses, beside
\* hosts that are added and removed (hostCatalog.js: the columns are unique).
THEOREM RowsStayApart == PageSpec => []RowsDiffer
<1>1. HostsInv => RowsDiffer
  BY DEF HostsInv, CatInv, TableOK, RowsDiffer
<1> QED
  BY <1>1, AlwaysHosts, PTL

\* No two deployments run for one slave's row, whoever asks for them: hosts added
\* again, upgrades by hand and upgrades by listings (hostDeploymentJobs).
THEOREM OneDeploymentRuns == PageSpec => []OneDeployment
<1>1. HostsInv => OneDeployment
  <2> SUFFICES ASSUME HostsInv, NEW j \in jobs, NEW k \in jobs,
                      j.host \in DOMAIN rows, rows[j.host].agentUuid = j.slave,
                      k.host \in DOMAIN rows, rows[k.host].agentUuid = k.slave,
                      j.slave = k.slave
               PROVE  j = k
    BY DEF OneDeployment
  <2>1. j.host = k.host
    BY DEF HostsInv, CatInv, TableOK
  <2> QED
    BY <2>1 DEF HostsInv, CatInv, JobsOK
<1> QED
  BY <1>1, AlwaysHosts, PTL

\* A password that a browser was told to be accepted is the only answer to its request,
\* and was used: no timeout, cancellation or end of the server came between.
THEOREM AcceptedIsAnswer == PageSpec => []AcceptedIsUsed
<1>1. HostsInv => AcceptedIsUsed
  BY DEF HostsInv, CatInv, PasswordsOK, AcceptedIsUsed
<1> QED
  BY <1>1, AlwaysHosts, PTL

\* A host has one active terminal, and the page shows no operation as under way when
\* none is, unless operations of two hosts overlapped.
THEOREM PageStaysHonest == PageSpec => []PageHonest
<1>1. HostsInv => OneTerminal
  <2> SUFFICES ASSUME HostsInv, NEW m \in DOMAIN sessions, NEW n \in DOMAIN sessions,
                      sessions[m].host = sessions[n].host,
                      sessions[m].status = "active", sessions[n].status = "active"
               PROVE  m = n
    BY DEF OneTerminal
  <2>1. m \in Nat /\ n \in Nat
    BY DEF HostsInv, SessionsOK
  <2>2. ~(m < n) /\ ~(n < m)
    BY DEF HostsInv, SessionsOK
  <2> QED
    BY <2>1, <2>2
<1>2. HostsInv => FlagsFall
  BY DEF HostsInv, PageInv, FlagsOK, FlagsFall, Free, Flags
<1>3. HostsInv => PageHonest
  BY <1>1, <1>2 DEF PageHonest
<1> QED
  BY <1>3, AlwaysHosts, PTL

-----------------------------------------------------------------------------
(* Hosts that a user added.                                                *)

Stays == \A i \in DOMAIN rows \ DOMAIN rows' : rows[i].source = "manual" => calls' = calls

LEMMA NextStays ==
    ASSUME CatInv, Next
    PROVE  Stays
<1>1. ASSUME rows' = rows
      PROVE  Stays
  BY <1>1 DEF Stays
<1>2. CASE \E c \in setting.calls : Sync(c)
  <2>1. PICK c \in setting.calls : Sync(c)
    BY <1>2
  <2>2. HostsOK(calls[c].hosts, InUse)
    BY SettingFacts DEF CatInv, CallsOK, CallOK
  <2> DEFINE merged == syncRegisteredHosts(rows, nextId, calls[c].hosts)
  <2>3. rows' = merged.rows
    BY <2>1 DEF Sync
  <2>4. \A i \in DOMAIN rows : rows[i].source = "manual" => i \in DOMAIN merged.rows
    BY <2>2, SyncKeepsRows DEF CatInv
  <2> HIDE DEF merged
  <2> QED
    BY <2>3, <2>4 DEF Stays
<1>3. CASE \E ip \in Ips, s \in Slaves : AddHost(ip, s)
  BY <1>3 DEF AddHost, Stays
<1>4. CASE \E i \in DOMAIN rows : DeleteHost(i)
  BY <1>4 DEF DeleteHost, Stays
<1>5. CASE \/ \E s \in Slaves : \E name \in setting.names[s], ip \in setting.ips[s] : Register(s, name, ip)
           \/ MasterRestarts \/ \E j \in jobs : ScriptInstalls(j)
  <2>1. rows' = rows
    BY <1>5 DEF Register, MasterRestarts, ScriptInstalls, ServerUnchanged, table
  <2> QED
    BY <1>1, <2>1
<1>6. CASE \E j \in jobs : ScriptSucceeds(j) \/ ScriptWantsPassword(j) \/ ScriptFails(j)
  <2>1. rows' = rows
    BY <1>6 DEF ScriptSucceeds, ScriptWantsPassword, ScriptFails, table
  <2> QED
    BY <1>1, <2>1
<1>7. CASE \/ \E n \in DOMAIN challenges : ChallengeTimesOut(n)
           \/ \E b \in Browsers, n \in DOMAIN challenges : ShowPrompt(b, n)
           \/ \E b \in Browsers, given \in BOOLEAN : Answer(b, given)
           \/ \E b \in setting.browsers : Connect(b) \/ Disconnect(b)
  <2>1. rows' = rows
    BY <1>7 DEF ChallengeTimesOut, ShowPrompt, Answer, Connect, Disconnect, table
  <2> QED
    BY <1>1, <2>1
<1>8. CASE \/ \E c \in setting.calls : ReadRegistry(c) \/ ReadFails(c) \/ StartUpgrade(c)
           \/ \E c \in setting.calls, i \in DOMAIN rows : BeginUpgrade(c, i)
           \/ \E c \in setting.calls : \E host \in calls[c].todo : considerRuntimeHost(c, host)
           \/ \E i \in attempted : CooledDown(i)
  <2>1. rows' = rows
    BY <1>8 DEF ReadRegistry, ReadFails, StartUpgrade, BeginUpgrade, considerRuntimeHost, CooledDown,
                table
  <2> QED
    BY <1>1, <2>1
<1>9. CASE Restart
  <2>1. rows' = rows
    BY <1>9 DEF Restart, table
  <2> QED
    BY <1>1, <2>1
<1> QED
  BY <1>2, <1>3, <1>4, <1>5, <1>6, <1>7, <1>8, <1>9 DEF Next

LEMMA StepStays ==
    ASSUME HostsInv, [PageNext]_allVars
    PROVE  Stays
<1>1. ASSUME rows' = rows
      PROVE  Stays
  BY <1>1 DEF Stays
<1>2. CASE CatalogStep
  BY <1>2, NextStays DEF CatalogStep, HostsInv
<1>3. ASSUME NEW n, NEW written, Write(n, written)
      PROVE  rows' = rows
  BY <1>3 DEF Write, ofTerminals, table
<1>4. CASE TerminalStep
  <2>1. PICK n \in DOMAIN sessions :
          ShellDies(n) \/ Reap(n) \/ CloseArrives(n) \/ closeSessionById(n) \/ KillAfterDelay(n)
    BY <1>4 DEF TerminalStep
  <2>2. \/ UNCHANGED ofTerminals
        \/ \E written : Write(n, written)
    BY <2>1 DEF ShellDies, Reap, CloseArrives, closeSessionById, KillAfterDelay
  <2>3. rows' = rows
    BY <1>3, <2>2 DEF ofTerminals, table
  <2> QED
    BY <1>1, <2>3
<1>5. ASSUME ServerSame
      PROVE  rows' = rows
  BY <1>5 DEF ServerSame, vars, table
<1>6. CASE \E s \in Slots : RunEffect(s) \/ HandleFails(s) \/ Receive(s)
  <2>1. ServerSame
    BY <1>6 DEF RunEffect, Begin, HandleFails, Receive
  <2> QED
    BY <1>1, <1>5, <2>1
<1>7. CASE \E s \in Slots : Handle(s)
  <2>1. PICK s \in Slots : Handle(s)
    BY <1>7
  <2> DEFINE op == ops[s]
  <2>2. ServerSame \/ UNCHANGED vars \/ sendInput(op.got) \/ DeleteHost(op.host)
    BY <2>1 DEF Handle
  <2>3. sendInput(op.got) => rows' = rows
    BY <1>3 DEF sendInput
  <2>4. DeleteHost(op.host) => calls' = calls
    BY DEF DeleteHost
  <2>5. UNCHANGED vars => rows' = rows
    BY DEF vars, table
  <2> QED
    BY <1>1, <1>5, <2>2, <2>3, <2>4, <2>5 DEF Stays
<1>8. CASE \E s \in Slots : \E kind \in setting.does \intersect UserOps, h \in HostIds \union {0} :
             UserBegins(s, kind, h)
  <2>1. ServerSame
    BY <1>8 DEF UserBegins, Begin
  <2> QED
    BY <1>1, <1>5, <2>1
<1>9. CASE \E h \in HostIds \union {0} : OpenPanel(h)
  <2>1. ServerSame
    BY <1>9 DEF OpenPanel
  <2> QED
    BY <1>1, <1>5, <2>1
<1>10. CASE UNCHANGED allVars
  <2>1. rows' = rows
    BY <1>10 DEF allVars, vars, table
  <2> QED
    BY <1>1, <2>1
<1> QED
  BY <1>2, <1>4, <1>6, <1>7, <1>8, <1>9, <1>10 DEF PageNext, OpStep

\* A host that a user added is removed only by a user's request, never by a merge: also
\* when its slave registered, its row was merged with a list, and the slave is not
\* listed any more.
THEOREM AddedHostsRemain == PageSpec => AddedHostsStay
<1>1. HostsInv /\ [PageNext]_allVars => [\A i \in DOMAIN rows \ DOMAIN rows' :
                                            rows[i].source = "manual" => calls' = calls]_vars
  BY StepStays DEF Stays
<1> QED
  BY <1>1, AlwaysHosts, PTL DEF PageSpec, AddedHostsStay

-----------------------------------------------------------------------------
(* Slaves that keep their names and addresses keep their rows.             *)

\* The slaves of a list.
OfList(hosts) == {hosts[k].slave : k \in 1 .. Len(hosts)}

\* The names of a list differ.
NamesDiffer(hosts) ==
    \A k, m \in 1 .. Len(hosts) : hosts[k].name = hosts[m].name => k = m

\* A row of a listed slave has the slave's address, and no other host's name.
RowFits(row, hosts) ==
    \A k, m \in 1 .. Len(hosts) : row.agentUuid = hosts[k].slave =>
        row.ip = hosts[k].ip /\ (row.name = <<hosts[m].name, "", 0>> => m = k)

\* What the loop keeps: rows of listed slaves fit, the map by address is of rows that
\* have the address, a row that was a listed slave's still is, the rows that were
\* matched are of listed slaves, hosts that had their turn have such a row, and there
\* are no others but those that there were.
Steady(db, tab, hosts, k) ==
    /\ \A i \in DOMAIN db.rows : RowFits(db.rows[i], hosts)
    /\ \A p \in Ips : db.byIp[p] # NoRow => db.rows[db.byIp[p]].ip = p
    /\ \A i \in DOMAIN tab : tab[i].agentUuid \in OfList(hosts) =>
          i \in DOMAIN db.rows /\ db.rows[i].agentUuid = tab[i].agentUuid
    /\ \A i \in db.matched : i \in DOMAIN db.rows /\ db.rows[i].agentUuid \in OfList(hosts)
    /\ \A m \in 1 .. k : \E i \in db.matched : db.rows[i].agentUuid = hosts[m].slave
    /\ DOMAIN db.rows \subseteq DOMAIN tab \union db.matched

\* The row that is found for a host is its own, or of a slave that is not listed.
LEMMA MatchIsOwn ==
    ASSUME NEW db, NEW used, DbOK(db, used), NEW hosts, HostsOK(hosts, used),
           NEW tab, NEW k \in 1 .. Len(hosts), Steady(db, tab, hosts, k - 1)
    PROVE  LET found == MatchingRow(db, hosts[k], hosts)
           IN  found # NoRow /\ db.rows[found].agentUuid \in OfList(hosts) =>
                  db.rows[found].agentUuid = hosts[k].slave
<1> DEFINE host == hosts[k]
           found == MatchingRow(db, host, hosts)
           bySlave == RowOfSlave(db.rows, host.slave)
           byName == RowNamed(db.rows, <<host.name, "", 0>>)
           byAddress == db.byIp[host.ip]
<1>1. \/ bySlave = NoRow
      \/ db.rows[bySlave].agentUuid = host.slave
  BY SlaveRow DEF DbOK
<1>2. \/ byName = NoRow
      \/ byName \in DOMAIN db.rows /\ db.rows[byName].name = <<host.name, "", 0>>
  BY NamedRow DEF DbOK
<1>3. host.ip \in Ips
  BY DEF HostsOK, HostOK
<1>4. /\ byAddress \in DOMAIN db.rows \union {NoRow}
      /\ byAddress # NoRow => db.rows[byAddress].ip = host.ip
  BY <1>3 DEF DbOK, Steady
<1> DEFINE alone == canMatchRuntimeHostByIp(host, hosts)
<1>5. /\ bySlave # NoRow => found = bySlave
      /\ bySlave = NoRow /\ byName # NoRow => found = byName
      /\ bySlave = NoRow /\ byName = NoRow => found = IF alone THEN byAddress ELSE NoRow
  <2> HIDE DEF alone
  <2> QED
    BY DEF MatchingRow, alone
<1>6. DOMAIN hosts = 1 .. Len(hosts) /\ Len(hosts) \in Nat
  BY DEF HostsOK
<1> HIDE DEF found, bySlave, byName, byAddress, alone
<1> SUFFICES ASSUME found # NoRow, NEW m \in 1 .. Len(hosts),
                    db.rows[found].agentUuid = hosts[m].slave
             PROVE  db.rows[found].agentUuid = host.slave
  BY DEF OfList, found
<1>7. CASE bySlave # NoRow
  BY <1>1, <1>5, <1>7
<1>8. CASE bySlave = NoRow /\ byName # NoRow
  <2>1. RowFits(db.rows[byName], hosts) /\ found = byName
    BY <1>2, <1>5, <1>8 DEF Steady
  <2>2. k = m
    BY <1>2, <1>8, <2>1 DEF RowFits
  <2> QED
    BY <2>2
<1>9. CASE bySlave = NoRow /\ byName = NoRow
  <2>1. /\ found \in DOMAIN db.rows /\ db.rows[found].ip = host.ip
        /\ alone
    BY <1>4, <1>5, <1>9
  <2>2. hosts[m].ip = host.ip
    BY <2>1 DEF Steady, RowFits
  <2> DEFINE alike == {x \in DOMAIN hosts : hosts[x].ip = host.ip}
  <2>3. k \in alike /\ m \in alike
    BY <1>6, <2>2
  <2>4. Cardinality(alike) <= 1
    BY <2>1 DEF canMatchRuntimeHostByIp, alone
  <2>5. IsFiniteSet(alike)
    <3>1. IsFiniteSet(1 .. Len(hosts))
      BY <1>6, FS_Interval
    <3>2. IsFiniteSet(DOMAIN hosts)
      BY <1>6, <3>1
    <3>3. alike \subseteq DOMAIN hosts
      OBVIOUS
    <3> HIDE DEF alike
    <3> QED
      BY <3>2, <3>3, FS_Subset
  <2> HIDE DEF alike
  <2>6. k = m
    <3> SUFFICES ASSUME k # m
                 PROVE  FALSE
      OBVIOUS
    <3> DEFINE two == {k, m}
    <3>1. two \subseteq alike
      BY <2>3
    <3>2. Cardinality(two) = 2
      <4>1. IsFiniteSet({k}) /\ Cardinality({k}) = 1
        BY FS_Singleton
      <4> DEFINE one == {k}
      <4>2. m \notin one /\ two = one \cup {m}
        OBVIOUS
      <4> HIDE DEF one, two
      <4>3. Cardinality(one \cup {m}) = Cardinality(one) + 1
        BY <4>1, <4>2, FS_AddElement DEF one
      <4> QED
        BY <4>1, <4>2, <4>3 DEF one
    <3> HIDE DEF two
    <3>3. Cardinality(two) <= Cardinality(alike)
      BY <2>5, <3>1, FS_Subset
    <3>4. Cardinality(alike) \in Nat
      BY <2>5, FS_CardinalityType
    <3> QED
      BY <2>4, <3>2, <3>3, <3>4
  <2> QED
    BY <2>6
<1> QED
  BY <1>7, <1>8, <1>9

\* A name begins with what was asked for.
LEMMA FirstOfThree ==
    ASSUME NEW a, NEW b, NEW c
    PROVE  <<a, b, c>>[1] = a
OBVIOUS

\* The name that is given begins with the name of the machine.
LEMMA NameOfHost ==
    ASSUME NEW tab, NEW own, NEW host
    PROVE  allocateRuntimeHostName(tab, own, host)[1] = host.name
<1>1. \A k : Candidate(host.name, host.ip, k)[1] = host.name
  BY DEF Candidate
<1> QED
  BY <1>1 DEF allocateRuntimeHostName

\* One turn of the loop.
LEMMA AdoptSteady ==
    ASSUME NEW db, NEW used, DbOK(db, used), NEW hosts, HostsOK(hosts, used), NamesDiffer(hosts),
           NEW tab, NEW k \in 1 .. Len(hosts), Steady(db, tab, hosts, k - 1)
    PROVE  Steady(AdoptHost(db, hosts[k], hosts), tab, hosts, k)
<1> DEFINE host  == hosts[k]
           found == MatchingRow(db, host, hosts)
           id    == IF found = NoRow THEN db.nextId ELSE found
           name  == allocateRuntimeHostName(db.rows, found, host)
           row   == IF found = NoRow
                    THEN [agentUuid |-> host.slave, ip |-> host.ip, name |-> name,
                          source |-> "runtime"]
                    ELSE UpdateRow(db.rows[found], host, name)
           same  == found # NoRow /\ row = db.rows[found]
           left  == [p \in Ips |-> IF found # NoRow /\ db.byIp[p] = found
                                      /\ db.rows[found].ip = p
                                   THEN NoRow ELSE db.byIp[p]]
           made  == [i \in DOMAIN db.rows \union {id} |-> IF i = id THEN row ELSE db.rows[i]]
           map   == IF same THEN db.byIp ELSE [left EXCEPT ![host.ip] = id]
           new   == AdoptHost(db, host, hosts)
<1>1. new.rows = made /\ new.byIp = map /\ new.matched = db.matched \union {id}
  BY DEF AdoptHost
<1>2. HostOK(host, used) /\ DOMAIN hosts = 1 .. Len(hosts)
  BY DEF HostsOK
<1>3. /\ found \in DOMAIN db.rows \union {NoRow}
      /\ \A i \in DOMAIN db.rows : db.rows[i].agentUuid = host.slave => i = found
  <2>1. LET f == MatchingRow(db, host, hosts)
        IN  /\ f \in DOMAIN db.rows \union {NoRow}
            /\ \A i \in DOMAIN db.rows : db.rows[i].agentUuid = host.slave => i = f
    <3> HIDE DEF host
    <3> QED
      BY <1>2, MatchIsRow
  <2> QED
    BY <2>1
<1>4. found # NoRow /\ db.rows[found].agentUuid \in OfList(hosts) =>
         db.rows[found].agentUuid = host.slave
  BY MatchIsOwn
<1>5. 0 \notin DOMAIN db.rows /\ db.nextId \notin DOMAIN db.rows
  BY DEF DbOK, TableOK
<1>6. row.agentUuid = host.slave /\ row.ip = host.ip /\ row.name = name
  <2>1. CASE found = NoRow
    BY <2>1
  <2>2. CASE found # NoRow
    <3>1. db.rows[found] \in [agentUuid : used, ip : Ips, source : {"runtime", "manual"},
                              name : {db.rows[found].name}]
      BY <1>3, <2>2 DEF DbOK, TableOK
    <3>2. row = [db.rows[found] EXCEPT !.agentUuid = host.slave, !.ip = host.ip, !.name = name]
      BY <2>2 DEF UpdateRow
    <3> HIDE DEF row, name, found, host
    <3> QED
      BY <3>1, <3>2
  <2> QED
    BY <2>1, <2>2
<1>7. name[1] = host.name
  BY NameOfHost
<1>8. host.slave \in OfList(hosts)
  BY DEF OfList
<1>9. /\ id = found \/ id \notin DOMAIN db.rows
      /\ found # NoRow => id = found
  BY <1>3, <1>5 DEF NoRow
<1>10. \A p \in Ips : map[p] # NoRow =>
          \/ map[p] = id /\ p = host.ip
          \/ map[p] = id /\ same /\ db.rows[id].ip = p
          \/ map[p] # id /\ map[p] = db.byIp[p]
  <2>1. db.byIp \in [Ips -> DOMAIN db.rows \union {NoRow}]
    BY DEF DbOK
  <2>2. \A p \in Ips : db.byIp[p] # NoRow => db.rows[db.byIp[p]].ip = p
    BY DEF Steady
  <2>3. host.ip \in Ips
    BY <1>2 DEF HostOK
  <2>4. CASE same
    <3>1. map = db.byIp
      BY <2>4
    <3> HIDE DEF same, map, id, row, found
    <3> QED
      BY <2>2, <2>4, <3>1
  <2>5. CASE ~same
    <3>1. map = [left EXCEPT ![host.ip] = id]
      BY <2>5
    <3>2. \A p \in Ips : left[p] = IF found # NoRow /\ db.byIp[p] = found /\ db.rows[found].ip = p
                                   THEN NoRow ELSE db.byIp[p]
      OBVIOUS
    <3>3. DOMAIN left = Ips
      OBVIOUS
    <3> HIDE DEF same, map, id, row, found, left, host
    <3>4. map[host.ip] = id /\ \A p \in Ips : p # host.ip => map[p] = left[p]
      BY <2>3, <3>1, <3>3
    <3>5. \A p \in Ips : p # host.ip /\ left[p] # NoRow => left[p] # id /\ left[p] = db.byIp[p]
      BY <1>9, <2>1, <2>2, <3>2
    <3> QED
      BY <3>4, <3>5
  <2> QED
    BY <2>4, <2>5
<1>11. same => row = db.rows[id]
  BY <1>9
<1> HIDE DEF found, id, name, row, same, map, left
<1>12. /\ made[id] = row /\ DOMAIN made = DOMAIN db.rows \union {id}
       /\ \A i \in DOMAIN db.rows : i # id => made[i] = db.rows[i]
  OBVIOUS
<1> HIDE DEF made, new
<1>13. RowFits(row, hosts)
  <2> SUFFICES ASSUME NEW a \in 1 .. Len(hosts), NEW b \in 1 .. Len(hosts),
                      row.agentUuid = hosts[a].slave
               PROVE  row.ip = hosts[a].ip /\ (row.name = <<hosts[b].name, "", 0>> => b = a)
    BY DEF RowFits
  <2>1. a = k
    BY <1>6 DEF HostsOK
  <2>2. row.name = <<hosts[b].name, "", 0>> => hosts[b].name = hosts[k].name
    <3> DEFINE plain == <<hosts[b].name, "", 0>>
    <3>1. plain[1] = hosts[b].name
      BY FirstOfThree
    <3> HIDE DEF plain
    <3>2. row.name = plain => hosts[b].name = hosts[k].name
      BY <1>6, <1>7, <3>1
    <3> QED
      BY <3>2 DEF plain
  <2> QED
    BY <1>6, <2>1, <2>2 DEF NamesDiffer
<1>14. \A i \in DOMAIN made : RowFits(made[i], hosts)
  BY <1>12, <1>13 DEF Steady
<1>15. \A p \in Ips : map[p] # NoRow => made[map[p]].ip = p
  <2> SUFFICES ASSUME NEW p \in Ips, map[p] # NoRow
               PROVE  made[map[p]].ip = p
    OBVIOUS
  <2>1. CASE map[p] = id
    BY <1>6, <1>10, <1>11, <1>12, <2>1
  <2>2. CASE map[p] # id
    <3>1. map[p] = db.byIp[p] /\ db.byIp[p] \in DOMAIN db.rows
      BY <1>10, <2>2 DEF DbOK
    <3>2. db.rows[db.byIp[p]].ip = p
      BY <3>1, <1>5 DEF Steady, NoRow
    <3> QED
      BY <1>12, <2>2, <3>1, <3>2
  <2> QED
    BY <2>1, <2>2
<1>16. \A i \in DOMAIN db.rows : db.rows[i].agentUuid \in OfList(hosts) =>
          i \in DOMAIN made /\ made[i].agentUuid = db.rows[i].agentUuid
  <2> SUFFICES ASSUME NEW i \in DOMAIN db.rows, db.rows[i].agentUuid \in OfList(hosts)
               PROVE  i \in DOMAIN made /\ made[i].agentUuid = db.rows[i].agentUuid
    OBVIOUS
  <2>1. CASE i = id
    <3>1. found = i /\ found # NoRow
      BY <1>3, <1>5, <1>9, <2>1 DEF NoRow
    <3> QED
      BY <1>4, <1>6, <1>12, <2>1, <3>1
  <2>2. CASE i # id
    BY <1>12, <2>2
  <2> QED
    BY <2>1, <2>2
<1>17. \A i \in DOMAIN tab : tab[i].agentUuid \in OfList(hosts) =>
          i \in DOMAIN made /\ made[i].agentUuid = tab[i].agentUuid
  BY <1>16 DEF Steady
<1>18. \A i \in db.matched : i \in DOMAIN made /\ made[i].agentUuid = db.rows[i].agentUuid
                              /\ db.rows[i].agentUuid \in OfList(hosts)
  BY <1>16 DEF Steady
<1>19. \A i \in db.matched \union {id} : i \in DOMAIN made /\ made[i].agentUuid \in OfList(hosts)
  BY <1>6, <1>8, <1>12, <1>18
<1>20. \A m \in 1 .. k : \E i \in db.matched \union {id} : made[i].agentUuid = hosts[m].slave
  <2> SUFFICES ASSUME NEW m \in 1 .. k
               PROVE  \E i \in db.matched \union {id} : made[i].agentUuid = hosts[m].slave
    OBVIOUS
  <2>1. CASE m = k
    BY <1>6, <1>12, <2>1
  <2>2. CASE m # k
    <3>1. m \in 1 .. k - 1
      BY <2>2
    <3>2. PICK i \in db.matched : db.rows[i].agentUuid = hosts[m].slave
      BY <3>1 DEF Steady
    <3> QED
      BY <1>18, <3>2
  <2> QED
    BY <2>1, <2>2
<1>21. DOMAIN made \subseteq DOMAIN tab \union (db.matched \union {id})
  BY <1>12 DEF Steady
<1>22. Steady(new, tab, hosts, k)
  BY <1>1, <1>14, <1>15, <1>17, <1>19, <1>20, <1>21 DEF Steady
<1> QED
  BY <1>22 DEF new

LEMMA AdoptAllSteady ==
    ASSUME NEW used, NEW hosts, HostsOK(hosts, used), NamesDiffer(hosts),
           NEW start, DbOK(start, used), NEW tab, Steady(start, tab, hosts, 0)
    PROVE  Steady(AdoptAll(start, hosts), tab, hosts, Len(hosts))
<1>1. Len(hosts) \in Nat
  BY DEF HostsOK
<1> DEFINE turn == CHOOSE f : Turns(start, hosts, f)
<1>2. AdoptAll(start, hosts) = turn[Len(hosts)]
  BY DEF AdoptAll, Turns
<1>3. Turns(start, hosts, turn)
  BY <1>1, TurnsExist
<1> HIDE DEF turn
<1> DEFINE S == {k \in 0 .. Len(hosts) : DbOK(turn[k], used) /\ Steady(turn[k], tab, hosts, k)}
<1>4. 0 \in S
  <2>1. turn[0] = start
    BY <1>1, <1>3 DEF Turns
  <2> QED
    BY <1>1, <2>1
<1>5. ASSUME NEW k \in 0 .. Len(hosts) - 1, k \in S
      PROVE  k + 1 \in S
  <2>1. turn[k + 1] = AdoptHost(turn[k], hosts[k + 1], hosts)
    BY <1>1, <1>3 DEF Turns
  <2>2. HostOK(hosts[k + 1], used)
    BY <1>1 DEF HostsOK
  <2> DEFINE d == turn[k]
             m == k + 1
  <2>3. DbOK(d, used) /\ Steady(d, tab, hosts, m - 1) /\ m \in 1 .. Len(hosts)
    BY <1>1, <1>5
  <2> HIDE DEF d
  <2>4. DbOK(AdoptHost(d, hosts[k + 1], hosts), used)
    BY <2>2, <2>3, AdoptKeeps
  <2> HIDE DEF m
  <2>5. Steady(AdoptHost(d, hosts[m], hosts), tab, hosts, m)
    BY <2>3, AdoptSteady
  <2> QED
    BY <1>1, <2>1, <2>4, <2>5 DEF d, m
<1>6. Len(hosts) \in S
  <2>1. \A k \in 0 .. Len(hosts) - 1 : k \in S => k + 1 \in S
    BY <1>5
  <2> HIDE DEF S
  <2>2. \A k \in 0 .. Len(hosts) : k \in S
    BY <1>1, <1>4, <2>1, UpTo
  <2> QED
    BY <1>1, <2>2
<1> QED
  BY <1>2, <1>6

\* The merge: every listed slave has a row, its own if it had one, and the other rows are
\* of hosts that a user added.
LEMMA SyncSteady ==
    ASSUME NEW tab, NEW next, NEW used, TableOK(tab, next, used),
           NEW hosts, HostsOK(hosts, used), NamesDiffer(hosts),
           \A i \in DOMAIN tab : RowFits(tab[i], hosts)
    PROVE  LET merged == syncRegisteredHosts(tab, next, hosts).rows
           IN  /\ \A s \in OfList(hosts) : \E i \in DOMAIN merged : merged[i].agentUuid = s
               /\ \A i \in DOMAIN tab : tab[i].agentUuid \in OfList(hosts) =>
                     i \in DOMAIN merged /\ merged[i].agentUuid = tab[i].agentUuid
               /\ \A i \in DOMAIN merged :
                     merged[i].agentUuid \in OfList(hosts) \/ merged[i].source = "manual"
<1> DEFINE ofIp(p) == {i \in DOMAIN tab : tab[i].ip = p}
           start == [rows |-> tab, nextId |-> next, matched |-> {},
                     byIp |-> [p \in Ips |-> FirstOf(ofIp(p))]]
           all   == AdoptAll(start, hosts)
           gone  == Stale(tab, all.matched)
           left  == [i \in DOMAIN all.rows \ gone |-> all.rows[i]]
           merged == syncRegisteredHosts(tab, next, hosts).rows
<1>1. merged = left
  BY DEF syncRegisteredHosts
<1>2. \A p \in Ips : FirstOf(ofIp(p)) = NoRow \/ FirstOf(ofIp(p)) \in ofIp(p)
  <2> SUFFICES ASSUME NEW p \in Ips
               PROVE  FirstOf(ofIp(p)) = NoRow \/ FirstOf(ofIp(p)) \in ofIp(p)
    OBVIOUS
  <2>1. ofIp(p) \in SUBSET Nat
    BY DEF TableOK
  <2> HIDE DEF ofIp
  <2> QED
    BY <2>1, FirstIn
<1>3. /\ start.rows = tab /\ start.nextId = next /\ start.matched = {}
      /\ DOMAIN start.byIp = Ips /\ start.byIp = [p \in DOMAIN start.byIp |-> start.byIp[p]]
      /\ \A p \in Ips : start.byIp[p] = NoRow \/ start.byIp[p] \in ofIp(p)
  BY <1>2
<1> HIDE DEF start
<1>4. DbOK(start, used)
  <2>1. \A p \in Ips : start.byIp[p] \in DOMAIN tab \union {NoRow}
    BY <1>3
  <2>2. start.byIp \in [Ips -> DOMAIN tab \union {NoRow}]
    BY <1>3, <2>1
  <2> QED
    BY <1>3, <2>2 DEF DbOK
<1>5. Steady(start, tab, hosts, 0)
  BY <1>3 DEF Steady
<1>6. DbOK(all, used) /\ Extends(all.rows, tab)
  BY <1>3, <1>4, AdoptAllKeeps
<1>7. Steady(all, tab, hosts, Len(hosts))
  BY <1>4, <1>5, AdoptAllSteady
<1> HIDE DEF all
<1>8. gone = {i \in DOMAIN tab : tab[i].source = "runtime" /\ i \notin all.matched}
  BY DEF Stale
<1> HIDE DEF gone
<1>9. all.matched \subseteq DOMAIN left
  BY <1>7, <1>8 DEF Steady
<1>10. \A i \in DOMAIN left : i \in DOMAIN all.rows /\ i \notin gone /\ left[i] = all.rows[i]
  OBVIOUS
<1> HIDE DEF left
<1>11. \A s \in OfList(hosts) : \E i \in all.matched : i \in DOMAIN left /\ left[i].agentUuid = s
  BY <1>7, <1>9, <1>10 DEF Steady, OfList
<1>12. \A i \in DOMAIN tab : tab[i].agentUuid \in OfList(hosts) =>
          i \in DOMAIN left /\ left[i].agentUuid = tab[i].agentUuid
  <2> SUFFICES ASSUME NEW i \in DOMAIN tab, tab[i].agentUuid \in OfList(hosts)
               PROVE  i \in DOMAIN left /\ left[i].agentUuid = tab[i].agentUuid
    OBVIOUS
  <2>1. i \in DOMAIN all.rows /\ all.rows[i].agentUuid = tab[i].agentUuid
    BY <1>7 DEF Steady
  <2>2. PICK m \in all.matched : m \in DOMAIN left /\ left[m].agentUuid = tab[i].agentUuid
    BY <1>11
  <2>3. m = i
    BY <1>6, <1>10, <2>1, <2>2 DEF DbOK, TableOK
  <2> QED
    BY <2>2, <2>3
<1>13. \A i \in DOMAIN left : left[i].agentUuid \in OfList(hosts) \/ left[i].source = "manual"
  <2> SUFFICES ASSUME NEW i \in DOMAIN left
               PROVE  left[i].agentUuid \in OfList(hosts) \/ left[i].source = "manual"
    OBVIOUS
  <2>1. CASE i \in all.matched
    BY <1>7, <1>10, <2>1 DEF Steady
  <2>2. CASE i \notin all.matched
    <3>1. i \in DOMAIN tab /\ tab[i].source # "runtime"
      BY <1>7, <1>8, <1>10, <2>2 DEF Steady
    <3>2. tab[i].source = "manual"
      <4>1. tab[i] \in [agentUuid : used, ip : Ips, source : {"runtime", "manual"}, name : {tab[i].name}]
        BY <3>1 DEF TableOK
      <4> QED
        BY <3>1, <4>1
    <3> QED
      BY <1>6, <1>10, <3>1, <3>2 DEF Extends
  <2> QED
    BY <2>1, <2>2
<1> HIDE DEF merged
<1>14. \A s \in OfList(hosts) : \E i \in DOMAIN left : left[i].agentUuid = s
  BY <1>11
<1> QED
  BY <1>1, <1>12, <1>13, <1>14 DEF merged

\* A row of a listed slave is shown with the slave.
LEMMA ShownWithItself ==
    ASSUME NEW used, NEW hosts, HostsOK(hosts, used), NEW row, row.agentUuid \in OfList(hosts)
    PROVE  ShownWith(row, hosts) # 0 /\ hosts[ShownWith(row, hosts)].slave = row.agentUuid
<1> DEFINE ks == {k \in DOMAIN hosts : hosts[k].slave = row.agentUuid}
<1>1. Len(hosts) \in Nat /\ ks \in SUBSET (1 .. Len(hosts)) /\ ks # {}
  BY DEF HostsOK, OfList
<1>2. Max(ks) \in ks
  <2> HIDE DEF ks
  <2>1. \E m \in ks : \A k \in ks : k <= m
    BY <1>1, GreatestOf
  <2>2. \A m, k \in ks : k <= m => m >= k
    BY <1>1
  <2> QED
    BY <2>1, <2>2 DEF Max
<1>3. Max(ks) # 0 /\ hosts[Max(ks)].slave = row.agentUuid
  BY <1>1, <1>2
<1>4. ks # {} /\ Max(ks) # 0 => ShownWith(row, hosts) = Max(ks)
  BY DEF ShownWith
<1> QED
  BY <1>1, <1>3, <1>4

\* The property of a step, for one call.
IdentityOf(c) ==
    calls[c].phase = "read" /\ calls'[c].phase # "read" /\ up' /\ NothingTaken(calls[c].hosts)
      => KeepsIdentity(calls[c].hosts)
Identity == \A c \in Calls : IdentityOf(c)

\* A call that merges its list.
LEMMA SyncIdentity ==
    ASSUME CatInv, NEW c \in Calls, Sync(c)
    PROVE  IdentityOf(c)
<1> SUFFICES ASSUME NothingTaken(calls[c].hosts)
             PROVE  KeepsIdentity(calls[c].hosts)
  BY DEF IdentityOf
<1> DEFINE hosts == calls[c].hosts
           merged == syncRegisteredHosts(rows, nextId, hosts).rows
           listed == {hosts[k].slave : k \in DOMAIN hosts}
<1>1. HostsOK(hosts, InUse)
  BY DEF CatInv, CallsOK, CallOK
<1>2. rows' = merged
  BY DEF Sync
<1> HIDE DEF hosts
<1>3. NothingTaken(hosts)
  BY DEF hosts
<1>4. DOMAIN hosts = 1 .. Len(hosts)
  BY <1>1 DEF HostsOK
<1>5. NamesDiffer(hosts) /\ \A i \in DOMAIN rows : RowFits(rows[i], hosts)
  <2>1. NamesDiffer(hosts)
    BY <1>3, <1>4 DEF NothingTaken, NamesDiffer
  <2>2. ASSUME NEW i \in DOMAIN rows
        PROVE  RowFits(rows[i], hosts)
    <3> DEFINE row == rows[i]
    <3> SUFFICES ASSUME NEW k \in 1 .. Len(hosts), NEW m \in 1 .. Len(hosts),
                        row.agentUuid = hosts[k].slave
                 PROVE  row.ip = hosts[k].ip /\ (row.name = <<hosts[m].name, "", 0>> => m = k)
      BY DEF RowFits
    <3> DEFINE plain == row.name = <<hosts[m].name, "", 0>>
    <3>1. row.ip = hosts[k].ip /\ (plain => m = k)
      <4>1. k \in DOMAIN hosts /\ m \in DOMAIN hosts
        BY <1>4
      <4> QED
        BY <1>3, <4>1, Zenon DEF NothingTaken
    <3> QED
      BY <3>1
  <2> QED
    BY <2>1, <2>2
<1>6. listed = OfList(hosts)
  BY <1>4 DEF OfList
<1>7. /\ \A s \in OfList(hosts) : \E i \in DOMAIN merged : merged[i].agentUuid = s
      /\ \A i \in DOMAIN rows : rows[i].agentUuid \in OfList(hosts) =>
            i \in DOMAIN merged /\ merged[i].agentUuid = rows[i].agentUuid
      /\ \A i \in DOMAIN merged :
            merged[i].agentUuid \in OfList(hosts) \/ merged[i].source = "manual"
  BY <1>1, <1>5, SyncSteady DEF CatInv
<1> HIDE DEF merged, listed
<1>8. \A i \in DOMAIN merged : merged[i].agentUuid \in listed =>
        ShownWith(merged[i], hosts) # 0
        /\ hosts[ShownWith(merged[i], hosts)].slave = merged[i].agentUuid
  BY <1>1, <1>6, ShownWithItself
<1>9. ASSUME NEW i \in DOMAIN merged
      PROVE  StatusOf(merged[i], hosts) # "offline"
  <2> DEFINE row == merged[i]
             shown == ShownWith(row, hosts)
             manual == row.source = "manual"
  <2>1. shown # 0 \/ manual
    BY <1>6, <1>7, <1>8
  <2>2. StatusOf(row, hosts) = CASE shown # 0 -> "of the master"
                                 [] shown = 0 /\ manual -> "unregistered"
                                 [] OTHER -> "offline"
    BY DEF StatusOf
  <2> HIDE DEF row, shown, manual
  <2>3. StatusOf(row, hosts) # "offline"
    BY <2>1, <2>2
  <2> QED
    BY <2>3 DEF row
<1>10. KeepsIdentity(hosts)
  BY <1>2, <1>6, <1>7, <1>8, <1>9 DEF KeepsIdentity, listed
<1> QED
  BY <1>10 DEF hosts

\* A call keeps its list until it is merged.
LEMMA NextIdentity ==
    ASSUME CatInv, Next
    PROVE  Identity
<1>0. Idle.phase = "idle"
  BY DEF Idle
<1>1. ASSUME calls' = calls
      PROVE  Identity
  BY <1>1 DEF Identity, IdentityOf
<1>2. ASSUME ~up'
      PROVE  Identity
  BY <1>2 DEF Identity, IdentityOf
<1>3. ASSUME NEW c \in Calls, NEW call, calls' = [calls EXCEPT ![c] = call],
             calls[c].phase # "read"
      PROVE  Identity
  BY <1>3 DEF Identity, IdentityOf
<1>4. \A c \in setting.calls : c \in Calls
  BY SettingFacts DEF CatInv
<1>5. CASE \E c \in setting.calls : Sync(c)
  <2>1. PICK c \in setting.calls : Sync(c)
    BY <1>5
  <2>2. IdentityOf(c)
    BY <1>4, <2>1, SyncIdentity
  <2> DEFINE call == Considering(calls[c], {h \in Range(calls[c].hosts) : h.old})
  <2>3. calls' = [calls EXCEPT ![c] = call]
    BY <2>1 DEF Sync
  <2> HIDE DEF call
  <2>4. \A d \in Calls : d # c => calls'[d] = calls[d]
    BY <2>3 DEF CatInv, CallsOK
  <2> QED
    BY <2>2, <2>4 DEF Identity, IdentityOf
<1>6. CASE \E c \in setting.calls : ReadRegistry(c) \/ ReadFails(c) \/ StartUpgrade(c)
  <2>1. PICK c \in setting.calls : ReadRegistry(c) \/ ReadFails(c) \/ StartUpgrade(c)
    BY <1>6
  <2>2. calls[c].phase # "read"
    BY <1>0, <2>1 DEF ReadRegistry, ReadFails, StartUpgrade
  <2>3. calls' = [calls EXCEPT ![c] = calls'[c]]
    <3> DEFINE read == [calls[c] EXCEPT !.op = IF @ = "none" THEN "list" ELSE @,
                                       !.phase = "read", !.hosts = Listed]
               ended == [calls[c] EXCEPT !.phase = "ending"]
    <3>1. \/ calls' = [calls EXCEPT ![c] = read]
          \/ calls' = [calls EXCEPT ![c] = ended]
          \/ calls' = [calls EXCEPT ![c] = Idle]
      BY <2>1 DEF ReadRegistry, ReadFails, StartUpgrade
    <3> HIDE DEF read, ended
    <3> QED
      BY <1>4, <2>1, <3>1 DEF CatInv, CallsOK
  <2> QED
    BY <1>3, <1>4, <2>2, <2>3
<1>7. CASE \E c \in setting.calls, i \in DOMAIN rows : BeginUpgrade(c, i)
  <2>1. PICK c \in setting.calls, i \in DOMAIN rows : BeginUpgrade(c, i)
    BY <1>7
  <2> DEFINE call == [Idle EXCEPT !.op = "upgrade", !.phase = "asking",
                                 !.host = i, !.slave = rows[i].agentUuid]
  <2>2. calls[c].phase # "read" /\ calls' = [calls EXCEPT ![c] = call]
    BY <1>0, <2>1 DEF BeginUpgrade
  <2> HIDE DEF call
  <2> QED
    BY <1>3, <1>4, <2>2
<1>8. CASE \E c \in setting.calls : \E host \in calls[c].todo : considerRuntimeHost(c, host)
  <2>1. PICK c \in setting.calls : \E host \in calls[c].todo : considerRuntimeHost(c, host)
    BY <1>8
  <2>2. PICK host \in calls[c].todo : considerRuntimeHost(c, host)
    BY <2>1
  <2> DEFINE call == Considering(calls[c], calls[c].todo \ {host})
  <2>3. calls[c].phase # "read" /\ calls' = [calls EXCEPT ![c] = call]
    BY <2>2 DEF considerRuntimeHost
  <2> HIDE DEF call
  <2> QED
    BY <1>3, <1>4, <2>3
<1>9. CASE \/ \E s \in Slaves : \E name \in setting.names[s], ip \in setting.ips[s] : Register(s, name, ip)
           \/ MasterRestarts \/ \E j \in jobs : ScriptInstalls(j)
  <2>1. calls' = calls
    BY <1>9 DEF Register, MasterRestarts, ScriptInstalls, ServerUnchanged
  <2> QED
    BY <1>1, <2>1
<1>10. CASE \E j \in jobs : ScriptSucceeds(j) \/ ScriptWantsPassword(j) \/ ScriptFails(j)
  <2>1. calls' = calls \/ ~up'
    BY <1>10 DEF ScriptSucceeds, ScriptWantsPassword, ScriptFails, Fail, Crash
  <2> QED
    BY <1>1, <1>2, <2>1
<1>11. ASSUME NEW n, NEW how, Reject(n, how)
       PROVE  calls' = calls \/ ~up'
  BY <1>11 DEF Reject
<1>12. CASE \/ \E n \in DOMAIN challenges : ChallengeTimesOut(n)
            \/ \E b \in Browsers, given \in BOOLEAN : Answer(b, given)
  <2>1. calls' = calls \/ ~up'
    BY <1>11, <1>12 DEF ChallengeTimesOut, Answer, Resolve
  <2> QED
    BY <1>1, <1>2, <2>1
<1>13. CASE \/ \E b \in Browsers, n \in DOMAIN challenges : ShowPrompt(b, n)
            \/ \E b \in setting.browsers : Connect(b) \/ Disconnect(b)
  <2>1. calls' = calls
    BY <1>13 DEF ShowPrompt, Connect, Disconnect
  <2> QED
    BY <1>1, <2>1
<1>14. CASE \/ \E i \in attempted : CooledDown(i)
            \/ \E ip \in Ips, s \in Slaves : AddHost(ip, s)
            \/ \E i \in DOMAIN rows : DeleteHost(i)
            \/ Restart
  <2>1. calls' = calls
    BY <1>14 DEF CooledDown, AddHost, DeleteHost, Restart
  <2> QED
    BY <1>1, <2>1
<1> QED
  BY <1>5, <1>6, <1>7, <1>8, <1>9, <1>10, <1>12, <1>13, <1>14 DEF Next

LEMMA StepIdentity ==
    ASSUME HostsInv, [PageNext]_allVars
    PROVE  Identity
<1>1. ASSUME calls' = calls
      PROVE  Identity
  BY <1>1 DEF Identity, IdentityOf
<1>2. ASSUME ~up'
      PROVE  Identity
  BY <1>2 DEF Identity, IdentityOf
<1>3. CASE CatalogStep
  BY <1>3, NextIdentity DEF CatalogStep, HostsInv
<1>4. ASSUME NEW n, NEW written, Write(n, written)
      PROVE  calls' = calls \/ ~up'
  BY <1>4 DEF Write, Crash, ofTerminals
<1>5. CASE TerminalStep
  <2>1. PICK n \in DOMAIN sessions :
          ShellDies(n) \/ Reap(n) \/ CloseArrives(n) \/ closeSessionById(n) \/ KillAfterDelay(n)
    BY <1>5 DEF TerminalStep
  <2>2. \/ UNCHANGED ofTerminals
        \/ \E written : Write(n, written)
    BY <2>1 DEF ShellDies, Reap, CloseArrives, closeSessionById, KillAfterDelay
  <2> QED
    BY <1>1, <1>2, <1>4, <2>2 DEF ofTerminals
<1>6. ASSUME ServerSame
      PROVE  calls' = calls
  BY <1>6 DEF ServerSame, vars
<1>7. CASE \E s \in Slots : RunEffect(s) \/ HandleFails(s) \/ Receive(s)
  <2>1. ServerSame
    BY <1>7 DEF RunEffect, Begin, HandleFails, Receive
  <2> QED
    BY <1>1, <1>6, <2>1
<1>8. CASE \E s \in Slots : Handle(s)
  <2>1. PICK s \in Slots : Handle(s)
    BY <1>8
  <2> DEFINE op == ops[s]
  <2>2. ServerSame \/ UNCHANGED vars \/ sendInput(op.got) \/ DeleteHost(op.host)
    BY <2>1 DEF Handle
  <2>3. sendInput(op.got) => calls' = calls \/ ~up'
    BY <1>4 DEF sendInput
  <2>4. DeleteHost(op.host) => calls' = calls
    BY DEF DeleteHost
  <2>5. UNCHANGED vars => calls' = calls
    BY DEF vars
  <2> QED
    BY <1>1, <1>2, <1>6, <2>2, <2>3, <2>4, <2>5
<1>9. CASE \E s \in Slots : \E kind \in setting.does \intersect UserOps, h \in HostIds \union {0} :
             UserBegins(s, kind, h)
  <2>1. ServerSame
    BY <1>9 DEF UserBegins, Begin
  <2> QED
    BY <1>1, <1>6, <2>1
<1>10. CASE \E h \in HostIds \union {0} : OpenPanel(h)
  <2>1. ServerSame
    BY <1>10 DEF OpenPanel
  <2> QED
    BY <1>1, <1>6, <2>1
<1>11. CASE UNCHANGED allVars
  <2>1. calls' = calls
    BY <1>11 DEF allVars, vars
  <2> QED
    BY <1>1, <2>1
<1> QED
  BY <1>3, <1>5, <1>7, <1>8, <1>9, <1>10, <1>11 DEF PageNext, OpStep

\* Slaves that keep their names and addresses keep their rows: whatever list is merged,
\* however old, in the order it has, beside hosts that are added and removed, a row does
\* not go from one slave of it to another, and each is shown as what it is.
THEOREM SlavesKeepTheirRows == PageSpec => SyncKeepsIdentity
<1>1. HostsInv /\ [PageNext]_allVars =>
        [\A c \in Calls :
           calls[c].phase = "read" /\ calls'[c].phase # "read" /\ up' /\ NothingTaken(calls[c].hosts)
             => KeepsIdentity(calls[c].hosts)]_vars
  BY StepIdentity DEF Identity, IdentityOf
<1> QED
  BY <1>1, AlwaysHosts, PTL DEF PageSpec, SyncKeepsIdentity
=============================================================================
