------------------------------ MODULE HostRows ------------------------------
(***************************************************************************)
(* The table of hosts and how the list of slaves that the master knows is  *)
(* merged into it (packages/server/src/hostCatalog.js).  A row is found    *)
(* for a slave by its id, then by the name of its machine, then by its     *)
(* address.                                                                *)
(*                                                                         *)
(* A table is a function from the ids of its rows.  A host that the master *)
(* lists is a record [slave, name, ip].  A name is a triple: what was      *)
(* asked for, the address added to tell it from another, and a number.     *)
(***************************************************************************)
EXTENDS Naturals, Sequences, FiniteSets, SequencesExt, FiniteSetsExt

CONSTANTS Slaves,   \* ids of slaves
          Ips       \* addresses

ASSUME HostRowsAssumption == "" \notin Ips

NoRow == 0

\* The first row of a set, in the order of the table; NoRow if there is none.
FirstOf(ids) == IF ids = {} THEN NoRow ELSE Min(ids)

RowOfSlave(rows, s) == FirstOf({i \in DOMAIN rows : rows[i].agentUuid = s})
RowNamed(rows, n)   == FirstOf({i \in DOMAIN rows : rows[i].name = n})

\* The names that are tried: the name itself, then with the address, then numbered.
Candidate(name, ip, k) == IF k = 0 THEN <<name, "", 0>> ELSE <<name, ip, k>>

\* Seeded fault: the names of other rows are not looked at.
FirstCandidate(rows, own, host) == Candidate(host.name, host.ip, 0)

\* The first candidate that no other row has.
allocateRuntimeHostName(rows, own, host) ==
    LET Free(k) == \A i \in DOMAIN rows :
                      rows[i].name = Candidate(host.name, host.ip, k) => i = own
    IN  Candidate(host.name, host.ip, Min({k \in 0 .. Cardinality(DOMAIN rows) : Free(k)}))

\* Seeded fault: an address that several slaves have is matched as well.
AnyIp(host, hosts) == TRUE

\* An address stands for a slave only when one slave of the list has it.
canMatchRuntimeHostByIp(host, hosts) ==
    Cardinality({k \in DOMAIN hosts : hosts[k].ip = host.ip}) <= 1

\* The row of a host: by slave id, by name, by address.  byIp is the map the loop
\* keeps: two rows may have one address.
MatchingRow(db, host, hosts) ==
    CASE RowOfSlave(db.rows, host.slave) # NoRow -> RowOfSlave(db.rows, host.slave)
      [] RowOfSlave(db.rows, host.slave) = NoRow
         /\ RowNamed(db.rows, <<host.name, "", 0>>) # NoRow ->
            RowNamed(db.rows, <<host.name, "", 0>>)
      [] OTHER -> IF canMatchRuntimeHostByIp(host, hosts) THEN db.byIp[host.ip] ELSE NoRow

\* A row that is matched: its source and directories stay.
UpdateRow(row, host, name) ==
    [row EXCEPT !.agentUuid = host.slave, !.ip = host.ip, !.name = name]

\* One turn of the loop: the host's row is made or brought up to date, and the map
\* by address follows.
AdoptHost(db, host, hosts) ==
    LET found == MatchingRow(db, host, hosts)
        id    == IF found = NoRow THEN db.nextId ELSE found
        name  == allocateRuntimeHostName(db.rows, found, host)
        row   == IF found = NoRow
                 THEN [agentUuid |-> host.slave, ip |-> host.ip, name |-> name,
                       source |-> "runtime"]
                 ELSE UpdateRow(db.rows[found], host, name)
        same  == found # NoRow /\ row = db.rows[found]
        left  == [p \in Ips |-> IF found # NoRow /\ db.byIp[p] = found
                                   /\ db.rows[found].ip = p
                                THEN NoRow ELSE db.byIp[p]]
    IN  [rows    |-> [i \in DOMAIN db.rows \union {id} |->
                         IF i = id THEN row ELSE db.rows[i]],
         nextId  |-> IF found = NoRow THEN db.nextId + 1 ELSE db.nextId,
         byIp    |-> IF same THEN db.byIp ELSE [left EXCEPT ![host.ip] = id],
         matched |-> db.matched \union {id}]

\* Seeded fault: the source of a row is not looked at.
Unmatched(rows, matched) == DOMAIN rows \ matched

\* Rows of the runtime that no host of the list was given.
Stale(rows, matched) == {i \in DOMAIN rows : rows[i].source = "runtime" /\ i \notin matched}

\* The loop over a list of hosts.
AdoptAll(start, hosts) ==
    LET turn[k \in 0 .. Len(hosts)] ==
            IF k = 0 THEN start ELSE AdoptHost(turn[k - 1], hosts[k], hosts)
    IN  turn[Len(hosts)]

\* The table after a list of hosts was merged into it: one transaction.
syncRegisteredHosts(rows, nextId, hosts) ==
    LET start == [rows |-> rows, nextId |-> nextId, matched |-> {},
                  byIp |-> [p \in Ips |-> FirstOf({i \in DOMAIN rows : rows[i].ip = p})]]
        all   == AdoptAll(start, hosts)
        gone  == Stale(rows, all.matched)
    IN  [rows   |-> [i \in DOMAIN all.rows \ gone |-> all.rows[i]],
         nextId |-> all.nextId]

\* The host of a list that a row is shown with: by slave id, by name, by an address
\* that one host has; the last that fits, as in the maps of listHosts; 0 for none.
ShownWith(row, hosts) ==
    LET Latest(ks) == IF ks = {} THEN 0 ELSE Max(ks)
        ofSlave == Latest({k \in DOMAIN hosts : hosts[k].slave = row.agentUuid})
        named   == Latest({k \in DOMAIN hosts : <<hosts[k].name, "", 0>> = row.name})
        alone   == Latest({k \in DOMAIN hosts : hosts[k].ip = row.ip /\ canMatchRuntimeHostByIp(hosts[k], hosts)})
    IN  IF ofSlave # 0 THEN ofSlave ELSE IF named # 0 THEN named ELSE alone

\* What the list says of a row: what the master says of its host, or that none is there.
StatusOf(row, hosts) ==
    CASE ShownWith(row, hosts) # 0 -> "of the master"
      [] ShownWith(row, hosts) = 0 /\ row.source = "manual" -> "unregistered"
      [] OTHER -> "offline"

\* The row of a host that runs: by slave id, by address, by name.
findHostByRuntimeIdentity(rows, host) ==
    LET byIp == FirstOf({i \in DOMAIN rows : rows[i].ip = host.ip})
    IN  CASE RowOfSlave(rows, host.slave) # NoRow -> RowOfSlave(rows, host.slave)
          [] RowOfSlave(rows, host.slave) = NoRow /\ byIp # NoRow -> byIp
          [] OTHER -> RowNamed(rows, <<host.name, "", 0>>)

\* The name of a host that is added by its address: the address, then numbered.
resolveManualHostName(rows, ip) ==
    Candidate(ip, ip, Min({k \in 0 .. Cardinality(DOMAIN rows) :
                             RowNamed(rows, Candidate(ip, ip, k)) = NoRow}))
=============================================================================
