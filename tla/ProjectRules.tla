---------------------------- MODULE ProjectRules -----------------------------
(***************************************************************************)
(* The table of projects and how what the slaves report is merged into it  *)
(* (packages/server/src/projectCatalog.js and discoverProjects of          *)
(* index.js).  The table has one row for a path, whatever the host.        *)
(*                                                                         *)
(* A row is a record [id, host, path, custom].  The technologies of a      *)
(* project are kept in a table of their own, which nothing here reads.     *)
(***************************************************************************)
EXTENDS Naturals, Sequences, FiniteSets, SequencesExt, FiniteSetsExt

\* The paths that were added by hand and that no slave reports.
createCustomPathDiscoveryEntry(custom, reported) ==
    {[agent |-> "none", path |-> path, custom |-> TRUE] :
        path \in custom \ {entry.path : entry \in reported}}

\* A reported project with the row of its host: hosts gives the host of each slave.
resolveDiscoveredProjectHostMetadata(reported, hosts) ==
    {[host |-> IF entry.agent \in DOMAIN hosts THEN hosts[entry.agent] ELSE 0,
      path |-> entry.path, custom |-> entry.custom] : entry \in reported}

\* What a discovery has found: reported and added by hand.
Merged(reported, custom, hosts) ==
    resolveDiscoveredProjectHostMetadata(
        reported \union createCustomPathDiscoveryEntry(custom, reported), hosts)

\* The next id of a table.
NextId(table) == Max({0} \union {row.id : row \in table}) + 1

\* The rows of a path: the last one is updated.
RowsOfPath(projects, entry) == {row \in projects : row.path = entry.path}

\* One entry written to the table; new rows have ids from id on.
WriteProject(projects, entry, id) ==
    LET rows == RowsOfPath(projects, entry)
        kept == CHOOSE row \in rows : \A other \in rows : other.id <= row.id
        Row(i) == [id |-> i, host |-> entry.host, path |-> entry.path, custom |-> entry.custom]
    IN  IF rows = {}
        THEN projects \union {Row(Max({id} \union {row.id + 1 : row \in projects}))}
        ELSE (projects \ {kept}) \union {Row(kept.id)}

\* Seeded fault: a row is known by its host and its path.
OfHostAndPath(projects, entries) ==
    {row \in projects : \E e \in entries : e.path = row.path /\ e.host = row.host}

\* The rows whose path was found, on whatever host.
KeptRows(projects, entries) == {row \in projects : \E e \in entries : e.path = row.path}

\* The whole merge: the rows of paths that were not found go, the entries are written in
\* the order of the list.
syncDiscoveredProjects(projects, entries, list, id) ==
    LET written[k \in 0 .. Cardinality(entries)] ==
            IF k = 0 THEN KeptRows(projects, entries)
            ELSE WriteProject(written[k - 1], list[k], id)
    IN  written[Cardinality(entries)]
==============================================================================
