------------------------------ MODULE PathRules ------------------------------
(***************************************************************************)
(* Paths as a caller names them and paths on a host                        *)
(* (packages/server/src/hostPathMappings.js).  A mapping gives the path on *)
(* the host of what lies under a prefix; the path must then be under one   *)
(* of the host's own directories or projects.                              *)
(*                                                                         *)
(* A path is a sequence of names, of which ".." leads back; <<>> stands    *)
(* for a path that is not given.  A view is what a request has read of a   *)
(* host: [directories, projects, mappings].                                *)
(***************************************************************************)
EXTENDS Naturals, Sequences, FiniteSets, SequencesExt

\* A path, or another if it is not given.
Or(path, other) == IF path # <<>> THEN path ELSE other

Up == ".."

\* The path without "..": above the root there is none.
normalizePathPrefix(path) ==
    FoldLeft(LAMBDA at, name : IF name # Up THEN Append(at, name)
                               ELSE IF at = <<>> THEN at ELSE Front(at), <<>>, path)

\* The root directory is a prefix of itself only.
pathStartsWithPrefix(path, prefix) ==
    LET candidate == normalizePathPrefix(path)
        under     == normalizePathPrefix(prefix)
    IN  candidate = under \/ (under # <<>> /\ IsPrefix(under, candidate))

\* The longest of a set of prefixes of one path.
Longest(prefixes) ==
    CHOOSE p \in prefixes : \A q \in prefixes : Len(q) <= Len(p)

\* For normal paths.
joinMappedPath(hostPrefix, prefix, path) ==
    hostPrefix \o SubSeq(path, Len(prefix) + 1, Len(path))

buildApprovedHostRoots(view) ==
    {normalizePathPrefix(path) :
        path \in view.directories \union {project.path : project \in view.projects}}

\* The roots a path lies under.
ContainingRoots(view, path) ==
    {root \in buildApprovedHostRoots(view) : pathStartsWithPrefix(path, root)}

findContainingRoot(view, path) == Longest(ContainingRoots(view, path))

Approved(view, path) == ContainingRoots(view, path) # {}

\* The mappings of the longest prefix.  Several may have it: the table only keeps two
\* with the same prefix and target apart.  Their paths are normal, see RowOfMapping.
Matching(view, path) ==
    LET under == {m \in view.mappings : m.enabled /\ pathStartsWithPrefix(path, m.from)}
    IN  {m \in under : m.from = Longest({n.from : n \in under})}

\* One of them, always the same one of the same set.
matchingMapping(view, path) == CHOOSE m \in Matching(view, path) : TRUE

Resolved(source, path, root) == [source |-> source, hostPath |-> path, root |-> root]
NoRoot == <<"none">>
Refused == Resolved("refused", <<>>, NoRoot)

\* A path that must lie under a root, unless the caller allows it not to.
assertApprovedHostPath(view, source, path, unapproved) ==
    CASE Approved(view, path) -> Resolved(source, path, findContainingRoot(view, path))
      [] ~Approved(view, path) /\ unapproved -> Resolved(source, path, NoRoot)
      [] OTHER -> Refused

\* A project's own path, a mapped one, one under a root, and any other.
resolveHostPath(view, given, unapproved) ==
    LET path  == normalizePathPrefix(given)
        known == \E project \in view.projects : normalizePathPrefix(project.path) = path
        m     == matchingMapping(view, path)
    IN  CASE known ->
                assertApprovedHostPath(view, "discovered_project", path, TRUE)
          [] ~known /\ Matching(view, path) # {} ->
                assertApprovedHostPath(view, "mapping",
                                       joinMappedPath(m.to, m.from, path), unapproved)
          [] OTHER ->
                assertApprovedHostPath(view, IF Approved(view, path) THEN "host_root"
                                             ELSE "explicit_host_path", path, unapproved)

\* A mapping may lead only to an approved path, or to any if the caller says so.
MayMapTo(view, hostPrefix, unapproved) ==
    assertApprovedHostPath(view, "mapping", normalizePathPrefix(hostPrefix), unapproved) # Refused

\* A mapping as it is written, with the paths of the caller made normal.
WrittenMapping(id, call) ==
    [id |-> id, host |-> call.host, from |-> normalizePathPrefix(call.path),
     to |-> normalizePathPrefix(call.to), enabled |-> call.on]

\* The row that a mapping is written to: by id, else by its prefixes; 0 for a new one.
RowOfMapping(mappings, call) ==
    LET written == WrittenMapping(call.id, call)
        byId    == {m \in mappings : m.id = call.id}
        bySame  == {m \in mappings : m.host = written.host /\ m.from = written.from /\ m.to = written.to}
    IN  CASE byId # {} -> call.id
          [] byId = {} /\ bySame # {} -> (CHOOSE m \in bySame : TRUE).id
          [] OTHER -> 0
==============================================================================
