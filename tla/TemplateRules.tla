---------------------------- MODULE TemplateRules ----------------------------
(***************************************************************************)
(* The templates of processes (packages/server/src/processTemplates.js): a *)
(* template of a host's project goes before one of the project, that       *)
(* before one of the host, and that before one for all; the templates that *)
(* come with the program are the last.                                     *)
(*                                                                         *)
(* A row is a record [id, host, project, key, enabled, codex, command,     *)
(* cwd]; 0 stands for any host, or any project, and a cwd of <<>> for the  *)
(* path of the project, "{{project.hostPath}}".  The processKeyTemplate is *)
(* the key, and logRoot, args and env are left out.                        *)
(***************************************************************************)
EXTENDS PathRules

\* Where a template applies.
ScopeOf(row) == <<row.host, row.project, row.key>>

getTemplateScope(row) ==
    CASE row.id = 0                        -> 0
      [] row.host # 0 /\ row.project # 0   -> 400
      [] row.host = 0 /\ row.project # 0   -> 300
      [] row.host # 0 /\ row.project = 0   -> 200
      [] OTHER                             -> 100

\* What is known of the kind of a project: its row has no types, so nothing.
getProjectTypes(project) == {}

\* The templates that come with the program, by what is known of the project.
NodeTemplates   == {"node.dev", "node.build", "node.test"}
DockerTemplates == {"docker.compose.up", "docker.compose.down",
                    "docker.compose.clearbox.up", "docker-compose-web"}
MakeTemplates   == {"make.start", "make.test"}

inferDefaultProcessTemplates(project) ==
    LET types == getProjectTypes(project)
        known == types # {}
        keys  == DockerTemplates
                   \union (IF ~known \/ "node-project" \in types THEN NodeTemplates ELSE {})
                   \union (IF ~known \/ "make-project" \in types THEN MakeTemplates ELSE {})
    IN  {[id |-> 0, host |-> 0, project |-> 0, key |-> key, enabled |-> TRUE,
          codex |-> TRUE, command |-> key, cwd |-> <<>>] : key \in keys}

\* The rows that apply to a project of a host.
loadPersistedTemplates(rows, host, project) ==
    {row \in rows : row.host \in {0, host} /\ row.project \in {0, project.id}}

\* Whether a row goes before another one: by scope, then the newer one.
Before(row, other) ==
    \/ getTemplateScope(row) > getTemplateScope(other)
    \/ getTemplateScope(row) = getTemplateScope(other) /\ row.id > other.id

selectHighestPrecedenceTemplates(rows) ==
    {row \in rows : \A other \in rows : other.key = row.key /\ other # row => Before(row, other)}

\* The templates of a project, one for each key: what is switched off is dropped after
\* the choice, so that it hides what it goes before.
listProcessTemplates(rows, host, project, all) ==
    {row \in selectHighestPrecedenceTemplates(loadPersistedTemplates(rows, host, project)
                                                \union inferDefaultProcessTemplates(project)) :
        all \/ (row.enabled /\ row.codex)}

\* The template a call names, in a set of at most one.
TemplateNamed(rows, host, project, key) ==
    {row \in listProcessTemplates(rows, host, project, TRUE) :
        row.key = key /\ row.enabled /\ row.codex}

\* What a template becomes for a project, whose path is given or resolved: the process runs
\* at cwd.  Deployments are left out.
compileProcessTemplate(template, host, project, path, call) ==
    [host |-> host, project |-> project.id, projectPath |-> path,
     key |-> IF call.processKey = "none" THEN template.key ELSE call.processKey,
     cwd |-> normalizePathPrefix(Or(call.cwd, Or(template.cwd, path))),
     command |-> IF call.raw THEN "raw" ELSE template.command,
     template |-> template.id]

\* Seeded fault: a row is found by its key alone.
SameKey(rows, call) == {row \in rows : row.key = call.key}

\* The rows of the scope that a call names.
RowsOfScope(rows, call) ==
    {row \in rows : ScopeOf(row) = <<call.host, call.project, call.key>>}

\* The row that an upsert writes: by id, else any of its scope; 0 for a new one.
RowOfTemplate(rows, call) ==
    IF \E row \in rows : row.id = call.id THEN {call.id}
    ELSE IF RowsOfScope(rows, call) = {} THEN {0}
    ELSE {row.id : row \in RowsOfScope(rows, call)}

\* A template as an upsert writes it.
WrittenTemplate(id, call) ==
    [id |-> id, host |-> call.host, project |-> call.project, key |-> call.key,
     enabled |-> call.on, codex |-> call.codex, command |-> call.command, cwd |-> call.cwd]
==============================================================================
