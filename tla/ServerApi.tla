------------------------------ MODULE ServerApi ------------------------------
(***************************************************************************)
(* The calls of the server's GraphQL interface                             *)
(* (packages/server/src/graphql/index.js) from the bearer token to the     *)
(* record in the audit: authentication, the decision, the steps of the     *)
(* operation between which other calls run, and the answer.  The steps of  *)
(* the operations on templates, path mappings, directories, tokens and of  *)
(* the discovery of projects are modelled; the other operations act in one *)
(* step, which only counts here as done.                                   *)
(*                                                                         *)
(* setting says which calls are made, by whom, and what can fail.          *)
(***************************************************************************)
EXTENDS AccessRules, TemplateRules, ProjectRules

CONSTANTS Hosts,      \* ids of hosts
          Settings    \* what can happen: see MCServerApi

\* A token as the database keeps it (normalizeNumberArray: ids are positive).
TokenKinds ==
    [mode : Modes, scopes : Seq([scope : STRING, denied : BOOLEAN]),
     hosts : SUBSET (Nat \ {0}), projects : SUBSET (Nat \ {0}), prefixes : SUBSET Seq(STRING),
     raw : BOOLEAN]

\* At first no two templates have one id or one scope; "raw" marks a command of a caller's own and
\* is none of a template.  A process is asked for by its projectPath, codexPath and cwd.
ASSUME ServerApiAssumption ==
    /\ Hosts \subseteq Nat \ {0}
    /\ \A s \in Settings :
          /\ \A t \in DOMAIN s.tokens : s.tokens[t] \in TokenKinds
          /\ IsFiniteSet(s.templates) /\ IsFiniteSet(s.projects)
          /\ DOMAIN s.reports = 1 .. Len(s.reports) /\ Len(s.reports) \in Nat \ {0}
          /\ \A i \in DOMAIN s.reports : IsFiniteSet(s.reports[i])
          /\ \A t \in s.templates : t.id \in Nat \ {0} /\ t.command # "raw"
          /\ \A t, u \in s.templates : t.id = u.id \/ ScopeOf(t) = ScopeOf(u) => t = u
          /\ \A r \in DOMAIN s.calls :
                /\ s.calls[r].command # "raw"
                /\ s.calls[r].op = "ensureProcessFromTemplate" => s.calls[r].path = <<>>

VARIABLES
    setting,    \* one of Settings
    db,         \* the tables: tokens, projects, mappings, templates, directories,
                \* definitions (of processes), audit
    ids,        \* the last id given out in each table
    custom,     \* the paths added by hand that the server holds
    at,         \* the place, in the reports of setting, of what the slaves report now
    requests,   \* the state of each call
    restarts,   \* of the server
    settled,    \* history: what the last upsert of a scope wrote, where it was alone
    crowded     \* history: the scopes where two writes overlapped

vars == <<setting, db, ids, custom, at, requests, restarts, settled, crowded>>

Requests == DOMAIN setting.calls
Call(r)  == setting.calls[r]
At(r, pc) == requests[r].pc = pc

NoRow == [id |-> 0]
Fresh == [pc |-> "new", answer |-> "none", performed |-> FALSE, project |-> NoRow,
          template |-> NoRow, row |-> 0, view |-> {}, found |-> {}, made |-> {},
          steady |-> FALSE]

Go(r, next) == requests' = [requests EXCEPT ![r] = next]
Moved(r, pc) == [requests[r] EXCEPT !.pc = pc]

\* The operation threw, or returned; what follows is the audit and the answer.  performed
\* says that something has been changed, which an error does not undo.
Ended(r, ok) == [requests[r] EXCEPT !.pc = "audit", !.answer = IF ok THEN "ok" ELSE "error",
                                    !.performed = @ \/ ok]

\* The master or the host did what it was asked to, but its answer was lost, or what was to
\* be committed after it was not.
Unheard(r) == [Ended(r, FALSE) EXCEPT !.performed = TRUE]

Fail(r) == Go(r, Ended(r, FALSE)) /\ UNCHANGED <<setting, db, ids, custom, at, restarts, settled, crowded>>
Step(r, next) == Go(r, next) /\ UNCHANGED <<setting, db, ids, custom, at, restarts, settled, crowded>>

-----------------------------------------------------------------------------
(* Who calls, and whether he may.                                          *)

\* A person who is signed in, and a token of the server's environment, may do all.
FullProfile == [mode |-> "full-access", scopes |-> <<>>, hosts |-> {}, projects |-> {},
                prefixes |-> {}, raw |-> TRUE]

Automation(t) == t # "person"
Stored(t)     == t \in DOMAIN setting.tokens

\* A token of full access may define commands of its own.
buildAccessProfile(t) ==
    IF Stored(t) THEN [setting.tokens[t] EXCEPT !.raw = @ \/ setting.tokens[t].mode = "full-access"]
                 ELSE FullProfile

\* A token is looked up in the database, then in the environment; one that is revoked,
\* expired or unknown to both is refused.  lastUsedAt is not modelled.
Authenticate(r) ==
    /\ At(r, "new")
    /\ Call(r).op # "discovery.projects"
    /\ \/ /\ Stored(Call(r).token) => db.tokens[Call(r).token] = "active"
          /\ Step(r, Moved(r, "called"))
       \/ /\ Stored(Call(r).token)
          /\ db.tokens[Call(r).token] # "active" \/ "database" \in setting.faults
          /\ Step(r, [Moved(r, "done") EXCEPT !.answer = "error"])

Steps == [ensureProcessFromTemplate |-> "find", upsertProcessTemplate |-> "check",
          upsertHostPathMapping |-> "roots", addHostDirectory |-> "directory",
          removeHostDirectory |-> "directory", discoveredProjects |-> "scan",
          addProject |-> "add"]

First(op) == IF op \in DOMAIN Steps THEN Steps[op] ELSE "act"

Allowed(r) ==
    authorizeLifecycleAction(buildAccessProfile(Call(r).token), Call(r),
                             Automation(Call(r).token) => setting.fullAccess)

\* A refusal is audited only by the operations that audit all they do.
Authorize(r) ==
    /\ At(r, "called")
    /\ IF Allowed(r) THEN Step(r, Moved(r, First(Call(r).op)))
       ELSE IF Operation(Call(r).op).audit = "all" THEN Fail(r)
       ELSE Step(r, [Moved(r, "done") EXCEPT !.answer = "error"])

-----------------------------------------------------------------------------
(* Processes from templates.                                               *)

HostView(h) == [directories |-> db.directories[h],
                projects    |-> {p \in db.projects : p.host = h},
                mappings    |-> {m \in db.mappings : m.host = h}]

\* The path of the project on the host: resolved, or else as the caller wrote it.
hostPathOf(view, call) ==
    IF call.codexPath # <<>> THEN resolveHostPath(view, call.codexPath, call.unapproved)
    ELSE Resolved("caller", call.projectPath, NoRoot)

\* The project of a call: the one it names, or the one at the path.
findProject(call) ==
    LET path == hostPathOf(HostView(call.host), call).hostPath
    IN  IF call.project # 0
        THEN {p \in HostView(call.host).projects : p.id = call.project}
        ELSE {p \in HostView(call.host).projects :
                path # <<>> /\ p.path = normalizePathPrefix(path)}

FindProject(r) ==
    /\ At(r, "find")
    /\ \/ \E p \in findProject(Call(r)) :
            Step(r, [Moved(r, "refind") EXCEPT !.project = p, !.view = HostView(Call(r).host)])
       \/ findProject(Call(r)) = {} /\ Fail(r)

\* The list of templates finds the project once more.
FindAgain(r) ==
    /\ At(r, "refind")
    /\ \/ \E p \in findProject(Call(r)) : Step(r, [Moved(r, "list") EXCEPT !.row = p.id])
       \/ findProject(Call(r)) = {} /\ Fail(r)

\* row is the id of the project that was found the second time.
ListTemplates(r) ==
    LET named == TemplateNamed(db.templates, Call(r).host, [id |-> requests[r].row], Call(r).key)
    IN  /\ At(r, "list")
        /\ \/ \E template \in named : Step(r, [Moved(r, "compile") EXCEPT !.template = template])
           \/ named = {} /\ Fail(r)

\* Seeded fault: the path of the caller is used on the host.
CallersPath(r) ==
    Resolved("caller", Or(Call(r).codexPath, Or(Call(r).projectPath, requests[r].project.path)), NoRoot)

\* The path that the process is compiled with: resolved a third time, as the caller wrote
\* it, or that of the project.
projectHostPath(r) ==
    IF Call(r).codexPath = <<>> /\ Call(r).projectPath = <<>>
    THEN Resolved("project", requests[r].project.path, NoRoot)
    ELSE hostPathOf(HostView(Call(r).host), Call(r))

Compile(r) ==
    LET path == projectHostPath(r)
    IN  /\ At(r, "compile")
        /\ IF path = Refused THEN Fail(r)
           ELSE Step(r, [Moved(r, "register") EXCEPT
                           !.steady = requests[r].view = HostView(Call(r).host),
                           !.view = {},
                           !.made = {compileProcessTemplate(requests[r].template, Call(r).host,
                                                            requests[r].project,
                                                            path.hostPath, Call(r))}])

\* The registry reads the project again, and another project of the host may not have
\* the key.
MayRegister(made) ==
    /\ \E p \in db.projects : p.id = made.project
    /\ \A d \in db.definitions : d.host = made.host /\ d.key = made.key => d.project = made.project

\* The definition is written and the master is told of it, then it is committed.  Without
\* an answer of the master, or if the commit is refused, nothing is kept in the table; the
\* master may have it nevertheless.
Register(r) ==
    /\ At(r, "register")
    /\ \E made \in requests[r].made :
         \/ /\ MayRegister(made)
            /\ db' = [db EXCEPT !.definitions =
                        {made} \union {d \in @ : d.host # made.host \/ d.key # made.key}]
            /\ Go(r, Ended(r, TRUE))
            /\ UNCHANGED <<setting, ids, custom, at, restarts, settled, crowded>>
         \/ MayRegister(made) /\ "master" \in setting.faults /\ Step(r, Unheard(r))
         \/ (~MayRegister(made) \/ "master" \in setting.faults) /\ Fail(r)

-----------------------------------------------------------------------------
(* Templates.                                                              *)

\* A project that exists, when one is named.
HasProject(call) == call.project # 0 => \E p \in db.projects : p.id = call.project

CheckTemplate(r) ==
    /\ At(r, "check")
    /\ IF HasProject(Call(r)) THEN Step(r, Moved(r, "look")) ELSE Fail(r)

LookForTemplate(r) ==
    /\ At(r, "look") /\ Call(r).op = "upsertProcessTemplate"
    /\ \E id \in RowOfTemplate(db.templates, Call(r)) :
          Step(r, [Moved(r, "write") EXCEPT !.row = id])

CallScope(r) == <<Call(r).host, Call(r).project, Call(r).key>>

\* The scopes that the write of r concerns: its own, and that of the row it names.
ScopesOf(r) ==
    {CallScope(r)} \union {ScopeOf(t) : t \in {t \in db.templates : t.id = Call(r).id}}

\* The other upserts that have looked for their row and not yet written it.
Overlapping(r) ==
    {q \in Requests \ {r} : At(q, "write") /\ Call(q).op = "upsertProcessTemplate"}

\* An upsert is alone when no other of these scopes is under way and it moves no row.
Crowding(r) ==
    (UNION {ScopesOf(q) \intersect ScopesOf(r) : q \in Overlapping(r)})
      \union (IF Cardinality(ScopesOf(r)) > 1 THEN ScopesOf(r) ELSE {})

\* What an upsert of a scope promises to callers.
Content(t) == <<t.enabled, t.codex, t.command, t.cwd>>

Settle(r, written) ==
    /\ crowded' = crowded \union Crowding(r)
    /\ settled' = LET scopes == (DOMAIN settled \union {ScopeOf(t) : t \in written}) \ crowded'
                  IN  [s \in scopes |-> IF \E t \in written : ScopeOf(t) = s
                                        THEN Content(CHOOSE t \in written : TRUE)
                                        ELSE settled[s]]

\* A new row, or the row found before.  One deleted meanwhile is not written, and no
\* error comes of it.
WriteTemplate(r) ==
    LET row     == requests[r].row
        written == {WrittenTemplate(IF row = 0 THEN ids.template + 1 ELSE row, Call(r))}
        missing == row # 0 /\ \A t \in db.templates : t.id # row
    IN  /\ At(r, "write") /\ Call(r).op = "upsertProcessTemplate"
        /\ IF ~HasProject(Call(r)) THEN Fail(r)
           ELSE /\ db' = IF missing THEN db
                         ELSE [db EXCEPT !.templates = {t \in @ : t.id # row} \union written]
                /\ ids' = IF row = 0 THEN [ids EXCEPT !.template = @ + 1] ELSE ids
                /\ Settle(r, IF missing THEN {} ELSE written)
                /\ Go(r, Ended(r, TRUE))
                /\ UNCHANGED <<setting, custom, at, restarts>>

\* A row by its id, and of the host and project if the call names them.
DeleteTemplate(r) ==
    LET gone == {t \in db.templates : /\ t.id = Call(r).id
                                      /\ Call(r).host \in {0, t.host}
                                      /\ Call(r).project \in {0, t.project}}
        scopes == DOMAIN settled \ {ScopeOf(t) : t \in gone}
    IN  /\ At(r, "act") /\ Call(r).op = "deleteProcessTemplate"
        /\ db' = [db EXCEPT !.templates = @ \ gone]
        /\ settled' = [s \in scopes |-> settled[s]]
        /\ Go(r, Ended(r, TRUE))
        /\ UNCHANGED <<setting, ids, custom, at, restarts, crowded>>

-----------------------------------------------------------------------------
(* Path mappings and directories.                                          *)

CheckMapping(r) ==
    /\ At(r, "roots")
    /\ IF MayMapTo(HostView(Call(r).host), Call(r).to, Call(r).unapproved)
       THEN Step(r, Moved(r, "look")) ELSE Fail(r)

LookForMapping(r) ==
    /\ At(r, "look") /\ Call(r).op = "upsertHostPathMapping"
    /\ Step(r, [Moved(r, "write") EXCEPT !.row = RowOfMapping(db.mappings, Call(r))])

\* No two rows of a host have the same prefixes: such a write fails.
WriteMapping(r) ==
    LET row  == requests[r].row
        call == Call(r)
        written == WrittenMapping(IF row = 0 THEN ids.mapping + 1 ELSE row, call)
        taken == \E m \in db.mappings : m.host = written.host /\ m.from = written.from
                                        /\ m.to = written.to /\ m.id # row
        missing == row # 0 /\ \A m \in db.mappings : m.id # row
    IN  /\ At(r, "write") /\ call.op = "upsertHostPathMapping"
        /\ IF taken /\ ~missing THEN Fail(r)
           ELSE /\ db' = [db EXCEPT !.mappings =
                            IF missing THEN @
                            ELSE {m \in @ : m.id # row} \union {written}]
                /\ ids' = IF row = 0 THEN [ids EXCEPT !.mapping = @ + 1] ELSE ids
                /\ Go(r, Ended(r, TRUE))
                /\ UNCHANGED <<setting, custom, at, restarts, settled, crowded>>

DeleteMapping(r) ==
    /\ At(r, "act") /\ Call(r).op = "deleteHostPathMapping"
    /\ db' = [db EXCEPT !.mappings = {m \in @ : m.id # Call(r).id
                                                \/ Call(r).host \notin {0, m.host}}]
    /\ Go(r, Ended(r, TRUE))
    /\ UNCHANGED <<setting, ids, custom, at, restarts, settled, crowded>>

\* The directory is made on the host, which may fail, or be done and fail to be answered;
\* then its list is read, and written with the change: an overlapping change of the same
\* host is lost.
ReadDirectories(r) ==
    /\ At(r, "directory")
    /\ \/ Step(r, [Moved(r, "write") EXCEPT !.view = db.directories[Call(r).host],
                                            !.performed = TRUE])
       \/ "master" \in setting.faults /\ (Step(r, Unheard(r)) \/ Fail(r))

WriteDirectories(r) ==
    /\ At(r, "write") /\ Call(r).op \in {"addHostDirectory", "removeHostDirectory"}
    /\ db' = [db EXCEPT !.directories[Call(r).host] =
                IF Call(r).op = "addHostDirectory" THEN requests[r].view \union {Call(r).path}
                ELSE requests[r].view \ {Call(r).path}]
    /\ Go(r, [Ended(r, TRUE) EXCEPT !.view = {}])
    /\ UNCHANGED <<setting, ids, custom, at, restarts, settled, crowded>>

-----------------------------------------------------------------------------
(* Tokens, and the operations that act in one step.                        *)

SetToken(r, from, to) ==
    /\ db' = [db EXCEPT !.tokens[Call(r).id] = IF @ \in from THEN to ELSE @]
    /\ Go(r, Ended(r, TRUE))
    /\ UNCHANGED <<setting, ids, custom, at, restarts, settled, crowded>>

CreateToken(r) ==
    /\ At(r, "act") /\ Call(r).op = "createAutomationApiToken"
    /\ IF Call(r).full /\ ~setting.fullAccess THEN Fail(r)
       ELSE SetToken(r, {"none"}, "active")

RevokeToken(r) ==
    /\ At(r, "act") /\ Call(r).op = "revokeAutomationApiToken"
    /\ SetToken(r, {"active", "expired"}, "revoked")

Modelled == DOMAIN Steps \union {"deleteProcessTemplate", "deleteHostPathMapping",
                                 "createAutomationApiToken", "revokeAutomationApiToken"}

\* Of the operations that act in one step, those that write may have acted and fail.
Act(r) ==
    /\ At(r, "act") /\ Call(r).op \notin Modelled
    /\ \/ Step(r, Ended(r, TRUE))
       \/ "master" \in setting.faults /\ Fail(r)
       \/ "master" \in setting.faults /\ Call(r).op \notin ReadNames /\ Step(r, Unheard(r))

-----------------------------------------------------------------------------
(* The discovery of projects.                                              *)

\* What the slaves report now, as the master lists it.
Reported == setting.reports[at]

\* A slave connects, scans its directories, or is lost with all its projects.
Report ==
    /\ at < Len(setting.reports)
    /\ at' = at + 1
    /\ UNCHANGED <<setting, db, ids, custom, requests, restarts, settled, crowded>>

\* The first step of addProject; the discovery it starts is part of the call, and may fail
\* with the path added.
AddProject(r) ==
    /\ At(r, "add")
    /\ custom' = custom \union {normalizePathPrefix(Call(r).path)}
    /\ Go(r, [Moved(r, "scan") EXCEPT !.performed = TRUE])
    /\ UNCHANGED <<setting, db, ids, at, restarts, settled, crowded>>

\* The list is read from the master, or has come with an event of the master.
Scan(r) ==
    \/ At(r, "scan") /\ Step(r, [Moved(r, "merge") EXCEPT !.found = Reported])
    \/ At(r, "scan") /\ "master" \in setting.faults /\ Fail(r)
    \/ /\ At(r, "new") /\ Call(r).op = "discovery.projects"
       /\ Step(r, [Moved(r, "merge") EXCEPT !.found = Reported])

\* The paths added by hand, and the rows of the hosts.
Merge(r) ==
    /\ At(r, "merge")
    /\ Step(r, [Moved(r, "sync") EXCEPT !.found = Merged(@, custom, setting.agents)])

\* The merge into the table, in one transaction: by path and, of one path, in the order in
\* which the slaves became known, which may be any.  With a project go its templates and
\* its processes.
Sync(r) ==
    /\ At(r, "sync")
    /\ \E list \in SetToSeqs(requests[r].found) :
         LET projects == syncDiscoveredProjects(db.projects, requests[r].found, list, ids.project + 1)
             kept     == {0} \union {p.id : p \in projects}
             scopes   == {s \in DOMAIN settled : s[2] \in kept}
         IN  /\ db' = [db EXCEPT !.projects = projects,
                                 !.templates = {t \in @ : t.project \in kept},
                                 !.definitions = {d \in @ : d.project \in kept}]
             /\ ids' = [ids EXCEPT !.project = NextId(projects \union {[id |-> @]}) - 1]
             /\ settled' = [s \in scopes |-> settled[s]]
    /\ Go(r, [Ended(r, TRUE) EXCEPT !.found = {}])
    /\ UNCHANGED <<setting, custom, at, restarts, crowded>>

-----------------------------------------------------------------------------
(* The audit, and what happens around the calls.                           *)

\* Seeded fault: an audit record that cannot be written is an error of the call, which is
\* then recorded as well.
AuditThrows(r) ==
    \/ db' = [db EXCEPT !.audit = @ \union {[request |-> r, status |-> requests[r].answer]}]
       /\ Go(r, Moved(r, "done"))
    \/ /\ db' = [db EXCEPT !.audit = @ \union {[request |-> r, status |-> "error"]}]
       /\ Go(r, [Moved(r, "done") EXCEPT !.answer = "error"])

\* The record, then the answer.  A record that cannot be written is dropped.
recordRuntimeAuditEvent(r) ==
    /\ Go(r, Moved(r, "done"))
    /\ \/ db' = [db EXCEPT !.audit = @ \union {[request |-> r, status |-> requests[r].answer]}]
       \/ "database" \in setting.faults /\ db' = db

Audited(op) == op # "discovery.projects" /\ Operation(op).audit # "none"

Audit(r) ==
    /\ At(r, "audit")
    /\ IF Audited(Call(r).op) THEN recordRuntimeAuditEvent(r)
       ELSE Go(r, Moved(r, "done")) /\ db' = db
    /\ UNCHANGED <<setting, ids, custom, at, restarts, settled, crowded>>

Expire ==
    /\ \E t \in setting.expiring :
          /\ db.tokens[t] = "active"
          /\ db' = [db EXCEPT !.tokens[t] = "expired"]
    /\ UNCHANGED <<setting, ids, custom, at, requests, restarts, settled, crowded>>

\* The server restarts: the calls under way end where they are, and the paths added by
\* hand are those of the table.
Restart ==
    /\ "crash" \in setting.faults /\ restarts = 0
    /\ restarts' = 1
    /\ requests' = [r \in Requests |-> IF requests[r].pc \in {"new", "done"} THEN requests[r]
                                       ELSE [requests[r] EXCEPT !.pc = "lost"]]
    /\ custom' = {p.path : p \in {p \in db.projects : p.custom}}
    /\ crowded' = crowded
    /\ UNCHANGED <<setting, db, ids, at, settled>>

Init ==
    /\ setting \in Settings
    /\ db = [tokens |-> setting.states, projects |-> setting.projects,
             mappings |-> setting.mappings, templates |-> setting.templates,
             directories |-> setting.directories, definitions |-> {}, audit |-> {}]
    /\ ids = [project |-> NextId(setting.projects) - 1, mapping |-> NextId(setting.mappings) - 1,
              template |-> NextId(setting.templates) - 1]
    /\ custom = {p.path : p \in {p \in setting.projects : p.custom}}
    /\ at = 1
    /\ requests = [r \in DOMAIN setting.calls |-> Fresh]
    /\ restarts = 0
    /\ settled = [s \in {} |-> <<>>]
    /\ crowded = {}

Work(r) ==
    \/ Authenticate(r) \/ Authorize(r)
    \/ FindProject(r) \/ FindAgain(r) \/ ListTemplates(r) \/ Compile(r) \/ Register(r)
    \/ CheckTemplate(r) \/ LookForTemplate(r) \/ WriteTemplate(r) \/ DeleteTemplate(r)
    \/ CheckMapping(r) \/ LookForMapping(r) \/ WriteMapping(r) \/ DeleteMapping(r)
    \/ ReadDirectories(r) \/ WriteDirectories(r)
    \/ CreateToken(r) \/ RevokeToken(r) \/ Act(r)
    \/ AddProject(r) \/ Scan(r) \/ Merge(r) \/ Sync(r) \/ Audit(r)

Next == (\E r \in Requests : Work(r)) \/ Report \/ Expire \/ Restart

Spec == Init /\ [][Next]_vars

-----------------------------------------------------------------------------
(* Properties.                                                             *)

\* The only path that the caller gave is one of the host, without "..", and the process
\* runs there.
RunsAtNamed(r) ==
    LET call == Call(r)
    IN  /\ call.codexPath = <<>> /\ ((call.projectPath = <<>>) # (call.cwd = <<>>))
        /\ normalizePathPrefix(NamedPath(call)) = NamedPath(call)
        /\ call.cwd = <<>> => requests[r].template.cwd = <<>>

\* A process that a limited token has compiled, even if the call fails then, is one of its
\* hosts and projects, however the project was found, and the command is the caller's own
\* only if the token has that right.  Where the caller gave one path of the host, it runs
\* under one of the token's prefixes.  (Of several paths only the first is looked at, and
\* ".." is not resolved; a codexPath is under a prefix as the caller wrote it, and leads
\* where the mappings of the host say.)
WithinToken ==
    \A r \in Requests : Stored(Call(r).token) =>
        LET token == buildAccessProfile(Call(r).token)
        IN  \A made \in requests[r].made :
               /\ token.hosts # {} => made.host \in token.hosts
               /\ token.projects # {} => made.project \in token.projects
               /\ made.command = "raw" => token.raw
               /\ token.prefixes # {} /\ RunsAtNamed(r) =>
                     \E prefix \in token.prefixes : pathStartsWith(made.cwd, prefix)

\* The template that callers get for a scope is the one the last upsert of that scope
\* wrote, whatever was written to other scopes, unless it overlapped another write of the
\* scope or was moved by its id: then there may be two rows and the older one is written.
UpsertTakesEffect ==
    \A s \in DOMAIN settled :
        \E t \in db.templates :
            /\ ScopeOf(t) = s /\ Content(t) = settled[s]
            /\ \A other \in db.templates : ScopeOf(other) = s => other.id <= t.id

\* A process defined for a path alone, without a cwd of its own or of its template, runs at
\* the path of the project it belongs to, unless, for a path that is resolved, the mappings,
\* the directories or the projects of the host changed between the first and the last time.
PathOfProject ==
    \A r \in Requests : \A made \in requests[r].made :
        /\ Call(r).project = 0
        /\ Call(r).cwd = <<>> /\ requests[r].template.cwd = <<>>
        /\ Call(r).codexPath # <<>> => requests[r].steady
        => made.project = requests[r].project.id /\ made.cwd = requests[r].project.path

\* The operations that write to the tables and ask nothing of the master or a host.
OnTables == {"upsertProcessTemplate", "deleteProcessTemplate", "upsertHostPathMapping",
             "deleteHostPathMapping", "createAutomationApiToken", "revokeAutomationApiToken"}

\* Nothing is done for a call that is not allowed, even if it fails.  A call answered as
\* done was done.  One that was answered as an error may have been done, when the answer of
\* the master or of a host was lost or a later step failed, but not if it only writes to the
\* tables.  What was done and answered is in the audit, unless the record could not be
\* written; no call has two records, and its record says what the caller was told.
ToldTruly ==
    /\ \A r \in Requests :
          /\ requests[r].performed /\ Call(r).op # "discovery.projects" => Allowed(r)
          /\ At(r, "done") /\ requests[r].answer = "ok" => requests[r].performed
          /\ At(r, "done") /\ requests[r].performed =>
                /\ Call(r).op \in OnTables => requests[r].answer = "ok"
                /\ Audited(Call(r).op) /\ "database" \notin setting.faults =>
                      \E e \in db.audit : e.request = r
    /\ \A e \in db.audit : At(e.request, "done") /\ e.status = requests[e.request].answer
    /\ \A e, f \in db.audit : e.request = f.request => e = f

\* The paths that the slaves report all the time.
Steady == {path \in {e.path : e \in UNION {setting.reports[i] : i \in DOMAIN setting.reports}} :
             \A i \in DOMAIN setting.reports : \E e \in setting.reports[i] : e.path = path}

\* A project whose path the slaves never stop reporting keeps its row, and with it its
\* templates and its processes: no discovery, however late its list, takes it away.
SteadyProjectsStay ==
    [][\A p \in db.projects : p.path \in Steady => \E q \in db'.projects : q.id = p.id]_vars
=============================================================================
