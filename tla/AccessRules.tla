----------------------------- MODULE AccessRules -----------------------------
(***************************************************************************)
(* What a caller of the server's GraphQL interface may do                  *)
(* (packages/server/src: auth/lifecycleAccess.js, auth/automationTokens.js *)
(* and the resolvers of graphql/index.js): the access modes of a token and *)
(* the scopes they bring, what each operation requires, and the decision.  *)
(*                                                                         *)
(* An id is a positive number; 0 stands for none.  A token is a record     *)
(* [mode, scopes, hosts, projects, prefixes, raw]; an entry of scopes is a *)
(* record [scope, denied], where denied stands for a name that begins with *)
(* "!".                                                                    *)
(***************************************************************************)
EXTENDS PathRules

ACCESS_MODES ==
    <<"observe", "operate-template", "operate-project", "operate-host", "admin", "full-access">>

Modes == ToSet(ACCESS_MODES)

isModeAtLeast(mode, required) ==
    \E i, k \in DOMAIN ACCESS_MODES :
        ACCESS_MODES[i] = required /\ ACCESS_MODES[k] = mode /\ i <= k

ALL_AUTOMATION_SCOPES ==
    {"runtime:read", "runtime:ensure", "runtime:delete", "runtime:restart",
     "runtime:kill:soft", "runtime:kill:hard", "runtime:raw-command",
     "runtime:templates:read", "runtime:templates:write", "hosts:read", "hosts:write",
     "paths:read", "paths:write", "logs:read", "audit:read", "tokens:read",
     "tokens:write", "admin:full-access"}

\* The scopes that come with a mode; each mode has those of the one before it.
DefaultScopes(mode) ==
    LET observe  == {"runtime:read", "runtime:templates:read", "hosts:read", "paths:read",
                     "logs:read"}
        template == observe \union {"runtime:ensure", "runtime:delete", "runtime:restart",
                                    "runtime:kill:soft"}
        project  == template \union {"runtime:templates:write", "paths:write"}
        host     == project \union {"runtime:kill:hard", "hosts:write"}
        admin    == host \union {"runtime:raw-command", "audit:read", "tokens:read",
                                 "tokens:write"}
    IN  CASE mode = "observe" -> observe
          [] mode = "operate-template" -> template
          [] mode = "operate-project" -> project
          [] mode = "operate-host" -> host
          [] mode = "admin" -> admin
          [] mode = "full-access" -> ALL_AUTOMATION_SCOPES

\* The scopes of a token: those of its mode, added to and denied in turn, so that the last
\* entry for a scope decides; of equal entries only the first counts.
expandScopesForAccessMode(token) ==
    LET Entries(scope) == {i \in DOMAIN token.scopes :
                              /\ token.scopes[i].scope = scope
                              /\ \A k \in 1 .. (i - 1) : token.scopes[k] # token.scopes[i]}
        Named(scope) == IF Entries(scope) = {} THEN scope \in DefaultScopes(token.mode)
                        ELSE ~token.scopes[Max(Entries(scope))].denied
    IN  {scope \in ALL_AUTOMATION_SCOPES : token.mode = "full-access" \/ Named(scope)}

-----------------------------------------------------------------------------
(* The operations.                                                         *)

\* What an operation asks of the rules: its action and scope, which arguments its
\* target shows ("host", "project", "path"), whether it defines a command of the
\* caller's own ("no", "yes", or "given": when the call gives one), whether it kills
\* hard, and who writes the audit: "all" (also refusals), "acts" or "none".
Op(action, scope, shows, raw, audit) ==
    [action |-> action, scopes |-> {scope}, shows |-> shows, raw |-> raw, audit |-> audit]

Reads ==
    LET Read(action, shows) == Op(action, action, shows, "no", "none")
    IN  [hosts |-> Read("hosts:read", {}),
         automationApiTokens |-> Read("tokens:read", {}),
         runtimeAuditEvents |-> Read("audit:read", {"host", "project"}),
         hostPathMappings |-> Read("paths:read", {"host"}),
         resolveHostPath |-> Read("paths:read", {"host", "path"}),
         processTemplates |-> Read("runtime:templates:read", {"host", "project", "path"}),
         resolveProcessTemplate |-> Read("runtime:templates:read", {"host", "project", "path"})]

RuntimeReads ==
    LET Read(action, shows) == Op(action, action, shows, "no", "none")
    IN  [waitForRuntime |-> [Read("runtime:read", {"host", "project", "path"}) EXCEPT
                               !.scopes = {"runtime:read", "logs:read"}],
         slaveRuntimeState |-> Read("runtime:read", {"host"}),
         desiredProcesses |-> Read("runtime:read", {"host", "project"}),
         deploymentInstances |-> Read("runtime:read", {"host", "project"}),
         hostRuntimeEnv |-> Read("runtime:read", {"host"}),
         hostSshKeyConfig |-> Read("hosts:read", {"host"}),
         observedProcessRuns |-> Read("runtime:read", {"host", "project"})]

ProjectReads ==
    LET Read(action, shows) == Op(action, action, shows, "no", "none")
    IN  [terminalSession |-> Read("hosts:read", {"host"}),
         discoveryConfig |-> Read("hosts:read", {}),
         discoveredProjects |-> Read("hosts:read", {}),
         projectRuntime |-> Read("runtime:read", {"path"}),
         projectLogs |-> Read("logs:read", {"path"}),
         hostLogs |-> Read("logs:read", {"host"}),
         projectLaunchEnvironment |-> Read("runtime:read", {"path"}),
         projectPortRangeSettings |-> Read("runtime:read", {"path"}),
         projectProcessStats |-> Read("runtime:read", {"path"})]

HostWrites ==
    LET Write(shows) == Op("hosts:write", "hosts:write", shows, "no", "none")
    IN  [updateDiscoveryConfig |-> Write({}),
         addProject |-> Write({"path"}),
         addHost |-> Write({}),
         deleteHost |-> Write({"host"}),
         addHostDirectory |-> Write({"host", "path"}),
         removeHostDirectory |-> Write({"host", "path"}),
         upgradeHostAgent |-> Write({"host"})]

TokenWrites ==
    [createAutomationApiToken |->
        Op("tokens:write", "tokens:write", {"host", "project", "path"}, "no", "acts"),
     revokeAutomationApiToken |-> Op("tokens:write", "tokens:write", {}, "no", "acts")]

CatalogWrites ==
    [upsertHostPathMapping |-> Op("paths:write", "paths:write", {"host", "path"}, "no", "all"),
     deleteHostPathMapping |-> Op("paths:write", "paths:write", {"host"}, "no", "all"),
     upsertProcessTemplate |-> Op("runtime:templates:write", "runtime:templates:write",
                                  {"host", "project", "path"}, "no", "all"),
     deleteProcessTemplate |-> Op("runtime:templates:write", "runtime:templates:write",
                                  {"host", "project"}, "no", "all"),
     ensureProcessFromTemplate |-> Op("runtime:ensure", "runtime:ensure",
                                      {"host", "project", "path"}, "given", "all")]

RegistryWrites ==
    [ensureDesiredProcess |-> Op("runtime:ensure", "runtime:ensure",
                                 {"host", "project", "path"}, "yes", "all"),
     deleteDesiredProcessDefinition |-> Op("runtime:delete", "runtime:delete",
                                           {"host", "project", "path"}, "no", "all"),
     ensureDeploymentInstance |-> Op("runtime:deployments:write", "runtime:ensure",
                                     {"host", "project", "path"}, "no", "all"),
     deleteDeploymentInstance |-> Op("runtime:deployments:delete", "runtime:delete",
                                     {}, "no", "all")]

KeyWrites ==
    [setHostRuntimeEnv |-> Op("runtime:host-env:write", "runtime:ensure", {"host"}, "no", "all"),
     upsertHostSshKeyConfig |-> Op("hosts:ssh-key:write", "hosts:write", {"host"}, "no", "all"),
     deleteHostSshKeyConfig |-> Op("hosts:ssh-key:delete", "hosts:write", {"host"}, "no", "all"),
     softKillProcess |-> Op("runtime:kill:soft", "runtime:kill:soft", {"host"}, "no", "all"),
     hardKillProcess |-> Op("runtime:kill:hard", "runtime:kill:hard", {"host"}, "no", "all")]

ShellWrites ==
    LET Write(shows) == Op("hosts:write", "hosts:write", shows, "no", "none")
        Toggle == Op("runtime:ensure", "runtime:ensure", {"path"}, "yes", "all")
    IN  [checkoutHostProject |-> Write({"host", "path"}),
         startHostTerminalSession |-> Write({"host"}),
         sendHostTerminalInput |-> Write({}),
         closeHostTerminalSession |-> Write({}),
         toggleProjectRuntime |-> Toggle,
         toggleServiceRuntime |-> Toggle,
         setProjectPortRangeSettings |-> Op("runtime:ensure", "runtime:ensure", {"path"},
                                            "no", "none")]

ReadNames == DOMAIN Reads \union DOMAIN RuntimeReads \union DOMAIN ProjectReads

\* All of them, by name.
Operation(op) ==
    CASE op \in DOMAIN Reads -> Reads[op]
      [] op \in DOMAIN RuntimeReads -> RuntimeReads[op]
      [] op \in DOMAIN ProjectReads -> ProjectReads[op]
      [] op \in DOMAIN HostWrites -> HostWrites[op]
      [] op \in DOMAIN TokenWrites -> TokenWrites[op]
      [] op \in DOMAIN CatalogWrites -> CatalogWrites[op]
      [] op \in DOMAIN RegistryWrites -> RegistryWrites[op]
      [] op \in DOMAIN KeyWrites -> KeyWrites[op]
      [] op \in DOMAIN ShellWrites -> ShellWrites[op]

-----------------------------------------------------------------------------
(* The decision.                                                           *)

\* The mode that an action requires, by what its target shows.  Actions that are not
\* listed require the first.
MODE_REQUIREMENTS(action, target) ==
    LET byTarget == IF target.project # 0 THEN "operate-project"
                    ELSE IF target.host # 0 THEN "operate-host" ELSE "admin"
    IN  CASE action = "runtime:ensure" /\ target.raw -> "operate-project"
          [] action = "runtime:ensure" /\ ~target.raw -> "operate-template"
          [] action \in {"runtime:delete", "runtime:restart", "runtime:kill:soft",
                         "runtime:kill:hard"} -> "operate-template"
          [] action \in {"runtime:templates:write", "paths:write"} -> byTarget
          [] action = "hosts:write" -> "operate-host"
          [] action \in {"audit:read", "tokens:read", "tokens:write"} -> "admin"
          [] OTHER -> "observe"

\* The path that the rules see of those by which a call may name one place: the first that
\* is given.  Of the others they see nothing, and the call is made with all of them.
NamedPath(call) == Or(call.path, Or(call.projectPath, Or(call.codexPath, call.cwd)))

\* to is a second path, which is always shown.
ShownPaths(call) == {NamedPath(call), call.to} \ {<<>>}

\* What the rules see of a call.  A command of the caller's own is raw; arguments of his
\* own for the command of a template are not, and are left out here.
TargetOf(call) ==
    LET op == Operation(call.op)
    IN  [host    |-> IF "host" \in op.shows THEN call.host ELSE 0,
         project |-> IF "project" \in op.shows THEN call.project ELSE 0,
         paths   |-> IF "path" \in op.shows THEN ShownPaths(call) ELSE {},
         raw     |-> op.raw = "yes" \/ (op.raw = "given" /\ call.raw),
         hard    |-> call.op = "hardKillProcess"]

\* Seeded fault: a target that does not name a host is not held against the token.
OnlyIfNamed(token, target) ==
    /\ token.hosts # {} => target.host \in token.hosts \union {0}
    /\ token.projects # {} => target.project \in token.projects \union {0}

\* As it is written: ".." is a name like any other, and the root a prefix of nothing.
pathStartsWith(path, prefix) == prefix # <<>> /\ IsPrefix(prefix, path)

\* The hosts, projects and paths a token is limited to.  A call that shows no path
\* is within any prefix.
assertScopeConstraints(token, target) ==
    /\ token.hosts # {} => target.host \in token.hosts
    /\ token.projects # {} => target.project \in token.projects
    /\ token.prefixes # {} =>
          \A path \in target.paths :
             \E prefix \in token.prefixes : pathStartsWith(path, prefix)

\* A token with a raw command, whatever its scopes.
RawAllowed(token, scopes) ==
    /\ isModeAtLeast(token.mode, "operate-project")
    /\ "runtime:raw-command" \in scopes
    /\ token.raw

\* Whether a token allows a call; call.full: it creates a token of full access; fullAccess: whether full access tokens are enabled.
authorizeLifecycleAction(token, call, fullAccess) ==
    LET op     == Operation(call.op)
        target == TargetOf(call)
        scopes == expandScopesForAccessMode(token)
    IN  IF token.mode = "full-access"
        THEN fullAccess /\ assertScopeConstraints(token, target)
        ELSE /\ isModeAtLeast(token.mode, MODE_REQUIREMENTS(op.action, target))
             /\ op.scopes \subseteq scopes
             /\ target.raw => RawAllowed(token, scopes)
             /\ target.hard => "runtime:kill:hard" \in scopes
             /\ call.full => "admin:full-access" \in scopes
             /\ assertScopeConstraints(token, target)
=============================================================================
